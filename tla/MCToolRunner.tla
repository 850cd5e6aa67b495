---------------------------- MODULE MCToolRunner ----------------------------
(***************************************************************************)
(* Instances of ToolRunner for TLC.                                        *)
(***************************************************************************)
EXTENDS ToolRunner

CONSTANTS t1, t2, v1, v2   \* threads and input maps, as model values

TwoThreads == {t1, t2}
TwoVals    == {v1, v2}
SomePost   == {v1}

Concurrent == {{"concurrent"}}
=============================================================================
