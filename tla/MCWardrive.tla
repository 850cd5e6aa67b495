----------------------------- MODULE MCWardrive -----------------------------
(***************************************************************************)
(* Instances of Wardrive for TLC: which environments a run considers.      *)
(***************************************************************************)
EXTENDS Wardrive

CONSTANTS c1, c2   \* Cores, as model values

OneCore  == {c1}
TwoCores == {c1, c2}

AllEnvs     == SUBSET Conditions
OrdinaryEnv == {{}}
SlowEnv     == {{"slow_start"}}
LiveEnvs    == {{"slow_start", "stop_error"}, {"restart"}}
=============================================================================
