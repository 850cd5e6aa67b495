------------------------- MODULE ToolRunnerHistory -------------------------
(***************************************************************************)
(* ToolRunner with two history variables: whose values the job file may    *)
(* hold when a Start launches, and when the runtool it launched reads it.  *)
(***************************************************************************)
EXTENDS ToolRunner

VARIABLES
  rivals,    \* of each Start: the values of all Starts under way since its call
  given      \* of each unit: the values a run of it may come to have

hvars == <<vars, rivals, given>>

\* The values of the Starts that are under way.
UnderWay == {vals[t] : t \in {s \in Threads : pc[s] # "idle"}}

HTypeOK ==
  /\ TypeOK
  /\ rivals \in [Threads -> SUBSET Vals]
  /\ given \in [Classes -> SUBSET Vals]

HInit ==
  /\ Init
  /\ rivals = [t \in Threads |-> {}]
  /\ given = [u \in Classes |-> {}]

\* The threads whose Start ends in this step at its launch.
Launching == {t \in Threads : pc[t] = "launch" /\ pc'[t] = "idle"}

\* What is added to the values of u: the launching Start's when the unit comes
\* up, and until its runtool has read the job file those of every other one.
Gains(u) ==
  IF unit[u] = "inactive" THEN UNION {rivals[t] : t \in Launching}
  ELSE IF unit[u] \in {"queued", "exec", "loaded"} THEN UnderWay' ELSE {}

Remember ==
  /\ rivals' = [t \in Threads |-> IF pc'[t] = "idle" THEN {} ELSE rivals[t] \cup UnderWay']
  /\ given' = [u \in Classes |-> IF unit'[u] = "inactive" THEN {} ELSE given[u] \cup Gains(u)]

HNext == Next /\ Remember

HSpec == HInit /\ [][HNext]_hvars

----------------------------------------------------------------------------
\* Whatever happens, a command runs with no values or with those of a Start of
\* its own time: the one that launched it, one under way together with that,
\* or one that was called before runtool read the job file.  Never with those
\* of an earlier Start, whether that was run, failed, was stopped or killed.
ValuesGiven == \A u \in Classes : AtWork(u) => runVals[u] \in given[u] \cup {NoVals}

----------------------------------------------------------------------------
(* The inductive invariant behind it.                                      *)
Broken == {"truncated", "garbled"}

HInv ==
  /\ \A s, t \in Threads : pc[s] # "idle" /\ pc[t] # "idle" => vals[s] \in rivals[t]
  /\ \A t \in Threads : pc[t] \in {"write", "chmod", "launch"} => text \in rivals[t] \cup Broken
  /\ \A u \in Classes : unit[u] \in {"queued", "exec", "loaded"} =>
        text \in given[u] \cup Broken /\ UnderWay \subseteq given[u]
  /\ ValuesGiven
=============================================================================
