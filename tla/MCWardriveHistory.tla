------------------------- MODULE MCWardriveHistory --------------------------
(***************************************************************************)
(* Two Cores, the web worker's and the LCD's, with the history variables.  *)
(***************************************************************************)
EXTENDS WardriveHistory, TLC

CONSTANTS c1, c2   \* Cores, as model values

TwoCores == {c1, c2}
CoreSymmetry == Permutations(TwoCores)

SharedEnvs == {{"unplug", "unreadable"}, {"slow_start", "stop_error"}, {"restart"}}
=============================================================================
