---------------------------- MODULE MCToolScreen ----------------------------
(***************************************************************************)
(* Instances of ToolScreen for TLC.                                        *)
(***************************************************************************)
EXTENDS ToolScreenHistory

CONSTANTS w1, w2   \* workers, as model values

TwoWorkers == {w1, w2}

ScreenEnvs ==
  {{"fail"}, {"fail", "continuous"}, {"slow_start", "continuous"}, {"late"}, {"lag", "other"}}
HastyEnv == {{"hasty"}}
=============================================================================
