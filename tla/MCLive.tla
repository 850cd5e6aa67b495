------------------------------- MODULE MCLive -------------------------------
(***************************************************************************)
(* Instances for TLC of parts that share no state, and of which liveness   *)
(* is claimed, side by side as in MCParts.  A part's fairness is asked for *)
(* while it is the one that moves.                                         *)
(***************************************************************************)
EXTENDS Login, ImageCache, WardriveScreen

VARIABLE part    \* the part that moves

liveVars == <<part, loginVars, imageVars, hudVars>>

LiveInit ==
  /\ part \in {"login", "image", "hud"}
  /\ LoginInit
  /\ ImageInit /\ (part = "image" \/ imageEnv = {})
  /\ HudInit   /\ (part = "hud" \/ (hudEnv = {"fail"} /\ capture = NoCapture /\ ifaceIdx = 0))

\* A step of one part, and who rests.
Alone(name, next, rest) == part = name /\ next /\ UNCHANGED <<part, rest>>

LoginAlone(next) == Alone("login", next, <<imageVars, hudVars>>)
ImageAlone(next) == Alone("image", next, <<loginVars, hudVars>>)
HudAlone(next)   == Alone("hud", next, <<loginVars, imageVars>>)

LiveNext == LoginAlone(LoginNext) \/ ImageAlone(ImageNext) \/ HudAlone(HudNext)

\* LoginFairness, ImageFairness and HudFairness.
LiveFairness ==
  /\ WF_liveVars(LoginAlone(LoginTick))
  /\ \A b \in Browsers : WF_liveVars(LoginAlone(Serving(b)))
  /\ \A v \in Viewers  : WF_liveVars(ImageAlone(ConvertSteps(v)))
  /\ WF_liveVars(HudAlone(Draw))
  /\ WF_liveVars(HudAlone(Poll)) /\ SF_liveVars(HudAlone(PollQuits))
  /\ \A t \in Togglers : WF_liveVars(HudAlone(Toggle(t)))

LiveSpec == LiveInit /\ [][LiveNext]_liveVars /\ LiveFairness

\* The types of all parts.
LiveTypeOK == LoginTypeOK /\ ImageTypeOK /\ HudTypeOK

----------------------------------------------------------------------------
ImageEnvs == {{}, {"quit"}, {"growing"}, {"full"}}
HudEnvs  == {{"fail"}, {"hasty", "other"}, {"lag"}}
=============================================================================
