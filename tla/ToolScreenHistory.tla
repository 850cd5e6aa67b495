------------------------- MODULE ToolScreenHistory --------------------------
(***************************************************************************)
(* ToolScreen with what its user meant: the page the user's last choice    *)
(* leads to, and the run each cancel was pressed for.                      *)
(***************************************************************************)
EXTENDS ToolScreen

VARIABLES
  wants,     \* "form" or "results"
  target     \* of each worker: the run the screen showed when it was spawned

hvars == <<vars, wants, target>>

\* A user who waits for the screen to react, alone with the tool, refreshes
\* that are quicker than the user, a Start that is prompt, a results file that
\* is there from the start: then what the screen shows last is the newest run.
Tame == env \subseteq {"fail", "continuous"}

HInit ==
  /\ Init
  /\ wants = mode
  /\ target = [w \in Workers |-> 0]

HNext ==
  /\ Next
  /\ wants' = IF KeyToForm \/ KeyCancels THEN mode'
              ELSE IF Submitted THEN "results" ELSE wants
  /\ target' = [w \in Workers |->
                 IF Tame /\ pc'[w] = "stop" THEN IF pc[w] = "idle" THEN latest ELSE target[w]
                                            ELSE 0]

HSpec == HInit /\ [][HNext]_hvars

HFairSpec == HSpec /\ Fairness

-----------------------------------------------------------------------------
\* The text of the running view, "results will show when complete", taken at
\* its word: if the user came here by a submit, or found the tool running,
\* and has not cancelled, the page behind the running view is the results.
ResultsWillShow == running /\ wants = "results" => mode = "results"

\* A user who waits is not disappointed.
PromiseKept == Tame => ResultsWillShow

\* An error of Start or of the form is not hidden behind the results: until
\* the next submit takes it away the form, which draws it, is the page (or
\* the page behind the running view).  Stop shows the results, so this is
\* about the tools with a Cancel.
ErrorShown == Tame /\ "continuous" \notin env => (err /\ ui # "submit" => mode = "form")

\* A cancel ends the run the user saw when pressing it, or nothing: never a
\* later one.
CancelsSeenRun ==
  Tame => \A w \in Workers : pc[w] = "stop" /\ Running => runs = target[w]
=============================================================================
