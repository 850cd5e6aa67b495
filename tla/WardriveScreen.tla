--------------------------- MODULE WardriveScreen ---------------------------
(***************************************************************************)
(* The wardrive HUD of internal/lcd/wardrive.go: the UI goroutine's keys   *)
(* and draws, the poller, and a goroutine per Enter, which toggles the     *)
(* capture, sleeps 300 ms and refreshes.  How a Core finds a capture, and  *)
(* what it takes for one, is Wardrive's matter; here a capture has a       *)
(* number and an interface, and Status reports the one that is on.         *)
(***************************************************************************)
EXTENDS Integers, FiniteSets

CONSTANTS
  Togglers,    \* bound: the goroutines of toggle there may be at once
  NIfaces,     \* the interfaces Interfaces() listed when the screen was made
  MaxCaptures, \* bound on the captures
  HudEnvSets   \* the environments to consider: sets of Circumstances

(*   other   another front end starts and stops captures too               *)
(*   hasty   the user presses Enter although a toggle is under way         *)
(*   lag     a look, its store and the draw that shows it may be apart,    *)
(*           and keys come in between                                      *)
(*   fail    systemctl may fail                                            *)
Circumstances == {"other", "hasty", "lag", "fail"}

ASSUME HudAssumption == /\ {NIfaces, MaxCaptures} \subseteq Nat
                        /\ HudEnvSets \subseteq SUBSET Circumstances

VARIABLES
  hudEnv,    \* the environment of this behaviour
  capture,   \* the capture that is on
  count,     \* captures so far
  st,        \* the snapshot
  ifaceIdx,  \* the selected interface, counted from 0
  showPass,  \* the password is revealed
  drawn,     \* what the last Draw showed
  poller,    \* where the poller is, and what its Status said
  toggler,   \* the togglers: also what was captured, and what was on the LCD
  gone       \* the screen is popped, the stop channel closed

hudVars == <<hudEnv, capture, count, st, ifaceIdx, showPass, drawn, poller, toggler, gone>>

NoIface    == -1
Indices    == 0 .. NIfaces - 1
Captures   == [number : 1 .. MaxCaptures, iface : Indices]
NoCapture  == [number |-> 0, iface |-> NoIface]
Reports    == Captures \cup {NoCapture}
Running(s) == s # NoCapture

\* What a Draw shows: the snapshot, and the selected interface if it is idle
\* and the password is not in its place.
Shown(s, idx, pass) ==
  [st |-> s, iface |-> IF Running(s) \/ pass \/ NIfaces = 0 THEN NoIface ELSE idx]

Screens  == [st : Reports, iface : Indices \cup {NoIface}]
IdlePoll == [at |-> "idle", seen |-> NoCapture]
IdleToggle == [at |-> "idle", running |-> FALSE, iface |-> NoIface, seen |-> NoCapture,
               lcd |-> Shown(NoCapture, 0, TRUE)]

HudTypeOK ==
  /\ hudEnv \in HudEnvSets /\ capture \in Reports /\ count \in 0 .. MaxCaptures
  /\ st \in Reports /\ ifaceIdx \in Indices \cup {0} /\ showPass \in BOOLEAN
  /\ drawn \in Screens
  /\ poller \in [at : {"idle", "store", "done"}, seen : Reports]
  /\ toggler \in [Togglers -> [at : {"idle", "act", "sleep", "store"}, running : BOOLEAN,
                               iface : Indices \cup {NoIface}, seen : Reports, lcd : Screens]]
  /\ gone \in BOOLEAN

\* NewWardrive; wlan1 is preferred, wherever it is.  The first look is the
\* poller's.
HudInit ==
  /\ hudEnv \in HudEnvSets
  /\ capture \in {c \in Reports : c.number <= 1} /\ count = capture.number
  /\ ifaceIdx \in (IF NIfaces = 0 THEN {0} ELSE Indices) /\ showPass = FALSE
  /\ st = NoCapture /\ drawn = Shown(st, ifaceIdx, showPass)
  /\ poller = IdlePoll /\ toggler = [t \in Togglers |-> IdleToggle]
  /\ gone = FALSE

----------------------------------------------------------------------------
(* refresh, of the poller and of the togglers.                             *)

\* Without "lag" a look, its store and the draw that shows it are one step.
Lagging == "lag" \in hudEnv

Displays(s) == /\ st' = s
               /\ drawn' = IF gone THEN drawn ELSE Shown(s, ifaceIdx, showPass)

\* Mutant: only a running capture is polled.
PollLookRunning ==
  /\ poller.at = "idle" /\ Running(st)
  /\ IF Lagging THEN poller' = [at |-> "store", seen |-> capture] /\ UNCHANGED <<st, drawn>>
                ELSE Displays(capture) /\ UNCHANGED poller
  /\ UNCHANGED <<hudEnv, capture, count, ifaceIdx, showPass, toggler, gone>>

PollLook ==
  /\ poller.at = "idle"
  /\ IF Lagging THEN poller' = [at |-> "store", seen |-> capture] /\ UNCHANGED <<st, drawn>>
                ELSE Displays(capture) /\ UNCHANGED poller
  /\ UNCHANGED <<hudEnv, capture, count, ifaceIdx, showPass, toggler, gone>>

PollStore == /\ poller.at = "store" /\ poller' = IdlePoll /\ st' = poller.seen
             /\ UNCHANGED <<hudEnv, capture, count, ifaceIdx, showPass, drawn, toggler, gone>>

\* A tick and the closed channel may both be ready; select takes either.
PollQuits == /\ poller.at = "idle" /\ gone /\ poller' = [poller EXCEPT !.at = "done"]
             /\ UNCHANGED <<hudEnv, capture, count, st, ifaceIdx, showPass, drawn, toggler, gone>>

ToggleLook(t) ==
  /\ toggler[t].at = "sleep"
  /\ IF Lagging
       THEN /\ toggler' = [toggler EXCEPT ![t].at = "store", ![t].seen = capture]
            /\ UNCHANGED <<st, drawn>>
       ELSE Displays(capture) /\ toggler' = [toggler EXCEPT ![t] = IdleToggle]
  /\ UNCHANGED <<hudEnv, capture, count, ifaceIdx, showPass, poller, gone>>

ToggleStore(t) ==
  /\ toggler[t].at = "store"
  /\ toggler' = [toggler EXCEPT ![t] = IdleToggle] /\ st' = toggler[t].seen
  /\ UNCHANGED <<hudEnv, capture, count, ifaceIdx, showPass, drawn, poller, gone>>

----------------------------------------------------------------------------
(* toggle: what it captured decides; Start is refused while a capture is   *)
(* on, errors are dropped.                                                 *)

StartOn(iface) == /\ capture = NoCapture /\ count < MaxCaptures
                  /\ count' = count + 1 /\ capture' = [number |-> count + 1, iface |-> iface]

StopIt == capture' = NoCapture /\ UNCHANGED count

\* Mutant: the goroutine looks at the screen itself.
CapturedLate(t) ==
  [running |-> Running(st), iface |-> IF NIfaces = 0 THEN NoIface ELSE ifaceIdx]

\* The arguments of the go statement.
Captured(t) == [running |-> toggler[t].running, iface |-> toggler[t].iface]

ToggleActs(t) ==
  /\ toggler[t].at = "act"
  /\ toggler' = [toggler EXCEPT ![t] = [IdleToggle EXCEPT !.at = "sleep"]]
  /\ \/ Captured(t).running /\ StopIt
     \/ ~Captured(t).running /\ Captured(t).iface # NoIface /\ StartOn(Captured(t).iface)
     \/ /\ \/ "fail" \in hudEnv
           \/ ~Captured(t).running
                /\ (Captured(t).iface = NoIface \/ Running(capture) \/ count = MaxCaptures)
        /\ UNCHANGED <<capture, count>>
  /\ UNCHANGED <<hudEnv, st, ifaceIdx, showPass, drawn, poller, gone>>

----------------------------------------------------------------------------
(* The UI goroutine.                                                       *)

Draw == /\ ~gone /\ drawn # Shown(st, ifaceIdx, showPass)
        /\ drawn' = Shown(st, ifaceIdx, showPass)
        /\ UNCHANGED <<hudEnv, capture, count, st, ifaceIdx, showPass, poller, toggler, gone>>

KeyEnter(t) ==
  /\ ~gone /\ toggler[t].at = "idle"
  /\ "hasty" \in hudEnv \/ \A u \in Togglers : toggler[u].at = "idle"
  /\ toggler' = [toggler EXCEPT ![t] =
       [IdleToggle EXCEPT !.at = "act", !.running = Running(st), !.lcd = drawn,
                          !.iface = IF NIfaces = 0 THEN NoIface ELSE ifaceIdx]]
  /\ UNCHANGED <<hudEnv, capture, count, st, ifaceIdx, showPass, drawn, poller, gone>>

\* Left and right; the app draws after a key.
KeySelects ==
  /\ ~gone /\ ~Running(st) /\ NIfaces > 0
  /\ \E step \in {-1, 1} : ifaceIdx' = (ifaceIdx + step + NIfaces) % NIfaces
  /\ drawn' = Shown(st, ifaceIdx', showPass)
  /\ UNCHANGED <<hudEnv, capture, count, st, showPass, poller, toggler, gone>>

KeyReveals == /\ ~gone /\ showPass' = ~showPass
              /\ drawn' = Shown(st, ifaceIdx, showPass')
              /\ UNCHANGED <<hudEnv, capture, count, st, ifaceIdx, poller, toggler, gone>>

KeyPops == /\ ~gone /\ gone' = TRUE
           /\ UNCHANGED <<hudEnv, capture, count, st, ifaceIdx, showPass, drawn, poller, toggler>>

\* The web, or kismet ends by itself.
Others == /\ "other" \in hudEnv
          /\ (Running(capture) /\ StopIt) \/ \E i \in Indices : StartOn(i)
          /\ UNCHANGED <<hudEnv, st, ifaceIdx, showPass, drawn, poller, toggler, gone>>

Toggle(t) == ToggleActs(t) \/ ToggleLook(t) \/ ToggleStore(t)
Poll      == PollLook \/ PollStore

HudNext == \/ Poll \/ PollQuits \/ \E t \in Togglers : Toggle(t) \/ KeyEnter(t)
           \/ Draw \/ KeySelects \/ KeyReveals \/ KeyPops \/ Others

\* The app draws at 5 Hz, the ticker of the poller ticks, goroutines run.
HudFairness == /\ WF_hudVars(Draw) /\ WF_hudVars(Poll) /\ SF_hudVars(PollQuits)
               /\ \A t \in Togglers : WF_hudVars(Toggle(t))

HudSpec == HudInit /\ [][HudNext]_hudVars

----------------------------------------------------------------------------
(* Properties.                                                             *)

\* A toggle does what the LCD offered when Enter was pressed, however many
\* keys and stores came in between: over an idle HUD it can only start, and,
\* if the HUD showed an interface, on that one; over a running one it can only
\* stop, and, with a patient user and no other front end, the very capture
\* that was shown.  Said of an LCD that is drawn before the next key is read:
\* "lag", a key that acts on what is stored and not drawn yet, is left out.
ActsAsShown ==
  [][\A t \in Togglers :
       LET lcd == toggler[t].lcd IN
         /\ toggler[t].at = "act" /\ toggler'[t].at = "sleep" /\ capture' # capture
         /\ "lag" \notin hudEnv
         => IF Running(lcd.st)
              THEN /\ capture' = NoCapture
                   /\ hudEnv \cap {"other", "hasty"} = {} => capture = lcd.st
              ELSE /\ Running(capture')
                   /\ lcd.iface # NoIface => capture'.iface = lcd.iface]_hudVars

\* Once captures come and go no more, an open HUD comes to show what is on,
\* although refreshes of several goroutines overtake each other; and a popped
\* one has no goroutine left.
EventuallyShows ==
  <>[][FALSE]_capture =>
    <>[](IF gone THEN poller.at = "done" /\ \A t \in Togglers : toggler[t].at = "idle"
                 ELSE st = capture /\ drawn.st = capture)
=============================================================================
