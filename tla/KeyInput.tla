------------------------------ MODULE KeyInput ------------------------------
(***************************************************************************)
(* The keypad of the LCD binary: ReadKeys of internal/lcd/input.go and the *)
(* key case of App.Run.  Three goroutines form a pipeline: the reader      *)
(* moves events from the kernel's evdev queue to the channel raw, the      *)
(* controller tracks shift, repeats the held key and sends Events to the   *)
(* channel out, the app takes them.  Each blocks when the next is full.    *)
(***************************************************************************)
EXTENDS Integers, Sequences, FiniteSets

CONSTANTS
  Shifts,      \* the codes of the shift keys
  Commits,     \* codes that do something once per press: enter, esc, tab
  Others,      \* the other codes that mean something
  Backs,       \* those of Commits that leave a screen: esc
  Dead,        \* codes mapKey and printableRune both know nothing of
  None,        \* no key, no event
  MaxDown,     \* bound: how many keys are down at once
  KernelMax,   \* bound: events in the evdev queue; it does not overflow
  RawMax,      \* room in raw (32 in the code)
  OutMax,      \* room in out (16 in the code)
  EnvSets      \* the environments to consider: sets of Conditions

(*   unplugged  a read of the device may fail                              *)
(*   signal     a signal may cancel the context                            *)
Conditions == {"unplugged", "signal"}

Codes == Shifts \cup Commits \cup Others \cup Dead

ASSUME CodesAssumption ==
  /\ None \notin Codes
  /\ Shifts \cap (Commits \cup Others \cup Dead) = {}
  /\ Commits \cap (Others \cup Dead) = {} /\ Others \cap Dead = {}
  /\ Backs \subseteq Commits
ASSUME SizesAssumption == {MaxDown, KernelMax, RawMax, OutMax} \subseteq Nat \ {0}
ASSUME EnvAssumption   == EnvSets \subseteq SUBSET Conditions

VARIABLES
  env,        \* the environment of this behaviour, fixed in Init
  down,       \* the keys that are physically down
  kernel,     \* the evdev queue
  hand,       \* the event the reader has read and not sent yet
  readerUp,   \* the reader runs; raw is closed when it does not
  raw,        \* the channel from reader to controller
  shift,      \* the controller's shift flag
  held,       \* the Event that repeats (heldCode, heldEvent), or None
  sending,    \* what the controller blocks on in emit, or None
  ctlUp,      \* the controller runs; out is closed when it does not
  out,        \* the channel from controller to app
  appUp,      \* App.Run has not returned; the process ends when it does
  cancelled   \* the context is done

reader     == <<kernel, hand, readerUp>>
controller == <<shift, held, sending, ctlUp>>
vars == <<env, down, reader, raw, controller, out, appUp, cancelled>>

Raws   == [code : Codes, press : BOOLEAN]
Events == [code : Commits \cup Others, upper : BOOLEAN]

\* What a blocked emit sends, and the held key once it returns.
Sends == [event : Events, held : Events \cup {None}]

ASSUME NoneAssumption == None \notin Raws \cup Events \cup Sends

TypeOK ==
  /\ env \in EnvSets
  /\ down \subseteq Codes
  /\ kernel \in Seq(Raws) /\ Len(kernel) <= KernelMax
  /\ hand \in Raws \cup {None}
  /\ readerUp \in BOOLEAN
  /\ raw \in Seq(Raws) /\ Len(raw) <= RawMax
  /\ shift \in BOOLEAN
  /\ held \in Events \cup {None}
  /\ held # None => held.code \in Others
  /\ sending \in Sends \cup {None}
  /\ sending # None /\ sending.held # None => sending.held.code \in Others
  /\ ctlUp \in BOOLEAN
  /\ out \in Seq(Events) /\ Len(out) <= OutMax
  /\ appUp \in BOOLEAN
  /\ cancelled \in BOOLEAN

Init ==
  /\ env \in EnvSets
  /\ down = {} /\ kernel = <<>>
  /\ hand = None /\ readerUp = TRUE
  /\ raw = <<>>
  /\ shift = FALSE /\ held = None
  /\ sending = None /\ ctlUp = TRUE
  /\ out = <<>>
  /\ appUp = TRUE /\ cancelled = FALSE

(***************************************************************************)
(* The keypad, while the program runs.  It sends a press and a release,    *)
(* and never repeats.                                                      *)
(***************************************************************************)
Queue(r) ==
  /\ Len(kernel) < KernelMax
  /\ kernel' = Append(kernel, r)

Press(c) ==
  /\ appUp /\ c \notin down
  /\ Cardinality(down) < MaxDown
  /\ down' = down \cup {c}
  /\ Queue([code |-> c, press |-> TRUE])
  /\ UNCHANGED <<env, hand, readerUp, raw, controller, out, appUp, cancelled>>

Release(c) ==
  /\ appUp /\ c \in down
  /\ down' = down \ {c}
  /\ Queue([code |-> c, press |-> FALSE])
  /\ UNCHANGED <<env, hand, readerUp, raw, controller, out, appUp, cancelled>>

Cancel ==
  /\ "signal" \in env
  /\ cancelled' = TRUE
  /\ UNCHANGED <<env, down, reader, raw, controller, out, appUp>>

(***************************************************************************)
(* The reader goroutine.                                                   *)
(***************************************************************************)
ReadKey ==
  /\ readerUp /\ hand = None /\ kernel # <<>>
  /\ hand' = Head(kernel)
  /\ kernel' = Tail(kernel)
  /\ UNCHANGED <<env, down, readerUp, raw, controller, out, appUp, cancelled>>

SendRaw ==
  /\ readerUp /\ hand # None
  /\ Len(raw) < RawMax
  /\ raw' = Append(raw, hand)
  /\ hand' = None
  /\ UNCHANGED <<env, down, kernel, readerUp, controller, out, appUp, cancelled>>

\* The read fails: the device is gone, or closed once the context is done.
\* Or the select of the send takes ctx.Done.
ReaderQuits ==
  /\ readerUp
  /\ cancelled \/ ("unplugged" \in env /\ hand = None)
  /\ readerUp' = FALSE
  /\ hand' = None
  /\ UNCHANGED <<env, down, kernel, raw, controller, out, appUp, cancelled>>

(***************************************************************************)
(* The controller goroutine.  Selecting means: not blocked in emit.        *)
(***************************************************************************)
Selecting == ctlUp /\ sending = None

Take(r) ==
  /\ Selecting /\ raw # <<>>
  /\ r = Head(raw)
  /\ raw' = Tail(raw)
  /\ UNCHANGED <<env, down, reader, ctlUp, out, appUp, cancelled>>

TakeShift ==
  \E r \in [code : Shifts, press : BOOLEAN] :
    /\ Take(r)
    /\ shift' = r.press
    /\ UNCHANGED <<held, sending>>

\* Mutant: the commit keys repeat as well.
RepeatableAlways(c) == TRUE

Repeatable(c) == c \notin Commits

\* A press is emitted first; it becomes the held key when emit returns.
TakePress ==
  \E r \in [code : Commits \cup Others, press : {TRUE}] :
    LET e == [code |-> r.code, upper |-> shift] IN
    /\ Take(r)
    /\ sending' = [event |-> e, held |-> IF Repeatable(r.code) THEN e ELSE None]
    /\ UNCHANGED <<shift, held>>

TakeDead ==
  \E r \in [code : Dead, press : {TRUE}] :
    /\ Take(r)
    /\ held' = None
    /\ UNCHANGED <<shift, sending>>

\* Mutant: the release is compared with shift's code only.
TakeReleaseKeeps ==
  \E r \in [code : Codes \ Shifts, press : {FALSE}] :
    /\ Take(r)
    /\ UNCHANGED <<shift, held, sending>>

TakeRelease ==
  \E r \in [code : Codes \ Shifts, press : {FALSE}] :
    /\ Take(r)
    /\ held' = IF held # None /\ held.code = r.code THEN None ELSE held
    /\ UNCHANGED <<shift, sending>>

\* A tick that finds a key held for repeatDelay; the other ticks do nothing.
Tick ==
  /\ Selecting /\ held # None
  /\ sending' = [event |-> held, held |-> held]
  /\ UNCHANGED <<env, down, reader, raw, shift, held, ctlUp, out, appUp, cancelled>>

EmitReturns ==
  /\ held' = sending.held
  /\ sending' = None

\* Mutant: a send that does not wait; the Event is lost when out is full.
EmitDropping ==
  /\ ctlUp /\ sending # None
  /\ out' = IF Len(out) < OutMax THEN Append(out, sending.event) ELSE out
  /\ EmitReturns
  /\ UNCHANGED <<env, down, reader, raw, shift, ctlUp, appUp, cancelled>>

Emit ==
  /\ ctlUp /\ sending # None
  /\ Len(out) < OutMax
  /\ out' = Append(out, sending.event)
  /\ EmitReturns
  /\ UNCHANGED <<env, down, reader, raw, shift, ctlUp, appUp, cancelled>>

EmitGivesUp ==
  /\ ctlUp /\ sending # None
  /\ cancelled
  /\ EmitReturns
  /\ UNCHANGED <<env, down, reader, raw, shift, ctlUp, out, appUp, cancelled>>

\* Mutant: a closed raw is not noticed.
ControllerQuitsOnDone ==
  /\ Selecting /\ cancelled
  /\ ctlUp' = FALSE
  /\ UNCHANGED <<env, down, reader, raw, shift, held, sending, out, appUp, cancelled>>

\* The context is done, or raw is closed and drained; out is closed.
ControllerQuits ==
  /\ Selecting
  /\ cancelled \/ (raw = <<>> /\ ~readerUp)
  /\ ctlUp' = FALSE
  /\ UNCHANGED <<env, down, reader, raw, shift, held, sending, out, appUp, cancelled>>

(***************************************************************************)
(* The app takes an event and handles it; going back from the root screen  *)
(* ends it.  So do a done context and an out that is closed and drained.   *)
(***************************************************************************)
AppTakes ==
  /\ appUp /\ out # <<>>
  /\ out' = Tail(out)
  /\ appUp' \in IF Head(out).code \in Backs THEN BOOLEAN ELSE {TRUE}
  /\ UNCHANGED <<env, down, reader, raw, controller, cancelled>>

AppQuits ==
  /\ appUp
  /\ cancelled \/ (out = <<>> /\ ~ctlUp)
  /\ appUp' = FALSE
  /\ UNCHANGED <<env, down, reader, raw, controller, out, cancelled>>

-----------------------------------------------------------------------------
Keypad    == \E c \in Codes : Press(c) \/ Release(c)
TakeOne   == TakeShift \/ TakePress \/ TakeDead \/ TakeRelease
EmitEnds  == Emit \/ EmitGivesUp
Quit      == ReaderQuits \/ ControllerQuits \/ AppQuits

Next ==
  \/ Keypad \/ Cancel
  \/ ReadKey \/ SendRaw
  \/ TakeOne \/ Tick \/ EmitEnds
  \/ AppTakes \/ Quit

Spec == Init /\ [][Next]_vars

\* Goroutines run, and the app comes back from every Key.  Go's select picks
\* among the ready cases at random, so a case that is ready again and again
\* is picked.  A read of the device need never fail.
Fairness ==
  /\ WF_vars(ReadKey) /\ WF_vars(SendRaw)
  /\ SF_vars(TakeOne)
  /\ WF_vars(EmitEnds)
  /\ SF_vars(AppTakes)
  /\ WF_vars(cancelled /\ ReaderQuits)
  /\ SF_vars(ControllerQuits) /\ SF_vars(AppQuits)

FairSpec == Spec /\ Fairness

-----------------------------------------------------------------------------
(***************************************************************************)
(* Properties.                                                             *)
(***************************************************************************)
\* However far the controller and the app had fallen behind: once the user
\* has let go of every key for good, the software auto-repeat of ReadKeys
\* stops (or the program has ended).
RepeatStops ==
  <>[](down = {}) => <>[](~ctlUp \/ ~appUp \/ (held = None /\ sending = None))

\* "until ctx is cancelled": a signal, or a keypad that is gone, ends App.Run
\* through both channels, full or not, and with a key held or not.
Ends == cancelled \/ ~readerUp ~> ~appUp
=============================================================================
