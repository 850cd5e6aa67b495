----------------------------- MODULE ToolScreen -----------------------------
(***************************************************************************)
(* One ToolScreen of internal/lcd/toolscreen.go, from NewToolScreen to     *)
(* past its Close.  Four kinds of goroutines share its fields: the UI      *)
(* (keys), the poller, and a worker per submit or cancel, which calls the  *)
(* Runner, sleeps 300 ms and refreshes.  A refresh looks outside without   *)
(* the lock and stores what it saw under it.  The tool itself (see         *)
(* ToolRunner and Outputs) is only a unit, the number of its runs, and the *)
(* run whose results file is the newest here.                              *)
(***************************************************************************)
EXTENDS Integers, FiniteSets

CONSTANTS
  Poller,      \* the goroutine of poll
  Workers,     \* bound: the goroutines of start and cancel there may be at once
  None,        \* no lines, nothing sampled
  EnvSets,     \* the environments to consider: sets of Conditions
  MaxRuns      \* bound on the runs

(*   other       another frontend, or another screen, starts and stops too *)
(*   hasty       the user submits although a worker is under way           *)
(*   lag         a refresh between look and store, or a Key between its    *)
(*               snapshot and its end, may be overtaken                    *)
(*   slow_start  `systemctl start --no-block` returns before the process   *)
(*               is in its cgroup, and 300 ms may be too short             *)
(*   fail        Start and Stop may fail                                   *)
(*   late        the spec's results file is one the tool writes, some time *)
(*               after its start or never, and not what runtool creates    *)
(*   continuous  the spec's running view has a Stop instead of Cancel and  *)
(*               Background                                                *)
Conditions == {"continuous", "other", "hasty", "lag", "slow_start", "fail", "late"}

ASSUME GoroutinesAssumption == Poller \notin Workers /\ IsFiniteSet(Workers)
ASSUME NoneAssumption == None \notin Nat /\ None \notin [run : Nat, whole : BOOLEAN]
ASSUME EnvAssumption  == EnvSets \subseteq SUBSET Conditions
ASSUME RunsAssumption == MaxRuns \in Nat \ {0}

VARIABLES
  env,        \* the environment of this behaviour, fixed in Init
  unit,       \* systemd's state of the tool's unit
  runs,       \* number of the newest run, 0: there was none
  file,       \* the run of the newest results file, 0: there is none
  running,    \* ToolScreen.running
  latest,     \* ToolScreen.latest
  lines,      \* ToolScreen.lines: of which run, and whether of all of it
  err,        \* ToolScreen.err: is there a text?
  mode,       \* ToolScreen.mode
  button,     \* ToolScreen.runDix: the focused button of the running view
  closed,     \* the stop channel is closed: the app has popped the screen
  ui,         \* what the UI goroutine does
  pc,         \* where poller and workers are
  seen        \* what the refresh of each has seen so far

world  == <<unit, runs, file>>
shown  == <<running, latest, lines>>
form   == <<err, mode, button>>
vars   == <<env, world, shown, form, closed, ui, pc, seen>>

Goroutines == Workers \cup {Poller}

Runs  == 0 .. MaxRuns
Lines == [run : Runs \ {0}, whole : BOOLEAN] \cup {None}
Sight == [running : BOOLEAN, latest : Runs, lines : Lines]
Blank == [running |-> FALSE, latest |-> 0, lines |-> None]

UIPlaces == {"idle", "running", "other", "submit"}
Places   == {"idle", "start", "stop", "sleep", "list", "store", "done"}

TypeOK ==
  /\ env \in EnvSets
  /\ unit \in {"inactive", "queued", "active"} /\ runs \in Runs /\ file \in 0 .. runs
  /\ running \in BOOLEAN /\ latest \in Runs /\ lines \in Lines
  /\ running => lines = None
  /\ lines # None => lines.run = latest
  /\ err \in BOOLEAN /\ mode \in {"results", "form"} /\ button \in {"cancel", "background"}
  /\ closed \in BOOLEAN
  /\ ui \in UIPlaces
  /\ pc \in [Goroutines -> Places]
  /\ pc[Poller] \notin {"start", "stop", "sleep"}
  /\ seen \in [Goroutines -> Sight]

(***************************************************************************)
(* Looking.  Running's "don't know" is left to ToolRunner.                 *)
(***************************************************************************)
Running == unit = "active"

LinesOf(r, isRunning) ==
  IF isRunning \/ r = 0 THEN None ELSE [run |-> r, whole |-> unit = "inactive" \/ r < runs]

\* NewToolScreen has refreshed; a screen with nothing to show opens the form.
Init ==
  /\ env \in EnvSets
  /\ unit \in {"inactive", "active"} /\ runs \in 0 .. 1
  /\ unit = "active" => runs = 1
  /\ file \in IF "late" \in env THEN 0 .. runs ELSE {runs}
  /\ running = Running /\ latest = file /\ lines = LinesOf(file, Running)
  /\ err = FALSE /\ button = "background"
  /\ mode = IF ~Running /\ file = 0 THEN "form" ELSE "results"
  /\ closed = FALSE
  /\ ui = "idle"
  /\ pc = [g \in Goroutines |-> "idle"]
  /\ seen = [g \in Goroutines |-> Blank]

\* Without "lag" nothing happens while a refresh or a Key is under way.
Undisturbed ==
  "lag" \in env \/ (ui = "idle" /\ \A g \in Goroutines : pc[g] \notin {"list", "store"})

Goto(g, place) == pc' = [pc EXCEPT ![g] = place]

(***************************************************************************)
(* refresh: of the poller when its ticker ticks, of a worker after its     *)
(* sleep.                                                                  *)
(***************************************************************************)
Look(g) ==
  /\ pc[g] = IF g = Poller THEN "idle" ELSE "sleep"
  /\ Undisturbed
  /\ seen' = [seen EXCEPT ![g].running = Running]
  /\ Goto(g, "list")
  /\ UNCHANGED <<env, world, shown, form, closed, ui>>

List(g) ==
  /\ pc[g] = "list"
  /\ seen' = [seen EXCEPT ![g].latest = file, ![g].lines = LinesOf(file, seen[g].running)]
  /\ Goto(g, "store")
  /\ UNCHANGED <<env, world, shown, form, closed, ui>>

\* Mutant: the lines of the last run stay until there are new ones.
StoreKeepingLines(g) ==
  /\ pc[g] = "store"
  /\ running' = seen[g].running /\ latest' = seen[g].latest
  /\ lines' = IF seen[g].running THEN lines ELSE seen[g].lines
  /\ Goto(g, "idle")
  /\ seen' = [seen EXCEPT ![g] = Blank]
  /\ UNCHANGED <<env, world, form, closed, ui>>

\* Mutant: a new output is looked at only when the tool has stopped running.
StoreOnChange(g) ==
  /\ pc[g] = "store"
  /\ running' = seen[g].running /\ latest' = seen[g].latest
  /\ lines' = IF lines # None /\ ~seen[g].running /\ seen[g].latest = latest
                THEN lines ELSE seen[g].lines
  /\ Goto(g, "idle")
  /\ seen' = [seen EXCEPT ![g] = Blank]
  /\ UNCHANGED <<env, world, form, closed, ui>>

Store(g) ==
  /\ pc[g] = "store"
  /\ running' = seen[g].running /\ latest' = seen[g].latest /\ lines' = seen[g].lines
  /\ Goto(g, "idle")
  /\ seen' = [seen EXCEPT ![g] = Blank]
  /\ UNCHANGED <<env, world, form, closed, ui>>

\* Mutant: poll ranges over the ticker only.
PollEndsNever ==
  /\ pc[Poller] = "done"
  /\ UNCHANGED vars

\* poll: with a tick and a closed channel both ready, select takes either.
PollEnds ==
  /\ pc[Poller] = "idle" /\ closed
  /\ Goto(Poller, "done")
  /\ UNCHANGED <<env, world, shown, form, closed, ui, seen>>

\* The tool runs, with its results file or without.
Begins ==
  /\ unit' = "active" /\ runs' = runs + 1
  /\ file' = IF "late" \in env THEN file ELSE runs + 1

(***************************************************************************)
(* The workers.  A Start that is refused or fails brings the form back.    *)
(***************************************************************************)
StartOK(w) ==
  /\ pc[w] = "start" /\ Undisturbed
  /\ ~Running
  /\ \/ unit = "queued" /\ UNCHANGED world
     \/ /\ unit = "inactive"
        /\ IF "slow_start" \in env THEN unit' = "queued" /\ UNCHANGED <<runs, file>>
                                   ELSE Begins
  /\ Goto(w, "sleep")
  /\ UNCHANGED <<env, shown, form, closed, ui, seen>>

\* Mutant: an error is noted, the form stays away.
StartFailsQuietly(w) ==
  /\ pc[w] = "start" /\ Undisturbed
  /\ Running \/ "fail" \in env
  /\ err' = TRUE
  /\ Goto(w, "idle")
  /\ UNCHANGED <<env, world, shown, mode, button, closed, ui, seen>>

StartFails(w) ==
  /\ pc[w] = "start" /\ Undisturbed
  /\ Running \/ "fail" \in env
  /\ err' = TRUE /\ mode' = "form"
  /\ Goto(w, "idle")
  /\ UNCHANGED <<env, world, shown, button, closed, ui, seen>>

\* The error of Stop is ignored.
Stop(w) ==
  /\ pc[w] = "stop" /\ Undisturbed
  /\ unit' \in {"inactive"} \cup IF "fail" \in env THEN {unit} ELSE {}
  /\ Goto(w, "sleep")
  /\ UNCHANGED <<env, runs, file, shown, form, closed, ui, seen>>

(***************************************************************************)
(* The UI.  Key takes a snapshot of running and acts on it.  Keys that     *)
(* scroll, edit a field or push another screen change nothing here.        *)
(***************************************************************************)
KeyArrives ==
  /\ ui = "idle" /\ ~closed /\ Undisturbed
  /\ ui' = IF running THEN "running" ELSE "other"
  /\ UNCHANGED <<env, world, shown, form, closed, pc, seen>>

\* The page a Key in progress is handled by; mode is read after the snapshot.
On(page) == IF page = "running" THEN ui = page ELSE ui = "other" /\ mode = page

Keyed(page) == On(page) /\ ui' = "idle"

KeyNothing ==
  /\ \E page \in {"running", "form", "results"} : Keyed(page)
  /\ UNCHANGED <<env, world, shown, form, closed, pc, seen>>

\* Esc leaves from the running view and from the form, enter on Background
\* too; the app pops the screen and calls Close.
KeyLeaves ==
  /\ \/ Keyed("running")
     \/ Keyed("form")
  /\ closed' = TRUE
  /\ UNCHANGED <<env, world, shown, form, pc, seen>>

KeyToForm ==
  /\ Keyed("results")
  /\ mode' = "form"
  /\ UNCHANGED <<env, world, shown, err, button, closed, pc, seen>>

KeyMovesButton ==
  /\ Keyed("running") /\ "continuous" \notin env
  /\ button' = IF button = "cancel" THEN "background" ELSE "cancel"
  /\ UNCHANGED <<env, world, shown, err, mode, closed, pc, seen>>

Spawn(place) == \E w \in Workers : pc[w] = "idle" /\ Goto(w, place)

\* Mutant: a cancel key that works on every page.
KeyCancelsAnywhere ==
  /\ \E page \in {"running", "form", "results"} : Keyed(page)
  /\ mode' = "form"
  /\ Spawn("stop")
  /\ UNCHANGED <<env, world, shown, err, button, closed, seen>>

\* Enter on Cancel or on the only button, Stop.
KeyCancels ==
  /\ Keyed("running")
  /\ "continuous" \in env \/ button = "cancel"
  /\ mode' = IF "continuous" \in env THEN "results" ELSE "form"
  /\ Spawn("stop")
  /\ UNCHANGED <<env, world, shown, err, button, closed, seen>>

\* The bound: every start under way still gets its run.
RoomForRun ==
  LET starting == {w \in Workers : pc[w] = "start"}
      queued   == IF unit = "queued" THEN 1 ELSE 0
  IN  runs + queued + Cardinality(starting) < MaxRuns

\* Enter on the form: a required field is empty, or the submit goes on.
KeyMissing ==
  /\ Keyed("form")
  /\ err' = TRUE
  /\ UNCHANGED <<env, world, shown, mode, button, closed, pc, seen>>

KeySubmits ==
  /\ On("form") /\ ui' = "submit"
  /\ "hasty" \in env \/ \A w \in Workers : pc[w] = "idle"
  /\ \E w \in Workers : pc[w] = "idle"
  /\ RoomForRun
  /\ err' = FALSE
  /\ UNCHANGED <<env, world, shown, mode, button, closed, pc, seen>>

\* Mutant: the page stays the form until the run is seen.
SubmittedStays ==
  /\ ui = "submit" /\ ui' = "idle"
  /\ button' = "background"
  /\ Spawn("start")
  /\ UNCHANGED <<env, world, shown, err, mode, closed, seen>>

Submitted ==
  /\ ui = "submit" /\ ui' = "idle"
  /\ mode' = "results" /\ button' = "background"
  /\ Spawn("start")
  /\ UNCHANGED <<env, world, shown, err, closed, seen>>

(***************************************************************************)
(* The tool, and who else uses it.                                         *)
(***************************************************************************)
Activate ==
  /\ unit = "queued" /\ Undisturbed
  /\ Begins
  /\ UNCHANGED <<env, shown, form, closed, ui, pc, seen>>

\* The tool ends, or another frontend stops it.
ToolEnds ==
  /\ unit # "inactive" /\ Undisturbed
  /\ unit' = "inactive"
  /\ UNCHANGED <<env, runs, file, shown, form, closed, ui, pc, seen>>

\* The tool writes its results file.
ToolSaves ==
  /\ "late" \in env /\ Undisturbed
  /\ unit = "active"
  /\ file < runs /\ file' = runs
  /\ UNCHANGED <<env, unit, runs, shown, form, closed, ui, pc, seen>>

OtherStarts ==
  /\ "other" \in env /\ Undisturbed
  /\ unit = "inactive"
  /\ RoomForRun /\ ui # "submit"
  /\ Begins
  /\ UNCHANGED <<env, shown, form, closed, ui, pc, seen>>

-----------------------------------------------------------------------------
Refresh(g) == Look(g) \/ List(g) \/ Store(g)
Work(w)    == StartOK(w) \/ StartFails(w) \/ Stop(w) \/ Refresh(w)

\* The rest of a Key that has begun.
Act ==
  \/ KeyNothing \/ KeyLeaves \/ KeyToForm \/ KeyMovesButton
  \/ KeyCancels \/ KeyMissing \/ KeySubmits \/ Submitted

Next ==
  \/ \E w \in Workers : Work(w)
  \/ PollEnds \/ Refresh(Poller)
  \/ KeyArrives \/ Act
  \/ Activate \/ ToolSaves \/ ToolEnds \/ OtherStarts

Spec == Init /\ [][Next]_vars

\* Goroutines run, also when keys keep coming (strong: without "lag" a Key is
\* in the way of the others); a Key that has begun ends; the poller's ticker
\* ticks, and select takes a closed channel that is ready again and again.
\* Nobody has to press a key.
Fairness ==
  /\ \A w \in Workers : SF_vars(Work(w))
  /\ SF_vars(Refresh(Poller)) /\ SF_vars(PollEnds)
  /\ WF_vars(Act)

FairSpec == Spec /\ Fairness

-----------------------------------------------------------------------------
(***************************************************************************)
(* Properties.                                                             *)
(***************************************************************************)
\* Once the tool stays as it is, an open screen comes to show it: running or
\* not, and then the whole of the newest results file, although refreshes of
\* several goroutines overtake each other and store what is outdated.
UpToDate ==
  /\ running = Running /\ latest = file
  /\ lines = IF Running \/ file = 0 THEN None ELSE [run |-> file, whole |-> TRUE]

EventuallyTrue == <>[][FALSE]_world => <>[](closed \/ unit = "queued" \/ UpToDate)

\* Close ends the poller, and with it, once the workers are done, every
\* goroutine of the screen.
GoroutinesEnd ==
  []<>(closed => pc[Poller] = "done" /\ \A w \in Workers : pc[w] = "idle")
=============================================================================
