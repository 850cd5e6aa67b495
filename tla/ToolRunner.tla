----------------------------- MODULE ToolRunner -----------------------------
(***************************************************************************)
(* One tool of the JSON tool framework: internal/tool/runner.go, the       *)
(* frontend side, and cmd/czconsole-runtool, the process systemd starts.   *)
(*                                                                         *)
(* A Runner has no lock.  Every HTTP request and every goroutine of the    *)
(* LCD's tool screen that calls Start or Stop is a thread of its own, and  *)
(* the threads of both processes share the job file /run/czconsole/<id>,   *)
(* the units czconsole-tool@<id> and czconsole-tool-netraw@<id>, and the   *)
(* spec on disk, which runtool reads again.  A step is one access to one   *)
(* of these.                                                               *)
(***************************************************************************)
EXTENDS Integers

CONSTANTS
  Threads,     \* callers of Start and Stop
  Vals,        \* the input maps users may submit, after stripCtl
  NoVals,      \* the empty map: every {{input}} becomes ""
  PostVals,    \* the maps whose spec.Post.When input is "1"
  EnvSets,     \* the environments to consider: sets of Conditions
  MaxStarts    \* bound on the calls of Start

(*   concurrent  a Start may be called while another is under way          *)
(*   slow_start  `systemctl start --no-block` returns before the process   *)
(*               is in its cgroup                                          *)
(*   unreadable  the cgroup tree may be unreadable for a while             *)
(*   respec      the administrator may change the class in the spec, and   *)
(*               frontends may restart and load it                         *)
(*   blind       runtool may fail to read its CapEff from /proc            *)
Conditions == {"concurrent", "slow_start", "unreadable", "respec", "blind"}

ASSUME ValsAssumption ==
  NoVals \notin Vals /\ PostVals \subseteq Vals /\ Vals \cap {"absent", "truncated", "garbled"} = {}
ASSUME EnvAssumption == EnvSets \subseteq SUBSET Conditions
ASSUME BoundsAssumption == MaxStarts \in Nat

VARIABLES
  env,        \* the environment of this behaviour, fixed in Init
  text,       \* what the job file holds
  mode,       \* "private" (0600) or "shared" (0640, group czconsole)
  spec,       \* class in the spec on disk
  loaded,     \* class in the spec each thread's process loaded when it started
  readable,   \* whether /sys/fs/cgroup/system.slice can be read now
  unit,       \* the runtool of each of the two unit instances
  runClass,   \* class in the spec that runtool read
  runVals,    \* input values that runtool read
  pc,         \* where each thread is in Start
  vals,       \* the values each thread submits, or submitted last
  starts      \* calls of Start so far

file    == <<text, mode>>
runs    == <<unit, runClass, runVals>>
threads == <<pc, vals, starts>>
vars    == <<env, file, spec, loaded, readable, runs, threads>>

Classes == {"plain", "netraw"}

\* "garbled": one writer's bytes over the longer text of another, which is no
\* JSON document; "truncated": opened with O_TRUNC and not written yet.
Texts  == Vals \cup {"absent", "truncated", "garbled"}

\* A runtool: queued by systemd, then executing; it has loaded its spec; it
\* runs the command; it runs the post command.
Phases == {"inactive", "queued", "exec", "loaded", "running", "post"}
Places == {"idle", "check", "open", "write", "chmod", "launch"}

TypeOK ==
  /\ env \in EnvSets
  /\ text \in Texts
  /\ mode \in {"private", "shared"}
  /\ spec \in Classes /\ loaded \in [Threads -> Classes]
  /\ readable \in BOOLEAN
  /\ unit \in [Classes -> Phases]
  /\ runClass \in [Classes -> Classes]
  /\ runVals \in [Classes -> Vals \cup {NoVals}]
  /\ pc \in [Threads -> Places]
  /\ vals \in [Threads -> Vals \cup {NoVals}]
  /\ \A t \in Threads : pc[t] # "idle" => vals[t] \in Vals
  /\ starts \in 0 .. MaxStarts

Init ==
  /\ env \in EnvSets
  /\ text = "absent" /\ mode = "private"
  /\ spec \in Classes /\ loaded = [t \in Threads |-> spec]
  /\ readable = TRUE
  /\ unit = [u \in Classes |-> "inactive"]
  /\ runClass = [u \in Classes |-> "plain"]
  /\ runVals = [u \in Classes |-> NoVals]
  /\ pc = [t \in Threads |-> "idle"]
  /\ vals = [t \in Threads |-> NoVals]
  /\ starts = 0

Goto(t, place)   == pc' = [pc EXCEPT ![t] = place]
Become(u, phase) == unit' = [unit EXCEPT ![u] = phase]

\* Runner.Unit: the template is the class the frontend loaded.
Unit(t) == loaded[t]

\* The unit's cgroup holds a process.
Active(u) == unit[u] \notin {"inactive", "queued"}

\* Runner.Running: "don't know" counts as not running.
Running(t) == readable /\ Active(Unit(t))

(***************************************************************************)
(* Runner.Start.                                                           *)
(***************************************************************************)
CallStart(t, v) ==
  /\ pc[t] = "idle"
  /\ "concurrent" \in env \/ \A s \in Threads : pc[s] = "idle"
  /\ starts < MaxStarts
  /\ starts' = starts + 1
  /\ vals' = [vals EXCEPT ![t] = v]
  /\ Goto(t, "check")
  /\ UNCHANGED <<env, file, spec, loaded, readable, runs>>

\* Mutant: Start does not ask whether the tool runs.
CheckNothing(t) ==
  /\ pc[t] = "check"
  /\ Goto(t, "open")
  /\ UNCHANGED <<env, file, spec, loaded, readable, runs, vals, starts>>

Check(t) ==
  /\ pc[t] = "check"
  /\ Goto(t, IF Running(t) THEN "idle" ELSE "open")
  /\ UNCHANGED <<env, file, spec, loaded, readable, runs, vals, starts>>

\* WriteFile opens with O_CREATE and O_TRUNC: a file it creates gets its mode
\* through the worker's umask, one that is there keeps the mode it has.
OpenJob(t) ==
  /\ pc[t] = "open"
  /\ text' = "truncated"
  /\ mode' = IF text = "absent" THEN "private" ELSE mode
  /\ Goto(t, "write")
  /\ UNCHANGED <<env, spec, loaded, readable, runs, vals, starts>>

\* Every writer writes from the start of the file.  Over what another thread
\* wrote since this one's truncation, a longer text leaves its tail behind.
WriteJob(t) ==
  /\ pc[t] = "write"
  /\ \/ text' = vals[t]
     \/ text \notin {"truncated", vals[t]} /\ text' = "garbled"
  /\ Goto(t, "chmod")
  /\ UNCHANGED <<env, mode, spec, loaded, readable, runs, vals, starts>>

\* Mutant: WriteFile's 0640 is trusted, as if the worker had no umask.
ShareJobNot(t) ==
  /\ pc[t] = "chmod"
  /\ Goto(t, "launch")
  /\ UNCHANGED <<env, file, spec, loaded, readable, runs, vals, starts>>

ShareJob(t) ==
  /\ pc[t] = "chmod"
  /\ mode' = "shared"
  /\ Goto(t, "launch")
  /\ UNCHANGED <<env, text, spec, loaded, readable, runs, vals, starts>>

\* systemd: starting a unit that is up is a no-op.
Launch(t) ==
  /\ pc[t] = "launch"
  /\ IF unit[Unit(t)] = "inactive"
       THEN Become(Unit(t), IF "slow_start" \in env THEN "queued" ELSE "exec")
       ELSE UNCHANGED unit
  /\ Goto(t, "idle")
  /\ UNCHANGED <<env, file, spec, loaded, readable, runClass, runVals, vals, starts>>

\* Mutant: WriteFile's error is ignored when it cannot open the file.
StartFailsUnseen(t) ==
  /\ pc[t] \in {"open", "write", "launch"}
  /\ Goto(t, IF pc[t] = "open" THEN "launch" ELSE "idle")
  /\ UNCHANGED <<env, file, spec, loaded, readable, runs, vals, starts>>

\* WriteFile or systemctl returns an error; what was done stays done.
StartFails(t) ==
  /\ pc[t] \in {"open", "write", "launch"}
  /\ Goto(t, "idle")
  /\ UNCHANGED <<env, file, spec, loaded, readable, runs, vals, starts>>

\* Runner.Stop: blocks until the unit is down.
Stop(t) ==
  /\ pc[t] = "idle"
  /\ unit[Unit(t)] # "inactive"
  /\ Become(Unit(t), "inactive")
  /\ UNCHANGED <<env, file, spec, loaded, readable, runClass, runVals, threads>>

(***************************************************************************)
(* czconsole-runtool.                                                      *)
(***************************************************************************)
Exec(u) ==
  /\ unit[u] = "queued"
  /\ Become(u, "exec")
  /\ UNCHANGED <<env, file, spec, loaded, readable, runClass, runVals, threads>>

\* Mutant: no capability check.
ExceedsNever(u, class) == FALSE

Exceeds(u, class) == u = "netraw" /\ class = "plain"

\* LoadByID and the capability check: the unit's capabilities against the
\* mask of the class in the spec that is on disk now.  A runtool that cannot
\* learn its capabilities goes on without the check.
LoadSpec(u) ==
  /\ unit[u] = "exec"
  /\ runClass' = [runClass EXCEPT ![u] = spec]
  /\ \/ Become(u, IF Exceeds(u, spec) THEN "inactive" ELSE "loaded")
     \/ "blind" \in env /\ Become(u, "loaded")
  /\ UNCHANGED <<env, file, spec, loaded, readable, runVals, threads>>

\* readJob, in the operator's name: no file and a text that is no JSON map
\* both read as the empty map, a permission error is fatal.
\* Mutant: the error of Unmarshal is ignored.
JobValsRaw == text

JobVals == IF text \in Vals THEN text ELSE NoVals

ReadJob(u) ==
  /\ unit[u] = "loaded"
  /\ IF text # "absent" /\ mode = "private"
       THEN Become(u, "inactive") /\ UNCHANGED runVals
       ELSE Become(u, "running") /\ runVals' = [runVals EXCEPT ![u] = JobVals]
  /\ UNCHANGED <<env, file, spec, loaded, readable, runClass, threads>>

CommandEnds(u) ==
  /\ unit[u] = "running"
  /\ Become(u, IF runVals[u] \in PostVals THEN "post" ELSE "inactive")
  /\ UNCHANGED <<env, file, spec, loaded, readable, runClass, runVals, threads>>

PostEnds(u) ==
  /\ unit[u] = "post"
  /\ Become(u, "inactive")
  /\ UNCHANGED <<env, file, spec, loaded, readable, runClass, runVals, threads>>

\* die(), or a crash, in any phase.
RunDies(u) ==
  /\ unit[u] # "inactive"
  /\ Become(u, "inactive")
  /\ UNCHANGED <<env, file, spec, loaded, readable, runClass, runVals, threads>>

(***************************************************************************)
(* The environment.                                                        *)
(***************************************************************************)
CgroupFlips ==
  /\ "unreadable" \in env
  /\ readable' = ~readable
  /\ UNCHANGED <<env, file, spec, loaded, runs, threads>>

EditSpec ==
  /\ "respec" \in env
  /\ spec' \in Classes \ {spec}
  /\ UNCHANGED <<env, file, loaded, readable, runs, threads>>

\* The process of thread t restarts; a Start under way is lost.
Reload(t) ==
  /\ "respec" \in env
  /\ loaded' = [loaded EXCEPT ![t] = spec]
  /\ Goto(t, "idle")
  /\ UNCHANGED <<env, file, spec, readable, runs, vals, starts>>

-----------------------------------------------------------------------------
StartStep(t) ==
  Check(t) \/ OpenJob(t) \/ WriteJob(t) \/ ShareJob(t) \/ Launch(t) \/ StartFails(t)

RunStep(u) ==
  Exec(u) \/ LoadSpec(u) \/ ReadJob(u) \/ CommandEnds(u) \/ PostEnds(u) \/ RunDies(u)

Next ==
  \/ \E t \in Threads : StartStep(t) \/ Stop(t) \/ Reload(t) \/ \E v \in Vals : CallStart(t, v)
  \/ \E u \in Classes : RunStep(u)
  \/ CgroupFlips \/ EditSpec

Spec == Init /\ [][Next]_vars

-----------------------------------------------------------------------------
(***************************************************************************)
(* Properties.                                                             *)
(***************************************************************************)
AtWork(u) == unit[u] \in {"running", "post"}

\* The comment at readJob's permission check, "do NOT silently run with empty
\* inputs", taken at its word: no command runs without the values of a job.
NoEmptyRun == \A u \in Classes : AtWork(u) => runVals[u] \in Vals

\* Callers that take turns, a prompt start, a readable cgroup, a stable spec,
\* a runtool that knows its capabilities.
Tame == env = {}

\* Then a command never runs without the values of a job, and for as long as
\* it runs the header, which reads the job file, shows the values it has.
HeaderTrue ==
  Tame => \A u \in Classes : AtWork(u) => runVals[u] \in Vals /\ text = runVals[u]

\* Whatever threads, administrator and systemd do, a command that runs with
\* CAP_NET_RAW was built from a spec whose class grants it: a frontend that
\* loaded an older spec cannot lend a plain command the netraw unit.  Not if
\* runtool cannot read its capabilities: the check in main then lets it pass.
CapsWithinClass ==
  "blind" \notin env =>
    \A u \in Classes : unit[u] \in {"loaded", "running", "post"} /\ u = "netraw" => runClass[u] = "netraw"

\* Whatever happens, a runtool that comes to read the job file may read it:
\* umask and the late chmod never make a run die of the permission check.
JobReadable == \A u \in Classes : unit[u] # "inactive" => text # "absent" /\ mode = "shared"

-----------------------------------------------------------------------------
(***************************************************************************)
(* The inductive invariant behind these properties.                        *)
(***************************************************************************)
\* From the first truncation on there is a file; it is shared before the
\* first launch and never private again.
FileInv ==
  /\ mode = "shared" => text # "absent"
  /\ \A t \in Threads : pc[t] \in {"write", "chmod", "launch"} => text # "absent"
  /\ \A t \in Threads : pc[t] = "launch" => mode = "shared"

Turns == \A s, t \in Threads : pc[s] # "idle" /\ pc[t] # "idle" => s = t

\* Under Tame: one unit is in use, a Start past its check is alone with the
\* job file, and what a run reads is what the file keeps holding.
TameInv ==
  Tame =>
    /\ readable /\ Turns
    /\ \A t \in Threads : loaded[t] = spec
    /\ \A u \in Classes : unit[u] # "inactive" => u = spec /\ unit[u] # "queued" /\ text \in Vals
    /\ \A t \in Threads : pc[t] \in {"open", "write", "chmod", "launch"} =>
                           \A u \in Classes : unit[u] = "inactive"
    /\ \A t \in Threads : /\ pc[t] = "write" => text = "truncated"
                          /\ pc[t] \in {"chmod", "launch"} => text \in Vals
    /\ \A u \in Classes : AtWork(u) => runVals[u] = text

Inv == FileInv /\ JobReadable /\ CapsWithinClass /\ TameInv
=============================================================================
