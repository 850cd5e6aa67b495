------------------------------ MODULE Wardrive ------------------------------
(***************************************************************************)
(* Capture orchestration of internal/wardrive/core.go.                     *)
(*                                                                         *)
(* The web worker and every WardriveScreen of the LCD binary own a Core    *)
(* each: a mutex, held through the whole of Status, Start and Stop, and a  *)
(* cached interface.  The mutex makes one Core sequential, so a Core is    *)
(* one process here; nothing orders two Cores.  They share what they read  *)
(* and write outside themselves: the kismet units of systemd, the cgroup   *)
(* tree, the plugged adapters and the kismet_httpd.conf of the capture     *)
(* home.  A step is one access to that shared state.                       *)
(***************************************************************************)
EXTENDS Integers

CONSTANTS
  Cores,        \* the Core objects, of all processes
  Ifaces,       \* monitor-capable NIC names, as numbers in their sorted order
  None,         \* the empty interface name
  EnvSets,      \* the environments to consider: sets of Conditions
  MaxStarts,    \* bound on the calls of Start
  MaxRestarts   \* bound on the process restarts

(* What the environment may do besides the ordinary.                       *)
(*   slow_start  `systemctl start --no-block` returns before the process   *)
(*               is in its cgroup                                          *)
(*   stop_error  `systemctl stop` may fail                                 *)
(*   restart     a process holding a Core may die and come back            *)
(*   unplug      an adapter may be pulled, its kismet still running        *)
(*   unreadable  the cgroup tree may be unreadable for a while             *)
Conditions == {"slow_start", "stop_error", "restart", "unplug", "unreadable"}

ASSUME CoresAssumption  == Cores # {}
ASSUME IfacesAssumption == Ifaces \subseteq Nat /\ None \notin Ifaces
ASSUME EnvAssumption    == EnvSets \subseteq SUBSET Conditions
ASSUME BoundsAssumption == MaxStarts \in Nat /\ MaxRestarts \in Nat

VARIABLES
  env,        \* the environment of this behaviour, fixed in Init
  unit,       \* systemd's state of czconsole-kismet@<iface>
  kpass,      \* password each kismet process loaded when it started
  plugged,    \* the NICs Interfaces() lists now
  readable,   \* whether /sys/fs/cgroup/system.slice can be read now
  conf,       \* password in kismet_httpd.conf, 0: absent or no such line
  generated,  \* passwords randHex has produced so far
  pc,         \* where each Core is in its call
  op,         \* the call each Core is in, or was in last
  cached,     \* Core.iface
  toScan,     \* NICs activeIface has still to look at
  view,       \* interface the last Status of each Core reported
  starts,     \* calls of Start so far
  restarts    \* restarts so far

world    == <<unit, kpass, plugged, readable>>
password == <<conf, generated>>
counts   == <<starts, restarts>>
vars     == <<env, world, password, pc, op, cached, toScan, view, counts>>

UnitStates == {"inactive", "queued", "active"}
Places     == {"idle", "lookup", "scan", "decide", "truncate", "write", "launch"}
Calls      == [kind : {"start"}, iface : Ifaces]
                \cup [kind : {"status", "stop"}, iface : {None}]

TypeOK ==
  /\ env \in EnvSets
  /\ unit \in [Ifaces -> UnitStates]
  /\ kpass \in [Ifaces -> Nat]
  /\ plugged \subseteq Ifaces
  /\ readable \in BOOLEAN
  /\ conf \in Nat /\ generated \in Nat /\ conf <= generated
  /\ pc \in [Cores -> Places]
  /\ op \in [Cores -> Calls]
  /\ cached \in [Cores -> Ifaces \cup {None}]
  /\ toScan \in [Cores -> SUBSET Ifaces]
  /\ view \in [Cores -> Ifaces \cup {None}]
  /\ starts \in 0 .. MaxStarts
  /\ restarts \in 0 .. MaxRestarts

Idle == [kind |-> "status", iface |-> None]

Init ==
  /\ env \in EnvSets
  /\ unit = [w \in Ifaces |-> "inactive"]
  /\ kpass = [w \in Ifaces |-> 0]
  /\ plugged = Ifaces
  /\ readable = TRUE
  /\ conf = 0 /\ generated = 0
  /\ pc = [c \in Cores |-> "idle"]
  /\ op = [c \in Cores |-> Idle]
  /\ cached = [c \in Cores |-> None]
  /\ toScan = [c \in Cores |-> {}]
  /\ view = [c \in Cores |-> None]
  /\ starts = 0 /\ restarts = 0

Goto(c, place) == pc' = [pc EXCEPT ![c] = place]

(***************************************************************************)
(* Calls.  A Start of an interface that is not listed returns at once and  *)
(* changes nothing.                                                        *)
(***************************************************************************)
CallStatus(c) ==
  /\ pc[c] = "idle"
  /\ Goto(c, "lookup")
  /\ op' = [op EXCEPT ![c] = Idle]
  /\ UNCHANGED <<env, world, password, cached, toScan, view, counts>>

\* Mutant: validIface forgotten, and the form value was empty.
CallStartUnchecked(c, w) ==
  /\ pc[c] = "idle"
  /\ starts < MaxStarts
  /\ starts' = starts + 1
  /\ Goto(c, "lookup")
  /\ op' = [op EXCEPT ![c] = [kind |-> "start", iface |-> None]]
  /\ UNCHANGED <<env, world, password, cached, toScan, view, restarts>>

CallStart(c, w) ==
  /\ pc[c] = "idle"
  /\ w \in plugged
  /\ starts < MaxStarts
  /\ starts' = starts + 1
  /\ Goto(c, "lookup")
  /\ op' = [op EXCEPT ![c] = [kind |-> "start", iface |-> w]]
  /\ UNCHANGED <<env, world, password, cached, toScan, view, restarts>>

CallStop(c) ==
  /\ pc[c] = "idle"
  /\ Goto(c, "lookup")
  /\ op' = [op EXCEPT ![c] = [kind |-> "stop", iface |-> None]]
  /\ UNCHANGED <<env, world, password, cached, toScan, view, counts>>

(***************************************************************************)
(* activeIface.  What it returns is always the cache it leaves behind.     *)
(***************************************************************************)
CgroupKnown     == readable
CgroupActive(w) == unit[w] = "active"

\* Mutant: an unreadable cgroup is taken for an empty one.
LookCachedDowngrading(c) ==
  /\ pc[c] = "lookup"
  /\ cached[c] # None
  /\ cached' = IF CgroupKnown /\ CgroupActive(cached[c])
                 THEN cached ELSE [cached EXCEPT ![c] = None]
  /\ Goto(c, "decide")
  /\ UNCHANGED <<env, world, password, op, toScan, view, counts>>

\* Mutant: an inactive unit does not clear the cache.
LookCachedSticky(c) ==
  /\ pc[c] = "lookup"
  /\ cached[c] # None
  /\ Goto(c, "decide")
  /\ UNCHANGED <<env, world, password, op, cached, toScan, view, counts>>

\* The cache is believed unless the cgroup is known to be empty; if it is,
\* the answer is "none" without looking at any other interface.
LookCached(c) ==
  /\ pc[c] = "lookup"
  /\ cached[c] # None
  /\ cached' = IF CgroupKnown /\ ~CgroupActive(cached[c])
                 THEN [cached EXCEPT ![c] = None] ELSE cached
  /\ Goto(c, "decide")
  /\ UNCHANGED <<env, world, password, op, toScan, view, counts>>

BeginScan(c) ==
  /\ pc[c] = "lookup"
  /\ cached[c] = None
  /\ toScan' = [toScan EXCEPT ![c] = plugged]
  /\ Goto(c, "scan")
  /\ UNCHANGED <<env, world, password, op, cached, view, counts>>

\* Mutant: the scan gives up at the first interface that is not capturing.
ScanFirstOnly(c) ==
  \E w \in toScan[c] :
    /\ pc[c] = "scan"
    /\ \A x \in toScan[c] : w <= x
    /\ cached' = IF CgroupKnown /\ CgroupActive(w)
                   THEN [cached EXCEPT ![c] = w] ELSE cached
    /\ toScan' = [toScan EXCEPT ![c] = {}]
    /\ Goto(c, "decide")
    /\ UNCHANGED <<env, world, password, op, view, counts>>

ScanNext(c) ==
  \E w \in toScan[c] :
    /\ pc[c] = "scan"
    /\ \A x \in toScan[c] : w <= x
    /\ IF CgroupKnown /\ CgroupActive(w)
         THEN /\ cached' = [cached EXCEPT ![c] = w]
              /\ toScan' = [toScan EXCEPT ![c] = {}]
              /\ Goto(c, "decide")
         ELSE /\ toScan' = [toScan EXCEPT ![c] = @ \ {w}]
              /\ UNCHANGED <<cached, pc>>
    /\ UNCHANGED <<env, world, password, op, view, counts>>

ScanEnd(c) ==
  /\ pc[c] = "scan"
  /\ toScan[c] = {}
  /\ Goto(c, "decide")
  /\ UNCHANGED <<env, world, password, op, cached, toScan, view, counts>>

(***************************************************************************)
(* What the three calls do with the answer.                                *)
(***************************************************************************)
Answered(c, kind) == pc[c] = "decide" /\ op[c].kind = kind

Return(c) == Goto(c, "idle") /\ op' = [op EXCEPT ![c] = Idle]

\* Whether kismet's REST interface answers changes the figures of the reply,
\* which are not modelled, and nothing else.
Report(c) ==
  /\ Answered(c, "status")
  /\ view' = [view EXCEPT ![c] = cached[c]]
  /\ Return(c)
  /\ UNCHANGED <<env, world, password, cached, toScan, counts>>

\* A Start while something captures is an error, a Stop of nothing a success.
ReturnEarly(c) ==
  /\ \/ Answered(c, "start") /\ cached[c] # None
     \/ Answered(c, "stop")  /\ cached[c] = None
  /\ Return(c)
  /\ UNCHANGED <<env, world, password, cached, toScan, view, counts>>

(***************************************************************************)
(* ensureConfig: keep a password that is there; otherwise open the file    *)
(* with O_TRUNC, then write a fresh one.                                   *)
(***************************************************************************)
\* Mutant: a fresh password per call, made before the running check.
EnsurePerRun(c) ==
  /\ Answered(c, "start")
  /\ Goto(c, "truncate")
  /\ UNCHANGED <<env, world, password, op, cached, toScan, view, counts>>

Ensure(c) ==
  /\ Answered(c, "start") /\ cached[c] = None
  /\ Goto(c, IF conf = 0 THEN "truncate" ELSE "launch")
  /\ UNCHANGED <<env, world, password, op, cached, toScan, view, counts>>

TruncateConf(c) ==
  /\ pc[c] = "truncate"
  /\ conf' = 0
  /\ Goto(c, "write")
  /\ UNCHANGED <<env, world, generated, op, cached, toScan, view, counts>>

WriteConf(c) ==
  /\ pc[c] = "write"
  /\ generated' = generated + 1
  /\ conf' = generated + 1
  /\ Goto(c, "launch")
  /\ UNCHANGED <<env, world, op, cached, toScan, view, counts>>

(***************************************************************************)
(* systemctl.  Starting a unit that is up is a no-op; stopping blocks      *)
(* until the unit is down, and forgets the cache whatever it returned.     *)
(***************************************************************************)
\* Mutant: the Core does not remember what it launched.
LaunchForgets(c) ==
  LET w == op[c].iface IN
  /\ pc[c] = "launch"
  /\ unit' = [unit EXCEPT ![w] = "active"]
  /\ kpass' = [kpass EXCEPT ![w] = conf]
  /\ Return(c)
  /\ UNCHANGED <<env, plugged, readable, password, cached, toScan, view, counts>>

Launch(c) ==
  LET w == op[c].iface IN
  /\ pc[c] = "launch"
  /\ IF unit[w] # "inactive"
       THEN UNCHANGED <<unit, kpass>>
       ELSE IF "slow_start" \in env
              THEN /\ unit' = [unit EXCEPT ![w] = "queued"]
                   /\ UNCHANGED kpass
              ELSE /\ unit' = [unit EXCEPT ![w] = "active"]
                   /\ kpass' = [kpass EXCEPT ![w] = conf]
  /\ cached' = [cached EXCEPT ![c] = w]
  /\ Return(c)
  /\ UNCHANGED <<env, plugged, readable, password, toScan, view, counts>>

\* ensureConfig or systemctl returns an error; a WriteFile may have truncated
\* the file by then.
StartFails(c) ==
  /\ pc[c] \in {"truncate", "write", "launch"}
  /\ Return(c)
  /\ UNCHANGED <<env, world, password, cached, toScan, view, counts>>

StopDone(c) ==
  /\ Answered(c, "stop") /\ cached[c] # None
  /\ unit' = [unit EXCEPT ![cached[c]] = "inactive"]
  /\ cached' = [cached EXCEPT ![c] = None]
  /\ Return(c)
  /\ UNCHANGED <<env, kpass, plugged, readable, password, toScan, view, counts>>

StopFails(c) ==
  /\ Answered(c, "stop") /\ cached[c] # None
  /\ "stop_error" \in env
  /\ cached' = [cached EXCEPT ![c] = None]
  /\ Return(c)
  /\ UNCHANGED <<env, world, password, toScan, view, counts>>

(***************************************************************************)
(* The environment.                                                        *)
(***************************************************************************)
\* systemd runs the queued job; kismet reads its configuration as it starts.
Activate(w) ==
  /\ unit[w] = "queued"
  /\ unit' = [unit EXCEPT ![w] = "active"]
  /\ kpass' = [kpass EXCEPT ![w] = conf]
  /\ UNCHANGED <<env, plugged, readable, password, pc, op, cached, toScan, view, counts>>

\* kismet exits or never comes up; Restart=no.
KismetExit(w) ==
  /\ unit[w] # "inactive"
  /\ unit' = [unit EXCEPT ![w] = "inactive"]
  /\ UNCHANGED <<env, kpass, plugged, readable, password, pc, op, cached, toScan, view, counts>>

Hotplug(w) ==
  /\ "unplug" \in env
  /\ plugged' = IF w \in plugged THEN plugged \ {w} ELSE plugged \cup {w}
  /\ UNCHANGED <<env, unit, kpass, readable, password, pc, op, cached, toScan, view, counts>>

CgroupFlips ==
  /\ "unreadable" \in env
  /\ readable' = ~readable
  /\ UNCHANGED <<env, unit, kpass, plugged, password, pc, op, cached, toScan, view, counts>>

\* The process that holds Core c dies, wherever its call is, and New() makes
\* a Core that knows nothing; leaving the LCD screen and opening it again does
\* too (one that is left during a call is a Core more).
Restart(c) ==
  /\ "restart" \in env
  /\ restarts < MaxRestarts
  /\ restarts' = restarts + 1
  /\ Return(c)
  /\ cached' = [cached EXCEPT ![c] = None]
  /\ toScan' = [toScan EXCEPT ![c] = {}]
  /\ view' = [view EXCEPT ![c] = None]
  /\ UNCHANGED <<env, world, password, starts>>

-----------------------------------------------------------------------------
\* The steps of a call under way: none of them waits for another Core.
Progress(c) ==
  \/ LookCached(c) \/ BeginScan(c) \/ ScanNext(c) \/ ScanEnd(c)
  \/ Report(c) \/ ReturnEarly(c)
  \/ Ensure(c) \/ TruncateConf(c) \/ WriteConf(c)
  \/ Launch(c) \/ StartFails(c) \/ StopDone(c) \/ StopFails(c)

Request(c) == CallStatus(c) \/ CallStop(c) \/ \E w \in Ifaces : CallStart(c, w)

Environment ==
  \/ \E w \in Ifaces : Activate(w) \/ KismetExit(w) \/ Hotplug(w)
  \/ CgroupFlips
  \/ \E c \in Cores : Restart(c)

Next == (\E c \in Cores : Request(c) \/ Progress(c)) \/ Environment

Spec == Init /\ [][Next]_vars

\* A goroutine inside a call keeps running and systemctl returns; systemd
\* runs its queue; and both frontends poll Status every few seconds, where a
\* waiting poll gets the lock however many other calls arrive (sync.Mutex
\* hands it over to a waiter that has starved).
Fairness ==
  /\ \A c \in Cores : WF_vars(Progress(c)) /\ SF_vars(CallStatus(c))
  /\ \A w \in Ifaces : WF_vars(Activate(w))

FairSpec == Spec /\ Fairness

-----------------------------------------------------------------------------
(***************************************************************************)
(* Properties.                                                             *)
(***************************************************************************)
Live(w) == unit[w] # "inactive"

\* What SingleCapture needs of the environment besides there being one Core.
Prompt      == "slow_start" \notin env
Remembering == env \cap {"stop_error", "restart"} = {}
Sighted     == env \cap {"unplug", "unreadable"} = {}
Tame        == (\A c, d \in Cores : c = d) /\ Prompt /\ (Remembering \/ Sighted)

OneCapture == \A v, w \in Ifaces : Live(v) /\ Live(w) => v = w

\* The comment at Start, unconditionally: it launches kismet "only if nothing
\* is capturing", so two kismet processes never capture at once.
OneKismet == \A v, w \in Ifaces : CgroupActive(v) /\ CgroupActive(w) => v = w

\* If starting is prompt and no Core loses its cache, every capture that is
\* up is in the cache of some Core, whatever is unplugged or unreadable and
\* however many Cores race: there are never more captures than Cores, and
\* whoever started one can still stop it.
CaptureOwned ==
  Prompt /\ Remembering =>
    \A w \in Ifaces : Live(w) => \E c \in Cores : cached[c] = w

\* One Core alone runs at most one capture, if starting is prompt and either
\* it never loses its cache or its scan can see every capture.
SingleCapture == Tame => OneCapture

\* Under those conditions the captures are an exclusive slot: none begins while
\* another is up, and one that changes interface is stopped in between.
Captures == IF Tame THEN {w \in Ifaces : Live(w)} ELSE {}
Slot == INSTANCE ExclusiveSlot WITH Jobs <- Ifaces, held <- Captures
ImplementsSlot == Slot!SlotSpec

\* Under the same conditions every kismet that is up loaded the password
\* kismet_httpd.conf holds, so Status and the LCD's reveal key show one that
\* works for as long as the capture lasts.
PasswordCurrent ==
  Tame => \A w \in Ifaces : CgroupActive(w) => conf # 0 /\ kpass[w] = conf

\* The comment at ensureConfig, unconditionally: the password is generated
\* once and reused thereafter.
StaticPassword == [][conf # 0 => conf' = conf]_conf

\* When one capture stays up, visible, and alone, every frontend that keeps
\* polling comes to show exactly it, whatever its cache said before.
Visible(w)   == CgroupActive(w) /\ w \in plugged /\ readable
Only(w)      == Visible(w) /\ \A v \in Ifaces \ {w} : ~Live(v)
EventuallyShown ==
  \A w \in Ifaces : <>[]Only(w) => <>[](\A c \in Cores : view[c] = w)

\* When nothing captures any more, every frontend comes to show that.
EventuallyIdle ==
  <>[](readable /\ \A w \in Ifaces : ~Live(w)) => <>[](\A c \in Cores : view[c] = None)

-----------------------------------------------------------------------------
(***************************************************************************)
(* The inductive invariant behind CaptureOwned, SingleCapture and          *)
(* PasswordCurrent.                                                        *)
(***************************************************************************)
\* A Core that scans or launches holds nothing in its cache it could lose.
CacheEmpty ==
  \A c \in Cores : pc[c] \in {"scan", "truncate", "write", "launch"} => cached[c] = None

NothingQueued == Prompt => \A w \in Ifaces : unit[w] # "queued"

AllInSight == Sighted => plugged = Ifaces /\ readable

\* A capture missing from the cache is still ahead of the scan.
WillFind(c, w) ==
  /\ Sighted
  /\ cached[c] = None
  /\ pc[c] \in {"idle", "lookup"} \/ (pc[c] = "scan" /\ w \in toScan[c])

Accounted == \A c \in Cores, w \in Ifaces : Live(w) => cached[c] = w \/ WillFind(c, w)

ConfWritten == \A c \in Cores : pc[c] = "launch" => conf # 0

TameInv == Tame => OneCapture /\ Accounted /\ ConfWritten

Inv == /\ CacheEmpty /\ NothingQueued /\ AllInSight
       /\ CaptureOwned /\ TameInv /\ PasswordCurrent
=============================================================================
