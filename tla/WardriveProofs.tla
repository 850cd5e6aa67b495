--------------------------- MODULE WardriveProofs ---------------------------
(***************************************************************************)
(* Proofs about Wardrive, for every set of Cores, interfaces and           *)
(* environments and every bound.                                           *)
(***************************************************************************)
EXTENDS WardriveHistory, FiniteSets, FiniteSetTheorems, TLAPS

USE DEF world, password, counts, vars

(***************************************************************************)
(* Type correctness.                                                       *)
(***************************************************************************)

\* Every reachable state has its types, a password in the file has been
\* generated, and a Start under way names a listed interface.
THEOREM TypeCorrect == Spec => []TypeOK
<1>1. Init => TypeOK
  BY IfacesAssumption, BoundsAssumption DEF Init, TypeOK, UnitStates, Places, Calls, Idle
<1>2. TypeOK /\ [Next]_vars => TypeOK'
  <2> SUFFICES ASSUME TypeOK, [Next]_vars PROVE TypeOK'
    OBVIOUS
  <2> USE BoundsAssumption, IfacesAssumption DEF TypeOK, UnitStates, Places, Calls
  <2>1. ASSUME NEW c \in Cores, CallStatus(c) PROVE TypeOK'
    BY <2>1 DEF CallStatus, Idle, Goto
  <2>2. ASSUME NEW c \in Cores, CallStop(c) PROVE TypeOK'
    BY <2>2 DEF CallStop, Goto
  <2>3. ASSUME NEW c \in Cores, LookCached(c) PROVE TypeOK'
    BY <2>3 DEF LookCached, CgroupKnown, CgroupActive, Goto
  <2>4. ASSUME NEW c \in Cores, BeginScan(c) PROVE TypeOK'
    BY <2>4 DEF BeginScan, Goto
  <2>5. ASSUME NEW c \in Cores, ScanNext(c) PROVE TypeOK'
    BY <2>5 DEF ScanNext, CgroupKnown, CgroupActive, Goto
  <2>6. ASSUME NEW c \in Cores, ScanEnd(c) PROVE TypeOK'
    BY <2>6 DEF ScanEnd, Goto
  <2>7. ASSUME NEW c \in Cores, Report(c) PROVE TypeOK'
    BY <2>7 DEF Report, Return, Idle, Answered, Goto
  <2>8. ASSUME NEW c \in Cores, ReturnEarly(c) PROVE TypeOK'
    BY <2>8 DEF ReturnEarly, Return, Idle, Answered, Goto
  <2>9. ASSUME NEW c \in Cores, Ensure(c) PROVE TypeOK'
    BY <2>9 DEF Ensure, Answered, Goto
  <2>10. ASSUME NEW c \in Cores, TruncateConf(c) PROVE TypeOK'
    BY <2>10 DEF TruncateConf, Goto
  <2>11. ASSUME NEW c \in Cores, WriteConf(c) PROVE TypeOK'
    BY <2>11 DEF WriteConf, Goto
  <2>12. ASSUME NEW c \in Cores, Launch(c) PROVE TypeOK'
    BY <2>12 DEF Launch, Return, Idle, Goto
  <2>13. ASSUME NEW c \in Cores, StartFails(c) PROVE TypeOK'
    BY <2>13 DEF StartFails, Return, Idle, Goto
  <2>14. ASSUME NEW c \in Cores, StopDone(c) PROVE TypeOK'
    BY <2>14 DEF StopDone, Return, Idle, Answered, Goto
  <2>15. ASSUME NEW c \in Cores, StopFails(c) PROVE TypeOK'
    BY <2>15 DEF StopFails, Return, Idle, Answered, Goto
  <2>16. ASSUME NEW c \in Cores, Restart(c) PROVE TypeOK'
    BY <2>16 DEF Restart, Return, Idle, Goto
  <2>17. ASSUME NEW c \in Cores, NEW w \in Ifaces, CallStart(c, w) PROVE TypeOK'
    BY <2>17 DEF CallStart, Goto
  <2>18. ASSUME NEW w \in Ifaces, Activate(w) PROVE TypeOK'
    BY <2>18 DEF Activate
  <2>19. ASSUME NEW w \in Ifaces, KismetExit(w) PROVE TypeOK'
    BY <2>19 DEF KismetExit
  <2>20. ASSUME NEW w \in Ifaces, Hotplug(w) PROVE TypeOK'
    BY <2>20 DEF Hotplug
  <2>21. ASSUME CgroupFlips PROVE TypeOK'
    BY <2>21 DEF CgroupFlips
  <2>22. CASE UNCHANGED vars
    BY <2>22
  <2> QED
    BY <2>1, <2>2, <2>3, <2>4, <2>5, <2>6, <2>7, <2>8, <2>9, <2>10, <2>11, <2>12, <2>13, <2>14, <2>15, <2>16, <2>17, <2>18, <2>19, <2>20, <2>21, <2>22
    DEF Next, Progress, Request, Environment
<1> QED
  BY <1>1, <1>2, PTL DEF Spec

(***************************************************************************)
(* The inductive invariant.  CaptureOwned is not inductive by itself: that *)
(* a launch overwrites no owner needs CacheEmpty, and that a cache is only *)
(* dropped when its unit is down (rather than queued) needs NothingQueued. *)
(* SingleCapture needs to know where in a lookup a capture that no cache   *)
(* names can be: Accounted, and AllInSight for the scan to start with it.  *)
(* ConfWritten is what PasswordCurrent needs of a launch.                  *)
(***************************************************************************)

\* Nothing captures at first.
LEMMA InvInit == Init => Inv
  BY DEF Init, Inv, CacheEmpty, NothingQueued, AllInSight, CaptureOwned, TameInv, OneCapture,
         Accounted, ConfWritten, PasswordCurrent, Live, CgroupActive

\* One step per action.
LEMMA InvStep ==
  ASSUME TypeOK, Inv, [Next]_vars
  PROVE  Inv'
<1> USE IfacesAssumption
    DEF TypeOK, UnitStates, Places, Calls, Inv, CacheEmpty, NothingQueued, AllInSight,
        CaptureOwned, TameInv, Tame, OneCapture, Accounted, WillFind, ConfWritten,
        PasswordCurrent, Prompt, Remembering, Sighted, Live, CgroupActive
<1>1. ASSUME NEW c \in Cores, CallStatus(c) PROVE Inv'
  BY <1>1 DEF CallStatus, Goto, Idle
<1>2. ASSUME NEW c \in Cores, CallStop(c) PROVE Inv'
  BY <1>2 DEF CallStop, Goto
  \* A cache that is dropped named an inactive unit, so no live capture loses
  \* its owner; if one Core is all there is, nothing was live.
<1>3. ASSUME NEW c \in Cores, LookCached(c) PROVE Inv'
  BY <1>3 DEF LookCached, CgroupKnown, CgroupActive, Goto
  \* A capture nobody remembers is in sight, so it is plugged and readable
  \* and enters the scan.
<1>4. ASSUME NEW c \in Cores, BeginScan(c) PROVE Inv'
  BY <1>4 DEF BeginScan, Goto
  \* The scan either meets the capture or drops an interface that has none.
<1>5. ASSUME NEW c \in Cores, ScanNext(c) PROVE Inv'
  BY <1>5 DEF ScanNext, CgroupKnown, CgroupActive, Goto
<1>6. ASSUME NEW c \in Cores, ScanEnd(c) PROVE Inv'
  BY <1>6 DEF ScanEnd, Goto
<1>7. ASSUME NEW c \in Cores, Report(c) PROVE Inv'
  BY <1>7 DEF Report, Answered, Return, Goto, Idle
<1>8. ASSUME NEW c \in Cores, ReturnEarly(c) PROVE Inv'
  BY <1>8 DEF ReturnEarly, Answered, Return, Goto, Idle
  \* decide with an empty cache: nothing is live, nothing is lost by a write.
<1>9. ASSUME NEW c \in Cores, Ensure(c) PROVE Inv'
  BY <1>9 DEF Ensure, Answered, Goto
<1>10. ASSUME NEW c \in Cores, TruncateConf(c) PROVE Inv'
  BY <1>10 DEF TruncateConf, Goto
<1>11. ASSUME NEW c \in Cores, WriteConf(c) PROVE Inv'
  BY <1>11 DEF WriteConf, Goto
  \* Nothing was live (TameInv), or every live capture has an owner other than
  \* this Core, whose cache was empty (CacheEmpty); the new one is owned by it.
<1>12. ASSUME NEW c \in Cores, Launch(c) PROVE Inv'
  BY <1>12 DEF Launch, Return, Goto, Idle
<1>13. ASSUME NEW c \in Cores, StartFails(c) PROVE Inv'
  BY <1>13 DEF StartFails, Return, Goto, Idle
  \* The only capture this Core forgets is the one it stopped.
<1>14. ASSUME NEW c \in Cores, StopDone(c) PROVE Inv'
  BY <1>14 DEF StopDone, Answered, Return, Goto, Idle
  \* Forgetting a live capture: only outside Remembering, where it stays in sight.
<1>15. ASSUME NEW c \in Cores, StopFails(c) PROVE Inv'
  BY <1>15 DEF StopFails, Answered, Return, Goto, Idle
<1>16. ASSUME NEW c \in Cores, Restart(c) PROVE Inv'
  BY <1>16 DEF Restart, Return, Goto, Idle
<1>17. ASSUME NEW c \in Cores, NEW v \in Ifaces, CallStart(c, v) PROVE Inv'
  BY <1>17 DEF CallStart, Goto
<1>18. ASSUME NEW v \in Ifaces, Activate(v) PROVE Inv'
  BY <1>18 DEF Activate
<1>19. ASSUME NEW v \in Ifaces, KismetExit(v) PROVE Inv'
  BY <1>19 DEF KismetExit
<1>20. ASSUME NEW v \in Ifaces, Hotplug(v) PROVE Inv'
  BY <1>20 DEF Hotplug
<1>21. ASSUME CgroupFlips PROVE Inv'
  BY <1>21 DEF CgroupFlips
<1>22. CASE UNCHANGED vars
  BY <1>22
<1> QED
  BY <1>1, <1>2, <1>3, <1>4, <1>5, <1>6, <1>7, <1>8, <1>9, <1>10, <1>11, <1>12, <1>13, <1>14, <1>15, <1>16, <1>17, <1>18, <1>19, <1>20, <1>21, <1>22
  DEF Next, Progress, Request, Environment

\* The invariant above is one.
THEOREM InvHolds == Spec => []Inv
<1>1. TypeOK /\ Inv /\ [Next]_vars => Inv'
  BY InvStep
<1> QED
  BY InvInit, <1>1, TypeCorrect, PTL DEF Spec

(***************************************************************************)
(* What follows from it.                                                   *)
(***************************************************************************)

\* Whatever is unplugged or unreadable and however the Cores' calls
\* interleave, a capture that is up is in the cache of some Core.
THEOREM CaptureOwnedHolds == Spec => []CaptureOwned
<1>1. Inv => CaptureOwned
  BY DEF Inv
<1> QED
  BY <1>1, InvHolds, PTL

\* One Core whose unit starts at once runs at most one kismet.
THEOREM SingleCaptureHolds == Spec => []SingleCapture
<1>1. Inv => SingleCapture
  BY DEF Inv, TameInv, SingleCapture
<1> QED
  BY <1>1, InvHolds, PTL

\* ... and that kismet accepts the password the file holds.
THEOREM PasswordCurrentHolds == Spec => []PasswordCurrent
<1>1. Inv => PasswordCurrent
  BY DEF Inv
<1> QED
  BY <1>1, InvHolds, PTL

\* A capture that is up before and after a step is the same one: a launch
\* finds nothing live (Accounted), and nothing else makes a unit live.
LEMMA NoHandover ==
  ASSUME TypeOK, Inv, [Next]_vars, Tame,
         NEW v \in Ifaces, NEW w \in Ifaces, Live(v), Live(w)'
  PROVE  v = w
<1> USE DEF TypeOK, UnitStates, Inv, CacheEmpty, TameInv, OneCapture, Accounted, WillFind, Live
<1>1. ASSUME NEW c \in Cores, Launch(c) PROVE v = w
  <2>1. cached[c] = None /\ cached[c] # v
    BY <1>1, IfacesAssumption DEF Launch
  <2>2. ~WillFind(c, v)
    BY <1>1 DEF Launch
  <2> QED
    BY <2>1, <2>2
<1>2. ASSUME NEW c \in Cores, StopDone(c) PROVE v = w
  BY <1>2 DEF StopDone
<1>3. ASSUME NEW x \in Ifaces, Activate(x) \/ KismetExit(x) PROVE v = w
  BY <1>3 DEF Activate, KismetExit
<1>4. ASSUME unit' = unit PROVE v = w
  BY <1>4
<1>5. ASSUME NEW c \in Cores,
             \/ LookCached(c) \/ BeginScan(c) \/ ScanNext(c) \/ ScanEnd(c) \/ Report(c)
             \/ ReturnEarly(c) \/ Ensure(c) \/ TruncateConf(c) \/ WriteConf(c)
             \/ StartFails(c) \/ StopFails(c) \/ Restart(c) \/ Request(c)
      PROVE  unit' = unit
  BY <1>5 DEF LookCached, BeginScan, ScanNext, ScanEnd, Report, ReturnEarly, Ensure,
              TruncateConf, WriteConf, StartFails, StopFails, Restart, Request, CallStatus,
              CallStop, CallStart
<1>6. ASSUME CgroupFlips \/ (\E x \in Ifaces : Hotplug(x)) \/ UNCHANGED vars PROVE unit' = unit
  BY <1>6 DEF CgroupFlips, Hotplug
<1> QED
  BY <1>1, <1>2, <1>3, <1>4, <1>5, <1>6 DEF Next, Progress, Environment

\* No step changes the environment.
LEMMA EnvironmentFixed ==
  ASSUME [Next]_vars
  PROVE  env' = env
<1>1. ASSUME NEW c \in Cores, Progress(c) \/ Request(c) PROVE env' = env
  BY <1>1 DEF Progress, Request, LookCached, BeginScan, ScanNext, ScanEnd, Report, ReturnEarly,
              Ensure, TruncateConf, WriteConf, Launch, StartFails, StopDone, StopFails,
              CallStatus, CallStop, CallStart
<1>2. ASSUME Environment PROVE env' = env
  BY <1>2 DEF Environment, Activate, KismetExit, Hotplug, CgroupFlips, Restart
<1> QED
  BY <1>1, <1>2 DEF Next

\* The captures of a lone Core implement the exclusive slot.
THEOREM ImplementsSlotHolds == Spec => ImplementsSlot
<1>1. Init => Slot!SlotInit
  BY DEF Init, Slot!SlotInit, Captures, Live
<1>2. TypeOK /\ Inv /\ Inv' /\ [Next]_vars => [Slot!SlotNext]_Captures
  <2> SUFFICES ASSUME TypeOK, Inv, Inv', [Next]_vars PROVE [Slot!SlotNext]_Captures
    OBVIOUS
  <2>1. Tame' = Tame
    BY EnvironmentFixed DEF Tame, Prompt, Remembering, Sighted
  <2>2. CASE ~Tame
    BY <2>1, <2>2 DEF Captures
  <2>3. CASE Tame
    <3>1. Captures = {w \in Ifaces : Live(w)} /\ Captures' = {w \in Ifaces : Live(w)'}
      BY <2>1, <2>3 DEF Captures
    <3>2. OneCapture /\ OneCapture'
      BY <2>1, <2>3 DEF Inv, TameInv
    <3>3. \A v \in Captures, w \in Captures' : v = w
      BY <2>3, <3>1, NoHandover
    <3>4. (Captures' # {} => \E w \in Ifaces : Captures' = {w})
      BY <3>1, <3>2 DEF OneCapture
    <3>5. CASE Captures = {}
      BY <3>4, <3>5 DEF Slot!SlotNext, Slot!Begin
    <3>6. CASE Captures # {} /\ Captures' = {}
      BY <3>6 DEF Slot!SlotNext, Slot!End
    <3>7. CASE Captures # {} /\ Captures' # {}
      BY <3>3, <3>7
    <3> QED
      BY <3>5, <3>6, <3>7
  <2> QED
    BY <2>2, <2>3
<1> QED
  BY <1>1, <1>2, TypeCorrect, InvHolds, PTL DEF Spec, ImplementsSlot, Slot!SlotSpec

\* The number of kismets is bounded by the number of Cores.
AtMostOnePerCore ==
  Prompt /\ Remembering => Cardinality({w \in Ifaces : Live(w)}) <= Cardinality(Cores)

\* Racing Cores can start several captures, but never more than one each.
THEOREM AtMostOnePerCoreHolds ==
  ASSUME IsFiniteSet(Cores)
  PROVE  Spec => []AtMostOnePerCore
<1>1. CaptureOwned => AtMostOnePerCore
  <2> SUFFICES ASSUME Prompt, Remembering, \A w \in Ifaces : Live(w) => \E c \in Cores : cached[c] = w
               PROVE  Cardinality({w \in Ifaces : Live(w)}) <= Cardinality(Cores)
    BY DEF CaptureOwned, AtMostOnePerCore
  <2> DEFINE Held == {cached[c] : c \in Cores}
  <2>1. {w \in Ifaces : Live(w)} \subseteq Held
    OBVIOUS
  <2>2. IsFiniteSet(Held) /\ Cardinality(Held) <= Cardinality(Cores)
    <3> DEFINE f == [c \in Cores |-> cached[c]]
    <3>1. f \in Surjection(Cores, Held)
      BY DEF Surjection
    <3> QED
      BY <3>1, FS_Surjection
  <2>3. /\ Cardinality({w \in Ifaces : Live(w)}) <= Cardinality(Held)
        /\ IsFiniteSet({w \in Ifaces : Live(w)})
    BY <2>1, <2>2, FS_Subset
  <2> QED
    BY <2>2, <2>3, FS_CardinalityType
<1> QED
  BY <1>1, CaptureOwnedHolds, PTL

(***************************************************************************)
(* How often a Core overlooks a capture.  A miss that counts leaves the    *)
(* cache of its Core empty, and an empty cache makes the next lookup a     *)
(* scan; a scan that found nothing yet has still ahead of it all that was  *)
(* visible since the lookup began.                                         *)
(***************************************************************************)
Overlooking ==
  /\ misses \in [Cores -> [Ifaces -> {0, 1}]]
  /\ \A c \in Cores :
       /\ steady[c] \subseteq VisibleSet
       /\ pc[c] = "scan" => cached[c] = None /\ steady[c] \subseteq toScan[c]
       /\ \A w \in Ifaces : misses[c][w] = 1 => cached[c] = None

\* What a step is for the lookup of Core c.
Elsewhere(c) == pc'[c] = pc[c] /\ cached'[c] = cached[c] /\ toScan'[c] = toScan[c]
FromCache(c) == /\ pc[c] = "lookup" /\ pc'[c] = "decide" /\ cached[c] # None
                /\ cached'[c] \in {None, cached[c]}
ScanBegins(c) == /\ pc[c] = "lookup" /\ pc'[c] = "scan" /\ cached[c] = None /\ cached'[c] = None
                 /\ toScan'[c] = plugged /\ UNCHANGED world
Passes(c, w) == /\ pc[c] = "scan" /\ pc'[c] = "scan" /\ cached'[c] = cached[c]
                /\ toScan'[c] = toScan[c] \ {w} /\ ~Visible(w) /\ UNCHANGED world
Finds(c)     == pc[c] = "scan" /\ pc'[c] = "decide" /\ cached'[c] # None
FindsNone(c) == pc[c] = "scan" /\ pc'[c] = "decide" /\ toScan[c] = {} /\ cached'[c] = cached[c]
Launches(c)  == pc[c] = "launch" /\ pc'[c] = "idle"
Otherwise(c) == pc'[c] \notin {"scan", "decide"} /\ cached'[c] \in {None, cached[c]}

LookupStep(c) ==
  \/ Elsewhere(c) \/ FromCache(c) \/ ScanBegins(c) \/ (\E w \in Ifaces : Passes(c, w))
  \/ Finds(c) \/ FindsNone(c) \/ Launches(c) \/ Otherwise(c)

\* A step of a Core is one of these for it and none for the others.
LEMMA LookupSteps ==
  ASSUME TypeOK, Next, NEW c \in Cores
  PROVE  LookupStep(c)
<1>1. ASSUME Environment, \A d \in Cores : ~Restart(d) PROVE Elsewhere(c)
  BY <1>1 DEF Environment, Activate, KismetExit, Hotplug, CgroupFlips, Elsewhere
<1>2. ASSUME NEW d \in Cores, Request(d) \/ Progress(d) \/ Restart(d), d # c PROVE Elsewhere(c)
  <2> USE DEF TypeOK, Elsewhere, Goto, Return
  <2>1. CASE Request(d)
    BY <1>2, <2>1 DEF Request, CallStatus, CallStop, CallStart
  <2>2. CASE LookCached(d) \/ BeginScan(d) \/ ScanNext(d) \/ ScanEnd(d)
    BY <1>2, <2>2 DEF LookCached, BeginScan, ScanNext, ScanEnd
  <2>3. CASE Report(d) \/ ReturnEarly(d) \/ Ensure(d) \/ TruncateConf(d) \/ WriteConf(d)
    BY <1>2, <2>3 DEF Report, ReturnEarly, Ensure, TruncateConf, WriteConf
  <2>4. CASE Launch(d) \/ StartFails(d) \/ StopDone(d) \/ StopFails(d) \/ Restart(d)
    BY <1>2, <2>4 DEF Launch, StartFails, StopDone, StopFails, Restart
  <2> QED BY <1>2, <2>1, <2>2, <2>3, <2>4 DEF Progress
<1> USE DEF TypeOK, Goto, Return
<1>3. ASSUME Request(c) PROVE Otherwise(c)
  BY <1>3 DEF Request, CallStatus, CallStop, CallStart, Otherwise
<1>4. ASSUME LookCached(c) PROVE FromCache(c)
  BY <1>4 DEF LookCached, FromCache
<1>5. ASSUME BeginScan(c) PROVE ScanBegins(c)
  BY <1>5 DEF BeginScan, ScanBegins
<1>6. ASSUME ScanNext(c) PROVE Finds(c) \/ \E w \in Ifaces : Passes(c, w)
  <2>1. PICK w \in toScan[c] :
          /\ pc[c] = "scan"
          /\ IF CgroupKnown /\ CgroupActive(w)
               THEN cached' = [cached EXCEPT ![c] = w] /\ pc' = [pc EXCEPT ![c] = "decide"]
               ELSE toScan' = [toScan EXCEPT ![c] = @ \ {w}] /\ UNCHANGED <<cached, pc>>
          /\ UNCHANGED world
    BY <1>6 DEF ScanNext
  <2>2. w \in Ifaces /\ w # None
    BY IfacesAssumption
  <2>3. CASE CgroupKnown /\ CgroupActive(w)
    BY <2>1, <2>2, <2>3 DEF Finds
  <2>4. CASE ~(CgroupKnown /\ CgroupActive(w))
    BY <2>1, <2>2, <2>4 DEF Passes, Visible, CgroupKnown
  <2> QED BY <2>3, <2>4
<1>7. ASSUME ScanEnd(c) PROVE FindsNone(c)
  BY <1>7 DEF ScanEnd, FindsNone
<1>8. ASSUME Launch(c) PROVE Launches(c)
  BY <1>8 DEF Launch, Launches
<1>9. ASSUME Report(c) \/ ReturnEarly(c) \/ Ensure(c) \/ TruncateConf(c) \/ WriteConf(c)
      PROVE  Otherwise(c)
  BY <1>9 DEF Report, ReturnEarly, Ensure, TruncateConf, WriteConf, Otherwise
<1>10. ASSUME StartFails(c) \/ StopDone(c) \/ StopFails(c) \/ Restart(c) PROVE Otherwise(c)
  BY <1>10 DEF StartFails, StopDone, StopFails, Restart, Otherwise
<1> QED
  BY <1>1, <1>2, <1>3, <1>4, <1>5, <1>6, <1>7, <1>8, <1>9, <1>10 DEF Next, Environment, Progress, LookupStep

\* A lookup that counts as a miss began with something in the cache, and so
\* follows no other: a scan cannot end with something visible still ahead of it.
LEMMA OverlookingStep ==
  ASSUME TypeOK, Overlooking, HNext
  PROVE  Overlooking'
<1>1. ASSUME NEW c \in Cores
      PROVE  /\ steady'[c] \subseteq VisibleSet'
             /\ steady'[c] \subseteq steady[c] \/ LookupBegins(c)
  BY <1>1 DEF HNext
<1>2. ASSUME NEW c \in Cores
      PROVE  pc'[c] = "scan" => cached'[c] = None /\ steady'[c] \subseteq toScan'[c]
  <2> SUFFICES ASSUME pc'[c] = "scan" PROVE cached'[c] = None /\ steady'[c] \subseteq toScan'[c]
    OBVIOUS
  <2>1. steady'[c] \subseteq VisibleSet' /\ steady'[c] \subseteq steady[c]
    BY <1>1 DEF LookupBegins
  <2>2. CASE ScanBegins(c)
    BY <2>1, <2>2 DEF ScanBegins, VisibleSet, Visible
  <2>3. CASE Elsewhere(c)
    BY <2>1, <2>3 DEF Elsewhere, Overlooking
  <2>4. ASSUME NEW w \in Ifaces, Passes(c, w) PROVE cached'[c] = None /\ steady'[c] \subseteq toScan'[c]
    <3>1. Visible(w)' = Visible(w)
      BY <2>4 DEF Passes, Visible, CgroupActive
    <3>2. w \notin VisibleSet'
      BY <2>4, <3>1 DEF Passes, VisibleSet
    <3> QED BY <2>1, <2>4, <3>2 DEF Passes, Overlooking
  <2>5. LookupStep(c)
    BY LookupSteps DEF HNext
  <2> QED
    BY <2>2, <2>3, <2>4, <2>5 DEF LookupStep, FromCache, Finds, FindsNone, Launches, Otherwise
<1>3. ASSUME NEW c \in Cores, NEW w \in Ifaces
      PROVE  misses'[c][w] \in {0, 1} /\ (misses'[c][w] = 1 => cached'[c] = None)
  <2> DEFINE Counted == LookupEnds(c) /\ w \in steady'[c] /\ misses[c][w] < 2
  <2>1. misses'[c][w] = IF Forgiven(c, w) THEN 0 ELSE IF Counted THEN misses[c][w] + 1 ELSE misses[c][w]
    BY DEF HNext
  <2>2. misses[c][w] \in {0, 1} /\ (misses[c][w] = 1 => cached[c] = None)
    BY DEF Overlooking
  <2>3. LookupStep(c)
    BY LookupSteps DEF HNext
  <2>4. ASSUME Counted, ~Forgiven(c, w) PROVE misses[c][w] = 0 /\ cached'[c] = None
    <3>1. cached'[c] = None /\ pc'[c] = "decide" /\ pc[c] \in {"lookup", "scan"}
      BY <2>4 DEF Forgiven, LookupEnds
    <3>2. w \in steady[c]
      BY <1>1, <2>4, <3>1 DEF LookupBegins
    <3>3. cached[c] # None
      BY <2>3, <3>1, <3>2 DEF LookupStep, Overlooking, Elsewhere, FromCache, ScanBegins, Passes,
                              Finds, FindsNone, Launches, Otherwise
    <3> QED BY <2>2, <3>1, <3>3
  <2>5. ASSUME ~Counted, ~Forgiven(c, w), cached[c] = None PROVE cached'[c] = None
    <3>1. pc[c] # "launch" /\ (LookupEnds(c) => cached'[c] = None)
      BY <2>5 DEF Forgiven
    <3> QED
      BY <2>3, <2>5, <3>1 DEF LookupStep, LookupEnds, Elsewhere, FromCache, ScanBegins, Passes,
                              Finds, FindsNone, Launches, Otherwise
  <2> HIDE DEF Counted
  <2> QED BY <2>1, <2>2, <2>4, <2>5
<1>4. misses' \in [Cores -> [Ifaces -> {0, 1}]]
  <2>1. /\ misses' = [c \in Cores |-> misses'[c]]
        /\ \A c \in Cores : misses'[c] = [w \in Ifaces |-> misses'[c][w]]
    BY DEF HNext
  <2> QED BY <1>3, <2>1
<1> QED BY <1>1, <1>2, <1>3, <1>4 DEF Overlooking

\* A Core overlooks a capture that is visible all along at most once, however
\* many Cores, units and adapters there are: activeIface, for any of them.
THEOREM MissesAreForgiven == HSpec => []MissedAtMostOnce
<1>1. HInit => Init /\ Overlooking
  BY DEF HInit, Init, Overlooking
<1>2. [HNext]_hvars => [Next]_vars
  BY DEF HNext, hvars
<1>3. TypeOK /\ Overlooking /\ [HNext]_hvars => Overlooking'
  <2>1. ASSUME Overlooking, UNCHANGED hvars PROVE Overlooking'
    BY <2>1 DEF Overlooking, hvars, VisibleSet, Visible, CgroupActive
  <2> QED BY <2>1, OverlookingStep
<1>4. Overlooking => MissedAtMostOnce
  BY DEF Overlooking, MissedAtMostOnce
<1>5. HSpec => Spec
  BY <1>1, <1>2, PTL DEF HSpec, Spec
<1> QED BY <1>1, <1>3, <1>4, <1>5, TypeCorrect, PTL DEF HSpec
=============================================================================
