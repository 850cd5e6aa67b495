-------------------------- MODULE ToolScreenProofs --------------------------
(***************************************************************************)
(* Proofs about ToolScreen and ToolScreenHistory, for any finite number of *)
(* workers, every bound on the runs, and every environment.                *)
(***************************************************************************)
EXTENDS ToolScreenHistory, FiniteSetTheorems, TLAPS

USE DEF world, shown, form, vars, hvars

\* The workers that will start the tool.
Starting == {w \in Workers : pc[w] = "start"}

\* What a refresh is about to store is consistent.
SightOK ==
  \A g \in Goroutines : pc[g] = "store" =>
    /\ seen[g].running => seen[g].lines = None
    /\ seen[g].lines # None => seen[g].lines.run = seen[g].latest

\* Every start under way, and the one that is submitted, still gets its run.
Room == runs + (IF unit = "queued" THEN 1 ELSE 0) + Cardinality(Starting)
          + (IF ui = "submit" THEN 1 ELSE 0) <= MaxRuns

TypeInv == TypeOK /\ SightOK /\ Room

----------------------------------------------------------------------------
(* Types.                                                                  *)

\* What the assumptions say of the constants.
LEMMA Bounds == /\ MaxRuns \in Nat /\ MaxRuns > 0 /\ IsFiniteSet(Workers) /\ Poller \notin Workers
                /\ Workers \subseteq Goroutines /\ Poller \in Goroutines
BY RunsAssumption, GoroutinesAssumption DEF Goroutines

\* A goroutine that goes somewhere leaves the others where they are.
LEMMA Goes ==
  ASSUME TypeOK, NEW g \in Goroutines, NEW place \in Places, Goto(g, place),
         g = Poller => place \notin {"start", "stop", "sleep"}
  PROVE  /\ pc' \in [Goroutines -> Places] /\ pc'[Poller] \notin {"start", "stop", "sleep"}
         /\ pc'[g] = place /\ \A h \in Goroutines : h # g => pc'[h] = pc[h]
BY Bounds DEF TypeOK, Goto

\* The goroutines about to start can be counted.
LEMMA StartingSize == IsFiniteSet(Starting) /\ Cardinality(Starting) \in Nat
<1>1. Starting \subseteq Workers
  BY DEF Starting
<1> QED
  BY <1>1, Bounds, FS_Subset, FS_CardinalityType

\* A goroutine that goes nowhere near a start changes no number of starts; a
\* worker that leaves one or comes to one changes it by one.
LEMMA StartingSame ==
  ASSUME TypeOK, NEW g \in Goroutines, NEW place \in Places, Goto(g, place),
         g = Poller => place \notin {"start", "stop", "sleep"}
  PROVE  /\ g \in Workers /\ pc[g] = "start" /\ place # "start" =>
              Cardinality(Starting') = Cardinality(Starting) - 1
         /\ pc[g] # "start" /\ place # "start" => Starting' = Starting
         /\ g \in Workers /\ pc[g] # "start" /\ place = "start" =>
              Cardinality(Starting') = Cardinality(Starting) + 1
         /\ Cardinality(Starting') \in Nat
<1>1. ASSUME g \in Workers, pc[g] = "start", place # "start"
      PROVE  g \in Starting /\ Starting' = Starting \ {g}
  BY <1>1, Goes, Bounds DEF Starting
<1>2. ASSUME g \in Workers, pc[g] # "start", place = "start"
      PROVE  g \notin Starting /\ Starting' = Starting \cup {g}
  BY <1>2, Goes, Bounds DEF Starting
<1>3. ASSUME pc[g] # "start", place # "start" PROVE Starting' = Starting
  BY <1>3, Goes, Bounds DEF Starting
<1>4. IsFiniteSet(Starting') /\ Cardinality(Starting') \in Nat
  <2>1. Starting' \subseteq Workers
    BY DEF Starting
  <2> QED
    BY <2>1, Bounds, FS_Subset, FS_CardinalityType
<1> QED
  BY <1>1, <1>2, <1>3, <1>4, StartingSize, FS_RemoveElement, FS_AddElement

\* What a refresh reads of an output is lines of that run, or none.
LEMMA LinesType ==
  ASSUME NEW r \in Runs, NEW is \in BOOLEAN
  PROVE  /\ LinesOf(r, is) \in Lines
         /\ is => LinesOf(r, is) = None
         /\ LinesOf(r, is) # None => LinesOf(r, is).run = r
<1>1. (unit = "inactive" \/ r < runs) \in BOOLEAN
  OBVIOUS
<1> QED
  BY <1>1 DEF LinesOf, Lines, Runs

\* A screen that has seen nothing is a screen.
LEMMA BlankType == Blank \in Sight
BY Bounds DEF Blank, Sight, Runs, Lines

\* Room for the run that RoomForRun leaves.
LEMMA RoomLeft ==
  ASSUME TypeOK, RoomForRun
  PROVE  runs + (IF unit = "queued" THEN 1 ELSE 0) + Cardinality(Starting) + 1 <= MaxRuns
BY Bounds, StartingSize DEF RoomForRun, Starting, TypeOK, Runs

\* The types, and that there is room for the run of every start under way.
THEOREM TypeInvHolds == Spec => []TypeInv
<1> USE Bounds
<1>1. Init => TypeInv
  <2> SUFFICES ASSUME Init PROVE TypeInv
    OBVIOUS
  <2>1. /\ runs \in Runs /\ file \in 0 .. runs /\ file \in Runs /\ Running \in BOOLEAN
        /\ unit # "queued" /\ ui # "submit"
    BY DEF Init, Runs, Running
  <2>2. TypeOK
    BY <2>1, LinesType, BlankType DEF Init, TypeOK, UIPlaces, Places
  <2>3. SightOK
    BY DEF Init, SightOK
  <2>4. Starting = {}
    BY DEF Init, Starting
  <2>5. Room
    BY <2>1, <2>4, FS_EmptySet DEF Room, Runs
  <2> QED
    BY <2>2, <2>3, <2>5 DEF TypeInv
<1>2. TypeInv /\ [Next]_vars => TypeInv'
  <2> SUFFICES ASSUME TypeInv, [Next]_vars PROVE TypeInv'
    OBVIOUS
  <2>0. /\ TypeOK /\ SightOK /\ Room /\ runs \in Nat /\ runs <= MaxRuns /\ file \in 0 .. runs
        /\ Cardinality(Starting) \in Nat
        /\ pc \in [Goroutines -> Places] /\ seen \in [Goroutines -> Sight]
    BY StartingSize DEF TypeInv, TypeOK, Runs
  <2>1. ASSUME NEW g \in Goroutines, Look(g) PROVE TypeInv'
    <3>1. Goto(g, "list") /\ seen' = [seen EXCEPT ![g].running = Running] /\ Running \in BOOLEAN
          /\ pc[g] # "start" /\ UNCHANGED <<env, world, shown, form, closed, ui>>
      BY <2>1 DEF Look, Running
    <3>2. /\ pc' \in [Goroutines -> Places] /\ pc'[Poller] \notin {"start", "stop", "sleep"}
          /\ pc'[g] = "list" /\ \A h \in Goroutines : h # g => pc'[h] = pc[h]
          /\ Starting' = Starting
      BY <2>0, <3>1, Goes, StartingSame DEF Places
    <3>3. seen' \in [Goroutines -> Sight] /\ \A h \in Goroutines : h # g => seen'[h] = seen[h]
      BY <2>0, <3>1 DEF Sight
    <3> QED
      BY <2>0, <3>1, <3>2, <3>3 DEF TypeInv, TypeOK, SightOK, Room
  <2>2. ASSUME NEW g \in Goroutines, List(g) PROVE TypeInv'
    <3> DEFINE l == LinesOf(file, seen[g].running)
    <3>1. Goto(g, "store") /\ seen' = [seen EXCEPT ![g].latest = file, ![g].lines = l]
          /\ pc[g] = "list" /\ UNCHANGED <<env, world, shown, form, closed, ui>>
      BY <2>2 DEF List
    <3>2. /\ pc' \in [Goroutines -> Places] /\ pc'[Poller] \notin {"start", "stop", "sleep"}
          /\ pc'[g] = "store" /\ \A h \in Goroutines : h # g => pc'[h] = pc[h]
          /\ Starting' = Starting
      BY <2>0, <3>1, Goes, StartingSame DEF Places
    <3>3. seen[g].running \in BOOLEAN /\ seen[g] \in Sight /\ file \in Runs
      BY <2>0 DEF Sight, TypeOK, Runs
    <3>4. l \in Lines /\ (seen[g].running => l = None) /\ (l # None => l.run = file)
      BY <3>3, LinesType
    <3> HIDE DEF l
    <3>5. /\ seen' \in [Goroutines -> Sight] /\ \A h \in Goroutines : h # g => seen'[h] = seen[h]
          /\ seen'[g].running = seen[g].running /\ seen'[g].latest = file /\ seen'[g].lines = l
      BY <2>0, <3>1, <3>3, <3>4 DEF Sight
    <3> QED
      BY <2>0, <3>1, <3>2, <3>4, <3>5 DEF TypeInv, TypeOK, SightOK, Room
  <2>3. ASSUME NEW g \in Goroutines, Store(g) PROVE TypeInv'
    <3>1. /\ Goto(g, "idle") /\ seen' = [seen EXCEPT ![g] = Blank] /\ pc[g] = "store"
          /\ running' = seen[g].running /\ latest' = seen[g].latest /\ lines' = seen[g].lines
          /\ UNCHANGED <<env, world, form, closed, ui>>
      BY <2>3 DEF Store
    <3>2. /\ pc' \in [Goroutines -> Places] /\ pc'[Poller] \notin {"start", "stop", "sleep"}
          /\ pc'[g] = "idle" /\ \A h \in Goroutines : h # g => pc'[h] = pc[h]
          /\ Starting' = Starting
      BY <2>0, <3>1, Goes, StartingSame DEF Places
    <3>3. seen' \in [Goroutines -> Sight] /\ \A h \in Goroutines : h # g => seen'[h] = seen[h]
      BY <2>0, <3>1, BlankType
    <3>4. /\ running' \in BOOLEAN /\ latest' \in Runs /\ lines' \in Lines
          /\ running' => lines' = None
          /\ lines' # None => lines'.run = latest'
      BY <2>0, <3>1 DEF Sight, SightOK
    <3> QED
      BY <2>0, <3>1, <3>2, <3>3, <3>4 DEF TypeInv, TypeOK, SightOK, Room
  <2>4. ASSUME NEW w \in Workers, StartOK(w) PROVE TypeInv'
    <3>1. Goto(w, "sleep") /\ pc[w] = "start" /\ UNCHANGED <<env, shown, form, closed, ui, seen>>
      BY <2>4 DEF StartOK
    <3>2. /\ pc' \in [Goroutines -> Places] /\ pc'[Poller] \notin {"start", "stop", "sleep"}
          /\ pc'[w] = "sleep" /\ \A h \in Goroutines : h # w => pc'[h] = pc[h]
          /\ Cardinality(Starting') = Cardinality(Starting) - 1
          /\ Cardinality(Starting') \in Nat
      BY <2>0, <3>1, Goes, StartingSame DEF Places
    <3>3. /\ \/ unit = "queued" /\ UNCHANGED world
             \/ unit = "inactive" /\ unit' = "queued" /\ UNCHANGED runs
             \/ unit = "inactive" /\ unit' = "active" /\ runs' = runs + 1
          /\ file' \in 0 .. runs'
      BY <2>0, <2>4 DEF StartOK, Begins
    <3>4. runs' \in Runs /\ unit' \in {"inactive", "queued", "active"} /\ Room'
      <4>1. /\ ui' = ui /\ Cardinality(Starting') \in Nat
            /\ Cardinality(Starting') = Cardinality(Starting) - 1
        BY <3>1, <3>2
      <4>2. runs' \in Nat /\ unit' \in {"inactive", "queued", "active"}
        BY <2>0, <3>3 DEF TypeOK
      <4>3. runs' + (IF unit' = "queued" THEN 1 ELSE 0)
              <= runs + (IF unit = "queued" THEN 1 ELSE 0) + 1
        BY <2>0, <3>3
      <4>4. Room'
        <5>1. PICK q \in 0 .. 1, qq \in 0 .. 1, x \in 0 .. 1 :
                /\ q = (IF unit = "queued" THEN 1 ELSE 0)
                /\ qq = (IF unit' = "queued" THEN 1 ELSE 0)
                /\ x = (IF ui = "submit" THEN 1 ELSE 0)
          OBVIOUS
        <5>2. runs + q + Cardinality(Starting) + x <= MaxRuns /\ runs' + qq <= runs + q + 1
          BY <2>0, <4>3, <5>1 DEF Room
        <5>3. PICK n \in Nat, nn \in Nat : n = Cardinality(Starting) /\ nn = Cardinality(Starting')
          BY <2>0, <4>1
        <5>4. nn = n - 1 /\ runs + q + n + x <= MaxRuns
          BY <4>1, <5>2, <5>3
        <5>5. runs' + qq + nn + x <= MaxRuns
          <6>1. runs \in Nat /\ runs' \in Nat /\ runs' + qq <= runs + q + 1
            BY <2>0, <4>2, <5>2
          <6>2. \A a, b, m \in Nat :
                  a + q + n + x <= m /\ nn = n - 1 /\ b + qq <= a + q + 1 => b + qq + nn + x <= m
            OBVIOUS
          <6> QED
            BY <5>4, <6>1, <6>2, Bounds
        <5> QED
          BY <4>1, <5>1, <5>3, <5>5, Zenon DEF Room
      <4>5. runs' <= MaxRuns
        BY <4>1, <4>2, <4>4 DEF Room
      <4> QED
        BY <4>2, <4>4, <4>5 DEF Runs
    <3> QED
      BY <2>0, <3>1, <3>2, <3>3, <3>4 DEF TypeInv, TypeOK, SightOK
  <2>5. ASSUME NEW w \in Workers, StartFails(w) \/ Stop(w) PROVE TypeInv'
    <3> DEFINE place == IF pc[w] = "start" THEN "idle" ELSE "sleep"
    <3>1. /\ Goto(w, place) /\ place \in Places \ {"start", "store"} /\ pc[w] \in {"start", "stop"}
          /\ UNCHANGED <<env, runs, file, shown, button, closed, ui, seen>>
      BY <2>5 DEF StartFails, Stop, Places
    <3>2. /\ unit' \in {"inactive", unit} /\ (pc[w] = "start" => unit' = unit)
          /\ err' \in BOOLEAN /\ mode' \in {"results", "form"}
      BY <2>0, <2>5 DEF StartFails, Stop, TypeOK
    <3> HIDE DEF place
    <3>3. /\ pc' \in [Goroutines -> Places] /\ pc'[Poller] \notin {"start", "stop", "sleep"}
          /\ pc'[w] = place /\ \A h \in Goroutines : h # w => pc'[h] = pc[h]
          /\ Cardinality(Starting') \in Nat /\ Cardinality(Starting') <= Cardinality(Starting)
      BY <2>0, <3>1, Goes, StartingSame
    <3>4. Room'
      BY <2>0, <3>1, <3>2, <3>3 DEF Room, TypeOK
    <3>5. SightOK'
      BY <2>0, <3>1, <3>3 DEF SightOK
    <3> QED
      BY <2>0, <3>1, <3>2, <3>3, <3>4, <3>5 DEF TypeInv, TypeOK
  <2>6. ASSUME PollEnds PROVE TypeInv'
    <3>1. Goto(Poller, "done") /\ pc[Poller] = "idle"
          /\ UNCHANGED <<env, world, shown, form, closed, ui, seen>>
      BY <2>6 DEF PollEnds
    <3>2. /\ pc' \in [Goroutines -> Places] /\ pc'[Poller] = "done"
          /\ \A h \in Goroutines : h # Poller => pc'[h] = pc[h]
          /\ Starting' = Starting
      BY <2>0, <3>1, Goes, StartingSame DEF Places
    <3> QED
      BY <2>0, <3>1, <3>2 DEF TypeInv, TypeOK, SightOK, Room
  <2>7. ASSUME UNCHANGED <<env, world, shown, pc, seen>>, closed' \in BOOLEAN, err' \in BOOLEAN,
               mode' \in {"results", "form"}, button' \in {"cancel", "background"},
               ui' \in UIPlaces, ui' = "submit" => RoomForRun
        PROVE  TypeInv'
    <3>1. Starting' = Starting
      BY <2>7 DEF Starting
    <3>2. Room'
      BY <2>0, <2>7, <3>1, RoomLeft DEF Room
    <3> QED
      BY <2>0, <2>7, <3>2 DEF TypeInv, TypeOK, SightOK
  <2>8. CASE KeyArrives \/ KeyNothing \/ KeyLeaves \/ KeyToForm
    BY <2>0, <2>7, <2>8 DEF KeyArrives, KeyNothing, KeyLeaves, KeyToForm, Keyed, TypeOK, UIPlaces
  <2>9. CASE KeyMovesButton \/ KeyMissing \/ KeySubmits
    BY <2>0, <2>7, <2>9 DEF KeyMovesButton, KeyMissing, KeySubmits, Keyed, TypeOK, UIPlaces
  <2>10. CASE KeyCancels \/ Submitted
    <3> DEFINE place == IF ui = "submit" THEN "start" ELSE "stop"
    <3>1. /\ UNCHANGED <<env, world, shown, err, closed, seen>> /\ ui' = "idle"
          /\ mode' \in {"results", "form"} /\ button' \in {"cancel", "background"}
          /\ \E w \in Workers : pc[w] = "idle" /\ Goto(w, place)
      BY <2>0, <2>10 DEF KeyCancels, Submitted, Keyed, On, Spawn, TypeOK
    <3>2. PICK w \in Workers : pc[w] = "idle" /\ Goto(w, place)
      BY <3>1
    <3>3. place \in Places
      BY DEF Places
    <3>4. /\ pc' \in [Goroutines -> Places] /\ pc'[Poller] \notin {"start", "stop", "sleep"}
          /\ pc'[w] = place /\ \A h \in Goroutines : h # w => pc'[h] = pc[h]
          /\ Cardinality(Starting') \in Nat
          /\ ui # "submit" => Starting' = Starting
          /\ ui = "submit" => Cardinality(Starting') = Cardinality(Starting) + 1
      BY <2>0, <3>2, <3>3, Goes, StartingSame
    <3>5. Room'
      BY <2>0, <3>1, <3>4 DEF Room
    <3>6. SightOK'
      BY <2>0, <3>1, <3>4 DEF SightOK
    <3> QED
      BY <2>0, <3>1, <3>4, <3>5, <3>6 DEF TypeInv, TypeOK, UIPlaces
  <2>11. CASE Activate \/ ToolSaves \/ ToolEnds \/ OtherStarts
    <3>1. /\ UNCHANGED <<env, shown, form, closed, ui, pc, seen>> /\ Starting' = Starting
          /\ file' \in 0 .. runs'
          /\ \/ unit = "queued" /\ unit' = "active" /\ runs' = runs + 1
             \/ unit' = "inactive" /\ runs' = runs
             \/ unit' = unit /\ runs' = runs
             \/ /\ unit = "inactive" /\ unit' = "active" /\ runs' = runs + 1
                /\ RoomForRun /\ ui # "submit"
      BY <2>0, <2>11 DEF Activate, Begins, ToolSaves, ToolEnds, OtherStarts, Starting
    <3>2. runs' \in Runs /\ unit' \in {"inactive", "queued", "active"} /\ Room'
      BY <2>0, <3>1, RoomLeft DEF Room, Runs, TypeOK
    <3> QED
      BY <2>0, <3>1, <3>2 DEF TypeInv, TypeOK, SightOK
  <2>12. CASE UNCHANGED vars
    <3>1. Starting' = Starting
      BY <2>12 DEF Starting
    <3> QED
      BY <2>0, <2>12, <3>1 DEF TypeInv, TypeOK, SightOK, Room
  <2> QED
    BY <2>1, <2>2, <2>3, <2>4, <2>5, <2>6, <2>8, <2>9, <2>10, <2>11, <2>12
       DEF Next, Work, Refresh, Act
<1> QED
  BY <1>1, <1>2, PTL DEF Spec

\* The tool screen's variables have their types, and the histories do not
\* change that.
THEOREM TypeCorrect == HSpec => []TypeOK
<1>1. HInit => Init
  BY DEF HInit
<1>2. [HNext]_hvars => [Next]_vars
  BY DEF HNext
<1>3. TypeInv => TypeOK
  BY DEF TypeInv
<1> QED
  BY <1>1, <1>2, <1>3, TypeInvHolds, PTL DEF HSpec, Spec

----------------------------------------------------------------------------
(* A patient user, alone with the tool.                                    *)

\* What a screen knows in a tame environment.  A refresh that has looked saw
\* what is so; a Key that has begun took a snapshot of what is so; a run that
\* is not on the screen yet has a worker that will refresh; and a start under
\* way is the only thing under way.
TameInv ==
  /\ unit # "queued" /\ file = runs
  /\ ui # "idle" => \A g \in Goroutines : pc[g] \notin {"list", "store"}
  /\ ui = "running" => running
  /\ ui \in {"other", "submit"} => ~running
  /\ \A g \in Goroutines : pc[g] \in {"list", "store"} => seen[g].running = Running
  /\ \A g \in Goroutines : pc[g] = "store" => seen[g].latest = runs
  /\ running => latest = runs
  /\ Running /\ ~running => \E w \in Workers : pc[w] \in {"sleep", "list", "store"}
  /\ ui = "submit" => ~err /\ ~Running /\ \A w \in Workers : pc[w] = "idle"
  /\ \A w \in Workers : pc[w] = "start" =>
       ~running /\ ~Running /\ \A v \in Workers : v # w => pc[v] = "idle"

\* What a tame environment is without.
LEMMA TameFacts ==
  ASSUME Tame
  PROVE  {"lag", "hasty", "slow_start", "other", "late"} \cap env = {}
BY DEF Tame

\* The screen in a tame environment, for any number of goroutines.
THEOREM TameInvHolds == Spec => [](Tame => TameInv)
<1> USE Bounds
<1>1. Init => (Tame => TameInv)
  BY TameFacts DEF Init, TameInv, Running
<1>2. TypeInv /\ (Tame => TameInv) /\ [Next]_vars => (Tame => TameInv)'
  <2> SUFFICES ASSUME TypeInv, Tame => TameInv, [Next]_vars, Tame' PROVE TameInv'
    OBVIOUS
  <2>a. env' = env
    BY DEF Next, Work, Refresh, Act, Look, List, Store, PollEnds, StartOK, StartFails, Stop,
           KeyArrives, KeyNothing, KeyLeaves, KeyToForm, KeyMovesButton, KeyCancels, KeyMissing,
           KeySubmits, Submitted, Activate, ToolSaves, ToolEnds, OtherStarts
  <2>0. /\ TypeOK /\ TameInv /\ {"lag", "hasty", "slow_start", "other", "late"} \cap env = {}
        /\ seen \in [Goroutines -> Sight] /\ Running \in BOOLEAN
    BY <2>a, TameFacts DEF Tame, TypeInv, TypeOK, Running
  <2>b. Undisturbed => ui = "idle" /\ \A g \in Goroutines : pc[g] \notin {"list", "store"}
    BY <2>0 DEF Undisturbed
  <2>1. ASSUME NEW g \in Goroutines, Look(g) PROVE TameInv'
    <3>1. /\ Goto(g, "list") /\ seen' = [seen EXCEPT ![g].running = Running] /\ Undisturbed
          /\ pc[g] = (IF g = Poller THEN "idle" ELSE "sleep") /\ UNCHANGED <<env, world, shown, form, closed, ui>>
      BY <2>1 DEF Look
    <3>2. pc'[g] = "list" /\ \A h \in Goroutines : h # g => pc'[h] = pc[h]
      BY <2>0, <3>1, Goes DEF Places
    <3>3. seen'[g].running = Running /\ \A h \in Goroutines : h # g => seen'[h] = seen[h]
      BY <2>0, <3>1 DEF Sight
    <3>4. Running' = Running
      BY <3>1 DEF Running
    <3>5. ASSUME pc[g] = "sleep", NEW w \in Workers PROVE pc[w] # "start"
      <4>1. g \in Workers
        BY <2>0, <3>5 DEF TypeOK, Goroutines
      <4>2. pc[w] = "start" => \A v \in Workers : v # w => pc[v] = "idle"
        BY <2>0 DEF TameInv
      <4> QED
        BY <3>5, <4>1, <4>2
    <3>6. ui = "idle" /\ \A h \in Goroutines : h # g => pc'[h] \notin {"list", "store"}
      BY <2>b, <3>1, <3>2
    <3>7. Running /\ ~running => \E w \in Workers : pc'[w] \in {"sleep", "list", "store"}
      <4> SUFFICES ASSUME Running, ~running PROVE \E w \in Workers : pc'[w] \in {"sleep", "list", "store"}
        OBVIOUS
      <4>1. PICK w \in Workers : pc[w] \in {"sleep", "list", "store"}
        BY <2>0 DEF TameInv
      <4>2. w \in Goroutines /\ pc'[w] \in {"sleep", "list", "store"}
        BY <3>2, <4>1 DEF Goroutines
      <4> QED
        BY <4>2
    <3>8. ASSUME NEW w \in Workers, pc'[w] = "start"
          PROVE  ~running /\ ~Running /\ \A v \in Workers : v # w => pc'[v] = "idle"
      <4>1. w # g /\ pc[w] = "start"
        BY <3>2, <3>8 DEF Goroutines
      <4>2. ~running /\ ~Running /\ \A v \in Workers : v # w => pc[v] = "idle"
        BY <2>0, <4>1 DEF TameInv
      <4>3. g \notin Workers
        <5> SUFFICES ASSUME g \in Workers PROVE FALSE
          OBVIOUS
        <5>1. pc[g] = "idle" /\ pc[g] # "sleep"
          BY <4>1, <4>2
        <5>2. pc[g] = "sleep"
          BY <3>1
        <5> QED
          BY <5>1, <5>2
      <4> QED
        BY <3>2, <4>2, <4>3 DEF Goroutines
    <3> QED
      BY <2>0, <3>1, <3>2, <3>3, <3>4, <3>6, <3>7, <3>8 DEF TameInv
  <2>2. ASSUME NEW g \in Goroutines, List(g) PROVE TameInv'
    <3> DEFINE l == LinesOf(file, seen[g].running)
    <3>1. Goto(g, "store") /\ seen' = [seen EXCEPT ![g].latest = file, ![g].lines = l]
          /\ pc[g] = "list" /\ UNCHANGED <<env, world, shown, form, closed, ui>>
      BY <2>2 DEF List
    <3> HIDE DEF l
    <3>2. pc'[g] = "store" /\ \A h \in Goroutines : h # g => pc'[h] = pc[h]
      BY <2>0, <3>1, Goes DEF Places
    <3>3. /\ seen'[g].running = seen[g].running /\ seen'[g].latest = file
          /\ \A h \in Goroutines : h # g => seen'[h] = seen[h]
      BY <2>0, <3>1 DEF Sight
    <3>4. Running' = Running
      BY <3>1 DEF Running
    <3> QED
      BY <2>0, <3>1, <3>2, <3>3, <3>4 DEF TameInv, TypeOK
  <2>3. ASSUME NEW g \in Goroutines, Store(g) PROVE TameInv'
    <3>1. /\ Goto(g, "idle") /\ seen' = [seen EXCEPT ![g] = Blank] /\ pc[g] = "store"
          /\ running' = seen[g].running /\ latest' = seen[g].latest
          /\ UNCHANGED <<env, world, form, closed, ui>>
      BY <2>3 DEF Store
    <3>2. pc'[g] = "idle" /\ \A h \in Goroutines : h # g => pc'[h] = pc[h]
      BY <2>0, <3>1, Goes DEF Places
    <3>3. \A h \in Goroutines : h # g => seen'[h] = seen[h]
      BY <2>0, <3>1
    <3>4. Running' = Running /\ running' = Running /\ latest' = runs /\ ui = "idle"
      BY <2>0, <3>1 DEF TameInv, Running
    <3>5. /\ unit # "queued" /\ file = runs
          /\ \A h \in Goroutines : pc[h] \in {"list", "store"} => seen[h].running = Running
          /\ \A h \in Goroutines : pc[h] = "store" => seen[h].latest = runs
          /\ \A w \in Workers : pc[w] = "start" =>
               ~Running /\ \A v \in Workers : v # w => pc[v] = "idle"
      BY <2>0 DEF TameInv
    <3> QED
      BY <3>1, <3>2, <3>3, <3>4, <3>5 DEF TameInv
  <2>4. ASSUME NEW w \in Workers, StartOK(w) PROVE TameInv'
    <3>1. /\ Goto(w, "sleep") /\ pc[w] = "start" /\ Undisturbed /\ ~Running
          /\ UNCHANGED <<env, shown, form, closed, ui, seen>>
      BY <2>4 DEF StartOK
    <3>2. pc'[w] = "sleep" /\ \A h \in Goroutines : h # w => pc'[h] = pc[h]
      BY <2>0, <3>1, Goes DEF Places
    <3>3. unit' # "queued" /\ file' = runs' /\ ~running /\ \A v \in Workers : v # w => pc[v] = "idle"
      BY <2>0, <2>4, <3>1 DEF StartOK, Begins, TameInv
    <3> QED
      BY <2>0, <2>b, <3>1, <3>2, <3>3 DEF TameInv
  <2>5. ASSUME NEW w \in Workers, StartFails(w) PROVE TameInv'
    <3>1. /\ Goto(w, "idle") /\ pc[w] = "start" /\ Undisturbed
          /\ UNCHANGED <<env, world, shown, closed, ui, seen>>
      BY <2>5 DEF StartFails
    <3>2. pc'[w] = "idle" /\ \A h \in Goroutines : h # w => pc'[h] = pc[h]
      BY <2>0, <3>1, Goes DEF Places
    <3>3. Running' = Running
      BY <3>1 DEF Running
    <3> QED
      BY <2>0, <2>b, <3>1, <3>2, <3>3 DEF TameInv
  <2>6. ASSUME NEW w \in Workers, Stop(w) PROVE TameInv'
    <3>1. /\ Goto(w, "sleep") /\ pc[w] = "stop" /\ Undisturbed /\ unit' \in {"inactive", unit}
          /\ UNCHANGED <<env, runs, file, shown, form, closed, ui, seen>>
      BY <2>6 DEF Stop
    <3>2. pc'[w] = "sleep" /\ \A h \in Goroutines : h # w => pc'[h] = pc[h]
      BY <2>0, <3>1, Goes DEF Places
    <3>3. Running' => Running
      BY <3>1 DEF Running
    <3>4. \A v \in Workers : pc[v] # "start"
      BY <2>0, <3>1 DEF TameInv
    <3> QED
      BY <2>0, <2>b, <3>1, <3>2, <3>3, <3>4 DEF TameInv
  <2>7. CASE PollEnds
    <3>1. Goto(Poller, "done") /\ pc[Poller] = "idle"
          /\ UNCHANGED <<env, world, shown, form, closed, ui, seen>>
      BY <2>7 DEF PollEnds
    <3>2. pc'[Poller] = "done" /\ \A h \in Goroutines : h # Poller => pc'[h] = pc[h]
      BY <2>0, <3>1, Goes DEF Places
    <3>3. Running' = Running
      BY <3>1 DEF Running
    <3> QED
      BY <2>0, <3>1, <3>2, <3>3 DEF TameInv
  <2>8. CASE KeyArrives
    <3>1. /\ ui' = (IF running THEN "running" ELSE "other") /\ Undisturbed
          /\ UNCHANGED <<env, world, shown, form, closed, pc, seen>> /\ Running' = Running
      BY <2>8 DEF KeyArrives, Running
    <3> QED
      BY <2>0, <2>b, <3>1 DEF TameInv
  <2>9. CASE KeyNothing \/ KeyLeaves \/ KeyToForm \/ KeyMovesButton \/ KeyMissing
    <3>1. ui' = "idle" /\ UNCHANGED <<env, world, shown, pc, seen>> /\ Running' = Running
      BY <2>9 DEF KeyNothing, KeyLeaves, KeyToForm, KeyMovesButton, KeyMissing, Keyed, Running
    <3> QED
      BY <2>0, <3>1 DEF TameInv
  <2>10. CASE KeySubmits
    <3>1. /\ ui = "other" /\ ui' = "submit" /\ err' = FALSE /\ \A w \in Workers : pc[w] = "idle"
          /\ UNCHANGED <<env, world, shown, pc, seen>> /\ Running' = Running
      BY <2>0, <2>10 DEF KeySubmits, On, Running
    <3>2. ~running /\ ~Running
      BY <2>0, <3>1 DEF TameInv
    <3> QED
      BY <2>0, <3>1, <3>2 DEF TameInv
  <2>11. CASE KeyCancels
    <3>1. /\ ui = "running" /\ ui' = "idle" /\ UNCHANGED <<env, world, shown, err, closed, seen>>
          /\ \E w \in Workers : pc[w] = "idle" /\ Goto(w, "stop")
          /\ Running' = Running
      BY <2>11 DEF KeyCancels, Keyed, On, Spawn, Running
    <3>2. PICK w \in Workers : pc[w] = "idle" /\ Goto(w, "stop")
      BY <3>1
    <3>3. pc'[w] = "stop" /\ \A h \in Goroutines : h # w => pc'[h] = pc[h]
      BY <2>0, <3>2, Goes DEF Places
    <3>4. running /\ \A v \in Workers : pc[v] # "start"
      BY <2>0, <3>1 DEF TameInv
    <3> QED
      BY <2>0, <3>1, <3>2, <3>3, <3>4 DEF TameInv
  <2>12. CASE Submitted
    <3>1. /\ ui = "submit" /\ ui' = "idle" /\ UNCHANGED <<env, world, shown, err, closed, seen>>
          /\ \E w \in Workers : pc[w] = "idle" /\ Goto(w, "start")
          /\ Running' = Running
      BY <2>12 DEF Submitted, Spawn, Running
    <3>2. PICK w \in Workers : pc[w] = "idle" /\ Goto(w, "start")
      BY <3>1
    <3>3. pc'[w] = "start" /\ \A h \in Goroutines : h # w => pc'[h] = pc[h]
      BY <2>0, <3>2, Goes DEF Places
    <3>4. ~running /\ ~Running /\ \A v \in Workers : pc[v] = "idle"
      BY <2>0, <3>1 DEF TameInv
    <3> QED
      BY <2>0, <3>1, <3>3, <3>4 DEF TameInv
  <2>13. CASE Activate \/ OtherStarts
    BY <2>0, <2>13 DEF Activate, OtherStarts, TameInv
  <2>14. CASE ToolSaves
    BY <2>0, <2>14 DEF ToolSaves
  <2>15. CASE ToolEnds
    <3>1. /\ unit' = "inactive" /\ Undisturbed /\ ~Running'
          /\ UNCHANGED <<env, runs, file, shown, form, closed, ui, pc, seen>>
      BY <2>15 DEF ToolEnds, Running
    <3> QED
      BY <2>0, <2>b, <3>1 DEF TameInv
  <2>16. CASE UNCHANGED vars
    BY <2>0, <2>16 DEF TameInv, Running
  <2> QED
    BY <2>1, <2>2, <2>3, <2>4, <2>5, <2>6, <2>7, <2>8, <2>9, <2>10, <2>11, <2>12, <2>13, <2>14, <2>15,
       <2>16 DEF Next, Work, Refresh, Act
<1> QED
  BY <1>1, <1>2, TypeInvHolds, PTL DEF Spec

----------------------------------------------------------------------------
(* What the histories say of a tame environment.                           *)

\* The invariants hold with the histories too.
LEMMA HistoriesKeepInvariants == HSpec => [](TypeInv /\ (Tame => TameInv))
<1>1. HInit => Init
  BY DEF HInit
<1>2. [HNext]_hvars => [Next]_vars
  BY DEF HNext
<1> QED
  BY <1>1, <1>2, TypeInvHolds, TameInvHolds, PTL DEF HSpec, Spec

\* The environment stays, so a step of a tame behaviour starts in a state
\* TameInv describes.
LEMMA TameStep ==
  ASSUME TypeInv, Tame => TameInv, [Next]_vars, Tame'
  PROVE  /\ Tame /\ TypeOK /\ TameInv
         /\ env' = env /\ {"lag", "hasty", "slow_start", "other", "late"} \cap env = {}
<1>1. env' = env
  BY DEF Next, Work, Refresh, Act, Look, List, Store, PollEnds, StartOK, StartFails, Stop,
         KeyArrives, KeyNothing, KeyLeaves, KeyToForm, KeyMovesButton, KeyCancels, KeyMissing,
         KeySubmits, Submitted, Activate, ToolSaves, ToolEnds, OtherStarts
<1>2. Tame
  BY <1>1 DEF Tame
<1> QED
  BY <1>1, <1>2, TameFacts DEF TypeInv

\* While the results are due the form is the page, or the page behind, only
\* if nothing runs, nothing is shown to run and no start is under way.
FormMeansNoRun ==
  /\ wants \in {"form", "results"}
  /\ wants = "results" /\ mode = "form" =>
       ~running /\ ~Running /\ \A w \in Workers : pc[w] # "start"

\* The running view keeps its word to a user that waits: the only way to the
\* form that is not the user's own is a failed start, and TameInv has nothing
\* else under way then.
THEOREM PromiseKeptHolds == HSpec => []PromiseKept
<1> USE Bounds
<1>1. HInit => (Tame => FormMeansNoRun)
  BY DEF HInit, Init, FormMeansNoRun
<1>2. TypeInv /\ TypeInv' /\ (Tame => TameInv) /\ (Tame => TameInv)' /\ (Tame => FormMeansNoRun)
      /\ [HNext]_hvars
      => (Tame => FormMeansNoRun)'
  <2> SUFFICES ASSUME TypeInv, TypeInv', Tame => TameInv, (Tame => TameInv)',
                      Tame => FormMeansNoRun, [HNext]_hvars, Tame'
               PROVE  FormMeansNoRun'
    OBVIOUS
  <2>0. /\ Tame /\ TypeOK /\ TypeOK' /\ TameInv /\ FormMeansNoRun /\ [Next]_vars
        /\ {"lag", "hasty", "slow_start", "other", "late"} \cap env = {}
        /\ pc \in [Goroutines -> Places]
    BY TameStep DEF HNext, TypeInv, TypeOK
  <2>1. CASE (KeyToForm \/ KeyCancels) /\ wants' = mode'
    BY <2>0, <2>1 DEF FormMeansNoRun, TypeOK
  <2>2. CASE Submitted /\ wants' = "results"
    BY <2>2 DEF Submitted, FormMeansNoRun
  <2>3. CASE wants' = wants /\ ~KeyToForm /\ ~KeyCancels /\ ~Submitted
    <3>1. CASE mode' = mode /\ Running' = Running /\ running' \in {running, Running}
               /\ \A w \in Workers : pc'[w] = "start" => pc[w] = "start"
      BY <2>0, <2>3, <3>1 DEF FormMeansNoRun
    <3>2. ASSUME NEW g \in Goroutines, NEW place \in {"idle", "sleep", "list", "store", "done"},
                 Goto(g, place)
          PROVE  \A w \in Workers : pc'[w] = "start" => pc[w] = "start"
      <4>0. place \in Places
        BY DEF Places
      <4>1. pc'[g] = place /\ \A h \in Goroutines : h # g => pc'[h] = pc[h]
        BY <2>0, <3>2, <4>0 DEF Goto
      <4> QED
        BY <4>1 DEF Goroutines
    <3>3. ASSUME NEW g \in Goroutines, Refresh(g) PROVE FormMeansNoRun'
      <4>1. /\ Goto(g, "list") \/ Goto(g, "store") \/ Goto(g, "idle")
            /\ mode' = mode /\ unit' = unit
            /\ running' = running \/ (pc[g] = "store" /\ running' = seen[g].running)
        <5>1. CASE Look(g)
          <6>1. Goto(g, "list") /\ UNCHANGED <<world, shown, form>>
            BY <5>1 DEF Look
          <6> QED
            BY <6>1
        <5>2. CASE List(g)
          <6>1. Goto(g, "store") /\ UNCHANGED <<world, shown, form>>
            BY <5>2 DEF List
          <6> QED
            BY <6>1
        <5>3. CASE Store(g)
          BY <5>3 DEF Store
        <5> QED
          BY <3>3, <5>1, <5>2, <5>3 DEF Refresh
      <4>2. Running' = Running /\ running' \in {running, Running}
        BY <2>0, <4>1 DEF Running, TameInv
      <4> QED
        BY <3>1, <3>2, <4>1, <4>2
    <3>4. ASSUME NEW w \in Workers, StartOK(w) PROVE FormMeansNoRun'
      <4>1. pc[w] = "start" /\ mode' = mode
        BY <3>4 DEF StartOK
      <4> QED
        BY <2>0, <2>3, <4>1 DEF FormMeansNoRun
    <3>5. ASSUME NEW w \in Workers, StartFails(w) PROVE FormMeansNoRun'
      <4>1. Goto(w, "idle") /\ pc[w] = "start" /\ unit' = unit /\ running' = running
        BY <3>5 DEF StartFails
      <4>2. pc'[w] = "idle" /\ \A h \in Goroutines : h # w => pc'[h] = pc[h]
        BY <2>0, <4>1, Goes DEF Places, TypeOK
      <4>3. ~running /\ ~Running /\ \A v \in Workers : v # w => pc[v] = "idle"
        BY <2>0, <4>1 DEF TameInv
      <4> QED
        BY <2>0, <2>3, <4>1, <4>2, <4>3 DEF FormMeansNoRun, Running
    <3>6. ASSUME NEW w \in Workers, Stop(w) PROVE FormMeansNoRun'
      <4>1. Goto(w, "sleep") /\ unit' \in {"inactive", unit} /\ mode' = mode /\ running' = running
        BY <3>6 DEF Stop
      <4> QED
        BY <2>0, <2>3, <3>2, <4>1 DEF FormMeansNoRun, Running
    <3>7. CASE PollEnds
      <4>1. Goto(Poller, "done") /\ mode' = mode /\ unit' = unit /\ running' = running
        BY <3>7 DEF PollEnds
      <4> QED
        BY <3>1, <3>2, <4>1 DEF Running
    <3>8. CASE KeyArrives \/ KeyNothing \/ KeyLeaves \/ KeyMovesButton \/ KeyMissing \/ KeySubmits
      <4>1. mode' = mode /\ unit' = unit /\ running' = running /\ pc' = pc
        BY <3>8 DEF KeyArrives, KeyNothing, KeyLeaves, KeyMovesButton, KeyMissing, KeySubmits,
                    shown
      <4> QED
        BY <3>1, <4>1 DEF Running
    <3>9. CASE Activate \/ ToolSaves \/ OtherStarts
      BY <2>0, <3>9 DEF Activate, ToolSaves, OtherStarts, TameInv
    <3>10. CASE ToolEnds
      <4>1. unit' = "inactive" /\ mode' = mode /\ running' = running /\ pc' = pc
        BY <3>10 DEF ToolEnds
      <4> QED
        BY <2>0, <2>3, <4>1 DEF FormMeansNoRun, Running
    <3>11. CASE UNCHANGED vars
      BY <3>1, <3>11 DEF Running
    <3> QED
      BY <2>0, <2>3, <3>3, <3>4, <3>5, <3>6, <3>7, <3>8, <3>9, <3>10, <3>11
         DEF Next, Work, Act
  <2>4. CASE UNCHANGED hvars
    BY <2>0, <2>4 DEF FormMeansNoRun, Running
  <2> QED
    BY <2>1, <2>2, <2>3, <2>4 DEF HNext
<1>3. TypeInv /\ (Tame => FormMeansNoRun) => PromiseKept
  BY DEF TypeInv, TypeOK, FormMeansNoRun, PromiseKept, ResultsWillShow
<1> QED
  BY <1>1, <1>2, <1>3, HistoriesKeepInvariants, PTL DEF HSpec

\* A user that waits sees an error of a start or of the form: a submit takes
\* the old one away before it leaves the form, and no start fails between.
THEOREM ErrorShownHolds == HSpec => []ErrorShown
<1> USE Bounds
<1>1. HInit => ErrorShown
  BY DEF HInit, Init, ErrorShown
<1>2. TypeInv /\ (Tame => TameInv) /\ ErrorShown /\ [HNext]_hvars => ErrorShown'
  <2> SUFFICES ASSUME TypeInv, Tame => TameInv, ErrorShown, [HNext]_hvars,
                      Tame', "continuous" \notin env', err', ui' # "submit"
               PROVE  mode' = "form"
    BY DEF ErrorShown
  <2>0. /\ TypeOK /\ TameInv /\ [Next]_vars /\ "continuous" \notin env
        /\ {"lag", "hasty", "slow_start", "other", "late"} \cap env = {}
        /\ (err /\ ui # "submit" => mode = "form")
    BY TameStep DEF HNext, ErrorShown
  <2>1. CASE err' = err /\ mode' = mode /\ ui # "submit"
    BY <2>0, <2>1
  <2>2. ASSUME NEW g \in Goroutines, Refresh(g) PROVE mode' = "form"
    <3>1. err' = err /\ mode' = mode /\ ui' = ui
      BY <2>2 DEF Refresh, Look, List, Store
    <3> QED
      BY <2>1, <3>1
  <2>3. ASSUME NEW w \in Workers, StartOK(w) \/ Stop(w) PROVE mode' = "form"
    <3>1. err' = err /\ mode' = mode /\ ui' = ui
      BY <2>3 DEF StartOK, Stop
    <3> QED
      BY <2>1, <3>1
  <2>4. ASSUME NEW w \in Workers, StartFails(w) PROVE mode' = "form"
    BY <2>4 DEF StartFails
  <2>5. CASE PollEnds \/ Activate \/ ToolSaves \/ ToolEnds \/ OtherStarts
    <3>1. err' = err /\ mode' = mode /\ ui' = ui
      BY <2>5 DEF PollEnds, Activate, ToolSaves, ToolEnds, OtherStarts
    <3> QED
      BY <2>1, <3>1
  <2>6. CASE KeyArrives \/ KeyNothing \/ KeyLeaves \/ KeyMovesButton
    <3>1. err' = err /\ mode' = mode /\ ui # "submit"
      BY <2>6 DEF KeyArrives, KeyNothing, KeyLeaves, KeyMovesButton, Keyed, On
    <3> QED
      BY <2>1, <3>1
  <2>7. CASE KeyToForm \/ KeyCancels \/ KeySubmits
    BY <2>0, <2>7 DEF KeyToForm, KeyCancels, KeySubmits
  <2>8. CASE KeyMissing
    BY <2>8 DEF KeyMissing, Keyed, On
  <2>9. CASE Submitted
    BY <2>0, <2>9 DEF Submitted, TameInv
  <2>10. CASE UNCHANGED vars
    BY <2>1, <2>10
  <2> QED
    BY <2>0, <2>2, <2>3, <2>4, <2>5, <2>6, <2>7, <2>8, <2>9, <2>10 DEF Next, Work, Act
<1> QED
  BY <1>1, <1>2, HistoriesKeepInvariants, PTL DEF HSpec

\* A cancel on its way was pressed for the newest run.
CancelsNewest == \A w \in Workers : pc[w] = "stop" => target[w] = runs

\* A user that waits cancels the run on the screen and no later one: a start
\* is never under way beside a cancel, so the newest run stays the newest.
THEOREM CancelsSeenRunHolds == HSpec => []CancelsSeenRun
<1> USE Bounds
<1>1. HInit => (Tame => CancelsNewest)
  BY DEF HInit, Init, CancelsNewest
<1>2. TypeInv /\ (Tame => TameInv) /\ (Tame => CancelsNewest) /\ [HNext]_hvars
      => (Tame => CancelsNewest)'
  <2> SUFFICES ASSUME TypeInv, Tame => TameInv, Tame => CancelsNewest, [HNext]_hvars, Tame',
                      NEW w \in Workers, pc'[w] = "stop"
               PROVE  target'[w] = runs'
    BY DEF CancelsNewest
  <2>0. /\ Tame /\ TypeOK /\ TameInv /\ CancelsNewest /\ [Next]_vars
        /\ {"lag", "hasty", "slow_start", "other", "late"} \cap env = {}
        /\ pc \in [Goroutines -> Places]
    BY TameStep DEF HNext, TypeOK
  <2>1. CASE UNCHANGED hvars
    BY <2>0, <2>1 DEF CancelsNewest
  <2>2. CASE HNext
    <3>1. target'[w] = IF pc[w] = "idle" THEN latest ELSE target[w]
      BY <2>0, <2>2 DEF HNext
    <3>2. CASE pc[w] = "stop" /\ runs' = runs
      BY <2>0, <3>1, <3>2 DEF CancelsNewest
    <3>3. ASSUME NEW g \in Goroutines, NEW place \in {"start", "idle", "sleep", "list", "store", "done"},
                 Goto(g, place)
          PROVE  pc[w] = "stop"
      <4>1. place \in Places /\ w \in Goroutines
        BY DEF Places
      <4>2. pc'[g] = place /\ (w # g => pc'[w] = pc[w])
        BY <2>0, <3>3, <4>1 DEF Goto
      <4> QED
        BY <4>2
    <3>4. ASSUME NEW g \in Goroutines, Refresh(g) PROVE target'[w] = runs'
      <4>1. runs' = runs /\ (Goto(g, "list") \/ Goto(g, "store") \/ Goto(g, "idle"))
        <5>1. CASE Look(g)
          BY <5>1 DEF Look
        <5>2. CASE List(g)
          BY <5>2 DEF List
        <5>3. CASE Store(g)
          BY <5>3 DEF Store
        <5> QED
          BY <3>4, <5>1, <5>2, <5>3 DEF Refresh
      <4> QED
        BY <3>2, <3>3, <4>1
    <3>5. ASSUME NEW v \in Workers, StartOK(v) PROVE target'[w] = runs'
      <4>1. pc[v] = "start" /\ Goto(v, "sleep")
        BY <3>5 DEF StartOK
      <4>2. pc[w] = "stop"
        BY <3>3, <4>1
      <4> QED
        BY <2>0, <4>1, <4>2 DEF TameInv
    <3>6. ASSUME NEW v \in Workers, StartFails(v) \/ Stop(v) PROVE target'[w] = runs'
      <4>1. runs' = runs /\ (Goto(v, "idle") \/ Goto(v, "sleep"))
        BY <3>6 DEF StartFails, Stop
      <4> QED
        BY <3>2, <3>3, <4>1
    <3>7. CASE PollEnds
      <4>1. runs' = runs /\ Goto(Poller, "done")
        BY <3>7 DEF PollEnds
      <4> QED
        BY <3>2, <3>3, <4>1
    <3>8. CASE KeyCancels
      <4>1. ui = "running" /\ runs' = runs /\ \E v \in Workers : pc[v] = "idle" /\ Goto(v, "stop")
        BY <3>8 DEF KeyCancels, Keyed, On, Spawn
      <4>2. PICK v \in Workers : pc[v] = "idle" /\ Goto(v, "stop")
        BY <4>1
      <4>3. latest = runs
        BY <2>0, <4>1 DEF TameInv
      <4>4. w # v => pc[w] = "stop"
        BY <2>0, <4>2 DEF Goto
      <4> QED
        BY <3>1, <3>2, <4>1, <4>2, <4>3, <4>4
    <3>9. CASE Submitted
      <4>1. runs' = runs /\ \E v \in Workers : Goto(v, "start")
        BY <3>9 DEF Submitted, Spawn
      <4> QED
        BY <3>2, <3>3, <4>1
    <3>10. CASE KeyArrives \/ KeyNothing \/ KeyLeaves \/ KeyToForm \/ KeyMovesButton \/ KeyMissing
                \/ KeySubmits \/ ToolEnds
      <4>1. pc' = pc /\ runs' = runs
        BY <3>10 DEF KeyArrives, KeyNothing, KeyLeaves, KeyToForm, KeyMovesButton, KeyMissing,
                     KeySubmits, ToolEnds
      <4> QED
        BY <3>2, <4>1
    <3>11. CASE Activate \/ ToolSaves \/ OtherStarts
      BY <2>0, <3>11 DEF Activate, ToolSaves, OtherStarts, TameInv
    <3> QED
      BY <2>2, <3>4, <3>5, <3>6, <3>7, <3>8, <3>9, <3>10, <3>11 DEF HNext, Next, Work, Act
  <2> QED
    BY <2>1, <2>2
<1>3. (Tame => TameInv) /\ (Tame => CancelsNewest) => CancelsSeenRun
  BY DEF CancelsNewest, CancelsSeenRun
<1> QED
  BY <1>1, <1>2, <1>3, HistoriesKeepInvariants, PTL DEF HSpec
=============================================================================
