------------------------- MODULE ToolRunnerProofs ---------------------------
(***************************************************************************)
(* Proofs about ToolRunner, for every set of threads, values and           *)
(* environments and every bound, and about Outputs, for any number of runs *)
(* and any clock.                                                          *)
(***************************************************************************)
EXTENDS ToolRunnerHistory, Outputs, TLAPS

----------------------------------------------------------------------------
(***************************************************************************)
(* Outputs: the output files of the runs of a tool.                        *)
(***************************************************************************)
\* What the division by the instants of a second is, and that it is monotone.
LEMMA Division ==
  ASSUME NEW a \in Nat, NEW p \in Nat \ {0}
  PROVE  /\ a \div p \in Nat
         /\ p * (a \div p) <= a /\ a < p * (a \div p) + p
OBVIOUS

\* ... and that it is monotone.
LEMMA DivisionMonotone ==
  ASSUME NEW a \in Nat, NEW b \in Nat, a <= b, NEW p \in Nat \ {0}
  PROVE  a \div p <= b \div p
<1> DEFINE q == a \div p
           r == b \div p
<1>1. /\ q \in Nat /\ r \in Nat /\ p * q <= a /\ b < p * r + p
  BY Division
<1> HIDE DEF q, r
<1>2. SUFFICES ASSUME r < q PROVE FALSE
  BY <1>1 DEF q, r
<1>3. p * (r + 1) <= p * q
  BY <1>1, <1>2
<1>4. p * (r + 1) = p * r + p
  BY <1>1
<1>5. p * q \in Int /\ p * r \in Int /\ p * (r + 1) \in Int
  BY <1>1
<1> HIDE <1>2
<1> QED BY <1>1, <1>3, <1>4, <1>5

----------------------------------------------------------------------------
(***************************************************************************)
(* Types.                                                                  *)
(***************************************************************************)
RunType == [number : 0 .. MaxRuns, second : Seconds, does : {"nothing", "command", "post"}]

\* The bounds are numbers, and every instant is of a second.
LEMMA OutputSizes ==
  /\ MaxRuns \in Nat /\ MaxInstant \in Nat /\ PerSecond \in Nat \ {0}
  /\ \A i \in 0 .. MaxInstant : i \div PerSecond \in Seconds
  /\ Seconds \subseteq Nat /\ 0 \in Seconds
<1>1. MaxRuns \in Nat /\ MaxInstant \in Nat /\ PerSecond \in Nat \ {0}
  BY OutputsAssumption
<1>2. MaxInstant \div PerSecond \in Nat
  BY <1>1, Division
<1>3. ASSUME NEW i \in 0 .. MaxInstant
      PROVE  i \div PerSecond \in Nat /\ i \div PerSecond <= MaxInstant \div PerSecond
  BY <1>1, Division, DivisionMonotone
<1> QED BY <1>1, <1>2, <1>3 DEF Seconds

\* The second a run that begins now is named after.
LEMMA StampIs ==
  ASSUME OutputsTypeOK
  PROVE  Stamp \in Seconds /\ Stamp \in Nat
BY OutputSizes DEF Stamp, OutputsTypeOK

\* The types hold at first ...
LEMMA OutputsTypedInit == OutputsInit => OutputsTypeOK
<1> SUFFICES ASSUME OutputsInit PROVE OutputsTypeOK
  OBVIOUS
<1>1. <<>> \in Contents
  BY DEF Contents
<1>2. [number |-> 0, second |-> 0, does |-> "nothing"] \in RunType
  BY OutputSizes DEF RunType
<1> QED
  BY <1>1, <1>2, OutputSizes DEF OutputsInit, OutputsTypeOK, RunType, NoTime

\* What a step writes is a file again.
LEMMA OpenedType ==
  ASSUME OutputsTypeOK, NEW s \in Seconds, NEW step \in {"command", "post"}, OpensOutput(step, s)
  PROVE  content' \in [Seconds -> Contents] /\ written' \in [Seconds -> NoTime .. MaxInstant]
<1>1. content[s] \in Contents /\ <<>> \in Contents
  BY DEF OutputsTypeOK, Contents
<1>2. OpenedBy(step, content[s]) \in Contents
  BY <1>1 DEF OpenedBy
<1>3. content' \in [Seconds -> Contents]
  BY <1>2 DEF OutputsTypeOK, OpensOutput
<1>4. instant \in NoTime .. MaxInstant
  BY OutputSizes DEF OutputsTypeOK, NoTime
<1>5. written' \in [Seconds -> NoTime .. MaxInstant]
  BY <1>4 DEF OutputsTypeOK, OpensOutput
<1> QED BY <1>3, <1>5

\* Only a run that has a number does anything.
Numbered == run.does # "nothing" => run.number \in Runs

\* ... and in every step; a run that does something has a number.
LEMMA OutputsTypedStep ==
  ASSUME OutputsTypeOK, Numbered, [OutputsNext]_outVars
  PROVE  OutputsTypeOK' /\ Numbered'
<1>t. run \in RunType /\ instant \in 0 .. MaxInstant
  BY DEF OutputsTypeOK, RunType
<1>1. CASE Clock
  BY <1>1, OutputSizes DEF Clock, OutputsTypeOK, Numbered
<1>2. CASE ClockStepsBack
  BY <1>2, OutputSizes DEF ClockStepsBack, OutputsTypeOK, Numbered
<1>3. CASE RunBegins
  <2>1. run.number + 1 \in Runs /\ run.number + 1 \in 0 .. MaxRuns
    BY <1>t, <1>3, OutputSizes DEF RunBegins, Runs, RunType
  <2>2. run' \in RunType
    BY <1>3, <2>1, StampIs DEF RunBegins, RunType
  <2>3. begun' \in [Runs -> Seconds]
    BY <1>3, StampIs DEF RunBegins, OutputsTypeOK
  <2>4. content' \in [Seconds -> Contents] /\ written' \in [Seconds -> NoTime .. MaxInstant]
    BY <1>3, StampIs, OpenedType DEF RunBegins
  <2>5. Numbered'
    BY <1>3, <2>1 DEF RunBegins, Numbered
  <2> QED BY <1>3, <2>2, <2>3, <2>4, <2>5 DEF RunBegins, OutputsTypeOK, RunType
<1>4. CASE RunWrites
  <2> DEFINE part == <<run.number, run.does>>
  <2>1. /\ content' = [content EXCEPT ![run.second] = Append(content[run.second], part)]
        /\ written' = [written EXCEPT ![run.second] = instant]
        /\ parts' = [parts EXCEPT ![run.number] = Append(parts[run.number], part)]
        /\ UNCHANGED <<outEnv, resultsFile, instant, made, run, begun>> /\ run.does # "nothing"
    BY <1>4 DEF RunWrites
  <2>2. run.number \in Runs
    BY <2>1 DEF Numbered
  <2>3. part \in Runs \X {"command", "post"}
    BY <1>t, <2>1, <2>2 DEF RunType
  <2> HIDE DEF part
  <2>4. content[run.second] \in Contents /\ parts[run.number] \in Contents
    BY <1>t, <2>2 DEF OutputsTypeOK, RunType
  <2>5. Append(content[run.second], part) \in Contents /\ Append(parts[run.number], part) \in Contents
    BY <2>3, <2>4 DEF Contents
  <2>6. content' \in [Seconds -> Contents] /\ parts' \in [Runs -> Contents]
    BY <2>1, <2>5 DEF OutputsTypeOK
  <2>7. written' \in [Seconds -> NoTime .. MaxInstant]
    BY <1>t, <2>1 DEF OutputsTypeOK, NoTime
  <2> QED BY <2>1, <2>6, <2>7 DEF OutputsTypeOK, Numbered
<1>5. CASE PostBegins
  <2>1. /\ run.second \in Seconds /\ run.does = "command"
        /\ run' = [run EXCEPT !.does = "post"]
        /\ UNCHANGED <<outEnv, resultsFile, instant, made, parts, begun>>
        /\ OpensOutput("post", run.second)
    BY <1>t, <1>5 DEF PostBegins, RunType
  <2>2. content' \in [Seconds -> Contents] /\ written' \in [Seconds -> NoTime .. MaxInstant]
    BY <2>1, OpenedType
  <2>3. run' \in RunType /\ run'.number = run.number
    BY <1>t, <2>1 DEF RunType
  <2> QED BY <2>1, <2>2, <2>3 DEF OutputsTypeOK, RunType, Numbered
<1>6. CASE RunEnds
  <2>1. run' \in RunType /\ run'.does = "nothing"
    BY <1>t, <1>6 DEF RunEnds, RunType
  <2> QED BY <1>6, <2>1 DEF RunEnds, OutputsTypeOK, RunType, Numbered
<1>7. CASE ToolSaves
  <2>1. /\ made' = [made EXCEPT ![run.second] = instant]
        /\ UNCHANGED <<outEnv, resultsFile, instant, content, written, run, parts, begun>>
    BY <1>7 DEF ToolSaves
  <2>2. made' \in [Seconds -> NoTime .. MaxInstant]
    BY <1>t, <2>1 DEF OutputsTypeOK, NoTime
  <2> QED BY <2>1, <2>2 DEF OutputsTypeOK, Numbered
<1>8. CASE UNCHANGED outVars
  BY <1>8 DEF outVars, OutputsTypeOK, Numbered
<1> QED BY <1>1, <1>2, <1>3, <1>4, <1>5, <1>6, <1>7, <1>8 DEF OutputsNext

\* The types of the outputs hold in every state.
THEOREM OutputsTyped == OutputsSpec => []OutputsTypeOK
<1>1. OutputsInit => OutputsTypeOK /\ Numbered
  BY OutputsTypedInit DEF OutputsInit, Numbered
<1> QED BY <1>1, OutputsTypedStep, PTL DEF OutputsSpec

----------------------------------------------------------------------------
(***************************************************************************)
(* The outputs of runs that begin one second after the other.              *)
(***************************************************************************)
Ended == 1 .. run.number

\* The run r has its .output, begun in the past; the run q after it a later
\* one, and writes its own file, if at all, when the last write to r's is past.
Kept(r) ==
  /\ content[begun[r]] = parts[r]
  /\ written[begun[r]] # NoTime /\ written[begun[r]] <= instant
  /\ made[begun[r]] <= instant
  /\ begun[r] <= Stamp
Later(r, q) ==
  /\ begun[r] < begun[q]
  /\ written[begun[r]] < written[begun[q]] /\ made[begun[r]] < written[begun[q]]
  /\ made[begun[q]] # NoTime => made[begun[r]] < made[begun[q]]

Orderly ==
  /\ \A r \in Ended : Kept(r)
  /\ \A r, q \in Ended : r < q => Later(r, q)
  /\ \A r \in Runs : r > run.number => parts[r] = <<>>
  /\ \A s \in Seconds : written[s] # NoTime => \E r \in Ended : begun[r] = s
  /\ \A s \in Seconds : made[s] # NoTime => written[s] # NoTime
  /\ run.number > 0 => run.second = begun[run.number]

Slow == "quick" \notin outEnv /\ "step" \notin outEnv

\* The ranges of the variables, for arithmetic.
LEMMA EndedRuns ==
  ASSUME OutputsTypeOK
  PROVE  /\ run.number \in Nat /\ run.number <= MaxRuns /\ Ended \subseteq Runs
         /\ Ended \subseteq Nat /\ \A r \in Ended : r <= run.number
         /\ \A r \in Runs : begun[r] \in Seconds /\ begun[r] \in Nat
         /\ \A s \in Seconds : written[s] \in Int /\ made[s] \in Int
         /\ instant \in Nat /\ run.second \in Seconds
<1>1. /\ run.number \in 0 .. MaxRuns /\ run.second \in Seconds /\ instant \in Nat
      /\ \A r \in Runs : begun[r] \in Seconds
      /\ \A s \in Seconds : written[s] \in Int /\ made[s] \in Int
  BY OutputSizes DEF OutputsTypeOK, NoTime
<1>2. MaxRuns \in Nat /\ Seconds \subseteq Nat
  BY OutputSizes
<1>3. run.number \in Nat /\ run.number <= MaxRuns
  BY <1>1, <1>2
<1>4. ASSUME NEW r \in Ended PROVE r \in Runs /\ r \in Nat /\ r <= run.number
  BY <1>2, <1>3 DEF Ended, Runs
<1>5. \A r \in Runs : begun[r] \in Nat
  BY <1>1, <1>2
<1> QED BY <1>1, <1>3, <1>4, <1>5

\* A second passes: what was written stays in the past.
LEMMA OrderlyClock ==
  ASSUME OutputsTypeOK, Orderly, Clock
  PROVE  Orderly'
<1>1. Stamp <= Stamp' /\ Stamp \in Nat /\ Stamp' \in Nat
  <2>1. instant \in Nat /\ instant' = instant + 1 /\ PerSecond \in Nat \ {0}
    BY OutputSizes, EndedRuns DEF Clock
  <2> QED BY <2>1, Division, DivisionMonotone DEF Stamp
<1>2. UNCHANGED <<content, written, made, run, parts, begun>> /\ instant' = instant + 1 /\ Ended' = Ended
  BY DEF Clock, Ended
<1>3. ASSUME NEW r \in Ended PROVE Kept(r)'
  <2>1. Kept(r) /\ written[begun[r]] \in Int /\ made[begun[r]] \in Int /\ begun[r] \in Nat /\ instant \in Nat
    BY EndedRuns DEF Orderly
  <2> QED BY <1>1, <1>2, <2>1 DEF Kept
<1> QED BY <1>2, <1>3 DEF Orderly, Later

\* A run opens a file of its own: the second is later than all others.
LEMMA OrderlyBegins ==
  ASSUME OutputsTypeOK, OutputsTypeOK', Orderly, Slow, RunBegins
  PROVE  Orderly'
<1> DEFINE n == run.number + 1
           s == Stamp
<1>1. /\ run'.number = n /\ run'.second = s /\ n \in Runs
      /\ begun' = [begun EXCEPT ![n] = s]
      /\ content' = [content EXCEPT ![s] = <<>>] /\ written' = [written EXCEPT ![s] = instant]
      /\ UNCHANGED <<outEnv, instant, made, parts>>
  <2>1. n \in Runs
    <3>1. run.number \in Nat /\ run.number < MaxRuns /\ MaxRuns \in Nat
      BY OutputSizes, EndedRuns DEF RunBegins
    <3> QED BY <3>1 DEF Runs
  <2> QED BY <2>1 DEF RunBegins, OpensOutput, OpenedBy
<1>2. s \in Seconds /\ s \in Nat /\ Stamp' = s
  BY <1>1, StampIs DEF Stamp
<1>3. run.number # 0 => /\ s # run.second
                        /\ written[run.second] < instant /\ made[run.second] < instant
  BY DEF RunBegins, Slow
<1> HIDE DEF s
<1>4. ASSUME NEW r \in Ended
      PROVE  begun[r] < s /\ written[begun[r]] < instant /\ made[begun[r]] < instant
  <2>1. run.number \in Ended /\ run.second = begun[run.number] /\ run.number # 0
    BY EndedRuns DEF Ended, Orderly
  <2>2. /\ begun[run.number] < s
        /\ written[begun[run.number]] < instant /\ made[begun[run.number]] < instant
    BY <1>2, <1>3, <2>1, EndedRuns DEF Orderly, Kept, s
  <2>3. CASE r = run.number
    BY <2>2, <2>3
  <2>4. CASE r # run.number
    <3>1. Later(r, run.number)
      BY <2>1, <2>4, EndedRuns DEF Orderly
    <3> QED BY <1>2, <2>1, <2>2, <3>1, EndedRuns DEF Later
  <2> QED BY <2>3, <2>4
<1>5. Ended' = Ended \cup {n} /\ n \notin Ended
  BY <1>1, EndedRuns DEF Ended
<1>6. ASSUME NEW r \in Ended
      PROVE  /\ begun'[r] = begun[r] /\ content'[begun[r]] = content[begun[r]]
             /\ written'[begun[r]] = written[begun[r]] /\ r < n
  <2>1. r # n /\ begun[r] # s /\ r \in Runs /\ begun[r] \in Seconds /\ r < n
    BY <1>2, <1>4, <1>5, EndedRuns
  <2> QED BY <1>1, <2>1 DEF OutputsTypeOK
<1>7. begun'[n] = s /\ content'[s] = <<>> /\ written'[s] = instant /\ parts[n] = <<>>
  BY <1>1, <1>2, EndedRuns DEF OutputsTypeOK, Orderly
<1>m. made[s] = NoTime
  <2>1. ASSUME NEW r \in Ended PROVE begun[r] # s
    BY <1>2, <1>4, EndedRuns
  <2> QED BY <1>2, <2>1 DEF Orderly
<1> HIDE DEF n
<1>8. ASSUME NEW r \in Ended' PROVE Kept(r)'
  <2>1. CASE r \in Ended
    BY <1>1, <1>2, <1>6, <2>1 DEF Orderly, Kept, s
  <2>2. CASE r = n
    <3>1. instant # NoTime /\ instant <= instant /\ NoTime <= instant
      BY EndedRuns DEF NoTime
    <3> QED BY <1>1, <1>2, <1>7, <1>m, <2>2, <3>1 DEF Kept
  <2> QED BY <1>5, <2>1, <2>2
<1>9. ASSUME NEW r \in Ended', NEW q \in Ended', r < q PROVE Later(r, q)'
  <2>1. CASE q \in Ended
    <3>1. r \in Ended
      BY <1>5, <1>6, <1>9, <2>1, EndedRuns DEF n
    <3> QED BY <1>1, <1>6, <1>9, <2>1, <3>1 DEF Orderly, Later
  <2>2. CASE q = n
    <3>1. r \in Ended
      BY <1>5, <1>9, <2>2, EndedRuns DEF n
    <3> QED BY <1>1, <1>4, <1>6, <1>7, <1>m, <2>2, <3>1 DEF Later
  <2> QED BY <1>5, <2>1, <2>2
<1>10. ASSUME NEW t \in Seconds, written'[t] # NoTime PROVE \E r \in Ended' : begun'[r] = t
  <2>1. CASE t = s
    BY <1>5, <1>7, <2>1
  <2>2. CASE t # s
    <3>1. written[t] # NoTime
      BY <1>1, <1>10, <2>2 DEF OutputsTypeOK
    <3> QED BY <1>5, <1>6, <3>1 DEF Orderly
  <2> QED BY <2>1, <2>2
<1>11. \A r \in Runs : r > run'.number => parts'[r] = <<>>
  BY <1>1, EndedRuns DEF Orderly, Runs, n
<1>12. \A t \in Seconds : made'[t] # NoTime => written'[t] # NoTime
  <2>1. instant # NoTime
    BY EndedRuns DEF NoTime
  <2> QED BY <1>1, <2>1 DEF Orderly, OutputsTypeOK
<1> QED BY <1>1, <1>7, <1>8, <1>9, <1>10, <1>11, <1>12 DEF Orderly

\* A run writes to its file, the last that was begun.
LEMMA OrderlyWrites ==
  ASSUME OutputsTypeOK, Numbered, Orderly, RunWrites
  PROVE  Orderly'
<1> DEFINE part == <<run.number, run.does>>
           n == run.number
           s == run.second
<1>1. /\ content' = [content EXCEPT ![s] = Append(content[s], part)]
      /\ written' = [written EXCEPT ![s] = instant]
      /\ parts' = [parts EXCEPT ![n] = Append(parts[n], part)]
      /\ UNCHANGED <<outEnv, instant, made, run, begun>> /\ n \in Runs
  BY DEF RunWrites, Numbered
<1>2. /\ s \in Seconds /\ s = begun[n] /\ n \in Ended /\ Ended' = Ended /\ Stamp' = Stamp
      /\ n \in Nat
  BY <1>1, EndedRuns DEF Orderly, Ended, Runs, Stamp
<1> HIDE DEF part, s, n
<1>3. ASSUME NEW r \in Ended, r # n
      PROVE  /\ content'[begun[r]] = content[begun[r]] /\ parts'[r] = parts[r]
             /\ written'[begun[r]] = written[begun[r]] /\ written[begun[r]] < instant
             /\ made[begun[r]] < instant
  <2>1. Later(r, n) /\ r \in Runs /\ begun[r] \in Seconds
    BY <1>2, <1>3, EndedRuns DEF Orderly, n
  <2>2. begun[r] # s /\ Kept(n)
    BY <1>2, <2>1, EndedRuns DEF Later, Orderly
  <2>3. written[begun[r]] < instant /\ made[begun[r]] < instant
    BY <1>2, <2>1, <2>2, EndedRuns DEF Later, Kept
  <2>4. content'[begun[r]] = content[begun[r]] /\ written'[begun[r]] = written[begun[r]]
    BY <1>1, <2>1, <2>2 DEF OutputsTypeOK
  <2>5. parts'[r] = parts[r]
    BY <1>1, <1>3, <2>1 DEF OutputsTypeOK
  <2> QED BY <2>3, <2>4, <2>5
<1>4. content'[s] = parts'[n] /\ written'[s] = instant
  BY <1>1, <1>2 DEF Orderly, Kept, OutputsTypeOK
<1>5. ASSUME NEW r \in Ended PROVE Kept(r)'
  <2>1. CASE r = n
    <3>1. /\ instant # NoTime /\ instant <= instant /\ begun[n] <= Stamp
          /\ made[begun[n]] <= instant
      BY <1>2, EndedRuns DEF NoTime, Orderly, Kept
    <3> QED BY <1>1, <1>2, <1>4, <2>1, <3>1 DEF Kept
  <2>2. CASE r # n
    BY <1>1, <1>2, <1>3, <2>2 DEF Orderly, Kept
  <2> QED BY <2>1, <2>2
<1>6. ASSUME NEW r \in Ended, NEW q \in Ended, r < q PROVE Later(r, q)'
  <2>1. r # n
    BY <1>6, EndedRuns DEF n
  <2>2. CASE q = n
    BY <1>1, <1>2, <1>3, <1>4, <1>6, <2>1, <2>2 DEF Orderly, Later
  <2>3. CASE q # n
    BY <1>1, <1>3, <1>6, <2>1, <2>3 DEF Orderly, Later
  <2> QED BY <2>2, <2>3
<1>7. ASSUME NEW t \in Seconds, written'[t] # NoTime PROVE \E r \in Ended : begun[r] = t
  <2>1. CASE t = s
    BY <1>2, <2>1
  <2>2. CASE t # s
    BY <1>1, <1>7, <2>2 DEF Orderly, OutputsTypeOK
  <2> QED BY <2>1, <2>2
<1>8. \A r \in Runs : r > run.number => parts'[r] = <<>>
  BY <1>1, EndedRuns DEF Orderly, OutputsTypeOK, Runs, n
<1>9. \A t \in Seconds : made'[t] # NoTime => written'[t] # NoTime
  <2>1. instant # NoTime
    BY EndedRuns DEF NoTime
  <2> QED BY <1>1, <2>1 DEF Orderly, OutputsTypeOK
<1> QED BY <1>1, <1>2, <1>5, <1>6, <1>7, <1>8, <1>9 DEF Orderly

\* The tool writes to its own file, which is then the last of its kind.
LEMMA OrderlyToolSaves ==
  ASSUME OutputsTypeOK, Numbered, Orderly, ToolSaves
  PROVE  Orderly'
<1> DEFINE n == run.number
           s == run.second
<1>1. /\ made' = [made EXCEPT ![s] = instant] /\ n \in Runs
      /\ UNCHANGED <<instant, content, written, run, parts, begun>>
  BY DEF ToolSaves, Numbered
<1>2. /\ s \in Seconds /\ s = begun[n] /\ n \in Ended /\ Ended' = Ended /\ Stamp' = Stamp
      /\ n \in Nat /\ Kept(n)
  BY <1>1, EndedRuns DEF Orderly, Ended, Runs, Stamp
<1>3. made'[s] = instant /\ \A t \in Seconds \ {s} : made'[t] = made[t]
  BY <1>1, <1>2 DEF OutputsTypeOK
<1> HIDE DEF s, n
<1>4. ASSUME NEW r \in Ended, r # n
      PROVE  made'[begun[r]] = made[begun[r]] /\ made[begun[r]] < instant
  <2>1. Later(r, n) /\ r \in Runs /\ begun[r] \in Seconds
    BY <1>2, <1>4, EndedRuns DEF Orderly, n
  <2>2. begun[r] # s
    BY <1>2, <2>1, EndedRuns DEF Later
  <2>3. made[begun[r]] < instant
    BY <1>2, <2>1, EndedRuns DEF Later, Kept
  <2> QED BY <1>3, <2>1, <2>2, <2>3
<1>5. ASSUME NEW r \in Ended PROVE Kept(r)'
  <2>1. CASE r = n
    <3>1. instant <= instant
      BY EndedRuns
    <3> QED BY <1>1, <1>2, <1>3, <2>1, <3>1 DEF Kept
  <2>2. CASE r # n
    BY <1>1, <1>2, <1>4, <2>2 DEF Orderly, Kept
  <2> QED BY <2>1, <2>2
<1>6. ASSUME NEW r \in Ended, NEW q \in Ended, r < q PROVE Later(r, q)'
  <2>1. r # n /\ Later(r, q)
    BY <1>6, EndedRuns DEF n, Orderly
  <2>2. CASE q = n
    BY <1>1, <1>2, <1>3, <1>4, <2>1, <2>2 DEF Later
  <2>3. CASE q # n
    BY <1>1, <1>4, <2>1, <2>3 DEF Later
  <2> QED BY <2>2, <2>3
<1>7. \A t \in Seconds : made'[t] # NoTime => written'[t] # NoTime
  BY <1>1, <1>2, <1>3 DEF Orderly, Kept
<1> QED BY <1>1, <1>2, <1>5, <1>6, <1>7 DEF Orderly

\* The post step goes on in the file of the command; a run ends.
LEMMA OrderlyOthers ==
  ASSUME OutputsTypeOK, Orderly, PostBegins \/ RunEnds \/ UNCHANGED outVars
  PROVE  Orderly'
<1>1. /\ content' = content /\ written' = written
      /\ UNCHANGED <<instant, made, parts, begun>>
  BY DEF PostBegins, RunEnds, OpensOutput, OpenedBy, outVars, OutputsTypeOK
<1>2. run'.number = run.number /\ run'.second = run.second
  BY DEF PostBegins, RunEnds, outVars, OutputsTypeOK
<1> QED BY <1>1, <1>2 DEF Orderly, Ended, Kept, Later, Stamp

\* The inductive invariant: it orders the runs as long as the clock does.
OutputsInv == OutputsTypeOK /\ Numbered /\ (Slow => Orderly)

\* A run's .output is what it wrote and stays so, and the last run that has a
\* results file is what Runner.Latest picks and what HistoryScreen.load puts on
\* top, for any number of runs and any clock that is not set back.
THEOREM OutputsAreKept == OutputsSpec => []RunsKept
<1>1. OutputsInit => OutputsInv
  <2> SUFFICES ASSUME OutputsInit PROVE Numbered /\ Orderly
    BY OutputsTypedInit DEF OutputsInv
  <2>1. Numbered /\ run.number = 0 /\ Ended = {}
    BY DEF OutputsInit, Numbered, Ended
  <2>2. \A s \in Seconds : written[s] = NoTime /\ made[s] = NoTime
    BY DEF OutputsInit
  <2>3. \A r \in Runs : parts[r] = <<>>
    BY DEF OutputsInit
  <2> QED BY <2>1, <2>2, <2>3 DEF Orderly
<1>2. OutputsInv /\ [OutputsNext]_outVars => OutputsInv'
  <2> SUFFICES ASSUME OutputsInv, [OutputsNext]_outVars PROVE OutputsInv'
    OBVIOUS
  <2>1. OutputsTypeOK' /\ Numbered'
    BY OutputsTypedStep DEF OutputsInv
  <2>2. outEnv' = outEnv
    BY DEF OutputsNext, outVars, Clock, ClockStepsBack, RunBegins, RunWrites, ToolSaves, PostBegins, RunEnds
  <2>3. ASSUME Slow PROVE Orderly'
    <3>1. ~ClockStepsBack
      BY <2>3 DEF ClockStepsBack, Slow
    <3> QED
      BY <2>1, <2>3, <3>1, OrderlyClock, OrderlyBegins, OrderlyWrites, OrderlyToolSaves, OrderlyOthers
         DEF OutputsNext, OutputsInv
  <2> QED BY <2>1, <2>2, <2>3 DEF Slow, OutputsInv
<1>3. OutputsInv => RunsKept
  <2> SUFFICES ASSUME OutputsTypeOK, Orderly, NEW r \in 1 .. run.number
               PROVE  /\ content[begun[r]] = parts[r]
                      /\ resultsFile = "runtool's" => HasResults(r)
                      /\ LastWithResults(r) => LatestOutput = begun[r] /\ TopOfHistory = begun[r]
    BY DEF RunsKept, Slow, OutputsInv
  <2> DEFINE s == begun[r]
  <2>1. Kept(r) /\ r \in Ended /\ s \in Seconds
    BY EndedRuns DEF Orderly, Ended
  <2>2. resultsFile = "runtool's" => HasResults(r)
    BY <2>1 DEF HasResults, There, ResultsTime, Kept
  <2>3. SUFFICES ASSUME LastWithResults(r) PROVE LatestOutput = s /\ TopOfHistory = s
    BY <2>1, <2>2 DEF Kept
  <2>4. s \in There /\ \A q \in Ended : begun[q] \in There => q <= r
    BY <2>3 DEF LastWithResults, HasResults, Ended
  <2>5. ASSUME NEW t \in There, t # s PROVE t < s /\ ResultsTime(t) < ResultsTime(s)
    <3>1. PICK q \in Ended : begun[q] = t
      BY DEF There, ResultsTime, Orderly
    <3>2. q < r
      BY <2>1, <2>4, <2>5, <3>1, EndedRuns
    <3>3. Later(q, r)
      BY <2>1, <3>2 DEF Orderly
    <3>4. t < s
      BY <3>1, <3>3 DEF Later
    <3>5. ResultsTime(s) # NoTime
      BY <2>4 DEF There
    <3>6. ResultsTime(t) < ResultsTime(s)
      BY <3>1, <3>3, <3>5 DEF Later, ResultsTime
    <3> QED BY <3>4, <3>6
  <2>6. s \in Nat /\ There \subseteq Nat /\ \A t \in There : ResultsTime(t) \in Int
    BY <2>1, OutputSizes, EndedRuns DEF There, ResultsTime
  <2> HIDE DEF s
  <2>7. LatestOutput = s
    <3> DEFINE First(x) == \A t \in There : \/ ResultsTime(t) < ResultsTime(x)
                                            \/ ResultsTime(t) = ResultsTime(x) /\ x <= t
    <3>1. s \in There /\ First(s)
      BY <2>4, <2>5, <2>6
    <3>2. ASSUME NEW x \in There, First(x) PROVE x = s
      <4>1. CASE x # s
        <5>1. ResultsTime(x) < ResultsTime(s) /\ x < s
          BY <2>5, <4>1
        <5>2. \/ ResultsTime(s) < ResultsTime(x)
              \/ ResultsTime(s) = ResultsTime(x) /\ x <= s
          BY <2>4, <3>2
        <5> HIDE DEF First
        <5> QED BY <2>4, <2>6, <5>1, <5>2
      <4> QED BY <4>1
    <3> HIDE DEF First
    <3>3. (CHOOSE x \in There : First(x)) = s
      BY <3>1, <3>2
    <3> QED BY <3>3 DEF LatestOutput, First
  <2>8. TopOfHistory = s
    <3>1. s \in There /\ \A t \in There : t <= s
      BY <2>4, <2>5, <2>6
    <3>2. ASSUME NEW x \in There, \A t \in There : t <= x PROVE x = s
      BY <2>4, <2>5, <2>6, <3>2
    <3> QED BY <3>1, <3>2 DEF TopOfHistory
  <2> QED BY <2>7, <2>8
<1> QED BY <1>1, <1>2, <1>3, PTL DEF OutputsSpec

----------------------------------------------------------------------------
(***************************************************************************)
(* ToolRunner: the runs themselves.                                        *)
(***************************************************************************)
USE DEF file, runs, threads, vars

\* Every reachable state has its types; in particular the values of a run are
\* those of one submission or none, never a mixture of two.
THEOREM TypeCorrect == Spec => []TypeOK
<1>1. Init => TypeOK
  BY BoundsAssumption DEF Init, TypeOK, Texts, Phases, Places, Classes
<1>2. TypeOK /\ [Next]_vars => TypeOK'
  <2> SUFFICES ASSUME TypeOK, [Next]_vars PROVE TypeOK'
    OBVIOUS
  <2> USE BoundsAssumption DEF TypeOK, Texts, Phases, Places, Classes
  <2>1. ASSUME NEW t \in Threads, Check(t) PROVE TypeOK'
    BY <2>1 DEF Check, Goto, Running, Unit, Active
  <2>2. ASSUME NEW t \in Threads, OpenJob(t) PROVE TypeOK'
    BY <2>2 DEF OpenJob, Goto
  <2>3. ASSUME NEW t \in Threads, WriteJob(t) PROVE TypeOK'
    BY <2>3 DEF WriteJob, Goto
  <2>4. ASSUME NEW t \in Threads, ShareJob(t) PROVE TypeOK'
    BY <2>4 DEF ShareJob, Goto
  <2>5. ASSUME NEW t \in Threads, Launch(t) PROVE TypeOK'
    BY <2>5 DEF Launch, Goto, Become, Unit
  <2>6. ASSUME NEW t \in Threads, StartFails(t) PROVE TypeOK'
    BY <2>6 DEF StartFails, Goto
  <2>7. ASSUME NEW t \in Threads, Stop(t) PROVE TypeOK'
    BY <2>7 DEF Stop, Become, Unit
  <2>8. ASSUME NEW t \in Threads, Reload(t) PROVE TypeOK'
    BY <2>8 DEF Reload, Goto
  <2>9. ASSUME NEW t \in Threads, NEW v \in Vals, CallStart(t, v) PROVE TypeOK'
    BY <2>9 DEF CallStart, Goto
  <2>10. ASSUME NEW u \in Classes, Exec(u) PROVE TypeOK'
    BY <2>10 DEF Exec, Become
  <2>11. ASSUME NEW u \in Classes, LoadSpec(u) PROVE TypeOK'
    BY <2>11 DEF LoadSpec, Become, Exceeds
  <2>12. ASSUME NEW u \in Classes, ReadJob(u) PROVE TypeOK'
    BY <2>12 DEF ReadJob, Become, JobVals
  <2>13. ASSUME NEW u \in Classes, CommandEnds(u) PROVE TypeOK'
    BY <2>13 DEF CommandEnds, Become
  <2>14. ASSUME NEW u \in Classes, PostEnds(u) PROVE TypeOK'
    BY <2>14 DEF PostEnds, Become
  <2>15. ASSUME NEW u \in Classes, RunDies(u) PROVE TypeOK'
    BY <2>15 DEF RunDies, Become
  <2>16. ASSUME CgroupFlips PROVE TypeOK'
    BY <2>16 DEF CgroupFlips
  <2>17. ASSUME EditSpec PROVE TypeOK'
    BY <2>17 DEF EditSpec
  <2>18. CASE UNCHANGED vars
    BY <2>18
  <2> QED
    BY <2>1, <2>2, <2>3, <2>4, <2>5, <2>6, <2>7, <2>8, <2>9, <2>10, <2>11, <2>12, <2>13, <2>14, <2>15, <2>16, <2>17, <2>18
    DEF Next, StartStep, RunStep
<1> QED
  BY <1>1, <1>2, PTL DEF Spec

\* Nobody has a job file at first.
LEMMA InvInit == Init => Inv
  BY DEF Init, Inv, FileInv, JobReadable, CapsWithinClass, TameInv, Turns, AtWork

\* One step per action.
LEMMA InvStep ==
  ASSUME TypeOK, Inv, [Next]_vars
  PROVE  Inv'
<1> USE ValsAssumption
    DEF TypeOK, Texts, Phases, Places, Classes, Conditions, Inv, FileInv, JobReadable,
        CapsWithinClass, Tame, TameInv, Turns, AtWork
\* Under Tame a Start only gets past this when no unit is up.
<1>1. ASSUME NEW t \in Threads, Check(t) PROVE Inv'
  BY <1>1 DEF Check, Goto, Running, Unit, Active
\* The file is never truncated under a run (TameInv), and never made private
\* again (FileInv).
<1>2. ASSUME NEW t \in Threads, OpenJob(t) PROVE Inv'
  BY <1>2 DEF OpenJob, Goto
<1>3. ASSUME NEW t \in Threads, WriteJob(t) PROVE Inv'
  BY <1>3 DEF WriteJob, Goto
<1>4. ASSUME NEW t \in Threads, ShareJob(t) PROVE Inv'
  BY <1>4 DEF ShareJob, Goto
\* The launching thread has shared the file itself.
<1>5. ASSUME NEW t \in Threads, Launch(t) PROVE Inv'
  BY <1>5 DEF Launch, Goto, Become, Unit
<1>6. ASSUME NEW t \in Threads, StartFails(t) PROVE Inv'
  BY <1>6 DEF StartFails, Goto
<1>7. ASSUME NEW t \in Threads, Stop(t) PROVE Inv'
  BY <1>7 DEF Stop, Become, Unit
<1>8. ASSUME NEW t \in Threads, Reload(t) PROVE Inv'
  BY <1>8 DEF Reload, Goto
<1>9. ASSUME NEW t \in Threads, NEW v \in Vals, CallStart(t, v) PROVE Inv'
  BY <1>9 DEF CallStart, Goto
<1>10. ASSUME NEW u \in Classes, Exec(u) PROVE Inv'
  BY <1>10 DEF Exec, Become
\* The netraw unit only gets past this with the class it read, or blindly.
<1>11. ASSUME NEW u \in Classes, LoadSpec(u) PROVE Inv'
  BY <1>11 DEF LoadSpec, Become, Exceeds
\* Under Tame the file holds submitted values while a unit is up.
<1>12. ASSUME NEW u \in Classes, ReadJob(u) PROVE Inv'
  BY <1>12 DEF ReadJob, Become, JobVals
<1>13. ASSUME NEW u \in Classes, CommandEnds(u) PROVE Inv'
  BY <1>13 DEF CommandEnds, Become
<1>14. ASSUME NEW u \in Classes, PostEnds(u) PROVE Inv'
  BY <1>14 DEF PostEnds, Become
<1>15. ASSUME NEW u \in Classes, RunDies(u) PROVE Inv'
  BY <1>15 DEF RunDies, Become
<1>16. ASSUME CgroupFlips PROVE Inv'
  BY <1>16 DEF CgroupFlips
<1>17. ASSUME EditSpec PROVE Inv'
  BY <1>17 DEF EditSpec
<1>18. CASE UNCHANGED vars
  BY <1>18
<1> QED
  BY <1>1, <1>2, <1>3, <1>4, <1>5, <1>6, <1>7, <1>8, <1>9, <1>10, <1>11, <1>12, <1>13, <1>14, <1>15, <1>16, <1>17, <1>18
  DEF Next, StartStep, RunStep

\* The invariant above is one.
THEOREM InvHolds == Spec => []Inv
<1>1. TypeOK /\ Inv /\ [Next]_vars => Inv'
  BY InvStep
<1> QED
  BY InvInit, <1>1, TypeCorrect, PTL DEF Spec

(***************************************************************************)
(* What follows from it.                                                   *)
(***************************************************************************)

\* With callers that take turns, a command only runs with submitted values,
\* and the job file goes on showing the values it runs with.
THEOREM HeaderTrueHolds == Spec => []HeaderTrue
<1>1. TypeOK /\ Inv => HeaderTrue
  BY DEF TypeOK, Phases, Inv, TameInv, HeaderTrue, AtWork
<1> QED
  BY <1>1, InvHolds, TypeCorrect, PTL

\* No command gets CAP_NET_RAW from a spec that does not grant it, whichever
\* spec the frontend had loaded and whenever the file was edited, as long as
\* runtool can read its capabilities.
THEOREM CapsWithinClassHolds == Spec => []CapsWithinClass
<1>1. Inv => CapsWithinClass
  BY DEF Inv
<1> QED
  BY <1>1, InvHolds, PTL

\* No run dies because its job file is still private.
THEOREM JobReadableHolds == Spec => []JobReadable
<1>1. Inv => JobReadable
  BY DEF Inv
<1> QED
  BY <1>1, InvHolds, PTL

----------------------------------------------------------------------------
(***************************************************************************)
(* ToolRunnerHistory: the values a command may run with.                   *)
(***************************************************************************)
\* A step of the histories is one of ToolRunner.
LEMMA HistoryStep ==
  ASSUME [HNext]_hvars
  PROVE  [Next]_vars /\ (Remember \/ UNCHANGED hvars)
BY DEF HNext, hvars

\* ... so what holds of ToolRunner holds with the histories.
LEMMA HistoryIsToolRunner == HSpec => Spec
<1>1. HInit => Init
  BY DEF HInit
<1> QED BY <1>1, HistoryStep, PTL DEF HSpec, Spec

\* The histories have their types.
THEOREM HistoryTyped == HSpec => []HTypeOK
<1>1. HInit => HTypeOK
  <2>1. HInit => TypeOK
    BY BoundsAssumption DEF HInit, Init, TypeOK, Texts, Phases, Places, Classes
  <2> QED BY <2>1 DEF HInit, HTypeOK
<1>2. TypeOK /\ TypeOK' /\ HTypeOK /\ [HNext]_hvars => HTypeOK'
  <2> SUFFICES ASSUME TypeOK, TypeOK', HTypeOK, [HNext]_hvars PROVE HTypeOK'
    OBVIOUS
  <2>1. UnderWay' \subseteq Vals
    BY DEF UnderWay, TypeOK
  <2>2. CASE UNCHANGED hvars
    BY <2>2 DEF hvars, HTypeOK
  <2>3. CASE Remember
    <3>1. rivals' \in [Threads -> SUBSET Vals]
      BY <2>1, <2>3 DEF Remember, HTypeOK
    <3>2. ASSUME NEW u \in Classes PROVE Gains(u) \subseteq Vals
      BY <2>1 DEF Gains, Launching, HTypeOK
    <3>3. given' \in [Classes -> SUBSET Vals]
      BY <2>3, <3>2 DEF Remember, HTypeOK
    <3> QED BY <3>1, <3>3 DEF HTypeOK
  <2> QED BY <2>2, <2>3, HistoryStep
<1> QED BY <1>1, <1>2, HistoryIsToolRunner, TypeCorrect, PTL DEF HSpec

Writing(t) == pc[t] \in {"write", "chmod", "launch"}
Waiting(u) == unit[u] \in {"queued", "exec", "loaded"}

\* What the job file holds after a step: what it held, debris, or the values
\* of a Start that is under way.
LEMMA TextStep ==
  ASSUME TypeOK, Next
  PROVE  /\ text' \in {text} \cup Broken \cup UnderWay'
         /\ \A t \in Threads : Writing(t)' => Writing(t) \/ text' \in Broken
<1> USE DEF TypeOK, Places, Writing
<1>1. ASSUME NEW t \in Threads, OpenJob(t) PROVE text' \in Broken
  BY <1>1 DEF OpenJob, Broken
<1>2. ASSUME NEW t \in Threads, WriteJob(t)
      PROVE  text' \in Broken \cup UnderWay' /\ \A s \in Threads : Writing(s)' => Writing(s)
  BY <1>2 DEF WriteJob, Goto, Broken, UnderWay
<1>3. ASSUME NEW t \in Threads,
             \/ Check(t) \/ ShareJob(t) \/ Launch(t) \/ StartFails(t) \/ Stop(t) \/ Reload(t)
             \/ \E v \in Vals : CallStart(t, v)
      PROVE  text' = text /\ \A s \in Threads : Writing(s)' => Writing(s)
  BY <1>3 DEF Check, ShareJob, Launch, StartFails, Stop, Reload, CallStart, Goto
<1>4. ASSUME NEW u \in Classes, RunStep(u) PROVE text' = text /\ pc' = pc
  BY <1>4 DEF RunStep, Exec, LoadSpec, ReadJob, CommandEnds, PostEnds, RunDies
<1>5. ASSUME CgroupFlips \/ EditSpec PROVE text' = text /\ pc' = pc
  BY <1>5 DEF CgroupFlips, EditSpec
<1> QED
  BY <1>1, <1>2, <1>3, <1>4, <1>5 DEF Next, StartStep

\* A unit comes up by the launch of a Start; it goes to work by reading the
\* job file.
LEMMA UnitStep ==
  ASSUME TypeOK, Next, NEW u \in Classes
  PROVE  /\ Waiting(u)' => \/ Waiting(u)
                           \/ /\ unit[u] = "inactive" /\ text' = text
                              /\ Launching # {} /\ UnderWay' \subseteq UnderWay
         /\ AtWork(u)' => \/ AtWork(u) /\ runVals'[u] = runVals[u]
                          \/ unit[u] = "loaded" /\ runVals'[u] = JobVals
<1> USE DEF TypeOK, Phases, Places, Waiting, AtWork
<1>1. ASSUME NEW t \in Threads, Launch(t) PROVE
        /\ runVals' = runVals /\ text' = text
        /\ unit' = unit \/ (unit[Unit(t)] = "inactive" /\ \E p \in {"queued", "exec"} : Become(Unit(t), p))
        /\ t \in Launching /\ UnderWay' \subseteq UnderWay
  BY <1>1 DEF Launch, Goto, Launching, UnderWay
<1>2. ASSUME NEW t \in Threads, Launch(t)
      PROVE  /\ Waiting(u)' => Waiting(u) \/ unit[u] = "inactive"
             /\ AtWork(u)' => AtWork(u)
  BY <1>1, <1>2 DEF Unit, Become
<1>3. ASSUME NEW t \in Threads,
             \/ Check(t) \/ OpenJob(t) \/ WriteJob(t) \/ ShareJob(t) \/ StartFails(t) \/ Reload(t)
             \/ \E v \in Vals : CallStart(t, v)
      PROVE  unit' = unit /\ runVals' = runVals
  BY <1>3 DEF Check, OpenJob, WriteJob, ShareJob, StartFails, Reload, CallStart
<1>4. ASSUME NEW t \in Threads, Stop(t)
      PROVE  /\ Waiting(u)' => Waiting(u)
             /\ AtWork(u)' => AtWork(u) /\ runVals' = runVals
  BY <1>4 DEF Stop, Unit, Become
<1>5. ASSUME NEW c \in Classes, Exec(c) \/ LoadSpec(c) \/ CommandEnds(c) \/ PostEnds(c) \/ RunDies(c)
      PROVE  /\ Waiting(u)' => Waiting(u)
             /\ AtWork(u)' => AtWork(u) /\ runVals' = runVals
  BY <1>5 DEF Exec, LoadSpec, CommandEnds, PostEnds, RunDies, Become
<1>6. ASSUME NEW c \in Classes, ReadJob(c)
      PROVE  /\ Waiting(u)' => Waiting(u)
             /\ AtWork(u)' => \/ AtWork(u) /\ runVals'[u] = runVals[u]
                              \/ unit[u] = "loaded" /\ runVals'[u] = JobVals
  BY <1>6 DEF ReadJob, Become
<1>7. ASSUME CgroupFlips \/ EditSpec PROVE unit' = unit /\ runVals' = runVals
  BY <1>7 DEF CgroupFlips, EditSpec
<1> QED
  BY <1>1, <1>2, <1>3, <1>4, <1>5, <1>6, <1>7 DEF Next, StartStep, RunStep

\* What the histories add is there after the step.
LEMMA RememberStep ==
  ASSUME HTypeOK, Remember
  PROVE  /\ \A t \in Threads : pc'[t] # "idle" => rivals'[t] = rivals[t] \cup UnderWay'
         /\ \A u \in Classes : unit'[u] # "inactive" => given'[u] = given[u] \cup Gains(u)
BY DEF Remember, HTypeOK

LEMMA HistoryInvStep ==
  ASSUME HTypeOK, HTypeOK', HInv, Next, Remember
  PROVE  HInv'
<1>t. TypeOK /\ TypeOK'
  BY DEF HTypeOK
<1>1. ASSUME NEW s \in Threads, NEW t \in Threads, pc'[s] # "idle", pc'[t] # "idle"
      PROVE  vals'[s] \in rivals'[t]
  <2>1. vals'[s] \in UnderWay'
    BY <1>1 DEF UnderWay
  <2> QED BY <1>1, <2>1, RememberStep
<1>2. ASSUME NEW t \in Threads, Writing(t)' PROVE text' \in rivals'[t] \cup Broken
  <2>1. rivals'[t] = rivals[t] \cup UnderWay'
    BY <1>2, RememberStep DEF Writing
  <2>2. Writing(t) => text \in rivals[t] \cup Broken
    BY DEF HInv, Writing
  <2> QED BY <1>t, <1>2, <2>1, <2>2, TextStep
<1>3. ASSUME NEW u \in Classes, Waiting(u)'
      PROVE  text' \in given'[u] \cup Broken /\ UnderWay' \subseteq given'[u]
  <2>1. given'[u] = given[u] \cup Gains(u)
    BY <1>3, RememberStep DEF Waiting
  <2>2. CASE Waiting(u)
    <3>1. given'[u] = given[u] \cup UnderWay' /\ text \in given[u] \cup Broken
      BY <2>1, <2>2 DEF Waiting, Gains, HInv
    <3> QED BY <1>t, <3>1, TextStep
  <2>3. CASE unit[u] = "inactive" /\ text' = text /\ Launching # {} /\ UnderWay' \subseteq UnderWay
    <3>1. PICK t \in Threads : t \in Launching /\ pc[t] = "launch"
      BY <2>3 DEF Launching
    <3>2. rivals[t] \subseteq given'[u]
      BY <2>1, <2>3, <3>1 DEF Gains
    <3>3. text \in rivals[t] \cup Broken /\ UnderWay \subseteq rivals[t]
      BY <3>1 DEF HInv, UnderWay
    <3> QED BY <2>3, <3>2, <3>3
  <2> QED BY <1>t, <1>3, <2>2, <2>3, UnitStep
<1>4. ASSUME NEW u \in Classes, AtWork(u)' PROVE runVals'[u] \in given'[u] \cup {NoVals}
  <2>1. given'[u] = given[u] \cup Gains(u)
    BY <1>4, RememberStep DEF AtWork
  <2>2. CASE AtWork(u) /\ runVals'[u] = runVals[u]
    BY <2>1, <2>2 DEF HInv, ValuesGiven
  <2>3. CASE unit[u] = "loaded" /\ runVals'[u] = JobVals
    <3>1. text \in given[u] \cup Broken
      BY <2>3 DEF HInv
    <3>2. text \in Vals => text \in given[u]
      BY <3>1, ValsAssumption DEF Broken
    <3> QED BY <2>1, <2>3, <3>2 DEF JobVals
  <2> QED BY <1>t, <1>4, <2>2, <2>3, UnitStep
<1> QED BY <1>1, <1>2, <1>3, <1>4 DEF HInv, ValuesGiven, Writing, Waiting, AtWork

\* A command runs with no values or with those of a Start of its own time, for
\* any number of threads and in every environment.
THEOREM ValuesGivenHolds == HSpec => []ValuesGiven
<1>1. HInit => HInv
  BY DEF HInit, Init, HInv, ValuesGiven, AtWork
<1>2. HTypeOK /\ HTypeOK' /\ HInv /\ [HNext]_hvars => HInv'
  <2>1. ASSUME HInv, UNCHANGED hvars PROVE HInv'
    BY <2>1 DEF hvars, HInv, ValuesGiven, AtWork, UnderWay
  <2> QED BY <2>1, HistoryInvStep DEF HNext
<1>3. HInv => ValuesGiven
  BY DEF HInv
<1> QED BY <1>1, <1>2, <1>3, HistoryTyped, PTL DEF HSpec
=============================================================================
