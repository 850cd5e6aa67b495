--------------------------- MODULE ModulesProofs ----------------------------
(***************************************************************************)
(* Proofs about the modules of the web worker: Uploads, for any clients,   *)
(* directories, names and sizes; Export, for any exporters, logs, inodes   *)
(* and times; Gps, for any number of requests at once, every timeout and   *)
(* every time a fix is held; and Hdmi: the two reads of computeState and   *)
(* the two steps of each helper, in every order.                           *)
(***************************************************************************)
EXTENDS Uploads, Export, Gps, Hdmi, FiniteSetTheorems, TLAPS

\* The greater of two numbers.
LEMMA MaxOfTwo ==
  ASSUME NEW a \in Nat, NEW b \in Nat
  PROVE  Max({a, b}) = IF a >= b THEN a ELSE b
<1>1. \E x \in {a, b} : \A y \in {a, b} : x >= y
  OBVIOUS
<1> QED
  BY <1>1 DEF Max

\* A function on a segment is a sequence.
LEMMA FunctionIsSeq ==
  ASSUME NEW S, NEW n \in Nat, NEW f \in [1 .. n -> S]
  PROVE  f \in Seq(S)
OBVIOUS

----------------------------------------------------------------------------
(***************************************************************************)
(* Export: the wigle CSV of a log.                                         *)
(***************************************************************************)

(***************************************************************************)
(* What converters write.                                                  *)
(***************************************************************************)
LEMMA ExportSizes ==
  /\ Pieces \in Nat \ {0} /\ MaxMTime \in Nat
  /\ Cardinality(Exporters) \in Nat /\ Inodes \subseteq Nat
<1>1. Cardinality(Exporters) \in Nat
  BY ExportAssumption, FS_CardinalityType
<1> QED BY <1>1, ExportAssumption DEF Inodes

\* The pieces of a file: of a log, or a hole.
Piece == (Logs \X (1 .. Pieces)) \cup {None}

\* What a file holds after a piece was written at a place in it.
PutPiece(blob, at, piece) ==
  [j \in 1 .. Max({at, Len(blob)}) |->
     IF j = at THEN piece ELSE IF j <= Len(blob) THEN blob[j] ELSE None]

\* The first n pieces of a conversion: there are n, of that log, in order.
LEMMA ConvertedIs ==
  ASSUME NEW log, NEW n \in Nat
  PROVE  /\ Len(Converted(log, n)) = n
         /\ \A i \in 1 .. n : Converted(log, n)[i] = <<log, i>>
BY DEF Converted

\* A conversion that has written nothing.
LEMMA ConvertedNone ==
  ASSUME NEW log
  PROVE  Converted(log, 0) = <<>>
BY DEF Converted

\* The next piece written, or served, behind the first n.
LEMMA ConvertedNext ==
  ASSUME NEW log, NEW n \in Nat
  PROVE  /\ PutPiece(Converted(log, n), n + 1, <<log, n + 1>>) = Converted(log, n + 1)
         /\ Append(Converted(log, n), <<log, n + 1>>) = Converted(log, n + 1)
<1>1. Len(Converted(log, n)) = n
  BY ConvertedIs
<1>2. Max({n + 1, n}) = n + 1
  BY MaxOfTwo
<1>3. PutPiece(Converted(log, n), n + 1, <<log, n + 1>>) = Converted(log, n + 1)
  BY <1>1, <1>2 DEF PutPiece, Converted
<1>4. Append(Converted(log, n), <<log, n + 1>>) = Converted(log, n + 1)
  BY <1>1 DEF Converted
<1> QED BY <1>3, <1>4

\* A piece written into a file of pieces leaves one, not longer than a conversion.
LEMMA PutPieceType ==
  ASSUME NEW blob \in Seq(Piece), Len(blob) <= Pieces,
         NEW at \in 1 .. Pieces, NEW piece \in Piece
  PROVE  /\ PutPiece(blob, at, piece) \in Seq(Piece)
         /\ Len(PutPiece(blob, at, piece)) <= Pieces
<1> DEFINE n == Max({at, Len(blob)})
<1>1. n \in Nat /\ n <= Pieces
  BY ExportSizes, MaxOfTwo
<1>2. \A j \in 1 .. Len(blob) : blob[j] \in Piece
  OBVIOUS
<1> HIDE DEF n
<1>3. None \in Piece
  BY DEF Piece
<1> HIDE DEF Piece
<1>4. PutPiece(blob, at, piece) \in [1 .. n -> Piece]
  BY <1>2, <1>3 DEF PutPiece, n
<1>5. PutPiece(blob, at, piece) \in Seq(Piece)
  BY <1>1, <1>4, FunctionIsSeq
<1>6. Len(PutPiece(blob, at, piece)) = n
  BY <1>1, <1>4, <1>5
<1> QED BY <1>1, <1>5, <1>6

----------------------------------------------------------------------------
(***************************************************************************)
(* Types.                                                                  *)
(***************************************************************************)
ExportJobs == [state : {"idle", "convert", "write", "serve", "done", "error"},
         log : Logs \cup {None}, file : Inodes \cup {None},
         size : 0 .. Pieces, at : 0 .. Pieces, served : Seq(Piece)]

\* A log is the newest; files and places in them are within bounds, and a
\* converter or a handler at work has a file.
JobSound(j) ==
  /\ j \in ExportJobs
  /\ j.state = "convert" => j.at = 0
  /\ j.state = "write" => j.at <= j.size
  /\ j.state \in {"write", "serve"} => j.file \in Inodes
  /\ j.state \in {"convert", "write", "serve"} => j.log \in Logs

ExportSound ==
  /\ mtime \in [Logs -> 0 .. MaxMTime]
  /\ \E l \in Logs : \A m \in Logs : mtime[m] <= mtime[l]
  /\ inode \in [Inodes -> Seq(Piece)]
  /\ \A i \in Inodes : Len(inode[i]) <= Pieces
  /\ linked \in Inodes \cup {None}
  /\ DOMAIN job = Exporters /\ job = [c \in Exporters |-> job[c]]
  /\ \A c \in Exporters : JobSound(job[c])
  /\ overlapped \in [Exporters -> BOOLEAN]

\* The types in the form the proofs use imply the declared ones.
LEMMA ExportSoundTypeOK == ExportSound => ExportTypeOK
<1> SUFFICES ASSUME ExportSound PROVE ExportTypeOK
  OBVIOUS
<1>1. job \in [Exporters -> ExportJobs]
  BY DEF ExportSound, JobSound
<1> QED BY <1>1 DEF ExportSound, ExportTypeOK, ExportJobs, Piece, Blobs

\* newestKismetLog finds a log, and none was written later.
LEMMA LatestIs ==
  ASSUME ExportSound
  PROVE  /\ Latest \in Nat /\ \A l \in Logs : mtime[l] <= Latest
         /\ Newest # None => Newest \in Logs
<1>1. \E t \in {mtime[l] : l \in Logs} : \A l \in Logs : mtime[l] <= t
  BY DEF ExportSound
<1>2. Latest \in {mtime[l] : l \in Logs} /\ \A l \in Logs : mtime[l] <= Latest
  BY <1>1 DEF Latest
<1>3. Latest \in Nat
  BY <1>2 DEF ExportSound
<1>4. Newest # None => Newest \in Logs
  BY <1>2 DEF Newest
<1> QED BY <1>2, <1>3, <1>4

\* There are files enough for all exports.
LEMMA UnusedIs ==
  ASSUME ExportSound, linked = None
  PROVE  Unused \in Inodes
<1> DEFINE T == {job[c].file : c \in Exporters}
           f == [c \in Exporters |-> job[c].file]
<1>1. f \in Surjection(Exporters, T)
  BY DEF Surjection
<1>2. IsFiniteSet(T) /\ Cardinality(T) <= Cardinality(Exporters)
  BY <1>1, FS_Surjection, ExportAssumption
<1>3. IsFiniteSet(Inodes) /\ Cardinality(Inodes) = Cardinality(Exporters) + 1
  BY ExportSizes, FS_Interval DEF Inodes
<1>4. ~(Inodes \subseteq T)
  <2>1. Inodes \subseteq T => Cardinality(Inodes) <= Cardinality(T)
    BY <1>2, FS_Subset
  <2>2. Cardinality(T) \in Nat
    BY <1>2, FS_CardinalityType
  <2> QED BY <1>2, <1>3, <2>1, <2>2, ExportSizes
<1>5. None \notin Inodes
  BY ExportAssumption
<1>6. \E i \in Inodes : i # linked /\ \A c \in Exporters : job[c].file # i
  BY <1>4, <1>5
<1> QED BY <1>6 DEF Unused

\* The job of an export that has ended.
Ending(j, state) == [Rest EXCEPT !.state = state, !.log = j.log, !.size = j.size,
                                !.served = j.served]

\* The reply of an export keeps what it has served.
LEMMA EndingSound ==
  ASSUME NEW j, JobSound(j), NEW state \in {"done", "error"}
  PROVE  /\ JobSound(Ending(j, state)) /\ Ending(j, state).state = state
         /\ Ending(j, state).log = j.log /\ Ending(j, state).size = j.size
         /\ Ending(j, state).served = j.served
<1> DEFINE k1 == [Rest EXCEPT !.state = state]
           k2 == [k1 EXCEPT !.log = j.log]
           k3 == [k2 EXCEPT !.size = j.size]
           k4 == [k3 EXCEPT !.served = j.served]
<1>1. Rest \in ExportJobs
  BY ExportSizes DEF Rest, ExportJobs
<1>2. k1 \in ExportJobs /\ k1.state = state
  BY <1>1 DEF ExportJobs
<1> HIDE DEF k1
<1>3. k2 \in ExportJobs /\ k2.state = state /\ k2.log = j.log
  BY <1>2 DEF JobSound, ExportJobs
<1> HIDE DEF k2
<1>4. k3 \in ExportJobs /\ k3.state = state /\ k3.log = j.log /\ k3.size = j.size
  BY <1>3 DEF JobSound, ExportJobs
<1> HIDE DEF k3
<1>5. /\ k4 \in ExportJobs /\ k4.state = state /\ k4.log = j.log /\ k4.size = j.size
      /\ k4.served = j.served
  BY <1>4 DEF JobSound, ExportJobs
<1>6. k4 = Ending(j, state)
  BY Zenon DEF Ending, k1, k2, k3
<1> HIDE DEF k4
<1>7. JobSound(k4)
  BY <1>5 DEF JobSound
<1> QED BY <1>5, <1>6, <1>7

\* An export that has found its log begins with nothing served.
LEMMA Started ==
  ASSUME NEW log \in Logs
  PROVE  LET k == [Rest EXCEPT !.state = "convert", !.log = log]
         IN  JobSound(k) /\ k.state = "convert" /\ k.served = <<>>
<1>1. Rest \in ExportJobs /\ Rest.served = <<>> /\ Rest.at = 0
  BY ExportSizes DEF Rest, ExportJobs
<1> QED BY <1>1 DEF JobSound, ExportJobs

----------------------------------------------------------------------------
(***************************************************************************)
(* Exports that no other overlapped: such a one is the only one at work,   *)
(* and the file that has the name is its own.                              *)
(***************************************************************************)
Progress(j, files, name) ==
  /\ j.state = "convert" => j.served = <<>>
  /\ j.state = "write" => /\ j.file = name /\ j.served = <<>>
                          /\ files[j.file] = Converted(j.log, j.at)
  /\ j.state = "serve" => /\ j.file = name /\ j.served = Converted(j.log, j.at)
                          /\ files[j.file] = Converted(j.log, j.size) /\ j.at <= j.size
  /\ j.state = "done"  => j.served = Converted(j.log, j.size)

ByItself(c) ==
  /\ Busy(c) => \A e \in Exporters \ {c} : ~Busy(e)
  /\ Progress(job[c], inode, linked)

ExportInv == ExportSound /\ \A c \in Exporters : ~overlapped[c] => ByItself(c)

\* The states in which an export is at work.
LEMMA BusyStates ==
  ASSUME NEW c \in Exporters, JobSound(job[c])
  PROVE  Busy(c) <=> job[c].state \in {"convert", "write", "serve"}
BY DEF Busy, JobSound, ExportJobs

\* A step of an export that is at work, which any file may change in.
LEMMA StepOfOne ==
  ASSUME ExportInv, NEW c \in Exporters, Busy(c), NEW k, JobSound(k),
         job' = [job EXCEPT ![c] = k], mtime' = mtime, overlapped' = overlapped,
         inode' \in [Inodes -> Seq(Piece)], \A i \in Inodes : Len(inode'[i]) <= Pieces,
         linked' \in Inodes \cup {None},
         ~overlapped[c] => Progress(k, inode', linked')
  PROVE  ExportInv'
<1>1. /\ job'[c] = k /\ \A d \in Exporters \ {c} : job'[d] = job[d]
      /\ DOMAIN job' = Exporters /\ job' = [d \in Exporters |-> job'[d]]
  BY DEF ExportInv, ExportSound
<1>2. ASSUME NEW d \in Exporters PROVE JobSound(job'[d])
  BY <1>1 DEF ExportInv, ExportSound
<1>3. ExportSound'
  <2>1. (\E l \in Logs : \A m \in Logs : mtime[m] <= mtime[l])'
    BY DEF ExportInv, ExportSound
  <2>2. (\A d \in Exporters : JobSound(job[d]))'
    BY <1>2 DEF JobSound
  <2> QED BY <1>1, <2>1, <2>2 DEF ExportInv, ExportSound
<1>4. ASSUME NEW d \in Exporters, ~overlapped[d] PROVE ByItself(d)'
  <2>1. ByItself(d) /\ JobSound(job[d])
    BY <1>4 DEF ExportInv, ExportSound
  <2>2. CASE d = c
    <3>1. \A e \in Exporters \ {c} : ~Busy(e)'
      BY <1>1, <2>1, <2>2 DEF ByItself, Busy
    <3>2. Progress(job[c], inode, linked)'
      BY <1>1, <1>4, <2>2 DEF Progress
    <3> QED BY <2>2, <3>1, <3>2 DEF ByItself
  <2>3. CASE d # c
    <3>1. ~Busy(d) /\ job'[d] = job[d]
      BY <1>1, <2>1, <2>3 DEF ByItself
    <3>2. job[d].state \notin {"convert", "write", "serve"}
      BY <2>1, <3>1, BusyStates
    <3> QED BY <2>1, <3>1, <3>2 DEF ByItself, Busy, Progress
  <2> QED BY <2>2, <2>3
<1> QED BY <1>3, <1>4 DEF ExportInv

\* The handler starts a converter: who is at work now is overlapped, and so is
\* the new export if there is anybody.
LEMMA InvExport ==
  ASSUME ExportInv, NEW c \in Exporters, Export(c)
  PROVE  ExportInv'
<1> DEFINE k == [Rest EXCEPT !.state = "convert", !.log = Newest]
<1>1. Newest \in Logs
  BY LatestIs DEF ExportInv, Export
<1>2. JobSound(k) /\ k.state = "convert" /\ k.served = <<>>
  BY <1>1, Started
<1>3. /\ job' = [job EXCEPT ![c] = k] /\ mtime' = mtime /\ inode' = inode /\ linked' = linked
      /\ \A d \in Exporters \ {c} : overlapped'[d] <=> (overlapped[d] \/ Busy(d))
      /\ overlapped'[c] <=> \E e \in Exporters : e # c /\ Busy(e)
      /\ overlapped' \in [Exporters -> BOOLEAN]
  <2>1. \A d \in Exporters : Busy(d) \in BOOLEAN /\ overlapped[d] \in BOOLEAN
    BY DEF ExportInv, ExportSound, Busy
  <2> HIDE DEF k
  <2> QED BY <2>1 DEF Export, k
<1> HIDE DEF k
<1>4. /\ job'[c] = k /\ \A d \in Exporters \ {c} : job'[d] = job[d]
      /\ DOMAIN job' = Exporters /\ job' = [d \in Exporters |-> job'[d]]
  BY <1>3 DEF ExportInv, ExportSound
<1>5. ExportSound'
  <2>1. (\E l \in Logs : \A m \in Logs : mtime[m] <= mtime[l])'
    BY <1>3 DEF ExportInv, ExportSound
  <2>2. (\A d \in Exporters : JobSound(job[d]))'
    BY <1>2, <1>4 DEF ExportInv, ExportSound, JobSound
  <2> QED BY <1>3, <1>4, <2>1, <2>2 DEF ExportInv, ExportSound
<1>6. ASSUME NEW d \in Exporters, ~overlapped'[d] PROVE ByItself(d)'
  <2>1. CASE d = c
    <3>1. \A e \in Exporters \ {c} : ~Busy(e)'
      BY <1>3, <1>4, <1>6, <2>1 DEF Busy
    <3> QED BY <1>2, <1>4, <2>1, <3>1 DEF ByItself, Progress
  <2>2. CASE d # c
    <3>1. ~overlapped[d] /\ ~Busy(d) /\ job'[d] = job[d]
      BY <1>3, <1>4, <1>6, <2>2
    <3>2. ByItself(d) /\ JobSound(job[d])
      BY <3>1 DEF ExportInv, ExportSound
    <3>3. job[d].state \notin {"convert", "write", "serve"}
      BY <3>1, <3>2, BusyStates
    <3> QED BY <3>1, <3>2, <3>3 DEF ByItself, Busy, Progress
  <2> QED BY <2>1, <2>2
<1> QED BY <1>5, <1>6 DEF ExportInv

\* What an export at work says of its job.
LEMMA WorkIs ==
  ASSUME ExportInv, NEW c \in Exporters
  PROVE  /\ JobSound(job[c]) /\ job[c] \in ExportJobs /\ job[c].served \in Seq(Piece)
         /\ job[c].at \in 0 .. Pieces /\ job[c].size \in 0 .. Pieces
         /\ Busy(c) <=> job[c].state \in {"convert", "write", "serve"}
         /\ ~overlapped[c] => Progress(job[c], inode, linked)
         /\ \A i \in Inodes : inode[i] \in Seq(Piece) /\ Len(inode[i]) <= Pieces
<1>1. JobSound(job[c])
  BY DEF ExportInv, ExportSound
<1>2. Busy(c) <=> job[c].state \in {"convert", "write", "serve"}
  BY <1>1, BusyStates
<1> QED BY <1>1, <1>2 DEF JobSound, ExportJobs, ExportInv, ExportSound, ByItself

\* The converter makes its file, or cuts the one that has the name.
LEMMA InvToolCreates ==
  ASSUME ExportInv, NEW c \in Exporters, ToolCreates(c)
  PROVE  ExportInv'
<1> DEFINE i == IF linked = None THEN Unused ELSE linked
<1>1. i \in Inodes
  BY UnusedIs DEF ExportInv, ExportSound
<1>2. PICK size \in 1 .. Pieces :
        job' = [job EXCEPT ![c].state = "write", ![c].file = i, ![c].size = size]
  BY DEF ToolCreates
<1>3. /\ linked' = i /\ inode' = [inode EXCEPT ![i] = <<>>] /\ mtime' = mtime
      /\ overlapped' = overlapped /\ job[c].state = "convert"
  BY DEF ToolCreates
<1> DEFINE k1 == [job[c] EXCEPT !.state = "write"]
           k2 == [k1 EXCEPT !.file = i]
           k3 == [k2 EXCEPT !.size = size]
<1>4. job' = [job EXCEPT ![c] = k3]
  BY <1>2, Zenon
<1> HIDE DEF i
<1>5. /\ k1 \in ExportJobs /\ k1.state = "write" /\ k1.log = job[c].log
      /\ k1.served = job[c].served /\ k1.at = 0
  BY <1>3, WorkIs DEF ExportJobs, JobSound
<1> HIDE DEF k1
<1>6. /\ k2 \in ExportJobs /\ k2.state = "write" /\ k2.log = job[c].log
      /\ k2.served = job[c].served /\ k2.at = 0 /\ k2.file = i
  BY <1>1, <1>5 DEF ExportJobs
<1> HIDE DEF k2
<1>7. /\ k3 \in ExportJobs /\ k3.state = "write" /\ k3.log = job[c].log
      /\ k3.served = job[c].served /\ k3.at = 0 /\ k3.file = i
  BY <1>6, ExportSizes DEF ExportJobs
<1> HIDE DEF k3
<1>8. JobSound(k3)
  BY <1>1, <1>3, <1>7, WorkIs DEF JobSound, ExportJobs
<1>9. /\ inode' \in [Inodes -> Seq(Piece)] /\ inode'[i] = <<>>
      /\ \A n \in Inodes : Len(inode'[n]) <= Pieces
  BY <1>1, <1>3, ExportSizes DEF ExportInv, ExportSound
<1>10. Progress(k3, inode', linked') <=> job[c].served = <<>>
  BY <1>3, <1>7, <1>9, ConvertedNone DEF Progress
<1>11. ~overlapped[c] => job[c].served = <<>>
  BY <1>3, WorkIs DEF Progress
<1>12. Busy(c) /\ linked' \in Inodes \cup {None}
  BY <1>1, <1>3, WorkIs
<1> QED BY <1>3, <1>4, <1>8, <1>9, <1>10, <1>11, <1>12, StepOfOne

\* The converter writes the next piece of its log.
LEMMA InvToolWrites ==
  ASSUME ExportInv, NEW c \in Exporters, ToolWrites(c)
  PROVE  ExportInv'
<1> DEFINE n == job[c].at
           f == job[c].file
           piece == <<job[c].log, n + 1>>
           k == [job[c] EXCEPT !.at = n + 1]
<1>1. /\ job[c].state = "write" /\ n < job[c].size /\ n \in Nat /\ n + 1 \in 1 .. Pieces
      /\ f \in Inodes /\ job[c].log \in Logs
  BY WorkIs, ExportSizes DEF ToolWrites, JobSound
<1>2. /\ inode' = [inode EXCEPT ![f] = PutPiece(inode[f], n + 1, piece)]
      /\ job' = [job EXCEPT ![c] = k]
      /\ mtime' = mtime /\ linked' = linked /\ overlapped' = overlapped
  BY DEF ToolWrites, PutPiece
<1>3. /\ k \in ExportJobs /\ k.at = n + 1 /\ k.state = "write" /\ k.log = job[c].log /\ k.file = f
      /\ k.size = job[c].size /\ k.served = job[c].served
  BY <1>1, WorkIs DEF ExportJobs
<1>4. piece \in Piece
  BY <1>1 DEF Piece
<1> HIDE DEF k, f, n
<1>5. JobSound(k)
  BY <1>1, <1>3, WorkIs DEF JobSound
<1>6. PutPiece(inode[f], n + 1, piece) \in Seq(Piece) /\ Len(PutPiece(inode[f], n + 1, piece)) <= Pieces
  BY <1>1, <1>4, WorkIs, PutPieceType
<1>7. /\ inode' \in [Inodes -> Seq(Piece)]
      /\ inode'[f] = PutPiece(inode[f], n + 1, piece)
      /\ \A i \in Inodes : Len(inode'[i]) <= Pieces
  BY <1>1, <1>2, <1>6 DEF ExportInv, ExportSound
<1>8. ASSUME ~overlapped[c] PROVE Progress(k, inode', linked')
  <2>1. f = linked /\ job[c].served = <<>> /\ inode[f] = Converted(job[c].log, n)
    BY <1>1, <1>8, WorkIs DEF Progress, f, n
  <2>2. inode'[f] = Converted(job[c].log, n + 1)
    BY <1>1, <1>7, <2>1, ConvertedNext
  <2> QED BY <1>2, <1>3, <2>1, <2>2 DEF Progress
<1>9. Busy(c) /\ linked' \in Inodes \cup {None}
  BY <1>1, <1>2, WorkIs DEF ExportInv, ExportSound
<1> QED BY <1>2, <1>5, <1>7, <1>8, <1>9, StepOfOne

\* An export ends: with its reply as it is when that was the whole file.
LEMMA InvEnds ==
  ASSUME ExportInv, NEW c \in Exporters, Busy(c), NEW state \in {"done", "error"},
         Ends(c, state), inode' = inode,
         state = "done" /\ ~overlapped[c] => job[c].served = Converted(job[c].log, job[c].size)
  PROVE  ExportInv'
<1> DEFINE k == Ending(job[c], state)
<1>1. /\ job' = [job EXCEPT ![c] = k] /\ linked' = None
      /\ mtime' = mtime /\ overlapped' = overlapped
  BY DEF Ends, Ending
<1>2. /\ JobSound(k) /\ k.state = state
      /\ k.log = job[c].log /\ k.size = job[c].size /\ k.served = job[c].served
  BY WorkIs, EndingSound
<1> HIDE DEF k
<1>3. ~overlapped[c] => Progress(k, inode', linked')
  BY <1>2 DEF Progress
<1>4. inode' \in [Inodes -> Seq(Piece)] /\ \A i \in Inodes : Len(inode'[i]) <= Pieces
  BY DEF ExportInv, ExportSound
<1> QED BY <1>1, <1>2, <1>3, <1>4, StepOfOne

\* The handler opens the file that has the name.
LEMMA InvServe ==
  ASSUME ExportInv, NEW c \in Exporters, Serve(c)
  PROVE  ExportInv'
<1>1. job[c].state = "write" /\ job[c].at = job[c].size /\ inode' = inode /\ Busy(c)
  BY WorkIs DEF Serve
<1>2. CASE linked = None /\ Ends(c, "error")
  BY <1>1, <1>2, InvEnds
<1>3. CASE /\ linked # None
           /\ job' = [job EXCEPT ![c].state = "serve", ![c].file = linked, ![c].at = 0]
           /\ UNCHANGED <<mtime, linked, overlapped>>
  <2> DEFINE k1 == [job[c] EXCEPT !.state = "serve"]
             k2 == [k1 EXCEPT !.file = linked]
             k3 == [k2 EXCEPT !.at = 0]
  <2>1. job' = [job EXCEPT ![c] = k3]
    BY <1>3, Zenon
  <2>2. linked \in Inodes
    BY <1>3 DEF ExportInv, ExportSound
  <2>3. /\ k1 \in ExportJobs /\ k1.state = "serve" /\ k1.log = job[c].log
        /\ k1.size = job[c].size /\ k1.served = job[c].served
    BY WorkIs DEF ExportJobs
  <2> HIDE DEF k1
  <2>4. /\ k2 \in ExportJobs /\ k2.state = "serve" /\ k2.log = job[c].log
        /\ k2.size = job[c].size /\ k2.served = job[c].served /\ k2.file = linked
    BY <2>2, <2>3 DEF ExportJobs
  <2> HIDE DEF k2
  <2>5. /\ k3 \in ExportJobs /\ k3.state = "serve" /\ k3.log = job[c].log
        /\ k3.size = job[c].size /\ k3.served = job[c].served /\ k3.file = linked /\ k3.at = 0
    BY <2>4, ExportSizes DEF ExportJobs
  <2> HIDE DEF k3
  <2>6. JobSound(k3)
    BY <1>1, <2>2, <2>5, WorkIs DEF JobSound
  <2>7. ASSUME ~overlapped[c] PROVE Progress(k3, inode', linked')
    <3>1. /\ job[c].served = <<>> /\ job[c].file = linked
          /\ inode[linked] = Converted(job[c].log, job[c].size)
      BY <1>1, <2>7, WorkIs DEF Progress
    <3>2. job[c].size \in Nat
      BY WorkIs
    <3> QED BY <1>1, <1>3, <2>5, <3>1, <3>2, ConvertedNone DEF Progress
  <2>8. /\ inode' \in [Inodes -> Seq(Piece)] /\ \A i \in Inodes : Len(inode'[i]) <= Pieces
        /\ linked' \in Inodes \cup {None}
    BY <1>1, <1>3 DEF ExportInv, ExportSound
  <2> QED BY <1>1, <1>3, <2>1, <2>6, <2>7, <2>8, StepOfOne
<1> QED BY <1>2, <1>3 DEF Serve

\* It copies the next piece of the file to its reply.
LEMMA InvServePiece ==
  ASSUME ExportInv, NEW c \in Exporters, ServePiece(c)
  PROVE  ExportInv'
<1> DEFINE n == job[c].at
           f == job[c].file
           piece == inode[f][n + 1]
           served == Append(job[c].served, piece)
           k1 == [job[c] EXCEPT !.served = served]
           k2 == [k1 EXCEPT !.at = n + 1]
<1>1. /\ job[c].state = "serve" /\ n \in Nat /\ f \in Inodes /\ n < Len(inode[f])
      /\ inode[f] \in Seq(Piece) /\ Len(inode[f]) <= Pieces
  BY WorkIs DEF ServePiece, JobSound
<1>2. job' = [job EXCEPT ![c] = k2]
  BY Zenon DEF ServePiece
<1>3. piece \in Piece /\ n + 1 \in 0 .. Pieces
  BY <1>1, ExportSizes
<1> HIDE DEF piece
<1>4. served \in Seq(Piece)
  BY <1>3, WorkIs
<1> HIDE DEF served
<1>5. /\ k1 \in ExportJobs /\ k1.state = "serve" /\ k1.log = job[c].log /\ k1.file = f
      /\ k1.size = job[c].size /\ k1.served = served
  BY <1>1, <1>4, WorkIs DEF ExportJobs
<1> HIDE DEF k1, n
<1>6. /\ k2 \in ExportJobs /\ k2.state = "serve" /\ k2.log = job[c].log /\ k2.file = f
      /\ k2.size = job[c].size /\ k2.served = served /\ k2.at = n + 1
  BY <1>3, <1>5 DEF ExportJobs
<1> HIDE DEF k2
<1>7. JobSound(k2)
  BY <1>1, <1>6, WorkIs DEF JobSound
<1>8. ASSUME ~overlapped[c] PROVE Progress(k2, inode', linked')
  <2>1. /\ f = linked /\ job[c].served = Converted(job[c].log, n)
        /\ inode[f] = Converted(job[c].log, job[c].size)
    BY <1>1, <1>8, WorkIs DEF Progress, n
  <2>4. n < job[c].size
    BY <1>1, <2>1, ConvertedIs, WorkIs
  <2>2. piece = <<job[c].log, n + 1>>
    BY <1>1, <2>1, ConvertedIs, WorkIs DEF piece
  <2>3. served = Converted(job[c].log, n + 1)
    BY <1>1, <2>1, <2>2, ConvertedNext DEF served
  <2> QED BY <1>1, <1>6, <2>1, <2>3, <2>4, WorkIs DEF Progress, ServePiece
<1>9. /\ mtime' = mtime /\ overlapped' = overlapped /\ Busy(c)
      /\ inode' \in [Inodes -> Seq(Piece)] /\ \A i \in Inodes : Len(inode'[i]) <= Pieces
      /\ linked' \in Inodes \cup {None}
  BY <1>1, WorkIs DEF ServePiece, ExportInv, ExportSound
<1> QED BY <1>2, <1>7, <1>8, <1>9, StepOfOne

\* The reply is through: an export that was by itself has sent all of its log.
LEMMA InvServed ==
  ASSUME ExportInv, NEW c \in Exporters, Served(c)
  PROVE  ExportInv'
<1>1. job[c].state = "serve" /\ Busy(c) /\ inode' = inode /\ Ends(c, "done")
  BY WorkIs DEF Served
<1>2. ASSUME ~overlapped[c] PROVE job[c].served = Converted(job[c].log, job[c].size)
  <2>1. /\ job[c].served = Converted(job[c].log, job[c].at) /\ job[c].at <= job[c].size
        /\ Len(inode[job[c].file]) = job[c].size
    BY <1>1, <1>2, ConvertedIs, WorkIs DEF Progress
  <2>2. job[c].at = job[c].size
    BY <2>1, WorkIs DEF Served
  <2> QED BY <2>1, <2>2
<1> QED BY <1>1, <1>2, InvEnds

\* A log is written to: it is the newest now.
LEMMA InvCaptures ==
  ASSUME ExportInv, Captures
  PROVE  ExportInv'
<1>1. Latest \in Nat /\ Latest < MaxMTime /\ \A m \in Logs : mtime[m] <= Latest
  BY LatestIs DEF ExportInv, Captures
<1>2. PICK l \in Logs : mtime' = [mtime EXCEPT ![l] = Latest + 1]
  BY DEF Captures
<1>3. UNCHANGED <<inode, linked, job, overlapped>>
  BY DEF Captures
<1> HIDE DEF Latest
<1>4. /\ mtime' \in [Logs -> 0 .. MaxMTime] /\ mtime'[l] = Latest + 1
      /\ \A m \in Logs : mtime'[m] <= mtime'[l]
  BY <1>1, <1>2, ExportSizes DEF ExportInv, ExportSound
<1>5. ExportSound'
  <2>1. (\A c \in Exporters : JobSound(job[c]))'
    BY <1>3 DEF ExportInv, ExportSound, JobSound
  <2>2. (\E x \in Logs : \A m \in Logs : mtime[m] <= mtime[x])'
    BY <1>4
  <2> QED BY <1>3, <1>4, <2>1, <2>2 DEF ExportInv, ExportSound
<1>6. ASSUME NEW c \in Exporters, ~overlapped'[c] PROVE ByItself(c)'
  BY <1>3, <1>6 DEF ExportInv, ByItself, Busy, Progress
<1> QED BY <1>5, <1>6 DEF ExportInv

\* Nobody is at work any more; the file that has the name keeps it.
LEMMA InvWorkerDies ==
  ASSUME ExportInv, WorkerDies
  PROVE  ExportInv'
<1>1. Rest \in ExportJobs /\ Rest.state = "idle"
  BY ExportSizes DEF Rest, ExportJobs
<1>2. /\ job' = [c \in Exporters |-> Rest] /\ overlapped' = [c \in Exporters |-> FALSE]
      /\ UNCHANGED <<mtime, inode, linked>>
  BY DEF WorkerDies
<1>3. DOMAIN job' = Exporters /\ \A c \in Exporters : job'[c] = Rest
  BY <1>2
<1>4. job' = [c \in Exporters |-> job'[c]]
  BY <1>2
<1>5. ExportSound'
  <2>1. (\A c \in Exporters : JobSound(job[c]))'
    BY <1>1, <1>3 DEF JobSound
  <2>2. (\E x \in Logs : \A m \in Logs : mtime[m] <= mtime[x])'
    BY <1>2 DEF ExportInv, ExportSound
  <2> QED BY <1>2, <1>3, <1>4, <2>1, <2>2 DEF ExportInv, ExportSound
<1>6. ASSUME NEW c \in Exporters PROVE ByItself(c)'
  BY <1>1, <1>3 DEF ByItself, Busy, Progress
<1> QED BY <1>5, <1>6 DEF ExportInv

\* No export is at work at first.
LEMMA ExportInvInit == ExportInit => ExportInv
<1> SUFFICES ASSUME ExportInit PROVE ExportInv
  OBVIOUS
<1>1. Rest \in ExportJobs /\ Rest.state = "idle"
  BY ExportSizes DEF Rest, ExportJobs
<1>2. JobSound(Rest)
  BY <1>1 DEF JobSound
<1>3. ExportSound
  <2>1. mtime \in [Logs -> 0 .. MaxMTime] /\ \E l \in Logs : \A m \in Logs : mtime[m] <= mtime[l]
    BY ExportSizes, ExportAssumption DEF ExportInit
  <2>2. inode \in [Inodes -> Seq(Piece)] /\ \A i \in Inodes : Len(inode[i]) <= Pieces
    <3>1. <<>> \in Seq(Piece) /\ Len(<<>>) <= Pieces
      BY ExportSizes
    <3> QED BY <3>1 DEF ExportInit
  <2> QED BY <1>2, <2>1, <2>2 DEF ExportInit, ExportSound
<1>4. ASSUME NEW c \in Exporters PROVE ByItself(c)
  BY <1>1 DEF ExportInit, ByItself, Busy, Progress
<1> QED BY <1>3, <1>4 DEF ExportInv

\* One step per action: removing, writing, opening, serving, ending, and a log that grows.
LEMMA ExportInvStep == ExportInv /\ [ExportNext]_exportVars => ExportInv'
<1> SUFFICES ASSUME ExportInv, [ExportNext]_exportVars PROVE ExportInv'
  OBVIOUS
<1>1. ASSUME NEW c \in Exporters, Breaks(c) PROVE ExportInv'
  BY <1>1, InvEnds DEF Breaks
<1>2. CASE UNCHANGED exportVars
  <2>1. (\A c \in Exporters : JobSound(job[c]))'
    BY <1>2 DEF exportVars, ExportInv, ExportSound, JobSound
  <2>2. ExportSound'
    BY <1>2, <2>1 DEF exportVars, ExportInv, ExportSound
  <2>3. ASSUME NEW c \in Exporters, ~overlapped'[c] PROVE ByItself(c)'
    BY <1>2, <2>3 DEF exportVars, ExportInv, ByItself, Busy, Progress
  <2> QED BY <2>2, <2>3 DEF ExportInv
<1> QED
  BY <1>1, <1>2, InvExport, InvToolCreates, InvToolWrites, InvServe, InvServePiece, InvServed,
     InvCaptures, InvWorkerDies DEF ExportNext

\* The types of the export hold in every state.
THEOREM ExportsTyped == ExportSpec => []ExportTypeOK
<1>1. ExportInv => ExportTypeOK
  BY ExportSoundTypeOK DEF ExportInv
<1> QED BY <1>1, ExportInvInit, ExportInvStep, PTL DEF ExportSpec

\* An export that no other overlapped serves the whole of its log and nothing
\* else: handleExport with the file that an export before it may have left, for
\* any number of requests, logs and pieces.
THEOREM ExportsAreWhole == ExportSpec => []ExportWhole
<1>1. ExportInv => ExportWhole
  BY DEF ExportInv, ByItself, Progress, ExportWhole
<1> QED BY <1>1, ExportInvInit, ExportInvStep, PTL DEF ExportSpec

----------------------------------------------------------------------------
(***************************************************************************)
(* Uploads: the parts of an upload.                                        *)
(***************************************************************************)
USE DEF uploadVars

\* A part has at least one block.
LEMMA BlocksNat == Blocks \in Nat /\ Blocks > 0
BY UploadsAssumption

\* The first n blocks a client sends of a part.
First(c, n) == [i \in 1 .. n |-> <<c, i>>]

\* A block written behind the first n is the next of them.
LEMMA WriteNext ==
  ASSUME NEW c, NEW n \in Nat
  PROVE  WriteAt(First(c, n), n + 1, <<c, n + 1>>) = First(c, n + 1)
<1>1. Len(First(c, n)) = n
  BY DEF First
<1>2. Max({n + 1, n}) = n + 1
  BY MaxOfTwo
<1> QED
  BY <1>1, <1>2 DEF WriteAt, First

\* A file that is written to is a file.
LEMMA WriteType ==
  ASSUME NEW file \in FileContents, NEW c \in Senders, NEW i \in 1 .. Blocks
  PROVE  WriteAt(file, i, <<c, i>>) \in FileContents
<1>1. Len(file) \in Nat /\ i \in Nat
  BY DEF FileContents
<1>2. Max({i, Len(file)}) \in Nat
  BY <1>1, MaxOfTwo
<1>3. \A j \in 1 .. Len(file) : file[j] \in (Senders \X (1 .. Blocks)) \cup {Hole}
  BY DEF FileContents
<1> DEFINE n == Max({i, Len(file)})
<1>4. \A j \in 1 .. n : (IF j = i THEN <<c, i>> ELSE IF j <= Len(file) THEN file[j] ELSE Hole)
                         \in (Senders \X (1 .. Blocks)) \cup {Hole}
  <2> HIDE DEF n
  <2> QED
    BY <1>1, <1>2, <1>3
<1> HIDE DEF n
<1>5. n \in Nat
  BY <1>2 DEF n
<1>6. [j \in 1 .. n |-> IF j = i THEN <<c, i>> ELSE IF j <= Len(file) THEN file[j] ELSE Hole]
        \in Seq((Senders \X (1 .. Blocks)) \cup {Hole})
  BY <1>4, <1>5, FunctionIsSeq
<1> QED
  BY <1>6 DEF n, WriteAt, FileContents

\* A file below a directory that is below the root is below the root.
LEMMA JailedFile ==
  ASSUME NEW dir \in Named, Jailed(dir), NEW n \in FileNames
  PROVE  Jailed(Append(dir, n))
<1>1. Root \in Seq(STRING \cup FileNames) /\ dir \in Seq(STRING \cup FileNames)
  BY UploadsAssumption DEF Named
<1>2. Len(Append(dir, n)) = Len(dir) + 1 /\ Len(Root) <= Len(dir)
  BY <1>1 DEF Jailed, IsPrefix
<1>3. SubSeq(Append(dir, n), 1, Len(Root)) = SubSeq(dir, 1, Len(Root))
  BY <1>1, <1>2
<1> QED
  BY <1>1, <1>2, <1>3 DEF Jailed, IsPrefix

\* What safe gives is below the root, if it leads to a directory at all.
LEMMA SafeJailed ==
  ASSUME NEW rel, Real(Safe(rel)) \in Dirs
  PROVE  Safe(rel) \in Named /\ Jailed(Safe(rel))
BY UploadsAssumption DEF Safe, NoDir, Real, Named

\* The root is below itself.
LEMMA RootJailed == Root \in Named /\ Jailed(Root)
BY UploadsAssumption DEF Named, Jailed, IsPrefix

\* The states of a POST.
Posts == [state : {"idle", "next", "copy", "saved"}, dir : Named, parts : Seq(FileNames),
          sent : 0 .. Blocks, saved : SUBSET Files]

\* What the steps of a POST change in it.
LEMMA PostSteps ==
  ASSUME NEW q \in Posts
  PROVE  /\ [q EXCEPT !.state = "copy", !.sent = 0] \in Posts
         /\ \A n \in 0 .. Blocks : [q EXCEPT !.sent = n] \in Posts
         /\ q.parts # <<>> => [q EXCEPT !.parts = Tail(@)] \in Posts
         /\ q.parts # <<>> => \A f \in Files :
              [q EXCEPT !.state = "next", !.parts = Tail(@), !.saved = @ \cup {f}, !.sent = 0]
                \in Posts
<1>1. ASSUME q.parts # <<>> PROVE Tail(q.parts) \in Seq(FileNames)
  BY <1>1 DEF Posts
<1>2. \A f \in Files : q.saved \cup {f} \in SUBSET Files
  BY DEF Posts
<1>3. 0 \in 0 .. Blocks
  BY BlocksNat
<1>4. [q EXCEPT !.state = "copy", !.sent = 0] \in Posts
  BY <1>3 DEF Posts
<1>5. \A n \in 0 .. Blocks : [q EXCEPT !.sent = n] \in Posts
  BY DEF Posts
<1>6. ASSUME q.parts # <<>> PROVE [q EXCEPT !.parts = Tail(@)] \in Posts
  BY <1>1, <1>6 DEF Posts
<1>7. ASSUME q.parts # <<>>, NEW f \in Files
      PROVE  [q EXCEPT !.state = "next", !.parts = Tail(@), !.saved = @ \cup {f}, !.sent = 0]
               \in Posts
  BY <1>1, <1>2, <1>3, <1>7 DEF Posts
<1> QED
  BY <1>4, <1>5, <1>6, <1>7

\* The part that is copied has a name and a file; all names are below the root.
Placed(c) == /\ Jailed(post[c].dir)
             /\ post[c].state = "copy" =>
                  post[c].parts # <<>> /\ Head(post[c].parts) # NoName /\ Dest(c) \in Files

\* What a client has sent is in its files, unless somebody else opened them.
SentSoFar(c) ==
  /\ post[c].state = "copy" /\ Dest(c) \notin touched[c] => disk[Dest(c)] = First(c, post[c].sent)
  /\ \A f \in post[c].saved \ touched[c] :
       (post[c].state = "copy" /\ f = Dest(c)) \/ disk[f] = Whole(c)

UploadsInv == /\ UploadsTypeOK /\ Contained
              /\ \A c \in Senders : Placed(c) /\ SentSoFar(c)

\* The state of a client that posts nothing is one of a POST.
LEMMA IdleType == Idle \in Posts /\ Idle.state = "idle" /\ Idle.dir = Root /\ Idle.saved = {}
BY UploadsAssumption, BlocksNat DEF Idle, Posts, Named

\* A path below the root leads to the file a part is copied to.
LEMMA DestLedTo ==
  ASSUME UploadsInv, NEW c \in Senders, post[c].parts # <<>>
  PROVE  LedTo(Dest(c))
<1>1. post[c].dir \in Named /\ Jailed(post[c].dir)
  BY DEF UploadsInv, UploadsTypeOK, Placed
<1>2. Head(post[c].parts) \in FileNames
  BY DEF UploadsInv, UploadsTypeOK
<1> QED
  BY <1>1, <1>2, JailedFile DEF Dest, LedTo

\* A step of one client that leaves the disk and the history alone.
LEMMA PostKeeps ==
  ASSUME UploadsInv, NEW c \in Senders, NEW p \in Posts, post' = [post EXCEPT ![c] = p],
         UNCHANGED disk,
         touched' = touched \/ touched' = [touched EXCEPT ![c] = {}],
         Placed(c)', SentSoFar(c)'
  PROVE  UploadsInv'
<1>1. post' \in [Senders -> Posts] /\ touched' \in [Senders -> SUBSET Files]
  BY DEF UploadsInv, UploadsTypeOK, Posts
<1>2. ASSUME NEW d \in Senders, d # c PROVE Placed(d)' /\ SentSoFar(d)'
  <2>1. post'[d] = post[d] /\ touched'[d] = touched[d]
    BY <1>2 DEF UploadsInv, UploadsTypeOK
  <2> QED
    BY <2>1 DEF UploadsInv, Placed, SentSoFar, Dest
<1> QED
  BY <1>1, <1>2 DEF UploadsInv, UploadsTypeOK, Posts, Contained

\* A step of one client that writes to the file it copies to.
LEMMA WriteKeeps ==
  ASSUME UploadsInv, NEW c \in Senders, NEW p \in Posts, post' = [post EXCEPT ![c] = p],
         NEW f \in Files, LedTo(f), NEW file \in FileContents,
         disk' = [disk EXCEPT ![f] = file],
         touched' \in [Senders -> SUBSET Files],
         \A d \in Senders : d # c => touched'[d] = touched[d] \cup {f},
         Placed(c)', SentSoFar(c)'
  PROVE  UploadsInv'
<1>1. post' \in [Senders -> Posts] /\ disk' \in [Files -> FileContents]
  BY DEF UploadsInv, UploadsTypeOK, Posts
<1>2. ASSUME NEW d \in Senders, d # c PROVE Placed(d)' /\ SentSoFar(d)'
  <2>1. post'[d] = post[d] /\ touched'[d] = touched[d] \cup {f}
    BY <1>2 DEF UploadsInv, UploadsTypeOK
  <2>2. \A g \in Files : g # f => disk'[g] = disk[g]
    BY DEF UploadsInv, UploadsTypeOK
  <2>3. post[d].saved \subseteq Files
    BY DEF UploadsInv, UploadsTypeOK
  <2>4. Placed(d) /\ SentSoFar(d)
    BY DEF UploadsInv
  <2>5. post[d].state = "copy" => Dest(d) \in Files
    BY <2>4 DEF Placed
  <2> QED
    BY <2>1, <2>2, <2>3, <2>4, <2>5 DEF Placed, SentSoFar, Dest
<1>3. Contained'
  BY DEF UploadsInv, UploadsTypeOK, Contained
<1> QED
  BY <1>1, <1>2, <1>3 DEF UploadsInv, UploadsTypeOK, Posts

\* Where a path leads and what a file holds, in every reachable state.
THEOREM UploadsInvHolds == UploadsSpec => []UploadsInv
<1> USE BlocksNat, IdleType
<1>1. UploadsInit => UploadsInv
  <2> SUFFICES ASSUME UploadsInit PROVE UploadsInv
    OBVIOUS
  <2>1. Old \in FileContents
    BY DEF Old, FileContents
  <2>2. UploadsTypeOK
    BY <2>1 DEF UploadsInit, UploadsTypeOK, Posts
  <2>3. \A c \in Senders : post[c] = Idle /\ Placed(c) /\ SentSoFar(c)
    BY RootJailed DEF UploadsInit, Placed, SentSoFar
  <2> QED
    BY <2>2, <2>3 DEF UploadsInit, UploadsInv, Contained
<1>2. UploadsInv /\ [UploadsNext]_uploadVars => UploadsInv'
  <2> SUFFICES ASSUME UploadsInv, [UploadsNext]_uploadVars PROVE UploadsInv'
    OBVIOUS
  <2>a. /\ post \in [Senders -> Posts] /\ touched \in [Senders -> SUBSET Files]
        /\ disk \in [Files -> FileContents]
        /\ \A c \in Senders : post[c] \in Posts /\ Placed(c) /\ SentSoFar(c)
    BY DEF UploadsInv, UploadsTypeOK, Posts
  <2>1. ASSUME NEW c \in Senders, PostUpload(c) PROVE UploadsInv'
    <3>1. PICK rel \in Rels, parts \in PartLists :
            /\ Real(Safe(rel)) \in Dirs
            /\ post' = [post EXCEPT ![c] = [Idle EXCEPT !.state = "next", !.dir = Safe(rel),
                                                        !.parts = parts]]
      BY <2>1 DEF PostUpload
    <3> DEFINE p == [Idle EXCEPT !.state = "next", !.dir = Safe(rel), !.parts = parts]
    <3>2. parts \in Seq(FileNames)
      <4>1. PICK n \in 1 .. 2 : parts \in [1 .. n -> FileNames]
        BY DEF PartLists
      <4>2. n \in Nat
        OBVIOUS
      <4> QED
        BY <4>1, <4>2, FunctionIsSeq
    <3>3. p \in Posts /\ p.state = "next" /\ p.dir = Safe(rel) /\ p.saved = {}
      BY <3>1, <3>2, SafeJailed DEF Posts
    <3> HIDE DEF p
    <3>4. post' = [post EXCEPT ![c] = p] /\ post'[c] = p
      BY <2>a, <3>1 DEF p
    <3>5. Placed(c)' /\ SentSoFar(c)'
      BY <3>1, <3>3, <3>4, SafeJailed DEF Placed, SentSoFar
    <3> QED
      BY <2>1, <3>3, <3>4, <3>5, PostKeeps DEF PostUpload
  <2>2. ASSUME NEW c \in Senders, NextPart(c) PROVE UploadsInv'
    <3>1. CASE Head(post[c].parts) = NoName
      <4> DEFINE p == [post[c] EXCEPT !.parts = Tail(@)]
      <4>1. post' = [post EXCEPT ![c] = p] /\ UNCHANGED <<disk, touched>> /\ post[c].state = "next"
            /\ post[c].parts # <<>>
        BY <2>2, <3>1 DEF NextPart
      <4>2. p \in Posts /\ p.state = "next" /\ p.dir = post[c].dir /\ p.saved = post[c].saved
        <5>1. p \in Posts
          BY <2>a, <4>1, PostSteps, RootJailed
        <5> QED
          BY <2>a, <4>1, <5>1 DEF Posts
      <4> HIDE DEF p
      <4>3. post'[c] = p
        BY <2>a, <4>1
      <4>4. Placed(c)' /\ SentSoFar(c)'
        BY <2>a, <4>1, <4>2, <4>3 DEF Placed, SentSoFar
      <4> QED
        BY <4>1, <4>2, <4>4, PostKeeps
    <3>2. CASE Head(post[c].parts) # NoName
      <4> DEFINE p == [post[c] EXCEPT !.state = "copy", !.sent = 0]
      <4>1. /\ post' = [post EXCEPT ![c] = p] /\ disk' = [disk EXCEPT ![Dest(c)] = <<>>]
            /\ touched' = [Others(c, Dest(c)) EXCEPT ![c] = @ \ {Dest(c)}]
            /\ post[c].state = "next" /\ post[c].parts # <<>>
        BY <2>2, <3>2 DEF NextPart
      <4>2. /\ p \in Posts /\ p.state = "copy" /\ p.dir = post[c].dir /\ p.saved = post[c].saved
            /\ p.parts = post[c].parts /\ p.sent = 0
        <5>1. p \in Posts
          BY <2>a, PostSteps
        <5> QED
          BY <2>a, <5>1 DEF Posts
      <4> HIDE DEF p
      <4>3. post'[c] = p
        BY <2>a, <4>1
      <4>4. Dest(c) \in Files /\ LedTo(Dest(c)) /\ Dest(c)' = Dest(c)
        BY <2>2, <3>2, <4>1, <4>2, <4>3, DestLedTo DEF Dest, NextPart
      <4>5. /\ touched' \in [Senders -> SUBSET Files]
            /\ touched'[c] = touched[c] \ {Dest(c)}
            /\ \A d \in Senders : d # c => touched'[d] = touched[d] \cup {Dest(c)}
        BY <2>a, <4>1, <4>4 DEF Others
      <4>6. <<>> \in FileContents /\ <<>> = First(c, 0)
        BY DEF FileContents, First
      <4>7. disk'[Dest(c)] = <<>> /\ \A g \in Files : g # Dest(c) => disk'[g] = disk[g]
        BY <2>a, <4>1, <4>4
      <4>8. post[c].saved \subseteq Files
        BY <2>a DEF Posts
      <4>9. Placed(c)' /\ SentSoFar(c)'
        BY <2>a, <3>2, <4>1, <4>2, <4>3, <4>4, <4>5, <4>6, <4>7, <4>8 DEF Placed, SentSoFar
      <4> QED
        BY <4>1, <4>2, <4>4, <4>5, <4>6, <4>9, WriteKeeps
    <3> QED
      BY <3>1, <3>2
  <2>3. ASSUME NEW c \in Senders, CopyBlock(c) PROVE UploadsInv'
    <3> DEFINE p == [post[c] EXCEPT !.sent = @ + 1]
               n == post[c].sent
               file == WriteAt(disk[Dest(c)], n + 1, <<c, n + 1>>)
    <3>1. /\ post' = [post EXCEPT ![c] = p] /\ disk' = [disk EXCEPT ![Dest(c)] = file]
          /\ touched' = Others(c, Dest(c)) /\ post[c].state = "copy" /\ n < Blocks
      BY <2>3 DEF CopyBlock
    <3>2. n \in Nat /\ n + 1 \in 1 .. Blocks
      BY <2>a, <3>1 DEF Posts
    <3>3. /\ p \in Posts /\ p.state = "copy" /\ p.dir = post[c].dir /\ p.saved = post[c].saved
          /\ p.parts = post[c].parts /\ p.sent = n + 1
      <4>1. n + 1 \in 0 .. Blocks
        BY <3>2
      <4>2. p \in Posts
        BY <2>a, <4>1, PostSteps
      <4> QED
        BY <2>a, <3>1, <4>1, <4>2 DEF Posts
    <3> HIDE DEF p, n
    <3>4. post'[c] = p
      BY <2>a, <3>1
    <3>5. Dest(c) \in Files /\ LedTo(Dest(c)) /\ Dest(c)' = Dest(c)
      BY <2>a, <3>1, <3>3, <3>4, DestLedTo DEF Dest, Placed
    <3>6. file \in FileContents
      BY <2>a, <3>2, <3>5, WriteType
    <3>7. /\ touched' \in [Senders -> SUBSET Files] /\ touched'[c] = touched[c]
          /\ \A d \in Senders : d # c => touched'[d] = touched[d] \cup {Dest(c)}
      BY <2>a, <3>1, <3>5 DEF Others
    <3>8. Dest(c) \notin touched[c] => file = First(c, n + 1)
      BY <2>a, <3>1, <3>2, WriteNext DEF SentSoFar, n
    <3> HIDE DEF file
    <3>9. disk'[Dest(c)] = file /\ \A g \in Files : g # Dest(c) => disk'[g] = disk[g]
      BY <2>a, <3>1, <3>5
    <3>10. post[c].saved \subseteq Files
      BY <2>a DEF Posts
    <3>11. Placed(c)' /\ SentSoFar(c)'
      BY <2>a, <3>1, <3>3, <3>4, <3>5, <3>7, <3>8, <3>9, <3>10 DEF Placed, SentSoFar
    <3> QED
      BY <3>1, <3>3, <3>5, <3>6, <3>7, <3>11, WriteKeeps
  <2>4. ASSUME NEW c \in Senders, PartSaved(c) PROVE UploadsInv'
    <3> DEFINE p == [post[c] EXCEPT !.state = "next", !.parts = Tail(@),
                                    !.saved = @ \cup {Dest(c)}, !.sent = 0]
    <3>1. /\ post' = [post EXCEPT ![c] = p] /\ UNCHANGED <<disk, touched>>
          /\ post[c].state = "copy" /\ post[c].sent = Blocks
      BY <2>4 DEF PartSaved, Dest
    <3>2. Dest(c) \in Files /\ post[c].parts # <<>>
      BY <2>a, <3>1 DEF Placed
    <3>3. /\ p \in Posts /\ p.state = "next" /\ p.dir = post[c].dir
          /\ p.saved = post[c].saved \cup {Dest(c)}
      <4>1. p \in Posts
        BY <2>a, <3>2, PostSteps
      <4> QED
        BY <2>a, <4>1 DEF Posts
    <3> HIDE DEF p
    <3>4. post'[c] = p
      BY <2>a, <3>1
    <3>5. First(c, Blocks) = Whole(c)
      BY DEF First, Whole
    <3>6. Placed(c)' /\ SentSoFar(c)'
      BY <2>a, <3>1, <3>3, <3>4, <3>5 DEF Placed, SentSoFar
    <3> QED
      BY <3>1, <3>3, <3>6, PostKeeps
  <2>5. ASSUME NEW c \in Senders, UploadFails(c) PROVE UploadsInv'
    <3>1. post' = [post EXCEPT ![c] = Idle] /\ UNCHANGED <<disk, touched>> /\ post'[c] = Idle
      BY <2>a, <2>5 DEF UploadFails
    <3>2. Placed(c)' /\ SentSoFar(c)'
      BY <3>1, RootJailed DEF Placed, SentSoFar
    <3> QED
      BY <3>1, <3>2, PostKeeps
  <2>6. ASSUME NEW c \in Senders, ReplySaved(c) PROVE UploadsInv'
    <3> DEFINE p == [Idle EXCEPT !.state = "saved", !.saved = post[c].saved]
    <3>1. post' = [post EXCEPT ![c] = p] /\ UNCHANGED <<disk, touched>> /\ post[c].state = "next"
      BY <2>6 DEF ReplySaved
    <3>2. p \in Posts /\ p.state = "saved" /\ p.dir = Root /\ p.saved = post[c].saved
      BY <2>a DEF Posts
    <3> HIDE DEF p
    <3>3. post'[c] = p
      BY <2>a, <3>1
    <3>4. Placed(c)' /\ SentSoFar(c)'
      BY <2>a, <3>1, <3>2, <3>3, RootJailed DEF Placed, SentSoFar
    <3> QED
      BY <3>1, <3>2, <3>4, PostKeeps
  <2>7. CASE UNCHANGED uploadVars
    BY <2>7 DEF UploadsInv, UploadsTypeOK, Contained, Placed, SentSoFar, Dest
  <2> QED
    BY <2>1, <2>2, <2>3, <2>4, <2>5, <2>6, <2>7 DEF UploadsNext
<1> QED
  BY <1>1, <1>2, PTL DEF UploadsSpec

\* The types of posts and files hold in every state.
THEOREM UploadsTyped == UploadsSpec => []UploadsTypeOK
<1>1. UploadsInv => UploadsTypeOK
  BY DEF UploadsInv
<1> QED
  BY <1>1, UploadsInvHolds, PTL

\* Files a reply says are saved hold what the client sent.
THEOREM SavedWholeHolds == UploadsSpec => []SavedWhole
<1>1. UploadsInv => SavedWhole
  BY DEF UploadsInv, SavedWhole, SentSoFar
<1> QED
  BY <1>1, UploadsInvHolds, PTL

\* What is written is reached by a path below the root, through a link at most.
THEOREM ContainedHolds == UploadsSpec => []Contained
<1>1. UploadsInv => Contained
  BY DEF UploadsInv
<1> QED
  BY <1>1, UploadsInvHolds, PTL

----------------------------------------------------------------------------
(***************************************************************************)
(* Gps: the client of gpsd.                                                *)
(***************************************************************************)
USE DEF gpsVars

\* What the assumptions say of the constants.
LEMMA GpsNumbers ==
  Timeout \in Nat /\ Hold \in Nat /\ Hold > 0 /\ MaxGpsTime \in Nat /\ Hold <= MaxGpsTime
BY GpsAssumption

Call == [on : BOOLEAN, detail : BOOLEAN, tpv : BOOLEAN, sats : BOOLEAN,
         fix : Instants, until : 0 .. MaxGpsTime]

\* What a call r has read was on the air since it began.
OfThisCall(r) ==
  /\ r.on => gpsNow <= r.until /\ r.until <= gpsNow + Timeout
  /\ r.on /\ r.fix # Never => r.until - Timeout <= r.fix /\ r.fix <= gpsNow

\* The held fix was read by the Poll that had one last, within its timeout.
HeldFix ==
  /\ fixed = lastSeen
  /\ last = Never <=> lastSeen = Never
  /\ lastSeen <= gpsNow /\ last <= lastSeen
  /\ last # Never => lastSeen <= last + Timeout

GpsInv == /\ GpsTypeOK /\ HeldFix /\ FixHonest
          /\ \A c \in Callers : OfThisCall(reading[c])

\* A call that ends with a fresh fix, or with none, replies honestly.
LEMMA ReturnsHonestly ==
  ASSUME GpsInv, NEW c \in Callers, reading[c].on, NEW fix \in Instants,
         fix # Never => fix <= gpsNow /\ gpsNow <= fix + Timeout,
         Returns(c, fix)
  PROVE  GpsInv'
<1> USE GpsNumbers DEF GpsTypeOK, Instants, Never
<1>1. /\ gpsNow' = gpsNow /\ reading' = [reading EXCEPT ![c] = Off]
      /\ gpsNow \in 0 .. MaxGpsTime /\ last \in Instants /\ lastSeen \in Instants
      /\ fixed \in Instants /\ reading \in [Callers -> Call] /\ reading[c] \in Call
  BY DEF Returns, Reply, PollReplies, GpsInv, Call
<1>2. Off \in Call /\ Off.on = FALSE
  BY DEF Off, Call
<1>3. reading' \in [Callers -> Call] /\ \A d \in Callers : OfThisCall(reading[d])'
  <2>1. reading' \in [Callers -> Call]
    BY <1>1, <1>2
  <2>2. ASSUME NEW d \in Callers PROVE OfThisCall(reading[d])'
    BY <1>1, <1>2 DEF GpsInv, OfThisCall
  <2> QED
    BY <2>1, <2>2
<1>4. /\ last' \in Instants /\ lastSeen' \in Instants /\ fixed' \in Instants /\ HeldFix'
  BY <1>1 DEF Returns, PollReplies, GpsInv, HeldFix
<1> DEFINE answer == IF ~reading[c].detail /\ fix = Never /\ Held THEN last ELSE fix
<1>5. shown' = [ok |-> answer # Never, detail |-> reading[c].detail,
                age |-> IF answer = Never THEN 0 ELSE gpsNow - answer,
                gap |-> IF fixed = Never THEN MaxGpsTime + 1 ELSE gpsNow - fixed]
  BY DEF Returns, PollReplies, Reply
<1>6. answer \in Instants /\ (answer # Never => answer <= gpsNow)
  BY <1>1 DEF GpsInv, HeldFix
<1>7. reading[c].detail \in BOOLEAN
  BY <1>1 DEF Call
<1>8. shown' \in Replies
  <2>1. (IF answer = Never THEN 0 ELSE gpsNow - answer) \in 0 .. MaxGpsTime + 1
    BY <1>1, <1>6
  <2>2. (IF fixed = Never THEN MaxGpsTime + 1 ELSE gpsNow - fixed) \in 0 .. MaxGpsTime + 1
    BY <1>1 DEF GpsInv, HeldFix
  <2> QED
    BY <1>5, <1>7, <2>1, <2>2 DEF Replies
<1>9. FixHonest'
  <2>1. ASSUME answer = Never, ~reading[c].detail
        PROVE  (IF fixed = Never THEN MaxGpsTime + 1 ELSE gpsNow - fixed) >= Hold
    BY <1>1, <2>1 DEF Held, GpsInv, HeldFix
  <2>2. ASSUME answer # Never
        PROVE  gpsNow - answer < Timeout + (IF reading[c].detail THEN 1 ELSE Hold)
    BY <1>1, <2>2 DEF Held, GpsInv, HeldFix
  <2> HIDE DEF answer
  <2> QED
    BY <1>5, <2>1, <2>2 DEF FixHonest
<1> QED
  BY <1>1, <1>3, <1>4, <1>8, <1>9 DEF GpsInv, Call

\* A message that only changes what the call has read.
LEMMA ReadsFresh ==
  ASSUME GpsInv, NEW c \in Callers, NEW r \in Call, OfThisCall(r), Reads(c, r)
  PROVE  GpsInv'
<1> USE DEF GpsInv, Reads
<1>1. reading' = [reading EXCEPT ![c] = r] /\ UNCHANGED <<gpsNow, last, lastSeen, shown, fixed>>
  OBVIOUS
<1>2. reading' \in [Callers -> Call]
  BY <1>1 DEF GpsTypeOK, Call
<1>3. ASSUME NEW d \in Callers PROVE OfThisCall(reading[d])'
  BY <1>1 DEF OfThisCall, GpsTypeOK
<1> QED
  BY <1>1, <1>2, <1>3 DEF GpsTypeOK, HeldFix, FixHonest, Call

\* The inductive invariant of Gps.
THEOREM GpsInvHolds == GpsSpec => []GpsInv
<1> USE GpsNumbers
<1>1. GpsInit => GpsInv
  BY DEF GpsInit, GpsInv, GpsTypeOK, HeldFix, FixHonest, OfThisCall, Off, Replies, Never, Instants
<1>2. GpsInv /\ [GpsNext]_gpsVars => GpsInv'
  <2> SUFFICES ASSUME GpsInv, [GpsNext]_gpsVars PROVE GpsInv'
    OBVIOUS
  <2>1. /\ gpsNow \in 0 .. MaxGpsTime /\ reading \in [Callers -> Call]
        /\ \A c \in Callers : reading[c] \in Call /\ OfThisCall(reading[c])
    BY DEF GpsInv, GpsTypeOK, Call
  <2>2. ASSUME NEW c \in Callers, Connect(c) PROVE GpsInv'
    <3>1. PICK detail \in BOOLEAN :
            Reads(c, [Off EXCEPT !.on = TRUE, !.detail = detail, !.until = gpsNow + Timeout])
      BY <2>2 DEF Connect
    <3> DEFINE r == [Off EXCEPT !.on = TRUE, !.detail = detail, !.until = gpsNow + Timeout]
    <3>2. r \in Call /\ OfThisCall(r)
      <4>1. gpsNow \in Int /\ gpsNow + Timeout \in 0 .. MaxGpsTime
        BY <2>1, <2>2 DEF Connect
      <4>2. Off \in Call
        BY DEF Off, Call, Never, Instants
      <4>3. r \in Call
        BY <4>1, <4>2 DEF Call
      <4>4. r.until = gpsNow + Timeout /\ r.fix = Never
        BY <4>2 DEF Call, Off
      <4>5. OfThisCall(r)
        <5> HIDE DEF r
        <5> QED
          BY <4>1, <4>4 DEF OfThisCall
      <4> QED
        BY <4>3, <4>5
    <3> QED
      BY <3>1, <3>2, ReadsFresh
  <2>3. ASSUME NEW c \in Callers, Tpv(c) PROVE GpsInv'
    <3>1. PICK fix \in {gpsNow, Never} :
            LET r == [reading[c] EXCEPT !.tpv = reading[c].detail, !.fix = fix]
            IN  Returns(c, fix) \/ Reads(c, r)
      BY <2>3 DEF Tpv
    <3> DEFINE r == [reading[c] EXCEPT !.tpv = reading[c].detail, !.fix = fix]
    <3>2. reading[c].on /\ fix \in Instants /\ (fix # Never => fix = gpsNow)
      BY <2>1, <2>3, <3>1 DEF Tpv, Instants, Never
    <3>3. CASE Returns(c, fix)
      BY <2>1, <3>2, <3>3, ReturnsHonestly
    <3>4. CASE Reads(c, r)
      <4>1. reading[c].detail \in BOOLEAN /\ reading[c] \in Call
        BY <2>1 DEF Call
      <4>2. r \in Call
        BY <3>2, <4>1 DEF Call
      <4>3. r.on = reading[c].on /\ r.until = reading[c].until /\ r.fix = fix
        BY <4>1 DEF Call
      <4>4. OfThisCall(r)
        BY <2>1, <3>2, <4>1, <4>3 DEF OfThisCall, Call
      <4> QED
        BY <3>4, <4>2, <4>4, ReadsFresh
    <3> QED
      BY <3>1, <3>3, <3>4
  <2>4. ASSUME NEW c \in Callers, reading[c].on
        PROVE  /\ reading[c].fix \in Instants
               /\ reading[c].fix # Never =>
                    reading[c].fix <= gpsNow /\ gpsNow <= reading[c].fix + Timeout
    BY <2>1, <2>4 DEF Call, OfThisCall, Instants, Never
  <2>5. ASSUME NEW c \in Callers, Sky(c) PROVE GpsInv'
    <3>1. PICK some \in BOOLEAN :
            LET r == [reading[c] EXCEPT !.sats = @ \/ some \/ reading[c].detail]
            IN  Returns(c, r.fix) \/ Reads(c, r)
      BY <2>5 DEF Sky
    <3> DEFINE r == [reading[c] EXCEPT !.sats = @ \/ some \/ reading[c].detail]
    <3>2. r \in Call /\ OfThisCall(r) /\ r.fix = reading[c].fix
      <4>1. (reading[c].sats \/ some \/ reading[c].detail) \in BOOLEAN
        OBVIOUS
      <4>2. r \in Call
        BY <2>1, <4>1 DEF Call
      <4>3. r.on = reading[c].on /\ r.until = reading[c].until /\ r.fix = reading[c].fix
        BY <2>1 DEF Call
      <4> QED
        BY <2>1, <4>2, <4>3 DEF OfThisCall
    <3>3. CASE Returns(c, r.fix)
      BY <2>4, <2>5, <3>2, <3>3, ReturnsHonestly DEF Sky
    <3>4. CASE Reads(c, r)
      BY <3>2, <3>4, ReadsFresh
    <3> QED
      BY <3>1, <3>3, <3>4
  <2>6. ASSUME NEW c \in Callers, Expires(c) PROVE GpsInv'
    BY <2>4, <2>6, ReturnsHonestly DEF Expires
  <2>7. CASE GpsTick
    <3>1. gpsNow' = gpsNow + 1 /\ gpsNow' \in 0 .. MaxGpsTime
          /\ UNCHANGED <<reading, last, lastSeen, shown, fixed>>
      BY <2>1, <2>7 DEF GpsTick
    <3>2. ASSUME NEW c \in Callers PROVE OfThisCall(reading[c])'
      BY <2>1, <2>7, <3>1 DEF GpsTick, OfThisCall, Call, Instants, Never
    <3>3. HeldFix'
      BY <2>1, <3>1 DEF GpsInv, GpsTypeOK, HeldFix, Instants, Never
    <3> QED
      BY <3>1, <3>2, <3>3 DEF GpsInv, GpsTypeOK, FixHonest
  <2>8. CASE UNCHANGED gpsVars
    BY <2>8 DEF GpsInv, GpsTypeOK, HeldFix, FixHonest, OfThisCall
  <2> QED
    BY <2>2, <2>3, <2>5, <2>6, <2>7, <2>8 DEF GpsNext
<1> QED
  BY <1>1, <1>2, PTL DEF GpsSpec

\* The types of the calls and of the held fix hold in every state.
THEOREM GpsTyped == GpsSpec => []GpsTypeOK
<1>1. GpsInv => GpsTypeOK
  BY DEF GpsInv
<1> QED
  BY <1>1, GpsInvHolds, PTL

\* The reply of every Poll and PollDetail is honest, however calls overlap.
THEOREM FixHonestHolds == GpsSpec => []FixHonest
<1>1. GpsInv => FixHonest
  BY DEF GpsInv
<1> QED
  BY <1>1, GpsInvHolds, PTL

----------------------------------------------------------------------------
(***************************************************************************)
(* Hdmi: the state of the desktop.                                         *)
(***************************************************************************)
USE DEF hdmiVars

\* One request at a time; a helper works for a request only, and the one that
\* starts the desktop has linked its unit.
InTurn ==
  /\ \A g, h \in asked : g = h
  /\ \A h \in Helpers : helper[h] # "off" => h \in asked
  /\ helper["enable"] = "unit" => link

\* What computeState has read was true at some instant of its read; if it
\* has read that nothing lives, either that was an alarm or there is still
\* nothing to be alarmed of.
Witnessed ==
  /\ probe # "none" => State(live, link) \in truths
  /\ probe = "yes" => "running" \in truths
  /\ probe = "no" => "degraded" \in truths \/ (~link /\ ~live)

HdmiInv == HdmiTypeOK /\ (~overlap => InTurn /\ Witnessed)

\* There are two helpers.
LEMMA HelperIds == Helpers = {"enable", "disable"} /\ "enable" # "disable"
BY DEF Helpers

\* A step outside computeState keeps what it has read true, if requests keep
\* taking turns and no unit starts that is not linked.
LEMMA MovesWitnessed ==
  ASSUME HdmiTypeOK, Witnessed, Moves, live' \in BOOLEAN, link' \in BOOLEAN,
         live' => live \/ link
  PROVE  Witnessed'
<1>1. probe' = probe /\ probe \in {"none", "begun", "yes", "no"}
  BY DEF Moves, HdmiTypeOK
<1>2. probe # "none" => truths' = truths \cup {State(live', link')}
  BY <1>1 DEF Moves, Notes
<1>3. ASSUME probe = "no", ~("degraded" \in truths \/ (~link' /\ ~live')) PROVE "degraded" \in truths'
  <2>1. ~live' /\ link' /\ State(live', link') = "degraded"
    BY <1>3 DEF Witnessed, State
  <2> QED
    BY <1>1, <1>2, <1>3, <2>1
<1> QED
  BY <1>1, <1>2, <1>3 DEF Witnessed, State

\* The inductive invariant of Hdmi.
THEOREM HdmiInvHolds == HdmiSpec => []HdmiInv
<1> USE HelperIds
<1>1. HdmiInit => HdmiInv
  BY OverlapAssumption DEF HdmiInit, HdmiInv, HdmiTypeOK, InTurn, Witnessed, States
<1>2. HdmiInv /\ [HdmiNext]_hdmiVars => HdmiInv'
  <2> SUFFICES ASSUME HdmiInv, [HdmiNext]_hdmiVars PROVE HdmiInv'
    OBVIOUS
  <2>a. HdmiTypeOK'
    <3> USE DEF HdmiTypeOK
    <3>0. HdmiTypeOK /\ State(live', link') \in States
      BY DEF HdmiInv, State, States
    <3>1. CASE \E h \in Helpers : Toggle(h) \/ HelperLinks(h) \/ HelperActs(h)
      BY <3>0, <3>1 DEF Toggle, HelperLinks, HelperActs, Moves, Notes
    <3>2. CASE Dies
      BY <3>0, <3>2 DEF Dies, Moves, Notes
    <3>3. CASE StatusBegins \/ ReadFirst
      BY <3>0, <3>3 DEF StatusBegins, ReadFirst, Unmoved, Notes
    <3>4. CASE ReadSecond
      BY <3>0, <3>4 DEF ReadSecond, Unmoved, State, States
    <3>5. CASE UNCHANGED hdmiVars
      BY <3>0, <3>5
    <3> QED
      BY <3>1, <3>2, <3>3, <3>4, <3>5 DEF HdmiNext
  <2> SUFFICES ASSUME ~overlap' PROVE InTurn' /\ Witnessed'
    BY <2>a DEF HdmiInv
  <2>b. overlap' = overlap
    BY DEF HdmiNext, Toggle, HelperLinks, HelperActs, Dies, Moves, StatusBegins, ReadFirst,
           ReadSecond, Unmoved
  <2>c. HdmiTypeOK /\ InTurn /\ Witnessed /\ ~overlap /\ live' \in BOOLEAN /\ link' \in BOOLEAN
    BY <2>a, <2>b DEF HdmiInv, HdmiTypeOK
  <2>d. helper \in [Helpers -> {"off", "link", "unit"}] /\ asked \subseteq Helpers
    BY <2>c DEF HdmiTypeOK
  <2>1. ASSUME NEW h \in Helpers, Toggle(h) PROVE InTurn' /\ Witnessed'
    <3>1. InTurn'
      BY <2>1, <2>c, <2>d DEF Toggle, InTurn
    <3>2. Witnessed'
      BY <2>1, <2>c, MovesWitnessed DEF Toggle
    <3> QED
      BY <3>1, <3>2
  <2>2. ASSUME NEW h \in Helpers, HelperLinks(h) PROVE InTurn' /\ Witnessed'
    <3>1. InTurn'
      BY <2>2, <2>c, <2>d DEF HelperLinks, InTurn
    <3>2. Witnessed'
      BY <2>2, <2>c, MovesWitnessed DEF HelperLinks
    <3> QED
      BY <3>1, <3>2
  <2>3. ASSUME NEW h \in Helpers, HelperActs(h) PROVE InTurn' /\ Witnessed'
    <3>1. InTurn'
      BY <2>3, <2>c, <2>d DEF HelperActs, InTurn
    <3>2. live' => live \/ link
      BY <2>3, <2>c DEF HelperActs, InTurn
    <3>3. Witnessed'
      BY <2>3, <2>c, <3>2, MovesWitnessed DEF HelperActs
    <3> QED
      BY <3>1, <3>3
  <2>4. CASE Dies
    BY <2>4, <2>c, MovesWitnessed DEF Dies, InTurn
  <2>5. CASE StatusBegins
    BY <2>5, <2>c DEF StatusBegins, Unmoved, Notes, InTurn, Witnessed
  <2>6. CASE ReadFirst
    <3>1. /\ probe' = (IF live THEN "yes" ELSE "no") /\ UNCHANGED <<link, live, helper, asked>>
          /\ truths' = truths \cup {State(live, link)}
      BY <2>6 DEF ReadFirst, Read, Order, Unmoved, Notes
    <3> QED
      BY <3>1, <2>c DEF InTurn, Witnessed, State
  <2>7. CASE ReadSecond
    BY <2>7, <2>c DEF ReadSecond, Unmoved, InTurn, Witnessed
  <2>8. CASE UNCHANGED hdmiVars
    BY <2>8, <2>c DEF InTurn, Witnessed
  <2> QED
    BY <2>1, <2>2, <2>3, <2>4, <2>5, <2>6, <2>7, <2>8 DEF HdmiNext
<1> QED
  BY <1>1, <1>2, PTL DEF HdmiSpec

\* The types of helpers, link and reads hold in every state.
THEOREM HdmiTyped == HdmiSpec => []HdmiTypeOK
<1>1. HdmiInv => HdmiTypeOK
  BY DEF HdmiInv
<1> QED
  BY <1>1, HdmiInvHolds, PTL

\* "degraded" and "running" are replied only if they were true at some
\* instant of the read, when requests do not overlap.
THEOREM NoFalseAlarmHolds == HdmiSpec => NoFalseAlarm
<1> USE HelperIds
<1>1. HdmiInv /\ [HdmiNext]_hdmiVars =>
        (~overlap /\ shownHdmi' # shownHdmi /\ shownHdmi' # "stopped" => shownHdmi' \in truths)
  <2> SUFFICES ASSUME HdmiInv, [HdmiNext]_hdmiVars, ~overlap, shownHdmi' # shownHdmi,
                      shownHdmi' # "stopped"
               PROVE  shownHdmi' \in truths
    OBVIOUS
  <2>1. ReadSecond
    BY DEF HdmiNext, Toggle, HelperLinks, HelperActs, Dies, Moves, StatusBegins, ReadFirst
  <2>2. shownHdmi' = State(probe = "yes", link) /\ probe \in {"yes", "no"} /\ Witnessed
    BY <2>1 DEF ReadSecond, Read, Order, HdmiInv
  <2> QED
    BY <2>2 DEF State, Witnessed
<1> QED
  BY <1>1, HdmiInvHolds, PTL DEF HdmiSpec, NoFalseAlarm
=============================================================================
