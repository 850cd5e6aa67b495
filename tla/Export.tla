------------------------------- MODULE Export -------------------------------
(***************************************************************************)
(* The export of a capture: handleExport and newestKismetLog of            *)
(* internal/modules/wardrive.go.  A converter writes the newest log to a   *)
(* temporary file whose name all exports of a format share; the handler    *)
(* serves the file and removes it.                                         *)
(***************************************************************************)
EXTENDS Integers, Sequences, FiniteSets, FiniteSetsExt

CONSTANTS
  Exporters,    \* the requests that run at a time
  Logs,         \* the *.kismet files there may be
  None,         \* no log, no file
  Pieces,       \* bound: pieces of a converted log
  MaxMTime      \* bound: changes of the logs

Inodes == 1 .. Cardinality(Exporters) + 1

ASSUME ExportAssumption ==
  /\ Pieces \in Nat \ {0} /\ MaxMTime \in Nat
  /\ IsFiniteSet(Exporters) /\ Logs # {} /\ None \notin Logs \cup Inodes

VARIABLES
  mtime,     \* when each log was written to last; 0: it does not exist
  inode,     \* what the temporary files hold, linked or not
  linked,    \* which of them has the name in TempDir, or None
  job,       \* the request: its log, its converter's or its own open file
  overlapped   \* history: another export ran at the same time

exportVars == <<mtime, inode, linked, job, overlapped>>

Rest == [state |-> "idle", log |-> None, file |-> None, size |-> 0, at |-> 0,
         served |-> <<>>]
Converted(log, size) == [i \in 1 .. size |-> <<log, i>>]
Blobs == Seq((Logs \X (1 .. Pieces)) \cup {None})

ExportTypeOK ==
  /\ mtime \in [Logs -> 0 .. MaxMTime]
  /\ inode \in [Inodes -> Blobs]
  /\ linked \in Inodes \cup {None}
  /\ job \in [Exporters -> [state : {"idle", "convert", "write", "serve", "done", "error"},
                            log : Logs \cup {None}, file : Inodes \cup {None},
                            size : 0 .. Pieces, at : 0 .. Pieces, served : Blobs]]
  /\ overlapped \in [Exporters -> BOOLEAN]

ExportInit == /\ mtime = [l \in Logs |-> 0]
              /\ inode = [i \in Inodes |-> <<>>] /\ linked = None
              /\ job = [c \in Exporters |-> Rest]
              /\ overlapped = [c \in Exporters |-> FALSE]

----------------------------------------------------------------------------

Latest == CHOOSE t \in {mtime[l] : l \in Logs} : \A l \in Logs : mtime[l] <= t

\* newestKismetLog; ModTime is after the zero time for every file there is.
Newest == IF Latest = 0 THEN None ELSE CHOOSE l \in Logs : mtime[l] = Latest

\* kismet starts a log or writes to one.
Captures == /\ Latest < MaxMTime
            /\ \E l \in Logs : mtime' = [mtime EXCEPT ![l] = Latest + 1]
            /\ UNCHANGED <<inode, linked, job, overlapped>>

Busy(c) == job[c].state \notin {"idle", "done", "error"}

\* The defers: the file is closed and the name removed, whoever's it is.
Ends(c, state) == /\ job' = [job EXCEPT ![c] = [Rest EXCEPT !.state = state,
                                                            !.log = job[c].log, !.size = job[c].size,
                                                            !.served = job[c].served]]
                  /\ linked' = None
                  /\ UNCHANGED <<mtime, overlapped>>

\* 404 when there is no log yet: nothing changes.
Export(c) ==
  /\ ~Busy(c) /\ Newest # None
  /\ job' = [job EXCEPT ![c] = [Rest EXCEPT !.state = "convert", !.log = Newest]]
  /\ overlapped' = [d \in Exporters |->
       IF d = c THEN \E e \in Exporters : e # c /\ Busy(e) ELSE overlapped[d] \/ Busy(d)]
  /\ UNCHANGED <<mtime, inode, linked>>

Unused == CHOOSE i \in Inodes : i # linked /\ \A c \in Exporters : job[c].file # i

\* Mutant: the converter writes over a file that is in the way without cutting it.
ToolCreatesNot(c) ==
  /\ job[c].state = "convert"
  /\ LET i == IF linked = None THEN Unused ELSE linked IN
       /\ linked' = i
       /\ inode' = [inode EXCEPT ![i] = IF linked = None THEN <<>> ELSE @]
       /\ \E size \in 1 .. Pieces :
            job' = [job EXCEPT ![c].state = "write", ![c].file = i, ![c].size = size]
  /\ UNCHANGED <<mtime, overlapped>>

\* The converter with --force: a file that is in the way is overwritten.
ToolCreates(c) ==
  /\ job[c].state = "convert"
  /\ LET i == IF linked = None THEN Unused ELSE linked IN
       /\ linked' = i
       /\ inode' = [inode EXCEPT ![i] = <<>>]
       /\ \E size \in 1 .. Pieces :
            job' = [job EXCEPT ![c].state = "write", ![c].file = i, ![c].size = size]
  /\ UNCHANGED <<mtime, overlapped>>

\* Its descriptor keeps its place; a file cut under it gets a hole.
ToolWrites(c) ==
  /\ job[c].state = "write" /\ job[c].at < job[c].size
  /\ LET at == job[c].at + 1 IN
       inode' = [inode EXCEPT ![job[c].file] = [j \in 1 .. Max({at, Len(@)}) |->
                   IF j = at THEN <<job[c].log, at>> ELSE IF j <= Len(@) THEN @[j] ELSE None]]
  /\ job' = [job EXCEPT ![c].at = @ + 1]
  /\ UNCHANGED <<mtime, linked, overlapped>>

\* The converter exits with an error, whether it made the file or not, or
\* the client goes away.
Breaks(c) == Busy(c) /\ Ends(c, "error") /\ UNCHANGED inode

\* The handler opens what has the name now, if anything has.
Serve(c) ==
  /\ job[c].state = "write" /\ job[c].at = job[c].size
  /\ \/ linked = None /\ Ends(c, "error")
     \/ /\ linked # None
        /\ job' = [job EXCEPT ![c].state = "serve", ![c].file = linked, ![c].at = 0]
        /\ UNCHANGED <<mtime, linked, overlapped>>
  /\ UNCHANGED inode

ServePiece(c) ==
  /\ job[c].state = "serve" /\ job[c].at < Len(inode[job[c].file])
  /\ job' = [job EXCEPT ![c].served = Append(@, inode[job[c].file][job[c].at + 1]),
                        ![c].at = @ + 1]
  /\ UNCHANGED <<mtime, inode, linked, overlapped>>

Served(c) == /\ job[c].state = "serve" /\ job[c].at >= Len(inode[job[c].file])
             /\ Ends(c, "done") /\ UNCHANGED inode

\* The worker is killed: nothing is deferred, the file stays in TempDir.
WorkerDies == /\ \E c \in Exporters : Busy(c)
              /\ job' = [c \in Exporters |-> Rest]
              /\ overlapped' = [c \in Exporters |-> FALSE]
              /\ UNCHANGED <<mtime, inode, linked>>

ExportNext == \/ \E c \in Exporters : \/ Export(c) \/ ToolCreates(c) \/ ToolWrites(c)
                                      \/ Breaks(c) \/ Serve(c) \/ ServePiece(c)
                                      \/ Served(c)
              \/ Captures \/ WorkerDies

ExportSpec == ExportInit /\ [][ExportNext]_exportVars

----------------------------------------------------------------------------
(* Properties.                                                             *)

\* An export that no other overlapped serves the whole of its log and nothing
\* else, although the file of an export that was cut off may be in its way.
ExportWhole ==
  \A c \in Exporters : job[c].state = "done" /\ ~overlapped[c] =>
    job[c].served = Converted(job[c].log, job[c].size)
============================================================================
