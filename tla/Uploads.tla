------------------------------ MODULE Uploads ------------------------------
(***************************************************************************)
(* Uploads to the files module: handleUpload and safe of                   *)
(* internal/modules/files.go.  Each POST streams its parts to the files'   *)
(* final names, one block after the other; another POST may do so in       *)
(* between.  The kernel follows symbolic links; the code does not look for *)
(* them.                                                                   *)
(***************************************************************************)
EXTENDS Integers, Sequences, SequencesExt

CONSTANTS
  Senders,     \* the clients; each has one POST under way at most
  Root,        \* the root, as a path: a sequence of names
  Dirs,        \* the directories there are, as paths without links
  Via,         \* a path that leads through a link |-> the path where it ends
  Rels,        \* the relative paths a client asks for
  FileNames,   \* names of parts; NoName among them is one that Base refuses
  NoName,
  Blocks,      \* blocks of a part
  Hole         \* what a file holds where nobody wrote

ASSUME UploadsAssumption ==
  /\ Root \in Dirs /\ Dirs \subseteq Seq(STRING) \ {<<>>}
  /\ DOMAIN Via \subseteq Seq(STRING) \ {<<>>} /\ Root \notin DOMAIN Via
  /\ Blocks \in Nat \ {0} /\ Hole \notin Senders \X (1 .. Blocks)

VARIABLES
  disk,     \* the files below Dirs: sequences of blocks
  post,     \* the POST of a client: what it has to do and has done
  touched   \* history: files somebody else opened or wrote since a client did

uploadVars == <<disk, post, touched>>

Files == {Append(d, n) : d \in Dirs, n \in FileNames \ {NoName}}
Whole(c) == [i \in 1 .. Blocks |-> <<c, i>>]
FileContents == Seq((Senders \X (1 .. Blocks)) \cup {Hole})
Old == <<Hole>>     \* what a file holds that no client wrote
Idle == [state |-> "idle", dir |-> Root, parts |-> <<>>, sent |-> 0, saved |-> {}]
Named == Dirs \cup DOMAIN Via     \* the paths a client may name
PartLists == UNION {[1 .. n -> FileNames] : n \in 1 .. 2}

UploadsTypeOK ==
  /\ disk \in [Files -> FileContents]
  /\ post \in [Senders -> [state : {"idle", "next", "copy", "saved"},
                           dir : Named, parts : Seq(FileNames),
                           sent : 0 .. Blocks, saved : SUBSET Files]]
  /\ touched \in [Senders -> SUBSET Files]

UploadsInit == /\ disk = [f \in Files |-> Old]
               /\ post = [c \in Senders |-> Idle]
               /\ touched = [c \in Senders |-> {}]

----------------------------------------------------------------------------

\* filepath.Clean of an absolute path: ".." drops a name, at the root nothing.
Clean(path) ==
  FoldLeft(LAMBDA done, name : IF name = ".." THEN SubSeq(done, 1, Len(done) - 1)
                                              ELSE Append(done, name), <<>>, path)

Jailed(path) == IsPrefix(Root, path)

\* Mutant: the request's path is joined as it is, and the result not compared.
SafeNot(rel) == Clean(Root \o rel)

\* safe: the path is cleaned as an absolute one and joined to the root; what
\* is outside all the same is refused (NoDir).
NoDir == <<>>
Safe(rel) == LET path == Clean(Root \o Clean(rel)) IN IF Jailed(path) THEN path ELSE NoDir

\* Where stat(2) and open(2) end up: they follow links.
Real(path) == IF path \in DOMAIN Via THEN Via[path] ELSE path
Created(dir, name) == Real(Append(Real(dir), name))

\* The file the part at hand is created as.
Dest(c) == Created(post[c].dir, Head(post[c].parts))

\* write(2) at an offset the writer's own descriptor keeps.
WriteAt(file, i, block) ==
  [j \in 1 .. Max({i, Len(file)}) |->
     IF j = i THEN block ELSE IF j <= Len(file) THEN file[j] ELSE Hole]

Others(c, f) == [d \in Senders |-> IF d # c THEN touched[d] \cup {f} ELSE touched[d]]

PostUpload(c) ==
  /\ post[c].state \in {"idle", "saved"}
  /\ \E rel \in Rels, parts \in PartLists :
       /\ Real(Safe(rel)) \in Dirs
       /\ post' = [post EXCEPT ![c] = [Idle EXCEPT !.state = "next", !.dir = Safe(rel),
                                                   !.parts = parts]]
  /\ touched' = [touched EXCEPT ![c] = {}]
  /\ UNCHANGED disk

\* A part whose name Base refuses is passed over; another's file is truncated.
NextPart(c) ==
  /\ post[c].state = "next" /\ post[c].parts # <<>>
  /\ IF Head(post[c].parts) = NoName
       THEN /\ post' = [post EXCEPT ![c].parts = Tail(@)]
            /\ UNCHANGED <<disk, touched>>
       ELSE /\ Dest(c) \in Files
            /\ post' = [post EXCEPT ![c].state = "copy", ![c].sent = 0]
            /\ disk' = [disk EXCEPT ![Dest(c)] = <<>>]
            /\ touched' = [Others(c, Dest(c)) EXCEPT ![c] = @ \ {Dest(c)}]

CopyBlock(c) ==
  /\ post[c].state = "copy" /\ post[c].sent < Blocks
  /\ disk' = [disk EXCEPT ![Dest(c)] = WriteAt(@, post[c].sent + 1, <<c, post[c].sent + 1>>)]
  /\ post' = [post EXCEPT ![c].sent = @ + 1]
  /\ touched' = Others(c, Dest(c))

PartSaved(c) ==
  /\ post[c].state = "copy" /\ post[c].sent = Blocks
  /\ post' = [post EXCEPT ![c].state = "next", ![c].parts = Tail(@),
                          ![c].saved = @ \cup {Dest(c)}, ![c].sent = 0]
  /\ UNCHANGED <<disk, touched>>

\* Mutant: the error of Copy is not looked at.
UploadFailsQuietly(c) ==
  /\ post[c].state = "copy" /\ post[c].sent < Blocks
  /\ post' = [post EXCEPT ![c].state = "next", ![c].parts = Tail(@),
                          ![c].saved = @ \cup {Dest(c)}, ![c].sent = 0]
  /\ UNCHANGED <<disk, touched>>

\* The client goes away, the file cannot be created, the disk is full: an error,
\* and what is written stays.
UploadFails(c) ==
  /\ \/ post[c].state = "copy" /\ post[c].sent < Blocks
     \/ post[c].state = "next" /\ post[c].parts # <<>>
  /\ post' = [post EXCEPT ![c] = Idle]
  /\ UNCHANGED <<disk, touched>>

ReplySaved(c) ==
  /\ post[c].state = "next" /\ post[c].parts = <<>>
  /\ post' = [post EXCEPT ![c] = [Idle EXCEPT !.state = "saved", !.saved = post[c].saved]]
  /\ UNCHANGED <<disk, touched>>

UploadsNext == \E c \in Senders : \/ PostUpload(c) \/ NextPart(c) \/ CopyBlock(c)
                                  \/ PartSaved(c) \/ UploadFails(c) \/ ReplySaved(c)

UploadsSpec == UploadsInit /\ [][UploadsNext]_uploadVars

----------------------------------------------------------------------------
(* Properties.                                                             *)

\* Files that a reply says are saved hold all the client sent, and nothing
\* else, until somebody else opens them; also when the POST had other parts,
\* an upload of the name failed before, or others upload at the same time.
SavedWhole ==
  \A c \in Senders : post[c].state = "saved" =>
    \A f \in post[c].saved \ touched[c] : disk[f] = Whole(c)

\* A path below the root leads to the file.
LedTo(f) == \E dir \in Named, name \in FileNames :
              Jailed(Append(dir, name)) /\ Created(dir, name) = f

\* A file that an upload changed is one that a path below the root leads to:
\* without a link it is below the root itself, and outside only where a link
\* below the root leads, which files.go:21-23 accepts.
Contained == \A f \in Files : disk[f] # Old => LedTo(f)
============================================================================
