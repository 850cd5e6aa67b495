----------------------------- MODULE ImageCache -----------------------------
(***************************************************************************)
(* The image viewer of the LCD, internal/lcd/imageview.go, and PNGToR565   *)
(* of internal/img/r565.go.  A viewer converts the PNG, row by row in a    *)
(* goroutine of its own, to an .r565 file beside it, unless one is there   *)
(* that is not older, and draws from that file.  The file has one inode:   *)
(* os.Create cuts it under whoever reads or writes it.                     *)
(***************************************************************************)
EXTENDS Integers, FiniteSets, FiniteSetsExt

CONSTANTS
  Viewers,       \* the viewers that are there at a time
  Height,        \* rows of the image
  Screenful,     \* rows the screen shows
  PanStep,       \* rows a key pans
  MaxVersion,    \* bound: versions of the PNG
  ImageEnvSets   \* the environments to consider: sets of Hazards

(*   quit     the process ends while a conversion runs                     *)
(*   growing  a viewer may be opened while the PNG is being written        *)
(*   coarse   files written one after the other may have the same mtime    *)
(*   full     writes to the .r565 may fail, as on a full disk              *)
Hazards == {"quit", "growing", "coarse", "full"}

ASSUME ImageAssumption ==
  /\ {Height, Screenful, PanStep} \subseteq Nat \ {0}
  /\ MaxVersion \in Nat /\ ImageEnvSets \subseteq SUBSET Hazards

VARIABLES
  imageEnv,  \* the environment of this behaviour
  png,       \* the PNG: its version, and how many rows are written
  cache,     \* the .r565: header written, version each row is of (0: none)
  newer,     \* the .r565 exists and its mtime is not before the PNG's
  view,      \* the viewers
  conv       \* their conversions: rows read ahead, rows written

imageVars == <<imageEnv, png, cache, newer, view, conv>>

Rows == 1 .. Height
NoView == [state |-> "none", file |-> FALSE, height |-> 0, pan |-> 0, of |-> 0]
NoConv == [on |-> FALSE, read |-> 0, done |-> 0]
Empty  == [header |-> FALSE, row |-> [r \in Rows |-> 0]]

MaxPan(height) == Max({0, height - Screenful})

ImageTypeOK ==
  /\ imageEnv \in ImageEnvSets
  /\ png \in [version : 0 .. MaxVersion, rows : 0 .. Height]
  /\ cache \in [header : BOOLEAN, row : [Rows -> 0 .. MaxVersion]]
  /\ newer \in BOOLEAN
  /\ view \in [Viewers -> [state : {"none", "converting", "ready", "error"}, file : BOOLEAN,
                           height : {0, Height}, pan : 0 .. MaxPan(Height),
                           of : 0 .. MaxVersion]]
  /\ \A v \in Viewers : view[v].state = "ready" => view[v].file
  /\ conv \in [Viewers -> [on : BOOLEAN, read : 0 .. Height, done : 0 .. Height]]

ImageInit == /\ imageEnv \in ImageEnvSets
             /\ png = [version |-> 0, rows |-> 0] /\ cache = Empty /\ newer = FALSE
             /\ view = [v \in Viewers |-> NoView]
             /\ conv = [v \in Viewers |-> NoConv]

----------------------------------------------------------------------------
(* The PNG.                                                                *)

Converting == \E v \in Viewers : conv[v].on

\* The tool writes the PNG: whole before anyone looks, unless it is growing.
PngWritten ==
  /\ \/ /\ png.version < MaxVersion
        /\ "growing" \in imageEnv \/ ~Converting
        /\ \E rows \in (IF "growing" \in imageEnv THEN {0, Height} ELSE {Height}) :
             png' = [version |-> png.version + 1, rows |-> rows]
     \/ png.version > 0 /\ png.rows < Height /\ png' = [png EXCEPT !.rows = @ + 1]
  /\ newer' \in (IF "coarse" \in imageEnv THEN {FALSE, newer} ELSE {FALSE})
  /\ UNCHANGED <<imageEnv, cache, view, conv>>

----------------------------------------------------------------------------
(* The viewer.                                                             *)

\* Mutant: whatever .r565 there is counts as valid.
CacheValidAlways == cache.header

CacheValid == newer

\* open: whether there is a file with a header, and what it says.
Opens == cache.header
Opened(of) == [NoView EXCEPT !.state = "ready", !.file = TRUE, !.of = of,
                             !.height = IF cache.header THEN Height ELSE 0]

\* NewImageView: the version the PNG is whole in, if it is, is noted.
View(v) ==
  /\ view[v].state = "none" /\ ~conv[v].on /\ png.version > 0
  /\ LET of == IF png.rows = Height THEN png.version ELSE 0 IN
       IF CacheValid /\ Opens
         THEN view' = [view EXCEPT ![v] = Opened(of)] /\ UNCHANGED conv
         ELSE /\ view' = [view EXCEPT ![v] = [NoView EXCEPT !.state = "converting", !.of = of]]
              /\ conv' = [conv EXCEPT ![v] = [NoConv EXCEPT !.on = TRUE]]
  /\ UNCHANGED <<imageEnv, png, cache, newer>>

\* Key and the draw after it: the pan is clamped to the image.
Pan(v) ==
  /\ view[v].state = "ready"
  /\ \E step \in {-PanStep, PanStep} :
       view' = [view EXCEPT ![v].pan = Max({0, Min({@ + step, MaxPan(view[v].height)})})]
  /\ UNCHANGED <<imageEnv, png, cache, newer, conv>>

\* Esc: the screen is popped and closed; its conversion goes on.
Close(v) == /\ view[v].state # "none" /\ view' = [view EXCEPT ![v] = NoView]
            /\ UNCHANGED <<imageEnv, png, cache, newer, conv>>

----------------------------------------------------------------------------
(* The conversion.                                                         *)

\* The PNG's headers, then os.Create.
Create(v) == /\ conv[v].on /\ conv[v].read = 0 /\ png.rows > 0
             /\ conv' = [conv EXCEPT ![v].read = png.rows]
             /\ cache' = Empty /\ newer' = TRUE
             /\ UNCHANGED <<imageEnv, png, view>>

\* The buffered reader takes what is there of the PNG.
ReadAhead(v) == /\ conv[v].on /\ conv[v].read \in 1 .. png.rows - 1
                /\ conv' = [conv EXCEPT ![v].read = png.rows]
                /\ UNCHANGED <<imageEnv, png, cache, newer, view>>

\* A row that was read reaches the file at its offset; the first brings the
\* header.
WriteRow(v) == /\ conv[v].on /\ conv[v].done < conv[v].read
               /\ conv' = [conv EXCEPT ![v].done = @ + 1]
               /\ cache' = [header |-> cache.header \/ conv[v].done = 0,
                            row |-> [cache.row EXCEPT ![conv[v].done + 1] = png.version]]
               /\ newer' = TRUE
               /\ UNCHANGED <<imageEnv, png, view>>

\* The PNG cannot be read or the file not be created, the PNG ends early, or a
\* write or the flush fails: an error.  Rows in the writer's buffer are lost,
\* those in the file stay.
ConvertFails(v) ==
  /\ conv[v].on
  /\ \/ conv[v].read = 0
     \/ conv[v].read = png.rows /\ png.rows < Height
     \/ "full" \in imageEnv /\ conv[v].done < Height
  /\ conv' = [conv EXCEPT ![v] = NoConv]
  /\ view' = [view EXCEPT ![v].state = IF @ = "none" THEN @ ELSE "error"]
  /\ UNCHANGED <<imageEnv, png, cache, newer>>

\* Mutant: a conversion that went well does not say so to its viewer.
ConvertDoneUnseen(v) == /\ conv[v].on /\ conv[v].done = Height
                        /\ conv' = [conv EXCEPT ![v] = NoConv]
                        /\ UNCHANGED <<imageEnv, png, cache, newer, view>>

\* open again; a viewer that was closed keeps the file it opens now.
ConvertDone(v) ==
  /\ conv[v].on /\ conv[v].done = Height
  /\ conv' = [conv EXCEPT ![v] = NoConv]
  /\ view' = [view EXCEPT ![v] = IF @.state = "none" THEN [@ EXCEPT !.file = Opens]
                                 ELSE IF Opens THEN Opened(@.of)
                                 ELSE [@ EXCEPT !.state = "error"]]
  /\ UNCHANGED <<imageEnv, png, cache, newer>>

\* The process ends in the middle of a conversion, and is started again.
QuitConverting == /\ "quit" \in imageEnv /\ Converting
                  /\ view' = [v \in Viewers |-> NoView]
                  /\ conv' = [v \in Viewers |-> NoConv]
                  /\ UNCHANGED <<imageEnv, png, cache, newer>>

ConvertSteps(v) == Create(v) \/ WriteRow(v) \/ ConvertDone(v)

ImageNext == \/ \E v \in Viewers : \/ View(v) \/ Pan(v) \/ Close(v)
                                   \/ ConvertSteps(v) \/ ReadAhead(v) \/ ConvertFails(v)
             \/ PngWritten \/ QuitConverting

\* A conversion's goroutine runs.
ImageFairness == \A v \in Viewers : WF_imageVars(ConvertSteps(v))

ImageSpec == ImageInit /\ [][ImageNext]_imageVars

----------------------------------------------------------------------------
(* Properties.                                                             *)

Shows(v) == /\ view[v].state = "ready" /\ view[v].height = Height
            /\ \A r \in Rows : cache.row[r] = view[v].of

Current(v) == view[v].state # "none" /\ view[v].of = png.version

\* A viewer that is ready draws every row of the PNG as it was when it was
\* opened, as soon as no conversion runs, whoever else converted, was closed
\* or cut the file under it.  Not so after a partial conversion: see CacheIsWhole.
DrawsThePng ==
  imageEnv = {} /\ ~Converting =>
    \A v \in Viewers : Current(v) /\ view[v].state = "ready" => Shows(v)

\* ... and it gets there: it shows the PNG, or an error (another viewer's
\* Create may cut the file between its last row and its open), or is closed,
\* or there is another PNG.
ComesToShow ==
  \A v \in Viewers : imageEnv = {} /\ Current(v) ~>
    Shows(v) \/ ~Current(v) \/ view[v].state = "error"

\* What NewImageView's comment promises, whatever happened to the process or the
\* disk: "on open it ensures a flat, seekable .r565 exists".
CacheIsWhole ==
  ~Converting => \A v \in Viewers : Current(v) /\ view[v].state = "ready" => Shows(v)
============================================================================
