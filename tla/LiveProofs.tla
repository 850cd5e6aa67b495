---------------------------- MODULE LiveProofs ------------------------------
(***************************************************************************)
(* Proofs about Login, for every set of browsers, every limiter whose      *)
(* lockout is not longer than its window, and all bounds; about            *)
(* ImageCache, for any viewers, heights and versions; about                *)
(* WardriveScreen, for any number of interfaces, captures and togglers;    *)
(* and about MCLive, which has them side by side.                          *)
(***************************************************************************)
EXTENDS MCLive, FiniteSetTheorems, TLAPS

\* The greater and the lesser of two numbers.
LEMMA MaxMinOfTwo ==
  ASSUME NEW a \in Int, NEW b \in Int
  PROVE  /\ Max({a, b}) = IF a >= b THEN a ELSE b
         /\ Min({a, b}) = IF a <= b THEN a ELSE b
<1>1. Max({a, b}) = IF a >= b THEN a ELSE b
  <2>1. \E x \in {a, b} : \A y \in {a, b} : x >= y
    OBVIOUS
  <2>2. Max({a, b}) \in {a, b} /\ \A y \in {a, b} : Max({a, b}) >= y
    BY <2>1 DEF Max
  <2> QED BY <2>2
<1>2. Min({a, b}) = IF a <= b THEN a ELSE b
  <2>1. \E x \in {a, b} : \A y \in {a, b} : x <= y
    OBVIOUS
  <2>2. Min({a, b}) \in {a, b} /\ \A y \in {a, b} : Min({a, b}) <= y
    BY <2>1 DEF Min
  <2> QED BY <2>2
<1> QED BY <1>1, <1>2

----------------------------------------------------------------------------
(***************************************************************************)
(* ImageCache: the viewer draws the PNG.                                   *)
(***************************************************************************)

\* A number clamped to 0 .. m, as the pan is.
LEMMA ClampedBetween ==
  ASSUME NEW x \in Int, NEW top \in Nat, NEW m \in 0 .. top
  PROVE  Max({0, Min({x, m})}) \in 0 .. top
<1> DEFINE low == Min({x, m})
<1>1. low \in Int /\ low <= m
  BY MaxMinOfTwo
<1> HIDE DEF low
<1>2. Max({0, low}) \in 0 .. top
  BY <1>1, MaxMinOfTwo
<1> QED BY <1>2 DEF low

----------------------------------------------------------------------------
(***************************************************************************)
(* Types.                                                                  *)
(***************************************************************************)
LEMMA ImageSizes ==
  /\ Height \in Nat \ {0} /\ Screenful \in Nat \ {0} /\ PanStep \in Nat \ {0}
  /\ MaxVersion \in Nat
  /\ MaxPan(Height) \in Nat /\ MaxPan(0) = 0
<1>1. /\ Height \in Nat \ {0} /\ Screenful \in Nat \ {0} /\ PanStep \in Nat \ {0}
      /\ MaxVersion \in Nat
  BY ImageAssumption
<1>2. ASSUME NEW h \in Nat
      PROVE  MaxPan(h) = IF 0 >= h - Screenful THEN 0 ELSE h - Screenful
  BY <1>1, MaxMinOfTwo DEF MaxPan
<1> QED BY <1>1, <1>2

\* A viewer's state, a conversion's, and what the file holds.
ViewType  == [state : {"none", "converting", "ready", "error"}, file : BOOLEAN,
              height : {0, Height}, pan : 0 .. MaxPan(Height), of : 0 .. MaxVersion]
ConvType  == [on : BOOLEAN, read : 0 .. Height, done : 0 .. Height]
CacheType == [header : BOOLEAN, row : [Rows -> 0 .. MaxVersion]]

ImageTyped ==
  /\ imageEnv \in ImageEnvSets
  /\ png \in [version : 0 .. MaxVersion, rows : 0 .. Height]
  /\ cache \in CacheType /\ newer \in BOOLEAN
  /\ view \in [Viewers -> ViewType]
  /\ \A v \in Viewers : view[v].state = "ready" => view[v].file
  /\ conv \in [Viewers -> ConvType]

\* The types in the form the proofs use are the declared ones.
LEMMA ImageTypedIsTypeOK == ImageTyped <=> ImageTypeOK
BY DEF ImageTyped, ImageTypeOK, ViewType, ConvType, CacheType

\* What the constant values of the module are, and their types.
LEMMA ImageValues ==
  /\ NoView \in ViewType /\ NoView.state = "none" /\ NoView.of = 0
  /\ NoConv \in ConvType /\ ~NoConv.on /\ NoConv.read = 0 /\ NoConv.done = 0
  /\ Empty \in CacheType /\ ~Empty.header /\ \A r \in Rows : Empty.row[r] = 0
BY ImageSizes DEF NoView, NoConv, Empty, ViewType, ConvType, CacheType

\* The states of a viewer that View and ConvertDone set.
LEMMA ViewStates ==
  ASSUME NEW of \in 0 .. MaxVersion
  PROVE  /\ Opened(of) \in ViewType
         /\ Opened(of).state = "ready" /\ Opened(of).file /\ Opened(of).of = of
         /\ Opened(of).height = IF cache.header THEN Height ELSE 0
         /\ [NoView EXCEPT !.state = "converting", !.of = of] \in ViewType
         /\ [NoView EXCEPT !.state = "converting", !.of = of].state = "converting"
         /\ [NoView EXCEPT !.state = "converting", !.of = of].of = of
         /\ [NoConv EXCEPT !.on = TRUE] \in ConvType /\ [NoConv EXCEPT !.on = TRUE].on
         /\ [NoConv EXCEPT !.on = TRUE].read = 0 /\ [NoConv EXCEPT !.on = TRUE].done = 0
<1> DEFINE n1 == [NoView EXCEPT !.state = "ready"]
           n2 == [n1 EXCEPT !.file = TRUE]
           n3 == [n2 EXCEPT !.of = of]
           n4 == [n3 EXCEPT !.height = IF cache.header THEN Height ELSE 0]
           c1 == [NoView EXCEPT !.state = "converting"]
           c2 == [c1 EXCEPT !.of = of]
<1>1. n1 \in ViewType /\ n1.state = "ready"
  BY ImageValues DEF ViewType
<1>2. n2 \in ViewType /\ n2.state = "ready" /\ n2.file
  <2> HIDE DEF n1
  <2> QED BY <1>1 DEF ViewType
<1>3. n3 \in ViewType /\ n3.state = "ready" /\ n3.file /\ n3.of = of
  <2> HIDE DEF n2
  <2> QED BY <1>2 DEF ViewType
<1>4. /\ n4 \in ViewType /\ n4.state = "ready" /\ n4.file /\ n4.of = of
      /\ n4.height = IF cache.header THEN Height ELSE 0
  <2> HIDE DEF n3
  <2> QED BY <1>3 DEF ViewType
<1>5. c1 \in ViewType /\ c1.state = "converting"
  BY ImageValues DEF ViewType
<1>6. c2 \in ViewType /\ c2.state = "converting" /\ c2.of = of
  <2> HIDE DEF c1
  <2> QED BY <1>5 DEF ViewType
<1>7. /\ [NoConv EXCEPT !.on = TRUE] \in ConvType /\ [NoConv EXCEPT !.on = TRUE].on
      /\ [NoConv EXCEPT !.on = TRUE].read = 0 /\ [NoConv EXCEPT !.on = TRUE].done = 0
  BY ImageValues DEF ConvType
<1>8. Opened(of) = n4
  BY Zenon DEF Opened
<1> HIDE DEF n4, c2
<1> QED BY <1>4, <1>6, <1>7, <1>8 DEF c2

\* The types hold at first.
LEMMA ImageTypedInit == ImageInit => ImageTyped
<1> SUFFICES ASSUME ImageInit PROVE ImageTyped
  OBVIOUS
<1>1. [version |-> 0, rows |-> 0] \in [version : 0 .. MaxVersion, rows : 0 .. Height]
  BY ImageSizes
<1> QED BY <1>1, ImageValues DEF ImageInit, ImageTyped

\* Every step keeps the types: the pan stays within the image, a conversion
\* within its rows.
LEMMA ImageTypedStep ==
  ASSUME ImageTyped, [ImageNext]_imageVars
  PROVE  ImageTyped'
<1>p. png.version \in 0 .. MaxVersion /\ png.rows \in 0 .. Height
  BY DEF ImageTyped
<1>v. /\ view \in [Viewers -> ViewType] /\ conv \in [Viewers -> ConvType]
      /\ \A v \in Viewers : view[v].state = "ready" => view[v].file
  BY DEF ImageTyped
<1>1. CASE PngWritten
  <2>1. png' \in [version : 0 .. MaxVersion, rows : 0 .. Height]
    <3>1. CASE \E rows \in {0, Height} :
                 png' = [version |-> png.version + 1, rows |-> rows] /\ png.version < MaxVersion
      BY <1>p, <3>1, ImageSizes
    <3>2. CASE png.rows < Height /\ png' = [png EXCEPT !.rows = @ + 1]
      <4>1. png.rows + 1 \in 0 .. Height
        BY <1>p, <3>2, ImageSizes
      <4> QED BY <3>2, <4>1 DEF ImageTyped
    <3> QED BY <1>1, <3>1, <3>2 DEF PngWritten
  <2>2. newer' \in BOOLEAN
    BY <1>1 DEF PngWritten, ImageTyped
  <2> QED BY <1>1, <2>1, <2>2 DEF PngWritten, ImageTyped
<1>2. ASSUME NEW v \in Viewers, View(v) PROVE ImageTyped'
  <2> DEFINE of == IF png.rows = Height THEN png.version ELSE 0
             waiting == [NoView EXCEPT !.state = "converting", !.of = of]
             starting == [NoConv EXCEPT !.on = TRUE]
  <2>1. of \in 0 .. MaxVersion
    BY <1>p, ImageSizes
  <2>2. \/ view' = [view EXCEPT ![v] = Opened(of)] /\ conv' = conv
        \/ view' = [view EXCEPT ![v] = waiting] /\ conv' = [conv EXCEPT ![v] = starting]
    BY <1>2 DEF View
  <2> HIDE DEF of
  <2>3. /\ Opened(of) \in ViewType /\ Opened(of).file
        /\ waiting \in ViewType /\ waiting.state = "converting" /\ starting \in ConvType
    BY <2>1, ViewStates
  <2> HIDE DEF waiting, starting
  <2>4. /\ view' \in [Viewers -> ViewType] /\ conv' \in [Viewers -> ConvType]
        /\ \A w \in Viewers : view'[w].state = "ready" => view'[w].file
    BY <1>v, <2>2, <2>3
  <2> QED BY <1>2, <2>4 DEF View, ImageTyped
<1>3. ASSUME NEW v \in Viewers, Pan(v) PROVE ImageTyped'
  <2>1. PICK step \in {-PanStep, PanStep} :
          view' = [view EXCEPT ![v].pan = Max({0, Min({@ + step, MaxPan(view[v].height)})})]
    BY <1>3 DEF Pan
  <2> DEFINE pan == Max({0, Min({view[v].pan + step, MaxPan(view[v].height)})})
  <2>2. view[v].pan + step \in Int /\ view[v].height \in {0, Height}
    BY <1>v, ImageSizes DEF ViewType
  <2>3. MaxPan(view[v].height) \in 0 .. MaxPan(Height)
    BY <2>2, ImageSizes
  <2>5. pan \in 0 .. MaxPan(Height)
    BY <2>2, <2>3, ImageSizes, ClampedBetween
  <2>6. view' = [view EXCEPT ![v].pan = pan]
    BY <2>1
  <2> HIDE DEF pan
  <2>7. view' \in [Viewers -> ViewType]
    BY <1>v, <2>5, <2>6 DEF ViewType
  <2>8. \A w \in Viewers : view'[w].state = view[w].state /\ view'[w].file = view[w].file
    BY <1>v, <2>6 DEF ViewType
  <2> QED BY <1>3, <1>v, <2>7, <2>8 DEF Pan, ImageTyped
<1>4. ASSUME NEW v \in Viewers, Close(v) PROVE ImageTyped'
  <2>1. /\ view' \in [Viewers -> ViewType]
        /\ \A w \in Viewers : view'[w].state = "ready" => view'[w].file
    BY <1>4, <1>v, ImageValues DEF Close
  <2> QED BY <1>4, <2>1 DEF Close, ImageTyped
<1>5. ASSUME NEW v \in Viewers, Create(v) \/ ReadAhead(v) PROVE ImageTyped'
  <2>1. conv' = [conv EXCEPT ![v].read = png.rows]
    BY <1>5 DEF Create, ReadAhead
  <2>2. conv' \in [Viewers -> ConvType]
    BY <1>p, <1>v, <2>1 DEF ConvType
  <2>3. cache' \in CacheType /\ newer' \in BOOLEAN
    BY <1>5, ImageValues DEF Create, ReadAhead, ImageTyped
  <2> QED BY <1>5, <2>2, <2>3 DEF Create, ReadAhead, ImageTyped
<1>6. ASSUME NEW v \in Viewers, WriteRow(v) PROVE ImageTyped'
  <2>1. conv[v].done + 1 \in 0 .. Height
    BY <1>6, <1>v, ImageSizes DEF WriteRow, ConvType
  <2>2. conv' = [conv EXCEPT ![v].done = conv[v].done + 1]
    BY <1>6 DEF WriteRow
  <2>3. conv' \in [Viewers -> ConvType]
    BY <1>v, <2>1, <2>2 DEF ConvType
  <2>4. [cache.row EXCEPT ![conv[v].done + 1] = png.version] \in [Rows -> 0 .. MaxVersion]
    BY <1>p DEF ImageTyped, CacheType
  <2>5. cache' \in CacheType
    BY <1>6, <2>4 DEF WriteRow, CacheType
  <2> QED BY <1>6, <2>3, <2>5 DEF WriteRow, ImageTyped
<1>7. ASSUME NEW v \in Viewers, ConvertFails(v) PROVE ImageTyped'
  <2> DEFINE s == IF view[v].state = "none" THEN view[v].state ELSE "error"
  <2>1. view' = [view EXCEPT ![v].state = s] /\ conv' = [conv EXCEPT ![v] = NoConv]
    BY <1>7 DEF ConvertFails
  <2>2. s \in {"none", "error"}
    OBVIOUS
  <2> HIDE DEF s
  <2>3. view' \in [Viewers -> ViewType] /\ conv' \in [Viewers -> ConvType]
    BY <1>v, <2>1, <2>2, ImageValues DEF ViewType
  <2>4. \A w \in Viewers : view'[w].state = "ready" => view'[w].file
    BY <1>v, <2>1, <2>2 DEF ViewType
  <2> QED BY <1>7, <2>3, <2>4 DEF ConvertFails, ImageTyped
<1>8. ASSUME NEW v \in Viewers, ConvertDone(v) PROVE ImageTyped'
  <2> DEFINE closed == [view[v] EXCEPT !.file = Opens]
             failed == [view[v] EXCEPT !.state = "error"]
  <2>1. /\ \/ view' = [view EXCEPT ![v] = closed] /\ view[v].state = "none"
           \/ view' = [view EXCEPT ![v] = Opened(view[v].of)]
           \/ view' = [view EXCEPT ![v] = failed]
        /\ conv' = [conv EXCEPT ![v] = NoConv]
    BY <1>8 DEF ConvertDone
  <2>2. Opened(view[v].of) \in ViewType /\ Opened(view[v].of).file
    <3>1. view[v].of \in 0 .. MaxVersion
      BY <1>v DEF ViewType
    <3> QED BY <3>1, ViewStates
  <2>3. Opens \in BOOLEAN
    BY DEF Opens, ImageTyped, CacheType
  <2>4. /\ closed \in ViewType /\ closed.state = view[v].state
        /\ failed \in ViewType /\ failed.state = "error"
    BY <1>v, <2>3 DEF ViewType
  <2> HIDE DEF closed, failed
  <2>5. /\ view' \in [Viewers -> ViewType] /\ conv' \in [Viewers -> ConvType]
        /\ \A w \in Viewers : view'[w].state = "ready" => view'[w].file
    BY <1>v, <2>1, <2>2, <2>4, ImageValues
  <2> QED BY <1>8, <2>5 DEF ConvertDone, ImageTyped
<1>9. CASE QuitConverting
  BY <1>9, ImageValues DEF QuitConverting, ImageTyped
<1>10. CASE UNCHANGED imageVars
  BY <1>10 DEF imageVars, ImageTyped
<1> QED
  BY <1>1, <1>2, <1>3, <1>4, <1>5, <1>6, <1>7, <1>8, <1>9, <1>10
     DEF ImageNext, ConvertSteps

\* The types of the image viewer hold in every state.
THEOREM ImagesTyped == ImageSpec => []ImageTypeOK
<1>1. ImageTyped /\ [ImageNext]_imageVars => ImageTyped'
  BY ImageTypedStep
<1> QED BY <1>1, ImageTypedInit, ImageTypedIsTypeOK, PTL DEF ImageSpec

----------------------------------------------------------------------------
(***************************************************************************)
(* The picture, where no PNG grows and no process ends: whoever cuts the   *)
(* file writes all of it again, and until then somebody converts.          *)
(***************************************************************************)
\* The conversion of w has cut the file and will still write row r.
Unwritten(r, w) == conv[w].on /\ conv[w].read > 0 /\ conv[w].done < r

PngWhole == png.rows = IF png.version = 0 THEN 0 ELSE Height

ConvWhole(v) ==
  /\ conv[v].on => png.version > 0
  /\ ~conv[v].on => conv[v].read = 0
  /\ conv[v].read \in {0, Height} /\ conv[v].done <= conv[v].read
  /\ conv[v].read > 0 => newer

RowWhole(r) == cache.row[r] = png.version \/ \E w \in Viewers : Unwritten(r, w)
HeaderWhole == cache.header \/ \E w \in Viewers : Unwritten(1, w)

ViewWhole(v) ==
  /\ view[v].of <= png.version /\ (view[v].state = "none" => view[v].of = 0)
  /\ view[v].state = "ready" => /\ view[v].height = Height
                                /\ view[v].of = png.version => newer

Whole ==
  /\ PngWhole
  /\ \A v \in Viewers : ConvWhole(v) /\ ViewWhole(v)
  /\ newer => HeaderWhole /\ \A r \in Rows : RowWhole(r)

Calm == \A h \in Hazards : h \notin imageEnv

\* A new PNG is whole, nobody converts the old one, and no file is new enough.
LEMMA WholePngWritten ==
  ASSUME ImageTyped, Whole, Calm, PngWritten
  PROVE  Whole'
<1>1. png.version \in Nat /\ png.rows \in Nat
  BY DEF ImageTyped
<1>2. ~(png.version > 0 /\ png.rows < Height)
  BY <1>1, ImageSizes DEF Whole, PngWhole
<1>3. /\ png' = [version |-> png.version + 1, rows |-> Height]
      /\ ~Converting /\ ~newer' /\ conv' = conv /\ view' = view
  BY <1>2 DEF PngWritten, Calm, Hazards
<1>4. png'.version = png.version + 1 /\ png'.rows = Height
  BY <1>3
<1>5. PngWhole'
  BY <1>1, <1>4 DEF PngWhole
<1>6. ASSUME NEW v \in Viewers PROVE ConvWhole(v)' /\ ViewWhole(v)'
  <2>1. ConvWhole(v) /\ ViewWhole(v) /\ ~conv[v].on
    BY <1>3 DEF Whole, Converting
  <2>2. conv[v].read = 0 /\ conv[v].done <= conv[v].read
    BY <2>1 DEF ConvWhole
  <2>3. ConvWhole(v)'
    BY <1>3, <2>1, <2>2 DEF ConvWhole
  <2>4. view[v].of \in Nat /\ view[v].of <= png.version
    BY <2>1 DEF ImageTyped, ViewType, ViewWhole
  <2>5. ViewWhole(v)'
    BY <1>1, <1>3, <1>4, <2>1, <2>4 DEF ViewWhole
  <2> QED BY <2>3, <2>5
<1> QED BY <1>3, <1>5, <1>6 DEF Whole

\* The steps that leave the PNG and the file alone: what they must keep.
LEMMA WholeKept ==
  ASSUME Whole, UNCHANGED <<png, cache, newer>>,
         \A v \in Viewers : ConvWhole(v)' /\ ViewWhole(v)',
         \A w \in Viewers : Unwritten(1, w) => Unwritten(1, w)',
         \A r \in Rows, w \in Viewers : Unwritten(r, w) => Unwritten(r, w)'
  PROVE  Whole'
<1>1. PngWhole' /\ newer' = newer
  BY DEF Whole, PngWhole
<1>2. ASSUME newer PROVE HeaderWhole' /\ \A r \in Rows : RowWhole(r)'
  BY <1>2 DEF Whole, HeaderWhole, RowWhole
<1> QED BY <1>1, <1>2 DEF Whole

\* A viewer is opened: on the file that is there, or with a conversion.
LEMMA WholeView ==
  ASSUME ImageTyped, Whole, NEW v \in Viewers, View(v)
  PROVE  Whole'
<1> DEFINE of == IF png.rows = Height THEN png.version ELSE 0
           waiting == [NoView EXCEPT !.state = "converting", !.of = of]
           starting == [NoConv EXCEPT !.on = TRUE]
<1>1. of \in 0 .. MaxVersion /\ of <= png.version
  BY ImageSizes DEF ImageTyped
<1>2. /\ \/ newer /\ cache.header /\ view' = [view EXCEPT ![v] = Opened(of)] /\ conv' = conv
         \/ view' = [view EXCEPT ![v] = waiting] /\ conv' = [conv EXCEPT ![v] = starting]
      /\ UNCHANGED <<png, cache, newer>> /\ ~conv[v].on /\ png.version > 0
  BY DEF View, CacheValid, Opens
<1> HIDE DEF of
<1>3. /\ Opened(of).state = "ready" /\ Opened(of).of = of
      /\ Opened(of).height = IF cache.header THEN Height ELSE 0
      /\ waiting.state = "converting" /\ waiting.of = of
      /\ starting.on /\ starting.read = 0 /\ starting.done = 0
  BY <1>1, ViewStates
<1> HIDE DEF waiting, starting
<1>4. view \in [Viewers -> ViewType] /\ conv \in [Viewers -> ConvType]
  BY DEF ImageTyped
<1>5. ASSUME NEW w \in Viewers PROVE ViewWhole(w)'
  <2>1. CASE w = v
    BY <1>1, <1>2, <1>3, <1>4, <2>1 DEF ViewWhole
  <2>2. CASE w # v
    <3>1. view'[w] = view[w] /\ ViewWhole(w)
      BY <1>2, <1>4, <2>2 DEF Whole
    <3> QED BY <1>2, <3>1 DEF ViewWhole
  <2> QED BY <2>1, <2>2
<1>6. ASSUME NEW w \in Viewers PROVE ConvWhole(w)'
  <2>1. CASE conv'[w] = conv[w]
    BY <1>2, <2>1 DEF Whole, ConvWhole
  <2>2. CASE conv'[w] # conv[w]
    <3>1. conv'[w] = starting
      BY <1>2, <1>4, <2>2
    <3> QED BY <1>2, <1>3, <3>1 DEF ConvWhole
  <2> QED BY <2>1, <2>2
<1>7. ASSUME NEW w \in Viewers, conv[w].on PROVE conv'[w] = conv[w]
  BY <1>2, <1>4, <1>7
<1>8. /\ \A w \in Viewers : Unwritten(1, w) => Unwritten(1, w)'
      /\ \A r \in Rows, w \in Viewers : Unwritten(r, w) => Unwritten(r, w)'
  BY <1>7 DEF Unwritten
<1> QED BY <1>2, <1>5, <1>6, <1>8, WholeKept

\* Keys move the picture, and close it.
LEMMA WholePanClose ==
  ASSUME ImageTyped, Whole, NEW v \in Viewers, Pan(v) \/ Close(v)
  PROVE  Whole'
<1>1. UNCHANGED <<png, cache, newer, conv>>
  BY DEF Pan, Close
<1>2. ASSUME NEW w \in Viewers
      PROVE  \/ view'[w].state = "none" /\ view'[w].of = 0
             \/ /\ view'[w].state = view[w].state /\ view'[w].of = view[w].of
                /\ view'[w].height = view[w].height
  <2>1. CASE Close(v)
    BY <2>1, ImageValues DEF Close, ImageTyped
  <2>2. CASE Pan(v)
    BY <2>2 DEF Pan, ImageTyped, ViewType
  <2> QED BY <2>1, <2>2
<1>3. png.version \in Nat
  BY DEF ImageTyped
<1>4. ASSUME NEW w \in Viewers PROVE ViewWhole(w)'
  <2>1. ViewWhole(w)
    BY DEF Whole
  <2> QED BY <1>1, <1>2, <1>3, <2>1 DEF ViewWhole
<1>5. ASSUME NEW w \in Viewers PROVE ConvWhole(w)'
  BY <1>1 DEF Whole, ConvWhole
<1>6. /\ \A w \in Viewers : Unwritten(1, w) => Unwritten(1, w)'
      /\ \A r \in Rows, w \in Viewers : Unwritten(r, w) => Unwritten(r, w)'
  BY <1>1 DEF Unwritten
<1> QED BY <1>1, <1>4, <1>5, <1>6, WholeKept

\* A conversion cuts the file: every row is now its own to write.
LEMMA WholeCreate ==
  ASSUME ImageTyped, Whole, NEW v \in Viewers, Create(v)
  PROVE  Whole'
<1>1. /\ png \in [version : 0 .. MaxVersion, rows : 0 .. Height]
      /\ conv \in [Viewers -> ConvType]
  BY DEF ImageTyped
<1>2. ConvWhole(v) /\ conv[v].on /\ conv[v].read = 0
  BY DEF Create, Whole
<1>3. png.rows = Height /\ conv[v].done = 0
  BY <1>1, <1>2, ImageSizes DEF Create, Whole, PngWhole, ConvWhole, ConvType
<1>4. /\ conv' = [conv EXCEPT ![v].read = Height] /\ newer' /\ UNCHANGED <<png, view>>
  BY <1>3 DEF Create
<1>5. conv'[v].on /\ conv'[v].read = Height /\ conv'[v].done = 0
  BY <1>1, <1>2, <1>3, <1>4 DEF ConvType
<1>6. ASSUME NEW w \in Viewers PROVE ConvWhole(w)'
  <2>1. CASE w = v
    BY <1>2, <1>4, <1>5, <2>1, ImageSizes DEF ConvWhole
  <2>2. CASE w # v
    <3>1. conv'[w] = conv[w] /\ ConvWhole(w)
      BY <1>1, <1>4, <2>2 DEF Whole
    <3> QED BY <1>4, <3>1 DEF ConvWhole
  <2> QED BY <2>1, <2>2
<1>7. ASSUME NEW w \in Viewers PROVE ViewWhole(w)'
  BY <1>4 DEF Whole, ViewWhole
<1>8. ASSUME NEW r \in Rows PROVE Unwritten(r, v)'
  BY <1>5, ImageSizes DEF Unwritten, Rows
<1>9. HeaderWhole' /\ \A r \in Rows : RowWhole(r)'
  BY <1>8, ImageSizes DEF HeaderWhole, RowWhole, Rows
<1>10. PngWhole'
  BY <1>4 DEF Whole, PngWhole
<1> QED BY <1>6, <1>7, <1>9, <1>10 DEF Whole

\* A conversion writes its next row, as the PNG has it.
LEMMA WholeWriteRow ==
  ASSUME ImageTyped, Whole, NEW v \in Viewers, WriteRow(v)
  PROVE  Whole'
<1> DEFINE d == conv[v].done
<1>1. /\ conv \in [Viewers -> ConvType] /\ cache.row \in [Rows -> 0 .. MaxVersion]
      /\ d \in Nat /\ conv[v].read \in Nat
  BY DEF ImageTyped, CacheType, ConvType
<1>2. ConvWhole(v) /\ conv[v].on /\ d < conv[v].read
  BY DEF Whole, WriteRow
<1>3. newer /\ d + 1 \in Rows
  BY <1>1, <1>2, ImageSizes DEF ConvWhole, Rows
<1>4. /\ conv' = [conv EXCEPT ![v].done = d + 1]
      /\ cache'.header = (cache.header \/ d = 0)
      /\ cache'.row = [cache.row EXCEPT ![d + 1] = png.version]
      /\ newer' /\ UNCHANGED <<png, view>>
  BY DEF WriteRow
<1>5. /\ conv'[v].on /\ conv'[v].read = conv[v].read /\ conv'[v].done = d + 1
      /\ \A w \in Viewers \ {v} : conv'[w] = conv[w]
  BY <1>1, <1>2, <1>4 DEF ConvType
<1> HIDE DEF d
<1>6. ASSUME NEW w \in Viewers PROVE ConvWhole(w)'
  <2>1. CASE w = v
    BY <1>1, <1>2, <1>4, <1>5, <2>1 DEF ConvWhole
  <2>2. CASE w # v
    <3>1. conv'[w] = conv[w] /\ ConvWhole(w)
      BY <1>5, <2>2 DEF Whole
    <3> QED BY <1>4, <3>1 DEF ConvWhole
  <2> QED BY <2>1, <2>2
<1>7. ASSUME NEW w \in Viewers PROVE ViewWhole(w)'
  BY <1>4 DEF Whole, ViewWhole
<1>8. ASSUME NEW r \in Rows PROVE RowWhole(r)'
  <2>1. CASE r = d + 1
    BY <1>1, <1>4, <2>1 DEF RowWhole
  <2>2. CASE r # d + 1
    <3>1. cache'.row[r] = cache.row[r] /\ RowWhole(r)
      BY <1>1, <1>3, <1>4, <2>2 DEF Whole
    <3>2. ASSUME NEW w \in Viewers, Unwritten(r, w) PROVE Unwritten(r, w)'
      <4>1. CASE w = v
        <5>1. d < r
          BY <3>2, <4>1 DEF Unwritten, d
        <5> QED BY <1>1, <1>2, <1>5, <2>2, <4>1, <5>1 DEF Unwritten, Rows
      <4>2. CASE w # v
        BY <1>5, <3>2, <4>2 DEF Unwritten
      <4> QED BY <4>1, <4>2
    <3> QED BY <1>4, <3>1, <3>2 DEF RowWhole
  <2> QED BY <2>1, <2>2
<1>9. HeaderWhole'
  <2>1. CASE cache'.header
    BY <2>1 DEF HeaderWhole
  <2>2. CASE ~cache'.header
    <3>1. ~cache.header /\ d # 0
      BY <1>4, <2>2
    <3>2. PICK w \in Viewers : Unwritten(1, w)
      BY <1>3, <3>1 DEF Whole, HeaderWhole
    <3>3. w # v
      BY <1>1, <3>1, <3>2 DEF Unwritten, d
    <3>4. Unwritten(1, w)'
      BY <1>5, <3>2, <3>3 DEF Unwritten
    <3> QED BY <3>4 DEF HeaderWhole
  <2> QED BY <2>1, <2>2
<1>10. PngWhole'
  BY <1>4 DEF Whole, PngWhole
<1> QED BY <1>6, <1>7, <1>8, <1>9, <1>10 DEF Whole

\* A conversion is through: it owed no row, and its viewer opens the file.
LEMMA WholeConvertDone ==
  ASSUME ImageTyped, Whole, NEW v \in Viewers, ConvertDone(v)
  PROVE  Whole'
<1>1. /\ view \in [Viewers -> ViewType] /\ conv \in [Viewers -> ConvType]
      /\ view[v].of \in 0 .. MaxVersion
  BY DEF ImageTyped, ViewType
<1>2. /\ conv[v].on /\ conv[v].done = Height /\ ConvWhole(v) /\ ViewWhole(v)
      /\ conv' = [conv EXCEPT ![v] = NoConv] /\ UNCHANGED <<png, cache, newer>>
  BY DEF ConvertDone, Whole
<1>3. newer
  <2>1. conv[v].read \in Nat /\ Height \in Nat \ {0}
    BY <1>1, ImageSizes DEF ConvType
  <2> QED BY <1>2, <2>1 DEF ConvWhole
<1>4. \/ view'[v].state \in {"none", "error"} /\ view'[v].of = view[v].of
         /\ (view'[v].state = "none" => view[v].state = "none")
      \/ view'[v].state = "ready" /\ view'[v].of = view[v].of /\ view'[v].height = Height
  <2>1. CASE view[v].state = "none"
    <3>1. view' = [view EXCEPT ![v] = [view[v] EXCEPT !.file = Opens]]
      BY <2>1 DEF ConvertDone
    <3> QED BY <1>1, <2>1, <3>1 DEF ViewType
  <2>2. CASE view[v].state # "none" /\ Opens
    <3>1. view' = [view EXCEPT ![v] = Opened(view[v].of)]
      BY <2>2 DEF ConvertDone
    <3> QED BY <1>1, <2>2, <3>1, ViewStates DEF Opens
  <2>3. CASE view[v].state # "none" /\ ~Opens
    <3>1. view' = [view EXCEPT ![v] = [view[v] EXCEPT !.state = "error"]]
      BY <2>3 DEF ConvertDone
    <3> QED BY <1>1, <3>1 DEF ViewType
  <2> QED BY <2>1, <2>2, <2>3
<1>5. \A w \in Viewers \ {v} : view'[w] = view[w] /\ conv'[w] = conv[w]
  BY <1>1, <1>2 DEF ConvertDone
<1>6. ASSUME NEW w \in Viewers PROVE ViewWhole(w)'
  <2>1. CASE w = v
    BY <1>2, <1>3, <1>4, <2>1 DEF ViewWhole
  <2>2. CASE w # v
    BY <1>2, <1>5, <2>2 DEF Whole, ViewWhole
  <2> QED BY <2>1, <2>2
<1>7. ASSUME NEW w \in Viewers PROVE ConvWhole(w)'
  <2>1. CASE w = v
    <3>1. conv'[v] = NoConv
      BY <1>1, <1>2
    <3> QED BY <2>1, <3>1, ImageValues DEF ConvWhole
  <2>2. CASE w # v
    BY <1>2, <1>5, <2>2 DEF Whole, ConvWhole
  <2> QED BY <2>1, <2>2
<1>8. ASSUME NEW r \in 1 .. Height, NEW w \in Viewers, Unwritten(r, w)
      PROVE  Unwritten(r, w)'
  <2>1. w # v
    BY <1>2, <1>8, ImageSizes DEF Unwritten
  <2> QED BY <1>5, <1>8, <2>1 DEF Unwritten
<1>9. /\ \A w \in Viewers : Unwritten(1, w) => Unwritten(1, w)'
      /\ \A r \in Rows, w \in Viewers : Unwritten(r, w) => Unwritten(r, w)'
  BY <1>8, ImageSizes DEF Rows
<1> QED BY <1>2, <1>6, <1>7, <1>9, WholeKept

\* A conversion that fails has not cut the file, while writes do not fail and
\* no PNG grows.
LEMMA WholeConvertFails ==
  ASSUME ImageTyped, Whole, Calm, NEW v \in Viewers, ConvertFails(v)
  PROVE  Whole'
<1>1. view \in [Viewers -> ViewType] /\ conv \in [Viewers -> ConvType]
  BY DEF ImageTyped
<1>2. ConvWhole(v) /\ conv[v].on /\ conv[v].read \in {0, Height} /\ png.rows \in {0, Height}
  BY DEF Whole, ConvWhole, PngWhole, ConvertFails
<1>3. conv[v].read = 0
  <2>1. png.rows = Height
    BY <1>2 DEF Whole, ConvWhole, PngWhole, ImageTyped
  <2> QED BY <2>1, ImageSizes DEF ConvertFails, Calm, Hazards
<1> DEFINE s == IF view[v].state = "none" THEN "none" ELSE "error"
<1>4. /\ view' = [view EXCEPT ![v].state = s] /\ conv' = [conv EXCEPT ![v] = NoConv]
      /\ UNCHANGED <<png, cache, newer>>
  BY DEF ConvertFails
<1>5. s \in {"none", "error"} /\ (s = "none" => view[v].state = "none")
  OBVIOUS
<1> HIDE DEF s
<1>6. /\ view'[v].state = s /\ view'[v].of = view[v].of /\ conv'[v] = NoConv
      /\ \A w \in Viewers \ {v} : view'[w] = view[w] /\ conv'[w] = conv[w]
  BY <1>1, <1>4 DEF ViewType
<1>7. ASSUME NEW w \in Viewers PROVE ConvWhole(w)' /\ ViewWhole(w)'
  <2>1. ConvWhole(w) /\ ViewWhole(w)
    BY DEF Whole
  <2>2. CASE w = v
    BY <1>4, <1>5, <1>6, <2>1, <2>2, ImageValues DEF ConvWhole, ViewWhole
  <2>3. CASE w # v
    <3>1. view'[w] = view[w] /\ conv'[w] = conv[w]
      BY <1>6, <2>3
    <3> QED BY <1>4, <2>1, <3>1 DEF ConvWhole, ViewWhole
  <2> QED BY <2>2, <2>3
<1>8. ASSUME NEW r \in 1 .. Height, NEW w \in Viewers, Unwritten(r, w)
      PROVE  Unwritten(r, w)'
  <2>1. w # v
    BY <1>3, <1>8 DEF Unwritten
  <2> QED BY <1>6, <1>8, <2>1 DEF Unwritten
<1>9. /\ \A w \in Viewers : Unwritten(1, w) => Unwritten(1, w)'
      /\ \A r \in Rows, w \in Viewers : Unwritten(r, w) => Unwritten(r, w)'
  BY <1>8, ImageSizes DEF Rows
<1> QED BY <1>4, <1>7, <1>9, WholeKept

\* The steps there are not while no PNG grows and no process ends.
LEMMA NoneInTheCalm ==
  ASSUME ImageTyped, Whole, Calm
  PROVE  /\ \A v \in Viewers : ~ReadAhead(v)
         /\ ~QuitConverting
<1>1. ASSUME NEW v \in Viewers PROVE ~ReadAhead(v)
  <2>1. conv[v].read \in {0, Height} /\ png.rows \in {0, Height}
    BY DEF Whole, ConvWhole, PngWhole
  <2> QED BY <2>1, ImageSizes DEF ReadAhead
<1> QED BY <1>1 DEF QuitConverting, Calm, Hazards

\* All steps together.
LEMMA WholeStep ==
  ASSUME ImageTyped, Whole, Calm, [ImageNext]_imageVars
  PROVE  Whole'
<1>1. CASE UNCHANGED imageVars
  BY <1>1 DEF imageVars, Whole, PngWhole, ConvWhole, ViewWhole, HeaderWhole, RowWhole, Unwritten
<1> QED
  BY <1>1, WholePngWritten, WholeView, WholePanClose, WholeCreate, WholeWriteRow,
     WholeConvertDone, WholeConvertFails, NoneInTheCalm DEF ImageNext, ConvertSteps

\* A viewer that is ready draws every row of the PNG it was opened on, as soon
\* as no conversion runs: NewImageView, the goroutine it starts and PNGToR565,
\* for any number of viewers and any size of image.
THEOREM ReadyViewersDrawThePng == ImageSpec => []DrawsThePng
<1> DEFINE Inv == ImageTyped /\ (Calm => Whole)
<1>1. ImageInit => Inv
  <2> SUFFICES ASSUME ImageInit PROVE ImageTyped /\ Whole
    OBVIOUS
  <2>1. PngWhole /\ ~newer
    BY DEF ImageInit, PngWhole
  <2>2. ASSUME NEW v \in Viewers PROVE ConvWhole(v) /\ ViewWhole(v)
    BY ImageValues DEF ImageInit, ConvWhole, ViewWhole
  <2> QED BY <2>1, <2>2, ImageTypedInit DEF Whole
<1>2. Inv /\ [ImageNext]_imageVars => Inv'
  <2> SUFFICES ASSUME Inv, [ImageNext]_imageVars PROVE Inv'
    OBVIOUS
  <2>1. imageEnv' = imageEnv
    BY DEF ImageNext, imageVars, ConvertSteps, PngWritten, QuitConverting, View, Pan, Close,
           Create, WriteRow, ConvertDone, ReadAhead, ConvertFails
  <2>2. Calm' <=> Calm
    BY <2>1 DEF Calm
  <2> QED BY <2>2, ImageTypedStep, WholeStep
<1>3. Inv => DrawsThePng
  <2> SUFFICES ASSUME Inv, imageEnv = {}, ~Converting,
                      NEW v \in Viewers, Current(v), view[v].state = "ready"
               PROVE  Shows(v)
    BY DEF DrawsThePng
  <2>1. Calm
    BY DEF Calm
  <2>2. Whole /\ ViewWhole(v) /\ view[v].of = png.version
    BY <2>1 DEF Whole, Current
  <2>3. view[v].height = Height /\ newer
    BY <2>2 DEF ViewWhole
  <2>4. \A r \in Rows : cache.row[r] = png.version
    BY <2>2, <2>3 DEF Whole, RowWhole, Unwritten, Converting
  <2> QED BY <2>2, <2>3, <2>4 DEF Shows
<1> QED BY <1>1, <1>2, <1>3, PTL DEF ImageSpec

----------------------------------------------------------------------------
(***************************************************************************)
(* Login: sessions and the limiter.                                        *)
(***************************************************************************)
USE DEF loginVars, worker, histories

\* What the assumptions say of the constants.
LEMMA Numbers ==
  /\ FailMax \in Nat /\ FailMax > 0 /\ Window \in Nat /\ Lockout \in Nat /\ Lockout <= Window
  /\ VerifyTimeout \in Nat /\ TTL \in Nat /\ MaxTime \in Nat /\ MaxRestarts \in Nat
BY LimiterAssumption, TimesAssumption

Buckets == [fails : 0 .. FailMax - 1, first : Times, lockedTo : Times]

\* A sequence stays one when it grows.
LEMMA SeqGrows ==
  ASSUME NEW S, NEW s \in Seq(S), NEW x \in S
  PROVE  <<>> \in Seq(S) /\ Append(s, x) \in Seq(S)
OBVIOUS

\* An address without failures has a bucket with none.
LEMMA NoBucketType == NoBucket \in Buckets
BY Numbers DEF NoBucket, Buckets, Times

\* What Fail leaves is a bucket again.
LEMMA FailedType ==
  ASSUME LoginTypeOK
  PROVE  Failed \in Buckets /\ Failed.first <= now
<1>1. now \in Times /\ now + Lockout \in Times /\ now \in Int
  BY Numbers DEF LoginTypeOK, Times
<1>2. Counting \in Buckets /\ Counting.first <= now
  <2>1. CASE now - bucket.first > Window
    <3>1. Counting = [NoBucket EXCEPT !.first = now]
      BY <2>1 DEF Counting
    <3> QED
      BY <1>1, <3>1, NoBucketType DEF Buckets
  <2>2. CASE ~(now - bucket.first > Window)
    BY <2>2 DEF Counting, LoginTypeOK, Buckets
  <2> QED
    BY <2>1, <2>2
<1>3. CASE Counting.fails + 1 >= FailMax
  <2>1. Failed = [fails |-> 0, first |-> now, lockedTo |-> now + Lockout]
    BY <1>3 DEF Failed
  <2> QED
    BY <1>1, <2>1, Numbers DEF Buckets
<1>4. CASE ~(Counting.fails + 1 >= FailMax)
  <2>1. Failed = [Counting EXCEPT !.fails = @ + 1]
    BY <1>4 DEF Failed
  <2>2. Counting.fails + 1 \in 0 .. FailMax - 1
    BY <1>2, <1>4, Numbers DEF Buckets
  <2> QED
    BY <1>2, <2>1, <2>2 DEF Buckets
<1> QED
  BY <1>3, <1>4

\* Every reachable state of the login has its types: in particular a bucket
\* with FailMax failures is locked and starts anew.
THEOREM LoginTypeCorrect == LoginSpec => []LoginTypeOK
<1> USE Numbers, NoBucketType
<1>1. LoginInit => LoginTypeOK
  BY DEF LoginInit, LoginTypeOK, NoBucket, Buckets, Handlings, Times, Tokens
<1>2. LoginTypeOK /\ [LoginNext]_loginVars => LoginTypeOK'
  <2> SUFFICES ASSUME LoginTypeOK, [LoginNext]_loginVars PROVE LoginTypeOK'
    OBVIOUS
  <2> USE DEF LoginTypeOK, Handlings, Times, Tokens, Buckets
  <2>1. ASSUME NEW b \in Browsers, Post(b) PROVE LoginTypeOK'
    BY <2>1 DEF Post, Goes
  <2>2. ASSUME NEW b \in Browsers, Dial(b) PROVE LoginTypeOK'
    <3>1. handling' \in [Browsers -> Handlings] /\ genuine' \in [Browsers -> BOOLEAN]
      BY <2>2 DEF Dial, Goes, HangsUp
    <3>2. deadline' \in [Browsers -> 0 .. MaxTime + VerifyTimeout]
      <4>1. now + VerifyTimeout \in 0 .. MaxTime + VerifyTimeout
        OBVIOUS
      <4>2. CASE deadline' = [deadline EXCEPT ![b] = now + VerifyTimeout]
        BY <4>1, <4>2
      <4>3. CASE deadline' = [deadline EXCEPT ![b] = 0]
        BY <4>3
      <4> QED
        BY <2>2, <4>2, <4>3 DEF Dial, HangsUp
    <3> QED
      BY <2>2, <3>1, <3>2 DEF Dial
  <2>3. ASSUME NEW b \in Browsers, Answer(b) PROVE LoginTypeOK'
    <3>1. handling' \in [Browsers -> Handlings] /\ genuine' \in [Browsers -> BOOLEAN]
      BY <2>3 DEF Answer, Goes, HangsUp, Verdicts
    <3>2. deadline' \in [Browsers -> 0 .. MaxTime + VerifyTimeout]
      BY <2>3 DEF Answer, HangsUp
    <3>3. vouched' \subseteq Browsers
      BY <2>3 DEF Answer
    <3> QED
      BY <2>3, <3>1, <3>2, <3>3 DEF Answer
  <2>4. ASSUME NEW b \in Browsers, GiveUp(b) PROVE LoginTypeOK'
    <3>1. handling' \in [Browsers -> Handlings] /\ genuine' \in [Browsers -> BOOLEAN]
      BY <2>4 DEF GiveUp, Goes, HangsUp
    <3>2. deadline' \in [Browsers -> 0 .. MaxTime + VerifyTimeout]
      BY <2>4 DEF GiveUp, HangsUp
    <3> QED
      BY <2>4, <3>1, <3>2 DEF GiveUp
  <2>5. ASSUME NEW b \in Browsers, Unavailable(b) PROVE LoginTypeOK'
    BY <2>5 DEF Unavailable, Replied, Goes
  <2>6. ASSUME NEW b \in Browsers, Deny(b) PROVE LoginTypeOK'
    <3>1. denied' \in Seq(0 .. MaxTime)
      <4>1. denied' = <<>> \/ denied' = Append(denied, now)
        BY <2>6 DEF Deny
      <4>2. denied \in Seq(0 .. MaxTime) /\ now \in 0 .. MaxTime
        OBVIOUS
      <4> HIDE DEF LoginTypeOK
      <4> QED
        BY <4>1, <4>2, SeqGrows
    <3> QED
      BY <2>6, <3>1, FailedType DEF Deny, Replied, Goes
  <2>7. ASSUME NEW b \in Browsers, Welcome(b) PROVE LoginTypeOK'
    <3>1. handling' \in [Browsers -> Handlings]
      BY <2>7 DEF Welcome, Replied, Goes
    <3>2. cookie' \in [Browsers -> Tokens \cup {NoToken}]
      <4>1. Issued \in Tokens
        BY DEF Issued
      <4>2. cookie' = [cookie EXCEPT ![b] = Issued] /\ cookie \in [Browsers -> Tokens \cup {NoToken}]
        BY <2>7 DEF Welcome
      <4> HIDE DEF LoginTypeOK, Tokens
      <4> QED
        BY <4>1, <4>2
    <3>3. bucket' \in Buckets /\ bucket'.first <= now
      BY <2>7 DEF Welcome, NoBucket
    <3>4. denied' \in Seq(0 .. MaxTime) /\ vouched' \subseteq Browsers
      BY <2>7 DEF Welcome
    <3> QED
      BY <2>7, <3>1, <3>2, <3>3, <3>4 DEF Welcome, Replied
  <2>8. ASSUME NEW b \in Browsers, Logout(b) PROVE LoginTypeOK'
    BY <2>8 DEF Logout
  <2>9. ASSUME Restart PROVE LoginTypeOK'
    BY <2>9 DEF Restart, NoBucket
  <2>10. ASSUME AgentStops PROVE LoginTypeOK'
    <3>1. handling' \in [Browsers -> Handlings] /\ genuine' \in [Browsers -> BOOLEAN]
      BY <2>10 DEF AgentStops
    <3>2. deadline' \in [Browsers -> 0 .. MaxTime + VerifyTimeout]
      BY <2>10 DEF AgentStops
    <3> QED
      BY <2>10, <3>1, <3>2 DEF AgentStops
  <2>11. ASSUME AgentStarts PROVE LoginTypeOK'
    BY <2>11 DEF AgentStarts
  <2>12. ASSUME LoginTick PROVE LoginTypeOK'
    <3>1. now' \in 0 .. MaxTime /\ now <= now'
      BY <2>12 DEF LoginTick
    <3>2. bucket'.first <= now'
      BY <2>12, <3>1 DEF LoginTick
    <3> QED
      BY <2>12, <3>1, <3>2 DEF LoginTick
  <2>13. CASE UNCHANGED loginVars
    BY <2>13
  <2> QED
    BY <2>1, <2>2, <2>3, <2>4, <2>5, <2>6, <2>7, <2>8, <2>9, <2>10, <2>11, <2>12, <2>13 DEF LoginNext
<1> QED
  BY <1>1, <1>2, PTL DEF LoginSpec
----------------------------------------------------------------------------
(* Access.                                                                 *)

\* A token is of this process or an earlier one; one of this process, and a
\* POST about to be answered with one, are of a browser PAM vouched for.
Earned ==
  \A b \in Browsers :
    /\ cookie[b] # NoToken => cookie[b].epoch <= epoch /\ cookie[b].exp - now <= TTL
    /\ cookie[b] # NoToken /\ cookie[b].epoch = epoch => b \in vouched
    /\ handling[b] = "yes" => b \in vouched

\* Every browser that is let in was vouched for to this process.
THEOREM AccessEarnedHolds == LoginSpec => []AccessEarned
<1> USE Numbers
<1>1. LoginInit => Earned
  BY DEF LoginInit, Earned
<1>2. Earned => AccessEarned
  BY DEF Earned, AccessEarned, Authorized, Valid
<1>3. LoginTypeOK /\ Earned /\ [LoginNext]_loginVars => Earned'
  <2> SUFFICES ASSUME LoginTypeOK, Earned, [LoginNext]_loginVars PROVE Earned'
    OBVIOUS
  <2>0. /\ now \in Int /\ epoch \in Int /\ handling \in [Browsers -> Handlings]
        /\ \A c \in Browsers : cookie[c] \in Tokens \cup {NoToken}
        /\ cookie \in [Browsers -> Tokens \cup {NoToken}]
    BY DEF LoginTypeOK
  <2>a. ASSUME UNCHANGED <<epoch, cookie, now>>, vouched \subseteq vouched',
               \A c \in Browsers : handling'[c] = "yes" => c \in vouched'
        PROVE  Earned'
    BY <2>a DEF Earned
  <2> USE <2>0 DEF Handlings
  <2>1. ASSUME NEW b \in Browsers, Post(b) PROVE Earned'
    BY <2>1, <2>a DEF Post, Goes, Earned
  <2>2. ASSUME NEW b \in Browsers, Dial(b) PROVE Earned'
    BY <2>2, <2>a DEF Dial, Goes, HangsUp, Earned
  <2>3. ASSUME NEW b \in Browsers, Answer(b) PROVE Earned'
    <3>1. PICK v \in Verdicts(genuine[b]) :
            HangsUp(b, v) /\ vouched' = IF v = "yes" THEN vouched \cup {b} ELSE vouched
      BY <2>3 DEF Answer
    <3> QED
      BY <2>3, <3>1, <2>a DEF Answer, Goes, HangsUp, Earned
  <2>4. ASSUME NEW b \in Browsers, GiveUp(b) PROVE Earned'
    BY <2>4, <2>a DEF GiveUp, Goes, HangsUp, Earned
  <2>5. ASSUME NEW b \in Browsers, Unavailable(b) PROVE Earned'
    BY <2>5, <2>a DEF Unavailable, Replied, Goes, Earned
  <2>6. ASSUME NEW b \in Browsers, Deny(b) PROVE Earned'
    BY <2>6, <2>a DEF Deny, Replied, Goes, Earned
  <2>7. ASSUME NEW b \in Browsers, Welcome(b) PROVE Earned'
    <3>1. b \in vouched /\ Issued.epoch = epoch /\ Issued.exp = now + TTL
      BY <2>7 DEF Welcome, Earned, Issued
    <3>2. UNCHANGED <<epoch, now, vouched>> /\ cookie' = [cookie EXCEPT ![b] = Issued]
      BY <2>7 DEF Welcome, Replied
    <3>3. handling' = [handling EXCEPT ![b] = "idle"]
      BY <2>7 DEF Welcome, Replied, Goes
    <3> QED
      BY <3>1, <3>2, <3>3 DEF Earned
  <2>8. ASSUME NEW b \in Browsers, Logout(b) PROVE Earned'
    BY <2>8 DEF Logout, Earned
  <2>9. ASSUME Restart PROVE Earned'
    <3>1. UNCHANGED <<now, cookie>> /\ epoch' = epoch + 1 /\ handling' = [c \in Browsers |-> "idle"]
      BY <2>9 DEF Restart
    <3>2. \A c \in Browsers : cookie[c] # NoToken => cookie[c].epoch \in Int
      BY DEF Tokens
    <3> QED
      BY <3>1, <3>2 DEF Earned
  <2>10. ASSUME AgentStops PROVE Earned'
    BY <2>10, <2>a DEF AgentStops, Earned
  <2>11. ASSUME AgentStarts PROVE Earned'
    BY <2>11 DEF AgentStarts, Earned
  <2>12. ASSUME LoginTick PROVE Earned'
    <3>1. \A c \in Browsers : cookie[c] # NoToken => cookie[c].exp \in Int
      BY DEF Tokens
    <3> QED
      BY <2>12, <3>1 DEF LoginTick, Earned
  <2>13. CASE UNCHANGED loginVars
    BY <2>13 DEF Earned
  <2> QED
    BY <2>1, <2>2, <2>3, <2>4, <2>5, <2>6, <2>7, <2>8, <2>9, <2>10, <2>11, <2>12, <2>13 DEF LoginNext
<1> QED
  BY <1>1, <1>2, <1>3, LoginTypeCorrect, PTL DEF LoginSpec

----------------------------------------------------------------------------
(* The lock.                                                               *)

\* A lock ends within Lockout of the bucket's start, which Fail moves to
\* the failure that locks.
LockBounded == bucket.lockedTo = -1 \/ bucket.lockedTo <= bucket.first + Lockout

\* What a failure may do to the lock.
LEMMA FailKeepsLock ==
  ASSUME LoginTypeOK, LockBounded
  PROVE  /\ Failed.lockedTo = -1 \/ Failed.lockedTo <= Failed.first + Lockout
         /\ Failed.lockedTo < bucket.lockedTo => Allowed
<1> USE Numbers
<1>1. now \in Nat /\ bucket.first \in Int /\ bucket.lockedTo \in Int /\ bucket.first <= now
  BY DEF LoginTypeOK, Times
<1>2. \/ Counting = bucket
      \/ now - bucket.first > Window /\ Counting = [NoBucket EXCEPT !.first = now]
  BY DEF Counting
<1>3. \/ Failed = [fails |-> 0, first |-> now, lockedTo |-> now + Lockout]
      \/ Failed = [Counting EXCEPT !.fails = @ + 1]
  BY DEF Failed
<1>4. CASE Failed = [fails |-> 0, first |-> now, lockedTo |-> now + Lockout]
  BY <1>1, <1>4 DEF LockBounded, Allowed
<1>5. CASE Failed = [Counting EXCEPT !.fails = @ + 1] /\ Counting = bucket
  <2>1. Failed.lockedTo = bucket.lockedTo /\ Failed.first = bucket.first
    BY <1>5 DEF LoginTypeOK
  <2> QED
    BY <1>1, <2>1 DEF LockBounded
<1>6. CASE /\ Failed = [Counting EXCEPT !.fails = @ + 1]
           /\ now - bucket.first > Window /\ Counting = [NoBucket EXCEPT !.first = now]
  <2>1. Failed.lockedTo = -1
    BY <1>6 DEF NoBucket
  <2> QED
    BY <1>1, <1>6, <2>1 DEF LockBounded, Allowed
<1> QED
  BY <1>2, <1>3, <1>4, <1>5, <1>6

\* A lock lasts its time unless PAM accepts someone or the process ends.
THEOREM LockoutHoldsAlways == LoginSpec => LockoutHolds
<1> USE Numbers
<1>1. LoginInit => LockBounded
  BY DEF LoginInit, LockBounded, NoBucket
<1>2. LoginTypeOK /\ LockBounded /\ [LoginNext]_loginVars
        => /\ LockBounded'
           /\ bucket'.lockedTo < bucket.lockedTo =>
                \/ Allowed
                \/ \E b \in Browsers : handling[b] = "yes" /\ handling'[b] = "idle"
                \/ epoch' # epoch
  <2> SUFFICES ASSUME LoginTypeOK, LockBounded, [LoginNext]_loginVars
               PROVE  /\ LockBounded'
                      /\ bucket'.lockedTo < bucket.lockedTo =>
                           \/ Allowed
                           \/ \E b \in Browsers : handling[b] = "yes" /\ handling'[b] = "idle"
                           \/ epoch' # epoch
    OBVIOUS
  <2>0. bucket.lockedTo \in Int /\ epoch \in Int /\ handling \in [Browsers -> Handlings]
    BY DEF LoginTypeOK, Times
  <2>1. CASE UNCHANGED bucket
    BY <2>0, <2>1 DEF LockBounded
  <2>2. ASSUME NEW b \in Browsers, Deny(b) PROVE bucket' = Failed
    BY <2>2 DEF Deny
  <2>3. CASE bucket' = Failed
    BY <2>3, FailKeepsLock DEF LockBounded
  <2>4. CASE bucket' = NoBucket /\ epoch' = epoch + 1
    BY <2>0, <2>4 DEF LockBounded, NoBucket
  <2>5. ASSUME NEW b \in Browsers, Welcome(b)
        PROVE  bucket' = NoBucket /\ handling[b] = "yes" /\ handling'[b] = "idle"
    BY <2>0, <2>5 DEF Welcome, Replied, Goes
  <2>6. ASSUME NEW b \in Browsers, bucket' = NoBucket, handling[b] = "yes", handling'[b] = "idle"
        PROVE  LockBounded' /\ \E c \in Browsers : handling[c] = "yes" /\ handling'[c] = "idle"
    BY <2>6 DEF LockBounded, NoBucket
  <2>7. \/ UNCHANGED bucket
        \/ bucket' = NoBucket /\ epoch' = epoch + 1
        \/ \E b \in Browsers : Deny(b) \/ Welcome(b)
    BY DEF LoginNext, Post, Dial, Answer, GiveUp, Unavailable, Logout, Restart,
           AgentStops, AgentStarts, LoginTick
  <2> QED
    BY <2>1, <2>2, <2>3, <2>4, <2>5, <2>6, <2>7
<1> QED
  BY <1>1, <1>2, LoginTypeCorrect, PTL DEF LoginSpec, LockoutHolds

----------------------------------------------------------------------------
(* The guesses.                                                            *)

\* The POSTs under way.
UnderWay == {b \in Browsers : handling[b] # "idle"}

\* How many denials there may be within Lockout, with n POSTs under way.
Guesses(n) == 2 * FailMax - 1 + (Cardinality(Browsers) - 1) - n

\* The denials are in the order of their times.  The last of them are those the
\* bucket counts; none of the others is later than the bucket's start, and but
\* for a bucket that was locked all but FailMax - 1 of them are more than Window
\* before it.  Under a lock the POSTs under way are what can still be denied.
OldDenials ==
  LET old == Len(denied) - bucket.fails IN
  /\ old >= 0
  /\ \A i \in 1 .. Len(denied) : denied[i] <= now
  /\ \A i \in 1 .. old : denied[i] <= bucket.first
  /\ bucket.lockedTo = -1 =>
       \A i \in 1 .. old - (FailMax - 1) : bucket.first - denied[i] > Window
  /\ bucket.lockedTo # -1 => bucket.lockedTo = bucket.first + Lockout
  /\ ~Allowed => \A i \in 1 .. Len(denied) - Guesses(Cardinality(UnderWay)) :
                   now - denied[i] > Lockout

\* There are finitely many browsers, and so of their POSTs.
LEMMA PostsCounted ==
  ASSUME NEW S \in SUBSET Browsers
  PROVE  IsFiniteSet(S) /\ Cardinality(S) \in 0 .. Cardinality(Browsers)
         /\ Cardinality(Browsers) \in Nat
<1>1. IsFiniteSet(Browsers)
  BY BrowsersAssumption
<1>2. IsFiniteSet(S) /\ Cardinality(S) <= Cardinality(Browsers)
  BY <1>1, FS_Subset
<1> QED BY <1>1, <1>2, FS_CardinalityType

\* The integers that OldDenials speaks of.
LEMMA DenialTypes ==
  ASSUME LoginTypeOK
  PROVE  /\ now \in Nat /\ bucket.first \in Int /\ bucket.first <= now
         /\ bucket.lockedTo \in Int
         /\ bucket.fails \in 0 .. FailMax - 1 /\ denied \in Seq(0 .. MaxTime)
         /\ Len(denied) \in Nat /\ \A i \in 1 .. Len(denied) : denied[i] \in Int
         /\ Cardinality(Browsers) \in Nat
         /\ Cardinality(UnderWay) \in 0 .. Cardinality(Browsers)
<1>1. denied \in Seq(0 .. MaxTime)
  BY DEF LoginTypeOK
<1>2. Len(denied) \in Nat /\ \A i \in 1 .. Len(denied) : denied[i] \in Int
  BY <1>1, Numbers
<1>3. UnderWay \subseteq Browsers
  BY DEF UnderWay
<1> QED
  BY <1>1, <1>2, <1>3, PostsCounted, Numbers DEF LoginTypeOK, Times

\* The bound: all but so many denials are older than Lockout.
LEMMA DenialsBounded ==
  ASSUME LoginTypeOK, OldDenials, NEW i \in 1 .. Len(denied) - Guesses(0)
  PROVE  i \in 1 .. Len(denied) /\ now - denied[i] > Lockout
<1> USE Numbers
<1> DEFINE N == Len(denied)
           B == Cardinality(Browsers)
           u == Cardinality(UnderWay)
<1>0. /\ now \in Nat /\ bucket.first \in Int /\ bucket.first <= now /\ bucket.lockedTo \in Int
      /\ bucket.fails \in 0 .. FailMax - 1 /\ N \in Nat
      /\ \A k \in 1 .. N : denied[k] \in Int
      /\ B \in Nat /\ u \in 0 .. B
  BY DenialTypes
<1>1. /\ bucket.lockedTo = -1 =>
           \A k \in 1 .. N - bucket.fails - (FailMax - 1) : bucket.first - denied[k] > Window
      /\ \A k \in 1 .. N - bucket.fails : denied[k] <= bucket.first
      /\ bucket.lockedTo # -1 => bucket.lockedTo = bucket.first + Lockout
      /\ now <= bucket.lockedTo => \A k \in 1 .. N - Guesses(u) : now - denied[k] > Lockout
  BY <1>0 DEF OldDenials, Allowed
<1> HIDE DEF N, B, u
<1>2. /\ Guesses(0) = 2 * FailMax - 1 + (B - 1) - 0 /\ Guesses(u) = 2 * FailMax - 1 + (B - 1) - u
      /\ i \in 1 .. N - Guesses(0)
  BY DEF Guesses, B, N
<1>3. i \in 1 .. N
  <2>1. 2 * FailMax - 1 + (B - 1) - 0 >= 0
    BY <1>0
  <2> QED BY <1>0, <1>2, <2>1
<1>4. CASE bucket.lockedTo = -1
  <2>1. i \in 1 .. N - bucket.fails - (FailMax - 1)
    BY <1>0, <1>2
  <2> QED BY <1>0, <1>1, <1>3, <1>4, <2>1 DEF N
<1>5. CASE bucket.lockedTo # -1 /\ now > bucket.lockedTo
  <2>1. i \in 1 .. N - bucket.fails
    BY <1>0, <1>2
  <2> QED BY <1>0, <1>1, <1>3, <1>5, <2>1 DEF N
<1>6. CASE now <= bucket.lockedTo
  <2>1. i \in 1 .. N - Guesses(u)
    BY <1>0, <1>2
  <2> QED BY <1>0, <1>1, <1>3, <1>6, <2>1 DEF N
<1> QED BY <1>0, <1>3, <1>4, <1>5, <1>6 DEF N

\* What was denied before the bucket at hand, or before a lock that is over.
LEMMA LongAgo ==
  ASSUME NEW t \in Int, NEW first \in Int, NEW d \in Int,
         \/ first <= t /\ first - d > Window
         \/ d <= first /\ t > first + Lockout
  PROVE  t - d > Lockout
BY Numbers

\* A denial under OldDenials: the bucket counts it, a new one is opened for it,
\* or it trips the lock.
LEMMA DenialCounted ==
  ASSUME LoginTypeOK, OldDenials, NEW b \in Browsers, Deny(b)
  PROVE  OldDenials'
<1> USE Numbers
<1> DEFINE N == Len(denied)
           B == Cardinality(Browsers)
           u == Cardinality(UnderWay)
<1>0. /\ now \in Nat /\ bucket.first \in Int /\ bucket.first <= now /\ bucket.lockedTo \in Int
      /\ bucket.fails \in 0 .. FailMax - 1 /\ N \in Nat /\ B \in Nat /\ u \in 0 .. B
  BY DenialTypes
<1>d. denied \in Seq(0 .. MaxTime) /\ \A k \in 1 .. N : denied[k] \in Int
  BY DenialTypes
<1>1. /\ bucket.lockedTo = -1 =>
           \A k \in 1 .. N - bucket.fails - (FailMax - 1) : bucket.first - denied[k] > Window
      /\ \A k \in 1 .. N - bucket.fails : denied[k] <= bucket.first
      /\ \A k \in 1 .. N : denied[k] <= now
      /\ N - bucket.fails >= 0
      /\ bucket.lockedTo # -1 => bucket.lockedTo = bucket.first + Lockout
      /\ now <= bucket.lockedTo => \A k \in 1 .. N - Guesses(u) : now - denied[k] > Lockout
  BY <1>0, <1>d DEF OldDenials, Allowed
<1>2. bucket' = Failed /\ now' = now /\ denied' = Append(denied, now)
  BY DEF Deny, Replied
<1>3. /\ Len(denied') = N + 1 /\ denied'[N + 1] = now
      /\ \A k \in 1 .. N : denied'[k] = denied[k]
  BY <1>d, <1>2
<1>4. Cardinality(UnderWay') = u - 1 /\ u - 1 \in Nat
  <2>1. handling \in [Browsers -> Handlings] /\ handling' = [handling EXCEPT ![b] = "idle"]
        /\ handling[b] = "no"
    BY DEF LoginTypeOK, Deny, Replied, Goes
  <2>2. UnderWay' = UnderWay \ {b} /\ b \in UnderWay
    BY <2>1 DEF UnderWay
  <2>3. IsFiniteSet(UnderWay)
    BY PostsCounted DEF UnderWay
  <2>4. Cardinality(UnderWay') = Cardinality(UnderWay) - 1
    BY <2>2, <2>3, FS_RemoveElement
  <2>5. Cardinality(UnderWay') \in Nat
    BY PostsCounted, <2>2, <2>3, FS_RemoveElement, FS_CardinalityType
  <2> QED BY <2>4, <2>5
<1> HIDE DEF N, B, u
<1>5. /\ Guesses(0) = 2 * FailMax - 1 + (B - 1) - 0 /\ Guesses(u) = 2 * FailMax - 1 + (B - 1) - u
      /\ Guesses(u - 1) = 2 * FailMax - 1 + (B - 1) - (u - 1)
  BY DEF Guesses, B
<1>6. \A k \in 1 .. N + 1 : denied'[k] \in Int /\ denied'[k] <= now
  <2> SUFFICES ASSUME NEW k \in 1 .. N + 1 PROVE denied'[k] \in Int /\ denied'[k] <= now
    OBVIOUS
  <2>1. CASE k = N + 1
    BY <1>0, <1>3, <2>1
  <2>2. CASE k \in 1 .. N
    <3>1. denied'[k] = denied[k] /\ denied[k] \in Int /\ denied[k] <= now
      BY <1>1, <1>3, <1>d, <2>2
    <3> QED BY <3>1
  <2> QED BY <1>0, <2>1, <2>2
\* What is left to show, with the new bucket named.
<1>7. SUFFICES /\ (N + 1) - Failed.fails >= 0
               /\ \A k \in 1 .. (N + 1) - Failed.fails : denied'[k] <= Failed.first
               /\ Failed.lockedTo = -1 =>
                    \A k \in 1 .. (N + 1) - Failed.fails - (FailMax - 1) :
                      Failed.first - denied'[k] > Window
               /\ Failed.lockedTo # -1 => Failed.lockedTo = Failed.first + Lockout
               /\ now <= Failed.lockedTo =>
                    \A k \in 1 .. (N + 1) - Guesses(u - 1) : now - denied'[k] > Lockout
  <2>1. Failed.lockedTo \in Int
    BY FailedType DEF Buckets, Times
  <2>2. ~Allowed' => now <= Failed.lockedTo
    BY <1>0, <1>2, <2>1 DEF Allowed
  <2>3. /\ bucket' = Failed /\ now' = now /\ Len(denied') = N + 1
        /\ Cardinality(UnderWay)' = u - 1
    BY <1>2, <1>3, <1>4
  <2>4. ~Allowed' => \A k \in 1 .. (N + 1) - Guesses(u - 1) : now - denied'[k] > Lockout
    BY <1>7, <2>2
  <2>5. \A k \in 1 .. Len(denied') : denied'[k] <= now'
    BY <1>6, <2>3, Zenon
  <2>6. Guesses(Cardinality(UnderWay)') = Guesses(u - 1)
    BY <2>3, Zenon
  <2>7. ~Allowed' => \A k \in 1 .. Len(denied') - Guesses(Cardinality(UnderWay)') :
                       now' - denied'[k] > Lockout
    BY <2>3, <2>4, <2>6, SMT
  <2>8. LET old == (N + 1) - Failed.fails IN
          /\ old >= 0
          /\ \A i \in 1 .. old : denied'[i] <= Failed.first
          /\ Failed.lockedTo = -1 =>
               \A i \in 1 .. old - (FailMax - 1) : Failed.first - denied'[i] > Window
          /\ Failed.lockedTo # -1 => Failed.lockedTo = Failed.first + Lockout
    BY <1>7
  <2> QED
    BY <2>3, <2>5, <2>7, <2>8 DEF OldDenials
\* The denial that trips the lock: before it there was none.
<1>8. CASE Failed = [fails |-> 0, first |-> now, lockedTo |-> now + Lockout]
           /\ Counting.fails + 1 >= FailMax
  <2>1. Failed.fails = 0 /\ Failed.first = now /\ Failed.lockedTo = now + Lockout
    BY <1>8
  <2>2. ASSUME NEW k \in 1 .. (N + 1) - Guesses(u - 1) PROVE now - denied'[k] > Lockout
    <3>1. k \in 1 .. N /\ denied'[k] = denied[k] /\ denied[k] \in Int
          /\ k <= N - 2 * (FailMax - 1)
      <4>1. k <= (N + 1) - (2 * FailMax - 1)
        BY <1>0, <1>4, <1>5, <2>2
      <4>2. k \in 1 .. N
        BY <1>0, <2>2, <4>1
      <4> QED BY <1>0, <1>3, <1>d, <4>1, <4>2
    <3>2. CASE now <= bucket.lockedTo
      <4>1. k \in 1 .. N - Guesses(u)
        BY <1>0, <1>4, <1>5, <2>2
      <4> QED BY <1>1, <3>1, <3>2, <4>1
    <3>3. k \in 1 .. N - bucket.fails - (FailMax - 1)
      BY <1>0, <3>1
    <3>4. CASE bucket.lockedTo = -1
      <4>1. bucket.first - denied[k] > Window
        BY <1>1, <3>3, <3>4
      <4> QED BY <1>0, <3>1, <4>1, LongAgo
    <3>5. CASE bucket.lockedTo # -1 /\ now > bucket.lockedTo
      <4>1. k \in 1 .. N - bucket.fails
        BY <1>0, <3>3
      <4>2. denied[k] <= bucket.first /\ now > bucket.first + Lockout
        BY <1>1, <3>5, <4>1
      <4> QED BY <1>0, <3>1, <4>2, LongAgo
    <3> QED BY <1>0, <3>2, <3>4, <3>5
  <2> QED BY <1>0, <1>6, <2>1, <2>2
\* The denial that the bucket at hand counts.
<1>9. CASE Failed = [Counting EXCEPT !.fails = @ + 1] /\ Counting = bucket
  <2>1. /\ Failed.fails = bucket.fails + 1 /\ Failed.first = bucket.first
        /\ Failed.lockedTo = bucket.lockedTo
    BY <1>9 DEF LoginTypeOK
  <2>2. \A k \in 1 .. N - bucket.fails : k \in 1 .. N /\ denied'[k] = denied[k]
    BY <1>0, <1>3
  <2>3. /\ (N + 1) - Failed.fails = N - bucket.fails
        /\ (N + 1) - Failed.fails - (FailMax - 1) = N - bucket.fails - (FailMax - 1)
    <3>1. ASSUME NEW x \in Int, NEW y \in Int PROVE (x + 1) - (y + 1) = x - y
      OBVIOUS
    <3>2. N \in Int /\ bucket.fails \in Int
      BY <1>0
    <3>3. (N + 1) - (bucket.fails + 1) = N - bucket.fails
      BY <3>1, <3>2, Zenon
    <3> QED BY <2>1, <3>3, Zenon
  <2>4. \A k \in 1 .. N - bucket.fails - (FailMax - 1) : k \in 1 .. N - bucket.fails
    BY <1>0
  <2>5. ASSUME now <= bucket.lockedTo, NEW k \in 1 .. (N + 1) - Guesses(u - 1)
        PROVE  now - denied'[k] > Lockout
    <3>1. k \in 1 .. N - Guesses(u) /\ k \in 1 .. N
      BY <1>0, <1>4, <1>5, <2>5
    <3> QED BY <1>1, <1>3, <2>5, <3>1
  <2> QED BY <1>1, <2>1, <2>2, <2>3, <2>4, <2>5
\* The denial that opens a bucket.
<1>10. CASE /\ Failed = [Counting EXCEPT !.fails = @ + 1]
            /\ now - bucket.first > Window /\ Counting = [NoBucket EXCEPT !.first = now]
  <2>1. Failed.fails = 1 /\ Failed.first = now /\ Failed.lockedTo = -1
    BY <1>10 DEF NoBucket
  <2>2. ASSUME NEW k \in 1 .. (N + 1) - 1 - (FailMax - 1) PROVE now - denied'[k] > Window
    <3>1. k \in 1 .. N - bucket.fails /\ k \in 1 .. N
      BY <1>0
    <3>2. denied'[k] = denied[k] /\ denied[k] \in Int /\ denied[k] <= bucket.first
      BY <1>1, <1>3, <1>d, <3>1
    <3> QED BY <1>0, <1>10, <3>2
  <2>3. \A k \in 1 .. (N + 1) - 1 : k \in 1 .. N + 1
    BY <1>0
  <2> QED BY <1>0, <1>6, <2>1, <2>2, <2>3
<1>11. \/ Counting = bucket
       \/ now - bucket.first > Window /\ Counting = [NoBucket EXCEPT !.first = now]
  BY DEF Counting
<1> QED BY <1>8, <1>9, <1>10, <1>11 DEF Failed

\* The other steps: POSTs come while there is no lock, and go, and time passes.
LEMMA DenialsKept ==
  ASSUME LoginTypeOK, OldDenials, UNCHANGED <<bucket, denied>>, now' \in Int, now <= now',
         ~Allowed => UnderWay' \subseteq UnderWay
  PROVE  OldDenials'
<1> USE Numbers
<1>0. /\ now \in Nat /\ bucket.lockedTo \in Int /\ Len(denied) \in Nat
      /\ \A k \in 1 .. Len(denied) : denied[k] \in Int
      /\ Cardinality(Browsers) \in Nat /\ Cardinality(UnderWay) \in 0 .. Cardinality(Browsers)
  BY DenialTypes
<1>1. ASSUME ~Allowed',
             NEW k \in 1 .. Len(denied) - Guesses(Cardinality(UnderWay'))
      PROVE  now' - denied[k] > Lockout
  <2>1. ~Allowed
    BY <1>0, <1>1 DEF Allowed
  <2>2. IsFiniteSet(UnderWay) /\ UnderWay' \subseteq UnderWay
    BY <2>1, PostsCounted DEF UnderWay
  <2>3. Cardinality(UnderWay') \in Nat /\ Cardinality(UnderWay') <= Cardinality(UnderWay)
    BY <2>2, FS_Subset, FS_CardinalityType
  <2> DEFINE B == Cardinality(Browsers)
             u == Cardinality(UnderWay)
             v == Cardinality(UnderWay')
  <2>4. /\ Guesses(u) = 2 * FailMax - 1 + (B - 1) - u
        /\ Guesses(v) = 2 * FailMax - 1 + (B - 1) - v
        /\ B \in Nat /\ u \in 0 .. B /\ v \in Nat /\ v <= u /\ k \in 1 .. Len(denied) - Guesses(v)
    BY <1>0, <1>1, <2>3 DEF Guesses
  <2>5. \A j \in 1 .. Len(denied) - Guesses(u) : now - denied[j] > Lockout
    BY <2>1 DEF OldDenials
  <2> HIDE DEF B, u, v
  <2>6. k \in 1 .. Len(denied) - Guesses(u) /\ k \in 1 .. Len(denied)
    BY <1>0, <2>4
  <2> QED BY <1>0, <2>5, <2>6
<1>2. \A k \in 1 .. Len(denied) : denied[k] <= now'
  BY <1>0 DEF OldDenials
<1> QED BY <1>1, <1>2 DEF OldDenials, Guesses

\* A POST is let through only while there is no lock.
LEMMA UnderWayShrinks ==
  ASSUME LoginTypeOK, ~Allowed, [LoginNext]_loginVars, UNCHANGED bucket
  PROVE  UnderWay' \subseteq UnderWay
<1>1. handling \in [Browsers -> Handlings]
  BY DEF LoginTypeOK
<1>2. ASSUME NEW b \in Browsers, handling[b] # "idle",
             \E place \in Handlings : handling' = [handling EXCEPT ![b] = place]
      PROVE  UnderWay' \subseteq UnderWay
  BY <1>1, <1>2 DEF UnderWay
<1>3. ASSUME NEW b \in Browsers, Dial(b) \/ Answer(b) \/ GiveUp(b) \/ Unavailable(b) \/ Deny(b)
                                 \/ Welcome(b)
      PROVE  handling[b] # "idle"
             /\ \E place \in Handlings : handling' = [handling EXCEPT ![b] = place]
  BY <1>3 DEF Dial, Answer, GiveUp, Unavailable, Deny, Welcome, HangsUp, Replied, Goes, Verdicts,
              Handlings
<1>4. ASSUME Restart \/ AgentStops PROVE UnderWay' \subseteq UnderWay
  BY <1>4 DEF Restart, AgentStops, UnderWay
<1>5. ASSUME UNCHANGED handling PROVE UnderWay' \subseteq UnderWay
  BY <1>5 DEF UnderWay
<1>6. ASSUME NEW b \in Browsers PROVE ~Post(b)
  BY DEF Post
<1>7. ASSUME NEW b \in Browsers, Logout(b) PROVE UNCHANGED handling
  BY <1>7 DEF Logout
<1>8. AgentStarts \/ LoginTick \/ UNCHANGED loginVars => UNCHANGED handling
  BY DEF AgentStarts, LoginTick
<1> QED
  BY <1>2, <1>3, <1>4, <1>5, <1>6, <1>7, <1>8 DEF LoginNext

\* In no span of Lockout PAM denies more than 2 FailMax - 1 guesses and those of
\* the other browsers, and it is only PAM's denials that count.
THEOREM GuessesBoundedHolds == LoginSpec => []GuessesBounded
<1> USE Numbers
<1>1. LoginInit => OldDenials
  <2> SUFFICES ASSUME LoginInit PROVE OldDenials
    OBVIOUS
  <2>1. Allowed
    BY DEF LoginInit, Allowed, NoBucket
  <2> QED BY <2>1 DEF LoginInit, OldDenials, NoBucket
<1>2. LoginTypeOK /\ OldDenials => GuessesBounded
  <2> SUFFICES ASSUME LoginTypeOK, OldDenials PROVE GuessesBounded
    OBVIOUS
  <2> DEFINE recent == {i \in DOMAIN denied : now - denied[i] <= Lockout}
             most == Guesses(0)
             hi == Len(denied)
             lo == hi - most + 1
  <2>1. /\ now \in Nat /\ bucket.fails \in 0 .. FailMax - 1 /\ hi \in Nat
        /\ denied \in Seq(0 .. MaxTime)
        /\ \A i \in 1 .. hi : denied[i] \in Int /\ Cardinality(Browsers) \in Nat
    BY DenialTypes
  <2>2. DOMAIN denied = 1 .. hi /\ most \in Int /\ lo \in Int /\ most >= 0
    <3>1. Cardinality(Browsers) \in Nat
      BY DenialTypes
    <3> QED BY <2>1, <3>1 DEF Guesses
  <2>3. recent \subseteq lo .. hi
    <3> SUFFICES ASSUME NEW i \in 1 .. hi, now - denied[i] <= Lockout PROVE i >= lo
      BY <2>2
    <3>1. ASSUME i < lo PROVE now - denied[i] > Lockout
      <4>1. i \in 1 .. hi - most
        BY <2>1, <2>2, <3>1
      <4> QED BY <4>1, DenialsBounded
    <3> QED BY <2>1, <2>2, <3>1
  <2>4. IsFiniteSet(lo .. hi)
        /\ Cardinality(lo .. hi) = IF lo > hi THEN 0 ELSE hi - lo + 1
    <3>1. lo \in Int /\ hi \in Int
      BY <2>1, <2>2
    <3> HIDE DEF lo, hi
    <3> QED BY <3>1, FS_Interval
  <2>5. Cardinality(recent) <= Cardinality(lo .. hi)
    BY <2>3, <2>4, FS_Subset
  <2>6. IsFiniteSet(recent) /\ Cardinality(recent) \in Nat
    BY <2>3, <2>4, FS_Subset, FS_CardinalityType
  <2>7. Cardinality(recent) <= most
    <3> HIDE DEF recent, most
    <3> QED BY <2>1, <2>2, <2>4, <2>5, <2>6
  <2>8. bucket.fails <= Len(denied)
    BY <2>1 DEF OldDenials
  <2>9. most = FailMax + (FailMax - 1) + (Cardinality(Browsers) - 1)
    <3>1. Cardinality(Browsers) \in Nat
      BY DenialTypes
    <3> QED BY <3>1 DEF Guesses
  <2> QED BY <2>7, <2>8, <2>9 DEF GuessesBounded, Denials
<1>3. LoginTypeOK /\ OldDenials /\ [LoginNext]_loginVars => OldDenials'
  <2> SUFFICES ASSUME LoginTypeOK, OldDenials, [LoginNext]_loginVars PROVE OldDenials'
    OBVIOUS
  <2>1. CASE UNCHANGED <<bucket, denied>> /\ now' \in Int /\ now <= now'
    BY <2>1, DenialsKept, UnderWayShrinks
  <2>2. CASE bucket' = NoBucket /\ denied' = <<>> /\ now' = now
    <3>1. Allowed'
      BY <2>2, DenialTypes DEF Allowed, NoBucket
    <3> QED BY <2>2, <3>1 DEF OldDenials, NoBucket
  <2>3. ASSUME NEW b \in Browsers, Welcome(b) PROVE OldDenials'
    BY <2>2, <2>3 DEF Welcome, Replied
  <2>4. CASE Restart
    BY <2>2, <2>4 DEF Restart
  <2>5. CASE LoginTick
    BY <2>1, <2>5, DenialTypes DEF LoginTick
  <2>6. \/ UNCHANGED <<bucket, denied, now>>
        \/ \E b \in Browsers : Deny(b) \/ Welcome(b)
        \/ Restart \/ LoginTick
    <3>1. ASSUME NEW b \in Browsers,
                 Post(b) \/ Dial(b) \/ Answer(b) \/ GiveUp(b) \/ Unavailable(b) \/ Logout(b)
          PROVE  UNCHANGED <<bucket, denied, now>>
      BY <3>1 DEF Post, Dial, Answer, GiveUp, Unavailable, Replied, Logout
    <3>2. AgentStops \/ AgentStarts \/ UNCHANGED loginVars => UNCHANGED <<bucket, denied, now>>
      BY DEF AgentStops, AgentStarts
    <3> QED BY <3>1, <3>2 DEF LoginNext
  <2>7. now \in Int /\ now <= now
    BY DenialTypes
  <2> QED
    BY <2>1, <2>3, <2>4, <2>5, <2>6, <2>7, DenialCounted
<1> QED
  BY <1>1, <1>2, <1>3, LoginTypeCorrect, PTL DEF LoginSpec

----------------------------------------------------------------------------
(***************************************************************************)
(* WardriveScreen: Enter does what the HUD showed.                         *)
(***************************************************************************)
USE DEF hudVars

\* What the assumptions say of the constants.
LEMMA HudNumbers == NIfaces \in Nat /\ MaxCaptures \in Nat
BY HudAssumption

\* The index of an interface stays in the list, around its ends.
LEMMA Remainder ==
  ASSUME NEW a \in Int, NEW n \in Nat, n > 0
  PROVE  a % n \in 0 .. n - 1
OBVIOUS

\* The states of a toggle.
ToggleStates == [at : {"idle", "act", "sleep", "store"}, running : BOOLEAN,
                 iface : Indices \cup {NoIface}, seen : Reports, lcd : Screens]

\* What is drawn of a report is a screen.
LEMMA ShownType ==
  ASSUME NEW s \in Reports, NEW idx \in Indices \cup {0}, NEW pass \in BOOLEAN
  PROVE  Shown(s, idx, pass) \in Screens
<1>1. idx \in Indices \/ NIfaces = 0
  BY HudNumbers DEF Indices
<1> QED
  BY <1>1 DEF Shown, Screens

\* The states of who does nothing.
LEMMA IdleTypes ==
  /\ NoCapture \in Reports /\ IdleToggle \in ToggleStates
  /\ IdlePoll \in [at : {"idle", "store", "done"}, seen : Reports]
<1>1. NoCapture \in Reports
  BY DEF Reports
<1>2. Shown(NoCapture, 0, TRUE) \in Screens
  BY <1>1, ShownType
<1>3. IdleToggle \in ToggleStates
  BY <1>1, <1>2 DEF IdleToggle, ToggleStates
<1> QED
  BY <1>1, <1>3 DEF IdlePoll

\* A capture that starts is none of the captures so far, and on an interface.
LEMMA StartsCapture ==
  ASSUME HudTypeOK, NEW iface \in Indices, StartOn(iface)
  PROVE  capture' \in Reports /\ count' \in 0 .. MaxCaptures /\ Running(capture')
         /\ capture'.iface = iface
<1>1. count + 1 \in 1 .. MaxCaptures /\ count + 1 # 0
  BY HudNumbers DEF StartOn, HudTypeOK
<1>2. capture' = [number |-> count + 1, iface |-> iface] /\ count' = count + 1
  BY DEF StartOn
<1>3. capture' \in Captures
  BY <1>1, <1>2 DEF Captures
<1>4. capture'.number # NoCapture.number
  BY <1>1, <1>2 DEF NoCapture
<1> QED
  BY <1>1, <1>2, <1>3, <1>4 DEF Reports, Running

\* What a toggle that acts may do to the capture.
LEMMA ToggleOutcomes ==
  ASSUME HudTypeOK, NEW t \in Togglers, ToggleActs(t)
  PROVE  \/ UNCHANGED <<capture, count>>
         \/ toggler[t].running /\ capture' = NoCapture /\ UNCHANGED count
         \/ /\ ~toggler[t].running /\ toggler[t].iface # NoIface /\ StartOn(toggler[t].iface)
            /\ toggler[t].iface \in Indices
<1>1. toggler[t].iface \in Indices \cup {NoIface}
  BY DEF HudTypeOK
<1> QED
  BY <1>1 DEF ToggleActs, Captured, StopIt

\* Every reachable state of the HUD has its types.
THEOREM HudTypeCorrect == HudSpec => []HudTypeOK
<1> USE HudNumbers, IdleTypes
<1>1. HudInit => HudTypeOK
  <2> SUFFICES ASSUME HudInit PROVE HudTypeOK
    OBVIOUS
  <2>1. ifaceIdx \in Indices \cup {0} /\ st \in Reports /\ showPass \in BOOLEAN
    BY DEF HudInit
  <2>2. drawn \in Screens
    BY <2>1, ShownType DEF HudInit
  <2>3. count \in 0 .. MaxCaptures
    <3>1. capture \in Reports /\ count = capture.number
      BY DEF HudInit
    <3> QED
      BY <3>1 DEF Reports, Captures, NoCapture
  <2> QED
    BY <2>1, <2>2, <2>3 DEF HudInit, HudTypeOK, ToggleStates
<1>2. HudTypeOK /\ [HudNext]_hudVars => HudTypeOK'
  <2> SUFFICES ASSUME HudTypeOK, [HudNext]_hudVars PROVE HudTypeOK'
    OBVIOUS
  <2>1. /\ toggler \in [Togglers -> ToggleStates] /\ capture \in Reports /\ st \in Reports
        /\ poller.seen \in Reports /\ Shown(st, ifaceIdx, showPass) \in Screens
        /\ Shown(capture, ifaceIdx, showPass) \in Screens
    BY ShownType DEF HudTypeOK, ToggleStates
  <2>2. ASSUME PollLook PROVE HudTypeOK'
    <3>1. CASE Lagging
      BY <2>1, <2>2, <3>1 DEF PollLook, HudTypeOK
    <3>2. CASE ~Lagging
      BY <2>1, <2>2, <3>2 DEF PollLook, HudTypeOK, Displays
    <3> QED
      BY <3>1, <3>2
  <2>3. ASSUME PollStore PROVE HudTypeOK'
    BY <2>1, <2>3 DEF PollStore, HudTypeOK
  <2>4. ASSUME PollQuits PROVE HudTypeOK'
    BY <2>1, <2>4 DEF PollQuits, HudTypeOK
  <2>5. ASSUME NEW t \in Togglers, ToggleLook(t) PROVE HudTypeOK'
    <3>1. toggler' \in [Togglers -> ToggleStates]
      BY <2>1, <2>5 DEF ToggleLook, ToggleStates
    <3>2. st' \in Reports /\ drawn' \in Screens
      BY <2>1, <2>5 DEF ToggleLook, Displays, HudTypeOK
    <3> QED
      BY <2>5, <3>1, <3>2 DEF ToggleLook, HudTypeOK, ToggleStates
  <2>6. ASSUME NEW t \in Togglers, ToggleStore(t) PROVE HudTypeOK'
    <3>1. toggler' \in [Togglers -> ToggleStates] /\ st' \in Reports
      BY <2>1, <2>6 DEF ToggleStore, ToggleStates
    <3> QED
      BY <2>6, <3>1 DEF ToggleStore, HudTypeOK, ToggleStates
  <2>7. ASSUME NEW t \in Togglers, ToggleActs(t) PROVE HudTypeOK'
    <3>1. toggler' \in [Togglers -> ToggleStates]
      BY <2>1, <2>7 DEF ToggleActs, ToggleStates
    <3>2. capture' \in Reports /\ count' \in 0 .. MaxCaptures
      BY <2>7, ToggleOutcomes, StartsCapture DEF HudTypeOK
    <3> QED
      BY <2>7, <3>1, <3>2 DEF ToggleActs, HudTypeOK, ToggleStates
  <2>8. ASSUME NEW t \in Togglers, KeyEnter(t) PROVE HudTypeOK'
    <3>1. (IF NIfaces = 0 THEN NoIface ELSE ifaceIdx) \in Indices \cup {NoIface}
      BY DEF HudTypeOK, Indices
    <3>2. Running(st) \in BOOLEAN /\ drawn \in Screens
      BY DEF Running, HudTypeOK
    <3>3. toggler' \in [Togglers -> ToggleStates]
      BY <2>1, <2>8, <3>1, <3>2 DEF KeyEnter, ToggleStates
    <3> QED
      BY <2>8, <3>3 DEF KeyEnter, HudTypeOK, ToggleStates
  <2>9. ASSUME Draw PROVE HudTypeOK'
    BY <2>1, <2>9 DEF Draw, HudTypeOK
  <2>10. ASSUME KeySelects PROVE HudTypeOK'
    <3>1. PICK step \in {-1, 1} : ifaceIdx' = (ifaceIdx + step + NIfaces) % NIfaces
      BY <2>10 DEF KeySelects
    <3>2. ifaceIdx' \in Indices
      BY <2>10, <3>1, Remainder DEF KeySelects, HudTypeOK, Indices
    <3>3. drawn' \in Screens
      BY <2>1, <2>10, <3>2, ShownType DEF KeySelects, HudTypeOK
    <3> QED
      BY <2>10, <3>2, <3>3 DEF KeySelects, HudTypeOK
  <2>11. ASSUME KeyReveals PROVE HudTypeOK'
    <3>1. showPass' \in BOOLEAN
      BY <2>11 DEF KeyReveals, HudTypeOK
    <3>2. drawn' \in Screens
      BY <2>1, <2>11, <3>1, ShownType DEF KeyReveals, HudTypeOK
    <3> QED
      BY <2>11, <3>1, <3>2 DEF KeyReveals, HudTypeOK
  <2>12. ASSUME KeyPops PROVE HudTypeOK'
    BY <2>12 DEF KeyPops, HudTypeOK
  <2>13. ASSUME Others PROVE HudTypeOK'
    <3>1. capture' \in Reports /\ count' \in 0 .. MaxCaptures
      BY <2>13, StartsCapture DEF Others, StopIt, HudTypeOK
    <3> QED
      BY <2>13, <3>1 DEF Others, HudTypeOK
  <2>14. CASE UNCHANGED hudVars
    BY <2>14 DEF HudTypeOK
  <2> QED
    BY <2>2, <2>3, <2>4, <2>5, <2>6, <2>7, <2>8, <2>9, <2>10, <2>11, <2>12, <2>13, <2>14
       DEF HudNext, Poll, Toggle
<1> QED
  BY <1>1, <1>2, PTL DEF HudSpec

----------------------------------------------------------------------------
(* What a toggle does, and what the HUD showed.                            *)

\* Without "lag" no look waits to be stored, an open HUD shows what is
\* stored, and a toggle on its way has captured what its user saw.
Prompt == "lag" \notin hudEnv
Sees ==
  /\ poller.at # "store"
  /\ ~gone => drawn = Shown(st, ifaceIdx, showPass)
  /\ \A t \in Togglers :
       /\ toggler[t].at # "store"
       /\ toggler[t].at = "act" =>
            /\ Running(toggler[t].lcd.st) <=> toggler[t].running
            /\ toggler[t].lcd.iface # NoIface => toggler[t].iface = toggler[t].lcd.iface

\* With a patient user and nobody else there is one toggle at a time, and
\* until it has acted a capture that is shown is the one that is on.
Undisturbed == hudEnv \cap {"other", "hasty"} = {}
SeesCapture ==
  /\ \A t, u \in Togglers : toggler[t].at # "idle" /\ toggler[u].at # "idle" => t = u
  /\ (\A t \in Togglers : toggler[t].at \in {"idle", "act"}) => (Running(st) => st = capture)
  /\ \A t \in Togglers :
       toggler[t].at = "act" /\ Running(toggler[t].lcd.st) => toggler[t].lcd.st = capture

HudInv == HudTypeOK /\ (Prompt => Sees) /\ (Prompt /\ Undisturbed => SeesCapture)

\* What a screen tells of the report it was drawn from.
LEMMA ShownFields ==
  ASSUME NEW s, NEW idx, NEW pass
  PROVE  /\ Shown(s, idx, pass).st = s
         /\ Shown(s, idx, pass).iface # NoIface =>
              NIfaces # 0 /\ Shown(s, idx, pass).iface = idx
BY DEF Shown

\* The togglers are the same, or one is idle again, or sleeps.
LEMMA OneToggler ==
  ASSUME HudTypeOK, NEW t \in Togglers, NEW x, toggler' = [toggler EXCEPT ![t] = x]
  PROVE  /\ toggler'[t] = x
         /\ \A u \in Togglers : u # t => toggler'[u] = toggler[u]
BY DEF HudTypeOK

\* What a HUD without lag has seen, and what a user that waits acts on.
THEOREM HudInvHolds == HudSpec => []HudInv
<1> USE DEF Prompt, Undisturbed
<1>1. HudInit /\ HudTypeOK => HudInv
  BY DEF HudInit, HudInv, Sees, SeesCapture, IdlePoll, IdleToggle, Running
<1>2. HudInv /\ HudTypeOK' /\ [HudNext]_hudVars => HudInv'
  <2> SUFFICES ASSUME HudInv, HudTypeOK', [HudNext]_hudVars, Prompt'
               PROVE  Sees' /\ (Undisturbed' => SeesCapture')
    BY DEF HudInv
  <2>a. hudEnv' = hudEnv
    BY DEF HudNext, Poll, PollLook, PollStore, PollQuits, Toggle, ToggleLook, ToggleStore,
           ToggleActs, Draw, KeyEnter, KeySelects, KeyReveals, KeyPops, Others
  <2>b. HudTypeOK /\ Prompt /\ Sees /\ (Undisturbed => SeesCapture) /\ ~Lagging
    BY <2>a DEF HudInv, Lagging
  <2>c. toggler \in [Togglers -> ToggleStates]
    BY <2>b DEF HudTypeOK, ToggleStates
  <2>1. CASE PollLook
    <3>1. Sees'
      BY <2>b, <2>1 DEF PollLook, Displays, Sees
    <3>2. ASSUME Undisturbed PROVE SeesCapture'
      BY <2>b, <2>1, <3>2 DEF PollLook, Displays, SeesCapture
    <3> QED
      BY <2>a, <3>1, <3>2
  <2>2. CASE PollStore
    BY <2>b, <2>2 DEF PollStore, Sees
  <2>3. CASE PollQuits
    <3>1. poller'.at = "done"
      BY <2>b, <2>3 DEF PollQuits, HudTypeOK
    <3> QED
      BY <2>a, <2>b, <2>3, <3>1 DEF PollQuits, Sees, SeesCapture
  <2>4. ASSUME NEW t \in Togglers, ToggleLook(t) PROVE Sees' /\ (Undisturbed' => SeesCapture')
    <3>1. /\ toggler' = [toggler EXCEPT ![t] = IdleToggle] /\ st' = capture
          /\ drawn' = (IF gone THEN drawn ELSE Shown(capture, ifaceIdx, showPass))
          /\ UNCHANGED <<capture, ifaceIdx, showPass, poller, gone>>
      BY <2>b, <2>4 DEF ToggleLook, Displays
    <3>2. toggler'[t].at = "idle" /\ \A u \in Togglers : u # t => toggler'[u] = toggler[u]
      <4> DEFINE x == IdleToggle
      <4>1. x.at = "idle"
        BY DEF IdleToggle
      <4>2. toggler' = [toggler EXCEPT ![t] = x]
        BY <3>1
      <4> HIDE DEF x
      <4> QED
        BY <2>b, <4>1, <4>2, OneToggler
    <3>3. Sees'
      BY <2>b, <3>1, <3>2 DEF Sees
    <3>4. ASSUME Undisturbed PROVE SeesCapture'
      BY <2>b, <3>1, <3>2, <3>4 DEF SeesCapture
    <3> QED
      BY <2>a, <3>3, <3>4
  <2>5. ASSUME NEW t \in Togglers PROVE ~ToggleStore(t)
    BY <2>b DEF ToggleStore, Sees
  <2>6. ASSUME NEW t \in Togglers, ToggleActs(t) PROVE Sees' /\ (Undisturbed' => SeesCapture')
    <3>1. toggler' = [toggler EXCEPT ![t] = [IdleToggle EXCEPT !.at = "sleep"]]
          /\ toggler[t].at = "act" /\ UNCHANGED <<st, ifaceIdx, showPass, drawn, poller, gone>>
      BY <2>6 DEF ToggleActs
    <3>2. toggler'[t].at = "sleep" /\ \A u \in Togglers : u # t => toggler'[u] = toggler[u]
      <4> DEFINE x == [IdleToggle EXCEPT !.at = "sleep"]
      <4>1. x.at = "sleep"
        BY DEF IdleToggle
      <4>2. toggler' = [toggler EXCEPT ![t] = x]
        BY <3>1
      <4> HIDE DEF x
      <4> QED
        BY <2>b, <4>1, <4>2, OneToggler
    <3>3. Sees'
      BY <2>b, <3>1, <3>2 DEF Sees
    <3>4. ASSUME Undisturbed PROVE SeesCapture'
      BY <2>b, <3>1, <3>2, <3>4 DEF SeesCapture
    <3> QED
      BY <2>a, <3>3, <3>4
  <2>7. ASSUME NEW t \in Togglers, KeyEnter(t) PROVE Sees' /\ (Undisturbed' => SeesCapture')
    <3>1. /\ UNCHANGED <<capture, st, ifaceIdx, showPass, drawn, poller, gone>>
          /\ ~gone /\ toggler[t].at = "idle"
      BY <2>7 DEF KeyEnter
    <3> DEFINE idx == IF NIfaces = 0 THEN NoIface ELSE ifaceIdx
               x == [IdleToggle EXCEPT !.at = "act", !.running = Running(st), !.lcd = drawn,
                                       !.iface = idx]
    <3>2. toggler'[t] = x /\ \A u \in Togglers : u # t => toggler'[u] = toggler[u]
      <4>1. toggler' = [toggler EXCEPT ![t] = x]
        BY <2>7 DEF KeyEnter
      <4> HIDE DEF x
      <4> QED
        BY <2>b, <4>1, OneToggler
    <3>3. x.at = "act" /\ (x.running <=> Running(st)) /\ x.lcd = drawn /\ x.iface = idx
      BY DEF IdleToggle
    <3>4. drawn.st = st /\ (drawn.iface # NoIface => idx = drawn.iface)
      <4>1. drawn = Shown(st, ifaceIdx, showPass)
        BY <2>b, <3>1 DEF Sees
      <4> QED
        BY <4>1, ShownFields
    <3> HIDE DEF x, idx
    <3>5. Sees'
      BY <2>b, <3>1, <3>2, <3>3, <3>4 DEF Sees
    <3>6. ASSUME Undisturbed PROVE SeesCapture'
      <4>1. \A u \in Togglers : toggler[u].at = "idle"
        BY <2>7, <3>6 DEF KeyEnter
      <4>2. Running(st) => st = capture
        BY <2>b, <3>6, <4>1 DEF SeesCapture
      <4> QED
        BY <3>1, <3>2, <3>3, <3>4, <4>1, <4>2 DEF SeesCapture
    <3> QED
      BY <2>a, <3>5, <3>6
  <2>8. CASE Draw \/ KeySelects \/ KeyReveals \/ KeyPops
    <3>1. UNCHANGED <<capture, st, poller, toggler>>
      BY <2>8 DEF Draw, KeySelects, KeyReveals, KeyPops
    <3>2. ~gone' => drawn' = Shown(st, ifaceIdx', showPass')
      BY <2>8 DEF Draw, KeySelects, KeyReveals, KeyPops
    <3> QED
      BY <2>a, <2>b, <3>1, <3>2 DEF Sees, SeesCapture
  <2>9. CASE Others
    BY <2>a, <2>b, <2>9 DEF Others, Sees
  <2>10. CASE UNCHANGED hudVars
    BY <2>a, <2>b, <2>10 DEF Sees, SeesCapture
  <2> QED
    BY <2>1, <2>2, <2>3, <2>4, <2>5, <2>6, <2>7, <2>8, <2>9, <2>10 DEF HudNext, Poll, Toggle
<1>3. HudInv => HudTypeOK
  BY DEF HudInv
<1> QED
  BY <1>1, <1>2, HudTypeCorrect, PTL DEF HudSpec

\* A toggle does what the HUD offered when Enter was pressed.
THEOREM ActsAsShownHolds == HudSpec => ActsAsShown
<1>1. HudInv /\ [HudNext]_hudVars =>
        \A t \in Togglers :
          LET lcd == toggler[t].lcd IN
            /\ toggler[t].at = "act" /\ toggler'[t].at = "sleep" /\ capture' # capture
            /\ "lag" \notin hudEnv
            => IF Running(lcd.st)
                 THEN /\ capture' = NoCapture
                      /\ hudEnv \cap {"other", "hasty"} = {} => capture = lcd.st
                 ELSE /\ Running(capture')
                      /\ lcd.iface # NoIface => capture'.iface = lcd.iface
  <2> SUFFICES ASSUME HudInv, [HudNext]_hudVars, NEW t \in Togglers,
                      toggler[t].at = "act", toggler'[t].at = "sleep", capture' # capture, Prompt
               PROVE  IF Running(toggler[t].lcd.st)
                        THEN capture' = NoCapture /\ (Undisturbed => capture = toggler[t].lcd.st)
                        ELSE /\ Running(capture')
                             /\ toggler[t].lcd.iface # NoIface =>
                                  capture'.iface = toggler[t].lcd.iface
    BY DEF Prompt, Undisturbed
  <2>1. HudTypeOK /\ Sees /\ (Undisturbed => SeesCapture)
    BY DEF HudInv
  <2>2. ToggleActs(t)
    <3>1. ASSUME NEW u \in Togglers, Toggle(u) PROVE u = t
      <4>1. PICK x : toggler' = [toggler EXCEPT ![u] = x] \/ toggler' = toggler
        BY <3>1 DEF Toggle, ToggleActs, ToggleLook, ToggleStore
      <4> QED
        BY <2>1, <4>1, OneToggler
    <3>2. ASSUME NEW u \in Togglers, KeyEnter(u) PROVE FALSE
      BY <3>2 DEF KeyEnter
    <3>3. Toggle(t) => ToggleActs(t)
      BY DEF Toggle, ToggleLook, ToggleStore
    <3> QED
      BY <3>1, <3>2, <3>3 DEF HudNext, Poll, PollLook, PollStore, PollQuits, Draw, KeySelects,
                              KeyReveals, KeyPops, Others
  <2>3. CASE toggler[t].running /\ capture' = NoCapture
    BY <2>1, <2>3 DEF Sees, SeesCapture
  <2>4. CASE /\ ~toggler[t].running /\ StartOn(toggler[t].iface)
             /\ toggler[t].iface \in Indices
    BY <2>1, <2>4, StartsCapture DEF Sees
  <2> QED
    BY <2>1, <2>2, <2>3, <2>4, ToggleOutcomes
<1> QED
  BY <1>1, HudInvHolds, PTL DEF HudSpec, ActsAsShown

----------------------------------------------------------------------------
(***************************************************************************)
(* The sum: each part moves as its own specification says.                 *)
(***************************************************************************)
\* In the sum every part behaves as it does alone.
THEOREM LiveIsTheSum ==
  LiveSpec => LoginSpec /\ ImageSpec /\ HudSpec
<1>1. LiveInit => LoginInit /\ ImageInit /\ HudInit
  BY DEF LiveInit
<1>2. [LiveNext]_liveVars => /\ [LoginNext]_loginVars /\ [ImageNext]_imageVars /\ [HudNext]_hudVars
  <2>1. CASE LoginAlone(LoginNext)
    BY <2>1 DEF LoginAlone, Alone
  <2>2. CASE ImageAlone(ImageNext)
    BY <2>2 DEF ImageAlone, Alone
  <2>3. CASE HudAlone(HudNext)
    BY <2>3 DEF HudAlone, Alone
  <2>4. CASE UNCHANGED liveVars
    BY <2>4 DEF liveVars
  <2> QED BY <2>1, <2>2, <2>3, <2>4 DEF LiveNext
<1> QED BY <1>1, <1>2, PTL DEF LiveSpec, LoginSpec, ImageSpec, HudSpec

\* ... and so the types hold in the sum.
THEOREM LiveTyped == LiveSpec => []LiveTypeOK
<1>1. LoginTypeOK /\ ImageTypeOK /\ HudTypeOK => LiveTypeOK
  BY DEF LiveTypeOK
<1> QED BY <1>1, LiveIsTheSum, LoginTypeCorrect, ImagesTyped, HudTypeCorrect, PTL
=============================================================================
