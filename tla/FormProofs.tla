---------------------------- MODULE FormProofs ------------------------------
(***************************************************************************)
(* Proofs about Lists, for any heights and lengths, and about Form, for    *)
(* any forms, keyboards and texts.                                         *)
(***************************************************************************)
EXTENDS Form, Lists, SequenceTheorems, WellFoundedInduction, TLAPS

\* The greater and the lesser of two numbers.
LEMMA MaxMinOfTwo ==
  ASSUME NEW a \in Int, NEW b \in Int
  PROVE  /\ Max({a, b}) = IF a >= b THEN a ELSE b
         /\ Min({a, b}) = IF a <= b THEN a ELSE b
<1>1. Max({a, b}) = IF a >= b THEN a ELSE b
  <2>1. \E x \in {a, b} : \A y \in {a, b} : x >= y
    OBVIOUS
  <2>2. Max({a, b}) \in {a, b} /\ \A y \in {a, b} : Max({a, b}) >= y
    BY <2>1 DEF Max
  <2> QED BY <2>2
<1>2. Min({a, b}) = IF a <= b THEN a ELSE b
  <2>1. \E x \in {a, b} : \A y \in {a, b} : x <= y
    OBVIOUS
  <2>2. Min({a, b}) \in {a, b} /\ \A y \in {a, b} : Min({a, b}) <= y
    BY <2>1 DEF Min
  <2> QED BY <2>2
<1> QED BY <1>1, <1>2

\* A set of numbers has a least one.
LEMMA Least ==
  ASSUME NEW T, T \subseteq Nat, T # {}
  PROVE  Min(T) \in T /\ \A x \in T : Min(T) <= x
<1> DEFINE R == OpToRel(<, Nat)
<1>1. IsWellFoundedOn(R, Nat)
  BY NatLessThanWellFounded
<1>2. \A x, y \in Nat : x < y => <<x, y>> \in R
  BY DEF OpToRel
<1> HIDE DEF R
<1>3. \E x \in T : \A y \in T : ~ (<<y, x>> \in R)
  BY <1>1, WFMin
<1>4. \A x, y \in Nat : x <= y \/ y < x
  OBVIOUS
<1>5. \E x \in T : \A y \in T : x <= y
  BY <1>2, <1>3, <1>4, Zenon
<1> QED BY <1>5 DEF Min

----------------------------------------------------------------------------
(***************************************************************************)
(* Lists: what a list and the log view show.                               *)
(***************************************************************************)

\* A number clamped to what is between 0 and m.
LEMMA Clamping ==
  ASSUME NEW x \in Int, NEW m \in Int
  PROVE  /\ Max({0, m}) = IF m >= 0 THEN m ELSE 0
         /\ Max({0, Min({x, m})}) \in 0 .. Max({0, m})
<1> DEFINE low == Min({x, m})
<1>1. low \in Int /\ low <= m
  <2>1. low = IF x <= m THEN x ELSE m
    BY MaxMinOfTwo
  <2> QED BY <2>1
<1> HIDE DEF low
<1>2. Max({0, low}) \in 0 .. Max({0, m}) /\ Max({0, m}) = IF m >= 0 THEN m ELSE 0
  BY <1>1, MaxMinOfTwo
<1> QED BY <1>2 DEF low

----------------------------------------------------------------------------
\* The sizes are numbers, and the LCD has a row.
LEMMA ListSizes ==
  /\ MaxRows \in Nat /\ ListRows \in Nat /\ ListRows > 0 /\ MaxLength \in Nat
  /\ FullCols \in Nat /\ BarCols \in Nat /\ HPanStep \in Nat
BY ListsAssumption

\* The last place a window of a size may be at.
LEMMA LastPlace ==
  ASSUME NEW n \in Nat, NEW size \in Nat
  PROVE  /\ Max({0, n - size}) \in 0 .. n
         /\ \A x \in Int : Max({0, Min({x, n - size})}) \in 0 .. Max({0, n - size})
         /\ \A x \in Int : Max({0, Min({x, Max({0, n - size})})}) \in 0 .. Max({0, n - size})
<1> DEFINE m == n - size
<1>1. m \in Int /\ m <= n
  OBVIOUS
<1> HIDE DEF m
<1>2. Max({0, m}) = IF m >= 0 THEN m ELSE 0
  BY <1>1, Clamping
<1>3. Max({0, m}) \in 0 .. n /\ Max({0, m}) \in Nat
  BY <1>1, <1>2
<1> DEFINE last == Max({0, m})
<1>4. \A x \in Int : Max({0, Min({x, m})}) \in 0 .. last
  BY <1>1, Clamping
<1> HIDE DEF last
<1>5. last \in Nat /\ Max({0, last}) = last
  <2>1. last \in Nat
    BY <1>3 DEF last
  <2>2. last \in Int
    BY <2>1
  <2>3. Max({0, last}) = IF 0 >= last THEN 0 ELSE last
    BY <2>2, MaxMinOfTwo
  <2> QED BY <2>1, <2>3
<1>6. \A x \in Int : Max({0, Min({x, last})}) \in 0 .. last
  <2> TAKE x \in Int
  <2>1. Max({0, Min({x, last})}) \in 0 .. Max({0, last})
    BY <1>5, Clamping
  <2> QED BY <1>5, <2>1
<1> QED BY <1>3, <1>4, <1>6 DEF m, last

\* A log view while its keys are handled, and after a draw.
LogViews == [top : Int, left : Int, cols : {BarCols, FullCols},
             total : 0 .. MaxRows, maxLen : 0 .. MaxLength]
LogType  == [top : 0 .. MaxRows, left : 0 .. MaxLength, cols : {BarCols, FullCols},
             total : 0 .. MaxRows, maxLen : 0 .. MaxLength]
InWindow(lv) == /\ lv.top \in 0 .. Max({0, lv.total - ListRows})
                /\ lv.left \in 0 .. Max({0, lv.maxLen - lv.cols})

\* LogView.clamp brings the window back over the lines.
LEMMA ClampedIs ==
  ASSUME NEW lv \in LogViews
  PROVE  Clamped(lv) \in LogType /\ InWindow(Clamped(lv))
<1> DEFINE top == Max({0, Min({lv.top, lv.total - ListRows})})
           left == Max({0, Min({lv.left, Max({0, lv.maxLen - lv.cols})})})
           lv1 == [lv EXCEPT !.top = top]
           lv2 == [lv1 EXCEPT !.left = left]
<1>1. /\ lv.top \in Int /\ lv.left \in Int /\ lv.cols \in {BarCols, FullCols} /\ lv.cols \in Nat
      /\ lv.total \in 0 .. MaxRows /\ lv.maxLen \in 0 .. MaxLength
      /\ lv.total \in Nat /\ lv.maxLen \in Nat
  BY ListSizes DEF LogViews
<1>2. /\ top \in 0 .. Max({0, lv.total - ListRows}) /\ Max({0, lv.total - ListRows}) \in 0 .. lv.total
      /\ left \in 0 .. Max({0, lv.maxLen - lv.cols}) /\ Max({0, lv.maxLen - lv.cols}) \in 0 .. lv.maxLen
  BY <1>1, ListSizes, LastPlace
<1>3. top \in 0 .. MaxRows /\ left \in 0 .. MaxLength
  BY <1>1, <1>2, ListSizes
<1>4. Clamped(lv) = lv2
  BY Zenon DEF Clamped
<1> HIDE DEF top, left
<1>5. /\ lv1 = [top |-> top, left |-> lv.left, cols |-> lv.cols, total |-> lv.total, maxLen |-> lv.maxLen]
  BY DEF LogViews
<1>6. lv2 = [top |-> top, left |-> left, cols |-> lv.cols, total |-> lv.total, maxLen |-> lv.maxLen]
  <2> HIDE DEF lv1
  <2> QED BY <1>5
<1> HIDE DEF lv2
<1>7. lv2 \in LogType
  BY <1>1, <1>3, <1>6 DEF LogType
<1>8. lv2.top = top /\ lv2.left = left /\ lv2.cols = lv.cols /\ lv2.total = lv.total /\ lv2.maxLen = lv.maxLen
  BY <1>6
<1> QED BY <1>2, <1>4, <1>7, <1>8 DEF InWindow

\* So does every draw, whatever lines there are now.
LEMMA DrawnIs ==
  ASSUME NEW lv \in LogViews, NEW out \in Output
  PROVE  Drawn(lv, out) \in LogType /\ InWindow(Drawn(lv, out))
<1> DEFINE cols == IF out.total > ListRows THEN BarCols ELSE FullCols
           d1 == [lv EXCEPT !.total = out.total]
           d2 == [d1 EXCEPT !.maxLen = out.maxLen]
           d3 == [d2 EXCEPT !.cols = cols]
<1>1. out.total \in 0 .. MaxRows /\ out.maxLen \in 0 .. MaxLength
  BY DEF Output
<1>2. d1 \in LogViews
  BY <1>1 DEF LogViews
<1> HIDE DEF d1
<1>3. d2 \in LogViews
  BY <1>1, <1>2 DEF LogViews
<1> HIDE DEF d2
<1>4. d3 \in LogViews
  BY <1>3 DEF LogViews
<1>5. Drawn(lv, out) = Clamped(d3)
  BY Zenon DEF Drawn, d1, d2
<1> HIDE DEF d3
<1> QED BY <1>4, <1>5, ClampedIs

\* A log view with its types is one of the views Drawn is about.
LEMMA LogTypeIsView == LogType \subseteq LogViews
BY ListSizes DEF LogType, LogViews

----------------------------------------------------------------------------
(***************************************************************************)
(* The focus of a history is among the rows on the LCD, of a menu among    *)
(* its items.                                                              *)
(***************************************************************************)
HistoryShown(h) ==
  /\ h.focus \in 0 .. MaxRows /\ h.scroll \in 0 .. MaxRows
  /\ h.runs = 0 => h.focus = 0 /\ h.scroll = 0
  /\ h.runs > 0 => /\ h.focus \in 0 .. h.runs - 1
                   /\ h.scroll <= h.focus /\ h.focus < h.scroll + ListRows
                   /\ h.scroll = 0 \/ h.scroll <= h.runs - ListRows

HistoryType == [runs : 0 .. MaxRows, focus : 0 .. MaxRows, scroll : 0 .. MaxRows]

ListsInv ==
  /\ menu \in [items : 0 .. MaxRows, focus : 0 .. MaxRows]
  /\ menu.items > 0 => menu.focus \in 0 .. menu.items - 1
  /\ history \in HistoryType /\ HistoryShown(history)
  /\ lines \in Output
  /\ log \in LogType /\ InWindow(log)

\* The first draw clamps what the screens begin with.
LEMMA ListsInvInit == ListsInit => ListsInv
<1> SUFFICES ASSUME ListsInit PROVE ListsInv
  OBVIOUS
<1>1. NewLogView \in LogViews
  BY ListSizes DEF NewLogView, LogViews
<1>2. log \in LogType /\ InWindow(log)
  BY <1>1, DrawnIs DEF ListsInit
<1>3. /\ menu \in [items : 0 .. MaxRows, focus : 0 .. MaxRows]
      /\ menu.items > 0 => menu.focus \in 0 .. menu.items - 1
  BY ListSizes DEF ListsInit
<1>4. history \in HistoryType /\ HistoryShown(history)
  BY ListSizes DEF ListsInit, HistoryType, HistoryShown
<1> QED BY <1>2, <1>3, <1>4 DEF ListsInit, ListsInv

\* HistoryScreen.Draw after a key moved the focus by one row.
LEMMA HistoryKeyShows ==
  ASSUME NEW h \in HistoryType, HistoryShown(h), NEW f \in FocusMoves(h.focus, h.runs)
  PROVE  LET g == [h EXCEPT !.focus = f]
             k == [g EXCEPT !.scroll = HistoryScrolled(g)]
         IN  k \in HistoryType /\ HistoryShown(k)
<1> DEFINE g == [h EXCEPT !.focus = f]
           s == HistoryScrolled(g)
           k == [g EXCEPT !.scroll = s]
<1>1. /\ h.runs \in 0 .. MaxRows /\ h.focus \in 0 .. MaxRows /\ h.scroll \in 0 .. MaxRows
      /\ f \in 0 .. h.runs - 1 /\ f \in {h.focus - 1, h.focus + 1} /\ h.runs > 0
  BY ListSizes DEF HistoryType, FocusMoves
<1>2. g.runs = h.runs /\ g.focus = f /\ g.scroll = h.scroll /\ g \in HistoryType
  BY <1>1, ListSizes DEF HistoryType
<1> HIDE DEF g
<1>3. s = IF f < h.scroll THEN f
          ELSE IF f >= h.scroll + ListRows THEN f - ListRows + 1 ELSE h.scroll
  BY <1>1, <1>2, ListSizes DEF HistoryScrolled
<1> HIDE DEF s
<1>4. /\ s \in 0 .. MaxRows /\ s <= f /\ f < s + ListRows
      /\ s = 0 \/ s <= h.runs - ListRows
  BY <1>1, <1>3, ListSizes DEF HistoryShown
<1>5. k \in HistoryType /\ k.runs = h.runs /\ k.focus = f /\ k.scroll = s
  BY <1>2, <1>4 DEF HistoryType
<1> HIDE DEF k
<1>6. HistoryShown(k)
  BY <1>1, <1>4, <1>5, ListSizes DEF HistoryShown
<1> QED BY <1>5, <1>6 DEF k, s, g

\* One step per key, and a refresh that replaces the lines of a log view.
LEMMA ListsInvStep == ListsInv /\ [ListsNext]_listVars => ListsInv'
<1> SUFFICES ASSUME ListsInv, [ListsNext]_listVars PROVE ListsInv'
  OBVIOUS
<1>1. CASE MenuKey
  BY <1>1, ListSizes DEF MenuKey, FocusMoves, ListsInv
<1>2. CASE HistoryKey
  <2>1. history' \in HistoryType /\ HistoryShown(history')
    BY <1>2, HistoryKeyShows DEF HistoryKey, ListsInv
  <2> QED BY <1>2, <2>1 DEF HistoryKey, ListsInv
<1>3. CASE NewLines
  BY <1>3 DEF NewLines, ListsInv
<1>4. CASE LogTick
  <2>1. log' \in LogType /\ InWindow(log')
    BY <1>4, DrawnIs, LogTypeIsView DEF LogTick, ListsInv
  <2> QED BY <1>4, <2>1 DEF LogTick, ListsInv
<1>5. CASE LogKey
  <2>1. /\ [log EXCEPT !.top = @ + 1] \in LogViews /\ [log EXCEPT !.top = @ - 1] \in LogViews
        /\ [log EXCEPT !.left = @ + HPanStep] \in LogViews
        /\ [log EXCEPT !.left = @ - HPanStep] \in LogViews
    BY ListSizes, LogTypeIsView DEF ListsInv, LogViews
  <2>2. PICK lv \in LogViews : log' = Drawn(Clamped(lv), lines)
    BY <1>5, <2>1 DEF LogKey
  <2>3. log' \in LogType /\ InWindow(log')
    BY <2>2, ClampedIs, DrawnIs, LogTypeIsView DEF ListsInv
  <2> QED BY <1>5, <2>3 DEF LogKey, ListsInv
<1>6. CASE UNCHANGED listVars
  BY <1>6 DEF listVars, ListsInv
<1> QED BY <1>1, <1>2, <1>3, <1>4, <1>5, <1>6 DEF ListsNext

\* The types of the views hold in every state.
THEOREM ListsTyped == ListsSpec => []ListsTypeOK
<1>1. ListsInv => ListsTypeOK
  BY DEF ListsInv, ListsTypeOK, LogType, HistoryType
<1> QED BY <1>1, ListsInvInit, ListsInvStep, PTL DEF ListsSpec

\* The focused row is on the LCD, and a window never leaves its lines: the Draw
\* and Key of MenuScreen, HistoryScreen and LogView, for any numbers of rows,
\* runs and lines and any size of the LCD.
THEOREM RowsAreShown == ListsSpec => []RowsShown
<1>1. ListsInv => RowsShown
  <2> SUFFICES ASSUME ListsInv PROVE RowsShown
    OBVIOUS
  <2> DEFINE h == history
  <2>1. /\ h.runs \in Nat /\ h.focus \in Nat /\ h.scroll \in Nat /\ HistoryShown(h)
    BY ListSizes DEF ListsInv, HistoryType
  <2> HIDE DEF h
  <2>2. ASSUME h.runs > 0
        PROVE  /\ h.focus \in h.scroll .. Min({h.scroll + ListRows, h.runs}) - 1
               /\ h.scroll <= Max({0, h.runs - ListRows})
    <3>1. Min({h.scroll + ListRows, h.runs})
            = IF h.scroll + ListRows <= h.runs THEN h.scroll + ListRows ELSE h.runs
      <4>1. h.scroll + ListRows \in Int /\ h.runs \in Int
        BY <2>1, ListSizes
      <4> QED BY <4>1, MaxMinOfTwo
    <3>2. Max({0, h.runs - ListRows}) = IF h.runs - ListRows >= 0 THEN h.runs - ListRows ELSE 0
      <4>1. h.runs - ListRows \in Int
        BY <2>1, ListSizes
      <4> QED BY <4>1, Clamping
    <3> QED BY <2>1, <2>2, <3>1, <3>2, ListSizes DEF HistoryShown
  <2>3. menu.items \in 1 .. ListRows => menu.focus \in 0 .. menu.items - 1
    BY ListSizes DEF ListsInv
  <2> QED BY <2>2, <2>3 DEF ListsInv, InWindow, RowsShown, h
<1> QED BY <1>1, ListsInvInit, ListsInvStep, PTL DEF ListsSpec

----------------------------------------------------------------------------
(***************************************************************************)
(* Form: the text fields and the scrolling of a config form.               *)
(***************************************************************************)

\* A fold over one index.
LEMMA FoldOne ==
  ASSUME NEW f, NEW x, f[x] \in Nat
  PROVE  FoldFunctionOnSet(+, 0, f, {x}) = f[x]
<1> DEFINE D == SUBSET {x}
           Is(g) == g = [s \in D |-> IF s = {} THEN 0
                                     ELSE LET y == CHOOSE z \in s : TRUE IN f[y] + g[s \ {y}]]
           h == [s \in D |-> IF s = {} THEN 0 ELSE f[x]]
<1>1. FoldFunctionOnSet(+, 0, f, {x}) = (CHOOSE g : Is(g))[{x}]
  BY DEF FoldFunctionOnSet, MapThenFoldSet
<1>2. /\ {} \in D /\ {x} \in D /\ {x} # {} /\ {x} \ {x} = {}
      /\ \A s \in D : s = {} \/ s = {x}
      /\ (CHOOSE z \in {x} : TRUE) = x
  OBVIOUS
<1> HIDE DEF D
<1>3. ASSUME NEW g, Is(g) PROVE g[{x}] = f[x]
  <2>1. g[{}] = 0
    BY <1>2, <1>3
  <2>2. g[{x}] = f[x] + g[{}]
    BY <1>2, <1>3
  <2> QED BY <2>1, <2>2
<1>4. Is(h)
  <2>1. ASSUME NEW s \in D, s # {}
        PROVE  f[x] = LET y == CHOOSE z \in s : TRUE IN f[y] + h[s \ {y}]
    <3>1. s = {x} /\ h[{}] = 0
      BY <1>2, <2>1
    <3>2. (CHOOSE z \in s : TRUE) = x
      BY <1>2, <3>1
    <3>3. s \ {x} = {}
      BY <3>1
    <3> HIDE DEF h
    <3> QED BY <3>1, <3>2, <3>3
  <2> QED BY <2>1
<1>5. Is(CHOOSE g : Is(g))
  BY <1>4
<1> HIDE DEF Is
<1> QED BY <1>1, <1>3, <1>5

----------------------------------------------------------------------------
(***************************************************************************)
(* textField.edit on a text that is what is before the caret and what is   *)
(* after it.                                                               *)
(***************************************************************************)
LEMMA TextParts ==
  ASSUME NEW S, NEW b \in Seq(S), NEW a \in Seq(S)
  PROVE  /\ b \o a \in Seq(S) /\ Len(b \o a) = Len(b) + Len(a)
         /\ SubSeq(b \o a, 1, Len(b)) = b
         /\ SubSeq(b \o a, Len(b) + 1, Len(b \o a)) = a
<1>1. /\ b \o a \in Seq(S) /\ Len(b \o a) = Len(b) + Len(a)
      /\ \A i \in 1 .. Len(b) + Len(a) : (b \o a)[i] = IF i <= Len(b) THEN b[i] ELSE a[i - Len(b)]
  BY ConcatProperties
<1>2. Len(a) \in Nat /\ Len(b) \in Nat
  OBVIOUS
<1> DEFINE t == b \o a
<1> HIDE DEF t
<1>3. SubSeq(t, 1, Len(b)) = b
  BY <1>1, <1>2 DEF t
<1>4. SubSeq(t, Len(b) + 1, Len(t)) = a
  BY <1>1, <1>2 DEF t
<1> QED BY <1>1, <1>3, <1>4 DEF t

\* What is before the caret, when there is something.
LEMMA BeforeParts ==
  ASSUME NEW S, NEW b \in Seq(S), NEW a \in Seq(S), b # <<>>
  PROVE  /\ Front(b) \in Seq(S) /\ Last(b) \in S /\ Len(Front(b)) = Len(b) - 1
         /\ b = Append(Front(b), Last(b))
         /\ SubSeq(b \o a, 1, Len(b) - 1) = Front(b)
<1> DEFINE n == Len(b) - 1
           t == b \o a
<1>1. n \in Nat /\ n + 1 = Len(b) /\ \A i \in 1 .. n : b[i] \in S
  OBVIOUS
<1>2. Len(t) = Len(b) + Len(a) /\ \A i \in 1 .. Len(b) : t[i] = b[i]
  BY ConcatProperties
<1> HIDE DEF n, t
<1>3. /\ SubSeq(b, 1, n) \in Seq(S) /\ Len(SubSeq(b, 1, n)) = IF 1 <= n THEN n - 1 + 1 ELSE 0
      /\ \A i \in 1 .. n - 1 + 1 : SubSeq(b, 1, n)[i] = b[1 + i - 1]
  BY <1>1, SubSeqProperties
<1>4. Len(SubSeq(b, 1, n)) = n /\ \A i \in 1 .. n : SubSeq(b, 1, n)[i] = b[i]
  BY <1>1, <1>3
<1>5. Front(b) = SubSeq(b, 1, n)
  BY DEF Front, n
<1>6. Last(b) = b[n + 1] /\ Last(b) \in S
  BY <1>1 DEF Last
<1>7. b = Append(Front(b), Last(b))
  BY <1>1, <1>3, <1>4, <1>5, <1>6
<1>8. SubSeq(t, 1, n) = SubSeq(b, 1, n)
  BY <1>1, <1>2
<1> QED BY <1>3, <1>4, <1>5, <1>6, <1>7, <1>8 DEF n, t

\* What is after it.
LEMMA AfterParts ==
  ASSUME NEW S, NEW a \in Seq(S), a # <<>>
  PROVE  /\ Head(a) \in S /\ Tail(a) \in Seq(S)
         /\ a = <<Head(a)>> \o Tail(a)
<1>1. Len(a) > 0
  OBVIOUS
<1>2. /\ Head(a) \in S /\ Tail(a) \in Seq(S) /\ Len(Tail(a)) = Len(a) - 1
      /\ \A i \in 1 .. Len(Tail(a)) : Tail(a)[i] = a[i+1]
  BY HeadTailProperties
<1>3. a = <<Head(a)>> \o Tail(a)
  BY <1>1, <1>2
<1> QED BY <1>2, <1>3

\* A key typed goes where the caret is.
LEMMA InsertedIs ==
  ASSUME NEW S, NEW b \in Seq(S), NEW a \in Seq(S), NEW r \in S
  PROVE  Inserted(b \o a, Len(b), r) = Append(b, r) \o a
<1>1. Inserted(b \o a, Len(b), r) = b \o <<r>> \o a
  <2> DEFINE t == b \o a
  <2>1. SubSeq(t, 1, Len(b)) = b /\ SubSeq(t, Len(b) + 1, Len(t)) = a
    BY TextParts
  <2> HIDE DEF t
  <2>2. Inserted(t, Len(b), r) = b \o <<r>> \o a
    BY <2>1, Zenon DEF Inserted
  <2> QED BY <2>2 DEF t
<1>2. b \o <<r>> = Append(b, r)
  BY AppendIsConcat
<1> QED BY <1>1, <1>2

\* A backspace takes what is before it.
LEMMA RemovedIs ==
  ASSUME NEW S, NEW b \in Seq(S), NEW a \in Seq(S), b # <<>>
  PROVE  RemoveAt(b \o a, Len(b)) = Front(b) \o a
<1> DEFINE t == b \o a
<1>1. SubSeq(t, 1, Len(b) - 1) = Front(b) /\ SubSeq(t, Len(b) + 1, Len(t)) = a
  <2>1. SubSeq(b \o a, 1, Len(b) - 1) = Front(b)
    BY BeforeParts
  <2>2. SubSeq(b \o a, Len(b) + 1, Len(b \o a)) = a
    BY TextParts
  <2> QED BY <2>1, <2>2
<1> HIDE DEF t
<1>2. RemoveAt(t, Len(b)) = Front(b) \o a
  BY <1>1, Zenon DEF RemoveAt
<1> QED BY <1>2 DEF t

\* An arrow moves the caret: the text stays.
LEMMA MovedIs ==
  ASSUME NEW S, NEW b \in Seq(S), NEW a \in Seq(S)
  PROVE  /\ b # <<>> => Front(b) \o (<<Last(b)>> \o a) = b \o a
         /\ a # <<>> => Append(b, Head(a)) \o Tail(a) = b \o a
<1>1. ASSUME b # <<>> PROVE Front(b) \o (<<Last(b)>> \o a) = b \o a
  <2>1. Front(b) \in Seq(S) /\ Last(b) \in S /\ b = Append(Front(b), Last(b))
    BY <1>1, BeforeParts
  <2>2. <<Last(b)>> \in Seq(S) /\ b = Front(b) \o <<Last(b)>>
    BY <2>1, AppendIsConcat
  <2>3. (Front(b) \o <<Last(b)>>) \o a = Front(b) \o (<<Last(b)>> \o a)
    BY <2>1, <2>2, ConcatAssociative
  <2> QED BY <2>2, <2>3
<1>2. ASSUME a # <<>> PROVE Append(b, Head(a)) \o Tail(a) = b \o a
  <2>1. Head(a) \in S /\ Tail(a) \in Seq(S) /\ a = <<Head(a)>> \o Tail(a)
    BY <1>2, AfterParts
  <2>2. <<Head(a)>> \in Seq(S) /\ Append(b, Head(a)) = b \o <<Head(a)>>
    BY <2>1, AppendIsConcat
  <2>3. (b \o <<Head(a)>>) \o Tail(a) = b \o (<<Head(a)>> \o Tail(a))
    BY <2>1, <2>2, ConcatAssociative
  <2> QED BY <2>1, <2>2, <2>3
<1> QED BY <1>1, <1>2

----------------------------------------------------------------------------
(***************************************************************************)
(* The texts are what was typed.                                           *)
(***************************************************************************)
RuneTexts      == Seq(DOMAIN Runes)
FieldValue == [buf : RuneTexts, cursor : Nat, on : BOOLEAN]
Gap        == [before : RuneTexts, after : RuneTexts]

Faithful(v, g) == v.buf = g.before \o g.after /\ v.cursor = Len(g.before)

\* What edit changes in a field, and in the two texts that it is.
WithText(v, t, n) == [v EXCEPT !.buf = t, !.cursor = n]

\* A field with another text and caret is a field with them.
LEMMA FieldSet ==
  ASSUME NEW v \in FieldValue, NEW t \in RuneTexts, NEW n \in Nat
  PROVE  /\ WithText(v, t, n) \in FieldValue
         /\ WithText(v, t, n).buf = t /\ WithText(v, t, n).cursor = n
<1> DEFINE w == [v EXCEPT !.buf = t]
<1>1. w \in FieldValue /\ w.buf = t
  BY DEF FieldValue
<1> HIDE DEF w
<1>2. /\ [w EXCEPT !.cursor = n] \in FieldValue /\ [w EXCEPT !.cursor = n].buf = t
      /\ [w EXCEPT !.cursor = n].cursor = n
  BY <1>1 DEF FieldValue
<1>3. [w EXCEPT !.cursor = n] = WithText(v, t, n)
  BY Zenon DEF w, WithText
<1> QED BY <1>2, <1>3

\* A field with another caret is a field with that and its text.
LEMMA CaretSet ==
  ASSUME NEW v \in FieldValue, NEW n \in Nat
  PROVE  /\ [v EXCEPT !.cursor = n] \in FieldValue
         /\ [v EXCEPT !.cursor = n].buf = v.buf /\ [v EXCEPT !.cursor = n].cursor = n
BY DEF FieldValue

\* textField.edit, key by key.
LEMMA EditKeeps ==
  ASSUME NEW v \in FieldValue, NEW g \in Gap, Faithful(v, g),
         NEW key, NEW rune \in DOMAIN Runes \cup {NoRune}
  PROVE  /\ Edited(v, key, rune) \in FieldValue /\ GapEdited(g, key, rune) \in Gap
         /\ Faithful(Edited(v, key, rune), GapEdited(g, key, rune))
<1> DEFINE b == g.before
           a == g.after
           w == Edited(v, key, rune)
           h == GapEdited(g, key, rune)
           Good == w \in FieldValue /\ h \in Gap /\ Faithful(w, h)
<1>1. b \in RuneTexts /\ a \in RuneTexts /\ v.buf = b \o a /\ v.cursor = Len(b) /\ v.buf \in RuneTexts
  BY DEF Faithful, FieldValue, Gap
<1>2. Len(b) \in Nat /\ Len(a) \in Nat /\ Len(b \o a) = Len(b) + Len(a)
  BY <1>1, TextParts DEF RuneTexts
<1>3. (v.cursor > 0 <=> b # <<>>) /\ (v.cursor < Len(v.buf) <=> a # <<>>)
  <2>1. (Len(b) > 0 <=> b # <<>>) /\ (Len(a) > 0 <=> a # <<>>)
    BY <1>1 DEF RuneTexts
  <2>2. Len(v.buf) = Len(b) + Len(a)
    BY <1>1, <1>2
  <2> HIDE DEF a, b
  <2> QED BY <1>1, <1>2, <2>1, <2>2
<1>4. NoRune \notin DOMAIN Runes
  BY FormAssumption
<1>5. CASE rune # NoRune
  <2> DEFINE t == Inserted(v.buf, v.cursor, rune)
             p == Append(b, rune)
  <2>1. rune \in DOMAIN Runes
    BY <1>5
  <2>2. p \in RuneTexts /\ Len(p) = v.cursor + 1 /\ p \o a \in RuneTexts
    BY <1>1, <2>1, ConcatProperties DEF RuneTexts
  <2>3. t = p \o a
    BY <1>1, <2>1, InsertedIs DEF RuneTexts
  <2>4. w = WithText(v, t, v.cursor + 1)
    BY <1>5 DEF Edited, WithText
  <2>5. h = [g EXCEPT !.before = p]
    BY <1>5 DEF GapEdited
  <2> HIDE DEF t, p, w, h
  <2>6. h \in Gap /\ h.before = p /\ h.after = a
    BY <2>2, <2>5 DEF Gap
  <2>7. v.cursor + 1 \in Nat /\ t \in RuneTexts
    BY <1>1, <1>2, <2>2, <2>3
  <2>8. w \in FieldValue /\ w.buf = t /\ w.cursor = v.cursor + 1
    <3> DEFINE n == v.cursor + 1
    <3>1. n \in Nat /\ w = WithText(v, t, n)
      BY <2>4, <2>7
    <3> HIDE DEF n
    <3>2. w \in FieldValue /\ w.buf = t /\ w.cursor = n
      BY <2>7, <3>1, FieldSet
    <3> QED BY <3>2 DEF n
  <2>9. Good
    BY <2>2, <2>3, <2>6, <2>8 DEF Faithful
  <2> QED BY <2>9 DEF w, h
<1>6. CASE rune = NoRune /\ key = "Backspace" /\ b # <<>>
  <2> DEFINE t == RemoveAt(v.buf, v.cursor)
             p == Front(b)
  <2>1. p \in RuneTexts /\ Len(p) = v.cursor - 1 /\ v.cursor - 1 \in Nat
    BY <1>1, <1>3, <1>6, BeforeParts DEF RuneTexts
  <2>2. t = p \o a
    BY <1>1, <1>6, RemovedIs DEF RuneTexts
  <2>3. t \in RuneTexts
    BY <1>1, <2>1, <2>2, ConcatProperties DEF RuneTexts
  <2>4. w = WithText(v, t, v.cursor - 1)
    BY <1>3, <1>6 DEF Edited, WithText
  <2>5. h = [g EXCEPT !.before = p]
    BY <1>6 DEF GapEdited
  <2> HIDE DEF t, p, w, h
  <2>6. h \in Gap /\ h.before = p /\ h.after = a
    BY <2>1, <2>5 DEF Gap
  <2>7. w \in FieldValue /\ w.buf = t /\ w.cursor = v.cursor - 1
    <3> DEFINE n == v.cursor - 1
    <3>1. n \in Nat /\ w = WithText(v, t, n)
      BY <2>1, <2>4
    <3> HIDE DEF n
    <3>2. w \in FieldValue /\ w.buf = t /\ w.cursor = n
      BY <2>3, <3>1, FieldSet
    <3> QED BY <3>2 DEF n
  <2>8. Good
    BY <2>1, <2>2, <2>6, <2>7 DEF Faithful
  <2> QED BY <2>8 DEF w, h
<1>7. CASE rune = NoRune /\ key = "Left" /\ b # <<>>
  <2> DEFINE p == Front(b)
             q == <<Last(b)>> \o a
  <2>1. p \in RuneTexts /\ Len(p) = v.cursor - 1 /\ v.cursor - 1 \in Nat /\ Last(b) \in DOMAIN Runes
    BY <1>1, <1>3, <1>7, BeforeParts DEF RuneTexts
  <2>2. q \in RuneTexts
    BY <1>1, <2>1, ConcatProperties DEF RuneTexts
  <2>3. p \o q = v.buf
    BY <1>1, <1>7, MovedIs DEF RuneTexts
  <2>4. w = [v EXCEPT !.cursor = v.cursor - 1]
    BY <1>3, <1>7 DEF Edited
  <2>5. h = [before |-> p, after |-> q]
    BY <1>7 DEF GapEdited
  <2> HIDE DEF p, q, w, h
  <2>6. h \in Gap /\ h.before = p /\ h.after = q
    BY <2>1, <2>2, <2>5 DEF Gap
  <2>7. w \in FieldValue /\ w.buf = v.buf /\ w.cursor = v.cursor - 1
    BY <1>1, <2>1, <2>4, CaretSet
  <2>8. Good
    BY <2>1, <2>3, <2>6, <2>7 DEF Faithful
  <2> QED BY <2>8 DEF w, h
<1>8. CASE rune = NoRune /\ key = "Right" /\ a # <<>>
  <2> DEFINE p == Append(b, Head(a))
             q == Tail(a)
  <2>1. Head(a) \in DOMAIN Runes /\ q \in RuneTexts
    BY <1>1, <1>8, AfterParts DEF RuneTexts
  <2>2. p \in RuneTexts /\ Len(p) = v.cursor + 1 /\ v.cursor + 1 \in Nat
    BY <1>1, <1>2, <2>1 DEF RuneTexts
  <2>3. p \o q = v.buf
    BY <1>1, <1>8, MovedIs DEF RuneTexts
  <2>4. w = [v EXCEPT !.cursor = v.cursor + 1]
    BY <1>3, <1>8 DEF Edited
  <2>5. h = [before |-> p, after |-> q]
    BY <1>8 DEF GapEdited
  <2> HIDE DEF p, q, w, h
  <2>6. h \in Gap /\ h.before = p /\ h.after = q
    BY <2>1, <2>2, <2>5 DEF Gap
  <2>7. w \in FieldValue /\ w.buf = v.buf /\ w.cursor = v.cursor + 1
    BY <1>1, <2>2, <2>4, CaretSet
  <2>8. Good
    BY <2>2, <2>3, <2>6, <2>7 DEF Faithful
  <2> QED BY <2>8 DEF w, h
<1>9. CASE /\ rune = NoRune /\ ~(key = "Backspace" /\ b # <<>>)
           /\ ~(key = "Left" /\ b # <<>>) /\ ~(key = "Right" /\ a # <<>>)
  <2>1. w = v
    BY <1>3, <1>9 DEF Edited
  <2>2. h = g
    BY <1>9 DEF GapEdited
  <2> QED BY <2>1, <2>2
<1> QED BY <1>5, <1>6, <1>7, <1>8, <1>9

----------------------------------------------------------------------------
(***************************************************************************)
(* The focused field is on the LCD.                                        *)
(***************************************************************************)
LEMMA FormSizes ==
  ASSUME fields \in FormSet
  PROVE  /\ ContentH \in Nat /\ RowH <= ContentH /\ BoxChars \in Nat \ {0}
         /\ fields \in Seq(FieldRecords) /\ DOMAIN fields = 1 .. Len(fields) /\ Len(fields) \in Nat
         /\ \A i \in DOMAIN fields : fields[i] \in FieldRecords
BY FormAssumption DEF RowH

\* drawConfig scrolls to a field above the focus from which both fit, or to the
\* focus, and a field that is no note fits alone.
LEMMA ScrolledIs ==
  ASSUME fields \in FormSet, NEW focus \in Nat \ {0}, NEW scroll \in Nat \ {0}
  PROVE  /\ Scrolled(focus, scroll) \in 1 .. focus
         /\ focus \in Inputs => Span(Scrolled(focus, scroll), focus) <= ContentH
<1> DEFINE from == Min({focus, scroll})
           T == {s \in from .. focus : Span(s, focus) <= ContentH \/ s = focus}
           s == Scrolled(focus, scroll)
<1>1. from \in {focus, scroll} /\ from <= focus
  BY Least
<1>2. focus \in T /\ T \subseteq Nat /\ T # {} /\ T \subseteq 1 .. focus
  BY <1>1
<1>3. s = Min(T)
  BY DEF Scrolled
<1>4. Min(T) \in T
  BY <1>2, Least
<1>5. s \in 1 .. focus /\ (Span(s, focus) <= ContentH \/ s = focus)
  BY <1>2, <1>3, <1>4
<1>6. ASSUME focus \in Inputs PROVE Span(focus, focus) <= ContentH
  <2> DEFINE f == [i \in DOMAIN fields |-> FieldHeight(fields[i])]
  <2>1. focus \in DOMAIN fields /\ fields[focus].type # "note"
    BY <1>6 DEF Inputs
  <2>2. f[focus] = RowH
    BY <2>1 DEF FieldHeight
  <2>3. (focus .. focus) \cap DOMAIN fields = {focus}
    BY <2>1
  <2> HIDE DEF f
  <2>4. f[focus] \in Nat
    BY <2>2 DEF RowH
  <2>6. FoldFunctionOnSet(+, 0, f, {focus}) = f[focus]
    BY <2>4, FoldOne
  <2>5. Span(focus, focus) = RowH
    BY <2>2, <2>3, <2>6 DEF Span, f
  <2> QED BY <2>5, FormSizes
<1> QED BY <1>5, <1>6

----------------------------------------------------------------------------
\* Span of the fields fs: Span with what it depends on as a parameter.
SpanOf(fs, from, to) == FoldFunctionOnSet(+, 0, [i \in DOMAIN fs |-> FieldHeight(fs[i])],
                                          (from .. to) \cap DOMAIN fs)

\* It is Span, of the fields of this screen.
LEMMA SpanIs == ASSUME NEW from, NEW to PROVE Span(from, to) = SpanOf(fields, from, to)
BY DEF Span, SpanOf

FocusShown == /\ fieldFocus \in Inputs /\ SpanOf(fields, fieldScroll, fieldFocus) <= ContentH
SentWhole  == \A i \in TextFields : fields[i].required => Range(sent[i]) \ {Space} # {}

FormInv ==
  /\ fields \in FormSet
  /\ value \in [DOMAIN fields -> FieldValue] /\ typed \in [DOMAIN fields -> Gap]
  /\ \A i \in DOMAIN fields : Faithful(value[i], typed[i])
  /\ fieldFocus \in DOMAIN fields \cup {1} /\ fieldFocus \in Nat \ {0}
  /\ fieldScroll \in 1 .. fieldFocus
  /\ missing \in BOOLEAN
  /\ Inputs # {} => FocusShown
  /\ sent # NothingSent => SentWhole

\* The caret is in the text because it is where the first half ends.
LEMMA FormInvTypeOK == FormInv => FormTypeOK
<1> SUFFICES ASSUME FormInv PROVE FormTypeOK
  OBVIOUS
<1>1. ASSUME NEW i \in DOMAIN fields
      PROVE  /\ value[i].buf \in Seq(DOMAIN Runes) /\ value[i].on \in BOOLEAN
             /\ value[i].cursor \in 0 .. Len(value[i].buf)
  <2> DEFINE b == typed[i].before
             a == typed[i].after
  <2>1. /\ b \in RuneTexts /\ a \in RuneTexts /\ value[i].buf = b \o a /\ value[i].cursor = Len(b)
        /\ value[i].on \in BOOLEAN
    BY DEF FormInv, Faithful, FieldValue, Gap
  <2> HIDE DEF a, b
  <2>2. b \o a \in RuneTexts /\ Len(b \o a) = Len(b) + Len(a) /\ Len(b) \in Nat /\ Len(a) \in Nat
    BY <2>1, TextParts DEF RuneTexts
  <2>3. Len(b) \in 0 .. Len(b \o a)
    BY <2>2
  <2> QED BY <2>1, <2>2, <2>3 DEF RuneTexts
<1> QED BY <1>1 DEF FormInv, FormTypeOK

\* The first field that is no note has the focus, or the first field has.
LEMMA FormInvInit == FormInit => FormInv
<1> SUFFICES ASSUME FormInit PROVE FormInv
  OBVIOUS
<1>1. fields \in FormSet
  BY DEF FormInit
<1>2. /\ Inputs # {} => fieldFocus \in Inputs
      /\ Inputs = {} => fieldFocus = 1
      /\ Inputs \subseteq Nat \ {0} /\ Inputs \subseteq DOMAIN fields
  <2>1. Inputs \subseteq Nat \ {0} /\ Inputs \subseteq Nat /\ Inputs \subseteq DOMAIN fields
    BY <1>1, FormSizes DEF Inputs
  <2>2. fieldFocus = IF Inputs = {} THEN 1 ELSE Min(Inputs)
    BY DEF FormInit, FirstFocus, Inputs
  <2> QED BY <2>1, <2>2, Least
<1>3. fieldFocus \in DOMAIN fields \cup {1} /\ fieldFocus \in Nat \ {0}
  <2>1. CASE Inputs = {}
    BY <1>2, <2>1
  <2>2. CASE Inputs # {}
    BY <1>2, <2>2
  <2> QED BY <2>1, <2>2
<1>4. fieldScroll \in 1 .. fieldFocus /\ (fieldFocus \in Inputs => SpanOf(fields, fieldScroll, fieldFocus) <= ContentH)
  BY <1>1, <1>3, ScrolledIs, SpanIs DEF FormInit
<1>5. ASSUME NEW i \in DOMAIN fields
      PROVE  value[i] \in FieldValue /\ typed[i] \in Gap /\ Faithful(value[i], typed[i])
  <2> DEFINE d == fields[i].default
  <2>1. d \in RuneTexts /\ fields[i].on \in BOOLEAN
    BY <1>1, FormSizes DEF FieldRecords, RuneTexts
  <2>2. /\ value[i] = [buf |-> d, cursor |-> Len(d), on |-> fields[i].on]
        /\ typed[i] = [before |-> d, after |-> <<>>]
    BY DEF FormInit, Fresh
  <2> HIDE DEF d
  <2>3. <<>> \in RuneTexts /\ Len(d) \in Nat /\ d \o <<>> = d
    BY <2>1, ConcatEmptySeq DEF RuneTexts
  <2>4. value[i] \in FieldValue
    BY <2>1, <2>2, <2>3 DEF FieldValue
  <2>5. typed[i] \in Gap
    BY <2>1, <2>2, <2>3 DEF Gap
  <2>6. Faithful(value[i], typed[i])
    <3>1. value[i].buf = d /\ value[i].cursor = Len(d)
      BY <2>2
    <3>2. typed[i].before = d /\ typed[i].after = <<>>
      BY <2>2
    <3> QED BY <2>3, <3>1, <3>2 DEF Faithful
  <2> QED BY <2>4, <2>5, <2>6
<1>6. value \in [DOMAIN fields -> FieldValue] /\ typed \in [DOMAIN fields -> Gap]
  BY <1>5 DEF FormInit
<1> QED
  BY <1>1, <1>2, <1>3, <1>4, <1>5, <1>6 DEF FormInit, FormInv, FocusShown

\* moveFocus and the draw after it.
LEMMA FormMoves ==
  ASSUME FormInv, NEW delta, MoveFocus(delta)
  PROVE  FormInv'
<1> DEFINE hits == {k \in 1 .. Len(fields) : Stepped(delta, k) \in Inputs}
<1>1. /\ fieldFocus' = IF hits = {} THEN fieldFocus ELSE Stepped(delta, Min(hits))
      /\ fieldScroll' = Scrolled(fieldFocus', fieldScroll)
      /\ UNCHANGED <<fields, value, missing, sent, typed>>
  BY DEF MoveFocus
<1>2. hits # {} => Stepped(delta, Min(hits)) \in Inputs
  <2>1. hits \subseteq Nat
    OBVIOUS
  <2>2. hits # {} => Min(hits) \in hits
    BY <2>1, Least
  <2> QED BY <2>2
<1> HIDE DEF hits
<1>3. Inputs \subseteq Nat \ {0} /\ Inputs \subseteq DOMAIN fields
  BY FormSizes DEF Inputs, FormInv
<1>4. /\ fieldFocus' \in DOMAIN fields \cup {1} /\ fieldFocus' \in Nat \ {0}
      /\ Inputs # {} => fieldFocus' \in Inputs
  BY <1>1, <1>2, <1>3 DEF FormInv, FocusShown
<1>5. /\ fieldScroll' \in 1 .. fieldFocus'
      /\ fieldFocus' \in Inputs => SpanOf(fields, fieldScroll', fieldFocus') <= ContentH
  <2>1. fieldScroll \in Nat \ {0}
    BY DEF FormInv
  <2> QED BY <1>1, <1>4, <2>1, ScrolledIs, SpanIs DEF FormInv
<1>6. Inputs' = Inputs
  BY <1>1 DEF Inputs
<1> QED BY <1>1, <1>4, <1>5, <1>6 DEF FormInv, FocusShown, SentWhole, TextFields, NothingSent

\* The keys of a text, and of a check.
LEMMA FormEdits ==
  ASSUME FormInv, NEW key, NEW rune \in DOMAIN Runes \cup {NoRune}, Press(key, rune)
  PROVE  FormInv'
<1>1. UNCHANGED <<fields, fieldFocus, fieldScroll, missing, sent>>
  BY DEF Press, KeyEdits, KeyChecks
<1>2. /\ value' \in [DOMAIN fields -> FieldValue] /\ typed' \in [DOMAIN fields -> Gap]
      /\ \A i \in DOMAIN fields : Faithful(value'[i], typed'[i])
  <2>1. CASE KeyEdits(key, rune)
    <3> DEFINE i == fieldFocus
               w == Edited(value[i], key, rune)
               h == GapEdited(typed[i], key, rune)
    <3>1. /\ i \in DOMAIN fields
          /\ value' = [value EXCEPT ![i] = w] /\ typed' = [typed EXCEPT ![i] = h]
      BY <2>1 DEF KeyEdits, TextFields
    <3>2. value[i] \in FieldValue /\ typed[i] \in Gap /\ Faithful(value[i], typed[i])
      BY <3>1 DEF FormInv
    <3>3. w \in FieldValue /\ h \in Gap /\ Faithful(w, h)
      BY <3>2, EditKeeps
    <3> HIDE DEF w, h
    <3> QED BY <3>1, <3>3 DEF FormInv
  <2>2. CASE KeyChecks(key, rune)
    <3> DEFINE i == fieldFocus
               w == [value[i] EXCEPT !.on = ~value[i].on]
    <3>1. i \in DOMAIN fields
      <4>1. Len(fields) # 0
        BY <2>2, FormSizes DEF KeyChecks, FormInv
      <4> QED BY <4>1, FormSizes DEF FormInv
    <3>2. value' = [value EXCEPT ![i] = w] /\ typed' = typed
      BY <2>2 DEF KeyChecks
    <3>3. value[i] \in FieldValue /\ Faithful(value[i], typed[i])
      BY <3>1 DEF FormInv
    <3>4. w \in FieldValue /\ w.buf = value[i].buf /\ w.cursor = value[i].cursor
      BY <3>3 DEF FieldValue
    <3> HIDE DEF w
    <3>5. Faithful(w, typed[i])
      BY <3>3, <3>4 DEF Faithful
    <3> QED BY <3>1, <3>2, <3>4, <3>5 DEF FormInv
  <2> QED BY <2>1, <2>2 DEF Press
<1>3. Inputs' = Inputs
  BY <1>1 DEF Inputs
<1> QED BY <1>1, <1>2, <1>3 DEF FormInv, FocusShown, SentWhole, TextFields, NothingSent

\* Enter: what is handed to start has no required text blank.
LEMMA FormSubmits ==
  ASSUME FormInv, FormSubmit
  PROVE  FormInv'
<1>1. UNCHANGED <<fields, value, fieldFocus, fieldScroll, typed>>
  BY DEF FormSubmit
<1>2. ASSUME Submittable PROVE \A i \in TextFields : fields[i].required => Range(Sent[i]) \ {Space} # {}
  <2>1. ASSUME NEW i \in TextFields, fields[i].required PROVE Range(Sent[i]) \ {Space} # {}
    <3>1. Sent[i] = value[i].buf
      BY DEF Sent, TextFields, Inputs
    <3>2. ~(Range(value[i].buf) \subseteq {Space})
      BY <1>2, <2>1 DEF Submittable, Blank
    <3> QED BY <3>1, <3>2
  <2> QED BY <2>1
<1>3. sent' # NothingSent => SentWhole'
  <2>1. CASE Submittable
    BY <1>1, <1>2, <2>1 DEF FormSubmit, SentWhole, TextFields
  <2>2. CASE ~Submittable
    BY <1>1, <2>2 DEF FormSubmit, FormInv, SentWhole, TextFields
  <2> QED BY <2>1, <2>2
<1>4. missing' \in BOOLEAN
  BY DEF FormSubmit
<1>5. Inputs' = Inputs
  BY <1>1 DEF Inputs
<1> QED BY <1>1, <1>3, <1>4, <1>5 DEF FormInv, FocusShown, NothingSent

\* Moves, edits and submits together.
LEMMA FormInvStep == FormInv /\ [FormNext]_formVars => FormInv'
<1> SUFFICES ASSUME FormInv, [FormNext]_formVars PROVE FormInv'
  OBVIOUS
<1>1. CASE KeyMoves
  BY <1>1, FormMoves DEF KeyMoves
<1>2. CASE FormSubmit
  BY <1>2, FormSubmits
<1>3. ASSUME NEW rune \in DOMAIN Runes, Press(Runes[rune], rune) PROVE FormInv'
  BY <1>3, FormEdits
<1>4. ASSUME NEW key, Press(key, NoRune) PROVE FormInv'
  BY <1>4, FormEdits
<1>5. CASE UNCHANGED formVars
  <2>1. Inputs' = Inputs
    BY <1>5 DEF Inputs, formVars
  <2> QED BY <1>5, <2>1 DEF formVars, FormInv, FocusShown, SentWhole, TextFields, NothingSent
<1> QED BY <1>1, <1>2, <1>3, <1>4, <1>5 DEF FormNext

\* The types of the form hold in every state.
THEOREM FormTyped == FormSpec => []FormTypeOK
BY FormInvInit, FormInvStep, FormInvTypeOK, PTL DEF FormSpec

\* The text of every field is what was typed into it, and a submit sends no
\* blank where something is required: textField.edit and ToolScreen.submit, for
\* any form, keyboard and text.
THEOREM EditsAreFaithful == FormSpec => []EditsFaithful
<1>1. FormInv => EditsFaithful
  BY DEF FormInv, Faithful, TextFields, SentWhole, EditsFaithful
<1> QED BY <1>1, FormInvInit, FormInvStep, PTL DEF FormSpec

\* The focused field is a real input and on the LCD whole, and so is its caret:
\* moveFocus, drawConfig and textField.draw, for any form that has an input.
THEOREM FieldIsShown == FormSpec => []FieldShown
<1>1. FormInv => FieldShown
  <2> SUFFICES ASSUME FormInv, Inputs # {} PROVE FieldShown
    BY DEF FieldShown
  <2>1. FocusShown /\ fieldFocus \in DOMAIN fields
    BY DEF FormInv, FocusShown, Inputs
  <2>2. fieldFocus \in OnLCD
    BY <2>1, FormSizes, SpanIs DEF FocusShown, OnLCD, FormInv
  <2> DEFINE c == value[fieldFocus].cursor
  <2>3. c \in Nat /\ BoxChars \in Nat \ {0}
    BY <2>1, FormSizes DEF FormInv, FieldValue
  <2> HIDE DEF c
  <2>4. c - WindowStart(c) \in 0 .. BoxChars - 1
    BY <2>3 DEF WindowStart
  <2>5. fieldFocus \in Inputs /\ Span(fieldScroll, fieldFocus) <= ContentH
    BY <2>1, SpanIs DEF FocusShown
  <2> QED BY <2>2, <2>4, <2>5 DEF FieldShown, c
<1> QED BY <1>1, FormInvInit, FormInvStep, PTL DEF FormSpec
=============================================================================
