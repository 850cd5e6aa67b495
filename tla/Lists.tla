------------------------------- MODULE Lists -------------------------------
(***************************************************************************)
(* The scrolling views of the LCD: the menus of internal/lcd/menu.go, the  *)
(* history of history.go and the log view of logview.go, which the results *)
(* page and a past run show their lines in.  The app draws after every key *)
(* and five times a second; a log view's Key scrolls by the geometry the   *)
(* last Draw has left, over lines that may have been replaced since.       *)
(***************************************************************************)
EXTENDS Integers, FiniteSetsExt

CONSTANTS
  MaxRows,     \* bound: rows of a menu or a history, lines of an output
  ListRows,    \* rows the LCD has room for
  MaxLength,   \* bound: the longest line
  FullCols, BarCols, \* columns without and with a scroll bar
  HPanStep     \* hPanStep

ASSUME ListsAssumption ==
  /\ {MaxRows, ListRows, MaxLength, FullCols, BarCols, HPanStep} \subseteq Nat
  /\ ListRows > 0 /\ BarCols \in 1 .. FullCols

VARIABLES
  menu,     \* a menu: items, focus
  history,  \* a history: runs, focus, scroll
  lines,    \* the output now: lines, the longest
  log       \* the log view: where it is, and the geometry of its last Draw

listVars == <<menu, history, lines, log>>

Output == [total : 0 .. MaxRows, maxLen : 0 .. MaxLength]

ListsTypeOK ==
  /\ menu \in [items : 0 .. MaxRows, focus : 0 .. MaxRows]
  /\ history \in [runs : 0 .. MaxRows, focus : 0 .. MaxRows, scroll : 0 .. MaxRows]
  /\ lines \in Output
  /\ log \in [top : 0 .. MaxRows, left : 0 .. MaxLength, cols : {BarCols, FullCols},
              total : 0 .. MaxRows, maxLen : 0 .. MaxLength]

\* LogView.clamp.
Clamped(lv) ==
  [lv EXCEPT !.top  = Max({0, Min({@, lv.total - ListRows})}),
             !.left = Max({0, Min({@, Max({0, lv.maxLen - lv.cols})})})]

\* LogView.Draw: the geometry is that of the lines it draws.
Drawn(lv, out) ==
  Clamped([lv EXCEPT !.total = out.total, !.maxLen = out.maxLen,
                     !.cols = IF out.total > ListRows THEN BarCols ELSE FullCols])

NewLogView == [top |-> 0, left |-> 0, cols |-> FullCols, total |-> 0, maxLen |-> 0]

\* buildGroupMenu, NewHistory and NewRunView, and the first draw of each.
ListsInit ==
  /\ menu \in [items : 0 .. MaxRows, focus : {0}]
  /\ history \in [runs : 0 .. MaxRows, focus : {0}, scroll : {0}]
  /\ lines \in Output /\ log = Drawn(NewLogView, lines)

----------------------------------------------------------------------------
\* Up and down of a menu and of a history.
FocusMoves(focus, rows) == {f \in {focus - 1, focus + 1} : f \in 0 .. rows - 1}

MenuKey == /\ \E f \in FocusMoves(menu.focus, menu.items) : menu' = [menu EXCEPT !.focus = f]
           /\ UNCHANGED <<history, lines, log>>

\* Mutant: scrolls down when the focus is already past the last row.
HistoryScrolledLate(h) ==
  CASE h.focus < h.scroll            -> h.focus
    [] h.focus > h.scroll + ListRows -> h.focus - ListRows + 1
    [] OTHER                         -> h.scroll

\* HistoryScreen.Draw moves the window to the focus.
HistoryScrolled(h) ==
  CASE h.focus < h.scroll             -> h.focus
    [] h.focus >= h.scroll + ListRows -> h.focus - ListRows + 1
    [] OTHER                          -> h.scroll

HistoryKey ==
  /\ \E f \in FocusMoves(history.focus, history.runs) :
       LET h == [history EXCEPT !.focus = f] IN history' = [h EXCEPT !.scroll = HistoryScrolled(h)]
  /\ UNCHANGED <<menu, lines, log>>

\* A refresh stores other lines: of a new run, or of none.
NewLines == /\ lines' \in Output /\ lines' # lines
            /\ UNCHANGED <<menu, history, log>>

\* The app draws on a tick.
LogTick == log' = Drawn(log, lines) /\ UNCHANGED <<menu, history, lines>>

\* LogView.Key, then the draw.
LogKey ==
  /\ \E lv \in {[log EXCEPT !.top = @ + 1], [log EXCEPT !.top = @ - 1],
                [log EXCEPT !.left = @ + HPanStep], [log EXCEPT !.left = @ - HPanStep]} :
       log' = Drawn(Clamped(lv), lines)
  /\ UNCHANGED <<menu, history, lines>>

ListsNext == MenuKey \/ HistoryKey \/ NewLines \/ LogTick \/ LogKey

ListsSpec == ListsInit /\ [][ListsNext]_listVars

----------------------------------------------------------------------------
(* Properties.                                                             *)

\* What is drawn: the focused run is among the rows on the LCD, a list with
\* enough rows fills it, and so does an output, however it has shrunk under a
\* window that was scrolled and panned; a menu's focus is on the LCD as long
\* as its items fit (it does not scroll).
RowsShown ==
  /\ history.runs > 0 =>
       /\ history.focus \in history.scroll .. Min({history.scroll + ListRows, history.runs}) - 1
       /\ history.scroll <= Max({0, history.runs - ListRows})
  /\ menu.items \in 1 .. ListRows => menu.focus \in 0 .. menu.items - 1
  /\ log.top \in 0 .. Max({0, log.total - ListRows})
  /\ log.left \in 0 .. Max({0, log.maxLen - log.cols})
=============================================================================
