-------------------------------- MODULE Form --------------------------------
(***************************************************************************)
(* The config form of a tool screen: focus, scrolling and submit of        *)
(* internal/lcd/toolscreen.go over the text fields of textfield.go.  The   *)
(* app draws after every key, so one action is a Key and its Draw.         *)
(* Heights are pixels, places in a text are counted from 0 as in the code. *)
(***************************************************************************)
EXTENDS Integers, Sequences, SequencesExt, FiniteSetsExt

CONSTANTS
  FormSet,    \* the forms: sequences of fields
  ContentH,   \* height of the content rectangle
  BoxChars,   \* characters a text box has room for
  Runes,      \* printable keys, each with the navigation key it also is
  Space,      \* the one that is blank
  MaxText     \* bound on the text of a form

\* cfgRowH, cfgNoteLn, cfgNotePad.
RowH    == 34
NoteLn  == 13
NotePad == 6

NoRune == "no rune"
Arrows == {"Up", "Down", "Left", "Right"}
FieldRecords == [type : {"note", "text", "checkbox"}, lines : Nat, required : BOOLEAN,
                 default : Seq(DOMAIN Runes), on : BOOLEAN]

ASSUME FormAssumption ==
  /\ FormSet \subseteq Seq(FieldRecords) /\ ContentH \in Nat /\ ContentH >= RowH
  /\ BoxChars \in Nat \ {0} /\ MaxText \in Nat
  /\ Space \in DOMAIN Runes /\ NoRune \notin DOMAIN Runes

VARIABLES
  fields,     \* the form of this screen: constant
  value,      \* of each field: text, caret and check
  fieldFocus, \* ToolScreen.focus, an index of fields
  fieldScroll,\* ToolScreen.scroll
  missing,    \* the error says that a required field is missing
  sent,       \* what the last submit handed to start
  typed       \* history: what was typed before and after the caret

formVars == <<fields, value, fieldFocus, fieldScroll, missing, sent, typed>>

Inputs   == {i \in DOMAIN fields : fields[i].type # "note"}
TextFields    == {i \in DOMAIN fields : fields[i].type = "text"}
NoField  == [buf |-> <<>>, cursor |-> 0, on |-> FALSE]
Sent     == [i \in Inputs |-> IF i \in TextFields THEN value[i].buf ELSE <<value[i].on>>]
NothingSent == <<>>

Fresh(f) == [buf |-> f.default, cursor |-> Len(f.default), on |-> f.on]

FormTypeOK ==
  /\ fields \in FormSet /\ DOMAIN value = DOMAIN fields /\ DOMAIN typed = DOMAIN fields
  /\ \A i \in DOMAIN fields : /\ value[i].buf \in Seq(DOMAIN Runes) /\ value[i].on \in BOOLEAN
                              /\ value[i].cursor \in 0 .. Len(value[i].buf)
  /\ fieldFocus \in DOMAIN fields \cup {1} /\ fieldScroll \in 1 .. fieldFocus
  /\ missing \in BOOLEAN

----------------------------------------------------------------------------
(* Drawing.                                                                *)

FieldHeight(f) == IF f.type = "note" THEN f.lines * NoteLn + NotePad ELSE RowH

Span(from, to) == FoldFunctionOnSet(+, 0, [i \in DOMAIN fields |-> FieldHeight(fields[i])],
                                     (from .. to) \cap DOMAIN fields)

\* Mutant: rows of one height.
ScrolledByRows(focus, scroll) ==
  Min({s \in Min({focus, scroll}) .. focus : (focus - s + 1) * RowH <= ContentH \/ s = focus})

\* drawConfig: from where it was the form scrolls on until the focus fits.
Scrolled(focus, scroll) ==
  Min({s \in Min({focus, scroll}) .. focus : Span(s, focus) <= ContentH \/ s = focus})

\* The fields it draws: the first, and those that fit below it.
OnLCD == {i \in fieldScroll .. Len(fields) : i = fieldScroll \/ Span(fieldScroll, i) <= ContentH}

\* textField.draw: the first character in the box.
WindowStart(cursor) == IF cursor > BoxChars - 1 THEN cursor - (BoxChars - 1) ELSE 0

----------------------------------------------------------------------------
(* textField.edit.                                                         *)

\* Mutant: append to the head in place, then the tail, without the copy.
InsertedInPlace(buf, at, r) ==
  SubSeq(buf, 1, at) \o <<r>>
    \o (IF at < Len(buf) THEN <<r>> \o SubSeq(buf, at + 2, Len(buf)) ELSE <<>>)

Inserted(buf, at, r) == SubSeq(buf, 1, at) \o <<r>> \o SubSeq(buf, at + 1, Len(buf))

Edited(v, key, rune) ==
  CASE rune # NoRune      -> [v EXCEPT !.buf = Inserted(v.buf, v.cursor, rune), !.cursor = @ + 1]
    [] rune = NoRune /\ key = "Backspace" /\ v.cursor > 0 ->
         [v EXCEPT !.buf = RemoveAt(v.buf, v.cursor), !.cursor = @ - 1]
    [] rune = NoRune /\ key = "Left" /\ v.cursor > 0 -> [v EXCEPT !.cursor = @ - 1]
    [] rune = NoRune /\ key = "Right" /\ v.cursor < Len(v.buf) -> [v EXCEPT !.cursor = @ + 1]
    [] OTHER -> v

\* What a text with a caret is: two texts.
GapEdited(g, key, rune) ==
  CASE rune # NoRune -> [g EXCEPT !.before = Append(@, rune)]
    [] rune = NoRune /\ key = "Backspace" /\ g.before # <<>> -> [g EXCEPT !.before = Front(@)]
    [] rune = NoRune /\ key = "Left" /\ g.before # <<>> ->
         [before |-> Front(g.before), after |-> <<Last(g.before)>> \o g.after]
    [] rune = NoRune /\ key = "Right" /\ g.after # <<>> ->
         [before |-> Append(g.before, Head(g.after)), after |-> Tail(g.after)]
    [] OTHER -> g

----------------------------------------------------------------------------
\* NewToolScreen, and the first draw of the form.
FirstFocus(f) == LET inputs == {i \in DOMAIN f : f[i].type # "note"}
                 IN  IF inputs = {} THEN 1 ELSE Min(inputs)

FormInit ==
  /\ fields \in FormSet
  /\ value = [i \in DOMAIN fields |-> Fresh(fields[i])]
  /\ fieldFocus = FirstFocus(fields) /\ fieldScroll = Scrolled(fieldFocus, 1)
  /\ missing = FALSE /\ sent = NothingSent
  /\ typed = [i \in DOMAIN fields |-> [before |-> fields[i].default, after |-> <<>>]]

\* moveFocus: on to the next field that is not a note, around the end.
Stepped(delta, k) == ((fieldFocus - 1 + k * (delta + Len(fields))) % Len(fields)) + 1

MoveFocus(delta) ==
  /\ fields # <<>>
  /\ LET hits == {k \in 1 .. Len(fields) : Stepped(delta, k) \in Inputs}
     IN  fieldFocus' = IF hits = {} THEN fieldFocus ELSE Stepped(delta, Min(hits))
  /\ fieldScroll' = Scrolled(fieldFocus', fieldScroll)
  /\ UNCHANGED <<fields, value, missing, sent, typed>>

\* Tab, and the arrows; a letter that is also an arrow is a letter.
KeyMoves == MoveFocus(1) \/ MoveFocus(-1)

TextLength == FoldFunctionOnSet(+, 0, [i \in DOMAIN fields |-> Len(value[i].buf)], TextFields)

\* The focused text takes the key.
KeyEdits(key, rune) ==
  /\ fieldFocus \in TextFields
  /\ rune = NoRune \/ TextLength < MaxText
  /\ value' = [value EXCEPT ![fieldFocus] = Edited(@, key, rune)]
  /\ typed' = [typed EXCEPT ![fieldFocus] = GapEdited(@, key, rune)]
  /\ UNCHANGED <<fields, fieldFocus, fieldScroll, missing, sent>>

\* The focused check is toggled, by a letter that is an arrow too.
KeyChecks(key, rune) ==
  /\ fields # <<>> /\ fieldFocus \notin TextFields /\ (rune = Space \/ key \in {"Left", "Right"})
  /\ value' = [value EXCEPT ![fieldFocus].on = ~@]
  /\ UNCHANGED <<fields, fieldFocus, fieldScroll, missing, sent, typed>>

Press(key, rune) == KeyEdits(key, rune) \/ KeyChecks(key, rune)

\* Enter: a required text that is blank is an error, or start gets the values.
Blank(i)  == Range(value[i].buf) \subseteq {Space}
Submittable == \A i \in TextFields : fields[i].required => ~Blank(i)

FormSubmit ==
  /\ missing' = ~Submittable
  /\ sent' = IF Submittable THEN Sent ELSE sent
  /\ UNCHANGED <<fields, value, fieldFocus, fieldScroll, typed>>

FormNext ==
  \/ KeyMoves \/ FormSubmit
  \/ \E rune \in DOMAIN Runes : Press(Runes[rune], rune)
  \/ \E key \in {"Left", "Right", "Backspace"} : Press(key, NoRune)

FormSpec == FormInit /\ [][FormNext]_formVars

----------------------------------------------------------------------------
(* Properties.                                                             *)

\* "scroll by field index so the focused field - always a real input, never a
\* note - stays fully visible", and so does its caret.
FieldShown ==
  Inputs # {} =>
    /\ fieldFocus \in Inputs \cap OnLCD /\ Span(fieldScroll, fieldFocus) <= ContentH
    /\ LET v == value[fieldFocus] IN
         v.cursor - WindowStart(v.cursor) \in 0 .. BoxChars - 1

\* Every text is what was typed into it, with the caret between what is before
\* and what is after it, though edit shifts one shared array; and what the
\* last submit handed to start has no required text blank.
EditsFaithful ==
  /\ \A i \in TextFields : /\ value[i].buf = typed[i].before \o typed[i].after
                      /\ value[i].cursor = Len(typed[i].before)
  /\ sent # NothingSent => \A i \in TextFields : fields[i].required => Range(sent[i]) \ {Space} # {}
=============================================================================
