------------------------- MODULE MCKeyInputHistory --------------------------
(***************************************************************************)
(* Instances of KeyInput for TLC.                                          *)
(***************************************************************************)
EXTENDS KeyInputHistory

CONSTANTS shiftL, esc, keyA, sym   \* key codes, as model values

OneShift  == {shiftL}
OneCommit == {esc}
OneLetter == {keyA}
OneDead   == {sym}

KeyEnvs == {{"unplugged"}, {"signal"}}
=============================================================================
