-------------------------- MODULE KeyInputHistory ---------------------------
(***************************************************************************)
(* KeyInput with what the user is owed: the presses the app has not taken  *)
(* yet, each in the case the keypad had when it happened.  fresh tells, of *)
(* every Event in out and of the one being sent, whether it is a press or  *)
(* a repetition.  The app settles a debt by taking a press, or any Event   *)
(* of a key that commits.                                                  *)
(***************************************************************************)
EXTENDS KeyInput

VARIABLES
  due,          \* the Events owed to the app, oldest first
  fresh,        \* for every Event in out: is it a press?
  sendsPress    \* the same for the Event being sent

hvars == <<vars, due, fresh, sendsPress>>

HInit == Init /\ due = <<>> /\ fresh = <<>> /\ sendsPress = FALSE

\* The controller has one flag for both shift keys: with two of them, letting
\* go of one ends the upper case while the other is still down.
Owing == ~cancelled /\ \A s, t \in Shifts : s = t

HPress(c) ==
  /\ Press(c)
  /\ due' = IF c \in Commits \cup Others /\ Owing
              THEN Append(due, [code |-> c, upper |-> down \cap Shifts # {}])
              ELSE due
  /\ UNCHANGED <<fresh, sendsPress>>

\* Nothing is owed once the context is done.
HCancel == Cancel /\ due' = <<>> /\ UNCHANGED <<fresh, sendsPress>>

HTakePress == TakePress /\ sendsPress' = TRUE /\ UNCHANGED <<due, fresh>>

HTick == Tick /\ sendsPress' = FALSE /\ UNCHANGED <<due, fresh>>

HEmit == Emit /\ fresh' = Append(fresh, sendsPress) /\ UNCHANGED <<due, sendsPress>>

HAppTakes ==
  /\ AppTakes
  /\ due' = IF due # <<>> /\ (Head(fresh) \/ Head(out).code \in Commits)
              THEN Tail(due) ELSE due
  /\ fresh' = Tail(fresh)
  /\ UNCHANGED sendsPress

HOther ==
  /\ \/ (\E c \in Codes : Release(c))
     \/ ReadKey \/ SendRaw
     \/ TakeShift \/ TakeDead \/ TakeRelease
     \/ EmitGivesUp \/ Quit
  /\ UNCHANGED <<due, fresh, sendsPress>>

HNext ==
  \/ (\E c \in Codes : HPress(c))
  \/ HCancel \/ HTakePress \/ HTick \/ HEmit \/ HAppTakes \/ HOther

HFairSpec == HInit /\ [][HNext]_hvars /\ Fairness

-----------------------------------------------------------------------------
\* The Events on their way to the app, and which of them are presses.
Coming  == IF sending = None THEN out ELSE Append(out, sending.event)
Pressed == IF sending = None THEN fresh ELSE Append(fresh, sendsPress)

\* What the controller will still take; a reader that has quit leaves raw.
Queued ==
  IF readerUp THEN raw \o (IF hand = None THEN <<>> ELSE <<hand>>) \o kernel ELSE raw

\* The whole pipeline is Coming followed by Queued.  These are its positions
\* whose arrival settles a debt, or will: those that hold a press, or an Event
\* of a key that commits.
OwedInComing == {i \in DOMAIN Coming : Pressed[i] \/ Coming[i].code \in Commits}
OwedInQueued ==
  {i \in DOMAIN Queued : Queued[i].press /\ Queued[i].code \in Commits \cup Others}
Owed == OwedInComing \cup {Len(Coming) + i : i \in OwedInQueued}

\* i is the position of the how manieth press of the pipeline?
Rank(i) == Cardinality({k \in Owed : k <= i})

\* Every press reaches the app exactly once, in order and in the case it was
\* typed in; enter, esc and tab reach it only so, however long they are held
\* ("so a hold can't double-submit / over-pop / skip form fields"), and while
\* the keypad and the context live nothing is dropped on the way: the presses
\* of the pipeline are what is due, one by one.
PressesDelivered ==
  Owing =>
    /\ \A i \in OwedInComing : Rank(i) \in DOMAIN due /\ due[Rank(i)] = Coming[i]
    /\ \A i \in OwedInQueued :
         LET j == Rank(Len(Coming) + i) IN j \in DOMAIN due /\ due[j].code = Queued[i].code
    /\ readerUp => Len(due) = Cardinality(Owed)
=============================================================================
