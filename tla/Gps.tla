-------------------------------- MODULE Gps --------------------------------
(***************************************************************************)
(* The gpsd client, internal/gps/gps.go: Poll, which every sysinfo request *)
(* calls and which holds the last fix for some seconds, and PollDetail for *)
(* the modal.  Each call reads messages from its own connection until it   *)
(* has what it wants or its deadline is there; the held fix is shared.     *)
(***************************************************************************)
EXTENDS Integers

CONSTANTS
  Callers,     \* the requests that run at a time
  Timeout,     \* how long a call reads (1.5 s at most)
  Hold,        \* how long a fix is held (6 s)
  MaxGpsTime   \* bound: when the clock stops

\* A fix is held for a time, and the clock goes on that long.
ASSUME GpsAssumption == /\ {Timeout, MaxGpsTime} \subseteq Nat
                        /\ Hold \in Nat \ {0} /\ Hold <= MaxGpsTime

VARIABLES
  gpsNow,    \* the clock
  reading,   \* what each call has read and when it must end
  last,      \* lastFix: the time of its TPV
  lastSeen,  \* lastSeen
  shown,     \* the last reply
  fixed      \* history: when a Poll last replied a fix of its own

gpsVars == <<gpsNow, reading, last, lastSeen, shown, fixed>>

\* A fix is known by the time of its TPV; Never is a time long ago, and no fix.
Never == -1
Instants == Never .. MaxGpsTime

\* detail: a PollDetail; tpv: it has had one, of either mode; sats: satellites
\* are known (pollOnce), a SKY has come (PollDetail).
Off == [on |-> FALSE, detail |-> FALSE, tpv |-> FALSE, sats |-> FALSE,
        fix |-> Never, until |-> 0]

\* A reply: how old its fix is, how long ago a Poll last had a fix of its own.
Replies == [ok : BOOLEAN, detail : BOOLEAN, age : 0 .. MaxGpsTime + 1,
            gap : 0 .. MaxGpsTime + 1]

GpsTypeOK ==
  /\ gpsNow \in 0 .. MaxGpsTime
  /\ reading \in [Callers -> [on : BOOLEAN, detail : BOOLEAN, tpv : BOOLEAN,
                              sats : BOOLEAN, fix : Instants, until : 0 .. MaxGpsTime]]
  /\ last \in Instants /\ lastSeen \in Instants /\ fixed \in Instants
  /\ shown \in Replies

GpsInit == /\ gpsNow = 0 /\ last = Never /\ lastSeen = Never /\ fixed = Never
           /\ reading = [c \in Callers |-> Off]
           /\ shown = [ok |-> FALSE, detail |-> FALSE, age |-> 0, gap |-> MaxGpsTime + 1]

----------------------------------------------------------------------------

Reply(c, fix) ==
  /\ reading' = [reading EXCEPT ![c] = Off]
  /\ shown' = [ok |-> fix # Never, detail |-> reading[c].detail,
               age |-> IF fix = Never THEN 0 ELSE gpsNow - fix,
               gap |-> IF fixed = Never THEN MaxGpsTime + 1 ELSE gpsNow - fixed]

Held == last # Never /\ gpsNow - lastSeen < Hold

\* Mutant: a held fix counts as seen: it is held for ever.
PollRepliesAgain(c, fix) ==
  LET g == IF fix = Never /\ Held THEN last ELSE fix IN
    /\ Reply(c, g)
    /\ IF g # Never THEN last' = g /\ lastSeen' = gpsNow /\ fixed' = gpsNow
                    ELSE UNCHANGED <<last, lastSeen, fixed>>

\* Poll, once pollOnce has returned: under lastMu.
PollReplies(c, fix) ==
  /\ Reply(c, IF fix = Never /\ Held THEN last ELSE fix)
  /\ IF fix # Never THEN last' = fix /\ lastSeen' = gpsNow /\ fixed' = gpsNow
                    ELSE UNCHANGED <<last, lastSeen, fixed>>

\* PollDetail keeps nothing.
Returns(c, fix) ==
  /\ IF reading[c].detail THEN Reply(c, fix) /\ UNCHANGED <<last, lastSeen, fixed>>
                          ELSE PollReplies(c, fix)
  /\ UNCHANGED gpsNow

Reads(c, r) == /\ reading' = [reading EXCEPT ![c] = r]
               /\ UNCHANGED <<gpsNow, last, lastSeen, shown, fixed>>

\* Bound: a call whose deadline the clock reaches.
Connect(c) ==
  /\ ~reading[c].on /\ gpsNow + Timeout <= MaxGpsTime
  /\ \E detail \in BOOLEAN :
       Reads(c, [Off EXCEPT !.on = TRUE, !.detail = detail, !.until = gpsNow + Timeout])

\* A TPV of mode 2 or more, or of less.  pollOnce is content with one that has
\* no fix, and with one that has when it knows of satellites; PollDetail is
\* when it has had a SKY.
Tpv(c) ==
  /\ reading[c].on
  /\ \E fix \in {gpsNow, Never} :
       LET r == [reading[c] EXCEPT !.tpv = reading[c].detail, !.fix = fix] IN
         IF r.sats \/ (fix = Never /\ ~r.detail) THEN Returns(c, fix) ELSE Reads(c, r)

\* A SKY: pollOnce takes the number of satellites if there are any, and is
\* done when it has a fix; PollDetail is done when it has had a TPV.
Sky(c) ==
  /\ reading[c].on
  /\ \E some \in BOOLEAN :
       LET r == [reading[c] EXCEPT !.sats = @ \/ some \/ reading[c].detail] IN
         IF r.tpv \/ (r.fix # Never /\ ~r.detail) THEN Returns(c, r.fix) ELSE Reads(c, r)

\* The deadline, or gpsd closes the connection or was not there: what there is
\* is the reply.
Expires(c) == reading[c].on /\ Returns(c, reading[c].fix)

\* A call does not outlive its deadline.
GpsTick == /\ gpsNow < MaxGpsTime
           /\ \A c \in Callers : reading[c].on => gpsNow < reading[c].until
           /\ gpsNow' = gpsNow + 1
           /\ UNCHANGED <<reading, last, lastSeen, shown, fixed>>

GpsNext == \/ \E c \in Callers : Connect(c) \/ Tpv(c) \/ Sky(c) \/ Expires(c)
           \/ GpsTick

GpsSpec == GpsInit /\ [][GpsNext]_gpsVars

----------------------------------------------------------------------------
(* Properties.                                                             *)

\* The display does not flap and does not lie: a Poll replies "no fix" only
\* when none had one for Hold, and a fix it replies was on the air within the
\* hold and the reading before it, whichever calls overlapped.
FixHonest ==
  /\ ~shown.ok /\ ~shown.detail => shown.gap >= Hold
  /\ shown.ok => shown.age < Timeout + (IF shown.detail THEN 1 ELSE Hold)
============================================================================
