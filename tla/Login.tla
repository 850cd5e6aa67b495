------------------------------- MODULE Login -------------------------------
(***************************************************************************)
(* The login of the web worker (-require-login, no shared token):          *)
(* handleLogin of internal/server, the rate limiter, the verifier's client *)
(* and the sessions of internal/auth, and the PAM agent behind its socket. *)
(* Every browser is behind one address, so the limiter has one bucket.  A  *)
(* POST is three critical regions with PAM in between: Allowed, the dialog *)
(* with the agent, and Fail or Reset.                                      *)
(***************************************************************************)
EXTENDS Integers, Sequences, FiniteSets

CONSTANTS
  Browsers,       \* the browsers; each has one POST under way at most
  FailMax,        \* failures before lockout (5 in main.go)
  Window,         \* RateLimiter.window (5 min)
  Lockout,        \* RateLimiter.lockout (5 min)
  VerifyTimeout,  \* Verifier.Timeout (15 s)
  TTL,            \* how long a token is valid (12 h)
  NoToken,        \* no cookie, or an empty one
  MaxTime,        \* bound: when the clock stops
  MaxRestarts     \* bound: restarts of the worker

ASSUME LimiterAssumption ==
  /\ FailMax \in Nat \ {0} /\ Window \in Nat /\ Lockout \in Nat
  /\ Lockout <= Window
ASSUME BrowsersAssumption == IsFiniteSet(Browsers)
ASSUME TimesAssumption == {VerifyTimeout, TTL, MaxTime, MaxRestarts} \subseteq Nat

VARIABLES
  now,       \* the clock
  bucket,    \* the limiter's bucket for the address
  epoch,     \* the worker's process; each has its own signing secret
  handling,  \* where the POST of a browser is
  genuine,   \* the password it sent is the right one
  deadline,  \* when its connection to the agent gives up
  agentUp,   \* the agent listens
  cookie,    \* the token a browser holds
  denied,    \* history: when denials were recorded, since a Reset
  vouched    \* history: the browsers PAM vouched for, to this process

worker    == <<bucket, epoch, handling, genuine, deadline>>
histories == <<denied, vouched>>
loginVars == <<now, worker, agentUp, cookie, histories>>

\* No bucket in the map; to Fail and Allowed a bucket that expired long ago.
NoBucket == [fails |-> 0, first |-> -(Window + 1), lockedTo |-> -1]

Tokens == [epoch : 0 .. MaxRestarts, exp : 0 .. MaxTime + TTL]
Handlings == {"idle", "dial", "waiting", "yes", "no", "error"}
Times  == -(Window + 1) .. MaxTime + Lockout + VerifyTimeout

LoginTypeOK ==
  /\ now \in 0 .. MaxTime
  /\ bucket \in [fails : 0 .. FailMax - 1, first : Times, lockedTo : Times]
  /\ bucket.first <= now
  /\ epoch \in 0 .. MaxRestarts
  /\ handling \in [Browsers -> Handlings]
  /\ genuine \in [Browsers -> BOOLEAN]
  /\ deadline \in [Browsers -> 0 .. MaxTime + VerifyTimeout]
  /\ agentUp \in BOOLEAN
  /\ cookie \in [Browsers -> Tokens \cup {NoToken}]
  /\ denied \in Seq(0 .. MaxTime)
  /\ vouched \subseteq Browsers

LoginInit ==
  /\ now = 0 /\ bucket = NoBucket /\ epoch = 0
  /\ handling = [b \in Browsers |-> "idle"] /\ genuine = [b \in Browsers |-> FALSE]
  /\ deadline = [b \in Browsers |-> 0]
  /\ agentUp = TRUE
  /\ cookie = [b \in Browsers |-> NoToken]
  /\ denied = <<>> /\ vouched = {}

----------------------------------------------------------------------------
(* The limiter and the sessions.                                           *)

\* Mutant: the lock is over at its last instant.
AllowedEarly == now >= bucket.lockedTo

Allowed == now > bucket.lockedTo

\* Mutant: Fail opens a new bucket at the window's last instant already.
CountingEarly == IF now - bucket.first >= Window THEN [NoBucket EXCEPT !.first = now]
                                                 ELSE bucket

\* The bucket Fail counts in: a new one when the old one's window is over.
Counting == IF now - bucket.first > Window THEN [NoBucket EXCEPT !.first = now]
                                           ELSE bucket

\* Mutant: the lockout trips once max is exceeded.
FailedMore == IF Counting.fails + 1 > FailMax
                THEN [fails |-> 0, first |-> now, lockedTo |-> now + Lockout]
                ELSE [Counting EXCEPT !.fails = @ + 1]

Failed == IF Counting.fails + 1 >= FailMax
            THEN [fails |-> 0, first |-> now, lockedTo |-> now + Lockout]
            ELSE [Counting EXCEPT !.fails = @ + 1]

Issued == [epoch |-> epoch, exp |-> now + TTL]

\* Mutant: the secret survives a restart.
ValidForever(token) == token # NoToken /\ now <= token.exp

\* Validate: the signature verifies under this process's secret, in time.
Valid(token) == token # NoToken /\ token.epoch = epoch /\ now <= token.exp

Authorized(b) == Valid(cookie[b])

----------------------------------------------------------------------------
(* The handler.                                                            *)

Goes(b, place) == handling' = [handling EXCEPT ![b] = place]

\* The connection is closed; what was sent over it is of no use any more.
HangsUp(b, place) == /\ Goes(b, place) /\ genuine' = [genuine EXCEPT ![b] = FALSE]
                     /\ deadline' = [deadline EXCEPT ![b] = 0]

\* A POST that is not refused with 429.  Bound: one that can time out.
Post(b) == /\ handling[b] = "idle" /\ now + VerifyTimeout < MaxTime
           /\ Allowed
           /\ Goes(b, "dial")
           /\ \E right \in BOOLEAN : genuine' = [genuine EXCEPT ![b] = right]
           /\ UNCHANGED <<now, bucket, epoch, deadline, agentUp, cookie, histories>>

Dial(b) == /\ handling[b] = "dial"
           /\ \/ /\ agentUp /\ Goes(b, "waiting") /\ UNCHANGED genuine
                 /\ deadline' = [deadline EXCEPT ![b] = now + VerifyTimeout]
              \/ ~agentUp /\ HangsUp(b, "error")
           /\ UNCHANGED <<now, bucket, epoch, agentUp, cookie, histories>>

\* handleConn: PAM accepts the right password only; it denies any (faillock,
\* the account), and the agent may fail to run it.
Verdicts(right) == {"no", "error"} \cup (IF right THEN {"yes"} ELSE {})

\* A verdict reaches the worker in time.
Answer(b) ==
  /\ handling[b] = "waiting" /\ agentUp /\ now <= deadline[b]
  /\ \E v \in Verdicts(genuine[b]) :
       /\ HangsUp(b, v)
       /\ vouched' = IF v = "yes" THEN vouched \cup {b} ELSE vouched
  /\ UNCHANGED <<now, bucket, epoch, agentUp, cookie, denied>>

\* Mutant: no deadline on the connection.
GiveUpNever(b) == FALSE /\ UNCHANGED loginVars

\* No verdict in time: the worker hangs up.
GiveUp(b) == /\ handling[b] = "waiting" /\ now >= deadline[b]
             /\ HangsUp(b, "error")
             /\ UNCHANGED <<now, bucket, epoch, agentUp, cookie, histories>>

Replied(b) == Goes(b, "idle") /\ UNCHANGED <<now, epoch, genuine, deadline, agentUp>>

\* 502: the service is unavailable; no failure of the browser's.
Unavailable(b) == /\ handling[b] = "error" /\ Replied(b)
                  /\ UNCHANGED <<bucket, cookie, histories>>

\* 401, and a failure on the address.
Deny(b) ==
  /\ handling[b] = "no" /\ Replied(b)
  /\ bucket' = Failed
  /\ denied' = Append(denied, now)
  /\ UNCHANGED <<cookie, vouched>>

Welcome(b) ==
  /\ handling[b] = "yes" /\ Replied(b)
  /\ bucket' = NoBucket
  /\ cookie' = [cookie EXCEPT ![b] = Issued]
  /\ denied' = <<>>
  /\ UNCHANGED vouched

Logout(b) == /\ cookie[b] # NoToken /\ cookie' = [cookie EXCEPT ![b] = NoToken]
             /\ UNCHANGED <<now, worker, agentUp, histories>>

----------------------------------------------------------------------------
(* Restarts and time.                                                      *)

\* The worker's memory goes, and its requests; the browsers keep cookies.
Restart == /\ epoch < MaxRestarts /\ epoch' = epoch + 1
           /\ bucket' = NoBucket
           /\ handling' = [b \in Browsers |-> "idle"] /\ genuine' = [b \in Browsers |-> FALSE]
           /\ deadline' = [b \in Browsers |-> 0]
           /\ denied' = <<>> /\ vouched' = {}
           /\ UNCHANGED <<now, agentUp, cookie>>

\* The agent's end closes the connections it has not answered.
AgentStops ==
  /\ agentUp /\ agentUp' = FALSE
  /\ LET cut == {b \in Browsers : handling[b] = "waiting"} IN
       /\ handling' = [b \in Browsers |-> IF b \in cut THEN "error" ELSE handling[b]]
       /\ genuine'  = [b \in Browsers |-> b \notin cut /\ genuine[b]]
       /\ deadline' = [b \in Browsers |-> 0]
  /\ UNCHANGED <<now, bucket, epoch, cookie, histories>>

AgentStarts == /\ ~agentUp /\ agentUp' = TRUE
               /\ UNCHANGED <<now, worker, cookie, histories>>

\* Bound: the clock waits for a dial whose deadline it could not reach.
LoginTick == /\ now < MaxTime
             /\ \A b \in Browsers : handling[b] = "dial" => now + VerifyTimeout < MaxTime
             /\ now' = now + 1
             /\ UNCHANGED <<worker, agentUp, cookie, histories>>

LoginNext ==
  \/ \E b \in Browsers : \/ Post(b) \/ Dial(b) \/ Answer(b) \/ GiveUp(b)
                         \/ Unavailable(b) \/ Deny(b) \/ Welcome(b) \/ Logout(b)
  \/ Restart \/ AgentStops \/ AgentStarts \/ LoginTick

\* The worker's goroutines run and time passes; the agent may hang.
Serving(b) == Dial(b) \/ GiveUp(b) \/ Unavailable(b) \/ Deny(b) \/ Welcome(b)

LoginFairness == WF_loginVars(LoginTick) /\ \A b \in Browsers : WF_loginVars(Serving(b))

LoginSpec == LoginInit /\ [][LoginNext]_loginVars

----------------------------------------------------------------------------
(* Properties.                                                             *)

\* A lock lasts: nothing lowers lockedTo before that time is over, whatever
\* POSTs were under way when it fell, but a login that PAM accepts or the
\* end of the process.
LockoutHolds ==
  [][bucket'.lockedTo < bucket.lockedTo =>
       \/ Allowed
       \/ \E b \in Browsers : handling[b] = "yes" /\ handling'[b] = "idle"
       \/ epoch' # epoch]_loginVars

\* How many of the denials are at most so old.
Denials(age) == Cardinality({i \in DOMAIN denied : now - denied[i] <= age})

\* The limiter bounds the guesses, and what it counts are denials of PAM's: an
\* agent that is down, slow or broken locks nobody out.  In no span as long as a
\* lock are more denied than a lock's worth, what the bucket before it may hold
\* (the window is not a trailing one), and the POSTs of the other browsers that
\* were let through before the lock fell and are answered under it.
GuessesBounded ==
  /\ bucket.fails <= Len(denied)
  /\ Denials(Lockout) <= FailMax + (FailMax - 1) + (Cardinality(Browsers) - 1)

\* Whoever is let in was vouched for by PAM, to this process, and for TTL at most.
AccessEarned ==
  \A b \in Browsers : Authorized(b) => b \in vouched /\ cookie[b].exp - now <= TTL

\* Every POST is answered, whatever the agent does.
Answered == \A b \in Browsers : handling[b] = "dial" ~> handling[b] = "idle"
============================================================================
