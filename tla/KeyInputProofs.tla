--------------------------- MODULE KeyInputProofs ---------------------------
(***************************************************************************)
(* Proofs about KeyInput: its types, and that every press is delivered.    *)
(***************************************************************************)
EXTENDS KeyInputHistory, FiniteSetTheorems, FunctionTheorems, SequenceTheorems, TLAPS

(***************************************************************************)
(* The delivery of presses, as a relation between the Events coming to the *)
(* app, with which of them are presses, the raw events queued, the shift   *)
(* flag and the Events due.                                                *)
(***************************************************************************)
IsPress(r) == r.press /\ r.code \in Commits \cup Others

\* Position i of the pipeline: the N elements of C, then those of Q.
OwedAt(N, C, P, Q, i) ==
  IF i <= N THEN P[i] \/ C[i].code \in Commits ELSE IsPress(Q[i - N])

\* The controller will find shift at u when it has taken the events before i.
InCase(Q, sh, i, u) ==
  /\ (\A k \in 1..(i - 1) : Q[k].code \notin Shifts) => u = sh
  /\ \A k \in 1..(i - 1) :
       /\ Q[k].code \in Shifts
       /\ \A l \in (k + 1)..(i - 1) : Q[l].code \notin Shifts
       => u = Q[k].press

\* f gives the first n of the Events due their positions in the pipeline, the
\* N elements of C and the m of Q.
Places(N, C, P, m, Q, sh, D, f, n) ==
  /\ \A j \in 1..n : f[j] \in 1..(N + m)
  /\ \A j, k \in 1..n : j < k => f[j] < f[k]
  /\ \A j \in 1..n : OwedAt(N, C, P, Q, f[j])
  /\ \A i \in 1..(N + m) : OwedAt(N, C, P, Q, i) => \E j \in 1..n : f[j] = i
  /\ \A j \in 1..n : f[j] <= N => D[j] = C[f[j]]
  /\ \A j \in 1..n : f[j] > N =>
       D[j].code = Q[f[j] - N].code /\ InCase(Q, sh, f[j] - N, D[j].upper)

\* B and O are C and P with another element.
Extends(N, C, P, B, O) == \A i \in 1..N : B[i] = C[i] /\ O[i] = P[i]

\* R is Q without its first element.
Drops(m, Q, R) == \A i \in 1..(m - 1) : R[i] = Q[i + 1]

Follows(N, C, P, m, Q, sh, D, n) == \E f : Places(N, C, P, m, Q, sh, D, f, n)

-----------------------------------------------------------------------------
(***************************************************************************)
(* What a step of the pipeline does to it.                                 *)
(***************************************************************************)
\* A sequence that grew by one element.
LEMMA Grown ==
  ASSUME NEW S, NEW s \in Seq(S), NEW e \in S
  PROVE  /\ Append(s, e) \in Seq(S)
         /\ Len(Append(s, e)) = Len(s) + 1
         /\ \A i \in 1..Len(s) : Append(s, e)[i] = s[i]
         /\ Append(s, e)[Len(s) + 1] = e
BY AppendProperties

\* The same for a sequence of truth values.
LEMMA GrownTruth ==
  ASSUME NEW s \in Seq(BOOLEAN), NEW e \in BOOLEAN
  PROVE  /\ \A i \in 1..Len(s) : Append(s, e)[i] = s[i]
         /\ Append(s, e)[Len(s) + 1] <=> e
BY SMTT(30)

\* A sequence that lost its first element.
LEMMA Shrunk ==
  ASSUME NEW S, NEW s \in Seq(S), s # <<>>
  PROVE  /\ Tail(s) \in Seq(S)
         /\ Len(s) \in Nat \ {0}
         /\ Len(Tail(s)) = Len(s) - 1
         /\ \A i \in 1..(Len(s) - 1) : Tail(s)[i] = s[i + 1]
         /\ Head(s) = s[1] /\ Head(s) \in S
BY HeadTailProperties

\* The keypad queues a press: one more Event is due.
LEMMA QueuePress ==
  ASSUME NEW N \in Nat, NEW m \in Nat, NEW n \in Nat,
         NEW C, NEW P, NEW Q, NEW R, NEW D, NEW E, NEW sh,
         Follows(N, C, P, m, Q, sh, D, n),
         \A i \in 1..m : R[i] = Q[i],
         \A j \in 1..n : E[j] = D[j],
         IsPress(R[m + 1]),
         E[n + 1].code = R[m + 1].code, InCase(Q, sh, m + 1, E[n + 1].upper)
  PROVE  Follows(N, C, P, m + 1, R, sh, E, n + 1)
<1>1. PICK f : Places(N, C, P, m, Q, sh, D, f, n)
  BY DEF Follows
<1> DEFINE g == [j \in 1..(n + 1) |-> IF j <= n THEN f[j] ELSE N + m + 1]
<1>a. \A j \in 1..n : f[j] \in 1..(N + m)
  BY <1>1 DEF Places
<1>b. \A j, k \in 1..n : j < k => f[j] < f[k]
  BY <1>1 DEF Places
<1>c. \A j \in 1..n : OwedAt(N, C, P, Q, f[j])
  BY <1>1 DEF Places
<1>d. \A i \in 1..(N + m) : OwedAt(N, C, P, Q, i) => \E j \in 1..n : f[j] = i
  BY <1>1 DEF Places
<1>e. \A j \in 1..n : f[j] <= N => D[j] = C[f[j]]
  BY <1>1 DEF Places
<1>f. \A j \in 1..n : f[j] > N =>
        D[j].code = Q[f[j] - N].code /\ InCase(Q, sh, f[j] - N, D[j].upper)
  BY <1>1 DEF Places
<1>g. /\ \A j \in 1..n : g[j] = f[j]
      /\ g[n + 1] = N + m + 1
  OBVIOUS
<1> HIDE DEF g
<1>o. /\ \A i \in 1..(N + m) : OwedAt(N, C, P, R, i) <=> OwedAt(N, C, P, Q, i)
      /\ OwedAt(N, C, P, R, N + m + 1)
  BY DEF OwedAt
<1>p. \A i \in 1..(m + 1) : \A u : InCase(Q, sh, i, u) => InCase(R, sh, i, u)
  BY DEF InCase
<1>2. \A j \in 1..(n + 1) : g[j] \in 1..(N + m + 1)
  BY <1>g, <1>a
<1>3. \A j, k \in 1..(n + 1) : j < k => g[j] < g[k]
  BY <1>a, <1>b, <1>g
<1>4. \A j \in 1..(n + 1) : OwedAt(N, C, P, R, g[j])
  BY <1>a, <1>c, <1>g, <1>o
<1>5. \A i \in 1..(N + m + 1) : OwedAt(N, C, P, R, i) => \E j \in 1..(n + 1) : g[j] = i
  BY <1>d, <1>g, <1>o
<1>6. \A j \in 1..(n + 1) : g[j] <= N => E[j] = C[g[j]]
  BY <1>e, <1>g
<1>7. \A j \in 1..(n + 1) : g[j] > N =>
        E[j].code = R[g[j] - N].code /\ InCase(R, sh, g[j] - N, E[j].upper)
  BY <1>a, <1>f, <1>g, <1>p
<1> QED
  BY <1>2, <1>3, <1>4, <1>5, <1>6, <1>7 DEF Follows, Places

\* What an event added to the queue does to the case at its end.
LEMMA CaseQueued ==
  ASSUME NEW m \in Nat, NEW Q, NEW R, NEW sh, NEW u, InCase(Q, sh, m + 1, u),
         \A i \in 1..m : R[i] = Q[i]
  PROVE  IF R[m + 1].code \in Shifts THEN InCase(R, sh, m + 2, R[m + 1].press)
                                     ELSE InCase(R, sh, m + 2, u)
<1>1. (m + 2) - 1 = m + 1 /\ (m + 1) - 1 = m
  OBVIOUS
<1> QED BY <1>1 DEF InCase

\* The keypad queues another event, and the rest of due may change: what
\* follows the pipeline is as it was.
LEMMA QueueOther ==
  ASSUME NEW N \in Nat, NEW m \in Nat, NEW n \in Nat,
         NEW C, NEW P, NEW Q, NEW R, NEW D, NEW E, NEW sh,
         Follows(N, C, P, m, Q, sh, D, n),
         \A i \in 1..m : R[i] = Q[i],
         \A j \in 1..n : E[j] = D[j],
         ~IsPress(R[m + 1])
  PROVE  Follows(N, C, P, m + 1, R, sh, E, n)
<1>1. PICK f : Places(N, C, P, m, Q, sh, D, f, n)
  BY DEF Follows
<1>a. \A j \in 1..n : f[j] \in 1..(N + m)
  BY <1>1 DEF Places
<1>b. \A j, k \in 1..n : j < k => f[j] < f[k]
  BY <1>1 DEF Places
<1>c. \A j \in 1..n : OwedAt(N, C, P, Q, f[j])
  BY <1>1 DEF Places
<1>d. \A i \in 1..(N + m) : OwedAt(N, C, P, Q, i) => \E j \in 1..n : f[j] = i
  BY <1>1 DEF Places
<1>e. \A j \in 1..n : f[j] <= N => D[j] = C[f[j]]
  BY <1>1 DEF Places
<1>f. \A j \in 1..n : f[j] > N =>
        D[j].code = Q[f[j] - N].code /\ InCase(Q, sh, f[j] - N, D[j].upper)
  BY <1>1 DEF Places
<1>o. /\ \A i \in 1..(N + m) : OwedAt(N, C, P, R, i) <=> OwedAt(N, C, P, Q, i)
      /\ ~OwedAt(N, C, P, R, N + m + 1)
  BY DEF OwedAt
<1>p. \A i \in 1..(m + 1) : \A u : InCase(Q, sh, i, u) => InCase(R, sh, i, u)
  BY DEF InCase
<1>2. \A j \in 1..n : f[j] \in 1..(N + m + 1)
  BY <1>a
<1>3. \A j \in 1..n : OwedAt(N, C, P, R, f[j])
  BY <1>a, <1>c, <1>o
<1>4. \A i \in 1..(N + m + 1) : OwedAt(N, C, P, R, i) => \E j \in 1..n : f[j] = i
  BY <1>d, <1>o
<1>5. \A j \in 1..n : f[j] <= N => E[j] = C[f[j]]
  BY <1>e
<1>6. \A j \in 1..n : f[j] > N =>
        E[j].code = R[f[j] - N].code /\ InCase(R, sh, f[j] - N, E[j].upper)
  BY <1>a, <1>f, <1>p
<1> QED
  BY <1>b, <1>2, <1>3, <1>4, <1>5, <1>6 DEF Follows, Places

\* What an event taken from the queue does to the case behind it.
LEMMA CaseTaken ==
  ASSUME NEW m \in Nat \ {0}, NEW Q, NEW R, NEW sh, NEW su,
         \A i \in 1..(m - 1) : R[i] = Q[i + 1],
         su = IF Q[1].code \in Shifts THEN Q[1].press ELSE sh,
         NEW i \in 1..m, NEW u, InCase(Q, sh, i + 1, u)
  PROVE  InCase(R, su, i, u)
<1>1. ASSUME \A k \in 1..(i - 1) : R[k].code \notin Shifts
      PROVE  u = su
  <2>1. \A k \in 2..i : Q[k].code \notin Shifts
    <3> SUFFICES ASSUME NEW k \in 2..i PROVE Q[k].code \notin Shifts
      OBVIOUS
    <3>1. k - 1 \in 1..(i - 1) /\ R[k - 1] = Q[k]
      OBVIOUS
    <3> QED BY <3>1, <1>1
  <2> QED BY <2>1 DEF InCase
<1>2. ASSUME NEW k \in 1..(i - 1), R[k].code \in Shifts,
             \A l \in (k + 1)..(i - 1) : R[l].code \notin Shifts
      PROVE  u = R[k].press
  <2>1. \A l \in (k + 2)..i : Q[l].code \notin Shifts
    <3> SUFFICES ASSUME NEW l \in (k + 2)..i PROVE Q[l].code \notin Shifts
      OBVIOUS
    <3>1. l - 1 \in (k + 1)..(i - 1) /\ R[l - 1] = Q[l]
      OBVIOUS
    <3> QED BY <3>1, <1>2
  <2> QED BY <1>2, <2>1 DEF InCase
<1> QED BY <1>1, <1>2 DEF InCase

\* The controller takes an event that is no press.
LEMMA TakeQueued ==
  ASSUME NEW N \in Nat, NEW m \in Nat \ {0}, NEW n \in Nat,
         NEW C, NEW P, NEW Q, NEW R, NEW D, NEW sh, NEW su,
         Follows(N, C, P, m, Q, sh, D, n),
         \A i \in 1..(m - 1) : R[i] = Q[i + 1],
         ~IsPress(Q[1]),
         su = IF Q[1].code \in Shifts THEN Q[1].press ELSE sh
  PROVE  Follows(N, C, P, m - 1, R, su, D, n)
<1>1. PICK f : Places(N, C, P, m, Q, sh, D, f, n)
  BY DEF Follows
<1> DEFINE g == [j \in 1..n |-> IF f[j] <= N THEN f[j] ELSE f[j] - 1]
<1>a. \A j \in 1..n : f[j] \in 1..(N + m)
  BY <1>1 DEF Places
<1>b. \A j, k \in 1..n : j < k => f[j] < f[k]
  BY <1>1 DEF Places
<1>c. \A j \in 1..n : OwedAt(N, C, P, Q, f[j])
  BY <1>1 DEF Places
<1>d. \A i \in 1..(N + m) : OwedAt(N, C, P, Q, i) => \E j \in 1..n : f[j] = i
  BY <1>1 DEF Places
<1>e. \A j \in 1..n : f[j] <= N => D[j] = C[f[j]]
  BY <1>1 DEF Places
<1>f. \A j \in 1..n : f[j] > N =>
        D[j].code = Q[f[j] - N].code /\ InCase(Q, sh, f[j] - N, D[j].upper)
  BY <1>1 DEF Places
<1>g. \A j \in 1..n : g[j] = IF f[j] <= N THEN f[j] ELSE f[j] - 1
  OBVIOUS
<1> HIDE DEF g
<1>o. /\ \A i \in 1..N : OwedAt(N, C, P, R, i) <=> OwedAt(N, C, P, Q, i)
      /\ \A i \in (N + 1)..(N + m - 1) : OwedAt(N, C, P, R, i) <=> OwedAt(N, C, P, Q, i + 1)
      /\ ~OwedAt(N, C, P, Q, N + 1)
  BY DEF OwedAt
<1>n. \A j \in 1..n : f[j] # N + 1
  BY <1>c, <1>o
<1>p. \A i \in 1..m : \A u : InCase(Q, sh, i + 1, u) => InCase(R, su, i, u)
  BY CaseTaken
<1>2. \A j \in 1..n : g[j] \in 1..(N + m - 1)
  BY <1>a, <1>g, <1>n
<1>3. \A j, k \in 1..n : j < k => g[j] < g[k]
  BY <1>a, <1>b, <1>g, <1>n
<1>4. \A j \in 1..n : OwedAt(N, C, P, R, g[j])
  BY <1>a, <1>c, <1>g, <1>n, <1>o
<1>5. ASSUME NEW i \in 1..(N + m - 1), OwedAt(N, C, P, R, i)
      PROVE  \E j \in 1..n : g[j] = i
  <2>1. CASE i <= N
    BY <1>5, <2>1, <1>d, <1>g, <1>o
  <2>2. CASE i > N
    <3>1. PICK j \in 1..n : f[j] = i + 1
      BY <1>5, <2>2, <1>d, <1>o
    <3> QED BY <2>2, <3>1, <1>g
  <2> QED BY <2>1, <2>2
<1>6. \A j \in 1..n : g[j] <= N => D[j] = C[g[j]]
  BY <1>a, <1>e, <1>g, <1>n
<1>7. ASSUME NEW j \in 1..n, g[j] > N
      PROVE  D[j].code = R[g[j] - N].code /\ InCase(R, su, g[j] - N, D[j].upper)
  <2>1. f[j] > N /\ g[j] - N = f[j] - N - 1 /\ f[j] - N - 1 \in 1..(m - 1)
    BY <1>7, <1>a, <1>g, <1>n
  <2>2. R[f[j] - N - 1] = Q[f[j] - N] /\ (f[j] - N - 1) + 1 = f[j] - N
    BY <2>1, <1>a
  <2> QED BY <2>1, <2>2, <1>f, <1>p
<1> QED
  BY <1>2, <1>3, <1>4, <1>5, <1>6, <1>7 DEF Follows, Places

\* The controller takes a press and starts to send its Event.
LEMMA TakeQueuedPress ==
  ASSUME NEW N \in Nat, NEW m \in Nat \ {0}, NEW n \in Nat,
         NEW C, NEW P, NEW Q, NEW B, NEW O, NEW R, NEW D, NEW sh,
         Follows(N, C, P, m, Q, sh, D, n),
         Extends(N, C, P, B, O), Drops(m, Q, R),
         IsPress(Q[1]), Q[1].code \notin Shifts,
         \A j \in 1..n : D[j] \in Events,
         O[N + 1],
         B[N + 1] \in Events, B[N + 1].code = Q[1].code,
         \A u : InCase(Q, sh, 1, u) => u = B[N + 1].upper
  PROVE  Follows(N + 1, B, O, m - 1, R, sh, D, n)
<1>0. /\ \A i \in 1..N : B[i] = C[i] /\ O[i] = P[i]
      /\ \A i \in 1..(m - 1) : R[i] = Q[i + 1]
  BY DEF Extends, Drops
<1>1. PICK f : Places(N, C, P, m, Q, sh, D, f, n)
  BY DEF Follows
<1>a. \A j \in 1..n : f[j] \in 1..(N + m)
  BY <1>1 DEF Places
<1>b. \A j, k \in 1..n : j < k => f[j] < f[k]
  BY <1>1 DEF Places
<1>c. \A j \in 1..n : OwedAt(N, C, P, Q, f[j])
  BY <1>1 DEF Places
<1>d. \A i \in 1..(N + m) : OwedAt(N, C, P, Q, i) => \E j \in 1..n : f[j] = i
  BY <1>1 DEF Places
<1>e. \A j \in 1..n : f[j] <= N => D[j] = C[f[j]]
  BY <1>1 DEF Places
<1>f. \A j \in 1..n : f[j] > N =>
        D[j].code = Q[f[j] - N].code /\ InCase(Q, sh, f[j] - N, D[j].upper)
  BY <1>1 DEF Places
<1>o. /\ \A i \in 1..N : OwedAt(N + 1, B, O, R, i) <=> OwedAt(N, C, P, Q, i)
      /\ OwedAt(N + 1, B, O, R, N + 1) /\ OwedAt(N, C, P, Q, N + 1)
      /\ \A i \in (N + 2)..(N + m) : OwedAt(N + 1, B, O, R, i) <=> OwedAt(N, C, P, Q, i)
  BY <1>0 DEF OwedAt
<1>p. \A i \in 1..m : \A u : InCase(Q, sh, i + 1, u) => InCase(R, sh, i, u)
  BY <1>0, CaseTaken
<1>2. \A j \in 1..n : f[j] \in 1..((N + 1) + (m - 1))
  BY <1>a
<1>3. \A j \in 1..n : OwedAt(N + 1, B, O, R, f[j])
  BY <1>a, <1>c, <1>o
<1>4. \A i \in 1..((N + 1) + (m - 1)) :
        OwedAt(N + 1, B, O, R, i) => \E j \in 1..n : f[j] = i
  BY <1>d, <1>o
<1>5. ASSUME NEW j \in 1..n, f[j] <= N + 1
      PROVE  D[j] = B[f[j]]
  <2>1. CASE f[j] <= N
    BY <2>1, <1>0, <1>a, <1>e
  <2>2. CASE f[j] = N + 1
    <3>1. D[j].code = Q[1].code /\ InCase(Q, sh, 1, D[j].upper)
      BY <2>2, <1>f
    <3>2. D[j].upper = B[N + 1].upper
      BY <3>1
    <3> QED BY <2>2, <3>1, <3>2 DEF Events
  <2> QED BY <1>5, <1>a, <2>1, <2>2
<1>6. ASSUME NEW j \in 1..n, f[j] > N + 1
      PROVE  D[j].code = R[f[j] - (N + 1)].code /\ InCase(R, sh, f[j] - (N + 1), D[j].upper)
  <2>1. /\ f[j] > N /\ f[j] - (N + 1) \in 1..(m - 1)
        /\ f[j] - N = (f[j] - (N + 1)) + 1
    BY <1>6, <1>a
  <2>2. R[f[j] - (N + 1)] = Q[f[j] - N]
    BY <2>1, <1>0
  <2> QED BY <2>1, <2>2, <1>f, <1>p
<1> QED
  BY <1>b, <1>2, <1>3, <1>4, <1>5, <1>6 DEF Follows, Places

\* The controller starts to send a repetition, of a key that does not commit.
LEMMA SendRepetition ==
  ASSUME NEW N \in Nat, NEW m \in Nat, NEW n \in Nat,
         NEW C, NEW P, NEW Q, NEW B, NEW O, NEW D, NEW sh,
         Follows(N, C, P, m, Q, sh, D, n),
         \A i \in 1..N : B[i] = C[i] /\ O[i] = P[i],
         ~O[N + 1], B[N + 1].code \notin Commits
  PROVE  Follows(N + 1, B, O, m, Q, sh, D, n)
<1>1. PICK f : Places(N, C, P, m, Q, sh, D, f, n)
  BY DEF Follows
<1> DEFINE g == [j \in 1..n |-> IF f[j] <= N THEN f[j] ELSE f[j] + 1]
<1>a. \A j \in 1..n : f[j] \in 1..(N + m)
  BY <1>1 DEF Places
<1>b. \A j, k \in 1..n : j < k => f[j] < f[k]
  BY <1>1 DEF Places
<1>c. \A j \in 1..n : OwedAt(N, C, P, Q, f[j])
  BY <1>1 DEF Places
<1>d. \A i \in 1..(N + m) : OwedAt(N, C, P, Q, i) => \E j \in 1..n : f[j] = i
  BY <1>1 DEF Places
<1>e. \A j \in 1..n : f[j] <= N => D[j] = C[f[j]]
  BY <1>1 DEF Places
<1>f. \A j \in 1..n : f[j] > N =>
        D[j].code = Q[f[j] - N].code /\ InCase(Q, sh, f[j] - N, D[j].upper)
  BY <1>1 DEF Places
<1>g. \A j \in 1..n : g[j] = IF f[j] <= N THEN f[j] ELSE f[j] + 1
  OBVIOUS
<1> HIDE DEF g
<1>o. /\ \A i \in 1..N : OwedAt(N + 1, B, O, Q, i) <=> OwedAt(N, C, P, Q, i)
      /\ ~OwedAt(N + 1, B, O, Q, N + 1)
      /\ \A i \in (N + 1)..(N + m) : OwedAt(N + 1, B, O, Q, i + 1) <=> OwedAt(N, C, P, Q, i)
  BY DEF OwedAt
<1>2. \A j \in 1..n : g[j] \in 1..((N + 1) + m)
  BY <1>a, <1>g
<1>3. \A j, k \in 1..n : j < k => g[j] < g[k]
  BY <1>a, <1>b, <1>g
<1>4. \A j \in 1..n : OwedAt(N + 1, B, O, Q, g[j])
  BY <1>a, <1>c, <1>g, <1>o
<1>5. ASSUME NEW i \in 1..((N + 1) + m), OwedAt(N + 1, B, O, Q, i)
      PROVE  \E j \in 1..n : g[j] = i
  <2>1. CASE i <= N
    BY <1>5, <2>1, <1>d, <1>g, <1>o
  <2>2. CASE i > N + 1
    <3>1. OwedAt(N, C, P, Q, i - 1)
      <4>1. i - 1 \in (N + 1)..(N + m) /\ (i - 1) + 1 = i
        BY <2>2
      <4> QED BY <4>1, <1>5, <1>o
    <3>2. PICK j \in 1..n : f[j] = i - 1
      BY <3>1, <2>2, <1>d
    <3> QED BY <2>2, <3>2, <1>g
  <2> QED BY <2>1, <2>2, <1>5, <1>o
<1>6. \A j \in 1..n : g[j] <= N + 1 => D[j] = B[g[j]]
  BY <1>a, <1>e, <1>g
<1>7. \A j \in 1..n : g[j] > N + 1 =>
        D[j].code = Q[g[j] - (N + 1)].code /\ InCase(Q, sh, g[j] - (N + 1), D[j].upper)
  <2> SUFFICES ASSUME NEW j \in 1..n, g[j] > N + 1
               PROVE  f[j] > N /\ g[j] - (N + 1) = f[j] - N
    BY <1>f
  <2> QED BY <1>a, <1>g
<1> QED
  BY <1>2, <1>3, <1>4, <1>5, <1>6, <1>7 DEF Follows, Places

\* The app takes an Event that settles nothing.
LEMMA AppTakesOther ==
  ASSUME NEW N \in Nat \ {0}, NEW m \in Nat, NEW n \in Nat,
         NEW C, NEW P, NEW Q, NEW B, NEW O, NEW D, NEW sh,
         Follows(N, C, P, m, Q, sh, D, n),
         \A i \in 1..(N - 1) : B[i] = C[i + 1] /\ O[i] = P[i + 1],
         ~OwedAt(N, C, P, Q, 1)
  PROVE  Follows(N - 1, B, O, m, Q, sh, D, n)
<1>1. PICK f : Places(N, C, P, m, Q, sh, D, f, n)
  BY DEF Follows
<1> DEFINE g == [j \in 1..n |-> f[j] - 1]
<1>a. \A j \in 1..n : f[j] \in 1..(N + m)
  BY <1>1 DEF Places
<1>b. \A j, k \in 1..n : j < k => f[j] < f[k]
  BY <1>1 DEF Places
<1>c. \A j \in 1..n : OwedAt(N, C, P, Q, f[j])
  BY <1>1 DEF Places
<1>d. \A i \in 1..(N + m) : OwedAt(N, C, P, Q, i) => \E j \in 1..n : f[j] = i
  BY <1>1 DEF Places
<1>e. \A j \in 1..n : f[j] <= N => D[j] = C[f[j]]
  BY <1>1 DEF Places
<1>f. \A j \in 1..n : f[j] > N =>
        D[j].code = Q[f[j] - N].code /\ InCase(Q, sh, f[j] - N, D[j].upper)
  BY <1>1 DEF Places
<1>g. \A j \in 1..n : g[j] = f[j] - 1
  OBVIOUS
<1> HIDE DEF g
<1>o. \A i \in 1..((N - 1) + m) : OwedAt(N - 1, B, O, Q, i) <=> OwedAt(N, C, P, Q, i + 1)
  BY DEF OwedAt
<1>n. \A j \in 1..n : f[j] # 1
  BY <1>c
<1>2. \A j \in 1..n : g[j] \in 1..((N - 1) + m)
  BY <1>a, <1>g, <1>n
<1>3. \A j, k \in 1..n : j < k => g[j] < g[k]
  BY <1>a, <1>b, <1>g
<1>4. \A j \in 1..n : OwedAt(N - 1, B, O, Q, g[j])
  BY <1>a, <1>c, <1>g, <1>n, <1>o
<1>5. ASSUME NEW i \in 1..((N - 1) + m), OwedAt(N - 1, B, O, Q, i)
      PROVE  \E j \in 1..n : g[j] = i
  <2>1. PICK j \in 1..n : f[j] = i + 1
    BY <1>5, <1>d, <1>o
  <2> QED BY <2>1, <1>g
<1>6. \A j \in 1..n : g[j] <= N - 1 => D[j] = B[g[j]]
  BY <1>a, <1>e, <1>g, <1>n
<1>7. \A j \in 1..n : g[j] > N - 1 =>
        D[j].code = Q[g[j] - (N - 1)].code /\ InCase(Q, sh, g[j] - (N - 1), D[j].upper)
  <2> SUFFICES ASSUME NEW j \in 1..n, g[j] > N - 1
               PROVE  f[j] > N /\ g[j] - (N - 1) = f[j] - N
    BY <1>f
  <2> QED BY <1>a, <1>g
<1> QED
  BY <1>2, <1>3, <1>4, <1>5, <1>6, <1>7 DEF Follows, Places

\* The app takes an Event that settles the oldest debt.
LEMMA AppTakesOwed ==
  ASSUME NEW N \in Nat \ {0}, NEW m \in Nat, NEW n \in Nat,
         NEW C, NEW P, NEW Q, NEW B, NEW O, NEW D, NEW E, NEW sh,
         Follows(N, C, P, m, Q, sh, D, n),
         \A i \in 1..(N - 1) : B[i] = C[i + 1] /\ O[i] = P[i + 1],
         \A j \in 1..(n - 1) : E[j] = D[j + 1],
         OwedAt(N, C, P, Q, 1)
  PROVE  n > 0 /\ Follows(N - 1, B, O, m, Q, sh, E, n - 1)
<1>1. PICK f : Places(N, C, P, m, Q, sh, D, f, n)
  BY DEF Follows
<1> DEFINE g == [j \in 1..(n - 1) |-> f[j + 1] - 1]
<1>a. \A j \in 1..n : f[j] \in 1..(N + m)
  BY <1>1 DEF Places
<1>b. \A j, k \in 1..n : j < k => f[j] < f[k]
  BY <1>1 DEF Places
<1>c. \A j \in 1..n : OwedAt(N, C, P, Q, f[j])
  BY <1>1 DEF Places
<1>d. \A i \in 1..(N + m) : OwedAt(N, C, P, Q, i) => \E j \in 1..n : f[j] = i
  BY <1>1 DEF Places
<1>e. \A j \in 1..n : f[j] <= N => D[j] = C[f[j]]
  BY <1>1 DEF Places
<1>f. \A j \in 1..n : f[j] > N =>
        D[j].code = Q[f[j] - N].code /\ InCase(Q, sh, f[j] - N, D[j].upper)
  BY <1>1 DEF Places
<1>g. \A j \in 1..(n - 1) : g[j] = f[j + 1] - 1 /\ j + 1 \in 1..n
  OBVIOUS
<1> HIDE DEF g
<1>o. \A i \in 1..((N - 1) + m) : OwedAt(N - 1, B, O, Q, i) <=> OwedAt(N, C, P, Q, i + 1)
  BY DEF OwedAt
<1>n. n > 0 /\ f[1] = 1
  <2>1. PICK j \in 1..n : f[j] = 1
    BY <1>d
  <2>2. CASE j = 1
    BY <2>1, <2>2
  <2>3. CASE j # 1
    <3>1. f[1] < 1
      BY <2>1, <2>3, <1>b
    <3> QED BY <3>1, <1>a
  <2> QED BY <2>2, <2>3
<1>r. \A j \in 1..(n - 1) : f[j + 1] > 1
  BY <1>a, <1>b, <1>n
<1>2. \A j \in 1..(n - 1) : g[j] \in 1..((N - 1) + m)
  BY <1>a, <1>g, <1>r
<1>3. \A j, k \in 1..(n - 1) : j < k => g[j] < g[k]
  BY <1>a, <1>b, <1>g
<1>4. \A j \in 1..(n - 1) : OwedAt(N - 1, B, O, Q, g[j])
  <2> SUFFICES ASSUME NEW j \in 1..(n - 1) PROVE OwedAt(N - 1, B, O, Q, g[j])
    OBVIOUS
  <2>1. OwedAt(N, C, P, Q, f[j + 1]) /\ g[j] + 1 = f[j + 1]
    BY <1>a, <1>c, <1>g
  <2> QED BY <2>1, <1>2, <1>o
<1>5. ASSUME NEW i \in 1..((N - 1) + m), OwedAt(N - 1, B, O, Q, i)
      PROVE  \E j \in 1..(n - 1) : g[j] = i
  <2>1. PICK j \in 1..n : f[j] = i + 1
    BY <1>5, <1>d, <1>o
  <2>2. j # 1
    BY <2>1, <1>n
  <2>3. j - 1 \in 1..(n - 1) /\ (j - 1) + 1 = j
    BY <2>2
  <2> QED BY <2>1, <2>3, <1>g
<1>6. ASSUME NEW j \in 1..(n - 1), g[j] <= N - 1 PROVE E[j] = B[g[j]]
  <2>1. f[j + 1] <= N /\ g[j] \in 1..(N - 1) /\ g[j] + 1 = f[j + 1]
    BY <1>6, <1>a, <1>g, <1>r
  <2>2. D[j + 1] = C[f[j + 1]]
    BY <2>1, <1>e, <1>g
  <2> QED BY <2>1, <2>2
<1>7. ASSUME NEW j \in 1..(n - 1), g[j] > N - 1
      PROVE  E[j].code = Q[g[j] - (N - 1)].code /\ InCase(Q, sh, g[j] - (N - 1), E[j].upper)
  <2>1. f[j + 1] > N /\ g[j] - (N - 1) = f[j + 1] - N
    BY <1>7, <1>a, <1>g
  <2> QED BY <2>1, <1>f, <1>g
<1> QED
  BY <1>n, <1>2, <1>3, <1>4, <1>5, <1>6, <1>7 DEF Follows, Places

\* A set of the first numbers.
LEMMA FirstNumbers ==
  ASSUME NEW n \in Nat, NEW S \in SUBSET (1..n),
         \A j \in S : \A k \in 1..j : k \in S
  PROVE  Cardinality(S) \in 0..n /\ S = 1..Cardinality(S)
<1> DEFINE c == Cardinality(S)
<1>1. IsFiniteSet(1..n) /\ Cardinality(1..n) = n
  BY FS_Interval
<1>2. IsFiniteSet(S) /\ c \in Nat /\ c <= n
  BY <1>1, FS_Subset, FS_CardinalityType
<1>3. S \subseteq 1..c
  <2> SUFFICES ASSUME NEW j \in S PROVE j <= c
    OBVIOUS
  <2>1. 1..j \subseteq S
    OBVIOUS
  <2>2. Cardinality(1..j) = j
    BY FS_Interval
  <2>3. Cardinality(1..j) <= c
    BY <2>1, <1>2, FS_Subset
  <2> QED BY <2>2, <2>3
<1>4. IsFiniteSet(1..c) /\ Cardinality(1..c) = c
  BY <1>2, FS_Interval
<1> HIDE DEF c
<1>5. S = 1..c
  <2>1. Cardinality(S) = c
    BY DEF c
  <2> QED BY <2>1, <1>3, <1>4, FS_Subset
<1> QED BY <1>2, <1>5 DEF c

\* The end of the pipeline is lost: what is left follows as before.
LEMMA Lost ==
  ASSUME NEW N \in Nat, NEW m \in Nat, NEW n \in Nat, NEW l \in 0..m,
         NEW C, NEW P, NEW Q, NEW R, NEW D, NEW sh,
         Follows(N, C, P, m, Q, sh, D, n),
         \A i \in 1..l : R[i] = Q[i]
  PROVE  \E k \in 0..n : Follows(N, C, P, l, R, sh, D, k)
<1>1. PICK f : Places(N, C, P, m, Q, sh, D, f, n)
  BY DEF Follows
<1>a. \A j \in 1..n : f[j] \in 1..(N + m)
  BY <1>1 DEF Places
<1>b. \A j, k \in 1..n : j < k => f[j] < f[k]
  BY <1>1 DEF Places
<1>c. \A j \in 1..n : OwedAt(N, C, P, Q, f[j])
  BY <1>1 DEF Places
<1>d. \A i \in 1..(N + m) : OwedAt(N, C, P, Q, i) => \E j \in 1..n : f[j] = i
  BY <1>1 DEF Places
<1>e. \A j \in 1..n : f[j] <= N => D[j] = C[f[j]]
  BY <1>1 DEF Places
<1>f. \A j \in 1..n : f[j] > N =>
        D[j].code = Q[f[j] - N].code /\ InCase(Q, sh, f[j] - N, D[j].upper)
  BY <1>1 DEF Places
<1> DEFINE S == {j \in 1..n : f[j] <= N + l}
           k == Cardinality(S)
<1>s. k \in 0..n /\ S = 1..k
  <2>1. \A j \in S : \A i \in 1..j : i \in S
    <3> SUFFICES ASSUME NEW j \in S, NEW i \in 1..j PROVE i \in S
      OBVIOUS
    <3>1. CASE i = j
      BY <3>1
    <3>2. CASE i < j
      <4>1. i \in 1..n /\ j \in 1..n /\ f[i] < f[j]
        BY <3>2, <1>b
      <4> QED BY <4>1, <1>a
    <3> QED BY <3>1, <3>2
  <2>2. S \in SUBSET (1..n)
    OBVIOUS
  <2> HIDE DEF S
  <2> QED BY <2>1, <2>2, FirstNumbers
<1>t. \A j \in 1..n : j \in 1..k <=> f[j] <= N + l
  BY <1>s
<1> HIDE DEF k
<1>o. \A i \in 1..(N + l) : OwedAt(N, C, P, R, i) <=> OwedAt(N, C, P, Q, i)
  BY DEF OwedAt
<1>p. \A i \in 1..(l + 1) : \A u : InCase(Q, sh, i, u) => InCase(R, sh, i, u)
  BY DEF InCase
<1>2. \A j \in 1..k : j \in 1..n /\ f[j] \in 1..(N + l)
  BY <1>a, <1>s, <1>t
<1>3. \A j \in 1..k : OwedAt(N, C, P, R, f[j])
  BY <1>2, <1>c, <1>o
<1>4. \A i \in 1..(N + l) : OwedAt(N, C, P, R, i) => \E j \in 1..k : f[j] = i
  BY <1>d, <1>o, <1>t
<1>5. \A i, j \in 1..k : i < j => f[i] < f[j]
  BY <1>2, <1>b
<1>6. \A j \in 1..k : f[j] <= N => D[j] = C[f[j]]
  BY <1>2, <1>e
<1>7. ASSUME NEW j \in 1..k, f[j] > N
      PROVE  D[j].code = R[f[j] - N].code /\ InCase(R, sh, f[j] - N, D[j].upper)
  <2>1. j \in 1..n /\ f[j] - N \in 1..l
    BY <1>7, <1>2
  <2> QED BY <2>1, <1>7, <1>f, <1>p
<1>8. Places(N, C, P, l, R, sh, D, f, k)
  BY <1>2, <1>3, <1>4, <1>5, <1>6, <1>7 DEF Places
<1> QED BY <1>s, <1>8 DEF Follows

-----------------------------------------------------------------------------
(***************************************************************************)
(* Sequences that are the concatenation of others.                         *)
(***************************************************************************)
\* What concatenation does with the last element of the second sequence, and
\* with the first of the first.
LEMMA ConcatEnds ==
  ASSUME NEW S, NEW a \in Seq(S), NEW b \in Seq(S), NEW e \in S
  PROVE  /\ a \o Append(b, e) = Append(a \o b, e)
         /\ a # <<>> => /\ a \o b # <<>>
                        /\ Tail(a) \o b = Tail(a \o b)
                        /\ (a \o b)[1] = Head(a)
<1>1. a \o Append(b, e) = Append(a \o b, e)
  BY SMTT(30)
<1>2. ASSUME a # <<>>
      PROVE  /\ a \o b # <<>>
             /\ Tail(a) \o b = Tail(a \o b)
             /\ (a \o b)[1] = Head(a)
  BY <1>2, SMTT(30)
<1> QED BY <1>1, <1>2

\* A sequence is its first element and the rest.
LEMMA HeadAndTail ==
  ASSUME NEW S, NEW a \in Seq(S), a # <<>>
  PROVE  <<Head(a)>> \o Tail(a) = a
BY SMTT(30)

-----------------------------------------------------------------------------
(***************************************************************************)
(* Types.                                                                  *)
(***************************************************************************)
\* The types hold initially.
LEMMA TypeInit == Init => TypeOK
<1> USE SizesAssumption
<1> SUFFICES ASSUME Init PROVE TypeOK
  OBVIOUS
<1>1. kernel \in Seq(Raws) /\ raw \in Seq(Raws) /\ out \in Seq(Events)
  BY DEF Init
<1>2. Len(kernel) = 0 /\ Len(raw) = 0 /\ Len(out) = 0
  BY DEF Init
<1>3. Len(kernel) <= KernelMax /\ Len(raw) <= RawMax /\ Len(out) <= OutMax
  BY <1>2
<1> QED BY <1>1, <1>3 DEF Init, TypeOK

\* Every step keeps the types.
LEMMA TypeStep ==
  ASSUME TypeOK, [Next]_vars
  PROVE  TypeOK'
<1> USE SizesAssumption
<1> USE DEF TypeOK
<1>s. KernelMax \in Nat /\ RawMax \in Nat /\ OutMax \in Nat
  OBVIOUS
<1>1. ASSUME NEW c \in Codes, NEW p \in BOOLEAN, Queue([code |-> c, press |-> p])
      PROVE  kernel' \in Seq(Raws) /\ Len(kernel') <= KernelMax
  <2>1. [code |-> c, press |-> p] \in Raws
    BY DEF Raws
  <2> QED BY <1>s, <1>1, <2>1, Grown, LenProperties DEF Queue
<1>2. ASSUME NEW c \in Codes, Press(c) PROVE TypeOK'
  BY <1>1, <1>2 DEF Press, controller
<1>3. ASSUME NEW c \in Codes, Release(c) PROVE TypeOK'
  BY <1>1, <1>3 DEF Release, controller
<1>4. CASE Cancel
  BY <1>4 DEF Cancel, reader, controller
<1>5. CASE ReadKey
  <2>1. kernel' \in Seq(Raws) /\ Len(kernel') <= KernelMax /\ hand' \in Raws
    BY <1>s, <1>5, Shrunk DEF ReadKey
  <2> QED BY <1>5, <2>1 DEF ReadKey, controller
<1>6. CASE SendRaw
  <2>1. raw' \in Seq(Raws) /\ Len(raw') <= RawMax
    BY <1>s, <1>6, Grown, LenProperties DEF SendRaw
  <2> QED BY <1>6, <2>1 DEF SendRaw, controller
<1>7. ASSUME NEW r, Take(r)
      PROVE  raw' \in Seq(Raws) /\ Len(raw') <= RawMax /\ r \in Raws
  BY <1>s, <1>7, Shrunk DEF Take
<1>8. CASE TakeShift
  BY <1>7, <1>8 DEF TakeShift, Take, Selecting, reader
<1>9. CASE TakePress
  <2>1. PICK r \in [code : Commits \cup Others, press : {TRUE}] :
          LET e == [code |-> r.code, upper |-> shift] IN
          /\ Take(r)
          /\ sending' = [event |-> e, held |-> IF Repeatable(r.code) THEN e ELSE None]
          /\ UNCHANGED <<shift, held>>
    BY <1>9 DEF TakePress
  <2> DEFINE e == [code |-> r.code, upper |-> shift]
  <2>2. e \in Events /\ e.code = r.code
    BY DEF Events
  <2>3. /\ sending' \in Sends
        /\ sending'.held # None => sending'.held.code \in Others
    BY <2>1, <2>2 DEF Sends, Repeatable
  <2> QED BY <1>7, <2>1, <2>3 DEF Take, Selecting, reader
<1>10. CASE TakeDead
  BY <1>7, <1>10 DEF TakeDead, Take, Selecting, reader
<1>11. CASE TakeRelease
  BY <1>7, <1>11 DEF TakeRelease, Take, Selecting, reader
<1>12. CASE Tick
  BY <1>12 DEF Tick, Selecting, reader, Sends
<1>13. CASE Emit
  <2>1. /\ sending.event \in Events /\ held' \in Events \cup {None}
        /\ held' # None => held'.code \in Others
    BY <1>13 DEF Emit, EmitReturns, Sends
  <2>2. out' \in Seq(Events) /\ Len(out') <= OutMax
    BY <1>s, <1>13, <2>1, Grown, LenProperties DEF Emit
  <2> QED BY <1>13, <2>1, <2>2 DEF Emit, EmitReturns, reader
<1>14. CASE EmitGivesUp
  <2>1. /\ held' \in Events \cup {None}
        /\ held' # None => held'.code \in Others
    BY <1>14 DEF EmitGivesUp, EmitReturns, Sends
  <2> QED BY <1>14, <2>1 DEF EmitGivesUp, EmitReturns, reader
<1>15. CASE AppTakes
  <2>1. out' \in Seq(Events) /\ Len(out') <= OutMax
    BY <1>s, <1>15, Shrunk DEF AppTakes
  <2> QED BY <1>15, <2>1 DEF AppTakes, reader, controller
<1>16. CASE Quit
  BY <1>16 DEF Quit, ReaderQuits, ControllerQuits, AppQuits, Selecting, reader, controller
<1>17. CASE UNCHANGED vars
  BY <1>17 DEF vars, reader, controller
<1> QED
  BY <1>2, <1>3, <1>4, <1>5, <1>6, <1>8, <1>9, <1>10, <1>11, <1>12,
     <1>13, <1>14, <1>15, <1>16, <1>17 DEF Next, Keypad, TakeOne, EmitEnds

\* Every key that ReadKeys repeats is one it may repeat, and no channel holds
\* more than it has room for: held and sending never name a key that commits.
THEOREM KeyTyped == Spec => []TypeOK
  BY TypeInit, TypeStep, PTL DEF Spec

-----------------------------------------------------------------------------
(***************************************************************************)
(* The inductive invariant: the pipeline holds exactly what is due, and    *)
(* its shift events lead to the case the keypad has now.                   *)
(***************************************************************************)
HTypeOK ==
  /\ due \in Seq(Events)
  /\ fresh \in Seq(BOOLEAN) /\ Len(fresh) = Len(out)
  /\ sendsPress \in BOOLEAN

Keeping(n) == Follows(Len(Coming), Coming, Pressed, Len(Queued), Queued, shift, due, n)

Delivering ==
  Owing =>
    /\ \E n \in 0..Len(due) : Keeping(n)
    /\ readerUp => /\ Keeping(Len(due))
                   /\ InCase(Queued, shift, Len(Queued) + 1, down \cap Shifts # {})

HInv == TypeOK /\ HTypeOK /\ Delivering

\* The history changes no step of KeyInput.
LEMMA HistorySteps == HNext => Next
BY DEF HNext, HPress, HCancel, HTakePress, HTick, HEmit, HAppTakes, HOther,
       Next, Keypad, TakeOne, EmitEnds

\* The types of the pipeline's two halves and of what is due.
LEMMA Pipeline ==
  ASSUME TypeOK, HTypeOK
  PROVE  /\ Coming \in Seq(Events) /\ Len(Coming) \in Nat
         /\ Pressed \in Seq(BOOLEAN) /\ Len(Pressed) = Len(Coming)
         /\ Queued \in Seq(Raws) /\ Len(Queued) \in Nat
         /\ Len(due) \in Nat
         /\ \A i \in 1..Len(due) : due[i] \in Events
<1>1. sending # None => sending.event \in Events
  BY DEF TypeOK, Sends
<1>2. Coming \in Seq(Events) /\ Pressed \in Seq(BOOLEAN) /\ Len(Pressed) = Len(Coming)
  <2>1. out \in Seq(Events) /\ fresh \in Seq(BOOLEAN) /\ Len(fresh) = Len(out)
    BY DEF TypeOK, HTypeOK
  <2>2. CASE sending = None
    BY <2>1, <2>2 DEF Coming, Pressed
  <2>3. CASE sending # None
    <3>1. Coming = Append(out, sending.event) /\ Pressed = Append(fresh, sendsPress)
      BY <2>3 DEF Coming, Pressed
    <3>2. sendsPress \in BOOLEAN
      BY DEF HTypeOK
    <3> QED BY <1>1, <2>1, <2>3, <3>1, <3>2, Grown
  <2> QED BY <2>2, <2>3
<1>3. (IF hand = None THEN <<>> ELSE <<hand>>) \in Seq(Raws)
  BY DEF TypeOK
<1>4. Queued \in Seq(Raws)
  BY <1>3, ConcatProperties DEF TypeOK, Queued
<1> QED BY <1>2, <1>4, LenProperties, ElementOfSeq DEF HTypeOK

\* The steps of the reader and of the channels leave the queue as it is.
LEMMA QueuedMoves ==
  ASSUME TypeOK, TypeOK', ReadKey \/ SendRaw
  PROVE  Queued' = Queued
<1>1. CASE ReadKey
  <2>1. /\ readerUp /\ readerUp' /\ raw' = raw /\ hand = None /\ hand' # None
        /\ kernel \in Seq(Raws) /\ raw \in Seq(Raws) /\ hand' \in Raws
        /\ kernel' \in Seq(Raws) /\ kernel # <<>>
        /\ hand' = Head(kernel) /\ kernel' = Tail(kernel)
    BY <1>1, NoneAssumption, Shrunk DEF ReadKey, TypeOK
  <2>2. <<hand'>> \o kernel' = kernel
    BY <2>1, HeadAndTail
  <2>3. Queued = (raw \o <<>>) \o kernel /\ Queued' = (raw \o <<hand'>>) \o kernel'
    BY <2>1 DEF Queued
  <2>4. <<hand'>> \in Seq(Raws) /\ <<>> \in Seq(Raws)
    BY <2>1
  <2>5. (raw \o <<hand'>>) \o kernel' = raw \o (<<hand'>> \o kernel')
    BY <2>1, <2>4, ConcatAssociative
  <2> QED BY <2>1, <2>2, <2>3, <2>5, ConcatEmptySeq
<1>2. CASE SendRaw
  <2>1. /\ readerUp /\ readerUp' /\ kernel' = kernel /\ hand # None /\ hand' = None
        /\ kernel \in Seq(Raws) /\ raw \in Seq(Raws) /\ hand \in Raws
        /\ raw' = Append(raw, hand)
    BY <1>2 DEF SendRaw, TypeOK
  <2>2. Queued = (raw \o <<hand>>) \o kernel /\ Queued' = (raw' \o <<>>) \o kernel
    BY <2>1 DEF Queued
  <2>3. raw' \in Seq(Raws) /\ raw' = raw \o <<hand>>
    BY <2>1, AppendIsConcat, Grown
  <2> QED BY <2>2, <2>3, ConcatEmptySeq
<1> QED BY <1>1, <1>2

\* The keypad adds to the end of the queue, as long as the reader runs.
LEMMA QueuedGrows ==
  ASSUME TypeOK, NEW r \in Raws, Queue(r), UNCHANGED <<hand, readerUp, raw>>
  PROVE  Queued' = IF readerUp THEN Append(Queued, r) ELSE Queued
<1> DEFINE h == IF hand = None THEN <<>> ELSE <<hand>>
<1>1. h \in Seq(Raws)
  BY DEF TypeOK
<1>2. (raw \o h) \o Append(kernel, r) = Append((raw \o h) \o kernel, r)
  <2> HIDE DEF h
  <2>1. raw \o h \in Seq(Raws)
    BY <1>1, ConcatProperties DEF TypeOK
  <2> QED BY <2>1, ConcatEnds DEF TypeOK
<1>3. kernel' = Append(kernel, r)
  BY DEF Queue
<1>4. CASE readerUp
  <2>1. Queued = (raw \o h) \o kernel /\ Queued' = (raw \o h) \o Append(kernel, r)
    BY <1>3, <1>4 DEF Queued
  <2> QED BY <1>2, <1>4, <2>1
<1>5. CASE ~readerUp
  BY <1>5 DEF Queued
<1> QED BY <1>4, <1>5

\* The controller takes the first of the queue.
LEMMA QueuedShrinks ==
  ASSUME TypeOK, NEW r, Take(r)
  PROVE  /\ Queued # <<>> /\ Queued[1] = r /\ r \in Raws
         /\ Queued' = Tail(Queued)
         /\ readerUp' = readerUp
<1> DEFINE h == IF hand = None THEN <<>> ELSE <<hand>>
<1>0. /\ raw # <<>> /\ raw \in Seq(Raws) /\ kernel \in Seq(Raws)
      /\ r = Head(raw) /\ raw' = Tail(raw) /\ UNCHANGED <<kernel, hand, readerUp>>
  BY DEF Take, TypeOK, reader
<1>1. h \in Seq(Raws)
  BY DEF TypeOK
<1>2. raw[1] = r /\ r \in Raws
  BY <1>0, Shrunk
<1>3. CASE ~readerUp
  BY <1>0, <1>2, <1>3 DEF Queued
<1>4. CASE readerUp
  <2>1. /\ raw \o h # <<>> /\ raw \o h \in Seq(Raws)
        /\ Tail(raw) \o h = Tail(raw \o h) /\ (raw \o h)[1] = r
    <3> HIDE DEF h
    <3> QED BY <1>0, <1>1, <1>2, ConcatEnds, ConcatProperties
  <2>2. /\ (raw \o h) \o kernel # <<>> /\ ((raw \o h) \o kernel)[1] = r
        /\ Tail(raw \o h) \o kernel = Tail((raw \o h) \o kernel)
    <3> HIDE DEF h
    <3>1. Head(raw \o h) = r
      BY <2>1, Shrunk
    <3> QED BY <1>0, <1>2, <2>1, <3>1, ConcatEnds
  <2>3. Queued = (raw \o h) \o kernel /\ Queued' = (Tail(raw) \o h) \o kernel
    BY <1>0, <1>4 DEF Queued
  <2> HIDE DEF h
  <2> QED BY <1>0, <1>2, <2>1, <2>2, <2>3
<1> QED BY <1>3, <1>4

-----------------------------------------------------------------------------
(***************************************************************************)
(* The steps, one by one.                                                  *)
(***************************************************************************)
\* The types of the history.
LEMMA HistoryTyped ==
  ASSUME TypeOK, HTypeOK, [HNext]_hvars
  PROVE  HTypeOK'
<1> USE DEF HTypeOK
<1>1. ASSUME NEW c \in Codes, HPress(c) PROVE HTypeOK'
  <2>1. c \in Commits \cup Others => [code |-> c, upper |-> down \cap Shifts # {}] \in Events
    BY DEF Events
  <2>2. due' \in Seq(Events)
    BY <1>1, <2>1, Grown DEF HPress
  <2> QED BY <1>1, <2>2 DEF HPress, Press
<1>2. CASE HCancel
  BY <1>2 DEF HCancel, Cancel
<1>3. CASE HTakePress
  BY <1>3 DEF HTakePress, TakePress, Take
<1>4. CASE HTick
  BY <1>4 DEF HTick, Tick
<1>5. CASE HEmit
  <2>1. sending.event \in Events
    BY <1>5 DEF HEmit, Emit, TypeOK, Sends
  <2>2. /\ fresh' \in Seq(BOOLEAN) /\ Len(fresh') = Len(fresh) + 1
        /\ Len(out') = Len(out) + 1
    BY <1>5, <2>1, Grown DEF HEmit, Emit, TypeOK
  <2> QED BY <1>5, <2>2 DEF HEmit
<1>6. CASE HAppTakes
  <2>1. out # <<>> /\ out \in Seq(Events) /\ out' = Tail(out) /\ fresh' = Tail(fresh)
    BY <1>6 DEF HAppTakes, AppTakes, TypeOK
  <2>2. fresh # <<>>
    BY <2>1, EmptySeq
  <2>3. /\ fresh' \in Seq(BOOLEAN) /\ Len(fresh') = Len(fresh) - 1
        /\ Len(out') = Len(out) - 1
    BY <2>1, <2>2, Shrunk
  <2>4. due' \in Seq(Events)
    BY <1>6, Shrunk DEF HAppTakes
  <2> QED BY <1>6, <2>3, <2>4 DEF HAppTakes
<1>7. CASE HOther
  <2>1. out' = out
    BY <1>7 DEF HOther, Release, ReadKey, SendRaw, TakeShift, TakeDead, TakeRelease, Take,
             EmitGivesUp, Quit, ReaderQuits, ControllerQuits, AppQuits
  <2> QED BY <1>7, <2>1 DEF HOther
<1>8. CASE UNCHANGED hvars
  BY <1>8 DEF hvars, vars
<1> QED
  BY <1>1, <1>2, <1>3, <1>4, <1>5, <1>6, <1>7, <1>8 DEF HNext

\* A step that changes nothing the invariant speaks of keeps it.
LEMMA DeliveringKept ==
  ASSUME Delivering, Coming' = Coming, Pressed' = Pressed, Queued' = Queued,
         UNCHANGED <<shift, due, readerUp, down, cancelled>>
  PROVE  Delivering'
BY DEF Delivering, Keeping, Owing

\* A press is queued, and due.
LEMMA PressDelivers ==
  ASSUME TypeOK, HTypeOK, TypeOK', HTypeOK', Delivering, NEW c \in Codes, HPress(c)
  PROVE  Delivering'
<1> SUFFICES ASSUME Owing'
             PROVE  /\ \E n \in 0..Len(due') : Keeping(n)'
                    /\ readerUp' =>
                         /\ Keeping(Len(due))'
                         /\ InCase(Queued', shift', Len(Queued') + 1, down' \cap Shifts # {})
  BY DEF Delivering
<1> DEFINE r == [code |-> c, press |-> TRUE]
           u == down \cap Shifts # {}
           e == [code |-> c, upper |-> u]
           N == Len(Coming)
           m == Len(Queued)
<1>1. /\ Owing /\ Coming' = Coming /\ Pressed' = Pressed /\ shift' = shift
      /\ readerUp' = readerUp /\ down' = down \cup {c} /\ r \in Raws
      /\ Queue(r) /\ UNCHANGED <<hand, readerUp, raw>>
  BY DEF HPress, Press, Owing, Coming, Pressed, controller, Raws
<1>2. Queued' = IF readerUp THEN Append(Queued, r) ELSE Queued
  BY <1>1, QueuedGrows
<1>3. /\ N \in Nat /\ m \in Nat /\ Len(due) \in Nat /\ Queued \in Seq(Raws)
      /\ due \in Seq(Events)
  BY Pipeline DEF HTypeOK
<1>4. IsPress(r) <=> c \in Commits \cup Others
  BY DEF IsPress
<1>5. due' = IF IsPress(r) THEN Append(due, e) ELSE due
  BY <1>1, <1>4 DEF HPress
<1>6. IsPress(r) => e \in Events
  BY <1>4 DEF Events
<1>7. /\ Len(due') \in Nat /\ Len(due) <= Len(due')
      /\ \A j \in 1..Len(due) : due'[j] = due[j]
      /\ IsPress(r) => Len(due') = Len(due) + 1 /\ due'[Len(due) + 1] = e
      /\ ~IsPress(r) => Len(due') = Len(due)
  <2>1. CASE IsPress(r)
    BY <2>1, <1>3, <1>5, <1>6, Grown
  <2>2. CASE ~IsPress(r)
    BY <2>2, <1>3, <1>5
  <2> QED BY <2>1, <2>2
<1> HIDE DEF r, e, u, N, m
<1>8. CASE ~readerUp
  <2>1. PICK n \in 0..Len(due) : Keeping(n)
    BY <1>1 DEF Delivering
  <2>2. Follows(N, Coming, Pressed, m, Queued, shift, due', n)
    <3>1. PICK f : Places(N, Coming, Pressed, m, Queued, shift, due, f, n)
      BY <2>1 DEF Keeping, Follows, N, m
    <3>2. \A j \in 1..n : due'[j] = due[j]
      BY <1>3, <1>7, <2>1
    <3>3. Places(N, Coming, Pressed, m, Queued, shift, due', f, n)
      BY <3>1, <3>2 DEF Places
    <3> QED BY <3>3 DEF Follows
  <2>3. n \in 0..Len(due')
    BY <1>3, <1>7, <2>1
  <2> QED BY <1>1, <1>2, <1>8, <2>2, <2>3 DEF Keeping, N, m
<1>9. CASE readerUp
  <2>1. /\ Follows(N, Coming, Pressed, m, Queued, shift, due, Len(due))
        /\ InCase(Queued, shift, m + 1, u)
    BY <1>1, <1>9 DEF Delivering, Keeping, N, m, u
  <2>2. /\ Len(Queued') = m + 1
        /\ \A i \in 1..m : Queued'[i] = Queued[i]
        /\ Queued'[m + 1] = r
    BY <1>1, <1>2, <1>3, <1>9, Grown DEF m
  <2>3. Follows(N, Coming, Pressed, m + 1, Queued', shift, due', Len(due'))
    <3>a. \A j \in 1..Len(due) : due'[j] = due[j]
      BY <1>7
    <3>b. \A i \in 1..m : Queued'[i] = Queued[i]
      BY <2>2
    <3>c. Follows(N, Coming, Pressed, m, Queued, shift, due, Len(due))
      BY <2>1
    <3>d. N \in Nat /\ m \in Nat /\ Len(due) \in Nat
      BY <1>3
    <3>1. CASE IsPress(r)
      <4>1. e.code = r.code /\ e.upper = u
        BY DEF e, r
      <4>2. /\ IsPress(Queued'[m + 1]) /\ due'[Len(due) + 1].code = Queued'[m + 1].code
            /\ InCase(Queued, shift, m + 1, due'[Len(due) + 1].upper)
            /\ Len(due') = Len(due) + 1
        BY <1>7, <2>1, <2>2, <3>1, <4>1
      <4>3. Follows(N, Coming, Pressed, m + 1, Queued', shift, due', Len(due) + 1)
        BY <4>2, <3>a, <3>b, <3>c, <3>d, QueuePress
      <4> QED BY <4>2, <4>3
    <3>2. CASE ~IsPress(r)
      <4>1. ~IsPress(Queued'[m + 1]) /\ Len(due') = Len(due)
        BY <1>7, <2>2, <3>2
      <4>2. Follows(N, Coming, Pressed, m + 1, Queued', shift, due', Len(due))
        BY <4>1, <3>a, <3>b, <3>c, <3>d, QueueOther
      <4> QED BY <4>1, <4>2
    <3> QED BY <3>1, <3>2
  <2>4. InCase(Queued', shift, m + 2, down' \cap Shifts # {})
    <3>1. CASE c \in Shifts
      <4>1. r.code = c /\ r.press = TRUE /\ (down' \cap Shifts # {}) = TRUE
        BY <1>1, <3>1 DEF r
      <4>2. InCase(Queued', shift, m + 2, r.press)
        BY <1>3, <2>1, <2>2, <3>1, <4>1, CaseQueued
      <4> QED BY <4>1, <4>2
    <3>2. CASE c \notin Shifts
      <4>1. r.code = c /\ (down' \cap Shifts # {}) = u
        BY <1>1, <3>2 DEF r, u
      <4>2. InCase(Queued', shift, m + 2, u)
        BY <1>3, <2>1, <2>2, <3>2, <4>1, CaseQueued
      <4> QED BY <4>1, <4>2
    <3> QED BY <3>1, <3>2
  <2>5. Keeping(Len(due))'
    BY <1>1, <2>2, <2>3 DEF Keeping, N
  <2>6. \E n \in 0..Len(due') : Keeping(n)'
    BY <1>7, <2>5
  <2>7. InCase(Queued', shift', Len(Queued') + 1, down' \cap Shifts # {})
    BY <1>1, <1>3, <2>2, <2>4
  <2> QED BY <2>5, <2>6, <2>7
<1> QED BY <1>8, <1>9

\* A release is queued: nothing else is due.
LEMMA ReleaseDelivers ==
  ASSUME TypeOK, HTypeOK, TypeOK', HTypeOK', Delivering,
         NEW c \in Codes, Release(c), UNCHANGED <<due, fresh, sendsPress>>
  PROVE  Delivering'
<1> SUFFICES ASSUME Owing'
             PROVE  /\ \E n \in 0..Len(due) : Keeping(n)'
                    /\ readerUp' =>
                         /\ Keeping(Len(due))'
                         /\ InCase(Queued', shift', Len(Queued') + 1, down' \cap Shifts # {})
  BY DEF Delivering
<1> DEFINE r == [code |-> c, press |-> FALSE]
           u == down \cap Shifts # {}
           N == Len(Coming)
           m == Len(Queued)
<1>1. /\ Owing /\ Coming' = Coming /\ Pressed' = Pressed /\ shift' = shift
      /\ readerUp' = readerUp /\ down' = down \ {c} /\ r \in Raws
      /\ Queue(r) /\ UNCHANGED <<hand, readerUp, raw>>
      /\ \A s, t \in Shifts : s = t
  BY DEF Release, Owing, Coming, Pressed, controller, Raws
<1>2. Queued' = IF readerUp THEN Append(Queued, r) ELSE Queued
  BY <1>1, QueuedGrows
<1>3. N \in Nat /\ m \in Nat /\ Len(due) \in Nat /\ Queued \in Seq(Raws)
  BY Pipeline
<1>4. ~IsPress(r) /\ r.code = c /\ r.press = FALSE
  BY DEF IsPress
<1> HIDE DEF r, u, N, m
<1>5. CASE ~readerUp
  BY <1>1, <1>2, <1>5 DEF Delivering, Keeping
<1>6. CASE readerUp
  <2>1. Follows(N, Coming, Pressed, m, Queued, shift, due, Len(due))
    BY <1>1, <1>6 DEF Delivering, Keeping, N, m
  <2>2. InCase(Queued, shift, m + 1, u)
    BY <1>1, <1>6 DEF Delivering, m, u
  <2>3. /\ Len(Queued') = m + 1
        /\ \A i \in 1..m : Queued'[i] = Queued[i]
        /\ Queued'[m + 1] = r
    BY <1>1, <1>2, <1>3, <1>6, Grown DEF m
  <2>4. \A j \in 1..Len(due) : due[j] = due[j]
    OBVIOUS
  <2>5. ~IsPress(Queued'[m + 1])
    BY <1>4, <2>3
  <2>6. Follows(N, Coming, Pressed, m + 1, Queued', shift, due, Len(due))
    BY <1>3, <2>1, <2>3, <2>4, <2>5, QueueOther
  <2>7. InCase(Queued', shift, m + 2, down' \cap Shifts # {})
    <3>1. CASE c \in Shifts
      <4>1. (down' \cap Shifts # {}) = r.press
        BY <1>1, <1>4, <3>1
      <4>2. InCase(Queued', shift, m + 2, r.press)
        BY <1>3, <1>4, <2>2, <2>3, <3>1, CaseQueued
      <4> QED BY <4>1, <4>2
    <3>2. CASE c \notin Shifts
      <4>1. (down' \cap Shifts # {}) = u
        BY <1>1, <3>2 DEF u
      <4>2. InCase(Queued', shift, m + 2, u)
        BY <1>3, <1>4, <2>2, <2>3, <3>2, CaseQueued
      <4> QED BY <4>1, <4>2
    <3> QED BY <3>1, <3>2
  <2>8. Keeping(Len(due))'
    BY <1>1, <2>3, <2>6 DEF Keeping, N
  <2>9. InCase(Queued', shift', Len(Queued') + 1, down' \cap Shifts # {})
    BY <1>1, <1>3, <2>3, <2>7
  <2> QED BY <1>3, <2>8, <2>9
<1> QED BY <1>5, <1>6

\* The controller takes a shift event, a dead key or a release.
LEMMA TakeDelivers ==
  ASSUME TypeOK, HTypeOK, TypeOK', HTypeOK', Delivering,
         NEW r, Take(r), ~IsPress(r),
         shift' = IF r.code \in Shifts THEN r.press ELSE shift,
         UNCHANGED <<sending, due, fresh, sendsPress>>
  PROVE  Delivering'
<1> SUFFICES ASSUME Owing'
             PROVE  /\ \E n \in 0..Len(due) : Keeping(n)'
                    /\ readerUp' =>
                         /\ Keeping(Len(due))'
                         /\ InCase(Queued', shift', Len(Queued') + 1, down' \cap Shifts # {})
  BY DEF Delivering
<1> DEFINE N == Len(Coming)
           m == Len(Queued)
<1>1. Owing /\ Coming' = Coming /\ Pressed' = Pressed /\ down' = down
  BY DEF Take, Owing, Coming, Pressed
<1>2. /\ Queued # <<>> /\ Queued[1] = r /\ readerUp' = readerUp
      /\ Queued' = Tail(Queued)
  BY QueuedShrinks
<1>3. N \in Nat /\ Len(due) \in Nat /\ Queued \in Seq(Raws)
  BY Pipeline
<1>4. /\ m \in Nat \ {0} /\ Len(Queued') = m - 1
      /\ \A i \in 1..(m - 1) : Queued'[i] = Queued[i + 1]
  BY <1>2, <1>3, Shrunk
<1> HIDE DEF N, m
<1>5. ASSUME NEW n \in 0..Len(due), Keeping(n)
      PROVE  /\ Keeping(n)'
             /\ \A u : InCase(Queued, shift, m + 1, u) => InCase(Queued', shift', m, u)
  <2>1. Follows(N, Coming, Pressed, m, Queued, shift, due, n)
    BY <1>5 DEF Keeping, N, m
  <2>2. n \in Nat
    BY <1>3, <1>5
  <2>3. shift' = IF Queued[1].code \in Shifts THEN Queued[1].press ELSE shift
    BY <1>2
  <2>4. ~IsPress(Queued[1])
    BY <1>2
  <2>5. Follows(N, Coming, Pressed, m - 1, Queued', shift', due, n)
    BY <1>3, <1>4, <2>1, <2>2, <2>3, <2>4, TakeQueued
  <2>6. m \in 1..m
    BY <1>4
  <2>7. \A u : InCase(Queued, shift, m + 1, u) => InCase(Queued', shift', m, u)
    BY <1>4, <2>3, <2>6, CaseTaken
  <2> QED BY <1>1, <1>4, <2>5, <2>7 DEF Keeping, N
<1>6. PICK n \in 0..Len(due) : Keeping(n)
  BY <1>1 DEF Delivering
<1>7. CASE readerUp
  <2>1. Keeping(Len(due)) /\ InCase(Queued, shift, m + 1, down \cap Shifts # {})
    BY <1>1, <1>7 DEF Delivering, m
  <2>2. Len(due) \in 0..Len(due)
    BY <1>3
  <2>3. Keeping(Len(due))' /\ InCase(Queued', shift', m, down \cap Shifts # {})
    BY <1>5, <2>1, <2>2
  <2>4. Len(Queued') + 1 = m
    BY <1>4
  <2> QED BY <1>1, <2>2, <2>3, <2>4
<1> QED BY <1>2, <1>5, <1>6, <1>7

\* The controller takes a press and starts to send its Event.
LEMMA TakePressDelivers ==
  ASSUME TypeOK, HTypeOK, TypeOK', HTypeOK', Delivering, HTakePress
  PROVE  Delivering'
<1> SUFFICES ASSUME Owing'
             PROVE  /\ \E n \in 0..Len(due) : Keeping(n)'
                    /\ readerUp' =>
                         /\ Keeping(Len(due))'
                         /\ InCase(Queued', shift', Len(Queued') + 1, down' \cap Shifts # {})
  BY DEF Delivering, HTakePress
<1> DEFINE N == Len(Coming)
           m == Len(Queued)
<1>1. PICK r \in [code : Commits \cup Others, press : {TRUE}] :
        LET e == [code |-> r.code, upper |-> shift] IN
        /\ Take(r)
        /\ sending' = [event |-> e, held |-> IF Repeatable(r.code) THEN e ELSE None]
        /\ UNCHANGED <<shift, held>>
  BY DEF HTakePress, TakePress
<1> DEFINE e == [code |-> r.code, upper |-> shift]
<1>2. /\ Owing /\ down' = down /\ out' = out /\ fresh' = fresh /\ due' = due
      /\ sending = None /\ shift' = shift /\ sending' # None /\ sending'.event = e
      /\ sendsPress' = TRUE
  <2>1. sending' \in Sends \cup {None} /\ sending'.event = e
    BY <1>1 DEF TypeOK
  <2>2. sending' # None
    <3>1. e \in Events
      BY DEF TypeOK, Events
    <3>2. sending' \in Sends
      BY <1>1, <3>1 DEF Sends
    <3> QED BY <3>2, NoneAssumption
  <2> QED BY <1>1, <2>1, <2>2 DEF HTakePress, Take, Selecting, Owing
<1>3. /\ N \in Nat /\ Len(due) \in Nat /\ Queued \in Seq(Raws)
      /\ \A j \in 1..Len(due) : due[j] \in Events
  BY Pipeline
<1>4. /\ Len(Coming') = N + 1
      /\ \A i \in 1..N : Coming'[i] = Coming[i] /\ Pressed'[i] = Pressed[i]
      /\ Coming'[N + 1] = e /\ Pressed'[N + 1]
  <2>1. /\ Coming = out /\ Pressed = fresh
        /\ Coming' = Append(out, e) /\ Pressed' = Append(fresh, TRUE)
    BY <1>2 DEF Coming, Pressed
  <2>2. e \in Events
    BY <1>1 DEF TypeOK, Events
  <2>3. out \in Seq(Events) /\ fresh \in Seq(BOOLEAN) /\ Len(fresh) = Len(out)
    BY DEF TypeOK, HTypeOK
  <2> HIDE DEF e
  <2>4. /\ Len(Append(out, e)) = Len(out) + 1
        /\ \A i \in 1..Len(out) : Append(out, e)[i] = out[i]
        /\ Append(out, e)[Len(out) + 1] = e
    BY <2>2, <2>3, Grown
  <2>5. /\ \A i \in 1..Len(fresh) : Append(fresh, TRUE)[i] = fresh[i]
        /\ Append(fresh, TRUE)[Len(fresh) + 1]
    BY <2>3, GrownTruth
  <2>6. N = Len(out) /\ N = Len(fresh)
    BY <2>1, <2>3
  <2> HIDE DEF N
  <2> QED BY <2>1, <2>4, <2>5, <2>6
<1>5. /\ Queued # <<>> /\ Queued[1] = r /\ readerUp' = readerUp
      /\ Queued' = Tail(Queued)
  BY <1>1, QueuedShrinks
<1>6. /\ m \in Nat \ {0} /\ Len(Queued') = m - 1
      /\ \A i \in 1..(m - 1) : Queued'[i] = Queued[i + 1]
  BY <1>3, <1>5, Shrunk
<1>7. IsPress(Queued[1]) /\ Queued[1].code \notin Shifts
  BY <1>1, <1>5, CodesAssumption DEF IsPress
<1>8. /\ Coming'[N + 1] \in Events
      /\ Coming'[N + 1].code = Queued[1].code /\ Coming'[N + 1].upper = shift
  <2>1. e \in Events /\ e.code = r.code /\ e.upper = shift
    BY DEF TypeOK, Events
  <2> QED BY <1>4, <1>5, <2>1
<1> HIDE DEF N, m, e
<1>9. ASSUME NEW n \in 0..Len(due), Keeping(n)
      PROVE  /\ Keeping(n)'
             /\ \A u : InCase(Queued, shift, m + 1, u) => InCase(Queued', shift, m, u)
  <2>1. Follows(N, Coming, Pressed, m, Queued, shift, due, n)
    BY <1>9 DEF Keeping, N, m
  <2>3. Pressed'[N + 1]
    BY <1>4
  <2>4. Extends(N, Coming, Pressed, Coming', Pressed')
    BY <1>4 DEF Extends
  <2>5. Drops(m, Queued, Queued')
    BY <1>6 DEF Drops
  <2>6. N \in Nat /\ m \in Nat \ {0}
    BY <1>3, <1>6
  <2>7. n \in Nat
    BY <1>3, <1>9
  <2>8. \A j \in 1..n : due[j] \in Events
    BY <1>3, <1>9
  <2>9. IsPress(Queued[1])
    BY <1>7
  <2>10. Queued[1].code \notin Shifts
    BY <1>7
  <2>u. \A u : InCase(Queued, shift, 1, u) => u = Coming'[N + 1].upper
    BY <1>8 DEF InCase
  <2>11. Follows(N + 1, Coming', Pressed', m - 1, Queued', shift, due, n)
    BY <1>8, <2>u, <2>1, <2>3, <2>4, <2>5, <2>6, <2>7, <2>8, <2>9, <2>10, TakeQueuedPress
  <2>12. m \in 1..m /\ shift = IF Queued[1].code \in Shifts THEN Queued[1].press ELSE shift
    BY <2>6, <2>10
  <2>13. \A u : InCase(Queued, shift, m + 1, u) => InCase(Queued', shift, m, u)
    BY <1>6, <2>6, <2>12, CaseTaken
  <2> QED BY <1>2, <1>4, <1>6, <2>11, <2>13 DEF Keeping
<1>10. PICK n \in 0..Len(due) : Keeping(n)
  BY <1>2 DEF Delivering
<1>11. CASE readerUp
  <2>1. Keeping(Len(due)) /\ InCase(Queued, shift, m + 1, down \cap Shifts # {})
    BY <1>2, <1>11 DEF Delivering, m
  <2>2. Len(due) \in 0..Len(due)
    BY <1>3
  <2>3. Keeping(Len(due))' /\ InCase(Queued', shift', m, down \cap Shifts # {})
    BY <1>2, <1>9, <2>1, <2>2
  <2>4. Len(Queued') + 1 = m
    BY <1>6
  <2> QED BY <1>2, <2>2, <2>3, <2>4
<1> QED BY <1>5, <1>9, <1>10, <1>11

\* The controller starts to send the held key again.
LEMMA TickDelivers ==
  ASSUME TypeOK, HTypeOK, TypeOK', HTypeOK', Delivering, HTick
  PROVE  Delivering'
<1> SUFFICES ASSUME Owing'
             PROVE  /\ \E n \in 0..Len(due) : Keeping(n)'
                    /\ readerUp' =>
                         /\ Keeping(Len(due))'
                         /\ InCase(Queued', shift', Len(Queued') + 1, down' \cap Shifts # {})
  BY DEF Delivering, HTick
<1> DEFINE N == Len(Coming)
           m == Len(Queued)
<1>1. /\ Owing /\ down' = down /\ out' = out /\ fresh' = fresh /\ due' = due
      /\ sending = None /\ shift' = shift /\ readerUp' = readerUp /\ Queued' = Queued
      /\ held \in Events /\ held.code \notin Commits
      /\ sending' # None /\ sending'.event = held
      /\ sendsPress' = FALSE
  <2>1. held \in Events /\ held.code \in Others
    BY DEF HTick, Tick, TypeOK
  <2>2. sending' \in Sends /\ sending'.event = held
    BY <2>1 DEF HTick, Tick, Sends
  <2> QED
    BY <2>1, <2>2, NoneAssumption, CodesAssumption
       DEF HTick, Tick, Selecting, Owing, reader, Queued
<1>2. N \in Nat /\ m \in Nat /\ Len(due) \in Nat
  BY Pipeline
<1>3. /\ Len(Coming') = N + 1
      /\ \A i \in 1..N : Coming'[i] = Coming[i] /\ Pressed'[i] = Pressed[i]
      /\ Coming'[N + 1] = held /\ ~Pressed'[N + 1]
  <2>1. /\ Coming = out /\ Pressed = fresh
        /\ Coming' = Append(out, held) /\ Pressed' = Append(fresh, FALSE)
    BY <1>1 DEF Coming, Pressed
  <2>2. out \in Seq(Events) /\ fresh \in Seq(BOOLEAN) /\ Len(fresh) = Len(out)
    BY DEF TypeOK, HTypeOK
  <2>3. /\ Len(Append(out, held)) = Len(out) + 1
        /\ \A i \in 1..Len(out) : Append(out, held)[i] = out[i]
        /\ Append(out, held)[Len(out) + 1] = held
    BY <1>1, <2>2, Grown
  <2>4. /\ \A i \in 1..Len(fresh) : Append(fresh, FALSE)[i] = fresh[i]
        /\ ~Append(fresh, FALSE)[Len(fresh) + 1]
    BY <2>2, GrownTruth
  <2>5. N = Len(out) /\ N = Len(fresh)
    BY <2>1, <2>2
  <2> HIDE DEF N
  <2> QED BY <2>1, <2>3, <2>4, <2>5
<1> HIDE DEF N, m
<1>4. ASSUME NEW n \in 0..Len(due), Keeping(n)
      PROVE  Keeping(n)'
  <2>1. Follows(N, Coming, Pressed, m, Queued, shift, due, n)
    BY <1>4 DEF Keeping, N, m
  <2>2. n \in Nat
    BY <1>2, <1>4
  <2>3. ~Pressed'[N + 1] /\ Coming'[N + 1].code \notin Commits
    BY <1>1, <1>3
  <2>4. \A i \in 1..N : Coming'[i] = Coming[i] /\ Pressed'[i] = Pressed[i]
    BY <1>3
  <2>5. Follows(N + 1, Coming', Pressed', m, Queued, shift, due, n)
    BY <1>2, <2>1, <2>2, <2>3, <2>4, SendRepetition
  <2> QED BY <1>1, <1>3, <2>5 DEF Keeping, m
<1>5. Len(due) \in 0..Len(due)
  BY <1>2
<1> QED BY <1>1, <1>4, <1>5 DEF Delivering

\* The app takes the first of what is coming.
LEMMA AppTakesDelivers ==
  ASSUME TypeOK, HTypeOK, TypeOK', HTypeOK', Delivering, HAppTakes
  PROVE  Delivering'
<1> SUFFICES ASSUME Owing'
             PROVE  /\ \E n \in 0..Len(due') : Keeping(n)'
                    /\ readerUp' =>
                         /\ Keeping(Len(due))'
                         /\ InCase(Queued', shift', Len(Queued') + 1, down' \cap Shifts # {})
  BY DEF Delivering
<1> DEFINE N == Len(Coming)
           m == Len(Queued)
           settles == Head(fresh) \/ Head(out).code \in Commits
<1>1. /\ Owing /\ down' = down /\ out # <<>> /\ out' = Tail(out) /\ fresh' = Tail(fresh)
      /\ UNCHANGED <<sending, sendsPress, shift, readerUp>> /\ Queued' = Queued
      /\ due' = IF due # <<>> /\ settles THEN Tail(due) ELSE due
  BY DEF HAppTakes, AppTakes, Owing, reader, controller, Queued
<1>2. /\ N \in Nat /\ m \in Nat /\ Len(due) \in Nat /\ due \in Seq(Events)
      /\ Coming \in Seq(Events) /\ Pressed \in Seq(BOOLEAN) /\ Len(Pressed) = N
  BY Pipeline DEF HTypeOK
<1>3. /\ Coming # <<>> /\ Coming' = Tail(Coming) /\ Pressed # <<>> /\ Pressed' = Tail(Pressed)
      /\ Coming[1] = Head(out) /\ Pressed[1] = Head(fresh)
  <2>1. /\ out \in Seq(Events) /\ fresh \in Seq(BOOLEAN) /\ Len(fresh) = Len(out)
        /\ out # <<>> /\ fresh # <<>> /\ Head(out) = out[1] /\ Head(fresh) = fresh[1]
    <3>1. out \in Seq(Events) /\ fresh \in Seq(BOOLEAN) /\ Len(fresh) = Len(out)
      BY DEF TypeOK, HTypeOK
    <3> QED BY <1>1, <3>1, EmptySeq, Shrunk
  <2>2. CASE sending = None
    BY <1>1, <2>1, <2>2 DEF Coming, Pressed
  <2>3. CASE sending # None
    <3>1. /\ sending.event \in Events /\ sendsPress \in BOOLEAN
      BY <2>3 DEF TypeOK, HTypeOK, Sends
    <3>2. /\ Coming = Append(out, sending.event)
          /\ Pressed = Append(fresh, sendsPress)
          /\ Coming' = Append(Tail(out), sending.event)
          /\ Pressed' = Append(Tail(fresh), sendsPress)
      BY <1>1, <2>3 DEF Coming, Pressed
    <3> QED BY <2>1, <3>1, <3>2, HeadTailAppend
  <2> QED BY <2>2, <2>3
<1>4. /\ N \in Nat \ {0} /\ Len(Coming') = N - 1
      /\ \A i \in 1..(N - 1) : Coming'[i] = Coming[i + 1] /\ Pressed'[i] = Pressed[i + 1]
  BY <1>2, <1>3, Shrunk
<1> HIDE DEF N, m
<1>5. OwedAt(N, Coming, Pressed, Queued, 1) <=> settles
  <2>1. 1 <= N
    BY <1>4
  <2>2. OwedAt(N, Coming, Pressed, Queued, 1) <=> Pressed[1] \/ Coming[1].code \in Commits
    BY <2>1 DEF OwedAt
  <2> QED BY <1>3, <2>2
<1> HIDE DEF settles
<1>6. CASE ~settles
  <2>1. due' = due
    BY <1>1, <1>6
  <2>2. ASSUME NEW n \in 0..Len(due), Keeping(n)
        PROVE  Keeping(n)'
    <3>1. Follows(N, Coming, Pressed, m, Queued, shift, due, n)
      BY <2>2 DEF Keeping, N, m
    <3>2. n \in Nat /\ ~OwedAt(N, Coming, Pressed, Queued, 1)
      BY <1>2, <1>5, <1>6, <2>2
    <3>3. \A i \in 1..(N - 1) : Coming'[i] = Coming[i + 1] /\ Pressed'[i] = Pressed[i + 1]
      BY <1>4
    <3>4. Follows(N - 1, Coming', Pressed', m, Queued, shift, due, n)
      BY <1>2, <1>4, <3>1, <3>2, <3>3, AppTakesOther
    <3> QED BY <1>1, <1>4, <2>1, <3>4 DEF Keeping, m
  <2>3. Len(due) \in 0..Len(due)
    BY <1>2
  <2> QED BY <1>1, <2>1, <2>2, <2>3 DEF Delivering
<1>7. CASE settles
  <2>1. ASSUME NEW n \in 0..Len(due), Keeping(n)
        PROVE  /\ due # <<>> /\ n - 1 \in 0..Len(due')
               /\ Len(due') = Len(due) - 1
               /\ Keeping(n - 1)'
    <3>1. Follows(N, Coming, Pressed, m, Queued, shift, due, n)
      BY <2>1 DEF Keeping, N, m
    <3>2. n \in Nat /\ OwedAt(N, Coming, Pressed, Queued, 1)
      BY <1>2, <1>5, <1>7, <2>1
    <3>3. \A i \in 1..(N - 1) : Coming'[i] = Coming[i + 1] /\ Pressed'[i] = Pressed[i + 1]
      BY <1>4
    <3>4. n > 0
      BY <3>1, <3>2, <1>4, <1>2 DEF Follows, Places
    <3>5. due # <<>>
      BY <1>2, <2>1, <3>4, EmptySeq
    <3>6. /\ due' = Tail(due) /\ Len(due') = Len(due) - 1
          /\ \A j \in 1..(Len(due) - 1) : due'[j] = due[j + 1]
      BY <1>1, <1>2, <1>7, <3>5, Shrunk
    <3>7. \A j \in 1..(n - 1) : due'[j] = due[j + 1]
      BY <1>2, <2>1, <3>6
    <3>8. Follows(N - 1, Coming', Pressed', m, Queued, shift, due', n - 1)
      BY <1>2, <1>4, <3>1, <3>2, <3>3, <3>7, AppTakesOwed
    <3>9. n - 1 \in 0..Len(due')
      BY <1>2, <2>1, <3>2, <3>4, <3>6
    <3> QED BY <1>1, <1>4, <3>5, <3>6, <3>8, <3>9 DEF Keeping, m
  <2>2. Len(due) \in 0..Len(due)
    BY <1>2
  <2> QED BY <1>1, <2>1, <2>2 DEF Delivering
<1> QED BY <1>6, <1>7

\* The reader quits; what it held, and the keypad, are no longer delivered.
LEMMA ReaderQuitsDelivers ==
  ASSUME TypeOK, HTypeOK, TypeOK', HTypeOK', Delivering, ReaderQuits,
         UNCHANGED <<due, fresh, sendsPress>>
  PROVE  Delivering'
<1> SUFFICES ASSUME Owing'
             PROVE  /\ \E n \in 0..Len(due) : Keeping(n)'
                    /\ ~readerUp'
  BY DEF Delivering
<1> DEFINE N == Len(Coming)
           m == Len(Queued)
           h == IF hand = None THEN <<>> ELSE <<hand>>
<1>1. /\ Owing /\ readerUp /\ ~readerUp' /\ raw' = raw
      /\ Coming' = Coming /\ Pressed' = Pressed /\ shift' = shift
      /\ raw \in Seq(Raws) /\ kernel \in Seq(Raws) /\ h \in Seq(Raws)
  BY DEF ReaderQuits, Owing, Coming, Pressed, controller, TypeOK
<1>2. Queued = (raw \o h) \o kernel /\ Queued' = raw
  BY <1>1 DEF Queued
<1>3. N \in Nat /\ m \in Nat /\ Len(due) \in Nat
  BY Pipeline
<1> HIDE DEF h
<1>4. /\ Len(raw) \in 0..m
      /\ \A i \in 1..Len(raw) : raw[i] = Queued[i]
  <2>1. /\ Len(raw) \in Nat /\ raw \o h \in Seq(Raws)
        /\ Len(raw \o h) \in Nat /\ Len(raw) <= Len(raw \o h)
        /\ \A i \in 1..Len(raw) : (raw \o h)[i] = raw[i]
    BY <1>1, ConcatProperties, LenProperties
  <2>2. /\ Len(raw \o h) <= m
        /\ \A i \in 1..Len(raw \o h) : Queued[i] = (raw \o h)[i]
    BY <1>1, <1>2, <2>1, ConcatProperties, LenProperties
  <2> QED BY <1>3, <2>1, <2>2
<1> HIDE DEF N, m
<1>5. Follows(N, Coming, Pressed, m, Queued, shift, due, Len(due))
  BY <1>1 DEF Delivering, Keeping, N, m
<1>6. \E k \in 0..Len(due) : Follows(N, Coming, Pressed, Len(raw), raw, shift, due, k)
  BY <1>3, <1>4, <1>5, Lost
<1> QED BY <1>1, <1>2, <1>6 DEF Keeping, N

-----------------------------------------------------------------------------
(***************************************************************************)
(* The theorems.                                                           *)
(***************************************************************************)
\* The step, put together.
LEMMA HInvStep ==
  ASSUME HInv, TypeOK', [HNext]_hvars
  PROVE  HInv'
<1> USE DEF HInv
<1>1. HTypeOK'
  BY HistoryTyped
<1> SUFFICES Delivering'
  BY <1>1
<1>2. ASSUME NEW c \in Codes, HPress(c) PROVE Delivering'
  BY <1>1, <1>2, PressDelivers
<1>3. CASE HCancel
  <2>1. ~Owing'
    BY <1>3 DEF HCancel, Cancel, Owing
  <2> QED BY <2>1 DEF Delivering
<1>4. CASE HTakePress
  BY <1>1, <1>4, TakePressDelivers
<1>5. CASE HTick
  BY <1>1, <1>5, TickDelivers
<1>6. CASE HEmit
  <2>1. /\ sending # None /\ sending' = None
        /\ out' = Append(out, sending.event) /\ fresh' = Append(fresh, sendsPress)
        /\ UNCHANGED <<down, kernel, hand, readerUp, raw, shift, cancelled, due>>
    BY <1>6 DEF HEmit, Emit, EmitReturns, reader
  <2>2. Coming' = Coming /\ Pressed' = Pressed
    BY <2>1 DEF Coming, Pressed
  <2>3. Queued' = Queued
    BY <2>1 DEF Queued
  <2> QED BY <2>1, <2>2, <2>3, DeliveringKept
<1>7. CASE HAppTakes
  BY <1>1, <1>7, AppTakesDelivers
<1>8. ASSUME NEW c \in Codes, Release(c), UNCHANGED <<due, fresh, sendsPress>>
      PROVE  Delivering'
  BY <1>1, <1>8, ReleaseDelivers
<1>9. CASE (ReadKey \/ SendRaw) /\ UNCHANGED <<due, fresh, sendsPress>>
  <2>1. UNCHANGED <<out, sending, shift, readerUp, down, cancelled>>
    BY <1>9 DEF ReadKey, SendRaw, controller
  <2>2. Coming' = Coming /\ Pressed' = Pressed
    BY <1>9, <2>1 DEF Coming, Pressed
  <2>3. Queued' = Queued
    BY <1>9, QueuedMoves
  <2> QED BY <1>9, <2>1, <2>2, <2>3, DeliveringKept
<1>10. CASE (TakeShift \/ TakeDead \/ TakeRelease) /\ UNCHANGED <<due, fresh, sendsPress>>
  <2>1. \E r : /\ Take(r) /\ ~IsPress(r)
               /\ shift' = IF r.code \in Shifts THEN r.press ELSE shift
               /\ UNCHANGED sending
    <3>1. CASE TakeShift
      BY <3>1, CodesAssumption DEF TakeShift, IsPress
    <3>2. CASE TakeDead
      BY <3>2, CodesAssumption DEF TakeDead, IsPress
    <3>3. CASE TakeRelease
      BY <3>3 DEF TakeRelease, IsPress
    <3> QED BY <1>10, <3>1, <3>2, <3>3
  <2> QED BY <1>1, <1>10, <2>1, TakeDelivers
<1>11. CASE EmitGivesUp
  <2>1. ~Owing'
    BY <1>11 DEF EmitGivesUp, Owing
  <2> QED BY <2>1 DEF Delivering
<1>12. CASE ReaderQuits /\ UNCHANGED <<due, fresh, sendsPress>>
  BY <1>1, <1>12, ReaderQuitsDelivers
<1>13. CASE (ControllerQuits \/ AppQuits) /\ UNCHANGED <<due, fresh, sendsPress>>
  <2>1. UNCHANGED <<kernel, hand, raw, out, sending, shift, readerUp, down, cancelled>>
    BY <1>13 DEF ControllerQuits, AppQuits, reader, controller
  <2>2. Coming' = Coming /\ Pressed' = Pressed /\ Queued' = Queued
    BY <1>13, <2>1 DEF Coming, Pressed, Queued
  <2> QED BY <1>13, <2>1, <2>2, DeliveringKept
<1>14. CASE UNCHANGED hvars
  <2>1. UNCHANGED <<kernel, hand, raw, out, sending, shift, readerUp, down, cancelled,
                    due, fresh, sendsPress>>
    BY <1>14 DEF hvars, vars, reader, controller
  <2>2. Coming' = Coming /\ Pressed' = Pressed /\ Queued' = Queued
    BY <2>1 DEF Coming, Pressed, Queued
  <2> QED BY <2>1, <2>2, DeliveringKept
<1> QED
  BY <1>1, <1>2, <1>3, <1>4, <1>5, <1>6, <1>7, <1>8, <1>9, <1>10, <1>11, <1>12, <1>13, <1>14
     DEF HNext, HOther, Quit

\* f is the increasing sequence of the n members of S.
Counts(f, n, S) ==
  /\ \A j \in 1..n : f[j] \in Nat
  /\ \A j, k \in 1..n : j < k => f[j] < f[k]
  /\ \A j \in 1..n : f[j] \in S
  /\ \A i \in S : \E j \in 1..n : f[j] = i

\* Counting along it.
LEMMA Ranked ==
  ASSUME NEW n \in Nat, NEW S, NEW f, Counts(f, n, S)
  PROVE  /\ Cardinality(S) = n
         /\ \A l \in 1..n : Cardinality({k \in S : k <= f[l]}) = l
<1> USE DEF Counts
<1>1. ASSUME NEW l \in 0..n, NEW T,
             \A j \in 1..l : f[j] \in T,
             \A i \in T : \E j \in 1..l : f[j] = i
      PROVE  Cardinality(T) = l
  <2> DEFINE g == [j \in 1..l |-> f[j]]
  <2>1. g \in [1..l -> T]
    BY <1>1
  <2>2. \A i, j \in 1..l : g[i] = g[j] => i = j
    <3> SUFFICES ASSUME NEW i \in 1..l, NEW j \in 1..l, i # j
                 PROVE  g[i] # g[j]
      OBVIOUS
    <3>1. i \in 1..n /\ j \in 1..n /\ f[i] \in Nat /\ f[j] \in Nat
      OBVIOUS
    <3>2. i < j \/ j < i
      OBVIOUS
    <3>3. f[i] < f[j] \/ f[j] < f[i]
      BY <3>1, <3>2
    <3> QED BY <3>1, <3>3
  <2>3. \A t \in T : \E j \in 1..l : g[j] = t
    BY <1>1
  <2> HIDE DEF g
  <2>4. g \in Bijection(1..l, T)
    BY <2>1, <2>2, <2>3, Fun_IsBij
  <2> QED BY <2>4, FS_CountingElements DEF ExistsBijection
<1>2. Cardinality(S) = n
  BY <1>1
<1>3. ASSUME NEW l \in 1..n
      PROVE  Cardinality({k \in S : k <= f[l]}) = l
  <2> DEFINE T == {k \in S : k <= f[l]}
  <2>1. ASSUME NEW j \in 1..l PROVE f[j] \in T
    <3>1. j \in 1..n /\ f[j] \in Nat /\ f[l] \in Nat
      OBVIOUS
    <3>2. j = l \/ f[j] < f[l]
      BY <3>1
    <3> QED BY <3>1, <3>2
  <2>2. ASSUME NEW i \in T PROVE \E j \in 1..l : f[j] = i
    <3>1. PICK j \in 1..n : f[j] = i
      OBVIOUS
    <3>2. ~(l < j)
      <4>1. f[j] <= f[l] /\ f[j] \in Nat /\ f[l] \in Nat
        BY <3>1
      <4> QED BY <4>1
    <3> QED BY <3>1, <3>2
  <2> HIDE DEF T
  <2> QED BY <1>1, <2>1, <2>2 DEF T
<1> QED BY <1>2, <1>3

\* What follows the pipeline in full is what the property says is due.
LEMMA DeliveringDelivers ==
  ASSUME TypeOK, HTypeOK, Delivering
  PROVE  PressesDelivered
<1> SUFFICES ASSUME Owing
             PROVE  /\ \A i \in OwedInComing : Rank(i) \in DOMAIN due /\ due[Rank(i)] = Coming[i]
                    /\ \A i \in OwedInQueued :
                         LET j == Rank(Len(Coming) + i)
                         IN  j \in DOMAIN due /\ due[j].code = Queued[i].code
                    /\ readerUp => Len(due) = Cardinality(Owed)
  BY DEF PressesDelivered
<1> DEFINE N == Len(Coming)
           m == Len(Queued)
<1>1. /\ N \in Nat /\ m \in Nat /\ Len(due) \in Nat
      /\ DOMAIN Coming = 1..N /\ DOMAIN Queued = 1..m /\ DOMAIN due = 1..Len(due)
  BY Pipeline, LenProperties DEF HTypeOK
<1> HIDE DEF N, m
<1>2. ASSUME NEW n \in 0..Len(due), Keeping(n)
      PROVE  /\ \A i \in OwedInComing : Rank(i) \in DOMAIN due /\ due[Rank(i)] = Coming[i]
             /\ \A i \in OwedInQueued :
                  Rank(N + i) \in DOMAIN due /\ due[Rank(N + i)].code = Queued[i].code
             /\ Cardinality(Owed) = n
  <2>1. PICK f : Places(N, Coming, Pressed, m, Queued, shift, due, f, n)
    BY <1>2 DEF Keeping, Follows, N, m
  <2>2. \A i : i \in Owed <=> i \in 1..(N + m) /\ OwedAt(N, Coming, Pressed, Queued, i)
    <3>1. \A i : i \in OwedInComing <=> i \in 1..N /\ OwedAt(N, Coming, Pressed, Queued, i)
      BY <1>1 DEF OwedInComing, OwedAt
    <3>2. \A i : i \in OwedInQueued
                   <=> i \in 1..m /\ OwedAt(N, Coming, Pressed, Queued, N + i)
      <4>1. \A i \in 1..m : ~(N + i <= N) /\ (N + i) - N = i
        BY <1>1
      <4>2. \A i \in 1..m : OwedAt(N, Coming, Pressed, Queued, N + i) <=> IsPress(Queued[i])
        BY <4>1 DEF OwedAt
      <4> QED BY <1>1, <4>2 DEF OwedInQueued, IsPress
    <3>3. \A i : i \in Owed <=> \/ i \in OwedInComing
                                \/ \E k \in OwedInQueued : i = N + k
      BY DEF Owed, N
    <3>4. ASSUME NEW i, i \in 1..(N + m), OwedAt(N, Coming, Pressed, Queued, i)
          PROVE  i \in Owed
      <4>1. CASE i <= N
        BY <1>1, <3>1, <3>3, <3>4, <4>1
      <4>2. CASE ~(i <= N)
        <5>1. i - N \in 1..m /\ i = N + (i - N)
          BY <1>1, <3>4, <4>2
        <5> QED BY <3>2, <3>3, <3>4, <5>1
      <4> QED BY <4>1, <4>2
    <3>5. ASSUME NEW i, i \in Owed
          PROVE  i \in 1..(N + m) /\ OwedAt(N, Coming, Pressed, Queued, i)
      <4>1. CASE i \in OwedInComing
        BY <1>1, <3>1, <4>1
      <4>2. ASSUME NEW k \in OwedInQueued, i = N + k
            PROVE  i \in 1..(N + m) /\ OwedAt(N, Coming, Pressed, Queued, i)
        BY <1>1, <3>2, <4>2
      <4> QED BY <3>3, <3>5, <4>1, <4>2
    <3> QED BY <3>4, <3>5
  <2>3. n \in Nat /\ n <= Len(due)
    BY <1>1, <1>2
  <2>4. \A j \in 1..n : f[j] \in 1..(N + m)
    BY <2>1 DEF Places
  <2>5. \A j, k \in 1..n : j < k => f[j] < f[k]
    BY <2>1 DEF Places
  <2>6. \A j \in 1..n : f[j] \in Owed
    BY <2>1, <2>2 DEF Places
  <2>7. \A i \in Owed : \E j \in 1..n : f[j] = i
    BY <2>1, <2>2 DEF Places
  <2>8. \A j \in 1..n : f[j] \in Nat
    BY <1>1, <2>4
  <2>9. /\ Cardinality(Owed) = n
        /\ \A l \in 1..n : Cardinality({k \in Owed : k <= f[l]}) = l
    <3>1. Counts(f, n, Owed)
      BY <2>5, <2>6, <2>7, <2>8 DEF Counts
    <3> QED BY <2>3, <3>1, Ranked
  <2>10. \A l \in 1..n : Rank(f[l]) = l /\ l \in DOMAIN due
    BY <1>1, <2>3, <2>9 DEF Rank
  <2>11. ASSUME NEW i \in OwedInComing
         PROVE  Rank(i) \in DOMAIN due /\ due[Rank(i)] = Coming[i]
    <3>1. i \in Owed /\ i <= N
      BY <1>1 DEF Owed, OwedInComing
    <3>2. PICK l \in 1..n : f[l] = i
      BY <2>7, <3>1
    <3> QED BY <2>1, <2>10, <3>1, <3>2 DEF Places
  <2>12. ASSUME NEW i \in OwedInQueued
         PROVE  Rank(N + i) \in DOMAIN due /\ due[Rank(N + i)].code = Queued[i].code
    <3>1. N + i \in Owed /\ i \in 1..m
      BY <1>1 DEF Owed, OwedInQueued, N
    <3>2. PICK l \in 1..n : f[l] = N + i
      BY <2>7, <3>1
    <3>3. f[l] > N /\ f[l] - N = i
      BY <1>1, <3>1, <3>2
    <3> QED BY <2>1, <2>10, <3>2, <3>3 DEF Places
  <2> QED BY <2>9, <2>11, <2>12
<1>3. PICK n \in 0..Len(due) : Keeping(n)
  BY DEF Delivering
<1>4. readerUp => Keeping(Len(due)) /\ Len(due) \in 0..Len(due)
  BY <1>1 DEF Delivering
<1> QED BY <1>2, <1>3, <1>4 DEF N

\* Every press reaches the app exactly once, in order and in its case, keys
\* that commit only so, and nothing is dropped while the keypad and the
\* context live: for any sizes of the queues and any sets of keys.
THEOREM PressesAreDelivered == HFairSpec => []PressesDelivered
<1>1. HInit => HInv
  <2> SUFFICES ASSUME HInit PROVE HInv
    OBVIOUS
  <2>1. TypeOK
    BY TypeInit DEF HInit
  <2>2. HTypeOK
    <3>1. due = <<>> /\ fresh = <<>> /\ out = <<>> /\ sendsPress = FALSE
      BY DEF HInit, Init
    <3>2. due \in Seq(Events) /\ fresh \in Seq(BOOLEAN)
      BY <3>1, EmptySeq
    <3>3. Len(fresh) = Len(out)
      BY <3>1
    <3>4. sendsPress \in BOOLEAN
      BY <3>1
    <3> QED BY <3>2, <3>3, <3>4 DEF HTypeOK
  <2>3. Coming = <<>> /\ Queued = <<>> /\ due = <<>>
    <3>1. sending = None /\ out = <<>> /\ readerUp = TRUE /\ raw = <<>> /\ kernel = <<>>
          /\ hand = None /\ due = <<>>
      BY DEF HInit, Init
    <3>2. Queued = (<<>> \o <<>>) \o <<>>
      BY <3>1 DEF Queued
    <3>3. (<<>> \o <<>>) \o <<>> = <<>>
      BY <3>1
    <3> QED BY <3>1, <3>2, <3>3 DEF Coming
  <2>4. Len(Coming) = 0 /\ Len(Queued) = 0 /\ Len(due) = 0
    BY <2>3
  <2>5. Follows(0, Coming, Pressed, 0, Queued, shift, due, 0)
    BY DEF Follows, Places
  <2>6. InCase(Queued, shift, 1, down \cap Shifts # {})
    <3>1. \A k \in 1..(1 - 1) : FALSE
      OBVIOUS
    <3>2. (down \cap Shifts # {}) = FALSE /\ shift = FALSE
      BY DEF HInit, Init
    <3>3. InCase(Queued, FALSE, 1, FALSE)
      BY <3>1 DEF InCase
    <3> QED BY <3>2, <3>3
  <2>7. Keeping(0) /\ 0 \in 0..Len(due)
    BY <2>4, <2>5 DEF Keeping
  <2>8. Delivering
    BY <2>4, <2>6, <2>7 DEF Delivering
  <2> QED BY <2>1, <2>2, <2>8 DEF HInv
<1>2. HInv /\ [HNext]_hvars => HInv'
  <2> SUFFICES ASSUME HInv, [HNext]_hvars PROVE HInv'
    OBVIOUS
  <2>1. [Next]_vars
    BY HistorySteps DEF hvars
  <2>2. TypeOK'
    BY <2>1, TypeStep DEF HInv
  <2> QED BY <2>2, HInvStep
<1>3. HInv => PressesDelivered
  BY DeliveringDelivers DEF HInv
<1> QED
  BY <1>1, <1>2, <1>3, PTL DEF HFairSpec
=============================================================================
