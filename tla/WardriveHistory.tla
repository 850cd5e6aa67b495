-------------------------- MODULE WardriveHistory ---------------------------
(***************************************************************************)
(* Wardrive with two history variables, which no action reads: what a      *)
(* lookup (activeIface) could have seen, and how often a Core overlooked   *)
(* it.  The other interface may come or go between two reads of one scan.  *)
(***************************************************************************)
EXTENDS Wardrive

VARIABLES
  steady,   \* the captures visible throughout each Core's lookup so far
  misses    \* lookups in a row that found nothing while a capture was steady

hvars == <<vars, steady, misses>>

VisibleSet == {w \in Ifaces : Visible(w)}

HInit ==
  /\ Init
  /\ steady = [c \in Cores |-> {}]
  /\ misses = [c \in Cores |-> [w \in Ifaces |-> 0]]

LookupBegins(c) == pc[c] = "idle" /\ pc'[c] = "lookup"
LookupEnds(c)   == pc[c] \in {"lookup", "scan"} /\ pc'[c] = "decide"

\* A Core that launches a capture believes in that one again: the count
\* starts afresh.
Forgiven(c, w) ==
  \/ w \notin VisibleSet'
  \/ pc[c] = "launch"
  \/ LookupEnds(c) /\ cached'[c] # None

HNext ==
  /\ Next
  /\ steady' = [c \in Cores |->
                 IF LookupBegins(c) THEN VisibleSet'
                 ELSE IF pc'[c] \in {"lookup", "scan", "decide"} THEN steady[c] \cap VisibleSet'
                 ELSE {}]
  /\ misses' = [c \in Cores |-> [w \in Ifaces |->
                 IF Forgiven(c, w) THEN 0
                 ELSE IF LookupEnds(c) /\ w \in steady'[c] /\ misses[c][w] < 2
                        THEN misses[c][w] + 1
                        ELSE misses[c][w]]]

HSpec == HInit /\ [][HNext]_hvars

\* A Core whose cache names a capture somebody else stopped reports "not
\* running" without looking further (and its Stop stops nothing), but never
\* twice: whatever other Cores, adapters and units do meanwhile, a capture
\* that is visible all along is found by the Core's next lookup.
MissedAtMostOnce == \A c \in Cores, w \in Ifaces : misses[c][w] <= 1
=============================================================================
