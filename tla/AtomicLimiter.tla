--------------------------- MODULE AtomicLimiter ---------------------------
(***************************************************************************)
(* What busy.MaxRequestLimiter promises, without its counter: admission is *)
(* decided in one step from the set of requests inside.  The promise is as *)
(* weak as the code makes it: a request that is being refused takes up a   *)
(* place until it has left, so it can cause another refusal.               *)
(***************************************************************************)
EXTENDS Integers, FiniteSets

CONSTANTS Requests, Limits

VARIABLES
  max,      \* the configured limit; nonpositive means unlimited
  serving,  \* requests that next is handling
  leaving   \* refused requests that still take up a place

vars == <<max, serving, leaving>>

Inside == serving \cup leaving

Init ==
  /\ max \in Limits
  /\ serving = {}
  /\ leaving = {}

Admit(r) ==
  /\ r \notin Inside
  /\ max < 1 \/ Cardinality(Inside) < max
  /\ serving' = serving \cup {r}
  /\ UNCHANGED <<max, leaving>>

Refuse(r) ==
  /\ r \notin Inside
  /\ max >= 1
  /\ Cardinality(Inside) >= max
  /\ leaving' = leaving \cup {r}
  /\ UNCHANGED <<max, serving>>

Leave(r) ==
  /\ r \in Inside
  /\ serving' = serving \ {r}
  /\ leaving' = leaving \ {r}
  /\ UNCHANGED max

Next == \E r \in Requests : Admit(r) \/ Refuse(r) \/ Leave(r)

Spec == Init /\ [][Next]_vars
=============================================================================
