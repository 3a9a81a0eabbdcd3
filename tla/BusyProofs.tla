----------------------------- MODULE BusyProofs -----------------------------
(***************************************************************************)
(* Theorems about Busy, for any finite set of concurrent requests and any  *)
(* configured limits.                                                      *)
(***************************************************************************)
EXTENDS Busy, FiniteSetTheorems, TLAPS

\* What one step of one request does to the set of requests at some steps.
LEMMA AtAfter ==
  ASSUME TypeOK, NEW steps, NEW r \in Requests, NEW from, NEW to, Transition(r, from, to)
  PROVE  /\ At(steps)' = IF to \in steps THEN At(steps) \cup {r} ELSE At(steps) \ {r}
         /\ r \in At(steps) <=> from \in steps
BY DEF TypeOK, Transition, At

\* And to its size.
LEMMA SizeAfter ==
  ASSUME TypeOK, NEW steps, NEW r \in Requests, NEW from, NEW to, Transition(r, from, to)
  PROVE  /\ Cardinality(At(steps)) \in Nat
         /\ (from \in steps <=> to \in steps) =>
              At(steps)' = At(steps)
         /\ from \notin steps /\ to \in steps =>
              Cardinality(At(steps)') = Cardinality(At(steps)) + 1
         /\ from \in steps /\ to \notin steps =>
              /\ Cardinality(At(steps)) >= 1
              /\ Cardinality(At(steps)') = Cardinality(At(steps)) - 1
<1>1. IsFiniteSet(At(steps))
  BY BusyConstants, FS_Subset DEF At
<1>2. Cardinality(At(steps)) \in Nat
  BY <1>1, FS_CardinalityType
<1>3. ASSUME from \notin steps, to \in steps
      PROVE  Cardinality(At(steps)') = Cardinality(At(steps)) + 1
  BY <1>1, <1>3, AtAfter, FS_AddElement
<1>4. ASSUME from \in steps, to \notin steps
      PROVE  /\ Cardinality(At(steps)) >= 1
             /\ Cardinality(At(steps)') = Cardinality(At(steps)) - 1
  <2>1. Cardinality(At(steps)') = Cardinality(At(steps)) - 1
    BY <1>1, <1>4, AtAfter, FS_RemoveElement
  <2>2. Cardinality(At(steps)) # 0
    BY <1>1, <1>4, AtAfter, FS_EmptySet
  <2> QED
    BY <1>2, <2>1, <2>2
<1>5. (from \in steps <=> to \in steps) => At(steps)' = At(steps)
  BY AtAfter
<1> QED
  BY <1>2, <1>3, <1>4, <1>5

\* The served requests are among the counted ones.
LEMMA ServedAreCounted ==
  Cardinality(Serving) \in Nat /\ Cardinality(Counted) \in Nat
    /\ Cardinality(Serving) <= Cardinality(Counted)
<1>1. IsFiniteSet(Counted)
  BY BusyConstants, FS_Subset DEF Counted, At
<1>2. Serving \subseteq Counted
  BY DEF Serving, Counted, At
<1> QED
  BY <1>1, <1>2, FS_Subset, FS_CardinalityType

-----------------------------------------------------------------------------
\* Types, the meaning of the counter and the limit hold at every step.
THEOREM BusyInvariant == Spec => []BusyInv
<1> USE BusyConstants DEF Unlimited
<1>1. Init => BusyInv
  <2> SUFFICES ASSUME Init PROVE BusyInv
    OBVIOUS
  <2>1. Serving = {} /\ Counted = {}
    BY DEF Init, Serving, Counted, At, Served
  <2> QED
    BY <2>1, FS_EmptySet DEF Init, BusyInv, TypeOK, OverALimit, CounterExact, LimitHolds, Served
<1>2. BusyInv /\ [Next]_vars => BusyInv'
  <2> SUFFICES ASSUME BusyInv, [Next]_vars PROVE BusyInv'
    OBVIOUS
  <2> USE DEF BusyInv
  <2>1. ASSUME NEW r \in Requests, NEW from, NEW to, Transition(r, from, to),
               to \in {"idle", "check", "over", "refused"} \cup Served,
               from \in Served \cup {"over"} <=> to \in Served \cup {"over"},
               from \in Served <=> to \in Served, UNCHANGED <<max, counter>>
        PROVE  BusyInv'
    <3>1. Serving' = Serving /\ Counted' = Counted
      BY <2>1, SizeAfter DEF Serving, Counted
    <3>2. TypeOK' /\ OverALimit'
      BY <2>1 DEF TypeOK, OverALimit, Transition, Served
    <3> QED
      BY <2>1, <3>1, <3>2 DEF CounterExact, LimitHolds
  <2>2. ASSUME NEW r \in Requests, Arrive(r) \/ Refuse(r) \/ Handle(r) PROVE BusyInv'
    BY <2>1, <2>2 DEF Arrive, Refuse, Handle, Served
  <2>3. ASSUME NEW r \in Requests, Pass(r) PROVE BusyInv'
    BY <2>3 DEF Pass, TypeOK, OverALimit, CounterExact, LimitHolds, Transition, Served
  <2>4. ASSUME NEW r \in Requests, Count(r) PROVE BusyInv'
    <3> DEFINE to == IF Admitted(counter + 1) THEN "serving" ELSE "over"
    <3>1. Transition(r, "check", to) /\ counter' = counter + 1 /\ max' = max /\ max >= 1
      BY <2>4 DEF Count, TypeOK
    <3>2. counter = Cardinality(Counted) /\ counter \in Nat /\ max \in Int
      BY <3>1 DEF CounterExact, TypeOK
    <3>3. Cardinality(Counted') = Cardinality(Counted) + 1
      BY <3>1, SizeAfter DEF Counted, Served
    <3>4. TypeOK' /\ OverALimit'
      BY <3>1 DEF TypeOK, OverALimit, Transition, Served
    <3>5. CASE Admitted(counter + 1)
      <4>1. Cardinality(Serving') = Cardinality(Serving) + 1
        BY <3>1, <3>5, SizeAfter DEF Serving, Served
      <4> QED
        BY <3>1, <3>2, <3>3, <3>4, <3>5, <4>1, ServedAreCounted
           DEF CounterExact, LimitHolds, Admitted
    <3>6. CASE ~Admitted(counter + 1)
      <4>1. Serving' = Serving
        BY <3>1, <3>6, SizeAfter DEF Serving, Served
      <4> QED
        BY <3>1, <3>2, <3>3, <3>4, <4>1 DEF CounterExact, LimitHolds
    <3> QED
      BY <3>5, <3>6
  <2>5. ASSUME NEW r \in Requests, Withdraw(r) PROVE BusyInv'
    <3>1. /\ Transition(r, "over", "refused") /\ counter' = counter - 1 /\ max' = max
          /\ Cardinality(Counted) >= 1
          /\ Cardinality(Counted') = Cardinality(Counted) - 1
          /\ Serving' = Serving
      BY <2>5, SizeAfter DEF Withdraw, Counted, Serving, Served
    <3>2. max >= 1 /\ max \in Int
      BY <3>1 DEF OverALimit, TypeOK, Transition
    <3>3. TypeOK' /\ OverALimit'
      BY <3>1, <3>2, ServedAreCounted DEF CounterExact, TypeOK, OverALimit, Transition, Served
    <3> QED
      BY <3>1, <3>2, <3>3, ServedAreCounted DEF CounterExact, LimitHolds
  <2>6. ASSUME NEW r \in Requests, Done(r) PROVE BusyInv'
    <3> PICK from \in {"returned", "panicked"} : Transition(r, from, "idle")
      BY <2>6 DEF Done
    <3>1. /\ max' = max
          /\ counter' = IF Unlimited THEN counter ELSE counter - 1
          /\ Cardinality(Counted) >= 1
          /\ Cardinality(Counted') = Cardinality(Counted) - 1
          /\ Cardinality(Serving') = Cardinality(Serving) - 1
      BY <2>6, SizeAfter DEF Done, Counted, Serving, Served
    <3>2. pc' \in [Requests -> {"idle", "check", "over", "refused"} \cup Served]
      BY <2>6 DEF Done, Transition, TypeOK
    <3>3. max \in Int /\ max \in Limits
      BY DEF TypeOK
    <3>4. LimitHolds'
      BY <3>1, <3>3, ServedAreCounted DEF LimitHolds
    <3>5. CounterExact' /\ counter' \in Nat
      BY <3>1, <3>3, ServedAreCounted DEF CounterExact, TypeOK
    <3>6. OverALimit'
      BY <3>1, <3>3 DEF OverALimit, TypeOK, Transition
    <3> QED
      BY <3>1, <3>2, <3>3, <3>4, <3>5, <3>6 DEF TypeOK
  <2>7. CASE UNCHANGED vars
    BY <2>7 DEF vars, TypeOK, OverALimit, CounterExact, LimitHolds, Serving, Counted, At
  <2> QED
    BY <2>2, <2>3, <2>4, <2>5, <2>6, <2>7 DEF Next
<1>3. QED
  BY <1>1, <1>2, PTL DEF Spec

\* Never more than MaxRequests requests are inside next.
THEOREM LimitNeverExceeded == Spec => []LimitHolds
BY BusyInvariant, PTL DEF BusyInv

\* The counter counts exactly the requests it was incremented for and not yet
\* decremented for: no path through ServeHTTP leaks a place or frees one twice.
THEOREM CounterNeverDrifts == Spec => []CounterExact
BY BusyInvariant, PTL DEF BusyInv

-----------------------------------------------------------------------------
\* A step of one request between steps that the limiter does not distinguish.
LEMMA Stutters ==
  ASSUME TypeOK, NEW r \in Requests, NEW from, NEW to, Transition(r, from, to),
         from \in Served <=> to \in Served, from = "over" <=> to = "over",
         UNCHANGED max
  PROVE  UNCHANGED Atomic!vars
BY SizeAfter DEF Atomic!vars, Serving

\* The instance counts with the same operator.
LEMMA SameCount == ASSUME NEW S PROVE Atomic!Cardinality(S) = Cardinality(S)
BY DEF Atomic!Cardinality, Cardinality

\* A request that leaves the limiter does so in one step.
LEMMA Leaves ==
  ASSUME TypeOK, NEW r \in Requests, NEW from \in Served \cup {"over"},
         NEW to \in {"refused", "idle"}, Transition(r, from, to), UNCHANGED max
  PROVE  Atomic!Leave(r)
<1>1. to \notin Served /\ to # "over"
  BY DEF Served
<1>2. Serving' = Serving \ {r}
  BY <1>1, AtAfter DEF Serving
<1>3. At({"over"})' = At({"over"}) \ {r}
  BY <1>1, AtAfter
<1>4. r \in Serving \/ r \in At({"over"})
  BY AtAfter DEF Serving
<1> QED
  BY <1>2, <1>3, <1>4 DEF Atomic!Leave, Atomic!Inside

\* Adding first and comparing later is indistinguishable from deciding admission
\* in one step from the set of requests inside, for any limit.
THEOREM ImplementsLimiter == Spec => ImplementsAtomicLimiter
<1> USE BusyConstants DEF Unlimited
<1>1. Init => Atomic!Init
  BY DEF Init, Atomic!Init, Serving, At, Served
<1>2. BusyInv /\ [Next]_vars => [Atomic!Next]_Atomic!vars
  <2> SUFFICES ASSUME BusyInv, [Next]_vars PROVE [Atomic!Next]_Atomic!vars
    OBVIOUS
  <2> USE DEF BusyInv
  <2>1. Atomic!Inside = Counted
    BY DEF Atomic!Inside, Serving, Counted, At
  <2>2. ASSUME NEW r \in Requests, Arrive(r) \/ Refuse(r) \/ Handle(r)
        PROVE  UNCHANGED Atomic!vars
    BY <2>2, Stutters DEF Arrive, Refuse, Handle, Served
  <2>3. ASSUME NEW r \in Requests, NEW to \in {"serving", "over"},
               Transition(r, "check", to), UNCHANGED max
        PROVE  /\ r \notin Atomic!Inside
               /\ to = "serving" => UNCHANGED At({"over"}) /\ Serving' = Serving \cup {r}
               /\ to = "over" => UNCHANGED Serving /\ At({"over"})' = At({"over"}) \cup {r}
    <3>1. r \notin Serving /\ r \notin At({"over"})
      BY <2>3, AtAfter DEF Serving, Served
    <3>2. CASE to = "serving"
      BY <2>3, <3>1, <3>2, AtAfter DEF Serving, Served, Atomic!Inside
    <3>3. CASE to = "over"
      BY <2>3, <3>1, <3>3, AtAfter DEF Serving, Served, Atomic!Inside
    <3> QED
      BY <3>2, <3>3
  <2>4. ASSUME NEW r \in Requests, Pass(r) PROVE Atomic!Admit(r)
    BY <2>3, <2>4 DEF Pass, Atomic!Admit
  <2>5. ASSUME NEW r \in Requests, Count(r) PROVE Atomic!Admit(r) \/ Atomic!Refuse(r)
    <3>1. counter = Cardinality(Atomic!Inside) /\ counter \in Nat /\ max \in Int /\ max >= 1
      BY <2>1, <2>5 DEF Count, CounterExact, TypeOK
    <3>2. CASE Admitted(counter + 1)
      <4>1. Transition(r, "check", "serving") /\ UNCHANGED max /\ Cardinality(Atomic!Inside) < max
        BY <2>5, <3>1, <3>2 DEF Count, Admitted
      <4> QED
        BY <2>3, <4>1, SameCount DEF Atomic!Admit
    <3>3. CASE ~Admitted(counter + 1)
      <4>1. Transition(r, "check", "over") /\ UNCHANGED max /\ Cardinality(Atomic!Inside) >= max
        BY <2>5, <3>1, <3>3 DEF Count, Admitted
      <4> QED
        BY <2>3, <3>1, <4>1, SameCount DEF Atomic!Refuse
    <3> QED
      BY <3>2, <3>3
  <2>6. ASSUME NEW r \in Requests, Withdraw(r) \/ Done(r) PROVE Atomic!Leave(r)
    BY <2>6, Leaves DEF Withdraw, Done, Served
  <2>7. CASE UNCHANGED vars
    BY <2>7 DEF vars, Atomic!vars, Serving, At
  <2> QED
    BY <2>2, <2>4, <2>5, <2>6, <2>7 DEF Next, Atomic!Next
<1>3. QED
  BY <1>1, <1>2, BusyInvariant, PTL DEF Spec, Atomic!Spec, ImplementsAtomicLimiter
=============================================================================
