-------------------------------- MODULE Busy --------------------------------
(***************************************************************************)
(* Package busy: requests decorated by Server.Then pass a                  *)
(* MaxRequestLimiter, whose only state is a counter changed by atomic      *)
(* additions.  A request adds itself first and compares afterwards; one    *)
(* that finds the limit exceeded takes itself out again in a second step.  *)
(***************************************************************************)
EXTENDS Integers, FiniteSets

CONSTANTS
  Requests,   \* goroutines that handle requests, each one request at a time
  Limits      \* values of MaxRequests to configure

ASSUME BusyConstants ==
  /\ IsFiniteSet(Requests)
  /\ Limits \subseteq Int

VARIABLES
  max,      \* MaxRequestLimiter.MaxRequests, fixed before the first request
  counter,  \* MaxRequestLimiter.counter
  pc        \* where each request is in ServeHTTP

vars == <<max, counter, pc>>

At(steps) == {r \in Requests : pc[r] \in steps}

\* next is running, or it ended and the deferred done has not run yet.
Served  == {"serving", "returned", "panicked"}
Serving == At(Served)
Counted == At(Served \cup {"over"})

Transition(r, from, to) ==
  /\ pc[r] = from
  /\ pc' = [pc EXCEPT ![r] = to]

Init ==
  /\ max \in Limits
  /\ counter = 0
  /\ pc = [r \in Requests |-> "idle"]

Arrive(r) == Transition(r, "idle", "check") /\ UNCHANGED <<max, counter>>

Unlimited == max < 1

\* A nonpositive MaxRequests allows everything and counts nothing.
Pass(r) ==
  /\ Unlimited
  /\ Transition(r, "check", "serving")
  /\ UNCHANGED <<max, counter>>

Admitted(count) == count <= max

\* Mutant: the comparison is made on the counter before the addition.
CountStale(r) ==
  /\ ~Unlimited
  /\ counter' = counter + 1
  /\ Transition(r, "check", IF Admitted(counter) THEN "serving" ELSE "over")
  /\ UNCHANGED max

\* atomic.AddInt64 and the comparison of what it returned.
Count(r) ==
  /\ ~Unlimited
  /\ counter' = counter + 1
  /\ Transition(r, "check", IF Admitted(counter + 1) THEN "serving" ELSE "over")
  /\ UNCHANGED max

\* Mutant: a refused request is not taken out again.
KeepCount(r) ==
  /\ Transition(r, "over", "refused")
  /\ UNCHANGED <<max, counter>>

Withdraw(r) ==
  /\ Transition(r, "over", "refused")
  /\ counter' = counter - 1
  /\ UNCHANGED max

\* The Busy handler, or a 503.
Refuse(r) == Transition(r, "refused", "idle") /\ UNCHANGED <<max, counter>>

\* next.ServeHTTP returns or panics.
Handle(r) ==
  /\ \/ Transition(r, "serving", "returned")
     \/ Transition(r, "serving", "panicked")
  /\ UNCHANGED <<max, counter>>

\* Mutant: done is not deferred, so a panic skips it.
DoneOnReturnOnly(r) ==
  /\ \/ Transition(r, "returned", "idle") /\ counter' = IF Unlimited THEN counter ELSE counter - 1
     \/ Transition(r, "panicked", "idle") /\ UNCHANGED counter
  /\ UNCHANGED max

\* Mutant: release is the done of a request that was never counted, too.
ReleaseAlways(r) ==
  /\ \E end \in {"returned", "panicked"} : Transition(r, end, "idle")
  /\ counter' = counter - 1
  /\ UNCHANGED max

\* The deferred done: release, or NopRequestDone when nothing was counted.
Done(r) ==
  /\ \E end \in {"returned", "panicked"} : Transition(r, end, "idle")
  /\ counter' = IF Unlimited THEN counter ELSE counter - 1
  /\ UNCHANGED max

Next ==
  \E r \in Requests :
    \/ Arrive(r) \/ Pass(r) \/ Count(r) \/ Withdraw(r)
    \/ Refuse(r) \/ Handle(r) \/ Done(r)

Spec == Init /\ [][Next]_vars

-----------------------------------------------------------------------------
(* Properties *)

TypeOK ==
  /\ max \in Limits
  /\ counter \in Nat
  /\ pc \in [Requests -> {"idle", "check", "over", "refused"} \cup Served]

\* Never more than MaxRequests requests are inside next, in whatever order the
\* additions, subtractions and panics of the others fall (limiter.go:55).
LimitHolds == ~Unlimited => Cardinality(Serving) <= max

\* The counter is exactly the number of requests that added themselves and have
\* not been taken out: refusals and panics leak no place and free none twice.
CounterExact == counter = IF Unlimited THEN 0 ELSE Cardinality(Counted)

\* Without a limit there is nothing to withdraw.
OverALimit == \A r \in Requests : pc[r] = "over" => ~Unlimited

\* The argument for LimitHolds: what holds between any two steps.
BusyInv == TypeOK /\ OverALimit /\ CounterExact /\ LimitHolds

\* What the comments say: the busy path is for requests that come while the
\* maximum number of requests is in flight (middleware.go:16, limiter.go:55).
\* It does not hold: requests that are being refused count too.
RefusedOnlyWhenFull ==
  [][\A r \in Requests :
       pc[r] = "check" /\ pc'[r] = "over" => Cardinality(Serving) >= max]_vars

-----------------------------------------------------------------------------
Atomic == INSTANCE AtomicLimiter WITH serving <- Serving, leaving <- At({"over"})

\* Adding first and comparing later implements a limiter that decides admission
\* in one step from the set of requests inside.
ImplementsAtomicLimiter == Atomic!Spec
=============================================================================
