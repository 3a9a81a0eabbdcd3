-------------------------------- MODULE Retry --------------------------------
(***************************************************************************)
(* Package retry: one call of Client.Do, the decorated client it calls,    *)
(* the retry timer and the caller, who may cancel the request's context at *)
(* any moment.  The decorated client may misbehave: it may return a body   *)
(* together with an error, nothing at all, or a response to a request that *)
(* has been canceled.                                                      *)
(*                                                                         *)
(* Response bodies are tracked one by one from the attempt that opens them *)
(* to their close, and request bodies by the number of GetBody calls that  *)
(* came before.                                                            *)
(***************************************************************************)
EXTENDS Naturals, Sequences, FiniteSets

CONSTANT MaxRetries  \* largest Config.Retries to configure

ASSUME RetryConstants == MaxRetries \in Nat

VARIABLES
  retries,    \* Client.Retries(), 0 when Config.Retries is nonpositive
  getBody,    \* the request has a GetBody
  canceled,   \* the request's context is done
  timer,      \* the timer of the current wait
  pc,         \* where Do is
  i,          \* the loop variable
  attempt,    \* State.attempt
  previous,   \* State.previous: the attempt it came from, 0 for none
  bodies,     \* the response body of each attempt made so far
  body,       \* which body original.Body is: 0, or the one of the body-th GetBody
  spent,      \* request bodies handed to the decorated client
  result,     \* what Do returned
  late        \* history: retries begun after the context was done

config  == <<retries, getBody>>
state   == <<attempt, previous>>
request == <<body, spent>>
vars    == <<config, canceled, timer, pc, i, state, bodies, request, result, late>>

Tries == Len(bodies)

Goto(from, to) == pc = from /\ pc' = to

Init ==
  /\ retries \in 0..MaxRetries
  /\ getBody \in BOOLEAN
  /\ canceled \in BOOLEAN
  /\ timer = "none"
  /\ pc = "initial"
  /\ i = 0
  /\ attempt = 0
  /\ previous = 0
  /\ bodies = <<>>
  /\ body = 0
  /\ spent = {}
  /\ result = "pending"
  /\ late = 0

-----------------------------------------------------------------------------
(* The environment *)

Cancel ==
  /\ ~canceled
  /\ canceled' = TRUE
  /\ UNCHANGED <<config, timer, pc, i, state, bodies, request, result, late>>

Fire ==
  /\ timer = "running"
  /\ timer' = "fired"
  /\ UNCHANGED <<config, canceled, pc, i, state, bodies, request, result, late>>

\* next.Do consumes the request's body and returns: with an open body, or without.
Respond(from, to) ==
  /\ Goto(from, to)
  /\ \E outcome \in {"open", "none"} : bodies' = Append(bodies, outcome)
  /\ spent' = spent \cup {body}
  /\ UNCHANGED <<config, canceled, timer, i, state, body, result, late>>

-----------------------------------------------------------------------------
(* Client.Do *)

RespondInitial == Respond("initial", "checkInitial")
RespondRetry   == Respond("resent", "checkRetry")

\* httpaux.Cleanup of the last response: drained and closed, if there is a body.
Close(all) ==
  [k \in 1..Len(all) |-> IF k = Len(all) /\ all[k] = "open" THEN "closed" ELSE all[k]]

Finish(from, value) == Goto(from, "returned") /\ result' = value

\* The response of an attempt is final: no retries are configured, or the check
\* or the end of the loop says so.
ReturnInitial ==
  /\ Finish("checkInitial", "response")
  /\ UNCHANGED <<config, canceled, timer, i, state, bodies, request, late>>

ReturnRetry ==
  /\ ~canceled
  /\ Finish("checkRetry", "response")
  /\ UNCHANGED <<config, canceled, timer, i, state, bodies, request, late>>

\* The custom or default check may ask for another attempt after any outcome.
WantRetry ==
  /\ retries > 0
  /\ Goto("checkInitial", "arm")
  /\ UNCHANGED <<config, canceled, timer, i, state, bodies, request, result, late>>

InLoop(n) == n < retries

\* Mutant: the context is not looked at after a retry.
GoOnRegardless ==
  /\ InLoop(i + 1)
  /\ Goto("checkRetry", "arm")
  /\ i' = i + 1
  /\ UNCHANGED <<config, canceled, timer, state, bodies, request, result, late>>

\* In the last pass of the loop this is ReturnRetry, whatever the check says.
WantAnother ==
  /\ ~canceled
  /\ InLoop(i + 1)
  /\ Goto("checkRetry", "arm")
  /\ i' = i + 1
  /\ UNCHANGED <<config, canceled, timer, state, bodies, request, result, late>>

Arm ==
  /\ Goto("arm", "prepare")
  /\ timer' = "running"
  /\ UNCHANGED <<config, canceled, i, state, bodies, request, result, late>>

\* Mutant: the previous response is remembered but not cleaned up.
PrepareWithoutCleanup ==
  /\ Goto("prepare", "select")
  /\ attempt' = attempt + 1
  /\ previous' = Tries
  /\ UNCHANGED <<config, canceled, timer, i, bodies, request, result, late>>

\* Mutant: the decorated client is told the index of the loop, which is one behind.
PrepareWithIndex ==
  /\ Goto("prepare", "select")
  /\ attempt' = i
  /\ bodies' = Close(bodies)
  /\ previous' = Tries
  /\ UNCHANGED <<config, canceled, timer, i, request, result, late>>

PrepareNext ==
  /\ Goto("prepare", "select")
  /\ attempt' = attempt + 1
  /\ bodies' = Close(bodies)
  /\ previous' = Tries
  /\ UNCHANGED <<config, canceled, timer, i, request, result, late>>

\* Mutant: the wait is abandoned but its timer is not stopped.
AbandonTimer ==
  /\ canceled
  /\ Finish("select", "canceled")
  /\ UNCHANGED <<config, canceled, timer, i, state, bodies, request, late>>

\* Mutant: the wait does not look at the context.
WaitRegardless ==
  /\ canceled /\ timer = "fired"
  /\ Finish("select", "canceled")
  /\ UNCHANGED <<config, canceled, timer, i, state, bodies, request, late>>

\* The two cases of the select; when both are ready, either is taken.
CancelWait ==
  /\ canceled
  /\ Finish("select", "canceled")
  /\ timer' = IF timer = "running" THEN "stopped" ELSE timer
  /\ UNCHANGED <<config, canceled, i, state, bodies, request, late>>

Wake ==
  /\ timer = "fired"
  /\ Goto("select", "refresh")
  /\ UNCHANGED <<config, canceled, timer, i, state, bodies, request, result, late>>

GetBodyFails ==
  /\ getBody
  /\ Finish("refresh", "getBodyError")
  /\ UNCHANGED <<config, canceled, timer, i, state, bodies, request, late>>

\* Mutant: the fresh body is not put into the request.
ForgetBody ==
  /\ Goto("refresh", "resend")
  /\ UNCHANGED <<config, canceled, timer, i, state, bodies, request, result, late>>

Refresh ==
  /\ Goto("refresh", "resend")
  /\ body' = IF getBody THEN body + 1 ELSE body
  /\ UNCHANGED <<config, canceled, timer, i, state, bodies, spent, result, late>>

Resend ==
  /\ Goto("resend", "resent")
  /\ late' = IF canceled THEN late + 1 ELSE late
  /\ UNCHANGED <<config, canceled, timer, i, state, bodies, request, result>>

\* Mutant: a misbehaving client's late response is dropped as it is.
DropLateResponse ==
  /\ canceled
  /\ Finish("checkRetry", "canceled")
  /\ UNCHANGED <<config, canceled, timer, i, state, bodies, request, late>>

\* The context ended during the retry: its response, if any, is cleaned up.
CanceledRetry ==
  /\ canceled
  /\ Finish("checkRetry", "canceled")
  /\ bodies' = Close(bodies)
  /\ UNCHANGED <<config, canceled, timer, i, state, request, late>>

Do ==
  \/ ReturnInitial \/ ReturnRetry \/ WantRetry \/ WantAnother \/ Arm \/ PrepareNext
  \/ CancelWait \/ Wake \/ GetBodyFails \/ Refresh \/ Resend \/ CanceledRetry

Next == Cancel \/ Fire \/ RespondInitial \/ RespondRetry \/ Do

Spec == Init /\ [][Next]_vars

\* The decorated client returns and Do's goroutine is scheduled.  The timer need
\* not fire: Config.Interval may be as long as one likes.
FairSpec == Spec /\ WF_vars(RespondInitial \/ RespondRetry \/ Do)

-----------------------------------------------------------------------------
(* Properties *)

TypeOK ==
  /\ retries \in 0..MaxRetries
  /\ getBody \in BOOLEAN
  /\ canceled \in BOOLEAN
  /\ timer \in {"none", "running", "fired", "stopped"}
  /\ pc \in {"initial", "checkInitial", "arm", "prepare", "select", "refresh",
             "resend", "resent", "checkRetry", "returned"}
  /\ i \in 0..retries
  /\ attempt \in 0..retries
  /\ previous \in Nat
  /\ bodies \in Seq({"open", "closed", "none"})
  /\ body \in Nat
  /\ spent \subseteq Nat
  /\ result \in {"pending", "response", "canceled", "getBodyError"}
  /\ late \in Nat

\* Every response body the caller is not given has been closed by the time Do
\* returns, and before the wait for the next attempt begins; the one the caller
\* is given has not (client.go:134, 143-145, 167, 175).
BodiesCleanedUp ==
  /\ \A k \in 1..Tries : bodies[k] = "open" => k = Tries
  /\ pc \in {"select", "refresh", "resend", "resent"} \/ result \in {"canceled", "getBodyError"} =>
       \A k \in 1..Tries : bodies[k] # "open"
  /\ result = "response" => bodies[Tries] # "closed"

\* No more than 1+Retries transactions (config.go:17-19), and what a decorated
\* client reads from its State is the number of attempts before this one, at most
\* Retries, and the result of the last of them (context.go:26-47).
AttemptsCounted ==
  /\ Tries <= 1 + retries
  /\ pc \in {"initial", "resent"} =>
       attempt = Tries /\ previous = Tries /\ attempt <= retries

\* No timer is left running, whichever way Do ends.
TimerReleased == pc = "returned" => timer # "running"

\* With GetBody no attempt sends a body that was already consumed, and no body
\* that GetBody made is dropped without being sent.
RequestBodiesSentOnce ==
  /\ getBody /\ pc = "resent" => body \notin spent
  /\ pc = "returned" => spent = 0..body

\* At most one retry begins once the context is done.
OneLateRetry == late <= 1

\* A canceled context ends Do, however long the wait would still be.
CancellationEndsDo == canceled ~> pc = "returned"

-----------------------------------------------------------------------------
(* The inductive invariant: where Do is fixes how far its counters have got. *)

Sending == {"resend", "resent"}
Waking  == {"select", "refresh"} \cup Sending

LoopInv ==
  /\ pc = "initial" => Tries = 0 /\ i = 0 /\ attempt = 0 /\ previous = 0
  /\ pc = "checkInitial" => Tries = 1 /\ i = 0 /\ attempt = 0
  /\ pc \in {"arm", "prepare"} => Tries = i + 1 /\ attempt = i /\ i < retries
  /\ pc \in Waking => Tries = i + 1 /\ attempt = Tries /\ previous = Tries /\ i < retries
  /\ pc = "checkRetry" => Tries = i + 2 /\ attempt = i + 1 /\ i < retries
  /\ pc = "returned" => Tries \in 1..(1 + retries)
  /\ pc \in {"checkInitial", "checkRetry"} => bodies[Tries] # "closed"

\* A timer runs only while the select can still stop it or see it fire.
TimerInv == timer = "running" => pc \in {"prepare", "select"}

\* All request bodies made so far were sent, but for the one about to be.
BodyInv ==
  /\ ~getBody => body = 0
  /\ pc = "initial" => body = 0 /\ spent = {}
  /\ pc \in Sending /\ getBody => body >= 1 /\ spent = 0..(body - 1)
  /\ pc \in Sending /\ ~getBody => spent = {0}
  /\ pc \notin Sending \cup {"initial"} => spent = 0..body

\* After a late retry there is no way but out.
LateInv ==
  /\ late # 0 => canceled /\ late = 1 /\ pc \in {"resent", "checkRetry", "returned"}
  /\ result = "pending" <=> pc # "returned"

\* What holds between any two steps of Do: the argument for the properties above.
RetryInv == TypeOK /\ BodiesCleanedUp /\ LoopInv /\ TimerInv /\ BodyInv /\ LateInv

\* What the tests say: when the context is canceled, retries short circuit
\* (client_test.go:518).  It does not hold when the timer has fired too.
NoLateRetry == late = 0
=============================================================================
