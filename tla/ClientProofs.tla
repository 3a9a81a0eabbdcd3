---------------------------- MODULE ClientProofs ----------------------------
(***************************************************************************)
(* Theorems about the clients of this library: Retry, for any number of    *)
(* retries, any decorated client, any check and any moment of              *)
(* cancellation; PacedRetry, for any waits and any configuration; and      *)
(* Exchange, for any limit and any combination of checks, headers and      *)
(* redirects.                                                              *)
(***************************************************************************)
EXTENDS PacedRetry, Exchange, SequenceTheorems, WellFoundedInduction, TLAPS

-----------------------------------------------------------------------------
(* Retry *)

Bodies == {"open", "closed", "none"}

\* Closing the last body changes nothing else.
LEMMA CloseLast ==
  ASSUME NEW all \in Seq(Bodies)
  PROVE  /\ Close(all) \in Seq(Bodies)
         /\ Len(Close(all)) = Len(all)
         /\ \A k \in 1..Len(all) :
              Close(all)[k] = IF k = Len(all) /\ all[k] = "open" THEN "closed" ELSE all[k]
<1>1. Len(all) \in Nat /\ \A k \in 1..Len(all) : all[k] \in Bodies
  BY LenProperties, ElementOfSeq
<1>2. \A k \in 1..Len(all) :
        (IF k = Len(all) /\ all[k] = "open" THEN "closed" ELSE all[k]) \in Bodies
  BY <1>1 DEF Bodies
<1>3. Close(all) \in Seq(Bodies)
  BY <1>1, <1>2, IsASeq DEF Close
<1>4. DOMAIN Close(all) = 1..Len(all)
  BY DEF Close
<1>5. Len(Close(all)) = Len(all)
  BY <1>1, <1>3, <1>4, LenProperties
<1> QED
  BY <1>3, <1>5 DEF Close

\* Appending the body of one more attempt.
LEMMA AppendBody ==
  ASSUME NEW all \in Seq(Bodies), NEW b \in Bodies
  PROVE  /\ Append(all, b) \in Seq(Bodies)
         /\ Len(Append(all, b)) = Len(all) + 1
         /\ \A k \in 1..Len(all) : Append(all, b)[k] = all[k]
         /\ Append(all, b)[Len(all) + 1] = b
BY AppendProperties

-----------------------------------------------------------------------------
\* Everything the invariant says holds at every step of Do and its environment.
THEOREM RetryInvariant == Spec => []RetryInv
<1> USE RetryConstants DEF Tries, Waking, Sending
<1>1. Init => RetryInv
  BY EmptySeq DEF Init, RetryInv, TypeOK, BodiesCleanedUp, LoopInv, TimerInv, BodyInv, LateInv
<1>2. RetryInv /\ [Next]_vars => RetryInv'
  <2> SUFFICES ASSUME RetryInv, [Next]_vars PROVE RetryInv'
    OBVIOUS
  <2> USE DEF RetryInv, Goto, Finish, config, state, request
  <2>1. retries \in Nat /\ Tries \in Nat /\ bodies \in Seq(Bodies)
    BY LenProperties DEF TypeOK, Bodies
  <2>2. CASE Cancel
    <3>1. TypeOK'
      BY <2>1, <2>2 DEF Cancel, TypeOK, LoopInv, BodyInv
    <3>2. LoopInv' /\ TimerInv' /\ BodyInv' /\ LateInv'
      BY <2>1, <2>2 DEF Cancel, TypeOK, LoopInv, TimerInv, BodyInv, LateInv
    <3>3. BodiesCleanedUp'
      BY <2>1, <2>2 DEF Cancel, BodiesCleanedUp, LoopInv, LateInv
    <3> QED
      BY <3>1, <3>2, <3>3
  <2>3. CASE Fire
    <3>1. TypeOK'
      BY <2>1, <2>3 DEF Fire, TypeOK, LoopInv, BodyInv
    <3>2. LoopInv' /\ TimerInv' /\ BodyInv' /\ LateInv'
      BY <2>1, <2>3 DEF Fire, TypeOK, LoopInv, TimerInv, BodyInv, LateInv
    <3>3. BodiesCleanedUp'
      BY <2>1, <2>3 DEF Fire, BodiesCleanedUp, LoopInv, LateInv
    <3> QED
      BY <3>1, <3>2, <3>3
  <2>4. CASE ReturnInitial
    <3>1. TypeOK'
      BY <2>1, <2>4 DEF ReturnInitial, TypeOK, LoopInv, BodyInv
    <3>2. LoopInv' /\ TimerInv' /\ BodyInv' /\ LateInv'
      <4>1. LoopInv'
        <5>1. Tries = 1 /\ bodies' = bodies /\ retries' = retries /\ pc' = "returned"
          BY <2>4 DEF ReturnInitial, LoopInv
        <5>2. 1 \in 1..(1 + retries)
          BY <2>1
        <5> QED
          BY <5>1, <5>2 DEF LoopInv
      <4>2. TimerInv' /\ BodyInv'
        BY <2>1, <2>4 DEF ReturnInitial, TimerInv, BodyInv
      <4>3. LateInv'
        BY <2>1, <2>4 DEF ReturnInitial, LateInv
      <4> QED
        BY <4>1, <4>2, <4>3
    <3>3. BodiesCleanedUp'
      BY <2>1, <2>4 DEF ReturnInitial, BodiesCleanedUp, LoopInv, LateInv
    <3> QED
      BY <3>1, <3>2, <3>3
  <2>5. CASE ReturnRetry
    <3>1. TypeOK'
      BY <2>1, <2>5 DEF ReturnRetry, TypeOK, LoopInv, BodyInv
    <3>2. LoopInv' /\ TimerInv' /\ BodyInv' /\ LateInv'
      BY <2>1, <2>5 DEF ReturnRetry, TypeOK, LoopInv, TimerInv, BodyInv, LateInv
    <3>3. BodiesCleanedUp'
      BY <2>1, <2>5 DEF ReturnRetry, BodiesCleanedUp, LoopInv, LateInv
    <3> QED
      BY <3>1, <3>2, <3>3
  <2>6. CASE WantRetry
    <3>1. TypeOK'
      BY <2>1, <2>6 DEF WantRetry, TypeOK, LoopInv, BodyInv
    <3>2. LoopInv' /\ TimerInv' /\ BodyInv' /\ LateInv'
      BY <2>1, <2>6 DEF WantRetry, TypeOK, LoopInv, TimerInv, BodyInv, LateInv
    <3>3. BodiesCleanedUp'
      BY <2>1, <2>6 DEF WantRetry, BodiesCleanedUp, LoopInv, LateInv
    <3> QED
      BY <3>1, <3>2, <3>3
  <2>7. CASE WantAnother
    <3>1. TypeOK'
      BY <2>1, <2>7 DEF WantAnother, TypeOK, LoopInv, BodyInv, InLoop
    <3>2. LoopInv' /\ TimerInv' /\ BodyInv' /\ LateInv'
      BY <2>1, <2>7 DEF WantAnother, TypeOK, LoopInv, TimerInv, BodyInv, LateInv, InLoop
    <3>3. BodiesCleanedUp'
      BY <2>1, <2>7 DEF WantAnother, BodiesCleanedUp, LoopInv, LateInv
    <3> QED
      BY <3>1, <3>2, <3>3
  <2>8. CASE Arm
    <3>1. TypeOK'
      BY <2>1, <2>8 DEF Arm, TypeOK, LoopInv, BodyInv
    <3>2. LoopInv' /\ TimerInv' /\ BodyInv' /\ LateInv'
      BY <2>1, <2>8 DEF Arm, TypeOK, LoopInv, TimerInv, BodyInv, LateInv
    <3>3. BodiesCleanedUp'
      BY <2>1, <2>8 DEF Arm, BodiesCleanedUp, LoopInv, LateInv
    <3> QED
      BY <3>1, <3>2, <3>3
  <2>9. CASE CancelWait
    <3>1. TypeOK'
      BY <2>1, <2>9 DEF CancelWait, TypeOK, LoopInv, BodyInv
    <3>2. LoopInv' /\ TimerInv' /\ BodyInv' /\ LateInv'
      BY <2>1, <2>9 DEF CancelWait, TypeOK, LoopInv, TimerInv, BodyInv, LateInv
    <3>3. BodiesCleanedUp'
      BY <2>1, <2>9 DEF CancelWait, BodiesCleanedUp, LoopInv, LateInv
    <3> QED
      BY <3>1, <3>2, <3>3
  <2>10. CASE Wake
    <3>1. TypeOK'
      BY <2>1, <2>10 DEF Wake, TypeOK, LoopInv, BodyInv
    <3>2. LoopInv' /\ TimerInv' /\ BodyInv' /\ LateInv'
      BY <2>1, <2>10 DEF Wake, TypeOK, LoopInv, TimerInv, BodyInv, LateInv
    <3>3. BodiesCleanedUp'
      BY <2>1, <2>10 DEF Wake, BodiesCleanedUp, LoopInv, LateInv
    <3> QED
      BY <3>1, <3>2, <3>3
  <2>11. CASE GetBodyFails
    <3>1. TypeOK'
      BY <2>1, <2>11 DEF GetBodyFails, TypeOK, LoopInv, BodyInv
    <3>2. LoopInv' /\ TimerInv' /\ BodyInv' /\ LateInv'
      BY <2>1, <2>11 DEF GetBodyFails, TypeOK, LoopInv, TimerInv, BodyInv, LateInv
    <3>3. BodiesCleanedUp'
      BY <2>1, <2>11 DEF GetBodyFails, BodiesCleanedUp, LoopInv, LateInv
    <3> QED
      BY <3>1, <3>2, <3>3
  <2>12. CASE Refresh
    <3>1. TypeOK'
      BY <2>1, <2>12 DEF Refresh, TypeOK, LoopInv, BodyInv
    <3>2. LoopInv' /\ TimerInv' /\ BodyInv' /\ LateInv'
      BY <2>1, <2>12 DEF Refresh, TypeOK, LoopInv, TimerInv, BodyInv, LateInv
    <3>3. BodiesCleanedUp'
      BY <2>1, <2>12 DEF Refresh, BodiesCleanedUp, LoopInv, LateInv
    <3> QED
      BY <3>1, <3>2, <3>3
  <2>13. CASE Resend
    <3>1. TypeOK'
      BY <2>1, <2>13 DEF Resend, TypeOK, LoopInv, BodyInv
    <3>2. LoopInv' /\ TimerInv' /\ BodyInv' /\ LateInv'
      BY <2>1, <2>13 DEF Resend, TypeOK, LoopInv, TimerInv, BodyInv, LateInv
    <3>3. BodiesCleanedUp'
      BY <2>1, <2>13 DEF Resend, BodiesCleanedUp, LoopInv, LateInv
    <3> QED
      BY <3>1, <3>2, <3>3
  <2>14. CASE PrepareNext
    <3>1. /\ bodies' \in Seq(Bodies) /\ Len(bodies') = Tries
          /\ \A k \in 1..Tries :
               bodies'[k] = IF k = Tries /\ bodies[k] = "open" THEN "closed" ELSE bodies[k]
      BY <2>1, <2>14, CloseLast DEF PrepareNext
    <3>2. TypeOK'
      BY <2>1, <2>14, <3>1 DEF PrepareNext, TypeOK, LoopInv, Bodies
    <3>3. LoopInv' /\ TimerInv' /\ BodyInv' /\ LateInv'
      BY <2>1, <2>14, <3>1 DEF PrepareNext, TypeOK, LoopInv, TimerInv, BodyInv, LateInv
    <3>4. BodiesCleanedUp'
      BY <2>1, <2>14, <3>1 DEF PrepareNext, BodiesCleanedUp, LoopInv, LateInv
    <3> QED
      BY <3>2, <3>3, <3>4
  <2>15. CASE CanceledRetry
    <3>1. /\ bodies' \in Seq(Bodies) /\ Len(bodies') = Tries
          /\ \A k \in 1..Tries :
               bodies'[k] = IF k = Tries /\ bodies[k] = "open" THEN "closed" ELSE bodies[k]
      BY <2>1, <2>15, CloseLast DEF CanceledRetry
    <3>2. TypeOK'
      BY <2>1, <2>15, <3>1 DEF CanceledRetry, TypeOK, LoopInv, Bodies
    <3>3. LoopInv' /\ TimerInv' /\ BodyInv' /\ LateInv'
      BY <2>1, <2>15, <3>1 DEF CanceledRetry, TypeOK, LoopInv, TimerInv, BodyInv, LateInv
    <3>4. BodiesCleanedUp'
      BY <2>1, <2>15, <3>1 DEF CanceledRetry, BodiesCleanedUp, LoopInv, LateInv
    <3> QED
      BY <3>2, <3>3, <3>4
  <2>16. CASE RespondInitial
    <3>1. PICK outcome \in {"open", "none"} : bodies' = Append(bodies, outcome)
      BY <2>16 DEF RespondInitial, Respond
    <3>2. /\ bodies' \in Seq(Bodies) /\ Len(bodies') = Tries + 1
          /\ \A k \in 1..Tries : bodies'[k] = bodies[k]
          /\ bodies'[Tries + 1] # "closed"
      BY <2>1, <3>1, AppendBody DEF Bodies
    <3>3. TypeOK'
      BY <2>1, <2>16, <3>2 DEF RespondInitial, Respond, TypeOK, LoopInv, Bodies
    <3>4. LoopInv' /\ TimerInv' /\ BodyInv' /\ LateInv'
      <4>1. LoopInv'
        BY <2>1, <2>16, <3>2 DEF RespondInitial, Respond, LoopInv
      <4>2. TimerInv' /\ LateInv'
        BY <2>16 DEF RespondInitial, Respond, TimerInv, LateInv
      <4>3. body' = 0 /\ spent' = {0} /\ 0..0 = {0}
        BY <2>16 DEF RespondInitial, Respond, BodyInv
      <4>4. BodyInv'
        BY <2>16, <4>3 DEF RespondInitial, Respond, BodyInv
      <4> QED
        BY <4>1, <4>2, <4>4
    <3>5. BodiesCleanedUp'
      BY <2>1, <2>16, <3>2 DEF RespondInitial, Respond, TypeOK, BodiesCleanedUp, LoopInv, LateInv
    <3> QED
      BY <3>3, <3>4, <3>5
  <2>17. CASE RespondRetry
    <3>1. PICK outcome \in {"open", "none"} : bodies' = Append(bodies, outcome)
      BY <2>17 DEF RespondRetry, Respond
    <3>2. /\ bodies' \in Seq(Bodies) /\ Len(bodies') = Tries + 1
          /\ \A k \in 1..Tries : bodies'[k] = bodies[k]
          /\ bodies'[Tries + 1] # "closed"
      BY <2>1, <3>1, AppendBody DEF Bodies
    <3>3. TypeOK'
      BY <2>1, <2>17, <3>2 DEF RespondRetry, Respond, TypeOK, LoopInv, Bodies
    <3>4. LoopInv' /\ TimerInv' /\ BodyInv' /\ LateInv'
      BY <2>1, <2>17, <3>2 DEF RespondRetry, Respond, TypeOK, LoopInv, TimerInv, BodyInv, LateInv
    <3>5. BodiesCleanedUp'
      BY <2>1, <2>17, <3>2 DEF RespondRetry, Respond, TypeOK, BodiesCleanedUp, LoopInv, LateInv
    <3> QED
      BY <3>3, <3>4, <3>5
  <2>18. CASE UNCHANGED vars
    BY <2>18 DEF vars, TypeOK, BodiesCleanedUp, LoopInv, TimerInv, BodyInv, LateInv
  <2> QED
    BY <2>2, <2>3, <2>4, <2>5, <2>6, <2>7, <2>8, <2>9, <2>10, <2>11, <2>12, <2>13, <2>14, <2>15, <2>16, <2>17, <2>18
       DEF Next, Do
<1>3. QED
  BY <1>1, <1>2, PTL DEF Spec

\* No response body leaks and none is closed under the caller: see BodiesCleanedUp.
THEOREM NoBodyLeaks == Spec => []BodiesCleanedUp
BY RetryInvariant, PTL DEF RetryInv

\* No more than 1+Retries transactions, each told the truth about those before.
THEOREM AttemptsAreCounted == Spec => []AttemptsCounted
<1>1. RetryInv => AttemptsCounted
  <2> SUFFICES ASSUME RetryInv PROVE AttemptsCounted
    OBVIOUS
  <2>1. retries \in Nat /\ i \in Nat /\ Tries \in Nat
    BY RetryConstants, LenProperties DEF RetryInv, TypeOK, Tries
  <2>2. Tries <= 1 + retries
    BY <2>1 DEF RetryInv, TypeOK, LoopInv, Waking, Sending
  <2> QED
    BY <2>1, <2>2 DEF RetryInv, LoopInv, AttemptsCounted, Waking, Sending
<1> QED
  BY <1>1, RetryInvariant, PTL

\* No timer is left running when Do returns.
THEOREM TimersAreReleased == Spec => []TimerReleased
<1>1. RetryInv => TimerReleased
  BY DEF RetryInv, TimerInv, TimerReleased
<1> QED
  BY <1>1, RetryInvariant, PTL

\* With GetBody every request body is sent exactly once.
THEOREM EveryBodySentOnce == Spec => []RequestBodiesSentOnce
<1>1. RetryInv => RequestBodiesSentOnce
  BY DEF RetryInv, TypeOK, BodyInv, Sending, RequestBodiesSentOnce
<1> QED
  BY <1>1, RetryInvariant, PTL

\* At most one retry begins once the context is done.
THEOREM AtMostOneLateRetry == Spec => []OneLateRetry
<1>1. RetryInv => OneLateRetry
  BY DEF RetryInv, LateInv, OneLateRetry
<1> QED
  BY <1>1, RetryInvariant, PTL

-----------------------------------------------------------------------------
(* What of CancellationEndsDo does not need fairness *)

\* Where Do is, counted from its end.
Position ==
  CASE pc = "initial" -> 9 [] pc = "checkInitial" -> 8 [] pc = "arm" -> 7
    [] pc = "prepare" -> 6 [] pc = "select" -> 5 [] pc = "refresh" -> 4
    [] pc = "resend" -> 3 [] pc = "resent" -> 2 [] pc = "checkRetry" -> 1
    [] OTHER -> 0

\* A bound on the steps that Do and its attempts have left, seven for each retry.
StepsLeft == IF pc = "returned" THEN 0 ELSE 7 * (retries - i) + Position

\* A timer that Do waits for can still wake it.
WakeInv == pc \in {"prepare", "select"} => timer \in {"running", "fired"}

\* Whatever the check, the decorated client and the caller do, each step of Do and each
\* response bring Do nearer to its end, and neither a cancellation nor a timer puts it
\* off: at most 7*retries + 9 steps are taken (the loop at client.go:139-174).
THEOREM DoIsBounded ==
  Spec => /\ StepsLeft = 7 * retries + 9
          /\ [][/\ StepsLeft \in Nat
                /\ RespondInitial \/ RespondRetry \/ Do => StepsLeft' < StepsLeft
                /\ Cancel \/ Fire => StepsLeft' = StepsLeft]_vars
<1>1. ASSUME Init PROVE StepsLeft = 7 * retries + 9
  <2>1. retries \in Nat /\ i = 0 /\ pc = "initial"
    BY <1>1, RetryConstants DEF Init
  <2> QED
    BY <2>1 DEF StepsLeft, Position
<1>2. ASSUME RetryInv, [Next]_vars
      PROVE  [/\ StepsLeft \in Nat
              /\ RespondInitial \/ RespondRetry \/ Do => StepsLeft' < StepsLeft
              /\ Cancel \/ Fire => StepsLeft' = StepsLeft]_vars
  <2> DEFINE left == retries - i
  <2>1. /\ retries \in Nat /\ i \in Nat /\ left \in Nat
        /\ pc = "arm" => left >= 1
    BY <1>2, RetryConstants DEF RetryInv, TypeOK, LoopInv
  <2>2. StepsLeft = (IF pc = "returned" THEN 0 ELSE 7 * left + Position)
    BY DEF StepsLeft
  <2>3. Position \in 0..9 /\ (pc # "returned" => Position >= 1)
    <3>1. pc \in {"initial", "checkInitial", "arm", "prepare", "select", "refresh",
                 "resend", "resent", "checkRetry", "returned"}
      BY <1>2 DEF RetryInv, TypeOK
    <3> QED
      BY <3>1 DEF Position
  <2>4. StepsLeft \in Nat
    <3> HIDE DEF left
    <3> QED
      BY <2>1, <2>2, <2>3
  <2>5. ASSUME RespondInitial \/ RespondRetry \/ Do PROVE StepsLeft' < StepsLeft
    <3>1. CASE pc' = "returned"
      <4>1. pc # "returned"
        BY <2>5 DEF RespondInitial, RespondRetry, Respond, Do, ReturnInitial, ReturnRetry, WantRetry,
           WantAnother, Arm, PrepareNext, CancelWait, Wake, GetBodyFails, Refresh, Resend,
           CanceledRetry, Finish, Goto
      <4>2. StepsLeft' = 0
        BY <3>1 DEF StepsLeft
      <4> HIDE DEF left
      <4> QED
        BY <2>1, <2>2, <2>3, <4>1, <4>2
    <3>2. CASE WantAnother
      <4>1. pc = "checkRetry" /\ pc' = "arm" /\ i' = i + 1 /\ retries' = retries
        BY <3>2 DEF WantAnother, Goto, config
      <4>2. StepsLeft' = 7 * (retries - (i + 1)) + 7 /\ StepsLeft = 7 * (retries - i) + 1
        BY <4>1 DEF StepsLeft, Position
      <4> QED
        BY <2>1, <4>2
    <3>3. CASE pc' # "returned" /\ ~WantAnother
      <4>1. /\ <<pc, pc'>> \in {<<"initial", "checkInitial">>, <<"checkInitial", "arm">>,
                                <<"arm", "prepare">>, <<"prepare", "select">>, <<"select", "refresh">>,
                                <<"refresh", "resend">>, <<"resend", "resent">>,
                                <<"resent", "checkRetry">>}
            /\ i' = i /\ retries' = retries
        BY <2>5, <3>3 DEF RespondInitial, RespondRetry, Respond, Do, ReturnInitial, ReturnRetry, WantRetry,
           Arm, PrepareNext, CancelWait, Wake, GetBodyFails, Refresh, Resend,
           CanceledRetry, Finish, Goto, config
      <4>2. pc # "returned" /\ Position' = Position - 1
        BY <4>1 DEF Position
      <4>3. StepsLeft' = 7 * left + Position'
        BY <3>3, <4>1 DEF StepsLeft
      <4> HIDE DEF left
      <4> QED
        BY <2>1, <2>2, <2>3, <4>2, <4>3
    <3> QED
      BY <3>1, <3>2, <3>3
  <2>6. ASSUME Cancel \/ Fire PROVE StepsLeft' = StepsLeft
    <3>1. UNCHANGED <<pc, i, retries>>
      BY <2>6 DEF Cancel, Fire, config
    <3>2. Position' = Position
      BY <3>1 DEF Position
    <3> QED
      BY <3>1, <3>2 DEF StepsLeft
  <2> QED
    BY <2>4, <2>5, <2>6
<1> QED
  BY <1>1, <1>2, RetryInvariant, PTL DEF Spec

\* Do waits for nothing but a timer that runs or has fired: after a wait is begun its
\* timer is stopped only when Do gives up (client.go:147-154).
THEOREM NothingElseDelaysDo == Spec => []WakeInv
<1>1. Init => WakeInv
  BY DEF Init, WakeInv
<1>2. TypeOK /\ WakeInv /\ [Next]_vars => WakeInv'
  <2> SUFFICES ASSUME TypeOK, WakeInv, [Next]_vars PROVE WakeInv'
    OBVIOUS
  <2> USE DEF WakeInv, Goto, Finish, config, state, request
  <2>1. CASE Cancel \/ Fire
    BY <2>1 DEF Cancel, Fire
  <2>2. CASE RespondInitial \/ RespondRetry
    BY <2>2 DEF RespondInitial, RespondRetry, Respond
  <2>3. CASE Arm \/ PrepareNext
    BY <2>3 DEF Arm, PrepareNext
  <2>4. CASE Do /\ ~Arm /\ ~PrepareNext
    BY <2>4 DEF Do, ReturnInitial, ReturnRetry, WantRetry, WantAnother, CancelWait, Wake,
       GetBodyFails, Refresh, Resend, CanceledRetry
  <2>5. CASE UNCHANGED vars
    BY <2>5 DEF vars
  <2> QED
    BY <2>1, <2>2, <2>3, <2>4, <2>5 DEF Next, Do
<1> QED
  BY <1>1, <1>2, RetryInvariant, PTL DEF Spec, RetryInv

-----------------------------------------------------------------------------
(* PacedRetry *)

\* Each step of the paced Do is one of Retry or none at all.
LEMMA PacedSteps ==
  ASSUME [PacedNext]_pvars
  PROVE  [Next]_vars
<1>1. CASE Environment
  BY <1>1 DEF Environment, Next
<1>2. CASE Answer
  BY <1>2 DEF Answer, Next
<1>3. CASE PacedDo
  BY <1>3 DEF PacedDo, Another, Return, Pace, Do, Next
<1>4. CASE UNCHANGED pvars
  BY <1>4 DEF pvars
<1> QED
  BY <1>1, <1>2, <1>3, <1>4 DEF PacedNext

\* Do with its intervals and its check implements Do with any waits and any check.
THEOREM PacedImplementsRetry == PacedSpec => Spec
<1>1. PacedInit => Init
  BY DEF PacedInit
<1>2. [PacedNext]_pvars => [Next]_vars
  BY PacedSteps
<1> QED
  BY <1>1, <1>2, PTL DEF PacedSpec, Spec

\* The inductive invariant of Retry, from which its properties follow, holds of it.
THEOREM PacedInvariant == PacedSpec => []RetryInv
BY PacedImplementsRetry, RetryInvariant, PTL

-----------------------------------------------------------------------------
\* What makes an outcome retryable by the default check.
LEMMA DefaultCheckWarrants ==
  ASSUME Retryable
  PROVE  Asks \/ ("temporary" \in Said /\ "deadline" \notin Said)
<1>1. CASE answer.status \in RetryableStatus
  BY <1>1 DEF Asks, RetryableStatus
<1>2. CASE ~IsDeadline(answer.errors) /\ IsTemporary(answer.errors)
  <2>1. "deadline" \notin Said
    BY <1>2 DEF IsDeadline, Said
  <2>2. PICK k \in DOMAIN answer.errors : SaysTemporary(answer.errors[k])
    BY <1>2 DEF IsTemporary
  <2>3. answer.errors[k] \in Said
    BY DEF Said
  <2> QED
    BY <2>1, <2>2, <2>3 DEF SaysTemporary
<1> QED
  BY <1>1, <1>2 DEF Retryable, DefaultCheck

\* With the default check no attempt follows an outcome that does not warrant it.
THEOREM NoUnwarrantedRetries == PacedSpec => []NoneUnwarranted
<1>1. PacedInit => NoneUnwarranted
  BY DEF PacedInit, Init, NoneUnwarranted
<1>2. NoneUnwarranted /\ [PacedNext]_pvars => NoneUnwarranted'
  <2> SUFFICES ASSUME NoneUnwarranted, [PacedNext]_pvars PROVE NoneUnwarranted'
    OBVIOUS
  <2> USE DEF NoneUnwarranted, Asks, Said
  <2>1. CASE Another
    <3>1. check = "default" => Asks \/ ("temporary" \in Said /\ "deadline" \notin Said)
      BY <2>1, DefaultCheckWarrants DEF Another
    <3> QED
      BY <2>1, <3>1 DEF Another
  <2>2. CASE Environment \/ UNCHANGED pvars
    BY <2>2 DEF Environment, Cancel, Fire, pvars, vars
  <2>3. CASE Answer \/ Return \/ Pace
    BY <2>3 DEF Answer, RespondInitial, RespondRetry, Respond, Return, ReturnInitial,
       ReturnRetry, Finish, Pace, Arm, Goto
  <2>4. CASE PacedDo /\ ~(Another \/ Return \/ Pace)
    BY <2>4 DEF PacedDo, PrepareNext, CancelWait, Wake, GetBodyFails, Refresh, Resend,
       CanceledRetry, Finish, Goto
  <2> QED
    BY <2>1, <2>2, <2>3, <2>4 DEF PacedNext, PacedDo
<1> QED
  BY <1>1, <1>2, PTL DEF PacedSpec

-----------------------------------------------------------------------------
\* A nonempty set of numbers has a least element: what stands for induction here.
LEMMA Least ==
  ASSUME NEW T, T \subseteq Nat, T # {}
  PROVE  \E least \in T : \A n \in T : least <= n
<1> DEFINE Below == {pair \in Nat \X Nat : pair[1] < pair[2]}
<1>1. IsWellFoundedOn(Below, Nat)
  BY NatLessThanWellFounded, Zenon DEF OpToRel
<1>2. PICK least \in T : \A n \in T : ~(<<n, least>> \in Below)
  <2> HIDE DEF Below
  <2> QED
    BY <1>1, WFMin
<1>3. \A n \in T : ~(n < least) /\ n \in Nat
  BY <1>2
<1> QED
  BY <1>3

\* Giving up is warranted too: of the errors that unwrapping yields, the first
\* that has a Temporary method decides.
LEMMA DefaultCheckSuffices ==
  ASSUME answer.errors \in Seq(Kinds), ~Retryable
  PROVE  ~Asks /\ (Said \cap {"permanent", "deadline"} # {} \/ "temporary" \notin Said)
<1> DEFINE errors == answer.errors
<1>1. ~Asks
  BY DEF Retryable, DefaultCheck, RetryableStatus, Asks
<1>2. ASSUME Said \cap {"permanent", "deadline"} = {}, "temporary" \in Said
      PROVE  FALSE
  <2>1. /\ DOMAIN errors = 1..Len(errors) /\ Len(errors) \in Nat
        /\ \A k \in DOMAIN errors : errors[k] \in Kinds
    BY LenProperties, ElementOfSeq
  <2>2. \A k \in DOMAIN errors : errors[k] \in {"plain", "temporary"}
    BY <1>2, <2>1 DEF Said, Kinds
  <2> DEFINE Temporary == {k \in DOMAIN errors : errors[k] = "temporary"}
  <2>3. Temporary \subseteq Nat /\ Temporary # {}
    BY <1>2, <2>1 DEF Said
  <2>4. PICK first \in Temporary : \A k \in Temporary : first <= k
    BY <2>3, Least
  <2>5. \A k \in 1..(first - 1) : errors[k] = "plain"
    BY <2>1, <2>2, <2>3, <2>4
  <2>6. IsTemporary(errors)
    BY <2>4, <2>5 DEF IsTemporary, SaysTemporary
  <2>7. ~IsDeadline(errors)
    BY <1>2 DEF Said, IsDeadline
  <2> QED
    BY <2>6, <2>7 DEF Retryable, DefaultCheck
<1> QED
  BY <1>1, <1>2

Answered == answer.errors \in Seq(Kinds)

\* With the default check Do gives up no attempt that its answer warrants.
THEOREM NoForgoneRetries == PacedSpec => []NoneForgone
<1>1. PacedInit => NoneForgone /\ Answered
  BY EmptySeq DEF PacedInit, Init, NoneForgone, Unjudged, Answered
<1>2. RetryInv /\ NoneForgone /\ Answered /\ [PacedNext]_pvars => NoneForgone' /\ Answered'
  <2> SUFFICES ASSUME RetryInv, NoneForgone, Answered, [PacedNext]_pvars
               PROVE  NoneForgone' /\ Answered'
    OBVIOUS
  <2>1. CASE Return
    <3>1. UNCHANGED <<answer, check, bodies, retries>> /\ pc \in {"checkInitial", "checkRetry"}
      BY <2>1 DEF Return, ReturnInitial, ReturnRetry, Finish, Goto, config
    <3>2. check = "default" => Tries > retries \/ ~Retryable
      BY <2>1, <3>1 DEF Return, Exhausted, InLoop, RetryInv, LoopInv, TypeOK
    <3>3. ~Retryable => ~Asks /\ (Said \cap {"permanent", "deadline"} # {} \/ "temporary" \notin Said)
      BY DefaultCheckSuffices DEF Answered
    <3>4. Asks' = Asks /\ Said' = Said /\ Tries' = Tries
      BY <3>1 DEF Asks, Said, Tries
    <3>5. Tries \in Nat /\ retries \in Nat
      BY <3>1, RetryConstants DEF RetryInv, TypeOK, LoopInv
    <3>6. Answered'
      BY <3>1 DEF Answered
    <3>7. check' = check /\ retries' = retries
      BY <3>1
    <3>8. ASSUME check = "default", Tries <= retries
          PROVE  ~Asks /\ (Said \cap {"permanent", "deadline"} # {} \/ "temporary" \notin Said)
      BY <3>2, <3>3, <3>5, <3>8
    <3>9. NoneForgone'
      BY <3>4, <3>7, <3>8, Zenon DEF NoneForgone
    <3> QED
      BY <3>6, <3>9
  <2>2. CASE Environment \/ UNCHANGED pvars
    <3>1. UNCHANGED <<answer, check, bodies, retries, result>>
      BY <2>2 DEF Environment, Cancel, Fire, pvars, vars, config
    <3>2. Asks' = Asks /\ Said' = Said /\ Tries' = Tries
      BY <3>1 DEF Asks, Said, Tries
    <3>3. check' = check /\ retries' = retries /\ result' = result /\ answer' = answer
      BY <3>1
    <3> QED
      BY <3>2, <3>3, Zenon DEF NoneForgone, Answered
  <2>3. CASE Answer
    <3>1. pc' # "returned" /\ answer'.errors \in Errors
      BY <2>3 DEF Answer, RespondInitial, RespondRetry, Respond, Goto
    <3>2. result' = "pending"
      BY <2>3 DEF Answer, RespondInitial, RespondRetry, Respond, Goto, RetryInv, LateInv
    <3> QED
      BY <3>1, <3>2, PacedConstants DEF NoneForgone, Answered
  <2>4. CASE Pace
    BY <2>4, EmptySeq DEF Pace, Arm, Goto, Unjudged, NoneForgone, Answered, RetryInv, LateInv
  <2>5. CASE PacedDo /\ ~(Return \/ Pace)
    <3>1. UNCHANGED answer /\ result' # "response"
      BY <2>5 DEF PacedDo, Another, WantRetry, WantAnother, PrepareNext, CancelWait, Wake,
         GetBodyFails, Refresh, Resend, CanceledRetry, Finish, Goto, RetryInv, LateInv
    <3> QED
      BY <3>1 DEF NoneForgone, Answered
  <2> QED
    BY <2>1, <2>2, <2>3, <2>4, <2>5 DEF PacedNext
<1> QED
  BY <1>1, <1>2, PacedInvariant, PTL DEF PacedSpec

\* The default check retries exactly what it documents, for any number of
\* retries and any errors (check.go, DefaultCheck, and client.go, Client.Do).
THEOREM RetriesAreWarranted == PacedSpec => []OnlyWarrantedRetries
BY NoUnwarrantedRetries, NoForgoneRetries, PTL DEF OnlyWarrantedRetries

-----------------------------------------------------------------------------
(* Waits *)

\* Induction over the numbers of a set.
LEMMA Climb ==
  ASSUME NEW m \in Nat, NEW T, 0 \in T, \A k \in T : k < m => k + 1 \in T
  PROVE  \A k \in 0..m : k \in T
<1> DEFINE Bad == {k \in 0..m : k \notin T}
<1>1. SUFFICES ASSUME Bad # {} PROVE FALSE
  OBVIOUS
<1>2. PICK k \in Bad : \A l \in Bad : k <= l
  <2>1. Bad \subseteq Nat
    OBVIOUS
  <2> HIDE DEF Bad
  <2> QED
    BY <1>1, <2>1, Least
<1>3. k - 1 \in 0..m /\ ~(k <= k - 1) /\ k - 1 < m
  BY <1>2
<1>4. k - 1 \in T
  BY <1>2, <1>3
<1>5. (k - 1) + 1 \in T /\ (k - 1) + 1 = k
  BY <1>3, <1>4
<1> QED
  BY <1>5

\* What a function that is defined by recursion on a number takes on: f begins with
\* first and goes on with what step makes of each value.
Iterates(f, m, first, step) ==
  f = [k \in 0..m |-> IF k = 0 THEN first ELSE step[f[k - 1]]]

\* Such a function exists.
LEMMA IterationExists ==
  ASSUME NEW m \in Nat, NEW S, NEW first \in S, NEW step \in [S -> S]
  PROVE  \E f \in [0..m -> S] : Iterates(f, m, first, step)
<1> DEFINE T == {k \in Nat : \E f \in [0..k -> S] : Iterates(f, k, first, step)}
<1>1. 0 \in T
  <2> DEFINE f == [k \in 0..0 |-> first]
  <2>1. f \in [0..0 -> S] /\ Iterates(f, 0, first, step)
    BY DEF Iterates
  <2> QED
    BY <2>1
<1>2. ASSUME NEW k \in T PROVE k + 1 \in T
  <2>1. PICK f \in [0..k -> S] : Iterates(f, k, first, step)
    BY <1>2
  <2> DEFINE g == [l \in 0..(k + 1) |-> IF l = k + 1 THEN step[f[k]] ELSE f[l]]
  <2>2. k \in Nat /\ f[k] \in S
    BY <1>2, <2>1
  <2>3. \A l \in 0..(k + 1) : l = k + 1 \/ l \in 0..k
    BY <2>2
  <2>4. g \in [0..(k + 1) -> S]
    BY <2>1, <2>2, <2>3
  <2>5. ASSUME NEW l \in 0..(k + 1)
        PROVE  g[l] = IF l = 0 THEN first ELSE step[g[l - 1]]
    <3>1. CASE l = k + 1
      <4>1. l - 1 = k /\ k # k + 1 /\ k \in 0..(k + 1) /\ l # 0
        BY <2>2, <3>1
      <4>2. g[l - 1] = f[k]
        BY <4>1
      <4> QED
        BY <3>1, <4>1, <4>2
    <3>2. CASE l # k + 1
      <4>1. l \in 0..k /\ (l # 0 => l - 1 \in 0..k /\ l - 1 # k + 1 /\ l - 1 \in 0..(k + 1))
        BY <2>2, <2>3, <3>2
      <4>2. f[l] = IF l = 0 THEN first ELSE step[f[l - 1]]
        BY <2>1, <4>1 DEF Iterates
      <4>3. g[l] = f[l] /\ (l # 0 => g[l - 1] = f[l - 1])
        BY <3>2, <4>1
      <4> QED
        BY <4>2, <4>3
    <3> QED
      BY <3>1, <3>2
  <2>6. Iterates(g, k + 1, first, step)
    BY <2>5 DEF Iterates
  <2> QED
    BY <2>2, <2>4, <2>6
<1>3. m \in T
  <2> HIDE DEF T
  <2> QED
    BY <1>1, <1>2, Climb
<1> QED
  BY <1>3

-----------------------------------------------------------------------------
\* Products keep the order of their first factors.
LEMMA Monotone ==
  ASSUME NEW a \in Int, NEW b \in Int, NEW c \in Nat, a <= b
  PROVE  a * c <= b * c
OBVIOUS

\* The quotient of a division.
LEMMA Quotient ==
  ASSUME NEW a \in Int, NEW b \in Nat \ {0}
  PROVE  /\ a \div b \in Int
         /\ b * (a \div b) <= a
         /\ a < b * (a \div b) + b
OBVIOUS

\* Round is nearest, and not negative for what is not.
LEMMA RoundIsNearest ==
  ASSUME NEW n \in Nat, NEW d \in Nat \ {0}
  PROVE  /\ Round(n, d) \in Nat
         /\ 2 * (d * Round(n, d)) <= 2 * n + d
         /\ 2 * n - d < 2 * (d * Round(n, d))
<1> DEFINE a == 2 * n + d
           b == 2 * d
           r == a \div b
<1>1. b \in Nat \ {0} /\ a \in Nat /\ a \in Int /\ b = 2 * d /\ a = 2 * n + d
  OBVIOUS
<1>3. Round(n, d) = r
  BY DEF Round
<1> HIDE DEF a, b
<1>q. r \in Int /\ b * r <= a /\ a < b * r + b
  BY <1>1, Quotient, Zenon
<1> HIDE DEF r
<1>2. r \in Int /\ (2 * d) * r <= 2 * n + d /\ 2 * n + d < (2 * d) * r + 2 * d
  BY <1>1, <1>q
<1>4. (2 * d) * r = 2 * (d * r)
  BY <1>2
<1>5. r \in Nat
  <2>1. SUFFICES ASSUME r <= -1 PROVE FALSE
    BY <1>2
  <2>2. r * (2 * d) <= (-1) * (2 * d)
    BY <1>1, <1>2, <2>1, Monotone
  <2> QED
    BY <1>1, <1>2, <2>2
<1> QED
  BY <1>2, <1>3, <1>4, <1>5

\* Durations as Times makes them.
Quotients == [time : Nat, unit : Nat \ {0}, off : Nat]

\* What Times allows for is what rounding a product adds, and before it.
LEMMA RoundedTimes ==
  ASSUME NEW d \in Quotients, NEW f \in Nat \X (Nat \ {0}),
         NEW g \in Nat, AtLeast(d) <= 2 * (g * d.unit), 2 * (g * d.unit) <= AtMost(d)
  PROVE  LET r == Round(g * f[1], f[2])
             t == Times(d, f)
         IN  /\ t \in Quotients
             /\ r \in Nat /\ AtLeast(t) <= 2 * (r * t.unit) /\ 2 * (r * t.unit) <= AtMost(t)
<1> DEFINE p == f[1]
           q == f[2]
           r == Round(g * p, q)
<1>1. p \in Nat /\ q \in Nat \ {0} /\ d.time \in Nat /\ d.unit \in Nat \ {0} /\ d.off \in Nat
  BY DEF Quotients
<1>2. g * p \in Nat
  BY <1>1
<1>3. r \in Nat /\ 2 * (q * r) <= 2 * (g * p) + q /\ 2 * (g * p) - q < 2 * (q * r)
  BY <1>1, <1>2, RoundIsNearest
<1> HIDE DEF r, p, q
<1>4. Times(d, f) = [time |-> d.time * p, unit |-> d.unit * q, off |-> d.off * p + d.unit * q]
  BY DEF Times, p, q
<1> DEFINE T == d.time
           U == d.unit
           D == d.off
<1>5. 2 * T - D <= 2 * (g * U) /\ 2 * (g * U) <= 2 * T + D
  BY DEF AtLeast, AtMost
<1>6. T \in Nat /\ U \in Nat \ {0} /\ D \in Nat
  BY <1>1
<1>7. Times(d, f) \in Quotients
  <2>1. U * q # 0 /\ U * q \in Nat /\ T * p \in Nat /\ D * p + U * q \in Nat
    BY <1>1, <1>6
  <2> QED
    BY <1>4, <2>1 DEF Quotients
<1> HIDE DEF T, U, D
<1>8. /\ 2 * (T * p) - (D * p + U * q) <= 2 * (r * (U * q))
      /\ 2 * (r * (U * q)) <= 2 * (T * p) + (D * p + U * q)
  <2>1. (2 * (q * r)) * U <= (2 * (g * p) + q) * U /\ (2 * (g * p) - q) * U <= (2 * (q * r)) * U
    BY <1>1, <1>2, <1>3, <1>6, Monotone
  <2>2. (2 * (g * U)) * p <= (2 * T + D) * p /\ (2 * T - D) * p <= (2 * (g * U)) * p
    BY <1>1, <1>5, <1>6, Monotone
  <2>3. /\ (2 * (q * r)) * U = 2 * (r * (U * q))
        /\ (2 * (g * p) + q) * U = (2 * (g * U)) * p + U * q
        /\ (2 * (g * p) - q) * U = (2 * (g * U)) * p - U * q
        /\ (2 * T + D) * p = 2 * (T * p) + D * p
        /\ (2 * T - D) * p = 2 * (T * p) - D * p
    BY <1>1, <1>3, <1>6
  <2> QED
    BY <1>1, <1>3, <1>6, <2>1, <2>2, <2>3
<1> QED
  BY <1>3, <1>4, <1>7, <1>8 DEF AtLeast, AtMost, T, U, D, r, p, q

-----------------------------------------------------------------------------
\* A rounded product is not above its first factor if the second is at most one, and
\* not below it if that is at least one; and it grows with the factor.
LEMMA RoundShrinks ==
  ASSUME NEW g \in Nat, NEW p \in Nat, NEW q \in Nat \ {0}, p <= q
  PROVE  Round(g * p, q) <= g
<1> DEFINE r == Round(g * p, q)
<1>1. g * p \in Nat
  OBVIOUS
<1>2. r \in Nat /\ 2 * (q * r) <= 2 * (g * p) + q
  BY <1>1, RoundIsNearest
<1> HIDE DEF r
<1>3. SUFFICES ASSUME g + 1 <= r PROVE FALSE
  BY <1>2 DEF r
<1>4. p * g <= q * g /\ (g + 1) * q <= r * q
  BY <1>2, <1>3, Monotone
<1>5. p * g = g * p /\ r * q = q * r /\ (g + 1) * q = q * g + q /\ q * g \in Nat /\ q * r \in Nat
  BY <1>2
<1> QED
  BY <1>1, <1>2, <1>4, <1>5

LEMMA RoundGrows ==
  ASSUME NEW g \in Nat, NEW p \in Nat, NEW q \in Nat \ {0}, q <= p
  PROVE  g <= Round(g * p, q)
<1> DEFINE r == Round(g * p, q)
<1>1. g * p \in Nat
  OBVIOUS
<1>2. r \in Nat /\ 2 * (g * p) - q < 2 * (q * r)
  BY <1>1, RoundIsNearest
<1> HIDE DEF r
<1>3. SUFFICES ASSUME r + 1 <= g PROVE FALSE
  BY <1>2 DEF r
<1>4. q * g <= p * g /\ (r + 1) * q <= g * q
  BY <1>2, <1>3, Monotone
<1>5. /\ p * g = g * p /\ g * q = q * g /\ (r + 1) * q = q * r + q
      /\ q * g \in Nat /\ q * r \in Nat
  BY <1>2
<1> QED
  BY <1>1, <1>2, <1>4, <1>5

LEMMA RoundIsMonotone ==
  ASSUME NEW n \in Nat, NEW m \in Nat, NEW d \in Nat \ {0}, n <= m
  PROVE  Round(n, d) <= Round(m, d)
<1> DEFINE r == Round(n, d)
           s == Round(m, d)
<1>1. r \in Nat /\ s \in Nat /\ 2 * (d * r) <= 2 * n + d /\ 2 * m - d < 2 * (d * s)
  BY RoundIsNearest
<1> HIDE DEF r, s
<1>2. SUFFICES ASSUME s + 1 <= r PROVE FALSE
  BY <1>1 DEF r, s
<1>3. (s + 1) * d <= r * d
  BY <1>1, <1>2, Monotone
<1>4. (s + 1) * d = d * s + d /\ r * d = d * r /\ d * s \in Nat /\ d * r \in Nat
  BY <1>1
<1> QED
  BY <1>1, <1>3, <1>4

\* Sums that fit do not wrap; the first that does not is the smallest duration.
LEMMA WrapFits ==
  ASSUME NEW n \in Int
  PROVE  /\ n \in MinInt..MaxInt => Wrap(n) = n
         /\ n = MaxInt + 1 => Wrap(n) = MinInt
<1> DEFINE m == MaxInt - MinInt + 1
           a == n - MinInt
<1>1. m \in Nat \ {0} /\ a \in Int /\ MinInt \in Int /\ MaxInt \in Nat /\ MinInt = -MaxInt - 1
  BY IntervalConstants DEF MinInt
<1>2. Wrap(n) = (a % m) + MinInt
  BY DEF Wrap
<1>3. n \in MinInt..MaxInt => a \in 0..(m - 1)
  BY <1>1
<1>4. n = MaxInt + 1 => a = m
  BY <1>1
<1>5. n = a + MinInt
  BY <1>1
<1> HIDE DEF m, a
<1>6. a \in 0..(m - 1) => a % m = a
  BY <1>1
<1>7. a = m => a % m = 0
  BY <1>1
<1> QED
  BY <1>1, <1>2, <1>3, <1>4, <1>5, <1>6, <1>7

\* Whatever is drawn, the wait is in the window, or its lower limit.
LEMMA DrawnFromWindow ==
  ASSUME NEW lo \in 0..MaxInt, NEW hi \in 0..MaxInt,
         NEW w \in Durations([base |-> lo, jitter |-> Wrap(hi - lo + 1)])
  PROVE  w = lo \/ w \in lo..hi
<1> DEFINE j == Wrap(hi - lo + 1)
<1>1. MaxInt \in Nat /\ MinInt = -MaxInt - 1
  BY IntervalConstants DEF MinInt
<1>2. hi - lo + 1 \in MinInt..MaxInt \/ hi - lo + 1 = MaxInt + 1
  BY <1>1
<1>3. (j = hi - lo + 1 /\ j <= MaxInt) \/ j = MinInt
  BY <1>1, <1>2, WrapFits
<1> HIDE DEF j
<1>4. CASE ~(j > 0)
  BY <1>4 DEF Durations, j
<1>5. CASE j > 0
  <2>1. j = hi - lo + 1
    BY <1>1, <1>3, <1>5
  <2>2. PICK r \in Int63n(j) : w = Wrap(lo + r)
    BY <1>5 DEF Durations, j
  <2>3. j \in 1..MaxInt
    BY <1>1, <1>2, <1>3, <1>5
  <2>4. r \in 0..(j - 1)
    BY <2>2, <2>3, IntervalConstants
  <2>5. lo + r \in lo..hi /\ lo + r \in MinInt..MaxInt /\ lo + r \in Int
    BY <1>1, <2>1, <2>4
  <2> QED
    BY <2>2, <2>5, WrapFits
<1> QED
  BY <1>4, <1>5

-----------------------------------------------------------------------------
\* The first pass takes the seed and scales it, each time into a duration.
LEMMA GrowSteps ==
  ASSUME NEW c \in Configs, NEW n \in Nat
  PROVE  LET G == Grow(c, n + 1)
         IN  \A k \in 0..n : /\ G[k] = IF k = 0 THEN Seed(c) ELSE Scale(c, G[k - 1], Multiplier(c))
                             /\ G[k] \in MinInt..MaxInt
<1> DEFINE S == MinInt..MaxInt
           step == [g \in S |-> Scale(c, g, Multiplier(c))]
           G == Grow(c, n + 1)
<1>1. MaxInt \in Nat /\ MinInt \in S /\ MaxInt \in S /\ DefaultInterval \in S
  BY IntervalConstants DEF MinInt
<1>2. Seed(c) \in S
  BY <1>1, PacedConstants DEF Seed
<1>3. \A x : Convert(c.saturates, x) \in S
  BY <1>1 DEF Convert
<1>4. step \in [S -> S]
  BY <1>3 DEF Scale
<1>5. PICK f \in [0..n -> S] : Iterates(f, n, Seed(c), step)
  <2> HIDE DEF S, step
  <2> QED
    BY <1>2, <1>4, IterationExists
<1> DEFINE Body(h) == [x \in 0..(n + 1 - 1) |->
                         IF x = 0 THEN Seed(c) ELSE Scale(c, h[x - 1], Multiplier(c))]
<1>6. f = Body(f)
  <2>1. \A x \in 0..n : x # 0 => f[x - 1] \in S
    BY <1>5
  <2>2. \A x \in 0..n : x # 0 => step[f[x - 1]] = Scale(c, f[x - 1], Multiplier(c))
    BY <2>1
  <2>3. 0..(n + 1 - 1) = 0..n
    OBVIOUS
  <2>4. f = [x \in 0..n |-> IF x = 0 THEN Seed(c) ELSE step[f[x - 1]]]
    BY <1>5 DEF Iterates
  <2> HIDE DEF step, S
  <2> QED
    BY <2>2, <2>3, <2>4
<1>7. G = CHOOSE h : h = Body(h)
  BY DEF Grow
<1>8. G = Body(G)
  <2> HIDE DEF Body, G
  <2> QED
    BY <1>6, <1>7
<1>9. \A k \in 0..n : G[k] = IF k = 0 THEN Seed(c) ELSE Scale(c, G[k - 1], Multiplier(c))
  <2>1. 0..(n + 1 - 1) = 0..n
    OBVIOUS
  <2> HIDE DEF G
  <2> QED
    BY <1>8, <2>1
<1>10. \A k \in 0..n : G[k] \in S
  <2> HIDE DEF G, S
  <2> QED
    BY <1>2, <1>3, <1>9 DEF Scale
<1> QED
  BY <1>9, <1>10

\* What is promised for each retry is what is promised for the one before, scaled.
LEMMA PromisedSteps ==
  ASSUME Factor \in Nat \X (Nat \ {0}), Start \in Nat
  PROVE  \A k \in 0..MaxRetries :
           /\ Promised[k] = IF k = 0 THEN [time |-> Start, unit |-> 1, off |-> 0]
                            ELSE Times(Promised[k - 1], Factor)
           /\ Promised[k] \in Quotients
<1> DEFINE first == [time |-> Start, unit |-> 1, off |-> 0]
           step == [d \in Quotients |-> Times(d, Factor)]
<1>1. first \in Quotients
  BY DEF Quotients
<1>2. \A d \in Quotients : Times(d, Factor) \in Quotients
  <2> SUFFICES ASSUME NEW d \in Quotients PROVE Times(d, Factor) \in Quotients
    OBVIOUS
  <2>1. d.time \in Nat /\ d.unit \in Nat \ {0} /\ d.off \in Nat
    BY DEF Quotients
  <2>2. Factor[1] \in Nat /\ Factor[2] \in Nat \ {0}
    OBVIOUS
  <2>3. /\ d.time * Factor[1] \in Nat /\ d.unit * Factor[2] \in Nat \ {0}
        /\ d.off * Factor[1] + d.unit * Factor[2] \in Nat
    BY <2>1, <2>2
  <2> QED
    BY <2>3 DEF Times, Quotients
<1>3. step \in [Quotients -> Quotients]
  BY <1>2
<1>4. PICK f \in [0..MaxRetries -> Quotients] : Iterates(f, MaxRetries, first, step)
  <2> HIDE DEF first, step
  <2> QED
    BY <1>1, <1>3, IterationExists, RetryConstants
<1> DEFINE Body(h) == [k \in 0..MaxRetries |-> IF k = 0 THEN first ELSE Times(h[k - 1], Factor)]
<1>5. f = Body(f)
  <2>1. \A k \in 0..MaxRetries : k # 0 => f[k - 1] \in Quotients
    BY <1>4, RetryConstants
  <2>2. \A k \in 0..MaxRetries : k # 0 => step[f[k - 1]] = Times(f[k - 1], Factor)
    BY <2>1
  <2>3. f = [k \in 0..MaxRetries |-> IF k = 0 THEN first ELSE step[f[k - 1]]]
    BY <1>4 DEF Iterates
  <2> HIDE DEF step, first
  <2> QED
    BY <2>2, <2>3
<1>6. Promised = CHOOSE h : h = Body(h)
  BY DEF Promised
<1>7. Promised = Body(Promised)
  <2> HIDE DEF Body
  <2> QED
    BY <1>5, <1>6
<1>8. \A k \in 0..MaxRetries : Promised[k] = IF k = 0 THEN first ELSE Times(Promised[k - 1], Factor)
  <2> HIDE DEF first
  <2> QED
    BY <1>7
<1>9. \A k \in 0..MaxRetries : Promised[k] \in Quotients
  <2> DEFINE T == {k \in 0..MaxRetries : Promised[k] \in Quotients}
  <2>1. 0 \in T
    BY <1>1, <1>8, RetryConstants
  <2>2. \A k \in T : k < MaxRetries => k + 1 \in T
    <3> SUFFICES ASSUME NEW k \in T, k < MaxRetries PROVE k + 1 \in T
      OBVIOUS
    <3>1. k + 1 \in 0..MaxRetries /\ k + 1 # 0 /\ (k + 1) - 1 = k
      BY RetryConstants
    <3> HIDE DEF first
    <3>2. Promised[k + 1] = Times(Promised[k], Factor)
      BY <1>8, <3>1
    <3> QED
      BY <1>2, <3>1, <3>2
  <2>3. \A k \in 0..MaxRetries : k \in T
    <3> HIDE DEF T
    <3> QED
      BY <2>1, <2>2, Climb, RetryConstants
  <2> QED
    BY <2>3
<1> QED
  BY <1>8, <1>9

-----------------------------------------------------------------------------
\* The configuration's numbers, with what replaces those that are out of range.
LEMMA ConfiguredNumbers ==
  ASSUME cfg \in Configs
  PROVE  /\ Start \in 1..MaxInt /\ Seed(cfg) = Start
         /\ Factor \in Nat \X (Nat \ {0}) /\ Multiplier(cfg) = Factor
         /\ Jitter[1] \in Nat /\ Jitter[2] \in Nat /\ Jitter[1] < Jitter[2]
         /\ Jitter = IF Jittered(cfg) THEN cfg.jitter ELSE <<0, 1>>
<1>1. /\ cfg.interval \in MinInt..MaxInt /\ MaxInt \in Nat /\ DefaultInterval \in 1..MaxInt
      /\ cfg.multiplier \in Int \X (Nat \ {0}) /\ cfg.jitter \in Int \X (Nat \ {0})
  BY PacedConstants, IntervalConstants
<1>2. cfg.interval \in Int
  BY <1>1 DEF MinInt
<1>3. Start \in 1..MaxInt /\ Seed(cfg) = Start
  BY <1>1, <1>2 DEF Start, Seed
<1>4. Factor \in Nat \X (Nat \ {0}) /\ Multiplier(cfg) = Factor
  BY <1>1 DEF Factor, Multiplier
<1>5. cfg.jitter[1] \in Int /\ cfg.jitter[2] \in Nat \ {0}
  BY <1>1
<1>6. Jittered(cfg) <=> cfg.jitter[1] \in 1..(cfg.jitter[2] - 1)
  BY <1>5 DEF Jittered
<1>7. Jitter = IF Jittered(cfg) THEN cfg.jitter ELSE <<0, 1>>
  BY <1>6 DEF Jitter
<1>8. Jitter[1] \in Nat /\ Jitter[2] \in Nat /\ Jitter[1] < Jitter[2]
  BY <1>5, <1>7 DEF Jittered
<1> QED
  BY <1>3, <1>4, <1>7, <1>8

\* The first pass as it would be if there were no largest duration: what is rounded
\* m times, and is never above what it began or what it ended with.
Unlimited(h, m) ==
  /\ h \in [0..m -> Nat] /\ h[0] = Start
  /\ \A k \in 0..m : k # 0 => h[k] = Round(h[k - 1] * Factor[1], Factor[2])
  /\ \A k \in 0..m : h[k] <= Start \/ h[k] <= h[m]
  /\ \A k \in 0..m : /\ AtLeast(Promised[k]) <= 2 * (h[k] * Promised[k].unit)
                     /\ 2 * (h[k] * Promised[k].unit) <= AtMost(Promised[k])

LEMMA UnlimitedExists ==
  ASSUME cfg \in Configs, NEW m \in 0..MaxRetries
  PROVE  \E h : Unlimited(h, m)
<1> DEFINE step == [g \in Nat |-> Round(g * Factor[1], Factor[2])]
<1>1. /\ Factor \in Nat \X (Nat \ {0}) /\ Factor[1] \in Nat /\ Factor[2] \in Nat \ {0}
      /\ Start \in Nat /\ m \in Nat /\ MaxRetries \in Nat
  BY ConfiguredNumbers, IntervalConstants, RetryConstants
<1>2. \A g \in Nat : g * Factor[1] \in Nat
  BY <1>1
<1>3. \A g \in Nat : Round(g * Factor[1], Factor[2]) \in Nat
  BY <1>1, <1>2, RoundIsNearest
<1>4. step \in [Nat -> Nat]
  BY <1>3
<1>5. PICK h \in [0..m -> Nat] : Iterates(h, m, Start, step)
  <2> HIDE DEF step
  <2> QED
    BY <1>1, <1>4, IterationExists
<1>6. h[0] = Start
  BY <1>1, <1>5 DEF Iterates
<1>7. \A k \in 0..m : k # 0 => h[k] = Round(h[k - 1] * Factor[1], Factor[2])
  <2> SUFFICES ASSUME NEW k \in 0..m, k # 0 PROVE h[k] = Round(h[k - 1] * Factor[1], Factor[2])
    OBVIOUS
  <2>1. k - 1 \in 0..m
    BY <1>1
  <2>2. h[k - 1] \in Nat
    BY <1>5, <2>1
  <2>3. h[k] = step[h[k - 1]]
    BY <1>5 DEF Iterates
  <2> QED
    BY <2>2, <2>3
<1>8. \A k \in 0..m : h[k] <= Start \/ h[k] <= h[m]
  <2>1. CASE Factor[1] <= Factor[2]
    <3> DEFINE T == {k \in 0..m : h[k] <= Start}
    <3>1. 0 \in T
      BY <1>1, <1>6
    <3>2. \A k \in T : k < m => k + 1 \in T
      <4> SUFFICES ASSUME NEW k \in T, k < m PROVE k + 1 \in T
        OBVIOUS
      <4>1. k + 1 \in 0..m /\ k + 1 # 0 /\ (k + 1) - 1 = k /\ h[k] \in Nat /\ h[k] <= Start
        BY <1>1, <1>5
      <4>2. h[k + 1] = Round(h[k] * Factor[1], Factor[2])
        BY <1>7, <4>1
      <4>3. h[k + 1] <= h[k]
        BY <1>1, <2>1, <4>1, <4>2, RoundShrinks
      <4>4. h[k + 1] \in Nat
        BY <1>5, <4>1
      <4> QED
        BY <1>1, <4>1, <4>3, <4>4
    <3>3. \A k \in 0..m : k \in T
      <4> HIDE DEF T
      <4> QED
        BY <1>1, <3>1, <3>2, Climb
    <3> QED
      BY <3>3
  <2>2. CASE Factor[2] <= Factor[1]
    <3> DEFINE T == {k \in 0..m : h[m - k] <= h[m]}
    <3>1. 0 \in T
      <4>1. m - 0 = m /\ m \in 0..m /\ h[m] \in Nat
        BY <1>1, <1>5
      <4> QED
        BY <1>1, <4>1
    <3>2. \A k \in T : k < m => k + 1 \in T
      <4> SUFFICES ASSUME NEW k \in T, k < m PROVE k + 1 \in T
        OBVIOUS
      <4> DEFINE l == m - k
      <4>1. /\ k + 1 \in 0..m /\ l \in 0..m /\ l # 0 /\ l - 1 \in 0..m /\ m \in 0..m
            /\ m - (k + 1) = l - 1
        BY <1>1
      <4>2. h[l] \in Nat /\ h[l - 1] \in Nat /\ h[m] \in Nat /\ h[l] <= h[m]
        BY <1>5, <4>1
      <4>3. h[l] = Round(h[l - 1] * Factor[1], Factor[2])
        BY <1>7, <4>1
      <4>4. h[l - 1] <= h[l]
        BY <1>1, <2>2, <4>2, <4>3, RoundGrows
      <4>5. h[m - (k + 1)] <= h[m]
        BY <4>1, <4>2, <4>4
      <4> QED
        BY <4>1, <4>5
    <3>3. \A k \in 0..m : k \in T
      <4> HIDE DEF T
      <4> QED
        BY <1>1, <3>1, <3>2, Climb
    <3>4. ASSUME NEW k \in 0..m PROVE h[k] <= h[m]
      <4>1. m - k \in 0..m /\ m - (m - k) = k
        BY <1>1
      <4> QED
        BY <3>3, <4>1
    <3> QED
      BY <3>4
  <2> QED
    BY <1>1, <2>1, <2>2
<1>9. \A k \in 0..m : /\ AtLeast(Promised[k]) <= 2 * (h[k] * Promised[k].unit)
                      /\ 2 * (h[k] * Promised[k].unit) <= AtMost(Promised[k])
  <2> DEFINE T == {k \in 0..m : /\ AtLeast(Promised[k]) <= 2 * (h[k] * Promised[k].unit)
                                /\ 2 * (h[k] * Promised[k].unit) <= AtMost(Promised[k])}
  <2>0. \A k \in 0..m : k \in 0..MaxRetries
    BY <1>1
  <2>1. 0 \in T
    <3>1. Promised[0] = [time |-> Start, unit |-> 1, off |-> 0]
      BY <1>1, PromisedSteps
    <3> QED
      BY <1>1, <1>6, <3>1 DEF AtLeast, AtMost
  <2>2. \A k \in T : k < m => k + 1 \in T
    <3> SUFFICES ASSUME NEW k \in T, k < m PROVE k + 1 \in T
      OBVIOUS
    <3>0. k \in 0..m
      OBVIOUS
    <3>1. k + 1 \in 0..m /\ k + 1 # 0 /\ (k + 1) - 1 = k /\ h[k] \in Nat /\ k \in 0..m
      <4> HIDE DEF T
      <4>1. k + 1 \in 0..m /\ k + 1 # 0 /\ (k + 1) - 1 = k
        BY <1>1, <3>0
      <4>2. h[k] \in Nat
        BY <1>5, <3>0
      <4> QED
        BY <3>0, <4>1, <4>2
    <3>2. h[k + 1] = Round(h[k] * Factor[1], Factor[2])
      BY <1>7, <3>1
    <3>3. Promised[k] \in Quotients /\ Promised[k + 1] = Times(Promised[k], Factor)
      BY <1>1, <2>0, <3>1, PromisedSteps
    <3>4. AtLeast(Promised[k]) <= 2 * (h[k] * Promised[k].unit)
      OBVIOUS
    <3>5. 2 * (h[k] * Promised[k].unit) <= AtMost(Promised[k])
      OBVIOUS
    <3> HIDE DEF T
    <3>6. /\ AtLeast(Promised[k + 1]) <= 2 * (h[k + 1] * Promised[k + 1].unit)
          /\ 2 * (h[k + 1] * Promised[k + 1].unit) <= AtMost(Promised[k + 1])
      BY <1>1, <3>1, <3>2, <3>3, <3>4, <3>5, RoundedTimes
    <3> QED
      BY <3>1, <3>6 DEF T
  <2>3. \A k \in 0..m : k \in T
    <3> HIDE DEF T
    <3> QED
      BY <1>1, <2>1, <2>2, Climb
  <2> QED
    BY <2>3
<1> HIDE DEF step
<1>10. Unlimited(h, m)
  BY <1>5, <1>6, <1>7, <1>8, <1>9 DEF Unlimited
<1> QED
  BY <1>10

\* As long as the last one is a duration, nothing is lost to the largest one.
LEMMA GrownIsUnlimited ==
  ASSUME cfg \in Configs, NEW n \in Nat, NEW m \in 0..n, NEW h, Unlimited(h, m), h[m] <= MaxInt
  PROVE  Grow(cfg, n + 1)[m] = h[m]
<1> DEFINE G == Grow(cfg, n + 1)
           T == {k \in 0..m : G[k] = h[k]}
<1>1. \A k \in 0..n : G[k] = IF k = 0 THEN Start ELSE Scale(cfg, G[k - 1], Factor)
  <2>1. \A k \in 0..n : G[k] = IF k = 0 THEN Seed(cfg) ELSE Scale(cfg, G[k - 1], Multiplier(cfg))
    BY GrowSteps
  <2>2. Seed(cfg) = Start /\ Multiplier(cfg) = Factor
    BY ConfiguredNumbers
  <2> HIDE DEF G
  <2> QED
    BY <2>1, <2>2
<1> HIDE DEF G
<1>2. /\ h \in [0..m -> Nat] /\ h[0] = Start
      /\ \A k \in 0..m : k # 0 => h[k] = Round(h[k - 1] * Factor[1], Factor[2])
      /\ \A k \in 0..m : h[k] <= Start \/ h[k] <= h[m]
  BY DEF Unlimited
<1>3. m \in Nat /\ MaxInt \in Nat /\ Start <= MaxInt /\ Start \in Nat /\ MinInt = -MaxInt - 1
  BY ConfiguredNumbers, IntervalConstants DEF MinInt
<1>4. \A k \in 0..m : h[k] \in MinInt..MaxInt
  <2> SUFFICES ASSUME NEW k \in 0..m PROVE h[k] \in MinInt..MaxInt
    OBVIOUS
  <2>1. h[k] \in Nat /\ h[m] \in Nat /\ (h[k] <= Start \/ h[k] <= h[m])
    BY <1>2, <1>3
  <2> QED
    BY <1>3, <2>1
<1>5. 0 \in T
  BY <1>1, <1>2, <1>3
<1>6. \A k \in T : k < m => k + 1 \in T
  <2> SUFFICES ASSUME NEW k \in T, k < m PROVE k + 1 \in T
    OBVIOUS
  <2>1. k + 1 \in 0..m /\ k + 1 \in 0..n /\ k + 1 # 0 /\ (k + 1) - 1 = k
    BY <1>3
  <2>2. h[k + 1] = Round(h[k] * Factor[1], Factor[2])
    BY <1>2, <2>1
  <2>3. G[k + 1] = Scale(cfg, h[k], Factor)
    BY <1>1, <2>1
  <2>4. Scale(cfg, h[k], Factor) = Convert(cfg.saturates, h[k + 1])
    BY <2>2 DEF Scale
  <2>5. Convert(cfg.saturates, h[k + 1]) = h[k + 1]
    BY <1>4, <2>1 DEF Convert
  <2> QED
    BY <2>1, <2>3, <2>4, <2>5
<1>7. \A k \in 0..m : k \in T
  <2> HIDE DEF T
  <2> QED
    BY <1>3, <1>5, <1>6, Climb
<1>8. m \in T
  BY <1>3, <1>7
<1> QED
  BY <1>8 DEF G

\* A rounded product with the quotient of a number by itself is the number.
LEMMA RoundOne ==
  ASSUME NEW g \in Nat
  PROVE  Round(g * 1, 1) = g
<1>1. g * 1 = g
  OBVIOUS
<1>2. Round(g, 1) \in Nat /\ 2 * (1 * Round(g, 1)) <= 2 * g + 1 /\ 2 * g - 1 < 2 * (1 * Round(g, 1))
  BY RoundIsNearest
<1> QED
  BY <1>1, <1>2

\* What is drawn from an interval, given the duration g that the first pass came to.
LEMMA SecondPass ==
  ASSUME cfg \in Configs, NEW g \in 0..MaxInt, NEW w \in Durations(Spread(cfg, g)),
         NEW lo, lo = Round(g * (Jitter[2] - Jitter[1]), Jitter[2]),
         NEW hi, hi = Round(g * (Jitter[2] + Jitter[1]), Jitter[2]),
         cfg.saturates \/ hi <= MaxInt
  PROVE  w \in 0..MaxInt /\ (hi <= MaxInt => w \in lo..hi)
<1> DEFINE J1 == Jitter[1]
           J2 == Jitter[2]
<1>1. J1 \in Nat /\ J2 \in Nat \ {0} /\ J2 - J1 \in Nat /\ J2 + J1 \in Nat /\ J2 - J1 <= J2 + J1
  BY ConfiguredNumbers
<1>2. g \in Nat /\ MaxInt \in Nat /\ MinInt = -MaxInt - 1
  BY IntervalConstants DEF MinInt
<1> HIDE DEF J1, J2
<1>3. g * (J2 - J1) \in Nat /\ g * (J2 + J1) \in Nat /\ g * (J2 - J1) <= g * (J2 + J1)
  <2>1. (J2 - J1) * g <= (J2 + J1) * g
    BY <1>1, <1>2, Monotone
  <2> QED
    BY <1>1, <1>2, <2>1
<1>4. lo \in Nat /\ hi \in Nat /\ lo <= hi
  BY <1>1, <1>3, RoundIsNearest, RoundIsMonotone DEF J1, J2
<1>5. CASE Jittered(cfg)
  <2>1. Jitter = cfg.jitter
    BY <1>5, ConfiguredNumbers
  <2> DEFINE win == Window(cfg, g)
  <2>2. win[1] = Convert(cfg.saturates, lo) /\ win[2] = Convert(cfg.saturates, hi)
    BY <2>1 DEF Window, Scale
  <2>3. /\ win[1] \in 0..MaxInt /\ win[2] \in 0..MaxInt
        /\ hi <= MaxInt => win[1] = lo /\ win[2] = hi
    <3>1. CASE hi <= MaxInt
      BY <1>2, <1>4, <2>2, <3>1 DEF Convert
    <3>2. CASE ~(hi <= MaxInt)
      <4>1. cfg.saturates /\ hi > 0 /\ hi \notin MinInt..MaxInt
        BY <1>2, <1>4, <3>2
      <4>2. win[2] = MaxInt
        BY <2>2, <4>1 DEF Convert
      <4>3. lo \in MinInt..MaxInt \/ lo > 0
        BY <1>2, <1>4
      <4>4. (win[1] = lo /\ lo \in 0..MaxInt) \/ win[1] = MaxInt
        BY <1>2, <1>4, <2>2, <4>1, <4>3 DEF Convert
      <4> QED
        BY <1>2, <3>2, <4>2, <4>4
    <3> QED
      BY <3>1, <3>2
  <2>4. w \in Durations([base |-> win[1], jitter |-> Wrap(win[2] - win[1] + 1)])
    BY <1>5 DEF Spread
  <2> HIDE DEF win
  <2>5. w = win[1] \/ w \in win[1]..win[2]
    BY <2>3, <2>4, DrawnFromWindow
  <2> QED
    BY <1>2, <1>4, <2>3, <2>5
<1>6. CASE ~Jittered(cfg)
  <2>1. Spread(cfg, g) = [base |-> g, jitter |-> 0]
    BY <1>6 DEF Spread
  <2>2. w = g
    BY <2>1 DEF Durations
  <2>3. Jitter = <<0, 1>>
    BY <1>6, ConfiguredNumbers
  <2>4. lo = Round(g * 1, 1) /\ hi = Round(g * 1, 1)
    BY <2>3
  <2>5. lo = g /\ hi = g
    BY <1>2, <2>4, RoundOne
  <2> QED
    BY <1>2, <2>2, <2>5
<1> QED
  BY <1>5, <1>6

\* What may be waited in a pass of the loop.
LEMMA WaitFits ==
  ASSUME cfg \in Configs, NEW n \in 1..MaxRetries, i \in 0..(n - 1),
         NEW w \in Durations(NewIntervals(cfg, n)[i])
  PROVE  /\ Representable => /\ w \in Nat
                             /\ 2 * w * Longest.unit \in AtLeast(Shortest)..AtMost(Longest)
         /\ cfg.saturates => w \in Nat
<1> DEFINE g == Grow(cfg, n)[i]
           lowest  == <<Jitter[2] - Jitter[1], Jitter[2]>>
           highest == <<Jitter[2] + Jitter[1], Jitter[2]>>
<1>1. /\ n - 1 \in Nat /\ (n - 1) + 1 = n /\ i \in 0..(n - 1) /\ i \in 0..MaxRetries /\ i \in Nat
      /\ MaxInt \in Nat /\ MinInt = -MaxInt - 1
  BY RetryConstants, IntervalConstants DEF MinInt
<1>2. w \in Durations(Spread(cfg, g))
  BY DEF NewIntervals
<1>3. lowest \in Nat \X (Nat \ {0}) /\ highest \in Nat \X (Nat \ {0})
  BY ConfiguredNumbers
<1>4. Promised[i] \in Quotients
  <2>1. Factor \in Nat \X (Nat \ {0}) /\ Start \in Nat
    BY ConfiguredNumbers
  <2> QED
    BY <1>1, <2>1, PromisedSteps
<1>5. lowest[1] = Jitter[2] - Jitter[1] /\ highest[1] = Jitter[2] + Jitter[1]
      /\ lowest[2] = Jitter[2] /\ highest[2] = Jitter[2]
  OBVIOUS
<1>6. Shortest = Times(Promised[i], lowest) /\ Longest = Times(Promised[i], highest)
  BY DEF Shortest, Longest
<1>7. Shortest.unit = Longest.unit
  BY <1>5, <1>6 DEF Times
<1>8. ASSUME Representable PROVE w \in Nat /\ 2 * w * Longest.unit \in AtLeast(Shortest)..AtMost(Longest)
  <2>1. PICK h : Unlimited(h, i)
    BY <1>1, UnlimitedExists
  <2> DEFINE lo == Round(h[i] * (Jitter[2] - Jitter[1]), Jitter[2])
             hi == Round(h[i] * (Jitter[2] + Jitter[1]), Jitter[2])
             u  == Longest.unit
  <2>2. h[i] \in Nat /\ AtLeast(Promised[i]) <= 2 * (h[i] * Promised[i].unit)
        /\ 2 * (h[i] * Promised[i].unit) <= AtMost(Promised[i])
    BY <1>1, <2>1 DEF Unlimited
  <2> HIDE DEF lowest, highest
  <2>3. Shortest \in Quotients /\ lo \in Nat /\ AtLeast(Shortest) <= 2 * (lo * Shortest.unit)
    BY <1>3, <1>4, <1>5, <1>6, <2>2, RoundedTimes
  <2>4. Longest \in Quotients /\ hi \in Nat /\ 2 * (hi * Longest.unit) <= AtMost(Longest)
    BY <1>3, <1>4, <1>5, <1>6, <2>2, RoundedTimes
  <2>5. u \in Nat /\ 0 < u /\ AtMost(Longest) <= 2 * MaxInt * u
    BY <1>8, <2>4 DEF Representable, Quotients
  <2>6. AtLeast(Shortest) \in Int /\ AtMost(Longest) \in Int
    BY <2>3, <2>4 DEF Quotients, AtLeast, AtMost
  <2> HIDE DEF lo, hi, u
  <2>7. hi <= MaxInt
    <3>1. SUFFICES ASSUME MaxInt + 1 <= hi PROVE FALSE
      BY <1>1, <2>4
    <3>2. (MaxInt + 1) * u <= hi * u
      BY <1>1, <2>4, <2>5, <3>1, Monotone
    <3>3. (MaxInt + 1) * u = MaxInt * u + u /\ MaxInt * u \in Nat /\ hi * u \in Nat /\ 2 * MaxInt * u = 2 * (MaxInt * u)
      BY <1>1, <2>4, <2>5
    <3>4. 2 * (hi * u) <= 2 * (MaxInt * u)
      BY <2>4, <2>5, <2>6, <3>3 DEF u
    <3> QED
      BY <2>5, <3>2, <3>3, <3>4
  <2>8. h[i] <= MaxInt
    <3>1. Jitter[2] \in Nat \ {0} /\ Jitter[2] + Jitter[1] \in Nat /\ Jitter[2] <= Jitter[2] + Jitter[1]
      BY ConfiguredNumbers
    <3>2. h[i] <= hi
      BY <2>2, <3>1, RoundGrows DEF hi
    <3> QED
      BY <1>1, <2>2, <2>4, <2>7, <3>2
  <2>9. g = h[i]
    BY <1>1, <2>1, <2>8, GrownIsUnlimited
  <2> HIDE DEF g
  <2>10. g \in 0..MaxInt
    BY <1>1, <2>2, <2>8, <2>9
  <2>11. lo = Round(g * (Jitter[2] - Jitter[1]), Jitter[2]) /\ hi = Round(g * (Jitter[2] + Jitter[1]), Jitter[2])
    BY <2>9 DEF lo, hi
  <2>12. w \in lo..hi
    BY <1>2, <2>7, <2>10, <2>11, SecondPass
  <2>13. w \in Nat /\ lo <= w /\ w <= hi
    BY <2>3, <2>4, <2>12
  <2>14. lo * u <= w * u /\ w * u <= hi * u
    BY <2>3, <2>4, <2>5, <2>13, Monotone
  <2>15. 2 * w * u = 2 * (w * u) /\ w * u \in Nat /\ lo * u \in Nat /\ hi * u \in Nat
    BY <2>3, <2>4, <2>5, <2>13
  <2>16. AtLeast(Shortest) <= 2 * (lo * u) /\ 2 * (hi * u) <= AtMost(Longest)
    BY <1>7, <2>3, <2>4 DEF u
  <2>17. 2 * w * u \in AtLeast(Shortest)..AtMost(Longest)
    BY <2>6, <2>14, <2>15, <2>16
  <2> QED
    BY <2>13, <2>17 DEF u
<1>9. ASSUME cfg.saturates PROVE w \in Nat
  <2> DEFINE G == Grow(cfg, (n - 1) + 1)
             T == {k \in 0..(n - 1) : G[k] \in 0..MaxInt}
  <2>1. \A k \in 0..(n - 1) : G[k] = IF k = 0 THEN Start ELSE Scale(cfg, G[k - 1], Factor)
    BY <1>1, GrowSteps, ConfiguredNumbers
  <2>2. G[i] = g
    BY <1>1
  <2> HIDE DEF G
  <2>3. 0 \in T
    BY <1>1, <2>1, ConfiguredNumbers
  <2>4. \A k \in T : k < n - 1 => k + 1 \in T
    <3> SUFFICES ASSUME NEW k \in T, k < n - 1 PROVE k + 1 \in T
      OBVIOUS
    <3>1. k + 1 \in 0..(n - 1) /\ k + 1 # 0 /\ (k + 1) - 1 = k /\ G[k] \in Nat
      BY <1>1
    <3>2. G[k + 1] = Convert(cfg.saturates, Round(G[k] * Factor[1], Factor[2]))
      BY <2>1, <3>1 DEF Scale
    <3>3. Factor[1] \in Nat /\ Factor[2] \in Nat \ {0}
      BY ConfiguredNumbers
    <3>4. Round(G[k] * Factor[1], Factor[2]) \in Nat
      <4>1. G[k] * Factor[1] \in Nat
        BY <3>1, <3>3
      <4> QED
        BY <3>3, <4>1, RoundIsNearest
    <3>5. G[k + 1] \in 0..MaxInt
      BY <1>1, <1>9, <3>2, <3>4 DEF Convert
    <3> QED
      BY <3>1, <3>5
  <2>5. \A k \in 0..(n - 1) : k \in T
    <3> HIDE DEF T
    <3> QED
      BY <1>1, <2>3, <2>4, Climb
  <2>6. g \in 0..MaxInt
    BY <1>1, <2>2, <2>5
  <2> HIDE DEF g
  <2>7. w \in 0..MaxInt
    BY <1>2, <1>9, <2>6, SecondPass
  <2> QED
    BY <1>1, <2>7
<1> QED
  BY <1>8, <1>9

\* The intervals are computed once, and each wait is drawn from that of its pass
\* (client.go, New and Client.Do).
THEOREM WaitsComeFromConfig == PacedSpec => []WaitInv
<1>1. PacedInit => WaitInv
  BY DEF PacedInit, Init, WaitInv, Paced
<1>2. WaitInv /\ [PacedNext]_pvars => WaitInv'
  <2> SUFFICES ASSUME WaitInv, [PacedNext]_pvars PROVE WaitInv'
    OBVIOUS
  <2> USE DEF WaitInv, Paced, config
  <2>1. CASE Pace
    BY <2>1 DEF Pace, Arm, Goto
  <2>2. CASE Another \/ Return
    BY <2>2 DEF Another, WantRetry, WantAnother, Return, ReturnInitial, ReturnRetry, Finish, Goto
  <2>3. CASE Answer
    BY <2>3 DEF Answer, RespondInitial, RespondRetry, Respond, Goto
  <2>4. CASE Environment \/ UNCHANGED pvars
    BY <2>4 DEF Environment, Cancel, Fire, pvars, vars
  <2>5. CASE PacedDo /\ ~(Another \/ Return \/ Pace)
    BY <2>5 DEF PacedDo, PrepareNext, CancelWait, Wake, GetBodyFails, Refresh, Resend,
       CanceledRetry, Finish, Goto
  <2> QED
    BY <2>1, <2>2, <2>3, <2>4, <2>5 DEF PacedNext, PacedDo
<1> QED
  BY <1>1, <1>2, PTL DEF PacedSpec

\* What both of the properties follow from.
LEMMA PacedWaits ==
  ASSUME RetryInv, WaitInv
  PROVE  WaitsAsConfigured /\ WaitsNotNegative
<1> SUFFICES ASSUME Paced PROVE WaitsAsConfigured /\ WaitsNotNegative
  BY DEF WaitsAsConfigured, WaitsNotNegative
<1>t. i \in 0..retries /\ retries \in 0..MaxRetries /\ MaxRetries \in Nat
  BY RetryConstants DEF RetryInv, TypeOK
<1>l. i < retries
  <2>1. pc \in {"arm", "prepare"} \cup Waking
    BY DEF Paced, Waking, Sending
  <2> QED
    BY <2>1 DEF RetryInv, LoopInv
<1>1. i \in 0..retries /\ i < retries /\ retries \in 0..MaxRetries /\ MaxRetries \in Nat
  BY <1>t, <1>l
<1>2. retries \in 1..MaxRetries /\ i \in 0..(retries - 1)
  BY <1>1
<1>3. cfg \in Configs /\ wait \in Durations(NewIntervals(cfg, retries)[i])
  BY DEF WaitInv
<1>4. /\ Representable => /\ wait \in Nat
                          /\ 2 * wait * Longest.unit \in AtLeast(Shortest)..AtMost(Longest)
      /\ cfg.saturates => wait \in Nat
  BY <1>2, <1>3, WaitFits
<1>5. WaitsAsConfigured
  BY <1>4 DEF WaitsAsConfigured
<1>6. wait < 0 => wait \notin Nat
  OBVIOUS
<1>7. WaitsNotNegative
  BY <1>4, <1>6 DEF WaitsNotNegative
<1> QED
  BY <1>5, <1>7
\* For any configuration, each wait is the exponential one, jitter included, but for
\* rounding, as long as that is a duration (config.go:31-38 and intervals.go).
THEOREM WaitsAreAsConfigured == PacedSpec => []WaitsAsConfigured
BY PacedWaits, PacedInvariant, WaitsComeFromConfig, PTL

\* For any configuration, no wait is negative unless it has left the range of
\* durations where conversions do not saturate (intervals.go:73-76).
THEOREM WaitsAreNotNegative == PacedSpec => []WaitsNotNegative
BY PacedWaits, PacedInvariant, WaitsComeFromConfig, PTL

-----------------------------------------------------------------------------
(* Exchange *)

\* Each step of the exchange is one of Retry or leaves it alone.
LEMMA ExchangeSteps ==
  ASSUME [ExchangeNext]_xvars
  PROVE  [Next]_vars
<1>1. CASE Respond200 \/ Fail
  BY <1>1 DEF Respond200, Fail, Over, Next
<1>2. CASE Decorate \/ Send \/ (\E elsewhere \in BOOLEAN : Redirect(elsewhere))
  BY <1>2 DEF Decorate, Send, Redirect
<1>3. CASE Cancel \/ Fire \/ Do
  BY <1>3 DEF Next
<1>4. CASE UNCHANGED xvars
  BY <1>4 DEF xvars
<1> QED
  BY <1>1, <1>2, <1>3, <1>4 DEF ExchangeNext

\* The exchange implements Retry, whose decorated client it is.
THEOREM ExchangeImplementsRetry == ExchangeSpec => Spec
<1>1. ExchangeInit => Init
  BY DEF ExchangeInit
<1>2. [ExchangeNext]_xvars => [Next]_vars
  BY ExchangeSteps
<1> QED
  BY <1>1, <1>2, PTL DEF ExchangeSpec, Spec

-----------------------------------------------------------------------------
(* The bound on requests *)

Headers == [Names -> Nat]

HeaderTypes ==
  /\ shared \in Headers /\ initial \in Headers /\ current \in Headers
  /\ sent \in Seq(Headers)

\* The most requests of one attempt.
Limit == IF max < 1 THEN 1 ELSE max

\* Requests are counted by the attempt: those before it made Limit each at most,
\* and it is over when it has made as many itself.
CountInv ==
  /\ stage \in {"idle", "sending", "sent"}
  /\ max \in Int /\ total \in Nat
  /\ stage # "idle" => pc \in {"initial", "resent"}
  /\ stage = "sent" => Len(sent) >= 1
  /\ Uses("max") =>
       /\ Len(sent) <= Limit
       /\ stage = "sending" => Len(sent) < Limit
       /\ stage = "idle" => total <= Tries * Limit
       /\ stage # "idle" => total <= Tries * Limit + Len(sent)

LEMMA ModifyTypes ==
  ASSUME NEW mode, NEW dst \in Headers, NEW names
  PROVE  Modify(mode, dst, names) \in Headers
BY DEF Modify, SetTo, AddTo, Headers

LEMMA CopyTypes ==
  ASSUME NEW header \in Headers, sent \in Seq(Headers), Len(sent) >= 1
  PROVE  CopyHeaders(header, sent) \in Headers
<1>1. Len(sent) \in 1..Len(sent)
  BY LenProperties
<1>2. sent[Len(sent)] \in Headers
  BY <1>1, ElementOfSeq
<1> QED
  BY <1>2 DEF CopyHeaders, Headers

\* MaxRedirects ends an attempt, next to whatever other checks.
LEMMA AllowedIsBelow ==
  ASSUME Uses("max"), Allowed(sent), max \in Int, Len(sent) \in Nat
  PROVE  Len(sent) < Limit
<1>1. PICK k \in DOMAIN checks : checks[k] = "max"
  BY DEF Uses
<1>2. k \in Given
  BY <1>1 DEF Given
<1>3. ~Reached(sent, max)
  BY <1>1, <1>2 DEF Allowed
<1> QED
  BY <1>3 DEF Reached, Limit

\* Do and its environment wait while an attempt is under way, and open no body.
LEMMA DoKeepsTries ==
  ASSUME RetryInv, Cancel \/ Fire \/ Do
  PROVE  Tries' = Tries /\ (pc \in {"initial", "resent"} => pc' = pc)
<1>1. bodies \in Seq(Bodies)
  BY DEF RetryInv, TypeOK, Bodies
<1>2. bodies' = bodies \/ bodies' = Close(bodies)
  BY DEF Cancel, Fire, Do, ReturnInitial, ReturnRetry, WantRetry, WantAnother, Arm, PrepareNext,
     CancelWait, Wake, GetBodyFails, Refresh, Resend, CanceledRetry
<1>3. Len(bodies') = Len(bodies)
  BY <1>1, <1>2, CloseLast
<1>4. pc \in {"initial", "resent"} => pc' = pc
  BY DEF Cancel, Fire, Do, ReturnInitial, ReturnRetry, WantRetry, WantAnother, Arm, PrepareNext,
     CancelWait, Wake, GetBodyFails, Refresh, Resend, CanceledRetry, Finish, Goto
<1> QED
  BY <1>3, <1>4 DEF Tries

\* An attempt that is over counts as one more.
LEMMA OverAddsATry ==
  ASSUME RetryInv, Respond200 \/ Fail
  PROVE  Tries' = Tries + 1
<1>1. bodies \in Seq(Bodies)
  BY DEF RetryInv, TypeOK, Bodies
<1>2. PICK b \in Bodies : bodies' = Append(bodies, b)
  BY DEF Respond200, Fail, Bodies
<1> QED
  BY <1>1, <1>2, AppendBody DEF Tries

-----------------------------------------------------------------------------

LEMMA StartCounts == ExchangeInit => HeaderTypes /\ CountInv
<1> SUFFICES ASSUME ExchangeInit PROVE HeaderTypes /\ CountInv
  OBVIOUS
<1>1. HeaderTypes
  BY EmptySeq DEF ExchangeInit, HeaderTypes, Headers, Own
<1>2. max \in Int
  BY ExchangeConstants DEF ExchangeInit
<1>3. Tries = 0 /\ Len(sent) = 0 /\ total = 0 /\ stage = "idle"
  BY EmptySeq DEF ExchangeInit, Init, Tries
<1> QED
  BY <1>1, <1>2, <1>3 DEF CountInv, Limit

LEMMA DecorateCounts ==
  ASSUME RetryInv, HeaderTypes, CountInv, Decorate
  PROVE  HeaderTypes' /\ CountInv'
<1>1. shared' \in Headers /\ initial' = shared' /\ current' = shared' /\ sent' = <<>>
  BY ModifyTypes DEF Decorate, HeaderTypes
<1>2. sent' \in Seq(Headers) /\ Len(sent') = 0
  BY <1>1, EmptySeq
<1>3. /\ pc' = pc /\ pc \in {"initial", "resent"} /\ stage = "idle" /\ stage' = "sending"
      /\ total' = total /\ max' = max /\ checks' = checks /\ Tries' = Tries
  BY DEF Decorate, vars, options, Tries
<1>4. HeaderTypes'
  BY <1>1, <1>2 DEF HeaderTypes
<1>5. Limit' = Limit /\ (Uses("max"))' = Uses("max")
  BY <1>3 DEF Limit, Uses
<1>6. Limit \in Nat /\ Limit >= 1 /\ Tries \in Nat
  BY LenProperties DEF Limit, CountInv, RetryInv, TypeOK, Tries
<1>7. Tries * Limit + 0 = Tries * Limit
  BY <1>6
<1> QED
  BY <1>2, <1>3, <1>4, <1>5, <1>6, <1>7 DEF CountInv

LEMMA SendCounts ==
  ASSUME RetryInv, HeaderTypes, CountInv, Send
  PROVE  HeaderTypes' /\ CountInv'
<1> DEFINE made == Modify(modes["transport"], current, TransportNames)
<1>1. made \in Headers
  BY ModifyTypes DEF HeaderTypes
<1>2. sent' = Append(sent, made) /\ sent \in Seq(Headers)
  BY DEF Send, HeaderTypes
<1> HIDE DEF made
<1>3. sent' \in Seq(Headers) /\ Len(sent') = Len(sent) + 1 /\ Len(sent) \in Nat
  BY <1>1, <1>2, AppendProperties, LenProperties
<1>4. sent = <<>> => sent'[1] = made
  BY <1>1, <1>2, AppendProperties, EmptySeq
<1>5. HeaderTypes'
  BY <1>1, <1>3, <1>4 DEF Send, HeaderTypes
<1>6. /\ pc' = pc /\ stage = "sending" /\ stage' = "sent"
      /\ total' = total + 1 /\ max' = max /\ checks' = checks /\ Tries' = Tries
  BY DEF Send, vars, options, Tries
<1>7. Limit' = Limit /\ (Uses("max"))' = Uses("max")
  BY <1>6 DEF Limit, Uses
<1>8. Limit \in Nat /\ Tries \in Nat
  BY LenProperties DEF Limit, CountInv, RetryInv, TypeOK, Tries
<1>9. Tries * Limit \in Nat
  BY <1>8
<1> QED
  BY <1>3, <1>5, <1>6, <1>7, <1>8, <1>9 DEF CountInv

LEMMA RedirectCounts ==
  ASSUME RetryInv, HeaderTypes, CountInv, NEW elsewhere \in BOOLEAN, Redirect(elsewhere)
  PROVE  HeaderTypes' /\ CountInv'
<1>1. Len(sent) >= 1 /\ Len(sent) \in Nat /\ sent \in Seq(Headers)
  BY LenProperties DEF Redirect, CountInv, HeaderTypes
<1> DEFINE header == [n \in Names |-> IF stripped' /\ n \in Sensitive THEN 0 ELSE initial[n]]
<1>2. header \in Headers
  BY DEF HeaderTypes, Headers
<1>3. current' = IF Uses("copy") THEN CopyHeaders(header, sent) ELSE header
  BY DEF Redirect
<1> HIDE DEF header
<1>4. current' \in Headers
  BY <1>1, <1>2, <1>3, CopyTypes
<1>5. HeaderTypes'
  BY <1>4 DEF Redirect, HeaderTypes
<1>6. /\ pc' = pc /\ stage = "sent" /\ stage' = "sending" /\ sent' = sent
      /\ total' = total /\ max' = max /\ checks' = checks /\ Tries' = Tries
  BY DEF Redirect, vars, options, Tries
<1>7. Limit' = Limit /\ (Uses("max"))' = Uses("max")
  BY <1>6 DEF Limit, Uses
<1>8. Uses("max") => Len(sent) < Limit
  BY <1>1, AllowedIsBelow DEF Redirect, CountInv
<1> QED
  BY <1>1, <1>5, <1>6, <1>7, <1>8 DEF CountInv

LEMMA OverCounts ==
  ASSUME RetryInv, HeaderTypes, CountInv, Respond200 \/ Fail
  PROVE  HeaderTypes' /\ CountInv'
<1>1. Tries' = Tries + 1
  BY OverAddsATry
<1>2. HeaderTypes'
  BY DEF Respond200, Fail, Over, HeaderTypes
<1>3. /\ stage = "sent" /\ stage' = "idle" /\ sent' = sent
      /\ total' = total /\ max' = max /\ checks' = checks
  BY DEF Respond200, Fail, Over, options
<1>4. Limit' = Limit /\ (Uses("max"))' = Uses("max")
  BY <1>3 DEF Limit, Uses
<1>5. Limit \in Nat /\ Tries \in Nat
  BY LenProperties DEF Limit, CountInv, RetryInv, TypeOK, Tries
<1>6. (Tries + 1) * Limit = Tries * Limit + Limit /\ Tries * Limit \in Nat
  BY <1>5
<1>7. Uses("max") => total <= (Tries + 1) * Limit
  BY <1>3, <1>5, <1>6 DEF CountInv
<1> QED
  BY <1>1, <1>2, <1>3, <1>4, <1>7 DEF CountInv

LEMMA DoCounts ==
  ASSUME RetryInv, HeaderTypes, CountInv,
         Cancel \/ Fire \/ Do, UNCHANGED <<options, exchange>>
  PROVE  HeaderTypes' /\ CountInv'
<1>1. HeaderTypes'
  BY DEF exchange, HeaderTypes
<1>2. Tries' = Tries /\ (pc \in {"initial", "resent"} => pc' = pc)
  BY DoKeepsTries
<1>3. stage' = stage /\ sent' = sent /\ total' = total /\ max' = max /\ checks' = checks
  BY DEF exchange, options
<1> QED
  BY <1>1, <1>2, <1>3 DEF CountInv, Limit, Uses

\* Each kind of step keeps count of the requests sent.
LEMMA StepCounts ==
  ASSUME RetryInv, HeaderTypes /\ CountInv, [ExchangeNext]_xvars
  PROVE  HeaderTypes' /\ CountInv'
<1>1. CASE UNCHANGED xvars
  BY <1>1 DEF xvars, vars, options, exchange, HeaderTypes, CountInv, Limit, Uses, Tries
<1>2. CASE Decorate
  BY <1>2, DecorateCounts
<1>3. CASE Send
  BY <1>3, SendCounts
<1>4. CASE Respond200 \/ Fail
  BY <1>4, OverCounts
<1>5. CASE \E elsewhere \in BOOLEAN : Redirect(elsewhere)
  BY <1>5, RedirectCounts
<1>6. CASE (Cancel \/ Fire \/ Do) /\ UNCHANGED <<options, exchange>>
  BY <1>6, DoCounts
<1> QED
  BY <1>1, <1>2, <1>3, <1>4, <1>5, <1>6 DEF ExchangeNext

THEOREM ExchangeInvariant == ExchangeSpec => [](RetryInv /\ HeaderTypes /\ CountInv)
<1>1. ExchangeSpec => []RetryInv
  BY ExchangeImplementsRetry, RetryInvariant, PTL
<1>2. ExchangeInit => HeaderTypes /\ CountInv
  BY StartCounts
<1>3. RetryInv /\ (HeaderTypes /\ CountInv) /\ [ExchangeNext]_xvars => (HeaderTypes /\ CountInv)'
  BY StepCounts
<1> QED
  BY <1>1, <1>2, <1>3, PTL DEF ExchangeSpec

\* With MaxRedirects a server is sent no more requests than its limit allows, by
\* one attempt and by all of them together.
THEOREM RequestsAreBounded == ExchangeSpec => []RequestsBounded
<1>1. RetryInv /\ HeaderTypes /\ CountInv => RequestsBounded
  <2> SUFFICES ASSUME RetryInv, CountInv, Uses("max")
               PROVE  Len(sent) <= Limit /\ total <= (1 + retries) * Limit
    BY DEF RequestsBounded, Limit
  <2>1. Limit \in Nat /\ Tries \in Nat /\ retries \in Nat /\ total \in Nat
    BY LenProperties, RetryConstants DEF Limit, CountInv, RetryInv, TypeOK, Tries
  <2>2. Tries <= 1 + retries /\ (stage # "idle" => Tries + 1 <= 1 + retries)
    BY <2>1 DEF RetryInv, LoopInv, CountInv, Waking, Sending, TypeOK
  <2>3. \A a, b \in Nat : a <= b => a * Limit <= b * Limit
    BY <2>1
  <2>4. (Tries + 1) * Limit = Tries * Limit + Limit
    BY <2>1
  <2>5. CASE stage = "idle"
    <3>1. total <= Tries * Limit /\ Tries * Limit <= (1 + retries) * Limit
      BY <2>1, <2>2, <2>3, <2>5 DEF CountInv
    <3>2. Tries * Limit \in Nat /\ (1 + retries) * Limit \in Nat
      BY <2>1
    <3> QED
      BY <2>1, <3>1, <3>2 DEF CountInv
  <2>6. CASE stage # "idle"
    <3>1. total <= (Tries + 1) * Limit
      BY <2>1, <2>4, <2>6 DEF CountInv
    <3>2. (Tries + 1) * Limit <= (1 + retries) * Limit
      BY <2>1, <2>2, <2>3, <2>6
    <3>3. (Tries + 1) * Limit \in Nat /\ (1 + retries) * Limit \in Nat
      BY <2>1
    <3> QED
      BY <2>1, <3>1, <3>2, <3>3 DEF CountInv
  <2> QED
    BY <2>5, <2>6
<1> QED
  BY <1>1, ExchangeInvariant, PTL

-----------------------------------------------------------------------------
(* Headers that are copied on redirects *)

OptionTypes ==
  /\ copied \subseteq Names
  /\ modes \in [{"client", "transport"} -> {"SetTo", "AddTo"}]

Copying(n) == Uses("copy") /\ n \in copied

\* The next request has what was copied into it from the latest one.
FollowInv ==
  stage = "sending" /\ sent # <<>> =>
    \A n \in Names : Copying(n) /\ sent[Len(sent)][n] > 0 => current[n] = sent[Len(sent)][n]

LEMMA OptionsTyped == ExchangeSpec => []OptionTypes
<1>1. ExchangeInit => OptionTypes
  BY DEF ExchangeInit, OptionTypes
<1>2. OptionTypes /\ [ExchangeNext]_xvars => OptionTypes'
  <2> SUFFICES ASSUME OptionTypes, [ExchangeNext]_xvars PROVE OptionTypes'
    OBVIOUS
  <2>1. UNCHANGED options
    BY DEF ExchangeNext, Decorate, Send, Redirect, Respond200, Fail, Over, xvars
  <2> QED
    BY <2>1 DEF OptionTypes, options
<1> QED
  BY <1>1, <1>2, PTL DEF ExchangeSpec

\* The step that sends, in the terms in which what it sends matters.
LEMMA SendAppends ==
  ASSUME HeaderTypes, Send
  PROVE  /\ sent' = Append(sent, Modify(modes["transport"], current, TransportNames))
         /\ Modify(modes["transport"], current, TransportNames) \in Headers
         /\ Len(sent') = Len(sent) + 1 /\ Len(sent) \in Nat
         /\ sent'[Len(sent')] = Modify(modes["transport"], current, TransportNames)
         /\ \A k \in 1..Len(sent) : sent'[k] = sent[k]
<1> DEFINE made == Modify(modes["transport"], current, TransportNames)
<1>1. made \in Headers
  BY ModifyTypes DEF HeaderTypes
<1>2. sent' = Append(sent, made) /\ sent \in Seq(Headers)
  BY DEF Send, HeaderTypes
<1> HIDE DEF made
<1>3. /\ Len(sent') = Len(sent) + 1 /\ Len(sent) \in Nat
      /\ sent'[Len(sent')] = made
      /\ \A k \in 1..Len(sent) : sent'[k] = sent[k]
  BY <1>1, <1>2, AppendProperties, LenProperties
<1> QED
  BY <1>1, <1>2, <1>3 DEF made

LEMMA FollowStep ==
  ASSUME HeaderTypes, FollowInv, [ExchangeNext]_xvars
  PROVE  FollowInv'
<1>1. CASE stage' # "sending" \/ sent' = <<>>
  BY <1>1 DEF FollowInv
<1>2. CASE UNCHANGED <<options, stage, sent, current>>
  BY <1>2 DEF FollowInv, Copying, Uses, options
<1>3. CASE \E elsewhere \in BOOLEAN : Redirect(elsewhere)
  <2>1. sent' = sent /\ checks' = checks /\ copied' = copied
    BY <1>3 DEF Redirect, options
  <2>2. SUFFICES ASSUME NEW n \in Names, Copying(n), sent[Len(sent)][n] > 0
                 PROVE  current'[n] = sent[Len(sent)][n]
    BY <2>1 DEF FollowInv, Copying, Uses
  <2>3. PICK header : current' = CopyHeaders(header, sent)
    BY <1>3, <2>2 DEF Redirect, Copying
  <2> QED
    BY <2>2, <2>3 DEF CopyHeaders, Copying
<1> QED
  BY <1>1, <1>2, <1>3 DEF ExchangeNext, Decorate, Send, Respond200, Fail, Over, xvars, exchange

THEOREM Following == ExchangeSpec => []FollowInv
<1>1. ExchangeInit => FollowInv
  BY DEF ExchangeInit, FollowInv
<1>2. (RetryInv /\ HeaderTypes /\ CountInv) /\ FollowInv /\ [ExchangeNext]_xvars => FollowInv'
  BY FollowStep
<1> QED
  BY <1>1, <1>2, ExchangeInvariant, PTL DEF ExchangeSpec

\* The headers named to CopyHeadersOnRedirect are in each redirected request what
\* the transport's decorator makes of those in the request before.
THEOREM CopiedHeadersAreFollowed == ExchangeSpec => []CopiedHeadersFollow
<1>1. ExchangeInit => CopiedHeadersFollow
  BY DEF ExchangeInit, CopiedHeadersFollow
<1>2. (RetryInv /\ HeaderTypes /\ CountInv) /\ OptionTypes /\ FollowInv /\ CopiedHeadersFollow
        /\ [ExchangeNext]_xvars => CopiedHeadersFollow'
  <2> SUFFICES ASSUME HeaderTypes, OptionTypes, FollowInv, CopiedHeadersFollow, [ExchangeNext]_xvars
               PROVE  CopiedHeadersFollow'
    OBVIOUS
  <2>1. CASE stage' # "sent"
    BY <2>1 DEF CopiedHeadersFollow
  <2>2. CASE UNCHANGED <<options, stage, sent>>
    BY <2>2 DEF CopiedHeadersFollow, Uses, options
  <2>3. CASE Send
    <3>1. /\ Len(sent') = Len(sent) + 1 /\ Len(sent) \in Nat
          /\ sent'[Len(sent')] = Modify(modes["transport"], current, TransportNames)
          /\ \A k \in 1..Len(sent) : sent'[k] = sent[k]
      BY <2>3, SendAppends
    <3>2. checks' = checks /\ copied' = copied /\ modes' = modes /\ stage = "sending"
      BY <2>3 DEF Send, options
    <3>3. SUFFICES ASSUME Len(sent') > 1, Uses("copy"), NEW n \in copied, sent'[Len(sent') - 1][n] > 0
                   PROVE  sent'[Len(sent')][n] =
                            IF n \in TransportNames
                            THEN IF modes["transport"] = "SetTo" THEN 1 ELSE sent'[Len(sent') - 1][n] + 1
                            ELSE sent'[Len(sent') - 1][n]
      BY <3>2 DEF CopiedHeadersFollow, Uses
    <3>4. sent'[Len(sent') - 1] = sent[Len(sent)] /\ sent # <<>>
      BY <3>1, <3>3, EmptySeq
    <3>5. n \in Names /\ current[n] = sent[Len(sent)][n]
      BY <3>2, <3>3, <3>4 DEF OptionTypes, FollowInv, Copying
    <3> QED
      BY <3>1, <3>4, <3>5 DEF Modify, SetTo, AddTo, OptionTypes
  <2> QED
    BY <2>1, <2>2, <2>3 DEF ExchangeNext, Decorate, Redirect, Respond200, Fail, Over, xvars, exchange
<1> QED
  BY <1>1, <1>2, ExchangeInvariant, OptionsTyped, Following, PTL DEF ExchangeSpec

-----------------------------------------------------------------------------
(* How often values are sent *)

Carried(n) == Uses("copy") /\ n \in copied
Kept(n)    == IF n \in Sensitive /\ stripped /\ ~Carried(n) THEN 0 ELSE StartsWith(n, Tries)

\* The names that nothing replaces in each request, and what those of the transport's
\* decorator grow by.
Counting    == {n \in Names : n \in TransportNames => modes["transport"] # "SetTo"}
By(n, count) == IF n \in TransportNames THEN count ELSE 0

\* The caller's map before the attempt, and once this attempt has decorated it.
IdleValues ==
  stage = "idle" =>
    \A n \in Counting :
      shared[n] = IF Tries = 0 THEN Own[n] ELSE StartsWith(n, Tries - 1) + By(n, 1)

SharedValues ==
  stage # "idle" =>
    \A n \in Counting :
      /\ initial[n] = StartsWith(n, Tries)
      /\ shared[n] = StartsWith(n, Tries) + (IF sent = <<>> THEN 0 ELSE By(n, 1))

\* The next request, before the transport's decorator.
CurrentValues ==
  stage = "sending" =>
    /\ sent = <<>> => current = initial
    /\ \A n \in Counting : current[n] = Kept(n) + (IF Carried(n) THEN By(n, Len(sent)) ELSE 0)

\* The last request of the attempt.
SentValues ==
  stage = "sent" =>
    /\ \A n \in Counting :
         sent[Len(sent)][n] = Kept(n) + By(n, IF Carried(n) THEN Len(sent) ELSE 1)
    /\ \A n \in Names \ Counting : sent[Len(sent)][n] = 1

ValueInv == IdleValues /\ SharedValues /\ CurrentValues /\ SentValues

LEMMA TriesIsNat == RetryInv => Tries \in Nat
BY LenProperties DEF RetryInv, TypeOK, Tries

LEMMA StartIsNat ==
  ASSUME NEW n \in Names, NEW tries \in Nat
  PROVE  StartsWith(n, tries) \in Nat /\ Own[n] \in Nat
BY DEF StartsWith, Own

LEMMA StartValues == ExchangeInit => ValueInv
<1> SUFFICES ASSUME ExchangeInit PROVE ValueInv
  OBVIOUS
<1>1. Tries = 0 /\ stage = "idle" /\ shared = Own
  BY EmptySeq DEF ExchangeInit, Init, Tries
<1> QED
  BY <1>1 DEF ValueInv, IdleValues, SharedValues, CurrentValues, SentValues

LEMMA DecorateValues ==
  ASSUME RetryInv, HeaderTypes, OptionTypes, ValueInv, Decorate
  PROVE  ValueInv'
<1>1. Tries \in Nat
  BY TriesIsNat
<1>2. /\ stage = "idle" /\ stage' = "sending" /\ sent' = <<>> /\ Tries' = Tries
      /\ modes' = modes /\ outermost' = outermost /\ copied' = copied /\ checks' = checks
      /\ initial' = shared' /\ current' = shared' /\ stripped' = FALSE
      /\ shared' = IF outermost /\ Tries > 0 THEN shared
                   ELSE Modify(modes["client"], shared, ClientNames)
  BY DEF Decorate, vars, options, Tries
<1>3. Len(sent') = 0
  BY <1>2, EmptySeq
<1>4. ASSUME NEW n \in Counting PROVE shared'[n] = StartsWith(n, Tries)
  <2>1. n \in Names /\ Own[n] \in Nat
    BY StartIsNat DEF Counting
  <2>2. shared[n] = IF Tries = 0 THEN Own[n] ELSE StartsWith(n, Tries - 1) + By(n, 1)
    BY <1>2 DEF ValueInv, IdleValues
  <2>3. ~(outermost /\ Tries > 0) =>
          shared'[n] = IF n \notin ClientNames THEN shared[n]
                       ELSE IF modes["client"] = "SetTo" THEN 1 ELSE shared[n] + 1
    BY <1>2, <2>1 DEF Modify, SetTo, AddTo
  <2>4. CASE Tries = 0
    BY <1>1, <2>1, <2>2, <2>3, <2>4 DEF StartsWith
  <2>5. CASE Tries > 0 /\ outermost
    BY <1>1, <1>2, <2>1, <2>2, <2>5 DEF StartsWith, By
  <2>6. CASE Tries > 0 /\ ~outermost
    BY <1>1, <2>1, <2>2, <2>3, <2>6 DEF StartsWith, By
  <2> QED
    BY <1>1, <2>4, <2>5, <2>6
<1>5. /\ Counting' = Counting
      /\ \A n \in Names : StartsWith(n, Tries)' = StartsWith(n, Tries)
      /\ \A n, count : By(n, count)' = By(n, count)
      /\ \A n : By(n, 0) = 0
  BY <1>2 DEF Counting, StartsWith, By
<1>6. \A n \in Counting : Kept(n)' = StartsWith(n, Tries) /\ n \in Names
  BY <1>2, <1>5 DEF Kept, Counting
<1>7. \A n \in Names : StartsWith(n, Tries) \in Nat
  BY <1>1, StartIsNat
<1>8. SharedValues'
  BY <1>2, <1>4, <1>5, <1>6, <1>7 DEF SharedValues
<1>9. CurrentValues'
  <2>1. ASSUME NEW n \in Counting
        PROVE  current'[n] = Kept(n)' + (IF Carried(n)' THEN By(n, Len(sent))' ELSE 0)
    <3>1. By(n, Len(sent))' = 0
      BY <1>3, <1>5
    <3> QED
      BY <1>2, <1>4, <1>6, <1>7, <3>1
  <2> QED
    BY <1>2, <1>5, <2>1 DEF CurrentValues
<1> QED
  BY <1>2, <1>8, <1>9 DEF ValueInv, IdleValues, SentValues

LEMMA SendValues ==
  ASSUME RetryInv, HeaderTypes, OptionTypes, ValueInv, Send
  PROVE  ValueInv'
<1> DEFINE last == sent'[Len(sent')]
<1>1. Tries \in Nat
  BY TriesIsNat
<1>2. /\ stage = "sending" /\ stage' = "sent" /\ Tries' = Tries /\ stripped' = stripped
      /\ modes' = modes /\ outermost' = outermost /\ copied' = copied /\ checks' = checks
      /\ initial' = initial /\ shared' = IF sent = <<>> THEN sent'[1] ELSE shared
  BY DEF Send, vars, options, Tries
<1>3. /\ Len(sent') = Len(sent) + 1 /\ Len(sent) \in Nat /\ sent' # <<>>
      /\ last = Modify(modes["transport"], current, TransportNames)
  BY SendAppends, EmptySeq
<1>4. sent = <<>> => Len(sent) = 0 /\ last = sent'[1]
  BY <1>3, EmptySeq
<1> HIDE DEF last
<1>5. /\ \A n \in Counting : last[n] = current[n] + By(n, 1) /\ n \in Names
      /\ \A n \in Names \ Counting : last[n] = 1
  <2>1. \A n \in Names : current[n] \in Nat
    BY DEF HeaderTypes, Headers
  <2> QED
    BY <1>3, <2>1 DEF Modify, SetTo, AddTo, Counting, By
<1>6. /\ Counting' = Counting
      /\ \A n : Carried(n)' = Carried(n) /\ Kept(n)' = Kept(n)
      /\ \A n : StartsWith(n, Tries)' = StartsWith(n, Tries)
      /\ \A n, count : By(n, count)' = By(n, count)
  BY <1>2 DEF Counting, Carried, Kept, StartsWith, By, Uses
<1>7. \A n \in Names : StartsWith(n, Tries) \in Nat /\ Kept(n) \in Nat
  BY <1>1, StartIsNat DEF Kept
<1>8. SentValues'
  <2>1. ASSUME NEW n \in Counting
        PROVE  last[n] = Kept(n) + By(n, IF Carried(n) THEN Len(sent') ELSE 1)
    <3>1. current[n] = Kept(n) + (IF Carried(n) THEN By(n, Len(sent)) ELSE 0)
      BY <1>2 DEF ValueInv, CurrentValues
    <3> QED
      BY <1>3, <1>5, <1>7, <3>1 DEF By
  <2> QED
    BY <1>2, <1>5, <1>6, <2>1 DEF SentValues, last
<1>9. SharedValues'
  <2>1. ASSUME NEW n \in Counting PROVE shared'[n] = StartsWith(n, Tries) + By(n, 1)
    <3>1. CASE sent = <<>>
      <4>1. current[n] = StartsWith(n, Tries)
        BY <1>2, <3>1 DEF ValueInv, SharedValues, CurrentValues
      <4> QED
        BY <1>2, <1>4, <1>5, <3>1, <4>1
    <3>2. CASE sent # <<>>
      BY <1>2, <3>2 DEF ValueInv, SharedValues
    <3> QED
      BY <3>1, <3>2
  <2> QED
    BY <1>2, <1>3, <1>6, <2>1 DEF ValueInv, SharedValues
<1> QED
  BY <1>2, <1>8, <1>9 DEF ValueInv, IdleValues, CurrentValues

LEMMA RedirectValues ==
  ASSUME RetryInv, CountInv, OptionTypes, ValueInv,
         NEW elsewhere \in BOOLEAN, Redirect(elsewhere)
  PROVE  ValueInv'
<1> DEFINE last   == sent[Len(sent)]
           header == [n \in Names |-> IF stripped' /\ n \in Sensitive THEN 0 ELSE initial[n]]
<1>1. Tries \in Nat
  BY TriesIsNat
<1>2. /\ stage = "sent" /\ stage' = "sending" /\ Tries' = Tries /\ sent' = sent
      /\ modes' = modes /\ outermost' = outermost /\ copied' = copied /\ checks' = checks
      /\ initial' = initial /\ shared' = shared
      /\ current' = IF Uses("copy") THEN CopyHeaders(header, sent) ELSE header
  BY DEF Redirect, vars, options, Tries
<1>3. /\ Counting' = Counting
      /\ \A n : Carried(n)' = Carried(n)
      /\ \A n : StartsWith(n, Tries)' = StartsWith(n, Tries)
      /\ \A n, count : By(n, count)' = By(n, count)
  BY <1>2 DEF Counting, Carried, StartsWith, By, Uses
<1>4. /\ Len(sent) \in Nat /\ Len(sent) >= 1 /\ sent # <<>>
  BY <1>2, EmptySeq DEF CountInv
<1>5. \A n \in Names :
        current'[n] = IF Carried(n) /\ last[n] > 0 THEN last[n]
                      ELSE IF stripped' /\ n \in Sensitive THEN 0 ELSE initial[n]
  BY <1>2 DEF CopyHeaders, Carried
<1>6. SharedValues'
  BY <1>2, <1>3 DEF ValueInv, SharedValues
<1>7. ASSUME NEW n \in Counting
      PROVE  current'[n] = Kept(n)' + (IF Carried(n) THEN By(n, Len(sent)) ELSE 0)
  <2>1. n \in Names /\ StartsWith(n, Tries) \in Nat
    BY <1>1, StartIsNat DEF Counting
  <2>2. initial[n] = StartsWith(n, Tries)
    BY <1>2 DEF ValueInv, SharedValues
  <2>3. Carried(n) => last[n] = StartsWith(n, Tries) + By(n, Len(sent))
    BY <1>2 DEF ValueInv, SentValues, Kept
  <2>4. Kept(n)' = IF n \in Sensitive /\ stripped' /\ ~Carried(n) THEN 0 ELSE StartsWith(n, Tries)
    BY <1>2, <1>3 DEF Kept
  <2>5. By(n, Len(sent)) \in Nat
    BY <1>4 DEF By
  <2> HIDE DEF last
  <2>6. CASE Carried(n)
    <3>1. last[n] > 0 => current'[n] = last[n]
      BY <1>5, <2>1, <2>6
    <3>2. ~(last[n] > 0) => StartsWith(n, Tries) = 0 /\ By(n, Len(sent)) = 0 /\ current'[n] = 0
      BY <1>5, <2>1, <2>2, <2>3, <2>5, <2>6
    <3>3. Kept(n)' = StartsWith(n, Tries)
      BY <2>4, <2>6
    <3>4. current'[n] = StartsWith(n, Tries) + By(n, Len(sent))
      <4>1. CASE last[n] > 0
        BY <2>3, <2>6, <3>1, <4>1
      <4>2. CASE ~(last[n] > 0)
        BY <3>2, <4>2
      <4> QED
        BY <4>1, <4>2
    <3> QED
      BY <2>6, <3>3, <3>4
  <2>7. CASE ~Carried(n)
    BY <1>5, <2>1, <2>2, <2>4, <2>7
  <2> QED
    BY <2>6, <2>7
<1>8. CurrentValues'
  BY <1>2, <1>3, <1>4, <1>7 DEF CurrentValues
<1> QED
  BY <1>2, <1>6, <1>8 DEF ValueInv, IdleValues, SentValues

LEMMA OverValues ==
  ASSUME RetryInv, CountInv, HeaderTypes, ValueInv, Respond200 \/ Fail
  PROVE  ValueInv'
<1>1. Tries' = Tries + 1 /\ Tries \in Nat
  BY OverAddsATry, TriesIsNat
<1>2. /\ stage = "sent" /\ stage' = "idle" /\ shared' = shared
      /\ modes' = modes /\ outermost' = outermost
  BY DEF Respond200, Fail, Over, options
<1>3. sent # <<>>
  BY <1>2, EmptySeq DEF CountInv
<1>4. /\ Counting' = Counting
      /\ \A n : By(n, 1)' = By(n, 1)
      /\ \A n : StartsWith(n, Tries - 1)' = StartsWith(n, Tries)
  BY <1>1, <1>2 DEF Counting, StartsWith, By
<1>5. \A n \in Counting : shared'[n] = StartsWith(n, Tries) + By(n, 1)
  BY <1>2, <1>3 DEF ValueInv, SharedValues
<1>6. IdleValues'
  BY <1>1, <1>4, <1>5 DEF IdleValues
<1> QED
  BY <1>2, <1>6 DEF ValueInv, SharedValues, CurrentValues, SentValues

LEMMA DoValues ==
  ASSUME RetryInv, ValueInv, Cancel \/ Fire \/ Do, UNCHANGED <<options, exchange>>
  PROVE  ValueInv'
<1>1. Tries' = Tries
  BY DoKeepsTries
<1> QED
  BY <1>1 DEF ValueInv, IdleValues, SharedValues, CurrentValues, SentValues, StartsWith,
     Counting, By, Carried, Kept, Uses, options, exchange

LEMMA ValueStep ==
  ASSUME RetryInv, HeaderTypes, CountInv, OptionTypes, ValueInv, [ExchangeNext]_xvars
  PROVE  ValueInv'
<1>1. CASE UNCHANGED xvars
  BY <1>1 DEF xvars, vars, options, exchange, ValueInv, IdleValues, SharedValues, CurrentValues,
     SentValues, StartsWith, Counting, By, Carried, Kept, Uses, Tries
<1>2. CASE Decorate
  BY <1>2, DecorateValues
<1>3. CASE Send
  BY <1>3, SendValues
<1>4. CASE Respond200 \/ Fail
  BY <1>4, OverValues
<1>5. CASE \E elsewhere \in BOOLEAN : Redirect(elsewhere)
  BY <1>5, RedirectValues
<1>6. CASE (Cancel \/ Fire \/ Do) /\ UNCHANGED <<options, exchange>>
  BY <1>6, DoValues
<1> QED
  BY <1>1, <1>2, <1>3, <1>4, <1>5, <1>6 DEF ExchangeNext

\* How often each value is in a request, whoever sets it: what the attempt starts with,
\* the caller's own values and what client.Header and the attempts before added to
\* them, and what roundtrip.Header adds, once or once for each request that a redirect
\* copies it from.
THEOREM ValuesAreCounted == ExchangeSpec => []ValuesAddUp
<1>1. ExchangeInit => ValueInv
  BY StartValues
<1>2. (RetryInv /\ HeaderTypes /\ CountInv) /\ OptionTypes /\ ValueInv
        /\ [ExchangeNext]_xvars => ValueInv'
  BY ValueStep
<1>3. RetryInv /\ ValueInv => ValuesAddUp
  <2> SUFFICES ASSUME RetryInv, ValueInv, stage = "sent", NEW n \in Names
               PROVE  sent[Len(sent)][n] =
                        IF n \notin TransportNames THEN Kept(n)
                        ELSE IF modes["transport"] = "SetTo" THEN 1
                        ELSE Kept(n) + (IF Carried(n) THEN Len(sent) ELSE 1)
    BY DEF ValuesAddUp, Kept, Carried
  <2>1. Kept(n) \in Nat
    BY TriesIsNat, StartIsNat DEF Kept
  <2>2. CASE n \in Counting
    <3>1. sent[Len(sent)][n] = Kept(n) + By(n, IF Carried(n) THEN Len(sent) ELSE 1)
      BY <2>2 DEF ValueInv, SentValues
    <3> QED
      BY <2>1, <2>2, <3>1 DEF By, Counting
  <2>3. CASE n \notin Counting
    BY <2>3 DEF ValueInv, SentValues, Counting
  <2> QED
    BY <2>2, <2>3
<1> QED
  BY <1>1, <1>2, <1>3, ExchangeInvariant, OptionsTyped, PTL DEF ExchangeSpec

=============================================================================
