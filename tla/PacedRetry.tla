----------------------------- MODULE PacedRetry ------------------------------
(***************************************************************************)
(* Retry with what it leaves open filled in: how long Do waits before each *)
(* retry (Intervals), and which outcomes the default check retries (Check).*)
(* A check of the configuration may still say anything.                    *)
(***************************************************************************)
EXTENDS Retry, Intervals, Check

CONSTANTS
  Configs,   \* what the Client is configured with, and the platform it runs on
  Statuses,  \* of responses
  Errors     \* that the decorated client returns

ASSUME PacedConstants ==
  /\ \A c \in Configs :
       /\ c.interval \in MinInt..MaxInt /\ c.saturates \in BOOLEAN
       /\ c.multiplier \in Int \X (Nat \ {0}) /\ c.jitter \in Int \X (Nat \ {0})
  /\ Statuses \subseteq Nat \ {0}
  /\ Errors \subseteq Seq(Kinds)

VARIABLES
  cfg,        \* the configuration
  intervals,  \* Client.intervals
  check,      \* Client.check: "default" or "custom"
  wait,       \* the duration that the last timer was made with
  answer      \* the response and the error of the last attempt, till the next wait begins

pvars == <<vars, cfg, intervals, check, wait, answer>>

Unjudged == [status |-> 0, errors |-> <<>>]

PacedInit ==
  /\ Init
  /\ cfg \in Configs
  /\ intervals = NewIntervals(cfg, retries)
  /\ check \in {"default", "custom"}
  /\ wait = 0
  /\ answer = Unjudged

\* A body comes with a response; http.Client returns one even with some errors.
Answer ==
  /\ RespondInitial \/ RespondRetry
  /\ answer' \in [status : Statuses \cup {0}, errors : Errors]
  /\ bodies'[Tries'] = "open" <=> answer'.status # 0
  /\ UNCHANGED <<cfg, intervals, check, wait>>

Retryable == DefaultCheck(answer.status, answer.errors)

Another ==
  /\ WantRetry \/ WantAnother
  /\ check = "default" => Retryable
  /\ UNCHANGED <<cfg, intervals, check, wait, answer>>

\* Without retries, and in the last pass of the loop, no check can ask for more.
Exhausted == retries = 0 \/ (pc = "checkRetry" /\ ~InLoop(i + 1))

Return ==
  /\ ReturnInitial \/ ReturnRetry
  /\ check = "default" => Exhausted \/ ~Retryable
  /\ UNCHANGED <<cfg, intervals, check, wait, answer>>

Pace ==
  /\ Arm
  /\ wait' \in Durations(intervals[i])
  /\ answer' = Unjudged
  /\ UNCHANGED <<cfg, intervals, check>>

PacedDo ==
  \/ Another \/ Return \/ Pace
  \/ /\ PrepareNext \/ CancelWait \/ Wake \/ GetBodyFails \/ Refresh \/ Resend \/ CanceledRetry
     /\ UNCHANGED <<cfg, intervals, check, wait, answer>>

Environment == (Cancel \/ Fire) /\ UNCHANGED <<cfg, intervals, check, wait, answer>>

PacedNext == Environment \/ Answer \/ PacedDo

PacedSpec == PacedInit /\ [][PacedNext]_pvars /\ WF_pvars(Answer \/ PacedDo)

-----------------------------------------------------------------------------
(* Properties *)

\* A wait was computed for this pass of the loop.
Paced == pc \in {"prepare", "select", "refresh", "resend", "resent"}

Start  == IF cfg.interval > 0 THEN cfg.interval ELSE DefaultInterval
Factor == IF cfg.multiplier[1] > 0 THEN cfg.multiplier ELSE <<1, 1>>
Jitter == IF cfg.jitter[1] \in 1..(cfg.jitter[2] - 1) THEN cfg.jitter ELSE <<0, 1>>

\* A duration times a factor, as a quotient; and how far rounding may have led from it
\* with the product, at most a half, and before, in halves of the quotient's unit.
Times(d, factor) ==
  [time |-> d.time * factor[1], unit |-> d.unit * factor[2],
   off |-> d.off * factor[1] + d.unit * factor[2]]

AtLeast(d) == 2 * d.time - d.off
AtMost(d)  == 2 * d.time + d.off

\* What config.go:31-38 promises before each retry, Interval*(Multiplier^k), without
\* jitter; and at the ends of the jitter window, for this pass.
Promised ==
  LET after[k \in 0..MaxRetries] ==
        IF k = 0 THEN [time |-> Start, unit |-> 1, off |-> 0] ELSE Times(after[k - 1], Factor)
  IN  after

Shortest == Times(Promised[i], <<Jitter[2] - Jitter[1], Jitter[2]>>)
Longest  == Times(Promised[i], <<Jitter[2] + Jitter[1], Jitter[2]>>)

Representable == AtMost(Longest) <= 2 * MaxInt * Longest.unit

\* The wait before each retry is the exponential one of the configuration, jitter
\* included, for as long as that is a duration at all; but for rounding, which each
\* of the products computed for it adds a half to.
WaitsAsConfigured ==
  Paced /\ Representable => 2 * wait * Longest.unit \in AtLeast(Shortest)..AtMost(Longest)

\* No wait is negative, so that no retry follows at once, unless the configured
\* one has left the range of durations on a platform that does not saturate.
WaitsNotNegative ==
  Paced /\ wait < 0 => ~cfg.saturates /\ ~Representable

\* What the default check can read off the answer.
Asks == answer.status \in {408, 429, 504}
Said == {answer.errors[k] : k \in DOMAIN answer.errors}

\* With the default check another attempt is made only after a response that asks
\* for it, or after an error that is temporary and no expired deadline (check.go:31-42).
NoneUnwarranted ==
  check = "default" /\ pc = "arm" => Asks \/ ("temporary" \in Said /\ "deadline" \notin Said)

\* Do gives up before its retries are used up only after an outcome of another kind.
\* An error that says it is permanent may wrap a temporary one.
NoneForgone ==
  check = "default" /\ result = "response" /\ Tries <= retries =>
    ~Asks /\ (Said \cap {"permanent", "deadline"} # {} \/ "temporary" \notin Said)

\* The default check retries exactly what it documents, in every pass of the loop.
OnlyWarrantedRetries == NoneUnwarranted /\ NoneForgone

-----------------------------------------------------------------------------
(* Where the waits come from *)

\* The intervals are the configuration's for good, and the wait is drawn from this pass's.
WaitInv ==
  /\ cfg \in Configs /\ intervals = NewIntervals(cfg, retries)
  /\ Paced => wait \in Durations(intervals[i])
=============================================================================
