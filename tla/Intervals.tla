------------------------------ MODULE Intervals ------------------------------
(***************************************************************************)
(* Package retry: the waits that newIntervals computes once for a Client   *)
(* and interval.duration draws from.  Durations are machine integers from  *)
(* MinInt to MaxInt.  Factors are quotients <<n, d>> and products exact:   *)
(* what a float64 adds to the rounding of the code itself is left out.     *)
(***************************************************************************)
EXTENDS Integers

CONSTANTS
  MaxInt,           \* the largest time.Duration
  DefaultInterval,  \* the wait when Config.Interval is nonpositive
  Int63n(_)         \* what the source of randomness may draw for an argument

ASSUME IntervalConstants ==
  /\ MaxInt \in Nat /\ DefaultInterval \in 1..MaxInt
  /\ \A n \in 1..MaxInt : Int63n(n) # {} /\ Int63n(n) \subseteq 0..(n - 1)

MinInt == -MaxInt - 1

\* Sums of durations wrap around.
Wrap(n) == ((n - MinInt) % (MaxInt - MinInt + 1)) + MinInt

\* math.Round of n/d: to the nearest integer, halves away from zero.
Round(n, d) == IF n >= 0 THEN (2 * n + d) \div (2 * d) ELSE -((d - 2 * n) \div (2 * d))

\* A float that no int64 can hold converts to what the platform gives: the
\* nearest one where conversions saturate (arm64), the smallest elsewhere (amd64).
Convert(saturates, n) ==
  IF n \in MinInt..MaxInt THEN n
  ELSE IF saturates /\ n > 0 THEN MaxInt ELSE MinInt

Scale(c, base, factor) == Convert(c.saturates, Round(base * factor[1], factor[2]))

\* Mutant: a nonpositive Config.Interval is taken as it is.
SeedUnchecked(c) == c.interval

Seed(c) == IF c.interval <= 0 THEN DefaultInterval ELSE c.interval

Multiplier(c) == IF c.multiplier[1] <= 0 THEN <<1, 1>> ELSE c.multiplier

Jittered(c) == 0 < c.jitter[1] /\ c.jitter[1] < c.jitter[2]

\* The limits of the jitter window around base, both of them included.
Window(c, base) ==
  LET one == c.jitter[2]
  IN  <<Scale(c, base, <<one - c.jitter[1], one>>), Scale(c, base, <<one + c.jitter[1], one>>)>>

\* The second pass: what is added to the lower limit is less than jitter.
Spread(c, base) ==
  IF Jittered(c)
  THEN LET w == Window(c, base) IN [base |-> w[1], jitter |-> Wrap(w[2] - w[1] + 1)]
  ELSE [base |-> base, jitter |-> 0]

\* Mutant: one pass, so that each interval grows out of the jittered one before.
GrowJittered(c, count) ==
  LET grown[x \in 0..(count - 1)] ==
        IF x = 0 THEN Spread(c, Seed(c)).base
        ELSE Spread(c, Scale(c, grown[x - 1], Multiplier(c))).base
  IN  grown

\* The first pass.
Grow(c, count) ==
  LET grown[x \in 0..(count - 1)] ==
        IF x = 0 THEN Seed(c) ELSE Scale(c, grown[x - 1], Multiplier(c))
  IN  grown

NewIntervals(c, count) ==
  LET grown == Grow(c, count) IN [x \in 0..(count - 1) |-> Spread(c, grown[x])]

Durations(interval) ==
  IF interval.jitter > 0 THEN {Wrap(interval.base + r) : r \in Int63n(interval.jitter)}
  ELSE {interval.base}
=============================================================================
