# A TLA+ model of httpaux

`httpaux` is a Go library of HTTP middleware: decorators for `http.Handler`,
`http.RoundTripper` and `httpaux.Client`. Most of it is small; the parts that are
hard to get right are the ones where goroutines, callbacks, panics, timers and
cancellation meet, where slices and maps are shared, and where decorators are
combined. This directory models those parts in TLA+, checks small instances with
TLC and proves theorems about all instances with TLAPS.

## Inventory

| Component | State it keeps | Operations | What is hard about it | What makes it correct |
|---|---|---|---|---|
| `gate` | an atomic open/closed flag; a mutex; two lists of callbacks | `New`, `Open`, `Close`, `Register`, `ControlHandler`, decorated handlers and round trippers | any goroutine may call anything; unlocked first tests; callbacks run under the mutex and may panic | calls are atomic, no hook believes the wrong state, every call returns |
| `busy` | an atomic counter | `MaxRequestLimiter.Check`, its `release`, `Server.Then` | add, compare and take back are separate steps; handlers panic | the limit holds, the counter never drifts |
| `retry` | per call: `State`, loop variable, timer; per client: precomputed intervals | `Client.Do`, `Then`, `State` accessors, `Cleanup` | cancellation at any moment, a timer that races it, decorated clients that misbehave, bodies that must be closed or sent exactly once | no leaks, at most `1+Retries` attempts, prompt end when canceled |
| `retry` intervals and check | none | `newIntervals`, `duration`, `DefaultCheck`, `IsTemporary` | rounding and overflow, what errors wrap | waits are the configured ones, only warranted retries |
| `observe` | per response: status, length, callbacks, whether the header is written | `WriteHeader`, `Write`, `Flush`, `ReadFrom`, `OnWriteHeader`, `New` | callbacks that register callbacks or panic in the middle of `WriteHeader`; a table of 16 decorators | each callback runs once, with the status that is sent |
| `recovery` | none | the deferred handler of a decorated `ServeHTTP` | what the recovery itself runs may panic | every panic becomes a response |
| `erraux.Encoder` | a slice of rules, copied by value | `Add`, `Encode`, `Is`, `As` | slices that share a backing array; order of rules | the first rule that was added and matches is used |
| `Header` | a sorted immutable list | `New`, `Append`, `Extend`, `AddTo`, `SetTo` | sorted insertion in place in a clone; what repeated use does to a shared request | never changed after construction |
| `roundtrip`, `client` chains | slices of constructors | `Append`, `Extend`, `Then` | aliasing, order, `CloseIdleConnections` through decorators | the first constructor is the outermost, every idler is closed |
| `client` redirects | none | `CheckRedirect` strategies | limits, combinations, one call per redirect of each attempt | as many requests as configured, copied headers follow |
| `httpmock` | expectations, asserters, bodies | mock round tripper, request checkers, body | bodies that are read once; asserters that are replaced | a green test has checked what it set up |
| `ConstantHandler` | none | `ServeHTTP` | nothing | |

How they interact: everything is decoration. A server handler is typically
`observe(recovery(busy(gate(handler))))`; a client is `retry(...)` around an
`http.Client` whose transport is a `roundtrip` chain that may contain a gate.
The components share no state but the request, the response and the panics
that unwind through them, which is why `busy` and `gate` are modelled with
handlers and callbacks that may panic, and why two compositions have modules of
their own: `Recovery` (with `Observe`) on the server's side, and `Exchange`
(with `Retry`) on the client's.

## Modules

| Module | Role |
|---|---|
| `Gate` | `gate/gate.go`, the decorators of `gate/middleware.go` and `ControlHandler`: one action per atomic step of each call |
| `AtomicGate` | what `gate.Interface` promises: each call takes effect at one instant |
| `MCGate`, `GateProofs` | small instances of `Gate`; theorems about it |
| `Busy` | `busy/limiter.go` and `busy/middleware.go` |
| `AtomicLimiter` | what the limiter promises, without a counter |
| `MCBusy`, `BusyProofs` | symmetry of small instances; theorems, among them that `Busy` implements `AtomicLimiter` |
| `Retry` | one call of `retry.Client.Do`, its environment, `retry.State` and `httpaux.Cleanup`; what is waited and what the check says is left open |
| `Intervals` | `retry/intervals.go`: operators on machine integers |
| `Check` | `retry.DefaultCheck` and `erraux.IsTemporary` |
| `PacedRetry` | `Retry` with the waits of `Intervals` and the check of `Check` |
| `MCPacedRetry` | its configurations |
| `Observe` | `observe/observe.go` and `observe/middleware.go` |
| `Recovery`, `MCRecovery` | `recovery/middleware.go`, composed with `Observe` inside or outside of it |
| `ServerProofs` | theorems about `Observe` and `Recovery` |
| `Encoder`, `MCEncoder`, `EncoderProofs` | `erraux/encoder.go` and `Fields`: rules, encoders as slices, `Encode`; theorems |
| `Header`, `MCHeader`, `HeaderProofs` | `header.go`: the calls that make a `Header`; theorems |
| `Chain`, `ChainProofs` | `roundtrip/middleware.go`, `roundtrip/roundTripper.go`, `client/middleware.go`; theorems |
| `Exchange` | `client/redirect.go`, `client/header.go` and `roundtrip/header.go` under `Retry` |
| `ClientProofs` | theorems about `Retry`, `PacedRetry` and `Exchange` |
| `Mock`, `MCMock`, `MockProofs` | package `httpmock`; theorems |

Operators marked *Mutant* in a comment are plausible mistakes
in the code. Nothing uses them; substituted for the definition they precede, they
break a property, which shows that the property depends on it.

### Gate

`value` is `status.value`, `lock` the holder of `stateLock`, and
`callbacks[state]` the two lists. A *hook* stands for one registration. `Open`
and `Close` are the same code with the states exchanged, so both are calls with
`op[p]` set to the wanted state: `FastPath` is the unlocked test,
`LockForChange` the mutex, `CompareAndSwap` the swap, `Notify` one callback of
`callbacks.on`, `Unlock` the deferred unlock. `Register` locks and reads the
flag (`LockForRegister`) and then appends and perhaps invokes each of its two
callbacks (`RegisterOnOpen`, `RegisterOnClosed`); with no callbacks it returns at
once, without the mutex (`SkipEmpty`). A request reads the flag once
(`Serve`). The read in `LockForRegister` is taken together with the lock: the
flag only changes under the mutex. `New` is `Preregister`, once for each entry
of `Config.Hooks`, and `Construct`; nobody else has the gate before it returns.

Callbacks of the hooks in `Panicky` may panic. The panic releases the mutex
and ends the call; `spoiled` records that the last change did not run all its
callbacks. In `New`, a panic leaves no gate, so it is not modelled. Callbacks
that call back into their own gate deadlock by design (gate.go:203) and are
not modelled either.

`AtomicGate` has no lock, no unlocked test and no lists: a call has one instant,
callbacks included, and a panic takes back no more than what its own call told or
registered. The refinement mapping promises a hook the news it is *owed*: it
comes later in the list that is being run, or its registration is under way.

### Busy

A request adds itself to `counter` and compares what the addition returned
(`Count`, one step: the sum is local to the request), takes itself out again
when the limit is exceeded (`Withdraw`) and is refused, or is handled and
taken out by the deferred `done`, also when the handler panics. `max` is
chosen once; nonpositive means that nothing is counted.

Refusals count while they are under way, so one refusal can cause the next and
a chain of them can go on for ever while nobody is admitted. Fairness does not
exclude that, so no liveness of admission is claimed.

### Retry and PacedRetry

`Retry` follows `Client.Do` statement by statement. `bodies[k]` is the response
body of attempt `k`: open, closed, or none. `body` numbers the request bodies, 0
for the original one, and `spent` is the set of those handed to the decorated
client. The context may be canceled at any moment, before `Do` is called too; the
timer fires at any moment after it is set; a select with two ready cases takes
either. What the check says and how long a wait is are left open.

`PacedRetry` fills these in. `intervals` is what `newIntervals` computes when the
client is made, and each `Arm` draws its `wait` from `intervals[i]`, by `Int63n`,
a constant: any choice of numbers below its argument, the first and the last one in
the run. Durations are integers
of a small width: sums wrap around, and a float that no integer can hold converts
as the platform does it, to the nearest one (arm64) or the smallest (amd64).
Floating point arithmetic is exact rational arithmetic. An error is the sequence of
what unwrapping it yields; with `check = "custom"` the check still says anything.
`Promised` is the wait that the configuration promises before each retry, as a quotient,
and how far rounding may lead from it: each product that is computed adds a half.

### Observe

`Observe` is one response. `delegate` is the set of interfaces that the delegate
implements: the optional ones, for which `New` picks one of sixteen decorators
(`Mask`, `Decorators`), and `Writer`, for which it returns the delegate itself. In
that case everything above the `Writer` that decorates `net/http`'s own is a part of
the handler. `WriteHeader` is split at each callback: `EnterWriteHeader` sets
`statusCode`, `TellNext` invokes the next callback of the list that was ranged
over when the loop began (`todo`), the callback returns, registers another or
panics, and `LeaveWriteHeader` sets `headerWritten` before the delegate is
called. `Write`, `ReadFrom` and `Flush` go through `Call`, which makes up for a
missing `WriteHeader`; `Hijack` does not. `wire` and `bytes` are what the delegate
did, a writer of `net/http` by its documented behaviour: informational statuses are
sent at once and are not final, an invalid status panics, the first final status
counts. The source of a `ReadFrom` is the handler's code and may panic
(`SourcePanics`) with a part of it sent. A source that uses the writer it is copied
to, and a callback that writes, are not modelled.

### Recovery

`Recovery` extends `Observe`: the handler is any sequence of the steps of
`Observe`, on the decorated writer (`observed`) or on the plain one, so a panic
can come out of the handler or out of the middle of `WriteHeader`. The deferred
function runs `writeStatusCode`, `writeBody` and the `OnRecover` callbacks
through the same writer, which may panic again, as may the user's code that it
calls: `Headers()` and `StatusCode()` of the recovery object, before anything is
written, the `RecoverBody` and each listener (`culprit`). Then the panic leaves the
decorator (`escaped`), and the listeners that were not called yet are not called at
all: they hear neither of the first panic nor of the second. The object of a panic
may have a status if the user's code panics, status callbacks included
(`UserPanics`), and has none if `net/http` does. Headers are one fact: whether the decorator's had been
added when the status was sent.

### Encoder

An `Encoder` value is an array and a length; `arrays` is the heap, and
`AppendTo` is Go's `append`, which doubles the capacity of so small a slice when
it is full. Rules are pointers, so their methods may be called after `Add`:
`rules[r]` is what they point to, and `Compile` is what is fixed by `Add`. An
error is what `errors.Is` and `errors.As` find in its chain (`Found`) and what
that reports. `Add` begins with a copy of its receiver (`Derive`) and then runs its
loop once for each rule (`AppendRule`, `pending` being the rules that are left);
nobody else has that copy before `Add` returns it. `added` is the history the slices
are compared with: one entry for each rule, numbered by the encoder that `Add` makes.
Of two encoders the history of one is a prefix of the other's (`Unbranched`) as long
as neither was given a rule by a call that the other does not come from.

### Header

A `Header` is a slice too: `arrays` again is the heap. Each call makes a clone with
the room that it computes in advance (`Call`, `Clone`) and then runs
`headers.add` once for each name: `AddNothing` for a name without values,
`AddValues` for one that is there, `AddName` for one that is not, which moves the
names behind it up in place (`Open`). The binary search is described by what it
finds (`IsPlace`). The order of a map is any. `meant` is the history: what each
`Header` was given for each name. The constructors are the same calls on the
empty `Header`. The values of a name are a slice as well, which a clone shares with
its source. `add` merges values into a new slice with no room to spare, and `SetTo`
and `AddTo` copy, so nothing writes to an element of a shared one: these slices are
values in the model, which would not show a mistake in sharing them.

### Chain

`arrays` and `chains` are slices once more, the first array being the caller's,
who goes on using it (`Reuse`). `Then` applies the constructors from the last to
the first (`Apply`), and for `roundtrip` each result goes through
`PreserveCloseIdler`. `objects` are the round trippers that exist, each with what
it decorates; `Trip` and `Close` follow a request and a call of
`CloseIdleConnections` through them. A constructor may return what it is given,
one without `CloseIdleConnections`, or one that has it and passes it on, as
`gate.Client` does.

### Exchange

`Exchange` extends `Retry`: where `Retry` lets the decorated client return
anything, here each attempt is an `http.Client` that sends a request, meets
redirects and asks the checks of `client.NewCheckRedirects`. `client.Header`
decorates the `retry.Client` or the client inside of it (`outermost`), and
`roundtrip.Header` the transport. A header is counted: how often one set of
values is in the request. `shared` is the caller's header map, which all attempts
have in common and which the first request of an attempt has too, `Own` what is in
it at first; `initial` is the
copy `http.Client` makes of it for the redirects; sensitive names are left out of
it once another host was met (`stripped`).

### Mock

A test sets the mock up (`SetUp`, while no request is in flight), and goroutines
then send requests. An expectation selects a request (`Called`), runs the
asserters of the mock and its own (`RunAsserter`) and its function, and returns
(`Return`). Bodies are what is left to read; the code under test may close or
restore the body before it sends a request again (`Resume`). Expectations are kept
by `mock.Mock` of testify, which is external: the first one in time that is not
used up is selected. What `RoundTripCall` inherits from `*mock.Call` is part of the
model: `CallOnce`, and `InheritedRun`, to which any inherited method that returns the
`*mock.Call` leads.

## Runs

| Run | Instance | Shows |
|---|---|---|
| `gate_safety` | 3 goroutines, 3 hooks: one configured, two registered later, one of them without callbacks; two may panic | `HooksAgree`, `CallbackSeesItsState`, `Gate` implements `AtomicGate` |
| `gate_liveness` | 2 goroutines, 4 hooks: two configured, two registered later, one of them without callbacks; two may panic | every call returns |
| `busy_safety` | 5 requests, limits 0 to 3 | the limit holds, the counter is exact, `Busy` implements `AtomicLimiter` |
| `retry_safety` | up to 3 retries, 48 configurations of the waits in 8-bit durations, 4 kinds of errors | bodies, timers, counters, late retries; waits; what is retried; a canceled `Do` returns |
| `observe_safety` | 3 callbacks, 2 that may panic and 2 that may register, 32 delegates, statuses 0, 103, 404, bodies of up to 2 bytes | callbacks run once, in order, before anything is sent, with the status that is sent |
| `recovery_safety` | 3 callbacks, one that may panic and one that may register, 2 listeners, bodies of up to 2 bytes, writer inside or outside, every kind of panic | what is answered, observed, counted and notified after a panic, and the only ways one escapes |
| `encoder_safety` | 4 encoders, 2 rules, 3 errors, one change of a rule | which rule answers, status and body, no leaks between answers, who may disturb whose rules |
| `encoder_branches` | the same | finding: encoders derived from one base overwrite each other's rules |
| `header_safety` | 3 names with 4 spellings, 3 Headers, maps of up to 2 names, lists of 0, 1, 3 and 5 entries | each Header reads as it was made; no call outgrows its room |
| `chain_safety` | 2 chains of up to 4 constructors, 3 kinds of them, 2 calls of `Then` | order of decoration, `CloseIdleConnections` once through every decorator that has it |
| `exchange_safety` | up to 2 retries, limits -1 to 3, 7 lists of checks, 4 names (two sensitive), set by the caller, by either decorator or by all three | how many requests are sent, with which headers |
| `mock_safety` | 2 goroutines, 2 requests, 9 asserters, 4 calls that set up | a green test has checked what it set up; what a checker selects it does not fail |

**Bounds.** Three goroutines let one hold the mutex while a second waits with a
stale first test and a third registers or undoes the change; a hook that is
configured and one that is registered later cover a list that grows between two
notifications, and the liveness run has two configured, one without `OnOpen`. A
hook without callbacks is one that `Register` has nothing to do for. Each hook is registered once, which is what bounds the lists;
calls repeat without bound. Five requests under limits up to three allow a full
limiter, two overlapping refusals and a release. Three retries allow a first,
a middle and a last pass of the loop. Symmetry is used only for safety, over
goroutines and over requests, which the specifications never distinguish.

Durations from -128 to 127 with intervals of 5 and 60 and multipliers up to 3 over
three retries reach rounding, the default interval, a window whose width wraps
around and intervals that no duration holds, on both kinds of platforms.

Three callbacks give one before, at and after a callback that panics or
registers, and with `Recovery` one that is registered in a run of the callbacks that
another one breaks off; statuses 0, 103 and 404 are the three kinds `net/http` tells apart.
Configured statuses are 99, 503 and 1000; one below 100 is as good as none. Of two
bytes a `ReadFrom` that is broken off sends one and the page about the panic the
other. Of the four names of headers one is set by the caller and both decorators, a
sensitive one by the caller and the client's decorator, another sensitive one and one
that is not by the transport's decorator only.
Four encoders are a base of up to three rules, two that are derived from it, and
one more derivation: the first capacity that is not used up is four, for three
rules, so `MCRuleLists` has an `Add` of three. One change of a rule, at any
moment; with two the same properties hold (1.7 million states), which the run
does not repeat.

Three Headers are one and two made out of it, or a chain of two and an `Extend`
of both; `HeaderProofs` removes the bound. Two chains and two products are what
one chain needs to be appended to another and applied to the product of one.
`DefaultRedirects` is 3 where `net/http` has 10, and `MaxHops` 4 ends the attempts
nothing else limits. In `Mock`, two goroutines meet at an expectation that is used
up after one request, and four calls are an asserter for all, an expectation, one
more thing about it and one more.

**Fairness.** In `Gate`, goroutines are scheduled and callbacks end (weak
fairness of `Running`); a goroutine that waits for the mutex gets it (strong
fairness of `Locking`), which `sync.Mutex` provides through its starvation
mode. Nobody is obliged to call. In `Retry` and `PacedRetry`, `Do` is scheduled and
the decorated client returns; the timer is *not* assumed to fire.

**Deadlock** is checked in `Gate`, `Busy` and `Encoder`. The behaviours of
`PacedRetry`, `Exchange`, `Observe` and `Recovery` end with the call or the request,
those of `Header` and `Chain` with their bounds, and one of `Mock` when the
goroutines of a failed test are gone, so it is not checked there.

## Statements that do not hold

One bug is shown by a run that is violated and is a finding in `PROJECT.json`:
`AddedOrderDecides` (encoder.go:370). `Add` appends to the slice of a receiver that
is a value, so two encoders derived from one base can share an array.

Some statements of comments and tests are not what the code does, in ways that are
defensible or where the comment is loose. These are kept in the modules as
definitions that no run checks:

- `StatusIsTheResponse` (observe.go:24): an informational status is reported for good.
- `ContentLength()` is not always what was written so far (observe.go:36): what was
  sent of a `ReadFrom` whose source panics is never counted. `LengthIsTheResponse`
  says when the length is short.
- `CatchesAllPanics` (recovery/middleware.go:142): a recovery object whose status is
  invalid makes the deferred function panic. So does a status callback that
  panics: it is invoked again, because `headerWritten` was not set yet. No
  `OnRecover` callback is called then (recovery/middleware.go:155), which
  `ListenersHearOfAnswers` says too.
- `ImmutableOnceAdded` (encoder.go:184): a rule of `Is` that is changed after it was
  added sends its new status with its old body.
- `HooksAlwaysAgree` (gate.go:43): the callbacks after one that panics are not told.
- `RefusedOnlyWhenFull` (limiter.go:55): a request that is being refused counts
  too, so with a limit of one a request may be refused while none is in flight.
- `NoLateRetry` (client_test.go:518): when the timer has fired too, `select` may
  take it and one retry begins after cancellation. `OneLateRetry` is what holds.
- `NoOrphans` (observe.go:53): a callback that is registered from within a
  callback is never invoked.

Others came up while the models were written; the models follow the code:

- `IsTemporary` stops at the first error that has a `Temporary` method
  (error.go:110): one that says it is not hides a wrapped one that says it is.
  `NoneForgone` therefore excepts errors that say they are permanent.
- Exponential waits that leave the range of `int64` become negative on amd64
  (intervals.go:73), so that the retries follow at once. `WaitsNotNegative` says
  when that can happen, and that it cannot otherwise.
- `MaxRedirects(n)` (redirect.go:43) lets `n` requests through, which are `n-1`
  redirects; with 1 there are none, as with 0.
- `CopyHeadersOnRedirect` as the only check (redirect.go:20) takes the place of
  `net/http`'s own limit and has none.
- With `AddTo`, headers add up in the map that the attempts of a retry share
  (client/header.go:18), and in redirects that copy them. `ValuesAddUp` says by
  how much.
- `headerChecker.Match` (requestChecker.go:138) accepts values `[a, b]` where `[a, a]`
  is expected; its `Assert` does not. `SelectedRequestsPass` excepts values that
  repeat.
- `OnAny().Once().Run(f)` calls the `Run` of `mock.Call`, which replaces the function
  that runs the asserters (roundTripper.go:48), so none run. `Due` says so.
- `BodyJSON("")` fails for a body that is there but empty, which is no JSON.

## Proofs

`GateProofs` proves, for any sets of goroutines and hooks and any panics:

- `TypeCorrect`: the types, with `ControlInv` (which operation a step belongs to);
- `MutualExclusion`: `lock = p` exactly while `p` is between lock and unlock;
- `GateInvariant`: adds `NewsInv`. `HooksAgree` speaks of moments when the mutex
  is free, so it is not inductive: while an `on()` is under way the hooks before
  its position agree with the flag and the others do not. `NewsInv` says just
  that, and that `Register` works with the current state;
- `HooksNeverMisled` and `CallbacksSeeTheirState` follow from it;
- `ImplementsGate`: `Gate` implements `AtomicGate`. A call takes effect at its
  unlocked test if that ends it, else when it swaps the flag or has the mutex to
  register. What the abstract gate has told at once, the code tells later, so the
  mapping needs to know which hooks are owed news: `CallInv` says that results are
  right as soon as a call has taken effect (`ResultInv`), what is in the lists while
  `New` fills them (`ListInv`), and how far a registration is (`EnlistInv`). There is
  one lemma per kind of step, most of which map to a stutter;
- `CallsAreBounded`: what `EveryCallReturns` owes to the code rather than to fairness.
  Each step of a call lowers `Stage` or, while `on()` tells the callbacks, `Untold`;
  and no other goroutine's step raises them, since nobody appends to a list while one
  goes through it. With `MutualExclusion` (a mutex that is locked is held in one of
  these steps) nothing but the scheduler can keep a call from returning.

`BusyProofs` proves for any finite set of requests and any limits that the
counter is the number of counted requests, that the limit holds, and that the
limiter implements `AtomicLimiter`. The limit alone is not inductive: admission
compares the counter, so the argument needs `CounterExact`, and that one needs
`OverALimit` (nothing is withdrawn that was not counted).

`ClientProofs` proves for any number of retries that `RetryInv` is invariant:
where `Do` is determines the loop variable, `State.attempt` and the number of
attempts (`LoopInv`), where a timer can run (`TimerInv`), which bodies were sent
(`BodyInv`) and what a late cancellation leaves to do (`LateInv`). The checked
properties follow.

`DoIsBounded` is what `CancellationEndsDo` owes to the code: at most `7*retries + 9`
steps, each of which lowers `StepsLeft`, and no cancellation and no timer raises it.
The one step that waits is the `select`, and `NothingElseDelaysDo` says that it waits for
a timer that runs or has fired, so that a cancellation or that timer ends it.

It proves that every step of `PacedRetry` is one of `Retry`, so that all
of this holds of it whatever the configuration, and both directions of
`OnlyWarrantedRetries` (`RetriesAreWarranted`): with the default check no attempt
follows an outcome that does not warrant it, and none that is warranted is forgone.
The second needs the first of the errors that has a `Temporary` method, which
`Least` provides: a nonempty set of numbers has a least element. This is how
induction is put here, since the library's induction theorems have a parameter that
is an operator; well-founded relations have not (`WFMin`).

For any configuration, largest duration and draws it proves `WaitsAreAsConfigured` and
`WaitsAreNotNegative`. That a wait is drawn from the interval of its pass is inductive
(`WaitInv`); the rest is about numbers. `RoundedTimes` is one product: if a duration is
as near as `Times` allows, so is the rounded product. By `Climb` (induction over the
numbers in a set) the first pass stays that near as long as nothing exceeds the
largest duration (`Unlimited`); and nothing does before the last product if that one
does not, since the first pass either never rises above the seed or never falls
(`RoundShrinks`, `RoundGrows`, `GrownIsUnlimited`). The second pass adds one product for
each end of the window, between which every draw lies (`SecondPass`): the sum wraps
around for no draw, and the window's width only where it drops the jitter. With
conversions that saturate all of these are at least 0. That the recursive functions of
the model exist, and so obey their definitions, is `IterationExists`.

It proves that `Exchange` implements `Retry` and, from `RetryInv`:

- `RequestsAreBounded`, for any limit and number of retries: `CountInv` counts by
  attempts, each of those that are over having made at most `Limit` requests; and
  `LoopInv` of `Retry` bounds the attempts;
- `CopiedHeadersAreFollowed`: `FollowInv` says what the next request has before the
  transport's decorator sees it;
- `ValuesAreCounted`: `ValueInv` says how often each value is in the caller's map
  between attempts (`IdleValues`) and during one (`SharedValues`), in the request that
  is sent next (`CurrentValues`) and in the one that was sent last (`SentValues`), for
  the names that the transport's decorator does not replace (`Counting`).

`HeaderProofs` proves for any names, values, maps and lists that every `Header` reads
as it was made (`HeadersAreImmutable`) and that no call outgrows its room
(`RoomSuffices`). Immutability is not inductive: the clone that a call fills has an
array that no `Header` has, holds what the history says of it between any two
names, sorted, and has room for the names that are left (`FillInv`). The two lemmas
about cells, `MoreValues` and `MoreNames`, are the correctness of the insertion.

`ServerProofs` proves for any callbacks, statuses and delegate that the table
and the mask agree (`InterfacesArePreserved`) and that `ObserveInv` is invariant.
What callbacks hear is not inductive by itself: `RangeInv` says what is still to
be told while `WriteHeader` ranges over the list, unless a callback registered
another or panicked, and `HeaderInv` that nothing is told or sent outside of
`WriteHeader` before `headerWritten`. That callbacks are heard in order, before
anything is sent, and that a final status is the one sent follow;
`StatusNeverChanges` is an action property from the same invariant.

It proves for `Recovery`, with any listeners and recovery objects, that `RecoveryInv`
is invariant: where the deferred function can be and whose calls are under way
(`DeferredInv`), that the status it chooses is the one sent unless one was before
(`AnswerInv`), which callbacks have been told while its own panics break off more than
one run of them (`ObservedInv`), and how far the length may fall short
(`LengthIsTheResponse`, which is inductive with `DeferredInv`: only with recovery
outside does the deferred function write past the counter). The other properties of its
run follow; for `ListenersHearOfAnswers` it takes all of them, since a listener that
panics leaves the decorator with the answer already given.

`EncoderProofs` proves for any rules, errors and derivations that `EncoderInv` is
invariant, and from it all the properties of the run. `SliceInv` says that each
encoder has as many entries as its history and that no entry of an encoder is younger
than the encoder. That is the argument about `append`: an entry that is written in
place has the number of the encoder that is being made, so an encoder that sees it
change has another entry in that place of its history, and the two have branched
(`BranchesAfterAppendRule`). Hence `OnlyBranchesDisturb`, and `ViewInv`: an encoder
that nothing branched off from has the rules that were added to it, in that order.
`RuleInv` says where the fields of a rule come from, `CompiledInv` what `Add` has made
of it, and `FirstAddedRuleAnswers`, `CodesAreStatuses`, `AnswersLeakNothing` and
`AnswersHaveAStatus` follow for the three ways an answer is made (`IsAnswer`,
`AsAnswer`, `FallbackAnswer`).

`MockProofs` proves for any requests with ids of their own, any checkers and body
asserters, and any numbers of goroutines and calls that `MockInv` is invariant. Each
request in flight was selected by its expectation and belongs to one goroutine, hence
its body too (`TripInv`); the asserters left to run are the rest of those due
(`TodoInv`); the body is as it was sent until the first body asserter has read it
(`BodyInv`); and while the test is green each asserter that has run has found what it
checks (`GreenInv`). `GreenTestsVouch` follows when none is left.
`SelectionMeansPassing` needs besides `FailInv` that what `Match` accepts passes
`Assert`: the values of a header without repetitions, as many as there are expected
and all of them among those, are a permutation of them, which is a pigeonhole
argument (`FS_Surjection` and `FS_Injection` in the library).

`ChainProofs` proves for any constructors and any number of chains that `ChainInv` is
invariant. Each chain still has the constructors that it was given, since none of
them uses the caller's slice (`SliceInv`); whatever is decorated was made before
(`ObjectInv`), so that a walk inwards ends; and after each constructor of a `Then`
the walk from what is made so far meets the last ones of the list, in order
(`PendingInv`). The walk is a recursive function: that it exists, and so obeys its
own definition, is shown by the least number at which it would not. `TripsAreInOrder`
and `EveryIdlerIsClosed` follow when no constructor is left; the second because a
`Decorator` passes `CloseIdleConnections` to what the constructor would have hidden.

Some proofs did not go through at first because the model or the property was
wrong. `RecoveredIsObserved` is false as it stood with three callbacks, since one that
is registered in a run that a panic breaks off is told by the next run: it now says
so. `Gate` did not implement `AtomicGate` for a hook without callbacks, which
`Register` does not lock the mutex for: hence `SkipEmpty`. And `OnlyBranchingDisturbs`
excepted every `Add` to an encoder without rules: it now names the two that have
branched. Others could not be reasoned about: the properties of `Mock` and `Chain`
spoke of filtered sequences, whose recursion the prover cannot unfold. They now speak
of one asserter at a time, and of the last `k` constructors for each `k`.
`WaitsAsConfigured` allowed for rounding with a power of 2, which is too little for
multipliers above 2, and took a negative jitter for one: `Times` gives the exact
allowance for any multiplier.

Assumptions: the named ASSUMEs of `Gate`, `Busy`, `Retry`, `Intervals`, `PacedRetry`,
`Observe`, `Recovery`, `Encoder`, `Header`, `Exchange`, `Mock` and `Chain`, which TLC
evaluates in the runs.

Only model-checked: liveness under fairness (`EveryCallReturns`, `CancellationEndsDo`),
which is out of the prover's reach; of those two, `CallsAreBounded` and `DoIsBounded`
prove that every call has a bounded number of steps, for any number of goroutines, hooks
and retries. Every safety and action property of the runs is stated by a theorem. In every module recursion is written with functions or folds, so
that theorems can be added.

## Not modelled

See the `components` of `PROJECT.json`. `ConstantHandler` writes two headers, a
status and a body in a row to a response of its own: it has no state for a property
to relate. `server.Header` sets headers of a fresh response once. Names, `String`,
`MarshalJSON` and other formatting are left out because no property is about them.
In `httpmock`, `CloseIdler`, `AssertExpectations` and `Test` pass a call on, and the
constructors of bodies make what `Mock` begins with. `math/rand`, `net/http` and
testify are external and modelled as far as this code uses them. That a `Client`
shares one source of randomness among goroutines is a data race inside `math/rand`:
a draw is any number below the argument in the model.

## What could follow

A refinement for the encoder: what a reader of `Encoder.Add` expects, a list of rules per
encoder, implemented by encoders that share arrays, as long as none has branched. Its
content is in `FirstAddedRuleAnswers` and `OnlyBranchesDisturb` now. Likewise for `Header`
and `Exchange`, whose abstract specifications are implicit in their histories.
