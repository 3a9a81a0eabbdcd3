--------------------------------- MODULE Mock ---------------------------------
(***************************************************************************)
(* Package httpmock: the mocked http.RoundTripper, its expectations, and   *)
(* the checkers that select an expectation or assert over the request that *)
(* was selected.  A test sets the mock up while no request is in flight;   *)
(* the code under test then sends requests from several goroutines, each a *)
(* request object whose body is a buffer that is read once.                *)
(*                                                                         *)
(* The expectations themselves are kept by testify's mock.Mock (external). *)
(***************************************************************************)
EXTENDS Naturals, Sequences, FiniteSets, SequencesExt

CONSTANTS
  Goroutines,   \* the goroutines of the code under test
  Requests,     \* [id, method, path, values, body]: the requests they send
  Asserters,    \* the asserters a test may install
  Selections,   \* the sets of matchers it may pass to OnMatchAll and OnMatchAny
  Document,     \* what a text means as JSON, for the texts that are JSON
  NoURL,        \* the path of a request whose URL is nil
  NoBody,       \* the body of a request whose Body is nil
  MaxSetup      \* bounds the calls that set the mock up

VARIABLES
  asserters,    \* RoundTripper.asserters
  calls,        \* the expectations, in the order they were set
  next,         \* has Next been called?
  setup,        \* how many calls set the mock up (bounded)
  body,         \* of each request: what is left to read, whether it is closed
  pc, request, call, todo,
                \* of each goroutine: where it is in RoundTrip, its request,
                \* the expectation selected, the asserters not yet run
  sent,         \* the body of its request as it was sent
  failing,      \* the asserters that its request failed
  green         \* has the test not failed?

mock == <<asserters, calls, next, setup>>
trips == <<pc, request, call, todo, sent, failing>>
vars == <<mock, body, trips, green>>

IsReader(a) == a.kind \in {"body", "json"}
Checkers == {a \in Asserters : ~IsReader(a)}

ASSUME MockConstants ==
  /\ Selections \subseteq SUBSET Checkers
  /\ \A a \in Asserters :
       /\ a.kind \in {"nop", "methods", "path", "header", "body", "json"}
       /\ a.kind = "header" => a.values \in Seq(STRING)
  /\ \A r, q \in Requests : r.values \in Seq(STRING) /\ (r.id = q.id => r = q)

-----------------------------------------------------------------------------
(* Checkers: Match, which selects, and Passes (Assert), which fails the test. *)

\* A mutant: as many values are not asked for.
HeaderMatchAnyNumber(expected, actual) == ToSet(expected) \subseteq ToSet(actual)

\* headerChecker.Match: as many values, and each one expected is there.
HeaderMatch(expected, actual) ==
  /\ Len(expected) = Len(actual)
  /\ ToSet(expected) \subseteq ToSet(actual)

\* headerChecker.Assert: assert.ElementsMatch, the values in some order.
HeaderAssert(expected, actual) ==
  /\ Len(expected) = Len(actual)
  /\ \A v \in ToSet(expected) \cup ToSet(actual) :
       Cardinality({i \in DOMAIN expected : expected[i] = v})
         = Cardinality({i \in DOMAIN actual : actual[i] = v})

Match(c, r) ==
  CASE c.kind = "nop"     -> TRUE
    [] c.kind = "methods" -> r.method \in ToSet(c.values)
    [] c.kind = "path"    -> r.path # NoURL /\ r.path = c.path
    [] c.kind = "header"  -> HeaderMatch(c.values, r.values)

\* Body.Assert and BodyJSON.Assert, on what can still be read.
ReadsAs(a, r, b) ==
  IF r.body = NoBody THEN a.text = ""
  ELSE /\ ~b.closed
       /\ IF a.kind = "body" THEN a.text = b.left
          ELSE /\ {a.text, b.left} \subseteq DOMAIN Document
               /\ Document[a.text] = Document[b.left]

Passes(a, r, b) ==
  CASE a.kind = "header"  -> HeaderAssert(a.values, r.values)
    [] a.kind = "methods" -> a.values # <<>> /\ r.method \in ToSet(a.values)
    [] IsReader(a)        -> ReadsAs(a, r, b)
    [] OTHER              -> Match(a, r)

\* BodyReadCloser.Read to its end, by io.Copy: nothing of a closed body.
Drained(b) == IF b.closed THEN b ELSE [b EXCEPT !.left = ""]

-----------------------------------------------------------------------------
(* Setting the mock up. *)

Idle == \A g \in Goroutines : pc[g] = "idle"

Configure ==
  /\ Idle
  /\ setup < MaxSetup
  /\ setup' = setup + 1
  /\ UNCHANGED <<body, trips, green>>

\* RoundTripper.AssertRequest, for every expectation.
AssertRequest(a) ==
  /\ Configure
  /\ asserters' = Append(asserters, a)
  /\ UNCHANGED <<calls, next>>

\* OnAny, OnRequest, OnMatchAll and OnMatchAny: an expectation that runs the
\* asserters, without a Return, for any number of requests.
On(kind, these) ==
  /\ Configure
  /\ calls' = Append(calls, [kind |-> kind, these |-> these, own |-> <<>>,
                             runs |-> TRUE, func |-> FALSE, returns |-> FALSE,
                             times |-> 0])
  /\ UNCHANGED <<asserters, next>>

OnAny == On("any request", {})
OnRequest(r) == On("request", {r})
OnMatchAll(rms) == On("all", rms)
OnMatchAny(rms) == On("any", rms)

Change(c, value) ==
  /\ Configure
  /\ calls' = [calls EXCEPT ![c] = value]
  /\ UNCHANGED <<asserters, next>>

\* RoundTripCall.AssertRequest, Run and Return (Response, Error).
CallAssertRequest(c, a) == Change(c, [calls[c] EXCEPT !.own = Append(@, a)])
CallRun(c) == Change(c, [calls[c] EXCEPT !.func = TRUE])
CallReturn(c) == Change(c, [calls[c] EXCEPT !.returns = TRUE])

\* What RoundTripCall inherits from *mock.Call: Once, and Run, which takes the place
\* of RoundTripCall.run.  That Run is what a chain of calls gets from any inherited
\* method that returns the *mock.Call (Once, Times, Maybe, After), or call.Call itself.
CallOnce(c) == Change(c, [calls[c] EXCEPT !.times = 1])
InheritedRun(c) == Change(c, [calls[c] EXCEPT !.runs = FALSE, !.func = TRUE])

SetNext ==
  /\ Configure
  /\ next' = TRUE
  /\ UNCHANGED <<asserters, calls>>

-----------------------------------------------------------------------------
(* RoundTrip. *)

\* Does the matcher of expectation c accept request r?
Selects(c, r) ==
  CASE c.kind = "any request" -> TRUE
    [] c.kind = "request"     -> r \in c.these
    [] c.kind = "all"         -> \A rm \in c.these : Match(rm, r)
    [] c.kind = "any"         -> \E rm \in c.these : Match(rm, r)

\* mock.Mock selects the first expectation in time that is not used up.
Candidates(r) ==
  {c \in DOMAIN calls : calls[c].times # -1 /\ Selects(calls[c], r)}
First(S) == CHOOSE c \in S : \A d \in S : c <= d

\* A mutant: the expectation's asserters take the place of the mock's.
ApplyMostSpecific(c) == IF c.own = <<>> THEN asserters ELSE c.own

\* applyAsserters: those of the mock, then those of the expectation.
ApplyAsserters(c) == asserters \o c.own

\* A request is sent again only after the trip before it is over.
Ready(g, r) ==
  /\ pc[g] = "idle"
  /\ \A o \in Goroutines : pc[o] # "idle" => request[o] # r

\* Called, where an expectation is found: it is used once more, and its RunFn
\* starts with the asserters.
Called(g, r) ==
  /\ Ready(g, r)
  /\ Candidates(r) # {}
  /\ LET c == First(Candidates(r)) IN
       /\ call' = [call EXCEPT ![g] = c]
       /\ todo' = [todo EXCEPT ![g] =
                     IF calls[c].runs THEN ApplyAsserters(calls[c]) ELSE <<>>]
       /\ calls' = [calls EXCEPT ![c].times = IF @ = 1 THEN -1 ELSE @]
  /\ request' = [request EXCEPT ![g] = r]
  /\ sent' = [sent EXCEPT ![g] = body[r.id]]
  /\ failing' = [failing EXCEPT ![g] = {}]
  /\ pc' = [pc EXCEPT ![g] = "run"]
  /\ UNCHANGED <<asserters, next, setup, body, green>>

\* Called, where none is: the test fails and FailNow ends the goroutine.
Unexpected(g, r) ==
  /\ Ready(g, r)
  /\ Candidates(r) = {}
  /\ green' = FALSE
  /\ pc' = [pc EXCEPT ![g] = "gone"]
  /\ request' = [request EXCEPT ![g] = r]
  /\ UNCHANGED <<mock, body, call, todo, sent, failing>>

\* The next asserter.  A failed assertion is recorded and the run goes on.
RunAsserter(g) ==
  LET a == Head(todo[g])
      r == request[g]
      passes == Passes(a, r, body[r.id])
  IN
  /\ pc[g] = "run"
  /\ todo[g] # <<>>
  /\ todo' = [todo EXCEPT ![g] = Tail(@)]
  /\ body' = IF IsReader(a) /\ r.body # NoBody
             THEN [body EXCEPT ![r.id] = Drained(@)] ELSE body
  /\ failing' = [failing EXCEPT ![g] = IF passes THEN @ ELSE @ \cup {a}]
  /\ green' = (green /\ passes)
  /\ UNCHANGED <<mock, pc, request, call, sent>>

\* runFunc, which may read the body.
RunFunc(g) ==
  LET r == request[g] IN
  /\ pc[g] = "run"
  /\ todo[g] = <<>>
  /\ \E reads \in IF calls[call[g]].func THEN BOOLEAN ELSE {FALSE} :
       body' = IF reads THEN [body EXCEPT ![r.id] = Drained(@)] ELSE body
  /\ pc' = [pc EXCEPT ![g] = "return"]
  /\ UNCHANGED <<mock, request, call, todo, sent, failing, green>>

\* The values of Return, or what the next round tripper answers after it has
\* read the body to its end and closed it, or a panic of Arguments.Get.
Return(g) ==
  LET r == request[g]
      delegates == ~calls[call[g]].returns /\ next
      panics == ~calls[call[g]].returns /\ ~next
  IN
  /\ pc[g] = "return"
  /\ pc' = [pc EXCEPT ![g] = IF panics THEN "gone" ELSE "answered"]
  /\ green' = (green /\ ~panics)
  /\ body' = IF delegates /\ r.body # NoBody
             THEN [body EXCEPT ![r.id] = [Drained(@) EXCEPT !.closed = TRUE]]
             ELSE body
  /\ UNCHANGED <<mock, request, call, todo, sent, failing>>

Nothing == [left |-> "", closed |-> FALSE]
NoRequest == CHOOSE r \in Requests : TRUE

\* RoundTrip is over.
Forget(g) ==
  /\ pc' = [pc EXCEPT ![g] = "idle"]
  /\ request' = [request EXCEPT ![g] = NoRequest]
  /\ call' = [call EXCEPT ![g] = 0]
  /\ sent' = [sent EXCEPT ![g] = Nothing]
  /\ failing' = [failing EXCEPT ![g] = {}]
  /\ UNCHANGED todo

\* The code under test has its response, and may close the request's body or
\* put it back, as GetBody does, before it sends the request again.
Resume(g) ==
  LET r == request[g] IN
  /\ pc[g] = "answered"
  /\ Forget(g)
  /\ \/ UNCHANGED body
     \/ /\ r.body # NoBody
        /\ \E b \in {[body[r.id] EXCEPT !.closed = TRUE],
                     [left |-> r.body, closed |-> FALSE]} :
             body' = [body EXCEPT ![r.id] = b]
  /\ UNCHANGED <<mock, green>>

-----------------------------------------------------------------------------

Init ==
  /\ asserters = <<>> /\ calls = <<>> /\ next = FALSE /\ setup = 0
  /\ body = [i \in {r.id : r \in Requests} |->
               LET r == CHOOSE q \in Requests : q.id = i
               IN [left |-> IF r.body = NoBody THEN "" ELSE r.body,
                   closed |-> FALSE]]
  /\ pc = [g \in Goroutines |-> "idle"]
  /\ request = [g \in Goroutines |-> NoRequest]
  /\ call = [g \in Goroutines |-> 0]
  /\ todo = [g \in Goroutines |-> <<>>]
  /\ sent = [g \in Goroutines |-> Nothing]
  /\ failing = [g \in Goroutines |-> {}]
  /\ green = TRUE

SetUp ==
  \/ \E a \in Asserters : AssertRequest(a)
  \/ OnAny
  \/ \E r \in Requests : OnRequest(r)
  \/ \E rms \in Selections : OnMatchAll(rms) \/ OnMatchAny(rms)
  \/ \E c \in DOMAIN calls :
       \/ \E a \in Asserters : CallAssertRequest(c, a)
       \/ CallRun(c) \/ CallReturn(c) \/ CallOnce(c) \/ InheritedRun(c)
  \/ SetNext

RoundTrip(g) ==
  \/ \E r \in Requests : Called(g, r) \/ Unexpected(g, r)
  \/ RunAsserter(g) \/ RunFunc(g) \/ Return(g) \/ Resume(g)

Next == SetUp \/ \E g \in Goroutines : RoundTrip(g)

Spec == Init /\ [][Next]_vars

-----------------------------------------------------------------------------
(* Properties. *)

\* An expectation was found for the request of g.
InFlight(g) == pc[g] \in {"run", "return", "answered"}

\* The asserters that the documentation promises to run for the request of g.
Due(g) ==
  IF calls[call[g]].runs THEN asserters \o calls[call[g]].own ELSE <<>>

\* What asserter j of those due has established: a checker that the request matches
\* it, the first body asserter that the body it was sent with is the expected one,
\* and any other body asserter that an empty body is.
Checked(g, j) ==
  LET due == Due(g) IN
  IF IsReader(due[j])
  THEN ReadsAs(due[j], request[g],
               IF \E k \in 1..(j - 1) : IsReader(due[k])
               THEN [sent[g] EXCEPT !.left = ""] ELSE sent[g])
  ELSE Match(due[j], request[g])

\* A test that is still green vouches for every request that was answered: it
\* was one its expectation selects, it satisfies every checker of the mock and
\* of that expectation, and the body as it was sent satisfies the first of
\* their body asserters, which leaves the others an empty one (AssertRequest,
\* run, applyAsserters, Body, BodyJSON).
GreenMeansChecked ==
  \A g \in Goroutines :
    (green /\ pc[g] = "answered") =>
      /\ Selects(calls[call[g]], request[g])
      /\ \A j \in DOMAIN Due(g) : Checked(g, j)

\* RequestChecker: a request that an expectation selected with a checker does
\* not fail that checker, but for header values that repeat.
SelectedRequestsPass ==
  \A g \in Goroutines :
    (InFlight(g) /\ calls[call[g]].kind = "all") =>
      \A a \in failing[g] \cap calls[call[g]].these :
        a.kind = "header" /\ ~IsInjective(a.values)

-----------------------------------------------------------------------------
(* The inductive invariant from which the properties follow. *)

Bodies == [left : {r.body : r \in Requests} \cup {""}, closed : BOOLEAN]

Expectations ==
  {e \in [kind : {"any request", "request", "all", "any"},
          these : (SUBSET Requests) \cup (SUBSET Checkers), own : Seq(Asserters),
          runs : BOOLEAN, func : BOOLEAN, returns : BOOLEAN, times : {-1, 0, 1}] :
     e.kind = "all" => e.these \subseteq Checkers}

TypeOK ==
  /\ asserters \in Seq(Asserters) /\ calls \in Seq(Expectations)
  /\ next \in BOOLEAN /\ green \in BOOLEAN
  /\ body \in [{r.id : r \in Requests} -> Bodies]
  /\ pc \in [Goroutines -> {"idle", "run", "return", "answered", "gone"}]
  /\ DOMAIN request = Goroutines /\ call \in [Goroutines -> Nat]
  /\ todo \in [Goroutines -> Seq(Asserters)]
  /\ sent \in [Goroutines -> Bodies]
  /\ failing \in [Goroutines -> SUBSET Asserters]

\* Every goroutine in flight has a request of its own, which its expectation selects.
TripInv ==
  \A g \in Goroutines :
    /\ InFlight(g) =>
         /\ request[g] \in Requests /\ call[g] \in DOMAIN calls
         /\ Selects(calls[call[g]], request[g])
         /\ \A o \in Goroutines : InFlight(o) /\ request[o] = request[g] => o = g
    /\ pc[g] \in {"return", "answered"} => todo[g] = <<>>

\* Only the checkers that the request does not pass have failed.
FailInv ==
  \A g \in Goroutines : InFlight(g) =>
    \A a \in failing[g] : IsReader(a) \/ ~Passes(a, request[g], Nothing)

\* How many of the asserters due have run: what is left is the rest of them.
Ran(g) == Len(Due(g)) - Len(todo[g])

TodoInv ==
  \A g \in Goroutines : InFlight(g) =>
    /\ Ran(g) \in Nat
    /\ \A k \in DOMAIN todo[g] : todo[g][k] = Due(g)[Ran(g) + k]

\* No one but the asserters has read the body.
BodyInv ==
  \A g \in Goroutines : pc[g] = "run" /\ request[g].body # NoBody =>
    body[request[g].id] =
      IF \E k \in 1..Ran(g) : IsReader(Due(g)[k]) THEN Drained(sent[g]) ELSE sent[g]

GreenInv ==
  \A g \in Goroutines : green /\ InFlight(g) => \A j \in 1..Ran(g) : Checked(g, j)

MockInv == TypeOK /\ TripInv /\ FailInv /\ TodoInv /\ BodyInv /\ GreenInv
=============================================================================
