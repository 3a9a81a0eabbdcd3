----------------------------- MODULE MockProofs -----------------------------
(***************************************************************************)
(* Theorems about Mock, for any requests, asserters and matchers, any      *)
(* order of setting the mock up, and any number of goroutines.             *)
(***************************************************************************)
EXTENDS Mock, SequenceTheorems, FiniteSetTheorems, TLAPS

-----------------------------------------------------------------------------
(* Checkers *)

\* The positions of a value in a sequence are finitely many.
LEMMA PositionsFinite ==
  ASSUME NEW s \in Seq(STRING), NEW v
  PROVE  LET P == {i \in DOMAIN s : s[i] = v}
         IN  /\ IsFiniteSet(P) /\ Cardinality(P) \in Nat
             /\ Cardinality(P) = 0 <=> P = {}
<1> DEFINE P == {i \in DOMAIN s : s[i] = v}
<1>1. DOMAIN s = 1..Len(s) /\ Len(s) \in Nat
  BY LenProperties
<1>2. IsFiniteSet(DOMAIN s)
  BY <1>1, FS_Interval
<1>3. P \in SUBSET (DOMAIN s)
  OBVIOUS
<1> HIDE DEF P
<1>4. IsFiniteSet(P)
  BY <1>2, <1>3, FS_Subset
<1>5. Cardinality(P) \in Nat /\ (Cardinality(P) = 0 <=> P = {})
  BY <1>4, FS_CardinalityType, FS_EmptySet
<1> QED
  BY <1>4, <1>5 DEF P

\* Header values in some order are matched one by one.
LEMMA AssertedMatches ==
  ASSUME NEW e \in Seq(STRING), NEW a \in Seq(STRING), HeaderAssert(e, a)
  PROVE  HeaderMatch(e, a)
<1>1. ASSUME NEW v \in ToSet(e)
      PROVE  v \in ToSet(a)
  <2> DEFINE E == {i \in DOMAIN e : e[i] = v}
             A == {i \in DOMAIN a : a[i] = v}
  <2>1. Cardinality(E) = Cardinality(A)
    BY DEF HeaderAssert
  <2>2. E # {}
    BY DEF ToSet
  <2>3. Cardinality(E) # 0 /\ (Cardinality(A) = 0 <=> A = {})
    <3> HIDE DEF E, A
    <3>1. (Cardinality(E) = 0 <=> E = {}) /\ (Cardinality(A) = 0 <=> A = {})
      BY PositionsFinite, Zenon DEF E, A
    <3> QED
      BY <2>2, <3>1
  <2>4. A # {}
    <3> HIDE DEF E, A
    <3> QED
      BY <2>1, <2>3
  <2> QED
    BY <2>4 DEF ToSet
<1> QED
  BY <1>1 DEF HeaderAssert, HeaderMatch

\* As many values, each of them there, are the same values in some order when
\* none is expected twice: by the pigeonhole principle none of them is there twice.
LEMMA MatchedAsserts ==
  ASSUME NEW e \in Seq(STRING), NEW a \in Seq(STRING), HeaderMatch(e, a), IsInjective(e)
  PROVE  HeaderAssert(e, a)
<1> DEFINE I == DOMAIN e
           V == ToSet(a)
<1>1. /\ DOMAIN e = 1..Len(e) /\ DOMAIN a = 1..Len(a) /\ Len(e) \in Nat
      /\ Len(e) = Len(a)
  BY LenProperties DEF HeaderMatch
<1>2. DOMAIN a = I
  BY <1>1
<1>3. IsFiniteSet(I)
  BY <1>1, FS_Interval
<1>4. a \in Surjection(I, V)
  <2>1. a \in [I -> V]
    BY <1>1, <1>2 DEF ToSet
  <2> QED
    BY <1>2, <2>1 DEF ToSet, Surjection
<1>5. e \in Injection(I, V)
  <2>1. \A i \in I : e[i] \in ToSet(e)
    BY DEF ToSet
  <2>2. e \in [I -> V]
    BY <1>1, <2>1 DEF HeaderMatch
  <2> QED
    BY <2>2 DEF Injection
<1>6. /\ IsFiniteSet(V) /\ Cardinality(V) <= Cardinality(I)
      /\ Cardinality(V) = Cardinality(I) <=> a \in Injection(I, V)
  <2> HIDE DEF I, V
  <2> QED
    BY <1>3, <1>4, FS_Surjection
<1>7. /\ Cardinality(I) <= Cardinality(V)
      /\ Cardinality(I) = Cardinality(V) <=> e \in Surjection(I, V)
  <2> HIDE DEF I, V
  <2> QED
    BY <1>5, <1>6, FS_Injection
<1>8. Cardinality(I) = Cardinality(V)
  <2> HIDE DEF I, V
  <2> QED
    BY <1>3, <1>6, <1>7, FS_CardinalityType
<1>9. e \in Surjection(I, V) /\ a \in Injection(I, V)
  BY <1>6, <1>7, <1>8
<1>10. ASSUME NEW v \in V
       PROVE  /\ Cardinality({i \in DOMAIN e : e[i] = v}) = 1
              /\ Cardinality({i \in DOMAIN a : a[i] = v}) = 1
  <2>1. PICK i \in I : e[i] = v
    BY <1>9 DEF Surjection
  <2>2. PICK j \in I : a[j] = v
    BY <1>2 DEF ToSet
  <2>3. {k \in DOMAIN e : e[k] = v} = {i}
    BY <2>1 DEF IsInjective
  <2>4. {k \in DOMAIN a : a[k] = v} = {j}
    BY <1>2, <1>9, <2>2 DEF Injection, IsInjective
  <2> QED
    BY <2>3, <2>4, FS_Singleton
<1>11. ToSet(e) \cup ToSet(a) = V
  BY DEF HeaderMatch
<1> QED
  BY <1>1, <1>10, <1>11 DEF HeaderAssert

\* A request that passes a checker matches it.
LEMMA PassesMatches ==
  ASSUME NEW c \in Checkers, NEW r \in Requests, NEW b, Passes(c, r, b)
  PROVE  Match(c, r)
<1>1. /\ c.kind \in {"nop", "methods", "path", "header"}
      /\ c.kind = "header" => c.values \in Seq(STRING)
      /\ r.values \in Seq(STRING)
  BY MockConstants DEF Checkers, IsReader
<1>2. CASE c.kind = "header"
  <2>1. HeaderAssert(c.values, r.values)
    BY <1>2 DEF Passes, IsReader
  <2>2. HeaderMatch(c.values, r.values)
    BY <1>1, <1>2, <2>1, AssertedMatches
  <2> QED
    BY <1>2, <2>2 DEF Match
<1>3. CASE c.kind = "methods"
  BY <1>3 DEF Passes, Match, IsReader
<1>4. CASE c.kind \in {"nop", "path"}
  BY <1>4 DEF Passes, IsReader
<1> QED
  BY <1>1, <1>2, <1>3, <1>4

\* A request that matches a checker passes it, whatever became of its body, but
\* for header values that are expected twice.
LEMMA MatchesPasses ==
  ASSUME NEW c \in Checkers, NEW r \in Requests, NEW b, Match(c, r), ~Passes(c, r, b)
  PROVE  c.kind = "header" /\ ~IsInjective(c.values)
<1>1. /\ c.kind \in {"nop", "methods", "path", "header"}
      /\ c.kind = "header" => c.values \in Seq(STRING)
      /\ r.values \in Seq(STRING)
  BY MockConstants DEF Checkers, IsReader
<1>2. CASE c.kind = "header"
  <2>1. HeaderMatch(c.values, r.values) /\ ~HeaderAssert(c.values, r.values)
    BY <1>2 DEF Passes, Match, IsReader
  <2> QED
    BY <1>1, <1>2, <2>1, MatchedAsserts
<1>3. CASE c.kind = "methods"
  <2>1. r.method \in ToSet(c.values) /\ ~(c.values # <<>> /\ r.method \in ToSet(c.values))
    BY <1>3 DEF Passes, Match, IsReader
  <2> QED
    BY <2>1 DEF ToSet
<1>4. CASE c.kind \in {"nop", "path"}
  BY <1>4 DEF Passes, IsReader
<1> QED
  BY <1>1, <1>2, <1>3, <1>4

\* The verdict of a checker does not depend on the body.
LEMMA CheckersIgnoreBodies ==
  ASSUME NEW c \in Checkers, NEW r, NEW b, NEW d
  PROVE  Passes(c, r, b) <=> Passes(c, r, d)
BY DEF Passes, Checkers, IsReader

-----------------------------------------------------------------------------
(* Types *)

\* A nonempty set of numbers has a least element.
LEMMA LeastNumber ==
  ASSUME NEW T \in SUBSET Nat, T # {}
  PROVE  First(T) \in T
<1> DEFINE Below == {pair \in Nat \X Nat : pair[1] < pair[2]}
<1>1. IsWellFoundedOn(Below, Nat)
  BY NatLessThanWellFounded, Zenon DEF OpToRel
<1>2. PICK least \in T : \A n \in T : ~(<<n, least>> \in Below)
  <2> HIDE DEF Below
  <2> QED
    BY <1>1, WFMin
<1>3. \A n \in T : ~(n < least) /\ n \in Nat
  BY <1>2
<1>4. \A n \in T : least <= n
  BY <1>3
<1> QED
  BY <1>4, Zenon DEF First

\* The expectation that testify selects is one, and it selects the request.
LEMMA FirstCandidate ==
  ASSUME TypeOK, NEW r \in Requests, Candidates(r) # {}
  PROVE  First(Candidates(r)) \in DOMAIN calls /\ Selects(calls[First(Candidates(r))], r)
<1>1. DOMAIN calls \subseteq Nat
  BY LenProperties DEF TypeOK
<1>2. Candidates(r) \in SUBSET Nat
  BY <1>1 DEF Candidates
<1>3. First(Candidates(r)) \in Candidates(r)
  BY <1>2, LeastNumber
<1> QED
  BY <1>3 DEF Candidates

\* An expectation may be given one more asserter.
LEMMA GivenAsserter ==
  ASSUME NEW e \in Expectations, NEW a \in Asserters
  PROVE  [e EXCEPT !.own = Append(@, a)] \in Expectations
<1>1. Append(e.own, a) \in Seq(Asserters)
  BY AppendProperties DEF Expectations
<1> QED
  BY <1>1 DEF Expectations

\* Reading a body to its end leaves one.
LEMMA DrainedBody ==
  ASSUME NEW b \in Bodies
  PROVE  /\ Drained(b) \in Bodies /\ [Drained(b) EXCEPT !.closed = TRUE] \in Bodies
         /\ [b EXCEPT !.closed = TRUE] \in Bodies
BY DEF Drained, Bodies

\* No request is in flight while the mock is set up.
LEMMA SetUpIdles ==
  ASSUME SetUp
  PROVE  /\ UNCHANGED <<body, pc, request, call, todo, sent, failing, green>>
         /\ \A g \in Goroutines : pc[g] = "idle" /\ ~InFlight(g) /\ ~InFlight(g)'
BY DEF SetUp, AssertRequest, OnAny, OnRequest, OnMatchAll, OnMatchAny, On, CallAssertRequest,
   CallRun, CallReturn, CallOnce, InheritedRun, Change, SetNext, Configure, trips, Idle, InFlight

LEMMA SetUpTypes ==
  ASSUME TypeOK, SetUp
  PROVE  TypeOK'
<1>1. SUFFICES asserters' \in Seq(Asserters) /\ calls' \in Seq(Expectations) /\ next' \in BOOLEAN
  <2>1. UNCHANGED <<body, pc, request, call, todo, sent, failing, green>>
    BY SetUpIdles
  <2> QED
    BY <2>1 DEF TypeOK
<1> USE DEF TypeOK
<1>2. CASE \E a \in Asserters : AssertRequest(a)
  BY <1>2, AppendProperties DEF AssertRequest
<1>3. CASE OnAny \/ (\E r \in Requests : OnRequest(r)) \/ (\E rms \in Selections : OnMatchAll(rms) \/ OnMatchAny(rms))
  <2>1. PICK kind \in {"any request", "request", "all", "any"},
             these \in (SUBSET Requests) \cup (SUBSET Checkers) :
          On(kind, these) /\ (kind = "all" => these \subseteq Checkers)
    <3> HIDE DEF TypeOK
    <3>1. CASE OnAny
      <4>1. On("any request", {})
        BY <3>1 DEF OnAny
      <4> QED
        BY <4>1
    <3>2. ASSUME NEW r \in Requests, OnRequest(r)
          PROVE  \E these \in SUBSET Requests : On("request", these)
      BY <3>2 DEF OnRequest
    <3>3. ASSUME NEW rms \in Selections, OnMatchAll(rms) \/ OnMatchAny(rms)
          PROVE  \E these \in SUBSET Checkers : On("all", these) \/ On("any", these)
      BY <3>3, MockConstants DEF OnMatchAll, OnMatchAny
    <3> QED
      BY <1>3, <3>1, <3>2, <3>3
  <2> DEFINE e == [kind |-> kind, these |-> these, own |-> <<>>, runs |-> TRUE, func |-> FALSE,
                   returns |-> FALSE, times |-> 0]
  <2>2. e \in Expectations
    BY <2>1, EmptySeq DEF Expectations
  <2>3. calls' = Append(calls, e) /\ UNCHANGED <<asserters, next>>
    BY <2>1 DEF On
  <2> HIDE DEF e
  <2> QED
    BY <2>2, <2>3, AppendProperties
<1>4. CASE SetNext
  BY <1>4 DEF SetNext
<1>5. ASSUME NEW c \in DOMAIN calls,
             \/ \E a \in Asserters : CallAssertRequest(c, a)
             \/ CallRun(c) \/ CallReturn(c) \/ CallOnce(c) \/ InheritedRun(c)
      PROVE  asserters' \in Seq(Asserters) /\ calls' \in Seq(Expectations) /\ next' \in BOOLEAN
  <2>1. calls[c] \in Expectations
    BY ElementOfSeq, LenProperties
  <2>2. PICK e \in Expectations : calls' = [calls EXCEPT ![c] = e] /\ UNCHANGED <<asserters, next>>
    <3>1. CASE \E a \in Asserters : CallAssertRequest(c, a)
      BY <2>1, <3>1, GivenAsserter DEF CallAssertRequest, Change
    <3>2. CASE CallRun(c)
      BY <2>1, <3>2 DEF CallRun, Change, Expectations
    <3>3. CASE CallReturn(c)
      BY <2>1, <3>3 DEF CallReturn, Change, Expectations
    <3>4. CASE CallOnce(c)
      BY <2>1, <3>4 DEF CallOnce, Change, Expectations
    <3>5. CASE InheritedRun(c)
      BY <2>1, <3>5 DEF InheritedRun, Change, Expectations
    <3> QED
      BY <1>5, <3>1, <3>2, <3>3, <3>4, <3>5
  <2> QED
    BY <2>2, ExceptSeq
<1> QED
  BY <1>2, <1>3, <1>4, <1>5 DEF SetUp

\* Finding an expectation uses it up at most.
LEMMA UsedExpectation ==
  ASSUME TypeOK, NEW g \in Goroutines, NEW r \in Requests, Called(g, r)
  PROVE  /\ calls' \in Seq(Expectations) /\ DOMAIN calls' = DOMAIN calls
         /\ \A c \in DOMAIN calls :
              /\ calls[c] \in Expectations
              /\ \E t \in {-1, 0, 1} : calls'[c] = [calls[c] EXCEPT !.times = t]
<1> DEFINE c == First(Candidates(r))
           e == [calls[c] EXCEPT !.times = IF @ = 1 THEN -1 ELSE @]
<1>1. c \in DOMAIN calls
  BY FirstCandidate DEF Called
<1>2. \A d \in DOMAIN calls : calls[d] \in Expectations
  BY ElementOfSeq, LenProperties DEF TypeOK
<1>3. calls' = [calls EXCEPT ![c] = e]
  BY DEF Called
<1> HIDE DEF c
<1>4. e \in Expectations
  BY <1>1, <1>2 DEF Expectations
<1>5. \E t \in {-1, 0, 1} : e = [calls[c] EXCEPT !.times = t]
  BY <1>1, <1>2 DEF Expectations
<1>6. \A d \in DOMAIN calls : \E t \in {-1, 0, 1} : calls[d] = [calls[d] EXCEPT !.times = t]
  BY <1>2 DEF Expectations
<1> HIDE DEF e
<1>7. calls' \in Seq(Expectations) /\ DOMAIN calls' = DOMAIN calls
  BY <1>1, <1>3, <1>4, ExceptSeq DEF TypeOK
<1>8. \A d \in DOMAIN calls : calls'[d] = IF d = c THEN e ELSE calls[d]
  BY <1>1, <1>3
<1> QED
  BY <1>2, <1>5, <1>6, <1>7, <1>8

LEMMA TripTypes ==
  ASSUME TypeOK, TripInv, NEW g \in Goroutines, RoundTrip(g)
  PROVE  TypeOK'
<1> USE DEF TypeOK
<1>1. \A r \in Requests : body[r.id] \in Bodies
  OBVIOUS
<1>2. ASSUME NEW r \in Requests, Called(g, r)
      PROVE  TypeOK'
  <2> DEFINE c == First(Candidates(r))
             list == IF calls[c].runs THEN ApplyAsserters(calls[c]) ELSE <<>>
  <2>1. c \in DOMAIN calls /\ c \in Nat
    BY <1>2, FirstCandidate, LenProperties DEF Called
  <2>2. calls' \in Seq(Expectations)
    BY <1>2, UsedExpectation
  <2>3. call' = [call EXCEPT ![g] = c] /\ todo' = [todo EXCEPT ![g] = list]
    BY <1>2 DEF Called
  <2> HIDE DEF c
  <2>4. calls[c] \in Expectations
    BY <2>1, ElementOfSeq, LenProperties
  <2>5. list \in Seq(Asserters)
    <3>1. calls[c].own \in Seq(Asserters)
      BY <2>4 DEF Expectations
    <3> QED
      BY <3>1, ConcatProperties, EmptySeq DEF ApplyAsserters
  <2> HIDE DEF list
  <2>6. call' \in [Goroutines -> Nat] /\ todo' \in [Goroutines -> Seq(Asserters)]
    BY <2>1, <2>3, <2>5
  <2>7. sent' \in [Goroutines -> Bodies] /\ failing' \in [Goroutines -> SUBSET Asserters]
    BY <1>1, <1>2 DEF Called
  <2>8. /\ pc' \in [Goroutines -> {"idle", "run", "return", "answered", "gone"}]
        /\ DOMAIN request' = Goroutines /\ UNCHANGED <<asserters, next, setup, body, green>>
    BY <1>2 DEF Called
  <2> QED
    BY <2>2, <2>6, <2>7, <2>8
<1>3. ASSUME NEW r \in Requests, Unexpected(g, r)
      PROVE  TypeOK'
  BY <1>3 DEF Unexpected, mock
<1>4. ASSUME RunAsserter(g) \/ RunFunc(g) \/ Return(g) \/ Resume(g)
      PROVE  TypeOK'
  <2> DEFINE r == request[g]
             b == body[r.id]
  <2>1. InFlight(g)
    BY <1>4 DEF InFlight, RunAsserter, RunFunc, Return, Resume
  <2>2. r \in Requests /\ b \in Bodies
    BY <1>1, <2>1 DEF TripInv
  <2>3. /\ Drained(b) \in Bodies /\ [Drained(b) EXCEPT !.closed = TRUE] \in Bodies
        /\ [b EXCEPT !.closed = TRUE] \in Bodies /\ [left |-> r.body, closed |-> FALSE] \in Bodies
    <3>1. [left |-> r.body, closed |-> FALSE] \in Bodies
      BY <2>2 DEF Bodies
    <3> QED
      BY <2>2, <3>1, DrainedBody
  <2> HIDE DEF b
  <2>4. CASE RunAsserter(g)
    <3>1. todo[g] \in Seq(Asserters) /\ todo[g] # <<>>
      BY <2>4 DEF RunAsserter
    <3>2. Head(todo[g]) \in Asserters /\ Tail(todo[g]) \in Seq(Asserters)
      BY <3>1, HeadTailProperties
    <3>3. failing' \in [Goroutines -> SUBSET Asserters] /\ todo' \in [Goroutines -> Seq(Asserters)]
      BY <2>4, <3>2 DEF RunAsserter
    <3>4. \/ body' = body
          \/ body' = [body EXCEPT ![r.id] = Drained(b)]
      BY <2>4 DEF RunAsserter, b
    <3>5. body' \in [{q.id : q \in Requests} -> Bodies]
      BY <2>3, <3>4
    <3>6. green' \in BOOLEAN /\ UNCHANGED <<mock, pc, request, call, sent>>
      BY <2>4 DEF RunAsserter
    <3> QED
      BY <3>3, <3>5, <3>6 DEF mock
  <2>5. CASE RunFunc(g)
    <3>1. body' = body \/ body' = [body EXCEPT ![r.id] = Drained(b)]
      BY <2>5 DEF RunFunc, b
    <3>2. body' \in [{q.id : q \in Requests} -> Bodies]
      BY <2>3, <3>1
    <3> QED
      BY <2>5, <3>2 DEF RunFunc, mock
  <2>6. CASE Return(g)
    <3>1. body' = body \/ body' = [body EXCEPT ![r.id] = [Drained(b) EXCEPT !.closed = TRUE]]
      BY <2>6, Zenon DEF Return, b
    <3>2. body' \in [{q.id : q \in Requests} -> Bodies]
      BY <2>3, <3>1
    <3> QED
      BY <2>6, <3>2 DEF Return, mock
  <2>7. CASE Resume(g)
    <3>1. \/ body' = body
          \/ body' = [body EXCEPT ![r.id] = [b EXCEPT !.closed = TRUE]]
          \/ body' = [body EXCEPT ![r.id] = [left |-> r.body, closed |-> FALSE]]
      BY <2>7 DEF Resume, b
    <3>2. body' \in [{q.id : q \in Requests} -> Bodies]
      BY <2>3, <3>1
    <3>3. Nothing \in Bodies
      BY DEF Nothing, Bodies
    <3> QED
      BY <2>7, <3>2, <3>3 DEF Resume, Forget, mock
  <2> QED
    BY <1>4, <2>4, <2>5, <2>6, <2>7
<1> QED
  BY <1>2, <1>3, <1>4 DEF RoundTrip

-----------------------------------------------------------------------------
(* What a goroutine leaves to the others *)

\* A goroutine moves no other one, and no expectation but for its Times.
LEMMA OthersUnmoved ==
  ASSUME TypeOK, NEW g \in Goroutines, RoundTrip(g)
  PROVE  /\ asserters' = asserters /\ DOMAIN calls' = DOMAIN calls
         /\ \A c \in DOMAIN calls :
              /\ calls'[c].kind = calls[c].kind /\ calls'[c].these = calls[c].these
              /\ calls'[c].own = calls[c].own /\ calls'[c].runs = calls[c].runs
              /\ \A r : Selects(calls'[c], r) <=> Selects(calls[c], r)
         /\ \A o \in Goroutines : o # g =>
              /\ pc'[o] = pc[o] /\ request'[o] = request[o] /\ call'[o] = call[o]
              /\ todo'[o] = todo[o] /\ sent'[o] = sent[o] /\ failing'[o] = failing[o]
<1> USE DEF TypeOK
<1>1. CASE \E r \in Requests : Called(g, r)
  <2>1. PICK r \in Requests : Called(g, r)
    BY <1>1
  <2>2. /\ DOMAIN calls' = DOMAIN calls
        /\ \A c \in DOMAIN calls :
             /\ calls[c] \in Expectations
             /\ \E t \in {-1, 0, 1} : calls'[c] = [calls[c] EXCEPT !.times = t]
    BY <2>1, UsedExpectation
  <2>3. \A c \in DOMAIN calls :
              /\ calls'[c].kind = calls[c].kind /\ calls'[c].these = calls[c].these
              /\ calls'[c].own = calls[c].own /\ calls'[c].runs = calls[c].runs
    BY <2>2, ZenonT(60) DEF Expectations
  <2>4. \A c \in DOMAIN calls : \A q : Selects(calls'[c], q) <=> Selects(calls[c], q)
    BY <2>3 DEF Selects
  <2> QED
    BY <2>1, <2>2, <2>3, <2>4 DEF Called
<1>2. CASE \E r \in Requests : Unexpected(g, r)
  BY <1>2 DEF Unexpected, mock
<1>3. CASE RunAsserter(g) \/ RunFunc(g) \/ Return(g) \/ Resume(g)
  BY <1>3 DEF RunAsserter, RunFunc, Return, Resume, Forget, mock
<1> QED
  BY <1>1, <1>2, <1>3 DEF RoundTrip

\* A goroutine in flight goes on with its request and its expectation, or lands.
LEMMA FlightContinues ==
  ASSUME TypeOK, NEW g \in Goroutines, RunAsserter(g) \/ RunFunc(g) \/ Return(g) \/ Resume(g), InFlight(g)'
  PROVE  /\ InFlight(g) /\ request'[g] = request[g] /\ call'[g] = call[g] /\ calls' = calls
         /\ sent'[g] = sent[g] /\ asserters' = asserters
BY DEF RunAsserter, RunFunc, Return, Resume, Forget, mock, InFlight, TypeOK

\* What a goroutine is in flight with after any of its steps.
LEMMA TripsSelected ==
  ASSUME TypeOK, TripInv, NEW g \in Goroutines, RoundTrip(g)
  PROVE  TripInv'
<1>1. /\ DOMAIN calls' = DOMAIN calls
      /\ \A c \in DOMAIN calls : \A r : Selects(calls'[c], r) <=> Selects(calls[c], r)
      /\ \A o \in Goroutines : o # g =>
           pc'[o] = pc[o] /\ request'[o] = request[o] /\ call'[o] = call[o] /\ todo'[o] = todo[o]
  BY OthersUnmoved
<1>2. \A o \in Goroutines : o # g => (InFlight(o)' <=> InFlight(o))
  BY <1>1 DEF InFlight
<1>3. InFlight(g)' =>
        /\ request'[g] \in Requests /\ call'[g] \in DOMAIN calls
        /\ Selects(calls[call'[g]], request'[g])
        /\ \A o \in Goroutines : InFlight(o) /\ request[o] = request'[g] => o = g
  <2>1. ASSUME NEW r \in Requests, Called(g, r)
        PROVE  /\ request'[g] = r /\ call'[g] = First(Candidates(r))
               /\ \A o \in Goroutines : InFlight(o) => request[o] # r
    BY <2>1 DEF Called, Ready, TypeOK, InFlight
  <2>2. ASSUME NEW r \in Requests, Unexpected(g, r)
        PROVE  ~InFlight(g)'
    BY <2>2 DEF Unexpected, TypeOK, InFlight
  <2>3. CASE RunAsserter(g) \/ RunFunc(g) \/ Return(g) \/ Resume(g)
    BY <2>3, FlightContinues DEF TripInv
  <2>4. ASSUME NEW r \in Requests, Called(g, r)
        PROVE  First(Candidates(r)) \in DOMAIN calls /\ Selects(calls[First(Candidates(r))], r)
    BY <2>4, FirstCandidate DEF Called
  <2>5. CASE \E r \in Requests : Called(g, r)
    BY <2>1, <2>4, <2>5
  <2> QED
    BY <2>2, <2>3, <2>5 DEF RoundTrip
<1>4. pc'[g] \in {"return", "answered"} => todo'[g] = <<>>
  <2>1. ASSUME NEW r \in Requests, Called(g, r) \/ Unexpected(g, r)
        PROVE  pc'[g] \in {"run", "gone"}
    BY <2>1 DEF Called, Unexpected, TypeOK
  <2>2. CASE RunAsserter(g) \/ RunFunc(g) \/ Return(g) \/ Resume(g)
    BY <2>2 DEF RunAsserter, RunFunc, Return, Resume, Forget, TypeOK, TripInv
  <2> QED
    BY <2>1, <2>2 DEF RoundTrip
<1>5. \A p, o \in Goroutines : InFlight(p)' /\ InFlight(o)' /\ request'[o] = request'[p] => o = p
  <2> SUFFICES ASSUME NEW p \in Goroutines, NEW o \in Goroutines, InFlight(p)', InFlight(o)',
                      request'[o] = request'[p], o # p
               PROVE  FALSE
    OBVIOUS
  <2>1. CASE p # g /\ o # g
    BY <1>1, <1>2, <2>1 DEF TripInv
  <2>2. CASE p = g
    BY <1>1, <1>2, <1>3, <2>2
  <2>3. CASE o = g
    BY <1>1, <1>2, <1>3, <2>3
  <2> QED
    BY <2>1, <2>2, <2>3
<1>6. ASSUME NEW o \in Goroutines, InFlight(o)'
      PROVE  request'[o] \in Requests /\ call'[o] \in DOMAIN calls' /\ Selects(calls'[call'[o]], request'[o])
  <2>1. CASE o = g
    BY <1>1, <1>3, <1>6, <2>1
  <2>2. CASE o # g
    BY <1>1, <1>2, <1>6, <2>2 DEF TripInv
  <2> QED
    BY <2>1, <2>2
<1>7. \A o \in Goroutines : pc'[o] \in {"return", "answered"} => todo'[o] = <<>>
  BY <1>1, <1>4 DEF TripInv
<1> QED
  BY <1>5, <1>6, <1>7 DEF TripInv

\* Each checker that fails is one that the request does not pass.
LEMMA TripsFail ==
  ASSUME TypeOK, TripInv, FailInv, NEW g \in Goroutines, RoundTrip(g)
  PROVE  FailInv'
<1> SUFFICES ASSUME NEW o \in Goroutines, InFlight(o)', NEW a \in failing'[o], ~IsReader(a)
             PROVE  ~Passes(a, request'[o], Nothing)
  BY DEF FailInv
<1>1. CASE o # g
  <2>1. InFlight(o) /\ request'[o] = request[o] /\ failing'[o] = failing[o]
    BY <1>1, OthersUnmoved DEF InFlight
  <2> QED
    BY <2>1 DEF FailInv
<1>2. CASE o = g /\ RunAsserter(g)
  <2> DEFINE h == Head(todo[g])
  <2>1. request'[g] = request[g] /\ InFlight(g) /\ request[g] \in Requests
    BY <1>2 DEF RunAsserter, InFlight, TripInv
  <2>2. CASE a \in failing[g]
    BY <1>2, <2>1, <2>2 DEF FailInv
  <2>3. CASE a \notin failing[g]
    <3>1. todo[g] \in Seq(Asserters) /\ todo[g] # <<>>
      BY <1>2 DEF RunAsserter, TypeOK
    <3>2. h \in Asserters
      BY <3>1, HeadTailProperties
    <3>3. a = h /\ ~Passes(h, request[g], body[request[g].id])
      BY <1>2, <2>3 DEF RunAsserter, TypeOK
    <3>4. h \in Checkers
      BY <3>2, <3>3 DEF Checkers
    <3> HIDE DEF h
    <3> QED
      BY <1>2, <2>1, <3>3, <3>4, CheckersIgnoreBodies
  <2> QED
    BY <2>2, <2>3
<1>3. CASE o = g /\ (RunFunc(g) \/ Return(g) \/ Resume(g))
  <2>1. InFlight(g) /\ request'[g] = request[g]
    BY <1>3, FlightContinues
  <2>2. failing'[g] = failing[g]
    BY <1>3 DEF RunFunc, Return, Resume, Forget, InFlight, TypeOK
  <2> QED
    BY <1>3, <2>1, <2>2 DEF FailInv
<1>4. CASE o = g /\ \E r \in Requests : Called(g, r) \/ Unexpected(g, r)
  BY <1>4 DEF Called, Unexpected, InFlight, TypeOK
<1> QED
  BY <1>1, <1>2, <1>3, <1>4 DEF RoundTrip

\* What is due for a request stays so for as long as it is in flight.
LEMMA DueStays ==
  ASSUME TypeOK, TripInv, NEW g \in Goroutines, RoundTrip(g), NEW o \in Goroutines, InFlight(o),
         call'[o] = call[o]
  PROVE  Due(o)' = Due(o)
<1>1. call[o] \in DOMAIN calls
  BY DEF TripInv
<1>2. /\ asserters' = asserters /\ calls'[call[o]].runs = calls[call[o]].runs
      /\ calls'[call[o]].own = calls[call[o]].own
  BY <1>1, OthersUnmoved
<1> QED
  BY <1>2 DEF Due

\* What is due is a sequence of asserters.
LEMMA DueAsserters ==
  ASSUME TypeOK, TripInv, NEW g \in Goroutines, InFlight(g)
  PROVE  Due(g) \in Seq(Asserters)
<1> DEFINE e == calls[call[g]]
<1>1. e \in Expectations
  BY ElementOfSeq, LenProperties DEF TripInv, TypeOK
<1>2. e.own \in Seq(Asserters)
  BY <1>1 DEF Expectations
<1> QED
  BY <1>2, ConcatProperties, EmptySeq DEF Due, TypeOK

\* At first all that is due is left to do.
LEMMA DueAtFirst ==
  ASSUME TypeOK, NEW g \in Goroutines, NEW r \in Requests, Called(g, r)
  PROVE  todo'[g] = Due(g)' /\ request'[g] = r /\ sent'[g] = body[r.id] /\ pc'[g] = "run"
<1> DEFINE c == First(Candidates(r))
<1>1. c \in DOMAIN calls
  BY FirstCandidate DEF Called
<1>2. asserters' = asserters /\ calls'[c].runs = calls[c].runs /\ calls'[c].own = calls[c].own
  <2>1. RoundTrip(g)
    BY DEF RoundTrip
  <2> HIDE DEF c
  <2> QED
    BY <1>1, <2>1, OthersUnmoved
<1>3. call'[g] = c /\ todo'[g] = IF calls[c].runs THEN ApplyAsserters(calls[c]) ELSE <<>>
  BY DEF Called, TypeOK
<1>4. request'[g] = r /\ sent'[g] = body[r.id] /\ pc'[g] = "run"
  BY DEF Called, TypeOK
<1> HIDE DEF c
<1>5. Due(g)' = IF calls[c].runs THEN asserters \o calls[c].own ELSE <<>>
  BY <1>2, <1>3 DEF Due
<1> QED
  BY <1>3, <1>4, <1>5 DEF ApplyAsserters

\* The next asserter is the one due after those that have run.
LEMMA NextDue ==
  ASSUME TypeOK, TripInv, TodoInv, NEW g \in Goroutines, RunAsserter(g)
  PROVE  /\ Due(g)' = Due(g) /\ Ran(g) \in Nat /\ Ran(g)' = Ran(g) + 1
         /\ Ran(g) + 1 \in 1..Len(Due(g)) /\ Head(todo[g]) = Due(g)[Ran(g) + 1]
         /\ todo'[g] = Tail(todo[g])
<1>1. /\ InFlight(g) /\ call'[g] = call[g] /\ todo'[g] = Tail(todo[g])
      /\ todo[g] \in Seq(Asserters) /\ todo[g] # <<>>
  BY DEF RunAsserter, InFlight, TypeOK
<1>2. Due(g)' = Due(g)
  <2>1. RoundTrip(g)
    BY DEF RoundTrip
  <2> QED
    BY <1>1, <2>1, DueStays
<1>3. Len(Due(g)) \in Nat
  BY <1>1, DueAsserters, LenProperties
<1>4. Ran(g) \in Nat /\ \A k \in DOMAIN todo[g] : todo[g][k] = Due(g)[Ran(g) + k]
  BY <1>1 DEF TodoInv
<1>5. /\ Len(todo[g]) \in Nat \ {0} /\ 1 \in DOMAIN todo[g] /\ Head(todo[g]) = todo[g][1]
      /\ Len(Tail(todo[g])) = Len(todo[g]) - 1
  BY <1>1, LenProperties, HeadTailProperties
<1>6. Ran(g)' = Ran(g) + 1
  <2>1. Ran(g)' = Len(Due(g)') - Len(todo'[g])
    BY DEF Ran
  <2>2. Len(Due(g)') = Len(Due(g)) /\ Len(todo'[g]) = Len(todo[g]) - 1
    BY <1>1, <1>2, <1>5
  <2> QED
    BY <1>3, <1>5, <2>1, <2>2 DEF Ran
<1>7. Ran(g) + 1 \in 1..Len(Due(g))
  BY <1>3, <1>4, <1>5 DEF Ran
<1> QED
  BY <1>1, <1>2, <1>4, <1>5, <1>6, <1>7

\* A goroutine in flight after a step has just taken off, has run an asserter, or
\* has left its asserters as they were.
LEMMA FlightCases ==
  ASSUME TypeOK, TripInv, NEW g \in Goroutines, RoundTrip(g), NEW o \in Goroutines, InFlight(o)'
  PROVE  \/ o = g /\ \E r \in Requests : Called(g, r)
         \/ o = g /\ RunAsserter(g)
         \/ /\ InFlight(o) /\ request'[o] = request[o] /\ call'[o] = call[o] /\ todo'[o] = todo[o]
            /\ sent'[o] = sent[o] /\ Due(o)' = Due(o) /\ Ran(o)' = Ran(o)
            /\ o = g => ~RunAsserter(g) /\ pc'[o] # "run"
<1>1. CASE o # g
  <2>1. /\ InFlight(o) /\ request'[o] = request[o] /\ call'[o] = call[o] /\ todo'[o] = todo[o]
        /\ sent'[o] = sent[o]
    BY <1>1, OthersUnmoved DEF InFlight
  <2>2. Due(o)' = Due(o)
    BY <2>1, DueStays
  <2>3. Ran(o)' = Ran(o)
    BY <2>1, <2>2 DEF Ran
  <2> QED
    BY <1>1, <2>1, <2>2, <2>3
<1>2. CASE o = g /\ ~RunAsserter(g) /\ (RunFunc(g) \/ Return(g) \/ Resume(g))
  <2>1. InFlight(g) /\ request'[g] = request[g] /\ call'[g] = call[g] /\ sent'[g] = sent[g]
    BY <1>2, FlightContinues
  <2>2. todo'[g] = todo[g] /\ pc'[g] # "run"
    BY <1>2 DEF RunFunc, Return, Resume, Forget, InFlight, TypeOK
  <2>3. Due(g)' = Due(g)
    BY <2>1, DueStays
  <2>4. Ran(g)' = Ran(g)
    BY <2>2, <2>3 DEF Ran
  <2> QED
    BY <1>2, <2>1, <2>2, <2>3, <2>4
<1>3. ~\E r \in Requests : o = g /\ Unexpected(g, r)
  BY DEF Unexpected, InFlight, TypeOK
<1> QED
  BY <1>1, <1>2, <1>3 DEF RoundTrip

\* The asserters left are the rest of those due.
LEMMA TripsTodo ==
  ASSUME TypeOK, TripInv, TodoInv, NEW g \in Goroutines, RoundTrip(g), TypeOK', TripInv'
  PROVE  TodoInv'
<1> SUFFICES ASSUME NEW o \in Goroutines, InFlight(o)'
             PROVE  /\ Ran(o)' \in Nat
                    /\ \A k \in DOMAIN todo'[o] : todo'[o][k] = Due(o)'[Ran(o)' + k]
  BY DEF TodoInv
<1>1. CASE o = g /\ \E r \in Requests : Called(g, r)
  <2>1. todo'[g] = Due(g)' /\ todo'[g] \in Seq(Asserters)
    BY <1>1, DueAtFirst DEF TypeOK
  <2>2. Len(todo'[g]) \in Nat /\ DOMAIN todo'[g] = 1..Len(todo'[g])
    BY <2>1, LenProperties
  <2>3. Ran(g)' = 0
    BY <2>1, <2>2 DEF Ran
  <2> QED
    BY <1>1, <2>1, <2>2, <2>3
<1>2. CASE o = g /\ RunAsserter(g)
  <2>1. /\ Due(g)' = Due(g) /\ Ran(g) \in Nat /\ Ran(g)' = Ran(g) + 1
        /\ todo'[g] = Tail(todo[g])
    BY <1>2, NextDue
  <2>2. InFlight(g) /\ todo[g] \in Seq(Asserters) /\ todo[g] # <<>>
    BY <1>2 DEF RunAsserter, InFlight, TypeOK
  <2>3. \A k \in DOMAIN todo[g] : todo[g][k] = Due(g)[Ran(g) + k]
    BY <2>2 DEF TodoInv
  <2>4. ASSUME NEW k \in DOMAIN todo'[g]
        PROVE  todo'[g][k] = Due(g)[Ran(g) + 1 + k]
    <3>1. /\ DOMAIN todo[g] = 1..Len(todo[g]) /\ Len(todo[g]) \in Nat
          /\ DOMAIN Tail(todo[g]) = 1..(Len(todo[g]) - 1)
      BY <2>2, LenProperties, HeadTailProperties
    <3>2. k \in Nat /\ k + 1 \in DOMAIN todo[g] /\ Tail(todo[g])[k] = todo[g][k + 1]
      BY <2>1, <2>2, <3>1, HeadTailProperties
    <3>3. todo[g][k + 1] = Due(g)[Ran(g) + (k + 1)]
      BY <2>3, <3>2
    <3>4. Ran(g) + (k + 1) = Ran(g) + 1 + k
      BY <2>1, <3>2
    <3> QED
      BY <2>1, <3>2, <3>3, <3>4
  <2> QED
    BY <1>2, <2>1, <2>4
<1>3. CASE InFlight(o) /\ todo'[o] = todo[o] /\ Due(o)' = Due(o) /\ Ran(o)' = Ran(o)
  BY <1>3 DEF TodoInv
<1> QED
  BY <1>1, <1>2, <1>3, FlightCases

\* A goroutine leaves the bodies of the requests of the others alone.
LEMMA OthersBodies ==
  ASSUME TypeOK, TripInv, NEW g \in Goroutines, RoundTrip(g), NEW o \in Goroutines, InFlight(o), o # g
  PROVE  body'[request[o].id] = body[request[o].id]
<1>1. CASE \E r \in Requests : Called(g, r) \/ Unexpected(g, r)
  BY <1>1 DEF Called, Unexpected
<1>2. CASE RunAsserter(g) \/ RunFunc(g) \/ Return(g) \/ Resume(g)
  <2>1. InFlight(g)
    BY <1>2 DEF InFlight, RunAsserter, RunFunc, Return, Resume
  <2>2. request[g].id # request[o].id
    BY <2>1, MockConstants DEF TripInv
  <2>3. body' = body \/ \E b : body' = [body EXCEPT ![request[g].id] = b]
    BY <1>2, Zenon DEF RunAsserter, RunFunc, Return, Resume
  <2>4. request[o].id \in DOMAIN body
    BY DEF TripInv, TypeOK
  <2> QED
    BY <2>2, <2>3, <2>4
<1> QED
  BY <1>1, <1>2 DEF RoundTrip

\* The asserters read the body of the request one after another.
LEMMA TripsBody ==
  ASSUME TypeOK, TripInv, TodoInv, BodyInv, NEW g \in Goroutines, RoundTrip(g)
  PROVE  BodyInv'
<1> SUFFICES ASSUME NEW o \in Goroutines, pc'[o] = "run", request'[o].body # NoBody
             PROVE  body'[request'[o].id] =
                      IF \E k \in 1..Ran(o)' : IsReader(Due(o)'[k]) THEN Drained(sent'[o]) ELSE sent'[o]
  BY DEF BodyInv
<1>1. CASE o = g /\ \E r \in Requests : Called(g, r)
  <2>1. PICK r \in Requests : Called(g, r)
    BY <1>1
  <2>2. todo'[g] = Due(g)' /\ request'[g] = r /\ sent'[g] = body[r.id]
    BY <2>1, DueAtFirst
  <2>3. todo'[g] \in Seq(Asserters)
    <3>1. TypeOK'
      BY TripTypes
    <3> QED
      BY <3>1 DEF TypeOK
  <2>4. Len(todo'[g]) \in Nat
    BY <2>3, LenProperties
  <2>5. Ran(g)' = 0
    BY <2>2, <2>4 DEF Ran
  <2>6. body' = body
    BY <2>1 DEF Called
  <2> QED
    BY <1>1, <2>2, <2>5, <2>6
<1>2. CASE o = g /\ RunAsserter(g)
  <2> DEFINE r == request[g]
             due == Due(g)
             n == Ran(g)
             a == Head(todo[g])
  <2>1. /\ Due(g)' = due /\ n \in Nat /\ Ran(g)' = n + 1 /\ a = due[n + 1]
    BY <1>2, NextDue
  <2>2. /\ r \in Requests /\ r.id \in DOMAIN body /\ r.body # NoBody
        /\ request'[g] = r /\ sent'[g] = sent[g] /\ sent[g] \in Bodies
    BY <1>2 DEF RunAsserter, InFlight, TripInv, TypeOK
  <2>3. body[r.id] = IF \E k \in 1..n : IsReader(due[k]) THEN Drained(sent[g]) ELSE sent[g]
    BY <1>2, <2>2 DEF BodyInv, RunAsserter
  <2>4. body'[r.id] = IF IsReader(a) THEN Drained(body[r.id]) ELSE body[r.id]
    BY <1>2, <2>2 DEF RunAsserter
  <2>5. Drained(Drained(sent[g])) = Drained(sent[g])
    BY <2>2 DEF Drained, Bodies
  <2> HIDE DEF r, due, n, a
  <2>6. (\E k \in 1..(n + 1) : IsReader(due[k])) <=> (\E k \in 1..n : IsReader(due[k])) \/ IsReader(a)
    <3>1. 1..(n + 1) = (1..n) \cup {n + 1}
      BY <2>1
    <3> QED
      BY <2>1, <3>1
  <2>7. body'[r.id] = IF \E k \in 1..(n + 1) : IsReader(due[k]) THEN Drained(sent[g]) ELSE sent[g]
    BY <2>3, <2>4, <2>5, <2>6
  <2> QED
    BY <1>2, <2>1, <2>2, <2>7
<1>3. CASE /\ InFlight(o) /\ request'[o] = request[o] /\ sent'[o] = sent[o] /\ o # g
           /\ Due(o)' = Due(o) /\ Ran(o)' = Ran(o)
  <2>1. body'[request[o].id] = body[request[o].id] /\ pc[o] = "run"
    BY <1>3, OthersBodies, OthersUnmoved
  <2> QED
    BY <1>3, <2>1 DEF BodyInv
<1>4. InFlight(o)'
  BY DEF InFlight
<1> QED
  BY <1>1, <1>2, <1>3, <1>4, FlightCases

\* What an asserter that passes establishes.
LEMMA AssertersCheck ==
  ASSUME TypeOK, TripInv, TodoInv, BodyInv, NEW g \in Goroutines, RunAsserter(g), green'
  PROVE  green /\ Checked(g, Ran(g) + 1)
<1> DEFINE r == request[g]
           due == Due(g)
           n == Ran(g)
           a == due[n + 1]
           b == body[r.id]
           before == \E k \in 1..n : IsReader(due[k])
<1>1. green /\ Passes(a, r, b)
  BY NextDue DEF RunAsserter
<1>2. r \in Requests /\ sent[g] \in Bodies /\ n \in Nat /\ n + 1 \in 1..Len(due) /\ InFlight(g)
  BY NextDue DEF RunAsserter, InFlight, TripInv, TypeOK
<1>3. a \in Asserters
  BY <1>2, DueAsserters, ElementOfSeq
<1>4. CASE ~IsReader(a)
  <2>1. Match(a, r)
    <3> HIDE DEF r, a, b
    <3> QED
      BY <1>1, <1>2, <1>3, <1>4, PassesMatches DEF Checkers
  <2> QED
    BY <1>1, <1>4, <2>1 DEF Checked
<1>5. CASE IsReader(a)
  <2>1. ReadsAs(a, r, b)
    BY <1>1, <1>5 DEF Passes, IsReader
  <2>2. r.body # NoBody => b = IF before THEN Drained(sent[g]) ELSE sent[g]
    BY DEF BodyInv, RunAsserter
  <2> DEFINE c == IF before THEN [sent[g] EXCEPT !.left = ""] ELSE sent[g]
  <2>3. r.body # NoBody => ~b.closed /\ b = c
    BY <1>2, <2>1, <2>2 DEF ReadsAs, Drained, Bodies
  <2>4. ReadsAs(a, r, c)
    <3> HIDE DEF c, b, r, a
    <3> QED
      BY <2>1, <2>3 DEF ReadsAs
  <2>5. 1..((n + 1) - 1) = 1..n
    BY <1>2
  <2> QED
    BY <1>1, <1>5, <2>4, <2>5 DEF Checked
<1> QED
  BY <1>4, <1>5

\* The test is green only for as long as every asserter has established its part.
LEMMA TripsGreen ==
  ASSUME TypeOK, TripInv, TodoInv, BodyInv, GreenInv, NEW g \in Goroutines, RoundTrip(g)
  PROVE  GreenInv'
<1> SUFFICES ASSUME NEW o \in Goroutines, green', InFlight(o)', NEW j \in 1..Ran(o)'
             PROVE  Checked(o, j)'
  BY DEF GreenInv
<1>1. green
  BY DEF RoundTrip, Called, Unexpected, RunAsserter, RunFunc, Return, Resume
<1>2. CASE o = g /\ \E r \in Requests : Called(g, r)
  <2>1. todo'[g] = Due(g)' /\ todo'[g] \in Seq(Asserters)
    <3>1. TypeOK'
      BY TripTypes
    <3> QED
      BY <1>2, <3>1, DueAtFirst DEF TypeOK
  <2>2. Ran(g)' = 0
    BY <2>1, LenProperties DEF Ran
  <2> QED
    BY <1>2, <2>2
<1>3. CASE /\ Due(o)' = Due(o) /\ request'[o] = request[o] /\ sent'[o] = sent[o] /\ Checked(o, j)
  BY <1>3 DEF Checked
<1>4. CASE o = g /\ RunAsserter(g)
  <2>1. Due(g)' = Due(g) /\ Ran(g) \in Nat /\ Ran(g)' = Ran(g) + 1
    BY <1>4, NextDue
  <2>2. InFlight(g) /\ request'[g] = request[g] /\ sent'[g] = sent[g]
    BY <1>4 DEF RunAsserter, InFlight
  <2>3. Checked(g, j)
    <3>1. Checked(g, Ran(g) + 1)
      BY <1>4, AssertersCheck
    <3>2. j \in 1..Ran(g) \/ j = Ran(g) + 1
      BY <1>4, <2>1
    <3> QED
      BY <1>1, <2>2, <3>1, <3>2 DEF GreenInv
  <2> QED
    BY <1>3, <1>4, <2>1, <2>2, <2>3
<1>5. CASE /\ InFlight(o) /\ request'[o] = request[o] /\ sent'[o] = sent[o]
           /\ Due(o)' = Due(o) /\ Ran(o)' = Ran(o)
  <2>1. Checked(o, j)
    BY <1>1, <1>5 DEF GreenInv
  <2> QED
    BY <1>3, <1>5, <2>1
<1> QED
  BY <1>2, <1>4, <1>5, FlightCases

-----------------------------------------------------------------------------
(* The theorems *)

LEMMA InitMock == Init => MockInv
<1> SUFFICES ASSUME Init PROVE MockInv
  OBVIOUS
<1>1. body \in [{r.id : r \in Requests} -> Bodies]
  <2>1. ASSUME NEW i \in {r.id : r \in Requests}
        PROVE  body[i] \in Bodies
    <3> DEFINE r == CHOOSE q \in Requests : q.id = i
    <3>1. r \in Requests
      OBVIOUS
    <3>2. body[i] = [left |-> IF r.body = NoBody THEN "" ELSE r.body, closed |-> FALSE]
      BY DEF Init
    <3> HIDE DEF r
    <3>3. r.body \in {q.body : q \in Requests}
      BY <3>1
    <3> DEFINE left == IF r.body = NoBody THEN "" ELSE r.body
    <3>4. left \in {q.body : q \in Requests} \cup {""}
      BY <3>3
    <3>5. body[i] = [left |-> left, closed |-> FALSE]
      BY <3>2
    <3> HIDE DEF left
    <3>6. [left |-> left, closed |-> FALSE] \in Bodies
      BY <3>4 DEF Bodies
    <3> QED
      BY <3>5, <3>6, Zenon
  <2> QED
    BY <2>1 DEF Init
<1>2. TypeOK
  <2>1. Nothing \in Bodies
    BY DEF Nothing, Bodies
  <2> QED
    BY <1>1, <2>1, EmptySeq DEF Init, TypeOK
<1>3. \A g \in Goroutines : pc[g] = "idle" /\ ~InFlight(g)
  BY DEF Init, InFlight
<1> QED
  BY <1>2, <1>3 DEF MockInv, TripInv, FailInv, TodoInv, BodyInv, GreenInv

LEMMA NextMock == MockInv /\ [Next]_vars => MockInv'
<1> SUFFICES ASSUME MockInv, [Next]_vars PROVE MockInv'
  OBVIOUS
<1> USE DEF MockInv
<1>1. CASE SetUp
  <2>1. TypeOK'
    BY <1>1, SetUpTypes
  <2>2. \A g \in Goroutines : pc'[g] = "idle" /\ ~InFlight(g)'
    BY <1>1, SetUpIdles
  <2> QED
    BY <2>1, <2>2 DEF TripInv, FailInv, TodoInv, BodyInv, GreenInv
<1>2. ASSUME NEW g \in Goroutines, RoundTrip(g)
      PROVE  MockInv'
  <2>1. TypeOK' /\ TripInv'
    BY <1>2, TripTypes, TripsSelected
  <2> QED
    BY <1>2, <2>1, TripsFail, TripsTodo, TripsBody, TripsGreen
<1>3. CASE UNCHANGED vars
  <2>1. UNCHANGED <<asserters, calls, next, body, pc, request, call, todo, sent, failing, green>>
    BY <1>3 DEF vars, mock, trips
  <2>2. TypeOK' /\ TripInv' /\ FailInv'
    BY <2>1 DEF TypeOK, TripInv, FailInv, InFlight
  <2>3. \A g \in Goroutines : /\ InFlight(g)' <=> InFlight(g)
                              /\ Due(g)' = Due(g) /\ Ran(g)' = Ran(g)
                              /\ \A j : Checked(g, j)' <=> Checked(g, j)
    BY <2>1 DEF InFlight, Due, Ran, Checked
  <2>4. TodoInv' /\ BodyInv' /\ GreenInv'
    BY <2>1, <2>3 DEF TodoInv, BodyInv, GreenInv
  <2> QED
    BY <2>2, <2>4
<1> QED
  BY <1>1, <1>2, <1>3 DEF Next

\* Whatever a test sets up and whatever is sent, every request in flight is one its
\* expectation selects, and the asserters due run in their order, each once.
THEOREM MockInvariant == Spec => []MockInv
BY InitMock, NextMock, PTL DEF Spec

\* A green test vouches for every request that was answered.
THEOREM GreenTestsVouch == Spec => []GreenMeansChecked
<1>1. MockInv => GreenMeansChecked
  <2> SUFFICES ASSUME MockInv, NEW g \in Goroutines, green, pc[g] = "answered"
               PROVE  Selects(calls[call[g]], request[g]) /\ \A j \in DOMAIN Due(g) : Checked(g, j)
    BY DEF GreenMeansChecked
  <2> USE DEF MockInv
  <2>1. InFlight(g)
    BY DEF InFlight
  <2>2. todo[g] = <<>> /\ Selects(calls[call[g]], request[g])
    BY <2>1 DEF TripInv
  <2>3. Due(g) \in Seq(Asserters)
    BY <2>1, DueAsserters
  <2>4. DOMAIN Due(g) = 1..Ran(g)
    BY <2>2, <2>3, LenProperties, EmptySeq DEF Ran
  <2> QED
    BY <2>1, <2>2, <2>4 DEF GreenInv
<1> QED
  BY <1>1, MockInvariant, PTL

\* A request that an expectation selected with a checker passes that checker, but
\* for header values that repeat.
THEOREM SelectionMeansPassing == Spec => []SelectedRequestsPass
<1>1. MockInv => SelectedRequestsPass
  <2> SUFFICES ASSUME MockInv, NEW g \in Goroutines, InFlight(g), calls[call[g]].kind = "all",
                      NEW a \in failing[g] \cap calls[call[g]].these
               PROVE  a.kind = "header" /\ ~IsInjective(a.values)
    BY DEF SelectedRequestsPass
  <2> USE DEF MockInv
  <2>1. call[g] \in DOMAIN calls /\ request[g] \in Requests /\ Selects(calls[call[g]], request[g])
    BY DEF TripInv
  <2>2. calls[call[g]] \in Expectations
    BY <2>1, ElementOfSeq, LenProperties DEF TypeOK
  <2>3. a \in Checkers /\ Match(a, request[g])
    BY <2>1, <2>2 DEF Expectations, Selects
  <2>4. ~Passes(a, request[g], Nothing)
    BY <2>3 DEF FailInv, Checkers
  <2> QED
    BY <2>1, <2>3, <2>4, MatchesPasses
<1> QED
  BY <1>1, MockInvariant, PTL
=============================================================================
