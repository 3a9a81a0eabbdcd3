------------------------------- MODULE Observe -------------------------------
(***************************************************************************)
(* Package observe: one http.ResponseWriter of net/http, the observable    *)
(* Writer that New decorates it with, the handler that writes to it and    *)
(* the OnWriteHeader callbacks the handler registers.  Everything runs on  *)
(* the goroutine of the request, so what interleaves is the program        *)
(* itself: callbacks run in the middle of a write, and a callback may      *)
(* panic or register another callback.                                     *)
(***************************************************************************)
EXTENDS Naturals, Sequences, FiniteSets

CONSTANTS
  Callbacks,    \* OnWriteHeader callbacks
  Panicky,      \* callbacks that may panic
  Registering,  \* callbacks that may register another one while they run
  Codes,        \* status codes the handler passes to WriteHeader
  MaxBytes      \* bound: bytes the response's body may hold

ASSUME ObserveConstants ==
  /\ IsFiniteSet(Callbacks)
  /\ Panicky \subseteq Callbacks
  /\ Registering \subseteq Callbacks
  /\ Codes \subseteq Nat
  /\ MaxBytes \in Nat

VARIABLES
  delegate,       \* interfaces the delegate implements: Writer and the optional ones
  offers,         \* interfaces that what New returns implements
  headerWritten,  \* the decorator's fields
  onWriteHeader,
  statusCode,
  contentLength,
  pc,             \* what the goroutine is doing
  op,             \* the writer's method being executed
  code,           \* the argument of WriteHeader
  todo,           \* what the range over onWriteHeader has left
  back,           \* who called the writer: pc after the method returns
  wire,           \* net/http: final status of the response, 0 when none
  bytes,          \* net/http: bytes of the body taken
  hijacked,       \* net/http: the connection belongs to the handler
  registered,     \* history: callbacks in the order they were registered
  heard,          \* history: callbacks in the order they were invoked
  told,           \* history: the status codes they were given
  orphans,        \* history: callbacks registered by a callback of WriteHeader
  broken,         \* history: a callback panicked inside WriteHeader
  abandoned       \* history: the source of a ReadFrom panicked, a part of it sent

writer  == <<delegate, offers, headerWritten, onWriteHeader, statusCode, contentLength>>
call    == <<op, code, todo, back>>
net     == <<wire, bytes, hijacked>>
history == <<registered, heard, told, orphans, broken, abandoned>>
observeVars == <<writer, pc, call, net, history>>

Elements(s) == {s[i] : i \in DOMAIN s}

Operations == {"WriteHeader", "Write", "ReadFrom", "Flush"}

-----------------------------------------------------------------------------
(* The table of decorators *)

Interfaces == {"Pusher", "Flusher", "Hijacker", "ReaderFrom"}

Bit(interface) == CASE interface = "Pusher"     -> 1
                    [] interface = "Flusher"    -> 2
                    [] interface = "Hijacker"   -> 4
                    [] interface = "ReaderFrom" -> 8

\* The row of the mask m is Decorators[m + 1].
Decorators == <<
  {},
  {"Pusher"},
  {"Flusher"},
  {"Flusher", "Pusher"},
  {"Hijacker"},
  {"Hijacker", "Pusher"},
  {"Hijacker", "Flusher"},
  {"Hijacker", "Flusher", "Pusher"},
  {"ReaderFrom"},
  {"ReaderFrom", "Pusher"},
  {"ReaderFrom", "Flusher"},
  {"ReaderFrom", "Flusher", "Pusher"},
  {"ReaderFrom", "Hijacker"},
  {"ReaderFrom", "Hijacker", "Pusher"},
  {"ReaderFrom", "Hijacker", "Flusher"},
  {"ReaderFrom", "Hijacker", "Flusher", "Pusher"} >>

\* Hijacker and ReaderFrom take each other's bit.
MaskSwapped(d) ==
  LET bit(interface) == IF interface \in d THEN Bit(interface) ELSE 0
  IN  bit("Pusher") + bit("Flusher") + (bit("Hijacker") * 2) + (bit("ReaderFrom") \div 2)

Mask(d) ==
  LET bit(interface) == IF interface \in d THEN Bit(interface) ELSE 0
  IN  bit("Pusher") + bit("Flusher") + bit("Hijacker") + bit("ReaderFrom")

\* A delegate that is a Writer already is returned as it is.
New(d) == IF "Writer" \in d THEN d ELSE {"Writer"} \cup Decorators[Mask(d) + 1]

\* The fields are those of the Writer that New returns.  Every other decorator
\* below it is given that same Writer, so it is a part of the handler.
ObserveInit ==
  /\ delegate \in SUBSET (Interfaces \cup {"Writer"})
  /\ offers = New(delegate)
  /\ headerWritten = FALSE
  /\ onWriteHeader = <<>>
  /\ statusCode = 0
  /\ contentLength = 0
  /\ pc = "handler"
  /\ op = "none" /\ code = 0 /\ todo = <<>> /\ back = "handler"
  /\ wire = 0
  /\ bytes = 0
  /\ hijacked = FALSE
  /\ registered = <<>>
  /\ heard = <<>>
  /\ told = {}
  /\ orphans = {}
  /\ broken = FALSE
  /\ abandoned = FALSE

-----------------------------------------------------------------------------
(* net/http's own ResponseWriter *)

Informational(c) == c \in 100..199 /\ c # 101
Valid(c)         == c \in 100..999
Final(c)         == Valid(c) /\ ~Informational(c)

\* WriteHeader panics on an invalid code unless it ignores the call.
NetRefuses(c) == ~hijacked /\ wire = 0 /\ ~Valid(c)

\* The status of the response after WriteHeader(c): only the first final
\* status counts, and nothing is sent on a hijacked connection.
NetWriteHeader(c) == IF hijacked \/ wire # 0 \/ ~Final(c) THEN wire ELSE c

-----------------------------------------------------------------------------
(* The decorator *)

Invoke(c, status) ==
  /\ heard' = Append(heard, c)
  /\ told' = told \cup {status}

\* Every call of WriteHeader tells the callbacks.
EnterAlways(c) ==
  /\ code' = c
  /\ pc' = "telling"
  /\ statusCode' = c
  /\ todo' = onWriteHeader

\* The last call of WriteHeader sets the status.
EnterOverwriting(c) ==
  /\ code' = c
  /\ pc' = "telling"
  /\ statusCode' = c
  /\ todo' = IF headerWritten THEN <<>> ELSE onWriteHeader

\* The decorator's WriteHeader, up to its callbacks.
EnterWriteHeader(c) ==
  /\ code' = c
  /\ pc' = "telling"
  /\ IF headerWritten
       THEN UNCHANGED <<statusCode, todo>>
       ELSE statusCode' = c /\ todo' = onWriteHeader

\* A method of the writer called while pc is caller.  Every one of them but
\* WriteHeader runs WriteHeader first unless the header was written.
NoCheckInReadFrom(o) == o = "WriteHeader" \/ (o # "ReadFrom" /\ ~headerWritten)
MustWriteHeader(o)   == o = "WriteHeader" \/ ~headerWritten

Implements(o) ==
  /\ o = "Flush"    => "Flusher" \in offers
  /\ o = "ReadFrom" => "ReaderFrom" \in offers

Call(caller, o, c) ==
  /\ pc = caller
  /\ Implements(o)
  /\ op' = o
  /\ back' = caller
  /\ IF MustWriteHeader(o)
       THEN EnterWriteHeader(IF o = "WriteHeader" THEN c ELSE 200)
       ELSE pc' = "delegating" /\ UNCHANGED <<code, todo, statusCode>>
  /\ UNCHANGED <<delegate, offers, headerWritten, onWriteHeader, contentLength, net, history>>

\* The next callback of the range over onWriteHeader returns, panics or, as
\* the handler may have let it, registers a callback that the range does not
\* see because the header does not count as written yet.
TellNext ==
  /\ pc = "telling" /\ todo # <<>>
  /\ Invoke(Head(todo), code)
  /\ todo' = Tail(todo)
  /\ UNCHANGED <<delegate, offers, headerWritten, statusCode, contentLength, op, code, back, net>>

CallbackReturns ==
  /\ TellNext
  /\ UNCHANGED <<pc, onWriteHeader, registered, orphans, broken, abandoned>>

CallbackPanics ==
  /\ TellNext
  /\ Head(todo) \in Panicky
  /\ pc' = "panicking"
  /\ broken' = TRUE
  /\ UNCHANGED <<onWriteHeader, registered, orphans, abandoned>>

CallbackRegisters(c) ==
  /\ TellNext
  /\ Head(todo) \in Registering
  /\ c \notin Elements(registered)
  /\ onWriteHeader' = Append(onWriteHeader, c)
  /\ registered' = Append(registered, c)
  /\ orphans' = orphans \cup {c}
  /\ UNCHANGED <<pc, broken, abandoned>>

\* WriteHeader after its callbacks.

LeaveWriteHeader ==
  /\ pc = "telling" /\ todo = <<>>
  /\ headerWritten' = TRUE
  /\ wire' = NetWriteHeader(code)
  /\ pc' = IF NetRefuses(code) THEN "panicking"
           ELSE IF op = "WriteHeader" THEN back ELSE "delegating"
  /\ UNCHANGED <<delegate, offers, onWriteHeader, statusCode, contentLength, call,
                 bytes, hijacked, history>>

\* The delegate takes some of the n bytes of a Write or ReadFrom; it writes a
\* status of its own if no final one was sent.  In the mutant the ReadFrom of the
\* delegate is left as it is.
CountedByWrite(n, taken) == IF op = "Write" THEN taken ELSE 0
Counted(n, taken)        == taken

Delegate(n, taken) ==
  /\ pc = "delegating" /\ op \in {"Write", "ReadFrom"}
  /\ hijacked => taken = 0
  /\ wire' = NetWriteHeader(200)
  /\ bytes' = bytes + taken
  /\ contentLength' = contentLength + Counted(n, taken)
  /\ pc' = back
  /\ UNCHANGED <<delegate, offers, headerWritten, onWriteHeader, statusCode, call,
                 hijacked, history>>

DelegateFlush ==
  /\ pc = "delegating" /\ op = "Flush"
  /\ wire' = NetWriteHeader(200)
  /\ pc' = back
  /\ UNCHANGED <<writer, call, bytes, hijacked, history>>

-----------------------------------------------------------------------------
(* The handler *)

HandlerCalls ==
  \E o \in Operations, c \in Codes :
    /\ o \in {"Write", "ReadFrom"} => bytes < MaxBytes
    /\ Call("handler", o, c)

DelegateWrites ==
  \E n \in 1..(MaxBytes - bytes), taken \in 0..MaxBytes :
    taken <= n /\ Delegate(n, taken)

\* OnWriteHeader before the header is written.
Register(c) ==
  /\ pc = "handler"
  /\ c \notin Elements(registered)
  /\ ~headerWritten
  /\ onWriteHeader' = Append(onWriteHeader, c)
  /\ registered' = Append(registered, c)
  /\ UNCHANGED <<delegate, offers, headerWritten, statusCode, contentLength, pc, call, net,
                 heard, told, orphans, broken, abandoned>>

\* A callback that comes too late is only kept.
RegisterSilently(c) ==
  /\ pc = "handler"
  /\ c \notin Elements(registered)
  /\ headerWritten
  /\ onWriteHeader' = Append(onWriteHeader, c)
  /\ registered' = Append(registered, c)
  /\ UNCHANGED <<delegate, offers, headerWritten, statusCode, contentLength, pc, call, net,
                 heard, told, orphans, broken, abandoned>>

\* OnWriteHeader after that calls the callback at once.
RegisterLate(c) ==
  /\ pc = "handler"
  /\ c \notin Elements(registered)
  /\ headerWritten
  /\ registered' = Append(registered, c)
  /\ Invoke(c, statusCode)
  /\ pc' \in {"handler"} \cup (IF c \in Panicky THEN {"panicking"} ELSE {})
  /\ UNCHANGED <<writer, call, net, orphans, broken, abandoned>>

Hijack ==
  /\ pc = "handler"
  /\ "Hijacker" \in offers
  /\ ~hijacked
  /\ hijacked' = TRUE
  /\ UNCHANGED <<writer, pc, call, wire, bytes, history>>

HandlerPanics ==
  /\ pc = "handler"
  /\ pc' = "panicking"
  /\ UNCHANGED <<writer, call, net, history>>

\* The source that the delegate's ReadFrom reads is the handler's code too.  If it
\* panics, what the delegate took of it until then is sent and never counted.
SourcePanics(taken) ==
  /\ pc = "delegating" /\ op = "ReadFrom"
  /\ hijacked => taken = 0
  /\ wire' = IF taken = 0 THEN wire ELSE NetWriteHeader(200)
  /\ bytes' = bytes + taken
  /\ abandoned' = (abandoned \/ taken > 0)
  /\ pc' = "panicking"
  /\ UNCHANGED <<writer, call, hijacked, registered, heard, told, orphans, broken>>

Writing ==
  \/ CallbackReturns
  \/ CallbackPanics
  \/ \E c \in Callbacks : CallbackRegisters(c)
  \/ LeaveWriteHeader
  \/ DelegateWrites
  \/ DelegateFlush

Handling ==
  \/ HandlerCalls
  \/ \E c \in Callbacks : Register(c) \/ RegisterLate(c)
  \/ Hijack
  \/ HandlerPanics
  \/ \E taken \in 0..(MaxBytes - bytes) : SourcePanics(taken)

\* net/http finishes a response whose handler returns, and drops the
\* connection of one whose handler panics.
Finish ==
  /\ pc = "handler"
  /\ pc' = "done"
  /\ wire' = NetWriteHeader(200)
  /\ UNCHANGED <<writer, call, bytes, hijacked, history>>

Abort ==
  /\ pc = "panicking"
  /\ pc' = "aborted"
  /\ UNCHANGED <<writer, call, net, history>>

ObserveNext == Handling \/ Writing \/ Finish \/ Abort

ObserveSpec == ObserveInit /\ [][ObserveNext]_observeVars

-----------------------------------------------------------------------------
(* Properties *)

\* Type correctness of the decorator, the call in progress, net/http's side
\* of the response and the history.
ObserveTypeOK ==
  /\ delegate \subseteq Interfaces \cup {"Writer"}
  /\ offers \subseteq Interfaces \cup {"Writer"}
  /\ headerWritten \in BOOLEAN
  /\ onWriteHeader \in Seq(Callbacks)
  /\ statusCode \in Nat
  /\ contentLength \in 0..MaxBytes
  /\ op \in Operations \cup {"none"}
  /\ code \in Nat
  /\ todo \in Seq(Callbacks)
  /\ wire \in Nat
  /\ bytes \in 0..MaxBytes
  /\ hijacked \in BOOLEAN
  /\ registered \in Seq(Callbacks)
  /\ heard \in Seq(Callbacks)
  /\ told \subseteq Nat
  /\ orphans \subseteq Callbacks
  /\ broken \in BOOLEAN /\ abandoned \in BOOLEAN

\* New's Writer implements exactly the optional interfaces of its delegate,
\* also if that is a Writer: one more and its method would fail a type
\* assertion, one less and the handler silently loses it (observe.go, New
\* and decorators).
InterfacesPreserved == offers = delegate \cup {"Writer"}

\* Nothing reaches net/http's response while the handler runs unless the
\* callbacks ran before it, so they may still change the headers: no method
\* of the writer lets the delegate write a header of its own first.
NothingSentUnobserved ==
  pc \notin {"done", "aborted"} /\ (wire # 0 \/ bytes # 0) => headerWritten

\* Unless a callback panicked or was registered from within one, callbacks
\* are invoked in the order they were registered, none twice and none left
\* out once the header is written, whichever method wrote it and however
\* registrations and writes alternate.  What is heard after a panic is the matter
\* of RecoveredIsObserved in module Recovery.
HeardInOrder ==
  ~broken /\ orphans = {} =>
    /\ Len(heard) <= Len(registered)
    /\ \A i \in DOMAIN heard : heard[i] = registered[i]
    /\ headerWritten => Len(heard) = Len(registered)

\* All callbacks are given one status, that of StatusCode(), although the
\* handler may write a header again or register callbacks after it.
OneStatusTold == ~broken => told \subseteq {statusCode}

\* A final status that the writer reports is the one that net/http sends.
ReportedStatusIsSent ==
  headerWritten /\ wire # 0 /\ Final(statusCode) => wire = statusCode

\* The status that StatusCode() reports never changes once callbacks may have
\* seen it, unless one of them panicked in the middle.
StatusIsStable ==
  [][~broken /\ statusCode # 0 => statusCode' = statusCode]_observeVars

\* Claimed by observe.go:24, "StatusCode returns the response code": once the
\* response has a final status, StatusCode() is that status.
StatusIsTheResponse ==
  headerWritten /\ wire # 0 => statusCode = wire

\* Claimed by observe.go:53: a callback registered once the status code has
\* been established is invoked immediately, so none that is registered before
\* the header is written or after it stays unaware of it.  It does not hold for
\* a callback that is registered by a callback.
NoOrphans ==
  headerWritten /\ ~broken => Elements(registered) \subseteq Elements(heard)

-----------------------------------------------------------------------------
(* The inductive invariant *)

\* What the range over onWriteHeader has left is what was not heard yet.
RangeInv ==
  ~broken /\ orphans = {} =>
    /\ ~headerWritten => onWriteHeader = registered
    /\ ~headerWritten /\ pc # "telling" => heard = <<>>
    /\ ~headerWritten /\ pc = "telling" =>
         /\ Len(heard) + Len(todo) = Len(registered)
         /\ \A i \in DOMAIN todo : todo[i] = registered[Len(heard) + i]

\* Before the header counts as written nothing was sent, and only a call of
\* WriteHeader in progress can have told callbacks or set the status.
HeaderInv ==
  /\ headerWritten => todo = <<>>
  /\ pc = "telling" /\ ~headerWritten => code = statusCode
  /\ pc = "delegating" => headerWritten
  /\ ~headerWritten /\ pc # "telling" /\ ~broken => told = {} /\ statusCode = 0
  /\ headerWritten /\ Final(statusCode) => wire = statusCode \/ (hijacked /\ wire = 0)
  /\ pc \in {"handler", "telling", "delegating", "panicking", "done", "aborted"}
  /\ back = "handler"
  /\ broken /\ ~headerWritten => pc \in {"panicking", "aborted"}

ObserveInv ==
  /\ ObserveTypeOK /\ RangeInv /\ HeaderInv
  /\ HeardInOrder /\ NothingSentUnobserved /\ OneStatusTold
  /\ ReportedStatusIsSent

=============================================================================
