------------------------------ MODULE Recovery ------------------------------
(***************************************************************************)
(* Package recovery composed with package observe: the handler of module   *)
(* Observe, whose panics the recovery decorator turns into a response.     *)
(* Either decorator may be the outer one.  With observe outside, the       *)
(* recovery decorator writes through the observable Writer and its status  *)
(* is observed; with recovery outside it writes to net/http directly.      *)
(***************************************************************************)
EXTENDS Observe

CONSTANTS
  NoStatus,       \* a recovery object without a StatusCode method
  ObjectCodes,    \* what a recovery object's StatusCode method returns
  Configured,     \* values of WithStatusCode, 0 when it is not used
  MaxListeners,   \* bound: WithOnRecover callbacks
  RecoveryPanics  \* what the deferred function calls of the user's may panic

ASSUME RecoveryConstants ==
  /\ NoStatus \notin Nat
  /\ ObjectCodes \subseteq Nat
  /\ Configured \subseteq Nat
  /\ MaxListeners \in Nat
  /\ RecoveryPanics \in BOOLEAN

VARIABLES
  observed,       \* the observe decorator is the outer one
  configured,     \* the decorator's statusCode
  listeners,      \* the decorator's onRecover, by their number
  object,         \* StatusCode of the recovery object
  recovering,     \* the deferred function has recovered
  next,           \* the step of the deferred function that comes next
  notified,       \* how many listeners were called
  header,         \* the decorator's headers were added to the response
  sentHeader,     \* they were there when the final status was sent
  committed,      \* history: at the panic it was too late for a status
  culprit         \* history: which of the user's code made the deferred function panic

recoveryConfig == <<observed, configured, listeners>>
recoveryState  == <<object, recovering, next, notified, committed, culprit>>
recoveryVars   == <<recoveryConfig, recoveryState>>
vars           == <<observeVars, recoveryVars, header, sentHeader>>

\* What the writers of net/http implement, for HTTP/1 and HTTP/2.
NetWriters == {{"Flusher", "Hijacker", "ReaderFrom"}, {"Flusher", "Pusher"}}

Init ==
  /\ ObserveInit
  /\ delegate \in NetWriters
  /\ observed \in BOOLEAN
  /\ configured \in Configured
  /\ listeners \in 0..MaxListeners
  /\ object = NoStatus
  /\ recovering = FALSE
  /\ next = "none"
  /\ notified = 0
  /\ header = FALSE
  /\ sentHeader = FALSE
  /\ committed = FALSE
  /\ culprit = "none"

\* net/http takes the headers as they are when the final status is sent.
SnapshotHeader == sentHeader' = IF wire' # wire THEN header ELSE sentHeader

-----------------------------------------------------------------------------
(* The decorated handler: every step of module Observe but the ones that end *)
(* the request, and a panic with a recovery object that may have a status.   *)

\* A panic to be recovered that is not net/http's own, whose object is a string.
UserPanics ==
  /\ ~recovering /\ pc' = "panicking"
  /\ pc = "telling" => todo # <<>>

HandlerSteps ==
  /\ Writing \/ (~recovering /\ Handling)
  /\ object' \in IF UserPanics THEN ObjectCodes \cup {NoStatus} ELSE {object}
  /\ SnapshotHeader
  /\ UNCHANGED <<recoveryConfig, recovering, next, notified, committed, culprit, header>>

HandlerReturns ==
  /\ Finish
  /\ SnapshotHeader
  /\ UNCHANGED <<recoveryVars, header>>

-----------------------------------------------------------------------------
(* The deferred function *)

\* recover() and the decorator's headers.  Those of the object add to them.
Recover ==
  /\ pc = "panicking"
  /\ ~recovering
  /\ recovering' = TRUE
  /\ pc' = "recovering"
  /\ next' = "writeStatusCode"
  /\ header' = TRUE
  /\ committed' = (wire # 0 \/ hijacked)
  /\ UNCHANGED <<writer, call, net, history, recoveryConfig, object, notified, sentHeader, culprit>>

\* The configured status is used without a look at it.
ObjectOrConfigured == IF object # NoStatus THEN object ELSE configured

\* The configured status has precedence.
ConfiguredFirst ==
  CASE configured >= 100  -> configured
    [] object # NoStatus  -> object
    [] OTHER              -> 500

ChosenStatus ==
  IF object # NoStatus THEN object
  ELSE IF configured >= 100 THEN configured
  ELSE 500

AtStep(step) == pc = "recovering" /\ next = step

\* The status is written to the undecorated writer.
WriteStatusUnobserved ==
  /\ AtStep("writeStatusCode")
  /\ next' = "writeBody"
  /\ wire' = NetWriteHeader(ChosenStatus)
  /\ pc' = IF NetRefuses(ChosenStatus) THEN "panicking" ELSE pc
  /\ SnapshotHeader
  /\ UNCHANGED <<writer, call, bytes, hijacked, history, recoveryConfig, object, recovering,
                 notified, committed, culprit, header>>

\* writeStatusCode, through the observable Writer or to net/http.
WriteStatusCode ==
  /\ AtStep("writeStatusCode")
  /\ next' = "writeBody"
  /\ \/ observed /\ Call("recovering", "WriteHeader", ChosenStatus)
     \/ /\ ~observed
        /\ wire' = NetWriteHeader(ChosenStatus)
        /\ pc' = IF NetRefuses(ChosenStatus) THEN "panicking" ELSE pc
        /\ UNCHANGED <<writer, call, bytes, hijacked, history>>
  /\ SnapshotHeader
  /\ UNCHANGED <<recoveryConfig, object, recovering, notified, committed, culprit, header>>

\* writeBody: the RecoverBody writes in any number of pieces.
BodyWrites ==
  /\ AtStep("writeBody")
  /\ bytes < MaxBytes
  /\ \/ observed /\ Call("recovering", "Write", 0)
     \/ /\ ~observed
        /\ wire' = NetWriteHeader(200)
        /\ bytes' \in bytes..(IF hijacked THEN bytes ELSE MaxBytes)
        /\ UNCHANGED <<writer, pc, call, hijacked, history>>
  /\ SnapshotHeader
  /\ UNCHANGED <<recoveryConfig, recoveryState, header>>

BodyReturns ==
  /\ AtStep("writeBody")
  /\ next' = "onRecover"
  /\ UNCHANGED <<observeVars, recoveryConfig, object, recovering, notified, committed,
                 culprit, header, sentHeader>>

\* The listeners are told before the answer is written.
NotifyFirst ==
  /\ AtStep("writeStatusCode")
  /\ notified < listeners
  /\ notified' = notified + 1
  /\ UNCHANGED <<observeVars, recoveryConfig, object, recovering, next, committed,
                 culprit, header, sentHeader>>

\* The range over onRecover.
Notify ==
  /\ AtStep("onRecover")
  /\ notified < listeners
  /\ notified' = notified + 1
  /\ UNCHANGED <<observeVars, recoveryConfig, object, recovering, next, committed,
                 culprit, header, sentHeader>>

\* The user's code that the deferred function calls panics: Headers() or
\* StatusCode() of the object, before anything is written, the RecoverBody or the
\* listener that was just called.
Misbehave ==
  /\ RecoveryPanics
  /\ \/ AtStep("writeStatusCode") /\ culprit' = "object"
     \/ AtStep("writeBody") /\ culprit' = "body"
     \/ AtStep("onRecover") /\ notified > 0 /\ culprit' = "listener"
  /\ pc' = "panicking"
  /\ UNCHANGED <<writer, call, net, history, recoveryConfig, object, recovering, next,
                 notified, committed, header, sentHeader>>

\* ServeHTTP returns normally and net/http finishes the response.
RecoveryReturns ==
  /\ AtStep("onRecover")
  /\ notified = listeners
  /\ pc' = "done"
  /\ wire' = NetWriteHeader(200)
  /\ SnapshotHeader
  /\ UNCHANGED <<writer, call, bytes, hijacked, history, recoveryVars, header>>

\* Nothing recovers a panic of the deferred function itself.
Escape ==
  /\ pc = "panicking"
  /\ recovering
  /\ pc' = "escaped"
  /\ UNCHANGED <<writer, call, net, history, recoveryVars, header, sentHeader>>

Deferred ==
  \/ Recover
  \/ WriteStatusCode
  \/ BodyWrites
  \/ BodyReturns
  \/ Notify
  \/ Misbehave
  \/ RecoveryReturns
  \/ Escape

Next == HandlerSteps \/ HandlerReturns \/ Deferred

Spec == Init /\ [][Next]_vars

-----------------------------------------------------------------------------
(* Properties *)

\* Type correctness of the writer, the recovery decorator and the request.
TypeOK ==
  /\ ObserveTypeOK
  /\ pc \in {"handler", "telling", "delegating", "panicking", "recovering", "done", "escaped"}
  /\ back \in {"handler", "recovering"}
  /\ next \in {"none", "writeStatusCode", "writeBody", "onRecover"}
  /\ object \in ObjectCodes \cup {NoStatus}
  /\ notified \in 0..listeners
  /\ culprit \in {"none", "object", "body", "listener"}

\* A recovered panic is answered: if it was not too late, the response has
\* the status of the recovery object, else the one configured, else 500, as
\* far as these are final ones, and the decorator's headers are sent with it.
PanicIsAnswered ==
  pc = "done" /\ recovering /\ ~committed =>
    /\ object # NoStatus /\ Final(object) => wire = object /\ sentHeader
    /\ object = NoStatus /\ Final(configured) => wire = configured /\ sentHeader
    /\ object = NoStatus /\ configured < 100 => wire = 500 /\ sentHeader

\* With the observe decorator outside, the response to a recovered panic is
\* observed like any other: the header counts as written and every callback
\* the handler registered was invoked, whether it panicked before, in the
\* middle of or after them.  A callback that another one registered is invoked
\* only if a panic made WriteHeader run the callbacks again.
RecoveredIsObserved ==
  pc = "done" /\ recovering /\ observed =>
    /\ headerWritten
    /\ Elements(registered) \ orphans \subseteq Elements(heard)
    /\ ~broken => orphans \cap Elements(heard) = {}

\* ContentLength() is the length of the body that was sent however the request
\* ends, the page about the panic included.  What it leaves out, and for good, is
\* what was sent of a ReadFrom whose source panicked and, with the recovery
\* decorator outside, that page.
LengthIsTheResponse ==
  /\ contentLength <= bytes
  /\ abandoned => contentLength < bytes
  /\ contentLength < bytes => abandoned \/ (recovering /\ ~observed)

\* A listener is told of a panic only once that is answered, as far as it was not
\* too late, and observed, even if a listener panics afterwards.  So if the
\* deferred function panics, it is either because of a listener or no listener
\* hears of the panic at all, nor of the one that took its place.
ListenersHearOfAnswers ==
  /\ notified > 0 => recovering
  /\ notified > 0 /\ ~committed /\ Final(ChosenStatus) => wire = ChosenStatus /\ sentHeader
  /\ notified > 0 /\ observed => headerWritten
  /\ pc = "escaped" => (culprit = "listener" <=> notified > 0)

\* A panic leaves the decorator only through the user's code that the deferred
\* function calls (a method of the object, the RecoverBody, a listener), a status
\* that net/http refuses, or a status callback that panics and is invoked again.
EscapeHasACause ==
  pc = "escaped" =>
    \/ culprit # "none"
    \/ object # NoStatus /\ ~Valid(object) /\ ~committed
    \/ object = NoStatus /\ configured > 999 /\ ~committed
    \/ observed /\ broken

\* Claimed by middleware.go:142: the handlers "will catch all panics" of
\* downstream handlers, whatever the recovery object.
CatchesAllPanics == pc = "escaped" => culprit # "none"

-----------------------------------------------------------------------------
(* The inductive invariant *)

\* The deferred function runs after the handler, never beside it, and writes
\* through the observable Writer only if that is outside.
DeferredInv ==
  /\ ~recovering =>
       /\ next = "none" /\ notified = 0 /\ culprit = "none"
       /\ pc \in {"handler", "telling", "delegating", "panicking", "done"}
       /\ pc \in {"telling", "delegating"} => back = "handler"
  /\ recovering =>
       /\ header
       /\ pc \in {"telling", "delegating", "panicking", "recovering", "done", "escaped"}
       /\ pc \in {"telling", "delegating"} => back = "recovering" /\ next = "writeBody" /\ observed
       /\ next = "writeStatusCode" => pc = "recovering" \/ culprit = "object"
       /\ next = "none" => FALSE
       /\ pc = "done" => notified = listeners /\ next = "onRecover"
       /\ notified > 0 => next = "onRecover"
       /\ culprit # "none" => pc \in {"panicking", "escaped"}
       /\ culprit = "listener" => notified > 0
       /\ next = "onRecover" /\ pc \in {"panicking", "escaped"} => culprit = "listener"

\* The chosen status is the first that is written after the panic, so it is
\* the response's if net/http can still take it, and is sent with the headers.
AnswerInv ==
  /\ recovering /\ (next = "writeStatusCode" \/ pc = "telling") =>
       (committed <=> wire # 0 \/ hijacked)
  /\ recovering /\ pc = "telling" => op = "WriteHeader" /\ code = ChosenStatus
  /\ recovering /\ ~committed => ~hijacked /\ (wire # 0 => sentHeader)
  /\ recovering /\ ~committed /\ next # "writeStatusCode"
     /\ (pc \in {"delegating", "recovering", "done"} \/ next = "onRecover") =>
       (Final(ChosenStatus) => wire = ChosenStatus)
  /\ recovering /\ pc \in {"panicking", "escaped"} =>
       \/ culprit # "none"
       \/ ~Valid(ChosenStatus) /\ ~committed
       \/ observed /\ broken

\* Every callback of the handler is in the list, is heard or still to come
\* once WriteHeader has started, and is heard once the header is written.
ObservedInv ==
  /\ headerWritten => todo = <<>>
  /\ pc = "delegating" => headerWritten
  /\ recovering /\ observed /\ next # "writeStatusCode" 
     /\ (pc \in {"recovering", "done"} \/ next = "onRecover") =>
       headerWritten
  /\ Elements(heard) \cup Elements(todo) \cup Elements(onWriteHeader) \cup orphans
       \subseteq Elements(registered)
  /\ ~headerWritten => Elements(registered) \subseteq Elements(onWriteHeader)
  /\ ~headerWritten /\ pc = "telling" =>
       Elements(registered) \ orphans \subseteq Elements(heard) \cup Elements(todo)
  /\ headerWritten => Elements(registered) \ orphans \subseteq Elements(heard)
  /\ ~broken => orphans \cap (Elements(heard) \cup Elements(todo)) = {}
  /\ ~broken /\ ~headerWritten /\ pc # "telling" => orphans = {}

RecoveryInv == TypeOK /\ LengthIsTheResponse /\ DeferredInv /\ AnswerInv /\ ObservedInv

=============================================================================
