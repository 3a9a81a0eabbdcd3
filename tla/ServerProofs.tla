----------------------------- MODULE ServerProofs -----------------------------
(***************************************************************************)
(* Theorems about Observe, for any callbacks, status codes and delegate,   *)
(* any number of bytes and any order of calls, registrations and panics,   *)
(* and about Recovery, for any listeners and recovery objects, with the    *)
(* observe decorator inside or outside.                                    *)
(***************************************************************************)
EXTENDS Recovery, SequenceTheorems, TLAPS

-----------------------------------------------------------------------------
(* The table of decorators *)

\* The rows of the table, by number.
LEMMA Rows ==
  /\ Decorators[1] = {}
  /\ Decorators[2] = {"Pusher"}
  /\ Decorators[3] = {"Flusher"}
  /\ Decorators[4] = {"Flusher", "Pusher"}
  /\ Decorators[5] = {"Hijacker"}
  /\ Decorators[6] = {"Hijacker", "Pusher"}
  /\ Decorators[7] = {"Hijacker", "Flusher"}
  /\ Decorators[8] = {"Hijacker", "Flusher", "Pusher"}
  /\ Decorators[9] = {"ReaderFrom"}
  /\ Decorators[10] = {"ReaderFrom", "Pusher"}
  /\ Decorators[11] = {"ReaderFrom", "Flusher"}
  /\ Decorators[12] = {"ReaderFrom", "Flusher", "Pusher"}
  /\ Decorators[13] = {"ReaderFrom", "Hijacker"}
  /\ Decorators[14] = {"ReaderFrom", "Hijacker", "Pusher"}
  /\ Decorators[15] = {"ReaderFrom", "Hijacker", "Flusher"}
  /\ Decorators[16] = {"ReaderFrom", "Hijacker", "Flusher", "Pusher"}
BY DEF Decorators

\* A decorator implements what its delegate does, for all sixteen masks.
LEMMA TableIsRight ==
  ASSUME NEW d \in SUBSET Interfaces
  PROVE  Decorators[Mask(d) + 1] = d
<1> DEFINE p == "Pusher" \in d
           f == "Flusher" \in d
           h == "Hijacker" \in d
           r == "ReaderFrom" \in d
<1>1. Mask(d) = (IF p THEN 1 ELSE 0) + (IF f THEN 2 ELSE 0) + (IF h THEN 4 ELSE 0) + (IF r THEN 8 ELSE 0)
  BY DEF Mask, Bit
<1>2. \A x : x \in d <=> \/ x = "Pusher" /\ p
                         \/ x = "Flusher" /\ f
                         \/ x = "Hijacker" /\ h
                         \/ x = "ReaderFrom" /\ r
  BY DEF Interfaces
<1> SUFFICES \A x : x \in Decorators[Mask(d) + 1] <=> x \in d
  OBVIOUS
<1> HIDE DEF p, f, h, r
<1> USE <1>1, <1>2, Rows
<1>4. CASE ~h /\ ~r
  BY <1>4
<1>5. CASE h /\ ~r
  BY <1>5
<1>6. CASE ~h /\ r
  BY <1>6
<1>7. CASE h /\ r
  BY <1>7
<1> QED
  BY <1>4, <1>5, <1>6, <1>7

\* So does New's Writer, a Writer that it was given included.
LEMMA NewKeepsInterfaces ==
  ASSUME NEW d \in SUBSET (Interfaces \cup {"Writer"})
  PROVE  New(d) = d \cup {"Writer"}
<1>1. CASE "Writer" \in d
  BY <1>1 DEF New
<1>2. CASE "Writer" \notin d
  <2>1. d \in SUBSET Interfaces
    BY <1>2
  <2> QED
    BY <1>2, <2>1, TableIsRight DEF New
<1> QED
  BY <1>1, <1>2

-----------------------------------------------------------------------------
(* Sequences of callbacks *)

LEMMA AppendCallback ==
  ASSUME NEW s \in Seq(Callbacks), NEW c \in Callbacks
  PROVE  /\ Append(s, c) \in Seq(Callbacks)
         /\ Len(s) \in Nat /\ DOMAIN s = 1..Len(s)
         /\ Len(Append(s, c)) = Len(s) + 1
         /\ DOMAIN Append(s, c) = 1..(Len(s) + 1)
         /\ \A i \in 1..Len(s) : Append(s, c)[i] = s[i]
         /\ Append(s, c)[Len(s) + 1] = c
<1>1. Append(s, c) \in Seq(Callbacks)
  BY AppendProperties
<1> QED
  BY <1>1, AppendProperties, LenProperties

LEMMA TakeCallback ==
  ASSUME NEW s \in Seq(Callbacks), s # <<>>
  PROVE  /\ Head(s) \in Callbacks /\ Head(s) = s[1]
         /\ Tail(s) \in Seq(Callbacks)
         /\ Len(s) \in Nat \ {0} /\ DOMAIN s = 1..Len(s)
         /\ Len(Tail(s)) = Len(s) - 1
         /\ DOMAIN Tail(s) = 1..(Len(s) - 1)
         /\ \A i \in 1..(Len(s) - 1) : Tail(s)[i] = s[i + 1]
<1>1. Len(s) \in Nat \ {0} /\ DOMAIN s = 1..Len(s)
  BY LenProperties, EmptySeq
<1>2. Tail(s) \in Seq(Callbacks) /\ Len(Tail(s)) = Len(s) - 1
  BY <1>1, HeadTailProperties
<1>3. Head(s) = s[1] /\ s[1] \in Callbacks
  BY <1>1, HeadTailProperties, ElementOfSeq
<1> QED
  BY <1>1, <1>2, <1>3, HeadTailProperties, LenProperties

LEMMA NoCallbacks ==
  /\ <<>> \in Seq(Callbacks) /\ Len(<<>>) = 0 /\ DOMAIN <<>> = {}
BY EmptySeq

-----------------------------------------------------------------------------
\* The actions of a step.
LEMMA StepCases ==
  ASSUME [ObserveNext]_observeVars
  PROVE  \/ HandlerCalls
         \/ \E c \in Callbacks : Register(c) \/ RegisterLate(c)
         \/ Hijack \/ HandlerPanics
         \/ CallbackReturns \/ CallbackPanics \/ \E c \in Callbacks : CallbackRegisters(c)
         \/ LeaveWriteHeader
         \/ DelegateWrites
         \/ DelegateFlush \/ Finish \/ Abort
         \/ \E taken \in 0..(MaxBytes - bytes) : SourcePanics(taken)
         \/ UNCHANGED observeVars
BY DEF ObserveNext, Handling, Writing

-----------------------------------------------------------------------------
(* Types, with the two counters of bytes *)

\* The counter of the writer never exceeds that of net/http.
Types == ObserveTypeOK /\ contentLength <= bytes

LEMMA TypesInit == ObserveInit => Types
<1> SUFFICES ASSUME ObserveInit PROVE Types
  OBVIOUS
<1>1. New(delegate) \subseteq Interfaces \cup {"Writer"}
  BY NewKeepsInterfaces DEF ObserveInit
<1>3. onWriteHeader \in Seq(Callbacks) /\ todo \in Seq(Callbacks)
        /\ registered \in Seq(Callbacks) /\ heard \in Seq(Callbacks)
  BY NoCallbacks DEF ObserveInit
<1>4. delegate \subseteq Interfaces \cup {"Writer"} /\ offers \subseteq Interfaces \cup {"Writer"}
  BY <1>1 DEF ObserveInit
<1>5. contentLength \in 0..MaxBytes /\ bytes \in 0..MaxBytes /\ contentLength <= bytes
  BY ObserveConstants DEF ObserveInit
<1> QED
  BY <1>3, <1>4, <1>5 DEF ObserveInit, Types, ObserveTypeOK

LEMMA TypesStep ==
  ASSUME Types, [ObserveNext]_observeVars
  PROVE  Types'
<1> USE ObserveConstants DEF Types, ObserveTypeOK, writer, call, net, history
<1>1. CASE HandlerCalls
  <2>1. PICK o \in Operations, c \in Codes : Call("handler", o, c)
    BY <1>1 DEF HandlerCalls
  <2> QED
    BY <2>1 DEF Call, EnterWriteHeader
<1>2. CASE \E c \in Callbacks : Register(c) \/ RegisterLate(c)
  <2>1. PICK c \in Callbacks : Register(c) \/ RegisterLate(c)
    BY <1>2
  <2>2. CASE Register(c)
    BY <2>2, AppendCallback DEF Register
  <2>3. CASE RegisterLate(c)
    BY <2>3, AppendCallback DEF RegisterLate, Invoke
  <2> QED
    BY <2>1, <2>2, <2>3
<1>3. CASE Hijack \/ HandlerPanics
  BY <1>3 DEF Hijack, HandlerPanics
<1>4. CASE CallbackReturns \/ CallbackPanics \/ \E c \in Callbacks : CallbackRegisters(c)
  <2>1. TellNext
    BY <1>4 DEF CallbackReturns, CallbackPanics, CallbackRegisters
  <2>2. heard' \in Seq(Callbacks) /\ todo' \in Seq(Callbacks) /\ told' \subseteq Nat
    BY <2>1, AppendCallback, TakeCallback DEF TellNext, Invoke
  <2>3. CASE CallbackReturns \/ CallbackPanics
    BY <2>1, <2>2, <2>3 DEF CallbackReturns, CallbackPanics, TellNext
  <2>4. CASE \E c \in Callbacks : CallbackRegisters(c)
    <3>1. PICK c \in Callbacks : CallbackRegisters(c)
      BY <2>4
    <3>2. onWriteHeader' \in Seq(Callbacks) /\ registered' \in Seq(Callbacks)
      BY <3>1, AppendCallback DEF CallbackRegisters
    <3> QED
      BY <2>1, <2>2, <3>1, <3>2 DEF CallbackRegisters, TellNext
  <2> QED
    BY <1>4, <2>3, <2>4
<1>5. CASE LeaveWriteHeader
  BY <1>5 DEF LeaveWriteHeader, NetWriteHeader
<1>6. CASE DelegateWrites
  <2>1. PICK n \in 1..(MaxBytes - bytes), taken \in 0..MaxBytes : taken <= n /\ Delegate(n, taken)
    BY <1>6 DEF DelegateWrites
  <2>2. bytes + taken \in 0..MaxBytes /\ contentLength + taken \in 0..(bytes + taken)
    BY <2>1
  <2> QED
    BY <2>1, <2>2 DEF Delegate, Counted, NetWriteHeader
<1>7. CASE DelegateFlush \/ Finish \/ Abort
  <2>1. wire' \in Nat
    BY <1>7 DEF DelegateFlush, Finish, Abort, NetWriteHeader
  <2>2. UNCHANGED <<writer, call, bytes, hijacked, history>>
    BY <1>7 DEF DelegateFlush, Finish, Abort
  <2> QED
    BY <2>1, <2>2
<1>8. CASE UNCHANGED observeVars
  BY <1>8 DEF observeVars
<1>9. CASE \E taken \in 0..(MaxBytes - bytes) : SourcePanics(taken)
  <2>1. PICK taken \in 0..(MaxBytes - bytes) : SourcePanics(taken)
    BY <1>9
  <2>2. /\ wire' \in Nat /\ bytes' \in 0..MaxBytes /\ abandoned' \in BOOLEAN
        /\ contentLength' = contentLength /\ contentLength <= bytes'
    BY <2>1 DEF SourcePanics, NetWriteHeader
  <2> QED
    BY <2>1, <2>2 DEF SourcePanics
<1> HIDE DEF Types
<1> QED
  BY <1>1, <1>2, <1>3, <1>4, <1>5, <1>6, <1>7, <1>8, <1>9, StepCases

\* The type invariant holds for any callbacks, codes and bound on the body.
THEOREM ObserveTypes == ObserveSpec => []ObserveTypeOK
<1>1. Types => ObserveTypeOK
  BY DEF Types
<1> QED
  BY <1>1, TypesInit, TypesStep, PTL DEF ObserveSpec

\* New never adds or loses an interface, whatever the delegate implements.
THEOREM InterfacesArePreserved == ObserveSpec => []InterfacesPreserved
<1>1. ObserveInit => InterfacesPreserved
  BY NewKeepsInterfaces DEF ObserveInit, InterfacesPreserved
<1>2. InterfacesPreserved /\ [ObserveNext]_observeVars => InterfacesPreserved'
  <2> SUFFICES ASSUME InterfacesPreserved, [ObserveNext]_observeVars PROVE InterfacesPreserved'
    OBVIOUS
  <2>1. UNCHANGED <<delegate, offers>>
    BY DEF ObserveNext, Handling, Writing, HandlerCalls, Call, Register, RegisterLate, Hijack,
           HandlerPanics, CallbackReturns, CallbackPanics, CallbackRegisters, TellNext,
           LeaveWriteHeader, DelegateWrites, Delegate, DelegateFlush, Finish, Abort,
           SourcePanics, writer, observeVars
  <2> QED
    BY <2>1 DEF InterfacesPreserved
<1> QED
  BY <1>1, <1>2, PTL DEF ObserveSpec

-----------------------------------------------------------------------------
(* The header and the status *)

Header == HeaderInv /\ NothingSentUnobserved /\ OneStatusTold

LEMMA HeaderInit == ObserveInit => Header
BY DEF ObserveInit, Header, HeaderInv, NothingSentUnobserved, OneStatusTold

\* A final status that was sent stays the response's.
LEMMA SentStaysSent ==
  ASSUME Header, headerWritten, wire \in Nat, NEW c \in Nat, wire' = NetWriteHeader(c),
         UNCHANGED <<statusCode, hijacked>>
  PROVE  Final(statusCode) => wire' = statusCode \/ (hijacked /\ wire' = 0)
<1>1. Final(statusCode) => statusCode # 0
  BY DEF Final, Valid
<1> QED
  BY <1>1 DEF Header, HeaderInv, NetWriteHeader

LEMMA HeaderStep ==
  ASSUME Types, Header, [ObserveNext]_observeVars
  PROVE  Header'
<1> USE DEF Header, HeaderInv, NothingSentUnobserved, OneStatusTold, writer, call, net, history
<1>0. statusCode \in Nat /\ code \in Nat /\ wire \in Nat /\ bytes \in Nat
  BY ObserveConstants DEF Types, ObserveTypeOK
<1>1. CASE HandlerCalls
  <2>1. PICK o \in Operations, c \in Codes : Call("handler", o, c)
    BY <1>1 DEF HandlerCalls
  <2>2. CASE headerWritten
    BY <1>0, <2>1, <2>2 DEF Call, EnterWriteHeader, MustWriteHeader
  <2>3. CASE ~headerWritten
    BY <1>0, <2>1, <2>3 DEF Call, EnterWriteHeader, MustWriteHeader
  <2> QED
    BY <2>2, <2>3
<1>2. CASE \E c \in Callbacks : Register(c) \/ RegisterLate(c)
  <2>1. PICK c \in Callbacks : Register(c) \/ RegisterLate(c)
    BY <1>2
  <2>2. CASE Register(c)
    BY <1>0, <2>2 DEF Register
  <2>3. CASE RegisterLate(c)
    BY <1>0, <2>3 DEF RegisterLate, Invoke
  <2> QED
    BY <2>1, <2>2, <2>3
<1>3. CASE Hijack \/ HandlerPanics
  BY <1>0, <1>3 DEF Hijack, HandlerPanics
<1>4. CASE CallbackReturns \/ CallbackPanics \/ \E c \in Callbacks : CallbackRegisters(c)
  <2>1. TellNext
    BY <1>4 DEF CallbackReturns, CallbackPanics, CallbackRegisters
  <2>2. pc = "telling" /\ ~headerWritten /\ ~headerWritten' /\ told' = told \cup {code}
        /\ code = statusCode /\ UNCHANGED <<statusCode, code, back, wire, bytes, hijacked>>
    BY <2>1 DEF TellNext, Invoke
  <2>3. \/ pc' = "telling" /\ broken' = broken
        \/ pc' = "panicking" /\ broken' = TRUE
    BY <1>4, <2>2 DEF CallbackReturns, CallbackPanics, CallbackRegisters
  <2> QED
    BY <1>0, <2>2, <2>3
<1>5. CASE LeaveWriteHeader
  <2>1. pc' \in {"handler", "delegating", "panicking"} /\ headerWritten'
    BY <1>5 DEF LeaveWriteHeader
  <2>2. CASE headerWritten
    <3>1. Final(statusCode') => wire' = statusCode' \/ (hijacked' /\ wire' = 0)
      BY <1>0, <1>5, <2>2, SentStaysSent DEF LeaveWriteHeader
    <3> QED
      BY <1>0, <1>5, <2>1, <2>2, <3>1 DEF LeaveWriteHeader
  <2>3. CASE ~headerWritten
    BY <1>0, <1>5, <2>1, <2>3 DEF LeaveWriteHeader, NetWriteHeader
  <2> QED
    BY <2>2, <2>3
<1>6. CASE DelegateWrites
  <2>1. PICK n \in 1..(MaxBytes - bytes), taken \in 0..MaxBytes : taken <= n /\ Delegate(n, taken)
    BY <1>6 DEF DelegateWrites
  <2>2. Final(statusCode') => wire' = statusCode' \/ (hijacked' /\ wire' = 0)
    BY <1>0, <2>1, SentStaysSent DEF Delegate
  <2> QED
    BY <1>0, <2>1, <2>2 DEF Delegate
<1>7. CASE DelegateFlush \/ Finish \/ Abort
  <2>1. CASE DelegateFlush
    <3>1. Final(statusCode') => wire' = statusCode' \/ (hijacked' /\ wire' = 0)
      BY <1>0, <2>1, SentStaysSent DEF DelegateFlush
    <3> QED
      BY <1>0, <2>1, <3>1 DEF DelegateFlush
  <2>2. CASE Finish
    <3>1. headerWritten' /\ Final(statusCode') => wire' = statusCode' \/ (hijacked' /\ wire' = 0)
      BY <1>0, <2>2, SentStaysSent DEF Finish
    <3> QED
      BY <1>0, <2>2, <3>1 DEF Finish
  <2>3. CASE Abort
    BY <2>3 DEF Abort
  <2> QED
    BY <1>7, <2>1, <2>2, <2>3
<1>8. CASE UNCHANGED observeVars
  BY <1>8 DEF observeVars
<1>9. CASE \E taken \in 0..(MaxBytes - bytes) : SourcePanics(taken)
  <2>1. PICK taken \in 0..(MaxBytes - bytes) : SourcePanics(taken)
    BY <1>9
  <2>2. /\ pc = "delegating" /\ pc' = "panicking" /\ taken \in Nat /\ bytes' = bytes + taken
        /\ UNCHANGED <<headerWritten, statusCode, code, todo, back, hijacked, told, broken>>
    BY <2>1 DEF SourcePanics
  <2>3. Final(statusCode') => wire' = statusCode' \/ (hijacked' /\ wire' = 0)
    <3>1. CASE taken = 0
      BY <2>1, <2>2, <3>1 DEF SourcePanics
    <3>2. CASE taken # 0
      BY <1>0, <2>1, <2>2, <3>2, SentStaysSent DEF SourcePanics
    <3> QED
      BY <3>1, <3>2
  <2> QED
    BY <1>0, <2>2, <2>3
<1> HIDE DEF Header
<1> QED
  BY <1>1, <1>2, <1>3, <1>4, <1>5, <1>6, <1>7, <1>8, <1>9, StepCases

-----------------------------------------------------------------------------
(* The order of callbacks *)

Order == RangeInv /\ HeardInOrder

\* What Order says of a behaviour in which no callback misbehaved.
InOrder ==
  /\ ~headerWritten => onWriteHeader = registered
  /\ ~headerWritten /\ pc # "telling" => Len(heard) = 0
  /\ ~headerWritten /\ pc = "telling" =>
       /\ Len(heard) + Len(todo) = Len(registered)
       /\ \A i \in 1..Len(todo) : todo[i] = registered[Len(heard) + i]
  /\ Len(heard) <= Len(registered)
  /\ \A i \in 1..Len(heard) : heard[i] = registered[i]
  /\ headerWritten => Len(heard) = Len(registered)

LEMMA OrderIsInOrder ==
  ASSUME ObserveTypeOK
  PROVE  Order <=> (~broken /\ orphans = {} => InOrder)
<1>1. DOMAIN heard = 1..Len(heard) /\ DOMAIN todo = 1..Len(todo)
  BY LenProperties DEF ObserveTypeOK
<1>2. heard = <<>> <=> Len(heard) = 0
  BY EmptySeq DEF ObserveTypeOK
<1> QED
  BY <1>1, <1>2 DEF Order, RangeInv, HeardInOrder, InOrder

LEMMA OrderInit == ObserveInit => Order
<1> SUFFICES ASSUME ObserveInit PROVE Order
  OBVIOUS
<1>1. ObserveTypeOK
  BY TypesInit DEF Types
<1>2. InOrder
  BY NoCallbacks DEF ObserveInit, InOrder
<1> QED
  BY <1>1, <1>2, OrderIsInOrder

LEMMA OrderStep ==
  ASSUME Types, Types', Header, Order, [ObserveNext]_observeVars
  PROVE  Order'
<1>1. (~broken' /\ orphans' = {} => InOrder') => Order'
  <2>1. DOMAIN heard' = 1..Len(heard') /\ DOMAIN todo' = 1..Len(todo')
    BY LenProperties DEF Types, ObserveTypeOK
  <2>2. heard' = <<>> <=> Len(heard') = 0
    BY EmptySeq DEF Types, ObserveTypeOK
  <2> QED
    BY <2>1, <2>2 DEF Order, RangeInv, HeardInOrder, InOrder
<1> SUFFICES ASSUME ~broken', orphans' = {} PROVE InOrder'
  BY <1>1
<1>2. CASE \E c \in Callbacks : CallbackRegisters(c)
  BY <1>2 DEF CallbackRegisters
<1>3. CASE CallbackPanics
  BY <1>3 DEF CallbackPanics
<1> SUFFICES ASSUME ~CallbackPanics, ~\E c \in Callbacks : CallbackRegisters(c)
             PROVE  InOrder'
  BY <1>2, <1>3
<1>4. UNCHANGED <<broken, orphans>>
  BY StepCases
  DEF HandlerCalls, Call, Register, RegisterLate, Hijack, HandlerPanics, CallbackReturns,
      LeaveWriteHeader, DelegateWrites, Delegate, DelegateFlush, Finish, Abort, SourcePanics,
      history, observeVars
<1>5. InOrder
  BY <1>4, OrderIsInOrder DEF Types
<1>6. /\ heard \in Seq(Callbacks) /\ todo \in Seq(Callbacks)
      /\ registered \in Seq(Callbacks) /\ onWriteHeader \in Seq(Callbacks)
      /\ Len(heard) \in Nat /\ Len(todo) \in Nat /\ Len(registered) \in Nat
  BY LenProperties DEF Types, ObserveTypeOK
<1> USE DEF InOrder, writer, call, net, history
<1>7. CASE HandlerCalls
  <2>1. PICK o \in Operations, c \in Codes : Call("handler", o, c)
    BY <1>7 DEF HandlerCalls
  <2>2. CASE headerWritten
    BY <1>5, <1>6, <2>1, <2>2 DEF Call, EnterWriteHeader
  <2>3. CASE ~headerWritten
    <3>1. Len(heard) = 0 /\ onWriteHeader = registered /\ pc' = "telling"
            /\ todo' = registered /\ UNCHANGED <<headerWritten, heard, registered, onWriteHeader>>
      BY <1>5, <2>1, <2>3 DEF Call, EnterWriteHeader, MustWriteHeader
    <3> QED
      BY <1>6, <2>3, <3>1
  <2> QED
    BY <2>2, <2>3
<1>8. CASE \E c \in Callbacks : Register(c) \/ RegisterLate(c)
  <2>1. PICK c \in Callbacks : Register(c) \/ RegisterLate(c)
    BY <1>8
  <2>2. CASE Register(c)
    <3>1. /\ ~headerWritten /\ ~headerWritten' /\ pc = "handler" /\ pc' = "handler"
          /\ Len(heard) = 0 /\ heard' = heard /\ registered' = onWriteHeader'
          /\ registered' = Append(registered, c)
      BY <1>5, <2>2 DEF Register
    <3>2. Len(registered') \in Nat
      BY <1>6, <3>1, AppendCallback
    <3> QED
      BY <1>6, <3>1, <3>2
  <2>3. CASE RegisterLate(c)
    <3>1. /\ headerWritten /\ headerWritten'
          /\ heard' = Append(heard, c) /\ registered' = Append(registered, c)
      BY <2>3 DEF RegisterLate, Invoke
    <3>2. Len(heard) = Len(registered) /\ \A i \in 1..Len(heard) : heard[i] = registered[i]
      BY <1>5, <3>1
    <3>3. Len(heard') = Len(heard) + 1 /\ Len(registered') = Len(heard) + 1
      BY <1>6, <3>1, <3>2, AppendCallback
    <3>4. ASSUME NEW i \in 1..(Len(heard) + 1) PROVE heard'[i] = registered'[i]
      <4>1. CASE i = Len(heard) + 1
        BY <1>6, <3>1, <3>2, <4>1, AppendCallback
      <4>2. CASE i \in 1..Len(heard)
        BY <1>6, <3>1, <3>2, <4>2, AppendCallback
      <4> QED
        BY <1>6, <4>1, <4>2
    <3> QED
      BY <1>6, <3>1, <3>3, <3>4
  <2> QED
    BY <2>1, <2>2, <2>3
<1>9. CASE CallbackReturns
  <2>1. /\ TellNext /\ pc = "telling" /\ pc' = "telling" /\ todo # <<>>
        /\ UNCHANGED <<registered, onWriteHeader, headerWritten>>
    BY <1>9 DEF CallbackReturns, TellNext
  <2>2. ~headerWritten
    BY <2>1 DEF Header, HeaderInv
  <2>3. heard' = Append(heard, todo[1]) /\ todo[1] \in Callbacks /\ todo' = Tail(todo)
    BY <1>6, <2>1, TakeCallback DEF TellNext, Invoke
  <2>4. Len(heard') = Len(heard) + 1 /\ Len(todo') = Len(todo) - 1 /\ Len(todo) > 0
    BY <1>6, <2>1, <2>3, AppendCallback, TakeCallback
  <2>5. \A i \in 1..Len(todo') : todo'[i] = registered'[Len(heard') + i]
    <3> SUFFICES ASSUME NEW i \in 1..(Len(todo) - 1)
                 PROVE  todo'[i] = registered[Len(heard) + 1 + i]
      BY <1>6, <2>1, <2>4
    <3>1. todo'[i] = todo[i + 1]
      BY <1>6, <2>1, <2>3, TakeCallback
    <3>2. todo[i + 1] = registered[Len(heard) + (i + 1)]
      BY <1>5, <1>6, <2>1, <2>2
    <3> QED
      BY <1>6, <3>1, <3>2
  <2>6. \A i \in 1..Len(heard') : heard'[i] = registered'[i]
    <3> SUFFICES ASSUME NEW i \in 1..(Len(heard) + 1) PROVE heard'[i] = registered[i]
      BY <2>1, <2>4
    <3>1. CASE i = Len(heard) + 1
      BY <1>5, <1>6, <2>1, <2>2, <2>3, <2>4, <3>1, AppendCallback
    <3>2. CASE i \in 1..Len(heard)
      BY <1>5, <1>6, <2>3, <3>2, AppendCallback
    <3> QED
      BY <1>6, <3>1, <3>2
  <2> QED
    BY <1>5, <1>6, <2>1, <2>2, <2>4, <2>5, <2>6
<1>10. CASE LeaveWriteHeader
  <2>1. pc = "telling" /\ Len(todo) = 0 /\ headerWritten' /\ UNCHANGED <<heard, registered>>
    BY <1>10, NoCallbacks DEF LeaveWriteHeader
  <2> QED
    BY <1>5, <1>6, <2>1
<1>11. CASE Hijack \/ HandlerPanics
  BY <1>5, <1>11 DEF Hijack, HandlerPanics
<1>12. CASE DelegateWrites \/ DelegateFlush \/ \E taken \in 0..(MaxBytes - bytes) : SourcePanics(taken)
  <2>1. headerWritten /\ UNCHANGED <<headerWritten, heard, registered>>
    BY <1>12 DEF DelegateWrites, Delegate, DelegateFlush, SourcePanics, Header, HeaderInv
  <2> QED
    BY <1>5, <2>1
<1>13. CASE Finish \/ Abort
  BY <1>5, <1>13 DEF Finish, Abort
<1>14. CASE UNCHANGED observeVars
  BY <1>5, <1>14 DEF observeVars
<1> HIDE DEF InOrder
<1> QED
  BY <1>7, <1>8, <1>9, <1>10, <1>11, <1>12, <1>13, <1>14, StepCases

-----------------------------------------------------------------------------
(* Theorems *)

\* The inductive invariant: what was sent, reported and told agree at every
\* step of the handler, its callbacks and the writer.
THEOREM ObserveInvariant == ObserveSpec => []ObserveInv
<1>1. ObserveInit => Types /\ Header /\ Order
  BY TypesInit, HeaderInit, OrderInit
<1>2. (Types /\ Header /\ Order) /\ [ObserveNext]_observeVars => (Types /\ Header /\ Order)'
  <2> SUFFICES ASSUME Types, Header, Order, [ObserveNext]_observeVars
               PROVE  Types' /\ Header' /\ Order'
    OBVIOUS
  <2>1. Types'
    BY TypesStep
  <2> QED
    BY <2>1, HeaderStep, OrderStep
<1>3. Types /\ Header /\ Order => ObserveInv
  BY DEF Types, Header, Order, ObserveInv, HeaderInv, ReportedStatusIsSent, ObserveTypeOK
<1> QED
  BY <1>1, <1>2, <1>3, PTL DEF ObserveSpec

\* Callbacks run once, in order and all of them.
THEOREM CallbacksHeardInOrder == ObserveSpec => []HeardInOrder
<1>1. ObserveInv => HeardInOrder
  BY DEF ObserveInv
<1> QED
  BY <1>1, ObserveInvariant, PTL

\* No method of the writer lets anything be sent before the callbacks ran.
THEOREM CallbacksRunFirst == ObserveSpec => []NothingSentUnobserved
<1>1. ObserveInv => NothingSentUnobserved
  BY DEF ObserveInv
<1> QED
  BY <1>1, ObserveInvariant, PTL

\* The final status that the writer reports is the one that is sent.
THEOREM StatusIsTrue == ObserveSpec => []ReportedStatusIsSent
<1>1. ObserveInv => ReportedStatusIsSent
  BY DEF ObserveInv
<1> QED
  BY <1>1, ObserveInvariant, PTL

\* The reported status changes only in the first WriteHeader.
THEOREM StatusNeverChanges == ObserveSpec => StatusIsStable
<1>1. ObserveInv /\ [ObserveNext]_observeVars
        => [~broken /\ statusCode # 0 => statusCode' = statusCode]_observeVars
  <2> SUFFICES ASSUME ObserveInv, [ObserveNext]_observeVars, ~broken, statusCode # 0
               PROVE  statusCode' = statusCode
    OBVIOUS
  <2>1. CASE HandlerCalls
    <3>1. PICK o \in Operations, c \in Codes : Call("handler", o, c)
      BY <2>1 DEF HandlerCalls
    <3>2. headerWritten
      BY <3>1 DEF Call, ObserveInv, HeaderInv
    <3> QED
      BY <3>1, <3>2 DEF Call, EnterWriteHeader
  <2>2. CASE ~HandlerCalls
    BY <2>2, StepCases
    DEF Register, RegisterLate, Hijack, HandlerPanics, CallbackReturns, CallbackPanics,
        CallbackRegisters, TellNext, LeaveWriteHeader, DelegateWrites, Delegate,
        DelegateFlush, Finish, Abort, SourcePanics, writer, observeVars
  <2> QED
    BY <2>1, <2>2
<1> QED
  BY <1>1, ObserveInvariant, PTL DEF ObserveSpec, StatusIsStable

-----------------------------------------------------------------------------
(* Recovery *)

\* The actions of a step.
LEMMA RecoveryCases ==
  ASSUME [Next]_vars
  PROVE  \/ HandlerSteps /\ Writing
         \/ HandlerSteps /\ ~recovering /\ Handling
         \/ HandlerReturns
         \/ Recover \/ WriteStatusCode \/ BodyWrites \/ BodyReturns \/ Notify
         \/ Misbehave \/ RecoveryReturns \/ Escape
         \/ UNCHANGED vars
BY DEF Next, Deferred, HandlerSteps

\* The actions of a step of the writer.
LEMMA WritingCases ==
  ASSUME Writing
  PROVE  \/ CallbackReturns \/ CallbackPanics \/ \E c \in Callbacks : CallbackRegisters(c)
         \/ LeaveWriteHeader
         \/ DelegateWrites \/ DelegateFlush
BY DEF Writing

\* The actions of a step of the handler.
LEMMA HandlingCases ==
  ASSUME Handling
  PROVE  \/ HandlerCalls
         \/ \E c \in Callbacks : Register(c) \/ RegisterLate(c)
         \/ Hijack \/ HandlerPanics
         \/ \E taken \in 0..(MaxBytes - bytes) : SourcePanics(taken)
BY DEF Handling

-----------------------------------------------------------------------------
(* Types *)

RecoveryTypes == TypeOK /\ contentLength <= bytes

\* The status that is written after a panic is one of those configured.
LEMMA ChosenIsStatus ==
  ASSUME TypeOK, configured \in Nat
  PROVE  ChosenStatus \in Nat
BY RecoveryConstants DEF TypeOK, ChosenStatus

\* A call of the writer, whoever makes it, keeps the types.
LEMMA CallTypes ==
  ASSUME ObserveTypeOK, NEW caller, NEW o \in Operations, NEW c \in Nat, Call(caller, o, c)
  PROVE  ObserveTypeOK' /\ UNCHANGED <<contentLength, bytes>>
         /\ back' = caller /\ pc' \in {"telling", "delegating"}
BY DEF Call, EnterWriteHeader, ObserveTypeOK, net, history

\* The control of a step of the writer: it goes on, gives back or panics.
LEMMA WritingControl ==
  ASSUME Writing
  PROVE  /\ pc \in {"telling", "delegating"}
         /\ pc' \in {"telling", "delegating", "panicking", back}
         /\ back' = back /\ op' = op /\ code' = code /\ hijacked' = hijacked
<1> USE DEF writer, call, net, history
<1>1. CASE CallbackReturns \/ CallbackPanics \/ \E c \in Callbacks : CallbackRegisters(c)
  BY <1>1 DEF CallbackReturns, CallbackPanics, CallbackRegisters, TellNext
<1>2. CASE LeaveWriteHeader
  BY <1>2 DEF LeaveWriteHeader
<1>3. CASE DelegateWrites \/ DelegateFlush
  BY <1>3 DEF DelegateWrites, DelegateFlush, Delegate
<1> QED
  BY <1>1, <1>2, <1>3, WritingCases

\* The control of a step of the handler: it stays, calls the writer or panics, in the
\* middle of a ReadFrom too.
LEMMA HandlingControl ==
  ASSUME Handling
  PROVE  /\ pc \in {"handler", "delegating"}
         /\ pc' \in {"handler", "telling", "delegating", "panicking"}
         /\ back' = back \/ back' = "handler"
         /\ pc' \in {"telling", "delegating"} => back' = "handler"
<1> USE DEF writer, call, net, history
<1>1. CASE HandlerCalls
  BY <1>1 DEF HandlerCalls, Call, EnterWriteHeader
<1>2. CASE \E c \in Callbacks : Register(c) \/ RegisterLate(c)
  BY <1>2 DEF Register, RegisterLate
<1>3. CASE Hijack \/ HandlerPanics
  BY <1>3 DEF Hijack, HandlerPanics
<1>4. CASE \E taken \in 0..(MaxBytes - bytes) : SourcePanics(taken)
  BY <1>4 DEF SourcePanics
<1> QED
  BY <1>1, <1>2, <1>3, <1>4, HandlingCases

LEMMA RecoveryTypesInit == Init => RecoveryTypes
<1> SUFFICES ASSUME Init PROVE RecoveryTypes
  OBVIOUS
<1>1. Types
  BY TypesInit DEF Init
<1> QED
  BY <1>1, RecoveryConstants DEF Types, Init, ObserveInit, RecoveryTypes, TypeOK

\* The configuration is that of the decorator's construction.
Config == observed \in BOOLEAN /\ configured \in Nat /\ listeners \in Nat

LEMMA ConfigInit == Init => Config
BY RecoveryConstants DEF Init, Config

LEMMA ConfigStep ==
  ASSUME Config, [Next]_vars
  PROVE  Config' /\ UNCHANGED recoveryConfig
<1>1. UNCHANGED recoveryConfig
  BY RecoveryCases
  DEF HandlerSteps, HandlerReturns, Recover, WriteStatusCode, BodyWrites, BodyReturns, Notify,
      Misbehave, RecoveryReturns, Escape, recoveryVars, vars
<1> QED
  BY <1>1 DEF Config, recoveryConfig

LEMMA RecoveryTypesStep ==
  ASSUME RecoveryTypes, Config, [Next]_vars
  PROVE  RecoveryTypes'
<1>1. UNCHANGED recoveryConfig
  BY ConfigStep
<1>2. ObserveNext => Types'
  BY TypesStep DEF RecoveryTypes, TypeOK, Types
<1>3. contentLength \in Nat /\ bytes \in 0..MaxBytes /\ contentLength <= bytes
  BY ObserveConstants DEF RecoveryTypes, TypeOK, ObserveTypeOK
<1> USE DEF RecoveryTypes, TypeOK, recoveryConfig, recoveryState, recoveryVars
<1>4. CASE HandlerSteps /\ Writing
  BY <1>1, <1>2, <1>4, WritingControl DEF HandlerSteps, ObserveNext, Types
<1>5. CASE HandlerSteps /\ ~recovering /\ Handling
  BY <1>1, <1>2, <1>5, HandlingControl DEF HandlerSteps, ObserveNext, Types
<1>6. CASE HandlerReturns
  BY <1>1, <1>2, <1>6 DEF HandlerReturns, ObserveNext, Types, Finish, call
<1>7. CASE Recover \/ BodyReturns \/ Misbehave \/ Escape
  <2>1. UNCHANGED <<writer, call, net, history, object, notified>>
    BY <1>7 DEF Recover, BodyReturns, Misbehave, Escape, observeVars
  <2>2. ObserveTypeOK' /\ contentLength' <= bytes'
    BY <2>1 DEF ObserveTypeOK, writer, call, net, history
  <2>3. /\ pc' \in {"panicking", "recovering", "escaped"}
        /\ next' \in {"writeStatusCode", "onRecover", next}
        /\ culprit' \in {"object", "body", "listener", culprit}
    BY <1>7 DEF Recover, BodyReturns, Misbehave, Escape, AtStep, observeVars
  <2> QED
    BY <1>1, <2>1, <2>2, <2>3 DEF call
<1>8. CASE WriteStatusCode
  <2>1. ChosenStatus \in Nat
    BY ChosenIsStatus DEF Config
  <2>2. CASE observed
    <3>1. Call("recovering", "WriteHeader", ChosenStatus)
      BY <1>8, <2>2 DEF WriteStatusCode
    <3>2. ObserveTypeOK' /\ UNCHANGED <<contentLength, bytes>>
            /\ back' = "recovering" /\ pc' \in {"telling", "delegating"}
      BY <2>1, <3>1, CallTypes DEF Operations
    <3> QED
      BY <1>1, <1>8, <3>2 DEF WriteStatusCode
  <2>3. CASE ~observed
    <3>1. wire' \in Nat /\ pc' \in {"recovering", "panicking"}
      BY <1>8, <2>1, <2>3 DEF WriteStatusCode, NetWriteHeader, AtStep, ObserveTypeOK
    <3>2. UNCHANGED <<writer, call, bytes, hijacked, history>>
      BY <1>8, <2>3 DEF WriteStatusCode
    <3> QED
      BY <1>1, <1>8, <3>1, <3>2 DEF WriteStatusCode, ObserveTypeOK, writer, call, history
  <2> QED
    BY <2>2, <2>3
<1>9. CASE BodyWrites
  <2>1. CASE observed
    <3>1. Call("recovering", "Write", 0)
      BY <1>9, <2>1 DEF BodyWrites
    <3>2. ObserveTypeOK' /\ UNCHANGED <<contentLength, bytes>>
            /\ back' = "recovering" /\ pc' \in {"telling", "delegating"}
      BY <3>1, CallTypes DEF Operations
    <3> QED
      BY <1>1, <1>9, <3>2 DEF BodyWrites
  <2>2. CASE ~observed
    <3>1. wire' \in Nat /\ bytes' \in 0..MaxBytes /\ bytes <= bytes'
      BY <1>3, <1>9, <2>2, ObserveConstants DEF BodyWrites, NetWriteHeader, ObserveTypeOK
    <3>2. UNCHANGED <<writer, pc, call, hijacked, history>>
      BY <1>9, <2>2 DEF BodyWrites
    <3>3. contentLength' <= bytes'
      BY <1>3, <3>1, <3>2, ObserveConstants DEF writer
    <3> QED
      BY <1>1, <1>9, <3>1, <3>2, <3>3 DEF BodyWrites, ObserveTypeOK, writer, call, history
  <2> QED
    BY <2>1, <2>2
<1>10. CASE Notify
  BY <1>1, <1>10 DEF Notify, Config, ObserveTypeOK, observeVars, writer, call, net, history
<1>11. CASE RecoveryReturns
  <2>1. wire' \in Nat
    BY <1>11 DEF RecoveryReturns, NetWriteHeader, ObserveTypeOK
  <2> QED
    BY <1>1, <1>11, <2>1 DEF RecoveryReturns, ObserveTypeOK, writer, call, net, history
<1>12. CASE UNCHANGED vars
  BY <1>12 DEF vars, ObserveTypeOK, observeVars, writer, call, net, history
<1> QED
  BY <1>4, <1>5, <1>6, <1>7, <1>8, <1>9, <1>10, <1>11, <1>12, RecoveryCases

-----------------------------------------------------------------------------
(* The length *)

LEMMA LengthInit == Init => LengthIsTheResponse
BY DEF Init, ObserveInit, LengthIsTheResponse

\* Only a write, of the handler or of the deferred function, changes a counter.
LEMMA LengthStep ==
  ASSUME RecoveryTypes, Config, DeferredInv, LengthIsTheResponse, [Next]_vars
  PROVE  LengthIsTheResponse'
<1>1. UNCHANGED recoveryConfig
  BY ConfigStep
<1>2. contentLength \in Nat /\ bytes \in Nat
  BY ObserveConstants DEF RecoveryTypes, TypeOK, ObserveTypeOK
<1>3. recovering => recovering'
  BY RecoveryCases
  DEF HandlerSteps, HandlerReturns, Recover, WriteStatusCode, BodyWrites, BodyReturns, Notify,
      Misbehave, RecoveryReturns, Escape, recoveryVars, recoveryState, vars
<1> USE DEF LengthIsTheResponse, recoveryConfig
<1>4. CASE DelegateWrites
  <2>1. PICK n \in 1..(MaxBytes - bytes), taken \in 0..MaxBytes : taken <= n /\ Delegate(n, taken)
    BY <1>4 DEF DelegateWrites
  <2>2. taken \in Nat /\ bytes' = bytes + taken /\ contentLength' = contentLength + taken
          /\ abandoned' = abandoned
    BY <2>1 DEF Delegate, Counted, history
  <2> QED
    BY <1>1, <1>2, <1>3, <2>2
<1>5. CASE \E taken \in 0..(MaxBytes - bytes) : SourcePanics(taken)
  <2>1. PICK taken \in 0..(MaxBytes - bytes) : SourcePanics(taken)
    BY <1>5
  <2>2. taken \in Nat /\ bytes' = bytes + taken /\ contentLength' = contentLength
    BY <1>2, <2>1 DEF SourcePanics, writer
  <2>3. CASE taken = 0
    <3>1. UNCHANGED <<contentLength, bytes, abandoned>>
      BY <1>2, <2>1, <2>2, <2>3 DEF SourcePanics, RecoveryTypes, TypeOK, ObserveTypeOK
    <3> QED
      BY <1>1, <1>3, <3>1
  <2>4. CASE taken > 0
    <3>1. abandoned'
      BY <2>1, <2>4 DEF SourcePanics
    <3> QED
      BY <1>2, <2>2, <2>4, <3>1
  <2> QED
    BY <2>2, <2>3, <2>4
<1>6. CASE BodyWrites /\ ~observed
  <2>1. /\ contentLength' = contentLength /\ abandoned' = abandoned
        /\ bytes' \in Nat /\ bytes <= bytes'
    BY <1>2, <1>6, ObserveConstants DEF BodyWrites, writer, history
  <2>2. recovering /\ recovering'
    BY <1>3, <1>6 DEF BodyWrites, AtStep, DeferredInv
  <2> QED
    BY <1>1, <1>2, <1>6, <2>1, <2>2
<1>7. CASE ~DelegateWrites /\ (~\E taken \in 0..(MaxBytes - bytes) : SourcePanics(taken))
           /\ ~(BodyWrites /\ ~observed)
  <2>1. UNCHANGED <<contentLength, bytes, abandoned>>
    BY <1>7, RecoveryCases, WritingCases, HandlingCases
    DEF HandlerReturns, Recover, WriteStatusCode, BodyWrites, BodyReturns, Notify,
        Misbehave, RecoveryReturns, Escape, vars, HandlerCalls, Call, Register, RegisterLate,
        Hijack, HandlerPanics, CallbackReturns, CallbackPanics, CallbackRegisters, TellNext,
        LeaveWriteHeader, DelegateFlush, Finish, observeVars, writer, net, history
  <2> QED
    BY <1>1, <1>3, <2>1
<1> QED
  BY <1>4, <1>5, <1>6, <1>7

-----------------------------------------------------------------------------
(* The deferred function *)

LEMMA DeferredInit == Init => DeferredInv
BY DEF Init, ObserveInit, DeferredInv

LEMMA DeferredStep ==
  ASSUME RecoveryTypes, Config, DeferredInv, [Next]_vars
  PROVE  DeferredInv'
<1> USE DEF DeferredInv, AtStep, recoveryConfig, recoveryState, recoveryVars
<1>1. UNCHANGED recoveryConfig
  BY ConfigStep
<1>2. CASE HandlerSteps /\ Writing
  BY <1>1, <1>2, WritingControl DEF HandlerSteps
<1>3. CASE HandlerSteps /\ ~recovering /\ Handling
  BY <1>1, <1>3, HandlingControl DEF HandlerSteps
<1>4. CASE HandlerReturns
  BY <1>1, <1>4 DEF HandlerReturns, Finish
<1>5. CASE Recover \/ BodyReturns \/ Misbehave \/ Escape \/ Notify
  BY <1>1, <1>5
  DEF Recover, BodyReturns, Misbehave, Escape, Notify, observeVars, call
<1>6. CASE WriteStatusCode
  <2>1. \/ observed /\ back' = "recovering" /\ pc' \in {"telling", "delegating"}
        \/ pc' \in {"recovering", "panicking"}
    BY <1>6 DEF WriteStatusCode, Call, EnterWriteHeader
  <2> QED
    BY <1>1, <1>6, <2>1 DEF WriteStatusCode
<1>7. CASE BodyWrites
  <2>1. \/ observed /\ back' = "recovering" /\ pc' \in {"telling", "delegating"}
        \/ pc' = pc
    BY <1>7 DEF BodyWrites, Call, EnterWriteHeader
  <2> QED
    BY <1>1, <1>7, <2>1 DEF BodyWrites
<1>8. CASE RecoveryReturns
  BY <1>1, <1>8 DEF RecoveryReturns
<1>9. CASE UNCHANGED vars
  BY <1>9 DEF vars, observeVars, call
<1> QED
  BY <1>2, <1>3, <1>4, <1>5, <1>6, <1>7, <1>8, <1>9, RecoveryCases

-----------------------------------------------------------------------------
(* The answer to a panic *)

LEMMA AnswerInit == Init => AnswerInv
BY DEF Init, AnswerInv

\* The header goes with the final status.
LEMMA Snapshot ==
  ASSUME SnapshotHeader, header, NEW c \in Nat, wire \in Nat, wire' = NetWriteHeader(c),
         wire # 0 => sentHeader
  PROVE  wire' # 0 => sentHeader'
BY DEF SnapshotHeader

\* A status that answers the panic stays when something else is written.
LEMMA AnsweredStays ==
  ASSUME Final(ChosenStatus) => wire = ChosenStatus, wire' = NetWriteHeader(200),
         ChosenStatus \in Nat
  PROVE  Final(ChosenStatus) => wire' = ChosenStatus
BY DEF NetWriteHeader, Final, Valid

\* The chosen status reaches a response that has none.
LEMMA ChosenAnswers ==
  ASSUME ~hijacked, wire = 0, wire' = NetWriteHeader(ChosenStatus)
  PROVE  Final(ChosenStatus) => wire' = ChosenStatus
BY DEF NetWriteHeader

LEMMA AnswerStep ==
  ASSUME RecoveryTypes, Config, DeferredInv, ObservedInv, AnswerInv, [Next]_vars
  PROVE  AnswerInv'
<1>1. UNCHANGED recoveryConfig
  BY ConfigStep
<1>2. wire \in Nat /\ ChosenStatus \in Nat /\ code \in Nat
  BY ChosenIsStatus DEF RecoveryTypes, TypeOK, ObserveTypeOK, Config
<1>3. CASE ~recovering'
  BY <1>3 DEF AnswerInv
<1>4. CASE Recover
  BY <1>1, <1>4 DEF Recover, AnswerInv, DeferredInv, net, recoveryConfig
<1> SUFFICES ASSUME recovering', ~Recover PROVE AnswerInv'
  BY <1>3, <1>4
<1>5. recovering
  BY RecoveryCases
  DEF HandlerSteps, HandlerReturns, WriteStatusCode, BodyWrites, BodyReturns, Notify,
      Misbehave, RecoveryReturns, Escape, recoveryVars, recoveryState, vars
<1>6. ChosenStatus' = ChosenStatus /\ committed' = committed /\ header
  <2>1. object' = object /\ committed' = committed
    BY <1>5, RecoveryCases
    DEF HandlerSteps, UserPanics, HandlerReturns, WriteStatusCode, BodyWrites, BodyReturns,
        Notify, Misbehave, RecoveryReturns, Escape, recoveryVars, recoveryState, vars
  <2>2. configured' = configured /\ header
    BY <1>1, <1>5 DEF recoveryConfig, DeferredInv
  <2> QED
    BY <2>1, <2>2 DEF ChosenStatus
<1> HIDE DEF ChosenStatus
<1>7. CASE HandlerSteps /\ Writing
  <2>1. next' = next /\ back = "recovering" /\ next = "writeBody" /\ observed /\ SnapshotHeader
        /\ culprit' = culprit /\ observed' = observed
    BY <1>1, <1>5, <1>7, WritingControl DEF HandlerSteps, DeferredInv, recoveryConfig
  <2>2. op' = op /\ code' = code /\ hijacked' = hijacked
    BY <1>7, WritingControl
  <2>3. CASE CallbackReturns \/ CallbackPanics \/ \E c \in Callbacks : CallbackRegisters(c)
    <3>1. TellNext /\ pc = "telling" /\ wire' = wire
      BY <2>3 DEF CallbackReturns, CallbackPanics, CallbackRegisters, TellNext, net
    <3>2. pc' = "telling" \/ (pc' = "panicking" /\ broken')
      BY <2>3, <3>1 DEF CallbackReturns, CallbackPanics, CallbackRegisters
    <3> QED
      BY <1>5, <1>6, <2>1, <2>2, <3>1, <3>2 DEF AnswerInv, SnapshotHeader
  <2>4. CASE LeaveWriteHeader
    <3>1. /\ pc = "telling" /\ op = "WriteHeader" /\ code = ChosenStatus
          /\ wire' = NetWriteHeader(ChosenStatus)
          /\ pc' = IF NetRefuses(ChosenStatus) THEN "panicking" ELSE "recovering"
      BY <1>5, <2>1, <2>4 DEF LeaveWriteHeader, AnswerInv
    <3>2. committed <=> wire # 0 \/ hijacked
      BY <1>5, <3>1 DEF AnswerInv
    <3>3. ~committed => (Final(ChosenStatus) => wire' = ChosenStatus)
      BY <3>1, <3>2, ChosenAnswers
    <3>4. ~committed => (wire' # 0 => sentHeader')
      BY <1>2, <1>6, <2>1, <3>1, <3>2, Snapshot
    <3>5. pc' = "panicking" => ~Valid(ChosenStatus) /\ ~committed
      BY <3>1, <3>2 DEF NetRefuses
    <3> QED
      BY <1>5, <1>6, <2>1, <2>2, <3>1, <3>2, <3>3, <3>4, <3>5 DEF AnswerInv
  <2>5. CASE DelegateWrites \/ DelegateFlush
    <3>1. pc = "delegating" /\ pc' = "recovering" /\ wire' = NetWriteHeader(200)
      BY <2>1, <2>5 DEF DelegateWrites, Delegate, DelegateFlush
    <3>2. ~committed => (Final(ChosenStatus) => wire' = ChosenStatus)
      BY <1>2, <1>5, <2>1, <3>1, AnsweredStays DEF AnswerInv
    <3>3. ~committed => (wire' # 0 => sentHeader')
      BY <1>2, <1>5, <1>6, <2>1, <3>1, Snapshot DEF AnswerInv
    <3> QED
      BY <1>5, <1>6, <2>1, <2>2, <3>1, <3>2, <3>3 DEF AnswerInv
  <2> QED
    BY <1>7, <2>3, <2>4, <2>5, WritingCases
<1>8. CASE WriteStatusCode
  <2>1. /\ pc = "recovering" /\ next = "writeStatusCode" /\ next' = "writeBody" /\ SnapshotHeader
        /\ committed <=> wire # 0 \/ hijacked
        /\ culprit' = culprit
    BY <1>5, <1>8 DEF WriteStatusCode, AtStep, AnswerInv
  <2>2. CASE observed /\ Call("recovering", "WriteHeader", ChosenStatus)
    BY <1>5, <1>6, <2>1, <2>2
    DEF Call, EnterWriteHeader, MustWriteHeader, AnswerInv, SnapshotHeader, net
  <2>3. CASE ~observed
    <3>1. /\ wire' = NetWriteHeader(ChosenStatus) /\ hijacked' = hijacked
          /\ pc' = IF NetRefuses(ChosenStatus) THEN "panicking" ELSE "recovering"
      BY <1>8, <2>1, <2>3 DEF WriteStatusCode
    <3>2. ~committed => (Final(ChosenStatus) => wire' = ChosenStatus)
      BY <2>1, <3>1, ChosenAnswers
    <3>3. ~committed => (wire' # 0 => sentHeader')
      BY <1>2, <1>6, <2>1, <3>1, Snapshot
    <3>4. pc' = "panicking" => ~Valid(ChosenStatus) /\ ~committed
      BY <2>1, <3>1 DEF NetRefuses
    <3> QED
      BY <1>5, <1>6, <2>1, <3>1, <3>2, <3>3, <3>4 DEF AnswerInv
  <2> QED
    BY <1>8, <2>2, <2>3 DEF WriteStatusCode
<1>9. CASE BodyWrites
  <2>1. pc = "recovering" /\ next = "writeBody" /\ next' = next /\ SnapshotHeader
    BY <1>9 DEF BodyWrites, AtStep, recoveryState
  <2>2. CASE observed /\ Call("recovering", "Write", 0)
    <3>1. headerWritten
      BY <1>5, <2>1, <2>2 DEF ObservedInv
    <3>2. pc' = "delegating" /\ wire' = wire /\ hijacked' = hijacked
      BY <2>2, <3>1 DEF Call, MustWriteHeader, net
    <3> QED
      BY <1>5, <1>6, <2>1, <3>2 DEF AnswerInv, SnapshotHeader
  <2>3. CASE ~observed
    <3>1. wire' = NetWriteHeader(200) /\ hijacked' = hijacked /\ pc' = pc
      BY <1>9, <2>3 DEF BodyWrites
    <3>2. ~committed => (Final(ChosenStatus) => wire' = ChosenStatus)
      BY <1>2, <1>5, <2>1, <3>1, AnsweredStays DEF AnswerInv
    <3>3. ~committed => (wire' # 0 => sentHeader')
      BY <1>2, <1>5, <1>6, <2>1, <3>1, Snapshot DEF AnswerInv
    <3> QED
      BY <1>5, <1>6, <2>1, <3>1, <3>2, <3>3 DEF AnswerInv
  <2> QED
    BY <1>9, <2>2, <2>3 DEF BodyWrites
<1>10. CASE BodyReturns \/ Notify
  <2>1. /\ pc = "recovering" /\ pc' = pc /\ next # "writeStatusCode" /\ next' # "writeStatusCode"
        /\ UNCHANGED <<wire, hijacked, sentHeader>>
    BY <1>10 DEF BodyReturns, Notify, AtStep, observeVars, net
  <2> QED
    BY <1>5, <1>6, <2>1 DEF AnswerInv
<1>11. CASE Misbehave \/ Escape
  <2>1. /\ pc' \in {"panicking", "escaped"} /\ next' = next
        /\ UNCHANGED <<wire, hijacked, sentHeader, observed, broken>>
        /\ culprit' # "none" \/ (pc = "panicking" /\ culprit' = culprit)
    BY <1>5, <1>11
    DEF Misbehave, Escape, AtStep, DeferredInv, net, history, recoveryVars, recoveryConfig, recoveryState
  <2> QED
    BY <1>5, <1>6, <2>1 DEF AnswerInv
<1>12. CASE RecoveryReturns
  <2>1. pc = "recovering" /\ pc' = "done" /\ wire' = NetWriteHeader(200) /\ hijacked' = hijacked
        /\ SnapshotHeader /\ next = "onRecover" /\ next' = next
    BY <1>12 DEF RecoveryReturns, AtStep, recoveryVars, recoveryState
  <2>2. ~committed => (Final(ChosenStatus) => wire' = ChosenStatus)
    BY <1>2, <1>5, <2>1, AnsweredStays DEF AnswerInv
  <2>3. ~committed => (wire' # 0 => sentHeader')
    BY <1>2, <1>5, <1>6, <2>1, Snapshot DEF AnswerInv
  <2> QED
    BY <1>5, <1>6, <2>1, <2>2, <2>3 DEF AnswerInv
<1>13. CASE UNCHANGED vars
  BY <1>6, <1>13
  DEF AnswerInv, vars, observeVars, call, net, history, recoveryVars, recoveryConfig, recoveryState
<1>14. ~HandlerReturns
  BY <1>5 DEF HandlerReturns, Finish, DeferredInv
<1> QED
  BY <1>5, <1>7, <1>8, <1>9, <1>10, <1>11, <1>12, <1>13, <1>14, RecoveryCases

-----------------------------------------------------------------------------
(* What the callbacks hear *)

LEMMA ElementsOfAppend ==
  ASSUME NEW s \in Seq(Callbacks), NEW c \in Callbacks
  PROVE  Elements(Append(s, c)) = Elements(s) \cup {c}
<1>1. \A i \in 1..(Len(s) + 1) : i \in 1..Len(s) \/ i = Len(s) + 1
  BY LenProperties
<1>2. (Len(s) + 1) \in 1..(Len(s) + 1) /\ 1..Len(s) \subseteq 1..(Len(s) + 1)
  BY LenProperties
<1> QED
  BY <1>1, <1>2, AppendCallback DEF Elements

LEMMA ElementsOfRest ==
  ASSUME NEW s \in Seq(Callbacks), s # <<>>
  PROVE  Elements(s) = {Head(s)} \cup Elements(Tail(s)) /\ Head(s) \in Callbacks
<1> DEFINE n == Len(s)
<1>1. n \in Nat \ {0} /\ DOMAIN s = 1..n /\ DOMAIN Tail(s) = 1..(n - 1) /\ Head(s) = s[1]
  BY TakeCallback
<1>2. \A i \in 1..(n - 1) : Tail(s)[i] = s[i + 1] /\ i + 1 \in 1..n
  BY <1>1, TakeCallback
<1>3. \A i \in 1..n : i = 1 \/ (i - 1 \in 1..(n - 1) /\ (i - 1) + 1 = i)
  BY <1>1
<1>4. \A i \in 1..n : s[i] = Head(s) \/ \E j \in 1..(n - 1) : s[i] = Tail(s)[j]
  BY <1>1, <1>2, <1>3
<1>5. 1 \in 1..n
  BY <1>1
<1>6. ASSUME NEW x PROVE x \in Elements(s) <=> x = Head(s) \/ x \in Elements(Tail(s))
  <2> HIDE DEF n
  <2>1. x \in Elements(s) <=> \E i \in 1..n : x = s[i]
    BY <1>1 DEF Elements
  <2>2. x \in Elements(Tail(s)) <=> \E j \in 1..(n - 1) : x = Tail(s)[j]
    BY <1>1 DEF Elements
  <2> QED
    BY <1>1, <1>2, <1>4, <1>5, <2>1, <2>2
<1> QED
  BY <1>6, TakeCallback

LEMMA NoElements == Elements(<<>>) = {}
BY NoCallbacks DEF Elements

LEMMA ObservedInit == Init => ObservedInv
BY NoElements DEF Init, ObserveInit, ObservedInv

\* A step that leaves the callbacks alone and does not start or end a run of them.
LEMMA CallbacksUndisturbed ==
  ASSUME ObservedInv, headerWritten' = headerWritten,
         UNCHANGED <<registered, heard, onWriteHeader, todo, orphans>>,
         pc' # "telling" \/ headerWritten, pc = "telling" => headerWritten \/ broken',
         broken => broken',
         pc' = "delegating" => headerWritten,
         recovering' /\ observed' /\ next' # "writeStatusCode"
           /\ (pc' \in {"recovering", "done"} \/ next' = "onRecover")
           => headerWritten
  PROVE  ObservedInv'
BY DEF ObservedInv

\* A call of the writer starts a run of the callbacks unless the header is written.
LEMMA CallObserved ==
  ASSUME ObserveTypeOK, ObservedInv, NEW caller, caller # "telling",
         NEW o, NEW c, Call(caller, o, c), recovering' = recovering,
         recovering' => next' # "onRecover"
  PROVE  ObservedInv'
<1>1. /\ pc = caller
      /\ pc' \in {"telling", "delegating"}
      /\ UNCHANGED <<headerWritten, registered, heard, onWriteHeader, orphans, broken>>
      /\ pc' = "delegating" => headerWritten
      /\ headerWritten => todo' = todo
      /\ ~headerWritten => todo' = onWriteHeader
  BY DEF Call, EnterWriteHeader, MustWriteHeader, history
<1> QED
  BY <1>1 DEF ObservedInv

\* One more callback hears the status.
LEMMA TellNextObserved ==
  ASSUME ObserveTypeOK, ObservedInv, Writing, TellNext, recovering' => next' # "onRecover"
  PROVE  ObservedInv'
<1>1. /\ pc = "telling" /\ todo # <<>> /\ UNCHANGED headerWritten
      /\ todo \in Seq(Callbacks) /\ heard \in Seq(Callbacks)
      /\ registered \in Seq(Callbacks) /\ onWriteHeader \in Seq(Callbacks)
  BY DEF TellNext, ObserveTypeOK
<1>2. ~headerWritten
  BY <1>1 DEF ObservedInv
<1>3. Elements(todo) = {Head(todo)} \cup Elements(todo') /\ Head(todo) \in Callbacks
  BY <1>1, ElementsOfRest DEF TellNext
<1>4. Elements(heard') = Elements(heard) \cup {Head(todo)}
  BY <1>1, <1>3, ElementsOfAppend DEF TellNext, Invoke
<1>5. CASE CallbackReturns \/ CallbackPanics
  <2>1. /\ UNCHANGED <<onWriteHeader, registered, orphans>>
        /\ pc' = "telling" \/ (pc' = "panicking" /\ broken')
        /\ broken => broken'
    BY <1>1, <1>5 DEF CallbackReturns, CallbackPanics
  <2> QED
    BY <1>1, <1>2, <1>3, <1>4, <2>1 DEF ObservedInv
<1>6. CASE \E c \in Callbacks : CallbackRegisters(c)
  <2>1. PICK c \in Callbacks : CallbackRegisters(c)
    BY <1>6
  <2>2. /\ c \notin Elements(registered) /\ orphans' = orphans \cup {c}
        /\ Elements(registered') = Elements(registered) \cup {c}
        /\ Elements(onWriteHeader') = Elements(onWriteHeader) \cup {c}
        /\ pc' = pc /\ broken' = broken
    BY <1>1, <2>1, ElementsOfAppend DEF CallbackRegisters
  <2> QED
    BY <1>1, <1>2, <1>3, <1>4, <2>2 DEF ObservedInv
<1>7. ~LeaveWriteHeader /\ ~DelegateWrites /\ ~DelegateFlush
  BY <1>1 DEF LeaveWriteHeader, DelegateWrites, Delegate, DelegateFlush
<1> QED
  BY <1>5, <1>6, <1>7, WritingCases

\* Registering adds the callback to the list, or invokes it.
LEMMA RegisterObserved ==
  ASSUME ObserveTypeOK, ObservedInv, NEW c \in Callbacks, Register(c) \/ RegisterLate(c),
         ~recovering, ~recovering'
  PROVE  ObservedInv'
<1>1. /\ heard \in Seq(Callbacks) /\ registered \in Seq(Callbacks)
      /\ onWriteHeader \in Seq(Callbacks)
  BY DEF ObserveTypeOK
<1>2. /\ pc = "handler" /\ pc' \in {"handler", "panicking"}
      /\ c \notin Elements(registered)
      /\ Elements(registered') = Elements(registered) \cup {c}
      /\ UNCHANGED <<headerWritten, todo, orphans, broken>>
  BY <1>1, ElementsOfAppend DEF Register, RegisterLate, writer, call
<1>3. CASE Register(c)
  <2>1. ~headerWritten /\ heard' = heard
        /\ Elements(onWriteHeader') = Elements(onWriteHeader) \cup {c}
    BY <1>1, <1>3, ElementsOfAppend DEF Register
  <2> QED
    BY <1>2, <2>1 DEF ObservedInv
<1>4. CASE RegisterLate(c)
  <2>1. headerWritten /\ onWriteHeader' = onWriteHeader
        /\ Elements(heard') = Elements(heard) \cup {c}
    BY <1>1, <1>4, ElementsOfAppend DEF RegisterLate, Invoke, writer
  <2> QED
    BY <1>2, <2>1 DEF ObservedInv
<1> QED
  BY <1>3, <1>4

LEMMA ObservedStep ==
  ASSUME RecoveryTypes, Config, DeferredInv, ObservedInv, [Next]_vars
  PROVE  ObservedInv'
<1>1. UNCHANGED recoveryConfig
  BY ConfigStep
<1>2. ObserveTypeOK
  BY DEF RecoveryTypes, TypeOK
<1>3. CASE HandlerSteps /\ Writing
  <2>1. recovering' = recovering /\ next' = next
        /\ (recovering => back = "recovering") /\ (~recovering => back = "handler")
    BY <1>3, WritingControl DEF HandlerSteps, DeferredInv
  <2>2. CASE TellNext
    <3>1. recovering' => next' # "onRecover"
      BY <2>1, <2>2 DEF TellNext, DeferredInv
    <3> QED
      BY <1>2, <1>3, <2>2, <3>1, TellNextObserved
  <2>3. CASE LeaveWriteHeader
    <3>1. /\ pc = "telling" /\ todo = <<>> /\ headerWritten'
          /\ UNCHANGED <<registered, heard, onWriteHeader, todo, orphans, broken>>
          /\ pc' # "telling"
      BY <2>1, <2>3 DEF LeaveWriteHeader, call, history
    <3> QED
      BY <3>1, NoElements DEF ObservedInv
  <2>4. CASE DelegateWrites \/ DelegateFlush
    <3>1. /\ pc = "delegating" /\ pc' \in {"handler", "recovering"}
          /\ UNCHANGED <<headerWritten, registered, heard, onWriteHeader, todo, orphans, broken>>
      BY <2>1, <2>4 DEF DelegateWrites, Delegate, DelegateFlush, writer, call, history
    <3> QED
      BY <3>1, CallbacksUndisturbed DEF ObservedInv
  <2> QED
    BY <1>3, <2>2, <2>3, <2>4, WritingCases DEF CallbackReturns, CallbackPanics, CallbackRegisters
<1>4. CASE HandlerSteps /\ ~recovering /\ Handling
  <2>1. ~recovering /\ ~recovering'
    BY <1>4 DEF HandlerSteps
  <2>2. CASE HandlerCalls
    <3>1. PICK o \in Operations, c \in Codes : Call("handler", o, c)
      BY <2>2 DEF HandlerCalls
    <3>2. recovering' = recovering /\ "handler" # "telling"
      BY <2>1, <1>4 DEF HandlerSteps
    <3> QED
      BY <1>2, <2>1, <3>1, <3>2, CallObserved
  <2>3. CASE \E c \in Callbacks : Register(c) \/ RegisterLate(c)
    BY <1>2, <2>1, <2>3, RegisterObserved
  <2>4. CASE Hijack \/ HandlerPanics \/ \E taken \in 0..(MaxBytes - bytes) : SourcePanics(taken)
    BY <2>1, <2>4, CallbacksUndisturbed
    DEF Hijack, HandlerPanics, SourcePanics, ObservedInv, writer, call, history
  <2> QED
    BY <1>4, <2>2, <2>3, <2>4, HandlingCases
<1>5. CASE HandlerReturns
  <2>1. ~recovering /\ recovering' = recovering
    BY <1>5 DEF HandlerReturns, Finish, DeferredInv, recoveryVars, recoveryState
  <2> QED
    BY <1>5, <2>1, CallbacksUndisturbed DEF HandlerReturns, Finish, writer, call, history
<1>6. CASE Recover
  BY <1>6, CallbacksUndisturbed DEF Recover, writer, call, history
<1>7. CASE WriteStatusCode
  <2>1. recovering' = recovering /\ pc = "recovering" /\ next' = "writeBody"
    BY <1>7 DEF WriteStatusCode, AtStep
  <2>2. CASE observed /\ Call("recovering", "WriteHeader", ChosenStatus)
    BY <1>2, <2>1, <2>2, CallObserved
  <2>3. CASE ~observed
    BY <1>1, <1>7, <2>1, <2>3, CallbacksUndisturbed
    DEF WriteStatusCode, writer, call, history, recoveryConfig
  <2> QED
    BY <1>7, <2>2, <2>3 DEF WriteStatusCode
<1>8. CASE BodyWrites
  <2>1. recovering' = recovering /\ pc = "recovering" /\ next' = "writeBody"
    BY <1>8 DEF BodyWrites, AtStep, recoveryState
  <2>2. CASE observed /\ Call("recovering", "Write", 0)
    BY <1>2, <2>1, <2>2, CallObserved
  <2>3. CASE ~observed
    BY <1>1, <1>8, <2>1, <2>3, CallbacksUndisturbed
    DEF BodyWrites, writer, call, history, recoveryConfig
  <2> QED
    BY <1>8, <2>2, <2>3 DEF BodyWrites
<1>9. CASE BodyReturns \/ Notify
  <2>1. /\ pc = "recovering" /\ pc' = pc /\ next # "writeStatusCode"
        /\ UNCHANGED <<headerWritten, registered, heard, onWriteHeader, todo, orphans, broken>>
        /\ recovering' = recovering /\ observed' = observed
    BY <1>1, <1>9 DEF BodyReturns, Notify, AtStep, observeVars, writer, call, history, recoveryConfig
  <2> QED
    BY <2>1, CallbacksUndisturbed DEF ObservedInv
<1>10. CASE Misbehave \/ Escape
  <2>1. /\ pc' \in {"panicking", "escaped"} /\ pc # "telling" /\ next' = next
        /\ UNCHANGED <<headerWritten, registered, heard, onWriteHeader, todo, orphans, broken>>
        /\ recovering' = recovering /\ observed' = observed
    BY <1>1, <1>10
    DEF Misbehave, Escape, AtStep, writer, call, history, recoveryVars, recoveryState, recoveryConfig
  <2> QED
    BY <2>1, CallbacksUndisturbed DEF ObservedInv
<1>11. CASE RecoveryReturns
  <2>1. /\ pc = "recovering" /\ pc' = "done" /\ next = "onRecover" /\ next' = next
        /\ UNCHANGED <<headerWritten, registered, heard, onWriteHeader, todo, orphans, broken>>
        /\ recovering' = recovering /\ observed' = observed
    BY <1>11
    DEF RecoveryReturns, AtStep, writer, call, history, recoveryVars, recoveryConfig, recoveryState
  <2> QED
    BY <2>1, CallbacksUndisturbed DEF ObservedInv
<1>12. CASE UNCHANGED vars
  BY <1>12
  DEF ObservedInv, vars, observeVars, writer, call, history, recoveryVars, recoveryConfig, recoveryState
<1> QED
  BY <1>3, <1>4, <1>5, <1>6, <1>7, <1>8, <1>9, <1>10, <1>11, <1>12, RecoveryCases

-----------------------------------------------------------------------------
(* Theorems *)

\* The inductive invariant of the decorated handler and its deferred function.
THEOREM RecoveryInvariant == Spec => [](RecoveryInv /\ Config)
<1> DEFINE I == /\ RecoveryTypes /\ Config /\ LengthIsTheResponse
                /\ DeferredInv /\ AnswerInv /\ ObservedInv
<1>1. Init => I
  BY RecoveryTypesInit, ConfigInit, LengthInit, DeferredInit, AnswerInit, ObservedInit
<1>2. I /\ [Next]_vars => I'
  BY RecoveryTypesStep, ConfigStep, LengthStep, DeferredStep, AnswerStep, ObservedStep
<1>3. I => RecoveryInv /\ Config
  BY DEF RecoveryInv, RecoveryTypes
<1> QED
  BY <1>1, <1>2, <1>3, PTL DEF Spec

\* Whatever the recovery object and the configured status, a panic that comes
\* before the response has a status gets the status chosen for it, with the
\* decorator's headers.
THEOREM PanicsAreAnswered == Spec => []PanicIsAnswered
<1>1. RecoveryInv /\ Config => PanicIsAnswered
  <2> SUFFICES ASSUME RecoveryInv, Config, pc = "done", recovering, ~committed
               PROVE  /\ object # NoStatus /\ Final(object) => wire = object /\ sentHeader
                      /\ object = NoStatus /\ Final(configured) => wire = configured /\ sentHeader
                      /\ object = NoStatus /\ configured < 100 => wire = 500 /\ sentHeader
    BY DEF PanicIsAnswered
  <2>1. Final(ChosenStatus) => wire = ChosenStatus
    BY DEF RecoveryInv, AnswerInv, DeferredInv
  <2>2. wire # 0 => sentHeader
    BY DEF RecoveryInv, AnswerInv
  <2>3. ASSUME Final(ChosenStatus) PROVE wire = ChosenStatus /\ sentHeader
    BY <2>1, <2>2, <2>3 DEF Final, Valid
  <2>4. object # NoStatus => ChosenStatus = object
    BY DEF ChosenStatus
  <2>5. object = NoStatus /\ Final(configured) => ChosenStatus = configured
    BY DEF ChosenStatus, Final, Valid
  <2>6. object = NoStatus /\ configured < 100 => ChosenStatus = 500 /\ Final(ChosenStatus)
    BY DEF ChosenStatus, Final, Valid, Informational, Config
  <2> QED
    BY <2>3, <2>4, <2>5, <2>6
<1> QED
  BY <1>1, RecoveryInvariant, PTL

\* With the observe decorator outside, no callback misses a recovered panic.
THEOREM RecoveredPanicsAreObserved == Spec => []RecoveredIsObserved
<1>1. RecoveryInv => RecoveredIsObserved
  BY DEF RecoveryInv, RecoveredIsObserved, ObservedInv, DeferredInv
<1> QED
  BY <1>1, RecoveryInvariant, PTL

\* ContentLength() misses nothing of a response but the rest of an abandoned ReadFrom
\* and, with the recovery decorator outside, the page about the panic.
THEOREM LengthsAreTheResponse == Spec => []LengthIsTheResponse
<1>1. RecoveryInv => LengthIsTheResponse
  BY DEF RecoveryInv
<1> QED
  BY <1>1, RecoveryInvariant, PTL

\* No listener is told of a panic before it is answered and observed, whatever panics
\* in the deferred function, and none hears of a panic that got out earlier than that.
THEOREM ListenersAreToldLast == Spec => []ListenersHearOfAnswers
<1>1. RecoveryInv => ListenersHearOfAnswers
  <2> SUFFICES ASSUME RecoveryInv PROVE ListenersHearOfAnswers
    OBVIOUS
  <2>1. notified > 0 => recovering /\ next = "onRecover"
    BY DEF RecoveryInv, TypeOK, DeferredInv
  <2>2. notified > 0 /\ ~committed /\ Final(ChosenStatus) => wire = ChosenStatus /\ sentHeader
    BY <2>1 DEF RecoveryInv, AnswerInv, Final, Valid
  <2>3. notified > 0 /\ observed => headerWritten
    BY <2>1 DEF RecoveryInv, ObservedInv
  <2>4. pc = "escaped" => (culprit = "listener" <=> notified > 0)
    BY <2>1 DEF RecoveryInv, DeferredInv
  <2> QED
    BY <2>1, <2>2, <2>3, <2>4 DEF ListenersHearOfAnswers
<1> QED
  BY <1>1, RecoveryInvariant, PTL

\* Only the user's code, a status and callbacks let a panic out of the decorator.
THEOREM EscapesAreCaused == Spec => []EscapeHasACause
<1>1. RecoveryInv /\ Config => EscapeHasACause
  <2> SUFFICES ASSUME RecoveryInv, Config, pc = "escaped"
               PROVE  \/ culprit # "none"
                      \/ object # NoStatus /\ ~Valid(object) /\ ~committed
                      \/ object = NoStatus /\ configured > 999 /\ ~committed
                      \/ observed /\ broken
    BY DEF EscapeHasACause
  <2>1. \/ culprit # "none"
        \/ ~Valid(ChosenStatus) /\ ~committed
        \/ observed /\ broken
    BY DEF RecoveryInv, DeferredInv, AnswerInv
  <2>2. object # NoStatus => ChosenStatus = object
    BY DEF ChosenStatus
  <2>3. object = NoStatus /\ ~Valid(ChosenStatus) => configured > 999
    BY DEF ChosenStatus, Valid, Config
  <2> QED
    BY <2>1, <2>2, <2>3
<1> QED
  BY <1>1, RecoveryInvariant, PTL

=============================================================================
