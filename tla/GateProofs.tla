----------------------------- MODULE GateProofs -----------------------------
(***************************************************************************)
(* Theorems about Gate, for any number of goroutines and hooks, whatever   *)
(* callbacks the hooks have and whichever of them panic.                   *)
(***************************************************************************)
EXTENDS Gate, SequenceTheorems, TLAPS

\* A callback list extended by a hook's callback, if it has one, holds hooks.
LEMMA AppendTypes ==
  ASSUME TypeOK, NEW s \in States, NEW h \in Hooks
  PROVE  AppendIfNotNil(s, h) \in Seq(Hooks)
BY DEF TypeOK, AppendIfNotNil

\* One half of Register keeps the types and stays within Register.
LEMMA EnlistTypes ==
  ASSUME TypeOK, ControlInv, NEW p \in Procs,
         NEW s \in States,
         NEW from \in {"onOpen", "onClosed"}, NEW to \in {"onClosed", "unlock"},
         Enlist(p, s, from, to)
  PROVE  TypeOK' /\ ControlInv'
<1> USE DEF TypeOK, ControlInv
<1>1. hook[p] \in Hooks /\ op[p] = "register"
  BY DEF Enlist
<1>2. callbacks' \in [States -> Seq(Hooks)]
  BY <1>1, AppendTypes DEF Enlist
<1>3. heard' \in [Hooks -> States \cup {"nothing"}]
  BY <1>1 DEF Enlist
<1>4. \E end \in {to, "unwind"} : pc' = [pc EXCEPT ![p] = end]
  BY DEF Enlist, Transition
<1>5. UNCHANGED <<value, lock, built, ready, registered, locals, spoiled>>
  BY DEF Enlist, creation
<1> HIDE DEF TypeOK, ControlInv
<1>6. TypeOK'
  BY <1>2, <1>3, <1>4, <1>5 DEF TypeOK, locals
<1>7. ControlInv'
  BY <1>1, <1>4, <1>5 DEF ControlInv, TypeOK, locals
<1> QED
  BY <1>6, <1>7

\* Type correctness of every variable of the gate and of the calls on it.
THEOREM TypeCorrect == Spec => [](TypeOK /\ ControlInv)
<1> USE GateConstants DEF States
<1>1. Init => TypeOK /\ ControlInv
  <2> SUFFICES ASSUME Init PROVE TypeOK /\ ControlInv
    OBVIOUS
  <2>1. registered \subseteq Hooks
    <3>1. \A i \in 1..Len(ConfigHooks) : ConfigHooks[i] \in Hooks
      BY ElementOfSeq
    <3> QED
      BY <3>1 DEF Init
  <2>2. built \in 0..Len(ConfigHooks)
    BY LenProperties DEF Init
  <2>3. callbacks \in [States -> Seq(Hooks)]
    BY EmptySeq DEF Init
  <2>4. ControlInv
    BY DEF Init, ControlInv
  <2> QED
    BY <2>1, <2>2, <2>3, <2>4 DEF Init, TypeOK
<1>2. TypeOK /\ ControlInv /\ [Next]_vars => TypeOK' /\ ControlInv'
  <2> SUFFICES ASSUME TypeOK, ControlInv, [Next]_vars PROVE TypeOK' /\ ControlInv'
    OBVIOUS
  <2> USE DEF TypeOK, ControlInv
  <2>1. CASE Preregister
    <3>1. ConfigHooks[built + 1] \in Hooks
      BY <2>1, ElementOfSeq, LenProperties DEF Preregister
    <3> QED
      BY <2>1, <3>1 DEF Preregister, AppendIfNotNil, locals, history
  <2>2. CASE Construct
    BY <2>2 DEF Construct, locals
  <2>3. ASSUME NEW p \in Procs, NEW s \in States, CallChange(p, s)
        PROVE  TypeOK' /\ ControlInv'
    BY <2>3 DEF CallChange, Call, Transition, shared, creation, history
  <2>4. ASSUME NEW p \in Procs, NEW h \in Hooks, CallRegister(p, h)
        PROVE  TypeOK' /\ ControlInv'
    BY <2>4 DEF CallRegister, Call, Transition, shared, creation, history
  <2>5. ASSUME NEW p \in Procs, CallRequest(p) PROVE TypeOK' /\ ControlInv'
    BY <2>5 DEF CallRequest, Call, Transition, shared, creation, history
  <2>6. ASSUME NEW p \in Procs, LockForChange(p) PROVE TypeOK' /\ ControlInv'
    BY <2>6 DEF LockForChange, Transition, creation, locals, history
  <2>7. ASSUME NEW p \in Procs, LockForRegister(p) PROVE TypeOK' /\ ControlInv'
    BY <2>7 DEF LockForRegister, Transition, creation, history
  <2>8. ASSUME NEW p \in Procs, FastPath(p) PROVE TypeOK' /\ ControlInv'
    BY <2>8 DEF FastPath, Transition, shared, creation, locals, history
  <2>9. ASSUME NEW p \in Procs, CompareAndSwap(p) PROVE TypeOK' /\ ControlInv'
    <3>1. CASE value = Other(op[p])
      <4>1. value' \in States
        BY <2>9, <3>1 DEF CompareAndSwap
      <4>2. idx' \in [Procs -> Nat]
        BY <2>9, <3>1 DEF CompareAndSwap
      <4>3. ret' \in [Procs -> BOOLEAN]
        BY <2>9, <3>1, ZenonT(60) DEF CompareAndSwap
      <4>4. /\ pc[p] = "swap" /\ pc' = [pc EXCEPT ![p] = "notify"]
            /\ idx' = [idx EXCEPT ![p] = 1]
            /\ UNCHANGED <<lock, callbacks, creation, registered, op, hook, saw, history>>
        BY <2>9, <3>1 DEF CompareAndSwap, Transition
      <4>5. TypeOK'
        BY <4>1, <4>2, <4>3, <4>4 DEF creation, history
      <4>6. ControlInv'
        BY <4>4
      <4> QED
        BY <4>5, <4>6
    <3>2. CASE value # Other(op[p])
      <4>1. /\ pc[p] = "swap" /\ pc' = [pc EXCEPT ![p] = "unlock"]
            /\ UNCHANGED <<value, lock, callbacks, creation, registered, locals, history>>
        BY <2>9, <3>2 DEF CompareAndSwap, Transition, locals
      <4> QED
        BY <4>1 DEF creation, locals, history
    <3> QED
      BY <3>1, <3>2
  <2>10. ASSUME NEW p \in Procs, Notify(p) PROVE TypeOK' /\ ControlInv'
    <3>1. callbacks[op[p]][idx[p]] \in Hooks
      BY <2>10, ElementOfSeq, LenProperties DEF Notify
    <3>2. heard' \in [Hooks -> States \cup {"nothing"}] /\ spoiled' \in BOOLEAN
      BY <2>10, <3>1 DEF Notify, history
    <3>3. idx' \in [Procs -> Nat]
      BY <2>10 DEF Notify
    <3> DEFINE Steps == {"idle", "check", "lock", "swap", "notify", "onOpen", "onClosed",
                         "unlock", "unwind", "done", "panicked", "next"}
    <3>4. pc' \in [Procs -> Steps]
      BY <2>10 DEF Notify, Transition
    <3>5. TypeOK'
      <4> HIDE DEF Steps
      <4>1. UNCHANGED <<value, lock, callbacks, built, ready, registered, op, hook, saw, ret>>
        BY <2>10 DEF Notify, shared, creation
      <4> QED
        BY <3>2, <3>3, <3>4, <4>1 DEF Steps
    <3>6. ControlInv'
      BY <2>10 DEF Notify, Transition
    <3> QED
      BY <3>5, <3>6
  <2>11. ASSUME NEW p \in Procs, NotifiedAll(p) PROVE TypeOK' /\ ControlInv'
    BY <2>11 DEF NotifiedAll, Transition, shared, creation, locals
  <2>12. ASSUME NEW p \in Procs, RegisterOnOpen(p) PROVE TypeOK' /\ ControlInv'
    BY <2>12, EnlistTypes DEF RegisterOnOpen
  <2>13. ASSUME NEW p \in Procs, RegisterOnClosed(p) PROVE TypeOK' /\ ControlInv'
    BY <2>13, EnlistTypes DEF RegisterOnClosed
  <2>14. ASSUME NEW p \in Procs, Unlock(p) PROVE TypeOK' /\ ControlInv'
    <3>1. /\ lock' = NoProc /\ pc[p] \in {"unlock", "unwind"}
          /\ pc' = [pc EXCEPT ![p] = IF pc[p] = "unwind" THEN "panicked" ELSE "done"]
          /\ UNCHANGED <<value, callbacks, creation, registered, locals, history>>
      BY <2>14 DEF Unlock, Transition
    <3> QED
      BY <3>1 DEF creation, locals, history
  <2>15. ASSUME NEW p \in Procs, Serve(p) \/ SkipEmpty(p) PROVE TypeOK' /\ ControlInv'
    <3>1. CASE Serve(p)
      BY <3>1 DEF Serve, Transition, shared, creation, history
    <3>2. CASE SkipEmpty(p)
      BY <3>2 DEF SkipEmpty, Transition, shared, creation, locals, history
    <3> QED
      BY <2>15, <3>1, <3>2
  <2>16. ASSUME NEW p \in Procs, Return(p) PROVE TypeOK' /\ ControlInv'
    BY <2>16 DEF Return, Transition, shared, creation, locals, history
  <2>17. CASE UNCHANGED vars
    BY <2>17 DEF vars, shared, creation, locals, history
  <2> QED
    <3>1. ASSUME NEW p \in Procs, Calling(p) \/ Locking(p) PROVE TypeOK' /\ ControlInv'
      BY <2>3, <2>4, <2>5, <2>6, <2>7, <3>1, Zenon DEF Calling, Locking
    <3>2. ASSUME NEW p \in Procs, Running(p) PROVE TypeOK' /\ ControlInv'
      BY <2>8, <2>9, <2>10, <2>11, <2>12, <2>13, <2>14, <2>15, <2>16, <3>2, Zenon DEF Running
    <3> QED
      BY <2>1, <2>2, <2>17, <3>1, <3>2, Zenon DEF Next
<1>3. QED
  BY <1>1, <1>2, PTL DEF Spec

-----------------------------------------------------------------------------
\* The mutex is held in exactly the steps between Lock and the deferred Unlock,
\* and nobody has the gate before New returns it.
THEOREM MutualExclusion == Spec => []MutexInv
<1> USE GateConstants DEF MutexInv, Holding
<1>1. Init => MutexInv
  BY DEF Init
<1>2. TypeOK /\ MutexInv /\ [Next]_vars => MutexInv'
  <2> SUFFICES ASSUME TypeOK, MutexInv, [Next]_vars PROVE MutexInv'
    OBVIOUS
  <2> USE DEF TypeOK
  <2>1. CASE Preregister
    BY <2>1 DEF Preregister
  <2>2. CASE Construct
    BY <2>2 DEF Construct
  <2>3. ASSUME NEW p \in Procs, NEW o, NEW h,
               Call(p, o, h)
        PROVE  MutexInv'
    BY <2>3 DEF Call, Transition, shared, creation
  <2>4. ASSUME NEW p \in Procs, Calling(p) PROVE MutexInv'
    BY <2>3, <2>4 DEF Calling, CallChange, CallRegister, CallRequest
  <2>5. ASSUME NEW p \in Procs, Locking(p) PROVE MutexInv'
    BY <2>5 DEF Locking, LockForChange, LockForRegister, LockFree, Transition, creation
  <2>6. ASSUME NEW p \in Procs, FastPath(p) \/ Serve(p) \/ SkipEmpty(p) PROVE MutexInv'
    <3>1. CASE FastPath(p)
      BY <3>1 DEF FastPath, Transition, shared, creation
    <3>2. CASE Serve(p)
      BY <3>2 DEF Serve, Transition, shared, creation
    <3>3. CASE SkipEmpty(p)
      BY <3>3 DEF SkipEmpty, Transition, shared, creation
    <3> QED
      BY <2>6, <3>1, <3>2, <3>3
  <2>7. ASSUME NEW p \in Procs, CompareAndSwap(p) PROVE MutexInv'
    BY <2>7 DEF CompareAndSwap, Transition, creation
  <2>8. ASSUME NEW p \in Procs, Notify(p) \/ NotifiedAll(p) PROVE MutexInv'
    BY <2>8 DEF Notify, NotifiedAll, Transition, shared, creation
  <2>9. ASSUME NEW p \in Procs, RegisterOnOpen(p) \/ RegisterOnClosed(p) PROVE MutexInv'
    BY <2>9 DEF RegisterOnOpen, RegisterOnClosed, Enlist, Transition, creation
  <2>10. ASSUME NEW p \in Procs, Unlock(p) PROVE MutexInv'
    <3>1. lock' = NoProc /\ lock = p /\ UNCHANGED ready
      <4>1. pc[p] = "unlock" \/ pc[p] = "unwind"
        BY <2>10 DEF Unlock, Transition
      <4>2. lock' = NoProc /\ UNCHANGED ready
        BY <2>10 DEF Unlock, creation
      <4> QED
        BY <4>1, <4>2
    <3>2. \A q \in Procs \ {p} : pc'[q] = pc[q]
      BY <2>10 DEF Unlock, Transition
    <3>3. pc'[p] \in {"done", "panicked"}
      BY <2>10 DEF Unlock, Transition
    <3> QED
      BY <3>1, <3>2, <3>3
  <2>11. ASSUME NEW p \in Procs, Return(p) PROVE MutexInv'
    BY <2>11 DEF Return, Transition, shared, creation
  <2>12. CASE UNCHANGED vars
    BY <2>12 DEF vars, shared, creation
  <2> QED
    BY <2>1, <2>2, <2>4, <2>5, <2>6, <2>7, <2>8, <2>9, <2>10, <2>11, <2>12
       DEF Next, Running
<1>3. QED
  BY <1>1, <1>2, TypeCorrect, PTL DEF Spec

-----------------------------------------------------------------------------
\* Nobody else is inside Open, Close or Register while one goroutine holds the mutex.
LEMMA OneInside ==
  ASSUME MutexInv, NEW p \in Procs, NEW q \in Procs,
         pc[p] \in Holding, pc[q] \in Holding
  PROVE  p = q
BY DEF MutexInv

\* A step that changes neither the flag, nor the lists, nor what was heard, and
\* neither starts nor ends an on(), keeps NewsInv.
LEMMA Undisturbed ==
  ASSUME NewsInv, UNCHANGED <<value, callbacks, heard, spoiled, ready>>,
         \A q \in Procs :
           /\ pc'[q] = "notify" <=> pc[q] = "notify"
           /\ pc[q] = "notify" => op'[q] = op[q] /\ idx'[q] = idx[q]
           /\ pc'[q] \in {"onOpen", "onClosed"} => value = saw'[q]
  PROVE  NewsInv'
BY DEF NewsInv, Told

\* One half of Register keeps NewsInv: a callback that joins the list of the
\* current state has been invoked.
LEMMA EnlistNews ==
  ASSUME TypeOK, ControlInv, MutexInv, NewsInv, NEW p \in Procs, NEW s \in States,
         NEW from \in {"onOpen", "onClosed"}, NEW to \in {"onClosed", "unlock"},
         Enlist(p, s, from, to)
  PROVE  NewsInv'
<1> DEFINE h == hook[p]
<1>1. h \in Hooks /\ saw[p] = value
  BY DEF Enlist, ControlInv, NewsInv
<1>2. \A q \in Procs \ {p} : pc'[q] = pc[q] /\ pc[q] \notin Holding
  BY OneInside DEF Enlist, Transition, TypeOK, Holding
<1>3. pc'[p] \in {to, "unwind"}
  BY DEF Enlist, Transition, TypeOK
<1>4. \A q \in Procs : pc'[q] # "notify" /\ pc[q] # "notify"
  BY <1>2, <1>3 DEF Enlist, Holding
<1>5. ASSUME ready', ~spoiled', NEW i \in 1..Len(callbacks'[value]) PROVE Told(i)'
  <2>1. \A j \in 1..Len(callbacks[value]) : Told(j)
    BY <1>4, <1>5 DEF NewsInv, Enlist, creation
  <2>2. \A j \in 1..Len(callbacks[value]) : callbacks[value][j] \in Hooks
    BY ElementOfSeq DEF TypeOK
  <2>3. value' = value /\ value \in States
    BY DEF Enlist, TypeOK
  <2>4. CASE s # value \/ s \notin Callbacks[h]
    <3>1. callbacks'[value] = callbacks[value] /\ heard' = heard
      BY <2>3, <2>4, <1>1 DEF Enlist, AppendIfNotNil, TypeOK
    <3> QED
      BY <2>1, <2>3, <3>1, <1>5 DEF Told
  <2>5. CASE s = value /\ s \in Callbacks[h]
    <3>1. callbacks'[value] = Append(callbacks[value], h)
      BY <2>3, <2>5 DEF Enlist, AppendIfNotNil, TypeOK
    <3>2. heard' = [heard EXCEPT ![h] = value]
      BY <2>5, <1>1 DEF Enlist
    <3>3. CASE i \in 1..Len(callbacks[value])
      BY <2>1, <2>2, <2>3, <3>1, <3>2, <3>3, <1>1 DEF Told, TypeOK
    <3>4. CASE i = Len(callbacks[value]) + 1
      BY <2>3, <3>1, <3>2, <3>4, <1>1 DEF Told, TypeOK
    <3>5. callbacks[value] \in Seq(Hooks)
      BY <2>3 DEF TypeOK
    <3>6. i \in 1..(Len(callbacks[value]) + 1)
      BY <3>1, <3>5, <1>1, <1>5
    <3> QED
      BY <3>3, <3>4, <3>5, <3>6, LenProperties
  <2> QED
    BY <2>4, <2>5
<1>6. \A q \in Procs : pc'[q] \in {"onOpen", "onClosed"} => value' = saw'[q]
  BY <1>1, <1>2, <1>3 DEF Enlist, locals, Holding
<1> QED
  BY <1>4, <1>5, <1>6 DEF NewsInv, Enlist

\* The invariant holds at every step of every execution.
THEOREM GateInvariant == Spec => []GateInv
<1> USE GateConstants
<1>1. Init => NewsInv
  BY DEF Init, NewsInv
<1>2. TypeOK /\ ControlInv /\ MutexInv /\ NewsInv /\ [Next]_vars => NewsInv'
  <2> SUFFICES ASSUME TypeOK, ControlInv, MutexInv, NewsInv, [Next]_vars PROVE NewsInv'
    OBVIOUS
  <2>1. CASE Preregister
    BY <2>1 DEF Preregister, NewsInv, MutexInv, TypeOK
  <2>2. CASE Construct
    <3>1. \A q \in Procs : pc'[q] = "idle"
      BY <2>2 DEF Construct, MutexInv, TypeOK
    <3>2. ASSUME NEW i \in 1..Len(callbacks[value']) PROVE heard'[callbacks[value'][i]] = value'
      <4>1. value' \in States
        BY <2>2 DEF Construct
      <4>2. callbacks[value'][i] \in Hooks
        BY <4>1, ElementOfSeq DEF TypeOK
      <4>3. Listed(callbacks[value'][i], value')
        BY DEF Listed
      <4> QED
        BY <2>2, <4>2, <4>3 DEF Construct
    <3> QED
      BY <2>2, <3>1, <3>2 DEF Construct, NewsInv, Told
  <2>3. ASSUME NEW p \in Procs, NEW o, NEW h,
               Call(p, o, h)
        PROVE  NewsInv'
    BY <2>3, Undisturbed DEF Call, Transition, shared, creation, history, TypeOK, NewsInv
  <2>4. ASSUME NEW p \in Procs, Calling(p) PROVE NewsInv'
    BY <2>3, <2>4 DEF Calling, CallChange, CallRegister, CallRequest
  <2>5. ASSUME NEW p \in Procs, LockForChange(p) PROVE NewsInv'
    BY <2>5, Undisturbed
       DEF LockForChange, Transition, creation, locals, history, TypeOK, NewsInv
  <2>6. ASSUME NEW p \in Procs, LockForRegister(p) PROVE NewsInv'
    BY <2>6, Undisturbed DEF LockForRegister, Transition, creation, history, TypeOK, NewsInv
  <2>7. ASSUME NEW p \in Procs, FastPath(p) \/ Serve(p) \/ SkipEmpty(p) \/ Return(p)
        PROVE  NewsInv'
    BY <2>7, Undisturbed
       DEF FastPath, Serve, SkipEmpty, Return, Transition, shared, creation, locals, history, TypeOK, NewsInv
  <2>8. ASSUME NEW p \in Procs, CompareAndSwap(p) PROVE NewsInv'
    <3>1. \A q \in Procs \ {p} : pc'[q] = pc[q] /\ pc[q] \notin Holding
      BY <2>8, OneInside DEF CompareAndSwap, Transition, TypeOK, Holding
    <3>2. CASE value = Other(op[p])
      <4>1. pc'[p] = "notify" /\ value' = op[p] /\ idx'[p] = 1 /\ op' = op
        BY <2>8, <3>2 DEF CompareAndSwap, Transition, TypeOK
      <4> QED
        BY <3>1, <4>1 DEF NewsInv, Holding
    <3>3. CASE value # Other(op[p])
      BY <2>8, <3>1, <3>3, Undisturbed
         DEF CompareAndSwap, Transition, creation, history, Holding, TypeOK, NewsInv
    <3> QED
      BY <3>2, <3>3
  <2>9. ASSUME NEW p \in Procs, Notify(p) PROVE NewsInv'
    <3> DEFINE h == callbacks[op[p]][idx[p]]
    <3>1. \A q \in Procs \ {p} : pc'[q] = pc[q] /\ pc[q] \notin Holding
      BY <2>9, OneInside DEF Notify, Transition, TypeOK, Holding
    <3>2. op[p] = value /\ value' = value /\ callbacks' = callbacks /\ op' = op /\ saw' = saw
      BY <2>9 DEF Notify, NewsInv, shared
    <3>3. heard' = [heard EXCEPT ![h] = value]
      BY <2>9, <3>2 DEF Notify
    <3>4. \A i \in 1..Len(callbacks[value]) : callbacks[value][i] \in Hooks
      BY ElementOfSeq DEF TypeOK
    <3>5. ASSUME NEW i \in 1..Len(callbacks[value]), i <= idx[p] PROVE Told(i)'
      BY <2>9, <3>2, <3>3, <3>4, <3>5 DEF Notify, NewsInv, Told, TypeOK
    <3>6. CASE pc'[p] = "notify"
      <4>1. idx'[p] = idx[p] + 1
        BY <2>9, <3>6 DEF Notify, Transition, TypeOK
      <4>2. ASSUME NEW i \in 1..Len(callbacks[value]), i < idx'[p] PROVE Told(i)'
        BY <3>5, <4>1, <4>2 DEF TypeOK
      <4> QED
        BY <3>1, <3>2, <3>6, <4>2 DEF NewsInv, Holding
    <3>7. CASE pc'[p] # "notify"
      <4>1. spoiled' = TRUE /\ pc'[p] = "unwind"
        BY <2>9, <3>7 DEF Notify, Transition, TypeOK
      <4> QED
        BY <3>1, <4>1 DEF NewsInv, Holding
    <3> QED
      BY <3>6, <3>7
  <2>10. ASSUME NEW p \in Procs, NotifiedAll(p) PROVE NewsInv'
    <3>1. \A q \in Procs \ {p} : pc'[q] = pc[q] /\ pc[q] \notin Holding
      BY <2>10, OneInside DEF NotifiedAll, Transition, TypeOK, Holding
    <3>2. pc'[p] = "unlock"
      BY <2>10 DEF NotifiedAll, Transition, TypeOK
    <3>3. value \in States /\ Len(callbacks[value]) \in Nat
      BY LenProperties DEF TypeOK
    <3>4. \A i \in 1..Len(callbacks[value]) : Told(i)
      BY <2>10, <3>3 DEF NotifiedAll, NewsInv, Transition, TypeOK
    <3>5. UNCHANGED <<value, callbacks, heard>>
      BY <2>10 DEF NotifiedAll, shared
    <3> QED
      BY <3>1, <3>2, <3>4, <3>5 DEF NewsInv, Told, Holding
  <2>11. ASSUME NEW p \in Procs, RegisterOnOpen(p) \/ RegisterOnClosed(p) PROVE NewsInv'
    BY <2>11, EnlistNews DEF RegisterOnOpen, RegisterOnClosed, States
  <2>12. ASSUME NEW p \in Procs, Unlock(p) PROVE NewsInv'
    BY <2>12, Undisturbed DEF Unlock, Transition, creation, locals, history, TypeOK, NewsInv
  <2>13. CASE UNCHANGED vars
    BY <2>13, Undisturbed DEF vars, shared, creation, locals, history, NewsInv
  <2> QED
    BY <2>1, <2>2, <2>4, <2>5, <2>6, <2>7, <2>8, <2>9, <2>10, <2>11, <2>12, <2>13
       DEF Next, Locking, Running
<1>3. QED
  BY <1>1, <1>2, TypeCorrect, MutualExclusion, PTL DEF Spec, GateInv

\* Whenever the mutex is free and the last state change ran all its callbacks,
\* every hook was last told the state the gate is in: no order of Open, Close
\* and Register leaves a hook believing the wrong state.
THEOREM HooksNeverMisled == Spec => []HooksAgree
<1>1. GateInv => HooksAgree
  <2> SUFFICES ASSUME GateInv, ready, lock = NoProc, ~spoiled,
                      NEW h \in Range(callbacks[value])
               PROVE  heard[h] = value
    BY DEF HooksAgree
  <2>1. callbacks[value] \in Seq(Hooks)
    BY DEF GateInv, TypeOK
  <2>2. PICK i \in 1..Len(callbacks[value]) : callbacks[value][i] = h
    BY <2>1, LenProperties DEF Range
  <2>3. \A p \in Procs : pc[p] # "notify"
    BY GateConstants DEF GateInv, MutexInv, Holding
  <2> QED
    BY <2>2, <2>3 DEF GateInv, NewsInv, Told
<1> QED
  BY <1>1, GateInvariant, PTL

\* A callback never runs while the gate is in the other state: the Status it
\* is given reports what the callback announces for as long as it runs.
THEOREM CallbacksSeeTheirState == Spec => []CallbackSeesItsState
<1>1. GateInv => CallbackSeesItsState
  BY DEF GateInv, NewsInv, CallbackSeesItsState
<1> QED
  BY <1>1, GateInvariant, PTL

-----------------------------------------------------------------------------
(* What of EveryCallReturns does not need fairness *)

\* The steps that a call has before it, those of on() counted as one.
Stage(p) ==
  CASE pc[p] = "check" -> 6
    [] pc[p] = "lock" -> 5
    [] pc[p] \in {"swap", "onOpen"} -> 4
    [] pc[p] \in {"notify", "onClosed"} -> 3
    [] pc[p] \in {"unlock", "unwind"} -> 2
    [] pc[p] \in {"done", "panicked", "next"} -> 1
    [] OTHER -> 0

\* The callbacks that on() has before it.
Untold(p) == IF pc[p] = "notify" THEN (Len(callbacks[op[p]]) + 1) - idx[p] ELSE 0

Nearer(p)  == Stage(p)' < Stage(p) \/ (Stage(p)' = Stage(p) /\ Untold(p)' < Untold(p))
Unmoved(p) == Stage(p)' = Stage(p) /\ Untold(p)' = Untold(p)

IndexInv == \A p \in Procs : pc[p] = "notify" => idx[p] <= Len(callbacks[op[p]]) + 1

\* What goroutine q does leaves the call of p where it is: in particular it cannot
\* lengthen the list of callbacks that p goes through.
LEMMA OthersKeepCalls ==
  ASSUME GateInv, NEW p \in Procs, NEW q \in Procs \ {p},
         Calling(q) \/ Locking(q) \/ Running(q)
  PROVE  /\ pc'[p] = pc[p] /\ op'[p] = op[p] /\ idx'[p] = idx[p]
         /\ pc[p] = "notify" => callbacks'[op[p]] = callbacks[op[p]]
<1> USE DEF GateInv, TypeOK, Transition, shared, creation, locals, history
<1>1. ASSUME NEW o, NEW h, Call(q, o, h)
      PROVE  pc'[p] = pc[p] /\ op'[p] = op[p] /\ idx'[p] = idx[p] /\ callbacks' = callbacks
  BY <1>1 DEF Call
<1>2. CASE Calling(q)
  BY <1>1, <1>2 DEF Calling, CallChange, CallRegister, CallRequest
<1>3. CASE Locking(q)
  BY <1>3 DEF Locking, LockForChange, LockForRegister
<1>4. CASE FastPath(q) \/ SkipEmpty(q) \/ Serve(q) \/ Return(q)
  BY <1>4 DEF FastPath, SkipEmpty, Serve, Return
<1>5. CASE CompareAndSwap(q)
  BY <1>5 DEF CompareAndSwap
<1>6. CASE Notify(q) \/ NotifiedAll(q)
  BY <1>6 DEF Notify, NotifiedAll
<1>7. CASE Unlock(q)
  BY <1>7 DEF Unlock
<1>8. ASSUME NEW s \in States, NEW from \in {"onOpen", "onClosed"}, NEW to, Enlist(q, s, from, to)
      PROVE  /\ pc'[p] = pc[p] /\ op'[p] = op[p] /\ idx'[p] = idx[p]
             /\ pc[p] # "notify"
  <2>1. pc[q] \in Holding
    BY <1>8 DEF Enlist, Holding
  <2>2. pc[p] # "notify"
    BY <2>1, OneInside DEF Holding
  <2>3. \E end \in {to, "unwind"} : pc' = [pc EXCEPT ![q] = end]
    BY <1>8 DEF Enlist
  <2> QED
    BY <1>8, <2>2, <2>3 DEF Enlist
<1>9. CASE RegisterOnOpen(q) \/ RegisterOnClosed(q)
  BY <1>8, <1>9 DEF RegisterOnOpen, RegisterOnClosed, States
<1> QED
  BY <1>2, <1>3, <1>4, <1>5, <1>6, <1>7, <1>9 DEF Running

\* The steps of a call, but for a callback that returns.
LEMMA CallsMoveOn ==
  ASSUME GateInv, NEW p \in Procs, Locking(p) \/ Running(p)
  PROVE  \/ Stage(p)' < Stage(p) /\ (pc'[p] = "notify" => idx'[p] = 1)
         \/ /\ pc[p] = "notify" /\ UNCHANGED <<pc, op, callbacks>>
            /\ idx[p] <= Len(callbacks[op[p]]) /\ idx'[p] = idx[p] + 1
<1> USE DEF Transition
<1>1. pc \in [Procs -> {"idle", "check", "lock", "swap", "notify", "onOpen", "onClosed",
                        "unlock", "unwind", "done", "panicked", "next"}]
      /\ idx \in [Procs -> Nat]
  BY DEF GateInv, TypeOK
<1>2. CASE Locking(p)
  BY <1>1, <1>2 DEF Locking, LockForChange, LockForRegister, Stage
<1>3. CASE FastPath(p) \/ SkipEmpty(p) \/ Serve(p)
  <2>1. pc[p] = "check" /\ pc'[p] \in {"lock", "done", "next"}
    BY <1>1, <1>3 DEF FastPath, SkipEmpty, Serve
  <2> QED
    BY <2>1 DEF Stage
<1>4. CASE CompareAndSwap(p)
  <2>1. pc[p] = "swap" /\ ((pc'[p] = "notify" /\ idx'[p] = 1) \/ pc'[p] = "unlock")
    BY <1>1, <1>4 DEF CompareAndSwap
  <2> QED
    BY <2>1 DEF Stage
<1>5. CASE Notify(p)
  <2>1. CASE pc' = pc
    BY <1>1, <1>5, <2>1 DEF Notify, shared
  <2>2. CASE pc' # pc
    <3>1. pc[p] = "notify" /\ pc'[p] = "unwind"
      BY <1>1, <1>5, <2>2 DEF Notify
    <3> QED
      BY <3>1 DEF Stage
  <2> QED
    BY <2>1, <2>2
<1>6. CASE NotifiedAll(p) \/ Unlock(p) \/ Return(p)
  <2>1. \/ pc[p] = "notify" /\ pc'[p] = "unlock"
        \/ pc[p] \in {"unlock", "unwind"} /\ pc'[p] \in {"done", "panicked"}
        \/ pc[p] \in {"done", "panicked", "next"} /\ pc'[p] = "idle"
    BY <1>1, <1>6 DEF NotifiedAll, Unlock, Return
  <2> QED
    BY <2>1 DEF Stage
<1>7. CASE RegisterOnOpen(p) \/ RegisterOnClosed(p)
  <2>1. \/ pc[p] = "onOpen" /\ pc'[p] \in {"onClosed", "unwind"}
        \/ pc[p] = "onClosed" /\ pc'[p] \in {"unlock", "unwind"}
    BY <1>1, <1>7 DEF RegisterOnOpen, RegisterOnClosed, Enlist
  <2> QED
    BY <2>1 DEF Stage
<1> QED
  BY <1>2, <1>3, <1>4, <1>5, <1>6, <1>7 DEF Running

LEMMA IndexStep ==
  ASSUME GateInv, GateInv', IndexInv, [Next]_vars
  PROVE  IndexInv'
<1>0. TypeOK' /\ ControlInv'
  BY DEF GateInv
<1>1. CASE UNCHANGED <<pc, op, idx, callbacks>>
  BY <1>1 DEF IndexInv
<1>2. CASE Preregister \/ Construct
  <2>1. \A p \in Procs : pc'[p] = "idle"
    BY <1>2 DEF GateInv, MutexInv, Preregister, Construct
  <2> QED
    BY <2>1 DEF IndexInv
<1>3. ASSUME NEW q \in Procs, Calling(q) \/ Locking(q) \/ Running(q)
      PROVE  IndexInv'
  <2> SUFFICES ASSUME NEW p \in Procs, pc'[p] = "notify"
               PROVE  idx'[p] <= Len(callbacks'[op'[p]]) + 1
    BY DEF IndexInv
  <2>1. CASE p # q
    BY <1>3, <2>1, OthersKeepCalls DEF IndexInv
  <2>2. CASE p = q /\ Calling(q)
    BY <2>2 DEF GateInv, TypeOK, Calling, CallChange, CallRegister, CallRequest, Call, Transition
  <2>3. CASE p = q /\ (Locking(q) \/ Running(q))
    <3>1. /\ op'[p] \in States /\ callbacks' \in [States -> Seq(Hooks)]
          /\ Len(callbacks'[op'[p]]) \in Nat
      BY <1>0, LenProperties DEF TypeOK, ControlInv
    <3>2. CASE idx'[p] = 1
      BY <3>1, <3>2
    <3>3. CASE idx'[p] = idx[p] + 1 /\ idx[p] <= Len(callbacks[op[p]]) /\ UNCHANGED <<op, callbacks>>
      <4>1. idx[p] \in Nat
        BY DEF GateInv, TypeOK
      <4>2. callbacks'[op'[p]] = callbacks[op[p]]
        BY <3>3
      <4> QED
        BY <3>1, <3>3, <4>1, <4>2
    <3> QED
      BY <2>3, <3>2, <3>3, CallsMoveOn
  <2> QED
    BY <1>3, <2>1, <2>2, <2>3
<1> QED
  BY <1>1, <1>2, <1>3 DEF Next, vars, shared, locals

\* Whatever the goroutines do and whichever callbacks panic, each step of a call but its
\* first brings it nearer to its return, through a finite list of callbacks and at most
\* six steps besides, and no step of another goroutine puts it off (Open, Close, Register
\* and Server.Then).
THEOREM CallsAreBounded ==
  Spec => [][\A p \in Procs :
               /\ Stage(p) \in 0..6 /\ Untold(p) \in Nat
               /\ Locking(p) \/ Running(p) => Nearer(p)
               /\ \A q \in Procs \ {p} : Calling(q) \/ Locking(q) \/ Running(q) => Unmoved(p)]_vars
<1> DEFINE Bounded ==
             \A p \in Procs :
               /\ Stage(p) \in 0..6 /\ Untold(p) \in Nat
               /\ Locking(p) \/ Running(p) => Nearer(p)
               /\ \A q \in Procs \ {p} : Calling(q) \/ Locking(q) \/ Running(q) => Unmoved(p)
<1>1. Init => IndexInv
  BY DEF Init, IndexInv
<1>2. ASSUME GateInv, IndexInv, [Next]_vars PROVE Bounded
  <2> SUFFICES ASSUME NEW p \in Procs
               PROVE  /\ Stage(p) \in 0..6 /\ Untold(p) \in Nat
                      /\ Locking(p) \/ Running(p) => Nearer(p)
                      /\ \A q \in Procs \ {p} :
                           Calling(q) \/ Locking(q) \/ Running(q) => Unmoved(p)
    OBVIOUS
  <2>1. Stage(p) \in 0..6
    BY DEF Stage
  <2>2. pc[p] = "notify" => /\ Len(callbacks[op[p]]) \in Nat /\ idx[p] \in Nat
                            /\ idx[p] <= Len(callbacks[op[p]]) + 1
    <3> SUFFICES ASSUME pc[p] = "notify" PROVE Len(callbacks[op[p]]) \in Nat /\ idx[p] \in Nat
                                               /\ idx[p] <= Len(callbacks[op[p]]) + 1
      OBVIOUS
    <3>1. op[p] \in States /\ callbacks[op[p]] \in Seq(Hooks) /\ idx[p] \in Nat
      BY <1>2 DEF GateInv, TypeOK, ControlInv
    <3> QED
      BY <1>2, <3>1, LenProperties DEF IndexInv
  <2>3. Untold(p) \in Nat
    BY <2>2 DEF Untold
  <2>4. ASSUME Locking(p) \/ Running(p) PROVE Nearer(p)
    <3>1. CASE Stage(p)' < Stage(p)
      BY <3>1 DEF Nearer
    <3>2. CASE /\ pc[p] = "notify" /\ UNCHANGED <<pc, op, callbacks>>
               /\ idx[p] <= Len(callbacks[op[p]]) /\ idx'[p] = idx[p] + 1
      <4>1. Stage(p)' = Stage(p)
        BY <3>2 DEF Stage
      <4>2. Untold(p)' < Untold(p)
        BY <2>2, <3>2 DEF Untold
      <4> QED
        BY <4>1, <4>2 DEF Nearer
    <3> QED
      BY <1>2, <2>4, <3>1, <3>2, CallsMoveOn
  <2>5. ASSUME NEW q \in Procs \ {p}, Calling(q) \/ Locking(q) \/ Running(q) PROVE Unmoved(p)
    <3>1. /\ pc'[p] = pc[p] /\ op'[p] = op[p] /\ idx'[p] = idx[p]
          /\ pc[p] = "notify" => callbacks'[op[p]] = callbacks[op[p]]
      BY <1>2, <2>5, OthersKeepCalls
    <3> QED
      BY <3>1 DEF Unmoved, Stage, Untold
  <2> QED
    BY <2>1, <2>3, <2>4, <2>5
<1>3. GateInv /\ GateInv' /\ IndexInv /\ [Next]_vars => IndexInv'
  BY IndexStep
<1>4. GateInv /\ IndexInv /\ [Next]_vars => [Bounded]_vars
  BY <1>2
<1> QED
  BY <1>1, <1>3, <1>4, GateInvariant, PTL DEF Spec

-----------------------------------------------------------------------------
(* What the refinement needs besides GateInv *)

\* A callback list extended by a hook has the hook in it if it has that callback.
LEMMA AppendListed ==
  ASSUME TypeOK, NEW s \in States, NEW h \in Hooks, callbacks'[s] = AppendIfNotNil(s, h), NEW g
  PROVE  Listed(g, s)' <=> Listed(g, s) \/ (s \in Callbacks[h] /\ g = h)
<1>1. callbacks[s] \in Seq(Hooks)
  BY DEF TypeOK
<1>2. CASE s \notin Callbacks[h]
  BY <1>2 DEF AppendIfNotNil, Listed
<1>3. CASE s \in Callbacks[h]
  <2> DEFINE n == Len(callbacks[s])
  <2>1. n \in Nat /\ callbacks'[s] = Append(callbacks[s], h)
    BY <1>1, <1>3, LenProperties DEF AppendIfNotNil
  <2>2. /\ Len(callbacks'[s]) = n + 1 /\ callbacks'[s][n + 1] = h
        /\ \A i \in 1..n : callbacks'[s][i] = callbacks[s][i]
    BY <1>1, <2>1, AppendProperties
  <2>3. \A i \in 1..(n + 1) : i \in 1..n \/ i = n + 1
    BY <2>1
  <2>4. n + 1 \in 1..(n + 1) /\ 1..n \subseteq 1..(n + 1)
    BY <2>1
  <2>5. Listed(g, s)' <=> \E i \in 1..(n + 1) : callbacks'[s][i] = g
    BY <2>2 DEF Listed
  <2>6. Listed(g, s) <=> \E i \in 1..n : callbacks[s][i] = g
    BY DEF Listed
  <2> HIDE DEF n
  <2> QED
    BY <1>3, <2>2, <2>3, <2>4, <2>5, <2>6
<1> QED
  BY <1>2, <1>3

\* The actions of a step.
LEMMA GateCases ==
  ASSUME [Next]_vars
  PROVE  \/ Preregister \/ Construct
         \/ \E p \in Procs :
              \/ \E s \in States : CallChange(p, s)
              \/ \E h \in Hooks : CallRegister(p, h)
              \/ CallRequest(p) \/ LockForChange(p) \/ LockForRegister(p)
              \/ FastPath(p) \/ CompareAndSwap(p) \/ Notify(p) \/ NotifiedAll(p)
              \/ SkipEmpty(p) \/ RegisterOnOpen(p) \/ RegisterOnClosed(p)
              \/ Unlock(p) \/ Serve(p) \/ Return(p)
         \/ UNCHANGED vars
BY DEF Next, Calling, Locking, Running

LEMMA ResultInit == Init => ResultInv
BY DEF Init, ResultInv

LEMMA ResultStep ==
  ASSUME GateInv, ResultInv, [Next]_vars
  PROVE  ResultInv'
<1> USE DEF ResultInv, Transition, shared, creation, locals, history
<1>1. pc \in [Procs -> {"idle", "check", "lock", "swap", "notify", "onOpen", "onClosed",
                        "unlock", "unwind", "done", "panicked", "next"}]
      /\ ret \in [Procs -> BOOLEAN]
  BY DEF GateInv, TypeOK
<1>2. CASE Preregister \/ Construct \/ UNCHANGED vars
  BY <1>2 DEF Preregister, Construct, vars
<1>3. ASSUME NEW p \in Procs, NEW o, NEW h, Call(p, o, h) PROVE ResultInv'
  BY <1>1, <1>3 DEF Call
<1>4. ASSUME NEW p \in Procs, LockForChange(p) \/ LockForRegister(p) PROVE ResultInv'
  BY <1>1, <1>4 DEF LockForChange, LockForRegister
<1>5. ASSUME NEW p \in Procs, FastPath(p) \/ SkipEmpty(p) \/ Serve(p) PROVE ResultInv'
  BY <1>1, <1>5 DEF FastPath, SkipEmpty, Serve
<1>6. ASSUME NEW p \in Procs, CompareAndSwap(p) PROVE ResultInv'
  BY <1>1, <1>6 DEF CompareAndSwap
<1>7. ASSUME NEW p \in Procs, Notify(p) \/ NotifiedAll(p) PROVE ResultInv'
  BY <1>1, <1>7 DEF Notify, NotifiedAll
<1>8. ASSUME NEW p \in Procs, RegisterOnOpen(p) \/ RegisterOnClosed(p) PROVE ResultInv'
  BY <1>1, <1>8 DEF RegisterOnOpen, RegisterOnClosed, Enlist
<1>9. ASSUME NEW p \in Procs, Unlock(p) \/ Return(p) PROVE ResultInv'
  BY <1>1, <1>9 DEF Unlock, Return
<1> QED
  BY <1>2, <1>3, <1>4, <1>5, <1>6, <1>7, <1>8, <1>9, GateCases
     DEF CallChange, CallRegister, CallRequest

LEMMA ListInit == Init => ListInv
<1> SUFFICES ASSUME Init PROVE ListInv
  OBVIOUS
<1>1. \A h, s \in Hooks \cup States : s \in States => ~Listed(h, s)
  BY EmptySeq DEF Init, Listed
<1>2. \A h \in Hooks, s \in States : ~Listed(h, s) /\ ~\E i \in 1..built : ConfigHooks[i] = h
  BY <1>1 DEF Init
<1> QED
  BY <1>2 DEF Init, ListInv

LEMMA ListStep ==
  ASSUME GateInv, ListInv, EnlistInv, [Next]_vars
  PROVE  ListInv'
<1> USE DEF GateInv
<1>1. CASE UNCHANGED <<callbacks, built, ready>> /\ registered \subseteq registered'
           /\ (~ready => heard' = heard)
  BY <1>1 DEF ListInv, Listed
<1>2. CASE Preregister
  <2>1. built + 1 \in 1..Len(ConfigHooks) /\ built \in Nat
    BY <1>2, GateConstants, LenProperties DEF Preregister, TypeOK
  <2>2. ConfigHooks[built + 1] \in Hooks
    BY <2>1, GateConstants, ElementOfSeq
  <2>3. \A s \in States, h \in Hooks :
          Listed(h, s)' <=> Listed(h, s) \/ (s \in Callbacks[ConfigHooks[built + 1]] /\ h = ConfigHooks[built + 1])
    BY <1>2, <2>2, AppendListed DEF Preregister
  <2>4. \A i \in 1..built' : i \in 1..built \/ i = built + 1
    BY <1>2, <2>1 DEF Preregister
  <2>5. built + 1 \in 1..built' /\ 1..built \subseteq 1..built'
    BY <1>2, <2>1 DEF Preregister
  <2> QED
    BY <1>2, <2>1, <2>3, <2>4, <2>5 DEF Preregister, ListInv, history
<1>3. CASE Construct
  BY <1>3 DEF Construct, ListInv, Listed
<1>4. ASSUME NEW p \in Procs, NEW s \in States,
             NEW from \in {"onOpen", "onClosed"}, NEW to, Enlist(p, s, from, to)
      PROVE  ListInv'
  <2>1. Registering(p) /\ hook[p] \in Hooks /\ hook[p] \in registered
    BY <1>4 DEF Enlist, ControlInv, Registering, EnlistInv
  <2>2. ready
    BY <1>4 DEF Enlist, MutexInv
  <2>3. callbacks'[s] = AppendIfNotNil(s, hook[p]) /\ \A r \in States \ {s} : callbacks'[r] = callbacks[r]
    BY <1>4 DEF Enlist, TypeOK
  <2>4. ASSUME NEW h \in Hooks, NEW r \in States, Listed(h, r)' PROVE h \in registered
    <3>1. CASE r = s
      BY <2>1, <2>3, <2>4, <3>1, AppendListed DEF ListInv
    <3>2. CASE r # s
      BY <2>3, <2>4, <3>2 DEF ListInv, Listed
    <3> QED
      BY <3>1, <3>2
  <2> QED
    BY <1>4, <2>2, <2>4 DEF Enlist, ListInv, creation
<1>5. ASSUME NEW p \in Procs, RegisterOnOpen(p) \/ RegisterOnClosed(p) PROVE ListInv'
  BY <1>4, <1>5 DEF RegisterOnOpen, RegisterOnClosed, States
<1>6. ASSUME NEW p \in Procs, NEW o, NEW h, Call(p, o, h), registered \subseteq registered'
      PROVE  ListInv'
  BY <1>1, <1>6 DEF Call, shared, creation, history
<1>7. ASSUME NEW p \in Procs, LockForChange(p) \/ LockForRegister(p) PROVE ListInv'
  BY <1>1, <1>7 DEF LockForChange, LockForRegister, creation, history
<1>8. ASSUME NEW p \in Procs,
             FastPath(p) \/ SkipEmpty(p) \/ Serve(p) \/ Unlock(p) \/ Return(p)
      PROVE  ListInv'
  BY <1>1, <1>8 DEF FastPath, SkipEmpty, Serve, Unlock, Return, shared, creation, history
<1>9. ASSUME NEW p \in Procs, CompareAndSwap(p) \/ NotifiedAll(p) PROVE ListInv'
  BY <1>1, <1>9 DEF CompareAndSwap, NotifiedAll, shared, creation, history
<1>10. ASSUME NEW p \in Procs, Notify(p) PROVE ListInv'
  BY <1>1, <1>10 DEF Notify, MutexInv, shared, creation
<1>11. CASE UNCHANGED vars
  BY <1>1, <1>11 DEF vars, shared, creation, history
<1> QED
  BY <1>2, <1>3, <1>5, <1>6, <1>7, <1>8, <1>9, <1>10, <1>11, GateCases
     DEF CallChange, CallRegister, CallRequest

\* A step that leaves the lists and the hooks that are being registered alone.
LEMMA EnlistUndisturbed ==
  ASSUME EnlistInv, callbacks' = callbacks, registered \subseteq registered',
         \A q \in Procs : Registering(q)' =>
           /\ Registering(q) /\ hook'[q] = hook[q]
           /\ pc'[q] = "onClosed" <=> pc[q] = "onClosed"
           /\ pc[q] = "onClosed" => value' = value /\ heard' = heard
  PROVE  EnlistInv'
BY DEF EnlistInv, Listed

\* The step of one goroutine is none of the others'.
LEMMA OneMoves ==
  ASSUME EnlistInv, callbacks' = callbacks, registered \subseteq registered',
         NEW p \in Procs, \A q \in Procs \ {p} : pc'[q] = pc[q] /\ op'[q] = op[q] /\ hook'[q] = hook[q],
         \/ value' = value /\ heard' = heard
         \/ \A q \in Procs \ {p} : pc[q] # "onClosed",
         Registering(p)' => Registering(p) /\ hook'[p] = hook[p] /\ pc[p] # "onClosed"
                            /\ pc'[p] # "onClosed"
  PROVE  EnlistInv'
<1>1. \A q \in Procs : Registering(q)' =>
        /\ Registering(q) /\ hook'[q] = hook[q]
        /\ pc'[q] = "onClosed" <=> pc[q] = "onClosed"
        /\ pc[q] = "onClosed" => value' = value /\ heard' = heard
  BY DEF Registering
<1> QED
  BY <1>1, EnlistUndisturbed

LEMMA EnlistInit == Init => EnlistInv
BY DEF Init, EnlistInv, Registering

\* One half of Register puts the hook into one list and leaves those of others out.
LEMMA EnlistEnlists ==
  ASSUME GateInv, ListInv, EnlistInv, NEW p \in Procs,
         RegisterOnOpen(p) \/ RegisterOnClosed(p)
  PROVE  EnlistInv'
<1> USE DEF GateInv
<1>1. PICK s \in States, from \in {"onOpen", "onClosed"}, to \in {"onClosed", "unlock"} :
        Enlist(p, s, from, to) /\ (s = "open" <=> to = "onClosed")
        /\ (s = "open" <=> from = "onOpen")
  BY DEF RegisterOnOpen, RegisterOnClosed, States
<1>2. pc[p] = from /\ op[p] = "register" /\ hook[p] \in Hooks /\ Registering(p)
      /\ saw[p] = value
  BY <1>1 DEF Enlist, ControlInv, NewsInv, Registering
<1>3. /\ UNCHANGED <<value, registered, op, hook>>
      /\ pc' = [pc EXCEPT ![p] = to] \/ pc' = [pc EXCEPT ![p] = "unwind"]
      /\ callbacks'[s] = AppendIfNotNil(s, hook[p])
      /\ \A r \in States \ {s} : callbacks'[r] = callbacks[r]
  BY <1>1 DEF Enlist, Transition, locals, TypeOK
<1>4. \A q \in Procs \ {p} : pc'[q] = pc[q] /\ pc[q] \notin Holding
  BY <1>2, <1>3, OneInside DEF TypeOK, Holding
<1>5. pc'[p] = to \/ pc'[p] = "unwind"
  BY <1>3 DEF TypeOK
<1>6. \A g : \A r \in States :
        Listed(g, r)' <=> Listed(g, r) \/ (r = s /\ s \in Callbacks[hook[p]] /\ g = hook[p])
  <2> SUFFICES ASSUME NEW g, NEW r \in States
               PROVE  Listed(g, r)' <=> Listed(g, r) \/ (r = s /\ s \in Callbacks[hook[p]] /\ g = hook[p])
    OBVIOUS
  <2>1. CASE r = s
    BY <1>2, <1>3, <2>1, AppendListed
  <2>2. CASE r # s
    BY <1>3, <2>2 DEF Listed
  <2> QED
    BY <2>1, <2>2
<1>7. ASSUME NEW q \in Procs \ {p}, Registering(q)'
      PROVE  /\ Registering(q) /\ hook[q] # hook[p] /\ pc'[q] # "onClosed"
             /\ \A r \in States : Listed(hook[q], r)' <=> Listed(hook[q], r)
  <2>1. Registering(q) /\ pc'[q] # "onClosed"
    BY <1>3, <1>4, <1>7 DEF Registering, Holding
  <2>2. hook[q] # hook[p]
    BY <1>2, <2>1 DEF EnlistInv
  <2> QED
    BY <1>3, <1>6, <2>1, <2>2
<1>8. ASSUME NEW q \in Procs \ {p}, Registering(q)'
      PROVE  /\ hook'[q] \in registered' /\ ~Listed(hook[q], "closed")'
             /\ ~Listed(hook[q], "open")'
  <2>1. pc[q] # "onClosed" /\ hook[q] \in registered
    BY <1>4, <1>7, <1>8 DEF EnlistInv, Holding
  <2> QED
    BY <1>3, <1>7, <1>8, <2>1 DEF EnlistInv, States
<1>9. CASE s = "open"
  <2>1. Registering(p)' => pc'[p] = "onClosed"
    BY <1>1, <1>5, <1>9 DEF Registering
  <2>2. hook'[p] \in registered' /\ ~Listed(hook[p], "closed")'
    BY <1>2, <1>3, <1>6, <1>9 DEF EnlistInv, States
  <2>3. ASSUME "open" \in Callbacks[hook[p]] PROVE Listed(hook[p], "open")'
    BY <1>3, <1>6, <1>9, <2>3
  <2>4. ASSUME "open" \in Callbacks[hook[p]], value = "open" PROVE heard'[hook'[p]] = "open"
    BY <1>1, <1>2, <1>3, <1>9, <2>4 DEF Enlist, TypeOK
  <2> QED
    BY <1>3, <1>7, <1>8, <2>1, <2>2, <2>3, <2>4 DEF EnlistInv
<1>10. CASE s = "closed"
  <2>1. ~Registering(p)'
    BY <1>1, <1>5, <1>10 DEF Registering
  <2> QED
    BY <1>3, <1>7, <1>8, <2>1 DEF EnlistInv
<1> QED
  BY <1>9, <1>10 DEF States

LEMMA EnlistStep ==
  ASSUME GateInv, ListInv, EnlistInv, [Next]_vars
  PROVE  EnlistInv'
<1> USE DEF GateInv
<1>0. pc \in [Procs -> {"idle", "check", "lock", "swap", "notify", "onOpen", "onClosed",
                        "unlock", "unwind", "done", "panicked", "next"}]
      /\ op \in [Procs -> States \cup {"register", "request"}]
      /\ hook \in [Procs -> Hooks \cup {NoHook}]
  BY DEF TypeOK
<1>1. CASE Preregister \/ Construct
  <2>1. \A q \in Procs : ~Registering(q)'
    BY <1>1 DEF Preregister, Construct, MutexInv, Registering
  <2> QED
    BY <2>1 DEF EnlistInv
<1>2. ASSUME NEW p \in Procs, NEW s \in States \cup {"request"}, NEW h, Call(p, s, h),
             UNCHANGED registered
      PROVE  EnlistInv'
  <2>1. ~Registering(p)'
    BY <1>0, <1>2 DEF Call, Registering, States
  <2> QED
    BY <1>0, <1>2, <2>1, OneMoves DEF Call, Transition, shared, history
<1>3. ASSUME NEW p \in Procs, NEW h \in Hooks, CallRegister(p, h) PROVE EnlistInv'
  <2>1. /\ UNCHANGED <<callbacks, value, heard>> /\ h \notin registered /\ h \in registered'
        /\ registered \subseteq registered'
        /\ pc'[p] = "check" /\ hook'[p] = h
        /\ \A q \in Procs \ {p} : pc'[q] = pc[q] /\ op'[q] = op[q] /\ hook'[q] = hook[q]
    BY <1>0, <1>3 DEF CallRegister, Call, Transition, shared, history
  <2>2. \A s \in States : ~Listed(h, s)
    BY <2>1 DEF ListInv
  <2>3. \A q \in Procs \ {p} : Registering(q)' => Registering(q) /\ hook[q] \in registered
    BY <2>1 DEF Registering, EnlistInv
  <2>4. \A g, s : Listed(g, s)' <=> Listed(g, s)
    BY <2>1 DEF Listed
  <2> QED
    BY <2>1, <2>2, <2>3, <2>4 DEF EnlistInv, States
<1>4. ASSUME NEW p \in Procs, LockForChange(p) \/ FastPath(p) \/ Serve(p) PROVE EnlistInv'
  <2>1. ~Registering(p)'
    BY <1>0, <1>4
    DEF LockForChange, FastPath, Serve, Registering, Transition, States, locals
  <2> QED
    BY <1>0, <1>4, <2>1, OneMoves
    DEF LockForChange, FastPath, Serve, Transition, shared, creation, locals, history
<1>5. ASSUME NEW p \in Procs, LockForRegister(p) \/ SkipEmpty(p) PROVE EnlistInv'
  <2>1. Registering(p) /\ pc[p] # "onClosed" /\ pc'[p] # "onClosed"
    BY <1>0, <1>5 DEF LockForRegister, SkipEmpty, Transition, Registering
  <2> QED
    BY <1>0, <1>5, <2>1, OneMoves
    DEF LockForRegister, SkipEmpty, Transition, shared, creation, locals, history
<1>6. ASSUME NEW p \in Procs, CompareAndSwap(p) \/ Notify(p) PROVE EnlistInv'
  <2>1. pc[p] \in {"swap", "notify"} /\ pc'[p] \in {"notify", "unlock", "unwind"}
        /\ \A q \in Procs \ {p} : pc'[q] = pc[q] /\ pc[q] \notin Holding
    BY <1>0, <1>6, OneInside DEF CompareAndSwap, Notify, Transition, Holding
  <2>2. UNCHANGED <<callbacks, registered, op, hook>>
    BY <1>6 DEF CompareAndSwap, Notify, shared
  <2>3. ~Registering(p)' /\ \A q \in Procs \ {p} : pc[q] # "onClosed"
    BY <2>1 DEF Registering, Holding
  <2> QED
    BY <2>1, <2>2, <2>3, OneMoves
<1>7. ASSUME NEW p \in Procs, NotifiedAll(p) \/ Unlock(p) \/ Return(p) PROVE EnlistInv'
  <2>1. ~Registering(p)'
    BY <1>0, <1>7 DEF NotifiedAll, Unlock, Return, Transition, Registering
  <2> QED
    BY <1>0, <1>7, <2>1, OneMoves
    DEF NotifiedAll, Unlock, Return, Transition, shared, creation, locals, history
<1>8. CASE UNCHANGED vars
  BY <1>8, EnlistUndisturbed DEF vars, shared, locals, history, Registering
<1> QED
  BY <1>1, <1>2, <1>3, <1>4, <1>5, <1>6, <1>7, <1>8, EnlistEnlists, GateCases
     DEF CallChange, CallRequest

\* What the refinement mapping rests on holds at every step.
THEOREM CallInvariant == Spec => []CallInv
<1>1. Init => CallInv
  BY ResultInit, ListInit, EnlistInit DEF CallInv
<1>2. GateInv /\ CallInv /\ [Next]_vars => CallInv'
  BY ResultStep, ListStep, EnlistStep DEF CallInv
<1> QED
  BY <1>1, <1>2, GateInvariant, PTL DEF Spec

-----------------------------------------------------------------------------
(* The gate implements AtomicGate *)

Steps == {"idle", "check", "lock", "swap", "notify", "onOpen", "onClosed",
          "unlock", "unwind", "done", "panicked", "next"}

\* Where a goroutine at a step is in its abstract call.
PhaseOf(step) ==
  IF step = "idle" THEN "idle"
  ELSE IF step \in {"check", "lock", "swap"} THEN "pending"
  ELSE "done"

LEMMA PhaseMoves ==
  ASSUME pc \in [Procs -> Steps], NEW p \in Procs, NEW from, NEW to, Transition(p, from, to)
  PROVE  PhaseBar[p] = PhaseOf(from) /\ PhaseBar' = [PhaseBar EXCEPT ![p] = PhaseOf(to)]
<1>1. \A q \in Procs : PhaseBar[q] = PhaseOf(pc[q]) /\ PhaseBar'[q] = PhaseOf(pc'[q])
  BY DEF PhaseBar, PhaseOf
<1>2. pc[p] = from /\ pc' = [pc EXCEPT ![p] = to]
  BY DEF Transition
<1>3. PhaseBar = [q \in Procs |-> PhaseOf(pc[q])] /\ PhaseBar' = [q \in Procs |-> PhaseOf(pc'[q])]
  BY DEF PhaseBar, PhaseOf
<1> QED
  BY <1>2, <1>3

LEMMA PhaseStays ==
  ASSUME pc \in [Procs -> Steps], NEW p \in Procs, NEW from, NEW to, Transition(p, from, to),
         PhaseOf(from) = PhaseOf(to)
  PROVE  PhaseBar' = PhaseBar
<1>1. PhaseBar = [q \in Procs |-> PhaseOf(pc[q])] /\ PhaseBar' = [q \in Procs |-> PhaseOf(pc'[q])]
  BY DEF PhaseBar, PhaseOf
<1>2. \A q \in Procs : PhaseOf(pc'[q]) = PhaseOf(pc[q])
  BY DEF Transition
<1> QED
  BY <1>1, <1>2

\* The members and the news when no goroutine runs callbacks or registers a hook.
Quiet == \A q \in Procs : pc[q] \notin {"notify", "onOpen", "onClosed"}

QuietMapping ==
  Quiet /\ heard \in [Hooks -> States \cup {"nothing"}] =>
    /\ ToldBar = heard
    /\ MembersBar = [s \in States |-> IF ready THEN Range(callbacks[s]) ELSE {}]

LEMMA QuietMap == QuietMapping
<1> SUFFICES ASSUME Quiet, heard \in [Hooks -> States \cup {"nothing"}]
             PROVE  /\ ToldBar = heard
                    /\ MembersBar = [s \in States |-> IF ready THEN Range(callbacks[s]) ELSE {}]
  BY DEF QuietMapping
<1>1. \A h : ~Owed(h)
  BY DEF Quiet, Owed, Enlisting
<1>2. \A q \in Procs : ~Enlisting(q)
  BY DEF Quiet, Enlisting
<1> QED
  BY <1>1, <1>2 DEF ToldBar, MembersBar

LEMMA QuietMapNext == QuietMapping'
BY QuietMap, PTL

\* The hooks in a list.
LEMMA ListedRange ==
  ASSUME TypeOK, NEW s \in States
  PROVE  Range(callbacks[s]) = {h \in Hooks : Listed(h, s)}
<1>1. callbacks[s] \in Seq(Hooks)
  BY DEF TypeOK
<1>2. DOMAIN callbacks[s] = 1..Len(callbacks[s]) /\ \A i \in 1..Len(callbacks[s]) : callbacks[s][i] \in Hooks
  BY <1>1, LenProperties, ElementOfSeq
<1> QED
  BY <1>2 DEF Range, Listed

\* A step that neither starts nor ends a run of callbacks or a registration.
LEMMA MapKept ==
  ASSUME UNCHANGED <<value, ready, callbacks, heard>>,
         \A q \in Procs :
           /\ pc'[q] = "notify" <=> pc[q] = "notify"
           /\ pc[q] = "notify" => op'[q] = op[q] /\ idx'[q] = idx[q]
           /\ pc'[q] \in {"onOpen", "onClosed"} <=> pc[q] \in {"onOpen", "onClosed"}
           /\ pc[q] \in {"onOpen", "onClosed"} => hook'[q] = hook[q]
  PROVE  MembersBar' = MembersBar /\ ToldBar' = ToldBar
<1>1. \A h : Owed(h)' <=> Owed(h)
  BY DEF Owed, Enlisting
<1>2. \A h : (\E p \in Procs : Enlisting(p) /\ hook[p] = h)' <=> (\E p \in Procs : Enlisting(p) /\ hook[p] = h)
  BY DEF Enlisting
<1> QED
  BY <1>1, <1>2 DEF MembersBar, ToldBar

LEMMA InitMaps == Init => Atomic!Init
<1> SUFFICES ASSUME Init PROVE Atomic!Init
  OBVIOUS
<1>1. Quiet /\ heard \in [Hooks -> States \cup {"nothing"}]
  BY DEF Init, Quiet
<1>2. ToldBar = heard /\ MembersBar = [s \in States |-> {}]
  BY <1>1, QuietMap DEF Init, QuietMapping
<1>3. PhaseBar = [p \in Procs |-> "idle"]
  BY DEF Init, PhaseBar
<1>4. Atomic!Those({}) = [s \in States |-> {}]
  BY DEF Atomic!Those, Atomic!States, States
<1> QED
  BY <1>2, <1>3, <1>4 DEF Init, Atomic!Init

LEMMA CreateMaps ==
  ASSUME GateInv, ListInv, Construct
  PROVE  Atomic!Create
<1> USE DEF GateInv
<1>1. Quiet /\ Quiet' /\ pc' = pc /\ op' = op /\ hook' = hook /\ ret' = ret
  BY DEF Construct, MutexInv, TypeOK, Quiet, locals
<1>2. heard \in [Hooks -> States \cup {"nothing"}] /\ ~ready /\ ready'
  BY DEF Construct, TypeOK
<1>3. value' \in States /\ callbacks' = callbacks
      /\ heard' = [h \in Hooks |-> IF Listed(h, value') THEN value' ELSE "nothing"]
  BY DEF Construct
<1>4. heard' \in [Hooks -> States \cup {"nothing"}]
  BY <1>3
<1>5. /\ ToldBar = heard /\ ToldBar' = heard'
      /\ MembersBar' = [s \in States |-> Range(callbacks[s])]
  BY <1>1, <1>2, <1>3, <1>4, QuietMap, QuietMapNext DEF QuietMapping
<1>6. ASSUME NEW s \in States
      PROVE  Range(callbacks[s]) = {h \in Range(ConfigHooks) : s \in Callbacks[h]}
  <2>1. DOMAIN ConfigHooks = 1..Len(ConfigHooks) /\ \A i \in 1..Len(ConfigHooks) : ConfigHooks[i] \in Hooks
    BY GateConstants, LenProperties, ElementOfSeq
  <2>2. \A h : h \in Range(ConfigHooks) <=> \E i \in 1..Len(ConfigHooks) : ConfigHooks[i] = h
    BY <2>1 DEF Range
  <2>3. built = Len(ConfigHooks)
    BY DEF Construct
  <2>4. Range(callbacks[s]) = {h \in Hooks : Listed(h, s)}
    BY ListedRange
  <2>5. \A h \in Hooks : Listed(h, s) <=> s \in Callbacks[h] /\ h \in Range(ConfigHooks)
    BY <1>2, <2>2, <2>3 DEF ListInv
  <2>6. \A h : h \in Range(ConfigHooks) => h \in Hooks
    BY <2>1, <2>2
  <2> QED
    BY <2>4, <2>5, <2>6
<1>7. MembersBar' = Atomic!Those(Range(ConfigHooks))
  BY <1>5, <1>6 DEF Atomic!Those, Atomic!States, States
<1>8. MembersBar'[value'] = {h \in Hooks : Listed(h, value')}
  BY <1>3, <1>5, ListedRange
<1>9. \A h \in Hooks : heard[h] = "nothing"
  BY <1>2 DEF ListInv
<1>10. ToldBar' = Atomic!Tell(ToldBar, MembersBar'[value'], value')
  BY <1>3, <1>5, <1>8, <1>9 DEF Atomic!Tell
<1>11. PhaseBar' = PhaseBar
  BY <1>1 DEF PhaseBar
<1> QED
  BY <1>1, <1>2, <1>3, <1>7, <1>10, <1>11 DEF Atomic!Create, Atomic!States, States

LEMMA InvokeMaps ==
  ASSUME GateInv, NEW p \in Procs, NEW o, NEW h, Call(p, o, h),
         \/ o = "register" /\ h \in Hooks
         \/ o \in States \cup {"request"} /\ h = NoHook
  PROVE  Atomic!Invoke(p)
<1>1. pc \in [Procs -> Steps]
  BY DEF GateInv, TypeOK, Steps
<1>2. PhaseBar[p] = "idle" /\ PhaseBar' = [PhaseBar EXCEPT ![p] = "pending"]
  BY <1>1, PhaseMoves DEF Call, PhaseOf
<1>3. MembersBar' = MembersBar /\ ToldBar' = ToldBar
  BY <1>1, MapKept DEF Call, Transition, shared, creation, history
<1> QED
  BY <1>2, <1>3 DEF Call, Atomic!Invoke, Atomic!Step, Atomic!States, States, shared, creation

\* The unlocked test ends a call of Open or Close that changes nothing.
LEMMA FastPathMaps ==
  ASSUME GateInv, ResultInv, NEW p \in Procs, FastPath(p)
  PROVE  Atomic!TakeEffect(p) \/ UNCHANGED Atomic!vars
<1>1. pc \in [Procs -> Steps] /\ ret \in [Procs -> BOOLEAN]
  BY DEF GateInv, TypeOK, Steps
<1>2. UNCHANGED <<value, ready, op, hook, ret>>
  BY DEF FastPath, shared, creation, locals
<1>3. MembersBar' = MembersBar /\ ToldBar' = ToldBar
  BY <1>1, MapKept DEF FastPath, Transition, shared, creation, locals, history
<1>4. CASE value = op[p]
  <2>1. Transition(p, "check", "done") /\ op[p] \in States
    BY <1>4 DEF FastPath
  <2>2. PhaseBar[p] = "pending" /\ PhaseBar' = [PhaseBar EXCEPT ![p] = "done"]
    BY <1>1, <2>1, PhaseMoves DEF PhaseOf
  <2>3. ~ret[p]
    BY <2>1 DEF ResultInv, Transition
  <2>4. ret' = [ret EXCEPT ![p] = (value # op[p])]
    BY <1>1, <1>2, <1>4, <2>3
  <2> QED
    BY <1>2, <1>3, <1>4, <2>1, <2>2, <2>4
    DEF Atomic!TakeEffect, Atomic!Step, Atomic!Change, Atomic!States, States
<1>5. CASE value # op[p]
  <2>1. Transition(p, "check", "lock")
    BY <1>5 DEF FastPath
  <2>2. PhaseBar' = PhaseBar
    BY <1>1, <2>1, PhaseStays DEF PhaseOf
  <2> QED
    BY <1>2, <1>3, <2>2 DEF Atomic!vars
<1> QED
  BY <1>4, <1>5

\* A request takes effect when it reads the flag.
LEMMA ServeMaps ==
  ASSUME GateInv, NEW p \in Procs, Serve(p)
  PROVE  Atomic!TakeEffect(p)
<1>1. pc \in [Procs -> Steps]
  BY DEF GateInv, TypeOK, Steps
<1>2. MembersBar' = MembersBar /\ ToldBar' = ToldBar
  BY <1>1, MapKept DEF Serve, Transition, shared, creation, history
<1>3. Transition(p, "check", "done") \/ Transition(p, "check", "next")
  BY DEF Serve
<1>4. PhaseBar[p] = "pending" /\ PhaseBar' = [PhaseBar EXCEPT ![p] = "done"]
  BY <1>1, <1>3, PhaseMoves DEF PhaseOf
<1> QED
  BY <1>2, <1>4
  DEF Serve, Atomic!TakeEffect, Atomic!Step, Atomic!Request, shared, creation

\* Steps that nobody outside of the gate sees, and the return.
LEMMA SilentMaps ==
  ASSUME GateInv, NEW p \in Procs, LockForChange(p) \/ NotifiedAll(p) \/ Unlock(p)
  PROVE  UNCHANGED Atomic!vars
<1>1. pc \in [Procs -> Steps]
  BY DEF GateInv, TypeOK, Steps
<1>2. PICK from, to \in Steps : Transition(p, from, to) /\ PhaseOf(from) = PhaseOf(to)
        /\ (from = "notify" => idx[p] > Len(callbacks[op[p]])) /\ to # "notify"
        /\ from \notin {"onOpen", "onClosed"} /\ to \notin {"onOpen", "onClosed"}
  BY DEF LockForChange, NotifiedAll, Unlock, Steps, PhaseOf
<1>3. UNCHANGED <<value, ready, callbacks, heard, op, hook, ret, idx>>
  BY DEF LockForChange, NotifiedAll, Unlock, shared, creation, locals, history
<1>4. PhaseBar' = PhaseBar
  BY <1>1, <1>2, PhaseStays
<1>5. MembersBar' = MembersBar
  <2>1. \A h : (\E q \in Procs : Enlisting(q) /\ hook[q] = h)' <=> (\E q \in Procs : Enlisting(q) /\ hook[q] = h)
    BY <1>1, <1>2, <1>3 DEF Enlisting, Transition
  <2> QED
    BY <1>3, <2>1 DEF MembersBar
<1>6. ToldBar' = ToldBar
  <2>1. pc[p] = "notify" => Len(callbacks[op[p]]) \in Nat /\ idx[p] \in Nat
    BY LenProperties DEF GateInv, TypeOK, ControlInv
  <2>2. pc[p] = "notify" => idx[p]..Len(callbacks[op[p]]) = {}
    BY <1>2, <2>1 DEF Transition
  <2>3. \A h : Owed(h)' <=> Owed(h)
    BY <1>1, <1>2, <1>3, <2>2 DEF Owed, Enlisting, Transition
  <2> QED
    BY <1>3, <2>3 DEF ToldBar
<1> QED
  BY <1>3, <1>4, <1>5, <1>6 DEF Atomic!vars

LEMMA ReturnMaps ==
  ASSUME GateInv, NEW p \in Procs, Return(p)
  PROVE  Atomic!Return(p)
<1>1. pc \in [Procs -> Steps]
  BY DEF GateInv, TypeOK, Steps
<1>2. PICK end \in {"done", "panicked", "next"} : Transition(p, end, "idle")
  BY DEF Return
<1>3. PhaseBar[p] = "done" /\ PhaseBar' = [PhaseBar EXCEPT ![p] = "idle"]
  BY <1>1, <1>2, PhaseMoves DEF PhaseOf
<1>4. MembersBar' = MembersBar /\ ToldBar' = ToldBar
  BY <1>1, <1>2, MapKept DEF Return, Transition, shared, creation, locals, history
<1> QED
  BY <1>3, <1>4 DEF Return, Atomic!Return, Atomic!Step, shared, creation, locals

\* A hook without callbacks is registered by doing nothing.
LEMMA SkipEmptyMaps ==
  ASSUME GateInv, NEW p \in Procs, SkipEmpty(p)
  PROVE  Atomic!TakeEffect(p) \/ UNCHANGED Atomic!vars
<1>1. pc \in [Procs -> Steps]
  BY DEF GateInv, TypeOK, Steps
<1>2. UNCHANGED <<value, ready, op, hook, ret>> /\ op[p] = "register"
  BY DEF SkipEmpty, shared, creation, locals
<1>3. MembersBar' = MembersBar /\ ToldBar' = ToldBar
  BY <1>1, MapKept DEF SkipEmpty, Transition, shared, creation, locals, history
<1>4. CASE Callbacks[hook[p]] = {}
  <2>1. Transition(p, "check", "done")
    BY <1>4 DEF SkipEmpty
  <2>2. PhaseBar[p] = "pending" /\ PhaseBar' = [PhaseBar EXCEPT ![p] = "done"]
    BY <1>1, <2>1, PhaseMoves DEF PhaseOf
  <2>3. \A s \in States : Atomic!Those({hook[p]})[s] = {}
    BY <1>4 DEF Atomic!Those, Atomic!States, States
  <2>4. [s \in Atomic!States |-> MembersBar[s] \cup Atomic!Those({hook[p]})[s]] = MembersBar
    BY <2>3 DEF MembersBar, Atomic!States, States
  <2>5. value \in States
    BY DEF GateInv, TypeOK
  <2>6. Atomic!Tell(ToldBar, Atomic!Those({hook[p]})[value], value) = ToldBar
    BY <2>3, <2>5 DEF Atomic!Tell, ToldBar
  <2>7. Atomic!Register(p)
    BY <1>2, <1>3, <2>4, <2>6 DEF Atomic!Register
  <2> QED
    BY <1>2, <2>2, <2>7 DEF Atomic!TakeEffect, Atomic!Step
<1>5. CASE Callbacks[hook[p]] # {}
  <2>1. Transition(p, "check", "lock")
    BY <1>5 DEF SkipEmpty
  <2>2. PhaseBar' = PhaseBar
    BY <1>1, <2>1, PhaseStays DEF PhaseOf
  <2> QED
    BY <1>2, <1>3, <2>2 DEF Atomic!vars
<1> QED
  BY <1>4, <1>5

\* Register takes effect when it has the mutex: nobody can tell the callbacks
\* that it has still to append and invoke from those that are.
LEMMA LockForRegisterMaps ==
  ASSUME GateInv, NEW p \in Procs, LockForRegister(p)
  PROVE  Atomic!TakeEffect(p)
<1> USE DEF GateInv
<1>1. pc \in [Procs -> Steps] /\ heard \in [Hooks -> States \cup {"nothing"}] /\ value \in States
  BY DEF TypeOK, Steps
<1>2. /\ op[p] = "register" /\ hook[p] \in Hooks
      /\ UNCHANGED <<value, ready, callbacks, heard, op, hook, ret, idx>>
      /\ Transition(p, "lock", "onOpen")
  BY DEF LockForRegister, ControlInv, creation, history
<1>3. Quiet /\ ready
  BY <1>2, GateConstants DEF LockForRegister, LockFree, MutexInv, Quiet, Holding, Transition
<1>4. PhaseBar[p] = "pending" /\ PhaseBar' = [PhaseBar EXCEPT ![p] = "done"]
  BY <1>1, <1>2, PhaseMoves DEF PhaseOf
<1>5. ToldBar = heard /\ MembersBar = [s \in States |-> Range(callbacks[s])]
  BY <1>1, <1>3, QuietMap DEF QuietMapping
<1>6. \A q \in Procs : /\ Enlisting(q)' <=> q = p
                       /\ pc'[q] # "notify"
  BY <1>1, <1>2, <1>3 DEF Quiet, Enlisting, Transition
<1>7. \A s \in States : Atomic!Those({hook[p]})[s] = IF s \in Callbacks[hook[p]] THEN {hook[p]} ELSE {}
  BY DEF Atomic!Those, Atomic!States, States
<1>8. MembersBar' = [s \in Atomic!States |-> MembersBar[s] \cup Atomic!Those({hook[p]})[s]]
  <2>1. ASSUME NEW s \in States
        PROVE  {h \in Hooks : s \in Callbacks[h] /\ \E q \in Procs : Enlisting(q)' /\ hook'[q] = h}
                 = Atomic!Those({hook[p]})[s]
    BY <1>2, <1>6, <1>7
  <2>2. MembersBar' = [s \in States |-> Range(callbacks[s]) \cup
          {h \in Hooks : s \in Callbacks[h] /\ \E q \in Procs : Enlisting(q)' /\ hook'[q] = h}]
    BY <1>2, <1>3 DEF MembersBar
  <2> QED
    BY <1>5, <2>1, <2>2 DEF Atomic!States, States
<1>9. ToldBar' = Atomic!Tell(ToldBar, Atomic!Those({hook[p]})[value], value)
  <2>1. \A h \in Hooks : Owed(h)' <=> h \in Atomic!Those({hook[p]})[value]
    BY <1>1, <1>2, <1>6, <1>7, ZenonT(60) DEF Owed
  <2> QED
    BY <1>2, <1>5, <2>1 DEF ToldBar, Atomic!Tell
<1>10. Atomic!Register(p)
  BY <1>2, <1>8, <1>9 DEF Atomic!Register
<1> QED
  BY <1>2, <1>4, <1>10 DEF Atomic!TakeEffect, Atomic!Step

\* Open and Close take effect when they swap the flag, callbacks included.
LEMMA CompareAndSwapMaps ==
  ASSUME GateInv, ResultInv, NEW p \in Procs, CompareAndSwap(p)
  PROVE  Atomic!TakeEffect(p)
<1> USE DEF GateInv
<1>1. /\ pc \in [Procs -> Steps] /\ heard \in [Hooks -> States \cup {"nothing"}]
      /\ value \in States /\ ret \in [Procs -> BOOLEAN] /\ idx \in [Procs -> Nat]
  BY DEF TypeOK, Steps
<1>2. /\ pc[p] = "swap" /\ op[p] \in States /\ ~ret[p]
      /\ UNCHANGED <<ready, callbacks, heard, op, hook>>
  BY DEF CompareAndSwap, ControlInv, ResultInv, creation, history
<1>3. Quiet /\ ready /\ \A q \in Procs \ {p} : pc[q] \notin Holding
  BY <1>2, OneInside DEF MutexInv, Quiet, Holding
<1>4. ToldBar = heard /\ MembersBar = [s \in States |-> Range(callbacks[s])]
  BY <1>1, <1>3, QuietMap DEF QuietMapping
<1>5. CASE value = Other(op[p])
  <2>1. /\ value' = op[p] /\ value # op[p] /\ ret' = [ret EXCEPT ![p] = TRUE]
        /\ idx'[p] = 1 /\ Transition(p, "swap", "notify")
    BY <1>1, <1>2, <1>5 DEF CompareAndSwap, Other, States
  <2>2. PhaseBar[p] = "pending" /\ PhaseBar' = [PhaseBar EXCEPT ![p] = "done"]
    BY <1>1, <2>1, PhaseMoves DEF PhaseOf
  <2>3. \A q \in Procs : /\ ~Enlisting(q)' /\ ~Enlisting(q)
                         /\ pc'[q] = "notify" <=> q = p
    BY <1>1, <1>3, <2>1 DEF Quiet, Enlisting, Transition
  <2>4. MembersBar' = MembersBar
    BY <1>2, <2>3 DEF MembersBar
  <2>5. \A h \in Hooks : Owed(h)' <=> h \in MembersBar[op[p]]
    <3>1. \A h \in Hooks : Owed(h)' <=> Listed(h, op[p])
      BY <1>2, <2>1, <2>3 DEF Owed, Listed
    <3> QED
      BY <1>2, <1>4, <3>1, ListedRange
  <2>6. ToldBar' = Atomic!Tell(ToldBar, MembersBar[op[p]], op[p])
    BY <1>2, <1>4, <2>1, <2>5 DEF ToldBar, Atomic!Tell
  <2>7. Atomic!Change(p)
    BY <1>2, <2>1, <2>4, <2>6 DEF Atomic!Change, Atomic!States, States
  <2> QED
    BY <1>2, <2>2, <2>7 DEF Atomic!TakeEffect, Atomic!Step
<1>6. CASE value # Other(op[p])
  <2>1. Transition(p, "swap", "unlock") /\ UNCHANGED <<value, ret, idx>> /\ value = op[p]
    BY <1>1, <1>2, <1>6 DEF CompareAndSwap, Other, States
  <2>2. PhaseBar[p] = "pending" /\ PhaseBar' = [PhaseBar EXCEPT ![p] = "done"]
    BY <1>1, <2>1, PhaseMoves DEF PhaseOf
  <2>3. MembersBar' = MembersBar /\ ToldBar' = ToldBar
    BY <1>1, <1>2, <2>1, MapKept DEF Transition
  <2>4. Atomic!Change(p)
    BY <1>1, <1>2, <2>1, <2>3 DEF Atomic!Change, Atomic!States, States
  <2> QED
    BY <1>2, <2>2, <2>4 DEF Atomic!TakeEffect, Atomic!Step
<1> QED
  BY <1>5, <1>6

\* A callback that returns has been told what it was owed; one that panics
\* leaves those behind it without the news.
LEMMA NotifyMaps ==
  ASSUME GateInv, ResultInv, NEW p \in Procs, Notify(p)
  PROVE  Atomic!Panic(p) \/ UNCHANGED Atomic!vars
<1> USE DEF GateInv
<1> DEFINE list == callbacks[value]
           h == list[idx[p]]
<1>1. /\ pc \in [Procs -> Steps] /\ heard \in [Hooks -> States \cup {"nothing"}]
      /\ value \in States /\ idx \in [Procs -> Nat] /\ list \in Seq(Hooks)
  BY DEF TypeOK, Steps
<1>2. /\ pc[p] = "notify" /\ op[p] = value /\ ret[p]
      /\ UNCHANGED <<value, ready, callbacks, op, hook, ret>>
  BY DEF Notify, NewsInv, ResultInv, shared, creation
<1>3. Len(list) \in Nat /\ idx[p] \in 1..Len(list) /\ h \in Hooks
  <2>1. idx[p] <= Len(list) /\ idx[p] \in Nat /\ idx[p] # 0 /\ Len(list) \in Nat
    BY <1>1, <1>2, LenProperties DEF Notify, ControlInv
  <2> QED
    BY <1>1, <2>1, ElementOfSeq
<1>4. heard' = [heard EXCEPT ![h] = value]
  BY <1>2 DEF Notify
<1>5. \A q \in Procs \ {p} : pc'[q] = pc[q] /\ pc[q] \notin Holding
  BY <1>1, <1>2, OneInside DEF Notify, Transition, Holding
<1>6. ready
  BY <1>2 DEF MutexInv
<1> HIDE DEF list, h
<1>7. \A g : Owed(g) <=> \E i \in idx[p]..Len(list) : list[i] = g
  BY <1>2, <1>5 DEF Owed, Enlisting, Holding, list
<1>8. h = list[idx[p]]
  BY DEF h
<1>9. CASE idx' = [idx EXCEPT ![p] = @ + 1] /\ pc' = pc
  <2>1. idx'[p] = idx[p] + 1
    BY <1>1, <1>9
  <2>2. \A g : Owed(g)' <=> \E i \in idx'[p]..Len(list) : list[i] = g
    BY <1>2, <1>5, <1>9 DEF Owed, Enlisting, Holding, list
  <2>3. \A g : Owed(g) <=> Owed(g)' \/ g = h
    <3>1. \A i \in idx[p]..Len(list) : i = idx[p] \/ i \in idx'[p]..Len(list)
      BY <1>1, <1>3, <2>1
    <3>2. idx[p] \in idx[p]..Len(list) /\ idx'[p]..Len(list) \subseteq idx[p]..Len(list)
      BY <1>1, <1>3, <2>1
    <3> QED
      BY <1>7, <1>8, <2>2, <3>1, <3>2
  <2>4. ToldBar' = ToldBar
    BY <1>1, <1>2, <1>3, <1>4, <2>3 DEF ToldBar
  <2>5. MembersBar' = MembersBar /\ PhaseBar' = PhaseBar
    BY <1>2, <1>9 DEF MembersBar, PhaseBar, Enlisting
  <2> QED
    BY <1>2, <2>4, <2>5 DEF Atomic!vars
<1>10. CASE h \in Panicky /\ Transition(p, "notify", "unwind")
  <2>1. PhaseBar[p] = "done" /\ PhaseBar' = [PhaseBar EXCEPT ![p] = "done"]
    BY <1>1, <1>10, PhaseMoves DEF PhaseOf
  <2>2. \A q \in Procs : ~Enlisting(q) /\ ~Enlisting(q)' /\ pc'[q] # "notify"
    BY <1>1, <1>2, <1>5, <1>10 DEF Enlisting, Transition, Holding
  <2>3. MembersBar' = MembersBar
    BY <1>2, <2>2 DEF MembersBar
  <2>4. MembersBar[value] = {g \in Hooks : Listed(g, value)}
    BY <1>1, <1>6, <2>2, ListedRange DEF MembersBar
  <2>5. \A g : ~Owed(g)'
    BY <2>2 DEF Owed
  <2>6. ToldBar' = [g \in Hooks |-> heard'[g]]
    BY <2>5 DEF ToldBar
  <2>7. h \in MembersBar[value] /\ ToldBar'[h] = value
    BY <1>1, <1>3, <1>4, <1>8, <2>4, <2>6 DEF Listed, list
  <2>8. ASSUME NEW g \in Hooks \ MembersBar[value] PROVE ToldBar'[g] = ToldBar[g]
    <3>1. ~Owed(g)
      <4>1. \A i \in idx[p]..Len(list) : i \in 1..Len(list)
        BY <1>1, <1>3
      <4> QED
        BY <1>7, <2>4, <4>1 DEF Listed, list
    <3>2. heard'[g] = heard[g]
      BY <1>1, <1>4, <2>7
    <3> QED
      BY <2>6, <3>1, <3>2 DEF ToldBar
  <2>9. ToldBar' \in [Hooks -> Atomic!States \cup {"nothing"}]
    BY <1>1, <1>3, <1>4, <2>6 DEF Atomic!States, States
  <2>10. Atomic!ChangePanics(p)
    BY <1>2, <1>10, <2>3, <2>7, <2>8, <2>9 DEF Atomic!ChangePanics
  <2> QED
    BY <1>2, <2>1, <2>10 DEF Atomic!Panic, Atomic!Step
<1>11. h = callbacks[op[p]][idx[p]]
  BY <1>2 DEF h, list
<1> QED
  BY <1>9, <1>10, <1>11 DEF Notify

\* Nobody can see the two halves of Register, unless the first one panics.
LEMMA EnlistMaps ==
  ASSUME GateInv, ListInv, EnlistInv, NEW p \in Procs,
         RegisterOnOpen(p) \/ RegisterOnClosed(p)
  PROVE  Atomic!Panic(p) \/ UNCHANGED Atomic!vars
<1> USE DEF GateInv
<1> DEFINE h == hook[p]
<1>1. PICK s \in States, from \in {"onOpen", "onClosed"}, to \in {"onClosed", "unlock"} :
        Enlist(p, s, from, to) /\ (s = "open" <=> to = "onClosed")
        /\ (s = "open" <=> from = "onOpen")
  BY DEF RegisterOnOpen, RegisterOnClosed, States
<1>2. /\ pc \in [Procs -> Steps] /\ heard \in [Hooks -> States \cup {"nothing"}]
      /\ value \in States
  BY DEF TypeOK, Steps
<1>3. pc[p] = from /\ op[p] = "register" /\ h \in Hooks /\ Registering(p)
      /\ saw[p] = value
  BY <1>1 DEF Enlist, ControlInv, NewsInv, Registering
<1>4. /\ UNCHANGED <<value, ready, op, hook, ret>> /\ ready
      /\ callbacks'[s] = AppendIfNotNil(s, h)
      /\ \A r \in States \ {s} : callbacks'[r] = callbacks[r]
      /\ callbacks' \in [States -> Seq(Hooks)]
  <2>1. callbacks' \in [States -> Seq(Hooks)]
    BY <1>1, <1>3, AppendTypes DEF Enlist, TypeOK
  <2> QED
    BY <1>1, <1>3, <2>1 DEF Enlist, locals, TypeOK, creation, MutexInv
<1>5. \A q \in Procs \ {p} : pc'[q] = pc[q] /\ pc[q] \notin Holding
  BY <1>1, <1>2, <1>3, OneInside DEF Enlist, Transition, Holding
<1>6. heard' = IF s \in Callbacks[h] /\ value = s THEN [heard EXCEPT ![h] = s] ELSE heard
  BY <1>1, <1>3 DEF Enlist
<1> HIDE DEF h
<1>7. \A g : \A r \in States :
        Listed(g, r)' <=> Listed(g, r) \/ (r = s /\ s \in Callbacks[h] /\ g = h)
  <2> SUFFICES ASSUME NEW g, NEW r \in States
               PROVE  Listed(g, r)' <=> Listed(g, r) \/ (r = s /\ s \in Callbacks[h] /\ g = h)
    OBVIOUS
  <2>1. CASE r = s
    BY <1>3, <1>4, <2>1, AppendListed
  <2>2. CASE r # s
    BY <1>4, <2>2 DEF Listed
  <2> QED
    BY <2>1, <2>2
<1>8. \A r \in States : Range(callbacks'[r]) = {g \in Hooks : Listed(g, r)'}
  <2> SUFFICES ASSUME NEW r \in States PROVE Range(callbacks'[r]) = {g \in Hooks : Listed(g, r)'}
    OBVIOUS
  <2>1. DOMAIN callbacks'[r] = 1..Len(callbacks'[r])
        /\ \A i \in 1..Len(callbacks'[r]) : callbacks'[r][i] \in Hooks
    BY <1>4, LenProperties, ElementOfSeq
  <2> QED
    BY <2>1 DEF Range, Listed
<1>9. \A q \in Procs : pc[q] # "notify" /\ pc'[q] # "notify" /\ (Enlisting(q) <=> q = p)
        /\ (Enlisting(q)' => q = p)
  BY <1>1, <1>2, <1>3, <1>5 DEF Enlist, Transition, Enlisting, Holding
<1>10. hook[p] = h /\ hook'[p] = h
  BY <1>4 DEF h
<1>11. \A g : /\ Owed(g) <=> g = h /\ value \in Callbacks[h]
              /\ Owed(g)' <=> Enlisting(p)' /\ g = h /\ value \in Callbacks[h]
  BY <1>4, <1>9, <1>10 DEF Owed
\* The hook was told the current state if it has a callback for it.
<1>12. ASSUME ~Enlisting(p)', value \in Callbacks[h] PROVE heard'[h] = value
  <2>1. CASE s = value
    BY <1>2, <1>3, <1>6, <1>12, <2>1
  <2>2. CASE s # value /\ s = "closed"
    <3>1. value = "open" /\ pc[p] = "onClosed"
      BY <1>1, <1>2, <1>3, <2>2 DEF States
    <3> QED
      BY <1>3, <1>6, <1>10, <1>12, <2>2, <3>1 DEF EnlistInv
  <2>3. CASE s # value /\ s = "open"
    <3>1. pc' = [pc EXCEPT ![p] = "onClosed"]
      BY <1>1, <1>3, <2>3 DEF Enlist, Transition
    <3> QED
      BY <1>2, <1>12, <3>1 DEF Enlisting
  <2> QED
    BY <2>1, <2>2, <2>3 DEF States
<1>13. ToldBar' = ToldBar
  <2>1. ASSUME NEW g \in Hooks
        PROVE  (IF Owed(g)' THEN value' ELSE heard'[g]) = (IF Owed(g) THEN value ELSE heard[g])
    <3>1. CASE g # h
      BY <1>2, <1>6, <1>11, <3>1
    <3>2. CASE g = h /\ value \notin Callbacks[h]
      BY <1>6, <1>11, <3>2
    <3>3. CASE g = h /\ value \in Callbacks[h]
      BY <1>4, <1>11, <1>12, <3>3
    <3> QED
      BY <3>1, <3>2, <3>3
  <2> QED
    BY <2>1 DEF ToldBar
<1>14. \A r \in States :
         /\ MembersBar[r] = {g \in Hooks : Listed(g, r) \/ (g = h /\ r \in Callbacks[h])}
         /\ MembersBar'[r] = {g \in Hooks : Listed(g, r)' \/ (Enlisting(p)' /\ g = h /\ r \in Callbacks[h])}
  <2> SUFFICES ASSUME NEW r \in States
               PROVE  /\ MembersBar[r] = {g \in Hooks : Listed(g, r) \/ (g = h /\ r \in Callbacks[h])}
                      /\ MembersBar'[r] = {g \in Hooks : Listed(g, r)' \/ (Enlisting(p)' /\ g = h /\ r \in Callbacks[h])}
    OBVIOUS
  <2>1. \A g : (\E q \in Procs : Enlisting(q) /\ hook[q] = g) <=> g = h
    BY <1>9, <1>10
  <2>2. \A g : (\E q \in Procs : Enlisting(q)' /\ hook'[q] = g) <=> Enlisting(p)' /\ g = h
    BY <1>9, <1>10
  <2>3. MembersBar[r] = Range(callbacks[r]) \cup
          {g \in Hooks : r \in Callbacks[g] /\ \E q \in Procs : Enlisting(q) /\ hook[q] = g}
    BY <1>4 DEF MembersBar
  <2>4. MembersBar'[r] = Range(callbacks'[r]) \cup
          {g \in Hooks : r \in Callbacks[g] /\ \E q \in Procs : Enlisting(q)' /\ hook'[q] = g}
    BY <1>4 DEF MembersBar
  <2>5. Range(callbacks[r]) = {g \in Hooks : Listed(g, r)}
    BY ListedRange
  <2>6. {g \in Hooks : r \in Callbacks[g] /\ \E q \in Procs : Enlisting(q) /\ hook[q] = g}
          = {g \in Hooks : g = h /\ r \in Callbacks[h]}
    BY <2>1
  <2>7. {g \in Hooks : r \in Callbacks[g] /\ \E q \in Procs : Enlisting(q)' /\ hook'[q] = g}
          = {g \in Hooks : Enlisting(p)' /\ g = h /\ r \in Callbacks[h]}
    BY <2>2
  <2> QED
    BY <1>8, <2>3, <2>4, <2>5, <2>6, <2>7
<1>15. MembersBar = [r \in States |-> MembersBar[r]] /\ MembersBar' = [r \in States |-> MembersBar'[r]]
  BY DEF MembersBar
<1>16. \/ pc' = [pc EXCEPT ![p] = to]
       \/ pc' = [pc EXCEPT ![p] = "unwind"] /\ s \in Callbacks[h] /\ value = s /\ h \in Panicky
  <2>1. \/ Transition(p, from, to)
        \/ s \in Callbacks[hook[p]] /\ saw[p] = s /\ hook[p] \in Panicky /\ Transition(p, from, "unwind")
    BY <1>1 DEF Enlist
  <2> QED
    BY <1>3, <1>10, <2>1 DEF Transition
<1>17. CASE s = "open" /\ ~Enlisting(p)'
  <2>1. pc' = [pc EXCEPT ![p] = "unwind"] /\ "open" \in Callbacks[h] /\ value = "open" /\ h \in Panicky
    BY <1>1, <1>2, <1>16, <1>17 DEF Enlisting
  <2>2. PhaseBar[p] = "done" /\ PhaseBar' = [PhaseBar EXCEPT ![p] = "done"]
    <3>1. Transition(p, from, "unwind")
      BY <1>3, <2>1 DEF Transition
    <3>2. PhaseOf(from) = "done" /\ PhaseOf("unwind") = "done"
      BY DEF PhaseOf
    <3> QED
      BY <1>2, <3>1, <3>2, PhaseMoves
  <2>3. ~Listed(h, "closed")
    BY <1>3, <1>10 DEF EnlistInv
  <2>4. MembersBar'["open"] = MembersBar["open"]
    BY <1>3, <1>7, <1>14, <1>17, <2>1 DEF States
  <2>5. MembersBar'["closed"] = MembersBar["closed"] \ {h}
    <3>1. MembersBar'["closed"] = {g \in Hooks : Listed(g, "closed")}
      BY <1>7, <1>14, <1>17 DEF States
    <3>2. MembersBar["closed"] = {g \in Hooks : Listed(g, "closed") \/ (g = h /\ "closed" \in Callbacks[h])}
      BY <1>14 DEF States
    <3> QED
      BY <2>3, <3>1, <3>2
  <2>6. MembersBar' = [MembersBar EXCEPT !["closed"] = @ \ {h}]
    BY <1>15, <2>4, <2>5 DEF States
  <2>7. h \in MembersBar["open"]
    BY <1>3, <1>14, <2>1 DEF States
  <2>8. Atomic!RegisterPanics(p)
    BY <1>3, <1>10, <1>13, <2>1, <2>6, <2>7 DEF Atomic!RegisterPanics
  <2> QED
    BY <1>4, <2>2, <2>8 DEF Atomic!Panic, Atomic!Step
<1>18. CASE s = "closed" \/ Enlisting(p)'
  <2>1. PhaseBar' = PhaseBar
    <3>1. Transition(p, from, to) \/ Transition(p, from, "unwind")
      BY <1>1 DEF Enlist
    <3> QED
      BY <1>2, <3>1, PhaseStays DEF PhaseOf
  <2>2. ASSUME NEW r \in States, NEW g \in Hooks
        PROVE  g \in MembersBar'[r] <=> g \in MembersBar[r]
    <3>1. CASE g # h
      BY <1>7, <1>14, <3>1
    <3>2. CASE g = h /\ r \notin Callbacks[h]
      BY <1>7, <1>14, <3>2
    <3>3. CASE g = h /\ r \in Callbacks[h] /\ Enlisting(p)'
      BY <1>14, <3>3
    <3>4. CASE g = h /\ r \in Callbacks[h] /\ s = "closed" /\ ~Enlisting(p)'
      <4>1. r = "closed" => Listed(g, r)'
        BY <1>7, <3>4
      <4>2. r = "open" => Listed(g, r)
        BY <1>1, <1>3, <1>10, <3>4 DEF EnlistInv
      <4> QED
        BY <1>7, <1>14, <3>4, <4>1, <4>2 DEF States
    <3> QED
      BY <1>18, <3>1, <3>2, <3>3, <3>4
  <2>3. \A r \in States : MembersBar'[r] = MembersBar[r]
    BY <1>14, <2>2
  <2>4. MembersBar' = MembersBar
    BY <1>15, <2>3
  <2> QED
    BY <1>4, <1>13, <2>1, <2>4 DEF Atomic!vars
<1> QED
  BY <1>17, <1>18 DEF States

\* New appends callbacks that nobody can be told before it returns.
LEMMA PreregisterMaps ==
  ASSUME GateInv, Preregister
  PROVE  UNCHANGED Atomic!vars
<1>1. /\ Quiet /\ Quiet' /\ ~ready /\ ~ready'
      /\ heard \in [Hooks -> States \cup {"nothing"}] /\ heard' = heard
  BY DEF Preregister, GateInv, MutexInv, TypeOK, Quiet, locals, history
<1>2. UNCHANGED <<value, ready, pc, op, hook, ret>>
  BY DEF Preregister, locals
<1>3. MembersBar' = MembersBar /\ ToldBar' = ToldBar
  BY <1>1, QuietMap, QuietMapNext DEF QuietMapping
<1> QED
  BY <1>2, <1>3 DEF PhaseBar, Atomic!vars

LEMMA IdleMaps ==
  ASSUME UNCHANGED vars
  PROVE  UNCHANGED Atomic!vars
<1>1. UNCHANGED <<value, ready, callbacks, heard, pc, op, hook, ret, idx>>
  BY DEF vars, shared, creation, locals, history
<1> QED
  BY <1>1, MapKept DEF PhaseBar, Atomic!vars

\* Open, Close, Register and the gate test of a request are atomic with their
\* callbacks, for any number of goroutines and hooks and whichever of the
\* callbacks panic (gate.go, Register, Open, Close and the Then decorators).
THEOREM ImplementsGate == Spec => ImplementsAtomicGate
<1>1. Init => Atomic!Init
  BY InitMaps
<1>2. GateInv /\ CallInv /\ [Next]_vars => [Atomic!Next]_Atomic!vars
  <2> SUFFICES ASSUME GateInv, CallInv, [Next]_vars
               PROVE  [Atomic!Next]_Atomic!vars
    OBVIOUS
  <2> USE DEF CallInv
  <2>1. CASE Preregister
    BY <2>1, PreregisterMaps
  <2>2. CASE Construct
    BY <2>2, CreateMaps DEF Atomic!Next
  <2>3. CASE UNCHANGED vars
    BY <2>3, IdleMaps
  <2>4. ASSUME NEW p \in Procs, NEW s \in States, CallChange(p, s) PROVE Atomic!Invoke(p)
    BY <2>4, InvokeMaps DEF CallChange
  <2>5. ASSUME NEW p \in Procs, NEW h \in Hooks, CallRegister(p, h) PROVE Atomic!Invoke(p)
    BY <2>5, InvokeMaps DEF CallRegister
  <2>6. ASSUME NEW p \in Procs, CallRequest(p) PROVE Atomic!Invoke(p)
    BY <2>6, InvokeMaps DEF CallRequest
  <2>7. ASSUME NEW p \in Procs, FastPath(p) PROVE Atomic!TakeEffect(p) \/ UNCHANGED Atomic!vars
    BY <2>7, FastPathMaps
  <2>8. ASSUME NEW p \in Procs, CompareAndSwap(p) PROVE Atomic!TakeEffect(p)
    BY <2>8, CompareAndSwapMaps
  <2>9. ASSUME NEW p \in Procs, Notify(p) PROVE Atomic!Panic(p) \/ UNCHANGED Atomic!vars
    BY <2>9, NotifyMaps
  <2>10. ASSUME NEW p \in Procs, SkipEmpty(p) PROVE Atomic!TakeEffect(p) \/ UNCHANGED Atomic!vars
    BY <2>10, SkipEmptyMaps
  <2>11. ASSUME NEW p \in Procs, LockForRegister(p) PROVE Atomic!TakeEffect(p)
    BY <2>11, LockForRegisterMaps
  <2>12. ASSUME NEW p \in Procs, RegisterOnOpen(p) \/ RegisterOnClosed(p)
         PROVE  Atomic!Panic(p) \/ UNCHANGED Atomic!vars
    BY <2>12, EnlistMaps
  <2>13. ASSUME NEW p \in Procs, LockForChange(p) \/ NotifiedAll(p) \/ Unlock(p)
         PROVE  UNCHANGED Atomic!vars
    BY <2>13, SilentMaps
  <2>14. ASSUME NEW p \in Procs, Serve(p) PROVE Atomic!TakeEffect(p)
    BY <2>14, ServeMaps
  <2>15. ASSUME NEW p \in Procs, Return(p) PROVE Atomic!Return(p)
    BY <2>15, ReturnMaps
  <2> QED
    BY <2>1, <2>2, <2>3, <2>4, <2>5, <2>6, <2>7, <2>8, <2>9, <2>10, <2>11, <2>12, <2>13,
       <2>14, <2>15, GateCases DEF Atomic!Next
<1> QED
  BY <1>1, <1>2, GateInvariant, CallInvariant, PTL
  DEF Spec, Atomic!Spec, ImplementsAtomicGate

=============================================================================
