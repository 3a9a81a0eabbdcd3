-------------------------------- MODULE Gate --------------------------------
(***************************************************************************)
(* Package gate: an open/closed flag read atomically by every request, and *)
(* a mutex under which the flag is swapped, hooks are registered and the   *)
(* callbacks of the hooks run.                                             *)
(*                                                                         *)
(* Goroutines (Procs) call Open, Close, Register and decorated handlers or *)
(* round trippers in any order.  A hook is one registration: an entry of   *)
(* Config.Hooks or the argument of one Register call.  Open and Close are  *)
(* the same code with the two states exchanged, so both are modelled by    *)
(* the actions of a change to the state op[p].                             *)
(***************************************************************************)
EXTENDS Naturals, Sequences, Functions

CONSTANTS
  Procs,        \* goroutines
  Hooks,        \* hooks that are registered, at construction or later
  Callbacks,    \* Callbacks[h]: the states h has a callback for
  ConfigHooks,  \* Config.Hooks, a sequence
  Panicky,      \* hooks whose callbacks may panic
  NoProc,       \* the mutex is free
  NoHook        \* the call is not a Register

States == {"open", "closed"}

ASSUME GateConstants ==
  /\ NoProc \notin Procs
  /\ NoHook \notin Hooks
  /\ Callbacks \in [Hooks -> SUBSET States]
  /\ ConfigHooks \in Seq(Hooks)
  /\ \A i, j \in 1..Len(ConfigHooks) : ConfigHooks[i] = ConfigHooks[j] => i = j
  /\ Panicky \subseteq Hooks

VARIABLES
  value,        \* status.value
  lock,         \* gate.stateLock: its holder, or NoProc
  callbacks,    \* gate.onOpen and gate.onClosed, as callbacks[state]
  built,        \* entries of Config.Hooks that New has appended
  ready,        \* New has returned
  registered,   \* hooks given to New or Register (bounds each to one registration)
  pc,           \* where each goroutine is
  op,           \* what it called: a state (Open, Close), "register", "request"
  hook,         \* the argument of Register
  idx,          \* position of the next callback in on()
  saw,          \* isOpen in Register
  ret,          \* result: opened, closed, or the request reached next
  heard,        \* history: the last state each hook was told
  spoiled       \* history: a callback panicked in the last state change

shared    == <<value, lock, callbacks>>
creation  == <<built, ready>>
locals    == <<op, hook, idx, saw, ret>>
history   == <<heard, spoiled>>
vars      == <<shared, creation, registered, pc, locals, history>>

Transition(p, from, to) ==
  /\ pc[p] = from
  /\ pc' = [pc EXCEPT ![p] = to]

Other(s) == IF s = "open" THEN "closed" ELSE "open"
Listed(h, s) == \E i \in 1..Len(callbacks[s]) : callbacks[s][i] = h

Init ==
  /\ value = "open"
  /\ lock = NoProc
  /\ callbacks = [s \in States |-> <<>>]
  /\ built = 0
  /\ ready = FALSE
  /\ registered = {ConfigHooks[i] : i \in 1..Len(ConfigHooks)}
  /\ pc = [p \in Procs |-> "idle"]
  /\ op = [p \in Procs |-> "request"]
  /\ hook = [p \in Procs |-> NoHook]
  /\ idx = [p \in Procs |-> 1]
  /\ saw = [p \in Procs |-> "open"]
  /\ ret = [p \in Procs |-> FALSE]
  /\ heard = [h \in Hooks |-> "nothing"]
  /\ spoiled = FALSE

-----------------------------------------------------------------------------
(* New: no other goroutine has the gate until it returns. *)

AppendIfNotNil(s, h) ==
  IF s \in Callbacks[h] THEN Append(callbacks[s], h) ELSE callbacks[s]

Preregister ==
  /\ ~ready
  /\ built < Len(ConfigHooks)
  /\ built' = built + 1
  /\ callbacks' = [s \in States |-> AppendIfNotNil(s, ConfigHooks[built + 1])]
  /\ UNCHANGED <<value, lock, ready, registered, pc, locals, history>>

\* The initial state is Config.InitiallyClosed; its callbacks run before New returns.
Construct ==
  /\ built = Len(ConfigHooks)
  /\ ~ready
  /\ ready' = TRUE
  /\ \E initial \in States :
       /\ value' = initial
       /\ heard' = [h \in Hooks |-> IF Listed(h, initial) THEN initial ELSE "nothing"]
  /\ UNCHANGED <<lock, callbacks, built, registered, pc, locals, spoiled>>

-----------------------------------------------------------------------------
(* Open and Close, by a caller or by ControlHandler.ServeHTTP. *)

Call(p, o, h) ==
  /\ ready
  /\ Transition(p, "idle", "check")
  /\ op' = [op EXCEPT ![p] = o]
  /\ hook' = [hook EXCEPT ![p] = h]
  /\ ret' = [ret EXCEPT ![p] = FALSE]
  /\ UNCHANGED <<shared, creation, idx, saw, history>>

CallChange(p, s) == Call(p, s, NoHook) /\ UNCHANGED registered

\* The unlocked test: nothing to do when the gate is already in the wanted state.
FastPath(p) ==
  /\ op[p] \in States
  /\ Transition(p, "check", IF value = op[p] THEN "done" ELSE "lock")
  /\ UNCHANGED <<shared, creation, registered, locals, history>>

\* Mutant: the mutex does not exclude.
NoExclusion == TRUE

LockFree == lock = NoProc

LockForChange(p) ==
  /\ op[p] \in States
  /\ LockFree
  /\ lock' = p
  /\ Transition(p, "lock", "swap")
  /\ UNCHANGED <<value, callbacks, creation, registered, locals, history>>

\* Mutant: the swap does not compare: whoever passed the first test notifies.
SwapBlindly(p) ==
  /\ Transition(p, "swap", "notify")
  /\ value' = op[p]
  /\ ret' = [ret EXCEPT ![p] = TRUE]
  /\ idx' = [idx EXCEPT ![p] = 1]
  /\ UNCHANGED <<lock, callbacks, creation, registered, op, hook, saw, history>>

CompareAndSwap(p) ==
  /\ pc[p] = "swap"
  /\ IF value = Other(op[p])
     THEN /\ value' = op[p]
          /\ ret' = [ret EXCEPT ![p] = TRUE]
          /\ idx' = [idx EXCEPT ![p] = 1]
          /\ Transition(p, "swap", "notify")
     ELSE /\ Transition(p, "swap", "unlock")
          /\ UNCHANGED <<value, ret, idx>>
  /\ UNCHANGED <<lock, callbacks, creation, registered, op, hook, saw, history>>

\* One callback of callbacks.on; it returns, or it panics and the rest are skipped.
Notify(p) ==
  /\ pc[p] = "notify"
  /\ idx[p] <= Len(callbacks[op[p]])
  /\ LET h == callbacks[op[p]][idx[p]]
     IN /\ heard' = [heard EXCEPT ![h] = op[p]]
        /\ \/ /\ idx' = [idx EXCEPT ![p] = @ + 1]
              /\ UNCHANGED <<pc, spoiled>>
           \/ /\ h \in Panicky
              /\ Transition(p, "notify", "unwind")
              /\ spoiled' = TRUE
              /\ UNCHANGED idx
  /\ UNCHANGED <<shared, creation, registered, op, hook, saw, ret>>

\* Mutant: the last callback may be left out.
NotifiedAlmostAll(p) ==
  /\ Transition(p, "notify", "unlock")
  /\ idx[p] >= Len(callbacks[op[p]])
  /\ spoiled' = FALSE
  /\ UNCHANGED <<shared, creation, registered, locals, heard>>

NotifiedAll(p) ==
  /\ Transition(p, "notify", "unlock")
  /\ idx[p] > Len(callbacks[op[p]])
  /\ spoiled' = FALSE
  /\ UNCHANGED <<shared, creation, registered, locals, heard>>

\* Mutant: the unlock is not deferred, so a panic skips it.
UnlockOnReturnOnly(p) ==
  /\ \/ Transition(p, "unlock", "done") /\ lock' = NoProc
     \/ Transition(p, "unwind", "panicked") /\ UNCHANGED lock
  /\ UNCHANGED <<value, callbacks, creation, registered, locals, history>>

\* The deferred unlock, on return and when a panic unwinds the call.
Unlock(p) ==
  /\ \/ Transition(p, "unlock", "done")
     \/ Transition(p, "unwind", "panicked")
  /\ lock' = NoProc
  /\ UNCHANGED <<value, callbacks, creation, registered, locals, history>>

Return(p) ==
  /\ \E end \in {"done", "panicked", "next"} : Transition(p, end, "idle")
  /\ UNCHANGED <<shared, creation, registered, locals, history>>

-----------------------------------------------------------------------------
(* Register *)

CallRegister(p, h) ==
  /\ h \notin registered
  /\ registered' = registered \cup {h}
  /\ Call(p, "register", h)

\* Register does nothing with a hook that has no callbacks.
SkipEmpty(p) ==
  /\ op[p] = "register"
  /\ Transition(p, "check", IF Callbacks[hook[p]] = {} THEN "done" ELSE "lock")
  /\ UNCHANGED <<shared, creation, registered, locals, history>>

LockForRegister(p) ==
  /\ op[p] = "register"
  /\ LockFree
  /\ lock' = p
  /\ saw' = [saw EXCEPT ![p] = value]
  /\ Transition(p, "lock", "onOpen")
  /\ UNCHANGED <<value, callbacks, creation, registered, op, hook, idx, ret, history>>

\* Append the callback for state s and, if s is the current state, invoke it:
\* it may panic, and then the rest of Register does not happen.
Enlist(p, s, from, to) ==
  LET h == hook[p]
      invoked == s \in Callbacks[h] /\ saw[p] = s
  IN /\ pc[p] = from
     /\ callbacks' = [callbacks EXCEPT ![s] = AppendIfNotNil(s, h)]
     /\ heard' = IF invoked THEN [heard EXCEPT ![h] = s] ELSE heard
     /\ \/ Transition(p, from, to)
        \/ invoked /\ h \in Panicky /\ Transition(p, from, "unwind")
     /\ UNCHANGED <<value, lock, creation, registered, locals, spoiled>>

RegisterOnOpen(p) == Enlist(p, "open", "onOpen", "onClosed")
RegisterOnClosed(p) == Enlist(p, "closed", "onClosed", "unlock")

-----------------------------------------------------------------------------
(* A request through Server.Then or Client.Then: the flag is read once. *)

CallRequest(p) == Call(p, "request", NoHook) /\ UNCHANGED registered

\* Forwarded to next, or answered by Closed, a 503 or a ClosedError.
Serve(p) ==
  /\ op[p] = "request"
  /\ ret' = [ret EXCEPT ![p] = (value = "open")]
  /\ Transition(p, "check", IF value = "open" THEN "next" ELSE "done")
  /\ UNCHANGED <<shared, creation, registered, op, hook, idx, saw, history>>

-----------------------------------------------------------------------------
Running(p) ==
  \/ FastPath(p) \/ CompareAndSwap(p) \/ Notify(p) \/ NotifiedAll(p)
  \/ SkipEmpty(p) \/ RegisterOnOpen(p) \/ RegisterOnClosed(p)
  \/ Unlock(p) \/ Serve(p) \/ Return(p)

Locking(p) == LockForChange(p) \/ LockForRegister(p)

Calling(p) ==
  \/ \E s \in States : CallChange(p, s)
  \/ \E h \in Hooks : CallRegister(p, h)
  \/ CallRequest(p)

Next ==
  \/ Preregister
  \/ Construct
  \/ \E p \in Procs : Calling(p) \/ Locking(p) \/ Running(p)

Spec == Init /\ [][Next]_vars

\* Goroutines are scheduled, callbacks and next handlers return, and sync.Mutex
\* hands itself to a goroutine that has waited long (starvation mode).  Nobody
\* has to call.
Fairness ==
  \A p \in Procs : WF_vars(Running(p)) /\ SF_vars(Locking(p))

FairSpec == Spec /\ Fairness
-----------------------------------------------------------------------------
(* Properties *)

TypeOK ==
  /\ value \in States
  /\ lock \in Procs \cup {NoProc}
  /\ callbacks \in [States -> Seq(Hooks)]
  /\ built \in 0..Len(ConfigHooks)
  /\ ready \in BOOLEAN
  /\ registered \subseteq Hooks
  /\ pc \in [Procs -> {"idle", "check", "lock", "swap", "notify", "onOpen", "onClosed",
                       "unlock", "unwind", "done", "panicked", "next"}]
  /\ op \in [Procs -> States \cup {"register", "request"}]
  /\ hook \in [Procs -> Hooks \cup {NoHook}]
  /\ idx \in [Procs -> Nat]
  /\ saw \in [Procs -> States]
  /\ ret \in [Procs -> BOOLEAN]
  /\ heard \in [Hooks -> States \cup {"nothing"}]
  /\ spoiled \in BOOLEAN

\* Whenever the mutex is free, every callback registered for the current state
\* was the last one its hook received: no order of Open, Close and Register
\* leaves a hook believing the wrong state, and one complete state change
\* repairs what a panicking callback broke (gate.go, Open, Close, Register).
HooksAgree ==
  ready /\ lock = NoProc /\ ~spoiled =>
    \A h \in Range(callbacks[value]) : heard[h] = value

\* The documentation's unconditional form: OnOpen and OnClosed run any time the
\* gate is opened or closed (gate.go:43-50), also when another callback panics.
\* It does not hold: the callbacks after the one that panics are not told.
HooksAlwaysAgree ==
  ready /\ lock = NoProc => \A h \in Range(callbacks[value]) : heard[h] = value

\* The Status a callback is given reports the state the callback announces,
\* for as long as it runs, whatever the other goroutines do.
CallbackSeesItsState ==
  \A p \in Procs :
    /\ pc[p] = "notify" => value = op[p]
    /\ pc[p] \in {"onOpen", "onClosed"} => value = saw[p]

\* Every call returns, whichever way its callbacks end: the mutex is given back
\* on every path (gate.go:226, 250, 265).
EveryCallReturns == \A p \in Procs : pc[p] # "idle" ~> pc[p] = "idle"

-----------------------------------------------------------------------------
(* The inductive invariant behind TypeOK, HooksAgree and CallbackSeesItsState. *)

\* Each step of a call is taken on behalf of the operation that has that step.
ControlInv ==
  \A p \in Procs :
    /\ op[p] = "register" => hook[p] \in Hooks
    /\ pc[p] \in {"swap", "notify"} => op[p] \in States
    /\ idx[p] # 0
    /\ pc[p] \in {"onOpen", "onClosed"} => op[p] = "register"

\* The mutex is held in exactly the steps between Lock and the deferred Unlock.
Holding == {"swap", "notify", "onOpen", "onClosed", "unlock", "unwind"}

MutexInv ==
  /\ \A p \in Procs : lock = p <=> pc[p] \in Holding
  /\ ~ready => \A p \in Procs : pc[p] = "idle"

Told(i) == heard[callbacks[value][i]] = value

\* on() has told the callbacks before its position; when no on() is under way
\* and none was cut short, all are told.  Register works with the current state.
NewsInv ==
  /\ \A p \in Procs :
       pc[p] = "notify" =>
         /\ op[p] = value
         /\ \A i \in 1..Len(callbacks[value]) : i < idx[p] => Told(i)
  /\ ready /\ ~spoiled /\ (\A p \in Procs : pc[p] # "notify") =>
       \A i \in 1..Len(callbacks[value]) : Told(i)
  /\ \A p \in Procs : pc[p] \in {"onOpen", "onClosed"} => value = saw[p]

\* What holds between any two steps of the gate: the argument for HooksAgree.
GateInv == TypeOK /\ ControlInv /\ MutexInv /\ NewsInv

-----------------------------------------------------------------------------
(* What the refinement needs besides GateInv *)

\* A call has its result from the step that it takes effect in.
ResultInv ==
  \A p \in Procs :
    /\ pc[p] \in {"check", "lock", "swap"} => ~ret[p]
    /\ pc[p] = "notify" => ret[p]

\* New appends the callbacks of Config.Hooks, and tells nobody before the end.
ListInv ==
  /\ \A i \in 1..Len(ConfigHooks) : ConfigHooks[i] \in registered
  /\ \A h \in Hooks, s \in States : Listed(h, s) => h \in registered
  /\ ~ready =>
       \A h \in Hooks :
         /\ heard[h] = "nothing"
         /\ \A s \in States :
              Listed(h, s) <=> s \in Callbacks[h] /\ \E i \in 1..built : ConfigHooks[i] = h

Registering(p) == op[p] = "register" /\ pc[p] \in {"check", "lock", "onOpen", "onClosed"}

\* A hook that is being registered is in the list it was appended to, was told
\* the current state if that is open, and is in no other list.
EnlistInv ==
  /\ \A p \in Procs : Registering(p) =>
       /\ hook[p] \in registered
       /\ ~Listed(hook[p], "closed")
       /\ pc[p] # "onClosed" => ~Listed(hook[p], "open")
       /\ pc[p] = "onClosed" /\ "open" \in Callbacks[hook[p]] =>
            Listed(hook[p], "open") /\ (value = "open" => heard[hook[p]] = "open")
  /\ \A p, q \in Procs : Registering(p) /\ Registering(q) /\ hook[p] = hook[q] => p = q

CallInv == ResultInv /\ ListInv /\ EnlistInv

-----------------------------------------------------------------------------
(* The gate implements AtomicGate.  A call takes effect at its unlocked test if
   that ends it, else when it swaps the flag or locks the mutex to register.   *)

Enlisting(p) == pc[p] \in {"onOpen", "onClosed"}

PhaseBar ==
  [p \in Procs |->
     CASE pc[p] = "idle" -> "idle"
       [] pc[p] = "check" \/ pc[p] \in {"lock", "swap"} -> "pending"
       [] OTHER -> "done"]

MembersBar ==
  [s \in States |->
     IF ready
     THEN Range(callbacks[s]) \cup
          {h \in Hooks : s \in Callbacks[h] /\ \E p \in Procs : Enlisting(p) /\ hook[p] = h}
     ELSE {}]

\* h is owed the news: it is behind in the list, or its registration goes on.
Owed(h) ==
  \E p \in Procs :
    \/ /\ pc[p] = "notify"
       /\ \E i \in idx[p]..Len(callbacks[op[p]]) : callbacks[op[p]][i] = h
    \/ Enlisting(p) /\ hook[p] = h /\ value \in Callbacks[h]

ToldBar == [h \in Hooks |-> IF Owed(h) THEN value ELSE heard[h]]

Atomic == INSTANCE AtomicGate WITH
  Configured <- Range(ConfigHooks), state <- value,
  members <- MembersBar, told <- ToldBar, phase <- PhaseBar

\* Open, Close, Register and requests are atomic, callbacks included: "Register
\* is atomic with respect to Open/Close" (gate.go:84) and Open and Close return
\* true exactly when they changed the state, whatever panics.
ImplementsAtomicGate == Atomic!Spec
=============================================================================
