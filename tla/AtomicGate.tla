----------------------------- MODULE AtomicGate -----------------------------
(***************************************************************************)
(* What gate.Interface promises its callers: Open, Close, Register and the *)
(* gate test of a request each take effect at one instant between their    *)
(* call and their return, and that instant includes the callbacks.  There  *)
(* is no lock, no unlocked first test and no list of callbacks here.  The  *)
(* panic of a callback takes back no more than what its own call told or   *)
(* registered.                                                             *)
(***************************************************************************)
CONSTANTS Procs, Hooks, Callbacks, Configured, Panicky, NoHook

VARIABLES
  state,      \* open or closed
  ready,      \* the gate exists
  members,    \* for each state the hooks that are told it
  told,       \* the last state each hook was told
  phase,      \* of each goroutine: idle, pending, done
  op, hook,   \* its call and the hook it registers
  ret         \* its result

vars == <<state, ready, members, told, phase, op, hook, ret>>

States == {"open", "closed"}

Tell(old, hooks, s) == [h \in Hooks |-> IF h \in hooks THEN s ELSE old[h]]

Those(hooks) == [s \in States |-> {h \in hooks : s \in Callbacks[h]}]

Init ==
  /\ state = "open"
  /\ ready = FALSE
  /\ members = Those({})
  /\ told = [h \in Hooks |-> "nothing"]
  /\ phase = [p \in Procs |-> "idle"]
  /\ op = [p \in Procs |-> "request"]
  /\ hook = [p \in Procs |-> NoHook]
  /\ ret = [p \in Procs |-> FALSE]

Create ==
  /\ ~ready
  /\ ready' = TRUE
  /\ members' = Those(Configured)
  /\ state' \in States
  /\ told' = Tell(told, members'[state'], state')
  /\ UNCHANGED <<phase, op, hook, ret>>

Step(p, from, to) == phase[p] = from /\ phase' = [phase EXCEPT ![p] = to]

Invoke(p) ==
  /\ Step(p, "idle", "pending")
  /\ ready
  /\ \/ /\ \E o \in States \cup {"request"} : op' = [op EXCEPT ![p] = o]
        /\ hook' = [hook EXCEPT ![p] = NoHook]
     \/ /\ op' = [op EXCEPT ![p] = "register"]
        /\ \E h \in Hooks : hook' = [hook EXCEPT ![p] = h]
  /\ ret' = [ret EXCEPT ![p] = FALSE]
  /\ UNCHANGED <<state, ready, members, told>>

\* A change reports whether it changed anything, and tells every member if it did.
Change(p) ==
  /\ op[p] \in States
  /\ ret' = [ret EXCEPT ![p] = (state # op[p])]
  /\ state' = op[p]
  /\ told' = IF state # op[p] THEN Tell(told, members[op[p]], op[p]) ELSE told
  /\ UNCHANGED members

Register(p) ==
  /\ op[p] = "register"
  /\ members' = [s \in States |-> members[s] \cup Those({hook[p]})[s]]
  /\ told' = Tell(told, Those({hook[p]})[state], state)
  /\ UNCHANGED <<state, ret>>

Request(p) ==
  /\ op[p] = "request"
  /\ ret' = [ret EXCEPT ![p] = (state = "open")]
  /\ UNCHANGED <<state, members, told>>

TakeEffect(p) ==
  /\ Step(p, "pending", "done")
  /\ Change(p) \/ Register(p) \/ Request(p)
  /\ UNCHANGED <<ready, op, hook>>

\* Some members were not told of the change, for one of them panicked.
ChangePanics(p) ==
  /\ op[p] = state /\ ret[p]
  /\ told' \in [Hooks -> States \cup {"nothing"}]
  /\ \E h \in members[state] \cap Panicky : told'[h] = state
  /\ \A h \in Hooks \ members[state] : told'[h] = told[h]
  /\ UNCHANGED members

\* OnOpen is registered and invoked first, and when it panics OnClosed is not registered.
RegisterPanics(p) ==
  /\ op[p] = "register" /\ hook[p] \in members["open"] \cap Panicky
  /\ state = "open"
  /\ members' = [members EXCEPT !["closed"] = @ \ {hook[p]}]
  /\ UNCHANGED told

Panic(p) ==
  /\ Step(p, "done", "done")
  /\ ChangePanics(p) \/ RegisterPanics(p)
  /\ UNCHANGED <<state, ready, op, hook, ret>>

Return(p) ==
  /\ Step(p, "done", "idle")
  /\ UNCHANGED <<state, ready, members, told, op, hook, ret>>

Next ==
  \/ Create
  \/ \E p \in Procs : Invoke(p) \/ TakeEffect(p) \/ Panic(p) \/ Return(p)

Spec == Init /\ [][Next]_vars
=============================================================================
