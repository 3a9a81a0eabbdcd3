-------------------------------- MODULE Chain --------------------------------
(***************************************************************************)
(* The chains of packages roundtrip and client: slices of constructors of  *)
(* which each call makes a new one, and what Then makes of a round tripper *)
(* by applying them, with CloseIdleConnections preserved.                  *)
(***************************************************************************)
EXTENDS Naturals, Sequences

CONSTANTS
  Nops,      \* constructors that return what they are given, as a gate.Client without Gate
  Plain,     \* constructors of a Func or another type without CloseIdleConnections
  Caring,    \* constructors of a type with it, as gate.Client
  MaxChains, \* bound on the chains made
  MaxLen,    \* bound on their length
  MaxThens   \* bound on the calls of Then

ASSUME ChainConstants ==
  /\ Nops \cap Plain = {} /\ Nops \cap Caring = {} /\ Plain \cap Caring = {}
  /\ (Nops \cup Plain \cup Caring) \cap {"transport", "func"} = {}
  /\ {MaxChains, MaxLen, MaxThens} \subseteq Nat

Constructors == Nops \cup Plain \cup Caring

VARIABLES
  package,   \* whose chains these are: "roundtrip" or "client"
  arrays,    \* backing arrays, the first one of the caller's own slice
  chains,    \* Chain.c of each chain: a backing array, all of which it uses
  given,     \* history: the constructors each chain was given
  objects,   \* the round trippers, or clients, made so far
  products,  \* what Then returned
  asked,     \* history: the constructors each product was made with, outermost first
  pending,   \* the constructors that the current call of Then has yet to apply
  next       \* its next

slices == <<package, arrays, chains, given>>
vars   == <<slices, objects, products, asked, pending, next>>

\* http.DefaultTransport, which is used for a nil next, and a Func, which has no
\* connections to close.  The next of a base is 0.
Bases == <<[kind |-> "closing", made |-> "transport", next |-> 0, closer |-> 0],
           [kind |-> "func", made |-> "func", next |-> 0, closer |-> 0]>>

Init ==
  /\ package \in {"roundtrip", "client"}
  /\ \E a, b \in Constructors : arrays = <<<<a, b>>>>
  /\ chains = <<>> /\ given = <<>>
  /\ objects = Bases
  /\ products = <<1, 2>>
  /\ asked = << <<"transport">>, <<"func">> >>
  /\ pending = <<>>
  /\ next = 0

Idle == next = 0

-----------------------------------------------------------------------------
(* Chains.  The zero chain, and calls that append nothing, make no array. *)

\* The caller goes on using the slice that it has passed.
Reuse ==
  /\ Idle
  /\ \E k \in 1..2, c \in Constructors : arrays' = [arrays EXCEPT ![1][k] = c]
  /\ UNCHANGED <<package, chains, given, objects, products, asked, pending, next>>

Made(constructors) ==
  /\ Idle /\ Len(chains) < MaxChains
  /\ Len(constructors) <= MaxLen
  /\ given' = Append(given, constructors)
  /\ UNCHANGED <<package, objects, products, asked, pending, next>>

\* Mutant: the chain keeps the caller's slice.
KeepSlice ==
  /\ Made(arrays[1])
  /\ chains' = Append(chains, 1)
  /\ arrays' = arrays

NewChain ==
  /\ Made(arrays[1])
  /\ arrays' = Append(arrays, arrays[1])
  /\ chains' = Append(chains, Len(arrays'))

\* Append with the caller's slice; Extend appends those of another chain.
AppendMore(d) ==
  /\ Made(given[d] \o arrays[1])
  /\ arrays' = Append(arrays, arrays[chains[d]] \o arrays[1])
  /\ chains' = Append(chains, Len(arrays'))

Extend(d, e) ==
  /\ Made(given[d] \o given[e])
  /\ arrays' = Append(arrays, arrays[chains[d]] \o arrays[chains[e]])
  /\ chains' = Append(chains, Len(arrays'))

-----------------------------------------------------------------------------
(* Then *)

Closes(all, o) == all[o].kind \in {"closing", "decorator"}

\* What a constructor does to the round tripper or client it decorates.
Construct(c, o) ==
  IF c \in Nops THEN objects
  ELSE Append(objects, [kind |-> IF c \in Caring THEN "closing" ELSE "func",
                        made |-> c, next |-> o, closer |-> 0])

\* Mutant: only what is decorated next preserves it.
PreserveNot(all, o, decorator) == all

\* PreserveCloseIdler: a Decorator if otherwise CloseIdleConnections would be hidden.
PreserveCloseIdler(all, o, decorator) ==
  IF Closes(all, decorator) \/ ~Closes(all, o) THEN all
  ELSE Append(all, [kind |-> "decorator", made |-> "decorator", next |-> decorator,
                    closer |-> IF all[o].kind = "decorator" THEN all[o].closer ELSE o])

Then(d, p) ==
  /\ Idle /\ Len(products) < MaxThens + Len(Bases)
  /\ next' = products[p]
  /\ pending' = arrays[chains[d]]
  /\ asked' = Append(asked, given[d] \o asked[p])
  /\ UNCHANGED <<slices, objects, products>>

Result(all, o) == IF all = objects THEN o ELSE Len(all)

Last == Len(pending)

Apply ==
  /\ ~Idle /\ pending # <<>>
  /\ LET made    == Construct(pending[Last], next)
         latest  == Result(made, next)
         wrapped == PreserveCloseIdler(made, next, latest)
     IN  IF package = "client"
         THEN objects' = made /\ next' = latest
         ELSE objects' = wrapped /\ next' = Result(wrapped, latest)
  /\ pending' = SubSeq(pending, 1, Last - 1)
  /\ UNCHANGED <<slices, products, asked>>

Return ==
  /\ ~Idle /\ pending = <<>>
  /\ products' = Append(products, next)
  /\ next' = 0
  /\ UNCHANGED <<slices, objects, asked, pending>>

Next ==
  \/ Reuse \/ NewChain \/ Apply \/ Return
  \/ \E d \in 1..Len(chains) :
       \/ AppendMore(d)
       \/ \E e \in 1..Len(chains) : Extend(d, e)
       \/ \E p \in 1..Len(products) : Then(d, p)

Spec == Init /\ [][Next]_vars

-----------------------------------------------------------------------------
(* What a request and a call of CloseIdleConnections meet on their way in *)

\* What is met from each number on: its own part, then what is met from the one before it.
Walk(part, before) ==
  LET met[o \in {0} \cup DOMAIN part] == IF o = 0 THEN <<>> ELSE part[o] \o met[before[o]]
  IN  met

Trip ==
  Walk([o \in DOMAIN objects |->
          IF objects[o].kind = "decorator" THEN <<>> ELSE <<objects[o].made>>],
       [o \in DOMAIN objects |-> objects[o].next])

\* A caring decorator passes the call on to its next, if that has the method.
Close ==
  Walk([o \in DOMAIN objects |->
          IF objects[o].kind = "closing" THEN <<objects[o].made>> ELSE <<>>],
       [o \in DOMAIN objects |->
          CASE objects[o].kind = "closing"   -> objects[o].next
            [] objects[o].kind = "decorator" -> objects[o].closer
            [] objects[o].kind = "func"      -> 0])

-----------------------------------------------------------------------------
(* Properties *)

\* The members of S among the last k of s, in their order, for each k.
Kept(s, S) ==
  LET fromEnd(k) == s[Len(s) - k + 1]
  IN  Walk([k \in 1..Len(s) |-> IF fromEnd(k) \in S THEN <<fromEnd(k)>> ELSE <<>>],
           [k \in 1..Len(s) |-> k - 1])

Only(s, S) == Kept(s, S)[Len(s)]

Visible == Plain \cup Caring \cup {"transport", "func"}
Closing == Caring \cup {"transport"}

\* Requests pass through the constructors' round trippers in the order in which
\* they were given to the chains, whatever became of the slices they came from.
TripsInOrder ==
  \A p \in DOMAIN products : Trip[products[p]] = Only(asked[p], Visible)

\* CloseIdleConnections visits each decorator that cares, and the transport
\* (middleware.go:83-86), each of them once.
ClosesEveryIdler ==
  package = "roundtrip" =>
    \A p \in DOMAIN products : Close[products[p]] = Only(asked[p], Closing)

-----------------------------------------------------------------------------
(* The inductive invariant from which both follow *)

Objects == [kind : {"closing", "func", "decorator"},
            made : Constructors \cup {"transport", "func", "decorator"},
            next : Nat, closer : Nat]

\* No chain uses the caller's slice, and each still has what it was given.
SliceInv ==
  /\ arrays \in Seq(Seq(Constructors)) /\ chains \in Seq(Nat) /\ given \in Seq(Seq(Constructors))
  /\ Len(arrays) > 0 /\ arrays[1] \in [1..2 -> Constructors]
  /\ Len(given) = Len(chains)
  /\ \A d \in DOMAIN chains : chains[d] \in 2..Len(arrays) /\ arrays[chains[d]] = given[d]

\* Whatever is decorated was made before.
ObjectInv ==
  /\ objects \in Seq(Objects)
  /\ \A o \in DOMAIN objects : objects[o].next < o /\ objects[o].closer < o

ProductInv ==
  /\ products \in Seq(Nat) /\ asked \in Seq(Seq(Constructors \cup {"transport", "func"}))
  /\ Len(asked) = Len(products) + (IF next = 0 THEN 0 ELSE 1)
  /\ \A p \in DOMAIN products : products[p] \in DOMAIN objects
  /\ package \in {"roundtrip", "client"}

\* Then has applied the last constructors that it was asked to, and has the others pending.
PendingInv ==
  next # 0 =>
    LET all  == asked[Len(asked)]
        done == Len(all) - Len(pending)
    IN  /\ next \in DOMAIN objects /\ pending \in Seq(Constructors)
        /\ done \in Nat /\ \A k \in DOMAIN pending : pending[k] = all[k]
        /\ Trip[next] = Kept(all, Visible)[done]
        /\ package = "roundtrip" => Close[next] = Kept(all, Closing)[done]

ChainInv ==
  SliceInv /\ ObjectInv /\ ProductInv /\ PendingInv /\ TripsInOrder /\ ClosesEveryIdler
=============================================================================
