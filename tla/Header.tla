------------------------------- MODULE Header --------------------------------
(***************************************************************************)
(* httpaux.Header: a list of headers sorted by canonical name, never       *)
(* changed once it is made.  A Header is a slice: arrays holds the backing *)
(* arrays, a new one for each clone, and every call that makes a Header    *)
(* fills its clone one name at a time.  The values of a name are a slice   *)
(* that a clone shares with its source.  Adding values to a name always    *)
(* makes a new slice, with room for no more, and SetTo and AddTo copy what *)
(* they hand out, so no code writes to an element of a shared one: the     *)
(* slices of values are represented by what they hold.                     *)
(***************************************************************************)
EXTENDS Naturals, Sequences

CONSTANTS
  Names,       \* canonical names, as numbers that sort like them
  RawNames,    \* names as they are given
  Canonical,   \* http.CanonicalHeaderKey
  Values,      \* values of headers
  Blank,       \* the value ""
  Maps,        \* http.Headers to append, in the order in which they are ranged over
  Lists,       \* alternating names and values to append
  MaxHeaders   \* bound on the Headers made

ASSUME HeaderConstants ==
  /\ Names \subseteq Nat \ {0} /\ Names \subseteq RawNames
  /\ Canonical \in [RawNames -> Names]
  /\ \A n \in Names : Canonical[n] = n
  /\ Blank \in Values
  /\ Maps \subseteq Seq(RawNames \X Seq(Values))
  /\ Lists \subseteq Seq(RawNames \cup Values)
  /\ \A list \in Lists : \A k \in 1..Len(list) :
       list[k] \in IF k % 2 = 1 THEN RawNames ELSE Values

VARIABLES
  arrays,    \* the backing arrays
  headers,   \* the Headers made: a backing array and a length
  meant,     \* history: the values each of them was given for each name
  pc,        \* "idle", or "adding" in a call
  target,    \* the clone the call fills
  todo,      \* the names with values that the call has still to add
  sofar      \* history: the values the clone was given for each name

vars == <<arrays, headers, meant, pc, target, todo, sofar>>

Unused == [name |-> 0, values |-> <<>>]

\* The zero value, which is the empty Header.
Init ==
  /\ arrays = << <<>> >>
  /\ headers = <<[array |-> 1, len |-> 0]>>
  /\ meant = <<[n \in Names |-> <<>>]>>
  /\ pc = "idle"
  /\ target = headers[1]
  /\ todo = <<>>
  /\ sofar = meant[1]

Grown(h, cap) ==
  [k \in 1..cap |-> IF k <= h.len THEN arrays[h.array][k] ELSE Unused]

\* Mutant: an array that has the capacity already is not copied.
CloneSmall(h, minCap) ==
  IF minCap <= Len(arrays[h.array]) THEN arrays' = arrays /\ target' = h
  ELSE /\ arrays' = Append(arrays, Grown(h, minCap))
       /\ target' = [h EXCEPT !.array = Len(arrays) + 1]

Clone(h, minCap) ==
  /\ arrays' = Append(arrays, Grown(h, IF h.len < minCap THEN minCap ELSE h.len))
  /\ target' = [h EXCEPT !.array = Len(arrays) + 1]

-----------------------------------------------------------------------------
(* The calls.  One that is given nothing returns the Header it is called on,  *)
(* and Extend the other one if that is empty: nothing is made then.           *)

\* A call on the d-th Header makes a clone with room for its pairs of names and values.
Call(d, pairs, minCap) ==
  /\ pc = "idle" /\ Len(headers) < MaxHeaders
  /\ pc' = "adding"
  /\ Clone(headers[d], minCap)
  /\ todo' = pairs
  /\ sofar' = meant[d]
  /\ UNCHANGED <<headers, meant>>

\* Append and AppendMap; on the empty Header NewHeader and NewHeaderFromMap.
AppendMap(d) ==
  \E more \in Maps \ {<<>>} : Call(d, more, headers[d].len + Len(more))

Pairs(list) ==
  [k \in 1..((Len(list) + 1) \div 2) |->
     <<list[2 * k - 1], IF 2 * k <= Len(list) THEN <<list[2 * k]>> ELSE <<Blank>> >>]

\* Mutant: no room for a name that comes without a value.
Half(list) == Len(list) \div 2

WorstCase(list) == 1 + Len(list) \div 2

\* AppendHeaders; on the empty Header NewHeaders.
AppendHeaders(d) ==
  \E list \in Lists \ {<<>>} : Call(d, Pairs(list), headers[d].len + WorstCase(list))

Extend(d, e) ==
  LET more == Grown(headers[e], headers[e].len)
  IN  /\ headers[d].len > 0 /\ headers[e].len > 0
      /\ Call(d, [k \in DOMAIN more |-> <<more[k].name, more[k].values>>],
              headers[d].len + headers[e].len)

-----------------------------------------------------------------------------
(* headers.add: one name with its values, and what the search finds for it *)

Cells == arrays[target.array]
Name  == Canonical[todo[1][1]]
New   == todo[1][2]

Adding == pc = "adding" /\ todo # <<>>

\* p is the first position whose name is not below Name, or the one after the last.
IsPlace(p) ==
  /\ p \in 1..(target.len + 1)
  /\ \A k \in 1..(p - 1) : Cells[k].name < Name
  /\ p <= target.len => Cells[p].name >= Name

IsThere(p) == p <= target.len /\ Cells[p].name = Name

Given == sofar' = [sofar EXCEPT ![Name] = @ \o New]

AddNothing ==
  /\ Adding
  /\ New = <<>>
  /\ todo' = Tail(todo)
  /\ UNCHANGED <<arrays, headers, meant, pc, target, sofar>>

AddValues ==
  /\ Adding
  /\ New # <<>>
  /\ \E p \in 1..(target.len + 1) :
       /\ IsPlace(p) /\ IsThere(p)
       /\ arrays' = [arrays EXCEPT ![target.array][p].values = @ \o New]
  /\ todo' = Tail(todo)
  /\ Given
  /\ UNCHANGED <<headers, meant, pc, target>>

\* Mutant: the values that the shift left behind stay.
OpenStale(p) ==
  [k \in 1..Len(Cells) |->
     IF k = p THEN [name |-> Name, values |-> Cells[p].values \o New]
     ELSE IF k \in (p + 1)..(target.len + 1) THEN Cells[k - 1] ELSE Cells[k]]

\* The names from p on move up by one, in place.
Open(p) ==
  [k \in 1..Len(Cells) |->
     IF k = p THEN [name |-> Name, values |-> New]
     ELSE IF k \in (p + 1)..(target.len + 1) THEN Cells[k - 1] ELSE Cells[k]]

AddName ==
  /\ Adding
  /\ New # <<>> /\ target.len < Len(Cells)
  /\ \E p \in 1..(target.len + 1) :
       /\ IsPlace(p) /\ ~IsThere(p)
       /\ arrays' = [arrays EXCEPT ![target.array] = Open(p)]
  /\ target' = [target EXCEPT !.len = @ + 1]
  /\ todo' = Tail(todo)
  /\ Given
  /\ UNCHANGED <<headers, meant, pc>>

Return ==
  /\ pc = "adding" /\ todo = <<>>
  /\ pc' = "idle"
  /\ headers' = Append(headers, target)
  /\ meant' = Append(meant, sofar)
  /\ UNCHANGED <<arrays, target, todo, sofar>>

Next ==
  \/ \E d \in 1..Len(headers) :
       AppendMap(d) \/ AppendHeaders(d) \/ \E e \in 1..Len(headers) : Extend(d, e)
  \/ AddNothing \/ AddValues \/ AddName \/ Return

Spec == Init /\ [][Next]_vars

-----------------------------------------------------------------------------
(* Properties *)

Reads(cells, len, given) ==
  /\ \A k \in 1..len : cells[k].name \in Names /\ cells[k].values = given[cells[k].name]
  /\ \A j, k \in 1..len : j < k => cells[j].name < cells[k].name
  /\ \A n \in Names : given[n] # <<>> <=> \E k \in 1..len : cells[k].name = n

\* Every Header ever made holds exactly what it was given, in order, each canonical
\* name once and sorted, whatever was made out of it since ("immutable once
\* created", header.go:87).
ReadsAsGiven ==
  \A d \in 1..Len(headers) : Reads(arrays[headers[d].array], headers[d].len, meant[d])

\* The room that each call reserves suffices for what it adds: otherwise growing in
\* place panics (header.go:57-60).
NeverPanics ==
  Adding /\ New # <<>> /\ (\A k \in 1..target.len : Cells[k].name # Name) =>
    target.len < Len(Cells)
=============================================================================
