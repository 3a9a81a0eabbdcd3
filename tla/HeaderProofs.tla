---------------------------- MODULE HeaderProofs ----------------------------
(***************************************************************************)
(* Theorems about Header, for any names, values and calls.                 *)
(***************************************************************************)
EXTENDS Header, SequenceTheorems, TLAPS

Cell    == [name : Names \cup {0}, values : Seq(Values)]
Meaning == [Names -> Seq(Values)]
Slice   == [array : Nat, len : Nat]

HeaderTypes ==
  /\ arrays \in Seq(Seq(Cell))
  /\ headers \in Seq(Slice) /\ target \in Slice
  /\ meant \in Seq(Meaning) /\ sofar \in Meaning
  /\ Len(meant) = Len(headers)
  /\ todo \in Seq(RawNames \X Seq(Values))
  /\ pc \in {"idle", "adding"}

IsSlice(all, h) == h.array \in 1..Len(all) /\ h.len <= Len(all[h.array])

\* What was made is a slice of an array that holds what the Header was given.
MadeInv ==
  \A d \in 1..Len(headers) :
    IsSlice(arrays, headers[d]) /\ Reads(arrays[headers[d].array], headers[d].len, meant[d])

\* The clone that a call fills has an array of its own, with room for all that the
\* call has still to add, and holds what was added so far.
FillInv ==
  pc = "adding" =>
    /\ IsSlice(arrays, target)
    /\ Reads(Cells, target.len, sofar)
    /\ \A d \in 1..Len(headers) : headers[d].array # target.array
    /\ target.len + Len(todo) <= Len(Cells)

HeaderInv == HeaderTypes /\ MadeInv /\ FillInv

-----------------------------------------------------------------------------
(* Cells *)

LEMMA NamesAreNumbers == Names \subseteq Nat \ {0}
BY HeaderConstants

\* What a name was given, with new values at the end.
Added(more, given, name, new) ==
  more[name] = given[name] \o new /\ \A n \in Names \ {name} : more[n] = given[n]

Appended(longer, cells, len, p, new) ==
  /\ longer[p].name = cells[p].name /\ longer[p].values = cells[p].values \o new
  /\ \A k \in 1..len : k # p => longer[k] = cells[k]

Opened(opened, cells, len, p, name, new) ==
  /\ opened[p].name = name /\ opened[p].values = new
  /\ \A k \in 1..(p - 1) : opened[k] = cells[k]
  /\ \A k \in (p + 1)..(len + 1) : opened[k] = cells[k - 1]

\* The place of a name that is not there yet.
Between(cells, len, p, name) ==
  /\ \A k \in 1..(p - 1) : cells[k].name < name
  /\ \A k \in p..len : name < cells[k].name

\* Values that are appended to those of a name.
LEMMA MoreValues ==
  ASSUME NEW cells, NEW len \in Nat, NEW given \in Meaning, Reads(cells, len, given),
         NEW p \in 1..len, NEW new \in Seq(Values),
         NEW longer, Appended(longer, cells, len, p, new),
         NEW more, Added(more, given, cells[p].name, new)
  PROVE  Reads(longer, len, more)
<1> USE DEF Appended, Added
<1>1. /\ \A j, k \in 1..len : j < k => cells[j].name < cells[k].name
      /\ \A n \in Names : given[n] # <<>> <=> \E k \in 1..len : cells[k].name = n
  BY DEF Reads
<1>2. cells[p].name \in Names /\ cells[p].values = given[cells[p].name]
  BY DEF Reads
<1>3. more[cells[p].name] = longer[p].values
  BY <1>2
<1>4. more[cells[p].name] # <<>>
  <2>1. given[cells[p].name] # <<>> /\ given[cells[p].name] \in Seq(Values)
    BY <1>2 DEF Reads, Meaning
  <2> QED
    BY <2>1, ConcatEqualIffEmpty
<1>5. \A k \in 1..len : k # p => cells[k].name # cells[p].name
  <2> SUFFICES ASSUME NEW k \in 1..len, k # p PROVE cells[k].name # cells[p].name
    OBVIOUS
  <2>1. k < p \/ p < k
    OBVIOUS
  <2>2. cells[k].name \in Nat /\ cells[p].name \in Nat
    BY NamesAreNumbers DEF Reads
  <2>3. cells[k].name < cells[p].name \/ cells[p].name < cells[k].name
    BY <2>1 DEF Reads
  <2> QED
    BY <2>2, <2>3
<1>6. \A k \in 1..len : longer[k].name = cells[k].name
  OBVIOUS
<1>7. \A k \in 1..len : longer[k].name \in Names /\ longer[k].values = more[longer[k].name]
  <2> SUFFICES ASSUME NEW k \in 1..len
               PROVE  longer[k].name \in Names /\ longer[k].values = more[longer[k].name]
    OBVIOUS
  <2>1. cells[k].name \in Names /\ cells[k].values = given[cells[k].name]
    BY DEF Reads
  <2>2. CASE k = p
    BY <1>3, <2>1, <2>2
  <2>3. CASE k # p
    BY <1>5, <2>1, <2>3
  <2> QED
    BY <2>2, <2>3
<1>8. \A n \in Names : more[n] # <<>> <=> \E k \in 1..len : longer[k].name = n
  <2> SUFFICES ASSUME NEW n \in Names
               PROVE  more[n] # <<>> <=> \E k \in 1..len : longer[k].name = n
    OBVIOUS
  <2>1. CASE n = cells[p].name
    BY <1>4, <1>6, <2>1
  <2>2. CASE n # cells[p].name
    BY ZenonT(60), <1>1, <1>6, <2>2
  <2> QED
    BY <2>1, <2>2
<1> QED
  BY <1>1, <1>6, <1>7, <1>8 DEF Reads

\* A name that is put in its place, where no value of another is left behind.
LEMMA MoreNames ==
  ASSUME NEW cells, NEW len \in Nat, NEW given \in Meaning, Reads(cells, len, given),
         NEW name \in Names, NEW new \in Seq(Values), new # <<>>,
         NEW p \in 1..(len + 1),
         Between(cells, len, p, name),
         NEW opened, Opened(opened, cells, len, p, name, new),
         NEW more, Added(more, given, name, new)
  PROVE  Reads(opened, len + 1, more)
<1>1. /\ opened[p].name = name /\ opened[p].values = new
      /\ \A k \in 1..(p - 1) : opened[k] = cells[k]
      /\ \A k \in (p + 1)..(len + 1) : opened[k] = cells[k - 1]
  BY DEF Opened
<1>2. /\ \A k \in 1..len : cells[k].name \in Names /\ cells[k].values = given[cells[k].name]
      /\ \A j, k \in 1..len : j < k => cells[j].name < cells[k].name
      /\ \A n \in Names : given[n] # <<>> <=> \E k \in 1..len : cells[k].name = n
  BY DEF Reads
<1> HIDE DEF Reads
<1>3. \A k \in 1..len : cells[k].name # name
  <2> SUFFICES ASSUME NEW k \in 1..len PROVE cells[k].name # name
    OBVIOUS
  <2>1. cells[k].name \in Nat /\ name \in Nat
    BY <1>2, NamesAreNumbers
  <2>2. k \in 1..(p - 1) \/ k \in p..len
    OBVIOUS
  <2> QED
    BY <2>1, <2>2 DEF Between
<1>4. more[name] = new /\ \A n \in Names \ {name} : more[n] = given[n]
  <2>1. given[name] = <<>>
    BY <1>2, <1>3
  <2> QED
    BY <2>1, ConcatEmptySeq DEF Added
<1>5. ASSUME NEW k \in 1..(len + 1)
      PROVE  opened[k].name \in Names /\ opened[k].values = more[opened[k].name]
  <2>1. CASE k = p
    BY <1>1, <1>4, <2>1
  <2>2. CASE k \in 1..(p - 1)
    BY <1>1, <1>2, <1>3, <1>4, <2>2
  <2>3. CASE k \in (p + 1)..(len + 1)
    <3>1. k - 1 \in 1..len
      BY <2>3
    <3> QED
      BY <1>1, <1>2, <1>3, <1>4, <2>3, <3>1
  <2> QED
    BY <2>1, <2>2, <2>3
<1>6. ASSUME NEW j \in 1..(len + 1), NEW k \in 1..(len + 1), j < k
      PROVE  opened[j].name < opened[k].name
  <2>1. CASE k \in 1..(p - 1)
    BY <1>1, <1>2, <1>6, <2>1
  <2>2. CASE k = p
    BY <1>1, <1>6, <2>2 DEF Between
  <2>3. CASE k \in (p + 1)..(len + 1)
    <3>1. k - 1 \in 1..len /\ k - 1 \in p..len /\ opened[k] = cells[k - 1]
      BY <1>1, <2>3
    <3>2. CASE j = p
      <4>1. name < cells[k - 1].name
        BY <3>1 DEF Between
      <4> QED
        BY <1>1, <3>1, <3>2, <4>1
    <3>3. CASE j \in 1..(p - 1)
      <4>1. j \in 1..len /\ j < k - 1
        BY <2>3, <3>3
      <4> QED
        BY <1>1, <1>2, <3>1, <3>3, <4>1
    <3>4. CASE j \in (p + 1)..(len + 1)
      <4>1. j - 1 \in 1..len /\ j - 1 < k - 1
        BY <1>6, <3>4
      <4> QED
        BY <1>1, <1>2, <3>1, <3>4, <4>1
    <3> QED
      BY <3>2, <3>3, <3>4
  <2> QED
    BY <2>1, <2>2, <2>3
<1>7. ASSUME NEW n \in Names
      PROVE  more[n] # <<>> <=> \E k \in 1..(len + 1) : opened[k].name = n
  <2>1. CASE n = name
    BY <1>1, <1>4, <2>1
  <2>2. CASE n # name
    <3>1. more[n] = given[n]
      BY <1>4, <2>2
    <3>2. ASSUME NEW k \in 1..len, cells[k].name = n
          PROVE  \E m \in 1..(len + 1) : opened[m].name = n
      <4>1. CASE k \in 1..(p - 1)
        BY <1>1, <3>2, <4>1
      <4>2. CASE k \in p..len
        <5>1. k + 1 \in (p + 1)..(len + 1) /\ k + 1 \in 1..(len + 1) /\ (k + 1) - 1 = k
          BY <4>2
        <5>2. opened[k + 1] = cells[k]
          BY <1>1, <5>1
        <5> QED
          BY <3>2, <5>1, <5>2
      <4>3. k \in 1..(p - 1) \/ k \in p..len
        OBVIOUS
      <4> QED
        BY <4>1, <4>2, <4>3
    <3>3. ASSUME NEW k \in 1..(len + 1), opened[k].name = n
          PROVE  \E m \in 1..len : cells[m].name = n
      <4>1. CASE k \in 1..(p - 1)
        <5>1. k \in 1..len /\ opened[k] = cells[k]
          BY <1>1, <4>1
        <5> QED
          BY <3>3, <5>1
      <4>2. CASE k \in (p + 1)..(len + 1)
        <5>1. k - 1 \in 1..len
          BY <4>2
        <5>2. opened[k] = cells[k - 1]
          BY <1>1, <4>2
        <5> QED
          BY <3>3, <5>1, <5>2
      <4>3. CASE k = p
        BY <1>1, <2>2, <3>3, <4>3
      <4>4. k \in 1..(p - 1) \/ k = p \/ k \in (p + 1)..(len + 1)
        OBVIOUS
      <4> QED
        BY <4>1, <4>2, <4>3, <4>4
    <3> QED
      BY <1>2, <3>1, <3>2, <3>3
  <2> QED
    BY <2>1, <2>2
<1> QED
  BY <1>5, <1>6, <1>7 DEF Reads
-----------------------------------------------------------------------------
(* Steps *)

LEMMA StartMade == Init => HeaderInv
<1> SUFFICES ASSUME Init PROVE HeaderInv
  OBVIOUS
<1> DEFINE none == [n \in Names |-> <<>>]
           slice == [array |-> 1, len |-> 0]
<1>1. /\ arrays = << <<>> >> /\ headers = <<slice>> /\ meant = <<none>>
      /\ target = headers[1] /\ sofar = meant[1] /\ todo = <<>> /\ pc = "idle"
  BY DEF Init
<1>2. none \in Meaning /\ slice \in Slice
  BY EmptySeq DEF Meaning, Slice
<1>3. <<>> \in Seq(Cell) /\ Len(<<>>) = 0
  BY EmptySeq
<1>4. Reads(<<>>, 0, none)
  BY DEF Reads
<1> HIDE DEF none
<1>5. HeaderTypes
  BY <1>1, <1>2, <1>3, EmptySeq DEF HeaderTypes
<1>6. MadeInv
  BY <1>1, <1>3, <1>4 DEF MadeInv, IsSlice
<1> QED
  BY <1>1, <1>5, <1>6 DEF HeaderInv, FillInv

\* What a call clones, and what it finds in the arrays.
LEMMA ArraysTyped ==
  ASSUME HeaderTypes
  PROVE  /\ Len(arrays) \in Nat /\ Len(headers) \in Nat /\ Len(todo) \in Nat
         /\ \A a \in 1..Len(arrays) : arrays[a] \in Seq(Cell) /\ Len(arrays[a]) \in Nat
         /\ \A d \in 1..Len(headers) : headers[d] \in Slice /\ meant[d] \in Meaning
BY LenProperties, ElementOfSeq DEF HeaderTypes

LEMMA CallKeeps ==
  ASSUME HeaderInv, NEW d \in 1..Len(headers),
         NEW pairs \in Seq(RawNames \X Seq(Values)),
         NEW minCap \in Nat, headers[d].len + Len(pairs) <= minCap,
         Call(d, pairs, minCap)
  PROVE  HeaderInv'
<1> DEFINE h     == headers[d]
           cap   == IF h.len < minCap THEN minCap ELSE h.len
           cells == arrays[h.array]
           grown == Grown(h, cap)
<1>1. HeaderTypes /\ MadeInv
  BY DEF HeaderInv
<1>2. /\ h \in Slice /\ h.array \in 1..Len(arrays) /\ h.len <= Len(cells)
      /\ cells \in Seq(Cell) /\ Len(cells) \in Nat /\ Len(arrays) \in Nat
      /\ Reads(cells, h.len, meant[d]) /\ meant[d] \in Meaning
  BY <1>1, ArraysTyped DEF MadeInv, IsSlice
<1>3. h.len \in Nat /\ cap \in Nat /\ h.len <= cap /\ minCap <= cap /\ Len(pairs) \in Nat
  BY <1>2, LenProperties DEF Slice
<1>4. \A k \in 1..Len(cells) : cells[k] \in Cell
  BY <1>2, ElementOfSeq
<1>5. /\ arrays' = Append(arrays, grown) /\ target' = [h EXCEPT !.array = Len(arrays) + 1]
      /\ headers' = headers /\ meant' = meant /\ todo' = pairs /\ sofar' = meant[d]
      /\ pc' = "adding"
  BY DEF Call, Clone
<1> HIDE DEF h, cap
<1>6. grown = [k \in 1..cap |-> IF k <= h.len THEN cells[k] ELSE Unused]
  BY DEF Grown
<1> HIDE DEF cells
<1>7. grown \in Seq(Cell) /\ Len(grown) = cap /\ \A k \in 1..h.len : grown[k] = cells[k]
  <2>1. Unused \in Cell
    BY EmptySeq DEF Unused, Cell
  <2>2. \A k \in 1..cap : grown[k] \in Cell
    BY <1>2, <1>3, <1>4, <1>6, <2>1
  <2> QED
    BY <1>3, <1>6, <2>2
<1>8. Reads(grown, h.len, meant[d])
  BY <1>2, <1>7, ZenonT(60) DEF Reads
<1> HIDE DEF grown
<1>9. /\ arrays' \in Seq(Seq(Cell)) /\ Len(arrays') = Len(arrays) + 1
      /\ \A a \in 1..Len(arrays) : arrays'[a] = arrays[a]
      /\ arrays'[Len(arrays) + 1] = grown
  BY <1>1, <1>5, <1>7, AppendProperties DEF HeaderTypes
<1>10. target' \in Slice /\ target'.array = Len(arrays) + 1 /\ target'.len = h.len
  <2>1. Len(arrays) + 1 \in Nat
    BY <1>2
  <2> DEFINE fresh == Len(arrays) + 1
  <2>2. fresh \in Nat
    BY <2>1
  <2>3. target' = [h EXCEPT !.array = fresh]
    BY <1>5
  <2> HIDE DEF fresh
  <2>4. target' \in Slice /\ target'.array = fresh /\ target'.len = h.len
    BY <1>2, <2>2, <2>3 DEF Slice
  <2> QED
    BY <2>4 DEF fresh
<1>11. HeaderTypes'
  BY <1>1, <1>2, <1>5, <1>9, <1>10 DEF HeaderTypes
<1>12. \A e \in 1..Len(headers) : headers[e].array \in 1..Len(arrays)
  BY <1>1 DEF MadeInv, IsSlice
<1>13. MadeInv'
  <2> SUFFICES ASSUME NEW e \in 1..Len(headers)
               PROVE  IsSlice(arrays', headers[e]) /\ Reads(arrays'[headers[e].array], headers[e].len, meant[e])
    BY <1>5 DEF MadeInv
  <2>1. IsSlice(arrays, headers[e]) /\ Reads(arrays[headers[e].array], headers[e].len, meant[e])
    BY <1>1 DEF MadeInv
  <2>2. arrays'[headers[e].array] = arrays[headers[e].array]
    BY <1>9, <1>12
  <2>3. Reads(arrays'[headers[e].array], headers[e].len, meant[e])
    BY <2>1, <2>2
  <2>4. IsSlice(arrays', headers[e])
    BY <1>2, <1>5, <1>9, <1>12, <2>1, <2>2, SMTT(60) DEF IsSlice
  <2> QED
    BY <2>3, <2>4
<1>14. FillInv'
  BY <1>2, <1>3, <1>5, <1>7, <1>8, <1>9, <1>10, <1>12, SMTT(60) DEF FillInv, IsSlice, Cells, h
<1> QED
  BY <1>11, <1>13, <1>14 DEF HeaderInv

\* A step of headers.add changes the clone's array, and nothing that others have.
LEMMA AddKeeps ==
  ASSUME HeaderInv, Adding, NEW cells \in Seq(Cell), Len(cells) = Len(Cells),
         arrays' = [arrays EXCEPT ![target.array] = cells],
         target' \in Slice, target'.array = target.array,
         target'.len \in {target.len, target.len + 1},
         sofar' \in Meaning, Reads(cells, target'.len, sofar'),
         todo' = Tail(todo), UNCHANGED <<headers, meant, pc>>
  PROVE  HeaderInv'
<1>1. HeaderTypes /\ MadeInv /\ pc = "adding" /\ todo # <<>>
  BY DEF HeaderInv, Adding
<1>2. /\ target.array \in 1..Len(arrays) /\ target.len + Len(todo) <= Len(Cells)
      /\ \A d \in 1..Len(headers) : headers[d].array # target.array
  BY <1>1 DEF HeaderInv, FillInv, IsSlice
<1>3. /\ arrays' \in Seq(Seq(Cell)) /\ Len(arrays') = Len(arrays)
      /\ \A a \in 1..Len(arrays) : arrays'[a] = IF a = target.array THEN cells ELSE arrays[a]
  BY <1>1, <1>2, ExceptSeq DEF HeaderTypes
<1>4. /\ todo' \in Seq(RawNames \X Seq(Values)) /\ Len(todo') = Len(todo) - 1
      /\ Len(todo) \in Nat /\ Len(todo) >= 1
  BY <1>1, HeadTailProperties, EmptySeq DEF HeaderTypes
<1>5. HeaderTypes'
  BY <1>1, <1>3, <1>4 DEF HeaderTypes
<1>6. MadeInv'
  BY <1>1, <1>2, <1>3 DEF MadeInv, IsSlice
<1>7. target.len \in Nat /\ Len(Cells) \in Nat
  BY <1>1, <1>2, ArraysTyped DEF HeaderTypes, Slice, Cells
<1>8. Cells' = cells
  BY <1>2, <1>3 DEF Cells
<1>9. FillInv'
  BY <1>1, <1>2, <1>3, <1>4, <1>7, <1>8 DEF FillInv, IsSlice
<1> QED
  BY <1>5, <1>6, <1>9 DEF HeaderInv
\* What headers.add works with.
LEMMA AddingTyped ==
  ASSUME HeaderInv, Adding
  PROVE  /\ Name \in Names /\ New \in Seq(Values)
         /\ Cells \in Seq(Cell) /\ Len(Cells) \in Nat
         /\ target \in Slice /\ target.len \in Nat /\ target.len <= Len(Cells)
         /\ sofar \in Meaning /\ Reads(Cells, target.len, sofar)
         /\ Len(todo) \in Nat /\ Len(todo) >= 1 /\ target.len + Len(todo) <= Len(Cells)
<1>1. HeaderTypes /\ FillInv /\ pc = "adding" /\ todo # <<>>
  BY DEF HeaderInv, Adding
<1>2. Len(todo) \in Nat /\ Len(todo) >= 1
  BY <1>1, EmptySeq DEF HeaderTypes
<1>3. todo[1] \in RawNames \X Seq(Values)
  BY <1>1, <1>2, ElementOfSeq DEF HeaderTypes
<1>4. Name \in Names /\ New \in Seq(Values)
  BY <1>3, HeaderConstants DEF Name, New
<1>5. Cells \in Seq(Cell) /\ Len(Cells) \in Nat
  BY <1>1, ArraysTyped DEF FillInv, IsSlice, Cells
<1>6. target \in Slice /\ target.len \in Nat /\ sofar \in Meaning
  BY <1>1 DEF HeaderTypes, Slice
<1>7. /\ target.len <= Len(Cells) /\ Reads(Cells, target.len, sofar)
      /\ target.len + Len(todo) <= Len(Cells)
  BY <1>1 DEF FillInv, IsSlice, Cells
<1> QED
  BY <1>2, <1>4, <1>5, <1>6, <1>7

LEMMA GivenMore ==
  ASSUME HeaderInv, Adding, Given
  PROVE  sofar' \in Meaning /\ Added(sofar', sofar, Name, New)
<1>1. Name \in Names /\ New \in Seq(Values) /\ sofar \in Meaning
  BY AddingTyped
<1>2. sofar[Name] \o New \in Seq(Values)
  BY <1>1, ConcatProperties DEF Meaning
<1> QED
  BY <1>1, <1>2 DEF Given, Meaning, Added

LEMMA AddValuesKeeps ==
  ASSUME HeaderInv, AddValues
  PROVE  HeaderInv'
<1>1. Adding /\ Given /\ todo' = Tail(todo) /\ UNCHANGED <<headers, meant, pc, target>>
  BY DEF AddValues
<1>2. PICK p \in 1..(target.len + 1) :
        /\ IsThere(p)
        /\ arrays' = [arrays EXCEPT ![target.array][p].values = @ \o New]
  BY DEF AddValues
<1> DEFINE cells == [Cells EXCEPT ![p].values = @ \o New]
<1>3. /\ New \in Seq(Values) /\ Cells \in Seq(Cell) /\ target \in Slice
      /\ target.len \in Nat /\ target.len <= Len(Cells)
      /\ sofar \in Meaning /\ Reads(Cells, target.len, sofar)
  BY <1>1, AddingTyped
<1>4. p \in 1..target.len /\ Cells[p].name = Name
  BY <1>2, <1>3 DEF IsThere
<1>5. sofar' \in Meaning /\ Added(sofar', sofar, Cells[p].name, New)
  BY <1>1, <1>4, GivenMore
<1>6. arrays' = [arrays EXCEPT ![target.array] = cells]
  BY <1>2 DEF Cells
<1>7. /\ cells \in Seq(Cell) /\ Len(cells) = Len(Cells)
      /\ Appended(cells, Cells, target.len, p, New)
  <2> DEFINE cell == [Cells[p] EXCEPT !.values = @ \o New]
  <2>1. p \in 1..Len(Cells) /\ Cells[p] \in Cell
    BY <1>3, <1>4, LenProperties, ElementOfSeq
  <2>2. cell \in Cell /\ cell.name = Cells[p].name /\ cell.values = Cells[p].values \o New
    BY <1>3, <2>1, ConcatProperties DEF Cell
  <2>3. cells = [Cells EXCEPT ![p] = cell]
    OBVIOUS
  <2> HIDE DEF cell
  <2>4. [Cells EXCEPT ![p] = cell] \in Seq(Cell) /\ Len([Cells EXCEPT ![p] = cell]) = Len(Cells)
        /\ \A k \in 1..Len(Cells) : [Cells EXCEPT ![p] = cell][k] = IF k = p THEN cell ELSE Cells[k]
    BY <1>3, <2>1, <2>2, ExceptSeq
  <2> HIDE DEF cells
  <2> QED
    BY <1>3, <2>1, <2>2, <2>3, <2>4, LenProperties DEF Appended
<1> HIDE DEF cells
<1>8. Reads(cells, target.len, sofar')
  BY <1>3, <1>4, <1>5, <1>7, MoreValues
<1> QED
  BY <1>1, <1>3, <1>5, <1>6, <1>7, <1>8, AddKeeps

LEMMA AddNameKeeps ==
  ASSUME HeaderInv, AddName
  PROVE  HeaderInv'
<1>1. /\ Adding /\ Given /\ todo' = Tail(todo) /\ UNCHANGED <<headers, meant, pc>>
      /\ New # <<>> /\ target.len < Len(Cells) /\ target' = [target EXCEPT !.len = @ + 1]
  BY DEF AddName
<1>2. PICK p \in 1..(target.len + 1) :
        IsPlace(p) /\ ~IsThere(p) /\ arrays' = [arrays EXCEPT ![target.array] = Open(p)]
  BY DEF AddName
<1>3. /\ Name \in Names /\ New \in Seq(Values) /\ Cells \in Seq(Cell) /\ target \in Slice
      /\ target.len \in Nat /\ sofar \in Meaning /\ Reads(Cells, target.len, sofar)
  BY <1>1, AddingTyped
<1>4. \A k \in 1..(p - 1) : Cells[k].name < Name
  BY <1>2 DEF IsPlace
<1>5. ASSUME NEW k \in p..target.len PROVE Name < Cells[k].name
  <2>1. p \in 1..target.len /\ k \in 1..target.len
    BY <1>3
  <2>2. Name \in Nat /\ Cells[p].name \in Nat /\ Cells[k].name \in Nat
    BY <1>3, <2>1, NamesAreNumbers DEF Reads
  <2>3. Name < Cells[p].name
    BY <1>2, <1>3, <2>1, <2>2 DEF IsPlace, IsThere
  <2>4. k = p \/ Cells[p].name < Cells[k].name
    BY <1>3, <2>1 DEF Reads
  <2> QED
    BY <2>2, <2>3, <2>4
<1>6. Between(Cells, target.len, p, Name)
  BY <1>4, <1>5 DEF Between
<1>7. sofar' \in Meaning /\ Added(sofar', sofar, Name, New)
  BY <1>1, GivenMore
<1>8. /\ Open(p) \in Seq(Cell) /\ Len(Open(p)) = Len(Cells)
      /\ Reads(Open(p), target.len + 1, sofar')
  <2> DEFINE opened == Open(p)
  <2>1. Len(Cells) \in Nat /\ \A k \in 1..Len(Cells) : Cells[k] \in Cell
    BY <1>3, LenProperties, ElementOfSeq
  <2>2. \A k \in 1..Len(Cells) : opened[k] \in Cell
    BY <1>3, <2>1 DEF Open, Cell
  <2>3. opened \in Seq(Cell) /\ Len(opened) = Len(Cells)
    BY <2>1, <2>2 DEF Open
  <2>4. Opened(opened, Cells, target.len, p, Name, New)
    BY <1>1, <1>3, <2>1 DEF Open, Opened
  <2> HIDE DEF opened
  <2>5. Reads(opened, target.len + 1, sofar')
    BY <1>1, <1>3, <1>7, <1>6, <2>4, MoreNames
  <2> QED
    BY <2>3, <2>5 DEF opened
<1>9. target' \in Slice /\ target'.array = target.array /\ target'.len = target.len + 1
  BY <1>1, <1>3 DEF Slice
<1> QED
  BY <1>1, <1>2, <1>7, <1>8, <1>9, AddKeeps

LEMMA AddNothingKeeps ==
  ASSUME HeaderInv, AddNothing
  PROVE  HeaderInv'
<1>1. /\ Adding /\ todo' = Tail(todo)
      /\ UNCHANGED <<arrays, headers, meant, pc, target, sofar>>
  BY DEF AddNothing
<1>2. todo' \in Seq(RawNames \X Seq(Values)) /\ Len(todo') = Len(todo) - 1
  BY <1>1, HeadTailProperties DEF HeaderInv, HeaderTypes, Adding
<1>3. target.len \in Nat /\ Len(todo) \in Nat /\ Len(Cells) \in Nat
  BY <1>1, AddingTyped
<1> QED
  BY <1>1, <1>2, <1>3, SMTT(60) DEF HeaderInv, HeaderTypes, MadeInv, FillInv, IsSlice, Cells

LEMMA ReturnKeeps ==
  ASSUME HeaderInv, Return
  PROVE  HeaderInv'
<1>1. /\ pc = "adding" /\ pc' = "idle" /\ UNCHANGED <<arrays, target, todo, sofar>>
      /\ headers' = Append(headers, target) /\ meant' = Append(meant, sofar)
  BY DEF Return
<1>2. HeaderTypes /\ MadeInv /\ FillInv
  BY DEF HeaderInv
<1>3. Len(headers) \in Nat /\ Len(meant) = Len(headers)
  BY <1>2, ArraysTyped DEF HeaderTypes
<1>4. /\ headers' \in Seq(Slice) /\ Len(headers') = Len(headers) + 1
      /\ headers'[Len(headers) + 1] = target
      /\ \A d \in 1..Len(headers) : headers'[d] = headers[d]
  BY <1>1, <1>2, AppendProperties DEF HeaderTypes
<1>5. /\ meant' \in Seq(Meaning) /\ Len(meant') = Len(headers) + 1
      /\ meant'[Len(headers) + 1] = sofar
      /\ \A d \in 1..Len(headers) : meant'[d] = meant[d]
  BY <1>1, <1>2, AppendProperties DEF HeaderTypes
<1>6. HeaderTypes'
  BY <1>1, <1>2, <1>4, <1>5 DEF HeaderTypes
<1>7. MadeInv'
  <2> SUFFICES ASSUME NEW d \in 1..(Len(headers) + 1)
               PROVE  /\ IsSlice(arrays, headers'[d])
                      /\ Reads(arrays[headers'[d].array], headers'[d].len, meant'[d])
    BY <1>1, <1>4 DEF MadeInv, IsSlice
  <2>1. CASE d \in 1..Len(headers)
    BY <1>1, <1>2, <1>4, <1>5, <2>1 DEF MadeInv, IsSlice
  <2>2. CASE d = Len(headers) + 1
    BY <1>1, <1>2, <1>4, <1>5, <2>2 DEF FillInv, IsSlice, Cells
  <2> QED
    BY <1>3, <2>1, <2>2
<1> QED
  BY <1>1, <1>6, <1>7 DEF HeaderInv, FillInv
LEMMA AppendMapKeeps ==
  ASSUME HeaderInv, NEW d \in 1..Len(headers), AppendMap(d)
  PROVE  HeaderInv'
<1>1. PICK more \in Maps \ {<<>>} : Call(d, more, headers[d].len + Len(more))
  BY DEF AppendMap
<1>2. more \in Seq(RawNames \X Seq(Values)) /\ Len(more) \in Nat
  BY HeaderConstants, LenProperties
<1> DEFINE room == headers[d].len + Len(more)
<1>3. headers[d].len \in Nat
  BY ArraysTyped DEF HeaderInv, Slice
<1>4. room \in Nat /\ headers[d].len + Len(more) <= room
  BY <1>2, <1>3
<1>5. Call(d, more, room)
  BY <1>1
<1> HIDE DEF room
<1> QED
  BY <1>2, <1>4, <1>5, CallKeeps

\* The room for an odd list suffices too.
LEMMA PairsTyped ==
  ASSUME NEW list \in Lists
  PROVE  /\ Pairs(list) \in Seq(RawNames \X Seq(Values))
         /\ WorstCase(list) \in Nat /\ Len(Pairs(list)) <= WorstCase(list)
<1> DEFINE half == (Len(list) + 1) \div 2
           pair(k) == <<list[2 * k - 1], IF 2 * k <= Len(list) THEN <<list[2 * k]>> ELSE <<Blank>> >>
<1>1. Len(list) \in Nat
  BY HeaderConstants, LenProperties
<1>2. half \in Nat /\ half <= WorstCase(list) /\ WorstCase(list) \in Nat
  BY <1>1 DEF WorstCase
<1>3. \A k \in 1..half : pair(k) \in RawNames \X Seq(Values)
  <2> SUFFICES ASSUME NEW k \in 1..half PROVE pair(k) \in RawNames \X Seq(Values)
    OBVIOUS
  <2>1. 2 * k - 1 \in 1..Len(list) /\ (2 * k - 1) % 2 = 1 /\ (2 * k) % 2 = 0 /\ 2 * k \in Nat /\ 2 * k >= 1
    BY <1>1
  <2>2. list[2 * k - 1] \in RawNames
    BY <2>1, HeaderConstants
  <2>3. 2 * k <= Len(list) => list[2 * k] \in Values
    <3>1. 2 * k <= Len(list) => 2 * k \in 1..Len(list)
      BY <1>1, <2>1
    <3>2. (2 * k) % 2 # 1
      BY <2>1
    <3> QED
      BY <3>1, <3>2, HeaderConstants
  <2>4. \A v \in Values : <<v>> \in Seq(Values)
    OBVIOUS
  <2> QED
    BY <2>2, <2>3, <2>4, HeaderConstants
<1>4. Pairs(list) = [k \in 1..half |-> pair(k)]
  BY DEF Pairs
<1> HIDE DEF half, pair
<1>5. Pairs(list) \in Seq(RawNames \X Seq(Values)) /\ Len(Pairs(list)) = half
  BY <1>2, <1>3, <1>4
<1> QED
  BY <1>2, <1>5

LEMMA AppendHeadersKeeps ==
  ASSUME HeaderInv, NEW d \in 1..Len(headers), AppendHeaders(d)
  PROVE  HeaderInv'
<1>1. PICK list \in Lists \ {<<>>} :
        Call(d, Pairs(list), headers[d].len + WorstCase(list))
  BY DEF AppendHeaders
<1>2. /\ Pairs(list) \in Seq(RawNames \X Seq(Values)) /\ Len(Pairs(list)) \in Nat
      /\ WorstCase(list) \in Nat /\ Len(Pairs(list)) <= WorstCase(list)
  BY PairsTyped, LenProperties
<1>3. headers[d].len \in Nat
  BY ArraysTyped DEF HeaderInv, Slice
<1> DEFINE pairs  == Pairs(list)
           worst  == WorstCase(list)
           minCap == headers[d].len + worst
<1>4. Call(d, pairs, minCap)
  BY <1>1
<1>5. pairs \in Seq(RawNames \X Seq(Values)) /\ Len(pairs) \in Nat
  BY <1>2
<1>6. minCap \in Nat /\ headers[d].len + Len(pairs) <= minCap
  <2>1. worst \in Nat /\ Len(pairs) <= worst
    BY <1>2
  <2> HIDE DEF pairs, worst
  <2> QED
    BY <1>3, <1>5, <2>1
<1> HIDE DEF pairs, minCap
<1> QED
  BY <1>4, <1>5, <1>6, CallKeeps

LEMMA ExtendKeeps ==
  ASSUME HeaderInv, NEW d \in 1..Len(headers), NEW e \in 1..Len(headers), Extend(d, e)
  PROVE  HeaderInv'
<1> DEFINE len   == headers[e].len
           cells == arrays[headers[e].array]
           more  == Grown(headers[e], len)
           pairs == [k \in DOMAIN more |-> <<more[k].name, more[k].values>>]
<1>1. Call(d, pairs, headers[d].len + len)
  BY DEF Extend
<1>2. /\ headers[d].len \in Nat /\ len \in Nat /\ len <= Len(cells)
      /\ cells \in Seq(Cell) /\ Len(cells) \in Nat /\ Reads(cells, len, meant[e])
  BY ArraysTyped DEF HeaderInv, MadeInv, IsSlice, Slice
<1>3. \A k \in 1..len : cells[k] \in Cell /\ cells[k].name \in Names
  BY <1>2, ElementOfSeq DEF Reads
<1>4. DOMAIN more = 1..len /\ \A k \in 1..len : more[k] = cells[k]
  BY <1>2 DEF Grown
<1> HIDE DEF more, cells, len
<1>5. \A k \in 1..len : <<more[k].name, more[k].values>> \in RawNames \X Seq(Values)
  BY <1>3, <1>4, HeaderConstants DEF Cell
<1>6. pairs = [k \in 1..len |-> <<more[k].name, more[k].values>>]
  BY <1>4
<1> HIDE DEF pairs
<1>7. pairs \in Seq(RawNames \X Seq(Values)) /\ Len(pairs) = len
  BY <1>2, <1>5, <1>6
<1> QED
  BY <1>1, <1>2, <1>7, CallKeeps

THEOREM HeaderInvariant == Spec => []HeaderInv
<1>1. Init => HeaderInv
  BY StartMade
<1>2. HeaderInv /\ [Next]_vars => HeaderInv'
  <2> SUFFICES ASSUME HeaderInv, [Next]_vars PROVE HeaderInv'
    OBVIOUS
  <2>1. CASE UNCHANGED vars
    BY <2>1 DEF vars, HeaderInv, HeaderTypes, MadeInv, FillInv, IsSlice, Cells
  <2>2. CASE AddNothing \/ AddValues \/ AddName \/ Return
    BY <2>2, AddNothingKeeps, AddValuesKeeps, AddNameKeeps, ReturnKeeps
  <2>3. ASSUME NEW d \in 1..Len(headers), NEW e \in 1..Len(headers),
               AppendMap(d) \/ AppendHeaders(d) \/ Extend(d, e)
        PROVE  HeaderInv'
    BY <2>3, AppendMapKeeps, AppendHeadersKeeps, ExtendKeeps
  <2> QED
    BY <2>1, <2>2, <2>3 DEF Next
<1> QED
  BY <1>1, <1>2, PTL DEF Spec

-----------------------------------------------------------------------------
(* Results *)

\* Every Header reads as it was made, however many others were made out of it: each
\* name once, sorted, with all its values in the order in which they were given.
THEOREM HeadersAreImmutable == Spec => []ReadsAsGiven
<1>1. HeaderInv => ReadsAsGiven
  BY DEF HeaderInv, MadeInv, ReadsAsGiven
<1> QED
  BY <1>1, HeaderInvariant, PTL

\* No call outgrows the room it has reserved.
THEOREM RoomSuffices == Spec => []NeverPanics
<1>1. HeaderInv => NeverPanics
  <2> SUFFICES ASSUME HeaderInv, Adding PROVE target.len < Len(Cells)
    BY DEF NeverPanics
  <2> QED
    BY AddingTyped
<1> QED
  BY <1>1, HeaderInvariant, PTL
=============================================================================
