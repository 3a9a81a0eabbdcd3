---------------------------- MODULE EncoderProofs ----------------------------
(***************************************************************************)
(* Theorems about Encoder: what an Encode answers, and that Add disturbs   *)
(* no encoder but those that branch off from the one it makes.             *)
(***************************************************************************)
EXTENDS Encoder, SequenceTheorems, WellFoundedInduction, TLAPS

-----------------------------------------------------------------------------
(* Sequences *)

LEMMA Least ==
  ASSUME NEW T, T \subseteq Nat, T # {}
  PROVE  \E least \in T : \A n \in T : least <= n
<1> DEFINE Below == {pair \in Nat \X Nat : pair[1] < pair[2]}
<1>1. IsWellFoundedOn(Below, Nat)
  BY NatLessThanWellFounded, Zenon DEF OpToRel
<1>2. PICK least \in T : \A n \in T : ~(<<n, least>> \in Below)
  <2> HIDE DEF Below
  <2> QED
    BY <1>1, WFMin
<1>3. \A n \in T : ~(n < least) /\ n \in Nat
  BY <1>2
<1> QED
  BY <1>3

\* A sequence is one of its own elements.
LEMMA SequencesAreSequences ==
  ASSUME NEW S, NEW s \in Seq(S)
  PROVE  /\ IsSequence(s)
         /\ Len(s) \in Nat /\ DOMAIN s = 1..Len(s)
<1>1. /\ Len(s) \in Nat /\ DOMAIN s = 1..Len(s)
      /\ s \in [1..Len(s) -> S]
  BY LenProperties
<1>2. s \in [1..Len(s) -> Range(s)]
  BY <1>1 DEF Range
<1>3. s \in Seq(Range(s))
  BY <1>1, <1>2
<1> QED
  BY <1>1, <1>3 DEF IsSequence

LEMMA SequenceLength ==
  ASSUME NEW s, IsSequence(s)
  PROVE  Len(s) \in Nat /\ DOMAIN s = 1..Len(s)
BY SequencesAreSequences DEF IsSequence

LEMMA Appending ==
  ASSUME NEW s, NEW x, IsSequence(s)
  PROVE  /\ IsSequence(Append(s, x))
         /\ Len(Append(s, x)) = Len(s) + 1
         /\ \A i \in 1..Len(s) : Append(s, x)[i] = s[i]
         /\ Append(s, x)[Len(s) + 1] = x
<1> DEFINE S == Range(s) \cup {x}
<1>1. s \in Seq(S)
  BY SeqMonotonic DEF IsSequence
<1>2. x \in S
  OBVIOUS
<1> HIDE DEF S
<1>3. /\ Append(s, x) \in Seq(S) /\ Len(Append(s, x)) = Len(s) + 1
      /\ \A i \in 1..Len(s) : Append(s, x)[i] = s[i]
      /\ Append(s, x)[Len(s) + 1] = x
  BY <1>1, <1>2, AppendProperties
<1> QED
  BY <1>3, SequencesAreSequences

LEMMA Joining ==
  ASSUME NEW s, NEW t, IsSequence(s), IsSequence(t)
  PROVE  /\ IsSequence(s \o t)
         /\ Len(s \o t) = Len(s) + Len(t)
         /\ \A i \in 1..Len(s) : (s \o t)[i] = s[i]
<1> DEFINE S == Range(s) \cup Range(t)
<1>1. s \in Seq(S) /\ t \in Seq(S)
  BY SeqMonotonic DEF IsSequence
<1> HIDE DEF S
<1>2. /\ s \o t \in Seq(S) /\ Len(s \o t) = Len(s) + Len(t)
      /\ \A i \in 1 .. Len(s) + Len(t) :
           (s \o t)[i] = IF i <= Len(s) THEN s[i] ELSE t[i - Len(s)]
  BY <1>1, ConcatProperties
<1>3. Len(s) \in Nat /\ Len(t) \in Nat
  BY SequenceLength
<1>4. \A i \in 1..Len(s) : (s \o t)[i] = s[i]
  BY <1>2, <1>3
<1>5. IsSequence(s \o t)
  BY <1>2, SequencesAreSequences
<1> QED
  BY <1>2, <1>4, <1>5

LEMMA Writing ==
  ASSUME NEW s, NEW k, NEW x, IsSequence(s), k \in 1..Len(s)
  PROVE  /\ IsSequence([s EXCEPT ![k] = x])
         /\ Len([s EXCEPT ![k] = x]) = Len(s)
         /\ \A i \in 1..Len(s) : [s EXCEPT ![k] = x][i] = IF i = k THEN x ELSE s[i]
<1> DEFINE S == Range(s) \cup {x}
<1>1. s \in Seq(S)
  BY SeqMonotonic DEF IsSequence
<1>2. x \in S
  OBVIOUS
<1> HIDE DEF S
<1>3. /\ [s EXCEPT ![k] = x] \in Seq(S) /\ Len([s EXCEPT ![k] = x]) = Len(s)
      /\ \A i \in 1..Len(s) : [s EXCEPT ![k] = x][i] = IF i = k THEN x ELSE s[i]
  BY <1>1, <1>2, ExceptSeq
<1> QED
  BY <1>3, SequencesAreSequences

\* A prefix agrees with the sequence entry by entry, and the other way round.
LEMMA PrefixByEntry ==
  ASSUME NEW s, NEW t, IsSequence(s), IsSequence(t)
  PROVE  IsPrefix(s, t) <=> Len(s) <= Len(t) /\ \A i \in 1..Len(s) : s[i] = t[i]
<1> DEFINE S == Range(s) \cup Range(t)
<1>1. s \in Seq(S) /\ t \in Seq(S)
  BY SeqMonotonic DEF IsSequence
<1> HIDE DEF S
<1>2. Len(s) \in Nat /\ Len(t) \in Nat
  BY SequenceLength
<1>3. SubSeq(s, 1, Len(s)) = s
  BY <1>1, SubSeqFull
<1>4. CASE Len(s) <= Len(t)
  <2>1. \A i \in 1..Len(s) : t[i] \in S
    BY <1>1, <1>2, <1>4, ElementOfSeq
  <2>2. /\ SubSeq(t, 1, Len(s)) \in Seq(S)
        /\ Len(SubSeq(t, 1, Len(s))) = Len(s)
        /\ \A i \in 1..Len(s) : SubSeq(t, 1, Len(s))[i] = t[i]
    <3>1. /\ SubSeq(t, 1, Len(s)) \in Seq(S)
          /\ Len(SubSeq(t, 1, Len(s))) = IF 1 <= Len(s) THEN Len(s) - 1 + 1 ELSE 0
          /\ \A i \in 1..(Len(s) - 1 + 1) : SubSeq(t, 1, Len(s))[i] = t[1 + i - 1]
      BY <1>2, <2>1, SubSeqProperties
    <3> QED
      BY <1>2, <3>1
  <2>3. (\A i \in 1..Len(s) : s[i] = t[i]) => s = SubSeq(t, 1, Len(s))
    BY <1>1, <2>2, SeqEqual
  <2> QED
    BY <1>3, <1>4, <2>2, <2>3 DEF IsPrefix
<1> QED
  BY <1>2, <1>4 DEF IsPrefix

\* One is a prefix of the other.
Comparable(s, t) == IsPrefix(s, t) \/ IsPrefix(t, s)

LEMMA ComparableIsSymmetric ==
  ASSUME NEW s, NEW t
  PROVE  Comparable(s, t) <=> Comparable(t, s)
BY DEF Comparable

\* What is comparable with a longer history was so with the shorter one.
LEMMA ComparableShrinks ==
  ASSUME NEW s, NEW t, NEW x, IsSequence(s), IsSequence(t),
         Comparable(Append(s, x), t)
  PROVE  Comparable(s, t)
<1>1. /\ IsSequence(Append(s, x)) /\ Len(Append(s, x)) = Len(s) + 1
      /\ \A i \in 1..Len(s) : Append(s, x)[i] = s[i]
  BY Appending
<1>2. Len(s) \in Nat /\ Len(t) \in Nat
  BY SequenceLength
<1>3. CASE IsPrefix(Append(s, x), t)
  <2>1. /\ Len(Append(s, x)) <= Len(t)
        /\ \A i \in 1..Len(Append(s, x)) : Append(s, x)[i] = t[i]
    BY <1>1, <1>3, PrefixByEntry, Zenon
  <2>2. Len(s) <= Len(t) /\ \A i \in 1..Len(s) : s[i] = t[i]
    BY <1>1, <1>2, <2>1
  <2> QED
    BY <2>2, PrefixByEntry DEF Comparable
<1>4. CASE IsPrefix(t, Append(s, x))
  <2>1. Len(t) <= Len(Append(s, x)) /\ \A i \in 1..Len(t) : t[i] = Append(s, x)[i]
    BY <1>1, <1>4, PrefixByEntry, Zenon
  <2>2. \A i \in 1..Len(t) : i <= Len(s) => t[i] = s[i]
    BY <1>1, <1>2, <2>1
  <2>3. CASE Len(t) <= Len(s)
    BY <1>2, <2>2, <2>3, PrefixByEntry DEF Comparable
  <2>4. CASE Len(t) > Len(s)
    <3>1. Len(s) <= Len(t) /\ \A i \in 1..Len(s) : s[i] = t[i]
      BY <1>2, <2>2, <2>4
    <3> QED
      BY <3>1, PrefixByEntry DEF Comparable
  <2> QED
    BY <1>2, <2>3, <2>4
<1> QED
  BY <1>3, <1>4 DEF Comparable

\* Two histories that differ where the shorter one ends branched.
LEMMA DifferentEntries ==
  ASSUME NEW s, NEW t, NEW k, IsSequence(s), IsSequence(t),
         k \in 1..Len(s), k \in 1..Len(t), s[k] # t[k]
  PROVE  ~Comparable(s, t)
BY PrefixByEntry DEF Comparable

LEMMA Reflexive ==
  ASSUME NEW s, IsSequence(s)
  PROVE  Comparable(s, s)
BY PrefixByEntry, SequenceLength DEF Comparable

LEMMA SameEntries ==
  ASSUME NEW s, NEW t, NEW n, IsSequence(s), IsSequence(t),
         DOMAIN s = 1..n, DOMAIN t = 1..n, \A i \in 1..n : s[i] = t[i]
  PROVE  s = t
<1>1. s \in [1..Len(s) -> Range(s)] /\ t \in [1..Len(t) -> Range(t)]
  BY LenProperties DEF IsSequence
<1>2. s = [i \in DOMAIN s |-> s[i]] /\ t = [i \in DOMAIN t |-> t[i]]
  BY <1>1
<1>3. DOMAIN s = DOMAIN t /\ \A i \in DOMAIN s : s[i] = t[i]
  OBVIOUS
<1> QED
  BY <1>2, <1>3

-----------------------------------------------------------------------------
(* Appending to a slice *)

\* A slice with n entries in array a of A.
SliceOf(A, a, n) ==
  /\ IsSequence(A) /\ \A k \in DOMAIN A : IsSequence(A[k])
  /\ a \in Nat /\ n \in Nat
  /\ a = 0 => n = 0
  /\ a # 0 => a \in DOMAIN A /\ n <= Len(A[a])

\* What append has made of it: all that it may disturb is the entry of an array
\* that follows the n entries of the slice.
Extended(A, a, n, c, B, b) ==
  /\ SliceOf(B, b, n + 1) /\ b # 0
  /\ B[b][n + 1] = c
  /\ a # 0 => \A i \in 1..n : B[b][i] = A[a][i]
  /\ DOMAIN A \subseteq DOMAIN B
  /\ \A k \in DOMAIN A :
       /\ Len(B[k]) = Len(A[k])
       /\ \A i \in 1..Len(A[k]) : B[k][i] = A[k][i] \/ (i = n + 1 /\ B[k][i] = c)

Old(A, a) == IF a = 0 THEN <<>> ELSE A[a]

LEMMA OldIsSequence ==
  ASSUME NEW A, NEW a, NEW n, SliceOf(A, a, n)
  PROVE  /\ IsSequence(Old(A, a)) /\ Len(Old(A, a)) \in Nat
         /\ n <= Len(Old(A, a))
<1>1. CASE a = 0
  <2>1. <<>> \in Seq({}) /\ Len(<<>>) = 0
    BY EmptySeq
  <2>2. IsSequence(<<>>)
    BY <2>1, SequencesAreSequences
  <2> QED
    BY <1>1, <2>1, <2>2 DEF Old, SliceOf
<1>2. CASE a # 0
  BY <1>2, SequenceLength DEF Old, SliceOf
<1> QED
  BY <1>1, <1>2

LEMMA AppendInPlace ==
  ASSUME NEW A, NEW a, NEW n, NEW c, SliceOf(A, a, n), n < Len(Old(A, a))
  PROVE  Extended(A, a, n, c, [A EXCEPT ![a] = [A[a] EXCEPT ![n + 1] = c]], a)
<1> DEFINE B == [A EXCEPT ![a] = [A[a] EXCEPT ![n + 1] = c]]
<1>1. a # 0
  <2>1. <<>> \in Seq({}) /\ Len(<<>>) = 0
    BY EmptySeq
  <2> QED
    BY <2>1 DEF Old, SliceOf
<1>2. /\ IsSequence(A) /\ a \in DOMAIN A /\ a \in 1..Len(A) /\ IsSequence(A[a])
      /\ Len(A[a]) \in Nat /\ n \in Nat /\ n + 1 \in 1..Len(A[a]) /\ a \in Nat
  BY <1>1, SequenceLength DEF SliceOf, Old
<1> DEFINE new == [A[a] EXCEPT ![n + 1] = c]
<1>3. /\ IsSequence(new) /\ Len(new) = Len(A[a])
      /\ \A i \in 1..Len(A[a]) : new[i] = IF i = n + 1 THEN c ELSE A[a][i]
  <2> DEFINE s == A[a]
             k == n + 1
  <2>1. IsSequence(s) /\ k \in 1..Len(s)
    BY <1>2
  <2> HIDE DEF s, k
  <2>2. /\ IsSequence([s EXCEPT ![k] = c]) /\ Len([s EXCEPT ![k] = c]) = Len(s)
        /\ \A i \in 1..Len(s) : [s EXCEPT ![k] = c][i] = IF i = k THEN c ELSE s[i]
    BY <2>1, Writing, SequenceLength
  <2> QED
    BY <2>2 DEF s, k
<1> HIDE DEF new
<1>4. /\ IsSequence(B) /\ Len(B) = Len(A)
      /\ \A k \in 1..Len(A) : B[k] = IF k = a THEN new ELSE A[k]
  BY <1>2, Writing, ZenonT(60) DEF new
<1>5. DOMAIN B = DOMAIN A /\ DOMAIN A = 1..Len(A)
  BY <1>2, <1>4, SequenceLength
<1>6. B[a] = new
  BY <1>2, <1>4
<1> HIDE DEF B
<1>7. SliceOf(B, a, n + 1)
  <2>1. \A k \in DOMAIN B : IsSequence(B[k])
    BY <1>3, <1>4, <1>5 DEF SliceOf
  <2> QED
    BY <1>1, <1>2, <1>3, <1>4, <1>5, <1>6, <2>1 DEF SliceOf
<1>8. \A k \in DOMAIN A :
        /\ Len(B[k]) = Len(A[k])
        /\ \A i \in 1..Len(A[k]) : B[k][i] = A[k][i] \/ (i = n + 1 /\ B[k][i] = c)
  BY <1>3, <1>4, <1>5
<1>9. B[a][n + 1] = c /\ \A i \in 1..n : B[a][i] = A[a][i]
  BY <1>2, <1>3, <1>6
<1> QED
  BY <1>1, <1>5, <1>7, <1>8, <1>9 DEF Extended, B

LEMMA AppendAnew ==
  ASSUME NEW A, NEW a, NEW n, NEW c, NEW rest, SliceOf(A, a, n), IsSequence(rest),
         n = Len(Old(A, a))
  PROVE  Extended(A, a, n, c, Append(A, Append(Old(A, a), c) \o rest), Len(A) + 1)
<1> DEFINE new == Append(Old(A, a), c) \o rest
           B   == Append(A, new)
           b   == Len(A) + 1
<1>1. IsSequence(Old(A, a)) /\ n \in Nat
  BY OldIsSequence
<1>2. /\ IsSequence(Append(Old(A, a), c)) /\ Len(Append(Old(A, a), c)) = n + 1
      /\ \A i \in 1..n : Append(Old(A, a), c)[i] = Old(A, a)[i]
      /\ Append(Old(A, a), c)[n + 1] = c
  BY <1>1, Appending
<1>3. /\ IsSequence(new) /\ Len(new) = n + 1 + Len(rest)
      /\ \A i \in 1..(n + 1) : new[i] = Append(Old(A, a), c)[i]
  BY <1>2, Joining
<1>4. Len(rest) \in Nat
  BY SequenceLength
<1>5. new[n + 1] = c /\ \A i \in 1..n : new[i] = Old(A, a)[i]
  BY <1>1, <1>2, <1>3
<1> HIDE DEF new
<1>6. IsSequence(A) /\ Len(A) \in Nat /\ DOMAIN A = 1..Len(A)
  BY SequenceLength DEF SliceOf
<1>7. /\ IsSequence(B) /\ Len(B) = Len(A) + 1 /\ B[b] = new
      /\ \A k \in 1..Len(A) : B[k] = A[k]
  BY <1>6, Appending
<1>8. DOMAIN B = 1..b
  BY <1>7, SequenceLength
<1> HIDE DEF B
<1>9. SliceOf(B, b, n + 1)
  <2>1. \A k \in DOMAIN B : IsSequence(B[k])
    BY <1>3, <1>6, <1>7, <1>8 DEF SliceOf
  <2>2. b \in DOMAIN B /\ n + 1 <= Len(B[b])
    BY <1>1, <1>3, <1>4, <1>6, <1>7, <1>8
  <2> QED
    BY <1>1, <1>6, <1>7, <2>1, <2>2 DEF SliceOf
<1>10. DOMAIN A \subseteq DOMAIN B /\ \A k \in DOMAIN A : B[k] = A[k]
  BY <1>6, <1>7, <1>8
<1>11. a # 0 => \A i \in 1..n : B[b][i] = A[a][i]
  BY <1>5, <1>7 DEF Old
<1> QED
  BY <1>5, <1>6, <1>7, <1>9, <1>10, <1>11 DEF Extended, B, new

LEMMA AppendToExtends ==
  ASSUME NEW A, NEW a, NEW n, NEW c, SliceOf(A, a, n), NEW heap,
         heap = AppendTo([arrays |-> A, array |-> a, len |-> n], c)
  PROVE  heap.len = n + 1 /\ Extended(A, a, n, c, heap.arrays, heap.array)
<1> DEFINE rest == [i \in 1..(Len(Old(A, a)) - 1) |-> Unused]
<1>1. Len(Old(A, a)) \in Nat /\ n \in Nat /\ n <= Len(Old(A, a))
  BY OldIsSequence DEF SliceOf
<1>2. CASE n < Len(Old(A, a))
  <2>1. heap = [arrays |-> [A EXCEPT ![a] = [A[a] EXCEPT ![n + 1] = c]],
                array |-> a, len |-> n + 1]
    BY <1>2 DEF AppendTo, Old
  <2> QED
    BY <1>2, <2>1, AppendInPlace
<1>3. CASE ~(n < Len(Old(A, a)))
  <2>1. heap = [arrays |-> Append(A, Append(Old(A, a), c) \o rest),
                array |-> Len(A) + 1, len |-> n + 1]
    BY <1>3 DEF AppendTo, Old
  <2>2. IsSequence(rest)
    <3>1. CASE Len(Old(A, a)) = 0
      <4>1. rest = <<>>
        BY <3>1
      <4> QED
        BY <4>1, EmptySeq, SequencesAreSequences
    <3>2. CASE Len(Old(A, a)) # 0
      <4>1. rest \in Seq({Unused})
        BY <1>1, <3>2
      <4> QED
        BY <4>1, SequencesAreSequences
    <3> QED
      BY <3>1, <3>2
  <2>3. n = Len(Old(A, a))
    BY <1>1, <1>3
  <2> HIDE DEF rest
  <2>4. Extended(A, a, n, c, Append(A, Append(Old(A, a), c) \o rest), Len(A) + 1)
    BY <2>2, <2>3, AppendAnew, Zenon
  <2>5. /\ heap.arrays = Append(A, Append(Old(A, a), c) \o rest)
        /\ heap.array = Len(A) + 1 /\ heap.len = n + 1
    BY SMTT(60), <2>1
  <2> QED
    BY <2>4, <2>5, Zenon
<1> QED
  BY <1>2, <1>3

-----------------------------------------------------------------------------
(* What the steps do to the encoders *)

AnEncoder == [array : Nat, len : Nat, disableBody : BOOLEAN]
Addition  == [call : Nat, rule : Rules, disableBody : BOOLEAN]

LEMMA Typing ==
  ASSUME TypeOK, SliceInv
  PROVE  /\ Len(encoders) \in Nat /\ DOMAIN encoders = 1..Len(encoders)
         /\ DOMAIN added = DOMAIN encoders /\ Newest \in DOMAIN encoders
         /\ \A e \in DOMAIN encoders :
              /\ encoders[e] \in AnEncoder
              /\ added[e] \in Seq(Addition) /\ IsSequence(added[e])
              /\ Len(added[e]) \in Nat /\ DOMAIN added[e] = 1..Len(added[e])
              /\ encoders[e].len = Len(added[e])
              /\ \A i \in 1..encoders[e].len : added[e][i] \in Addition
              /\ SliceOf(arrays, encoders[e].array, encoders[e].len)
<1>1. encoders \in Seq(AnEncoder) /\ added \in Seq(Seq(Addition))
  BY DEF TypeOK, AnEncoder, Addition
<1>2. /\ Len(encoders) \in Nat /\ DOMAIN encoders = 1..Len(encoders)
      /\ DOMAIN added = 1..Len(added)
  BY <1>1, SequencesAreSequences
<1>3. DOMAIN added = DOMAIN encoders /\ Newest \in DOMAIN encoders
  <2>1. encoders # <<>> /\ Len(added) = Len(encoders)
    BY DEF SliceInv
  <2>2. Len(encoders) \in Nat \ {0}
    BY <1>1, <2>1, EmptySeq
  <2> QED
    BY <1>2, <2>1, <2>2 DEF Newest
<1>4. ASSUME NEW e \in DOMAIN encoders
      PROVE  /\ encoders[e] \in AnEncoder
             /\ added[e] \in Seq(Addition) /\ IsSequence(added[e])
             /\ Len(added[e]) \in Nat /\ DOMAIN added[e] = 1..Len(added[e])
             /\ encoders[e].len = Len(added[e])
             /\ \A i \in 1..encoders[e].len : added[e][i] \in Addition
             /\ SliceOf(arrays, encoders[e].array, encoders[e].len)
  <2>1. encoders[e] \in AnEncoder /\ added[e] \in Seq(Addition)
    BY <1>1, <1>2, <1>3, ElementOfSeq
  <2>2. /\ IsSequence(added[e]) /\ Len(added[e]) \in Nat
        /\ DOMAIN added[e] = 1..Len(added[e])
    BY <2>1, SequencesAreSequences
  <2>3. encoders[e].len = Len(added[e])
    BY DEF SliceInv
  <2>4. \A i \in 1..Len(added[e]) : added[e][i] \in Addition
    BY <2>1, ElementOfSeq
  <2>5. SliceOf(arrays, encoders[e].array, encoders[e].len)
    <3>1. encoders[e].array \in Nat /\ encoders[e].len \in Nat
      BY <2>1 DEF AnEncoder
    <3>2. IsSequence(arrays) /\ \A k \in DOMAIN arrays : IsSequence(arrays[k])
      BY DEF TypeOK
    <3>3. /\ encoders[e].array = 0 => encoders[e].len = 0
          /\ encoders[e].array # 0 =>
               /\ encoders[e].array \in DOMAIN arrays
               /\ encoders[e].len <= Len(arrays[encoders[e].array])
      BY DEF SliceInv, Slice
    <3> QED
      BY <3>1, <3>2, <3>3 DEF SliceOf
  <2> QED
    BY <2>1, <2>2, <2>3, <2>4, <2>5
<1> QED
  BY <1>2, <1>3, <1>4

LEMMA Resliced ==
  ASSUME NEW encoder \in AnEncoder, NEW a, NEW n
  PROVE  [[encoder EXCEPT !.array = a] EXCEPT !.len = n] =
           [array |-> a, len |-> n, disableBody |-> encoder.disableBody]
<1>1. encoder = [array |-> encoder.array, len |-> encoder.len,
                 disableBody |-> encoder.disableBody]
  BY DEF AnEncoder
<1>2. [encoder EXCEPT !.array = a] =
        [array |-> a, len |-> encoder.len, disableBody |-> encoder.disableBody]
  BY <1>1
<1>3. [[array |-> a, len |-> encoder.len, disableBody |-> encoder.disableBody]
         EXCEPT !.len = n] =
        [array |-> a, len |-> n, disableBody |-> encoder.disableBody]
  OBVIOUS
<1> QED
  BY <1>2, <1>3, Zenon

\* A pass of the loop of Add, taken apart.
Compiling == Compile(Head(pending), encoders[Newest].disableBody)

OnlyNewest ==
  /\ DOMAIN encoders' = DOMAIN encoders /\ Newest' = Newest
  /\ DOMAIN added' = DOMAIN added
  /\ \A e \in DOMAIN encoders \ {Newest} :
       encoders'[e] = encoders[e] /\ added'[e] = added[e]
  /\ encoders'[Newest].len = encoders[Newest].len + 1
  /\ encoders'[Newest].disableBody = encoders[Newest].disableBody
  /\ added'[Newest] = Append(added[Newest], [call |-> Newest, rule |-> Head(pending),
                                            disableBody |-> encoders[Newest].disableBody])
  /\ Extended(arrays, encoders[Newest].array, encoders[Newest].len, Compiling,
              arrays', encoders'[Newest].array)

LEMMA AppendRuleStep ==
  ASSUME TypeOK, SliceInv, AppendRule
  PROVE  /\ OnlyNewest
         /\ pending # <<>> /\ pending' = Tail(pending)
         /\ Head(pending) \in Rules /\ pending' \in Seq(Rules)
         /\ encoders' \in Seq(AnEncoder) /\ added' \in Seq(Seq(Addition))
         /\ Len(encoders') = Len(encoders) /\ Len(added') = Len(added)
         /\ UNCHANGED <<facts, response>>
<1> DEFINE n == Newest
           E == encoders[n]
           heap == AppendTo([arrays |-> arrays, array |-> E.array, len |-> E.len], Compiling)
           x == [call |-> n, rule |-> Head(pending), disableBody |-> E.disableBody]
           F == [array |-> heap.array, len |-> heap.len, disableBody |-> E.disableBody]
<1>1. /\ pending # <<>> /\ pending' = Tail(pending) /\ arrays' = heap.arrays
      /\ encoders' = [encoders EXCEPT ![n].array = heap.array, ![n].len = heap.len]
      /\ added' = [added EXCEPT ![n] = Append(@, x)]
      /\ UNCHANGED <<facts, response>>
  BY DEF AppendRule, Idle, Compiling
<1>2. /\ n \in DOMAIN encoders /\ n \in DOMAIN added /\ E \in AnEncoder
      /\ added[n] \in Seq(Addition) /\ SliceOf(arrays, E.array, E.len)
      /\ DOMAIN encoders = 1..Len(encoders) /\ Len(encoders) \in Nat
      /\ DOMAIN added = 1..Len(encoders) /\ Len(added) = Len(encoders)
  <2>1. Len(added) = Len(encoders)
    BY DEF SliceInv
  <2> QED
    BY <2>1, Typing
<1>3. heap.len = E.len + 1 /\ Extended(arrays, E.array, E.len, Compiling, heap.arrays, heap.array)
  BY <1>2, AppendToExtends
<1>4. E = [array |-> E.array, len |-> E.len, disableBody |-> E.disableBody]
  BY <1>2 DEF AnEncoder
<1>5. F \in AnEncoder
  BY <1>2, <1>3 DEF AnEncoder, Extended, SliceOf
<1>6. encoders' = [encoders EXCEPT ![n] = F]
  <2> HIDE DEF heap, n
  <2>1. [[E EXCEPT !.array = heap.array] EXCEPT !.len = heap.len] = F
    BY <1>2, Resliced, Zenon
  <2>2. encoders' = [encoders EXCEPT ![n] = [[E EXCEPT !.array = heap.array] EXCEPT !.len = heap.len]]
    BY <1>1, <1>2
  <2> QED
    BY <2>1, <2>2
<1>7. Head(pending) \in Rules /\ pending' \in Seq(Rules)
  BY <1>1, HeadTailProperties DEF TypeOK
<1>8. x \in Addition
  BY <1>2, <1>7 DEF Addition, AnEncoder
<1>9. Append(added[n], x) \in Seq(Addition)
  <2> HIDE DEF x
  <2> QED
    BY <1>2, <1>8, AppendProperties
<1> HIDE DEF n, heap
<1>10. /\ encoders' \in Seq(AnEncoder) /\ Len(encoders') = Len(encoders)
       /\ \A e \in 1..Len(encoders) : encoders'[e] = IF e = n THEN F ELSE encoders[e]
  <2>1. encoders \in Seq(AnEncoder) /\ n \in 1..Len(encoders)
    BY <1>2 DEF TypeOK, AnEncoder
  <2> HIDE DEF F
  <2> QED
    BY <1>5, <1>6, <2>1, ExceptSeq
<1>11. /\ added' \in Seq(Seq(Addition)) /\ Len(added') = Len(added)
       /\ \A e \in 1..Len(added) :
            added'[e] = IF e = n THEN Append(added[n], x) ELSE added[e]
  <2>1. added \in Seq(Seq(Addition)) /\ n \in 1..Len(added)
    BY <1>2 DEF TypeOK, Addition
  <2> DEFINE more == Append(added[n], x)
  <2>2. added' = [added EXCEPT ![n] = more]
    BY <1>1
  <2>3. more \in Seq(Addition)
    BY <1>9
  <2> HIDE DEF more
  <2>4. /\ added' \in Seq(Seq(Addition)) /\ Len(added') = Len(added)
        /\ \A e \in 1..Len(added) : added'[e] = IF e = n THEN more ELSE added[e]
    BY <2>1, <2>2, <2>3, ExceptSeq
  <2> QED
    BY <2>4 DEF more
<1>12. DOMAIN encoders' = 1..Len(encoders) /\ DOMAIN added' = 1..Len(encoders)
  BY <1>2, <1>10, <1>11, SequencesAreSequences
<1>13. Newest' = Newest
  BY <1>10 DEF Newest
<1>14. encoders'[n] = F /\ added'[n] = Append(added[n], x)
  BY <1>2, <1>10, <1>11
<1>15. Extended(arrays, E.array, E.len, Compiling, arrays', encoders'[n].array)
  BY <1>1, <1>3, <1>14
<1>16. OnlyNewest
  <2>1. \A e \in DOMAIN encoders \ {n} : encoders'[e] = encoders[e] /\ added'[e] = added[e]
    BY <1>2, <1>10, <1>11
  <2>2. encoders'[n].len = E.len + 1 /\ encoders'[n].disableBody = E.disableBody
    BY <1>3, <1>14
  <2> QED
    BY <1>2, <1>12, <1>13, <1>14, <1>15, <2>1, <2>2 DEF OnlyNewest, n
<1> QED
  BY <1>1, <1>7, <1>10, <1>11, <1>16

\* Only the entry after those of the slice that the loop extends may change.
LEMMA EntriesAfterAppendRule ==
  ASSUME TypeOK, SliceInv, OnlyNewest
  PROVE  /\ Slice(Newest)'[encoders[Newest].len + 1] = Compiling
         /\ \A e \in DOMAIN encoders : \A i \in 1..encoders[e].len :
              \/ Slice(e)'[i] = Slice(e)[i]
              \/ /\ e # Newest /\ i = encoders[Newest].len + 1
                 /\ Slice(e)'[i] = Compiling
<1> DEFINE n == Newest
<1>1. Newest' = n /\ n \in DOMAIN encoders
  BY Typing DEF OnlyNewest
<1>2. Extended(arrays, encoders[n].array, encoders[n].len, Compiling,
               arrays', encoders'[n].array)
  BY DEF OnlyNewest
<1>3. Slice(n)' = arrays'[encoders'[n].array]
  BY <1>1, <1>2 DEF Slice, Extended
<1>4. Slice(Newest)' = Slice(n)'
  BY <1>1
<1>5. Slice(Newest)'[encoders[Newest].len + 1] = Compiling
  BY <1>2, <1>3, <1>4 DEF Extended
<1>6. ASSUME NEW e \in DOMAIN encoders, NEW i \in 1..encoders[e].len
      PROVE  \/ Slice(e)'[i] = Slice(e)[i]
             \/ /\ e # n /\ i = encoders[n].len + 1
                /\ Slice(e)'[i] = Compiling
  <2>1. /\ SliceOf(arrays, encoders[e].array, encoders[e].len)
        /\ encoders[e].len \in Nat /\ encoders[e].array \in Nat
    BY Typing DEF SliceOf
  <2>2. encoders[e].array # 0
    BY <2>1 DEF SliceOf
  <2>3. /\ encoders[e].array \in DOMAIN arrays
        /\ Slice(e) = arrays[encoders[e].array]
        /\ encoders[e].len <= Len(arrays[encoders[e].array])
        /\ Len(arrays[encoders[e].array]) \in Nat
    BY <2>1, <2>2, SequenceLength DEF SliceOf, Slice
  <2>4. CASE e = n
    <3>1. Slice(e)' = arrays'[encoders'[n].array]
      BY <1>2, <2>4 DEF Slice, Extended
    <3>2. arrays'[encoders'[n].array][i] = arrays[encoders[n].array][i]
      BY <1>2, <2>2, <2>4 DEF Extended
    <3> QED
      BY <2>3, <2>4, <3>1, <3>2
  <2>5. CASE e # n
    <3>1. Slice(e)' = arrays'[encoders[e].array]
      BY <2>2, <2>5 DEF Slice, OnlyNewest
    <3>2. i \in 1..Len(arrays[encoders[e].array])
      BY <2>1, <2>3
    <3>3. \/ arrays'[encoders[e].array][i] = arrays[encoders[e].array][i]
          \/ i = encoders[n].len + 1 /\ arrays'[encoders[e].array][i] = Compiling
      BY <1>2, <2>3, <3>2 DEF Extended
    <3> QED
      BY <2>3, <2>5, <3>1, <3>3
  <2> QED
    BY <2>4, <2>5
<1> QED
  BY <1>5, <1>6

\* A call of Body or Add, taken apart: a new encoder with the slice of another.
Derived(e) ==
  /\ Newest' = Newest + 1
  /\ DOMAIN encoders' = DOMAIN encoders \cup {Newest + 1} /\ DOMAIN added' = DOMAIN encoders'
  /\ \A d \in DOMAIN encoders : encoders'[d] = encoders[d] /\ added'[d] = added[d]
  /\ encoders'[Newest + 1].array = encoders[e].array
  /\ encoders'[Newest + 1].len = encoders[e].len
  /\ added'[Newest + 1] = added[e]

LEMMA DeriveStep ==
  ASSUME TypeOK, SliceInv, NEW e \in DOMAIN encoders, NEW encoder \in AnEncoder,
         encoder.array = encoders[e].array, encoder.len = encoders[e].len,
         NEW ruleList \in Seq(Rules),
         Derive(encoder, ruleList), added' = Append(added, added[e])
  PROVE  /\ Derived(e)
         /\ encoders' \in Seq(AnEncoder) /\ added' \in Seq(Seq(Addition))
         /\ Len(added') = Len(encoders')
         /\ Idle /\ pending' \in Seq(Rules)
         /\ UNCHANGED <<arrays, facts, response>>
<1>1. /\ Len(added) = Len(encoders) /\ DOMAIN added = DOMAIN encoders
      /\ encoders \in Seq(AnEncoder) /\ added \in Seq(Seq(Addition))
      /\ Len(encoders) \in Nat /\ DOMAIN encoders = 1..Len(encoders)
      /\ added[e] \in Seq(Addition)
  <2>1. Len(added) = Len(encoders)
    BY DEF SliceInv
  <2>2. encoders \in Seq(AnEncoder) /\ added \in Seq(Seq(Addition))
    BY DEF TypeOK, AnEncoder, Addition
  <2> QED
    BY <2>1, <2>2, Typing
<1>2. /\ encoders' = Append(encoders, encoder) /\ pending' = ruleList /\ Idle
      /\ UNCHANGED <<arrays, facts, response>>
  BY DEF Derive
<1>3. /\ encoders' \in Seq(AnEncoder) /\ Len(encoders') = Len(encoders) + 1
      /\ \A d \in 1..Len(encoders) : encoders'[d] = encoders[d]
      /\ encoders'[Len(encoders) + 1] = encoder
  BY <1>1, <1>2, AppendProperties
<1>4. /\ added' \in Seq(Seq(Addition)) /\ Len(added') = Len(encoders) + 1
      /\ \A d \in 1..Len(encoders) : added'[d] = added[d]
      /\ added'[Len(encoders) + 1] = added[e]
  <2> DEFINE history == added[e]
             Histories == Seq(Addition)
  <2>1. history \in Histories /\ added \in Seq(Histories) /\ added' = Append(added, history)
    BY <1>1
  <2> HIDE DEF history, Histories
  <2>2. /\ added' \in Seq(Histories) /\ Len(added') = Len(added) + 1
        /\ \A d \in 1..Len(added) : added'[d] = added[d]
        /\ added'[Len(added) + 1] = history
    BY SMTT(60), <1>1, <2>1, AppendProperties
  <2> QED
    BY <1>1, <2>2 DEF history, Histories
<1>5. DOMAIN encoders' = 1..(Len(encoders) + 1) /\ DOMAIN added' = 1..(Len(encoders) + 1)
  BY <1>3, <1>4, SequencesAreSequences
<1>6. Derived(e)
  BY <1>1, <1>3, <1>4, <1>5 DEF Derived, Newest
<1> QED
  BY <1>2, <1>3, <1>4, <1>6

LEMMA SlicesAfterDerive ==
  ASSUME TypeOK, SliceInv, NEW e \in DOMAIN encoders, Derived(e), arrays' = arrays
  PROVE  /\ \A d \in DOMAIN encoders : Slice(d)' = Slice(d)
         /\ \A d : d = Newest + 1 => Slice(d)' = Slice(e)
BY DEF Slice, Derived

LEMMA BodyStep ==
  ASSUME TypeOK, SliceInv, NEW e \in DOMAIN encoders, NEW v \in BOOLEAN, Body(e, v)
  PROVE  /\ Derived(e)
         /\ encoders' \in Seq(AnEncoder) /\ added' \in Seq(Seq(Addition))
         /\ Len(added') = Len(encoders')
         /\ Idle /\ pending' \in Seq(Rules)
         /\ UNCHANGED <<arrays, facts, response>>
<1> DEFINE encoder == [encoders[e] EXCEPT !.disableBody = ~v]
<1>1. encoders[e] \in AnEncoder
  BY Typing
<1>2. /\ encoder \in AnEncoder
      /\ encoder.array = encoders[e].array /\ encoder.len = encoders[e].len
  BY <1>1 DEF AnEncoder
<1>3. Derive(encoder, <<>>) /\ added' = Append(added, added[e])
  BY DEF Body
<1>4. <<>> \in Seq(Rules)
  BY EmptySeq
<1> HIDE DEF encoder
<1> QED
  BY <1>2, <1>3, <1>4, DeriveStep

LEMMA AddStep ==
  ASSUME TypeOK, SliceInv, NEW e \in DOMAIN encoders, NEW ruleList \in RuleLists,
         Add(e, ruleList)
  PROVE  /\ Derived(e)
         /\ encoders' \in Seq(AnEncoder) /\ added' \in Seq(Seq(Addition))
         /\ Len(added') = Len(encoders')
         /\ Idle /\ pending' \in Seq(Rules)
         /\ UNCHANGED <<arrays, facts, response>>
<1> DEFINE encoder == encoders[e]
<1>1. /\ encoder \in AnEncoder
      /\ encoder.array = encoders[e].array /\ encoder.len = encoders[e].len
  BY Typing
<1>2. Derive(encoder, ruleList) /\ added' = Append(added, added[e])
  BY DEF Add
<1>3. ruleList \in Seq(Rules)
  BY EncoderConstants
<1> HIDE DEF encoder
<1> QED
  BY <1>1, <1>2, <1>3, DeriveStep

\* No rule that was added is forgotten.
LEMMA AddedAfterAppendRule ==
  ASSUME TypeOK, SliceInv, OnlyNewest
  PROVE  AddedRules \subseteq AddedRules' /\ Compiling.rule \in AddedRules'
<1> DEFINE n == Newest
           x == [call |-> Newest, rule |-> Head(pending), disableBody |-> encoders[Newest].disableBody]
<1>1. /\ n \in DOMAIN encoders /\ IsSequence(added[n]) /\ DOMAIN added = DOMAIN encoders
      /\ Len(added[n]) \in Nat /\ DOMAIN added[n] = 1..Len(added[n])
  BY Typing
<1>2. /\ IsSequence(Append(added[n], x)) /\ Len(Append(added[n], x)) = Len(added[n]) + 1
      /\ \A i \in 1..Len(added[n]) : Append(added[n], x)[i] = added[n][i]
      /\ Append(added[n], x)[Len(added[n]) + 1] = x
  <2> HIDE DEF x
  <2> QED
    BY <1>1, Appending
<1>3. added'[n] = Append(added[n], x) /\ DOMAIN added' = DOMAIN added
  BY DEF OnlyNewest
<1>4. DOMAIN added'[n] = 1..(Len(added[n]) + 1)
  BY <1>2, <1>3, SequenceLength
<1>5. ASSUME NEW d \in DOMAIN added, NEW i \in DOMAIN added[d]
      PROVE  d \in DOMAIN added' /\ i \in DOMAIN added'[d] /\ added'[d][i] = added[d][i]
  <2>1. CASE d = n
    BY <1>1, <1>2, <1>3, <1>4, <2>1
  <2>2. CASE d # n
    BY <1>1, <1>3, <2>2 DEF OnlyNewest
  <2> QED
    BY <2>1, <2>2
<1>6. ASSUME NEW r \in AddedRules PROVE r \in AddedRules'
  <2>1. PICK d \in DOMAIN added : \E i \in DOMAIN added[d] : r = added[d][i].rule
    BY DEF AddedRules
  <2> QED
    BY <1>5, <2>1 DEF AddedRules
<1>7. Len(added[n]) + 1 \in DOMAIN added'[n] /\ added'[n][Len(added[n]) + 1].rule = Head(pending)
  BY <1>1, <1>2, <1>3, <1>4
<1>8. Compiling.rule = Head(pending)
  BY DEF Compiling, Compile
<1>9. Head(pending) \in AddedRules'
  BY <1>1, <1>3, <1>7 DEF AddedRules
<1> QED
  BY <1>6, <1>8, <1>9

LEMMA AddedAfterDerive ==
  ASSUME TypeOK, SliceInv, NEW e \in DOMAIN encoders, Derived(e)
  PROVE  AddedRules \subseteq AddedRules'
<1>1. DOMAIN added = DOMAIN encoders
  BY Typing
<1>2. \A d \in DOMAIN added : d \in DOMAIN added' /\ added'[d] = added[d]
  BY <1>1 DEF Derived
<1> QED
  BY <1>2 DEF AddedRules

LEMMA UnbranchedIsComparable ==
  ASSUME NEW e
  PROVE  Unbranched(e) <=> \A d \in DOMAIN encoders : Comparable(added[d], added[e])
BY DEF Unbranched, Comparable

\* A branch is never undone, and an encoder with an entry where the loop of Add
\* writes has branched off from the one that it makes.
LEMMA BranchesAfterAppendRule ==
  ASSUME TypeOK, SliceInv, OnlyNewest, NEW e \in DOMAIN encoders
  PROVE  /\ Unbranched(e)' => Unbranched(e)
         /\ e # Newest /\ encoders[Newest].len < encoders[e].len =>
              ~Comparable(added'[Newest], added[e]) /\ ~Unbranched(e)'
<1> DEFINE n == Newest
           x == [call |-> n, rule |-> Head(pending), disableBody |-> encoders[n].disableBody]
<1>1. /\ n \in DOMAIN encoders /\ DOMAIN encoders' = DOMAIN encoders
      /\ added'[n] = Append(added[n], x)
      /\ \A d \in DOMAIN encoders \ {n} : added'[d] = added[d]
  BY Typing DEF OnlyNewest
<1>2. \A d \in DOMAIN encoders : IsSequence(added[d])
  BY Typing
<1>3. ASSUME NEW d \in DOMAIN encoders PROVE IsSequence(added'[d])
  <2> HIDE DEF x
  <2>1. IsSequence(Append(added[n], x))
    BY <1>1, <1>2, Appending
  <2>2. CASE d = n
    BY <1>1, <2>1, <2>2
  <2>3. CASE d # n
    BY <1>1, <1>2, <2>3
  <2> QED
    BY <2>2, <2>3
<1>4. x.call = n
  OBVIOUS
<1>5. Unbranched(e)' => \A d \in DOMAIN encoders : Comparable(added'[d], added'[e])
  BY <1>1 DEF Unbranched, Comparable
<1> HIDE DEF x
<1>6. Unbranched(e)' => Unbranched(e)
  <2> SUFFICES ASSUME Unbranched(e)', NEW d \in DOMAIN encoders
               PROVE  Comparable(added[d], added[e])
    BY UnbranchedIsComparable
  <2>1. Comparable(added'[d], added'[e])
    BY <1>5
  <2>2. CASE d = n /\ e = n
    BY <1>2, <2>2, Reflexive
  <2>3. CASE d = n /\ e # n
    <3>1. Comparable(Append(added[d], x), added[e])
      BY <1>1, <2>1, <2>3
    <3> QED
      BY <1>2, <3>1, ComparableShrinks
  <2>4. CASE d # n /\ e = n
    <3>1. Comparable(Append(added[e], x), added[d])
      BY <1>1, <2>1, <2>4, ComparableIsSymmetric
    <3> QED
      BY <1>2, <3>1, ComparableShrinks, ComparableIsSymmetric
  <2>5. CASE d # n /\ e # n
    BY <1>1, <2>1, <2>5
  <2> QED
    BY <2>2, <2>3, <2>4, <2>5
<1>7. ASSUME e # n, encoders[n].len < encoders[e].len
      PROVE  ~Comparable(added'[n], added[e]) /\ ~Unbranched(e)'
  <2> DEFINE k == encoders[n].len + 1
  <2>1. /\ encoders[n].len = Len(added[n]) /\ Len(added[n]) \in Nat
        /\ encoders[e].len = Len(added[e]) /\ Len(added[e]) \in Nat
        /\ DOMAIN added[e] = 1..Len(added[e])
    BY <1>1, Typing
  <2>2. k \in 1..Len(added[e]) /\ k \in DOMAIN added[e]
    BY <1>7, <2>1
  <2>3. /\ Len(added'[n]) = Len(added[n]) + 1 /\ added'[n][Len(added[n]) + 1] = x
    BY <1>1, <1>2, Appending
  <2>4. k \in 1..Len(added'[n]) /\ added'[n][k] = x
    BY <2>1, <2>3
  <2>5. added[e][k].call <= e
    BY <2>2 DEF SliceInv
  <2>6. e < n
    BY <1>7, Typing DEF Newest
  <2>7. added[e][k] # added'[n][k]
    <3>1. added[e][k] \in Addition
      BY <2>1, <2>2, Typing
    <3>2. added[e][k].call \in Nat /\ e \in Nat /\ n \in Nat
      BY <3>1, Typing DEF Addition, Newest
    <3> QED
      BY <1>4, <2>4, <2>5, <2>6, <3>2
  <2>8. ~Comparable(added'[n], added[e])
    <3> HIDE DEF k
    <3> QED
      BY <1>1, <1>2, <1>3, <2>2, <2>4, <2>7, DifferentEntries
  <2>9. added'[e] = added[e]
    BY <1>1, <1>7
  <2> QED
    BY <1>1, <1>5, <2>8, <2>9
<1> QED
  BY <1>6, <1>7

LEMMA BranchesAfterDerive ==
  ASSUME TypeOK, SliceInv, NEW e \in DOMAIN encoders, Derived(e)
  PROVE  /\ \A d \in DOMAIN encoders : Unbranched(d)' => Unbranched(d)
         /\ \A d : d = Newest + 1 => (Unbranched(d)' => Unbranched(e))
BY DEF Derived, Unbranched

-----------------------------------------------------------------------------
(* The steps preserve the invariants *)

LEMMA TypeOKAfterAppendRule ==
  ASSUME TypeOK, SliceInv, AppendRule
  PROVE  TypeOK'
<1>1. /\ OnlyNewest /\ UNCHANGED <<facts, response>>
      /\ pending' \in Seq(Rules)
      /\ encoders' \in Seq(AnEncoder) /\ added' \in Seq(Seq(Addition))
  BY AppendRuleStep
<1>2. IsSequence(arrays') /\ \A k \in DOMAIN arrays' : IsSequence(arrays'[k])
  BY <1>1 DEF OnlyNewest, Extended, SliceOf
<1>3. UNCHANGED <<rules, given, late>>
  BY <1>1 DEF facts
<1> QED
  BY <1>1, <1>2, <1>3 DEF TypeOK, AnEncoder, Addition

LEMMA SliceInvAfterAppendRule ==
  ASSUME TypeOK, SliceInv, AppendRule
  PROVE  SliceInv'
<1> DEFINE n == Newest
           x == [call |-> n, rule |-> Head(pending), disableBody |-> encoders[n].disableBody]
<1>1. /\ OnlyNewest
      /\ encoders' \in Seq(AnEncoder) /\ Len(encoders') = Len(encoders)
      /\ Len(added') = Len(added)
  BY AppendRuleStep
<1>2. Len(added') = Len(encoders') /\ encoders' # <<>>
  <2>1. Len(added) = Len(encoders) /\ encoders # <<>> /\ encoders \in Seq(AnEncoder)
    BY DEF SliceInv, TypeOK, AnEncoder
  <2>2. Len(encoders) # 0
    BY <2>1, EmptySeq
  <2>3. Len(<<>>) = 0
    BY EmptySeq
  <2> QED
    BY <1>1, <2>1, <2>2, <2>3
<1>3. ASSUME NEW e \in DOMAIN encoders'
      PROVE  /\ encoders'[e].array = 0 => encoders'[e].len = 0
             /\ encoders'[e].array # 0 =>
                  encoders'[e].array \in DOMAIN arrays' /\ encoders'[e].len <= Len(Slice(e)')
             /\ encoders'[e].len = Len(added'[e])
             /\ \A i \in DOMAIN added'[e] : added'[e][i].call <= e
  <2>1. CASE e = n
    <3>1. SliceOf(arrays', encoders'[n].array, encoders[n].len + 1) /\ encoders'[n].array # 0
      BY <1>1 DEF OnlyNewest, Extended
    <3>2. Slice(e)' = arrays'[encoders'[n].array]
      BY <2>1, <3>1 DEF Slice
    <3>3. encoders'[e].len = encoders[n].len + 1
      BY <1>1, <2>1 DEF OnlyNewest
    <3>4. /\ IsSequence(added[n]) /\ Len(added[n]) \in Nat /\ DOMAIN added[n] = 1..Len(added[n])
          /\ encoders[n].len = Len(added[n]) /\ n \in DOMAIN encoders /\ n \in Nat
      BY Typing DEF Newest
    <3>5. added'[e] = Append(added[n], x)
      BY <1>1, <2>1 DEF OnlyNewest
    <3>6. x.call = n
      OBVIOUS
    <3> HIDE DEF x
    <3>7. /\ IsSequence(added'[e]) /\ Len(added'[e]) = Len(added[n]) + 1
          /\ \A i \in 1..Len(added[n]) : added'[e][i] = added[n][i]
          /\ added'[e][Len(added[n]) + 1] = x
      BY <3>4, <3>5, Appending
    <3>8. DOMAIN added'[e] = 1..(Len(added[n]) + 1)
      BY <3>7, SequenceLength
    <3>9. ASSUME NEW i \in DOMAIN added'[e] PROVE added'[e][i].call <= e
      <4>1. CASE i \in 1..Len(added[n])
        <5>1. added[n][i].call <= n
          BY <3>4, <4>1 DEF SliceInv
        <5> QED
          BY <2>1, <3>7, <4>1, <5>1
      <4>2. CASE i = Len(added[n]) + 1
        BY <2>1, <3>4, <3>6, <3>7, <4>2
      <4> QED
        BY <3>4, <3>8, <4>1, <4>2
    <3>10. encoders'[e].array # 0 /\ encoders'[e].array \in DOMAIN arrays'
           /\ encoders'[e].len <= Len(Slice(e)')
      BY <2>1, <3>1, <3>2, <3>3 DEF SliceOf
    <3> QED
      BY <3>3, <3>4, <3>7, <3>9, <3>10
  <2>2. CASE e # n
    <3>1. e \in DOMAIN encoders /\ encoders'[e] = encoders[e] /\ added'[e] = added[e]
      BY <1>1, <2>2 DEF OnlyNewest
    <3>2. SliceOf(arrays, encoders[e].array, encoders[e].len)
      BY <3>1, Typing
    <3>3. \A k \in DOMAIN arrays : k \in DOMAIN arrays' /\ Len(arrays'[k]) = Len(arrays[k])
      BY <1>1 DEF OnlyNewest, Extended
    <3>4. encoders'[e].array # 0 => Slice(e)' = arrays'[encoders[e].array]
      BY <3>1 DEF Slice
    <3>5. encoders'[e].len = Len(added'[e]) /\ \A i \in DOMAIN added'[e] : added'[e][i].call <= e
      BY <3>1 DEF SliceInv
    <3> QED
      BY <3>1, <3>2, <3>3, <3>4, <3>5 DEF SliceOf
  <2> QED
    BY <2>1, <2>2
<1> QED
  BY <1>2, <1>3 DEF SliceInv

LEMMA TypeOKAfterDerive ==
  ASSUME TypeOK, encoders' \in Seq(AnEncoder), added' \in Seq(Seq(Addition)),
         pending' \in Seq(Rules), UNCHANGED <<arrays, facts, response>>
  PROVE  TypeOK'
<1>1. UNCHANGED <<rules, given, late>>
  BY DEF facts
<1> QED
  BY <1>1 DEF TypeOK, AnEncoder, Addition

LEMMA SliceInvAfterDerive ==
  ASSUME TypeOK, SliceInv, NEW e \in DOMAIN encoders, Derived(e), arrays' = arrays,
         encoders' \in Seq(AnEncoder), Len(added') = Len(encoders')
  PROVE  SliceInv'
<1>1. /\ \A d \in DOMAIN encoders : Slice(d)' = Slice(d)
      /\ \A d : d = Newest + 1 => Slice(d)' = Slice(e)
  BY SlicesAfterDerive
<1>2. Len(added') = Len(encoders') /\ encoders' # <<>>
  <2>1. Newest + 1 \in DOMAIN encoders'
    BY DEF Derived
  <2>2. Newest \in Nat
    BY Typing DEF Newest
  <2>3. DOMAIN encoders' = 1..Len(encoders')
    BY SequencesAreSequences
  <2>4. Len(<<>>) = 0
    BY EmptySeq
  <2> QED
    BY <2>1, <2>2, <2>3, <2>4
<1>3. ASSUME NEW d \in DOMAIN encoders'
      PROVE  /\ encoders'[d].array = 0 => encoders'[d].len = 0
             /\ encoders'[d].array # 0 =>
                  encoders'[d].array \in DOMAIN arrays' /\ encoders'[d].len <= Len(Slice(d)')
             /\ encoders'[d].len = Len(added'[d])
             /\ \A i \in DOMAIN added'[d] : added'[d][i].call <= d
  <2>1. CASE d \in DOMAIN encoders
    BY <1>1, <2>1 DEF SliceInv, Derived
  <2>2. CASE d = Newest + 1
    <3>1. /\ encoders'[d].array = encoders[e].array /\ encoders'[d].len = encoders[e].len
          /\ added'[d] = added[e] /\ Slice(d)' = Slice(e)
      BY <1>1, <2>2 DEF Derived
    <3>2. \A i \in DOMAIN added[e] : added[e][i].call <= d
      <4>1. e <= d /\ e \in Nat /\ d \in Nat
        BY <2>2, Typing DEF Newest
      <4>2. \A i \in DOMAIN added[e] : added[e][i].call <= e /\ added[e][i].call \in Nat
        BY Typing DEF SliceInv, Addition
      <4> QED
        BY <4>1, <4>2
    <3> QED
      BY <3>1, <3>2 DEF SliceInv
  <2> QED
    BY <2>1, <2>2 DEF Derived
<1> QED
  BY <1>2, <1>3 DEF SliceInv

-----------------------------------------------------------------------------
(* Fields *)

LEMMA WithProperties ==
  ASSUME NEW fields, NEW more
  PROVE  /\ DOMAIN With(fields, more) = DOMAIN fields \cup DOMAIN more
         /\ \A n \in DOMAIN more : With(fields, more)[n] = more[n]
         /\ \A n \in DOMAIN fields \ DOMAIN more : With(fields, more)[n] = fields[n]
BY DEF With

LEMMA FieldProperties ==
  ASSUME NEW name, NEW value
  PROVE  DOMAIN Field(name, value) = {name} /\ Field(name, value)[name] = value
BY DEF Field

LEMMA SomeFields ==
  ASSUME NEW fields, NEW name \in DOMAIN fields
  PROVE  fields # NoFields
BY DEF NoFields

-----------------------------------------------------------------------------
(* Rules *)

ARule(rule) ==
  /\ rule = [code |-> rule.code, header |-> rule.header, fields |-> rule.fields]
  /\ rule.code \in Int

LEMMA RecordStatus ==
  ASSUME NEW rule, ARule(rule), NEW c, NEW fields
  PROVE  [rule EXCEPT !.code = c, !.fields = fields] =
           [code |-> c, header |-> rule.header, fields |-> fields]
<1>1. rule = [code |-> rule.code, header |-> rule.header, fields |-> rule.fields]
  BY DEF ARule
<1>2. [rule EXCEPT !.code = c] =
        [code |-> c, header |-> rule.header, fields |-> rule.fields]
  BY <1>1
<1>3. [[code |-> c, header |-> rule.header, fields |-> rule.fields] EXCEPT !.fields = fields] =
        [code |-> c, header |-> rule.header, fields |-> fields]
  OBVIOUS
<1>4. [rule EXCEPT !.code = c, !.fields = fields] =
        [[rule EXCEPT !.code = c] EXCEPT !.fields = fields]
  OBVIOUS
<1> QED
  BY <1>2, <1>3, <1>4, Zenon

LEMMA RecordHeader ==
  ASSUME NEW rule, ARule(rule), NEW more
  PROVE  [rule EXCEPT !.header = @ \cup more] =
           [code |-> rule.code, header |-> rule.header \cup more, fields |-> rule.fields]
<1>1. rule = [code |-> rule.code, header |-> rule.header, fields |-> rule.fields]
  BY DEF ARule
<1>2. [[code |-> rule.code, header |-> rule.header, fields |-> rule.fields]
         EXCEPT !.header = @ \cup more] =
        [code |-> rule.code, header |-> rule.header \cup more, fields |-> rule.fields]
  BY SMTT(60)
<1> QED
  BY <1>1, <1>2, Zenon

LEMMA ChangeStep ==
  ASSUME TypeOK, NEW r \in Rules, NEW rule, NEW names, Change(r, rule, names), ARule(rule)
  PROVE  /\ Idle /\ UNCHANGED <<slices, response>>
         /\ rules'[r] = rule /\ given'[r] = given[r] \cup names
         /\ \A q \in Rules \ {r} : rules'[q] = rules[q] /\ given'[q] = given[q]
         /\ late \subseteq late' /\ (r \in AddedRules => r \in late')
         /\ TypeOK'
<1>1. /\ Idle /\ UNCHANGED <<slices, response>>
      /\ rules' = [rules EXCEPT ![r] = rule]
      /\ given' = [given EXCEPT ![r] = @ \cup names]
      /\ late' = IF r \in AddedRules THEN late \cup {r} ELSE late
  BY DEF Change
<1>2. DOMAIN rules = Rules /\ DOMAIN given = Rules
  <2>1. DOMAIN rules = Rules
    BY DEF TypeOK
  <2>2. DOMAIN given = Rules
    BY DEF TypeOK
  <2> QED
    BY <2>1, <2>2
<1>3. /\ rules'[r] = rule /\ \A q \in Rules \ {r} : rules'[q] = rules[q]
      /\ DOMAIN rules' = Rules /\ rules' = [q \in Rules |-> rules'[q]]
  BY <1>1, <1>2
<1>4. /\ given'[r] = given[r] \cup names /\ \A q \in Rules \ {r} : given'[q] = given[q]
      /\ given' = [q \in Rules |-> given'[q]]
  BY <1>1, <1>2
<1>5. late \subseteq late' /\ (r \in AddedRules => r \in late') /\ late' \subseteq Rules
  BY <1>1 DEF TypeOK
<1>6. \A q \in Rules : ARule(rules[q])
  BY DEF TypeOK, ARule
<1>7. \A q \in Rules : ARule(rules'[q])
  BY <1>3, <1>6
<1>8. rules' = [q \in Rules |-> [code   |-> rules'[q].code,
                                 header |-> rules'[q].header,
                                 fields |-> rules'[q].fields]]
  BY <1>3, <1>7 DEF ARule
<1>9. UNCHANGED <<arrays, encoders, pending, added>>
  BY <1>1 DEF slices
<1>10. TypeOK'
  BY <1>4, <1>5, <1>7, <1>8, <1>9 DEF TypeOK, ARule
<1> QED
  BY <1>1, <1>3, <1>4, <1>5, <1>10

\* What a call of StatusCode, of Cause or Fields or of Headers makes of a rule.
Rewritten(r) ==
  \/ \E c \in RuleCodes : StatusCode(r, c)
  \/ \E more \in RuleFields : Fields(r, more)
  \/ \E names \in RuleHeaders : Headers(r, names)

ProperRule(r, rule, names) ==
  IF r \in IsRules
  THEN LET own == DOMAIN ErrorFields[Target[r]]
       IN  /\ {"code", "cause"} \subseteq DOMAIN rule.fields
           /\ DOMAIN rule.fields \subseteq {"code", "cause"} \cup own \cup names
           /\ rule.fields["cause"] = Target[r] \/ "cause" \in own \cup names
           /\ rule.fields["code"] = rule.code \/ "code" \in own \cup names
           /\ rule.header \subseteq ErrorHeaders[Target[r]] \cup UNION RuleHeaders
  ELSE /\ DOMAIN rule.fields \subseteq names
       /\ rule.header \subseteq UNION RuleHeaders

ProperRules == \A r \in Rules : ProperRule(r, rules[r], given[r])

LEMMA RuleInvByRule == RuleInv <=> ProperRules
<1>1. \A r \in Rules : r \in IsRules \/ r \in AsRules
  BY DEF Rules
<1>2. \A r \in AsRules : r \in Rules /\ r \notin IsRules
  BY EncoderConstants DEF Rules
<1>3. \A r \in IsRules : r \in Rules
  BY DEF Rules
<1> QED
  BY <1>1, <1>2, <1>3 DEF RuleInv, ProperRules, ProperRule, Proper

LEMMA RewrittenRule ==
  ASSUME TypeOK, RuleInv, NEW r \in Rules, Rewritten(r)
  PROVE  \E rule, names :
           Change(r, rule, names) /\ ARule(rule) /\ ProperRule(r, rule, given[r] \cup names)
<1>1. ARule(rules[r]) /\ ProperRule(r, rules[r], given[r])
  BY RuleInvByRule DEF TypeOK, ARule, ProperRules
<1>2. ASSUME NEW c \in RuleCodes, StatusCode(r, c)
      PROVE  \E rule, names :
               Change(r, rule, names) /\ ARule(rule) /\ ProperRule(r, rule, given[r] \cup names)
  <2> DEFINE f    == IF r \in IsRules THEN With(rules[r].fields, Field("code", c))
                                      ELSE rules[r].fields
             rule == [code |-> c, header |-> rules[r].header, fields |-> f]
  <2>1. SetStatus(r, c) = rule
    BY <1>1, RecordStatus, Zenon DEF SetStatus
  <2>2. c \in Int
    BY EncoderConstants
  <2>3. /\ DOMAIN f = DOMAIN rules[r].fields \cup (IF r \in IsRules THEN {"code"} ELSE {})
        /\ r \in IsRules => f["code"] = c
        /\ "cause" \in DOMAIN rules[r].fields => f["cause"] = rules[r].fields["cause"]
    <3> DEFINE old == rules[r].fields
               coded == Field("code", c)
    <3>1. DOMAIN coded = {"code"} /\ coded["code"] = c
      BY FieldProperties
    <3> HIDE DEF old, coded
    <3>2. /\ DOMAIN With(old, coded) = DOMAIN old \cup {"code"}
          /\ With(old, coded)["code"] = c
          /\ "cause" \in DOMAIN old => With(old, coded)["cause"] = old["cause"]
      <4>1. /\ DOMAIN With(old, coded) = DOMAIN old \cup DOMAIN coded
            /\ \A n \in DOMAIN coded : With(old, coded)[n] = coded[n]
            /\ \A n \in DOMAIN old \ DOMAIN coded : With(old, coded)[n] = old[n]
        BY WithProperties, Zenon
      <4> QED
        BY <3>1, <4>1
    <3> QED
      BY <3>2 DEF old, coded
  <2> HIDE DEF f
  <2>4. ARule(rule)
    BY <2>2 DEF ARule
  <2>5. ProperRule(r, rule, given[r] \cup {})
    BY <1>1, <2>3 DEF ProperRule
  <2>6. Change(r, rule, {})
    BY <1>2, <2>1 DEF StatusCode
  <2> QED
    BY <2>4, <2>5, <2>6
<1>3. ASSUME NEW more \in RuleFields, Fields(r, more)
      PROVE  \E rule, names :
               Change(r, rule, names) /\ ARule(rule) /\ ProperRule(r, rule, given[r] \cup names)
  <2> DEFINE f    == With(rules[r].fields, more)
             rule == [code |-> rules[r].code, header |-> rules[r].header, fields |-> f]
  <2>1. Change(r, rule, DOMAIN more)
    BY <1>1, <1>3 DEF Fields, ARule
  <2>2. /\ DOMAIN f = DOMAIN rules[r].fields \cup DOMAIN more
        /\ \A n \in DOMAIN rules[r].fields \ DOMAIN more : f[n] = rules[r].fields[n]
    BY WithProperties
  <2> HIDE DEF f
  <2>3. ARule(rule)
    BY <1>1 DEF ARule
  <2>4. ProperRule(r, rule, given[r] \cup DOMAIN more)
    BY <1>1, <2>2 DEF ProperRule
  <2> QED
    BY <2>1, <2>3, <2>4
<1>4. ASSUME NEW more \in RuleHeaders, Headers(r, more)
      PROVE  \E rule, names :
               Change(r, rule, names) /\ ARule(rule) /\ ProperRule(r, rule, given[r] \cup names)
  <2> DEFINE rule == [code |-> rules[r].code, header |-> rules[r].header \cup more,
                      fields |-> rules[r].fields]
  <2>1. Change(r, rule, {})
    BY <1>1, <1>4, RecordHeader, Zenon DEF Headers
  <2>2. ARule(rule) /\ ProperRule(r, rule, given[r] \cup {})
    BY <1>1 DEF ARule, ProperRule
  <2> QED
    BY <2>1, <2>2
<1> QED
  BY <1>2, <1>3, <1>4 DEF Rewritten

\* What the rules' methods do to the facts that an Encode depends on.
Changed(r) ==
  /\ Idle /\ UNCHANGED <<slices, response>>
  /\ \A q \in Rules \ {r} : rules'[q] = rules[q]
  /\ \A q \in Rules : given[q] \subseteq given'[q]
  /\ late \subseteq late' /\ (r \in AddedRules => r \in late')

LEMMA RewrittenStep ==
  ASSUME TypeOK, RuleInv, NEW r \in Rules, Rewritten(r)
  PROVE  Changed(r) /\ TypeOK' /\ RuleInv'
<1>1. PICK rule, names :
        Change(r, rule, names) /\ ARule(rule) /\ ProperRule(r, rule, given[r] \cup names)
  BY RewrittenRule
<1>2. /\ Idle /\ UNCHANGED <<slices, response>>
      /\ rules'[r] = rule /\ given'[r] = given[r] \cup names
      /\ \A q \in Rules \ {r} : rules'[q] = rules[q] /\ given'[q] = given[q]
      /\ late \subseteq late' /\ (r \in AddedRules => r \in late')
      /\ TypeOK'
  BY <1>1, ChangeStep
<1>3. Changed(r)
  BY <1>2 DEF Changed
<1>4. \A q \in Rules : ProperRule(q, rules[q], given[q])
  BY RuleInvByRule DEF ProperRules
<1>5. ASSUME NEW q \in Rules PROVE ProperRule(q, rules'[q], given'[q])
  <2>1. CASE q = r
    BY <1>1, <1>2, <2>1
  <2>2. CASE q # r
    BY <1>2, <1>4, <2>2
  <2> QED
    BY <2>1, <2>2
<1>6. ProperRules'
  BY <1>5 DEF ProperRules
<1>7. RuleInv'
  BY <1>6, RuleInvByRule, PTL
<1> QED
  BY <1>2, <1>3, <1>7

-----------------------------------------------------------------------------
(* The entries of the slices *)

\* CompiledInv of what it depends on.
ProperWith(r, fields, names) ==
  LET own == DOMAIN ErrorFields[Target[r]]
  IN  /\ {"code", "cause"} \subseteq DOMAIN fields
      /\ DOMAIN fields \subseteq {"code", "cause"} \cup own \cup names
      /\ fields["cause"] = Target[r] \/ "cause" \in own \cup names

CompiledWith(compiled, listed, changed, table, names) ==
  LET r == compiled.rule
  IN  /\ r \in listed
      /\ r \in IsRules =>
           \/ compiled.disableBody /\ compiled.body = NoFields
           \/ /\ ~compiled.disableBody /\ ProperWith(r, compiled.body, names[r])
              /\ r \in changed \/ compiled.body = table[r].fields

Entries ==
  \A e \in DOMAIN encoders : \A i \in 1..encoders[e].len :
    /\ CompiledWith(Slice(e)[i], AddedRules, late, rules, given)
    /\ Unbranched(e) => /\ Slice(e)[i].rule = added[e][i].rule
                        /\ Slice(e)[i].disableBody = added[e][i].disableBody

LEMMA ViewInvByEntry == ViewInv <=> Entries
BY DEF ViewInv, Entries, CompiledInv, CompiledWith, Proper, ProperWith

LEMMA ListedRules ==
  ASSUME TypeOK, SliceInv
  PROVE  AddedRules \subseteq Rules
BY Typing DEF AddedRules, Addition

LEMMA CompiledGrows ==
  ASSUME NEW compiled, NEW listed, NEW more, NEW changed, NEW table, NEW names,
         listed \subseteq more, CompiledWith(compiled, listed, changed, table, names)
  PROVE  CompiledWith(compiled, more, changed, table, names)
BY DEF CompiledWith

LEMMA ViewInvAfterAppendRule ==
  ASSUME TypeOK, SliceInv, RuleInv, ViewInv, AppendRule
  PROVE  ViewInv'
<1> DEFINE n == Newest
           x == [call |-> n, rule |-> Head(pending), disableBody |-> encoders[n].disableBody]
<1>1. OnlyNewest /\ Head(pending) \in Rules /\ UNCHANGED <<rules, late, given>>
  BY AppendRuleStep DEF facts
<1>2. AddedRules \subseteq AddedRules' /\ Compiling.rule \in AddedRules'
  BY <1>1, AddedAfterAppendRule
<1>3. Entries
  BY ViewInvByEntry
<1>4. /\ Compiling.rule = Head(pending)
      /\ Compiling.disableBody = encoders[n].disableBody
      /\ Compiling.body = IF Head(pending) \in IsRules /\ ~encoders[n].disableBody
                          THEN rules[Head(pending)].fields ELSE NoFields
  BY DEF Compiling, Compile
<1>5. CompiledWith(Compiling, AddedRules', late, rules, given)
  <2>1. encoders[n].disableBody \in BOOLEAN
    BY Typing DEF AnEncoder
  <2>2. Head(pending) \in IsRules =>
          ProperWith(Head(pending), rules[Head(pending)].fields, given[Head(pending)])
    BY DEF RuleInv, Proper, ProperWith
  <2> QED
    BY <1>2, <1>4, <2>1, <2>2 DEF CompiledWith
<1>6. /\ Slice(n)'[encoders[n].len + 1] = Compiling
      /\ \A e \in DOMAIN encoders : \A i \in 1..encoders[e].len :
           \/ Slice(e)'[i] = Slice(e)[i]
           \/ /\ e # n /\ i = encoders[n].len + 1
              /\ Slice(e)'[i] = Compiling
  BY <1>1, EntriesAfterAppendRule
<1>7. ASSUME NEW e \in DOMAIN encoders, NEW i \in 1..encoders[e].len
      PROVE  /\ CompiledWith(Slice(e)'[i], AddedRules', late, rules, given)
             /\ Unbranched(e)' => /\ Slice(e)'[i].rule = added[e][i].rule
                                  /\ Slice(e)'[i].disableBody = added[e][i].disableBody
  <2>1. CASE Slice(e)'[i] = Slice(e)[i]
    <3>1. CompiledWith(Slice(e)[i], AddedRules', late, rules, given)
      BY <1>2, <1>3, CompiledGrows DEF Entries
    <3>2. Unbranched(e)' => Unbranched(e)
      BY <1>1, BranchesAfterAppendRule
    <3> QED
      BY <1>3, <2>1, <3>1, <3>2 DEF Entries
  <2>2. CASE e # n /\ i = encoders[n].len + 1 /\ Slice(e)'[i] = Compiling
    <3>1. encoders[n].len < encoders[e].len
      BY <2>2, Typing DEF AnEncoder
    <3>2. ~Unbranched(e)'
      BY <1>1, <2>2, <3>1, BranchesAfterAppendRule
    <3> QED
      BY <1>5, <2>2, <3>2
  <2> QED
    BY <1>6, <2>1, <2>2
<1>8. ASSUME NEW e \in DOMAIN encoders', NEW i \in 1..encoders'[e].len
      PROVE  /\ CompiledWith(Slice(e)'[i], AddedRules', late', rules', given')
             /\ Unbranched(e)' => /\ Slice(e)'[i].rule = added'[e][i].rule
                                  /\ Slice(e)'[i].disableBody = added'[e][i].disableBody
  <2>1. e \in DOMAIN encoders /\ n \in DOMAIN encoders
    BY <1>1, Typing DEF OnlyNewest
  <2>2. CASE e # n
    BY <1>1, <1>7, <2>1, <2>2 DEF OnlyNewest
  <2>3. CASE e = n
    <3>1. /\ IsSequence(added[n]) /\ encoders[n].len = Len(added[n]) /\ Len(added[n]) \in Nat
          /\ added'[n] = Append(added[n], x) /\ encoders'[n].len = encoders[n].len + 1
      BY <1>1, Typing DEF OnlyNewest
    <3>2. x.rule = Head(pending) /\ x.disableBody = encoders[n].disableBody
      OBVIOUS
    <3> HIDE DEF x
    <3>3. /\ \A j \in 1..encoders[n].len : added'[n][j] = added[n][j]
          /\ added'[n][encoders[n].len + 1] = x
      BY <3>1, Appending
    <3>4. CASE i = encoders[n].len + 1
      <4>1. Slice(e)' = Slice(n)'
        BY <1>1, <2>3 DEF OnlyNewest, Slice
      <4>2. Slice(e)'[i] = Compiling /\ added'[e][i] = x
        BY <1>6, <2>3, <3>3, <3>4, <4>1
      <4> QED
        BY <1>1, <1>4, <1>5, <3>2, <4>2
    <3>5. CASE i \in 1..encoders[n].len
      <4>1. i \in 1..encoders[e].len /\ added'[e][i] = added[e][i]
        BY <2>3, <3>3, <3>5
      <4> QED
        BY <1>1, <1>7, <2>1, <4>1
    <3>6. i = encoders[n].len + 1 \/ i \in 1..encoders[n].len
      BY <2>3, <3>1
    <3> QED
      BY <3>4, <3>5, <3>6
  <2> QED
    BY <2>2, <2>3
<1>9. Entries'
  BY <1>8 DEF Entries
<1> QED
  BY <1>9, ViewInvByEntry, PTL

LEMMA ViewInvAfterDerive ==
  ASSUME TypeOK, SliceInv, ViewInv, NEW e \in DOMAIN encoders, Derived(e),
         UNCHANGED <<arrays, facts>>
  PROVE  ViewInv'
<1>1. Entries /\ UNCHANGED <<rules, late, given>>
  BY ViewInvByEntry DEF facts
<1>2. AddedRules \subseteq AddedRules'
  BY AddedAfterDerive
<1>3. /\ \A d \in DOMAIN encoders : Slice(d)' = Slice(d)
      /\ \A d : d = Newest + 1 => Slice(d)' = Slice(e)
  BY SlicesAfterDerive
<1>4. /\ \A d \in DOMAIN encoders : Unbranched(d)' => Unbranched(d)
      /\ \A d : d = Newest + 1 => (Unbranched(d)' => Unbranched(e))
  BY BranchesAfterDerive
<1>5. ASSUME NEW d \in DOMAIN encoders', NEW i \in 1..encoders'[d].len
      PROVE  /\ CompiledWith(Slice(d)'[i], AddedRules', late', rules', given')
             /\ Unbranched(d)' => /\ Slice(d)'[i].rule = added'[d][i].rule
                                  /\ Slice(d)'[i].disableBody = added'[d][i].disableBody
  <2>1. PICK b \in DOMAIN encoders :
          /\ encoders'[d].len = encoders[b].len /\ added'[d] = added[b]
          /\ Slice(d)' = Slice(b) /\ (Unbranched(d)' => Unbranched(b))
    <3>1. CASE d \in DOMAIN encoders
      BY <1>3, <1>4, <3>1 DEF Derived
    <3>2. CASE d = Newest + 1
      BY <1>3, <1>4, <3>2 DEF Derived
    <3> QED
      BY <3>1, <3>2 DEF Derived
  <2>2. /\ CompiledWith(Slice(b)[i], AddedRules, late, rules, given)
        /\ Unbranched(b) => /\ Slice(b)[i].rule = added[b][i].rule
                            /\ Slice(b)[i].disableBody = added[b][i].disableBody
    BY <1>1, <2>1 DEF Entries
  <2>3. CompiledWith(Slice(b)[i], AddedRules', late, rules, given)
    BY <1>2, <2>2, CompiledGrows
  <2> QED
    BY <1>1, <2>1, <2>2, <2>3
<1>6. Entries'
  BY <1>5 DEF Entries
<1> QED
  BY <1>6, ViewInvByEntry, PTL

LEMMA ViewInvAfterChange ==
  ASSUME TypeOK, SliceInv, ViewInv, NEW r \in Rules, Changed(r)
  PROVE  ViewInv'
<1>1. Entries
  BY ViewInvByEntry
<1>2. UNCHANGED <<arrays, encoders, added>>
  BY DEF Changed, slices
<1>3. AddedRules' = AddedRules /\ AddedRules \subseteq Rules
  BY <1>2, ListedRules DEF AddedRules
<1>4. \A e \in DOMAIN encoders : Slice(e)' = Slice(e) /\ (Unbranched(e)' <=> Unbranched(e))
  BY <1>2 DEF Slice, Unbranched
<1>5. ASSUME NEW compiled, CompiledWith(compiled, AddedRules, late, rules, given)
      PROVE  CompiledWith(compiled, AddedRules, late', rules', given')
  <2> DEFINE q == compiled.rule
  <2>1. q \in AddedRules /\ q \in Rules
    BY <1>3, <1>5 DEF CompiledWith
  <2>2. given[q] \subseteq given'[q]
    BY <2>1 DEF Changed
  <2>3. q \in late' \/ (q \notin late /\ rules'[q] = rules[q])
    BY <2>1 DEF Changed
  <2>4. ProperWith(q, compiled.body, given[q]) => ProperWith(q, compiled.body, given'[q])
    BY <2>2 DEF ProperWith
  <2> QED
    BY <1>5, <2>1, <2>3, <2>4 DEF CompiledWith
<1>6. Entries'
  BY <1>1, <1>2, <1>3, <1>4, <1>5 DEF Entries
<1> QED
  BY <1>6, ViewInvByEntry, PTL

-----------------------------------------------------------------------------
(* The inductive invariant *)

LEMMA InitTypeOK ==
  ASSUME Init
  PROVE  TypeOK
<1>1. \A r \in Rules : ARule(rules[r])
  <2>1. \A err \in Errors : StatusCodeFor(err) \in Int
    BY EncoderConstants DEF StatusCodeFor
  <2>2. \A r \in IsRules : Target[r] \in Errors
    BY EncoderConstants
  <2> SUFFICES ASSUME NEW r \in Rules PROVE ARule(rules[r])
    OBVIOUS
  <2>3. rules[r] = IF r \in IsRules THEN NewIs(r) ELSE NewAs
    BY DEF Init
  <2>4. r \in IsRules => ARule(NewIs(r))
    <3> SUFFICES ASSUME r \in IsRules PROVE ARule(NewIs(r))
      OBVIOUS
    <3> DEFINE fields == With(With(Field("code", StatusCodeFor(Target[r])),
                                   Field("cause", Target[r])), ErrorFields[Target[r]])
    <3>1. NewIs(r) = [code |-> StatusCodeFor(Target[r]), header |-> ErrorHeaders[Target[r]],
                      fields |-> fields]
      BY Zenon DEF NewIs
    <3> HIDE DEF fields
    <3> QED
      BY <2>1, <2>2, <3>1 DEF ARule
  <2>5. ARule(NewAs)
    BY DEF ARule, NewAs
  <2> QED
    BY <2>3, <2>4, <2>5
<1>2. rules = [r \in Rules |-> rules[r]]
  BY DEF Init
<1>3. rules = [r \in Rules |-> [code   |-> rules[r].code,
                                header |-> rules[r].header,
                                fields |-> rules[r].fields]]
  BY <1>1, <1>2 DEF ARule
<1>4. /\ arrays = <<>> /\ pending = <<>> /\ late = {}
      /\ given = [r \in Rules |-> {}]
      /\ encoders = << [array |-> 0, len |-> 0, disableBody |-> FALSE] >>
      /\ added = << <<>> >>
  BY DEF Init
<1>5. IsSequence(arrays) /\ DOMAIN arrays = {}
  <2>1. <<>> \in Seq({}) /\ Len(<<>>) = 0
    BY EmptySeq
  <2>2. IsSequence(arrays) /\ Len(arrays) = 0
    BY <1>4, <2>1, SequencesAreSequences
  <2> QED
    BY <2>2, SequenceLength
<1>6. pending \in Seq(Rules)
  BY <1>4, EmptySeq
<1>7. encoders \in Seq([array : Nat, len : Nat, disableBody : BOOLEAN])
  BY <1>4
<1>8. added \in Seq(Seq([call : Nat, rule : Rules, disableBody : BOOLEAN]))
  <2>1. <<>> \in Seq([call : Nat, rule : Rules, disableBody : BOOLEAN])
    BY EmptySeq
  <2> QED
    BY <1>4, <2>1
<1>9. given = [r \in Rules |-> given[r]] /\ late \subseteq Rules
  BY <1>4
<1> QED
  BY <1>1, <1>3, <1>5, <1>6, <1>7, <1>8, <1>9 DEF TypeOK, ARule

LEMMA InitSliceInv ==
  ASSUME Init
  PROVE  SliceInv
<1>1. /\ encoders = << [array |-> 0, len |-> 0, disableBody |-> FALSE] >>
      /\ added = << <<>> >>
  BY DEF Init
<1>2. Len(<<>>) = 0 /\ DOMAIN <<>> = {}
  OBVIOUS
<1>3. /\ Len(encoders) = 1 /\ Len(added) = 1 /\ DOMAIN encoders = {1}
      /\ encoders[1].array = 0 /\ encoders[1].len = 0 /\ added[1] = <<>>
  BY <1>1
<1>4. encoders # <<>>
  BY <1>2, <1>3
<1> QED
  BY <1>2, <1>3, <1>4 DEF SliceInv

LEMMA InitRuleInv ==
  ASSUME Init
  PROVE  RuleInv
<1>1. ASSUME NEW r \in Rules PROVE ProperRule(r, rules[r], given[r])
  <2>1. given[r] = {} /\ rules[r] = IF r \in IsRules THEN NewIs(r) ELSE NewAs
    BY DEF Init
  <2>2. CASE r \in IsRules
    <3> DEFINE target == Target[r]
               coded  == Field("code", StatusCodeFor(target))
               caused == With(coded, Field("cause", target))
               fields == With(caused, ErrorFields[target])
    <3>1. DOMAIN coded = {"code"} /\ coded["code"] = StatusCodeFor(target)
      BY FieldProperties
    <3>2. /\ DOMAIN Field("cause", target) = {"cause"}
          /\ Field("cause", target)["cause"] = target
      BY FieldProperties
    <3>3. /\ DOMAIN caused = {"code", "cause"}
          /\ caused["code"] = StatusCodeFor(target) /\ caused["cause"] = target
      <4> HIDE DEF coded
      <4> DEFINE cause == Field("cause", target)
      <4>1. /\ DOMAIN With(coded, cause) = DOMAIN coded \cup DOMAIN cause
            /\ \A n \in DOMAIN cause : With(coded, cause)[n] = cause[n]
            /\ \A n \in DOMAIN coded \ DOMAIN cause : With(coded, cause)[n] = coded[n]
        BY WithProperties, Zenon
      <4> HIDE DEF cause
      <4>2. DOMAIN cause = {"cause"} /\ cause["cause"] = target
        BY <3>2 DEF cause
      <4>3. /\ DOMAIN With(coded, cause) = {"code", "cause"}
            /\ With(coded, cause)["code"] = StatusCodeFor(target)
            /\ With(coded, cause)["cause"] = target
        BY <3>1, <4>1, <4>2
      <4> QED
        BY <4>3 DEF cause
    <3> HIDE DEF caused
    <3>4. /\ DOMAIN fields = DOMAIN caused \cup DOMAIN ErrorFields[target]
          /\ \A n \in DOMAIN caused \ DOMAIN ErrorFields[target] : fields[n] = caused[n]
      BY WithProperties, Zenon
    <3>5. /\ rules[r].code = StatusCodeFor(target) /\ rules[r].fields = fields
          /\ rules[r].header = ErrorHeaders[target]
      BY <2>1, <2>2 DEF NewIs, caused
    <3> HIDE DEF fields
    <3> QED
      BY <2>2, <3>3, <3>4, <3>5 DEF ProperRule
  <2>3. CASE r \notin IsRules
    BY <2>1, <2>3 DEF ProperRule, NewAs, NoFields
  <2> QED
    BY <2>2, <2>3
<1> QED
  BY <1>1, RuleInvByRule DEF ProperRules

LEMMA InitViewInv ==
  ASSUME Init
  PROVE  ViewInv
<1>1. encoders = << [array |-> 0, len |-> 0, disableBody |-> FALSE] >>
  BY DEF Init
<1>2. DOMAIN encoders = {1} /\ encoders[1].len = 0
  BY <1>1
<1>3. \A e \in DOMAIN encoders : 1..encoders[e].len = {}
  BY <1>2
<1> QED
  BY <1>3 DEF ViewInv

LEMMA EncodeStep ==
  ASSUME NEW e \in DOMAIN encoders, NEW err \in Errors, Encode(e, err)
  PROVE  /\ Idle /\ response' = Handled(e, err)
         /\ UNCHANGED <<slices, facts>>
         /\ response'.encoder = e /\ response'.err = err
<1>1. Handled(e, err).encoder = e /\ Handled(e, err).err = err
  BY DEF Handled, Fallback, IsResponse, AsResponse, Respond
<1> QED
  BY <1>1 DEF Encode

\* The steps, with what they are all known to leave.
LEMMA Steps ==
  ASSUME TypeOK, SliceInv, RuleInv, [Next]_vars
  PROVE  \/ AppendRule
         \/ \E r \in Rules : Rewritten(r)
         \/ \E e \in DOMAIN encoders :
              /\ Derived(e) /\ Idle
              /\ encoders' \in Seq(AnEncoder) /\ added' \in Seq(Seq(Addition))
              /\ Len(added') = Len(encoders') /\ pending' \in Seq(Rules)
              /\ UNCHANGED <<arrays, facts, response>>
         \/ \E e \in DOMAIN encoders : \E err \in Errors : Encode(e, err)
         \/ UNCHANGED vars
<1>1. ASSUME NEW e \in DOMAIN encoders, NEW v \in BOOLEAN, Body(e, v)
      PROVE  /\ Derived(e) /\ Idle
             /\ encoders' \in Seq(AnEncoder) /\ added' \in Seq(Seq(Addition))
             /\ Len(added') = Len(encoders') /\ pending' \in Seq(Rules)
             /\ UNCHANGED <<arrays, facts, response>>
  BY <1>1, BodyStep
<1>2. ASSUME NEW e \in DOMAIN encoders, NEW ruleList \in RuleLists, Add(e, ruleList)
      PROVE  /\ Derived(e) /\ Idle
             /\ encoders' \in Seq(AnEncoder) /\ added' \in Seq(Seq(Addition))
             /\ Len(added') = Len(encoders') /\ pending' \in Seq(Rules)
             /\ UNCHANGED <<arrays, facts, response>>
  BY <1>2, AddStep
<1> QED
  BY <1>1, <1>2, Zenon DEF Next, Rewritten

LEMMA ResponseInvKept ==
  ASSUME TypeOK, SliceInv, RuleInv, ResponseInv, [Next]_vars
  PROVE  ResponseInv'
<1>1. Newest \in DOMAIN encoders /\ Newest \in Nat /\ DOMAIN encoders = 1..Newest
  BY Typing DEF Newest
<1>2. CASE AppendRule
  <2>1. /\ response' = response /\ DOMAIN encoders' = DOMAIN encoders
        /\ Newest' = Newest /\ ~Idle
    BY <1>2, AppendRuleStep DEF OnlyNewest, Idle
  <2> QED
    BY <2>1 DEF ResponseInv, Encoded
<1>3. ASSUME NEW r \in Rules, Rewritten(r) PROVE ResponseInv'
  <2>1. Changed(r)
    BY <1>3, RewrittenStep
  <2>2. UNCHANGED <<response, encoders, pending>>
    BY <2>1 DEF Changed, slices
  <2> QED
    BY <2>2 DEF ResponseInv, Encoded, Newest, Idle
<1>4. ASSUME NEW e \in DOMAIN encoders, Derived(e), response' = response PROVE ResponseInv'
  <2>1. DOMAIN encoders \subseteq DOMAIN encoders' /\ Newest' \notin DOMAIN encoders
    BY <1>1, <1>4 DEF Derived
  <2> QED
    BY <1>4, <2>1 DEF ResponseInv, Encoded
<1>5. ASSUME NEW e \in DOMAIN encoders, NEW err \in Errors, Encode(e, err) PROVE ResponseInv'
  <2>1. Idle /\ UNCHANGED slices /\ response'.encoder = e /\ response'.err = err
    BY <1>5, EncodeStep
  <2>2. DOMAIN encoders' = DOMAIN encoders /\ Idle'
    BY <2>1 DEF slices, Idle
  <2> QED
    BY <2>1, <2>2 DEF ResponseInv
<1>6. CASE UNCHANGED vars
  BY <1>6 DEF vars, slices, ResponseInv, Encoded, Newest, Idle
<1> QED
  BY <1>2, <1>3, <1>4, <1>5, <1>6, Steps

LEMMA EncoderInvStutters ==
  ASSUME TypeOK, SliceInv, RuleInv, ViewInv, UNCHANGED <<slices, facts>>
  PROVE  TypeOK' /\ SliceInv' /\ RuleInv' /\ ViewInv'
<1>1. UNCHANGED <<arrays, encoders, pending, added, rules, late, given>>
  BY DEF slices, facts
<1>2. TypeOK'
  BY <1>1 DEF TypeOK
<1>3. SliceInv'
  BY <1>1 DEF SliceInv, Slice
<1>4. RuleInv'
  BY <1>1 DEF RuleInv, Proper
<1>5. ViewInv'
  <2>1. AddedRules' = AddedRules
    BY <1>1 DEF AddedRules
  <2>2. \A e \in DOMAIN encoders : Slice(e)' = Slice(e)
    BY <1>1 DEF Slice
  <2>3. \A e \in DOMAIN encoders : Unbranched(e)' => Unbranched(e)
    BY <1>1 DEF Unbranched
  <2>4. Entries
    BY ViewInvByEntry
  <2>5. Entries'
    BY <1>1, <2>1, <2>2, <2>3, <2>4 DEF Entries
  <2> QED
    BY <2>5, ViewInvByEntry, PTL
<1> QED
  BY <1>2, <1>3, <1>4, <1>5

\* The slices hold what Add made of the rules, in the order of the calls where
\* nothing branched, and the rules have the fields they were given (Body, Add, the
\* methods of isEncoder and asEncoder).
THEOREM EncoderInvariant == Spec => []EncoderInv
<1>1. Init => EncoderInv
  <2> SUFFICES ASSUME Init PROVE EncoderInv
    OBVIOUS
  <2>1. ResponseInv
    BY DEF Init, ResponseInv, Encoded
  <2> QED
    BY <2>1, InitTypeOK, InitSliceInv, InitRuleInv, InitViewInv DEF EncoderInv
<1>2. EncoderInv /\ [Next]_vars => EncoderInv'
  <2> SUFFICES ASSUME EncoderInv, [Next]_vars PROVE EncoderInv'
    OBVIOUS
  <2>1. TypeOK /\ SliceInv /\ RuleInv /\ ViewInv /\ ResponseInv
    BY DEF EncoderInv
  <2>2. ResponseInv'
    BY <2>1, ResponseInvKept
  <2>3. CASE AppendRule
    <3>1. TypeOK' /\ SliceInv' /\ ViewInv'
      BY <2>1, <2>3, TypeOKAfterAppendRule, SliceInvAfterAppendRule, ViewInvAfterAppendRule
    <3>2. UNCHANGED <<rules, given>>
      BY <2>1, <2>3, AppendRuleStep DEF facts
    <3>3. RuleInv'
      BY <2>1, <3>2 DEF RuleInv, Proper
    <3> QED
      BY <2>2, <3>1, <3>3 DEF EncoderInv
  <2>4. ASSUME NEW r \in Rules, Rewritten(r) PROVE EncoderInv'
    <3>1. Changed(r) /\ TypeOK' /\ RuleInv'
      BY <2>1, <2>4, RewrittenStep
    <3>2. ViewInv'
      BY <2>1, <3>1, ViewInvAfterChange
    <3>3. UNCHANGED <<arrays, encoders, added>>
      BY <3>1 DEF Changed, slices
    <3>4. SliceInv'
      BY <2>1, <3>3 DEF SliceInv, Slice
    <3> QED
      BY <2>2, <3>1, <3>2, <3>4 DEF EncoderInv
  <2>5. ASSUME NEW e \in DOMAIN encoders, Derived(e),
               encoders' \in Seq(AnEncoder), added' \in Seq(Seq(Addition)),
               Len(added') = Len(encoders'), pending' \in Seq(Rules),
               UNCHANGED <<arrays, facts, response>>
        PROVE  EncoderInv'
    <3>1. TypeOK' /\ SliceInv' /\ ViewInv'
      BY <2>1, <2>5, TypeOKAfterDerive, SliceInvAfterDerive, ViewInvAfterDerive
    <3>2. UNCHANGED <<rules, given>>
      BY <2>5 DEF facts
    <3>3. RuleInv'
      BY <2>1, <3>2 DEF RuleInv, Proper
    <3> QED
      BY <2>2, <3>1, <3>3 DEF EncoderInv
  <2>6. ASSUME UNCHANGED <<slices, facts>> PROVE EncoderInv'
    BY <2>1, <2>2, <2>6, EncoderInvStutters DEF EncoderInv
  <2>7. ASSUME NEW e \in DOMAIN encoders, NEW err \in Errors, Encode(e, err)
        PROVE  EncoderInv'
    BY <2>6, <2>7, EncodeStep
  <2>8. CASE UNCHANGED vars
    BY <2>6, <2>8 DEF vars
  <2> QED
    BY <2>1, <2>3, <2>4, <2>5, <2>7, <2>8, Steps
<1> QED
  BY <1>1, <1>2, PTL DEF Spec

-----------------------------------------------------------------------------
(* What Encode answers *)

LEMMA ViewEntries ==
  ASSUME TypeOK, SliceInv, NEW e \in DOMAIN encoders
  PROVE  /\ IsSequence(View(e)) /\ DOMAIN View(e) = 1..encoders[e].len
         /\ \A i \in 1..encoders[e].len : View(e)[i] = Slice(e)[i]
<1> DEFINE n == encoders[e].len
           S == {Slice(e)[i] : i \in 1..n}
<1>1. n \in Nat
  BY Typing DEF AnEncoder
<1>2. \A i \in 1..n : Slice(e)[i] \in S
  OBVIOUS
<1> HIDE DEF n, S
<1>3. /\ SubSeq(Slice(e), 1, n) \in Seq(S)
      /\ Len(SubSeq(Slice(e), 1, n)) = IF 1 <= n THEN n - 1 + 1 ELSE 0
      /\ \A i \in 1..(n - 1 + 1) : SubSeq(Slice(e), 1, n)[i] = Slice(e)[1 + i - 1]
  BY <1>1, <1>2, SubSeqProperties
<1>4. Len(SubSeq(Slice(e), 1, n)) = n
  BY <1>1, <1>3
<1>5. /\ IsSequence(SubSeq(Slice(e), 1, n)) /\ DOMAIN SubSeq(Slice(e), 1, n) = 1..n
  BY <1>3, <1>4, SequencesAreSequences
<1>6. \A i \in 1..n : SubSeq(Slice(e), 1, n)[i] = Slice(e)[i]
  BY <1>1, <1>3
<1> QED
  BY <1>5, <1>6 DEF View, n

LEMMA FirstMatchIsFirst ==
  ASSUME NEW sequence, NEW err, NEW n \in Nat, DOMAIN sequence = 1..n,
         Matches(sequence, err) # {}
  PROVE  /\ FirstMatch(sequence, err) \in Matches(sequence, err)
         /\ \A j \in Matches(sequence, err) : FirstMatch(sequence, err) <= j
<1> DEFINE T == Matches(sequence, err)
<1>1. T \subseteq Nat
  BY DEF Matches
<1>2. \E i \in T : \A j \in T : i <= j
  <2> HIDE DEF T
  <2>1. T # {}
    BY DEF T
  <2> QED
    BY <1>1, <2>1, Least
<1> QED
  BY <1>2 DEF FirstMatch

\* The answer comes from the first entry that finds the error, or from none.
ByEntry(e, err, i) ==
  LET compiled == Slice(e)[i]
  IN  /\ Found[compiled.rule][err] # NoError
      /\ \A j \in 1..encoders[e].len : Found[Slice(e)[j].rule][err] # NoError => i <= j
      /\ Handled(e, err) = IF compiled.rule \in IsRules THEN IsResponse(e, compiled, err)
                                                        ELSE AsResponse(e, compiled, err)

ByNone(e, err) ==
  /\ \A j \in 1..encoders[e].len : Found[Slice(e)[j].rule][err] = NoError
  /\ Handled(e, err) = Fallback(e, err)

LEMMA Answers ==
  ASSUME TypeOK, SliceInv, NEW e \in DOMAIN encoders, NEW err
  PROVE  ByNone(e, err) \/ \E i \in 1..encoders[e].len : ByEntry(e, err, i)
<1>1. /\ DOMAIN View(e) = 1..encoders[e].len /\ encoders[e].len \in Nat
      /\ \A i \in 1..encoders[e].len : View(e)[i] = Slice(e)[i]
  BY ViewEntries, Typing DEF AnEncoder
<1>2. \A j : j \in Matches(View(e), err) <=>
               j \in 1..encoders[e].len /\ Found[Slice(e)[j].rule][err] # NoError
  BY <1>1 DEF Matches
<1>3. CASE Matches(View(e), err) = {}
  BY <1>2, <1>3 DEF ByNone, Handled
<1>4. CASE Matches(View(e), err) # {}
  <2> DEFINE i == FirstMatch(View(e), err)
  <2>1. i \in Matches(View(e), err) /\ \A j \in Matches(View(e), err) : i <= j
    BY <1>1, <1>4, FirstMatchIsFirst
  <2>2. i \in 1..encoders[e].len /\ View(e)[i] = Slice(e)[i]
    BY <1>1, <1>2, <2>1
  <2>3. Handled(e, err) = IF Slice(e)[i].rule \in IsRules THEN IsResponse(e, Slice(e)[i], err)
                                                          ELSE AsResponse(e, Slice(e)[i], err)
    BY <1>4, <2>2 DEF Handled
  <2> HIDE DEF i
  <2>4. ByEntry(e, err, i)
    BY <1>2, <2>1, <2>3 DEF ByEntry
  <2> QED
    BY <2>2, <2>4
<1> QED
  BY <1>3, <1>4

\* The fields that an answer made in Encode is built of, from those of the rule.
LEMMA AsBodyFields ==
  ASSUME NEW rule, NEW target
  PROVE  LET body == AsBody(rule, target)
             own  == DOMAIN ErrorFields[target]
         IN  /\ DOMAIN body = DOMAIN rule.fields \cup {"code", "cause"} \cup own
             /\ "code" \notin own => body["code"] = AsStatus(rule, target)
             /\ "cause" \notin own \cup DOMAIN rule.fields => body["cause"] = target
<1> DEFINE own    == ErrorFields[target]
           code   == Field("code", AsStatus(rule, target))
           cause  == Field("cause", target)
           coded  == With(rule.fields, code)
           caused == IF "cause" \in DOMAIN coded THEN coded ELSE With(coded, cause)
           body   == With(caused, own)
<1>1. DOMAIN code = {"code"} /\ code["code"] = AsStatus(rule, target)
  BY FieldProperties
<1>2. DOMAIN cause = {"cause"} /\ cause["cause"] = target
  BY FieldProperties
<1> HIDE DEF code, cause
<1>3. /\ DOMAIN coded = DOMAIN rule.fields \cup DOMAIN code
      /\ \A n \in DOMAIN code : coded[n] = code[n]
  BY WithProperties, Zenon
<1> HIDE DEF coded
<1>4. /\ DOMAIN With(coded, cause) = DOMAIN coded \cup DOMAIN cause
      /\ \A n \in DOMAIN cause : With(coded, cause)[n] = cause[n]
      /\ \A n \in DOMAIN coded \ DOMAIN cause : With(coded, cause)[n] = coded[n]
  BY WithProperties, Zenon
<1>5. /\ DOMAIN caused = DOMAIN rule.fields \cup {"code", "cause"}
      /\ caused["code"] = AsStatus(rule, target)
      /\ "cause" \notin DOMAIN rule.fields => caused["cause"] = target
  <2>1. CASE "cause" \in DOMAIN coded
    BY <1>1, <1>3, <2>1
  <2>2. CASE "cause" \notin DOMAIN coded
    BY <1>1, <1>2, <1>3, <1>4, <2>2
  <2> QED
    BY <2>1, <2>2
<1> HIDE DEF caused
<1>6. /\ DOMAIN body = DOMAIN caused \cup DOMAIN own
      /\ \A n \in DOMAIN caused \ DOMAIN own : body[n] = caused[n]
  BY WithProperties, Zenon
<1>7. AsBody(rule, target) = body
  BY Zenon DEF AsBody, caused, coded, code, cause
<1> HIDE DEF body
<1>8. /\ DOMAIN body = DOMAIN rule.fields \cup {"code", "cause"} \cup DOMAIN own
      /\ "code" \notin DOMAIN own => body["code"] = AsStatus(rule, target)
      /\ "cause" \notin DOMAIN own \cup DOMAIN rule.fields => body["cause"] = target
  BY <1>5, <1>6
<1> QED
  BY <1>7, <1>8

FallbackFields(err) ==
  With(With(Field("code", StatusCodeFor(err)), Field("cause", err)), ErrorFields[err])

LEMMA FallbackBodyFields ==
  ASSUME NEW err
  PROVE  LET body == FallbackFields(err)
             own  == DOMAIN ErrorFields[err]
         IN  /\ DOMAIN body = {"code", "cause"} \cup own
             /\ "code" \notin own => body["code"] = StatusCodeFor(err)
             /\ "cause" \notin own => body["cause"] = err
<1> DEFINE own    == ErrorFields[err]
           code   == Field("code", StatusCodeFor(err))
           cause  == Field("cause", err)
           caused == With(code, cause)
           body   == With(caused, own)
<1>1. DOMAIN code = {"code"} /\ code["code"] = StatusCodeFor(err)
  BY FieldProperties
<1>2. DOMAIN cause = {"cause"} /\ cause["cause"] = err
  BY FieldProperties
<1> HIDE DEF code, cause
<1>3. /\ DOMAIN caused = DOMAIN code \cup DOMAIN cause
      /\ \A n \in DOMAIN cause : caused[n] = cause[n]
      /\ \A n \in DOMAIN code \ DOMAIN cause : caused[n] = code[n]
  BY WithProperties, Zenon
<1> HIDE DEF caused
<1>4. /\ DOMAIN body = DOMAIN caused \cup DOMAIN own
      /\ \A n \in DOMAIN caused \ DOMAIN own : body[n] = caused[n]
  BY WithProperties, Zenon
<1>5. FallbackFields(err) = body
  BY Zenon DEF FallbackFields, caused, code, cause
<1> HIDE DEF body
<1>6. /\ DOMAIN body = {"code", "cause"} \cup DOMAIN own
      /\ "code" \notin DOMAIN own => body["code"] = StatusCodeFor(err)
      /\ "cause" \notin DOMAIN own => body["cause"] = err
  BY <1>1, <1>2, <1>3, <1>4
<1> QED
  BY <1>5, <1>6

\* What an answer is made of, by the kind of rule that gave it.
Panics(a) == a.panicked <=> a.status \notin 100..999

IsAnswer(a, compiled) ==
  LET r == compiled.rule
  IN  /\ a.by = r /\ a.status = rules[r].code /\ a.header = rules[r].header
      /\ a.body # NoFields => /\ ProperWith(r, a.body, given[r])
                              /\ r \in late \/ a.body = rules[r].fields

AsAnswer(a, compiled, err) ==
  LET r      == compiled.rule
      target == Found[r][err]
      own    == DOMAIN ErrorFields[target]
  IN  /\ a.by = r /\ a.status \in Int /\ a.status >= 100
      /\ a.header = rules[r].header \cup ErrorHeaders[target]
      /\ a.body # NoFields =>
           /\ DOMAIN a.body = DOMAIN rules[r].fields \cup {"code", "cause"} \cup own
           /\ "code" \notin own => a.body["code"] = a.status
           /\ "cause" \notin own \cup DOMAIN rules[r].fields => a.body["cause"] = target

FallbackAnswer(a, err) ==
  LET own == DOMAIN ErrorFields[err]
  IN  /\ a.by = "fallback" /\ a.status \in Int /\ a.status >= 100
      /\ a.header = ErrorHeaders[err]
      /\ a.body # NoFields =>
           /\ DOMAIN a.body = {"code", "cause"} \cup own
           /\ "code" \notin own => a.body["code"] = a.status
           /\ "cause" \notin own => a.body["cause"] = err

LEMMA ReportedStatus ==
  ASSUME NEW err \in Errors
  PROVE  StatusCodeFor(err) \in Int /\ StatusCodeFor(err) >= 100
BY EncoderConstants DEF StatusCodeFor

LEMMA Responding ==
  ASSUME NEW e, NEW by, NEW err, NEW status, NEW body, NEW header, NEW a,
         a = Respond(e, by, err, status, body, header)
  PROVE  /\ a.by = by /\ a.status = status /\ a.header = header /\ Panics(a)
         /\ a.panicked => a.body = NoFields
         /\ ~a.panicked => a.body = body
<1> DEFINE panicked == status \notin 100..999
           sent == IF panicked THEN NoFields ELSE body
<1>1. a = [encoder |-> e, by |-> by, err |-> err, status |-> status, panicked |-> panicked,
           body |-> sent, header |-> header]
  BY DEF Respond
<1> HIDE DEF panicked, sent
<1>2. /\ a.by = by /\ a.status = status /\ a.header = header
      /\ a.panicked = panicked /\ a.body = sent
  BY <1>1
<1>3. Panics(a)
  <2>1. a.panicked <=> panicked
    BY <1>2
  <2>2. panicked <=> a.status \notin 100..999
    BY <1>2 DEF panicked
  <2> QED
    BY <2>1, <2>2, Zenon DEF Panics
<1>4. (a.panicked => a.body = NoFields) /\ (~a.panicked => a.body = body)
  BY <1>2, Zenon DEF sent
<1> QED
  BY <1>2, <1>3, <1>4

LEMMA AnswerOfIs ==
  ASSUME TypeOK, SliceInv, RuleInv, ViewInv, NEW e \in DOMAIN encoders, NEW err \in Errors,
         NEW i \in 1..encoders[e].len, ByEntry(e, err, i), Slice(e)[i].rule \in IsRules
  PROVE  /\ IsAnswer(Handled(e, err), Slice(e)[i]) /\ Panics(Handled(e, err))
         /\ Handled(e, err).body = NoFields <=>
              Slice(e)[i].disableBody \/ Handled(e, err).panicked
<1> DEFINE c == Slice(e)[i]
           a == Handled(e, err)
           r == c.rule
<1>1. CompiledWith(c, AddedRules, late, rules, given)
  BY ViewInvByEntry DEF Entries
<1>2. a = Respond(e, r, err, rules[r].code, c.body, rules[r].header)
  BY DEF ByEntry, IsResponse
<1>3. /\ a.by = r /\ a.status = rules[r].code /\ a.header = rules[r].header
      /\ Panics(a)
      /\ (a.panicked => a.body = NoFields) /\ (~a.panicked => a.body = c.body)
  <2> DEFINE status == rules[r].code
             sent   == c.body
             header == rules[r].header
  <2>1. a = Respond(e, r, err, status, sent, header)
    BY <1>2
  <2> HIDE DEF a, status, sent, header, r, c
  <2>2. /\ a.by = r /\ a.status = status /\ a.header = header /\ Panics(a)
        /\ a.panicked => a.body = NoFields
        /\ ~a.panicked => a.body = sent
    BY <2>1, Responding
  <2> QED
    BY <2>2 DEF status, sent, header
<1> HIDE DEF a
<1>4. c.disableBody => c.body = NoFields
  BY <1>1 DEF CompiledWith
<1>5. ~c.disableBody => /\ ProperWith(r, c.body, given[r])
                        /\ r \in late \/ c.body = rules[r].fields
  BY <1>1 DEF CompiledWith
<1>6. ~c.disableBody => c.body # NoFields
  BY <1>5 DEF ProperWith, NoFields
<1> HIDE DEF c
<1>7. a.body # NoFields => a.body = c.body /\ ~c.disableBody
  BY <1>3, <1>4
<1>8. IsAnswer(a, c)
  BY <1>3, <1>5, <1>7 DEF IsAnswer
<1>9. Panics(a) /\ (a.body = NoFields <=> c.disableBody \/ a.panicked)
  BY <1>3, <1>4, <1>6
<1> QED
  BY <1>8, <1>9 DEF a, c

LEMMA AnswerOfAs ==
  ASSUME TypeOK, SliceInv, RuleInv, ViewInv, NEW e \in DOMAIN encoders, NEW err \in Errors,
         NEW i \in 1..encoders[e].len, ByEntry(e, err, i), Slice(e)[i].rule \notin IsRules
  PROVE  /\ Slice(e)[i].rule \in AsRules
         /\ AsAnswer(Handled(e, err), Slice(e)[i], err) /\ Panics(Handled(e, err))
         /\ Handled(e, err).body = NoFields <=>
              Slice(e)[i].disableBody \/ Handled(e, err).panicked
<1> DEFINE c == Slice(e)[i]
           a == Handled(e, err)
           r == c.rule
           target == Found[r][err]
           body == AsBody(rules[r], target)
           status == AsStatus(rules[r], target)
<1>1. CompiledWith(c, AddedRules, late, rules, given)
  BY ViewInvByEntry DEF Entries
<1>2. r \in AsRules
  BY <1>1, ListedRules DEF CompiledWith, Rules
<1>3. target \in Errors
  BY <1>2, EncoderConstants DEF ByEntry, Rules
<1>4. rules[r].code \in Int
  BY <1>2 DEF TypeOK, Rules
<1>5. status \in Int /\ status >= 100
  BY <1>3, <1>4, ReportedStatus DEF AsStatus
<1>6. a = Respond(e, r, err, status, IF c.disableBody THEN NoFields ELSE body,
                  rules[r].header \cup ErrorHeaders[target])
  BY DEF ByEntry, AsResponse
<1>7. /\ a.by = r /\ a.status = status
      /\ a.header = rules[r].header \cup ErrorHeaders[target]
      /\ Panics(a) /\ (a.panicked => a.body = NoFields)
      /\ ~a.panicked => a.body = IF c.disableBody THEN NoFields ELSE body
  <2> DEFINE sent == IF c.disableBody THEN NoFields ELSE body
             header == rules[r].header \cup ErrorHeaders[target]
  <2>1. a = Respond(e, r, err, status, sent, header)
    BY <1>6
  <2> HIDE DEF a, status, body, sent, header, target, r, c
  <2>2. /\ a.by = r /\ a.status = status /\ a.header = header /\ Panics(a)
        /\ a.panicked => a.body = NoFields
        /\ ~a.panicked => a.body = sent
    BY <2>1, Responding
  <2> QED
    BY <2>2 DEF sent, header
<1>8. /\ DOMAIN body = DOMAIN rules[r].fields \cup {"code", "cause"} \cup DOMAIN ErrorFields[target]
      /\ "code" \notin DOMAIN ErrorFields[target] => body["code"] = status
      /\ "cause" \notin DOMAIN ErrorFields[target] \cup DOMAIN rules[r].fields =>
           body["cause"] = target
  BY AsBodyFields, Zenon
<1> HIDE DEF a, status, body
<1>9. body # NoFields
  BY <1>8 DEF NoFields
<1>10. a.body # NoFields => a.body = body
  BY <1>7
<1>11. AsAnswer(a, c, err)
  BY <1>5, <1>7, <1>8, <1>10 DEF AsAnswer
<1>12. Panics(a) /\ (a.body = NoFields <=> c.disableBody \/ a.panicked)
  BY <1>7, <1>9
<1> QED
  BY <1>2, <1>11, <1>12 DEF a

LEMMA AnswerOfNone ==
  ASSUME NEW e \in DOMAIN encoders, NEW err \in Errors, ByNone(e, err)
  PROVE  FallbackAnswer(Handled(e, err), err) /\ Panics(Handled(e, err))
<1> DEFINE a == Handled(e, err)
           body == FallbackFields(err)
           status == StatusCodeFor(err)
<1>1. a = Respond(e, "fallback", err, status,
                  IF encoders[e].disableBody THEN NoFields ELSE body, ErrorHeaders[err])
  BY DEF ByNone, Fallback, FallbackFields
<1>2. /\ a.by = "fallback" /\ a.status = status /\ a.header = ErrorHeaders[err]
      /\ Panics(a) /\ (a.panicked => a.body = NoFields)
      /\ ~a.panicked => a.body = IF encoders[e].disableBody THEN NoFields ELSE body
  <2> HIDE DEF a, status, body
  <2> QED
    BY <1>1, Responding
<1>3. /\ DOMAIN body = {"code", "cause"} \cup DOMAIN ErrorFields[err]
      /\ "code" \notin DOMAIN ErrorFields[err] => body["code"] = status
      /\ "cause" \notin DOMAIN ErrorFields[err] => body["cause"] = err
  BY FallbackBodyFields, Zenon
<1>4. status \in Int /\ status >= 100
  BY ReportedStatus
<1> HIDE DEF a, status, body
<1>5. a.body # NoFields => a.body = body
  BY <1>2
<1>6. FallbackAnswer(a, err)
  BY <1>2, <1>3, <1>4, <1>5 DEF FallbackAnswer
<1> QED
  BY <1>2, <1>6 DEF a

-----------------------------------------------------------------------------
(* The properties *)

\* An answer stands, and so does what is true of it.
Stands ==
  /\ response' = response
  /\ late \subseteq late' /\ \A r \in Rules : given[r] \subseteq given'[r]
  /\ Encoded =>
       \A e : e = response.encoder =>
         added'[e] = added[e] /\ (Unbranched(e)' => Unbranched(e))

LEMMA AnswersStand ==
  ASSUME EncoderInv, [Next]_vars
  PROVE  Stands \/ \E e \in DOMAIN encoders : \E err \in Errors : Encode(e, err)
<1>1. TypeOK /\ SliceInv /\ RuleInv /\ ResponseInv
  BY DEF EncoderInv
<1>2. Encoded => response.encoder \in DOMAIN encoders /\ (~Idle => response.encoder # Newest)
  BY <1>1 DEF ResponseInv
<1>3. ASSUME UNCHANGED <<rules, late, given>>
      PROVE  late \subseteq late' /\ \A r \in Rules : given[r] \subseteq given'[r]
  BY <1>3
<1>4. CASE AppendRule
  <2>1. /\ OnlyNewest /\ ~Idle /\ response' = response
        /\ UNCHANGED <<rules, late, given>>
    BY <1>1, <1>4, AppendRuleStep DEF facts, Idle
  <2>2. \A e \in DOMAIN encoders : Unbranched(e)' => Unbranched(e)
    BY <1>1, <2>1, BranchesAfterAppendRule
  <2>3. \A e \in DOMAIN encoders : e # Newest => added'[e] = added[e]
    BY <2>1 DEF OnlyNewest
  <2> QED
    BY <1>2, <1>3, <2>1, <2>2, <2>3 DEF Stands
<1>5. ASSUME NEW r \in Rules, Rewritten(r) PROVE Stands
  <2>1. Changed(r) /\ DOMAIN rules = Rules
    BY <1>1, <1>5, RewrittenStep DEF TypeOK
  <2>2. UNCHANGED <<response, encoders, added>>
    BY <2>1 DEF Changed, slices
  <2>3. late \subseteq late' /\ \A q \in Rules : given[q] \subseteq given'[q]
    BY <2>1 DEF Changed
  <2> QED
    BY <2>2, <2>3 DEF Stands, Unbranched
<1>6. ASSUME NEW d \in DOMAIN encoders, Derived(d), UNCHANGED <<facts, response>> PROVE Stands
  <2>1. \A e \in DOMAIN encoders : Unbranched(e)' => Unbranched(e)
    BY <1>1, <1>6, BranchesAfterDerive
  <2>2. \A e \in DOMAIN encoders : added'[e] = added[e]
    BY <1>6 DEF Derived
  <2>3. UNCHANGED <<rules, late, given>>
    BY <1>6 DEF facts
  <2> QED
    BY <1>2, <1>3, <1>6, <2>1, <2>2, <2>3 DEF Stands
<1>7. CASE UNCHANGED vars
  <2>1. UNCHANGED <<rules, late, given, response, encoders, added>>
    BY <1>7 DEF vars, slices, facts
  <2> QED
    BY <1>3, <2>1 DEF Stands, Unbranched
<1> QED
  BY <1>1, <1>4, <1>5, <1>6, <1>7, Steps

\* The encoder that answered, and the entry that did.
LEMMA AnswerOfEncode ==
  ASSUME EncoderInv, NEW e \in DOMAIN encoders, NEW err \in Errors, Encode(e, err)
  PROVE  /\ response'.encoder = e /\ response'.err = err /\ Panics(response')
         /\ UNCHANGED <<rules, late, given, encoders, added>>
         /\ \/ ByNone(e, err) /\ FallbackAnswer(response', err)
            \/ \E i \in 1..encoders[e].len :
                 /\ ByEntry(e, err, i)
                 /\ response'.body = NoFields <=>
                      Slice(e)[i].disableBody \/ response'.panicked
                 /\ \/ /\ Slice(e)[i].rule \in IsRules /\ Slice(e)[i].rule \notin AsRules
                       /\ IsAnswer(response', Slice(e)[i])
                    \/ /\ Slice(e)[i].rule \in AsRules /\ Slice(e)[i].rule \notin IsRules
                       /\ AsAnswer(response', Slice(e)[i], err)
<1>1. TypeOK /\ SliceInv /\ RuleInv /\ ViewInv
  BY DEF EncoderInv
<1>2. /\ response' = Handled(e, err) /\ UNCHANGED <<slices, facts>>
      /\ response'.encoder = e /\ response'.err = err
  BY EncodeStep
<1>3. UNCHANGED <<rules, late, given, encoders, added>>
  BY <1>2 DEF slices, facts
<1>4. CASE ByNone(e, err)
  <2>1. FallbackAnswer(Handled(e, err), err) /\ Panics(Handled(e, err))
    BY <1>4, AnswerOfNone
  <2> QED
    BY <1>2, <1>3, <1>4, <2>1
<1>5. ASSUME NEW i \in 1..encoders[e].len, ByEntry(e, err, i)
      PROVE  /\ Panics(Handled(e, err))
             /\ Handled(e, err).body = NoFields <=>
                  Slice(e)[i].disableBody \/ Handled(e, err).panicked
             /\ \/ /\ Slice(e)[i].rule \in IsRules /\ Slice(e)[i].rule \notin AsRules
                   /\ IsAnswer(Handled(e, err), Slice(e)[i])
                \/ /\ Slice(e)[i].rule \in AsRules /\ Slice(e)[i].rule \notin IsRules
                   /\ AsAnswer(Handled(e, err), Slice(e)[i], err)
  <2>1. CASE Slice(e)[i].rule \in IsRules
    <3>1. Slice(e)[i].rule \notin AsRules
      BY <2>1, EncoderConstants
    <3> QED
      BY <1>1, <1>5, <2>1, <3>1, AnswerOfIs
  <2>2. CASE Slice(e)[i].rule \notin IsRules
    BY <1>1, <1>5, <2>2, AnswerOfAs
  <2> QED
    BY <2>1, <2>2
<1>6. ByNone(e, err) \/ \E i \in 1..encoders[e].len : ByEntry(e, err, i)
  BY <1>1, Answers
<1> QED
  BY <1>2, <1>3, <1>4, <1>5, <1>6

\* The code in a body is the status that was sent, unless a field of that name was
\* supplied or an Is rule was changed after it was added (isEncoder.newErrorEncoder
\* marshals the body in Add, encodeNoBody reads the status in Encode).
THEOREM CodesAreStatuses == Spec => []CodeIsStatus
<1>1. Init => CodeIsStatus
  BY DEF Init, CodeIsStatus, Encoded
<1>2. EncoderInv /\ CodeIsStatus /\ [Next]_vars => CodeIsStatus'
  <2> SUFFICES ASSUME EncoderInv, CodeIsStatus, [Next]_vars PROVE CodeIsStatus'
    OBVIOUS
  <2>1. CASE Stands
    <3>1. response' = response /\ late \subseteq late'
      BY <2>1 DEF Stands
    <3>2. \A r \in IsRules : given[r] \subseteq given'[r]
      BY <2>1 DEF Stands, Rules
    <3>3. Subject' = Subject /\ Encoded' = Encoded
      BY <3>1 DEF Subject, Encoded
    <3> QED
      BY <3>1, <3>2, <3>3 DEF CodeIsStatus
  <2>2. ASSUME NEW e \in DOMAIN encoders, NEW err \in Errors, Encode(e, err)
        PROVE  CodeIsStatus'
    <3>1. response'.err = err /\ UNCHANGED <<late, given>>
      BY <2>2, AnswerOfEncode
    <3>2. CASE FallbackAnswer(response', err)
      BY <3>1, <3>2 DEF FallbackAnswer, CodeIsStatus, Subject
    <3>3. ASSUME NEW compiled, compiled.rule \in IsRules, IsAnswer(response', compiled)
          PROVE  CodeIsStatus'
      <4>1. response'.by = compiled.rule /\ response'.by # "fallback"
        BY <3>3, EncoderConstants DEF IsAnswer, Rules
      <4>2. \/ rules[compiled.rule].fields["code"] = rules[compiled.rule].code
            \/ "code" \in DOMAIN ErrorFields[Target[compiled.rule]] \cup given[compiled.rule]
        BY <3>3 DEF EncoderInv, RuleInv
      <4>3. Subject' = Target[compiled.rule]
        BY <3>3, <4>1 DEF Subject
      <4> QED
        BY <3>1, <3>3, <4>1, <4>2, <4>3 DEF IsAnswer, CodeIsStatus
    <3>4. ASSUME NEW compiled, compiled.rule \in AsRules, compiled.rule \notin IsRules,
                 AsAnswer(response', compiled, err)
          PROVE  CodeIsStatus'
      <4>1. response'.by = compiled.rule /\ response'.by # "fallback"
        BY <3>4, EncoderConstants DEF AsAnswer, Rules
      <4>2. Subject' = Found[compiled.rule][err]
        BY <3>1, <3>4, <4>1 DEF Subject
      <4> QED
        BY <3>4, <4>2 DEF AsAnswer, CodeIsStatus
    <3> QED
      BY <2>2, <3>2, <3>3, <3>4, AnswerOfEncode
  <2> QED
    BY <2>1, <2>2, AnswersStand
<1> QED
  BY <1>1, <1>2, EncoderInvariant, PTL DEF Spec

\* An answer has fields and headers of the error it is about and of the rule that
\* gave it, and of nothing else: no Encode leaves anything behind in an As rule
\* (asEncoder.newErrorEncoder clones the fields of the rule).
THEOREM AnswersLeakNothing == Spec => []NothingLeaks
<1>1. Init => NothingLeaks
  BY DEF Init, NothingLeaks, Encoded
<1>2. EncoderInv /\ NothingLeaks /\ [Next]_vars => NothingLeaks'
  <2> SUFFICES ASSUME EncoderInv, NothingLeaks, [Next]_vars PROVE NothingLeaks'
    OBVIOUS
  <2>1. CASE Stands
    <3>1. response' = response /\ \A r \in Rules : given[r] \subseteq given'[r]
      BY <2>1 DEF Stands
    <3>2. Subject' = Subject /\ Encoded' = Encoded
      BY <3>1 DEF Subject, Encoded
    <3> QED
      BY <3>1, <3>2 DEF NothingLeaks
  <2>2. ASSUME NEW e \in DOMAIN encoders, NEW err \in Errors, Encode(e, err)
        PROVE  NothingLeaks'
    <3>1. response'.err = err /\ UNCHANGED <<late, given>>
      BY <2>2, AnswerOfEncode
    <3>2. CASE FallbackAnswer(response', err)
      <4>1. Subject' = err
        BY <3>1, <3>2 DEF Subject, FallbackAnswer
      <4> QED
        BY <3>2, <4>1 DEF FallbackAnswer, NothingLeaks
    <3>3. ASSUME NEW compiled, compiled.rule \in IsRules, IsAnswer(response', compiled)
          PROVE  NothingLeaks'
      <4>1. response'.by = compiled.rule /\ response'.by # "fallback"
        BY <3>3, EncoderConstants DEF IsAnswer, Rules
      <4>2. rules[compiled.rule].header \subseteq
              ErrorHeaders[Target[compiled.rule]] \cup UNION RuleHeaders
        BY <3>3 DEF EncoderInv, RuleInv
      <4>3. Subject' = Target[compiled.rule] /\ compiled.rule \in Rules
        BY <3>3, <4>1 DEF Subject, Rules
      <4> QED
        BY <3>1, <3>3, <4>1, <4>2, <4>3 DEF IsAnswer, ProperWith, NothingLeaks
    <3>4. ASSUME NEW compiled, compiled.rule \in AsRules, compiled.rule \notin IsRules,
                 AsAnswer(response', compiled, err)
          PROVE  NothingLeaks'
      <4>1. response'.by = compiled.rule /\ response'.by # "fallback"
        BY <3>4, EncoderConstants DEF AsAnswer, Rules
      <4>2. /\ DOMAIN rules[compiled.rule].fields \subseteq given[compiled.rule]
            /\ rules[compiled.rule].header \subseteq UNION RuleHeaders
        BY <3>4 DEF EncoderInv, RuleInv
      <4>3. Subject' = Found[compiled.rule][err] /\ compiled.rule \in Rules
        BY <3>1, <3>4, <4>1 DEF Subject, Rules
      <4> QED
        BY <3>1, <3>4, <4>1, <4>2, <4>3 DEF AsAnswer, NothingLeaks
    <3> QED
      BY <2>2, <3>2, <3>3, <3>4, AnswerOfEncode
  <2> QED
    BY <2>1, <2>2, AnswersStand
<1> QED
  BY <1>1, <1>2, EncoderInvariant, PTL DEF Spec

\* An error without a usable status is answered: what makes net/http panic is a
\* status of more than three digits or one that was set on an Is rule
\* (statusCodeFor, asEncoder.encodeStatusAndHeaders).
THEOREM AnswersHaveAStatus == Spec => []ErrorsGetAStatus
<1>1. Init => ErrorsGetAStatus
  BY DEF Init, ErrorsGetAStatus, Encoded
<1>2. EncoderInv /\ ErrorsGetAStatus /\ [Next]_vars => ErrorsGetAStatus'
  <2> SUFFICES ASSUME EncoderInv, ErrorsGetAStatus, [Next]_vars PROVE ErrorsGetAStatus'
    OBVIOUS
  <2>1. CASE Stands
    BY <2>1 DEF Stands, ErrorsGetAStatus, Encoded
  <2>2. ASSUME NEW e \in DOMAIN encoders, NEW err \in Errors, Encode(e, err)
        PROVE  ErrorsGetAStatus'
    <3>1. \/ response'.status \in Int /\ response'.status >= 100
          \/ response'.by \in IsRules
      BY <2>2, AnswerOfEncode DEF FallbackAnswer, IsAnswer, AsAnswer
    <3>2. response'.panicked <=> response'.status \notin 100..999
      BY <2>2, AnswerOfEncode DEF Panics
    <3> QED
      BY <3>1, <3>2 DEF ErrorsGetAStatus
  <2> QED
    BY <2>1, <2>2, AnswersStand
<1> QED
  BY <1>1, <1>2, EncoderInvariant, PTL DEF Spec

\* FirstAddedAnswers as it depends on the history h of the encoder and on the answer a.
FirstIn(h, a) ==
  LET hits == {i \in DOMAIN h : Found[h[i].rule][a.err] # NoError}
  IN  IF hits = {} THEN a.by = "fallback"
      ELSE \E i \in hits :
             /\ \A j \in hits : i <= j
             /\ a.by = h[i].rule
             /\ (a.body = NoFields) = (h[i].disableBody \/ a.panicked)

\* Where nothing branched off, the first rule that was added and finds the error
\* answers, with a body if Body said so when it was added, and without such a rule
\* the fallback does (Encode over the slices that Add built).
THEOREM FirstAddedRuleAnswers == Spec => []FirstMatchAnswers
<1>1. Init => FirstMatchAnswers
  BY DEF Init, FirstMatchAnswers, Encoded
<1>2. EncoderInv /\ FirstMatchAnswers /\ [Next]_vars => FirstMatchAnswers'
  <2> SUFFICES ASSUME EncoderInv, FirstMatchAnswers, [Next]_vars,
                      Encoded', NEW e, e = response'.encoder, Unbranched(e)'
               PROVE  FirstAddedAnswers(e)'
    <3>1. FirstMatchAnswers' <=>
            (Encoded' => (Unbranched(response.encoder)' => FirstAddedAnswers(response.encoder)'))
      BY Zenon DEF FirstMatchAnswers
    <3> QED
      BY <3>1 DEF Unbranched, FirstAddedAnswers
  <2>1. CASE Stands
    <3>1. /\ response' = response /\ added'[e] = added[e]
          /\ Encoded /\ Unbranched(e)
      BY <2>1 DEF Stands, Encoded
    <3>2. FirstAddedAnswers(response.encoder)
      BY <3>1 DEF FirstMatchAnswers
    <3>3. /\ FirstAddedAnswers(response.encoder) <=> FirstIn(added[response.encoder], response)
          /\ FirstAddedAnswers(e)' <=> FirstIn(added'[e], response')
      BY DEF FirstAddedAnswers, FirstIn
    <3>4. response.encoder = e
      BY <3>1
    <3> QED
      BY <3>1, <3>2, <3>3, <3>4
  <2>2. ASSUME NEW d \in DOMAIN encoders, NEW err \in Errors, Encode(d, err)
        PROVE  FirstAddedAnswers(e)'
    <3> DEFINE hits == {i \in DOMAIN added[e] : Found[added[e][i].rule][err] # NoError}
    <3>1. /\ d = e /\ response'.err = err /\ UNCHANGED <<encoders, added>>
      BY <2>2, AnswerOfEncode
    <3>2. Unbranched(e)
      BY <3>1 DEF Unbranched
    <3>3. DOMAIN added[e] = 1..encoders[e].len
      BY <2>2, <3>1, Typing DEF EncoderInv
    <3>4. \A i \in 1..encoders[e].len :
            /\ Slice(e)[i].rule = added[e][i].rule
            /\ Slice(e)[i].disableBody = added[e][i].disableBody
      BY <2>2, <3>1, <3>2 DEF EncoderInv, ViewInv
    <3>5. \A i : i \in hits <=>
                   i \in 1..encoders[e].len /\ Found[Slice(e)[i].rule][err] # NoError
      BY <3>3, <3>4
    <3>6. FirstAddedAnswers(e)' <=>
            IF hits = {} THEN response'.by = "fallback"
            ELSE \E i \in hits :
                   /\ \A j \in hits : i <= j
                   /\ response'.by = added[e][i].rule
                   /\ (response'.body = NoFields) =
                        (added[e][i].disableBody \/ response'.panicked)
      BY <3>1 DEF FirstAddedAnswers
    <3>7. CASE ByNone(e, err) /\ FallbackAnswer(response', err)
      <4>1. hits = {}
        BY <3>5, <3>7 DEF ByNone
      <4> QED
        BY <3>6, <3>7, <4>1 DEF FallbackAnswer
    <3>8. ASSUME NEW i \in 1..encoders[e].len, ByEntry(e, err, i),
                 response'.body = NoFields <=> Slice(e)[i].disableBody \/ response'.panicked,
                 response'.by = Slice(e)[i].rule
          PROVE  FirstAddedAnswers(e)'
      <4>1. i \in hits /\ \A j \in hits : i <= j
        BY <3>5, <3>8 DEF ByEntry
      <4>2. response'.by = added[e][i].rule
        BY <3>4, <3>8
      <4>3. (response'.body = NoFields) = (added[e][i].disableBody \/ response'.panicked)
        <5>1. Slice(e)[i].disableBody = added[e][i].disableBody
          BY <3>4
        <5> QED
          BY <3>8, <5>1
      <4> HIDE DEF hits
      <4> QED
        BY <3>6, <4>1, <4>2, <4>3
    <3> QED
      BY <2>2, <3>1, <3>7, <3>8, AnswerOfEncode DEF IsAnswer, AsAnswer
  <2> QED
    BY <2>1, <2>2, AnswersStand
<1> QED
  BY <1>1, <1>2, EncoderInvariant, PTL DEF Spec

\* The rules of an encoder that was returned are disturbed by an Add that makes one
\* which branches off from it, and by nothing else (append in Add writes in place
\* while the capacity lasts).
THEOREM OnlyBranchesDisturb == Spec => OnlyBranchingDisturbs
<1> DEFINE Disturbs ==
      \A e \in DOMAIN encoders :
        View(e)' # View(e) =>
          \/ e = Newest /\ ~Idle
          \/ /\ ~IsPrefix(added[e], added'[Newest])
             /\ ~IsPrefix(added'[Newest], added[e])
<1>1. EncoderInv /\ [Next]_vars => [Disturbs]_vars
  <2> SUFFICES ASSUME EncoderInv, Next, NEW e \in DOMAIN encoders, View(e)' # View(e)
               PROVE  \/ e = Newest /\ ~Idle
                      \/ /\ ~IsPrefix(added[e], added'[Newest])
                         /\ ~IsPrefix(added'[Newest], added[e])
    OBVIOUS
  <2>1. TypeOK /\ SliceInv /\ RuleInv
    BY DEF EncoderInv
  <2>2. ASSUME AppendRule, e # Newest
        PROVE  /\ ~IsPrefix(added[e], added'[Newest])
               /\ ~IsPrefix(added'[Newest], added[e])
    <3>1. OnlyNewest
      BY <2>1, <2>2, AppendRuleStep
    <3>2. encoders'[e] = encoders[e] /\ encoders[e].len \in Nat
      BY <2>1, <2>2, <3>1, Typing DEF OnlyNewest, AnEncoder
    <3>3. PICK i \in 1..encoders[e].len : Slice(e)'[i] # Slice(e)[i]
      <4> SUFFICES ASSUME \A i \in 1..encoders[e].len : Slice(e)'[i] = Slice(e)[i]
                   PROVE  FALSE
        OBVIOUS
      <4>1. /\ IsSequence(View(e)) /\ DOMAIN View(e) = 1..encoders[e].len
            /\ \A i \in 1..encoders[e].len : View(e)[i] = Slice(e)[i]
        BY <2>1, ViewEntries
      <4>2. /\ IsSequence(View(e)') /\ DOMAIN View(e)' = 1..encoders[e].len
            /\ \A i \in 1..encoders[e].len : View(e)'[i] = Slice(e)'[i]
        <5> DEFINE n == encoders[e].len
                   S == {Slice(e)'[i] : i \in 1..n}
        <5>1. View(e)' = SubSeq(Slice(e)', 1, n)
          BY <3>2 DEF View
        <5>2. n \in Nat /\ \A i \in 1..n : Slice(e)'[i] \in S
          BY <3>2
        <5> HIDE DEF n, S
        <5>3. /\ SubSeq(Slice(e)', 1, n) \in Seq(S)
              /\ Len(SubSeq(Slice(e)', 1, n)) = IF 1 <= n THEN n - 1 + 1 ELSE 0
              /\ \A i \in 1..(n - 1 + 1) : SubSeq(Slice(e)', 1, n)[i] = Slice(e)'[1 + i - 1]
          BY <5>2, SubSeqProperties
        <5>4. Len(SubSeq(Slice(e)', 1, n)) = n
          BY <5>2, <5>3
        <5>5. /\ IsSequence(SubSeq(Slice(e)', 1, n))
              /\ DOMAIN SubSeq(Slice(e)', 1, n) = 1..n
          BY <5>3, <5>4, SequencesAreSequences
        <5>6. \A i \in 1..n : SubSeq(Slice(e)', 1, n)[i] = Slice(e)'[i]
          BY <5>2, <5>3
        <5> QED
          BY <5>1, <5>5, <5>6 DEF n
      <4> QED
        BY <4>1, <4>2, SameEntries
    <3>4. i = encoders[Newest].len + 1
      BY <2>1, <3>1, <3>3, EntriesAfterAppendRule
    <3>5. encoders[Newest].len < encoders[e].len
      BY <2>1, <3>2, <3>4, Typing DEF AnEncoder
    <3>6. ~Comparable(added'[Newest], added[e])
      BY <2>1, <2>2, <3>1, <3>5, BranchesAfterAppendRule
    <3> QED
      BY <3>6 DEF Comparable
  <2>3. CASE AppendRule
    BY <2>2, <2>3 DEF AppendRule
  <2>4. ASSUME NEW d \in DOMAIN encoders, Derived(d), arrays' = arrays PROVE FALSE
    <3>1. Slice(e)' = Slice(e) /\ encoders'[e] = encoders[e]
      BY <2>1, <2>4, SlicesAfterDerive DEF Derived
    <3> QED
      BY <3>1 DEF View
  <2>5. ASSUME UNCHANGED slices PROVE FALSE
    BY <2>5 DEF slices, View, Slice
  <2>6. ASSUME NEW r \in Rules, Rewritten(r) PROVE FALSE
    BY <2>1, <2>5, <2>6, RewrittenStep DEF Changed
  <2>7. ASSUME NEW d \in DOMAIN encoders, NEW err \in Errors, Encode(d, err) PROVE FALSE
    BY <2>5, <2>7, EncodeStep
  <2>8. UNCHANGED vars => FALSE
    BY <2>5 DEF vars
  <2> QED
    BY <2>1, <2>3, <2>4, <2>6, <2>7, <2>8, Steps
<1>2. Spec => [][Disturbs]_vars
  <2> HIDE DEF Disturbs
  <2> QED
    BY <1>1, EncoderInvariant, PTL DEF Spec
<1> QED
  BY <1>2 DEF OnlyBranchingDisturbs

=============================================================================
