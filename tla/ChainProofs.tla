----------------------------- MODULE ChainProofs -----------------------------
(***************************************************************************)
(* Theorems about Chain, for any constructors and any number of slices,    *)
(* chains and calls of Then.                                               *)
(***************************************************************************)
EXTENDS Chain, SequenceTheorems, WellFoundedInduction, TLAPS

-----------------------------------------------------------------------------
(* Walks *)

\* A nonempty set of numbers has a least element: what stands for induction here.
LEMMA Least ==
  ASSUME NEW T, T \subseteq Nat, T # {}
  PROVE  \E least \in T : \A m \in T : least <= m
<1> DEFINE Below == {pair \in Nat \X Nat : pair[1] < pair[2]}
<1>1. IsWellFoundedOn(Below, Nat)
  BY NatLessThanWellFounded, Zenon DEF OpToRel
<1>2. PICK least \in T : \A m \in T : ~(<<m, least>> \in Below)
  <2> HIDE DEF Below
  <2> QED
    BY <1>1, WFMin
<1>3. \A m \in T : ~(m < least) /\ m \in Nat
  BY <1>2
<1> QED
  BY <1>3

\* The steps of a walk, for as far as m.
Steps(f, part, before, m) ==
  \A o \in 0..m : f[o] = IF o = 0 THEN <<>> ELSE part[o] \o f[before[o]]

\* Each part is a sequence and each number is before a smaller one.
Downward(n, X, part, before) ==
  /\ n \in Nat /\ part \in [1..n -> Seq(X)] /\ before \in [1..n -> Nat]
  /\ \A o \in 1..n : before[o] < o

\* There is a walk from each number, since it goes down.
LEMMA WalkExists ==
  ASSUME NEW n, NEW X, NEW part, NEW before, Downward(n, X, part, before)
  PROVE  \E f \in [0..n -> Seq(X)] : Steps(f, part, before, n)
<1> USE DEF Downward
<1> DEFINE Bad == {m \in 0..n : ~\E f \in [0..m -> Seq(X)] : Steps(f, part, before, m)}
<1>1. SUFFICES ASSUME Bad # {} PROVE FALSE
  OBVIOUS
<1>2. PICK m \in Bad : \A k \in Bad : m <= k
  <2>1. Bad \subseteq Nat
    OBVIOUS
  <2> HIDE DEF Bad
  <2> QED
    BY <1>1, <2>1, Least
<1>3. CASE m = 0
  <2> DEFINE f == [o \in 0..0 |-> <<>>]
  <2>1. f \in [0..0 -> Seq(X)] /\ Steps(f, part, before, 0)
    BY EmptySeq DEF Steps
  <2> QED
    BY <1>3, <2>1
<1>4. CASE m # 0
  <2>1. m \in 1..n /\ m - 1 \in 0..n /\ ~(m <= m - 1)
    BY <1>4
  <2>2. PICK f \in [0..(m - 1) -> Seq(X)] : Steps(f, part, before, m - 1)
    BY <1>2, <2>1
  <2> DEFINE g == [o \in 0..m |-> IF o = m THEN part[m] \o f[before[m]] ELSE f[o]]
  <2>3. before[m] \in 0..(m - 1)
    BY <2>1
  <2>4. part[m] \o f[before[m]] \in Seq(X)
    BY <2>1, <2>2, <2>3, ConcatProperties
  <2>5. \A o \in 0..m : o = m \/ o \in 0..(m - 1)
    OBVIOUS
  <2>6. g \in [0..m -> Seq(X)]
    BY <2>4, <2>5
  <2>7. Steps(g, part, before, m)
    <3> SUFFICES ASSUME NEW o \in 0..m
                 PROVE  g[o] = IF o = 0 THEN <<>> ELSE part[o] \o g[before[o]]
      BY DEF Steps
    <3>1. CASE o = m
      <4>1. g[before[m]] = f[before[m]]
        BY <2>1, <2>3
      <4> QED
        BY <1>4, <3>1, <4>1
    <3>2. CASE o # m
      <4>1. o \in 0..(m - 1)
        BY <3>2
      <4>2. f[o] = IF o = 0 THEN <<>> ELSE part[o] \o f[before[o]]
        BY <2>2, <4>1 DEF Steps
      <4>3. g[o] = f[o]
        BY <3>2
      <4>4. o # 0 => before[o] \in 0..(m - 1)
        BY SMTT(60), <2>1, <4>1
      <4>5. o # 0 => g[before[o]] = f[before[o]]
        BY <4>4, <2>1
      <4> QED
        BY <4>2, <4>3, <4>5
    <3> QED
      BY <3>1, <3>2
  <2> QED
    BY <2>6, <2>7
<1> QED
  BY <1>3, <1>4

\* What a walk meets.
LEMMA WalkSteps ==
  ASSUME NEW n, NEW X, NEW part, NEW before, Downward(n, X, part, before)
  PROVE  Steps(Walk(part, before), part, before, n)
<1> USE DEF Downward
<1>1. PICK f \in [0..n -> Seq(X)] : Steps(f, part, before, n)
  BY WalkExists
<1>2. {0} \cup DOMAIN part = 0..n
  OBVIOUS
<1> DEFINE Met(met) == [o \in {0} \cup DOMAIN part |-> IF o = 0 THEN <<>> ELSE part[o] \o met[before[o]]]
<1>3. f = Met(f)
  BY <1>1, <1>2 DEF Steps
<1>4. Walk(part, before) = CHOOSE met : met = Met(met)
  BY DEF Walk
<1>5. Walk(part, before) = Met(Walk(part, before))
  <2> HIDE DEF Met
  <2> QED
    BY <1>3, <1>4
<1> QED
  BY <1>2, <1>5 DEF Steps

\* From each number on a walk meets a sequence.
LEMMA WalkTyped ==
  ASSUME NEW n, NEW X, NEW part, NEW before, Downward(n, X, part, before)
  PROVE  \A o \in 0..n : Walk(part, before)[o] \in Seq(X)
<1> USE DEF Downward
<1> DEFINE w == Walk(part, before)
           Bad == {o \in 0..n : w[o] \notin Seq(X)}
<1>1. \A o \in 0..n : w[o] = IF o = 0 THEN <<>> ELSE part[o] \o w[before[o]]
  <2>1. Steps(w, part, before, n)
    BY WalkSteps
  <2> HIDE DEF w
  <2> QED
    BY <2>1 DEF Steps
<1> HIDE DEF w
<1>2. SUFFICES ASSUME Bad # {} PROVE FALSE
  BY DEF w
<1>3. PICK o \in Bad : \A k \in Bad : o <= k
  <2>1. Bad \subseteq Nat
    OBVIOUS
  <2> HIDE DEF Bad
  <2> QED
    BY <1>2, <2>1, Least
<1>4. o # 0
  BY <1>1, EmptySeq
<1>5. before[o] \in 0..n /\ ~(o <= before[o])
  BY <1>4
<1>6. w[before[o]] \in Seq(X)
  BY <1>3, <1>5
<1>7. part[o] \o w[before[o]] \in Seq(X)
  BY <1>4, <1>6, ConcatProperties
<1> QED
  BY <1>1, <1>4, <1>7

\* Walks that agree on the first m numbers meet the same from there on.
LEMMA WalksAgree ==
  ASSUME NEW n, NEW X, NEW part, NEW before, Downward(n, X, part, before),
         NEW n2, NEW part2, NEW before2, Downward(n2, X, part2, before2),
         NEW m \in Nat, m <= n, m <= n2,
         \A o \in 1..m : part[o] = part2[o] /\ before[o] = before2[o]
  PROVE  \A o \in 0..m : Walk(part, before)[o] = Walk(part2, before2)[o]
<1> USE DEF Downward
<1> DEFINE w == Walk(part, before)
           v == Walk(part2, before2)
           Bad == {o \in 0..m : w[o] # v[o]}
<1>1. \A o \in 0..n : w[o] = IF o = 0 THEN <<>> ELSE part[o] \o w[before[o]]
  <2>1. Steps(w, part, before, n)
    BY WalkSteps
  <2> HIDE DEF w
  <2> QED
    BY <2>1 DEF Steps
<1>2. \A o \in 0..n2 : v[o] = IF o = 0 THEN <<>> ELSE part2[o] \o v[before2[o]]
  <2>1. Steps(v, part2, before2, n2)
    BY WalkSteps
  <2> HIDE DEF v
  <2> QED
    BY <2>1 DEF Steps
<1> HIDE DEF w, v
<1>3. SUFFICES ASSUME Bad # {} PROVE FALSE
  BY DEF w, v
<1>4. PICK o \in Bad : \A k \in Bad : o <= k
  <2>1. Bad \subseteq Nat
    OBVIOUS
  <2> HIDE DEF Bad
  <2> QED
    BY <1>3, <2>1, Least
<1>5. o # 0 /\ o \in 0..n /\ o \in 0..n2
  BY <1>1, <1>2
<1>6. before[o] \in 0..m /\ ~(o <= before[o])
  BY <1>5
<1>7. w[before[o]] = v[before[o]]
  BY <1>4, <1>6
<1>8. w[o] = part[o] \o w[before[o]] /\ v[o] = part2[o] \o v[before2[o]]
  BY <1>1, <1>2, <1>5
<1>9. o \in 1..m
  BY <1>5
<1> QED
  BY <1>7, <1>8, <1>9

-----------------------------------------------------------------------------
(* Trips, calls of CloseIdleConnections, and what is kept of a sequence *)

Makers == Constructors \cup {"transport", "func", "decorator"}

\* Objects that decorate only what was made before them.
Layered(all) ==
  /\ all \in Seq(Objects)
  /\ \A o \in DOMAIN all : all[o].next < o /\ all[o].closer < o

TripPart(all) ==
  [o \in DOMAIN all |-> IF all[o].kind = "decorator" THEN <<>> ELSE <<all[o].made>>]
TripNext(all) == [o \in DOMAIN all |-> all[o].next]
TripOver(all) == Walk(TripPart(all), TripNext(all))

ClosePart(all) ==
  [o \in DOMAIN all |-> IF all[o].kind = "closing" THEN <<all[o].made>> ELSE <<>>]
CloseNext(all) ==
  [o \in DOMAIN all |->
     CASE all[o].kind = "closing"   -> all[o].next
       [] all[o].kind = "decorator" -> all[o].closer
       [] all[o].kind = "func"      -> 0]
CloseOver(all) == Walk(ClosePart(all), CloseNext(all))

\* Both are walks.
LEMMA ObjectWalks ==
  ASSUME NEW all, Layered(all)
  PROVE  /\ Len(all) \in Nat /\ DOMAIN all = 1..Len(all)
         /\ \A o \in DOMAIN all : all[o] \in Objects
         /\ TripPart(all) \in [1..Len(all) -> Seq(Makers)] /\ TripNext(all) \in [1..Len(all) -> Nat]
         /\ \A o \in 1..Len(all) : TripNext(all)[o] < o
         /\ ClosePart(all) \in [1..Len(all) -> Seq(Makers)] /\ CloseNext(all) \in [1..Len(all) -> Nat]
         /\ \A o \in 1..Len(all) : CloseNext(all)[o] < o
<1>1. Len(all) \in Nat /\ DOMAIN all = 1..Len(all) /\ \A o \in DOMAIN all : all[o] \in Objects
  BY LenProperties, ElementOfSeq DEF Layered
<1>2. ASSUME NEW o \in DOMAIN all
      PROVE  /\ all[o].kind \in {"closing", "func", "decorator"} /\ <<all[o].made>> \in Seq(Makers)
             /\ all[o].next \in Nat /\ all[o].closer \in Nat /\ o \in Nat \ {0}
             /\ all[o].next < o /\ all[o].closer < o
  BY <1>1 DEF Layered, Objects, Makers
<1>3. TripPart(all) \in [1..Len(all) -> Seq(Makers)] /\ ClosePart(all) \in [1..Len(all) -> Seq(Makers)]
  BY <1>1, <1>2, EmptySeq DEF TripPart, ClosePart
<1>4. TripNext(all) \in [1..Len(all) -> Nat] /\ \A o \in 1..Len(all) : TripNext(all)[o] < o
  BY <1>1, <1>2 DEF TripNext
<1>5. \A o \in DOMAIN all : CloseNext(all)[o] \in Nat /\ CloseNext(all)[o] < o
  BY <1>1, <1>2 DEF CloseNext
<1>6. CloseNext(all) \in [1..Len(all) -> Nat]
  BY <1>1, <1>5 DEF CloseNext
<1> QED
  BY <1>1, <1>3, <1>4, <1>5, <1>6

\* A request meets a round tripper and then what that decorates.
LEMMA TripSteps ==
  ASSUME NEW all, Layered(all)
  PROVE  /\ TripOver(all)[0] = <<>>
         /\ \A o \in 0..Len(all) : TripOver(all)[o] \in Seq(Makers)
         /\ \A o \in DOMAIN all :
              TripOver(all)[o] = IF all[o].kind = "decorator" THEN TripOver(all)[all[o].next]
                                 ELSE <<all[o].made>> \o TripOver(all)[all[o].next]
<1> DEFINE n == Len(all)
           part == TripPart(all)
           before == TripNext(all)
           w == TripOver(all)
<1>1. /\ n \in Nat /\ DOMAIN all = 1..n /\ part \in [1..n -> Seq(Makers)]
      /\ before \in [1..n -> Nat] /\ \A o \in 1..n : before[o] < o
  BY ObjectWalks
<1>2. \A o \in 0..n : w[o] \in Seq(Makers) /\ w[o] = IF o = 0 THEN <<>> ELSE part[o] \o w[before[o]]
  <2> HIDE DEF n, part, before
  <2>0. Downward(n, Makers, part, before)
    BY <1>1 DEF Downward
  <2>1. \A o \in 0..n : Walk(part, before)[o] \in Seq(Makers)
    BY <2>0, WalkTyped
  <2>2. Steps(Walk(part, before), part, before, n)
    BY <2>0, WalkSteps
  <2> QED
    BY <2>1, <2>2 DEF Steps, TripOver, part, before
<1>3. ASSUME NEW o \in DOMAIN all
      PROVE  w[o] = IF all[o].kind = "decorator" THEN w[all[o].next] ELSE <<all[o].made>> \o w[all[o].next]
  <2>1. w[o] = part[o] \o w[before[o]] /\ before[o] \in 0..n
    <3> HIDE DEF n, w, part, before
    <3>1. o \in 1..n /\ o \in 0..n /\ o # 0 /\ before[o] \in Nat /\ before[o] < o
      BY <1>1
    <3>2. w[o] = part[o] \o w[before[o]]
      BY <1>2, <3>1
    <3> QED
      BY <1>1, <3>1, <3>2
  <2>2. before[o] = all[o].next /\ part[o] = IF all[o].kind = "decorator" THEN <<>> ELSE <<all[o].made>>
    BY DEF TripPart, TripNext
  <2>3. <<>> \o w[before[o]] = w[before[o]]
    <3> HIDE DEF w, before
    <3> QED
      BY <1>2, <2>1, ConcatEmptySeq
  <2> HIDE DEF w, part, before
  <2> QED
    BY <2>1, <2>2, <2>3
<1> QED
  BY <1>1, <1>2, <1>3

\* A call of CloseIdleConnections stops at a round tripper without the method.
LEMMA CloseSteps ==
  ASSUME NEW all, Layered(all)
  PROVE  /\ CloseOver(all)[0] = <<>>
         /\ \A o \in 0..Len(all) : CloseOver(all)[o] \in Seq(Makers)
         /\ \A o \in DOMAIN all :
              /\ all[o].kind = "closing" => CloseOver(all)[o] = <<all[o].made>> \o CloseOver(all)[all[o].next]
              /\ all[o].kind = "decorator" => CloseOver(all)[o] = CloseOver(all)[all[o].closer]
              /\ all[o].kind = "func" => CloseOver(all)[o] = <<>>
<1> DEFINE n == Len(all)
           part == ClosePart(all)
           before == CloseNext(all)
           w == CloseOver(all)
<1>1. /\ n \in Nat /\ DOMAIN all = 1..n /\ part \in [1..n -> Seq(Makers)]
      /\ before \in [1..n -> Nat] /\ \A o \in 1..n : before[o] < o
  BY ObjectWalks
<1>2. \A o \in 0..n : w[o] \in Seq(Makers) /\ w[o] = IF o = 0 THEN <<>> ELSE part[o] \o w[before[o]]
  <2> HIDE DEF n, part, before
  <2>0. Downward(n, Makers, part, before)
    BY <1>1 DEF Downward
  <2>1. \A o \in 0..n : Walk(part, before)[o] \in Seq(Makers)
    BY <2>0, WalkTyped
  <2>2. Steps(Walk(part, before), part, before, n)
    BY <2>0, WalkSteps
  <2> QED
    BY <2>1, <2>2 DEF Steps, CloseOver, part, before
<1>3. w[0] = <<>>
  BY <1>1, <1>2
<1>4. ASSUME NEW o \in DOMAIN all
      PROVE  /\ all[o].kind = "closing" => w[o] = <<all[o].made>> \o w[all[o].next]
             /\ all[o].kind = "decorator" => w[o] = w[all[o].closer]
             /\ all[o].kind = "func" => w[o] = <<>>
  <2>1. w[o] = part[o] \o w[before[o]] /\ before[o] \in 0..n
    <3> HIDE DEF n, w, part, before
    <3>1. o \in 1..n /\ o \in 0..n /\ o # 0 /\ before[o] \in Nat /\ before[o] < o
      BY <1>1
    <3>2. w[o] = part[o] \o w[before[o]]
      BY <1>2, <3>1
    <3> QED
      BY <1>1, <3>1, <3>2
  <2>2. /\ all[o].kind = "closing" => before[o] = all[o].next /\ part[o] = <<all[o].made>>
        /\ all[o].kind = "decorator" => before[o] = all[o].closer /\ part[o] = <<>>
        /\ all[o].kind = "func" => before[o] = 0 /\ part[o] = <<>>
    BY DEF ClosePart, CloseNext
  <2>3. <<>> \o w[before[o]] = w[before[o]]
    <3> HIDE DEF w, before
    <3> QED
      BY <1>2, <2>1, ConcatEmptySeq
  <2> HIDE DEF w, part, before
  <2> QED
    BY <1>3, <2>1, <2>2, <2>3
<1> QED
  BY <1>1, <1>2, <1>3, <1>4

\* What is made later changes neither.
LEMMA WalksGrow ==
  ASSUME NEW all, Layered(all), NEW more, Layered(more), Len(all) <= Len(more),
         \A o \in DOMAIN all : more[o] = all[o]
  PROVE  \A o \in 0..Len(all) : TripOver(more)[o] = TripOver(all)[o] /\ CloseOver(more)[o] = CloseOver(all)[o]
<1> DEFINE n == Len(all)
           n2 == Len(more)
<1>1. /\ n \in Nat /\ DOMAIN all = 1..n /\ n2 \in Nat /\ DOMAIN more = 1..n2 /\ n <= n2
      /\ \A o \in 1..n : o \in 1..n2
  BY ObjectWalks
<1>2. ASSUME NEW o \in 1..n
      PROVE  /\ TripPart(more)[o] = TripPart(all)[o] /\ TripNext(more)[o] = TripNext(all)[o]
             /\ ClosePart(more)[o] = ClosePart(all)[o] /\ CloseNext(more)[o] = CloseNext(all)[o]
  <2>1. o \in DOMAIN all /\ o \in DOMAIN more /\ more[o] = all[o]
    BY <1>1
  <2> HIDE DEF n
  <2>2. CloseNext(more)[o] = CloseNext(all)[o]
    <3>1. all[o].kind \in {"closing", "decorator", "func"}
      BY <2>1, ObjectWalks DEF Objects
    <3> QED
      BY <2>1, <3>1 DEF CloseNext
  <2> QED
    BY <2>1, <2>2 DEF TripPart, TripNext, ClosePart
<1>3. /\ TripPart(all) \in [1..n -> Seq(Makers)] /\ TripNext(all) \in [1..n -> Nat]
      /\ \A o \in 1..n : TripNext(all)[o] < o
      /\ ClosePart(all) \in [1..n -> Seq(Makers)] /\ CloseNext(all) \in [1..n -> Nat]
      /\ \A o \in 1..n : CloseNext(all)[o] < o
  BY ObjectWalks
<1>4. /\ TripPart(more) \in [1..n2 -> Seq(Makers)] /\ TripNext(more) \in [1..n2 -> Nat]
      /\ \A o \in 1..n2 : TripNext(more)[o] < o
      /\ ClosePart(more) \in [1..n2 -> Seq(Makers)] /\ CloseNext(more) \in [1..n2 -> Nat]
      /\ \A o \in 1..n2 : CloseNext(more)[o] < o
  BY ObjectWalks
<1> HIDE DEF n, n2
<1>5. \A o \in 0..n : TripOver(more)[o] = TripOver(all)[o]
  <2> DEFINE p == TripPart(all)
             q == TripPart(more)
             b == TripNext(all)
             c == TripNext(more)
  <2>1. /\ \A o \in 1..n : q[o] = p[o] /\ c[o] = b[o]
        /\ Downward(n, Makers, p, b) /\ Downward(n2, Makers, q, c)
    BY <1>1, <1>2, <1>3, <1>4 DEF Downward
  <2> HIDE DEF p, q, b, c
  <2>2. \A o \in 0..n : Walk(q, c)[o] = Walk(p, b)[o]
    BY <1>1, <2>1, WalksAgree
  <2> QED
    BY <2>2 DEF TripOver, p, q, b, c
<1>6. \A o \in 0..n : CloseOver(more)[o] = CloseOver(all)[o]
  <2> DEFINE p == ClosePart(all)
             q == ClosePart(more)
             b == CloseNext(all)
             c == CloseNext(more)
  <2>1. /\ \A o \in 1..n : q[o] = p[o] /\ c[o] = b[o]
        /\ Downward(n, Makers, p, b) /\ Downward(n2, Makers, q, c)
    BY <1>1, <1>2, <1>3, <1>4 DEF Downward
  <2> HIDE DEF p, q, b, c
  <2>2. \A o \in 0..n : Walk(q, c)[o] = Walk(p, b)[o]
    BY <1>1, <2>1, WalksAgree
  <2> QED
    BY <2>2 DEF CloseOver, p, q, b, c
<1> QED
  BY <1>5, <1>6 DEF n

KeptPart(s, S) ==
  [k \in 1..Len(s) |-> IF s[Len(s) - k + 1] \in S THEN <<s[Len(s) - k + 1]>> ELSE <<>>]
KeptNext(s) == [k \in 1..Len(s) |-> k - 1]

LEMMA KeptWalks ==
  ASSUME NEW X, NEW s \in Seq(X), NEW S
  PROVE  /\ Len(s) \in Nat /\ Kept(s, S) = Walk(KeptPart(s, S), KeptNext(s))
         /\ Downward(Len(s), X, KeptPart(s, S), KeptNext(s))
<1>1. Len(s) \in Nat /\ DOMAIN s = 1..Len(s)
  BY LenProperties
<1>2. ASSUME NEW k \in 1..Len(s)
      PROVE  Len(s) - k + 1 \in DOMAIN s
  BY <1>1
<1>3. ASSUME NEW k \in 1..Len(s)
      PROVE  s[Len(s) - k + 1] \in X
  BY <1>2, ElementOfSeq
<1>4. KeptPart(s, S) \in [1..Len(s) -> Seq(X)]
  BY <1>3, EmptySeq DEF KeptPart
<1>5. KeptNext(s) \in [1..Len(s) -> Nat] /\ \A k \in 1..Len(s) : KeptNext(s)[k] < k
  BY <1>1 DEF KeptNext
<1>6. Kept(s, S) = Walk(KeptPart(s, S), KeptNext(s))
  BY Zenon DEF Kept, KeptPart, KeptNext
<1> QED
  BY <1>1, <1>4, <1>5, <1>6 DEF Downward

\* The last k are the last k - 1 and the one before those.
LEMMA KeptSteps ==
  ASSUME NEW X, NEW s \in Seq(X), NEW S
  PROVE  /\ Kept(s, S)[0] = <<>>
         /\ \A k \in 1..Len(s) :
              Kept(s, S)[k] = IF s[Len(s) - k + 1] \in S THEN <<s[Len(s) - k + 1]>> \o Kept(s, S)[k - 1]
                              ELSE Kept(s, S)[k - 1]
<1> DEFINE n == Len(s)
           part == KeptPart(s, S)
           before == KeptNext(s)
           w == Kept(s, S)
<1>1. n \in Nat /\ w = Walk(part, before) /\ Downward(n, X, part, before)
  BY KeptWalks
<1>2. \A k \in 0..n : w[k] \in Seq(X) /\ w[k] = IF k = 0 THEN <<>> ELSE part[k] \o w[before[k]]
  <2> HIDE DEF n, part, before, w
  <2>1. \A k \in 0..n : w[k] \in Seq(X)
    BY <1>1, WalkTyped
  <2>2. Steps(w, part, before, n)
    BY <1>1, WalkSteps
  <2> QED
    BY <2>1, <2>2 DEF Steps
<1>3. w[0] = <<>>
  <2> HIDE DEF w
  <2> QED
    BY <1>1, <1>2
<1>4. ASSUME NEW k \in 1..n
      PROVE  w[k] = IF s[n - k + 1] \in S THEN <<s[n - k + 1]>> \o w[k - 1] ELSE w[k - 1]
  <2>1. before[k] = k - 1 /\ part[k] = IF s[n - k + 1] \in S THEN <<s[n - k + 1]>> ELSE <<>>
    BY DEF KeptPart, KeptNext
  <2> HIDE DEF n, part, before, w
  <2>2. k \in 0..n /\ k # 0 /\ k - 1 \in 0..n
    BY <1>1
  <2>3. w[k] = part[k] \o w[k - 1] /\ <<>> \o w[k - 1] = w[k - 1]
    BY <1>2, <2>1, <2>2, ConcatEmptySeq
  <2> QED
    BY <2>1, <2>3
<1> QED
  BY <1>3, <1>4

\* The last m of both are the same.
SameEnds(s, t, m) ==
  /\ m \in Nat /\ m <= Len(s) /\ m <= Len(t)
  /\ \A k \in 1..m : s[Len(s) - k + 1] = t[Len(t) - k + 1]

\* What is kept of the last m depends on those alone.
LEMMA KeptAgree ==
  ASSUME NEW X, NEW s \in Seq(X), NEW t \in Seq(X), NEW S, NEW m, SameEnds(s, t, m)
  PROVE  \A k \in 0..m : Kept(s, S)[k] = Kept(t, S)[k]
<1> USE DEF SameEnds
<1> DEFINE n == Len(s)
           n2 == Len(t)
           p == KeptPart(s, S)
           b == KeptNext(s)
           q == KeptPart(t, S)
           c == KeptNext(t)
<1>1. n \in Nat /\ Kept(s, S) = Walk(p, b) /\ Downward(n, X, p, b)
  BY KeptWalks
<1>2. n2 \in Nat /\ Kept(t, S) = Walk(q, c) /\ Downward(n2, X, q, c)
  BY KeptWalks
<1>3. ASSUME NEW k \in 1..m
      PROVE  p[k] = q[k] /\ b[k] = c[k]
  <2>1. k \in 1..n /\ k \in 1..n2
    BY <1>1, <1>2
  <2> QED
    BY <2>1 DEF KeptPart, KeptNext
<1>4. m <= n /\ m <= n2
  OBVIOUS
<1> HIDE DEF n, n2, p, q, b, c
<1>5. \A k \in 0..m : Walk(p, b)[k] = Walk(q, c)[k]
  BY SMTT(60), <1>1, <1>2, <1>3, <1>4, WalksAgree
<1> QED
  BY <1>1, <1>2, <1>5

-----------------------------------------------------------------------------
(* What a step of Then makes *)

\* One more object, which decorates one that is there.
LEMMA OneMore ==
  ASSUME NEW all, Layered(all), NEW x \in Objects, x.next \in 0..Len(all), x.closer \in 0..Len(all)
  PROVE  LET more == Append(all, x)
         IN  /\ Layered(more) /\ Len(more) = Len(all) + 1 /\ more # all
             /\ more[Len(all) + 1] = x /\ \A o \in DOMAIN all : more[o] = all[o]
<1> DEFINE more == Append(all, x)
           n == Len(all)
<1>1. n \in Nat /\ DOMAIN all = 1..n /\ all \in Seq(Objects)
  BY LenProperties DEF Layered
<1>2. /\ more \in Seq(Objects) /\ Len(more) = n + 1 /\ more[n + 1] = x
      /\ \A o \in 1..n : more[o] = all[o]
  BY <1>1, AppendProperties
<1>3. DOMAIN more = 1..(n + 1)
  BY <1>2, LenProperties
<1> HIDE DEF more
<1>4. ASSUME NEW o \in DOMAIN more
      PROVE  more[o].next < o /\ more[o].closer < o
  <2>1. CASE o \in 1..n
    BY <1>1, <1>2, <2>1 DEF Layered
  <2>2. CASE o = n + 1
    BY <1>1, <1>2, <2>2
  <2> QED
    BY <1>1, <1>3, <2>1, <2>2
<1>5. Layered(more)
  BY <1>2, <1>4 DEF Layered
<1>6. more # all
  BY <1>1, <1>2
<1> QED
  BY <1>1, <1>2, <1>5, <1>6 DEF more

\* What Apply makes of the round tripper or client that it is at.
Added(all, o, c) ==
  Append(all, [kind |-> IF c \in Caring THEN "closing" ELSE "func",
               made |-> c, next |-> o, closer |-> 0])

LEMMA Constructed ==
  ASSUME NEW all, Layered(all), NEW o \in DOMAIN all, NEW c \in Plain \cup Caring
  PROVE  LET more == Added(all, o, c)
             last == Len(all) + 1
         IN  /\ Layered(more) /\ Len(more) = last /\ last \in DOMAIN more /\ more # all
             /\ \A k \in DOMAIN all : more[k] = all[k]
             /\ more[last].kind = IF c \in Caring THEN "closing" ELSE "func"
             /\ TripOver(more)[last] = <<c>> \o TripOver(all)[o]
             /\ CloseOver(more)[last] = IF c \in Caring THEN <<c>> \o CloseOver(all)[o] ELSE <<>>
<1> DEFINE x == [kind |-> IF c \in Caring THEN "closing" ELSE "func", made |-> c, next |-> o, closer |-> 0]
           more == Added(all, o, c)
           last == Len(all) + 1
<1>1. Len(all) \in Nat /\ DOMAIN all = 1..Len(all)
  BY LenProperties DEF Layered
<1>2. x \in Objects /\ x.next \in 0..Len(all) /\ x.closer \in 0..Len(all)
  BY <1>1 DEF Objects, Constructors
<1>3. /\ x.kind = (IF c \in Caring THEN "closing" ELSE "func") /\ x.made = c /\ x.next = o
  OBVIOUS
<1>4. more = Append(all, x)
  BY DEF Added
<1> HIDE DEF x, more
<1>5. /\ Layered(more) /\ Len(more) = last /\ more # all /\ more[last] = x
      /\ \A k \in DOMAIN all : more[k] = all[k]
  BY <1>2, <1>4, OneMore
<1>6. last \in DOMAIN more /\ Len(all) <= Len(more) /\ o \in 0..Len(all)
  BY <1>1, <1>5, LenProperties DEF Layered
<1>7. TripOver(more)[o] = TripOver(all)[o] /\ CloseOver(more)[o] = CloseOver(all)[o]
  BY <1>5, <1>6, WalksGrow
<1>8. TripOver(more)[last] = <<c>> \o TripOver(all)[o]
  BY ZenonT(60), <1>3, <1>5, <1>6, <1>7, TripSteps
<1>9. CloseOver(more)[last] = IF c \in Caring THEN <<c>> \o CloseOver(all)[o] ELSE <<>>
  BY ZenonT(60), <1>3, <1>5, <1>6, <1>7, CloseSteps
<1> QED
  BY <1>3, <1>5, <1>6, <1>8, <1>9 DEF more

\* A Decorator takes trips to what it decorates, and closes what that was to close.
LEMMA Preserved ==
  ASSUME NEW all, Layered(all), NEW o \in DOMAIN all, Closes(all, o), NEW c \in Plain
  PROVE  LET made  == Added(all, o, c)
             final == PreserveCloseIdler(made, o, Len(all) + 1)
             last  == Len(all) + 2
         IN  /\ Layered(final) /\ Len(final) = last /\ last \in DOMAIN final /\ final # all
             /\ \A k \in DOMAIN all : final[k] = all[k]
             /\ TripOver(final)[last] = <<c>> \o TripOver(all)[o]
             /\ CloseOver(final)[last] = CloseOver(all)[o]
<1> DEFINE n == Len(all)
           made == Added(all, o, c)
           closer == IF all[o].kind = "decorator" THEN all[o].closer ELSE o
           x == [kind |-> "decorator", made |-> "decorator", next |-> n + 1, closer |-> closer]
           final == Append(made, x)
<1>1. /\ n \in Nat /\ DOMAIN all = 1..n /\ all[o] \in Objects /\ o \in 1..n
      /\ all[o].next < o /\ all[o].closer < o
  BY LenProperties, ElementOfSeq DEF Layered
<1>2. c \notin Caring
  BY ChainConstants
<1>3. /\ Layered(made) /\ Len(made) = n + 1 /\ \A k \in DOMAIN all : made[k] = all[k]
      /\ n + 1 \in DOMAIN made /\ made[n + 1].kind = "func"
      /\ TripOver(made)[n + 1] = <<c>> \o TripOver(all)[o]
  BY <1>2, Constructed
<1>4. closer \in 0..n
  BY <1>1 DEF Objects
<1>5. PreserveCloseIdler(made, o, n + 1) = final
  <2> HIDE DEF made
  <2> QED
    BY <1>3 DEF PreserveCloseIdler, Closes
<1>6. /\ x \in Objects /\ x.next = n + 1 /\ x.closer = closer /\ x.kind = "decorator"
  BY <1>1, <1>4 DEF Objects
<1> HIDE DEF made, x, closer
<1>7. x.next \in 0..Len(made) /\ x.closer \in 0..Len(made)
  BY <1>1, <1>3, <1>4, <1>6
<1>8. /\ Layered(final) /\ Len(final) = Len(made) + 1 /\ final[Len(made) + 1] = x
      /\ \A k \in DOMAIN made : final[k] = made[k]
  BY <1>3, <1>6, <1>7, OneMore
<1> HIDE DEF final
<1>9. /\ Len(final) = n + 2 /\ final[n + 2] = x /\ n + 2 \in DOMAIN final /\ Len(made) <= Len(final)
      /\ DOMAIN made = 1..(n + 1) /\ n + 1 \in 0..Len(made) /\ Len(all) <= Len(final)
  BY <1>1, <1>3, <1>8, LenProperties DEF Layered
<1>10. \A k \in DOMAIN all : final[k] = all[k]
  BY <1>1, <1>3, <1>8, <1>9
<1>11. TripOver(final)[n + 1] = TripOver(made)[n + 1]
  BY ZenonT(60), <1>3, <1>8, <1>9, WalksGrow
<1>12. \A k \in 0..n : CloseOver(final)[k] = CloseOver(all)[k]
  BY <1>8, <1>9, <1>10, WalksGrow
<1>13. TripOver(final)[n + 2] = TripOver(made)[n + 1]
  <2>1. final[n + 2].kind = "decorator" /\ final[n + 2].next = n + 1
    BY <1>6, <1>9
  <2>2. TripOver(final)[n + 2] = TripOver(final)[n + 1]
    BY ZenonT(60), <1>8, <1>9, <2>1, TripSteps
  <2> QED
    BY <1>11, <2>2
<1>14. CloseOver(final)[n + 2] = CloseOver(all)[closer]
  <2>1. final[n + 2].kind = "decorator" /\ final[n + 2].closer = closer
    BY <1>6, <1>9
  <2>2. CloseOver(final)[n + 2] = CloseOver(final)[closer]
    BY <1>8, <1>9, <2>1, CloseSteps
  <2> QED
    BY <1>4, <1>12, <2>2
<1>15. CloseOver(all)[closer] = CloseOver(all)[o]
  BY CloseSteps DEF closer
<1>16. final # all
  BY <1>1, <1>9
<1> QED
  BY <1>3, <1>5, <1>8, <1>9, <1>10, <1>13, <1>14, <1>15, <1>16 DEF made

\* Applying a constructor puts its round tripper in front, and leaves whatever is
\* met by a call of CloseIdleConnections but for a caring one, which it puts in front too.
LEMMA Applied ==
  ASSUME Layered(objects), next \in DOMAIN objects, Apply, NEW c \in Constructors, c = pending[Last]
  PROVE  /\ Layered(objects') /\ Len(objects) <= Len(objects')
         /\ \A k \in DOMAIN objects : objects'[k] = objects[k]
         /\ next' \in DOMAIN objects' /\ next' # 0
         /\ TripOver(objects')[next'] =
              IF c \in Nops THEN TripOver(objects)[next] ELSE <<c>> \o TripOver(objects)[next]
         /\ package = "roundtrip" =>
              CloseOver(objects')[next'] =
                IF c \in Caring THEN <<c>> \o CloseOver(objects)[next] ELSE CloseOver(objects)[next]
<1> DEFINE made    == Construct(c, next)
           latest  == Result(made, next)
           wrapped == PreserveCloseIdler(made, next, latest)
           more    == Added(objects, next, c)
           n       == Len(objects)
<1>1. /\ package = "client" => objects' = made /\ next' = latest
      /\ package # "client" => objects' = wrapped /\ next' = Result(wrapped, latest)
  BY DEF Apply
<1>2. n \in Nat /\ DOMAIN objects = 1..n /\ objects[next] \in Objects
  BY LenProperties, ElementOfSeq DEF Layered
<1>3. CASE c \in Nops
  <2>1. made = objects /\ latest = next /\ wrapped = objects
    BY <1>3 DEF Construct, Result, PreserveCloseIdler
  <2>2. objects' = objects /\ next' = next
    BY <1>1, <2>1 DEF Result
  <2>3. c \notin Caring
    BY <1>3, ChainConstants
  <2> QED
    BY <1>2, <1>3, <2>2, <2>3
<1>4. CASE c \notin Nops
  <2>1. c \in Plain \cup Caring
    BY <1>4 DEF Constructors
  <2>2. made = more
    BY <1>4 DEF Construct, Added
  <2>3. /\ Layered(more) /\ Len(more) = n + 1 /\ n + 1 \in DOMAIN more /\ more # objects
        /\ \A k \in DOMAIN objects : more[k] = objects[k]
        /\ more[n + 1].kind = IF c \in Caring THEN "closing" ELSE "func"
        /\ TripOver(more)[n + 1] = <<c>> \o TripOver(objects)[next]
        /\ CloseOver(more)[n + 1] = IF c \in Caring THEN <<c>> \o CloseOver(objects)[next] ELSE <<>>
    BY SMTT(60), <2>1, Constructed
  <2>4. latest = n + 1
    BY <2>2, <2>3 DEF Result
  <2>5. wrapped = PreserveCloseIdler(more, next, n + 1)
    BY <2>2, <2>4
  <2> HIDE DEF made, latest, wrapped, more
  <2>6. more[next] = objects[next]
    BY <2>3
  <2>7. CASE objects' = more /\ next' = n + 1 /\ (package = "roundtrip" => c \in Caring \/ ~Closes(objects, next))
    <3>1. ~Closes(objects, next) => CloseOver(objects)[next] = <<>>
      BY <1>2, CloseSteps DEF Closes, Objects
    <3> QED
      BY <1>2, <1>4, <2>3, <2>7, <3>1
  <2>8. CASE package = "client"
    BY <1>1, <2>2, <2>4, <2>7, <2>8
  <2>9. CASE package # "client" /\ (c \in Caring \/ ~Closes(objects, next))
    <3>1. wrapped = more
      BY <2>3, <2>5, <2>6, <2>9 DEF PreserveCloseIdler, Closes
    <3>2. next' = n + 1
      BY <1>1, <2>3, <2>9, <3>1 DEF Result
    <3> QED
      BY <1>1, <2>7, <2>9, <3>1, <3>2
  <2>10. CASE package # "client" /\ c \notin Caring /\ Closes(objects, next)
    <3>1. c \in Plain
      BY <2>1, <2>10
    <3>2. /\ Layered(wrapped) /\ Len(wrapped) = n + 2 /\ n + 2 \in DOMAIN wrapped /\ wrapped # objects
          /\ \A k \in DOMAIN objects : wrapped[k] = objects[k]
          /\ TripOver(wrapped)[n + 2] = <<c>> \o TripOver(objects)[next]
          /\ CloseOver(wrapped)[n + 2] = CloseOver(objects)[next]
      BY <2>5, <2>10, <3>1, Preserved DEF more
    <3>3. objects' = wrapped /\ next' = n + 2
      BY <1>1, <2>10, <3>2 DEF Result
    <3> QED
      BY <1>2, <1>4, <2>10, <3>2, <3>3
  <2> QED
    BY <2>8, <2>9, <2>10
<1> QED
  BY <1>3, <1>4

-----------------------------------------------------------------------------
(* The invariant *)

Askable == Constructors \cup {"transport", "func"}

\* The walks of the model are those over its objects.
LEMMA Walks ==
  /\ Trip = TripOver(objects) /\ Close = CloseOver(objects) /\ (ObjectInv <=> Layered(objects))
  /\ Trip' = TripOver(objects') /\ Close' = CloseOver(objects') /\ (ObjectInv' <=> Layered(objects'))
<1>1. Trip = TripOver(objects) /\ Trip' = TripOver(objects')
  BY Zenon DEF Trip, TripOver, TripPart, TripNext
<1>2. Close = CloseOver(objects) /\ Close' = CloseOver(objects')
  BY Zenon DEF Close, CloseOver, ClosePart, CloseNext
<1>3. (ObjectInv <=> Layered(objects)) /\ (ObjectInv' <=> Layered(objects'))
  BY DEF ObjectInv, Layered
<1> QED
  BY <1>1, <1>2, <1>3

LEMMA InitChain == Init => ChainInv
<1> SUFFICES ASSUME Init PROVE ChainInv
  OBVIOUS
<1>1. SliceInv
  <2>1. PICK a \in Constructors, b \in Constructors : arrays = << <<a, b>> >>
    BY DEF Init
  <2>2. <<a, b>> \in Seq(Constructors) /\ <<a, b>> \in [1..2 -> Constructors]
    OBVIOUS
  <2>3. arrays \in Seq(Seq(Constructors)) /\ Len(arrays) > 0 /\ arrays[1] = <<a, b>>
    BY <2>1, <2>2
  <2>4. chains = <<>> /\ given = <<>>
    BY DEF Init
  <2> QED
    BY <2>2, <2>3, <2>4, EmptySeq DEF SliceInv
<1> DEFINE t == [kind |-> "closing", made |-> "transport", next |-> 0, closer |-> 0]
           f == [kind |-> "func", made |-> "func", next |-> 0, closer |-> 0]
<1>2. objects = <<t, f>> /\ t \in Objects /\ f \in Objects
  BY DEF Init, Bases, Objects
<1>3. t.next = 0 /\ f.next = 0 /\ t.closer = 0 /\ f.closer = 0 /\ t.kind = "closing" /\ f.kind = "func"
      /\ t.made = "transport" /\ f.made = "func"
  OBVIOUS
<1> HIDE DEF t, f
<1>4. /\ objects \in Seq(Objects) /\ Len(objects) = 2 /\ DOMAIN objects = 1..2
      /\ objects[1] = t /\ objects[2] = f
  BY <1>2
<1>5. Layered(objects)
  BY <1>3, <1>4 DEF Layered
<1>6. /\ Trip[1] = <<"transport">> \o <<>> /\ Trip[2] = <<"func">> \o <<>>
      /\ Close[1] = <<"transport">> \o <<>> /\ Close[2] = <<>>
  <2> DEFINE trip == TripOver(objects)
             close == CloseOver(objects)
  <2>1. Trip = trip /\ Close = close
    BY Walks
  <2>2. /\ trip[0] = <<>>
        /\ \A o \in DOMAIN objects :
             objects[o].kind # "decorator" => trip[o] = <<objects[o].made>> \o trip[objects[o].next]
    BY <1>5, TripSteps
  <2>3. /\ close[0] = <<>>
        /\ \A o \in DOMAIN objects :
             /\ objects[o].kind = "closing" => close[o] = <<objects[o].made>> \o close[objects[o].next]
             /\ objects[o].kind = "func" => close[o] = <<>>
    BY <1>5, CloseSteps
  <2> HIDE DEF trip, close
  <2>4. trip[1] = <<"transport">> \o <<>> /\ trip[2] = <<"func">> \o <<>>
    BY <1>3, <1>4, <2>2
  <2>5. close[1] = <<"transport">> \o <<>> /\ close[2] = <<>>
    BY <1>3, <1>4, <2>3
  <2> QED
    BY <2>1, <2>4, <2>5
<1>7. ASSUME NEW c \in {"transport", "func"}, NEW S
      PROVE  Only(<<c>>, S) = IF c \in S THEN <<c>> \o <<>> ELSE <<>>
  <2> DEFINE s == <<c>>
  <2>1. s \in Seq({"transport", "func"}) /\ Len(s) = 1 /\ s[1] = c
    OBVIOUS
  <2> HIDE DEF s
  <2>2. Kept(s, S)[1] = IF s[1] \in S THEN <<s[1]>> \o Kept(s, S)[0] ELSE Kept(s, S)[0]
    <3>1. 1 \in 1..Len(s) /\ Len(s) - 1 + 1 = 1 /\ 1 - 1 = 0
      BY <2>1
    <3> QED
      BY <2>1, <3>1, KeptSteps
  <2>3. Kept(s, S)[0] = <<>>
    BY <2>1, KeptSteps
  <2> QED
    BY <2>1, <2>2, <2>3 DEF Only, s
<1>8. /\ "transport" \in Visible /\ "func" \in Visible /\ "transport" \in Closing /\ "func" \notin Closing
  BY ChainConstants DEF Visible, Closing
<1>9. products = <<1, 2>> /\ asked = << <<"transport">>, <<"func">> >> /\ next = 0
  BY DEF Init
<1>10. DOMAIN products = 1..2 /\ products[1] = 1 /\ products[2] = 2 /\ asked[1] = <<"transport">>
       /\ asked[2] = <<"func">> /\ Len(products) = 2 /\ Len(asked) = 2
  BY <1>9
<1>11. TripsInOrder /\ ClosesEveryIdler
  BY <1>6, <1>7, <1>8, <1>10 DEF TripsInOrder, ClosesEveryIdler
<1>12. ProductInv
  <2>1. asked \in Seq(Seq(Constructors \cup {"transport", "func"})) /\ products \in Seq(Nat)
    BY <1>9
  <2>2. package \in {"roundtrip", "client"}
    BY DEF Init
  <2> QED
    BY <1>4, <1>9, <1>10, <2>1, <2>2 DEF ProductInv
<1>13. PendingInv
  BY <1>9 DEF PendingInv
<1> QED
  BY <1>1, <1>5, <1>11, <1>12, <1>13, Walks DEF ChainInv

\* A new chain has an array of its own.
LEMMA NewArray ==
  ASSUME SliceInv, NEW s \in Seq(Constructors), Made(s), arrays' = Append(arrays, s),
         chains' = Append(chains, Len(arrays'))
  PROVE  SliceInv'
<1> USE DEF SliceInv
<1>1. given' = Append(given, s)
  BY DEF Made
<1>2. /\ Len(arrays) \in Nat \ {0} /\ Len(chains) \in Nat /\ Len(given) = Len(chains)
      /\ DOMAIN chains = 1..Len(chains)
  BY LenProperties
<1>3. /\ arrays' \in Seq(Seq(Constructors)) /\ Len(arrays') = Len(arrays) + 1
      /\ arrays'[Len(arrays) + 1] = s /\ \A i \in 1..Len(arrays) : arrays'[i] = arrays[i]
  BY <1>2, AppendProperties
<1>4. /\ chains' \in Seq(Nat) /\ Len(chains') = Len(chains) + 1
      /\ chains'[Len(chains) + 1] = Len(arrays) + 1 /\ \A d \in 1..Len(chains) : chains'[d] = chains[d]
  <2>1. Len(arrays') \in Nat
    BY <1>2, <1>3
  <2> QED
    BY <1>2, <1>3, <2>1, AppendProperties
<1>5. /\ given' \in Seq(Seq(Constructors)) /\ Len(given') = Len(given) + 1
      /\ given'[Len(given) + 1] = s /\ \A d \in 1..Len(given) : given'[d] = given[d]
  BY <1>1, <1>2, AppendProperties
<1>6. DOMAIN chains' = 1..(Len(chains) + 1)
  BY <1>4, LenProperties
<1>7. ASSUME NEW d \in DOMAIN chains'
      PROVE  chains'[d] \in 2..Len(arrays') /\ arrays'[chains'[d]] = given'[d]
  <2>1. CASE d \in 1..Len(chains)
    <3>1. chains'[d] = chains[d] /\ given'[d] = given[d]
      BY <1>2, <1>4, <1>5, <2>1
    <3>2. chains[d] \in 2..Len(arrays) /\ arrays[chains[d]] = given[d]
      BY <1>2, <2>1
    <3>3. arrays'[chains[d]] = arrays[chains[d]] /\ chains[d] \in 2..(Len(arrays) + 1)
      BY SMTT(60), <1>2, <1>3, <3>2
    <3> QED
      BY <1>3, <3>1, <3>2, <3>3
  <2>2. CASE d = Len(chains) + 1
    <3>1. Len(arrays) + 1 \in 2..(Len(arrays) + 1)
      BY <1>2
    <3> QED
      BY <1>2, <1>3, <1>4, <1>5, <2>2, <3>1
  <2> QED
    BY SMTT(60), <1>2, <1>6, <2>1, <2>2
<1>8. Len(arrays') > 0 /\ arrays'[1] \in [1..2 -> Constructors] /\ Len(given') = Len(chains')
  BY <1>2, <1>3, <1>4, <1>5
<1> QED
  BY <1>3, <1>4, <1>5, <1>7, <1>8

\* Whatever the caller does to its slice and whatever chains are made, each chain has
\* what it was given.
LEMMA SliceSteps ==
  ASSUME SliceInv, \/ Reuse \/ NewChain
                   \/ \E d \in 1..Len(chains) :
                        AppendMore(d) \/ \E e \in 1..Len(chains) : Extend(d, e)
  PROVE  SliceInv'
<1> USE DEF SliceInv
<1>1. /\ Len(arrays) \in Nat \ {0} /\ DOMAIN arrays = 1..Len(arrays) /\ DOMAIN chains = 1..Len(chains)
      /\ arrays[1] \in Seq(Constructors)
      /\ \A d \in 1..Len(chains) : given[d] \in Seq(Constructors) /\ arrays[chains[d]] = given[d]
  <2>1. /\ Len(arrays) \in Nat \ {0} /\ DOMAIN arrays = 1..Len(arrays)
        /\ DOMAIN chains = 1..Len(chains) /\ DOMAIN given = 1..Len(chains)
    BY LenProperties
  <2>2. \A d \in 1..Len(chains) : given[d] \in Seq(Constructors)
    BY <2>1, ElementOfSeq
  <2>3. arrays[1] \in Seq(Constructors)
    BY <2>1, ElementOfSeq
  <2> QED
    BY <2>1, <2>2, <2>3
<1>2. CASE Reuse
  <2>1. PICK k \in 1..2, c \in Constructors : arrays' = [arrays EXCEPT ![1][k] = c]
    BY <1>2 DEF Reuse
  <2> DEFINE s == [arrays[1] EXCEPT ![k] = c]
  <2>2. s \in [1..2 -> Constructors]
    OBVIOUS
  <2>3. s \in Seq(Constructors)
    <3>1. k \in 1..Len(arrays[1])
      BY <1>1, LenProperties
    <3> QED
      BY <1>1, <3>1, ExceptSeq
  <2>4. arrays' = [arrays EXCEPT ![1] = s]
    BY <2>1
  <2> HIDE DEF s
  <2>5. /\ arrays' \in Seq(Seq(Constructors)) /\ Len(arrays') = Len(arrays) /\ arrays'[1] = s
        /\ \A i \in 2..Len(arrays) : arrays'[i] = arrays[i]
    BY <1>1, <2>3, <2>4, ExceptSeq
  <2>6. UNCHANGED <<chains, given>>
    BY <1>2 DEF Reuse
  <2> QED
    BY <2>2, <2>5, <2>6
<1>3. CASE NewChain
  BY <1>1, <1>3, NewArray, SMTT(60) DEF NewChain
<1>4. ASSUME NEW d \in 1..Len(chains), AppendMore(d)
      PROVE  SliceInv'
  <2> DEFINE s == given[d] \o arrays[1]
  <2>1. s \in Seq(Constructors)
    BY <1>1, ConcatProperties
  <2>2. Made(s) /\ arrays' = Append(arrays, s) /\ chains' = Append(chains, Len(arrays'))
    BY <1>1, <1>4 DEF AppendMore
  <2> HIDE DEF s, SliceInv
  <2> QED
    BY <2>1, <2>2, NewArray
<1>5. ASSUME NEW d \in 1..Len(chains), NEW e \in 1..Len(chains), Extend(d, e)
      PROVE  SliceInv'
  <2> DEFINE s == given[d] \o given[e]
  <2>1. s \in Seq(Constructors)
    BY <1>1, ConcatProperties
  <2>2. Made(s) /\ arrays' = Append(arrays, s) /\ chains' = Append(chains, Len(arrays'))
    BY <1>1, <1>5 DEF Extend
  <2> HIDE DEF s, SliceInv
  <2> QED
    BY <2>1, <2>2, NewArray
<1> QED
  BY <1>2, <1>3, <1>4, <1>5

\* What was asked of each product.
LEMMA AskedTyped ==
  ASSUME ProductInv
  PROVE  /\ Len(products) \in Nat /\ DOMAIN products = 1..Len(products)
         /\ Len(asked) \in Nat /\ DOMAIN asked = 1..Len(asked) /\ Len(products) <= Len(asked)
         /\ \A p \in DOMAIN asked : asked[p] \in Seq(Askable) /\ Len(asked[p]) \in Nat
<1>1. /\ Len(products) \in Nat /\ DOMAIN products = 1..Len(products)
      /\ Len(asked) \in Nat /\ DOMAIN asked = 1..Len(asked)
  BY LenProperties DEF ProductInv
<1>2. \A p \in DOMAIN asked : asked[p] \in Seq(Askable)
  BY ElementOfSeq DEF ProductInv, Askable
<1> QED
  BY <1>1, <1>2, LenProperties DEF ProductInv

\* Then has met what its next was asked for, and all else is pending.
LEMMA ThenStep ==
  ASSUME ChainInv, NEW d \in 1..Len(chains), NEW p \in 1..Len(products), Then(d, p)
  PROVE  ChainInv'
<1> USE DEF ChainInv
<1>1. next = 0 /\ Len(asked) = Len(products)
  BY DEF Then, Idle, ProductInv
<1>2. /\ given[d] \in Seq(Constructors) /\ given[d] \in Seq(Askable) /\ arrays[chains[d]] = given[d]
      /\ d \in DOMAIN chains
  <2>1. DOMAIN chains = 1..Len(chains) /\ DOMAIN given = 1..Len(chains)
    BY LenProperties DEF SliceInv
  <2>2. given[d] \in Seq(Constructors)
    BY <2>1, ElementOfSeq DEF SliceInv
  <2>3. given[d] \in Seq(Askable)
    BY <2>2, SeqMonotonic DEF Askable
  <2> QED
    BY <2>1, <2>2, <2>3 DEF SliceInv
<1> DEFINE g == given[d]
           old == asked[p]
           all == g \o old
           n == Len(old)
<1>3. old \in Seq(Askable) /\ n \in Nat /\ Len(g) \in Nat /\ p \in DOMAIN products
  BY <1>1, <1>2, AskedTyped, LenProperties
<1>4. /\ next' = products[p] /\ pending' = g /\ asked' = Append(asked, all)
      /\ UNCHANGED <<slices, objects, products>>
  BY <1>2 DEF Then
<1>5. products[p] \in DOMAIN objects /\ products[p] # 0
  <2>1. DOMAIN objects = 1..Len(objects)
    BY LenProperties DEF ObjectInv
  <2> QED
    BY <1>3, <2>1 DEF ProductInv
<1>6. Trip[products[p]] = Kept(old, Visible)[n] /\ (package = "roundtrip" => Close[products[p]] = Kept(old, Closing)[n])
  BY <1>3 DEF TripsInOrder, ClosesEveryIdler, Only
<1> HIDE DEF g, old, n
<1>7. all \in Seq(Askable) /\ Len(all) = Len(g) + n
  BY <1>2, <1>3, ConcatProperties DEF g, n
<1>8. \A i \in 1..Len(g) : all[i] = g[i]
  BY <1>2, <1>3, ConcatProperties DEF g
<1>9. SameEnds(all, old, n)
  <2>1. \A j \in (Len(g) + 1)..(Len(g) + Len(old)) : all[j] = old[j - Len(g)]
    BY <1>2, <1>3, ConcatProperties DEF g
  <2> HIDE DEF all
  <2>2. ASSUME NEW k \in 1..n
        PROVE  all[Len(all) - k + 1] = old[Len(old) - k + 1]
    <3>1. /\ Len(all) - k + 1 \in (Len(g) + 1)..(Len(g) + Len(old))
          /\ (Len(all) - k + 1) - Len(g) = Len(old) - k + 1
      BY <1>3, <1>7 DEF n
    <3>2. all[Len(all) - k + 1] = old[(Len(all) - k + 1) - Len(g)]
      BY <2>1, <3>1
    <3> QED
      BY <3>1, <3>2
  <2>3. n <= Len(all) /\ n <= Len(old)
    BY <1>3, <1>7 DEF n
  <2> QED
    BY <1>3, <2>2, <2>3 DEF SameEnds
<1>10. ASSUME NEW S
       PROVE  Kept(all, S)[n] = Kept(old, S)[n]
  <2>1. n \in 0..n
    BY <1>3
  <2> HIDE DEF all
  <2>2. \A k \in 0..n : Kept(all, S)[k] = Kept(old, S)[k]
    BY <1>3, <1>7, <1>9, KeptAgree
  <2> QED
    BY <2>1, <2>2
<1> HIDE DEF all
<1>11. /\ asked' \in Seq(Seq(Askable)) /\ Len(asked') = Len(asked) + 1 /\ asked'[Len(asked) + 1] = all
       /\ \A q \in 1..Len(asked) : asked'[q] = asked[q]
  <2>1. asked \in Seq(Seq(Askable))
    BY DEF ProductInv, Askable
  <2> QED
    BY <1>4, <1>7, <2>1, AppendProperties
<1>12. SliceInv' /\ ObjectInv' /\ Trip' = Trip /\ Close' = Close
  BY <1>4 DEF slices, SliceInv, ObjectInv, Trip, Close
<1>13. ProductInv'
  BY <1>1, <1>4, <1>5, <1>11 DEF ProductInv, slices, Askable
<1>14. TripsInOrder' /\ ClosesEveryIdler'
  <2>1. \A q \in DOMAIN products : asked'[q] = asked[q]
    BY <1>1, <1>11, AskedTyped
  <2> QED
    BY <1>4, <1>12, <2>1 DEF TripsInOrder, ClosesEveryIdler, slices
<1>15. PendingInv'
  <2>1. DOMAIN g = 1..Len(g) /\ Len(all) - Len(g) = n
    BY <1>2, <1>3, <1>7, LenProperties DEF g
  <2>2. asked'[Len(asked')] = all
    BY <1>11
  <2>3. /\ Trip'[next'] = Kept(all, Visible)[n]
        /\ package' = "roundtrip" => Close'[next'] = Kept(all, Closing)[n]
    BY <1>4, <1>6, <1>10, <1>12 DEF slices
  <2>4. next' \in DOMAIN objects' /\ pending' \in Seq(Constructors)
    BY <1>2, <1>4, <1>5 DEF g
  <2> QED
    BY <1>3, <1>4, <1>8, <2>1, <2>2, <2>3, <2>4 DEF PendingInv
<1> QED
  BY <1>12, <1>13, <1>14, <1>15

\* A step of Then meets the next constructor before all that it has met so far.
LEMMA ApplyStep ==
  ASSUME ChainInv, Apply
  PROVE  ChainInv'
<1> USE DEF ChainInv
<1> DEFINE all == asked[Len(asked)]
           m == Len(pending)
           n == Len(all)
           c == pending[Last]
<1>1. /\ next # 0 /\ pending # <<>> /\ pending' = SubSeq(pending, 1, m - 1)
      /\ UNCHANGED <<slices, products, asked>>
  BY DEF Apply, Idle, Last
<1>2. /\ next \in DOMAIN objects /\ pending \in Seq(Constructors) /\ n - m \in Nat
      /\ \A k \in DOMAIN pending : pending[k] = all[k]
      /\ Trip[next] = Kept(all, Visible)[n - m]
      /\ package = "roundtrip" => Close[next] = Kept(all, Closing)[n - m]
  BY <1>1 DEF PendingInv
<1>3. /\ all \in Seq(Askable) /\ n \in Nat /\ Len(asked) = Len(products) + 1
  <2>1. Len(asked) = Len(products) + 1
    BY <1>1 DEF ProductInv
  <2>2. Len(asked) \in DOMAIN asked
    BY <2>1, AskedTyped
  <2> QED
    BY <2>1, <2>2, AskedTyped
<1>4. m \in Nat \ {0} /\ DOMAIN pending = 1..m
  BY <1>1, <1>2, LenProperties, EmptySeq
<1> HIDE DEF all, m, n
<1>5. c \in Constructors /\ c = all[m]
  <2>1. pending[m] \in Constructors
    BY <1>2, <1>4, ElementOfSeq
  <2>2. pending[m] = all[m]
    BY <1>2, <1>4
  <2> QED
    BY <2>1, <2>2 DEF Last, m
<1> HIDE DEF c
<1>6. /\ Layered(objects') /\ Len(objects) <= Len(objects')
      /\ \A k \in DOMAIN objects : objects'[k] = objects[k]
      /\ next' \in DOMAIN objects' /\ next' # 0
      /\ TripOver(objects')[next'] =
           IF c \in Nops THEN TripOver(objects)[next] ELSE <<c>> \o TripOver(objects)[next]
      /\ package = "roundtrip" =>
           CloseOver(objects')[next'] =
             IF c \in Caring THEN <<c>> \o CloseOver(objects)[next] ELSE CloseOver(objects)[next]
  <2>1. Layered(objects) /\ c = pending[Last]
    BY Walks DEF c
  <2> QED
    BY <1>2, <1>5, <2>1, Applied
<1>7. /\ DOMAIN objects = 1..Len(objects) /\ DOMAIN objects' = 1..Len(objects')
      /\ Len(objects) \in Nat /\ Len(objects') \in Nat
  BY <1>6, LenProperties, Walks DEF Layered
<1>8. ASSUME NEW p \in DOMAIN products
      PROVE  Trip'[products[p]] = Trip[products[p]] /\ Close'[products[p]] = Close[products[p]]
  <2>1. products[p] \in 0..Len(objects)
    BY <1>7 DEF ProductInv
  <2> QED
    BY <1>6, <2>1, Walks, WalksGrow
<1>9. SliceInv' /\ ObjectInv' /\ UNCHANGED <<package, products, asked>>
  BY <1>1, <1>6, Walks DEF slices, SliceInv
<1>10. ProductInv'
  <2>1. \A p \in DOMAIN products : products[p] \in DOMAIN objects'
    BY <1>6, <1>7 DEF ProductInv
  <2> QED
    BY <1>1, <1>6, <1>9, <2>1 DEF ProductInv
<1>11. TripsInOrder' /\ ClosesEveryIdler'
  BY <1>8, <1>9 DEF TripsInOrder, ClosesEveryIdler
<1>12. PendingInv'
  <2>1. /\ pending' \in Seq(Constructors) /\ Len(pending') = m - 1 /\ DOMAIN pending' = 1..(m - 1)
        /\ \A k \in 1..(m - 1) : pending'[k] = pending[k]
    <3>1. \A k \in 1..(m - 1) : pending[k] \in Constructors
      BY <1>2, <1>4, ElementOfSeq DEF m
    <3>2. /\ pending' \in Seq(Constructors) /\ Len(pending') = m - 1
          /\ \A k \in 1..(m - 1) : pending'[k] = pending[k]
      BY <1>1, <1>2, <1>4, <3>1, SubSeqProperties
    <3> QED
      BY <3>2, LenProperties
  <2>2. \A k \in 1..(m - 1) : pending'[k] = all[k]
    BY <1>2, <1>4, <2>1
  <2> DEFINE done == n - m + 1
  <2>3. done \in 1..n /\ n - done + 1 = m /\ done - 1 = n - m /\ n - (m - 1) = done
    BY <1>2, <1>3, <1>4
  <2>4. ASSUME NEW S
        PROVE  Kept(all, S)[done] = IF c \in S THEN <<c>> \o Kept(all, S)[n - m] ELSE Kept(all, S)[n - m]
    <3>1. Kept(all, S)[done] = IF all[n - done + 1] \in S THEN <<all[n - done + 1]>> \o Kept(all, S)[done - 1]
                               ELSE Kept(all, S)[done - 1]
      <4> HIDE DEF done
      <4> QED
        BY <1>3, <2>3, KeptSteps DEF n
    <3> HIDE DEF done
    <3> QED
      BY <1>5, <2>3, <3>1
  <2> HIDE DEF done
  <2>5. /\ c \in Nops <=> c \notin Visible
        /\ c \in Caring <=> c \in Closing
    BY <1>5, ChainConstants DEF Visible, Closing, Constructors
  <2>6. Trip'[next'] = Kept(all, Visible)[done]
    BY <1>2, <1>6, <2>4, <2>5, Walks
  <2>7. package = "roundtrip" => Close'[next'] = Kept(all, Closing)[done]
    BY <1>2, <1>6, <2>4, <2>5, Walks
  <2>8. asked'[Len(asked')] = all /\ Len(all) - Len(pending') = done
    BY <1>9, <2>1, <2>3 DEF all, n
  <2> QED
    BY <1>6, <1>9, <2>1, <2>2, <2>3, <2>6, <2>7, <2>8 DEF PendingInv
<1> QED
  BY <1>9, <1>10, <1>11, <1>12

\* What Then returns has met all that it was asked for.
LEMMA ReturnStep ==
  ASSUME ChainInv, Return
  PROVE  ChainInv'
<1> USE DEF ChainInv
<1> DEFINE all == asked[Len(asked)]
<1>1. /\ next # 0 /\ pending = <<>> /\ products' = Append(products, next) /\ next' = 0
      /\ UNCHANGED <<slices, objects, asked>>
  BY DEF Return, Idle
<1>2. /\ next \in DOMAIN objects /\ Trip[next] = Kept(all, Visible)[Len(all) - Len(pending)]
      /\ package = "roundtrip" => Close[next] = Kept(all, Closing)[Len(all) - Len(pending)]
  BY <1>1 DEF PendingInv
<1>3. /\ Len(products) \in Nat /\ DOMAIN products = 1..Len(products) /\ Len(asked) = Len(products) + 1
      /\ Len(all) \in Nat
  BY <1>1, AskedTyped DEF ProductInv
<1>4. Len(all) - Len(pending) = Len(all)
  BY <1>1, <1>3, EmptySeq
<1>5. Trip[next] = Only(all, Visible) /\ (package = "roundtrip" => Close[next] = Only(all, Closing))
  BY <1>2, <1>4 DEF Only
<1>6. next \in Nat
  BY <1>2, LenProperties DEF ObjectInv
<1>7. /\ products' \in Seq(Nat) /\ Len(products') = Len(products) + 1
      /\ products'[Len(products) + 1] = next /\ \A p \in 1..Len(products) : products'[p] = products[p]
  BY <1>1, <1>3, <1>6, AppendProperties DEF ProductInv
<1>8. DOMAIN products' = 1..(Len(products) + 1)
  BY <1>7, LenProperties
<1>9. SliceInv' /\ ObjectInv' /\ Trip' = Trip /\ Close' = Close /\ UNCHANGED <<package, asked>>
  BY <1>1 DEF slices, SliceInv, ObjectInv, Trip, Close
<1>10. ASSUME NEW p \in DOMAIN products'
       PROVE  /\ products'[p] \in DOMAIN objects /\ Trip[products'[p]] = Only(asked[p], Visible)
              /\ package = "roundtrip" => Close[products'[p]] = Only(asked[p], Closing)
  <2>1. CASE p \in 1..Len(products)
    BY <1>3, <1>7, <2>1 DEF ProductInv, TripsInOrder, ClosesEveryIdler
  <2>2. CASE p = Len(products) + 1
    BY <1>2, <1>3, <1>5, <1>7, <2>2
  <2> QED
    BY SMTT(60), <1>3, <1>8, <2>1, <2>2
<1>11. ProductInv'
  BY <1>1, <1>3, <1>7, <1>9, <1>10 DEF ProductInv
<1>12. TripsInOrder' /\ ClosesEveryIdler'
  BY <1>9, <1>10 DEF TripsInOrder, ClosesEveryIdler
<1>13. PendingInv'
  BY <1>1 DEF PendingInv
<1> QED
  BY <1>9, <1>11, <1>12, <1>13

LEMMA NextChain == ChainInv /\ [Next]_vars => ChainInv'
<1> SUFFICES ASSUME ChainInv, [Next]_vars PROVE ChainInv'
  OBVIOUS
<1>1. CASE UNCHANGED <<package, objects, products, asked, pending, next>> /\ SliceInv'
  <2>1. Trip' = Trip /\ Close' = Close
    BY <1>1 DEF Trip, Close
  <2> QED
    BY <1>1, <2>1 DEF ChainInv, ObjectInv, ProductInv, PendingInv, TripsInOrder, ClosesEveryIdler
<1>2. CASE \/ Reuse \/ NewChain
           \/ \E d \in 1..Len(chains) :
                AppendMore(d) \/ \E e \in 1..Len(chains) : Extend(d, e)
  <2>1. SliceInv'
    BY <1>2, SliceSteps DEF ChainInv
  <2>2. UNCHANGED <<package, objects, products, asked, pending, next>>
    BY <1>2 DEF Reuse, NewChain, AppendMore, Extend, Made
  <2> QED
    BY <1>1, <2>1, <2>2
<1>3. CASE \E d \in 1..Len(chains) : \E p \in 1..Len(products) : Then(d, p)
  BY <1>3, ThenStep
<1>4. CASE UNCHANGED vars
  <2>1. SliceInv'
    BY <1>4 DEF vars, slices, SliceInv, ChainInv
  <2> QED
    BY <1>1, <1>4, <2>1 DEF vars, slices
<1> QED
  BY <1>2, <1>3, <1>4, ApplyStep, ReturnStep DEF Next

-----------------------------------------------------------------------------
(* The theorems *)

\* Every chain keeps what it was given, and every step of Then keeps what a request
\* and a call of CloseIdleConnections have to meet.
THEOREM ChainInvariant == Spec => []ChainInv
BY InitChain, NextChain, PTL DEF Spec

\* Requests pass through the constructors' round trippers in the order in which they
\* were given, whatever became of the slices they came from.
THEOREM TripsAreInOrder == Spec => []TripsInOrder
<1>1. ChainInv => TripsInOrder
  BY DEF ChainInv
<1> QED
  BY <1>1, ChainInvariant, PTL

\* CloseIdleConnections visits each decorator that cares, and the transport, once.
THEOREM EveryIdlerIsClosed == Spec => []ClosesEveryIdler
<1>1. ChainInv => ClosesEveryIdler
  BY DEF ChainInv
<1> QED
  BY <1>1, ChainInvariant, PTL
=============================================================================
