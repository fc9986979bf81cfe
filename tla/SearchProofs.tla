---------------------------- MODULE SearchProofs ----------------------------
(***************************************************************************)
(* What a search finds, and in which order, for every corpus, every query  *)
(* and every set of audiences, and what an accepted file is good for, for  *)
(* every damage.                                                           *)
(*                                                                         *)
(* The transitions are few, and two invariants carry all of it: while the  *)
(* file is whole it is the one that was built (Invariant), and damaged or  *)
(* not its arrays have their types (ShapeInvariant).  The length is in     *)
(* what the functions compute.  Each of them is shown to be what it stands *)
(* for: a sorted sequence has every element once and in order; the gaps of *)
(* a slice sum up to the sections that hold the term; halving ends at the  *)
(* first term with the prefix; a score is a number, and the more a section *)
(* has of every word the greater; a tokenised text is its runs, cut.       *)
(***************************************************************************)
EXTENDS SearchIndex, FiniteSetTheorems, SequenceTheorems, WellFoundedInduction, TLAPS

\* A set of places that begins with the first and goes on to the next has all.
LEMMA Places ==
  ASSUME NEW n \in Nat, NEW m \in Nat, NEW S,
         m \in S, \A i \in m..n : i < n /\ i \in S => i + 1 \in S
  PROVE  \A i \in m..n : i \in S
<1> DEFINE Out == {i \in Nat : i \in m..n /\ i \notin S}
<1>1. SUFFICES ASSUME Out # {} PROVE FALSE
  OBVIOUS
<1>2. IsWellFoundedOn(OpToRel(<, Nat), Nat)
  BY NatLessThanWellFounded
<1>3. PICK i \in Out : \A j \in Out : <<j, i>> \notin OpToRel(<, Nat)
  <2>1. Out \in SUBSET Nat
    OBVIOUS
  <2> HIDE DEF Out
  <2> QED BY <1>1, <1>2, <2>1, WFMin, Zenon
<1>4. i # m
  BY <1>3
<1>5. i - 1 \in Nat /\ i - 1 \in m..n /\ i - 1 < n /\ <<i - 1, i>> \in OpToRel(<, Nat)
  BY <1>3, <1>4 DEF OpToRel
<1>6. i - 1 \in S
  BY <1>3, <1>5
<1>7. (i - 1) + 1 \in S
  BY <1>5, <1>6
<1>8. i \in Nat /\ (i - 1) + 1 = i
  OBVIOUS
<1> QED BY <1>3, <1>7, <1>8
-----------------------------------------------------------------------------
(* Sums.                                                                   *)

IsSums(f, seq, n) == f = [i \in 0..n |-> IF i = 0 THEN 0 ELSE f[i - 1] + seq[i]]

\* There is a function that sums up a sequence.
LEMMA SumsExists ==
  ASSUME NEW seq, NEW k \in Nat
  PROVE  \E f : IsSums(f, seq, k)
<1> DEFINE S == {n \in Nat : \E f : IsSums(f, seq, n)}
<1>1. 0 \in S
  <2>1. IsSums([i \in 0..0 |-> 0], seq, 0)
    BY DEF IsSums
  <2> QED BY <2>1
<1>2. ASSUME NEW n \in 0..k, n \in S PROVE n + 1 \in S
  <2>1. PICK f : IsSums(f, seq, n)
    BY <1>2
  <2> DEFINE g == [i \in 0..n + 1 |-> IF i <= n THEN f[i] ELSE f[n] + seq[n + 1]]
  <2>2. ASSUME NEW i \in 0..n + 1
        PROVE  g[i] = IF i = 0 THEN 0 ELSE g[i - 1] + seq[i]
    <3>1. CASE i <= n
      <4>1. i \in 0..n /\ i <= n + 1
        BY <3>1
      <4>2. f[i] = IF i = 0 THEN 0 ELSE f[i - 1] + seq[i]
        BY <2>1, <4>1 DEF IsSums
      <4>3. i # 0 => g[i - 1] = f[i - 1]
        BY <4>1
      <4> QED BY <3>1, <4>2, <4>3
    <3>2. CASE i = n + 1
      BY <3>2
    <3> QED BY <3>1, <3>2
  <2> HIDE DEF g
  <2>3. g = [i \in 0..n + 1 |-> g[i]]
    BY DEF g
  <2>4. g = [i \in 0..n + 1 |-> IF i = 0 THEN 0 ELSE g[i - 1] + seq[i]]
    BY <2>2, <2>3
  <2> QED BY <2>4 DEF IsSums
<1> HIDE DEF S
<1>3. k \in S
  BY <1>1, <1>2, Places
<1> QED BY <1>3 DEF S

\* Sums is one: it begins with nothing, and every place adds its number.
LEMMA SumsIs ==
  ASSUME NEW seq, Len(seq) \in Nat
  PROVE  /\ Sums(seq)[0] = 0
         /\ \A i \in 1..Len(seq) : Sums(seq)[i] = Sums(seq)[i - 1] + seq[i]
<1>1. Sums(seq) = [i \in 0..Len(seq) |-> IF i = 0 THEN 0 ELSE Sums(seq)[i - 1] + seq[i]]
  <2>1. PICK f : IsSums(f, seq, Len(seq))
    BY SumsExists
  <2> QED BY <2>1 DEF IsSums, Sums
<1> QED BY <1>1

\* The sums of integers are integers.
LEMMA SumsInt ==
  ASSUME NEW seq \in Seq(Int)
  PROVE  \A i \in 0..Len(seq) : Sums(seq)[i] \in Int
<1> DEFINE S == {i \in 0..Len(seq) : Sums(seq)[i] \in Int}
<1>1. Len(seq) \in Nat
  OBVIOUS
<1>2. 0 \in S
  BY SumsIs, <1>1
<1>3. ASSUME NEW i \in 0..Len(seq), i < Len(seq), i \in S PROVE i + 1 \in S
  <2>1. i + 1 \in 1..Len(seq) /\ (i + 1) - 1 = i
    BY <1>3
  <2>2. Sums(seq)[i + 1] = Sums(seq)[i] + seq[i + 1]
    BY SumsIs, <2>1
  <2>3. seq[i + 1] \in Int
    BY <2>1
  <2> QED BY <1>3, <2>1, <2>2, <2>3
<1> HIDE DEF S
<1>4. \A i \in 0..Len(seq) : i \in S
  BY <1>1, <1>2, <1>3, Places
<1> QED BY <1>4 DEF S

\* The sums of naturals are naturals that grow, and no number is more than the sum.
LEMMA SumsNat ==
  ASSUME NEW seq \in Seq(Nat)
  PROVE  /\ \A i \in 0..Len(seq) : Sums(seq)[i] \in Nat
         /\ \A i \in 1..Len(seq) : Sums(seq)[i - 1] + seq[i] <= Sum(seq)
<1> DEFINE S == {i \in 0..Len(seq) : Sums(seq)[i] \in Nat /\ \A j \in 1..i : Sums(seq)[j - 1] + seq[j] <= Sums(seq)[i]}
<1>1. Len(seq) \in Nat
  OBVIOUS
<1>2. 0 \in S
  BY SumsIs, <1>1
<1>3. ASSUME NEW i \in 0..Len(seq), i < Len(seq), i \in S PROVE i + 1 \in S
  <2>1. i + 1 \in 1..Len(seq) /\ (i + 1) - 1 = i
    BY <1>3
  <2>2. Sums(seq)[i + 1] = Sums(seq)[i] + seq[i + 1]
    BY SumsIs, <2>1
  <2>3. seq[i + 1] \in Nat
    BY <2>1
  <2>4. Sums(seq)[i] \in Nat /\ \A j \in 1..i : Sums(seq)[j - 1] + seq[j] <= Sums(seq)[i]
    BY <1>3
  <2>5. ASSUME NEW j \in 1..(i + 1) PROVE Sums(seq)[j - 1] + seq[j] <= Sums(seq)[i + 1]
    <3>1. CASE j = i + 1
      BY <2>2, <2>3, <2>4, <2>1, <3>1
    <3>2. CASE j \in 1..i
      <4>1. Sums(seq)[j - 1] + seq[j] <= Sums(seq)[i]
        BY <2>4, <3>2
      <4>2. Sums(seq)[j] = Sums(seq)[j - 1] + seq[j]
        BY SumsIs, <3>2, <1>1
      <4>3. Sums(seq)[j] \in Int
        <5>1. seq \in Seq(Int)
          OBVIOUS
        <5> QED BY SumsInt, <3>2, <5>1
      <4> QED BY <2>2, <2>3, <2>4, <4>1, <4>2, <4>3
    <3> QED BY <3>1, <3>2
  <2> QED BY <2>1, <2>2, <2>3, <2>4, <2>5
<1> HIDE DEF S
<1>4. \A i \in 0..Len(seq) : i \in S
  BY <1>1, <1>2, <1>3, Places
<1>5. Len(seq) \in 0..Len(seq)
  BY <1>1
<1> QED BY <1>4, <1>5 DEF S, Sum
-----------------------------------------------------------------------------
(* Sequences, one after the other.                                         *)

IsFlat(f, seqs, n) == f = [i \in 1..n |-> IF i = 1 THEN seqs[i] ELSE f[i - 1] \o seqs[i]]

\* There is a function that joins sequences one by one.
LEMMA FlatExists ==
  ASSUME NEW seqs, NEW k \in Nat, k >= 1
  PROVE  \E f : IsFlat(f, seqs, k)
<1> DEFINE S == {n \in Nat : \E f : IsFlat(f, seqs, n)}
<1>1. 1 \in S
  <2>1. IsFlat([i \in 1..1 |-> seqs[1]], seqs, 1)
    BY DEF IsFlat
  <2> QED BY <2>1
<1>2. ASSUME NEW n \in 1..k, n \in S PROVE n + 1 \in S
  <2>1. PICK f : IsFlat(f, seqs, n)
    BY <1>2
  <2> DEFINE g == [i \in 1..n + 1 |-> IF i <= n THEN f[i] ELSE f[n] \o seqs[n + 1]]
  <2>2. ASSUME NEW i \in 1..n + 1
        PROVE  g[i] = IF i = 1 THEN seqs[i] ELSE g[i - 1] \o seqs[i]
    <3>1. CASE i <= n
      <4>1. i \in 1..n /\ i <= n + 1
        BY <3>1
      <4>2. f[i] = IF i = 1 THEN seqs[i] ELSE f[i - 1] \o seqs[i]
        BY <2>1, <4>1 DEF IsFlat
      <4>3. i # 1 => g[i - 1] = f[i - 1]
        BY <4>1
      <4> QED BY <3>1, <4>2, <4>3
    <3>2. CASE i = n + 1
      BY <3>2
    <3> QED BY <3>1, <3>2
  <2> HIDE DEF g
  <2>3. g = [i \in 1..n + 1 |-> g[i]]
    BY DEF g
  <2>4. g = [i \in 1..n + 1 |-> IF i = 1 THEN seqs[i] ELSE g[i - 1] \o seqs[i]]
    BY <2>2, <2>3
  <2>5. IsFlat(g, seqs, n + 1)
    BY <2>4 DEF IsFlat
  <2>6. n + 1 \in Nat
    OBVIOUS
  <2> QED BY <2>5, <2>6, Zenon
<1> HIDE DEF S
<1>3. k \in S
  BY <1>1, <1>2, Places
<1> QED BY <1>3 DEF S

Lens(seqs) == [i \in DOMAIN seqs |-> Len(seqs[i])]

\* Joined is f up to place k of seqs : as long as the sum, with every element in its place.
Joined(X, f, seqs, k) ==
  /\ f \in Seq(X)
  /\ Len(f) = Sums(Lens(seqs))[k]
  /\ \A i \in 1..k : \A j \in 1..Len(seqs[i]) :
       /\ Sums(Lens(seqs))[i - 1] + j \in 1..Len(f)
       /\ f[Sums(Lens(seqs))[i - 1] + j] = seqs[i][j]

\* One sequence more leaves what was joined in its place and comes after it.
LEMMA JoinedOneMore ==
  ASSUME NEW X, NEW seqs \in Seq(Seq(X)), NEW k \in 0..Len(seqs), k < Len(seqs), NEW f, Joined(X, f, seqs, k)
  PROVE  Joined(X, f \o seqs[k + 1], seqs, k + 1)
<1> DEFINE t == Sums(Lens(seqs))
<1>1. Len(seqs) \in Nat /\ k + 1 \in 1..Len(seqs) /\ (k + 1) - 1 = k /\ k \in Nat
  OBVIOUS
<1>2. seqs[k + 1] \in Seq(X)
  BY <1>1
<1>3. f \in Seq(X) /\ Len(f) = t[k]
  BY DEF Joined
<1>4. Lens(seqs) \in Seq(Int) /\ Len(Lens(seqs)) = Len(seqs)
  BY DEF Lens
<1>5. t[k + 1] = t[k] + Len(seqs[k + 1])
  <2>1. t[k + 1] = t[k] + Lens(seqs)[k + 1]
    BY SumsIs, <1>1, <1>4
  <2>2. Lens(seqs)[k + 1] = Len(seqs[k + 1])
    BY <1>1 DEF Lens
  <2> QED BY <2>1, <2>2
<1> HIDE DEF t
<1> DEFINE e == seqs[k + 1]
<1>e. e \in Seq(X) /\ t[k + 1] = t[k] + Len(e)
  BY <1>2, <1>5
<1> HIDE DEF e
<1>6. /\ f \o e \in Seq(X)
      /\ Len(f \o e) = Len(f) + Len(e)
      /\ \A i \in 1..Len(f) + Len(e) : (f \o e)[i] = IF i <= Len(f) THEN f[i] ELSE e[i - Len(f)]
  BY <1>3, <1>e, ConcatProperties, Zenon
<1> DEFINE g == f \o e
<1>7. g \in Seq(X) /\ Len(g) = Len(f) + Len(e) /\ \A i \in 1..Len(f) + Len(e) : g[i] = IF i <= Len(f) THEN f[i] ELSE e[i - Len(f)]
  BY <1>6
<1> HIDE DEF g
<1>8. Len(f) \in Nat /\ Len(e) \in Nat
  BY <1>3, <1>e
<1>9. ASSUME NEW i \in 1..(k + 1), NEW j \in 1..Len(seqs[i])
      PROVE  t[i - 1] + j \in 1..Len(g) /\ g[t[i - 1] + j] = seqs[i][j]
  <2>1. CASE i = k + 1
    <3>1. j \in 1..Len(e) /\ t[i - 1] = Len(f) /\ seqs[i][j] = e[j]
      BY <2>1, <1>3, <1>1 DEF e
    <3>2. Len(f) + j \in 1..Len(f) + Len(e) /\ ~(Len(f) + j <= Len(f)) /\ (Len(f) + j) - Len(f) = j
      BY <3>1, <1>8
    <3>3. g[Len(f) + j] = e[j]
      BY <3>2, <1>7
    <3> QED BY <3>1, <3>2, <3>3, <1>7
  <2>2. CASE i \in 1..k
    <3> DEFINE x == t[i - 1] + j
    <3>1. x \in 1..Len(f) /\ f[x] = seqs[i][j]
      BY <2>2 DEF Joined, t
    <3> HIDE DEF x
    <3>2. x \in 1..Len(f) + Len(e) /\ x <= Len(f) /\ x \in 1..Len(g)
      BY <3>1, <1>7, <1>8
    <3>3. g[x] = f[x]
      BY <3>2, <1>7
    <3> QED BY <3>1, <3>2, <3>3 DEF x
  <2> QED BY <2>1, <2>2
<1>10. Len(g) = t[k + 1]
  BY <1>3, <1>7, <1>e
<1>11. Joined(X, g, seqs, k + 1)
  BY <1>7, <1>9, <1>10 DEF Joined, t
<1> QED BY <1>11 DEF g, e

\* FlattenSeq joins all: its length is the sum, and every element has its place.
LEMMA FlattenIs ==
  ASSUME NEW X, NEW seqs \in Seq(Seq(X))
  PROVE  Joined(X, FlattenSeq(seqs), seqs, Len(seqs))
<1>0. Len(seqs) \in Nat
  OBVIOUS
<1>l. Lens(seqs) \in Seq(Int) /\ Len(Lens(seqs)) = Len(seqs)
  BY DEF Lens
<1>1. CASE Len(seqs) = 0
  <2>1. FlattenSeq(seqs) = seqs /\ seqs = <<>>
    BY <1>1 DEF FlattenSeq
  <2>2. Sums(Lens(seqs))[0] = 0
    BY SumsIs, <1>l, <1>0
  <2> QED BY <2>1, <2>2, <1>1 DEF Joined
<1>2. CASE Len(seqs) # 0
  <2>1. PICK f : IsFlat(f, seqs, Len(seqs))
    <3>1. Len(seqs) >= 1
      BY <1>2, <1>0
    <3> QED BY FlatExists, <3>1, <1>0, Zenon
  <2> DEFINE h == CHOOSE ff : ff = [i \in 1..Len(seqs) |-> IF i = 1 THEN seqs[i] ELSE ff[i - 1] \o seqs[i]]
  <2>2. FlattenSeq(seqs) = h[Len(seqs)]
    BY <1>2 DEF FlattenSeq
  <2>3. IsFlat(h, seqs, Len(seqs))
    BY <2>1 DEF IsFlat
  <2> HIDE DEF h
  <2> DEFINE S == {k \in 1..Len(seqs) : Joined(X, h[k], seqs, k)}
  <2>4. 1 \in S
    <3>1. h[1] = seqs[1] /\ seqs[1] \in Seq(X)
      BY <2>3, <1>2, <1>0 DEF IsFlat
    <3>2. Sums(Lens(seqs))[0] = 0 /\ Sums(Lens(seqs))[1] = Len(seqs[1])
      <4>1. Sums(Lens(seqs))[0] = 0 /\ Sums(Lens(seqs))[1] = Sums(Lens(seqs))[0] + Lens(seqs)[1]
        BY SumsIs, <1>l, <1>0, <1>2
      <4>2. Lens(seqs)[1] = Len(seqs[1]) /\ Len(seqs[1]) \in Nat
        BY <1>0, <1>2 DEF Lens
      <4> QED BY <4>1, <4>2
    <3> QED BY <3>1, <3>2, <1>0, <1>2 DEF Joined
  <2>5. ASSUME NEW k \in 1..Len(seqs), k < Len(seqs), k \in S PROVE k + 1 \in S
    <3>1. h[k + 1] = h[k] \o seqs[k + 1]
      <4>1. k + 1 \in 1..Len(seqs) /\ k + 1 # 1 /\ (k + 1) - 1 = k
        BY <2>5
      <4> HIDE DEF S
      <4> QED BY <4>1, <2>3 DEF IsFlat
    <3>2. k + 1 \in 1..Len(seqs) /\ k \in 0..Len(seqs)
      BY <2>5
    <3>3. Joined(X, h[k], seqs, k)
      BY <2>5
    <3>4. Joined(X, h[k] \o seqs[k + 1], seqs, k + 1)
      BY <3>2, <3>3, <2>5, JoinedOneMore
    <3> QED BY <3>1, <3>2, <3>4
  <2> HIDE DEF S
  <2>6. \A k \in 1..Len(seqs) : k \in S
    BY <2>4, <2>5, Places, <1>0
  <2>7. Len(seqs) \in S
    BY <2>6, <1>0, <1>2
  <2> QED BY <2>7, <2>2 DEF S
<1> QED BY <1>1, <1>2
-----------------------------------------------------------------------------
(* Orders.                                                                 *)

\* R is a strict total order of S.
Orders(R, S) ==
  /\ \A x \in S : <<x, x>> \notin R
  /\ \A x, y, z \in S : <<x, y>> \in R /\ <<y, z>> \in R => <<x, z>> \in R
  /\ \A x, y \in S : x # y => <<x, y>> \in R \/ <<y, x>> \in R

Below(R, S, x) == {y \in S : <<y, x>> \in R}

\* q is the elements of S in the order R, each once.
Ordered(q, S, R) ==
  /\ q \in Seq(S) /\ Len(q) = Cardinality(S) /\ ToSet(q) = S
  /\ \A i, j \in 1..Len(q) : i < j => <<q[i], q[j]>> \in R

\* Who stands lower has fewer below.
LEMMA BelowGrows ==
  ASSUME NEW S, NEW R, IsFiniteSet(S), Orders(R, S), NEW x \in S, NEW y \in S, <<x, y>> \in R
  PROVE  /\ Cardinality(Below(R, S, x)) \in Nat /\ Cardinality(Below(R, S, y)) \in Nat
         /\ Cardinality(Below(R, S, x)) < Cardinality(Below(R, S, y))
<1>1. Below(R, S, y) \in SUBSET S
  BY DEF Below
<1>2. IsFiniteSet(Below(R, S, y)) /\ Cardinality(Below(R, S, y)) \in Nat
  BY <1>1, FS_Subset, FS_CardinalityType
<1>3. Below(R, S, x) \in SUBSET Below(R, S, y)
  BY DEF Below, Orders
<1>4. x \in Below(R, S, y) /\ x \notin Below(R, S, x)
  BY DEF Below, Orders
<1>5. /\ IsFiniteSet(Below(R, S, x)) /\ Cardinality(Below(R, S, x)) \in Nat
      /\ Cardinality(Below(R, S, x)) <= Cardinality(Below(R, S, y))
      /\ Cardinality(Below(R, S, y)) # Cardinality(Below(R, S, x))
  BY <1>2, <1>3, <1>4, FS_Subset, FS_CardinalityType
<1> QED BY <1>2, <1>5

\* An element has at most all the others below it.
LEMMA BelowBounded ==
  ASSUME NEW S, NEW R, IsFiniteSet(S), Orders(R, S), NEW x \in S
  PROVE  Cardinality(Below(R, S, x)) \in 0..Cardinality(S) - 1
<1>1. Below(R, S, x) \in SUBSET S /\ x \notin Below(R, S, x)
  BY DEF Below, Orders
<1>2. /\ Cardinality(Below(R, S, x)) <= Cardinality(S)
      /\ Cardinality(S) # Cardinality(Below(R, S, x))
      /\ IsFiniteSet(Below(R, S, x))
  BY <1>1, FS_Subset
<1>3. Cardinality(S) \in Nat /\ Cardinality(Below(R, S, x)) \in Nat
  BY <1>2, FS_CardinalityType
<1> QED BY <1>2, <1>3

\* In a finite strict total order every rank is taken.
LEMMA RankTaken ==
  ASSUME NEW S, NEW R, IsFiniteSet(S), Orders(R, S)
  PROVE  \A i \in 1..Cardinality(S) : \E x \in S : Cardinality(Below(R, S, x)) = i - 1
<1> DEFINE n == Cardinality(S)
           T == 0..n - 1
           rank == [x \in S |-> Cardinality(Below(R, S, x))]
<1>1. n \in Nat
  BY FS_CardinalityType
<1>2. IsFiniteSet(T) /\ Cardinality(T) = n
  <2>1. 0 \in Int /\ n - 1 \in Int
    BY <1>1
  <2>2. IsFiniteSet(T) /\ Cardinality(T) = IF 0 > n - 1 THEN 0 ELSE (n - 1) - 0 + 1
    BY <2>1, FS_Interval
  <2> QED BY <2>2, <1>1
<1>3. rank \in [S -> T]
  BY BelowBounded
<1>4. \A x, y \in S : rank[x] = rank[y] => x = y
  <2> SUFFICES ASSUME NEW x \in S, NEW y \in S, x # y PROVE rank[x] # rank[y]
    BY Zenon
  <2>1. CASE <<x, y>> \in R
    BY <2>1, BelowGrows
  <2>2. CASE <<y, x>> \in R
    BY <2>2, BelowGrows
  <2> QED BY <2>1, <2>2 DEF Orders
<1> HIDE DEF rank, T, n
<1>5. rank \in Injection(S, T)
  BY <1>3, <1>4 DEF Injection, IsInjective
<1>6. Cardinality(S) = Cardinality(T)
  BY <1>2 DEF n
<1>7. rank \in Surjection(S, T)
  BY <1>2, <1>5, <1>6, FS_Injection
<1>8. \A r \in T : \E x \in S : rank[x] = r
  BY <1>7 DEF Surjection
<1>9. ASSUME NEW i \in 1..n PROVE \E x \in S : Cardinality(Below(R, S, x)) = i - 1
  <2>1. i - 1 \in T
    BY <1>1 DEF T
  <2>2. PICK x \in S : rank[x] = i - 1
    BY <2>1, <1>8
  <2> QED BY <2>2 DEF rank
<1> QED BY <1>9 DEF n

\* A sequence with an element of rank i - 1 in place i is the set in order.
LEMMA RankedIsOrdered ==
  ASSUME NEW S, NEW R, IsFiniteSet(S), Orders(R, S), NEW q,
         q \in [1..Cardinality(S) -> S],
         \A i \in 1..Cardinality(S) : Cardinality(Below(R, S, q[i])) = i - 1
  PROVE  Ordered(q, S, R)
<1> DEFINE n == Cardinality(S)
<1>1. n \in Nat
  BY FS_CardinalityType
<1>2. q \in Seq(S) /\ Len(q) = n /\ DOMAIN q = 1..n
  BY <1>1
<1>3. ASSUME NEW i \in 1..n, NEW j \in 1..n, i < j PROVE <<q[i], q[j]>> \in R
  <2>0. q[i] \in S /\ q[j] \in S /\ Cardinality(Below(R, S, q[i])) = i - 1 /\ Cardinality(Below(R, S, q[j])) = j - 1
    OBVIOUS
  <2>1. CASE <<q[j], q[i]>> \in R
    <3>1. Cardinality(Below(R, S, q[j])) < Cardinality(Below(R, S, q[i]))
      BY <2>0, <2>1, BelowGrows
    <3> QED BY <3>1, <2>0, <1>1, <1>3
  <2>2. q[i] # q[j]
    BY <2>0, <1>3
  <2> QED BY <2>0, <2>1, <2>2 DEF Orders
<1>4. ASSUME NEW x \in S PROVE \E i \in 1..n : q[i] = x
  <2> DEFINE i == Cardinality(Below(R, S, x)) + 1
  <2>1. i \in 1..n
    BY BelowBounded, <1>1
  <2>2. q[i] \in S /\ Cardinality(Below(R, S, q[i])) = Cardinality(Below(R, S, x))
    <3>1. q[i] \in S /\ Cardinality(Below(R, S, q[i])) = i - 1
      BY <2>1
    <3>2. i - 1 = Cardinality(Below(R, S, x))
      <4>1. Cardinality(Below(R, S, x)) \in 0..n - 1
        BY BelowBounded
      <4> QED BY <4>1, <1>1
    <3> QED BY <3>1, <3>2
  <2>3. q[i] = x
    <3> SUFFICES ASSUME q[i] # x PROVE FALSE
      OBVIOUS
    <3>1. <<q[i], x>> \in R \/ <<x, q[i]>> \in R
      BY <2>2 DEF Orders
    <3>2. CASE <<q[i], x>> \in R
      <4>1. Cardinality(Below(R, S, q[i])) < Cardinality(Below(R, S, x)) /\ Cardinality(Below(R, S, x)) \in Nat
        BY <2>2, <3>2, BelowGrows
      <4> QED BY <4>1, <2>2
    <3>3. CASE <<x, q[i]>> \in R
      <4>1. Cardinality(Below(R, S, x)) < Cardinality(Below(R, S, q[i])) /\ Cardinality(Below(R, S, x)) \in Nat
        BY <2>2, <3>3, BelowGrows
      <4> QED BY <4>1, <2>2
    <3> QED BY <3>1, <3>2, <3>3
  <2> QED BY <2>1, <2>3
<1>5. ToSet(q) = S
  <2>1. \A i \in 1..n : q[i] \in S
    OBVIOUS
  <2> QED BY <1>2, <1>4, <2>1 DEF ToSet
<1> QED BY <1>2, <1>3, <1>5 DEF Ordered

\* A set of naturals that is not empty has a least.
LEMMA Least ==
  ASSUME NEW S \in SUBSET Nat, S # {}
  PROVE  \E m \in S : \A k \in S : m <= k
<1>1. IsWellFoundedOn(OpToRel(<, Nat), Nat)
  BY NatLessThanWellFounded
<1>2. PICK m \in S : \A j \in S : <<j, m>> \notin OpToRel(<, Nat)
  BY <1>1, WFMin, Zenon
<1>3. ASSUME NEW k \in S PROVE m <= k
  <2>1. k \in Nat /\ m \in Nat /\ <<k, m>> \notin OpToRel(<, Nat)
    BY <1>2
  <2>2. ~(k < m)
    BY <2>1 DEF OpToRel
  <2>3. k \in Nat /\ m \in Nat
    OBVIOUS
  <2> QED BY <2>2, <2>3
<1> QED BY <1>3

\* A text is not before itself.
LEMMA LessIrreflexive ==
  ASSUME NEW a \in Seq(Nat)
  PROVE  ~Less(a, a)
<1> SUFFICES ASSUME Less(a, a) PROVE FALSE
  OBVIOUS
<1>1. PICK i \in 1..Len(a) : i <= Len(a) => a[i] < a[i]
  BY DEF Less
<1>2. a[i] \in Nat /\ i <= Len(a)
  OBVIOUS
<1> QED BY <1>1, <1>2

\* The order of texts is transitive.
LEMMA LessTransitive ==
  ASSUME NEW a \in Seq(Nat), NEW b \in Seq(Nat), NEW c \in Seq(Nat), Less(a, b), Less(b, c)
  PROVE  Less(a, c)
<1>0. Len(a) \in Nat /\ Len(b) \in Nat /\ Len(c) \in Nat
  OBVIOUS
<1>1. PICK i \in 1..Len(b) : i <= Len(a) + 1 /\ (\A j \in 1..(i - 1) : a[j] = b[j]) /\ (i <= Len(a) => a[i] < b[i])
  BY DEF Less
<1>2. PICK k \in 1..Len(c) : k <= Len(b) + 1 /\ (\A j \in 1..(k - 1) : b[j] = c[j]) /\ (k <= Len(b) => b[k] < c[k])
  BY DEF Less
<1>3. CASE i < k
  <2>1. i \in 1..Len(c) /\ b[i] = c[i] /\ \A j \in 1..(i - 1) : a[j] = c[j]
    BY <1>0, <1>1, <1>2, <1>3
  <2> QED BY <1>1, <2>1 DEF Less
<1>4. CASE i = k
  <2>1. \A j \in 1..(k - 1) : a[j] = c[j]
    BY <1>0, <1>1, <1>2, <1>4
  <2>2. k <= Len(a) => a[k] < c[k]
    <3>1. k \in 1..Len(b) /\ k \in 1..Len(c) /\ b[k] < c[k] /\ (k <= Len(a) => a[k] < b[k])
      BY <1>0, <1>1, <1>2, <1>4
    <3>2. b[k] \in Nat /\ c[k] \in Nat
      <4>1. (\A j \in 1..Len(b) : b[j] \in Nat) /\ (\A j \in 1..Len(c) : c[j] \in Nat)
        OBVIOUS
      <4> QED BY <3>1, <4>1
    <3>3. ASSUME k <= Len(a) PROVE a[k] \in Nat
      <4>1. k \in 1..Len(a)
        BY <3>1, <3>3, <1>0
      <4>2. \A j \in 1..Len(a) : a[j] \in Nat
        OBVIOUS
      <4> QED BY <4>1, <4>2
    <3>4. ASSUME k <= Len(a) PROVE a[k] < c[k]
      <4> DEFINE x == a[k]
                 y == b[k]
                 z == c[k]
      <4>1. x \in Nat /\ y \in Nat /\ z \in Nat /\ x < y /\ y < z
        BY <3>1, <3>2, <3>3, <3>4
      <4> HIDE DEF x, y, z
      <4>2. x < z
        BY <4>1
      <4> QED BY <4>2 DEF x, z
    <3> QED BY <3>4
  <2> QED BY <1>1, <1>4, <2>1, <2>2 DEF Less
<1>5. CASE k < i
  <2>1. k <= Len(a) + 1 /\ k <= Len(b) /\ k \in 1..(i - 1) /\ \A j \in 1..(k - 1) : j \in 1..(i - 1)
    <3> DEFINE x == Len(a)
               y == Len(b)
               z == Len(c)
    <3>1. i \in 1..y /\ k \in 1..z /\ i <= x + 1 /\ x \in Nat /\ y \in Nat /\ z \in Nat
      BY <1>0, <1>1, <1>2
    <3> HIDE DEF x, y, z
    <3>2. k <= x + 1 /\ k <= y /\ k \in 1..(i - 1) /\ \A j \in 1..(k - 1) : j \in 1..(i - 1)
      BY <3>1, <1>5
    <3> QED BY <3>2 DEF x, y
  <2>2. a[k] = b[k] /\ \A j \in 1..(k - 1) : a[j] = c[j]
    BY <1>1, <1>2, <2>1
  <2>3. k <= Len(a) => a[k] < c[k]
    BY <1>2, <2>1, <2>2
  <2> QED BY <1>2, <2>1, <2>2, <2>3 DEF Less
<1> QED BY <1>0, <1>3, <1>4, <1>5

\* Of two texts one is before the other.
LEMMA LessTotal ==
  ASSUME NEW a \in Seq(Nat), NEW b \in Seq(Nat), a # b
  PROVE  Less(a, b) \/ Less(b, a)
<1>0. Len(a) \in Nat /\ Len(b) \in Nat
  OBVIOUS
<1> DEFINE D == {i \in Nat : i >= 1 /\ (i > Len(a) \/ i > Len(b) \/ a[i] # b[i])}
<1>1. D \in SUBSET Nat /\ D # {}
  <2>1. Len(a) + 1 \in D
    BY <1>0
  <2> QED BY <2>1
<1>2. PICK i \in D : \A k \in D : i <= k
  BY <1>1, Least
<1>3. \A j \in 1..(i - 1) : j <= Len(a) /\ j <= Len(b) /\ a[j] = b[j]
  <2> SUFFICES ASSUME NEW j \in 1..(i - 1), ~(j <= Len(a) /\ j <= Len(b) /\ a[j] = b[j]) PROVE FALSE
    OBVIOUS
  <2>1. j \in D /\ j < i
    BY <1>0, <1>2
  <2> QED BY <2>1, <1>2
<1>4. i \in Nat /\ i >= 1 /\ (i > Len(a) \/ i > Len(b) \/ a[i] # b[i])
  BY <1>2
<1> HIDE DEF D
<1>b. i <= Len(a) + 1 /\ i <= Len(b) + 1
  <2>1. CASE i = 1
    BY <2>1, <1>0
  <2>2. CASE i > 1
    <3>1. i - 1 \in 1..(i - 1)
      BY <2>2, <1>4
    <3>2. i - 1 <= Len(a) /\ i - 1 <= Len(b)
      BY <3>1, <1>3
    <3> QED BY <3>2, <1>0, <1>4
  <2> QED BY <2>1, <2>2, <1>4
<1>5. CASE i > Len(a) /\ i > Len(b)
  <2>1. Len(a) = i - 1 /\ Len(b) = i - 1
    BY <1>0, <1>b, <1>4, <1>5
  <2>2. \A j \in 1..Len(a) : a[j] = b[j]
    BY <2>1, <1>3
  <2>3. a = b
    BY <2>1, <2>2
  <2> QED BY <2>3
<1>6. CASE i > Len(a) /\ i <= Len(b)
  <2>1. i \in 1..Len(b) /\ ~(i <= Len(a))
    BY <1>0, <1>4, <1>6
  <2> QED BY <2>1, <1>b, <1>3 DEF Less
<1>7. CASE i <= Len(a) /\ i > Len(b)
  <2>1. i \in 1..Len(a) /\ ~(i <= Len(b))
    BY <1>0, <1>4, <1>7
  <2> QED BY <2>1, <1>b, <1>3 DEF Less
<1>8. CASE i <= Len(a) /\ i <= Len(b)
  <2>1. i \in 1..Len(a) /\ i \in 1..Len(b) /\ a[i] # b[i] /\ a[i] \in Nat /\ b[i] \in Nat
    BY <1>0, <1>4, <1>8
  <2>2. CASE a[i] < b[i]
    BY <2>1, <2>2, <1>b, <1>3 DEF Less
  <2>3. CASE b[i] < a[i]
    BY <2>1, <2>3, <1>b, <1>3 DEF Less
  <2> QED BY <2>1, <2>2, <2>3
<1> QED BY <1>0, <1>4, <1>5, <1>6, <1>7, <1>8

Numbers(S) == {p \in S \X S : p[1] < p[2]}

\* Numbers sorted are in order.
LEMMA SortedNumbers ==
  ASSUME NEW S \in SUBSET Int, IsFiniteSet(S)
  PROVE  Ordered(Sorted(S, <), S, Numbers(S))
<1> DEFINE R == Numbers(S)
           q == Sorted(S, <)
<1>1. Orders(R, S)
  BY DEF Orders, Numbers
<1>2. ASSUME NEW x \in S PROVE {y \in S : y < x} = Below(R, S, x)
  BY DEF Below, Numbers
<1>3. \A i \in 1..Cardinality(S) : \E x \in S : Cardinality(Below(R, S, x)) = i - 1
  BY <1>1, RankTaken
<1> HIDE DEF R
<1>4. ASSUME NEW i \in 1..Cardinality(S)
      PROVE  q[i] \in S /\ Cardinality(Below(R, S, q[i])) = i - 1
  <2>1. q[i] = CHOOSE x \in S : Cardinality({y \in S : y < x}) = i - 1
    BY DEF Sorted
  <2>2. \E x \in S : Cardinality({y \in S : y < x}) = i - 1
    <3>1. PICK x \in S : Cardinality(Below(R, S, x)) = i - 1
      BY <1>3
    <3>2. {y \in S : y < x} = Below(R, S, x)
      BY <1>2
    <3> QED BY <3>1, <3>2, Zenon
  <2> HIDE DEF q
  <2>3. q[i] \in S /\ Cardinality({y \in S : y < q[i]}) = i - 1
    BY <2>1, <2>2, Zenon
  <2> QED BY <2>3, <1>2
<1>5. q \in [1..Cardinality(S) -> S]
  BY <1>4 DEF Sorted
<1> HIDE DEF q
<1>6. Ordered(q, S, R)
  BY <1>1, <1>4, <1>5, RankedIsOrdered, Zenon
<1> QED BY <1>6 DEF q, R

Alphabet(S) == {p \in S \X S : Less(p[1], p[2])}

\* Texts sorted are in order.
LEMMA SortedTexts ==
  ASSUME NEW S \in SUBSET Seq(Nat), IsFiniteSet(S)
  PROVE  Ordered(Sorted(S, Less), S, Alphabet(S))
<1> DEFINE R == Alphabet(S)
           q == Sorted(S, Less)
<1>1. Orders(R, S)
  <2>1. \A x \in S : <<x, x>> \notin R
    BY LessIrreflexive DEF Alphabet
  <2>2. ASSUME NEW x \in S, NEW y \in S, NEW z \in S, <<x, y>> \in R, <<y, z>> \in R PROVE <<x, z>> \in R
    <3>1. Less(x, y) /\ Less(y, z) /\ x \in Seq(Nat) /\ y \in Seq(Nat) /\ z \in Seq(Nat)
      BY <2>2 DEF Alphabet
    <3>2. Less(x, z)
      BY <3>1, LessTransitive
    <3> QED BY <3>2 DEF Alphabet
  <2>3. ASSUME NEW x \in S, NEW y \in S, x # y PROVE <<x, y>> \in R \/ <<y, x>> \in R
    <3>1. x \in Seq(Nat) /\ y \in Seq(Nat)
      OBVIOUS
    <3>2. Less(x, y) \/ Less(y, x)
      BY <2>3, <3>1, LessTotal
    <3> QED BY <3>2 DEF Alphabet
  <2> QED BY <2>1, <2>2, <2>3 DEF Orders
<1>2. ASSUME NEW x \in S PROVE {y \in S : Less(y, x)} = Below(R, S, x)
  BY DEF Below, Alphabet
<1>3. \A i \in 1..Cardinality(S) : \E x \in S : Cardinality(Below(R, S, x)) = i - 1
  BY <1>1, RankTaken
<1> HIDE DEF R
<1>4. ASSUME NEW i \in 1..Cardinality(S)
      PROVE  q[i] \in S /\ Cardinality(Below(R, S, q[i])) = i - 1
  <2>1. q[i] = CHOOSE x \in S : Cardinality({y \in S : Less(y, x)}) = i - 1
    BY DEF Sorted
  <2>2. \E x \in S : Cardinality({y \in S : Less(y, x)}) = i - 1
    <3>1. PICK x \in S : Cardinality(Below(R, S, x)) = i - 1
      BY <1>3
    <3>2. {y \in S : Less(y, x)} = Below(R, S, x)
      BY <1>2
    <3> QED BY <3>1, <3>2, Zenon
  <2> HIDE DEF q
  <2>3. q[i] \in S /\ Cardinality({y \in S : Less(y, q[i])}) = i - 1
    BY <2>1, <2>2, Zenon
  <2> QED BY <2>3, <1>2
<1>5. q \in [1..Cardinality(S) -> S]
  BY <1>4 DEF Sorted
<1> HIDE DEF q
<1>6. Ordered(q, S, R)
  BY <1>1, <1>4, <1>5, RankedIsOrdered, Zenon
<1> QED BY <1>6 DEF q, R
-----------------------------------------------------------------------------
(* Words.                                                                  *)

Text == Seq(Chars)

\* Folding leaves a text.
LEMMA FoldType ==
  ASSUME NEW text \in Text
  PROVE  FoldArabic(text) \in Text
<1> DEFINE seqs == [i \in DOMAIN text |-> IF Arabic[text[i]] = Gone THEN <<>> ELSE <<Arabic[text[i]]>>]
<1>1. ASSUME NEW i \in 1..Len(text)
      PROVE  (IF Arabic[text[i]] = Gone THEN <<>> ELSE <<Arabic[text[i]]>>) \in Text
  <2>1. text[i] \in Chars
    BY DEF Text
  <2>2. Arabic[text[i]] \in Chars \cup {Gone}
    BY <2>1, TermsAssumption
  <2> QED BY <2>2 DEF Text
<1>2. text \in Seq(Chars) /\ DOMAIN text = 1..Len(text) /\ Len(text) \in Nat
  BY DEF Text
<1>3. seqs \in Seq(Text)
  BY <1>1, <1>2
<1> HIDE DEF seqs
<1>4. FlattenSeq(seqs) \in Seq(Chars)
  BY <1>3, FlattenIs DEF Joined, Text
<1> QED BY <1>4 DEF FoldArabic, seqs, Text

\* What is classified is a text, and so is a folded word.
LEMMA PrepareType ==
  ASSUME NEW text \in Text
  PROVE  Prepare(text) \in Text /\ FoldTerm(text) \in Text
<1>0. text \in [1..Len(text) -> Chars] /\ Len(text) \in Nat /\ DOMAIN text = 1..Len(text)
  BY DEF Text
<1>a. ASSUME NEW f \in [Chars -> Chars] PROVE Each(f, text) \in Text
  <2>1. Each(f, text) = [i \in 1..Len(text) |-> f[text[i]]]
    BY <1>0 DEF Each
  <2>2. Each(f, text) \in [1..Len(text) -> Chars]
    BY <1>0, <2>1
  <2> QED BY <1>0, <2>2 DEF Text
<1>b. Nfkc \in [Chars -> Chars] /\ Lower \in [Chars -> Chars]
  BY TermsAssumption
<1>1. Each(Nfkc, text) \in Text
  BY <1>a, <1>b
<1>2. Each(Lower, text) \in Text
  BY <1>a, <1>b
<1> QED BY <1>1, <1>2, FoldType DEF Prepare, FoldTerm

Classes == {"cjk", "word", "separator"}

\* The states of the tokeniser: there is no run between words.
Walks == {s \in [terms : Seq(Text), run : Text, kind : Classes] : s.kind = "separator" => s.run = <<>>}

\* A run's words are texts.
LEMMA TermsOfType ==
  ASSUME NEW s \in Walks
  PROVE  TermsOf(s.kind, s.run) \in Seq(Text)
<1> DEFINE kind == s.kind
           run == s.run
<1>1. kind \in Classes /\ run \in Text /\ (kind = "separator" => run = <<>>)
  BY DEF Walks
<1> SUFFICES TermsOf(kind, run) \in Seq(Text)
  OBVIOUS
<1> HIDE DEF kind, run
<1>2. Len(run) \in Nat /\ (run = <<>> <=> Len(run) = 0) /\ \A i \in 1..Len(run) : run[i] \in Chars
  BY <1>1 DEF Text
<1>3. CASE run = <<>>
  BY <1>3 DEF TermsOf
<1>4. CASE run # <<>> /\ kind # "cjk"
  <2>1. FoldTerm(run) \in Text
    BY <1>1, PrepareType
  <2> QED BY <1>4, <2>1 DEF TermsOf
<1>5. CASE kind = "cjk" /\ Len(run) = 1
  <2>1. TermsOf(kind, run) = <<run>>
    BY <1>5, <1>2 DEF TermsOf
  <2> QED BY <1>1, <2>1
<1>6. CASE kind = "cjk" /\ Len(run) > 1
  <2>1. TermsOf(kind, run) = [i \in 1..(Len(run) - 1) |-> <<run[i], run[i + 1]>>]
    BY <1>6, <1>2 DEF TermsOf
  <2>2. \A i \in 1..(Len(run) - 1) : <<run[i], run[i + 1]>> \in Text
    <3> SUFFICES ASSUME NEW i \in 1..(Len(run) - 1) PROVE <<run[i], run[i + 1]>> \in Text
      OBVIOUS
    <3>1. run[i] \in Chars /\ run[i + 1] \in Chars
      BY <1>2
    <3> QED BY <3>1 DEF Text
  <2>3. Len(run) - 1 \in Nat
    BY <1>6, <1>2
  <2> QED BY <2>1, <2>2, <2>3
<1>7. run = <<>> \/ Len(run) = 1 \/ Len(run) > 1
  <2>1. Len(run) \in Nat /\ (run = <<>> <=> Len(run) = 0)
    BY <1>2
  <2>2. Len(run) \in Nat => Len(run) = 0 \/ Len(run) = 1 \/ Len(run) > 1
    OBVIOUS
  <2> QED BY <2>1, <2>2, Zenon
<1> QED BY <1>2, <1>3, <1>4, <1>5, <1>6, <1>7

\* A flush leaves no run, and adds its words.
LEMMA FlushIs ==
  ASSUME NEW s \in Walks
  PROVE  /\ Flush(s) \in Walks
         /\ Flush(s).run = <<>> /\ Flush(s).kind = s.kind /\ Flush(s).terms = s.terms \o TermsOf(s.kind, s.run)
<1>1. s \in [terms : Seq(Text), run : Text, kind : Classes]
  BY DEF Walks
<1>2. TermsOf(s.kind, s.run) \in Seq(Text)
  BY TermsOfType
<1>3. s.terms \in Seq(Text)
  BY <1>1
<1>4. s.terms \o TermsOf(s.kind, s.run) \in Seq(Text)
  BY <1>2, <1>3, ConcatProperties, Zenon
<1> DEFINE new == s.terms \o TermsOf(s.kind, s.run)
<1>5. Flush(s) = [s EXCEPT !.terms = new, !.run = <<>>]
  BY DEF Flush
<1>6. new \in Seq(Text)
  BY <1>4
<1>e. <<>> \in Text
  BY DEF Text
<1> HIDE DEF new
<1>7. /\ Flush(s) \in [terms : Seq(Text), run : Text, kind : Classes]
      /\ Flush(s).run = <<>> /\ Flush(s).kind = s.kind /\ Flush(s).terms = new
  BY <1>1, <1>5, <1>6, <1>e
<1> QED BY <1>7 DEF Walks, new

\* A character leaves a state of the tokeniser.
LEMMA WalkType ==
  ASSUME NEW s \in Walks, NEW c \in Chars
  PROVE  Walk(s, c) \in Walks
<1> DEFINE kind == Classify(c)
           t == IF kind = s.kind THEN s ELSE [Flush(s) EXCEPT !.kind = kind]
<1>1. kind \in Classes
  BY TermsAssumption DEF Classify, Classes
<1>2. t \in [terms : Seq(Text), run : Text, kind : Classes] /\ t.kind = kind /\ (kind = "separator" => t.run = <<>>)
  <2>1. CASE kind = s.kind
    BY <2>1 DEF Walks
  <2>2. CASE kind # s.kind
    <3> HIDE DEF kind
    <3>1. Flush(s) \in [terms : Seq(Text), run : Text, kind : Classes] /\ Flush(s).run = <<>>
      BY FlushIs DEF Walks
    <3> QED BY <3>1, <2>2, <1>1
  <2> QED BY <2>1, <2>2
<1>3. Walk(s, c) = IF kind = "separator" THEN t ELSE [t EXCEPT !.run = Append(@, c)]
  BY DEF Walk
<1> HIDE DEF t, kind
<1>4. Append(t.run, c) \in Text
  BY <1>2 DEF Text
<1> DEFINE new == Append(t.run, c)
<1>5. Walk(s, c) = IF kind = "separator" THEN t ELSE [t EXCEPT !.run = new]
  BY <1>3, <1>2
<1>6. new \in Text
  BY <1>4
<1> HIDE DEF new
<1> QED BY <1>2, <1>5, <1>6 DEF Walks

Nowhere == [terms |-> <<>>, run |-> <<>>, kind |-> "separator"]

IsWalk(f, text, n) == f = [i \in 0..n |-> IF i = 0 THEN Nowhere ELSE Walk(f[i - 1], text[i])]

\* There is a function that walks over a text.
LEMMA WalkExists ==
  ASSUME NEW text, NEW k \in Nat
  PROVE  \E f : IsWalk(f, text, k)
<1> DEFINE S == {n \in Nat : \E f : IsWalk(f, text, n)}
<1>1. 0 \in S
  <2>1. IsWalk([i \in 0..0 |-> Nowhere], text, 0)
    BY DEF IsWalk
  <2> QED BY <2>1
<1>2. ASSUME NEW n \in 0..k, n \in S PROVE n + 1 \in S
  <2>1. PICK f : IsWalk(f, text, n)
    BY <1>2
  <2> DEFINE g == [i \in 0..n + 1 |-> IF i <= n THEN f[i] ELSE Walk(f[n], text[n + 1])]
  <2>2. ASSUME NEW i \in 0..n + 1
        PROVE  g[i] = IF i = 0 THEN Nowhere ELSE Walk(g[i - 1], text[i])
    <3>1. CASE i <= n
      <4>1. i \in 0..n /\ i <= n + 1
        BY <3>1
      <4>2. f[i] = IF i = 0 THEN Nowhere ELSE Walk(f[i - 1], text[i])
        BY <2>1, <4>1 DEF IsWalk
      <4>3. i # 0 => g[i - 1] = f[i - 1]
        BY <4>1
      <4> QED BY <3>1, <4>2, <4>3
    <3>2. CASE i = n + 1
      BY <3>2
    <3> QED BY <3>1, <3>2
  <2> HIDE DEF g
  <2>3. g = [i \in 0..n + 1 |-> g[i]]
    BY DEF g
  <2>4. g = [i \in 0..n + 1 |-> IF i = 0 THEN Nowhere ELSE Walk(g[i - 1], text[i])]
    BY <2>2, <2>3
  <2>5. IsWalk(g, text, n + 1)
    BY <2>4 DEF IsWalk
  <2>6. n + 1 \in Nat
    OBVIOUS
  <2> QED BY <2>5, <2>6, Zenon
<1> HIDE DEF S
<1>3. k \in S
  BY <1>1, <1>2, Places
<1> QED BY <1>3 DEF S

\* Walked is one: it begins outside, and every place walks over its character.
LEMMA WalkedIs ==
  ASSUME NEW text, Len(text) \in Nat
  PROVE  /\ Walked(text)[0] = Nowhere
         /\ \A i \in 1..Len(text) : Walked(text)[i] = Walk(Walked(text)[i - 1], text[i])
<1>1. Walked(text) = [i \in 0..Len(text) |-> IF i = 0 THEN Nowhere ELSE Walk(Walked(text)[i - 1], text[i])]
  <2>1. PICK f : IsWalk(f, text, Len(text))
    BY WalkExists
  <2> QED BY <2>1 DEF IsWalk, Walked, Nowhere
<1> QED BY <1>1

\* Every place of a walk is a state of the tokeniser.
LEMMA WalkedType ==
  ASSUME NEW text \in Text
  PROVE  \A i \in 0..Len(text) : Walked(text)[i] \in Walks
<1> DEFINE S == {i \in 0..Len(text) : Walked(text)[i] \in Walks}
<1>1. Len(text) \in Nat /\ \A i \in 1..Len(text) : text[i] \in Chars
  BY DEF Text
<1>2. 0 \in S
  <2>1. Nowhere \in Walks
    BY DEF Nowhere, Walks, Text, Classes
  <2> QED BY <2>1, <1>1, WalkedIs
<1>3. ASSUME NEW i \in 0..Len(text), i < Len(text), i \in S PROVE i + 1 \in S
  <2>1. i + 1 \in 1..Len(text) /\ (i + 1) - 1 = i
    BY <1>3, <1>1
  <2>2. Walked(text)[i + 1] = Walk(Walked(text)[i], text[i + 1])
    BY <2>1, <1>1, WalkedIs
  <2>3. Walk(Walked(text)[i], text[i + 1]) \in Walks
    BY <1>3, <1>1, <2>1, WalkType
  <2> QED BY <2>1, <2>2, <2>3
<1> HIDE DEF S
<1>4. \A i \in 0..Len(text) : i \in S
  BY <1>1, <1>2, <1>3, Places
<1> QED BY <1>4 DEF S

\* A text's words are texts.
LEMMA TokeniseType ==
  ASSUME NEW text \in Text
  PROVE  Tokenise(text) \in Seq(Text)
<1>1. Prepare(text) \in Text
  BY PrepareType
<1>2. Len(Prepare(text)) \in 0..Len(Prepare(text))
  BY <1>1 DEF Text
<1>3. Flush(Walked(Prepare(text))[Len(Prepare(text))]) \in Walks
  BY <1>1, <1>2, WalkedType, FlushIs
<1> QED BY <1>3 DEF Tokenise, Walks
-----------------------------------------------------------------------------
(* Sections.                                                               *)

\* The headings of a page are places of its body, in order.
LEMMA HeadsType ==
  ASSUME NEW page, IsPage(page)
  PROVE  /\ Heads(page) \in Seq(DOMAIN page.body)
         /\ \A k \in DOMAIN Heads(page) : page.body[Heads(page)[k]].kind = "heading"
<1> DEFINE S == {i \in DOMAIN page.body : page.body[i].kind = "heading"}
<1>1. DOMAIN page.body = 1..Len(page.body) /\ Len(page.body) \in Nat
  <2>1. page.body \in Seq(ToSet(page.body))
    BY DEF IsPage
  <2> DEFINE X == ToSet(page.body)
  <2>2. page.body \in Seq(X)
    BY <2>1
  <2> HIDE DEF X
  <2> QED BY <2>2
<1>2. S \in SUBSET Int /\ IsFiniteSet(S)
  <2>1. IsFiniteSet(1..Len(page.body))
    BY <1>1, FS_Interval
  <2>2. S \in SUBSET (1..Len(page.body))
    BY <1>1
  <2> HIDE DEF S
  <2>3. IsFiniteSet(S)
    BY <2>1, <2>2, FS_Subset
  <2> QED BY <2>2, <2>3
<1> HIDE DEF S
<1>3. Ordered(Sorted(S, <), S, Numbers(S))
  BY <1>2, SortedNumbers
<1>4. Heads(page) = Sorted(S, <)
  BY DEF Heads, S
<1>5. Heads(page) \in Seq(S)
  BY <1>3, <1>4, Zenon DEF Ordered
<1> DEFINE h == Heads(page)
<1>6. h \in Seq(S)
  BY <1>5
<1> HIDE DEF h
<1>7. h \in Seq(DOMAIN page.body) /\ \A k \in DOMAIN h : page.body[h[k]].kind = "heading"
  <2>1. \A x \in S : x \in DOMAIN page.body /\ page.body[x].kind = "heading"
    BY DEF S
  <2>2. h \in [1..Len(h) -> S] /\ Len(h) \in Nat /\ DOMAIN h = 1..Len(h)
    BY <1>6
  <2>3. h \in [1..Len(h) -> DOMAIN page.body]
    BY <2>1, <2>2, Zenon
  <2> QED BY <2>1, <2>2, <2>3
<1> QED BY <1>7 DEF h

\* A part of a page is a text.
LEMMA PartType ==
  ASSUME NEW page, IsPage(page), NEW first \in Nat, NEW last \in Int, first >= 1, last <= Len(page.body)
  PROVE  Part(page, first, last) \in Text
<1> DEFINE n == last - first + 1
           seqs == [i \in 1..n |-> page.body[first + i - 1].text \o <<Space>>]
<1>1. DOMAIN page.body = 1..Len(page.body) /\ Len(page.body) \in Nat
  <2>1. page.body \in Seq(ToSet(page.body))
    BY DEF IsPage
  <2> DEFINE X == ToSet(page.body)
  <2>2. page.body \in Seq(X)
    BY <2>1
  <2> HIDE DEF X
  <2> QED BY <2>2
<1>2. <<Space>> \in Text
  BY SearchAssumption DEF Text
<1>3. ASSUME NEW i \in 1..n PROVE page.body[first + i - 1].text \o <<Space>> \in Text
  <2>1. first + i - 1 \in DOMAIN page.body
    BY <1>1
  <2>2. page.body[first + i - 1].text \in Text
    BY <2>1 DEF IsPage, IsBlock, Text
  <2> QED BY <1>2, <2>2, ConcatProperties DEF Text
<1>4. seqs \in Seq(Text)
  <2>1. CASE n \in Nat
    <3>1. seqs \in [1..n -> Text]
      BY <1>3, Zenon
    <3> HIDE DEF seqs
    <3> QED BY <2>1, <3>1
  <2>2. CASE ~(n \in Nat)
    <3>1. 1..n = {}
      BY <2>2
    <3>2. 1..0 = {}
      OBVIOUS
    <3>3. seqs \in [1..0 -> Text]
      BY <1>3, <3>1, <3>2
    <3> HIDE DEF seqs
    <3> QED BY <3>3
  <2> QED BY <2>1, <2>2
<1> HIDE DEF seqs
<1>5. FlattenSeq(seqs) \in Seq(Chars)
  BY <1>4, FlattenIs DEF Joined, Text
<1> QED BY <1>5 DEF Part, seqs, n, Text

Cuts == [anchor : Text, heading : Text, body : Text]

\* A page's sections have an anchor, a heading and a body.
LEMMA SectionsOfType ==
  ASSUME NEW page, IsPage(page)
  PROVE  SectionsOf(page) \in Seq(Cuts)
<1> DEFINE heads == Heads(page)
           End(k) == IF k = Len(heads) THEN Len(page.body) ELSE heads[k + 1] - 1
           top == [anchor |-> Root, heading |-> <<>>,
                   body |-> Part(page, 1, IF heads = <<>> THEN Len(page.body) ELSE heads[1] - 1)]
           rest == [k \in DOMAIN heads |->
                    [anchor  |-> page.body[heads[k]].id,
                     heading |-> page.body[heads[k]].text,
                     body    |-> Part(page, heads[k] + 1, End(k))]]
<1>1. DOMAIN page.body = 1..Len(page.body) /\ Len(page.body) \in Nat
  <2>1. page.body \in Seq(ToSet(page.body))
    BY DEF IsPage
  <2> DEFINE X == ToSet(page.body)
  <2>2. page.body \in Seq(X)
    BY <2>1
  <2> HIDE DEF X
  <2> QED BY <2>2
<1>2. heads \in Seq(DOMAIN page.body) /\ \A k \in DOMAIN heads : page.body[heads[k]].kind = "heading"
  BY HeadsType
<1>3. SectionsOf(page) = <<top>> \o rest
  BY DEF SectionsOf
<1> HIDE DEF heads
<1>4. Len(heads) \in Nat /\ DOMAIN heads = 1..Len(heads) /\ \A k \in 1..Len(heads) : heads[k] \in 1..Len(page.body)
  BY <1>1, <1>2
<1>5. top \in Cuts
  <2> DEFINE last == IF heads = <<>> THEN Len(page.body) ELSE heads[1] - 1
  <2>1. last \in Int /\ last <= Len(page.body)
    <3>1. heads # <<>> => 1 \in 1..Len(heads)
      BY <1>2
    <3> QED BY <3>1, <1>4, <1>1
  <2> HIDE DEF last
  <2>2. Part(page, 1, last) \in Text
    BY <2>1, PartType
  <2>3. Root \in Text /\ <<>> \in Text
    BY SearchAssumption DEF Text
  <2>4. top = [anchor |-> Root, heading |-> <<>>, body |-> Part(page, 1, last)]
    BY DEF last
  <2> HIDE DEF top
  <2> QED BY <2>2, <2>3, <2>4 DEF Cuts
<1>6. ASSUME NEW k \in DOMAIN heads
      PROVE  [anchor  |-> page.body[heads[k]].id, heading |-> page.body[heads[k]].text,
              body    |-> Part(page, heads[k] + 1, End(k))] \in Cuts
  <2>1. heads[k] \in DOMAIN page.body /\ page.body[heads[k]].kind = "heading"
    BY <1>1, <1>2, <1>4
  <2>2. page.body[heads[k]].id \in Text /\ page.body[heads[k]].text \in Text
    BY <2>1 DEF IsPage, IsBlock, Text
  <2>3. End(k) \in Int /\ End(k) <= Len(page.body)
    <3>1. CASE k = Len(heads)
      BY <3>1, <1>1
    <3>2. CASE k # Len(heads)
      <4>1. k + 1 \in 1..Len(heads)
        BY <3>2, <1>4
      <4>2. heads[k + 1] \in 1..Len(page.body)
        BY <4>1, <1>4
      <4> QED BY <3>2, <4>2, <1>1
    <3> QED BY <3>1, <3>2
  <2> DEFINE e == End(k)
  <2>4. e \in Int /\ e <= Len(page.body)
    BY <2>3
  <2> HIDE DEF e
  <2>5. heads[k] + 1 \in Nat /\ heads[k] + 1 >= 1
    BY <1>4
  <2>6. Part(page, heads[k] + 1, e) \in Text
    BY <2>4, <2>5, PartType
  <2> QED BY <2>2, <2>6 DEF Cuts, e
<1> HIDE DEF End
<1>7. rest \in Seq(Cuts)
  BY <1>4, <1>6
<1> HIDE DEF rest, top
<1>8. <<top>> \in Seq(Cuts)
  BY <1>5
<1>9. <<top>> \o rest \in Seq(Cuts)
  BY <1>7, <1>8, ConcatProperties, Zenon
<1> QED BY <1>3, <1>9

\* The title field is a text.
LEMMA TitleType ==
  ASSUME NEW page, IsPage(page)
  PROVE  TitleOf(page) \in Text
<1> DEFINE Piece(i) == CASE i = 1 -> (IF page.title = <<>> THEN page.slug ELSE page.title)
                         [] i = 2 -> <<Space>> \o page.navTitle
                         [] i > 2 -> <<Space>> \o page.tags[i - 2]
           seqs == [i \in 1..(2 + Len(page.tags)) |-> Piece(i)]
<1>1. page.slug \in Text /\ page.title \in Text /\ page.navTitle \in Text /\ page.tags \in Seq(Text)
  BY DEF IsPage, Text
<1>2. <<Space>> \in Text
  BY SearchAssumption DEF Text
<1>3. Len(page.tags) \in Nat
  BY <1>1
<1>4. ASSUME NEW i \in 1..(2 + Len(page.tags)) PROVE Piece(i) \in Text
  <2>1. CASE i = 1
    <3>1. Piece(i) = IF page.title = <<>> THEN page.slug ELSE page.title
      BY <2>1
    <3> QED BY <3>1, <1>1
  <2>2. CASE i = 2
    <3>1. Piece(i) = <<Space>> \o page.navTitle
      BY <2>2
    <3>2. <<Space>> \o page.navTitle \in Text
      BY <1>1, <1>2, ConcatProperties DEF Text
    <3> QED BY <3>1, <3>2
  <2>3. CASE i > 2
    <3>1. Piece(i) = <<Space>> \o page.tags[i - 2]
      BY <2>3
    <3>2. page.tags[i - 2] \in Text
      <4>1. i - 2 \in 1..Len(page.tags)
        BY <2>3, <1>3
      <4> QED BY <4>1, <1>1
    <3>3. <<Space>> \o page.tags[i - 2] \in Text
      BY <3>2, <1>2, ConcatProperties DEF Text
    <3> QED BY <3>1, <3>3
  <2> QED BY <2>1, <2>2, <2>3
<1>t. TitleOf(page) = FlattenSeq(seqs)
  BY DEF TitleOf
<1> HIDE DEF Piece
<1>5. seqs \in Seq(Text)
  BY <1>3, <1>4
<1> HIDE DEF seqs
<1>6. FlattenSeq(seqs) \in Seq(Chars)
  BY <1>5, FlattenIs DEF Joined, Text
<1> QED BY <1>6, <1>t DEF Text

SectionsIn(A) ==
  [doc : [slug : Text, anchor : Text, audience : A], text : [title : Text, heading : Text, body : Text]]

AudiencesOf(ps) == {ps[p].audience : p \in DOMAIN ps}

\* The sections of one page.
SectionsOn(page) ==
  LET cut == SectionsOf(page)
  IN  [k \in DOMAIN cut |->
         [doc  |-> [slug |-> page.slug, anchor |-> cut[k].anchor, audience |-> page.audience],
          text |-> [title |-> TitleOf(page), heading |-> cut[k].heading, body |-> cut[k].body]]]

SectionsBy(ps) == [p \in DOMAIN ps |-> SectionsOn(ps[p])]

\* The sections of the pages are sections, and those of the corpus are theirs, joined.
LEMMA SectionsOnType ==
  ASSUME NEW ps, IsCorpus(ps)
  PROVE  /\ DOMAIN ps = 1..Len(ps) /\ Len(ps) \in Nat
         /\ \A p \in DOMAIN ps : SectionsOn(ps[p]) \in Seq(SectionsIn(AudiencesOf(ps)))
         /\ Sections(ps) = FlattenSeq(SectionsBy(ps))
<1> DEFINE A == AudiencesOf(ps)
<1>1. DOMAIN ps = 1..Len(ps) /\ Len(ps) \in Nat
  <2>1. ps \in Seq(ToSet(ps))
    BY DEF IsCorpus
  <2> DEFINE X == ToSet(ps)
  <2>2. ps \in Seq(X)
    BY <2>1
  <2> HIDE DEF X
  <2> QED BY <2>2
<1>2. ASSUME NEW p \in DOMAIN ps PROVE SectionsOn(ps[p]) \in Seq(SectionsIn(A))
  <2>1. IsPage(ps[p])
    BY DEF IsCorpus
  <2> DEFINE cut == SectionsOf(ps[p])
             page == ps[p]
             title == TitleOf(ps[p])
  <2>2. cut \in Seq(Cuts)
    BY <2>1, SectionsOfType
  <2>3. page.slug \in Text /\ page.audience \in A /\ title \in Text
    BY <2>1, TitleType DEF IsPage, Text, AudiencesOf
  <2>4. SectionsOn(page) = [k \in DOMAIN cut |->
                   [doc  |-> [slug |-> page.slug, anchor |-> cut[k].anchor, audience |-> page.audience],
                    text |-> [title |-> title, heading |-> cut[k].heading, body |-> cut[k].body]]]
    BY DEF SectionsOn
  <2> HIDE DEF cut, title, page, A
  <2>5. ASSUME NEW k \in DOMAIN cut
        PROVE  [doc  |-> [slug |-> page.slug, anchor |-> cut[k].anchor, audience |-> page.audience],
                text |-> [title |-> title, heading |-> cut[k].heading, body |-> cut[k].body]] \in SectionsIn(A)
    <3>1. cut[k].anchor \in Text /\ cut[k].heading \in Text /\ cut[k].body \in Text
      <4>1. cut[k] \in Cuts
        BY <2>2
      <4> QED BY <4>1 DEF Cuts
    <3> QED BY <3>1, <2>3 DEF SectionsIn
  <2>6. Len(cut) \in Nat /\ DOMAIN cut = 1..Len(cut)
    BY <2>2
  <2>7. SectionsOn(page) \in Seq(SectionsIn(A))
    BY <2>4, <2>5, <2>6
  <2> QED BY <2>7 DEF page
<1>3. Sections(ps) = FlattenSeq(SectionsBy(ps))
  BY DEF Sections, SectionsBy, SectionsOn
<1> QED BY <1>1, <1>2, <1>3

\* The sections of a corpus: an address, an audience and the texts of three fields.
LEMMA SectionsType ==
  ASSUME NEW ps, IsCorpus(ps)
  PROVE  Sections(ps) \in Seq(SectionsIn(AudiencesOf(ps)))
<1> DEFINE A == AudiencesOf(ps)
           seqs == SectionsBy(ps)
<1>1. DOMAIN ps = 1..Len(ps) /\ Len(ps) \in Nat /\ Sections(ps) = FlattenSeq(seqs)
      /\ \A p \in 1..Len(ps) : SectionsOn(ps[p]) \in Seq(SectionsIn(A))
  BY SectionsOnType
<1> HIDE DEF A
<1>2. seqs \in Seq(Seq(SectionsIn(A)))
  BY <1>1 DEF SectionsBy
<1> HIDE DEF seqs
<1>3. FlattenSeq(seqs) \in Seq(SectionsIn(A))
  BY <1>2, FlattenIs DEF Joined
<1> QED BY <1>1, <1>3 DEF A
-----------------------------------------------------------------------------
(* Postings.                                                               *)

\* Twice the numbers sum to twice the sums.
LEMMA SumsDouble ==
  ASSUME NEW a \in Seq(Int), NEW b \in Seq(Int), Len(b) = Len(a), \A i \in 1..Len(a) : b[i] = 2 * a[i]
  PROVE  \A i \in 0..Len(a) : Sums(b)[i] = 2 * Sums(a)[i]
<1> DEFINE S == {i \in 0..Len(a) : Sums(b)[i] = 2 * Sums(a)[i]}
<1>1. Len(a) \in Nat
  OBVIOUS
<1>2. 0 \in S
  BY SumsIs, <1>1
<1>3. ASSUME NEW i \in 0..Len(a), i < Len(a), i \in S PROVE i + 1 \in S
  <2>1. i + 1 \in 1..Len(a) /\ (i + 1) - 1 = i
    BY <1>3
  <2>2. Sums(a)[i + 1] = Sums(a)[i] + a[i + 1] /\ Sums(b)[i + 1] = Sums(b)[i] + b[i + 1]
    BY SumsIs, <2>1, <1>1
  <2>3. a[i + 1] \in Int /\ b[i + 1] = 2 * a[i + 1] /\ Sums(a)[i] \in Int /\ Sums(b)[i] = 2 * Sums(a)[i]
    BY <1>3, <2>1, SumsInt
  <2>4. \A x, y \in Int : 2 * x + 2 * y = 2 * (x + y)
    OBVIOUS
  <2>5. Sums(b)[i + 1] = 2 * Sums(a)[i + 1]
    BY <2>2, <2>3, <2>4, Zenon
  <2>6. i + 1 \in 0..Len(a)
    BY <2>1, <1>1
  <2> QED BY <2>5, <2>6
<1> HIDE DEF S
<1>4. \A i \in 0..Len(a) : i \in S
  BY <1>1, <1>2, <1>3, Places
<1> QED BY <1>4 DEF S

\* Twos sum to twice the place.
LEMMA SumsOfTwos ==
  ASSUME NEW a \in Seq(Int), \A i \in 1..Len(a) : a[i] = 2
  PROVE  \A i \in 0..Len(a) : Sums(a)[i] = 2 * i
<1> DEFINE S == {i \in 0..Len(a) : Sums(a)[i] = 2 * i}
<1>1. Len(a) \in Nat
  OBVIOUS
<1>2. 0 \in S
  BY SumsIs, <1>1
<1>3. ASSUME NEW i \in 0..Len(a), i < Len(a), i \in S PROVE i + 1 \in S
  <2>1. i + 1 \in 1..Len(a) /\ (i + 1) - 1 = i
    BY <1>3
  <2>2. Sums(a)[i + 1] = Sums(a)[i] + a[i + 1]
    BY SumsIs, <2>1, <1>1
  <2>3. a[i + 1] = 2 /\ Sums(a)[i] = 2 * i
    BY <1>3, <2>1
  <2> QED BY <2>1, <2>2, <2>3
<1> HIDE DEF S
<1>4. \A i \in 0..Len(a) : i \in S
  BY <1>1, <1>2, <1>3, Places
<1> QED BY <1>4 DEF S

Gap(ids, k) == ids[k] - (IF k = 1 THEN 0 ELSE ids[k - 1])

\* The gaps of a sequence sum to its numbers.
LEMMA SumsOfGaps ==
  ASSUME NEW ids \in Seq(Int), NEW gaps \in Seq(Int), Len(gaps) = Len(ids),
         \A k \in 1..Len(ids) : gaps[k] = Gap(ids, k)
  PROVE  \A k \in 1..Len(ids) : Sums(gaps)[k] = ids[k]
<1> DEFINE S == {k \in 1..Len(ids) : Sums(gaps)[k] = ids[k]}
<1>1. Len(ids) \in Nat /\ Len(gaps) \in Nat
  OBVIOUS
<1>2. CASE Len(ids) >= 1
  <2>1. 1 \in S
    <3>1. Sums(gaps)[0] = 0 /\ Sums(gaps)[1] = Sums(gaps)[0] + gaps[1]
      BY SumsIs, <1>1, <1>2
    <3>2. gaps[1] = ids[1] - 0 /\ ids[1] \in Int
      BY <1>1, <1>2 DEF Gap
    <3> QED BY <3>1, <3>2, <1>1, <1>2
  <2>2. ASSUME NEW k \in 1..Len(ids), k < Len(ids), k \in S PROVE k + 1 \in S
    <3>1. k + 1 \in 1..Len(ids) /\ (k + 1) - 1 = k /\ k + 1 # 1
      BY <2>2
    <3>2. Sums(gaps)[k + 1] = Sums(gaps)[k] + gaps[k + 1]
      BY SumsIs, <3>1, <1>1
    <3>3. gaps[k + 1] = ids[k + 1] - ids[k] /\ Sums(gaps)[k] = ids[k]
      BY <2>2, <3>1 DEF Gap
    <3>4. ids[k] \in Int /\ ids[k + 1] \in Int
      BY <3>1
    <3> QED BY <3>1, <3>2, <3>3, <3>4
  <2> HIDE DEF S
  <2>3. \A k \in 1..Len(ids) : k \in S
    BY <1>1, <2>1, <2>2, Places
  <2> QED BY <2>3 DEF S
<1>3. CASE Len(ids) = 0
  BY <1>3
<1>4. Len(ids) = 0 \/ Len(ids) >= 1
  BY <1>1
<1> QED BY <1>2, <1>3, <1>4

\* tf is what one field has of one term.
Counts(tf) == DOMAIN tf \in SUBSET Nat /\ IsFiniteSet(DOMAIN tf) /\ tf \in [DOMAIN tf -> Nat \ {0}]

\* A slice is a pair for each section, in order: the gap and the count.
LEMMA SliceIs ==
  ASSUME NEW tf, Counts(tf)
  PROVE  LET ids == Sorted(DOMAIN tf, <)
         IN  /\ ids \in Seq(DOMAIN tf) /\ Len(ids) = Cardinality(DOMAIN tf) /\ Len(ids) \in Nat
             /\ Slice(tf) \in Seq(Int) /\ Len(Slice(tf)) = 2 * Len(ids)
             /\ \A k \in 1..Len(ids) : /\ 2 * k - 1 \in 1..Len(Slice(tf)) /\ 2 * k \in 1..Len(Slice(tf))
                                       /\ Slice(tf)[2 * k - 1] = Gap(ids, k)
                                       /\ Slice(tf)[2 * k] = tf[ids[k]]
<1> DEFINE ids == Sorted(DOMAIN tf, <)
           pairs == [k \in DOMAIN ids |-> <<ids[k] - (IF k = 1 THEN 0 ELSE ids[k - 1]), tf[ids[k]]>>]
           D == DOMAIN tf
<1>1. Ordered(ids, D, Numbers(D))
  <2>1. D \in SUBSET Int /\ IsFiniteSet(D)
    BY DEF Counts
  <2> HIDE DEF D
  <2>2. Ordered(Sorted(D, <), D, Numbers(D))
    BY <2>1, SortedNumbers
  <2> QED BY <2>2 DEF D
<1>2. D \in SUBSET Nat /\ tf \in [D -> Nat \ {0}]
  BY DEF Counts
<1>s. Slice(tf) = FlattenSeq(pairs)
  BY DEF Slice
<1> HIDE DEF ids, D
<1>3. ids \in Seq(D) /\ Len(ids) = Cardinality(D)
  BY <1>1 DEF Ordered
<1>4. Len(ids) \in Nat /\ DOMAIN ids = 1..Len(ids)
  BY <1>3
<1>5. ASSUME NEW k \in 1..Len(ids) PROVE ids[k] \in D /\ tf[ids[k]] \in Int /\ Gap(ids, k) \in Int
  <2>1. ids[k] \in D
    BY <1>3
  <2>2. k # 1 => ids[k - 1] \in D
    <3>1. k # 1 => k - 1 \in 1..Len(ids)
      BY <1>4
    <3> QED BY <3>1, <1>3
  <2>3. ids[k] \in Nat /\ (k # 1 => ids[k - 1] \in Nat)
    BY <2>1, <2>2, <1>2
  <2>4. Gap(ids, k) \in Int
    BY <2>3 DEF Gap
  <2>5. tf[ids[k]] \in Nat
    BY <2>1, <1>2
  <2> QED BY <2>1, <2>4, <2>5
<1>6. pairs = [k \in 1..Len(ids) |-> <<Gap(ids, k), tf[ids[k]]>>]
  BY <1>4 DEF Gap
<1> HIDE DEF pairs
<1>7. \A k \in 1..Len(ids) : <<Gap(ids, k), tf[ids[k]]>> \in Seq(Int)
  BY <1>5
<1>8. pairs \in Seq(Seq(Int)) /\ Len(pairs) = Len(ids)
  BY <1>4, <1>6, <1>7
<1>9. \A k \in 1..Len(ids) : pairs[k] = <<Gap(ids, k), tf[ids[k]]>>
  BY <1>6
<1>10. Joined(Int, FlattenSeq(pairs), pairs, Len(pairs))
  BY <1>8, FlattenIs
<1>11. \A k \in 0..Len(ids) : Sums(Lens(pairs))[k] = 2 * k
  <2>1. Lens(pairs) = [k \in 1..Len(ids) |-> 2]
    <3>1. DOMAIN pairs = 1..Len(ids)
      BY <1>6
    <3>2. \A k \in 1..Len(ids) : Len(pairs[k]) = 2
      <4> SUFFICES ASSUME NEW k \in 1..Len(ids) PROVE Len(pairs[k]) = 2
        OBVIOUS
      <4>1. pairs[k] = <<Gap(ids, k), tf[ids[k]]>>
        BY <1>9
      <4>2. Len(<<Gap(ids, k), tf[ids[k]]>>) = 2
        OBVIOUS
      <4> QED BY <4>1, <4>2, Zenon
    <3> QED BY <3>1, <3>2 DEF Lens
  <2> DEFINE a == Lens(pairs)
  <2>2. a \in Seq(Int) /\ Len(a) = Len(ids) /\ \A i \in 1..Len(a) : a[i] = 2
    BY <2>1, <1>4
  <2> HIDE DEF a
  <2>3. \A k \in 0..Len(a) : Sums(a)[k] = 2 * k
    BY <2>2, SumsOfTwos
  <2> QED BY <2>2, <2>3 DEF a
<1> DEFINE s == FlattenSeq(pairs)
<1>12. s \in Seq(Int) /\ Len(s) = 2 * Len(ids)
  <2>1. Len(ids) \in 0..Len(ids)
    BY <1>4
  <2> QED BY <1>8, <1>10, <1>11, <2>1 DEF Joined
<1>13. ASSUME NEW k \in 1..Len(ids)
       PROVE  /\ 2 * k - 1 \in 1..Len(s) /\ 2 * k \in 1..Len(s)
              /\ s[2 * k - 1] = Gap(ids, k) /\ s[2 * k] = tf[ids[k]]
  <2>1. Sums(Lens(pairs))[k - 1] = 2 * (k - 1)
    <3>1. k - 1 \in 0..Len(ids)
      BY <1>4
    <3> QED BY <3>1, <1>11
  <2>2. \A j \in 1..Len(pairs[k]) : s[2 * (k - 1) + j] = pairs[k][j]
    BY <2>1, <1>8, <1>10 DEF Joined
  <2>3. pairs[k] = <<Gap(ids, k), tf[ids[k]]>>
    BY <1>9
  <2>4. s[2 * (k - 1) + 1] = Gap(ids, k) /\ s[2 * (k - 1) + 2] = tf[ids[k]]
    BY <2>2, <2>3
  <2>5. 2 * (k - 1) + 1 = 2 * k - 1 /\ 2 * (k - 1) + 2 = 2 * k
    BY <1>4
  <2> HIDE DEF s
  <2>6. s[2 * k - 1] = Gap(ids, k) /\ s[2 * k] = tf[ids[k]]
    BY <2>4, <2>5, Zenon
  <2>7. 2 * k - 1 \in 1..2 * Len(ids) /\ 2 * k \in 1..2 * Len(ids)
    BY <1>4
  <2> QED BY <2>6, <2>7, <1>12, Zenon
<1> HIDE DEF s
<1>14. s = Slice(tf)
  BY <1>s DEF s
<1>15. /\ ids \in Seq(D) /\ Len(ids) = Cardinality(D) /\ Len(ids) \in Nat
       /\ Slice(tf) \in Seq(Int) /\ Len(Slice(tf)) = 2 * Len(ids)
       /\ \A k \in 1..Len(ids) : /\ 2 * k - 1 \in 1..Len(Slice(tf)) /\ 2 * k \in 1..Len(Slice(tf))
                                 /\ Slice(tf)[2 * k - 1] = Gap(ids, k)
                                 /\ Slice(tf)[2 * k] = tf[ids[k]]
  BY <1>3, <1>4, <1>12, <1>13, <1>14, Zenon
<1> QED BY <1>15 DEF ids, D

\* The sections of a field that have a term.
Has(words, t) == {k \in 0..(Len(words) - 1) : t \in ToSet(words[k + 1])}

\* What is gathered counts each section that has the term, once or more.
LEMMA GatheredIs ==
  ASSUME NEW words \in Seq(Seq(Text)), NEW t
  PROVE  DOMAIN Gathered(words, t) = Has(words, t) /\ Counts(Gathered(words, t))
<1> DEFINE D == Has(words, t)
           tf == Gathered(words, t)
<1>1. Len(words) \in Nat
  OBVIOUS
<1>2. tf = [id \in D |-> Cardinality({i \in DOMAIN words[id + 1] : words[id + 1][i] = t})]
  BY DEF Gathered, Has
<1>3. D \in SUBSET (0..(Len(words) - 1))
  BY DEF Has
<1>4. D \in SUBSET Nat /\ IsFiniteSet(D)
  <2>1. 0 \in Int /\ Len(words) - 1 \in Int
    BY <1>1
  <2>2. IsFiniteSet(0..(Len(words) - 1))
    BY <2>1, FS_Interval
  <2> HIDE DEF D
  <2>3. IsFiniteSet(D)
    BY <1>3, <2>2, FS_Subset
  <2> QED BY <1>3, <2>3
<1>5. ASSUME NEW id \in D
      PROVE  Cardinality({i \in DOMAIN words[id + 1] : words[id + 1][i] = t}) \in Nat \ {0}
  <2>1. id + 1 \in 1..Len(words) /\ t \in ToSet(words[id + 1])
    BY <1>1 DEF Has
  <2> DEFINE w == words[id + 1]
             I == {i \in DOMAIN w : w[i] = t}
  <2>2. w \in Seq(Text)
    BY <2>1
  <2>3. \E i \in DOMAIN w : w[i] = t
    BY <2>1 DEF ToSet
  <2> HIDE DEF w
  <2>4. I \in SUBSET (1..Len(w)) /\ Len(w) \in Nat /\ I # {}
    BY <2>2, <2>3
  <2> HIDE DEF I
  <2>5. IsFiniteSet(1..Len(w))
    BY <2>4, FS_Interval
  <2>6. IsFiniteSet(I)
    BY <2>4, <2>5, FS_Subset
  <2>7. Cardinality(I) \in Nat /\ Cardinality(I) # 0
    BY <2>4, <2>6, FS_CardinalityType, FS_EmptySet
  <2> QED BY <2>7 DEF I, w
<1> HIDE DEF tf, D
<1>6. DOMAIN tf = D /\ tf \in [D -> Nat \ {0}]
  BY <1>2, <1>5
<1> QED BY <1>4, <1>6 DEF tf, D, Counts

\* What a client decodes of a term is what was gathered of it: the sections in order,
\* each with its count.
LEMMA PostingsIs ==
  ASSUME NEW words \in Seq(Seq(Text)), NEW dictionary \in Seq(Text), NEW i \in DOMAIN dictionary
  PROVE  LET tf  == Gathered(words, dictionary[i])
             ids == Sorted(DOMAIN tf, <)
         IN  /\ ids \in Seq(DOMAIN tf)
             /\ Postings(Encode(dictionary, words), i) =
                  [k \in 1..Len(ids) |-> [id |-> ids[k], tf |-> tf[ids[k]]]]
<1> DEFINE Tf(j) == Gathered(words, dictionary[j])
           p == Encode(dictionary, words)
           slices == [j \in DOMAIN dictionary |-> Slice(Tf(j))]
           n == Len(dictionary)
<1>1. n \in Nat /\ DOMAIN dictionary = 1..n /\ i \in 1..n
  OBVIOUS
<1>2. ASSUME NEW j \in 1..n
      PROVE  /\ Counts(Tf(j)) /\ Slice(Tf(j)) \in Seq(Int)
             /\ Cardinality(DOMAIN Tf(j)) \in Nat
             /\ Len(Slice(Tf(j))) = 2 * Cardinality(DOMAIN Tf(j))
  <2>1. Counts(Tf(j))
    BY GatheredIs
  <2> HIDE DEF Tf
  <2> QED BY <2>1, SliceIs
<1>3. p.cnt = [j \in 1..n |-> Cardinality(DOMAIN Tf(j))] /\ p.post = FlattenSeq(slices)
  BY <1>1 DEF Encode
<1> DEFINE cnt == p.cnt
           post == p.post
<1> HIDE DEF Tf
<1>4. slices \in Seq(Seq(Int)) /\ Len(slices) = n /\ \A j \in 1..n : slices[j] = Slice(Tf(j))
  BY <1>1, <1>2
<1> HIDE DEF slices
<1>5. cnt \in Seq(Int) /\ Len(cnt) = n /\ \A j \in 1..n : cnt[j] = Cardinality(DOMAIN Tf(j))
  <2> HIDE DEF p
  <2> DEFINE c == p.cnt
  <2>1. c = [j \in 1..n |-> Cardinality(DOMAIN Tf(j))]
    BY <1>3
  <2> HIDE DEF c
  <2>2. c \in Seq(Int) /\ Len(c) = n /\ \A j \in 1..n : c[j] = Cardinality(DOMAIN Tf(j))
    BY <1>1, <1>2, <2>1
  <2> QED BY <2>2 DEF c
<1>6. Joined(Int, post, slices, n)
  BY <1>3, <1>4, FlattenIs
<1> HIDE DEF cnt, post, p
<1>7. \A j \in 0..n : Sums(Lens(slices))[j] = 2 * Sums(cnt)[j]
  <2> DEFINE b == Lens(slices)
  <2>1. b \in Seq(Int) /\ Len(b) = n /\ \A j \in 1..n : b[j] = Len(slices[j])
    BY <1>1, <1>4 DEF Lens
  <2>2. \A j \in 1..n : b[j] = 2 * cnt[j]
    <3> SUFFICES ASSUME NEW j \in 1..n PROVE b[j] = 2 * cnt[j]
      OBVIOUS
    <3>1. b[j] = Len(slices[j]) /\ slices[j] = Slice(Tf(j)) /\ cnt[j] = Cardinality(DOMAIN Tf(j))
      BY <2>1, <1>4, <1>5
    <3>2. Len(Slice(Tf(j))) = 2 * Cardinality(DOMAIN Tf(j))
      BY <1>2
    <3> QED BY <3>1, <3>2
  <2> HIDE DEF b
  <2>3. \A j \in 0..Len(cnt) : Sums(b)[j] = 2 * Sums(cnt)[j]
    BY <2>1, <2>2, <1>5, SumsDouble
  <2> QED BY <2>3, <1>5 DEF b
<1> DEFINE tf == Tf(i)
           ids == Sorted(DOMAIN tf, <)
           start == Start(cnt, i)
           s == Slice(tf)
<1>8. start = 2 * Sums(cnt)[i - 1] /\ start = Sums(Lens(slices))[i - 1]
  <2>1. i - 1 \in 0..n
    BY <1>1
  <2> QED BY <1>7, <2>1 DEF Start
<1>9. /\ ids \in Seq(DOMAIN tf) /\ Len(ids) = Cardinality(DOMAIN tf) /\ Len(ids) \in Nat
      /\ s \in Seq(Int) /\ Len(s) = 2 * Len(ids)
      /\ \A k \in 1..Len(ids) : /\ 2 * k - 1 \in 1..Len(s) /\ 2 * k \in 1..Len(s)
                                /\ s[2 * k - 1] = Gap(ids, k)
                                /\ s[2 * k] = tf[ids[k]]
  <2>1. Counts(tf)
    BY <1>1, <1>2
  <2> HIDE DEF tf
  <2> QED BY <2>1, SliceIs
<1>c. DOMAIN tf \in SUBSET Nat
  <2>1. Counts(tf)
    BY <1>1, <1>2
  <2> QED BY <2>1 DEF Counts
<1>10. slices[i] = s /\ cnt[i] = Len(ids)
  <2>1. slices[i] = s /\ cnt[i] = Cardinality(DOMAIN tf)
    BY <1>1, <1>4, <1>5
  <2>2. Len(ids) = Cardinality(DOMAIN tf)
    BY <1>9, Zenon
  <2> QED BY <2>1, <2>2, Zenon
<1> HIDE DEF tf, ids, start, s
<1>11. \A j \in 1..Len(s) : At(post, start + j) = s[j]
  <2> SUFFICES ASSUME NEW j \in 1..Len(s) PROVE At(post, start + j) = s[j]
    OBVIOUS
  <2>0. j \in 1..Len(slices[i]) /\ i \in 1..n
    BY <1>10, <1>1
  <2>1. start + j \in 1..Len(post) /\ post[start + j] = slices[i][j]
    BY <2>0, <1>6, <1>8, Zenon DEF Joined
  <2>2. post \in Seq(Int)
    BY <1>6 DEF Joined
  <2>3. DOMAIN post = 1..Len(post)
    BY <2>2
  <2> QED BY <2>1, <2>3, <1>10, Zenon DEF At
<1> DEFINE gaps == [k \in 1..cnt[i] |-> At(post, start + 2 * k - 1)]
<1>12. gaps \in Seq(Int) /\ Len(gaps) = Len(ids) /\ \A k \in 1..Len(ids) : gaps[k] = Gap(ids, k)
  <2>1. start \in Int
    <3>1. i - 1 \in 0..n
      BY <1>1
    <3>2. Sums(cnt)[i - 1] \in Int
      BY <1>5, <3>1, SumsInt
    <3> QED BY <3>2, <1>8
  <2>2. \A k \in 1..Len(ids) : start + 2 * k - 1 = start + (2 * k - 1)
    BY <2>1, <1>9
  <2>3. \A k \in 1..Len(ids) : At(post, start + 2 * k - 1) = Gap(ids, k)
    <3> SUFFICES ASSUME NEW k \in 1..Len(ids) PROVE At(post, start + 2 * k - 1) = Gap(ids, k)
      OBVIOUS
    <3>1. 2 * k - 1 \in 1..Len(s) /\ s[2 * k - 1] = Gap(ids, k) /\ start + 2 * k - 1 = start + (2 * k - 1)
      BY <1>9, <2>2
    <3>2. At(post, start + (2 * k - 1)) = s[2 * k - 1]
      BY <3>1, <1>11, Zenon
    <3> QED BY <3>1, <3>2, Zenon
  <2>4. \A k \in 1..Len(ids) : Gap(ids, k) \in Int
    <3> SUFFICES ASSUME NEW k \in 1..Len(ids) PROVE Gap(ids, k) \in Int
      OBVIOUS
    <3>1. s[2 * k - 1] \in Int /\ s[2 * k - 1] = Gap(ids, k)
      <4>1. 2 * k - 1 \in 1..Len(s) /\ s[2 * k - 1] = Gap(ids, k)
        BY <1>9
      <4>2. \A m \in 1..Len(s) : s[m] \in Int
        BY <1>9
      <4> QED BY <4>1, <4>2, Zenon
    <3> QED BY <3>1, Zenon
  <2>5. gaps = [k \in 1..Len(ids) |-> At(post, start + 2 * k - 1)]
    BY <1>10
  <2>6. gaps \in [1..Len(ids) -> Int] /\ \A k \in 1..Len(ids) : gaps[k] = Gap(ids, k)
    BY <2>3, <2>4, <2>5, Zenon
  <2> DEFINE m == Len(ids)
  <2>7. gaps \in [1..m -> Int] /\ m \in Nat /\ \A k \in 1..m : gaps[k] = Gap(ids, k)
    BY <2>6, <1>9
  <2> HIDE DEF gaps, m
  <2>8. gaps \in Seq(Int) /\ Len(gaps) = m
    BY <2>7
  <2> QED BY <2>7, <2>8 DEF m
<1>13. \A k \in 1..Len(ids) : Sums(gaps)[k] = ids[k]
  <2> HIDE DEF gaps
  <2>1. ids \in Seq(Int)
    BY <1>9, <1>c
  <2> QED BY <2>1, <1>12, SumsOfGaps
<1>14. \A k \in 1..Len(ids) : At(post, start + 2 * k) = tf[ids[k]]
  <2> SUFFICES ASSUME NEW k \in 1..Len(ids) PROVE At(post, start + 2 * k) = tf[ids[k]]
    OBVIOUS
  <2>1. 2 * k \in 1..Len(s) /\ s[2 * k] = tf[ids[k]]
    BY <1>9
  <2> QED BY <2>1, <1>11, Zenon
<1>15. Postings(p, i) = [k \in 1..cnt[i] |-> [id |-> Sums(gaps)[k], tf |-> At(post, start + 2 * k)]]
  BY DEF Postings, cnt, post, start
<1> HIDE DEF gaps
<1>16. Postings(p, i) = [k \in 1..Len(ids) |-> [id |-> ids[k], tf |-> tf[ids[k]]]]
  BY <1>10, <1>13, <1>14, <1>15, Zenon
<1>17. ids \in Seq(DOMAIN tf)
  BY <1>9
<1> QED BY <1>16, <1>17 DEF p, ids, tf, Tf
-----------------------------------------------------------------------------
(* Prefixes.                                                               *)

\* A text begins with a prefix when it has the prefix's characters.
LEMMA BeginsWithIs ==
  ASSUME NEW x \in Seq(Nat), NEW p \in Seq(Nat)
  PROVE  BeginsWith(x, p) <=> Len(p) <= Len(x) /\ \A j \in 1..Len(p) : x[j] = p[j]
<1>1. Len(x) \in Nat /\ Len(p) \in Nat
  OBVIOUS
<1>2. ASSUME Len(p) <= Len(x)
      PROVE  SubSeq(x, 1, Len(p)) = p <=> \A j \in 1..Len(p) : x[j] = p[j]
  <2> DEFINE s == SubSeq(x, 1, Len(p))
  <2>1. s \in Seq(Nat) /\ Len(s) = Len(p) /\ \A j \in 1..Len(p) : s[j] = x[j]
    BY <1>1, <1>2
  <2> HIDE DEF s
  <2>2. s = p <=> \A j \in 1..Len(p) : s[j] = p[j]
    <3>1. ASSUME \A j \in 1..Len(p) : s[j] = p[j] PROVE s = p
      <4>1. s \in [1..Len(p) -> Nat] /\ p \in [1..Len(p) -> Nat]
        BY <2>1
      <4>2. s = [j \in 1..Len(p) |-> s[j]] /\ p = [j \in 1..Len(p) |-> p[j]]
        BY <4>1, Zenon
      <4> QED BY <4>2, <3>1, Zenon
    <3> QED BY <3>1, Zenon
  <2>3. (\A j \in 1..Len(p) : s[j] = p[j]) <=> \A j \in 1..Len(p) : x[j] = p[j]
    BY <2>1
  <2> QED BY <2>2, <2>3 DEF s
<1> QED BY <1>2 DEF BeginsWith

\* A text that begins with a prefix is not before it.
LEMMA PrefixNotBefore ==
  ASSUME NEW x \in Seq(Nat), NEW p \in Seq(Nat), BeginsWith(x, p)
  PROVE  ~Less(x, p)
<1> SUFFICES ASSUME Less(x, p) PROVE FALSE
  OBVIOUS
<1>1. Len(x) \in Nat /\ Len(p) \in Nat /\ Len(p) <= Len(x) /\ \A j \in 1..Len(p) : x[j] = p[j]
  BY BeginsWithIs
<1>2. PICK i \in 1..Len(p) : i <= Len(x) => x[i] < p[i]
  BY DEF Less
<1>3. i <= Len(x) /\ x[i] = p[i] /\ p[i] \in Nat
  BY <1>1
<1> QED BY <1>2, <1>3

\* What stands between a prefix and a text that begins with it begins with it too.
LEMMA PrefixBetween ==
  ASSUME NEW x \in Seq(Nat), NEW y \in Seq(Nat), NEW p \in Seq(Nat),
         BeginsWith(x, p), ~Less(y, p), Less(y, x)
  PROVE  BeginsWith(y, p)
<1>1. Len(x) \in Nat /\ Len(y) \in Nat /\ Len(p) \in Nat
  OBVIOUS
<1>2. Len(p) <= Len(x) /\ \A j \in 1..Len(p) : x[j] = p[j]
  BY BeginsWithIs
<1>3. PICK i \in 1..Len(x) : /\ i <= Len(y) + 1
                             /\ \A j \in 1..(i - 1) : y[j] = x[j]
                             /\ i <= Len(y) => y[i] < x[i]
  BY DEF Less
<1>4. CASE i > Len(p)
  <2>1. Len(p) <= Len(y) /\ \A j \in 1..Len(p) : j \in 1..(i - 1)
    BY <1>1, <1>3, <1>4
  <2>2. \A j \in 1..Len(p) : y[j] = p[j]
    BY <1>2, <1>3, <2>1
  <2> QED BY <2>1, <2>2, BeginsWithIs
<1>5. CASE i <= Len(p)
  <2>1. i \in 1..Len(p) /\ \A j \in 1..(i - 1) : j \in 1..Len(p)
    BY <1>1, <1>5
  <2>2. x[i] = p[i] /\ \A j \in 1..(i - 1) : y[j] = p[j]
    BY <1>2, <1>3, <2>1
  <2>3. Less(y, p)
    BY <1>3, <2>1, <2>2 DEF Less
  <2> QED BY <2>3
<1> QED BY <1>1, <1>4, <1>5

Whole(d) == [low |-> 1, high |-> Len(d) + 1]

IsHalving(f, d, p, n) == f = [k \in 0..n |-> IF k = 0 THEN Whole(d) ELSE Halve(d, p, f[k - 1])]

\* There is a function that halves as often as there are terms.
LEMMA HalvingExists ==
  ASSUME NEW d, NEW p, NEW k \in Nat
  PROVE  \E f : IsHalving(f, d, p, k)
<1> DEFINE S == {n \in Nat : \E f : IsHalving(f, d, p, n)}
<1>1. 0 \in S
  <2>1. IsHalving([i \in 0..0 |-> Whole(d)], d, p, 0)
    BY DEF IsHalving
  <2> QED BY <2>1
<1>2. ASSUME NEW n \in 0..k, n \in S PROVE n + 1 \in S
  <2>1. PICK f : IsHalving(f, d, p, n)
    BY <1>2
  <2> DEFINE g == [i \in 0..n + 1 |-> IF i <= n THEN f[i] ELSE Halve(d, p, f[n])]
  <2>2. ASSUME NEW i \in 0..n + 1
        PROVE  g[i] = IF i = 0 THEN Whole(d) ELSE Halve(d, p, g[i - 1])
    <3>1. CASE i <= n
      <4>1. i \in 0..n /\ i <= n + 1
        BY <3>1
      <4>2. f[i] = IF i = 0 THEN Whole(d) ELSE Halve(d, p, f[i - 1])
        BY <2>1, <4>1 DEF IsHalving
      <4>3. i # 0 => g[i - 1] = f[i - 1]
        BY <4>1
      <4> QED BY <3>1, <4>2, <4>3
    <3>2. CASE i = n + 1
      BY <3>2
    <3> QED BY <3>1, <3>2
  <2> HIDE DEF g
  <2>3. g = [i \in 0..n + 1 |-> g[i]]
    BY DEF g
  <2>4. g = [i \in 0..n + 1 |-> IF i = 0 THEN Whole(d) ELSE Halve(d, p, g[i - 1])]
    BY <2>2, <2>3
  <2>5. IsHalving(g, d, p, n + 1)
    BY <2>4 DEF IsHalving
  <2>6. n + 1 \in Nat
    OBVIOUS
  <2> QED BY <2>5, <2>6, Zenon
<1> HIDE DEF S
<1>3. k \in S
  BY <1>1, <1>2, Places
<1> QED BY <1>3 DEF S

\* Halved is one: it begins with the whole dictionary, and every place halves.
LEMMA HalvedIs ==
  ASSUME NEW d, NEW p, Len(d) \in Nat
  PROVE  /\ Halved(d, p)[0] = Whole(d)
         /\ \A k \in 1..Len(d) : Halved(d, p)[k] = Halve(d, p, Halved(d, p)[k - 1])
<1>1. Halved(d, p) = [k \in 0..Len(d) |-> IF k = 0 THEN Whole(d) ELSE Halve(d, p, Halved(d, p)[k - 1])]
  <2>1. PICK f : IsHalving(f, d, p, Len(d))
    BY HalvingExists
  <2> QED BY <2>1 DEF IsHalving, Halved, Whole
<1> QED BY <1>1

\* A sorted dictionary.
Dictionary(d) == d \in Seq(Seq(Nat)) /\ \A i, j \in 1..Len(d) : i < j => Less(d[i], d[j])

\* The first place at or after p is in the range, which shrinks to at most `room`.
Brackets(r, d, p, room) ==
  /\ r \in [low : 1..Len(d) + 1, high : 1..Len(d) + 1]
  /\ r.low <= r.high /\ r.high - r.low <= room
  /\ \A j \in 1..Len(d) : /\ j < r.low => Less(d[j], p)
                          /\ j >= r.high => ~Less(d[j], p)

\* A turn of the loop halves the range and keeps the place in it.
LEMMA HalveBrackets ==
  ASSUME NEW d, Dictionary(d), NEW p \in Seq(Nat), NEW room \in Nat, NEW r, Brackets(r, d, p, room + 1)
  PROVE  Brackets(Halve(d, p, r), d, p, room)
<1> DEFINE mid == (r.low + r.high) \div 2
           low == r.low
           high == r.high
           n == Len(d)
<1>1. /\ n \in Nat /\ low \in 1..n + 1 /\ high \in 1..n + 1 /\ low <= high /\ high - low <= room + 1
      /\ \A j \in 1..n : (j < low => Less(d[j], p)) /\ (j >= high => ~Less(d[j], p))
      /\ r = [low |-> low, high |-> high]
  BY DEF Brackets, Dictionary
<1>2. CASE low >= high
  <2>1. Halve(d, p, r) = r
    BY <1>2 DEF Halve
  <2>2. r.high - r.low <= room
    BY <1>1, <1>2
  <2> QED BY <2>1, <2>2 DEF Brackets
<1>3. CASE low < high
  <2>1. mid \in low..high - 1 /\ mid \in 1..n
    BY <1>1, <1>3
  <2>2. d[mid] \in Seq(Nat) /\ \A j \in 1..n : d[j] \in Seq(Nat)
    BY <2>1 DEF Dictionary
  <2>3. CASE Less(d[mid], p)
    <3>1. Halve(d, p, r) = [low |-> mid + 1, high |-> high]
      <4>1. ~(low >= high)
        BY <1>1, <1>3
      <4>2. Halve(d, p, r) = [r EXCEPT !.low = mid + 1]
        BY <4>1, <2>3 DEF Halve
      <4> HIDE DEF mid
      <4> QED BY <4>2, <1>1
    <3>2. ASSUME NEW j \in 1..n, j < mid + 1 PROVE Less(d[j], p)
      <4>1. CASE j = mid
        BY <4>1, <2>3
      <4>2. CASE j < mid
        <5>1. Less(d[j], d[mid])
          BY <4>2, <2>1 DEF Dictionary
        <5> QED BY <5>1, <2>2, <2>3, LessTransitive
      <4> HIDE DEF mid
      <4> QED BY <3>2, <2>1, <1>1, <4>1, <4>2
    <3> HIDE DEF mid, low, high, n
    <3> DEFINE new == [low |-> mid + 1, high |-> high]
    <3>3. new.low = mid + 1 /\ new.high = high
      OBVIOUS
    <3>4. mid + 1 \in 1..n + 1 /\ mid + 1 <= high /\ high - (mid + 1) <= room
      BY <2>1, <1>1
    <3>5. new \in [low : 1..n + 1, high : 1..n + 1]
      BY <3>4, <1>1
    <3> HIDE DEF new
    <3>6. Brackets(new, d, p, room)
      BY <3>2, <3>3, <3>4, <3>5, <1>1 DEF Brackets, n
    <3> QED BY <3>1, <3>6 DEF new
  <2>4. CASE ~Less(d[mid], p)
    <3>1. Halve(d, p, r) = [low |-> low, high |-> mid]
      <4>1. ~(r.low >= r.high)
        BY <1>1, <1>3
      <4>2. Halve(d, p, r) = [r EXCEPT !.high = mid]
        BY <4>1, <2>4, Zenon DEF Halve
      <4> QED BY <4>2, <1>1
    <3>2. ASSUME NEW j \in 1..n, j >= mid PROVE ~Less(d[j], p)
      <4>1. CASE j = mid
        BY <4>1, <2>4
      <4>2. CASE j > mid
        <5>1. Less(d[mid], d[j])
          BY <4>2, <2>1 DEF Dictionary
        <5> QED BY <5>1, <2>2, <2>4, LessTransitive
      <4> HIDE DEF mid
      <4> QED BY <3>2, <2>1, <1>1, <4>1, <4>2
    <3> HIDE DEF mid, low, high, n
    <3> DEFINE new == [low |-> low, high |-> mid]
    <3>3. new.low = low /\ new.high = mid
      OBVIOUS
    <3>4. mid \in 1..n + 1 /\ low <= mid /\ mid - low <= room
      BY <2>1, <1>1
    <3>5. new \in [low : 1..n + 1, high : 1..n + 1]
      BY <3>4, <1>1
    <3> HIDE DEF new
    <3>6. Brackets(new, d, p, room)
      BY <3>2, <3>3, <3>4, <3>5, <1>1 DEF Brackets, n
    <3> QED BY <3>1, <3>6 DEF new
  <2> QED BY <2>3, <2>4
<1> QED BY <1>1, <1>2, <1>3

\* The lower bound parts the terms before p from the others.
LEMMA LowerBoundIs ==
  ASSUME NEW d, Dictionary(d), NEW p \in Seq(Nat)
  PROVE  /\ LowerBound(d, p) \in 1..Len(d) + 1
         /\ \A j \in 1..Len(d) : Less(d[j], p) <=> j < LowerBound(d, p)
<1> DEFINE n == Len(d)
           r(k) == Halved(d, p)[k]
           S == {k \in 0..n : Brackets(r(k), d, p, n - k)}
<1>1. n \in Nat
  BY DEF Dictionary
<1>2. 0 \in S
  <2>1. r(0) = Whole(d)
    BY <1>1, HalvedIs
  <2>2. Brackets(Whole(d), d, p, n - 0)
    <3> DEFINE w == Whole(d)
    <3>1. w \in [low : 1..n + 1, high : 1..n + 1] /\ w.low = 1 /\ w.high = n + 1
      BY <1>1 DEF Whole
    <3> HIDE DEF w
    <3>2. Brackets(w, d, p, n - 0)
      BY <1>1, <3>1 DEF Brackets
    <3> QED BY <3>2 DEF w
  <2> QED BY <1>1, <2>1, <2>2
<1>3. ASSUME NEW k \in 0..n, k < n, k \in S PROVE k + 1 \in S
  <2>1. r(k + 1) = Halve(d, p, r(k))
    <3>1. k + 1 \in 1..Len(d) /\ (k + 1) - 1 = k
      BY <1>1, <1>3
    <3> QED BY <3>1, <1>1, HalvedIs
  <2>2. n - (k + 1) \in Nat /\ n - k = (n - (k + 1)) + 1 /\ k + 1 \in 0..n
    BY <1>1, <1>3
  <2>3. Brackets(r(k), d, p, (n - (k + 1)) + 1)
    BY <1>3, <2>2
  <2> DEFINE room == n - (k + 1)
  <2>4. room \in Nat /\ Brackets(r(k), d, p, room + 1)
    BY <2>2, <2>3
  <2> HIDE DEF r, room
  <2>5. Brackets(Halve(d, p, r(k)), d, p, room)
    BY <2>4, HalveBrackets
  <2> QED BY <2>1, <2>2, <2>5 DEF room
<1> HIDE DEF S
<1>4. \A k \in 0..n : k \in S
  BY <1>1, <1>2, <1>3, Places
<1>5. Brackets(r(n), d, p, 0)
  <2>1. n \in S /\ n - n = 0
    BY <1>1, <1>4
  <2> QED BY <2>1 DEF S
<1>6. LowerBound(d, p) = r(n).low
  BY DEF LowerBound
<1> HIDE DEF r
<1>7. r(n).low \in 1..n + 1 /\ r(n).high \in 1..n + 1 /\ r(n).low = r(n).high
  BY <1>1, <1>5 DEF Brackets
<1> QED BY <1>1, <1>5, <1>6, <1>7 DEF Brackets

\* The walk finds every term that begins with the prefix and no other.
LEMMA ExpandPrefixIs ==
  ASSUME NEW d, Dictionary(d), NEW p \in Seq(Nat)
  PROVE  ExpandPrefix(d, p) = {i \in DOMAIN d : BeginsWith(d[i], p)}
<1> DEFINE low == LowerBound(d, p)
           n == Len(d)
<1>1. n \in Nat /\ DOMAIN d = 1..n /\ \A i \in 1..n : d[i] \in Seq(Nat)
  BY DEF Dictionary
<1>2. low \in 1..n + 1 /\ \A j \in 1..n : Less(d[j], p) <=> j < low
  BY LowerBoundIs
<1>3. ExpandPrefix(d, p) = {i \in low..n : \A j \in low..i : BeginsWith(d[j], p)}
  BY DEF ExpandPrefix
<1> HIDE DEF low
<1>4. ASSUME NEW i \in low..n, \A j \in low..i : BeginsWith(d[j], p)
      PROVE  i \in DOMAIN d /\ BeginsWith(d[i], p)
  <2>1. i \in low..i /\ i \in 1..n
    BY <1>1, <1>2
  <2> QED BY <2>1, <1>4, <1>1
<1>5. ASSUME NEW i \in 1..n, BeginsWith(d[i], p)
      PROVE  i \in low..n /\ \A j \in low..i : BeginsWith(d[j], p)
  <2>1. ~Less(d[i], p)
    BY <1>1, <1>5, PrefixNotBefore
  <2>2. i \in low..n
    BY <2>1, <1>1, <1>2
  <2>3. ASSUME NEW j \in low..i PROVE BeginsWith(d[j], p)
    <3>1. j \in 1..n
      BY <1>1, <1>2
    <3>2. ~Less(d[j], p)
      BY <3>1, <1>2
    <3>3. CASE j = i
      BY <3>3, <1>5
    <3>4. CASE j < i
      <4>1. Less(d[j], d[i])
        BY <3>1, <3>4 DEF Dictionary
      <4> QED BY <4>1, <3>1, <3>2, <1>1, <1>5, PrefixBetween
    <3> QED BY <3>3, <3>4, <1>2
  <2> QED BY <2>2, <2>3
<1> QED BY <1>1, <1>3, <1>4, <1>5
-----------------------------------------------------------------------------
(* The index that is built.                                                *)

\* There are three fields.
LEMMA FieldsAre ==
  Fields = {"title", "heading", "body"}
<1>1. DOMAIN SearchFields = {1, 2, 3}
  BY DEF SearchFields
<1> QED BY <1>1 DEF Fields, SearchFields, ToSet

\* A sequence has finitely many elements, of the set it is over.
LEMMA ToSetIs ==
  ASSUME NEW X, NEW s \in Seq(X)
  PROVE  IsFiniteSet(ToSet(s)) /\ ToSet(s) \in SUBSET X
<1>1. Len(s) \in Nat /\ DOMAIN s = 1..Len(s) /\ s \in [1..Len(s) -> X]
  OBVIOUS
<1>2. s \in Surjection(1..Len(s), ToSet(s))
  BY <1>1 DEF Surjection, ToSet
<1>3. IsFiniteSet(1..Len(s))
  BY <1>1, FS_Interval
<1>4. IsFiniteSet(ToSet(s))
  BY <1>2, <1>3, FS_Surjection
<1> QED BY <1>1, <1>4 DEF ToSet

\* Characters are numbers.
LEMMA TextIs ==
  Text \in SUBSET Seq(Nat)
<1> SUFFICES ASSUME NEW t \in Text PROVE t \in Seq(Nat)
  OBVIOUS
<1>1. t \in [1..Len(t) -> Chars] /\ Len(t) \in Nat
  BY DEF Text
<1>2. Chars \in SUBSET Nat
  BY TermsAssumption
<1>3. t \in [1..Len(t) -> Nat]
  BY <1>1, <1>2
<1> QED BY <1>1, <1>3

\* The words of the sections are texts, section by section.
LEMMA WordsIs ==
  ASSUME NEW ps, IsCorpus(ps), NEW f \in Fields
  PROVE  /\ Len(Sections(ps)) \in Nat /\ DOMAIN Sections(ps) = 1..Len(Sections(ps))
         /\ Words(Sections(ps))[f] \in Seq(Seq(Text))
         /\ Len(Words(Sections(ps))[f]) = Len(Sections(ps))
         /\ \A d \in 1..Len(Sections(ps)) :
              Sections(ps)[d].text[f] \in Text /\ Words(Sections(ps))[f][d] = Tokenise(Sections(ps)[d].text[f])
<1> DEFINE s == Sections(ps)
           A == AudiencesOf(ps)
           w == Words(s)[f]
<1>1. s \in Seq(SectionsIn(A))
  BY SectionsType
<1> HIDE DEF s, A
<1>2. Len(s) \in Nat /\ DOMAIN s = 1..Len(s)
  BY <1>1
<1>3. ASSUME NEW d \in 1..Len(s) PROVE s[d].text[f] \in Text
  <2>1. s[d] \in SectionsIn(A)
    BY <1>1
  <2>2. s[d].text \in [title : Text, heading : Text, body : Text]
    BY <2>1 DEF SectionsIn
  <2> DEFINE x == s[d].text
  <2>3. x.title \in Text /\ x.heading \in Text /\ x.body \in Text
    BY <2>2
  <2> HIDE DEF x
  <2>4. x[f] \in Text
    BY <2>3, FieldsAre
  <2> QED BY <2>4 DEF x
<1>4. w = [d \in 1..Len(s) |-> Tokenise(s[d].text[f])]
  BY <1>2 DEF Words
<1> HIDE DEF w
<1>5. \A d \in 1..Len(s) : Tokenise(s[d].text[f]) \in Seq(Text)
  BY <1>3, TokeniseType
<1>6. w \in Seq(Seq(Text)) /\ Len(w) = Len(s) /\ \A d \in 1..Len(s) : w[d] = Tokenise(s[d].text[f])
  BY <1>2, <1>4, <1>5
<1> QED BY <1>2, <1>3, <1>6 DEF s, w

Vocabulary(ps) == UNION {ToSet(Words(Sections(ps))[f][d]) : f \in Fields, d \in DOMAIN Sections(ps)}

\* A corpus has finitely many words, which are texts.
LEMMA VocabularyIs ==
  ASSUME NEW ps, IsCorpus(ps)
  PROVE  IsFiniteSet(Vocabulary(ps)) /\ Vocabulary(ps) \in SUBSET Text
<1> DEFINE s == Sections(ps)
           D == DOMAIN s
           e == [x \in Fields \X D |-> ToSet(Words(s)[x[1]][x[2]])]
           E == {ToSet(Words(s)[f][d]) : f \in Fields, d \in D}
<1>1. D = 1..Len(s) /\ Len(s) \in Nat
  <2>1. "title" \in Fields
    BY FieldsAre
  <2> QED BY <2>1, WordsIs
<1>2. ASSUME NEW f \in Fields, NEW d \in D
      PROVE  IsFiniteSet(ToSet(Words(s)[f][d])) /\ ToSet(Words(s)[f][d]) \in SUBSET Text
  <2>1. Words(s)[f] \in Seq(Seq(Text)) /\ Len(Words(s)[f]) = Len(s)
    BY WordsIs
  <2> DEFINE w == Words(s)[f]
  <2>2. w \in Seq(Seq(Text)) /\ d \in 1..Len(w)
    BY <2>1, <1>1
  <2> HIDE DEF w
  <2>3. w[d] \in Seq(Text)
    BY <2>2
  <2> QED BY <2>3, ToSetIs DEF w
<1>3. IsFiniteSet(Fields \X D)
  <2>1. IsFiniteSet(D)
    BY <1>1, FS_Interval
  <2>2. IsFiniteSet(Fields)
    <3>1. SearchFields \in Seq({"title", "heading", "body"})
      BY DEF SearchFields
    <3> QED BY <3>1, ToSetIs DEF Fields
  <2> HIDE DEF D
  <2> QED BY <2>1, <2>2, FS_Product
<1> HIDE DEF D, s
<1>4. e \in Surjection(Fields \X D, E)
  <2>1. \A x \in Fields \X D : e[x] \in E
    OBVIOUS
  <2>2. \A y \in E : \E x \in Fields \X D : e[x] = y
    <3> SUFFICES ASSUME NEW y \in E PROVE \E x \in Fields \X D : e[x] = y
      OBVIOUS
    <3>1. PICK f \in Fields, d \in D : y = ToSet(Words(s)[f][d])
      OBVIOUS
    <3>2. <<f, d>> \in Fields \X D /\ e[<<f, d>>] = ToSet(Words(s)[f][d])
      OBVIOUS
    <3> QED BY <3>1, <3>2
  <2>3. e \in [Fields \X D -> E]
    OBVIOUS
  <2> HIDE DEF e, E
  <2> QED BY <2>2, <2>3 DEF Surjection
<1>5. \A x \in E : IsFiniteSet(x) /\ x \in SUBSET Text
  BY <1>2
<1>v. Vocabulary(ps) = UNION E
  BY DEF Vocabulary, E, D, s
<1> HIDE DEF e, E
<1>6. IsFiniteSet(E)
  BY <1>3, <1>4, FS_Surjection
<1>7. IsFiniteSet(UNION E)
  BY <1>5, <1>6, FS_UNION
<1> QED BY <1>5, <1>7, <1>v
-----------------------------------------------------------------------------
(* Scores.                                                                 *)

Positive == Nat \ {0}

\* A product of positive numbers is positive, and so is their sum.
LEMMA PositiveIs ==
  ASSUME NEW a \in Positive, NEW b \in Positive
  PROVE  a * b \in Positive /\ a + b \in Positive
  BY DEF Positive

\* A share of something is something.
LEMMA CeilingIs ==
  ASSUME NEW a \in Positive, NEW b \in Positive
  PROVE  Ceiling(a, b) \in Positive
<1>1. a \in Nat /\ b \in Nat /\ a >= 1 /\ b >= 1
  BY DEF Positive
<1>2. a + b - 1 >= b /\ a + b - 1 \in Nat
  BY <1>1
<1> DEFINE x == a + b - 1
<1>3. x \in Nat /\ x >= b
  BY <1>2
<1> HIDE DEF x
<1>4. x \div b \in Int /\ x \div b >= 1
  BY <1>1, <1>3
<1> QED BY <1>4 DEF Ceiling, Positive, x

\* The greatest of finitely many numbers.
LEMMA MaxIs ==
  ASSUME NEW S \in SUBSET Nat, IsFiniteSet(S), S # {}
  PROVE  Max(S) \in S /\ \A y \in S : Max(S) >= y
<1> DEFINE q == Sorted(S, <)
<1>1. S \in SUBSET Int
  OBVIOUS
<1>2. Ordered(q, S, Numbers(S))
  BY <1>1, SortedNumbers
<1> HIDE DEF q
<1>3. q \in Seq(S) /\ ToSet(q) = S /\ \A i, j \in 1..Len(q) : i < j => q[i] < q[j]
  BY <1>2 DEF Ordered, Numbers
<1>4. Len(q) \in Nat /\ DOMAIN q = 1..Len(q)
  BY <1>3
<1>5. \A y \in S : \E i \in 1..Len(q) : q[i] = y
  BY <1>3, <1>4 DEF ToSet
<1>6. Len(q) \in 1..Len(q) /\ q[Len(q)] \in S
  <2>1. PICK y \in S : TRUE
    OBVIOUS
  <2>2. PICK i \in 1..Len(q) : q[i] = y
    BY <1>5
  <2>3. Len(q) \in 1..Len(q)
    BY <1>4, <2>2
  <2> QED BY <1>3, <2>3
<1>7. ASSUME NEW y \in S PROVE q[Len(q)] >= y
  <2>1. PICK i \in 1..Len(q) : q[i] = y
    BY <1>5
  <2>2. CASE i = Len(q)
    BY <2>1, <2>2
  <2>3. CASE i # Len(q)
    <3>1. i < Len(q)
      <4>1. \A n \in Nat : \A m \in 1..n : m # n => m < n
        OBVIOUS
      <4> QED BY <4>1, <2>3, <1>4, Zenon
    <3>2. q[i] < q[Len(q)]
      BY <3>1, <1>3, <1>6
    <3>3. q[i] \in Nat /\ q[Len(q)] \in Nat
      BY <2>1, <1>6
    <3> QED BY <2>1, <3>2, <3>3
  <2> QED BY <2>2, <2>3
<1>8. \E x \in S : \A y \in S : x >= y
  BY <1>6, <1>7
<1>9. Max(S) = CHOOSE x \in S : \A y \in S : x >= y
  BY DEF Max
<1> QED BY <1>8, <1>9, Zenon

Occurrences(n) == [id : 0..n - 1, tf : Positive]

\* What a query needs of an index.
Readable(ix) ==
  /\ ix.n \in Nat
  /\ ix.terms \in Seq(Text) /\ Dictionary(ix.terms)
  /\ \A d \in 1..ix.n : ix.docs[d].slug \in Text /\ ix.docs[d].anchor \in Text
  /\ \A d, e \in 1..ix.n : d # e => \/ ix.docs[d].slug # ix.docs[e].slug
                                    \/ ix.docs[d].anchor # ix.docs[e].anchor
  /\ \A f \in Fields : ix.totalLen[f] \in Nat /\ \A d \in 1..ix.n : ix.len[f][d] \in Nat
  /\ \A i \in DOMAIN ix.terms : Idf(ix.n, ix.df[i]) \in Positive
  /\ \A f \in Fields : \A i \in DOMAIN ix.terms : Postings(ix.f[f], i) \in Seq(Occurrences(ix.n))

\* Every posting is worth something.
LEMMA ShareIs ==
  ASSUME NEW ix, Readable(ix), NEW f \in Fields, NEW i \in DOMAIN ix.terms, NEW q \in Occurrences(ix.n)
  PROVE  Share(ix, f, i, q) \in Positive
<1> DEFINE total == ix.totalLen[f]
           len == ix.len[f][q.id + 1] * ix.n
           norm == IF total = 0 THEN Ceiling(2200000 * q.tf, 1000 * q.tf + 1200)
                   ELSE Ceiling(2200000 * q.tf * total, 1000 * q.tf * total + 300 * total + 900 * len)
           tf == q.tf
           idf == Idf(ix.n, ix.df[i])
           w == Weight[f]
           d == q.id + 1
<1>1. total \in Nat /\ idf \in Positive /\ tf \in Positive /\ w \in Positive
  BY SearchAssumption DEF Readable, Occurrences, Positive
<1>2. len \in Nat
  <2>1. ix.n \in Nat /\ d \in 1..ix.n
    BY DEF Readable, Occurrences
  <2>2. ix.len[f][d] \in Nat
    BY <2>1 DEF Readable
  <2> DEFINE l == ix.len[f][d]
             n == ix.n
  <2>3. l \in Nat /\ n \in Nat
    BY <2>1, <2>2
  <2> HIDE DEF l, n
  <2>4. l * n \in Nat
    BY <2>3
  <2> QED BY <2>4 DEF l, n
<1>3. Share(ix, f, i, q) = w * idf * norm
  BY DEF Share
<1> HIDE DEF total, len, tf, idf, w
<1>p. 2200000 \in Positive /\ 1000 \in Positive /\ 1200 \in Positive /\ 300 \in Positive
  BY DEF Positive
<1>4. norm \in Positive
  <2>1. CASE total = 0
    <3>1. 2200000 * tf \in Positive /\ 1000 * tf \in Positive
      BY <1>1, <1>p, PositiveIs
    <3>2. 1000 * tf + 1200 \in Positive
      BY <3>1, <1>p, PositiveIs
    <3>3. Ceiling(2200000 * tf, 1000 * tf + 1200) \in Positive
      BY <3>1, <3>2, CeilingIs
    <3> QED BY <3>3, <2>1 DEF tf
  <2>2. CASE total # 0
    <3>1. total \in Positive
      BY <1>1, <2>2 DEF Positive
    <3>2. 2200000 * tf \in Positive /\ 1000 * tf \in Positive /\ 300 * total \in Positive
      BY <1>1, <3>1, <1>p, PositiveIs
    <3>3. 2200000 * tf * total \in Positive /\ 1000 * tf * total \in Positive
      BY <3>1, <3>2, PositiveIs
    <3>4. 1000 * tf * total + 300 * total \in Positive
      BY <3>2, <3>3, PositiveIs
    <3> DEFINE x == 1000 * tf * total + 300 * total
    <3>5. x \in Positive
      BY <3>4
    <3> HIDE DEF x
    <3>6. x + 900 * len \in Positive
      BY <3>5, <1>2 DEF Positive
    <3>7. Ceiling(2200000 * tf * total, x + 900 * len) \in Positive
      BY <3>3, <3>6, CeilingIs
    <3> QED BY <3>7, <2>2 DEF tf, x
  <2> QED BY <2>1, <2>2
<1> HIDE DEF norm
<1>5. w * idf \in Positive
  BY <1>1, PositiveIs
<1>6. w * idf * norm \in Positive
  BY <1>4, <1>5, PositiveIs
<1> QED BY <1>3, <1>6

\* A term in a field is worth something to a section exactly when a posting says it is there.
LEMMA WorthIs ==
  ASSUME NEW ix, Readable(ix), NEW f \in Fields, NEW i \in DOMAIN ix.terms, NEW id
  PROVE  /\ Worth(ix, f, i, id) \in Nat
         /\ Worth(ix, f, i, id) > 0 <=> \E q \in ToSet(Postings(ix.f[f], i)) : q.id = id
<1> DEFINE ps == Postings(ix.f[f], i)
           Of(k) == IF ps[k].id = id THEN Share(ix, f, i, ps[k]) ELSE 0
           seq == [k \in DOMAIN ps |-> Of(k)]
<1>1. ps \in Seq(Occurrences(ix.n))
  BY DEF Readable
<1>2. Worth(ix, f, i, id) = Sum(seq)
  BY DEF Worth
<1> HIDE DEF ps
<1>3. Len(ps) \in Nat /\ DOMAIN ps = 1..Len(ps) /\ \A k \in 1..Len(ps) : ps[k] \in Occurrences(ix.n)
  BY <1>1
<1>4. \A k \in 1..Len(ps) : Of(k) \in Nat /\ (Of(k) > 0 <=> ps[k].id = id)
  <2> SUFFICES ASSUME NEW k \in 1..Len(ps) PROVE Of(k) \in Nat /\ (Of(k) > 0 <=> ps[k].id = id)
    OBVIOUS
  <2>1. Share(ix, f, i, ps[k]) \in Positive
    BY <1>3, ShareIs
  <2> QED BY <2>1 DEF Positive
<1> HIDE DEF Of
<1>5. seq \in Seq(Nat) /\ Len(seq) = Len(ps) /\ \A k \in 1..Len(ps) : seq[k] = Of(k)
  BY <1>3, <1>4
<1>6. (\E q \in ToSet(ps) : q.id = id) <=> \E k \in 1..Len(ps) : ps[k].id = id
  BY <1>3 DEF ToSet
<1> HIDE DEF seq
<1>7. \A k \in 0..Len(seq) : Sums(seq)[k] \in Nat
  BY <1>5, SumsNat
<1>8. Sum(seq) \in Nat
  <2>1. Len(seq) \in 0..Len(seq)
    BY <1>3, <1>5
  <2> QED BY <2>1, <1>7 DEF Sum
<1>9. ASSUME NEW k \in 1..Len(ps), ps[k].id = id PROVE Sum(seq) > 0
  <2>1. Sums(seq)[k - 1] + seq[k] <= Sum(seq)
    BY <1>5, SumsNat
  <2>2. seq[k] \in Nat /\ seq[k] > 0
    BY <1>4, <1>5, <1>9
  <2>3. Sums(seq)[k - 1] \in Nat
    <3>1. k - 1 \in 0..Len(seq)
      BY <1>3, <1>5
    <3> QED BY <3>1, <1>7
  <2> QED BY <2>1, <2>2, <2>3, <1>8
<1>10. ASSUME \A k \in 1..Len(ps) : ps[k].id # id PROVE Sum(seq) = 0
  <2> DEFINE S == {k \in 0..Len(seq) : Sums(seq)[k] = 0}
  <2>1. Len(seq) \in Nat
    BY <1>3, <1>5
  <2>2. 0 \in S
    BY <2>1, SumsIs
  <2>3. ASSUME NEW k \in 0..Len(seq), k < Len(seq), k \in S PROVE k + 1 \in S
    <3>1. k + 1 \in 1..Len(seq) /\ (k + 1) - 1 = k
      BY <2>3, <2>1
    <3>2. Sums(seq)[k + 1] = Sums(seq)[k] + seq[k + 1]
      BY <3>1, <2>1, SumsIs
    <3>3. seq[k + 1] = 0
      BY <3>1, <1>4, <1>5, <1>10
    <3> QED BY <2>3, <3>1, <3>2, <3>3
  <2> HIDE DEF S
  <2>4. \A k \in 0..Len(seq) : k \in S
    BY <2>1, <2>2, <2>3, Places
  <2>5. Len(seq) \in S
    BY <2>1, <2>4
  <2> QED BY <2>5 DEF S, Sum
<1>11. Sum(seq) > 0 <=> \E q \in ToSet(ps) : q.id = id
  BY <1>6, <1>8, <1>9, <1>10
<1> QED BY <1>2, <1>8, <1>11 DEF ps

\* A term is evidence for the sections that hold it.
LEMMA EvidenceIs ==
  ASSUME NEW ix, Readable(ix), NEW i \in DOMAIN ix.terms, NEW id
  PROVE  Evidence(ix, i, id) \in Nat /\ (Evidence(ix, i, id) > 0 <=> id \in Holding(ix, i))
<1> DEFINE W(f) == Worth(ix, f, i, id)
           seq == [k \in DOMAIN SearchFields |-> W(SearchFields[k])]
<1>1. DOMAIN SearchFields = 1..3 /\ \A k \in 1..3 : SearchFields[k] \in Fields
  BY FieldsAre DEF SearchFields
<1>2. \A f \in Fields : W(f) \in Nat /\ (W(f) > 0 <=> \E q \in ToSet(Postings(ix.f[f], i)) : q.id = id)
  BY WorthIs
<1>3. Evidence(ix, i, id) = Sum(seq)
  BY DEF Evidence
<1>4. id \in Holding(ix, i) <=> \E f \in Fields : \E q \in ToSet(Postings(ix.f[f], i)) : q.id = id
  BY DEF Holding
<1> HIDE DEF W
<1>5. seq \in Seq(Nat) /\ Len(seq) = 3 /\ seq[1] = W("title") /\ seq[2] = W("heading") /\ seq[3] = W("body")
  <2>1. seq = [k \in 1..3 |-> W(SearchFields[k])]
    BY <1>1
  <2>2. \A k \in 1..3 : W(SearchFields[k]) \in Nat
    BY <1>1, <1>2
  <2>3. SearchFields[1] = "title" /\ SearchFields[2] = "heading" /\ SearchFields[3] = "body"
    BY DEF SearchFields
  <2> QED BY <2>1, <2>2, <2>3
<1> HIDE DEF seq
<1>7. W("title") \in Nat /\ W("heading") \in Nat /\ W("body") \in Nat
  BY <1>2, FieldsAre
<1>6. Sum(seq) = W("title") + W("heading") + W("body")
  <2>0. Len(seq) \in Nat /\ Len(seq) = 3
    BY <1>5
  <2>1. Sums(seq)[0] = 0 /\ \A k \in 1..3 : Sums(seq)[k] = Sums(seq)[k - 1] + seq[k]
    <3>1. Sums(seq)[0] = 0 /\ \A k \in 1..Len(seq) : Sums(seq)[k] = Sums(seq)[k - 1] + seq[k]
      BY <2>0, SumsIs, Zenon
    <3> QED BY <3>1, <2>0
  <2>2. Sums(seq)[1] = 0 + seq[1] /\ Sums(seq)[2] = Sums(seq)[1] + seq[2] /\ Sums(seq)[3] = Sums(seq)[2] + seq[3]
    BY <2>1
  <2>3. seq[1] \in Nat /\ seq[2] \in Nat /\ seq[3] \in Nat
    BY <1>5, <1>7
  <2>4. Sum(seq) = Sums(seq)[3]
    BY <2>0 DEF Sum
  <2> QED BY <2>2, <2>3, <2>4, <1>5
<1>8. Sum(seq) \in Nat /\ (Sum(seq) > 0 <=> \E f \in Fields : W(f) > 0)
  BY <1>6, <1>7, FieldsAre
<1> QED BY <1>2, <1>3, <1>4, <1>8

\* The terms a token stands for.
LEMMA ExpansionIs ==
  ASSUME NEW ix, Readable(ix), NEW tokens \in Seq(Text), NEW t \in ToSet(tokens)
  PROVE  Expansion(ix, tokens, t) =
           {i \in DOMAIN ix.terms : IF t = tokens[Len(tokens)] THEN BeginsWith(ix.terms[i], t)
                                                               ELSE ix.terms[i] = t}
<1>1. t \in Text
  BY ToSetIs
<1>2. t \in Seq(Nat)
  BY <1>1, TextIs
<1>3. Dictionary(ix.terms)
  BY DEF Readable
<1> DEFINE d == ix.terms
<1>4. Dictionary(d)
  BY <1>3
<1> HIDE DEF d
<1>5. ExpandPrefix(d, t) = {i \in DOMAIN d : BeginsWith(d[i], t)}
  BY <1>2, <1>4, ExpandPrefixIs
<1>6. CASE t = tokens[Len(tokens)]
  BY <1>5, <1>6 DEF Expansion, d
<1>7. CASE t # tokens[Len(tokens)]
  BY <1>7 DEF Expansion
<1> QED BY <1>6, <1>7

\* The best of an expansion is a number, and something when a term of it is in the section.
LEMMA BestIs ==
  ASSUME NEW ix, Readable(ix), NEW expansion \in SUBSET DOMAIN ix.terms, NEW id
  PROVE  /\ Best(ix, expansion, id) \in Nat
         /\ Best(ix, expansion, id) > 0 <=> \E i \in expansion : id \in Holding(ix, i)
         /\ \A i \in expansion : Best(ix, expansion, id) >= Evidence(ix, i, id)
         /\ Best(ix, expansion, id) \in {0} \cup {Evidence(ix, i, id) : i \in expansion}
<1> DEFINE E(i) == Evidence(ix, i, id)
           T == {E(i) : i \in expansion}
           e == [i \in expansion |-> E(i)]
           S == {0} \cup T
<1>1. \A i \in expansion : E(i) \in Nat /\ (E(i) > 0 <=> id \in Holding(ix, i))
  BY EvidenceIs
<1>b. Best(ix, expansion, id) = Max(S)
  BY DEF Best
<1> HIDE DEF E
<1>2. IsFiniteSet(expansion)
  <2>1. DOMAIN ix.terms = 1..Len(ix.terms) /\ Len(ix.terms) \in Nat
    BY DEF Readable
  <2>2. IsFiniteSet(DOMAIN ix.terms)
    BY <2>1, FS_Interval
  <2> QED BY <2>2, FS_Subset
<1>3. e \in Surjection(expansion, T)
  BY DEF Surjection
<1>4. T \in SUBSET Nat
  BY <1>1
<1> HIDE DEF e, T
<1>5. IsFiniteSet(T)
  BY <1>2, <1>3, FS_Surjection
<1>6. IsFiniteSet(S) /\ S \in SUBSET Nat /\ S # {}
  <2>1. IsFiniteSet(T \cup {0})
    BY <1>5, FS_AddElement
  <2>2. T \cup {0} = S
    OBVIOUS
  <2> QED BY <1>4, <2>1, <2>2
<1>7. Max(S) \in S /\ \A y \in S : Max(S) >= y
  <2> HIDE DEF S
  <2> QED BY <1>6, MaxIs
<1> DEFINE m == Max(S)
<1>8. m \in {0} \cup T /\ \A y \in T : m >= y
  BY <1>7
<1> HIDE DEF m, S
<1>9. m \in Nat /\ (m > 0 <=> \E i \in expansion : id \in Holding(ix, i)) /\ \A i \in expansion : m >= E(i)
  <2>1. \A i \in expansion : m >= E(i)
    BY <1>8 DEF T
  <2>2. m \in Nat
    BY <1>4, <1>8
  <2>3. ASSUME m > 0 PROVE \E i \in expansion : id \in Holding(ix, i)
    <3>1. PICK i \in expansion : m = E(i)
      BY <1>8, <2>3 DEF T
    <3> QED BY <3>1, <1>1, <2>3
  <2>4. ASSUME NEW i \in expansion, id \in Holding(ix, i) PROVE m > 0
    <3>1. E(i) \in Nat /\ E(i) > 0 /\ m >= E(i)
      BY <1>1, <2>1, <2>4
    <3> QED BY <3>1, <2>2
  <2> QED BY <2>1, <2>2, <2>3, <2>4
<1>10. Best(ix, expansion, id) = m
  BY <1>b DEF m
<1>11. \A i \in expansion : m >= Evidence(ix, i, id)
  BY <1>9 DEF E
<1>12. m \in {0} \cup {Evidence(ix, i, id) : i \in expansion}
  BY <1>8 DEF T, E
<1> QED BY <1>9, <1>10, <1>11, <1>12, Zenon

\* What the tokens of a query are worth to a section, each where it first stands.
Value(ix, tokens, id, k) ==
  IF \E j \in 1..(k - 1) : tokens[j] = tokens[k] THEN 0 ELSE Best(ix, Expansion(ix, tokens, tokens[k]), id)

\* A section's score is a number, and something when it matches.
LEMMA ScoreIs ==
  ASSUME NEW ix, Readable(ix), NEW tokens \in Seq(Text), NEW id
  PROVE  /\ Score(ix, tokens, id) \in Nat
         /\ Matched(ix, tokens, id) # {} => Score(ix, tokens, id) > 0
<1> DEFINE M == Matched(ix, tokens, id)
           V(k) == Value(ix, tokens, id, k)
           seq == [k \in DOMAIN tokens |-> V(k)]
           B(t) == Best(ix, Expansion(ix, tokens, t), id)
<1>1. Len(tokens) \in Nat /\ DOMAIN tokens = 1..Len(tokens)
  OBVIOUS
<1>2. \A t \in ToSet(tokens) : B(t) \in Nat /\ (B(t) > 0 <=> t \in M)
  <2> SUFFICES ASSUME NEW t \in ToSet(tokens) PROVE B(t) \in Nat /\ (B(t) > 0 <=> t \in M)
    OBVIOUS
  <2>1. Expansion(ix, tokens, t) \in SUBSET DOMAIN ix.terms
    BY ExpansionIs
  <2> DEFINE x == Expansion(ix, tokens, t)
  <2>2. x \in SUBSET DOMAIN ix.terms
    BY <2>1
  <2>3. t \in M <=> \E i \in x : id \in Holding(ix, i)
    BY DEF Matched
  <2> HIDE DEF x, M
  <2>4. Best(ix, x, id) \in Nat /\ (Best(ix, x, id) > 0 <=> \E i \in x : id \in Holding(ix, i))
    BY <2>2, BestIs
  <2> QED BY <2>3, <2>4 DEF x
<1>3. IsFiniteSet(M) /\ Cardinality(M) \in Nat
  <2>1. M \in SUBSET ToSet(tokens)
    BY DEF Matched
  <2>2. IsFiniteSet(ToSet(tokens))
    BY ToSetIs
  <2> QED BY <2>1, <2>2, FS_Subset, FS_CardinalityType
<1>s. Score(ix, tokens, id) = Cardinality(M) * Sum(seq)
  BY DEF Score, Value
<1>t. \A k \in 1..Len(tokens) : tokens[k] \in ToSet(tokens)
  BY <1>1 DEF ToSet
<1>4. \A k \in 1..Len(tokens) : V(k) = IF \E j \in 1..(k - 1) : tokens[j] = tokens[k] THEN 0 ELSE B(tokens[k])
  BY DEF Value
<1>m. M \in SUBSET ToSet(tokens)
  BY DEF Matched
<1> HIDE DEF M, V, B
<1>5. \A k \in 1..Len(tokens) : V(k) \in Nat
  BY <1>2, <1>4, <1>t
<1>6. seq \in Seq(Nat) /\ Len(seq) = Len(tokens) /\ \A k \in 1..Len(tokens) : seq[k] = V(k)
  BY <1>1, <1>5
<1> HIDE DEF seq
<1>7. \A k \in 0..Len(seq) : Sums(seq)[k] \in Nat
  BY <1>6, SumsNat
<1>8. Sum(seq) \in Nat
  <2>1. Len(seq) \in 0..Len(seq)
    BY <1>1, <1>6
  <2> QED BY <2>1, <1>7 DEF Sum
<1>9. ASSUME NEW t \in M PROVE Sum(seq) > 0 /\ Cardinality(M) > 0
  <2>1. t \in ToSet(tokens)
    BY <1>m
  <2> DEFINE K == {k \in 1..Len(tokens) : tokens[k] = t}
  <2>2. K \in SUBSET Nat /\ K # {}
    BY <2>1, <1>1 DEF ToSet
  <2>3. PICK k \in K : \A j \in K : k <= j
    <3> HIDE DEF K
    <3> QED BY <2>2, Least
  <2>4. ~ \E j \in 1..(k - 1) : tokens[j] = tokens[k]
    <3> SUFFICES ASSUME NEW j \in 1..(k - 1), tokens[j] = tokens[k] PROVE FALSE
      OBVIOUS
    <3>1. j \in K /\ j < k
      BY <1>1, <2>3
    <3> QED BY <3>1, <2>3
  <2>5. k \in 1..Len(seq) /\ seq[k] = B(t)
    BY <1>4, <1>6, <2>3, <2>4
  <2>6. B(t) \in Nat /\ B(t) > 0
    BY <1>2, <2>1
  <2>7. Sums(seq)[k - 1] + seq[k] <= Sum(seq)
    BY <1>6, <2>5, SumsNat
  <2>8. Sums(seq)[k - 1] \in Nat
    <3>1. k - 1 \in 0..Len(seq)
      BY <2>5, <1>1, <1>6
    <3> QED BY <3>1, <1>7
  <2>9. Sum(seq) > 0
    BY <1>8, <2>5, <2>6, <2>7, <2>8
  <2>10. Cardinality(M) # 0
    BY <1>3, FS_EmptySet
  <2> QED BY <1>3, <2>9, <2>10
<1> DEFINE c == Cardinality(M)
           v == Sum(seq)
<1>10. c \in Nat /\ v \in Nat /\ (M # {} => c > 0 /\ v > 0)
  BY <1>3, <1>8, <1>9
<1> HIDE DEF c, v
<1>11. c * v \in Nat /\ (M # {} => c * v > 0)
  BY <1>10
<1> QED BY <1>11, <1>s DEF c, v, M
-----------------------------------------------------------------------------
(* Hits.                                                                   *)

\* Hits with a score and an address, no two with the same.
Ranks(H) ==
  /\ \A h \in H : h.score \in Int /\ h.doc.slug \in Seq(Nat) /\ h.doc.anchor \in Seq(Nat)
  /\ \A g, h \in H : g # h => g.doc.slug # h.doc.slug \/ g.doc.anchor # h.doc.anchor

Ranking(H) == {p \in H \X H : Before(p[1], p[2])}

\* byScoreThenIdentity is a strict total order of hits.
LEMMA RankingOrders ==
  ASSUME NEW H, Ranks(H)
  PROVE  Orders(Ranking(H), H)
<1>1. ASSUME NEW a \in H PROVE ~Before(a, a)
  <2>1. a.score \in Int /\ ~Less(a.doc.slug, a.doc.slug) /\ ~Less(a.doc.anchor, a.doc.anchor)
    BY LessIrreflexive DEF Ranks
  <2> QED BY <2>1 DEF Before
<1>2. ASSUME NEW a \in H, NEW b \in H, NEW c \in H, Before(a, b), Before(b, c) PROVE Before(a, c)
  <2>1. a.score \in Int /\ b.score \in Int /\ c.score \in Int
    BY DEF Ranks
  <2>2. Less(a.doc.slug, b.doc.slug) /\ Less(b.doc.slug, c.doc.slug) => Less(a.doc.slug, c.doc.slug)
    BY LessTransitive DEF Ranks
  <2>3. Less(a.doc.anchor, b.doc.anchor) /\ Less(b.doc.anchor, c.doc.anchor) => Less(a.doc.anchor, c.doc.anchor)
    BY LessTransitive DEF Ranks
  <2> DEFINE sa == a.score
             sb == b.score
             sc == c.score
             ga == a.doc.slug
             gb == b.doc.slug
             gc == c.doc.slug
             na == a.doc.anchor
             nb == b.doc.anchor
             nc == c.doc.anchor
  <2>4. sa > sb \/ (sa = sb /\ Less(ga, gb)) \/ (sa = sb /\ ga = gb /\ Less(na, nb))
    <3>1. Before(a, b)
      BY <1>2
    <3> QED BY <3>1 DEF Before
  <2>5. sb > sc \/ (sb = sc /\ Less(gb, gc)) \/ (sb = sc /\ gb = gc /\ Less(nb, nc))
    <3>1. Before(b, c)
      BY <1>2
    <3> QED BY <3>1 DEF Before
  <2>6. sa \in Int /\ sb \in Int /\ sc \in Int
    BY <2>1
  <2>7. (Less(ga, gb) /\ Less(gb, gc) => Less(ga, gc)) /\ (Less(na, nb) /\ Less(nb, nc) => Less(na, nc))
    BY <2>2, <2>3
  <2> SUFFICES sa > sc \/ (sa = sc /\ Less(ga, gc)) \/ (sa = sc /\ ga = gc /\ Less(na, nc))
    BY DEF Before
  <2> HIDE DEF sa, sb, sc, ga, gb, gc, na, nb, nc
  <2> QED BY <2>4, <2>5, <2>6, <2>7
<1>3. ASSUME NEW a \in H, NEW b \in H, a # b PROVE Before(a, b) \/ Before(b, a)
  <2>1. a.score \in Int /\ b.score \in Int
    BY DEF Ranks
  <2>2. a.doc.slug = b.doc.slug \/ Less(a.doc.slug, b.doc.slug) \/ Less(b.doc.slug, a.doc.slug)
    BY LessTotal DEF Ranks
  <2>3. a.doc.anchor = b.doc.anchor \/ Less(a.doc.anchor, b.doc.anchor) \/ Less(b.doc.anchor, a.doc.anchor)
    BY LessTotal DEF Ranks
  <2>4. a.doc.slug # b.doc.slug \/ a.doc.anchor # b.doc.anchor
    BY <1>3 DEF Ranks
  <2> DEFINE sa == a.score
             sb == b.score
  <2>5. sa > sb \/ sb > sa \/ sa = sb
    <3>1. sa \in Int /\ sb \in Int
      BY <2>1
    <3> HIDE DEF sa, sb
    <3> QED BY <3>1
  <2> QED BY <2>2, <2>3, <2>4, <2>5 DEF Before
<1> QED BY <1>1, <1>2, <1>3 DEF Orders, Ranking

\* Hits sorted are in order.
LEMMA SortedHits ==
  ASSUME NEW S, IsFiniteSet(S), Ranks(S)
  PROVE  Ordered(Sorted(S, Before), S, Ranking(S))
<1> DEFINE R == Ranking(S)
           q == Sorted(S, Before)
<1>1. Orders(R, S)
  BY RankingOrders
<1>2. ASSUME NEW x \in S PROVE {y \in S : Before(y, x)} = Below(R, S, x)
  BY DEF Below, Ranking
<1>3. \A i \in 1..Cardinality(S) : \E x \in S : Cardinality(Below(R, S, x)) = i - 1
  BY <1>1, RankTaken
<1> HIDE DEF R
<1>4. ASSUME NEW i \in 1..Cardinality(S)
      PROVE  q[i] \in S /\ Cardinality(Below(R, S, q[i])) = i - 1
  <2>1. q[i] = CHOOSE x \in S : Cardinality({y \in S : Before(y, x)}) = i - 1
    BY DEF Sorted
  <2>2. \E x \in S : Cardinality({y \in S : Before(y, x)}) = i - 1
    <3>1. PICK x \in S : Cardinality(Below(R, S, x)) = i - 1
      BY <1>3
    <3>2. {y \in S : Before(y, x)} = Below(R, S, x)
      BY <1>2
    <3> QED BY <3>1, <3>2, Zenon
  <2> HIDE DEF q
  <2>3. q[i] \in S /\ Cardinality({y \in S : Before(y, q[i])}) = i - 1
    BY <2>1, <2>2, Zenon
  <2> QED BY <2>3, <1>2
<1>5. q \in [1..Cardinality(S) -> S]
  BY <1>4 DEF Sorted
<1> HIDE DEF q
<1>6. Ordered(q, S, R)
  BY <1>1, <1>4, <1>5, RankedIsOrdered, Zenon
<1> QED BY <1>6 DEF q, R

\* The hits of a query.
Hits(ix, tokens, wanted) == {Hit(ix, tokens, id) : id \in Seen(ix, tokens, wanted)}

\* A query answers with the hits, each once, in order.
LEMMA SearchIs ==
  ASSUME NEW ix, Readable(ix), NEW text \in Text, NEW wanted
  PROVE  LET hits == SearchIndex(ix, text, wanted)
             H == Hits(ix, Tokenise(text), wanted)
         IN  /\ Ranks(H) /\ IsFiniteSet(H)
             /\ hits \in Seq(H) /\ ToSet(hits) = H
             /\ \A a, b \in DOMAIN hits : a < b => Before(hits[a], hits[b])
             /\ Tokenise(text) # <<>> => Ordered(hits, H, Ranking(H))
<1> DEFINE tokens == Tokenise(text)
           H == Hits(ix, tokens, wanted)
           I == Seen(ix, tokens, wanted)
           hits == SearchIndex(ix, text, wanted)
           e == [id \in I |-> Hit(ix, tokens, id)]
<1>t. tokens \in Seq(Text)
  BY TokeniseType
<1>0. hits = IF tokens = <<>> \/ ix.n = 0 THEN <<>> ELSE Sorted(H, Before)
  BY DEF SearchIndex, Hits
<1> HIDE DEF tokens, hits
<1>n. ix.n \in Nat
  BY DEF Readable
<1>1. I \in SUBSET (0..ix.n - 1) /\ IsFiniteSet(I)
  <2>1. I \in SUBSET (0..ix.n - 1)
    BY DEF Seen
  <2>2. 0 \in Int /\ ix.n - 1 \in Int
    BY <1>n
  <2>3. IsFiniteSet(0..ix.n - 1)
    BY <2>2, FS_Interval
  <2> HIDE DEF I
  <2> QED BY <2>1, <2>3, FS_Subset
<1>2. IsFiniteSet(H)
  <2>1. H = {e[id] : id \in I}
    BY DEF Hits
  <2>2. e \in [I -> H]
    BY DEF Hits
  <2> HIDE DEF e, H, I
  <2>3. e \in Surjection(I, H)
    BY <2>1, <2>2 DEF Surjection
  <2> QED BY <2>3, <1>1, FS_Surjection
<1>3. Ranks(H)
  <2>1. ASSUME NEW h \in H
        PROVE  /\ h.score \in Int /\ h.doc.slug \in Seq(Nat) /\ h.doc.anchor \in Seq(Nat)
               /\ h.id \in 0..ix.n - 1 /\ h = Hit(ix, tokens, h.id) /\ h.doc = ix.docs[h.id + 1]
    <3>1. PICK id \in I : h = Hit(ix, tokens, id)
      BY DEF Hits
    <3>2. h.id = id /\ h.doc = ix.docs[id + 1] /\ h.score = Score(ix, tokens, id)
      BY <3>1 DEF Hit
    <3>3. Score(ix, tokens, id) \in Nat
      BY <1>t, ScoreIs
    <3> HIDE DEF I
    <3>4. id + 1 \in 1..ix.n
      BY <1>1, <1>n
    <3>5. ix.docs[id + 1].slug \in Text /\ ix.docs[id + 1].anchor \in Text
      BY <3>4 DEF Readable
    <3>6. ix.docs[id + 1].slug \in Seq(Nat) /\ ix.docs[id + 1].anchor \in Seq(Nat)
      BY <3>5, TextIs
    <3> QED BY <1>1, <3>1, <3>2, <3>3, <3>6
  <2>2. ASSUME NEW g \in H, NEW h \in H, g # h
        PROVE  g.doc.slug # h.doc.slug \/ g.doc.anchor # h.doc.anchor
    <3>1. g.id # h.id
      BY <2>1, <2>2
    <3>2. g.id + 1 \in 1..ix.n /\ h.id + 1 \in 1..ix.n /\ g.id + 1 # h.id + 1
      BY <2>1, <3>1, <1>n
    <3>3. \/ ix.docs[g.id + 1].slug # ix.docs[h.id + 1].slug
          \/ ix.docs[g.id + 1].anchor # ix.docs[h.id + 1].anchor
      BY <3>2 DEF Readable
    <3> QED BY <2>1, <3>3
  <2> HIDE DEF H
  <2> QED BY <2>1, <2>2 DEF Ranks
<1>4. Ordered(Sorted(H, Before), H, Ranking(H))
  <2> HIDE DEF H
  <2> QED BY <1>2, <1>3, SortedHits
<1>5. tokens = <<>> => H = {}
  <2>1. \A id : Matched(ix, <<>>, id) = {}
    BY DEF Matched, ToSet
  <2> QED BY <2>1 DEF Hits, Seen
<1>6. ix.n = 0 => H = {}
  BY <1>1 DEF Hits
<1> HIDE DEF H, I, e
<1>7. CASE tokens = <<>> \/ ix.n = 0
  <2>1. H = {} /\ hits = <<>>
    BY <1>5, <1>6, <1>7, <1>0
  <2>2. hits \in Seq(H) /\ ToSet(hits) = H /\ DOMAIN hits = {}
    BY <2>1 DEF ToSet
  <2>3. Ordered(hits, H, Ranking(H))
    <3>1. Cardinality({}) = 0 /\ Len(<<>>) = 0
      BY FS_EmptySet
    <3> QED BY <2>1, <2>2, <3>1 DEF Ordered
  <2>4. \A a, b \in DOMAIN hits : a < b => Before(hits[a], hits[b])
    BY <2>2
  <2> QED BY <1>2, <1>3, <2>2, <2>3, <2>4 DEF hits, H, tokens
<1>8. CASE tokens # <<>> /\ ix.n # 0
  <2>1. Ordered(hits, H, Ranking(H))
    BY <1>0, <1>4, <1>8
  <2>2. hits \in Seq(H) /\ ToSet(hits) = H
    BY <2>1 DEF Ordered
  <2>3. \A a, b \in DOMAIN hits : a < b => Before(hits[a], hits[b])
    <3>1. DOMAIN hits = 1..Len(hits)
      BY <2>2
    <3>2. \A a, b \in 1..Len(hits) : a < b => <<hits[a], hits[b]>> \in Ranking(H)
      BY <2>1 DEF Ordered
    <3>3. \A x, y : <<x, y>> \in Ranking(H) => Before(x, y)
      BY DEF Ranking
    <3> QED BY <3>1, <3>2, <3>3, Zenon
  <2> QED BY <1>2, <1>3, <2>1, <2>2, <2>3 DEF hits, H, tokens
<1> QED BY <1>7, <1>8
-----------------------------------------------------------------------------
(* A built index.                                                          *)

\* The postings of a term name the sections that have it, with an occurrence at least.
LEMMA PostingsHave ==
  ASSUME NEW words \in Seq(Seq(Text)), NEW dictionary \in Seq(Text), NEW i \in DOMAIN dictionary
  PROVE  LET postings == Postings(Encode(dictionary, words), i)
         IN  /\ postings \in Seq(Occurrences(Len(words)))
             /\ {q.id : q \in ToSet(postings)} = Has(words, dictionary[i])
             /\ \A q \in ToSet(postings) : q.tf = Gathered(words, dictionary[i])[q.id]
             /\ \A j, k \in DOMAIN postings : j < k => postings[j].id < postings[k].id
<1> DEFINE tf == Gathered(words, dictionary[i])
           ids == Sorted(DOMAIN tf, <)
           postings == Postings(Encode(dictionary, words), i)
<1>1. DOMAIN tf = Has(words, dictionary[i]) /\ Counts(tf)
  BY GatheredIs
<1>2. ids \in Seq(DOMAIN tf) /\ postings = [k \in 1..Len(ids) |-> [id |-> ids[k], tf |-> tf[ids[k]]]]
  BY PostingsIs
<1> DEFINE S == DOMAIN tf
<1>3. S \in SUBSET Nat /\ IsFiniteSet(S) /\ tf \in [S -> Nat \ {0}]
  BY <1>1 DEF Counts
<1>4. Ordered(Sorted(S, <), S, Numbers(S))
  <2>1. S \in SUBSET Int
    BY <1>3
  <2> HIDE DEF S
  <2> QED BY <2>1, <1>3, SortedNumbers
<1>5. Ordered(ids, S, Numbers(S))
  BY <1>4
<1>6. S \in SUBSET (0..Len(words) - 1)
  BY <1>1 DEF Has
<1>7. S = Has(words, dictionary[i])
  BY <1>1
<1> HIDE DEF postings, ids, tf, S
<1>8. ids \in Seq(S) /\ ToSet(ids) = S /\ \A j, k \in 1..Len(ids) : j < k => <<ids[j], ids[k]>> \in Numbers(S)
  BY <1>5 DEF Ordered
<1>9. Len(ids) \in Nat /\ DOMAIN ids = 1..Len(ids) /\ \A k \in 1..Len(ids) : ids[k] \in S
  BY <1>8
<1>10. ASSUME NEW k \in 1..Len(ids)
       PROVE  postings[k] = [id |-> ids[k], tf |-> tf[ids[k]]] /\ postings[k] \in Occurrences(Len(words))
  <2>1. ids[k] \in 0..Len(words) - 1 /\ tf[ids[k]] \in Positive
    BY <1>3, <1>6, <1>9 DEF Positive
  <2> QED BY <1>2, <2>1 DEF Occurrences
<1>17. ASSUME NEW k \in 1..Len(ids) PROVE postings[k].id = ids[k]
  <2>1. postings[k] = [id |-> ids[k], tf |-> tf[ids[k]]]
    BY <1>10
  <2> QED BY <2>1
<1>11. postings \in [1..Len(ids) -> Occurrences(Len(words))]
  BY <1>2, <1>10
<1>12. postings \in Seq(Occurrences(Len(words))) /\ Len(postings) = Len(ids) /\ DOMAIN postings = 1..Len(ids)
  BY <1>9, <1>11
<1>13. ASSUME NEW q \in ToSet(postings)
       PROVE  q.id \in S /\ q.tf = tf[q.id]
  <2>1. PICK k \in 1..Len(ids) : q = postings[k]
    BY <1>12 DEF ToSet
  <2>2. q = [id |-> ids[k], tf |-> tf[ids[k]]]
    BY <1>10, <2>1
  <2>3. q.id = ids[k] /\ q.tf = tf[ids[k]]
    BY <2>2
  <2> QED BY <2>3, <1>9
<1>14. ASSUME NEW x \in S
       PROVE  \E q \in ToSet(postings) : q.id = x
  <2>1. PICK k \in 1..Len(ids) : x = ids[k]
    BY <1>8, <1>9 DEF ToSet
  <2>2. postings[k].id = x
    BY <1>17, <2>1
  <2>3. postings[k] \in ToSet(postings)
    BY <1>12 DEF ToSet
  <2> QED BY <2>2, <2>3
<1>15. ASSUME NEW j \in 1..Len(ids), NEW k \in 1..Len(ids), j < k
       PROVE  postings[j].id < postings[k].id
  <2>1. <<ids[j], ids[k]>> \in Numbers(S)
    BY <1>8, <1>15
  <2>2. ids[j] < ids[k]
    BY <2>1 DEF Numbers
  <2>3. postings[j].id = ids[j] /\ postings[k].id = ids[k]
    BY <1>17
  <2> QED BY <2>2, <2>3
<1>16. {q.id : q \in ToSet(postings)} = S
  BY <1>13, <1>14
<1> QED BY <1>7, <1>12, <1>13, <1>15, <1>16 DEF postings, tf

\* The sections that have a term in any field, by document id.
Holders(ps, t) ==
  {id \in 0..Len(Sections(ps)) - 1 : \E f \in Fields : t \in ToSet(Words(Sections(ps))[f][id + 1])}

\* The sections `add` gathers for a term, all fields together.
AllGathered(ps, t) == UNION {DOMAIN Gathered(Words(Sections(ps))[f], t) : f \in Fields}

\* The parts of a built index.
LEMMA BuildHas ==
  ASSUME NEW ps
  PROVE  /\ Build(ps).n = Len(Sections(ps))
         /\ Build(ps).terms = Sorted(Vocabulary(ps), Less)
         /\ Build(ps).docs = [d \in DOMAIN Sections(ps) |-> Sections(ps)[d].doc]
         /\ \A f \in Fields :
              /\ Build(ps).f[f] = Encode(Build(ps).terms, Words(Sections(ps))[f])
              /\ Build(ps).len[f] = [d \in DOMAIN Sections(ps) |-> Len(Words(Sections(ps))[f][d])]
              /\ Build(ps).totalLen[f] = Sum(Build(ps).len[f])
         /\ \A i \in DOMAIN Build(ps).terms :
              Build(ps).df[i] = Cardinality(AllGathered(ps, Build(ps).terms[i]))
<1> DEFINE V == UNION {ToSet(Words(Sections(ps))[f][d]) : f \in Fields, d \in DOMAIN Sections(ps)}
<1>1. Vocabulary(ps) = V
  BY DEF Vocabulary
<1> QED BY <1>1 DEF Build, AllGathered

\* The dictionary of a built index: its vocabulary, each word once, in order.
LEMMA DictionaryIs ==
  ASSUME NEW ps, IsCorpus(ps)
  PROVE  /\ Build(ps).terms \in Seq(Text) /\ Dictionary(Build(ps).terms)
         /\ ToSet(Build(ps).terms) = Vocabulary(ps)
<1> DEFINE V == Vocabulary(ps)
           d == Sorted(V, Less)
<1>1. IsFiniteSet(V) /\ V \in SUBSET Text
  BY VocabularyIs
<1>2. Ordered(d, V, Alphabet(V))
  <2>1. V \in SUBSET Seq(Nat)
    BY <1>1, TextIs
  <2> HIDE DEF V
  <2> QED BY <2>1, <1>1, SortedTexts
<1>3. Build(ps).terms = d
  BY BuildHas
<1> HIDE DEF d, V
<1>4. d \in Seq(V) /\ ToSet(d) = V /\ \A i, j \in 1..Len(d) : i < j => <<d[i], d[j]>> \in Alphabet(V)
  BY <1>2 DEF Ordered
<1>5. d \in Seq(Text)
  BY <1>1, <1>4
<1>6. d \in Seq(Seq(Nat))
  BY <1>5, TextIs
<1>7. ASSUME NEW i \in 1..Len(d), NEW j \in 1..Len(d), i < j PROVE Less(d[i], d[j])
  <2>1. <<d[i], d[j]>> \in Alphabet(V)
    BY <1>4, <1>7
  <2> QED BY <2>1 DEF Alphabet
<1> QED BY <1>3, <1>4, <1>5, <1>6, <1>7 DEF Dictionary, V

\* A term of a built index is held by the sections whose text has it.
LEMMA HoldingIs ==
  ASSUME NEW ps, IsCorpus(ps), NEW i \in DOMAIN Build(ps).terms
  PROVE  /\ Holding(Build(ps), i) = Holders(ps, Build(ps).terms[i])
         /\ Build(ps).df[i] = Cardinality(Holders(ps, Build(ps).terms[i]))
<1> DEFINE t == Build(ps).terms[i]
           W == Words(Sections(ps))
<1>1. Build(ps).terms \in Seq(Text)
  BY DictionaryIs
<1>2. ASSUME NEW f \in Fields
      PROVE  /\ {q.id : q \in ToSet(Postings(Build(ps).f[f], i))} = Has(W[f], t)
             /\ DOMAIN Gathered(W[f], t) = Has(W[f], t)
             /\ Len(W[f]) = Len(Sections(ps))
  <2>1. W[f] \in Seq(Seq(Text)) /\ Len(W[f]) = Len(Sections(ps))
    BY WordsIs
  <2>2. Build(ps).f[f] = Encode(Build(ps).terms, W[f])
    BY BuildHas
  <2> HIDE DEF W
  <2>3. {q.id : q \in ToSet(Postings(Encode(Build(ps).terms, W[f]), i))} = Has(W[f], t)
    BY <1>1, <2>1, PostingsHave
  <2>4. DOMAIN Gathered(W[f], t) = Has(W[f], t)
    BY <2>1, GatheredIs
  <2> QED BY <2>1, <2>2, <2>3, <2>4
<1>3. UNION {Has(W[f], t) : f \in Fields} = Holders(ps, t)
  <2> HIDE DEF t
  <2>1. ASSUME NEW f \in Fields
        PROVE  Has(W[f], t) = {k \in 0..Len(Sections(ps)) - 1 : t \in ToSet(W[f][k + 1])}
    BY <1>2 DEF Has
  <2> HIDE DEF W
  <2>2. UNION {Has(W[f], t) : f \in Fields} = {k \in 0..Len(Sections(ps)) - 1 : \E f \in Fields : t \in ToSet(W[f][k + 1])}
    BY <2>1
  <2> QED BY <2>2 DEF Holders, W
<1>4. Holding(Build(ps), i) = UNION {Has(W[f], t) : f \in Fields}
  <2>1. Holding(Build(ps), i) = UNION {{q.id : q \in ToSet(Postings(Build(ps).f[f], i))} : f \in Fields}
    BY DEF Holding
  <2> HIDE DEF W, t
  <2> QED BY <1>2, <2>1
<1>5. Build(ps).df[i] = Cardinality(AllGathered(ps, t))
  BY BuildHas
<1>6. AllGathered(ps, t) = UNION {Has(W[f], t) : f \in Fields}
  <2>1. AllGathered(ps, t) = UNION {DOMAIN Gathered(W[f], t) : f \in Fields}
    BY DEF AllGathered
  <2> HIDE DEF W, t
  <2> QED BY <1>2, <2>1
<1> QED BY <1>3, <1>4, <1>5, <1>6

\* A word of the vocabulary is held by one section at least and by no more than there are.
LEMMA HoldersAre ==
  ASSUME NEW ps, IsCorpus(ps), NEW t \in Vocabulary(ps)
  PROVE  Cardinality(Holders(ps, t)) \in 1..Len(Sections(ps))
<1> DEFINE n == Len(Sections(ps))
           W == Words(Sections(ps))
           H == Holders(ps, t)
           I == 0..n - 1
<1>1. n \in Nat /\ DOMAIN Sections(ps) = 1..n
  BY WordsIs, FieldsAre
<1>2. PICK f \in Fields : \E d \in 1..n : t \in ToSet(W[f][d])
  BY <1>1 DEF Vocabulary
<1>3. PICK d \in 1..n : t \in ToSet(W[f][d])
  BY <1>2
<1>4. H = {id \in I : \E g \in Fields : t \in ToSet(W[g][id + 1])}
  BY DEF Holders
<1> HIDE DEF W, H, n
<1>5. d - 1 \in H
  <2>1. d - 1 \in I /\ (d - 1) + 1 = d
    BY <1>1
  <2> QED BY <2>1, <1>3, <1>4
<1>6. H \in SUBSET I
  BY <1>4
<1>7. IsFiniteSet(I) /\ Cardinality(I) = n
  <2>1. 0 \in Int /\ n - 1 \in Int
    BY <1>1
  <2>2. IsFiniteSet(I) /\ Cardinality(I) = IF 0 > n - 1 THEN 0 ELSE n - 1 - 0 + 1
    BY <2>1, FS_Interval
  <2> QED BY <2>2, <1>1
<1> HIDE DEF I
<1>8. IsFiniteSet(H) /\ Cardinality(H) <= n
  BY <1>6, <1>7, FS_Subset
<1>9. Cardinality(H) \in Nat /\ Cardinality(H) # 0
  BY <1>5, <1>8, FS_CardinalityType, FS_EmptySet
<1> QED BY <1>1, <1>8, <1>9 DEF n, H

\* A built index can be read.
LEMMA IndexReadable ==
  ASSUME NEW ps, IsCorpus(ps), \A df \in 1..Len(Sections(ps)) : Idf(Len(Sections(ps)), df) \in Positive
  PROVE  Readable(Build(ps))
<1> DEFINE ix == Build(ps)
           n == Len(Sections(ps))
           W == Words(Sections(ps))
<1>1. IsCorpus(ps) /\ \A df \in 1..n : Idf(n, df) \in Positive
  OBVIOUS
<1>2. n \in Nat /\ DOMAIN Sections(ps) = 1..n
  BY <1>1, WordsIs, FieldsAre
<1>3. ix.n = n /\ ix.docs = [d \in 1..n |-> Sections(ps)[d].doc]
  BY <1>2, BuildHas
<1>4. ix.terms \in Seq(Text) /\ Dictionary(ix.terms) /\ ToSet(ix.terms) = Vocabulary(ps)
  BY <1>1, DictionaryIs
<1>5. ASSUME NEW d \in 1..n
      PROVE  ix.docs[d] = Sections(ps)[d].doc /\ ix.docs[d].slug \in Text /\ ix.docs[d].anchor \in Text
  <2>1. Sections(ps)[d] \in SectionsIn(AudiencesOf(ps))
    BY <1>1, <1>2, SectionsType
  <2>2. Sections(ps)[d].doc.slug \in Text /\ Sections(ps)[d].doc.anchor \in Text
    BY <2>1 DEF SectionsIn
  <2> QED BY <1>3, <2>2
<1>6. ASSUME NEW d \in 1..n, NEW e \in 1..n, d # e
      PROVE  ix.docs[d].slug # ix.docs[e].slug \/ ix.docs[d].anchor # ix.docs[e].anchor
  <2>1. Sections(ps)[d].doc.slug # Sections(ps)[e].doc.slug
        \/ Sections(ps)[d].doc.anchor # Sections(ps)[e].doc.anchor
    BY <1>1, <1>2, <1>6 DEF IsCorpus
  <2> QED BY <1>5, <2>1
<1>7. ASSUME NEW f \in Fields
      PROVE  ix.totalLen[f] \in Nat /\ \A d \in 1..n : ix.len[f][d] \in Nat
  <2> DEFINE len == ix.len[f]
  <2>1. len = [d \in 1..n |-> Len(W[f][d])] /\ ix.totalLen[f] = Sum(len)
    <3>1. len = [d \in DOMAIN Sections(ps) |-> Len(W[f][d])] /\ ix.totalLen[f] = Sum(len)
      BY BuildHas, Zenon
    <3> QED BY <1>2, <3>1, Zenon
  <2>2. W[f] \in Seq(Seq(Text)) /\ Len(W[f]) = n
    BY <1>1, WordsIs
  <2> HIDE DEF W, len, n
  <2>3. ASSUME NEW d \in 1..n PROVE Len(W[f][d]) \in Nat
    <3>1. W[f][d] \in Seq(Text)
      BY <2>2
    <3> QED BY <3>1
  <2>4. len \in Seq(Nat) /\ Len(len) = n /\ \A d \in 1..n : len[d] \in Nat
    BY <1>2, <2>1, <2>3
  <2>5. Sums(len)[Len(len)] \in Nat
    <3>1. Len(len) \in 0..Len(len)
      BY <1>2, <2>4
    <3> QED BY <3>1, <2>4, SumsNat
  <2> QED BY <2>1, <2>4, <2>5 DEF Sum, len
<1>8. ASSUME NEW i \in DOMAIN ix.terms PROVE Idf(ix.n, ix.df[i]) \in Positive
  <2>1. ix.terms[i] \in Vocabulary(ps)
    BY <1>4 DEF ToSet
  <2>2. ix.df[i] \in 1..n
    BY <1>1, <2>1, HoldingIs, HoldersAre
  <2> QED BY <1>1, <1>3, <2>2
<1>9. ASSUME NEW f \in Fields, NEW i \in DOMAIN ix.terms
      PROVE  Postings(ix.f[f], i) \in Seq(Occurrences(ix.n))
  <2>1. W[f] \in Seq(Seq(Text)) /\ Len(W[f]) = n
    BY <1>1, WordsIs
  <2>2. ix.f[f] = Encode(ix.terms, W[f])
    BY BuildHas
  <2> HIDE DEF W, ix, n
  <2>3. Postings(Encode(ix.terms, W[f]), i) \in Seq(Occurrences(Len(W[f])))
    BY <1>4, <2>1, PostingsHave
  <2> QED BY <1>3, <2>1, <2>2, <2>3
<1> HIDE DEF ix, n
<1>10. Readable(ix)
  BY <1>2, <1>3, <1>4, <1>5, <1>6, <1>7, <1>8, <1>9 DEF Readable
<1> QED BY <1>10 DEF ix

\* The index built for a language can be read.
LEMMA BuiltReadable ==
  ASSUME NEW ps \in Corpora
  PROVE  Readable(Build(ps))
<1>1. IsCorpus(ps) /\ \A df \in 1..Len(Sections(ps)) : Idf(Len(Sections(ps)), df) \in Positive
  BY SearchAssumption DEF Positive
<1> QED BY <1>1, IndexReadable

\* A section has a word in one of its fields when a term of the index spelt so is held by it.
LEMMA HeldWords ==
  ASSUME NEW ps, IsCorpus(ps), NEW d \in 1..Len(Sections(ps)), NEW w
  PROVE  /\ w \in WordsOf(Sections(ps)[d]) <=> d - 1 \in Holders(ps, w)
         /\ w \in WordsOf(Sections(ps)[d]) => w \in Vocabulary(ps)
<1> DEFINE n == Len(Sections(ps))
           W == Words(Sections(ps))
<1>1. n \in Nat /\ DOMAIN Sections(ps) = 1..n
  BY WordsIs, FieldsAre
<1>2. ASSUME NEW f \in Fields PROVE W[f][d] = Tokenise(Sections(ps)[d].text[f])
  BY WordsIs
<1>3. w \in WordsOf(Sections(ps)[d]) <=> \E f \in Fields : w \in ToSet(W[f][d])
  BY <1>2 DEF WordsOf
<1>4. d - 1 \in 0..n - 1 /\ (d - 1) + 1 = d
  BY <1>1
<1>5. d - 1 \in Holders(ps, w) <=> \E f \in Fields : w \in ToSet(W[f][d])
  <2>1. d - 1 \in Holders(ps, w) <=> (d - 1 \in 0..n - 1 /\ \E f \in Fields : w \in ToSet(W[f][(d - 1) + 1]))
    BY DEF Holders
  <2> HIDE DEF W, n
  <2> QED BY <2>1, <1>4
<1>6. (\E f \in Fields : w \in ToSet(W[f][d])) => w \in Vocabulary(ps)
  BY <1>1 DEF Vocabulary
<1> QED BY <1>3, <1>5, <1>6
-----------------------------------------------------------------------------
(* What the index is while it is whole.                                    *)

\* What is indexed is a corpus, a query is typed with known keys, and a whole file is
\* the one its pages build.
Invariant ==
  /\ pages \in Corpora
  /\ query \in Seq(Keys)
  /\ whole => index = Build(pages)

\* Typing, clearing and damage keep it.
LEMMA InvariantHolds ==
  Spec => []Invariant
<1>1. Init => Invariant
  BY DEF Init, Invariant
<1>2. Invariant /\ [Next]_vars => Invariant'
  <2> SUFFICES ASSUME Invariant, [Next]_vars PROVE Invariant'
    OBVIOUS
  <2>1. CASE \E c \in Keys : Type(c)
    <3>1. PICK c \in Keys : Type(c)
      BY <2>1
    <3>2. query' \in Seq(Keys)
      BY <3>1 DEF Type, Invariant
    <3> QED BY <3>1, <3>2 DEF Type, Invariant
  <2>2. CASE Clear
    BY <2>2 DEF Clear, Invariant
  <2>3. CASE Damage
    BY <2>3 DEF Damage, Invariant
  <2>4. CASE UNCHANGED vars
    BY <2>4 DEF vars, Invariant
  <2> QED BY <2>1, <2>2, <2>3, <2>4 DEF Next
<1> QED BY <1>1, <1>2, PTL DEF Spec

\* What is asked is made of texts.
LEMMA AskedIs ==
  ASSUME Invariant
  PROVE  query \in Text /\ Asked \in Seq(Text)
<1>1. query \in Text
  BY SearchAssumption DEF Invariant, Text
<1> QED BY <1>1, TokeniseType DEF Asked

\* A token of the query matches a section when one of the section's words answers it.
LEMMA MatchedIs ==
  ASSUME Invariant, whole, NEW d \in 1..Len(Sections(pages))
  PROVE  Matched(index, Asked, d - 1) =
           {t \in ToSet(Asked) : \E w \in WordsOf(Sections(pages)[d]) : Answers(t, w)}
<1> DEFINE section == Sections(pages)[d]
<1>1. IsCorpus(pages) /\ index = Build(pages) /\ Readable(index)
  BY SearchAssumption, BuiltReadable DEF Invariant
<1>2. Asked \in Seq(Text)
  BY AskedIs
<1>3. index.terms \in Seq(Text) /\ ToSet(index.terms) = Vocabulary(pages)
  BY <1>1, DictionaryIs
<1>4. ASSUME NEW t \in ToSet(Asked)
      PROVE  (\E i \in Expansion(index, Asked, t) : d - 1 \in Holding(index, i))
             <=> \E w \in WordsOf(section) : Answers(t, w)
  <2>1. ASSUME NEW i
        PROVE  i \in Expansion(index, Asked, t) <=> i \in DOMAIN index.terms /\ Answers(t, index.terms[i])
    <3>1. Expansion(index, Asked, t) =
            {j \in DOMAIN index.terms : IF t = Asked[Len(Asked)] THEN BeginsWith(index.terms[j], t)
                                                                 ELSE index.terms[j] = t}
      BY <1>1, <1>2, ExpansionIs
    <3> QED BY <3>1 DEF Answers
  <2>2. ASSUME NEW i \in DOMAIN index.terms
        PROVE  d - 1 \in Holding(index, i) <=> index.terms[i] \in WordsOf(section)
    <3>1. Holding(index, i) = Holders(pages, index.terms[i])
      BY <1>1, HoldingIs
    <3>2. index.terms[i] \in WordsOf(section) <=> d - 1 \in Holders(pages, index.terms[i])
      BY <1>1, HeldWords
    <3> QED BY <3>1, <3>2
  <2>3. ASSUME NEW i \in Expansion(index, Asked, t), d - 1 \in Holding(index, i)
        PROVE  \E w \in WordsOf(section) : Answers(t, w)
    BY <2>1, <2>2, <2>3
  <2>4. ASSUME NEW w \in WordsOf(section), Answers(t, w)
        PROVE  \E i \in Expansion(index, Asked, t) : d - 1 \in Holding(index, i)
    <3>1. w \in Vocabulary(pages)
      BY <1>1, HeldWords
    <3>2. PICK i \in DOMAIN index.terms : index.terms[i] = w
      BY <1>3, <3>1 DEF ToSet
    <3>3. i \in Expansion(index, Asked, t) /\ d - 1 \in Holding(index, i)
      BY <2>1, <2>2, <2>4, <3>2
    <3> QED BY <3>3
  <2> QED BY <2>3, <2>4
<1>5. Matched(index, Asked, d - 1) =
        {t \in ToSet(Asked) : \E i \in Expansion(index, Asked, t) : d - 1 \in Holding(index, i)}
  BY DEF Matched
<1> QED BY <1>4, <1>5

\* A query finds exactly the sections for this reader that have one of its finished
\* words, or a word that begins with the one being typed: `searchIndex` over what
\* `buildSearchIndex` wrote.
THEOREM FindsExactlyHolds ==
  Spec => []FindsExactly
<1>1. Invariant => FindsExactly
  <2> SUFFICES ASSUME Invariant, whole, NEW wanted \in Audiences
               PROVE  LET sections == ToSet(Sections(pages))
                          found == {h.doc : h \in ToSet(SearchIndex(index, query, wanted))}
                      IN  found = {s.doc : s \in {x \in sections :
                                     /\ x.doc.audience \cap wanted # {}
                                     /\ \E t \in ToSet(Asked), w \in WordsOf(x) : Answers(t, w)}}
    BY DEF FindsExactly
  <2> DEFINE n == Len(Sections(pages))
             sections == ToSet(Sections(pages))
             hits == ToSet(SearchIndex(index, query, wanted))
             found == {h.doc : h \in hits}
             Wanted(x) == /\ x.doc.audience \cap wanted # {}
                          /\ \E t \in ToSet(Asked), w \in WordsOf(x) : Answers(t, w)
             right == {s.doc : s \in {x \in sections : Wanted(x)}}
  <2>1. IsCorpus(pages) /\ index = Build(pages) /\ Readable(index)
    BY SearchAssumption, BuiltReadable DEF Invariant
  <2>2. n \in Nat /\ DOMAIN Sections(pages) = 1..n /\ index.n = n
        /\ index.docs = [d \in DOMAIN Sections(pages) |-> Sections(pages)[d].doc]
    BY <2>1, WordsIs, FieldsAre, BuildHas
  <2>3. hits = Hits(index, Asked, wanted)
    BY <2>1, AskedIs, SearchIs DEF Asked
  <2>4. ASSUME NEW d \in 1..n
        PROVE  d - 1 \in Seen(index, Asked, wanted) <=> Wanted(Sections(pages)[d])
    <3>1. Matched(index, Asked, d - 1) =
            {t \in ToSet(Asked) : \E w \in WordsOf(Sections(pages)[d]) : Answers(t, w)}
      BY MatchedIs
    <3>2. Matched(index, Asked, d - 1) # {} <=> \E t \in ToSet(Asked), w \in WordsOf(Sections(pages)[d]) : Answers(t, w)
      BY <3>1
    <3>3. d - 1 \in 0..index.n - 1 /\ (d - 1) + 1 = d
      BY <2>2
    <3>4. index.docs[d] = Sections(pages)[d].doc
      BY <2>2
    <3>5. d - 1 \in Seen(index, Asked, wanted)
          <=> (d - 1 \in 0..index.n - 1 /\ index.docs[(d - 1) + 1].audience \cap wanted # {}
               /\ Matched(index, Asked, d - 1) # {})
      BY DEF Seen
    <3> QED BY <3>2, <3>3, <3>4, <3>5
  <2>5. ASSUME NEW id \in Seen(index, Asked, wanted)
        PROVE  id + 1 \in 1..n /\ (id + 1) - 1 = id /\ Hit(index, Asked, id).doc = Sections(pages)[id + 1].doc
    <3>1. id \in 0..index.n - 1
      BY DEF Seen
    <3>2. id + 1 \in 1..n /\ (id + 1) - 1 = id
      BY <2>2, <3>1
    <3>3. Hit(index, Asked, id).doc = index.docs[id + 1]
      BY DEF Hit
    <3> QED BY <2>2, <3>2, <3>3
  <2>6. sections = {Sections(pages)[d] : d \in 1..n}
    BY <2>2 DEF ToSet
  <2>7. ASSUME NEW x \in found PROVE x \in right
    <3>1. PICK id \in Seen(index, Asked, wanted) : x = Hit(index, Asked, id).doc
      BY <2>3 DEF Hits
    <3>2. id + 1 \in 1..n /\ (id + 1) - 1 = id /\ x = Sections(pages)[id + 1].doc
      BY <2>5, <3>1
    <3>3. Wanted(Sections(pages)[id + 1])
      BY <2>4, <3>1, <3>2
    <3>4. Sections(pages)[id + 1] \in sections
      BY <2>6, <3>2
    <3> HIDE DEF Wanted, sections
    <3> QED BY <3>2, <3>3, <3>4
  <2>8. ASSUME NEW x \in right PROVE x \in found
    <3>1. PICK s \in sections : Wanted(s) /\ x = s.doc
      OBVIOUS
    <3>2. PICK d \in 1..n : s = Sections(pages)[d]
      BY <2>6, <3>1
    <3>3. d - 1 \in Seen(index, Asked, wanted)
      BY <2>4, <3>1, <3>2
    <3>4. (d - 1) + 1 = d
      BY <2>2
    <3>5. Hit(index, Asked, d - 1).doc = x
      BY <2>5, <3>1, <3>2, <3>3, <3>4
    <3>6. Hit(index, Asked, d - 1) \in hits
      BY <2>3, <3>3 DEF Hits
    <3> HIDE DEF hits
    <3> QED BY <3>5, <3>6
  <2> HIDE DEF found, right
  <2>9. found = right
    BY <2>7, <2>8
  <2> QED BY <2>9 DEF found, right
<1> QED BY <1>1, InvariantHolds, PTL
-----------------------------------------------------------------------------
(* The runs of a text.                                                     *)

\* A character that is prepared is a character, and its lower case is prepared.
LEMMA PreparedIs ==
  /\ Prepared \in SUBSET Chars
  /\ \A c \in Prepared : Lower[c] \in Prepared /\ Kinds[c] \in Classes
<1>1. Prepared \in SUBSET Chars
  <2>1. Nfkc \in [Chars -> Chars] /\ Arabic \in [Chars -> Chars \cup {Gone}]
    BY TermsAssumption
  <2>2. \A c \in Chars : Arabic[Nfkc[c]] \in Chars \cup {Gone}
    BY <2>1
  <2> QED BY <2>2 DEF Prepared
<1>2. ASSUME NEW c \in Prepared PROVE Lower[c] \in Prepared /\ Kinds[c] \in Classes
  <2>1. c \in Chars /\ Lower[c] \in Chars /\ Gone \notin Chars
    BY <1>1, TermsAssumption
  <2>2. Nfkc[Lower[c]] = Lower[c] /\ Arabic[Lower[c]] = Lower[c]
    BY FoldingAssumption
  <2>3. Arabic[Nfkc[Lower[c]]] = Lower[c] /\ Lower[c] # Gone
    BY <2>1, <2>2
  <2>4. Kinds[c] \in Classes
    BY <2>1, TermsAssumption DEF Classes
  <2> QED BY <2>1, <2>3, <2>4 DEF Prepared
<1> QED BY <1>1, <1>2

\* A preparation is made of prepared characters.
LEMMA PrepareSettles ==
  ASSUME NEW text \in Text
  PROVE  Prepare(text) \in Seq(Prepared)
<1> DEFINE t == Each(Nfkc, text)
           seqs == [i \in DOMAIN t |-> IF Arabic[t[i]] = Gone THEN <<>> ELSE <<Arabic[t[i]]>>]
<1>1. t \in Seq(Chars) /\ Len(t) = Len(text) /\ \A i \in 1..Len(text) : t[i] = Nfkc[text[i]] /\ text[i] \in Chars
  <2>1. Len(text) \in Nat /\ DOMAIN text = 1..Len(text) /\ \A i \in 1..Len(text) : text[i] \in Chars
    BY DEF Text
  <2>2. \A i \in 1..Len(text) : Nfkc[text[i]] \in Chars
    BY <2>1, TermsAssumption
  <2>3. t = [i \in 1..Len(text) |-> Nfkc[text[i]]]
    BY <2>1 DEF Each
  <2> QED BY <2>1, <2>2, <2>3
<1> HIDE DEF t
<1>2. ASSUME NEW i \in 1..Len(t)
      PROVE  (IF Arabic[t[i]] = Gone THEN <<>> ELSE <<Arabic[t[i]]>>) \in Seq(Prepared)
  <2>1. text[i] \in Chars /\ t[i] = Nfkc[text[i]]
    BY <1>1, <1>2
  <2>2. Arabic[t[i]] # Gone => Arabic[t[i]] \in Prepared
    BY <2>1 DEF Prepared
  <2> QED BY <2>2
<1>3. DOMAIN t = 1..Len(t) /\ Len(t) \in Nat
  BY <1>1
<1>4. seqs \in Seq(Seq(Prepared))
  BY <1>2, <1>3
<1> HIDE DEF seqs
<1>5. FlattenSeq(seqs) \in Seq(Prepared)
  BY <1>4, FlattenIs DEF Joined
<1>6. Prepare(text) = FlattenSeq(seqs)
  BY DEF Prepare, FoldArabic, seqs, t
<1> QED BY <1>5, <1>6

\* Sums of ones.
LEMMA SumsOfOnes ==
  ASSUME NEW a \in Seq(Int), \A i \in 1..Len(a) : a[i] = 1
  PROVE  \A i \in 0..Len(a) : Sums(a)[i] = i
<1> DEFINE S == {i \in 0..Len(a) : Sums(a)[i] = i}
<1>1. Len(a) \in Nat
  OBVIOUS
<1>2. Sums(a)[0] = 0 /\ \A i \in 1..Len(a) : Sums(a)[i] = Sums(a)[i - 1] + a[i]
  BY <1>1, SumsIs
<1>3. 0 \in S
  BY <1>1, <1>2
<1>4. \A i \in 0..Len(a) : i < Len(a) /\ i \in S => i + 1 \in S
  <2> SUFFICES ASSUME NEW i \in 0..Len(a), i < Len(a), i \in S PROVE i + 1 \in S
    OBVIOUS
  <2>1. i + 1 \in 1..Len(a) /\ (i + 1) - 1 = i
    BY <1>1
  <2>2. Sums(a)[i + 1] = Sums(a)[i] + 1
    BY <1>2, <2>1
  <2> QED BY <2>1, <2>2
<1> HIDE DEF S
<1>5. \A i \in 0..Len(a) : i \in S
  BY <1>1, <1>3, <1>4, Places
<1> QED BY <1>5 DEF S

\* Where the Arabic table rewrites nothing, the folding changes nothing.
LEMMA FoldNothing ==
  ASSUME NEW text \in Text, \A i \in 1..Len(text) : Arabic[text[i]] = text[i]
  PROVE  FoldArabic(text) = text
<1> DEFINE seqs == [i \in DOMAIN text |-> IF Arabic[text[i]] = Gone THEN <<>> ELSE <<Arabic[text[i]]>>]
           n == Len(text)
           f == FlattenSeq(seqs)
<1>1. n \in Nat /\ DOMAIN text = 1..n /\ \A i \in 1..n : text[i] \in Chars
  BY DEF Text
<1>2. ASSUME NEW i \in 1..n
      PROVE  (IF Arabic[text[i]] = Gone THEN <<>> ELSE <<Arabic[text[i]]>>) = <<text[i]>>
  <2>1. text[i] \in Chars /\ Gone \notin Chars /\ Arabic[text[i]] = text[i]
    BY <1>1, TermsAssumption
  <2> QED BY <2>1
<1>3. seqs \in Seq(Seq(Chars)) /\ Len(seqs) = n /\ \A i \in 1..n : seqs[i] = <<text[i]>>
  BY <1>1, <1>2
<1> HIDE DEF seqs, n, f
<1>4. Joined(Chars, f, seqs, n)
  BY <1>3, FlattenIs DEF f
<1> DEFINE lens == Lens(seqs)
<1>5. lens \in Seq(Int) /\ Len(lens) = n /\ \A i \in 1..n : lens[i] = 1
  <2>1. DOMAIN seqs = 1..n
    BY <1>3
  <2>2. ASSUME NEW i \in 1..n PROVE Len(seqs[i]) = 1
    <3>1. seqs[i] = <<text[i]>>
      BY <1>3
    <3> QED BY <3>1
  <2> QED BY <1>1, <2>1, <2>2 DEF Lens
<1> HIDE DEF lens
<1>6. \A i \in 0..n : Sums(lens)[i] = i
  BY <1>5, SumsOfOnes
<1>7. f \in Seq(Chars) /\ Len(f) = Sums(lens)[n]
      /\ \A i \in 1..n : \A j \in 1..Len(seqs[i]) : f[Sums(lens)[i - 1] + j] = seqs[i][j]
  BY <1>4 DEF Joined, lens
<1>8. Len(f) = n
  <2>1. n \in 0..n
    BY <1>1
  <2> QED BY <2>1, <1>6, <1>7
<1>9. ASSUME NEW i \in 1..n PROVE f[i] = text[i]
  <2>1. i - 1 \in 0..n /\ (i - 1) + 1 = i
    BY <1>1
  <2>2. 1 \in 1..Len(seqs[i]) /\ seqs[i][1] = text[i]
    BY <1>3
  <2>3. f[Sums(lens)[i - 1] + 1] = text[i]
    BY <1>7, <2>2
  <2> QED BY <1>6, <2>1, <2>3
<1>10. f = text
  <2>1. f \in [1..n -> Chars] /\ text \in [1..n -> Chars]
    BY <1>1, <1>7, <1>8 DEF Text, n
  <2>2. f = [i \in 1..n |-> f[i]] /\ text = [i \in 1..n |-> text[i]]
    BY <2>1
  <2>3. [i \in 1..n |-> f[i]] = [i \in 1..n |-> text[i]]
    BY <1>9
  <2> QED BY <2>2, <2>3, Zenon
<1> QED BY <1>10 DEF f, FoldArabic, seqs

\* What is prepared stays as it is, and is spelled as long and of the same classes.
LEMMA Settled ==
  ASSUME NEW P \in Seq(Prepared)
  PROVE  /\ Prepare(P) = P
         /\ FoldTerm(P) = Each(Lower, P)
         /\ Each(Lower, P) \in Seq(Prepared) /\ Len(Each(Lower, P)) = Len(P)
         /\ \A i \in 1..Len(P) : Each(Lower, P)[i] = Lower[P[i]] /\ Kinds[Lower[P[i]]] = Kinds[P[i]]
<1> DEFINE n == Len(P)
           L == Each(Lower, P)
<1>1. n \in Nat /\ DOMAIN P = 1..n /\ \A i \in 1..n : P[i] \in Prepared
  OBVIOUS
<1>2. P \in Text
  BY PreparedIs DEF Text
<1>3. Each(Nfkc, P) = P
  <2>1. \A i \in 1..n : Nfkc[P[i]] = P[i]
    BY <1>1, FoldingAssumption
  <2>2. Each(Nfkc, P) = [i \in 1..n |-> Nfkc[P[i]]]
    BY <1>1 DEF Each
  <2>3. P = [i \in 1..n |-> P[i]]
    BY <1>1
  <2> HIDE DEF n
  <2> QED BY <2>1, <2>2, <2>3
<1>4. FoldArabic(P) = P
  BY <1>1, <1>2, FoldNothing, FoldingAssumption
<1>5. L \in Seq(Prepared) /\ Len(L) = n /\ \A i \in 1..n : L[i] = Lower[P[i]]
  BY <1>1, PreparedIs DEF Each
<1>6. \A i \in 1..n : Kinds[Lower[P[i]]] = Kinds[P[i]] /\ Arabic[Lower[P[i]]] = Lower[P[i]]
  BY <1>1, FoldingAssumption
<1> HIDE DEF L
<1>7. FoldArabic(L) = L
  <2>1. L \in Text
    BY <1>5, PreparedIs DEF Text
  <2>2. \A i \in 1..Len(L) : Arabic[L[i]] = L[i]
    BY <1>5, <1>6
  <2> QED BY <2>1, <2>2, FoldNothing
<1> QED BY <1>3, <1>4, <1>5, <1>6, <1>7 DEF Prepare, FoldTerm, L

\* Two sequences of one length with the same elements are one.
LEMMA SameSeq ==
  ASSUME NEW X, NEW a \in Seq(X), NEW b \in Seq(X), Len(a) = Len(b), \A i \in 1..Len(a) : a[i] = b[i]
  PROVE  a = b
<1> DEFINE n == Len(a)
<1>1. a \in [1..n -> X] /\ b \in [1..n -> X] /\ \A i \in 1..n : a[i] = b[i]
  OBVIOUS
<1> HIDE DEF n
<1>2. a = [i \in 1..n |-> a[i]] /\ b = [i \in 1..n |-> b[i]]
  BY <1>1
<1>3. [i \in 1..n |-> a[i]] = [i \in 1..n |-> b[i]]
  BY <1>1
<1> QED BY <1>2, <1>3, Zenon

\* A piece of a sequence.
LEMMA PieceIs ==
  ASSUME NEW X, NEW P \in Seq(X), NEW b \in 1..Len(P), NEW a \in 1..b
  PROVE  /\ SubSeq(P, a, b) \in Seq(X) /\ Len(SubSeq(P, a, b)) = b - a + 1
         /\ \A i \in 1..(b - a + 1) : a + i - 1 \in a..b /\ SubSeq(P, a, b)[i] = P[a + i - 1]
<1>1. a \in Int /\ b \in Int /\ Len(P) \in Nat /\ \A i \in a..b : P[i] \in X
  OBVIOUS
<1>2. /\ SubSeq(P, a, b) \in Seq(X)
      /\ Len(SubSeq(P, a, b)) = IF a <= b THEN b - a + 1 ELSE 0
      /\ \A i \in 1..b - a + 1 : SubSeq(P, a, b)[i] = P[a + i - 1]
  BY <1>1, SubSeqProperties
<1>3. \A i \in 1..(b - a + 1) : a + i - 1 \in a..b
  BY <1>1
<1>4. a <= b
  OBVIOUS
<1> QED BY <1>2, <1>3, <1>4

\* A piece of one more.
LEMMA PieceOneMore ==
  ASSUME NEW X, NEW P \in Seq(X), NEW b \in 1..Len(P), b < Len(P), NEW a \in 1..b
  PROVE  Append(SubSeq(P, a, b), P[b + 1]) = SubSeq(P, a, b + 1)
<1> DEFINE s == SubSeq(P, a, b)
           t == SubSeq(P, a, b + 1)
           c == P[b + 1]
<1>1. b + 1 \in 1..Len(P) /\ a \in 1..(b + 1) /\ c \in X
  OBVIOUS
<1>2. s \in Seq(X) /\ Len(s) = b - a + 1 /\ \A i \in 1..(b - a + 1) : s[i] = P[a + i - 1]
  BY PieceIs
<1>3. t \in Seq(X) /\ Len(t) = (b + 1) - a + 1 /\ \A i \in 1..((b + 1) - a + 1) : t[i] = P[a + i - 1]
  BY <1>1, PieceIs
<1> HIDE DEF s, t
<1>4. Append(s, c) \in Seq(X) /\ Len(Append(s, c)) = Len(t)
  BY <1>1, <1>2, <1>3
<1>5. ASSUME NEW i \in 1..Len(t) PROVE Append(s, c)[i] = t[i]
  <2>1. i \in 1..((b + 1) - a + 1) /\ t[i] = P[a + i - 1]
    BY <1>3
  <2>2. CASE i = (b + 1) - a + 1
    <3>1. a + i - 1 = b + 1 /\ i = Len(s) + 1
      BY <2>2, <1>2
    <3> QED BY <3>1, <2>1, <1>2, <1>1
  <2>3. CASE i # (b + 1) - a + 1
    <3>1. i \in 1..(b - a + 1)
      BY <2>1, <2>3
    <3> QED BY <3>1, <2>1, <1>2, <1>1
  <2> QED BY <2>2, <2>3
<1> HIDE DEF c
<1>6. Append(s, c) = t
  BY <1>3, <1>4, <1>5, SameSeq
<1> QED BY <1>6 DEF s, t, c

\* A piece of one.
LEMMA PieceOfOne ==
  ASSUME NEW X, NEW P \in Seq(X), NEW b \in 1..Len(P)
  PROVE  SubSeq(P, b, b) = <<P[b]>>
<1> DEFINE s == SubSeq(P, b, b)
<1>1. s \in Seq(X) /\ Len(s) = b - b + 1 /\ \A i \in 1..(b - b + 1) : s[i] = P[b + i - 1]
  <2>1. b \in 1..b
    OBVIOUS
  <2> QED BY <2>1, PieceIs
<1>2. Len(s) = 1 /\ s[1] = P[b] /\ P[b] \in X
  BY <1>1
<1> HIDE DEF s
<1> DEFINE c == P[b]
<1>3. c \in X
  BY <1>2
<1>4. s[1] = c
  BY <1>2
<1> HIDE DEF c
<1>5. s = <<c>>
  BY <1>1, <1>2, <1>3, <1>4
<1> QED BY <1>5 DEF s, c

\* The elements of two sequences joined.
LEMMA JoinedSet ==
  ASSUME NEW X, NEW a \in Seq(X), NEW b \in Seq(X)
  PROVE  ToSet(a \o b) = ToSet(a) \cup ToSet(b)
<1> DEFINE c == a \o b
<1>1. /\ c \in Seq(X) /\ Len(c) = Len(a) + Len(b)
      /\ \A i \in 1..(Len(a) + Len(b)) : c[i] = IF i <= Len(a) THEN a[i] ELSE b[i - Len(a)]
  BY ConcatProperties, Zenon
<1> HIDE DEF c
<1>2. Len(a) \in Nat /\ Len(b) \in Nat /\ DOMAIN a = 1..Len(a) /\ DOMAIN b = 1..Len(b) /\ DOMAIN c = 1..Len(c)
  BY <1>1
<1>3. ASSUME NEW x \in ToSet(c) PROVE x \in ToSet(a) \cup ToSet(b)
  <2>1. PICK i \in 1..Len(c) : x = c[i]
    BY <1>2 DEF ToSet
  <2>2. CASE i <= Len(a)
    <3>1. i \in 1..Len(a) /\ x = a[i]
      BY <1>1, <1>2, <2>1, <2>2
    <3> QED BY <3>1, <1>2 DEF ToSet
  <2>3. CASE i > Len(a)
    <3>1. i - Len(a) \in 1..Len(b) /\ x = b[i - Len(a)]
      BY <1>1, <1>2, <2>1, <2>3
    <3> QED BY <3>1, <1>2 DEF ToSet
  <2> QED BY <1>2, <2>2, <2>3
<1>4. ASSUME NEW x \in ToSet(a) PROVE x \in ToSet(c)
  <2>1. PICK i \in 1..Len(a) : x = a[i]
    BY <1>2 DEF ToSet
  <2>2. i \in 1..Len(c) /\ c[i] = x
    BY <1>1, <1>2, <2>1
  <2> QED BY <2>2, <1>2 DEF ToSet
<1>5. ASSUME NEW x \in ToSet(b) PROVE x \in ToSet(c)
  <2>1. PICK i \in 1..Len(b) : x = b[i]
    BY <1>2 DEF ToSet
  <2>2. Len(a) + i \in 1..(Len(a) + Len(b)) /\ ~(Len(a) + i <= Len(a)) /\ (Len(a) + i) - Len(a) = i
    BY <1>2
  <2>3. c[Len(a) + i] = x
    BY <1>1, <2>1, <2>2
  <2> QED BY <2>2, <2>3, <1>1, <1>2 DEF ToSet
<1>6. ToSet(c) = ToSet(a) \cup ToSet(b)
  BY <1>3, <1>4, <1>5
<1> QED BY <1>6 DEF c

\* What one character of the walk does.
LEMMA WalkIs ==
  ASSUME NEW s \in Walks, NEW c \in Chars
  PROVE  /\ Walk(s, c) \in Walks /\ Walk(s, c).kind = Kinds[c]
         /\ Kinds[c] = s.kind =>
              /\ Walk(s, c).terms = s.terms
              /\ Walk(s, c).run = IF Kinds[c] = "separator" THEN <<>> ELSE Append(s.run, c)
         /\ Kinds[c] # s.kind =>
              /\ Walk(s, c).terms = s.terms \o TermsOf(s.kind, s.run)
              /\ Walk(s, c).run = IF Kinds[c] = "separator" THEN <<>> ELSE <<c>>
<1> DEFINE kind == Kinds[c]
           f == Flush(s)
           t == IF kind = s.kind THEN s ELSE [f EXCEPT !.kind = kind]
           w == IF kind = "separator" THEN t ELSE [t EXCEPT !.run = Append(@, c)]
           terms == s.terms \o TermsOf(s.kind, s.run)
<1>1. w = Walk(s, c)
  BY DEF Walk, Classify
<1>2. Walk(s, c) \in Walks
  BY WalkType
<1>3. s \in [terms : Seq(Text), run : Text, kind : Classes] /\ (s.kind = "separator" => s.run = <<>>)
  BY DEF Walks
<1>4. f \in [terms : Seq(Text), run : Text, kind : Classes] /\ f.run = <<>> /\ f.kind = s.kind /\ f.terms = terms
  BY FlushIs DEF Walks
<1>5. kind \in Classes
  BY TermsAssumption DEF Classes
<1> HIDE DEF kind, f, terms
<1>6. CASE kind = s.kind
  <2>1. t = s
    BY <1>6
  <2>2. ASSUME kind = "separator" PROVE w.kind = kind /\ w.terms = s.terms /\ w.run = <<>>
    BY <2>1, <2>2, <1>6, <1>3
  <2>3. ASSUME kind # "separator" PROVE w.kind = kind /\ w.terms = s.terms /\ w.run = Append(s.run, c)
    <3>1. w = [s EXCEPT !.run = Append(s.run, c)]
      BY <2>1, <2>3
    <3> HIDE DEF w
    <3>2. w.kind = kind /\ w.terms = s.terms /\ w.run = Append(s.run, c)
      BY <3>1, <1>3, <1>6
    <3> QED BY <3>2, <2>3, <1>6 DEF w
  <2>4. w.kind = kind /\ w.terms = s.terms /\ w.run = IF kind = "separator" THEN <<>> ELSE Append(s.run, c)
    BY <2>1, <2>2, <2>3, <1>3, <1>6
  <2> QED BY <2>4, <1>1, <1>2, <1>6, Zenon DEF kind
<1>7. CASE kind # s.kind
  <2>1. t = [f EXCEPT !.kind = kind]
    BY <1>7
  <2> HIDE DEF t
  <2>2. t.run = <<>> /\ t.kind = kind /\ t.terms = terms /\ t \in [terms : Seq(Text), run : Text, kind : Classes]
    BY <2>1, <1>4, <1>5
  <2>3. Append(<<>>, c) = <<c>>
    OBVIOUS
  <2>4. ASSUME kind = "separator" PROVE w.kind = kind /\ w.terms = terms /\ w.run = <<>>
    BY <2>2, <2>4
  <2>5. ASSUME kind # "separator" PROVE w.kind = kind /\ w.terms = terms /\ w.run = <<c>>
    <3>1. w = [t EXCEPT !.run = <<c>>]
      BY <2>2, <2>3, <2>5
    <3> HIDE DEF w
    <3>2. w.kind = kind /\ w.terms = terms /\ w.run = <<c>>
      BY <3>1, <2>2
    <3> QED BY <3>2, <2>5 DEF w
  <2>6. w.kind = kind /\ w.terms = terms /\ w.run = IF kind = "separator" THEN <<>> ELSE <<c>>
    BY <2>2, <2>4, <2>5
  <2> QED BY <2>6, <1>1, <1>2, <1>7, Zenon DEF kind, terms
<1> QED BY <1>6, <1>7

\* The run that stands at b begins at a.
Begins(P, a, b) ==
  /\ a \in 1..b /\ Kinds[P[b]] # "separator"
  /\ \A j \in a..b : Kinds[P[j]] = Kinds[P[b]]
  /\ a > 1 => Kinds[P[a - 1]] # Kinds[P[b]]

\* A run from a to b is over before i + 1.
Ended(P, a, b, i) == b \in 1..(i - 1) /\ Begins(P, a, b) /\ Kinds[P[b + 1]] # Kinds[P[b]]

\* What a run contributes.
Yield(P, a, b) == TermsOf(Kinds[P[b]], SubSeq(P, a, b))

\* The walk after i characters: what it holds is the run that stands there, what it has
\* is what the runs before contributed.
Midway(P, s, i) ==
  /\ s \in Walks
  /\ s.kind = IF i = 0 THEN "separator" ELSE Kinds[P[i]]
  /\ s.kind # "separator" => \E a \in 1..i : Begins(P, a, i) /\ s.run = SubSeq(P, a, i)
  /\ \A t : t \in ToSet(s.terms) <=> \E b \in 1..(i - 1) : \E a \in 1..b : Ended(P, a, b, i) /\ t \in ToSet(Yield(P, a, b))

\* A run has one beginning.
LEMMA OneBeginning ==
  ASSUME NEW P, NEW i \in Nat, NEW a \in 1..i, NEW b \in 1..i, Begins(P, a, i), Begins(P, b, i)
  PROVE  a = b
<1>1. ASSUME NEW x \in 1..i, NEW y \in 1..i, Begins(P, x, i), Begins(P, y, i), x < y PROVE FALSE
  <2>1. y > 1 /\ y - 1 \in x..i
    BY <1>1
  <2>2. Kinds[P[y - 1]] # Kinds[P[i]]
    BY <1>1, <2>1 DEF Begins
  <2>3. Kinds[P[y - 1]] = Kinds[P[i]]
    BY <1>1, <2>1 DEF Begins
  <2> QED BY <2>2, <2>3
<1>2. a < b \/ b < a \/ a = b
  OBVIOUS
<1> QED BY <1>1, <1>2

\* A walk stays midway, one character on.
LEMMA StaysMidway ==
  ASSUME NEW P \in Seq(Prepared), NEW i \in Nat, i < Len(P), NEW s, Midway(P, s, i)
  PROVE  Midway(P, Walk(s, P[i + 1]), i + 1)
<1> DEFINE c == P[i + 1]
           w == Walk(s, c)
           Past(t, k) == \E b \in 1..(k - 1) : \E a \in 1..b : Ended(P, a, b, k) /\ t \in ToSet(Yield(P, a, b))
<1>1. i + 1 \in 1..Len(P) /\ c \in Prepared /\ c \in Chars /\ P \in Seq(Chars) /\ Len(P) \in Nat
  BY PreparedIs
<1>2. s \in Walks
  BY DEF Midway
<1>3. /\ w \in Walks /\ w.kind = Kinds[c]
      /\ Kinds[c] = s.kind => w.terms = s.terms /\ w.run = IF Kinds[c] = "separator" THEN <<>> ELSE Append(s.run, c)
      /\ Kinds[c] # s.kind => /\ w.terms = s.terms \o TermsOf(s.kind, s.run)
                              /\ w.run = IF Kinds[c] = "separator" THEN <<>> ELSE <<c>>
  BY <1>1, <1>2, WalkIs
<1>4. s.kind = IF i = 0 THEN "separator" ELSE Kinds[P[i]]
  BY DEF Midway
<1>5. \A t : t \in ToSet(s.terms) <=> Past(t, i)
  BY DEF Midway
<1>6. ASSUME s.kind # "separator"
      PROVE  i >= 1 /\ \E a \in 1..i : Begins(P, a, i) /\ s.run = SubSeq(P, a, i)
  BY <1>4, <1>6 DEF Midway
<1>c. c = P[i + 1]
  OBVIOUS
<1> HIDE DEF w, c
<1>7. Kinds[c] # "separator" => \E a \in 1..i + 1 : Begins(P, a, i + 1) /\ w.run = SubSeq(P, a, i + 1)
  <2> SUFFICES ASSUME Kinds[c] # "separator"
               PROVE  \E a \in 1..i + 1 : Begins(P, a, i + 1) /\ w.run = SubSeq(P, a, i + 1)
    OBVIOUS
  <2>1. CASE Kinds[c] = s.kind
    <3>1. i >= 1 /\ Kinds[P[i]] = Kinds[c]
      BY <1>4, <1>6, <2>1
    <3>2. PICK a \in 1..i : Begins(P, a, i) /\ s.run = SubSeq(P, a, i)
      BY <1>6, <2>1
    <3>3. w.run = Append(s.run, c)
      BY <1>3, <2>1
    <3>4. Append(SubSeq(P, a, i), P[i + 1]) = SubSeq(P, a, i + 1)
      BY <1>1, <3>1, PieceOneMore
    <3>5. \A j \in a..(i + 1) : Kinds[P[j]] = Kinds[P[i + 1]]
      <4> SUFFICES ASSUME NEW j \in a..(i + 1) PROVE Kinds[P[j]] = Kinds[P[i + 1]]
        OBVIOUS
      <4>1. j \in a..i \/ j = i + 1
        OBVIOUS
      <4>2. j \in a..i => Kinds[P[j]] = Kinds[P[i]]
        BY <3>2 DEF Begins
      <4> QED BY <4>1, <4>2, <3>1, <1>c
    <3>6. a > 1 => Kinds[P[a - 1]] # Kinds[P[i + 1]]
      BY <3>1, <3>2, <1>c DEF Begins
    <3>7. a \in 1..i + 1
      OBVIOUS
    <3>8. Begins(P, a, i + 1)
      BY <3>5, <3>6, <3>7, <1>c DEF Begins
    <3>9. w.run = SubSeq(P, a, i + 1)
      BY <3>2, <3>3, <3>4, <1>c
    <3> QED BY <3>7, <3>8, <3>9
  <2>2. CASE Kinds[c] # s.kind
    <3>1. w.run = <<P[i + 1]>>
      BY <1>3, <2>2, <1>c
    <3>2. SubSeq(P, i + 1, i + 1) = <<P[i + 1]>>
      BY <1>1, PieceOfOne
    <3>3. i + 1 > 1 => Kinds[P[(i + 1) - 1]] # Kinds[P[i + 1]]
      <4>1. (i + 1) - 1 = i /\ (i + 1 > 1 => i # 0)
        OBVIOUS
      <4> QED BY <4>1, <1>4, <2>2, <1>c
    <3>4. \A j \in (i + 1)..(i + 1) : j = i + 1
      OBVIOUS
    <3>5. i + 1 \in 1..i + 1
      OBVIOUS
    <3>6. Begins(P, i + 1, i + 1)
      BY <3>3, <3>4, <3>5, <1>c DEF Begins
    <3> QED BY <3>1, <3>2, <3>5, <3>6
  <2> QED BY <2>1, <2>2
<1>8. \A t : t \in ToSet(w.terms) <=> Past(t, i + 1)
  <2> DEFINE Final(t) == i >= 1 /\ Kinds[c] # Kinds[P[i]] /\ \E a \in 1..i : Begins(P, a, i) /\ t \in ToSet(Yield(P, a, i))
  <2>1. ASSUME NEW t PROVE Past(t, i + 1) <=> Past(t, i) \/ Final(t)
    <3>1. ASSUME NEW b \in 1..((i + 1) - 1), NEW a \in 1..b, Ended(P, a, b, i + 1), t \in ToSet(Yield(P, a, b))
          PROVE  Past(t, i) \/ Final(t)
      <4>1. CASE b = i
        <5>1. i >= 1 /\ a \in 1..i /\ Begins(P, a, i) /\ Kinds[P[i + 1]] # Kinds[P[i]]
          BY <3>1, <4>1 DEF Ended
        <5> QED BY <5>1, <4>1, <3>1, <1>c
      <4>2. CASE b # i
        <5>1. b \in 1..(i - 1) /\ Ended(P, a, b, i)
          BY <3>1, <4>2 DEF Ended
        <5> QED BY <5>1, <3>1
      <4> QED BY <4>1, <4>2
    <3>2. ASSUME NEW b \in 1..(i - 1), NEW a \in 1..b, Ended(P, a, b, i), t \in ToSet(Yield(P, a, b))
          PROVE  Past(t, i + 1)
      <4>1. b \in 1..((i + 1) - 1) /\ Ended(P, a, b, i + 1)
        BY <3>2 DEF Ended
      <4> QED BY <4>1, <3>2
    <3>3. ASSUME Final(t) PROVE Past(t, i + 1)
      <4>1. PICK a \in 1..i : Begins(P, a, i) /\ t \in ToSet(Yield(P, a, i))
        BY <3>3
      <4>2. i \in 1..((i + 1) - 1) /\ Ended(P, a, i, i + 1)
        BY <3>3, <4>1, <1>c DEF Ended
      <4> QED BY <4>1, <4>2
    <3> HIDE DEF Final
    <3> QED BY <3>1, <3>2, <3>3
  <2>2. CASE Kinds[c] = s.kind
    <3>1. w.terms = s.terms
      BY <1>3, <2>2
    <3>2. ASSUME NEW t PROVE ~Final(t)
      BY <1>4, <2>2
    <3> HIDE DEF Past, Final
    <3> QED BY <2>1, <3>1, <3>2, <1>5
  <2>3. CASE Kinds[c] # s.kind /\ s.kind = "separator"
    <3>1. s.run = <<>>
      BY <1>2, <2>3 DEF Walks
    <3>2. TermsOf(s.kind, s.run) = <<>>
      BY <3>1 DEF TermsOf
    <3>3. s.terms \in Seq(Text)
      BY <1>2 DEF Walks
    <3>4. w.terms = s.terms
      <4>1. w.terms = s.terms \o TermsOf(s.kind, s.run)
        BY <1>3, <2>3
      <4>2. s.terms \o <<>> = s.terms
        BY <3>3, ConcatEmptySeq, Zenon
      <4> QED BY <4>1, <4>2, <3>2, Zenon
    <3>5. ASSUME NEW t PROVE ~Final(t)
      BY <1>4, <2>3 DEF Begins
    <3> HIDE DEF Past, Final
    <3> QED BY <2>1, <3>4, <3>5, <1>5
  <2>4. CASE Kinds[c] # s.kind /\ s.kind # "separator"
    <3>1. PICK a \in 1..i : Begins(P, a, i) /\ s.run = SubSeq(P, a, i)
      BY <1>6, <2>4
    <3>2. i >= 1 /\ s.kind = Kinds[P[i]]
      BY <1>4, <2>4
    <3>3. TermsOf(s.kind, s.run) = Yield(P, a, i)
      BY <3>1, <3>2 DEF Yield
    <3>4. s.terms \in Seq(Text) /\ TermsOf(s.kind, s.run) \in Seq(Text)
      BY <1>2, TermsOfType DEF Walks
    <3>5. ToSet(w.terms) = ToSet(s.terms) \cup ToSet(Yield(P, a, i))
      <4>1. w.terms = s.terms \o TermsOf(s.kind, s.run)
        BY <1>3, <2>4
      <4>2. ToSet(s.terms \o TermsOf(s.kind, s.run)) = ToSet(s.terms) \cup ToSet(TermsOf(s.kind, s.run))
        BY <3>4, JoinedSet
      <4> QED BY <4>1, <4>2, <3>3, Zenon
    <3>6. ASSUME NEW t PROVE Final(t) <=> t \in ToSet(Yield(P, a, i))
      <4>1. ASSUME NEW x \in 1..i, Begins(P, x, i) PROVE x = a
        BY <3>1, <4>1, OneBeginning
      <4> QED BY <4>1, <3>1, <3>2, <2>4
    <3> HIDE DEF Past, Final
    <3> QED BY <2>1, <3>5, <3>6, <1>5
  <2> QED BY <2>2, <2>3, <2>4
<1>9. w.kind = IF i + 1 = 0 THEN "separator" ELSE Kinds[P[i + 1]]
  <2>1. i + 1 # 0
    OBVIOUS
  <2> QED BY <2>1, <1>3, <1>c
<1> HIDE DEF Past
<1>10. w.kind # "separator" => \E a \in 1..i + 1 : Begins(P, a, i + 1) /\ w.run = SubSeq(P, a, i + 1)
  BY <1>3, <1>7
<1>11. Midway(P, w, i + 1)
  BY <1>3, <1>8, <1>9, <1>10 DEF Midway, Past
<1> QED BY <1>11 DEF w, c

\* The runs of P: as long as they can be.
Run(P, a, b) == b \in 1..Len(P) /\ Begins(P, a, b) /\ (b < Len(P) => Kinds[P[b + 1]] # Kinds[P[b]])

\* A text is cut into what its runs contribute, and the run at its end comes last.
LEMMA TokeniseIs ==
  ASSUME NEW text \in Text
  PROVE  LET P == Prepare(text)
             tokens == Tokenise(text)
         IN  /\ P \in Seq(Prepared)
             /\ \A t : t \in ToSet(tokens) <=> \E b \in 1..Len(P) : \E a \in 1..b : Run(P, a, b) /\ t \in ToSet(Yield(P, a, b))
             /\ \A a \in 1..Len(P) : Run(P, a, Len(P)) =>
                  \E before \in Seq(Text) : tokens = before \o Yield(P, a, Len(P)) /\ (a = 1 => before = <<>>)
<1> DEFINE P == Prepare(text)
           n == Len(P)
           w == Walked(P)
           s == w[n]
           tokens == Tokenise(text)
           From(t) == \E b \in 1..n : \E a \in 1..b : Run(P, a, b) /\ t \in ToSet(Yield(P, a, b))
<1>1. P \in Seq(Prepared)
  BY PrepareSettles
<1>2. n \in Nat
  BY <1>1
<1>3. w[0] = Nowhere /\ \A i \in 1..n : w[i] = Walk(w[i - 1], P[i])
  BY <1>2, WalkedIs
<1>4. tokens = Flush(s).terms
  BY DEF Tokenise
<1> HIDE DEF P, w, tokens
<1>5. Midway(P, w[0], 0)
  <2>1. Nowhere \in Walks /\ Nowhere.kind = "separator" /\ Nowhere.terms = <<>>
    BY DEF Nowhere, Walks, Classes, Text
  <2>2. \A t : ~(t \in ToSet(Nowhere.terms))
    BY <2>1 DEF ToSet
  <2>3. 1..(0 - 1) = {}
    OBVIOUS
  <2>4. Midway(P, Nowhere, 0)
    BY <2>1, <2>2, <2>3 DEF Midway
  <2> QED BY <1>3, <2>4
<1>6. Midway(P, s, n)
  <2> DEFINE S == {i \in 0..n : Midway(P, w[i], i)}
  <2> HIDE DEF n
  <2>1. 0 \in S
    BY <1>2, <1>5
  <2>2. \A i \in 0..n : i < n /\ i \in S => i + 1 \in S
    <3> SUFFICES ASSUME NEW i \in 0..n, i < n, i \in S PROVE i + 1 \in S
      OBVIOUS
    <3>1. i \in Nat /\ i < Len(P) /\ i + 1 \in 1..n /\ (i + 1) - 1 = i
      BY <1>2 DEF n
    <3>2. Midway(P, w[i], i)
      OBVIOUS
    <3>3. Midway(P, Walk(w[i], P[i + 1]), i + 1)
      BY <1>1, <3>1, <3>2, StaysMidway
    <3>4. w[i + 1] = Walk(w[i], P[i + 1])
      BY <1>3, <3>1
    <3> QED BY <3>1, <3>3, <3>4
  <2> HIDE DEF S
  <2>3. \A i \in 0..n : i \in S
    BY <1>2, <2>1, <2>2, Places
  <2>4. n \in 0..n
    BY <1>2
  <2>5. n \in S
    BY <2>3, <2>4
  <2> QED BY <2>5 DEF S
<1> HIDE DEF s
<1>7. s \in Walks
  BY <1>6 DEF Midway
<1>8. s.terms \in Seq(Text) /\ TermsOf(s.kind, s.run) \in Seq(Text)
  BY <1>7, TermsOfType DEF Walks
<1>9. tokens = s.terms \o TermsOf(s.kind, s.run)
  BY <1>4, <1>7, FlushIs
<1>10. ToSet(tokens) = ToSet(s.terms) \cup ToSet(TermsOf(s.kind, s.run))
  BY <1>8, <1>9, JoinedSet
<1>11. s.kind = (IF n = 0 THEN "separator" ELSE Kinds[P[n]])
       /\ (s.kind # "separator" => \E a \in 1..n : Begins(P, a, n) /\ s.run = SubSeq(P, a, n))
       /\ \A t : t \in ToSet(s.terms) <=> \E b \in 1..(n - 1) : \E a \in 1..b : Ended(P, a, b, n) /\ t \in ToSet(Yield(P, a, b))
  BY <1>6 DEF Midway
<1>12. ASSUME NEW a \in 1..n, Begins(P, a, n) PROVE TermsOf(s.kind, s.run) = Yield(P, a, n)
  <2>1. n # 0 /\ s.kind = Kinds[P[n]] /\ s.kind # "separator"
    BY <1>2, <1>11, <1>12 DEF Begins
  <2>2. PICK x \in 1..n : Begins(P, x, n) /\ s.run = SubSeq(P, x, n)
    BY <2>1, <1>11
  <2>3. x = a
    BY <1>2, <1>12, <2>2, OneBeginning
  <2> QED BY <2>1, <2>2, <2>3 DEF Yield
<1> HIDE DEF n
<1>13. ASSUME NEW t PROVE t \in ToSet(tokens) <=> From(t)
  <2>1. ASSUME NEW b \in 1..(n - 1), NEW a \in 1..b
        PROVE  Ended(P, a, b, n) <=> Run(P, a, b)
    <3>1. b \in 1..Len(P) /\ b < Len(P)
      BY <1>2 DEF n
    <3> QED BY <3>1 DEF Ended, Run
  <2>2. ASSUME NEW a \in 1..n PROVE Begins(P, a, n) <=> Run(P, a, n)
    <3>1. n \in 1..Len(P) /\ ~(n < Len(P))
      BY <1>2 DEF n
    <3> QED BY <3>1 DEF Run
  <2>3. ASSUME t \in ToSet(s.terms) PROVE From(t)
    <3>1. PICK b \in 1..(n - 1) : \E a \in 1..b : Ended(P, a, b, n) /\ t \in ToSet(Yield(P, a, b))
      BY <1>11, <2>3
    <3>2. PICK a \in 1..b : Ended(P, a, b, n) /\ t \in ToSet(Yield(P, a, b))
      BY <3>1
    <3>3. b \in 1..n /\ Run(P, a, b)
      BY <1>2, <2>1, <3>2
    <3> QED BY <3>2, <3>3
  <2>4. ASSUME t \in ToSet(TermsOf(s.kind, s.run)) PROVE From(t)
    <3>1. s.kind # "separator"
      <4> SUFFICES ASSUME s.kind = "separator" PROVE FALSE
        OBVIOUS
      <4>1. s.run = <<>>
        BY <1>7 DEF Walks
      <4>2. TermsOf(s.kind, s.run) = <<>>
        BY <4>1 DEF TermsOf
      <4> QED BY <4>2, <2>4 DEF ToSet
    <3>2. PICK a \in 1..n : Begins(P, a, n)
      BY <3>1, <1>11
    <3>3. t \in ToSet(Yield(P, a, n)) /\ Run(P, a, n)
      BY <1>12, <2>2, <2>4, <3>2
    <3>4. n \in 1..n
      BY <1>2, <3>2
    <3> QED BY <3>3, <3>4
  <2>5. ASSUME NEW b \in 1..n, NEW a \in 1..b, Run(P, a, b), t \in ToSet(Yield(P, a, b))
        PROVE  t \in ToSet(tokens)
    <3>1. CASE b = n
      <4>1. Begins(P, a, n)
        BY <2>2, <2>5, <3>1
      <4>2. TermsOf(s.kind, s.run) = Yield(P, a, n)
        BY <1>12, <4>1, <3>1
      <4> QED BY <4>2, <2>5, <3>1, <1>10
    <3>2. CASE b # n
      <4>1. b \in 1..(n - 1)
        BY <1>2, <3>2
      <4>2. Ended(P, a, b, n)
        BY <2>1, <2>5, <4>1
      <4>3. t \in ToSet(s.terms)
        BY <1>11, <2>5, <4>1, <4>2
      <4> QED BY <4>3, <1>10
    <3> QED BY <3>1, <3>2
  <2> QED BY <2>3, <2>4, <2>5, <1>10
<1>14. ASSUME NEW a \in 1..n, Run(P, a, n)
       PROVE  \E before \in Seq(Text) : tokens = before \o Yield(P, a, n) /\ (a = 1 => before = <<>>)
  <2>1. Begins(P, a, n)
    BY <1>14 DEF Run
  <2>2. TermsOf(s.kind, s.run) = Yield(P, a, n)
    BY <1>12, <2>1
  <2>3. ASSUME a = 1 PROVE s.terms = <<>>
    <3>1. ASSUME NEW b \in 1..(n - 1), NEW x \in 1..b PROVE ~Ended(P, x, b, n)
      <4>1. b \in a..n /\ b + 1 \in a..n
        BY <1>2, <2>3
      <4>2. Kinds[P[b]] = Kinds[P[n]] /\ Kinds[P[b + 1]] = Kinds[P[n]]
        BY <2>1, <4>1 DEF Begins
      <4> QED BY <4>2 DEF Ended
    <3>2. ASSUME NEW t PROVE ~(t \in ToSet(s.terms))
      BY <1>11, <3>1
    <3>3. DOMAIN s.terms = 1..Len(s.terms) /\ Len(s.terms) \in Nat
      BY <1>8
    <3>4. \A i \in 1..Len(s.terms) : FALSE
      BY <3>2, <3>3 DEF ToSet
    <3>5. Len(s.terms) = 0
      BY <3>3, <3>4
    <3> QED BY <1>8, <3>5
  <2> QED BY <2>2, <2>3, <1>8, <1>9
<1> QED BY <1>1, <1>13, <1>14 DEF P, n, tokens

\* A piece of two.
LEMMA PieceOfTwo ==
  ASSUME NEW X, NEW P \in Seq(X), NEW b \in 1..Len(P), b < Len(P)
  PROVE  SubSeq(P, b, b + 1) = <<P[b], P[b + 1]>>
<1>1. SubSeq(P, b, b) = <<P[b]>>
  BY PieceOfOne
<1>2. b \in 1..b
  OBVIOUS
<1>3. Append(SubSeq(P, b, b), P[b + 1]) = SubSeq(P, b, b + 1)
  BY <1>2, PieceOneMore
<1> DEFINE x == P[b]
           y == P[b + 1]
<1> HIDE DEF x, y
<1>4. Append(<<x>>, y) = <<x, y>>
  <2>1. <<x>> \in Seq({x, y}) /\ Len(<<x>>) = 1 /\ <<x>>[1] = x
    OBVIOUS
  <2>2. <<x, y>> \in Seq({x, y}) /\ Len(<<x, y>>) = 2 /\ <<x, y>>[1] = x /\ <<x, y>>[2] = y
    OBVIOUS
  <2> DEFINE s == <<x>>
             t == Append(s, y)
  <2>3. s \in Seq({x, y}) /\ Len(s) = 1 /\ s[1] = x
    BY <2>1
  <2> HIDE DEF s
  <2> DEFINE Z == {x, y}
  <2>z. y \in Z /\ s \in Seq(Z)
    BY <2>3
  <2> HIDE DEF Z
  <2>4. t \in Seq(Z) /\ Len(t) = 2 /\ t[1] = x /\ t[2] = y
    <3>1. t \in Seq(Z) /\ Len(t) = Len(s) + 1 /\ (\A i \in 1..Len(s) : t[i] = s[i]) /\ t[Len(s) + 1] = y
      BY <2>z, AppendProperties
    <3> QED BY <3>1, <2>3
  <2> HIDE DEF t
  <2>5. \A i \in 1..2 : t[i] = <<x, y>>[i]
    <3>1. \A i \in 1..2 : i = 1 \/ i = 2
      OBVIOUS
    <3> QED BY <2>2, <2>4, <3>1
  <2>6. t = <<x, y>>
    <3>1. <<x, y>> \in Seq(Z)
      BY <2>2 DEF Z
    <3>2. Len(t) = Len(<<x, y>>) /\ \A i \in 1..Len(t) : t[i] = <<x, y>>[i]
      BY <2>2, <2>4, <2>5
    <3> QED BY <2>4, <3>1, <3>2, SameSeq
  <2> QED BY <2>6 DEF s, t
<1>5. Append(<<P[b]>>, P[b + 1]) = <<P[b], P[b + 1]>>
  BY <1>4 DEF x, y
<1> QED BY <1>1, <1>3, <1>5, Zenon

\* What a run contributes, as it is spelled: a word whole, a CJK run in pairs, or alone.
LEMMA YieldIs ==
  ASSUME NEW P \in Seq(Prepared), NEW b \in 1..Len(P), NEW a \in 1..b, Begins(P, a, b)
  PROVE  LET S == Each(Lower, P)
         IN  /\ Kinds[P[b]] = "word" \/ a = b => Yield(P, a, b) = <<SubSeq(S, a, b)>>
             /\ Kinds[P[b]] = "cjk" /\ a < b =>
                  Yield(P, a, b) = [i \in 1..(b - a) |-> SubSeq(S, a + i - 1, a + i)]
             /\ Kinds[P[b]] \in {"word", "cjk"}
<1> DEFINE S == Each(Lower, P)
           r == SubSeq(P, a, b)
           q == SubSeq(S, a, b)
           m == b - a + 1
<1>1. S \in Seq(Prepared) /\ Len(S) = Len(P) /\ \A i \in 1..Len(P) : S[i] = Lower[P[i]]
  BY Settled
<1>2. Len(P) \in Nat /\ m \in Nat /\ m >= 1 /\ b \in 1..Len(S)
  BY <1>1
<1>3. r \in Seq(Prepared) /\ Len(r) = m /\ \A i \in 1..m : a + i - 1 \in a..b /\ r[i] = P[a + i - 1]
  BY PieceIs
<1>4. \A j \in a..b : Kinds[P[j]] = Kinds[P[b]]
  BY DEF Begins
<1> HIDE DEF S
<1>5. q \in Seq(Prepared) /\ Len(q) = m /\ \A i \in 1..m : q[i] = S[a + i - 1]
  BY <1>1, <1>2, PieceIs
<1>6. Kinds[P[b]] \in {"word", "cjk"}
  <2>1. P[b] \in Prepared
    OBVIOUS
  <2>2. Kinds[P[b]] \in Classes /\ Kinds[P[b]] # "separator"
    BY <2>1, PreparedIs DEF Begins
  <2> QED BY <2>2 DEF Classes
<1>7. Yield(P, a, b) = TermsOf(Kinds[P[b]], r)
  BY DEF Yield
<1> HIDE DEF r, q, m
<1>8. r # <<>>
  BY <1>2, <1>3
<1>9. Each(Lower, r) = q
  <2> DEFINE e == Each(Lower, r)
  <2>1. e \in Seq(Prepared) /\ Len(e) = Len(r) /\ \A i \in 1..Len(r) : e[i] = Lower[r[i]]
    BY <1>3, Settled
  <2> HIDE DEF e
  <2>2. ASSUME NEW i \in 1..m PROVE e[i] = q[i]
    <3>1. a + i - 1 \in 1..Len(P) /\ r[i] = P[a + i - 1]
      <4>1. a + i - 1 \in a..b
        BY <1>3
      <4> QED BY <4>1, <1>3
    <3>2. e[i] = Lower[r[i]] /\ q[i] = S[a + i - 1]
      BY <1>3, <1>5, <2>1
    <3> QED BY <3>1, <3>2, <1>1
  <2>3. e = q
    BY <1>3, <1>5, <2>1, <2>2, SameSeq
  <2> QED BY <2>3 DEF e
<1>10. ASSUME Kinds[P[b]] = "word" PROVE Yield(P, a, b) = <<q>>
  <2>1. FoldTerm(r) = Each(Lower, r)
    BY <1>3, Settled
  <2>2. TermsOf(Kinds[P[b]], r) = <<FoldTerm(r)>>
    BY <1>8, <1>10 DEF TermsOf
  <2> QED BY <1>7, <1>9, <2>1, <2>2
<1>11. ASSUME Kinds[P[b]] = "cjk", NEW j \in a..b PROVE S[j] = P[j]
  <2>1. j \in 1..Len(P) /\ P[j] \in Prepared /\ Kinds[P[j]] = "cjk"
    BY <1>4, <1>11
  <2>2. Lower[P[j]] = P[j]
    BY <2>1, FoldingAssumption
  <2> QED BY <2>1, <2>2, <1>1
<1>12. ASSUME Kinds[P[b]] = "cjk", a = b PROVE Yield(P, a, b) = <<q>>
  <2>1. Len(r) = 1
    BY <1>12, <1>3 DEF m
  <2>2. TermsOf(Kinds[P[b]], r) = <<r>>
    BY <1>8, <1>12, <2>1 DEF TermsOf
  <2>3. \A i \in 1..m : q[i] = r[i]
    <3> SUFFICES ASSUME NEW i \in 1..m PROVE q[i] = r[i]
      OBVIOUS
    <3>1. a + i - 1 \in a..b /\ q[i] = S[a + i - 1] /\ r[i] = P[a + i - 1]
      BY <1>3, <1>5
    <3> QED BY <3>1, <1>11, <1>12
  <2>4. q = r
    BY <1>3, <1>5, <2>3, SameSeq
  <2> QED BY <1>7, <2>2, <2>4
<1>13. ASSUME Kinds[P[b]] = "cjk", a < b
       PROVE  Yield(P, a, b) = [i \in 1..(b - a) |-> SubSeq(S, a + i - 1, a + i)]
  <2>1. Len(r) # 1 /\ Len(r) - 1 = b - a
    BY <1>13, <1>3 DEF m
  <2>2. TermsOf(Kinds[P[b]], r) = [i \in 1..(Len(r) - 1) |-> <<r[i], r[i + 1]>>]
    BY <1>8, <1>13, <2>1 DEF TermsOf
  <2>3. ASSUME NEW i \in 1..(b - a) PROVE <<r[i], r[i + 1]>> = SubSeq(S, a + i - 1, a + i)
    <3>1. i \in 1..m /\ i + 1 \in 1..m
      BY DEF m
    <3>2. r[i] = P[a + i - 1] /\ r[i + 1] = P[a + (i + 1) - 1]
      BY <1>3, <3>1
    <3> DEFINE j == a + i - 1
    <3>3. j \in 1..Len(S) /\ j < Len(S) /\ j + 1 = a + i /\ a + (i + 1) - 1 = j + 1 /\ j \in a..b /\ j + 1 \in a..b
      BY <1>1, <1>2
    <3>4. r[i] = P[j] /\ r[i + 1] = P[j + 1]
      BY <3>2, <3>3
    <3> HIDE DEF j
    <3>5. SubSeq(S, j, j + 1) = <<S[j], S[j + 1]>>
      BY <1>1, <3>3, PieceOfTwo
    <3>6. S[j] = P[j] /\ S[j + 1] = P[j + 1]
      BY <1>11, <1>13, <3>3
    <3>7. <<r[i], r[i + 1]>> = SubSeq(S, j, j + 1)
      BY <3>4, <3>5, <3>6
    <3> QED BY <3>3, <3>7 DEF j
  <2>4. [i \in 1..(b - a) |-> <<r[i], r[i + 1]>>] = [i \in 1..(b - a) |-> SubSeq(S, a + i - 1, a + i)]
    BY <2>3
  <2> QED BY <1>7, <2>1, <2>2, <2>4
<1> HIDE DEF Yield
<1> QED BY <1>6, <1>10, <1>12, <1>13 DEF S, q
-----------------------------------------------------------------------------
(* The words of a dictionary.                                              *)

\* A word as the dictionary spells it: prepared and small, of one class, and no more than
\* two characters of CJK.
Plain(t) ==
  /\ t \in Seq(Prepared) /\ t # <<>>
  /\ \A i \in 1..Len(t) : Lower[t[i]] = t[i] /\ Kinds[t[i]] = Kinds[t[1]]
  /\ Kinds[t[1]] = "word" \/ (Kinds[t[1]] = "cjk" /\ Len(t) <= 2)

\* A piece of a run, as it is spelled, is a word: if it is CJK, no more than two of it.
LEMMA PieceOfRun ==
  ASSUME NEW P \in Seq(Prepared), NEW b \in 1..Len(P), NEW a \in 1..b, Begins(P, a, b),
         NEW y \in a..b, NEW x \in a..y, Kinds[P[b]] = "cjk" => y - x + 1 <= 2
  PROVE  Plain(SubSeq(Each(Lower, P), x, y))
<1> DEFINE S == Each(Lower, P)
           t == SubSeq(S, x, y)
           m == y - x + 1
<1>1. S \in Seq(Prepared) /\ Len(S) = Len(P)
      /\ \A i \in 1..Len(P) : S[i] = Lower[P[i]] /\ Kinds[Lower[P[i]]] = Kinds[P[i]]
  BY Settled
<1>2. y \in 1..Len(S) /\ x \in 1..y /\ m \in Nat /\ m >= 1
  BY <1>1
<1> HIDE DEF S
<1>3. t \in Seq(Prepared) /\ Len(t) = m /\ \A i \in 1..m : t[i] = S[x + i - 1]
  BY <1>1, <1>2, PieceIs
<1> HIDE DEF t
<1>4. ASSUME NEW i \in 1..m PROVE Lower[t[i]] = t[i] /\ Kinds[t[i]] = Kinds[P[b]]
  <2>1. x + i - 1 \in a..b /\ x + i - 1 \in 1..Len(P)
    OBVIOUS
  <2> DEFINE j == x + i - 1
  <2>2. j \in a..b /\ j \in 1..Len(P) /\ t[i] = S[j]
    BY <2>1, <1>3
  <2> HIDE DEF j
  <2>3. t[i] = Lower[P[j]] /\ Kinds[Lower[P[j]]] = Kinds[P[j]] /\ P[j] \in Prepared
    BY <1>1, <2>2
  <2>4. Kinds[P[j]] = Kinds[P[b]]
    BY <2>2 DEF Begins
  <2>5. Lower[Lower[P[j]]] = Lower[P[j]]
    BY <2>3, FoldingAssumption
  <2> QED BY <2>3, <2>4, <2>5
<1>5. Kinds[P[b]] \in {"word", "cjk"}
  <2>1. P[b] \in Prepared
    OBVIOUS
  <2>2. Kinds[P[b]] \in Classes /\ Kinds[P[b]] # "separator"
    BY <2>1, PreparedIs DEF Begins
  <2> QED BY <2>2 DEF Classes
<1>6. 1 \in 1..m /\ t # <<>>
  BY <1>2, <1>3
<1>7. Kinds[P[b]] = "cjk" => m <= 2
  OBVIOUS
<1> HIDE DEF m
<1>8. Plain(t)
  BY <1>3, <1>4, <1>5, <1>6, <1>7 DEF Plain
<1> QED BY <1>8 DEF t, S

\* What a run contributes are words.
LEMMA YieldPlain ==
  ASSUME NEW P \in Seq(Prepared), NEW b \in 1..Len(P), NEW a \in 1..b, Begins(P, a, b),
         NEW t \in ToSet(Yield(P, a, b))
  PROVE  Plain(t)
<1> DEFINE S == Each(Lower, P)
           K == Kinds[P[b]]
<1>1. /\ K = "word" \/ a = b => Yield(P, a, b) = <<SubSeq(S, a, b)>>
      /\ K = "cjk" /\ a < b => Yield(P, a, b) = [i \in 1..(b - a) |-> SubSeq(S, a + i - 1, a + i)]
      /\ K \in {"word", "cjk"}
  BY YieldIs
<1> HIDE DEF S
<1>2. CASE K = "word" \/ a = b
  <2>1. t = SubSeq(S, a, b)
    BY <1>1, <1>2 DEF ToSet
  <2>2. b \in a..b /\ a \in a..b /\ (K = "cjk" => b - a + 1 <= 2)
    BY <1>2
  <2>3. Plain(SubSeq(S, a, b))
    BY <2>2, PieceOfRun DEF S
  <2> QED BY <2>1, <2>3
<1>3. CASE K = "cjk" /\ a < b
  <2>1. PICK i \in 1..(b - a) : t = SubSeq(S, a + i - 1, a + i)
    BY <1>1, <1>3 DEF ToSet
  <2>2. a + i \in a..b /\ a + i - 1 \in a..(a + i) /\ (K = "cjk" => (a + i) - (a + i - 1) + 1 <= 2)
    OBVIOUS
  <2> DEFINE y == a + i
             x == a + i - 1
  <2>3. y \in a..b /\ x \in a..y /\ (K = "cjk" => y - x + 1 <= 2) /\ t = SubSeq(S, x, y)
    BY <2>1, <2>2
  <2> HIDE DEF x, y
  <2>4. Plain(SubSeq(S, x, y))
    BY <2>3, PieceOfRun DEF S
  <2> QED BY <2>3, <2>4
<1>4. a < b \/ a = b
  OBVIOUS
<1> QED BY <1>1, <1>2, <1>3, <1>4

\* Every word a text is cut into is one.
LEMMA TokensPlain ==
  ASSUME NEW text \in Text, NEW t \in ToSet(Tokenise(text))
  PROVE  Plain(t)
<1> DEFINE P == Prepare(text)
<1>1. P \in Seq(Prepared)
  BY TokeniseIs
<1>2. \E b \in 1..Len(P) : \E a \in 1..b : Run(P, a, b) /\ t \in ToSet(Yield(P, a, b))
  BY TokeniseIs
<1> HIDE DEF P
<1>3. PICK b \in 1..Len(P) : \E a \in 1..b : Run(P, a, b) /\ t \in ToSet(Yield(P, a, b))
  BY <1>2
<1>4. PICK a \in 1..b : Run(P, a, b) /\ t \in ToSet(Yield(P, a, b))
  BY <1>3
<1>5. Begins(P, a, b)
  BY <1>4 DEF Run
<1> QED BY <1>1, <1>4, <1>5, YieldPlain

\* A word of the dictionary asks for itself.
LEMMA PlainTokenise ==
  ASSUME NEW t, Plain(t)
  PROVE  t \in Text /\ Tokenise(t) = <<t>>
<1> DEFINE n == Len(t)
           S == Each(Lower, t)
<1>1. t \in Seq(Prepared) /\ n \in Nat /\ n >= 1
  BY DEF Plain
<1>2. t \in Text
  BY <1>1, PreparedIs DEF Text
<1>3. Prepare(t) = t /\ S \in Seq(Prepared) /\ Len(S) = n /\ \A i \in 1..n : S[i] = Lower[t[i]]
  BY <1>1, Settled
<1>4. n \in 1..n /\ 1 \in 1..n
  BY <1>1
<1> HIDE DEF S
<1>5. S = t
  <2>1. \A i \in 1..n : S[i] = t[i]
    BY <1>3 DEF Plain
  <2> QED BY <1>1, <1>3, <2>1, SameSeq
<1>6. Kinds[t[n]] = Kinds[t[1]] /\ Kinds[t[1]] \in {"word", "cjk"} /\ \A j \in 1..n : Kinds[t[j]] = Kinds[t[1]]
  BY <1>4 DEF Plain
<1>7. Begins(t, 1, n)
  <2>1. Kinds[t[n]] # "separator" /\ \A j \in 1..n : Kinds[t[j]] = Kinds[t[n]]
    BY <1>6
  <2> HIDE DEF n
  <2> QED BY <2>1, <1>4 DEF Begins
<1>8. Run(t, 1, n)
  BY <1>4, <1>7, <1>1 DEF Run
<1>9. \E before \in Seq(Text) : Tokenise(t) = before \o Yield(t, 1, n) /\ (1 = 1 => before = <<>>)
  <2>1. \A a \in 1..Len(Prepare(t)) : Run(Prepare(t), a, Len(Prepare(t))) =>
          \E before \in Seq(Text) : Tokenise(t) = before \o Yield(Prepare(t), a, Len(Prepare(t))) /\ (a = 1 => before = <<>>)
    BY <1>2, TokeniseIs
  <2>2. \A a \in 1..Len(t) : Run(t, a, Len(t)) =>
          \E before \in Seq(Text) : Tokenise(t) = before \o Yield(t, a, Len(t)) /\ (a = 1 => before = <<>>)
    BY <2>1, <1>3, Zenon
  <2> QED BY <2>2, <1>4, <1>8
<1>10. Tokenise(t) = <<>> \o Yield(t, 1, n)
  BY <1>9
<1>11. Yield(t, 1, n) = <<t>>
  <2>1. /\ Kinds[t[n]] = "word" \/ 1 = n => Yield(t, 1, n) = <<SubSeq(S, 1, n)>>
        /\ Kinds[t[n]] = "cjk" /\ 1 < n => Yield(t, 1, n) = [i \in 1..(n - 1) |-> SubSeq(S, 1 + i - 1, 1 + i)]
    <3>1. /\ Kinds[t[n]] = "word" \/ 1 = n => Yield(t, 1, n) = <<SubSeq(Each(Lower, t), 1, n)>>
          /\ Kinds[t[n]] = "cjk" /\ 1 < n => Yield(t, 1, n) = [i \in 1..(n - 1) |-> SubSeq(Each(Lower, t), 1 + i - 1, 1 + i)]
      BY <1>1, <1>4, <1>7, YieldIs
    <3> QED BY <3>1 DEF S
  <2>2. SubSeq(S, 1, n) = t
    <3> DEFINE r == SubSeq(t, 1, n)
    <3>1. r \in Seq(Prepared) /\ Len(r) = n - 1 + 1 /\ \A i \in 1..(n - 1 + 1) : r[i] = t[1 + i - 1]
      BY <1>1, <1>4, PieceIs
    <3> HIDE DEF r
    <3>2. Len(r) = n /\ \A i \in 1..n : r[i] = t[i]
      <4>1. n - 1 + 1 = n /\ \A i \in 1..n : 1 + i - 1 = i
        BY <1>1
      <4> QED BY <3>1, <4>1
    <3>3. r = t
      BY <1>1, <3>1, <3>2, SameSeq
    <3> QED BY <3>3, <1>5 DEF r
  <2>3. CASE Kinds[t[n]] = "word" \/ 1 = n
    BY <2>1, <2>2, <2>3
  <2>4. CASE Kinds[t[n]] = "cjk" /\ 1 < n
    <3>1. n = 2
      <4>1. n <= 2
        BY <2>4, <1>6 DEF Plain
      <4>2. \A m \in Nat : m <= 2 /\ 1 < m => m = 2
        OBVIOUS
      <4> QED BY <4>1, <4>2, <2>4, <1>1, Zenon
    <3> DEFINE y == [i \in 1..(n - 1) |-> SubSeq(S, 1 + i - 1, 1 + i)]
    <3>2. Yield(t, 1, n) = y
      BY <2>1, <2>4
    <3>3. SubSeq(S, 1 + 1 - 1, 1 + 1) = t
      BY <2>2, <3>1
    <3>4. y \in Seq({t}) /\ Len(y) = 1 /\ y[1] = t
      <4> DEFINE F(i) == SubSeq(S, 1 + i - 1, 1 + i)
      <4>1. F(1) = t
        BY <3>3
      <4>2. y = [i \in 1..1 |-> F(i)]
        BY <3>1
      <4> HIDE DEF F, y
      <4>3. \A i \in 1..1 : F(i) = t
        BY <4>1
      <4> QED BY <4>2, <4>3
    <3> HIDE DEF y
    <3>5. y = <<t>>
      BY <3>4
    <3> QED BY <3>2, <3>5
  <2>5. 1 = n \/ 1 < n
    BY <1>1
  <2> QED BY <2>3, <2>4, <2>5, <1>6
<1>12. Tokenise(t) = <<t>>
  <2>1. <<t>> \in Seq(Text)
    BY <1>2
  <2>2. <<>> \o <<t>> = <<t>>
    BY <2>1, ConcatEmptySeq, Zenon
  <2> QED BY <1>10, <1>11, <2>2, Zenon
<1> QED BY <1>2, <1>12

-----------------------------------------------------------------------------
(* A damaged file.                                                         *)

\* What a file with one thing wrong still is, whatever is wrong in it: n sections, words
\* of V, addresses of D and arrays of numbers.
Shapes(n, V, D) ==
  [n : {n}, terms : Seq(V), df : Seq(Int), docs : Seq(D),
   f : [Fields -> [cnt : Seq(Int), post : Seq(Int)]],
   len : [Fields -> [1..n -> Nat]], totalLen : [Fields -> Nat]]

\* An element of a sequence is replaced.
LEMMA Replaced ==
  ASSUME NEW X, NEW s \in Seq(X), NEW i, NEW v, i \in DOMAIN s => v \in X
  PROVE  [s EXCEPT ![i] = v] \in Seq(X)
<1> DEFINE n == Len(s)
           r == [s EXCEPT ![i] = v]
<1>1. n \in Nat /\ s \in [1..n -> X] /\ DOMAIN s = 1..n
  OBVIOUS
<1>2. r = [j \in 1..n |-> IF j = i THEN v ELSE s[j]]
  BY <1>1
<1> HIDE DEF n, r
<1>3. \A j \in 1..n : (IF j = i THEN v ELSE s[j]) \in X
  BY <1>1
<1>4. r \in [1..n -> X]
  BY <1>2, <1>3
<1>5. r \in Seq(X)
  BY <1>1, <1>4
<1> QED BY <1>5 DEF r

\* One array of one field is another.
LEMMA FieldReplaced ==
  ASSUME NEW n, NEW V, NEW D, NEW ix \in Shapes(n, V, D), NEW g \in Fields, NEW c \in Seq(Int)
  PROVE  /\ [ix EXCEPT !.f[g].cnt = c] \in Shapes(n, V, D)
         /\ [ix EXCEPT !.f[g].post = c] \in Shapes(n, V, D)
         /\ ix.f[g].cnt \in Seq(Int) /\ ix.f[g].post \in Seq(Int)
<1> DEFINE Arrays == [cnt : Seq(Int), post : Seq(Int)]
           old == ix.f[g]
           new1 == [old EXCEPT !.cnt = c]
           new2 == [old EXCEPT !.post = c]
<1>1. ix.f \in [Fields -> Arrays]
  BY DEF Shapes
<1>2. old \in Arrays
  BY <1>1
<1> HIDE DEF old
<1>3. new1 \in Arrays /\ new2 \in Arrays /\ old.cnt \in Seq(Int) /\ old.post \in Seq(Int)
  BY <1>2
<1>4. ASSUME NEW a \in Arrays PROVE [ix EXCEPT !.f[g] = a] \in Shapes(n, V, D)
  <2> DEFINE F == [ix.f EXCEPT ![g] = a]
  <2>1. F \in [Fields -> Arrays]
    BY <1>1
  <2>2. [ix EXCEPT !.f[g] = a] = [ix EXCEPT !.f = F]
    OBVIOUS
  <2> HIDE DEF F
  <2>3. [ix EXCEPT !.f = F] \in Shapes(n, V, D)
    BY <2>1 DEF Shapes
  <2> QED BY <2>2, <2>3
<1>5. [ix EXCEPT !.f[g].cnt = c] = [ix EXCEPT !.f[g] = new1] /\ [ix EXCEPT !.f[g].post = c] = [ix EXCEPT !.f[g] = new2]
  BY DEF old
<1> HIDE DEF new1, new2
<1>6. [ix EXCEPT !.f[g] = new1] \in Shapes(n, V, D) /\ [ix EXCEPT !.f[g] = new2] \in Shapes(n, V, D)
  BY <1>3, <1>4
<1> QED BY <1>3, <1>5, <1>6 DEF old

\* A sequence of the file is another.
LEMMA PartReplaced ==
  ASSUME NEW n, NEW V, NEW D, NEW ix \in Shapes(n, V, D)
  PROVE  /\ \A c \in Seq(Int) : [ix EXCEPT !.df = c] \in Shapes(n, V, D)
         /\ \A c \in Seq(V) : [ix EXCEPT !.terms = c] \in Shapes(n, V, D)
         /\ \A c \in Seq(D) : [ix EXCEPT !.docs = c] \in Shapes(n, V, D)
         /\ ix.df \in Seq(Int) /\ ix.terms \in Seq(V) /\ ix.docs \in Seq(D)
  BY DEF Shapes

\* Damage keeps the shape.
LEMMA DamagedShape ==
  ASSUME NEW n, NEW V, NEW D, NEW ix \in Shapes(n, V, D), Len(ix.df) = Len(ix.terms), NEW d \in Damaged(ix)
  PROVE  d \in Shapes(n, V, D)
<1>1. /\ ix.df \in Seq(Int) /\ ix.terms \in Seq(V) /\ ix.docs \in Seq(D)
      /\ \A g \in Fields : ix.f[g].cnt \in Seq(Int) /\ ix.f[g].post \in Seq(Int)
  <2>1. ix.df \in Seq(Int) /\ ix.terms \in Seq(V) /\ ix.docs \in Seq(D)
    BY PartReplaced
  <2>2. ASSUME NEW g \in Fields PROVE ix.f[g].cnt \in Seq(Int) /\ ix.f[g].post \in Seq(Int)
    <3>1. <<>> \in Seq(Int)
      OBVIOUS
    <3> QED BY <3>1, FieldReplaced
  <2> QED BY <2>1, <2>2
<1>f. ASSUME NEW g \in Fields, NEW c \in Seq(Int)
      PROVE  [ix EXCEPT !.f[g].cnt = c] \in Shapes(n, V, D) /\ [ix EXCEPT !.f[g].post = c] \in Shapes(n, V, D)
  BY FieldReplaced
<1>p. /\ \A c \in Seq(Int) : [ix EXCEPT !.df = c] \in Shapes(n, V, D)
      /\ \A c \in Seq(V) : [ix EXCEPT !.terms = c] \in Shapes(n, V, D)
      /\ \A c \in Seq(D) : [ix EXCEPT !.docs = c] \in Shapes(n, V, D)
  BY PartReplaced
<1>2. ASSUME NEW g \in Fields, NEW i \in DOMAIN ix.f[g].post, d \in PostingDamaged(ix, g, i)
      PROVE  d \in Shapes(n, V, D)
  <2> DEFINE s == ix.f[g].post
  <2>1. s \in Seq(Int) /\ s[i] - 1 \in Int /\ s[i] + 1 \in Int
    <3>1. s \in Seq(Int) /\ i \in DOMAIN s
      BY <1>1
    <3> HIDE DEF s
    <3>2. s[i] \in Int
      BY <3>1
    <3> QED BY <3>1, <3>2
  <2>2. [s EXCEPT ![i] = s[i] - 1] \in Seq(Int) /\ [s EXCEPT ![i] = s[i] + 1] \in Seq(Int)
    BY <2>1, Replaced
  <2>3. SubSeq(s, 1, i - 1) \in Seq(Int)
    <3>1. i \in 1..Len(s) /\ s \in Seq(Int)
      BY <2>1
    <3> HIDE DEF s
    <3> QED BY <3>1
  <2>4. \/ d = [ix EXCEPT !.f[g].post = [s EXCEPT ![i] = s[i] - 1]]
        \/ d = [ix EXCEPT !.f[g].post = [s EXCEPT ![i] = s[i] + 1]]
        \/ d = [ix EXCEPT !.f[g].post = SubSeq(s, 1, i - 1)]
    BY <1>2 DEF Shapes, PostingDamaged
  <2> HIDE DEF s
  <2> DEFINE a == [s EXCEPT ![i] = s[i] - 1]
             b == [s EXCEPT ![i] = s[i] + 1]
             c == SubSeq(s, 1, i - 1)
  <2>5. a \in Seq(Int) /\ b \in Seq(Int) /\ c \in Seq(Int)
    BY <2>2, <2>3
  <2>6. d = [ix EXCEPT !.f[g].post = a] \/ d = [ix EXCEPT !.f[g].post = b] \/ d = [ix EXCEPT !.f[g].post = c]
    BY <2>4
  <2> HIDE DEF a, b, c
  <2> QED BY <2>5, <2>6, <1>f, Zenon
<1>3. ASSUME NEW g \in Fields, NEW i \in DOMAIN ix.terms, d \in CountDamaged(ix, g, i)
      PROVE  d \in Shapes(n, V, D)
  <2> DEFINE s == ix.f[g].cnt
             k == (i % Len(ix.terms)) + 1
             t == [s EXCEPT ![i] = s[i] - 1]
             b == [s EXCEPT ![i] = s[i] + 1]
             e == Moved(s, i, k)
  <2>1. s \in Seq(Int)
    BY <1>1
  <2>2. d = [ix EXCEPT !.f[g].cnt = t] \/ d = [ix EXCEPT !.f[g].cnt = b] \/ d = [ix EXCEPT !.f[g].cnt = e]
    BY <1>3 DEF Shapes, CountDamaged
  <2> HIDE DEF k, s
  <2>3. \A j \in DOMAIN s : s[j] \in Int /\ s[j] - 1 \in Int /\ s[j] + 1 \in Int
    BY <2>1
  <2>4. t \in Seq(Int) /\ b \in Seq(Int)
    BY <2>1, <2>3, Replaced
  <2>5. e = [t EXCEPT ![k] = t[k] + 1]
    BY DEF Moved
  <2> HIDE DEF t, b, e
  <2>6. \A j \in DOMAIN t : t[j] + 1 \in Int
    BY <2>4
  <2>7. [t EXCEPT ![k] = t[k] + 1] \in Seq(Int)
    BY <2>4, <2>6, Replaced
  <2>8. e \in Seq(Int)
    BY <2>5, <2>7
  <2> QED BY <2>2, <2>4, <2>8, <1>f, Zenon
<1>4. ASSUME NEW i \in DOMAIN ix.terms, d \in TermDamaged(ix, i)
      PROVE  d \in Shapes(n, V, D)
  <2> DEFINE s == ix.df
             t == ix.terms
  <2>1. s \in Seq(Int) /\ t \in Seq(V) /\ i \in DOMAIN s
    BY <1>1
  <2>2. \/ d = [ix EXCEPT !.df = [s EXCEPT ![i] = s[i] - 1]]
        \/ d = [ix EXCEPT !.df = [s EXCEPT ![i] = s[i] + 1]]
        \/ d = [ix EXCEPT !.terms = [t EXCEPT ![i] = t[1]]]
    BY <1>4 DEF Shapes, TermDamaged
  <2>3. i \in DOMAIN t
    OBVIOUS
  <2> HIDE DEF s, t
  <2>4. s[i] - 1 \in Int /\ s[i] + 1 \in Int /\ t[1] \in V
    BY <2>1, <2>3
  <2>5. [s EXCEPT ![i] = s[i] - 1] \in Seq(Int) /\ [s EXCEPT ![i] = s[i] + 1] \in Seq(Int) /\ [t EXCEPT ![i] = t[1]] \in Seq(V)
    BY <2>1, <2>4, Replaced
  <2> DEFINE a == [s EXCEPT ![i] = s[i] - 1]
             b == [s EXCEPT ![i] = s[i] + 1]
             c == [t EXCEPT ![i] = t[1]]
  <2>6. a \in Seq(Int) /\ b \in Seq(Int) /\ c \in Seq(V)
    BY <2>5
  <2>7. d = [ix EXCEPT !.df = a] \/ d = [ix EXCEPT !.df = b] \/ d = [ix EXCEPT !.terms = c]
    BY <2>2
  <2> HIDE DEF a, b, c
  <2> QED BY <2>6, <2>7, <1>p, Zenon
<1>5. ASSUME NEW i \in DOMAIN ix.docs, d = [ix EXCEPT !.docs[i] = ix.docs[1]]
      PROVE  d \in Shapes(n, V, D)
  <2> DEFINE s == ix.docs
  <2>1. s \in Seq(D) /\ i \in DOMAIN s
    BY <1>1
  <2>2. d = [ix EXCEPT !.docs = [s EXCEPT ![i] = s[1]]]
    BY <1>5 DEF Shapes
  <2> HIDE DEF s
  <2>3. s[1] \in D
    BY <2>1
  <2>4. [s EXCEPT ![i] = s[1]] \in Seq(D)
    BY <2>1, <2>3, Replaced
  <2> QED BY <2>2, <2>4, <1>p
<1> DEFINE Doc(i) == [ix EXCEPT !.docs[i] = ix.docs[1]]
           A1 == UNION {UNION {PostingDamaged(ix, f, i) : i \in DOMAIN ix.f[f].post} : f \in Fields}
           A2 == UNION {UNION {CountDamaged(ix, f, i) : i \in DOMAIN ix.terms} : f \in Fields}
           A3 == UNION {TermDamaged(ix, i) : i \in DOMAIN ix.terms}
           A4 == {Doc(i) : i \in DOMAIN ix.docs}
<1>6. d \in A1 \/ d \in A2 \/ d \in A3 \/ d \in A4
  <2>1. Damaged(ix) = A1 \cup A2 \cup A3 \cup A4
    <3> HIDE DEF Doc
    <3>1. {[ix EXCEPT !.docs[i] = ix.docs[1]] : i \in DOMAIN ix.docs} = A4
      BY DEF Doc
    <3>2. Damaged(ix) = A1 \cup A2 \cup A3 \cup {[ix EXCEPT !.docs[i] = ix.docs[1]] : i \in DOMAIN ix.docs}
      BY Zenon DEF Damaged
    <3> QED BY <3>1, <3>2, Zenon
  <2> HIDE DEF A1, A2, A3, A4
  <2> QED BY <2>1
<1>7. \A i \in DOMAIN ix.docs : d = Doc(i) => d \in Shapes(n, V, D)
  BY <1>5
<1> HIDE DEF Doc
<1>8. ASSUME d \in A1 PROVE d \in Shapes(n, V, D)
  <2>1. PICK g \in Fields : d \in UNION {PostingDamaged(ix, g, i) : i \in DOMAIN ix.f[g].post}
    BY <1>8
  <2>2. PICK i \in DOMAIN ix.f[g].post : d \in PostingDamaged(ix, g, i)
    BY <2>1
  <2> QED BY <2>2, <1>2
<1>9. ASSUME d \in A2 PROVE d \in Shapes(n, V, D)
  <2>1. PICK g \in Fields : d \in UNION {CountDamaged(ix, g, i) : i \in DOMAIN ix.terms}
    BY <1>9
  <2>2. PICK i \in DOMAIN ix.terms : d \in CountDamaged(ix, g, i)
    BY <2>1
  <2> QED BY <2>2, <1>3
<1>10. ASSUME d \in A3 PROVE d \in Shapes(n, V, D)
  <2>1. PICK i \in DOMAIN ix.terms : d \in TermDamaged(ix, i)
    BY <1>10
  <2> QED BY <2>1, <1>4
<1>11. ASSUME d \in A4 PROVE d \in Shapes(n, V, D)
  BY <1>7, <1>11
<1> HIDE DEF A1, A2, A3, A4
<1> QED BY <1>6, <1>8, <1>9, <1>10, <1>11

\* What a built field is encoded as is two arrays of numbers.
LEMMA EncodedType ==
  ASSUME NEW words \in Seq(Seq(Text)), NEW dictionary \in Seq(Text)
  PROVE  Encode(dictionary, words) \in [cnt : Seq(Int), post : Seq(Int)]
<1> DEFINE Tf(j) == Gathered(words, dictionary[j])
           n == Len(dictionary)
           cnt == [i \in DOMAIN dictionary |-> Cardinality(DOMAIN Tf(i))]
           slices == [i \in DOMAIN dictionary |-> Slice(Tf(i))]
<1>1. n \in Nat /\ DOMAIN dictionary = 1..n
  OBVIOUS
<1>2. ASSUME NEW j \in 1..n PROVE Slice(Tf(j)) \in Seq(Int) /\ Cardinality(DOMAIN Tf(j)) \in Int
  <2>1. Counts(Tf(j))
    BY GatheredIs
  <2> HIDE DEF Tf
  <2>2. Cardinality(DOMAIN Tf(j)) \in Nat
    BY <2>1, FS_CardinalityType DEF Counts
  <2>3. Slice(Tf(j)) \in Seq(Int)
    BY <2>1, SliceIs
  <2> QED BY <2>2, <2>3
<1>3. Encode(dictionary, words) = [cnt |-> cnt, post |-> FlattenSeq(slices)]
  BY DEF Encode
<1> HIDE DEF Tf
<1>4. cnt \in Seq(Int) /\ slices \in Seq(Seq(Int))
  BY <1>1, <1>2
<1> HIDE DEF slices, cnt
<1>5. FlattenSeq(slices) \in Seq(Int)
  BY <1>4, FlattenIs DEF Joined
<1> QED BY <1>3, <1>4, <1>5

\* The addresses of a corpus.
Addresses(ps) == {Sections(ps)[d].doc : d \in 1..Len(Sections(ps))}

\* A built index has the shape.
LEMMA BuiltShape ==
  ASSUME NEW ps \in Corpora
  PROVE  /\ Build(ps) \in Shapes(Len(Sections(ps)), Vocabulary(ps), Addresses(ps))
         /\ Len(Build(ps).df) = Len(Build(ps).terms)
<1> DEFINE b == Build(ps)
           n == Len(Sections(ps))
           W == Words(Sections(ps))
<1>1. IsCorpus(ps) /\ Readable(b)
  BY SearchAssumption, BuiltReadable
<1>2. n \in Nat /\ DOMAIN Sections(ps) = 1..n
  BY <1>1, WordsIs, FieldsAre
<1>3. /\ b.n = n /\ b.docs = [d \in DOMAIN Sections(ps) |-> Sections(ps)[d].doc]
      /\ \A g \in Fields : /\ b.f[g] = Encode(b.terms, W[g])
                           /\ b.len[g] = [d \in DOMAIN Sections(ps) |-> Len(W[g][d])]
  BY BuildHas
<1>4. b.terms \in Seq(Text) /\ ToSet(b.terms) = Vocabulary(ps)
  BY <1>1, DictionaryIs
<1>5. b.terms \in Seq(Vocabulary(ps)) /\ DOMAIN b.terms = 1..Len(b.terms) /\ Len(b.terms) \in Nat
  <2> DEFINE t == b.terms
             V == Vocabulary(ps)
  <2>1. t \in Seq(Text) /\ ToSet(t) = V
    BY <1>4
  <2> HIDE DEF t, V
  <2>2. Len(t) \in Nat /\ DOMAIN t = 1..Len(t) /\ t \in [1..Len(t) -> V]
    BY <2>1 DEF ToSet
  <2>3. t \in Seq(V)
    BY <2>2
  <2> QED BY <2>2, <2>3 DEF t, V
<1>6. b.docs \in Seq(Addresses(ps))
  BY <1>2, <1>3 DEF Addresses
<1>7. /\ b = [n |-> b.n, terms |-> b.terms, df |-> b.df, f |-> b.f, len |-> b.len,
              totalLen |-> b.totalLen, docs |-> b.docs]
      /\ b.f = [g \in Fields |-> b.f[g]] /\ b.len = [g \in Fields |-> b.len[g]]
      /\ b.totalLen = [g \in Fields |-> b.totalLen[g]]
      /\ b.df = [i \in DOMAIN b.terms |-> b.df[i]]
  <2>1. b = [n |-> b.n, terms |-> b.terms, df |-> b.df, f |-> b.f, len |-> b.len,
             totalLen |-> b.totalLen, docs |-> b.docs]
    BY DEF Build
  <2>2. b.f = [g \in Fields |-> b.f[g]] /\ b.len = [g \in Fields |-> b.len[g]]
    BY DEF Build
  <2>3. b.totalLen = [g \in Fields |-> b.totalLen[g]]
    BY DEF Build
  <2>4. b.df = [i \in DOMAIN b.terms |-> b.df[i]]
    BY DEF Build
  <2> HIDE DEF b
  <2> QED BY <2>1, <2>2, <2>3, <2>4
<1> HIDE DEF b
<1>8. b.df \in Seq(Int) /\ Len(b.df) = Len(b.terms)
  <2>1. ASSUME NEW i \in DOMAIN b.terms PROVE b.df[i] \in Int
    <3>1. b.terms[i] \in Vocabulary(ps)
      BY <1>5
    <3>2. b.df[i] = Cardinality(Holders(ps, b.terms[i]))
      BY <1>1, HoldingIs DEF b
    <3>3. b.df[i] \in 1..n
      BY <1>1, <3>1, <3>2, HoldersAre
    <3> HIDE DEF n
    <3> QED BY <3>3, <1>2
  <2> DEFINE df == b.df
             L == Len(b.terms)
  <2>2. df = [i \in 1..L |-> df[i]] /\ L \in Nat /\ \A i \in 1..L : df[i] \in Int
    BY <1>5, <1>7, <2>1
  <2> HIDE DEF df, L
  <2>3. df \in Seq(Int) /\ Len(df) = L
    BY <2>2
  <2> QED BY <2>3 DEF df, L
<1>9. ASSUME NEW g \in Fields
      PROVE  b.f[g] \in [cnt : Seq(Int), post : Seq(Int)] /\ b.len[g] \in [1..n -> Nat] /\ b.totalLen[g] \in Nat
  <2>1. W[g] \in Seq(Seq(Text)) /\ Len(W[g]) = n
    BY <1>1, WordsIs
  <2>2. Encode(b.terms, W[g]) \in [cnt : Seq(Int), post : Seq(Int)]
    <3> HIDE DEF W
    <3> QED BY <1>4, <2>1, EncodedType
  <2>3. b.totalLen[g] \in Nat
    BY <1>1 DEF Readable
  <2> HIDE DEF W, n
  <2>4. ASSUME NEW d \in 1..n PROVE Len(W[g][d]) \in Nat
    <3>1. W[g][d] \in Seq(Text)
      BY <2>1
    <3> QED BY <3>1
  <2>5. b.len[g] = [d \in 1..n |-> Len(W[g][d])]
    BY <1>2, <1>3
  <2> QED BY <1>3, <2>2, <2>3, <2>4, <2>5
<1>10. b \in Shapes(n, Vocabulary(ps), Addresses(ps))
  <2> HIDE DEF n, W
  <2>1. b.f \in [Fields -> [cnt : Seq(Int), post : Seq(Int)]] /\ b.len \in [Fields -> [1..n -> Nat]]
        /\ b.totalLen \in [Fields -> Nat]
    <3>1. b.f \in [Fields -> [cnt : Seq(Int), post : Seq(Int)]]
      BY <1>7, <1>9
    <3>2. b.len \in [Fields -> [1..n -> Nat]]
      BY <1>7, <1>9
    <3>3. b.totalLen \in [Fields -> Nat]
      BY <1>7, <1>9
    <3> QED BY <3>1, <3>2, <3>3
  <2> DEFINE x1 == b.n
             x2 == b.terms
             x3 == b.df
             x4 == b.f
             x5 == b.len
             x6 == b.totalLen
             x7 == b.docs
             r == [n |-> x1, terms |-> x2, df |-> x3, f |-> x4, len |-> x5, totalLen |-> x6, docs |-> x7]
  <2>2. b = r
    BY <1>7
  <2>3. x1 \in {n} /\ x2 \in Seq(Vocabulary(ps)) /\ x3 \in Seq(Int) /\ x7 \in Seq(Addresses(ps))
        /\ x4 \in [Fields -> [cnt : Seq(Int), post : Seq(Int)]] /\ x5 \in [Fields -> [1..n -> Nat]]
        /\ x6 \in [Fields -> Nat]
    BY <1>3, <1>5, <1>6, <1>8, <2>1 DEF n
  <2> HIDE DEF x1, x2, x3, x4, x5, x6, x7
  <2>4. r \in Shapes(n, Vocabulary(ps), Addresses(ps))
    BY <2>3 DEF Shapes
  <2> HIDE DEF r
  <2> QED BY <2>2, <2>4, Zenon
<1> QED BY <1>8, <1>10 DEF b

\* The words of a corpus are as the dictionary spells them, and its addresses for some reader.
LEMMA CorpusIs ==
  ASSUME NEW ps \in Corpora
  PROVE  /\ \A t \in Vocabulary(ps) : Plain(t)
         /\ \A d \in Addresses(ps) : /\ d.slug \in Text /\ d.anchor \in Text
                                     /\ d.audience \cap UNION Audiences # {}
<1> DEFINE n == Len(Sections(ps))
           W == Words(Sections(ps))
<1>1. IsCorpus(ps)
  BY SearchAssumption
<1>2. n \in Nat /\ DOMAIN Sections(ps) = 1..n
  BY <1>1, WordsIs, FieldsAre
<1>3. ASSUME NEW t \in Vocabulary(ps) PROVE Plain(t)
  <2>1. PICK f \in Fields : \E d \in 1..n : t \in ToSet(W[f][d])
    BY <1>2 DEF Vocabulary
  <2>2. PICK d \in 1..n : t \in ToSet(W[f][d])
    BY <2>1
  <2>3. Sections(ps)[d].text[f] \in Text /\ W[f][d] = Tokenise(Sections(ps)[d].text[f])
    BY <1>1, WordsIs
  <2> QED BY <2>2, <2>3, TokensPlain
<1>4. ASSUME NEW a \in Addresses(ps)
      PROVE  a.slug \in Text /\ a.anchor \in Text /\ a.audience \cap UNION Audiences # {}
  <2>1. PICK d \in 1..n : a = Sections(ps)[d].doc
    BY DEF Addresses
  <2>2. Sections(ps)[d] \in SectionsIn(AudiencesOf(ps))
    BY <1>1, <1>2, SectionsType
  <2>3. a.slug \in Text /\ a.anchor \in Text /\ a.audience \in AudiencesOf(ps)
    BY <2>1, <2>2 DEF SectionsIn
  <2>4. PICK p \in DOMAIN ps : a.audience = ps[p].audience
    BY <2>3 DEF AudiencesOf
  <2>5. IsPage(ps[p])
    BY <1>1 DEF IsCorpus
  <2> QED BY <2>3, <2>4, <2>5 DEF IsPage
<1> QED BY <1>3, <1>4

\* Words that stand each before the next stand each before all that come after it.
LEMMA NeighboursOrdered ==
  ASSUME NEW d \in Seq(Seq(Nat)), \A i \in 2..Len(d) : Less(d[i - 1], d[i])
  PROVE  Dictionary(d)
<1> SUFFICES ASSUME NEW i \in 1..Len(d), NEW j \in 1..Len(d), i < j PROVE Less(d[i], d[j])
  BY DEF Dictionary
<1> DEFINE n == Len(d)
           S == {k \in 1..n : Less(d[i], d[k])}
<1>1. n \in Nat /\ i + 1 \in Nat /\ i + 1 \in 1..n
  OBVIOUS
<1> HIDE DEF n
<1>2. i + 1 \in S
  <2>1. i + 1 \in 2..n /\ (i + 1) - 1 = i
    BY <1>1
  <2>2. Less(d[(i + 1) - 1], d[i + 1])
    BY <2>1 DEF n
  <2> QED BY <1>1, <2>1, <2>2
<1>3. ASSUME NEW k \in (i + 1)..n, k < n, k \in S PROVE k + 1 \in S
  <2>1. k + 1 \in 2..n /\ (k + 1) - 1 = k /\ k \in 1..n /\ k + 1 \in 1..n
    BY <1>1, <1>3
  <2>2. Less(d[(k + 1) - 1], d[k + 1])
    BY <2>1 DEF n
  <2>3. Less(d[k], d[k + 1]) /\ Less(d[i], d[k])
    BY <1>3, <2>1, <2>2
  <2>4. d[i] \in Seq(Nat) /\ d[k] \in Seq(Nat) /\ d[k + 1] \in Seq(Nat)
    <3>1. \A x \in 1..n : d[x] \in Seq(Nat)
      BY DEF n
    <3>2. i \in 1..n /\ k \in 1..n /\ k + 1 \in 1..n
      BY <2>1 DEF n
    <3> QED BY <3>1, <3>2
  <2>5. Less(d[i], d[k + 1])
    BY <2>3, <2>4, LessTransitive
  <2> QED BY <2>1, <2>5
<1> HIDE DEF S
<1>4. \A k \in (i + 1)..n : k \in S
  BY <1>1, <1>2, <1>3, Places
<1>5. j \in (i + 1)..n
  BY <1>1 DEF n
<1>6. j \in S
  BY <1>4, <1>5
<1> QED BY <1>6 DEF S

\* The file, whatever became of it, is one of the pages' shape.
ShapeInvariant ==
  /\ Invariant
  /\ index \in Shapes(Len(Sections(pages)), Vocabulary(pages), Addresses(pages))

\* Building gives the shape and damage keeps it.
LEMMA ShapeInvariantHolds ==
  Spec => []ShapeInvariant
<1>1. Init => ShapeInvariant
  <2> SUFFICES ASSUME Init PROVE ShapeInvariant
    OBVIOUS
  <2>1. Invariant /\ pages \in Corpora /\ index = Build(pages)
    BY DEF Init, Invariant
  <2> QED BY <2>1, BuiltShape DEF ShapeInvariant
<1>2. ShapeInvariant /\ Invariant' /\ [Next]_vars => ShapeInvariant'
  <2> SUFFICES ASSUME ShapeInvariant, Invariant', [Next]_vars PROVE ShapeInvariant'
    OBVIOUS
  <2>1. CASE Damage
    <3>1. index = Build(pages) /\ pages \in Corpora /\ pages' = pages /\ index' \in Damaged(index)
      BY <2>1 DEF Damage, ShapeInvariant, Invariant
    <3> DEFINE n == Len(Sections(pages))
               V == Vocabulary(pages)
               D == Addresses(pages)
    <3>2. index \in Shapes(n, V, D) /\ Len(index.df) = Len(index.terms)
      BY <3>1, BuiltShape
    <3> HIDE DEF n, V, D
    <3>3. index' \in Shapes(n, V, D)
      BY <3>1, <3>2, DamagedShape
    <3> QED BY <3>1, <3>3 DEF ShapeInvariant, n, V, D
  <2>2. CASE UNCHANGED <<pages, index>>
    BY <2>2 DEF ShapeInvariant
  <2>3. UNCHANGED <<pages, index>> \/ Damage
    BY DEF Next, Type, Clear, vars
  <2> QED BY <2>1, <2>2, <2>3
<1> QED BY <1>1, <1>2, InvariantHolds, PTL DEF Spec

\* A file that is accepted can be read.
LEMMA AcceptedReadable ==
  ASSUME ShapeInvariant, Accepted(index)
  PROVE  /\ Readable(index)
         /\ \A d \in 1..index.n : index.docs[d].audience \cap UNION Audiences # {}
         /\ \A i \in DOMAIN index.terms : /\ Plain(index.terms[i])
                                          /\ index.df[i] = Cardinality(Holding(index, i))
<1> DEFINE ix == index
           n == Len(Sections(pages))
           V == Vocabulary(pages)
           D == Addresses(pages)
<1>1. pages \in Corpora /\ IsCorpus(pages)
  BY SearchAssumption DEF ShapeInvariant, Invariant
<1>2. n \in Nat
  BY <1>1, WordsIs, FieldsAre
<1>3. ix \in Shapes(n, V, D)
  BY DEF ShapeInvariant
<1>4. (\A t \in V : Plain(t)) /\ V \in SUBSET Text
  BY <1>1, CorpusIs, VocabularyIs
<1>5. \A d \in D : d.slug \in Text /\ d.anchor \in Text /\ d.audience \cap UNION Audiences # {}
  BY <1>1, CorpusIs
<1>6. \A df \in 1..n : Idf(n, df) \in Positive
  BY <1>1, SearchAssumption DEF Positive
<1>a. /\ Len(ix.df) = Len(ix.terms)
      /\ Len(ix.docs) = ix.n
      /\ \A i \in 2..Len(ix.terms) : Less(ix.terms[i - 1], ix.terms[i])
      /\ \A f \in Fields : FieldHolds(ix, f)
      /\ \A i \in DOMAIN ix.df : ix.df[i] \in 1..ix.n /\ ix.df[i] = Cardinality(Holding(ix, i))
      /\ \A d, e \in DOMAIN ix.docs : d # e => <<ix.docs[d].slug, ix.docs[d].anchor>>
                                                # <<ix.docs[e].slug, ix.docs[e].anchor>>
  BY DEF Accepted
<1> HIDE DEF n, V, D, ix
<1>7. /\ ix.n = n /\ ix.terms \in Seq(V) /\ ix.df \in Seq(Int) /\ ix.docs \in Seq(D)
      /\ \A f \in Fields : /\ ix.f[f] \in [cnt : Seq(Int), post : Seq(Int)]
                           /\ ix.len[f] \in [1..n -> Nat] /\ ix.totalLen[f] \in Nat
  BY <1>3 DEF Shapes
<1>8. ix.terms \in Seq(Text) /\ ix.terms \in Seq(Seq(Nat)) /\ DOMAIN ix.terms = DOMAIN ix.df
      /\ \A i \in DOMAIN ix.terms : ix.terms[i] \in V
  <2> DEFINE t == ix.terms
  <2>1. t \in Seq(V) /\ V \in SUBSET Text /\ V \in SUBSET Seq(Nat)
    BY <1>4, <1>7, TextIs
  <2> HIDE DEF t
  <2>2. t \in Seq(Text) /\ t \in Seq(Seq(Nat)) /\ DOMAIN t = 1..Len(t) /\ \A i \in DOMAIN t : t[i] \in V
    BY <2>1
  <2>3. DOMAIN ix.df = 1..Len(ix.df)
    BY <1>7
  <2> QED BY <2>2, <2>3, <1>a DEF t
<1>9. Dictionary(ix.terms)
  BY <1>8, <1>a, NeighboursOrdered
<1>10. DOMAIN ix.docs = 1..n /\ \A d \in 1..n : ix.docs[d] \in D
  BY <1>2, <1>7, <1>a
<1>11. ASSUME NEW d \in 1..ix.n, NEW e \in 1..ix.n, d # e
       PROVE  ix.docs[d].slug # ix.docs[e].slug \/ ix.docs[d].anchor # ix.docs[e].anchor
  <2>1. <<ix.docs[d].slug, ix.docs[d].anchor>> # <<ix.docs[e].slug, ix.docs[e].anchor>>
    BY <1>7, <1>10, <1>11, <1>a
  <2> QED BY <2>1
<1>12. ASSUME NEW i \in DOMAIN ix.terms PROVE Idf(ix.n, ix.df[i]) \in Positive
  BY <1>6, <1>7, <1>8, <1>a
<1>13. ASSUME NEW f \in Fields, NEW i \in DOMAIN ix.terms
       PROVE  Postings(ix.f[f], i) \in Seq(Occurrences(ix.n))
  <2> DEFINE p == ix.f[f]
             ps == Postings(p, i)
  <2>1. p.cnt \in Seq(Int) /\ p.post \in Seq(Int)
    BY <1>7
  <2>2. Len(p.cnt) = Len(ix.terms) /\ (\A j \in DOMAIN p.cnt : p.cnt[j] >= 0) /\ SlicesHold(p, ix.n)
    BY <1>a DEF FieldHolds
  <2>3. i \in DOMAIN p.cnt
    <3>1. DOMAIN p.cnt = 1..Len(p.cnt) /\ DOMAIN ix.terms = 1..Len(ix.terms)
      BY <2>1, <1>8
    <3> QED BY <3>1, <2>2
  <2>4. p.cnt[i] \in Nat
    BY <2>1, <2>2, <2>3
  <2> DEFINE m == p.cnt[i]
             id == Sums([k \in 1..m |-> At(p.post, Start(p.cnt, i) + 2 * k - 1)])
             tf(k) == At(p.post, Start(p.cnt, i) + 2 * k)
  <2>5. ps = [k \in 1..m |-> [id |-> id[k], tf |-> tf(k)]]
    BY DEF Postings
  <2>6. \A k \in 1..m : tf(k) \in Int
    BY <2>1, SearchAssumption DEF At
  <2>7. \A k \in DOMAIN ps : ps[k].id \in 0..(ix.n - 1) /\ ps[k].tf >= 1
    BY <2>2, <2>3 DEF SlicesHold
  <2> HIDE DEF ps, id, tf, p
  <2>8. DOMAIN ps = 1..m /\ m \in Nat
    BY <2>4, <2>5
  <2> HIDE DEF m
  <2>9. ASSUME NEW k \in 1..m PROVE ps[k] \in Occurrences(ix.n)
    <3>1. ps[k] = [id |-> id[k], tf |-> tf(k)]
      BY <2>5
    <3>2. ps[k].id = id[k] /\ ps[k].tf = tf(k)
      BY <3>1
    <3>3. id[k] \in 0..(ix.n - 1) /\ tf(k) >= 1 /\ tf(k) \in Int
      BY <2>6, <2>7, <2>8, <3>2
    <3>4. tf(k) \in Positive
      BY <3>3 DEF Positive
    <3> QED BY <3>1, <3>3, <3>4 DEF Occurrences
  <2>10. ps \in Seq(Occurrences(ix.n))
    <3> DEFINE O == Occurrences(ix.n)
    <3>1. \A k \in 1..m : ps[k] \in O
      BY <2>9
    <3> HIDE DEF O
    <3>2. ps = [k \in 1..m |-> ps[k]]
      BY <2>5
    <3>3. ps \in Seq(O)
      BY <2>8, <3>1, <3>2
    <3> QED BY <3>3 DEF O
  <2> QED BY <2>10 DEF ps, p
<1>14. Readable(ix)
  <2>1. \A d \in 1..ix.n : ix.docs[d].slug \in Text /\ ix.docs[d].anchor \in Text
    BY <1>5, <1>7, <1>10
  <2>2. \A f \in Fields : ix.totalLen[f] \in Nat /\ \A d \in 1..ix.n : ix.len[f][d] \in Nat
    BY <1>7
  <2> QED BY <1>2, <1>7, <1>8, <1>9, <1>11, <1>12, <1>13, <2>1, <2>2 DEF Readable
<1>15. \A d \in 1..ix.n : ix.docs[d].audience \cap UNION Audiences # {}
  BY <1>5, <1>7, <1>10
<1>16. \A i \in DOMAIN ix.terms : Plain(ix.terms[i]) /\ ix.df[i] = Cardinality(Holding(ix, i))
  BY <1>4, <1>8, <1>a
<1> QED BY <1>14, <1>15, <1>16 DEF ix

\* A file a loader accepts can be scored, whatever was damaged in it: a word of its
\* dictionary is found in as many sections as its weight was computed from, each once and
\* with a score (`validateSearchIndexShape` before `searchIndex`).
THEOREM AcceptedIsQueryableHolds ==
  Spec => []AcceptedIsQueryable
<1>1. ASSUME ShapeInvariant, Accepted(index), NEW i \in DOMAIN index.terms
      PROVE  LET hits == SearchIndex(index, index.terms[i], UNION Audiences)
             IN  /\ \A a, b \in DOMAIN hits : a # b => <<hits[a].doc.slug, hits[a].doc.anchor>>
                                                       # <<hits[b].doc.slug, hits[b].doc.anchor>>
                 /\ \A h \in ToSet(hits) : h.score > 0
                 /\ index.df[i] = Cardinality({h \in ToSet(hits) : index.terms[i] \in h.terms})
  <2> DEFINE ix == index
             t == ix.terms[i]
             U == UNION Audiences
             hits == SearchIndex(ix, t, U)
             H == Hits(ix, <<t>>, U)
             I == Holding(ix, i)
             G == {h \in H : t \in h.terms}
             e == [id \in I |-> Hit(ix, <<t>>, id)]
  <2>1. Readable(ix) /\ Plain(t) /\ ix.df[i] = Cardinality(I) /\ \A d \in 1..ix.n : ix.docs[d].audience \cap U # {}
    BY <1>1, AcceptedReadable
  <2>2. t \in Text /\ Tokenise(t) = <<t>>
    BY <2>1, PlainTokenise
  <2> HIDE DEF ix, t, U
  <2>3. /\ Ranks(H) /\ IsFiniteSet(H)
        /\ hits \in Seq(H) /\ ToSet(hits) = H
        /\ \A a, b \in DOMAIN hits : a < b => Before(hits[a], hits[b])
    <3>1. /\ Ranks(Hits(ix, Tokenise(t), U)) /\ IsFiniteSet(Hits(ix, Tokenise(t), U))
          /\ hits \in Seq(Hits(ix, Tokenise(t), U)) /\ ToSet(hits) = Hits(ix, Tokenise(t), U)
          /\ \A a, b \in DOMAIN hits : a < b => Before(hits[a], hits[b])
      BY <2>1, <2>2, SearchIs
    <3> HIDE DEF hits
    <3> QED BY <3>1, <2>2, Zenon
  <2>4. ix.n \in Nat /\ ix.terms \in Seq(Text) /\ Dictionary(ix.terms) /\ i \in DOMAIN ix.terms /\ t = ix.terms[i]
    BY <2>1 DEF Readable, ix, t
  <2>5. Expansion(ix, <<t>>, t) = {j \in DOMAIN ix.terms : BeginsWith(ix.terms[j], t)}
    <3> DEFINE s == <<t>>
    <3>1. s \in Seq(Text) /\ t \in ToSet(s) /\ s[Len(s)] = t
      BY <2>2 DEF ToSet
    <3> HIDE DEF s
    <3>2. Expansion(ix, s, t) =
            {j \in DOMAIN ix.terms : IF t = s[Len(s)] THEN BeginsWith(ix.terms[j], t) ELSE ix.terms[j] = t}
      BY <2>1, <3>1, ExpansionIs
    <3>3. Expansion(ix, s, t) = {j \in DOMAIN ix.terms : BeginsWith(ix.terms[j], t)}
      BY <3>1, <3>2
    <3> QED BY <3>3 DEF s
  <2>6. i \in Expansion(ix, <<t>>, t)
    <3>1. Len(t) \in Nat /\ SubSeq(t, 1, Len(t)) = t
      BY <2>2 DEF Text
    <3>2. BeginsWith(t, t)
      BY <3>1 DEF BeginsWith
    <3> QED BY <3>2, <2>4, <2>5
  <2>7. ToSet(<<t>>) = {t}
    BY DEF ToSet
  <2>8. I \in SUBSET (0..ix.n - 1)
    <3>1. ASSUME NEW f \in Fields, NEW q \in ToSet(Postings(ix.f[f], i)) PROVE q.id \in 0..ix.n - 1
      <4>1. Postings(ix.f[f], i) \in Seq(Occurrences(ix.n))
        BY <2>1, <2>4 DEF Readable
      <4>2. q \in Occurrences(ix.n)
        BY <4>1, ToSetIs
      <4> QED BY <4>2 DEF Occurrences
    <3> QED BY <3>1 DEF Holding
  <2>9. ASSUME NEW id \in I
        PROVE  /\ Hit(ix, <<t>>, id) \in G
               /\ Hit(ix, <<t>>, id).id = id
    <3>1. t \in Matched(ix, <<t>>, id)
      BY <2>6, <2>7 DEF Matched
    <3>2. id + 1 \in 1..ix.n /\ id \in 0..ix.n - 1
      BY <2>4, <2>8
    <3>3. id \in Seen(ix, <<t>>, U)
      BY <3>1, <3>2, <2>1 DEF Seen
    <3>4. t \in HitTerms(ix, <<t>>, id)
      BY <2>4, <2>6, <2>7 DEF HitTerms
    <3>5. Hit(ix, <<t>>, id).terms = HitTerms(ix, <<t>>, id) /\ Hit(ix, <<t>>, id).id = id
      BY DEF Hit
    <3>6. Hit(ix, <<t>>, id) \in H
      BY <3>3 DEF Hits
    <3> QED BY <3>4, <3>5, <3>6
  <2>10. ASSUME NEW h \in G PROVE \E id \in I : h = Hit(ix, <<t>>, id)
    <3>1. PICK id \in Seen(ix, <<t>>, U) : h = Hit(ix, <<t>>, id)
      BY DEF Hits
    <3>2. t \in HitTerms(ix, <<t>>, id)
      BY <3>1 DEF Hit
    <3>3. PICK j \in Expansion(ix, <<t>>, t) : id \in Holding(ix, j) /\ t = ix.terms[j]
      BY <3>2, <2>7 DEF HitTerms
    <3>4. j = i
      <4> DEFINE d == ix.terms
      <4>1. j \in 1..Len(d) /\ i \in 1..Len(d) /\ d[i] = d[j] /\ d[i] \in Seq(Nat)
        <5>1. DOMAIN d = 1..Len(d) /\ d \in Seq(Seq(Nat))
          BY <2>4 DEF Dictionary
        <5>2. j \in DOMAIN d
          BY <2>5, <3>3
        <5> HIDE DEF d
        <5>3. d[i] = t /\ d[j] = t /\ i \in DOMAIN d
          BY <2>4, <3>3 DEF d
        <5> QED BY <5>1, <5>2, <5>3
      <4>2. ~Less(d[i], d[j]) /\ ~Less(d[j], d[i])
        BY <4>1, LessIrreflexive
      <4>3. ~(i < j) /\ ~(j < i)
        BY <4>1, <4>2, <2>4 DEF Dictionary
      <4>4. \A n \in Nat : \A x, y \in 1..n : ~(x < y) /\ ~(y < x) => x = y
        OBVIOUS
      <4>5. Len(d) \in Nat
        BY <2>4
      <4> QED BY <4>1, <4>3, <4>4, <4>5
    <3> QED BY <3>1, <3>3, <3>4
  <2>11. e \in Bijection(I, G)
    <3> HIDE DEF G, I
    <3>1. e \in [I -> G] /\ \A id \in I : e[id] = Hit(ix, <<t>>, id) /\ e[id].id = id
      BY <2>9
    <3> HIDE DEF e
    <3>2. e \in Injection(I, G)
      BY <3>1 DEF Injection, IsInjective
    <3>3. e \in Surjection(I, G)
      BY <3>1, <2>10 DEF Surjection
    <3> QED BY <3>2, <3>3 DEF Bijection
  <2>12. IsFiniteSet(G) /\ Cardinality(I) = Cardinality(G)
    <3>1. IsFiniteSet(0..ix.n - 1)
      <4>1. 0 \in Int /\ ix.n - 1 \in Int
        BY <2>4
      <4> QED BY <4>1, FS_Interval
    <3>2. IsFiniteSet(I)
      BY <3>1, <2>8, FS_Subset
    <3>3. ExistsBijection(I, G)
      BY <2>11 DEF ExistsBijection
    <3> HIDE DEF I, G
    <3> QED BY <3>2, <3>3, FS_Bijection
  <2>13. ASSUME NEW h \in H PROVE h.score > 0
    <3>1. PICK id \in Seen(ix, <<t>>, U) : h = Hit(ix, <<t>>, id)
      BY DEF Hits
    <3>2. Matched(ix, <<t>>, id) # {}
      BY <3>1 DEF Seen
    <3>3. <<t>> \in Seq(Text)
      BY <2>2
    <3>4. Score(ix, <<t>>, id) > 0
      BY <2>1, <3>2, <3>3, ScoreIs
    <3> QED BY <3>1, <3>4 DEF Hit
  <2> HIDE DEF hits, H
  <2>14. ASSUME NEW a \in DOMAIN hits, NEW b \in DOMAIN hits, a # b
         PROVE  <<hits[a].doc.slug, hits[a].doc.anchor>> # <<hits[b].doc.slug, hits[b].doc.anchor>>
    <3>1. DOMAIN hits = 1..Len(hits) /\ Len(hits) \in Nat /\ hits[a] \in H /\ hits[b] \in H
      BY <2>3
    <3>2. a < b \/ b < a
      BY <3>1, <2>14
    <3>3. \A h \in H : ~Before(h, h)
      <4> SUFFICES ASSUME NEW h \in H PROVE ~Before(h, h)
        OBVIOUS
      <4>1. h.score \in Int /\ ~Less(h.doc.slug, h.doc.slug) /\ ~Less(h.doc.anchor, h.doc.anchor)
        BY <2>3, LessIrreflexive DEF Ranks
      <4> QED BY <4>1 DEF Before
    <3>4. hits[a] # hits[b]
      BY <2>3, <3>1, <3>2, <3>3
    <3>5. hits[a].doc.slug # hits[b].doc.slug \/ hits[a].doc.anchor # hits[b].doc.anchor
      BY <2>3, <3>1, <3>4 DEF Ranks
    <3> QED BY <3>5
  <2>15. ix.df[i] = Cardinality({h \in ToSet(hits) : t \in h.terms})
    BY <2>1, <2>3, <2>12
  <2>16. \A h \in ToSet(hits) : h.score > 0
    BY <2>3, <2>13
  <2> QED BY <2>14, <2>15, <2>16 DEF hits, t, ix, U
<1>2. ShapeInvariant => AcceptedIsQueryable
  BY <1>1 DEF AcceptedIsQueryable
<1> QED BY <1>2, ShapeInvariantHolds, PTL

-----------------------------------------------------------------------------
(* What is taken from a page.                                              *)

\* A run goes on over a character of its class.
LEMMA BeginsOn ==
  ASSUME NEW P, NEW b \in Nat, NEW a \in 1..b, Begins(P, a, b), Kinds[P[b + 1]] = Kinds[P[b]]
  PROVE  Begins(P, a, b + 1)
<1>1. a \in 1..(b + 1)
  OBVIOUS
<1>2. \A j \in a..(b + 1) : Kinds[P[j]] = Kinds[P[b]]
  <2> SUFFICES ASSUME NEW j \in a..(b + 1) PROVE Kinds[P[j]] = Kinds[P[b]]
    OBVIOUS
  <2>1. CASE j = b + 1
    BY <2>1
  <2>2. CASE j # b + 1
    <3>1. j \in a..b
      BY <2>2
    <3> QED BY <3>1 DEF Begins
  <2> QED BY <2>1, <2>2
<1> QED BY <1>1, <1>2 DEF Begins

\* A run that stands at b ends there or later.
LEMMA RunTo ==
  ASSUME NEW P \in Seq(Prepared), NEW b \in 1..Len(P), NEW a \in 1..b, Begins(P, a, b)
  PROVE  \E e \in b..Len(P) : Run(P, a, e)
<1> DEFINE n == Len(P)
<1>1. n \in Nat /\ b \in Nat /\ b \in 1..n
  OBVIOUS
<1> SUFFICES ASSUME \A e \in b..n : ~Run(P, a, e) PROVE FALSE
  OBVIOUS
<1> DEFINE S == {e \in b..n : Begins(P, a, e)}
<1>2. b \in S
  BY <1>1
<1>3. ASSUME NEW e \in b..n, e < n, e \in S PROVE e + 1 \in S
  <2>1. e \in Nat /\ a \in 1..e /\ e \in 1..Len(P) /\ e < Len(P) /\ e + 1 \in b..n
    BY <1>1, <1>3
  <2>2. Kinds[P[e + 1]] = Kinds[P[e]]
    BY <2>1, <1>3 DEF Run
  <2>3. Begins(P, a, e + 1)
    BY <2>1, <2>2, <1>3, BeginsOn
  <2> QED BY <2>1, <2>3
<1> HIDE DEF S
<1>4. \A e \in b..n : e \in S
  BY <1>1, <1>2, <1>3, Places
<1>5. n \in b..n
  BY <1>1
<1>6. Begins(P, a, n)
  BY <1>4, <1>5 DEF S
<1>7. Run(P, a, n)
  BY <1>1, <1>6 DEF Run
<1> QED BY <1>5, <1>7

\* A character that is not a separator stands in a run.
LEMMA RunFrom ==
  ASSUME NEW P \in Seq(Prepared), NEW p \in 1..Len(P), Kinds[P[p]] # "separator"
  PROVE  \E a \in 1..p : Begins(P, a, p)
<1> DEFINE n == Len(P)
           S == {i \in 1..n : Kinds[P[i]] # "separator" => \E a \in 1..i : Begins(P, a, i)}
<1>1. n \in Nat /\ 1 \in Nat /\ 1 \in 1..n
  OBVIOUS
<1> HIDE DEF n
<1>2. ASSUME NEW i \in 1..n, i > 1 => Kinds[P[i - 1]] # Kinds[P[i]], Kinds[P[i]] # "separator"
      PROVE  Begins(P, i, i)
  <2>1. i \in 1..i /\ \A j \in i..i : j = i
    OBVIOUS
  <2> QED BY <1>2, <2>1 DEF Begins
<1>3. 1 \in S
  <2>1. ~(1 > 1) /\ 1 \in 1..1
    OBVIOUS
  <2> QED BY <1>1, <1>2, <2>1
<1>4. ASSUME NEW i \in 1..n, i < n, i \in S PROVE i + 1 \in S
  <2>1. i + 1 \in 1..n /\ (i + 1) - 1 = i /\ i \in Nat /\ i + 1 \in 1..(i + 1)
    BY <1>1, <1>4
  <2>2. ASSUME Kinds[P[i + 1]] # "separator" PROVE \E a \in 1..(i + 1) : Begins(P, a, i + 1)
    <3>1. CASE Kinds[P[i + 1]] = Kinds[P[i]]
      <4>1. PICK a \in 1..i : Begins(P, a, i)
        BY <1>4, <2>2, <3>1
      <4>2. a \in 1..(i + 1)
        BY <2>1
      <4> QED BY <2>1, <3>1, <4>1, <4>2, BeginsOn
    <3>2. CASE Kinds[P[i + 1]] # Kinds[P[i]]
      <4>1. Begins(P, i + 1, i + 1)
        BY <1>2, <2>1, <2>2, <3>2
      <4> QED BY <4>1, <2>1
    <3> QED BY <3>1, <3>2
  <2> QED BY <2>1, <2>2
<1> HIDE DEF S
<1>5. \A i \in 1..n : i \in S
  BY <1>1, <1>3, <1>4, Places
<1> QED BY <1>5 DEF S, n

\* Q, as it is spelled, stands in T after o characters.
Aligned(T, Q, o) ==
  /\ o \in Nat /\ o + Len(Q) <= Len(T)
  /\ \A j \in 1..Len(Q) : /\ Each(Lower, T)[o + j] = Each(Lower, Q)[j]
                          /\ Kinds[T[o + j]] = Kinds[Q[j]]

\* It stands where a word begins, or begins with a separator or with a pair of CJK.
Leads(T, Q, o) ==
  \/ o = 0 \/ Kinds[T[o + 1]] # Kinds[T[o]]
  \/ Kinds[Q[1]] = "separator"
  \/ Kinds[Q[1]] = "cjk" /\ Len(Q) > 1 /\ Kinds[Q[2]] = "cjk"

\* What is taken from a text stands in it.
LEMMA TakenIs ==
  ASSUME NEW T \in Seq(Prepared), NEW Q \in Seq(Prepared), Q # <<>>,
         TakenFrom(Each(Lower, T), Each(Lower, Q))
  PROVE  \E o : Aligned(T, Q, o) /\ Leads(T, Q, o)
<1> DEFINE A == Each(Lower, T)
           B == Each(Lower, Q)
           n == Len(Q)
           m == Len(T)
<1>1. /\ A \in Seq(Prepared) /\ Len(A) = m /\ \A i \in 1..m : A[i] = Lower[T[i]] /\ Kinds[A[i]] = Kinds[T[i]]
      /\ B \in Seq(Prepared) /\ Len(B) = n /\ \A i \in 1..n : B[i] = Lower[Q[i]] /\ Kinds[B[i]] = Kinds[Q[i]]
  BY Settled
<1>2. n \in Nat /\ m \in Nat /\ n >= 1
  OBVIOUS
<1>3. TakenFrom(A, B)
  OBVIOUS
<1> HIDE DEF A, B
<1>4. PICK k \in 1..Len(A) :
        /\ BeginsWith(SubSeq(A, k, Len(A)), B)
        /\ \/ k = 1 \/ Kinds[A[k]] # Kinds[A[k - 1]]
           \/ Kinds[A[k]] = "separator"
           \/ Kinds[A[k]] = "cjk" /\ Len(B) > 1 /\ Kinds[B[2]] = "cjk"
  BY <1>3 DEF TakenFrom
<1> DEFINE s == SubSeq(A, k, m)
           o == k - 1
<1> HIDE DEF n, m
<1>5. k \in 1..m /\ m \in 1..Len(A)
  BY <1>1, <1>2, <1>4
<1>6. s \in Seq(Prepared) /\ Len(s) = m - k + 1 /\ \A i \in 1..(m - k + 1) : s[i] = A[k + i - 1]
  BY <1>1, <1>5, PieceIs
<1>8. Len(B) <= Len(s) /\ \A j \in 1..Len(B) : s[j] = B[j]
  <2>1. BeginsWith(s, B)
    BY <1>1, <1>4
  <2>2. s \in Seq(Nat) /\ B \in Seq(Nat)
    <3> HIDE DEF s
    <3>1. s \in Text /\ B \in Text
      BY <1>1, <1>6, PreparedIs DEF Text
    <3> QED BY <3>1, TextIs
  <2> HIDE DEF s
  <2> QED BY <2>1, <2>2, BeginsWithIs
<1> HIDE DEF s
<1>9. o \in Nat /\ o + n <= m /\ \A j \in 1..n : j \in 1..(m - k + 1) /\ o + j = k + j - 1 /\ o + j \in 1..m
  BY <1>1, <1>2, <1>5, <1>6, <1>8
<1> HIDE DEF o
<1>10. ASSUME NEW j \in 1..n PROVE A[o + j] = B[j] /\ Kinds[T[o + j]] = Kinds[Q[j]]
  <2>1. A[o + j] = B[j]
    BY <1>1, <1>6, <1>8, <1>9
  <2>2. Kinds[A[o + j]] = Kinds[T[o + j]] /\ Kinds[B[j]] = Kinds[Q[j]]
    BY <1>1, <1>9
  <2> QED BY <2>1, <2>2
<1>11. Aligned(T, Q, o)
  BY <1>9, <1>10 DEF Aligned, A, B, n, m
<1>12. Leads(T, Q, o)
  <2>1. 1 \in 1..n /\ o + 1 = k
    BY <1>2, <1>5 DEF o
  <2>2. Kinds[A[k]] = Kinds[T[k]] /\ Kinds[A[k]] = Kinds[Q[1]]
    BY <1>1, <1>5, <1>10, <2>1
  <2>3. k > 1 => k - 1 = o /\ Kinds[A[k - 1]] = Kinds[T[k - 1]]
    <3>1. k > 1 => k - 1 \in 1..m
      BY <1>5
    <3> QED BY <3>1, <1>1 DEF o
  <2>4. n > 1 => Kinds[B[2]] = Kinds[Q[2]]
    <3>1. n > 1 => 2 \in 1..n
      BY <1>2
    <3> QED BY <3>1, <1>1
  <2>5. k = 1 => o = 0
    BY DEF o
  <2>6. k = 1 \/ k > 1
    BY <1>5
  <2>7. Len(B) = Len(Q)
    BY <1>1 DEF n
  <2> QED BY <1>4, <2>1, <2>2, <2>3, <2>4, <2>5, <2>6, <2>7 DEF Leads, n
<1> QED BY <1>11, <1>12

Cut(S, x, y) == SubSeq(S, x, y)

\* What stands in a text is spelled alike there.
LEMMA PieceStands ==
  ASSUME NEW T \in Seq(Prepared), NEW Q \in Seq(Prepared), NEW o, Aligned(T, Q, o),
         NEW y \in 1..Len(Q), NEW x \in 1..y
  PROVE  /\ o + y \in 1..Len(T) /\ o + x \in 1..(o + y)
         /\ Cut(Each(Lower, T), o + x, o + y) = Cut(Each(Lower, Q), x, y)
<1> DEFINE A == Each(Lower, T)
           B == Each(Lower, Q)
           n == Len(Q)
           r == SubSeq(A, o + x, o + y)
           s == SubSeq(B, x, y)
           m == y - x + 1
<1>1. A \in Seq(Prepared) /\ Len(A) = Len(T) /\ B \in Seq(Prepared) /\ Len(B) = n
  BY Settled
<1>2. o \in Nat /\ o + n <= Len(T) /\ \A j \in 1..n : A[o + j] = B[j]
  BY DEF Aligned
<1>3. n \in Nat /\ Len(T) \in Nat /\ y \in 1..n
  OBVIOUS
<1> HIDE DEF A, B, n
<1>4. o + y \in 1..Len(T) /\ o + x \in 1..(o + y) /\ m \in Nat /\ (o + y) - (o + x) + 1 = m
  BY <1>2, <1>3
<1>5. r \in Seq(Prepared) /\ Len(r) = m /\ \A i \in 1..m : r[i] = A[(o + x) + i - 1]
  <2>1. /\ r \in Seq(Prepared) /\ Len(r) = (o + y) - (o + x) + 1
        /\ \A i \in 1..((o + y) - (o + x) + 1) : r[i] = A[(o + x) + i - 1]
    <3> DEFINE x1 == o + x
               y1 == o + y
    <3>1. A \in Seq(Prepared) /\ y1 \in 1..Len(A) /\ x1 \in 1..y1
      BY <1>1, <1>4
    <3> HIDE DEF x1, y1
    <3>2. /\ SubSeq(A, x1, y1) \in Seq(Prepared) /\ Len(SubSeq(A, x1, y1)) = y1 - x1 + 1
          /\ \A i \in 1..(y1 - x1 + 1) : SubSeq(A, x1, y1)[i] = A[x1 + i - 1]
      BY <3>1, PieceIs
    <3> QED BY <3>2 DEF x1, y1
  <2> HIDE DEF r, m
  <2> QED BY <2>1, <1>4
<1>6. s \in Seq(Prepared) /\ Len(s) = m /\ \A i \in 1..m : s[i] = B[x + i - 1]
  <2>1. y \in 1..Len(B)
    BY <1>1, <1>3
  <2> QED BY <2>1, <1>1, PieceIs
<1> HIDE DEF r, s
<1>7. ASSUME NEW i \in 1..m PROVE r[i] = s[i]
  <2>1. x + i - 1 \in 1..n /\ (o + x) + i - 1 = o + (x + i - 1)
    BY <1>2, <1>3
  <2>2. A[o + (x + i - 1)] = B[x + i - 1]
    BY <1>2, <2>1
  <2> QED BY <2>1, <2>2, <1>5, <1>6
<1> HIDE DEF m
<1>8. r = s
  BY <1>5, <1>6, <1>7, SameSeq
<1> QED BY <1>4, <1>8 DEF Cut, r, s, A, B

\* A run of what is taken begins where it begins in the text, unless it is cut from one.
LEMMA RunStands ==
  ASSUME NEW T \in Seq(Prepared), NEW Q \in Seq(Prepared), NEW o, Aligned(T, Q, o),
         NEW b \in 1..Len(Q), NEW a \in 1..b, Begins(Q, a, b),
         a = 1 => o = 0 \/ Kinds[T[o + 1]] # Kinds[T[o]]
  PROVE  Begins(T, o + a, o + b)
<1> DEFINE n == Len(Q)
<1>1. o \in Nat /\ n \in Nat /\ b \in 1..n /\ \A j \in 1..n : Kinds[T[o + j]] = Kinds[Q[j]]
  BY DEF Aligned
<1>2. /\ Kinds[Q[b]] # "separator" /\ \A j \in a..b : Kinds[Q[j]] = Kinds[Q[b]]
      /\ a > 1 => Kinds[Q[a - 1]] # Kinds[Q[b]]
  BY DEF Begins
<1> HIDE DEF n
<1>3. o + a \in 1..(o + b) /\ Kinds[T[o + b]] = Kinds[Q[b]] /\ Kinds[T[o + a]] = Kinds[Q[b]]
  <2>1. a \in a..b /\ a \in 1..n
    BY <1>1
  <2>2. o + a \in 1..(o + b)
    BY <1>1
  <2> QED BY <2>1, <2>2, <1>1, <1>2
<1>4. \A j \in (o + a)..(o + b) : Kinds[T[j]] = Kinds[T[o + b]]
  <2> SUFFICES ASSUME NEW j \in (o + a)..(o + b) PROVE Kinds[T[j]] = Kinds[T[o + b]]
    OBVIOUS
  <2>1. j - o \in a..b /\ j - o \in 1..n /\ o + (j - o) = j
    BY <1>1
  <2>2. Kinds[T[o + (j - o)]] = Kinds[Q[j - o]]
    BY <1>1, <2>1
  <2> QED BY <2>1, <2>2, <1>2, <1>3
<1>5. o + a > 1 => Kinds[T[(o + a) - 1]] # Kinds[T[o + b]]
  <2> SUFFICES ASSUME o + a > 1 PROVE Kinds[T[(o + a) - 1]] # Kinds[T[o + b]]
    OBVIOUS
  <2>1. CASE a = 1
    <3>1. o # 0 /\ (o + a) - 1 = o /\ o + 1 = o + a
      BY <1>1, <2>1
    <3> QED BY <3>1, <2>1, <1>3
  <2>2. CASE a # 1
    <3>1. a > 1 /\ a - 1 \in 1..n /\ (o + a) - 1 = o + (a - 1)
      BY <1>1, <2>2
    <3>2. Kinds[T[o + (a - 1)]] = Kinds[Q[a - 1]]
      BY <1>1, <3>1
    <3> QED BY <3>1, <3>2, <1>2, <1>3
  <2> QED BY <2>1, <2>2
<1> QED BY <1>2, <1>3, <1>4, <1>5 DEF Begins

\* The word the last run gives alone is the last.
LEMMA LastIs ==
  ASSUME NEW q \in Text, NEW t, LET Q == Prepare(q) IN
           \E a \in 1..Len(Q) : Run(Q, a, Len(Q)) /\ Yield(Q, a, Len(Q)) = <<t>>
  PROVE  Tokenise(q)[Len(Tokenise(q))] = t
<1> DEFINE Q == Prepare(q)
           tokens == Tokenise(q)
<1>1. PICK a \in 1..Len(Q) : Run(Q, a, Len(Q)) /\ Yield(Q, a, Len(Q)) = <<t>>
  OBVIOUS
<1>2. \E before \in Seq(Text) : tokens = before \o Yield(Q, a, Len(Q))
  BY <1>1, TokeniseIs
<1> HIDE DEF Q, tokens
<1>3. PICK before \in Seq(Text) : tokens = before \o Yield(Q, a, Len(Q))
  BY <1>2
<1>4. tokens = before \o <<t>>
  BY <1>1, <1>3, Zenon
<1> DEFINE X == Text \cup {t}
           last == <<t>>
<1>5. before \in Seq(X) /\ last \in Seq(X) /\ Len(last) = 1 /\ last[1] = t /\ Len(before) \in Nat
  BY DEF Text
<1> HIDE DEF X, last
<1>6. /\ Len(before \o last) = Len(before) + Len(last)
      /\ \A i \in 1..(Len(before) + Len(last)) :
           (before \o last)[i] = IF i <= Len(before) THEN before[i] ELSE last[i - Len(before)]
  BY <1>5, ConcatProperties, Zenon
<1>7. Len(before) + 1 \in 1..(Len(before) + Len(last)) /\ ~(Len(before) + 1 <= Len(before))
      /\ (Len(before) + 1) - Len(before) = 1 /\ Len(before) + Len(last) = Len(before) + 1
  BY <1>5
<1>8. (before \o last)[Len(before \o last)] = t
  BY <1>5, <1>6, <1>7
<1> QED BY <1>4, <1>8, Zenon DEF last, tokens

\* A piece begins with a shorter piece from the same place.
LEMMA PieceBegins ==
  ASSUME NEW S \in Seq(Prepared), NEW e \in 1..Len(S), NEW y \in 1..e, NEW x \in 1..y
  PROVE  BeginsWith(SubSeq(S, x, e), SubSeq(S, x, y))
<1> DEFINE r == SubSeq(S, x, e)
           s == SubSeq(S, x, y)
<1>1. y \in 1..Len(S) /\ x \in 1..e
  OBVIOUS
<1>2. r \in Seq(Prepared) /\ Len(r) = e - x + 1 /\ \A i \in 1..(e - x + 1) : r[i] = S[x + i - 1]
  BY <1>1, PieceIs
<1>3. s \in Seq(Prepared) /\ Len(s) = y - x + 1 /\ \A i \in 1..(y - x + 1) : s[i] = S[x + i - 1]
  BY <1>1, PieceIs
<1> HIDE DEF r, s
<1>4. r \in Seq(Nat) /\ s \in Seq(Nat)
  <2>1. r \in Text /\ s \in Text
    BY <1>2, <1>3, PreparedIs DEF Text
  <2> QED BY <2>1, TextIs
<1>5. Len(s) <= Len(r) /\ \A j \in 1..Len(s) : r[j] = s[j]
  <2>1. y - x + 1 <= e - x + 1 /\ \A j \in 1..(y - x + 1) : j \in 1..(e - x + 1)
    OBVIOUS
  <2>2. Len(s) <= Len(r)
    BY <2>1, <1>2, <1>3
  <2>3. \A j \in 1..(y - x + 1) : r[j] = s[j]
    BY <2>1, <1>2, <1>3
  <2> QED BY <2>2, <2>3, <1>3
<1>6. BeginsWith(r, s)
  BY <1>4, <1>5, BeginsWithIs
<1> QED BY <1>6 DEF r, s

\* What a reader takes from a text asks for words of it: the finished ones as they are,
\* the last as it begins.
LEMMA OnThePage ==
  ASSUME NEW text \in Text, NEW q \in Text, TakenFrom(Spelled(text), Spelled(q)),
         NEW t \in ToSet(Tokenise(q))
  PROVE  \E w \in ToSet(Tokenise(text)) :
           w = t \/ (t = Tokenise(q)[Len(Tokenise(q))] /\ BeginsWith(w, t))
<1> DEFINE T == Prepare(text)
           Q == Prepare(q)
           A == Each(Lower, T)
           B == Each(Lower, Q)
           n == Len(Q)
           m == Len(T)
           Final == t = Tokenise(q)[Len(Tokenise(q))]
           Found == \E w \in ToSet(Tokenise(text)) : w = t \/ (Final /\ BeginsWith(w, t))
<1>1. T \in Seq(Prepared) /\ Q \in Seq(Prepared)
  BY TokeniseIs
<1>2. TakenFrom(A, B)
  <2>1. Spelled(text) = A /\ Spelled(q) = B
    BY <1>1, Settled DEF Spelled
  <2> QED BY <2>1
<1>3. PICK b \in 1..n : \E a \in 1..b : Run(Q, a, b) /\ t \in ToSet(Yield(Q, a, b))
  BY TokeniseIs
<1>4. PICK a \in 1..b : Run(Q, a, b) /\ t \in ToSet(Yield(Q, a, b))
  BY <1>3
<1>5. ASSUME NEW e \in 1..m, NEW x \in 1..e, Run(T, x, e), NEW w \in ToSet(Yield(T, x, e))
      PROVE  w \in ToSet(Tokenise(text))
  BY <1>5, TokeniseIs
<1>6. ASSUME b = n, Yield(Q, a, b) = <<t>> PROVE Final
  <2>1. a \in 1..n /\ Run(Q, a, n) /\ Yield(Q, a, n) = <<t>>
    BY <1>4, <1>6
  <2> QED BY <2>1, LastIs
<1> SUFFICES Found
  OBVIOUS
<1> HIDE DEF T, Q, Final
<1>7. Q # <<>>
  BY <1>1, <1>3
<1>8. PICK o : Aligned(T, Q, o) /\ Leads(T, Q, o)
  BY <1>1, <1>2, <1>7, TakenIs
<1>9. n \in Nat /\ m \in Nat /\ b \in 1..Len(Q)
  BY <1>1
<1>10. Begins(Q, a, b)
  BY <1>4 DEF Run
<1>11. o \in Nat /\ o + n <= m /\ \A j \in 1..n : Kinds[T[o + j]] = Kinds[Q[j]]
  BY <1>8 DEF Aligned
<1> DEFINE K == Kinds[Q[b]]
<1>12. /\ K = "word" \/ a = b => Yield(Q, a, b) = <<SubSeq(B, a, b)>>
       /\ K = "cjk" /\ a < b => Yield(Q, a, b) = [i \in 1..(b - a) |-> SubSeq(B, a + i - 1, a + i)]
       /\ K \in {"word", "cjk"}
  BY <1>1, <1>9, <1>10, YieldIs
<1>13. A \in Seq(Prepared) /\ Len(A) = m /\ B \in Seq(Prepared) /\ Len(B) = n
  BY <1>1, Settled
<1>14. \A j \in a..b : Kinds[Q[j]] = K
  BY <1>10 DEF Begins
<1>s. ASSUME NEW y \in 1..Len(Q), NEW x \in 1..y
       PROVE  /\ o + y \in 1..Len(T) /\ o + x \in 1..(o + y)
              /\ Cut(A, o + x, o + y) = Cut(B, x, y)
  <2>1. Aligned(T, Q, o) /\ T \in Seq(Prepared) /\ Q \in Seq(Prepared)
    BY <1>1, <1>8
  <2> QED BY <2>1, PieceStands
<1>15. ASSUME K = "cjk", a < b PROVE Found
  <2>1. PICK i \in 1..(b - a) : t = SubSeq(B, a + i - 1, a + i)
    BY <1>4, <1>12, <1>15 DEF ToSet
  <2> DEFINE x == a + i - 1
             p == o + x
  <2>2. x + 1 = a + i /\ x \in a..b /\ x + 1 \in a..b /\ x \in 1..(x + 1) /\ x + 1 \in 1..n /\ x \in 1..n
    BY <1>9
  <2>3. t = SubSeq(B, x, x + 1) /\ Kinds[Q[x]] = "cjk" /\ Kinds[Q[x + 1]] = "cjk"
    BY <2>1, <2>2, <1>14, <1>15
  <2>4. p \in 1..m /\ p + 1 \in 1..m /\ o + (x + 1) = p + 1
    BY <2>2, <1>9, <1>11
  <2>5. Kinds[T[p]] = "cjk" /\ Kinds[T[p + 1]] = "cjk"
    BY <2>2, <2>3, <2>4, <1>11
  <2>6. SubSeq(A, p, p + 1) = t
    <3> HIDE DEF x
    <3>1. x + 1 \in 1..Len(Q) /\ x \in 1..(x + 1)
      BY <2>2
    <3>2. SubSeq(A, o + x, o + (x + 1)) = SubSeq(B, x, x + 1)
      <4>1. Cut(A, o + x, o + (x + 1)) = Cut(B, x, x + 1)
        BY <3>1, <1>s
      <4> HIDE DEF A, B
      <4> QED BY <4>1 DEF Cut
    <3> QED BY <3>2, <2>3, <2>4
  <2> HIDE DEF x, p, A, B
  <2>7. PICK y \in 1..p : Begins(T, y, p)
    BY <1>1, <2>4, <2>5, RunFrom
  <2>8. y \in 1..(p + 1) /\ Begins(T, y, p + 1)
    <3>1. p \in Nat /\ y \in 1..(p + 1)
      BY <2>4
    <3> QED BY <3>1, <2>5, <2>7, BeginsOn
  <2>9. PICK e \in (p + 1)..m : Run(T, y, e)
    BY <1>1, <2>4, <2>8, RunTo
  <2>10. e \in 1..m /\ y \in 1..e /\ y < e /\ p \in y..e /\ (p - y) + 1 \in 1..(e - y)
         /\ y + ((p - y) + 1) - 1 = p /\ y + ((p - y) + 1) = p + 1
    BY <2>4, <1>9
  <2>11. Begins(T, y, e) /\ Kinds[T[e]] = "cjk"
    <3>1. Begins(T, y, e)
      BY <2>9 DEF Run
    <3> QED BY <3>1, <2>5, <2>10 DEF Begins
  <2>12. Yield(T, y, e) = [j \in 1..(e - y) |-> SubSeq(A, y + j - 1, y + j)]
    BY <1>1, <2>10, <2>11, YieldIs DEF A
  <2>13. t \in ToSet(Yield(T, y, e))
    <3> DEFINE z == (p - y) + 1
               F(j) == SubSeq(A, y + j - 1, y + j)
    <3>1. F(z) = t /\ z \in 1..(e - y)
      BY <2>6, <2>10
    <3>2. Yield(T, y, e) = [j \in 1..(e - y) |-> F(j)]
      BY <2>12
    <3> HIDE DEF z, F
    <3> QED BY <3>1, <3>2 DEF ToSet
  <2>14. t \in ToSet(Tokenise(text))
    BY <1>5, <2>9, <2>10, <2>13
  <2> QED BY <2>14
<1>16. ASSUME K = "word" \/ a = b PROVE Found
  <2>1. Yield(Q, a, b) = <<t>> /\ t = SubSeq(B, a, b)
    <3>1. Yield(Q, a, b) = <<SubSeq(B, a, b)>>
      BY <1>12, <1>16
    <3> QED BY <3>1, <1>4 DEF ToSet
  <2>2. a = 1 => o = 0 \/ Kinds[T[o + 1]] # Kinds[T[o]]
    <3> SUFFICES ASSUME a = 1 PROVE o = 0 \/ Kinds[T[o + 1]] # Kinds[T[o]]
      OBVIOUS
    <3>1. Kinds[Q[1]] = K
      <4>1. 1 \in a..b
        BY <1>9
      <4> QED BY <4>1, <1>14
    <3>2. ASSUME Kinds[Q[1]] = "cjk", n > 1, Kinds[Q[2]] = "cjk" PROVE FALSE
      <4>1. b = 1
        BY <3>1, <3>2, <1>16
      <4>2. Kinds[Q[b + 1]] # Kinds[Q[b]]
        BY <4>1, <3>2, <1>4 DEF Run
      <4>3. b + 1 = 2
        BY <4>1
      <4> QED BY <4>1, <4>2, <4>3, <3>2
    <3> QED BY <1>8, <1>12, <3>1, <3>2 DEF Leads
  <2>3. Begins(T, o + a, o + b)
    BY <1>1, <1>8, <1>9, <1>10, <2>2, RunStands
  <2>4. o + b \in 1..m /\ o + a \in 1..(o + b) /\ SubSeq(A, o + a, o + b) = t
    <3>1. o + b \in 1..m /\ o + a \in 1..(o + b) /\ Cut(A, o + a, o + b) = Cut(B, a, b)
      BY <1>9, <1>s
    <3> HIDE DEF A, B
    <3>2. SubSeq(A, o + a, o + b) = SubSeq(B, a, b)
      BY <3>1 DEF Cut
    <3> QED BY <3>1, <3>2, <2>1
  <2>5. Kinds[T[o + b]] = K
    BY <1>9, <1>11
  <2> HIDE DEF A, B
  <2>6. CASE b < n
    <3>1. Run(T, o + a, o + b)
      <4>1. b + 1 \in 1..n /\ o + (b + 1) = (o + b) + 1
        BY <1>9, <1>11, <2>6
      <4>2. Kinds[T[(o + b) + 1]] = Kinds[Q[b + 1]]
        BY <4>1, <1>11
      <4>3. Kinds[Q[b + 1]] # K
        BY <2>6, <1>4 DEF Run
      <4> QED BY <2>3, <2>4, <2>5, <4>2, <4>3 DEF Run
    <3>2. Yield(T, o + a, o + b) = <<SubSeq(A, o + a, o + b)>>
      <4>1. Kinds[T[o + b]] = "word" \/ o + a = o + b
        BY <2>5, <1>16
      <4> QED BY <1>1, <2>3, <2>4, <4>1, YieldIs DEF A
    <3>3. t \in ToSet(Yield(T, o + a, o + b))
      <4>1. Yield(T, o + a, o + b) = <<t>>
        BY <3>2, <2>4, Zenon
      <4> QED BY <4>1 DEF ToSet
    <3>4. t \in ToSet(Tokenise(text))
      BY <1>5, <2>4, <3>1, <3>3
    <3> QED BY <3>4
  <2>7. CASE b = n
    <3>1. Final
      BY <1>6, <2>1, <2>7
    <3>2. PICK e \in (o + b)..m : Run(T, o + a, e)
      BY <1>1, <2>3, <2>4, RunTo
    <3>3. e \in 1..m /\ o + a \in 1..e /\ o + b \in 1..e /\ e \in 1..Len(A)
      BY <1>9, <1>13, <2>4
    <3>4. Begins(T, o + a, e) /\ Kinds[T[e]] = K
      <4>1. Begins(T, o + a, e)
        BY <3>2 DEF Run
      <4>2. o + b \in (o + a)..e
        BY <2>4, <1>9
      <4> QED BY <4>1, <4>2, <2>5 DEF Begins
    <3>5. /\ K = "word" \/ o + a = e => Yield(T, o + a, e) = <<SubSeq(A, o + a, e)>>
          /\ K = "cjk" /\ o + a < e =>
               Yield(T, o + a, e) = [i \in 1..(e - (o + a)) |-> SubSeq(A, (o + a) + i - 1, (o + a) + i)]
      BY <1>1, <3>3, <3>4, YieldIs DEF A
    <3>6. CASE K = "word" \/ o + a = e
      <4>1. SubSeq(A, o + a, e) \in ToSet(Yield(T, o + a, e))
        BY <3>5, <3>6 DEF ToSet
      <4>2. SubSeq(A, o + a, e) \in ToSet(Tokenise(text))
        BY <1>5, <3>2, <3>3, <4>1
      <4>3. BeginsWith(SubSeq(A, o + a, e), SubSeq(A, o + a, o + b))
        BY <1>13, <3>3, <2>4, PieceBegins
      <4> QED BY <3>1, <4>2, <4>3, <2>4
    <3>7. CASE K = "cjk" /\ o + a < e
      <4> DEFINE x == o + a
      <4>1. a = b /\ x \in Nat /\ x + 1 \in 1..Len(A) /\ x \in 1..(x + 1) /\ x \in 1..x /\ 1 \in 1..(e - x)
            /\ x + 1 - 1 = x
        BY <1>16, <3>7, <3>3, <1>11, <2>4
      <4>2. Yield(T, x, e) = [i \in 1..(e - x) |-> SubSeq(A, x + i - 1, x + i)]
        BY <3>5, <3>7
      <4>r. Run(T, x, e) /\ x \in 1..e
        BY <3>2, <3>3
      <4>s. SubSeq(A, x, x) = t
        BY <4>1, <2>4
      <4> HIDE DEF x
      <4>3. SubSeq(A, x, x + 1) \in ToSet(Yield(T, x, e))
        <5> DEFINE F(i) == SubSeq(A, x + i - 1, x + i)
        <5>1. F(1) = SubSeq(A, x, x + 1)
          BY <4>1
        <5>2. Yield(T, x, e) = [i \in 1..(e - x) |-> F(i)]
          BY <4>2
        <5> HIDE DEF F
        <5>3. F(1) \in ToSet(Yield(T, x, e))
          BY <4>1, <5>2 DEF ToSet
        <5> QED BY <5>1, <5>3
      <4>4. SubSeq(A, x, x + 1) \in ToSet(Tokenise(text))
        BY <1>5, <3>3, <4>r, <4>3
      <4>5. BeginsWith(SubSeq(A, x, x + 1), SubSeq(A, x, x))
        BY <1>13, <4>1, PieceBegins
      <4> QED BY <3>1, <4>4, <4>5, <4>s
    <3>8. o + a = e \/ o + a < e
      BY <3>3
    <3> QED BY <3>6, <3>7, <3>8, <1>12
  <2> QED BY <2>6, <2>7, <1>9
<1> QED BY <1>12, <1>15, <1>16

\* A word begins with itself.
LEMMA BeginsWithItself ==
  ASSUME NEW t \in Text
  PROVE  BeginsWith(t, t)
<1>1. Len(t) \in Nat /\ SubSeq(t, 1, Len(t)) = t
  BY DEF Text
<1> QED BY <1>1 DEF BeginsWith

\* What a reader copies from a section, or types as it is written there in any spelling,
\* finds that section with all of its words: `tokenise` cuts the piece as it cut the
\* page, and `searchIndex` finds the words.
THEOREM FindsWhatIsOnThePageHolds ==
  Spec => []FindsWhatIsOnThePage
<1>1. Invariant => FindsWhatIsOnThePage
  <2> SUFFICES ASSUME Invariant, whole, NEW s \in ToSet(Sections(pages)), Asked # <<>>,
                      NEW f \in Fields, TakenFrom(Spelled(s.text[f]), Spelled(query))
               PROVE  \E h \in ToSet(SearchIndex(index, query, s.doc.audience)) :
                        /\ h.doc = s.doc
                        /\ \A t \in ToSet(Asked) : \E w \in h.terms : Answers(t, w)
    BY DEF FindsWhatIsOnThePage
  <2> DEFINE n == Len(Sections(pages))
             hits == ToSet(SearchIndex(index, query, s.doc.audience))
  <2>1. IsCorpus(pages) /\ index = Build(pages) /\ Readable(index) /\ pages \in Corpora
    BY SearchAssumption, BuiltReadable DEF Invariant
  <2>2. n \in Nat /\ DOMAIN Sections(pages) = 1..n /\ index.n = n
        /\ index.docs = [d \in DOMAIN Sections(pages) |-> Sections(pages)[d].doc]
    BY <2>1, WordsIs, FieldsAre, BuildHas
  <2>3. hits = Hits(index, Asked, s.doc.audience)
    BY <2>1, AskedIs, SearchIs DEF Asked
  <2>4. query \in Text /\ Asked \in Seq(Text)
    BY AskedIs
  <2>5. PICK d \in 1..n : s = Sections(pages)[d]
    BY <2>2 DEF ToSet
  <2>6. s.text[f] \in Text
    BY <2>1, <2>5, WordsIs
  <2>7. ASSUME NEW t \in ToSet(Asked)
        PROVE  \E w \in WordsOf(s) : Answers(t, w)
    <3>1. t \in ToSet(Tokenise(query))
      BY DEF Asked
    <3>2. PICK w \in ToSet(Tokenise(s.text[f])) :
            w = t \/ (t = Tokenise(query)[Len(Tokenise(query))] /\ BeginsWith(w, t))
      BY <2>4, <2>6, <3>1, OnThePage
    <3>3. w \in WordsOf(s)
      BY <3>2 DEF WordsOf
    <3>4. t \in Text
      BY <2>4, ToSetIs
    <3>5. BeginsWith(t, t)
      BY <3>4, BeginsWithItself
    <3>6. Answers(t, w)
      BY <3>2, <3>5 DEF Answers, Asked
    <3> QED BY <3>3, <3>6
  <2>8. Matched(index, Asked, d - 1) = ToSet(Asked)
    <3>1. Matched(index, Asked, d - 1) =
            {t \in ToSet(Asked) : \E w \in WordsOf(Sections(pages)[d]) : Answers(t, w)}
      BY MatchedIs
    <3> QED BY <3>1, <2>5, <2>7
  <2>9. Matched(index, Asked, d - 1) # {}
    <3>1. 1 \in DOMAIN Asked
      BY <2>4
    <3> QED BY <2>8, <3>1 DEF ToSet
  <2>10. s.doc.audience # {}
    <3>1. s.doc \in Addresses(pages)
      BY <2>5 DEF Addresses
    <3> QED BY <2>1, <3>1, CorpusIs
  <2>11. d - 1 \in 0..index.n - 1 /\ (d - 1) + 1 = d /\ index.docs[d] = s.doc
    BY <2>2, <2>5
  <2> DEFINE h == Hit(index, Asked, d - 1)
  <2>12. h \in hits
    <3>1. d - 1 \in Seen(index, Asked, s.doc.audience)
      BY <2>9, <2>10, <2>11 DEF Seen
    <3> QED BY <2>3, <3>1 DEF Hits
  <2>13. h.doc = s.doc /\ h.terms = HitTerms(index, Asked, d - 1)
    BY <2>11 DEF Hit
  <2>14. ASSUME NEW t \in ToSet(Asked) PROVE \E w \in h.terms : Answers(t, w)
    <3>1. t \in Matched(index, Asked, d - 1)
      BY <2>8
    <3>2. PICK i \in Expansion(index, Asked, t) : d - 1 \in Holding(index, i)
      BY <3>1 DEF Matched
    <3>3. index.terms[i] \in HitTerms(index, Asked, d - 1)
      BY <3>2 DEF HitTerms
    <3>4. Expansion(index, Asked, t) =
            {j \in DOMAIN index.terms : IF t = Asked[Len(Asked)] THEN BeginsWith(index.terms[j], t)
                                                                 ELSE index.terms[j] = t}
      BY <2>1, <2>4, ExpansionIs
    <3>5. Answers(t, index.terms[i])
      BY <3>2, <3>4 DEF Answers
    <3> HIDE DEF h
    <3> QED BY <3>3, <3>5, <2>13
  <2> HIDE DEF h, hits
  <2>15. \E g \in hits : g.doc = s.doc /\ \A t \in ToSet(Asked) : \E w \in g.terms : Answers(t, w)
    BY <2>12, <2>13, <2>14
  <2> QED BY <2>15 DEF hits
<1> QED BY <1>1, InvariantHolds, PTL
-----------------------------------------------------------------------------
(* Sums, counted.                                                          *)

\* One cell for every unit of every number up to place k.
CellsTo(a, k) == {x \in (1..k) \X Nat : x[2] < a[x[1]]}

Cells(a) == CellsTo(a, Len(a))

\* The sum of numbers is how many cells they have.
LEMMA SumCounts ==
  ASSUME NEW a \in Seq(Nat)
  PROVE  IsFiniteSet(Cells(a)) /\ Cardinality(Cells(a)) = Sum(a)
<1> DEFINE C(k) == CellsTo(a, k)
           n == Len(a)
           S == {k \in 0..n : IsFiniteSet(C(k)) /\ Cardinality(C(k)) = Sums(a)[k]}
<1>1. n \in Nat /\ \A k \in 1..n : a[k] \in Nat
  OBVIOUS
<1>2. 0 \in S
  <2>1. C(0) = {}
    BY DEF CellsTo
  <2>2. Sums(a)[0] = 0
    BY SumsIs, <1>1
  <2>3. IsFiniteSet(C(0)) /\ Cardinality(C(0)) = 0
    BY <2>1, FS_EmptySet
  <2> HIDE DEF C
  <2> QED BY <1>1, <2>2, <2>3
<1>3. ASSUME NEW k \in 0..n, k < n, k \in S PROVE k + 1 \in S
  <2> DEFINE R == {k + 1} \X (0..a[k + 1] - 1)
  <2>1. k + 1 \in 1..n /\ (k + 1) - 1 = k /\ k + 1 \in 0..n
    BY <1>1, <1>3
  <2>2. a[k + 1] \in Nat
    BY <1>1, <2>1
  <2>3. C(k + 1) = C(k) \cup R
    <3>1. ASSUME NEW x \in C(k + 1) PROVE x \in C(k) \cup R
      <4>1. x \in (1..k + 1) \X Nat /\ x[2] < a[x[1]]
        BY DEF CellsTo
      <4>2. PICK i \in 1..k + 1, j \in Nat : x = <<i, j>>
        BY <4>1
      <4>3. j < a[i]
        BY <4>1, <4>2
      <4>4. CASE i = k + 1
        <5>1. j \in 0..a[k + 1] - 1
          BY <4>3, <4>4, <2>2
        <5> QED BY <5>1, <4>2, <4>4
      <4>5. CASE i # k + 1
        <5>1. i \in 1..k
          BY <4>5, <1>3
        <5>2. x \in C(k)
          BY <5>1, <4>2, <4>3 DEF CellsTo
        <5> QED BY <5>2
      <4> QED BY <4>4, <4>5
    <3>2. ASSUME NEW x \in C(k) PROVE x \in C(k + 1)
      <4>1. PICK i \in 1..k, j \in Nat : x = <<i, j>> /\ j < a[i]
        BY DEF CellsTo
      <4>2. i \in 1..k + 1
        BY <1>3
      <4> QED BY <4>1, <4>2 DEF CellsTo
    <3>3. ASSUME NEW x \in R PROVE x \in C(k + 1)
      <4>1. PICK j \in 0..a[k + 1] - 1 : x = <<k + 1, j>>
        OBVIOUS
      <4>2. j \in Nat /\ j < a[k + 1] /\ k + 1 \in 1..k + 1
        BY <2>1, <2>2
      <4> QED BY <4>1, <4>2 DEF CellsTo
    <3> HIDE DEF C, R
    <3> QED BY <3>1, <3>2, <3>3
  <2>4. IsFiniteSet(R) /\ Cardinality(R) = a[k + 1]
    <3> DEFINE Q == 0..a[k + 1] - 1
    <3>1. IsFiniteSet(Q) /\ Cardinality(Q) = a[k + 1]
      <4>1. 0 \in Int /\ a[k + 1] - 1 \in Int
        BY <2>2
      <4>2. IsFiniteSet(Q) /\ Cardinality(Q) = IF 0 > a[k + 1] - 1 THEN 0 ELSE (a[k + 1] - 1) - 0 + 1
        BY <4>1, FS_Interval
      <4> HIDE DEF Q
      <4> QED BY <2>2, <4>2
    <3>2. IsFiniteSet({k + 1}) /\ Cardinality({k + 1}) = 1
      BY FS_Singleton
    <3> HIDE DEF Q
    <3>3. IsFiniteSet({k + 1} \X Q) /\ Cardinality({k + 1} \X Q) = Cardinality({k + 1}) * Cardinality(Q)
      BY <3>1, <3>2, FS_Product
    <3>4. \A m \in Nat : 1 * m = m
      OBVIOUS
    <3>5. Cardinality({k + 1} \X Q) = a[k + 1]
      BY <3>1, <3>2, <3>3, <3>4, <2>2
    <3> QED BY <3>3, <3>5 DEF Q
  <2>5. C(k) \cap R = {}
    <3> SUFFICES ASSUME NEW x \in C(k), x \in R PROVE FALSE
      OBVIOUS
    <3>1. x[1] \in 1..k /\ x[1] = k + 1
      BY DEF CellsTo
    <3> QED BY <3>1, <1>3
  <2>6. Sums(a)[k + 1] = Sums(a)[k] + a[k + 1]
    BY SumsIs, <2>1, <1>1
  <2> HIDE DEF C, R
  <2>7. IsFiniteSet(C(k)) /\ Cardinality(C(k)) = Sums(a)[k]
    BY <1>3
  <2>8. /\ IsFiniteSet(C(k) \cup R)
        /\ Cardinality(C(k) \cup R) = Cardinality(C(k)) + Cardinality(R) - Cardinality(C(k) \cap R)
    BY <2>4, <2>7, FS_Union
  <2>9. Cardinality(C(k) \cap R) = 0 /\ Cardinality(C(k)) \in Nat
    BY <2>5, <2>7, FS_EmptySet, FS_CardinalityType
  <2>10. Cardinality(C(k + 1)) = Sums(a)[k + 1]
    <3> DEFINE x == Cardinality(C(k))
               y == Cardinality(R)
               z == Cardinality(C(k) \cap R)
    <3>1. x \in Nat /\ y \in Nat /\ z = 0 /\ Cardinality(C(k) \cup R) = x + y - z
      BY <2>2, <2>4, <2>8, <2>9
    <3>2. x = Sums(a)[k] /\ y = a[k + 1]
      BY <2>4, <2>7
    <3> HIDE DEF x, y, z
    <3>3. Cardinality(C(k) \cup R) = x + y
      BY <3>1
    <3>4. Cardinality(C(k + 1)) = Sums(a)[k] + a[k + 1]
      BY <3>2, <3>3, <2>3, Zenon
    <3> QED BY <3>4, <2>6, Zenon
  <2> QED BY <2>1, <2>3, <2>8, <2>10
<1> HIDE DEF S
<1>4. \A k \in 0..n : k \in S
  BY <1>1, <1>2, <1>3, Places
<1>5. n \in S
  BY <1>1, <1>4
<1> QED BY <1>5 DEF S, Cells, Sum

\* The order of numbers does not matter to their sum.
LEMMA SumPermuted ==
  ASSUME NEW a \in Seq(Nat), NEW b \in Seq(Nat), NEW p \in Bijection(1..Len(b), 1..Len(a)),
         \A i \in 1..Len(b) : b[i] = a[p[i]]
  PROVE  Sum(b) = Sum(a)
<1> DEFINE A == Cells(a)
           B == Cells(b)
           f == [x \in B |-> <<p[x[1]], x[2]>>]
<1>1. /\ p \in [1..Len(b) -> 1..Len(a)]
      /\ \A i, j \in 1..Len(b) : p[i] = p[j] => i = j
      /\ \A k \in 1..Len(a) : \E i \in 1..Len(b) : p[i] = k
  BY DEF Bijection, Injection, IsInjective, Surjection
<1>2. ASSUME NEW x \in B
      PROVE  /\ x = <<x[1], x[2]>> /\ x[1] \in 1..Len(b) /\ x[2] \in Nat
             /\ f[x] = <<p[x[1]], x[2]>> /\ f[x] \in A
  <2>1. x = <<x[1], x[2]>> /\ x[1] \in 1..Len(b) /\ x[2] \in Nat /\ x[2] < b[x[1]]
    BY DEF Cells, CellsTo
  <2>2. p[x[1]] \in 1..Len(a) /\ b[x[1]] = a[p[x[1]]]
    BY <1>1, <2>1
  <2>3. <<p[x[1]], x[2]>> \in A
    <3> DEFINE u == p[x[1]]
               v == x[2]
    <3>1. u \in 1..Len(a) /\ v \in Nat /\ v < a[u]
      BY <2>1, <2>2
    <3> HIDE DEF u, v
    <3>2. <<u, v>> \in A
      BY <3>1 DEF Cells, CellsTo
    <3> QED BY <3>2 DEF u, v
  <2>4. f[x] = <<p[x[1]], x[2]>>
    OBVIOUS
  <2> HIDE DEF f, A
  <2> QED BY <2>1, <2>3, <2>4
<1>3. f \in [B -> A]
  BY <1>2
<1>4. ASSUME NEW y \in A PROVE \E x \in B : f[x] = y
  <2>1. PICK k \in 1..Len(a), j \in Nat : y = <<k, j>> /\ j < a[k]
    BY DEF Cells, CellsTo
  <2>2. PICK i \in 1..Len(b) : p[i] = k
    BY <1>1
  <2>3. b[i] = a[k]
    BY <2>2
  <2>4. <<i, j>> \in B
    BY <2>1, <2>3 DEF Cells, CellsTo
  <2>5. f[<<i, j>>] = y
    BY <2>1, <2>2, <2>4
  <2> HIDE DEF f
  <2> QED BY <2>4, <2>5
<1> HIDE DEF f, A, B
<1>5. ASSUME NEW x \in B, NEW y \in B, f[x] = f[y] PROVE x = y
  <2>1. p[x[1]] = p[y[1]] /\ x[2] = y[2]
    BY <1>2, <1>5
  <2>2. x[1] = y[1]
    BY <1>1, <1>2, <2>1
  <2> QED BY <1>2, <2>1, <2>2
<1>6. f \in Injection(B, A)
  BY <1>3, <1>5 DEF Injection, IsInjective
<1>7. f \in Surjection(B, A)
  BY <1>3, <1>4 DEF Surjection
<1>8. ExistsBijection(B, A)
  BY <1>6, <1>7 DEF ExistsBijection, Bijection
<1>9. IsFiniteSet(B)
  BY SumCounts DEF B
<1>10. Cardinality(A) = Cardinality(B)
  BY <1>8, <1>9, FS_Bijection
<1> QED BY <1>10, SumCounts DEF A, B

\* More in one place and no less in another is more.
LEMMA SumGrows ==
  ASSUME NEW a \in Seq(Nat), NEW b \in Seq(Nat), Len(a) = Len(b),
         \A i \in 1..Len(a) : a[i] <= b[i], NEW k \in 1..Len(a), a[k] < b[k]
  PROVE  Sum(a) < Sum(b)
<1>0. Len(a) \in Nat /\ (\A i \in 1..Len(a) : a[i] \in Nat /\ b[i] \in Nat)
  <2>1. Len(a) \in Nat /\ \A i \in 1..Len(a) : a[i] \in Nat
    OBVIOUS
  <2>2. \A i \in 1..Len(b) : b[i] \in Nat
    OBVIOUS
  <2>3. Len(b) = Len(a)
    OBVIOUS
  <2> QED BY <2>1, <2>2, <2>3, Zenon
<1>1. ASSUME NEW x \in Cells(a) PROVE x \in Cells(b)
  <2>1. PICK i \in 1..Len(a), j \in Nat : x = <<i, j>> /\ j < a[i]
    BY DEF Cells, CellsTo
  <2>2. j < b[i]
    <3>1. a[i] \in Nat /\ b[i] \in Nat /\ a[i] <= b[i]
      BY <1>0
    <3> QED BY <2>1, <3>1
  <2> QED BY <2>1, <2>2 DEF Cells, CellsTo
<1>2. <<k, a[k]>> \in Cells(b) /\ <<k, a[k]>> \notin Cells(a)
  <2>1. a[k] \in Nat /\ ~(a[k] < a[k])
    BY <1>0
  <2> QED BY <2>1 DEF Cells, CellsTo
<1>3. Cells(a) \in SUBSET Cells(b) /\ Cells(a) # Cells(b)
  BY <1>1, <1>2
<1>4. IsFiniteSet(Cells(b)) /\ IsFiniteSet(Cells(a))
  BY SumCounts
<1>5. Cardinality(Cells(a)) <= Cardinality(Cells(b)) /\ Cardinality(Cells(b)) # Cardinality(Cells(a))
  BY <1>3, <1>4, FS_Subset
<1>6. Cardinality(Cells(a)) \in Nat /\ Cardinality(Cells(b)) \in Nat
  BY <1>4, FS_CardinalityType
<1>7. Cardinality(Cells(a)) < Cardinality(Cells(b))
  BY <1>5, <1>6
<1> QED BY <1>7, SumCounts

\* The sum of nothing but one number, or of nothing.
LEMMA SumOfOne ==
  ASSUME NEW a \in Seq(Nat)
  PROVE  /\ \A k \in 1..Len(a) : (\A j \in 1..Len(a) : j # k => a[j] = 0) => Sum(a) = a[k]
         /\ (\A j \in 1..Len(a) : a[j] = 0) => Sum(a) = 0
<1>0. Len(a) \in Nat /\ (\A i \in 1..Len(a) : a[i] \in Nat)
  OBVIOUS
<1>1. ASSUME NEW k \in 1..Len(a), \A j \in 1..Len(a) : j # k => a[j] = 0
      PROVE  Sum(a) = a[k]
  <2> DEFINE b == <<a[k]>>
             Q == 0..a[k] - 1
             e == [j \in Q |-> <<k, j>>]
  <2>1. a[k] \in Nat
    BY <1>0
  <2>2. Cells(a) = {<<k, j>> : j \in Q}
    <3>1. ASSUME NEW x \in Cells(a) PROVE x \in {<<k, j>> : j \in Q}
      <4>1. PICK i \in 1..Len(a), j \in Nat : x = <<i, j>> /\ j < a[i]
        BY DEF Cells, CellsTo
      <4>2. i = k
        BY <4>1, <1>1
      <4>3. j \in Q
        BY <4>1, <4>2, <2>1
      <4> QED BY <4>1, <4>2, <4>3
    <3>2. ASSUME NEW j \in Q PROVE <<k, j>> \in Cells(a)
      <4>1. j \in Nat /\ j < a[k]
        BY <2>1
      <4> QED BY <4>1 DEF Cells, CellsTo
    <3> HIDE DEF Q
    <3> QED BY <3>1, <3>2
  <2>3. IsFiniteSet(Q) /\ Cardinality(Q) = a[k]
    <3>1. 0 \in Int /\ a[k] - 1 \in Int
      BY <2>1
    <3>2. IsFiniteSet(Q) /\ Cardinality(Q) = IF 0 > a[k] - 1 THEN 0 ELSE (a[k] - 1) - 0 + 1
      BY <3>1, FS_Interval
    <3> HIDE DEF Q
    <3> QED BY <2>1, <3>2
  <2> HIDE DEF Q
  <2>4. e \in Bijection(Q, Cells(a))
    BY <2>2 DEF Bijection, Injection, IsInjective, Surjection
  <2>5. Cardinality(Cells(a)) = a[k]
    BY <2>3, <2>4, FS_Bijection DEF ExistsBijection
  <2> QED BY <2>5, SumCounts
<1>2. ASSUME \A j \in 1..Len(a) : a[j] = 0 PROVE Sum(a) = 0
  <2>1. Cells(a) = {}
    <3> SUFFICES ASSUME NEW x \in Cells(a) PROVE FALSE
      OBVIOUS
    <3>1. PICK i \in 1..Len(a), j \in Nat : x = <<i, j>> /\ j < a[i]
      BY DEF Cells, CellsTo
    <3> QED BY <3>1, <1>2
  <2> QED BY <2>1, SumCounts, FS_EmptySet
<1> QED BY <1>1, <1>2

\* There is one order of things.
LEMMA OneOrder ==
  ASSUME NEW S, NEW R, Orders(R, S), NEW q, NEW r, Ordered(q, S, R), Ordered(r, S, R)
  PROVE  q = r
<1> DEFINE n == Len(q)
           T == {i \in 0..n : \A j \in 1..i : q[j] = r[j]}
<1>1. n \in Nat /\ Len(r) = n /\ q \in Seq(S) /\ r \in Seq(S)
  BY DEF Ordered
<1>2. /\ \A i \in 1..n : q[i] \in S /\ r[i] \in S
      /\ \A i, j \in 1..n : i < j => <<q[i], q[j]>> \in R /\ <<r[i], r[j]>> \in R
      /\ \A x \in S : (\E i \in 1..n : q[i] = x) /\ (\E i \in 1..n : r[i] = x)
  <2>1. DOMAIN q = 1..n /\ DOMAIN r = 1..n
    BY <1>1
  <2>2. ToSet(q) = S /\ ToSet(r) = S
    BY DEF Ordered
  <2>3. \A i, j \in 1..n : i < j => <<q[i], q[j]>> \in R /\ <<r[i], r[j]>> \in R
    BY <1>1 DEF Ordered
  <2> HIDE DEF n
  <2> QED BY <2>1, <2>2, <2>3 DEF ToSet
<1>3. \A x, y \in S : ~(<<x, y>> \in R /\ <<y, x>> \in R)
  BY DEF Orders
<1>4. \A x \in S : <<x, x>> \notin R
  BY DEF Orders
<1> HIDE DEF n
<1>5. 0 \in T
  BY <1>1
<1>6. ASSUME NEW i \in 0..n, i < n, i \in T PROVE i + 1 \in T
  <2>1. i + 1 \in 1..n /\ \A j \in 1..(i + 1) : j = i + 1 \/ j \in 1..i
    BY <1>1, <1>6
  <2> DEFINE k == i + 1
  <2>2. k \in 1..n /\ (\A j \in 1..n : j < k => q[j] = r[j]) /\ k \in 0..n
    <3>1. \A j \in 1..n : j < k => j \in 1..i
      BY <1>1
    <3>2. k \in 1..n /\ k \in 0..n
      BY <1>1, <2>1
    <3>3. \A j \in 1..i : q[j] = r[j]
      BY <1>6
    <3> HIDE DEF k
    <3> QED BY <3>1, <3>2, <3>3
  <2>0. i + 1 = k
    OBVIOUS
  <2> HIDE DEF k
  <2>3. PICK m \in 1..n : r[m] = q[k]
    BY <1>2, <2>2
  <2>4. PICK l \in 1..n : q[l] = r[k]
    BY <1>2, <2>2
  <2>5. ~(m < k)
    <3> SUFFICES ASSUME m < k PROVE FALSE
      OBVIOUS
    <3>1. q[m] = q[k] /\ <<q[m], q[k]>> \in R
      BY <1>2, <2>2, <2>3
    <3> QED BY <3>1, <1>2, <1>4, <2>2
  <2>6. ~(l < k)
    <3> SUFFICES ASSUME l < k PROVE FALSE
      OBVIOUS
    <3>1. r[l] = r[k] /\ <<r[l], r[k]>> \in R
      BY <1>2, <2>2, <2>4
    <3> QED BY <3>1, <1>2, <1>4, <2>2
  <2>7. q[k] = r[k]
    <3> SUFFICES ASSUME k < m, k < l PROVE FALSE
      <4>1. m = k \/ l = k \/ (k < m /\ k < l)
        BY <1>1, <2>2, <2>5, <2>6
      <4> QED BY <4>1, <2>3, <2>4
    <3>1. <<r[k], r[m]>> \in R /\ <<q[k], q[l]>> \in R
      BY <1>2, <2>2
    <3> QED BY <3>1, <2>2, <2>3, <2>4, <1>2, <1>3
  <2>8. \A j \in 1..k : q[j] = r[j]
    <3>1. \A j \in 1..k : j = k \/ (j \in 1..n /\ j < k)
      BY <1>1, <2>2
    <3> QED BY <3>1, <2>2, <2>7
  <2> QED BY <2>0, <2>2, <2>8
<1> HIDE DEF T
<1>7. \A i \in 0..n : i \in T
  BY <1>1, <1>5, <1>6, Places
<1>8. n \in T
  BY <1>1, <1>7
<1>9. \A j \in 1..n : q[j] = r[j]
  BY <1>8 DEF T
<1> QED BY <1>1, <1>9, SameSeq DEF n
-----------------------------------------------------------------------------
(* Who stands first.                                                       *)

\* What a word of the query is worth to a section.
OfToken(ix, tokens, t, id) == Best(ix, Expansion(ix, tokens, t), id)

\* A section has the words of the query that are worth something to it.
LEMMA OfTokenIs ==
  ASSUME NEW ix, Readable(ix), NEW tokens \in Seq(Text), NEW id, NEW t \in ToSet(tokens)
  PROVE  OfToken(ix, tokens, t, id) \in Nat /\ (OfToken(ix, tokens, t, id) > 0 <=> t \in Matched(ix, tokens, id))
<1> DEFINE x == Expansion(ix, tokens, t)
<1>1. Expansion(ix, tokens, t) \in SUBSET DOMAIN ix.terms
  BY ExpansionIs
<1>2. x \in SUBSET DOMAIN ix.terms
  BY <1>1
<1>3. t \in Matched(ix, tokens, id) <=> \E i \in x : id \in Holding(ix, i)
  BY DEF Matched
<1>4. OfToken(ix, tokens, t, id) = Best(ix, x, id)
  BY DEF OfToken
<1> HIDE DEF x
<1>5. Best(ix, x, id) \in Nat /\ (Best(ix, x, id) > 0 <=> \E i \in x : id \in Holding(ix, i))
  BY <1>2, BestIs
<1> QED BY <1>3, <1>4, <1>5

\* A section to which one word is worth more than to another, and none worth less, has
\* the better score.
LEMMA ScoreGrows ==
  ASSUME NEW ix, Readable(ix), NEW tokens \in Seq(Text), NEW x, NEW y, Matched(ix, tokens, x) # {},
         \A t \in ToSet(tokens) : OfToken(ix, tokens, t, x) <= OfToken(ix, tokens, t, y),
         NEW u \in ToSet(tokens), OfToken(ix, tokens, u, x) < OfToken(ix, tokens, u, y)
  PROVE  Score(ix, tokens, x) < Score(ix, tokens, y)
<1> DEFINE M(id) == Matched(ix, tokens, id)
           Late(k) == \E j \in 1..(k - 1) : tokens[j] = tokens[k]
           O(t, id) == OfToken(ix, tokens, t, id)
           V(k, id) == IF Late(k) THEN 0 ELSE O(tokens[k], id)
           seq(id) == [k \in DOMAIN tokens |-> V(k, id)]
           n == Len(tokens)
<1>1. n \in Nat /\ DOMAIN tokens = 1..n /\ \A k \in 1..n : tokens[k] \in ToSet(tokens)
  BY DEF ToSet
<1>s. \A id : Score(ix, tokens, id) = Cardinality(M(id)) * Sum(seq(id))
  BY DEF Score, OfToken
<1>m. \A id : M(id) \in SUBSET ToSet(tokens)
  BY DEF Matched
<1>o. \A t \in ToSet(tokens) : \A id : O(t, id) \in Nat /\ (O(t, id) > 0 <=> t \in M(id))
  BY OfTokenIs
<1>a. /\ M(x) # {} /\ \A t \in ToSet(tokens) : O(t, x) <= O(t, y)
      /\ O(u, x) < O(u, y)
  OBVIOUS
<1>u. \E k \in 1..n : tokens[k] = u
  BY <1>1 DEF ToSet
<1> HIDE DEF M, O, Late, n
<1>2. \A id : seq(id) \in Seq(Nat) /\ Len(seq(id)) = n /\ \A k \in 1..n : seq(id)[k] = V(k, id)
  <2> SUFFICES ASSUME NEW id PROVE seq(id) \in Seq(Nat) /\ Len(seq(id)) = n /\ \A k \in 1..n : seq(id)[k] = V(k, id)
    OBVIOUS
  <2>1. \A k \in 1..n : V(k, id) \in Nat
    BY <1>1, <1>o
  <2>2. seq(id) = [k \in 1..n |-> V(k, id)]
    BY <1>1
  <2> HIDE DEF V
  <2>3. seq(id) \in [1..n -> Nat] /\ \A k \in 1..n : seq(id)[k] = V(k, id)
    BY <2>1, <2>2
  <2> HIDE DEF seq
  <2> QED BY <1>1, <2>3
<1> HIDE DEF seq
<1>3. PICK k \in 1..n : tokens[k] = u /\ ~Late(k)
  <2> DEFINE K == {i \in 1..n : tokens[i] = u}
  <2>1. K \in SUBSET Nat /\ K # {}
    BY <1>u, <1>1
  <2>2. PICK k \in K : \A j \in K : k <= j
    <3> HIDE DEF K
    <3> QED BY <2>1, Least
  <2>3. ~Late(k)
    <3> SUFFICES ASSUME NEW j \in 1..(k - 1), tokens[j] = tokens[k] PROVE FALSE
      BY DEF Late
    <3>1. j \in K /\ j < k
      BY <1>1, <2>2
    <3> QED BY <3>1, <2>2
  <2> QED BY <2>2, <2>3
<1>4. Sum(seq(x)) < Sum(seq(y))
  <2>1. \A i \in 1..n : seq(x)[i] <= seq(y)[i]
    <3> SUFFICES ASSUME NEW i \in 1..n PROVE V(i, x) <= V(i, y)
      BY <1>2
    <3>1. tokens[i] \in ToSet(tokens)
      BY <1>1
    <3>2. O(tokens[i], x) <= O(tokens[i], y)
      BY <3>1, <1>a
    <3> QED BY <3>2
  <2>2. seq(x)[k] < seq(y)[k]
    <3>1. V(k, x) < V(k, y)
      BY <1>3, <1>a
    <3> HIDE DEF V
    <3> QED BY <3>1, <1>2
  <2> HIDE DEF V
  <2>3. seq(x) \in Seq(Nat) /\ seq(y) \in Seq(Nat) /\ Len(seq(x)) = n /\ Len(seq(y)) = n
    BY <1>2
  <2> DEFINE a == seq(x)
             b == seq(y)
  <2>4. a \in Seq(Nat) /\ b \in Seq(Nat) /\ Len(a) = Len(b) /\ (\A i \in 1..Len(a) : a[i] <= b[i]) /\ k \in 1..Len(a) /\ a[k] < b[k]
    BY <2>1, <2>2, <2>3
  <2> HIDE DEF a, b
  <2>5. Sum(a) < Sum(b)
    BY <2>4, SumGrows
  <2> QED BY <2>5 DEF a, b
<1>5. \A id : Sum(seq(id)) \in Nat
  <2> SUFFICES ASSUME NEW id PROVE Sum(seq(id)) \in Nat
    OBVIOUS
  <2>1. seq(id) \in Seq(Nat) /\ n \in 0..n /\ Len(seq(id)) = n
    BY <1>1, <1>2
  <2> QED BY <2>1, SumsNat DEF Sum
<1>6. M(x) \in SUBSET M(y)
  <2> SUFFICES ASSUME NEW t \in M(x) PROVE t \in M(y)
    OBVIOUS
  <2>1. t \in ToSet(tokens)
    BY <1>m
  <2>2. O(t, x) \in Nat /\ O(t, y) \in Nat /\ O(t, x) > 0 /\ O(t, x) <= O(t, y)
    BY <2>1, <1>o, <1>a
  <2>3. O(t, y) > 0
    BY <2>2
  <2> QED BY <2>1, <2>3, <1>o
<1>7. /\ Cardinality(M(x)) \in Nat /\ Cardinality(M(y)) \in Nat
      /\ Cardinality(M(x)) > 0 /\ Cardinality(M(x)) <= Cardinality(M(y))
  <2>1. IsFiniteSet(ToSet(tokens))
    BY ToSetIs
  <2>2. IsFiniteSet(M(x)) /\ IsFiniteSet(M(y))
    BY <1>m, <2>1, FS_Subset
  <2>3. Cardinality(M(x)) \in Nat /\ Cardinality(M(y)) \in Nat
    BY <2>2, FS_CardinalityType
  <2>4. Cardinality(M(x)) <= Cardinality(M(y))
    BY <1>6, <2>2, FS_Subset
  <2>5. Cardinality(M(x)) # 0
    BY <1>a, <2>2, FS_EmptySet
  <2> QED BY <2>3, <2>4, <2>5
<1> DEFINE c == Cardinality(M(x))
           d == Cardinality(M(y))
           v == Sum(seq(x))
           w == Sum(seq(y))
<1>8. c \in Nat /\ d \in Nat /\ v \in Nat /\ w \in Nat /\ c > 0 /\ c <= d /\ v < w
  BY <1>4, <1>5, <1>7
<1>9. Score(ix, tokens, x) = c * v /\ Score(ix, tokens, y) = d * w
  BY <1>s
<1> HIDE DEF c, d, v, w
<1>10. c * v < d * w
  <2>1. PICK e \in Nat : d = c + e
    <3>1. d - c \in Nat /\ d = c + (d - c)
      BY <1>8
    <3> QED BY <3>1
  <2>2. PICK g \in Nat : w = v + 1 + g
    <3>1. w - v - 1 \in Nat /\ w = v + 1 + (w - v - 1)
      BY <1>8
    <3> QED BY <3>1
  <2>3. (c + e) * (v + 1 + g) = c * v + c + c * g + e * v + e + e * g
    BY <1>8, <2>1, <2>2
  <2>4. c * g \in Nat /\ e * v \in Nat /\ e * g \in Nat /\ c * v \in Nat
    BY <1>8
  <2>5. d * w = c * v + c + c * g + e * v + e + e * g
    BY <2>1, <2>2, <2>3
  <2> HIDE DEF c, d, v, w
  <2> QED BY <1>8, <2>4, <2>5
<1> QED BY <1>9, <1>10

\* No section stands behind one to which a word is worth less and none worth more.
LEMMA NoneBehind ==
  ASSUME NEW ix, Readable(ix), NEW text \in Text, NEW wanted,
         NEW a \in DOMAIN SearchIndex(ix, text, wanted), NEW b \in DOMAIN SearchIndex(ix, text, wanted), a < b,
         \A t \in ToSet(Tokenise(text)) :
           OfToken(ix, Tokenise(text), t, SearchIndex(ix, text, wanted)[a].id)
           <= OfToken(ix, Tokenise(text), t, SearchIndex(ix, text, wanted)[b].id),
         NEW u \in ToSet(Tokenise(text)),
         OfToken(ix, Tokenise(text), u, SearchIndex(ix, text, wanted)[a].id)
         < OfToken(ix, Tokenise(text), u, SearchIndex(ix, text, wanted)[b].id)
  PROVE  FALSE
<1> DEFINE tokens == Tokenise(text)
           hits == SearchIndex(ix, text, wanted)
           H == Hits(ix, tokens, wanted)
           x == hits[a].id
           y == hits[b].id
<1>1. tokens \in Seq(Text)
  BY TokeniseType
<1>2. hits \in Seq(H) /\ Before(hits[a], hits[b])
  BY SearchIs
<1>3. hits[a] \in H /\ hits[b] \in H
  <2> HIDE DEF hits, H
  <2> QED BY <1>2 DEF hits
<1>4. ASSUME NEW h \in H
      PROVE  h.score = Score(ix, tokens, h.id) /\ Matched(ix, tokens, h.id) # {}
  <2>1. PICK id \in Seen(ix, tokens, wanted) : h = Hit(ix, tokens, id)
    BY DEF Hits
  <2>2. h.id = id /\ h.score = Score(ix, tokens, id)
    BY <2>1 DEF Hit
  <2>3. Matched(ix, tokens, id) # {}
    BY DEF Seen
  <2> QED BY <2>2, <2>3
<1>5. /\ u \in ToSet(tokens) /\ OfToken(ix, tokens, u, x) < OfToken(ix, tokens, u, y)
      /\ \A t \in ToSet(tokens) : OfToken(ix, tokens, t, x) <= OfToken(ix, tokens, t, y)
  OBVIOUS
<1>6. hits[a].score = Score(ix, tokens, x) /\ hits[b].score = Score(ix, tokens, y) /\ Matched(ix, tokens, x) # {}
  BY <1>3, <1>4
<1>7. hits[a].score >= hits[b].score
  <2>1. hits[a].score \in Nat /\ hits[b].score \in Nat
    BY <1>1, <1>6, ScoreIs
  <2> HIDE DEF hits
  <2> QED BY <1>2, <2>1 DEF Before
<1> HIDE DEF tokens, hits, H, x, y
<1>8. Score(ix, tokens, x) < Score(ix, tokens, y)
  BY <1>1, <1>5, <1>6, ScoreGrows
<1>9. Score(ix, tokens, x) \in Nat /\ Score(ix, tokens, y) \in Nat
  BY <1>1, ScoreIs
<1> QED BY <1>6, <1>7, <1>8, <1>9
-----------------------------------------------------------------------------
(* The pages in another order.                                             *)

\* Sequences joined are as long as they are together and have what each of them has.
LEMMA FlatHas ==
  ASSUME NEW X, NEW seqs \in Seq(Seq(X))
  PROVE  /\ Lens(seqs) \in Seq(Nat) /\ Len(Lens(seqs)) = Len(seqs)
         /\ \A i \in 1..Len(seqs) : Lens(seqs)[i] = Len(seqs[i])
         /\ Len(FlattenSeq(seqs)) = Sum(Lens(seqs))
         /\ ToSet(FlattenSeq(seqs)) = UNION {ToSet(seqs[i]) : i \in 1..Len(seqs)}
<1> DEFINE n == Len(seqs)
           l == Lens(seqs)
           t == Sums(l)
           F == FlattenSeq(seqs)
           S == {k \in 0..n : \A m \in 1..t[k] : \E i \in 1..n : \E j \in 1..Len(seqs[i]) : m = t[i - 1] + j}
<1>1. n \in Nat /\ DOMAIN seqs = 1..n /\ \A i \in 1..n : seqs[i] \in Seq(X) /\ Len(seqs[i]) \in Nat
  OBVIOUS
<1>2. l = [i \in 1..n |-> Len(seqs[i])]
  BY <1>1 DEF Lens
<1>3. l \in [1..n -> Nat] /\ \A i \in 1..n : l[i] = Len(seqs[i])
  BY <1>1, <1>2
<1>j. Joined(X, F, seqs, n)
  BY FlattenIs
<1>4. /\ F \in Seq(X) /\ Len(F) = t[n]
      /\ \A i \in 1..n : \A j \in 1..Len(seqs[i]) : t[i - 1] + j \in 1..Len(F) /\ F[t[i - 1] + j] = seqs[i][j]
  BY <1>j DEF Joined
<1> HIDE DEF F, l, n
<1>5. l \in Seq(Nat) /\ Len(l) = n
  BY <1>1, <1>3
<1>6. t[0] = 0 /\ \A i \in 1..n : t[i] = t[i - 1] + l[i]
  <2>1. Len(l) \in Nat
    BY <1>1, <1>5
  <2> QED BY <2>1, <1>5, SumsIs
<1>7. \A i \in 0..n : t[i] \in Nat
  BY <1>5, SumsNat
<1> HIDE DEF t
<1>8. 0 \in S
  BY <1>1, <1>6
<1>9. ASSUME NEW k \in 0..n, k < n, k \in S PROVE k + 1 \in S
  <2>1. k + 1 \in 1..n /\ (k + 1) - 1 = k /\ k + 1 \in 0..n
    BY <1>1, <1>9
  <2>2. t[k + 1] = t[k] + Len(seqs[k + 1]) /\ t[k] \in Nat /\ Len(seqs[k + 1]) \in Nat
    BY <2>1, <1>1, <1>3, <1>6, <1>7
  <2>3. ASSUME NEW m \in 1..t[k + 1] PROVE \E i \in 1..n : \E j \in 1..Len(seqs[i]) : m = t[i - 1] + j
    <3>1. CASE m <= t[k]
      <4>1. m \in 1..t[k]
        BY <3>1, <2>2
      <4> QED BY <4>1, <1>9
    <3>2. CASE m > t[k]
      <4> DEFINE x == Len(seqs[k + 1])
                 y == t[k]
      <4>1. m - y \in 1..x /\ m = y + (m - y)
        <5>1. m \in 1..(y + x) /\ y \in Nat /\ x \in Nat /\ m > y
          BY <2>2, <3>2
        <5> HIDE DEF x, y
        <5> QED BY <5>1
      <4>2. m - y \in 1..Len(seqs[k + 1]) /\ m = t[(k + 1) - 1] + (m - y)
        BY <4>1, <2>1
      <4> HIDE DEF y
      <4> QED BY <4>2, <2>1
    <3> QED BY <3>1, <3>2, <2>2
  <2> QED BY <2>1, <2>3
<1> HIDE DEF S
<1>10. \A k \in 0..n : k \in S
  BY <1>1, <1>8, <1>9, Places
<1>11. \A m \in 1..Len(F) : \E i \in 1..n : \E j \in 1..Len(seqs[i]) : m = t[i - 1] + j
  <2>1. n \in S
    BY <1>1, <1>10
  <2> QED BY <2>1, <1>4 DEF S
<1>12. DOMAIN F = 1..Len(F) /\ \A i \in 1..n : DOMAIN seqs[i] = 1..Len(seqs[i])
  BY <1>1, <1>4
<1>13. ASSUME NEW x \in ToSet(F) PROVE \E i \in 1..n : x \in ToSet(seqs[i])
  <2>1. PICK m \in 1..Len(F) : x = F[m]
    BY <1>12 DEF ToSet
  <2>2. PICK i \in 1..n : \E j \in 1..Len(seqs[i]) : m = t[i - 1] + j
    BY <1>11
  <2>3. PICK j \in 1..Len(seqs[i]) : m = t[i - 1] + j
    BY <2>2
  <2>4. x = seqs[i][j]
    BY <1>4, <2>1, <2>3
  <2>5. x \in ToSet(seqs[i])
    BY <1>12, <2>4 DEF ToSet
  <2> QED BY <2>5
<1>14. ASSUME NEW i \in 1..n, NEW x \in ToSet(seqs[i]) PROVE x \in ToSet(F)
  <2>1. PICK j \in 1..Len(seqs[i]) : x = seqs[i][j]
    BY <1>12 DEF ToSet
  <2>2. t[i - 1] + j \in 1..Len(F) /\ F[t[i - 1] + j] = x
    BY <1>4, <2>1
  <2> DEFINE m == t[i - 1] + j
  <2>3. m \in 1..Len(F) /\ F[m] = x
    BY <2>2
  <2> HIDE DEF m
  <2> QED BY <2>3, <1>12 DEF ToSet
<1>15. ToSet(F) = UNION {ToSet(seqs[i]) : i \in 1..n}
  BY <1>13, <1>14
<1>16. Len(F) = Sum(l)
  BY <1>4, <1>5 DEF Sum, t
<1> QED BY <1>3, <1>5, <1>15, <1>16 DEF F, l, n

\* The elements of ss in another order, place d of tt being place p[d] of ss.
Permutes(p, ss, tt) ==
  /\ Len(tt) = Len(ss) /\ p \in Bijection(1..Len(tt), 1..Len(ss))
  /\ \A d \in 1..Len(tt) : tt[d] = ss[p[d]]

\* Reversing is one.
LEMMA ReverseIs ==
  ASSUME NEW X, NEW s \in Seq(X)
  PROVE  /\ Reverse(s) \in Seq(X) /\ Len(Reverse(s)) = Len(s)
         /\ \E p : Permutes(p, s, Reverse(s))
<1> DEFINE n == Len(s)
           r == Reverse(s)
           p == [i \in 1..n |-> (n - i) + 1]
<1>1. n \in Nat /\ \A i \in 1..n : s[i] \in X
  OBVIOUS
<1>2. r = [i \in 1..n |-> s[(n - i) + 1]]
  BY DEF Reverse
<1> HIDE DEF r, n
<1>3. \A i \in 1..n : (n - i) + 1 \in 1..n /\ (n - ((n - i) + 1)) + 1 = i
  BY <1>1
<1>4. r \in [1..n -> X] /\ \A i \in 1..n : r[i] = s[p[i]]
  BY <1>1, <1>2, <1>3
<1>5. r \in Seq(X) /\ Len(r) = n
  BY <1>1, <1>4
<1>6. p \in [1..n -> 1..n] /\ (\A i \in 1..n : p[p[i]] = i)
  BY <1>3
<1> HIDE DEF p
<1>7. p \in Bijection(1..n, 1..n)
  <2>1. \A i, j \in 1..n : p[i] = p[j] => i = j
    BY <1>6
  <2>2. \A k \in 1..n : \E i \in 1..n : p[i] = k
    BY <1>6
  <2> QED BY <1>6, <2>1, <2>2 DEF Bijection, Injection, IsInjective, Surjection
<1>8. Permutes(p, s, r)
  BY <1>4, <1>5, <1>7 DEF Permutes, n
<1> QED BY <1>5, <1>8 DEF r, n

\* What the same elements in the same number are, none twice.
LEMMA SamePermutes ==
  ASSUME NEW X, NEW ss \in Seq(X), NEW tt \in Seq(X), Len(tt) = Len(ss), ToSet(tt) = ToSet(ss),
         \A d, e \in 1..Len(ss) : ss[d] = ss[e] => d = e
  PROVE  \E p : Permutes(p, ss, tt)
<1> DEFINE n == Len(ss)
           p == [d \in 1..n |-> CHOOSE e \in 1..n : ss[e] = tt[d]]
<1>1. n \in Nat /\ DOMAIN ss = 1..n /\ DOMAIN tt = 1..n
  OBVIOUS
<1>2. \A d, e \in 1..n : ss[d] = ss[e] => d = e
  OBVIOUS
<1>3. ASSUME NEW d \in 1..n PROVE \E e \in 1..n : ss[e] = tt[d]
  <2>1. tt[d] \in ToSet(tt)
    BY <1>1 DEF ToSet
  <2>2. tt[d] \in ToSet(ss)
    BY <2>1
  <2> HIDE DEF n
  <2> QED BY <2>2, <1>1 DEF ToSet
<1>4. ASSUME NEW e \in 1..n PROVE \E d \in 1..n : ss[e] = tt[d]
  <2>1. ss[e] \in ToSet(ss)
    BY <1>1 DEF ToSet
  <2>2. ss[e] \in ToSet(tt)
    BY <2>1
  <2> HIDE DEF n
  <2> QED BY <2>2, <1>1 DEF ToSet
<1> HIDE DEF n
<1>5. \A d \in 1..n : p[d] \in 1..n /\ ss[p[d]] = tt[d]
  BY <1>3
<1>6. p \in [1..n -> 1..n]
  BY <1>5
<1> HIDE DEF p
<1>7. p \in Surjection(1..n, 1..n)
  <2>1. ASSUME NEW e \in 1..n PROVE \E d \in 1..n : p[d] = e
    <3>1. PICK d \in 1..n : ss[e] = tt[d]
      BY <1>4
    <3>2. ss[p[d]] = ss[e] /\ p[d] \in 1..n
      BY <1>5, <3>1
    <3> QED BY <3>2, <1>2
  <2> QED BY <1>6, <2>1 DEF Surjection
<1>8. p \in Injection(1..n, 1..n)
  <2>1. IsFiniteSet(1..n)
    BY <1>1, FS_Interval
  <2> QED BY <2>1, <1>7, FS_SurjSameCardinalityImpliesInj
<1>9. Permutes(p, ss, tt)
  BY <1>5, <1>7, <1>8 DEF Permutes, Bijection, n
<1> QED BY <1>9

\* The pages the other way round are a corpus, with the same sections in another order.
LEMMA ReversedCorpus ==
  ASSUME NEW ps, IsCorpus(ps)
  PROVE  /\ IsCorpus(Reverse(ps))
         /\ \E p : Permutes(p, Sections(ps), Sections(Reverse(ps)))
<1> DEFINE qs == Reverse(ps)
           X == SectionsIn(AudiencesOf(ps))
           a == SectionsBy(ps)
           b == SectionsBy(qs)
           n == Len(ps)
           ss == Sections(ps)
           tt == Sections(qs)
<1>1. /\ n \in Nat /\ DOMAIN ps = 1..n /\ \A i \in 1..n : SectionsOn(ps[i]) \in Seq(X)
      /\ ss = FlattenSeq(a)
  BY SectionsOnType
<1>2. tt = FlattenSeq(b)
  BY DEF Sections, SectionsBy, SectionsOn
<1>3. PICK p : Permutes(p, ps, qs)
  <2>1. ps \in Seq(ToSet(ps))
    BY DEF IsCorpus
  <2> DEFINE Y == ToSet(ps)
  <2>2. ps \in Seq(Y)
    BY <2>1
  <2> HIDE DEF Y
  <2> QED BY <2>2, ReverseIs
<1>4. qs \in Seq(ToSet(ps)) /\ Len(qs) = n /\ DOMAIN qs = 1..n
  <2>1. ps \in Seq(ToSet(ps))
    BY DEF IsCorpus
  <2> DEFINE Y == ToSet(ps)
  <2>2. ps \in Seq(Y)
    BY <2>1
  <2> HIDE DEF Y
  <2>3. Reverse(ps) \in Seq(Y) /\ Len(Reverse(ps)) = Len(ps)
    BY <2>2, ReverseIs
  <2> QED BY <2>3 DEF Y
<1>5. p \in Bijection(1..n, 1..n) /\ \A i \in 1..n : qs[i] = ps[p[i]]
  BY <1>3, <1>4 DEF Permutes
<1>6. p \in [1..n -> 1..n] /\ \A k \in 1..n : \E i \in 1..n : p[i] = k
  BY <1>5 DEF Bijection, Injection, Surjection
<1>7. \A i \in 1..n : IsPage(ps[i])
  BY <1>1 DEF IsCorpus
<1>8. \A d, e \in DOMAIN ss : d # e => \/ ss[d].doc.slug # ss[e].doc.slug
                                       \/ ss[d].doc.anchor # ss[e].doc.anchor
  BY DEF IsCorpus
<1>q. IsCorpus(qs) <=> /\ qs \in Seq(ToSet(qs)) /\ \A i \in DOMAIN qs : IsPage(qs[i])
                       /\ \A d, e \in DOMAIN tt :
                            d # e => \/ tt[d].doc.slug # tt[e].doc.slug
                                     \/ tt[d].doc.anchor # tt[e].doc.anchor
  BY DEF IsCorpus
<1>a. a = [i \in 1..n |-> SectionsOn(ps[i])] /\ b = [i \in 1..n |-> SectionsOn(qs[i])]
  BY <1>1, <1>4 DEF SectionsBy
<1> HIDE DEF qs, n, ss, tt, X, a, b
<1>9. a \in Seq(Seq(X)) /\ Len(a) = n /\ \A i \in 1..n : a[i] = SectionsOn(ps[i])
  BY <1>1, <1>a
<1>10. b \in Seq(Seq(X)) /\ Len(b) = n /\ \A i \in 1..n : b[i] = a[p[i]]
  <2>1. \A i \in 1..n : SectionsOn(qs[i]) = a[p[i]] /\ a[p[i]] \in Seq(X)
    BY <1>1, <1>5, <1>6, <1>9
  <2>2. \A i \in 1..n : b[i] = SectionsOn(qs[i])
    BY <1>a
  <2>3. n \in Nat /\ DOMAIN b = 1..n /\ b = [i \in 1..n |-> b[i]] /\ \A i \in 1..n : b[i] \in Seq(X)
    BY <1>1, <1>a, <2>1
  <2>4. b \in Seq(Seq(X)) /\ Len(b) = n
    BY <2>3
  <2> QED BY <2>1, <2>2, <2>4, Zenon
<1>11. Len(tt) = Len(ss)
  <2>1. Lens(a) \in Seq(Nat) /\ Len(Lens(a)) = n /\ \A i \in 1..n : Lens(a)[i] = Len(a[i])
    BY <1>9, FlatHas
  <2>2. Lens(b) \in Seq(Nat) /\ Len(Lens(b)) = n /\ \A i \in 1..n : Lens(b)[i] = Len(b[i])
    BY <1>10, FlatHas
  <2>3. ASSUME NEW i \in 1..n PROVE Lens(b)[i] = Lens(a)[p[i]]
    <3>1. p[i] \in 1..n /\ b[i] = a[p[i]]
      BY <1>6, <1>10
    <3>2. Lens(b)[i] = Len(b[i]) /\ Lens(a)[p[i]] = Len(a[p[i]])
      BY <2>1, <2>2, <3>1
    <3> QED BY <3>1, <3>2, Zenon
  <2>4. p \in Bijection(1..Len(Lens(b)), 1..Len(Lens(a)))
    BY <1>5, <2>1, <2>2
  <2>5. Sum(Lens(b)) = Sum(Lens(a))
    <3> DEFINE x == Lens(a)
               y == Lens(b)
    <3>1. x \in Seq(Nat) /\ y \in Seq(Nat) /\ p \in Bijection(1..Len(y), 1..Len(x)) /\ \A i \in 1..Len(y) : y[i] = x[p[i]]
      BY <2>1, <2>2, <2>3, <2>4
    <3> HIDE DEF x, y
    <3>2. Sum(y) = Sum(x)
      BY <3>1, SumPermuted
    <3> QED BY <3>2 DEF x, y
  <2>6. Len(FlattenSeq(a)) = Sum(Lens(a)) /\ Len(FlattenSeq(b)) = Sum(Lens(b))
    BY <1>9, <1>10, FlatHas
  <2> QED BY <2>5, <2>6, <1>1, <1>2
<1>12. ToSet(tt) = ToSet(ss)
  <2>1. ToSet(ss) = UNION {ToSet(a[i]) : i \in 1..n}
    BY <1>1, <1>9, FlatHas
  <2>2. ToSet(tt) = UNION {ToSet(b[i]) : i \in 1..n}
    BY <1>2, <1>10, FlatHas
  <2>3. ASSUME NEW i \in 1..n PROVE ToSet(b[i]) \in {ToSet(a[k]) : k \in 1..n}
    <3>1. p[i] \in 1..n /\ b[i] = a[p[i]]
      BY <1>6, <1>10
    <3>2. ToSet(b[i]) = ToSet(a[p[i]])
      BY <3>1, Zenon
    <3> QED BY <3>1, <3>2
  <2>4. ASSUME NEW k \in 1..n PROVE ToSet(a[k]) \in {ToSet(b[i]) : i \in 1..n}
    <3>1. PICK i \in 1..n : p[i] = k
      BY <1>6
    <3>2. b[i] = a[k]
      BY <1>10, <3>1
    <3>3. ToSet(a[k]) = ToSet(b[i])
      BY <3>2, Zenon
    <3> QED BY <3>3
  <2>5. {ToSet(b[i]) : i \in 1..n} = {ToSet(a[k]) : k \in 1..n}
    BY <2>3, <2>4
  <2> QED BY <2>1, <2>2, <2>5, Zenon
<1>13. ss \in Seq(X) /\ tt \in Seq(X)
  <2>1. FlattenSeq(a) \in Seq(X)
    BY <1>9, FlattenIs DEF Joined
  <2>2. FlattenSeq(b) \in Seq(X)
    BY <1>10, FlattenIs DEF Joined
  <2> QED BY <2>1, <2>2, <1>1, <1>2
<1>14. \A d, e \in 1..Len(ss) : ss[d] = ss[e] => d = e
  <2>1. DOMAIN ss = 1..Len(ss)
    BY <1>13
  <2> QED BY <2>1, <1>8
<1>15. PICK s : Permutes(s, ss, tt)
  BY <1>11, <1>12, <1>13, <1>14, SamePermutes
<1>16. \A d, e \in DOMAIN tt : d # e => \/ tt[d].doc.slug # tt[e].doc.slug
                                        \/ tt[d].doc.anchor # tt[e].doc.anchor
  <2>1. DOMAIN tt = 1..Len(tt) /\ DOMAIN ss = 1..Len(ss)
    BY <1>13
  <2> SUFFICES ASSUME NEW d \in 1..Len(tt), NEW e \in 1..Len(tt), d # e
               PROVE  tt[d].doc.slug # tt[e].doc.slug \/ tt[d].doc.anchor # tt[e].doc.anchor
    BY <2>1
  <2>2. tt[d] = ss[s[d]] /\ tt[e] = ss[s[e]]
    BY <1>15 DEF Permutes
  <2>3. s[d] \in 1..Len(ss) /\ s[e] \in 1..Len(ss) /\ s[d] # s[e]
    BY <1>15 DEF Permutes, Bijection, Injection, IsInjective
  <2> QED BY <2>1, <2>2, <2>3, <1>8
<1>17. qs \in Seq(ToSet(qs)) /\ \A i \in DOMAIN qs : IsPage(qs[i])
  <2>1. \A i \in 1..n : IsPage(qs[i])
    BY <1>5, <1>6, <1>7
  <2>2. qs \in Seq(ToSet(qs))
    <3>1. \A i \in 1..n : qs[i] \in ToSet(qs)
      BY <1>4 DEF ToSet
    <3> DEFINE Y == ToSet(qs)
    <3>2. qs = [i \in 1..n |-> qs[i]] /\ \A i \in 1..n : qs[i] \in Y
      BY <1>4, <3>1
    <3> HIDE DEF Y
    <3>3. qs \in Seq(Y)
      BY <1>1, <3>2
    <3> QED BY <3>3 DEF Y
  <2> QED BY <2>1, <2>2, <1>4
<1>18. IsCorpus(qs)
  BY <1>16, <1>17, <1>q
<1> QED BY <1>15, <1>18 DEF qs, ss, tt

\* The words of the sections, and who has them, in another order.
LEMMA SameWords ==
  ASSUME NEW ps, NEW qs, IsCorpus(ps), IsCorpus(qs), NEW p, Permutes(p, Sections(ps), Sections(qs))
  PROVE  LET N == Len(Sections(ps))
         IN  /\ N \in Nat /\ Len(Sections(qs)) = N
             /\ p \in [1..N -> 1..N]
             /\ \A d, e \in 1..N : p[d] = p[e] => d = e
             /\ \A e \in 1..N : \E d \in 1..N : p[d] = e
             /\ \A d \in 1..N : Sections(qs)[d] = Sections(ps)[p[d]]
             /\ \A f \in Fields : \A d \in 1..N : Words(Sections(qs))[f][d] = Words(Sections(ps))[f][p[d]]
             /\ Vocabulary(qs) = Vocabulary(ps)
             /\ \A t : \A d \in 1..N : d - 1 \in Holders(qs, t) <=> p[d] - 1 \in Holders(ps, t)
             /\ \A t : Cardinality(Holders(qs, t)) = Cardinality(Holders(ps, t))
<1> DEFINE N == Len(Sections(ps))
           W == Words(Sections(ps))
           U == Words(Sections(qs))
<1>1. N \in Nat /\ DOMAIN Sections(ps) = 1..N /\ Len(Sections(qs)) = N /\ DOMAIN Sections(qs) = 1..N
  <2>1. N \in Nat /\ DOMAIN Sections(ps) = 1..N /\ DOMAIN Sections(qs) = 1..Len(Sections(qs))
    BY WordsIs, FieldsAre
  <2>2. Len(Sections(qs)) = N
    BY DEF Permutes
  <2> QED BY <2>1, <2>2
<1>2. /\ p \in [1..N -> 1..N] /\ (\A d, e \in 1..N : p[d] = p[e] => d = e)
      /\ \A e \in 1..N : \E d \in 1..N : p[d] = e
  <2>1. p \in Bijection(1..N, 1..N)
    BY <1>1 DEF Permutes
  <2> HIDE DEF N
  <2> QED BY <2>1 DEF Bijection, Injection, IsInjective, Surjection
<1>3. \A d \in 1..N : Sections(qs)[d] = Sections(ps)[p[d]]
  BY <1>1 DEF Permutes
<1>4. \A f \in Fields : \A d \in 1..N : U[f][d] = W[f][p[d]]
  <2> SUFFICES ASSUME NEW f \in Fields, NEW d \in 1..N PROVE U[f][d] = W[f][p[d]]
    OBVIOUS
  <2>1. p[d] \in 1..N
    BY <1>2
  <2>2. W[f][p[d]] = Tokenise(Sections(ps)[p[d]].text[f])
    BY <2>1, WordsIs
  <2>3. U[f][d] = Tokenise(Sections(qs)[d].text[f])
    BY <1>1, WordsIs
  <2>4. Sections(qs)[d] = Sections(ps)[p[d]]
    BY <1>3
  <2> HIDE DEF W, U
  <2> QED BY <2>2, <2>3, <2>4
<1>5. Vocabulary(qs) = Vocabulary(ps)
  <2>1. \A t : t \in Vocabulary(ps) <=> \E f \in Fields : \E d \in 1..N : t \in ToSet(W[f][d])
    BY <1>1 DEF Vocabulary
  <2>2. \A t : t \in Vocabulary(qs) <=> \E f \in Fields : \E d \in 1..N : t \in ToSet(U[f][d])
    BY <1>1 DEF Vocabulary
  <2> HIDE DEF W, U, N
  <2>3. ASSUME NEW t \in Vocabulary(qs) PROVE t \in Vocabulary(ps)
    <3>1. PICK f \in Fields : \E d \in 1..N : t \in ToSet(U[f][d])
      BY <2>2
    <3>2. PICK d \in 1..N : t \in ToSet(U[f][d])
      BY <3>1
    <3>3. p[d] \in 1..N /\ U[f][d] = W[f][p[d]]
      BY <1>2, <1>4
    <3>4. t \in ToSet(W[f][p[d]])
      BY <3>2, <3>3, Zenon
    <3> QED BY <2>1, <3>3, <3>4
  <2>4. ASSUME NEW t \in Vocabulary(ps) PROVE t \in Vocabulary(qs)
    <3>1. PICK f \in Fields : \E d \in 1..N : t \in ToSet(W[f][d])
      BY <2>1
    <3>2. PICK e \in 1..N : t \in ToSet(W[f][e])
      BY <3>1
    <3>3. PICK d \in 1..N : p[d] = e
      BY <1>2
    <3>4. U[f][d] = W[f][e]
      BY <1>4, <3>3
    <3>5. t \in ToSet(U[f][d])
      BY <3>2, <3>4, Zenon
    <3> QED BY <2>2, <3>5
  <2> QED BY <2>3, <2>4
<1>6. \A t : \A d \in 1..N : d - 1 \in Holders(qs, t) <=> p[d] - 1 \in Holders(ps, t)
  <2> SUFFICES ASSUME NEW t, NEW d \in 1..N PROVE d - 1 \in Holders(qs, t) <=> p[d] - 1 \in Holders(ps, t)
    OBVIOUS
  <2>1. \A e \in 1..N : e - 1 \in Holders(ps, t) <=> \E f \in Fields : t \in ToSet(W[f][e])
    <3> SUFFICES ASSUME NEW e \in 1..N PROVE e - 1 \in Holders(ps, t) <=> \E f \in Fields : t \in ToSet(W[f][e])
      OBVIOUS
    <3>1. e - 1 \in 0..N - 1 /\ (e - 1) + 1 = e
      BY <1>1
    <3>2. e - 1 \in Holders(ps, t) <=> (e - 1 \in 0..N - 1 /\ \E f \in Fields : t \in ToSet(W[f][(e - 1) + 1]))
      BY DEF Holders
    <3> HIDE DEF W, N
    <3> QED BY <3>1, <3>2
  <2>2. d - 1 \in Holders(qs, t) <=> \E f \in Fields : t \in ToSet(U[f][d])
    <3>1. d - 1 \in 0..N - 1 /\ (d - 1) + 1 = d
      BY <1>1
    <3>2. d - 1 \in Holders(qs, t) <=> (d - 1 \in 0..N - 1 /\ \E f \in Fields : t \in ToSet(U[f][(d - 1) + 1]))
      BY <1>1 DEF Holders
    <3> HIDE DEF U, N
    <3> QED BY <3>1, <3>2
  <2> HIDE DEF W, U, N
  <2>3. p[d] \in 1..N /\ \A f \in Fields : U[f][d] = W[f][p[d]]
    BY <1>2, <1>4
  <2>4. (\E f \in Fields : t \in ToSet(U[f][d])) <=> \E f \in Fields : t \in ToSet(W[f][p[d]])
    <3>1. ASSUME NEW f \in Fields PROVE t \in ToSet(U[f][d]) <=> t \in ToSet(W[f][p[d]])
      <4>1. U[f][d] = W[f][p[d]]
        BY <2>3
      <4> QED BY <4>1, Zenon
    <3> QED BY <3>1
  <2> QED BY <2>1, <2>2, <2>3, <2>4
<1>7. \A t : Cardinality(Holders(qs, t)) = Cardinality(Holders(ps, t))
  <2> SUFFICES ASSUME NEW t PROVE Cardinality(Holders(qs, t)) = Cardinality(Holders(ps, t))
    OBVIOUS
  <2> DEFINE A == Holders(ps, t)
             B == Holders(qs, t)
             e == [id \in B |-> p[id + 1] - 1]
  <2>1. A \in SUBSET (0..N - 1) /\ B \in SUBSET (0..N - 1)
    BY <1>1 DEF Holders
  <2>2. \A d \in 1..N : d - 1 \in B <=> p[d] - 1 \in A
    BY <1>6
  <2> HIDE DEF A, B, N
  <2>3. ASSUME NEW id \in B PROVE id + 1 \in 1..N /\ e[id] = p[id + 1] - 1 /\ e[id] \in A /\ p[id + 1] \in 1..N
    <3>1. id + 1 \in 1..N /\ (id + 1) - 1 = id
      BY <1>1, <2>1
    <3>2. p[id + 1] - 1 \in A
      BY <2>2, <3>1
    <3> QED BY <1>2, <3>1, <3>2
  <2>4. e \in [B -> A]
    BY <2>3
  <2>5. ASSUME NEW y \in A PROVE \E id \in B : e[id] = y
    <3>1. y + 1 \in 1..N /\ (y + 1) - 1 = y
      BY <1>1, <2>1
    <3>2. PICK d \in 1..N : p[d] = y + 1
      BY <1>2, <3>1
    <3>3. d - 1 \in B
      BY <2>2, <3>1, <3>2
    <3>4. (d - 1) + 1 = d
      BY <1>1
    <3>5. e[d - 1] = y
      BY <2>3, <3>1, <3>2, <3>3, <3>4
    <3> HIDE DEF e
    <3> QED BY <3>3, <3>5
  <2> HIDE DEF e
  <2>6. ASSUME NEW x \in B, NEW y \in B, e[x] = e[y] PROVE x = y
    <3>1. p[x + 1] = p[y + 1] /\ x + 1 \in 1..N /\ y + 1 \in 1..N
      <4>1. p[x + 1] - 1 = p[y + 1] - 1 /\ p[x + 1] \in 1..N /\ p[y + 1] \in 1..N
        BY <2>3, <2>6
      <4> QED BY <4>1, <2>3
    <3>2. x + 1 = y + 1
      BY <1>2, <3>1
    <3>3. x \in 0..N - 1 /\ y \in 0..N - 1
      BY <2>1
    <3> QED BY <3>2, <3>3
  <2>7. e \in Bijection(B, A)
    BY <2>4, <2>5, <2>6 DEF Bijection, Injection, IsInjective, Surjection
  <2>8. IsFiniteSet(B)
    <3>1. 0 \in Int /\ N - 1 \in Int
      BY <1>1
    <3>2. IsFiniteSet(0..N - 1)
      BY <3>1, FS_Interval
    <3> QED BY <2>1, <3>2, FS_Subset
  <2>9. ExistsBijection(B, A)
    BY <2>7 DEF ExistsBijection
  <2>10. Cardinality(A) = Cardinality(B)
    BY <2>8, <2>9, FS_Bijection
  <2> QED BY <2>10 DEF A, B
<1> QED BY <1>1, <1>2, <1>3, <1>4, <1>5, <1>6, <1>7

\* How often a word is one of w.
Often(w, t) == Cardinality({k \in DOMAIN w : w[k] = t})

\* What a section's words in one field are worth to it, the term being one of them or not.
LEMMA WorthOf ==
  ASSUME NEW ps, IsCorpus(ps), Readable(Build(ps)), NEW f \in Fields, NEW i \in DOMAIN Build(ps).terms,
         NEW d \in 1..Len(Sections(ps))
  PROVE  LET w == Words(Sections(ps))[f][d]
             t == Build(ps).terms[i]
         IN  Worth(Build(ps), f, i, d - 1) =
               IF t \in ToSet(w) THEN Share(Build(ps), f, i, [id |-> d - 1, tf |-> Often(w, t)]) ELSE 0
<1> DEFINE ix == Build(ps)
           N == Len(Sections(ps))
           V == Words(Sections(ps))[f]
           t == ix.terms[i]
           P == Postings(ix.f[f], i)
           Of(k) == IF P[k].id = d - 1 THEN Share(ix, f, i, P[k]) ELSE 0
           seq == [k \in DOMAIN P |-> Of(k)]
<1>1. N \in Nat /\ d \in 1..N /\ V \in Seq(Seq(Text)) /\ Len(V) = N /\ ix.n = N
  BY WordsIs, BuildHas
<1>2. ix.terms \in Seq(Text) /\ ix.f[f] = Encode(ix.terms, V)
  BY DictionaryIs, BuildHas
<1>r. Readable(ix) /\ i \in DOMAIN ix.terms
  OBVIOUS
<1>3. Worth(ix, f, i, d - 1) = Sum(seq)
  BY DEF Worth
<1> HIDE DEF ix, V, N
<1>4. /\ P \in Seq(Occurrences(N))
      /\ {q.id : q \in ToSet(P)} = Has(V, t)
      /\ \A q \in ToSet(P) : q.tf = Gathered(V, t)[q.id]
      /\ \A j, k \in DOMAIN P : j < k => P[j].id < P[k].id
  BY <1>1, <1>2, <1>r, PostingsHave
<1> HIDE DEF P, t
<1>5. Len(P) \in Nat /\ DOMAIN P = 1..Len(P) /\ \A k \in 1..Len(P) : P[k] \in Occurrences(N)
  BY <1>4
<1>6. \A k \in 1..Len(P) : Of(k) \in Nat
  <2> SUFFICES ASSUME NEW k \in 1..Len(P) PROVE Of(k) \in Nat
    OBVIOUS
  <2>1. P[k] \in Occurrences(ix.n)
    BY <1>1, <1>5
  <2>2. Share(ix, f, i, P[k]) \in Positive
    BY <1>r, <2>1, ShareIs
  <2> QED BY <2>2 DEF Positive
<1>7. seq \in Seq(Nat) /\ Len(seq) = Len(P) /\ \A k \in 1..Len(P) : seq[k] = Of(k)
  <2> HIDE DEF Of
  <2> QED BY <1>5, <1>6
<1>8. d - 1 \in Has(V, t) <=> t \in ToSet(V[d])
  <2>1. d - 1 \in 0..(Len(V) - 1) /\ (d - 1) + 1 = d
    BY <1>1
  <2>2. d - 1 \in Has(V, t) <=> (d - 1 \in 0..(Len(V) - 1) /\ t \in ToSet(V[(d - 1) + 1]))
    BY DEF Has
  <2> QED BY <2>1, <2>2
<1>9. CASE t \in ToSet(V[d])
  <2>1. PICK q \in ToSet(P) : q.id = d - 1
    BY <1>4, <1>8, <1>9
  <2>2. PICK k \in 1..Len(P) : q = P[k]
    BY <1>5 DEF ToSet
  <2>3. ASSUME NEW j \in 1..Len(P), j # k PROVE P[j].id # d - 1
    <3>1. P[j].id \in Int /\ P[k].id \in Int
      <4>1. P[j] \in Occurrences(N) /\ P[k] \in Occurrences(N)
        BY <1>5
      <4> QED BY <4>1, <1>1 DEF Occurrences
    <3>2. P[j].id < P[k].id \/ P[k].id < P[j].id
      <4>1. j < k \/ k < j
        BY <1>5, <2>3
      <4> QED BY <4>1, <1>4, <1>5
    <3>3. P[k].id = d - 1
      BY <2>1, <2>2
    <3> QED BY <3>1, <3>2, <3>3
  <2>4. \A j \in 1..Len(seq) : j # k => seq[j] = 0
    BY <1>7, <2>3
  <2> HIDE DEF seq
  <2>5. Sum(seq) = seq[k]
    BY <1>7, <2>2, <2>4, SumOfOne
  <2>6. seq[k] = Share(ix, f, i, q)
    BY <1>7, <2>1, <2>2
  <2>7. q = [id |-> d - 1, tf |-> Often(V[d], t)]
    <3>1. q.tf = Gathered(V, t)[d - 1]
      BY <1>4, <2>1
    <3>2. Gathered(V, t)[d - 1] = Often(V[(d - 1) + 1], t)
      <4>1. d - 1 \in Has(V, t)
        BY <1>8, <1>9
      <4>2. Gathered(V, t) = [id \in Has(V, t) |-> Often(V[id + 1], t)]
        BY DEF Gathered, Has, Often
      <4> QED BY <4>1, <4>2
    <3>3. (d - 1) + 1 = d
      BY <1>1
    <3>4. q \in Occurrences(N)
      BY <1>5, <2>2
    <3>5. q = [id |-> q.id, tf |-> q.tf]
      BY <3>4 DEF Occurrences
    <3>6. q.tf = Often(V[d], t)
      BY <3>1, <3>2, <3>3
    <3> QED BY <2>1, <3>5, <3>6
  <2>8. Worth(ix, f, i, d - 1) = Share(ix, f, i, [id |-> d - 1, tf |-> Often(V[d], t)])
    BY <1>3, <2>5, <2>6, <2>7
  <2> QED BY <2>8, <1>9 DEF V, t, ix
<1>10. CASE t \notin ToSet(V[d])
  <2>1. ASSUME NEW k \in 1..Len(P) PROVE P[k].id # d - 1
    <3>1. P[k] \in ToSet(P)
      BY <1>5 DEF ToSet
    <3>2. P[k].id \in Has(V, t)
      BY <1>4, <3>1
    <3> QED BY <3>2, <1>8, <1>10
  <2>2. \A j \in 1..Len(seq) : seq[j] = 0
    BY <1>7, <2>1
  <2> HIDE DEF seq
  <2>3. Sum(seq) = 0
    BY <1>7, <2>2, SumOfOne
  <2> QED BY <1>3, <1>10, <2>3 DEF V, t, ix
<1> QED BY <1>9, <1>10

\* c says of its section d what b says of its section p[d].
Twins(b, c, p) ==
  /\ c.n = b.n /\ c.terms = b.terms
  /\ p \in [1..b.n -> 1..b.n]
  /\ \A d, e \in 1..b.n : p[d] = p[e] => d = e
  /\ \A e \in 1..b.n : \E d \in 1..b.n : p[d] = e
  /\ \A d \in 1..b.n : c.docs[d] = b.docs[p[d]]
  /\ \A f \in Fields : c.totalLen[f] = b.totalLen[f] /\ \A d \in 1..b.n : c.len[f][d] = b.len[f][p[d]]
  /\ \A i \in DOMAIN b.terms :
       /\ c.df[i] = b.df[i]
       /\ \A d \in 1..b.n : d - 1 \in Holding(c, i) <=> p[d] - 1 \in Holding(b, i)

\* An index built from the same sections in another order has the same words, in as many
\* sections, and says of each section what the first says of it.
LEMMA SameBuild ==
  ASSUME NEW ps, NEW qs, IsCorpus(ps), IsCorpus(qs), NEW p, Permutes(p, Sections(ps), Sections(qs)),
         Readable(Build(ps)), Readable(Build(qs))
  PROVE  Twins(Build(ps), Build(qs), p)
<1> DEFINE b == Build(ps)
           c == Build(qs)
           ss == Sections(ps)
           tt == Sections(qs)
           N == Len(ss)
<1>1. /\ N \in Nat /\ Len(tt) = N
      /\ p \in [1..N -> 1..N]
      /\ \A d, e \in 1..N : p[d] = p[e] => d = e
      /\ \A e \in 1..N : \E d \in 1..N : p[d] = e
      /\ \A d \in 1..N : tt[d] = ss[p[d]]
      /\ \A f \in Fields : \A d \in 1..N : Words(tt)[f][d] = Words(ss)[f][p[d]]
      /\ Vocabulary(qs) = Vocabulary(ps)
      /\ \A t : \A d \in 1..N : d - 1 \in Holders(qs, t) <=> p[d] - 1 \in Holders(ps, t)
      /\ \A t : Cardinality(Holders(qs, t)) = Cardinality(Holders(ps, t))
  BY SameWords
<1>2. DOMAIN ss = 1..N /\ DOMAIN tt = 1..N
  <2>1. ss \in Seq(SectionsIn(AudiencesOf(ps))) /\ tt \in Seq(SectionsIn(AudiencesOf(qs)))
    BY SectionsType
  <2> QED BY <2>1, <1>1
<1>3. p \in Bijection(1..N, 1..N)
  BY <1>1 DEF Permutes
<1>4. /\ b.n = N /\ b.terms = Sorted(Vocabulary(ps), Less)
      /\ b.docs = [d \in 1..N |-> ss[d].doc]
      /\ \A f \in Fields : /\ b.len[f] = [d \in 1..N |-> Len(Words(ss)[f][d])]
                           /\ b.totalLen[f] = Sum(b.len[f])
  BY BuildHas, <1>2
<1>51. /\ c.n = Len(tt) /\ c.terms = Sorted(Vocabulary(qs), Less)
       /\ c.docs = [d \in DOMAIN tt |-> tt[d].doc]
       /\ \A f \in Fields : /\ c.len[f] = [d \in DOMAIN tt |-> Len(Words(tt)[f][d])]
                            /\ c.totalLen[f] = Sum(c.len[f])
  BY BuildHas
<1>5. /\ c.n = N /\ c.terms = Sorted(Vocabulary(qs), Less)
      /\ c.docs = [d \in 1..N |-> tt[d].doc]
      /\ \A f \in Fields : /\ c.len[f] = [d \in 1..N |-> Len(Words(tt)[f][d])]
                           /\ c.totalLen[f] = Sum(c.len[f])
  <2>1. Len(tt) = N /\ DOMAIN tt = 1..N
    BY <1>1, <1>2
  <2> HIDE DEF c, tt, ss, N
  <2> QED BY <1>51, <2>1
<1>6. c.terms = b.terms
  BY <1>1, <1>4, <1>5
<1>7. \A f \in Fields : \A d \in 1..N : b.len[f][d] \in Nat
  BY <1>4 DEF Readable
<1>8. \A i \in DOMAIN b.terms : Holding(b, i) = Holders(ps, b.terms[i]) /\ b.df[i] = Cardinality(Holders(ps, b.terms[i]))
  BY HoldingIs
<1>9. \A i \in DOMAIN c.terms : Holding(c, i) = Holders(qs, c.terms[i]) /\ c.df[i] = Cardinality(Holders(qs, c.terms[i]))
  BY HoldingIs
<1>91. Permutes(p, ss, tt)
  OBVIOUS
<1> HIDE DEF b, c, ss, tt, N
<1>10. ASSUME NEW d \in 1..N PROVE c.docs[d] = b.docs[p[d]]
  <2>1. c.docs[d] = tt[d].doc /\ tt[d] = ss[p[d]] /\ p[d] \in 1..N
    BY <1>1, <1>5
  <2>2. b.docs[p[d]] = ss[p[d]].doc
    BY <2>1, <1>4
  <2> QED BY <2>1, <2>2
<1>11. ASSUME NEW f \in Fields
       PROVE  c.totalLen[f] = b.totalLen[f] /\ \A d \in 1..N : c.len[f][d] = b.len[f][p[d]]
  <2> DEFINE x == b.len[f]
             y == c.len[f]
  <2>1. x = [d \in 1..N |-> x[d]] /\ y = [d \in 1..N |-> y[d]] /\ \A d \in 1..N : y[d] = x[p[d]] /\ x[d] \in Nat
    <3>1. b.len[f] = [d \in 1..N |-> Len(Words(ss)[f][d])] /\ c.len[f] = [d \in 1..N |-> Len(Words(tt)[f][d])]
      BY <1>4, <1>5
    <3>2. ASSUME NEW d \in 1..N PROVE y[d] = x[p[d]]
      <4>1. p[d] \in 1..N /\ Words(tt)[f][d] = Words(ss)[f][p[d]]
        BY <1>1
      <4> QED BY <3>1, <4>1
    <3>3. \A d \in 1..N : x[d] \in Nat
      BY <1>7
    <3> QED BY <3>1, <3>2, <3>3
  <2>2. b.totalLen[f] = Sum(x) /\ c.totalLen[f] = Sum(y)
    BY <1>4, <1>5
  <2> HIDE DEF x, y, N
  <2>3. \A d \in 1..N : y[d] \in Nat
    <3> TAKE d \in 1..N
    <3>1. p[d] \in 1..N
      BY <1>1
    <3> QED BY <3>1, <2>1
  <2>4. x \in Seq(Nat) /\ y \in Seq(Nat) /\ Len(x) = N /\ Len(y) = N
    <3>1. N \in Nat
      BY <1>1
    <3>2. x \in [1..N -> Nat] /\ y \in [1..N -> Nat]
      BY <2>1, <2>3
    <3>3. x \in Seq(Nat) /\ y \in Seq(Nat)
      BY <3>1, <3>2
    <3> QED BY <3>1, <3>2, <3>3, LenProperties
  <2>5. Sum(y) = Sum(x)
    <3>1. p \in Bijection(1..Len(y), 1..Len(x)) /\ \A d \in 1..Len(y) : y[d] = x[p[d]]
      BY <2>1, <2>4, <1>3
    <3> QED BY <3>1, <2>4, SumPermuted
  <2> QED BY <2>1, <2>2, <2>5 DEF x, y
<1>12. ASSUME NEW i \in DOMAIN b.terms
       PROVE  /\ c.df[i] = b.df[i]
              /\ \A d \in 1..N : d - 1 \in Holding(c, i) <=> p[d] - 1 \in Holding(b, i)
  <2>1. i \in DOMAIN c.terms /\ c.terms[i] = b.terms[i]
    BY <1>6
  <2> DEFINE t == b.terms[i]
  <2>2. Holding(b, i) = Holders(ps, t) /\ b.df[i] = Cardinality(Holders(ps, t))
    BY <1>8
  <2>3. Holding(c, i) = Holders(qs, t) /\ c.df[i] = Cardinality(Holders(qs, t))
    BY <2>1, <1>9
  <2>4. /\ \A d \in 1..N : d - 1 \in Holders(qs, t) <=> p[d] - 1 \in Holders(ps, t)
        /\ Cardinality(Holders(qs, t)) = Cardinality(Holders(ps, t))
    BY <1>1
  <2> HIDE DEF t
  <2> QED BY <2>2, <2>3, <2>4
<1>13. b.n = N /\ c.n = N
  BY <1>4, <1>5
<1> QED BY <1>1, <1>6, <1>10, <1>11, <1>12, <1>13 DEF b, c, Twins

\* A word is worth as much to a section in either.
LEMMA SameEvidence ==
  ASSUME NEW ps, NEW qs, IsCorpus(ps), IsCorpus(qs), NEW p, Permutes(p, Sections(ps), Sections(qs)),
         Readable(Build(ps)), Readable(Build(qs)),
         NEW i \in DOMAIN Build(ps).terms, NEW d \in 1..Build(ps).n
  PROVE  Evidence(Build(qs), i, d - 1) = Evidence(Build(ps), i, p[d] - 1)
<1> DEFINE b == Build(ps)
           c == Build(qs)
           V(f) == Words(Sections(qs))[f][d]
           W(f) == Words(Sections(ps))[f][p[d]]
           t == b.terms[i]
<1>1. Twins(b, c, p)
  BY SameBuild
<1>2. b.n = Len(Sections(ps)) /\ c.n = Len(Sections(qs))
  BY BuildHas
<1>3. p[d] \in 1..b.n /\ c.n = b.n /\ c.terms = b.terms /\ b.n \in Nat /\ p[d] \in Nat /\ d \in Nat
  <2>1. p[d] \in 1..b.n /\ c.n = b.n /\ c.terms = b.terms
    BY <1>1 DEF Twins
  <2>2. b.n \in Nat
    BY DEF Readable
  <2> QED BY <2>1, <2>2
<1>4. \A f \in Fields : V(f) = W(f)
  <2>1. \A f \in Fields : \A k \in 1..Len(Sections(ps)) :
          Words(Sections(qs))[f][k] = Words(Sections(ps))[f][p[k]]
    BY SameWords
  <2> QED BY <2>1, <1>2
<1>5. ASSUME NEW f \in Fields PROVE Worth(c, f, i, d - 1) = Worth(b, f, i, p[d] - 1)
  <2> DEFINE m == Often(W(f), t)
             x == [id |-> d - 1, tf |-> m]
             y == [id |-> p[d] - 1, tf |-> m]
  <2>1. Worth(c, f, i, d - 1) =
          IF c.terms[i] \in ToSet(V(f)) THEN Share(c, f, i, [id |-> d - 1, tf |-> Often(V(f), c.terms[i])]) ELSE 0
    <3>1. i \in DOMAIN c.terms /\ d \in 1..Len(Sections(qs))
      BY <1>2, <1>3
    <3> QED BY <3>1, WorthOf
  <2>2. Worth(b, f, i, p[d] - 1) =
          IF b.terms[i] \in ToSet(W(f)) THEN Share(b, f, i, [id |-> p[d] - 1, tf |-> Often(W(f), b.terms[i])]) ELSE 0
    <3>1. p[d] \in 1..Len(Sections(ps))
      BY <1>2, <1>3
    <3> QED BY <3>1, WorthOf
  <2>3. c.terms[i] = t /\ V(f) = W(f)
    BY <1>3, <1>4
  <2>4. Share(c, f, i, x) = Share(b, f, i, y)
    <3>1. /\ c.totalLen[f] = b.totalLen[f] /\ c.len[f][d] = b.len[f][p[d]]
          /\ c.n = b.n /\ c.df[i] = b.df[i]
      <4>1. d \in 1..b.n /\ i \in DOMAIN b.terms
        OBVIOUS
      <4> HIDE DEF b, c
      <4>2. c.n = b.n
        BY <1>1 DEF Twins
      <4>3. c.totalLen[f] = b.totalLen[f] /\ c.len[f][d] = b.len[f][p[d]]
        <5>1. \A g \in Fields : c.totalLen[g] = b.totalLen[g] /\ \A k \in 1..b.n : c.len[g][k] = b.len[g][p[k]]
          BY <1>1, Zenon DEF Twins
        <5> QED BY <5>1, <4>1
      <4>4. c.df[i] = b.df[i]
        BY <1>1, <4>1 DEF Twins
      <4> QED BY <4>2, <4>3, <4>4
    <3>2. x.id + 1 = d /\ y.id + 1 = p[d] /\ x.tf = m /\ y.tf = m
      BY <1>3
    <3> HIDE DEF x, y, m, b, c
    <3> QED BY <3>1, <3>2 DEF Share
  <2>5. Worth(c, f, i, d - 1) = IF t \in ToSet(W(f)) THEN Share(c, f, i, x) ELSE 0
    <3> HIDE DEF b, c, V, W
    <3> QED BY <2>1, <2>3, Zenon
  <2> HIDE DEF b, c, W, V
  <2> QED BY <2>2, <2>4, <2>5
<1>6. \A k \in DOMAIN SearchFields : SearchFields[k] \in Fields
  BY FieldsAre DEF SearchFields
<1> HIDE DEF b, c
<1>7. [k \in DOMAIN SearchFields |-> Worth(c, SearchFields[k], i, d - 1)]
      = [k \in DOMAIN SearchFields |-> Worth(b, SearchFields[k], i, p[d] - 1)]
  BY <1>5, <1>6
<1> QED BY <1>7 DEF Evidence, b, c

\* So a query says of a section in either what it says in the other.
LEMMA SameScore ==
  ASSUME NEW b, NEW c, NEW p, Readable(b), Readable(c), Twins(b, c, p),
         \A i \in DOMAIN b.terms : \A d \in 1..b.n : Evidence(c, i, d - 1) = Evidence(b, i, p[d] - 1),
         NEW tokens \in Seq(Text), NEW d \in 1..b.n
  PROVE  /\ Matched(c, tokens, d - 1) = Matched(b, tokens, p[d] - 1)
         /\ Score(c, tokens, d - 1) = Score(b, tokens, p[d] - 1)
<1> DEFINE x == d - 1
           y == p[d] - 1
<1>1. c.terms = b.terms
  BY DEF Twins
<1>2. \A t : Expansion(c, tokens, t) = Expansion(b, tokens, t)
  BY <1>1 DEF Expansion
<1>3. \A i \in DOMAIN b.terms : Evidence(c, i, x) = Evidence(b, i, y) /\ (x \in Holding(c, i) <=> y \in Holding(b, i))
  <2> TAKE i \in DOMAIN b.terms
  <2>1. Evidence(c, i, x) = Evidence(b, i, y)
    OBVIOUS
  <2>2. x \in Holding(c, i) <=> y \in Holding(b, i)
    BY DEF Twins
  <2> QED BY <2>1, <2>2
<1>4. \A t \in ToSet(tokens) : Expansion(b, tokens, t) \subseteq DOMAIN b.terms
  <2> TAKE t \in ToSet(tokens)
  <2>1. Expansion(b, tokens, t) =
          {i \in DOMAIN b.terms : IF t = tokens[Len(tokens)] THEN BeginsWith(b.terms[i], t) ELSE b.terms[i] = t}
    BY ExpansionIs
  <2> QED BY <2>1
<1> HIDE DEF x, y
<1>5. Matched(c, tokens, x) = Matched(b, tokens, y)
  BY <1>2, <1>3, <1>4 DEF Matched
<1>6. ASSUME NEW t \in ToSet(tokens)
      PROVE  Best(c, Expansion(c, tokens, t), x) = Best(b, Expansion(b, tokens, t), y)
  <2> DEFINE E == Expansion(b, tokens, t)
  <2>1. E \subseteq DOMAIN b.terms /\ Expansion(c, tokens, t) = E
    BY <1>2, <1>4
  <2> HIDE DEF E
  <2>2. {0} \cup {Evidence(c, i, x) : i \in E} = {0} \cup {Evidence(b, i, y) : i \in E}
    BY <2>1, <1>3
  <2>3. Best(c, E, x) = Best(b, E, y)
    BY <2>2 DEF Best
  <2> QED BY <2>1, <2>3 DEF E
<1>7. \A k \in DOMAIN tokens : tokens[k] \in ToSet(tokens)
  BY DEF ToSet
<1> DEFINE F(ix, id) == [k \in DOMAIN tokens |-> IF \E j \in 1..(k - 1) : tokens[j] = tokens[k] THEN 0
                                 ELSE Best(ix, Expansion(ix, tokens, tokens[k]), id)]
<1>8. F(c, x) = F(b, y)
  BY <1>6, <1>7
<1>9. Score(c, tokens, x) = Cardinality(Matched(c, tokens, x)) * Sum(F(c, x))
  BY DEF Score
<1>10. Score(b, tokens, y) = Cardinality(Matched(b, tokens, y)) * Sum(F(b, y))
  BY DEF Score
<1> HIDE DEF F
<1>11. Score(c, tokens, x) = Score(b, tokens, y)
  BY <1>5, <1>8, <1>9, <1>10
<1> QED BY <1>5, <1>11 DEF x, y

\* And the answers stand in one order.
LEMMA SameOrder ==
  ASSUME NEW b, NEW c, NEW p, Readable(b), Readable(c), Twins(b, c, p),
         \A i \in DOMAIN b.terms : \A d \in 1..b.n : Evidence(c, i, d - 1) = Evidence(b, i, p[d] - 1),
         NEW text \in Text, Tokenise(text) # <<>>, NEW wanted
  PROVE  LET h == SearchIndex(b, text, wanted)
             g == SearchIndex(c, text, wanted)
         IN  [k \in DOMAIN g |-> g[k].doc] = [k \in DOMAIN h |-> h[k].doc]
<1> DEFINE tokens == Tokenise(text)
           hb == SearchIndex(b, text, wanted)
           hc == SearchIndex(c, text, wanted)
           Hb == Hits(b, tokens, wanted)
           Hc == Hits(c, tokens, wanted)
           n == b.n
           F(h) == Hit(b, tokens, p[h.id + 1] - 1)
<1>1. tokens \in Seq(Text)
  BY TokeniseType
<1>2. Ordered(hb, Hb, Ranking(Hb)) /\ Ranks(Hb) /\ IsFiniteSet(Hb)
  BY SearchIs
<1>3. Ordered(hc, Hc, Ranking(Hc)) /\ Ranks(Hc) /\ IsFiniteSet(Hc)
  BY SearchIs
<1>4. \A d \in 1..n : /\ Matched(c, tokens, d - 1) = Matched(b, tokens, p[d] - 1)
                      /\ Score(c, tokens, d - 1) = Score(b, tokens, p[d] - 1)
  BY <1>1, SameScore
<1>5. /\ n \in Nat /\ c.n = n /\ p \in [1..n -> 1..n]
      /\ \A d, e \in 1..n : p[d] = p[e] => d = e
      /\ \A e \in 1..n : \E d \in 1..n : p[d] = e
      /\ \A d \in 1..n : c.docs[d] = b.docs[p[d]]
  BY DEF Twins, Readable
<1>6. hc \in Seq(Hc) /\ hb \in Seq(Hb)
  BY <1>2, <1>3 DEF Ordered
<1> DEFINE J(ix, id) == /\ id \in 0..(n - 1) /\ ix.docs[id + 1].audience \cap wanted # {}
                        /\ Matched(ix, tokens, id) # {}
<1>7. Hb = {Hit(b, tokens, id) : id \in {k \in 0..(n - 1) : J(b, k)}}
  BY DEF Hits, Seen
<1>8. Hc = {Hit(c, tokens, id) : id \in {k \in 0..(n - 1) : J(c, k)}}
  BY <1>5 DEF Hits, Seen
<1>9. ASSUME NEW d \in 1..n PROVE J(c, d - 1) <=> J(b, p[d] - 1)
  <2>1. (d - 1) + 1 = d /\ (p[d] - 1) + 1 = p[d] /\ p[d] \in 1..n /\ d - 1 \in 0..(n - 1) /\ p[d] - 1 \in 0..(n - 1)
    <3>1. p[d] \in 1..n /\ n \in Nat
      BY <1>5
    <3> HIDE DEF n
    <3> QED BY <3>1
  <2>2. c.docs[d] = b.docs[p[d]] /\ Matched(c, tokens, d - 1) = Matched(b, tokens, p[d] - 1)
    BY <1>4, <1>5
  <2> HIDE DEF n, tokens
  <2> QED BY <2>1, <2>2
<1>10. \A ix, id : /\ Hit(ix, tokens, id).id = id /\ Hit(ix, tokens, id).doc = ix.docs[id + 1]
                   /\ Hit(ix, tokens, id).score = Score(ix, tokens, id)
  BY DEF Hit
<1> HIDE DEF tokens, hb, hc, Hb, Hc, n, J
<1>11. ASSUME NEW h \in Hc
       PROVE  /\ h.id + 1 \in 1..n /\ h = Hit(c, tokens, h.id)
              /\ F(h) \in Hb /\ F(h).id = p[h.id + 1] - 1 /\ F(h).doc = h.doc /\ F(h).score = h.score
  <2>1. PICK id \in 0..(n - 1) : J(c, id) /\ h = Hit(c, tokens, id)
    BY <1>8
  <2>2. PICK d \in 1..n : id = d - 1 /\ id + 1 = d
    <3>1. id + 1 \in 1..n /\ id = (id + 1) - 1
      BY <1>5
    <3> QED BY <3>1
  <2>3. h.id = id /\ h.doc = c.docs[d] /\ h.score = Score(c, tokens, d - 1)
    BY <2>1, <2>2, <1>10
  <2>4. J(b, p[d] - 1) /\ p[d] \in 1..n /\ p[d] - 1 \in 0..(n - 1) /\ (p[d] - 1) + 1 = p[d]
    <3>1. J(b, p[d] - 1)
      BY <2>1, <2>2, <1>9
    <3>2. p[d] \in 1..n /\ n \in Nat
      BY <1>5
    <3> DEFINE e == p[d]
    <3>3. e - 1 \in 0..(n - 1) /\ (e - 1) + 1 = e
      <4>1. e \in 1..n /\ n \in Nat
        BY <3>2
      <4> HIDE DEF e
      <4> QED BY <4>1
    <3> QED BY <3>1, <3>2, <3>3
  <2> DEFINE y == p[d] - 1
  <2>5. F(h) = Hit(b, tokens, y)
    BY <2>2, <2>3
  <2>6. y \in 0..(n - 1) /\ J(b, y) /\ b.docs[y + 1] = c.docs[d] /\ Score(b, tokens, y) = h.score
    BY <2>4, <2>3, <1>4, <1>5
  <2>7. y = p[h.id + 1] - 1
    BY <2>2, <2>3
  <2> HIDE DEF y, F
  <2>8. F(h) \in Hb
    BY <2>5, <2>6, <1>7
  <2>9. F(h).id = y /\ F(h).doc = h.doc /\ F(h).score = h.score
    BY <2>3, <2>5, <2>6, <1>10
  <2> QED BY <2>1, <2>2, <2>3, <2>7, <2>8, <2>9
<1>12. ASSUME NEW y \in Hb PROVE \E h \in Hc : F(h) = y
  <2>1. PICK id \in 0..(n - 1) : J(b, id) /\ y = Hit(b, tokens, id)
    BY <1>7
  <2>2. id + 1 \in 1..n
    BY <1>5
  <2>3. PICK d \in 1..n : p[d] = id + 1
    BY <2>2, <1>5
  <2>4. p[d] - 1 = id /\ d - 1 \in 0..(n - 1) /\ (d - 1) + 1 = d
    BY <2>3, <1>5
  <2>5. J(c, d - 1)
    BY <2>1, <2>4, <1>9
  <2> DEFINE h == Hit(c, tokens, d - 1)
  <2>6. h \in Hc
    BY <2>4, <2>5, <1>8
  <2>7. h.id = d - 1
    BY <1>10
  <2>8. F(h) = y
    BY <2>1, <2>4, <2>7
  <2> QED BY <2>6, <2>8
<1>13. ASSUME NEW g \in Hc, NEW h \in Hc, F(g) = F(h) PROVE g = h
  <2>1. g.id + 1 \in 1..n /\ h.id + 1 \in 1..n /\ F(g).id = p[g.id + 1] - 1 /\ F(h).id = p[h.id + 1] - 1
        /\ g = Hit(c, tokens, g.id) /\ h = Hit(c, tokens, h.id)
    BY <1>11
  <2> DEFINE x == g.id + 1
             y == h.id + 1
  <2>2. x \in 1..n /\ y \in 1..n /\ p[x] - 1 = p[y] - 1
    BY <2>1, <1>13
  <2>3. p[x] \in Nat /\ p[y] \in Nat
    BY <2>2, <1>5
  <2> HIDE DEF x, y
  <2>4. p[x] = p[y]
    BY <2>2, <2>3
  <2>5. x = y
    BY <2>2, <2>4, <1>5
  <2>6. g.id = h.id
    <3>1. g.id = Hit(c, tokens, g.id).id /\ h.id = Hit(c, tokens, h.id).id
      BY <1>10
    <3>2. g.id \in Int /\ h.id \in Int
      <4>1. PICK j \in 0..(n - 1) : g = Hit(c, tokens, j)
        BY <1>8
      <4>2. PICK k \in 0..(n - 1) : h = Hit(c, tokens, k)
        BY <1>8
      <4> QED BY <4>1, <4>2, <1>10
    <3> QED BY <2>5, <3>2 DEF x, y
  <2> QED BY <2>1, <2>6
<1> DEFINE e == [h \in Hc |-> F(h)]
           m == Len(hc)
           r == [k \in 1..m |-> F(hc[k])]
<1>14. m \in Nat /\ DOMAIN hc = 1..m /\ \A k \in 1..m : hc[k] \in Hc
  BY <1>6
<1>15. Cardinality(Hc) = Cardinality(Hb)
  <2>1. e \in Bijection(Hc, Hb)
    <3>0. \A h \in Hc : F(h) \in Hb
      BY <1>11
    <3> HIDE DEF F
    <3>1. e \in [Hc -> Hb] /\ \A h \in Hc : e[h] = F(h)
      BY <3>0
    <3> HIDE DEF e
    <3>2. \A g, h \in Hc : e[g] = e[h] => g = h
      BY <3>1, <1>13
    <3>3. \A y \in Hb : \E h \in Hc : e[h] = y
      BY <3>1, <1>12
    <3>4. e \in Injection(Hc, Hb)
      BY <3>1, <3>2 DEF Injection, IsInjective
    <3>5. e \in Surjection(Hc, Hb)
      BY <3>1, <3>3 DEF Surjection
    <3> QED BY <3>4, <3>5 DEF Bijection
  <2> HIDE DEF e
  <2> QED BY <2>1, <1>3, FS_Bijection DEF ExistsBijection
<1>16. \A k \in 1..m : r[k] = F(hc[k]) /\ F(hc[k]) \in Hb /\ F(hc[k]).doc = hc[k].doc /\ F(hc[k]).score = hc[k].score
  BY <1>11, <1>14
<1>17. Ordered(r, Hb, Ranking(Hb))
  <2>1. r \in Seq(Hb) /\ Len(r) = m /\ DOMAIN r = 1..m
    BY <1>14, <1>16
  <2>2. m = Cardinality(Hb)
    BY <1>3, <1>15 DEF Ordered
  <2>3. ToSet(r) = Hb
    <3>1. ToSet(hc) = Hc
      BY <1>3 DEF Ordered
    <3>2. ASSUME NEW y \in Hb PROVE \E k \in 1..m : r[k] = y
      <4>1. PICK h \in Hc : F(h) = y
        BY <1>12
      <4>2. PICK k \in 1..m : hc[k] = h
        BY <3>1, <1>14 DEF ToSet
      <4>3. r[k] = F(hc[k])
        BY <1>16
      <4> QED BY <4>1, <4>2, <4>3
    <3> HIDE DEF F, r, m
    <3>3. \A k \in 1..m : r[k] \in Hb
      BY <1>16
    <3> QED BY <2>1, <3>2, <3>3 DEF ToSet
  <2>4. ASSUME NEW i \in 1..m, NEW j \in 1..m, i < j PROVE <<r[i], r[j]>> \in Ranking(Hb)
    <3>1. <<hc[i], hc[j]>> \in Ranking(Hc)
      BY <1>3, <2>4 DEF Ordered
    <3>2. Before(hc[i], hc[j])
      BY <3>1 DEF Ranking
    <3>3. /\ r[i].doc = hc[i].doc /\ r[i].score = hc[i].score /\ r[i] \in Hb
          /\ r[j].doc = hc[j].doc /\ r[j].score = hc[j].score /\ r[j] \in Hb
      BY <1>16
    <3> HIDE DEF r
    <3>4. Before(r[i], r[j])
      BY <3>2, <3>3 DEF Before
    <3> QED BY <3>3, <3>4 DEF Ranking
  <2> HIDE DEF r, m
  <2> QED BY <2>1, <2>2, <2>3, <2>4 DEF Ordered
<1>18. r = hb
  <2> HIDE DEF r
  <2>1. Orders(Ranking(Hb), Hb)
    BY <1>2, RankingOrders
  <2> QED BY <2>1, <1>2, <1>17, OneOrder
<1>19. DOMAIN hb = 1..m /\ \A k \in 1..m : hb[k].doc = hc[k].doc
  BY <1>16, <1>18
<1> HIDE DEF r, m
<1>20. [k \in DOMAIN hc |-> hc[k].doc] = [k \in DOMAIN hb |-> hb[k].doc]
  BY <1>14, <1>19
<1> QED BY <1>20 DEF hb, hc

\* x has more of a single word than y, or as much; and y, when it has as much of every
\* word as x, has no other words.
Better(ix, tokens, x, y) ==
  /\ Cardinality(ToSet(tokens)) = 1
       => OfToken(ix, tokens, tokens[1], x) >= OfToken(ix, tokens, tokens[1], y)
  /\ (\A t \in ToSet(tokens) : OfToken(ix, tokens, t, y) >= OfToken(ix, tokens, t, x))
       => {t \in ToSet(tokens) : OfToken(ix, tokens, t, y) > 0}
          = {t \in ToSet(tokens) : OfToken(ix, tokens, t, x) > 0}

\* So stands the first of two answers to the second.
LEMMA FirstIsBetter ==
  ASSUME NEW ix, Readable(ix), NEW text \in Text, Tokenise(text) # <<>>, NEW wanted,
         NEW a \in DOMAIN SearchIndex(ix, text, wanted), NEW b \in DOMAIN SearchIndex(ix, text, wanted), a < b
  PROVE  Better(ix, Tokenise(text), SearchIndex(ix, text, wanted)[a].id, SearchIndex(ix, text, wanted)[b].id)
<1> DEFINE tokens == Tokenise(text)
           x == SearchIndex(ix, text, wanted)[a].id
           y == SearchIndex(ix, text, wanted)[b].id
           X(t) == OfToken(ix, tokens, t, x)
           Y(t) == OfToken(ix, tokens, t, y)
<1>1. tokens \in Seq(Text)
  BY TokeniseType
<1>2. \A t \in ToSet(tokens) : X(t) \in Nat /\ Y(t) \in Nat
  BY <1>1, OfTokenIs
<1>3. ASSUME \A t \in ToSet(tokens) : X(t) <= Y(t), NEW u \in ToSet(tokens), X(u) < Y(u)
      PROVE  FALSE
  BY <1>3, NoneBehind
<1> HIDE DEF tokens, X, Y
<1>4. ASSUME tokens # <<>>, Cardinality(ToSet(tokens)) = 1
      PROVE  X(tokens[1]) >= Y(tokens[1])
  <2>1. tokens[1] \in ToSet(tokens)
    <3>1. 1 \in DOMAIN tokens
      BY <1>1, <1>4
    <3> QED BY <3>1 DEF ToSet
  <2>2. IsFiniteSet(ToSet(tokens))
    BY <1>1, ToSetIs
  <2>3. PICK only : ToSet(tokens) = {only}
    BY <1>4, <2>2, FS_Singleton
  <2>4. \A t \in ToSet(tokens) : t = tokens[1]
    BY <2>1, <2>3
  <2> DEFINE w == tokens[1]
  <2>5. X(w) \in Nat /\ Y(w) \in Nat
    BY <1>2, <2>1
  <2>6. ~(X(w) < Y(w))
    <3> SUFFICES ASSUME X(w) < Y(w) PROVE FALSE
      OBVIOUS
    <3>1. X(w) <= Y(w)
      <4> HIDE DEF w
      <4> QED BY <2>5
    <3>2. \A t \in ToSet(tokens) : X(t) <= Y(t)
      BY <3>1, <2>4
    <3> QED BY <3>2, <2>1, <1>3
  <2> HIDE DEF w
  <2>7. X(w) >= Y(w)
    BY <2>5, <2>6
  <2> QED BY <2>7 DEF w
<1>5. ASSUME \A t \in ToSet(tokens) : Y(t) >= X(t)
      PROVE  {t \in ToSet(tokens) : Y(t) > 0} = {t \in ToSet(tokens) : X(t) > 0}
  <2>1. \A t \in ToSet(tokens) : X(t) <= Y(t)
    BY <1>2, <1>5
  <2>2. ASSUME NEW t \in ToSet(tokens) PROVE X(t) = Y(t)
    <3>1. ~(X(t) < Y(t))
      BY <2>1, <1>3
    <3> QED BY <3>1, <2>1, <1>2
  <2> QED BY <2>2
<1>6. tokens # <<>>
  BY DEF tokens
<1> QED BY <1>4, <1>5, <1>6 DEF tokens, X, Y, Better

\* The evidence of a word is what the word is worth.
LEMMA OfTokenMax ==
  ASSUME NEW ix, NEW tokens, NEW t, NEW id
  PROVE  Max({Evidence(ix, i, id) : i \in Expansion(ix, tokens, t)} \cup {0}) = OfToken(ix, tokens, t, id)
<1> DEFINE S == {Evidence(ix, i, id) : i \in Expansion(ix, tokens, t)}
<1>1. S \cup {0} = {0} \cup S
  OBVIOUS
<1>2. OfToken(ix, tokens, t, id) = Max({0} \cup S)
  BY DEF OfToken, Best
<1> HIDE DEF S
<1>3. OfToken(ix, tokens, t, id) = Max(S \cup {0})
  BY <1>1, <1>2, Zenon
<1> QED BY <1>3 DEF S

\* Of two answers the one with the better single word stands first, none stands behind one
\* that has more of a word and no less of the others, and the order the pages were read in
\* changes nothing (scoring, the sort and buildSearchIndex).
THEOREM RankedByEvidenceHolds ==
  Spec => []RankedByEvidence
<1>1. Invariant => RankedByEvidence
  <2> DEFINE hits == SearchIndex(index, query, UNION Audiences)
             Tok(t, id) == Max({Evidence(index, i, id) : i \in Expansion(index, Asked, t)} \cup {0})
             Some(id) == {t \in ToSet(Asked) : Tok(t, id) > 0}
  <2> SUFFICES ASSUME Invariant, whole, Asked # <<>>
               PROVE  /\ \A a, b \in DOMAIN hits : a < b =>
                           /\ Cardinality(ToSet(Asked)) = 1
                              => Tok(Asked[1], hits[a].id) >= Tok(Asked[1], hits[b].id)
                           /\ (\A t \in ToSet(Asked) : Tok(t, hits[b].id) >= Tok(t, hits[a].id))
                              => Some(hits[b].id) = Some(hits[a].id)
                      /\ Order(index) = Order(Build(Reverse(pages)))
    BY DEF RankedByEvidence
  <2>1. /\ IsCorpus(pages) /\ index = Build(pages) /\ Readable(index)
        /\ \A df \in 1..Len(Sections(pages)) : Idf(Len(Sections(pages)), df) \in Positive
    BY SearchAssumption, BuiltReadable DEF Invariant, Positive
  <2>2. query \in Text /\ Asked = Tokenise(query)
    BY AskedIs DEF Asked
  <2>3. \A t, id : Tok(t, id) = OfToken(index, Asked, t, id)
    BY OfTokenMax
  <2>4. ASSUME NEW a \in DOMAIN hits, NEW b \in DOMAIN hits, a < b
        PROVE  /\ Cardinality(ToSet(Asked)) = 1
                  => Tok(Asked[1], hits[a].id) >= Tok(Asked[1], hits[b].id)
               /\ (\A t \in ToSet(Asked) : Tok(t, hits[b].id) >= Tok(t, hits[a].id))
                  => Some(hits[b].id) = Some(hits[a].id)
    <3> DEFINE x == hits[a].id
               y == hits[b].id
    <3>1. Better(index, Tokenise(query), x, y)
      BY <2>1, <2>2, <2>4, FirstIsBetter
    <3>2. Better(index, Asked, x, y)
      <4> HIDE DEF x, y
      <4> QED BY <2>2, <3>1
    <3> HIDE DEF Tok, hits
    <3> QED BY <3>2, <2>3 DEF Better
  <2>5. Order(index) = Order(Build(Reverse(pages)))
    <3> DEFINE c == Build(Reverse(pages))
    <3>1. IsCorpus(Reverse(pages))
      BY <2>1, ReversedCorpus
    <3>2. PICK p : Permutes(p, Sections(pages), Sections(Reverse(pages)))
      BY <2>1, ReversedCorpus
    <3>3. Len(Sections(Reverse(pages))) = Len(Sections(pages))
      BY <3>2 DEF Permutes
    <3>4. Readable(c)
      BY <2>1, <3>1, <3>3, IndexReadable
    <3>5. Twins(index, c, p)
      BY <2>1, <3>1, <3>2, <3>4, SameBuild
    <3>6. \A i \in DOMAIN index.terms : \A d \in 1..index.n : Evidence(c, i, d - 1) = Evidence(index, i, p[d] - 1)
      BY <2>1, <3>1, <3>2, <3>4, SameEvidence
    <3> HIDE DEF c
    <3> DEFINE U == UNION Audiences
    <3>7. [k \in DOMAIN SearchIndex(c, query, U) |-> SearchIndex(c, query, U)[k].doc]
          = [k \in DOMAIN SearchIndex(index, query, U) |-> SearchIndex(index, query, U)[k].doc]
      BY <2>1, <2>2, <3>4, <3>5, <3>6, SameOrder
    <3>8. Order(index) = Order(c)
      BY <3>7 DEF Order
    <3> QED BY <3>8 DEF c
  <2> HIDE DEF hits, Tok, Some
  <2> QED BY <2>4, <2>5
<1> QED BY <1>1, InvariantHolds, PTL
=============================================================================
