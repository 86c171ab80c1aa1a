-------------------------- MODULE CollectorsProofs --------------------------
(***************************************************************************)
(* Machine-checked proofs about Collectors.tla, for every export, every    *)
(* calendar, every lag and interval the assumptions allow and every bound. *)
(***************************************************************************)
EXTENDS Collectors, FiniteSetTheorems, FunctionTheorems, SequenceTheorems,
        WellFoundedInduction, TLAPS

-----------------------------------------------------------------------------
(* Sorting, picking and flattening.  The library's induction theorems take *)
(* an operator the provers cannot instantiate; here the induction is over   *)
(* a set of naturals.                                                       *)

(* A set of naturals has a least element. *)
LEMMA Least ==
    ASSUME NEW S \in SUBSET Nat, S # {}
    PROVE  \E x \in S : \A y \in S : x <= y
  <1> DEFINE Less == {ss \in Nat \X Nat : ss[1] < ss[2]}
  <1>1. IsWellFoundedOn(Less, Nat)
    BY NatLessThanWellFounded DEF OpToRel
  <1>2. PICK x \in S : \A y \in S : ~(<<y, x>> \in Less)
    <2> HIDE DEF Less
    <2> QED
      BY <1>1, WFMin
  <1>3. ASSUME NEW y \in S
        PROVE  x <= y
    <2>1. x \in Nat /\ y \in Nat /\ <<y, x>> \in Nat \X Nat
      OBVIOUS
    <2>2. ~(y < x)
      BY <1>2, <2>1
    <2> QED
      BY <2>1, <2>2
  <1> QED
    BY <1>3

(* So what holds of 0 and is handed on holds of all up to n. *)
LEMMA Climb ==
    ASSUME NEW n \in Nat, NEW G \in SUBSET Nat, 0 \in G,
           \A i \in 1..n : i - 1 \in G => i \in G
    PROVE  \A i \in 0..n : i \in G
  <1> DEFINE Bad == {i \in 0..n : i \notin G}
  <1> SUFFICES ASSUME Bad # {} PROVE FALSE
    OBVIOUS
  <1>1. Bad \in SUBSET Nat
    OBVIOUS
  <1>2. PICK x \in Bad : \A y \in Bad : x <= y
    <2> HIDE DEF Bad
    <2> QED
      BY <1>1, Least
  <1>3. x \in 1..n /\ x - 1 \in 0..n /\ x - 1 \notin Bad
    BY <1>2
  <1> QED
    BY <1>3

(* A set of integers with a lower bound has a least element. *)
LEMMA MinOfBounded ==
    ASSUME NEW S \in SUBSET Int, S # {}, NEW b \in Int, \A x \in S : b <= x
    PROVE  Min(S) \in S /\ \A x \in S : Min(S) <= x
  <1> DEFINE shifted == {x - b : x \in S}
  <1>1. shifted \in SUBSET Nat /\ shifted # {}
    <2>1. PICK x \in S : TRUE
      OBVIOUS
    <2>2. x - b \in shifted
      OBVIOUS
    <2> QED
      BY <2>2
  <1>2. PICK n \in shifted : \A m \in shifted : n <= m
    <2> HIDE DEF shifted
    <2> QED
      BY <1>1, Least
  <1>3. PICK x \in S : n = x - b
    BY <1>2
  <1>4. ASSUME NEW y \in S
        PROVE  x <= y
    <2>1. n <= y - b
      BY <1>2
    <2> QED
      BY <1>3, <2>1
  <1> QED
    BY <1>4 DEF Min

-----------------------------------------------------------------------------
(* How many members of S are below x. *)
Rank(S, x) == Cardinality({y \in S : y < x})

(* Ranks grow with the members, and are below the number of members. *)
LEMMA RankGrows ==
    ASSUME NEW S \in SUBSET Int, IsFiniteSet(S), NEW x \in S
    PROVE  /\ Rank(S, x) \in Nat /\ Rank(S, x) < Cardinality(S)
           /\ \A y \in S : x < y => Rank(S, x) < Rank(S, y)
  <1> DEFINE below(z) == {y \in S : y < z}
  <1>1. ASSUME NEW T \in SUBSET S, x \in T, below(x) \subseteq T
        PROVE  Cardinality(below(x)) \in Nat /\ Cardinality(below(x)) < Cardinality(T)
    <2>1. IsFiniteSet(T) /\ IsFiniteSet(below(x))
      BY FS_Subset
    <2>2. x \notin below(x) /\ below(x) \cup {x} \in SUBSET T
      BY <1>1
    <2> HIDE DEF below
    <2>3. Cardinality(below(x) \cup {x}) = Cardinality(below(x)) + 1
      BY <2>1, <2>2, FS_AddElement
    <2>4. Cardinality(below(x) \cup {x}) <= Cardinality(T)
      BY <2>1, <2>2, FS_Subset
    <2>5. Cardinality(below(x)) \in Nat /\ Cardinality(T) \in Nat
      BY <2>1, FS_CardinalityType
    <2> QED
      BY <2>3, <2>4, <2>5
  <1>2. Cardinality(below(x)) \in Nat /\ Cardinality(below(x)) < Cardinality(S)
    BY <1>1
  <1>3. ASSUME NEW y \in S, x < y
        PROVE  Cardinality(below(x)) < Cardinality(below(y))
    <2> DEFINE T == {z \in S : z < y}
    <2>1. T \in SUBSET S /\ x \in T /\ below(x) \subseteq T
      <3>1. \A z \in S : z < x => z < y
        BY <1>3
      <3> QED
        BY <1>3, <3>1
    <2> HIDE DEF T
    <2>2. Cardinality(below(x)) < Cardinality(T)
      BY <1>1, <2>1
    <2> QED
      BY <2>2 DEF T
  <1> QED
    BY <1>2, <1>3 DEF Rank

(* Every number below the size of S is the rank of one member. *)
LEMMA RankOnto ==
    ASSUME NEW S \in SUBSET Int, IsFiniteSet(S), NEW i \in 1..Cardinality(S)
    PROVE  \E x \in S : Rank(S, x) = i - 1
  <1> DEFINE n == Cardinality(S)
             f == [x \in S |-> Rank(S, x)]
  <1>0. n \in Nat /\ n # 0
    BY FS_CardinalityType
  <1>1. f \in [S -> 0..(n - 1)]
    BY <1>0, RankGrows
  <1>2. ASSUME NEW x \in S, NEW y \in S, f[x] = f[y]
        PROVE  x = y
    <2>1. Rank(S, x) = Rank(S, y) /\ Rank(S, x) \in Nat
      BY <1>2, RankGrows
    <2>2. ~(x < y) /\ ~(y < x)
      BY <2>1, RankGrows
    <2> QED
      BY <2>2
  <1>3. f \in Injection(S, 0..(n - 1))
    <2> HIDE DEF f, n
    <2>1. IsInjective(f)
      BY <1>1, <1>2 DEF IsInjective
    <2> QED
      BY <1>1, <2>1 DEF Injection
  <1>4. IsFiniteSet(0..(n - 1)) /\ Cardinality(0..(n - 1)) = n
    <2> HIDE DEF n
    <2>1. 0 \in Int /\ n - 1 \in Int /\ ~(0 > n - 1) /\ n - 1 - 0 + 1 = n
      BY <1>0
    <2> QED
      BY <2>1, FS_Interval
  <1>5. f \in Surjection(S, 0..(n - 1))
    <2> HIDE DEF f
    <2> QED
      BY <1>3, <1>4, FS_Injection
  <1>6. i - 1 \in 0..(n - 1)
    BY <1>0
  <1>7. PICK x \in S : f[x] = i - 1
    <2> HIDE DEF f
    <2> QED
      BY <1>5, <1>6 DEF Surjection
  <1> QED
    BY <1>7

(* InOrder lists every member once, in order. *)
LEMMA InOrderFacts ==
    ASSUME NEW S \in SUBSET Int, IsFiniteSet(S)
    PROVE  /\ Cardinality(S) \in Nat
           /\ InOrder(S) \in [1..Cardinality(S) -> S]
           /\ \A i, j \in 1..Cardinality(S) : i < j => InOrder(S)[i] < InOrder(S)[j]
           /\ \A x \in S : \E i \in 1..Cardinality(S) : InOrder(S)[i] = x
  <1> DEFINE n == Cardinality(S)
             f == InOrder(S)
  <1>0. n \in Nat
    BY FS_CardinalityType
  <1>1. DOMAIN f = 1..n /\ f = [i \in 1..n |-> f[i]]
    BY DEF InOrder
  <1>2. ASSUME NEW i \in 1..n
        PROVE  f[i] \in S /\ Rank(S, f[i]) = i - 1
    <2>1. f[i] = CHOOSE x \in S : Rank(S, x) = i - 1
      BY DEF InOrder, Rank
    <2> HIDE DEF f
    <2> QED
      BY <2>1, RankOnto
  <1> HIDE DEF f
  <1>3. ASSUME NEW i \in 1..n, NEW j \in 1..n, i < j
        PROVE  f[i] < f[j]
    <2>1. f[i] \in Int /\ f[j] \in Int /\ f[i] \in S /\ f[j] \in S
      BY <1>2
    <2>2. Rank(S, f[i]) < Rank(S, f[j]) /\ Rank(S, f[i]) \in Int /\ Rank(S, f[j]) \in Int
      BY <1>0, <1>2, <1>3
    <2>3. f[i] # f[j] /\ ~(f[j] < f[i])
      BY <2>1, <2>2, RankGrows
    <2> QED
      BY <2>1, <2>3
  <1>4. ASSUME NEW x \in S
        PROVE  \E i \in 1..n : f[i] = x
    <2>1. Rank(S, x) \in Nat /\ Rank(S, x) < n
      BY RankGrows
    <2> DEFINE i == Rank(S, x) + 1
    <2>2. i \in 1..n /\ i - 1 = Rank(S, x)
      BY <1>0, <2>1
    <2> HIDE DEF i
    <2>3. f[i] \in S /\ Rank(S, f[i]) = Rank(S, x) /\ f[i] \in Int /\ x \in Int
      BY <1>2, <2>2
    <2>4. ~(f[i] < x) /\ ~(x < f[i])
      BY <2>1, <2>3, RankGrows
    <2>5. f[i] = x
      BY <2>3, <2>4
    <2> QED
      BY <2>2, <2>5
  <1>5. f \in [1..n -> S]
    <2> HIDE DEF n
    <2> QED
      BY <1>1, <1>2
  <1> QED
    BY <1>0, <1>3, <1>4, <1>5 DEF f

(* The members of an interval are in order as they are. *)
LEMMA InOrderOfInterval ==
    ASSUME NEW a \in Nat, NEW k \in Nat
    PROVE  /\ Cardinality((a + 1)..(a + k)) = k /\ IsFiniteSet((a + 1)..(a + k))
           /\ InOrder((a + 1)..(a + k)) = [i \in 1..k |-> a + i]
  <1> DEFINE S == (a + 1)..(a + k)
  <1>1. Cardinality(S) = k /\ IsFiniteSet(S)
    <2>1. a + 1 \in Int /\ a + k \in Int /\ (a + 1 > a + k <=> k = 0) /\ (a + k) - (a + 1) + 1 = k
      OBVIOUS
    <2> QED
      BY <2>1, FS_Interval
  <1>2. ASSUME NEW i \in 1..k
        PROVE  (CHOOSE x \in S : Cardinality({y \in S : y < x}) = i - 1) = a + i
    <2>1. ASSUME NEW x \in S
          PROVE  Cardinality({y \in S : y < x}) = x - a - 1
      <3>1. {y \in S : y < x} = (a + 1)..(x - 1)
        OBVIOUS
      <3>2. a + 1 \in Int /\ x - 1 \in Int /\ (a + 1 > x - 1 <=> x - a - 1 = 0) /\ (x - 1) - (a + 1) + 1 = x - a - 1
        OBVIOUS
      <3> QED
        BY <3>1, <3>2, FS_Interval
    <2>2. \A x \in S : x - a - 1 = i - 1 <=> x = a + i
      OBVIOUS
    <2>3. a + i \in S
      OBVIOUS
    <2> HIDE DEF S
    <2>4. \A x \in S : Cardinality({y \in S : y < x}) = i - 1 <=> x = a + i
      BY <2>1, <2>2
    <2> QED
      BY <2>3, <2>4
  <1>3. InOrder(S) = [i \in 1..k |-> CHOOSE x \in S : Cardinality({y \in S : y < x}) = i - 1]
    BY <1>1 DEF InOrder
  <1> HIDE DEF S
  <1>4. InOrder(S) = [i \in 1..k |-> a + i]
    BY <1>2, <1>3, Zenon
  <1> QED
    BY <1>1, <1>4 DEF S

(* Picking positions of a list gives a list of its members, in order. *)
LEMMA PickedFacts ==
    ASSUME NEW X, NEW list \in Seq(X), NEW at \in SUBSET (DOMAIN list)
    PROVE  /\ Cardinality(at) \in Nat
           /\ Picked(list, at) \in Seq(X)
           /\ Len(Picked(list, at)) = Cardinality(at)
           /\ Picked(list, at) = [i \in 1..Cardinality(at) |-> list[InOrder(at)[i]]]
  <1>1. DOMAIN list = 1..Len(list) /\ Len(list) \in Nat /\ \A i \in DOMAIN list : list[i] \in X
    OBVIOUS
  <1>2. IsFiniteSet(at) /\ at \in SUBSET Int
    <2>1. IsFiniteSet(1..Len(list))
      BY <1>1, FS_Interval
    <2> QED
      BY <1>1, <2>1, FS_Subset
  <1> DEFINE n == Cardinality(at)
             f == InOrder(at)
  <1>3. n \in Nat /\ f \in [1..n -> at]
    BY <1>2, InOrderFacts
  <1>4. Picked(list, at) = [i \in 1..n |-> list[f[i]]]
    BY DEF Picked
  <1> HIDE DEF n, f
  <1>5. \A i \in 1..n : list[f[i]] \in X
    BY <1>1, <1>3
  <1> QED
    BY <1>3, <1>4, <1>5 DEF n, f

-----------------------------------------------------------------------------
(* FlattenSeq's recursive function. *)
Flattening(f, seqs, n) == f = [i \in 1..n |-> IF i = 1 THEN seqs[i] ELSE f[i - 1] \o seqs[i]]

LEMMA FlatteningExists ==
    ASSUME NEW seqs, NEW n \in Nat
    PROVE  \E f : Flattening(f, seqs, n)
  <1> DEFINE G == {i \in Nat : \E f : Flattening(f, seqs, i)}
  <1>1. 0 \in G
    <2> DEFINE f == [i \in 1..0 |-> <<>>]
    <2>1. f = [i \in 1..0 |-> IF i = 1 THEN seqs[i] ELSE f[i - 1] \o seqs[i]]
      OBVIOUS
    <2> HIDE DEF f
    <2> QED
      BY <2>1 DEF Flattening
  <1>2. ASSUME NEW k \in 1..n, k - 1 \in G
        PROVE  k \in G
    <2>1. PICK f : Flattening(f, seqs, k - 1)
      BY <1>2
    <2> DEFINE new == IF k = 1 THEN seqs[k] ELSE f[k - 1] \o seqs[k]
               g == [i \in 1..k |-> IF i = k THEN new ELSE f[i]]
    <2>2. ASSUME NEW i \in 1..k
          PROVE  g[i] = IF i = 1 THEN seqs[i] ELSE g[i - 1] \o seqs[i]
      <3>1. CASE i = k
        <4>1. g[i] = new /\ (k # 1 => g[k - 1] = f[k - 1])
          BY <3>1
        <4> HIDE DEF g
        <4> QED
          BY <3>1, <4>1
      <3>2. CASE i # k
        <4>1. i \in 1..(k - 1) /\ g[i] = f[i] /\ (i # 1 => g[i - 1] = f[i - 1])
          BY <3>2
        <4>2. f[i] = IF i = 1 THEN seqs[i] ELSE f[i - 1] \o seqs[i]
          BY <2>1, <4>1 DEF Flattening
        <4> HIDE DEF g
        <4> QED
          BY <4>1, <4>2
      <3> QED
        BY <3>1, <3>2
    <2>3. Flattening(g, seqs, k)
      <3>1. g = [i \in 1..k |-> g[i]]
        OBVIOUS
      <3> HIDE DEF g
      <3>2. [i \in 1..k |-> g[i]] = [i \in 1..k |-> IF i = 1 THEN seqs[i] ELSE g[i - 1] \o seqs[i]]
        BY <2>2
      <3> QED
        BY <3>1, <3>2 DEF Flattening
    <2> HIDE DEF g
    <2> QED
      BY <2>3
  <1>3. G \in SUBSET Nat
    OBVIOUS
  <1> HIDE DEF G
  <1>4. \A i \in 0..n : i \in G
    BY <1>1, <1>2, <1>3, Climb
  <1>5. n \in G
    BY <1>4
  <1> QED
    BY <1>5 DEF G

(* FlattenSeq appends one list after the other. *)
Steps(g, q, n) ==
    /\ g[0] = <<>> /\ g[n] = FlattenSeq(q)
    /\ \A k \in 1..n : g[k] = g[k - 1] \o q[k]

LEMMA FlattenSteps ==
    ASSUME NEW X, NEW n \in Nat, NEW q \in [1..n -> Seq(X)]
    PROVE  \E g \in [0..n -> Seq(X)] : Steps(g, q, n)
  <1>1. q \in Seq(Seq(X)) /\ Len(q) = n
    OBVIOUS
  <1>2. CASE n = 0
    <2>1. q = <<>> /\ FlattenSeq(q) = q
      BY <1>1, <1>2 DEF FlattenSeq
    <2> DEFINE g == [i \in 0..n |-> <<>>]
    <2>2. g \in [0..n -> Seq(X)] /\ g[0] = <<>> /\ g[n] = <<>> /\ 1..n = {}
      BY <1>2
    <2> HIDE DEF g
    <2> QED
      BY <2>1, <2>2 DEF Steps
  <1>3. CASE n # 0
    <2>1. PICK f : f = CHOOSE h : Flattening(h, q, n)
      OBVIOUS
    <2>2. Flattening(f, q, n)
      BY <2>1, FlatteningExists
    <2>3. FlattenSeq(q) = f[n]
      BY <1>1, <1>3, <2>1 DEF FlattenSeq, Flattening
    <2>4. f[1] = q[1] /\ \A k \in 1..n : k # 1 => f[k] = f[k - 1] \o q[k]
      <3>1. \A k \in 1..n : f[k] = IF k = 1 THEN q[k] ELSE f[k - 1] \o q[k]
        BY <2>2, Zenon DEF Flattening
      <3>2. 1 \in 1..n
        BY <1>3
      <3> QED
        BY <3>1, <3>2, Zenon
    <2> DEFINE g == [i \in 0..n |-> IF i = 0 THEN <<>> ELSE f[i]]
    <2>5. g[0] = <<>> /\ g[n] = f[n] /\ \A k \in 1..n : g[k] = f[k] /\ (k # 1 => g[k - 1] = f[k - 1])
      BY <1>3
    <2>6. DOMAIN g = 0..n
      OBVIOUS
    <2>c. g = [i \in 0..n |-> g[i]]
      OBVIOUS
    <2> HIDE DEF g
    <2>7. \A k \in 1..n : g[k] = g[k - 1] \o q[k]
      <3>1. <<>> \o q[1] = q[1]
        <4>1. q[1] \in Seq(X)
          BY <1>3
        <4> QED
          BY <4>1
      <3>2. ASSUME NEW k \in 1..n
            PROVE  g[k] = g[k - 1] \o q[k]
        <4>1. CASE k = 1
          <5>1. k - 1 = 0
            BY <4>1
          <5> QED
            BY <2>4, <2>5, <3>1, <4>1, <5>1, Zenon
        <4> QED
          BY <2>4, <2>5, <4>1, Zenon
      <3> QED
        BY <3>2
    <2>8. \A k \in 0..n : g[k] \in Seq(X)
      <3> DEFINE G == {k \in Nat : g[k] \in Seq(X)}
      <3>1. 0 \in G /\ G \in SUBSET Nat
        <4>1. <<>> \in Seq(X) /\ 0 \in Nat
          OBVIOUS
        <4> QED
          BY <2>5, <4>1, Zenon
      <3>2. ASSUME NEW k \in 1..n, k - 1 \in G
            PROVE  k \in G
        <4>1. g[k - 1] \in Seq(X) /\ q[k] \in Seq(X) /\ g[k] = g[k - 1] \o q[k]
          BY <2>7, <3>2, Zenon
        <4>2. g[k - 1] \o q[k] \in Seq(X)
          BY <4>1, ConcatProperties, Zenon
        <4>3. k \in Nat
          OBVIOUS
        <4> QED
          BY <4>1, <4>2, <4>3, Zenon
      <3> HIDE DEF G
      <3>3. \A k \in 0..n : k \in G
        BY <3>1, <3>2, Climb
      <3> QED
        BY <3>3 DEF G
    <2>9. g \in [0..n -> Seq(X)]
      BY <2>c, <2>8
    <2> QED
      BY <2>3, <2>5, <2>7, <2>9 DEF Steps
  <1> QED
    BY <1>2, <1>3

(* Where each of the lists begins in the flattened one. *)
Offsets(off, q, n) ==
    /\ off \in [0..n -> Nat] /\ off[0] = 0 /\ off[n] = Len(FlattenSeq(q))
    /\ \A k \in 1..n : off[k] = off[k - 1] + Len(q[k])
    /\ \A a, b \in 0..n : a <= b => off[a] <= off[b]
    /\ \A k \in 1..n : \A i \in 1..Len(q[k]) :
         off[k - 1] + i \in 1..off[n] /\ FlattenSeq(q)[off[k - 1] + i] = q[k][i]
    /\ \A j \in 1..off[n] : \E k \in 1..n : \E i \in 1..Len(q[k]) : j = off[k - 1] + i

(* The flattened list has what the lists have, in their order. *)
LEMMA FlattenFacts ==
    ASSUME NEW X, NEW n \in Nat, NEW q \in [1..n -> Seq(X)]
    PROVE  FlattenSeq(q) \in Seq(X) /\ \E off : Offsets(off, q, n)
  <1>1. PICK g \in [0..n -> Seq(X)] :
             /\ g[0] = <<>> /\ g[n] = FlattenSeq(q)
             /\ \A k \in 1..n : g[k] = g[k - 1] \o q[k]
    <2>1. PICK g \in [0..n -> Seq(X)] : Steps(g, q, n)
      BY FlattenSteps
    <2> QED
      BY <2>1, Zenon DEF Steps
  <1> DEFINE off == [k \in 0..n |-> Len(g[k])]
  <1>2. off \in [0..n -> Nat] /\ off[0] = 0 /\ off[n] = Len(FlattenSeq(q)) /\ g[n] \in Seq(X)
    BY <1>1
  <1>3. \A k \in 0..n : off[k] = Len(g[k])
    OBVIOUS
  <1> HIDE DEF off
  <1>4. ASSUME NEW k \in 1..n
        PROVE  /\ k - 1 \in 0..n /\ k \in 0..n /\ off[k] \in Nat /\ off[k - 1] \in Nat /\ Len(q[k]) \in Nat
               /\ off[k] = off[k - 1] + Len(q[k])
               /\ \A i \in 1..off[k] : g[k][i] = IF i <= off[k - 1] THEN g[k - 1][i] ELSE q[k][i - off[k - 1]]
    <2>1. k - 1 \in 0..n /\ k \in 0..n
      OBVIOUS
    <2>2. g[k - 1] \in Seq(X) /\ q[k] \in Seq(X) /\ g[k] \in Seq(X) /\ g[k] = g[k - 1] \o q[k]
      BY <1>1, <2>1, Zenon
    <2>3. PICK a, b, c : a = g[k - 1] /\ b = q[k] /\ c = g[k]
      OBVIOUS
    <2>4. /\ Len(a) \in Nat /\ Len(b) \in Nat /\ Len(c) = Len(a) + Len(b)
          /\ \A i \in 1..(Len(a) + Len(b)) : c[i] = IF i <= Len(a) THEN a[i] ELSE b[i - Len(a)]
      <3>1. a \in Seq(X) /\ b \in Seq(X) /\ c = a \o b
        BY <2>2, <2>3, Zenon
      <3> QED
        BY <3>1
    <2>5. off[k] = Len(c) /\ off[k - 1] = Len(a)
      BY <1>3, <2>1, <2>3, Zenon
    <2>6. /\ Len(a) \in Nat /\ Len(b) \in Nat /\ Len(c) = Len(a) + Len(b) /\ Len(c) \in Nat
          /\ \A i \in 1..Len(c) : c[i] = IF i <= Len(a) THEN a[i] ELSE b[i - Len(a)]
      BY <2>4
    <2> QED
      BY <2>1, <2>3, <2>5, <2>6, Zenon
  <1>5. ASSUME NEW a \in 0..n
        PROVE  \A b \in 0..n : a <= b => off[a] <= off[b] /\ \A i \in 1..off[a] : g[b][i] = g[a][i]
    <2> DEFINE G == {b \in Nat : a <= b /\ b <= n => off[a] <= off[b] /\ \A i \in 1..off[a] : g[b][i] = g[a][i]}
    <2>1. 0 \in G /\ G \in SUBSET Nat
      BY <1>2
    <2>2. ASSUME NEW b \in 1..n, b - 1 \in G
          PROVE  b \in G
      <3>1. CASE a <= b - 1
        <4>1. off[a] <= off[b - 1] /\ \A i \in 1..off[a] : g[b - 1][i] = g[a][i]
          BY <2>2, <3>1
        <4>2. off[a] \in Nat /\ off[b] \in Nat /\ off[b - 1] \in Nat /\ Len(q[b]) \in Nat /\ off[b] = off[b - 1] + Len(q[b])
          BY <1>2, <1>4
        <4>3. off[a] <= off[b]
          BY <4>1, <4>2
        <4>4. ASSUME NEW i \in 1..off[a]
              PROVE  g[b][i] = g[a][i]
          <5>1. i \in 1..off[b] /\ i <= off[b - 1]
            <6>1. PICK x, y, z : x = off[a] /\ y = off[b - 1] /\ z = off[b]
              OBVIOUS
            <6>2. x \in Nat /\ y \in Nat /\ z \in Nat /\ x <= y /\ x <= z /\ i \in 1..x
              BY <4>1, <4>2, <4>3, <6>1, Zenon
            <6>3. i \in 1..z /\ i <= y
              BY <6>2
            <6> QED
              BY <6>1, <6>3, Zenon
          <5> QED
            BY <1>4, <4>1, <5>1, Zenon
        <4> QED
          BY <4>3, <4>4
      <3>2. CASE a = b
        BY <1>2, <3>2
      <3>3. CASE a > b
        BY <3>3
      <3> QED
        BY <3>1, <3>2, <3>3
    <2> HIDE DEF G
    <2>3. \A b \in 0..n : b \in G
      BY <2>1, <2>2, Climb
    <2> QED
      BY <2>3 DEF G
  <1>6. ASSUME NEW k \in 1..n, NEW i \in 1..Len(q[k])
        PROVE  off[k - 1] + i \in 1..off[n] /\ FlattenSeq(q)[off[k - 1] + i] = q[k][i]
    <2> DEFINE j == off[k - 1] + i
    <2>1. /\ off[k] = off[k - 1] + Len(q[k]) /\ off[k] \in Nat /\ off[k - 1] \in Nat /\ Len(q[k]) \in Nat
          /\ off[n] \in Nat /\ off[k] <= off[n] /\ k <= n /\ k \in 0..n /\ n \in 0..n
      BY <1>2, <1>4, <1>5
    <2>2. j \in 1..off[k] /\ j \in 1..off[n] /\ ~(j <= off[k - 1]) /\ j - off[k - 1] = i
      <3>1. PICK x, y, z, w : x = off[k - 1] /\ y = Len(q[k]) /\ z = off[k] /\ w = off[n]
        OBVIOUS
      <3>2. z = x + y /\ x \in Nat /\ y \in Nat /\ w \in Nat /\ z <= w /\ i \in 1..y /\ j = x + i
        BY <2>1, <3>1, Zenon
      <3>3. j \in 1..z /\ j \in 1..w /\ ~(j <= x) /\ j - x = i
        BY <3>2
      <3> QED
        BY <3>1, <3>3, Zenon
    <2> HIDE DEF j
    <2>3. g[k][j] = q[k][i]
      BY <1>4, <2>2
    <2>4. g[n][j] = g[k][j]
      BY <1>5, <2>1, <2>2
    <2> QED
      BY <1>1, <2>2, <2>3, <2>4 DEF j
  <1>7. ASSUME NEW j \in 1..off[n]
        PROVE  \E k \in 1..n : \E i \in 1..Len(q[k]) : j = off[k - 1] + i
    <2> DEFINE B == {k \in 0..n : j <= off[k]}
    <2>1. n \in B /\ B \in SUBSET Nat
      BY <1>2
    <2>2. PICK k \in B : \A m \in B : k <= m
      <3> HIDE DEF B
      <3> QED
        BY <2>1, Least
    <2>3. k # 0
      BY <1>2, <2>2
    <2>4. k \in 1..n /\ k - 1 \in 0..n /\ ~(j <= off[k - 1]) /\ j <= off[k]
      BY <2>2, <2>3
    <2>5. off[k] = off[k - 1] + Len(q[k]) /\ off[k - 1] \in Nat /\ Len(q[k]) \in Nat
      BY <1>4, <2>4
    <2> DEFINE i == j - off[k - 1]
    <2>6. i \in 1..Len(q[k]) /\ j = off[k - 1] + i
      BY <1>2, <2>4, <2>5
    <2> HIDE DEF i
    <2> QED
      BY <2>4, <2>6
  <1>8. \A a, b \in 0..n : a <= b => off[a] <= off[b]
    BY <1>5
  <1>9. \A k \in 1..n : off[k] = off[k - 1] + Len(q[k])
    BY <1>4, Zenon
  <1>10. \A k \in 1..n : \A i \in 1..Len(q[k]) :
           off[k - 1] + i \in 1..off[n] /\ FlattenSeq(q)[off[k - 1] + i] = q[k][i]
    BY <1>6, Zenon
  <1>11. \A j \in 1..off[n] : \E k \in 1..n : \E i \in 1..Len(q[k]) : j = off[k - 1] + i
    BY <1>7, Zenon
  <1>12. FlattenSeq(q) \in Seq(X)
    BY <1>1, <1>2, Zenon
  <1> QED
    BY <1>2, <1>8, <1>9, <1>10, <1>11, <1>12, Zenon DEF Offsets

-----------------------------------------------------------------------------
(* What was served, fetched and taken in.                                   *)

(* Batch s is one that may be late, and was not served before `since`. *)
NotServedBefore(s, since) == s \in Late /\ (servedAt[s] = None \/ servedAt[s] >= since)

(* An hour's body names its missing batches, each of them final. *)
GoodHour(body) ==
    /\ body.hour_end \in Int
    /\ \A s \in BatchStamps(body.hour_end) : ~body.header[s] =>
         /\ clock >= body.hour_end + GapFinal - MaxFetch
         /\ NotServedBefore(s, body.hour_end + GapFinal - MaxFetch)

(* What a fetch returns: the file's version, or an hour. *)
GoodBlob(blob) ==
    /\ blob = RawBlob(blob.content_type, blob.request, blob.body, blob.fetched_at)
    /\ blob.content_type \in {"cal", "gdelt"}
    /\ blob.fetched_at \in Begin..clock
    /\ blob.content_type = "gdelt" => GoodHour(blob.body)

(* The blob of a digest is the one it was computed from, and an hour's body*)
(* is a good one.                                                          *)
Addressed(digest, blob) ==
    /\ blob = RawBlob(blob.content_type, blob.request, blob.body, blob.fetched_at)
    /\ digest = <<blob.content_type, blob.body>>
    /\ blob.content_type = "gdelt" => GoodHour(blob.body)

CandidateOf(r) == [scope |-> r.scope, effective_at |-> r.effective_at, fields |-> r.fields]

(* The content address of an observed record names the bytes it was parsed *)
(* from, and they are in the archive.                                      *)
Evident(r) ==
    /\ r.raw_ref \in DOMAIN archive
    /\ r.raw_ref = <<r.ds, r.raw_ref[2]>>
    /\ IF r.ds = "gdelt"
       THEN /\ CandidateOf(r) \in ParseHour(r.raw_ref[2])
            /\ r.effective_at = r.raw_ref[2].hour_end
       ELSE \E t \in Begin..clock : CandidateOf(r) \in ParseSchedule(Events[r.raw_ref[2]], t, Scope)

TypeInv ==
    /\ clock \in Begin..MaxClock
    /\ servedAt \in [Late -> Nat \cup {None}]

(* A fetch under way: what it found missing was missing since it began. *)
FetchInv ==
    pc = "fetch" =>
        /\ hour \in Int /\ begun \in Nat /\ begun <= clock /\ clock <= begun + MaxFetch
        /\ \E t \in Begin..MaxClock : t = begun /\ hour = LatestHourEnd(t)
        /\ DOMAIN batches \subseteq BatchStamps(hour)
        /\ \A s \in DOMAIN batches : batches[s] = None => NotServedBefore(s, begun)

(* The blob in hand and the one kept in memory. *)
BlobInv ==
    /\ last # None => GoodBlob(last)
    /\ pc \in {"body", "meta", "ingest"} => GoodBlob(job)
    /\ pc \in {"meta", "ingest"} => Sha256(job) \in DOMAIN archive

ArchiveInv == \A digest \in DOMAIN archive : Addressed(digest, archive[digest].blob)

RecordInv == \A r \in todo \cup journal : r.availability = "observed" => Evident(r)

Inv == TypeInv /\ FetchInv /\ BlobInv /\ ArchiveInv /\ RecordInv

-----------------------------------------------------------------------------
(* The constants, one by one. *)
LEMMA ConstantTypes ==
    /\ Begin \in Nat /\ MaxClock \in Nat /\ Begin <= MaxClock /\ MaxFetch \in Nat
    /\ GapFinal \in Nat /\ PublishLag \in Nat
    /\ PerHour \in Nat /\ PerHour >= 1 /\ Batch \in Nat /\ Batch >= 1
    /\ \A t \in Begin..MaxClock : BatchStamps(LatestHourEnd(t)) \subseteq DOMAIN Export
    /\ \A s \in DOMAIN Export : ParseExport(Export[s]) \in Seq(Lines) /\ ParseExport(Export[s]) # None
    /\ None \notin Nat
  <1>1. /\ Begin \in Nat /\ MaxClock \in Nat /\ Begin <= MaxClock /\ MaxFetch \in Nat
        /\ GapFinal \in Nat /\ PublishLag \in Nat
        /\ PerHour \in Nat /\ PerHour >= 1 /\ Batch \in Nat /\ Batch >= 1
    BY GdeltAssumption, CollectorsAssumption
  <1>2. ASSUME NEW s \in DOMAIN Export
        PROVE  ParseExport(Export[s]) \in Seq(Lines) /\ ParseExport(Export[s]) # None
    <2>1. Export[s] \in Seq(Lines) /\ None \notin Seq(Lines)
      BY CollectorsAssumption
    <2>2. {i \in DOMAIN Export[s] : Export[s][i] # Malformed} \in SUBSET (DOMAIN Export[s])
      OBVIOUS
    <2>3. ParseExport(Export[s]) \in Seq(Lines)
      BY <2>1, <2>2, PickedFacts DEF ParseExport
    <2> QED
      BY <2>1, <2>3
  <1> QED
    BY <1>1, <1>2, CollectorsAssumption

(* A product of naturals grows with its factor. *)
LEMMA Products ==
    ASSUME NEW a \in Nat, NEW b \in Nat, NEW c \in Nat
    PROVE  a * c \in Nat /\ (a <= b => a * c <= b * c)
  OBVIOUS

(* The hour a poll asks for is over, and so is each of its batches. *)
LEMMA LatestHourIsOver ==
    ASSUME NEW t \in Nat
    PROVE  /\ LatestHourEnd(t) \in Int /\ LatestHourEnd(t) <= t
           /\ \A s \in BatchStamps(LatestHourEnd(t)) :
                s \in Int /\ s <= t /\ LatestHourEnd(t) - HOUR <= s
           /\ HOUR \in Nat
  <1>1. HOUR \in Nat /\ HOUR >= 1
    <2>1. PerHour * Batch >= 1 * Batch
      BY ConstantTypes, Products
    <2> QED
      BY <2>1, ConstantTypes, Products DEF HOUR
  <1>2. LatestHourEnd(t) \in Int /\ LatestHourEnd(t) <= t
    <2> DEFINE a == t - PublishLag
    <2>1. a \in Int /\ a <= t
      BY ConstantTypes
    <2>2. (a \div HOUR) * HOUR <= a /\ (a \div HOUR) * HOUR \in Int
      <3> HIDE DEF a
      <3> QED
        BY <1>1, <2>1
    <2> QED
      BY <2>1, <2>2 DEF LatestHourEnd
  <1>3. ASSUME NEW i \in 1..PerHour
        PROVE  Batch * i \in Int /\ 0 <= Batch * i /\ Batch * i <= HOUR
    <2>1. i * Batch <= PerHour * Batch /\ i * Batch \in Nat
      BY ConstantTypes, Products
    <2>2. Batch * i = i * Batch
      BY ConstantTypes
    <2> QED
      BY <2>1, <2>2, <1>1 DEF HOUR
  <1> HIDE DEF LatestHourEnd, HOUR
  <1> QED
    BY <1>1, <1>2, <1>3 DEF BatchStamps

-----------------------------------------------------------------------------
(* What the outside world does in a step: time passes, and a late batch may*)
(* come to be served.                                                      *)
WorldStep ==
    /\ clock' \in Begin..MaxClock /\ clock <= clock'
    /\ \/ servedAt' = servedAt
       \/ \E s \in Late : servedAt[s] = None /\ servedAt' = [servedAt EXCEPT ![s] = clock]

(* A batch found missing stays one that was not served before. *)
LEMMA MissingStaysMissing ==
    ASSUME TypeInv, WorldStep, NEW s, NEW since \in Int, clock >= since, NotServedBefore(s, since)
    PROVE  NotServedBefore(s, since)'
  BY ConstantTypes DEF TypeInv, WorldStep, NotServedBefore

(* A blob, an archived blob and a record once good stay good: the archive  *)
(* only grows.                                                             *)
LEMMA GoodStaysGood ==
    ASSUME TypeInv, WorldStep
    PROVE  /\ \A blob : GoodBlob(blob) => GoodBlob(blob)'
           /\ \A digest, blob : Addressed(digest, blob) => Addressed(digest, blob)'
           /\ DOMAIN archive \subseteq DOMAIN archive' => \A r : Evident(r) => Evident(r)'
  <1>1. clock \in Int /\ clock' \in Int /\ clock <= clock' /\ Begin \in Int
    BY ConstantTypes DEF TypeInv, WorldStep
  <1>2. ASSUME NEW body, GoodHour(body)
        PROVE  GoodHour(body)'
    <2>1. body.hour_end \in Int /\ body.hour_end + GapFinal - MaxFetch \in Int
      BY <1>2, ConstantTypes DEF GoodHour
    <2>2. ASSUME NEW s \in BatchStamps(body.hour_end), ~body.header[s]
          PROVE  /\ clock' >= body.hour_end + GapFinal - MaxFetch
                 /\ NotServedBefore(s, body.hour_end + GapFinal - MaxFetch)'
      BY <1>1, <1>2, <2>1, <2>2, MissingStaysMissing DEF GoodHour
    <2> QED
      BY <2>1, <2>2 DEF GoodHour
  <1>3. ASSUME NEW blob, GoodBlob(blob)
        PROVE  GoodBlob(blob)'
    BY <1>1, <1>2, <1>3 DEF GoodBlob
  <1>4. ASSUME NEW digest, NEW blob, Addressed(digest, blob)
        PROVE  Addressed(digest, blob)'
    BY <1>2, <1>4 DEF Addressed
  <1>5. ASSUME DOMAIN archive \subseteq DOMAIN archive', NEW r, Evident(r)
        PROVE  Evident(r)'
    BY <1>1, <1>5 DEF Evident
  <1> QED
    BY <1>3, <1>4, <1>5

(* Ingest makes its records from the candidates it is given. *)
LEMMA IngestGives ==
    ASSUME NEW ds, NEW cands, NEW avail, NEW ref, NEW r \in Ingest(ds, cands, avail, ref)
    PROVE  \E c \in cands : /\ r.ds = ds /\ r.availability = avail /\ r.raw_ref = ref
                            /\ r.scope = c.scope /\ r.effective_at = c.effective_at /\ r.fields = c.fields
  BY DEF Ingest

(* A candidate has no field but the three a record keeps. *)
LEMMA CandidateShape ==
    /\ \A body : \A c \in ParseHour(body) :
         c = [scope |-> c.scope, effective_at |-> body.hour_end, fields |-> c.fields]
    /\ \A events, t, scope : \A c \in ParseSchedule(events, t, scope) :
         c = [scope |-> c.scope, effective_at |-> c.effective_at, fields |-> c.fields]
  <1>1. ASSUME NEW body, NEW c \in ParseHour(body)
        PROVE  c = [scope |-> c.scope, effective_at |-> body.hour_end, fields |-> c.fields]
    <2>1. \E r, f : c = [scope |-> r, effective_at |-> body.hour_end, fields |-> f]
      BY Zenon DEF ParseHour, HourCandidates
    <2> QED
      BY <2>1
  <1>2. ASSUME NEW events, NEW t, NEW scope, NEW c \in ParseSchedule(events, t, scope)
        PROVE  c = [scope |-> c.scope, effective_at |-> c.effective_at, fields |-> c.fields]
    BY DEF ParseSchedule, CandidateFor
  <1> QED
    BY <1>1, <1>2

-----------------------------------------------------------------------------
(* An empty store and a daemon that has fetched nothing. *)
LEMMA InitInv == Init => Inv
  BY ConstantTypes DEF Init, Inv, TypeInv, FetchInv, BlobInv, ArchiveInv, RecordInv, EmptyArchive

(* A step that leaves the blobs, the archive and the records alone. *)
LEMMA QuietStep ==
    ASSUME Inv, WorldStep, FetchInv', UNCHANGED <<archive, journal>>, todo' \subseteq todo,
           last' = last \/ last' = None,
           pc' \in {"body", "meta", "ingest"} => pc' = pc /\ job' = job
    PROVE  Inv'
  <1>0. TypeInv /\ BlobInv /\ ArchiveInv /\ RecordInv
    BY DEF Inv
  <1>1. TypeInv'
    BY <1>0, ConstantTypes DEF TypeInv, WorldStep
  <1>2. /\ \A blob : GoodBlob(blob) => GoodBlob(blob)'
        /\ \A digest, blob : Addressed(digest, blob) => Addressed(digest, blob)'
        /\ \A r : Evident(r) => Evident(r)'
    BY <1>0, GoodStaysGood
  <1>3. BlobInv'
    BY <1>0, <1>2 DEF BlobInv, Sha256
  <1>4. ArchiveInv'
    BY <1>0, <1>2 DEF ArchiveInv
  <1>5. RecordInv'
    BY <1>0, <1>2 DEF RecordInv
  <1> QED
    BY <1>1, <1>3, <1>4, <1>5 DEF Inv

(* The steps of the world, of the daemon's loop and of its fetches. *)
LEMMA OutsideStep ==
    ASSUME Inv, \/ Start \/ Crash \/ Tick \/ Pass \/ Outage \/ GiveUpForNow \/ Unreadable \/ BackfillMonth
                \/ PollHour \/ ParseFails
                \/ \E version \in DOMAIN Calendars : Edit(version)
                \/ \E s \in Late : Serve(s)
    PROVE  Inv'
  <1>0. TypeInv /\ FetchInv /\ BlobInv
    BY DEF Inv
  <1>1. clock \in Begin..MaxClock /\ clock \in Nat /\ Begin \in Nat /\ MaxFetch \in Nat
    BY <1>0, ConstantTypes DEF TypeInv
  <1>2. CASE Start \/ Crash \/ Pass \/ Outage \/ GiveUpForNow \/ Unreadable \/ ParseFails
    <2>1. /\ UNCHANGED <<clock, servedAt, archive, journal>> /\ todo' \subseteq todo
          /\ last' = last \/ last' = None
          /\ pc' \notin {"fetch", "body", "meta", "ingest"}
      BY <1>2 DEF Start, Crash, Pass, Outage, GiveUpForNow, Unreadable, ParseFails, Poll, store
    <2>2. WorldStep
      BY <1>1, <2>1 DEF WorldStep
    <2>3. FetchInv'
      BY <2>1 DEF FetchInv
    <2> QED
      BY <2>1, <2>2, <2>3, QuietStep
  <1>3. CASE Tick
    <2>1. /\ UNCHANGED <<servedAt, pc, begun, hour, batches, last, job, todo, archive, journal>>
          /\ clock' = clock + 1 /\ clock < MaxClock /\ (pc = "fetch" => clock < begun + MaxFetch)
      BY <1>3 DEF Tick, fetching, store
    <2>2. WorldStep
      BY <1>1, <2>1, ConstantTypes DEF WorldStep
    <2>3. FetchInv'
      BY <1>0, <1>1, <2>1 DEF FetchInv, NotServedBefore
    <2> QED
      BY <2>1, <2>2, <2>3, QuietStep
  <1>4. CASE BackfillMonth \/ \E version \in DOMAIN Calendars : Edit(version)
    <2>1. UNCHANGED <<clock, servedAt, pc, begun, hour, batches, last, job, todo, archive, journal>>
      BY <1>4 DEF BackfillMonth, Edit, fetching, store
    <2>2. WorldStep
      BY <1>1, <2>1 DEF WorldStep
    <2>3. FetchInv'
      BY <1>0, <2>1 DEF FetchInv, NotServedBefore
    <2> QED
      BY <2>1, <2>2, <2>3, QuietStep
  <1>5. ASSUME NEW s \in Late, Serve(s)
        PROVE  Inv'
    <2>1. /\ UNCHANGED <<clock, pc, begun, hour, batches, last, job, todo, archive, journal>>
          /\ servedAt[s] = None /\ servedAt' = [servedAt EXCEPT ![s] = clock]
      BY <1>5 DEF Serve, fetching, store
    <2>2. WorldStep
      <3>1. \E q \in Late : servedAt[q] = None /\ servedAt' = [servedAt EXCEPT ![q] = clock]
        BY <2>1, Zenon
      <3>2. clock' \in Begin..MaxClock /\ clock <= clock'
        BY <1>1, <2>1
      <3> QED
        BY <3>1, <3>2, Zenon DEF WorldStep
    <2>3. FetchInv'
      <3> SUFFICES ASSUME pc = "fetch" PROVE FetchInv'
        BY <2>1 DEF FetchInv
      <3>1. begun \in Int /\ begun <= clock
        BY <1>0 DEF FetchInv
      <3>2. \A q \in DOMAIN batches : batches[q] = None => NotServedBefore(q, begun)'
        <4>1. \A q : NotServedBefore(q, begun) => NotServedBefore(q, begun)'
          BY <1>0, <1>1, <2>1, <3>1 DEF NotServedBefore, TypeInv
        <4> QED
          BY <1>0, <4>1 DEF FetchInv
      <3> QED
        BY <1>0, <2>1, <3>2 DEF FetchInv
    <2> QED
      BY <2>1, <2>2, <2>3, QuietStep
  <1>6. CASE PollHour
    <2>1. /\ UNCHANGED <<clock, servedAt, last, job, todo, archive, journal>>
          /\ pc' = "fetch" /\ hour' = LatestHourEnd(clock) /\ begun' = clock /\ batches' = NoBatches
      BY <1>6 DEF PollHour, store
    <2>2. WorldStep
      BY <1>1, <2>1 DEF WorldStep
    <2>3. FetchInv'
      <3>1. hour' \in Int
        BY <1>1, <2>1, LatestHourIsOver
      <3>2. DOMAIN NoBatches = {}
        BY DEF NoBatches
      <3> QED
        BY <1>1, <2>1, <3>1, <3>2 DEF FetchInv
    <2> QED
      BY <2>1, <2>2, <2>3, QuietStep
  <1> QED
    BY <1>2, <1>3, <1>4, <1>5, <1>6

(* download_batch: a batch of an hour that is over and cannot be downloaded*)
(* is a late one that is not served yet.                                   *)
LEMMA DownloadStep ==
    ASSUME Inv, Download
    PROVE  Inv'
  <1> DEFINE left == BatchStamps(hour) \ DOMAIN batches
             s    == Min(left)
             got  == IF s \in DOMAIN Downloads THEN ParseExport(Downloads[s]) ELSE None
  <1>0. TypeInv /\ FetchInv
    BY DEF Inv
  <1>1. /\ pc = "fetch" /\ left # {}
        /\ batches' = [t \in DOMAIN batches \cup {s} |-> IF t = s THEN got ELSE batches[t]]
        /\ UNCHANGED <<clock, servedAt, pc, begun, hour, last, job, todo, archive, journal>>
    BY DEF Download, store
  <1>2. PICK t \in Begin..MaxClock : t = begun /\ hour = LatestHourEnd(t)
    BY <1>0, <1>1 DEF FetchInv
  <1>3. /\ t \in Nat /\ t <= clock /\ clock \in Begin..MaxClock /\ clock \in Nat
        /\ \A q \in BatchStamps(hour) : q \in DOMAIN Export /\ q \in Int /\ q <= clock
    BY <1>0, <1>1, <1>2, ConstantTypes, LatestHourIsOver DEF FetchInv, TypeInv
  <1>4. s \in left
    <2>1. left \in SUBSET Int /\ hour - HOUR \in Int /\ \A q \in left : hour - HOUR <= q
      BY <1>2, <1>3, LatestHourIsOver
    <2> HIDE DEF left
    <2> QED
      BY <1>1, <2>1, MinOfBounded
  <1>5. got = None => NotServedBefore(s, begun)
    <2>1. s \in DOMAIN Export /\ s \in Int /\ s <= clock
      BY <1>3, <1>4
    <2> HIDE DEF s, left
    <2>2. /\ DOMAIN Downloads = {q \in DOMAIN Export : Served(q)}
          /\ \A q \in DOMAIN Downloads : Downloads[q] = Export[q]
      BY DEF Downloads
    <2>3. CASE s \in DOMAIN Downloads
      BY <2>1, <2>2, <2>3, ConstantTypes
    <2>4. CASE s \notin DOMAIN Downloads
      <3>1. ~Served(s)
        BY <2>1, <2>2, <2>4
      <3> QED
        BY <2>1, <3>1 DEF Served, NotServedBefore
    <2> QED
      BY <2>3, <2>4
  <1>6. s \in BatchStamps(hour)
    BY <1>4
  <1> HIDE DEF left, s, got
  <1>7. FetchInv'
    <2>1. DOMAIN batches' \subseteq BatchStamps(hour)
      BY <1>0, <1>1, <1>6 DEF FetchInv
    <2>2. \A q \in DOMAIN batches' : batches'[q] = None => NotServedBefore(q, begun)
      BY <1>0, <1>1, <1>5 DEF FetchInv
    <2>3. \A q : NotServedBefore(q, begun)' = NotServedBefore(q, begun)
      BY <1>1 DEF NotServedBefore
    <2> QED
      BY <1>0, <1>1, <2>1, <2>2, <2>3 DEF FetchInv
  <1>8. WorldStep
    BY <1>1, <1>3 DEF WorldStep
  <1> QED
    BY <1>1, <1>7, <1>8, QuietStep

(* fetch takes an hour: a batch is missing from it only for good. *)
LEMMA TakeHourStep ==
    ASSUME Inv, TakeHour
    PROVE  Inv'
  <1> DEFINE body == Compact(hour, batches)
             blob == RawBlob("gdelt", hour, body, clock)
  <1>0. TypeInv /\ FetchInv /\ BlobInv /\ ArchiveInv /\ RecordInv
    BY DEF Inv
  <1>1. /\ pc = "fetch" /\ DOMAIN batches = BatchStamps(hour) /\ ~Waits
        /\ last' = blob /\ job' = blob /\ pc' = "body"
        /\ UNCHANGED <<clock, servedAt, todo, archive, journal>>
    BY DEF TakeHour, store
  <1>2. /\ hour \in Int /\ begun \in Nat /\ clock <= begun + MaxFetch /\ clock \in Nat
        /\ clock \in Begin..MaxClock
    BY <1>0, <1>1, ConstantTypes DEF FetchInv, TypeInv
  <1>3. body.hour_end = hour /\ \A s \in DOMAIN batches : body.header[s] = (batches[s] # None)
    BY DEF Compact
  <1>4. GoodHour(body)
    <2> SUFFICES ASSUME NEW s \in BatchStamps(hour), ~body.header[s]
                 PROVE  /\ clock >= hour + GapFinal - MaxFetch
                        /\ NotServedBefore(s, hour + GapFinal - MaxFetch)
      BY <1>2, <1>3 DEF GoodHour
    <2>1. batches[s] = None /\ s \in DOMAIN batches
      BY <1>1, <1>3
    <2>2. clock - hour >= GapFinal
      BY <1>1, <1>2, <2>1, ConstantTypes DEF Waits, Present
    <2>3. NotServedBefore(s, begun)
      BY <1>0, <1>1, <2>1 DEF FetchInv
    <2> QED
      BY <1>0, <1>2, <2>2, <2>3, ConstantTypes DEF NotServedBefore, TypeInv
  <1> HIDE DEF body
  <1>5. GoodBlob(blob)
    BY <1>2, <1>4 DEF GoodBlob, RawBlob
  <1> HIDE DEF blob
  <1>6. WorldStep
    BY <1>1, <1>2 DEF WorldStep
  <1>7. /\ \A b : GoodBlob(b) => GoodBlob(b)'
        /\ \A digest, b : Addressed(digest, b) => Addressed(digest, b)'
        /\ \A r : Evident(r) => Evident(r)'
    BY <1>0, <1>1, <1>6, GoodStaysGood
  <1>8. BlobInv'
    BY <1>1, <1>5, <1>7 DEF BlobInv
  <1>9. TypeInv' /\ FetchInv' /\ ArchiveInv' /\ RecordInv'
    BY <1>0, <1>1, <1>7 DEF TypeInv, FetchInv, ArchiveInv, RecordInv
  <1> QED
    BY <1>8, <1>9 DEF Inv
(* A step in which no time passes and nothing comes to be served. *)
LEMMA SteadyStep ==
    ASSUME Inv, UNCHANGED <<clock, servedAt>>, DOMAIN archive \subseteq DOMAIN archive'
    PROVE  /\ TypeInv'
           /\ \A blob : GoodBlob(blob) => GoodBlob(blob)'
           /\ \A digest, blob : Addressed(digest, blob) => Addressed(digest, blob)'
           /\ \A r : Evident(r) => Evident(r)'
  <1>1. TypeInv
    BY DEF Inv
  <1>2. TypeInv' /\ clock \in Nat /\ Begin \in Nat
    BY <1>1, ConstantTypes DEF TypeInv
  <1>3. WorldStep
    BY <1>1, <1>2 DEF WorldStep, TypeInv
  <1> QED
    BY <1>1, <1>2, <1>3, GoodStaysGood

(* The blob of a poll that has no batch to download: the hour in memory or *)
(* the calendar's file.                                                    *)
LEMMA PollStep ==
    ASSUME Inv, PollKept \/ PollCalendar
    PROVE  Inv'
  <1>0. TypeInv /\ BlobInv /\ ArchiveInv /\ RecordInv
    BY DEF Inv
  <1>1. /\ pc' = "body"
        /\ UNCHANGED <<clock, servedAt, last, todo, archive, journal>>
    BY DEF PollKept, PollCalendar, store
  <1>2. GoodBlob(job')
    <2>1. CASE PollKept
      BY <1>0, <2>1 DEF PollKept, KeptHour, BlobInv
    <2>2. CASE PollCalendar
      <3>1. job' = RawBlob("cal", None, file, clock)
        BY <2>2 DEF PollCalendar
      <3>2. clock \in Begin..clock
        BY <1>0, ConstantTypes DEF TypeInv
      <3> QED
        BY <3>1, <3>2 DEF GoodBlob, RawBlob
    <2> QED
      BY <2>1, <2>2
  <1>3. /\ TypeInv'
        /\ \A blob : GoodBlob(blob) => GoodBlob(blob)'
        /\ \A digest, blob : Addressed(digest, blob) => Addressed(digest, blob)'
        /\ \A r : Evident(r) => Evident(r)'
    BY <1>1, SteadyStep
  <1>4. BlobInv'
    <2>1. GoodBlob(job)'
      <3>1. \A blob : blob = job' => GoodBlob(blob)'
        BY <1>2, <1>3
      <3> QED
        BY <1>1, <1>2 DEF GoodBlob, GoodHour, NotServedBefore
    <2> QED
      BY <1>0, <1>1, <1>3, <2>1 DEF BlobInv
  <1>5. FetchInv' /\ ArchiveInv' /\ RecordInv'
    BY <1>0, <1>1, <1>3 DEF FetchInv, ArchiveInv, RecordInv
  <1> QED
    BY <1>3, <1>4, <1>5 DEF Inv

(* put: the archive keeps what it has, and files the blob under its digest.*)
LEMMA StoreStep ==
    ASSUME Inv, StoreBody \/ StoreMeta
    PROVE  Inv'
  <1> DEFINE digest == Sha256(job)
             bare   == RawBlob(job.content_type, None, job.body, 0)
  <1>0. TypeInv /\ BlobInv /\ ArchiveInv /\ RecordInv
    BY DEF Inv
  <1>1. /\ pc \in {"body", "meta"} /\ pc' \in {"meta", "ingest"}
        /\ UNCHANGED <<clock, servedAt, last, job, todo, journal>>
    BY DEF StoreBody, StoreMeta
  <1>2. GoodBlob(job) /\ (pc = "meta" => digest \in DOMAIN archive)
    BY <1>0, <1>1 DEF BlobInv
  <1>3. Addressed(digest, job) /\ Addressed(digest, bare)
    <2>1. job = RawBlob(job.content_type, job.request, job.body, job.fetched_at)
      BY <1>2 DEF GoodBlob
    <2> QED
      BY <1>2, <2>1 DEF Addressed, GoodBlob, Sha256, RawBlob
  <1>4. /\ DOMAIN archive' = DOMAIN archive \cup {digest}
        /\ \A d \in DOMAIN archive' : 
             \/ d = digest /\ archive'[d].blob \in {job, bare}
             \/ d \in DOMAIN archive /\ archive'[d] = archive[d]
    <2>1. CASE StoreBody /\ Has(archive, Sha256(job))
      BY <2>1 DEF StoreBody, Has
    <2>2. CASE StoreBody /\ ~Has(archive, Sha256(job))
      <3>1. archive' = [d \in DOMAIN archive \cup {digest} |->
                          IF d = digest THEN [blob |-> bare, meta |-> FALSE] ELSE archive[d]]
        BY <2>2 DEF StoreBody, PutBody
      <3> HIDE DEF digest, bare
      <3> QED
        BY <3>1
    <2>3. CASE StoreMeta
      <3>1. archive' = [archive EXCEPT ![digest] = [blob |-> job, meta |-> TRUE]] /\ digest \in DOMAIN archive
        BY <1>2, <2>3 DEF StoreMeta, PutMeta
      <3> HIDE DEF digest, bare
      <3> QED
        BY <3>1
    <2> QED
      BY <2>1, <2>2, <2>3
  <1> HIDE DEF bare
  <1>5. /\ TypeInv'
        /\ \A blob : GoodBlob(blob) => GoodBlob(blob)'
        /\ \A d, blob : Addressed(d, blob) => Addressed(d, blob)'
        /\ \A r : Evident(r) => Evident(r)'
    BY <1>1, <1>4, SteadyStep
  <1>6. ArchiveInv'
    <2> SUFFICES ASSUME NEW d \in DOMAIN archive'
                 PROVE  Addressed(d, archive'[d].blob)
      BY <1>1 DEF ArchiveInv, Addressed, GoodHour, NotServedBefore
    <2> QED
      BY <1>0, <1>3, <1>4 DEF ArchiveInv
  <1>7. BlobInv'
    BY <1>0, <1>1, <1>2, <1>4, <1>5 DEF BlobInv, Sha256
  <1>8. FetchInv' /\ RecordInv'
    BY <1>0, <1>1, <1>5 DEF FetchInv, RecordInv
  <1> QED
    BY <1>5, <1>6, <1>7, <1>8 DEF Inv

(* parse and ingest: each record cites the archived bytes it was made of. *)
LEMMA IngestStep ==
    ASSUME Inv, IngestBlob
    PROVE  Inv'
  <1>0. TypeInv /\ BlobInv /\ ArchiveInv /\ RecordInv
    BY DEF Inv
  <1>1. /\ pc = "ingest" /\ pc' \in {"idle", "append"}
        /\ todo' = Ingest(job.content_type, Parse(job), "observed", Sha256(job))
        /\ UNCHANGED <<clock, servedAt, last, archive, journal>>
    BY DEF IngestBlob, store
  <1>2. GoodBlob(job) /\ Sha256(job) \in DOMAIN archive
    BY <1>0, <1>1 DEF BlobInv
  <1>3. ASSUME NEW r \in todo'
        PROVE  Evident(r)
    <2>1. PICK c \in Parse(job) :
             /\ r.ds = job.content_type /\ r.raw_ref = Sha256(job)
             /\ r.scope = c.scope /\ r.effective_at = c.effective_at /\ r.fields = c.fields
      BY <1>1, <1>3, IngestGives
    <2>2. r.raw_ref = <<r.ds, job.body>> /\ r.raw_ref[2] = job.body /\ r.raw_ref \in DOMAIN archive
      BY <1>2, <2>1 DEF Sha256
    <2>3. CASE job.content_type = "gdelt"
      <3>1. c \in ParseHour(job.body)
        BY <2>1, <2>3 DEF Parse
      <3>2. c = [scope |-> c.scope, effective_at |-> job.body.hour_end, fields |-> c.fields]
        BY <3>1, CandidateShape
      <3>3. c.effective_at = job.body.hour_end
        BY <3>2
      <3>4. CandidateOf(r) = c
        BY <2>1, <3>2, <3>3 DEF CandidateOf
      <3> QED
        BY <2>1, <2>2, <2>3, <3>1, <3>3, <3>4 DEF Evident
    <2>4. CASE job.content_type # "gdelt"
      <3>1. c \in ParseSchedule(Events[job.body], job.fetched_at, Scope)
        BY <2>1, <2>4 DEF Parse
      <3>2. c = [scope |-> c.scope, effective_at |-> c.effective_at, fields |-> c.fields]
        BY <3>1, CandidateShape
      <3>3. CandidateOf(r) = c
        BY <2>1, <3>2 DEF CandidateOf
      <3>4. job.fetched_at \in Begin..clock
        BY <1>2 DEF GoodBlob
      <3> QED
        BY <2>1, <2>2, <2>4, <3>1, <3>3, <3>4 DEF Evident
    <2> QED
      BY <2>3, <2>4
  <1>4. /\ TypeInv'
        /\ \A blob : GoodBlob(blob) => GoodBlob(blob)'
        /\ \A digest, blob : Addressed(digest, blob) => Addressed(digest, blob)'
        /\ \A r : Evident(r) => Evident(r)'
    BY <1>1, SteadyStep
  <1>5. BlobInv' /\ FetchInv' /\ ArchiveInv'
    BY <1>0, <1>1, <1>4 DEF BlobInv, FetchInv, ArchiveInv
  <1>6. RecordInv'
    BY <1>0, <1>1, <1>3, <1>4 DEF RecordInv
  <1> QED
    BY <1>4, <1>5, <1>6 DEF Inv

(* Appending moves a record; what an import adds was not observed. *)
LEMMA JournalStep ==
    ASSUME Inv, ImportHours \/ ImportCalendar \/ \E r \in todo : Append1(r)
    PROVE  Inv'
  <1>0. TypeInv /\ BlobInv /\ ArchiveInv /\ RecordInv
    BY DEF Inv
  <1>1. /\ pc' \notin {"fetch", "body", "meta", "ingest"}
        /\ UNCHANGED <<clock, servedAt, last, archive>>
        /\ \A r \in todo' \cup journal' : r \in todo \cup journal \/ r.availability = "derived"
    <2>1. ASSUME NEW ds, NEW rows, Import(ds, rows)
          PROVE  <1>1
      <3>1. \A r \in Ingest(ds, rows, "derived", None) : r.availability = "derived"
        BY IngestGives
      <3> QED
        BY <2>1, <3>1 DEF Import, store
    <2>2. ASSUME NEW r \in todo, Append1(r)
          PROVE  <1>1
      BY <2>2 DEF Append1
    <2> QED
      BY <2>1, <2>2 DEF ImportHours, ImportCalendar
  <1>2. /\ TypeInv'
        /\ \A blob : GoodBlob(blob) => GoodBlob(blob)'
        /\ \A digest, blob : Addressed(digest, blob) => Addressed(digest, blob)'
        /\ \A r : Evident(r) => Evident(r)'
    BY <1>1, SteadyStep
  <1>3. BlobInv' /\ FetchInv' /\ ArchiveInv'
    BY <1>0, <1>1, <1>2 DEF BlobInv, FetchInv, ArchiveInv
  <1>4. RecordInv'
    BY <1>0, <1>1, <1>2 DEF RecordInv
  <1> QED
    BY <1>2, <1>3, <1>4 DEF Inv

LEMMA NextInv == Inv /\ [Next]_vars => Inv'
  <1>1. ASSUME Inv, Next
        PROVE  Inv'
    BY <1>1, OutsideStep, DownloadStep, TakeHourStep, PollStep, StoreStep, IngestStep, JournalStep
       DEF Next
  <1>2. ASSUME Inv, UNCHANGED vars
        PROVE  Inv'
    BY <1>2 DEF vars, fetching, store, Inv, TypeInv, FetchInv, BlobInv, ArchiveInv, RecordInv,
                GoodBlob, GoodHour, NotServedBefore, Addressed, Evident
  <1> QED
    BY <1>1, <1>2

-----------------------------------------------------------------------------
(* Whatever crashes, retries, late batches, edits of the calendar and       *)
(* imports a run has: every live record names an archived blob, and parsing *)
(* those bytes again yields it (hub/rawstore.py's promise of evidence).     *)
THEOREM RecordsHaveEvidence == Spec => []EvidenceIsArchived
  <1>1. Inv => EvidenceIsArchived
    <2> SUFFICES ASSUME Inv, NEW r \in journal, r.availability = "observed"
                 PROVE  /\ Has(archive, r.raw_ref)
                        /\ LET blob == Get(archive, r.raw_ref)
                           IN IF r.ds = "gdelt" THEN CandidateOf(r) \in Parse(blob)
                              ELSE \E t \in Begin..clock :
                                     CandidateOf(r) \in Parse([blob EXCEPT !.fetched_at = t])
      BY DEF EvidenceIsArchived, CandidateOf
    <2> DEFINE blob == Get(archive, r.raw_ref)
    <2>1. Evident(r)
      BY DEF Inv, RecordInv
    <2>2. Addressed(r.raw_ref, blob)
      BY <2>1 DEF Inv, ArchiveInv, Evident, Get
    <2> HIDE DEF blob
    <2>3. blob.content_type = r.ds /\ blob.body = r.raw_ref[2]
      BY <2>1, <2>2 DEF Evident, Addressed
    <2>4. CASE r.ds = "gdelt"
      <3>1. CandidateOf(r) \in Parse(blob)
        BY <2>1, <2>3, <2>4 DEF Evident, Parse
      <3> QED
        BY <2>1, <2>4, <3>1 DEF Has, Evident, blob
    <2>5. CASE r.ds # "gdelt"
      <3>1. PICK t \in Begin..clock : CandidateOf(r) \in ParseSchedule(Events[blob.body], t, Scope)
        BY <2>1, <2>3, <2>5 DEF Evident
      <3>2. /\ [blob EXCEPT !.fetched_at = t].content_type = blob.content_type
            /\ [blob EXCEPT !.fetched_at = t].body = blob.body
            /\ [blob EXCEPT !.fetched_at = t].fetched_at = t
        BY <2>2 DEF Addressed, RawBlob
      <3>3. CandidateOf(r) \in Parse([blob EXCEPT !.fetched_at = t])
        BY <2>3, <2>5, <3>1, <3>2 DEF Parse
      <3> QED
        BY <2>1, <2>5, <3>3 DEF Has, Evident, blob
    <2> QED
      BY <2>4, <2>5
  <1> QED
    BY <1>1, InitInv, NextInv, PTL DEF Spec

(* A live record never counts as missing a batch that GDELT served in time. *)
THEOREM GapsAreFinal == Spec => []GapIsFinal
  <1>1. Inv => GapIsFinal
    <2> SUFFICES ASSUME Inv, NEW r \in journal, r.ds = "gdelt", r.availability = "observed",
                        NEW s \in BatchStamps(r.effective_at), ~Get(archive, r.raw_ref).body.header[s]
                 PROVE  NotServedBefore(s, r.effective_at + GapFinal - MaxFetch)
      BY DEF GapIsFinal, LiveHours, NotServedBefore
    <2>1. Evident(r)
      BY DEF Inv, RecordInv
    <2>2. Addressed(r.raw_ref, Get(archive, r.raw_ref))
      BY <2>1 DEF Inv, ArchiveInv, Evident, Get
    <2>3. /\ Get(archive, r.raw_ref).body = r.raw_ref[2]
          /\ r.effective_at = r.raw_ref[2].hour_end /\ GoodHour(r.raw_ref[2])
      BY <2>1, <2>2 DEF Evident, Addressed
    <2> QED
      BY <2>3 DEF GoodHour
  <1> QED
    BY <1>1, InitInv, NextInv, PTL DEF Spec

-----------------------------------------------------------------------------
(* Lists of batches: what compact keeps and expand returns.                 *)

(* An hour's stamps are the ends of its batches. *)
LEMMA StampFacts ==
    ASSUME NEW h \in Int
    PROVE  /\ HOUR \in Nat /\ HOUR >= 1
           /\ \A s \in BatchStamps(h) : s \in Int /\ h - HOUR <= s /\ s <= h
           /\ BatchStamps(h) \in SUBSET Int /\ IsFiniteSet(BatchStamps(h))
  <1>1. HOUR \in Nat /\ HOUR >= 1
    <2>1. PerHour * Batch >= 1 * Batch
      BY ConstantTypes, Products
    <2> QED
      BY <2>1, ConstantTypes, Products DEF HOUR
  <1>2. ASSUME NEW i \in 1..PerHour
        PROVE  Batch * i \in Int /\ 0 <= Batch * i /\ Batch * i <= HOUR
    <2>1. i * Batch <= PerHour * Batch /\ i * Batch \in Nat
      BY ConstantTypes, Products
    <2>2. Batch * i = i * Batch
      BY ConstantTypes
    <2> QED
      BY <2>1, <2>2, <1>1 DEF HOUR
  <1> HIDE DEF HOUR
  <1>3. \A s \in BatchStamps(h) : s \in Int /\ h - HOUR <= s /\ s <= h
    BY <1>1, <1>2 DEF BatchStamps
  <1>4. BatchStamps(h) \in SUBSET ((h - HOUR)..h)
    BY <1>1, <1>3
  <1>5. IsFiniteSet((h - HOUR)..h)
    BY <1>1, FS_Interval
  <1> QED
    BY <1>1, <1>3, <1>4, <1>5, FS_Subset

(* A map from stamps to lists, or to None where there is no batch. *)
BatchMap(b, X) ==
    /\ DOMAIN b \in SUBSET Int /\ IsFiniteSet(DOMAIN b) /\ b = [s \in DOMAIN b |-> b[s]]
    /\ None \notin Seq(X) /\ \A s \in DOMAIN b : b[s] = None \/ b[s] \in Seq(X)

LEMMA PresentFacts ==
    ASSUME NEW X, NEW b, BatchMap(b, X)
    PROVE  /\ Present(b) \in SUBSET Int /\ IsFiniteSet(Present(b)) /\ Present(b) \in SUBSET (DOMAIN b)
           /\ \A s \in Present(b) : b[s] \in Seq(X)
           /\ Cardinality(Present(b)) \in Nat
           /\ InOrder(Present(b)) \in [1..Cardinality(Present(b)) -> Present(b)]
           /\ \A i, j \in 1..Cardinality(Present(b)) :
                InOrder(Present(b))[i] = InOrder(Present(b))[j] => i = j
           /\ \A s \in Present(b) : \E i \in 1..Cardinality(Present(b)) : InOrder(Present(b))[i] = s
  <1>1. /\ Present(b) \in SUBSET Int /\ Present(b) \in SUBSET (DOMAIN b)
        /\ \A s \in Present(b) : b[s] \in Seq(X)
    BY DEF Present, BatchMap
  <1>2. IsFiniteSet(Present(b))
    BY <1>1, FS_Subset DEF BatchMap
  <1> DEFINE n == Cardinality(Present(b))
             f == InOrder(Present(b))
  <1>3. /\ n \in Nat /\ f \in [1..n -> Present(b)]
        /\ \A i, j \in 1..n : i < j => f[i] < f[j]
        /\ \A s \in Present(b) : \E i \in 1..n : f[i] = s
    BY <1>1, <1>2, InOrderFacts
  <1> HIDE DEF n, f
  <1>4. ASSUME NEW i \in 1..n, NEW j \in 1..n, f[i] = f[j]
        PROVE  i = j
    <2>1. f[i] \in Int /\ f[j] \in Int
      BY <1>1, <1>3
    <2>2. ~(i < j) /\ ~(j < i)
      BY <1>3, <1>4, <2>1
    <2> QED
      BY <1>3, <2>2
  <1> QED
    BY <1>1, <1>2, <1>3, <1>4 DEF n, f

(* expand is the inverse of compact (hub/collectors/gdelt.py:221-222): the  *)
(* blob that is archived gives back every batch of the hour, the missing    *)
(* ones, the empty ones and the order of the events included.               *)
THEOREM ExpandInvertsCompact ==
    ASSUME NEW h, NEW X, NEW b, BatchMap(b, X)
    PROVE  Expand(Compact(h, b)) = b
  <1> DEFINE P == Present(b)
             n == Cardinality(P)
             f == InOrder(P)
             tag(s) == [i \in DOMAIN b[s] |-> <<s, b[s][i]>>]
             q == [k \in 1..n |-> tag(f[k])]
             L == FlattenSeq(q)
             body == Compact(h, b)
             at(s) == {i \in DOMAIN L : L[i][1] = s}
             mine(s) == Picked(L, at(s))
  <1>1. /\ P \in SUBSET (DOMAIN b) /\ n \in Nat /\ f \in [1..n -> P]
        /\ \A s \in P : b[s] \in Seq(X)
        /\ \A i, j \in 1..n : f[i] = f[j] => i = j
        /\ \A s \in P : \E i \in 1..n : f[i] = s
    BY PresentFacts
  <1>2. /\ body.header = [s \in DOMAIN b |-> b[s] # None] /\ body.lines = L
    BY DEF Compact
  <1>3. Expand(body) = [s \in DOMAIN b |-> IF ~body.header[s] THEN None
                                          ELSE [i \in DOMAIN mine(s) |-> mine(s)[i][2]]]
    BY <1>2 DEF Expand
  <1>4. \A s \in DOMAIN b : body.header[s] <=> s \in P
    BY <1>2 DEF Present
  <1> DEFINE T == (DOMAIN b) \X X
  <1>5. ASSUME NEW s \in P
        PROVE  /\ Len(b[s]) \in Nat /\ DOMAIN b[s] = 1..Len(b[s])
               /\ tag(s) \in Seq(T) /\ Len(tag(s)) = Len(b[s])
               /\ \A i \in 1..Len(b[s]) : tag(s)[i] = <<s, b[s][i]>>
    <2>1. PICK c : c = b[s]
      OBVIOUS
    <2>2. c \in Seq(X) /\ s \in DOMAIN b
      BY <1>1, <2>1
    <2>3. DOMAIN c = 1..Len(c) /\ Len(c) \in Nat /\ \A i \in 1..Len(c) : c[i] \in X
      BY <2>2
    <2> DEFINE g == [i \in 1..Len(c) |-> <<s, c[i]>>]
    <2>4. \A i \in 1..Len(c) : <<s, c[i]>> \in T
      BY <2>2, <2>3
    <2> HIDE DEF T
    <2>5. g \in Seq(T) /\ Len(g) = Len(c) /\ \A i \in 1..Len(c) : g[i] = <<s, c[i]>>
      BY <2>3, <2>4
    <2>6. tag(s) = g
      BY <2>1, <2>3
    <2> HIDE DEF g, tag
    <2> QED
      BY <2>1, <2>3, <2>5, <2>6
  <1>6. q \in [1..n -> Seq(T)] /\ \A k \in 1..n : f[k] \in P /\ q[k] = tag(f[k])
    <2> HIDE DEF tag, T, n, f, P
    <2> QED
      BY <1>1, <1>5
  <1> HIDE DEF q, tag, T, n, f, P
  <1>7. L \in Seq(T)
    BY <1>1, <1>6, FlattenFacts
  <1>8. PICK off \in [0..n -> Nat] :
           /\ off[0] = 0 /\ off[n] = Len(L)
           /\ \A k \in 1..n : off[k] = off[k - 1] + Len(q[k])
           /\ \A k \in 1..n : \A i \in 1..Len(q[k]) :
                off[k - 1] + i \in 1..off[n] /\ L[off[k - 1] + i] = q[k][i]
           /\ \A j \in 1..off[n] : \E k \in 1..n : \E i \in 1..Len(q[k]) : j = off[k - 1] + i
    <2>1. PICK off : Offsets(off, q, n)
      BY <1>1, <1>6, FlattenFacts
    <2> QED
      BY <2>1, Zenon DEF Offsets
  <1>9. DOMAIN L = 1..off[n]
    <2>1. DOMAIN L = 1..Len(L)
      BY <1>7, LenProperties
    <2> QED
      BY <1>8, <2>1, Zenon
  <1> HIDE DEF L
  <1>10. ASSUME NEW s \in P
         PROVE  [i \in DOMAIN mine(s) |-> mine(s)[i][2]] = b[s]
    <2>1. PICK k \in 1..n : f[k] = s
      BY <1>1
    <2>2. PICK a, m : a = off[k - 1] /\ m = Len(b[s])
      OBVIOUS
    <2>3. m \in Nat /\ Len(q[k]) = m /\ a \in Nat /\ b[s] \in Seq(X)
      <3>1. k - 1 \in 0..n
        BY <1>1
      <3>2. q[k] = tag(s) /\ a \in Nat
        BY <1>6, <2>1, <2>2, <3>1
      <3> QED
        BY <1>1, <1>5, <2>2, <3>2, Zenon
    <2>4. \A i \in 1..m : /\ a + i \in DOMAIN L
                          /\ L[a + i] = <<s, b[s][i]>>
      <3> SUFFICES ASSUME NEW i \in 1..m
                   PROVE  a + i \in DOMAIN L /\ L[a + i] = <<s, b[s][i]>>
        OBVIOUS
      <3>1. i \in 1..Len(q[k]) /\ i \in 1..Len(b[s])
        BY <2>2, <2>3, Zenon
      <3>2. a + i \in 1..off[n] /\ L[a + i] = q[k][i]
        BY <1>8, <2>2, <3>1, Zenon
      <3>3. q[k] = tag(s)
        BY <1>6, <2>1, Zenon
      <3>4. tag(s)[i] = <<s, b[s][i]>>
        BY <1>5, <3>1, Zenon
      <3> QED
        BY <1>9, <3>2, <3>3, <3>4, Zenon
    <2>5. at(s) = (a + 1)..(a + m)
      <3>1. ASSUME NEW j \in at(s)
            PROVE  j \in (a + 1)..(a + m)
        <4>1. j \in 1..off[n] /\ L[j][1] = s
          BY <1>9, <3>1
        <4>2. PICK kk \in 1..n : \E i \in 1..Len(q[kk]) : j = off[kk - 1] + i
          BY <1>8, <4>1
        <4>3. PICK i \in 1..Len(q[kk]) : j = off[kk - 1] + i
          BY <4>2
        <4>4. L[j] = q[kk][i]
          BY <1>8, <4>3, Zenon
        <4>5. f[kk] \in P /\ q[kk] = tag(f[kk])
          BY <1>6
        <4>6. q[kk][i] = <<f[kk], b[f[kk]][i]>>
          BY <1>5, <4>3, <4>5, Zenon
        <4>7. f[kk] = s
          BY <4>1, <4>4, <4>6
        <4>8. kk = k
          BY <1>1, <2>1, <4>7, Zenon
        <4>9. i \in 1..m /\ j = a + i
          BY <2>2, <2>3, <4>3, <4>8, Zenon
        <4> QED
          BY <2>3, <4>9
      <3>2. ASSUME NEW j \in (a + 1)..(a + m)
            PROVE  j \in at(s)
        <4>1. j - a \in 1..m /\ a + (j - a) = j
          BY <2>3
        <4>2. j \in DOMAIN L /\ L[j] = <<s, b[s][j - a]>>
          BY <2>4, <4>1, Zenon
        <4> QED
          BY <4>2
      <3> QED
        BY <3>1, <3>2
    <2> HIDE DEF at
    <2>6. /\ Cardinality(at(s)) = m
          /\ InOrder(at(s)) = [i \in 1..m |-> a + i]
      BY <2>3, <2>5, InOrderOfInterval
    <2>7. mine(s) = [i \in 1..m |-> L[InOrder(at(s))[i]]]
      BY <2>6 DEF Picked
    <2>8. mine(s) = [i \in 1..m |-> <<s, b[s][i]>>]
      <3>1. \A i \in 1..m : L[InOrder(at(s))[i]] = <<s, b[s][i]>>
        BY <2>4, <2>6
      <3> QED
        BY <2>7, <3>1, Zenon
    <2> HIDE DEF mine
    <2>9. [i \in DOMAIN mine(s) |-> mine(s)[i][2]] = [i \in 1..m |-> b[s][i]]
      BY <2>8
    <2>10. b[s] = [i \in 1..m |-> b[s][i]]
      <3>1. PICK c : c = b[s]
        OBVIOUS
      <3>2. c \in Seq(X) /\ m = Len(c)
        BY <2>2, <2>3, <3>1
      <3>3. c = [i \in 1..m |-> c[i]]
        BY <3>2
      <3> QED
        BY <3>1, <3>3
    <2> QED
      BY <2>9, <2>10
  <1>11. b = [s \in DOMAIN b |-> b[s]] /\ \A s \in DOMAIN b : s \notin P => b[s] = None
    BY DEF BatchMap, P, Present
  <1> HIDE DEF mine, body
  <1>12. Expand(body) = b
    <2>1. \A s \in DOMAIN b : (IF ~body.header[s] THEN None
                               ELSE [i \in DOMAIN mine(s) |-> mine(s)[i][2]]) = b[s]
      BY <1>4, <1>10, <1>11, Zenon
    <2> QED
      BY <1>3, <1>11, <2>1, Zenon
  <1> QED
    BY <1>12 DEF body

-----------------------------------------------------------------------------
(* Hours read from more batches and from fewer.                             *)

(* The batches of an hour when those of P are there. *)
BatchesOf(h, P) == [s \in BatchStamps(h) |-> IF s \in P THEN ParseExport(Export[s]) ELSE None]

(* A batch of P has an event of region r. *)
Covers(r, P) ==
    \E s \in P : \E i \in DOMAIN ParseExport(Export[s]) : InRegion(ParseExport(Export[s])[i], Regions[r])

LEMMA BatchesOfFacts ==
    ASSUME NEW h \in Int, NEW P \in SUBSET (BatchStamps(h) \cap DOMAIN Export)
    PROVE  /\ BatchMap(BatchesOf(h, P), Lines) /\ Present(BatchesOf(h, P)) = P
           /\ IsFiniteSet(P) /\ Cardinality(P) \in Nat
           /\ \A s \in P : BatchesOf(h, P)[s] = ParseExport(Export[s])
  <1> DEFINE b == BatchesOf(h, P)
  <1>1. /\ DOMAIN b = BatchStamps(h) /\ b = [s \in BatchStamps(h) |-> b[s]]
        /\ \A s \in BatchStamps(h) : b[s] = IF s \in P THEN ParseExport(Export[s]) ELSE None
    BY DEF BatchesOf
  <1> HIDE DEF b
  <1>2. BatchStamps(h) \in SUBSET Int /\ IsFiniteSet(BatchStamps(h)) /\ P \in SUBSET BatchStamps(h)
    BY StampFacts
  <1>3. None \notin Seq(Lines)
    BY CollectorsAssumption
  <1>4. \A s \in P : ParseExport(Export[s]) \in Seq(Lines) /\ ParseExport(Export[s]) # None
    BY ConstantTypes
  <1>5. IsFiniteSet(P)
    BY <1>2, FS_Subset
  <1>6. Cardinality(P) \in Nat
    BY <1>5, FS_CardinalityType
  <1>7. BatchMap(b, Lines)
    BY <1>1, <1>2, <1>3, <1>4 DEF BatchMap
  <1>8. Present(b) = P
    BY <1>1, <1>2, <1>4 DEF Present
  <1> QED
    BY <1>1, <1>2, <1>5, <1>6, <1>7, <1>8 DEF b

(* hour_candidates: one record for each region an event of the hour is in,  *)
(* each with the number of batches; parsing the archived blob gives them.   *)
LEMMA HourFacts ==
    ASSUME NEW h \in Int, NEW P \in SUBSET (BatchStamps(h) \cap DOMAIN Export)
    PROVE  /\ \A c \in HourCandidates(h, BatchesOf(h, P)) :
                /\ c.scope \in DOMAIN Regions /\ Covers(c.scope, P)
                /\ c.effective_at = h /\ c.fields.batches = Cardinality(P)
           /\ \A r \in DOMAIN Regions : Covers(r, P) =>
                \E c \in HourCandidates(h, BatchesOf(h, P)) : c.scope = r
           /\ \A c, d \in HourCandidates(h, BatchesOf(h, P)) : c.scope = d.scope => c = d
           /\ ParseHour(Compact(h, BatchesOf(h, P))) = HourCandidates(h, BatchesOf(h, P))
  <1> DEFINE b == BatchesOf(h, P)
             n == Cardinality(P)
             f == InOrder(P)
             q == [k \in 1..n |-> b[f[k]]]
             events == FlattenSeq(q)
             C(r) == Counted(events, Regions[r])
             cand(r) == [scope |-> r, effective_at |-> h, fields |-> HourFields(n, events, C(r))]
  <1>1. BatchMap(b, Lines) /\ Present(b) = P /\ \A s \in P : b[s] = ParseExport(Export[s])
    BY BatchesOfFacts
  <1> HIDE DEF b
  <1>2. HourCandidates(h, b) = {cand(r) : r \in {x \in DOMAIN Regions : C(x) # {}}}
    BY <1>1 DEF HourCandidates
  <1>3. /\ n \in Nat /\ f \in [1..n -> P] /\ (\A s \in P : b[s] \in Seq(Lines))
        /\ \A s \in P : \E i \in 1..n : f[i] = s
    BY <1>1, PresentFacts
  <1> HIDE DEF n, f
  <1>4. q \in [1..n -> Seq(Lines)] /\ \A k \in 1..n : f[k] \in P /\ q[k] = b[f[k]]
    BY <1>3
  <1> HIDE DEF q
  <1>5. events \in Seq(Lines) /\ \E off : Offsets(off, q, n)
    BY <1>3, <1>4, FlattenFacts
  <1>6. PICK off : Offsets(off, q, n)
    BY <1>5
  <1>7. DOMAIN events = 1..off[n] /\ off[n] \in Nat
    <2>1. DOMAIN events = 1..Len(events) /\ Len(events) \in Nat
      BY <1>5, LenProperties
    <2> QED
      BY <1>6, <2>1, Zenon DEF Offsets
  <1>8. /\ \A k \in 1..n : \A i \in 1..Len(q[k]) :
             off[k - 1] + i \in DOMAIN events /\ events[off[k - 1] + i] = q[k][i]
        /\ \A j \in DOMAIN events : \E k \in 1..n : \E i \in 1..Len(q[k]) : j = off[k - 1] + i
    BY <1>6, <1>7, Zenon DEF Offsets
  <1>9. \A s \in P : DOMAIN ParseExport(Export[s]) = 1..Len(ParseExport(Export[s]))
    <2> SUFFICES ASSUME NEW s \in P
                 PROVE  DOMAIN ParseExport(Export[s]) = 1..Len(ParseExport(Export[s]))
      OBVIOUS
    <2>1. ParseExport(Export[s]) \in Seq(Lines)
      BY ConstantTypes
    <2> QED
      BY <2>1, LenProperties, Zenon
  <1> HIDE DEF events
  <1>10. ASSUME NEW r
         PROVE  C(r) # {} <=> Covers(r, P)
    <2> DEFINE M == {j \in DOMAIN events : InRegion(events[j], Regions[r])}
    <2>1. C(r) # {} => M # {}
      BY DEF Counted
    <2>2. M # {} => C(r) # {}
      <3>1. SUFFICES ASSUME M # {} PROVE C(r) # {}
        OBVIOUS
      <3>2. M \in SUBSET Nat
        BY <1>7
      <3>3. PICK j \in M : \A i \in M : j <= i
        <4> HIDE DEF M
        <4> QED
          BY <3>1, <3>2, Least
      <3>4. \A i \in 1..(j - 1) : i \notin M /\ i \in DOMAIN events
        BY <1>7, <3>2, <3>3
      <3>5. j \in C(r)
        BY <3>3, <3>4 DEF Counted
      <3> QED
        BY <3>5
    <2>3. M # {} => Covers(r, P)
      <3>1. SUFFICES ASSUME NEW j \in DOMAIN events, InRegion(events[j], Regions[r])
                     PROVE  Covers(r, P)
        OBVIOUS
      <3>2. PICK k \in 1..n : \E i \in 1..Len(q[k]) : j = off[k - 1] + i
        BY <1>8, Zenon
      <3>3. PICK i \in 1..Len(q[k]) : j = off[k - 1] + i
        BY <3>2
      <3>4. events[j] = q[k][i]
        BY <1>8, <3>3, Zenon
      <3>5. f[k] \in P /\ q[k] = ParseExport(Export[f[k]])
        BY <1>1, <1>4, Zenon
      <3>6. i \in DOMAIN ParseExport(Export[f[k]])
        BY <1>9, <3>5, Zenon
      <3>7. InRegion(ParseExport(Export[f[k]])[i], Regions[r])
        BY <3>1, <3>4, <3>5, Zenon
      <3> QED
        BY <3>5, <3>6, <3>7, Zenon DEF Covers
    <2>4. Covers(r, P) => M # {}
      <3>1. SUFFICES ASSUME NEW s \in P, NEW i \in DOMAIN ParseExport(Export[s]),
                            InRegion(ParseExport(Export[s])[i], Regions[r])
                     PROVE  M # {}
        BY Zenon DEF Covers
      <3>2. PICK k \in 1..n : f[k] = s
        BY <1>3
      <3>3. q[k] = ParseExport(Export[s])
        BY <1>1, <1>4, <3>2, Zenon
      <3>4. i \in 1..Len(q[k])
        BY <1>9, <3>3, Zenon
      <3>5. off[k - 1] + i \in DOMAIN events /\ events[off[k - 1] + i] = ParseExport(Export[s])[i]
        BY <1>8, <3>3, <3>4, Zenon
      <3>6. InRegion(events[off[k - 1] + i], Regions[r])
        BY <3>1, <3>5, Zenon
      <3> QED
        BY <3>5, <3>6, Zenon
    <2> QED
      BY <2>1, <2>2, <2>3, <2>4
  <1>11. \A r : /\ cand(r).scope = r /\ cand(r).effective_at = h /\ cand(r).fields.batches = n
    BY DEF HourFields
  <1> HIDE DEF cand, C
  <1>12. \A c \in HourCandidates(h, b) :
           /\ c.scope \in DOMAIN Regions /\ Covers(c.scope, P)
           /\ c.effective_at = h /\ c.fields.batches = n
    BY <1>2, <1>10, <1>11, Zenon
  <1>13. \A r \in DOMAIN Regions : Covers(r, P) => \E c \in HourCandidates(h, b) : c.scope = r
    BY <1>2, <1>10, <1>11, Zenon
  <1>14. ASSUME NEW c \in HourCandidates(h, b), NEW d \in HourCandidates(h, b), c.scope = d.scope
         PROVE  c = d
    <2>1. PICK r : c = cand(r)
      BY <1>2, Zenon
    <2>2. PICK x : d = cand(x)
      BY <1>2, Zenon
    <2>3. c.scope = r /\ d.scope = x
      BY <1>11, <2>1, <2>2
    <2> QED
      BY <1>14, <2>1, <2>2, <2>3
  <1>15. ParseHour(Compact(h, b)) = HourCandidates(h, b)
    <2>1. Expand(Compact(h, b)) = b
      BY <1>1, ExpandInvertsCompact
    <2>2. Compact(h, b).hour_end = h
      BY DEF Compact
    <2> QED
      BY <2>1, <2>2 DEF ParseHour
  <1> QED
    BY <1>12, <1>13, <1>14, <1>15 DEF b, n

-----------------------------------------------------------------------------
(* KnowledgeGrows: the world, the hours it holds and what they may count.   *)

(* The ends of hours are a multiple of an hour apart. *)
IsHour(h) == \E i \in Int : h = HOUR * i

LEMMA HourType == HOUR \in Nat /\ HOUR >= 1
  <1>1. 0 \in Int
    OBVIOUS
  <1> QED
    BY <1>1, StampFacts

LEMMA HoursApart ==
    ASSUME NEW a, NEW b, IsHour(a), IsHour(b)
    PROVE  a \in Int /\ b \in Int /\ (a < b => a + HOUR <= b)
  <1>1. PICK n \in Nat : n = HOUR /\ n >= 1
    BY HourType
  <1>2. PICK i \in Int : a = n * i
    BY <1>1 DEF IsHour
  <1>3. PICK j \in Int : b = n * j
    BY <1>1 DEF IsHour
  <1>4. a \in Int /\ b \in Int
    BY <1>2, <1>3
  <1>5. ASSUME a < b PROVE a + n <= b
    <2>1. i < j
      <3>1. CASE i >= j
        <4>1. PICK d \in Nat : i = j + d
          <5>1. i - j \in Nat /\ i = j + (i - j)
            BY <3>1
          <5> QED
            BY <5>1
        <4>2. n * i = n * j + n * d /\ n * d >= 0 /\ n * d \in Int /\ n * j \in Int
          BY <4>1
        <4> QED
          BY <1>2, <1>3, <1>5, <4>2
      <3> QED
        BY <3>1
    <2>2. PICK d \in Nat : j = i + 1 + d
      <3>1. j - i - 1 \in Nat /\ j = i + 1 + (j - i - 1)
        BY <2>1
      <3> QED
        BY <3>1
    <2>3. n * j = n * i + n + n * d /\ n * d >= 0 /\ n * d \in Int /\ n * i \in Int
      BY <2>2
    <2> QED
      BY <1>2, <1>3, <2>3
  <1> QED
    BY <1>1, <1>4, <1>5

(* latest_hour_end: the last hour that has been over for PUBLISH_LAG_MS. *)
LEMMA LatestHourFacts ==
    ASSUME NEW t \in Nat
    PROVE  /\ LatestHourEnd(t) \in Int /\ IsHour(LatestHourEnd(t))
           /\ LatestHourEnd(t) + PublishLag <= t /\ t < LatestHourEnd(t) + HOUR + PublishLag
  <1>1. PICK n \in Nat : n = HOUR /\ n >= 1
    BY HourType
  <1>2. PICK a \in Int : a = t - PublishLag
    BY ConstantTypes
  <1>3. PICK d \in Int : d = a \div n
    BY <1>1
  <1>4. n * d <= a /\ a < n * d + n /\ n * d = d * n /\ n * d \in Int
    BY <1>1, <1>3
  <1>5. LatestHourEnd(t) = n * d
    BY <1>1, <1>2, <1>3, <1>4 DEF LatestHourEnd
  <1>6. IsHour(n * d)
    BY <1>1 DEF IsHour
  <1>7. PublishLag \in Nat
    BY ConstantTypes
  <1>8. PICK m : m = n * d
    OBVIOUS
  <1>9. m \in Int /\ m + PublishLag <= t /\ t < m + n + PublishLag
    BY <1>2, <1>4, <1>7, <1>8
  <1> QED
    BY <1>1, <1>5, <1>6, <1>8, <1>9

(* Every step is one of the world's. *)
LEMMA StepOfWorld ==
    ASSUME TypeInv, Next
    PROVE  WorldStep
  <1>1. clock \in Begin..MaxClock /\ clock \in Nat /\ Begin \in Nat /\ MaxClock \in Nat
    BY ConstantTypes DEF TypeInv
  <1>2. CASE Tick
    BY <1>1, <1>2 DEF Tick, WorldStep
  <1>3. ASSUME NEW s \in Late, Serve(s)
        PROVE  WorldStep
    <2>1. UNCHANGED clock /\ servedAt[s] = None /\ servedAt' = [servedAt EXCEPT ![s] = clock]
      BY <1>3 DEF Serve
    <2>2. clock' \in Begin..MaxClock /\ clock <= clock'
      BY <1>1, <2>1
    <2> QED
      BY <2>1, <2>2, Zenon DEF WorldStep
  <1>4. CASE UNCHANGED <<clock, servedAt>>
    BY <1>1, <1>4 DEF WorldStep
  <1>5. CASE Start \/ Crash \/ Pass \/ PollKept \/ PollHour \/ Download \/ Outage \/ GiveUpForNow
             \/ TakeHour \/ PollCalendar \/ Unreadable
    BY <1>4, <1>5 DEF Start, Crash, Pass, PollKept, PollHour, Download, Outage, GiveUpForNow,
                      TakeHour, PollCalendar, Unreadable
  <1>6. CASE StoreBody \/ StoreMeta \/ IngestBlob \/ ParseFails \/ (\E r \in todo : Append1(r))
             \/ BackfillMonth \/ ImportHours \/ ImportCalendar
             \/ \E version \in DOMAIN Calendars : Edit(version)
    BY <1>4, <1>6 DEF StoreBody, StoreMeta, IngestBlob, ParseFails, Append1, BackfillMonth,
                      ImportHours, ImportCalendar, Import, Edit
  <1> QED
    BY <1>2, <1>3, <1>5, <1>6 DEF Next

-----------------------------------------------------------------------------
(* What an hour's records may count on: its batches that are served by now. *)
Had(h) == {s \in BatchStamps(h) \cap DOMAIN Export : Served(s)}

HourRecords(R) == {r \in R : r.ds = "gdelt"}
SameKey(r, q) == r.scope = q.scope /\ r.effective_at = q.effective_at

(* No record of hour h, appended or about to be, counts more than n batches. *)
AtMost(h, n, R) == \A r \in HourRecords(R) : r.effective_at = h => r.fields.batches <= n

ServedInv == \A s \in Late \cap Int : servedAt[s] # None => s <= clock

(* A record counts batches that were served, and is known in time. *)
CountInv == \A r \in HourRecords(journal \cup todo) :
    /\ r.effective_at \in Int /\ r.revision \in Nat /\ r.known_at \in Int /\ r.fields.batches \in Nat
    /\ r.fields.batches <= Cardinality(Had(r.effective_at))
    /\ r.known_at <= clock /\ r.known_at <= r.effective_at + KnownLag

(* The hour in memory has at least the batches of every record of it. *)
HourBlob(blob) ==
    /\ blob.content_type = "gdelt" /\ blob.request \in Int
    /\ \E P \in SUBSET Had(blob.request) :
         /\ blob.body = Compact(blob.request, BatchesOf(blob.request, P))
         /\ AtMost(blob.request, Cardinality(P), journal \cup todo)
HourInHand == pc \in {"body", "meta", "ingest"} /\ job.content_type = "gdelt"
MemoryInv == (last # None \/ HourInHand) => pc \notin {"down", "import"} /\ HourBlob(last)

(* Records are only worked on from the hour in memory, which is recent. *)
Recent(h) == clock < h + HOUR + PublishLag + MaxFetch
WorkInv ==
    /\ pc \notin {"append", "import"} => todo = {}
    /\ HourInHand => job = last /\ Recent(job.request)
    /\ pc = "append" => \A r \in HourRecords(todo) : Recent(r.effective_at)

(* A fetch under way will find at least the batches of every record so far. *)
Within == {s \in BatchStamps(hour) : IF s \in DOMAIN batches THEN batches[s] # None ELSE Served(s)}
FloorInv ==
    pc = "fetch" =>
        /\ batches = [s \in DOMAIN batches |-> batches[s]]
        /\ \A s \in DOMAIN batches :
             batches[s] # None => batches[s] = ParseExport(Export[s]) /\ Served(s)
        /\ AtMost(hour, Cardinality(Within), journal)

(* The rows of a backfill know what every record of their hour knows. *)
RowInv ==
    /\ \A x \in out.rows :
         /\ x.effective_at \in Int /\ x.fields.batches \in Nat
         /\ x.known_at = x.effective_at + KnownLag /\ x.known_at <= clock
         /\ x.fields.batches <= Cardinality(Had(x.effective_at))
         /\ AtMost(x.effective_at, x.fields.batches, journal \cup todo)
    /\ \A x, y \in out.rows : x.effective_at = y.effective_at =>
         x.fields.batches = y.fields.batches /\ (x.scope = y.scope => x = y)

(* What is about to be appended is the next revision of its key, once. *)
NextRevisionInv ==
    /\ \A r, q \in HourRecords(todo) : SameKey(r, q) => r = q
    /\ \A r \in HourRecords(journal), q \in HourRecords(todo) : SameKey(r, q) =>
         /\ r.revision < q.revision /\ r.known_at <= q.known_at
         /\ r.fields.batches <= q.fields.batches

(* Every key has a last revision. *)
LastRevisionInv == \A r \in HourRecords(journal) :
    \E t \in HourRecords(journal) :
        SameKey(t, r) /\ \A q \in HourRecords(journal) : SameKey(q, r) => q.revision <= t.revision

KnowInv ==
    /\ ServedInv /\ CountInv /\ MemoryInv /\ WorkInv /\ FloorInv /\ RowInv
    /\ NextRevisionInv /\ LastRevisionInv /\ KnowledgeGrows

LEMMA InitKnow == Init => KnowInv
  <1> SUFFICES ASSUME Init PROVE KnowInv
    OBVIOUS
  <1>1. /\ servedAt = [s \in Late |-> None] /\ pc = "idle" /\ last = None /\ todo = {} /\ journal = {}
        /\ out.rows = {}
    BY DEF Init, NoOut
  <1> QED
    BY <1>1 DEF KnowInv, ServedInv, CountInv, MemoryInv, HourInHand, WorkInv, FloorInv, RowInv, NextRevisionInv,
                LastRevisionInv, KnowledgeGrows, HourRecords

(* What is served stays served. *)
LEMMA HadGrows ==
    ASSUME TypeInv, WorldStep
    PROVE  /\ \A s \in Int : Served(s) => Served(s)'
           /\ \A h \in Int : /\ Had(h) \in SUBSET Had(h)' /\ IsFiniteSet(Had(h)) /\ IsFiniteSet(Had(h)')
                             /\ Cardinality(Had(h)) <= Cardinality(Had(h)')
                             /\ Cardinality(Had(h)) \in Nat /\ Cardinality(Had(h)') \in Nat
  <1>1. clock \in Int /\ clock' \in Int /\ clock <= clock' /\ clock \in Nat
    BY ConstantTypes DEF TypeInv, WorldStep
  <1>2. ASSUME NEW s \in Int, Served(s)
        PROVE  Served(s)'
    <2>1. CASE s \notin Late
      BY <1>1, <1>2, <2>1 DEF Served
    <2>2. CASE s \in Late
      <3>1. servedAt[s] # None /\ servedAt \in [Late -> Nat \cup {None}]
        BY <1>2, <2>2 DEF Served, TypeInv
      <3>2. servedAt'[s] # None
        BY <1>1, <2>2, <3>1, ConstantTypes DEF WorldStep
      <3> QED
        BY <2>2, <3>2 DEF Served
    <2> QED
      BY <2>1, <2>2
  <1>3. ASSUME NEW h \in Int
        PROVE  /\ Had(h) \in SUBSET Had(h)' /\ IsFiniteSet(Had(h)) /\ IsFiniteSet(Had(h)')
               /\ Cardinality(Had(h)) <= Cardinality(Had(h)')
               /\ Cardinality(Had(h)) \in Nat /\ Cardinality(Had(h)') \in Nat
    <2>1. BatchStamps(h) \in SUBSET Int /\ IsFiniteSet(BatchStamps(h))
      BY StampFacts
    <2>2. /\ Had(h) \in SUBSET BatchStamps(h) /\ Had(h)' \in SUBSET BatchStamps(h)
          /\ Had(h) \in SUBSET Had(h)'
      BY <1>2, <2>1 DEF Had
    <2>3. IsFiniteSet(Had(h)) /\ IsFiniteSet(Had(h)')
      BY <2>1, <2>2, FS_Subset
    <2>4. Cardinality(Had(h)) <= Cardinality(Had(h)')
      BY <2>2, <2>3, FS_Subset
    <2> QED
      BY <2>2, <2>3, <2>4, FS_CardinalityType
  <1> QED
    BY <1>2, <1>3

(* A step that leaves alone what was recorded, what is in memory and the    *)
(* backfill's rows.                                                         *)
LEMMA KnowQuietStep ==
    ASSUME TypeInv, KnowInv, WorldStep, ServedInv', WorkInv', FloorInv',
           UNCHANGED <<journal, todo, out, last>>, pc \in {"down", "import"} \/ pc' \notin {"down", "import"},
           HourInHand' => HourInHand \/ last # None
    PROVE  KnowInv'
  <1>0. ServedInv /\ CountInv /\ MemoryInv /\ RowInv /\ NextRevisionInv /\ LastRevisionInv /\ KnowledgeGrows
    BY DEF KnowInv
  <1>1. clock \in Int /\ clock' \in Int /\ clock <= clock' /\ KnownLag \in Nat
    BY ConstantTypes, GdeltAssumption DEF TypeInv, WorldStep
  <1>2. \A h \in Int : /\ Had(h) \in SUBSET Had(h)'
                       /\ Cardinality(Had(h)) <= Cardinality(Had(h)')
                       /\ Cardinality(Had(h)) \in Nat /\ Cardinality(Had(h)') \in Nat
    BY HadGrows
  <1>3. CountInv'
    <2> SUFFICES ASSUME NEW r \in HourRecords(journal \cup todo)
                 PROVE  /\ r.effective_at \in Int /\ r.revision \in Nat /\ r.known_at \in Int
                        /\ r.fields.batches \in Nat
                        /\ r.fields.batches <= Cardinality(Had(r.effective_at)')
                        /\ r.known_at <= clock' /\ r.known_at <= r.effective_at + KnownLag
      BY DEF CountInv, HourRecords, Had, Served
    <2>1. /\ r.effective_at \in Int /\ r.revision \in Nat /\ r.known_at \in Int
          /\ r.fields.batches \in Nat
          /\ r.fields.batches <= Cardinality(Had(r.effective_at))
          /\ r.known_at <= clock /\ r.known_at <= r.effective_at + KnownLag
      BY <1>0 DEF CountInv
    <2>2. r.fields.batches <= Cardinality(Had(r.effective_at)')
      BY <1>2, <2>1
    <2> QED
      BY <1>1, <2>1, <2>2
  <1>4. MemoryInv'
    <2> SUFFICES ASSUME last # None \/ HourInHand PROVE HourBlob(last)' /\ pc' \notin {"down", "import"}
      BY DEF MemoryInv
    <2>1. HourBlob(last) /\ pc \notin {"down", "import"}
      BY <1>0 DEF MemoryInv
    <2>2. PICK P \in SUBSET Had(last.request) :
             /\ last.body = Compact(last.request, BatchesOf(last.request, P))
             /\ AtMost(last.request, Cardinality(P), journal \cup todo)
      BY <2>1 DEF HourBlob
    <2>3. P \in SUBSET Had(last.request)'
      BY <1>2, <2>1 DEF HourBlob
    <2> QED
      BY <2>1, <2>2, <2>3 DEF HourBlob, AtMost, HourRecords, Had, Served
  <1>5. RowInv'
    <2>1. ASSUME NEW x \in out.rows
          PROVE  /\ x.effective_at \in Int /\ x.fields.batches \in Nat
                 /\ x.known_at = x.effective_at + KnownLag /\ x.known_at <= clock'
                 /\ x.fields.batches <= Cardinality(Had(x.effective_at)')
      <3>1. /\ x.effective_at \in Int /\ x.fields.batches \in Nat
            /\ x.known_at = x.effective_at + KnownLag /\ x.known_at <= clock
            /\ x.fields.batches <= Cardinality(Had(x.effective_at))
        BY <1>0 DEF RowInv
      <3> QED
        BY <1>1, <1>2, <3>1
    <2> QED
      BY <1>0, <2>1 DEF RowInv, AtMost, HourRecords, Had, Served
  <1>6. NextRevisionInv' /\ LastRevisionInv' /\ KnowledgeGrows'
    BY <1>0 DEF NextRevisionInv, LastRevisionInv, KnowledgeGrows, HourRecords
  <1> QED
    BY <1>3, <1>4, <1>5, <1>6 DEF KnowInv

(* A batch is served no sooner than its stamp. *)
LEMMA ServedStep ==
    ASSUME TypeInv, ServedInv, Next
    PROVE  ServedInv'
  <1>1. clock \in Int /\ clock' \in Int /\ clock <= clock'
    BY StepOfWorld, ConstantTypes DEF TypeInv, WorldStep
  <1>2. CASE UNCHANGED servedAt
    BY <1>1, <1>2 DEF ServedInv
  <1>3. ASSUME NEW s \in Late, Serve(s)
        PROVE  ServedInv'
    <2>1. s <= clock /\ servedAt' = [servedAt EXCEPT ![s] = clock]
      BY <1>3 DEF Serve
    <2>2. ASSUME NEW x \in Late \cap Int, servedAt'[x] # None
          PROVE  x <= clock'
      <3>1. CASE x = s
        BY <1>1, <2>1, <3>1
      <3>2. CASE x # s
        <4>1. servedAt'[x] = servedAt[x]
          BY <2>1, <3>2 DEF TypeInv
        <4> QED
          BY <1>1, <2>2, <4>1 DEF ServedInv
      <3> QED
        BY <3>1, <3>2
    <2> QED
      BY <2>2 DEF ServedInv
  <1>4. CASE Start \/ Crash \/ Tick \/ Pass \/ PollKept \/ PollHour \/ Download \/ Outage \/ GiveUpForNow
             \/ TakeHour \/ PollCalendar \/ Unreadable
    BY <1>2, <1>4 DEF Start, Crash, Tick, Pass, PollKept, PollHour, Download, Outage, GiveUpForNow,
                      TakeHour, PollCalendar, Unreadable
  <1>5. CASE StoreBody \/ StoreMeta \/ IngestBlob \/ ParseFails \/ (\E r \in todo : Append1(r))
             \/ BackfillMonth \/ ImportHours \/ ImportCalendar
             \/ \E version \in DOMAIN Calendars : Edit(version)
    BY <1>2, <1>5 DEF StoreBody, StoreMeta, IngestBlob, ParseFails, Append1, BackfillMonth,
                      ImportHours, ImportCalendar, Import, Edit
  <1> QED
    BY <1>3, <1>4, <1>5 DEF Next

(* What is within a fetch's reach. *)
LEMMA WithinFacts ==
    ASSUME Inv, FloorInv, pc = "fetch"
    PROVE  /\ hour \in Int /\ BatchStamps(hour) \in SUBSET Int /\ BatchStamps(hour) \subseteq DOMAIN Export
           /\ Within \in SUBSET Had(hour) /\ Within \in SUBSET BatchStamps(hour)
           /\ IsFiniteSet(Within) /\ Cardinality(Within) \in Nat /\ clock \in Nat /\ Recent(hour)
  <1>1. TypeInv /\ FetchInv
    BY DEF Inv
  <1>2. clock \in Nat /\ hour \in Int /\ DOMAIN batches \subseteq BatchStamps(hour)
    BY <1>1, ConstantTypes DEF TypeInv, FetchInv
  <1>3. BatchStamps(hour) \in SUBSET Int /\ IsFiniteSet(BatchStamps(hour))
    BY <1>2, StampFacts
  <1>4. PICK t \in Begin..MaxClock : t = begun /\ hour = LatestHourEnd(t) /\ clock <= t + MaxFetch
    BY <1>1 DEF FetchInv
  <1>5. BatchStamps(hour) \subseteq DOMAIN Export
    BY <1>4, ConstantTypes
  <1>6. Within \in SUBSET Had(hour) /\ Within \in SUBSET BatchStamps(hour)
    BY <1>5 DEF Within, Had, FloorInv
  <1>7. IsFiniteSet(Within)
    BY <1>3, <1>6, FS_Subset
  <1>8. Recent(hour)
    <2>1. t \in Nat /\ MaxFetch \in Nat /\ PublishLag \in Nat /\ HOUR \in Nat
      BY ConstantTypes, HourType
    <2>2. t < hour + HOUR + PublishLag
      BY <1>4, <2>1, LatestHourFacts
    <2> QED
      BY <1>2, <1>4, <2>1, <2>2 DEF Recent
  <1> QED
    BY <1>2, <1>3, <1>5, <1>6, <1>7, <1>8, FS_CardinalityType

(* While a fetch goes on, its reach grows. *)
LEMMA FloorStays ==
    ASSUME Inv, KnowInv, WorldStep, UNCHANGED <<pc, hour, batches, journal>>
    PROVE  FloorInv'
  <1> SUFFICES ASSUME pc = "fetch" PROVE FloorInv'
    BY DEF FloorInv
  <1>1. TypeInv /\ FloorInv
    BY DEF Inv, KnowInv
  <1>2. /\ hour \in Int /\ BatchStamps(hour) \in SUBSET Int /\ Within \in SUBSET BatchStamps(hour)
        /\ Cardinality(Within) \in Nat /\ DOMAIN batches \subseteq BatchStamps(hour)
    BY <1>1, WithinFacts DEF Inv, FetchInv
  <1>3. \A s \in Int : Served(s) => Served(s)'
    BY <1>1, HadGrows
  <1>4. Within \in SUBSET Within' /\ Within' \in SUBSET BatchStamps(hour)
    BY <1>2, <1>3 DEF Within
  <1>5. Cardinality(Within) <= Cardinality(Within') /\ Cardinality(Within') \in Nat
    <2>1. IsFiniteSet(BatchStamps(hour))
      BY <1>2, StampFacts
    <2>2. IsFiniteSet(Within')
      BY <1>4, <2>1, FS_Subset
    <2> QED
      BY <1>4, <2>2, FS_Subset, FS_CardinalityType
  <1>6. AtMost(hour, Cardinality(Within), journal)
    BY <1>1 DEF FloorInv
  <1>7. AtMost(hour, Cardinality(Within'), journal)
    <2>1. \A r \in HourRecords(journal) : r.fields.batches \in Nat
      BY DEF KnowInv, CountInv, HourRecords
    <2> QED
      BY <1>2, <1>5, <1>6, <2>1 DEF AtMost
  <1>8. /\ batches = [s \in DOMAIN batches |-> batches[s]]
        /\ \A s \in DOMAIN batches : batches[s] # None => batches[s] = ParseExport(Export[s]) /\ Served(s)'
    BY <1>1, <1>2, <1>3 DEF FloorInv
  <1> QED
    BY <1>7, <1>8 DEF FloorInv, AtMost, HourRecords

(* A fetch begins with every batch that is served in its reach. *)
LEMMA FloorBegins ==
    ASSUME Inv, KnowInv, PollHour
    PROVE  FloorInv'
  <1>1. /\ UNCHANGED <<clock, servedAt, journal>> /\ batches' = NoBatches /\ hour' = LatestHourEnd(clock)
    BY DEF PollHour, store
  <1>2. clock \in Begin..MaxClock /\ clock \in Nat
    BY ConstantTypes DEF Inv, TypeInv
  <1>3. hour' \in Int /\ BatchStamps(hour') \subseteq DOMAIN Export
    BY <1>1, <1>2, LatestHourFacts, ConstantTypes
  <1>4. DOMAIN batches' = {} /\ batches' = [s \in DOMAIN batches' |-> batches'[s]]
    BY <1>1 DEF NoBatches
  <1>5. Within' = Had(hour')
    BY <1>1, <1>3, <1>4 DEF Within, Had, Served
  <1>6. AtMost(hour', Cardinality(Had(hour')), journal)
    BY DEF KnowInv, CountInv, AtMost, HourRecords
  <1>7. AtMost(hour, Cardinality(Within), journal)'
    BY <1>1, <1>5, <1>6 DEF AtMost, HourRecords
  <1> QED
    BY <1>4, <1>7 DEF FloorInv

(* A download leaves what is within reach as it was. *)
LEMMA FloorDownload ==
    ASSUME Inv, KnowInv, Download
    PROVE  FloorInv'
  <1> DEFINE left == BatchStamps(hour) \ DOMAIN batches
             s    == Min(left)
             got  == IF s \in DOMAIN Downloads THEN ParseExport(Downloads[s]) ELSE None
  <1>1. /\ pc = "fetch" /\ left # {}
        /\ batches' = [t \in DOMAIN batches \cup {s} |-> IF t = s THEN got ELSE batches[t]]
        /\ UNCHANGED <<clock, servedAt, pc, hour, journal>>
    BY DEF Download, store
  <1>2. FloorInv /\ hour \in Int /\ BatchStamps(hour) \in SUBSET Int /\ BatchStamps(hour) \subseteq DOMAIN Export
    BY <1>1, WithinFacts DEF KnowInv
  <1>3. s \in left
    <2>1. left \in SUBSET Int /\ hour - HOUR \in Int /\ \A q \in left : hour - HOUR <= q
      BY <1>2, StampFacts
    <2> HIDE DEF left
    <2> QED
      BY <1>1, <2>1, MinOfBounded
  <1>4. s \in BatchStamps(hour) /\ s \notin DOMAIN batches /\ s \in DOMAIN Export
    BY <1>2, <1>3
  <1> HIDE DEF s, left
  <1>5. IF Served(s) THEN got = ParseExport(Export[s]) /\ got # None ELSE got = None
    <2>1. /\ DOMAIN Downloads = {q \in DOMAIN Export : Served(q)}
          /\ \A q \in DOMAIN Downloads : Downloads[q] = Export[q]
      BY DEF Downloads
    <2>2. CASE Served(s)
      BY <1>4, <2>1, <2>2, ConstantTypes
    <2>3. CASE ~Served(s)
      BY <2>1, <2>3
    <2> QED
      BY <2>2, <2>3
  <1> HIDE DEF got
  <1>6. /\ DOMAIN batches' = DOMAIN batches \cup {s}
        /\ batches'[s] = got /\ \A t \in DOMAIN batches : batches'[t] = batches[t]
        /\ batches' = [t \in DOMAIN batches' |-> batches'[t]]
    BY <1>1, <1>4
  <1>7. Within' = Within
    <2>1. \A t : Served(t)' = Served(t)
      BY <1>1 DEF Served
    <2> QED
      BY <1>1, <1>4, <1>5, <1>6, <2>1 DEF Within
  <1>8. \A t \in DOMAIN batches' : batches'[t] # None => batches'[t] = ParseExport(Export[t]) /\ Served(t)'
    <2>1. \A t : Served(t)' = Served(t)
      BY <1>1 DEF Served
    <2> QED
      BY <1>1, <1>2, <1>5, <1>6, <2>1 DEF FloorInv
  <1>9. AtMost(hour, Cardinality(Within), journal)'
    BY <1>1, <1>2, <1>7 DEF FloorInv, AtMost, HourRecords
  <1> QED
    BY <1>6, <1>8, <1>9 DEF FloorInv

(* The steps of the world, of the daemon's loop, of its fetches and of the  *)
(* archive record nothing.                                                  *)
LEMMA KnowOutsideStep ==
    ASSUME Inv, KnowInv, Next,
           \/ Start \/ Tick \/ Pass \/ PollKept \/ PollHour \/ Download \/ Outage \/ GiveUpForNow
           \/ PollCalendar \/ Unreadable \/ StoreBody \/ StoreMeta \/ ParseFails
           \/ \E version \in DOMAIN Calendars : Edit(version)
           \/ \E s \in Late : Serve(s)
    PROVE  KnowInv'
  <1>0. TypeInv /\ WorkInv /\ MemoryInv /\ ServedInv
    BY DEF Inv, KnowInv
  <1>1. WorldStep /\ ServedInv'
    BY <1>0, StepOfWorld, ServedStep
  <1>2. CASE Start \/ Pass \/ Outage \/ GiveUpForNow \/ Unreadable \/ ParseFails
    <2>1. /\ UNCHANGED <<journal, todo, out, last>> /\ pc \notin {"append", "import"} /\ pc' = "idle"
      BY <1>2 DEF Start, Pass, Outage, GiveUpForNow, Unreadable, ParseFails, Poll, store
    <2>2. WorkInv' /\ FloorInv'
      BY <1>0, <2>1 DEF WorkInv, HourInHand, FloorInv
    <2> QED
      BY <1>0, <1>1, <2>1, <2>2, KnowQuietStep DEF HourInHand
  <1>3. CASE Tick
    <2>1. UNCHANGED <<pc, hour, batches, journal, todo, out, last>> /\ pc \in {"down", "idle", "fetch"}
      BY <1>3 DEF Tick, store, fetching
    <2>2. WorkInv'
      BY <1>0, <2>1 DEF WorkInv, HourInHand
    <2>3. FloorInv'
      BY <1>1, <2>1, FloorStays
    <2> QED
      BY <1>0, <1>1, <2>1, <2>2, <2>3, KnowQuietStep DEF HourInHand
  <1>4. CASE (\E version \in DOMAIN Calendars : Edit(version)) \/ (\E s \in Late : Serve(s))
    <2>1. UNCHANGED <<clock, pc, hour, batches, journal, todo, out, last, job>>
      BY <1>4 DEF Edit, Serve, store, fetching
    <2>2. WorkInv'
      BY <1>0, <2>1 DEF WorkInv, HourInHand, Recent, HourRecords
    <2>3. FloorInv'
      BY <1>1, <2>1, FloorStays
    <2> QED
      BY <1>0, <1>1, <2>1, <2>2, <2>3, KnowQuietStep DEF HourInHand
  <1>5. CASE PollKept
    <2>1. /\ UNCHANGED <<clock, journal, todo, out, last>> /\ pc = "idle" /\ pc' = "body" /\ job' = last
          /\ last # None /\ last.request = LatestHourEnd(clock)
      BY <1>5 DEF PollKept, KeptHour, Poll, store
    <2>2. Recent(last.request)
      <3>1. clock \in Nat /\ MaxFetch \in Nat /\ PublishLag \in Nat /\ HOUR \in Nat
        BY <1>0, ConstantTypes, HourType DEF TypeInv
      <3>2. clock < last.request + HOUR + PublishLag /\ last.request \in Int
        BY <2>1, <3>1, LatestHourFacts
      <3> QED
        BY <3>1, <3>2 DEF Recent
    <2>3. WorkInv' /\ FloorInv'
      BY <1>0, <2>1, <2>2 DEF WorkInv, HourInHand, FloorInv, Recent
    <2> QED
      BY <1>0, <1>1, <2>1, <2>3, KnowQuietStep DEF HourInHand
  <1>6. CASE PollCalendar
    <2>1. /\ UNCHANGED <<clock, journal, todo, out, last>> /\ pc = "idle" /\ pc' = "body"
          /\ job'.content_type = "cal"
      BY <1>6 DEF PollCalendar, Poll, store, RawBlob
    <2>2. WorkInv' /\ FloorInv'
      BY <1>0, <2>1 DEF WorkInv, HourInHand, FloorInv
    <2> QED
      BY <1>0, <1>1, <2>1, <2>2, KnowQuietStep DEF HourInHand
  <1>7. CASE StoreBody \/ StoreMeta
    <2>1. /\ UNCHANGED <<clock, journal, todo, out, last, job>>
          /\ pc \in {"body", "meta"} /\ pc' \in {"meta", "ingest"}
      BY <1>7 DEF StoreBody, StoreMeta
    <2>2. WorkInv' /\ FloorInv'
      BY <1>0, <2>1 DEF WorkInv, HourInHand, FloorInv, Recent
    <2> QED
      BY <1>0, <1>1, <2>1, <2>2, KnowQuietStep DEF HourInHand
  <1>8. CASE PollHour \/ Download
    <2>1. /\ UNCHANGED <<journal, todo, out, last>> /\ pc \in {"idle", "fetch"} /\ pc' = "fetch"
      BY <1>8 DEF PollHour, Download, Poll, store
    <2>2. WorkInv'
      BY <1>0, <2>1 DEF WorkInv, HourInHand
    <2>3. FloorInv'
      BY <1>8, FloorBegins, FloorDownload
    <2> QED
      BY <1>0, <1>1, <2>1, <2>2, <2>3, KnowQuietStep DEF HourInHand
  <1> QED
    BY <1>2, <1>3, <1>4, <1>5, <1>6, <1>7, <1>8

(* A crash loses what was not appended, and the memory. *)
LEMMA KnowCrashStep ==
    ASSUME Inv, KnowInv, Crash
    PROVE  KnowInv'
  <1>0. ServedInv /\ CountInv /\ RowInv /\ LastRevisionInv /\ KnowledgeGrows
    BY DEF KnowInv
  <1>1. UNCHANGED <<clock, servedAt, journal, out>> /\ todo' = {} /\ last' = None /\ pc' = "down"
    BY DEF Crash, store
  <1>2. \A h : Had(h)' = Had(h)
    BY <1>1 DEF Had, Served
  <1>3. HourRecords(journal \cup todo)' \subseteq HourRecords(journal \cup todo) /\ HourRecords(todo)' = {}
        /\ HourRecords(journal)' = HourRecords(journal)
    BY <1>1 DEF HourRecords
  <1>4. CountInv'
    BY <1>0, <1>1, <1>2, <1>3 DEF CountInv
  <1>5. RowInv'
    BY <1>0, <1>1, <1>2, <1>3 DEF RowInv, AtMost
  <1>6. ServedInv' /\ MemoryInv' /\ WorkInv' /\ FloorInv' /\ NextRevisionInv' /\ LastRevisionInv' /\ KnowledgeGrows'
    BY <1>0, <1>1, <1>3
       DEF ServedInv, MemoryInv, HourInHand, WorkInv, FloorInv, NextRevisionInv, LastRevisionInv, KnowledgeGrows
  <1> QED
    BY <1>4, <1>5, <1>6 DEF KnowInv

(* fetch takes an hour: nothing on record of it counts more batches. *)
LEMMA KnowTakeStep ==
    ASSUME Inv, KnowInv, TakeHour
    PROVE  KnowInv'
  <1>p. PICK P : P = Present(batches)
    OBVIOUS
  <1>0. ServedInv /\ CountInv /\ WorkInv /\ FloorInv /\ RowInv /\ NextRevisionInv /\ LastRevisionInv /\ KnowledgeGrows
    BY DEF KnowInv
  <1>1. /\ UNCHANGED <<clock, servedAt, journal, todo, out>> /\ pc = "fetch" /\ pc' = "body"
        /\ DOMAIN batches = BatchStamps(hour)
        /\ last' = RawBlob("gdelt", hour, Compact(hour, batches), clock) /\ job' = last'
    BY DEF TakeHour, store
  <1>2. /\ hour \in Int /\ Within \in SUBSET Had(hour) /\ Recent(hour)
    BY <1>0, <1>1, WithinFacts
  <1>3. todo = {}
    BY <1>0, <1>1 DEF WorkInv, HourInHand
  <1>4. P = Within
    BY <1>p, <1>1 DEF Present, Within
  <1>5. batches = BatchesOf(hour, P)
    <2>1. batches = [s \in BatchStamps(hour) |-> batches[s]]
      BY <1>0, <1>1 DEF FloorInv
    <2>2. \A s \in BatchStamps(hour) : batches[s] = IF s \in P THEN ParseExport(Export[s]) ELSE None
      BY <1>p, <1>0, <1>1 DEF FloorInv, Present
    <2>3. [s \in BatchStamps(hour) |-> batches[s]] =
          [s \in BatchStamps(hour) |-> IF s \in P THEN ParseExport(Export[s]) ELSE None]
      BY <2>2, Zenon
    <2> QED
      BY <2>1, <2>3, Zenon DEF BatchesOf
  <1>6. AtMost(hour, Cardinality(P), journal \cup todo)
    BY <1>0, <1>1, <1>3, <1>4 DEF FloorInv, AtMost, HourRecords
  <1>7. last'.content_type = "gdelt" /\ last'.request = hour /\ last'.body = Compact(hour, BatchesOf(hour, P))
    BY <1>1, <1>5 DEF RawBlob
  <1>8. \A h : Had(h)' = Had(h)
    BY <1>1 DEF Had, Served
  <1>9. MemoryInv'
    <2>1. HourBlob(last)'
      <3>1. P \in SUBSET Had(hour) /\ \A s : Served(s)' = Served(s)
        BY <1>1, <1>2, <1>4 DEF Served
      <3>2. P \in SUBSET Had(last.request)'
        BY <1>7, <3>1 DEF Had
      <3>3. AtMost(last.request, Cardinality(P), journal \cup todo)'
        BY <1>1, <1>6, <1>7 DEF AtMost, HourRecords
      <3> QED
        BY <1>2, <1>7, <3>2, <3>3 DEF HourBlob
    <2> QED
      BY <1>1, <2>1 DEF MemoryInv
  <1>10. WorkInv' /\ FloorInv'
    BY <1>1, <1>2, <1>3, <1>7 DEF WorkInv, HourInHand, FloorInv, Recent
  <1>11. ServedInv' /\ CountInv' /\ RowInv' /\ NextRevisionInv' /\ LastRevisionInv' /\ KnowledgeGrows'
    BY <1>0, <1>1, <1>8
       DEF ServedInv, CountInv, RowInv, AtMost, HourRecords, NextRevisionInv, LastRevisionInv, KnowledgeGrows
  <1> QED
    BY <1>9, <1>10, <1>11 DEF KnowInv

-----------------------------------------------------------------------------
(* KnowledgeGrows: ingest, and the steps that append what it returns.       *)

(* When a candidate's record says it was known. *)
Stamp(c, avail) == IF avail = "observed" THEN clock ELSE c.known_at

RecordFrom(ds, c, avail, ref) ==
    [ds |-> ds, scope |-> c.scope, effective_at |-> c.effective_at, fields |-> c.fields,
     revision |-> IF OfKey(ds, c) = {} THEN 1 ELSE Latest(ds, c).revision + 1,
     known_at |-> Stamp(c, avail), availability |-> avail, raw_ref |-> ref]

(* ingest, in full. *)
LEMMA IngestMakes ==
    ASSUME NEW ds, NEW cands, NEW avail, NEW ref
    PROVE  /\ \A r \in Ingest(ds, cands, avail, ref) : \E c \in cands :
                /\ r.ds = ds /\ r.scope = c.scope /\ r.effective_at = c.effective_at /\ r.fields = c.fields
                /\ r.known_at = Stamp(c, avail)
                /\ OfKey(ds, c) = {} \/ Latest(ds, c).fields # c.fields
                /\ r = RecordFrom(ds, c, avail, ref)
           /\ \A c \in cands :
                (Stamp(c, avail) <= clock + Skew /\ OfKey(ds, c) = {}) =>
                    \E r \in Ingest(ds, cands, avail, ref) :
                        r.ds = ds /\ r.scope = c.scope /\ r.effective_at = c.effective_at
  <1> DEFINE rec(c) == RecordFrom(ds, c, avail, ref)
             fresh(c) == /\ Stamp(c, avail) <= clock + Skew
                         /\ OfKey(ds, c) = {} \/ Latest(ds, c).fields # c.fields
  <1>1. Ingest(ds, cands, avail, ref) = {rec(c) : c \in {d \in cands : fresh(d)}}
    BY DEF Ingest, Stamp, RecordFrom
  <1>2. \A c : /\ rec(c).ds = ds /\ rec(c).scope = c.scope /\ rec(c).effective_at = c.effective_at
               /\ rec(c).fields = c.fields /\ rec(c).known_at = Stamp(c, avail)
    BY DEF RecordFrom
  <1> HIDE DEF rec
  <1>3. ASSUME NEW r \in Ingest(ds, cands, avail, ref)
        PROVE  \E c \in cands : r = rec(c) /\ fresh(c)
    BY <1>1, Zenon
  <1>4. ASSUME NEW r \in Ingest(ds, cands, avail, ref)
        PROVE  \E c \in cands :
                /\ r.ds = ds /\ r.scope = c.scope /\ r.effective_at = c.effective_at /\ r.fields = c.fields
                /\ r.known_at = Stamp(c, avail)
                /\ OfKey(ds, c) = {} \/ Latest(ds, c).fields # c.fields
                /\ r = rec(c)
    <2>1. PICK c \in cands : r = rec(c) /\ fresh(c)
      BY <1>3
    <2> QED
      BY <1>2, <2>1
  <1>5. ASSUME NEW c \in cands, Stamp(c, avail) <= clock + Skew, OfKey(ds, c) = {}
        PROVE  \E r \in Ingest(ds, cands, avail, ref) :
                  r.ds = ds /\ r.scope = c.scope /\ r.effective_at = c.effective_at
    <2>1. rec(c) \in Ingest(ds, cands, avail, ref)
      BY <1>1, <1>5, Zenon
    <2> QED
      BY <1>2, <2>1
  <1> QED
    BY <1>4, <1>5, Zenon DEF rec

(* The next revision of a key is above those it has. *)
LEMMA RevisionGrows ==
    ASSUME CountInv, LastRevisionInv, NEW cands, NEW avail, NEW ref,
           NEW r \in Ingest("gdelt", cands, avail, ref)
    PROVE  /\ r.revision \in Nat
           /\ \A q \in HourRecords(journal) : SameKey(q, r) => q.revision < r.revision
  <1>1. PICK c \in cands :
           /\ r.scope = c.scope /\ r.effective_at = c.effective_at
           /\ r = RecordFrom("gdelt", c, avail, ref)
    BY IngestMakes
  <1>2. r.revision = IF OfKey("gdelt", c) = {} THEN 1 ELSE Latest("gdelt", c).revision + 1
    BY <1>1 DEF RecordFrom
  <1>3. /\ \A q \in OfKey("gdelt", c) : q \in HourRecords(journal) /\ SameKey(q, r)
        /\ \A q \in HourRecords(journal) : SameKey(q, r) => q \in OfKey("gdelt", c)
    BY <1>1 DEF OfKey, HourRecords, SameKey
  <1>4. \A q \in HourRecords(journal) : q.revision \in Nat
    BY DEF CountInv, HourRecords
  <1>5. CASE OfKey("gdelt", c) = {}
    BY <1>2, <1>3, <1>5
  <1>6. CASE OfKey("gdelt", c) # {}
    <2>1. PICK x \in OfKey("gdelt", c) : TRUE
      BY <1>6
    <2>2. PICK t \in HourRecords(journal) :
             SameKey(t, x) /\ \A q \in HourRecords(journal) : SameKey(q, x) => q.revision <= t.revision
      BY <1>3, <2>1 DEF LastRevisionInv
    <2>3. t \in OfKey("gdelt", c) /\ \A q \in OfKey("gdelt", c) : q.revision <= t.revision
      BY <1>3, <2>1, <2>2 DEF SameKey
    <2>4. /\ Latest("gdelt", c) \in OfKey("gdelt", c)
          /\ \A q \in OfKey("gdelt", c) : q.revision <= Latest("gdelt", c).revision
      BY <2>3 DEF Latest
    <2>5. Latest("gdelt", c).revision \in Nat
      BY <1>3, <1>4, <2>4
    <2> QED
      BY <1>2, <1>3, <1>4, <1>6, <2>4, <2>5
  <1> QED
    BY <1>5, <1>6

(* Records that know all that their hour's records knew may be appended. *)
LEMMA KnowIngestStep ==
    ASSUME TypeInv, KnowInv, UNCHANGED <<clock, servedAt, journal, out>>, todo = {},
           NEW cands, NEW avail, NEW ref, todo' = Ingest("gdelt", cands, avail, ref),
           \A c \in cands :
              /\ c.effective_at \in Int /\ c.fields.batches \in Nat /\ Stamp(c, avail) \in Int
              /\ Stamp(c, avail) <= clock /\ Stamp(c, avail) <= c.effective_at + KnownLag
              /\ c.fields.batches <= Cardinality(Had(c.effective_at))
              /\ \A r \in HourRecords(journal) : r.effective_at = c.effective_at =>
                   r.fields.batches <= c.fields.batches /\ r.known_at <= Stamp(c, avail)
              /\ \A x \in out.rows : x.effective_at = c.effective_at => c.fields.batches <= x.fields.batches,
           \A c, d \in cands : c.scope = d.scope /\ c.effective_at = d.effective_at => c = d,
           MemoryInv', WorkInv', FloorInv'
    PROVE  KnowInv'
  <1>0. ServedInv /\ CountInv /\ RowInv /\ LastRevisionInv /\ KnowledgeGrows
    BY DEF KnowInv
  <1>1. \A h : Had(h)' = Had(h)
    BY DEF Had, Served
  <1>2. ASSUME NEW r \in todo'
        PROVE  \E c \in cands : r.ds = "gdelt" /\ r.scope = c.scope /\ r.effective_at = c.effective_at
                                /\ r.fields = c.fields /\ r.known_at = Stamp(c, avail)
    BY <1>2, IngestMakes
  <1>3. HourRecords(journal)' = HourRecords(journal) /\ HourRecords(todo)' = todo'
    BY <1>2 DEF HourRecords
  <1>4. HourRecords(journal \cup todo)' = HourRecords(journal) \cup todo'
        /\ HourRecords(journal \cup todo) = HourRecords(journal)
    BY <1>2 DEF HourRecords
  <1>5. ASSUME NEW r \in todo'
        PROVE  r.revision \in Nat /\ \A q \in HourRecords(journal) : SameKey(q, r) => q.revision < r.revision
    BY <1>0, RevisionGrows
  <1>6. CountInv'
    <2>1. ASSUME NEW r \in todo'
          PROVE  /\ r.effective_at \in Int /\ r.known_at \in Int /\ r.fields.batches \in Nat
                 /\ r.fields.batches <= Cardinality(Had(r.effective_at))
                 /\ r.known_at <= clock /\ r.known_at <= r.effective_at + KnownLag
      BY <1>2
    <2> QED
      BY <1>0, <1>1, <1>4, <1>5, <2>1 DEF CountInv
  <1>7. RowInv'
    <2>1. ASSUME NEW x \in out.rows
          PROVE  AtMost(x.effective_at, x.fields.batches, journal \cup todo)'
      <3>1. AtMost(x.effective_at, x.fields.batches, journal \cup todo)
        BY <1>0 DEF RowInv
      <3>2. ASSUME NEW r \in todo', r.effective_at = x.effective_at
            PROVE  r.fields.batches <= x.fields.batches
        BY <1>2, <3>2
      <3> QED
        BY <1>4, <3>1, <3>2 DEF AtMost
    <2> QED
      BY <1>0, <1>1, <2>1 DEF RowInv
  <1>8. NextRevisionInv'
    <2>1. ASSUME NEW r \in todo', NEW q \in todo', SameKey(r, q)
          PROVE  r = q
      <3>1. PICK c \in cands :
               /\ r.scope = c.scope /\ r.effective_at = c.effective_at
               /\ r = RecordFrom("gdelt", c, avail, ref)
        BY IngestMakes
      <3>2. PICK d \in cands :
               /\ q.scope = d.scope /\ q.effective_at = d.effective_at
               /\ q = RecordFrom("gdelt", d, avail, ref)
        BY IngestMakes
      <3>3. c = d
        BY <2>1, <3>1, <3>2 DEF SameKey
      <3> QED
        BY <3>1, <3>2, <3>3, Zenon
    <2>2. ASSUME NEW r \in HourRecords(journal), NEW q \in todo', SameKey(r, q)
          PROVE  /\ r.revision < q.revision /\ r.known_at <= q.known_at
                 /\ r.fields.batches <= q.fields.batches
      BY <1>2, <1>5, <2>2 DEF SameKey
    <2> QED
      BY <1>3, <2>1, <2>2 DEF NextRevisionInv
  <1>9. ServedInv' /\ LastRevisionInv' /\ KnowledgeGrows'
    BY <1>0, <1>3 DEF ServedInv, LastRevisionInv, KnowledgeGrows
  <1> QED
    BY <1>6, <1>7, <1>8, <1>9 DEF KnowInv

(* Records of the calendar are none of an hour. *)
LEMMA KnowCalendarStep ==
    ASSUME TypeInv, KnowInv, UNCHANGED <<clock, servedAt, journal, out, last>>, todo = {},
           NEW cands, NEW avail, NEW ref, todo' = Ingest("cal", cands, avail, ref),
           pc \in {"down", "import"} \/ pc' \notin {"down", "import"}, ~HourInHand', WorkInv', FloorInv'
    PROVE  KnowInv'
  <1>0. ServedInv /\ CountInv /\ MemoryInv /\ RowInv /\ NextRevisionInv /\ LastRevisionInv /\ KnowledgeGrows
    BY DEF KnowInv
  <1>1. \A h : Had(h)' = Had(h)
    BY DEF Had, Served
  <1>2. \A r \in todo' : r.ds = "cal"
    BY IngestMakes
  <1>3. /\ HourRecords(journal)' = HourRecords(journal) /\ HourRecords(todo)' = {}
        /\ HourRecords(journal \cup todo)' = HourRecords(journal \cup todo)
    BY <1>2 DEF HourRecords
  <1>4. MemoryInv'
    <2> SUFFICES ASSUME last # None PROVE HourBlob(last)' /\ pc' \notin {"down", "import"}
      BY DEF MemoryInv
    <2>1. HourBlob(last) /\ pc \notin {"down", "import"}
      BY <1>0 DEF MemoryInv
    <2> QED
      BY <1>3, <2>1 DEF HourBlob, AtMost, Had, Served
  <1>5. CountInv' /\ RowInv'
    BY <1>0, <1>1, <1>3 DEF CountInv, RowInv, AtMost
  <1>6. ServedInv' /\ NextRevisionInv' /\ LastRevisionInv' /\ KnowledgeGrows'
    BY <1>0, <1>3 DEF ServedInv, NextRevisionInv, LastRevisionInv, KnowledgeGrows
  <1> QED
    BY <1>4, <1>5, <1>6 DEF KnowInv

(* collect_once: the records of the hour in memory. *)
LEMMA KnowBlobStep ==
    ASSUME Inv, KnowInv, IngestBlob
    PROVE  KnowInv'
  <1>0. TypeInv /\ ServedInv /\ CountInv /\ MemoryInv /\ WorkInv /\ RowInv
    BY DEF Inv, KnowInv
  <1>1. /\ UNCHANGED <<clock, servedAt, journal, out, last>> /\ pc = "ingest"
        /\ todo' = Ingest(job.content_type, Parse(job), "observed", Sha256(job))
        /\ pc' = IF todo' = {} THEN "idle" ELSE "append"
    BY DEF IngestBlob, store
  <1>2. todo = {} /\ job.content_type \in {"cal", "gdelt"}
    BY <1>0, <1>1 DEF WorkInv, Inv, BlobInv, GoodBlob
  <1>3. ~HourInHand' /\ FloorInv'
    BY <1>1 DEF HourInHand, FloorInv
  <1>4. CASE job.content_type = "cal"
    <2>1. todo' = Ingest("cal", Parse(job), "observed", Sha256(job))
      BY <1>1, <1>4
    <2>2. \A r \in todo' : r.ds = "cal"
      BY <2>1, IngestMakes
    <2>3. WorkInv'
      BY <1>1, <1>3, <2>2 DEF WorkInv, HourRecords
    <2> QED
      BY <1>0, <1>1, <1>2, <1>3, <2>1, <2>3, KnowCalendarStep
  <1>5. CASE job.content_type = "gdelt"
    <2>1. HourInHand /\ job = last /\ Recent(job.request) /\ HourBlob(job)
      BY <1>0, <1>1, <1>5 DEF HourInHand, WorkInv, MemoryInv
    <2>2. PICK h \in Int : h = job.request
      BY <2>1 DEF HourBlob
    <2>3. PICK P \in SUBSET Had(h) :
             /\ job.body = Compact(h, BatchesOf(h, P)) /\ AtMost(h, Cardinality(P), journal \cup todo)
      BY <2>1, <2>2 DEF HourBlob
    <2>4. P \in SUBSET (BatchStamps(h) \cap DOMAIN Export)
      BY DEF Had
    <2>5. PICK cands : cands = Parse(job)
      OBVIOUS
    <2>6. /\ \A c \in cands : c.effective_at = h /\ c.fields.batches = Cardinality(P)
          /\ \A c, d \in cands : c.scope = d.scope => c = d
      <3>1. cands = HourCandidates(h, BatchesOf(h, P))
        BY <1>5, <2>3, <2>4, <2>5, HourFacts DEF Parse
      <3> QED
        BY <2>4, <3>1, HourFacts
    <2>7. Cardinality(P) \in Nat /\ Cardinality(P) <= Cardinality(Had(h))
      <3>1. IsFiniteSet(P) /\ Cardinality(P) \in Nat
        BY <2>4, BatchesOfFacts
      <3>2. IsFiniteSet(Had(h))
        <4>1. IsFiniteSet(BatchStamps(h)) /\ Had(h) \in SUBSET BatchStamps(h)
          BY StampFacts DEF Had
        <4> QED
          BY <4>1, FS_Subset
      <3> QED
        BY <3>1, <3>2, FS_Subset
    <2>8. /\ clock \in Int /\ KnownLag \in Nat /\ clock <= h + KnownLag
          /\ ~(h + KnownLag <= clock)
      <3>1. /\ clock \in Int /\ KnownLag \in Nat /\ HOUR \in Nat /\ PublishLag \in Nat /\ MaxFetch \in Nat
            /\ HOUR + PublishLag + MaxFetch <= KnownLag
        BY <1>0, ConstantTypes, HourType, GdeltAssumption, CollectorsAssumption DEF TypeInv
      <3>2. clock < h + HOUR + PublishLag + MaxFetch
        BY <2>1, <2>2 DEF Recent
      <3> QED
        BY <3>1, <3>2
    <2>9. \A c : Stamp(c, "observed") = clock
      BY DEF Stamp
    <2>10. \A c \in cands :
              /\ c.effective_at \in Int /\ c.fields.batches \in Nat /\ Stamp(c, "observed") \in Int
              /\ Stamp(c, "observed") <= clock /\ Stamp(c, "observed") <= c.effective_at + KnownLag
              /\ c.fields.batches <= Cardinality(Had(c.effective_at))
              /\ \A r \in HourRecords(journal) : r.effective_at = c.effective_at =>
                   r.fields.batches <= c.fields.batches /\ r.known_at <= Stamp(c, "observed")
              /\ \A x \in out.rows : x.effective_at = c.effective_at => c.fields.batches <= x.fields.batches
      <3> SUFFICES ASSUME NEW c \in cands
                   PROVE  /\ c.effective_at \in Int /\ c.fields.batches \in Nat
                          /\ clock <= clock /\ clock <= c.effective_at + KnownLag
                          /\ c.fields.batches <= Cardinality(Had(c.effective_at))
                          /\ \A r \in HourRecords(journal) : r.effective_at = c.effective_at =>
                               r.fields.batches <= c.fields.batches /\ r.known_at <= clock
                          /\ \A x \in out.rows : x.effective_at # c.effective_at
        BY <2>8, <2>9
      <3>1. c.effective_at = h /\ c.fields.batches = Cardinality(P)
        BY <2>6
      <3>2. \A r \in HourRecords(journal) : r.effective_at = h =>
               r.fields.batches <= Cardinality(P) /\ r.known_at <= clock
        BY <1>0, <2>3 DEF AtMost, HourRecords, CountInv
      <3>3. \A x \in out.rows : x.effective_at # h
        BY <1>0, <2>8 DEF RowInv
      <3> QED
        BY <2>7, <2>8, <3>1, <3>2, <3>3
    <2>11. todo' = Ingest("gdelt", cands, "observed", Sha256(job))
      BY <1>1, <1>5, <2>5
    <2>12. PICK ref : ref = Sha256(job)
      OBVIOUS
    <2>13. \A r \in todo' : r.ds = "gdelt" /\ r.effective_at = h /\ r.fields.batches = Cardinality(P)
      <3> SUFFICES ASSUME NEW r \in todo'
                   PROVE  r.ds = "gdelt" /\ r.effective_at = h /\ r.fields.batches = Cardinality(P)
        OBVIOUS
      <3>1. PICK c \in cands : r.ds = "gdelt" /\ r.effective_at = c.effective_at /\ r.fields = c.fields
        BY <2>11, IngestMakes
      <3> QED
        BY <2>6, <3>1
    <2>14. WorkInv'
      BY <1>1, <1>3, <2>1, <2>2, <2>13 DEF WorkInv, HourRecords, Recent
    <2>15. MemoryInv'
      <3>1. AtMost(h, Cardinality(P), journal \cup todo)'
        BY <1>1, <2>3, <2>7, <2>13 DEF AtMost, HourRecords
      <3>2. HourBlob(last)'
        <4>1. /\ last' = last /\ last.request = h /\ last.content_type = "gdelt"
              /\ last.body = Compact(h, BatchesOf(h, P))
          BY <1>1, <1>5, <2>1, <2>2, <2>3
        <4>2. P \in SUBSET Had(h)'
          BY <1>1 DEF Had, Served
        <4> QED
          BY <3>1, <4>1, <4>2 DEF HourBlob, AtMost, HourRecords, Had, Served
      <3> QED
        BY <1>1, <3>2 DEF MemoryInv
    <2> QED
      BY <1>0, <1>1, <1>2, <1>3, <2>6, <2>10, <2>11, <2>12, <2>14, <2>15, KnowIngestStep
  <1> QED
    BY <1>2, <1>4, <1>5

(* hub backfill: the rows of the tools' files. *)
LEMMA KnowImportStep ==
    ASSUME Inv, KnowInv, ImportHours \/ ImportCalendar
    PROVE  KnowInv'
  <1>0. TypeInv /\ ServedInv /\ CountInv /\ MemoryInv /\ WorkInv /\ RowInv
    BY DEF Inv, KnowInv
  <1>1. /\ UNCHANGED <<clock, servedAt, journal, out, last, job>> /\ pc = "down" /\ pc' = "import"
    BY DEF ImportHours, ImportCalendar, Import, store
  <1>2. todo = {} /\ ~HourInHand' /\ WorkInv' /\ FloorInv'
    BY <1>0, <1>1 DEF WorkInv, FloorInv, HourInHand
  <1>3. CASE ImportCalendar
    <2>1. PICK rows : todo' = Ingest("cal", rows, "derived", None)
      BY <1>3 DEF ImportCalendar, Import
    <2> QED
      BY <1>0, <1>1, <1>2, <2>1, KnowCalendarStep
  <1>4. CASE ImportHours
    <2>1. PICK rows : rows = out.rows
      OBVIOUS
    <2>2. todo' = Ingest("gdelt", rows, "derived", None)
      BY <1>4, <2>1 DEF ImportHours, Import
    <2>3. MemoryInv'
      BY <1>0, <1>1, <1>2 DEF MemoryInv
    <2>4. \A c : Stamp(c, "derived") = c.known_at
      BY DEF Stamp
    <2>5. KnownLag \in Nat
      BY GdeltAssumption
    <2>6. \A c \in rows :
              /\ c.effective_at \in Int /\ c.fields.batches \in Nat /\ Stamp(c, "derived") \in Int
              /\ Stamp(c, "derived") <= clock /\ Stamp(c, "derived") <= c.effective_at + KnownLag
              /\ c.fields.batches <= Cardinality(Had(c.effective_at))
              /\ \A r \in HourRecords(journal) : r.effective_at = c.effective_at =>
                   r.fields.batches <= c.fields.batches /\ r.known_at <= Stamp(c, "derived")
              /\ \A x \in out.rows : x.effective_at = c.effective_at => c.fields.batches <= x.fields.batches
      <3> SUFFICES ASSUME NEW c \in rows
                   PROVE  /\ c.effective_at \in Int /\ c.fields.batches \in Nat
                          /\ c.known_at \in Int
                          /\ c.known_at <= clock /\ c.known_at <= c.effective_at + KnownLag
                          /\ c.fields.batches <= Cardinality(Had(c.effective_at))
                          /\ \A r \in HourRecords(journal) : r.effective_at = c.effective_at =>
                               r.fields.batches <= c.fields.batches /\ r.known_at <= c.known_at
                          /\ \A x \in out.rows :
                               x.effective_at = c.effective_at => c.fields.batches <= x.fields.batches
        BY <2>4
      <3>1. /\ c.effective_at \in Int /\ c.fields.batches \in Nat
            /\ c.known_at = c.effective_at + KnownLag /\ c.known_at <= clock
            /\ c.fields.batches <= Cardinality(Had(c.effective_at))
            /\ AtMost(c.effective_at, c.fields.batches, journal \cup todo)
        BY <1>0, <2>1 DEF RowInv
      <3>2. \A r \in HourRecords(journal) : r.effective_at = c.effective_at =>
               r.fields.batches <= c.fields.batches /\ r.known_at <= c.effective_at + KnownLag
        BY <1>0, <3>1 DEF AtMost, HourRecords, CountInv
      <3>3. \A x \in out.rows :
               x.effective_at = c.effective_at => c.fields.batches = x.fields.batches
        BY <1>0, <2>1 DEF RowInv
      <3> QED
        BY <2>5, <3>1, <3>2, <3>3
    <2>7. \A c, d \in rows : c.scope = d.scope /\ c.effective_at = d.effective_at => c = d
      BY <1>0, <2>1 DEF RowInv
    <2> QED
      BY <1>0, <1>1, <1>2, <2>2, <2>3, <2>6, <2>7, KnowIngestStep
  <1> QED
    BY <1>3, <1>4

(* An append moves a record from what is to be done to what is recorded. *)
LEMMA KnowAppendStep ==
    ASSUME Inv, KnowInv, NEW x \in todo, Append1(x)
    PROVE  KnowInv'
  <1>0. ServedInv /\ CountInv /\ MemoryInv /\ WorkInv /\ FloorInv /\ RowInv /\ NextRevisionInv /\ LastRevisionInv
        /\ KnowledgeGrows
    BY DEF KnowInv
  <1>1. /\ UNCHANGED <<clock, servedAt, out, last, job>> /\ pc \in {"append", "import"}
        /\ journal' = journal \cup {x} /\ todo' = todo \ {x}
        /\ pc' = IF todo' # {} THEN pc ELSE IF pc = "append" THEN "idle" ELSE "down"
    BY DEF Append1
  <1>2. \A h : Had(h)' = Had(h)
    BY <1>1 DEF Had, Served
  <1>3. /\ HourRecords(journal \cup todo)' = HourRecords(journal \cup todo)
        /\ HourRecords(todo)' = HourRecords(todo) \ {x}
        /\ HourRecords(journal)' = HourRecords(journal) \cup HourRecords({x})
        /\ HourRecords({x}) \subseteq {x}
    BY <1>1 DEF HourRecords
  <1>4. CountInv' /\ RowInv' /\ ServedInv'
    BY <1>0, <1>1, <1>2, <1>3 DEF CountInv, RowInv, AtMost, ServedInv
  <1>5. MemoryInv'
    <2> SUFFICES ASSUME last # None PROVE HourBlob(last)' /\ pc' \notin {"down", "import"}
      BY <1>1 DEF MemoryInv, HourInHand
    <2>1. HourBlob(last) /\ pc \notin {"down", "import"}
      BY <1>0 DEF MemoryInv
    <2> QED
      BY <1>1, <1>3, <2>1 DEF HourBlob, AtMost, Had, Served
  <1>6. WorkInv' /\ FloorInv'
    BY <1>0, <1>1, <1>3 DEF WorkInv, HourInHand, FloorInv, Recent
  <1>7. \A r \in HourRecords(journal \cup todo) : r.revision \in Nat
    BY <1>0 DEF CountInv
  <1>8. CASE x.ds # "gdelt"
    <2>1. HourRecords(journal)' = HourRecords(journal) /\ HourRecords(todo)' = HourRecords(todo)
      BY <1>3, <1>8 DEF HourRecords
    <2>2. NextRevisionInv' /\ LastRevisionInv' /\ KnowledgeGrows'
      BY <1>0, <2>1 DEF NextRevisionInv, LastRevisionInv, KnowledgeGrows, HourRecords
    <2> QED
      BY <1>4, <1>5, <1>6, <2>2 DEF KnowInv
  <1>9. CASE x.ds = "gdelt"
    <2>1. x \in HourRecords(todo) /\ HourRecords(journal)' = HourRecords(journal) \cup {x}
      BY <1>3, <1>9 DEF HourRecords
    <2>2. \A r \in HourRecords(journal) : SameKey(r, x) =>
             r.revision < x.revision /\ r.known_at <= x.known_at /\ r.fields.batches <= x.fields.batches
      BY <1>0, <2>1 DEF NextRevisionInv
    <2>3. NextRevisionInv'
      BY <1>0, <1>3, <2>1 DEF NextRevisionInv, SameKey
    <2>4. x.revision \in Nat /\ \A r \in HourRecords(journal) : r.revision \in Nat
      BY <1>7, <2>1 DEF HourRecords
    <2>5. LastRevisionInv'
      <3> SUFFICES ASSUME NEW r \in HourRecords(journal) \cup {x}
                   PROVE  \E t \in HourRecords(journal) \cup {x} :
                             SameKey(t, r) /\ \A q \in HourRecords(journal) \cup {x} :
                                                 SameKey(q, r) => q.revision <= t.revision
        BY <2>1 DEF LastRevisionInv
      <3>1. CASE SameKey(x, r)
        <4>1. \A q \in HourRecords(journal) \cup {x} : SameKey(q, r) => q.revision <= x.revision
          BY <2>2, <2>4, <3>1 DEF SameKey
        <4> QED
          BY <3>1, <4>1
      <3>2. CASE ~SameKey(x, r)
        <4>1. r \in HourRecords(journal)
          BY <3>2 DEF SameKey
        <4>2. PICK t \in HourRecords(journal) :
                 SameKey(t, r) /\ \A q \in HourRecords(journal) : SameKey(q, r) => q.revision <= t.revision
          BY <1>0, <4>1 DEF LastRevisionInv
        <4> QED
          BY <3>2, <4>2
      <3> QED
        BY <3>1, <3>2
    <2>6. KnowledgeGrows'
      <3> SUFFICES ASSUME NEW r \in HourRecords(journal) \cup {x}, NEW q \in HourRecords(journal) \cup {x},
                          SameKey(r, q), r.revision < q.revision
                   PROVE  r.known_at <= q.known_at /\ r.fields.batches <= q.fields.batches
        BY <1>1, <1>9, <2>1 DEF KnowledgeGrows, HourRecords, SameKey
      <3>1. CASE r = x
        BY <2>2, <2>4, <3>1 DEF SameKey
      <3>2. CASE r # x /\ q = x
        BY <2>2, <3>2
      <3>3. CASE r # x /\ q # x
        BY <1>0, <3>3 DEF KnowledgeGrows, HourRecords, SameKey
      <3> QED
        BY <3>1, <3>2, <3>3
    <2> QED
      BY <1>4, <1>5, <1>6, <2>3, <2>5, <2>6 DEF KnowInv
  <1> QED
    BY <1>8, <1>9

(* An hour's rows count every batch that is served. *)
LEMMA RowFacts ==
    ASSUME NEW h \in Int, clock \in Int, ServedInv, h <= clock,
           NEW master, master = {s \in DOMAIN Export : s <= clock},
           NEW x \in HourRows(h, master, Downloads)
    PROVE  \E c \in HourCandidates(h, BatchesOf(h, Had(h))) :
              /\ x = [scope |-> c.scope, effective_at |-> c.effective_at, fields |-> c.fields,
                      known_at |-> h + KnownLag]
              /\ x.scope = c.scope /\ x.effective_at = c.effective_at /\ x.fields = c.fields
              /\ x.known_at = h + KnownLag
  <1>1. /\ DOMAIN Downloads = {q \in DOMAIN Export : Served(q)}
        /\ \A q \in DOMAIN Downloads : Downloads[q] = Export[q]
    BY DEF Downloads
  <1>2. BatchStamps(h) \in SUBSET Int
    BY StampFacts
  <1>3. \A s \in BatchStamps(h) : (s \in master /\ s \in DOMAIN Downloads) <=> s \in Had(h)
    BY <1>1, <1>2 DEF Had, Served, ServedInv
  <1>4. \A s \in BatchStamps(h) :
           (IF s \in master /\ s \in DOMAIN Downloads THEN ParseExport(Downloads[s]) ELSE None)
           = IF s \in Had(h) THEN ParseExport(Export[s]) ELSE None
    BY <1>1, <1>3, Zenon
  <1>5. [s \in BatchStamps(h) |->
           IF s \in master /\ s \in DOMAIN Downloads THEN ParseExport(Downloads[s]) ELSE None]
        = BatchesOf(h, Had(h))
    BY <1>4, Zenon DEF BatchesOf
  <1> DEFINE row(c) == [scope |-> c.scope, effective_at |-> c.effective_at, fields |-> c.fields,
                        known_at |-> h + KnownLag]
  <1>6. HourRows(h, master, Downloads) = {row(c) : c \in HourCandidates(h, BatchesOf(h, Had(h)))}
    BY <1>5, Zenon DEF HourRows
  <1>7. PICK c \in HourCandidates(h, BatchesOf(h, Had(h))) : x = row(c)
    BY <1>6, Zenon
  <1>8. /\ row(c).scope = c.scope /\ row(c).effective_at = c.effective_at /\ row(c).fields = c.fields
        /\ row(c).known_at = h + KnownLag
    OBVIOUS
  <1> QED
    BY <1>7, <1>8

(* gdelt_backfill in a directory of its own: its rows know what is on record.*)
LEMMA KnowMonthStep ==
    ASSUME Inv, KnowInv, BackfillMonth, ~Reuse
    PROVE  KnowInv'
  <1>0. TypeInv /\ ServedInv /\ CountInv /\ MemoryInv /\ WorkInv /\ FloorInv /\ NextRevisionInv /\ LastRevisionInv
        /\ KnowledgeGrows
    BY DEF Inv, KnowInv
  <1>1. UNCHANGED <<clock, servedAt, pc, hour, batches, last, job, todo, journal>>
    BY DEF BackfillMonth, fetching, store
  <1>2. PICK master : master = {s \in DOMAIN Export : s <= clock}
    OBVIOUS
  <1>3. PICK bad \in SUBSET MonthHours(clock) : out'.rows = RowsOf(MonthHours(clock), bad, master)
    <2>1. NoOut.master = None
      BY DEF NoOut
    <2>2. PICK bad \in SUBSET MonthHours(clock) :
             out' = [master |-> master, rows |-> RowsOf(MonthHours(clock), bad, master), done |-> bad = {}]
      BY <1>2, <2>1, Zenon DEF BackfillMonth
    <2>3. out'.rows = RowsOf(MonthHours(clock), bad, master)
      BY <2>2
    <2> QED
      BY <2>3
  <1>4. \A h : Had(h)' = Had(h)
    BY <1>1 DEF Had, Served
  <1>5. clock \in Nat /\ clock \in Int /\ KnownLag \in Nat
    BY <1>0, ConstantTypes, GdeltAssumption DEF TypeInv
  <1>6. \A h \in MonthHours(clock) : h \in Int /\ h + KnownLag <= clock /\ h <= clock
    <2> SUFFICES ASSUME NEW h \in MonthHours(clock) PROVE h \in Int /\ h + KnownLag <= clock /\ h <= clock
      OBVIOUS
    <2>1. h \in Int /\ h + KnownLag <= clock
      BY <1>5, HourType DEF MonthHours
    <2> QED
      BY <1>5, <2>1
  <1>7. ASSUME NEW x \in out'.rows
        PROVE  \E h \in MonthHours(clock) : x \in HourRows(h, master, Downloads)
    BY <1>3, <1>7 DEF RowsOf
  <1>8. ASSUME NEW h \in Int
        PROVE  Had(h) \in SUBSET (BatchStamps(h) \cap DOMAIN Export) /\ Cardinality(Had(h)) \in Nat
    <2>1. Had(h) \in SUBSET (BatchStamps(h) \cap DOMAIN Export)
      BY DEF Had
    <2> QED
      BY <2>1, BatchesOfFacts
  <1>9. ASSUME NEW x \in out'.rows
        PROVE  /\ x.effective_at \in Int /\ x.fields.batches = Cardinality(Had(x.effective_at))
               /\ x.known_at = x.effective_at + KnownLag /\ x.known_at <= clock
               /\ x.effective_at \in MonthHours(clock)
               /\ x \in HourRows(x.effective_at, master, Downloads)
    <2>1. PICK h \in MonthHours(clock) : x \in HourRows(h, master, Downloads)
      BY <1>7, <1>9
    <2>2. h \in Int /\ h + KnownLag <= clock /\ h <= clock
      BY <1>6
    <2>3. PICK c \in HourCandidates(h, BatchesOf(h, Had(h))) :
             x.effective_at = c.effective_at /\ x.fields = c.fields /\ x.known_at = h + KnownLag
      BY <1>0, <1>2, <1>5, <2>1, <2>2, RowFacts
    <2>4. c.effective_at = h /\ c.fields.batches = Cardinality(Had(h))
      BY <1>8, <2>2, HourFacts
    <2> QED
      BY <2>1, <2>2, <2>3, <2>4
  <1>10. ASSUME NEW x \in out'.rows, NEW y \in out'.rows, x.effective_at = y.effective_at, x.scope = y.scope
         PROVE  x = y
    <2>1. PICK h \in Int : h = x.effective_at /\ h <= clock
      BY <1>6, <1>9
    <2>2. x \in HourRows(h, master, Downloads) /\ y \in HourRows(h, master, Downloads)
      BY <1>9, <1>10, <2>1
    <2>3. PICK c \in HourCandidates(h, BatchesOf(h, Had(h))) :
             x.scope = c.scope /\ x = [scope |-> c.scope, effective_at |-> c.effective_at,
                                       fields |-> c.fields, known_at |-> h + KnownLag]
      BY <1>0, <1>2, <1>5, <2>1, <2>2, RowFacts
    <2>4. PICK d \in HourCandidates(h, BatchesOf(h, Had(h))) :
             y.scope = d.scope /\ y = [scope |-> d.scope, effective_at |-> d.effective_at,
                                       fields |-> d.fields, known_at |-> h + KnownLag]
      BY <1>0, <1>2, <1>5, <2>1, <2>2, RowFacts
    <2>5. c = d
      BY <1>8, <1>10, <2>3, <2>4, HourFacts
    <2> QED
      BY <2>3, <2>4, <2>5
  <1>11. RowInv'
    <2>1. ASSUME NEW x \in out'.rows
          PROVE  /\ x.effective_at \in Int /\ x.fields.batches \in Nat
                 /\ x.known_at = x.effective_at + KnownLag /\ x.known_at <= clock
                 /\ x.fields.batches <= Cardinality(Had(x.effective_at))
                 /\ AtMost(x.effective_at, x.fields.batches, journal \cup todo)
      <3>1. /\ x.effective_at \in Int /\ x.fields.batches = Cardinality(Had(x.effective_at))
            /\ x.known_at = x.effective_at + KnownLag /\ x.known_at <= clock
        BY <1>9
      <3>2. Cardinality(Had(x.effective_at)) \in Nat
        BY <1>8, <3>1
      <3>3. AtMost(x.effective_at, Cardinality(Had(x.effective_at)), journal \cup todo)
        BY <1>0 DEF CountInv, AtMost
      <3> QED
        BY <3>1, <3>2, <3>3
    <2>2. \A x, y \in out'.rows : x.effective_at = y.effective_at =>
             x.fields.batches = y.fields.batches /\ (x.scope = y.scope => x = y)
      BY <1>9, <1>10
    <2> QED
      BY <1>1, <1>4, <2>1, <2>2 DEF RowInv, AtMost, HourRecords
  <1>12. MemoryInv'
    BY <1>0, <1>1 DEF MemoryInv, HourInHand, HourBlob, AtMost, HourRecords, Had, Served
  <1>13. ServedInv' /\ CountInv' /\ WorkInv' /\ FloorInv' /\ NextRevisionInv' /\ LastRevisionInv' /\ KnowledgeGrows'
    BY <1>0, <1>1, <1>4
       DEF ServedInv, CountInv, WorkInv, HourInHand, Recent, FloorInv, Within, Served, AtMost, HourRecords,
           NextRevisionInv, LastRevisionInv, KnowledgeGrows
  <1> QED
    BY <1>11, <1>12, <1>13 DEF KnowInv

LEMMA NextKnow == Inv /\ KnowInv /\ ~Reuse /\ [Next]_vars => KnowInv'
  <1> SUFFICES ASSUME Inv, KnowInv, ~Reuse, [Next]_vars PROVE KnowInv'
    OBVIOUS
  <1>1. CASE Next
    BY <1>1, KnowOutsideStep, KnowCrashStep, KnowTakeStep, KnowBlobStep, KnowImportStep, KnowAppendStep,
       KnowMonthStep DEF Next
  <1>2. CASE UNCHANGED vars
    <2>1. /\ UNCHANGED <<clock, servedAt, pc, hour, batches, last, job, todo, journal, out>>
      BY <1>2 DEF vars, fetching, store
    <2> QED
      BY <2>1 DEF KnowInv, ServedInv, CountInv, MemoryInv, HourBlob, HourInHand, WorkInv, Recent, FloorInv,
         Within, Had, Served, AtMost, HourRecords, RowInv, NextRevisionInv, LastRevisionInv, KnowledgeGrows
  <1> QED
    BY <1>1, <1>2

(* Later revisions of an hour know more, whatever was retried, kept in      *)
(* memory, lost in a crash or imported, when each backfill is computed in a *)
(* directory of its own.                                                    *)
THEOREM RevisionsKnowMore ==
    ASSUME ~Reuse
    PROVE  Spec => []KnowledgeGrows
  <1>1. Inv /\ KnowInv /\ [Next]_vars => (Inv /\ KnowInv)'
    BY NextInv, NextKnow
  <1>2. Init => Inv /\ KnowInv
    BY InitInv, InitKnow
  <1>3. Inv /\ KnowInv => KnowledgeGrows
    BY DEF KnowInv
  <1> QED
    BY <1>1, <1>2, <1>3, PTL DEF Spec

-----------------------------------------------------------------------------
(* EveryHourIsRecorded: what the daemon holds in memory.                    *)

(* An hour's blob holds whole batches of it. *)
HourShape(blob) ==
    /\ blob.content_type = "gdelt" /\ blob.request \in Int
    /\ \E P \in SUBSET (BatchStamps(blob.request) \cap DOMAIN Export) :
         blob.body = Compact(blob.request, BatchesOf(blob.request, P))

(* What the daemon holds in memory while it works. *)
HandInv ==
    /\ (last # None \/ HourInHand) => pc \notin {"down", "import"} /\ HourShape(last)
    /\ WorkInv
    /\ pc = "fetch" =>
         /\ batches = [s \in DOMAIN batches |-> batches[s]]
         /\ \A s \in DOMAIN batches : batches[s] # None => batches[s] = ParseExport(Export[s])

LEMMA InitHand == Init => HandInv
  BY DEF Init, HandInv, HourInHand, WorkInv, HourRecords

(* A step that leaves what is in memory alone. *)
LEMMA HandQuietStep ==
    ASSUME HandInv, UNCHANGED <<last>>, pc \in {"down", "import"} \/ pc' \notin {"down", "import"},
           HourInHand' => HourInHand \/ last # None, WorkInv',
           \/ pc' # "fetch"
           \/ pc = "fetch" /\ UNCHANGED batches
    PROVE  HandInv'
  BY DEF HandInv

(* The hour that was fetched. *)
LEMMA HandTakeStep ==
    ASSUME Inv, HandInv, TakeHour
    PROVE  HandInv'
  <1>p. PICK P : P = Present(batches)
    OBVIOUS
  <1>1. /\ UNCHANGED <<clock, todo>> /\ pc = "fetch" /\ pc' = "body" /\ DOMAIN batches = BatchStamps(hour)
        /\ last' = RawBlob("gdelt", hour, Compact(hour, batches), clock) /\ job' = last'
    BY DEF TakeHour, store
  <1>2. hour \in Int /\ begun \in Nat /\ clock \in Nat /\ clock <= begun + MaxFetch
        /\ begun \in Begin..MaxClock /\ hour = LatestHourEnd(begun)
    BY <1>1, ConstantTypes DEF Inv, TypeInv, FetchInv
  <1>3. BatchStamps(hour) \subseteq DOMAIN Export
    BY <1>2, ConstantTypes
  <1>4. Recent(hour)
    <2>1. MaxFetch \in Nat /\ PublishLag \in Nat /\ HOUR \in Nat
      BY ConstantTypes, HourType
    <2>2. begun < hour + HOUR + PublishLag
      BY <1>2, LatestHourFacts
    <2> QED
      BY <1>2, <2>1, <2>2 DEF Recent
  <1>5. batches = BatchesOf(hour, P)
    <2>1. batches = [s \in BatchStamps(hour) |-> batches[s]]
      BY <1>1 DEF HandInv
    <2>2. \A s \in BatchStamps(hour) : batches[s] = IF s \in P THEN ParseExport(Export[s]) ELSE None
      BY <1>p, <1>1 DEF HandInv, Present
    <2>3. [s \in BatchStamps(hour) |-> batches[s]] =
          [s \in BatchStamps(hour) |-> IF s \in P THEN ParseExport(Export[s]) ELSE None]
      BY <2>2, Zenon
    <2> QED
      BY <2>1, <2>3, Zenon DEF BatchesOf
  <1>6. P \in SUBSET (BatchStamps(hour) \cap DOMAIN Export)
    BY <1>p, <1>1, <1>3 DEF Present
  <1>7. last'.content_type = "gdelt" /\ last'.request = hour /\ last'.body = Compact(hour, BatchesOf(hour, P))
    BY <1>1, <1>5 DEF RawBlob
  <1>8. HourShape(last')
    BY <1>2, <1>6, <1>7 DEF HourShape
  <1>9. WorkInv'
    BY <1>1, <1>2, <1>4, <1>7 DEF HandInv, WorkInv, HourInHand, Recent
  <1> QED
    BY <1>1, <1>8, <1>9 DEF HandInv

LEMMA NextHand == Inv /\ HandInv /\ [Next]_vars => HandInv'
  <1> SUFFICES ASSUME Inv, HandInv, [Next]_vars PROVE HandInv'
    OBVIOUS
  <1>0. TypeInv /\ WorkInv
    BY DEF Inv, HandInv
  <1>1. CASE Start \/ Pass \/ Outage \/ GiveUpForNow \/ Unreadable \/ ParseFails
    <2>1. /\ UNCHANGED <<todo, last>> /\ pc \notin {"append", "import"} /\ pc' = "idle"
      BY <1>1 DEF Start, Pass, Outage, GiveUpForNow, Unreadable, ParseFails, Poll
    <2>2. WorkInv'
      BY <1>0, <2>1 DEF WorkInv, HourInHand
    <2> QED
      BY <2>1, <2>2, HandQuietStep DEF HourInHand
  <1>2. CASE Crash
    <2>1. todo' = {} /\ last' = None /\ pc' = "down"
      BY <1>2 DEF Crash
    <2> QED
      BY <2>1 DEF HandInv, WorkInv, HourInHand
  <1>3. CASE Tick
    <2>1. UNCHANGED <<pc, batches, todo, last>> /\ pc \in {"down", "idle", "fetch"}
      BY <1>3 DEF Tick, fetching
    <2>2. WorkInv'
      BY <1>0, <2>1 DEF WorkInv, HourInHand
    <2> QED
      BY <2>1, <2>2, HandQuietStep DEF HourInHand
  <1>4. CASE \/ \E version \in DOMAIN Calendars : Edit(version)
             \/ \E s \in Late : Serve(s)
             \/ BackfillMonth \/ UNCHANGED vars
    <2>1. UNCHANGED <<clock, pc, batches, todo, last, job>>
      BY <1>4 DEF Edit, Serve, BackfillMonth, vars, fetching
    <2>2. WorkInv'
      BY <1>0, <2>1 DEF WorkInv, HourInHand, Recent, HourRecords
    <2> QED
      BY <2>1, <2>2, HandQuietStep DEF HourInHand
  <1>5. CASE PollKept
    <2>1. /\ UNCHANGED <<clock, todo, last>> /\ pc = "idle" /\ pc' = "body" /\ job' = last
          /\ last # None /\ last.request = LatestHourEnd(clock)
      BY <1>5 DEF PollKept, KeptHour, Poll
    <2>2. Recent(last.request)
      <3>1. clock \in Nat /\ MaxFetch \in Nat /\ PublishLag \in Nat /\ HOUR \in Nat
        BY <1>0, ConstantTypes, HourType DEF TypeInv
      <3>2. clock < last.request + HOUR + PublishLag /\ last.request \in Int
        BY <2>1, <3>1, LatestHourFacts
      <3> QED
        BY <3>1, <3>2 DEF Recent
    <2>3. WorkInv'
      BY <1>0, <2>1, <2>2 DEF WorkInv, HourInHand, Recent
    <2> QED
      BY <2>1, <2>3, HandQuietStep DEF HourInHand
  <1>6. CASE PollCalendar \/ PollHour
    <2>1. /\ UNCHANGED <<todo, last>> /\ pc = "idle"
          /\ (pc' = "body" /\ job'.content_type = "cal") \/ (pc' = "fetch" /\ batches' = NoBatches)
      BY <1>6 DEF PollCalendar, PollHour, Poll, RawBlob
    <2>2. WorkInv'
      BY <1>0, <2>1 DEF WorkInv, HourInHand
    <2>3. pc' = "fetch" => batches' = [s \in DOMAIN batches' |-> batches'[s]] /\ DOMAIN batches' = {}
      BY <2>1 DEF NoBatches
    <2> QED
      BY <2>1, <2>2, <2>3 DEF HandInv, HourInHand
  <1>7. CASE Download
    <2> DEFINE s   == Min(BatchStamps(hour) \ DOMAIN batches)
               got == IF s \in DOMAIN Downloads THEN ParseExport(Downloads[s]) ELSE None
    <2>1. /\ pc = "fetch" /\ UNCHANGED <<todo, last, pc>>
          /\ batches' = [t \in DOMAIN batches \cup {s} |-> IF t = s THEN got ELSE batches[t]]
      BY <1>7 DEF Download
    <2>2. got # None => got = ParseExport(Export[s])
      BY DEF Downloads
    <2> HIDE DEF got, s
    <2>3. /\ batches' = [t \in DOMAIN batches' |-> batches'[t]]
          /\ \A t \in DOMAIN batches' : batches'[t] # None => batches'[t] = ParseExport(Export[t])
      BY <2>1, <2>2 DEF HandInv
    <2>4. WorkInv'
      BY <1>0, <2>1 DEF WorkInv, HourInHand
    <2> QED
      BY <2>1, <2>3, <2>4 DEF HandInv, HourInHand
  <1>8. CASE StoreBody \/ StoreMeta
    <2>1. UNCHANGED <<clock, todo, last, job>> /\ pc \in {"body", "meta"} /\ pc' \in {"meta", "ingest"}
      BY <1>8 DEF StoreBody, StoreMeta
    <2>2. WorkInv'
      BY <1>0, <2>1 DEF WorkInv, HourInHand, Recent
    <2> QED
      BY <2>1, <2>2, HandQuietStep DEF HourInHand
  <1>9. CASE IngestBlob
    <2>1. /\ UNCHANGED <<clock, last>> /\ pc = "ingest" /\ pc' \in {"idle", "append"}
          /\ todo' = Ingest(job.content_type, Parse(job), "observed", Sha256(job))
          /\ pc' # "append" => todo' = {}
      BY <1>9 DEF IngestBlob
    <2>2. ASSUME NEW r \in todo', r.ds = "gdelt"
          PROVE  Recent(r.effective_at)
      <3>1. PICK c \in Parse(job) : r.ds = job.content_type /\ r.effective_at = c.effective_at
        BY <2>1, IngestMakes
      <3>2. job.content_type = "gdelt" /\ HourInHand /\ HourShape(job) /\ Recent(job.request)
        BY <1>0, <2>1, <2>2, <3>1 DEF HourInHand, HandInv, WorkInv
      <3>3. PICK h \in Int : h = job.request
        BY <3>2 DEF HourShape
      <3>4. PICK P \in SUBSET (BatchStamps(h) \cap DOMAIN Export) : job.body = Compact(h, BatchesOf(h, P))
        BY <3>2, <3>3 DEF HourShape
      <3>5. c.effective_at = h
        BY <3>1, <3>2, <3>4, HourFacts DEF Parse
      <3> QED
        BY <3>1, <3>2, <3>3, <3>5
    <2>3. WorkInv'
      BY <2>1, <2>2 DEF WorkInv, HourInHand, HourRecords, Recent
    <2> QED
      BY <2>1, <2>3, HandQuietStep DEF HourInHand
  <1>10. CASE (\E r \in todo : Append1(r)) \/ ImportHours \/ ImportCalendar
    <2>1. CASE \E r \in todo : Append1(r)
      <3>1. /\ UNCHANGED <<clock, last, job>> /\ pc \in {"append", "import"} /\ todo' \subseteq todo
            /\ pc' = IF todo' # {} THEN pc ELSE IF pc = "append" THEN "idle" ELSE "down"
        BY <2>1 DEF Append1
      <3>2. WorkInv'
        BY <1>0, <3>1 DEF WorkInv, HourInHand, HourRecords, Recent
      <3> QED
        BY <3>1, <3>2, HandQuietStep DEF HourInHand
    <2>2. CASE ImportHours \/ ImportCalendar
      <3>1. UNCHANGED last /\ pc = "down" /\ pc' = "import"
        BY <2>2 DEF ImportHours, ImportCalendar, Import
      <3>2. WorkInv'
        BY <3>1 DEF WorkInv, HourInHand
      <3> QED
        BY <3>1, <3>2, HandQuietStep DEF HourInHand
    <2> QED
      BY <1>10, <2>1, <2>2
  <1> QED
    BY <1>1, <1>2, <1>3, <1>4, <1>5, <1>6, <1>7, <1>8, <1>9, <1>10, HandTakeStep DEF Next

-----------------------------------------------------------------------------
(* EveryHourIsRecorded: when the scheduler gets to a source.                *)

Up == pc \notin {"down", "import"}

(* The scheduler's pass: no time passes within it, the calendar is polled   *)
(* before the hour, and no later than a fetch after it was due.             *)
PassInv ==
    /\ due \in [Sources -> Nat] /\ queue \in SUBSET Sources
    /\ queue # {} => now = clock /\ pc \notin {"down", "import", "fetch"}
    /\ (queue # {} /\ "cal" \notin queue) => clock < due["cal"]
    /\ pc = "fetch" => due["gdelt"] = begun + Every["gdelt"] /\ begun < due["cal"]
    /\ Up => clock <= due["cal"] + MaxFetch /\ due["cal"] <= clock + Every["cal"]

LEMMA Intervals ==
    /\ Every["gdelt"] \in Nat /\ Every["gdelt"] >= 1 /\ Every["cal"] \in Nat /\ Every["cal"] >= 1
    /\ Every["gdelt"] <= HOUR /\ GapFinal + Every["gdelt"] <= HOUR + PublishLag
    /\ MaxFetch <= HOUR /\ PublishLag <= GapFinal
  <1>1. /\ Every["gdelt"] \in Nat /\ Every["gdelt"] >= 1 /\ Every["cal"] \in Nat /\ Every["cal"] >= 1
        /\ GapFinal + Every["gdelt"] <= HOUR + PublishLag
        /\ MaxFetch <= HOUR /\ PublishLag <= GapFinal
    BY CollectorsAssumption
  <1>2. GapFinal \in Nat /\ PublishLag \in Nat /\ HOUR \in Nat
    BY ConstantTypes, HourType
  <1> QED
    BY <1>1, <1>2

(* _poll_due goes through the sources in the order of the registry. *)
LEMMA PollFacts ==
    ASSUME TypeInv, PassInv, NEW s, Poll(s)
    PROVE  /\ s \in queue /\ pc = "idle" /\ now = clock /\ clock \in Nat
           /\ queue' = queue \ {s} /\ due' = [due EXCEPT ![s] = clock + Every[s]]
           /\ s = "gdelt" => queue' = {} /\ clock < due["cal"]
  <1>1. /\ pc = "idle" /\ queue # {} /\ s = Registry[Min({i \in DOMAIN Registry : Registry[i] \in queue})]
        /\ queue' = queue \ {s} /\ due' = [due EXCEPT ![s] = now + Every[s]]
    BY DEF Poll
  <1>2. DOMAIN Registry = {1, 2} /\ Registry[1] = "cal" /\ Registry[2] = "gdelt"
    BY DEF Registry
  <1> DEFINE I == {i \in DOMAIN Registry : Registry[i] \in queue}
  <1>3. I \in SUBSET Int /\ I # {} /\ \A i \in I : 1 <= i
    <2>1. PICK q \in queue : q = "cal" \/ q = "gdelt"
      BY <1>1 DEF PassInv, Sources
    <2>2. 1 \in I \/ 2 \in I
      BY <1>2, <2>1, Zenon
    <2> QED
      BY <1>2, <2>2
  <1>4. Min(I) \in I /\ \A i \in I : Min(I) <= i
    <2> HIDE DEF I
    <2>1. 1 \in Int
      OBVIOUS
    <2> QED
      BY <1>3, <2>1, MinOfBounded
  <1>5. PICK m : m = Min(I)
    OBVIOUS
  <1>6. s = Registry[m] /\ m \in {1, 2} /\ Registry[m] \in queue /\ ("cal" \in queue => m <= 1)
    BY <1>1, <1>2, <1>4, <1>5
  <1>7. now = clock /\ clock \in Nat
    BY <1>1, ConstantTypes DEF PassInv, TypeInv
  <1>8. s = "gdelt" => "cal" \notin queue
    <2> SUFFICES ASSUME "cal" \in queue PROVE s # "gdelt"
      OBVIOUS
    <2>1. m = 1
      BY <1>6
    <2> QED
      BY <1>2, <1>6, <2>1
  <1> QED
    BY <1>1, <1>6, <1>7, <1>8 DEF PassInv, Sources

LEMMA InitPass == Init => PassInv
  <1> SUFFICES ASSUME Init PROVE PassInv
    OBVIOUS
  <1>1. /\ due = [s \in Sources |-> Begin] /\ queue = {} /\ pc = "idle" /\ clock = Begin
    BY DEF Init
  <1>2. due \in [Sources -> Nat] /\ due["cal"] = Begin
    BY <1>1, ConstantTypes DEF Sources
  <1> QED
    BY <1>1, <1>2, Intervals, ConstantTypes DEF PassInv

LEMMA NextPass == Inv /\ PassInv /\ [Next]_vars => PassInv'
  <1> SUFFICES ASSUME Inv, PassInv, [Next]_vars PROVE PassInv'
    OBVIOUS
  <1>0. /\ TypeInv /\ clock \in Nat /\ due["cal"] \in Nat /\ due["gdelt"] \in Nat
        /\ MaxFetch \in Nat /\ Every["cal"] \in Nat
    BY ConstantTypes, Intervals DEF Inv, TypeInv, PassInv, Sources
  <1>1. CASE Start
    <2>1. /\ pc = "down" /\ pc' = "idle" /\ due' = [s \in Sources |-> clock] /\ UNCHANGED <<clock, queue>>
      BY <1>1 DEF Start
    <2>2. due' \in [Sources -> Nat] /\ due'["cal"] = clock
      BY <1>0, <2>1 DEF Sources
    <2> QED
      BY <1>0, <2>1, <2>2 DEF PassInv, Up
  <1>2. CASE Crash
    <2>1. due' = [s \in Sources |-> 0] /\ queue' = {} /\ pc' = "down"
      BY <1>2 DEF Crash
    <2> QED
      BY <2>1 DEF PassInv, Up
  <1>3. CASE Tick
    <2>1. /\ UNCHANGED <<pc, due, now, queue, begun>> /\ clock' = clock + 1 /\ pc \in {"down", "idle", "fetch"}
          /\ pc = "idle" => queue = {} /\ clock < due["cal"]
          /\ pc = "fetch" => clock < begun + MaxFetch
      BY <1>3 DEF Tick, pass, fetching, Sources
    <2>2. queue = {}
      BY <2>1 DEF PassInv
    <2>3. Up' => clock' <= due["cal"] + MaxFetch /\ due["cal"] <= clock' + Every["cal"]
      <3>1. CASE pc = "idle"
        BY <1>0, <2>1, <3>1 DEF PassInv, Up
      <3>2. CASE pc = "fetch"
        <4>1. begun \in Nat /\ begun < due["cal"]
          BY <3>2 DEF PassInv, Inv, FetchInv
        <4> QED
          BY <1>0, <2>1, <3>2, <4>1 DEF PassInv, Up
      <3> QED
        BY <2>1, <3>1, <3>2 DEF Up
    <2> QED
      BY <2>1, <2>2, <2>3 DEF PassInv
  <1>4. CASE \/ \E version \in DOMAIN Calendars : Edit(version)
             \/ \E s \in Late : Serve(s)
             \/ BackfillMonth \/ UNCHANGED vars \/ Download
    <2>1. UNCHANGED <<clock, pc, due, now, queue, begun>>
      BY <1>4 DEF Edit, Serve, BackfillMonth, Download, vars, pass, fetching
    <2> QED
      BY <2>1 DEF PassInv, Up
  <1>5. CASE Pass
    <2>1. /\ pc = "idle" /\ now' = clock /\ queue' = {s \in Sources : due[s] <= clock}
          /\ UNCHANGED <<clock, pc, due, begun>>
      BY <1>5 DEF Pass, fetching
    <2>2. "cal" \notin queue' => clock < due["cal"]
      BY <1>0, <2>1 DEF Sources
    <2> QED
      BY <2>1, <2>2 DEF PassInv, Up
  <1>6. CASE PollKept \/ PollHour
    <2>1. Poll("gdelt") /\ UNCHANGED clock /\ (pc' = "body" \/ (pc' = "fetch" /\ begun' = clock))
      BY <1>6 DEF PollKept, PollHour
    <2>2. /\ pc = "idle" /\ queue' = {} /\ due' = [due EXCEPT !["gdelt"] = clock + Every["gdelt"]]
          /\ clock < due["cal"]
      BY <1>0, <2>1, PollFacts
    <2>3. due' \in [Sources -> Nat] /\ due'["cal"] = due["cal"] /\ due'["gdelt"] = clock + Every["gdelt"]
      BY <1>0, <2>2, Intervals DEF PassInv, Sources
    <2> QED
      BY <2>1, <2>2, <2>3 DEF PassInv, Up
  <1>7. CASE PollCalendar \/ Unreadable
    <2>1. Poll("cal") /\ UNCHANGED clock /\ pc' \in {"idle", "body"}
      BY <1>7 DEF PollCalendar, Unreadable, Poll
    <2>2. /\ queue' = queue \ {"cal"} /\ due' = [due EXCEPT !["cal"] = clock + Every["cal"]]
          /\ now = clock /\ UNCHANGED now /\ pc = "idle"
      BY <1>0, <2>1, PollFacts DEF Poll
    <2>3. due' \in [Sources -> Nat] /\ due'["cal"] = clock + Every["cal"] /\ clock < due'["cal"]
      BY <1>0, <2>2, Intervals DEF PassInv, Sources
    <2>4. queue' \in SUBSET Sources
      BY <2>2 DEF PassInv
    <2> QED
      BY <1>0, <2>1, <2>2, <2>3, <2>4 DEF PassInv, Up
  <1>8. CASE Outage \/ GiveUpForNow \/ TakeHour \/ StoreBody \/ StoreMeta \/ IngestBlob \/ ParseFails
    <2>1. UNCHANGED <<clock, due, now, queue>> /\ pc' \in {"idle", "body", "meta", "ingest", "append"} /\ Up
      BY <1>8 DEF Outage, GiveUpForNow, TakeHour, StoreBody, StoreMeta, IngestBlob, ParseFails, pass, Up
    <2> QED
      BY <2>1 DEF PassInv, Up
  <1>9. CASE (\E r \in todo : Append1(r)) \/ ImportHours \/ ImportCalendar
    <2>1. /\ UNCHANGED <<clock, due, now, queue>>
          /\ (pc \in {"down", "import"} /\ pc' \in {"down", "import"}) \/ (pc = "append" /\ pc' \in {"append", "idle"})
      BY <1>9 DEF Append1, ImportHours, ImportCalendar, Import, pass
    <2> QED
      BY <2>1 DEF PassInv, Up
  <1> QED
    BY <1>1, <1>2, <1>3, <1>4, <1>5, <1>6, <1>7, <1>8, <1>9 DEF Next

-----------------------------------------------------------------------------
(* EveryHourIsRecorded: an hour is done, pending, in work or lapsed.         *)

(* What is recorded, or will be unless the daemon dies. *)
Kept == journal \cup (IF pc = "append" THEN todo ELSE {})

(* An hour is done when every region of its batches has a record, and the   *)
(* batches it was done without are final gaps.                              *)
Final(h, P) == \A s \in BatchStamps(h) \ P :
    clock >= h + GapFinal - MaxFetch /\ NotServedBefore(s, h + GapFinal - MaxFetch)
Done(h) == \E P \in SUBSET (BatchStamps(h) \cap DOMAIN Export) :
    /\ Final(h, P)
    /\ \A r \in DOMAIN Regions : Covers(r, P) =>
         \E x \in HourRecords(Kept) : x.scope = r /\ x.effective_at = h

(* Or it is still to come: the next poll is before the hour is hidden. *)
Pending(h) ==
    /\ clock < h + HOUR + PublishLag
    /\ Up => due["gdelt"] < h + HOUR + PublishLag

(* Or it is being worked on. *)
Working(h) == \/ pc = "fetch" /\ hour = h
              \/ HourInHand /\ job.request = h

Standing(h) == Done(h) \/ Pending(h) \/ Working(h)
HoursInv == \A h \in Hours \ lapsed : LatestHourEnd(Begin) <= h /\ Standing(h)

LEMMA HoursType ==
    ASSUME NEW h \in Hours
    PROVE  h \in Int /\ h > 0 /\ IsHour(h)
  <1>1. PICK n \in Nat : n = HOUR /\ n >= 1
    BY HourType
  <1>2. MaxClock \in Nat /\ MaxClock \div n \in Int
    BY <1>1, ConstantTypes
  <1>3. PICK i \in 1..(MaxClock \div n) : h = n * i
    BY <1>1 DEF Hours
  <1>4. i \in Int /\ i >= 1
    BY <1>2
  <1>5. n * i \in Int /\ n * i >= 1
    BY <1>1, <1>4
  <1> QED
    BY <1>1, <1>3, <1>4, <1>5 DEF IsHour

(* The hour that is being fetched when another is the one to be. *)
LEMMA OneHour ==
    ASSUME NEW t \in Nat, NEW h \in Int, IsHour(h), t < h + HOUR + PublishLag, LatestHourEnd(t) # h
    PROVE  t < h + PublishLag
  <1>1. PICK g \in Int : /\ g = LatestHourEnd(t) /\ IsHour(g)
                         /\ g + PublishLag <= t /\ t < g + HOUR + PublishLag
    BY LatestHourFacts
  <1>2. HOUR \in Nat /\ PublishLag \in Nat
    BY HourType, ConstantTypes
  <1>3. (g < h => g + HOUR <= h) /\ (h < g => h + HOUR <= g)
    BY <1>1, HoursApart
  <1> QED
    BY <1>1, <1>2, <1>3

LEMMA DoneStays ==
    ASSUME TypeInv, WorldStep, NEW h \in Int, Done(h),
           \A x \in HourRecords(Kept) : x.effective_at = h => x \in Kept'
    PROVE  Done(h)'
  <1>1. PICK P \in SUBSET (BatchStamps(h) \cap DOMAIN Export) :
           /\ Final(h, P)
           /\ \A r \in DOMAIN Regions : Covers(r, P) =>
                \E x \in HourRecords(Kept) : x.scope = r /\ x.effective_at = h
    BY DEF Done
  <1>2. h + GapFinal - MaxFetch \in Int /\ clock \in Int /\ clock' \in Int /\ clock <= clock'
    BY ConstantTypes DEF TypeInv, WorldStep
  <1>3. Final(h, P)'
    <2> SUFFICES ASSUME NEW s \in BatchStamps(h) \ P
                 PROVE  /\ clock' >= h + GapFinal - MaxFetch
                        /\ NotServedBefore(s, h + GapFinal - MaxFetch)'
      BY DEF Final
    <2>1. clock >= h + GapFinal - MaxFetch /\ NotServedBefore(s, h + GapFinal - MaxFetch)
      BY <1>1 DEF Final
    <2>2. PICK since \in Int : since = h + GapFinal - MaxFetch
      BY <1>2
    <2>3. NotServedBefore(s, since)'
      BY <2>1, <2>2, MissingStaysMissing
    <2> QED
      BY <1>2, <2>1, <2>2, <2>3 DEF NotServedBefore
  <1>4. \A x \in HourRecords(Kept) : x.effective_at = h => x \in HourRecords(Kept)'
    BY DEF HourRecords
  <1>5. \A r \in DOMAIN Regions : Covers(r, P) =>
           \E x \in HourRecords(Kept)' : x.scope = r /\ x.effective_at = h
    BY <1>1, <1>4, Zenon
  <1> QED
    BY <1>3, <1>5, Zenon DEF Done

(* A step that takes no time and loses nothing. *)
LEMMA StandingQuiet ==
    ASSUME TypeInv, WorldStep, NEW h \in Int, Standing(h), UNCHANGED clock,
           \A x \in HourRecords(Kept) : x.effective_at = h => x \in Kept',
           Up' => due'["gdelt"] = clock \/ (Up /\ due'["gdelt"] = due["gdelt"]),
           Working(h) => Standing(h)'
    PROVE  Standing(h)'
  <1>1. CASE Done(h)
    BY <1>1, DoneStays DEF Standing
  <1>2. CASE Pending(h)
    BY <1>2 DEF Pending, Standing
  <1> QED
    BY <1>1, <1>2 DEF Standing

LEMMA StandingOutside ==
    ASSUME Inv, HandInv, PassInv, Next, NEW h \in Int, Standing(h),
           \/ Start \/ Pass \/ PollCalendar \/ Unreadable \/ ParseFails \/ StoreBody \/ StoreMeta
           \/ BackfillMonth \/ ImportHours \/ ImportCalendar \/ Download
           \/ \E version \in DOMAIN Calendars : Edit(version)
           \/ \E s \in Late : Serve(s)
    PROVE  Standing(h)'
  <1>0. TypeInv /\ WorldStep
    BY StepOfWorld DEF Inv
  <1>1. \/ UNCHANGED <<clock, journal>> /\ pc # "append"
        \/ UNCHANGED <<clock, journal, pc, todo>>
    BY DEF Start, Pass, PollCalendar, Unreadable, ParseFails, StoreBody, StoreMeta, BackfillMonth, ImportHours,
           ImportCalendar, Import, Download, Edit, Serve, store, Poll
  <1>2. UNCHANGED clock /\ Kept \subseteq Kept'
    BY <1>1 DEF Kept
  <1>3. \A x \in HourRecords(Kept) : x \in Kept'
    BY <1>2 DEF HourRecords
  <1>4. Up' => due'["gdelt"] = clock \/ (Up /\ due'["gdelt"] = due["gdelt"])
    <2>1. CASE Start
      BY <2>1 DEF Start, Sources
    <2>2. CASE PollCalendar \/ Unreadable
      <3>1. Poll("cal")
        BY <2>2 DEF PollCalendar, Unreadable
      <3>2. pc = "idle" /\ due' = [due EXCEPT !["cal"] = clock + Every["cal"]]
        BY <1>0, <3>1, PollFacts
      <3> QED
        BY <3>2 DEF PassInv, Sources, Up
    <2>3. CASE Pass \/ ParseFails \/ StoreBody \/ StoreMeta \/ BackfillMonth \/ Download
               \/ (\E version \in DOMAIN Calendars : Edit(version)) \/ (\E s \in Late : Serve(s))
      BY <2>3 DEF Pass, ParseFails, StoreBody, StoreMeta, BackfillMonth, Download, Edit, Serve, pass, Up
    <2>4. CASE ImportHours \/ ImportCalendar
      BY <2>4 DEF ImportHours, ImportCalendar, Import, Up
    <2> QED
      BY <2>1, <2>2, <2>3, <2>4
  <1>5. ASSUME Working(h) PROVE Working(h)'
    <2>1. CASE Start \/ Pass \/ PollCalendar \/ Unreadable \/ ImportHours \/ ImportCalendar
      <3>1. pc \in {"idle", "down"}
        BY <2>1 DEF Start, Pass, PollCalendar, Unreadable, ImportHours, ImportCalendar, Import, Poll
      <3> QED
        BY <1>5, <3>1 DEF Working, HourInHand
    <2>2. CASE ParseFails
      <3>1. pc = "ingest" /\ job.content_type = "cal"
        BY <2>2 DEF ParseFails, Broken
      <3> QED
        BY <1>5, <3>1 DEF Working, HourInHand
    <2>3. CASE StoreBody \/ StoreMeta
      BY <1>5, <2>3 DEF StoreBody, StoreMeta, Working, HourInHand
    <2>4. CASE BackfillMonth \/ Download
               \/ (\E version \in DOMAIN Calendars : Edit(version)) \/ (\E s \in Late : Serve(s))
      <3>1. UNCHANGED <<pc, hour, job>>
        BY <2>4 DEF BackfillMonth, Download, Edit, Serve, fetching
      <3> QED
        BY <1>5, <3>1 DEF Working, HourInHand
    <2> QED
      BY <2>1, <2>2, <2>3, <2>4
  <1> QED
    BY <1>0, <1>2, <1>3, <1>4, <1>5, StandingQuiet DEF Standing

LEMMA StandingAppend ==
    ASSUME Inv, Next, NEW h \in Int, Standing(h), NEW x \in todo, Append1(x)
    PROVE  Standing(h)'
  <1>0. TypeInv /\ WorldStep
    BY StepOfWorld DEF Inv
  <1>1. /\ UNCHANGED <<clock, due, job, hour>> /\ pc \in {"append", "import"}
        /\ journal' = journal \cup {x} /\ todo' = todo \ {x}
        /\ pc' = IF todo' # {} THEN pc ELSE IF pc = "append" THEN "idle" ELSE "down"
    BY DEF Append1, pass, fetching
  <1>2. Kept \subseteq Kept'
    BY <1>1 DEF Kept
  <1>3. \A r \in HourRecords(Kept) : r \in Kept'
    BY <1>2 DEF HourRecords
  <1>4. Up' => Up /\ due'["gdelt"] = due["gdelt"]
    BY <1>1 DEF Up
  <1>5. ~Working(h)
    BY <1>1 DEF Working, HourInHand
  <1> QED
    BY <1>0, <1>1, <1>3, <1>4, <1>5, StandingQuiet

(* The hour taken is in hand; what is in hand is ingested. *)
LEMMA StandingTake ==
    ASSUME Inv, Next, NEW h \in Int, Standing(h), TakeHour
    PROVE  Standing(h)'
  <1>0. TypeInv /\ WorldStep
    BY StepOfWorld DEF Inv
  <1>1. /\ UNCHANGED <<clock, due, journal, todo>> /\ pc = "fetch" /\ pc' = "body"
        /\ job' = RawBlob("gdelt", hour, Compact(hour, batches), clock)
    BY DEF TakeHour, pass, store
  <1>2. \A r \in HourRecords(Kept) : r \in Kept'
    BY <1>1 DEF HourRecords, Kept
  <1>3. Up' => Up /\ due'["gdelt"] = due["gdelt"]
    BY <1>1 DEF Up
  <1>4. ASSUME Working(h) PROVE Working(h)'
    <2>1. hour = h
      BY <1>1, <1>4 DEF Working, HourInHand
    <2>2. job'.request = h /\ job'.content_type = "gdelt"
      BY <1>1, <2>1 DEF RawBlob
    <2> QED
      BY <1>1, <2>2 DEF Working, HourInHand
  <1> QED
    BY <1>0, <1>1, <1>2, <1>3, <1>4, StandingQuiet DEF Standing

LEMMA StandingIngest ==
    ASSUME Inv, HandInv, Next, NEW h \in Int, Standing(h), IngestBlob
    PROVE  Standing(h)'
  <1>0. TypeInv /\ WorldStep
    BY StepOfWorld DEF Inv
  <1>1. /\ UNCHANGED <<clock, servedAt, due, journal>> /\ pc = "ingest"
        /\ todo' = Ingest(job.content_type, Parse(job), "observed", Sha256(job))
        /\ pc' = IF todo' = {} THEN "idle" ELSE "append"
    BY DEF IngestBlob, pass, store
  <1>2. journal \subseteq Kept' /\ todo' \subseteq Kept' /\ Kept = journal
    BY <1>1 DEF Kept
  <1>3. \A r \in HourRecords(Kept) : r \in Kept'
    BY <1>2 DEF HourRecords
  <1>4. Up' => Up /\ due'["gdelt"] = due["gdelt"]
    BY <1>1 DEF Up
  <1>5. ASSUME Working(h) PROVE Done(h)'
    <2>1. HourInHand /\ job.request = h /\ job.content_type = "gdelt"
      BY <1>1, <1>5 DEF Working, HourInHand
    <2>2. HourShape(job) /\ GoodBlob(job)
      BY <1>1, <2>1 DEF HandInv, WorkInv, Inv, BlobInv
    <2>3. PICK P \in SUBSET (BatchStamps(h) \cap DOMAIN Export) : job.body = Compact(h, BatchesOf(h, P))
      BY <2>1, <2>2 DEF HourShape
    <2>4. /\ job.body.hour_end = h
          /\ \A s \in BatchStamps(h) : s \notin P => ~job.body.header[s]
      <3>1. /\ Compact(h, BatchesOf(h, P)).hour_end = h
            /\ Compact(h, BatchesOf(h, P)).header =
                 [s \in DOMAIN BatchesOf(h, P) |-> BatchesOf(h, P)[s] # None]
        BY DEF Compact
      <3>2. DOMAIN BatchesOf(h, P) = BatchStamps(h)
            /\ \A s \in BatchStamps(h) : s \notin P => BatchesOf(h, P)[s] = None
        BY DEF BatchesOf
      <3> QED
        BY <2>3, <3>1, <3>2
    <2>5. Final(h, P)
      BY <2>1, <2>2, <2>4 DEF GoodBlob, GoodHour, Final
    <2>6. Final(h, P)'
      BY <1>1, <2>5 DEF Final, NotServedBefore
    <2>7. Parse(job) = HourCandidates(h, BatchesOf(h, P))
      BY <2>1, <2>3, HourFacts DEF Parse
    <2>8. ASSUME NEW r \in DOMAIN Regions, Covers(r, P)
          PROVE  \E x \in HourRecords(Kept)' : x.scope = r /\ x.effective_at = h
      <3>1. PICK c \in Parse(job) : c.scope = r /\ c.effective_at = h
        BY <2>7, <2>8, HourFacts
      <3>2. CASE OfKey("gdelt", c) # {}
        <4>1. PICK x \in journal : x.ds = "gdelt" /\ x.scope = r /\ x.effective_at = h
          BY <3>1, <3>2 DEF OfKey
        <4> QED
          BY <1>2, <4>1 DEF HourRecords
      <3>3. CASE OfKey("gdelt", c) = {}
        <4>1. Stamp(c, "observed") <= clock + Skew
          <5>1. clock \in Nat /\ Skew \in Nat
            BY <1>0, ConstantTypes, CollectorsAssumption DEF TypeInv
          <5> QED
            BY <5>1 DEF Stamp
        <4>2. PICK x \in todo' : x.ds = "gdelt" /\ x.scope = r /\ x.effective_at = h
          BY <1>1, <2>1, <3>1, <3>3, <4>1, IngestMakes
        <4> QED
          BY <1>2, <4>2 DEF HourRecords
      <3> QED
        BY <3>2, <3>3
    <2> QED
      BY <2>6, <2>8, Zenon DEF Done
  <1> QED
    BY <1>0, <1>1, <1>3, <1>4, <1>5, StandingQuiet DEF Standing

LEMMA StandingPoll ==
    ASSUME Inv, HandInv, PassInv, Next, NEW h \in Int, IsHour(h), Standing(h), PollKept \/ PollHour
    PROVE  Standing(h)'
  <1>0. TypeInv /\ WorldStep
    BY StepOfWorld DEF Inv
  <1>1. /\ UNCHANGED <<clock, journal, todo>> /\ Poll("gdelt")
        /\ \/ pc' = "body" /\ job' = last /\ last # None /\ last.request = LatestHourEnd(clock)
           \/ pc' = "fetch" /\ hour' = LatestHourEnd(clock)
    BY DEF PollKept, PollHour, KeptHour, store
  <1>2. pc = "idle" /\ due' = [due EXCEPT !["gdelt"] = clock + Every["gdelt"]] /\ clock \in Nat
    BY <1>0, <1>1, PollFacts
  <1>3. due'["gdelt"] = clock + Every["gdelt"]
    BY <1>2 DEF PassInv, Sources
  <1>4. CASE Done(h)
    <2>1. \A r \in HourRecords(Kept) : r \in Kept'
      BY <1>1, <1>2 DEF HourRecords, Kept
    <2> QED
      BY <1>0, <1>4, <2>1, DoneStays DEF Standing
  <1>5. CASE Pending(h) /\ LatestHourEnd(clock) = h
    <2>1. last # None => last.content_type = "gdelt"
      BY DEF HandInv, HourShape
    <2> QED
      BY <1>1, <1>5, <2>1 DEF Standing, Working, HourInHand
  <1>6. CASE Pending(h) /\ LatestHourEnd(clock) # h
    <2>1. clock < h + PublishLag
      BY <1>2, <1>6, OneHour DEF Pending
    <2>2. HOUR \in Nat /\ PublishLag \in Nat /\ Every["gdelt"] \in Nat /\ Every["gdelt"] <= HOUR
      BY ConstantTypes, HourType, Intervals
    <2>3. clock < h + HOUR + PublishLag /\ due'["gdelt"] < h + HOUR + PublishLag
      BY <1>2, <1>3, <2>1, <2>2
    <2> QED
      BY <1>1, <2>3 DEF Standing, Pending
  <1> QED
    BY <1>2, <1>4, <1>5, <1>6 DEF Standing, Working, HourInHand

LEMMA StandingTick ==
    ASSUME Inv, PassInv, Next, NEW h \in Int, IsHour(h), h > 0, Standing(h), Tick, h \notin lapsed'
    PROVE  Standing(h)'
  <1>0. TypeInv /\ WorldStep /\ clock \in Nat /\ due["gdelt"] \in Nat
    BY StepOfWorld, ConstantTypes DEF Inv, TypeInv, PassInv, Sources
  <1>1. /\ UNCHANGED <<pc, due, hour, journal, todo>> /\ clock' = clock + 1 /\ pc \in {"down", "idle", "fetch"}
        /\ pc = "idle" => clock < due["gdelt"]
        /\ pc = "fetch" => clock < begun + MaxFetch
        /\ pc = "down" => h \notin AtStake
    BY DEF Tick, pass, fetching, store, Sources
  <1>2. /\ HOUR \in Nat /\ PublishLag \in Nat /\ MaxFetch \in Nat /\ GapFinal \in Nat
        /\ Every["gdelt"] \in Nat /\ Every["gdelt"] >= 1 /\ MaxFetch <= HOUR
        /\ GapFinal + Every["gdelt"] <= HOUR + PublishLag
    BY ConstantTypes, HourType, Intervals
  <1>3. CASE Done(h)
    <2>1. \A r \in HourRecords(Kept) : r \in Kept'
      BY <1>1 DEF HourRecords, Kept
    <2> QED
      BY <1>0, <1>3, <2>1, DoneStays DEF Standing
  <1>4. CASE Working(h)
    BY <1>1, <1>4 DEF Standing, Working, HourInHand
  <1>5. CASE Pending(h) /\ ~Working(h)
    <2>0. clock < h + HOUR + PublishLag /\ (Up => due["gdelt"] < h + HOUR + PublishLag)
      BY <1>5 DEF Pending
    <2>1. clock + 1 < h + HOUR + PublishLag
      <3>1. CASE pc = "idle"
        BY <1>0, <1>1, <1>2, <2>0, <3>1 DEF Up
      <3>2. CASE pc = "fetch"
        <4>1. begun \in Nat /\ hour = LatestHourEnd(begun) /\ due["gdelt"] = begun + Every["gdelt"]
          BY <3>2 DEF Inv, FetchInv, PassInv
        <4>2. due["gdelt"] < h + HOUR + PublishLag
          BY <2>0, <3>2 DEF Up
        <4>3. begun < h + HOUR + PublishLag
          BY <1>2, <4>1, <4>2
        <4>4. hour # h
          BY <1>5, <3>2 DEF Working
        <4>5. begun < h + PublishLag
          BY <4>1, <4>3, <4>4, OneHour
        <4> QED
          BY <1>0, <1>1, <1>2, <3>2, <4>1, <4>5
      <3>3. CASE pc = "down" /\ clock + 1 >= h + HOUR + PublishLag
        <4>1. LatestHourEnd(clock) = h
          <5>1. clock >= h + PublishLag
            BY <1>0, <1>2, <3>3, HourType
          <5> QED
            BY <1>0, <1>2, <2>0, <5>1, OneHour
        <4>2. clock >= h + GapFinal - MaxFetch
          BY <1>0, <1>2, <3>3
        <4>3. h \in AtStake
          BY <4>1, <4>2 DEF AtStake
        <4> QED
          BY <1>1, <3>3, <4>3
      <3> QED
        BY <1>0, <1>1, <1>2, <3>1, <3>2, <3>3
    <2> QED
      BY <1>1, <2>0, <2>1 DEF Standing, Pending, Up
  <1> QED
    BY <1>3, <1>4, <1>5 DEF Standing

(* A fault while an hour is worked on costs it, or comes early enough.      *)
LEMMA StandingFault ==
    ASSUME Inv, HandInv, PassInv, Next, NEW h \in Int, h > 0, Standing(h), Crash \/ Outage, h \notin lapsed'
    PROVE  Standing(h)'
  <1>0. TypeInv /\ WorldStep /\ clock \in Nat /\ due["gdelt"] \in Nat
    BY StepOfWorld, ConstantTypes DEF Inv, TypeInv, PassInv, Sources
  <1>1. /\ UNCHANGED <<clock, journal>> /\ h \notin AtStake
        /\ \/ pc' = "down"
           \/ pc = "fetch" /\ pc' = "idle" /\ UNCHANGED due
    BY DEF Crash, Outage, store, pass
  <1>2. /\ HOUR \in Nat /\ PublishLag \in Nat /\ MaxFetch \in Nat /\ GapFinal \in Nat
        /\ Every["gdelt"] \in Nat /\ GapFinal + Every["gdelt"] <= HOUR + PublishLag
    BY ConstantTypes, HourType, Intervals
  <1>3. ASSUME h \in InHand
        PROVE  Pending(h)'
    <2>1. clock < h + GapFinal - MaxFetch
      BY <1>0, <1>1, <1>2, <1>3 DEF AtStake
    <2>2. clock < h + HOUR + PublishLag
      BY <1>0, <1>2, <2>1
    <2>3. CASE pc' = "down"
      BY <1>1, <2>2, <2>3 DEF Pending, Up
    <2>4. CASE pc = "fetch" /\ UNCHANGED due
      <3>1. begun \in Nat /\ begun <= clock /\ due["gdelt"] = begun + Every["gdelt"]
        BY <2>4 DEF Inv, FetchInv, PassInv
      <3>2. due["gdelt"] < h + HOUR + PublishLag
        BY <1>0, <1>2, <2>1, <3>1
      <3> QED
        BY <1>1, <2>2, <2>4, <3>2 DEF Pending
    <2> QED
      BY <1>1, <2>3, <2>4
  <1>4. CASE Done(h)
    <2>1. CASE \E x \in HourRecords(todo) : x.effective_at = h
      <3>1. h \in InHand
        BY <2>1 DEF InHand, HourRecords
      <3> QED
        BY <1>3, <3>1 DEF Standing
    <2>2. CASE \A x \in HourRecords(todo) : x.effective_at # h
      <3>1. \A x \in HourRecords(Kept) : x.effective_at = h => x \in Kept'
        BY <1>1, <2>2 DEF HourRecords, Kept
      <3> QED
        BY <1>0, <1>4, <3>1, DoneStays DEF Standing
    <2> QED
      BY <2>1, <2>2
  <1>5. CASE Pending(h)
    BY <1>1, <1>5 DEF Standing, Pending, Up
  <1>6. CASE Working(h)
    <2>1. CASE pc = "fetch" /\ hour = h
      <3>1. h \in InHand
        BY <2>1 DEF InHand
      <3> QED
        BY <1>3, <3>1 DEF Standing
    <2>2. CASE HourInHand /\ job.request = h
      <3>1. h \in InHand
        BY <2>2 DEF InHand, HourInHand
      <3> QED
        BY <1>3, <3>1 DEF Standing
    <2> QED
      BY <1>6, <2>1, <2>2 DEF Working
  <1> QED
    BY <1>4, <1>5, <1>6 DEF Standing

(* A fetch that waits for a batch leaves time for another. *)
LEMMA StandingWait ==
    ASSUME Inv, PassInv, Next, NEW h \in Int, Standing(h), GiveUpForNow
    PROVE  Standing(h)'
  <1>0. TypeInv /\ WorldStep /\ clock \in Nat
    BY StepOfWorld, ConstantTypes DEF Inv, TypeInv
  <1>1. /\ UNCHANGED <<clock, journal, todo, due>> /\ pc = "fetch" /\ pc' = "idle" /\ clock - hour < GapFinal
    BY DEF GiveUpForNow, Waits, store, pass
  <1>2. \A r \in HourRecords(Kept) : r \in Kept'
    BY <1>1 DEF HourRecords, Kept
  <1>3. ASSUME Working(h)
        PROVE  Pending(h)'
    <2>1. hour = h /\ begun \in Nat /\ begun <= clock /\ due["gdelt"] = begun + Every["gdelt"]
      BY <1>1, <1>3 DEF Working, HourInHand, Inv, FetchInv, PassInv
    <2>2. /\ HOUR \in Nat /\ PublishLag \in Nat /\ GapFinal \in Nat
          /\ Every["gdelt"] \in Nat /\ GapFinal + Every["gdelt"] <= HOUR + PublishLag
      BY ConstantTypes, HourType, Intervals
    <2>3. clock < h + HOUR + PublishLag /\ due["gdelt"] < h + HOUR + PublishLag
      BY <1>0, <1>1, <2>1, <2>2
    <2> QED
      BY <1>1, <2>3 DEF Pending
  <1>4. Up' => Up /\ due'["gdelt"] = due["gdelt"]
    BY <1>1 DEF Up
  <1> QED
    BY <1>0, <1>1, <1>2, <1>3, <1>4, StandingQuiet DEF Standing

LEMMA InitHours == Init => HoursInv
  <1> SUFFICES ASSUME Init, NEW h \in Hours \ lapsed
               PROVE  LatestHourEnd(Begin) <= h /\ Standing(h)
    BY DEF HoursInv
  <1>1. /\ clock = Begin /\ due = [s \in Sources |-> Begin]
        /\ lapsed = {x \in Hours : x < LatestHourEnd(Begin)}
    BY DEF Init
  <1>2. h \in Int /\ Begin \in Nat /\ PublishLag \in Nat /\ HOUR \in Nat
    BY HoursType, ConstantTypes, HourType
  <1>3. LatestHourEnd(Begin) \in Int /\ Begin < LatestHourEnd(Begin) + HOUR + PublishLag
    BY <1>2, LatestHourFacts
  <1>4. LatestHourEnd(Begin) <= h
    BY <1>1, <1>2, <1>3
  <1>5. PICK b \in Int : b = LatestHourEnd(Begin)
    BY <1>3
  <1>6. Begin < h + HOUR + PublishLag
    BY <1>2, <1>3, <1>4, <1>5
  <1>7. due["gdelt"] = Begin
    BY <1>1 DEF Sources
  <1> QED
    BY <1>1, <1>4, <1>6, <1>7 DEF Standing, Pending

LEMMA NextHours == Inv /\ HandInv /\ PassInv /\ HoursInv /\ [Next]_vars => HoursInv'
  <1> SUFFICES ASSUME Inv, HandInv, PassInv, HoursInv, [Next]_vars, NEW h \in Hours \ lapsed'
               PROVE  LatestHourEnd(Begin) <= h /\ Standing(h)'
    BY DEF HoursInv
  <1>1. CASE UNCHANGED vars
    BY <1>1 DEF vars, pass, fetching, store, history, HoursInv, Standing, Done, Final, NotServedBefore, Kept,
                HourRecords, Pending, Up, Working, HourInHand
  <1>2. CASE Next
    <2>1. lapsed \subseteq lapsed'
      <3>1. CASE Start \/ Crash \/ Tick \/ Pass \/ PollKept \/ PollHour \/ Download \/ Outage \/ GiveUpForNow
             \/ TakeHour \/ PollCalendar \/ Unreadable
        BY <3>1 DEF Start, Crash, Tick, Pass, PollKept, PollHour, Download, Outage, GiveUpForNow,
                      TakeHour, PollCalendar, Unreadable, history
      <3>2. CASE StoreBody \/ StoreMeta \/ IngestBlob \/ ParseFails \/ (\E r \in todo : Append1(r))
             \/ BackfillMonth \/ ImportHours \/ ImportCalendar
             \/ (\E version \in DOMAIN Calendars : Edit(version)) \/ (\E s \in Late : Serve(s))
        BY <3>2 DEF StoreBody, StoreMeta, IngestBlob, ParseFails, Append1, BackfillMonth,
                      ImportHours, ImportCalendar, Import, Edit, Serve, history
      <3> QED
        BY <1>2, <3>1, <3>2 DEF Next
    <2>2. h \in Hours \ lapsed
      BY <2>1
    <2>3. LatestHourEnd(Begin) <= h /\ Standing(h) /\ h \in Int /\ h > 0 /\ IsHour(h)
      BY <2>2, HoursType DEF HoursInv
    <2>4. CASE Crash \/ Tick \/ Outage \/ PollKept \/ PollHour \/ GiveUpForNow
      BY <1>2, <2>3, <2>4, StandingFault, StandingTick, StandingPoll, StandingWait
    <2>5. CASE TakeHour \/ IngestBlob \/ (\E r \in todo : Append1(r))
      BY <1>2, <2>3, <2>5, StandingTake, StandingIngest, StandingAppend
    <2>6. CASE \/ Start \/ Pass \/ PollCalendar \/ Unreadable \/ ParseFails \/ StoreBody \/ StoreMeta
               \/ BackfillMonth \/ ImportHours \/ ImportCalendar \/ Download
               \/ \E version \in DOMAIN Calendars : Edit(version)
               \/ \E s \in Late : Serve(s)
      BY <1>2, <2>3, <2>6, StandingOutside
    <2> QED
      BY <1>2, <2>3, <2>4, <2>5, <2>6 DEF Next
  <1> QED
    BY <1>1, <1>2

(* Once an hour is hidden and its last fetch over, it is done. *)
LEMMA OldHoursAreRecorded == Inv /\ HandInv /\ PassInv /\ HoursInv => EveryHourIsRecorded
  <1> SUFFICES ASSUME Inv, HandInv, PassInv, HoursInv, NEW h \in Hours \ lapsed,
                      clock > h + HOUR + PublishLag + MaxFetch,
                      NEW c \in HourCandidates(h, OnTime(h))
               PROVE  OfKey("gdelt", c) # {}
    BY DEF EveryHourIsRecorded
  <1>1. /\ LatestHourEnd(Begin) <= h /\ Standing(h) /\ h \in Int /\ IsHour(h) /\ clock \in Begin..MaxClock
        /\ clock \in Nat /\ servedAt \in [Late -> Nat \cup {None}] /\ Begin \in Nat /\ MaxClock \in Nat
    BY HoursType, ConstantTypes DEF HoursInv, Inv, TypeInv
  <1>2. HOUR \in Nat /\ HOUR >= 1 /\ PublishLag \in Nat /\ MaxFetch \in Nat /\ GapFinal \in Nat
    BY HourType, ConstantTypes
  <1>3. ~Recent(h) /\ ~Pending(h)
    BY <1>1, <1>2 DEF Recent, Pending
  <1>4. ~Working(h)
    <2>1. CASE pc = "fetch" /\ hour = h
      <3>1. begun \in Nat /\ hour = LatestHourEnd(begun) /\ clock <= begun + MaxFetch
        BY <2>1 DEF Inv, FetchInv
      <3>2. begun < h + HOUR + PublishLag
        BY <2>1, <3>1, LatestHourFacts
      <3> QED
        BY <1>1, <1>2, <3>1, <3>2
    <2>2. CASE HourInHand /\ job.request = h
      BY <1>3, <2>2 DEF HandInv, WorkInv
    <2> QED
      BY <2>1, <2>2 DEF Working
  <1>5. PICK P \in SUBSET (BatchStamps(h) \cap DOMAIN Export) :
           /\ Final(h, P)
           /\ \A r \in DOMAIN Regions : Covers(r, P) =>
                \E x \in HourRecords(Kept) : x.scope = r /\ x.effective_at = h
    BY <1>1, <1>3, <1>4 DEF Standing, Done
  <1>6. BatchStamps(h) \subseteq DOMAIN Export
    <2>1. PICK b \in Int : b = LatestHourEnd(Begin) /\ IsHour(b) /\ Begin < b + HOUR + PublishLag
      BY <1>1, LatestHourFacts
    <2>2. CASE h = b
      <3>1. Begin \in Begin..MaxClock
        BY ConstantTypes
      <3> QED
        BY <2>1, <2>2, <3>1, ConstantTypes
    <2>3. CASE h # b
      <3>1. b + HOUR <= h
        BY <1>1, <2>1, <2>3, HoursApart
      <3>2. PICK t \in Nat : t = h + PublishLag /\ t \in Begin..MaxClock
        BY <1>1, <1>2, <2>1, <3>1
      <3>3. LatestHourEnd(t) = h
        BY <1>1, <1>2, <3>2, OneHour
      <3> QED
        BY <3>2, <3>3, ConstantTypes
    <2> QED
      BY <2>2, <2>3
  <1>7. PICK T : T = {s \in BatchStamps(h) : s \in Late => servedAt[s] # None /\ servedAt[s] < h + GapFinal - MaxFetch}
    OBVIOUS
  <1>8. T \in SUBSET (BatchStamps(h) \cap DOMAIN Export)
    BY <1>6, <1>7
  <1>9. OnTime(h) = BatchesOf(h, T)
    <2>1. \A s \in BatchStamps(h) :
             (IF s \notin Late THEN ParseExport(Export[s])
              ELSE IF servedAt[s] # None /\ servedAt[s] < h + GapFinal - MaxFetch
                   THEN ParseExport(Export[s]) ELSE None)
             = IF s \in T THEN ParseExport(Export[s]) ELSE None
      BY <1>7, Zenon
    <2> QED
      BY <2>1, Zenon DEF OnTime, BatchesOf
  <1>10. T \subseteq P
    <2> SUFFICES ASSUME NEW s \in T, s \notin P PROVE FALSE
      OBVIOUS
    <2>1. s \in BatchStamps(h) \ P
      BY <1>7
    <2>2. s \in Late /\ (servedAt[s] = None \/ servedAt[s] >= h + GapFinal - MaxFetch)
      BY <1>5, <2>1 DEF Final, NotServedBefore
    <2>3. servedAt[s] # None /\ servedAt[s] < h + GapFinal - MaxFetch /\ servedAt[s] \in Nat
      BY <1>1, <1>7, <2>2
    <2> QED
      BY <1>1, <1>2, <2>2, <2>3
  <1>11. c.scope \in DOMAIN Regions /\ Covers(c.scope, T) /\ c.effective_at = h
    BY <1>1, <1>8, <1>9, HourFacts
  <1>12. Covers(c.scope, P)
    BY <1>10, <1>11, Zenon DEF Covers
  <1>13. PICK x \in HourRecords(Kept) : x.scope = c.scope /\ x.effective_at = h
    BY <1>5, <1>11, <1>12
  <1>14. x \in journal
    BY <1>3, <1>13 DEF HandInv, WorkInv, HourRecords, Kept
  <1> QED
    BY <1>11, <1>13, <1>14 DEF OfKey, HourRecords

(* No hour with an event is skipped: once the next hour has taken its place,*)
(* every region with an event in the batches that were there in time has a  *)
(* record, unless the daemon was down or GDELT failing when it mattered.    *)
THEOREM NoHourIsSkipped == Spec => []EveryHourIsRecorded
  <1>1. Init => Inv /\ HandInv /\ PassInv /\ HoursInv
    BY InitInv, InitHand, InitPass, InitHours
  <1>2. Inv /\ HandInv /\ PassInv /\ HoursInv /\ [Next]_vars => (Inv /\ HandInv /\ PassInv /\ HoursInv)'
    BY NextInv, NextHand, NextPass, NextHours
  <1> QED
    BY <1>1, <1>2, OldHoursAreRecorded, PTL DEF Spec

-----------------------------------------------------------------------------
(* CalendarIsCurrent: the calendar and what a backtest reads from it.       *)

(* A calendar that loads lists its events in the order of their instants. *)
Timetable(G, n) ==
    /\ n \in Nat /\ DOMAIN G = 1..n
    /\ \A i \in 1..n : G[i].at \in Int
    /\ \A i, j \in 1..n : i < j => G[i].at < G[j].at

LEMMA LoadFacts ==
    ASSUME NEW v \in DOMAIN Calendars, Events[v] # Refused
    PROVE  \E n : Timetable(Events[v], n)
  <1>1. PICK rows : rows = Calendars[v]
    OBVIOUS
  <1>2. IsFiniteSet(DOMAIN rows) /\ \A i \in DOMAIN rows : rows[i].local \in Int
    BY <1>1, CollectorsAssumption
  <1>3. Events[v] = LoadEvents(rows)
    BY <1>1 DEF Events
  <1> DEFINE kept  == {i \in DOMAIN rows : rows[i].kind \in Kinds}
             at(i) == rows[i].local - Zones[rows[i].zone]
             S == {at(i) : i \in kept}
             instants == InOrder(S)
             rowAt(t) == rows[CHOOSE i \in kept : at(i) = t]
             G == [k \in DOMAIN instants |-> [kind |-> rowAt(instants[k]).kind, at |-> instants[k]]]
  <1>4. Events[v] = G /\ \A i \in kept : rows[i].zone \in DOMAIN Zones
    <2> DEFINE bad == \/ \E i \in DOMAIN rows : rows[i].kind \notin KINDS
                      \/ \E i \in kept : rows[i].zone \notin DOMAIN Zones
                      \/ \E i, j \in kept : i < j /\ at(i) = at(j)
    <2>1. LoadEvents(rows) = IF bad THEN Refused ELSE G
      BY DEF LoadEvents
    <2>2. ~bad
      <3> HIDE DEF bad, G
      <3> QED
        BY <1>3, <2>1
    <2>3. Events[v] = G
      <3> HIDE DEF bad, G
      <3> QED
        BY <1>3, <2>1, <2>2
    <2> QED
      BY <2>2, <2>3
  <1>5. ASSUME NEW i \in kept
        PROVE  at(i) \in Int
    <2>1. rows[i].local \in Int /\ rows[i].zone \in DOMAIN Zones
      BY <1>2, <1>4
    <2>2. PICK a, b : a = rows[i].local /\ b = Zones[rows[i].zone]
      OBVIOUS
    <2>3. a \in Int /\ b \in Int
      BY <2>1, <2>2, ScheduleAssumption
    <2>4. at(i) = a - b
      BY <2>2
    <2> QED
      BY <2>3, <2>4
  <1>6. IsFiniteSet(kept)
    <2>1. kept \in SUBSET (DOMAIN rows)
      OBVIOUS
    <2> QED
      BY <1>2, <2>1, FS_Subset
  <1> HIDE DEF kept, at
  <1>7. S \in SUBSET Int
    BY <1>5
  <1>8. IsFiniteSet(S)
    <2> DEFINE f == [i \in kept |-> at(i)]
    <2>1. f \in Surjection(kept, S)
      BY DEF Surjection
    <2> HIDE DEF f
    <2> QED
      BY <1>6, <2>1, FS_Surjection
  <1> HIDE DEF S
  <1>9. PICK n \in Nat : n = Cardinality(S)
    BY <1>8, FS_CardinalityType
  <1>10. instants \in [1..n -> S] /\ \A i, j \in 1..n : i < j => instants[i] < instants[j]
    BY <1>7, <1>8, <1>9, InOrderFacts
  <1> HIDE DEF instants
  <1>11. DOMAIN G = 1..n /\ \A i \in 1..n : G[i].at = instants[i]
    BY <1>10
  <1> HIDE DEF G
  <1>12. Timetable(G, n)
    BY <1>7, <1>9, <1>10, <1>11 DEF Timetable
  <1> QED
    BY <1>4, <1>12

(* e is the event that is next at t. *)
IsNext(G, t, e) ==
    /\ e \in Range(G) /\ t < e.at + HandOver
    /\ \A b \in Range(G) : b.at < e.at => b.at + HandOver <= t

(* The fields, and the candidate, of an event. *)
FieldsOf(e) == [at |-> e.at, kind |-> e.kind]

LEMMA RangeFacts ==
    ASSUME NEW G, NEW n, Timetable(G, n)
    PROVE  /\ \A i \in 1..n : G[i] \in Range(G)
           /\ \A e \in Range(G) : e.at \in Int /\ \E i \in 1..n : e = G[i]
           /\ \A d, e \in Range(G) : d.at = e.at => d = e
  <1>1. DOMAIN G = 1..n /\ Range(G) = {G[i] : i \in 1..n}
    BY DEF Timetable, Range
  <1>2. \A i, j \in 1..n : G[i].at = G[j].at => i = j
    <2> SUFFICES ASSUME NEW i \in 1..n, NEW j \in 1..n, G[i].at = G[j].at PROVE i = j
      OBVIOUS
    <2>1. ~(i < j) /\ ~(j < i) /\ i \in Int /\ j \in Int
      BY DEF Timetable
    <2> QED
      BY <2>1
  <1> QED
    BY <1>1, <1>2 DEF Timetable

(* next_event: the first that is not handed over. *)
LEMMA NextFacts ==
    ASSUME NEW G, NEW n, Timetable(G, n), NEW t \in Int
    PROVE  /\ NextEvent(G, t) = {} <=> \A e \in Range(G) : e.at + HandOver <= t
           /\ NextEvent(G, t) # {} =>
                \E m \in 1..n : /\ m = Min(NextEvent(G, t)) /\ IsNext(G, t, G[m])
                                /\ ParseSchedule(G, t, Scope) = {CandidateFor(G[m], Scope)}
           /\ NextEvent(G, t) = {} => ParseSchedule(G, t, Scope) = {}
           /\ \A d, e \in Range(G) : IsNext(G, t, d) /\ IsNext(G, t, e) => d = e
  <1>1. /\ n \in Nat /\ DOMAIN G = 1..n /\ \A i \in 1..n : G[i].at \in Int
        /\ HandOver \in Nat
    BY ScheduleAssumption DEF Timetable
  <1>2. /\ \A i \in 1..n : G[i] \in Range(G)
        /\ \A e \in Range(G) : e.at \in Int /\ \E i \in 1..n : e = G[i]
        /\ \A d, e \in Range(G) : d.at = e.at => d = e
    BY RangeFacts
  <1>3. NextEvent(G, t) = {i \in 1..n : t < G[i].at + HandOver}
    BY <1>1 DEF NextEvent
  <1>4. NextEvent(G, t) = {} <=> \A e \in Range(G) : e.at + HandOver <= t
    <2>1. \A i \in 1..n : ~(t < G[i].at + HandOver) <=> G[i].at + HandOver <= t
      BY <1>1
    <2> QED
      BY <1>2, <1>3, <2>1
  <1>5. ASSUME NextEvent(G, t) # {}
        PROVE  \E m \in 1..n : /\ m = Min(NextEvent(G, t)) /\ IsNext(G, t, G[m])
                               /\ ParseSchedule(G, t, Scope) = {CandidateFor(G[m], Scope)}
    <2>1. PICK m : m = Min(NextEvent(G, t))
      OBVIOUS
    <2>2. m \in NextEvent(G, t) /\ \A i \in NextEvent(G, t) : m <= i
      <3>1. NextEvent(G, t) \in SUBSET Int /\ 1 \in Int /\ \A i \in NextEvent(G, t) : 1 <= i
        BY <1>1, <1>3
      <3> QED
        BY <1>5, <2>1, <3>1, MinOfBounded
    <2>3. m \in 1..n /\ t < G[m].at + HandOver
      BY <1>3, <2>2
    <2>4. \A b \in Range(G) : b.at < G[m].at => b.at + HandOver <= t
      <3> SUFFICES ASSUME NEW i \in 1..n, G[i].at < G[m].at PROVE G[i].at + HandOver <= t
        BY <1>2
      <3>1. i < m
        BY <1>1, <2>3 DEF Timetable
      <3>2. i \notin NextEvent(G, t)
        BY <1>1, <2>2, <2>3, <3>1
      <3> QED
        BY <1>1, <1>3, <3>2
    <2>5. ParseSchedule(G, t, Scope) = {CandidateFor(G[m], Scope)}
      BY <1>5, <2>1 DEF ParseSchedule
    <2> QED
      BY <1>2, <2>1, <2>3, <2>4, <2>5 DEF IsNext
  <1>6. NextEvent(G, t) = {} => ParseSchedule(G, t, Scope) = {}
    BY DEF ParseSchedule
  <1>7. ASSUME NEW d \in Range(G), NEW e \in Range(G), IsNext(G, t, d), IsNext(G, t, e)
        PROVE  d = e
    <2>1. d.at \in Int /\ e.at \in Int
      BY <1>2
    <2>2. ~(d.at < e.at) /\ ~(e.at < d.at)
      BY <1>1, <1>7, <2>1 DEF IsNext
    <2> QED
      BY <1>2, <2>1, <2>2
  <1> QED
    BY <1>4, <1>5, <1>6, <1>7

(* The newest of rows, when it is known. *)
LEMMA NewestFacts ==
    ASSUME NEW rows, NEW x \in rows, \A y \in rows : y.known_at \in Int /\ y.effective_at \in Int,
           \A y \in rows : \/ y.known_at < x.known_at
                           \/ y.known_at = x.known_at /\ y.effective_at = x.effective_at /\ y.fields = x.fields
    PROVE  Newest(rows) = {x.fields}
  <1> DEFINE top == {z \in rows : \A y \in rows : \/ y.known_at < z.known_at
                                                  \/ y.known_at = z.known_at /\ y.effective_at <= z.effective_at}
  <1>1. Newest(rows) = {r.fields : r \in top}
    BY DEF Newest
  <1>2. x \in top
    OBVIOUS
  <1>3. ASSUME NEW z \in top PROVE z.fields = x.fields
    <2>1. z \in rows /\ ~(z.known_at < x.known_at)
      OBVIOUS
    <2> QED
      BY <2>1
  <1> HIDE DEF top
  <1> QED
    BY <1>1, <1>2, <1>3

(* published_at, of the i-th event of a calendar. *)
PubAt(G, i) == PublishedAt(G, i, Min({j \in DOMAIN G : G[j].at >= Since}), Since)

(* An event is published when the one before it is handed over, and before  *)
(* it is handed over itself.                                                *)
LEMMA PublishedFacts ==
    ASSUME NEW G, NEW n, Timetable(G, n), NEW i \in 1..n, G[i].at >= Since
    PROVE  /\ PubAt(G, i) \in Int /\ Since <= PubAt(G, i) /\ PubAt(G, i) < G[i].at + HandOver
           /\ \A j \in 1..n : j < i /\ G[j].at >= Since => G[j].at + HandOver <= PubAt(G, i)
           /\ \/ PubAt(G, i) = Since
              \/ \E j \in 1..n : j < i /\ G[j].at >= Since /\ PubAt(G, i) = G[j].at + HandOver
  <1> DEFINE K == {j \in DOMAIN G : G[j].at >= Since}
  <1>1. /\ n \in Nat /\ DOMAIN G = 1..n /\ (\A j \in 1..n : G[j].at \in Int)
        /\ HandOver \in Nat /\ HandOver >= 1 /\ Since \in Int
    BY ScheduleAssumption, CollectorsAssumption DEF Timetable
  <1>2. i \in K /\ K \in SUBSET Int /\ \A j \in K : 1 <= j
    BY <1>1
  <1>3. PICK k : k = Min(K)
    OBVIOUS
  <1>4. k \in K /\ \A j \in K : k <= j
    <2> HIDE DEF K
    <2>1. 1 \in Int /\ K # {}
      BY <1>2
    <2> QED
      BY <1>2, <1>3, <2>1, MinOfBounded
  <1>5. PubAt(G, i) = IF i = k THEN Since ELSE G[i - 1].at + HandOver
    BY <1>3 DEF PubAt, PublishedAt
  <1>6. CASE i = k
    <2>1. \A j \in 1..n : j < i => ~(G[j].at >= Since)
      BY <1>1, <1>4, <1>6
    <2> QED
      BY <1>1, <1>5, <1>6, <2>1
  <1>7. CASE i # k
    <2>1. i - 1 \in 1..n /\ k <= i - 1 /\ k \in 1..n /\ i \in Int
      BY <1>1, <1>2, <1>4, <1>7
    <2>2. G[i - 1].at >= Since
      <3>1. k = i - 1 \/ G[k].at < G[i - 1].at
        BY <1>1, <2>1 DEF Timetable
      <3> QED
        BY <1>1, <1>4, <2>1, <3>1
    <2>3. G[i - 1].at < G[i].at
      BY <2>1 DEF Timetable
    <2>4. ASSUME NEW j \in 1..n, j < i
          PROVE  G[j].at <= G[i - 1].at
      <3>1. j = i - 1 \/ j < i - 1
        BY <2>1, <2>4
      <3>2. j < i - 1 => G[j].at < G[i - 1].at
        BY <2>1 DEF Timetable
      <3> QED
        BY <1>1, <2>1, <3>1, <3>2
    <2>5. PubAt(G, i) = G[i - 1].at + HandOver
      BY <1>5, <1>7
    <2>6. PICK a \in Int : a = G[i - 1].at
      BY <1>1, <2>1
    <2> QED
      BY <1>1, <2>1, <2>2, <2>3, <2>4, <2>5, <2>6
  <1> QED
    BY <1>6, <1>7

(* tools/schedule_backfill.py's rows. *)
LEMMA BackfillFacts ==
    ASSUME NEW G, NEW n, Timetable(G, n), NEW t
    PROVE  /\ \A x \in BackfillRows(G, Scope, Since, t) :
                \E i \in 1..n : /\ G[i].at >= Since /\ x.scope = Scope /\ x.effective_at = G[i].at
                                /\ x.fields = FieldsOf(G[i]) /\ x.known_at = PubAt(G, i) /\ x.known_at <= t
           /\ \A i \in 1..n : G[i].at >= Since /\ PubAt(G, i) <= t =>
                \E x \in BackfillRows(G, Scope, Since, t) :
                   /\ x.effective_at = G[i].at /\ x.fields = FieldsOf(G[i]) /\ x.known_at = PubAt(G, i)
  <1> DEFINE K == {j \in DOMAIN G : G[j].at >= Since}
             c(i) == CandidateFor(G[i], Scope)
             row(i) == [scope |-> c(i).scope, effective_at |-> c(i).effective_at, fields |-> c(i).fields,
                        known_at |-> PubAt(G, i)]
  <1>1. BackfillRows(G, Scope, Since, t) = {row(i) : i \in {j \in K : PubAt(G, j) <= t}}
    BY DEF BackfillRows, PubAt
  <1>2. \A i : /\ row(i).scope = Scope /\ row(i).effective_at = G[i].at /\ row(i).fields = FieldsOf(G[i])
               /\ row(i).known_at = PubAt(G, i)
    BY DEF CandidateFor, FieldsOf
  <1>3. DOMAIN G = 1..n
    BY DEF Timetable
  <1> HIDE DEF row
  <1>4. ASSUME NEW x \in BackfillRows(G, Scope, Since, t)
        PROVE  \E i \in 1..n : /\ G[i].at >= Since /\ x.scope = Scope /\ x.effective_at = G[i].at
                               /\ x.fields = FieldsOf(G[i]) /\ x.known_at = PubAt(G, i) /\ x.known_at <= t
    <2>1. PICK i \in K : x = row(i) /\ PubAt(G, i) <= t
      BY <1>1, Zenon
    <2> QED
      BY <1>2, <1>3, <2>1
  <1>5. ASSUME NEW i \in 1..n, G[i].at >= Since, PubAt(G, i) <= t
        PROVE  \E x \in BackfillRows(G, Scope, Since, t) :
                   /\ x.effective_at = G[i].at /\ x.fields = FieldsOf(G[i]) /\ x.known_at = PubAt(G, i)
    <2>1. i \in K
      BY <1>3, <1>5
    <2>2. row(i) \in BackfillRows(G, Scope, Since, t)
      BY <1>1, <1>5, <2>1, Zenon
    <2> QED
      BY <1>2, <2>2
  <1> QED
    BY <1>4, <1>5

(* What a backtest over backfilled records has at t. *)
LEMMA BacktestFacts ==
    ASSUME NEW G, NEW n, Timetable(G, n), NEW t \in Int, t >= Since, NEW e \in Range(G), e.at >= Since,
           \A b \in Range(G) : b.at >= Since /\ b.at < e.at => b.at + HandOver <= t,
           t < e.at + HandOver
    PROVE  Newest(BackfillRows(G, Scope, Since, t)) = {FieldsOf(e)}
  <1> DEFINE rows == BackfillRows(G, Scope, Since, t)
  <1>1. /\ n \in Nat /\ (\A i \in 1..n : G[i].at \in Int) /\ HandOver \in Nat /\ Since \in Int
    BY ScheduleAssumption, CollectorsAssumption DEF Timetable
  <1>2. PICK k \in 1..n : e = G[k]
    BY RangeFacts
  <1>3. \A i \in 1..n : G[i] \in Range(G)
    BY RangeFacts
  <1>4. \A i \in 1..n : G[i].at >= Since /\ i < k => G[i].at + HandOver <= t
    BY <1>2, <1>3 DEF Timetable
  <1>5. PubAt(G, k) \in Int /\ PubAt(G, k) <= t
    <2>1. /\ PubAt(G, k) \in Int
          /\ \/ PubAt(G, k) = Since
             \/ \E j \in 1..n : j < k /\ G[j].at >= Since /\ PubAt(G, k) = G[j].at + HandOver
      BY <1>2, PublishedFacts
    <2> QED
      BY <1>4, <2>1
  <1>6. PICK x \in rows : x.effective_at = G[k].at /\ x.fields = FieldsOf(G[k]) /\ x.known_at = PubAt(G, k)
    BY <1>2, <1>5, BackfillFacts
  <1>7. ASSUME NEW y \in rows
        PROVE  /\ y.known_at \in Int /\ y.effective_at \in Int
               /\ \/ y.known_at < x.known_at
                  \/ y.known_at = x.known_at /\ y.effective_at = x.effective_at /\ y.fields = x.fields
    <2>1. PICK i \in 1..n : /\ G[i].at >= Since /\ y.effective_at = G[i].at
                            /\ y.fields = FieldsOf(G[i]) /\ y.known_at = PubAt(G, i) /\ y.known_at <= t
      BY BackfillFacts
    <2>2. /\ PubAt(G, i) \in Int /\ PubAt(G, i) < G[i].at + HandOver
          /\ \A j \in 1..n : j < i /\ G[j].at >= Since => G[j].at + HandOver <= PubAt(G, i)
      BY <2>1, PublishedFacts
    <2>3. \A j \in 1..n : j < k /\ G[j].at >= Since => G[j].at + HandOver <= PubAt(G, k)
      BY <1>2, PublishedFacts
    <2>4. CASE i < k
      <3>1. G[i].at + HandOver <= PubAt(G, k)
        BY <2>1, <2>3, <2>4
      <3>2. PICK a \in Int : a = G[i].at
        BY <1>1
      <3> QED
        BY <1>1, <1>5, <1>6, <2>1, <2>2, <3>1, <3>2
    <2>5. CASE k < i
      <3>1. G[k].at + HandOver <= PubAt(G, i)
        BY <1>2, <2>2, <2>5
      <3>2. PICK a \in Int : a = G[k].at
        BY <1>1
      <3> QED
        BY <1>1, <1>2, <2>1, <2>2, <3>1, <3>2
    <2>6. CASE i = k
      BY <1>1, <1>6, <2>1, <2>2, <2>6
    <2> QED
      BY <2>4, <2>5, <2>6
  <1>8. Newest(rows) = {x.fields}
    <2> HIDE DEF rows
    <2> QED
      BY <1>7, NewestFacts
  <1> QED
    BY <1>2, <1>6, <1>8

-----------------------------------------------------------------------------
(* CalendarIsCurrent: what the journal holds of the calendar.               *)

CalendarRecords(R) == {r \in R : r.ds = "cal"}

(* x shows an event of G, known when those before it were handed over and   *)
(* it was not.                                                              *)
Shows(x, known, G) ==
    /\ x.scope = Scope /\ known \in Int /\ Since <= known
    /\ \E e \in Range(G) :
         /\ e.at >= Since /\ x.effective_at = e.at /\ x.fields = FieldsOf(e) /\ known < e.at + HandOver
         /\ \A b \in Range(G) : b.at >= Since /\ b.at < e.at => b.at + HandOver <= known

(* The calendar last known to be good. *)
FileInv ==
    /\ sound \in DOMAIN Calendars /\ Events[sound] # Refused
    /\ file \in DOMAIN Calendars /\ (Events[file] # Refused => sound = file)

(* Every record shows an event of it, and no two show the same. *)
DatedInv ==
    /\ \A r \in CalendarRecords(journal \cup todo) :
         Shows(r, r.known_at, Events[sound]) /\ r.known_at <= clock /\ r.revision = 1
    /\ \A r, q \in CalendarRecords(journal \cup todo) : r.effective_at = q.effective_at => r = q

(* A calendar in hand was fetched just now, and shows what the good one does*)
CalendarInHand == pc \in {"body", "meta", "ingest"} /\ job.content_type = "cal"
Now(v) == ParseSchedule(Events[v], clock, Scope)
FetchedInv ==
    CalendarInHand =>
        /\ job.fetched_at = clock /\ job.body \in DOMAIN Calendars /\ due["cal"] = clock + Every["cal"]
        /\ Events[job.body] # Refused => \/ Now(job.body) = Now(sound)
                                         \/ Now(job.body) = {} /\ upSince = clock

(* The event that was next at the last poll is recorded. *)
Polled == due["cal"] - Every["cal"]
ShownInv ==
    (Up /\ upSince < Polled /\ NextEvent(Events[sound], Polled) # {} /\ ~CalendarInHand) =>
        \E r \in CalendarRecords(Kept) : Polled < r.effective_at + HandOver

CalendarInv == upSince \in Int /\ FileInv /\ DatedInv /\ FetchedInv /\ ShownInv

LEMMA InitCalendar == Init => CalendarInv
  <1> SUFFICES ASSUME Init PROVE CalendarInv
    OBVIOUS
  <1>1. /\ journal = {} /\ todo = {} /\ pc = "idle" /\ sound = 1 /\ file = 1 /\ upSince = Begin
        /\ due = [s \in Sources |-> Begin]
    BY DEF Init
  <1>2. FileInv
    BY <1>1, CollectorsAssumption DEF FileInv, Events
  <1>3. DatedInv /\ FetchedInv
    BY <1>1 DEF DatedInv, FetchedInv, CalendarRecords, CalendarInHand
  <1>4. ShownInv
    <2>1. Polled = Begin - Every["cal"]
      BY <1>1 DEF Polled, Sources
    <2> QED
      BY <1>1, <2>1, Intervals, ConstantTypes DEF ShownInv
  <1> QED
    BY <1>1, <1>2, <1>3, <1>4, ConstantTypes DEF CalendarInv

(* A step that records nothing of the calendar and leaves the file alone.   *)
LEMMA CalendarQuiet ==
    ASSUME TypeInv, CalendarInv, WorldStep, UNCHANGED <<sound, file, upSince>>,
           CalendarRecords(journal \cup todo)' = CalendarRecords(journal \cup todo),
           CalendarInHand' => CalendarInHand /\ UNCHANGED <<clock, job, due>>,
           Up' => CalendarInHand' \/ (Up /\ due'["cal"] = due["cal"] /\ ~CalendarInHand),
           Up' => CalendarRecords(Kept) \subseteq Kept'
    PROVE  CalendarInv'
  <1>1. clock \in Int /\ clock' \in Int /\ clock <= clock'
    BY ConstantTypes DEF TypeInv, WorldStep
  <1>2. FileInv'
    BY DEF CalendarInv, FileInv
  <1>3. DatedInv'
    <2> SUFFICES ASSUME NEW r \in CalendarRecords(journal \cup todo)
                 PROVE  Shows(r, r.known_at, Events[sound]) /\ r.known_at <= clock' /\ r.revision = 1
      BY DEF DatedInv, CalendarInv
    <2>1. Shows(r, r.known_at, Events[sound]) /\ r.known_at <= clock /\ r.revision = 1 /\ r.known_at \in Int
      BY DEF CalendarInv, DatedInv, Shows
    <2> QED
      BY <1>1, <2>1
  <1>4. FetchedInv'
    BY DEF CalendarInv, FetchedInv, Now
  <1>5. ShownInv'
    <2> SUFFICES ASSUME ~CalendarInHand', Up', upSince < Polled', NextEvent(Events[sound], Polled') # {}
                 PROVE  \E r \in CalendarRecords(Kept)' : Polled' < r.effective_at + HandOver
      BY DEF ShownInv
    <2>1. Up /\ Polled' = Polled /\ ~CalendarInHand
      BY DEF Polled
    <2>2. PICK r \in CalendarRecords(Kept) : Polled < r.effective_at + HandOver
      BY <2>1 DEF CalendarInv, ShownInv
    <2>3. r \in CalendarRecords(Kept)'
      BY DEF CalendarRecords
    <2> QED
      BY <2>1, <2>2, <2>3
  <1> QED
    BY <1>2, <1>3, <1>4, <1>5 DEF CalendarInv

LEMMA CalendarOutside ==
    ASSUME Inv, HandInv, PassInv, CalendarInv, Next,
           \/ Tick \/ Pass \/ PollKept \/ PollHour \/ Download \/ Outage \/ GiveUpForNow \/ TakeHour
           \/ StoreBody \/ StoreMeta \/ BackfillMonth \/ \E s \in Late : Serve(s)
    PROVE  CalendarInv'
  <1>0. TypeInv /\ WorldStep
    BY StepOfWorld DEF Inv
  <1>1. /\ UNCHANGED <<journal, todo, file, upSince, sound>>
        /\ (pc # "append" /\ pc' # "append") \/ pc' = pc
    BY DEF Tick, Pass, PollKept, PollHour, Download, Outage, GiveUpForNow, TakeHour, StoreBody, StoreMeta,
           BackfillMonth, Serve, store, history, Poll
  <1>2. /\ CalendarRecords(journal \cup todo)' = CalendarRecords(journal \cup todo)
        /\ CalendarRecords(Kept) \subseteq Kept'
    BY <1>1 DEF CalendarRecords, Kept
  <1>3. CASE StoreBody \/ StoreMeta \/ BackfillMonth \/ \E s \in Late : Serve(s)
    <2>1. UNCHANGED <<clock, job, due>> /\ (pc' = pc \/ {pc, pc'} \subseteq {"body", "meta", "ingest"})
      BY <1>3 DEF StoreBody, StoreMeta, BackfillMonth, Serve, pass
    <2>2. (CalendarInHand' <=> CalendarInHand) /\ (Up' => Up)
      BY <2>1 DEF CalendarInHand, Up
    <2> QED
      BY <1>0, <1>1, <1>2, <2>1, <2>2, CalendarQuiet
  <1>4. CASE Tick \/ Pass \/ Download \/ Outage \/ GiveUpForNow \/ TakeHour
    <2>1. /\ UNCHANGED due /\ pc \in {"down", "idle", "fetch"}
          /\ \/ pc' = pc \/ (pc = "fetch" /\ pc' = "idle")
             \/ pc = "fetch" /\ pc' = "body" /\ job'.content_type = "gdelt"
      BY <1>4 DEF Tick, Pass, Download, Outage, GiveUpForNow, TakeHour, pass, RawBlob
    <2>2. ~CalendarInHand' /\ ~CalendarInHand /\ (Up' => Up)
      BY <2>1 DEF CalendarInHand, Up
    <2> QED
      BY <1>0, <1>1, <1>2, <2>1, <2>2, CalendarQuiet
  <1>5. CASE PollKept \/ PollHour
    <2>1. /\ Poll("gdelt")
          /\ (pc' = "body" /\ job' = last /\ last # None) \/ pc' = "fetch"
      BY <1>5 DEF PollKept, PollHour, KeptHour
    <2>2. pc = "idle" /\ due' = [due EXCEPT !["gdelt"] = clock + Every["gdelt"]]
      BY <1>0, <2>1, PollFacts
    <2>3. due'["cal"] = due["cal"]
      BY <2>2 DEF PassInv, Sources
    <2>4. last # None => last.content_type = "gdelt"
      BY DEF HandInv, HourShape
    <2>5. ~CalendarInHand' /\ ~CalendarInHand /\ (Up' => Up)
      BY <2>1, <2>2, <2>4 DEF CalendarInHand, Up
    <2> QED
      BY <1>0, <1>1, <1>2, <2>3, <2>5, CalendarQuiet
  <1> QED
    BY <1>3, <1>4, <1>5

(* The daemon starts, or fails to read the file: the calendar need not be   *)
(* current before the next poll.                                            *)
LEMMA CalendarRestart ==
    ASSUME Inv, PassInv, CalendarInv, Next, Start \/ Unreadable \/ ParseFails
    PROVE  CalendarInv'
  <1>0. TypeInv /\ WorldStep /\ clock \in Int /\ Every["cal"] \in Nat
    BY StepOfWorld, ConstantTypes, Intervals DEF Inv, TypeInv
  <1>1. UNCHANGED <<clock, journal, todo, file, sound>> /\ upSince' = clock /\ pc' = "idle"
    BY DEF Start, Unreadable, ParseFails, store, Poll
  <1>2. Polled' <= clock
    <2>1. CASE Start
      <3>1. due'["cal"] = clock
        BY <2>1 DEF Start, Sources
      <3> QED
        BY <1>0, <3>1 DEF Polled
    <2>2. CASE Unreadable
      <3>1. due' = [due EXCEPT !["cal"] = clock + Every["cal"]]
        BY <1>0, <2>2, PollFacts DEF Unreadable
      <3>2. due'["cal"] = clock + Every["cal"]
        BY <3>1 DEF PassInv, Sources
      <3> QED
        BY <1>0, <3>2 DEF Polled
    <2>3. CASE ParseFails
      <3>1. UNCHANGED due /\ Up
        BY <2>3 DEF ParseFails, pass, Up
      <3>2. due["cal"] <= clock + Every["cal"] /\ due["cal"] \in Nat
        BY <3>1 DEF PassInv, Sources
      <3> QED
        BY <1>0, <3>1, <3>2 DEF Polled
    <2> QED
      BY <2>1, <2>2, <2>3
  <1>3. Polled' \in Int
    <2>1. due'["cal"] \in Int
      <3>1. PassInv'
        BY NextPass
      <3> QED
        BY <3>1 DEF PassInv, Sources
    <2> QED
      BY <1>0, <2>1 DEF Polled
  <1>4. ShownInv'
    BY <1>0, <1>1, <1>2, <1>3 DEF ShownInv
  <1>5. FetchedInv' /\ FileInv' /\ DatedInv'
    BY <1>1 DEF CalendarInv, FetchedInv, CalendarInHand, FileInv, DatedInv, CalendarRecords
  <1> QED
    BY <1>0, <1>1, <1>4, <1>5 DEF CalendarInv

LEMMA CalendarPoll ==
    ASSUME Inv, PassInv, CalendarInv, Crash \/ PollCalendar
    PROVE  CalendarInv'
  <1>1. CASE Crash
    <2>1. UNCHANGED <<clock, journal, file, upSince, sound>> /\ todo' = {} /\ pc' = "down"
      BY <1>1 DEF Crash, store
    <2> QED
      BY <2>1 DEF CalendarInv, FileInv, DatedInv, FetchedInv, ShownInv, CalendarRecords, CalendarInHand, Up
  <1>2. CASE PollCalendar
    <2>1. /\ UNCHANGED <<clock, journal, todo, file, upSince, sound>> /\ pc' = "body" /\ Poll("cal")
          /\ job' = RawBlob("cal", None, file, clock)
      BY <1>2 DEF PollCalendar, store, history
    <2>2. due' = [due EXCEPT !["cal"] = clock + Every["cal"]]
      BY <2>1, PollFacts DEF Inv
    <2>3. due'["cal"] = clock + Every["cal"]
      BY <2>2 DEF PassInv, Sources
    <2>4. job'.content_type = "cal" /\ job'.body = file /\ job'.fetched_at = clock
      BY <2>1 DEF RawBlob
    <2>5. FetchedInv' /\ CalendarInHand'
      BY <2>1, <2>3, <2>4 DEF CalendarInv, FileInv, FetchedInv, CalendarInHand, Now
    <2>6. FileInv' /\ DatedInv' /\ ShownInv'
      BY <2>1, <2>5 DEF CalendarInv, FileInv, DatedInv, CalendarRecords, ShownInv
    <2> QED
      BY <2>1, <2>5, <2>6 DEF CalendarInv
  <1> QED
    BY <1>1, <1>2

(* Records of events that are next are recorded once each. *)
LEMMA DatedIngest ==
    ASSUME CalendarInv, todo = {}, UNCHANGED <<clock, journal, sound>>, NEW G, NEW n, Timetable(G, n),
           G = Events[sound], NEW cands, NEW avail, NEW ref, todo' = Ingest("cal", cands, avail, ref),
           \A c \in cands : Shows(c, Stamp(c, avail), G) /\ Stamp(c, avail) <= clock,
           \A c, d \in cands : c.effective_at = d.effective_at => c = d
    PROVE  DatedInv'
  <1>0. /\ \A r \in CalendarRecords(journal) :
             Shows(r, r.known_at, G) /\ r.known_at <= clock /\ r.revision = 1
        /\ \A r, q \in CalendarRecords(journal) : r.effective_at = q.effective_at => r = q
    BY DEF CalendarInv, DatedInv
  <1>1. \A d, e \in Range(G) : d.at = e.at => d = e
    BY RangeFacts
  <1>2. ASSUME NEW c \in cands, NEW q \in OfKey("cal", c)
        PROVE  Latest("cal", c).fields = c.fields
    <2>1. \A x \in OfKey("cal", c) : x \in CalendarRecords(journal) /\ x.effective_at = c.effective_at
      BY DEF OfKey, CalendarRecords
    <2>2. \A x \in OfKey("cal", c) : x = q
      BY <1>0, <2>1
    <2>3. q.revision = 1 /\ Shows(q, q.known_at, G) /\ Shows(c, Stamp(c, avail), G)
      BY <1>0, <2>1
    <2>4. q.fields = c.fields
      <3>1. PICK d \in Range(G) : q.effective_at = d.at /\ q.fields = FieldsOf(d)
        BY <2>3 DEF Shows
      <3>2. PICK e \in Range(G) : c.effective_at = e.at /\ c.fields = FieldsOf(e)
        BY <2>3 DEF Shows
      <3>3. d = e
        BY <1>1, <2>1, <3>1, <3>2
      <3> QED
        BY <3>1, <3>2, <3>3
    <2>5. \A x \in OfKey("cal", c) : x.revision <= q.revision
      BY <2>2, <2>3
    <2>6. Latest("cal", c) \in OfKey("cal", c)
      BY <2>5 DEF Latest
    <2> QED
      BY <2>2, <2>4, <2>6
  <1>3. ASSUME NEW r \in todo'
        PROVE  \E c \in cands : /\ r.ds = "cal" /\ r.scope = c.scope /\ r.effective_at = c.effective_at
                                /\ r.fields = c.fields /\ r.known_at = Stamp(c, avail)
                                /\ OfKey("cal", c) = {} /\ r = RecordFrom("cal", c, avail, ref)
    <2>1. PICK c \in cands :
            /\ r.ds = "cal" /\ r.scope = c.scope /\ r.effective_at = c.effective_at /\ r.fields = c.fields
            /\ r.known_at = Stamp(c, avail) /\ r = RecordFrom("cal", c, avail, ref)
            /\ OfKey("cal", c) = {} \/ Latest("cal", c).fields # c.fields
      BY IngestMakes
    <2> QED
      BY <1>2, <2>1
  <1>4. ASSUME NEW r \in todo'
        PROVE  r.ds = "cal" /\ Shows(r, r.known_at, G) /\ r.known_at <= clock /\ r.revision = 1
    <2>1. PICK c \in cands :
            /\ r.ds = "cal" /\ r.scope = c.scope /\ r.effective_at = c.effective_at /\ r.fields = c.fields
            /\ r.known_at = Stamp(c, avail) /\ r = RecordFrom("cal", c, avail, ref) /\ OfKey("cal", c) = {}
      BY <1>3
    <2>2. r.revision = 1
      BY <2>1 DEF RecordFrom
    <2> QED
      BY <2>1, <2>2 DEF Shows
  <1>5. CalendarRecords(journal \cup todo)' = CalendarRecords(journal) \cup todo'
    BY <1>4 DEF CalendarRecords
  <1>6. ASSUME NEW r \in CalendarRecords(journal) \cup todo', NEW q \in CalendarRecords(journal) \cup todo',
               r.effective_at = q.effective_at
        PROVE  r = q
    <2>1. ASSUME NEW x \in todo', NEW y \in CalendarRecords(journal), x.effective_at = y.effective_at
          PROVE  FALSE
      <3>1. PICK c \in cands : /\ x.scope = c.scope /\ x.effective_at = c.effective_at
                               /\ OfKey("cal", c) = {}
        BY <1>3
      <3>2. x.scope = Scope /\ y.scope = Scope
        BY <1>0, <1>4 DEF Shows
      <3>3. y \in OfKey("cal", c)
        BY <2>1, <3>1, <3>2 DEF OfKey, CalendarRecords
      <3> QED
        BY <3>1, <3>3
    <2>2. CASE r \in todo' /\ q \in todo'
      <3>1. PICK c \in cands : r.effective_at = c.effective_at /\ r = RecordFrom("cal", c, avail, ref)
        BY <1>3, <2>2
      <3>2. PICK d \in cands : q.effective_at = d.effective_at /\ q = RecordFrom("cal", d, avail, ref)
        BY <1>3, <2>2
      <3>3. c = d
        BY <1>6, <3>1, <3>2
      <3> QED
        BY <3>1, <3>2, <3>3, Zenon
    <2>3. CASE r \in CalendarRecords(journal) /\ q \in CalendarRecords(journal)
      BY <1>0, <1>6, <2>3
    <2> QED
      BY <1>6, <2>1, <2>2, <2>3
  <1>7. \A r \in CalendarRecords(journal) \cup todo' :
           Shows(r, r.known_at, Events[sound]) /\ r.known_at <= clock /\ r.revision = 1
    BY <1>0, <1>4
  <1> QED
    BY <1>5, <1>6, <1>7 DEF DatedInv

(* An event that is next now is shown by a candidate known now. *)
LEMMA NextShows ==
    ASSUME NEW G, NEW n, Timetable(G, n), NEW t \in Int, t >= Begin, NEW e, IsNext(G, t, e)
    PROVE  e.at >= Since /\ Shows(CandidateFor(e, Scope), t, G)
  <1>1. e \in Range(G) /\ e.at \in Int /\ t < e.at + HandOver
        /\ \A b \in Range(G) : b.at < e.at => b.at + HandOver <= t
    BY RangeFacts DEF IsNext
  <1>2. Since \in Int /\ HandOver \in Nat /\ Since + HandOver <= Begin /\ Begin \in Int
    BY CollectorsAssumption, ScheduleAssumption, ConstantTypes
  <1>3. e.at >= Since /\ Since <= t
    BY <1>1, <1>2
  <1>4. /\ CandidateFor(e, Scope).scope = Scope /\ CandidateFor(e, Scope).effective_at = e.at
        /\ CandidateFor(e, Scope).fields = FieldsOf(e)
    BY DEF CandidateFor, FieldsOf
  <1> QED
    BY <1>1, <1>3, <1>4 DEF Shows

LEMMA CalendarIngestStep ==
    ASSUME Inv, HandInv, PassInv, CalendarInv, Next, IngestBlob
    PROVE  CalendarInv'
  <1>0. TypeInv /\ WorldStep /\ clock \in Int /\ clock >= Begin /\ clock \in Nat
    BY StepOfWorld, ConstantTypes DEF Inv, TypeInv
  <1>1. /\ UNCHANGED <<clock, due, journal, file, upSince, sound>> /\ pc = "ingest" /\ ~Broken
        /\ todo' = Ingest(job.content_type, Parse(job), "observed", Sha256(job))
        /\ pc' = IF todo' = {} THEN "idle" ELSE "append"
    BY DEF IngestBlob, pass, store, history
  <1>2. todo = {} /\ job.content_type \in {"cal", "gdelt"}
    BY <1>1 DEF HandInv, WorkInv, Inv, BlobInv, GoodBlob
  <1>3. ~CalendarInHand'
    BY <1>1 DEF CalendarInHand
  <1>4. Kept = journal /\ journal \subseteq Kept' /\ todo' \subseteq Kept'
    BY <1>1 DEF Kept
  <1>5. CASE job.content_type = "gdelt"
    <2>1. \A r \in todo' : r.ds = "gdelt"
      BY <1>1, <1>5, IngestMakes
    <2>2. CalendarRecords(journal \cup todo)' = CalendarRecords(journal \cup todo)
      BY <1>1, <1>2, <2>1 DEF CalendarRecords
    <2>3. ~CalendarInHand /\ Up
      BY <1>1, <1>5 DEF CalendarInHand, Up
    <2>4. CalendarRecords(Kept) \subseteq Kept'
      BY <1>4 DEF CalendarRecords
    <2> QED
      BY <1>0, <1>1, <1>3, <2>2, <2>3, <2>4, CalendarQuiet
  <1>6. CASE job.content_type = "cal"
    <2>1. /\ CalendarInHand /\ job.body \in DOMAIN Calendars /\ Events[job.body] # Refused
          /\ job.fetched_at = clock /\ due["cal"] = clock + Every["cal"]
          /\ Now(job.body) = Now(sound) \/ (Now(job.body) = {} /\ upSince = clock)
      BY <1>1, <1>6 DEF CalendarInHand, CalendarInv, FetchedInv, Broken
    <2>2. Parse(job) = Now(job.body)
      BY <1>6, <2>1 DEF Parse, Now
    <2>3. PICK G : G = Events[sound]
      OBVIOUS
    <2>4. PICK n : Timetable(G, n)
      BY <2>3, LoadFacts DEF CalendarInv, FileInv
    <2>5. PICK cands : cands = Parse(job)
      OBVIOUS
    <2>6. todo' = Ingest("cal", cands, "observed", Sha256(job))
      BY <1>1, <1>6, <2>5
    <2>7. \A c : Stamp(c, "observed") = clock
      BY DEF Stamp
    <2>8. cands = {} \/ \E e \in Range(G) : IsNext(G, clock, e) /\ cands = {CandidateFor(e, Scope)}
      <3>1. Now(sound) = {} \/ \E m \in 1..n : IsNext(G, clock, G[m]) /\ Now(sound) = {CandidateFor(G[m], Scope)}
        BY <1>0, <2>3, <2>4, NextFacts DEF Now
      <3> QED
        BY <2>1, <2>2, <2>5, <3>1 DEF IsNext
    <2>9. \A c \in cands : Shows(c, clock, G)
      BY <1>0, <2>4, <2>8, NextShows
    <2>10. \A c, d \in cands : c.effective_at = d.effective_at => c = d
      BY <2>8
    <2>11. PICK ref : ref = Sha256(job)
      OBVIOUS
    <2>12. DatedInv'
      BY <1>0, <1>1, <1>2, <2>3, <2>4, <2>6, <2>7, <2>9, <2>10, <2>11, DatedIngest
    <2>13. ShownInv'
      <3> SUFFICES ASSUME upSince < Polled', NextEvent(G, Polled') # {}
                   PROVE  \E r \in CalendarRecords(Kept)' : Polled' < r.effective_at + HandOver
        BY <1>1, <2>3 DEF ShownInv
      <3>1. Polled' = clock
        BY <1>0, <1>1, <2>1, Intervals DEF Polled
      <3>2. cands = Now(sound) /\ upSince < clock
        BY <1>0, <2>1, <2>2, <2>5, <3>1 DEF CalendarInv
      <3>3. PICK m \in 1..n : IsNext(G, clock, G[m]) /\ cands = {CandidateFor(G[m], Scope)}
        BY <1>0, <2>3, <2>4, <3>1, <3>2, NextFacts DEF Now
      <3>4. PICK c \in cands : c.effective_at = G[m].at /\ clock < c.effective_at + HandOver
        BY <3>3 DEF CandidateFor, IsNext
      <3>5. \E r \in journal \cup todo' : r.ds = "cal" /\ r.effective_at = c.effective_at
        <4>1. CASE OfKey("cal", c) # {}
          BY <4>1 DEF OfKey
        <4>2. CASE OfKey("cal", c) = {}
          <5>1. Stamp(c, "observed") <= clock + Skew
            BY <1>0, <2>7, CollectorsAssumption
          <5>2. \E r \in todo' : r.ds = "cal" /\ r.effective_at = c.effective_at
            BY <2>6, <4>2, <5>1, IngestMakes
          <5> QED
            BY <5>2
        <4> QED
          BY <4>1, <4>2
      <3> QED
        BY <1>4, <3>1, <3>4, <3>5 DEF CalendarRecords
    <2>14. FileInv' /\ FetchedInv' /\ upSince' \in Int
      BY <1>1, <1>3 DEF CalendarInv, FileInv, FetchedInv
    <2> QED
      BY <2>12, <2>13, <2>14 DEF CalendarInv
  <1> QED
    BY <1>2, <1>5, <1>6

LEMMA CalendarImportStep ==
    ASSUME Inv, HandInv, CalendarInv, Next, ImportHours \/ ImportCalendar
    PROVE  CalendarInv'
  <1>0. TypeInv /\ WorldStep /\ clock \in Int
    BY StepOfWorld, ConstantTypes DEF Inv, TypeInv
  <1>1. UNCHANGED <<clock, journal, file, upSince, sound>> /\ pc = "down" /\ pc' = "import"
    BY DEF ImportHours, ImportCalendar, Import, store, history
  <1>2. todo = {} /\ ~CalendarInHand' /\ ~Up'
    BY <1>1 DEF HandInv, WorkInv, CalendarInHand, Up
  <1>3. FileInv' /\ FetchedInv' /\ ShownInv' /\ upSince' \in Int
    BY <1>1, <1>2 DEF CalendarInv, FileInv, FetchedInv, ShownInv
  <1>4. CASE ImportHours
    <2>1. PICK rows : rows = out.rows
      OBVIOUS
    <2>2. todo' = Ingest("gdelt", rows, "derived", None)
      BY <1>4, <2>1 DEF ImportHours, Import
    <2>3. \A r \in todo' : r.ds = "gdelt"
      BY <2>2, IngestMakes
    <2>4. CalendarRecords(journal \cup todo)' = CalendarRecords(journal \cup todo)
      BY <1>1, <1>2, <2>3 DEF CalendarRecords
    <2>5. DatedInv'
      BY <1>1, <2>4 DEF CalendarInv, DatedInv
    <2> QED
      BY <1>3, <2>5 DEF CalendarInv
  <1>5. CASE ImportCalendar
    <2>1. PICK G : G = Events[sound]
      OBVIOUS
    <2>2. Events[file] # Refused /\ Events[file] = G
      BY <1>5, <2>1 DEF ImportCalendar, CalendarInv, FileInv
    <2>3. PICK n : Timetable(G, n)
      BY <2>1, LoadFacts DEF CalendarInv, FileInv
    <2>4. PICK rows : rows = BackfillRows(G, Scope, Since, clock)
      OBVIOUS
    <2>5. todo' = Ingest("cal", rows, "derived", None)
      BY <1>5, <2>2, <2>4 DEF ImportCalendar, Import
    <2>6. \A c : Stamp(c, "derived") = c.known_at
      BY DEF Stamp
    <2>7. ASSUME NEW c \in rows
          PROVE  Shows(c, c.known_at, G) /\ c.known_at <= clock
      <3>1. PICK i \in 1..n : /\ G[i].at >= Since /\ c.scope = Scope /\ c.effective_at = G[i].at
                              /\ c.fields = FieldsOf(G[i]) /\ c.known_at = PubAt(G, i) /\ c.known_at <= clock
        BY <2>3, <2>4, BackfillFacts
      <3>2. /\ PubAt(G, i) \in Int /\ Since <= PubAt(G, i) /\ PubAt(G, i) < G[i].at + HandOver
            /\ \A j \in 1..n : j < i /\ G[j].at >= Since => G[j].at + HandOver <= PubAt(G, i)
        BY <2>3, <3>1, PublishedFacts
      <3>3. G[i] \in Range(G)
        BY <2>3, RangeFacts
      <3>4. ASSUME NEW b \in Range(G), b.at >= Since, b.at < G[i].at
            PROVE  b.at + HandOver <= PubAt(G, i)
        <4>1. PICK j \in 1..n : b = G[j]
          BY <2>3, RangeFacts
        <4>2. j < i
          BY <2>3, <3>4, <4>1 DEF Timetable
        <4> QED
          BY <3>2, <3>4, <4>1, <4>2
      <3> QED
        BY <3>1, <3>2, <3>3, <3>4 DEF Shows
    <2>8. ASSUME NEW c \in rows, NEW d \in rows, c.effective_at = d.effective_at
          PROVE  c = d
      <3> DEFINE row(i) == [scope |-> CandidateFor(G[i], Scope).scope,
                            effective_at |-> CandidateFor(G[i], Scope).effective_at,
                            fields |-> CandidateFor(G[i], Scope).fields, known_at |-> PubAt(G, i)]
      <3>1. rows = {row(i) : i \in {j \in {k \in DOMAIN G : G[k].at >= Since} : PubAt(G, j) <= clock}}
        BY <2>4 DEF BackfillRows, PubAt
      <3>2. \A i : row(i).effective_at = G[i].at
        BY DEF CandidateFor
      <3> HIDE DEF row
      <3>3. PICK i \in DOMAIN G : c = row(i)
        BY <3>1, Zenon
      <3>4. PICK j \in DOMAIN G : d = row(j)
        BY <3>1, Zenon
      <3>5. i = j
        <4>1. G[i].at = G[j].at
          BY <2>8, <3>2, <3>3, <3>4
        <4> QED
          BY <2>3, <4>1 DEF Timetable
      <3> QED
        BY <3>3, <3>4, <3>5
    <2>9. DatedInv'
      BY <1>0, <1>1, <1>2, <2>1, <2>3, <2>5, <2>6, <2>7, <2>8, DatedIngest
    <2> QED
      BY <1>3, <2>9 DEF CalendarInv
  <1> QED
    BY <1>4, <1>5

LEMMA CalendarAppendStep ==
    ASSUME Inv, CalendarInv, Next, NEW x \in todo, Append1(x)
    PROVE  CalendarInv'
  <1>0. TypeInv /\ WorldStep
    BY StepOfWorld DEF Inv
  <1>1. /\ UNCHANGED <<clock, due, job, file, upSince, sound>> /\ pc \in {"append", "import"}
        /\ journal' = journal \cup {x} /\ todo' = todo \ {x}
        /\ pc' = IF todo' # {} THEN pc ELSE IF pc = "append" THEN "idle" ELSE "down"
    BY DEF Append1, pass, history
  <1>2. /\ CalendarRecords(journal \cup todo)' = CalendarRecords(journal \cup todo)
        /\ CalendarRecords(Kept) \subseteq Kept'
    BY <1>1 DEF Kept, CalendarRecords
  <1>3. ~CalendarInHand /\ ~CalendarInHand' /\ (Up' => Up)
    BY <1>1 DEF CalendarInHand, Up
  <1> QED
    BY <1>0, <1>1, <1>2, <1>3, CalendarQuiet

(* Two calendars that agree up to an instant. *)
UpTo(G, limit) == {e \in Range(G) : e.at <= limit}

(* What the calendar shows is left alone by an edit of what is to come. *)
LEMMA AgreeShows ==
    ASSUME NEW G, NEW n, Timetable(G, n), NEW H, NEW m, Timetable(H, m), NEW limit \in Int,
           UpTo(G, limit) = UpTo(H, limit), NEW x, NEW known, Shows(x, known, G),
           \A e \in Range(G) : e.at = x.effective_at => e.at <= limit
    PROVE  Shows(x, known, H)
  <1>1. PICK e \in Range(G) :
         /\ e.at >= Since /\ x.effective_at = e.at /\ x.fields = FieldsOf(e) /\ known < e.at + HandOver
         /\ \A b \in Range(G) : b.at >= Since /\ b.at < e.at => b.at + HandOver <= known
    BY DEF Shows
  <1>2. e.at <= limit /\ e.at \in Int
    BY <1>1, RangeFacts
  <1>3. e \in Range(H)
    BY <1>2 DEF UpTo
  <1>4. ASSUME NEW b \in Range(H), b.at >= Since, b.at < e.at
        PROVE  b.at + HandOver <= known
    <2>1. b.at \in Int
      BY RangeFacts
    <2>2. b \in Range(G)
      BY <1>2, <1>4, <2>1 DEF UpTo
    <2> QED
      BY <1>1, <1>4, <2>2
  <1> QED
    BY <1>1, <1>3, <1>4 DEF Shows

LEMMA AgreeNext ==
    ASSUME NEW G, NEW n, Timetable(G, n), NEW H, NEW m, Timetable(H, m), NEW t \in Int,
           NEW e, IsNext(G, t, e), UpTo(G, e.at) = UpTo(H, e.at)
    PROVE  ParseSchedule(H, t, Scope) = ParseSchedule(G, t, Scope)
  <1>1. e.at \in Int /\ e \in Range(G) /\ t < e.at + HandOver
        /\ \A b \in Range(G) : b.at < e.at => b.at + HandOver <= t
    BY RangeFacts DEF IsNext
  <1>2. e \in Range(H)
    BY <1>1 DEF UpTo
  <1>3. \A b \in Range(H) : b.at < e.at => b.at + HandOver <= t
    <2> SUFFICES ASSUME NEW b \in Range(H), b.at < e.at PROVE b.at + HandOver <= t
      OBVIOUS
    <2>1. b.at \in Int
      BY RangeFacts
    <2>2. b \in Range(G)
      BY <1>1, <2>1 DEF UpTo
    <2> QED
      BY <1>1, <2>2
  <1>4. IsNext(H, t, e)
    BY <1>1, <1>2, <1>3 DEF IsNext
  <1>5. ASSUME NEW F, NEW k, Timetable(F, k), IsNext(F, t, e)
        PROVE  ParseSchedule(F, t, Scope) = {CandidateFor(e, Scope)}
    <2>1. e \in Range(F) /\ e.at \in Int /\ t < e.at + HandOver /\ HandOver \in Nat
      BY <1>1, <1>5, ScheduleAssumption DEF IsNext
    <2>2. NextEvent(F, t) # {}
      <3>1. ~(e.at + HandOver <= t)
        BY <2>1
      <3> QED
        BY <1>5, <2>1, <3>1, NextFacts
    <2>3. PICK i \in 1..k : IsNext(F, t, F[i]) /\ ParseSchedule(F, t, Scope) = {CandidateFor(F[i], Scope)}
      BY <1>5, <2>2, NextFacts
    <2>4. F[i] = e
      <3>1. F[i] \in Range(F)
        BY <1>5, RangeFacts
      <3> QED
        BY <1>5, <2>1, <2>3, <3>1, NextFacts
    <2> QED
      BY <2>3, <2>4
  <1> QED
    BY <1>4, <1>5

LEMMA CalendarEditStep ==
    ASSUME Inv, PassInv, CalendarInv, NEW version \in DOMAIN Calendars, Edit(version)
    PROVE  CalendarInv'
  <1>0. clock \in Int /\ clock >= Begin /\ clock \in Nat /\ HandOver \in Nat /\ HandOver >= 1 /\ Begin \in Int
        /\ Since \in Int /\ Since + HandOver <= Begin
    BY ConstantTypes, ScheduleAssumption, CollectorsAssumption DEF Inv, TypeInv
  <1>1. PICK G : G = Events[sound]
    OBVIOUS
  <1>2. PICK H : H = Events[version]
    OBVIOUS
  <1>3. PICK n : Timetable(G, n)
    BY <1>1, LoadFacts DEF CalendarInv, FileInv
  <1> DEFINE N == NextEvent(G, clock)
             limit == IF N = {} THEN clock ELSE G[Min(N)].at
  <1>4. /\ UNCHANGED <<clock, pc, due, job, todo, journal>>
        /\ file' = version /\ sound' = IF H = Refused THEN sound ELSE version
        /\ upSince' = IF N = {} THEN clock ELSE upSince
        /\ H # Refused => UpTo(G, limit) = UpTo(H, limit)
    BY <1>1, <1>2 DEF Edit, UpTo, pass, store
  <1>5. FileInv' /\ upSince' \in Int
    BY <1>0, <1>2, <1>4 DEF CalendarInv, FileInv
  <1>6. /\ N = {} <=> \A e \in Range(G) : e.at + HandOver <= clock
        /\ N # {} => \E k \in 1..n : /\ k = Min(N) /\ IsNext(G, clock, G[k])
    BY <1>0, <1>3, NextFacts
  <1>7. \A e \in Range(G) : e.at \in Int
    BY <1>3, RangeFacts
  <1>8. /\ limit \in Int
        /\ N = {} => limit = clock
        /\ N # {} => \E e \in Range(G) : e.at = limit /\ IsNext(G, clock, e)
    BY <1>0, <1>6, <1>7 DEF IsNext
  <1> HIDE DEF limit, N
  <1>9. /\ CalendarRecords(journal \cup todo)' = CalendarRecords(journal \cup todo)
        /\ CalendarRecords(Kept)' = CalendarRecords(Kept)
        /\ (CalendarInHand' <=> CalendarInHand) /\ (Up' <=> Up) /\ Polled' = Polled
    BY <1>4 DEF CalendarRecords, CalendarInHand, Up, Kept, Polled
  \* A calendar that was over is current again one poll from now.
  <1>10. CASE N = {}
    <2>1. upSince' = clock
      BY <1>4, <1>10
    <2>2. ShownInv'
      <3>1. Up => Polled <= clock /\ Polled \in Int
        BY <1>0, Intervals DEF PassInv, Polled, Sources
      <3> QED
        BY <1>0, <1>9, <2>1, <3>1 DEF ShownInv
    <2>3. Now(sound) = {}
      BY <1>0, <1>1, <1>3, <1>10, NextFacts DEF Now, N
    <2>4. FetchedInv'
      <3> SUFFICES ASSUME CalendarInHand
                   PROVE  /\ job.fetched_at = clock /\ job.body \in DOMAIN Calendars
                          /\ due["cal"] = clock + Every["cal"]
                          /\ Events[job.body] # Refused => Now(job.body) = {}
        BY <1>4, <1>9, <2>1 DEF FetchedInv, Now
      <3> QED
        BY <2>3 DEF CalendarInv, FetchedInv
    <2>5. DatedInv'
      <3>1. CASE H = Refused
        BY <1>4, <1>9, <3>1 DEF CalendarInv, DatedInv
      <3>2. CASE H # Refused
        <4>1. PICK m : Timetable(H, m)
          BY <1>2, <3>2, LoadFacts
        <4>2. \A e \in Range(G) : e.at <= limit
          BY <1>0, <1>6, <1>7, <1>8, <1>10
        <4>3. \A r \in CalendarRecords(journal \cup todo) : Shows(r, r.known_at, H)
          <5> SUFFICES ASSUME NEW r \in CalendarRecords(journal \cup todo) PROVE Shows(r, r.known_at, H)
            OBVIOUS
          <5>1. Shows(r, r.known_at, G)
            BY <1>1 DEF CalendarInv, DatedInv
          <5> QED
            BY <1>3, <1>4, <1>8, <3>2, <4>1, <4>2, <5>1, AgreeShows
        <4>4. Events[sound'] = H
          BY <1>2, <1>4, <3>2
        <4> QED
          BY <1>4, <1>9, <4>3, <4>4 DEF CalendarInv, DatedInv
      <3> QED
        BY <3>1, <3>2
    <2> QED
      BY <1>5, <2>2, <2>4, <2>5 DEF CalendarInv
  <1>11. CASE N # {}
    <2>1. upSince' = upSince
      BY <1>4, <1>11
    <2>2. PICK e \in Range(G) : e.at = limit /\ IsNext(G, clock, e)
      BY <1>8, <1>11
    <2>3. CASE H = Refused
      <3>1. sound' = sound
        BY <1>4, <2>3
      <3> QED
        BY <1>4, <1>5, <1>9, <2>1, <3>1 DEF CalendarInv, DatedInv, FetchedInv, ShownInv, Now
    <2>4. CASE H # Refused
      <3>1. PICK m : Timetable(H, m)
        BY <1>2, <2>4, LoadFacts
      <3>2. sound' = version /\ Events[sound'] = H
        BY <1>2, <1>4, <2>4
      <3>3. UpTo(G, e.at) = UpTo(H, e.at)
        BY <1>4, <2>2, <2>4
      <3>4. ParseSchedule(H, clock, Scope) = ParseSchedule(G, clock, Scope)
        BY <1>0, <1>3, <2>2, <3>1, <3>3, AgreeNext
      <3>5. FetchedInv'
        BY <1>1, <1>4, <1>9, <2>1, <3>2, <3>4 DEF CalendarInv, FetchedInv, Now
      <3>6. ShownInv'
        <4> SUFFICES ASSUME Up, upSince < Polled, ~CalendarInHand
                     PROVE  \E r \in CalendarRecords(Kept) : Polled < r.effective_at + HandOver
          BY <1>9, <2>1 DEF ShownInv
        <4>1. Polled <= clock /\ Polled \in Int
          BY <1>0, Intervals DEF PassInv, Polled, Sources
        <4>2. NextEvent(G, Polled) # {}
          <5>1. clock < e.at + HandOver /\ e.at \in Int
            BY <1>7, <2>2 DEF IsNext
          <5>2. ~(e.at + HandOver <= Polled)
            BY <1>0, <4>1, <5>1
          <5> QED
            BY <1>3, <2>2, <4>1, <5>2, NextFacts
        <4> QED
          BY <1>1, <4>2 DEF CalendarInv, ShownInv
      <3>7. DatedInv'
        <4>1. \A r \in CalendarRecords(journal \cup todo) : Shows(r, r.known_at, H)
          <5> SUFFICES ASSUME NEW r \in CalendarRecords(journal \cup todo) PROVE Shows(r, r.known_at, H)
            OBVIOUS
          <5>1. Shows(r, r.known_at, G) /\ r.known_at <= clock
            BY <1>1 DEF CalendarInv, DatedInv
          <5>2. ASSUME NEW d \in Range(G), d.at = r.effective_at
                PROVE  d.at <= limit
            <6>1. PICK f \in Range(G) : /\ r.effective_at = f.at
                     /\ \A b \in Range(G) : b.at >= Since /\ b.at < f.at => b.at + HandOver <= r.known_at
              BY <5>1 DEF Shows
            <6>2. e.at \in Int /\ d.at \in Int /\ f.at = d.at /\ clock < e.at + HandOver /\ r.known_at \in Int
              BY <1>7, <2>2, <5>1, <5>2, <6>1 DEF IsNext, Shows
            <6>3. e.at >= Since
              BY <1>0, <6>2
            <6>4. ~(e.at < d.at)
              BY <1>0, <5>1, <6>1, <6>2, <6>3
            <6> QED
              BY <2>2, <6>2, <6>4
          <5> QED
            BY <1>3, <1>4, <1>8, <2>4, <3>1, <5>1, <5>2, AgreeShows
        <4> QED
          BY <1>4, <1>9, <3>2, <4>1 DEF CalendarInv, DatedInv
      <3> QED
        BY <1>5, <3>5, <3>6, <3>7 DEF CalendarInv
    <2> QED
      BY <2>3, <2>4
  <1> QED
    BY <1>10, <1>11

LEMMA NextCalendar == Inv /\ HandInv /\ PassInv /\ CalendarInv /\ [Next]_vars => CalendarInv'
  <1> SUFFICES ASSUME Inv, HandInv, PassInv, CalendarInv, [Next]_vars PROVE CalendarInv'
    OBVIOUS
  <1>1. CASE Next
    BY <1>1, CalendarOutside, CalendarRestart, CalendarPoll, CalendarIngestStep, CalendarImportStep,
       CalendarAppendStep, CalendarEditStep DEF Next
  <1>2. CASE UNCHANGED vars
    BY <1>2 DEF vars, pass, fetching, store, history, CalendarInv, FileInv, DatedInv, CalendarRecords,
                FetchedInv, CalendarInHand, Now, ShownInv, Polled, Up, Kept
  <1> QED
    BY <1>1, <1>2

(* The newest record is the latest event shown. *)
LEMMA NewestRecord ==
    ASSUME CalendarInv, NEW q \in CalendarRecords(journal)
    PROVE  \E x \in CalendarRecords(journal) :
              /\ Shown = {x.fields}
              /\ q.effective_at <= x.effective_at
  <1> DEFINE R == CalendarRecords(journal)
  <1>1. PICK G : G = Events[sound]
    OBVIOUS
  <1>2. PICK n : Timetable(G, n)
    BY <1>1, LoadFacts DEF CalendarInv, FileInv
  <1>3. n \in Nat /\ (\A i \in 1..n : G[i].at \in Int) /\ HandOver \in Nat
    BY <1>2, ScheduleAssumption DEF Timetable
  <1>4. /\ \A r \in R : Shows(r, r.known_at, G)
        /\ \A r, x \in R : r.effective_at = x.effective_at => r = x
    BY <1>1 DEF CalendarInv, DatedInv, CalendarRecords
  <1>5. \A r \in R : r.known_at \in Int /\ \E i \in 1..n : r.effective_at = G[i].at
    BY <1>2, <1>4, RangeFacts DEF Shows
  <1> HIDE DEF R
  <1> DEFINE left == {k \in 0..n : \E r \in R : k < n /\ r.effective_at = G[n - k].at}
  <1>6. q \in R /\ left \in SUBSET Nat
    BY <1>3 DEF R
  <1>7. left # {}
    <2>1. PICK i \in 1..n : q.effective_at = G[i].at
      BY <1>5, <1>6
    <2>2. n - i \in 0..n /\ n - i < n /\ n - (n - i) = i
      BY <1>3
    <2>3. n - i \in left
      BY <1>6, <2>1, <2>2
    <2> QED
      BY <2>3
  <1>8. PICK k \in left : \A j \in left : k <= j
    <2> HIDE DEF left
    <2> QED
      BY <1>6, <1>7, Least
  <1>9. PICK x \in R : k < n /\ x.effective_at = G[n - k].at
    OBVIOUS
  <1>10. k \in Nat /\ n - k \in 1..n /\ x.effective_at \in Int
    BY <1>3, <1>9
  <1>11. ASSUME NEW y \in R
         PROVE  y.effective_at \in Int /\ (y.effective_at = x.effective_at \/ y.effective_at < x.effective_at)
    <2>1. PICK i \in 1..n : y.effective_at = G[i].at
      BY <1>5
    <2>2. n - i \in 0..n /\ n - i < n /\ n - (n - i) = i
      BY <1>3
    <2>3. n - i \in left
      BY <2>1, <2>2
    <2>4. i = n - k \/ i < n - k
      <3>1. k <= n - i
        BY <1>8, <2>3
      <3> QED
        BY <1>3, <1>10, <3>1
    <2> QED
      BY <1>2, <1>3, <1>9, <1>10, <2>1, <2>4 DEF Timetable
  <1>12. ASSUME NEW y \in R
         PROVE  \/ y.known_at < x.known_at
                \/ y.known_at = x.known_at /\ y.effective_at = x.effective_at /\ y.fields = x.fields
    <2>1. CASE y.effective_at = x.effective_at
      BY <1>4, <2>1
    <2>2. CASE y.effective_at < x.effective_at
      <3>1. PICK d \in Range(G) : d.at >= Since /\ y.effective_at = d.at /\ y.known_at < d.at + HandOver
        BY <1>4 DEF Shows
      <3>2. d.at + HandOver <= x.known_at
        BY <1>4, <2>2, <3>1 DEF Shows
      <3>3. d.at \in Int /\ y.known_at \in Int /\ x.known_at \in Int
        BY <1>5, <1>11, <3>1
      <3> QED
        BY <1>3, <3>1, <3>2, <3>3
    <2> QED
      BY <1>11, <2>1, <2>2
  <1>13. Newest(R) = {x.fields}
    BY <1>5, <1>11, <1>12, NewestFacts
  <1>14. q.effective_at <= x.effective_at
    BY <1>6, <1>10, <1>11
  <1> QED
    BY <1>13, <1>14 DEF R, Shown, CalendarRecords

(* A record shown is what a backtest has until its event is handed over. *)
LEMMA ShownIsBacktest ==
    ASSUME CalendarInv, Events[file] # Refused, NEW x \in CalendarRecords(journal), Shown = {x.fields},
           NEW t \in Int, x.known_at <= t, t < x.effective_at + HandOver
    PROVE  Shown = Backtest(t)
  <1>1. PICK G : G = Events[file]
    OBVIOUS
  <1>2. G = Events[sound]
    BY <1>1 DEF CalendarInv, FileInv
  <1>3. PICK n : Timetable(G, n)
    BY <1>2, LoadFacts DEF CalendarInv, FileInv
  <1>4. Shows(x, x.known_at, G) /\ x.known_at \in Int /\ Since <= x.known_at
    BY <1>2 DEF CalendarInv, DatedInv, CalendarRecords, Shows
  <1>5. PICK e \in Range(G) :
         /\ e.at >= Since /\ x.effective_at = e.at /\ x.fields = FieldsOf(e)
         /\ \A b \in Range(G) : b.at >= Since /\ b.at < e.at => b.at + HandOver <= x.known_at
    BY <1>4 DEF Shows
  <1>6. t >= Since /\ Since \in Int /\ HandOver \in Nat
    BY <1>4, CollectorsAssumption, ScheduleAssumption
  <1>7. \A b \in Range(G) : b.at >= Since /\ b.at < e.at => b.at + HandOver <= t
    <2> SUFFICES ASSUME NEW b \in Range(G), b.at >= Since, b.at < e.at PROVE b.at + HandOver <= t
      OBVIOUS
    <2>1. b.at \in Int /\ b.at + HandOver <= x.known_at
      BY <1>3, <1>5, RangeFacts
    <2> QED
      BY <1>4, <1>6, <2>1
  <1>8. Newest(BackfillRows(G, Scope, Since, t)) = {FieldsOf(e)}
    BY <1>3, <1>5, <1>6, <1>7, BacktestFacts
  <1> QED
    BY <1>1, <1>5, <1>8 DEF Backtest

LEMMA CalendarKeepsUp == Inv /\ PassInv /\ CalendarInv => CalendarIsCurrent
  <1> SUFFICES ASSUME Inv, PassInv, CalendarInv, Events[file] # Refused
               PROVE  /\ Shown # {} => \E t \in Since..clock : Shown = Backtest(t)
                      /\ (/\ pc = "idle" /\ clock - upSince > Every["cal"] + MaxFetch
                          /\ NextEvent(Events[file], clock) # {}) =>
                            \E t \in (clock - Every["cal"] - MaxFetch)..clock : Shown = Backtest(t)
    BY DEF CalendarIsCurrent
  <1>0. /\ clock \in Int /\ Since \in Int /\ HandOver \in Nat /\ MaxFetch \in Nat /\ Every["cal"] \in Nat
        /\ upSince \in Int
    BY ConstantTypes, CollectorsAssumption, ScheduleAssumption, Intervals DEF Inv, TypeInv, CalendarInv
  <1>1. ASSUME NEW x \in CalendarRecords(journal)
        PROVE  /\ x.known_at \in Int /\ Since <= x.known_at /\ x.known_at <= clock
               /\ x.effective_at \in Int /\ x.known_at < x.effective_at + HandOver
    <2>1. PICK n : Timetable(Events[sound], n)
      BY LoadFacts DEF CalendarInv, FileInv
    <2>2. Shows(x, x.known_at, Events[sound]) /\ x.known_at <= clock
      BY DEF CalendarInv, DatedInv, CalendarRecords
    <2>3. \A e \in Range(Events[sound]) : e.at \in Int
      BY <2>1, RangeFacts
    <2> QED
      BY <2>2, <2>3 DEF Shows
  <1>2. ASSUME Shown # {}
        PROVE  \E t \in Since..clock : Shown = Backtest(t)
    <2>1. PICK q \in CalendarRecords(journal) : TRUE
      BY <1>2 DEF Shown, Newest, CalendarRecords
    <2>2. PICK x \in CalendarRecords(journal) : Shown = {x.fields}
      BY NewestRecord
    <2>3. Shown = Backtest(x.known_at)
      BY <1>1, <2>2, ShownIsBacktest
    <2> QED
      BY <1>0, <1>1, <2>3
  <1>3. ASSUME pc = "idle", clock - upSince > Every["cal"] + MaxFetch, NextEvent(Events[file], clock) # {}
        PROVE  \E t \in (clock - Every["cal"] - MaxFetch)..clock : Shown = Backtest(t)
    <2>1. PICK p \in Int : p = Polled /\ clock - Every["cal"] - MaxFetch <= p /\ p <= clock /\ upSince < p
      <3>1. due["cal"] \in Nat /\ clock <= due["cal"] + MaxFetch /\ due["cal"] <= clock + Every["cal"]
        BY <1>3 DEF PassInv, Up, Sources
      <3> QED
        BY <1>0, <1>3, <3>1 DEF Polled
    <2>2. NextEvent(Events[sound], p) # {}
      <3>1. PICK G : G = Events[sound] /\ G = Events[file]
        BY DEF CalendarInv, FileInv
      <3>2. PICK n : Timetable(G, n)
        BY <3>1, LoadFacts DEF CalendarInv, FileInv
      <3>3. PICK e \in Range(G) : ~(e.at + HandOver <= clock)
        BY <1>0, <1>3, <3>1, <3>2, NextFacts
      <3>4. e.at \in Int
        BY <3>2, RangeFacts
      <3>5. ~(e.at + HandOver <= p)
        BY <1>0, <2>1, <3>3, <3>4
      <3> QED
        BY <3>1, <3>2, <3>5, NextFacts
    <2>3. PICK q \in CalendarRecords(journal) : p < q.effective_at + HandOver
      <3>1. ~CalendarInHand /\ Up /\ Kept = journal
        BY <1>3 DEF CalendarInHand, Up, Kept
      <3> QED
        BY <2>1, <2>2, <3>1 DEF CalendarInv, ShownInv
    <2>4. PICK x \in CalendarRecords(journal) : Shown = {x.fields} /\ q.effective_at <= x.effective_at
      BY NewestRecord
    <2>5. p < x.effective_at + HandOver
      BY <1>0, <1>1, <2>1, <2>3, <2>4
    <2>6. PICK t \in Int : t = IF p <= x.known_at THEN x.known_at ELSE p
      BY <1>1, <2>1
    <2>7. x.known_at <= t /\ t < x.effective_at + HandOver /\ p <= t /\ t <= clock
      BY <1>0, <1>1, <2>1, <2>5, <2>6
    <2>8. Shown = Backtest(t)
      BY <2>4, <2>7, ShownIsBacktest
    <2>9. t \in (clock - Every["cal"] - MaxFetch)..clock
      BY <1>0, <2>1, <2>7
    <2> QED
      BY <2>8, <2>9
  <1> QED
    BY <1>2, <1>3

(* The newest record of the calendar is what a backtest over backfilled     *)
(* records has, or had at most one poll and one fetch ago, and never one it *)
(* has not yet.                                                             *)
THEOREM CalendarStaysCurrent == Spec => []CalendarIsCurrent
  <1>1. Init => Inv /\ HandInv /\ PassInv /\ CalendarInv
    BY InitInv, InitHand, InitPass, InitCalendar
  <1>2. Inv /\ HandInv /\ PassInv /\ CalendarInv /\ [Next]_vars => (Inv /\ HandInv /\ PassInv /\ CalendarInv)'
    BY NextInv, NextHand, NextPass, NextCalendar
  <1> QED
    BY <1>1, <1>2, CalendarKeepsUp, PTL DEF Spec
=============================================================================
