---------------------------- MODULE DatasetProofs ---------------------------
(***************************************************************************)
(* Machine-checked proofs about a value's way from the printed cell over   *)
(* the validated payload and the journal to the snapshot's column and      *)
(* back, for every schema, every scale, every range of storable numbers    *)
(* and every expression language (Payload.tla, Declarative.tla,            *)
(* Snapshot.tla, Dataset.tla).                                             *)
(***************************************************************************)
EXTENDS Dataset, FiniteSetTheorems, FunctionTheorems, WellFoundedInduction, TLAPS

-----------------------------------------------------------------------------
(* Dictionaries: sorted() lists every member of a finite set once.          *)

(* A strict total order on S. *)
Ordered(S, before) ==
    /\ \A x \in S : <<x, x>> \notin before
    /\ \A x, y, z \in S : <<x, y>> \in before /\ <<y, z>> \in before => <<x, z>> \in before
    /\ \A x, y \in S : x = y \/ <<x, y>> \in before \/ <<y, x>> \in before

(* How many members of S come before x. *)
Place(S, before, x) == Cardinality({y \in S : <<y, x>> \in before})

(* Places rise along the order, and are below the number of members. *)
LEMMA PlaceRises ==
    ASSUME NEW S, IsFiniteSet(S), NEW before, Ordered(S, before), NEW x \in S
    PROVE  /\ Place(S, before, x) \in Nat /\ Place(S, before, x) < Cardinality(S)
           /\ \A y \in S : <<x, y>> \in before => Place(S, before, x) < Place(S, before, y)
  <1> DEFINE below(z) == {y \in S : <<y, z>> \in before}
  <1>1. ASSUME NEW T \in SUBSET S, x \in T, below(x) \subseteq T
        PROVE  Cardinality(below(x)) \in Nat /\ Cardinality(below(x)) < Cardinality(T)
    <2>1. IsFiniteSet(T) /\ IsFiniteSet(below(x))
      BY FS_Subset
    <2>2. x \notin below(x) /\ below(x) \cup {x} \in SUBSET T
      BY <1>1 DEF Ordered
    <2> HIDE DEF below
    <2>3. Cardinality(below(x) \cup {x}) = Cardinality(below(x)) + 1
      BY <2>1, <2>2, FS_AddElement
    <2>4. Cardinality(below(x) \cup {x}) <= Cardinality(T)
      BY <2>1, <2>2, FS_Subset
    <2>5. Cardinality(below(x)) \in Nat /\ Cardinality(T) \in Nat
      BY <2>1, FS_CardinalityType
    <2> QED
      BY <2>3, <2>4, <2>5
  <1>2. Cardinality(below(x)) \in Nat /\ Cardinality(below(x)) < Cardinality(S)
    BY <1>1
  <1>3. ASSUME NEW y \in S, <<x, y>> \in before
        PROVE  Cardinality(below(x)) < Cardinality(below(y))
    <2> DEFINE T == {z \in S : <<z, y>> \in before}
    <2>1. T \in SUBSET S /\ x \in T /\ below(x) \subseteq T
      BY <1>3 DEF Ordered
    <2> HIDE DEF T
    <2>2. Cardinality(below(x)) < Cardinality(T)
      BY <1>1, <2>1
    <2> QED
      BY <2>2 DEF T
  <1> QED
    BY <1>2, <1>3 DEF Place

(* Every number below the size of S is the place of one member. *)
LEMMA PlaceTaken ==
    ASSUME NEW S, IsFiniteSet(S), NEW before, Ordered(S, before), NEW i \in 1..Cardinality(S)
    PROVE  \E x \in S : Place(S, before, x) = i - 1
  <1> DEFINE n == Cardinality(S)
             f == [x \in S |-> Place(S, before, x)]
  <1>0. n \in Nat /\ n # 0
    BY FS_CardinalityType
  <1>1. f \in [S -> 0..(n - 1)]
    BY <1>0, PlaceRises
  <1>2. ASSUME NEW x \in S, NEW y \in S, f[x] = f[y]
        PROVE  x = y
    <2>1. Place(S, before, x) = Place(S, before, y) /\ Place(S, before, x) \in Nat
      BY <1>2, PlaceRises
    <2>2. <<x, y>> \notin before /\ <<y, x>> \notin before
      BY <2>1, PlaceRises
    <2> QED
      BY <2>2 DEF Ordered
  <1>3. f \in Injection(S, 0..(n - 1))
    <2> HIDE DEF f, n
    <2>1. IsInjective(f)
      BY <1>1, <1>2 DEF IsInjective
    <2> QED
      BY <1>1, <2>1 DEF Injection
  <1>4. IsFiniteSet(0..(n - 1)) /\ Cardinality(0..(n - 1)) = n
    <2> HIDE DEF n
    <2>1. 0 \in Int /\ n - 1 \in Int /\ ~(0 > n - 1) /\ n - 1 - 0 + 1 = n
      BY <1>0
    <2> QED
      BY <2>1, FS_Interval
  <1>5. f \in Surjection(S, 0..(n - 1))
    <2> HIDE DEF f
    <2> QED
      BY <1>3, <1>4, FS_Injection
  <1>6. i - 1 \in 0..(n - 1)
    BY <1>0
  <1>7. PICK x \in S : f[x] = i - 1
    <2> HIDE DEF f
    <2> QED
      BY <1>5, <1>6 DEF Surjection
  <1> QED
    BY <1>7

(* A dictionary of a set: what looking an entry up by its index returns. *)
Covers(dict, S) == \A x \in S : IndexIn(dict, x) \in Nat /\ dict[IndexIn(dict, x) + 1] = x

LEMMA ListedCovers ==
    ASSUME NEW S, IsFiniteSet(S), NEW before, Ordered(S, before)
    PROVE  Covers(Listed(S, before), S)
  <1> DEFINE n == Cardinality(S)
             d == Listed(S, before)
  <1>0. n \in Nat /\ DOMAIN d = 1..n
    BY FS_CardinalityType DEF Listed
  <1>1. ASSUME NEW i \in 1..n
        PROVE  d[i] \in S /\ Place(S, before, d[i]) = i - 1
    <2>1. d[i] = CHOOSE x \in S : Place(S, before, x) = i - 1
      BY DEF Listed, Place
    <2> HIDE DEF d
    <2> QED
      BY <2>1, PlaceTaken
  <1> HIDE DEF d
  <1> SUFFICES ASSUME NEW x \in S
               PROVE  IndexIn(d, x) \in Nat /\ d[IndexIn(d, x) + 1] = x
    BY DEF Covers, d
  <1> DEFINE k == Place(S, before, x) + 1
  <1>2. k \in 1..n /\ k - 1 = Place(S, before, x)
    BY <1>0, PlaceRises
  <1>3. d[k] = x
    <2> HIDE DEF k
    <2>1. d[k] \in S /\ Place(S, before, d[k]) = Place(S, before, x) /\ Place(S, before, x) \in Nat
      BY <1>1, <1>2, PlaceRises
    <2>2. <<d[k], x>> \notin before /\ <<x, d[k]>> \notin before
      BY <2>1, PlaceRises
    <2> QED
      BY <2>1, <2>2 DEF Ordered
  <1> HIDE DEF k
  <1>4. PICK i \in DOMAIN d : i = CHOOSE j \in DOMAIN d : d[j] = x
    BY <1>0, <1>2, <1>3
  <1>5. d[i] = x
    BY <1>0, <1>2, <1>3, <1>4
  <1>6. IndexIn(d, x) = i - 1 /\ i \in 1..n
    BY <1>0, <1>4 DEF IndexIn
  <1> QED
    BY <1>0, <1>5, <1>6

-----------------------------------------------------------------------------
(* The orders of texts, of parts and of keys.                               *)

(* A text of the instance, and what a key has in one place: a missing part, *)
(* a text or an integer, the same kind in every key of a dataset.           *)
Part(kind, p) ==
    \/ p = Null
    \/ kind = "text" /\ \E x \in Range(Collate) : p = <<"text", x>>
    \/ kind \in {"int", "num"} /\ \E n \in Int : p = <<kind, n>>

Key(kinds, k) == DOMAIN k = DOMAIN kinds /\ k = [i \in DOMAIN kinds |-> k[i]]
                 /\ \A i \in DOMAIN kinds : Part(kinds[i], k[i])

LEMMA RankFacts ==
    ASSUME NEW x \in Range(Collate)
    PROVE  Rank(x) \in DOMAIN Collate /\ Collate[Rank(x)] = x
  BY DEF Rank, Range

LEMMA TextsCover ==
    ASSUME NEW S \in SUBSET Range(Collate), IsFiniteSet(S), DOMAIN Collate \in SUBSET Int
    PROVE  Covers(Texts(S), S)
  <1> DEFINE before == {p \in S \X S : Rank(p[1]) < Rank(p[2])}
  <1>1. ASSUME NEW x \in S, NEW y \in S
        PROVE  <<x, y>> \in before <=> Rank(x) < Rank(y)
    OBVIOUS
  <1>2. \A x \in S : Rank(x) \in Int
    BY RankFacts
  <1>3. \A x, y \in S : Rank(x) = Rank(y) => x = y
    BY RankFacts
  <1>4. Ordered(S, before)
    <2> HIDE DEF before
    <2> QED
      BY <1>1, <1>2, <1>3 DEF Ordered
  <1> QED
    BY <1>4, ListedCovers DEF Texts

(* Parts of one kind are strictly and totally ordered. *)
LEMMA PartOrder ==
    ASSUME NEW kind, DOMAIN Collate \in SUBSET Int, NEW a, NEW b, NEW c,
           Part(kind, a), Part(kind, b), Part(kind, c)
    PROVE  /\ ~PartLess(a, a)
           /\ PartLess(a, b) /\ PartLess(b, c) => PartLess(a, c)
           /\ a = b \/ PartLess(a, b) \/ PartLess(b, a)
  <1>1. ASSUME NEW p, Part(kind, p)
        PROVE  \/ p = Null
               \/ kind = "text" /\ p[1] = "text" /\ p = <<"text", p[2]>> /\ p[2] \in Range(Collate)
               \/ kind \in {"int", "num"} /\ p[1] = kind /\ p = <<kind, p[2]>> /\ p[2] \in Int
    BY <1>1 DEF Part
  <1>2. ASSUME NEW x \in Range(Collate)
        PROVE  Rank(x) \in Int /\ \A y \in Range(Collate) : Rank(x) = Rank(y) => x = y
    BY RankFacts
  <1>3. CASE kind = "text"
    <2>1. ASSUME NEW p, Part(kind, p)
          PROVE  \/ p = Null
                 \/ p # Null /\ p[1] = "text" /\ p = <<"text", p[2]>> /\ p[2] \in Range(Collate)
      BY <1>1, <1>3, <2>1 DEF Null
    <2>2. ASSUME NEW p, Part(kind, p), NEW q, Part(kind, q)
          PROVE  PartLess(p, q) <=> (q # Null /\ (p = Null \/ Rank(p[2]) < Rank(q[2])))
      <3>1. (p[1] = "null" <=> p = Null) /\ (q[1] = "null" <=> q = Null)
        BY <2>1, <2>2 DEF Null
      <3>2. p # Null /\ q # Null => p[1] = "text" /\ q[1] = "text"
        BY <2>1, <2>2
      <3> QED
        BY <3>1, <3>2 DEF PartLess
    <2>3. ASSUME NEW p, Part(kind, p), NEW q, Part(kind, q), p # Null, q # Null
          PROVE  Rank(p[2]) \in Int /\ Rank(q[2]) \in Int /\ (Rank(p[2]) = Rank(q[2]) => p = q)
      <3>1. p[2] = q[2] => p = q
        BY <2>1, <2>3
      <3> QED
        BY <1>2, <2>1, <2>3, <3>1
    <2> QED
      BY <2>2, <2>3
  <1>4. CASE kind \in {"int", "num"}
    <2>1. \A p : Part(kind, p) => p = Null \/ (p[1] = kind /\ p = <<kind, p[2]>> /\ p[2] \in Int)
      BY <1>1, <1>4
    <2> QED
      BY <1>4, <2>1 DEF PartLess, Null
  <1>5. CASE kind \notin {"text", "int", "num"}
    <2>1. a = Null /\ b = Null /\ c = Null
      BY <1>5 DEF Part
    <2> QED
      BY <2>1 DEF PartLess, Null
  <1> QED
    BY <1>3, <1>4, <1>5

LEMMA PartsCover ==
    ASSUME NEW kind, NEW S, \A p \in S : Part(kind, p), IsFiniteSet(S), DOMAIN Collate \in SUBSET Int
    PROVE  Covers(Parts(S), S)
  <1> DEFINE before == {p \in S \X S : PartLess(p[1], p[2])}
  <1>1. ASSUME NEW x \in S, NEW y \in S
        PROVE  <<x, y>> \in before <=> PartLess(x, y)
    OBVIOUS
  <1>2. Ordered(S, before)
    <2> HIDE DEF before
    <2> QED
      BY <1>1, PartOrder DEF Ordered
  <1> QED
    BY <1>2, ListedCovers DEF Parts

(* A set of naturals has a least element. *)
LEMMA Least ==
    ASSUME NEW S \in SUBSET Nat, S # {}
    PROVE  \E x \in S : \A y \in S : x <= y
  <1> DEFINE Less == {ss \in Nat \X Nat : ss[1] < ss[2]}
  <1>1. IsWellFoundedOn(Less, Nat)
    BY NatLessThanWellFounded DEF OpToRel
  <1>2. PICK x \in S : \A y \in S : ~(<<y, x>> \in Less)
    <2> HIDE DEF Less
    <2> QED
      BY <1>1, WFMin
  <1>3. ASSUME NEW y \in S
        PROVE  x <= y
    <2>1. x \in Nat /\ y \in Nat /\ <<y, x>> \in Nat \X Nat
      OBVIOUS
    <2>2. ~(y < x)
      BY <1>2, <2>1
    <2> QED
      BY <2>1, <2>2
  <1> QED
    BY <1>3

(* Keys are ordered by the first part in which they differ. *)
LEMMA KeyOrder ==
    ASSUME NEW n \in Nat, NEW kinds, DOMAIN kinds = 1..n, DOMAIN Collate \in SUBSET Int,
           NEW a, NEW b, NEW c, Key(kinds, a), Key(kinds, b), Key(kinds, c)
    PROVE  /\ ~KeyLess(a, a)
           /\ KeyLess(a, b) /\ KeyLess(b, c) => KeyLess(a, c)
           /\ a = b \/ KeyLess(a, b) \/ KeyLess(b, a)
  <1>0. /\ DOMAIN a = 1..n /\ DOMAIN b = 1..n /\ DOMAIN c = 1..n
        /\ \A i \in 1..n : Part(kinds[i], a[i]) /\ Part(kinds[i], b[i]) /\ Part(kinds[i], c[i])
    BY DEF Key
  <1>1. ~KeyLess(a, a)
    BY <1>0, PartOrder DEF KeyLess
  <1>2. ASSUME KeyLess(a, b), KeyLess(b, c)
        PROVE  KeyLess(a, c)
    <2>1. PICK i \in 1..n : PartLess(a[i], b[i]) /\ \A k \in 1..(i - 1) : a[k] = b[k]
      BY <1>0, <1>2 DEF KeyLess
    <2>2. PICK j \in 1..n : PartLess(b[j], c[j]) /\ \A k \in 1..(j - 1) : b[k] = c[k]
      BY <1>0, <1>2 DEF KeyLess
    <2>3. CASE i < j
      <3>1. b[i] = c[i] /\ \A k \in 1..(i - 1) : a[k] = c[k]
        BY <2>1, <2>2, <2>3
      <3> QED
        BY <1>0, <2>1, <3>1 DEF KeyLess
    <2>4. CASE i = j
      <3>1. PartLess(a[i], c[i]) /\ \A k \in 1..(i - 1) : a[k] = c[k]
        BY <1>0, <2>1, <2>2, <2>4, PartOrder
      <3> QED
        BY <1>0, <3>1 DEF KeyLess
    <2>5. CASE j < i
      <3>1. a[j] = b[j] /\ \A k \in 1..(j - 1) : a[k] = c[k]
        BY <2>1, <2>2, <2>5
      <3> QED
        BY <1>0, <2>2, <3>1 DEF KeyLess
    <2> QED
      BY <2>3, <2>4, <2>5
  <1>3. ASSUME a # b
        PROVE  KeyLess(a, b) \/ KeyLess(b, a)
    <2> DEFINE differ == {i \in 1..n : a[i] # b[i]}
    <2>1. differ # {} /\ differ \in SUBSET Nat
      BY <1>3 DEF Key
    <2>2. PICK i \in differ : \A j \in differ : i <= j
      <3> HIDE DEF differ
      <3> QED
        BY <2>1, Least
    <2>3. i \in 1..n /\ a[i] # b[i] /\ \A k \in 1..(i - 1) : a[k] = b[k]
      BY <2>2
    <2>4. PartLess(a[i], b[i]) \/ PartLess(b[i], a[i])
      BY <1>0, <2>3, PartOrder
    <2> QED
      BY <1>0, <2>3, <2>4 DEF KeyLess
  <1> QED
    BY <1>1, <1>2, <1>3

LEMMA KeysCover ==
    ASSUME NEW n \in Nat, NEW kinds, DOMAIN kinds = 1..n, DOMAIN Collate \in SUBSET Int,
           NEW S, \A k \in S : Key(kinds, k), IsFiniteSet(S)
    PROVE  Covers(Keys(S), S)
  <1> DEFINE before == {p \in S \X S : KeyLess(p[1], p[2])}
  <1>1. ASSUME NEW x \in S, NEW y \in S
        PROVE  <<x, y>> \in before <=> KeyLess(x, y)
    OBVIOUS
  <1>2. Ordered(S, before)
    <2> HIDE DEF before
    <2> QED
      BY <1>1, KeyOrder DEF Ordered
  <1> QED
    BY <1>2, ListedCovers DEF Keys

-----------------------------------------------------------------------------
(* A field's value: validated, encoded, decoded.                            *)

Value(v) ==
    \/ v = Null
    \/ \E n \in Int \cup {Fine} : v = <<"num", n>>
    \/ \E n \in Int : v = <<"int", n>>
    \/ \E b \in BOOLEAN : v = <<"bool", b>>
    \/ \E x : v = <<"text", x>>

(* What a column can tell from no value.  The validator sees to it for      *)
(* numbers; nothing checks a timestamp against the sentinel.               *)
Tells(spec, v) == spec.type = "timestamp" => v # <<"int", NULL_SENTINEL>>

(* A validated value, by its field's type. *)
LEMMA ValidShape ==
    ASSUME NEW spec, spec.type \in FieldTypes \ {"string"}, NEW v, Value(v), FieldValid(spec, v)
    PROVE  LET w == Normal(spec, v)
           IN \/ w = Null
              \/ spec.type = "number" /\ \E n \in Int : w = <<"num", n>> /\ Storable(n)
              \/ spec.type = "bool" /\ \E b \in BOOLEAN : w = <<"bool", b>>
              \/ spec.type = "timestamp" /\ w = v /\ \E n \in Int : w = <<"int", n>>
              \/ spec.type = "enum" /\ \E n \in Nat : w = <<"int", n>>
  <1>1. CASE v = Null
    BY <1>1 DEF Normal
  <1>2. CASE v # Null /\ spec.type = "number"
    <2>1. v[1] \in {"num", "int"} /\ Storable(ToDecimal(v))
      BY <1>2 DEF FieldValid
    <2>2. Normal(spec, v) = <<"num", ToDecimal(v)>>
      BY <1>2 DEF Normal
    <2>3. CASE \E n \in Int \cup {Fine} : v = <<"num", n>>
      <3>1. PICK n \in Int \cup {Fine} : v = <<"num", n>>
        BY <2>3
      <3>2. ToDecimal(v) = n
        BY <3>1 DEF ToDecimal
      <3>3. n \in Int
        BY <2>1, <3>1, <3>2 DEF Storable
      <3> QED
        BY <1>2, <2>1, <2>2, <3>2, <3>3
    <2>4. CASE \E n \in Int : v = <<"int", n>>
      <3>1. PICK n \in Int : v = <<"int", n>>
        BY <2>4
      <3>2. ToDecimal(v) = n * One
        BY <3>1 DEF ToDecimal
      <3>3. n * One \in Int
        BY PayloadAssumption
      <3> QED
        BY <1>2, <2>1, <2>2, <3>2, <3>3
    <2> QED
      BY <1>2, <2>1, <2>3, <2>4 DEF Value
  <1>3. CASE v # Null /\ spec.type = "bool"
    <2>1. v[1] = "bool" /\ Normal(spec, v) = v
      BY <1>3 DEF FieldValid, Normal
    <2> QED
      BY <1>3, <2>1 DEF Value
  <1>4. CASE v # Null /\ spec.type = "timestamp"
    <2>1. v[1] = "int" /\ Normal(spec, v) = v
      BY <1>4 DEF FieldValid, Normal
    <2> QED
      BY <1>4, <2>1 DEF Value
  <1>5. CASE v # Null /\ spec.type = "enum"
    <2>1. v[1] = "int" /\ v[2] \in 0 .. Len(spec.values) - 1 /\ Normal(spec, v) = v
      BY <1>5 DEF FieldValid, Normal
    <2>2. PICK n \in Int : v = <<"int", n>>
      BY <1>5, <2>1 DEF Value
    <2>3. n \in Nat
      BY <2>1, <2>2
    <2> QED
      BY <1>5, <2>1, <2>2, <2>3
  <1> QED
    BY <1>1, <1>2, <1>3, <1>4, <1>5 DEF FieldTypes

(* Encoding a validated value succeeds.  A timestamp is not looked at by    *)
(* the validator; an enum has fewer labels than a column has numbers.       *)
LEMMA ValidEncodes ==
    ASSUME NEW spec, spec.type \in FieldTypes \ {"string", "timestamp"},
           spec.type = "enum" => Len(spec.values) \in 0..Limit,
           NEW v, FieldValid(spec, v)
    PROVE  Encodes(spec, Normal(spec, v))
  <1>1. CASE v = Null
    BY <1>1 DEF Normal, Encodes
  <1>2. CASE v # Null /\ spec.type = "number"
    <2>1. Storable(ToDecimal(v))
      BY <1>2 DEF FieldValid
    <2>2. Normal(spec, v) = <<"num", ToDecimal(v)>>
      BY <1>2 DEF Normal
    <2> QED
      BY <1>2, <2>1, <2>2 DEF Encodes, Storable, NULL_SENTINEL
  <1>3. CASE v # Null /\ spec.type = "bool"
    <2>1. v[1] = "bool" /\ Normal(spec, v) = v
      BY <1>3 DEF FieldValid, Normal
    <2> QED
      BY <1>3, <2>1 DEF Encodes
  <1>4. CASE v # Null /\ spec.type = "enum"
    <2>1. v[1] = "int" /\ v[2] \in 0 .. Len(spec.values) - 1 /\ Normal(spec, v) = v
      BY <1>4 DEF FieldValid, Normal
    <2>2. NULL_SENTINEL <= v[2] /\ v[2] < Limit
      BY <1>4, <2>1, PayloadAssumption DEF NULL_SENTINEL
    <2> QED
      BY <1>4, <2>1, <2>2 DEF Encodes
  <1> QED
    BY <1>1, <1>2, <1>3, <1>4 DEF FieldTypes

(* Decoding returns the validated value that was encoded. *)
LEMMA FieldRoundTrip ==
    ASSUME NEW spec, spec.type \in FieldTypes \ {"string"}, NEW v, Value(v), FieldValid(spec, v),
           Tells(spec, v)
    PROVE  DecodeField(spec.type, EncodeField(spec, Normal(spec, v))) = Normal(spec, v)
  <1> DEFINE w == Normal(spec, v)
  <1>0. Limit \in Nat /\ Limit > 0 /\ NULL_SENTINEL = -Limit /\ NULL_SENTINEL \in Int
    BY PayloadAssumption DEF NULL_SENTINEL
  <1>1. \/ w = Null
        \/ spec.type = "number" /\ \E n \in Int : w = <<"num", n>> /\ Storable(n)
        \/ spec.type = "bool" /\ \E b \in BOOLEAN : w = <<"bool", b>>
        \/ spec.type = "timestamp" /\ w = v /\ \E n \in Int : w = <<"int", n>>
        \/ spec.type = "enum" /\ \E n \in Nat : w = <<"int", n>>
    BY ValidShape
  <1> HIDE DEF w
  <1> SUFFICES DecodeField(spec.type, EncodeField(spec, w)) = w
    BY DEF w
  <1>2. CASE w = Null
    <2>1. EncodeField(spec, w) = NULL_SENTINEL
      BY <1>2 DEF EncodeField
    <2> QED
      BY <1>2, <2>1 DEF DecodeField
  <1>3. CASE spec.type = "number" /\ \E n \in Int : w = <<"num", n>> /\ Storable(n)
    <2>1. PICK n \in Int : w = <<"num", n>> /\ Storable(n)
      BY <1>3
    <2>2. w # Null /\ w[1] = "num" /\ w[2] = n
      BY <2>1 DEF Null
    <2>3. NULL_SENTINEL < n /\ n < Limit /\ n # Fine /\ n # NULL_SENTINEL
      BY <1>0, <2>1 DEF Storable
    <2>4. EncodeField(spec, w) = n
      BY <1>3, <2>2 DEF EncodeField
    <2>5. DecodeField(spec.type, n) = <<"num", n>>
      BY <1>3, <2>3 DEF DecodeField
    <2> QED
      BY <2>1, <2>4, <2>5
  <1>4. CASE spec.type = "bool" /\ \E b \in BOOLEAN : w = <<"bool", b>>
    <2>1. PICK b \in BOOLEAN : w = <<"bool", b>>
      BY <1>4
    <2>2. w # Null /\ w[1] = "bool" /\ w[2] = b
      BY <2>1 DEF Null
    <2>3. EncodeField(spec, w) = IF b THEN 1 ELSE 0
      BY <1>4, <2>2 DEF EncodeField
    <2>5. 0 # NULL_SENTINEL /\ 1 # NULL_SENTINEL
      BY <1>0
    <2>6. CASE b = TRUE
      <3>1. DecodeField(spec.type, 1) = <<"bool", TRUE>>
        BY <1>4, <2>5 DEF DecodeField
      <3> QED
        BY <2>1, <2>3, <2>6, <3>1
    <2>7. CASE b = FALSE
      <3>1. (0 = 1) = FALSE
        OBVIOUS
      <3>2. DecodeField(spec.type, 0) = <<"bool", 0 = 1>>
        BY <1>4, <2>5 DEF DecodeField
      <3>3. DecodeField(spec.type, 0) = <<"bool", FALSE>>
        BY <3>1, <3>2, Zenon
      <3> QED
        BY <2>1, <2>3, <2>7, <3>3
    <2> QED
      BY <2>6, <2>7
  <1>5. CASE spec.type \in {"timestamp", "enum"} /\ \E n \in Int : w = <<"int", n>>
    <2>1. PICK n \in Int : w = <<"int", n>>
      BY <1>5
    <2>2. w # Null /\ w[1] = "int" /\ w[2] = n
      BY <2>1 DEF Null
    <2>3. EncodeField(spec, w) = n
      BY <1>5, <2>2 DEF EncodeField
    <2>4. n # NULL_SENTINEL
      BY <1>0, <1>1, <1>5, <2>1, <2>2 DEF Tells
    <2>5. DecodeField(spec.type, n) = <<"int", n>>
      BY <1>5, <2>4 DEF DecodeField
    <2> QED
      BY <2>1, <2>3, <2>5
  <1> QED
    BY <1>1, <1>2, <1>3, <1>4, <1>5

(* What validate_payload accepts, the encoder takes: no journalled number, *)
(* boolean or ordinal of any field of any schema stops a compile           *)
(* (hub/schema.py:161-176 says so of the lowest integer).                  *)
THEOREM AcceptedIsEncodable ==
    ASSUME NEW sch, \A x \in DOMAIN sch.fields : sch.fields[x].type \in FieldTypes,
           \A x \in DOMAIN sch.fields : sch.fields[x].type = "enum" =>
               Len(sch.fields[x].values) \in 0..Limit,
           NEW payload, Valid(sch, payload)
    PROVE  \A x \in DOMAIN payload \cap StorableFields(sch) :
              sch.fields[x].type # "timestamp" =>
                  Encodes(sch.fields[x], Normalised(sch, payload)[x])
  <1> SUFFICES ASSUME NEW x \in DOMAIN payload \cap StorableFields(sch),
                      sch.fields[x].type # "timestamp"
               PROVE  Encodes(sch.fields[x], Normalised(sch, payload)[x])
    OBVIOUS
  <1>1. sch.fields[x].type \in FieldTypes \ {"string", "timestamp"}
    BY DEF StorableFields
  <1>2. FieldValid(sch.fields[x], payload[x]) /\ x \in DOMAIN sch.fields
    BY DEF Valid
  <1>3. Normalised(sch, payload)[x] = Normal(sch.fields[x], payload[x])
    BY DEF Normalised
  <1> QED
    BY <1>1, <1>2, <1>3, ValidEncodes

-----------------------------------------------------------------------------
(* Records.                                                                 *)

(* A record as it is journalled: a validated payload under an envelope. *)
Accepted(sch, payload) ==
    /\ \A x \in DOMAIN payload : Value(payload[x])
    /\ Valid(sch, payload)
    /\ \A x \in DOMAIN payload : Tells(sch.fields[x], payload[x])

JournalRow(sch, kinds, r) ==
    /\ r = [scope |-> r.scope, key |-> r.key, rev |-> r.rev, at |-> r.at, eff |-> r.eff,
            avail |-> r.avail, period |-> r.period, raw |-> r.raw, seq |-> r.seq,
            fields |-> r.fields]
    /\ r.scope \in Range(Collate) /\ Key(kinds, r.key)
    /\ r.avail \in {"observed", "published", "derived"}
    /\ r.period = Null \/ \E t \in Int \ {NULL_SENTINEL} : r.period = <<"int", t>>
    /\ r.raw = Null \/ \E t \in Int : r.raw = <<"int", t>>
    /\ \E payload : Accepted(sch, payload) /\ r.fields = Normalised(sch, payload)

(* The values of one attribute of finitely many rows. *)
LEMMA AttributeFinite ==
    ASSUME NEW n \in Nat, NEW f, DOMAIN f = 1..n
    PROVE  IsFiniteSet({f[i] : i \in 1..n})
  <1> DEFINE S == {f[i] : i \in 1..n}
             g == [i \in 1..n |-> f[i]]
  <1>1. g \in Surjection(1..n, S)
    BY DEF Surjection
  <1>2. IsFiniteSet(1..n)
    BY FS_Interval
  <1> HIDE DEF g
  <1> QED
    BY <1>1, <1>2, FS_Surjection

(* A column of field values, read back. *)
LEMMA CellRoundTrip ==
    ASSUME NEW sch, \A x \in DOMAIN sch.fields : sch.fields[x].type \in FieldTypes,
           NEW kinds, NEW r, JournalRow(sch, kinds, r), NEW x \in StorableFields(sch)
    PROVE  DecodeField(sch.fields[x].type, EncodeField(sch.fields[x], Get(r.fields, x)))
              = Get(r.fields, x)
  <1>1. PICK payload : Accepted(sch, payload) /\ r.fields = Normalised(sch, payload)
    BY DEF JournalRow
  <1>2. sch.fields[x].type \in FieldTypes \ {"string"} /\ DOMAIN r.fields = DOMAIN payload
    BY <1>1 DEF StorableFields, Normalised
  <1>3. CASE x \in DOMAIN payload
    <2>1. Get(r.fields, x) = Normal(sch.fields[x], payload[x])
      BY <1>1, <1>2, <1>3 DEF Get, Normalised
    <2>2. /\ Value(payload[x]) /\ FieldValid(sch.fields[x], payload[x])
          /\ Tells(sch.fields[x], payload[x])
      BY <1>1, <1>3 DEF Accepted, Valid
    <2> QED
      BY <1>2, <2>1, <2>2, FieldRoundTrip
  <1>4. CASE x \notin DOMAIN payload
    <2>1. Get(r.fields, x) = Null
      BY <1>2, <1>4 DEF Get
    <2> QED
      BY <2>1 DEF EncodeField, DecodeField
  <1> QED
    BY <1>3, <1>4

(* The dictionaries of a snapshot find every entry again. *)
LEMMA Dictionaries ==
    ASSUME NEW sch, NEW n \in Nat, NEW kinds, DOMAIN kinds = 1..n, DOMAIN Collate \in SUBSET Int,
           NEW m \in Nat, NEW rows, DOMAIN rows = 1..m,
           \A i \in 1..m : JournalRow(sch, kinds, rows[i])
    PROVE  /\ Covers(Texts({r.scope : r \in Range(rows)}), {r.scope : r \in Range(rows)})
           /\ Covers(Keys({r.key : r \in Range(rows)}), {r.key : r \in Range(rows)})
           /\ Covers(Parts({r.raw : r \in Range(rows)} \ {Null}), {r.raw : r \in Range(rows)} \ {Null})
  <1> DEFINE scopes == {r.scope : r \in Range(rows)}
             keys == {r.key : r \in Range(rows)}
             raws == {r.raw : r \in Range(rows)}
  <1>1. IsFiniteSet(scopes)
    <2> DEFINE f == [j \in 1..m |-> rows[j].scope]
    <2>1. IsFiniteSet({f[i] : i \in 1..m})
      <3> HIDE DEF f
      <3>1. DOMAIN f = 1..m
        BY DEF f
      <3> QED
        BY <3>1, AttributeFinite
    <2>2. scopes = {f[i] : i \in 1..m}
      BY DEF Range
    <2> QED
      BY <2>1, <2>2
  <1>2. IsFiniteSet(keys)
    <2> DEFINE f == [j \in 1..m |-> rows[j].key]
    <2>1. IsFiniteSet({f[i] : i \in 1..m})
      <3> HIDE DEF f
      <3>1. DOMAIN f = 1..m
        BY DEF f
      <3> QED
        BY <3>1, AttributeFinite
    <2>2. keys = {f[i] : i \in 1..m}
      BY DEF Range
    <2> QED
      BY <2>1, <2>2
  <1>3. IsFiniteSet(raws)
    <2> DEFINE f == [j \in 1..m |-> rows[j].raw]
    <2>1. IsFiniteSet({f[i] : i \in 1..m})
      <3> HIDE DEF f
      <3>1. DOMAIN f = 1..m
        BY DEF f
      <3> QED
        BY <3>1, AttributeFinite
    <2>2. raws = {f[i] : i \in 1..m}
      BY DEF Range
    <2> QED
      BY <2>1, <2>2
  <1>4. IsFiniteSet(raws \ {Null})
    <2> HIDE DEF raws
    <2> QED
      BY <1>3, FS_Subset
  <1>5. \A r \in Range(rows) : JournalRow(sch, kinds, r)
    BY DEF Range
  <1>6. scopes \in SUBSET Range(Collate)
    BY <1>5 DEF JournalRow
  <1>7. \A k \in keys : Key(kinds, k)
    BY <1>5 DEF JournalRow
  <1>8. \A p \in raws \ {Null} : Part("int", p)
    <2>1. \A r \in Range(rows) : r.raw = Null \/ \E t \in Int : r.raw = <<"int", t>>
      BY <1>5 DEF JournalRow
    <2> QED
      BY <2>1 DEF Part
  <1> HIDE DEF scopes, keys, raws
  <1>9. Covers(Texts(scopes), scopes)
    BY <1>1, <1>6, TextsCover
  <1>10. Covers(Keys(keys), keys)
    BY <1>2, <1>7, KeysCover
  <1>11. Covers(Parts(raws \ {Null}), raws \ {Null})
    BY <1>4, <1>8, PartsCover
  <1> QED
    BY <1>9, <1>10, <1>11 DEF scopes, keys, raws

(* decode undoes encode: whatever the schema and the journalled rows, a    *)
(* snapshot gives each back in its place, with the strings left behind and *)
(* an absent field null (hub/snapshot.py:12-14, a decoded record "compares *)
(* equal" to the journalled one).                                          *)
THEOREM SnapshotsRoundTrip ==
    ASSUME NEW sch, \A x \in DOMAIN sch.fields : sch.fields[x].type \in FieldTypes,
           NEW n \in Nat, NEW kinds, DOMAIN kinds = 1..n, DOMAIN Collate \in SUBSET Int,
           NEW m \in Nat, NEW rows, DOMAIN rows = 1..m,
           \A i \in 1..m : JournalRow(sch, kinds, rows[i])
    PROVE  Decode(EncodeRows(sch, rows)) = [i \in 1..m |-> Projected(sch, rows[i])]
  <1> DEFINE snap == EncodeRows(sch, rows)
             back(i) ==
               [scope |-> snap.scopes[snap.scope[i] + 1], key |-> snap.keys[snap.key[i] + 1],
                rev |-> snap.rev[i], at |-> snap.at[i], eff |-> snap.eff[i],
                avail |-> AvailabilityOrdinals[snap.avail[i] + 1],
                period |-> IF snap.period[i] = NULL_SENTINEL THEN Null ELSE <<"int", snap.period[i]>>,
                raw |-> IF snap.raw[i] = NULL_DICT_INDEX THEN Null ELSE snap.raws[snap.raw[i] + 1],
                seq |-> snap.seq[i],
                fields |-> [x \in DOMAIN snap.types |-> DecodeField(snap.types[x], snap.cells[x][i])]]
  <1>1. DOMAIN snap.at = 1..m
    BY DEF EncodeRows
  <1>2. Decode(snap) = [i \in 1..m |-> back(i)]
    BY <1>1 DEF Decode
  <1> SUFFICES ASSUME NEW i \in 1..m
               PROVE  back(i) = Projected(sch, rows[i])
    BY <1>2
  <1> DEFINE r == rows[i]
  <1>3. r \in Range(rows) /\ JournalRow(sch, kinds, r)
    BY DEF Range
  <1>4. /\ snap.rev[i] = r.rev /\ snap.at[i] = r.at /\ snap.eff[i] = r.eff /\ snap.seq[i] = r.seq
    BY DEF EncodeRows
  <1>5. snap.scopes[snap.scope[i] + 1] = r.scope /\ snap.keys[snap.key[i] + 1] = r.key
    <2>1. /\ snap.scopes = Texts({q.scope : q \in Range(rows)}) /\ snap.scope[i] = IndexIn(snap.scopes, r.scope)
          /\ snap.keys = Keys({q.key : q \in Range(rows)}) /\ snap.key[i] = IndexIn(snap.keys, r.key)
      BY DEF EncodeRows
    <2> HIDE DEF snap, r
    <2> DEFINE scopes == {q.scope : q \in Range(rows)}
               keys == {q.key : q \in Range(rows)}
    <2>2. r.scope \in scopes /\ r.key \in keys
      BY <1>3
    <2>3. Covers(Texts(scopes), scopes) /\ Covers(Keys(keys), keys)
      BY Dictionaries
    <2> HIDE DEF scopes, keys
    <2> QED
      BY <2>1, <2>2, <2>3 DEF Covers, scopes, keys
  <1>6. AvailabilityOrdinals[snap.avail[i] + 1] = r.avail
    <2>1. snap.avail[i] = IndexIn(AvailabilityOrdinals, r.avail)
      BY DEF EncodeRows
    <2>2. Covers(AvailabilityOrdinals, {"observed", "published", "derived"})
      BY DEF Covers, IndexIn, AvailabilityOrdinals
    <2> HIDE DEF snap, r
    <2> QED
      BY <1>3, <2>1, <2>2 DEF Covers, JournalRow
  <1>7. (IF snap.period[i] = NULL_SENTINEL THEN Null ELSE <<"int", snap.period[i]>>) = r.period
    <2>1. snap.period[i] = IF r.period = Null THEN NULL_SENTINEL ELSE r.period[2]
      BY DEF EncodeRows
    <2> HIDE DEF snap, r
    <2>2. r.period = Null \/ \E t \in Int \ {NULL_SENTINEL} : r.period = <<"int", t>>
      BY <1>3 DEF JournalRow
    <2> QED
      BY <2>1, <2>2 DEF Null
  <1>8. (IF snap.raw[i] = NULL_DICT_INDEX THEN Null ELSE snap.raws[snap.raw[i] + 1]) = r.raw
    <2>1. /\ snap.raws = Parts({q.raw : q \in Range(rows)} \ {Null})
          /\ snap.raw[i] = IF r.raw = Null THEN NULL_DICT_INDEX ELSE IndexIn(snap.raws, r.raw)
      BY DEF EncodeRows
    <2> HIDE DEF snap, r
    <2> DEFINE raws == {q.raw : q \in Range(rows)} \ {Null}
    <2>2. r.raw # Null => r.raw \in raws
      BY <1>3
    <2>4. Covers(Parts(raws), raws)
      BY Dictionaries
    <2>5. snap.raws = Parts(raws)
      BY <2>1
    <2> HIDE DEF raws
    <2>3. ASSUME r.raw # Null
          PROVE  IndexIn(snap.raws, r.raw) \in Nat /\ snap.raws[IndexIn(snap.raws, r.raw) + 1] = r.raw
      BY <2>2, <2>3, <2>4, <2>5 DEF Covers
    <2> QED
      BY <2>1, <2>3 DEF NULL_DICT_INDEX
  <1>9. [x \in DOMAIN snap.types |-> DecodeField(snap.types[x], snap.cells[x][i])]
          = [x \in StorableFields(sch) |-> Get(r.fields, x)]
    <2>1. /\ DOMAIN snap.types = StorableFields(sch)
          /\ \A x \in StorableFields(sch) :
               /\ snap.types[x] = sch.fields[x].type
               /\ snap.cells[x][i] = EncodeField(sch.fields[x], Get(r.fields, x))
      BY DEF EncodeRows
    <2> HIDE DEF snap, r
    <2>2. \A x \in StorableFields(sch) :
            DecodeField(sch.fields[x].type, EncodeField(sch.fields[x], Get(r.fields, x)))
              = Get(r.fields, x)
      BY <1>3, CellRoundTrip
    <2> QED
      BY <2>1, <2>2
  <1>10. Projected(sch, r)
           = [scope |-> r.scope, key |-> r.key, rev |-> r.rev, at |-> r.at, eff |-> r.eff,
              avail |-> r.avail, period |-> r.period, raw |-> r.raw, seq |-> r.seq,
              fields |-> [x \in StorableFields(sch) |-> Get(r.fields, x)]]
    <2> HIDE DEF r
    <2> QED
      BY <1>3 DEF JournalRow, Projected
  <1> HIDE DEF snap
  <1> QED
    BY <1>4, <1>5, <1>6, <1>7, <1>8, <1>9, <1>10

-----------------------------------------------------------------------------
(* Ingest.  Lists are taken apart by the least counterexample: a step of    *)
(* the code's loop is a step of a function over 0..n.                        *)

(* A list comprehension keeps elements of the list. *)
LEMMA PickedFrom ==
    ASSUME NEW list, NEW at \in SUBSET Int, IsFiniteSet(at)
    PROVE  /\ DOMAIN Picked(list, at) = 1..Cardinality(at)
           /\ \A i \in 1..Cardinality(at) : \E j \in at : Picked(list, at)[i] = list[j]
  <1> DEFINE before == {p \in at \X at : p[1] < p[2]}
             order == InOrder(at)
  <1>1. Ordered(at, before)
    BY DEF Ordered
  <1>2. \A x \in at : Cardinality({y \in at : y < x}) = Place(at, before, x)
    <2> SUFFICES ASSUME NEW x \in at
                 PROVE  {y \in at : y < x} = {y \in at : <<y, x>> \in before}
      BY DEF Place
    <2> QED
      OBVIOUS
  <1> HIDE DEF before
  <1>3. ASSUME NEW i \in 1..Cardinality(at)
        PROVE  order[i] \in at
    <2>1. PICK x \in at : Place(at, before, x) = i - 1
      BY <1>1, PlaceTaken
    <2>2. \E y \in at : Cardinality({z \in at : z < y}) = i - 1
      BY <1>2, <2>1
    <2>3. order[i] = CHOOSE y \in at : Cardinality({z \in at : z < y}) = i - 1
      BY DEF InOrder
    <2> QED
      BY <2>2, <2>3
  <1> HIDE DEF order
  <1>4. Picked(list, at) = [i \in 1..Cardinality(at) |-> list[order[i]]]
    BY DEF Picked, order
  <1> QED
    BY <1>3, <1>4

(* Taking the candidates in one after the other. *)
Taken(after, n, sch, log, cands, now, raw) ==
    after = [i \in 0..n |-> IF i = 0 THEN [log |-> log, refused |-> {}]
                            ELSE IngestOne(sch, after[i - 1], cands[i], now, raw)]

LEMMA IngestTakesAll ==
    ASSUME NEW sch, NEW log, NEW cands, Len(cands) \in Nat, NEW now, NEW raw
    PROVE  \E after : /\ Taken(after, Len(cands), sch, log, cands, now, raw)
                      /\ IngestAll(sch, log, cands, now, raw) = after[Len(cands)]
  <1> DEFINE Has(n) == \E after : Taken(after, n, sch, log, cands, now, raw)
             base == [log |-> log, refused |-> {}]
             one(st, i) == IngestOne(sch, st, cands[i], now, raw)
  <1>1. Has(0)
    <2> DEFINE f == [i \in 0..0 |-> base]
    <2>1. Taken(f, 0, sch, log, cands, now, raw)
      BY DEF Taken
    <2> QED
      BY <2>1
  <1>2. ASSUME NEW n \in Nat, Has(n)
        PROVE  Has(n + 1)
    <2>1. PICK f : Taken(f, n, sch, log, cands, now, raw)
      BY <1>2
    <2>2. PICK top : top = one(f[n], n + 1)
      OBVIOUS
    <2> DEFINE g == [i \in 0..(n + 1) |-> IF i = n + 1 THEN top ELSE f[i]]
    <2>3. \A i \in 0..n : f[i] = IF i = 0 THEN base ELSE one(f[i - 1], i)
      BY <2>1 DEF Taken
    <2> HIDE DEF one, base
    <2>4. \A i \in 0..(n + 1) : g[i] = IF i = 0 THEN base ELSE one(g[i - 1], i)
      <3> SUFFICES ASSUME NEW i \in 0..(n + 1)
                   PROVE  g[i] = IF i = 0 THEN base ELSE one(g[i - 1], i)
        OBVIOUS
      <3>1. CASE i = n + 1
        <4>1. g[i] = top /\ g[i - 1] = f[n] /\ i # 0
          BY <3>1
        <4> QED
          BY <2>2, <3>1, <4>1
      <3>2. CASE i \in 1..n
        <4>1. g[i] = f[i] /\ g[i - 1] = f[i - 1] /\ i # 0
          BY <3>2
        <4> QED
          BY <2>3, <3>2, <4>1
      <3>3. CASE i = 0
        BY <2>3, <3>3
      <3> QED
        BY <3>1, <3>2, <3>3
    <2>5. DOMAIN g = 0..(n + 1) /\ g = [i \in 0..(n + 1) |-> g[i]]
      OBVIOUS
    <2> HIDE DEF g
    <2>6. g = [i \in 0..(n + 1) |-> IF i = 0 THEN base ELSE one(g[i - 1], i)]
      BY <2>4, <2>5
    <2> QED
      BY <2>6 DEF Taken, one, base
  <1>3. Has(Len(cands))
    <2> HIDE DEF Has
    <2> DEFINE Bad == {n \in Nat : ~Has(n)}
    <2>1. Bad = {}
      <3> SUFFICES ASSUME Bad # {} PROVE FALSE
        OBVIOUS
      <3>1. PICK n \in Bad : \A k \in Bad : n <= k
        BY Least
      <3>2. n # 0 /\ n - 1 \in Nat /\ Has(n - 1)
        BY <1>1, <3>1
      <3>3. Has((n - 1) + 1)
        BY <1>2, <3>2
      <3> QED
        BY <3>1, <3>3
    <2> QED
      BY <2>1
  <1> DEFINE steps == CHOOSE after : Taken(after, Len(cands), sch, log, cands, now, raw)
  <1>4. Taken(steps, Len(cands), sch, log, cands, now, raw)
    BY <1>3
  <1>5. IngestAll(sch, log, cands, now, raw) = steps[Len(cands)]
    BY DEF IngestAll, Taken
  <1> QED
    BY <1>4, <1>5

(* Evaluating the expressions one after the other. *)
Computed(after, n, sch, merged, history) ==
    after = [i \in 0..n |-> IF i = 0 THEN merged
                            ELSE Put(after[i - 1], sch.order[i],
                                     ValueOf(sch.tree[sch.order[i]], after[i - 1], history))]

LEMMA PutKeeps ==
    ASSUME NEW payload, NEW x, NEW value, NEW y \in DOMAIN payload, y # x
    PROVE  y \in DOMAIN Put(payload, x, value) /\ Put(payload, x, value)[y] = payload[y]
  BY DEF Put

LEMMA EvaluatesAll ==
    ASSUME NEW sch, NEW n \in Nat, NEW merged, NEW history
    PROVE  \E after : Computed(after, n, sch, merged, history)
  <1> DEFINE Has(k) == \E after : Computed(after, k, sch, merged, history)
             one(m, i) == Put(m, sch.order[i], ValueOf(sch.tree[sch.order[i]], m, history))
  <1>1. Has(0)
    <2> DEFINE f == [i \in 0..0 |-> merged]
    <2>1. Computed(f, 0, sch, merged, history)
      BY DEF Computed
    <2> QED
      BY <2>1
  <1>2. ASSUME NEW k \in Nat, Has(k)
        PROVE  Has(k + 1)
    <2>1. PICK f : Computed(f, k, sch, merged, history)
      BY <1>2
    <2>2. PICK top : top = one(f[k], k + 1)
      OBVIOUS
    <2> DEFINE g == [i \in 0..(k + 1) |-> IF i = k + 1 THEN top ELSE f[i]]
    <2>3. \A i \in 0..k : f[i] = IF i = 0 THEN merged ELSE one(f[i - 1], i)
      BY <2>1 DEF Computed
    <2> HIDE DEF one
    <2>4. \A i \in 0..(k + 1) : g[i] = IF i = 0 THEN merged ELSE one(g[i - 1], i)
      <3> SUFFICES ASSUME NEW i \in 0..(k + 1)
                   PROVE  g[i] = IF i = 0 THEN merged ELSE one(g[i - 1], i)
        OBVIOUS
      <3>1. CASE i = k + 1
        <4>1. g[i] = top /\ g[i - 1] = f[k] /\ i # 0
          BY <3>1
        <4> QED
          BY <2>2, <3>1, <4>1
      <3>2. CASE i \in 1..k
        <4>1. g[i] = f[i] /\ g[i - 1] = f[i - 1] /\ i # 0
          BY <3>2
        <4> QED
          BY <2>3, <3>2, <4>1
      <3>3. CASE i = 0
        BY <2>3, <3>3
      <3> QED
        BY <3>1, <3>2, <3>3
    <2>5. DOMAIN g = 0..(k + 1) /\ g = [i \in 0..(k + 1) |-> g[i]]
      OBVIOUS
    <2> HIDE DEF g
    <2>6. g = [i \in 0..(k + 1) |-> IF i = 0 THEN merged ELSE one(g[i - 1], i)]
      BY <2>4, <2>5
    <2> QED
      BY <2>6 DEF Computed, one
  <1> HIDE DEF Has
  <1> DEFINE Bad == {k \in Nat : ~Has(k)}
  <1>3. Bad = {}
    <2> SUFFICES ASSUME Bad # {} PROVE FALSE
      OBVIOUS
    <2>1. PICK k \in Bad : \A j \in Bad : k <= j
      BY Least
    <2>2. k # 0 /\ k - 1 \in Nat /\ Has(k - 1)
      BY <1>1, <2>1
    <2>3. Has((k - 1) + 1)
      BY <1>2, <2>2
    <2> QED
      BY <2>1, <2>3
  <1>4. Has(n)
    BY <1>3
  <1> QED
    BY <1>4 DEF Has

(* A collected field leaves derive_fields as it came. *)
LEMMA DeriveKeeps ==
    ASSUME NEW sch, NEW S, sch.order \in Seq(S), NEW fields, NEW at, NEW eff, NEW history,
           NEW x \in DOMAIN fields, x \notin Range(sch.order) \cup {"known_at", "effective_at"}
    PROVE  /\ x \in DOMAIN DeriveFields(sch, fields, at, eff, history)
           /\ DeriveFields(sch, fields, at, eff, history)[x] = fields[x]
  <1> DEFINE n == Len(sch.order)
             m == Put(Put(fields, "known_at", <<"int", at>>), "effective_at", <<"int", eff>>)
  <1>1. n \in Nat /\ \A i \in 1..n : sch.order[i] # x
    BY DEF Range
  <1>2. x \in DOMAIN m /\ m[x] = fields[x]
    <2>1. x # "known_at" /\ x # "effective_at"
      OBVIOUS
    <2> QED
      BY <2>1, PutKeeps
  <1>3. PICK merged : merged = m
    OBVIOUS
  <1>4. PICK length : length = n
    OBVIOUS
  <1> DEFINE after == CHOOSE f : Computed(f, length, sch, merged, history)
  <1>5. Computed(after, length, sch, merged, history)
    BY <1>1, <1>4, EvaluatesAll
  <1>6. DeriveFields(sch, fields, at, eff, history)
          = [y \in DOMAIN fields \cup Range(sch.order) |-> after[length][y]]
    BY <1>3, <1>4 DEF DeriveFields, Computed
  <1> HIDE DEF after, n, m
  <1> DEFINE Keeps(i) == x \in DOMAIN after[i] /\ after[i][x] = fields[x]
             Bad == {i \in Nat : i <= length /\ ~Keeps(i)}
  <1>7. Keeps(0)
    <2>1. after[0] = merged
      BY <1>1, <1>4, <1>5 DEF Computed
    <2> QED
      BY <1>2, <1>3, <2>1
  <1>8. ASSUME NEW i \in 1..length, Keeps(i - 1)
        PROVE  Keeps(i)
    <2>1. after[i] = Put(after[i - 1], sch.order[i],
                         ValueOf(sch.tree[sch.order[i]], after[i - 1], history))
      BY <1>1, <1>4, <1>5, <1>8 DEF Computed
    <2>2. x # sch.order[i]
      BY <1>1, <1>4
    <2> QED
      BY <1>8, <2>1, <2>2, PutKeeps
  <1> HIDE DEF Keeps
  <1>9. Bad = {}
    <2> SUFFICES ASSUME Bad # {} PROVE FALSE
      OBVIOUS
    <2>1. PICK i \in Bad : \A j \in Bad : i <= j
      BY Least
    <2>2. i # 0 /\ i - 1 \in Nat /\ i - 1 <= length /\ Keeps(i - 1)
      BY <1>1, <1>4, <1>7, <2>1
    <2>3. i \in 1..length
      BY <1>1, <1>4, <2>1, <2>2
    <2> QED
      BY <1>8, <2>1, <2>2, <2>3
  <1>10. Keeps(length)
    BY <1>1, <1>4, <1>9
  <1> QED
    BY <1>6, <1>10 DEF Keeps

(* What ingest journals for a candidate. *)
RecordOf(sch, cand, payload, r) ==
    /\ ~cand.broken /\ Valid(sch, payload)
    /\ r.scope = cand.scope /\ r.eff = cand.eff /\ r.fields = Normalised(sch, payload)

LEMMA AssignAppends ==
    ASSUME NEW sch, NEW st, st = [log |-> st.log, refused |-> st.refused],
           NEW cand, NEW key, NEW payload, NEW now, NEW raw,
           NEW next, next = Assign(sch, st, cand, key, payload, now, raw)
    PROVE  /\ next = [log |-> next.log, refused |-> next.refused]
           /\ \/ next.log = st.log
              \/ \E r : RecordOf(sch, cand, payload, r) /\ next.log = Append(st.log, r)
  <1> DEFINE Refusing(why) == [st EXCEPT !.refused = @ \cup {[eff |-> cand.eff, why |-> why]}]
             Appending(r) == [st EXCEPT !.log = Append(@, r)]
  <1>1. \/ \E why : next = Refusing(why)
        \/ next = st
        \/ ~cand.broken /\ Valid(sch, payload) /\ \E r :
             /\ next = Appending(r)
             /\ r.scope = cand.scope /\ r.eff = cand.eff /\ r.fields = Normalised(sch, payload)
    <2> DEFINE r == [scope |-> cand.scope, key |-> key, at |-> now, eff |-> cand.eff,
                   rev |-> IF OfKey(st.log, key) # {} THEN LatestOf(st.log, key).rev + 1 ELSE 1,
                   avail |-> "observed", period |-> cand.period, raw |-> raw,
                   seq |-> Len(st.log) + 1, fields |-> Normalised(sch, payload)]
    <2>1. CASE cand.broken
      <3>1. next = Refusing("row")
        BY <2>1, Zenon DEF Assign
      <3> QED
        BY <3>1
    <2>2. CASE ~cand.broken /\ ~Valid(sch, payload)
      <3>1. next = Refusing(IF Valid(sch, cand.fields) THEN "derived" ELSE "payload")
        BY <2>2, Zenon DEF Assign
      <3> QED
        BY <3>1
    <2>3. CASE ~cand.broken /\ Valid(sch, payload)
      <3>1. \/ next = Refusing("envelope")
            \/ next = st
            \/ next = Refusing("stale")
            \/ next = Appending(r)
        BY <2>3, Zenon DEF Assign
      <3>2. r.scope = cand.scope /\ r.eff = cand.eff /\ r.fields = Normalised(sch, payload)
        OBVIOUS
      <3> HIDE DEF r, Refusing, Appending
      <3> QED
        BY <2>3, <3>1, <3>2
    <2> QED
      BY <2>1, <2>2, <2>3
  <1>2. ASSUME NEW why, next = Refusing(why)
        PROVE  next = [log |-> next.log, refused |-> next.refused] /\ next.log = st.log
    BY <1>2
  <1>3. ASSUME NEW r, next = Appending(r)
        PROVE  next = [log |-> next.log, refused |-> next.refused] /\ next.log = Append(st.log, r)
    BY <1>3
  <1> HIDE DEF Refusing, Appending
  <1> QED
    BY <1>1, <1>2, <1>3 DEF RecordOf

IsList(s) == \E T : s \in Seq(T)

LEMMA ListAppends ==
    ASSUME NEW s, IsList(s), NEW e
    PROVE  /\ IsList(Append(s, e)) /\ Len(s) \in Nat /\ DOMAIN s = 1..Len(s)
           /\ DOMAIN Append(s, e) = 1..(Len(s) + 1)
           /\ \A i \in 1..Len(s) : Append(s, e)[i] = s[i]
           /\ Append(s, e)[Len(s) + 1] = e
  <1>1. PICK T : s \in Seq(T)
    BY DEF IsList
  <1>2. s \in Seq(T \cup {e}) /\ e \in T \cup {e}
    BY <1>1
  <1>3. Append(s, e) \in Seq(T \cup {e})
    BY <1>2
  <1> QED
    BY <1>2, <1>3 DEF IsList

(* The payload holds what was collected. *)
Carries(sch, cand, payload) ==
    \A x \in DOMAIN cand.fields :
        x \notin Range(sch.order) \cup {"known_at", "effective_at"} =>
            x \in DOMAIN payload /\ payload[x] = cand.fields[x]

Recorded(sch, cand, r) == \E payload : RecordOf(sch, cand, payload, r) /\ Carries(sch, cand, payload)

IsState(st) == st = [log |-> st.log, refused |-> st.refused] /\ IsList(st.log)

(* One candidate adds its own record at most. *)
LEMMA OneRecords ==
    ASSUME NEW sch, NEW S, sch.order \in Seq(S), NEW st, IsState(st), NEW cand, NEW now, NEW raw,
           NEW next, next = IngestOne(sch, st, cand, now, raw)
    PROVE  /\ IsState(next)
           /\ \/ next.log = st.log
              \/ \E r : Recorded(sch, cand, r) /\ next.log = Append(st.log, r)
  <1>1. PICK key, payload :
          /\ next = Assign(sch, st, cand, key, payload, now, raw)
          /\ Carries(sch, cand, payload)
    <2> DEFINE key == BuildKey(sch, cand)
               history == Newest(Before(st.log, cand.scope, cand.eff, key), ReachOf(sch))
               payload == DeriveFields(sch, cand.fields, now, cand.eff, history)
    <2>1. next = Assign(sch, st, cand, key, payload, now, raw)
      BY DEF IngestOne
    <2> HIDE DEF history
    <2>2. Carries(sch, cand, payload)
      BY DeriveKeeps DEF Carries
    <2> QED
      BY <2>1, <2>2
  <1>2. /\ next = [log |-> next.log, refused |-> next.refused]
        /\ \/ next.log = st.log
           \/ \E r : RecordOf(sch, cand, payload, r) /\ next.log = Append(st.log, r)
    BY <1>1, AssignAppends DEF IsState
  <1>3. IsList(next.log)
    <2>1. IsList(st.log)
      BY DEF IsState
    <2>2. \A r : IsList(Append(st.log, r))
      BY <2>1, ListAppends
    <2> QED
      BY <1>2, <2>1, <2>2
  <1> QED
    BY <1>1, <1>2, <1>3 DEF Recorded, IsState

(* What came of the candidates and the records before them. *)
From(sch, log, cands, done) ==
    \A i \in DOMAIN done : \/ \E j \in DOMAIN log : done[i] = log[j]
                           \/ \E k \in DOMAIN cands : Recorded(sch, cands[k], done[i])

LEMMA FromAppend ==
    ASSUME NEW sch, NEW log, NEW cands, NEW s, IsList(s), From(sch, log, cands, s),
           NEW k \in DOMAIN cands, NEW r, Recorded(sch, cands[k], r)
    PROVE  From(sch, log, cands, Append(s, r))
  <1>1. PICK n, t : n = Len(s) /\ t = Append(s, r)
    OBVIOUS
  <1>2. /\ DOMAIN s = 1..n /\ DOMAIN t = 1..(n + 1) /\ n \in Nat
        /\ \A j \in 1..n : t[j] = s[j]
        /\ t[n + 1] = r
    BY <1>1, ListAppends
  <1>3. SUFFICES ASSUME NEW j \in 1..(n + 1)
                 PROVE  \/ \E l \in DOMAIN log : t[j] = log[l]
                        \/ \E l \in DOMAIN cands : Recorded(sch, cands[l], t[j])
    BY <1>1, <1>2 DEF From
  <1>4. CASE j \in 1..n
    BY <1>2, <1>4 DEF From
  <1>5. CASE j = n + 1
    BY <1>2, <1>5
  <1> QED
    BY <1>2, <1>4, <1>5

LEMMA IngestRecords ==
    ASSUME NEW sch, NEW S, sch.order \in Seq(S), NEW log, IsList(log), NEW cands, IsList(cands),
           NEW now, NEW raw, NEW done, done = IngestAll(sch, log, cands, now, raw)
    PROVE  IsState(done) /\ From(sch, log, cands, done.log)
  <1>1. PICK n : n = Len(cands) /\ n \in Nat /\ DOMAIN cands = 1..n
    BY ListAppends
  <1>2. PICK after : Taken(after, n, sch, log, cands, now, raw) /\ done = after[n]
    BY <1>1, IngestTakesAll
  <1> DEFINE Good(i) == IsState(after[i]) /\ From(sch, log, cands, after[i].log)
             Bad == {i \in Nat : i <= n /\ ~Good(i)}
  <1>3. Good(0)
    <2>1. after[0] = [log |-> log, refused |-> {}]
      BY <1>1, <1>2 DEF Taken
    <2> QED
      BY <2>1 DEF IsState, From
  <1>4. ASSUME NEW i \in 1..n, Good(i - 1)
        PROVE  Good(i)
    <2>1. after[i] = IngestOne(sch, after[i - 1], cands[i], now, raw)
      <3> DEFINE one(a, k) == IngestOne(sch, a[k - 1], cands[k], now, raw)
                 base == [log |-> log, refused |-> {}]
      <3>1. after = [k \in 0..n |-> IF k = 0 THEN base ELSE one(after, k)]
        BY <1>2 DEF Taken
      <3>2. i \in 0..n /\ i # 0
        BY <1>1
      <3> HIDE DEF one, base, Good
      <3>3. after[i] = one(after, i)
        BY <3>1, <3>2
      <3> QED
        BY <3>3 DEF one
    <2>2. PICK st, next : st = after[i - 1] /\ next = after[i]
      OBVIOUS
    <2>3. IsState(st) /\ From(sch, log, cands, st.log)
      BY <1>4, <2>2
    <2>4. /\ IsState(next)
          /\ \/ next.log = st.log
             \/ \E r : Recorded(sch, cands[i], r) /\ next.log = Append(st.log, r)
      <3>1. next = IngestOne(sch, st, cands[i], now, raw)
        BY <2>1, <2>2
      <3> HIDE DEF Good
      <3> QED
        BY <2>3, <3>1, OneRecords
    <2>5. ASSUME NEW r, Recorded(sch, cands[i], r), next.log = Append(st.log, r)
          PROVE  From(sch, log, cands, next.log)
      <3>1. i \in DOMAIN cands /\ IsList(st.log)
        BY <1>1, <2>3 DEF IsState
      <3> QED
        BY <2>3, <2>5, <3>1, FromAppend
    <2>6. From(sch, log, cands, next.log)
      BY <2>3, <2>4, <2>5
    <2> QED
      BY <2>2, <2>4, <2>6
  <1> HIDE DEF Good
  <1>5. Bad = {}
    <2> SUFFICES ASSUME Bad # {} PROVE FALSE
      OBVIOUS
    <2>1. PICK i \in Bad : \A j \in Bad : i <= j
      BY Least
    <2>2. i # 0 /\ i - 1 \in Nat /\ i - 1 <= n /\ Good(i - 1)
      BY <1>1, <1>3, <2>1
    <2>3. i \in 1..n
      BY <1>1, <2>1, <2>2
    <2> QED
      BY <1>4, <2>1, <2>2, <2>3
  <1>6. Good(n)
    BY <1>1, <1>5
  <1> QED
    BY <1>2, <1>6 DEF Good

-----------------------------------------------------------------------------
(* Parsing: what a candidate can be, and where its numbers come from.       *)

(* A field read as a number holds the number its cell prints. *)
LEMMA NumberPrints ==
    ASSUME NEW cell, NEW spellings, Number(cell, spellings)[1] = "num"
    PROVE  Prints(cell, Number(cell, spellings)[2])
  <1>1. CASE IsSentinel(cell)
    BY <1>1 DEF Number, Null, IsSentinel
  <1>2. CASE ~IsSentinel(cell) /\ cell[1] = "number" /\ cell[3] \in spellings
    <2> DEFINE v == IF cell[3] = "kilo" THEN 1000 * cell[2] ELSE cell[2]
    <2>1. Number(cell, spellings) = <<"num", v>>
      BY <1>2, Zenon DEF Number
    <2>2. Prints(cell, v)
      BY <1>2, Zenon DEF Prints
    <2> HIDE DEF v
    <2> QED
      BY <2>1, <2>2
  <1>3. CASE ~IsSentinel(cell) /\ ~(cell[1] = "number" /\ cell[3] \in spellings)
    BY <1>3 DEF Number, Rejected
  <1> QED
    BY <1>1, <1>2, <1>3

Numeric == {"human_number", "percent_or_number"}

(* No other parser makes a number. *)
LEMMA OtherParsers ==
    ASSUME NEW spec, NEW cell, spec.parse \notin Numeric
    PROVE  Apply(spec, cell)[1] # "num"
  <1>1. Rejected[1] # "num" /\ Null[1] # "num"
    BY DEF Rejected, Null
  <1>2. Offset(cell)[1] # "num"
    BY <1>1 DEF Offset
  <1>3. \A hour : DateInZone(cell, hour)[1] # "num"
    BY <1>1 DEF DateInZone
  <1>4. \A per : Epoch(cell, per)[1] # "num"
    <2> SUFFICES ASSUME NEW per PROVE Epoch(cell, per)[1] # "num"
      OBVIOUS
    <2> QED
      BY <1>1 DEF Epoch
  <1>5. \A mapping : EnumOrdinal(cell, mapping)[1] # "num"
    BY <1>1 DEF EnumOrdinal
  <1>6. Boolean(cell)[1] # "num"
    BY <1>1 DEF Boolean
  <1> QED
    BY <1>1, <1>2, <1>3, <1>4, <1>5, <1>6 DEF Apply, Numeric

LEMMA FieldPrints ==
    ASSUME NEW spec, NEW row, ~Declares(spec, "const"), ResolveField(spec, row)[1] = "num"
    PROVE  /\ Prints(Cell(row, spec.from), ResolveField(spec, row)[2])
           /\ spec.parse \in Numeric
  <1> DEFINE cell == Cell(row, spec.from)
  <1>1. Null[1] # "num" /\ Text(cell)[1] # "num"
    BY DEF Null, Text
  <1>2. ResolveField(spec, row) = Apply(spec, cell) /\ Apply(spec, cell)[1] = "num"
    BY <1>1 DEF ResolveField
  <1> HIDE DEF cell
  <1>3. spec.parse \in Numeric
    BY <1>2, OtherParsers
  <1>4. \E spellings : Apply(spec, cell) = Number(cell, spellings)
    BY <1>3 DEF Numeric, Apply, HumanNumber, PercentOrNumber
  <1> QED
    BY <1>2, <1>3, <1>4, NumberPrints DEF cell

(* A parser of numbers makes nothing but numbers of a cell that has one. *)
LEMMA NumericMakesNumbers ==
    ASSUME NEW spec, NEW row, ~Declares(spec, "const"), spec.parse \in Numeric
    PROVE  ResolveField(spec, row)[1] # "int"
  <1> DEFINE cell == Cell(row, spec.from)
  <1>1. \A spellings : Number(cell, spellings)[1] # "int"
    <2> SUFFICES ASSUME NEW spellings PROVE Number(cell, spellings)[1] # "int"
      OBVIOUS
    <2> DEFINE v == IF cell[3] = "kilo" THEN 1000 * cell[2] ELSE cell[2]
    <2>1. Number(cell, spellings) \in {Null, Rejected, <<"num", v>>}
      BY Zenon DEF Number
    <2> HIDE DEF v
    <2> QED
      BY <2>1 DEF Null, Rejected
  <1> HIDE DEF cell
  <1>2. Apply(spec, cell)[1] # "int"
    BY <1>1 DEF Numeric, Apply, HumanNumber, PercentOrNumber
  <1>3. spec.parse # "" /\ Null[1] # "int"
    BY DEF Numeric, Null
  <1> QED
    BY <1>2, <1>3 DEF ResolveField, cell

(* The candidate of a row, unless it is broken, has the row's fields. *)
LEMMA CandidateFields ==
    ASSUME NEW block, NEW row, NEW cand, Candidate(block, row) = <<"row", cand>>, ~cand.broken
    PROVE  cand.fields = [x \in DOMAIN block.fields |-> ResolveField(block.fields[x], row)]
  <1> DEFINE fields == [x \in DOMAIN block.fields |-> ResolveField(block.fields[x], row)]
             scope  == ResolveScope(block, row)
             eff    == ResolveTime(block.effective_at, row)
             period == IF Declares(block, "period_start")
                       THEN ResolveTime(block.period_start, row) ELSE Null
             marked == [scope |-> scope[2], eff |-> eff[2], broken |-> TRUE]
             whole  == [scope |-> scope[2], eff |-> eff[2], broken |-> FALSE,
                        period |-> period, fields |-> fields]
  <1>1. \/ Candidate(block, row) = Skipped
        \/ Candidate(block, row) = Rejected
        \/ Candidate(block, row) = <<"row", marked>>
        \/ Candidate(block, row) = <<"row", whole>>
    BY Zenon DEF Candidate
  <1>2. marked.broken = TRUE /\ whole.fields = fields
    OBVIOUS
  <1> HIDE DEF marked, whole, fields
  <1>3. cand = marked \/ cand = whole
    BY <1>1 DEF Skipped, Rejected
  <1> QED
    BY <1>2, <1>3 DEF fields

LEMMA CandidateShapes ==
    ASSUME NEW block, NEW row, Candidate(block, row) # Skipped, Candidate(block, row) # Rejected
    PROVE  Candidate(block, row) = <<"row", Candidate(block, row)[2]>>
  <1> DEFINE scope  == ResolveScope(block, row)
             eff    == ResolveTime(block.effective_at, row)
             period == IF Declares(block, "period_start")
                       THEN ResolveTime(block.period_start, row) ELSE Null
             fields == [x \in DOMAIN block.fields |-> ResolveField(block.fields[x], row)]
             marked == [scope |-> scope[2], eff |-> eff[2], broken |-> TRUE]
             whole  == [scope |-> scope[2], eff |-> eff[2], broken |-> FALSE,
                        period |-> period, fields |-> fields]
  <1>1. \/ Candidate(block, row) = <<"row", marked>>
        \/ Candidate(block, row) = <<"row", whole>>
    BY Zenon DEF Candidate
  <1> HIDE DEF marked, whole
  <1> QED
    BY <1>1

(* Every candidate parsed from a document is that of one of its rows. *)
LEMMA ParsedRows ==
    ASSUME NEW block, NEW S, NEW rows \in Seq(S), NEW parsed, parsed = ParseDocument(block, rows),
           parsed # Rejected
    PROVE  /\ IsList(parsed[2])
           /\ \A i \in DOMAIN parsed[2] : \E row \in Range(rows) :
                 Candidate(block, row) = <<"row", parsed[2][i]>>
  <1> DEFINE parts == [i \in DOMAIN rows |-> Candidate(block, rows[i])]
             at    == {i \in DOMAIN rows : parts[i] # Skipped}
             kept  == Picked(parts, at)
             n     == Cardinality(at)
  <1>1. Rejected \notin Range(parts) /\ parsed = <<"rows", [i \in DOMAIN kept |-> kept[i][2]]>>
    BY Zenon DEF ParseDocument
  <1>2. DOMAIN rows = 1..Len(rows) /\ Len(rows) \in Nat
    OBVIOUS
  <1>3. at \in SUBSET Int /\ IsFiniteSet(at) /\ n \in Nat
    <2>1. IsFiniteSet(DOMAIN rows)
      BY <1>2, FS_Interval
    <2>2. at \in SUBSET DOMAIN rows
      OBVIOUS
    <2> HIDE DEF at
    <2>3. IsFiniteSet(at)
      BY <2>1, <2>2, FS_Subset
    <2> QED
      BY <1>2, <2>2, <2>3, FS_CardinalityType
  <1>4. /\ DOMAIN kept = 1..n
        /\ \A i \in 1..n : \E j \in at : kept[i] = parts[j]
    BY <1>3, PickedFrom
  <1>5. \A j \in at : /\ parts[j] = Candidate(block, rows[j]) /\ rows[j] \in Range(rows)
                      /\ parts[j] # Skipped /\ parts[j] # Rejected
    BY <1>1 DEF Range
  <1> HIDE DEF n, kept, parts, at
  <1>6. parsed[2] = [i \in 1..n |-> kept[i][2]]
    BY <1>1, <1>4
  <1>7. parsed[2] \in Seq(Range(parsed[2]))
    <2> DEFINE one(i) == kept[i][2]
    <2>1. PICK list : list = [i \in 1..n |-> one(i)]
      OBVIOUS
    <2> HIDE DEF one
    <2>2. DOMAIN list = 1..n
      BY <2>1
    <2>3. list \in [1..n -> Range(list)]
      BY <2>1, <2>2 DEF Range
    <2>4. list \in Seq(Range(list))
      BY <1>3, <2>3
    <2> QED
      BY <1>6, <2>1, <2>4 DEF one
  <1>8. ASSUME NEW i \in 1..n
        PROVE  \E row \in Range(rows) : Candidate(block, row) = <<"row", parsed[2][i]>>
    <2>1. PICK j \in at : kept[i] = parts[j]
      BY <1>4
    <2>2. Candidate(block, rows[j]) = <<"row", Candidate(block, rows[j])[2]>>
      BY <1>5, CandidateShapes
    <2> QED
      BY <1>5, <1>6, <2>1, <2>2
  <1> QED
    BY <1>6, <1>7, <1>8 DEF IsList

-----------------------------------------------------------------------------
(* The dataset's invariant: every record comes from a fetched row.          *)

(* A record comes from a fetched row, by way of its candidate. *)
FromRow(block, sch, rows, r) ==
    \E row \in rows : \E cand : Candidate(block, row) = <<"row", cand>> /\ Recorded(sch, cand, r)

LoadedInv == IF schema = Unloaded THEN journal = <<>> ELSE schema = SchemaOf(doc) /\ Authored(doc)

RowsInv ==
    /\ IsList(journal)
    /\ \A i \in DOMAIN journal : FromRow(doc.collector, schema, seen, journal[i])

DatasetInv == doc \in Documents /\ LoadedInv /\ RowsInv

LEMMA InitRows ==
    ASSUME Init
    PROVE  DatasetInv
  BY DEF Init, DatasetInv, LoadedInv, RowsInv, IsList

LEMMA LoadRows ==
    ASSUME DatasetInv, Load
    PROVE  DatasetInv'
  <1>1. journal = <<>> /\ journal' = <<>> /\ doc' = doc /\ schema' = SchemaOf(doc)
    BY DEF DatasetInv, LoadedInv, Load
  <1>2. Authored(doc)
    BY DatasetAssumption DEF DatasetInv, Load
  <1>3. Authored(doc')
    BY <1>1, <1>2
  <1>4. RowsInv'
    BY <1>1 DEF RowsInv, IsList
  <1> QED
    BY <1>1, <1>3, <1>4 DEF DatasetInv, LoadedInv

(* A fetch keeps the records' rows and brings those of the new records. *)
LEMMA PollRows ==
    ASSUME DatasetInv, NEW k \in DOMAIN Feeds, Poll(k)
    PROVE  DatasetInv'
  <1>1. /\ doc' = doc /\ schema' = schema /\ schema = SchemaOf(doc) /\ Authored(doc)
        /\ schema # Unloaded /\ seen' = seen \cup Range(Feeds[k])
    BY DEF DatasetInv, LoadedInv, Poll
  <1>2. Authored(doc')
    BY <1>1
  <1>3. LoadedInv'
    BY <1>1, <1>2 DEF LoadedInv
  <1> DEFINE before(r) == FromRow(doc.collector, schema, seen, r)
             after(r) == FromRow(doc.collector, schema, seen', r)
  <1>4. ASSUME NEW r, before(r)
        PROVE  after(r)
    BY <1>1, <1>4 DEF FromRow
  <1>5. IsList(journal) /\ \A i \in DOMAIN journal : before(journal[i])
    BY DEF DatasetInv, RowsInv
  <1>6. IsList(journal') /\ \A i \in DOMAIN journal' : after(journal'[i])
    <2> HIDE DEF before, after
    <2>1. CASE journal' = journal
      BY <1>4, <1>5, <2>1
    <2>2. CASE journal' # journal
      <3>1. PICK parsed, now, raw, done :
              /\ parsed = ParseDocument(doc.collector, Feeds[k]) /\ parsed # Rejected
              /\ done = IngestAll(schema, journal, parsed[2], now, raw) /\ journal' = done.log
        BY <2>2 DEF Poll, IngestParsed, Journalled
      <3>2. Feeds[k] \in Seq(Range(Feeds[k]))
        BY DatasetAssumption
      <3>3. /\ IsList(parsed[2])
            /\ \A i \in DOMAIN parsed[2] : \E row \in Range(Feeds[k]) :
                  Candidate(doc.collector, row) = <<"row", parsed[2][i]>>
        BY <3>1, <3>2, ParsedRows
      <3>4. PICK S : schema.order \in Seq(S)
        BY <1>1 DEF Authored
      <3>5. IsState(done) /\ From(schema, journal, parsed[2], done.log)
        BY <1>5, <3>1, <3>3, <3>4, IngestRecords
      <3>6. ASSUME NEW i \in DOMAIN parsed[2], NEW r, Recorded(schema, parsed[2][i], r)
            PROVE  after(r)
        BY <1>1, <3>3, <3>6 DEF FromRow, after
      <3>7. PICK log : log = journal' /\ log = done.log
        BY <3>1
      <3>8. ASSUME NEW i \in DOMAIN log
            PROVE  after(log[i])
        <4>1. \/ \E j \in DOMAIN journal : log[i] = journal[j]
              \/ \E j \in DOMAIN parsed[2] : Recorded(schema, parsed[2][j], log[i])
          BY <3>5, <3>7 DEF From
        <4> QED
          BY <1>4, <1>5, <3>6, <4>1
      <3> QED
        BY <3>5, <3>7, <3>8 DEF IsState
    <2> QED
      BY <2>1, <2>2
  <1> QED
    BY <1>1, <1>3, <1>6 DEF DatasetInv, RowsInv

LEMMA SameRows ==
    ASSUME DatasetInv, UNCHANGED <<doc, schema, journal, seen>>
    PROVE  DatasetInv'
  BY DEF DatasetInv, LoadedInv, RowsInv, FromRow

THEOREM RecordsHaveRows == Spec => []DatasetInv
  <1>1. Init => DatasetInv
    BY InitRows
  <1>2. DatasetInv /\ [Next]_vars => DatasetInv'
    <2> SUFFICES ASSUME DatasetInv, [Next]_vars
                 PROVE  DatasetInv'
      OBVIOUS
    <2>1. CASE Load
      BY <2>1, LoadRows
    <2>2. ASSUME NEW k \in DOMAIN Feeds, Poll(k)
          PROVE  DatasetInv'
      BY <2>2, PollRows
    <2>3. CASE Compile
      BY <2>3, SameRows DEF Compile
    <2>4. CASE UNCHANGED vars
      BY <2>4, SameRows DEF vars
    <2> QED
      BY <2>1, <2>2, <2>3, <2>4 DEF Next
  <1> QED
    BY <1>1, <1>2, PTL DEF Spec

(* validate_payload lets nothing into the journal that the encoder refuses *)
(* in a number, boolean or enum column.                                    *)
THEOREM JournalIsEncodable == Spec => []AcceptedEncodes
  <1>1. DatasetInv => AcceptedEncodes
    <2> SUFFICES ASSUME DatasetInv, NEW i \in DOMAIN journal,
                        NEW x \in DOMAIN journal[i].fields \cap StorableFields(schema),
                        schema.fields[x].type # "timestamp"
                 PROVE  Encodes(schema.fields[x], journal[i].fields[x])
      BY DEF AcceptedEncodes
    <2>1. schema = SchemaOf(doc) /\ Authored(doc)
      BY DEF DatasetInv, LoadedInv
    <2>2. PICK cand : Recorded(schema, cand, journal[i])
      BY DEF DatasetInv, RowsInv, FromRow
    <2>3. PICK payload : Valid(schema, payload) /\ journal[i].fields = Normalised(schema, payload)
      BY <2>2 DEF Recorded, RecordOf
    <2>4. /\ \A y \in DOMAIN schema.fields : schema.fields[y].type \in FieldTypes
          /\ \A y \in DOMAIN schema.fields : schema.fields[y].type = "enum" =>
                 Len(schema.fields[y].values) \in 0..Limit
      BY <2>1 DEF Authored
    <2>5. DOMAIN Normalised(schema, payload) = DOMAIN payload
      BY DEF Normalised
    <2> QED
      BY <2>3, <2>4, <2>5, AcceptedIsEncodable
  <1> QED
    BY <1>1, RecordsHaveRows, PTL

(* A collected number in the journal was printed in a fetched row about    *)
(* the record's subject and time.                                          *)
THEOREM NumbersHaveCells == Spec => []NumbersWerePrinted
  <1>1. DatasetInv => NumbersWerePrinted
    <2> SUFFICES ASSUME DatasetInv, NEW i \in DOMAIN journal,
                        NEW x \in DOMAIN doc.collector.fields,
                        journal[i].fields[x][1] = "num"
                 PROVE  \E row \in seen :
                           /\ Prints(Cell(row, doc.collector.fields[x].from), journal[i].fields[x][2])
                           /\ Candidate(doc.collector, row)[1] = "row"
                           /\ Candidate(doc.collector, row)[2].scope = journal[i].scope
                           /\ Candidate(doc.collector, row)[2].eff = journal[i].eff
      BY Zenon DEF NumbersWerePrinted
    <2> DEFINE spec == doc.collector.fields[x]
    <2>1. schema = SchemaOf(doc) /\ Authored(doc)
      BY DEF DatasetInv, LoadedInv
    <2>2. PICK row, cand : /\ row \in seen /\ Candidate(doc.collector, row) = <<"row", cand>>
                           /\ Recorded(schema, cand, journal[i])
      BY DEF DatasetInv, RowsInv, FromRow
    <2>3. PICK payload : /\ RecordOf(schema, cand, payload, journal[i])
                         /\ Carries(schema, cand, payload)
      BY <2>2 DEF Recorded
    <2>4. cand.fields = [y \in DOMAIN doc.collector.fields |-> ResolveField(doc.collector.fields[y], row)]
      BY <2>2, <2>3, CandidateFields DEF RecordOf
    <2>5. /\ x \notin Range(schema.order) \cup {"known_at", "effective_at"}
          /\ ~Declares(spec, "const")
          /\ x \in DOMAIN schema.fields /\ schema.fields[x].type = "number" => spec.parse \in Numeric
          /\ x \in DOMAIN schema.fields => schema.fields[x].type \in FieldTypes
      BY <2>1 DEF Authored, Numeric
    <2> HIDE DEF spec
    <2>6. x \in DOMAIN payload /\ payload[x] = ResolveField(spec, row)
      BY <2>3, <2>4, <2>5 DEF Carries, spec
    <2>7. /\ x \in DOMAIN schema.fields /\ FieldValid(schema.fields[x], payload[x])
          /\ journal[i].fields[x] = Normal(schema.fields[x], payload[x])
          /\ journal[i].scope = cand.scope /\ journal[i].eff = cand.eff
      BY <2>3, <2>6 DEF RecordOf, Valid, Normalised
    <2> DEFINE v == ResolveField(spec, row)
    <2>8. v[1] = "num" /\ journal[i].fields[x] = Normal(schema.fields[x], v)
      <3> HIDE DEF v
      <3>1. payload[x] = v
        BY <2>6 DEF v
      <3>2. CASE schema.fields[x].type = "number"
        <4>1. v # Null
          BY <2>7, <3>1, <3>2 DEF Normal, Null
        <4>2. v[1] \in {"num", "int"}
          BY <2>7, <3>1, <3>2, <4>1 DEF FieldValid
        <4>3. v[1] # "int"
          <5>1. spec.parse \in Numeric
            BY <2>5, <2>7, <3>2
          <5> QED
            BY <2>5, <5>1, NumericMakesNumbers DEF v
        <4> QED
          BY <2>7, <3>1, <4>2, <4>3
      <3>3. CASE schema.fields[x].type # "number"
        BY <2>7, <3>1, <3>3 DEF Normal
      <3> QED
        BY <3>2, <3>3
    <2>9. Normal(schema.fields[x], v)[2] = v[2]
      <3> HIDE DEF v
      <3>1. v # Null
        BY <2>8 DEF Null
      <3>2. ToDecimal(v) = v[2]
        BY <2>8 DEF ToDecimal
      <3> QED
        BY <3>1, <3>2 DEF Normal
    <2>10. Prints(Cell(row, spec.from), v[2])
      BY <2>5, <2>8, FieldPrints
    <2> QED
      BY <2>2, <2>7, <2>8, <2>9, <2>10 DEF spec
  <1> QED
    BY <1>1, RecordsHaveRows, PTL
=============================================================================
