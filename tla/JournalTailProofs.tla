-------------------------- MODULE JournalTailProofs -------------------------
(***************************************************************************)
(* Machine-checked proofs about JournalTail.tla, for every set of days,    *)
(* facts and line widths and every bound: what a tail delivers while the   *)
(* writers of Journal.tla append, die and repair under it.                 *)
(***************************************************************************)
EXTENDS JournalTail, JournalProofs, FiniteSetTheorems, WellFoundedInduction

(* A set of naturals has a least element. *)
LEMMA Least ==
    ASSUME NEW S \in SUBSET Nat, S # {}
    PROVE  \E x \in S : \A y \in S : x <= y
  <1> DEFINE Less == {ss \in Nat \X Nat : ss[1] < ss[2]}
  <1>1. IsWellFoundedOn(Less, Nat)
    BY NatLessThanWellFounded DEF OpToRel
  <1>2. PICK x \in S : \A y \in S : ~(<<y, x>> \in Less)
    <2> HIDE DEF Less
    <2> QED
      BY <1>1, WFMin
  <1>3. ASSUME NEW y \in S
        PROVE  x <= y
    <2>1. x \in Nat /\ y \in Nat /\ <<y, x>> \in Nat \X Nat
      OBVIOUS
    <2>2. ~(y < x)
      BY <1>2, <2>1
    <2> QED
      BY <2>1, <2>2
  <1> QED
    BY <1>3

(* So what holds of 0 and is handed on holds of all up to n. *)
LEMMA Climb ==
    ASSUME NEW n \in Nat, NEW G \in SUBSET Nat, 0 \in G,
           \A i \in 1..n : i - 1 \in G => i \in G
    PROVE  \A i \in 0..n : i \in G
  <1> DEFINE Bad == {i \in 0..n : i \notin G}
  <1> SUFFICES ASSUME Bad # {} PROVE FALSE
    OBVIOUS
  <1>1. Bad \in SUBSET Nat
    OBVIOUS
  <1>2. PICK x \in Bad : \A y \in Bad : x <= y
    <2> HIDE DEF Bad
    <2> QED
      BY <1>1, Least
  <1>3. x \in 1..n /\ x - 1 \in 0..n /\ x - 1 \notin Bad
    BY <1>2
  <1> QED
    BY <1>3

(* The highest of a set of naturals up to n. *)
LEMMA MaxUpTo ==
    ASSUME NEW n \in Nat, NEW S \in SUBSET (1..n), S # {}
    PROVE  Max(S) \in S /\ \A j \in S : j <= Max(S)
  <1> DEFINE below == {n - i : i \in S}
  <1>1. below \in SUBSET Nat /\ below # {}
    <2>1. PICK i \in S : TRUE
      OBVIOUS
    <2>2. n - i \in below
      OBVIOUS
    <2> QED
      BY <2>2
  <1>2. PICK x \in below : \A y \in below : x <= y
    <2> HIDE DEF below
    <2> QED
      BY <1>1, Least
  <1>3. PICK i \in S : x = n - i
    BY <1>2
  <1>4. ASSUME NEW j \in S
        PROVE  i >= j
    <2>1. x <= n - j
      BY <1>2
    <2> QED
      BY <1>3, <2>1
  <1>5. Max(S) \in S /\ \A j \in S : Max(S) >= j
    BY <1>4 DEF Max
  <1> QED
    BY <1>5

-----------------------------------------------------------------------------
(* The fold of poll's inner loop, one line after the other. *)
Iterates(f, base, q, n) ==
    f = [s \in SUBSET (1..n) |-> IF s = {} THEN base ELSE Consume(f[s \ {Max(s)}], q[Max(s)])]

(* There is such a fold function, built up one line at a time. *)
LEMMA FoldExists ==
    ASSUME NEW base, NEW q, NEW n \in Nat
    PROVE  \E f : Iterates(f, base, q, n)
  <1> DEFINE G == {i \in Nat : \E f : Iterates(f, base, q, i)}
  <1>1. 0 \in G
    <2> DEFINE f == [s \in SUBSET (1..0) |-> base]
    <2>1. \A s \in SUBSET (1..0) : s = {}
      OBVIOUS
    <2>2. f = [s \in SUBSET (1..0) |-> IF s = {} THEN base ELSE Consume(f[s \ {Max(s)}], q[Max(s)])]
      BY <2>1
    <2> QED
      BY <2>2 DEF Iterates
  <1>2. ASSUME NEW k \in 1..n, k - 1 \in G
        PROVE  k \in G
    <2>1. PICK f : Iterates(f, base, q, k - 1)
      BY <1>2
    <2> DEFINE g == [s \in SUBSET (1..k) |-> IF k \in s THEN Consume(f[s \ {k}], q[k]) ELSE f[s]]
    <2>2. ASSUME NEW s \in SUBSET (1..k)
          PROVE  g[s] = IF s = {} THEN base ELSE Consume(g[s \ {Max(s)}], q[Max(s)])
      <3>1. CASE k \in s
        <4>1. Max(s) = k
          <5>1. k \in Nat /\ s # {}
            BY <3>1
          <5>2. Max(s) \in s /\ \A j \in s : j <= Max(s)
            BY <5>1, MaxUpTo
          <5>3. Max(s) \in 1..k /\ k <= Max(s)
            BY <3>1, <5>2
          <5> QED
            BY <5>1, <5>3
        <4>2. g[s \ {k}] = f[s \ {k}] /\ g[s] = Consume(f[s \ {k}], q[k])
          BY <3>1
        <4> HIDE DEF g
        <4> QED
          BY <3>1, <4>1, <4>2
      <3>2. CASE k \notin s
        <4>1. s \in SUBSET (1..(k - 1)) /\ g[s] = f[s]
          BY <3>2
        <4>2. f[s] = IF s = {} THEN base ELSE Consume(f[s \ {Max(s)}], q[Max(s)])
          BY <2>1, <4>1 DEF Iterates
        <4>3. g[s \ {Max(s)}] = f[s \ {Max(s)}]
          BY <3>2
        <4> HIDE DEF g
        <4> QED
          BY <4>1, <4>2, <4>3
      <3> QED
        BY <3>1, <3>2
    <2>3. Iterates(g, base, q, k)
      <3>1. g = [s \in SUBSET (1..k) |-> g[s]]
        OBVIOUS
      <3> HIDE DEF g
      <3>2. [s \in SUBSET (1..k) |-> g[s]] =
              [s \in SUBSET (1..k) |-> IF s = {} THEN base ELSE Consume(g[s \ {Max(s)}], q[Max(s)])]
        BY <2>2
      <3> QED
        BY <3>1, <3>2 DEF Iterates
    <2> HIDE DEF g
    <2> QED
      BY <2>3
  <1>3. G \in SUBSET Nat
    OBVIOUS
  <1> HIDE DEF G
  <1>4. \A i \in 0..n : i \in G
    BY <1>1, <1>2, <1>3, Climb
  <1>5. n \in G
    BY <1>4
  <1> QED
    BY <1>5 DEF G

(* poll's inner loop from any accumulator. *)
Folded(base, q) == FoldLeft(Consume, base, q)

(* The loop is its body applied line after line. *)
LEMMA FoldSteps ==
    ASSUME NEW base, NEW q, NEW n \in Nat, DOMAIN q = 1..n
    PROVE  \E acc : /\ acc[0] = base
                    /\ \A i \in 1..n : acc[i] = Consume(acc[i - 1], q[i])
                    /\ Folded(base, q) = acc[n]
  <1>1. PICK f0 : Iterates(f0, base, q, n)
    BY FoldExists
  <1>2. \E f : Iterates(f, base, q, n) /\ Folded(base, q) = f[1..n]
    BY <1>1 DEF Folded, FoldLeft, MapThenFoldSet, Iterates
  <1>3. PICK f : Iterates(f, base, q, n) /\ Folded(base, q) = f[1..n]
    BY <1>2
  <1> DEFINE acc == [i \in 0..n |-> f[1..i]]
  <1>4. acc[0] = base /\ acc[n] = f[1..n]
    <2>1. 1..0 = {} /\ {} \in SUBSET (1..n)
      OBVIOUS
    <2>2. f[{}] = base
      BY <1>3, <2>1 DEF Iterates
    <2> QED
      BY <2>1, <2>2
  <1>5. ASSUME NEW i \in 1..n
        PROVE  acc[i] = Consume(acc[i - 1], q[i])
    <2>1. 1..i \in SUBSET (1..n) /\ 1..i # {} /\ i \in 1..i /\ i \in Nat
      OBVIOUS
    <2>2. Max(1..i) = i
      <3>1. Max(1..i) \in 1..i /\ \A j \in 1..i : j <= Max(1..i)
        BY <2>1, MaxUpTo
      <3> QED
        BY <2>1, <3>1
    <2>3. (1..i) \ {i} = 1..(i - 1)
      OBVIOUS
    <2>4. f[1..i] = Consume(f[(1..i) \ {i}], q[i])
      BY <1>3, <2>1, <2>2 DEF Iterates
    <2>5. acc[i] = f[1..i] /\ acc[i - 1] = f[1..(i - 1)]
      OBVIOUS
    <2> HIDE DEF acc
    <2> QED
      BY <2>3, <2>4, <2>5
  <1> HIDE DEF acc
  <1> QED
    BY <1>3, <1>4, <1>5

-----------------------------------------------------------------------------
(* Seqs rise along a sequence of lines. *)
Rising(q) == \A i, j \in DOMAIN q : i < j => q[i].seq < q[j].seq

(* What has been delivered, and last_seq. *)
Delivery(out, n) ==
    /\ out \in Seq(Line) /\ n \in Nat
    /\ Rising(out)
    /\ \A i \in DOMAIN out : out[i].seq # 0 /\ out[i].seq <= n
    /\ n = 0 \/ \E i \in DOMAIN out : out[i].seq = n

(* The state poll's inner loop runs on. *)
Accumulator == [out : Seq(Line), last : Nat, skipped : Nat]

(* What the loop has made of the first n lines of q. *)
Consumed(a, base, q, n) ==
    /\ a \in Accumulator
    /\ Delivery(a.out, a.last)
    /\ base.last <= a.last
    /\ Range(base.out) \subseteq Range(a.out)
    /\ \A r \in Range(a.out) : r \in Range(base.out) \/ \E i \in 1..n : r = q[i] /\ r.seq # 0
    /\ (Rising(q) /\ \A i \in DOMAIN q : q[i].seq # 0) =>
         /\ a.skipped = base.skipped
         /\ a.last = base.last \/ \E i \in 1..n : a.last = q[i].seq
         /\ \A i \in 1..n : /\ q[i].seq <= a.last
                            /\ q[i].seq > base.last => q[i] \in Range(a.out)

(* A line has a seq and a fact. *)
LEMMA LineFields ==
    ASSUME NEW line \in Line
    PROVE  line.seq \in 0..MaxSeq /\ line.seq \in Nat /\ line.fact \in Facts \cup {None}
  BY JournalAssumption DEF Line

(* A line that does not parse is a line. *)
LEMMA GarbledIsALine == Garbled \in Line
  BY JournalAssumption DEF Garbled, Line

(* Places and lines of a sequence of lines. *)
LEMMA SeqOfLines ==
    ASSUME NEW q \in Seq(Line)
    PROVE  /\ Len(q) \in Nat /\ DOMAIN q = 1..Len(q)
           /\ \A i \in 1..Len(q) : q[i] \in Line /\ q[i].seq \in Nat
  <1>1. /\ Len(q) \in Nat /\ DOMAIN q = 1..Len(q)
        /\ \A i \in 1..Len(q) : q[i] \in Line
    OBVIOUS
  <1> QED
    BY <1>1, LineFields

(* The fields of an accumulator after an update. *)
LEMMA AccumulatorFields ==
    ASSUME NEW a \in Accumulator
    PROVE  /\ a.out \in Seq(Line) /\ a.last \in Nat /\ a.skipped \in Nat
           /\ \A k \in Nat : LET b == [a EXCEPT !.skipped = k]
                             IN  b \in Accumulator /\ b.out = a.out /\ b.last = a.last
  <1>1. PICK S : S = Seq(Line)
    OBVIOUS
  <1>2. a \in [out : S, last : Nat, skipped : Nat]
    BY <1>1 DEF Accumulator
  <1>3. /\ a.out \in S /\ a.last \in Nat /\ a.skipped \in Nat
        /\ \A k \in Nat : LET b == [a EXCEPT !.skipped = k]
                          IN  /\ b \in [out : S, last : Nat, skipped : Nat]
                              /\ b.out = a.out /\ b.last = a.last
    BY <1>2
  <1> QED
    BY <1>1, <1>3 DEF Accumulator

(* A record above last_seq is delivered and becomes last_seq. *)
LEMMA ConsumeDelivers ==
    ASSUME NEW a \in Accumulator, NEW line \in Line, line.seq # 0, ~(line.seq <= a.last)
    PROVE  LET b == Consume(a, line)
           IN  /\ b \in Accumulator /\ b.out = Append(a.out, line) /\ b.last = line.seq
               /\ b.skipped = a.skipped
  <1>1. PICK S : S = Seq(Line)
    OBVIOUS
  <1>2. PICK k \in Nat : k = line.seq
    BY LineFields
  <1>3. a \in [out : S, last : Nat, skipped : Nat]
    BY <1>1 DEF Accumulator
  <1>4. PICK o \in S : o = Append(a.out, line)
    <2>1. a.out \in Seq(Line)
      BY AccumulatorFields
    <2>2. Append(a.out, line) \in Seq(Line)
      BY <2>1, AppendFacts
    <2> QED
      BY <1>1, <2>2
  <1>5. PICK b : b = Consume(a, line)
    OBVIOUS
  <1>6. /\ b \in [out : S, last : Nat, skipped : Nat]
        /\ b.out = o /\ b.last = k /\ b.skipped = a.skipped
    BY <1>2, <1>3, <1>4, <1>5 DEF Consume
  <1> QED
    BY <1>1, <1>2, <1>4, <1>5, <1>6 DEF Accumulator

(* One line more. *)
LEMMA ConsumeStep ==
    ASSUME NEW base \in Accumulator, NEW q \in Seq(Line), NEW n \in 1..Len(q),
           NEW a, Consumed(a, base, q, n - 1)
    PROVE  Consumed(Consume(a, q[n]), base, q, n)
  <1> DEFINE line == q[n]
             b == Consume(a, line)
  <1> SUFFICES Consumed(b, base, q, n)
    OBVIOUS
  <1>0. /\ Len(q) \in Nat /\ DOMAIN q = 1..Len(q) /\ n \in Nat /\ n - 1 \in Nat
        /\ line \in Line /\ line.seq \in Nat /\ \A i \in 1..Len(q) : q[i].seq \in Nat
    BY SeqOfLines
  <1>1. /\ a \in Accumulator /\ a.out \in Seq(Line) /\ a.last \in Nat /\ a.skipped \in Nat
        /\ base.last \in Nat /\ base.skipped \in Nat
        /\ Delivery(a.out, a.last)
    BY AccumulatorFields DEF Consumed
  <1>2. \A i \in 1..n : i = n \/ i \in 1..(n - 1)
    BY <1>0
  <1>3. \A i \in 1..(n - 1) : i \in 1..n
    BY <1>0
  <1>4. CASE line.seq = 0
    <2>1. b = [a EXCEPT !.skipped = a.skipped + 1]
      BY <1>4 DEF Consume
    <2>2. b \in Accumulator /\ b.out = a.out /\ b.last = a.last
      <3>1. a.skipped + 1 \in Nat
        BY <1>1
      <3> HIDE DEF b
      <3> QED
        BY <1>1, <2>1, <3>1, AccumulatorFields
    <2>3. ~(\A i \in DOMAIN q : q[i].seq # 0)
      BY <1>0, <1>4
    <2> HIDE DEF b
    <2> QED
      BY <1>3, <2>2, <2>3 DEF Consumed
  <1>5. CASE line.seq # 0 /\ line.seq <= a.last
    <2>1. b = a
      BY <1>5 DEF Consume
    <2>2. ASSUME Rising(q), \A i \in DOMAIN q : q[i].seq # 0, line.seq > base.last
          PROVE  FALSE
      <3>1. a.last = base.last \/ \E i \in 1..(n - 1) : a.last = q[i].seq
        BY <2>2 DEF Consumed
      <3>2. a.last # base.last
        BY <1>0, <1>1, <1>5, <2>2
      <3>3. PICK i \in 1..(n - 1) : a.last = q[i].seq
        BY <3>1, <3>2
      <3>4. q[i].seq < line.seq
        BY <1>0, <2>2 DEF Rising
      <3> QED
        BY <1>0, <1>1, <1>5, <3>3, <3>4
    <2>3. (Rising(q) /\ \A i \in DOMAIN q : q[i].seq # 0) =>
             \A i \in 1..n : /\ q[i].seq <= a.last
                             /\ q[i].seq > base.last => q[i] \in Range(a.out)
      BY <1>2, <1>5, <2>2 DEF Consumed
    <2> HIDE DEF b
    <2> QED
      BY <1>3, <2>1, <2>3 DEF Consumed
  <1>6. CASE line.seq # 0 /\ ~(line.seq <= a.last)
    <2> DEFINE out == Append(a.out, line)
    <2>2.  PICK m \in Nat : m = Len(a.out)
      BY <1>1
    <2>3. /\ out \in Seq(Line) /\ DOMAIN a.out = 1..m /\ DOMAIN out = 1..(m + 1)
          /\ (\A i \in 1..m : out[i] = a.out[i]) /\ out[m + 1] = line
      BY <1>0, <1>1, <2>2, AppendFacts
    <2> HIDE DEF out
    <2>4. b \in Accumulator /\ b.out = out /\ b.last = line.seq /\ b.skipped = a.skipped
      <3>1. line.seq \in Nat /\ out \in Seq(Line) /\ a \in Accumulator
        BY <1>0, <1>1, <2>3
      <3> HIDE DEF line
      <3> QED
        BY <1>0, <1>1, <1>6, ConsumeDelivers DEF out
    <2>5. a.last < line.seq
      BY <1>0, <1>1, <1>6
    <2>6. \A i \in 1..m : a.out[i].seq \in Nat /\ a.out[i].seq # 0 /\ a.out[i].seq <= a.last
      <3>1. \A i \in 1..m : a.out[i].seq \in Nat
        BY <1>1, <2>2, SeqOfLines
      <3> QED
        BY <1>1, <2>3, <3>1 DEF Delivery
    <2>7. Delivery(out, line.seq)
      <3>1. Rising(out)
        <4> SUFFICES ASSUME NEW i \in 1..(m + 1), NEW j \in 1..(m + 1), i < j
                     PROVE  out[i].seq < out[j].seq
          BY <2>3 DEF Rising
        <4>1. i \in 1..m /\ out[i] = a.out[i]
          BY <2>3
        <4>2. CASE j = m + 1
          BY <1>0, <1>1, <2>3, <2>5, <2>6, <4>1, <4>2
        <4>3. CASE j \in 1..m
          BY <1>1, <2>3, <4>1, <4>3 DEF Delivery, Rising
        <4> QED
          BY <4>2, <4>3
      <3>2. \A i \in 1..(m + 1) : out[i].seq # 0 /\ out[i].seq <= line.seq
        <4> SUFFICES ASSUME NEW i \in 1..(m + 1)
                     PROVE  out[i].seq # 0 /\ out[i].seq <= line.seq
          OBVIOUS
        <4>1. CASE i = m + 1
          BY <1>0, <1>6, <2>3, <4>1
        <4>2. CASE i \in 1..m
          <5>1. out[i] = a.out[i] /\ a.out[i].seq \in Nat /\ a.out[i].seq # 0 /\ a.out[i].seq <= a.last
            BY <2>3, <2>6, <4>2
          <5>2. line.seq \in Nat /\ a.last \in Nat
            BY <1>0, <1>1
          <5> HIDE DEF line
          <5> QED
            BY <2>5, <5>1, <5>2
        <4> QED
          BY <4>1, <4>2
      <3>3. m + 1 \in DOMAIN out /\ out[m + 1].seq = line.seq
        BY <2>3
      <3> QED
        BY <1>0, <2>3, <3>1, <3>2, <3>3 DEF Delivery
    <2>8. Range(out) = Range(a.out) \cup {line}
      <3>1. \A i \in 1..(m + 1) : i \in 1..m \/ i = m + 1
        OBVIOUS
      <3>2. (\A i \in 1..m : i \in 1..(m + 1)) /\ m + 1 \in 1..(m + 1)
        OBVIOUS
      <3> QED
        BY <2>3, <3>1, <3>2 DEF Range
    <2>9. base.last <= line.seq
      BY <1>0, <1>1, <2>5 DEF Consumed
    <2>10. \A r \in Range(out) : r \in Range(base.out) \/ \E i \in 1..n : r = q[i] /\ r.seq # 0
      <3>1. n \in 1..n
        BY <1>0
      <3> QED
        BY <1>3, <1>6, <2>8, <3>1 DEF Consumed
    <2>11. ASSUME Rising(q), \A i \in DOMAIN q : q[i].seq # 0
           PROVE  /\ a.skipped = base.skipped
                  /\ \E i \in 1..n : line.seq = q[i].seq
                  /\ \A i \in 1..n : /\ q[i].seq <= line.seq
                                     /\ q[i].seq > base.last => q[i] \in Range(out)
      <3>1. n \in 1..n /\ line.seq <= line.seq
        BY <1>0
      <3>2. \A i \in 1..(n - 1) : /\ q[i].seq <= line.seq
                                  /\ q[i].seq > base.last => q[i] \in Range(out)
        <4>1. \A i \in 1..(n - 1) : /\ q[i].seq <= a.last
                                    /\ q[i].seq > base.last => q[i] \in Range(a.out)
          BY <2>11 DEF Consumed
        <4> QED
          BY <1>0, <1>1, <2>5, <2>8, <4>1
      <3>3. a.skipped = base.skipped
        BY <2>11 DEF Consumed
      <3> QED
        BY <1>2, <2>8, <3>1, <3>2, <3>3
    <2>12. Range(base.out) \subseteq Range(out)
      BY <2>8 DEF Consumed
    <2> HIDE DEF b
    <2> QED
      BY <2>4, <2>7, <2>9, <2>10, <2>11, <2>12 DEF Consumed
  <1> QED
    BY <1>4, <1>5, <1>6

(* The whole loop. *)
LEMMA ConsumeAll ==
    ASSUME NEW base \in Accumulator, NEW q \in Seq(Line), Delivery(base.out, base.last)
    PROVE  Consumed(Folded(base, q), base, q, Len(q))
  <1>1. PICK n \in Nat : n = Len(q) /\ DOMAIN q = 1..n
    BY SeqOfLines
  <1>2. PICK acc : /\ acc[0] = base
                   /\ \A i \in 1..n : acc[i] = Consume(acc[i - 1], q[i])
                   /\ Folded(base, q) = acc[n]
    <2>1. DOMAIN q = 1..n
      BY <1>1
    <2> QED
      BY <2>1, FoldSteps
  <1> DEFINE G == {i \in Nat : Consumed(acc[i], base, q, i)}
  <1>3. 0 \in G
    <2>1. base.last \in Nat
      BY AccumulatorFields
    <2> QED
      BY <1>2, <2>1 DEF Consumed
  <1>4. \A i \in 1..n : i - 1 \in G => i \in G
    BY <1>1, <1>2, ConsumeStep
  <1>5. G \in SUBSET Nat
    OBVIOUS
  <1> HIDE DEF G
  <1>6. \A i \in 0..n : i \in G
    BY <1>3, <1>4, <1>5, Climb
  <1>7. n \in G
    BY <1>6
  <1> QED
    BY <1>1, <1>2, <1>7 DEF G

-----------------------------------------------------------------------------
(* Where the first n lines end. *)
Endings(e, q, n) ==
    e = [i \in 0..n |-> IF i = 0 THEN 0 ELSE e[i - 1] + Width(q[i])]

(* A line takes at least one byte. *)
LEMMA WidthPositive ==
    ASSUME NEW line \in Line
    PROVE  Width(line) \in Nat /\ Width(line) # 0
  BY TailAssumption, LineFields DEF Width

(* The line ends exist, built up one line at a time. *)
LEMMA EndingsExist ==
    ASSUME NEW q, NEW n \in Nat
    PROVE  \E e : Endings(e, q, n)
  <1> DEFINE G == {i \in Nat : \E e : Endings(e, q, i)}
  <1>1. 0 \in G
    <2> DEFINE e == [i \in 0..0 |-> 0]
    <2>1. e = [i \in 0..0 |-> IF i = 0 THEN 0 ELSE e[i - 1] + Width(q[i])]
      OBVIOUS
    <2> HIDE DEF e
    <2> QED
      BY <2>1 DEF Endings
  <1>2. ASSUME NEW k \in 1..n, k - 1 \in G
        PROVE  k \in G
    <2>1. PICK e : Endings(e, q, k - 1)
      BY <1>2
    <2> DEFINE g == [i \in 0..k |-> IF i = k THEN e[k - 1] + Width(q[k]) ELSE e[i]]
    <2>2. ASSUME NEW i \in 0..k
          PROVE  g[i] = IF i = 0 THEN 0 ELSE g[i - 1] + Width(q[i])
      <3>1. CASE i = k
        <4>1. g[i] = e[k - 1] + Width(q[k]) /\ g[k - 1] = e[k - 1] /\ k # 0
          BY <3>1
        <4> HIDE DEF g
        <4> QED
          BY <3>1, <4>1
      <3>2. CASE i # k
        <4>1. i \in 0..(k - 1) /\ g[i] = e[i] /\ (i # 0 => g[i - 1] = e[i - 1])
          BY <3>2
        <4>2. e[i] = IF i = 0 THEN 0 ELSE e[i - 1] + Width(q[i])
          BY <2>1, <4>1 DEF Endings
        <4> HIDE DEF g
        <4> QED
          BY <4>1, <4>2
      <3> QED
        BY <3>1, <3>2
    <2>3. Endings(g, q, k)
      <3>1. g = [i \in 0..k |-> g[i]]
        OBVIOUS
      <3> HIDE DEF g
      <3>2. [i \in 0..k |-> g[i]] = [i \in 0..k |-> IF i = 0 THEN 0 ELSE g[i - 1] + Width(q[i])]
        BY <2>2
      <3> QED
        BY <3>1, <3>2 DEF Endings
    <2> HIDE DEF g
    <2> QED
      BY <2>3
  <1>3. G \in SUBSET Nat
    OBVIOUS
  <1> HIDE DEF G
  <1>4. \A i \in 0..n : i \in G
    BY <1>1, <1>2, <1>3, Climb
  <1>5. n \in G
    BY <1>4
  <1> QED
    BY <1>5 DEF G

(* Lines end one after the other. *)
LEMMA EndsFacts ==
    ASSUME NEW q \in Seq(Line), NEW n \in Nat, n = Len(q)
    PROVE  /\ Ends(q)[0] = 0
           /\ \A i \in 1..n : Ends(q)[i] = Ends(q)[i - 1] + Width(q[i])
           /\ \A i \in 0..n : Ends(q)[i] \in Nat
           /\ \A i, j \in 0..n : i < j => Ends(q)[i] < Ends(q)[j]
  <1>1. \E e : Endings(e, q, n)
    BY EndingsExist
  <1>2. Endings(Ends(q), q, n)
    BY <1>1 DEF Ends, Endings
  <1>3. PICK e : e = Ends(q)
    OBVIOUS
  <1>4. e[0] = 0 /\ \A i \in 1..n : e[i] = e[i - 1] + Width(q[i])
    BY <1>2, <1>3 DEF Endings
  <1>5. \A i \in 1..n : Width(q[i]) \in Nat /\ Width(q[i]) # 0
    BY SeqOfLines, WidthPositive
  <1>6. \A i \in 0..n : e[i] \in Nat
    <2> DEFINE G == {i \in Nat : e[i] \in Nat}
    <2>1. 0 \in G /\ G \in SUBSET Nat
      BY <1>4
    <2>2. \A i \in 1..n : i - 1 \in G => i \in G
      BY <1>4, <1>5
    <2>3. \A i \in 0..n : i \in G
      <3> HIDE DEF G
      <3> QED
        BY <2>1, <2>2, Climb
    <2> QED
      BY <2>3
  <1>7. ASSUME NEW i \in 0..n
        PROVE  \A j \in 0..n : i < j => e[i] < e[j]
    <2> DEFINE G == {j \in Nat : j <= n /\ i < j => e[i] < e[j]}
    <2>1. 0 \in G /\ G \in SUBSET Nat
      OBVIOUS
    <2>2. ASSUME NEW j \in 1..n, j - 1 \in G
          PROVE  j \in G
      <3>1. e[j] = e[j - 1] + Width(q[j]) /\ Width(q[j]) \in Nat /\ Width(q[j]) # 0
        BY <1>4, <1>5
      <3>2. e[i] \in Nat /\ e[j - 1] \in Nat
        BY <1>6
      <3>3. i < j => i = j - 1 \/ e[i] < e[j - 1]
        BY <2>2
      <3> QED
        BY <3>1, <3>2, <3>3
    <2>3. \A j \in 0..n : j \in G
      <3> HIDE DEF G
      <3> QED
        BY <2>1, <2>2, Climb
    <2> QED
      BY <2>3
  <1> QED
    BY <1>3, <1>4, <1>6, <1>7

(* Appending moves no earlier line. *)
LEMMA EndsStable ==
    ASSUME NEW q \in Seq(Line), NEW r \in Seq(Line), Len(q) <= Len(r),
           \A i \in DOMAIN q : r[i] = q[i]
    PROVE  \A i \in 0..Len(q) : Ends(r)[i] = Ends(q)[i]
  <1>1. PICK n \in Nat : n = Len(q)
    BY SeqOfLines
  <1>2. PICK m \in Nat : m = Len(r)
    BY SeqOfLines
  <1>3. PICK e, f : e = Ends(q) /\ f = Ends(r)
    OBVIOUS
  <1>4. e[0] = 0 /\ \A i \in 1..n : e[i] = e[i - 1] + Width(q[i])
    BY <1>1, <1>3, EndsFacts
  <1>5. f[0] = 0 /\ \A i \in 1..m : f[i] = f[i - 1] + Width(r[i])
    BY <1>2, <1>3, EndsFacts
  <1>6. n <= m /\ \A i \in 1..n : r[i] = q[i]
    BY <1>1, <1>2, SeqOfLines
  <1> DEFINE G == {i \in Nat : f[i] = e[i]}
  <1>7. 0 \in G /\ G \in SUBSET Nat
    BY <1>4, <1>5
  <1>8. \A i \in 1..n : i - 1 \in G => i \in G
    BY <1>4, <1>5, <1>6
  <1>9. \A i \in 0..n : i \in G
    <2> HIDE DEF G
    <2> QED
      BY <1>7, <1>8, Climb
  <1> QED
    BY <1>1, <1>3, <1>9

(* A head and the lines from k + 2 on. *)
LEMMA HeadAndRest ==
    ASSUME NEW q \in Seq(Line), NEW n \in Nat, n = Len(q), NEW k \in 0..(n - 1), NEW h \in Line
    PROVE  LET c == <<h>> \o SubSeq(q, k + 2, n)
           IN  /\ c \in Seq(Line) /\ Len(c) = n - k /\ c[1] = h
               /\ \A i \in 2..(n - k) : c[i] = q[k + i]
  <1>1. \A i \in 1..n : q[i] \in Line
    BY SeqOfLines
  <1>2. PICK r : r = SubSeq(q, k + 2, n)
    OBVIOUS
  <1>3. k + 2 \in Int /\ n \in Int /\ \A i \in (k + 2)..n : q[i] \in Line
    BY <1>1
  <1>4. r \in Seq(Line) /\ Len(r) = n - k - 1 /\ \A i \in 1..(n - k - 1) : r[i] = q[k + i + 1]
    <2>1. /\ r \in Seq(Line) /\ Len(r) = (IF k + 2 <= n THEN n - (k + 2) + 1 ELSE 0)
          /\ \A i \in 1..(n - (k + 2) + 1) : r[i] = q[(k + 2) + i - 1]
      BY <1>2, <1>3, SubSeqProperties
    <2>2. ASSUME NEW i \in 1..(n - k - 1)
          PROVE  r[i] = q[k + i + 1]
      <3>1. i \in 1..(n - (k + 2) + 1) /\ (k + 2) + i - 1 = k + i + 1
        OBVIOUS
      <3> QED
        BY <2>1, <3>1
    <2>3. (IF k + 2 <= n THEN n - (k + 2) + 1 ELSE 0) = n - k - 1
      OBVIOUS
    <2> QED
      BY <2>1, <2>2, <2>3
  <1>5. PICK g \in Seq(Line) : g = <<h>> /\ Len(g) = 1 /\ g[1] = h
    <2>1. <<h>> \in Seq(Line) /\ Len(<<h>>) = 1 /\ <<h>>[1] = h
      OBVIOUS
    <2> QED
      BY <2>1
  <1>6. PICK c : c = g \o r
    OBVIOUS
  <1>7. /\ c \in Seq(Line) /\ Len(c) = 1 + Len(r)
        /\ \A i \in 1..(1 + Len(r)) : c[i] = IF i <= 1 THEN g[i] ELSE r[i - 1]
    <2>1. /\ g \o r \in Seq(Line) /\ Len(g \o r) = Len(g) + Len(r)
          /\ \A i \in 1..(Len(g) + Len(r)) : (g \o r)[i] = IF i <= Len(g) THEN g[i] ELSE r[i - Len(g)]
      BY <1>4, ConcatProperties
    <2> QED
      BY <1>5, <1>6, <2>1
  <1>8. Len(c) = n - k /\ c[1] = h
    BY <1>4, <1>5, <1>7
  <1>9. \A i \in 2..(n - k) : c[i] = q[k + i]
    <2> SUFFICES ASSUME NEW i \in 2..(n - k) PROVE c[i] = q[k + i]
      OBVIOUS
    <2>1. i \in 1..(1 + Len(r)) /\ ~(i <= 1) /\ i - 1 \in 1..(n - k - 1)
      BY <1>4
    <2>2. c[i] = r[i - 1] /\ r[i - 1] = q[k + (i - 1) + 1]
      BY <1>4, <1>7, <2>1
    <2> QED
      BY <2>2
  <1> QED
    BY <1>2, <1>5, <1>6, <1>7, <1>8, <1>9

(* Whatever the offset, a chunk holds lines of the file and possibly a     *)
(* head that does not parse.                                               *)
LEMMA ChunkAny ==
    ASSUME NEW q \in Seq(Line), NEW o \in Nat
    PROVE  /\ Chunk(q, o) \in Seq(Line)
           /\ \A i \in DOMAIN Chunk(q, o) : Chunk(q, o)[i] = Garbled
                                            \/ \E j \in DOMAIN q : Chunk(q, o)[i] = q[j]
  <1>1. PICK n \in Nat : n = Len(q) /\ DOMAIN q = 1..n
    BY SeqOfLines
  <1>2. PICK end : end = Ends(q)
    OBVIOUS
  <1>3. PICK after : after = {i \in 1..n : end[i] > o}
    OBVIOUS
  <1>4. Cardinality(after) \in 0..n /\ (after # {} => Cardinality(after) # 0)
    <2>1. IsFiniteSet(1..n) /\ Cardinality(1..n) = n
      <3>1. 1 \in Int /\ n \in Int
        OBVIOUS
      <3> QED
        BY <3>1, FS_Interval
    <2>2. IsFiniteSet(after) /\ Cardinality(after) <= n
      <3>1. after \in SUBSET (1..n)
        BY <1>3
      <3> QED
        BY <2>1, <3>1, FS_Subset
    <2> QED
      BY <2>2, FS_CardinalityType, FS_EmptySet
  <1>5. PICK first : first = n + 1 - Cardinality(after)
    OBVIOUS
  <1>6. PICK c : c = Chunk(q, o)
    OBVIOUS
  <1>7. c = IF after = {} THEN <<>>
            ELSE (IF end[first - 1] < o THEN <<Garbled>> ELSE <<q[first]>>)
                 \o SubSeq(q, first + 1, n)
    BY <1>1, <1>2, <1>3, <1>5, <1>6 DEF Chunk
  <1>8. CASE after = {}
    BY <1>6, <1>7, <1>8
  <1>9. CASE after # {}
    <2>1. PICK k \in 0..(n - 1) : k = first - 1
      BY <1>4, <1>5, <1>9
    <2>2. first = k + 1 /\ first + 1 = k + 2 /\ first \in 1..n
      BY <1>4, <1>5, <2>1
    <2>3. PICK h \in Line : /\ h = Garbled \/ h = q[first]
                            /\ c = <<h>> \o SubSeq(q, k + 2, n)
      <3>1. Garbled \in Line /\ q[first] \in Line
        BY <1>1, <2>2, GarbledIsALine, SeqOfLines
      <3>2. c = (IF end[first - 1] < o THEN <<Garbled>> ELSE <<q[first]>>) \o SubSeq(q, k + 2, n)
        BY <1>7, <1>9, <2>2
      <3>3. CASE end[first - 1] < o
        BY <3>1, <3>2, <3>3
      <3>4. CASE ~(end[first - 1] < o)
        BY <3>1, <3>2, <3>4
      <3> QED
        BY <3>3, <3>4
    <2>4. /\ c \in Seq(Line) /\ Len(c) = n - k /\ c[1] = h
          /\ \A i \in 2..(n - k) : c[i] = q[k + i]
      BY <1>1, <2>3, HeadAndRest
    <2>5. ASSUME NEW i \in DOMAIN c
          PROVE  c[i] = Garbled \/ \E j \in DOMAIN q : c[i] = q[j]
      <3>1. i \in 1..(n - k)
        BY <2>4, <2>5
      <3>2. CASE i = 1
        BY <1>1, <2>2, <2>3, <2>4, <3>2
      <3>3. CASE i # 1
        <4>1. i \in 2..(n - k) /\ k + i \in 1..n
          BY <3>1, <3>3
        <4> QED
          BY <1>1, <2>4, <4>1
      <3> QED
        BY <3>2, <3>3
    <2> QED
      BY <1>6, <2>4, <2>5
  <1> QED
    BY <1>8, <1>9

(* From the end of line k, a chunk is the lines behind it. *)
LEMMA ChunkAt ==
    ASSUME NEW q \in Seq(Line), NEW n \in Nat, n = Len(q), NEW k \in 0..n
    PROVE  LET c == Chunk(q, Ends(q)[k])
           IN  /\ c \in Seq(Line) /\ Len(c) = n - k
               /\ \A i \in 1..(n - k) : c[i] = q[k + i]
  <1>1. DOMAIN q = 1..n /\ \A i \in 1..n : q[i] \in Line
    BY SeqOfLines
  <1>2. PICK end : end = Ends(q)
    OBVIOUS
  <1>3. /\ \A i \in 0..n : end[i] \in Nat
        /\ \A i, j \in 0..n : i < j => end[i] < end[j]
    BY <1>2, EndsFacts
  <1>4. PICK after : after = {i \in 1..n : end[i] > end[k]}
    OBVIOUS
  <1>5. after = (k + 1)..n
    <2>1. ASSUME NEW i \in 1..n
          PROVE  end[i] > end[k] <=> i > k
      <3>1. i \in 0..n /\ end[i] \in Nat /\ end[k] \in Nat
        BY <1>3
      <3>2. CASE i > k
        BY <1>3, <3>1, <3>2
      <3>3. CASE i = k
        BY <3>1, <3>3
      <3>4. CASE i < k
        BY <1>3, <3>1, <3>4
      <3> QED
        BY <3>2, <3>3, <3>4
    <2> QED
      BY <1>4, <2>1
  <1>6. Cardinality(after) = n - k
    <2>1. k + 1 \in Int /\ n \in Int
      OBVIOUS
    <2>2. Cardinality((k + 1)..n) = IF k + 1 > n THEN 0 ELSE n - (k + 1) + 1
      BY <2>1, FS_Interval
    <2> QED
      BY <1>5, <2>2
  <1>7. PICK c : c = Chunk(q, Ends(q)[k])
    OBVIOUS
  <1>8. PICK first : first = n + 1 - Cardinality(after)
    OBVIOUS
  <1>9. c = IF after = {} THEN <<>>
            ELSE (IF end[first - 1] < end[k] THEN <<Garbled>> ELSE <<q[first]>>)
                 \o SubSeq(q, first + 1, n)
    BY <1>2, <1>4, <1>7, <1>8 DEF Chunk
  <1>10. first = k + 1 /\ first - 1 = k /\ first + 1 = k + 2
    BY <1>6, <1>8
  <1>11. CASE k = n
    <2>1. after = {}
      BY <1>5, <1>11
    <2>2. c = <<>>
      BY <1>9, <2>1
    <2>3. <<>> \in Seq(Line) /\ Len(<<>>) = 0
      OBVIOUS
    <2>4. n - k = 0 /\ 1..0 = {}
      BY <1>11
    <2> QED
      BY <1>7, <2>2, <2>3, <2>4
  <1>12. CASE k # n
    <2>1. after # {} /\ k \in 0..(n - 1) /\ k + 1 \in 1..n
      BY <1>5, <1>12
    <2>2. ~(end[k] < end[k])
      BY <1>3
    <2>3. c = <<q[k + 1]>> \o SubSeq(q, k + 2, n)
      BY <1>9, <1>10, <2>1, <2>2
    <2>4. q[k + 1] \in Line
      BY <1>1, <2>1
    <2>5. /\ c \in Seq(Line) /\ Len(c) = n - k /\ c[1] = q[k + 1]
          /\ \A i \in 2..(n - k) : c[i] = q[k + i]
      BY <2>1, <2>3, <2>4, HeadAndRest
    <2>6. \A i \in 1..(n - k) : i = 1 \/ i \in 2..(n - k)
      OBVIOUS
    <2> QED
      BY <1>7, <2>5, <2>6
  <1> QED
    BY <1>11, <1>12

-----------------------------------------------------------------------------
(* f is increasing up to n. *)
Increasing(f, n) == \A i, j \in 1..n : i < j => f[i] < f[j]

(* A finite set of naturals can be listed in order. *)
LEMMA SortedExists ==
    ASSUME NEW n \in Nat, NEW S \in SUBSET Nat, IsFiniteSet(S), Cardinality(S) = n
    PROVE  \E f \in [1..n -> S] : Increasing(f, n)
  <1> DEFINE G == {k \in Nat : \A T \in SUBSET Nat : (IsFiniteSet(T) /\ Cardinality(T) = k) =>
                                   \E f \in [1..k -> T] : Increasing(f, k)}
  <1>1. 0 \in G
    <2>1. 1..0 = {}
      OBVIOUS
    <2>2. ASSUME NEW T \in SUBSET Nat
          PROVE  \E f \in [1..0 -> T] : Increasing(f, 0)
      <3>1. PICK f : f = [i \in 1..0 |-> i]
        OBVIOUS
      <3>2. f \in [1..0 -> T] /\ Increasing(f, 0)
        BY <2>1, <3>1 DEF Increasing
      <3> QED
        BY <3>2
    <2> QED
      BY <2>2
  <1>2. ASSUME NEW k \in 1..n, k - 1 \in G
        PROVE  k \in G
    <2> SUFFICES ASSUME NEW T \in SUBSET Nat, IsFiniteSet(T), Cardinality(T) = k
                 PROVE  \E f \in [1..k -> T] : Increasing(f, k)
      OBVIOUS
    <2>1. T # {}
      BY FS_EmptySet
    <2>2. PICK x \in T : \A y \in T : x <= y
      BY <2>1, Least
    <2>3. PICK U \in SUBSET Nat : U = T \ {x}
      OBVIOUS
    <2>4. IsFiniteSet(U) /\ Cardinality(U) = k - 1
      BY <2>3, FS_RemoveElement
    <2>5. PICK g \in [1..(k - 1) -> U] : Increasing(g, k - 1)
      BY <1>2, <2>4
    <2> DEFINE f == [i \in 1..k |-> IF i = 1 THEN x ELSE g[i - 1]]
    <2>6. \A i \in 2..k : f[i] = g[i - 1] /\ i - 1 \in 1..(k - 1) /\ g[i - 1] \in U
      OBVIOUS
    <2>7. 1 \in 1..k /\ f[1] = x /\ \A i \in 1..k : i = 1 \/ i \in 2..k
      OBVIOUS
    <2>8. f \in [1..k -> T]
      <3>1. f = [i \in 1..k |-> f[i]]
        OBVIOUS
      <3> HIDE DEF f
      <3>2. \A i \in 1..k : f[i] \in T
        BY <2>3, <2>6, <2>7
      <3> QED
        BY <3>1, <3>2
    <2> HIDE DEF f
    <2>9. Increasing(f, k)
      <3> SUFFICES ASSUME NEW i \in 1..k, NEW j \in 1..k, i < j
                   PROVE  f[i] < f[j]
        BY DEF Increasing
      <3>1. j \in 2..k
        OBVIOUS
      <3>2. CASE i = 1
        <4>1. f[j] \in T /\ f[j] # x /\ x <= f[j] /\ x \in Nat /\ f[j] \in Nat
          BY <2>2, <2>3, <2>6, <3>1
        <4> QED
          BY <2>7, <3>2, <4>1
      <3>3. CASE i \in 2..k
        <4>1. i - 1 \in 1..(k - 1) /\ j - 1 \in 1..(k - 1) /\ i - 1 < j - 1
          BY <3>1, <3>3
        <4> QED
          BY <2>5, <2>6, <3>1, <3>3, <4>1 DEF Increasing
      <3> QED
        BY <2>7, <3>2, <3>3
    <2> QED
      BY <2>8, <2>9
  <1>3. G \in SUBSET Nat
    OBVIOUS
  <1> HIDE DEF G
  <1>4. \A k \in 0..n : k \in G
    BY <1>1, <1>2, <1>3, Climb
  <1>5. n \in G
    BY <1>4
  <1> QED
    BY <1>5 DEF G

(* list_day_files returns every day file once, in order. *)
LEMMA ListingFacts ==
    ASSUME NEW S, S = listed[Followed], S \in SUBSET Days, IsFiniteSet(S)
    PROVE  /\ Cardinality(S) \in Nat
           /\ Listing \in Seq(Days) /\ Len(Listing) = Cardinality(S)
           /\ Increasing(Listing, Cardinality(S))
           /\ \A i \in 1..Cardinality(S) : Listing[i] \in S
           /\ \A y \in S : \E i \in 1..Cardinality(S) : Listing[i] = y
  <1>1. PICK n \in Nat : n = Cardinality(S)
    BY FS_CardinalityType
  <1>2. S \in SUBSET Nat
    BY JournalAssumption
  <1>3. PICK f \in [1..n -> S] : Increasing(f, n)
    BY <1>1, <1>2, SortedExists
  <1>4. ASSUME NEW g \in [1..n -> S], Increasing(g, n)
        PROVE  \A i, j \in 1..n : i # j => g[i] # g[j]
    <2> SUFFICES ASSUME NEW i \in 1..n, NEW j \in 1..n, i # j PROVE g[i] # g[j]
      OBVIOUS
    <2>1. g[i] \in Nat /\ g[j] \in Nat
      BY <1>2
    <2>2. i < j \/ j < i
      OBVIOUS
    <2> QED
      BY <1>4, <2>1, <2>2 DEF Increasing
  <1>5. SetToSeqs(S) = {g \in [1..n -> S] : \A i, j \in 1..n : i # j => g[i] # g[j]}
    BY <1>1 DEF SetToSeqs
  <1>6. f \in SetToSeqs(S) /\ \A i, j \in DOMAIN f : i < j => f[i] < f[j]
    BY <1>3, <1>4, <1>5 DEF Increasing
  <1>7. Listing \in SetToSeqs(S) /\ \A i, j \in DOMAIN Listing : i < j => Listing[i] < Listing[j]
    BY <1>6 DEF Listing
  <1>8. PICK g : g = Listing
    OBVIOUS
  <1>9. g \in [1..n -> S] /\ Increasing(g, n) /\ \A i, j \in 1..n : i # j => g[i] # g[j]
    BY <1>5, <1>7, <1>8 DEF Increasing
  <1>10. g \in Seq(Days) /\ Len(g) = n
    <2>1. g \in [1..n -> Days]
      BY <1>9
    <2> QED
      BY <2>1
  <1>11. \A y \in S : \E i \in 1..n : g[i] = y
    <2>1. g \in Injection(1..n, S)
      BY <1>9 DEF Injection, IsInjective
    <2>2. Cardinality(1..n) = n
      <3>1. 1 \in Int /\ n \in Int
        OBVIOUS
      <3> QED
        BY <3>1, FS_Interval
    <2>3. g \in Surjection(1..n, S)
      BY <1>1, <2>1, <2>2, FS_Injection
    <2> QED
      BY <2>3 DEF Surjection
  <1> QED
    BY <1>1, <1>8, <1>9, <1>10, <1>11

(* What a function into a set of naturals returns. *)
LEMMA ValuesInNat ==
    ASSUME NEW D, NEW S \in SUBSET Nat, NEW f \in [D -> S]
    PROVE  \A i \in D : f[i] \in S /\ f[i] \in Nat
  OBVIOUS

(* The days d of an earlier listing keep their places in g when only later *)
(* days were added.                                                        *)
LEMMA ListingExtends ==
    ASSUME NEW m \in Nat, NEW n \in Nat, m <= n, NEW S \in SUBSET Nat,
           NEW d \in [1..m -> S], Increasing(d, m),
           NEW g \in [1..n -> S], Increasing(g, n),
           \A y \in S : \E i \in 1..n : g[i] = y,
           \A y \in S : (\E i \in 1..m : d[i] = y) \/ \A i \in 1..m : d[i] < y
    PROVE  \A i \in 1..m : g[i] = d[i]
  <1>0. /\ \A i \in 1..m : d[i] \in S /\ d[i] \in Nat /\ i \in 1..n
        /\ \A i \in 1..n : g[i] \in S /\ g[i] \in Nat
    <2>1. \A i \in 1..m : i \in 1..n
      OBVIOUS
    <2> QED
      BY <2>1, ValuesInNat
  <1> DEFINE G == {k \in Nat : \A j \in 1..k : g[j] = d[j]}
  <1>1. 0 \in G /\ G \in SUBSET Nat
    OBVIOUS
  <1>2. ASSUME NEW k \in 1..m, k - 1 \in G
        PROVE  k \in G
    <2>0. \A j \in 1..k : j = k \/ j \in 1..(k - 1)
      OBVIOUS
    <2>1. \A j \in 1..(k - 1) : g[j] = d[j]
      BY <1>2
    <2>2. k \in 1..n /\ g[k] \in S /\ d[k] \in S /\ g[k] \in Nat /\ d[k] \in Nat
      <3> HIDE DEF G
      <3> QED
        BY <1>0
    <2>3. g[k] <= d[k]
      <3>1. PICK i \in 1..n : g[i] = d[k]
        BY <2>2
      <3>2. CASE i < k
        <4>1. i \in 1..(k - 1) /\ i \in 1..m /\ d[i] \in Nat
          <5>1. i \in 1..(k - 1) /\ i \in 1..m
            BY <3>2
          <5> HIDE DEF G
          <5> QED
            BY <1>0, <5>1
        <4>2. d[i] = d[k] /\ d[i] < d[k]
          BY <2>1, <3>1, <3>2, <4>1 DEF Increasing
        <4> QED
          BY <2>2, <4>1, <4>2
      <3>3. CASE i = k
        BY <2>2, <3>1, <3>3
      <3>4. CASE k < i
        BY <2>2, <3>1, <3>4 DEF Increasing
      <3> QED
        BY <3>2, <3>3, <3>4
    <2>4. d[k] <= g[k]
      <3>1. CASE \A i \in 1..m : d[i] < g[k]
        BY <2>2, <3>1
      <3>2. ASSUME NEW i \in 1..m, d[i] = g[k]
            PROVE  d[k] <= g[k]
        <4>1. CASE i < k
          <5>1. i \in 1..(k - 1) /\ i \in 1..n /\ g[i] \in Nat
            <6>1. i \in 1..(k - 1)
              BY <4>1
            <6> HIDE DEF G
            <6> QED
              BY <1>0, <6>1
          <5>2. g[i] = g[k] /\ g[i] < g[k]
            BY <2>1, <2>2, <3>2, <4>1, <5>1 DEF Increasing
          <5> QED
            BY <2>2, <5>1, <5>2
        <4>2. CASE i = k
          BY <2>2, <3>2, <4>2
        <4>3. CASE k < i
          BY <2>2, <3>2, <4>3 DEF Increasing
        <4> QED
          BY <4>1, <4>2, <4>3
      <3> QED
        BY <2>2, <3>1, <3>2
    <2>5. g[k] = d[k]
      BY <2>2, <2>3, <2>4
    <2> QED
      BY <2>0, <2>1, <2>5
  <1>3. \A k \in 0..m : k \in G
    <2> HIDE DEF G
    <2> QED
      BY <1>1, <1>2, Climb
  <1>4. m \in G
    BY <1>3
  <1> QED
    BY <1>4

-----------------------------------------------------------------------------
(* Where the tail stands in its last listing. *)
PlaceInv ==
    /\ IsFiniteSet(listed[Followed])
    /\ days \in Seq(Days) /\ Len(days) <= Cardinality(listed[Followed])
    /\ index \in 0..Len(days) /\ offset \in Nat
    /\ polling => index # 0
    /\ index = 0 => offset = 0

(* What the tail has handed over. *)
OutInv == Delivery(delivered, last) /\ skipped \in Nat

(* The inductive invariant of a tail beside any writer. *)
FollowInv == NumberInv /\ PlaceInv /\ OutInv /\ DeliveredIsCommitted

(* Every step is a step of Journal.tla or leaves its state alone. *)
LEMMA JournalSteps == ASSUME [TNext]_tailVars PROVE [Next]_vars
  BY DEF TNext, Write, RefreshDays, ReadDay, RestartTail, ReadRange, tailVars

(* The followed dataset has day files made of lines. *)
LEMMA FollowedFiles ==
    ASSUME TypeOK
    PROVE  /\ Followed \in Datasets /\ listed[Followed] \in SUBSET Days
           /\ \A y \in Days : file[Followed][y] \in Seq(Line)
  BY TailAssumption DEF TypeOK

(* Day files are never removed. *)
LEMMA ListedGrows ==
    ASSUME TypeOK, [Next]_vars, IsFiniteSet(listed[Followed])
    PROVE  /\ listed[Followed] \subseteq listed'[Followed]
           /\ IsFiniteSet(listed'[Followed])
           /\ Cardinality(listed[Followed]) \in Nat /\ Cardinality(listed'[Followed]) \in Nat
           /\ Cardinality(listed[Followed]) <= Cardinality(listed'[Followed])
  <1>1. listed'[Followed] = listed[Followed] \/ \E y : listed'[Followed] = listed[Followed] \cup {y}
    <2>1. CASE listed' = listed
      BY <2>1
    <2>2. ASSUME NEW p \in Procs, NEW d \in Datasets, NEW y \in Days, NEW fact \in Facts,
                 NEW part \in {"fragment", "whole"}, BeginAppend(p, d, y, fact, part)
          PROVE  \/ listed'[Followed] = listed[Followed]
                 \/ listed'[Followed] = listed[Followed] \cup {y}
      <3>1. listed' = [listed EXCEPT ![d] = listed[d] \cup {y}]
        BY <2>2 DEF BeginAppend
      <3> QED
        BY <3>1, FollowedFiles DEF TypeOK
    <2>3. \/ listed' = listed
          \/ \E p \in Procs, d \in Datasets, y \in Days, fact \in Facts,
                part \in {"fragment", "whole"} : BeginAppend(p, d, y, fact, part)
      BY DEF Next, Step, vars, Open, Truncate, QuarantineTornTail, RepairDone, FinishAppend,
             ShortWrite, Close, Crash
    <2> QED
      BY <2>1, <2>2, <2>3
  <1>2. PICK S, T : S = listed[Followed] /\ T = listed'[Followed]
    OBVIOUS
  <1>3. S \subseteq T /\ IsFiniteSet(S) /\ IsFiniteSet(T)
    BY <1>1, <1>2, FS_AddElement
  <1>4. Cardinality(S) \in Nat /\ Cardinality(T) \in Nat /\ Cardinality(S) <= Cardinality(T)
    BY <1>3, FS_CardinalityType, FS_Subset
  <1> QED
    BY <1>2, <1>3, <1>4

(* The records on complete lines of the day files F. *)
LinesOf(F) == (UNION {Range(F[y]) : y \in Days}) \ {Garbled}

(* What it means to be on disk. *)
LEMMA InLinesOf ==
    ASSUME NEW F, NEW r
    PROVE  r \in LinesOf(F) <=> r # Garbled /\ \E y \in Days : r \in Range(F[y])
  <1> DEFINE U == {Range(F[y]) : y \in Days}
  <1>1. r \in UNION U <=> \E u \in U : r \in u
    OBVIOUS
  <1>2. \A u : u \in U <=> \E y \in Days : u = Range(F[y])
    OBVIOUS
  <1>3. LinesOf(F) = (UNION U) \ {Garbled}
    BY DEF LinesOf
  <1> HIDE DEF U
  <1>4. ASSUME NEW y \in Days, r \in Range(F[y])
        PROVE  r \in UNION U
    <2>1. Range(F[y]) \in U
      BY <1>2
    <2> QED
      BY <1>1, <1>4, <2>1
  <1>5. ASSUME r \in UNION U
        PROVE  \E y \in Days : r \in Range(F[y])
    BY <1>1, <1>2, <1>5
  <1>6. r \in LinesOf(F) <=> r \in UNION U /\ r # Garbled
    BY <1>3
  <1> QED
    BY <1>4, <1>5, <1>6

(* Committed lines stay committed. *)
LEMMA OnDiskGrows ==
    ASSUME NumberInv, NumberInv', [Next]_vars
    PROVE  OnDisk \subseteq OnDisk'
  <1>1. ASSUME NEW y \in Days
        PROVE  Range(file[Followed][y]) \subseteq Range(file'[Followed][y])
    <2>1. PICK q, r : q = file[Followed][y] /\ r = file'[Followed][y]
      OBVIOUS
    <2>2. q \in Seq(Line) /\ r \in Seq(Line)
      BY <2>1, TailAssumption DEF NumberInv, Shape, TypeOK
    <2>3. Len(r) >= Len(q) /\ \A i \in DOMAIN q : r[i] = q[i]
      BY <2>1, LinesStay, TailAssumption
    <2>4. DOMAIN q \subseteq DOMAIN r
      <3>1. Len(q) \in Nat /\ Len(r) \in Nat /\ DOMAIN q = 1..Len(q) /\ DOMAIN r = 1..Len(r)
        BY <2>2, SeqOfLines
      <3> QED
        BY <2>3, <3>1
    <2>5. Range(q) \subseteq Range(r)
      BY <2>3, <2>4 DEF Range
    <2> QED
      BY <2>1, <2>5
  <1> SUFFICES ASSUME NEW r, r \in OnDisk PROVE r \in OnDisk'
    OBVIOUS
  <1>2. OnDisk = LinesOf(file[Followed]) /\ OnDisk' = LinesOf(file'[Followed])
    BY DEF OnDisk, LinesOf
  <1>3. PICK y \in Days : r \in Range(file[Followed][y]) /\ r # Garbled
    BY <1>2, InLinesOf
  <1>4. r \in Range(file'[Followed][y])
    BY <1>1, <1>3
  <1> QED
    BY <1>2, <1>3, <1>4, InLinesOf

(* What one turn of poll's loop delivers. *)
LEMMA ReadDayFacts ==
    ASSUME FollowInv, ReadDay,
           NEW q, q = file[Followed][days[index]],
           NEW c, c = Chunk(q, offset),
           NEW base, base = [out |-> delivered, last |-> last, skipped |-> skipped],
           NEW got, got = ConsumeLines(c)
    PROVE  /\ index \in 1..Len(days) /\ Len(days) \in Nat
           /\ days[index] \in Days /\ q \in Seq(Line) /\ c \in Seq(Line)
           /\ base.out = delivered /\ base.last = last /\ base.skipped = skipped
           /\ \A i \in DOMAIN c : c[i] = Garbled \/ \E j \in DOMAIN q : c[i] = q[j]
           /\ Consumed(got, base, c, Len(c))
           /\ delivered' = got.out /\ last' = got.last
           /\ UNCHANGED vars /\ days' = days
  <1>1. index \in 1..Len(days) /\ Len(days) \in Nat /\ days[index] \in Days
    <2>1. days \in Seq(Days) /\ index \in 0..Len(days) /\ index # 0
      BY DEF FollowInv, PlaceInv, ReadDay
    <2>2. Len(days) \in Nat /\ index \in 1..Len(days)
      BY <2>1
    <2> QED
      BY <2>1, <2>2
  <1>2. q \in Seq(Line)
    BY <1>1, FollowedFiles DEF FollowInv, NumberInv, Shape
  <1>3. offset \in Nat
    BY DEF FollowInv, PlaceInv
  <1>4. /\ c \in Seq(Line)
        /\ \A i \in DOMAIN c : c[i] = Garbled \/ \E j \in DOMAIN q : c[i] = q[j]
    BY <1>2, <1>3, ChunkAny
  <1>5. base.out = delivered /\ base.last = last /\ base.skipped = skipped
    OBVIOUS
  <1>6. base \in Accumulator /\ Delivery(base.out, base.last)
    <2>1. PICK S : S = Seq(Line)
      OBVIOUS
    <2>2. delivered \in S /\ last \in Nat /\ skipped \in Nat
      BY <2>1 DEF FollowInv, OutInv, Delivery
    <2>3. base \in [out : S, last : Nat, skipped : Nat]
      BY <2>2
    <2>4. Delivery(delivered, last)
      BY DEF FollowInv, OutInv
    <2> QED
      BY <1>5, <2>1, <2>3, <2>4 DEF Accumulator
  <1>7. Folded(base, c) = got
    BY DEF Folded, ConsumeLines
  <1>8. Consumed(got, base, c, Len(c))
    BY <1>4, <1>6, <1>7, ConsumeAll
  <1>9. delivered' = got.out /\ last' = got.last /\ UNCHANGED vars /\ days' = days
    BY DEF ReadDay
  <1> QED
    BY <1>1, <1>2, <1>4, <1>5, <1>8, <1>9

(* An empty root and a new tail satisfy the invariant. *)
LEMMA FollowInit == TInit => FollowInv
  <1> SUFFICES ASSUME TInit PROVE FollowInv
    OBVIOUS
  <1>1. NumberInv
    BY NumberInit DEF TInit
  <1>2. /\ days = <<>> /\ index = 0 /\ offset = 0 /\ last = 0 /\ skipped = 0
        /\ polling = FALSE /\ delivered = <<>> /\ listed[Followed] = {}
    BY TailAssumption DEF TInit, Init
  <1>3. PlaceInv
    <2>1. days \in Seq(Days) /\ Len(days) = 0
      BY <1>2
    <2>2. IsFiniteSet({}) /\ Cardinality({}) = 0
      BY FS_EmptySet
    <2>3. 0 \in 0..0 /\ 0 \in Nat /\ 0 <= 0
      OBVIOUS
    <2> QED
      BY <1>2, <2>1, <2>2, <2>3 DEF PlaceInv
  <1>4. OutInv /\ DeliveredIsCommitted
    <2>1. <<>> \in Seq(Line) /\ DOMAIN <<>> = {}
      OBVIOUS
    <2>2. OutInv
      BY <1>2, <2>1 DEF OutInv, Delivery, Rising
    <2>3. DeliveredIsCommitted
      BY <1>2, <2>1 DEF DeliveredIsCommitted, Range
    <2> QED
      BY <2>2, <2>3
  <1> QED
    BY <1>1, <1>3, <1>4 DEF FollowInv

(* A listing puts the tail on a day file that exists. *)
LEMMA RefreshPlace ==
    ASSUME FollowInv, RefreshDays
    PROVE  PlaceInv'
  <1>1. PICK S : S = listed[Followed]
    OBVIOUS
  <1>2. S \in SUBSET Days /\ IsFiniteSet(S)
    BY <1>1, FollowedFiles DEF FollowInv, PlaceInv, NumberInv, Shape
  <1>3. PICK n \in Nat : n = Cardinality(S) /\ Listing \in Seq(Days) /\ Len(Listing) = n
    BY <1>1, <1>2, ListingFacts
  <1>4. listed' = listed /\ days' = Listing /\ offset' = offset /\ polling' = (index' # 0)
    BY DEF RefreshDays, vars
  <1>5. /\ days \in Seq(Days) /\ Len(days) \in Nat /\ Len(days) <= n
        /\ index \in 0..Len(days) /\ offset \in Nat /\ (index = 0 => offset = 0)
    <2>1. /\ days \in Seq(Days) /\ Len(days) <= n
          /\ index \in 0..Len(days) /\ offset \in Nat /\ (index = 0 => offset = 0)
      BY <1>1, <1>3 DEF FollowInv, PlaceInv
    <2> QED
      BY <2>1
  <1>6. index' \in 0..n /\ (index' = 0 => index = 0)
    <2>1. index' = IF index = 0 /\ Listing # <<>> THEN 1 ELSE index
      BY DEF RefreshDays
    <2>2. Listing # <<>> => n # 0
      BY <1>3
    <2> QED
      BY <1>3, <1>5, <2>1, <2>2
  <1>7. /\ days' \in Seq(Days) /\ Len(days') = n /\ n <= Cardinality(listed'[Followed])
        /\ IsFiniteSet(listed'[Followed]) /\ offset' \in Nat
    BY <1>1, <1>2, <1>3, <1>4, <1>5
  <1>8. (polling' => index' # 0) /\ (index' = 0 => offset' = 0)
    BY <1>4, <1>5, <1>6
  <1> QED
    BY <1>6, <1>7, <1>8 DEF PlaceInv

(* A turn of the loop stays in the listing. *)
LEMMA ReadPlace ==
    ASSUME FollowInv, ReadDay
    PROVE  PlaceInv'
  <1>1. PICK q : q = file[Followed][days[index]]
    OBVIOUS
  <1>2. /\ index \in 1..Len(days) /\ Len(days) \in Nat /\ q \in Seq(Line)
        /\ UNCHANGED vars /\ days' = days
    BY <1>1, ReadDayFacts
  <1>3. offset \in Nat
    BY DEF FollowInv, PlaceInv
  <1>4. PICK total : total = Ends(q)[Len(q)]
    OBVIOUS
  <1>5. total \in Nat
    <2>1. PICK n \in Nat : n = Len(q)
      BY <1>2, SeqOfLines
    <2>2. \A i \in 0..n : Ends(q)[i] \in Nat
      BY <1>2, <2>1, EndsFacts
    <2> QED
      BY <1>4, <2>1, <2>2
  <1>6. /\ index' = (IF index + 1 <= Len(days) THEN index + 1 ELSE index)
        /\ offset' = (IF index + 1 <= Len(days) THEN 0 ELSE IF total > offset THEN total ELSE offset)
        /\ polling' = (index + 1 <= Len(days))
    BY <1>1, <1>4 DEF ReadDay
  <1>7. index' \in 0..Len(days) /\ index' # 0 /\ offset' \in Nat
    BY <1>2, <1>3, <1>5, <1>6
  <1> QED
    BY <1>2, <1>7 DEF FollowInv, PlaceInv, vars

(* A turn of the loop delivers committed records, in order. *)
LEMMA ReadDelivers ==
    ASSUME FollowInv, ReadDay
    PROVE  OutInv' /\ DeliveredIsCommitted'
  <1>1. PICK q, c, base, got :
            /\ q = file[Followed][days[index]] /\ c = Chunk(q, offset)
            /\ base = [out |-> delivered, last |-> last, skipped |-> skipped]
            /\ got = ConsumeLines(c)
    OBVIOUS
  <1>2. /\ days[index] \in Days /\ q \in Seq(Line) /\ c \in Seq(Line)
        /\ base.out = delivered
        /\ \A i \in DOMAIN c : c[i] = Garbled \/ \E j \in DOMAIN q : c[i] = q[j]
        /\ Consumed(got, base, c, Len(c))
        /\ delivered' = got.out /\ last' = got.last
        /\ UNCHANGED vars
    BY <1>1, ReadDayFacts
  <1>3. OutInv'
    <2>1. Delivery(got.out, got.last) /\ got \in Accumulator
      BY <1>2 DEF Consumed
    <2>2. got.skipped \in Nat
      BY <2>1, AccumulatorFields
    <2>3. \E k \in {0, 1} : skipped' = got.skipped + k
      BY <1>1 DEF ReadDay
    <2>4. skipped' \in Nat
      BY <2>2, <2>3
    <2>5. Delivery(delivered, last)'
      BY <1>2, <2>1 DEF Delivery, Rising
    <2> QED
      BY <2>4, <2>5 DEF OutInv
  <1>4. OnDisk' = OnDisk
    BY <1>2 DEF OnDisk, vars
  <1>5. ASSUME NEW r \in Range(got.out)
        PROVE  r \in OnDisk
    <2>1. r \in Range(delivered) \/ \E i \in 1..Len(c) : r = c[i] /\ r.seq # 0
      BY <1>2 DEF Consumed
    <2>2. CASE r \in Range(delivered)
      BY <2>2 DEF FollowInv, DeliveredIsCommitted
    <2>3. ASSUME NEW i \in 1..Len(c), r = c[i], r.seq # 0
          PROVE  r \in OnDisk
      <3>1. i \in DOMAIN c
        BY <1>2, SeqOfLines
      <3>2. r # Garbled
        BY <2>3 DEF Garbled
      <3>3. PICK j \in DOMAIN q : r = q[j]
        BY <1>2, <2>3, <3>1, <3>2
      <3>4. r \in Range(q)
        BY <3>3 DEF Range
      <3>5. PICK F : F = file[Followed]
        OBVIOUS
      <3>6. OnDisk = LinesOf(F) /\ q = F[days[index]]
        BY <1>1, <3>5 DEF OnDisk, LinesOf
      <3> QED
        BY <1>2, <3>2, <3>4, <3>6, InLinesOf
    <2> QED
      BY <2>1, <2>2, <2>3
  <1> QED
    BY <1>2, <1>3, <1>4, <1>5 DEF DeliveredIsCommitted

(* Every step keeps the invariant. *)
LEMMA FollowStep == FollowInv /\ [TNext]_tailVars => FollowInv'
  <1> SUFFICES ASSUME FollowInv, [TNext]_tailVars PROVE FollowInv'
    OBVIOUS
  <1>1. [Next]_vars
    BY JournalSteps
  <1>2. NumberInv /\ NumberInv' /\ TypeOK
    BY <1>1, NumberStep DEF FollowInv, NumberInv, Shape
  <1>3. OnDisk \subseteq OnDisk'
    BY <1>1, <1>2, OnDiskGrows
  <1>4. CASE UNCHANGED <<tailState, seen>>
    <2>1. /\ days' = days /\ index' = index /\ offset' = offset /\ last' = last
          /\ skipped' = skipped /\ polling' = polling /\ delivered' = delivered
      BY <1>4 DEF tailState
    <2>2. PlaceInv'
      <3>1. IsFiniteSet(listed[Followed])
        BY DEF FollowInv, PlaceInv
      <3>2. PICK m \in Nat, n \in Nat :
                /\ m = Cardinality(listed[Followed]) /\ n = Cardinality(listed'[Followed])
                /\ m <= n /\ IsFiniteSet(listed'[Followed])
        BY <1>1, <1>2, <3>1, ListedGrows
      <3>3. days \in Seq(Days) /\ Len(days) <= m /\ Len(days) \in Nat
        BY <3>2 DEF FollowInv, PlaceInv
      <3>4. Len(days) <= n
        BY <3>2, <3>3
      <3> QED
        BY <2>1, <3>2, <3>4 DEF FollowInv, PlaceInv
    <2>3. OutInv' /\ DeliveredIsCommitted'
      BY <1>3, <2>1 DEF FollowInv, OutInv, Delivery, Rising, DeliveredIsCommitted
    <2> QED
      BY <1>2, <2>2, <2>3 DEF FollowInv
  <1>5. CASE RefreshDays
    <2>1. last' = last /\ skipped' = skipped /\ delivered' = delivered
      BY <1>5 DEF RefreshDays
    <2>2. OutInv' /\ DeliveredIsCommitted'
      BY <1>3, <2>1 DEF FollowInv, OutInv, Delivery, Rising, DeliveredIsCommitted
    <2> QED
      BY <1>2, <1>5, <2>2, RefreshPlace DEF FollowInv
  <1>6. CASE ReadDay
    BY <1>2, <1>6, ReadPlace, ReadDelivers DEF FollowInv
  <1>7. CASE RestartTail
    <2>1. /\ days' = <<>> /\ index' = 0 /\ offset' = 0 /\ skipped' = 0 /\ polling' = FALSE
          /\ last' = last /\ delivered' = delivered /\ listed' = listed
      BY <1>7 DEF RestartTail, vars
    <2>2. PlaceInv'
      <3>1. days' \in Seq(Days) /\ Len(days') = 0
        BY <2>1
      <3>2. IsFiniteSet(listed[Followed]) /\ Cardinality(listed[Followed]) \in Nat
        BY FS_CardinalityType DEF FollowInv, PlaceInv
      <3>3. 0 \in 0..0 /\ 0 \in Nat /\ 0 <= Cardinality(listed[Followed])
        BY <3>2
      <3> QED
        BY <2>1, <3>1, <3>2, <3>3 DEF PlaceInv
    <2>3. OutInv' /\ DeliveredIsCommitted'
      BY <1>3, <2>1 DEF FollowInv, OutInv, Delivery, Rising, DeliveredIsCommitted
    <2> QED
      BY <1>2, <2>2, <2>3 DEF FollowInv
  <1>8. CASE ReadRange
    <2>1. /\ days' = days /\ index' = index /\ offset' = offset /\ last' = last
          /\ skipped' = skipped /\ polling' = polling /\ delivered' = delivered /\ listed' = listed
      BY <1>8 DEF ReadRange, tailState, vars
    <2>2. PlaceInv'
      BY <2>1 DEF FollowInv, PlaceInv
    <2>3. OutInv' /\ DeliveredIsCommitted'
      BY <1>3, <2>1 DEF FollowInv, OutInv, Delivery, Rising, DeliveredIsCommitted
    <2> QED
      BY <1>2, <2>2, <2>3 DEF FollowInv
  <1>9. \/ UNCHANGED <<tailState, seen>>
        \/ RefreshDays \/ ReadDay \/ RestartTail \/ ReadRange
    BY DEF TNext, Write, tailVars
  <1> QED
    BY <1>4, <1>5, <1>6, <1>7, <1>8, <1>9

(* Records are delivered once each, in seq order, over all polls and       *)
(* restarts, whatever the writers do: poll compares every line with        *)
(* last_seq.                                                               *)
THEOREM TailIsInOrder == TSpec => []TailInOrder
  <1>1. FollowInv => TailInOrder
    BY DEF FollowInv, OutInv, Delivery, Rising, TailInOrder
  <1> QED
    BY <1>1, FollowInit, FollowStep, PTL DEF TSpec

(* What a tail hands over is a complete line of the journal and stays one: *)
(* no repair takes back a delivered record.                                *)
THEOREM DeliveredStaysCommitted == TSpec => []DeliveredIsCommitted
  <1>1. FollowInv => DeliveredIsCommitted
    BY DEF FollowInv
  <1> QED
    BY <1>1, FollowInit, FollowStep, PTL DEF TSpec

-----------------------------------------------------------------------------
(* From here on: a tail beside one writer that only moves forward and      *)
(* writes whole lines.                                                     *)

(* The complete lines of a day of the followed dataset. *)
Lines(y) == file[Followed][y]

(* The day being written is the newest one listed: only it has bytes       *)
(* behind its last newline.                                                *)
NewestInv ==
    /\ \A p \in Procs : (phase[p] = "write" /\ job[p].ds = Followed) =>
           job[p].day \in listed[Followed] /\ \A y \in listed[Followed] : y <= job[p].day
    /\ \A y \in Days : tail[Followed][y].kind # "none" => \A z \in listed[Followed] : z <= y
    /\ \A y \in Days : DOMAIN Lines(y) # {} => y \in listed[Followed]

(* Seqs rise from day to day. *)
DayOrder ==
    /\ \A y \in Days : \A i \in DOMAIN Lines(y) : Lines(y)[i].seq # 0
    /\ \A y, z \in Days : y < z =>
           \A i \in DOMAIN Lines(y), j \in DOMAIN Lines(z) : Lines(y)[i].seq < Lines(z)[j].seq

(* The last listing is a prefix of what a listing would return now. *)
DaysInv ==
    /\ Increasing(days, Len(days))
    /\ \A i \in 1..Len(days) : days[i] \in listed[Followed]
    /\ \A y \in listed[Followed] : (\E i \in 1..Len(days) : days[i] = y)
                                   \/ \A i \in 1..Len(days) : days[i] < y

(* The tail stands at the end of a line, and what lies before it in the    *)
(* order of days and lines is numbered at or below last_seq.               *)
Passed(F, x, o, n) ==
    /\ \A y \in Days : y < x => \A i \in DOMAIN F[y] : F[y][i].seq <= n
    /\ \E k \in 0..Len(F[x]) : o = Ends(F[x])[k] /\ \A i \in 1..k : F[x][i].seq <= n

(* A tail that stands somewhere has passed what lies before. *)
PassedInv == index # 0 => Passed(file[Followed], days[index], offset, last)

(* The inductive invariant of a tail beside such a writer. *)
CaughtInv ==
    /\ FollowInv /\ LedgerInv /\ NewestInv /\ DayOrder
    /\ DaysInv /\ PassedInv /\ TailMissesNothing /\ SkipsNothing

(* A line appended to the followed dataset, in the newest day file. *)
AppendsTo(y, line) ==
    /\ OneLineMore(Followed, y, line)
    /\ y \in listed[Followed] /\ \A z \in listed[Followed] : z <= y
    /\ line.seq \in Nat /\ line.seq # 0
    /\ \A z \in Days : \A i \in DOMAIN Lines(z) : Lines(z)[i].seq < line.seq

(* Every seq on disk is at most the one the writer resumes from. *)
LEMMA SeqsBelowResume ==
    ASSUME NumberInv, NEW d \in Datasets, NEW y \in Days, NEW i \in DOMAIN file[d][y]
    PROVE  ResumeSeq(d) \in Nat /\ file[d][y][i].seq \in Nat /\ file[d][y][i].seq <= ResumeSeq(d)
  <1>1. ResumeSeq(d) \in 0..MaxSeq /\ IsTop(ResumeSeq(d), SeqsOnDisk(d))
    BY ResumeSeqIsTop DEF NumberInv
  <1>2. file[d][y] \in Seq(Line)
    BY DEF NumberInv, Shape, TypeOK
  <1>3. file[d][y][i].seq \in 0..MaxSeq
    <2>1. file[d][y][i] \in Line
      BY <1>2, SeqOfLines
    <2> QED
      BY <2>1, LineFields
  <1>4. file[d][y][i].seq # 0 => file[d][y][i].seq \in SeqsOnDisk(d)
    BY <1>3, JournalAssumption DEF SeqsOnDisk
  <1> QED
    BY <1>1, <1>3, <1>4, JournalAssumption DEF IsTop

(* A step appends one line to the newest day, or leaves the files alone. *)
LEMMA FileCases ==
    ASSUME ~ShortWrites, LedgerInv, NewestInv, [Next]_vars
    PROVE  file'[Followed] = file[Followed] \/ \E y \in Days, line \in Line : AppendsTo(y, line)
  <1>1. CASE \A p \in Procs : ~FinishAppend(p)
    BY <1>1, OtherStepsKeepFiles
  <1>2. ASSUME NEW p \in Procs, FinishAppend(p)
        PROVE  file'[Followed] = file[Followed] \/ \E y \in Days, line \in Line : AppendsTo(y, line)
    <2>1. PICK d, y, line : d = job[p].ds /\ y = job[p].day /\ line = job[p].line
      OBVIOUS
    <2>2. OneLineMore(d, y, line)
      BY <1>2, <2>1, AppendFile DEF LedgerInv, NumberInv
    <2>3. /\ d \in Datasets /\ y \in Days /\ line \in Line
          /\ \A e \in Datasets, z \in Days : (e # d \/ z # y) => file'[e][z] = file[e][z]
      BY <2>2 DEF OneLineMore
    <2>4. CASE d # Followed
      <3>1. file' = [file EXCEPT ![d][y] = Append(file[d][y], line)]
        BY <1>2, <2>1 DEF FinishAppend
      <3>2. file \in [Datasets -> [Days -> Seq(Line)]]
        BY DEF LedgerInv, NumberInv, Shape, TypeOK
      <3> QED
        BY <2>3, <2>4, <3>1, <3>2, TailAssumption
    <2>5. CASE d = Followed
      <3>1. phase[p] = "write"
        BY <1>2 DEF FinishAppend
      <3>2. y \in listed[Followed] /\ \A z \in listed[Followed] : z <= y
        BY <2>1, <2>5, <3>1 DEF NewestInv
      <3>3. line.seq = ResumeSeq(Followed) + 1 /\ ResumeSeq(Followed) \in 0..(MaxSeq - 1)
        BY <1>2, <2>1, <2>5, AppendCommits
      <3>4. line.seq \in Nat /\ line.seq # 0
        BY <3>3, JournalAssumption
      <3>5. ASSUME NEW z \in Days, NEW i \in DOMAIN Lines(z)
            PROVE  Lines(z)[i].seq < line.seq
        <4>1. /\ ResumeSeq(Followed) \in Nat /\ file[Followed][z][i].seq \in Nat
              /\ file[Followed][z][i].seq <= ResumeSeq(Followed)
          BY <3>5, SeqsBelowResume, TailAssumption DEF LedgerInv, Lines
        <4>2. file[Followed][z][i].seq < line.seq
          BY <3>3, <4>1
        <4> QED
          BY <4>2 DEF Lines
      <3> QED
        BY <2>2, <2>3, <2>5, <3>2, <3>4, <3>5 DEF AppendsTo
    <2> QED
      BY <2>4, <2>5
  <1> QED
    BY <1>1, <1>2

(* A new day file is the newest. *)
LEMMA ListedForward ==
    ASSUME TypeOK, [Next]_vars, listed' = listed \/ Forward
    PROVE  /\ listed[Followed] \subseteq listed'[Followed]
           /\ \A y \in listed'[Followed] : y \in listed[Followed]
                                           \/ \A z \in listed[Followed] : z <= y
  <1>1. CASE listed' = listed
    BY <1>1
  <1>2. ASSUME NEW p \in Procs, NEW d \in Datasets, NEW y \in Days, NEW fact \in Facts,
               NEW part \in {"fragment", "whole"}, BeginAppend(p, d, y, fact, part), Forward
        PROVE  /\ listed[Followed] \subseteq listed'[Followed]
               /\ \A x \in listed'[Followed] : x \in listed[Followed]
                                               \/ \A z \in listed[Followed] : z <= x
    <2>1. listed' = [listed EXCEPT ![d] = listed[d] \cup {y}] /\ phase[p] = "open"
      BY <1>2 DEF BeginAppend
    <2>2. phase'[p] = "write"
      BY <1>2 DEF BeginAppend, TypeOK
    <2>3. job'[p].ds = d /\ job'[p].day = y
      BY <1>2 DEF BeginAppend, TypeOK
    <2>4. \A z \in listed[d] : z <= y
      BY <1>2, <2>1, <2>2, <2>3 DEF Forward
    <2>5. listed'[Followed] = IF d = Followed THEN listed[Followed] \cup {y} ELSE listed[Followed]
      BY <2>1, TailAssumption DEF TypeOK
    <2> QED
      BY <2>4, <2>5
  <1>3. \/ listed' = listed
        \/ \E p \in Procs, d \in Datasets, y \in Days, fact \in Facts,
              part \in {"fragment", "whole"} : BeginAppend(p, d, y, fact, part)
    BY DEF Next, Step, vars, Open, Truncate, QuarantineTornTail, RepairDone, FinishAppend,
           ShortWrite, Close, Crash
  <1> QED
    BY <1>1, <1>2, <1>3

(* The newest day stays the one being written. *)
LEMMA NewestStep ==
    ASSUME ~ShortWrites, LedgerInv, LedgerInv', NewestInv, (Next /\ Forward) \/ UNCHANGED vars
    PROVE  NewestInv'
  <1>0. TypeOK /\ TypeOK' /\ SingleWriter /\ Followed \in Datasets
    BY TailAssumption DEF LedgerInv, NumberInv, Shape
  <1>n. [Next]_vars /\ (listed' = listed \/ Forward)
    BY DEF vars
  <1>1. \A y \in Days : DOMAIN Lines(y)' # {} => y \in listed'[Followed]
    <2>1. listed[Followed] \subseteq listed'[Followed]
      BY <1>0, <1>n, ListedForward
    <2>2. CASE file'[Followed] = file[Followed]
      BY <2>1, <2>2 DEF NewestInv, Lines
    <2>3. ASSUME NEW z \in Days, NEW line \in Line, AppendsTo(z, line)
          PROVE  \A y \in Days : DOMAIN Lines(y)' # {} => y \in listed'[Followed]
      <3>1. /\ z \in listed[Followed]
            /\ \A y \in Days : y # z => file'[Followed][y] = file[Followed][y]
        BY <1>0, <2>3 DEF AppendsTo, OneLineMore
      <3> QED
        BY <2>1, <3>1 DEF NewestInv, Lines
    <2> QED
      BY <1>n, <2>2, <2>3, FileCases
  <1> DEFINE WriterIsNewest ==
                 \A p \in Procs : (phase'[p] = "write" /\ job'[p].ds = Followed) =>
                     job'[p].day \in listed'[Followed] /\ \A y \in listed'[Followed] : y <= job'[p].day
             TailIsNewest ==
                 \A y \in Days : tail'[Followed][y].kind # "none" =>
                     \A z \in listed'[Followed] : z <= y
  <1>2. CASE UNCHANGED vars
    BY <1>2 DEF NewestInv, vars, Lines
  <1>3. ASSUME NEW p \in Procs,
               Open(p) \/ QuarantineTornTail(p) \/ RepairDone(p) \/ ShortWrite(p) \/ Close(p) \/ Crash(p)
        PROVE  WriterIsNewest /\ TailIsNewest
    <2>1. tail' = tail /\ listed' = listed
      BY <1>3 DEF Open, QuarantineTornTail, RepairDone, ShortWrite, Close, Crash
    <2>2. \A q \in Procs : phase'[q] = "write" => phase[q] = "write" /\ job'[q] = job[q]
      BY <1>0, <1>3 DEF TypeOK, Open, QuarantineTornTail, RepairDone, ShortWrite, Close, Crash, Leave
    <2> QED
      BY <2>1, <2>2 DEF NewestInv
  <1>4. ASSUME NEW p \in Procs, NEW d \in Datasets, NEW y \in Days, Truncate(p, d, y)
        PROVE  WriterIsNewest /\ TailIsNewest
    <2>1. /\ listed' = listed /\ tail' = [tail EXCEPT ![d][y] = NoTail]
          /\ phase' = [phase EXCEPT ![p] = "save"]
          /\ \A q \in Procs : q # p => job'[q] = job[q]
      BY <1>0, <1>4 DEF Truncate, TypeOK
    <2>2. \A q \in Procs : phase'[q] = "write" => phase[q] = "write" /\ job'[q] = job[q]
      BY <1>0, <2>1 DEF TypeOK
    <2>3. \A z \in Days : tail'[Followed][z].kind # "none" => tail[Followed][z].kind # "none"
      BY <1>0, <2>1 DEF TypeOK, NoTail
    <2> QED
      BY <2>1, <2>2, <2>3 DEF NewestInv
  <1>5. ASSUME NEW p \in Procs, NEW d \in Datasets, NEW y \in Days, NEW fact \in Facts,
               NEW part \in {"fragment", "whole"}, BeginAppend(p, d, y, fact, part), Forward
        PROVE  WriterIsNewest /\ TailIsNewest
    <2>1. /\ phase[p] = "open" /\ phase' = [phase EXCEPT ![p] = "write"]
          /\ listed' = [listed EXCEPT ![d] = listed[d] \cup {y}]
      BY <1>5 DEF BeginAppend
    <2>2. job'[p].ds = d /\ job'[p].day = y /\ phase'[p] = "write"
      BY <1>0, <1>5 DEF BeginAppend, TypeOK
    <2>3. \A q \in Procs : phase'[q] = "write" => q = p
      BY <1>0, <2>1 DEF TypeOK, SingleWriter
    <2>4. y \in listed'[d] /\ \A z \in listed'[d] : z <= y
      <3>1. listed'[d] = listed[d] \cup {y} /\ y \in Nat
        BY <1>0, <2>1, JournalAssumption DEF TypeOK
      <3>2. \A z \in listed[d] : z <= y
        BY <1>5, <2>1, <2>2 DEF Forward
      <3> QED
        BY <3>1, <3>2
    <2>5. \A e \in Datasets, z \in Days : tail'[e][z].kind # "none" => e = d /\ z = y
      <3>1. TailInv'
        BY DEF LedgerInv
      <3> QED
        BY <2>2, <3>1 DEF TailInv
    <2> QED
      BY <1>0, <2>2, <2>3, <2>4, <2>5
  <1>6. ASSUME NEW p \in Procs, FinishAppend(p)
        PROVE  WriterIsNewest /\ TailIsNewest
    <2>1. listed' = listed /\ phase[p] = "write" /\ phase' = [phase EXCEPT ![p] = "open"]
      BY <1>6 DEF FinishAppend
    <2>2. \A q \in Procs : phase'[q] # "write"
      BY <1>0, <2>1 DEF TypeOK, SingleWriter
    <2>3. phase'[p] = "open"
      BY <1>0, <2>1 DEF TypeOK
    <2>4. \A e \in Datasets, z \in Days : tail'[e][z].kind = "none"
      <3>1. TailInv'
        BY DEF LedgerInv
      <3> QED
        BY <2>3, <3>1 DEF TailInv
    <2> QED
      BY <1>0, <2>2, <2>4
  <1>7. (WriterIsNewest /\ TailIsNewest) \/ UNCHANGED vars
    BY <1>3, <1>4, <1>5, <1>6 DEF Next, Step
  <1> QED
    BY <1>1, <1>2, <1>7 DEF NewestInv

(* The lines of one day file. *)
LEMMA LinesTyped ==
    ASSUME NumberInv, NEW y \in Days
    PROVE  /\ Lines(y) \in Seq(Line) /\ Len(Lines(y)) \in Nat /\ DOMAIN Lines(y) = 1..Len(Lines(y))
           /\ \A i \in DOMAIN Lines(y) : Lines(y)[i] \in Line /\ Lines(y)[i].seq \in Nat
  <1>1. Lines(y) \in Seq(Line)
    BY FollowedFiles DEF NumberInv, Shape, Lines
  <1> QED
    BY <1>1, SeqOfLines

(* The seqs of the days keep following one another. *)
LEMMA DayOrderStep ==
    ASSUME ~ShortWrites, LedgerInv, NewestInv, DayOrder, [Next]_vars
    PROVE  DayOrder'
  <1>1. CASE file'[Followed] = file[Followed]
    BY <1>1 DEF DayOrder, Lines
  <1>2. ASSUME NEW x \in Days, NEW line \in Line, AppendsTo(x, line)
        PROVE  DayOrder'
    <2>1. PICK n \in Nat :
              /\ DOMAIN Lines(x) = 1..n /\ DOMAIN Lines(x)' = 1..(n + 1)
              /\ \A i \in 1..n : Lines(x)'[i] = Lines(x)[i]
              /\ Lines(x)'[n + 1] = line
      BY <1>2 DEF AppendsTo, OneLineMore, Lines
    <2>2. \A y \in Days : y # x => Lines(y)' = Lines(y)
      BY <1>2 DEF AppendsTo, OneLineMore, Lines
    <2>3. \A y \in Days : \A i \in DOMAIN Lines(y)' :
              \/ i \in DOMAIN Lines(y) /\ Lines(y)'[i] = Lines(y)[i]
              \/ y = x /\ Lines(y)'[i] = line
      <3>1. \A i \in 1..(n + 1) : i \in 1..n \/ i = n + 1
        OBVIOUS
      <3> QED
        BY <2>1, <2>2, <3>1
    <2>4. line.seq # 0 /\ \A y \in Days : \A i \in DOMAIN Lines(y) : Lines(y)[i].seq < line.seq
      BY <1>2 DEF AppendsTo
    <2>5. \A y \in Days : DOMAIN Lines(y) # {} => y <= x
      BY <1>2 DEF AppendsTo, NewestInv
    <2>6. \A y \in Days : \A i \in DOMAIN Lines(y)' : Lines(y)'[i].seq # 0
      BY <2>3, <2>4 DEF DayOrder
    <2>7. ASSUME NEW y \in Days, NEW z \in Days, y < z,
                 NEW i \in DOMAIN Lines(y)', NEW j \in DOMAIN Lines(z)'
          PROVE  Lines(y)'[i].seq < Lines(z)'[j].seq
      <3>1. x \in Nat /\ y \in Nat /\ z \in Nat
        BY JournalAssumption
      <3>2. CASE y = x
        <4>1. z # x /\ Lines(z)' = Lines(z) /\ ~(z <= x)
          BY <2>2, <2>7, <3>1, <3>2
        <4> QED
          BY <2>5, <2>7, <4>1
      <3>3. CASE y # x /\ z = x
        <4>1. Lines(y)' = Lines(y)
          BY <2>2, <3>3
        <4>2. \/ j \in DOMAIN Lines(x) /\ Lines(x)'[j] = Lines(x)[j]
              \/ Lines(x)'[j] = line
          BY <2>3, <2>7, <3>3
        <4> QED
          BY <2>4, <2>7, <3>3, <4>1, <4>2 DEF DayOrder
      <3>4. CASE y # x /\ z # x
        BY <2>2, <2>7, <3>4 DEF DayOrder
      <3> QED
        BY <3>2, <3>3, <3>4
    <2> QED
      BY <2>6, <2>7 DEF DayOrder
  <1> QED
    BY <1>1, <1>2, FileCases

(* A writer adds day files behind those listed. *)
LEMMA WriteKeepsDays ==
    ASSUME TypeOK, TypeOK', DaysInv, Next, Forward, days' = days
    PROVE  DaysInv'
  <1>1. /\ listed[Followed] \subseteq listed'[Followed]
        /\ \A y \in listed'[Followed] : y \in listed[Followed] \/ \A z \in listed[Followed] : z <= y
    BY ListedForward
  <1>2. Increasing(days, Len(days)) /\ \A i \in 1..Len(days) : days[i] \in listed[Followed]
    BY DEF DaysInv
  <1>3. ASSUME NEW y \in listed'[Followed]
        PROVE  (\E i \in 1..Len(days) : days[i] = y) \/ \A i \in 1..Len(days) : days[i] < y
    <2>1. CASE y \in listed[Followed]
      BY <2>1 DEF DaysInv
    <2>2. CASE \A z \in listed[Followed] : z <= y
      <3>1. \A i \in 1..Len(days) : days[i] <= y
        BY <1>2, <2>2
      <3>2. y \in Nat /\ \A i \in 1..Len(days) : days[i] \in Nat
        <4>1. listed[Followed] \subseteq Nat
          BY FollowedFiles, JournalAssumption
        <4>2. y \in Nat
          BY <1>3, JournalAssumption, TailAssumption DEF TypeOK
        <4> QED
          BY <1>2, <4>1, <4>2
      <3> QED
        BY <3>1, <3>2
    <2> QED
      BY <1>1, <2>1, <2>2
  <1> QED
    BY <1>1, <1>2, <1>3 DEF DaysInv

(* PassedInv in the next state. *)
LEMMA PassedPrimed ==
    PassedInv' <=> (index' # 0 => Passed(file'[Followed], days'[index'], offset', last'))
  BY DEF PassedInv, Passed, Ends, Width

(* What has been passed is not written to any more, except at its end. *)
LEMMA WriteKeepsPassed ==
    ASSUME ~ShortWrites, CaughtInv, NumberInv', [Next]_vars,
           days' = days, index' = index, offset' = offset, last' = last
    PROVE  PassedInv'
  <1> SUFFICES ASSUME index # 0 PROVE PassedInv'
    BY PassedPrimed
  <1>0. LedgerInv /\ NewestInv /\ NumberInv /\ DaysInv /\ PassedInv
    BY DEF CaughtInv, FollowInv
  <1>1. PICK x \in Days : x = days[index] /\ x \in listed[Followed]
    <2>1. days \in Seq(Days) /\ index \in 0..Len(days)
      BY DEF CaughtInv, FollowInv, PlaceInv
    <2>2. index \in 1..Len(days)
      BY <2>1
    <2> QED
      BY <1>0, <2>1, <2>2 DEF DaysInv
  <1>2. \A y \in Days : y < x => Lines(y)' = Lines(y)
    <2>1. CASE file'[Followed] = file[Followed]
      BY <2>1 DEF Lines
    <2>2. ASSUME NEW z \in Days, NEW line \in Line, AppendsTo(z, line)
          PROVE  \A y \in Days : y < x => Lines(y)' = Lines(y)
      <3>1. x <= z /\ \A y \in Days : y # z => Lines(y)' = Lines(y)
        BY <1>1, <2>2, TailAssumption DEF AppendsTo, OneLineMore, Lines
      <3>2. \A y \in Days : y \in Nat
        BY JournalAssumption
      <3> QED
        BY <1>1, <3>1, <3>2
    <2> QED
      BY <1>0, <2>1, <2>2, FileCases
  <1>3. PICK q, r : q = Lines(x) /\ r = Lines(x)'
    OBVIOUS
  <1>4. q \in Seq(Line) /\ r \in Seq(Line)
    BY <1>0, <1>3, TailAssumption DEF Lines, NumberInv, Shape, TypeOK
  <1>5. Len(q) <= Len(r) /\ \A i \in DOMAIN q : r[i] = q[i]
    <2>1. Len(r) >= Len(q) /\ \A i \in DOMAIN q : r[i] = q[i]
      BY <1>0, <1>3, LinesStay, TailAssumption DEF Lines
    <2> QED
      BY <1>4, <2>1, SeqOfLines
  <1>6. PICK m \in Nat, n \in Nat : m = Len(q) /\ n = Len(r) /\ m <= n /\ DOMAIN q = 1..m
    BY <1>4, <1>5, SeqOfLines
  <1>7. \A i \in 0..m : Ends(r)[i] = Ends(q)[i]
    BY <1>4, <1>5, <1>6, EndsStable
  <1>p. Passed(file[Followed], x, offset, last)
    BY <1>0, <1>1 DEF PassedInv
  <1>8. PICK k \in 0..m : offset = Ends(q)[k] /\ \A i \in 1..k : q[i].seq <= last
    BY <1>3, <1>6, <1>p DEF Passed, Lines
  <1>9. k \in 0..n /\ offset = Ends(r)[k] /\ \A i \in 1..k : r[i].seq <= last
    <2>1. \A i \in 1..k : r[i] = q[i]
      BY <1>5, <1>6
    <2> QED
      BY <1>6, <1>7, <1>8, <2>1
  <1>10. Passed(file'[Followed], x, offset, last)
    <2>1. \A y \in Days : y < x => \A i \in DOMAIN file'[Followed][y] : file'[Followed][y][i].seq <= last
      BY <1>2, <1>p DEF Passed, Lines
    <2>2. r = file'[Followed][x]
      BY <1>3 DEF Lines
    <2> QED
      BY <1>6, <1>9, <2>1, <2>2 DEF Passed
  <1> QED
    BY <1>1, <1>10, PassedPrimed

(* A new record is numbered above everything delivered. *)
LEMMA WriteMissesNothing ==
    ASSUME ~ShortWrites, CaughtInv, [Next]_vars, last' = last, delivered' = delivered
    PROVE  TailMissesNothing'
  <1>0. LedgerInv /\ NewestInv /\ NumberInv /\ TailMissesNothing
    BY DEF CaughtInv, FollowInv
  <1>1. CASE file'[Followed] = file[Followed]
    BY <1>0, <1>1 DEF TailMissesNothing, OnDisk
  <1>2. ASSUME NEW x \in Days, NEW line \in Line, AppendsTo(x, line)
        PROVE  TailMissesNothing'
    <2>1. ~(line.seq <= last)
      <3>1. last \in Nat /\ (last = 0 \/ \E i \in DOMAIN delivered : delivered[i].seq = last)
        BY DEF CaughtInv, FollowInv, OutInv, Delivery
      <3>2. line.seq \in Nat /\ line.seq # 0
        BY <1>2 DEF AppendsTo
      <3>3. ASSUME NEW i \in DOMAIN delivered, delivered[i].seq = last
            PROVE  last < line.seq
        <4>1. delivered[i] \in OnDisk
          BY <3>3 DEF CaughtInv, FollowInv, DeliveredIsCommitted, Range
        <4>2. PICK F : F = file[Followed]
          OBVIOUS
        <4>3. OnDisk = LinesOf(F)
          BY <4>2 DEF OnDisk, LinesOf
        <4>4. PICK y \in Days : delivered[i] \in Range(F[y])
          BY <4>1, <4>3, InLinesOf
        <4>5. PICK j \in DOMAIN Lines(y) : delivered[i] = Lines(y)[j]
          BY <4>2, <4>4 DEF Range, Lines
        <4> QED
          BY <1>2, <3>3, <4>5 DEF AppendsTo
      <3> QED
        BY <3>1, <3>2, <3>3
    <2>2. PICK F, H : F = file[Followed] /\ H = file'[Followed]
      OBVIOUS
    <2>3. OnDisk = LinesOf(F) /\ OnDisk' = LinesOf(H)
      BY <2>2 DEF OnDisk, LinesOf
    <2>4. ASSUME NEW r \in OnDisk'
          PROVE  r \in OnDisk \/ r = line
      <3>1. PICK y \in Days : r \in Range(H[y]) /\ r # Garbled
        BY <2>3, <2>4, InLinesOf
      <3>2. PICK i \in DOMAIN H[y] : r = H[y][i]
        BY <3>1 DEF Range
      <3>3. CASE y # x
        <4>1. H[y] = F[y]
          BY <1>2, <2>2, <3>3, TailAssumption DEF AppendsTo, OneLineMore
        <4> QED
          BY <2>3, <3>1, <4>1, InLinesOf
      <3>4. CASE y = x
        <4>1. PICK n \in Nat : /\ DOMAIN F[x] = 1..n /\ DOMAIN H[x] = 1..(n + 1)
                               /\ (\A j \in 1..n : H[x][j] = F[x][j]) /\ H[x][n + 1] = line
          BY <1>2, <2>2 DEF AppendsTo, OneLineMore
        <4>2. CASE i = n + 1
          BY <3>2, <3>4, <4>1, <4>2
        <4>3. CASE i \in 1..n
          <5>1. r \in Range(F[x])
            BY <3>2, <3>4, <4>1, <4>3 DEF Range
          <5> QED
            BY <2>3, <3>1, <5>1, InLinesOf
        <4>4. i = n + 1 \/ i \in 1..n
          BY <3>2, <3>4, <4>1
        <4> QED
          BY <4>2, <4>3, <4>4
      <3> QED
        BY <3>3, <3>4
    <2> QED
      BY <1>0, <2>1, <2>4 DEF TailMissesNothing
  <1> QED
    BY <1>0, <1>1, <1>2, FileCases

(* A fresh listing has every day file, and the tail keeps its place in it. *)
LEMMA RefreshKeeps ==
    ASSUME CaughtInv, RefreshDays
    PROVE  DaysInv' /\ PassedInv'
  <1>0. /\ NumberInv /\ TypeOK /\ NewestInv /\ DaysInv /\ PassedInv /\ PlaceInv
        /\ \A y \in Days : y \in Nat
    BY JournalAssumption DEF CaughtInv, FollowInv, NumberInv, Shape
  <1>1. PICK S \in SUBSET Nat : S = listed[Followed] /\ S \in SUBSET Days /\ IsFiniteSet(S)
    BY <1>0, FollowedFiles DEF PlaceInv
  <1>2. PICK g : g = Listing
    OBVIOUS
  <1>3. PICK n \in Nat : /\ n = Cardinality(S) /\ g \in Seq(Days) /\ Len(g) = n
                         /\ Increasing(g, n)
                         /\ \A i \in 1..n : g[i] \in S
                         /\ \A y \in S : \E i \in 1..n : g[i] = y
    BY <1>1, <1>2, ListingFacts
  <1>4. /\ days' = g /\ offset' = offset /\ last' = last /\ listed' = listed /\ file' = file
        /\ index' = IF index = 0 /\ g # <<>> THEN 1 ELSE index
    BY <1>2 DEF RefreshDays, vars
  <1>5. DaysInv'
    BY <1>1, <1>3, <1>4 DEF DaysInv
  <1>6. \A y \in Days : DOMAIN Lines(y) # {} => y \in S
    BY <1>0, <1>1 DEF NewestInv
  <1>7. CASE index' = 0
    BY <1>5, <1>7, PassedPrimed
  <1>8. CASE index = 0 /\ index' # 0
    <2>1. index' = 1 /\ n # 0 /\ 1 \in 1..n
      BY <1>3, <1>4, <1>8
    <2>2. PICK x \in Days : x = g[1]
      BY <1>3, <2>1
    <2>3. ASSUME NEW y \in Days, y < x
          PROVE  DOMAIN Lines(y) = {}
      <3>1. ASSUME y \in S
            PROVE  FALSE
        <4>1. PICK i \in 1..n : g[i] = y
          BY <1>3, <3>1
        <4>2. i = 1 \/ 1 < i
          OBVIOUS
        <4>3. x \in Nat /\ y \in Nat
          BY <1>0
        <4> QED
          BY <1>3, <2>1, <2>2, <2>3, <4>1, <4>2, <4>3 DEF Increasing
      <3> QED
        BY <1>6, <3>1
    <2>4. PICK q : q = Lines(x)
      OBVIOUS
    <2>5. PICK m \in Nat : m = Len(q) /\ q \in Seq(Line)
      BY <1>0, <2>4, LinesTyped
    <2>6. offset = Ends(q)[0]
      <3>1. Ends(q)[0] = 0
        BY <2>5, EndsFacts
      <3> QED
        BY <1>0, <1>8, <3>1 DEF PlaceInv
    <2>7. \E k \in 0..Len(q) : offset = Ends(q)[k] /\ \A i \in 1..k : q[i].seq <= last
      <3>1. 0 \in 0..Len(q) /\ 1..0 = {}
        BY <2>5
      <3> QED
        BY <2>6, <3>1
    <2>8. Passed(file[Followed], x, offset, last)
      BY <2>3, <2>4, <2>7 DEF Passed, Lines
    <2> QED
      BY <1>4, <1>5, <2>1, <2>2, <2>8, PassedPrimed
  <1>9. CASE index # 0
    <2>1. PICK m \in Nat : m = Len(days) /\ days \in Seq(Days) /\ m <= n /\ index \in 1..m
      <3>1. days \in Seq(Days) /\ Len(days) <= n /\ index \in 0..Len(days)
        BY <1>0, <1>1, <1>3 DEF PlaceInv
      <3> QED
        BY <1>9, <3>1
    <2>2. days \in [1..m -> S] /\ g \in [1..n -> S]
      <3>1. DOMAIN days = 1..m /\ days = [i \in DOMAIN days |-> days[i]]
        BY <2>1
      <3>2. \A i \in 1..m : days[i] \in S
        BY <1>0, <1>1, <2>1 DEF DaysInv
      <3>3. DOMAIN g = 1..n /\ g = [i \in DOMAIN g |-> g[i]]
        BY <1>3
      <3> QED
        BY <1>3, <3>1, <3>2, <3>3
    <2>3. /\ Increasing(days, m)
          /\ \A y \in S : (\E i \in 1..m : days[i] = y) \/ \A i \in 1..m : days[i] < y
      BY <1>0, <1>1, <2>1 DEF DaysInv
    <2>4. \A i \in 1..m : g[i] = days[i]
      <3>1. S \in SUBSET Nat /\ m \in Nat /\ n \in Nat /\ m <= n
        BY <1>1, <2>1
      <3>2. Increasing(g, n) /\ \A y \in S : \E i \in 1..n : g[i] = y
        BY <1>3
      <3> QED
        BY <2>2, <2>3, <3>1, <3>2, ListingExtends
    <2>5. days'[index'] = days[index] /\ index' = index
      BY <1>4, <1>9, <2>1, <2>4
    <2> QED
      BY <1>0, <1>4, <1>5, <1>9, <2>5, PassedPrimed DEF PassedInv
  <1> QED
    BY <1>5, <1>7, <1>8, <1>9

(* A turn of poll's loop: what it reads, and that it skips nothing. *)
LEMMA ReadConsumes ==
    ASSUME CaughtInv, ReadDay, NEW x, x = days[index], NEW q, q = Lines(x), NEW n, n = Len(q)
    PROVE  /\ x \in Days /\ q \in Seq(Line) /\ n \in Nat /\ index \in 1..Len(days) /\ Len(days) \in Nat
           /\ DOMAIN q = 1..n /\ UNCHANGED vars /\ days' = days
           /\ last \in Nat /\ last' \in Nat /\ last <= last' /\ skipped' = 0
           /\ Range(delivered) \subseteq Range(delivered')
           /\ last' = last \/ \E i \in 1..n : last' = q[i].seq
           /\ \A i \in 1..n : q[i].seq \in Nat /\ q[i].seq <= last'
           /\ \A i \in 1..n : q[i].seq > last => q[i] \in Range(delivered')
  <1>0. /\ FollowInv /\ NumberInv /\ NewestInv /\ DayOrder /\ DaysInv /\ PassedInv
        /\ skipped = 0 /\ polling
    BY DEF CaughtInv, FollowInv, SkipsNothing, ReadDay
  <1>1. PICK c, base, got :
            /\ c = Chunk(q, offset)
            /\ base = [out |-> delivered, last |-> last, skipped |-> skipped]
            /\ got = ConsumeLines(c)
    OBVIOUS
  <1>2. /\ index \in 1..Len(days) /\ Len(days) \in Nat /\ x \in Days /\ q \in Seq(Line)
        /\ c \in Seq(Line)
        /\ base.out = delivered /\ base.last = last /\ base.skipped = skipped
        /\ Consumed(got, base, c, Len(c))
        /\ delivered' = got.out /\ last' = got.last
        /\ UNCHANGED vars /\ days' = days
    BY <1>0, <1>1, ReadDayFacts DEF Lines
  <1>3. n \in Nat /\ DOMAIN q = 1..n /\ \A i \in 1..n : q[i] \in Line /\ q[i].seq \in Nat
    BY <1>2, SeqOfLines
  <1>4. PICK k \in 0..n : offset = Ends(q)[k] /\ \A i \in 1..k : q[i].seq <= last
    <2>1. Passed(file[Followed], x, offset, last)
      BY <1>0, <1>2 DEF PassedInv
    <2>2. q = file[Followed][x]
      BY DEF Lines
    <2> QED
      BY <2>1, <2>2 DEF Passed
  <1>5. Len(c) = n - k /\ \A i \in 1..(n - k) : c[i] = q[k + i]
    <2>1. c = Chunk(q, Ends(q)[k])
      BY <1>1, <1>4
    <2>2. n \in Nat /\ q \in Seq(Line) /\ k \in 0..n
      BY <1>2, <1>3, <1>4
    <2> QED
      BY <2>1, <2>2, ChunkAt
  <1>6. DOMAIN c = 1..(n - k) /\ \A i \in 1..(n - k) : k + i \in 1..n
    BY <1>2, <1>3, <1>5
  <1>7. \A i \in DOMAIN q : q[i].seq # 0
    BY <1>0, <1>2 DEF DayOrder
  <1>8. \A i \in DOMAIN c : c[i].seq # 0
    BY <1>3, <1>5, <1>6, <1>7
  <1>9. Rising(q)
    <2>1. q = file[Followed][x] /\ Followed \in Datasets
      BY TailAssumption DEF Lines
    <2> QED
      BY <1>0, <1>2, <1>7, <2>1 DEF NumberInv, FileInSeqOrder, Rising
  <1>10. Rising(c)
    <2> SUFFICES ASSUME NEW i \in 1..(n - k), NEW j \in 1..(n - k), i < j
                 PROVE  c[i].seq < c[j].seq
      BY <1>6 DEF Rising
    <2>1. k + i \in DOMAIN q /\ k + j \in DOMAIN q /\ k + i < k + j
      BY <1>3, <1>6
    <2>2. q[k + i].seq < q[k + j].seq
      BY <1>9, <2>1 DEF Rising
    <2> QED
      BY <1>5, <2>2
  <1>11. /\ got.skipped = base.skipped
         /\ got.last = base.last \/ \E i \in 1..Len(c) : got.last = c[i].seq
         /\ \A i \in 1..Len(c) : /\ c[i].seq <= got.last
                                 /\ c[i].seq > base.last => c[i] \in Range(got.out)
    BY <1>2, <1>8, <1>10 DEF Consumed
  <1>12. got \in Accumulator /\ base.last <= got.last /\ Range(base.out) \subseteq Range(got.out)
    BY <1>2 DEF Consumed
  <1>13. last \in Nat /\ last' \in Nat /\ last <= last'
    <2>1. last \in Nat
      BY <1>0 DEF FollowInv, OutInv, Delivery
    <2> QED
      BY <1>2, <1>12, <2>1, AccumulatorFields
  <1>14. last' = last \/ \E i \in 1..n : last' = q[i].seq
    BY <1>2, <1>5, <1>6, <1>11
  <1>15. ASSUME NEW i \in 1..n
         PROVE  q[i].seq \in Nat /\ q[i].seq <= last' /\ (q[i].seq > last => q[i] \in Range(delivered'))
    <2>1. CASE i <= k
      <3>1. i \in 1..k
        BY <1>3, <2>1
      <3>2. q[i].seq \in Nat /\ q[i].seq <= last
        BY <1>3, <1>4, <3>1
      <3> QED
        BY <1>13, <3>2
    <2>2. CASE i > k
      <3>1. PICK j \in 1..(n - k) : i = k + j
        <4>1. i - k \in 1..(n - k) /\ i = k + (i - k)
          BY <1>3, <2>2
        <4> QED
          BY <4>1
      <3>2. c[j] = q[i] /\ j \in 1..Len(c)
        BY <1>5, <3>1
      <3> QED
        BY <1>2, <1>3, <1>11, <3>2
    <2> QED
      BY <1>3, <2>1, <2>2
  <1>16. skipped' = 0
    <2>1. ASSUME index + 1 <= Len(days), tail[Followed][x].kind # "none"
          PROVE  FALSE
      <3>1. \A z \in listed[Followed] : z <= x
        BY <1>0, <1>2, <2>1 DEF NewestInv
      <3>2. index + 1 \in 1..Len(days) /\ index < index + 1
        BY <1>2, <2>1
      <3>3. days[index + 1] \in listed[Followed] /\ x < days[index + 1]
        BY <1>0, <1>2, <3>2 DEF DaysInv, Increasing
      <3>4. x \in Nat /\ days[index + 1] \in Nat
        <4>1. listed[Followed] \subseteq Days
          BY <1>0, FollowedFiles DEF NumberInv, Shape
        <4> QED
          BY <1>2, <3>3, <4>1, JournalAssumption
      <3> QED
        BY <3>1, <3>3, <3>4
    <2>2. skipped' = got.skipped + (IF index + 1 <= Len(days) /\ tail[Followed][x].kind # "none"
                                    THEN 1 ELSE 0)
      BY <1>1 DEF ReadDay, Lines
    <2>3. got.skipped = 0
      BY <1>0, <1>2, <1>11
    <2> QED
      BY <2>1, <2>2, <2>3
  <1>17. Range(delivered) \subseteq Range(delivered')
    BY <1>2, <1>12
  <1> QED
    BY <1>2, <1>3, <1>13, <1>14, <1>15, <1>16, <1>17

(* After a turn, the whole file is passed. *)
LEMMA ReadPasses ==
    ASSUME CaughtInv, ReadDay
    PROVE  PassedInv'
  <1>0. NumberInv /\ NewestInv /\ DaysInv /\ PassedInv /\ \A y \in Days : y \in Nat
    BY JournalAssumption DEF CaughtInv, FollowInv
  <1>1. PICK x, q, n : x = days[index] /\ q = Lines(x) /\ n = Len(q)
    OBVIOUS
  <1>2. /\ x \in Days /\ q \in Seq(Line) /\ n \in Nat /\ index \in 1..Len(days) /\ Len(days) \in Nat
        /\ DOMAIN q = 1..n /\ UNCHANGED vars /\ days' = days
        /\ last \in Nat /\ last' \in Nat /\ last <= last'
        /\ \A i \in 1..n : q[i].seq <= last'
    BY <1>1, ReadConsumes
  <1>3. q = file[Followed][x] /\ file' = file
    BY <1>1, <1>2 DEF Lines, vars
  <1>4. Passed(file[Followed], x, offset, last)
    BY <1>0, <1>1, <1>2 DEF PassedInv
  <1>5. PICK total : total = Ends(q)[n]
    OBVIOUS
  <1>6. PICK k \in 0..n : offset = Ends(q)[k]
    BY <1>1, <1>3, <1>4 DEF Passed
  <1>7. /\ Ends(q)[0] = 0 /\ total \in Nat /\ offset \in Nat
        /\ k = n => offset = total
        /\ k # n => total > offset
    <2>1. /\ Ends(q)[0] = 0
          /\ \A i \in 0..n : Ends(q)[i] \in Nat
          /\ \A i, j \in 0..n : i < j => Ends(q)[i] < Ends(q)[j]
      BY <1>1, <1>2, EndsFacts
    <2>2. n \in 0..n /\ (k # n => k < n)
      BY <1>2, <1>6
    <2>3. total \in Nat /\ offset \in Nat /\ (k # n => offset < total)
      BY <1>5, <1>6, <2>1, <2>2
    <2> QED
      BY <1>5, <1>6, <2>1, <2>3
  <1>8. \A y \in Days : y <= x => \A i \in DOMAIN file[Followed][y] : file[Followed][y][i].seq <= last'
    <2> SUFFICES ASSUME NEW y \in Days, y <= x, NEW i \in DOMAIN file[Followed][y]
                 PROVE  file[Followed][y][i].seq <= last'
      OBVIOUS
    <2>1. CASE y = x
      BY <1>2, <1>3, <2>1
    <2>2. CASE y < x
      <3>1. file[Followed][y][i].seq <= last
        BY <1>4, <2>2 DEF Passed
      <3>2. file[Followed][y][i].seq \in Nat
        BY <1>0, LinesTyped DEF Lines
      <3> QED
        BY <1>2, <3>1, <3>2
    <2>3. y = x \/ y < x
      BY <1>0, <1>2
    <2> QED
      BY <2>1, <2>2, <2>3
  <1>9. CASE index + 1 <= Len(days)
    <2>1. index' = index + 1 /\ offset' = 0
      BY <1>9 DEF ReadDay
    <2>2. index + 1 \in 1..Len(days) /\ index < index + 1
      BY <1>2, <1>9
    <2>3. PICK z \in Days : z = days[index + 1] /\ z \in listed[Followed] /\ x < z
      <3>1. days[index + 1] \in listed[Followed] /\ x < days[index + 1]
        BY <1>0, <1>1, <1>2, <2>2 DEF DaysInv, Increasing
      <3>2. listed[Followed] \subseteq Days
        BY <1>0, FollowedFiles DEF NumberInv, Shape
      <3> QED
        BY <3>1, <3>2
    <2>4. ASSUME NEW y \in Days, y < z
          PROVE  \A i \in DOMAIN file[Followed][y] : file[Followed][y][i].seq <= last'
      <3>1. CASE y <= x
        BY <1>8, <3>1
      <3>2. CASE x < y
        <4>1. y \notin listed[Followed]
          <5> SUFFICES ASSUME y \in listed[Followed] PROVE FALSE
            OBVIOUS
          <5>1. ~(\A i \in 1..Len(days) : days[i] < y)
            BY <1>0, <2>2, <2>3, <2>4
          <5>2. PICK i \in 1..Len(days) : days[i] = y
            BY <1>0, <5>1 DEF DaysInv
          <5>3. ~(i < index) /\ i # index
            BY <1>0, <1>1, <1>2, <3>2, <5>2 DEF DaysInv, Increasing
          <5>4. i = index + 1 \/ index + 1 < i
            BY <1>2, <5>2, <5>3
          <5> QED
            BY <1>0, <2>2, <2>3, <2>4, <5>2, <5>4 DEF DaysInv, Increasing
        <4> QED
          BY <1>0, <4>1 DEF NewestInv, Lines
      <3> QED
        BY <1>0, <1>2, <3>1, <3>2
    <2>5. PICK r \in Seq(Line) : r = file[Followed][z]
      BY <1>0, LinesTyped DEF Lines
    <2>6. Passed(file[Followed], z, 0, last')
      <3>1. PICK m \in Nat : m = Len(r)
        BY <2>5, SeqOfLines
      <3>2. Ends(r)[0] = 0
        BY <2>5, <3>1, EndsFacts
      <3>3. 0 \in 0..Len(r) /\ 1..0 = {}
        BY <3>1
      <3> QED
        BY <2>4, <2>5, <3>2, <3>3 DEF Passed
    <2> QED
      BY <1>2, <1>3, <2>1, <2>3, <2>6, PassedPrimed
  <1>10. CASE ~(index + 1 <= Len(days))
    <2>1. index' = index /\ offset' = IF total > offset THEN total ELSE offset
      BY <1>1, <1>3, <1>5, <1>10 DEF ReadDay
    <2>2. offset' = total
      BY <1>7, <2>1
    <2>3. Passed(file[Followed], x, total, last')
      <3>1. \A y \in Days : y < x => y <= x
        BY <1>0, <1>2
      <3>2. n \in 0..n
        BY <1>2
      <3> QED
        BY <1>1, <1>2, <1>3, <1>5, <1>8, <3>1, <3>2 DEF Passed
    <2> QED
      BY <1>1, <1>2, <1>3, <2>1, <2>2, <2>3, PassedPrimed
  <1> QED
    BY <1>9, <1>10

(* A turn delivers every record of its file up to the new last_seq, and    *)
(* the records of later days are numbered above it.                        *)
LEMMA ReadMissesNothing ==
    ASSUME CaughtInv, ReadDay
    PROVE  TailMissesNothing'
  <1>0. /\ NumberInv /\ DayOrder /\ PassedInv /\ TailMissesNothing
        /\ \A y \in Days : y \in Nat
    BY JournalAssumption DEF CaughtInv, FollowInv
  <1>1. PICK x, q, n : x = days[index] /\ q = Lines(x) /\ n = Len(q)
    OBVIOUS
  <1>2. /\ x \in Days /\ q \in Seq(Line) /\ n \in Nat /\ index \in 1..Len(days) /\ Len(days) \in Nat
        /\ DOMAIN q = 1..n /\ UNCHANGED vars
        /\ last \in Nat /\ last' \in Nat /\ last <= last'
        /\ Range(delivered) \subseteq Range(delivered')
        /\ last' = last \/ \E i \in 1..n : last' = q[i].seq
        /\ \A i \in 1..n : q[i].seq \in Nat /\ q[i].seq <= last'
        /\ \A i \in 1..n : q[i].seq > last => q[i] \in Range(delivered')
    BY <1>1, ReadConsumes
  <1>3. Passed(file[Followed], x, offset, last)
    BY <1>0, <1>1, <1>2 DEF PassedInv
  <1>4. PICK F : F = file[Followed]
    OBVIOUS
  <1>5. OnDisk' = OnDisk /\ OnDisk = LinesOf(F)
    BY <1>2, <1>4 DEF OnDisk, LinesOf, vars
  <1> SUFFICES ASSUME NEW r \in OnDisk, r.seq <= last'
               PROVE  r \in Range(delivered')
    BY <1>5 DEF TailMissesNothing
  <1>6. PICK y \in Days : r \in Range(F[y])
    BY <1>5, InLinesOf
  <1>7. PICK j \in DOMAIN Lines(y) : r = Lines(y)[j]
    BY <1>4, <1>6 DEF Range, Lines
  <1>8. r.seq \in Nat
    BY <1>0, <1>7, LinesTyped
  <1>9. CASE r.seq <= last
    BY <1>0, <1>2, <1>9 DEF TailMissesNothing
  <1>10. CASE r.seq > last
    <2>1. CASE y < x
      <3>1. r.seq <= last
        BY <1>3, <1>7, <2>1 DEF Passed, Lines
      <3> QED
        BY <1>2, <1>8, <1>10, <3>1
    <2>2. CASE y = x
      BY <1>1, <1>2, <1>7, <1>10, <2>2
    <2>3. CASE x < y
      <3>1. last' # last
        BY <1>2, <1>8, <1>10
      <3>2. PICK i \in 1..n : last' = q[i].seq
        BY <1>2, <3>1
      <3>3. q[i].seq < r.seq
        BY <1>0, <1>1, <1>2, <1>7, <2>3 DEF DayOrder
      <3> QED
        BY <1>2, <1>8, <3>2, <3>3
    <2> QED
      BY <1>0, <1>2, <2>1, <2>2, <2>3
  <1> QED
    BY <1>2, <1>8, <1>9, <1>10

(* Nothing is on disk and nothing has been passed. *)
LEMMA CaughtInit == TInit => CaughtInv
  <1> SUFFICES ASSUME TInit PROVE CaughtInv
    OBVIOUS
  <1>1. FollowInv /\ LedgerInv
    BY FollowInit, LedgerInit DEF TInit
  <1>2. /\ days = <<>> /\ index = 0 /\ skipped = 0 /\ listed[Followed] = {}
        /\ \A y \in Days : file[Followed][y] = <<>>
        /\ \A y \in Days : tail[Followed][y].kind = "none"
        /\ \A p \in Procs : phase[p] = "out"
    BY TailAssumption DEF TInit, Init, NoTail
  <1>3. \A y \in Days : DOMAIN Lines(y) = {}
    BY <1>2 DEF Lines
  <1>4. NewestInv /\ DayOrder
    BY <1>2, <1>3 DEF NewestInv, DayOrder
  <1>5. DaysInv
    <2>1. Len(days) = 0 /\ 1..0 = {}
      BY <1>2
    <2> QED
      BY <1>2, <2>1 DEF DaysInv, Increasing
  <1>6. PassedInv /\ SkipsNothing
    BY <1>2 DEF PassedInv, SkipsNothing
  <1>7. TailMissesNothing
    <2>1. PICK F : F = file[Followed]
      OBVIOUS
    <2>2. OnDisk = LinesOf(F) /\ \A y \in Days : DOMAIN F[y] = {}
      BY <1>3, <2>1 DEF OnDisk, LinesOf, Lines
    <2>3. ASSUME NEW r \in OnDisk
          PROVE  FALSE
      <3>1. PICK y \in Days : r \in Range(F[y])
        BY <2>2, <2>3, InLinesOf
      <3> QED
        BY <2>2, <3>1 DEF Range
    <2> QED
      BY <2>3 DEF TailMissesNothing
  <1> QED
    BY <1>1, <1>4, <1>5, <1>6, <1>7 DEF CaughtInv

(* Every step beside a forward writer without short writes keeps the       *)
(* invariant.                                                              *)
LEMMA CaughtStep ==
    ASSUME ~ShortWrites, ~Backfills
    PROVE  CaughtInv /\ [TNext]_tailVars => CaughtInv'
  <1> SUFFICES ASSUME CaughtInv, [TNext]_tailVars PROVE CaughtInv'
    OBVIOUS
  <1>1. [Next]_vars
    BY JournalSteps
  <1>2. FollowInv /\ FollowInv' /\ LedgerInv /\ LedgerInv'
    BY <1>1, FollowStep, LedgerInvStep DEF CaughtInv
  <1>3. NewestInv /\ DayOrder /\ DaysInv /\ PassedInv /\ TailMissesNothing /\ SkipsNothing
    BY DEF CaughtInv
  <1>4. DayOrder'
    BY <1>1, <1>2, <1>3, DayOrderStep
  <1>5. (Next /\ Forward) \/ UNCHANGED vars
    BY DEF TNext, Write, RefreshDays, ReadDay, RestartTail, ReadRange, tailVars
  <1>6. NewestInv'
    BY <1>2, <1>3, <1>5, NewestStep
  <1>7. TypeOK /\ TypeOK' /\ NumberInv'
    BY <1>2 DEF FollowInv, NumberInv, Shape
  <1>8. CASE Write
    <2>1. /\ days' = days /\ index' = index /\ offset' = offset /\ last' = last
          /\ skipped' = skipped /\ delivered' = delivered
      BY <1>8 DEF Write, tailState
    <2>2. Next /\ Forward
      BY <1>8 DEF Write
    <2>3. DaysInv'
      BY <1>3, <1>7, <2>1, <2>2, WriteKeepsDays
    <2>4. PassedInv'
      BY <1>1, <1>7, <2>1, WriteKeepsPassed
    <2>5. TailMissesNothing'
      BY <1>1, <2>1, WriteMissesNothing
    <2>6. SkipsNothing'
      BY <1>3, <2>1 DEF SkipsNothing
    <2> QED
      BY <1>2, <1>4, <1>6, <2>3, <2>4, <2>5, <2>6 DEF CaughtInv
  <1>9. CASE RefreshDays
    <2>1. last' = last /\ skipped' = skipped /\ delivered' = delivered
      BY <1>9 DEF RefreshDays
    <2>2. TailMissesNothing'
      BY <1>1, <2>1, WriteMissesNothing
    <2>3. SkipsNothing'
      BY <1>3, <2>1 DEF SkipsNothing
    <2> QED
      BY <1>2, <1>4, <1>6, <1>9, <2>2, <2>3, RefreshKeeps DEF CaughtInv
  <1>10. CASE ReadDay
    <2>1. PICK x, q, n : x = days[index] /\ q = Lines(x) /\ n = Len(q)
      OBVIOUS
    <2>2. UNCHANGED vars /\ days' = days /\ skipped' = 0
      BY <1>10, <2>1, ReadConsumes
    <2>3. DaysInv' /\ SkipsNothing'
      BY <1>3, <2>2 DEF DaysInv, SkipsNothing, Increasing, vars
    <2> QED
      BY <1>2, <1>4, <1>6, <1>10, <2>3, ReadPasses, ReadMissesNothing DEF CaughtInv
  <1>11. CASE RestartTail
    <2>1. /\ days' = <<>> /\ index' = 0 /\ skipped' = 0 /\ last' = last /\ delivered' = delivered
      BY <1>11 DEF RestartTail
    <2>2. DaysInv'
      <3>1. Len(days') = 0 /\ 1..0 = {}
        BY <2>1
      <3>2. Increasing(days', 0)
        BY <3>1 DEF Increasing
      <3> QED
        BY <3>1, <3>2 DEF DaysInv, Increasing
    <2>3. PassedInv'
      BY <2>1, PassedPrimed
    <2>4. TailMissesNothing'
      BY <1>1, <2>1, WriteMissesNothing
    <2>5. SkipsNothing'
      BY <2>1 DEF SkipsNothing
    <2> QED
      BY <1>2, <1>4, <1>6, <2>2, <2>3, <2>4, <2>5 DEF CaughtInv
  <1>12. CASE UNCHANGED <<vars, tailState>>
    <2>1. /\ days' = days /\ index' = index /\ offset' = offset /\ last' = last
          /\ skipped' = skipped /\ delivered' = delivered /\ listed' = listed
      BY <1>12 DEF tailState, vars
    <2>2. DaysInv' /\ SkipsNothing'
      BY <1>3, <2>1 DEF DaysInv, Increasing, SkipsNothing
    <2>3. PassedInv'
      BY <1>1, <1>7, <2>1, WriteKeepsPassed
    <2>4. TailMissesNothing'
      BY <1>1, <2>1, WriteMissesNothing
    <2> QED
      BY <1>2, <1>4, <1>6, <2>2, <2>3, <2>4 DEF CaughtInv
  <1>13. \/ Write \/ RefreshDays \/ ReadDay \/ RestartTail \/ UNCHANGED <<vars, tailState>>
    BY DEF TNext, ReadRange, tailVars
  <1> QED
    BY <1>8, <1>9, <1>10, <1>11, <1>12, <1>13

(* Beside a writer that moves forward and writes whole lines, a tail       *)
(* passes over no record, though fragments come and go under it, writers   *)
(* die and repair, and day files appear between its listings.              *)
THEOREM TailIsComplete ==
    ASSUME ~ShortWrites, ~Backfills
    PROVE  TSpec => []TailMissesNothing
  <1>1. CaughtInv => TailMissesNothing
    BY DEF CaughtInv
  <1> QED
    BY <1>1, CaughtInit, CaughtStep, PTL DEF TSpec

(* And it gives up on no line. *)
THEOREM TailSkipsNothing ==
    ASSUME ~ShortWrites, ~Backfills
    PROVE  TSpec => []SkipsNothing
  <1>1. CaughtInv => SkipsNothing
    BY DEF CaughtInv
  <1> QED
    BY <1>1, CaughtInit, CaughtStep, PTL DEF TSpec
=============================================================================
