---------------------------- MODULE IngestProofs ----------------------------
(***************************************************************************)
(* Machine-checked proofs about Ingest.tla, for every set of processes,    *)
(* keys and batches and every bound: what collect_once and `hub backfill`  *)
(* journal when no two of them work on a dataset at the same time.         *)
(***************************************************************************)
EXTENDS Ingest, SequenceTheorems, FiniteSetTheorems, WellFoundedInduction, TLAPS

(* Records have keys, revisions and instants; payloads may be anything. *)
RecordSet(S) == \A r \in S : r.key \in Keys /\ r.rev \in Nat /\ r.at \in Int

(* The last of a set of positions. *)
Newest(T) == CHOOSE i \in T : \A j \in T : j <= i

(* The history and the index that the first n records of a log, or all of  *)
(* them, amount to when they are taken in the order they were journalled.  *)
Hist(log, n) ==
    [k \in Keys |-> LET mine == OfKey(log, 1..n, k)
                    IN IF mine = {} THEN None ELSE log[Newest(mine)].pay]
Idx(log) ==
    [k \in Keys |-> [rev |-> Cardinality(OfKey(log, 1..Len(log), k)), pay |-> Hist(log, Len(log))[k]]]

(* RevisionsContiguous and NoEchoes, of any log. *)
Revised(log) ==
    \A i \in 1..Len(log) : log[i].rev = Cardinality(OfKey(log, 1..(i - 1), log[i].key)) + 1
Fresh(log) ==
    \A i, j \in 1..Len(log) :
        (j < i /\ log[j].key = log[i].key /\ log[j].rev = log[i].rev - 1) => log[j].pay # log[i].pay

(* Records stand in the order of their known_at. *)
Timely(log) == \A i, j \in 1..Len(log) : i < j => log[i].at <= log[j].at

(* They stand in sort_key order, and each was derived from those before it.*)
Sorted(log) == \A i, j \in 1..Len(log) : i < j => SortsBefore(log, i, j)
Derived(log) ==
    \A i \in 1..Len(log) :
        log[i].pay = Derive(log[i].pay.val, Before(Hist(log, i - 1), log[i].key))

-----------------------------------------------------------------------------
(* A set of positions has a last one. *)
LEMMA NewestIsLast ==
    ASSUME NEW n \in Nat, NEW T \in SUBSET (1..n), T # {}
    PROVE  Newest(T) \in T /\ \A j \in T : j <= Newest(T)
  <1> DEFINE Less == {ss \in Nat \X Nat : ss[1] < ss[2]}
             below == {n - i : i \in T}
  <1>1. IsWellFoundedOn(Less, Nat)
    BY NatLessThanWellFounded DEF OpToRel
  <1>2. below \subseteq Nat /\ below # {}
    <2>1. PICK i \in T : TRUE
      OBVIOUS
    <2>2. n - i \in below
      OBVIOUS
    <2> QED
      BY <2>2
  <1>3. PICK b \in below : \A c \in below : ~(<<c, b>> \in Less)
    <2> HIDE DEF Less, below
    <2> QED
      BY <1>1, <1>2, WFMin
  <1>4. PICK i \in T : b = n - i
    BY <1>3
  <1>5. ASSUME NEW j \in T
        PROVE  j <= i
    <2>1. b \in Nat /\ n - j \in below /\ n - j \in Nat /\ <<n - j, b>> \in Nat \X Nat
      BY <1>2, <1>3
    <2>2. ~(n - j < b)
      BY <1>3, <2>1
    <2> QED
      BY <1>4, <2>1, <2>2
  <1> QED
    BY <1>5 DEF Newest

(* The records of a key are finitely many. *)
LEMMA OfKeyFinite ==
    ASSUME NEW log, NEW n \in Nat, NEW k
    PROVE  /\ OfKey(log, 1..n, k) \in SUBSET (1..n)
           /\ IsFiniteSet(OfKey(log, 1..n, k))
           /\ Cardinality(OfKey(log, 1..n, k)) \in Nat
  <1>1. OfKey(log, 1..n, k) \in SUBSET (1..n)
    BY DEF OfKey
  <1>2. IsFiniteSet(1..n)
    BY FS_Interval
  <1>3. IsFiniteSet(OfKey(log, 1..n, k))
    BY <1>1, <1>2, FS_Subset
  <1> QED
    BY <1>1, <1>3, FS_CardinalityType

(* One more record of a key: one more to count. *)
LEMMA OfKeyNext ==
    ASSUME NEW log, NEW n \in Nat, n >= 1, NEW k, log[n].key = k
    PROVE  /\ OfKey(log, 1..n, k) = OfKey(log, 1..(n - 1), k) \cup {n}
           /\ Cardinality(OfKey(log, 1..n, k)) = Cardinality(OfKey(log, 1..(n - 1), k)) + 1
  <1>1. n - 1 \in Nat
    OBVIOUS
  <1>2. OfKey(log, 1..n, k) = OfKey(log, 1..(n - 1), k) \cup {n}
    BY DEF OfKey
  <1>3. n \notin OfKey(log, 1..(n - 1), k)
    BY <1>1 DEF OfKey
  <1>4. IsFiniteSet(OfKey(log, 1..(n - 1), k))
    BY <1>1, OfKeyFinite
  <1> QED
    BY <1>2, <1>3, <1>4, FS_AddElement

(* assign: the revisions of a key grow along the log. *)
LEMMA RevisionsGrow ==
    ASSUME NEW S, RecordSet(S), NEW log \in Seq(S), Revised(log),
           NEW i \in 1..Len(log), NEW j \in 1..Len(log), i < j, log[i].key = log[j].key
    PROVE  log[i].rev < log[j].rev
  <1> DEFINE k == log[i].key
  <1>1. Len(log) \in Nat /\ i \in Nat /\ j \in Nat /\ i >= 1 /\ j - 1 \in Nat /\ i - 1 \in Nat
    BY LenProperties
  <1>2. OfKey(log, 1..i, k) \subseteq OfKey(log, 1..(j - 1), k)
    BY <1>1 DEF OfKey
  <1>3. Cardinality(OfKey(log, 1..i, k)) = Cardinality(OfKey(log, 1..(i - 1), k)) + 1
    BY <1>1, OfKeyNext
  <1>4. /\ IsFiniteSet(OfKey(log, 1..(j - 1), k))
        /\ Cardinality(OfKey(log, 1..i, k)) \in Nat /\ Cardinality(OfKey(log, 1..(j - 1), k)) \in Nat
    BY <1>1, OfKeyFinite
  <1>5. Cardinality(OfKey(log, 1..i, k)) <= Cardinality(OfKey(log, 1..(j - 1), k))
    BY <1>2, <1>4, FS_Subset
  <1>6. /\ log[i].rev = Cardinality(OfKey(log, 1..(i - 1), k)) + 1
        /\ log[j].rev = Cardinality(OfKey(log, 1..(j - 1), k)) + 1
    BY DEF Revised
  <1> HIDE DEF k
  <1> QED
    BY <1>3, <1>4, <1>5, <1>6

(* rebuild_from: of a log whose revisions are contiguous, the index of its *)
(* last records.                                                           *)
LEMMA RebuiltIsIdx ==
    ASSUME NEW S, RecordSet(S), NEW log \in Seq(S), Revised(log)
    PROVE  RebuiltIndex(log) = Idx(log)
  <1>0. Len(log) \in Nat /\ DOMAIN log = 1..Len(log)
    BY LenProperties
  <1> DEFINE mine(k) == OfKey(log, 1..Len(log), k)
             top(k)  == {i \in mine(k) : \A j \in mine(k) : log[j].rev <= log[i].rev}
             best(k) == CHOOSE i \in top(k) : \A j \in top(k) \ {i} : SortsBefore(log, i, j)
  <1>1. ASSUME NEW k \in Keys, mine(k) # {}
        PROVE  /\ best(k) = Newest(mine(k)) /\ best(k) \in 1..Len(log)
               /\ log[best(k)].rev = Cardinality(mine(k))
    <2> DEFINE m == Newest(mine(k))
    <2>1. m \in mine(k) /\ (\A j \in mine(k) : j <= m) /\ mine(k) \in SUBSET (1..Len(log))
      <3>1. mine(k) \in SUBSET (1..Len(log))
        BY <1>0, OfKeyFinite
      <3> QED
        BY <1>0, <1>1, <3>1, NewestIsLast
    <2> HIDE DEF m
    <2>2. m \in 1..Len(log) /\ log[m].key = k /\ m \in Nat /\ m >= 1
      BY <2>1 DEF OfKey
    <2>3. ASSUME NEW j \in mine(k), j # m
          PROVE  log[j].rev < log[m].rev
      <3>1. j \in 1..Len(log) /\ log[j].key = k /\ j < m
        BY <2>1, <2>2, <2>3 DEF OfKey
      <3> QED
        BY <2>2, <3>1, RevisionsGrow
    <2>4. \A j \in 1..Len(log) : log[j].rev \in Nat
      BY LenProperties, ElementOfSeq DEF RecordSet
    <2>5. top(k) = {m}
      BY <2>1, <2>3, <2>4
    <2>6. best(k) = m
      BY <2>5
    <2>7. mine(k) = OfKey(log, 1..m, k)
      BY <2>1, <2>2 DEF OfKey
    <2>8. Cardinality(mine(k)) = Cardinality(OfKey(log, 1..(m - 1), k)) + 1
      BY <2>2, <2>7, OfKeyNext
    <2> QED
      BY <2>2, <2>6, <2>8 DEF m, Revised
  <1>2. ASSUME NEW k \in Keys
        PROVE  RebuiltIndex(log)[k] = Idx(log)[k]
    <2>1. RebuiltIndex(log)[k] = IF mine(k) = {} THEN Unseen ELSE [rev |-> log[best(k)].rev, pay |-> log[best(k)].pay]
      BY <1>0 DEF RebuiltIndex
    <2>2. Idx(log)[k] = [rev |-> Cardinality(mine(k)),
                         pay |-> IF mine(k) = {} THEN None ELSE log[Newest(mine(k))].pay]
      BY DEF Idx, Hist
    <2>3. CASE mine(k) = {}
      BY <2>1, <2>2, <2>3, FS_EmptySet DEF Unseen
    <2>4. CASE mine(k) # {}
      <3> HIDE DEF mine, best
      <3> QED
        BY <1>1, <2>1, <2>2, <2>4
    <2> QED
      BY <2>3, <2>4
  <1>3. RebuiltIndex(log) = [k \in Keys |-> RebuiltIndex(log)[k]] /\ Idx(log) = [k \in Keys |-> Idx(log)[k]]
    BY DEF RebuiltIndex, Idx
  <1> QED
    BY <1>2, <1>3

(* ScopeHistory, upserted in sort_key order: each key's last payload, when *)
(* the log is in the order of known_at.                                    *)
LEMMA UpsertedIsHist ==
    ASSUME NEW S, RecordSet(S), NEW log \in Seq(S), Revised(log), Timely(log), NEW n \in 0..Len(log)
    PROVE  Upserted(log, 1..n) = Hist(log, n)
  <1>0. Len(log) \in Nat /\ n \in Nat /\ n <= Len(log)
    BY LenProperties
  <1> DEFINE mine(k) == OfKey(log, 1..n, k)
             best(k) == CHOOSE i \in mine(k) : \A j \in mine(k) \ {i} : SortsBefore(log, j, i)
  <1>1. ASSUME NEW k \in Keys, mine(k) # {}
        PROVE  best(k) = Newest(mine(k))
    <2> DEFINE m == Newest(mine(k))
    <2>1. m \in mine(k) /\ (\A j \in mine(k) : j <= m) /\ mine(k) \in SUBSET (1..n)
      <3>1. mine(k) \in SUBSET (1..n)
        BY <1>0, OfKeyFinite
      <3> QED
        BY <1>0, <1>1, <3>1, NewestIsLast
    <2> HIDE DEF m
    <2>2. \A j \in mine(k) : /\ j \in 1..Len(log) /\ log[j].key = k /\ j \in Nat
                             /\ log[j].rev \in Nat /\ log[j].at \in Int /\ k \in Nat
      BY <1>0, <2>1, ElementOfSeq, IngestAssumption DEF OfKey, RecordSet
    <2>3. ASSUME NEW j \in mine(k), j # m
          PROVE  log[j].rev < log[m].rev /\ log[j].at <= log[m].at
      <3>1. j < m /\ j \in 1..Len(log) /\ m \in 1..Len(log) /\ log[j].key = log[m].key
        BY <2>1, <2>2, <2>3
      <3> QED
        BY <3>1, RevisionsGrow DEF Timely
    <2>4. \A j \in mine(k) \ {m} : SortsBefore(log, j, m) /\ ~SortsBefore(log, m, j)
      BY <2>1, <2>2, <2>3 DEF SortsBefore
    <2> HIDE DEF mine
    <2> QED
      BY <2>1, <2>4 DEF m
  <1>2. Upserted(log, 1..n) = [k \in Keys |-> IF mine(k) = {} THEN None ELSE log[best(k)].pay]
    BY DEF Upserted
  <1>3. Hist(log, n) = [k \in Keys |-> IF mine(k) = {} THEN None ELSE log[Newest(mine(k))].pay]
    BY DEF Hist
  <1> HIDE DEF mine, best
  <1> QED
    BY <1>1, <1>2, <1>3
-----------------------------------------------------------------------------
(* Log a is what log b began as. *)
Prefix(a, b) == Len(a) <= Len(b) /\ \A i \in 1..Len(a) : a[i] = b[i]

(* What was derived from a log's first records stays so as it grows, and   *)
(* what is true of the longer log was true of the shorter one.             *)
LEMMA PrefixFacts ==
    ASSUME NEW S, RecordSet(S), NEW a \in Seq(S), NEW b \in Seq(S), Prefix(a, b)
    PROVE  /\ \A m \in 0..Len(a) : \A k : OfKey(a, 1..m, k) = OfKey(b, 1..m, k)
           /\ \A m \in 0..Len(a) : Hist(a, m) = Hist(b, m)
           /\ Revised(b) => Revised(a)
           /\ Fresh(b) => Fresh(a)
           /\ Timely(b) => Timely(a)
           /\ Sorted(b) => Sorted(a)
           /\ Derived(b) => Derived(a)
  <1>0. /\ Len(a) \in Nat /\ Len(b) \in Nat /\ Len(a) <= Len(b)
        /\ \A i \in 1..Len(a) : i \in 1..Len(b) /\ a[i] = b[i]
    BY LenProperties DEF Prefix
  <1>1. ASSUME NEW m \in 0..Len(a), NEW k
        PROVE  OfKey(a, 1..m, k) = OfKey(b, 1..m, k)
    BY <1>0 DEF OfKey
  <1>2. ASSUME NEW m \in 0..Len(a)
        PROVE  Hist(a, m) = Hist(b, m)
    <2>1. ASSUME NEW k \in Keys, OfKey(a, 1..m, k) # {}
          PROVE  a[Newest(OfKey(a, 1..m, k))] = b[Newest(OfKey(b, 1..m, k))]
      <3>1. OfKey(a, 1..m, k) \in SUBSET (1..m) /\ m \in Nat
        BY <1>0, OfKeyFinite
      <3>2. Newest(OfKey(a, 1..m, k)) \in 1..m
        BY <2>1, <3>1, NewestIsLast
      <3> QED
        BY <1>0, <1>1, <3>2
    <2> QED
      BY <1>1, <2>1 DEF Hist
  <1>3. ASSUME Revised(b)
        PROVE  Revised(a)
    <2> SUFFICES ASSUME NEW i \in 1..Len(a)
                 PROVE  a[i].rev = Cardinality(OfKey(a, 1..(i - 1), a[i].key)) + 1
      BY DEF Revised
    <2>1. i - 1 \in 0..Len(a) /\ i \in 1..Len(b) /\ a[i] = b[i]
      BY <1>0
    <2> QED
      BY <1>1, <1>3, <2>1 DEF Revised
  <1>4. ASSUME Derived(b)
        PROVE  Derived(a)
    <2> SUFFICES ASSUME NEW i \in 1..Len(a)
                 PROVE  a[i].pay = Derive(a[i].pay.val, Before(Hist(a, i - 1), a[i].key))
      BY DEF Derived
    <2>1. i - 1 \in 0..Len(a) /\ i \in 1..Len(b) /\ a[i] = b[i]
      BY <1>0
    <2> QED
      BY <1>2, <1>4, <2>1 DEF Derived
  <1>5. Fresh(b) => Fresh(a)
    BY <1>0 DEF Fresh
  <1>6. Timely(b) => Timely(a)
    BY <1>0 DEF Timely
  <1>7. Sorted(b) => Sorted(a)
    <2>1. \A i, j \in 1..Len(a) : SortsBefore(a, i, j) = SortsBefore(b, i, j)
      BY <1>0 DEF SortsBefore
    <2> QED
      BY <1>0, <2>1 DEF Sorted
  <1> QED
    BY <1>1, <1>2, <1>3, <1>4, <1>5, <1>6, <1>7

(* One record more. *)
LEMMA AppendElements ==
    ASSUME NEW S, NEW log \in Seq(S), NEW r \in S
    PROVE  /\ Append(log, r) \in Seq(S) /\ Len(log) \in Nat
           /\ Len(Append(log, r)) = Len(log) + 1
           /\ Append(log, r)[Len(log) + 1] = r
           /\ \A i \in 1..Len(log) : Append(log, r)[i] = log[i]
           /\ Prefix(log, Append(log, r))
  BY AppendProperties, LenProperties DEF Prefix

(* ScopeHistory.upsert and RevisionIndex.observe, of key k's next payload. *)
Upsert(h, k, pay)    == [h EXCEPT ![k] = pay]
Observe(idx, k, pay) == [idx EXCEPT ![k] = [rev |-> idx[k].rev + 1, pay |-> pay]]

(* The index and the history observe a record: its key has one more.       *)
LEMMA ObserveRecord ==
    ASSUME NEW S, RecordSet(S), NEW log \in Seq(S), NEW r \in S
    PROVE  /\ Hist(Append(log, r), Len(log) + 1) = Upsert(Hist(log, Len(log)), r.key, r.pay)
           /\ Idx(Append(log, r)) = Observe(Idx(log), r.key, r.pay)
  <1> DEFINE L == Append(log, r)
             n == Len(log)
             old(k) == OfKey(log, 1..n, k)
             new(k) == OfKey(L, 1..(n + 1), k)
  <1>0. /\ n \in Nat /\ L \in Seq(S) /\ Len(L) = n + 1 /\ L[n + 1] = r
        /\ (\A i \in 1..n : L[i] = log[i]) /\ Prefix(log, L) /\ r.key \in Keys
    BY AppendElements DEF RecordSet
  <1> HIDE DEF L
  <1>1. \A k : OfKey(L, 1..n, k) = old(k)
    BY <1>0, PrefixFacts
  <1>2. ASSUME NEW k, k # r.key
        PROVE  new(k) = old(k)
    BY <1>0, <1>2 DEF OfKey
  <1>3. /\ n + 1 \in new(r.key) /\ new(r.key) \in SUBSET (1..(n + 1))
        /\ Cardinality(new(r.key)) = Cardinality(old(r.key)) + 1
    <2>1. n + 1 \in Nat /\ n + 1 >= 1 /\ (n + 1) - 1 = n /\ L[n + 1].key = r.key
      BY <1>0
    <2>2. Cardinality(new(r.key)) = Cardinality(OfKey(L, 1..n, r.key)) + 1
      BY <2>1, OfKeyNext
    <2>3. n + 1 \in new(r.key) /\ new(r.key) \in SUBSET (1..(n + 1))
      BY <2>1 DEF OfKey
    <2> QED
      BY <1>1, <2>2, <2>3
  <1>4. Newest(new(r.key)) = n + 1
    <2>1. n + 1 \in Nat /\ new(r.key) # {}
      BY <1>0, <1>3
    <2>2. Newest(new(r.key)) \in 1..(n + 1) /\ n + 1 <= Newest(new(r.key))
      BY <1>3, <2>1, NewestIsLast
    <2> QED
      BY <1>0, <2>2
  <1>5. ASSUME NEW k \in Keys, k # r.key
        PROVE  Hist(L, n + 1)[k] = Hist(log, n)[k]
    <2>1. Hist(L, n + 1)[k] = IF old(k) = {} THEN None ELSE L[Newest(old(k))].pay
      BY <1>2, <1>5 DEF Hist
    <2>2. Hist(log, n)[k] = IF old(k) = {} THEN None ELSE log[Newest(old(k))].pay
      BY DEF Hist
    <2>3. old(k) \in SUBSET (1..n)
      BY <1>0, OfKeyFinite
    <2>4. old(k) # {} => Newest(old(k)) \in 1..n
      BY <1>0, <2>3, NewestIsLast
    <2> HIDE DEF old
    <2> QED
      BY <1>0, <2>1, <2>2, <2>4
  <1>6. Hist(L, n + 1)[r.key] = r.pay
    BY <1>0, <1>3, <1>4 DEF Hist
  <1>7. Hist(L, n + 1) = [Hist(log, n) EXCEPT ![r.key] = r.pay]
    <2>1. /\ Hist(L, n + 1) = [k \in Keys |-> Hist(L, n + 1)[k]]
          /\ Hist(log, n) = [k \in Keys |-> Hist(log, n)[k]]
      BY DEF Hist
    <2> QED
      BY <1>0, <1>5, <1>6, <2>1
  <1>8. /\ Idx(L) = [k \in Keys |-> [rev |-> Cardinality(new(k)), pay |-> Hist(L, n + 1)[k]]]
        /\ Idx(log) = [k \in Keys |-> [rev |-> Cardinality(old(k)), pay |-> Hist(log, n)[k]]]
    BY <1>0 DEF Idx
  <1> HIDE DEF old, new, n
  <1>9. Idx(L) = [Idx(log) EXCEPT ![r.key] = [rev |-> Idx(log)[r.key].rev + 1, pay |-> r.pay]]
    <2>1. Idx(L)[r.key] = [rev |-> Idx(log)[r.key].rev + 1, pay |-> r.pay]
      <3>1. Idx(log)[r.key].rev = Cardinality(old(r.key))
        BY <1>0, <1>8
      <3>2. Idx(L)[r.key] = [rev |-> Cardinality(new(r.key)), pay |-> Hist(L, n + 1)[r.key]]
        BY <1>0, <1>8
      <3> QED
        BY <1>3, <1>6, <3>1, <3>2
    <2>2. ASSUME NEW k \in Keys, k # r.key
          PROVE  Idx(L)[k] = Idx(log)[k]
      BY <1>2, <1>5, <1>8, <2>2
    <2>3. Idx(L) = [k \in Keys |-> Idx(L)[k]] /\ Idx(log) = [k \in Keys |-> Idx(log)[k]]
      BY <1>8
    <2> QED
      BY <1>0, <2>1, <2>2, <2>3
  <1> QED
    BY <1>7, <1>9 DEF L, n, Upsert, Observe

(* assign: a record with its key's next revision and another payload keeps *)
(* the revisions contiguous and without an echo.                           *)
LEMMA AssignRecord ==
    ASSUME NEW S, RecordSet(S), NEW log \in Seq(S), NEW r \in S, Revised(log), Fresh(log),
           r.rev = Idx(log)[r.key].rev + 1, r.pay # Idx(log)[r.key].pay
    PROVE  Revised(Append(log, r)) /\ Fresh(Append(log, r))
  <1> DEFINE L == Append(log, r)
             n == Len(log)
             old == OfKey(log, 1..n, r.key)
  <1>0. /\ n \in Nat /\ L \in Seq(S) /\ Len(L) = n + 1 /\ L[n + 1] = r
        /\ (\A i \in 1..n : L[i] = log[i]) /\ Prefix(log, L) /\ r.key \in Keys
    BY AppendElements DEF RecordSet
  <1> HIDE DEF L
  <1>1. Idx(log)[r.key].rev = Cardinality(old) /\ Idx(log)[r.key].pay = Hist(log, n)[r.key]
    BY <1>0 DEF Idx
  <1>2. \A m \in 0..n : \A k : OfKey(L, 1..m, k) = OfKey(log, 1..m, k)
    BY <1>0, PrefixFacts
  <1>3. Revised(L)
    <2> SUFFICES ASSUME NEW i \in 1..(n + 1)
                 PROVE  L[i].rev = Cardinality(OfKey(L, 1..(i - 1), L[i].key)) + 1
      BY <1>0 DEF Revised
    <2>1. CASE i = n + 1
      <3>1. i - 1 = n /\ n \in 0..n
        BY <1>0, <2>1
      <3> QED
        BY <1>0, <1>1, <1>2, <2>1, <3>1
    <2>2. CASE i # n + 1
      <3>1. i \in 1..n /\ i - 1 \in 0..n
        BY <1>0, <2>2
      <3> QED
        BY <1>0, <1>2, <3>1 DEF Revised
    <2> QED
      BY <2>1, <2>2
  <1>4. ASSUME NEW j \in 1..n, log[j].key = r.key, log[j].rev = r.rev - 1
        PROVE  log[j].pay # r.pay
    <2>1. j \in old /\ old \in SUBSET (1..n)
      BY <1>0, <1>4 DEF OfKey
    <2>2. Newest(old) \in old /\ j <= Newest(old)
      BY <1>0, <2>1, NewestIsLast
    <2> DEFINE m == Newest(old)
    <2> HIDE DEF m
    <2>3. m \in 1..n /\ log[m].key = r.key /\ j <= m
      BY <2>1, <2>2 DEF m, OfKey
    <2>4. log[m].rev < r.rev /\ log[m].rev \in Nat /\ r.rev \in Nat /\ log[j].rev \in Nat
      <3>1. L[m].rev < L[n + 1].rev
        <4>1. m \in 1..Len(L) /\ n + 1 \in 1..Len(L) /\ m < n + 1 /\ L[m].key = L[n + 1].key
          BY <1>0, <2>3
        <4> QED
          BY <1>0, <1>3, <4>1, RevisionsGrow
      <3>2. log[m] \in S /\ log[j] \in S
        BY <2>3, ElementOfSeq
      <3> QED
        BY <1>0, <2>3, <3>1, <3>2 DEF RecordSet
    <2>5. j = m
      <3>1. ASSUME j < m
            PROVE  log[j].rev < log[m].rev
        BY <1>4, <2>3, <3>1, RevisionsGrow
      <3> QED
        BY <1>0, <1>4, <2>3, <2>4, <3>1
    <2>6. Hist(log, n)[r.key] = log[m].pay
      BY <1>0, <2>1 DEF Hist, m
    <2> QED
      BY <1>1, <2>5, <2>6
  <1>5. Fresh(L)
    <2> SUFFICES ASSUME NEW i \in 1..(n + 1), NEW j \in 1..(n + 1), j < i, L[j].key = L[i].key,
                        L[j].rev = L[i].rev - 1
                 PROVE  L[j].pay # L[i].pay
      BY <1>0 DEF Fresh
    <2>1. j \in 1..n /\ L[j] = log[j]
      BY <1>0
    <2>2. CASE i = n + 1
      BY <1>0, <1>4, <2>1, <2>2
    <2>3. CASE i # n + 1
      <3>1. i \in 1..n /\ L[i] = log[i]
        BY <1>0, <2>3
      <3> QED
        BY <2>1, <3>1 DEF Fresh
    <2> QED
      BY <2>2, <2>3
  <1> QED
    BY <1>3, <1>5 DEF L
-----------------------------------------------------------------------------
FileCandidate == [key : Keys, val : Int \cup {Bad}, at : Int]
Candidate     == [key : Keys, val : Int \cup {Bad}] \cup FileCandidate

TypeInv ==
    /\ torn \in BOOLEAN /\ clock \in Nat
    /\ pc \in [Procs -> {"idle", "ready", "ingest", "append", "stamp"}]
    /\ stamp \in [Procs -> Nat]
    /\ batch \in [Procs -> Seq(Candidate)] /\ offered \in [Procs -> Seq(Candidate)]
    /\ \A p \in Backfillers : batch[p] \in Seq(FileCandidate)
    /\ DOMAIN index = Procs /\ DOMAIN history = Procs /\ DOMAIN todo = Procs /\ DOMAIN cache = Procs
    /\ \A p \in Procs : /\ DOMAIN index[p] = Keys
                        /\ cache[p] # None => DOMAIN cache[p].index = Keys

LEMMA InitType == Init => TypeInv
  <1> SUFFICES ASSUME Init PROVE TypeInv
    OBVIOUS
  <1>1. \A S : <<>> \in Seq(S)
    BY EmptySeq
  <1>2. DOMAIN NoIndex = Keys /\ Backfillers \subseteq Procs
    BY DEF NoIndex, Procs
  <1>3. /\ batch \in [Procs -> Seq(Candidate)] /\ offered \in [Procs -> Seq(Candidate)]
        /\ \A p \in Backfillers : batch[p] \in Seq(FileCandidate)
    BY <1>1, <1>2 DEF Init
  <1>4. \A p \in Procs : DOMAIN index[p] = Keys /\ cache[p] = None
    BY <1>2 DEF Init
  <1>5. /\ torn \in BOOLEAN /\ clock \in Nat /\ stamp \in [Procs -> Nat]
        /\ pc \in [Procs -> {"idle", "ready", "ingest", "append", "stamp"}]
        /\ DOMAIN index = Procs /\ DOMAIN history = Procs /\ DOMAIN todo = Procs /\ DOMAIN cache = Procs
    BY DEF Init
  <1> QED
    BY <1>3, <1>4, <1>5 DEF TypeInv

(* What is left of a batch. *)
LEMMA TailOfBatch ==
    ASSUME NEW S, NEW b \in Seq(S), b # <<>>
    PROVE  /\ Head(b) \in S /\ Tail(b) \in Seq(S) /\ Len(b) \in Nat
           /\ Len(Tail(b)) = Len(b) - 1 /\ Head(b) = b[1] /\ 1 \in 1..Len(b)
           /\ \A i \in 1..Len(Tail(b)) : i + 1 \in 1..Len(b) /\ Tail(b)[i] = b[i + 1]
  <1>1. Len(b) \in Nat /\ Len(b) # 0
    BY EmptySeq, LenProperties
  <1>2. /\ Head(b) \in S /\ Tail(b) \in Seq(S) /\ Len(Tail(b)) = Len(b) - 1
        /\ \A i \in 1..Len(Tail(b)) : Tail(b)[i] = b[i + 1]
    BY HeadTailProperties
  <1> QED
    BY <1>1, <1>2

LEMMA NextType == TypeInv /\ [Next]_vars => TypeInv'
  <1> SUFFICES ASSUME TypeInv, [Next]_vars PROVE TypeInv'
    OBVIOUS
  <1>0. /\ DOMAIN HistoryFor.index = Keys /\ Backfillers \subseteq Procs
        /\ \A S : <<>> \in Seq(S)
    BY EmptySeq DEF RebuiltIndex, NoIndex, HistoryFor, Procs
  <1>1. ASSUME NEW p \in Procs, StartDaemon(p) \/ StopDaemon(p) \/ OpenWriter(p) \/ AppendOne(p)
        PROVE  TypeInv'
    BY <1>0, <1>1 DEF TypeInv, StartDaemon, StopDaemon, OpenWriter, AppendOne
  <1>2. ASSUME NEW p \in Procs, Crash(p)
        PROVE  TypeInv'
    BY <1>0, <1>2 DEF TypeInv, Crash
  <1>3. ASSUME NEW p \in Procs, Finish(p) \/ StampCache(p)
        PROVE  TypeInv'
    <2> DEFINE kept == [fp |-> Fingerprint, index |-> index[p], history |-> history[p]]
    <2>1. DOMAIN kept.index = Keys
      BY DEF TypeInv
    <2> HIDE DEF kept
    <2>2. /\ UNCHANGED <<torn, clock, stamp, batch, index, history, todo>>
          /\ offered' = offered \/ offered' = [offered EXCEPT ![p] = <<>>]
          /\ pc' \in [Procs -> {"idle", "ready", "ingest", "append", "stamp"}]
          /\ cache' = cache \/ cache' = [cache EXCEPT ![p] = kept]
      BY <1>3 DEF TypeInv, Finish, StampCache, kept
    <2>3. offered' \in [Procs -> Seq(Candidate)]
      <3>1. <<>> \in Seq(Candidate)
        BY <1>0
      <3> QED
        BY <2>2, <3>1 DEF TypeInv
    <2> QED
      BY <2>1, <2>2, <2>3 DEF TypeInv
  <1>4. ASSUME NEW p \in Procs, NEW b, NEW from, BeginIngest(p, b, from), DOMAIN from.index = Keys,
               b \in Seq(Candidate), p \in Backfillers => b \in Seq(FileCandidate),
               stamp' \in [Procs -> Nat], clock' \in Nat, UNCHANGED torn,
               UNCHANGED cache \/ cache' = [cache EXCEPT ![p] = None]
        PROVE  TypeInv'
    BY <1>0, <1>4 DEF TypeInv, BeginIngest
  <1>5. ASSUME NEW p \in Procs, NEW b \in LiveBatches, CollectOnce(p, b)
        PROVE  TypeInv'
    <2>1. b \in Seq(Candidate) /\ p \notin Backfillers
      <3>1. [key : Keys, val : Int \cup {Bad}] \subseteq Candidate
        BY DEF Candidate
      <3>2. b \in Seq([key : Keys, val : Int \cup {Bad}])
        BY IngestAssumption
      <3>3. b \in Seq(Candidate)
        BY <3>1, <3>2, SeqMonotonic
      <3> QED
        BY <1>5, <3>3, IngestAssumption DEF CollectOnce
    <2>2. /\ stamp' \in [Procs -> Nat] /\ clock' \in Nat /\ UNCHANGED torn
          /\ cache' = [cache EXCEPT ![p] = None]
      BY <1>5 DEF CollectOnce, TypeInv
    <2>3. PICK from : BeginIngest(p, b, from) /\ DOMAIN from.index = Keys
      BY <1>0, <1>5 DEF CollectOnce, TypeInv
    <2> QED
      BY <1>4, <2>1, <2>2, <2>3
  <1>6. ASSUME NEW p \in Procs, NEW b \in FileBatches, Backfill(p, b)
        PROVE  TypeInv'
    <2>1. b \in Seq(Candidate) /\ b \in Seq(FileCandidate)
      <3>1. FileCandidate \subseteq Candidate
        BY DEF Candidate
      <3>2. b \in Seq(FileCandidate)
        BY IngestAssumption DEF FileCandidate
      <3> QED
        BY <3>1, <3>2, SeqMonotonic
    <2>2. /\ stamp' \in [Procs -> Nat] /\ clock' \in Nat /\ UNCHANGED <<torn, cache>>
          /\ BeginIngest(p, b, HistoryFor)
      BY <1>6 DEF Backfill, TypeInv
    <2> QED
      BY <1>0, <1>4, <2>1, <2>2
  <1>7. ASSUME NEW p \in Procs, Refuse(p) \/ Drop(p) \/ Assign(p)
        PROVE  TypeInv'
    <2>1. /\ batch[p] # <<>> /\ batch' = [batch EXCEPT ![p] = Tail(batch[p])]
          /\ UNCHANGED <<torn, clock, pc, offered, stamp, cache>>
      BY <1>7 DEF Refuse, Drop, Assign, Rest
    <2>2. Tail(batch[p]) \in Seq(Candidate) /\ (p \in Backfillers => Tail(batch[p]) \in Seq(FileCandidate))
      BY <2>1, TailOfBatch DEF TypeInv
    <2>3. /\ DOMAIN index' = Procs /\ DOMAIN history' = Procs /\ DOMAIN todo' = Procs
          /\ \A q \in Procs : DOMAIN index'[q] = Keys
      BY <1>7 DEF TypeInv, Refuse, Drop, Assign
    <2> QED
      BY <2>1, <2>2, <2>3 DEF TypeInv
  <1>8. CASE UNCHANGED vars
    BY <1>8 DEF TypeInv, vars, procVars
  <1> QED
    BY <1>1, <1>2, <1>3, <1>5, <1>6, <1>7, <1>8 DEF Next
-----------------------------------------------------------------------------
(* One command at work at a time: only daemons, whose writer excludes the  *)
(* others for as long as they live, or commands that neither overlap nor   *)
(* die.                                                                    *)
Disciplined == (Embedders = {} /\ Backfillers = {}) \/ (~Overlap /\ ~Crashes)

Working(p) == pc[p] \in {"ingest", "append", "stamp"}

ModeInv ==
    /\ \A p, q \in Procs : (Working(p) /\ Working(q)) => p = q
    /\ \A p \in Procs : pc[p] # "idle" => ~torn
    /\ ~Crashes => ~torn
    /\ \A p \in Daemons : pc[p] # "idle" => lock = p
    /\ \A p \in Procs : pc[p] = "append" => lock = p
    /\ \A p \in Procs : pc[p] \notin {"ingest", "append"} => todo[p] = <<>>

(* A command that starts finds no other at work and, unless it is a daemon *)
(* that repairs first, the journal whole.                                  *)
LEMMA StartsAlone ==
    ASSUME Disciplined, TypeInv, ModeInv, NEW p \in Procs, Alone(p),
           \/ pc[p] = "idle" /\ (p \in Daemons => lock = None)
           \/ p \in Daemons /\ pc[p] = "ready"
    PROVE  (\A q \in Procs \ {p} : ~Working(q)) /\ ((p \in Daemons /\ pc[p] = "idle") \/ ~torn)
  <1>1. CASE Embedders = {} /\ Backfillers = {}
    <2>1. Procs = Daemons /\ None \notin Procs
      BY <1>1, IngestAssumption DEF Procs
    <2> QED
      BY <2>1 DEF ModeInv, Working
  <1>2. CASE ~Overlap /\ ~Crashes
    BY <1>2 DEF Alone, ModeInv, Working
  <1> QED
    BY <1>1, <1>2 DEF Disciplined

LEMMA NextMode ==
    ASSUME Disciplined, TypeInv, ModeInv, [Next]_vars
    PROVE  ModeInv'
  <1>0. /\ DOMAIN pc = Procs /\ DOMAIN todo = Procs /\ torn \in BOOLEAN
        /\ Daemons \subseteq Procs /\ None \notin Procs
        /\ pc \in [Procs -> {"idle", "ready", "ingest", "append", "stamp"}]
    BY IngestAssumption DEF TypeInv, Procs
  <1>1. ASSUME NEW p \in Procs, NEW b, NEW from, BeginIngest(p, b, from), Alone(p), UNCHANGED <<torn, lock>>,
               p \in Daemons => pc[p] = "ready", p \notin Daemons => pc[p] = "idle"
        PROVE  ModeInv'
    <2>1. (\A q \in Procs \ {p} : ~Working(q)) /\ ~torn'
      BY <1>1, StartsAlone
    <2>2. \A q \in Procs : Working(q)' => q = p
      BY <1>0, <1>1, <2>1 DEF BeginIngest, Working
    <2> QED
      BY <1>0, <1>1, <2>1, <2>2 DEF ModeInv, BeginIngest
  <1>2. ASSUME NEW p \in Procs, StartDaemon(p)
        PROVE  ModeInv'
    <2>1. \A q \in Procs \ {p} : ~Working(q)
      BY <1>2, StartsAlone DEF StartDaemon
    <2> QED
      BY <1>0, <1>2, <2>1 DEF StartDaemon, ModeInv, Working
  <1>3. ASSUME NEW p \in Procs, StopDaemon(p)
        PROVE  ModeInv'
    BY <1>0, <1>3 DEF StopDaemon, ModeInv, Working
  <1>4. ASSUME NEW p \in Procs, NEW b, CollectOnce(p, b)
        PROVE  ModeInv'
    BY <1>1, <1>4 DEF CollectOnce
  <1>5. ASSUME NEW p \in Procs, NEW b, Backfill(p, b)
        PROVE  ModeInv'
    <2>1. p \notin Daemons
      BY <1>5, IngestAssumption DEF Backfill
    <2> QED
      BY <1>1, <1>5, <2>1 DEF Backfill
  <1>6. ASSUME NEW p \in Procs, Refuse(p) \/ Drop(p) \/ Assign(p)
        PROVE  ModeInv'
    <2>1. /\ pc[p] = "ingest" /\ UNCHANGED <<pc, torn, lock>>
          /\ \A q \in Procs : q # p => todo'[q] = todo[q]
      BY <1>0, <1>6 DEF Refuse, Drop, Assign, Rest
    <2> QED
      BY <1>0, <2>1 DEF ModeInv, Working
  <1>7. ASSUME NEW p \in Procs, OpenWriter(p)
        PROVE  ModeInv'
    BY <1>0, <1>7 DEF OpenWriter, ModeInv, Working
  <1>8. ASSUME NEW p \in Procs, AppendOne(p)
        PROVE  ModeInv'
    BY <1>0, <1>8 DEF AppendOne, ModeInv, Working
  <1>9. ASSUME NEW p \in Procs, Finish(p) \/ StampCache(p)
        PROVE  ModeInv'
    <2>1. /\ Working(p) /\ UNCHANGED torn /\ todo' = todo /\ todo[p] = <<>>
          /\ \A q \in Procs \ {p} : pc'[q] = pc[q]
          /\ lock' = lock \/ (p \notin Daemons /\ pc[p] = "append")
      BY <1>0, <1>9 DEF Finish, StampCache, ModeInv, Working
    <2>2. \A q \in Procs : Working(q)' => Working(q)
      BY <2>1 DEF Working
    <2>3. ASSUME NEW q \in Daemons, pc'[q] # "idle"
          PROVE  lock' = q
      BY <1>0, <1>9, <2>3 DEF Finish, StampCache, ModeInv
    <2> QED
      BY <1>0, <1>9, <2>1, <2>2, <2>3 DEF ModeInv, Finish, StampCache
  <1>10. ASSUME NEW p \in Procs, Crash(p)
         PROVE  ModeInv'
    <2>1. Procs = Daemons
      BY <1>10 DEF Crash, Disciplined, Procs
    <2>2. /\ lock = p /\ pc'[p] = "idle" /\ todo'[p] = <<>>
          /\ \A q \in Procs \ {p} : pc[q] = "idle" /\ pc'[q] = "idle" /\ todo'[q] = todo[q]
      BY <1>0, <1>10, <2>1 DEF Crash, ModeInv
    <2> QED
      BY <1>0, <1>10, <2>2 DEF Crash, ModeInv, Working
  <1>11. CASE UNCHANGED vars
    BY <1>11 DEF vars, procVars, ModeInv, Working
  <1> QED
    BY <1>2, <1>3, <1>4, <1>5, <1>6, <1>7, <1>8, <1>9, <1>10, <1>11 DEF Next
-----------------------------------------------------------------------------
(* No record is dated by anything but the clock ... *)
Timed == Backfillers = {}
(* ... and a fetch lists facts oldest first. *)
Ordered(b) == \A i, j \in 1..Len(b) : i <= j => b[i].key <= b[j].key
Fed == Timed /\ \A b \in LiveBatches : Ordered(b)

Good(log) ==
    /\ Revised(log) /\ Fresh(log)
    /\ Timed => Timely(log)
    /\ Fed => Sorted(log) /\ Derived(log)

(* An index and a history are those of a log. *)
Agrees(log, idx, hist) == idx = Idx(log) /\ (Timed => hist = Hist(log, Len(log)))

(* What process p will have journalled. *)
Log(p) == journal \o todo[p]

Past(log) == \A i \in 1..Len(log) : log[i].at <= clock
Behind(log, b) == \A i \in 1..Len(log), j \in 1..Len(b) : log[i].at = clock => log[i].key <= b[j].key

SeqInv == \E S : RecordSet(S) /\ journal \in Seq(S) /\ \A p \in Procs : todo[p] \in Seq(S)

JournalInv == Good(journal) /\ (Timed => Past(journal))

WorkInv ==
    \A p \in Procs : Working(p) =>
        /\ Good(Log(p)) /\ Agrees(Log(p), index[p], history[p])
        /\ Timed => Past(Log(p))
        /\ Timed /\ pc[p] = "ingest" => stamp[p] = clock
        /\ Fed /\ pc[p] = "ingest" => Ordered(batch[p]) /\ Behind(Log(p), batch[p])

(* A cached state is that of the journal it was stamped with. *)
CacheInv ==
    \A p \in Procs : cache[p] # None =>
        \E n \in Nat, t \in BOOLEAN :
            /\ cache[p].fp = <<n, t>> /\ n <= Len(journal)
            /\ n = Len(journal) => Agrees(journal, cache[p].index, cache[p].history)

LogInv == SeqInv /\ JournalInv /\ WorkInv /\ CacheInv

LEMMA GoodPrefix ==
    ASSUME NEW S, RecordSet(S), NEW a \in Seq(S), NEW b \in Seq(S), Prefix(a, b), Good(b)
    PROVE  Good(a)
  BY PrefixFacts DEF Good

(* _history_for, of a journal without a fragment. *)
LEMMA HistoryAgrees ==
    ASSUME NEW S, RecordSet(S), journal \in Seq(S), Good(journal), ~torn
    PROVE  Agrees(journal, HistoryFor.index, HistoryFor.history)
  <1>1. HistoryFor.index = RebuiltIndex(journal) /\ HistoryFor.history = RebuiltHistory(journal)
    BY DEF HistoryFor
  <1>2. RebuiltIndex(journal) = Idx(journal)
    BY RebuiltIsIdx DEF Good
  <1>3. ASSUME Timed
        PROVE  RebuiltHistory(journal) = Hist(journal, Len(journal))
    <2>1. DOMAIN journal = 1..Len(journal) /\ Len(journal) \in 0..Len(journal)
      BY LenProperties
    <2>2. Upserted(journal, 1..Len(journal)) = Hist(journal, Len(journal))
      BY <1>3, <2>1, UpsertedIsHist DEF Good
    <2> QED
      BY <2>1, <2>2 DEF RebuiltHistory
  <1> QED
    BY <1>1, <1>2, <1>3 DEF Agrees

(* A record that ingest makes of a log keeps it good. *)
LEMMA GoodAppend ==
    ASSUME NEW S, RecordSet(S), NEW log \in Seq(S), NEW r \in S, Good(log),
           r.rev = Idx(log)[r.key].rev + 1, r.pay # Idx(log)[r.key].pay,
           Timed => \A i \in 1..Len(log) : log[i].at <= r.at,
           Fed => /\ r.pay = Derive(r.pay.val, Before(Hist(log, Len(log)), r.key))
                  /\ \A i \in 1..Len(log) : log[i].at = r.at => log[i].key <= r.key
    PROVE  Good(Append(log, r))
  <1> DEFINE L == Append(log, r)
             n == Len(log)
  <1>0. /\ n \in Nat /\ L \in Seq(S) /\ Len(L) = n + 1 /\ L[n + 1] = r
        /\ (\A i \in 1..n : L[i] = log[i]) /\ Prefix(log, L)
    BY AppendElements
  <1>1. \A i \in 1..(n + 1) : L[i].key \in Nat /\ L[i].at \in Int /\ L[i].rev \in Nat
    <2>1. \A i \in 1..(n + 1) : L[i] \in S
      BY <1>0, ElementOfSeq
    <2> QED
      BY <2>1, IngestAssumption DEF RecordSet
  <1>2. Revised(L) /\ Fresh(L)
    BY AssignRecord DEF Good
  <1>3. \A m \in 0..n : Hist(log, m) = Hist(L, m)
    BY <1>0, PrefixFacts
  <1> HIDE DEF L
  <1>4. ASSUME Timed
        PROVE  Timely(L)
    <2> SUFFICES ASSUME NEW i \in 1..(n + 1), NEW j \in 1..(n + 1), i < j
                 PROVE  L[i].at <= L[j].at
      BY <1>0 DEF Timely
    <2>1. i \in 1..n
      BY <1>0
    <2>2. CASE j = n + 1
      BY <1>0, <1>4, <2>1, <2>2
    <2>3. CASE j \in 1..n
      BY <1>0, <1>4, <2>1, <2>3 DEF Good, Timely
    <2> QED
      BY <1>0, <2>2, <2>3
  <1>5. ASSUME Fed
        PROVE  Sorted(L)
    <2> SUFFICES ASSUME NEW i \in 1..(n + 1), NEW j \in 1..(n + 1), i < j
                 PROVE  SortsBefore(L, i, j)
      BY <1>0 DEF Sorted
    <2>1. L[i].at <= L[j].at
      BY <1>0, <1>4, <1>5 DEF Timely, Fed
    <2>2. L[i].at = L[j].at => L[i].key <= L[j].key
      <3>1. CASE j = n + 1
        BY <1>0, <1>5, <3>1
      <3>2. CASE j \in 1..n
        <4>1. i \in 1..n /\ SortsBefore(log, i, j) /\ L[i] = log[i] /\ L[j] = log[j]
          BY <1>0, <1>5, <3>2 DEF Good, Sorted
        <4> QED
          BY <1>1, <4>1 DEF SortsBefore
      <3> QED
        BY <1>0, <3>1, <3>2
    <2>3. L[i].key = L[j].key => L[i].rev < L[j].rev
      BY <1>0, <1>2, RevisionsGrow
    <2> QED
      BY <1>1, <2>1, <2>2, <2>3 DEF SortsBefore
  <1>6. ASSUME Fed
        PROVE  Derived(L)
    <2> SUFFICES ASSUME NEW i \in 1..(n + 1)
                 PROVE  L[i].pay = Derive(L[i].pay.val, Before(Hist(L, i - 1), L[i].key))
      BY <1>0 DEF Derived
    <2>1. i - 1 \in 0..n
      BY <1>0
    <2>2. CASE i = n + 1
      <3>1. i - 1 = n
        BY <1>0, <2>2
      <3> QED
        BY <1>0, <1>3, <1>6, <2>1, <2>2, <3>1
    <2>3. CASE i \in 1..n
      BY <1>0, <1>3, <1>6, <2>1, <2>3 DEF Good, Derived
    <2> QED
      BY <1>0, <2>2, <2>3
  <1> QED
    BY <1>2, <1>4, <1>5, <1>6 DEF Good, L
-----------------------------------------------------------------------------
(* With nothing left to append, a process's log is the journal. *)
LEMMA EmptyTodo ==
    ASSUME NEW S, journal \in Seq(S), NEW p \in Procs, todo[p] = <<>>
    PROVE  Log(p) = journal
  BY ConcatEmptySeq DEF Log

LEMMA InitLog == Init => LogInv
  <1> SUFFICES ASSUME Init PROVE LogInv
    OBVIOUS
  <1>1. RecordSet({}) /\ journal \in Seq({}) /\ \A p \in Procs : todo[p] \in Seq({})
    BY EmptySeq DEF Init, RecordSet
  <1>2. Len(journal) = 0 /\ 1..Len(journal) = {}
    BY DEF Init
  <1>3. JournalInv
    BY <1>2 DEF JournalInv, Good, Revised, Fresh, Timely, Sorted, Derived, Past
  <1>4. WorkInv /\ CacheInv
    BY DEF Init, WorkInv, CacheInv, Working
  <1> QED
    BY <1>1, <1>3, <1>4 DEF LogInv, SeqInv

(* What is left of a batch in order is in order, and still behind the log. *)
LEMMA TailStaysBehind ==
    ASSUME NEW b \in Seq(Candidate), b # <<>>, NEW log
    PROVE  /\ Ordered(b) => Ordered(Tail(b))
           /\ Behind(log, b) => Behind(log, Tail(b))
  <1>1. \A i \in 1..Len(Tail(b)) : i + 1 \in 1..Len(b) /\ Tail(b)[i] = b[i + 1]
    BY TailOfBatch
  <1>2. Len(Tail(b)) \in Nat
    BY TailOfBatch, LenProperties
  <1>3. Ordered(b) => Ordered(Tail(b))
    BY <1>1, <1>2 DEF Ordered
  <1>4. Behind(log, b) => Behind(log, Tail(b))
    BY <1>1, <1>2 DEF Behind
  <1> QED
    BY <1>3, <1>4

(* A step that leaves every log at work as it is: a refusal, a drop, the    *)
(* writer opened or closed, a process that dies.                            *)
LEMMA QuietStep ==
    ASSUME TypeInv, LogInv, UNCHANGED <<journal, clock>>,
           \A q \in Procs : todo'[q] \in {todo[q], <<>>},
           \A q \in Procs : Working(q)' =>
               Working(q) /\ todo'[q] = todo[q] /\ index'[q] = index[q] /\ history'[q] = history[q],
           \A q \in Procs : pc'[q] = "ingest" =>
               /\ pc[q] = "ingest" /\ stamp'[q] = stamp[q]
               /\ batch'[q] = batch[q] \/ (batch[q] # <<>> /\ batch'[q] = Tail(batch[q]))
    PROVE  /\ SeqInv' /\ JournalInv' /\ WorkInv'
           /\ (\A q \in Procs : cache'[q] \in {cache[q], None}) => CacheInv'
  <1>0. SeqInv /\ JournalInv /\ WorkInv /\ CacheInv
    BY DEF LogInv
  <1>1. SeqInv'
    <2>1. PICK S : RecordSet(S) /\ journal \in Seq(S) /\ \A p \in Procs : todo[p] \in Seq(S)
      BY <1>0 DEF SeqInv
    <2>2. \A p \in Procs : todo'[p] \in Seq(S)
      <3>1. <<>> \in Seq(S)
        BY EmptySeq
      <3> QED
        BY <2>1, <3>1
    <2> QED
      BY <2>1, <2>2 DEF SeqInv
  <1>2. JournalInv'
    BY <1>0 DEF JournalInv, Past
  <1>3. ASSUME NEW q \in Procs, Working(q)'
        PROVE  /\ Good(Log(q))' /\ Agrees(Log(q), index[q], history[q])'
               /\ (Timed => Past(Log(q)))'
               /\ Timed /\ pc'[q] = "ingest" => stamp'[q] = clock'
               /\ Fed /\ pc'[q] = "ingest" => Ordered(batch'[q]) /\ Behind(Log(q), batch[q])'
    <2>1. Working(q) /\ Log(q)' = Log(q) /\ index'[q] = index[q] /\ history'[q] = history[q]
      BY <1>3 DEF Log
    <2>2. /\ Good(Log(q)) /\ Agrees(Log(q), index[q], history[q]) /\ (Timed => Past(Log(q)))
          /\ Timed /\ pc[q] = "ingest" => stamp[q] = clock
          /\ Fed /\ pc[q] = "ingest" => Ordered(batch[q]) /\ Behind(Log(q), batch[q])
      BY <1>0, <2>1 DEF WorkInv
    <2>3. Good(Log(q))' /\ Agrees(Log(q), index[q], history[q])'
      BY <2>1, <2>2
    <2>4. (Timed => Past(Log(q)))' /\ (Timed /\ pc'[q] = "ingest" => stamp'[q] = clock')
      BY <2>1, <2>2 DEF Past
    <2>5. ASSUME Fed, pc'[q] = "ingest"
          PROVE  Ordered(batch'[q]) /\ Behind(Log(q), batch[q])'
      <3>1. Ordered(batch[q]) /\ Behind(Log(q), batch[q]) /\ batch[q] \in Seq(Candidate)
        BY <2>2, <2>5 DEF TypeInv
      <3>2. Ordered(batch'[q]) /\ Behind(Log(q), batch'[q])
        BY <2>5, <3>1, TailStaysBehind
      <3> QED
        BY <2>1, <3>2 DEF Behind
    <2> QED
      BY <2>3, <2>4, <2>5
  <1>4. WorkInv'
    BY <1>3 DEF WorkInv
  <1>5. ASSUME \A q \in Procs : cache'[q] \in {cache[q], None}
        PROVE  CacheInv'
    BY <1>0, <1>5 DEF CacheInv
  <1> QED
    BY <1>1, <1>2, <1>4, <1>5

(* A command that takes over a history that agrees with the journal. *)
LEMMA BeginStep ==
    ASSUME TypeInv, ModeInv, LogInv, NEW p \in Procs, NEW b, NEW from, BeginIngest(p, b, from),
           \A q \in Procs \ {p} : ~Working(q), UNCHANGED journal,
           Agrees(journal, from.index, from.history),
           Timed => clock' = clock + 1 /\ stamp'[p] = clock',
           Fed => Ordered(b),
           \A q \in Procs : cache'[q] \in {cache[q], None}
    PROVE  LogInv'
  <1>0. SeqInv /\ JournalInv /\ WorkInv /\ CacheInv
    BY DEF LogInv
  <1>1. /\ batch'[p] = b /\ index'[p] = from.index /\ history'[p] = from.history /\ todo'[p] = <<>>
        /\ pc'[p] = "ingest"
        /\ \A q \in Procs \ {p} : pc'[q] = pc[q] /\ todo'[q] = todo[q]
    BY DEF BeginIngest, TypeInv
  <1>2. PICK S : RecordSet(S) /\ journal \in Seq(S) /\ \A q \in Procs : todo[q] \in Seq(S)
    BY <1>0 DEF SeqInv
  <1>3. SeqInv'
    <2>1. <<>> \in Seq(S)
      BY EmptySeq
    <2>2. \A q \in Procs : todo'[q] \in Seq(S)
      BY <1>1, <1>2, <2>1
    <2> QED
      BY <1>2, <2>2 DEF SeqInv
  <1>4. \A i \in 1..Len(journal) : journal[i].at \in Int
    <2>1. \A i \in 1..Len(journal) : journal[i] \in S
      BY <1>2, ElementOfSeq
    <2> QED
      BY <1>2, <2>1 DEF RecordSet
  <1>5. Timed => \A i \in 1..Len(journal) : journal[i].at < clock' /\ journal[i].at <= clock'
    <2>1. clock \in Nat
      BY DEF TypeInv
    <2> QED
      BY <1>0, <1>4, <2>1 DEF JournalInv, Past
  <1>6. JournalInv'
    BY <1>0, <1>5 DEF JournalInv, Past
  <1>7. Log(p)' = journal
    <2>1. journal \o <<>> = journal
      BY <1>2, ConcatEmptySeq
    <2> QED
      BY <1>1, <2>1 DEF Log
  <1>8. WorkInv'
    <2>1. \A q \in Procs : Working(q)' => q = p
      BY <1>1 DEF Working
    <2>2. Good(Log(p))' /\ Agrees(Log(p), index[p], history[p])'
      BY <1>0, <1>1, <1>7 DEF JournalInv
    <2>3. (Timed => Past(Log(p)))'
      BY <1>5, <1>7 DEF Past
    <2>4. Fed => Ordered(batch'[p]) /\ Behind(Log(p), batch[p])'
      <3>1. Fed => Timed
        BY DEF Fed
      <3>2. Timed => \A i \in 1..Len(journal) : journal[i].at # clock'
        <4>1. clock \in Nat
          BY DEF TypeInv
        <4> QED
          BY <1>4, <1>5, <4>1
      <3> QED
        BY <1>1, <1>7, <3>1, <3>2 DEF Behind
    <2> QED
      BY <1>1, <2>1, <2>2, <2>3, <2>4 DEF WorkInv
  <1>9. CacheInv'
    BY <1>0 DEF CacheInv
  <1> QED
    BY <1>3, <1>6, <1>8, <1>9 DEF LogInv
(* A record added to what is to be appended, and one moved to the journal. *)
LEMMA LogsGrow ==
    ASSUME NEW S, NEW q \in Seq(S), NEW t \in Seq(S)
    PROVE  /\ \A r \in S : q \o Append(t, r) = Append(q \o t, r)
           /\ t # <<>> => Append(q, Head(t)) \o Tail(t) = q \o t
           /\ q \o t \in Seq(S) /\ Prefix(q, q \o t)
  <1>1. ASSUME NEW r \in S
        PROVE  q \o Append(t, r) = Append(q \o t, r)
    <2>1. <<r>> \in Seq(S) /\ q \o t \in Seq(S)
      BY ConcatProperties
    <2>2. Append(t, r) = t \o <<r>> /\ Append(q \o t, r) = (q \o t) \o <<r>>
      BY <2>1, AppendIsConcat
    <2> QED
      BY <2>1, <2>2, ConcatAssociative
  <1>2. ASSUME t # <<>>
        PROVE  Append(q, Head(t)) \o Tail(t) = q \o t
    <2>1. Head(t) \in S /\ Tail(t) \in Seq(S) /\ <<Head(t)>> \o Tail(t) = t
      BY <1>2, HeadTailProperties
    <2>2. <<Head(t)>> \in Seq(S) /\ Append(q, Head(t)) = q \o <<Head(t)>>
      BY <2>1, AppendIsConcat
    <2> QED
      BY <2>1, <2>2, ConcatAssociative
  <1>3. q \o t \in Seq(S) /\ Prefix(q, q \o t)
    <2>1. /\ q \o t \in Seq(S) /\ Len(q \o t) = Len(q) + Len(t)
          /\ \A i \in 1..Len(q) + Len(t) : (q \o t)[i] = IF i <= Len(q) THEN q[i] ELSE t[i - Len(q)]
      BY ConcatProperties
    <2>2. Len(q) \in Nat /\ Len(t) \in Nat
      BY LenProperties
    <2> QED
      BY <2>1, <2>2 DEF Prefix
  <1> QED
    BY <1>1, <1>2, <1>3

(* assign, of one candidate that is news. *)
LEMMA AssignStep ==
    ASSUME TypeInv, ModeInv, LogInv, NEW p \in Procs, Assign(p)
    PROVE  LogInv'
  <1> DEFINE c   == Head(batch[p])
             log == Log(p)
             r   == [key |-> c.key, rev |-> index[p][c.key].rev + 1, at |-> KnownAt(p, c),
                     pay |-> Payload(p, c), live |-> Live(p)]
  <1>0. SeqInv /\ JournalInv /\ WorkInv /\ CacheInv
    BY DEF LogInv
  <1>1. /\ pc[p] = "ingest" /\ batch[p] # <<>> /\ ~Duplicate(p, c)
        /\ index' = [index EXCEPT ![p][c.key] = [rev |-> r.rev, pay |-> r.pay]]
        /\ history' = [history EXCEPT ![p][c.key] = r.pay]
        /\ todo' = [todo EXCEPT ![p] = Append(todo[p], r)]
        /\ batch' = [batch EXCEPT ![p] = Tail(batch[p])]
        /\ UNCHANGED <<journal, clock, pc, stamp, cache>>
    BY DEF Assign, Rest
  <1>2. PICK S : RecordSet(S) /\ journal \in Seq(S) /\ \A q \in Procs : todo[q] \in Seq(S)
    BY <1>0 DEF SeqInv
  <1>3. /\ Good(log) /\ Agrees(log, index[p], history[p])
        /\ Timed => Past(log) /\ stamp[p] = clock
        /\ Fed => Ordered(batch[p]) /\ Behind(log, batch[p])
    BY <1>0, <1>1 DEF WorkInv, Working
  <1>4. /\ c = batch[p][1] /\ 1 \in 1..Len(batch[p]) /\ c \in Candidate /\ c.key \in Keys
        /\ p \in Backfillers => c.at \in Int
    <2>1. /\ c = batch[p][1] /\ 1 \in 1..Len(batch[p]) /\ c \in Candidate
          /\ p \in Backfillers => c \in FileCandidate
      BY <1>1, TailOfBatch DEF TypeInv
    <2> QED
      BY <2>1 DEF Candidate, FileCandidate
  <1>5. log \in Seq(S) /\ log = journal \o todo[p]
    BY <1>2, LogsGrow DEF Log
  <1> HIDE DEF c, log
  <1>6. /\ r.key = c.key /\ r.rev = Idx(log)[c.key].rev + 1 /\ r.pay = Payload(p, c)
        /\ r.at = KnownAt(p, c) /\ index[p] = Idx(log)
    BY <1>3 DEF Agrees
  <1>7. Idx(log)[c.key].rev \in Nat /\ r.at \in Int
    <2>1. Idx(log)[c.key].rev \in Nat
      <3>1. Len(log) \in Nat
        BY <1>5, LenProperties
      <3> QED
        BY <1>4, <3>1, OfKeyFinite DEF Idx
    <2>2. KnownAt(p, c) \in Int
      BY <1>4 DEF KnownAt, Live, TypeInv
    <2> QED
      BY <1>6, <2>1, <2>2
  <1> DEFINE R == S \cup {r}
  <1>8. RecordSet(R)
    BY <1>2, <1>4, <1>6, <1>7 DEF RecordSet
  <1>9. /\ r \in R /\ journal \in Seq(R) /\ (\A q \in Procs : todo[q] \in Seq(R)) /\ log \in Seq(R)
    <2>1. S \subseteq R
      OBVIOUS
    <2> QED
      BY <1>2, <1>5, <2>1, SeqMonotonic
  <1>10. Timed => r.at = clock
    BY <1>3, <1>6 DEF KnownAt, Live, Timed
  <1>11. r.pay # Idx(log)[r.key].pay
    BY <1>1, <1>6 DEF Duplicate
  <1>12. Fed => /\ r.pay = Derive(r.pay.val, Before(Hist(log, Len(log)), r.key))
                /\ \A i \in 1..Len(log) : log[i].at = r.at => log[i].key <= r.key
    <2> SUFFICES ASSUME Fed
                 PROVE  /\ r.pay = Derive(r.pay.val, Before(Hist(log, Len(log)), r.key))
                        /\ \A i \in 1..Len(log) : log[i].at = r.at => log[i].key <= r.key
      OBVIOUS
    <2>1. Timed /\ history[p] = Hist(log, Len(log))
      BY <1>3 DEF Fed, Agrees
    <2>2. r.pay = Derive(c.val, Before(Hist(log, Len(log)), r.key))
      BY <1>6, <2>1 DEF Payload
    <2>3. r.pay.val = c.val
      BY <2>2 DEF Derive
    <2>4. \A i \in 1..Len(log) : log[i].at = r.at => log[i].key <= r.key
      BY <1>3, <1>4, <1>6, <1>10, <2>1 DEF Behind
    <2> QED
      BY <2>2, <2>3, <2>4
  <1>13. Log(p)' = Append(log, r)
    <2>1. todo'[p] = Append(todo[p], r)
      BY <1>1 DEF TypeInv
    <2>2. journal \o Append(todo[p], r) = Append(journal \o todo[p], r)
      BY <1>9, LogsGrow
    <2> QED
      BY <1>1, <1>5, <2>1, <2>2 DEF Log
  <1>14. /\ index'[p] = Observe(Idx(log), r.key, r.pay)
         /\ Timed => history'[p] = Upsert(Hist(log, Len(log)), r.key, r.pay)
    <2>1. DOMAIN index = Procs /\ DOMAIN history = Procs
      BY DEF TypeInv
    <2>2. index'[p] = [index[p] EXCEPT ![c.key] = [rev |-> r.rev, pay |-> r.pay]]
      BY <1>1, <2>1
    <2>3. history'[p] = [history[p] EXCEPT ![c.key] = r.pay]
      BY <1>1, <2>1
    <2>4. Timed => history[p] = Hist(log, Len(log))
      BY <1>3 DEF Agrees
    <2> QED
      BY <1>6, <2>2, <2>3, <2>4 DEF Observe, Upsert
  <1> HIDE DEF r, R
  <1> DEFINE L == Append(log, r)
  <1>15. Timed => \A i \in 1..Len(log) : log[i].at <= r.at
    BY <1>3, <1>10 DEF Past
  <1>16. Good(L)
    BY <1>3, <1>6, <1>8, <1>9, <1>11, <1>12, <1>15, GoodAppend
  <1>17. /\ L \in Seq(R) /\ Len(L) = Len(log) + 1 /\ L[Len(log) + 1] = r /\ Len(log) \in Nat
         /\ \A i \in 1..Len(log) : L[i] = log[i]
    BY <1>9, AppendElements
  <1>18. Agrees(L, index'[p], history'[p])
    <2>1. /\ Hist(L, Len(log) + 1) = Upsert(Hist(log, Len(log)), r.key, r.pay)
          /\ Idx(L) = Observe(Idx(log), r.key, r.pay)
      BY <1>8, <1>9, ObserveRecord
    <2> HIDE DEF L
    <2> QED
      BY <1>14, <1>17, <2>1 DEF Agrees
  <1> HIDE DEF L
  <1>19. Timed => Past(L)
    <2>1. clock \in Nat /\ \A i \in 1..(Len(log) + 1) : i = Len(log) + 1 \/ i \in 1..Len(log)
      BY <1>17 DEF TypeInv
    <2> QED
      BY <1>3, <1>10, <1>17, <2>1 DEF Past
  <1>20. Fed => Ordered(Tail(batch[p])) /\ Behind(L, Tail(batch[p]))
    <2> SUFFICES ASSUME Fed PROVE Ordered(Tail(batch[p])) /\ Behind(L, Tail(batch[p]))
      OBVIOUS
    <2>1. /\ Ordered(Tail(batch[p])) /\ Behind(log, Tail(batch[p]))
      BY <1>1, <1>3, TailStaysBehind DEF TypeInv
    <2>2. \A j \in 1..Len(Tail(batch[p])) : r.key <= Tail(batch[p])[j].key
      <3>1. \A j \in 1..Len(Tail(batch[p])) :
               j + 1 \in 1..Len(batch[p]) /\ Tail(batch[p])[j] = batch[p][j + 1] /\ j \in Nat
        BY <1>1, TailOfBatch DEF TypeInv
      <3> QED
        BY <1>3, <1>4, <1>6, <3>1 DEF Ordered
    <2>3. \A i \in 1..Len(L) : i = Len(log) + 1 \/ i \in 1..Len(log)
      BY <1>17
    <2> QED
      BY <1>17, <2>1, <2>2, <2>3 DEF Behind
  <1>21. SeqInv'
    <2>1. Append(todo[p], r) \in Seq(R)
      BY <1>9, AppendElements
    <2>2. \A q \in Procs : todo'[q] \in Seq(R)
      BY <1>1, <1>9, <2>1 DEF TypeInv, r
    <2> QED
      BY <1>1, <1>8, <1>9, <2>2 DEF SeqInv
  <1>22. WorkInv'
    <2>1. \A q \in Procs : Working(q)' => q = p
      BY <1>1 DEF Working, ModeInv
    <2>2. Log(p)' = L
      BY <1>13 DEF L
    <2>3. Good(Log(p))' /\ Agrees(Log(p), index[p], history[p])'
      BY <1>16, <1>18, <2>2
    <2>4. (Timed => Past(Log(p)))'
      BY <1>1, <1>19, <2>2 DEF Past
    <2>5. Fed => Ordered(batch'[p]) /\ Behind(Log(p), batch[p])'
      <3>1. batch'[p] = Tail(batch[p])
        BY <1>1 DEF TypeInv
      <3> QED
        BY <1>1, <1>20, <2>2, <3>1 DEF Behind
    <2> QED
      BY <1>1, <1>3, <2>1, <2>3, <2>4, <2>5 DEF WorkInv
  <1>23. JournalInv' /\ CacheInv'
    BY <1>0, <1>1 DEF JournalInv, CacheInv, Past
  <1> QED
    BY <1>21, <1>22, <1>23 DEF LogInv

(* One record of the batch reaches the journal: the log stays as it was, and*)
(* every cached state is out of date.                                       *)
LEMMA AppendStep ==
    ASSUME TypeInv, ModeInv, LogInv, NEW p \in Procs, AppendOne(p)
    PROVE  LogInv'
  <1>0. SeqInv /\ JournalInv /\ WorkInv /\ CacheInv
    BY DEF LogInv
  <1>1. /\ pc[p] = "append" /\ todo[p] # <<>> /\ journal' = Append(journal, Head(todo[p]))
        /\ todo' = [todo EXCEPT ![p] = Tail(todo[p])]
        /\ UNCHANGED <<clock, pc, batch, stamp, index, history, cache>>
    BY DEF AppendOne
  <1>2. PICK S : RecordSet(S) /\ journal \in Seq(S) /\ \A q \in Procs : todo[q] \in Seq(S)
    BY <1>0 DEF SeqInv
  <1>3. Head(todo[p]) \in S /\ Tail(todo[p]) \in Seq(S)
    BY <1>1, <1>2, TailOfBatch
  <1>4. journal' \in Seq(S) /\ Len(journal') = Len(journal) + 1 /\ Len(journal) \in Nat
    BY <1>1, <1>2, <1>3, AppendElements
  <1>5. todo'[p] = Tail(todo[p]) /\ \A q \in Procs : todo'[q] \in Seq(S)
    BY <1>1, <1>2, <1>3 DEF TypeInv
  <1>6. Log(p)' = Log(p) /\ Prefix(journal', Log(p)) /\ Log(p) \in Seq(S)
    <2>1. journal' \o Tail(todo[p]) = Log(p)
      BY <1>1, <1>2, LogsGrow DEF Log
    <2>2. Prefix(journal', journal' \o Tail(todo[p])) /\ journal' \o Tail(todo[p]) \in Seq(S)
      BY <1>3, <1>4, LogsGrow
    <2> QED
      BY <1>5, <2>1, <2>2 DEF Log
  <1>7. /\ Good(Log(p)) /\ Agrees(Log(p), index[p], history[p]) /\ (Timed => Past(Log(p)))
    BY <1>0, <1>1 DEF WorkInv, Working
  <1>8. JournalInv'
    <2>1. Good(journal')
      BY <1>2, <1>4, <1>6, <1>7, GoodPrefix
    <2>2. Timed => \A i \in 1..Len(journal') : journal'[i].at <= clock
      BY <1>4, <1>6, <1>7, LenProperties DEF Past, Prefix
    <2> QED
      BY <1>1, <2>1, <2>2 DEF JournalInv, Past
  <1>9. WorkInv'
    <2>1. \A q \in Procs : Working(q)' => q = p
      BY <1>1 DEF Working, ModeInv
    <2>2. Good(Log(p))' /\ Agrees(Log(p), index[p], history[p])' /\ (Timed => Past(Log(p)))'
      BY <1>1, <1>6, <1>7 DEF Past
    <2>3. pc'[p] # "ingest"
      BY <1>1
    <2> QED
      BY <2>1, <2>2, <2>3 DEF WorkInv
  <1>10. CacheInv'
    BY <1>0, <1>1, <1>4 DEF CacheInv
  <1>11. SeqInv'
    BY <1>2, <1>4, <1>5 DEF SeqInv
  <1> QED
    BY <1>8, <1>9, <1>10, <1>11 DEF LogInv
(* The state of a batch that is appended agrees with the journal, and may be*)
(* cached under its fingerprint.                                            *)
LEMMA CacheStep ==
    ASSUME TypeInv, ModeInv, LogInv, NEW p \in Procs, Finish(p) \/ StampCache(p)
    PROVE  LogInv'
  <1> DEFINE kept == [fp |-> Fingerprint, index |-> index[p], history |-> history[p]]
  <1>0. SeqInv /\ JournalInv /\ WorkInv /\ CacheInv
    BY DEF LogInv
  <1>1. /\ Working(p) /\ todo[p] = <<>> /\ pc'[p] \in {"idle", "ready", "stamp"}
        /\ \A q \in Procs \ {p} : pc'[q] = pc[q]
        /\ cache' = cache \/ cache' = [cache EXCEPT ![p] = kept]
        /\ UNCHANGED <<journal, torn, clock, batch, stamp, index, history, todo>>
    BY DEF Finish, StampCache, Working, ModeInv, TypeInv
  <1>2. SeqInv' /\ JournalInv' /\ WorkInv'
    <2>1. \A q \in Procs : Working(q)' => Working(q)
      BY <1>1 DEF Working
    <2>2. \A q \in Procs : pc'[q] = "ingest" => pc[q] = "ingest"
      BY <1>1
    <2> QED
      BY <1>1, <2>1, <2>2, QuietStep
  <1>3. PICK S : journal \in Seq(S)
    BY <1>0 DEF SeqInv
  <1>4. Agrees(journal, index[p], history[p])
    BY <1>0, <1>1, <1>3, EmptyTodo DEF WorkInv
  <1>5. /\ kept.fp = <<Len(journal), torn>> /\ Len(journal) \in Nat /\ torn \in BOOLEAN
        /\ Agrees(journal, kept.index, kept.history)
    BY <1>3, <1>4, LenProperties DEF Fingerprint, TypeInv
  <1> HIDE DEF kept
  <1>6. CacheInv'
    <2> SUFFICES ASSUME NEW q \in Procs, cache'[q] # None
                 PROVE  \E n \in Nat, t \in BOOLEAN :
                           /\ cache'[q].fp = <<n, t>> /\ n <= Len(journal)
                           /\ n = Len(journal) => Agrees(journal, cache'[q].index, cache'[q].history)
      BY <1>1 DEF CacheInv
    <2>1. CASE cache'[q] = cache[q]
      BY <1>0, <2>1 DEF CacheInv
    <2>2. CASE cache'[q] = kept
      BY <1>5, <2>2
    <2> QED
      BY <1>1, <2>1, <2>2 DEF TypeInv
  <1> QED
    BY <1>2, <1>6 DEF LogInv

(* collect_once starts from its cache, or from the journal. *)
LEMMA CollectStep ==
    ASSUME Disciplined, TypeInv, ModeInv, LogInv, NEW p \in Procs, NEW b \in LiveBatches, CollectOnce(p, b)
    PROVE  LogInv'
  <1> DEFINE from == IF cache[p] # None /\ cache[p].fp = Fingerprint THEN cache[p] ELSE HistoryFor
  <1>0. SeqInv /\ JournalInv /\ WorkInv /\ CacheInv
    BY DEF LogInv
  <1>1. /\ BeginIngest(p, b, from) /\ UNCHANGED journal
        /\ clock' = clock + 1 /\ stamp' = [stamp EXCEPT ![p] = clock + 1]
        /\ cache' = [cache EXCEPT ![p] = None]
    BY DEF CollectOnce
  <1>2. (\A q \in Procs \ {p} : ~Working(q)) /\ ~torn
    BY StartsAlone DEF CollectOnce
  <1>3. Agrees(journal, from.index, from.history)
    <2>1. CASE cache[p] # None /\ cache[p].fp = Fingerprint
      BY <1>0, <2>1 DEF CacheInv, Fingerprint
    <2>2. CASE ~(cache[p] # None /\ cache[p].fp = Fingerprint)
      BY <1>0, <1>2, <2>2, HistoryAgrees DEF SeqInv, JournalInv
    <2> QED
      BY <2>1, <2>2
  <1>4. stamp'[p] = clock' /\ \A q \in Procs : cache'[q] \in {cache[q], None}
    BY <1>1 DEF TypeInv
  <1> HIDE DEF from
  <1> QED
    BY <1>1, <1>2, <1>3, <1>4, BeginStep DEF Fed

(* _cmd_backfill starts from the journal. *)
LEMMA BackfillStep ==
    ASSUME Disciplined, TypeInv, ModeInv, LogInv, NEW p \in Procs, NEW b \in FileBatches, Backfill(p, b)
    PROVE  LogInv'
  <1>0. SeqInv /\ JournalInv
    BY DEF LogInv
  <1>1. /\ BeginIngest(p, b, HistoryFor) /\ UNCHANGED <<journal, cache>>
        /\ p \in Backfillers /\ pc[p] = "idle" /\ Alone(p) /\ p \notin Daemons
    BY IngestAssumption DEF Backfill
  <1>2. (\A q \in Procs \ {p} : ~Working(q)) /\ ~torn
    BY <1>1, StartsAlone
  <1>3. Agrees(journal, HistoryFor.index, HistoryFor.history)
    BY <1>0, <1>2, HistoryAgrees DEF SeqInv, JournalInv
  <1>4. ~Timed /\ ~Fed
    BY <1>1 DEF Timed, Fed
  <1> QED
    BY <1>1, <1>2, <1>3, <1>4, BeginStep

Inv == TypeInv /\ ModeInv /\ LogInv

LEMMA InitInv == Init => Inv
  <1>1. Init => ModeInv
    BY DEF Init, ModeInv, Working, Procs
  <1> QED
    BY <1>1, InitType, InitLog DEF Inv

LEMMA NextInv ==
    ASSUME Disciplined
    PROVE  Inv /\ [Next]_vars => Inv'
  <1> SUFFICES ASSUME Inv, [Next]_vars PROVE Inv'
    OBVIOUS
  <1>0. TypeInv /\ ModeInv /\ LogInv /\ TypeInv' /\ ModeInv'
    BY NextType, NextMode DEF Inv
  <1>1. ASSUME NEW p \in Procs, StartDaemon(p) \/ StopDaemon(p) \/ OpenWriter(p)
        PROVE  LogInv'
    <2>1. /\ UNCHANGED <<journal, clock, batch, stamp, index, history>>
          /\ \A q \in Procs : todo'[q] \in {todo[q], <<>>} /\ cache'[q] \in {cache[q], None}
          /\ \A q \in Procs : pc'[q] \in {"ingest", "append", "stamp"} =>
                pc[q] \in {"ingest", "append", "stamp"} /\ todo'[q] = todo[q]
          /\ \A q \in Procs : pc'[q] = "ingest" => pc[q] = "ingest"
      BY <1>0, <1>1 DEF TypeInv, StartDaemon, StopDaemon, OpenWriter
    <2>2. \A q \in Procs : Working(q)' => Working(q) /\ todo'[q] = todo[q]
      BY <2>1 DEF Working
    <2> QED
      BY <1>0, <2>1, <2>2, QuietStep DEF LogInv
  <1>2. ASSUME NEW p \in Procs, Crash(p)
        PROVE  LogInv'
    <2>1. /\ UNCHANGED <<journal, clock, stamp, index, history>>
          /\ \A q \in Procs : todo'[q] \in {todo[q], <<>>} /\ cache'[q] \in {cache[q], None}
          /\ pc'[p] = "idle"
          /\ \A q \in Procs \ {p} : pc'[q] = pc[q] /\ todo'[q] = todo[q] /\ batch'[q] = batch[q]
      BY <1>0, <1>2 DEF TypeInv, Crash
    <2>2. \A q \in Procs : Working(q)' => Working(q) /\ todo'[q] = todo[q]
      BY <2>1 DEF Working
    <2>3. \A q \in Procs : pc'[q] = "ingest" => pc[q] = "ingest" /\ batch'[q] = batch[q]
      BY <2>1
    <2> QED
      BY <1>0, <2>1, <2>2, <2>3, QuietStep DEF LogInv
  <1>3. ASSUME NEW p \in Procs, Refuse(p) \/ Drop(p)
        PROVE  LogInv'
    <2>1. /\ UNCHANGED <<journal, clock, pc, stamp, index, history, todo, cache>>
          /\ \A q \in Procs : batch'[q] = batch[q] \/ (batch[q] # <<>> /\ batch'[q] = Tail(batch[q]))
      BY <1>0, <1>3 DEF TypeInv, Refuse, Drop, Rest
    <2>2. \A q \in Procs : Working(q)' => Working(q)
      BY <2>1 DEF Working
    <2> QED
      BY <1>0, <2>1, <2>2, QuietStep DEF LogInv
  <1>4. ASSUME UNCHANGED vars
        PROVE  LogInv'
    <2>1. UNCHANGED <<journal, clock, pc, batch, stamp, index, history, todo, cache>>
      BY <1>4 DEF vars, procVars
    <2>2. \A q \in Procs : Working(q)' => Working(q)
      BY <2>1 DEF Working
    <2> QED
      BY <1>0, <2>1, <2>2, QuietStep DEF LogInv
  <1>5. LogInv'
    <2>1. ASSUME NEW p \in Procs, \E b \in LiveBatches : CollectOnce(p, b)
          PROVE  LogInv'
      BY <1>0, <2>1, CollectStep
    <2>2. ASSUME NEW p \in Procs, \E b \in FileBatches : Backfill(p, b)
          PROVE  LogInv'
      BY <1>0, <2>2, BackfillStep
    <2>3. ASSUME NEW p \in Procs, Assign(p) \/ AppendOne(p) \/ Finish(p) \/ StampCache(p)
          PROVE  LogInv'
      BY <1>0, <2>3, AssignStep, AppendStep, CacheStep
    <2> QED
      BY <1>1, <1>2, <1>3, <1>4, <2>1, <2>2, <2>3 DEF Next
  <1> QED
    BY <1>0, <1>5 DEF Inv

-----------------------------------------------------------------------------
(* The revisions of a key are 1, 2, 3, ... in the order they were           *)
(* journalled: whatever daemons crash, restart and take over from each      *)
(* other, or whatever commands, backfills among them, run one by one.       *)
THEOREM RevisionsAreContiguous ==
    ASSUME Disciplined
    PROVE  Spec => []RevisionsContiguous
  <1>1. Inv => RevisionsContiguous
    <2> SUFFICES ASSUME Inv, NEW i \in DOMAIN journal
                 PROVE  journal[i].rev = Cardinality(EarlierOfKey(i)) + 1
      BY DEF RevisionsContiguous
    <2>1. DOMAIN journal = 1..Len(journal)
      BY LenProperties DEF Inv, LogInv, SeqInv
    <2>2. EarlierOfKey(i) = OfKey(journal, 1..(i - 1), journal[i].key)
      BY DEF EarlierOfKey, OfKey
    <2> QED
      BY <2>1, <2>2 DEF Inv, LogInv, JournalInv, Good, Revised
  <1> QED
    BY <1>1, InitInv, NextInv, PTL DEF Spec

(* An unchanged repeat is never journalled. *)
THEOREM RepeatsAreDropped ==
    ASSUME Disciplined
    PROVE  Spec => []NoEchoes
  <1>1. Inv => NoEchoes
    <2> SUFFICES ASSUME Inv, NEW i \in DOMAIN journal, NEW j \in EarlierOfKey(i),
                        journal[j].rev = journal[i].rev - 1
                 PROVE  journal[j].pay # journal[i].pay
      BY DEF NoEchoes
    <2>1. DOMAIN journal = 1..Len(journal) /\ Len(journal) \in Nat
      BY LenProperties DEF Inv, LogInv, SeqInv
    <2>2. j \in 1..Len(journal) /\ j < i /\ journal[j].key = journal[i].key
      BY <2>1 DEF EarlierOfKey
    <2> QED
      BY <2>1, <2>2 DEF Inv, LogInv, JournalInv, Good, Fresh
  <1> QED
    BY <1>1, InitInv, NextInv, PTL DEF Spec

(* Where no backfill dates records itself, the state kept between polls     *)
(* "stays equal to a rebuild".                                              *)
THEOREM CacheIsARebuild ==
    ASSUME Disciplined, Timed
    PROVE  Spec => []CacheEqualsRebuild
  <1>1. Inv => CacheEqualsRebuild
    <2> SUFFICES ASSUME Inv, NEW p \in Procs, cache[p] # None, cache[p].fp = Fingerprint, ~torn
                 PROVE  /\ cache[p].index = RebuiltIndex(journal)
                        /\ cache[p].history = RebuiltHistory(journal)
      BY DEF CacheEqualsRebuild
    <2>1. Agrees(journal, cache[p].index, cache[p].history)
      BY DEF Inv, LogInv, CacheInv, Fingerprint
    <2>2. Agrees(journal, HistoryFor.index, HistoryFor.history)
      BY HistoryAgrees DEF Inv, LogInv, SeqInv, JournalInv
    <2>3. HistoryFor.index = RebuiltIndex(journal) /\ HistoryFor.history = RebuiltHistory(journal)
      BY DEF HistoryFor
    <2> QED
      BY <2>1, <2>2, <2>3 DEF Agrees
  <1> QED
    BY <1>1, InitInv, NextInv, PTL DEF Spec

(* Where, besides, every fetch lists facts oldest first, the journal is in  *)
(* sort_key order and every derived field recomputes: the dataset always    *)
(* compiles.                                                                *)
THEOREM DatasetCompiles ==
    ASSUME Disciplined, Fed
    PROVE  Spec => []CompileVerifies
  <1>1. Inv => CompileVerifies
    <2> SUFFICES ASSUME Inv, NEW i \in DOMAIN journal
                 PROVE  LET known == {j \in DOMAIN journal : SortsBefore(journal, j, i)}
                        IN journal[i].pay = Derive(journal[i].pay.val,
                                                   Before(Upserted(journal, known), journal[i].key))
      BY DEF CompileVerifies
    <2>1. PICK S : RecordSet(S) /\ journal \in Seq(S)
      BY DEF Inv, LogInv, SeqInv
    <2>2. DOMAIN journal = 1..Len(journal) /\ Len(journal) \in Nat /\ i \in 1..Len(journal)
      BY <2>1, LenProperties
    <2>3. \A j \in 1..Len(journal) : journal[j].key \in Nat /\ journal[j].at \in Int /\ journal[j].rev \in Nat
      <3>1. \A j \in 1..Len(journal) : journal[j] \in S
        BY <2>1, ElementOfSeq
      <3> QED
        BY <2>1, <3>1, IngestAssumption DEF RecordSet
    <2>4. Sorted(journal) /\ Derived(journal) /\ Revised(journal) /\ Timely(journal)
      BY DEF Inv, LogInv, JournalInv, Good, Fed
    <2>5. {j \in DOMAIN journal : SortsBefore(journal, j, i)} = 1..(i - 1)
      <3>1. ASSUME NEW j \in 1..Len(journal)
            PROVE  SortsBefore(journal, j, i) <=> j < i
        <4>1. CASE j < i
          BY <2>2, <2>4, <4>1 DEF Sorted
        <4>2. CASE j >= i
          <5>1. j = i \/ SortsBefore(journal, i, j)
            BY <2>2, <2>4, <4>2 DEF Sorted
          <5> QED
            BY <2>2, <2>3, <4>2, <5>1 DEF SortsBefore
        <4> QED
          BY <2>2, <4>1, <4>2
      <3> QED
        BY <2>2, <3>1
    <2>6. i - 1 \in 0..Len(journal)
      BY <2>2
    <2>7. Upserted(journal, 1..(i - 1)) = Hist(journal, i - 1)
      BY <2>1, <2>4, <2>6, UpsertedIsHist
    <2> QED
      BY <2>2, <2>4, <2>5, <2>7 DEF Derived
  <1> QED
    BY <1>1, InitInv, NextInv, PTL DEF Spec
-----------------------------------------------------------------------------
(* What has become of the n-th candidate of a batch when d of them are done *)
(* with and log is what will be journalled: it is among the refused, or in  *)
(* the log, where it is the last of its key unless a later one supersedes   *)
(* it.  ok and out are the candidates that may supersede, and those in      *)
(* quarantine.                                                              *)
Settled(all, ok, out, d, log, n) ==
    \/ n \notin ok /\ n \in out
    \/ /\ \E i \in 1..Len(log) : log[i].key = all[n].key /\ log[i].pay.val = all[n].val
       /\ \/ \E m \in (n + 1)..d : all[m].key = all[n].key /\ m \in ok
          \/ Hist(log, Len(log))[all[n].key].val = all[n].val

MayCount(p) == {n \in 1..Len(offered[p]) : Accepted(p, offered[p][n])}
Out(p)      == {n \in 1..Len(offered[p]) : InQuarantine(p, offered[p][n])}

(* Process p has d candidates of its batch behind it, and each is settled.  *)
Handled(p, d) ==
    /\ d + Len(batch[p]) = Len(offered[p])
    /\ \A i \in 1..Len(batch[p]) : batch[p][i] = offered[p][d + i]
    /\ \A n \in 1..d : Settled(offered[p], MayCount(p), Out(p), d, Log(p), n)

OfferOf(p) ==
    pc[p] \in {"ingest", "append"} =>
        /\ \E d \in Nat : Handled(p, d)
        /\ pc[p] = "append" => batch[p] = <<>>

OfferInv == \A p \in Procs : OfferOf(p)

(* A candidate settled stays so when the next one is refused or repeats ... *)
LEMMA SettledStays ==
    ASSUME NEW all, NEW ok, NEW out, NEW out2, out \subseteq out2, NEW d \in Nat, NEW log, NEW n \in 1..d,
           Settled(all, ok, out, d, log, n)
    PROVE  Settled(all, ok, out2, d, log, n) /\ Settled(all, ok, out2, d + 1, log, n)
  <1>1. \A m \in (n + 1)..d : m \in (n + 1)..(d + 1)
    OBVIOUS
  <1> QED
    BY <1>1 DEF Settled

(* ... and when it becomes a record of its own.                             *)
LEMMA SettledByRecord ==
    ASSUME NEW S, RecordSet(S), NEW log \in Seq(S), NEW r \in S,
           NEW all, NEW ok, NEW out, NEW d \in Nat, d + 1 \in ok,
           r.key = all[d + 1].key, r.pay.val = all[d + 1].val,
           \A n \in 1..d : all[n].key \in Keys,
           \A n \in 1..d : Settled(all, ok, out, d, log, n)
    PROVE  \A n \in 1..(d + 1) : Settled(all, ok, out, d + 1, Append(log, r), n)
  <1> DEFINE L == Append(log, r)
             k == Len(log)
  <1>1. /\ k \in Nat /\ Len(L) = k + 1 /\ L[k + 1] = r /\ \A i \in 1..k : L[i] = log[i]
    BY AppendElements
  <1>2. /\ Hist(L, Len(L)) = [Hist(log, k) EXCEPT ![r.key] = r.pay]
        /\ DOMAIN Hist(log, k) = Keys /\ r.key \in Keys
    <2>1. Hist(L, k + 1) = Upsert(Hist(log, k), r.key, r.pay)
      BY ObserveRecord
    <2> HIDE DEF L
    <2> QED
      BY <1>1, <2>1 DEF Upsert, Hist, RecordSet
  <1> HIDE DEF L, k
  <1>3. Settled(all, ok, out, d + 1, L, d + 1)
    <2>1. Hist(L, Len(L))[r.key] = r.pay
      BY <1>2
    <2>2. k + 1 \in 1..Len(L) /\ L[k + 1] = r
      BY <1>1
    <2> QED
      BY <2>1, <2>2 DEF Settled
  <1>4. ASSUME NEW n \in 1..d
        PROVE  Settled(all, ok, out, d + 1, L, n)
    <2>1. Settled(all, ok, out, d, log, n)
      OBVIOUS
    <2>2. CASE n \notin ok /\ n \in out
      BY <2>2 DEF Settled
    <2>3. CASE ~(n \notin ok /\ n \in out)
      <3>1. \E i \in 1..Len(L) : L[i].key = all[n].key /\ L[i].pay.val = all[n].val
        <4>1. PICK i \in 1..k : log[i].key = all[n].key /\ log[i].pay.val = all[n].val
          BY <2>1, <2>3 DEF Settled, k
        <4>2. i \in 1..Len(L) /\ L[i] = log[i]
          BY <1>1
        <4> QED
          BY <4>1, <4>2
      <3>2. \/ \E m \in (n + 1)..(d + 1) : all[m].key = all[n].key /\ m \in ok
            \/ Hist(L, Len(L))[all[n].key].val = all[n].val
        <4>1. CASE all[n].key = r.key
          <5>1. d + 1 \in (n + 1)..(d + 1) /\ all[d + 1].key = all[n].key
            BY <4>1
          <5> QED
            BY <5>1
        <4>2. CASE all[n].key # r.key
          <5>1. Hist(L, Len(L))[all[n].key] = Hist(log, k)[all[n].key]
            BY <1>2, <4>2
          <5>2. \A m \in (n + 1)..d : m \in (n + 1)..(d + 1)
            OBVIOUS
          <5> QED
            BY <2>1, <2>3, <5>1, <5>2 DEF Settled, k
        <4> QED
          BY <4>1, <4>2
      <3> QED
        BY <3>1, <3>2 DEF Settled
    <2> QED
      BY <2>2, <2>3
  <1>5. \A n \in 1..(d + 1) : n = d + 1 \/ n \in 1..d
    OBVIOUS
  <1> QED
    BY <1>3, <1>4, <1>5 DEF L

(* A candidate that repeats the last record of its key is settled.          *)
LEMMA SettledByRepeat ==
    ASSUME \A v, x : [val |-> v, chg |-> x] # None,
           NEW S, NEW log \in Seq(S), NEW all, NEW ok, NEW out, NEW d, NEW n, all[n].key \in Keys,
           NEW x, Hist(log, Len(log))[all[n].key] = [val |-> all[n].val, chg |-> x]
    PROVE  Settled(all, ok, out, d, log, n)
  <1> DEFINE mine == OfKey(log, 1..Len(log), all[n].key)
  <1>0. Len(log) \in Nat
    BY LenProperties
  <1>1. Hist(log, Len(log))[all[n].key] = IF mine = {} THEN None ELSE log[Newest(mine)].pay
    BY DEF Hist
  <1>2. mine # {} /\ mine \in SUBSET (1..Len(log))
    <2>1. [val |-> all[n].val, chg |-> x] # None
      OBVIOUS
    <2>2. mine \in SUBSET (1..Len(log))
      BY <1>0, OfKeyFinite
    <2> HIDE DEF mine
    <2> QED
      BY <1>1, <2>1, <2>2
  <1>3. Newest(mine) \in mine
    BY <1>0, <1>2, NewestIsLast
  <1>4. Newest(mine) \in 1..Len(log) /\ log[Newest(mine)].key = all[n].key
    BY <1>3 DEF OfKey
  <1>5. log[Newest(mine)].pay = [val |-> all[n].val, chg |-> x]
    <2> HIDE DEF mine
    <2> QED
      BY <1>1, <1>2
  <1> HIDE DEF mine
  <1>6. log[Newest(mine)].pay.val = all[n].val /\ Hist(log, Len(log))[all[n].key].val = all[n].val
    BY <1>5
  <1> QED
    BY <1>4, <1>6 DEF Settled

(* What a step leaves of a batch that it does not touch.                    *)
LEMMA OfferKept ==
    ASSUME OfferInv, NEW p \in Procs, quarantined \subseteq quarantined',
           pc'[p] \in {"ingest", "append"} =>
               /\ pc[p] \in {"ingest", "append"} /\ Log(p)' = Log(p)
               /\ offered'[p] = offered[p] /\ stamp'[p] = stamp[p] /\ batch'[p] = batch[p]
               /\ pc'[p] = "append" => batch[p] = <<>>
    PROVE  OfferOf(p)'
  <1> SUFFICES ASSUME pc'[p] \in {"ingest", "append"}
               PROVE  /\ \E d \in Nat : Handled(p, d)'
                      /\ pc'[p] = "append" => batch'[p] = <<>>
    BY DEF OfferOf
  <1>1. PICK d \in Nat : Handled(p, d)
    BY DEF OfferInv, OfferOf
  <1>2. MayCount(p)' = MayCount(p) /\ Out(p) \subseteq Out(p)'
    <2>1. MayCount(p)' = MayCount(p)
      BY DEF MayCount, Accepted, Refused, Stale, KnownAt, Live
    <2>2. Out(p) \subseteq Out(p)'
      BY DEF Out, InQuarantine
    <2> QED
      BY <2>1, <2>2
  <1>3. \A n \in 1..d : Settled(offered[p], MayCount(p), Out(p)', d, Log(p), n)
    BY <1>1, <1>2, SettledStays DEF Handled
  <1>4. /\ offered'[p] = offered[p] /\ batch'[p] = batch[p] /\ Log(p)' = Log(p)
        /\ MayCount(p)' = MayCount(p)
    BY <1>2
  <1>5. Handled(p, d)'
    BY <1>1, <1>3, <1>4 DEF Handled
  <1> QED
    BY <1>5

(* One more candidate of a batch is dealt with. *)
LEMMA OfferAdvances ==
    ASSUME TypeInv, OfferInv, NEW p \in Procs, pc[p] = "ingest", batch[p] # <<>>,
           batch' = [batch EXCEPT ![p] = Tail(batch[p])], UNCHANGED <<pc, offered, stamp>>,
           \A d \in Nat :
               (/\ d + 1 \in 1..Len(offered[p]) /\ offered[p][d + 1] = Head(batch[p])
                /\ \A n \in 1..d : Settled(offered[p], MayCount(p), Out(p), d, Log(p), n))
               => \A n \in 1..(d + 1) : Settled(offered[p], MayCount(p), Out(p)', d + 1, Log(p)', n)
    PROVE  OfferOf(p)'
  <1>1. PICK d \in Nat : Handled(p, d)
    BY DEF OfferInv, OfferOf
  <1>2. /\ batch[p] \in Seq(Candidate) /\ batch'[p] = Tail(batch[p]) /\ offered[p] \in Seq(Candidate)
        /\ Len(offered[p]) \in Nat
    BY LenProperties DEF TypeInv
  <1>3. /\ Len(batch[p]) \in Nat /\ Len(Tail(batch[p])) = Len(batch[p]) - 1
        /\ Head(batch[p]) = batch[p][1] /\ 1 \in 1..Len(batch[p])
        /\ \A i \in 1..Len(Tail(batch[p])) : i + 1 \in 1..Len(batch[p]) /\ Tail(batch[p])[i] = batch[p][i + 1]
    BY <1>2, TailOfBatch
  <1>4. d + 1 \in 1..Len(offered[p]) /\ offered[p][d + 1] = Head(batch[p])
    BY <1>1, <1>2, <1>3 DEF Handled
  <1>5. \A n \in 1..(d + 1) : Settled(offered[p], MayCount(p), Out(p)', d + 1, Log(p)', n)
    BY <1>1, <1>4 DEF Handled
  <1>6. MayCount(p)' = MayCount(p)
    BY DEF MayCount, Accepted, Refused, Stale, KnownAt, Live
  <1>7. /\ (d + 1) + Len(batch'[p]) = Len(offered'[p])
        /\ \A i \in 1..Len(batch'[p]) : batch'[p][i] = offered'[p][(d + 1) + i]
    <2>1. Len(batch[p]) + d = Len(offered[p]) /\ offered'[p] = offered[p]
      BY <1>1 DEF Handled
    <2>2. ASSUME NEW i \in 1..Len(Tail(batch[p]))
          PROVE  Tail(batch[p])[i] = offered[p][(d + 1) + i]
      <3>1. i + 1 \in 1..Len(batch[p]) /\ Tail(batch[p])[i] = batch[p][i + 1]
        BY <1>3
      <3>2. batch[p][i + 1] = offered[p][d + (i + 1)]
        BY <1>1, <3>1 DEF Handled
      <3>3. d + (i + 1) = (d + 1) + i
        BY <1>3
      <3> QED
        BY <3>1, <3>2, <3>3
    <2>3. /\ Len(Tail(batch[p])) = Len(batch[p]) - 1 /\ Len(batch[p]) \in Nat
          /\ batch'[p] = Tail(batch[p])
      BY <1>2, <1>3
    <2>4. (d + 1) + Len(Tail(batch[p])) = Len(offered[p])
      <3> DEFINE rest == Len(Tail(batch[p]))
                 all  == Len(batch[p])
      <3>1. rest = all - 1 /\ all \in Nat /\ all + d = Len(offered[p])
        BY <2>1, <2>3
      <3> HIDE DEF rest, all
      <3>2. (d + 1) + rest = all + d
        BY <3>1
      <3> QED
        BY <3>1, <3>2 DEF rest
    <2>5. \A i \in 1..Len(batch'[p]) : batch'[p][i] = offered'[p][(d + 1) + i]
      <3> DEFINE b2 == batch'[p]
                 o2 == offered'[p]
      <3>1. b2 = Tail(batch[p]) /\ o2 = offered[p]
        BY <2>1, <2>3
      <3> HIDE DEF b2, o2
      <3>2. \A i \in 1..Len(b2) : b2[i] = o2[(d + 1) + i]
        BY <2>2, <3>1
      <3> QED
        BY <3>2 DEF b2, o2
    <2> QED
      BY <2>1, <2>3, <2>4, <2>5
  <1>8. Handled(p, d + 1)'
    BY <1>5, <1>6, <1>7 DEF Handled
  <1>9. d + 1 \in Nat
    OBVIOUS
  <1> QED
    BY <1>8, <1>9 DEF OfferOf

LEMMA OfferRefused ==
    ASSUME TypeInv, OfferInv, NEW p \in Procs, Refuse(p)
    PROVE  OfferOf(p)'
  <1>0. PICK c : c = Head(batch[p])
    OBVIOUS
  <1> DEFINE entry == [key |-> c.key, val |-> c.val, now |-> stamp[p]]
  <1>1. /\ pc[p] = "ingest" /\ batch[p] # <<>> /\ ~Accepted(p, c)
        /\ quarantined' = quarantined \cup {entry}
        /\ batch' = [batch EXCEPT ![p] = Tail(batch[p])]
        /\ UNCHANGED <<journal, pc, offered, stamp, todo>>
    BY <1>0 DEF Refuse, Rest, Accepted
  <1>2. InQuarantine(p, c)'
    <2>1. entry \in quarantined' /\ entry.key = c.key /\ entry.val = c.val /\ entry.now = stamp'[p]
      BY <1>1
    <2> HIDE DEF entry
    <2> QED
      BY <1>1, <2>1 DEF InQuarantine
  <1>3. Out(p) \subseteq Out(p)' /\ Log(p)' = Log(p)
    BY <1>1 DEF Out, InQuarantine, Log
  <1>4. ASSUME NEW d \in Nat, d + 1 \in 1..Len(offered[p]), offered[p][d + 1] = c,
               \A n \in 1..d : Settled(offered[p], MayCount(p), Out(p), d, Log(p), n),
               NEW n \in 1..(d + 1)
        PROVE  Settled(offered[p], MayCount(p), Out(p)', d + 1, Log(p)', n)
    <2>1. CASE n = d + 1
      <3>1. n \notin MayCount(p) /\ n \in Out(p)'
        BY <1>1, <1>2, <1>4, <2>1 DEF MayCount, Out, InQuarantine
      <3> QED
        BY <3>1 DEF Settled
    <2>2. CASE n \in 1..d
      BY <1>3, <1>4, <2>2, SettledStays
    <2> QED
      BY <2>1, <2>2
  <1> QED
    BY <1>0, <1>1, <1>4, OfferAdvances

LEMMA OfferDropped ==
    ASSUME \A v, x : [val |-> v, chg |-> x] # None,
           TypeInv, LogInv, OfferInv, NEW p \in Procs, Drop(p)
    PROVE  OfferOf(p)'
  <1> DEFINE c == Head(batch[p])
  <1>1. /\ pc[p] = "ingest" /\ batch[p] # <<>> /\ index[p][c.key].pay = Payload(p, c)
        /\ batch' = [batch EXCEPT ![p] = Tail(batch[p])]
        /\ UNCHANGED <<journal, pc, offered, stamp, todo, quarantined>>
    BY DEF Drop, Rest, Duplicate
  <1>2. Out(p)' = Out(p) /\ Log(p)' = Log(p)
    BY <1>1 DEF Out, InQuarantine, Log
  <1>3. c.key \in Keys
    <2>1. c \in Candidate
      BY <1>1, TailOfBatch DEF TypeInv
    <2> QED
      BY <2>1 DEF Candidate, FileCandidate
  <1>4. PICK S, x : Log(p) \in Seq(S) /\ Payload(p, c) = [val |-> c.val, chg |-> x]
    <2>1. PICK S : Log(p) \in Seq(S)
      BY LogsGrow DEF LogInv, SeqInv, Log
    <2>2. \E x : Payload(p, c) = [val |-> c.val, chg |-> x]
      BY DEF Payload, Derive
    <2> QED
      BY <2>1, <2>2
  <1>5. Hist(Log(p), Len(Log(p)))[c.key] = [val |-> c.val, chg |-> x]
    <2>1. index[p] = Idx(Log(p))
      BY <1>1 DEF LogInv, WorkInv, Working, Agrees
    <2> HIDE DEF c
    <2> QED
      BY <1>1, <1>3, <1>4, <2>1 DEF Idx
  <1> HIDE DEF c
  <1>6. ASSUME NEW d \in Nat, d + 1 \in 1..Len(offered[p]), offered[p][d + 1] = c,
               \A n \in 1..d : Settled(offered[p], MayCount(p), Out(p), d, Log(p), n),
               NEW n \in 1..(d + 1)
        PROVE  Settled(offered[p], MayCount(p), Out(p)', d + 1, Log(p)', n)
    <2>1. CASE n = d + 1
      BY <1>2, <1>3, <1>4, <1>5, <1>6, <2>1, SettledByRepeat
    <2>2. CASE n \in 1..d
      BY <1>2, <1>6, <2>2, SettledStays
    <2> QED
      BY <2>1, <2>2
  <1> QED
    BY <1>1, <1>6, OfferAdvances DEF c

LEMMA OfferAssigned ==
    ASSUME TypeInv, LogInv, LogInv', OfferInv, NEW p \in Procs, Assign(p)
    PROVE  OfferOf(p)'
  <1> DEFINE c == Head(batch[p])
             r == [key |-> c.key, rev |-> index[p][c.key].rev + 1, at |-> KnownAt(p, c),
                   pay |-> Payload(p, c), live |-> Live(p)]
  <1>1. /\ pc[p] = "ingest" /\ batch[p] # <<>> /\ Accepted(p, c)
        /\ todo' = [todo EXCEPT ![p] = Append(todo[p], r)]
        /\ batch' = [batch EXCEPT ![p] = Tail(batch[p])]
        /\ UNCHANGED <<journal, pc, offered, stamp, quarantined>>
    BY DEF Assign, Rest, Accepted
  <1>2. Out(p)' = Out(p)
    BY <1>1 DEF Out, InQuarantine
  <1>3. r.key = c.key /\ r.pay.val = c.val
    BY DEF Payload, Derive
  <1>4. todo'[p] = Append(todo[p], r)
    BY <1>1 DEF TypeInv
  <1>5. PICK S : RecordSet(S) /\ journal \in Seq(S) /\ todo[p] \in Seq(S) /\ r \in S
    <2>1. PICK T : RecordSet(T) /\ \A q \in Procs : todo'[q] \in Seq(T)
      BY DEF LogInv, SeqInv
    <2>2. PICK U : RecordSet(U) /\ journal \in Seq(U) /\ todo[p] \in Seq(U)
      BY DEF LogInv, SeqInv
    <2>3. r \in T
      <3>1. Append(todo[p], r) \in Seq(T) /\ Append(todo[p], r) \in Seq(T \cup U \cup {r})
        <4>1. todo[p] \in Seq(T \cup U \cup {r}) /\ r \in T \cup U \cup {r}
          BY <2>2, SeqMonotonic
        <4> QED
          BY <1>4, <2>1, <4>1, AppendProperties
      <3>2. Len(todo[p]) \in Nat /\ Len(Append(todo[p], r)) = Len(todo[p]) + 1 /\ Append(todo[p], r)[Len(todo[p]) + 1] = r
        BY <2>2, AppendElements, SeqMonotonic, LenProperties, AppendProperties
      <3> HIDE DEF r
      <3>3. Append(todo[p], r)[Len(todo[p]) + 1] \in T
        BY <3>1, <3>2, ElementOfSeq
      <3> QED
        BY <3>2, <3>3
    <2> HIDE DEF r
    <2>4. RecordSet(T \cup U) /\ journal \in Seq(T \cup U) /\ todo[p] \in Seq(T \cup U) /\ r \in T \cup U
      BY <2>1, <2>2, <2>3, SeqMonotonic DEF RecordSet
    <2> QED
      BY <2>4
  <1> HIDE DEF r
  <1>6. Log(p)' = Append(Log(p), r) /\ Log(p) \in Seq(S)
    BY <1>1, <1>4, <1>5, LogsGrow DEF Log
  <1> HIDE DEF c
  <1>7. ASSUME NEW d \in Nat, d + 1 \in 1..Len(offered[p]), offered[p][d + 1] = c,
               \A n \in 1..d : Settled(offered[p], MayCount(p), Out(p), d, Log(p), n)
        PROVE  \A n \in 1..(d + 1) : Settled(offered[p], MayCount(p), Out(p)', d + 1, Log(p)', n)
    <2>1. \A n \in 1..d : offered[p][n].key \in Keys
      <3>1. offered[p] \in Seq(Candidate) /\ Len(offered[p]) \in Nat
        BY LenProperties DEF TypeInv
      <3>2. \A n \in 1..d : offered[p][n] \in Candidate
        BY <1>7, <3>1, ElementOfSeq
      <3> QED
        BY <3>2 DEF Candidate, FileCandidate
    <2>2. d + 1 \in MayCount(p)
      BY <1>1, <1>7 DEF MayCount
    <2>3. \A n \in 1..(d + 1) : Settled(offered[p], MayCount(p), Out(p), d + 1, Append(Log(p), r), n)
      BY <1>3, <1>5, <1>6, <1>7, <2>1, <2>2, SettledByRecord
    <2> QED
      BY <1>2, <1>6, <2>3
  <1> QED
    BY <1>1, <1>7, OfferAdvances DEF c

LEMMA NextOffer ==
    ASSUME \A v, x : [val |-> v, chg |-> x] # None,
           Inv, Inv', OfferInv, [Next]_vars
    PROVE  OfferInv'
  <1>0. TypeInv /\ ModeInv /\ LogInv /\ LogInv'
    BY DEF Inv
  <1>1. ASSUME NEW p \in Procs, StartDaemon(p) \/ StopDaemon(p) \/ OpenWriter(p) \/ Finish(p) \/ StampCache(p) \/ Crash(p)
        PROVE  OfferInv'
    <2> SUFFICES ASSUME NEW q \in Procs PROVE OfferOf(q)'
      BY DEF OfferInv
    <2>1. /\ UNCHANGED <<journal, quarantined, stamp>>
          /\ pc'[q] \in {"ingest", "append"} =>
                /\ pc[q] \in {"ingest", "append"} /\ todo'[q] = todo[q]
                /\ offered'[q] = offered[q] /\ batch'[q] = batch[q]
                /\ (pc'[q] = "append" /\ pc[q] # "append") => batch[q] = <<>>
      BY <1>0, <1>1 DEF TypeInv, StartDaemon, StopDaemon, OpenWriter, Finish, StampCache, Crash
    <2>2. pc'[q] \in {"ingest", "append"} => Log(q)' = Log(q)
      BY <2>1 DEF Log
    <2>3. pc[q] = "append" => batch[q] = <<>>
      BY DEF OfferInv, OfferOf
    <2> QED
      BY <2>1, <2>2, <2>3, OfferKept
  <1>2. ASSUME NEW p \in Procs, NEW b, NEW from, BeginIngest(p, b, from), UNCHANGED <<journal, quarantined>>,
               \A q \in Procs \ {p} : stamp'[q] = stamp[q], b \in Seq(Candidate)
        PROVE  OfferInv'
    <2> SUFFICES ASSUME NEW q \in Procs PROVE OfferOf(q)'
      BY DEF OfferInv
    <2>1. CASE q = p
      <3>1. offered'[p] = b /\ batch'[p] = b /\ pc'[p] = "ingest" /\ Len(b) \in Nat
        BY <1>0, <1>2, LenProperties DEF BeginIngest, TypeInv
      <3>2. Handled(p, 0)'
        BY <3>1 DEF Handled
      <3> QED
        BY <2>1, <3>1, <3>2 DEF OfferOf
    <2>2. CASE q # p
      <3>1. /\ pc'[q] = pc[q] /\ todo'[q] = todo[q] /\ offered'[q] = offered[q]
            /\ batch'[q] = batch[q] /\ stamp'[q] = stamp[q]
        BY <1>0, <1>2, <2>2 DEF BeginIngest, TypeInv
      <3>2. Log(q)' = Log(q)
        BY <1>2, <3>1 DEF Log
      <3>3. pc[q] = "append" => batch[q] = <<>>
        BY DEF OfferInv, OfferOf
      <3> QED
        BY <1>2, <3>1, <3>2, <3>3, OfferKept
    <2> QED
      BY <2>1, <2>2
  <1>3. ASSUME NEW p \in Procs, NEW b \in LiveBatches, CollectOnce(p, b)
        PROVE  OfferInv'
    <2>1. b \in Seq(Candidate)
      <3>1. b \in Seq([key : Keys, val : Int \cup {Bad}])
        BY IngestAssumption
      <3>2. [key : Keys, val : Int \cup {Bad}] \subseteq Candidate
        BY DEF Candidate
      <3> QED
        BY <3>1, <3>2, SeqMonotonic
    <2> QED
      BY <1>0, <1>2, <1>3, <2>1 DEF CollectOnce, TypeInv
  <1>4. ASSUME NEW p \in Procs, NEW b \in FileBatches, Backfill(p, b)
        PROVE  OfferInv'
    <2>1. b \in Seq(Candidate)
      <3>1. b \in Seq(FileCandidate)
        BY IngestAssumption DEF FileCandidate
      <3>2. FileCandidate \subseteq Candidate
        BY DEF Candidate
      <3> QED
        BY <3>1, <3>2, SeqMonotonic
    <2> QED
      BY <1>0, <1>2, <1>4, <2>1 DEF Backfill, TypeInv
  <1>5. ASSUME NEW p \in Procs, Refuse(p) \/ Drop(p) \/ Assign(p)
        PROVE  OfferInv'
    <2> SUFFICES ASSUME NEW q \in Procs PROVE OfferOf(q)'
      BY DEF OfferInv
    <2>1. CASE q = p
      BY <1>0, <1>5, <2>1, OfferRefused, OfferDropped, OfferAssigned
    <2>2. CASE q # p
      <3>1. /\ UNCHANGED <<journal, pc, offered, stamp>> /\ quarantined \subseteq quarantined'
            /\ todo'[q] = todo[q] /\ batch'[q] = batch[q]
        BY <1>0, <1>5, <2>2 DEF TypeInv, Refuse, Drop, Assign, Rest
      <3>2. Log(q)' = Log(q)
        BY <3>1 DEF Log
      <3>3. pc[q] = "append" => batch[q] = <<>>
        BY DEF OfferInv, OfferOf
      <3> QED
        BY <3>1, <3>2, <3>3, OfferKept
    <2> QED
      BY <2>1, <2>2
  <1>6. ASSUME NEW p \in Procs, AppendOne(p)
        PROVE  OfferInv'
    <2> SUFFICES ASSUME NEW q \in Procs PROVE OfferOf(q)'
      BY DEF OfferInv
    <2>1. /\ pc[p] = "append" /\ todo[p] # <<>> /\ journal' = Append(journal, Head(todo[p]))
          /\ todo'[p] = Tail(todo[p]) /\ UNCHANGED <<pc, offered, stamp, batch, quarantined>>
      BY <1>0, <1>6 DEF AppendOne, TypeInv
    <2>2. pc[q] \in {"ingest", "append"} => q = p
      BY <1>0, <2>1 DEF ModeInv, Working
    <2>3. PICK S : journal \in Seq(S) /\ todo[p] \in Seq(S)
      BY <1>0 DEF LogInv, SeqInv
    <2>4. Log(p)' = Log(p)
      <3>1. Append(journal, Head(todo[p])) \o Tail(todo[p]) = journal \o todo[p]
        BY <2>1, <2>3, LogsGrow
      <3>2. journal' \o todo'[p] = Append(journal, Head(todo[p])) \o Tail(todo[p])
        BY <2>1
      <3> QED
        BY <3>1, <3>2, Zenon DEF Log
    <2>5. pc[q] = "append" => batch[q] = <<>>
      BY DEF OfferInv, OfferOf
    <2> QED
      BY <2>1, <2>2, <2>4, <2>5, OfferKept
  <1>7. CASE UNCHANGED vars
    <2> SUFFICES ASSUME NEW q \in Procs PROVE OfferOf(q)'
      BY DEF OfferInv
    <2>1. UNCHANGED <<journal, pc, offered, stamp, batch, quarantined, todo>>
      BY <1>7 DEF vars, procVars
    <2>2. Log(q)' = Log(q)
      BY <2>1 DEF Log
    <2>3. pc[q] = "append" => batch[q] = <<>>
      BY DEF OfferInv, OfferOf
    <2> QED
      BY <2>1, <2>2, <2>3, OfferKept
  <1> QED
    BY <1>1, <1>3, <1>4, <1>5, <1>6, <1>7 DEF Next

(* No candidate is silently lost, from the fetch to the journal: when a     *)
(* command has appended the last record of its batch, every candidate is in *)
(* quarantine or some revision of its key in the journal has its value, and *)
(* the highest revision has that of the last which could supersede it.      *)
(* Daemons may die in the middle of earlier batches, and a command may find *)
(* the writer taken: what those leave behind (half a batch in the journal,  *)
(* an index that knows records nobody wrote) does not hide a candidate that *)
(* is fetched again.  Payloads are records, and None is not.                *)
THEOREM CandidatesAreJournalled ==
    ASSUME Disciplined, \A v, x : [val |-> v, chg |-> x] # None
    PROVE  Spec => []NoCandidateLost
  <1>1. Init => Inv /\ OfferInv
    <2>1. Init => OfferInv
      BY DEF Init, OfferInv, OfferOf
    <2> QED
      BY <2>1, InitInv
  <1>2. Inv /\ OfferInv /\ [Next]_vars => Inv' /\ OfferInv'
    BY NextInv, NextOffer
  <1>3. Inv /\ OfferInv => NoCandidateLost
    <2> SUFFICES ASSUME Inv, OfferInv, NEW p \in Procs, pc[p] = "append", todo[p] = <<>>,
                        NEW n \in DOMAIN offered[p]
                 PROVE  LET c == offered[p][n]
                        IN \/ ~Accepted(p, c) /\ InQuarantine(p, c)
                           \/ /\ \E i \in DOMAIN journal : journal[i].key = c.key /\ journal[i].pay.val = c.val
                              /\ Superseded(p, n) \/ RebuiltIndex(journal)[c.key].pay.val = c.val
      BY DEF NoCandidateLost
    <2>1. PICK S : RecordSet(S) /\ journal \in Seq(S)
      BY DEF Inv, LogInv, SeqInv
    <2>2. DOMAIN journal = 1..Len(journal) /\ Log(p) = journal
      BY <2>1, LenProperties, EmptyTodo
    <2>3. PICK d \in Nat : Handled(p, d)
      BY DEF OfferInv, OfferOf
    <2>4. batch[p] = <<>> /\ offered[p] \in Seq(Candidate) /\ Len(batch[p]) = 0
      BY EmptySeq DEF OfferInv, OfferOf, Inv, TypeInv
    <2>5. DOMAIN offered[p] = 1..Len(offered[p]) /\ Len(offered[p]) = d /\ n \in 1..d
      BY <2>3, <2>4, LenProperties DEF Handled
    <2>6. offered[p][n].key \in Keys
      <3>1. offered[p][n] \in Candidate
        BY <2>4, <2>5, ElementOfSeq
      <3> QED
        BY <3>1 DEF Candidate, FileCandidate
    <2>7. Settled(offered[p], MayCount(p), Out(p), d, journal, n)
      BY <2>2, <2>3, <2>5 DEF Handled
    <2>8. RebuiltIndex(journal)[offered[p][n].key].pay = Hist(journal, Len(journal))[offered[p][n].key]
      <3>1. RebuiltIndex(journal) = Idx(journal)
        BY <2>1, RebuiltIsIdx DEF Inv, LogInv, JournalInv, Good
      <3> QED
        BY <2>6, <3>1 DEF Idx
    <2>9. CASE n \notin MayCount(p) /\ n \in Out(p)
      BY <2>5, <2>9 DEF MayCount, Out
    <2>10. CASE ~(n \notin MayCount(p) /\ n \in Out(p))
      <3>1. \E i \in DOMAIN journal : /\ journal[i].key = offered[p][n].key
                                      /\ journal[i].pay.val = offered[p][n].val
        BY <2>2, <2>7, <2>10 DEF Settled
      <3>2. \/ \E m \in (n + 1)..d : offered[p][m].key = offered[p][n].key /\ m \in MayCount(p)
            \/ Hist(journal, Len(journal))[offered[p][n].key].val = offered[p][n].val
        BY <2>7, <2>10 DEF Settled
      <3>3. (\E m \in (n + 1)..d : offered[p][m].key = offered[p][n].key /\ m \in MayCount(p)) => Superseded(p, n)
        BY <2>5 DEF Superseded, MayCount
      <3> QED
        BY <2>8, <3>1, <3>2, <3>3
    <2> QED
      BY <2>9, <2>10
  <1> QED
    BY <1>1, <1>2, <1>3, PTL DEF Spec
=============================================================================
