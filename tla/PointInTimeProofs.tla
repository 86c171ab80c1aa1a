-------------------------- MODULE PointInTimeProofs -------------------------
(***************************************************************************)
(* Machine-checked proofs about PointInTime.tla, for every set of keys and *)
(* values, every lag and latency and every bound.                          *)
(***************************************************************************)
EXTENDS PointInTime, SequenceTheorems, TLAPS

Record == [key : Keys, rev : Nat, at : Nat, avail : Availabilities, val : Vals]

(* What is journalled and what the running collect will append to it. *)
Log == journal \o batch

(* The state is well formed, and no answer is about the future. *)
TypeInv ==
    /\ clock \in Nat /\ stamp \in Nat
    /\ journal \in Seq(Record) /\ batch \in Seq(Record)
    /\ \A a \in answers : a.t \in Nat /\ a.t <= clock

(* A record still to append carries the collect's one clock reading, which *)
(* is at most Latency old.                                                 *)
BatchInv ==
    /\ batch # <<>> => stamp <= clock /\ clock <= stamp + Latency
    /\ \A i \in DOMAIN batch : batch[i].at = stamp /\ batch[i].avail = "observed"

-----------------------------------------------------------------------------
(* The elements of a sequence extended by one. *)
LEMMA AppendElements ==
    ASSUME NEW S, NEW q \in Seq(S), NEW r \in S
    PROVE  /\ Append(q, r) \in Seq(S)
           /\ Len(q) \in Nat /\ DOMAIN q = 1..Len(q)
           /\ DOMAIN Append(q, r) = 1..(Len(q) + 1)
           /\ \A i \in DOMAIN q : Append(q, r)[i] = q[i]
           /\ Append(q, r)[Len(q) + 1] = r
  BY AppendProperties, LenProperties

(* What is left of a batch is part of it. *)
LEMMA TailElements ==
    ASSUME NEW S, NEW q \in Seq(S), q # <<>>
    PROVE  /\ Head(q) \in S /\ Tail(q) \in Seq(S)
           /\ Head(q) = q[1] /\ 1 \in DOMAIN q
           /\ \A i \in DOMAIN Tail(q) : i + 1 \in DOMAIN q /\ Tail(q)[i] = q[i + 1]
  <1>1. Len(q) \in Nat /\ Len(q) # 0 /\ DOMAIN q = 1..Len(q)
    BY EmptySeq, LenProperties
  <1>2. /\ Head(q) \in S /\ Tail(q) \in Seq(S) /\ Len(Tail(q)) = Len(q) - 1
        /\ \A i \in 1..Len(Tail(q)) : Tail(q)[i] = q[i + 1]
    BY HeadTailProperties
  <1>3. DOMAIN Tail(q) = 1..(Len(q) - 1)
    BY <1>1, <1>2, LenProperties
  <1> QED
    BY <1>1, <1>2, <1>3

(* Moving the head of the batch to the journal leaves the two together as  *)
(* they were.                                                              *)
LEMMA AppendOneKeepsLog ==
    ASSUME NEW S, NEW q \in Seq(S), NEW b \in Seq(S), b # <<>>
    PROVE  Append(q, Head(b)) \o Tail(b) = q \o b
  <1>1. Head(b) \in S /\ Tail(b) \in Seq(S) /\ <<Head(b)>> \o Tail(b) = b
    BY HeadTailProperties
  <1>2. <<Head(b)>> \in Seq(S)
    BY <1>1
  <1>3. Append(q, Head(b)) = q \o <<Head(b)>>
    BY <1>1, AppendIsConcat
  <1> QED
    BY <1>1, <1>2, <1>3, ConcatAssociative

-----------------------------------------------------------------------------
(* A policy that shows a backtest nothing it could not have known: derived *)
(* records are refused, a backfill is labelled derived, and the lag is     *)
(* longer than a collect takes to reach the journal.                       *)
Honest == RefuseDerived /\ BackfillAs \subseteq {"derived"}
Lagged == MinLag > Latency

(* A record that `t` may not see changes nothing of what `t` sees. *)
LEMMA UnseenChangesNothing ==
    ASSUME TypeInv, NEW r \in Record, journal' = Append(journal, r), NEW t \in Nat,
           (RefuseDerived /\ r.avail = "derived") \/ ~(r.at + MinLag <= t)
    PROVE  Facts(t)' = Facts(t)
  <1>1. /\ Len(journal) \in Nat /\ DOMAIN journal = 1..Len(journal)
        /\ DOMAIN journal' = 1..(Len(journal) + 1)
        /\ \A i \in DOMAIN journal : journal'[i] = journal[i]
        /\ journal'[Len(journal) + 1] = r
    BY AppendElements DEF TypeInv
  <1>2. Visible(t)' = Visible(t)
    BY <1>1 DEF Visible
  <1>3. Visible(t) \subseteq DOMAIN journal
    BY DEF Visible
  <1>4. ASSUME NEW i \in Visible(t), NEW j \in Visible(t)
        PROVE  Above(i, j)' = Above(i, j)
    BY <1>1, <1>3, <1>4 DEF Above
  <1>5. AsOf(t)' = AsOf(t)
    BY <1>1, <1>2, <1>3, <1>4 DEF AsOf
  <1>6. AsOf(t) \subseteq DOMAIN journal
    BY <1>3 DEF AsOf
  <1> QED
    BY <1>1, <1>5, <1>6 DEF Facts

-----------------------------------------------------------------------------
(* n is the highest element of S, 0 when there is none. *)
IsHighest(n, S) == (n = 0 /\ S = {}) \/ (n \in S /\ \A q \in S : q <= n)

(* Every key's revisions have a highest one and grow along the log. *)
Numbered(log) ==
    /\ log \in Seq(Record)
    /\ \A k \in Keys : \E n \in Nat : IsHighest(n, Revisions(log, k))
    /\ \A m, n \in DOMAIN log : (m < n /\ log[m].key = log[n].key) => log[m].rev < log[n].rev

(* The observed records stand in the order they were learnt, up to t. *)
LearntInOrder(log, t) ==
    /\ \A m, n \in DOMAIN log :
         (m < n /\ log[m].avail = "observed" /\ log[n].avail = "observed") => log[m].at <= log[n].at
    /\ \A m \in DOMAIN log : log[m].avail = "observed" => log[m].at <= t

(* The fields of a log's records. *)
LEMMA LogFields ==
    ASSUME NEW log \in Seq(Record)
    PROVE  \A m \in DOMAIN log : log[m] \in Record /\ log[m].rev \in Nat /\ log[m].at \in Nat
  <1>1. \A m \in DOMAIN log : log[m] \in Record
    BY LenProperties
  <1> QED
    BY <1>1 DEF Record

(* RevisionIndex: LastRevision is the highest revision, so the next one is *)
(* above every earlier one of its key.                                     *)
LEMMA NextIsHigher ==
    ASSUME NEW log, Numbered(log), NEW k \in Keys
    PROVE  /\ LastRevision(log, k) \in Nat
           /\ \A m \in DOMAIN log : log[m].key = k => log[m].rev <= LastRevision(log, k)
  <1>1. PICK n \in Nat : IsHighest(n, Revisions(log, k))
    BY DEF Numbered
  <1>2. \A q \in Revisions(log, k) : q \in Nat
    BY LogFields DEF Numbered, Revisions
  <1>3. \A m \in DOMAIN log : log[m].key = k => log[m].rev \in Revisions(log, k)
    BY DEF Revisions
  <1>4. CASE Revisions(log, k) = {}
    BY <1>3, <1>4 DEF LastRevision
  <1>5. CASE Revisions(log, k) # {}
    BY <1>1, <1>2, <1>3, <1>5 DEF LastRevision, IsHighest
  <1> QED
    BY <1>4, <1>5

(* assign numbers a new record so that the log stays numbered. *)
LEMMA NumberedAppend ==
    ASSUME NEW log, Numbered(log), NEW k \in Keys, NEW v \in Vals, NEW at \in Nat,
           NEW avail \in Availabilities
    PROVE  /\ NewRecord(log, k, v, at, avail) \in Record
           /\ Numbered(Append(log, NewRecord(log, k, v, at, avail)))
  <1> DEFINE r == NewRecord(log, k, v, at, avail)
             new == Append(log, r)
             last == LastRevision(log, k)
  <1>1. last \in Nat /\ \A m \in DOMAIN log : log[m].key = k => log[m].rev <= last
    BY NextIsHigher
  <1>2. r \in Record /\ r.key = k /\ r.rev = last + 1
    BY <1>1 DEF NewRecord, Record
  <1> HIDE DEF r, last
  <1>3. /\ new \in Seq(Record)
        /\ Len(log) \in Nat /\ DOMAIN log = 1..Len(log)
        /\ DOMAIN new = 1..(Len(log) + 1)
        /\ \A i \in DOMAIN log : new[i] = log[i]
        /\ new[Len(log) + 1] = r
    BY <1>2, AppendElements DEF Numbered
  <1>4. \A i \in DOMAIN log : log[i] \in Record
    BY LenProperties DEF Numbered
  <1> HIDE DEF new
  <1>5. ASSUME NEW q \in Keys
        PROVE  \E n \in Nat : IsHighest(n, Revisions(new, q))
    <2>1. CASE q = k
      <3>1. r.rev \in Revisions(new, k)
        BY <1>2, <1>3 DEF Revisions
      <3>2. \A i \in DOMAIN new : new[i].key = k => new[i].rev <= r.rev
        BY <1>1, <1>2, <1>3, <1>4 DEF Record
      <3>3. \A x \in Revisions(new, k) : x <= r.rev
        BY <3>2 DEF Revisions
      <3> QED
        BY <1>1, <1>2, <2>1, <3>1, <3>3 DEF IsHighest
    <2>2. CASE q # k
      <3>1. Revisions(new, q) = Revisions(log, q)
        BY <1>2, <1>3, <2>2 DEF Revisions
      <3> QED
        BY <3>1 DEF Numbered
    <2> QED
      BY <2>1, <2>2
  <1>6. ASSUME NEW m \in DOMAIN new, NEW n \in DOMAIN new, m < n, new[m].key = new[n].key
        PROVE  new[m].rev < new[n].rev
    <2>1. m \in DOMAIN log
      BY <1>3, <1>6
    <2>2. CASE n \in DOMAIN log
      BY <1>3, <1>6, <2>1, <2>2 DEF Numbered
    <2>3. CASE n = Len(log) + 1
      <3>1. log[m].key = k /\ log[m].rev <= last /\ log[m].rev \in Nat
        BY <1>1, <1>2, <1>3, <1>4, <1>6, <2>1, <2>3 DEF Record
      <3> QED
        BY <1>1, <1>2, <1>3, <2>1, <2>3, <3>1
    <2> QED
      BY <1>3, <2>2, <2>3
  <1> QED
    BY <1>2, <1>3, <1>5, <1>6 DEF Numbered, r, new

(* A record learnt now, or one that is not observed, keeps the order. *)
LEMMA LearntAppend ==
    ASSUME NEW log \in Seq(Record), NEW t \in Nat, LearntInOrder(log, t), NEW r \in Record,
           r.avail = "observed" => r.at = t
    PROVE  LearntInOrder(Append(log, r), t)
  <1> DEFINE new == Append(log, r)
  <1>1. /\ Len(log) \in Nat /\ DOMAIN log = 1..Len(log)
        /\ DOMAIN new = 1..(Len(log) + 1)
        /\ \A i \in DOMAIN log : new[i] = log[i]
        /\ new[Len(log) + 1] = r
    BY AppendElements
  <1>2. r.at \in Nat
    BY DEF Record
  <1> HIDE DEF new
  <1> QED
    BY <1>1, <1>2 DEF LearntInOrder, new

-----------------------------------------------------------------------------
(* The inductive invariant: what is journalled and what will be is numbered*)
(* and in the order it was learnt.                                         *)
LogInv ==
    /\ Numbered(Log)
    /\ Honest => LearntInOrder(Log, clock)

Inv == TypeInv /\ BatchInv /\ LogInv

(* The invariant of the next state, stated about the values it takes. *)
LEMMA NextLogInv ==
    ASSUME NEW log, NEW t, Log' = log, clock' = t, Numbered(log), Honest => LearntInOrder(log, t)
    PROVE  LogInv'
  <1>1. Numbered(Log)'
    BY DEF Numbered
  <1>2. Honest => LearntInOrder(Log, clock)'
    BY DEF LearntInOrder
  <1> QED
    BY <1>1, <1>2 DEF LogInv, Honest

(* It holds of the empty journal. *)
LEMMA InitInv == Init => Inv
  <1> SUFFICES ASSUME Init PROVE Inv
    OBVIOUS
  <1>1. journal = <<>> /\ batch = <<>> /\ clock = 1 /\ stamp = 0 /\ answers = {}
    BY DEF Init
  <1>2. <<>> \in Seq(Record) /\ DOMAIN <<>> = {}
    BY EmptySeq
  <1>3. Log = <<>>
    BY <1>1, <1>2, ConcatEmptySeq DEF Log
  <1>4. \A k \in Keys : IsHighest(0, Revisions(Log, k))
    BY <1>2, <1>3 DEF IsHighest, Revisions
  <1>5. LogInv
    BY <1>2, <1>3, <1>4 DEF LogInv, Numbered, LearntInOrder
  <1> QED
    BY <1>1, <1>2, <1>5 DEF Inv, TypeInv, BatchInv

(* Every step of the collector, of a backfill and of a consumer keeps it. *)
LEMMA StepInv ==
    ASSUME Inv, [Next]_vars
    PROVE  Inv'
  <1> USE PointInTimeAssumption
  <1>0. /\ Log \in Seq(Record) /\ Numbered(Log)
        /\ clock \in Nat /\ stamp \in Nat
        /\ journal \in Seq(Record) /\ batch \in Seq(Record)
    BY DEF Inv, TypeInv, LogInv, Numbered
  <1>1. CASE UNCHANGED vars
    BY <1>1 DEF Inv, TypeInv, BatchInv, LogInv, Log, Numbered, LearntInOrder, vars
  <1>2. CASE Tick
    <2>1. TypeInv' /\ BatchInv'
      BY <1>2 DEF Inv, TypeInv, BatchInv, Tick
    <2>2. Log' = Log /\ clock' = clock + 1
      BY <1>2 DEF Tick, Log
    <2>3. Honest => LearntInOrder(Log, clock + 1)
      <3>1. \A m \in DOMAIN Log : Log[m].at \in Nat
        BY <1>0, LogFields
      <3> QED
        BY <1>0, <3>1 DEF Inv, LogInv, LearntInOrder
    <2>4. LogInv'
      BY <1>0, <2>2, <2>3, NextLogInv
    <2> QED
      BY <2>1, <2>4 DEF Inv
  <1>3. CASE AppendOne
    <2>1. batch # <<>> /\ journal' = Append(journal, Head(batch)) /\ batch' = Tail(batch)
          /\ UNCHANGED <<clock, stamp, answers>>
      BY <1>3 DEF AppendOne
    <2>2. /\ Head(batch) \in Record /\ Tail(batch) \in Seq(Record)
          /\ \A i \in DOMAIN Tail(batch) : i + 1 \in DOMAIN batch /\ Tail(batch)[i] = batch[i + 1]
      BY <1>0, <2>1, TailElements
    <2>3. TypeInv'
      BY <1>0, <2>1, <2>2, AppendElements DEF Inv, TypeInv
    <2>4. BatchInv'
      BY <2>1, <2>2 DEF Inv, BatchInv
    <2>5. Log' = Log
      BY <1>0, <2>1, AppendOneKeepsLog DEF Log
    <2>6. LogInv'
      BY <2>1, <2>5 DEF Inv, LogInv, Numbered, LearntInOrder, Revisions
    <2> QED
      BY <2>3, <2>4, <2>6 DEF Inv
  <1>4. CASE Ask
    BY <1>4 DEF Inv, TypeInv, BatchInv, LogInv, Log, Numbered, LearntInOrder, Ask
  <1>5. ASSUME NEW k \in Keys, NEW v \in Vals, Ingest(k, v)
        PROVE  Inv'
    <2> DEFINE r == NewRecord(Log, k, v, clock, "observed")
    <2>1. /\ batch # <<>> => stamp = clock
          /\ batch' = Append(batch, r) /\ stamp' = clock
          /\ UNCHANGED <<clock, journal, answers>>
      BY <1>5 DEF Ingest, Log
    <2>2. r \in Record /\ Numbered(Append(Log, r))
      BY <1>0, NumberedAppend DEF Availabilities
    <2>3. r.at = clock /\ r.avail = "observed"
      BY DEF NewRecord
    <2> HIDE DEF r
    <2>4. /\ batch' \in Seq(Record)
          /\ Len(batch) \in Nat /\ DOMAIN batch = 1..Len(batch)
          /\ DOMAIN batch' = 1..(Len(batch) + 1)
          /\ \A i \in DOMAIN batch : batch'[i] = batch[i]
          /\ batch'[Len(batch) + 1] = r
      BY <1>0, <2>1, <2>2, AppendElements
    <2>5. TypeInv'
      BY <2>1, <2>4 DEF Inv, TypeInv
    <2>6. BatchInv'
      <3>1. \A i \in DOMAIN batch : batch[i].at = clock /\ batch[i].avail = "observed"
        <4>1. CASE batch = <<>>
          BY <4>1, EmptySeq
        <4>2. CASE batch # <<>>
          BY <2>1, <4>2 DEF Inv, BatchInv
        <4> QED
          BY <4>1, <4>2
      <3>2. \A i \in DOMAIN batch' : batch'[i].at = clock /\ batch'[i].avail = "observed"
        BY <2>3, <2>4, <3>1
      <3> QED
        BY <1>0, <2>1, <3>2 DEF BatchInv
    <2>7. Log' = Append(Log, r)
      <3>1. Append(batch, r) = batch \o <<r>> /\ Append(Log, r) = Log \o <<r>> /\ <<r>> \in Seq(Record)
        BY <1>0, <2>2, AppendIsConcat
      <3> QED
        BY <1>0, <2>1, <3>1, ConcatAssociative DEF Log
    <2>8. Honest => LearntInOrder(Append(Log, r), clock)
      BY <1>0, <2>2, <2>3, LearntAppend DEF Inv, LogInv
    <2>9. LogInv'
      BY <2>1, <2>2, <2>7, <2>8, NextLogInv
    <2> QED
      BY <2>5, <2>6, <2>9 DEF Inv
  <1>6. ASSUME NEW k \in Keys, NEW v \in Vals, NEW at \in 1..MaxClock, NEW avail \in Availabilities,
               Backfill(k, v, at, avail)
        PROVE  Inv'
    <2> DEFINE r == NewRecord(Log, k, v, at, avail)
    <2>1. /\ batch = <<>> /\ avail \in BackfillAs
          /\ journal' = Append(journal, NewRecord(journal, k, v, at, avail))
          /\ UNCHANGED <<clock, batch, stamp, answers>>
      BY <1>6 DEF Backfill
    <2>2. Log = journal
      BY <1>0, <2>1, ConcatEmptySeq DEF Log
    <2>3. r \in Record /\ Numbered(Append(Log, r))
      BY <1>0, NumberedAppend
    <2>4. r.avail = avail
      BY DEF NewRecord
    <2>5. journal' = Append(journal, r)
      BY <2>1, <2>2
    <2> HIDE DEF r
    <2>6. journal' \in Seq(Record)
      BY <1>0, <2>3, <2>5, AppendElements
    <2>7. TypeInv' /\ BatchInv'
      BY <2>1, <2>6 DEF Inv, TypeInv, BatchInv
    <2>8. Log' = Append(Log, r)
      BY <2>1, <2>2, <2>5, <2>6, ConcatEmptySeq DEF Log
    <2>9. Honest => LearntInOrder(Append(Log, r), clock)
      BY <1>0, <2>1, <2>3, <2>4, LearntAppend DEF Inv, LogInv, Honest
    <2>10. LogInv'
      BY <2>1, <2>3, <2>8, <2>9, NextLogInv
    <2> QED
      BY <2>7, <2>10 DEF Inv
  <1> QED
    BY <1>1, <1>2, <1>3, <1>4, <1>5, <1>6 DEF Next

-----------------------------------------------------------------------------
(* The answers given so far, still true. *)
Replayed == Inv /\ ReplayEqualsLive

(* No step makes an earlier answer untrue: what reaches the journal is too *)
(* young to be seen at an instant already asked about, or is refused.      *)
LEMMA StepReplays ==
    ASSUME Honest, Lagged, Replayed, [Next]_vars
    PROVE  ReplayEqualsLive'
  <1> USE PointInTimeAssumption
  <1>0. /\ TypeInv /\ BatchInv /\ LogInv /\ ReplayEqualsLive
        /\ clock \in Nat /\ stamp \in Nat /\ journal \in Seq(Record) /\ batch \in Seq(Record)
    BY DEF Replayed, Inv, TypeInv
  <1>1. ASSUME UNCHANGED journal, NEW t
        PROVE  Facts(t)' = Facts(t)
    BY <1>1 DEF Facts, AsOf, Visible, Above
  <1>2. CASE UNCHANGED <<journal, answers>>
    BY <1>0, <1>1, <1>2 DEF ReplayEqualsLive
  <1>3. CASE Ask
    <2>1. UNCHANGED journal /\ answers' = answers \cup {[t |-> clock, facts |-> Facts(clock)]}
      BY <1>3 DEF Ask
    <2>2. ASSUME NEW a \in answers'
          PROVE  Facts(a.t) = a.facts
      BY <1>0, <2>1, <2>2 DEF ReplayEqualsLive
    <2>3. ASSUME NEW a \in answers'
          PROVE  Facts(a.t)' = a.facts
      BY <1>1, <2>1, <2>2
    <2> QED
      BY <2>3 DEF ReplayEqualsLive
  <1>4. ASSUME NEW r \in Record, journal' = Append(journal, r), UNCHANGED answers,
               \A t \in Nat : t <= clock =>
                   (RefuseDerived /\ r.avail = "derived") \/ ~(r.at + MinLag <= t)
        PROVE  ReplayEqualsLive'
    <2>1. ASSUME NEW a \in answers
          PROVE  Facts(a.t)' = Facts(a.t)
      <3>1. a.t \in Nat /\ a.t <= clock
        BY <1>0 DEF TypeInv
      <3> QED
        BY <1>0, <1>4, <3>1, UnseenChangesNothing
    <2> QED
      BY <1>0, <1>4, <2>1 DEF ReplayEqualsLive
  <1>5. CASE AppendOne
    <2>1. batch # <<>> /\ journal' = Append(journal, Head(batch)) /\ UNCHANGED answers
      BY <1>5 DEF AppendOne
    <2>2. Head(batch) \in Record /\ Head(batch).at = stamp
      BY <1>0, <2>1, TailElements DEF BatchInv
    <2>3. clock < stamp + MinLag
      BY <1>0, <2>1 DEF BatchInv, Lagged
    <2> QED
      BY <1>0, <1>4, <2>1, <2>2, <2>3
  <1>6. ASSUME NEW k \in Keys, NEW v \in Vals, NEW at \in 1..MaxClock, NEW avail \in Availabilities,
               Backfill(k, v, at, avail)
        PROVE  ReplayEqualsLive'
    <2> DEFINE r == NewRecord(journal, k, v, at, avail)
    <2>1. /\ batch = <<>> /\ avail \in BackfillAs
          /\ journal' = Append(journal, r) /\ UNCHANGED answers
      BY <1>6 DEF Backfill
    <2>2. Log = journal
      BY <1>0, <2>1, ConcatEmptySeq DEF Log
    <2>3. r \in Record
      BY <1>0, <2>2, NumberedAppend DEF LogInv
    <2>4. r.avail = "derived" /\ RefuseDerived
      BY <2>1 DEF NewRecord, Honest
    <2> HIDE DEF r
    <2> QED
      BY <1>4, <2>1, <2>3, <2>4
  <1>7. CASE Tick \/ \E k \in Keys, v \in Vals : Ingest(k, v)
    BY <1>2, <1>7 DEF Tick, Ingest
  <1> QED
    BY <1>2, <1>3, <1>5, <1>6, <1>7 DEF Next, vars

(* A backtest sees what the live consumer saw, for every journal, whatever *)
(* is collected or backfilled later: as_of over a policy that refuses      *)
(* derived records and lags by more than a collect takes (_visible_records,*)
(* hubread/reader.py) gives an instant the same facts for ever.            *)
THEOREM ReplaysExactly ==
    ASSUME Honest, Lagged
    PROVE  Spec => []ReplayEqualsLive
  <1>1. Init => Replayed
    BY InitInv DEF Replayed, ReplayEqualsLive, Init
  <1>2. Replayed /\ [Next]_vars => Replayed'
    BY StepInv, StepReplays DEF Replayed
  <1>3. Replayed => ReplayEqualsLive
    BY DEF Replayed
  <1> QED
    BY <1>1, <1>2, <1>3, PTL DEF Spec

(* The greatest (revision, known_at, seq) of a key that as_of returns is   *)
(* the record learnt last: assign hands out revisions in the order records *)
(* are learnt, as long as what a backfill reaches back for is refused.     *)
THEOREM ReturnsLatestKnowledge ==
    ASSUME Honest
    PROVE  Spec => []LatestKnowledgeWins
  <1>1. Inv => LatestKnowledgeWins
    <2> SUFFICES ASSUME Inv, NEW t \in 1..clock, NEW i \in AsOf(t), NEW j \in Visible(t),
                        journal[j].key = journal[i].key
                 PROVE  journal[j].at <= journal[i].at
      BY DEF LatestKnowledgeWins
    <2>1. /\ journal \in Seq(Record) /\ batch \in Seq(Record)
          /\ Numbered(Log) /\ LearntInOrder(Log, clock)
      BY DEF Inv, TypeInv, LogInv
    <2>2. i \in Visible(t) /\ i \in DOMAIN journal /\ j \in DOMAIN journal
      BY DEF AsOf, Visible
    <2>3. \A m \in DOMAIN journal : m \in Nat /\ m \in DOMAIN Log /\ Log[m] = journal[m]
      BY <2>1, LenProperties, ConcatProperties DEF Log
    <2>4. \A m \in DOMAIN journal : journal[m] \in Record /\ journal[m].rev \in Nat /\ journal[m].at \in Nat
      BY <2>1, LogFields
    <2>5. \A m \in Visible(t) : journal[m].avail = "observed"
      BY <2>4 DEF Visible, Honest, Record, Availabilities
    <2>6. CASE i = j
      BY <2>2, <2>4, <2>6
    <2>7. CASE i # j /\ journal[i].rev > journal[j].rev
      <3>1. ~(i < j)
        BY <2>1, <2>2, <2>3, <2>4, <2>7 DEF Numbered
      <3>2. j < i
        BY <2>2, <2>3, <2>7, <3>1
      <3> QED
        BY <2>1, <2>2, <2>3, <2>5, <3>2 DEF LearntInOrder
    <2>8. CASE i # j /\ journal[i].rev = journal[j].rev
      BY <2>2, <2>4, <2>8 DEF AsOf, Above
    <2>9. i # j => Above(i, j)
      BY DEF AsOf
    <2> QED
      BY <2>6, <2>7, <2>8, <2>9 DEF Above
  <1>2. Inv /\ [Next]_vars => Inv'
    BY StepInv
  <1> QED
    BY <1>1, <1>2, InitInv, PTL DEF Spec
=============================================================================
