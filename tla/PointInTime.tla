---------------------------- MODULE PointInTime -----------------------------
(* Point-in-time reads: Reader.as_of (hubread/reader.py) over a journal    *)
(* that a collector and backfills keep writing (collect_once and           *)
(* _cmd_backfill, hub/__main__.py; assign, hub/dedupe.py).  A live consumer*)
(* asks at the present instant; a backtest asks about that instant later.  *)
(*                                                                         *)
(* A collector stamps its batch with one clock reading before it ingests   *)
(* it, and the records reach the journal one fsync after the other, up to  *)
(* Latency later.  One dataset, one scope.                                 *)
EXTENDS Integers, Sequences, FiniteSets

CONSTANTS
    Keys,           \* facts
    Vals,           \* payloads
    MinLag,         \* policy.min_lag_ms
    RefuseDerived,  \* policy.refuse_derived
    BackfillAs,     \* the availabilities a backfill file asks for
    Latency,        \* the longest a batch takes from its stamp to its last append
    MaxClock,       \* bound on the clock
    MaxRecords      \* bound on the journal

Availabilities == {"observed", "derived"}

ASSUME PointInTimeAssumption ==
    /\ MinLag \in Nat /\ Latency \in Nat
    /\ RefuseDerived \in BOOLEAN
    /\ BackfillAs \subseteq Availabilities
    /\ MaxClock \in Nat /\ MaxRecords \in Nat

VARIABLES
    clock,
    journal,   \* the records, in seq order
    batch,     \* the records of the running collect still to append
    stamp,     \* its now_ms
    answers    \* what live consumers were told: [t, facts]

vars == <<clock, journal, batch, stamp, answers>>

-----------------------------------------------------------------------------
(* Mutant of Visible: known_at alone decides. *)
VisibleAtOnce(t) ==
    {i \in DOMAIN journal :
        ~(RefuseDerived /\ journal[i].avail = "derived") /\ journal[i].at <= t}

(* Mutant of Visible: derived records are never refused. *)
VisibleDerived(t) == {i \in DOMAIN journal : journal[i].at + MinLag <= t}

(* _visible_records: what `t` may see under the policy. *)
Visible(t) ==
    {i \in DOMAIN journal :
        /\ ~(RefuseDerived /\ journal[i].avail = "derived")
        /\ journal[i].at + MinLag <= t}

(* The order as_of picks the greatest of: (revision, known_at, seq). *)
Above(i, j) ==
    \/ journal[i].rev > journal[j].rev
    \/ journal[i].rev = journal[j].rev /\ journal[i].at > journal[j].at
    \/ journal[i].rev = journal[j].rev /\ journal[i].at = journal[j].at /\ i > j

(* as_of: per key, the index of the record it returns. *)
AsOf(t) ==
    {i \in Visible(t) : \A j \in Visible(t) \ {i} : journal[j].key = journal[i].key => Above(i, j)}

(* ... and the facts a consumer gets. *)
Facts(t) == {journal[i] : i \in AsOf(t)}

(* RevisionIndex over `log`. *)
Revisions(log, k) == {log[i].rev : i \in {n \in DOMAIN log : log[n].key = k}}
(* The highest revision of a key, 0 without one. *)
LastRevision(log, k) ==
    IF Revisions(log, k) = {} THEN 0
    ELSE CHOOSE r \in Revisions(log, k) : \A q \in Revisions(log, k) : q <= r

(* assign: a repeat of the key's latest payload is dropped. *)
News(log, k, v) ==
    ~\E i \in DOMAIN log : log[i].key = k /\ log[i].rev = LastRevision(log, k) /\ log[i].val = v

NewRecord(log, k, v, at, avail) ==
    [key |-> k, rev |-> LastRevision(log, k) + 1, at |-> at, avail |-> avail, val |-> v]

-----------------------------------------------------------------------------
Init == clock = 1 /\ journal = <<>> /\ batch = <<>> /\ stamp = 0 /\ answers = {}

(* Time passes; a running collect is done Latency after its stamp. *)
Tick ==
    /\ clock < MaxClock
    /\ batch # <<>> => clock < stamp + Latency
    /\ clock' = clock + 1
    /\ UNCHANGED <<journal, batch, stamp, answers>>

(* collect_once: a candidate of the fetched batch is ingested, `observed`  *)
(* with the batch's one clock reading as known_at.                         *)
Ingest(k, v) ==
    LET log == journal \o batch IN
    /\ batch # <<>> => stamp = clock
    /\ Len(log) < MaxRecords
    /\ News(log, k, v)
    /\ batch' = Append(batch, NewRecord(log, k, v, clock, "observed"))
    /\ stamp' = clock
    /\ UNCHANGED <<clock, journal, answers>>

AppendOne ==
    /\ batch # <<>>
    /\ journal' = Append(journal, Head(batch))
    /\ batch' = Tail(batch)
    /\ UNCHANGED <<clock, stamp, answers>>

(* _cmd_backfill, while no collect runs: a row brings its own known_at and *)
(* its own availability.                                                   *)
Backfill(k, v, at, avail) ==
    /\ batch = <<>> /\ Len(journal) < MaxRecords
    /\ avail \in BackfillAs /\ at <= clock
    /\ News(journal, k, v)
    /\ journal' = Append(journal, NewRecord(journal, k, v, at, avail))
    /\ UNCHANGED <<clock, batch, stamp, answers>>

(* A live consumer asks for the present. *)
Ask ==
    /\ answers' = answers \cup {[t |-> clock, facts |-> Facts(clock)]}
    /\ answers' # answers
    /\ UNCHANGED <<clock, journal, batch, stamp>>

Next ==
    \/ Tick \/ AppendOne \/ Ask
    \/ \E k \in Keys, v \in Vals :
         \/ Ingest(k, v)
         \/ \E at \in 1..MaxClock, avail \in Availabilities : Backfill(k, v, at, avail)

Spec == Init /\ [][Next]_vars

-----------------------------------------------------------------------------
(* A backtest sees what the live consumer saw: as_of for a past instant    *)
(* returns, whatever was collected or backfilled since, the facts it       *)
(* returned then (README.md:190, "exactly what a consumer would have seen").*)
ReplayEqualsLive == \A a \in answers : Facts(a.t) = a.facts

(* as_of returns what was learnt last about a key: no visible record of the*)
(* key is known later than the one returned (hubread/reader.py:270, "The   *)
(* latest fact known").                                                    *)
LatestKnowledgeWins ==
    \A t \in 1..clock : \A i \in AsOf(t), j \in Visible(t) :
        journal[j].key = journal[i].key => journal[j].at <= journal[i].at
=============================================================================
