------------------------------- MODULE Ingest -------------------------------
(***************************************************************************)
(* From fetched candidates to journal records: hub/pipeline.py (ingest,    *)
(* ScopeHistory), hub/dedupe.py (RevisionIndex, assign) and the two        *)
(* commands of hub/__main__.py that run them, collect_once and             *)
(* _cmd_backfill.  One dataset and one scope; a key is its place on the    *)
(* fact timeline (effective_at), and the one derived field is              *)
(* diff(value, 1), as in datasets/rates.us.*.yaml.                         *)
(*                                                                         *)
(* The journal is what Ledger.tla promises: records in seq order.  `torn`  *)
(* says whether a dying writer left a fragment behind, which makes every   *)
(* read raise until the next writer opens and repairs.                     *)
(***************************************************************************)
EXTENDS Integers, Sequences, FiniteSets

CONSTANTS Daemons,      \* processes that hold the writer between polls
          Embedders,    \* processes that call collect_once without a writer
          Backfillers,  \* processes that run `hub backfill`
          Keys,         \* facts, numbered along the effective_at timeline
          LiveBatches,  \* what a fetch may return: sequences of [key, val]
          FileBatches,  \* backfill files: sequences of [key, val, at]
          None,         \* no payload, no writer, no difference
          Bad,          \* a value no schema accepts
          MaxAge,       \* the source's max_observed_age
          Skew,         \* skew_tolerance
          MaxClock,     \* bound on the clock
          MaxRecords,   \* bound on the journal
          Overlap,      \* whether two commands may be at work at the same time
          Crashes       \* whether processes may die

Procs == Daemons \cup Embedders \cup Backfillers

ASSUME IngestAssumption ==
    /\ Keys \subseteq Nat
    /\ {MaxAge, Skew, MaxClock, MaxRecords} \subseteq Nat
    /\ Overlap \in BOOLEAN /\ Crashes \in BOOLEAN
    /\ None \notin Procs
    /\ Daemons \cap Embedders = {} /\ Daemons \cap Backfillers = {}
    /\ Embedders \cap Backfillers = {}
    /\ LiveBatches \subseteq Seq([key : Keys, val : Int \cup {Bad}])
    /\ FileBatches \subseteq Seq([key : Keys, val : Int \cup {Bad}, at : Int])

VARIABLES journal,      \* the dataset's records, in seq order
          torn,         \* a fragment follows the last record
          lock,         \* the process that holds the writer
          clock,        \* wall clock
          pc,           \* where each process is
          offered,      \* history: the whole batch, while it is worked on
          batch,        \* candidates still to ingest
          stamp,        \* the now_ms of the current ingest
          index,        \* RevisionIndex: latest [rev, pay] per key
          history,      \* ScopeHistory: payload per key, None without a slot
          todo,         \* IngestResult.records still to append
          cache,        \* _HISTORY: [fp, index, history], None when dropped
          quarantined   \* candidates refused, with the batch's stamp

procVars == <<pc, offered, batch, stamp, index, history, todo>>
vars == <<journal, torn, lock, clock, procVars, cache, quarantined>>

-----------------------------------------------------------------------------
Unseen    == [rev |-> 0, pay |-> None]
NoIndex   == [k \in Keys |-> Unseen]
NoHistory == [k \in Keys |-> None]

(* The newest fact before k on the fact timeline: ScopeHistory.before with *)
(* the limit 1 that diff(value, 1) asks for.  The key's own slot is never  *)
(* among them.                                                             *)
Before(h, k) ==
    LET earlier == {j \in Keys : j < k /\ h[j] # None}
    IN IF earlier = {} THEN None
       ELSE h[CHOOSE j \in earlier : \A i \in earlier : i <= j]

(* derive_fields: the payload with its derived field. *)
Derive(val, before) ==
    [val |-> val, chg |-> IF before = None THEN None ELSE val - before.val]

-----------------------------------------------------------------------------
(* Record i sorts before record j: sort_key is (known_at, scope, key,      *)
(* revision, seq), and seq is the place in the journal.                    *)
SortsBefore(log, i, j) ==
    \/ log[i].at < log[j].at
    \/ log[i].at = log[j].at /\ log[i].key < log[j].key
    \/ log[i].at = log[j].at /\ log[i].key = log[j].key /\ log[i].rev < log[j].rev
    \/ log[i].at = log[j].at /\ log[i].key = log[j].key /\ log[i].rev = log[j].rev /\ i < j

OfKey(log, S, k) == {i \in S : log[i].key = k}

(* Upserting the records S in sort_key order leaves the last one of a key. *)
Upserted(log, S) ==
    [k \in Keys |->
        LET mine == OfKey(log, S, k)
        IN IF mine = {} THEN None
           ELSE log[CHOOSE i \in mine : \A j \in mine \ {i} : SortsBefore(log, j, i)].pay]

(* rebuild_from: the highest revision of a key, the first met among equals.*)
RebuiltIndex(log) ==
    [k \in Keys |->
        LET mine == OfKey(log, DOMAIN log, k)
            top  == {i \in mine : \A j \in mine : log[j].rev <= log[i].rev}
            best == CHOOSE i \in top : \A j \in top \ {i} : SortsBefore(log, i, j)
        IN IF mine = {} THEN Unseen ELSE [rev |-> log[best].rev, pay |-> log[best].pay]]

RebuiltHistory(log) == Upserted(log, DOMAIN log)

(* _history_for: a read that raises yields an empty index and history. *)
HistoryFor ==
    IF torn THEN [index |-> NoIndex, history |-> NoHistory]
    ELSE [index |-> RebuiltIndex(journal), history |-> RebuiltHistory(journal)]

(* _fingerprint: names, sizes and mtimes of the day files. *)
Fingerprint == <<Len(journal), torn>>

-----------------------------------------------------------------------------
Init ==
    /\ journal = <<>> /\ torn = FALSE /\ lock = None /\ clock = 1
    /\ pc = [p \in Procs |-> "idle"]
    /\ offered = [p \in Procs |-> <<>>]
    /\ batch = [p \in Procs |-> <<>>]
    /\ stamp = [p \in Procs |-> 0]
    /\ index = [p \in Procs |-> NoIndex]
    /\ history = [p \in Procs |-> NoHistory]
    /\ todo = [p \in Procs |-> <<>>]
    /\ cache = [p \in Procs |-> None]
    /\ quarantined = {}

(* Without overlap a command starts when no other is at work; a daemon that*)
(* waits between polls still holds the writer.                             *)
Alone(p) == Overlap \/ \A q \in Procs \ {p} : pc[q] \in {"idle", "ready"}

(* Scheduler: JournalWriter opened once for the daemon's life, repairing   *)
(* what a dead writer left.  `hub collect` is a daemon of one poll.        *)
StartDaemon(p) ==
    /\ p \in Daemons /\ pc[p] = "idle" /\ lock = None /\ Alone(p)
    /\ lock' = p /\ torn' = FALSE
    /\ pc' = [pc EXCEPT ![p] = "ready"]
    /\ UNCHANGED <<journal, clock, offered, batch, stamp, index, history, todo, cache, quarantined>>

StopDaemon(p) ==
    /\ p \in Daemons /\ pc[p] = "ready"
    /\ lock' = None
    /\ pc' = [pc EXCEPT ![p] = "idle"]
    /\ cache' = [cache EXCEPT ![p] = None]
    /\ UNCHANGED <<journal, torn, clock, offered, batch, stamp, index, history, todo, quarantined>>

(* Take over `from` as the index and history of an ingest of batch b. *)
BeginIngest(p, b, from) ==
    /\ offered' = [offered EXCEPT ![p] = b]
    /\ batch' = [batch EXCEPT ![p] = b]
    /\ index' = [index EXCEPT ![p] = from.index]
    /\ history' = [history EXCEPT ![p] = from.history]
    /\ todo' = [todo EXCEPT ![p] = <<>>]
    /\ pc' = [pc EXCEPT ![p] = "ingest"]

(* collect_once up to ingest.  The cache entry is popped before it is      *)
(* looked at.  The wall clock has moved since any earlier poll.            *)
CollectOnce(p, b) ==
    /\ pc[p] = IF p \in Daemons THEN "ready" ELSE "idle"
    /\ p \in Daemons \cup Embedders /\ Alone(p)
    /\ clock < MaxClock /\ Len(journal) + Len(b) <= MaxRecords
    /\ clock' = clock + 1
    /\ stamp' = [stamp EXCEPT ![p] = clock + 1]
    /\ BeginIngest(p, b, IF cache[p] # None /\ cache[p].fp = Fingerprint
                         THEN cache[p] ELSE HistoryFor)
    /\ cache' = [cache EXCEPT ![p] = None]
    /\ UNCHANGED <<journal, torn, lock, quarantined>>

(* _cmd_backfill up to ingest: history is read before the writer is opened.*)
Backfill(p, b) ==
    /\ p \in Backfillers /\ pc[p] = "idle" /\ Alone(p)
    /\ Len(journal) + Len(b) <= MaxRecords
    /\ stamp' = [stamp EXCEPT ![p] = clock]
    /\ BeginIngest(p, b, HistoryFor)
    /\ UNCHANGED <<journal, torn, lock, clock, cache, quarantined>>

-----------------------------------------------------------------------------
Live(p) == p \notin Backfillers

KnownAt(p, c) == IF Live(p) THEN stamp[p] ELSE c.at

(* The refusals of ingest, short of the stale-row rule. *)
Refused(p, c) == c.val = Bad \/ KnownAt(p, c) > stamp[p] + Skew

Stale(p, c) == Live(p) /\ stamp[p] - c.key > MaxAge

(* Mutant of Payload: a revision is derived from the value it replaces. *)
PayloadOfSame(p, c) ==
    LET own == history[p][c.key]
    IN Derive(c.val, IF own = None THEN Before(history[p], c.key) ELSE own)

Payload(p, c) == Derive(c.val, Before(history[p], c.key))

(* Mutant of Duplicate: a payload seen at any earlier revision counts. *)
DuplicateOfAny(p, c) ==
    \/ index[p][c.key].pay = Payload(p, c)
    \/ \E i \in DOMAIN journal : journal[i].key = c.key /\ journal[i].pay = Payload(p, c)

(* Mutant of Duplicate: nothing is recognised as a repeat. *)
DuplicateNever(p, c) == FALSE

(* The payload equals the last one recorded for the key. *)
Duplicate(p, c) == index[p][c.key].pay = Payload(p, c)

Rest(p) ==
    /\ batch' = [batch EXCEPT ![p] = Tail(batch[p])]
    /\ UNCHANGED <<journal, torn, lock, clock, pc, offered, stamp, cache>>

(* One candidate that is refused: quarantined, the batch goes on. *)
Refuse(p) ==
    /\ pc[p] = "ingest" /\ batch[p] # <<>>
    /\ LET c == Head(batch[p])
       IN /\ Refused(p, c) \/ (~Refused(p, c) /\ Stale(p, c) /\ ~Duplicate(p, c))
          /\ quarantined' = quarantined \cup {[key |-> c.key, val |-> c.val, now |-> stamp[p]]}
    /\ Rest(p)
    /\ UNCHANGED <<index, history, todo>>

(* One candidate that repeats what the store holds: dropped. *)
Drop(p) ==
    /\ pc[p] = "ingest" /\ batch[p] # <<>>
    /\ ~Refused(p, Head(batch[p]))
    /\ Duplicate(p, Head(batch[p]))
    /\ Rest(p)
    /\ UNCHANGED <<index, history, todo, quarantined>>

(* Mutant of Assign: the index is not told of the record just assigned. *)
AssignForgets(p) ==
    /\ pc[p] = "ingest" /\ batch[p] # <<>>
    /\ LET c   == Head(batch[p])
           rev == index[p][c.key].rev + 1
       IN /\ ~Refused(p, c) /\ ~Stale(p, c) /\ ~Duplicate(p, c)
          /\ todo' = [todo EXCEPT ![p] = Append(todo[p],
                [key |-> c.key, rev |-> rev, at |-> KnownAt(p, c),
                 pay |-> Payload(p, c), live |-> Live(p)])]
          /\ history' = [history EXCEPT ![p][c.key] = Payload(p, c)]
    /\ Rest(p)
    /\ UNCHANGED <<index, quarantined>>

(* Mutant of Assign: the slot of a revised key keeps its first payload. *)
AssignKeepsFirst(p) ==
    /\ pc[p] = "ingest" /\ batch[p] # <<>>
    /\ LET c   == Head(batch[p])
           rev == index[p][c.key].rev + 1
       IN /\ ~Refused(p, c) /\ ~Stale(p, c) /\ ~Duplicate(p, c)
          /\ index' = [index EXCEPT ![p][c.key] = [rev |-> rev, pay |-> Payload(p, c)]]
          /\ todo' = [todo EXCEPT ![p] = Append(todo[p],
                [key |-> c.key, rev |-> rev, at |-> KnownAt(p, c),
                 pay |-> Payload(p, c), live |-> Live(p)])]
          /\ history' = IF rev > 1 THEN history
                        ELSE [history EXCEPT ![p][c.key] = Payload(p, c)]
    /\ Rest(p)
    /\ UNCHANGED quarantined

(* One candidate that is news: assign gives it the next revision of its    *)
(* key, the index observes it and its slot in the history is upserted.     *)
Assign(p) ==
    /\ pc[p] = "ingest" /\ batch[p] # <<>>
    /\ LET c   == Head(batch[p])
           rev == index[p][c.key].rev + 1
       IN /\ ~Refused(p, c) /\ ~Stale(p, c) /\ ~Duplicate(p, c)
          /\ index' = [index EXCEPT ![p][c.key] = [rev |-> rev, pay |-> Payload(p, c)]]
          /\ todo' = [todo EXCEPT ![p] = Append(todo[p],
                [key |-> c.key, rev |-> rev, at |-> KnownAt(p, c),
                 pay |-> Payload(p, c), live |-> Live(p)])]
          /\ history' = [history EXCEPT ![p][c.key] = Payload(p, c)]
    /\ Rest(p)
    /\ UNCHANGED quarantined

(* Mutant of OpenWriter: what was ingested outlives the failure to write it.*)
OpenWriterKeeps(p) ==
    /\ pc[p] = "ingest" /\ batch[p] = <<>>
    /\ IF lock \in {p, None}
       THEN /\ lock' = p
            /\ torn' = FALSE
            /\ pc' = [pc EXCEPT ![p] = "append"]
            /\ UNCHANGED <<todo, offered, cache>>
       ELSE /\ pc' = [pc EXCEPT ![p] = "idle"]
            /\ todo' = [todo EXCEPT ![p] = <<>>]
            /\ offered' = [offered EXCEPT ![p] = <<>>]
            /\ cache' = [cache EXCEPT ![p] =
                    [fp |-> Fingerprint, index |-> index[p], history |-> history[p]]]
            /\ UNCHANGED <<lock, torn>>
    /\ UNCHANGED <<journal, clock, batch, stamp, index, history, quarantined>>

(* The batch is ingested.  A daemon already holds the writer; the others   *)
(* open it now, repairing, or fail because somebody else holds it.         *)
OpenWriter(p) ==
    /\ pc[p] = "ingest" /\ batch[p] = <<>>
    /\ IF lock \in {p, None}
       THEN /\ lock' = p
            /\ torn' = FALSE
            /\ pc' = [pc EXCEPT ![p] = "append"]
            /\ UNCHANGED <<todo, offered>>
       ELSE /\ pc' = [pc EXCEPT ![p] = "idle"]
            /\ todo' = [todo EXCEPT ![p] = <<>>]
            /\ offered' = [offered EXCEPT ![p] = <<>>]
            /\ UNCHANGED <<lock, torn>>
    /\ UNCHANGED <<journal, clock, batch, stamp, index, history, cache, quarantined>>

AppendOne(p) ==
    /\ pc[p] = "append" /\ todo[p] # <<>>
    /\ journal' = Append(journal, Head(todo[p]))
    /\ todo' = [todo EXCEPT ![p] = Tail(todo[p])]
    /\ UNCHANGED <<torn, lock, clock, pc, offered, batch, stamp, index, history, cache, quarantined>>

(* Every record is appended.  A daemon keeps the writer and caches its     *)
(* state under the files' fingerprint; the others close their writer, and  *)
(* an embedder stamps its cache after that.                                *)
Finish(p) ==
    /\ pc[p] = "append" /\ todo[p] = <<>>
    /\ lock' = IF p \in Daemons THEN p ELSE None
    /\ pc' = [pc EXCEPT ![p] = IF p \in Daemons THEN "ready"
                               ELSE IF p \in Embedders THEN "stamp" ELSE "idle"]
    /\ cache' = IF p \in Daemons
                THEN [cache EXCEPT ![p] =
                        [fp |-> Fingerprint, index |-> index[p], history |-> history[p]]]
                ELSE cache
    /\ offered' = [offered EXCEPT ![p] = <<>>]
    /\ UNCHANGED <<journal, torn, clock, batch, stamp, index, history, todo, quarantined>>

StampCache(p) ==
    /\ pc[p] = "stamp"
    /\ cache' = [cache EXCEPT ![p] =
            [fp |-> Fingerprint, index |-> index[p], history |-> history[p]]]
    /\ pc' = [pc EXCEPT ![p] = "idle"]
    /\ UNCHANGED <<journal, torn, lock, clock, offered, batch, stamp, index, history, todo, quarantined>>

(* The process dies: its writer is gone, and a record it was appending may *)
(* be left as a fragment.                                                  *)
Crash(p) ==
    /\ Crashes /\ pc[p] # "idle"
    /\ lock' = IF lock = p THEN None ELSE lock
    /\ torn' \in (IF pc[p] = "append" /\ todo[p] # <<>> THEN {torn, TRUE} ELSE {torn})
    /\ pc' = [pc EXCEPT ![p] = "idle"]
    /\ offered' = [offered EXCEPT ![p] = <<>>]
    /\ batch' = [batch EXCEPT ![p] = <<>>]
    /\ todo' = [todo EXCEPT ![p] = <<>>]
    /\ cache' = [cache EXCEPT ![p] = None]
    /\ UNCHANGED <<journal, clock, stamp, index, history, quarantined>>

Next == \E p \in Procs :
    \/ StartDaemon(p) \/ StopDaemon(p)
    \/ \E b \in LiveBatches : CollectOnce(p, b)
    \/ \E b \in FileBatches : Backfill(p, b)
    \/ Refuse(p) \/ Drop(p) \/ Assign(p)
    \/ OpenWriter(p) \/ AppendOne(p) \/ Finish(p) \/ StampCache(p)
    \/ Crash(p)

Spec == Init /\ [][Next]_vars
-----------------------------------------------------------------------------
EarlierOfKey(i) == {j \in 1..(i - 1) : journal[j].key = journal[i].key}

(* The revisions of a key are 1, 2, 3, ... in the order they were          *)
(* journalled, over restarts, crashes and backfills (assign, hub/dedupe.py)*)
RevisionsContiguous ==
    \A i \in DOMAIN journal : journal[i].rev = Cardinality(EarlierOfKey(i)) + 1

(* Two successive revisions of a key differ: an unchanged repeat is never  *)
(* journalled, not even after a restart or from a backfill file.           *)
NoEchoes ==
    \A i \in DOMAIN journal : \A j \in EarlierOfKey(i) :
        journal[j].rev = journal[i].rev - 1 => journal[j].pay # journal[i].pay

(* The state a process keeps between polls is what a rebuild from the      *)
(* journal would give, whenever its fingerprint matches the files: "it     *)
(* stays equal to a rebuild" (hub/__main__.py:92-93).                      *)
CacheEqualsRebuild ==
    \A p \in Procs :
        (cache[p] # None /\ cache[p].fp = Fingerprint /\ ~torn) =>
            /\ cache[p].index = RebuiltIndex(journal)
            /\ cache[p].history = RebuiltHistory(journal)

(* _verify_derived_fields accepts the journal: walked in sort_key order,   *)
(* every derived field recomputes to what was journalled.  A record that   *)
(* fails makes every later compile of the dataset raise.                   *)
CompileVerifies ==
    \A i \in DOMAIN journal :
        LET known == {j \in DOMAIN journal : SortsBefore(journal, j, i)}
        IN journal[i].pay =
               Derive(journal[i].pay.val, Before(Upserted(journal, known), journal[i].key))

(* A rebuild leaves the highest revision of every key in its slot          *)
(* (_history_for, hub/__main__.py:70-71).                                  *)
RebuildKeepsHighest ==
    \A k \in Keys : RebuiltIndex(journal)[k].pay = RebuiltHistory(journal)[k]

(* No candidate is silently lost.  When a command has appended the last    *)
(* record of its batch, each candidate is in quarantine, or some revision  *)
(* of its key in the journal has its value; and the highest revision has   *)
(* the value of the last candidate that could supersede it, so that a value*)
(* that flips back to an earlier one is news (assign, hub/dedupe.py).  A   *)
(* command that died, or found another writer, promises nothing: it exits  *)
(* with an error and the batch is fetched or imported again.               *)
InQuarantine(p, c) ==
    \E q \in quarantined : q.key = c.key /\ q.val = c.val /\ q.now = stamp[p]

Accepted(p, c) == ~Refused(p, c) /\ ~Stale(p, c)

Superseded(p, n) ==
    \E m \in (n + 1)..Len(offered[p]) :
        offered[p][m].key = offered[p][n].key /\ Accepted(p, offered[p][m])

NoCandidateLost ==
    \A p \in Procs : (pc[p] = "append" /\ todo[p] = <<>>) =>
        \A n \in DOMAIN offered[p] :
            LET c == offered[p][n]
            IN \/ ~Accepted(p, c) /\ InQuarantine(p, c)
               \/ /\ \E i \in DOMAIN journal : journal[i].key = c.key /\ journal[i].pay.val = c.val
                  /\ Superseded(p, n) \/ RebuiltIndex(journal)[c.key].pay.val = c.val
=============================================================================
