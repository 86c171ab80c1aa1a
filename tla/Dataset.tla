------------------------------- MODULE Dataset ------------------------------
(***************************************************************************)
(* The life of one dataset, from its document to what a strategy reads:    *)
(* load_schema accepts the document, DeclarativeSource.parse turns fetched *)
(* rows into candidates, ingest derives, validates and deduplicates them   *)
(* into the journal (hub/pipeline.py), compile_all encodes the journal's   *)
(* months (hub/compiler.py) and Reader.range reads it all back             *)
(* (hubread/reader.py).                                                    *)
(*                                                                         *)
(* What a document is and what an expression computes are parameters here; *)
(* Expressions puts hub/schema.py and hub/derive.py in their place.        *)
(*                                                                         *)
(* One process, one step per command: crashes, locks and interleavings are *)
(* the subject of Journal, Ingest and Compiler.  The index and the history *)
(* of an ingest are those _history_for rebuilds from the journal.          *)
(***************************************************************************)
EXTENDS Declarative

CONSTANTS DocumentLoads(_),   \* load_schema accepts a document
          SchemaOf(_),        \* and returns its DatasetSchema
          ValueOf(_, _, _),   \* an expression's value over a payload and a history
          ReachOf(_)          \* how far back the expressions of a schema read

CONSTANTS Documents,  \* dataset documents an author may hand in
          Feeds,      \* the documents a fetch may return, each a sequence of rows
          MaxPolls,   \* bound on the polls
          MonthLen,   \* ticks of known_at in a calendar month
          MinTime     \* MIN_TIMESTAMP_MS: no time before it is a record's

(* Datasets as their authors write them: what load_schema makes sure of,   *)
(* and collectors that fill each collected field once, numbers with a      *)
(* parser of numbers.                                                      *)
Authored(document) ==
    LET sch == SchemaOf(document)
    IN /\ sch.order \in Seq(DOMAIN sch.fields)
       /\ \A x \in DOMAIN sch.fields :
             /\ sch.fields[x].type \in FieldTypes
             /\ sch.fields[x].type = "enum" => Len(sch.fields[x].values) \in 0..Limit
       /\ \A x \in DOMAIN document.collector.fields :
             LET spec == document.collector.fields[x]
             IN /\ x \notin Range(sch.order) \cup {"known_at", "effective_at"}
                /\ ~Declares(spec, "const")
                /\ (x \in DOMAIN sch.fields /\ sch.fields[x].type = "number") =>
                      spec.parse \in {"human_number", "percent_or_number"}

ASSUME DatasetAssumption ==
    /\ \A document \in Documents : DocumentLoads(document) => Authored(document)
    /\ \A k \in DOMAIN Feeds : Feeds[k] \in Seq(Range(Feeds[k]))

VARIABLES doc,      \* the dataset's document
          schema,   \* its DatasetSchema, Unloaded until it is accepted
          clock,    \* the ingest clock
          journal,  \* the dataset's records, in seq order
          refused,  \* quarantined candidates: [eff, why]
          seen,     \* every row fetched so far
          snaps     \* compiled months, each with its snapshot and its length

vars == <<doc, schema, clock, journal, refused, seen, snaps>>

Unloaded == None

Init ==
    /\ doc \in Documents /\ schema = Unloaded
    /\ clock = MinTime /\ journal = <<>> /\ refused = {} /\ seen = {}
    /\ snaps = <<>>

(* Registry: a document that does not load stops the hub. *)
Load ==
    /\ schema = Unloaded
    /\ DocumentLoads(doc) /\ CollectorLoads(doc.collector)
    /\ schema' = SchemaOf(doc)
    /\ UNCHANGED <<doc, clock, journal, refused, seen, snaps>>

-----------------------------------------------------------------------------
(* build_key: the named parts, never known_at; a period counts by its day. *)
BuildKey(sch, cand) ==
    [i \in DOMAIN sch.key |->
        CASE sch.key[i] = "scope"        -> <<"text", cand.scope>>
          [] sch.key[i] = "effective_at" -> <<"int", cand.eff>>
          [] sch.key[i] = "period_start" ->
                IF cand.period = Null THEN Null ELSE <<"int", cand.period[2] \div DayLen>>
          [] sch.key[i] = "period_end"   -> Null
          [] OTHER -> Get(cand.fields, sch.key[i])]

(* ScopeHistory: one slot per key of the scope, its latest revision, in    *)
(* (effective_at, key) order.                                              *)
Slots(log, scope) ==
    LET mine == {i \in DOMAIN log : log[i].scope = scope}
        last == {i \in mine : \A j \in mine : log[j].key = log[i].key => j <= i}
    IN [i \in 1 .. Cardinality(last) |-> log[SetToSortSeq(last, LAMBDA i1, i2 :
            \/ log[i1].eff < log[i2].eff
            \/ log[i1].eff = log[i2].eff /\ KeyLess(log[i1].key, log[i2].key))[i]]]

(* ScopeHistory.before: what precedes the fact, without its own slot. *)
Before(log, scope, eff, key) ==
    LET earlier == SelectSeq(Slots(log, scope), LAMBDA r :
                       r.key # key /\ (r.eff < eff \/ (r.eff = eff /\ KeyLess(r.key, key))))
    IN [i \in DOMAIN earlier |-> earlier[i].fields]

Newest(s, limit) == SubSeq(s, Max({1, Len(s) - limit + 1}), Len(s))

(* A payload with one more field, or another value of a field. *)
Put(payload, x, value) ==
    [y \in DOMAIN payload \cup {x} |-> IF y = x THEN value ELSE payload[y]]

(* derive_fields: each result is fed to the expressions after it. *)
DeriveFields(sch, fields, at, eff, history) ==
    LET n == Len(sch.order)
        merged == Put(Put(fields, "known_at", <<"int", at>>), "effective_at", <<"int", eff>>)
        after[i \in 0..n] ==
            IF i = 0 THEN merged
            ELSE Put(after[i - 1], sch.order[i], ValueOf(sch.tree[sch.order[i]], after[i - 1], history))
    IN [x \in DOMAIN fields \cup Range(sch.order) |-> after[n][x]]

(* The rules of Record.__post_init__ that a candidate can break. *)
Recordable(cand) ==
    /\ cand.scope # "other"
    /\ cand.eff >= MinTime
    /\ cand.period # Null => cand.period[2] >= MinTime

OfKey(log, key) == {i \in DOMAIN log : log[i].key = key}
LatestOf(log, key) == log[Max(OfKey(log, key))]

(* A candidate whose payload has been derived: refused, a repeat or the    *)
(* next revision of its key.                                               *)
Assign(sch, st, cand, key, payload, now, raw) ==
    LET stored == Normalised(sch, payload)
        known  == OfKey(st.log, key) # {}
        Refuse(why) == [st EXCEPT !.refused = @ \cup {[eff |-> cand.eff, why |-> why]}]
        record == [scope |-> cand.scope, key |-> key, at |-> now, eff |-> cand.eff,
                   rev |-> IF known THEN LatestOf(st.log, key).rev + 1 ELSE 1,
                   avail |-> "observed", period |-> cand.period, raw |-> raw,
                   seq |-> Len(st.log) + 1, fields |-> stored]
    IN IF cand.broken THEN Refuse("row")
       ELSE IF ~Valid(sch, payload)
            THEN Refuse(IF Valid(sch, cand.fields) THEN "derived" ELSE "payload")
       ELSE IF ~Recordable(cand) THEN Refuse("envelope")
       ELSE IF known /\ LatestOf(st.log, key).fields = stored THEN st
       ELSE IF now - cand.eff > doc.collector.max_observed_age THEN Refuse("stale")
       ELSE [st EXCEPT !.log = Append(@, record)]

(* One candidate of ingest, live: the journal and the refusals after it. *)
IngestOne(sch, st, cand, now, raw) ==
    LET key     == BuildKey(sch, cand)
        history == Newest(Before(st.log, cand.scope, cand.eff, key), ReachOf(sch))
    IN Assign(sch, st, cand, key, DeriveFields(sch, cand.fields, now, cand.eff, history), now, raw)

(* ingest: the candidates in the order the parser gave them. *)
IngestAll(sch, log, cands, now, raw) ==
    LET after[i \in 0..Len(cands)] ==
            IF i = 0 THEN [log |-> log, refused |-> {}]
            ELSE IngestOne(sch, after[i - 1], cands[i], now, raw)
    IN after[Len(cands)]

(* collect_once: a ParseError fails the poll before anything is journalled.*)
Journalled(done) == journal' = done.log /\ refused' = refused \cup done.refused

IngestParsed(parsed, k) ==
    IF parsed = Rejected THEN UNCHANGED <<journal, refused>>
    ELSE Journalled(IngestAll(schema, journal, parsed[2], clock + 1, <<"int", k>>))

Poll(k) ==
    /\ schema # Unloaded /\ clock < MinTime + MaxPolls
    /\ clock' = clock + 1
    /\ IngestParsed(ParseDocument(doc.collector, Feeds[k]), k)
    /\ seen' = seen \cup Range(Feeds[k])
    /\ UNCHANGED <<doc, schema, snaps>>

-----------------------------------------------------------------------------
(* _month_bounds, in ticks. *)
MonthOf(t) == t \div MonthLen
MonthFrom(m) == m * MonthLen
MonthTo(m) == (m + 1) * MonthLen - 1

ReadRange(log, from, to) == SelectSeq(log, LAMBDA r : from <= r.at /\ r.at <= to)

(* _verify_derived_fields: recompute every record over the ones that sort  *)
(* before it.                                                              *)
Verifies(sch, log) ==
    LET rows == InSortOrder(log)
    IN \A i \in DOMAIN rows :
          LET r       == rows[i]
              history == Newest(Before(SubSeq(rows, 1, i - 1), r.scope, r.eff, r.key), ReachOf(sch))
              again   == DeriveFields(sch, r.fields, r.at, r.eff, history)
          IN \A x \in Range(sch.order) : again[x] = r.fields[x]

(* compile_all: every month that holds records, unless the recomputation   *)
(* disagrees or a column cannot hold a value.  A compile that changes      *)
(* nothing is no step.                                                     *)
Compile ==
    /\ schema # Unloaded /\ journal # <<>> /\ Verifies(schema, journal)
    /\ \A i \in DOMAIN journal : Packs(schema, journal[i])
    /\ snaps' = [m \in {MonthOf(r.at) : r \in Range(journal)} |->
                    [snap |-> Encode(schema, ReadRange(journal, MonthFrom(m), MonthTo(m))),
                     upto |-> Len(journal)]]
    /\ snaps' # snaps
    /\ UNCHANGED <<doc, schema, clock, journal, refused, seen>>

(* Mutant of ReaderRange: the cursor stops on the window's last tick. *)
ReaderRangeTouches(from, to) ==
    LET months == SetToSortSeq({m \in DOMAIN snaps : MonthTo(m) >= from /\ MonthFrom(m) <= to}, <)
        step(st, m) ==
            [out |-> st.out \o ReadRange(journal, st.cursor, MonthFrom(m) - 1)
                            \o ReadRange(Decode(snaps[m].snap), from, to),
             cursor |-> Max({st.cursor, MonthTo(m)})]
        end == FoldLeft(step, [out |-> <<>>, cursor |-> from], months)
    IN InSortOrder(end.out \o ReadRange(journal, end.cursor, to))

(* Reader.range: snapshots where there are any, the journal in between.    *)
ReaderRange(from, to) ==
    LET months == SetToSortSeq({m \in DOMAIN snaps : MonthTo(m) >= from /\ MonthFrom(m) <= to}, <)
        step(st, m) ==
            [out |-> st.out \o ReadRange(journal, st.cursor, MonthFrom(m) - 1)
                            \o ReadRange(Decode(snaps[m].snap), from, to),
             cursor |-> Max({st.cursor, MonthTo(m) + 1})]
        end == FoldLeft(step, [out |-> <<>>, cursor |-> from], months)
    IN InSortOrder(end.out \o ReadRange(journal, end.cursor, to))

-----------------------------------------------------------------------------
Next == Load \/ (\E k \in DOMAIN Feeds : Poll(k)) \/ Compile

Spec == Init /\ [][Next]_vars

-----------------------------------------------------------------------------
(* validate_payload refuses at ingest whatever the encoder would refuse:   *)
(* no journalled number, boolean or ordinal can stop a compile.            *)
AcceptedEncodes ==
    \A i \in DOMAIN journal : \A x \in DOMAIN journal[i].fields \cap StorableFields(schema) :
        schema.fields[x].type # "timestamp" => Encodes(schema.fields[x], journal[i].fields[x])

(* The comment on that check, hub/schema.py:161-164, read of every column: *)
(* what an i64 column cannot hold is refused at ingest, "rather than       *)
(* surfacing later as a compile crash that blocks every window".           *)
AcceptedPacks == \A i \in DOMAIN journal : Packs(schema, journal[i])

(* Reader.range, over any months compiled at any time and any bounds:      *)
(* sorted, each record at most once, nothing that is not in the journal,   *)
(* and everything that was journalled when its month was compiled or lies  *)
(* in a month that is not, with the values that were journalled.           *)
RangeReplaysJournal ==
    \A from \in MinTime - 1 .. clock, to \in MinTime .. clock + 1 :
        LET got  == ReaderRange(from, to)
            have == [i \in DOMAIN got |-> Projected(schema, got[i])]
            due  == {r \in Range(ReadRange(journal, from, to)) :
                        MonthOf(r.at) \in DOMAIN snaps => r.seq <= snaps[MonthOf(r.at)].upto}
        IN /\ \A i, j \in DOMAIN got : i < j => SortsBefore(got[i], got[j])
           /\ Range(have) \subseteq {Projected(schema, r) : r \in Range(ReadRange(journal, from, to))}
           /\ {Projected(schema, r) : r \in due} \subseteq Range(have)

(* hub/parse.py's promise that unknown data stays unknown: every collected *)
(* number in the journal was printed as that number in a fetched row about *)
(* the same subject and time, never made up from a dash, a bound or a      *)
(* missing column.                                                         *)
NumbersWerePrinted ==
    \A i \in DOMAIN journal : \A x \in DOMAIN doc.collector.fields :
        LET r == journal[i]
            PrintedIn(row) ==
                LET cell == Cell(row, doc.collector.fields[x].from)
                    cand == Candidate(doc.collector, row)
                IN /\ Prints(cell, r.fields[x][2])
                   /\ cand[1] = "row" /\ cand[2].scope = r.scope /\ cand[2].eff = r.eff
        IN r.fields[x][1] = "num" => \E row \in seen : PrintedIn(row)
=============================================================================
