------------------------------ MODULE Schedule ------------------------------
(* hub/collectors/schedule.py and tools/schedule_backfill.py: a calendar of *)
(* releases, shown one upcoming event at a time.  A row of the file is      *)
(* [kind, local, zone]; the zone's offset turns it into an instant.         *)
EXTENDS Order, SequencesExt

CONSTANTS
    KINDS, Kinds,     \* the kinds a calendar may name; the ones this dataset keeps
    Zones,            \* known zones and their offsets
    HandOver,         \* PUBLISH_LAG_MS: how long a past event stays the next one
    Refused           \* what load_events raises

ASSUME ScheduleAssumption == HandOver \in Nat \ {0} /\ \A zone \in DOMAIN Zones : Zones[zone] \in Int

(* load_events: events in time order, or a ConfigError. *)
LoadEvents(rows) ==
    LET kept  == {i \in DOMAIN rows : rows[i].kind \in Kinds}
        at(i) == rows[i].local - Zones[rows[i].zone]
        instants == InOrder({at(i) : i \in kept})
        rowAt(t) == rows[CHOOSE i \in kept : at(i) = t]
    IN IF \/ \E i \in DOMAIN rows : rows[i].kind \notin KINDS
          \/ \E i \in kept : rows[i].zone \notin DOMAIN Zones
          \/ \E i, j \in kept : i < j /\ at(i) = at(j)
       THEN Refused
       ELSE [n \in DOMAIN instants |-> [kind |-> rowAt(instants[n]).kind, at |-> instants[n]]]

(* published_at, of the i-th event when the first that counts is the k-th. *)
PublishedAt(events, i, k, start) == IF i = k THEN start ELSE events[i - 1].at + HandOver

(* Mutant of NextEvent: a release hands over at its own instant. *)
NextEventAtOnce(events, now) == {i \in DOMAIN events : now < events[i].at}

(* next_event: the first of these, if any. *)
NextEvent(events, now) == {i \in DOMAIN events : now < events[i].at + HandOver}

(* candidate_for *)
CandidateFor(e, scope) ==
    [scope |-> scope, effective_at |-> e.at, fields |-> [at |-> e.at, kind |-> e.kind]]

(* ScheduleSource.parse, of a file that loads to `events`. *)
ParseSchedule(events, fetched_at, scope) ==
    LET next == NextEvent(events, fetched_at)
    IN IF next = {} THEN {} ELSE {CandidateFor(events[Min(next)], scope)}

(* tools/schedule_backfill.py: every event whose record could have appeared *)
(* by now.  published_at grows with the index, so its break is a filter.    *)
BackfillRows(events, scope, since, now) ==
    LET kept == {i \in DOMAIN events : events[i].at >= since}
        published(i) == PublishedAt(events, i, Min(kept), since)
        row(i, c) == [scope |-> c.scope, effective_at |-> c.effective_at, fields |-> c.fields,
                      known_at |-> published(i)]
    IN {row(i, CandidateFor(events[i], scope)) : i \in {j \in kept : published(j) <= now}}
=============================================================================
