------------------------------- MODULE Gdelt --------------------------------
(* hub/collectors/gdelt.py without its fetch loop, and the computing half of*)
(* tools/gdelt_backfill.py.  An hour is named by its end and covers PerHour *)
(* export batches, each named by its stamp; `batches` maps an hour's stamps *)
(* to their events, None for a batch that was not there.                    *)
(*                                                                          *)
(* An event is [id, country, codes, articles, tone]: `codes` stands for the *)
(* six classifications that are counted, `tone` for the two scores averaged *)
(* by articles.  A mean is kept as <<weighted sum, articles>>.              *)
EXTENDS Order, FiniteSetsExt, SequencesExt

CONSTANTS
    PerHour, Batch,    \* batches in an hour, and the ticks of one: 4 and 15 minutes
    PublishLag,        \* PUBLISH_LAG_MS
    GapFinal,          \* GAP_FINAL_MS
    KnownLag,          \* BACKFILL_KNOWN_LAG_MS
    Regions,           \* REGIONS: countries per region, AllCountries for GLOBAL
    Codes,             \* what is counted
    AllCountries, Malformed, None

HOUR == PerHour * Batch

ASSUME GdeltAssumption ==
    /\ {PerHour, Batch, GapFinal, KnownLag} \subseteq Nat \ {0} /\ PublishLag \in Nat
    /\ None \notin {AllCountries, Malformed}

-----------------------------------------------------------------------------
LatestHourEnd(now) == ((now - PublishLag) \div HOUR) * HOUR

BatchStamps(h) == {h - HOUR + Batch * i : i \in 1..PerHour}

(* parse_export: a line with other columns or no number is skipped. *)
ParseExport(lines) == Picked(lines, {i \in DOMAIN lines : lines[i] # Malformed})

(* aggregate's loop: the events of a region, each where its id is first     *)
(* listed for the region.                                                   *)
InRegion(event, countries) == countries = AllCountries \/ event.country \in countries
Counted(events, countries) ==
    {i \in DOMAIN events :
        /\ InRegion(events[i], countries)
        /\ \A j \in 1..(i - 1) : InRegion(events[j], countries) => events[j].id # events[i].id}

Present(batches) == {s \in DOMAIN batches : batches[s] # None}

(* A record's fields: how many batches there were, and aggregate's sums. *)
HourFields(present, events, counted) ==
    LET articles == MapThenSumSet(LAMBDA i : events[i].articles, counted)
        tone     == MapThenSumSet(LAMBDA i : events[i].tone * events[i].articles, counted)
    IN [batches  |-> present,
        events   |-> Cardinality(counted),
        articles |-> articles,
        counts   |-> [c \in Codes |-> Cardinality({i \in counted : c \in events[i].codes})],
        tone     |-> IF articles = 0 THEN None ELSE <<tone, articles>>]

(* hour_candidates: a record for every region that had an event. *)
HourCandidates(h, batches) ==
    LET present == Present(batches)
        events  == FlattenSeq([i \in 1..Cardinality(present) |-> batches[InOrder(present)[i]]])
    IN {[scope |-> r, effective_at |-> h,
         fields |-> HourFields(Cardinality(present), events, Counted(events, Regions[r]))]
          : r \in {q \in DOMAIN Regions : Counted(events, Regions[q]) # {}}}

(* compact: the header says which batches there were, each line which batch *)
(* its event is from.                                                       *)
Compact(h, batches) ==
    LET tagged(s) == [i \in DOMAIN batches[s] |-> <<s, batches[s][i]>>]
    IN [hour_end |-> h,
        header   |-> [s \in DOMAIN batches |-> batches[s] # None],
        lines    |-> FlattenSeq([i \in 1..Cardinality(Present(batches)) |->
                                    tagged(InOrder(Present(batches))[i])])]

(* expand *)
Expand(body) ==
    [s \in DOMAIN body.header |->
        IF ~body.header[s] THEN None
        ELSE LET mine == Picked(body.lines, {i \in DOMAIN body.lines : body.lines[i][1] = s})
             IN [i \in DOMAIN mine |-> mine[i][2]]]

(* GdeltEventsSource.parse *)
ParseHour(body) == HourCandidates(body.hour_end, Expand(body))

-----------------------------------------------------------------------------
(* What a backfill says of each hour: hour_rows, from the batches the list  *)
(* names and GDELT serves.  `lines` holds the batches served.               *)
HourRows(h, master, lines) ==
    LET batches == [s \in BatchStamps(h) |->
                      IF s \in master /\ s \in DOMAIN lines THEN ParseExport(lines[s]) ELSE None]
    IN {[scope |-> c.scope, effective_at |-> c.effective_at, fields |-> c.fields,
         known_at |-> h + KnownLag] : c \in HourCandidates(h, batches)}

(* run_month: the hours whose records may be known by now. *)
MonthHours(now) == {h \in {HOUR * i : i \in 1..(now \div HOUR)} : h + KnownLag <= now}
=============================================================================
