----------------------------- MODULE Collectors -----------------------------
(* The two collectors that are code, run by one daemon thread: the GDELT    *)
(* source (hub/collectors/gdelt.py) and the release calendar                *)
(* (hub/collectors/schedule.py), with what collect_once does around them:   *)
(* archive the blob (hub/rawstore.py), parse it, drop the repeats, append.  *)
(* Beside the daemon, the tools that compute the same records for the past, *)
(* and `hub backfill`, which imports them while no daemon holds the writer. *)
(*                                                                          *)
(* Time is in ticks.  It passes while a fetch downloads, while the daemon   *)
(* sleeps and while there is none; storing, parsing and appending take none.*)
EXTENDS Gdelt, Schedule

CONSTANTS
    Export,          \* external: the lines of each batch, by stamp
    Late,            \* external: the stamps GDELT may serve late, or never
    Calendars,       \* successive contents of the schedule file
    Scope, Since,    \* the calendar's scope (scopes are numbers); the first instant its backfill covers
    Every,           \* per source, the ticks between two polls
    MaxFetch,        \* the longest a GDELT fetch takes
    Skew,            \* skew_tolerance_ms
    Reuse,           \* whether gdelt_backfill reruns in the same --out directory
    MaxUpsets,       \* bound on the crashes, failed fetches and edits of a run
    Begin, MaxClock

INSTANCE RawStore

Lines == UNION {Range(Export[s]) : s \in DOMAIN Export}

ASSUME CollectorsAssumption ==
    /\ 1 \in DOMAIN Calendars /\ LoadEvents(Calendars[1]) # Refused
    /\ \A version \in DOMAIN Calendars : LET rows == Calendars[version] IN
         IsFiniteSet(DOMAIN rows) /\ \A i \in DOMAIN rows : rows[i].local \in Int
    \* The backfill of the calendar starts before the daemon does.
    /\ Since \in Int /\ Since + HandOver <= Begin
    /\ {Every["gdelt"], Every["cal"]} \subseteq Nat \ {0}
    /\ {MaxFetch, Skew, Begin, MaxClock} \subseteq Nat /\ Begin <= MaxClock
    \* GDELT makes every batch of the hours a daemon asks for, late or never served though it be.
    /\ \A t \in Begin..MaxClock : BatchStamps(LatestHourEnd(t)) \subseteq DOMAIN Export
    /\ \A s \in DOMAIN Export : Export[s] \in Seq(Lines)
    /\ None \notin Nat \cup Seq(Lines)
    \* An hour turns final, and is polled once more, before the next one hides it.
    /\ GapFinal + Every["gdelt"] <= HOUR + PublishLag
    /\ PublishLag <= GapFinal /\ MaxFetch <= HOUR
    /\ HOUR + PublishLag + MaxFetch <= KnownLag

VARIABLES
    clock,
    servedAt,   \* external: when each late batch became downloadable, None before
    file,       \* which of Calendars the schedule file holds
    pc,         \* "idle", "fetch", "body", "meta", "ingest", "append"; "down" and
                \* "import" without a daemon
    due,        \* per source, when it is polled next
    now, queue, \* when the scheduler's pass began, and who is still to be polled in it
    begun,      \* when the fetch under way began
    hour,       \* fetch's hour_end
    batches,    \* what it has downloaded so far
    last,       \* GdeltEventsSource._last
    job,        \* the blob collect_once is working on
    todo,       \* records still to append
    archive,    \* raw/
    journal,    \* the records of both datasets
    out,        \* gdelt_backfill's directory: [master, rows, done]
    upsets,     \* how many there were
    lapsed,     \* history: hours no poll could reach after their gap was final
    upSince,    \* history: when the present daemon started
    sound       \* history: the last version of the schedule file that loads

pass     == <<due, now, queue>>
fetching == <<begun, hour, batches>>
store    == <<archive, journal>>
history  == <<lapsed, upSince, sound>>
vars == <<clock, servedAt, file, pc, pass, fetching, last, job, todo, store, out, upsets, history>>

-----------------------------------------------------------------------------
Registry == <<"cal", "gdelt">>
Sources == {"cal", "gdelt"}
Events == [version \in DOMAIN Calendars |-> LoadEvents(Calendars[version])]
NoBatches == [s \in {} |-> None]
Hours == {HOUR * i : i \in 1..(MaxClock \div HOUR)}
NoOut == [master |-> None, rows |-> {}, done |-> FALSE]

(* external: GDELT's batches that can be downloaded, and their lines. *)
Served(s) == IF s \in Late THEN servedAt[s] # None ELSE s <= clock
Downloads == [s \in {t \in DOMAIN Export : Served(t)} |-> Export[s]]

OfKey(ds, c) == {r \in journal : r.ds = ds /\ r.scope = c.scope /\ r.effective_at = c.effective_at}
Latest(ds, c) == CHOOSE r \in OfKey(ds, c) : \A q \in OfKey(ds, c) : q.revision <= r.revision

(* ingest: an unchanged payload is dropped, a changed one is the next       *)
(* revision; a backfilled known_at ahead of the clock is refused.  Both     *)
(* datasets have the key [effective_at, scope] and no derived field, and a  *)
(* batch holds a key once.                                                  *)
Ingest(ds, cands, avail, ref) ==
    LET stamp(c) == IF avail = "observed" THEN clock ELSE c.known_at
        fresh(c) == /\ stamp(c) <= clock + Skew
                    /\ OfKey(ds, c) = {} \/ Latest(ds, c).fields # c.fields
    IN {[ds |-> ds, scope |-> c.scope, effective_at |-> c.effective_at, fields |-> c.fields,
         revision |-> IF OfKey(ds, c) = {} THEN 1 ELSE Latest(ds, c).revision + 1,
         known_at |-> stamp(c), availability |-> avail, raw_ref |-> ref]
          : c \in {d \in cands : fresh(d)}}

-----------------------------------------------------------------------------
(* A store without records, and a daemon that has just started. *)
Init ==
    /\ clock = Begin /\ servedAt = [s \in Late |-> None] /\ file = 1
    /\ pc = "idle" /\ due = [s \in Sources |-> Begin] /\ now = 0 /\ queue = {}
    /\ begun = 0 /\ hour = 0 /\ batches = NoBatches
    /\ last = None /\ job = None /\ todo = {}
    /\ archive = EmptyArchive /\ journal = {} /\ out = NoOut
    /\ upsets = 0 /\ lapsed = {h \in Hours : h < LatestHourEnd(Begin)}
    /\ upSince = Begin /\ sound = 1

(* from_config parses the calendar, so a broken one fails the start. *)
Start ==
    /\ pc = "down" /\ Events[file] # Refused
    /\ pc' = "idle" /\ due' = [s \in Sources |-> clock] /\ upSince' = clock
    /\ UNCHANGED <<now, queue, clock, servedAt, file, fetching, last, job, todo, store, out, upsets, lapsed, sound>>

(* The hours a poll would fetch now or has in hand, once they are old enough *)
(* to take with a gap: what a fault of this moment may cost.                *)
InHand ==
    {hour} \cup {r.effective_at : r \in {x \in todo : x.ds = "gdelt"}}
           \cup {j.request : j \in {x \in {job} : pc \in {"body", "meta", "ingest"} /\ x.content_type = "gdelt"}}
AtStake == {h \in InHand \cup {LatestHourEnd(clock)} : h > 0 /\ clock >= h + GapFinal - MaxFetch}

Upset == upsets < MaxUpsets /\ upsets' = upsets + 1

(* The daemon, or an import, dies anywhere: all but the disk is lost. *)
Crash ==
    /\ pc # "down" /\ Upset
    /\ pc' = "down"
    /\ last' = None /\ job' = None /\ todo' = {} /\ batches' = NoBatches /\ begun' = 0 /\ hour' = 0
    /\ due' = [s \in Sources |-> 0] /\ now' = 0 /\ queue' = {}
    /\ lapsed' = lapsed \cup AtStake
    /\ UNCHANGED <<clock, servedAt, file, store, out, upSince, sound>>

(* A fetch is polled when it is due and ends within MaxFetch. *)
Tick ==
    /\ clock < MaxClock
    /\ pc \in {"down", "idle", "fetch"}
    /\ pc = "idle" => queue = {} /\ \A s \in Sources : clock < due[s]
    /\ pc = "fetch" => clock < begun + MaxFetch
    /\ clock' = clock + 1
    /\ lapsed' = IF pc = "down" THEN lapsed \cup AtStake ELSE lapsed
    /\ UNCHANGED <<servedAt, file, pc, pass, fetching, last, job, todo, store, out, upsets, upSince, sound>>

(* GDELT begins to serve a late batch. *)
Serve(s) ==
    /\ servedAt[s] = None /\ s <= clock
    /\ servedAt' = [servedAt EXCEPT ![s] = clock]
    /\ UNCHANGED <<clock, file, pc, pass, fetching, last, job, todo, store, out, upsets, history>>

(* The calendar's owner changes the file, leaving alone the event that is   *)
(* next and those before it; a version may be broken.  A calendar that was  *)
(* over is current again one poll from now.                                 *)
Edit(version) ==
    LET old  == Events[sound]
        new  == Events[version]
        next == NextEvent(old, clock)
        upTo(events) == {e \in Range(events) : e.at <= IF next = {} THEN clock ELSE old[Min(next)].at}
    IN
    /\ version > file /\ Upset
    /\ new # Refused => upTo(old) = upTo(new)
    /\ file' = version
    /\ sound' = IF new = Refused THEN sound ELSE version
    /\ upSince' = IF next = {} THEN clock ELSE upSince
    /\ UNCHANGED <<clock, servedAt, pc, pass, fetching, last, job, todo, store, out, lapsed>>

-----------------------------------------------------------------------------
(* Mutant of KeptHour: the blob in memory is returned whatever its hour. *)
KeptAnyHour(h) == last # None

(* GdeltEventsSource.fetch: the hour in memory is not fetched again. *)
KeptHour(h) == last # None /\ last.request = h

(* _poll_due: the due sources, one after the other.  One interval a source  *)
(* stands for its steady, near-event and retry intervals, which Scheduler   *)
(* tells apart.                                                             *)
Pass ==
    /\ pc = "idle" /\ queue = {}
    /\ queue' = {s \in Sources : due[s] <= clock} /\ queue' # {}
    /\ now' = clock
    /\ UNCHANGED <<clock, servedAt, file, pc, due, fetching, last, job, todo, store, out, upsets, history>>

Poll(s) ==
    /\ pc = "idle" /\ queue # {} /\ s = Registry[Min({i \in DOMAIN Registry : Registry[i] \in queue})]
    /\ queue' = queue \ {s} /\ due' = [due EXCEPT ![s] = now + Every[s]] /\ UNCHANGED now

PollKept ==
    /\ Poll("gdelt") /\ KeptHour(LatestHourEnd(clock))
    /\ job' = last
    /\ pc' = "body"
    /\ UNCHANGED <<clock, servedAt, file, fetching, last, todo, store, out, upsets, history>>

PollHour ==
    /\ Poll("gdelt") /\ ~KeptHour(LatestHourEnd(clock))
    /\ hour' = LatestHourEnd(clock) /\ begun' = clock /\ batches' = NoBatches
    /\ pc' = "fetch"
    /\ UNCHANGED <<clock, servedAt, file, last, job, todo, store, out, upsets, history>>

(* download_batch, of the next stamp: its events, or None for a 404. *)
Download ==
    LET left == BatchStamps(hour) \ DOMAIN batches
        s    == Min(left)
        got  == IF s \in DOMAIN Downloads THEN ParseExport(Downloads[s]) ELSE None
    IN /\ pc = "fetch" /\ left # {}
       /\ batches' = [t \in DOMAIN batches \cup {s} |-> IF t = s THEN got ELSE batches[t]]
       /\ UNCHANGED <<clock, servedAt, file, pc, pass, begun, hour, last, job, todo, store, out,
                      upsets, history>>

EndFetch == batches' = NoBatches /\ begun' = 0 /\ hour' = 0

(* A timeout, another HTTP error or a broken zip: no usable response. *)
Outage ==
    /\ pc = "fetch" /\ BatchStamps(hour) # DOMAIN batches /\ Upset
    /\ pc' = "idle" /\ EndFetch
    /\ lapsed' = lapsed \cup AtStake
    /\ UNCHANGED <<clock, servedAt, file, pass, last, job, todo, store, out, upSince, sound>>

(* Mutant of Waits: a gap is taken as it is found. *)
WaitsNever == FALSE

(* A batch is missing and may still come. *)
Waits == Present(batches) # DOMAIN batches /\ clock - hour < GapFinal

GiveUpForNow ==
    /\ pc = "fetch" /\ DOMAIN batches = BatchStamps(hour) /\ Waits
    /\ pc' = "idle" /\ EndFetch
    /\ UNCHANGED <<clock, servedAt, file, pass, last, job, todo, store, out, upsets, history>>

TakeHour ==
    /\ pc = "fetch" /\ DOMAIN batches = BatchStamps(hour) /\ ~Waits
    /\ last' = RawBlob("gdelt", hour, Compact(hour, batches), clock)
    /\ job' = last'
    /\ pc' = "body" /\ EndFetch
    /\ UNCHANGED <<clock, servedAt, file, pass, todo, store, out, upsets, history>>

(* ScheduleSource.fetch: the file's bytes, named by their version. *)
PollCalendar ==
    /\ Poll("cal")
    /\ job' = RawBlob("cal", None, file, clock)
    /\ pc' = "body"
    /\ UNCHANGED <<clock, servedAt, file, fetching, last, todo, store, out, upsets, history>>

(* ... which may be unreadable. *)
Unreadable ==
    /\ Poll("cal") /\ Upset
    /\ upSince' = clock     \* the calendar is current again one poll from now
    /\ UNCHANGED <<clock, servedAt, file, pc, fetching, last, job, todo, store, out, lapsed, sound>>

-----------------------------------------------------------------------------
(* RawStore.put.  A blob that is there is not stored again, its metadata    *)
(* neither.                                                                 *)
StoreBody ==
    /\ pc = "body"
    /\ IF Has(archive, Sha256(job))
       THEN pc' = "ingest" /\ UNCHANGED archive
       ELSE pc' = "meta" /\ archive' = PutBody(archive, job)
    /\ UNCHANGED <<clock, servedAt, file, pass, fetching, last, job, todo, journal, out, upsets, history>>

StoreMeta ==
    /\ pc = "meta"
    /\ archive' = PutMeta(archive, job)
    /\ pc' = "ingest"
    /\ UNCHANGED <<clock, servedAt, file, pass, fetching, last, job, todo, journal, out, upsets, history>>

(* Source.parse, of a blob. *)
Parse(blob) ==
    IF blob.content_type = "gdelt" THEN ParseHour(blob.body)
    ELSE ParseSchedule(Events[blob.body], blob.fetched_at, Scope)

Broken == job.content_type = "cal" /\ Events[job.body] = Refused

(* parse and ingest; the cadence's next poll finds an unchanged calendar    *)
(* or hour to be all duplicates.                                            *)
IngestBlob ==
    /\ pc = "ingest" /\ ~Broken
    /\ todo' = Ingest(job.content_type, Parse(job), "observed", Sha256(job))
    /\ pc' = IF todo' = {} THEN "idle" ELSE "append"
    /\ job' = None
    /\ UNCHANGED <<clock, servedAt, file, pass, fetching, last, store, out, upsets, history>>

(* load_events raises a ConfigError: the collect failed. *)
ParseFails ==
    /\ pc = "ingest" /\ Broken
    /\ pc' = "idle" /\ job' = None /\ upSince' = clock
    /\ UNCHANGED <<clock, servedAt, file, pass, fetching, last, todo, store, out, upsets, lapsed, sound>>

(* The records are appended in the order of the batch. *)
First(r) == \A q \in todo : \/ q.effective_at > r.effective_at
                            \/ q.effective_at = r.effective_at /\ q.scope >= r.scope

Append1(r) ==
    /\ pc \in {"append", "import"} /\ First(r)
    /\ journal' = journal \cup {r}
    /\ todo' = todo \ {r}
    /\ pc' = IF todo' # {} THEN pc ELSE IF pc = "append" THEN "idle" ELSE "down"
    /\ UNCHANGED <<clock, servedAt, file, pass, fetching, last, job, archive, out, upsets, history>>

-----------------------------------------------------------------------------
(* Mutant of RowsOf: an hour that could not be read is a gap. *)
RowsOfGaps(hours, bad, master) ==
    UNION {HourRows(h, IF h \in bad THEN {Max(BatchStamps(h))} ELSE master, Downloads) : h \in hours}

(* run_month's rows: an hour with a batch that could not be read has none. *)
RowsOf(hours, bad, master) == UNION {HourRows(h, master, Downloads) : h \in hours \ bad}

(* tools/gdelt_backfill.py: the list of batches is read once per directory, *)
(* and the month is done when every hour was read.                          *)
BackfillMonth ==
    LET dir    == IF Reuse THEN out ELSE NoOut
        master == IF dir.master # None THEN dir.master ELSE {s \in DOMAIN Export : s <= clock}
        hours  == MonthHours(clock)
    IN /\ ~dir.done /\ hours # {}
       /\ \E bad \in SUBSET hours :
            out' = [master |-> master, rows |-> RowsOf(hours, bad, master), done |-> bad = {}]
       /\ out' # out
       /\ UNCHANGED <<clock, servedAt, file, pc, pass, fetching, last, job, todo, store, upsets, history>>

(* hub backfill of a file, with no daemon holding the writer. *)
Import(ds, rows) ==
    /\ pc = "down"
    /\ todo' = Ingest(ds, rows, "derived", None) /\ todo' # {}
    /\ pc' = "import"
    /\ UNCHANGED <<clock, servedAt, file, pass, fetching, last, job, store, out, upsets, history>>

ImportHours == Import("gdelt", out.rows)

(* tools/schedule_backfill.py, and its file imported at once. *)
ImportCalendar ==
    /\ Events[file] # Refused
    /\ Import("cal", BackfillRows(Events[file], Scope, Since, clock))

Next ==
    \/ Start \/ Crash \/ Tick
    \/ \E version \in DOMAIN Calendars : Edit(version)
    \/ \E s \in Late : Serve(s)
    \/ Pass \/ PollKept \/ PollHour \/ Download \/ Outage \/ GiveUpForNow \/ TakeHour
    \/ PollCalendar \/ Unreadable
    \/ StoreBody \/ StoreMeta \/ IngestBlob \/ ParseFails
    \/ \E r \in todo : Append1(r)
    \/ BackfillMonth \/ ImportHours \/ ImportCalendar

Spec == Init /\ [][Next]_vars

-----------------------------------------------------------------------------
LiveHours == {r \in journal : r.ds = "gdelt" /\ r.availability = "observed"}

(* A batch that a live record counts as missing was still not downloadable  *)
(* one fetch before the hour was GAP_FINAL_MS old: a batch served late is   *)
(* not mistaken for one GDELT never made (hub/collectors/gdelt.py:258-259), *)
(* whatever was retried, kept in memory or forgotten in a crash meanwhile.  *)
GapIsFinal ==
    \A r \in LiveHours : \A s \in BatchStamps(r.effective_at) :
        ~Get(archive, r.raw_ref).body.header[s] =>
            /\ s \in Late
            /\ servedAt[s] = None \/ servedAt[s] >= r.effective_at + GapFinal - MaxFetch

(* An hour that had a batch by the time its gap was final is recorded, for  *)
(* every region with an event, once the next hour has taken its place,      *)
(* unless the daemon was down or GDELT failing just then.                   *)
OnTime(h) == [s \in BatchStamps(h) |->
                IF s \notin Late THEN ParseExport(Export[s])
                ELSE IF servedAt[s] # None /\ servedAt[s] < h + GapFinal - MaxFetch
                     THEN ParseExport(Export[s]) ELSE None]
EveryHourIsRecorded ==
    \A h \in Hours \ lapsed :
        clock > h + HOUR + PublishLag + MaxFetch =>
            \A c \in HourCandidates(h, OnTime(h)) : OfKey("gdelt", c) # {}

(* Later revisions of an hour know more: a backfill, dated BACKFILL_KNOWN_- *)
(* LAG_MS after the hour, never counts before a live record of it           *)
(* (gdelt.py:53-54), and none replaces an hour by one with fewer batches.   *)
KnowledgeGrows ==
    \A r, q \in {x \in journal : x.ds = "gdelt"} :
        (r.scope = q.scope /\ r.effective_at = q.effective_at /\ r.revision < q.revision) =>
            r.known_at <= q.known_at /\ r.fields.batches <= q.fields.batches

(* A live record's evidence is in the archive, and parsing it again yields  *)
(* the record (hub/rawstore.py:3-10): for the calendar, as of some instant  *)
(* since the start, the archive keeping only the first fetch's.             *)
EvidenceIsArchived ==
    \A r \in {x \in journal : x.availability = "observed"} :
        /\ Has(archive, r.raw_ref)
        /\ LET blob == Get(archive, r.raw_ref)
               candidate == [scope |-> r.scope, effective_at |-> r.effective_at, fields |-> r.fields]
           IN IF r.ds = "gdelt" THEN candidate \in Parse(blob)
              ELSE \E t \in Begin..clock : candidate \in Parse([blob EXCEPT !.fetched_at = t])

(* The calendar's newest record is the one a backtest over backfilled       *)
(* records has at this instant, or had at most one poll and one fetch ago,  *)
(* and never one it has not yet (schedule.py:10-12, "live may run up to one *)
(* poll later, never earlier"), across crashes, backfills and edits, while  *)
(* there is a release to come.                                              *)
Newest(rows) ==
    {r.fields : r \in {x \in rows : \A y \in rows :
        \/ y.known_at < x.known_at
        \/ y.known_at = x.known_at /\ y.effective_at <= x.effective_at}}
Shown       == Newest({r \in journal : r.ds = "cal"})
Backtest(t) == Newest(BackfillRows(Events[file], Scope, Since, t))
CalendarIsCurrent ==
    Events[file] # Refused =>
        /\ Shown # {} => \E t \in Since..clock : Shown = Backtest(t)
        /\ (/\ pc = "idle" /\ clock - upSince > Every["cal"] + MaxFetch
            /\ NextEvent(Events[file], clock) # {}) =>
              \E t \in (clock - Every["cal"] - MaxFetch)..clock : Shown = Backtest(t)
=============================================================================
