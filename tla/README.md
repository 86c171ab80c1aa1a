# qkt-data-hub in TLA+

A specification of the store, its writer, its readers, its compiler, its daemon,
its collectors and the life of a dataset, translated from the Python under
`hub/`, `hubread/` and `tools/`, model-checked with TLC and, except for the
parsing and ordering of expressions, proved with TLAPS. File and line numbers are those of the repository's sources.

Contents: 1 the system, 2 the modules, 3 the runs, 4 bounds and fairness,
5 the proofs, 6 what is not modelled, 7 what the code does not guarantee,
8 the plan.

## 1. The system

The hub stores facts with the instant they became known (`known_at`). One
process at a time writes an append-only journal; everything else is derived
from it or reads it.

| component | state it keeps | operations | what makes it correct |
|---|---|---|---|
| journal writer, `hub/journal.py` | day files `journal/<dataset>/<day>.ndjson`, `.writer.lock`, the last `seq` per dataset, descriptors | open (lock, repair torn tails, quarantine them), append, close | one writer; `seq` unique and gapless; complete lines never change; a dead fragment is never glued to a record |
| journal reader, `hubread/journal.py` | the tail's listing, file index, byte offset, last `seq` | `read_range`, `JournalTail.poll` | each committed record once, in order, none missed; nothing delivered that a repair takes back |
| ingest, `hub/pipeline.py`, `hub/dedupe.py`, `collect_once` and `_cmd_backfill` in `hub/__main__.py` | revision index and scope history per dataset, cached between polls under a fingerprint of the files | ingest a batch: refuse, drop or assign a revision, derive; append | revisions 1, 2, 3, ... per key; no echo of the last revision; the cache equals a rebuild; every derived field recomputes |
| compiler, `hub/compiler.py`, `hub/manifest.py` | snapshot files, `manifest.json` | `compile_all`, `verify`, `Manifest.load/save` | a saved manifest is readable and complete up to the compile's start; verify never calls a bad store good |
| reader, `hubread/reader.py` | the manifest it opened, a policy | `range`, `as_of`, `windows`, `health`, `records` | a replayed question has the live answer |
| scheduler, `hub/scheduler.py`, `hub/collectors/http.py` | per-source timers and failure counts, compile and heartbeat timers, HTTP validators | poll due sources, compile, beat, sleep | heartbeat and polls are not late beyond a bound; alerts match failures; a 304 only for what was stored or counted as a failure |
| schema and expressions, `hub/schema.py`, `hub/derive.py` | a loaded schema | `load_schema`, `validate_payload`, `parse`, `lookback`, `evaluate` | the parser decides its grammar; derived fields have an order that computes each after its inputs; a bounded history gives the value the whole one gives |
| declarative collector, `hub/collectors/declarative.py`, `hub/parse.py` | none | `parse` a fetched document into candidates | a number in the journal was printed by the provider; one bad field costs one row; the same document again is no news |
| snapshot encoding, `hub/snapshot.py`, `hubread/snapshot.py` | none | encode, decode | what ingest accepts can be encoded and comes back as it was |
| GDELT collector, `hub/collectors/gdelt.py`, `tools/gdelt_backfill.py` | the hour last fetched; the tool's directory | fetch an hour, parse, backfill a month | a late batch is no gap; every hour is recorded; a backfill never hides what live knew |
| schedule collector, `hub/collectors/schedule.py`, `tools/schedule_backfill.py` | none | fetch and parse the file, backfill | live and backtest see the same next release, live at most a poll later and never earlier |
| raw archive, `hub/rawstore.py` | blobs by SHA-256, metadata beside them | `put`, `get`, `has` | a record's evidence is there, and parses to it |
| registry, configuration, quarantine, status, web view | loaded once, or NDJSON and JSON files | load, write, render | section 6 |

How they interact. The daemon (`hub run`) is one thread: it polls each due
source (fetch, archive, parse, ingest, append through one `JournalWriter` it
holds for its life), then compiles, beats and sleeps. `hub collect`,
`hub backfill`, `hub compile` and `hub verify` are other processes on the same
directory. Only the writer takes a lock. Compile, verify, readers and the
history rebuild read the journal file by file while it grows; compile and verify
overwrite snapshot files and `manifest.json` in place. A live consumer follows
the journal with a `JournalTail` and asks `as_of` about the present; a backtest
asks about the past.

What is hard: a process may die between any two writes; two commands may run at
once; a read of several files is not one instant; backfills write days,
`known_at`s and revisions out of order; fetches time out while others wait.
`PROJECT.json` lists these hazards one by one with the properties aimed at them.

## 2. The modules

`Ledger` is the abstract store: per dataset, the committed records numbered
1, 2, 3, ... The one step, `Commit`, adds the next record.

`Journal` (`hub/journal.py`) is the store on disk. A day file is a sequence of
complete lines (`file`) and what follows the last newline (`tail`: nothing, a
fragment, or a whole record without its newline). `Open` takes the lock or
fails; `Truncate`, `QuarantineTornTail` and `RepairDone` are `_repair_torn_tails`
with a step between cutting a tail and recording it; `BeginAppend` and
`FinishAppend` are `append` with the moment in between in which bytes are on
disk without the newline; `ShortWrite` is `os.write` returning less than asked;
`Crash` may happen anywhere and releases the lock as the kernel does. `known` is
`_seq`, filled from `ResumeSeq` on first use. `torn` and `quarantine` remember
what was left behind and what was recorded of it. A line's content is a `Facts`
value. `ImplementsLedger` maps the files to `Ledger`.

`JournalTail` (`hubread/journal.py`) puts one tail and historical reads beside
those writers. A poll is `RefreshDays` and then one `ReadDay` per file, with byte
offsets; `RestartTail` resumes from the last `seq`; `ReadRange` is
`read_range`. `Backfills` says whether writers may go back to older days.

`Ingest` (`pipeline.py`, `dedupe.py`, `collect_once`, `_cmd_backfill`): daemons
that hold the writer, embedders that call `collect_once` without one, and
backfills. `CollectOnce`/`Backfill` read history (or take the cache), then each
candidate is one step, `Refuse`, `Drop` or `Assign`; then `OpenWriter`,
`AppendOne` per record, `Finish`, `StampCache`. One dataset, one scope, keys
ordered by `effective_at`, and one derived field, `diff(value, 1)`. The journal
is what `Ledger` promises; `torn` says a fragment makes every read raise.
`offered` is a history variable: the batch a command is at work on, until it
finishes, fails to get the writer, or dies. Without `Overlap` a command begins
only while no other is at work; a daemon that waits between polls is not at work,
but it holds the writer, so the others ingest and then fail to open it.

`Compiler` (`compiler.py`, `manifest.py`, `Reader.range`): a record is its `seq`
and month; a snapshot file is the set of records in it, or `Torn`; a manifest
entry cites such a set, which stands for the SHA-256 of a canonical encoding. A
compile is `LoadManifest`, per dataset `Discover`, `ListFiles`, `ReadMonth`s,
`Plan` (`_unchanged_windows`), a second listing and reading for
`compile_windows`, `VerifyDerived`, `OpenWindow`/`FillWindow` per window,
`RecordEntry`, then `BeginSave`/`EndSave`. Verify shares the recompilation and
adds `CheckFiles`, `Compare` and `FinishVerify`. Operators lose files, edit
schemas, hand-edit journals (`Drift`) and delete an unreadable manifest.

`Scheduler` (`scheduler.py`, `http.py`): the daemon's passes over a clock that
moves only while it fetches, compiles or sleeps. One poll is one step with its
outcome: `Collect`, `NotModified`, `Outage`, `Refusal`, `CollectFails` (a
`HubError`), `Die` (anything else). `doc`, `etag` and `held` follow what the
provider serves, what the next request would be conditional on, and what is
journalled. `dry` counts polls without an answer and `failed` keeps the version
whose storing raised since the source last collected; both are history variables.

`PointInTime` (`Reader.as_of`, `assign`): a collector stamps a batch, its
records become readable up to `Latency` later, backfills insert records with
their own `known_at`, live consumers ask, and `answers` remembers what they were
told.

`Order` has Python's `sorted` of integers and the list comprehension with a
condition as functions over positions; `Payload` what a value is, `_to_decimal`
and `validate_payload`. Four modules are a dataset's pure functions. `Derive` (`hub/derive.py`) has the
recursive-descent parser over tokens, `Names`, `Lookback` and `Eval` for every
node and function. A number is a count of the smallest storable unit (`One` of
them are 1); a result that needs more places than a snapshot stores is `Fine`.
`Schema` (`hub/schema.py`) is `load_schema` with its refusals and the depth-first
`_derived_order`. `Declarative` is what a row becomes:
`where`, scope, times, fields, `null_if`, `since`, and for each parser of
`hub/parse.py` what it makes of each kind of cell a provider prints. `Snapshot`
is `encode` and `decode` as columns, dictionaries and sentinels.

`Dataset` composes them over any schema language: whether a document loads, its
schema, an expression's value and its reach are parameters (`DocumentLoads`,
`SchemaOf`, `ValueOf`, `ReachOf`), so that what the pipeline promises does not
depend on them. `Load` takes a document or refuses it; `Poll` fetches
one of `Feeds`, parses, derives, validates, numbers and journals it as
`collect_once` does; `Compile` recomputes the derived fields and encodes each
month. `ReaderRange` is `Reader.range` over what has been compiled so far and
the journal. Each command is one step: crashes and interleavings are the subject
of the modules above. `Expressions` puts `Schema` and `Derive` in the place of
the parameters and states what is about them.

`RawStore` has the archive's operators; a crash may fall between `PutBody` and
`PutMeta`. `Gdelt` and `Schedule` are the two collectors that are code, each
with the offline tool that computes the same records. `Collectors` composes them
under one daemon thread. `Pass` takes the due sources; `PollHour`, `Download`
per batch, then `TakeHour`, `GiveUpForNow` or `Outage` are
`GdeltEventsSource.fetch`; `PollKept` returns the hour kept in memory;
`PollCalendar` and `Unreadable` are `ScheduleSource.fetch`. A blob goes through
`StoreBody`, `StoreMeta`, `IngestBlob` or `ParseFails`, and one `Append1` per
record. `BackfillMonth` writes the tool's file at any time, `ImportHours` and
`ImportCalendar` are `hub backfill` while no daemon runs. GDELT (`Serve`), the
calendar's owner (`Edit`), `Crash` and `Tick` are the surroundings. `queue` is the
set of due sources still to be polled in this pass. `lapsed` (hours the collector
was not there for), `upSince` (since when the calendar in use is read) and
`sound` (the last calendar that could be read) are history variables.

`MC*` modules give the constants of the runs. Definitions named "Mutant of X" in
a module are plausible bugs of X; each property is shown to fail under one.
`JournalProofs`, `JournalTailProofs`, `IngestProofs`, `CompilerProofs`,
`SchedulerProofs`, `PointInTimeProofs`, `CollectorsProofs` and `DatasetProofs`
hold the theorems.

## 3. The runs

| run | shows |
|---|---|
| `journal` | two processes, two datasets, two days, backfills and crashes anywhere: one writer, `seq` gapless, no garbled line, the counter is the disk's, and the journal implements `Ledger` |
| `journal_short_writes` | with `os.write` writing less than asked: uniqueness and append-only survive (gaplessness and parseability do not, section 7) |
| `tail` | a tail that polls and restarts while its writer crashes and repairs: in order, committed records only, none passed over, no line given up, and every record is delivered |
| `ingest` | two daemons that hold the writer in turn, crash and restart: contiguous revisions, cache equal to a rebuild, derived fields recompute, and each candidate of a batch that was appended is in the journal or in quarantine, whatever earlier polls left behind when they died |
| `ingest_serial` | daemon, embedder and backfill at work one at a time: no echo, and the same of their candidates, though the waiting daemon may lock the others out after they have ingested |
| `compiler` | one compiler killed anywhere, beside appends into any month: each saved manifest can be read in full and has everything journalled before its compile began |
| `compiler_verify` | compile and verify in turns, with lost files, drift and schema edits: verify exits 0 only on an intact store, and each record is compiled in the end |
| `scheduler` | two sources, one with a near-event cadence, one with validators; timeouts, refusals, store errors, fatal errors: bounds on heartbeat age and poll lateness, alert state, 304s only for documents stored or counted as failed |
| `point_in_time` | a strict reader whose lag exceeds the append latency: a backtest gets the live answer, and the latest knowledge |
| `dataset` | documents right and wrong, five feeds in any order, compiles at any time: the parser decides its grammar, a cycle is refused exactly when there is one, `lookback` is enough, what is accepted encodes and is read back, repeats settle, no number is made up |
| `collectors` | late batches, a fault anywhere and backfills at any time: a gap is GDELT's own, every hour is recorded, later revisions know more, evidence is archived, the calendar is current |
| `dataset_high_impact` | finding: a derived z-score with more than eight places refuses the whole release it belongs to |

One type invariant is checked and proved, `Journal.TypeOK`, because the proofs
start from it.

Why some of these are not obvious:

- `SaveIsFresh`: a compile scans the journal, decides, then reads it again, one
  file after the other. The scan may see a late record and miss an earlier one
  in a file it had passed. What saves it is the record count in
  `_unchanged_windows`; the mutant without it fails.
- `CacheEqualsRebuild`: the cache is used when the files' fingerprint matches.
  It is dropped before an ingest and stored after the last append, so a collect
  that dies or raises half-way leaves none.
- `NoCandidateLost` is about the disk at the end of a batch, not about the index:
  a batch that is dropped half-way (a crash, a writer that is taken) is fetched
  or imported again, and what the failed attempt put into an index or a cache
  must not make the next one take its candidates for repeats. Two candidates of
  one key in a batch leave both values, the later one on top.
- `UnchangedWasTaken` allows a 304 for two kinds of documents, because the code
  believes it for two: those whose records are journalled, and those whose
  parsing or storing raised after `fetch` had remembered the validators. The
  second kind is answered 304 on the retry, which counts as a success, takes the
  alert down and leaves the document out of the journal until the provider
  changes it (section 7). What may not happen is a 304 for a page that was
  refused or lost on the way, or that an earlier daemon failed to store.
- `TailMissesNothing` and `SkipsNothing` hold only because a new writer repairs
  before it opens a later day file.
- `HeartbeatIsRecent`: the bound has the longer of one fetch and one compile in
  it, not one fetch per source, because `_poll_due` beats after each source.
  `PolledInTime` does grow with the number of sources: one thread polls them all.
  Its last term is how far a fetch that takes its whole timeout outlasts the
  soonest interval, or minus one where it does not.
- `ParseMatchesGrammar` compares the parser with the grammar of its docstring
  read as rules: the trees of a text are all the ways to split it. The parser
  must accept exactly the texts with a tree, and there must be only one.
- `LookbackSuffices`: ingest hands an expression the newest `reach` facts of its
  scope without the fact's own slot. The property recomputes each journalled
  record over its whole history.
- `AcceptedEncodes` is what keeps one row from stopping every later compile: the
  schema must refuse the number that equals the encoder's null sentinel. It says
  nothing of timestamps, which the code does not check (section 7).
- `RangeReplaysJournal` quantifies over all bounds, with some months compiled
  before their last record, some after and some never.
- `GapIsFinal`: `fetch` reads the clock twice, once to choose the hour and once
  after the downloads to judge the gap. A batch is asked for before the second
  reading, so the guarantee is one fetch weaker than `GAP_FINAL_MS`.
- `EveryHourIsRecorded` holds because an hour with a gap becomes final, and is
  polled once more, before the next hour takes its place
  (`CollectorsAssumption`): a slower cadence would lose it.
- `CalendarIsCurrent` compares the newest live record with the newest backfilled
  one, for the same file, over crashes, restarts, backfills and edits.

## 4. Bounds and fairness

Every bound is a constant with the word "bound" in its declaration, or a named
definition of an MC module. The theorems of section 5 hold for every value of
these, and for every set of processes, keys, sources or months.

- Journal: `MaxSeq` 2 (two datasets) or 3, days 1..2, so that the highest `seq`
  may lie in the older file; at most two distinct torn tails (`FewTorn`).
- Tail: two records over two days, one restart: both records in one file, one in
  each, and a fragment in either.
- Ingest: two keys, values that change and change back, one refused value, a
  backfill row that is early, late and beyond the clock's skew. Five clock ticks
  let a row become stale. Four records in `ingest_serial` are two full batches.
- Compiler: three months, so a kept window may lie before and after a changed
  one, and four records. `compiler_verify` has two months, three records and two
  schema versions, and loses files.
- Scheduler: ten ticks, several passes, compiles, and an event's window opening
  and closing. The source with validators meets every kind of trouble, the other
  one failures. `Timeout` is the longest whole turn of a source, from its request
  to its last journal line; `timeout_seconds` bounds each socket operation in it,
  so a provider that trickles its answer makes a turn longer than that, and the
  bounds on lateness and heartbeat grow with it. `CHECK_DEADLOCK FALSE`: the bounded
  clock ends every behaviour.
  The same holds for `PointInTime`.
- PointInTime: three records of two keys over five ticks.
- Dataset: three polls of five feeds in any order, so that a fact is corrected,
  repeated, moved in time, refused, or arrives before its predecessor, over two
  months. `One` 10 and `Limit` 10000 put a row on the null sentinel and a ratio
  on a value with too many places. Documents: `Working` is collected from, `Wrong`
  has one mistake each, `Tangles` is three derived fields reading each other in
  every way, `Typos` every expression of up to three of eleven tokens, and longer ones
  with one token replaced or left out. Polls end, so `CHECK_DEADLOCK FALSE`.
- Collectors: a tick is a quarter of an hour, an hour two batches; the lags keep
  the code's order (publish 5 < gap final 45 < hour 60 < backfill 90 minutes).
  The clock runs from the end of the first hour over the second, so an hour is
  retried, taken, repeated, hidden and backfilled. The batch that ends the first
  hour is served at any tick, or never. `MaxUpsets` is one crash, outage,
  unreadable file or edit; two of them over a shorter clock give the same result.
  Another calendar may break or move a later release. The clock ends every
  behaviour, so `CHECK_DEADLOCK FALSE`.

Fairness. `tail`: weak fairness of the consumer's own polling; the writer
promises nothing. `compiler_verify`: weak fairness of a compile's steps, because
the daemon's loop never stops compiling; the operator's verify ends (weak
fairness of its steps once begun), and between verifies the daemon gets its turn
(strong fairness of a compile's start). Appends, edits, losses and crashes have
no fairness.

Liveness and enabledness are checked by TLC only.

## 5. The proofs

Each theorem is about the specification its run checks, for every value of the
constants that the module's named assumption allows. Where the code keeps a
promise only under a discipline of use, the discipline is the theorem's
hypothesis, and section 7 has the behaviour that breaks the promise without it.

| theorem | property | hypotheses beyond the module's assumption |
|---|---|---|
| `TypeCorrect`, `WriterIsExclusive`, `SeqsAreUnique`, `FilesAreInSeqOrder` (JournalProofs) | `TypeOK`, `SingleWriter`, `SeqUnique`, each day file in `seq` order (`FileInSeqOrder`) | none: short writes, backfills and crashes included |
| `SeqsAreGapless`, `EveryLineIsARecord`, `CounterIsOnDisk` (JournalProofs) | `SeqGapless`, `NoGarbledLine`, `WriterAgreesWithDisk` | no short write |
| `JournalIsAppendOnly` (JournalProofs) | `AppendOnly` | none |
| `JournalImplementsLedger` (JournalProofs) | `ImplementsLedger` | no short write |
| `TailIsInOrder`, `DeliveredStaysCommitted` (JournalTailProofs) | `TailInOrder`, `DeliveredIsCommitted` | none: short writes, backfills and crashes included |
| `TailIsComplete`, `TailSkipsNothing` (JournalTailProofs) | `TailMissesNothing`, `SkipsNothing` | no short write, no backfill (section 7 has the tail that misses a backfilled record) |
| `RevisionsAreContiguous`, `RepeatsAreDropped` (IngestProofs) | `RevisionsContiguous`, `NoEchoes` | `Disciplined`: only daemons write, and may die anywhere; or embedders and backfills too, one command at a time and none dies |
| `CandidatesAreJournalled` (IngestProofs) | `NoCandidateLost` | `Disciplined`; `None` is no payload |
| `CacheIsARebuild` (IngestProofs) | `CacheEqualsRebuild` | `Disciplined`, no backfills |
| `DatasetCompiles` (IngestProofs) | `CompileVerifies` | `Disciplined`, no backfills, each fetch lists facts oldest first (`Fed`) |
| `VerifyIsHonest` (CompilerProofs) | `VerifyOkMeansIntact` | commands take turns (`~Overlap`); anything may die, be lost, edited or drift |
| `SavesAreFresh` (CompilerProofs) | `SaveIsFresh` | `Durable`: commands take turns, no verify dies, no snapshot file is lost; compiles may die anywhere |
| `AlertsAtThreshold`, `BeatsInTime`, `PollsInTime` (SchedulerProofs) | `AlertMatchesFailures`, `HeartbeatIsRecent`, `PolledInTime` | none |
| `NotModifiedWasTaken` (SchedulerProofs) | `UnchangedWasTaken` | none: failed parses and stores included |
| `ReplaysExactly` (PointInTimeProofs) | `ReplayEqualsLive` | `Honest`: backfilled rows say `derived` and the reader refuses them; `Lagged`: the policy's lag exceeds the append latency |
| `ReturnsLatestKnowledge` (PointInTimeProofs) | `LatestKnowledgeWins` | `Honest` |
| `RecordsHaveEvidence`, `GapsAreFinal` (CollectorsProofs) | `EvidenceIsArchived`, `GapIsFinal` | none |
| `NoHourIsSkipped`, `CalendarStaysCurrent` (CollectorsProofs) | `EveryHourIsRecorded`, `CalendarIsCurrent` | none |
| `RevisionsKnowMore` (CollectorsProofs) | `KnowledgeGrows` | `~Reuse`: every backfill starts in a directory of its own (section 7 has the rerun that breaks it) |
| `ExpandInvertsCompact` (CollectorsProofs) | expanding what `compact` wrote gives the batches back | none |
| `JournalIsEncodable`, `NumbersHaveCells` (DatasetProofs) | `AcceptedEncodes`, `NumbersWerePrinted` | none |
| `RecordsHaveRows` (DatasetProofs) | the invariant behind both: every record carries the collected fields of a fetched row | none |
| `AcceptedIsEncodable` (DatasetProofs) | what `validate_payload` accepts, `encode` can write | field types are the five, an enum has fewer labels than a column has numbers |
| `SnapshotsRoundTrip` (DatasetProofs) | decoding an encoded snapshot gives back the records | the records are a journal's (`JournalRow`): validated, and no timestamp or period is the null sentinel (`Tells`) |

How each argument goes:

- `JournalProofs` rests on `NumberInv`. Uniqueness alone is not inductive: a
  writer's counter must be above every number on disk. `KnownInv` says that no
  number on disk exceeds a counter that has been filled, and that a process
  outside the writer has none; `TopInv` says that a highest number exists on
  disk, so that `ResumeSeq` means something; `Shape` has the types, says that
  only the lock's holder is inside, and (`JobInv`) that the line being written
  carries the number after the counter. `AppendSeqs` computes what an append
  does to the numbers on disk; `OtherStepsKeepFiles` disposes of every other
  action.
- Its second part adds, for whole writes, that a file under an open writer has no
  unfinished tail except the line being written (`TailInv`), that this line is
  the next number (`LineInv`), that lines are whole (`EveryLineWhole`), counters
  agree with the disk (`CountersAgree`) and numbers are `1..n` (`Gapless`). With
  it each `FinishAppend` is a `Commit` and every other step stutters.
- `JournalTailProofs` first computes what a turn of `poll`'s loop does, for every
  file and offset: where lines end (`EndsFacts`), which lines lie behind an
  offset (`ChunkAny`, `ChunkAt`), what the loop makes of them (`ConsumeAll`) and
  what a sorted listing is (`ListingFacts`). Order and commitment then need only
  that the tail stands in its listing (`PlaceInv`) and that complete lines stay
  (`LinesStay` of `JournalProofs`): `FollowInv`. Completeness is not inductive
  alone. `CaughtInv` adds where the tail stands: at the end of a line, with every
  line before it, in this day and in earlier ones, numbered at most `last_seq`
  (`PassedInv`). That stays true because seqs rise from day to day (`DayOrder`),
  because a listing only grows at its end (`DaysInv`), and because only the
  newest day is written to or has bytes behind its last newline (`NewestInv`):
  a new writer repairs before it opens a later day. A new record is therefore
  numbered above all that was delivered, and a tail that leaves a day leaves
  nothing in it.
- `IngestProofs` speaks of what will be journalled: for a process at work, the
  journal followed by its `todo`. `Good` says of such a log that its revisions
  count (`Revised`), that none repeats its predecessor (`Fresh`) and, where the
  hypotheses allow, that it stands in `known_at` and in `sort_key` order
  (`Timely`, `Sorted`) with each record derived from those before it
  (`Derived`). `Agrees` says that an index and a history are those of the log,
  `CacheInv` the same of a cache whose fingerprint still matches, and `ModeInv`
  that one process at a time is inside, on a journal without a fragment. An
  `Assign` extends the log by one record and the index, the history and `Good`
  with it; an `AppendOne` moves a record from `todo` to the journal and leaves
  the log as it was. `Behind` keeps a second fetch within one clock reading from
  breaking the order.
- Its last part follows a batch to the disk. `Settled` says of a candidate that it
  is refused and in quarantine, or that its value is among the records that will
  be journalled and on top of its key unless a later candidate may supersede it.
  `OfferInv` says that a command has some number of candidates behind it, each
  settled, and the others before it. `SettledByRepeat` is where the index meets
  the journal: a candidate is dropped because the index has its payload, and for
  a process at work the index is that of the log (`Agrees`), whatever crashed
  before; `SettledByRecord` extends the log. When `todo` is empty the log is the
  journal.
- `CompilerProofs` first shows what a read sees while the journal grows:
  `ReadInv` says that a command has all the records numbered up to its `mark` in
  the months it is past, nothing the journal does not hold, and on disk what it
  read for each file done. `VerifyInv` adds what a verify has confirmed of the
  datasets behind it. For the save, `ManifestInv` is the heart: a cited file that
  is not as cited is one the next compile will write again, because a record of
  its month or an earlier one is newer than the entry or missing from it
  (`Touched`). That is why a compile killed over a half-written file does no
  harm, and why a verify killed over one does. `PlanKeeps` is
  `_unchanged_windows` proved right: a window kept is intact and has every early
  record, though the scan it was judged by is no snapshot; the record count
  turns an inclusion into an equality. `CompileInv` carries this through the
  plan, the second read, the entries and the save.
- `SchedulerProofs`: `BeatInv` bounds the heartbeat's age in each phase of a
  pass. `LateInv` bounds, in each phase, how far every source is behind: a
  source this pass has polled is due `Soon` after the pass began at the
  earliest, and one it passes over leaves a turn less to wait for. `HeldInv`:
  remembered validators belong to a document whose records are held, or to the
  one whose storing raised last.
- `PointInTimeProofs`: revisions grow along the log, the journal and the batch
  under way (`Numbered`), observed records stand in the order they were learnt
  (`LearntInOrder`), and what is still to be appended carries one clock reading
  at most `Latency` old (`BatchInv`), so it is too young for any instant already
  asked about.
- `CollectorsProofs` first proves what sorting, picking and flattening lists do
  (`InOrderFacts`, `PickedFacts`, `FlattenFacts`), by induction over a set of
  naturals (`Least`), and with them `ExpandInvertsCompact`. Evidence and gaps: an
  archived blob hashes to its address (`Addressed`), a fetch under way found
  nothing missing that was served before it began (`FetchInv`), and this goes
  with the hour through the blob, the archive and the record's `raw_ref`
  (`GoodHour`, `Evident`).
- `KnowledgeGrows` compares records that live polls and backfills made at
  different times, so it is carried as "nothing recorded of this hour so far
  counts more batches than the one at hand can find". `MemoryInv` says it of the
  hour kept in memory, `FloorInv` of a fetch under way (what it has plus what is
  still served), `RowInv` of every row of a backfill's file: GDELT only adds. An
  old blob does no harm because it is recent when it is recorded (`Recent`), and
  a backfill's rows are known a `KnownLag` after their hour, later than that.
  `NextRevisionInv` and `LastRevisionInv` say where the next revision goes.
- `EveryHourIsRecorded`: each hour is `Done`, or `Pending` (the next poll comes
  before the next hour hides it), or `Working`, or lapsed (`HoursInv`). `PassInv`
  has the time: no time passes within a pass, and a due time is missed by at
  most one fetch, which is why `CollectorsAssumption` is enough.
- `CalendarIsCurrent`: a record shows an event of the last good file that was
  next when it was known (`DatedInv`, `Shows`), a calendar in hand shows what the
  good one does now (`FetchedInv`), and the event that was next at the last poll
  is recorded (`ShownInv`). The newest such record is the backtest's.
- `DatasetProofs`: `Dictionaries` says that sorting a snapshot's scopes, keys and
  references lists each once, because their orders are total (`PartOrder`,
  `KeyOrder`), and `FieldRoundTrip` that a stored value is never the sentinel.
  For the journal, `DatasetInv` says that each record comes from the candidate of
  a row that was fetched. `IngestRecords` follows it through a poll (a loop is a
  function over `0..n`; what it keeps is shown at the least step that would not),
  `DeriveKeeps` through the derivation, `ParsedRows` and `FieldPrints` back to
  the cell. The assumption `Authored` is what a loaded document must be: the
  loader's rules, and collectors that read numbers with a parser of numbers, as
  every file under `datasets/` does.

The inductive invariants were checked with TLC on instances of the runs before
they were proved, but for `DatasetInv`, which quantifies over payloads. Where a
proof failed for a reason, it corrected the model:

- the heartbeat's bound had a fetch in it where a compile that takes longer than
  any fetch has to count, and the bound on lateness was too small for a soonest
  interval longer than a timeout and a tick;
- `aggregate` counts an event id once per region, not once per hour: an id listed
  for two countries counts in both (`Counted`);
- hours that were over before the collector was first started are not its to
  record (`lapsed` in `Init`), which shows only where `Begin` is late;
- a file that cannot be read leaves the last good calendar in force, not the
  last version (`sound`), and a calendar whose events are over shows nothing;
- an int column takes any int: `Encodes` had nothing to say of a timestamp's
  width, and the encoder cannot pack a wide one (section 7).

None of these shows at the instance its run checks.

Only model-checked:

- all liveness (`EverythingIsDelivered`, `HealthyIsCompiled`);
- `ParseMatchesGrammar`, `LoadedSchemaEvaluates`, `LookbackSuffices` and
  `RepollSettles` (`Expressions`): the parser, the trees and the depth-first
  visit are recursive operators, which puts them outside the prover;
- `RangeReplaysJournal`: sorting, selecting and folding with the library's
  operators, which the provers take as opaque. Its two halves are proved apart:
  `SnapshotsRoundTrip` here, and in `CompilerProofs` that a saved manifest's
  windows hold what was journalled.

## 6. What is not modelled

- The descriptor cache of the writer: eviction closes a file whose writes are
  synced, and the next append opens it again.
- JSON and decimal formatting, `simpleyaml`, the tokenizer's characters, and the
  snapshot's magic, hashes, lengths and byte packing: text and byte processing
  without state. They appear as values and injective hashes. Keys are tuples of
  their parts, ordered part by part; the code orders their text.
- Calendar arithmetic: months and days are numbers. The upper bound of
  timestamps (`MAX_TIMESTAMP`) is out of reach of a collected row.
- `Reader.windows` and `health`; decoding a document into rows (`_rows`,
  `_select`), whose failure is `Die` or `CollectFails` in `Scheduler`; HTTP beyond
  validators and outcomes.
- Quarantine appears as the set of what was refused. Status files are replaced
  atomically and nothing in the core reads them. The web view only reads.
- Configuration and the registry's directory walk: constants after the start.
- Offline tools other than the two backfills: their output is a backfill file of
  `Ingest`.
- In `Ingest`, a fragment makes reads raise. A fragment that happens to be a
  whole record without its newline is read instead; `JournalTail` has that case.
- A clock that goes backwards.

## 7. What the code does not guarantee

One of these is a run, `dataset_high_impact`: `ingest` validates derived fields
like collected ones, and a value with more than eight decimal places is refused
(`hub/schema.py:166`), so the shipped calendar loses a release whose
`surprise_z` does not come out even; `hub/derive.py:17-20` says an expression
that fails yields null.

The others were met while modelling. Each is a property stated in its module;
checking it with the constants given here produces the behaviour.

| property | instance | the code | the text |
|---|---|---|---|
| `EveryLineParses` (Journal) | `ShortWrites = TRUE` | `append` ignores `os.write`'s result (`hub/journal.py:76`) and glues the next record to a short one | `hub/journal.py:43-44` |
| `NothingVanishes` (Journal) | `ShortWrites = FALSE` | a tail is truncated before it is quarantined (`hub/journal.py:181-184`) | `hub/journal.py:156-157` |
| `NumbersAboveReads` (JournalTail) | the constants of `tail`, two `Facts` | `read_day_file` returns a whole record whose newline has not landed; a repair takes it back and its `seq` is given again (`hubread/journal.py:58`) | `docs/FORMAT.md:63`, `hub/journal.py:124-125` |
| `TailMissesNothing` (JournalTail) | `Backfills = TRUE` | a tail never returns to an older day file | `hubread/journal.py:83` |
| `RevisionsContiguous` (Ingest) | daemon and backfill, `Overlap = TRUE` | a backfill reads its history before it takes the lock (`hub/__main__.py:254`) | `hub/scheduler.py:63-64` |
| `RevisionsContiguous` (Ingest) | daemon and backfill in turns, `Crashes = TRUE` | a torn line makes the history read raise, which yields an empty index (`hub/__main__.py:77`), before the writer repairs it | `hub/__main__.py:62` |
| `CompileVerifies` (Ingest) | daemon and backfill in turns; or `LiveBatches <- MCShuffled` | derived in feed order, verified in `known_at` and key order (`hub/compiler.py:136`) | `hub/compiler.py:112-119` |
| `RebuildKeepsHighest` (Ingest) | daemon and backfill in turns | a rebuild upserts by `known_at` before revision (`hub/__main__.py:83`) | `hub/__main__.py:70-71` |
| `SaveIsFresh` (Compiler) | two compilers, `Overlap = TRUE` | no lock keeps two compiles apart | `hub/compiler.py:306-308` |
| `SaveIsFresh` (Compiler) | compiler and verifier in turns, `Mortal = {v1}` | a verify killed while it rewrites a window leaves a torn file that later compiles keep, because it exists (`hub/compiler.py:328`) | `docs/OPERATIONS.md:54-55` |
| `ManifestIsRebuilt` (Compiler) | `LiveSpec`, `Mortal = {c1}` | `Manifest.save` writes in place; a cut file stops every later compile | `docs/OPERATIONS.md:54-55` |
| `HealthyIsCompiled` (Compiler) | `LiveSpec`, two datasets, `Drifting = {2}` | one dataset's `StoreError` leaves `compile_all` before the save (`hub/compiler.py:271`) | `hub/scheduler.py:4-5` |
| `SnapshotsAreImmutable` (Compiler) | one compiler | a cited file is overwritten before the manifest is saved (`hub/compiler.py:197`) | `hubread/snapshot.py:3` |
| `VerifyOnlyCompares` (Compiler) | compiler and verifier in turns | verify writes the files it audits (`hub/compiler.py:394`) | `README.md:189` |
| `RangeIsComplete` (Compiler) | one compiler | a compiled month is read from its snapshot alone (`hubread/reader.py:226`) | `hubread/reader.py:207-209` |
| `OutageIsRetriedSooner`, `OutageIsAlerted` (Scheduler) | `"outage"` | a fetch without an answer counts as a success (`hub/__main__.py:116`, `hub/scheduler.py:132`) | `hub/collectors/http.py:63`, `docs/OPERATIONS.md:30` |
| `NeverDelaysAnother` (Scheduler) | `"outage"`, `Timeout = 2` | sources are polled one after the other | `hub/scheduler.py:3-4` |
| `DaemonSurvives` (Scheduler) | `Fatal = TRUE` | only `HubError` is caught (`hub/scheduler.py:136`) | `hub/scheduler.py:3-5` |
| `TightensNearEvents` (Scheduler) | the shipped cadence, `CalSteady` and the other `Cal` definitions, `Releases <- CalEvents` | the next poll is set a steady interval ahead although a window opens before it (`hub/scheduler.py:101`) | `README.md:134-136` |
| `UnchangedMeansHeld` (Scheduler) | the constants of `scheduler` | validators are remembered before the document is journalled (`hub/collectors/http.py:93`) | `hub/collectors/http.py:9-10` |
| `ReplayEqualsLive` (PointInTime) | `MinLag = 0`, `Latency = 1`; or `BackfillAs = {"observed"}` | `known_at` is read before the records are readable (`hub/__main__.py:133`); a backfill row may say `observed` (`hub/__main__.py:271`) | `README.md:190`, `docs/OPERATIONS.md:48-50` |
| `LatestKnowledgeWins` (PointInTime) | `RefuseDerived = FALSE` | `as_of` compares revisions before `known_at` (`hubread/reader.py:279`) | `hubread/reader.py:270` |
| `KnowledgeGrows` (Collectors) | `Reuse = TRUE`, `Begin = 11`, `MaxClock = 18`, batches up to 12 | `masterfilelist.txt` is read once per directory, so a rerun counts batches published since as missing (`tools/gdelt_backfill.py:43`) and its rows supersede live ones | `tools/gdelt_backfill.py:5-8` |
| `AcceptedPacks` (Dataset) | `Documents <- Dated` | a timestamp field takes any int (`hub/schema.py:181`) and `epoch_seconds` multiplies without a bound; the column's `struct.pack` (`hub/snapshot.py:68`) then raises an error that is no `HubError`, in every compile | `hub/schema.py:162-164`, above the check that numbers get |

Excluded by a guard or a precondition, with the place to look:

- A month backfilled and marked `.done` before it is over is never completed
  (`tools/gdelt_backfill.py`; `Reuse` with `done`).
- An edit of the calendar at or before the next event (`Edit`'s guard): an event
  that was offered before is offered again as a duplicate, so the newest record
  stays the wrong one (`hub/collectors/schedule.py:15`).
- A crash between a blob and its metadata loses the metadata for good: a later
  `put` finds the blob and returns (`hub/rawstore.py:54`). For a calendar the
  archive keeps the first fetch's time, and the record follows from the time of
  its own fetch (`EvidenceIsArchived` says "as of some instant").
- `RepollSettles` leaves out schemas that derive from `since`, `until` or
  `known_at`: each poll is a revision, though `hub/dedupe.py:10-12` keeps
  `known_at` out of the comparison for that reason. A document that lists a key
  twice with different values flaps, and an unsorted one needs several polls.
- A bad `effective_at` or period cell fails the whole document; the comment at
  `hub/collectors/declarative.py:307-310` is about fields only.
- A snapshot does not hold string fields (`hubread/snapshot.py:17-19`), so a
  record read from one is the journalled record's projection (`Projected`).

## 8. The plan

Done: `Ledger`, `Journal`, `JournalTail`, `Ingest`, `Compiler`, `Scheduler`,
`PointInTime`; `Order`, `Payload`, `Derive`, `Schema`, `Declarative`, `Snapshot`,
`Dataset`, `Expressions`; `RawStore`, `Gdelt`, `Schedule`, `Collectors`; the
theorems of section 5.

Left: `Reader.windows` and `health` in `PointInTime`; the writer's descriptor
cache as a refinement of `Journal`; `RangeReplaysJournal` as a theorem, from
`SnapshotsRoundTrip` and a definition of `sorted` over rows that can be unfolded.
