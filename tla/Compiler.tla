------------------------------ MODULE Compiler ------------------------------
(* hub/compiler.py and hub/manifest.py: compile_all folds every dataset's  *)
(* journal into one snapshot file per calendar month and rewrites          *)
(* manifest.json; verify recompiles what the manifest names; a Reader      *)
(* (hubread/reader.py) serves a month from its snapshot once it has one.   *)
(* None of the three takes the journal's lock, so they run beside the      *)
(* writer and beside each other, and each reads the journal file by file.  *)
(*                                                                         *)
(* A record is its seq; journal[d][s] is the month of record s.  A snapshot*)
(* file is the set of records encoded in it, and the SHA-256 a manifest    *)
(* entry cites is that set: the encoding is canonical, the hash injective. *)
EXTENDS Integers, Sequences, FiniteSets, FiniteSetsExt

CONSTANTS
    Count,       \* datasets 1..Count, in the registry's order
    Months,      \* calendar months, as integers
    Versions,    \* schema versions a dataset's YAML may go through
    Compilers,   \* processes that run `hub compile` (the daemon among them)
    Verifiers,   \* processes that run `hub verify`
    Overlap,     \* may two of them run at once?
    Mortal,      \* the processes that may die half-way
    Losses,      \* may snapshot files go missing between runs?
    Drifting,    \* datasets whose journal may stop matching its derived fields
    MaxSeq,      \* bound: records per dataset
    None, Torn, Corrupt

ASSUME CompilerAssumption ==
    /\ Count \in Nat \ {0}
    /\ Months \subseteq Nat /\ Months # {}
    /\ Versions \subseteq Nat /\ 1 \in Versions
    /\ Drifting \subseteq 1..Count
    /\ Mortal \subseteq Compilers \cup Verifiers
    /\ Compilers \cap Verifiers = {}
    /\ Overlap \in BOOLEAN /\ Losses \in BOOLEAN
    /\ MaxSeq \in Nat

VARIABLES
    journal,     \* per dataset, the month of every committed record
    schema,      \* per dataset, the version of its YAML
    drifted,     \* datasets that no longer pass _verify_derived_fields
    snapshot,    \* the files under snapshot/<dataset>/<schema hash>/
    manifest,    \* manifest.json, or Corrupt while or after a cut-short save
    run,         \* per process, the locals of compile_all or verify
    mark         \* per process, the journals' lengths when its command began

vars == <<journal, schema, drifted, snapshot, manifest, run, mark>>

Procs    == Compilers \cup Verifiers
Datasets == 1..Count
Contents == SUBSET (1..MaxSeq)
Entry    == [ver : Versions, last : 0..MaxSeq, win : [Months -> Contents \cup {None}]]
Manifest == [Datasets -> Entry \cup {None}]

-----------------------------------------------------------------------------
(* read_day_file of every day file of one month. *)
Recorded(d, m)  == {s \in DOMAIN journal[d] : journal[d][s] = m}
(* list_day_files, and _discover_windows: the months with a day file. *)
Discovered(d)   == Range(journal[d])
(* The records of one month among those a read returned. *)
OfMonth(d, recs, m) == {s \in recs : journal[d][s] = m}
LastSeq(recs)   == Max(recs \cup {0})

(* _unchanged_windows without the record count. *)
UnchangedUncounted(d, ver, prev, recs, windows) ==
    IF prev = None \/ prev.ver # ver \/ LastSeq(recs) < prev.last THEN {}
    ELSE {m \in windows : /\ prev.win[m] # None
                          /\ \A s \in recs : s > prev.last => m < journal[d][s]
                          /\ snapshot[d][ver][m] # None}

(* _unchanged_windows that keeps whatever the manifest has. *)
UnchangedAll(d, ver, prev, recs, windows) ==
    IF prev = None THEN {} ELSE {m \in windows : prev.win[m] # None}

(* _unchanged_windows: the entries of `prev` a compile keeps as they are.  *)
Unchanged(d, ver, prev, recs, windows) ==
    IF prev = None \/ prev.ver # ver \/ LastSeq(recs) < prev.last THEN {}
    ELSE LET changed == {journal[d][s] : s \in {r \in recs : r > prev.last}}
         IN  {m \in windows :
                 /\ prev.win[m] # None
                 /\ \A c \in changed : m < c
                 /\ Cardinality(OfMonth(d, recs, m)) = Cardinality(prev.win[m])
                 /\ snapshot[d][ver][m] # None}

-----------------------------------------------------------------------------
Idle == [pc |-> "idle", man |-> [d \in Datasets |-> None], reg |-> [d \in Datasets |-> 1],
         cur |-> 1, windows |-> {}, unread |-> {}, recs |-> {}, last |-> 0,
         kept |-> {}, todo |-> {}, problems |-> {}]

Init ==
    /\ journal  = [d \in Datasets |-> <<>>]
    /\ schema   = [d \in Datasets |-> 1]
    /\ drifted  = {}
    /\ snapshot = [d \in Datasets |-> [v \in Versions |-> [m \in Months |-> None]]]
    /\ manifest = [d \in Datasets |-> None]
    /\ run      = [p \in Procs |-> Idle]
    /\ mark     = [p \in Procs |-> [d \in Datasets |-> 0]]

store == <<journal, schema, drifted>>

(* The writer appends one record; a backfill may reach back to any month. *)
AppendRecord(d, m) ==
    /\ Len(journal[d]) < MaxSeq
    /\ journal' = [journal EXCEPT ![d] = Append(@, m)]
    /\ UNCHANGED <<schema, drifted, snapshot, manifest, run, mark>>

(* An operator edits the dataset's YAML: a new schema hash. *)
EditSchema(d) ==
    /\ schema[d] + 1 \in Versions
    /\ schema' = [schema EXCEPT ![d] = @ + 1]
    /\ UNCHANGED <<journal, drifted, snapshot, manifest, run, mark>>

(* A derived value on disk stops matching its recomputation. *)
Drift(d) ==
    /\ d \in Drifting \ drifted
    /\ journal[d] # <<>>
    /\ drifted' = drifted \cup {d}
    /\ UNCHANGED <<journal, schema, snapshot, manifest, run, mark>>

(* A snapshot file is not restored with the journal (docs/OPERATIONS.md,   *)
(* "Restore"), while no command runs.                                      *)
Lose(d, v, m) ==
    /\ Losses
    /\ \A p \in Procs : run[p].pc = "idle"
    /\ snapshot[d][v][m] # None
    /\ snapshot' = [snapshot EXCEPT ![d][v][m] = None]
    /\ UNCHANGED <<journal, schema, drifted, manifest, run, mark>>

(* An operator deletes a manifest.json that no command can read any more.  *)
RemoveManifest ==
    /\ manifest = Corrupt
    /\ \A p \in Procs : run[p].pc = "idle"
    /\ manifest' = [d \in Datasets |-> None]
    /\ UNCHANGED <<store, snapshot, run, mark>>

(* Both commands begin with Manifest.load and the registry's schemas.  A   *)
(* manifest that is no JSON raises ValueError and ends the command.        *)
LoadManifest(p) ==
    /\ run[p].pc = "idle"
    /\ manifest # Corrupt
    /\ Overlap \/ \A q \in Procs : run[q].pc = "idle"
    /\ run'  = [run EXCEPT ![p] = [Idle EXCEPT !.pc = "dataset", !.man = manifest, !.reg = schema]]
    /\ mark' = [mark EXCEPT ![p] = [d \in Datasets |-> Len(journal[d])]]
    /\ UNCHANGED <<store, snapshot, manifest>>

NextDataset(r) == [r EXCEPT !.pc = "dataset", !.cur = @ + 1, !.windows = {}, !.unread = {},
                            !.recs = {}, !.last = 0, !.kept = {}, !.todo = {}]

(* verify: the dataset, if any, that a problem is reported of. *)
Report(r, bad) == [r EXCEPT !.problems = @ \cup bad]

(* compile_all: the windows of the next dataset, or the dataset is passed over. *)
Discover(p) ==
    LET d == run[p].cur IN
    /\ p \in Compilers /\ run[p].pc = "dataset" /\ d <= Count
    /\ run' = [run EXCEPT ![p] =
                 IF journal[d] = <<>> THEN NextDataset(@)
                 ELSE [@ EXCEPT !.pc = "list", !.windows = Discovered(d)]]
    /\ UNCHANGED <<store, snapshot, manifest, mark>>

(* read_range lists the day files first: those of every month for the scan,*)
(* those of the windows to be written for compile_windows' second read.    *)
ListFiles(p) ==
    LET d == run[p].cur IN
    /\ run[p].pc \in {"list", "relist"}
    /\ run' = [run EXCEPT ![p] = [@ EXCEPT
         !.pc = IF run[p].pc = "list" THEN "scan" ELSE "read",
         !.recs = {},
         !.unread = IF run[p].pc = "list" THEN Discovered(d) ELSE run[p].todo \cap Discovered(d)]]
    /\ UNCHANGED <<store, snapshot, manifest, mark>>

(* ... and then reads them one after the other, oldest first. *)
ReadMonth(p) ==
    LET d == run[p].cur
        m == Min(run[p].unread)
    IN
    /\ run[p].pc \in {"scan", "read"} /\ run[p].unread # {}
    /\ run' = [run EXCEPT ![p].recs = @ \cup Recorded(d, m), ![p].unread = @ \ {m}]
    /\ UNCHANGED <<store, snapshot, manifest, mark>>

(* compile_all: last_seq, and the windows to keep and to compile. *)
Plan(p) ==
    LET d    == run[p].cur
        recs == run[p].recs
        keep == Unchanged(d, run[p].reg[d], run[p].man[d], recs, run[p].windows)
    IN
    /\ run[p].pc = "scan" /\ run[p].unread = {}
    /\ run' = [run EXCEPT ![p].kept = keep, ![p].last = LastSeq(recs),
                          ![p].todo = run[p].windows \ keep,
                          ![p].pc = IF run[p].windows = keep THEN "entry" ELSE "relist"]
    /\ UNCHANGED <<store, snapshot, manifest, mark>>

(* compile_windows verifies what it read before it writes.  A mismatch is  *)
(* a StoreError: it leaves compile_all altogether, with nothing saved;     *)
(* verify reports it and goes on to the next dataset.                      *)
VerifyDerived(p) ==
    LET d == run[p].cur IN
    /\ run[p].pc = "read" /\ run[p].unread = {}
    /\ run' = [run EXCEPT ![p] =
                 IF d \notin drifted THEN [@ EXCEPT !.pc = "write"]
                 ELSE IF p \in Compilers THEN Idle
                 ELSE NextDataset(Report(@, {d}))]
    /\ UNCHANGED <<store, snapshot, manifest, mark>>

(* _write_window, oldest window first: write_bytes opens the file, which empties it ... *)
OpenWindow(p) ==
    LET d == run[p].cur IN
    /\ run[p].pc = "write" /\ run[p].todo # {}
    /\ snapshot' = [snapshot EXCEPT ![d][run[p].reg[d]][Min(run[p].todo)] = Torn]
    /\ run' = [run EXCEPT ![p].pc = "fill"]
    /\ UNCHANGED <<store, manifest, mark>>

(* ... and fills it.  If another process has filled it since with more     *)
(* than this one writes, the rest of those bytes stays behind.             *)
FillWindow(p) ==
    LET d    == run[p].cur
        m    == Min(run[p].todo)
        data == OfMonth(d, run[p].recs, m)
        old  == snapshot[d][run[p].reg[d]][m]
    IN
    /\ run[p].pc = "fill"
    /\ snapshot' = [snapshot EXCEPT ![d][run[p].reg[d]][m] =
                      IF old = Torn \/ Cardinality(old) <= Cardinality(data)
                      THEN data ELSE Torn]
    /\ run' = [run EXCEPT ![p].pc = IF run[p].todo = {m} THEN "entry" ELSE "write",
                          ![p].todo = @ \ {m}]
    /\ UNCHANGED <<store, manifest, mark>>

(* compile_all: the dataset's new manifest entry, in memory. *)
RecordEntry(p) ==
    LET d == run[p].cur
        r == run[p]
    IN
    /\ p \in Compilers /\ r.pc = "entry"
    /\ run' = [run EXCEPT ![p] = NextDataset([@ EXCEPT !.man[d] =
         [ver |-> r.reg[d], last |-> r.last,
          win |-> [m \in Months |-> CASE m \in r.kept -> r.man[d].win[m]
                                      [] m \in r.windows \ r.kept -> OfMonth(d, r.recs, m)
                                      [] OTHER -> None]]])]
    /\ UNCHANGED <<store, snapshot, manifest, mark>>

(* Manifest.save opens manifest.json, which empties it ... *)
BeginSave(p) ==
    /\ p \in Compilers /\ run[p].pc = "dataset" /\ run[p].cur > Count
    /\ manifest' = Corrupt
    /\ run' = [run EXCEPT ![p].pc = "save"]
    /\ UNCHANGED <<store, snapshot, mark>>

(* ... and writes it. *)
EndSave(p) ==
    /\ run[p].pc = "save"
    /\ manifest' = run[p].man
    /\ run' = [run EXCEPT ![p] = Idle]
    /\ UNCHANGED <<store, snapshot, mark>>

(* verify that passes over a window whose file is missing. *)
CheckFilesPresent(p) ==
    LET d       == run[p].cur
        e       == run[p].man[d]
        present == {m \in Months : e.win[m] # None /\ snapshot[d][e.ver][m] # None}
    IN
    /\ p \in Verifiers /\ run[p].pc = "dataset" /\ d <= Count
    /\ run' = [run EXCEPT ![p] =
         IF e = None \/ present = {} THEN NextDataset(@)
         ELSE [@ EXCEPT !.pc = "relist", !.windows = present, !.todo = present]]
    /\ UNCHANGED <<store, snapshot, manifest, mark>>

(* verify: every file the manifest names is there with the bytes it cites. *)
(* Only the windows whose file is there are recompiled.                    *)
CheckFiles(p) ==
    LET d       == run[p].cur
        e       == run[p].man[d]
        present == {m \in Months : e.win[m] # None /\ snapshot[d][e.ver][m] # None}
        intact  == \A m \in Months : e.win[m] # None => snapshot[d][e.ver][m] = e.win[m]
    IN
    /\ p \in Verifiers /\ run[p].pc = "dataset" /\ d <= Count
    /\ run' = [run EXCEPT ![p] =
         IF e = None THEN NextDataset(@)
         ELSE LET r == Report(@, IF intact THEN {} ELSE {d})
              IN  IF present = {} THEN NextDataset(r)
                  ELSE [r EXCEPT !.pc = "relist", !.windows = present, !.todo = present]]
    /\ UNCHANGED <<store, snapshot, manifest, mark>>

(* verify: the recompiled bytes are the ones the manifest cites. *)
Compare(p) ==
    LET d == run[p].cur
        e == run[p].man[d]
        same == /\ e.ver = run[p].reg[d]
                /\ \A m \in run[p].windows : OfMonth(d, run[p].recs, m) = e.win[m]
    IN
    /\ p \in Verifiers /\ run[p].pc = "entry"
    /\ run' = [run EXCEPT ![p] = NextDataset(Report(@, IF same THEN {} ELSE {d}))]
    /\ UNCHANGED <<store, snapshot, manifest, mark>>

(* `hub verify` exits: 0 when there was no problem. *)
FinishVerify(p) ==
    /\ p \in Verifiers /\ run[p].pc = "dataset" /\ run[p].cur > Count
    /\ run' = [run EXCEPT ![p] = Idle]
    /\ UNCHANGED <<store, snapshot, manifest, mark>>

Crash(p) ==
    /\ p \in Mortal /\ run[p].pc # "idle"
    /\ run' = [run EXCEPT ![p] = Idle]
    /\ UNCHANGED <<store, snapshot, manifest, mark>>

Step(p) ==
    \/ LoadManifest(p) \/ Discover(p) \/ ListFiles(p) \/ ReadMonth(p) \/ Plan(p)
    \/ VerifyDerived(p) \/ OpenWindow(p) \/ FillWindow(p) \/ RecordEntry(p)
    \/ BeginSave(p) \/ EndSave(p) \/ CheckFiles(p) \/ Compare(p) \/ FinishVerify(p)

Next ==
    \/ \E d \in Datasets : \/ \E m \in Months : AppendRecord(d, m)
                           \/ EditSchema(d)
                           \/ Drift(d)
                           \/ \E v \in Versions, m \in Months : Lose(d, v, m)
    \/ RemoveManifest
    \/ \E p \in Procs : Step(p) \/ Crash(p)

Spec == Init /\ [][Next]_vars

(* The daemon compiles again and again (hub/scheduler.py, _loop), and gets *)
(* its turn between the operator's verifies, which end.  Nobody promises a *)
(* new record, an edit or a verify.                                        *)
LiveSpec ==
    /\ Spec
    /\ \A p \in Compilers : WF_vars(Step(p)) /\ SF_vars(LoadManifest(p))
    /\ \A p \in Verifiers : WF_vars(run[p].pc # "idle" /\ Step(p))

-----------------------------------------------------------------------------
(* Reader.range over the whole months from..to: a month the manifest has a *)
(* window for comes from its snapshot, any other from the journal; bytes   *)
(* that do not hash to what the manifest cites are a StoreError.           *)
InRange(from, to) == {m \in Months : from <= m /\ m <= to}
Compiled(d, m)    == manifest[d] # None /\ manifest[d].win[m] # None
Readable(d, m)    == Compiled(d, m) => snapshot[d][manifest[d].ver][m] = manifest[d].win[m]
RangeFails(d, from, to) == \E m \in InRange(from, to) : ~Readable(d, m)
RangeOf(d, from, to) ==
    UNION {IF Compiled(d, m) THEN manifest[d].win[m] ELSE Recorded(d, m) : m \in InRange(from, to)}

(* What a range over from..to is asked for. *)
Wanted(d, from, to) == UNION {Recorded(d, m) : m \in InRange(from, to)}

(* Whenever a compile has saved its manifest, a Reader that opens it can   *)
(* read every month, gets every record journalled before that compile      *)
(* began, and nothing the journal does not hold: however appends fell      *)
(* between the compile's reads, and wherever earlier compiles were killed. *)
SaveIsFresh ==
    [][\A p \in Compilers : EndSave(p) =>
         \A d \in Datasets, from \in Months, to \in Months :
            /\ ~RangeFails(d, from, to)'
            /\ {s \in Wanted(d, from, to) : s <= mark[p][d]} \subseteq RangeOf(d, from, to)'
            /\ RangeOf(d, from, to)' \subseteq Wanted(d, from, to)]_vars

(* verify never calls a store good that it could not confirm: when it      *)
(* exits 0, every window of the manifest is on disk as cited and holds all *)
(* that had been journalled for its month (README.md:196).                 *)
VerifyOkMeansIntact ==
    [][\A p \in Verifiers : (FinishVerify(p) /\ run[p].problems = {}) =>
         \A d \in Datasets, m \in Months : Compiled(d, m) =>
            /\ Readable(d, m)
            /\ {s \in Recorded(d, m) : s <= mark[p][d]} \subseteq manifest[d].win[m]]_vars

(* Every record ends up in a window of the saved manifest, unless its own  *)
(* dataset stops verifying: one that slipped past a compile's reads is     *)
(* caught by a later one, and what befalls another dataset is no excuse    *)
(* (hub/scheduler.py:3-5).                                                 *)
HealthyIsCompiled ==
    \A d \in Datasets, s \in 1..MaxSeq :
        (s \in DOMAIN journal[d]) ~>
            (\/ d \in drifted
             \/ /\ manifest # Corrupt /\ manifest[d] # None
                /\ \E m \in Months : manifest[d].win[m] # None /\ s \in manifest[d].win[m])

(* A manifest.json left unreadable is rebuilt by the next compile          *)
(* (docs/OPERATIONS.md:54-55).                                             *)
ManifestIsRebuilt == (manifest = Corrupt) ~> (manifest # Corrupt)

(* A snapshot file that a manifest cites keeps its bytes as long as it is  *)
(* cited (hubread/snapshot.py:3 calls it immutable).                       *)
SnapshotsAreImmutable ==
    [][(manifest # Corrupt /\ manifest' = manifest) =>
         \A d \in Datasets, m \in Months : (Compiled(d, m) /\ Readable(d, m)) => Readable(d, m)']_vars

(* verify compares, and leaves what a Reader could read readable           *)
(* (README.md:189).                                                        *)
VerifyOnlyCompares ==
    [][\A p \in Verifiers : (run'[p] # run[p] /\ manifest # Corrupt) =>
         \A d \in Datasets, m \in Months : Readable(d, m) => Readable(d, m)']_vars

(* Reader.range returns every record of its interval, or raises            *)
(* (hubread/reader.py:207-209).                                            *)
RangeIsComplete ==
    manifest # Corrupt =>
        \A d \in Datasets, from \in Months, to \in Months :
            RangeFails(d, from, to) \/ Wanted(d, from, to) \subseteq RangeOf(d, from, to)
=============================================================================
