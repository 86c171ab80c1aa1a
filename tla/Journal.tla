------------------------------ MODULE Journal -------------------------------
(***************************************************************************)
(* The journal's write side, hub/journal.py: JournalWriter.  Processes (the*)
(* daemon, a `collect`, a `backfill`) open the one writer of a hub root,   *)
(* repair what a dead predecessor left, append records and close; any of   *)
(* them may die between any two steps.                                     *)
(*                                                                         *)
(* A day file is its complete lines (`file`) and what follows the last     *)
(* newline (`tail`).  An os.write is two steps, BeginAppend and            *)
(* FinishAppend, because a crash and a concurrent reader can both fall     *)
(* between its first and its last byte; the tail in between is either a    *)
(* fragment or the whole record still lacking its newline.                 *)
(***************************************************************************)
EXTENDS Naturals, Integers, Sequences, FiniteSets

CONSTANTS Procs,       \* processes that may open the writer
          Datasets,    \* the datasets of one hub root
          Days,        \* UTC calendar days, numbered
          Facts,       \* what a record says, abstracted to a value
          None,        \* no process, no fact, no job
          MaxSeq,      \* bound on the seq of one dataset
          ShortWrites  \* whether os.write may write less than it was given

ASSUME JournalAssumption ==
    /\ Days \subseteq Nat
    /\ MaxSeq \in Nat
    /\ None \notin Procs
    /\ None \notin Facts
    /\ ShortWrites \in BOOLEAN

VARIABLES file,        \* file[d][y]: the complete lines of a day file
          tail,        \* tail[d][y]: the bytes after its last newline
          listed,      \* listed[d]: the day files that exist
          lock,        \* the process holding .writer.lock
          phase,       \* where each process is in JournalWriter
          known,       \* known[p][d]: the writer's _seq[d]
          job,         \* the line a process is writing, or quarantining
          quarantine,  \* the torn tails recorded under quarantine/
          torn         \* history: every torn tail a dying writer left

disk == <<file, tail, listed>>
vars == <<file, tail, listed, lock, phase, known, job, quarantine, torn>>

-----------------------------------------------------------------------------
(* A line that does not parse has no seq: 0 stands for it. *)
Line    == [seq: 0..MaxSeq, fact: Facts \cup {None}]
Garbled == [seq |-> 0, fact |-> None]

Remainder == [kind: {"none", "fragment", "whole"}, line: Line]
NoTail    == [kind |-> "none", line |-> Garbled]

(* A line at a place: what a writer is writing, what a repair discarded. *)
Job == [ds: Datasets, day: Days, at: Nat, line: Line]

(* A dataset this writer has not numbered yet: no entry in _seq. *)
Unread == -1

(* The disk and every writer's memory have their types: _seq holds a count *)
(* or nothing, and a repair records a place inside the file it cut.        *)
TypeOK ==
    /\ file \in [Datasets -> [Days -> Seq(Line)]]
    /\ tail \in [Datasets -> [Days -> Remainder]]
    /\ listed \in [Datasets -> SUBSET Days]
    /\ lock \in Procs \cup {None}
    /\ phase \in [Procs -> {"out", "repair", "save", "open", "write"}]
    /\ known \in [Procs -> [Datasets -> Nat \cup {Unread}]]
    /\ job \in [Procs -> Job \cup {None}]
    /\ quarantine \subseteq Job
    /\ torn \subseteq Job

-----------------------------------------------------------------------------
(* The seqs a scan of every line of every day file of `d` finds. *)
SeqsOnDisk(d) ==
    {s \in 1..MaxSeq : \E y \in Days : \E i \in DOMAIN file[d][y] : file[d][y][i].seq = s}

(* json.loads(line)["seq"] raises on a garbled line: nothing is appended.  *)
Resumable(d) ==
    \A y \in Days : \A i \in DOMAIN file[d][y] : file[d][y][i] # Garbled

IsTop(n, S) == n \in S \cup {0} /\ \A m \in S : m <= n

(* Mutant of ResumeSeq: only the newest day file is read (what the code did*)
(* before backfills were taken into account).                              *)
ResumeSeqNewestFile(d) ==
    LET full == {y \in Days : file[d][y] # <<>>}
        new  == CHOOSE y \in full : \A z \in full : z <= y
    IN IF full = {} THEN 0 ELSE file[d][new][Len(file[d][new])].seq

(* Mutant of ResumeSeq: numbering resumes one above the highest seq. *)
ResumeSeqSkipsOne(d) == 1 + (CHOOSE n \in 0..MaxSeq : IsTop(n, SeqsOnDisk(d)))

(* _resume_seq: the highest seq on disk, every line of every file read.    *)
ResumeSeq(d) == CHOOSE n \in 0..MaxSeq : IsTop(n, SeqsOnDisk(d))

(* _next_seq, before the + 1. *)
LastSeq(p, d) == IF known[p][d] = Unread THEN ResumeSeq(d) ELSE known[p][d]

-----------------------------------------------------------------------------
Init ==
    /\ file = [d \in Datasets |-> [y \in Days |-> <<>>]]
    /\ tail = [d \in Datasets |-> [y \in Days |-> NoTail]]
    /\ listed = [d \in Datasets |-> {}]
    /\ lock = None
    /\ phase = [p \in Procs |-> "out"]
    /\ known = [p \in Procs |-> [d \in Datasets |-> Unread]]
    /\ job = [p \in Procs |-> None]
    /\ quarantine = {}
    /\ torn = {}

(* Mutant of Open: the lock is not exclusive. *)
OpenUnlocked(p) ==
    /\ phase[p] = "out"
    /\ lock' = p
    /\ phase' = [phase EXCEPT ![p] = "repair"]
    /\ UNCHANGED <<file, tail, listed, known, job, quarantine, torn>>

(* __init__: flock(LOCK_EX | LOCK_NB).  A second writer is refused with a  *)
(* StoreError and changes nothing, so the refusal is the missing step.     *)
Open(p) ==
    /\ phase[p] = "out"
    /\ lock = None
    /\ lock' = p
    /\ phase' = [phase EXCEPT ![p] = "repair"]
    /\ UNCHANGED <<file, tail, listed, known, job, quarantine, torn>>

(* Mutant of Truncate: rfind without the + 1, so a file without any newline*)
(* is cut at offset -1.                                                    *)
TruncateNoPlusOne(p, d, y) ==
    /\ phase[p] = "repair"
    /\ tail[d][y].kind # "none"
    /\ tail' = [tail EXCEPT ![d][y] = NoTail]
    /\ phase' = [phase EXCEPT ![p] = "save"]
    /\ job' = [job EXCEPT ![p] =
           [ds |-> d, day |-> y, at |-> Len(file[d][y]) - 1, line |-> tail[d][y].line]]
    /\ UNCHANGED <<file, listed, lock, known, quarantine, torn>>

(* Mutant of Truncate: the cut takes the last complete line with it. *)
TruncateOneLineMore(p, d, y) ==
    /\ phase[p] = "repair"
    /\ tail[d][y].kind # "none"
    /\ tail' = [tail EXCEPT ![d][y] = NoTail]
    /\ file' = [file EXCEPT ![d][y] =
           IF file[d][y] = <<>> THEN <<>> ELSE SubSeq(file[d][y], 1, Len(file[d][y]) - 1)]
    /\ phase' = [phase EXCEPT ![p] = "save"]
    /\ job' = [job EXCEPT ![p] =
           [ds |-> d, day |-> y, at |-> Len(file[d][y]), line |-> tail[d][y].line]]
    /\ UNCHANGED <<listed, lock, known, quarantine, torn>>

(* _repair_tail: cut the file back to its last newline. *)
Truncate(p, d, y) ==
    /\ phase[p] = "repair"
    /\ tail[d][y].kind # "none"
    /\ tail' = [tail EXCEPT ![d][y] = NoTail]
    /\ phase' = [phase EXCEPT ![p] = "save"]
    /\ job' = [job EXCEPT ![p] =
           [ds |-> d, day |-> y, at |-> Len(file[d][y]), line |-> tail[d][y].line]]
    /\ UNCHANGED <<file, listed, lock, known, quarantine, torn>>

(* _quarantine_torn_tail: record the discarded bytes, after the truncate.  *)
QuarantineTornTail(p) ==
    /\ phase[p] = "save"
    /\ quarantine' = quarantine \cup {job[p]}
    /\ phase' = [phase EXCEPT ![p] = "repair"]
    /\ job' = [job EXCEPT ![p] = None]
    /\ UNCHANGED <<file, tail, listed, lock, known, torn>>

(* Mutant of RepairDone: the writer opens without repairing. *)
RepairSkipped(p) ==
    /\ phase[p] = "repair"
    /\ phase' = [phase EXCEPT ![p] = "open"]
    /\ UNCHANGED <<file, tail, listed, lock, known, job, quarantine, torn>>

(* _repair_torn_tails has walked every file of every dataset. *)
RepairDone(p) ==
    /\ phase[p] = "repair"
    /\ \A d \in Datasets, y \in Days : tail[d][y].kind = "none"
    /\ phase' = [phase EXCEPT ![p] = "open"]
    /\ UNCHANGED <<file, tail, listed, lock, known, job, quarantine, torn>>

(* append up to the middle of os.write.  O_CREAT has made the file, and the*)
(* bytes land behind whatever a short write left there.                    *)
BeginAppend(p, d, y, fact, part) ==
    /\ phase[p] = "open"
    /\ known[p][d] = Unread => Resumable(d)
    /\ LastSeq(p, d) < MaxSeq
    /\ LET line == IF tail[d][y].kind = "none"
                   THEN [seq |-> LastSeq(p, d) + 1, fact |-> fact]
                   ELSE Garbled
       IN /\ tail' = [tail EXCEPT ![d][y] = [kind |-> part, line |-> line]]
          /\ job' = [job EXCEPT ![p] =
                 [ds |-> d, day |-> y, at |-> Len(file[d][y]), line |-> line]]
    /\ listed' = [listed EXCEPT ![d] = listed[d] \cup {y}]
    /\ known' = [known EXCEPT ![p][d] = LastSeq(p, d)]
    /\ phase' = [phase EXCEPT ![p] = "write"]
    /\ UNCHANGED <<file, lock, quarantine, torn>>

(* The newline lands, fsync returns, and only then is _seq advanced. *)
FinishAppend(p) ==
    /\ phase[p] = "write"
    /\ LET d == job[p].ds
           y == job[p].day
       IN /\ file' = [file EXCEPT ![d][y] = Append(file[d][y], job[p].line)]
          /\ tail' = [tail EXCEPT ![d][y] = NoTail]
          /\ known' = [known EXCEPT ![p][d] = known[p][d] + 1]
    /\ phase' = [phase EXCEPT ![p] = "open"]
    /\ job' = [job EXCEPT ![p] = None]
    /\ UNCHANGED <<listed, lock, quarantine, torn>>

(* os.write returns less than it was given (a disk running full).  append  *)
(* ignores the count: it syncs, advances _seq and returns as if committed. *)
ShortWrite(p) ==
    /\ ShortWrites
    /\ phase[p] = "write"
    /\ known' = [known EXCEPT ![p][job[p].ds] = known[p][job[p].ds] + 1]
    /\ phase' = [phase EXCEPT ![p] = "open"]
    /\ job' = [job EXCEPT ![p] = None]
    /\ UNCHANGED <<file, tail, listed, lock, quarantine, torn>>

(* A process without the writer: its flock is gone, its memory too. *)
Leave(p) ==
    /\ lock' = None
    /\ phase' = [phase EXCEPT ![p] = "out"]
    /\ known' = [known EXCEPT ![p] = [d \in Datasets |-> Unread]]
    /\ job' = [job EXCEPT ![p] = None]

Close(p) ==
    /\ phase[p] = "open"
    /\ Leave(p)
    /\ UNCHANGED <<file, tail, listed, quarantine, torn>>

(* The process dies; the kernel releases the flock, the disk stays. *)
Crash(p) ==
    /\ phase[p] # "out"
    /\ Leave(p)
    /\ torn' = IF phase[p] = "write" THEN torn \cup {job[p]} ELSE torn
    /\ UNCHANGED <<file, tail, listed, quarantine>>

Step(p) ==
    \/ Open(p)
    \/ \E d \in Datasets, y \in Days : Truncate(p, d, y)
    \/ QuarantineTornTail(p)
    \/ RepairDone(p)
    \/ \E d \in Datasets, y \in Days, fact \in Facts, part \in {"fragment", "whole"} :
           BeginAppend(p, d, y, fact, part)
    \/ FinishAppend(p)
    \/ ShortWrite(p)
    \/ Close(p)
    \/ Crash(p)

Next == \E p \in Procs : Step(p)

Spec == Init /\ [][Next]_vars

-----------------------------------------------------------------------------
(* Exclusive writer: only the process that holds .writer.lock is anywhere  *)
(* inside JournalWriter (hub/journal.py:49-55).                            *)
SingleWriter == \A p \in Procs : phase[p] # "out" => lock = p

(* No two complete records of a dataset share a seq, in whatever day files *)
(* they lie and whichever processes wrote them (JournalWriter.append,      *)
(* hub/journal.py:6-7: two writers "would interleave seq values").         *)
SeqUnique ==
    \A d \in Datasets : \A y, z \in Days :
        \A i \in DOMAIN file[d][y], j \in DOMAIN file[d][z] :
            (file[d][y][i].seq = file[d][z][j].seq /\ file[d][y][i].seq # 0)
                => y = z /\ i = j

(* The seqs on disk are 1, 2, ..., n after any run of crashes, repairs and *)
(* writers: "a strict, gapless, per-dataset counter" (hub/journal.py:3-4). *)
SeqGapless ==
    ~ShortWrites =>
        \A d \in Datasets : \E n \in 0..MaxSeq : SeqsOnDisk(d) = 1..n

(* Inside one day file seqs only rise, which is what lets a live tail drop *)
(* every seq at or below the last one it delivered (hubread/journal.py).   *)
FileInSeqOrder ==
    \A d \in Datasets, y \in Days : \A i, j \in DOMAIN file[d][y] :
        (i < j /\ file[d][y][i].seq # 0 /\ file[d][y][j].seq # 0)
            => file[d][y][i].seq < file[d][y][j].seq

(* A new record is never glued to a dead fragment: no complete line is     *)
(* unparseable (hub/journal.py:40-41, 160-162).                            *)
NoGarbledLine == ~ShortWrites => \A d \in Datasets : Resumable(d)

(* The number the writer holds in memory is the highest one on disk: a     *)
(* failed or half-done append consumes no seq (hub/journal.py:78).         *)
WriterAgreesWithDisk ==
    ~ShortWrites =>
        \A p \in Procs, d \in Datasets :
            known[p][d] # Unread => known[p][d] = ResumeSeq(d)

(* Append-only: a step adds at most one line to one file and leaves every  *)
(* complete line that was there where it was, repairs included.            *)
AppendOnly ==
    [][\A d \in Datasets, y \in Days :
          /\ Len(file'[d][y]) >= Len(file[d][y])
          /\ \A i \in DOMAIN file[d][y] : file'[d][y][i] = file[d][y][i]]_vars

(* Every torn tail is still in its file, in quarantine, or in the hands of *)
(* the process repairing it: "recorded in quarantine so nothing vanishes   *)
(* without a trace" (hub/journal.py:156-157).                              *)
NothingVanishes ==
    \A t \in torn :
        \/ t \in quarantine
        \/ \E p \in Procs : phase[p] = "save" /\ job[p] = t
        \/ tail[t.ds][t.day].kind # "none" /\ tail[t.ds][t.day].line = t.line

(* Complete lines parse: "a reader can never observe a line that is neither*)
(* fully absent nor fully present" (hub/journal.py:43-44).                 *)
EveryLineParses == \A d \in Datasets : Resumable(d)

(* The journal's promise, with the files forgotten. *)
Committed ==
    {r \in [ds: Datasets, day: Days, seq: 1..MaxSeq, fact: Facts] :
        \E i \in DOMAIN file[r.ds][r.day] :
            file[r.ds][r.day][i] = [seq |-> r.seq, fact |-> r.fact]}

L == INSTANCE Ledger WITH
        committed <- Committed,
        top       <- [d \in Datasets |-> ResumeSeq(d)]

(* The journal implements the ledger: every step of every writer, repair   *)
(* and crash commits one record with the next seq, or nothing at all.      *)
ImplementsLedger == L!LSpec
=============================================================================
