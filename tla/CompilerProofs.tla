---------------------------- MODULE CompilerProofs --------------------------
(***************************************************************************)
(* Machine-checked proofs about Compiler.tla, for every number of datasets *)
(* and every set of months, versions and processes, when no two commands   *)
(* run at once.                                                            *)
(***************************************************************************)
EXTENDS Compiler, FiniteSetTheorems, WellFoundedInduction, TLAPS

(* The least of a set of naturals. *)
LEMMA MinOfNats ==
    ASSUME NEW S \in SUBSET Nat, S # {}
    PROVE  Min(S) \in S /\ \A y \in S : Min(S) <= y
  <1> DEFINE Less == {ss \in Nat \X Nat : ss[1] < ss[2]}
  <1>1. IsWellFoundedOn(Less, Nat)
    BY NatLessThanWellFounded DEF OpToRel
  <1>2. PICK x \in S : \A y \in S : ~(<<y, x>> \in Less)
    <2> HIDE DEF Less
    <2> QED
      BY <1>1, WFMin
  <1>3. ASSUME NEW y \in S
        PROVE  x <= y
    <2>1. x \in Nat /\ y \in Nat /\ <<y, x>> \in Nat \X Nat
      OBVIOUS
    <2>2. ~(y < x)
      BY <1>2, <2>1
    <2> QED
      BY <2>1, <2>2
  <1> QED
    BY <1>3 DEF Min

(* LastSeq is the highest seq that was read, or 0. *)
LEMMA LastSeqIsHighest ==
    ASSUME NEW recs \in Contents
    PROVE  /\ LastSeq(recs) \in 0..MaxSeq /\ LastSeq(recs) \in recs \cup {0}
           /\ \A s \in recs : s <= LastSeq(recs)
  <1> DEFINE all == recs \cup {0}
             below == {MaxSeq - i : i \in all}
  <1>1. MaxSeq \in Nat /\ all \subseteq 0..MaxSeq
    BY CompilerAssumption DEF Contents
  <1>2. below \in SUBSET Nat /\ MaxSeq - 0 \in below
    BY <1>1
  <1>3. Min(below) \in below /\ \A y \in below : Min(below) <= y
    <2> HIDE DEF below
    <2> QED
      BY <1>2, MinOfNats
  <1>4. PICK i \in all : Min(below) = MaxSeq - i
    BY <1>3
  <1>5. ASSUME NEW j \in all
        PROVE  i >= j
    <2>1. MaxSeq - i <= MaxSeq - j
      BY <1>3, <1>4
    <2> QED
      BY <1>1, <2>1
  <1>6. LastSeq(recs) \in all /\ \A j \in all : LastSeq(recs) >= j
    BY <1>5 DEF LastSeq, Max
  <1> QED
    BY <1>1, <1>6

-----------------------------------------------------------------------------
Pcs == {"idle", "dataset", "list", "scan", "relist", "read", "write", "fill", "entry", "save"}

Runs == [pc : Pcs, man : Manifest, reg : [Datasets -> Versions], cur : Nat \ {0},
         windows : SUBSET Months, unread : SUBSET Months, recs : Contents, last : 0..MaxSeq,
         kept : SUBSET Months, todo : SUBSET Months, problems : SUBSET Datasets]

TypeInv ==
    /\ journal \in [Datasets -> Seq(Months)]
    /\ \A d \in Datasets : Len(journal[d]) <= MaxSeq
    /\ schema \in [Datasets -> Versions]
    /\ snapshot \in [Datasets -> [Versions -> [Months -> Contents \cup {None, Torn}]]]
    /\ manifest \in Manifest \cup {Corrupt}
    /\ run \in [Procs -> Runs]
    /\ mark \in [Procs -> [Datasets -> Nat]]

LEMMA Constants ==
    /\ Count \in Nat /\ Count >= 1 /\ Months \in SUBSET Nat
    /\ Versions \subseteq Nat /\ 1 \in Versions /\ MaxSeq \in Nat
    /\ Datasets \subseteq Nat /\ 1 \in Datasets
  BY CompilerAssumption DEF Datasets

(* What a journal lists. *)
LEMMA JournalFacts ==
    ASSUME TypeInv, NEW d \in Datasets
    PROVE  /\ journal[d] \in Seq(Months) /\ Len(journal[d]) \in 0..MaxSeq
           /\ DOMAIN journal[d] = 1..Len(journal[d])
           /\ \A s \in DOMAIN journal[d] : journal[d][s] \in Months
           /\ Discovered(d) \in SUBSET Months
           /\ \A m : Recorded(d, m) \in Contents
  <1>1. journal[d] \in Seq(Months) /\ Len(journal[d]) \in 0..MaxSeq
    BY Constants DEF TypeInv
  <1>2. DOMAIN journal[d] = 1..Len(journal[d]) /\ \A s \in DOMAIN journal[d] : journal[d][s] \in Months
    BY <1>1
  <1> QED
    BY <1>1, <1>2, Constants DEF Discovered, Range, Recorded, Contents

(* The fields of a process's locals. *)
LEMMA RunFields ==
    ASSUME TypeInv, NEW p \in Procs
    PROVE  /\ run[p] \in Runs
           /\ run[p].pc \in Pcs /\ run[p].man \in Manifest /\ run[p].reg \in [Datasets -> Versions]
           /\ run[p].cur \in Nat /\ run[p].cur >= 1
           /\ run[p].windows \in SUBSET Months /\ run[p].unread \in SUBSET Months
           /\ run[p].recs \in Contents /\ run[p].last \in 0..MaxSeq
           /\ run[p].kept \in SUBSET Months /\ run[p].todo \in SUBSET Months
           /\ run[p].problems \in SUBSET Datasets
  <1>1. run[p] \in Runs
    BY DEF TypeInv
  <1> QED
    BY <1>1 DEF Runs

(* The locals a command begins with, and those with which it goes on to    *)
(* the next dataset.                                                       *)
LEMMA IdleFields ==
    /\ Idle \in Runs /\ Idle.pc = "idle" /\ Idle.cur = 1 /\ Idle.windows = {} /\ Idle.unread = {}
    /\ Idle.recs = {} /\ Idle.kept = {} /\ Idle.todo = {} /\ Idle.problems = {}
  <1>1. [d \in Datasets |-> None] \in Manifest /\ [d \in Datasets |-> 1] \in [Datasets -> Versions]
    BY Constants DEF Manifest
  <1>2. {} \in Contents /\ 0 \in 0..MaxSeq /\ 1 \in Nat \ {0}
    BY Constants DEF Contents
  <1> QED
    BY <1>1, <1>2 DEF Idle, Runs, Pcs

LEMMA NextDatasetFields ==
    ASSUME NEW r \in Runs
    PROVE  /\ NextDataset(r) \in Runs
           /\ NextDataset(r).pc = "dataset" /\ NextDataset(r).cur = r.cur + 1
           /\ NextDataset(r).man = r.man /\ NextDataset(r).reg = r.reg
           /\ NextDataset(r).windows = {} /\ NextDataset(r).unread = {} /\ NextDataset(r).recs = {}
           /\ NextDataset(r).kept = {} /\ NextDataset(r).todo = {}
           /\ NextDataset(r).problems = r.problems
  <1>1. {} \in Contents /\ 0 \in 0..MaxSeq /\ r.cur + 1 \in Nat \ {0}
    BY Constants DEF Contents, Runs
  <1> QED
    BY <1>1 DEF NextDataset, Runs, Pcs
-----------------------------------------------------------------------------
(* A step of one command changes the locals of its own process only. *)
Moves(p) == run' = [run EXCEPT ![p] = run'[p]] /\ run'[p] \in Runs

(* It leaves the fields of the locals that belong to the whole command.    *)
GoesOn(p) == /\ run'[p].man = run[p].man /\ run'[p].reg = run[p].reg
             /\ run'[p].cur = run[p].cur /\ run'[p].problems = run[p].problems

(* It is done with its dataset. *)
Turns(p) == /\ run'[p].pc = "dataset" /\ run'[p].cur = run[p].cur + 1 /\ run'[p].reg = run[p].reg
            /\ run'[p].windows = {} /\ run'[p].unread = {} /\ run'[p].recs = {}
            /\ run'[p].kept = {} /\ run'[p].todo = {}

LEMMA LoadManifestRun ==
    ASSUME TypeInv, NEW p \in Procs, LoadManifest(p)
    PROVE  /\ Moves(p) /\ run'[p].pc = "dataset" /\ run'[p].man = manifest /\ run'[p].reg = schema
           /\ run'[p].cur = 1 /\ run'[p].windows = {} /\ run'[p].unread = {} /\ run'[p].recs = {}
           /\ run'[p].kept = {} /\ run'[p].todo = {} /\ run'[p].problems = {}
  <1> DEFINE new == [Idle EXCEPT !.pc = "dataset", !.man = manifest, !.reg = schema]
  <1>1. run \in [Procs -> Runs] /\ manifest \in Manifest /\ schema \in [Datasets -> Versions]
    BY DEF TypeInv, LoadManifest
  <1>2. /\ new \in Runs /\ new.pc = "dataset" /\ new.man = manifest /\ new.reg = schema
        /\ new.cur = 1 /\ new.windows = {} /\ new.unread = {} /\ new.recs = {}
        /\ new.kept = {} /\ new.todo = {} /\ new.problems = {}
    BY <1>1, IdleFields DEF Runs, Pcs
  <1>3. run' = [run EXCEPT ![p] = new]
    BY DEF LoadManifest
  <1> QED
    <2> HIDE DEF new
    <2> QED
      BY <1>1, <1>2, <1>3 DEF Moves

LEMMA DiscoverRun ==
    ASSUME TypeInv, NEW p \in Procs, Discover(p)
    PROVE  /\ Moves(p) /\ run[p].pc = "dataset" /\ run[p].cur \in Datasets
           /\ run'[p].man = run[p].man /\ run'[p].problems = run[p].problems
           /\ \/ Turns(p) /\ journal[run[p].cur] = <<>>
              \/ /\ GoesOn(p) /\ run'[p].pc = "list" /\ journal[run[p].cur] # <<>>
                 /\ run'[p].windows = Discovered(run[p].cur)
                 /\ run'[p].kept = run[p].kept /\ run'[p].todo = run[p].todo
  <1> DEFINE d == run[p].cur
  <1>1. run \in [Procs -> Runs] /\ run[p] \in Runs /\ d \in Datasets
    BY RunFields, Constants DEF TypeInv, Discover, Datasets
  <1>2. CASE journal[d] = <<>>
    <2>1. run' = [run EXCEPT ![p] = NextDataset(run[p])]
      BY <1>2 DEF Discover
    <2> QED
      BY <1>1, <1>2, <2>1, NextDatasetFields DEF Moves, Turns, Discover
  <1>3. CASE journal[d] # <<>>
    <2> DEFINE new == [run[p] EXCEPT !.pc = "list", !.windows = Discovered(d)]
    <2>1. run' = [run EXCEPT ![p] = new]
      BY <1>3 DEF Discover
    <2>2. /\ new \in Runs /\ new.pc = "list" /\ new.windows = Discovered(d)
          /\ new.man = run[p].man /\ new.reg = run[p].reg /\ new.cur = run[p].cur
          /\ new.problems = run[p].problems /\ new.kept = run[p].kept /\ new.todo = run[p].todo
      BY <1>1, JournalFacts DEF Runs, Pcs
    <2> QED
      <3> HIDE DEF new
      <3> QED
        BY <1>1, <1>3, <2>1, <2>2 DEF Moves, GoesOn, Discover
  <1> QED
    BY <1>2, <1>3

LEMMA ListFilesRun ==
    ASSUME TypeInv, NEW p \in Procs, ListFiles(p), run[p].cur \in Datasets
    PROVE  /\ Moves(p) /\ GoesOn(p) /\ run[p].pc \in {"list", "relist"}
           /\ run'[p].pc = IF run[p].pc = "list" THEN "scan" ELSE "read"
           /\ run'[p].windows = run[p].windows /\ run'[p].recs = {}
           /\ run'[p].kept = run[p].kept /\ run'[p].todo = run[p].todo /\ run'[p].last = run[p].last
           /\ run'[p].unread = IF run[p].pc = "list" THEN Discovered(run[p].cur)
                               ELSE run[p].todo \cap Discovered(run[p].cur)
  <1> DEFINE d == run[p].cur
             new == [run[p] EXCEPT !.pc = IF run[p].pc = "list" THEN "scan" ELSE "read",
                                   !.recs = {},
                                   !.unread = IF run[p].pc = "list" THEN Discovered(d)
                                              ELSE run[p].todo \cap Discovered(d)]
  <1>1. run \in [Procs -> Runs] /\ run[p] \in Runs
    BY RunFields DEF TypeInv
  <1>2. run' = [run EXCEPT ![p] = new]
    BY <1>1 DEF ListFiles, Runs
  <1>3. /\ Discovered(d) \in SUBSET Months /\ {} \in Contents
        /\ (IF run[p].pc = "list" THEN Discovered(d) ELSE run[p].todo \cap Discovered(d)) \in SUBSET Months
    BY JournalFacts DEF Contents
  <1>4. /\ new \in Runs /\ new.pc = IF run[p].pc = "list" THEN "scan" ELSE "read"
        /\ new.man = run[p].man /\ new.reg = run[p].reg /\ new.cur = run[p].cur
        /\ new.problems = run[p].problems /\ new.kept = run[p].kept /\ new.todo = run[p].todo
        /\ new.windows = run[p].windows /\ new.recs = {} /\ new.last = run[p].last
        /\ new.unread = IF run[p].pc = "list" THEN Discovered(d) ELSE run[p].todo \cap Discovered(d)
    BY <1>1, <1>3 DEF Runs, Pcs
  <1> QED
    <2> HIDE DEF new
    <2> QED
      BY <1>1, <1>2, <1>4 DEF Moves, GoesOn, ListFiles

LEMMA ReadMonthRun ==
    ASSUME TypeInv, NEW p \in Procs, ReadMonth(p), run[p].cur \in Datasets
    PROVE  LET m == Min(run[p].unread) IN
           /\ Moves(p) /\ GoesOn(p) /\ run[p].pc \in {"scan", "read"} /\ run'[p].pc = run[p].pc
           /\ run'[p].windows = run[p].windows
           /\ run'[p].kept = run[p].kept /\ run'[p].todo = run[p].todo /\ run'[p].last = run[p].last
           /\ run'[p].recs = run[p].recs \cup Recorded(run[p].cur, m)
           /\ run'[p].unread = run[p].unread \ {m}
  <1> DEFINE d == run[p].cur
             m == Min(run[p].unread)
             new == [run[p] EXCEPT !.recs = run[p].recs \cup Recorded(d, m),
                                   !.unread = run[p].unread \ {m}]
  <1>1. run \in [Procs -> Runs] /\ run[p] \in Runs
    BY RunFields DEF TypeInv
  <1>2. run' = [run EXCEPT ![p] = new]
    BY <1>1 DEF ReadMonth, Runs
  <1>3. run[p].recs \cup Recorded(d, m) \in Contents /\ run[p].unread \ {m} \in SUBSET Months
    BY JournalFacts, RunFields DEF Contents
  <1>4. /\ new \in Runs /\ new.pc = run[p].pc
        /\ new.man = run[p].man /\ new.reg = run[p].reg /\ new.cur = run[p].cur
        /\ new.problems = run[p].problems /\ new.kept = run[p].kept /\ new.todo = run[p].todo
        /\ new.windows = run[p].windows /\ new.last = run[p].last
        /\ new.recs = run[p].recs \cup Recorded(d, m) /\ new.unread = run[p].unread \ {m}
    BY <1>1, <1>3 DEF Runs
  <1> QED
    <2> HIDE DEF new
    <2> QED
      BY <1>1, <1>2, <1>4 DEF Moves, GoesOn, ReadMonth

LEMMA PlanRun ==
    ASSUME TypeInv, NEW p \in Procs, Plan(p), run[p].cur \in Datasets
    PROVE  LET d    == run[p].cur
               keep == Unchanged(d, run[p].reg[d], run[p].man[d], run[p].recs, run[p].windows)
           IN  /\ Moves(p) /\ GoesOn(p) /\ run[p].pc = "scan" /\ run[p].unread = {}
               /\ run'[p].pc = IF run[p].windows = keep THEN "entry" ELSE "relist"
               /\ run'[p].windows = run[p].windows /\ run'[p].recs = run[p].recs
               /\ run'[p].unread = run[p].unread
               /\ run'[p].kept = keep /\ keep \subseteq run[p].windows
               /\ run'[p].todo = run[p].windows \ keep
               /\ run'[p].last = LastSeq(run[p].recs)
  <1> DEFINE d    == run[p].cur
             keep == Unchanged(d, run[p].reg[d], run[p].man[d], run[p].recs, run[p].windows)
             new  == [run[p] EXCEPT !.kept = keep, !.last = LastSeq(run[p].recs),
                                    !.todo = run[p].windows \ keep,
                                    !.pc = IF run[p].windows = keep THEN "entry" ELSE "relist"]
  <1>1. run \in [Procs -> Runs] /\ run[p] \in Runs
    BY RunFields DEF TypeInv
  <1>2. keep \subseteq run[p].windows /\ run[p].windows \in SUBSET Months
    BY RunFields DEF Unchanged
  <1>3. LastSeq(run[p].recs) \in 0..MaxSeq
    BY RunFields, LastSeqIsHighest
  <1> HIDE DEF keep
  <1>4. run' = [run EXCEPT ![p] = new]
    <2>1. run' = [run EXCEPT ![p].kept = keep, ![p].last = LastSeq(run[p].recs),
                             ![p].todo = run[p].windows \ keep,
                             ![p].pc = IF run[p].windows = keep THEN "entry" ELSE "relist"]
      BY DEF Plan, keep
    <2> QED
      BY <1>1, <2>1 DEF Runs
  <1>5. /\ new \in Runs /\ new.pc = IF run[p].windows = keep THEN "entry" ELSE "relist"
        /\ new.man = run[p].man /\ new.reg = run[p].reg /\ new.cur = run[p].cur
        /\ new.problems = run[p].problems /\ new.windows = run[p].windows
        /\ new.recs = run[p].recs /\ new.unread = run[p].unread /\ new.kept = keep
        /\ new.todo = run[p].windows \ keep /\ new.last = LastSeq(run[p].recs)
    BY <1>1, <1>2, <1>3 DEF Runs, Pcs
  <1>6. run[p].pc = "scan" /\ run[p].unread = {}
    BY DEF Plan
  <1> HIDE DEF new
  <1>7. /\ Moves(p) /\ GoesOn(p)
        /\ run'[p] = new
    BY <1>1, <1>4, <1>5 DEF Moves, GoesOn
  <1> QED
    BY <1>2, <1>5, <1>6, <1>7 DEF keep

LEMMA ReportFields ==
    ASSUME NEW r \in Runs, NEW bad \in SUBSET Datasets
    PROVE  /\ Report(r, bad) \in Runs
           /\ Report(r, bad).problems = r.problems \cup bad
           /\ Report(r, bad).pc = r.pc /\ Report(r, bad).man = r.man /\ Report(r, bad).reg = r.reg
           /\ Report(r, bad).cur = r.cur /\ Report(r, bad).windows = r.windows
           /\ Report(r, bad).kept = r.kept /\ Report(r, bad).todo = r.todo
  BY DEF Report, Runs

LEMMA VerifyDerivedRun ==
    ASSUME TypeInv, NEW p \in Procs, VerifyDerived(p), run[p].cur \in Datasets
    PROVE  /\ Moves(p) /\ run[p].pc = "read" /\ run[p].unread = {}
           /\ \/ /\ GoesOn(p) /\ run'[p].pc = "write" /\ run'[p].windows = run[p].windows
                 /\ run'[p].unread = {} /\ run'[p].recs = run[p].recs /\ run'[p].last = run[p].last
                 /\ run'[p].kept = run[p].kept /\ run'[p].todo = run[p].todo
              \/ p \in Compilers /\ run'[p] = Idle
              \/ /\ p \notin Compilers /\ Turns(p) /\ run'[p].man = run[p].man
                 /\ run'[p].problems = run[p].problems \cup {run[p].cur}
  <1> DEFINE d == run[p].cur
  <1>1. run \in [Procs -> Runs] /\ run[p] \in Runs /\ run[p].pc = "read" /\ run[p].unread = {}
    BY RunFields DEF TypeInv, VerifyDerived
  <1>2. CASE d \notin drifted
    <2> DEFINE new == [run[p] EXCEPT !.pc = "write"]
    <2>1. run' = [run EXCEPT ![p] = new]
      BY <1>2 DEF VerifyDerived
    <2>2. /\ new \in Runs /\ new.pc = "write"
          /\ new.man = run[p].man /\ new.reg = run[p].reg /\ new.cur = run[p].cur
          /\ new.problems = run[p].problems /\ new.kept = run[p].kept /\ new.todo = run[p].todo
          /\ new.windows = run[p].windows /\ new.recs = run[p].recs /\ new.unread = run[p].unread
          /\ new.last = run[p].last
      BY <1>1 DEF Runs, Pcs
    <2> QED
      <3> HIDE DEF new
      <3> QED
        BY <1>1, <2>1, <2>2 DEF Moves, GoesOn
  <1>3. CASE d \in drifted /\ p \in Compilers
    <2>1. run' = [run EXCEPT ![p] = Idle]
      BY <1>3 DEF VerifyDerived
    <2> QED
      BY <1>1, <1>3, <2>1, IdleFields DEF Moves
  <1>4. CASE d \in drifted /\ p \notin Compilers
    <2>1. run' = [run EXCEPT ![p] = NextDataset(Report(run[p], {d}))]
      BY <1>4 DEF VerifyDerived
    <2>2. {d} \in SUBSET Datasets
      OBVIOUS
    <2>3. Report(run[p], {d}) \in Runs
      BY <1>1, <2>2, ReportFields
    <2> QED
      BY <1>1, <1>4, <2>1, <2>2, <2>3, ReportFields, NextDatasetFields DEF Moves, Turns
  <1> QED
    BY <1>2, <1>3, <1>4

LEMMA OpenWindowRun ==
    ASSUME TypeInv, NEW p \in Procs, OpenWindow(p)
    PROVE  /\ Moves(p) /\ GoesOn(p) /\ run[p].pc = "write" /\ run[p].todo # {} /\ run'[p].pc = "fill"
           /\ run'[p].windows = run[p].windows /\ run'[p].unread = run[p].unread
           /\ run'[p].recs = run[p].recs /\ run'[p].last = run[p].last
           /\ run'[p].kept = run[p].kept /\ run'[p].todo = run[p].todo
  <1> DEFINE new == [run[p] EXCEPT !.pc = "fill"]
  <1>1. run \in [Procs -> Runs] /\ run[p] \in Runs
    BY RunFields DEF TypeInv
  <1>2. run' = [run EXCEPT ![p] = new]
    BY <1>1 DEF OpenWindow, Runs
  <1>3. /\ new \in Runs /\ new.pc = "fill"
        /\ new.man = run[p].man /\ new.reg = run[p].reg /\ new.cur = run[p].cur
        /\ new.problems = run[p].problems /\ new.kept = run[p].kept /\ new.todo = run[p].todo
        /\ new.windows = run[p].windows /\ new.recs = run[p].recs /\ new.unread = run[p].unread
        /\ new.last = run[p].last
    BY <1>1 DEF Runs, Pcs
  <1> QED
    <2> HIDE DEF new
    <2> QED
      BY <1>1, <1>2, <1>3 DEF Moves, GoesOn, OpenWindow

LEMMA FillWindowRun ==
    ASSUME TypeInv, NEW p \in Procs, FillWindow(p)
    PROVE  LET m == Min(run[p].todo) IN
           /\ Moves(p) /\ GoesOn(p) /\ run[p].pc = "fill"
           /\ run'[p].pc = IF run[p].todo = {m} THEN "entry" ELSE "write"
           /\ run'[p].windows = run[p].windows /\ run'[p].unread = run[p].unread
           /\ run'[p].recs = run[p].recs /\ run'[p].last = run[p].last
           /\ run'[p].kept = run[p].kept /\ run'[p].todo = run[p].todo \ {m}
  <1> DEFINE m   == Min(run[p].todo)
             new == [run[p] EXCEPT !.pc = IF run[p].todo = {m} THEN "entry" ELSE "write",
                                   !.todo = run[p].todo \ {m}]
  <1>1. run \in [Procs -> Runs] /\ run[p] \in Runs
    BY RunFields DEF TypeInv
  <1>2. run' = [run EXCEPT ![p] = new]
    BY <1>1 DEF FillWindow, Runs
  <1>3. /\ new \in Runs /\ new.pc = IF run[p].todo = {m} THEN "entry" ELSE "write"
        /\ new.man = run[p].man /\ new.reg = run[p].reg /\ new.cur = run[p].cur
        /\ new.problems = run[p].problems /\ new.kept = run[p].kept
        /\ new.todo = run[p].todo \ {m} /\ new.last = run[p].last
        /\ new.windows = run[p].windows /\ new.recs = run[p].recs /\ new.unread = run[p].unread
    BY <1>1 DEF Runs, Pcs
  <1> QED
    <2> HIDE DEF new
    <2> QED
      BY <1>1, <1>2, <1>3 DEF Moves, GoesOn, FillWindow

(* The entry that RecordEntry puts into the manifest. *)
NewEntry(p) ==
    LET d == run[p].cur
        r == run[p]
    IN  [ver |-> r.reg[d], last |-> r.last,
         win |-> [m \in Months |-> CASE m \in r.kept -> r.man[d].win[m]
                                     [] m \in r.windows \ r.kept -> OfMonth(d, r.recs, m)
                                     [] OTHER -> None]]

LEMMA RecordEntryRun ==
    ASSUME TypeInv, NEW p \in Procs, RecordEntry(p), run[p].cur \in Datasets,
           run[p].kept # {} => run[p].man[run[p].cur] # None
    PROVE  /\ Moves(p) /\ Turns(p) /\ run[p].pc = "entry" /\ p \in Compilers
           /\ run'[p].problems = run[p].problems
           /\ run'[p].man = [run[p].man EXCEPT ![run[p].cur] = NewEntry(p)]
           /\ NewEntry(p).ver = run[p].reg[run[p].cur] /\ NewEntry(p).last = run[p].last
           /\ \A m \in Months :
                /\ m \in run[p].kept => NewEntry(p).win[m] = run[p].man[run[p].cur].win[m]
                /\ m \in run[p].windows \ run[p].kept =>
                     NewEntry(p).win[m] = OfMonth(run[p].cur, run[p].recs, m)
                /\ m \notin run[p].windows \cup run[p].kept => NewEntry(p).win[m] = None
  <1> DEFINE d   == run[p].cur
             e   == NewEntry(p)
             new == [run[p] EXCEPT !.man[d] = e]
  <1>1. run \in [Procs -> Runs] /\ run[p] \in Runs
    BY RunFields DEF TypeInv
  <1>2. run' = [run EXCEPT ![p] = NextDataset(new)]
    BY DEF RecordEntry, NewEntry
  <1>3. /\ run[p].reg[d] \in Versions /\ run[p].last \in 0..MaxSeq
        /\ \A m : OfMonth(d, run[p].recs, m) \in Contents
    BY RunFields DEF OfMonth, Contents
  <1>4. ASSUME NEW m \in Months, m \in run[p].kept
        PROVE  run[p].man[d].win[m] \in Contents \cup {None}
    BY <1>4, RunFields DEF Manifest, Entry
  <1>5. e \in Entry
    BY <1>3, <1>4 DEF NewEntry, Entry
  <1>6. /\ e.ver = run[p].reg[d] /\ e.last = run[p].last
        /\ \A m \in Months :
             /\ m \in run[p].kept => e.win[m] = run[p].man[d].win[m]
             /\ m \in run[p].windows \ run[p].kept => e.win[m] = OfMonth(d, run[p].recs, m)
             /\ m \notin run[p].windows \cup run[p].kept => e.win[m] = None
    BY DEF NewEntry
  <1> HIDE DEF e
  <1>7. /\ new \in Runs /\ new.man = [run[p].man EXCEPT ![d] = e]
        /\ new.reg = run[p].reg /\ new.cur = run[p].cur /\ new.problems = run[p].problems
    <2>1. run[p].man \in Manifest /\ [run[p].man EXCEPT ![d] = e] \in Manifest
      BY <1>5, RunFields DEF Manifest
    <2> QED
      BY <1>1, <2>1 DEF Runs
  <1> HIDE DEF new
  <1>8. Moves(p) /\ Turns(p) /\ run'[p].problems = run[p].problems /\ run'[p].man = new.man
    BY <1>1, <1>2, <1>7, NextDatasetFields DEF Moves, Turns
  <1> QED
    BY <1>6, <1>7, <1>8 DEF RecordEntry, e

LEMMA BeginSaveRun ==
    ASSUME TypeInv, NEW p \in Procs, BeginSave(p)
    PROVE  /\ Moves(p) /\ GoesOn(p) /\ run'[p].pc = "save"
           /\ run'[p].windows = run[p].windows /\ run'[p].kept = run[p].kept
           /\ run'[p].todo = run[p].todo
           /\ p \in Compilers /\ run[p].pc = "dataset" /\ run[p].cur > Count
  <1> DEFINE new == [run[p] EXCEPT !.pc = "save"]
  <1>1. run \in [Procs -> Runs] /\ run[p] \in Runs
    BY RunFields DEF TypeInv
  <1>2. run' = [run EXCEPT ![p] = new]
    BY <1>1 DEF BeginSave, Runs
  <1>3. /\ new \in Runs /\ new.pc = "save" /\ new.man = run[p].man /\ new.reg = run[p].reg
        /\ new.cur = run[p].cur /\ new.problems = run[p].problems
        /\ new.windows = run[p].windows /\ new.kept = run[p].kept /\ new.todo = run[p].todo
    BY <1>1 DEF Runs, Pcs
  <1> QED
    <2> HIDE DEF new
    <2> QED
      BY <1>1, <1>2, <1>3 DEF Moves, GoesOn, BeginSave

(* A command ends: it has saved, it has reported, or it dies. *)
LEMMA EndRun ==
    ASSUME TypeInv, NEW p \in Procs, EndSave(p) \/ FinishVerify(p) \/ Crash(p)
    PROVE  Moves(p) /\ run'[p] = Idle /\ run[p].pc # "idle"
  <1>1. run \in [Procs -> Runs] /\ run' = [run EXCEPT ![p] = Idle]
    BY DEF TypeInv, EndSave, FinishVerify, Crash
  <1> QED
    BY <1>1, IdleFields DEF Moves, EndSave, FinishVerify, Crash

(* The windows of an entry whose file is there, and those as cited. *)
Present(e, d) == {m \in Months : e.win[m] # None /\ snapshot[d][e.ver][m] # None}
Intact(e, d, m) == snapshot[d][e.ver][m] = e.win[m]

LEMMA CheckFilesRun ==
    ASSUME TypeInv, NEW p \in Procs, CheckFiles(p)
    PROVE  LET d == run[p].cur
               e == run[p].man[d]
               found == (\A m \in Months : e.win[m] # None => Intact(e, d, m))
           IN  /\ Moves(p) /\ run[p].pc = "dataset" /\ d \in Datasets /\ p \in Verifiers
               /\ run'[p].man = run[p].man
               /\ \/ e = None /\ Turns(p) /\ run'[p].problems = run[p].problems
                  \/ /\ e # None /\ Present(e, d) = {} /\ Turns(p)
                     /\ run'[p].problems = run[p].problems \cup (IF found THEN {} ELSE {d})
                  \/ /\ e # None /\ Present(e, d) # {}
                     /\ run'[p].reg = run[p].reg /\ run'[p].cur = d /\ run'[p].pc = "relist"
                     /\ run'[p].windows = Present(e, d) /\ run'[p].todo = Present(e, d)
                     /\ run'[p].kept = run[p].kept
                     /\ run'[p].problems = run[p].problems \cup (IF found THEN {} ELSE {d})
  <1> DEFINE d     == run[p].cur
             e     == run[p].man[d]
             found == (\A m \in Months : e.win[m] # None => Intact(e, d, m))
             bad   == IF found THEN {} ELSE {d}
             new   == Report(run[p], bad)
  <1>1. run \in [Procs -> Runs] /\ run[p] \in Runs /\ run[p].pc = "dataset" /\ d \in Datasets
    <2>1. run[p].pc = "dataset" /\ run[p].cur <= Count
      BY DEF CheckFiles
    <2>2. run \in [Procs -> Runs]
      BY DEF TypeInv
    <2> QED
      BY <2>1, <2>2, RunFields, Constants DEF Datasets
  <1>2. bad \in SUBSET Datasets
    BY <1>1
  <1>3. run' = [run EXCEPT ![p] = IF e = None THEN NextDataset(run[p])
                                  ELSE IF Present(e, d) = {} THEN NextDataset(new)
                                  ELSE [new EXCEPT !.pc = "relist", !.windows = Present(e, d),
                                                   !.todo = Present(e, d)]]
    BY DEF CheckFiles, Present, Intact
  <1>4. p \in Verifiers
    BY DEF CheckFiles
  <1> HIDE DEF bad
  <1>5. /\ new \in Runs /\ new.problems = run[p].problems \cup bad
        /\ new.man = run[p].man /\ new.reg = run[p].reg /\ new.cur = run[p].cur /\ new.kept = run[p].kept
    BY <1>1, <1>2, ReportFields
  <1> HIDE DEF new, found, e
  <1>6. CASE e = None
    <2>1. run' = [run EXCEPT ![p] = NextDataset(run[p])]
      BY <1>3, <1>6
    <2>2. Moves(p) /\ Turns(p) /\ run'[p].man = run[p].man /\ run'[p].problems = run[p].problems
      BY <1>1, <2>1, NextDatasetFields DEF Moves, Turns
    <2> QED
      BY <1>1, <1>4, <1>6, <2>2 DEF e
  <1>7. CASE e # None /\ Present(e, d) = {}
    <2>1. run' = [run EXCEPT ![p] = NextDataset(new)]
      BY <1>3, <1>7
    <2>2. Moves(p) /\ Turns(p) /\ run'[p].man = run[p].man /\ run'[p].problems = run[p].problems \cup bad
      BY <1>1, <1>5, <2>1, NextDatasetFields DEF Moves, Turns
    <2> QED
      BY <1>1, <1>4, <1>7, <2>2 DEF e, bad, found
  <1>8. CASE e # None /\ Present(e, d) # {}
    <2> DEFINE go == [new EXCEPT !.pc = "relist", !.windows = Present(e, d), !.todo = Present(e, d)]
    <2>1. run' = [run EXCEPT ![p] = go]
      BY <1>3, <1>8
    <2>2. Present(e, d) \in SUBSET Months
      BY DEF Present
    <2>3. /\ go \in Runs /\ go.pc = "relist" /\ go.windows = Present(e, d) /\ go.todo = Present(e, d)
          /\ go.man = new.man /\ go.reg = new.reg /\ go.cur = new.cur /\ go.kept = new.kept
          /\ go.problems = new.problems
      BY <1>5, <2>2 DEF Runs, Pcs
    <2> HIDE DEF go
    <2>4. Moves(p) /\ run'[p] = go
      BY <1>1, <2>1, <2>3 DEF Moves
    <2> QED
      BY <1>1, <1>4, <1>5, <1>8, <2>3, <2>4 DEF e, bad, found
  <1> QED
    BY <1>6, <1>7, <1>8

LEMMA CompareRun ==
    ASSUME TypeInv, NEW p \in Procs, Compare(p), run[p].cur \in Datasets
    PROVE  LET d == run[p].cur
               e == run[p].man[d]
           IN  /\ Moves(p) /\ Turns(p) /\ run[p].pc = "entry" /\ run'[p].man = run[p].man
               /\ p \in Verifiers
               /\ run[p].problems \subseteq run'[p].problems
               /\ d \notin run'[p].problems =>
                    /\ e.ver = run[p].reg[d]
                    /\ \A m \in run[p].windows : OfMonth(d, run[p].recs, m) = e.win[m]
  <1> DEFINE d    == run[p].cur
             e    == run[p].man[d]
             same == /\ e.ver = run[p].reg[d]
                     /\ \A m \in run[p].windows : OfMonth(d, run[p].recs, m) = e.win[m]
             bad  == IF same THEN {} ELSE {d}
             new  == Report(run[p], bad)
  <1>1. run \in [Procs -> Runs] /\ run[p] \in Runs /\ bad \in SUBSET Datasets
    BY RunFields DEF TypeInv
  <1>2. run' = [run EXCEPT ![p] = NextDataset(new)] /\ p \in Verifiers /\ run[p].pc = "entry"
    BY DEF Compare
  <1>3. d \in bad \/ same
    OBVIOUS
  <1> HIDE DEF bad
  <1>4. /\ new \in Runs /\ new.problems = run[p].problems \cup bad
        /\ new.man = run[p].man /\ new.reg = run[p].reg /\ new.cur = run[p].cur
    BY <1>1, ReportFields
  <1> HIDE DEF new
  <1>5. /\ Moves(p) /\ Turns(p) /\ run'[p].man = run[p].man
        /\ run'[p].problems = run[p].problems \cup bad
    BY <1>1, <1>2, <1>4, NextDatasetFields DEF Moves, Turns
  <1> QED
    BY <1>2, <1>3, <1>5
-----------------------------------------------------------------------------
Planned == {"relist", "read", "write", "fill", "entry"}

(* What the control flow of a command says of its locals. *)
Shape(p) ==
    LET r == run[p] IN
    /\ r.pc \in Planned \cup {"list", "scan"} => r.cur \in Datasets
    /\ r.pc \in {"list", "scan", "save"} => p \in Compilers
    /\ r.pc \notin Planned => r.kept = {} /\ r.todo = {}
    /\ r.kept \subseteq r.windows /\ (r.kept # {} => p \in Compilers /\ r.man[r.cur] # None)
    /\ r.todo \subseteq r.windows \ r.kept
    /\ r.pc \in {"relist", "read"} => r.todo = r.windows \ r.kept
    /\ r.pc \in {"write", "fill", "entry"} => r.unread = {}
    /\ r.pc = "entry" => r.todo = {}
    /\ r.pc = "fill" => r.todo # {}

Alone == \A p, q \in Procs : (run[p].pc # "idle" /\ run[q].pc # "idle") => p = q

Base == TypeInv /\ (\A p \in Procs : Shape(p)) /\ Alone

LEMMA InitBase == Init => Base
  <1> SUFFICES ASSUME Init PROVE Base
    OBVIOUS
  <1>1. run = [p \in Procs |-> Idle] /\ run \in [Procs -> Runs]
    BY IdleFields DEF Init
  <1>2. ASSUME NEW p \in Procs PROVE Shape(p)
    BY <1>1, IdleFields DEF Shape, Planned
  <1>3. Alone
    BY <1>1, IdleFields DEF Alone
  <1>4. TypeInv
    <2>1. <<>> \in Seq(Months) /\ Len(<<>>) = 0 /\ 0 <= MaxSeq
      BY Constants
    <2>2. [d \in Datasets |-> None] \in Manifest
      BY DEF Manifest
    <2> QED
      BY <1>1, <2>1, <2>2, Constants DEF Init, TypeInv
  <1> QED
    BY <1>2, <1>3, <1>4 DEF Base

(* The others' locals are as they were. *)
LEMMA OthersStay ==
    ASSUME TypeInv, NEW p \in Procs, Moves(p)
    PROVE  run' \in [Procs -> Runs] /\ \A q \in Procs : q # p => run'[q] = run[q]
  BY DEF TypeInv, Moves

(* A window is written among the months. *)
LEMMA TodoFirst ==
    ASSUME TypeInv, NEW p \in Procs, run[p].todo # {}
    PROVE  Min(run[p].todo) \in run[p].todo /\ Min(run[p].todo) \in Months
  <1>1. run[p].todo \in SUBSET Months /\ run[p].todo \in SUBSET Nat
    BY RunFields, Constants
  <1> QED
    BY <1>1, MinOfNats

(* A process's step keeps the shape of its own locals. *)
LEMMA StepShape ==
    ASSUME TypeInv, NEW p \in Procs, Shape(p), Step(p) \/ Crash(p)
    PROVE  Moves(p) /\ Shape(p)'
  <1>1. CASE LoadManifest(p)
    BY <1>1, LoadManifestRun DEF Shape, Planned
  <1>2. CASE Discover(p)
    <2>1. run[p].kept = {} /\ run[p].todo = {} /\ p \in Compilers
      BY <1>2, DiscoverRun DEF Shape, Planned, Discover
    <2> QED
      BY <1>2, <2>1, DiscoverRun DEF Shape, Planned, Turns, GoesOn
  <1>3. CASE ListFiles(p)
    <2>1. run[p].cur \in Datasets
      BY <1>3 DEF Shape, Planned, ListFiles
    <2> QED
      BY <1>3, <2>1, ListFilesRun DEF Shape, Planned, GoesOn
  <1>4. CASE ReadMonth(p)
    <2>1. run[p].cur \in Datasets
      BY <1>4 DEF Shape, Planned, ReadMonth
    <2> QED
      BY <1>4, <2>1, ReadMonthRun DEF Shape, Planned, GoesOn
  <1>5. CASE Plan(p)
    <2>1. run[p].cur \in Datasets /\ p \in Compilers
      BY <1>5 DEF Shape, Planned, Plan
    <2> DEFINE d == run[p].cur
               keep == Unchanged(d, run[p].reg[d], run[p].man[d], run[p].recs, run[p].windows)
    <2>2. keep # {} => run[p].man[d] # None
      BY DEF Unchanged
    <2> HIDE DEF keep
    <2>3. /\ Moves(p) /\ GoesOn(p) /\ run[p].pc = "scan" /\ run[p].unread = {}
          /\ run'[p].pc = IF run[p].windows = keep THEN "entry" ELSE "relist"
          /\ run'[p].windows = run[p].windows /\ run'[p].unread = run[p].unread
          /\ run'[p].kept = keep /\ keep \subseteq run[p].windows
          /\ run'[p].todo = run[p].windows \ keep
      BY <1>5, <2>1, PlanRun DEF keep
    <2> QED
      BY <2>1, <2>2, <2>3 DEF Shape, Planned, GoesOn
  <1>6. CASE VerifyDerived(p)
    <2>1. run[p].cur \in Datasets
      BY <1>6 DEF Shape, Planned, VerifyDerived
    <2> QED
      BY <1>6, <2>1, VerifyDerivedRun, IdleFields DEF Shape, Planned, GoesOn, Turns
  <1>7. CASE OpenWindow(p)
    BY <1>7, OpenWindowRun DEF Shape, Planned, GoesOn
  <1>8. CASE FillWindow(p)
    <2> DEFINE m == Min(run[p].todo)
    <2>1. run[p].pc = "fill" /\ run[p].todo # {}
      BY <1>8 DEF Shape, FillWindow
    <2>2. m \in run[p].todo
      BY <2>1, TodoFirst
    <2> HIDE DEF m
    <2>3. /\ Moves(p) /\ GoesOn(p)
          /\ run'[p].pc = IF run[p].todo = {m} THEN "entry" ELSE "write"
          /\ run'[p].windows = run[p].windows /\ run'[p].unread = run[p].unread
          /\ run'[p].kept = run[p].kept /\ run'[p].todo = run[p].todo \ {m}
      BY <1>8, FillWindowRun DEF m
    <2> QED
      BY <2>1, <2>2, <2>3 DEF Shape, Planned, GoesOn
  <1>9. CASE RecordEntry(p)
    <2>1. run[p].cur \in Datasets /\ (run[p].kept # {} => run[p].man[run[p].cur] # None)
      BY <1>9 DEF Shape, Planned, RecordEntry
    <2> QED
      BY <1>9, <2>1, RecordEntryRun DEF Shape, Planned, Turns
  <1>10. CASE BeginSave(p)
    BY <1>10, BeginSaveRun DEF Shape, Planned, GoesOn
  <1>11. CASE EndSave(p) \/ FinishVerify(p) \/ Crash(p)
    BY <1>11, EndRun, IdleFields DEF Shape, Planned
  <1>12. CASE CheckFiles(p)
    <2>1. p \in Verifiers /\ run[p].kept = {} /\ run[p].todo = {}
      BY <1>12 DEF Shape, Planned, CheckFiles
    <2> QED
      BY <1>12, <2>1, CheckFilesRun DEF Shape, Planned, Turns
  <1>13. CASE Compare(p)
    <2>1. run[p].cur \in Datasets
      BY <1>13 DEF Shape, Planned, Compare
    <2> QED
      BY <1>13, <2>1, CompareRun DEF Shape, Planned, Turns
  <1> QED
    BY <1>1, <1>2, <1>3, <1>4, <1>5, <1>6, <1>7, <1>8, <1>9, <1>10, <1>11, <1>12, <1>13 DEF Step

(* A file is written where the command stands: its dataset, the version it *)
(* loaded, the first window to do.  No other file changes.                 *)
LEMMA WriteFile ==
    ASSUME TypeInv, NEW p \in Procs, Shape(p), OpenWindow(p) \/ FillWindow(p)
    PROVE  LET d == run[p].cur
               v == run[p].reg[d]
               w == Min(run[p].todo)
           IN  /\ d \in Datasets /\ v \in Versions /\ w \in Months /\ w \in run[p].todo
               /\ snapshot' \in [Datasets -> [Versions -> [Months -> Contents \cup {None, Torn}]]]
               /\ \A e \in Datasets, u \in Versions, m \in Months :
                    (e # d \/ u # v \/ m # w) => snapshot'[e][u][m] = snapshot[e][u][m]
               /\ OpenWindow(p) => snapshot'[d][v][w] = Torn
               /\ (FillWindow(p) /\ snapshot[d][v][w] = Torn) =>
                    snapshot'[d][v][w] = OfMonth(d, run[p].recs, w)
  <1> DEFINE d == run[p].cur
             v == run[p].reg[d]
             w == Min(run[p].todo)
             data == OfMonth(d, run[p].recs, w)
             old  == snapshot[d][v][w]
             X == IF OpenWindow(p) THEN Torn
                  ELSE IF old = Torn \/ Cardinality(old) <= Cardinality(data) THEN data ELSE Torn
  <1>1. d \in Datasets /\ run[p].todo # {}
    BY DEF Shape, Planned, OpenWindow, FillWindow
  <1>2. v \in Versions /\ w \in Months /\ w \in run[p].todo
    BY <1>1, RunFields, TodoFirst
  <1>3. data \in Contents
    BY RunFields DEF OfMonth, Contents
  <1>4. X \in Contents \cup {None, Torn}
    BY <1>3
  <1>5. snapshot' = [snapshot EXCEPT ![d][v][w] = X]
    BY DEF OpenWindow, FillWindow
  <1>6. (OpenWindow(p) => X = Torn) /\ ((FillWindow(p) /\ old = Torn) => X = data)
    BY DEF OpenWindow, FillWindow
  <1> HIDE DEF X, w, v, d
  <1>7. /\ snapshot' \in [Datasets -> [Versions -> [Months -> Contents \cup {None, Torn}]]]
        /\ snapshot'[d][v][w] = X
        /\ \A e \in Datasets, u \in Versions, m \in Months :
             (e # d \/ u # v \/ m # w) => snapshot'[e][u][m] = snapshot[e][u][m]
    BY <1>1, <1>2, <1>4, <1>5 DEF TypeInv
  <1> QED
    BY <1>1, <1>2, <1>6, <1>7 DEF d, v, w

(* What a command's step leaves alone. *)
LEMMA StepFrame ==
    ASSUME NEW p \in Procs, Step(p) \/ Crash(p)
    PROVE  /\ journal' = journal /\ schema' = schema /\ drifted' = drifted
           /\ OpenWindow(p) \/ FillWindow(p) \/ snapshot' = snapshot
           /\ BeginSave(p) \/ EndSave(p) \/ manifest' = manifest
           /\ LoadManifest(p) \/ (mark' = mark /\ run[p].pc # "idle")
  BY DEF Step, Crash, LoadManifest, Discover, ListFiles, ReadMonth, Plan, VerifyDerived, OpenWindow,
         FillWindow, RecordEntry, BeginSave, EndSave, CheckFiles, Compare, FinishVerify, store

(* A command moves only while the others are idle. *)
LEMMA OthersIdle ==
    ASSUME ~Overlap, TypeInv, Alone, NEW p \in Procs, Step(p) \/ Crash(p)
    PROVE  \A q \in Procs : q # p => run[q].pc = "idle"
  <1>1. LoadManifest(p) => \A q \in Procs : run[q].pc = "idle"
    BY DEF LoadManifest
  <1>2. LoadManifest(p) \/ run[p].pc # "idle"
    BY StepFrame
  <1> QED
    BY <1>1, <1>2 DEF Alone

LEMMA NextBase ==
    ASSUME ~Overlap, Base, [Next]_vars
    PROVE  Base'
  <1>1. CASE vars' = vars
    BY <1>1 DEF vars, Base, TypeInv, Shape, Alone
  <1>2. ASSUME NEW d \in Datasets, NEW m \in Months, AppendRecord(d, m)
        PROVE  Base'
    <2>1. journal' \in [Datasets -> Seq(Months)] /\ \A e \in Datasets : Len(journal'[e]) <= MaxSeq
      <3>1. journal' = [journal EXCEPT ![d] = Append(journal[d], m)] /\ Len(journal[d]) < MaxSeq
        BY <1>2 DEF AppendRecord
      <3>2. Append(journal[d], m) \in Seq(Months) /\ Len(Append(journal[d], m)) <= MaxSeq
        BY <3>1, JournalFacts, Constants DEF Base
      <3> QED
        BY <3>1, <3>2 DEF Base, TypeInv
    <2>2. UNCHANGED <<schema, drifted, snapshot, manifest, run, mark>>
      BY <1>2 DEF AppendRecord
    <2> QED
      BY <2>1, <2>2 DEF Base, TypeInv, Shape, Alone
  <1>3. ASSUME NEW d \in Datasets, EditSchema(d)
        PROVE  Base'
    BY <1>3 DEF EditSchema, Base, TypeInv, Shape, Alone
  <1>4. ASSUME NEW d \in Datasets, Drift(d)
        PROVE  Base'
    BY <1>4 DEF Drift, Base, TypeInv, Shape, Alone
  <1>5. ASSUME NEW d \in Datasets, NEW v \in Versions, NEW m \in Months, Lose(d, v, m)
        PROVE  Base'
    BY <1>5 DEF Lose, Base, TypeInv, Shape, Alone
  <1>6. CASE RemoveManifest
    <2>1. manifest' \in Manifest
      BY <1>6 DEF RemoveManifest, Manifest
    <2> QED
      BY <1>6, <2>1 DEF RemoveManifest, store, Base, TypeInv, Shape, Alone
  <1>7. ASSUME NEW p \in Procs, Step(p) \/ Crash(p)
        PROVE  Base'
    <2>1. TypeInv /\ Shape(p) /\ Alone
      BY DEF Base
    <2>2. Moves(p) /\ Shape(p)'
      BY <1>7, <2>1, StepShape
    <2>3. run' \in [Procs -> Runs] /\ \A q \in Procs : q # p => run'[q] = run[q]
      BY <2>1, <2>2, OthersStay
    <2>4. \A q \in Procs : q # p => run[q].pc = "idle"
      BY <1>7, <2>1, OthersIdle
    <2>5. \A q \in Procs : Shape(q)'
      BY <2>2, <2>3 DEF Base, Shape
    <2>6. Alone'
      BY <2>3, <2>4 DEF Alone
    <2>7. snapshot' \in [Datasets -> [Versions -> [Months -> Contents \cup {None, Torn}]]]
      BY <1>7, <2>1, StepFrame, WriteFile DEF TypeInv
    <2>8. manifest' \in Manifest \cup {Corrupt}
      <3>1. BeginSave(p) => manifest' = Corrupt
        BY DEF BeginSave
      <3>2. EndSave(p) => manifest' = run[p].man
        BY DEF EndSave
      <3> QED
        BY <1>7, <2>1, <3>1, <3>2, StepFrame, RunFields DEF TypeInv
    <2>9. mark' \in [Procs -> [Datasets -> Nat]]
      <3>1. CASE LoadManifest(p)
        <4>1. mark' = [mark EXCEPT ![p] = [d \in Datasets |-> Len(journal[d])]]
          BY <3>1 DEF LoadManifest
        <4>2. [d \in Datasets |-> Len(journal[d])] \in [Datasets -> Nat]
          BY <2>1, JournalFacts
        <4> QED
          BY <2>1, <4>1, <4>2 DEF TypeInv
      <3> QED
        BY <1>7, <2>1, <3>1, StepFrame DEF TypeInv
    <2> QED
      BY <1>7, <2>1, <2>3, <2>5, <2>6, <2>7, <2>8, <2>9, StepFrame DEF Base, TypeInv
  <1> QED
    BY <1>1, <1>2, <1>3, <1>4, <1>5, <1>6, <1>7 DEF Next
-----------------------------------------------------------------------------
(* The records of a month that were journalled when p's command began. *)
Early(p, d, m) == {s \in Recorded(d, m) : s <= mark[p][d]}

MarkInv == \A p \in Procs, d \in Datasets : mark[p][d] <= Len(journal[d])

(* What a command has read and written of its dataset: nothing that the    *)
(* journal does not hold, everything early of the months it is past, and   *)
(* in each file done what was read for it.                                 *)
ReadInv(p) ==
    LET r == run[p]
        d == r.cur
    IN
    /\ r.pc \in {"scan", "read", "write", "fill", "entry"} => r.recs \subseteq DOMAIN journal[d]
    /\ r.pc = "scan" => \A m \in Months \ r.unread : Early(p, d, m) \subseteq r.recs
    /\ r.pc \in {"read", "write", "fill", "entry"} =>
         \A m \in (r.windows \ r.kept) \ r.unread : Early(p, d, m) \subseteq r.recs
    /\ r.pc \in {"write", "fill", "entry"} =>
         \A m \in (r.windows \ r.kept) \ r.todo : snapshot[d][r.reg[d]][m] = OfMonth(d, r.recs, m)
    /\ r.pc = "fill" => snapshot[d][r.reg[d]][Min(r.todo)] = Torn

Work == Base /\ MarkInv /\ \A p \in Procs : ReadInv(p)

(* An append adds a record after all the others, so nothing early. *)
LEMMA AppendGrows ==
    ASSUME Base, MarkInv, NEW d0 \in Datasets, NEW m0 \in Months, AppendRecord(d0, m0)
    PROVE  /\ UNCHANGED <<schema, drifted, snapshot, manifest, run, mark>> /\ MarkInv'
           /\ \A d \in Datasets :
                /\ Len(journal[d]) <= Len(journal'[d]) /\ DOMAIN journal[d] \subseteq DOMAIN journal'[d]
                /\ Len(journal[d]) \in Nat /\ Len(journal'[d]) \in Nat
                /\ \A s \in DOMAIN journal[d] : journal'[d][s] = journal[d][s]
                /\ journal[d] # <<>> => journal'[d] # <<>>
                /\ \A m : Recorded(d, m) \subseteq Recorded(d, m)'
                /\ \A m : Recorded(d, m)' \subseteq Recorded(d, m) \cup {Len(journal[d]) + 1}
                /\ \A p \in Procs, m \in Months : Early(p, d, m)' = Early(p, d, m)
                /\ \A recs \in SUBSET DOMAIN journal[d], m \in Months :
                     {s \in recs : journal'[d][s] = m} = OfMonth(d, recs, m)
  <1>1. UNCHANGED <<schema, drifted, snapshot, manifest, run, mark>>
    BY DEF AppendRecord
  <1>2. journal' = [journal EXCEPT ![d0] = Append(journal[d0], m0)]
    BY DEF AppendRecord
  <1>3. ASSUME NEW d \in Datasets
        PROVE  /\ journal[d] \in Seq(Months) /\ DOMAIN journal[d] = 1..Len(journal[d])
               /\ journal'[d] \in Seq(Months) /\ DOMAIN journal'[d] = 1..Len(journal'[d])
               /\ Len(journal[d]) \in Nat /\ Len(journal'[d]) \in Nat
               /\ Len(journal'[d]) \in {Len(journal[d]), Len(journal[d]) + 1}
               /\ \A s \in DOMAIN journal[d] : journal'[d][s] = journal[d][s]
    <2>1. journal[d] \in Seq(Months) /\ Append(journal[d], m0) \in Seq(Months)
      BY DEF Base, TypeInv
    <2>2. journal'[d] = journal[d] \/ journal'[d] = Append(journal[d], m0)
      BY <1>2 DEF Base, TypeInv
    <2>3. CASE journal'[d] = journal[d]
      BY <2>1, <2>3
    <2>4. CASE journal'[d] = Append(journal[d], m0)
      BY <2>1, <2>4
    <2> QED
      BY <2>2, <2>3, <2>4
  <1>4. ASSUME NEW d \in Datasets
        PROVE  /\ Len(journal[d]) <= Len(journal'[d]) /\ DOMAIN journal[d] \subseteq DOMAIN journal'[d]
               /\ DOMAIN journal'[d] \subseteq DOMAIN journal[d] \cup {Len(journal[d]) + 1}
               /\ \A s \in DOMAIN journal'[d] : s \in Nat
    BY <1>3
  <1>5. \A p \in Procs, d \in Datasets : mark[p][d] \in Nat /\ mark[p][d] <= Len(journal[d])
    BY DEF Base, TypeInv, MarkInv
  <1>6. MarkInv'
    BY <1>1, <1>3, <1>4, <1>5 DEF MarkInv
  <1>7. ASSUME NEW d \in Datasets
        PROVE  /\ journal[d] # <<>> => journal'[d] # <<>>
               /\ \A m : Recorded(d, m) \subseteq Recorded(d, m)'
               /\ \A m : Recorded(d, m)' \subseteq Recorded(d, m) \cup {Len(journal[d]) + 1}
    <2>1. journal[d] # <<>> => journal'[d] # <<>>
      BY <1>3
    <2> QED
      BY <1>3, <1>4, <2>1 DEF Recorded
  <1>8. ASSUME NEW d \in Datasets, NEW p \in Procs, NEW m \in Months
        PROVE  Early(p, d, m)' = Early(p, d, m)
    <2>1. ~(Len(journal[d]) + 1 <= mark[p][d])
      BY <1>3, <1>5
    <2> QED
      BY <1>1, <1>7, <2>1 DEF Early
  <1>9. ASSUME NEW d \in Datasets, NEW recs \in SUBSET DOMAIN journal[d], NEW m \in Months
        PROVE  {s \in recs : journal'[d][s] = m} = OfMonth(d, recs, m)
    BY <1>3 DEF OfMonth
  <1> QED
    BY <1>1, <1>3, <1>4, <1>6, <1>7, <1>8, <1>9

LEMMA AppendRead ==
    ASSUME Work, NEW d0 \in Datasets, NEW m0 \in Months, AppendRecord(d0, m0), NEW p \in Procs
    PROVE  ReadInv(p)'
  <1> DEFINE d == run[p].cur
  <1>0. Base /\ MarkInv /\ ReadInv(p) /\ Shape(p) /\ TypeInv
    BY DEF Work, Base
  <1>1. UNCHANGED <<snapshot, run, mark>>
    BY <1>0, AppendGrows
  <1>2. CASE run[p].pc \notin {"scan", "read", "write", "fill", "entry"}
    BY <1>1, <1>2 DEF ReadInv
  <1>3. CASE run[p].pc \in {"scan", "read", "write", "fill", "entry"}
    <2>1. d \in Datasets /\ run[p].recs \in SUBSET DOMAIN journal[d] /\ run[p].windows \in SUBSET Months
      BY <1>0, <1>3, RunFields DEF Shape, Planned, ReadInv
    <2>2. /\ DOMAIN journal[d] \subseteq DOMAIN journal'[d]
          /\ \A m \in Months : Early(p, d, m)' = Early(p, d, m)
          /\ \A m \in Months : OfMonth(d, run[p].recs, m)' = OfMonth(d, run[p].recs, m)
      BY <1>0, <1>1, <2>1, AppendGrows DEF OfMonth
    <2> QED
      BY <1>0, <1>1, <2>1, <2>2 DEF ReadInv
  <1> QED
    BY <1>2, <1>3

LEMMA StepRead ==
    ASSUME ~Overlap, Work, NEW p \in Procs, Step(p) \/ Crash(p)
    PROVE  MarkInv' /\ ReadInv(p)'
  <1> DEFINE d == run[p].cur
  <1>0. Base /\ MarkInv /\ ReadInv(p) /\ Shape(p) /\ TypeInv
    BY DEF Work, Base
  <1>1. journal' = journal
    BY StepFrame
  <1>2. MarkInv'
    <2>1. CASE LoadManifest(p)
      <3>1. mark' = [mark EXCEPT ![p] = [e \in Datasets |-> Len(journal[e])]]
        BY <2>1 DEF LoadManifest
      <3>2. \A e \in Datasets : Len(journal[e]) <= Len(journal[e])
        BY <1>0, JournalFacts
      <3> QED
        BY <1>0, <1>1, <3>1, <3>2 DEF MarkInv, TypeInv
    <2> QED
      BY <1>0, <1>1, <2>1, StepFrame DEF MarkInv
  <1> SUFFICES ReadInv(p)'
    BY <1>2
  <1>3. run[p].pc \in Planned \cup {"list", "scan"} => d \in Datasets
    BY <1>0 DEF Shape
  <1>4. CASE run'[p].pc \notin {"scan", "read", "write", "fill", "entry"}
    BY <1>4 DEF ReadInv
  <1>5. CASE run'[p].pc \in {"scan", "read", "write", "fill", "entry"}
    <2>1. LoadManifest(p) \/ Discover(p) \/ RecordEntry(p) \/ BeginSave(p) \/ EndSave(p)
            \/ CheckFiles(p) \/ Compare(p) \/ FinishVerify(p) \/ Crash(p) => FALSE
      <3>1. ~LoadManifest(p) /\ ~Discover(p) /\ ~BeginSave(p) /\ ~CheckFiles(p)
        BY <1>0, <1>5, LoadManifestRun, DiscoverRun, BeginSaveRun, CheckFilesRun DEF Turns
      <3>2. ~EndSave(p) /\ ~FinishVerify(p) /\ ~Crash(p)
        BY <1>0, <1>5, EndRun, IdleFields
      <3>3. ~RecordEntry(p)
        <4>1. RecordEntry(p) => d \in Datasets /\ (run[p].kept # {} => run[p].man[d] # None)
          BY <1>0, <1>3 DEF Shape, Planned, RecordEntry
        <4> QED
          BY <1>0, <1>5, <4>1, RecordEntryRun DEF Turns
      <3>4. ~Compare(p)
        <4>1. Compare(p) => d \in Datasets
          BY <1>3 DEF Planned, Compare
        <4> QED
          BY <1>0, <1>5, <4>1, CompareRun DEF Turns
      <3> QED
        BY <3>1, <3>2, <3>3, <3>4
    <2>2. mark' = mark
      BY <2>1, StepFrame
    <2>3. CASE ListFiles(p)
      <3>1. d \in Datasets /\ run[p].todo = (IF run[p].pc = "relist" THEN run[p].windows \ run[p].kept ELSE {})
        BY <1>0, <1>3, <2>3 DEF Shape, Planned, ListFiles
      <3>2. /\ GoesOn(p) /\ run[p].pc \in {"list", "relist"}
            /\ run'[p].pc = IF run[p].pc = "list" THEN "scan" ELSE "read"
            /\ run'[p].windows = run[p].windows /\ run'[p].recs = {} /\ run'[p].kept = run[p].kept
            /\ run'[p].unread = IF run[p].pc = "list" THEN Discovered(d)
                                ELSE run[p].todo \cap Discovered(d)
        BY <1>0, <2>3, <3>1, ListFilesRun
      <3>3. \A m : m \notin Discovered(d) => Early(p, d, m)' = {}
        BY <1>1, <2>2, <3>2 DEF Early, Recorded, Discovered, Range, GoesOn
      <3>4. \A m \in Months \ Discovered(d) : Early(p, d, m)' \subseteq {}
        BY <3>3
      <3>5. CASE run[p].pc = "list"
        BY <3>2, <3>4, <3>5 DEF ReadInv, GoesOn
      <3>6. CASE run[p].pc = "relist"
        <4>1. run[p].windows \subseteq Months
          BY <1>0, RunFields
        <4> QED
          BY <3>1, <3>2, <3>4, <3>6, <4>1 DEF ReadInv, GoesOn
      <3> QED
        BY <3>2, <3>5, <3>6
    <2>4. CASE ReadMonth(p)
      <3> DEFINE w == Min(run[p].unread)
      <3>1. d \in Datasets
        BY <1>3, <2>4 DEF Planned, ReadMonth
      <3> HIDE DEF w
      <3>2. /\ GoesOn(p) /\ run[p].pc \in {"scan", "read"} /\ run'[p].pc = run[p].pc
            /\ run'[p].windows = run[p].windows /\ run'[p].kept = run[p].kept
            /\ run'[p].recs = run[p].recs \cup Recorded(d, w)
            /\ run'[p].unread = run[p].unread \ {w}
        BY <1>0, <2>4, <3>1, ReadMonthRun DEF w
      <3>3. \A m : Early(p, d, m)' = Early(p, d, m)
        BY <1>1, <2>2, <3>2 DEF Early, Recorded, GoesOn
      <3>4. Early(p, d, w) \subseteq Recorded(d, w) /\ Recorded(d, w) \subseteq DOMAIN journal[d]
        BY DEF Early, Recorded
      <3> QED
        BY <1>0, <1>1, <3>2, <3>3, <3>4 DEF ReadInv, GoesOn
    <2>5. CASE Plan(p)
      <3> DEFINE keep == Unchanged(d, run[p].reg[d], run[p].man[d], run[p].recs, run[p].windows)
      <3>1. d \in Datasets
        BY <1>3, <2>5 DEF Planned, Plan
      <3> HIDE DEF keep
      <3>2. /\ GoesOn(p) /\ run[p].pc = "scan" /\ keep \subseteq run[p].windows
            /\ run'[p].pc = IF run[p].windows = keep THEN "entry" ELSE "relist"
            /\ run'[p].windows = run[p].windows /\ run'[p].recs = run[p].recs /\ run'[p].kept = keep
        BY <1>0, <2>5, <3>1, PlanRun DEF keep
      <3>3. run'[p].pc = "entry" /\ run[p].windows = keep
        BY <1>5, <3>2
      <3> QED
        BY <1>0, <1>1, <3>2, <3>3 DEF ReadInv, GoesOn
    <2>6. CASE VerifyDerived(p)
      <3>1. d \in Datasets
        BY <1>3, <2>6 DEF Planned, VerifyDerived
      <3>2. /\ GoesOn(p) /\ run[p].pc = "read" /\ run[p].unread = {}
            /\ run'[p].pc = "write" /\ run'[p].windows = run[p].windows
            /\ run'[p].unread = {} /\ run'[p].recs = run[p].recs
            /\ run'[p].kept = run[p].kept /\ run'[p].todo = run[p].todo
        BY <1>0, <1>5, <2>6, <3>1, VerifyDerivedRun, IdleFields DEF Turns
      <3>3. \A m : Early(p, d, m)' = Early(p, d, m)
        BY <1>1, <2>2, <3>2 DEF Early, Recorded, GoesOn
      <3>4. run[p].todo = run[p].windows \ run[p].kept
        BY <1>0, <3>2 DEF Shape
      <3> QED
        BY <1>0, <1>1, <3>2, <3>3, <3>4 DEF ReadInv, GoesOn
    <2>7. CASE OpenWindow(p)
      <3> DEFINE w == Min(run[p].todo)
                 v == run[p].reg[d]
      <3>1. /\ d \in Datasets /\ v \in Versions /\ w \in Months /\ w \in run[p].todo
            /\ \A m \in Months : m # w => snapshot'[d][v][m] = snapshot[d][v][m]
            /\ snapshot'[d][v][w] = Torn
        BY <1>0, <2>7, WriteFile
      <3>2. /\ GoesOn(p) /\ run[p].pc = "write" /\ run'[p].pc = "fill"
            /\ run'[p].windows = run[p].windows /\ run'[p].unread = run[p].unread
            /\ run'[p].recs = run[p].recs
            /\ run'[p].kept = run[p].kept /\ run'[p].todo = run[p].todo
        BY <1>0, <2>7, OpenWindowRun
      <3>3. \A m : Early(p, d, m)' = Early(p, d, m)
        BY <1>1, <2>2, <3>2 DEF Early, Recorded, GoesOn
      <3>4. run[p].windows \subseteq Months
        BY <1>0, RunFields
      <3>5. \A m \in (run[p].windows \ run[p].kept) \ run[p].todo :
               snapshot'[d][v][m] = OfMonth(d, run[p].recs, m)
        BY <1>0, <3>1, <3>2, <3>4 DEF ReadInv
      <3>6. \A m : OfMonth(d, run[p].recs, m)' = OfMonth(d, run[p].recs, m)
        BY <1>1, <3>2 DEF OfMonth, GoesOn
      <3> QED
        BY <1>0, <1>1, <3>1, <3>2, <3>3, <3>5, <3>6 DEF ReadInv, GoesOn
    <2>8. CASE FillWindow(p)
      <3> DEFINE w == Min(run[p].todo)
                 v == run[p].reg[d]
      <3>1. run[p].pc = "fill" /\ snapshot[d][v][w] = Torn
        BY <1>0, <2>8 DEF ReadInv, FillWindow
      <3>2. /\ d \in Datasets /\ v \in Versions /\ w \in Months /\ w \in run[p].todo
            /\ \A m \in Months : m # w => snapshot'[d][v][m] = snapshot[d][v][m]
            /\ snapshot'[d][v][w] = OfMonth(d, run[p].recs, w)
        BY <1>0, <2>8, <3>1, WriteFile
      <3>3. /\ GoesOn(p) /\ run'[p].pc \in {"write", "entry"}
            /\ run'[p].windows = run[p].windows /\ run'[p].unread = run[p].unread
            /\ run'[p].recs = run[p].recs
            /\ run'[p].kept = run[p].kept /\ run'[p].todo = run[p].todo \ {w}
        BY <1>0, <2>8, FillWindowRun
      <3>4. \A m : Early(p, d, m)' = Early(p, d, m)
        BY <1>1, <2>2, <3>3 DEF Early, Recorded, GoesOn
      <3>5. run[p].windows \subseteq Months
        BY <1>0, RunFields
      <3>6. \A m \in (run[p].windows \ run[p].kept) \ (run[p].todo \ {w}) :
               snapshot'[d][v][m] = OfMonth(d, run[p].recs, m)
        BY <1>0, <3>1, <3>2, <3>5 DEF ReadInv
      <3>7. \A m : OfMonth(d, run[p].recs, m)' = OfMonth(d, run[p].recs, m)
        BY <1>1, <3>3 DEF OfMonth, GoesOn
      <3> QED
        BY <1>0, <1>1, <3>1, <3>3, <3>4, <3>6, <3>7 DEF ReadInv, GoesOn
    <2> QED
      BY <2>1, <2>3, <2>4, <2>5, <2>6, <2>7, <2>8 DEF Step
  <1> QED
    BY <1>4, <1>5

LEMMA InitWork == Init => Work
  <1> SUFFICES ASSUME Init PROVE Work
    OBVIOUS
  <1>1. Base
    BY InitBase
  <1>2. MarkInv
    BY <1>1, JournalFacts DEF Init, MarkInv, Base
  <1>3. \A p \in Procs : ReadInv(p)
    BY IdleFields DEF Init, ReadInv
  <1> QED
    BY <1>1, <1>2, <1>3 DEF Work

(* While every command is idle, and when only the schema or the drift of a *)
(* dataset changes, there is nothing to show.                              *)
Settled == \/ UNCHANGED <<journal, snapshot, manifest, run, mark>>
           \/ /\ \A p \in Procs : run[p].pc = "idle"
              /\ UNCHANGED <<journal, run, mark>>

LEMMA NextCases ==
    ASSUME [Next]_vars
    PROVE  \/ Settled
           \/ \E d \in Datasets, m \in Months : AppendRecord(d, m)
           \/ \E p \in Procs : Step(p) \/ Crash(p)
  BY DEF Next, Settled, vars, EditSchema, Drift, Lose, RemoveManifest, store

LEMMA NextWork ==
    ASSUME ~Overlap, Work, [Next]_vars
    PROVE  Work'
  <1>0. Base /\ MarkInv /\ (\A p \in Procs : ReadInv(p)) /\ Alone /\ TypeInv
    BY DEF Work, Base
  <1>1. Base'
    BY <1>0, NextBase
  <1>2. CASE Settled
    BY <1>0, <1>1, <1>2 DEF Settled, Work, MarkInv, ReadInv, Early, Recorded, OfMonth
  <1>3. ASSUME NEW d \in Datasets, NEW m \in Months, AppendRecord(d, m)
        PROVE  Work'
    BY <1>0, <1>1, <1>3, AppendGrows, AppendRead DEF Work
  <1>4. ASSUME NEW p \in Procs, Step(p) \/ Crash(p)
        PROVE  Work'
    <2>1. MarkInv' /\ ReadInv(p)'
      BY <1>4, StepRead
    <2>2. \A q \in Procs : q # p => run'[q] = run[q] /\ run[q].pc = "idle"
      BY <1>0, <1>4, StepShape, OthersStay, OthersIdle DEF Base
    <2>3. \A q \in Procs : q # p => ReadInv(q)'
      BY <2>2 DEF ReadInv
    <2> QED
      BY <1>1, <2>1, <2>3 DEF Work
  <1> QED
    BY <1>2, <1>3, <1>4, NextCases

-----------------------------------------------------------------------------
(* What a verify has confirmed of a dataset it is past: each window is on  *)
(* disk as cited, and has all that is early.                               *)
Confirmed(p, d) ==
    manifest[d] # None => \A m \in Months : manifest[d].win[m] # None =>
        Intact(manifest[d], d, m) /\ Early(p, d, m) \subseteq manifest[d].win[m]

VerifyInv(p) ==
    LET r == run[p] IN r.pc # "idle" =>
        /\ r.man = manifest
        /\ \A d \in Datasets : (d < r.cur /\ d \notin r.problems) => Confirmed(p, d)
        /\ (r.pc \in Planned /\ r.cur \notin r.problems) =>
             \A m \in Months : r.man[r.cur].win[m] # None => m \in r.windows

LEMMA StepVerify ==
    ASSUME ~Overlap, Work, NEW p \in Verifiers, VerifyInv(p), Step(p) \/ Crash(p)
    PROVE  VerifyInv(p)'
  <1> DEFINE d == run[p].cur
  <1>0. p \in Procs /\ p \notin Compilers
    BY CompilerAssumption DEF Procs
  <1>1. Base /\ MarkInv /\ ReadInv(p) /\ Shape(p) /\ TypeInv
    BY <1>0 DEF Work, Base
  <1>2. CASE run'[p].pc = "idle"
    BY <1>2 DEF VerifyInv
  <1>3. CASE LoadManifest(p)
    <2>1. run'[p].pc = "dataset" /\ run'[p].man = manifest /\ run'[p].cur = 1 /\ manifest' = manifest
      BY <1>0, <1>1, <1>3, LoadManifestRun DEF LoadManifest
    <2>2. \A e \in Datasets : ~(e < 1)
      BY Constants DEF Datasets
    <2> QED
      BY <2>1, <2>2 DEF VerifyInv, Planned
  <1>4. CASE run'[p].pc # "idle" /\ ~LoadManifest(p)
    <2>1. ~BeginSave(p) /\ ~EndSave(p) /\ ~Discover(p) /\ ~Plan(p) /\ ~RecordEntry(p)
      BY <1>0, <1>1 DEF BeginSave, EndSave, Discover, Plan, RecordEntry, Shape
    <2>2. ~FinishVerify(p) /\ ~Crash(p)
      BY <1>0, <1>1, <1>4, EndRun, IdleFields
    <2>3. /\ journal' = journal /\ manifest' = manifest /\ mark' = mark /\ run[p].pc # "idle"
          /\ OpenWindow(p) \/ FillWindow(p) \/ snapshot' = snapshot
      BY <1>0, <1>4, <2>1, StepFrame
    <2>4. /\ run[p].man = manifest
          /\ \A e \in Datasets : (e < d /\ e \notin run[p].problems) => Confirmed(p, e)
          /\ (run[p].pc \in Planned /\ d \notin run[p].problems) =>
               \A m \in Months : run[p].man[d].win[m] # None => m \in run[p].windows
      BY <2>3 DEF VerifyInv
    <2>5. d \in Nat /\ \A e \in Datasets : e \in Nat
      BY <1>0, <1>1, RunFields, Constants
    <2>6. ASSUME NEW e \in Datasets, e < d, Confirmed(p, e)
          PROVE  Confirmed(p, e)'
      <3>1. manifest \in Manifest
        BY <1>0, <1>1, <2>4, RunFields
      <3>2. ASSUME NEW m \in Months, manifest[e] # None
            PROVE  snapshot'[e][manifest[e].ver][m] = snapshot[e][manifest[e].ver][m]
        <4>1. manifest[e].ver \in Versions
          BY <3>1, <3>2 DEF Manifest, Entry
        <4>2. e # d
          BY <2>5, <2>6
        <4> QED
          BY <1>0, <1>1, <2>3, <4>1, <4>2, WriteFile
      <3>3. \A m : Early(p, e, m)' = Early(p, e, m)
        BY <2>3 DEF Early, Recorded
      <3> QED
        BY <2>3, <2>6, <3>2, <3>3 DEF Confirmed, Intact
    <2>7. ASSUME Turns(p), run'[p].man = run[p].man, run[p].problems \subseteq run'[p].problems,
                 d \in Datasets,
                 \A c \in Datasets : (c = d /\ c \notin run'[p].problems) => Confirmed(p, c)'
          PROVE  VerifyInv(p)'
      <3>1. \A e \in Datasets : e < d + 1 => (e < d \/ e = d)
        BY <2>5
      <3> QED
        BY <2>3, <2>4, <2>6, <2>7, <3>1 DEF VerifyInv, Turns, Planned
    <2>8. ASSUME GoesOn(p), run[p].pc \in Planned, run'[p].windows = run[p].windows
          PROVE  VerifyInv(p)'
      BY <2>3, <2>4, <2>6, <2>8 DEF VerifyInv, GoesOn
    <2>9. CASE ListFiles(p) \/ ReadMonth(p)
      <3>1. d \in Datasets /\ run[p].pc \in Planned
        BY <1>0, <1>1, <2>9 DEF Shape, Planned, ListFiles, ReadMonth
      <3>2. GoesOn(p) /\ run'[p].windows = run[p].windows
        BY <1>0, <1>1, <2>9, <3>1, ListFilesRun, ReadMonthRun
      <3> QED
        BY <2>8, <3>1, <3>2
    <2>10. CASE OpenWindow(p) \/ FillWindow(p)
      <3>1. run[p].pc \in Planned
        BY <2>10 DEF Planned, OpenWindow, FillWindow
      <3>2. GoesOn(p) /\ run'[p].windows = run[p].windows
        BY <1>0, <1>1, <2>10, OpenWindowRun, FillWindowRun
      <3> QED
        BY <2>8, <3>1, <3>2
    <2>11. CASE VerifyDerived(p)
      <3>1. d \in Datasets /\ run[p].pc \in Planned
        BY <1>0, <1>1, <2>11 DEF Shape, Planned, VerifyDerived
      <3>2. \/ GoesOn(p) /\ run'[p].windows = run[p].windows
            \/ Turns(p) /\ run'[p].man = run[p].man /\ run'[p].problems = run[p].problems \cup {d}
        BY <1>0, <1>1, <2>11, <3>1, VerifyDerivedRun
      <3> QED
        BY <2>7, <2>8, <3>1, <3>2
    <2>12. CASE CheckFiles(p)
      <3> DEFINE e == run[p].man[d]
                 found == (\A m \in Months : e.win[m] # None => Intact(e, d, m))
      <3>1. d \in Datasets /\ snapshot' = snapshot
        BY <1>0, <1>1, <2>12, CheckFilesRun DEF CheckFiles
      <3>2. /\ run'[p].man = run[p].man
            /\ \/ e = None /\ Turns(p) /\ run'[p].problems = run[p].problems
               \/ /\ e # None /\ Present(e, d) = {} /\ Turns(p)
                  /\ run'[p].problems = run[p].problems \cup (IF found THEN {} ELSE {d})
               \/ /\ run'[p].cur = d /\ run'[p].windows = Present(e, d)
                  /\ run'[p].problems = run[p].problems \cup (IF found THEN {} ELSE {d})
        BY <1>0, <1>1, <2>12, CheckFilesRun
      <3>3. e = manifest[d] /\ manifest'[d] = manifest[d]
        BY <2>3, <2>4
      <3>4. ASSUME found, NEW m \in Months, e.win[m] # None
            PROVE  m \in Present(e, d)
        BY <3>4 DEF Present, Intact
      <3>5. CASE e = None /\ Turns(p) /\ run'[p].problems = run[p].problems
        <4>1. \A c \in Datasets : c = d => Confirmed(p, c)'
          BY <3>3, <3>5 DEF Confirmed
        <4> QED
          BY <2>7, <3>1, <3>2, <3>5, <4>1
      <3>6. CASE /\ e # None /\ Present(e, d) = {} /\ Turns(p)
                 /\ run'[p].problems = run[p].problems \cup (IF found THEN {} ELSE {d})
        <4>1. found => \A m \in Months : e.win[m] = None
          BY <3>4, <3>6
        <4>2. \A c \in Datasets : (c = d /\ c \notin run'[p].problems) => found
          BY <3>6
        <4>3. \A c \in Datasets : (c = d /\ found) => Confirmed(p, c)'
          BY <3>3, <4>1 DEF Confirmed
        <4> QED
          BY <2>7, <3>1, <3>2, <3>6, <4>2, <4>3
      <3>7. CASE /\ run'[p].cur = d /\ run'[p].windows = Present(e, d)
                 /\ run'[p].problems = run[p].problems \cup (IF found THEN {} ELSE {d})
        <4>1. d \notin run'[p].problems => found
          BY <3>7
        <4>2. d \notin run'[p].problems => \A m \in Months : e.win[m] # None => m \in run'[p].windows
          BY <3>4, <3>7, <4>1
        <4>3. \A c \in Datasets : (c < d /\ c \notin run'[p].problems) => Confirmed(p, c)'
          BY <2>4, <2>6, <3>7
        <4>4. /\ run'[p].man = manifest' /\ run'[p].man[d] = e /\ run'[p].cur = d
          BY <2>3, <2>4, <3>2, <3>7
        <4> HIDE DEF d, e, found
        <4> QED
          BY <4>2, <4>3, <4>4 DEF VerifyInv
      <3> QED
        BY <3>2, <3>5, <3>6, <3>7
    <2>13. CASE Compare(p)
      <3>1. d \in Datasets /\ snapshot' = snapshot /\ run[p].kept = {} /\ run[p].todo = {} /\ run[p].unread = {}
        BY <1>0, <1>1, <2>13 DEF Shape, Planned, Compare
      <3>2. /\ Turns(p) /\ run[p].pc = "entry" /\ run'[p].man = run[p].man
            /\ run[p].problems \subseteq run'[p].problems
            /\ d \notin run'[p].problems =>
                 /\ run[p].man[d].ver = run[p].reg[d]
                 /\ \A m \in run[p].windows : OfMonth(d, run[p].recs, m) = run[p].man[d].win[m]
        BY <1>0, <1>1, <2>13, <3>1, CompareRun
      <3>3. ASSUME d \notin run'[p].problems, NEW m \in Months, manifest[d].win[m] # None
            PROVE  Intact(manifest[d], d, m) /\ Early(p, d, m) \subseteq manifest[d].win[m]
        <4>1. m \in run[p].windows
          BY <2>4, <3>2, <3>3 DEF Planned
        <4>2. /\ snapshot[d][run[p].reg[d]][m] = OfMonth(d, run[p].recs, m)
              /\ Early(p, d, m) \subseteq run[p].recs
          BY <1>1, <3>1, <3>2, <4>1 DEF ReadInv
        <4>3. Early(p, d, m) \subseteq OfMonth(d, run[p].recs, m)
          BY <4>2 DEF Early, Recorded, OfMonth
        <4> QED
          BY <2>4, <3>2, <3>3, <4>1, <4>2, <4>3 DEF Intact
      <3>4. \A c \in Datasets : (c = d /\ c \notin run'[p].problems) => Confirmed(p, c)'
        BY <2>3, <3>1, <3>3 DEF Confirmed, Intact, Early, Recorded
      <3> QED
        BY <2>7, <3>1, <3>2, <3>4
    <2> QED
      BY <1>4, <2>1, <2>2, <2>9, <2>10, <2>11, <2>12, <2>13 DEF Step
  <1> QED
    BY <1>2, <1>3, <1>4

VerifiersInv == Work /\ \A p \in Verifiers : VerifyInv(p)

LEMMA NextVerify ==
    ASSUME ~Overlap, VerifiersInv, [Next]_vars
    PROVE  VerifiersInv'
  <1>0. Work /\ Base /\ MarkInv /\ Alone /\ TypeInv /\ \A p \in Verifiers : p \in Procs
    BY DEF VerifiersInv, Work, Base, Procs
  <1>1. Work'
    BY <1>0, NextWork
  <1>2. CASE Settled
    BY <1>0, <1>1, <1>2 DEF Settled, VerifiersInv, VerifyInv, Confirmed, Intact, Early, Recorded
  <1>3. ASSUME NEW d \in Datasets, NEW m \in Months, AppendRecord(d, m)
        PROVE  VerifiersInv'
    <2>1. UNCHANGED <<snapshot, manifest, run, mark>>
      BY <1>0, <1>3, AppendGrows
    <2>2. \A p \in Procs, e \in Datasets, n \in Months : Early(p, e, n)' = Early(p, e, n)
      BY <1>0, <1>3, AppendGrows
    <2>3. \A p \in Procs, e \in Datasets : Confirmed(p, e) => Confirmed(p, e)'
      BY <2>1, <2>2 DEF Confirmed, Intact
    <2> QED
      BY <1>0, <1>1, <2>1, <2>3 DEF VerifiersInv, VerifyInv
  <1>4. ASSUME NEW p \in Procs, Step(p) \/ Crash(p)
        PROVE  VerifiersInv'
    <2>1. \A q \in Procs : q # p => run'[q] = run[q] /\ run[q].pc = "idle"
      BY <1>0, <1>4, StepShape, OthersStay, OthersIdle DEF Base
    <2>2. \A q \in Verifiers : q # p => VerifyInv(q)'
      BY <1>0, <2>1 DEF VerifyInv
    <2>3. p \in Verifiers => VerifyInv(p)'
      BY <1>0, <1>4, StepVerify DEF VerifiersInv
    <2> QED
      BY <1>1, <2>2, <2>3 DEF VerifiersInv
  <1> QED
    BY <1>2, <1>3, <1>4, NextCases

(* `hub verify` is honest: however the journal grows and whatever files,   *)
(* schemas or derived values changed before, when it exits 0 every window  *)
(* of the manifest is on disk as cited and holds everything journalled for *)
(* its month when verify began, provided no other command ran beside it.   *)
THEOREM VerifyIsHonest ==
    ASSUME ~Overlap
    PROVE  Spec => VerifyOkMeansIntact
  <1> DEFINE Ok(p) == (FinishVerify(p) /\ run[p].problems = {}) =>
                        \A d \in Datasets, m \in Months : Compiled(d, m) =>
                           /\ Readable(d, m)
                           /\ {s \in Recorded(d, m) : s <= mark[p][d]} \subseteq manifest[d].win[m]
  <1>1. Init => VerifiersInv
    <2>1. Init => \A p \in Verifiers : VerifyInv(p)
      BY IdleFields DEF Init, VerifyInv, Procs
    <2> QED
      BY <2>1, InitWork DEF VerifiersInv
  <1>2. VerifiersInv /\ [Next]_vars => VerifiersInv'
    BY NextVerify
  <1>3. VerifiersInv => \A p \in Verifiers : Ok(p)
    <2> SUFFICES ASSUME VerifiersInv, NEW p \in Verifiers, FinishVerify(p), run[p].problems = {},
                        NEW d \in Datasets, NEW m \in Months, Compiled(d, m)
                 PROVE  /\ Readable(d, m)
                        /\ {s \in Recorded(d, m) : s <= mark[p][d]} \subseteq manifest[d].win[m]
      OBVIOUS
    <2>1. run[p].pc # "idle" /\ run[p].cur > Count /\ run[p].cur \in Nat
      BY RunFields DEF FinishVerify, VerifiersInv, Work, Base, Procs
    <2>2. d < run[p].cur /\ d \notin run[p].problems
      BY <2>1, Constants DEF Datasets
    <2>3. Confirmed(p, d)
      BY <2>1, <2>2 DEF VerifiersInv, VerifyInv
    <2> QED
      BY <2>3 DEF Confirmed, Compiled, Readable, Intact, Early
  <1>4. VerifiersInv => [\A p \in Verifiers : Ok(p)]_vars
    BY <1>3
  <1>5. VerifyOkMeansIntact <=> [][\A p \in Verifiers : Ok(p)]_vars
    BY DEF VerifyOkMeansIntact
  <1> HIDE DEF Ok
  <1> QED
    BY <1>1, <1>2, <1>4, <1>5, PTL DEF Spec
-----------------------------------------------------------------------------
(* A record makes the next compile write window m of entry e again: it was *)
(* numbered after the entry, in the window's month or one before, or it is *)
(* missing from the window.                                                *)
Touched(e, d, m) ==
    \/ \E s \in DOMAIN journal[d] : s > e.last /\ journal[d][s] <= m
    \/ Recorded(d, m) # e.win[m]

(* ... and it was journalled when p's command began. *)
TouchedEarly(p, e, d, m) ==
    \/ \E s \in DOMAIN journal[d] : s <= mark[p][d] /\ s > e.last /\ journal[d][s] <= m
    \/ Early(p, d, m) # e.win[m]

(* A verify is half-way through a file that the manifest cites. *)
Refilling(d, m) ==
    \E p \in Verifiers : /\ run[p].pc = "fill" /\ run[p].cur = d /\ run[p].reg[d] = manifest[d].ver
                         /\ m = Min(run[p].todo)

(* The saved manifest cites journalled records only, and a file that is    *)
(* not as cited is one that the next compile will not keep.                *)
ManifestInv ==
    manifest # Corrupt => \A d \in Datasets : manifest[d] # None =>
        /\ manifest[d].last <= Len(journal[d]) /\ journal[d] # <<>>
        /\ \A m \in Months : manifest[d].win[m] # None =>
             /\ manifest[d].win[m] \subseteq Recorded(d, m)
             /\ \/ Intact(manifest[d], d, m)
                \/ Touched(manifest[d], d, m)
                \/ Refilling(d, m)

(* A command's manifest is the saved one, and older than its mark. *)
LoadedInv(p) ==
    run[p].pc \notin {"idle", "save"} =>
        /\ manifest # Corrupt
        /\ \A d \in Datasets : manifest[d] # None =>
             /\ manifest[d].last <= mark[p][d]
             /\ \A m \in Months : manifest[d].win[m] # None =>
                  \A s \in manifest[d].win[m] : s <= mark[p][d]

(* What a compile's new entry promises. *)
FreshEntry(p, d) ==
    LET e == run[p].man[d] IN e # None =>
        /\ e.last <= Len(journal[d]) /\ journal[d] # <<>>
        /\ \A m \in Months : e.win[m] # None =>
             /\ Intact(e, d, m)
             /\ Early(p, d, m) \subseteq e.win[m] /\ e.win[m] \subseteq Recorded(d, m)

(* What a compile's plan for its dataset promises. *)
PlanInv(p) ==
    LET r == run[p]
        d == r.cur
    IN
    /\ r.last <= Len(journal[d])
    /\ \A m \in r.kept : /\ r.man[d].ver = r.reg[d] /\ r.man[d].win[m] # None
                         /\ Intact(r.man[d], d, m) /\ Early(p, d, m) \subseteq r.man[d].win[m]
    /\ \A m \in r.windows \ r.kept :
         (manifest[d] # None /\ manifest[d].ver = r.reg[d] /\ manifest[d].win[m] # None) =>
             Touched(manifest[d], d, m)

(* What a compile finds of a dataset it has not planned yet. *)
Found(p, d) ==
    manifest[d] # None => \A m \in Months : manifest[d].win[m] # None =>
        Intact(manifest[d], d, m) \/ TouchedEarly(p, manifest[d], d, m)

CompileInv(p) ==
    LET r == run[p] IN r.pc # "idle" =>
        /\ r.pc = "save" => r.cur > Count
        /\ r.pc \in Planned \cup {"list", "scan"} => journal[r.cur] # <<>>
        /\ \A d \in Datasets : d >= r.cur => r.man[d] = manifest[d]
        /\ \A d \in Datasets : d < r.cur => FreshEntry(p, d)
        /\ r.pc \in Planned => PlanInv(p)
        /\ \A d \in Datasets : (d > r.cur \/ (d = r.cur /\ r.pc \notin Planned)) => Found(p, d)

SaveInv ==
    /\ Work /\ ManifestInv
    /\ \A p \in Procs : LoadedInv(p)
    /\ \A p \in Compilers : CompileInv(p)

(* Commands take turns, no verify dies and no snapshot file is lost. *)
Durable == ~Overlap /\ ~Losses /\ Mortal \cap Verifiers = {}

(* The fields of a manifest's entries. *)
LEMMA EntryFields ==
    ASSUME NEW man \in Manifest, NEW d \in Datasets, man[d] # None
    PROVE  /\ man[d].ver \in Versions /\ man[d].last \in Nat
           /\ \A m \in Months : man[d].win[m] \in Contents \cup {None}
  BY Constants DEF Manifest, Entry

(* Records are only added, so what was touched stays so. *)
LEMMA AppendTouched ==
    ASSUME Base, MarkInv, NEW d0 \in Datasets, NEW m0 \in Months, AppendRecord(d0, m0),
           NEW d \in Datasets, NEW m \in Months
    PROVE  /\ (Touched(manifest[d], d, m) /\ manifest[d].win[m] \subseteq Recorded(d, m)) =>
                Touched(manifest[d], d, m)'
           /\ \A p \in Procs :
                TouchedEarly(p, manifest[d], d, m) => TouchedEarly(p, manifest[d], d, m)'
  <1>1. manifest' = manifest /\ mark' = mark
    BY AppendGrows
  <1>2. /\ DOMAIN journal[d] \subseteq DOMAIN journal'[d]
        /\ \A s \in DOMAIN journal[d] : journal'[d][s] = journal[d][s]
        /\ Recorded(d, m) \subseteq Recorded(d, m)'
        /\ \A p \in Procs : Early(p, d, m)' = Early(p, d, m)
    BY AppendGrows
  <1>3. ASSUME Touched(manifest[d], d, m), manifest[d].win[m] \subseteq Recorded(d, m)
        PROVE  Touched(manifest[d], d, m)'
    <2>1. CASE \E s \in DOMAIN journal[d] : s > manifest[d].last /\ journal[d][s] <= m
      BY <1>1, <1>2, <2>1 DEF Touched
    <2>2. CASE Recorded(d, m) # manifest[d].win[m]
      <3>1. Recorded(d, m)' # manifest[d].win[m]
        BY <1>2, <1>3, <2>2
      <3> QED
        BY <1>1, <3>1 DEF Touched
    <2> QED
      BY <1>3, <2>1, <2>2 DEF Touched
  <1>4. ASSUME NEW p \in Procs, TouchedEarly(p, manifest[d], d, m)
        PROVE  TouchedEarly(p, manifest[d], d, m)'
    <2>1. CASE \E s \in DOMAIN journal[d] : s <= mark[p][d] /\ s > manifest[d].last /\ journal[d][s] <= m
      BY <1>1, <1>2, <2>1 DEF TouchedEarly
    <2>2. CASE Early(p, d, m) # manifest[d].win[m]
      BY <1>1, <1>2, <2>2 DEF TouchedEarly
    <2> QED
      BY <1>4, <2>1, <2>2 DEF TouchedEarly
  <1> QED
    BY <1>3, <1>4

LEMMA AppendSave ==
    ASSUME SaveInv, NEW d0 \in Datasets, NEW m0 \in Months, AppendRecord(d0, m0)
    PROVE  /\ ManifestInv' /\ (\A p \in Procs : LoadedInv(p)')
           /\ \A p \in Compilers : CompileInv(p)'
  <1>0. /\ Base /\ MarkInv /\ TypeInv /\ \A p \in Compilers : p \in Procs
        /\ ManifestInv /\ (\A p \in Procs : LoadedInv(p)) /\ \A p \in Compilers : CompileInv(p)
    BY DEF SaveInv, Work, Base, Procs
  <1>1. UNCHANGED <<schema, drifted, snapshot, manifest, run, mark>>
    BY <1>0, AppendGrows
  <1>2. ASSUME NEW d \in Datasets
        PROVE  /\ Len(journal[d]) <= Len(journal'[d]) /\ Len(journal[d]) \in Nat /\ Len(journal'[d]) \in Nat
               /\ journal[d] # <<>> => journal'[d] # <<>>
               /\ \A m : Recorded(d, m) \subseteq Recorded(d, m)'
               /\ \A p \in Procs, m \in Months : Early(p, d, m)' = Early(p, d, m)
    BY <1>0, AppendGrows
  <1>3. ManifestInv'
    <2> SUFFICES ASSUME manifest # Corrupt, NEW d \in Datasets, manifest[d] # None
                 PROVE  /\ manifest[d].last <= Len(journal'[d]) /\ journal'[d] # <<>>
                        /\ \A m \in Months : manifest[d].win[m] # None =>
                             /\ manifest[d].win[m] \subseteq Recorded(d, m)'
                             /\ \/ Intact(manifest[d], d, m)'
                                \/ Touched(manifest[d], d, m)'
                                \/ Refilling(d, m)'
      BY <1>1 DEF ManifestInv
    <2>1. /\ manifest[d].last <= Len(journal[d]) /\ journal[d] # <<>>
          /\ \A m \in Months : manifest[d].win[m] # None =>
               /\ manifest[d].win[m] \subseteq Recorded(d, m)
               /\ \/ Intact(manifest[d], d, m) \/ Touched(manifest[d], d, m) \/ Refilling(d, m)
      BY <1>0 DEF ManifestInv
    <2>2. manifest[d].last \in Nat
      BY <1>0, EntryFields DEF TypeInv
    <2>3. \A m \in Months : Intact(manifest[d], d, m) => Intact(manifest[d], d, m)'
      BY <1>1 DEF Intact
    <2>4. \A m \in Months : Refilling(d, m) => Refilling(d, m)'
      BY <1>1 DEF Refilling
    <2> QED
      BY <1>0, <1>2, <2>1, <2>2, <2>3, <2>4, AppendTouched
  <1>4. \A p \in Procs : LoadedInv(p)'
    BY <1>0, <1>1 DEF LoadedInv
  <1>5. ASSUME NEW p \in Compilers
        PROVE  CompileInv(p)'
    <2>1. CASE run[p].pc = "idle"
      BY <1>1, <2>1 DEF CompileInv
    <2>2. CASE run[p].pc # "idle"
      <3>1. p \in Procs /\ CompileInv(p) /\ Shape(p)
        BY <1>0 DEF Base
      <3>2. \A d \in Datasets : FreshEntry(p, d) => FreshEntry(p, d)'
        <4> SUFFICES ASSUME NEW d \in Datasets, FreshEntry(p, d), run[p].man[d] # None
                     PROVE  /\ run[p].man[d].last <= Len(journal'[d]) /\ journal'[d] # <<>>
                            /\ \A m \in Months : run[p].man[d].win[m] # None =>
                                 /\ Intact(run[p].man[d], d, m)'
                                 /\ Early(p, d, m)' \subseteq run[p].man[d].win[m]
                                 /\ run[p].man[d].win[m] \subseteq Recorded(d, m)'
          BY <1>1 DEF FreshEntry
        <4>1. run[p].man[d].last \in Nat
          BY <1>0, <3>1, RunFields, EntryFields
        <4>2. \A m \in Months : Intact(run[p].man[d], d, m) => Intact(run[p].man[d], d, m)'
          BY <1>1 DEF Intact
        <4> QED
          BY <1>2, <3>1, <4>1, <4>2 DEF FreshEntry
      <3>3. run[p].pc \in Planned => PlanInv(p)'
        <4> SUFFICES ASSUME run[p].pc \in Planned PROVE PlanInv(p)'
          OBVIOUS
        <4> DEFINE d == run[p].cur
        <4>1. d \in Datasets /\ PlanInv(p) /\ run[p].man[d] = manifest[d] /\ run[p].cur \in Nat
          <5>1. d \in Datasets /\ run[p].cur \in Nat /\ d >= run[p].cur
            BY <1>0, <3>1, RunFields DEF Shape
          <5> QED
            BY <2>2, <3>1, <5>1 DEF CompileInv
        <4>2. run[p].last \in Nat /\ run[p].windows \subseteq Months /\ run[p].kept \subseteq Months
          BY <1>0, <3>1, RunFields, Constants
        <4>3. \A m \in Months : Intact(run[p].man[d], d, m) => Intact(run[p].man[d], d, m)'
          BY <1>1 DEF Intact
        <4>4. \A m \in Months : Early(p, d, m)' = Early(p, d, m)
          BY <1>1, <4>1, <1>2, <3>1 DEF Early, Recorded
        <4>5. \A m \in Months : (/\ manifest[d] # None /\ manifest[d].win[m] # None
                                 /\ Touched(manifest[d], d, m)) => Touched(manifest[d], d, m)'
          <5> SUFFICES ASSUME NEW m \in Months, NEW c \in Datasets, c = d, manifest[c] # None,
                              manifest[c].win[m] # None, Touched(manifest[c], c, m)
                       PROVE  Touched(manifest[c], c, m)'
            BY <1>1, <4>1 DEF Touched, Recorded
          <5>1. manifest # Corrupt
            BY <1>0, <2>2, <3>1 DEF LoadedInv, Planned
          <5>2. manifest[c].win[m] \subseteq Recorded(c, m)
            BY <1>0, <5>1 DEF ManifestInv
          <5> QED
            BY <1>0, <5>2, AppendTouched
        <4>6. run[p].last <= Len(journal'[d])
          BY <1>2, <4>1, <4>2 DEF PlanInv
        <4> QED
          BY <1>1, <4>1, <4>2, <4>3, <4>4, <4>5, <4>6 DEF PlanInv
      <3>4. \A d \in Datasets : Found(p, d) => Found(p, d)'
        <4>1. \A d \in Datasets, m \in Months : Intact(manifest[d], d, m) => Intact(manifest[d], d, m)'
          BY <1>1 DEF Intact
        <4> QED
          BY <1>0, <1>1, <3>1, <4>1, AppendTouched DEF Found
      <3>5. run[p].pc \in Planned \cup {"list", "scan"} => journal'[run[p].cur] # <<>>
        BY <1>2, <2>2, <3>1 DEF CompileInv, Shape
      <3> QED
        BY <1>1, <2>2, <3>1, <3>2, <3>3, <3>4, <3>5 DEF CompileInv
    <2> QED
      BY <2>1, <2>2
  <1> QED
    BY <1>3, <1>4, <1>5

(* _unchanged_windows keeps a window exactly when that is right: what it   *)
(* keeps is on disk as cited and complete, and what it does not keep has   *)
(* been touched.  The scan has seen every early record, so a window that   *)
(* was touched before the compile began fails the order test or, when the  *)
(* record is numbered below the entry, the count.                          *)
LEMMA PlanKeeps ==
    ASSUME SaveInv, NEW p \in Compilers, run[p].pc = "scan", run[p].unread = {}
    PROVE  LET d    == run[p].cur
               e    == manifest[d]
               keep == Unchanged(d, run[p].reg[d], run[p].man[d], run[p].recs, run[p].windows)
           IN  /\ d \in Datasets /\ run[p].man[d] = e
               /\ LastSeq(run[p].recs) <= Len(journal[d])
               /\ \A m \in keep : /\ e.ver = run[p].reg[d] /\ e.win[m] # None
                                  /\ Intact(e, d, m) /\ Early(p, d, m) \subseteq e.win[m]
               /\ \A m \in run[p].windows \ keep :
                    (e # None /\ e.ver = run[p].reg[d] /\ e.win[m] # None) => Touched(e, d, m)
  <1> DEFINE d    == run[p].cur
             e    == manifest[d]
             recs == run[p].recs
             keep == Unchanged(d, run[p].reg[d], run[p].man[d], recs, run[p].windows)
  <1>0. /\ p \in Procs /\ TypeInv /\ MarkInv /\ ReadInv(p) /\ Shape(p)
        /\ ManifestInv /\ LoadedInv(p) /\ CompileInv(p)
    BY DEF SaveInv, Work, Base, Procs
  <1>1. d \in Datasets /\ d \in Nat /\ run[p].windows \subseteq Months /\ recs \in Contents
    BY <1>0, RunFields DEF Shape
  <1>2. run[p].man[d] = e
    <2>1. d >= run[p].cur
      BY <1>1
    <2> QED
      BY <1>0, <1>1, <2>1 DEF CompileInv
  <1>3. /\ DOMAIN journal[d] = 1..Len(journal[d]) /\ Len(journal[d]) \in Nat
        /\ recs \subseteq DOMAIN journal[d] /\ mark[p][d] \in Nat /\ mark[p][d] <= Len(journal[d])
        /\ \A s \in DOMAIN journal[d] : journal[d][s] \in Months
    BY <1>0, <1>1, JournalFacts DEF ReadInv, TypeInv, MarkInv
  <1>4. \A m \in Months : Early(p, d, m) \subseteq OfMonth(d, recs, m)
    <2>1. \A m \in Months : Early(p, d, m) \subseteq recs
      BY <1>0 DEF ReadInv
    <2> QED
      BY <2>1 DEF Early, Recorded, OfMonth
  <1>5. \A s \in DOMAIN journal[d] : s <= mark[p][d] => s \in recs
    <2> SUFFICES ASSUME NEW s \in DOMAIN journal[d], s <= mark[p][d]
                 PROVE  s \in recs
      OBVIOUS
    <2>1. s \in Early(p, d, journal[d][s])
      BY DEF Early, Recorded
    <2> QED
      BY <1>3, <1>4, <2>1 DEF OfMonth
  <1>6. /\ LastSeq(recs) \in Nat /\ LastSeq(recs) <= Len(journal[d])
        /\ \A s \in recs : s <= LastSeq(recs)
    BY <1>1, <1>3, LastSeqIsHighest
  <1>7. manifest # Corrupt /\ manifest \in Manifest
    BY <1>0 DEF LoadedInv, TypeInv
  <1>8. ASSUME e # None
        PROVE  e.ver \in Versions /\ e.last \in Nat /\ e.last <= LastSeq(recs)
    <2>1. e.ver \in Versions /\ e.last \in Nat
      BY <1>1, <1>7, <1>8, EntryFields
    <2>2. e.last <= mark[p][d]
      BY <1>0, <1>1, <1>8 DEF LoadedInv
    <2>3. e.last = 0 \/ e.last \in DOMAIN journal[d]
      BY <1>3, <2>1, <2>2
    <2>4. e.last = 0 \/ e.last \in recs
      BY <1>5, <2>2, <2>3
    <2> QED
      BY <1>6, <2>1, <2>4
  <1>9. ASSUME e # None, NEW m \in Months, e.win[m] # None
        PROVE  /\ e.win[m] \subseteq Early(p, d, m) /\ e.win[m] \subseteq OfMonth(d, recs, m)
               /\ OfMonth(d, recs, m) \subseteq Recorded(d, m)
               /\ Intact(e, d, m) \/ TouchedEarly(p, e, d, m)
               /\ TouchedEarly(p, e, d, m) => Touched(e, d, m)
    <2>1. e.win[m] \subseteq Recorded(d, m)
      BY <1>0, <1>1, <1>7, <1>9 DEF ManifestInv
    <2>2. \A s \in e.win[m] : s <= mark[p][d]
      BY <1>0, <1>1, <1>9 DEF LoadedInv
    <2>3. e.win[m] \subseteq Early(p, d, m)
      BY <2>1, <2>2 DEF Early
    <2>4. e.win[m] \subseteq OfMonth(d, recs, m) /\ OfMonth(d, recs, m) \subseteq Recorded(d, m)
      BY <1>3, <1>4, <2>3 DEF OfMonth, Recorded
    <2>5. Intact(e, d, m) \/ TouchedEarly(p, e, d, m)
      BY <1>0, <1>1, <1>9 DEF CompileInv, Found, Planned
    <2>6. TouchedEarly(p, e, d, m) => Touched(e, d, m)
      <3>1. Early(p, d, m) \subseteq Recorded(d, m)
        BY DEF Early
      <3>2. Early(p, d, m) # e.win[m] => Recorded(d, m) # e.win[m]
        BY <2>3, <3>1
      <3> QED
        BY <3>2 DEF TouchedEarly, Touched
    <2> QED
      BY <2>3, <2>4, <2>5, <2>6
  <1>10. ASSUME NEW m \in Months
         PROVE  /\ m \in keep <=>
                     /\ m \in run[p].windows /\ e # None /\ e.ver = run[p].reg[d]
                     /\ e.win[m] # None
                     /\ \A s \in recs : s > e.last => m < journal[d][s]
                     /\ Cardinality(OfMonth(d, recs, m)) = Cardinality(e.win[m])
                     /\ snapshot[d][e.ver][m] # None
    <2>1. e # None => ~(LastSeq(recs) < e.last)
      BY <1>6, <1>8
    <2>2. CASE e = None \/ e.ver # run[p].reg[d]
      BY <1>2, <2>2 DEF Unchanged
    <2>3. CASE e # None /\ e.ver = run[p].reg[d]
      <3>1. keep = {n \in run[p].windows :
                      /\ e.win[n] # None
                      /\ \A c \in {journal[d][s] : s \in {r \in recs : r > e.last}} : n < c
                      /\ Cardinality(OfMonth(d, recs, n)) = Cardinality(e.win[n])
                      /\ snapshot[d][e.ver][n] # None}
        BY <1>2, <2>1, <2>3 DEF Unchanged
      <3>2. (\A c \in {journal[d][s] : s \in {r \in recs : r > e.last}} : m < c)
              <=> \A s \in recs : s > e.last => m < journal[d][s]
        OBVIOUS
      <3> HIDE DEF keep, e, recs, d
      <3> QED
        BY <2>3, <3>1, <3>2
    <2> QED
      BY <2>2, <2>3
  <1> HIDE DEF keep
  <1>11. ASSUME NEW m \in keep
         PROVE  /\ e.ver = run[p].reg[d] /\ e.win[m] # None
                /\ Intact(e, d, m) /\ Early(p, d, m) \subseteq e.win[m]
    <2>1. keep \subseteq run[p].windows
      BY DEF keep, Unchanged
    <2>2. m \in Months /\ m \in Nat
      BY <1>1, <2>1, Constants
    <2>3. /\ e # None /\ e.ver = run[p].reg[d] /\ e.win[m] # None
          /\ \A s \in recs : s > e.last => m < journal[d][s]
          /\ Cardinality(OfMonth(d, recs, m)) = Cardinality(e.win[m])
      BY <1>10, <2>2
    <2>4. OfMonth(d, recs, m) = e.win[m]
      <3>1. OfMonth(d, recs, m) \subseteq 1..MaxSeq
        BY <1>1 DEF OfMonth, Contents
      <3>2. IsFiniteSet(1..MaxSeq)
        BY FS_Interval, Constants
      <3>3. IsFiniteSet(OfMonth(d, recs, m))
        BY <3>1, <3>2, FS_Subset
      <3>4. e.win[m] \in SUBSET OfMonth(d, recs, m)
        BY <1>9, <2>2, <2>3
      <3> QED
        BY <2>3, <3>3, <3>4, FS_Subset
    <2>5. Early(p, d, m) = e.win[m]
      BY <1>4, <1>9, <2>2, <2>3, <2>4
    <2>6. ~TouchedEarly(p, e, d, m)
      <3>1. ASSUME NEW s \in DOMAIN journal[d], s <= mark[p][d], s > e.last, journal[d][s] <= m
            PROVE  FALSE
        <4>1. s \in recs /\ journal[d][s] \in Nat
          BY <1>3, <1>5, <3>1, Constants
        <4>2. m < journal[d][s]
          BY <2>3, <3>1, <4>1
        <4> QED
          BY <2>2, <3>1, <4>1, <4>2
      <3> QED
        BY <2>5, <3>1 DEF TouchedEarly
    <2> QED
      BY <1>9, <2>2, <2>3, <2>5, <2>6
  <1>12. ASSUME NEW m \in run[p].windows \ keep, e # None, e.ver = run[p].reg[d], e.win[m] # None
         PROVE  Touched(e, d, m)
    <2>1. m \in Months /\ m \in Nat
      BY <1>1, Constants
    <2>2. \/ \E s \in recs : s > e.last /\ ~(m < journal[d][s])
          \/ OfMonth(d, recs, m) # e.win[m]
          \/ snapshot[d][e.ver][m] = None
      BY <1>10, <1>12, <2>1
    <2>3. CASE \E s \in recs : s > e.last /\ ~(m < journal[d][s])
      <3>1. PICK s \in recs : s > e.last /\ ~(m < journal[d][s])
        BY <2>3
      <3>2. s \in DOMAIN journal[d] /\ journal[d][s] \in Nat
        BY <1>3, Constants
      <3> QED
        BY <2>1, <3>1, <3>2 DEF Touched
    <2>4. CASE OfMonth(d, recs, m) # e.win[m]
      BY <1>9, <1>12, <2>1, <2>4 DEF Touched
    <2>5. CASE snapshot[d][e.ver][m] = None
      BY <1>9, <1>12, <2>1, <2>5 DEF Intact
    <2> QED
      BY <2>2, <2>3, <2>4, <2>5
  <1> QED
    BY <1>1, <1>2, <1>6, <1>11, <1>12 DEF keep

(* Each step leaves every file that the manifest cites intact, touched, or *)
(* in the hands of a verify that goes on to fill it.                       *)
LEMMA StepManifest ==
    ASSUME Durable, SaveInv, NEW p \in Procs, Step(p) \/ Crash(p)
    PROVE  ManifestInv'
  <1> DEFINE c == run[p].cur
             v == run[p].reg[c]
             w == Min(run[p].todo)
  <1>0. /\ TypeInv /\ Alone /\ MarkInv /\ ReadInv(p) /\ Shape(p) /\ ManifestInv /\ LoadedInv(p)
        /\ p \in Compilers => CompileInv(p)
    BY DEF SaveInv, Work, Base
  <1>1. journal' = journal
    BY StepFrame
  <1>2. \A q \in Procs : q # p => run[q].pc = "idle"
    BY <1>0, OthersIdle DEF Durable
  <1>3. ASSUME NEW d \in Datasets, NEW m \in Months, Refilling(d, m)
        PROVE  FillWindow(p) /\ c = d /\ v = manifest[d].ver /\ m = w
    <2>1. PICK q \in Verifiers : /\ run[q].pc = "fill" /\ run[q].cur = d
                                 /\ run[q].reg[d] = manifest[d].ver /\ m = Min(run[q].todo)
      BY <1>3 DEF Refilling
    <2>2. q = p
      BY <1>2, <2>1 DEF Procs
    <2>3. ~Crash(p)
      BY <2>1, <2>2 DEF Durable, Crash
    <2>4. FillWindow(p)
      BY <2>1, <2>2, <2>3 DEF Step, LoadManifest, Discover, ListFiles, ReadMonth, Plan, VerifyDerived,
             OpenWindow, RecordEntry, BeginSave, EndSave, CheckFiles, Compare, FinishVerify
    <2> QED
      BY <2>1, <2>2, <2>4
  <1>4. CASE BeginSave(p)
    BY <1>4 DEF BeginSave, ManifestInv
  <1>5. CASE EndSave(p)
    <2>1. manifest' = run[p].man /\ snapshot' = snapshot /\ run[p].pc = "save"
      BY <1>5 DEF EndSave
    <2>2. p \in Compilers /\ c > Count /\ c \in Nat
      BY <1>0, <2>1, RunFields DEF Shape, CompileInv
    <2>3. \A d \in Datasets : d < c
      BY <2>2, Constants DEF Datasets
    <2>4. \A d \in Datasets : FreshEntry(p, d)
      BY <1>0, <2>1, <2>2, <2>3 DEF CompileInv
    <2>5. ASSUME NEW d \in Datasets, manifest'[d] # None
          PROVE  /\ manifest'[d].last <= Len(journal'[d]) /\ journal'[d] # <<>>
                 /\ \A m \in Months : manifest'[d].win[m] # None =>
                      manifest'[d].win[m] \subseteq Recorded(d, m)' /\ Intact(manifest[d], d, m)'
      BY <1>1, <2>1, <2>4, <2>5 DEF FreshEntry, Intact, Recorded
    <2> QED
      BY <2>5 DEF ManifestInv
  <1>6. CASE manifest' = manifest
    <2> SUFFICES ASSUME manifest # Corrupt, NEW d \in Datasets, manifest[d] # None,
                        NEW m \in Months, manifest[d].win[m] # None
                 PROVE  Intact(manifest[d], d, m)' \/ Touched(manifest[d], d, m)' \/ Refilling(d, m)'
      BY <1>0, <1>1, <1>6 DEF ManifestInv, Recorded
    <2>1. /\ manifest[d].win[m] \subseteq Recorded(d, m)
          /\ Intact(manifest[d], d, m) \/ Touched(manifest[d], d, m) \/ Refilling(d, m)
      BY <1>0 DEF ManifestInv
    <2>2. Touched(manifest[d], d, m)' <=> Touched(manifest[d], d, m)
      BY <1>1, <1>6 DEF Touched, Recorded
    <2>3. manifest[d].ver \in Versions
      BY <1>0, EntryFields DEF TypeInv
    <2>4. CASE snapshot' = snapshot /\ ~FillWindow(p)
      <3>1. Intact(manifest[d], d, m)' <=> Intact(manifest[d], d, m)
        BY <1>6, <2>4 DEF Intact
      <3> QED
        BY <1>3, <2>1, <2>2, <2>4, <3>1
    <2>5. CASE OpenWindow(p) \/ FillWindow(p)
      <3>1. /\ c \in Datasets /\ v \in Versions /\ w \in Months /\ w \in run[p].todo
            /\ (d # c \/ manifest[d].ver # v \/ m # w) =>
                 snapshot'[d][manifest[d].ver][m] = snapshot[d][manifest[d].ver][m]
        BY <1>0, <2>3, <2>5, WriteFile
      <3>2. CASE d # c \/ manifest[d].ver # v \/ m # w
        <4>1. Intact(manifest[d], d, m)' <=> Intact(manifest[d], d, m)
          BY <1>6, <3>1, <3>2 DEF Intact
        <4> QED
          BY <1>3, <2>1, <2>2, <3>2, <4>1
      <3>3. CASE d = c /\ manifest[d].ver = v /\ m = w
        <4>1. run[p].pc \in {"write", "fill"} /\ w \in run[p].windows \ run[p].kept
          BY <1>0, <2>5, <3>1 DEF Shape, OpenWindow, FillWindow
        <4>2. CASE p \in Compilers
          <5>1. PlanInv(p)
            BY <1>0, <4>1, <4>2 DEF CompileInv, Planned
          <5>2. Touched(manifest[d], d, m)
            BY <3>3, <4>1, <5>1 DEF PlanInv
          <5> QED
            BY <2>2, <5>2
        <4>3. CASE p \in Verifiers /\ OpenWindow(p)
          <5>1. GoesOn(p) /\ run'[p].pc = "fill" /\ run'[p].todo = run[p].todo
            BY <1>0, <4>3, OpenWindowRun
          <5>2. /\ run'[p].pc = "fill" /\ run'[p].cur = d /\ run'[p].reg[d] = manifest'[d].ver
                /\ m = Min(run'[p].todo)
            BY <1>6, <3>3, <5>1 DEF GoesOn
          <5> QED
            BY <4>3, <5>2 DEF Refilling
        <4>4. CASE p \in Verifiers /\ FillWindow(p)
          <5> DEFINE recs == run[p].recs
          <5>1. run[p].pc = "fill" /\ run[p].unread = {} /\ snapshot[c][v][w] = Torn
            BY <1>0, <4>4 DEF Shape, ReadInv, FillWindow
          <5>2. snapshot'[c][v][w] = OfMonth(c, recs, w)
            BY <1>0, <4>4, <5>1, WriteFile
          <5>3. recs \subseteq DOMAIN journal[c] /\ Early(p, c, w) \subseteq recs
            BY <1>0, <4>1, <5>1 DEF ReadInv
          <5>4. OfMonth(c, recs, w) \subseteq Recorded(c, w) /\ Early(p, c, w) \subseteq OfMonth(c, recs, w)
            BY <5>3 DEF OfMonth, Recorded, Early
          <5>5. manifest[d].win[m] \subseteq Early(p, c, w)
            <6>1. \A s \in manifest[d].win[m] : s <= mark[p][d]
              BY <1>0, <5>1 DEF LoadedInv
            <6> QED
              BY <2>1, <3>3, <6>1 DEF Early
          <5>6. snapshot'[d][manifest[d].ver][m] = manifest[d].win[m] \/ Recorded(d, m) # manifest[d].win[m]
            <6>1. Recorded(c, w) = manifest[d].win[m] => OfMonth(c, recs, w) = manifest[d].win[m]
              BY <5>4, <5>5
            <6>2. Recorded(d, m) = Recorded(c, w)
              BY <3>3
            <6>3. snapshot'[d][manifest[d].ver][m] = OfMonth(c, recs, w)
              BY <3>3, <5>2
            <6> QED
              BY <6>1, <6>2, <6>3
          <5> QED
            BY <1>6, <2>2, <5>6 DEF Intact, Touched
        <4> QED
          BY <2>5, <4>2, <4>3, <4>4 DEF Procs
      <3> QED
        BY <3>2, <3>3
    <2> QED
      BY <2>4, <2>5, StepFrame
  <1> QED
    BY <1>4, <1>5, <1>6, StepFrame

LEMMA StepLoaded ==
    ASSUME Durable, SaveInv, NEW p \in Procs, Step(p) \/ Crash(p)
    PROVE  LoadedInv(p)'
  <1>0. /\ TypeInv /\ Base /\ LoadedInv(p) /\ Shape(p) /\ ManifestInv
    BY DEF SaveInv, Work, Base
  <1>1. CASE LoadManifest(p)
    <2>1. /\ manifest' = manifest /\ manifest # Corrupt
          /\ mark'[p] = [d \in Datasets |-> Len(journal[d])]
      BY <1>0, <1>1 DEF LoadManifest, TypeInv
    <2>2. ASSUME NEW d \in Datasets, manifest[d] # None
          PROVE  /\ manifest[d].last <= mark'[p][d]
                 /\ \A m \in Months : manifest[d].win[m] # None =>
                      \A s \in manifest[d].win[m] : s <= mark'[p][d]
      <3>1. DOMAIN journal[d] = 1..Len(journal[d]) /\ Len(journal[d]) \in Nat
        BY <1>0, JournalFacts
      <3>2. \A m \in Months : \A s \in Recorded(d, m) : s <= Len(journal[d])
        BY <3>1 DEF Recorded
      <3> QED
        BY <1>0, <2>1, <2>2, <3>2 DEF ManifestInv
    <2> QED
      BY <2>1, <2>2 DEF LoadedInv
  <1>2. CASE BeginSave(p)
    BY <1>0, <1>2, BeginSaveRun DEF LoadedInv
  <1>3. CASE EndSave(p)
    BY <1>0, <1>3, EndRun, IdleFields DEF LoadedInv
  <1>4. CASE manifest' = manifest /\ mark' = mark /\ run[p].pc \notin {"idle", "save"}
    BY <1>0, <1>4 DEF LoadedInv
  <1>5. CASE run[p].pc = "save" /\ ~EndSave(p)
    <2>1. Crash(p)
      BY <1>5 DEF Step, LoadManifest, Discover, ListFiles, ReadMonth, Plan, VerifyDerived, OpenWindow,
             FillWindow, RecordEntry, BeginSave, CheckFiles, Compare, FinishVerify
    <2> QED
      BY <1>0, <2>1, EndRun, IdleFields DEF LoadedInv
  <1> QED
    BY <1>1, <1>2, <1>3, <1>4, <1>5, StepFrame

LEMMA StepCompile ==
    ASSUME Durable, SaveInv, NEW p \in Compilers, Step(p) \/ Crash(p)
    PROVE  CompileInv(p)'
  <1> DEFINE c == run[p].cur
  <1>0. /\ p \in Procs /\ TypeInv /\ Alone /\ MarkInv /\ ReadInv(p) /\ Shape(p)
        /\ ManifestInv /\ LoadedInv(p) /\ CompileInv(p)
    BY DEF SaveInv, Work, Base, Procs
  <1>1. journal' = journal
    BY <1>0, StepFrame
  <1>2. c \in Nat /\ \A d \in Datasets : d \in Nat
    BY <1>0, RunFields, Constants
  <1>3. CASE run'[p].pc = "idle"
    BY <1>3 DEF CompileInv
  <1>4. CASE LoadManifest(p)
    <2>1. /\ manifest' = manifest /\ manifest # Corrupt /\ snapshot' = snapshot
          /\ mark'[p] = [d \in Datasets |-> Len(journal[d])]
          /\ \A q \in Procs : run[q].pc = "idle"
      BY <1>0, <1>4 DEF LoadManifest, TypeInv, Durable
    <2>2. run'[p].pc = "dataset" /\ run'[p].man = manifest /\ run'[p].cur = 1
      BY <1>0, <1>4, LoadManifestRun
    <2>3. ASSUME NEW d \in Datasets
          PROVE  Found(p, d)'
      <3> SUFFICES ASSUME manifest[d] # None, NEW m \in Months, manifest[d].win[m] # None
                   PROVE  Intact(manifest[d], d, m)' \/ TouchedEarly(p, manifest[d], d, m)'
        BY <2>1 DEF Found
      <3>1. DOMAIN journal[d] = 1..Len(journal[d]) /\ Len(journal[d]) \in Nat
        BY <1>0, JournalFacts
      <3>2. \A s \in DOMAIN journal[d] : s <= mark'[p][d]
        BY <2>1, <3>1
      <3>3. Early(p, d, m)' = Recorded(d, m)
        BY <1>1, <3>2 DEF Early, Recorded
      <3>4. ~Refilling(d, m)
        BY <2>1 DEF Refilling, Procs
      <3>5. Intact(manifest[d], d, m) \/ Touched(manifest[d], d, m)
        BY <1>0, <2>1, <3>4 DEF ManifestInv
      <3>6. Intact(manifest[d], d, m) => Intact(manifest[d], d, m)'
        BY <2>1 DEF Intact
      <3>7. Touched(manifest[d], d, m) => TouchedEarly(p, manifest[d], d, m)'
        BY <1>1, <2>1, <3>2, <3>3 DEF Touched, TouchedEarly
      <3> QED
        BY <3>5, <3>6, <3>7
    <2>4. \A d \in Datasets : ~(d < 1)
      BY Constants DEF Datasets
    <2> QED
      BY <2>1, <2>2, <2>3, <2>4 DEF CompileInv, Planned
  <1>5. CASE run'[p].pc # "idle" /\ ~LoadManifest(p)
    <2>1. /\ mark' = mark /\ run[p].pc # "idle"
          /\ BeginSave(p) \/ EndSave(p) \/ manifest' = manifest
          /\ OpenWindow(p) \/ FillWindow(p) \/ snapshot' = snapshot
      BY <1>0, <1>5, StepFrame
    <2>2. ~EndSave(p) /\ ~FinishVerify(p) /\ ~Crash(p)
      BY <1>0, <1>5, EndRun, IdleFields
    <2>3. ~CheckFiles(p) /\ ~Compare(p)
      BY CompilerAssumption DEF CheckFiles, Compare
    <2>4. /\ run[p].pc = "save" => c > Count
          /\ run[p].pc \in Planned \cup {"list", "scan"} => journal[c] # <<>>
          /\ \A d \in Datasets : d >= c => run[p].man[d] = manifest[d]
          /\ \A d \in Datasets : d < c => FreshEntry(p, d)
          /\ run[p].pc \in Planned => PlanInv(p)
          /\ \A d \in Datasets : (d > c \/ (d = c /\ run[p].pc \notin Planned)) => Found(p, d)
      BY <1>0, <2>1 DEF CompileInv
    <2>5. \A d \in Datasets : \A m : Early(p, d, m)' = Early(p, d, m)
      BY <1>1, <2>1 DEF Early, Recorded
    <2>6. ASSUME NEW d \in Datasets, d # c, NEW u \in Versions, NEW m \in Months
          PROVE  snapshot'[d][u][m] = snapshot[d][u][m]
      BY <1>0, <2>1, <2>6, WriteFile
    <2>7. ASSUME NEW d \in Datasets, d < c, run'[p].man[d] = run[p].man[d]
          PROVE  FreshEntry(p, d)'
      <3>1. FreshEntry(p, d)
        BY <2>4, <2>7
      <3>2. ASSUME run[p].man[d] # None
            PROVE  \A m \in Months : Intact(run[p].man[d], d, m) =>
                     snapshot'[d][run[p].man[d].ver][m] = run[p].man[d].win[m]
        <4>1. run[p].man[d].ver \in Versions
          BY <1>0, <3>2, RunFields, EntryFields
        <4> QED
          BY <1>2, <2>6, <2>7, <4>1 DEF Intact
      <3> QED
        BY <1>1, <2>5, <2>7, <3>1, <3>2 DEF FreshEntry, Intact, Recorded
    <2>8. ASSUME manifest' = manifest, NEW d \in Datasets, d # c \/ snapshot' = snapshot, Found(p, d)
          PROVE  Found(p, d)'
      <3> SUFFICES ASSUME manifest[d] # None, NEW m \in Months, manifest[d].win[m] # None
                   PROVE  Intact(manifest[d], d, m)' \/ TouchedEarly(p, manifest[d], d, m)'
        BY <2>8 DEF Found
      <3>1. manifest[d].ver \in Versions
        <4>1. manifest # Corrupt => manifest[d].ver \in Versions
          BY <1>0, EntryFields DEF TypeInv
        <4>2. run[p].pc = "save" => FALSE
          BY <2>2, <1>5 DEF Step, LoadManifest, Discover, ListFiles, ReadMonth, Plan, VerifyDerived,
             OpenWindow, FillWindow, RecordEntry, BeginSave, CheckFiles, Compare
        <4> QED
          BY <1>0, <2>1, <4>1, <4>2 DEF LoadedInv
      <3>2. Intact(manifest[d], d, m) => Intact(manifest[d], d, m)'
        BY <2>6, <2>8, <3>1 DEF Intact
      <3>3. TouchedEarly(p, manifest[d], d, m) => TouchedEarly(p, manifest[d], d, m)'
        BY <1>1, <2>1, <2>5, <2>8 DEF TouchedEarly
      <3> QED
        BY <2>8, <3>2, <3>3 DEF Found
    <2>9. CASE BeginSave(p)
      <3>1. GoesOn(p) /\ run'[p].pc = "save" /\ c > Count
        BY <1>0, <2>9, BeginSaveRun
      <3>2. \A d \in Datasets : d < c
        BY <1>2, <3>1, Constants DEF Datasets
      <3>3. \A d \in Datasets : ~(d >= c) /\ ~(d > c) /\ d # c
        BY <1>2, <3>2
      <3> QED
        BY <2>7, <3>1, <3>2, <3>3 DEF CompileInv, GoesOn, Planned
    <2>10. CASE Discover(p)
      <3>1. manifest' = manifest /\ snapshot' = snapshot
        BY <2>10 DEF Discover
      <3>2. /\ run[p].pc = "dataset" /\ c \in Datasets /\ run'[p].man = run[p].man
            /\ \/ Turns(p) /\ journal[c] = <<>>
               \/ GoesOn(p) /\ run'[p].pc = "list" /\ journal[c] # <<>>
        BY <1>0, <2>10, DiscoverRun
      <3>3. CASE Turns(p) /\ journal[c] = <<>>
        <4>1. manifest # Corrupt
          BY <1>0, <3>2 DEF LoadedInv
        <4>2. manifest[c] = None /\ run[p].man[c] = manifest[c]
          BY <1>0, <1>2, <2>4, <3>2, <3>3, <4>1 DEF ManifestInv
        <4>3. \A d \in Datasets : d = c => FreshEntry(p, d)'
          BY <3>2, <4>2 DEF FreshEntry
        <4>4. \A d \in Datasets : /\ d < c + 1 => (d < c \/ d = c)
                                  /\ (d >= c + 1 \/ d > c + 1 \/ d = c + 1) => (d > c /\ d >= c)
          BY <1>2
        <4>5. \A d \in Datasets : d < c + 1 => FreshEntry(p, d)'
          BY <2>7, <3>2, <4>3, <4>4
        <4>6. \A d \in Datasets : d >= c + 1 => Found(p, d)' /\ run'[p].man[d] = manifest'[d]
          BY <2>4, <2>8, <3>1, <3>2, <4>4
        <4> QED
          BY <3>3, <4>4, <4>5, <4>6, <1>2 DEF CompileInv, Turns, Planned
      <3>4. CASE GoesOn(p) /\ run'[p].pc = "list" /\ journal[c] # <<>>
        BY <1>1, <2>4, <2>7, <2>8, <3>1, <3>2, <3>4 DEF CompileInv, GoesOn, Planned
      <3> QED
        BY <3>2, <3>3, <3>4
    <2>11. ASSUME GoesOn(p), manifest' = manifest, c \in Datasets,
                  run'[p].windows = run[p].windows, run'[p].kept = run[p].kept,
                  run'[p].last = run[p].last,
                  run[p].pc \in Planned \cup {"list", "scan"},
                  run'[p].pc \in Planned \cup {"list", "scan"},
                  run'[p].pc \in Planned <=> run[p].pc \in Planned,
                  run[p].pc \in Planned \/ snapshot' = snapshot,
                  \A m \in run[p].kept :
                     snapshot'[c][run[p].reg[c]][m] = snapshot[c][run[p].reg[c]][m]
           PROVE  CompileInv(p)'
      <3>1. run[p].pc \in Planned => PlanInv(p)'
        <4> SUFFICES ASSUME run[p].pc \in Planned PROVE PlanInv(p)'
          OBVIOUS
        <4>1. PlanInv(p)
          BY <2>4
        <4>2. ASSUME NEW m \in run[p].kept
              PROVE  Intact(run[p].man[c], c, m)'
          <5>1. run'[p].man[run'[p].cur] = run[p].man[c] /\ run'[p].cur = c
            BY <2>11 DEF GoesOn
          <5>2. run[p].man[c].ver = run[p].reg[c] /\ snapshot[c][run[p].man[c].ver][m] = run[p].man[c].win[m]
            BY <4>1 DEF PlanInv, Intact
          <5>3. snapshot'[c][run[p].reg[c]][m] = snapshot[c][run[p].reg[c]][m]
            BY <2>11
          <5>4. snapshot'[run'[p].cur][run'[p].man[run'[p].cur].ver][m] = run'[p].man[run'[p].cur].win[m]
            BY <5>1, <5>2, <5>3
          <5> QED
            BY <5>4 DEF Intact
        <4>3. \A m : Early(p, c, m)' = Early(p, c, m)
          BY <1>1, <2>1, <2>11 DEF Early, Recorded, GoesOn
        <4>4. \A m : Touched(manifest[c], c, m)' <=> Touched(manifest[c], c, m)
          BY <1>1, <2>11 DEF Touched, Recorded, GoesOn
        <4> QED
          BY <1>1, <2>11, <4>1, <4>2, <4>3, <4>4 DEF PlanInv, GoesOn
      <3>2. \A d \in Datasets : (d > c \/ (d = c /\ run[p].pc \notin Planned)) => Found(p, d)'
        BY <1>2, <2>4, <2>8, <2>11
      <3>3. \A d \in Datasets : d < c => FreshEntry(p, d)'
        BY <2>7, <2>11 DEF GoesOn
      <3>4. run'[p].pc # "save"
        BY <2>11 DEF Planned
      <3> QED
        BY <1>1, <2>4, <2>11, <3>1, <3>2, <3>3, <3>4 DEF CompileInv, GoesOn
    <2>12. run[p].pc \in Planned \cup {"list", "scan"} => c \in Datasets
      BY <1>0 DEF Shape
    <2>13. CASE ListFiles(p)
      <3>1. c \in Datasets /\ manifest' = manifest /\ snapshot' = snapshot
        BY <2>12, <2>13 DEF ListFiles, Planned
      <3>2. /\ GoesOn(p) /\ run[p].pc \in {"list", "relist"}
            /\ run'[p].pc = IF run[p].pc = "list" THEN "scan" ELSE "read"
            /\ run'[p].windows = run[p].windows /\ run'[p].kept = run[p].kept
            /\ run'[p].last = run[p].last
        BY <1>0, <2>13, <3>1, ListFilesRun
      <3>3. /\ run[p].pc \in Planned \cup {"list", "scan"} /\ run'[p].pc \in Planned \cup {"list", "scan"}
            /\ run'[p].pc \in Planned <=> run[p].pc \in Planned
        BY <3>2 DEF Planned
      <3> QED
        BY <2>11, <3>1, <3>2, <3>3
    <2>14. CASE ReadMonth(p)
      <3>1. c \in Datasets /\ manifest' = manifest /\ snapshot' = snapshot
        BY <2>12, <2>14 DEF ReadMonth, Planned
      <3>2. /\ GoesOn(p) /\ run[p].pc \in {"scan", "read"} /\ run'[p].pc = run[p].pc
            /\ run'[p].windows = run[p].windows /\ run'[p].kept = run[p].kept
            /\ run'[p].last = run[p].last
        BY <1>0, <2>14, <3>1, ReadMonthRun
      <3>3. /\ run[p].pc \in Planned \cup {"list", "scan"} /\ run'[p].pc \in Planned \cup {"list", "scan"}
            /\ run'[p].pc \in Planned <=> run[p].pc \in Planned
        BY <3>2 DEF Planned
      <3> QED
        BY <2>11, <3>1, <3>2, <3>3
    <2>15. CASE VerifyDerived(p)
      <3>1. c \in Datasets /\ manifest' = manifest /\ snapshot' = snapshot
        BY <2>12, <2>15 DEF VerifyDerived, Planned
      <3>2. /\ GoesOn(p) /\ run[p].pc = "read" /\ run'[p].pc = "write"
            /\ run'[p].windows = run[p].windows /\ run'[p].kept = run[p].kept
            /\ run'[p].last = run[p].last
        BY <1>0, <1>5, <2>15, <3>1, VerifyDerivedRun, IdleFields
      <3> QED
        BY <2>11, <3>1, <3>2 DEF Planned
    <2>16. CASE OpenWindow(p) \/ FillWindow(p)
      <3> DEFINE v == run[p].reg[c]
                 w == Min(run[p].todo)
      <3>1. /\ c \in Datasets /\ v \in Versions /\ w \in run[p].todo
            /\ \A m \in Months : m # w => snapshot'[c][v][m] = snapshot[c][v][m]
        BY <1>0, <2>16, WriteFile
      <3>2. w \notin run[p].kept /\ run[p].kept \subseteq Months
        BY <1>0, <3>1, RunFields DEF Shape
      <3>3. manifest' = manifest /\ run[p].pc \in Planned
        BY <2>16 DEF OpenWindow, FillWindow, Planned
      <3>4. /\ GoesOn(p) /\ run'[p].pc \in Planned
            /\ run'[p].windows = run[p].windows /\ run'[p].kept = run[p].kept
            /\ run'[p].last = run[p].last
        BY <1>0, <2>16, OpenWindowRun, FillWindowRun DEF Planned
      <3>5. \A m \in run[p].kept : snapshot'[c][v][m] = snapshot[c][v][m]
        BY <3>1, <3>2
      <3> QED
        BY <2>11, <3>1, <3>3, <3>4, <3>5
    <2>17. CASE Plan(p)
      <3> DEFINE keep == Unchanged(c, run[p].reg[c], run[p].man[c], run[p].recs, run[p].windows)
      <3>1. run[p].pc = "scan" /\ run[p].unread = {} /\ manifest' = manifest /\ snapshot' = snapshot
        BY <2>17 DEF Plan
      <3> HIDE DEF keep
      <3>2. /\ c \in Datasets /\ run[p].man[c] = manifest[c]
            /\ LastSeq(run[p].recs) <= Len(journal[c])
            /\ \A m \in keep : /\ manifest[c].ver = run[p].reg[c] /\ manifest[c].win[m] # None
                               /\ Intact(manifest[c], c, m)
                               /\ Early(p, c, m) \subseteq manifest[c].win[m]
            /\ \A m \in run[p].windows \ keep :
                 (manifest[c] # None /\ manifest[c].ver = run[p].reg[c] /\ manifest[c].win[m] # None) =>
                     Touched(manifest[c], c, m)
        BY <3>1, PlanKeeps DEF keep
      <3>3. /\ GoesOn(p) /\ run'[p].pc \in {"entry", "relist"}
            /\ run'[p].windows = run[p].windows /\ run'[p].kept = keep
            /\ run'[p].last = LastSeq(run[p].recs)
        BY <1>0, <2>17, <3>2, PlanRun DEF keep
      <3>4. \A m : /\ Early(p, c, m)' = Early(p, c, m)
                   /\ Intact(manifest[c], c, m)' <=> Intact(manifest[c], c, m)
                   /\ Touched(manifest[c], c, m)' <=> Touched(manifest[c], c, m)
        BY <1>1, <2>1, <3>1, <3>3 DEF Early, Recorded, Intact, Touched, GoesOn
      <3>5. run'[p].man[c] = manifest[c] /\ run'[p].cur = c /\ run'[p].reg = run[p].reg
        BY <3>2, <3>3 DEF GoesOn
      <3>6. PlanInv(p)'
        <4>1. run'[p].last <= Len(journal'[run'[p].cur])
          BY <1>1, <3>2, <3>3, <3>5
        <4>2. \A m \in run'[p].kept :
                 /\ run'[p].man[run'[p].cur].ver = run'[p].reg[run'[p].cur]
                 /\ run'[p].man[run'[p].cur].win[m] # None
                 /\ Intact(run[p].man[run[p].cur], run[p].cur, m)'
                 /\ Early(p, run[p].cur, m)' \subseteq run'[p].man[run'[p].cur].win[m]
          BY <3>1, <3>2, <3>3, <3>4, <3>5 DEF Intact
        <4>3. \A m \in run'[p].windows \ run'[p].kept :
                 (/\ manifest'[run'[p].cur] # None /\ manifest'[run'[p].cur].ver = run'[p].reg[run'[p].cur]
                  /\ manifest'[run'[p].cur].win[m] # None) =>
                     Touched(manifest[run[p].cur], run[p].cur, m)'
          BY <3>1, <3>2, <3>3, <3>4, <3>5
        <4> QED
          BY <4>1, <4>2, <4>3 DEF PlanInv
      <3>7. \A d \in Datasets : d > c => Found(p, d)'
        BY <2>4, <2>8, <3>1
      <3>8. \A d \in Datasets : d < c => FreshEntry(p, d)'
        BY <2>7, <3>3 DEF GoesOn
      <3>9. journal[c] # <<>>
        BY <2>4, <3>1
      <3> QED
        BY <1>1, <2>4, <3>1, <3>3, <3>6, <3>7, <3>8, <3>9 DEF CompileInv, GoesOn, Planned
    <2>18. CASE RecordEntry(p)
      <3> DEFINE e == NewEntry(p)
      <3>1. /\ c \in Datasets /\ run[p].pc = "entry" /\ manifest' = manifest /\ snapshot' = snapshot
            /\ run[p].kept # {} => run[p].man[c] # None
            /\ run[p].todo = {} /\ run[p].unread = {}
        BY <1>0, <2>12, <2>18 DEF RecordEntry, Planned, Shape
      <3> HIDE DEF e
      <3>2. /\ Turns(p) /\ run'[p].man = [run[p].man EXCEPT ![c] = e]
            /\ e.ver = run[p].reg[c] /\ e.last = run[p].last
            /\ \A m \in Months :
                 /\ m \in run[p].kept => e.win[m] = run[p].man[c].win[m]
                 /\ m \in run[p].windows \ run[p].kept => e.win[m] = OfMonth(c, run[p].recs, m)
                 /\ m \notin run[p].windows \cup run[p].kept => e.win[m] = None
        BY <1>0, <2>18, <3>1, RecordEntryRun DEF e
      <3>3. /\ run'[p].man[c] = e
            /\ \A d \in Datasets : d # c => run'[p].man[d] = run[p].man[d]
        <4>1. run[p].man \in Manifest
          BY <1>0, RunFields
        <4> QED
          BY <3>1, <3>2, <4>1 DEF Manifest
      <3>4. PlanInv(p) /\ journal[c] # <<>> /\ run[p].man[c] = manifest[c]
        <4>1. c >= c
          BY <1>2
        <4> QED
          BY <2>4, <3>1, <4>1 DEF Planned
      <3>5. ASSUME NEW m \in Months, e.win[m] # None
            PROVE  /\ snapshot[c][e.ver][m] = e.win[m]
                   /\ Early(p, c, m) \subseteq e.win[m] /\ e.win[m] \subseteq Recorded(c, m)
        <4>1. CASE m \in run[p].kept
          <5>1. manifest # Corrupt /\ manifest[c] # None /\ manifest[c].win[m] # None
            BY <1>0, <3>1, <3>4, <4>1 DEF LoadedInv, PlanInv
          <5>2. manifest[c].win[m] \subseteq Recorded(c, m)
            BY <1>0, <3>1, <5>1 DEF ManifestInv
          <5> QED
            BY <3>2, <3>4, <4>1, <5>2 DEF PlanInv, Intact
        <4>2. CASE m \in run[p].windows \ run[p].kept
          <5>1. /\ snapshot[c][run[p].reg[c]][m] = OfMonth(c, run[p].recs, m)
                /\ Early(p, c, m) \subseteq run[p].recs /\ run[p].recs \subseteq DOMAIN journal[c]
            BY <1>0, <3>1, <4>2 DEF ReadInv
          <5>2. /\ Early(p, c, m) \subseteq OfMonth(c, run[p].recs, m)
                /\ OfMonth(c, run[p].recs, m) \subseteq Recorded(c, m)
            BY <5>1 DEF Early, Recorded, OfMonth
          <5> QED
            BY <3>2, <4>2, <5>1, <5>2
        <4> QED
          BY <3>2, <3>5, <4>1, <4>2
      <3>6. e.last <= Len(journal[c])
        BY <3>2, <3>4 DEF PlanInv
      <3>7. \A d \in Datasets : d = c => FreshEntry(p, d)'
        <4> SUFFICES ASSUME NEW d \in Datasets, d = c
                     PROVE  FreshEntry(p, d)'
          OBVIOUS
        <4>1. run'[p].man[d] = e /\ \A m : Early(p, d, m)' = Early(p, d, m)
          BY <2>5, <3>3
        <4>2. ASSUME NEW m \in Months, e.win[m] # None
              PROVE  /\ snapshot'[d][e.ver][m] = e.win[m]
                     /\ Early(p, d, m)' \subseteq e.win[m] /\ e.win[m] \subseteq Recorded(d, m)'
          BY <1>1, <3>1, <3>5, <4>1, <4>2 DEF Recorded
        <4>3. e.last <= Len(journal'[d]) /\ journal'[d] # <<>>
          BY <1>1, <3>4, <3>6
        <4> QED
          BY <4>1, <4>2, <4>3 DEF FreshEntry, Intact
      <3>8. \A d \in Datasets : /\ d < c + 1 => (d < c \/ d = c)
                                /\ (d >= c + 1 \/ d > c + 1 \/ d = c + 1) => (d > c /\ d >= c /\ d # c)
        BY <1>2
      <3>9. \A d \in Datasets : d < c + 1 => FreshEntry(p, d)'
        <4>1. \A d \in Datasets : d < c => d # c
          BY <1>2
        <4> QED
          BY <2>7, <3>3, <3>7, <3>8, <4>1
      <3>10. \A d \in Datasets : d >= c + 1 => Found(p, d)' /\ run'[p].man[d] = manifest'[d]
        BY <2>4, <2>8, <3>1, <3>3, <3>8
      <3> QED
        BY <1>2, <3>2, <3>8, <3>9, <3>10 DEF CompileInv, Turns, Planned
    <2> QED
      BY <2>2, <2>3, <2>9, <2>10, <2>13, <2>14, <2>15, <2>16, <2>17, <2>18, <1>5 DEF Step
  <1> QED
    BY <1>3, <1>4, <1>5

LEMMA InitSave == Init => SaveInv
  <1> SUFFICES ASSUME Init PROVE SaveInv
    OBVIOUS
  <1>1. manifest # Corrupt => \A d \in Datasets : manifest[d] = None
    BY DEF Init
  <1>2. \A p \in Procs : run[p].pc = "idle"
    BY IdleFields DEF Init
  <1> QED
    BY <1>1, <1>2, InitWork DEF SaveInv, ManifestInv, LoadedInv, CompileInv, Procs

LEMMA NextSave ==
    ASSUME Durable, SaveInv, [Next]_vars
    PROVE  SaveInv'
  <1>0. /\ Work /\ TypeInv /\ Base /\ Alone /\ ManifestInv
        /\ (\A p \in Procs : LoadedInv(p)) /\ \A p \in Compilers : CompileInv(p)
    BY DEF SaveInv, Work, Base
  <1>1. Work'
    BY <1>0, NextWork DEF Durable
  <1>2. CASE UNCHANGED <<journal, snapshot, manifest, run, mark>>
    <2>1. ManifestInv'
      BY <1>0, <1>2 DEF ManifestInv, Intact, Touched, Refilling, Recorded
    <2>2. \A p \in Procs : LoadedInv(p)'
      BY <1>0, <1>2 DEF LoadedInv
    <2>3. ASSUME NEW p \in Compilers
          PROVE  CompileInv(p)'
      <3>1. \A d \in Datasets : /\ FreshEntry(p, d)' <=> FreshEntry(p, d)
                                /\ Found(p, d)' <=> Found(p, d)
        BY <1>2 DEF FreshEntry, Found, Intact, TouchedEarly, Early, Recorded
      <3>2. PlanInv(p)' <=> PlanInv(p)
        BY <1>2 DEF PlanInv, Intact, Touched, Early, Recorded
      <3> QED
        BY <1>0, <1>2, <3>1, <3>2 DEF CompileInv
    <2> QED
      BY <1>1, <2>1, <2>2, <2>3 DEF SaveInv
  <1>3. CASE RemoveManifest
    <2>1. /\ \A d \in Datasets : manifest'[d] = None
          /\ \A p \in Procs : run'[p].pc = "idle"
      BY <1>3 DEF RemoveManifest
    <2> QED
      BY <1>1, <2>1 DEF SaveInv, ManifestInv, LoadedInv, CompileInv, Procs
  <1>4. ASSUME NEW d \in Datasets, NEW m \in Months, AppendRecord(d, m)
        PROVE  SaveInv'
    BY <1>1, <1>4, AppendSave DEF SaveInv
  <1>5. ASSUME NEW p \in Procs, Step(p) \/ Crash(p)
        PROVE  SaveInv'
    <2>1. ManifestInv' /\ LoadedInv(p)' /\ (p \in Compilers => CompileInv(p)')
      BY <1>5, StepManifest, StepLoaded, StepCompile
    <2>2. \A q \in Procs : q # p => run'[q] = run[q] /\ run[q].pc = "idle"
      BY <1>0, <1>5, StepShape, OthersStay, OthersIdle DEF Base, Durable
    <2>3. \A q \in Procs : q # p => LoadedInv(q)' /\ CompileInv(q)'
      BY <2>2 DEF LoadedInv, CompileInv
    <2> QED
      BY <1>1, <2>1, <2>3 DEF SaveInv, Procs
  <1>6. \/ UNCHANGED <<journal, snapshot, manifest, run, mark>>
        \/ RemoveManifest
        \/ \E d \in Datasets, m \in Months : AppendRecord(d, m)
        \/ \E p \in Procs : Step(p) \/ Crash(p)
    BY DEF Durable, Next, vars, EditSchema, Drift, Lose
  <1> QED
    BY <1>2, <1>3, <1>4, <1>5, <1>6

(* What a Reader of the saved manifest is served. *)
LEMMA SaveServes ==
    ASSUME SaveInv, NEW p \in Compilers, EndSave(p),
           NEW d \in Datasets, NEW from \in Months, NEW to \in Months
    PROVE  /\ ~RangeFails(d, from, to)'
           /\ {s \in Wanted(d, from, to) : s <= mark[p][d]} \subseteq RangeOf(d, from, to)'
           /\ RangeOf(d, from, to)' \subseteq Wanted(d, from, to)
  <1>1. /\ run[p].pc = "save" /\ manifest' = run[p].man
        /\ snapshot' = snapshot /\ journal' = journal
    BY DEF EndSave, store
  <1>2. FreshEntry(p, d)
    <2>1. p \in Procs /\ TypeInv /\ CompileInv(p)
      BY DEF SaveInv, Work, Base, Procs
    <2>2. run[p].cur > Count /\ run[p].cur \in Nat
      BY <1>1, <2>1, RunFields DEF CompileInv
    <2>3. d < run[p].cur
      BY <2>2, Constants DEF Datasets
    <2> QED
      BY <1>1, <2>1, <2>3 DEF CompileInv
  <1>3. \A m \in Months : Recorded(d, m)' = Recorded(d, m)
    BY <1>1 DEF Recorded
  <1>4. ASSUME NEW m \in Months, Compiled(d, m)'
        PROVE  /\ Readable(d, m)'
               /\ Early(p, d, m) \subseteq manifest'[d].win[m]
               /\ manifest'[d].win[m] \subseteq Recorded(d, m)
    BY <1>1, <1>2, <1>4 DEF Compiled, Readable, FreshEntry, Intact
  <1>5. ~RangeFails(d, from, to)'
    BY <1>4 DEF RangeFails, InRange, Readable
  <1>6. ASSUME NEW s \in Wanted(d, from, to), s <= mark[p][d]
        PROVE  s \in RangeOf(d, from, to)'
    <2>1. PICK m \in InRange(from, to) : s \in Recorded(d, m)
      BY DEF Wanted
    <2>2. m \in Months /\ m \in InRange(from, to)'
      BY DEF InRange
    <2>3. s \in IF Compiled(d, m)' THEN manifest'[d].win[m] ELSE Recorded(d, m)'
      BY <1>3, <1>4, <1>6, <2>1, <2>2 DEF Early
    <2> QED
      BY <2>2, <2>3 DEF RangeOf
  <1>7. ASSUME NEW s \in RangeOf(d, from, to)'
        PROVE  s \in Wanted(d, from, to)
    <2>1. PICK m \in InRange(from, to) :
                 s \in IF Compiled(d, m)' THEN manifest'[d].win[m] ELSE Recorded(d, m)'
      BY DEF RangeOf, InRange
    <2>2. m \in Months
      BY DEF InRange
    <2>3. s \in Recorded(d, m)
      BY <1>3, <1>4, <2>1, <2>2
    <2> QED
      BY <2>1, <2>3 DEF Wanted
  <1> QED
    BY <1>5, <1>6, <1>7

(* A compile's save is fresh: however the journals grew between its reads, *)
(* and wherever earlier compiles were killed, a Reader that opens the      *)
(* manifest just saved can read every month, gets every record journalled  *)
(* before the compile began and none that is not journalled, provided      *)
(* commands take turns, no verify is killed and no snapshot file is lost.  *)
THEOREM SavesAreFresh ==
    ASSUME Durable
    PROVE  Spec => SaveIsFresh
  <1> DEFINE Fresh(p) == EndSave(p) =>
                \A d \in Datasets, from \in Months, to \in Months :
                   /\ ~RangeFails(d, from, to)'
                   /\ {s \in Wanted(d, from, to) : s <= mark[p][d]} \subseteq RangeOf(d, from, to)'
                   /\ RangeOf(d, from, to)' \subseteq Wanted(d, from, to)
  <1>1. SaveInv /\ [Next]_vars => SaveInv'
    BY NextSave
  <1>2. SaveInv => \A p \in Compilers : Fresh(p)
    BY SaveServes
  <1>3. SaveInv => [\A p \in Compilers : Fresh(p)]_vars
    BY <1>2
  <1>4. SaveIsFresh <=> [][\A p \in Compilers : Fresh(p)]_vars
    BY DEF SaveIsFresh
  <1> HIDE DEF Fresh
  <1> QED
    BY InitSave, <1>1, <1>3, <1>4, PTL DEF Spec
=============================================================================
