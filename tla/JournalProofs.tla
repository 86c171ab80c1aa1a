---------------------------- MODULE JournalProofs ---------------------------
(***************************************************************************)
(* Machine-checked proofs about Journal.tla, for every set of processes,   *)
(* datasets, days and facts and every bound on seq.                        *)
(***************************************************************************)
EXTENDS Journal, SequenceTheorems, TLAPS

(* A process that is writing or quarantining holds a line at a place, and  *)
(* the line being written carries the seq above the writer's counter.      *)
JobInv ==
    \A p \in Procs :
        /\ phase[p] \in {"write", "save"} => job[p] \in Job
        /\ phase[p] = "write" =>
              /\ known[p][job[p].ds] \in 0..(MaxSeq - 1)
              /\ \/ job[p].line = Garbled
                 \/ /\ job[p].line.seq = known[p][job[p].ds] + 1
                    /\ job[p].line.fact \in Facts
                    
(* An absent writer remembers nothing, and a present one has numbered      *)
(* nothing below a seq on disk.                                            *)
KnownInv ==
    \A p \in Procs, d \in Datasets :
        /\ phase[p] \notin {"open", "write"} => known[p][d] = Unread
        /\ known[p][d] # Unread =>
              /\ known[p][d] \in 0..MaxSeq
              /\ \A s \in SeqsOnDisk(d) : s <= known[p][d]

(* The scan of _resume_seq has an answer. *)
TopInv == \A d \in Datasets : \E n \in 0..MaxSeq : IsTop(n, SeqsOnDisk(d))

Shape == TypeOK /\ SingleWriter /\ JobInv

(* The inductive invariant behind the numbering. *)
NumberInv == Shape /\ KnownInv /\ TopInv /\ SeqUnique /\ FileInSeqOrder

-----------------------------------------------------------------------------
(* ResumeSeq is the highest seq on disk whenever there is one. *)
LEMMA ResumeSeqIsTop ==
    ASSUME TopInv, NEW d \in Datasets
    PROVE  ResumeSeq(d) \in 0..MaxSeq /\ IsTop(ResumeSeq(d), SeqsOnDisk(d))
  BY DEF TopInv, ResumeSeq

(* The number an append builds on is a natural up to the bound. *)
LEMMA LastSeqType ==
    ASSUME TypeOK, TopInv, NEW p \in Procs, NEW d \in Datasets
    PROVE  LastSeq(p, d) \in Nat
  <1>1. ResumeSeq(d) \in Nat
    BY ResumeSeqIsTop, JournalAssumption
  <1> QED
    BY <1>1 DEF TypeOK, LastSeq

(* Every step of every process keeps the state well formed, the writer     *)
(* exclusive and its pending job meaningful.                               *)
LEMMA ShapeStep ==
    ASSUME Shape, TopInv, [Next]_vars
    PROVE  Shape'
  <1> USE JournalAssumption
  <1>1. CASE UNCHANGED vars
    BY <1>1 DEF Shape, TypeOK, SingleWriter, JobInv, vars
  <1>2. ASSUME NEW p \in Procs, Open(p)
        PROVE  Shape'
    BY <1>2 DEF Shape, TypeOK, SingleWriter, JobInv, Open
  <1>3. ASSUME NEW p \in Procs, NEW d \in Datasets, NEW y \in Days, Truncate(p, d, y)
        PROVE  Shape'
    <2>1. [ds |-> d, day |-> y, at |-> Len(file[d][y]), line |-> tail[d][y].line] \in Job
      BY DEF Shape, TypeOK, Job, Remainder
    <2>2. NoTail \in Remainder
      BY DEF NoTail, Remainder, Garbled, Line
    <2> QED
      BY <1>3, <2>1, <2>2 DEF Shape, TypeOK, SingleWriter, JobInv, Truncate
  <1>4. ASSUME NEW p \in Procs, QuarantineTornTail(p)
        PROVE  Shape'
    BY <1>4 DEF Shape, TypeOK, SingleWriter, JobInv, QuarantineTornTail
  <1>5. ASSUME NEW p \in Procs, RepairDone(p)
        PROVE  Shape'
    BY <1>5 DEF Shape, TypeOK, SingleWriter, JobInv, RepairDone
  <1>6. ASSUME NEW p \in Procs, NEW d \in Datasets, NEW y \in Days, NEW fact \in Facts,
               NEW part \in {"fragment", "whole"}, BeginAppend(p, d, y, fact, part)
        PROVE  Shape'
    <2> DEFINE line == IF tail[d][y].kind = "none"
                       THEN [seq |-> LastSeq(p, d) + 1, fact |-> fact]
                       ELSE Garbled
               new  == [ds |-> d, day |-> y, at |-> Len(file[d][y]), line |-> line]
    <2>1. LastSeq(p, d) \in Nat /\ LastSeq(p, d) < MaxSeq
      BY <1>6, LastSeqType DEF Shape, BeginAppend
    <2>2. line \in Line
      BY <2>1 DEF Line, Garbled
    <2>3. new \in Job /\ [kind |-> part, line |-> line] \in Remainder
      BY <2>2 DEF Shape, TypeOK, Job, Remainder
    <2>4. new.ds = d /\ new.line = line
      OBVIOUS
    <2>5. line = Garbled \/ (line.seq = LastSeq(p, d) + 1 /\ line.fact \in Facts)
      OBVIOUS
    <2> HIDE DEF line, new
    <2>6. /\ tail' = [tail EXCEPT ![d][y] = [kind |-> part, line |-> line]]
          /\ job' = [job EXCEPT ![p] = new]
          /\ known' = [known EXCEPT ![p][d] = LastSeq(p, d)]
          /\ listed' = [listed EXCEPT ![d] = listed[d] \cup {y}]
          /\ phase' = [phase EXCEPT ![p] = "write"]
          /\ phase[p] = "open"
          /\ UNCHANGED <<file, lock, quarantine, torn>>
      BY <1>6 DEF BeginAppend, line, new
    <2>7. TypeOK'
      BY <2>1, <2>3, <2>6 DEF Shape, TypeOK
    <2>8. SingleWriter'
      BY <2>6 DEF Shape, TypeOK, SingleWriter
    <2>9. JobInv'
      BY <2>1, <2>3, <2>4, <2>5, <2>6 DEF Shape, TypeOK, SingleWriter, JobInv
    <2> QED
      BY <2>7, <2>8, <2>9 DEF Shape
  <1>7. ASSUME NEW p \in Procs, FinishAppend(p)
        PROVE  Shape'
    <2>1. job[p] \in Job /\ known[p][job[p].ds] \in Nat
      BY <1>7 DEF Shape, JobInv, FinishAppend
    <2>2. job[p].ds \in Datasets /\ job[p].day \in Days /\ job[p].line \in Line
      BY <2>1 DEF Job
    <2>3. NoTail \in Remainder
      BY DEF NoTail, Remainder, Garbled, Line
    <2>a. file' \in [Datasets -> [Days -> Seq(Line)]]
      <3>1. Append(file[job[p].ds][job[p].day], job[p].line) \in Seq(Line)
        <4>1. file \in [Datasets -> [Days -> Seq(Line)]]
          BY DEF Shape, TypeOK
        <4> HIDE JournalAssumption
        <4> QED
          BY <4>1, <2>2, AppendProperties
      <3>2. file' = [file EXCEPT ![job[p].ds][job[p].day] =
                        Append(file[job[p].ds][job[p].day], job[p].line)]
        BY <1>7 DEF FinishAppend
      <3> QED
        BY <2>2, <3>1, <3>2 DEF Shape, TypeOK
    <2>b. tail' \in [Datasets -> [Days -> Remainder]]
      BY <1>7, <2>2, <2>3 DEF Shape, TypeOK, FinishAppend
    <2>c. known' \in [Procs -> [Datasets -> Nat \cup {Unread}]]
      BY <1>7, <2>1, <2>2 DEF Shape, TypeOK, FinishAppend
    <2>4. TypeOK'
      BY <1>7, <2>a, <2>b, <2>c DEF Shape, TypeOK, FinishAppend
    <2> QED
      BY <1>7, <2>2, <2>4 DEF Shape, TypeOK, SingleWriter, JobInv, FinishAppend
  <1>8. ASSUME NEW p \in Procs, ShortWrite(p)
        PROVE  Shape'
    <2>1. job[p] \in Job /\ known[p][job[p].ds] \in Nat
      BY <1>8 DEF Shape, JobInv, ShortWrite
    <2>2. job[p].ds \in Datasets
      BY <2>1 DEF Job
    <2> QED
      BY <1>8, <2>1, <2>2 DEF Shape, TypeOK, SingleWriter, JobInv, ShortWrite
  <1>9. ASSUME NEW p \in Procs, Close(p)
        PROVE  Shape'
    BY <1>9 DEF Shape, TypeOK, SingleWriter, JobInv, Close, Leave
  <1>10. ASSUME NEW p \in Procs, Crash(p)
         PROVE  Shape'
    BY <1>10 DEF Shape, TypeOK, SingleWriter, JobInv, Crash, Leave
  <1> QED
    BY <1>1, <1>2, <1>3, <1>4, <1>5, <1>6, <1>7, <1>8, <1>9, <1>10 DEF Next, Step

-----------------------------------------------------------------------------
(* A sequence with one element more. *)
LEMMA AppendFacts ==
    ASSUME NEW S, NEW q \in Seq(S), NEW e \in S
    PROVE  /\ Len(q) \in Nat
           /\ DOMAIN q = 1..Len(q)
           /\ DOMAIN Append(q, e) = 1..(Len(q) + 1)
           /\ \A i \in 1..Len(q) : Append(q, e)[i] = q[i]
           /\ Append(q, e)[Len(q) + 1] = e
  <1>1. Append(q, e) \in Seq(S) /\ Len(Append(q, e)) = Len(q) + 1
    BY AppendProperties
  <1>2. DOMAIN Append(q, e) = 1..Len(Append(q, e))
    BY <1>1, LenProperties
  <1> QED
    BY <1>1, <1>2, AppendProperties, LenProperties

(* A day file has one line more at its end; every other line is unmoved.   *)
OneLineMore(d, y, line) ==
    /\ d \in Datasets /\ y \in Days /\ line \in Line
    /\ \A e \in Datasets, z \in Days : (e # d \/ z # y) => file'[e][z] = file[e][z]
    /\ Len(file[d][y]) \in Nat
    /\ DOMAIN file[d][y] = 1..Len(file[d][y])
    /\ DOMAIN file'[d][y] = 1..(Len(file[d][y]) + 1)
    /\ \A i \in 1..Len(file[d][y]) : file'[d][y][i] = file[d][y][i]
    /\ file'[d][y][Len(file[d][y]) + 1] = line

(* What an append does to the files. *)
LEMMA AppendFile ==
    ASSUME Shape, NEW p \in Procs, FinishAppend(p),
           NEW d, NEW y, NEW line,
           d = job[p].ds, y = job[p].day, line = job[p].line
    PROVE  OneLineMore(d, y, line)
  <1>1. d \in Datasets /\ y \in Days /\ line \in Line
    BY DEF Shape, JobInv, FinishAppend, Job
  <1>2. file \in [Datasets -> [Days -> Seq(Line)]]
    BY DEF Shape, TypeOK
  <1>3. file[d][y] \in Seq(Line)
    BY <1>1, <1>2
  <1>4. file' = [file EXCEPT ![d][y] = Append(file[d][y], line)]
    BY DEF FinishAppend
  <1>5. /\ file'[d][y] = Append(file[d][y], line)
        /\ \A e \in Datasets, z \in Days : (e # d \/ z # y) => file'[e][z] = file[e][z]
    BY <1>1, <1>2, <1>4
  <1>6. /\ Len(file[d][y]) \in Nat
        /\ DOMAIN file[d][y] = 1..Len(file[d][y])
        /\ DOMAIN Append(file[d][y], line) = 1..(Len(file[d][y]) + 1)
        /\ \A i \in 1..Len(file[d][y]) : Append(file[d][y], line)[i] = file[d][y][i]
        /\ Append(file[d][y], line)[Len(file[d][y]) + 1] = line
    <2>1. PICK q \in Seq(Line) : q = file[d][y]
      BY <1>3
    <2>2. /\ Len(q) \in Nat
          /\ DOMAIN q = 1..Len(q)
          /\ DOMAIN Append(q, line) = 1..(Len(q) + 1)
          /\ \A i \in 1..Len(q) : Append(q, line)[i] = q[i]
          /\ Append(q, line)[Len(q) + 1] = line
      BY <1>1, AppendFacts
    <2> QED
      BY <2>1, <2>2, Zenon
  <1> QED
    BY <1>1, <1>5, <1>6 DEF OneLineMore

(* ... and so one seq more in one dataset, unless the line is garbled. *)
LEMMA AppendSeqs ==
    ASSUME Shape, NEW p \in Procs, FinishAppend(p),
           NEW d, NEW y, NEW line,
           d = job[p].ds, y = job[p].day, line = job[p].line
    PROVE  /\ \A e \in Datasets : e # d => SeqsOnDisk(e)' = SeqsOnDisk(e)
           /\ SeqsOnDisk(d)' = SeqsOnDisk(d) \cup {s \in 1..MaxSeq : s = line.seq}
  <1>0. PICK n : n = Len(file[d][y])
    OBVIOUS
  <1>1. /\ d \in Datasets /\ y \in Days /\ line \in Line
        /\ \A e \in Datasets, z \in Days : (e # d \/ z # y) => file'[e][z] = file[e][z]
        /\ n \in Nat
        /\ DOMAIN file[d][y] = 1..n
        /\ DOMAIN file'[d][y] = 1..(n + 1)
        /\ \A i \in 1..n : file'[d][y][i] = file[d][y][i]
        /\ file'[d][y][n + 1] = line
    <2>1. OneLineMore(d, y, line)
      BY AppendFile
    <2> QED
      BY <1>0, <2>1 DEF OneLineMore
  <1>2. \A e \in Datasets : e # d => SeqsOnDisk(e)' = SeqsOnDisk(e)
    BY <1>1 DEF SeqsOnDisk
  <1>3. ASSUME NEW s \in 1..MaxSeq
        PROVE  (\E z \in Days : \E i \in DOMAIN file'[d][z] : file'[d][z][i].seq = s)
               <=> ((\E z \in Days : \E i \in DOMAIN file[d][z] : file[d][z][i].seq = s)
                    \/ s = line.seq)
    <2>1. ASSUME NEW z \in Days, NEW i \in DOMAIN file'[d][z], file'[d][z][i].seq = s
          PROVE  (\E w \in Days : \E j \in DOMAIN file[d][w] : file[d][w][j].seq = s)
                 \/ s = line.seq
      <3>1. CASE z # y
        BY <1>1, <2>1, <3>1
      <3>2. CASE z = y /\ i = n + 1
        BY <1>1, <2>1, <3>2
      <3>3. CASE z = y /\ i # n + 1
        <4>1. i \in 1..n
          BY <1>1, <2>1, <3>3
        <4> QED
          BY <1>1, <2>1, <3>3, <4>1
      <3> QED
        BY <3>1, <3>2, <3>3
    <2>2. ASSUME NEW z \in Days, NEW i \in DOMAIN file[d][z], file[d][z][i].seq = s
          PROVE  \E w \in Days : \E j \in DOMAIN file'[d][w] : file'[d][w][j].seq = s
      <3>1. CASE z # y
        BY <1>1, <2>2, <3>1
      <3>2. CASE z = y
        BY <1>1, <2>2, <3>2
      <3> QED
        BY <3>1, <3>2
    <2>3. ASSUME s = line.seq
          PROVE  \E w \in Days : \E j \in DOMAIN file'[d][w] : file'[d][w][j].seq = s
      BY <1>1, <2>3
    <2> QED
      BY <2>1, <2>2, <2>3
  <1>4. SeqsOnDisk(d)' = SeqsOnDisk(d) \cup {s \in 1..MaxSeq : s = line.seq}
    BY <1>1, <1>3 DEF SeqsOnDisk
  <1> QED
    BY <1>2, <1>4

(* A step other than an append's end leaves every complete line alone. *)
LEMMA OtherStepsKeepFiles ==
    ASSUME [Next]_vars, \A p \in Procs : ~FinishAppend(p)
    PROVE  file' = file
  BY DEF Next, Step, vars, Open, Truncate, QuarantineTornTail, RepairDone, BeginAppend,
         ShortWrite, Close, Crash

(* Appending above every seq on disk keeps the highest one known. *)
LEMMA AppendTop ==
    ASSUME NumberInv, NEW p \in Procs, FinishAppend(p)
    PROVE  TopInv'
  <1> USE JournalAssumption
  <1>0. PICK d, y, line : d = job[p].ds /\ y = job[p].day /\ line = job[p].line
    OBVIOUS
  <1>s. PICK s0 : s0 = line.seq
    OBVIOUS
  <1>1. /\ d \in Datasets
        /\ known[p][d] \in 0..(MaxSeq - 1)
        /\ s0 = 0 \/ s0 = known[p][d] + 1
    BY <1>0, <1>s DEF NumberInv, Shape, JobInv, FinishAppend, Job, Garbled
  <1>2. \A s \in SeqsOnDisk(d) : s <= known[p][d]
    BY <1>1 DEF NumberInv, KnownInv, Unread
  <1>3. /\ \A e \in Datasets : e # d => SeqsOnDisk(e)' = SeqsOnDisk(e)
        /\ SeqsOnDisk(d)' = SeqsOnDisk(d) \cup {s \in 1..MaxSeq : s = s0}
    BY <1>0, <1>s, AppendSeqs DEF NumberInv
  <1>4. \E n \in 0..MaxSeq : IsTop(n, SeqsOnDisk(d)')
    <2>1. CASE s0 = 0
      <3>1. SeqsOnDisk(d)' = SeqsOnDisk(d)
        BY <1>3, <2>1
      <3> QED
        BY <1>1, <3>1 DEF NumberInv, TopInv
    <2>2. CASE s0 = known[p][d] + 1
      <3>1. s0 \in 1..MaxSeq
        BY <1>1, <2>2
      <3>2. \A s \in SeqsOnDisk(d) : s \in Nat
        BY DEF SeqsOnDisk
      <3>3. IsTop(s0, SeqsOnDisk(d)')
        BY <1>1, <1>2, <1>3, <2>2, <3>1, <3>2 DEF IsTop
      <3> QED
        BY <3>1, <3>3
    <2> QED
      BY <1>1, <2>1, <2>2
  <1>5. ASSUME NEW e \in Datasets
        PROVE  \E n \in 0..MaxSeq : IsTop(n, SeqsOnDisk(e)')
    <2>1. CASE e = d
      BY <1>4, <2>1
    <2>2. CASE e # d
      BY <1>3, <2>2 DEF NumberInv, TopInv
    <2> QED
      BY <2>1, <2>2
  <1>6. \A e \in Datasets : \E n \in 0..MaxSeq : IsTop(n, SeqsOnDisk(e)')
    BY <1>5
  <1> QED
    BY <1>6 DEF TopInv, IsTop

(* The writer's counter stays above everything on disk. *)
LEMMA KnownStep ==
    ASSUME NumberInv, [Next]_vars
    PROVE  KnownInv'
  <1> USE JournalAssumption
  <1>1. ASSUME NEW p \in Procs, FinishAppend(p)
        PROVE  KnownInv'
    <2>0. PICK d, y, line : d = job[p].ds /\ y = job[p].day /\ line = job[p].line
      OBVIOUS
    <2>1. /\ d \in Datasets
          /\ known[p][d] \in 0..(MaxSeq - 1)
          /\ line.seq = 0 \/ line.seq = known[p][d] + 1
      BY <1>1, <2>0 DEF NumberInv, Shape, JobInv, FinishAppend, Job, Garbled
    <2>2. /\ \A e \in Datasets : e # d => SeqsOnDisk(e)' = SeqsOnDisk(e)
          /\ SeqsOnDisk(d)' = SeqsOnDisk(d) \cup {s \in 1..MaxSeq : s = line.seq}
      BY <1>1, <2>0, AppendSeqs DEF NumberInv
    <2>3. /\ known' = [known EXCEPT ![p][d] = known[p][d] + 1]
          /\ phase' = [phase EXCEPT ![p] = "open"]
          /\ phase[p] = "write"
      BY <1>1, <2>0 DEF FinishAppend
    <2>4. ASSUME NEW q \in Procs, NEW e \in Datasets
          PROVE  /\ phase'[q] \notin {"open", "write"} => known'[q][e] = Unread
                 /\ known'[q][e] # Unread =>
                       /\ known'[q][e] \in 0..MaxSeq
                       /\ \A s \in SeqsOnDisk(e)' : s <= known'[q][e]
      <3>1. CASE q # p
        <4>1. phase[q] = "out"
          BY <2>3, <3>1 DEF NumberInv, Shape, SingleWriter, TypeOK
        <4>2. known'[q][e] = Unread
          BY <2>3, <3>1, <4>1 DEF NumberInv, Shape, TypeOK, KnownInv
        <4> QED
          BY <4>2
      <3>2. CASE q = p /\ e # d
        BY <2>2, <2>3, <3>2 DEF NumberInv, Shape, TypeOK, KnownInv
      <3>3. CASE q = p /\ e = d
        <4>1. known'[q][e] = known[p][d] + 1 /\ phase'[q] = "open"
          BY <2>1, <2>3, <3>3 DEF NumberInv, Shape, TypeOK
        <4>2. \A s \in SeqsOnDisk(d) : s \in Nat /\ s <= known[p][d]
          BY <2>1 DEF NumberInv, KnownInv, Unread, SeqsOnDisk
        <4> QED
          BY <2>1, <2>2, <3>3, <4>1, <4>2
      <3> QED
        BY <3>1, <3>2, <3>3
    <2> QED
      BY <2>4 DEF KnownInv
  <1>2. ASSUME \A p \in Procs : ~FinishAppend(p)
        PROVE  KnownInv'
    <2>1. file' = file
      BY <1>2, OtherStepsKeepFiles
    <2>2. \A d \in Datasets : SeqsOnDisk(d)' = SeqsOnDisk(d)
      BY <2>1 DEF SeqsOnDisk
    <2>3. ASSUME \A p \in Procs : known'[p] = known[p] /\ (phase[p] \in {"open", "write"}
                                     => phase'[p] \in {"open", "write"})
          PROVE  KnownInv'
      BY <2>2, <2>3 DEF NumberInv, KnownInv
    <2>4. CASE UNCHANGED vars
      BY <2>3, <2>4 DEF vars
    <2>5. ASSUME NEW p \in Procs, \/ Open(p) \/ QuarantineTornTail(p) \/ RepairDone(p)
                                  \/ \E d \in Datasets, y \in Days : Truncate(p, d, y)
          PROVE  KnownInv'
      BY <2>3, <2>5 DEF NumberInv, Shape, TypeOK, Open, QuarantineTornTail, RepairDone, Truncate
    <2>6. ASSUME NEW p \in Procs, Close(p) \/ Crash(p)
          PROVE  KnownInv'
      BY <2>2, <2>6 DEF NumberInv, Shape, TypeOK, KnownInv, Close, Crash, Leave
    <2>7. ASSUME NEW p \in Procs, NEW d \in Datasets, NEW y \in Days, NEW fact \in Facts,
                 NEW part \in {"fragment", "whole"}, BeginAppend(p, d, y, fact, part)
          PROVE  KnownInv'
      <3>1. ResumeSeq(d) \in 0..MaxSeq /\ \A s \in SeqsOnDisk(d) : s <= ResumeSeq(d)
        BY ResumeSeqIsTop DEF NumberInv, IsTop
      <3>2. LastSeq(p, d) \in 0..MaxSeq /\ \A s \in SeqsOnDisk(d) : s <= LastSeq(p, d)
        BY <3>1 DEF LastSeq, NumberInv, KnownInv
      <3>3. /\ known' = [known EXCEPT ![p][d] = LastSeq(p, d)]
            /\ phase' = [phase EXCEPT ![p] = "write"]
            /\ phase[p] = "open"
        BY <2>7 DEF BeginAppend
      <3> QED
        BY <2>2, <3>2, <3>3 DEF NumberInv, Shape, TypeOK, KnownInv
    <2>8. ASSUME NEW p \in Procs, ShortWrite(p)
          PROVE  KnownInv'
      <3>0. PICK d : d = job[p].ds
        OBVIOUS
      <3>1. d \in Datasets /\ known[p][d] \in 0..(MaxSeq - 1)
        BY <2>8, <3>0 DEF NumberInv, Shape, JobInv, ShortWrite, Job
      <3>2. /\ known' = [known EXCEPT ![p][d] = known[p][d] + 1]
            /\ phase' = [phase EXCEPT ![p] = "open"]
            /\ phase[p] = "write"
        BY <2>8, <3>0 DEF ShortWrite
      <3>3. \A s \in SeqsOnDisk(d) : s \in Nat /\ s <= known[p][d]
        BY <3>1 DEF NumberInv, KnownInv, Unread, SeqsOnDisk
      <3> QED
        BY <2>2, <3>1, <3>2, <3>3 DEF NumberInv, Shape, TypeOK, KnownInv
    <2> QED
      BY <1>2, <2>4, <2>5, <2>6, <2>7, <2>8 DEF Next, Step
  <1> QED
    BY <1>1, <1>2

(* A seq above every seq on disk repeats none of them and ends its file.   *)
LEMMA OrderStep ==
    ASSUME NumberInv, [Next]_vars
    PROVE  SeqUnique' /\ FileInSeqOrder'
  <1> USE JournalAssumption
  <1>1. CASE \A p \in Procs : ~FinishAppend(p)
    BY <1>1, OtherStepsKeepFiles DEF NumberInv, SeqUnique, FileInSeqOrder
  <1>2. ASSUME NEW p \in Procs, FinishAppend(p)
        PROVE  SeqUnique' /\ FileInSeqOrder'
    <2>0. PICK d, y, line : d = job[p].ds /\ y = job[p].day /\ line = job[p].line
      OBVIOUS
    <2>1. OneLineMore(d, y, line)
      BY <1>2, <2>0, AppendFile DEF NumberInv
    <2>n. PICK n : n = Len(file[d][y])
      OBVIOUS
    <2>2. /\ d \in Datasets /\ y \in Days
          /\ \A e \in Datasets, z \in Days : (e # d \/ z # y) => file'[e][z] = file[e][z]
          /\ n \in Nat /\ DOMAIN file[d][y] = 1..n /\ DOMAIN file'[d][y] = 1..(n + 1)
          /\ \A i \in 1..n : file'[d][y][i] = file[d][y][i]
          /\ file'[d][y][n + 1] = line
      BY <2>1, <2>n DEF OneLineMore
    <2>3. ASSUME NEW z \in Days, NEW i \in DOMAIN file[d][z], line.seq # 0
          PROVE  /\ file[d][z][i].seq < line.seq
                 /\ file[d][z][i].seq \in Nat
      <3>1. known[p][d] \in 0..(MaxSeq - 1) /\ line.seq = known[p][d] + 1
        BY <1>2, <2>0, <2>3 DEF NumberInv, Shape, JobInv, FinishAppend, Garbled
      <3>2. file[d][z][i].seq \in 0..MaxSeq
        <4>1. file[d][z] \in Seq(Line)
          BY <2>2 DEF NumberInv, Shape, TypeOK
        <4>2. file[d][z][i] \in Line
          BY <4>1, <2>3, ElementOfSeq, LenProperties
        <4> QED
          BY <4>2 DEF Line
      <3>3. file[d][z][i].seq # 0 => file[d][z][i].seq \in SeqsOnDisk(d)
        BY <2>3, <3>2 DEF SeqsOnDisk
      <3>4. \A s \in SeqsOnDisk(d) : s <= known[p][d]
        BY <2>2, <3>1 DEF NumberInv, KnownInv, Unread
      <3> QED
        BY <3>1, <3>2, <3>3, <3>4
    <2>o. ASSUME NEW z \in Days, NEW i \in DOMAIN file'[d][z], ~(z = y /\ i = n + 1)
          PROVE  i \in DOMAIN file[d][z] /\ file'[d][z][i] = file[d][z][i]
      <3>1. CASE z # y
        BY <2>2, <2>o, <3>1
      <3>2. CASE z = y
        <4>1. i \in 1..n
          BY <2>2, <2>o, <3>2
        <4> QED
          BY <2>2, <3>2, <4>1
      <3> QED
        BY <3>1, <3>2
    <2>4. ASSUME NEW e \in Datasets, NEW z \in Days, NEW w \in Days,
                 NEW i \in DOMAIN file'[e][z], NEW j \in DOMAIN file'[e][w],
                 file'[e][z][i].seq = file'[e][w][j].seq, file'[e][z][i].seq # 0
          PROVE  z = w /\ i = j
      <3>1. CASE e # d
        BY <2>2, <2>4, <3>1 DEF NumberInv, SeqUnique
      <3>2. CASE e = d /\ z = y /\ i = n + 1 /\ ~(w = y /\ j = n + 1)
        <4>1. j \in DOMAIN file[d][w] /\ file'[d][w][j] = file[d][w][j]
          BY <2>o, <2>4, <3>2
        <4> QED
          BY <2>2, <2>3, <2>4, <3>2, <4>1
      <3>3. CASE e = d /\ w = y /\ j = n + 1 /\ ~(z = y /\ i = n + 1)
        <4>1. i \in DOMAIN file[d][z] /\ file'[d][z][i] = file[d][z][i]
          BY <2>o, <2>4, <3>3
        <4> QED
          BY <2>2, <2>3, <2>4, <3>3, <4>1
      <3>4. CASE e = d /\ ~(z = y /\ i = n + 1) /\ ~(w = y /\ j = n + 1)
        <4>1. i \in DOMAIN file[d][z] /\ file'[d][z][i] = file[d][z][i]
          BY <2>o, <2>4, <3>4
        <4>2. j \in DOMAIN file[d][w] /\ file'[d][w][j] = file[d][w][j]
          BY <2>o, <2>4, <3>4
        <4> QED
          BY <2>4, <3>4, <4>1, <4>2, <2>2 DEF NumberInv, SeqUnique
      <3> QED
        BY <3>1, <3>2, <3>3, <3>4
    <2>5. ASSUME NEW e \in Datasets, NEW z \in Days,
                 NEW i \in DOMAIN file'[e][z], NEW j \in DOMAIN file'[e][z],
                 i < j, file'[e][z][i].seq # 0, file'[e][z][j].seq # 0
          PROVE  file'[e][z][i].seq < file'[e][z][j].seq
      <3>1. CASE e # d \/ z # y
        BY <2>2, <2>5, <3>1 DEF NumberInv, FileInSeqOrder
      <3>2. CASE e = d /\ z = y /\ j = n + 1
        <4>1. i \in DOMAIN file[d][y] /\ file'[d][y][i] = file[d][y][i]
          BY <2>2, <2>5, <3>2
        <4> QED
          BY <2>2, <2>3, <2>5, <3>2, <4>1
      <3>3. CASE e = d /\ z = y /\ j # n + 1
        <4>1. i \in 1..n /\ j \in 1..n
          BY <2>2, <2>5, <3>3
        <4> QED
          BY <2>2, <2>5, <3>3, <4>1 DEF NumberInv, FileInSeqOrder
      <3> QED
        BY <3>1, <3>2, <3>3
    <2> QED
      BY <2>4, <2>5 DEF SeqUnique, FileInSeqOrder
  <1> QED
    BY <1>1, <1>2

(* An empty root satisfies the numbering invariant. *)
LEMMA NumberInit == Init => NumberInv
  <1> USE JournalAssumption
  <1> SUFFICES ASSUME Init PROVE NumberInv
    OBVIOUS
  <1>1. NoTail \in Remainder /\ <<>> \in Seq(Line)
    BY DEF NoTail, Remainder, Garbled, Line
  <1>2. Shape
    BY <1>1 DEF Init, Shape, TypeOK, SingleWriter, JobInv, Unread
  <1>3. \A d \in Datasets, y \in Days : DOMAIN file[d][y] = {}
    BY DEF Init
  <1>4. \A d \in Datasets : SeqsOnDisk(d) = {}
    BY <1>3 DEF SeqsOnDisk
  <1>5. KnownInv
    BY DEF Init, KnownInv, Unread
  <1>6. \A d \in Datasets : IsTop(0, SeqsOnDisk(d))
    BY <1>4 DEF IsTop
  <1>7. SeqUnique /\ FileInSeqOrder
    BY <1>3 DEF SeqUnique, FileInSeqOrder
  <1> QED
    BY <1>2, <1>5, <1>6, <1>7 DEF NumberInv, TopInv

(* Every step of every process preserves it. *)
LEMMA NumberStep == NumberInv /\ [Next]_vars => NumberInv'
  <1> SUFFICES ASSUME NumberInv, [Next]_vars PROVE NumberInv'
    OBVIOUS
  <1>1. Shape'
    BY ShapeStep DEF NumberInv
  <1>2. KnownInv' /\ SeqUnique' /\ FileInSeqOrder'
    BY KnownStep, OrderStep
  <1>3. TopInv'
    <2>1. CASE \E p \in Procs : FinishAppend(p)
      BY <2>1, AppendTop
    <2>2. CASE \A p \in Procs : ~FinishAppend(p)
      BY <2>2, OtherStepsKeepFiles DEF NumberInv, TopInv, SeqsOnDisk, IsTop
    <2> QED
      BY <2>1, <2>2
  <1> QED
    BY <1>1, <1>2, <1>3 DEF NumberInv

(* The journal's state is well typed in every reachable state. *)
THEOREM TypeCorrect == Spec => []TypeOK
  <1>1. NumberInv => TypeOK
    BY DEF NumberInv, Shape
  <1> QED
    BY <1>1, NumberInit, NumberStep, PTL DEF Spec

(* flock makes the writer exclusive, whatever crashes. *)
THEOREM WriterIsExclusive == Spec => []SingleWriter
  <1>1. NumberInv => SingleWriter
    BY DEF NumberInv, Shape
  <1> QED
    BY <1>1, NumberInit, NumberStep, PTL DEF Spec

(* No seq is ever given to two records of a dataset, short writes included.*)
THEOREM SeqsAreUnique == Spec => []SeqUnique
  <1>1. NumberInv => SeqUnique
    BY DEF NumberInv
  <1> QED
    BY <1>1, NumberInit, NumberStep, PTL DEF Spec

(* Each day file lists its records in seq order. *)
THEOREM FilesAreInSeqOrder == Spec => []FileInSeqOrder
  <1>1. NumberInv => FileInSeqOrder
    BY DEF NumberInv
  <1> QED
    BY <1>1, NumberInit, NumberStep, PTL DEF Spec

-----------------------------------------------------------------------------
(* While os.write never writes less than it was given, the journal        *)
(* implements the ledger (Ledger.tla).                                     *)

(* While a writer is open, the only unfinished bytes are the ones it is    *)
(* writing: repair came before the first append.                           *)
TailInv ==
    \A p \in Procs : phase[p] \in {"open", "write"} =>
        \A d \in Datasets, y \in Days :
            tail[d][y].kind # "none" =>
                phase[p] = "write" /\ d = job[p].ds /\ y = job[p].day

(* ... so the line it is writing is a record of its own. *)
LineInv == \A p \in Procs : phase[p] = "write" => job[p].line # Garbled

EveryLineWhole == \A d \in Datasets : Resumable(d)
CountersAgree  == \A p \in Procs, d \in Datasets :
                      known[p][d] # Unread => known[p][d] = ResumeSeq(d)
Gapless        == \A d \in Datasets : \E n \in 0..MaxSeq : SeqsOnDisk(d) = 1..n

(* The inductive invariant behind the refinement. *)
LedgerInv == NumberInv /\ TailInv /\ LineInv /\ EveryLineWhole /\ CountersAgree /\ Gapless

-----------------------------------------------------------------------------
(* There is one highest seq. *)
LEMMA TopIsResumeSeq ==
    ASSUME NEW d \in Datasets, NEW n \in 0..MaxSeq, IsTop(n, SeqsOnDisk(d))
    PROVE  ResumeSeq(d) = n
  <1> USE JournalAssumption
  <1>1. SeqsOnDisk(d) \subseteq Nat
    BY DEF SeqsOnDisk
  <1>2. ResumeSeq(d) \in 0..MaxSeq /\ IsTop(ResumeSeq(d), SeqsOnDisk(d))
    BY DEF ResumeSeq
  <1>3. \A m \in 0..MaxSeq : IsTop(m, SeqsOnDisk(d)) => m = n
    BY <1>1 DEF IsTop
  <1> QED
    BY <1>2, <1>3

(* A gapless dataset resumes at its count. *)
LEMMA GaplessResume ==
    ASSUME NEW d \in Datasets, NEW n \in 0..MaxSeq, SeqsOnDisk(d) = 1..n
    PROVE  ResumeSeq(d) = n
  <1>1. IsTop(n, SeqsOnDisk(d))
    BY JournalAssumption DEF IsTop
  <1> QED
    BY <1>1, TopIsResumeSeq

(* An empty root satisfies the ledger invariant. *)
LEMMA LedgerInit == Init => LedgerInv
  <1> USE JournalAssumption
  <1> SUFFICES ASSUME Init PROVE LedgerInv
    OBVIOUS
  <1>1. \A d \in Datasets, y \in Days : DOMAIN file[d][y] = {}
    BY DEF Init
  <1>2. \A d \in Datasets : SeqsOnDisk(d) = {}
    BY <1>1 DEF SeqsOnDisk
  <1>3. Gapless
    <2>1. 1..0 = {} /\ 0 \in 0..MaxSeq
      OBVIOUS
    <2>2. \A d \in Datasets : SeqsOnDisk(d) = 1..0
      BY <1>2, <2>1
    <2> QED
      BY <2>1, <2>2, Zenon DEF Gapless
  <1>4. TailInv /\ LineInv /\ CountersAgree
    BY DEF Init, TailInv, LineInv, CountersAgree
  <1>5. EveryLineWhole
    BY <1>1 DEF EveryLineWhole, Resumable
  <1> QED
    BY <1>3, <1>4, <1>5, NumberInit DEF LedgerInv

(* A step that leaves the files alone leaves what is read from them alone. *)
LEMMA SameFilesSameNumbers ==
    ASSUME file' = file
    PROVE  /\ \A d \in Datasets : SeqsOnDisk(d)' = SeqsOnDisk(d)
           /\ \A d \in Datasets : ResumeSeq(d)' = ResumeSeq(d)
           /\ EveryLineWhole' = EveryLineWhole
           /\ Committed' = Committed
  BY DEF SeqsOnDisk, ResumeSeq, EveryLineWhole, Resumable, Committed

(* What an append commits. *)
LEMMA AppendCommits ==
    ASSUME LedgerInv, NEW p \in Procs, FinishAppend(p),
           NEW d, NEW y, NEW line,
           d = job[p].ds, y = job[p].day, line = job[p].line
    PROVE  /\ d \in Datasets /\ y \in Days
           /\ line.seq = ResumeSeq(d) + 1 /\ line.fact \in Facts
           /\ known[p][d] = ResumeSeq(d)
           /\ ResumeSeq(d) \in 0..(MaxSeq - 1)
           /\ SeqsOnDisk(d) = 1..ResumeSeq(d)
           /\ SeqsOnDisk(d)' = 1..(ResumeSeq(d) + 1)
           /\ \A e \in Datasets : e # d => SeqsOnDisk(e)' = SeqsOnDisk(e)
  <1> USE JournalAssumption
  <1>1. /\ d \in Datasets /\ y \in Days
        /\ known[p][d] \in 0..(MaxSeq - 1)
        /\ line.seq = known[p][d] + 1 /\ line.fact \in Facts
    BY DEF LedgerInv, NumberInv, Shape, JobInv, FinishAppend, Job, LineInv
  <1>2. known[p][d] = ResumeSeq(d)
    BY <1>1 DEF LedgerInv, CountersAgree, Unread
  <1>3. PICK n \in 0..MaxSeq : SeqsOnDisk(d) = 1..n
    BY <1>1 DEF LedgerInv, Gapless
  <1>4. ResumeSeq(d) = n
    BY <1>1, <1>3, GaplessResume
  <1>5. /\ \A e \in Datasets : e # d => SeqsOnDisk(e)' = SeqsOnDisk(e)
        /\ SeqsOnDisk(d)' = SeqsOnDisk(d) \cup {s \in 1..MaxSeq : s = line.seq}
    BY AppendSeqs DEF LedgerInv, NumberInv
  <1>6. (1..n) \cup {s \in 1..MaxSeq : s = n + 1} = 1..(n + 1)
    BY <1>1, <1>2, <1>4
  <1>7. SeqsOnDisk(d)' = 1..(n + 1)
    BY <1>1, <1>2, <1>3, <1>4, <1>5, <1>6
  <1> QED
    BY <1>1, <1>2, <1>3, <1>4, <1>5, <1>7

(* Unfinished bytes and the record being written. *)
LEMMA TailStep ==
    ASSUME ~ShortWrites, LedgerInv, [Next]_vars
    PROVE  TailInv' /\ LineInv'
  <1> USE JournalAssumption
  <1>t. TypeOK /\ SingleWriter /\ JobInv
    BY DEF LedgerInv, NumberInv, Shape
  <1>i. TailInv /\ LineInv
    BY DEF LedgerInv
  <1>1. CASE UNCHANGED vars
    BY <1>1, <1>i DEF TailInv, LineInv, vars
  <1>2. ASSUME NEW p \in Procs, Open(p)
        PROVE  TailInv' /\ LineInv'
    BY <1>2, <1>t, <1>i DEF TailInv, LineInv, TypeOK, SingleWriter, Open
  <1>3. ASSUME NEW p \in Procs, NEW d \in Datasets, NEW y \in Days, Truncate(p, d, y)
        PROVE  TailInv' /\ LineInv'
    BY <1>3, <1>t, <1>i DEF TailInv, LineInv, TypeOK, SingleWriter, Truncate
  <1>4. ASSUME NEW p \in Procs, QuarantineTornTail(p)
        PROVE  TailInv' /\ LineInv'
    BY <1>4, <1>t, <1>i DEF TailInv, LineInv, TypeOK, SingleWriter, QuarantineTornTail
  <1>5. ASSUME NEW p \in Procs, RepairDone(p)
        PROVE  TailInv' /\ LineInv'
    BY <1>5, <1>t, <1>i DEF TailInv, LineInv, TypeOK, SingleWriter, RepairDone
  <1>6. ASSUME NEW p \in Procs, NEW d \in Datasets, NEW y \in Days, NEW fact \in Facts,
               NEW part \in {"fragment", "whole"}, BeginAppend(p, d, y, fact, part)
        PROVE  TailInv' /\ LineInv'
    <2>1. phase[p] = "open" /\ \A e \in Datasets, z \in Days : tail[e][z].kind = "none"
      BY <1>6, <1>i DEF TailInv, BeginAppend
    <2>2. PICK line : line = [seq |-> LastSeq(p, d) + 1, fact |-> fact]
      OBVIOUS
    <2>3. line # Garbled
      BY <2>2 DEF Garbled
    <2>4. /\ tail' = [tail EXCEPT ![d][y] = [kind |-> part, line |-> line]]
          /\ job' = [job EXCEPT ![p] =
                        [ds |-> d, day |-> y, at |-> Len(file[d][y]), line |-> line]]
          /\ phase' = [phase EXCEPT ![p] = "write"]
      BY <1>6, <2>1, <2>2 DEF BeginAppend
    <2>5. \A q \in Procs : q # p => phase'[q] = "out"
      BY <1>t, <2>1, <2>4 DEF TypeOK, SingleWriter
    <2>6. job'[p].ds = d /\ job'[p].day = y /\ job'[p].line = line
      BY <1>t, <2>4 DEF TypeOK
    <2> QED
      BY <1>t, <2>1, <2>3, <2>4, <2>5, <2>6 DEF TypeOK, TailInv, LineInv
  <1>7. ASSUME NEW p \in Procs, FinishAppend(p)
        PROVE  TailInv' /\ LineInv'
    <2>0. PICK d, y : d = job[p].ds /\ y = job[p].day
      OBVIOUS
    <2>1. /\ phase[p] = "write" /\ d \in Datasets /\ y \in Days
          /\ tail' = [tail EXCEPT ![d][y] = NoTail]
          /\ phase' = [phase EXCEPT ![p] = "open"]
      BY <1>7, <1>t, <2>0 DEF FinishAppend, JobInv, Job
    <2>2. \A e \in Datasets, z \in Days : tail'[e][z].kind = "none"
      BY <1>t, <1>i, <2>0, <2>1 DEF TypeOK, TailInv, NoTail
    <2>3. \A q \in Procs : phase'[q] # "write"
      BY <1>t, <2>1 DEF TypeOK, SingleWriter
    <2> QED
      BY <2>2, <2>3 DEF TailInv, LineInv
  <1>8. ASSUME NEW p \in Procs, Close(p)
        PROVE  TailInv' /\ LineInv'
    BY <1>8, <1>t, <1>i DEF TailInv, LineInv, TypeOK, SingleWriter, Close, Leave
  <1>9. ASSUME NEW p \in Procs, Crash(p)
        PROVE  TailInv' /\ LineInv'
    BY <1>9, <1>t, <1>i DEF TailInv, LineInv, TypeOK, SingleWriter, Crash, Leave
  <1> QED
    BY <1>1, <1>2, <1>3, <1>4, <1>5, <1>6, <1>7, <1>8, <1>9 DEF Next, Step, ShortWrite

-----------------------------------------------------------------------------
(* The end of an append adds the next seq and a line that parses. *)
LEMMA AppendKeepsLedgerInv ==
    ASSUME LedgerInv, NEW p \in Procs, FinishAppend(p)
    PROVE  EveryLineWhole' /\ CountersAgree' /\ Gapless'
  <1> USE JournalAssumption
  <1>t. TypeOK /\ SingleWriter
    BY DEF LedgerInv, NumberInv, Shape
  <1>0. PICK d, y, line : d = job[p].ds /\ y = job[p].day /\ line = job[p].line
    OBVIOUS
  <1>n. PICK n : n = ResumeSeq(d)
    OBVIOUS
  <1>1. /\ d \in Datasets /\ y \in Days
        /\ line.seq = n + 1 /\ line.fact \in Facts
        /\ known[p][d] = n
        /\ n \in 0..(MaxSeq - 1)
        /\ SeqsOnDisk(d) = 1..n
        /\ SeqsOnDisk(d)' = 1..(n + 1)
        /\ \A e \in Datasets : e # d => SeqsOnDisk(e)' = SeqsOnDisk(e)
    BY <1>0, <1>n, AppendCommits
  <1>2. OneLineMore(d, y, line)
    BY <1>0, AppendFile DEF LedgerInv, NumberInv
  <1>3. EveryLineWhole'
    <2>1. line # Garbled
      BY <1>1 DEF Garbled
    <2>2. ASSUME NEW e \in Datasets, NEW z \in Days, NEW i \in DOMAIN file'[e][z]
          PROVE  file'[e][z][i] # Garbled
      <3>1. CASE e # d \/ z # y
        BY <1>2, <2>2, <3>1 DEF OneLineMore, LedgerInv, EveryLineWhole, Resumable
      <3>2. CASE e = d /\ z = y /\ i = Len(file[d][y]) + 1
        BY <1>2, <2>1, <3>2 DEF OneLineMore
      <3>3. CASE e = d /\ z = y /\ i # Len(file[d][y]) + 1
        <4>1. i \in 1..Len(file[d][y])
          BY <1>2, <2>2, <3>3 DEF OneLineMore
        <4> QED
          BY <1>1, <1>2, <3>3, <4>1 DEF OneLineMore, LedgerInv, EveryLineWhole, Resumable
      <3> QED
        BY <3>1, <3>2, <3>3
    <2> QED
      BY <2>2 DEF EveryLineWhole, Resumable
  <1>4. Gapless'
    <2>1. n + 1 \in 0..MaxSeq
      BY <1>1
    <2>2. ASSUME NEW e \in Datasets
          PROVE  \E m \in 0..MaxSeq : SeqsOnDisk(e)' = 1..m
      <3>1. CASE e = d
        BY <1>1, <2>1, <3>1
      <3>2. CASE e # d
        <4>1. PICK m \in 0..MaxSeq : SeqsOnDisk(e) = 1..m
          BY DEF LedgerInv, Gapless
        <4>2. SeqsOnDisk(e)' = 1..m
          BY <1>1, <3>2, <4>1
        <4> QED
          BY <4>2
      <3> QED
        BY <3>1, <3>2
    <2> QED
      BY <2>2 DEF Gapless
  <1>5. ResumeSeq(d)' = n + 1 /\ \A e \in Datasets : e # d => ResumeSeq(e)' = ResumeSeq(e)
    <2>1. \A e \in Datasets : e # d => ResumeSeq(e)' = ResumeSeq(e)
      BY <1>1 DEF ResumeSeq, IsTop
    <2>2. ASSUME NEW m \in 0..MaxSeq
          PROVE  IsTop(m, 1..(n + 1)) <=> m = n + 1
      BY <1>1 DEF IsTop
    <2>3. ResumeSeq(d)' = CHOOSE m \in 0..MaxSeq : IsTop(m, 1..(n + 1))
      BY <1>1 DEF ResumeSeq, IsTop
    <2> QED
      BY <1>1, <2>1, <2>2, <2>3
  <1>6. CountersAgree'
    <2>1. /\ known' = [known EXCEPT ![p][d] = known[p][d] + 1]
          /\ phase[p] = "write"
      BY <1>0 DEF FinishAppend
    <2>2. ASSUME NEW q \in Procs, NEW e \in Datasets, known'[q][e] # Unread
          PROVE  known'[q][e] = ResumeSeq(e)'
      <3>1. q = p
        <4>1. phase[q] # "out"
          <5>1. SUFFICES ASSUME phase[q] = "out" PROVE FALSE
            BY <1>t DEF TypeOK
          <5>2. q # p /\ known[q][e] = Unread
            BY <2>1, <5>1 DEF LedgerInv, NumberInv, KnownInv
          <5> QED
            BY <1>t, <2>1, <2>2, <5>2 DEF TypeOK
        <4> QED
          BY <1>t, <2>1, <4>1 DEF SingleWriter
      <3>2. CASE e = d
        BY <1>t, <1>1, <1>5, <2>1, <3>1, <3>2 DEF TypeOK
      <3>3. CASE e # d
        BY <1>t, <1>1, <1>5, <2>1, <2>2, <3>1, <3>3 DEF TypeOK, LedgerInv, CountersAgree
      <3> QED
        BY <3>2, <3>3
    <2> QED
      BY <2>2 DEF CountersAgree
  <1> QED
    BY <1>3, <1>4, <1>6

(* A counter resumed from disk, or advanced by an append, is the top. *)
LEMMA CountersStep ==
    ASSUME ~ShortWrites, LedgerInv, [Next]_vars, \A p \in Procs : ~FinishAppend(p)
    PROVE  CountersAgree'
  <1> USE JournalAssumption
  <1>t. TypeOK
    BY DEF LedgerInv, NumberInv, Shape
  <1>1. \A d \in Datasets : ResumeSeq(d)' = ResumeSeq(d)
    BY OtherStepsKeepFiles, SameFilesSameNumbers
  <1>2. CASE known' = known
    BY <1>1, <1>2 DEF LedgerInv, CountersAgree
  <1>3. ASSUME NEW p \in Procs, Close(p) \/ Crash(p)
        PROVE  CountersAgree'
    BY <1>t, <1>1, <1>3 DEF LedgerInv, CountersAgree, TypeOK, Close, Crash, Leave
  <1>4. ASSUME NEW p \in Procs, NEW d \in Datasets, NEW y \in Days, NEW fact \in Facts,
               NEW part \in {"fragment", "whole"}, BeginAppend(p, d, y, fact, part)
        PROVE  CountersAgree'
    <2>1. LastSeq(p, d) = ResumeSeq(d)
      BY DEF LastSeq, LedgerInv, CountersAgree
    <2> QED
      BY <1>t, <1>1, <1>4, <2>1 DEF LedgerInv, CountersAgree, TypeOK, BeginAppend
  <1> QED
    BY <1>2, <1>3, <1>4 DEF Next, Step, vars, Open, Truncate, QuarantineTornTail, RepairDone,
                            ShortWrite

(* Every step preserves the ledger invariant while writes are whole. *)
LEMMA LedgerInvStep ==
    ASSUME ~ShortWrites
    PROVE  LedgerInv /\ [Next]_vars => LedgerInv'
  <1> SUFFICES ASSUME LedgerInv, [Next]_vars PROVE LedgerInv'
    OBVIOUS
  <1>1. NumberInv' /\ TailInv' /\ LineInv'
    BY NumberStep, TailStep DEF LedgerInv
  <1>2. EveryLineWhole' /\ CountersAgree' /\ Gapless'
    <2>1. CASE \E p \in Procs : FinishAppend(p)
      BY <2>1, AppendKeepsLedgerInv
    <2>2. CASE \A p \in Procs : ~FinishAppend(p)
      <3>1. CountersAgree'
        BY <2>2, CountersStep
      <3>2. EveryLineWhole' /\ Gapless'
        BY <2>2, OtherStepsKeepFiles, SameFilesSameNumbers
           DEF LedgerInv, Gapless
      <3> QED
        BY <3>1, <3>2
    <2> QED
      BY <2>1, <2>2
  <1> QED
    BY <1>1, <1>2 DEF LedgerInv

-----------------------------------------------------------------------------
(* No crash, repair or change of writer leaves a gap in the numbering. *)
THEOREM SeqsAreGapless == ASSUME ~ShortWrites PROVE Spec => []SeqGapless
  <1>1. LedgerInv => SeqGapless
    BY DEF LedgerInv, Gapless, SeqGapless
  <1> QED
    BY <1>1, LedgerInit, LedgerInvStep, PTL DEF Spec

(* No complete journal line is unparseable: repair always comes first. *)
THEOREM EveryLineIsARecord == ASSUME ~ShortWrites PROVE Spec => []NoGarbledLine
  <1>1. LedgerInv => NoGarbledLine
    BY DEF LedgerInv, EveryLineWhole, NoGarbledLine
  <1> QED
    BY <1>1, LedgerInit, LedgerInvStep, PTL DEF Spec

(* The writer's counter is the highest seq on disk. *)
THEOREM CounterIsOnDisk == ASSUME ~ShortWrites PROVE Spec => []WriterAgreesWithDisk
  <1>1. LedgerInv => WriterAgreesWithDisk
    BY DEF LedgerInv, CountersAgree, WriterAgreesWithDisk
  <1> QED
    BY <1>1, LedgerInit, LedgerInvStep, PTL DEF Spec

(* A step keeps every complete line where it is. *)
LEMMA LinesStay ==
    ASSUME NumberInv, NumberInv', [Next]_vars
    PROVE  \A d \in Datasets, y \in Days :
               /\ Len(file'[d][y]) >= Len(file[d][y])
               /\ \A i \in DOMAIN file[d][y] : file'[d][y][i] = file[d][y][i]
  <1> DEFINE Kept == \A d \in Datasets, y \in Days :
                        /\ Len(file'[d][y]) >= Len(file[d][y])
                        /\ \A i \in DOMAIN file[d][y] : file'[d][y][i] = file[d][y][i]
  <1>1. \A d \in Datasets, y \in Days : Len(file[d][y]) \in Nat
    <2>1. \A d \in Datasets, y \in Days : file[d][y] \in Seq(Line)
      BY DEF NumberInv, Shape, TypeOK
    <2> QED
      BY <2>1, LenProperties
  <1>2. CASE \A p \in Procs : ~FinishAppend(p)
    BY <1>1, <1>2, OtherStepsKeepFiles
  <1>3. ASSUME NEW p \in Procs, FinishAppend(p)
        PROVE  Kept
    <2>0. PICK d, y, line : d = job[p].ds /\ y = job[p].day /\ line = job[p].line
      OBVIOUS
    <2>1. OneLineMore(d, y, line)
      BY <1>3, <2>0, AppendFile DEF NumberInv
    <2>2. file'[d][y] \in Seq(Line)
      BY <2>1 DEF OneLineMore, NumberInv, Shape, TypeOK
    <2>3. Len(file'[d][y]) = Len(file[d][y]) + 1
      BY <2>1, <2>2, LenProperties DEF OneLineMore
    <2>4. ASSUME NEW e \in Datasets, NEW z \in Days
          PROVE  /\ Len(file'[e][z]) >= Len(file[e][z])
                 /\ \A i \in DOMAIN file[e][z] : file'[e][z][i] = file[e][z][i]
      <3>1. CASE e = d /\ z = y
        <4>1. Len(file'[d][y]) >= Len(file[d][y])
          BY <1>1, <2>3, <3>1
        <4>2. \A i \in DOMAIN file[d][y] : file'[d][y][i] = file[d][y][i]
          BY <2>1 DEF OneLineMore
        <4> QED
          BY <3>1, <4>1, <4>2
      <3>2. CASE e # d \/ z # y
        BY <1>1, <2>1, <3>2 DEF OneLineMore
      <3> QED
        BY <3>1, <3>2
    <2> QED
      BY <2>4
  <1> QED
    BY <1>2, <1>3

(* No step of any process changes or removes a complete line. *)
THEOREM JournalIsAppendOnly == Spec => AppendOnly
  <1> DEFINE Kept == \A d \in Datasets, y \in Days :
                        /\ Len(file'[d][y]) >= Len(file[d][y])
                        /\ \A i \in DOMAIN file[d][y] : file'[d][y][i] = file[d][y][i]
  <1>1. NumberInv /\ NumberInv' /\ [Next]_vars => [Kept]_vars
    BY LinesStay
  <1> QED
    BY <1>1, NumberInit, NumberStep, PTL DEF Spec, AppendOnly

(* The end of an append is the ledger's Commit; every other step stutters. *)
LEMMA StepRefines ==
    ASSUME ~ShortWrites, LedgerInv, LedgerInv', [Next]_vars
    PROVE  [L!LNext]_<<Committed, [d \in Datasets |-> ResumeSeq(d)]>>
  <1> USE JournalAssumption
  <1>1. CASE \A p \in Procs : ~FinishAppend(p)
    <2>1. Committed' = Committed /\ \A d \in Datasets : ResumeSeq(d)' = ResumeSeq(d)
      BY <1>1, OtherStepsKeepFiles, SameFilesSameNumbers
    <2>2. [d \in Datasets |-> ResumeSeq(d)]' = [d \in Datasets |-> ResumeSeq(d)]
      BY <2>1
    <2> QED
      BY <2>1, <2>2
  <1>2. ASSUME NEW p \in Procs, FinishAppend(p)
        PROVE  L!LNext
    <2>0. PICK d, y, line : d = job[p].ds /\ y = job[p].day /\ line = job[p].line
      OBVIOUS
    <2>n. PICK n : n = ResumeSeq(d)
      OBVIOUS
    <2>1. /\ d \in Datasets /\ y \in Days
          /\ line.seq = n + 1 /\ line.fact \in Facts
          /\ n \in 0..(MaxSeq - 1)
          /\ SeqsOnDisk(d)' = 1..(n + 1)
          /\ \A e \in Datasets : e # d => SeqsOnDisk(e)' = SeqsOnDisk(e)
      BY <1>2, <2>0, <2>n, AppendCommits
    <2>2. OneLineMore(d, y, line)
      BY <1>2, <2>0, AppendFile DEF LedgerInv, NumberInv
    <2>l. line = [seq |-> n + 1, fact |-> line.fact]
      BY <2>1, <2>2 DEF OneLineMore, Line
    <2> DEFINE rec == [ds |-> d, day |-> y, seq |-> n + 1, fact |-> line.fact]
               All == [ds: Datasets, day: Days, seq: 1..MaxSeq, fact: Facts]
               On(r) == \E i \in DOMAIN file[r.ds][r.day] :
                           file[r.ds][r.day][i] = [seq |-> r.seq, fact |-> r.fact]
               OnNext(r) == \E i \in DOMAIN file'[r.ds][r.day] :
                           file'[r.ds][r.day][i] = [seq |-> r.seq, fact |-> r.fact]
    <2>3. rec \in All
      BY <2>1
    <2>4. ASSUME NEW r \in All
          PROVE  OnNext(r) <=> (On(r) \/ r = rec)
      <3>1. CASE r.ds # d \/ r.day # y
        <4>1. r.ds \in Datasets /\ r.day \in Days /\ r # rec
          BY <2>4, <3>1
        <4>2. file'[r.ds][r.day] = file[r.ds][r.day]
          BY <2>2, <3>1, <4>1 DEF OneLineMore
        <4> QED
          BY <4>1, <4>2, Zenon
      <3>2. CASE r.ds = d /\ r.day = y
        <4>1. /\ Len(file[d][y]) \in Nat
              /\ DOMAIN file[d][y] = 1..Len(file[d][y])
              /\ DOMAIN file'[d][y] = 1..(Len(file[d][y]) + 1)
              /\ \A i \in 1..Len(file[d][y]) : file'[d][y][i] = file[d][y][i]
              /\ file'[d][y][Len(file[d][y]) + 1] = line
          BY <2>2 DEF OneLineMore
        <4>2. r = rec <=> [seq |-> r.seq, fact |-> r.fact] = line
          BY <2>4, <2>l, <3>2
        <4>3. ASSUME NEW v
              PROVE  (\E i \in DOMAIN file'[d][y] : file'[d][y][i] = v)
                     <=> ((\E i \in DOMAIN file[d][y] : file[d][y][i] = v) \/ v = line)
          <5>1. ASSUME NEW i \in DOMAIN file'[d][y], file'[d][y][i] = v
                PROVE  (\E j \in DOMAIN file[d][y] : file[d][y][j] = v) \/ v = line
            <6>1. CASE i = Len(file[d][y]) + 1
              BY <4>1, <5>1, <6>1
            <6>2. CASE i # Len(file[d][y]) + 1
              <7>1. i \in 1..Len(file[d][y])
                BY <4>1, <5>1, <6>2
              <7> QED
                BY <4>1, <5>1, <7>1
            <6> QED
              BY <6>1, <6>2
          <5>2. ASSUME NEW i \in DOMAIN file[d][y], file[d][y][i] = v
                PROVE  \E j \in DOMAIN file'[d][y] : file'[d][y][j] = v
            BY <4>1, <5>2
          <5>3. ASSUME v = line
                PROVE  \E j \in DOMAIN file'[d][y] : file'[d][y][j] = v
            BY <4>1, <5>3
          <5> QED
            BY <5>1, <5>2, <5>3
        <4>4. PICK v : v = [seq |-> r.seq, fact |-> r.fact]
          OBVIOUS
        <4>5. /\ On(r) <=> \E i \in DOMAIN file[d][y] : file[d][y][i] = v
              /\ OnNext(r) <=> \E i \in DOMAIN file'[d][y] : file'[d][y][i] = v
          BY <3>2, <4>4
        <4> HIDE DEF On, OnNext, rec
        <4> QED
          BY <4>2, <4>3, <4>4, <4>5
      <3> QED
        BY <3>1, <3>2
    <2>5. Committed = {r \in All : On(r)} /\ Committed' = {r \in All : OnNext(r)}
      BY DEF Committed
    <2> HIDE DEF On, OnNext, All, rec
    <2>6. Committed' = Committed \cup {rec}
      BY <2>3, <2>4, <2>5
    <2>7. \A e \in Datasets : e # d => ResumeSeq(e)' = ResumeSeq(e)
      BY <2>1 DEF ResumeSeq, IsTop
    <2>8. ResumeSeq(d)' = n + 1
      <3>1. ASSUME NEW m \in 0..MaxSeq
            PROVE  IsTop(m, 1..(n + 1)) <=> m = n + 1
        BY <2>1 DEF IsTop
      <3>2. ResumeSeq(d)' = CHOOSE m \in 0..MaxSeq : IsTop(m, 1..(n + 1))
        BY <2>1 DEF ResumeSeq, IsTop
      <3> QED
        BY <2>1, <3>1, <3>2
    <2>9. [e \in Datasets |-> ResumeSeq(e)]' =
              [[e \in Datasets |-> ResumeSeq(e)] EXCEPT ![d] = n + 1]
      BY <2>1, <2>7, <2>8
    <2>10. L!Commit(d, y, line.fact)
      BY <2>1, <2>n, <2>6, <2>9 DEF L!Commit, rec
    <2> QED
      BY <2>1, <2>10 DEF L!LNext
  <1> QED
    BY <1>1, <1>2

(* The journal implements the ledger. *)
THEOREM JournalImplementsLedger == ASSUME ~ShortWrites PROVE Spec => ImplementsLedger
  <1>1. Init => L!LInit
    <2> SUFFICES ASSUME Init PROVE L!LInit
      OBVIOUS
    <2>1. \A d \in Datasets, y \in Days : DOMAIN file[d][y] = {}
      BY DEF Init
    <2>2. Committed = {}
      BY <2>1 DEF Committed
    <2>3. \A d \in Datasets : SeqsOnDisk(d) = {}
      BY <2>1 DEF SeqsOnDisk
    <2>4. \A d \in Datasets : ResumeSeq(d) = 0
      <3>1. \A d \in Datasets : IsTop(0, SeqsOnDisk(d))
        BY <2>3 DEF IsTop
      <3>2. 0 \in 0..MaxSeq
        BY JournalAssumption
      <3> QED
        BY <3>1, <3>2, TopIsResumeSeq
    <2> QED
      BY <2>2, <2>4 DEF L!LInit
  <1>2. LedgerInv /\ LedgerInv' /\ [Next]_vars
            => [L!LNext]_<<Committed, [d \in Datasets |-> ResumeSeq(d)]>>
    BY StepRefines
  <1> QED
    BY <1>1, <1>2, LedgerInit, LedgerInvStep, PTL DEF Spec, ImplementsLedger, L!LSpec
=============================================================================
