------------------------------- MODULE Ledger -------------------------------
(***************************************************************************)
(* What the journal promises, whatever its files look like: one committed  *)
(* log per dataset, numbered 1, 2, 3, ... without a gap or a repeat, in    *)
(* which nothing is ever changed or removed.  Processes, locks, day files, *)
(* torn lines and repairs do not appear here; Journal.tla has them and is  *)
(* shown to implement this specification.                                  *)
(***************************************************************************)
EXTENDS Naturals

CONSTANTS Datasets,  \* the datasets of one hub root
          Days,      \* the UTC calendar days a record can be filed under
          Facts,     \* what a record says, abstracted to a value
          MaxSeq     \* bound on the records of one dataset

VARIABLES committed, \* every record ever committed
          top        \* the highest seq of each dataset, 0 if it has none

LedgerRecord == [ds: Datasets, day: Days, seq: 1..MaxSeq, fact: Facts]

LInit ==
    /\ committed = {}
    /\ top = [d \in Datasets |-> 0]

(* JournalWriter.append as a caller sees it: the record gets the next seq. *)
Commit(d, day, fact) ==
    /\ top[d] < MaxSeq
    /\ committed' = committed \cup
           {[ds |-> d, day |-> day, seq |-> top[d] + 1, fact |-> fact]}
    /\ top' = [top EXCEPT ![d] = top[d] + 1]

LNext == \E d \in Datasets, day \in Days, fact \in Facts : Commit(d, day, fact)

LSpec == LInit /\ [][LNext]_<<committed, top>>
=============================================================================
