----------------------------- MODULE MCJournal ------------------------------
(* Two processes contend for the writer of a root with two datasets, whose *)
(* day files a backfill may write out of order.                            *)
EXTENDS Journal, TLC

CONSTANTS p1, p2

MCProcs    == {p1, p2}
MCDatasets == {"cal", "news"}
MCDays     == 1..2
MCSymmetry == Permutations(MCProcs)

(* Bound: at most two distinct torn tails are ever left or quarantined. *)
MaxTorn    == 2
FewTorn    == Cardinality(torn \cup quarantine) <= MaxTorn
=============================================================================
