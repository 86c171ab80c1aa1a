------------------------------ MODULE MCIngest ------------------------------
(* Two facts with two values each.  A live batch lists facts oldest first, *)
(* as a provider's history does; Shuffled batches do not.                  *)
EXTENDS Ingest, TLC

CONSTANTS d1, d2, e1, b1, b2

C(k, v)    == [key |-> k, val |-> v]
F(k, v, t) == [key |-> k, val |-> v, at |-> t]

MCKeys     == {1, 2}
MCLive     == {<<C(1, 5)>>, <<C(1, 6)>>, <<C(1, 5), C(2, 5)>>, <<C(1, 6), C(2, 5)>>,
               <<C(1, Bad), C(2, 6)>>}
MCShuffled == {<<C(2, 5), C(1, 5)>>}
MCFile     == {<<F(1, 5, 1)>>, <<F(1, 6, 1), F(2, 5, 2)>>, <<F(2, 6, 2), F(2, 5, 9)>>}
=============================================================================
