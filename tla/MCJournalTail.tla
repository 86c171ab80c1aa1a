--------------------------- MODULE MCJournalTail ----------------------------
(* One writer process, one dataset, lines of one or two widths. *)
EXTENDS JournalTail

MCSize == [f \in Facts |-> IF f = "short" THEN 1 ELSE 2]
=============================================================================
