---------------------------- MODULE MCScheduler -----------------------------
(* Small instances of Scheduler, one tick standing for five minutes in the *)
(* cadence of datasets/cal.high_impact.yaml: polled every 6, every 1 from 3*)
(* before to 6 after an event.                                             *)
EXTENDS Scheduler, TLC

Plain(n)     == [s \in Sources |-> n]
MCSteady     == [s \in Sources |-> IF s = 1 THEN 3 ELSE 4]
CalSteady    == Plain(6)
CalEvery     == Plain(1)
CalBefore    == Plain(3)
CalAfter     == Plain(6)
CalEvents    == Plain({10})
MixedEvery   == [s \in Sources |-> IF s = 2 THEN 1 ELSE 0]
MixedBefore  == [s \in Sources |-> IF s = 2 THEN 2 ELSE 0]
MixedTrouble == [s \in Sources |-> IF s = 1 THEN Kinds ELSE {"store"}]
MixedEvents  == [s \in Sources |-> IF s = 2 THEN {5} ELSE {}]
=============================================================================
