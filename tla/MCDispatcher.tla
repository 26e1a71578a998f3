---------------------------- MODULE MCDispatcher ----------------------------
(* Instances of DurableDispatcher and its ledger for model checking. *)
EXTENDS DispatcherLedger, TLC

SingleDeps == [i \in Items |-> {}]
WorkerSymmetry == Permutations(Workers)
HashOrder == [t \in TargetIds |-> 2 * t[1] + (IF t[2] = "history" THEN 1 ELSE 0)]

\* One original and the history of its alert.
HistoryDeps == [i \in Items |-> IF i = "history" THEN {"chat"} ELSE {}]
=============================================================================
