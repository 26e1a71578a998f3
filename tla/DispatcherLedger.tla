-------------------------- MODULE DispatcherLedger --------------------------
(***************************************************************************)
(* The durable dispatcher implements the delivery ledger: the refinement   *)
(* mapping.                                                                *)
(***************************************************************************)
EXTENDS DurableDispatcher

VerdictOf(t) ==
    LET row == targets[t]
        platform == row.outcome = "platform"
    IN  CASE row.state = "absent" -> IF intakes[t[1]].status = "tombstone" THEN "forgotten" ELSE "none"
          [] Due(row.state) -> "waiting"
          [] row.state = "delivered" -> IF platform THEN "delivered" ELSE "settled"
          [] row.state = "dead_letter" -> IF platform THEN "refused" ELSE "settled"
          [] OTHER -> row.state

Ledger == INSTANCE DeliveryLedger WITH
              Targets <- TargetIds, verdict <- [t \in TargetIds |-> VerdictOf(t)],
              posted <- accepted, granted <- grants

\* Every step of the workers, the recovery tool, the platform, crashes and disk
\* faults is a step of the ledger or none that it can see.
ImplementsLedger == Ledger!LedgerSpec

=============================================================================
