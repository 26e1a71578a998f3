--------------------------- MODULE SpoolInvariant ---------------------------
(***************************************************************************)
(* The inductive invariant of the spool, and what a step may do to one row *)
(* in a state that satisfies it.  NotificationSpool_proofs proves both.    *)
(***************************************************************************)
EXTENDS NotificationSpool

\* A plan is listed by its own intake only, and an absent intake lists none.
PlansOwned ==
    \A i \in Intakes :
      /\ intakes[i].targets \subseteq {i} \X Items
      /\ intakes[i].status = "absent" => intakes[i].targets = {}

\* The limit of an open Store is one of those a process may configure.
LimitAllowed == handle.open => handle.limit \in Limits

\* A dedupe key leads to the latest plan of its intent, and the earlier ones
\* are AM plans that are complete and a repeat interval older.
KeysLeadToLatest ==
    \A i \in Stored : intakes[i].key # NoKey =>
      LET latest == dedupe[intakes[i].key]
      IN  /\ latest # NoIntake
          /\ i # latest =>
               /\ intakes[i].key \in AMKeys
               /\ ~Incomplete(i)
               /\ intakes[i].accepted + RepeatInterval <= intakes[latest].accepted

\* What is true of the spool between two transactions.
SpoolInv ==
    /\ SpoolTypeOK /\ IndexesExact /\ HistoryWaitsForOriginal
    /\ ActiveCountExact /\ ActiveWithinLimit /\ SendingIsOwned
    /\ PlansAreWhole /\ PlansOwned /\ LimitAllowed
    /\ OnePlanPerIntent /\ KeysLeadToLatest

\* What a step may do to one row.
RowStep(t) ==
    /\ targets'[t].attempts > targets[t].attempts =>
         ~DeliveryPaused(targets[t].profile)
    /\ Present(t) /\ targets'[t].state # "absent" =>
         targets'[t].profile = targets[t].profile
    /\ \/ targets'[t].profile \in {targets[t].profile, NoProfile}
       \/ targets'[t].profile.version \in registered[targets'[t].profile.lane]
=============================================================================
