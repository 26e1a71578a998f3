--------------------------- MODULE DeliveryLedger ---------------------------
(***************************************************************************)
(* What the durable delivery of the notification manager promises, with    *)
(* workers, queues, processes, crashes and the network left out: for every *)
(* target a verdict, the cards the platform posted, and the sends that an  *)
(* operator granted on top of the first one (pkg/notification_spool).      *)
(***************************************************************************)
EXTENDS Naturals

CONSTANT Targets

VARIABLES verdict, posted, granted

ledgerVars == <<verdict, posted, granted>>

\* "delivered" and "refused" are verdicts of the platform, "settled" one of an
\* operator; a target that was cleaned up is "forgotten".
Verdicts == {"none", "waiting", "sending", "delivered", "refused", "unknown", "settled", "forgotten"}

LedgerInit ==
    /\ verdict = [t \in Targets |-> "none"]
    /\ posted = [t \in Targets |-> 0] /\ granted = [t \in Targets |-> 0]

Judge(S, v) == verdict' = [t \in Targets |-> IF t \in S THEN v ELSE verdict[t]]

\* No card was posted but for a send that the operator paid for.
Unsent(t) == posted[t] <= granted[t]

Plan ==
    \E S \in SUBSET {t \in Targets : verdict[t] = "none"} :
        Judge(S, "waiting") /\ UNCHANGED <<posted, granted>>

Send(t) ==
    /\ verdict[t] = "waiting" /\ Unsent(t)
    /\ Judge({t}, "sending") /\ UNCHANGED <<posted, granted>>

\* The platform posts a card, perhaps long after its sender gave up; but with no
\* send granted, never for a target it has judged or that waits to be sent.
Post(t) ==
    /\ Unsent(t)
    /\ granted[t] = 0 => verdict[t] \in {"sending", "unknown", "settled", "forgotten"}
    /\ posted' = [posted EXCEPT ![t] = @ + 1] /\ UNCHANGED <<verdict, granted>>

\* The end of a send.
Conclude(t) ==
    /\ verdict[t] = "sending"
    /\ \/ posted[t] > 0 /\ Judge({t}, "delivered")
       \/ Unsent(t) /\ Judge({t}, "refused")
       \/ Unsent(t) /\ Judge({t}, "waiting")
       \/ Judge({t}, "unknown")
    /\ UNCHANGED <<posted, granted>>

\* A new owner of the ledger finds the sends of the one before.
Interrupt ==
    /\ Judge({t \in Targets : verdict[t] = "sending"}, "unknown")
    /\ UNCHANGED <<posted, granted>>

Decide(t) ==
    /\ verdict[t] \in {"unknown", "refused", "settled"}
    /\ \/ Judge({t}, "settled") /\ UNCHANGED granted
       \/ Judge({t}, "waiting") /\ granted' = [granted EXCEPT ![t] = @ + 1]
    /\ UNCHANGED posted

\* A plan that is over is erased as a whole, with what it had left out.
Forget ==
    \E S \in SUBSET {t \in Targets : verdict[t] \in {"none", "delivered", "settled"}} :
        Judge(S, "forgotten") /\ UNCHANGED <<posted, granted>>

LedgerNext ==
    \/ Plan \/ Interrupt \/ Forget
    \/ \E t \in Targets : Send(t) \/ Post(t) \/ Conclude(t) \/ Decide(t)

LedgerSpec == LedgerInit /\ [][LedgerNext]_ledgerVars
-----------------------------------------------------------------------------
\* A target gets one card, and one more for every send an operator grants; what
\* waits to be sent, or was refused by the platform, has no card without a grant.
LedgerAtMostOnce ==
    \A t \in Targets :
        /\ posted[t] <= 1 + granted[t]
        /\ granted[t] = 0 /\ verdict[t] \in {"none", "waiting", "refused"} => posted[t] = 0

\* Once the platform has judged a target that no operator touched, the number of
\* its cards is final, and so it stays while the target is not decided upon.
JudgedIsFinal ==
    [][\A t \in Targets : granted[t] = 0 /\ verdict[t] \in {"delivered", "refused"}
          => posted'[t] = posted[t]]_ledgerVars
=============================================================================
