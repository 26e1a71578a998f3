------------------------------ MODULE MCLanes -------------------------------
(* Three scenarios of NotificationSpool in one instance: the lanes of one   *)
(* opened spool, the competition for its capacity, and intents that repeat. *)
EXTENDS MCSpool

VARIABLE scenario

\* A spool opened once, and requests without a key.
OpenOnce == handle.owner = 0 /\ \E limit \in Limits : Open(limit)
SubmitUnkeyed == SubmitAny /\ UNCHANGED dedupe

\* Both lanes and unprofiled work in one queue, one target to a plan and one
\* attempt on a target.
LanesNext ==
    \/ OpenOnce
    \/ Stop \/ RegisterAny \/ ControlAny
    \/ SubmitUnkeyed /\ \A t \in TargetIds : t[2] # "chat" => targets'[t].state = "absent"
    \/ /\ Claim \/ \E t \in TargetIds : ClaimForRecovery(t)
       /\ \A t \in TargetIds : targets'[t].attempts <= 1
    \/ FinishAny
    \/ \E t \in TargetIds, state \in Completions \ {"unknown"} : Resolve(t, state)
    \/ CleanupCompleted

\* A plan of two targets, a later one of a single target, and as many places
\* as the first needs: intake competes with the retry of a dead letter.
CapacityNext ==
    \/ OpenOnce
    \/ SubmitUnkeyed /\ targets'[<<2, "webhook">>].state = "absent"
    \/ Claim \/ FinishAny
    \/ \E t \in TargetIds, state \in Completions \ {"unknown"} : Resolve(t, state)
    \/ CleanupCompleted

\* Over time and a reopening, keyed requests of one target on the test lane,
\* and the outcomes that settle it or leave it uncertain.
RepeatNext ==
    \/ \E limit \in Limits : Open(limit)
    \/ Stop \/ Tick
    \/ RegisterAny
    \/ \E v \in Versions :
         \/ Control(TestLane, "prepare", v, 1)
         \/ Control(TestLane, "activate", v, 2)
    \/ \E i \in Intakes, key \in Keys, hash \in Hashes, plan \in SUBSET {"chat"} :
         Submit(i, key, hash, plan, ProfileSnapshot(TestLane),
                IF key \in AMKeys THEN RepeatInterval ELSE 0)
    \/ Claim /\ \A t \in TargetIds : targets'[t].attempts <= 1
    \/ \E t \in TargetIds, state \in Completions \ {"retryable"} :
         Finish([target |-> t, owner |-> handle.owner,
                 attempt |-> targets[t].attempt], state, now)
    \/ \E t \in TargetIds, state \in {"delivered", "dead_letter"} : Resolve(t, state)
    \/ CleanupCompleted

LanesInit == SpoolInit /\ scenario \in {"lanes", "capacity", "repeat"}

ScenarioNext ==
    /\ \/ scenario = "lanes" /\ LanesNext
       \/ scenario = "capacity" /\ CapacityNext
       \/ scenario = "repeat" /\ RepeatNext
    /\ UNCHANGED scenario

LanesSpec == LanesInit /\ [][ScenarioNext]_<<spoolVars, scenario>>
=============================================================================
