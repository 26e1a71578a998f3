-------------------------- MODULE NotificationSpool --------------------------
(***************************************************************************)
(* The durable notification spool of pkg/notification_spool (store.go,     *)
(* maintenance.go, health.go).  Every exported operation of Store is one   *)
(* bbolt transaction, hence one action: transactions of a database are     *)
(* serialised, and an operation that returns an error rolls back and       *)
(* changes nothing, so a rejected call is a step that is not taken.        *)
(*                                                                         *)
(* The file lock that bolt.Open takes makes at most one process hold a     *)
(* Store: the writer, or the recovery tool.  A crash loses the handle and  *)
(* keeps the buckets.                                                      *)
(***************************************************************************)
EXTENDS DeliveryProfiles, FiniteSets

CONSTANTS Intakes,       \* intake IDs, numbered in their key order
          Items,         \* frozen contents (receiver, destination, revision)
          Deps,          \* the DependencyRevisions of a content
          Rank,          \* the order of target IDs, which are hashes
          AMKeys,        \* dedupe keys with a repeat interval
          ExplicitKeys,  \* dedupe keys that never expire
          NoKey,         \* a request without an idempotency key
          Hashes,        \* request hashes
          NoSnapshot,    \* intake without delivery profiles
          RepeatInterval, Retention, RetryDelay,
          Limits,        \* the MaxTargets a process may open the spool with
          Batch,         \* intakes examined by one cleanup
          DiskFaults,    \* TRUE: the disk may refuse commits for a while
          MaxTime, MaxAttempts, MaxOpens   \* bounds of a model

TargetIds == Intakes \X Items
Keys == AMKeys \cup ExplicitKeys
NoIntake == 0
NoTarget == <<0, 0>>

ASSUME SpoolConstants ==
    /\ Intakes \subseteq Nat \ {NoIntake} /\ IsFiniteSet(Intakes)
    /\ IsFiniteSet(Items)
    /\ Deps \in [Items -> SUBSET Items]
    /\ Rank \in [TargetIds -> Nat]
    /\ \A s, t \in TargetIds : Rank[s] = Rank[t] => s = t
    /\ NoKey \notin Keys /\ AMKeys \cap ExplicitKeys = {}
    /\ NoSnapshot \notin Snapshot
    /\ RepeatInterval \in Nat \ {0} /\ Retention \in Nat /\ RetryDelay \in Nat
    /\ Limits \subseteq Nat /\ Limits # {}
    /\ Batch \in Nat \ {0}
    /\ DiskFaults \in BOOLEAN
    /\ MaxTime \in Nat /\ MaxAttempts \in Nat /\ MaxOpens \in Nat

VARIABLES targets,   \* bucket "targets": one row for every target ID
          ready,     \* bucket "ready": queue keys (AvailableAt, target ID)
          blocked,   \* bucket "blocked": history waiting for its original
          active,    \* meta "active_targets"
          intakes,   \* bucket "intakes"
          dedupe,    \* bucket "dedupe": key -> intake
          cursor,    \* meta "cleanup_cursor"
          grants,    \* audit rows that return a target to sending, by target
          handle,    \* the open Store: owner, limits.MaxTargets, health
          disk,      \* whether the disk accepts a commit (environment)
          now        \* the wall clock

bucketVars == <<targets, ready, blocked, active, intakes, dedupe, cursor, grants>>
spoolVars == <<bucketVars, profileVars, handle, disk, now>>

States == {"absent", "pending", "sending", "delivered", "retryable",
           "unknown", "dead_letter"}
Completions == {"delivered", "retryable", "unknown", "dead_letter"}

\* evidence names the target whose attempt a row's outcome reports.
Row == [state : States, attempts : Nat, owner : Nat, attempt : Nat,
        avail : Nat, upd : Nat,
        outcome : {"none", "platform", "previous_owner_interrupted",
                   "operator_reconciled"},
        evidence : TargetIds \cup {NoTarget},
        profile : Profile \cup {NoProfile}]

\* status is TerminalReason; key is auxiliary: the code keeps the key of an
\* intake in the dedupe bucket only.
IntakeRow == [status : {"absent", "planned", "filtered", "tombstone"},
              hash : Hashes \cup {NoKey}, accepted : Nat,
              targets : SUBSET TargetIds, key : Keys \cup {NoKey}]

ActiveState(st) == st \in {"pending", "retryable", "sending", "unknown"}
QueueKey(id, at) == [at |-> at, id |-> id]
Due(st) == st \in {"pending", "retryable"}
ActiveTargets == {t \in TargetIds : ActiveState(targets[t].state)}

HasRoom(n) == active + n <= handle.limit

\* What a row that goes from one state to another adds to the counter.
ActiveChange(from, to) ==
    (IF ActiveState(to) THEN 1 ELSE 0) - (IF ActiveState(from) THEN 1 ELSE 0)

\* changeActiveCount refuses to underflow.
ChangeActiveCount(delta) ==
    /\ active + delta >= 0
    /\ active' = active + delta

\* Every bucket of the database holds rows of its own form.
SpoolTypeOK ==
    /\ ProfilesTypeOK
    /\ targets \in [TargetIds -> Row]
    /\ ready \subseteq [at : Nat, id : TargetIds]
    /\ blocked \subseteq TargetIds
    /\ active \in Nat
    /\ intakes \in [Intakes -> IntakeRow]
    /\ dedupe \in [Keys -> Intakes \cup {NoIntake}]
    /\ cursor \in Intakes \cup {NoIntake}
    /\ grants \in [TargetIds -> Nat]
    /\ handle \in [open : BOOLEAN, owner : Nat, limit : Nat, healthy : BOOLEAN]
    /\ disk \in BOOLEAN
    /\ now \in Nat
-----------------------------------------------------------------------------
AbsentRow == [state |-> "absent", attempts |-> 0, owner |-> 0, attempt |-> 0,
              avail |-> 0, upd |-> 0, outcome |-> "none",
              evidence |-> NoTarget, profile |-> NoProfile]
AbsentIntake == [status |-> "absent", hash |-> NoKey, accepted |-> 0,
                 targets |-> {}, key |-> NoKey]

SpoolInit ==
    /\ ProfilesInit
    /\ targets = [t \in TargetIds |-> AbsentRow]
    /\ ready = {} /\ blocked = {} /\ active = 0
    /\ intakes = [i \in Intakes |-> AbsentIntake]
    /\ dedupe = [k \in Keys |-> NoIntake]
    /\ cursor = NoIntake
    /\ grants = [t \in TargetIds |-> 0]
    /\ handle = [open |-> FALSE, owner |-> 0, limit |-> 0, healthy |-> TRUE]
    /\ disk = TRUE
    /\ now = 0

\* Mutant: a successful commit does not clear the storage error.
CommitKeepsError ==
    /\ handle.open /\ disk
    /\ UNCHANGED <<handle, disk, now>>

\* Store.update when the commit succeeds: it clears the storage error.
Commit ==
    /\ handle.open /\ disk
    /\ handle' = [handle EXCEPT !.healthy = TRUE]
    /\ UNCHANGED <<disk, now>>

\* Store.update when fn succeeds and the commit does not: nothing is stored.
WriteFails ==
    /\ handle.open /\ ~disk
    /\ handle' = [handle EXCEPT !.healthy = FALSE]
    /\ UNCHANGED <<bucketVars, profileVars, disk, now>>

\* Mutant: a new owner leaves Sending rows as they are.
OpenKeepsSending(limit) ==
    /\ ~handle.open /\ disk
    /\ handle.owner < MaxOpens
    /\ handle' = [open |-> TRUE, owner |-> handle.owner + 1, limit |-> limit,
                  healthy |-> TRUE]
    /\ active' = Cardinality(ActiveTargets)
    /\ UNCHANGED <<targets, ready, blocked, intakes, dedupe, cursor, grants,
                   profileVars, disk, now>>

\* Open: the exclusive lock, a fresh owner, Sending becomes Unknown, and the
\* active counter is recounted.
Open(limit) ==
    /\ ~handle.open /\ disk
    /\ handle.owner < MaxOpens
    /\ handle' = [open |-> TRUE, owner |-> handle.owner + 1, limit |-> limit,
                  healthy |-> TRUE]
    /\ targets' = [t \in TargetIds |->
         IF targets[t].state = "sending"
         THEN [targets[t] EXCEPT !.state = "unknown", !.upd = now,
                                 !.outcome = "previous_owner_interrupted"]
         ELSE targets[t]]
    /\ active' = Cardinality(ActiveTargets)
    /\ UNCHANGED <<ready, blocked, intakes, dedupe, cursor, grants,
                   profileVars, disk, now>>

\* Close, or the death of the process.
Stop ==
    /\ handle.open
    /\ handle' = [handle EXCEPT !.open = FALSE]
    /\ UNCHANGED <<bucketVars, profileVars, disk, now>>
-----------------------------------------------------------------------------
(***************************************************************************)
(* Intake.                                                                 *)
(***************************************************************************)
\* Every dependency is the revision of an original of the same plan.
ValidPlan(plan) ==
    \A i \in plan : \A d \in Deps[i] : d \in plan /\ Deps[d] = {}

Incomplete(i) == \E t \in intakes[i].targets : targets[t].state # "delivered"

\* Mutant: uncertain work does not hold back a repeat.
DuplicateByTime(key, window) ==
    /\ key # NoKey
    /\ dedupe[key] # NoIntake
    /\ window = 0 \/ now < intakes[dedupe[key]].accepted + window

\* The key is already taken and does not admit another plan yet.
Duplicate(key, window) ==
    /\ key # NoKey
    /\ dedupe[key] # NoIntake
    /\ \/ window = 0
       \/ Incomplete(dedupe[key])
       \/ now < intakes[dedupe[key]].accepted + window

NewRow(snap) ==
    [AbsentRow EXCEPT !.state = "pending", !.avail = now, !.upd = now,
       !.profile = IF snap = NoSnapshot THEN NoProfile
                   ELSE [lane |-> snap.lane, version |-> snap.version]]

Admit(i, key, hash, plan, snap) ==
    LET ids == {i} \X plan
        history == {t \in ids : Deps[t[2]] # {}}
    IN  /\ intakes[i].status = "absent"
        /\ HasRoom(Cardinality(plan))
        /\ targets' = [t \in TargetIds |->
                         IF t \in ids THEN NewRow(snap) ELSE targets[t]]
        /\ ready' = ready \cup {QueueKey(t, now) : t \in ids \ history}
        /\ blocked' = blocked \cup history
        /\ ChangeActiveCount(Cardinality(plan))
        /\ intakes' = [intakes EXCEPT ![i] =
             [status |-> IF plan = {} THEN "filtered" ELSE "planned",
              hash |-> hash, accepted |-> now, targets |-> ids, key |-> key]]
        /\ dedupe' = [k \in Keys |-> IF k = key THEN i ELSE dedupe[k]]
        /\ UNCHANGED <<cursor, grants>>

\* submit.  i is the fresh intake ID.
Submit(i, key, hash, plan, snap, window) ==
    /\ Commit
    /\ ValidPlan(plan)
    /\ snap # NoSnapshot =>
         CheckProfileAdmission(snap) /\ snap.version \in registered[snap.lane]
    /\ key # NoKey /\ dedupe[key] # NoIntake =>
         intakes[dedupe[key]].hash = hash
    /\ IF Duplicate(key, window)
       THEN UNCHANGED bucketVars
       ELSE Admit(i, key, hash, plan, snap)
    /\ UNCHANGED profileVars
-----------------------------------------------------------------------------
(***************************************************************************)
(* Claims.  Claim walks the ready bucket in key order and decodes every    *)
(* row into one Target variable declared outside the loop.  A field that   *)
(* is omitted from a row (omitempty) therefore keeps the value decoded     *)
(* from an earlier, skipped row.  The profile, outcome and evidence fields *)
(* can be both empty and set; so can the dependencies, which are left out  *)
(* here because only those of a row in the blocked bucket are ever read.   *)
(***************************************************************************)
Precedes(e, f) ==
    \/ e.at < f.at
    \/ e.at = f.at /\ Rank[e.id] < Rank[f.id]

\* f is the last entry of S up to e.
LastUpTo(f, e, S) ==
    /\ f \in S /\ (f = e \/ Precedes(f, e))
    /\ \A g \in S : g = e \/ Precedes(g, e) => g = f \/ Precedes(g, f)

HasProfile(row) == row.profile # NoProfile
WithProfile == {e \in ready : HasProfile(targets[e.id])}
WithOutcome == {e \in ready : targets[e.id].outcome # "none"}
WithEvidence == {e \in ready : targets[e.id].evidence # NoTarget}

DecodedProfile(e) ==
    IF \E f \in ready : LastUpTo(f, e, WithProfile)
    THEN targets[(CHOOSE f \in ready : LastUpTo(f, e, WithProfile)).id].profile
    ELSE NoProfile
DecodedOutcome(e) ==
    IF \E f \in ready : LastUpTo(f, e, WithOutcome)
    THEN targets[(CHOOSE f \in ready : LastUpTo(f, e, WithOutcome)).id].outcome
    ELSE "none"
DecodedEvidence(e) ==
    IF \E f \in ready : LastUpTo(f, e, WithEvidence)
    THEN targets[(CHOOSE f \in ready : LastUpTo(f, e, WithEvidence)).id].evidence
    ELSE NoTarget

\* Mutant: the profile of the first row is stored with the row that is claimed.
DecodedWithFirst(e) ==
    [targets[e.id] EXCEPT !.profile =
       targets[(CHOOSE f \in ready : \A g \in ready : ~Precedes(g, f)).id].profile]

Decoded(e) ==
    [targets[e.id] EXCEPT !.profile = DecodedProfile(e),
                          !.outcome = DecodedOutcome(e),
                          !.evidence = DecodedEvidence(e)]

\* validateProfileTarget of the decoded row: the version is registered, and
\* an inherited test profile does not fit the row's own destination.
DecodedValid(e) ==
    LET p == DecodedProfile(e)
    IN  p # NoProfile =>
          /\ p.version \in registered[p.lane]
          /\ p.lane = TestLane => HasProfile(targets[e.id])

\* Mutant: Claim does not look at the pause.
ClaimableWhenPaused(e) ==
    /\ e.at <= now
    /\ \A f \in ready : ~Precedes(f, e)
    /\ DecodedValid(e)

\* Mutant: Claim only looks at the first entry.
ClaimableHeadOnly(e) ==
    /\ ClaimableWhenPaused(e)
    /\ ~DeliveryPaused(DecodedProfile(e))

\* The loop ends at e with no error: it skipped every earlier entry.
Claimable(e) ==
    /\ e.at <= now
    /\ \A f \in ready : Precedes(f, e) =>
         DecodedValid(f) /\ DeliveryPaused(DecodedProfile(f))
    /\ DecodedValid(e)
    /\ ~DeliveryPaused(DecodedProfile(e))

\* Mutant: the attempt ID of the row is not renewed.
SendingSameAttempt(row) ==
    [row EXCEPT !.state = "sending", !.owner = handle.owner,
                !.attempts = @ + 1, !.upd = now]

\* The row of a new attempt; attempt is a fresh ID, the number of the attempt.
Sending(row) ==
    [row EXCEPT !.state = "sending", !.owner = handle.owner,
                !.attempts = @ + 1, !.attempt = row.attempts + 1, !.upd = now]

ClaimEntry(e) ==
    /\ Commit
    /\ Claimable(e)
    /\ Due(targets[e.id].state)
    /\ targets[e.id].attempts < MaxAttempts
    /\ targets' = [targets EXCEPT ![e.id] = Sending(Decoded(e))]
    /\ ready' = ready \ {e}
    /\ UNCHANGED <<blocked, active, intakes, dedupe, cursor, grants, profileVars>>

Claim == \E e \in ready : ClaimEntry(e)

\* The recovery tool names one target and decodes its row alone.
Recoverable(t) ==
    /\ HasProfile(targets[t]) =>
         targets[t].profile.version \in registered[targets[t].profile.lane]
    /\ ~DeliveryPaused(targets[t].profile)
    /\ Due(targets[t].state) /\ targets[t].avail <= now
    /\ QueueKey(t, targets[t].avail) \in ready

ClaimForRecovery(t) ==
    LET row == targets[t]
    IN  /\ Commit
        /\ Recoverable(t)
        /\ row.attempts < MaxAttempts
        /\ targets' = [targets EXCEPT ![t] = Sending(row)]
        /\ ready' = ready \ {QueueKey(t, row.avail)}
        /\ UNCHANGED <<blocked, active, intakes, dedupe, cursor, grants,
                       profileVars>>

ClaimRecord == [target : TargetIds, owner : Nat, attempt : Nat]
-----------------------------------------------------------------------------
(***************************************************************************)
(* Completion and reconciliation.                                          *)
(***************************************************************************)
\* Mutant: history with two originals is not released by one of them.
DependentsOnAll(t) == {h \in blocked : h[1] = t[1] /\ Deps[h[2]] \subseteq {t[2]}}

\* releaseDependents: blocked history of the same intake that names t.
Dependents(t) == {h \in blocked : h[1] = t[1] /\ t[2] \in Deps[h[2]]}

\* Mutant: the queue key is built before AvailableAt is set.
ConcludeStaleKey(t, row) ==
    LET released == IF row.state = "delivered" THEN Dependents(t) ELSE {}
        requeued == IF row.state = "retryable" THEN {t} ELSE {}
    IN  /\ targets' = [x \in TargetIds |->
             IF x = t THEN row
             ELSE IF x \in released THEN [targets[x] EXCEPT !.avail = now]
             ELSE targets[x]]
        /\ ready' = ready \cup {QueueKey(x, targets[x].avail) : x \in requeued}
                          \cup {QueueKey(x, now) : x \in released}
        /\ blocked' = blocked \ released

\* Store the new row of t; queue it again if it is retryable; release its
\* history if it was delivered.
Conclude(t, row) ==
    LET released == IF row.state = "delivered" THEN Dependents(t) ELSE {}
        requeued == IF row.state = "retryable" THEN {t} ELSE {}
    IN  /\ targets' = [x \in TargetIds |->
             IF x = t THEN row
             ELSE IF x \in released THEN [targets[x] EXCEPT !.avail = now]
             ELSE targets[x]]
        /\ ready' = ready \cup {QueueKey(x, row.avail) : x \in requeued}
                          \cup {QueueKey(x, now) : x \in released}
        /\ blocked' = blocked \ released

\* Finish accepts only the attempt that the row records, from its own owner.
Finish(c, state, next) ==
    LET row == targets[c.target]
    IN  /\ Commit
        /\ row.state = "sending"
        /\ row.owner = handle.owner /\ c.owner = handle.owner
        /\ row.attempt = c.attempt
        /\ ChangeActiveCount(ActiveChange(row.state, state))
        /\ Conclude(c.target,
             [row EXCEPT !.state = state, !.outcome = "platform",
                         !.evidence = c.target, !.upd = now,
                         !.avail = IF state = "retryable" THEN next ELSE @])
        /\ UNCHANGED <<intakes, dedupe, cursor, grants, profileVars>>

\* Mutant: the counter follows the decision and not the change of state.
ResolveCountsDecision(t, state) ==
    LET row == targets[t]
    IN  /\ Commit
        /\ row.state \in {"unknown", "dead_letter"}
        /\ active' = IF ActiveState(state) THEN active + 1 ELSE active - 1
        /\ grants' = [grants EXCEPT ![t] =
                        IF state = "retryable" THEN @ + 1 ELSE @]
        /\ Conclude(t,
             [row EXCEPT !.state = state, !.outcome = "operator_reconciled",
                         !.evidence = t, !.upd = now,
                         !.avail = IF state = "retryable" THEN now ELSE @])
        /\ UNCHANGED <<intakes, dedupe, cursor, profileVars>>

\* Resolve: the audited decision of an operator on uncertain or dead work.
\* The evidence is a reference of the operator to this very target.
Resolve(t, state) ==
    LET row == targets[t]
        delta == ActiveChange(row.state, state)
    IN  /\ Commit
        /\ row.state \in {"unknown", "dead_letter"}
        /\ delta = 1 => HasRoom(1)
        /\ ChangeActiveCount(delta)
        /\ grants' = [grants EXCEPT ![t] =
                        IF state = "retryable" THEN @ + 1 ELSE @]
        /\ Conclude(t,
             [row EXCEPT !.state = state, !.outcome = "operator_reconciled",
                         !.evidence = t, !.upd = now,
                         !.avail = IF state = "retryable" THEN now ELSE @])
        /\ UNCHANGED <<intakes, dedupe, cursor, profileVars>>
-----------------------------------------------------------------------------
(***************************************************************************)
(* Maintenance.                                                            *)
(***************************************************************************)
Stored == {i \in Intakes : intakes[i].status # "absent"}

\* The intakes one call examines: at most Batch after the cursor, in key
\* order, from the first again once the cursor is at the end.
Examined ==
    LET after == {i \in Stored : i > cursor}
        pool == IF after = {} THEN Stored ELSE after
    IN  {i \in pool : Cardinality({j \in pool : j < i}) < Batch}

\* Confirmed completed for longer than the retention.
Completed(i) ==
    /\ intakes[i].targets # {}
    /\ intakes[i].accepted + Retention < now
    /\ \A t \in intakes[i].targets :
         /\ targets[t].upd + Retention <= now
         /\ \/ targets[t].state = "delivered"
            \/ /\ targets[t].state = "dead_letter"
               /\ targets[t].outcome = "operator_reconciled"

Tombstone(row) == [row EXCEPT !.targets = {}, !.status = "tombstone"]

CleanupCompleted ==
    LET cleaned == {i \in Examined : Completed(i)}
        rows == UNION {intakes[i].targets : i \in cleaned}
    IN  /\ Commit
        /\ targets' = [t \in TargetIds |->
                         IF t \in rows THEN AbsentRow ELSE targets[t]]
        /\ ready' = ready \ {QueueKey(t, targets[t].avail) : t \in rows}
        /\ blocked' = blocked \ rows
        /\ intakes' = [i \in Intakes |->
             IF i \in cleaned THEN Tombstone(intakes[i]) ELSE intakes[i]]
        /\ cursor' = IF Examined = {} THEN NoIntake
                     ELSE CHOOSE i \in Examined : \A j \in Examined : j <= i
        /\ UNCHANGED <<active, dedupe, grants, profileVars>>
-----------------------------------------------------------------------------
Register(config, initial) ==
    /\ Commit /\ RegisterProfiles(config, initial) /\ UNCHANGED bucketVars

Control(l, action, v, expected) ==
    /\ Commit /\ ControlProfile(l, action, v, expected) /\ UNCHANGED bucketVars

Tick ==
    /\ now < MaxTime
    /\ now' = now + 1
    /\ UNCHANGED <<bucketVars, profileVars, handle, disk>>

DiskFails ==
    /\ DiskFaults /\ disk
    /\ disk' = FALSE
    /\ UNCHANGED <<bucketVars, profileVars, handle, now>>

DiskRecovers ==
    /\ ~disk
    /\ disk' = TRUE
    /\ UNCHANGED <<bucketVars, profileVars, handle, now>>

\* acceptDurable: AM intents carry the repeat interval, explicit keys none;
\* a request without profiles has no AM key.
SubmitAny ==
    \E i \in Intakes, key \in Keys \cup {NoKey}, hash \in Hashes,
       plan \in SUBSET Items,
       snap \in {ProfileSnapshot(l) : l \in {m \in Lanes : Accepting(m)}}
                  \cup {NoSnapshot} :
      /\ key \in AMKeys => snap # NoSnapshot
      /\ Submit(i, key, hash, plan, snap,
                IF key \in AMKeys THEN RepeatInterval ELSE 0)

ControlAny ==
    \E l \in Lanes, action \in Actions, v \in Versions :
      Control(l, action, v, pstate[l].rev)

RegisterAny ==
    \E config \in [Lanes -> Versions], initial \in Versions :
      Register(config, initial)

\* The claim a Sending row was handed out with; a caller may hold any other.
FinishAny ==
    \E t \in TargetIds, owner \in 1..MaxOpens, attempt \in 1..MaxAttempts,
       state \in Completions :
      Finish([target |-> t, owner |-> owner, attempt |-> attempt], state,
             now + RetryDelay)

SpoolNext ==
    \/ \E limit \in Limits : Open(limit)
    \/ Stop \/ WriteFails \/ DiskFails \/ DiskRecovers \/ Tick
    \/ RegisterAny \/ ControlAny
    \/ SubmitAny
    \/ Claim
    \/ \E t \in TargetIds : ClaimForRecovery(t)
    \/ FinishAny
    \/ \E t \in TargetIds, state \in Completions \ {"unknown"} : Resolve(t, state)
    \/ CleanupCompleted

SpoolSpec == SpoolInit /\ [][SpoolNext]_spoolVars
-----------------------------------------------------------------------------
(***************************************************************************)
(* Properties.                                                             *)
(***************************************************************************)
Present(t) == targets[t].state # "absent"

\* No work is lost or queued twice: a pending or retryable target has exactly
\* one index entry, in "blocked" or under its own AvailableAt in "ready", and
\* the indexes hold nothing else.  Claim trusts ready blindly, and Submit,
\* Finish, Resolve, releaseDependents and CleanupCompleted all rewrite it.
IndexesExact ==
    /\ \A e \in ready : /\ Due(targets[e.id].state)
                        /\ targets[e.id].avail = e.at
                        /\ e.id \notin blocked
    /\ \A t \in blocked : targets[t].state = "pending"
    /\ \A t \in TargetIds : Due(targets[t].state) =>
         t \in blocked \/ QueueKey(t, targets[t].avail) \in ready

\* History waits exactly as long as no original it references is delivered:
\* it is never sent early, and no delivery forgets to release it, whether
\* Finish, a recovery send or Resolve records that delivery.
HistoryWaitsForOriginal ==
    \A t \in TargetIds : Present(t) /\ Deps[t[2]] # {} =>
      (t \in blocked <=>
         \A d \in Deps[t[2]] : targets[<<t[1], d>>].state # "delivered")

\* The incrementally kept active_targets counter equals a recount of the rows
\* at every moment, across restarts, reconciliation and cleanup.
ActiveCountExact == active = Cardinality(ActiveTargets)

\* The rows that count against capacity never outnumber the largest limit the
\* spool was opened with, reconciliation of dead letters included.
ActiveWithinLimit == \E m \in Limits : Cardinality(ActiveTargets) <= m

\* While a Store is open, a row is Sending only for an attempt of this very
\* owner: an attempt a crash interrupted is never left for anyone to finish.
SendingIsOwned ==
    handle.open => \A t \in TargetIds :
                     targets[t].state = "sending" => targets[t].owner = handle.owner

\* Plans are stored and erased whole: a target row exists exactly when its
\* intake lists it, and every dedupe key leads to a stored intake.
PlansAreWhole ==
    /\ \A t \in TargetIds : Present(t) <=> t \in intakes[t[1]].targets
    /\ \A k \in Keys : dedupe[k] # NoIntake =>
         intakes[dedupe[k]].status # "absent" /\ intakes[dedupe[k]].key = k

\* Identical intents never have two copies under way: two plans of one key are
\* AM repeats, at least the repeat interval apart, and at most one of them has
\* a target that is not delivered.  Cleanup and restarts do not forget keys.
OnePlanPerIntent ==
    \A i, j \in Stored :
      i # j /\ intakes[i].key = intakes[j].key /\ intakes[i].key # NoKey =>
        /\ intakes[i].key \in AMKeys
        /\ ~(Incomplete(i) /\ Incomplete(j))
        /\ \/ intakes[i].accepted + RepeatInterval <= intakes[j].accepted
           \/ intakes[j].accepted + RepeatInterval <= intakes[i].accepted

\* A pause stops future claims of its lane, also for the rows that Claim
\* decodes over a skipped one.
PausedNeverClaimed ==
    [][\A t \in TargetIds : targets'[t].attempts > targets[t].attempts =>
         ~DeliveryPaused(targets[t].profile)]_spoolVars

\* Accepted plans freeze the profile: no operation rewrites the provenance of
\* a stored target, although Claim stores a row decoded over earlier ones.
FrozenProvenance ==
    [][\A t \in TargetIds : Present(t) /\ targets'[t].state # "absent" =>
         targets'[t].profile = targets[t].profile]_spoolVars

\* Among profiled work, a paused lane never holds up the other one: when a due
\* target of a lane that is not paused is queued, Claim finds a target.
PauseIsPerLane ==
    (\A e \in ready : HasProfile(targets[e.id])) =>
      \A e \in ready :
        e.at <= now /\ ~DeliveryPaused(targets[e.id].profile) =>
          \E f \in ready : Claimable(f)

\* Each destination owns its own outcome: the outcome evidence of a row is of
\* an attempt on that row's target.
OwnOutcome == \A t \in TargetIds : targets[t].evidence \in {NoTarget, t}

\* The capacity that intake and reconciliation check is the real one: the counter
\* they trust is a recount of the rows, and the rows stay within the limit.
CapacityRespected == ActiveCountExact /\ ActiveWithinLimit

\* What an intent, its repeats, restarts and cleanup leave in the spool is one
\* whole plan at a time.
IntentsKeepOnePlan == PlansAreWhole /\ OnePlanPerIntent

\* The variable that Claim decodes every row of its scan into carries nothing of
\* a skipped row that pause or provenance depend on.
ClaimsTakeTheirOwn == PausedNeverClaimed /\ FrozenProvenance
=============================================================================
