---------------------- MODULE NotificationSpool_proofs ----------------------
(***************************************************************************)
(* The theorems about the spool: its safety invariants, from the inductive *)
(* invariant of SpoolInvariant, and action properties, from what a step    *)
(* may do to a row in a state that satisfies it.  They hold for every      *)
(* value of the constants that satisfies SpoolConstants and                *)
(* ProfileConstants; the bounds on opens, attempts, revisions and time may *)
(* be any naturals.                                                        *)
(*                                                                         *)
(* The invariant is kept first by everything but the intake and the        *)
(* erasure of plans: the initial state, the handle, the disk and the       *)
(* clock, profile control, Open, the two claims, Finish and Resolve.       *)
(***************************************************************************)
EXTENDS SpoolInvariant, TLAPS, FiniteSetTheorems

\* Zenon is asked first; a leaf that needs arithmetic, records or many cases cites SMT.
USE Zenon

USE DEF NoIntake

\* The spool has finitely many targets, so every set of them can be counted.
LEMMA FiniteTargets ==
    /\ IsFiniteSet(TargetIds)
    /\ \A S \in SUBSET TargetIds : IsFiniteSet(S) /\ Cardinality(S) \in Nat
<1>1. IsFiniteSet(TargetIds)
  BY SpoolConstants, FS_Product DEF TargetIds
<1> QED BY <1>1, FS_Subset, FS_CardinalityType

\* Claim and ClaimForRecovery turn a row into a row.
LEMMA SendingType ==
    ASSUME SpoolTypeOK, NEW row \in Row
    PROVE  Sending(row) \in Row
<1>1. handle.owner \in Nat /\ now \in Nat
  BY DEF SpoolTypeOK
<1>2. row.attempts + 1 \in Nat
  BY SMT DEF Row
<1> QED BY <1>1, <1>2 DEF Row, States, Sending

\* submit stores a row for every item of a plan, with or without a profile.
LEMMA NewRowType ==
    ASSUME SpoolTypeOK, NEW snap \in Snapshot \cup {NoSnapshot}
    PROVE  NewRow(snap) \in Row /\ AbsentRow \in Row
  BY SpoolConstants DEF NewRow, AbsentRow, Row, States, Snapshot, Profile, SpoolTypeOK

\* What Claim decodes is a row, whichever fields an earlier row left behind.
LEMMA DecodedType ==
    ASSUME SpoolTypeOK, NEW e \in ready
    PROVE  Decoded(e) \in Row
<1>1. targets[e.id] \in Row /\ \A f \in ready : targets[f.id] \in Row
  BY DEF SpoolTypeOK
<1>2. DecodedProfile(e) \in Profile \cup {NoProfile}
  BY <1>1 DEF DecodedProfile, Row
<1>3. DecodedOutcome(e) \in {"none", "platform", "previous_owner_interrupted",
                               "operator_reconciled"}
  BY <1>1 DEF DecodedOutcome, Row
<1>4. DecodedEvidence(e) \in TargetIds \cup {NoTarget}
  BY <1>1 DEF DecodedEvidence, Row
<1> QED BY <1>1, <1>2, <1>3, <1>4 DEF Decoded, Row

\* A non-empty finite set of naturals has a largest element.
LEMMA MaxExists ==
    ASSUME NEW S \in SUBSET Nat, IsFiniteSet(S), S # {}
    PROVE  \E i \in S : \A j \in S : j <= i
<1> DEFINE Above(i) == {j \in S : i < j}
           T == {Cardinality(Above(i)) : i \in S}
<1>1. \A i \in S : IsFiniteSet(Above(i)) /\ Cardinality(Above(i)) \in Nat
  BY FS_Subset, FS_CardinalityType
<1>2. PICK n \in T : \A m \in T : ~(<<m, n>> \in OpToRel(<, Nat))
  <2>1. T \subseteq Nat /\ T # {}
    BY <1>1
  <2> QED BY <2>1, WFMin, NatLessThanWellFounded
<1>3. PICK i \in S : n = Cardinality(Above(i))
  BY <1>2
<1>4. SUFFICES ASSUME NEW j \in S, i < j PROVE FALSE
  BY SMT
<1>5. /\ Above(j) \subseteq Above(i)
      /\ j \in Above(i) /\ j \notin Above(j)
  <2>1. i \in Nat /\ j \in Nat /\ \A k \in S : k \in Nat
    OBVIOUS
  <2>2. \A k \in S : j < k => i < k
    BY SMT, <1>4, <2>1
  <2>3. ~(j < j)
    BY SMT, <2>1
  <2> QED BY <1>4, <2>2, <2>3
<1>6. Cardinality(Above(j)) < Cardinality(Above(i))
  <2>1. Above(j) # Above(i) /\ Above(j) \in SUBSET Above(i)
    BY <1>5
  <2>2. IsFiniteSet(Above(i))
    BY <1>1
  <2> HIDE DEF Above
  <2>3. /\ Cardinality(Above(j)) <= Cardinality(Above(i))
        /\ Cardinality(Above(i)) # Cardinality(Above(j))
    BY <2>1, <2>2, FS_Subset
  <2> QED BY SMT, <1>1, <2>3
<1>7. <<Cardinality(Above(j)), n>> \in OpToRel(<, Nat)
  BY <1>1, <1>3, <1>6 DEF OpToRel
<1> QED BY <1>2, <1>7

\* The cursor that CleanupCompleted stores is an intake or the start of the bucket.
LEMMA CursorType ==
    ASSUME SpoolTypeOK
    PROVE  (IF Examined = {} THEN NoIntake
            ELSE CHOOSE i \in Examined : \A j \in Examined : j <= i)
             \in Intakes \cup {NoIntake}
<1>1. Examined \subseteq Intakes
  BY DEF Examined, Stored
<1>2. Examined \subseteq Nat /\ IsFiniteSet(Examined)
  BY <1>1, SpoolConstants, FS_Subset
<1>3. CASE Examined # {}
  <2>1. \E i \in Examined : \A j \in Examined : j <= i
    BY <1>2, <1>3, MaxExists
  <2> QED BY <1>1, <1>3, <2>1
<1> QED BY <1>3
-----------------------------------------------------------------------------
\* An empty spool satisfies the invariant.
LEMMA InitInv == SpoolInit => SpoolInv
<1> SUFFICES ASSUME SpoolInit PROVE SpoolInv
  OBVIOUS
<1> USE DEF SpoolInit, AbsentRow, AbsentIntake
<1>1. SpoolTypeOK
  <2>1. AbsentRow \in Row
    BY DEF Row, States
  <2>2. AbsentIntake \in IntakeRow
    BY DEF IntakeRow
  <2>3. ProfilesTypeOK
    BY DEF ProfilesInit, ProfilesTypeOK, Unregistered, ProfileState
  <2> QED BY <2>1, <2>2, <2>3 DEF SpoolTypeOK
<1>2. IndexesExact /\ HistoryWaitsForOriginal /\ SendingIsOwned
  BY DEF IndexesExact, HistoryWaitsForOriginal, SendingIsOwned, Due, Present
<1>3. ActiveTargets = {}
  BY DEF ActiveTargets, ActiveState
<1>4. ActiveCountExact /\ ActiveWithinLimit
  <2>1. Cardinality(ActiveTargets) = 0
    BY <1>3, FS_EmptySet
  <2>2. PICK m \in Limits : m \in Nat
    BY SpoolConstants
  <2> QED BY SMT, <2>1, <2>2 DEF ActiveCountExact, ActiveWithinLimit
<1>5. \A i \in Intakes : i \notin Stored
  BY DEF Stored
<1>6. PlansAreWhole
  <2>1. \A t \in TargetIds : t[1] \in Intakes
    BY DEF TargetIds
  <2> QED BY <2>1 DEF PlansAreWhole, Present
<1>7. PlansOwned /\ LimitAllowed
  BY DEF PlansOwned, LimitAllowed
<1>8. OnePlanPerIntent /\ KeysLeadToLatest
  BY <1>5 DEF OnePlanPerIntent, KeysLeadToLatest, Stored
<1> QED BY <1>1, <1>2, <1>4, <1>6, <1>7, <1>8 DEF SpoolInv

\* A step that touches no bucket and keeps the owner and limit of the Store keeps
\* the invariant.
LEMMA FrameInv ==
    ASSUME SpoolInv, SpoolTypeOK', UNCHANGED bucketVars,
           handle'.owner = handle.owner, handle'.limit = handle.limit,
           handle'.open => handle.open
    PROVE  SpoolInv'
<1> USE DEF bucketVars
<1>1. IndexesExact' /\ HistoryWaitsForOriginal'
  BY DEF SpoolInv, IndexesExact, HistoryWaitsForOriginal, Present
<1>2. ActiveCountExact' /\ ActiveWithinLimit'
  BY DEF SpoolInv, ActiveCountExact, ActiveWithinLimit, ActiveTargets
<1>3. SendingIsOwned' /\ LimitAllowed'
  BY DEF SpoolInv, SendingIsOwned, LimitAllowed
<1>4. PlansAreWhole' /\ PlansOwned'
  BY DEF SpoolInv, PlansAreWhole, PlansOwned, Present
<1>5. OnePlanPerIntent' /\ KeysLeadToLatest'
  BY SMT DEF SpoolInv, OnePlanPerIntent, KeysLeadToLatest, Stored, Incomplete
<1> QED BY <1>1, <1>2, <1>3, <1>4, <1>5 DEF SpoolInv

\* A committed transaction changes nothing of the handle but the outage signal.
LEMMA CommitFrame ==
    ASSUME SpoolTypeOK, Commit
    PROVE  /\ handle.open
           /\ handle' \in [open : BOOLEAN, owner : Nat, limit : Nat, healthy : BOOLEAN]
           /\ handle'.owner = handle.owner /\ handle'.limit = handle.limit
           /\ handle'.open = handle.open
           /\ disk' \in BOOLEAN /\ now' = now
  BY DEF SpoolTypeOK, Commit

\* The steps that touch no bucket of the ledger.
LEMMA StopInv == SpoolInv /\ Stop => SpoolInv'
<1> SUFFICES ASSUME SpoolInv, Stop PROVE SpoolInv'
  OBVIOUS
<1>1. SpoolTypeOK'
  BY DEF SpoolInv, SpoolTypeOK, ProfilesTypeOK, Stop, bucketVars, profileVars
<1> QED BY <1>1, FrameInv DEF SpoolInv, SpoolTypeOK, Stop

\* A failed commit stores nothing; it only raises the outage signal.
LEMMA WriteFailsInv == SpoolInv /\ WriteFails => SpoolInv'
<1> SUFFICES ASSUME SpoolInv, WriteFails PROVE SpoolInv'
  OBVIOUS
<1>1. SpoolTypeOK'
  BY DEF SpoolInv, SpoolTypeOK, ProfilesTypeOK, WriteFails, bucketVars, profileVars
<1> QED BY <1>1, FrameInv DEF SpoolInv, SpoolTypeOK, WriteFails

\* The disk and the clock do not touch the buckets.
LEMMA EnvironmentInv == SpoolInv /\ (DiskFails \/ DiskRecovers \/ Tick) => SpoolInv'
<1> SUFFICES ASSUME SpoolInv, DiskFails \/ DiskRecovers \/ Tick PROVE SpoolInv'
  OBVIOUS
<1>1. UNCHANGED <<bucketVars, profileVars, handle>>
  BY DEF DiskFails, DiskRecovers, Tick
<1>4. disk' \in BOOLEAN
  BY DEF SpoolInv, SpoolTypeOK, DiskFails, DiskRecovers, Tick
<1>5. now' \in Nat
  <2>1. now \in Nat
    BY DEF SpoolInv, SpoolTypeOK
  <2>2. now' = now \/ now' = now + 1
    BY DEF DiskFails, DiskRecovers, Tick
  <2> QED BY SMT, <2>1, <2>2
<1>3. SpoolTypeOK'
  BY <1>1, <1>4, <1>5 DEF SpoolInv, SpoolTypeOK, ProfilesTypeOK, bucketVars, profileVars
<1> QED BY <1>1, <1>3, FrameInv

\* A transaction that writes only profile states keeps the invariant.
LEMMA ProfileStepInv ==
    ASSUME SpoolInv, Commit, ProfilesTypeOK', UNCHANGED bucketVars
    PROVE  SpoolInv'
<1>1. SpoolTypeOK
  BY DEF SpoolInv
<1>2. SpoolTypeOK'
  BY <1>1, CommitFrame DEF SpoolTypeOK, bucketVars
<1> QED BY <1>1, <1>2, CommitFrame, FrameInv

\* RegisterProfiles keeps the invariant.
LEMMA RegisterInv ==
    ASSUME SpoolInv, NEW config \in [Lanes -> Versions], NEW initial \in Versions,
           Register(config, initial)
    PROVE  SpoolInv'
<1>1. ProfilesTypeOK
  BY DEF SpoolInv, SpoolTypeOK
<1>2. ProfilesTypeOK'
  BY <1>1 DEF Register, RegisterProfiles, ProfilesTypeOK, ProfileState, Unregistered
<1> QED BY <1>2, ProfileStepInv DEF Register

\* ControlProfile keeps the invariant.
LEMMA ControlInv ==
    ASSUME SpoolInv, NEW l \in Lanes, NEW action \in Actions,
           NEW v, NEW expected, v \in Versions, Control(l, action, v, expected)
    PROVE  SpoolInv'
<1>1. ProfilesTypeOK /\ pstate[l] \in ProfileState
  BY DEF SpoolInv, SpoolTypeOK, ProfilesTypeOK
<1>2. Controlled(pstate[l], action, v) \in ProfileState
  BY <1>1 DEF Controlled, ProfileState, Actions
<1>3. expected + 1 \in Nat
  BY SMT, <1>1 DEF Control, ControlProfile, ProfileState
<1>4. [Controlled(pstate[l], action, v) EXCEPT !.rev = expected + 1] \in ProfileState
  BY <1>2, <1>3 DEF ProfileState
<1>5. ProfilesTypeOK'
  BY <1>1, <1>4 DEF Control, ControlProfile, ProfilesTypeOK
<1> QED BY <1>5, ProfileStepInv DEF Control
-----------------------------------------------------------------------------
(***************************************************************************)
(* Each conjunct of the invariant survives a step that leaves alone the    *)
(* part of the state it is about.                                          *)
(***************************************************************************)
\* The dependencies of a target are targets of the same intake.
LEMMA DepsAreTargets ==
    \A t \in TargetIds :
      /\ t = <<t[1], t[2]>> /\ t[1] \in Intakes
      /\ \A d \in Deps[t[2]] : <<t[1], d>> \in TargetIds
  BY SMT, SpoolConstants DEF TargetIds

\* The indexes stay exact when no due row changes or appears.
LEMMA IndexFrame ==
    ASSUME SpoolTypeOK, IndexesExact, UNCHANGED <<ready, blocked>>,
           \A t \in TargetIds : /\ Due(targets'[t].state) = Due(targets[t].state)
                                /\ Due(targets[t].state) => targets'[t] = targets[t]
    PROVE  IndexesExact'
<1>1. blocked \subseteq TargetIds /\ \A e \in ready : e.id \in TargetIds
  BY DEF SpoolTypeOK
<1> QED BY <1>1 DEF IndexesExact, Due

\* History keeps waiting when no row appears and none becomes delivered.
LEMMA HistoryFrame ==
    ASSUME HistoryWaitsForOriginal, UNCHANGED blocked,
           \A t \in TargetIds :
             /\ Present(t)' => Present(t)
             /\ (targets'[t].state = "delivered") = (targets[t].state = "delivered")
    PROVE  HistoryWaitsForOriginal'
  BY DepsAreTargets DEF HistoryWaitsForOriginal

\* The counter stays exact when no row becomes or stops being active.
LEMMA CounterFrame ==
    ASSUME ActiveCountExact, ActiveWithinLimit, UNCHANGED active,
           \A t \in TargetIds : ActiveState(targets'[t].state) = ActiveState(targets[t].state)
    PROVE  ActiveCountExact' /\ ActiveWithinLimit'
<1>1. ActiveTargets' = ActiveTargets
  BY DEF ActiveTargets
<1> QED BY <1>1 DEF ActiveCountExact, ActiveWithinLimit

\* Plans stay whole when no row appears or disappears.
LEMMA PlansFrame ==
    ASSUME PlansAreWhole, PlansOwned, UNCHANGED <<intakes, dedupe>>,
           \A t \in TargetIds : Present(t)' = Present(t)
    PROVE  PlansAreWhole' /\ PlansOwned'
  BY DEF PlansAreWhole, PlansOwned

\* Dedupe keys stay right when no plan becomes incomplete again.
LEMMA KeysFrame ==
    ASSUME SpoolTypeOK, OnePlanPerIntent, KeysLeadToLatest, UNCHANGED dedupe,
           \A i \in Intakes : /\ intakes'[i].key = intakes[i].key
                              /\ intakes'[i].accepted = intakes[i].accepted
                              /\ (intakes'[i].status = "absent") = (intakes[i].status = "absent")
                              /\ Incomplete(i)' => Incomplete(i)
    PROVE  OnePlanPerIntent' /\ KeysLeadToLatest'
<1>1. Stored' = Stored /\ Stored \subseteq Intakes
  BY DEF Stored
<1>2. OnePlanPerIntent'
  BY SMT, <1>1 DEF OnePlanPerIntent
<1>3. ASSUME NEW i \in Stored, intakes[i].key # NoKey
      PROVE  i \in Intakes /\ dedupe[intakes[i].key] \in Intakes
  <2>1. i \in Intakes /\ intakes[i].key \in Keys
    BY <1>1, <1>3 DEF SpoolTypeOK, IntakeRow
  <2> QED BY <1>3, <2>1 DEF SpoolTypeOK, KeysLeadToLatest
<1>4. KeysLeadToLatest'
  BY SMT, <1>1, <1>3 DEF KeysLeadToLatest
<1> QED BY <1>2, <1>4

\* Dedupe keys stay right when no delivered row leaves that state.
LEMMA SettledFrame ==
    ASSUME SpoolTypeOK, OnePlanPerIntent, KeysLeadToLatest, UNCHANGED <<intakes, dedupe>>,
           \A t \in TargetIds : targets[t].state = "delivered" => targets'[t].state = "delivered"
    PROVE  OnePlanPerIntent' /\ KeysLeadToLatest'
<1>1. \A i \in Intakes : intakes[i].targets \subseteq TargetIds
  BY DEF SpoolTypeOK, IntakeRow
<1>2. \A i \in Intakes : Incomplete(i)' => Incomplete(i)
  BY <1>1 DEF Incomplete
<1> QED BY <1>2, KeysFrame
-----------------------------------------------------------------------------
\* Open turns the rows left Sending into unknown ones and leaves the others alone.
LEMMA OpenRows ==
    ASSUME SpoolTypeOK, NEW limit, Open(limit), NEW t \in TargetIds
    PROVE  /\ targets'[t] \in Row
           /\ targets[t].state # "sending" => targets'[t] = targets[t]
           /\ targets[t].state = "sending" => targets'[t].state = "unknown"
<1>1. targets[t] \in Row /\ now \in Nat
  BY DEF SpoolTypeOK
<1>2. targets'[t] = IF targets[t].state = "sending"
                    THEN [targets[t] EXCEPT !.state = "unknown", !.upd = now,
                                            !.outcome = "previous_owner_interrupted"]
                    ELSE targets[t]
  BY DEF Open
<1> QED BY ZenonT(30), <1>1, <1>2 DEF Row, States

\* Open keeps the types of the buckets and recounts the active rows.
LEMMA OpenType ==
    ASSUME SpoolTypeOK, NEW limit \in Limits, Open(limit)
    PROVE  /\ SpoolTypeOK' /\ handle'.open /\ handle'.limit = limit
           /\ active' = Cardinality(ActiveTargets)
<1>1. limit \in Nat /\ handle.owner + 1 \in Nat
  BY SMT, SpoolConstants DEF SpoolTypeOK
<1>2. handle' = [open |-> TRUE, owner |-> handle.owner + 1, limit |-> limit,
                 healthy |-> TRUE]
  BY DEF Open
<1>3. targets' \in [TargetIds -> Row]
  BY OpenRows DEF Open
<1>4. active' = Cardinality(ActiveTargets) /\ active' \in Nat
  BY FiniteTargets DEF Open, ActiveTargets
<1>5. UNCHANGED <<ready, blocked, intakes, dedupe, cursor, grants, registered, pstate, disk, now>>
  BY DEF Open, profileVars
<1> QED BY <1>1, <1>2, <1>3, <1>4, <1>5 DEF SpoolTypeOK, ProfilesTypeOK

\* Open keeps the invariant: interrupted attempts become unknown.
LEMMA OpenInv ==
    ASSUME SpoolInv, NEW limit \in Limits, Open(limit)
    PROVE  SpoolInv'
<1>1. SpoolTypeOK /\ \A t \in TargetIds :
        /\ targets[t].state # "sending" => targets'[t] = targets[t]
        /\ targets[t].state = "sending" => targets'[t].state = "unknown"
  BY OpenRows DEF SpoolInv
<1>2. /\ SpoolTypeOK' /\ handle'.open /\ handle'.limit = limit
      /\ active' = Cardinality(ActiveTargets)
  BY <1>1, OpenType
<1>3. UNCHANGED <<ready, blocked, intakes, dedupe, active>>
  BY <1>2 DEF Open, SpoolInv, ActiveCountExact
<1>4. IndexesExact'
  BY SMT, <1>1, <1>3, IndexFrame DEF SpoolInv, Due
<1>5. HistoryWaitsForOriginal'
  BY <1>1, <1>3, HistoryFrame DEF SpoolInv, Present
<1>6. ActiveCountExact' /\ ActiveWithinLimit'
  BY SMT, <1>1, <1>3, CounterFrame DEF SpoolInv, ActiveState
<1>7. SendingIsOwned' /\ LimitAllowed'
  BY <1>1, <1>2 DEF SendingIsOwned, LimitAllowed
<1>8. PlansAreWhole' /\ PlansOwned'
  BY <1>1, <1>3, PlansFrame DEF SpoolInv, Present
<1>9. OnePlanPerIntent' /\ KeysLeadToLatest'
  BY <1>1, <1>3, SettledFrame DEF SpoolInv
<1> QED BY <1>2, <1>4, <1>5, <1>6, <1>7, <1>8, <1>9 DEF SpoolInv

\* The row of a queued entry e becomes an attempt of this owner.
LEMMA TakeFacts ==
    ASSUME SpoolTypeOK, IndexesExact, NEW e \in ready, NEW row \in Row,
           targets' = [targets EXCEPT ![e.id] = Sending(row)]
    PROVE  /\ e.id \in TargetIds /\ e.id \notin blocked
           /\ targets[e.id].state \in {"pending", "retryable"}
           /\ targets'[e.id].state = "sending" /\ targets'[e.id].owner = handle.owner
           /\ \A t \in TargetIds : t # e.id => targets'[t] = targets[t]
<1>1. e.id \in TargetIds
  BY DEF SpoolTypeOK
<1>2. Due(targets[e.id].state) /\ e.id \notin blocked
  BY DEF IndexesExact
<1>3. Sending(row).state = "sending" /\ Sending(row).owner = handle.owner
  BY DEF Sending, Row
<1>4. /\ targets'[e.id] = Sending(row)
      /\ \A t \in TargetIds : t # e.id => targets'[t] = targets[t]
  BY <1>1 DEF SpoolTypeOK
<1> QED BY <1>1, <1>2, <1>3, <1>4 DEF Due

\* Taking an entry leaves the index without it.
LEMMA TakeIndexes ==
    ASSUME SpoolTypeOK, IndexesExact, NEW e \in ready, ready' = ready \ {e},
           UNCHANGED blocked, e.id \in TargetIds, e.id \notin blocked,
           targets'[e.id].state = "sending",
           \A t \in TargetIds : t # e.id => targets'[t] = targets[t]
    PROVE  IndexesExact'
<1>1. \A f \in ready : /\ f.id \in TargetIds /\ f = QueueKey(f.id, f.at)
                       /\ targets[f.id].avail = f.at
  BY SMT DEF SpoolTypeOK, IndexesExact, QueueKey
<1>2. \A f \in ready' : f \in ready /\ f.id # e.id
  BY ZenonT(30), <1>1
<1>3. \A f \in ready' : /\ Due(targets'[f.id].state) /\ targets'[f.id].avail = f.at
                        /\ f.id \notin blocked'
  BY <1>1, <1>2 DEF IndexesExact
<1>4. \A t \in blocked' : targets'[t].state = "pending"
  BY DEF IndexesExact, SpoolTypeOK
<1>5. ASSUME NEW t \in TargetIds, Due(targets'[t].state)
      PROVE  t \in blocked' \/ QueueKey(t, targets'[t].avail) \in ready'
  <2>1. t # e.id
    BY <1>5 DEF Due
  <2>2. QueueKey(t, targets[t].avail) # e
    BY SMT, <2>1 DEF QueueKey
  <2> QED BY <1>5, <2>1, <2>2 DEF IndexesExact
<1> QED BY <1>3, <1>4, <1>5 DEF IndexesExact

\* Taking an entry keeps the types of the buckets.
LEMMA TakeType ==
    ASSUME SpoolTypeOK, Commit, NEW e \in ready, NEW row \in Row,
           targets' = [targets EXCEPT ![e.id] = Sending(row)], ready' = ready \ {e},
           UNCHANGED <<blocked, active, intakes, dedupe, cursor, grants, profileVars>>
    PROVE  SpoolTypeOK'
<1>1. targets' \in [TargetIds -> Row]
  BY SendingType DEF SpoolTypeOK
<1>2. ProfilesTypeOK'
  BY DEF SpoolTypeOK, ProfilesTypeOK, profileVars
<1> QED BY <1>1, <1>2, CommitFrame DEF SpoolTypeOK

\* Claim and ClaimForRecovery: the queued entry e becomes an attempt.
LEMMA TakeInv ==
    ASSUME SpoolInv, Commit, NEW e \in ready, NEW row \in Row,
           targets' = [targets EXCEPT ![e.id] = Sending(row)],
           ready' = ready \ {e},
           UNCHANGED <<blocked, active, intakes, dedupe, cursor, grants, profileVars>>
    PROVE  SpoolInv'
<1>1. /\ SpoolTypeOK /\ IndexesExact /\ HistoryWaitsForOriginal
      /\ ActiveCountExact /\ ActiveWithinLimit /\ SendingIsOwned
      /\ PlansAreWhole /\ PlansOwned /\ LimitAllowed
      /\ OnePlanPerIntent /\ KeysLeadToLatest
  BY DEF SpoolInv
<1>2. /\ e.id \in TargetIds /\ e.id \notin blocked
      /\ targets[e.id].state \in {"pending", "retryable"}
      /\ targets'[e.id].state = "sending" /\ targets'[e.id].owner = handle.owner
      /\ \A t \in TargetIds : t # e.id => targets'[t] = targets[t]
  BY <1>1, TakeFacts
<1>3. SpoolTypeOK'
  BY <1>1, TakeType
<1>4. IndexesExact'
  BY <1>1, <1>2, TakeIndexes
<1>5. \A t \in TargetIds :
        /\ Present(t)' = Present(t)
        /\ (targets'[t].state = "delivered") = (targets[t].state = "delivered")
        /\ ActiveState(targets'[t].state) = ActiveState(targets[t].state)
  BY SMT, <1>2 DEF Present, ActiveState
<1>6. HistoryWaitsForOriginal'
  BY <1>1, <1>5, HistoryFrame
<1>7. ActiveCountExact' /\ ActiveWithinLimit'
  BY <1>1, <1>5, CounterFrame
<1>8. SendingIsOwned' /\ LimitAllowed'
  BY <1>1, <1>2, CommitFrame DEF SendingIsOwned, LimitAllowed
<1>9. PlansAreWhole' /\ PlansOwned'
  BY <1>1, <1>5, PlansFrame
<1>10. OnePlanPerIntent' /\ KeysLeadToLatest'
  BY <1>1, <1>5, SettledFrame
<1> QED BY <1>3, <1>4, <1>6, <1>7, <1>8, <1>9, <1>10 DEF SpoolInv

\* Claim keeps the invariant, whichever due entry the scan stops at.
LEMMA ClaimEntryInv ==
    ASSUME SpoolInv, NEW e \in ready, ClaimEntry(e) PROVE SpoolInv'
  BY TakeInv, DecodedType DEF SpoolInv, ClaimEntry

\* ClaimForRecovery keeps the invariant.
LEMMA ClaimForRecoveryInv ==
    ASSUME SpoolInv, NEW t \in TargetIds, ClaimForRecovery(t) PROVE SpoolInv'
<1> DEFINE e == QueueKey(t, targets[t].avail)
<1>1. e \in ready /\ e.id = t /\ targets[t] \in Row
  BY DEF ClaimForRecovery, Recoverable, QueueKey, SpoolInv, SpoolTypeOK
<1> QED BY <1>1, TakeInv DEF ClaimForRecovery
-----------------------------------------------------------------------------
\* What Conclude does to the row and the index entries of every target.
LEMMA ConcludeFacts ==
    ASSUME SpoolTypeOK, IndexesExact, NEW t \in TargetIds, NEW row \in Row,
           ~Due(targets[t].state), row.state \in Completions, Conclude(t, row)
    PROVE  /\ t \notin blocked /\ targets'[t] = row
           /\ targets' \in [TargetIds -> Row]
           /\ \A x \in TargetIds : x # t => targets'[x].state = targets[x].state
           /\ IndexesExact'
           /\ ready' \subseteq [at : Nat, id : TargetIds] /\ blocked' \subseteq TargetIds
           /\ blocked' = blocked \ (IF row.state = "delivered" THEN Dependents(t) ELSE {})
<1> DEFINE released == IF row.state = "delivered" THEN Dependents(t) ELSE {}
<1>1. t \notin blocked /\ \A e \in ready : e.id # t
  BY DEF IndexesExact, Due
<1>2. released \subseteq blocked /\ now \in Nat /\ blocked \subseteq TargetIds
  BY DEF Dependents, SpoolTypeOK
<1>3. targets' = [x \in TargetIds |->
          IF x = t THEN row
          ELSE IF x \in released THEN [targets[x] EXCEPT !.avail = now]
          ELSE targets[x]]
  BY DEF Conclude
<1>4. /\ ready' = ready \cup {QueueKey(x, row.avail) :
                                 x \in IF row.state = "retryable" THEN {t} ELSE {}}
                        \cup {QueueKey(x, now) : x \in released}
      /\ blocked' = blocked \ released
  BY DEF Conclude
<1> HIDE DEF released
<1>5. targets'[t] = row
  BY <1>3
<1>6. \A x \in TargetIds : x # t =>
        /\ targets'[x] \in Row
        /\ targets'[x].state = targets[x].state
        /\ x \in released => targets'[x].avail = now
        /\ x \notin released => targets'[x] = targets[x]
  <2> SUFFICES ASSUME NEW x \in TargetIds, x # t
               PROVE  /\ targets'[x] \in Row
                      /\ targets'[x].state = targets[x].state
                      /\ x \in released => targets'[x].avail = now
                      /\ x \notin released => targets'[x] = targets[x]
    OBVIOUS
  <2>1. targets[x] \in Row
    BY DEF SpoolTypeOK
  <2>2. targets'[x] = IF x \in released THEN [targets[x] EXCEPT !.avail = now]
                      ELSE targets[x]
    BY <1>3
  <2> QED BY ZenonT(30), <1>2, <2>1, <2>2 DEF Row
<1>7. targets' \in [TargetIds -> Row]
  BY <1>3, <1>5, <1>6
<1>8. ready' \subseteq [at : Nat, id : TargetIds]
  BY SMT, <1>2, <1>4 DEF QueueKey, SpoolTypeOK, Row
<1>9. IndexesExact'
  <2>1. \A e \in ready' : /\ Due(targets'[e.id].state)
                          /\ targets'[e.id].avail = e.at
                          /\ e.id \notin blocked'
    <3> SUFFICES ASSUME NEW e \in ready'
                 PROVE  /\ Due(targets'[e.id].state)
                        /\ targets'[e.id].avail = e.at
                        /\ e.id \notin blocked'
      OBVIOUS
    <3>1. CASE e \in ready
      BY SMTT(30), <1>1, <1>2, <1>4, <1>6, <3>1 DEF IndexesExact, SpoolTypeOK
    <3>2. CASE row.state = "retryable" /\ e = QueueKey(t, row.avail)
      BY <1>1, <1>4, <1>5, <3>2 DEF QueueKey, Due
    <3>3. ASSUME NEW x \in released, e = QueueKey(x, now)
          PROVE  /\ Due(targets'[e.id].state)
                 /\ targets'[e.id].avail = e.at
                 /\ e.id \notin blocked'
      <4>1. x \in TargetIds /\ x # t /\ targets[x].state = "pending" /\ e.id = x /\ e.at = now
        BY <1>1, <1>2, <3>3 DEF IndexesExact, QueueKey
      <4> QED BY <1>4, <1>6, <4>1 DEF Due
    <3> QED BY <1>4, <3>1, <3>2, <3>3
  <2>2. \A x \in blocked' : targets'[x].state = "pending"
    BY <1>1, <1>2, <1>4, <1>6 DEF IndexesExact
  <2>3. \A x \in TargetIds : Due(targets'[x].state) =>
          x \in blocked' \/ QueueKey(x, targets'[x].avail) \in ready'
    <3> SUFFICES ASSUME NEW x \in TargetIds, Due(targets'[x].state)
                 PROVE  x \in blocked' \/ QueueKey(x, targets'[x].avail) \in ready'
      OBVIOUS
    <3>1. CASE x = t /\ row.state = "retryable"
      BY <1>4, <1>5, <3>1
    <3>2. CASE x # t /\ x \in released
      BY <1>4, <1>6, <3>2
    <3>3. CASE x # t /\ x \notin released
      BY <1>4, <1>6, <3>3 DEF IndexesExact
    <3>4. x = t => row.state = "retryable"
      BY <1>5 DEF Due, Completions
    <3> QED BY <3>1, <3>2, <3>3, <3>4
  <2> QED BY <2>1, <2>2, <2>3 DEF IndexesExact
<1> QED BY SMTT(30), <1>1, <1>2, <1>4, <1>5, <1>6, <1>7, <1>8, <1>9 DEF released

\* A delivered original releases its history, and nothing else does.
LEMMA ConcludeHistory ==
    ASSUME HistoryWaitsForOriginal, NEW t \in TargetIds, NEW delivered \in BOOLEAN,
           targets[t].state # "delivered", t \notin blocked, Present(t),
           delivered <=> targets'[t].state = "delivered",
           \A x \in TargetIds : x # t => targets'[x].state = targets[x].state,
           blocked' = blocked \ (IF delivered THEN Dependents(t) ELSE {})
    PROVE  HistoryWaitsForOriginal'
<1> SUFFICES ASSUME NEW x \in TargetIds, Present(x)', Deps[x[2]] # {}
             PROVE  x \in blocked' <=>
                      \A d \in Deps[x[2]] : targets'[<<x[1], d>>].state # "delivered"
  BY DEF HistoryWaitsForOriginal
<1>1. /\ Present(x)
      /\ x \in blocked <=> \A d \in Deps[x[2]] : targets[<<x[1], d>>].state # "delivered"
  BY DEF HistoryWaitsForOriginal, Present
<1>2. CASE delivered
  BY SMT, <1>1, <1>2, DepsAreTargets DEF Dependents
<1>3. CASE ~delivered
  BY <1>1, <1>3, DepsAreTargets
<1> QED BY <1>2, <1>3

\* The counter follows the one row that Finish or Resolve rewrites.
LEMMA ConcludeCounter ==
    ASSUME SpoolTypeOK, ActiveCountExact, NEW t \in TargetIds,
           \A x \in TargetIds : x # t => targets'[x].state = targets[x].state,
           active' = active + ActiveChange(targets[t].state, targets'[t].state)
    PROVE  ActiveCountExact'
<1>1. /\ IsFiniteSet(ActiveTargets) /\ active = Cardinality(ActiveTargets)
      /\ Cardinality(ActiveTargets) \in Nat
  BY FiniteTargets DEF ActiveTargets, ActiveCountExact
<1>2. CASE ActiveState(targets[t].state) <=> ActiveState(targets'[t].state)
  <2>1. ActiveTargets' = ActiveTargets
    BY <1>2 DEF ActiveTargets
  <2>2. active' = active
    BY SMT, <1>1, <1>2 DEF ActiveChange
  <2> QED BY <1>1, <2>1, <2>2 DEF ActiveCountExact
<1>3. CASE ActiveState(targets[t].state) /\ ~ActiveState(targets'[t].state)
  <2>1. ActiveTargets' = ActiveTargets \ {t} /\ t \in ActiveTargets
    BY <1>3 DEF ActiveTargets
  <2>2. Cardinality(ActiveTargets') = Cardinality(ActiveTargets) - 1
    BY <1>1, <2>1, FS_RemoveElement
  <2>3. active' = active - 1
    BY SMT, <1>1, <1>3 DEF ActiveChange
  <2> QED BY <1>1, <2>2, <2>3 DEF ActiveCountExact
<1>4. CASE ~ActiveState(targets[t].state) /\ ActiveState(targets'[t].state)
  <2>1. ActiveTargets' = ActiveTargets \cup {t} /\ t \notin ActiveTargets
    BY <1>4 DEF ActiveTargets
  <2>2. Cardinality(ActiveTargets') = Cardinality(ActiveTargets) + 1
    BY <1>1, <2>1, FS_AddElement
  <2>3. active' = active + 1
    BY SMT, <1>1, <1>4 DEF ActiveChange
  <2> QED BY <1>1, <2>2, <2>3 DEF ActiveCountExact
<1> QED BY <1>2, <1>3, <1>4

\* Only Resolve can make a row active again, and it asks for room first.
LEMMA ConcludeLimit ==
    ASSUME SpoolInv, Commit, ActiveCountExact', NEW delta,
           delta \in {-1, 0, 1}, delta = 1 => HasRoom(1), active' = active + delta
    PROVE  ActiveWithinLimit'
<1>1. /\ active = Cardinality(ActiveTargets) /\ active' = Cardinality(ActiveTargets')
      /\ active \in Nat
  BY DEF SpoolInv, ActiveCountExact, SpoolTypeOK
<1>2. PICK m \in Limits : active <= m
  BY <1>1 DEF SpoolInv, ActiveWithinLimit
<1>3. m \in Nat /\ handle.limit \in Limits /\ handle.limit \in Nat
  BY CommitFrame, SpoolConstants DEF SpoolInv, LimitAllowed
<1>4. active' <= m \/ active' <= handle.limit
  BY SMT, <1>1, <1>2, <1>3 DEF HasRoom
<1> QED BY <1>1, <1>3, <1>4 DEF ActiveWithinLimit

\* A concluded row is not Sending; the others keep their owner.
LEMMA ConcludeOwned ==
    ASSUME SpoolInv, Commit, NEW t \in TargetIds, NEW row, Conclude(t, row),
           row.state # "sending"
    PROVE  SendingIsOwned'
<1>1. ASSUME NEW x \in TargetIds, targets'[x].state = "sending"
      PROVE  targets[x].state = "sending" /\ targets'[x].owner = targets[x].owner
  <2>1. /\ x # t
        /\ x \notin Dependents(t) => targets'[x] = targets[x]
        /\ x \in Dependents(t) =>
             targets'[x] = targets[x] \/ targets'[x] = [targets[x] EXCEPT !.avail = now]
    BY <1>1 DEF Conclude
  <2>2. targets[x] \in Row
    BY DEF SpoolInv, SpoolTypeOK
  <2> QED BY <1>1, <2>1, <2>2 DEF Row
<1>2. handle.open /\ handle'.owner = handle.owner
  BY SMTT(30), CommitFrame DEF SpoolInv
<1> QED BY <1>1, <1>2 DEF SpoolInv, SendingIsOwned

\* Finish and Resolve: target t, under way or reconciled, gets its new row.
LEMMA ConcludeInv ==
    ASSUME SpoolInv, Commit, NEW t \in TargetIds, NEW row \in Row,
           targets[t].state \in {"sending", "unknown", "dead_letter"},
           row.state \in Completions, Conclude(t, row),
           ActiveChange(targets[t].state, row.state) = 1 => HasRoom(1),
           ChangeActiveCount(ActiveChange(targets[t].state, row.state)),
           grants' \in [TargetIds -> Nat],
           UNCHANGED <<intakes, dedupe, cursor, profileVars>>
    PROVE  SpoolInv'
<1>1. SpoolTypeOK /\ IndexesExact /\ ~Due(targets[t].state)
  BY SMTT(30) DEF SpoolInv, Due
<1>2. /\ t \notin blocked /\ targets'[t] = row
      /\ targets' \in [TargetIds -> Row]
      /\ \A x \in TargetIds : x # t => targets'[x].state = targets[x].state
      /\ IndexesExact'
      /\ ready' \subseteq [at : Nat, id : TargetIds] /\ blocked' \subseteq TargetIds
      /\ blocked' = blocked \ (IF row.state = "delivered" THEN Dependents(t) ELSE {})
  BY <1>1, ConcludeFacts
<1>3. /\ active' \in Nat
      /\ active' = active + ActiveChange(targets[t].state, targets'[t].state)
      /\ ActiveChange(targets[t].state, row.state) \in {-1, 0, 1}
  BY SMT, <1>1, <1>2 DEF ChangeActiveCount, ActiveChange, SpoolTypeOK
<1>4. SpoolTypeOK'
  BY <1>1, <1>2, <1>3, CommitFrame DEF SpoolTypeOK, ProfilesTypeOK, profileVars
<1>5. ActiveCountExact'
  BY ZenonT(30), <1>1, <1>2, <1>3, ConcludeCounter DEF SpoolInv
<1>6. ActiveWithinLimit'
  BY <1>2, <1>3, <1>5, ConcludeLimit
<1>7. HistoryWaitsForOriginal'
  <2>1. Present(t) /\ targets[t].state # "delivered" /\ HistoryWaitsForOriginal
    BY DEF Present, SpoolInv
  <2> QED BY <1>2, <2>1, ConcludeHistory
<1>8. SendingIsOwned' /\ LimitAllowed'
  BY <1>1, ConcludeOwned, CommitFrame DEF SpoolInv, LimitAllowed, Completions
<1>9. PlansAreWhole' /\ PlansOwned'
  <2>1. \A x \in TargetIds : Present(x)' = Present(x)
    BY <1>2 DEF Present, Completions
  <2>2. PlansAreWhole /\ PlansOwned
    BY DEF SpoolInv
  <2> QED BY SMTT(30), <2>1, <2>2, PlansFrame
<1>10. OnePlanPerIntent' /\ KeysLeadToLatest'
  <2>1. \A x \in TargetIds : targets[x].state = "delivered" => targets'[x].state = "delivered"
    BY <1>2
  <2>2. OnePlanPerIntent /\ KeysLeadToLatest
    BY DEF SpoolInv
  <2> QED BY <1>1, <2>1, <2>2, SettledFrame
<1> QED BY <1>2, <1>4, <1>5, <1>6, <1>7, <1>8, <1>9, <1>10 DEF SpoolInv

\* Finish keeps the invariant: a valid claim names a row that is Sending.
LEMMA FinishInv ==
    ASSUME SpoolInv, NEW c \in ClaimRecord, NEW state \in Completions, NEW next \in Nat,
           Finish(c, state, next)
    PROVE  SpoolInv'
<1> DEFINE row == [targets[c.target] EXCEPT !.state = state, !.outcome = "platform",
                     !.evidence = c.target, !.upd = now,
                     !.avail = IF state = "retryable" THEN next ELSE @]
<1>1. c.target \in TargetIds /\ targets[c.target] \in Row /\ now \in Nat
  BY DEF ClaimRecord, SpoolInv, SpoolTypeOK
<1>2. row \in Row /\ row.state = state
  BY <1>1 DEF Row, States, Completions
<1>3. grants' \in [TargetIds -> Nat]
  BY DEF Finish, SpoolInv, SpoolTypeOK
<1>4. ActiveChange(targets[c.target].state, state) # 1
  BY SMT DEF Finish, ActiveChange, ActiveState
<1>5. /\ Commit /\ targets[c.target].state = "sending"
      /\ ChangeActiveCount(ActiveChange(targets[c.target].state, row.state))
      /\ Conclude(c.target, row)
      /\ UNCHANGED <<intakes, dedupe, cursor, profileVars>>
  BY SMTT(30), <1>2 DEF Finish
<1> HIDE DEF row
<1> QED BY <1>1, <1>2, <1>3, <1>4, <1>5, ConcludeInv

\* Resolve keeps the invariant.
LEMMA ResolveInv ==
    ASSUME SpoolInv, NEW t \in TargetIds, NEW state \in Completions, Resolve(t, state)
    PROVE  SpoolInv'
<1> DEFINE row == [targets[t] EXCEPT !.state = state, !.outcome = "operator_reconciled",
                     !.evidence = t, !.upd = now,
                     !.avail = IF state = "retryable" THEN now ELSE @]
<1>1. targets[t] \in Row /\ now \in Nat /\ grants \in [TargetIds -> Nat]
  BY DEF SpoolInv, SpoolTypeOK
<1>2. row \in Row /\ row.state = state
  BY <1>1 DEF Row, States, Completions
<1>3. grants' \in [TargetIds -> Nat]
  BY SMT, <1>1 DEF Resolve
<1>4. /\ Commit /\ targets[t].state \in {"unknown", "dead_letter"}
      /\ ActiveChange(targets[t].state, row.state) = 1 => HasRoom(1)
      /\ ChangeActiveCount(ActiveChange(targets[t].state, row.state))
      /\ Conclude(t, row)
      /\ UNCHANGED <<intakes, dedupe, cursor, profileVars>>
  BY <1>2 DEF Resolve
<1> HIDE DEF row
<1> QED BY <1>1, <1>2, <1>3, <1>4, ConcludeInv
-----------------------------------------------------------------------------
(***************************************************************************)
(* Whole plans keep the inductive invariant: CleanupCompleted erases them  *)
(* and submit admits them.  The repeat interval of an intent is what makes *)
(* a second admission harmless.                                            *)
(***************************************************************************)
\* The intakes one CleanupCompleted replaces by tombstones, and their targets.
Cleaned == {i \in Examined : Completed(i)}
Erased == UNION {intakes[i].targets : i \in Cleaned}

\* CleanupCompleted erases only whole plans of rows that are settled.
LEMMA ErasedFacts ==
    ASSUME PlansAreWhole, PlansOwned
    PROVE  /\ \A i \in Cleaned : i \in Intakes /\ intakes[i].status # "absent"
           /\ \A t \in Erased : /\ t \in TargetIds /\ t[1] \in Cleaned
                                /\ targets[t].state \in {"delivered", "dead_letter"}
           /\ \A t \in TargetIds : Present(t) /\ t[1] \in Cleaned => t \in Erased
<1>1. \A i \in Cleaned : i \in Intakes /\ intakes[i].status # "absent"
  BY DEF Cleaned, Examined, Stored
<1>2. ASSUME NEW i \in Cleaned, NEW t \in intakes[i].targets
      PROVE  /\ t \in TargetIds /\ t[1] \in Cleaned
             /\ targets[t].state \in {"delivered", "dead_letter"}
  <2>1. t \in {i} \X Items /\ i \in Intakes
    BY <1>1, <1>2 DEF PlansOwned
  <2>2. t \in TargetIds /\ t[1] = i
    BY <2>1 DEF TargetIds
  <2>3. targets[t].state \in {"delivered", "dead_letter"}
    BY <1>2 DEF Cleaned, Completed
  <2> QED BY <1>2, <2>2, <2>3
<1>3. \A t \in TargetIds : Present(t) /\ t[1] \in Cleaned => t \in Erased
  BY DEF PlansAreWhole, Erased
<1> QED BY <1>1, <1>2, <1>3 DEF Erased

\* Cleanup makes the erased rows absent and leaves the others alone.
LEMMA CleanupRows ==
    ASSUME CleanupCompleted
    PROVE  /\ targets' = [t \in TargetIds |-> IF t \in Erased THEN AbsentRow ELSE targets[t]]
           /\ \A t \in TargetIds : /\ t \in Erased => targets'[t] = AbsentRow
                                   /\ t \notin Erased => targets'[t] = targets[t]
<1>1. targets' = [t \in TargetIds |-> IF t \in Erased THEN AbsentRow ELSE targets[t]]
  BY DEF CleanupCompleted, Erased, Cleaned
<1> QED BY <1>1

\* Cleanup turns the intakes of erased plans into tombstones.
LEMMA CleanupIntakes ==
    ASSUME SpoolTypeOK, PlansAreWhole, PlansOwned, CleanupCompleted
    PROVE  /\ intakes' \in [Intakes -> IntakeRow]
           /\ \A i \in Intakes :
                /\ intakes'[i].key = intakes[i].key
                /\ intakes'[i].accepted = intakes[i].accepted
                /\ (intakes'[i].status = "absent") = (intakes[i].status = "absent")
                /\ i \in Cleaned => intakes'[i].targets = {}
                /\ i \notin Cleaned => intakes'[i] = intakes[i]
<1>1. intakes' = [i \in Intakes |->
        IF i \in Cleaned THEN Tombstone(intakes[i]) ELSE intakes[i]]
  BY DEF CleanupCompleted, Cleaned
<1>2. ASSUME NEW i \in Intakes
      PROVE  /\ intakes'[i] \in IntakeRow
             /\ intakes'[i].key = intakes[i].key
             /\ intakes'[i].accepted = intakes[i].accepted
             /\ (intakes'[i].status = "absent") = (intakes[i].status = "absent")
             /\ i \in Cleaned => intakes'[i].targets = {}
             /\ i \notin Cleaned => intakes'[i] = intakes[i]
  <2>1. intakes[i] \in IntakeRow /\ (i \in Cleaned => intakes[i].status # "absent")
    BY ErasedFacts DEF SpoolTypeOK
  <2>2. CASE i \in Cleaned
    <3>1. intakes'[i] = [intakes[i] EXCEPT !.targets = {}, !.status = "tombstone"]
      BY <1>1, <2>2 DEF Tombstone
    <3> QED BY <2>1, <2>2, <3>1 DEF IntakeRow
  <2>3. CASE i \notin Cleaned
    BY <1>1, <2>1, <2>3
  <2> QED BY <2>2, <2>3
<1>3. intakes' \in [Intakes -> IntakeRow]
  BY <1>1, <1>2
<1> QED BY <1>2, <1>3

\* Erased targets are in no index, so cleanup leaves both as they are.
LEMMA CleanupIndexes ==
    ASSUME SpoolInv, CleanupCompleted
    PROVE  ready' = ready /\ blocked' = blocked
<1>1. \A t \in Erased : ~Due(targets[t].state)
  BY ErasedFacts DEF SpoolInv, Due
<1>2. \A t \in Erased : \A e \in ready : e # QueueKey(t, targets[t].avail)
  BY <1>1 DEF SpoolInv, IndexesExact, QueueKey
<1>3. \A t \in Erased : t \notin blocked
  BY <1>1 DEF SpoolInv, IndexesExact, Due
<1>4. /\ ready' = ready \ {QueueKey(t, targets[t].avail) : t \in Erased}
      /\ blocked' = blocked \ Erased
  BY DEF CleanupCompleted, Erased, Cleaned
<1> QED BY <1>2, <1>3, <1>4

\* Cleanup keeps the types of the buckets.
LEMMA CleanupType ==
    ASSUME SpoolInv, CleanupCompleted
    PROVE  SpoolTypeOK'
<1>1. SpoolTypeOK /\ PlansAreWhole /\ PlansOwned
  BY DEF SpoolInv
<1>2. targets' \in [TargetIds -> Row]
  BY <1>1, NewRowType, CleanupRows DEF SpoolTypeOK
<1>3. cursor' \in Intakes \cup {NoIntake}
  <2>1. cursor' = IF Examined = {} THEN NoIntake
                  ELSE CHOOSE i \in Examined : \A j \in Examined : j <= i
    BY DEF CleanupCompleted
  <2> QED BY <1>1, <2>1, CursorType
<1>4. Commit /\ UNCHANGED <<active, dedupe, grants, registered, pstate>>
  BY DEF CleanupCompleted, profileVars
<1> QED BY <1>1, <1>2, <1>3, <1>4, CommitFrame, CleanupIntakes, CleanupIndexes
        DEF SpoolTypeOK, ProfilesTypeOK

\* History that is still stored keeps its originals.
LEMMA CleanupHistory ==
    ASSUME SpoolInv, CleanupCompleted
    PROVE  HistoryWaitsForOriginal'
<1> SUFFICES ASSUME NEW x \in TargetIds, Present(x)', Deps[x[2]] # {}
             PROVE  x \in blocked' <=>
                      \A d \in Deps[x[2]] : targets'[<<x[1], d>>].state # "delivered"
  BY DEF HistoryWaitsForOriginal
<1>1. x \notin Erased /\ Present(x)
  BY SMT, CleanupRows DEF Present, AbsentRow
<1>2. x[1] \notin Cleaned
  BY <1>1, ErasedFacts DEF SpoolInv
<1>3. \A d \in Deps[x[2]] : <<x[1], d>> \in TargetIds /\ <<x[1], d>> \notin Erased
  BY <1>2, ErasedFacts, DepsAreTargets DEF SpoolInv
<1>4. \A d \in Deps[x[2]] : targets'[<<x[1], d>>] = targets[<<x[1], d>>]
  BY <1>3, CleanupRows
<1> QED BY <1>1, <1>4, CleanupIndexes DEF SpoolInv, HistoryWaitsForOriginal

\* A tombstone has no targets left, so plans stay whole.
LEMMA CleanupPlans ==
    ASSUME SpoolInv, CleanupCompleted
    PROVE  PlansAreWhole' /\ PlansOwned'
<1>1. SpoolTypeOK /\ PlansAreWhole /\ PlansOwned /\ UNCHANGED dedupe
  BY DEF SpoolInv, CleanupCompleted
<1>2. ASSUME NEW t \in TargetIds PROVE Present(t)' <=> t \in intakes'[t[1]].targets
  <2>1. t[1] \in Intakes
    BY DepsAreTargets
  <2>2. CASE t[1] \in Cleaned
    <3>1. intakes'[t[1]].targets = {} /\ ~Present(t)'
      BY SMT, <1>1, <2>1, <2>2, ErasedFacts, CleanupRows, CleanupIntakes DEF Present, AbsentRow
    <3> QED BY <3>1
  <2>3. CASE t[1] \notin Cleaned
    <3>1. t \notin Erased
      BY <1>1, <2>3, ErasedFacts
    <3>2. targets'[t] = targets[t] /\ intakes'[t[1]] = intakes[t[1]]
      BY <1>1, <2>1, <2>3, <3>1, CleanupRows, CleanupIntakes
    <3> QED BY <1>1, <3>2 DEF Present, PlansAreWhole
  <2> QED BY <2>2, <2>3
<1>3. \A k \in Keys : dedupe[k] # NoIntake => dedupe[k] \in Intakes
  BY <1>1 DEF SpoolTypeOK
<1>4. \A i \in Intakes : /\ intakes'[i].key = intakes[i].key
                         /\ (intakes'[i].status = "absent") = (intakes[i].status = "absent")
                         /\ intakes'[i].targets \subseteq intakes[i].targets
  BY <1>1, CleanupIntakes
<1>5. PlansAreWhole'
  BY <1>1, <1>2, <1>3, <1>4 DEF PlansAreWhole
<1>6. PlansOwned'
  BY <1>1, <1>4 DEF PlansOwned
<1> QED BY <1>5, <1>6

\* An erased plan is complete, so its dedupe key still tells the truth.
LEMMA CleanupKeys ==
    ASSUME SpoolInv, CleanupCompleted
    PROVE  OnePlanPerIntent' /\ KeysLeadToLatest'
<1>1. /\ SpoolTypeOK /\ PlansAreWhole /\ PlansOwned /\ UNCHANGED dedupe
      /\ OnePlanPerIntent /\ KeysLeadToLatest
  BY DEF SpoolInv, CleanupCompleted
<1>2. ASSUME NEW i \in Intakes, Incomplete(i)' PROVE Incomplete(i)
  <2>1. i \notin Cleaned /\ intakes'[i] = intakes[i]
    BY <1>1, <1>2, CleanupIntakes DEF Incomplete
  <2>2. \A t \in intakes[i].targets : t \in TargetIds /\ t[1] = i
    BY <1>1 DEF PlansOwned, TargetIds
  <2>3. \A t \in intakes[i].targets : targets'[t] = targets[t]
    BY <1>1, <2>1, <2>2, ErasedFacts, CleanupRows
  <2> QED BY <1>2, <2>1, <2>3 DEF Incomplete
<1> QED BY <1>1, <1>2, CleanupIntakes, KeysFrame

\* CleanupCompleted keeps the invariant.
LEMMA CleanupInv == SpoolInv /\ CleanupCompleted => SpoolInv'
<1> SUFFICES ASSUME SpoolInv, CleanupCompleted PROVE SpoolInv'
  OBVIOUS
<1>1. SpoolTypeOK /\ Commit /\ UNCHANGED active
  BY DEF SpoolInv, CleanupCompleted
<1>2. \A t \in TargetIds :
        \/ targets'[t] = targets[t]
        \/ targets'[t].state = "absent" /\ targets[t].state \in {"delivered", "dead_letter"}
  BY SMT, ErasedFacts, CleanupRows DEF SpoolInv, AbsentRow
<1>3. IndexesExact'
  BY SMTT(30), <1>1, <1>2, CleanupIndexes, IndexFrame DEF SpoolInv, Due
<1>4. ActiveCountExact' /\ ActiveWithinLimit'
  BY SMT, <1>1, <1>2, CounterFrame DEF SpoolInv, ActiveState
<1>5. SendingIsOwned' /\ LimitAllowed'
  BY <1>1, <1>2, CommitFrame DEF SpoolInv, SendingIsOwned, LimitAllowed
<1> QED BY <1>3, <1>4, <1>5, CleanupType, CleanupHistory, CleanupPlans, CleanupKeys
        DEF SpoolInv
-----------------------------------------------------------------------------
(***************************************************************************)
(* Admission of a new plan.                                                *)
(***************************************************************************)
\* What submit does to the rows, and to the intakes and dedupe keys.
RowsAdded(i, plan) ==
    /\ \A t \in TargetIds : t[1] = i => targets[t].state = "absent"
    /\ \A t \in TargetIds : t \in {i} \X plan =>
         targets'[t].state = "pending" /\ targets'[t].avail = now
    /\ \A t \in TargetIds : t \notin {i} \X plan => targets'[t] = targets[t]

IntakeAdded(i, key, plan) ==
    /\ intakes[i].status = "absent" /\ intakes'[i].status # "absent"
    /\ intakes'[i].targets = {i} \X plan
    /\ intakes'[i].key = key /\ intakes'[i].accepted = now
    /\ \A j \in Intakes : j # i => intakes'[j] = intakes[j]
    /\ \A k \in Keys : dedupe'[k] = IF k = key THEN i ELSE dedupe[k]

\* The earlier plans are left alone, and those of the same key are complete
\* and a repeat interval old.
EarlierSettled(i, key) ==
    /\ Stored' = Stored \cup {i} /\ i \notin Stored /\ Stored \subseteq Intakes
    /\ \A j \in Stored : /\ intakes'[j] = intakes[j] /\ (Incomplete(j)' <=> Incomplete(j))
                         /\ key # NoKey /\ intakes[j].key = key =>
                              /\ key \in AMKeys /\ ~Incomplete(j)
                              /\ intakes[j].accepted + RepeatInterval <= now

\* submit makes the rows of a new plan pending and leaves the others alone.
LEMMA AdmitRows ==
    ASSUME SpoolTypeOK, PlansAreWhole, PlansOwned,
           NEW i \in Intakes, NEW key, NEW hash, NEW plan \in SUBSET Items,
           NEW snap \in Snapshot \cup {NoSnapshot}, Admit(i, key, hash, plan, snap)
    PROVE  /\ targets' \in [TargetIds -> Row]
           /\ \A t \in TargetIds : t[1] = i => targets[t].state = "absent"
           /\ \A t \in TargetIds : t \in {i} \X plan =>
                targets'[t].state = "pending" /\ targets'[t].avail = now /\ targets'[t].attempts = 0
           /\ \A t \in TargetIds : t \notin {i} \X plan => targets'[t] = targets[t]
<1>1. /\ intakes[i].status = "absent"
      /\ targets' = [t \in TargetIds |->
                       IF t \in {i} \X plan THEN NewRow(snap) ELSE targets[t]]
  BY DEF Admit
<1>2. \A t \in TargetIds : t[1] = i => targets[t].state = "absent"
  BY <1>1 DEF PlansAreWhole, PlansOwned, Present
<1>3. NewRow(snap) \in Row
  BY NewRowType
<1>4. NewRow(snap).state = "pending" /\ NewRow(snap).avail = now /\ NewRow(snap).attempts = 0
  BY DEF NewRow, AbsentRow
<1>5. targets' \in [TargetIds -> Row]
  BY <1>1, <1>3 DEF SpoolTypeOK
<1> QED BY <1>1, <1>2, <1>4, <1>5

\* submit stores the intake of a new plan and leaves the others alone.
LEMMA AdmitIntakes ==
    ASSUME SpoolTypeOK, NEW i \in Intakes, NEW key \in Keys \cup {NoKey},
           NEW hash \in Hashes, NEW plan \in SUBSET Items, NEW snap,
           Admit(i, key, hash, plan, snap)
    PROVE  /\ intakes' \in [Intakes -> IntakeRow] /\ intakes[i].status = "absent"
           /\ intakes'[i].targets = {i} \X plan /\ intakes'[i].status # "absent"
           /\ intakes'[i].key = key /\ intakes'[i].accepted = now
           /\ \A j \in Intakes : j # i => intakes'[j] = intakes[j]
<1> DEFINE row == [status |-> IF plan = {} THEN "filtered" ELSE "planned",
                   hash |-> hash, accepted |-> now, targets |-> {i} \X plan, key |-> key]
<1>1. intakes[i].status = "absent" /\ intakes' = [intakes EXCEPT ![i] = row]
  BY DEF Admit
<1>2. {i} \X plan \in SUBSET TargetIds /\ now \in Nat
  BY DEF TargetIds, SpoolTypeOK
<1>3. row \in IntakeRow
  BY <1>2 DEF IntakeRow
<1>4. /\ row.targets = {i} \X plan /\ row.status # "absent"
      /\ row.key = key /\ row.accepted = now
  OBVIOUS
<1> HIDE DEF row
<1>5. /\ intakes' \in [Intakes -> IntakeRow] /\ intakes'[i] = row
      /\ \A j \in Intakes : j # i => intakes'[j] = intakes[j]
  BY <1>1, <1>3 DEF SpoolTypeOK
<1> QED BY <1>1, <1>4, <1>5

\* Admission seen as added rows and an added intake.
LEMMA AdmitAdds ==
    ASSUME SpoolTypeOK, PlansAreWhole, PlansOwned,
           NEW i \in Intakes, NEW key \in Keys \cup {NoKey}, NEW hash \in Hashes,
           NEW plan \in SUBSET Items, NEW snap \in Snapshot \cup {NoSnapshot},
           Admit(i, key, hash, plan, snap)
    PROVE  /\ RowsAdded(i, plan) /\ targets' \in [TargetIds -> Row]
           /\ IntakeAdded(i, key, plan) /\ intakes' \in [Intakes -> IntakeRow]
<1>1. /\ targets' \in [TargetIds -> Row]
      /\ \A t \in TargetIds : t[1] = i => targets[t].state = "absent"
      /\ \A t \in TargetIds : t \in {i} \X plan =>
           targets'[t].state = "pending" /\ targets'[t].avail = now /\ targets'[t].attempts = 0
      /\ \A t \in TargetIds : t \notin {i} \X plan => targets'[t] = targets[t]
  BY ZenonT(30), AdmitRows
<1>2. /\ intakes' \in [Intakes -> IntakeRow] /\ intakes[i].status = "absent"
      /\ intakes'[i].targets = {i} \X plan /\ intakes'[i].status # "absent"
      /\ intakes'[i].key = key /\ intakes'[i].accepted = now
      /\ \A j \in Intakes : j # i => intakes'[j] = intakes[j]
  BY AdmitIntakes
<1>3. \A k \in Keys : dedupe'[k] = IF k = key THEN i ELSE dedupe[k]
  BY DEF Admit
<1>4. RowsAdded(i, plan)
  BY <1>1 DEF RowsAdded
<1>5. IntakeAdded(i, key, plan)
  BY <1>2, <1>3 DEF IntakeAdded
<1> QED BY <1>1, <1>2, <1>4, <1>5

\* Rows that are added as pending are indexed, some as ready, some as blocked.
LEMMA IndexedRows ==
    ASSUME SpoolTypeOK, IndexesExact,
           NEW ids \in SUBSET TargetIds, NEW history \in SUBSET ids, NEW at \in Nat,
           ready' = ready \cup {QueueKey(t, at) : t \in ids \ history},
           blocked' = blocked \cup history,
           \A t \in ids : targets[t].state = "absent",
           \A t \in ids : targets'[t].state = "pending" /\ targets'[t].avail = at,
           \A t \in TargetIds : t \notin ids => targets'[t] = targets[t]
    PROVE  IndexesExact'
<1>1. \A e \in ready : e.id \in TargetIds /\ e.id \notin ids
  BY DEF IndexesExact, Due, SpoolTypeOK
<1>2. \A t \in blocked : t \in TargetIds /\ t \notin ids
  BY DEF IndexesExact, SpoolTypeOK
<1>3. ASSUME NEW e \in ready'
      PROVE  Due(targets'[e.id].state) /\ targets'[e.id].avail = e.at /\ e.id \notin blocked'
  <2>1. CASE e \in ready
    BY ZenonT(30), <1>1, <2>1 DEF IndexesExact
  <2>2. ASSUME NEW t \in ids \ history, e = QueueKey(t, at)
        PROVE  Due(targets'[e.id].state) /\ targets'[e.id].avail = e.at /\ e.id \notin blocked'
    BY <1>2, <2>2 DEF QueueKey, Due
  <2> QED BY <2>1, <2>2
<1>4. \A t \in blocked' : targets'[t].state = "pending"
  BY <1>2 DEF IndexesExact
<1>5. ASSUME NEW t \in TargetIds, Due(targets'[t].state)
      PROVE  t \in blocked' \/ QueueKey(t, targets'[t].avail) \in ready'
  <2>1. CASE t \in ids
    BY <2>1
  <2>2. CASE t \notin ids
    BY <1>5, <2>2 DEF IndexesExact
  <2> QED BY <2>1, <2>2
<1> QED BY <1>3, <1>4, <1>5 DEF IndexesExact

\* A new plan is indexed: originals as ready, history as blocked.
LEMMA AdmitIndexes ==
    ASSUME SpoolTypeOK, IndexesExact, NEW i \in Intakes, NEW plan \in SUBSET Items,
           RowsAdded(i, plan),
           ready' = ready \cup {QueueKey(t, now) :
                                 t \in ({i} \X plan) \ {x \in {i} \X plan : Deps[x[2]] # {}}},
           blocked' = blocked \cup {x \in {i} \X plan : Deps[x[2]] # {}}
    PROVE  IndexesExact'
<1> DEFINE ids == {i} \X plan
           history == {x \in {i} \X plan : Deps[x[2]] # {}}
<1>1. ids \in SUBSET TargetIds /\ history \in SUBSET ids /\ now \in Nat
  BY DEF TargetIds, SpoolTypeOK
<1>2. \A t \in ids : t[1] = i
  OBVIOUS
<1>3. \A t \in ids : targets[t].state = "absent"
  BY <1>1, <1>2 DEF RowsAdded
<1>4. \A t \in ids : targets'[t].state = "pending" /\ targets'[t].avail = now
  BY <1>1 DEF RowsAdded
<1>5. \A t \in TargetIds : t \notin ids => targets'[t] = targets[t]
  BY DEF RowsAdded
<1>6. /\ ready' = ready \cup {QueueKey(t, now) : t \in ids \ history}
      /\ blocked' = blocked \cup history
  OBVIOUS
<1> HIDE DEF ids, history
<1> QED BY <1>1, <1>3, <1>4, <1>5, <1>6, IndexedRows

\* History of a new plan is blocked, for none of its originals is delivered.
LEMMA AdmitHistory ==
    ASSUME HistoryWaitsForOriginal, NEW i \in Intakes, NEW plan \in SUBSET Items,
           blocked' = blocked \cup {x \in {i} \X plan : Deps[x[2]] # {}},
           RowsAdded(i, plan)
    PROVE  HistoryWaitsForOriginal'
<1> SUFFICES ASSUME NEW x \in TargetIds, Present(x)', Deps[x[2]] # {}
             PROVE  x \in blocked' <=>
                      \A d \in Deps[x[2]] : targets'[<<x[1], d>>].state # "delivered"
  BY DEF HistoryWaitsForOriginal
<1> USE DEF RowsAdded
<1>1. \A d \in Deps[x[2]] : <<x[1], d>> \in TargetIds /\ <<x[1], d>>[1] = x[1]
  BY DepsAreTargets
<1>2. CASE x \in {i} \X plan
  <2>1. x[1] = i
    BY <1>2
  <2>2. \A d \in Deps[x[2]] : targets'[<<x[1], d>>].state # "delivered"
    BY <1>1, <2>1
  <2> QED BY <1>2, <2>2
<1>3. CASE x \notin {i} \X plan
  <2>1. Present(x) /\ x[1] # i
    BY <1>3 DEF Present
  <2>2. \A d \in Deps[x[2]] : targets'[<<x[1], d>>] = targets[<<x[1], d>>]
    BY <1>1, <2>1
  <2>3. x \in blocked' <=> x \in blocked
    BY <1>3
  <2> QED BY SMT, <2>1, <2>2, <2>3 DEF HistoryWaitsForOriginal
<1> QED BY <1>2, <1>3

\* A plan adds one target for each of its items.
LEMMA PlanSize ==
    ASSUME NEW i, NEW plan \in SUBSET Items
    PROVE  /\ IsFiniteSet({i} \X plan) /\ Cardinality(plan) \in Nat
           /\ Cardinality({i} \X plan) = Cardinality(plan)
<1>1. IsFiniteSet(plan) /\ Cardinality(plan) \in Nat
  BY SpoolConstants, FS_Subset, FS_CardinalityType
<1>2. IsFiniteSet({i}) /\ Cardinality({i}) = 1
  BY FS_Singleton
<1>3. /\ IsFiniteSet({i} \X plan)
      /\ Cardinality({i} \X plan) = Cardinality({i}) * Cardinality(plan)
  BY <1>1, <1>2, FS_Product
<1> QED BY SMT, <1>1, <1>2, <1>3

\* The counter grows by the number of added rows, within the limit.
LEMMA CountedRows ==
    ASSUME ActiveCountExact, NEW ids \in SUBSET TargetIds, NEW n \in Nat,
           IsFiniteSet(ids), Cardinality(ids) = n,
           active' = active + n, active' <= handle'.limit, handle'.limit \in Limits,
           \A t \in ids : targets[t].state = "absent",
           \A t \in ids : targets'[t].state = "pending",
           \A t \in TargetIds : t \notin ids => targets'[t] = targets[t]
    PROVE  ActiveCountExact' /\ ActiveWithinLimit'
<1>1. ActiveTargets' = ActiveTargets \cup ids /\ ActiveTargets \cap ids = {}
  BY DEF ActiveTargets, ActiveState
<1>2. IsFiniteSet(ActiveTargets) /\ Cardinality(ActiveTargets) \in Nat
  BY FiniteTargets DEF ActiveTargets
<1>3. Cardinality(ActiveTargets \cup ids) =
        Cardinality(ActiveTargets) + Cardinality(ids) - Cardinality(ActiveTargets \cap ids)
  BY <1>2, FS_Union
<1>4. Cardinality(ActiveTargets \cap ids) = 0
  BY <1>1, FS_EmptySet
<1>5. active = Cardinality(ActiveTargets)
  BY DEF ActiveCountExact
<1>6. ActiveCountExact'
  BY SMTT(30), <1>1, <1>2, <1>3, <1>4, <1>5 DEF ActiveCountExact
<1> QED BY <1>6 DEF ActiveWithinLimit, ActiveCountExact

\* The counter grows by the size of the plan, within the limit that submit checked.
LEMMA AdmitCounter ==
    ASSUME SpoolTypeOK, ActiveCountExact, LimitAllowed, Commit, NEW i \in Intakes,
           NEW plan \in SUBSET Items, RowsAdded(i, plan),
           HasRoom(Cardinality(plan)), active' = active + Cardinality(plan)
    PROVE  ActiveCountExact' /\ ActiveWithinLimit'
<1> DEFINE ids == {i} \X plan
<1>1. IsFiniteSet(ids) /\ Cardinality(plan) \in Nat /\ Cardinality(ids) = Cardinality(plan)
  BY PlanSize
<1>2. ids \in SUBSET TargetIds /\ \A t \in ids : t[1] = i
  BY DEF TargetIds
<1>3. \A t \in ids : targets[t].state = "absent"
  BY <1>2 DEF RowsAdded
<1>4. \A t \in ids : targets'[t].state = "pending"
  BY <1>2 DEF RowsAdded
<1>5. \A t \in TargetIds : t \notin ids => targets'[t] = targets[t]
  BY DEF RowsAdded
<1>6. handle'.limit \in Limits /\ active' <= handle'.limit
  BY CommitFrame DEF LimitAllowed, HasRoom
<1> HIDE DEF ids
<1> QED BY <1>1, <1>2, <1>3, <1>4, <1>5, <1>6, CountedRows

\* A new plan is stored whole under its dedupe key.
LEMMA AdmitPlans ==
    ASSUME SpoolTypeOK, PlansAreWhole, PlansOwned,
           NEW i \in Intakes, NEW key \in Keys \cup {NoKey}, NEW plan \in SUBSET Items,
           RowsAdded(i, plan), IntakeAdded(i, key, plan)
    PROVE  PlansAreWhole' /\ PlansOwned'
<1> USE DEF RowsAdded, IntakeAdded
<1>1. ASSUME NEW t \in TargetIds PROVE Present(t)' <=> t \in intakes'[t[1]].targets
  <2>1. CASE t[1] = i
    BY SMTT(30), <2>1 DEF Present
  <2>2. CASE t[1] # i
    <3>1. t \notin {i} \X plan /\ t[1] \in Intakes
      BY <2>2, DepsAreTargets
    <3>2. targets'[t] = targets[t] /\ intakes'[t[1]] = intakes[t[1]]
      BY <2>2, <3>1
    <3> QED BY SMT, <3>2 DEF Present, PlansAreWhole
  <2> QED BY <2>1, <2>2
<1>2. ASSUME NEW k \in Keys, dedupe'[k] # NoIntake
      PROVE  intakes'[dedupe'[k]].status # "absent" /\ intakes'[dedupe'[k]].key = k
  <2>1. CASE k = key
    BY <2>1
  <2>2. CASE k # key
    <3>1. dedupe'[k] = dedupe[k] /\ dedupe[k] \in Intakes
      BY SMTT(30), <1>2, <2>2 DEF SpoolTypeOK
    <3>2. dedupe[k] # i
      BY SMT, <1>2, <3>1 DEF PlansAreWhole
    <3> QED BY SMTT(30), <1>2, <3>1, <3>2 DEF PlansAreWhole
  <2> QED BY <2>1, <2>2
<1>3. PlansAreWhole'
  BY <1>1, <1>2 DEF PlansAreWhole
<1>4. {i} \X plan \subseteq {i} \X Items
  OBVIOUS
<1>5. PlansOwned'
  BY SMT, <1>4 DEF PlansOwned
<1> QED BY <1>3, <1>5

\* A new plan does not touch the completeness of the others.
LEMMA AdmitIncomplete ==
    ASSUME PlansOwned, NEW i \in Intakes, NEW plan, NEW j \in Intakes, j # i,
           intakes'[j] = intakes[j], RowsAdded(i, plan)
    PROVE  Incomplete(j)' <=> Incomplete(j)
<1>1. \A t \in intakes[j].targets : t \in TargetIds /\ t[1] = j
  BY DEF PlansOwned, TargetIds
<1>2. \A t \in intakes[j].targets : targets'[t] = targets[t]
  BY <1>1 DEF RowsAdded
<1> QED BY <1>2 DEF Incomplete

\* An interval before an instant that is itself an interval ago.
LEMMA OlderStill ==
    ASSUME NEW a \in Nat, NEW b \in Nat, NEW r \in Nat, NEW n \in Nat,
           a + r <= b, ~(n < b + r)
    PROVE  a + r <= n
  BY SMT

\* A key that is not a duplicate has only earlier plans that are complete and
\* a repeat interval old.
LEMMA EarlierPlans ==
    ASSUME SpoolTypeOK, KeysLeadToLatest,
           NEW key \in Keys, ~Duplicate(key, IF key \in AMKeys THEN RepeatInterval ELSE 0),
           NEW j \in Stored, intakes[j].key = key
    PROVE  /\ key \in AMKeys /\ ~Incomplete(j)
           /\ intakes[j].accepted + RepeatInterval <= now
<1> DEFINE latest == dedupe[key]
<1>0. key # NoKey /\ j \in Intakes
  BY SpoolConstants DEF Stored
<1>1. latest # NoIntake /\ latest \in Intakes
  BY <1>0 DEF KeysLeadToLatest, SpoolTypeOK
<1>2. /\ intakes[latest].accepted \in Nat /\ intakes[j].accepted \in Nat
      /\ RepeatInterval \in Nat /\ now \in Nat
  BY <1>0, <1>1, SpoolConstants DEF SpoolTypeOK, IntakeRow
<1>3. key \in AMKeys /\ ~Incomplete(latest)
      /\ ~(now < intakes[latest].accepted + RepeatInterval)
  BY <1>0, <1>1 DEF Duplicate
<1>4. CASE j = latest
  BY SMT, <1>2, <1>3, <1>4
<1>5. CASE j # latest
  <2>1. ~Incomplete(j) /\ intakes[j].accepted + RepeatInterval <= intakes[latest].accepted
    BY <1>0, <1>5 DEF KeysLeadToLatest
  <2>2. intakes[j].accepted + RepeatInterval <= now
    BY <1>2, <1>3, <2>1, OlderStill
  <2> QED BY <1>3, <2>1, <2>2
<1> QED BY <1>4, <1>5

\* A plan that is admitted finds the earlier ones of its key settled.
LEMMA AdmitSettled ==
    ASSUME SpoolTypeOK, PlansOwned, KeysLeadToLatest,
           NEW i \in Intakes, NEW key \in Keys \cup {NoKey}, NEW plan,
           ~Duplicate(key, IF key \in AMKeys THEN RepeatInterval ELSE 0),
           RowsAdded(i, plan), IntakeAdded(i, key, plan)
    PROVE  EarlierSettled(i, key)
<1>1. Stored' = Stored \cup {i} /\ i \notin Stored /\ Stored \subseteq Intakes
  BY ZenonT(30) DEF Stored, IntakeAdded
<1>2. \A j \in Stored : j \in Intakes /\ j # i /\ intakes'[j] = intakes[j]
  BY <1>1 DEF IntakeAdded
<1>3. \A j \in Stored : Incomplete(j)' <=> Incomplete(j)
  BY <1>2, AdmitIncomplete
<1>4. \A j \in Stored : key # NoKey /\ intakes[j].key = key =>
        /\ key \in AMKeys /\ ~Incomplete(j)
        /\ intakes[j].accepted + RepeatInterval <= now
  BY EarlierPlans
<1> QED BY <1>1, <1>2, <1>3, <1>4 DEF EarlierSettled

\* A plan that is admitted is the only one of its intent under way.
LEMMA AdmitUnique ==
    ASSUME OnePlanPerIntent, NEW i \in Intakes, NEW key \in Keys \cup {NoKey},
           NEW plan, IntakeAdded(i, key, plan), EarlierSettled(i, key)
    PROVE  OnePlanPerIntent'
<1> SUFFICES ASSUME NEW j \in Stored', NEW k \in Stored', j # k,
                    intakes'[j].key = intakes'[k].key, intakes'[j].key # NoKey
             PROVE  /\ intakes'[j].key \in AMKeys
                    /\ ~(Incomplete(j)' /\ Incomplete(k)')
                    /\ \/ intakes'[j].accepted + RepeatInterval <= intakes'[k].accepted
                       \/ intakes'[k].accepted + RepeatInterval <= intakes'[j].accepted
  BY DEF OnePlanPerIntent
<1> USE DEF EarlierSettled
<1>0. intakes'[i].key = key /\ intakes'[i].accepted = now
  BY DEF IntakeAdded
<1>1. CASE j = i
  BY <1>0, <1>1
<1>2. CASE k = i
  BY <1>0, <1>2
<1>3. CASE j \in Stored /\ k \in Stored
  BY SMTT(30), <1>3 DEF OnePlanPerIntent
<1> QED BY <1>1, <1>2, <1>3

\* The dedupe key of an admitted plan leads to it.
LEMMA AdmitLatest ==
    ASSUME SpoolTypeOK, PlansAreWhole, KeysLeadToLatest,
           NEW i \in Intakes, NEW key \in Keys \cup {NoKey},
           NEW plan, IntakeAdded(i, key, plan), EarlierSettled(i, key)
    PROVE  KeysLeadToLatest'
<1> SUFFICES ASSUME NEW j \in Stored', intakes'[j].key # NoKey
             PROVE  LET latest == dedupe'[intakes'[j].key]
                    IN  /\ latest # NoIntake
                        /\ j # latest =>
                             /\ intakes'[j].key \in AMKeys
                             /\ ~Incomplete(j)'
                             /\ intakes'[j].accepted + RepeatInterval
                                  <= intakes'[latest].accepted
  BY DEF KeysLeadToLatest
<1> USE DEF IntakeAdded, EarlierSettled
<1>1. i # NoIntake
  BY SpoolConstants
<1>2. CASE j = i
  <2>1. intakes'[j].key = key /\ key \in Keys
    BY <1>2
  <2>2. dedupe'[key] = i
    BY <2>1
  <2> QED BY <1>1, <1>2, <2>1, <2>2
<1>3. CASE j \in Stored /\ intakes[j].key = key
  <2>1. intakes'[j] = intakes[j] /\ key # NoKey /\ key \in Keys
    BY <1>3
  <2>2. dedupe'[key] = i
    BY SMTT(30), <2>1
  <2> QED BY ZenonT(30), <1>1, <1>3, <2>1, <2>2
<1>4. CASE j \in Stored /\ intakes[j].key # key
  <2>1. intakes'[j] = intakes[j] /\ intakes[j].key \in Keys
    BY SMT, <1>4 DEF SpoolTypeOK, IntakeRow
  <2>2. dedupe'[intakes[j].key] = dedupe[intakes[j].key]
    BY <1>4, <2>1
  <2>3. dedupe[intakes[j].key] # NoIntake
    BY SMTT(30), <1>4, <2>1 DEF KeysLeadToLatest
  <2>4. dedupe[intakes[j].key] \in Intakes /\ dedupe[intakes[j].key] # i
    BY SMTT(30), <2>1, <2>3 DEF PlansAreWhole, SpoolTypeOK
  <2> QED BY SMTT(30), <1>4, <2>1, <2>2, <2>3, <2>4 DEF KeysLeadToLatest
<1> QED BY SMTT(30), <1>2, <1>3, <1>4

\* submit keeps the types of the buckets.
LEMMA AdmitType ==
    ASSUME SpoolTypeOK, Commit, UNCHANGED profileVars,
           NEW i \in Intakes, NEW key \in Keys \cup {NoKey}, NEW hash \in Hashes,
           NEW plan \in SUBSET Items, NEW snap \in Snapshot \cup {NoSnapshot},
           Admit(i, key, hash, plan, snap),
           targets' \in [TargetIds -> Row], intakes' \in [Intakes -> IntakeRow]
    PROVE  SpoolTypeOK'
<1>1. /\ {i} \X plan \subseteq TargetIds /\ now \in Nat /\ active \in Nat
      /\ ready \subseteq [at : Nat, id : TargetIds] /\ blocked \subseteq TargetIds
      /\ dedupe \in [Keys -> Intakes \cup {NoIntake}]
  BY SMTT(30) DEF TargetIds, SpoolTypeOK
<1>2. /\ ready' = ready \cup {QueueKey(t, now) : t \in ({i} \X plan) \
                                  {t \in {i} \X plan : Deps[t[2]] # {}}}
      /\ blocked' = blocked \cup {t \in {i} \X plan : Deps[t[2]] # {}}
      /\ active' = active + Cardinality(plan)
      /\ dedupe' = [k \in Keys |-> IF k = key THEN i ELSE dedupe[k]]
      /\ UNCHANGED <<cursor, grants>>
  BY SMTT(30) DEF Admit, ChangeActiveCount
<1>3. ready' \subseteq [at : Nat, id : TargetIds]
  BY SMTT(30), <1>1, <1>2 DEF QueueKey
<1>4. blocked' \subseteq TargetIds
  BY <1>1, <1>2
<1>5. active' \in Nat
  <2>1. Cardinality(plan) \in Nat
    BY PlanSize
  <2> QED BY SMTT(30), <1>1, <1>2, <2>1
<1>6. dedupe' \in [Keys -> Intakes \cup {NoIntake}]
  BY <1>1, <1>2
<1>7. ProfilesTypeOK'
  BY DEF SpoolTypeOK, ProfilesTypeOK, profileVars
<1> QED BY ZenonT(30), <1>2, <1>3, <1>4, <1>5, <1>6, <1>7, CommitFrame DEF SpoolTypeOK

\* A new plan starts no attempt and does not touch the handle.
LEMMA AdmitOwned ==
    ASSUME SpoolTypeOK, SendingIsOwned, LimitAllowed, Commit, NEW i \in Intakes,
           NEW plan, RowsAdded(i, plan)
    PROVE  SendingIsOwned' /\ LimitAllowed'
<1>1. \A t \in TargetIds : targets'[t].state = "sending" => targets'[t] = targets[t]
  BY DEF RowsAdded
<1> QED BY <1>1, CommitFrame DEF SendingIsOwned, LimitAllowed

\* Admitting a plan keeps the invariant.
LEMMA AdmitInv ==
    ASSUME SpoolInv, Commit, UNCHANGED profileVars,
           NEW i \in Intakes, NEW key \in Keys \cup {NoKey}, NEW hash \in Hashes,
           NEW plan \in SUBSET Items, NEW snap \in Snapshot \cup {NoSnapshot},
           ~Duplicate(key, IF key \in AMKeys THEN RepeatInterval ELSE 0),
           Admit(i, key, hash, plan, snap)
    PROVE  SpoolInv'
<1>1. /\ SpoolTypeOK /\ IndexesExact /\ HistoryWaitsForOriginal /\ ActiveCountExact
      /\ SendingIsOwned /\ PlansAreWhole /\ PlansOwned /\ LimitAllowed
      /\ OnePlanPerIntent /\ KeysLeadToLatest
  BY SMTT(30) DEF SpoolInv
<1>2. /\ HasRoom(Cardinality(plan)) /\ active' = active + Cardinality(plan)
      /\ ready' = ready \cup {QueueKey(t, now) :
                                t \in ({i} \X plan) \ {x \in {i} \X plan : Deps[x[2]] # {}}}
      /\ blocked' = blocked \cup {x \in {i} \X plan : Deps[x[2]] # {}}
  BY DEF Admit, ChangeActiveCount
<1>3. /\ RowsAdded(i, plan) /\ targets' \in [TargetIds -> Row]
      /\ IntakeAdded(i, key, plan) /\ intakes' \in [Intakes -> IntakeRow]
  BY <1>1, AdmitAdds
<1>4. SpoolTypeOK'
  BY SMTT(30), <1>1, <1>3, AdmitType
<1>5. IndexesExact' /\ HistoryWaitsForOriginal'
  BY ZenonT(30), <1>1, <1>2, <1>3, AdmitIndexes, AdmitHistory
<1>6. ActiveCountExact' /\ ActiveWithinLimit'
  BY SMTT(30), <1>1, <1>2, <1>3, AdmitCounter
<1>7. SendingIsOwned' /\ LimitAllowed'
  BY <1>1, <1>3, AdmitOwned
<1>8. PlansAreWhole' /\ PlansOwned'
  BY <1>1, <1>3, AdmitPlans
<1>9. OnePlanPerIntent' /\ KeysLeadToLatest'
  BY <1>1, <1>3, AdmitSettled, AdmitUnique, AdmitLatest
<1> QED BY <1>4, <1>5, <1>6, <1>7, <1>8, <1>9 DEF SpoolInv

\* submit keeps the invariant, for a duplicate and for a new plan.
LEMMA SubmitInv ==
    ASSUME SpoolInv, NEW i \in Intakes, NEW key \in Keys \cup {NoKey},
           NEW hash \in Hashes, NEW plan \in SUBSET Items,
           NEW snap \in Snapshot \cup {NoSnapshot},
           Submit(i, key, hash, plan, snap, IF key \in AMKeys THEN RepeatInterval ELSE 0)
    PROVE  SpoolInv'
<1> DEFINE window == IF key \in AMKeys THEN RepeatInterval ELSE 0
<1>1. CASE Duplicate(key, window)
  <2>1. Commit /\ UNCHANGED bucketVars /\ UNCHANGED profileVars
    BY <1>1 DEF Submit
  <2>2. ProfilesTypeOK'
    BY <2>1 DEF SpoolInv, SpoolTypeOK, ProfilesTypeOK, profileVars
  <2> QED BY <2>1, <2>2, ProfileStepInv
<1>2. CASE ~Duplicate(key, window)
  <2>1. Commit /\ Admit(i, key, hash, plan, snap) /\ UNCHANGED profileVars
    BY <1>2 DEF Submit
  <2> QED BY SMTT(30), <1>2, <2>1, AdmitInv
<1> QED BY <1>1, <1>2
-----------------------------------------------------------------------------
(***************************************************************************)
(* The theorems.                                                           *)
(***************************************************************************)
\* A lane that accepts intake has a snapshot.
LEMMA SnapshotType ==
    ASSUME ProfilesTypeOK, NEW l \in Lanes, Accepting(l)
    PROVE  ProfileSnapshot(l) \in Snapshot
  BY DEF ProfilesTypeOK, Accepting, ProfileSnapshot, Snapshot, ProfileState

\* Every step of the spool keeps the invariant.
LEMMA NextInv == SpoolInv /\ [SpoolNext]_spoolVars => SpoolInv'
<1> SUFFICES ASSUME SpoolInv, [SpoolNext]_spoolVars PROVE SpoolInv'
  OBVIOUS
<1>1. ASSUME NEW limit \in Limits, Open(limit) PROVE SpoolInv'
  BY <1>1, OpenInv
<1>2. CASE Stop \/ WriteFails \/ DiskFails \/ DiskRecovers \/ Tick
  BY <1>2, StopInv, WriteFailsInv, EnvironmentInv
<1>3. CASE RegisterAny
  BY <1>3, RegisterInv DEF RegisterAny
<1>4. CASE ControlAny
  BY <1>4, ControlInv DEF ControlAny
<1>5. CASE SubmitAny
  <2>1. PICK i \in Intakes, key \in Keys \cup {NoKey}, hash \in Hashes,
             plan \in SUBSET Items,
             snap \in {ProfileSnapshot(l) : l \in {m \in Lanes : Accepting(m)}}
                        \cup {NoSnapshot} :
          Submit(i, key, hash, plan, snap,
                 IF key \in AMKeys THEN RepeatInterval ELSE 0)
    BY <1>5 DEF SubmitAny
  <2>2. snap \in Snapshot \cup {NoSnapshot}
    BY <2>1, SnapshotType DEF SpoolInv, SpoolTypeOK
  <2> QED BY SMTT(30), <2>1, <2>2, SubmitInv
<1>6. CASE Claim
  BY <1>6, ClaimEntryInv DEF Claim
<1>7. ASSUME NEW t \in TargetIds, ClaimForRecovery(t) PROVE SpoolInv'
  BY <1>7, ClaimForRecoveryInv
<1>8. CASE FinishAny
  <2>1. PICK t \in TargetIds, owner \in 1..MaxOpens, attempt \in 1..MaxAttempts,
             state \in Completions :
          Finish([target |-> t, owner |-> owner, attempt |-> attempt], state,
                 now + RetryDelay)
    BY <1>8 DEF FinishAny
  <2>2. [target |-> t, owner |-> owner, attempt |-> attempt] \in ClaimRecord
    BY SMTT(30), SpoolConstants DEF ClaimRecord
  <2>3. now + RetryDelay \in Nat
    BY SMTT(30), SpoolConstants DEF SpoolInv, SpoolTypeOK
  <2> QED BY <2>1, <2>2, <2>3, FinishInv
<1>9. ASSUME NEW t \in TargetIds, NEW state \in Completions \ {"unknown"},
             Resolve(t, state)
      PROVE  SpoolInv'
  BY <1>9, ResolveInv
<1>10. CASE CleanupCompleted
  BY <1>10, CleanupInv
<1>11. CASE UNCHANGED spoolVars
  <2>1. UNCHANGED <<bucketVars, profileVars, handle, disk, now>>
    BY <1>11 DEF spoolVars
  <2>2. SpoolTypeOK'
    BY <2>1 DEF SpoolInv, SpoolTypeOK, ProfilesTypeOK, bucketVars, profileVars
  <2> QED BY <2>1, <2>2, FrameInv
<1> QED BY <1>1, <1>2, <1>3, <1>4, <1>5, <1>6, <1>7, <1>8, <1>9, <1>10, <1>11
        DEF SpoolNext

\* The inductive invariant holds in every reachable state.
THEOREM SpoolInvariant == SpoolSpec => []SpoolInv
<1>1. SpoolInit => SpoolInv
  BY InitInv
<1>2. SpoolInv /\ [SpoolNext]_spoolVars => SpoolInv'
  BY NextInv
<1> QED BY <1>1, <1>2, PTL DEF SpoolSpec

\* Every bucket of the spool keeps its type.
THEOREM TypeCorrect == SpoolSpec => []SpoolTypeOK
  BY SpoolInvariant, PTL DEF SpoolInv

\* Every pending or retryable target is indexed exactly once, under its own key.
THEOREM IndexesAreExact == SpoolSpec => []IndexesExact
  BY SpoolInvariant, PTL DEF SpoolInv

\* History waits exactly until one of its originals is delivered.
THEOREM HistoryWaits == SpoolSpec => []HistoryWaitsForOriginal
  BY SpoolInvariant, PTL DEF SpoolInv

\* The active_targets counter never drifts from the rows, and no order of intake
\* and reconciliation exceeds the configured capacity.
THEOREM CapacityHolds == SpoolSpec => []CapacityRespected
  BY SpoolInvariant, PTL DEF SpoolInv, CapacityRespected

\* An attempt that an earlier owner left behind is never Sending.
THEOREM AttemptsAreOwned == SpoolSpec => []SendingIsOwned
  BY SpoolInvariant, PTL DEF SpoolInv

\* Plans are stored and erased whole, and repeats of one intent never have two
\* plans under way.
THEOREM IntentsAreUnique == SpoolSpec => []IntentsKeepOnePlan
  BY SpoolInvariant, PTL DEF SpoolInv, IntentsKeepOnePlan
-----------------------------------------------------------------------------
(***************************************************************************)
(* The reused decoding variable of Claim does not reach the profile.       *)
(***************************************************************************)
\* The ready bucket has one order.
LEMMA PrecedesAsymmetric ==
    ASSUME SpoolTypeOK, NEW e \in ready, NEW f \in ready, Precedes(e, f)
    PROVE  ~Precedes(f, e) /\ e # f
<1>1. /\ e.at \in Nat /\ f.at \in Nat
      /\ Rank[e.id] \in Nat /\ Rank[f.id] \in Nat
  BY SpoolConstants DEF SpoolTypeOK
<1> QED BY SMT, <1>1 DEF Precedes

\* A row that has a profile is decoded with its own.
LEMMA ProfiledDecodesOwn ==
    ASSUME SpoolTypeOK, NEW e \in ready, HasProfile(targets[e.id])
    PROVE  DecodedProfile(e) = targets[e.id].profile
<1>1. LastUpTo(e, e, WithProfile)
  BY DEF LastUpTo, WithProfile
<1>2. \A f \in ready : LastUpTo(f, e, WithProfile) => f = e
  BY PrecedesAsymmetric DEF LastUpTo, WithProfile
<1> QED BY <1>1, <1>2 DEF DecodedProfile

\* The row that Claim stores keeps its own profile: an inherited one belongs
\* to a paused lane, and the loop would have gone on.
LEMMA ClaimDecodesOwn ==
    ASSUME SpoolTypeOK, NEW e \in ready, Claimable(e)
    PROVE  DecodedProfile(e) = targets[e.id].profile
<1>1. CASE HasProfile(targets[e.id])
  BY <1>1, ProfiledDecodesOwn
<1>2. CASE ~HasProfile(targets[e.id])
  <2>1. ASSUME NEW f \in ready, LastUpTo(f, e, WithProfile) PROVE FALSE
    <3>1. PICK g \in ready : /\ LastUpTo(g, e, WithProfile)
                             /\ DecodedProfile(e) = targets[g.id].profile
      BY <2>1 DEF DecodedProfile
    <3>2. HasProfile(targets[g.id]) /\ Precedes(g, e)
      BY <1>2, <3>1 DEF LastUpTo, WithProfile
    <3>3. DecodedProfile(g) = DecodedProfile(e)
      BY <3>1, <3>2, ProfiledDecodesOwn
    <3> QED BY <3>2, <3>3 DEF Claimable
  <2> QED BY <1>2, <2>1 DEF DecodedProfile, HasProfile
<1> QED BY <1>1, <1>2

\* A row that keeps its attempts and its profile breaks none of it.
LEMMA SameRowStep ==
    ASSUME SpoolTypeOK, NEW t \in TargetIds,
           targets'[t].attempts = targets[t].attempts,
           targets'[t].profile = targets[t].profile
    PROVE  RowStep(t)
  BY SMT DEF SpoolTypeOK, Row, RowStep

\* Open starts no attempt and rewrites no profile.
LEMMA OpenRowStep ==
    ASSUME SpoolTypeOK, NEW t \in TargetIds, NEW limit \in Limits, Open(limit)
    PROVE  RowStep(t)
<1>1. targets'[t] = IF targets[t].state = "sending"
                    THEN [targets[t] EXCEPT !.state = "unknown", !.upd = now,
                                            !.outcome = "previous_owner_interrupted"]
                    ELSE targets[t]
  BY DEF Open
<1>2. targets[t] \in Row
  BY DEF SpoolTypeOK
<1>3. targets'[t].attempts = targets[t].attempts /\ targets'[t].profile = targets[t].profile
  BY SMT, <1>1, <1>2 DEF Row
<1> QED BY <1>3, SameRowStep

\* A new plan starts no attempt and writes only rows that were absent, with a
\* profile that is registered.
LEMMA AdmitRowStep ==
    ASSUME SpoolTypeOK, PlansAreWhole, PlansOwned, NEW t \in TargetIds,
           NEW i \in Intakes, NEW key, NEW hash, NEW plan \in SUBSET Items,
           NEW snap \in Snapshot \cup {NoSnapshot}, Admit(i, key, hash, plan, snap),
           snap # NoSnapshot => snap.version \in registered[snap.lane]
    PROVE  RowStep(t)
<1>0. /\ targets' \in [TargetIds -> Row]
      /\ \A x \in TargetIds : x[1] = i => targets[x].state = "absent"
      /\ \A x \in TargetIds : x \in {i} \X plan =>
           targets'[x].state = "pending" /\ targets'[x].avail = now /\ targets'[x].attempts = 0
      /\ \A x \in TargetIds : x \notin {i} \X plan => targets'[x] = targets[x]
  BY ZenonT(30), AdmitRows
<1>1. CASE t \in {i} \X plan
  <2>1. t[1] = i
    BY <1>1
  <2>2. targets[t].attempts \in Nat
    BY DEF SpoolTypeOK, Row
  <2>3. \/ targets'[t].profile = NoProfile
        \/ targets'[t].profile.version \in registered[targets'[t].profile.lane]
    <3>1. targets'[t] = NewRow(snap)
      BY <1>1 DEF Admit
    <3>2. NewRow(snap).profile = IF snap = NoSnapshot THEN NoProfile
                                 ELSE [lane |-> snap.lane, version |-> snap.version]
      BY DEF NewRow, AbsentRow
    <3> QED BY SMTT(30), <3>1, <3>2
  <2> QED BY SMT, <1>0, <1>1, <2>1, <2>2, <2>3 DEF RowStep, Present
<1>2. CASE t \notin {i} \X plan
  BY <1>0, <1>2, SameRowStep
<1> QED BY <1>1, <1>2

\* submit starts no attempt and rewrites no profile.
LEMMA SubmitRowStep ==
    ASSUME SpoolInv, NEW t \in TargetIds, SubmitAny
    PROVE  RowStep(t)
<1>1. PICK i \in Intakes, key \in Keys \cup {NoKey}, hash \in Hashes,
           plan \in SUBSET Items,
           snap \in {ProfileSnapshot(l) : l \in {m \in Lanes : Accepting(m)}}
                      \cup {NoSnapshot} :
        /\ UNCHANGED targets \/ Admit(i, key, hash, plan, snap)
        /\ snap # NoSnapshot => snap.version \in registered[snap.lane]
  BY SMTT(30) DEF SubmitAny, Submit, bucketVars
<1>2. snap \in Snapshot \cup {NoSnapshot}
  BY SnapshotType DEF SpoolInv, SpoolTypeOK
<1>3. SpoolTypeOK /\ PlansAreWhole /\ PlansOwned
  BY DEF SpoolInv
<1>4. CASE UNCHANGED targets
  BY <1>3, <1>4, SameRowStep
<1>5. CASE Admit(i, key, hash, plan, snap)
  BY <1>1, <1>2, <1>3, <1>5, AdmitRowStep
<1> QED BY ZenonT(30), <1>1, <1>4, <1>5

\* Claim starts an attempt only in a lane that is not paused.
LEMMA ClaimRowStep ==
    ASSUME SpoolTypeOK, NEW t \in TargetIds, NEW e \in ready, ClaimEntry(e)
    PROVE  RowStep(t)
<1>0. targets[t] \in Row
  BY DEF SpoolTypeOK
<1>1. Claimable(e) /\ targets' = [targets EXCEPT ![e.id] = Sending(Decoded(e))]
  BY DEF ClaimEntry
<1>2. CASE t = e.id
  <2>1. DecodedProfile(e) = targets[t].profile
    BY <1>1, <1>2, ClaimDecodesOwn
  <2>2. targets'[t].profile = DecodedProfile(e)
    BY <1>0, <1>1, <1>2 DEF Sending, Decoded, SpoolTypeOK, Row
  <2>3. ~DeliveryPaused(targets[t].profile)
    BY <1>1, <2>1 DEF Claimable
  <2> QED BY <2>1, <2>2, <2>3 DEF RowStep
<1>3. CASE t # e.id
  <2>1. targets'[t] = targets[t]
    BY <1>1, <1>3 DEF SpoolTypeOK
  <2> QED BY <2>1, SameRowStep
<1> QED BY <1>2, <1>3

\* ClaimForRecovery starts an attempt only in a lane that is not paused.
LEMMA RecoveryRowStep ==
    ASSUME SpoolTypeOK, NEW t \in TargetIds, NEW x \in TargetIds, ClaimForRecovery(x)
    PROVE  RowStep(t)
<1>0. targets[t] \in Row
  BY DEF SpoolTypeOK
<1>1. /\ ~DeliveryPaused(targets[x].profile)
      /\ targets' = [targets EXCEPT ![x] = Sending(targets[x])]
  BY DEF ClaimForRecovery, Recoverable
<1>2. CASE t = x
  <2>1. targets'[t].profile = targets[t].profile
    BY <1>0, <1>1, <1>2 DEF Sending, SpoolTypeOK, Row
  <2> QED BY <1>1, <1>2, <2>1 DEF RowStep
<1>3. CASE t # x
  <2>1. targets'[t] = targets[t]
    BY <1>1, <1>3 DEF SpoolTypeOK
  <2> QED BY <2>1, SameRowStep
<1> QED BY <1>2, <1>3

\* Concluding an attempt starts none and rewrites no profile.
LEMMA ConcludeRowStep ==
    ASSUME SpoolTypeOK, NEW t \in TargetIds, NEW x \in TargetIds, NEW row, Conclude(x, row),
           row.attempts = targets[x].attempts, row.profile = targets[x].profile
    PROVE  RowStep(t)
<1>1. targets'[t].attempts = targets[t].attempts /\ targets'[t].profile = targets[t].profile
  BY ZenonT(30) DEF Conclude, SpoolTypeOK, Row
<1> QED BY <1>1, SameRowStep

\* Finish starts no attempt and rewrites no profile.
LEMMA FinishRowStep ==
    ASSUME SpoolTypeOK, NEW t \in TargetIds, FinishAny
    PROVE  RowStep(t)
<1>1. PICK x \in TargetIds, owner \in 1..MaxOpens, attempt \in 1..MaxAttempts,
           state \in Completions :
        Finish([target |-> x, owner |-> owner, attempt |-> attempt], state, now + RetryDelay)
  BY DEF FinishAny
<1> DEFINE row == [targets[x] EXCEPT !.state = state, !.outcome = "platform",
                     !.evidence = x, !.upd = now,
                     !.avail = IF state = "retryable" THEN now + RetryDelay ELSE @]
<1>2. Conclude(x, row)
  BY <1>1 DEF Finish
<1>3. row.attempts = targets[x].attempts /\ row.profile = targets[x].profile
  BY ZenonT(30) DEF SpoolTypeOK, Row
<1> QED BY <1>2, <1>3, ConcludeRowStep

\* Resolve starts no attempt and rewrites no profile.
LEMMA ResolveRowStep ==
    ASSUME SpoolTypeOK, NEW t \in TargetIds, NEW x \in TargetIds,
           NEW state \in Completions \ {"unknown"}, Resolve(x, state)
    PROVE  RowStep(t)
<1> DEFINE row == [targets[x] EXCEPT !.state = state, !.outcome = "operator_reconciled",
                     !.evidence = x, !.upd = now,
                     !.avail = IF state = "retryable" THEN now ELSE @]
<1>1. Conclude(x, row)
  BY DEF Resolve
<1>2. row.attempts = targets[x].attempts /\ row.profile = targets[x].profile
  BY SMT DEF SpoolTypeOK, Row
<1> QED BY <1>1, <1>2, ConcludeRowStep

\* Cleanup starts no attempt and rewrites no profile of a row it keeps.
LEMMA CleanupRowStep ==
    ASSUME SpoolTypeOK, NEW t \in TargetIds, CleanupCompleted
    PROVE  RowStep(t)
<1>1. targets'[t] = targets[t] \/ targets'[t] = AbsentRow
  BY DEF CleanupCompleted
<1>2. CASE targets'[t] = AbsentRow
  <2>1. targets[t].attempts \in Nat
    BY DEF SpoolTypeOK, Row
  <2> QED BY SMTT(30), <1>2, <2>1 DEF RowStep, AbsentRow
<1> QED BY <1>1, <1>2, SameRowStep

\* The other operations do not touch the rows.
LEMMA QuietRowStep ==
    ASSUME SpoolTypeOK, NEW t \in TargetIds,
           \/ Stop \/ WriteFails \/ DiskFails \/ DiskRecovers \/ Tick
           \/ RegisterAny \/ ControlAny \/ UNCHANGED spoolVars
    PROVE  RowStep(t)
<1>1. UNCHANGED targets
  BY DEF Stop, WriteFails, DiskFails, DiskRecovers, Tick, RegisterAny, Register,
         ControlAny, Control, spoolVars, bucketVars
<1> QED BY <1>1, SameRowStep

\* No step starts an attempt in a paused lane or rewrites a stored profile.
LEMMA NextRowStep ==
    ASSUME SpoolInv, [SpoolNext]_spoolVars, NEW t \in TargetIds
    PROVE  RowStep(t)
<1>1. SpoolTypeOK
  BY DEF SpoolInv
<1> QED BY SMTT(30), <1>1, OpenRowStep, SubmitRowStep, ClaimRowStep, RecoveryRowStep,
           FinishRowStep, ResolveRowStep, CleanupRowStep, QuietRowStep DEF SpoolNext, Claim

\* No step starts an attempt for a lane that is paused.
THEOREM PauseStopsClaims == SpoolSpec => PausedNeverClaimed
<1>1. SpoolInv /\ [SpoolNext]_spoolVars =>
        [\A t \in TargetIds : targets'[t].attempts > targets[t].attempts =>
           ~DeliveryPaused(targets[t].profile)]_spoolVars
  BY NextRowStep DEF RowStep
<1> QED BY <1>1, SpoolInvariant, PTL DEF SpoolSpec, PausedNeverClaimed

\* No step rewrites the profile a stored target was frozen with.
THEOREM ProvenanceIsFrozen == SpoolSpec => FrozenProvenance
<1>1. SpoolInv /\ [SpoolNext]_spoolVars =>
        [\A t \in TargetIds : Present(t) /\ targets'[t].state # "absent" =>
           targets'[t].profile = targets[t].profile]_spoolVars
  BY NextRowStep DEF RowStep
<1> QED BY <1>1, SpoolInvariant, PTL DEF SpoolSpec, FrozenProvenance

\* The reused decoding variable neither starts an attempt on a paused lane nor
\* rewrites the profile of a stored target.
THEOREM SkippedRowsDoNotLeak == SpoolSpec => ClaimsTakeTheirOwn
  BY PauseStopsClaims, ProvenanceIsFrozen DEF ClaimsTakeTheirOwn
-----------------------------------------------------------------------------
(***************************************************************************)
(* Pausing one lane does not hold up the other.                            *)
(***************************************************************************)
\* The profile a row was frozen with is registered: validateProfileTarget never
\* fails for a row that is decoded with its own profile.
ProfilesRegistered ==
    \A t \in TargetIds : HasProfile(targets[t]) =>
        targets[t].profile.version \in registered[targets[t].profile.lane]

\* Profiles are only ever added.
LEMMA RegisteredGrows ==
    ASSUME [SpoolNext]_spoolVars, NEW l \in Lanes
    PROVE  registered[l] \subseteq registered'[l]
<1>1. CASE RegisterAny
  BY <1>1 DEF RegisterAny, Register, RegisterProfiles
<1>2. CASE (\E limit \in Limits : Open(limit)) \/ Stop \/ WriteFails \/ DiskFails \/ DiskRecovers \/ Tick
  BY <1>2 DEF Open, Stop, WriteFails, DiskFails, DiskRecovers, Tick, profileVars
<1>3. CASE ControlAny \/ SubmitAny \/ UNCHANGED spoolVars
  BY <1>3 DEF ControlAny, Control, ControlProfile, SubmitAny, Submit, spoolVars, profileVars
<1>4. CASE Claim \/ (\E t \in TargetIds : ClaimForRecovery(t)) \/ CleanupCompleted
  BY <1>4 DEF Claim, ClaimEntry, ClaimForRecovery, CleanupCompleted, profileVars
<1>5. CASE FinishAny \/ \E t \in TargetIds, state \in Completions \ {"unknown"} : Resolve(t, state)
  <2>1. ASSUME NEW t, NEW state, Resolve(t, state) PROVE UNCHANGED registered
    BY <2>1 DEF Resolve, profileVars
  <2>2. ASSUME NEW claim, NEW state, NEW next, Finish(claim, state, next) PROVE UNCHANGED registered
    BY <2>2 DEF Finish, profileVars
  <2> QED BY <1>5, <2>1, <2>2 DEF FinishAny
<1> QED BY <1>1, <1>2, <1>3, <1>4, <1>5 DEF SpoolNext

\* Every stored profile stays registered.
LEMMA RegisteredStep ==
    ASSUME SpoolInv, ProfilesRegistered, [SpoolNext]_spoolVars PROVE ProfilesRegistered'
<1>1. SpoolTypeOK /\ SpoolTypeOK'
  BY NextInv DEF SpoolInv
<1>2. ASSUME NEW t \in TargetIds, HasProfile(targets[t])'
      PROVE  targets'[t].profile.version \in registered'[targets'[t].profile.lane]
  <2>1. RowStep(t)
    BY NextRowStep
  <2>2. targets'[t].profile.lane \in Lanes
    BY <1>1, <1>2 DEF HasProfile, SpoolTypeOK, Row, Profile
  <2>3. targets'[t].profile.version \in registered[targets'[t].profile.lane]
    BY <1>2, <2>1 DEF RowStep, HasProfile, ProfilesRegistered
  <2> QED BY <1>1, <2>2, <2>3, RegisteredGrows
<1> QED BY <1>2 DEF ProfilesRegistered

\* Any entries of the ready bucket have a first one.
LEMMA FirstEntry ==
    ASSUME SpoolTypeOK, NEW D \in SUBSET ready, D # {}
    PROVE  \E e \in D : \A f \in D : ~Precedes(f, e)
<1>1. \A e \in D : e.at \in Nat /\ Rank[e.id] \in Nat
  BY SMT, SpoolConstants DEF SpoolTypeOK
<1> DEFINE T == {e.at : e \in D}
<1>2. PICK n \in T : \A m \in T : ~(<<m, n>> \in OpToRel(<, Nat))
  <2>1. T \subseteq Nat /\ T # {}
    BY <1>1
  <2> QED BY <2>1, WFMin, NatLessThanWellFounded
<1> DEFINE U == {Rank[e.id] : e \in {f \in D : f.at = n}}
<1>3. PICK r \in U : \A m \in U : ~(<<m, r>> \in OpToRel(<, Nat))
  <2>1. U \subseteq Nat /\ U # {}
    BY <1>1
  <2> QED BY <2>1, WFMin, NatLessThanWellFounded
<1>4. PICK e \in D : e.at = n /\ Rank[e.id] = r
  OBVIOUS
<1>5. \A m, k \in Nat : ~(<<m, k>> \in OpToRel(<, Nat)) => ~(m < k)
  BY DEF OpToRel
<1>6. \A f \in D : ~(f.at < n) /\ (f.at = n => ~(Rank[f.id] < r))
  BY <1>1, <1>2, <1>3, <1>4, <1>5
<1> QED BY <1>4, <1>6 DEF Precedes

\* Claim skips what is paused and stops at the first due entry that is not.
LEMMA UnpausedIsClaimable ==
    ASSUME SpoolTypeOK, ProfilesRegistered, \A e \in ready : HasProfile(targets[e.id]),
           NEW d \in ready, d.at <= now, ~DeliveryPaused(targets[d.id].profile)
    PROVE  \E f \in ready : Claimable(f)
<1>1. now \in Nat /\ \A e \in ready : e.at \in Nat /\ e.id \in TargetIds
  BY DEF SpoolTypeOK
<1>2. PICK e \in {f \in ready : f.at <= now /\ ~DeliveryPaused(targets[f.id].profile)} :
        \A f \in {g \in ready : g.at <= now /\ ~DeliveryPaused(targets[g.id].profile)} : ~Precedes(f, e)
  BY FirstEntry
<1>3. \A f \in ready : DecodedProfile(f) = targets[f.id].profile /\ DecodedValid(f)
  BY <1>1, ProfiledDecodesOwn DEF DecodedValid, ProfilesRegistered
<1>4. ASSUME NEW f \in ready, Precedes(f, e) PROVE DeliveryPaused(DecodedProfile(f))
  <2>1. f.at <= now
    BY SMTT(30), <1>1, <1>2, <1>4 DEF Precedes
  <2> QED BY <1>2, <1>3, <1>4, <2>1
<1> QED BY SMTT(30), <1>2, <1>3, <1>4 DEF Claimable

\* A paused lane never holds up the other one: a due target of a lane that is not
\* paused is never behind a queue that Claim reports as empty or invalid.
THEOREM PauseStaysInItsLane == SpoolSpec => []PauseIsPerLane
<1>1. SpoolInit => SpoolInv /\ ProfilesRegistered
  <2>1. SpoolInit => ProfilesRegistered
    BY SMT DEF SpoolInit, ProfilesRegistered, AbsentRow, HasProfile
  <2> QED BY <2>1, InitInv
<1>2. SpoolInv /\ ProfilesRegistered /\ [SpoolNext]_spoolVars => (SpoolInv /\ ProfilesRegistered)'
  BY NextInv, RegisteredStep
<1>3. SpoolInv /\ ProfilesRegistered => PauseIsPerLane
  BY UnpausedIsClaimable DEF PauseIsPerLane, SpoolInv
<1> QED BY <1>1, <1>2, <1>3, PTL DEF SpoolSpec
=============================================================================
