------------------------- MODULE DispatcherTheorems -------------------------
(***************************************************************************)
(* The theorems about the durable dispatcher: it runs the spool, a claim   *)
(* stays valid while it is held, no card is posted twice without a grant,  *)
(* a paused lane falls silent, and the whole implements the delivery       *)
(* ledger.  They hold for any number of workers, targets, attempts, opens  *)
(* and control operations.                                                 *)
(*                                                                         *)
(* First: what every operation of the spool does to the part of a row that *)
(* tells how far its delivery got.                                         *)
(***************************************************************************)
EXTENDS DurableDispatcher_proofs, NotificationSpool_proofs

\* Zenon is asked first; a leaf that needs arithmetic, records or many cases cites SMT.
USE Zenon

\* Open interrupts what was Sending and leaves the rest alone.
LEMMA OpenEffect ==
    ASSUME SpoolTypeOK, NEW limit, Open(limit)
    PROVE  Opened
<1>1. handle'.owner = handle.owner + 1 /\ handle.owner < MaxOpens /\ handle'.open /\ ~handle.open
  BY DEF Open
<1>2. UNCHANGED <<intakes, grants>>
  BY DEF Open
<1>3. ASSUME NEW t \in TargetIds
      PROVE  IF targets[t].state = "sending"
             THEN /\ targets'[t].state = "unknown"
                  /\ targets'[t].attempt = targets[t].attempt /\ targets'[t].attempts = targets[t].attempts
             ELSE targets'[t] = targets[t]
  <2>1. targets[t] \in Row
    BY DEF SpoolTypeOK
  <2>2. targets'[t] = IF targets[t].state = "sending"
                      THEN [targets[t] EXCEPT !.state = "unknown", !.upd = now,
                                              !.outcome = "previous_owner_interrupted"]
                      ELSE targets[t]
    BY DEF Open
  <2> QED BY <2>1, <2>2 DEF Row
<1> QED BY <1>1, <1>2, <1>3 DEF Opened

\* Storing a new attempt of row, a copy of the row of x, takes x.
LEMMA SendingTaken ==
    ASSUME SpoolTypeOK, Commit, NEW x \in TargetIds, NEW row \in Row,
           row.attempts = targets[x].attempts,
           Due(targets[x].state), targets[x].attempts < MaxAttempts,
           targets' = [targets EXCEPT ![x] = Sending(row)], UNCHANGED <<intakes, grants>>
    PROVE  Taken(x)
<1>1. /\ targets'[x] = Sending(row)
      /\ \A t \in TargetIds : t # x => targets'[t] = targets[t]
  BY DEF SpoolTypeOK
<1>2. /\ Sending(row).state = "sending" /\ Sending(row).owner = handle.owner
      /\ Sending(row).attempts = row.attempts + 1 /\ Sending(row).attempt = row.attempts + 1
  BY DEF Sending, Row
<1> QED BY <1>1, <1>2, CommitFrame DEF Taken, SameHandle

\* Claim takes the target of the entry it stops at.
LEMMA ClaimEffect ==
    ASSUME SpoolTypeOK, NEW e \in ready, ClaimEntry(e)
    PROVE  Taken(e.id)
<1>1. e.id \in TargetIds /\ Decoded(e) \in Row /\ targets[e.id] \in Row
  BY DecodedType DEF SpoolTypeOK
<1>2. Decoded(e).attempts = targets[e.id].attempts
  BY <1>1 DEF Decoded, Row
<1> QED BY <1>1, <1>2, SendingTaken DEF ClaimEntry

\* ClaimForRecovery takes the target it was asked for.
LEMMA RecoveryEffect ==
    ASSUME SpoolTypeOK, NEW t \in TargetIds, ClaimForRecovery(t)
    PROVE  Taken(t)
<1>1. targets[t] \in Row
  BY DEF SpoolTypeOK
<1> QED BY <1>1, SendingTaken DEF ClaimForRecovery, Recoverable

\* Concluding with a row that differs in state and outcome concludes the target.
LEMMA ConcludeConcluded ==
    ASSUME SpoolTypeOK, IndexesExact, Commit,
           NEW x \in TargetIds, NEW row \in Row, Conclude(x, row),
           row.attempt = targets[x].attempt, row.attempts = targets[x].attempts,
           UNCHANGED intakes
    PROVE  Concluded(x, row.state, row.outcome)
<1>1. targets'[x] = row
  BY DEF Conclude
<1>2. ASSUME NEW t \in TargetIds, t # x
      PROVE  SameRow(t) /\ (targets[t].state = "absent" => targets'[t] = targets[t])
  <2>1. targets[t] \in Row
    BY DEF SpoolTypeOK
  <2>2. \/ targets'[t] = targets[t]
        \/ t \in blocked /\ targets'[t] = [targets[t] EXCEPT !.avail = now]
    BY <1>2 DEF Conclude, Dependents
  <2>3. t \in blocked => targets[t].state = "pending"
    BY DEF IndexesExact
  <2> QED BY <2>1, <2>2, <2>3 DEF Row, SameRow
<1> QED BY <1>1, <1>2, CommitFrame DEF Concluded, SameHandle

\* Finish records a verdict of the platform.
LEMMA FinishEffect ==
    ASSUME SpoolTypeOK, IndexesExact, NEW c, c.target \in TargetIds, NEW state \in Completions,
           NEW next \in Nat, Finish(c, state, next)
    PROVE  /\ Concluded(c.target, state, "platform") /\ UNCHANGED grants
           /\ targets[c.target].state = "sending"
<1> DEFINE row == [targets[c.target] EXCEPT !.state = state, !.outcome = "platform",
                     !.evidence = c.target, !.upd = now,
                     !.avail = IF state = "retryable" THEN next ELSE @]
<1>1. targets[c.target] \in Row /\ now \in Nat
  BY DEF SpoolTypeOK
<1>2. /\ row \in Row /\ row.state = state /\ row.outcome = "platform"
      /\ row.attempt = targets[c.target].attempt /\ row.attempts = targets[c.target].attempts
  BY <1>1 DEF Row, States, Completions
<1>3. /\ Commit /\ targets[c.target].state = "sending" /\ Conclude(c.target, row)
      /\ UNCHANGED <<intakes, grants>>
  BY DEF Finish
<1> HIDE DEF row
<1> QED BY <1>1, <1>2, <1>3, ConcludeConcluded

\* Resolve records a decision of the operator, and a grant if it is to retry.
LEMMA ResolveEffect ==
    ASSUME SpoolTypeOK, IndexesExact, NEW t \in TargetIds, NEW state \in Completions,
           Resolve(t, state)
    PROVE  /\ Concluded(t, state, "operator_reconciled")
           /\ targets[t].state \in {"unknown", "dead_letter"}
           /\ grants' = [grants EXCEPT ![t] = IF state = "retryable" THEN @ + 1 ELSE @]
<1> DEFINE row == [targets[t] EXCEPT !.state = state, !.outcome = "operator_reconciled",
                     !.evidence = t, !.upd = now,
                     !.avail = IF state = "retryable" THEN now ELSE @]
<1>1. targets[t] \in Row /\ now \in Nat
  BY DEF SpoolTypeOK
<1>2. /\ row \in Row /\ row.state = state /\ row.outcome = "operator_reconciled"
      /\ row.attempt = targets[t].attempt /\ row.attempts = targets[t].attempts
  BY <1>1 DEF Row, States, Completions
<1>3. /\ Commit /\ targets[t].state \in {"unknown", "dead_letter"} /\ Conclude(t, row)
      /\ UNCHANGED intakes
      /\ grants' = [grants EXCEPT ![t] = IF state = "retryable" THEN @ + 1 ELSE @]
  BY DEF Resolve
<1> HIDE DEF row
<1> QED BY <1>1, <1>2, <1>3, ConcludeConcluded

\* Cleanup erases whole plans, and only what is over.
LEMMA CleanupEffect ==
    ASSUME SpoolInv, CountsInv, CleanupCompleted
    PROVE  Swept
<1>1. SpoolTypeOK /\ PlansAreWhole /\ PlansOwned
  BY DEF SpoolInv
<1>2. Commit /\ UNCHANGED grants
  BY DEF CleanupCompleted
<1>3. ASSUME NEW t \in TargetIds
      PROVE  \/ targets'[t] = targets[t] /\ intakes'[t[1]].status = intakes[t[1]].status
             \/ /\ targets'[t] = AbsentRow /\ intakes'[t[1]].status = "tombstone"
                /\ \/ targets[t].state \in {"absent", "delivered"}
                   \/ targets[t].state = "dead_letter" /\ targets[t].outcome = "operator_reconciled"
  <2>1. t[1] \in Intakes
    BY DepsAreTargets
  <2>2. CASE t[1] \notin Cleaned
    BY <1>1, <2>1, <2>2, ErasedFacts, CleanupRows, CleanupIntakes
  <2>3. CASE t[1] \in Cleaned
    <3>1. intakes'[t[1]].status = "tombstone"
      <4>1. intakes'[t[1]] = Tombstone(intakes[t[1]])
        BY <2>1, <2>3 DEF CleanupCompleted, Cleaned
      <4> QED BY SMTT(30), <1>1, <2>1, <4>1 DEF Tombstone, SpoolTypeOK, IntakeRow
    <3>2. CASE Present(t)
      <4>1. t \in intakes[t[1]].targets /\ t \in Erased
        BY <1>1, <2>3, <3>2, ErasedFacts DEF PlansAreWhole
      <4>2. \/ targets[t].state = "delivered"
            \/ targets[t].state = "dead_letter" /\ targets[t].outcome = "operator_reconciled"
        BY <2>3, <4>1 DEF Cleaned, Completed
      <4> QED BY <3>1, <4>1, <4>2, CleanupRows
    <3>3. CASE ~Present(t)
      BY <3>1, <3>3, CleanupRows DEF CountsInv, Present
    <3> QED BY <3>2, <3>3
  <2> QED BY <2>2, <2>3
<1> QED BY SMTT(30), <1>1, <1>2, <1>3, CommitFrame DEF Swept, SameHandle

\* submit adds rows to an intake that is new.
LEMMA SubmitEffect ==
    ASSUME SpoolInv, SubmitAny
    PROVE  Added
<1>1. PICK i \in Intakes, key \in Keys \cup {NoKey}, hash \in Hashes,
           plan \in SUBSET Items,
           snap \in {ProfileSnapshot(l) : l \in {m \in Lanes : Accepting(m)}}
                      \cup {NoSnapshot} :
        /\ Commit
        /\ UNCHANGED bucketVars \/ Admit(i, key, hash, plan, snap)
  BY SMTT(30) DEF SubmitAny, Submit
<1>2. snap \in Snapshot \cup {NoSnapshot}
  BY SMTT(30), SnapshotType DEF SpoolInv, SpoolTypeOK
<1>3. SpoolTypeOK /\ PlansAreWhole /\ PlansOwned
  BY DEF SpoolInv
<1>4. SameHandle
  BY ZenonT(30), <1>1, <1>3, CommitFrame DEF SameHandle
<1>5. CASE UNCHANGED bucketVars
  BY <1>4, <1>5 DEF Added, bucketVars
<1>6. CASE Admit(i, key, hash, plan, snap)
  <2>1. /\ targets' \in [TargetIds -> Row]
        /\ \A t \in TargetIds : t[1] = i => targets[t].state = "absent"
        /\ \A t \in TargetIds : t \in {i} \X plan =>
             targets'[t].state = "pending" /\ targets'[t].avail = now /\ targets'[t].attempts = 0
        /\ \A t \in TargetIds : t \notin {i} \X plan => targets'[t] = targets[t]
    BY ZenonT(30), <1>2, <1>3, <1>6, AdmitRows
  <2>2. /\ intakes[i].status = "absent"
        /\ \A j \in Intakes : j # i => intakes'[j] = intakes[j]
    BY ZenonT(30), <1>3, <1>6, AdmitIntakes
  <2>3. intakes'[i].status # "tombstone" /\ UNCHANGED grants
    BY <1>3, <1>6 DEF Admit, SpoolTypeOK
  <2>4. ASSUME NEW t \in TargetIds
        PROVE  \/ /\ targets'[t] = targets[t]
                  /\ (intakes'[t[1]].status = "tombstone") = (intakes[t[1]].status = "tombstone")
               \/ /\ targets[t].state = "absent" /\ intakes[t[1]].status # "tombstone"
                  /\ targets'[t].state = "pending" /\ targets'[t].attempts = 0 /\ targets'[t].attempt = 0
    <3>1. t[1] \in Intakes
      BY DepsAreTargets
    <3>2. CASE t \in {i} \X plan
      <4>1. t[1] = i
        BY <3>2
      <4>2. targets'[t] = NewRow(snap)
        BY <1>6, <3>2 DEF Admit
      <4>3. NewRow(snap).attempt = 0
        BY DEF NewRow, AbsentRow
      <4> QED BY <2>1, <2>2, <3>2, <4>1, <4>2, <4>3
    <3>3. CASE t \notin {i} \X plan
      BY ZenonT(30), <2>1, <2>2, <2>3, <3>1, <3>3
    <3> QED BY <3>2, <3>3
  <2> QED BY <1>4, <2>3, <2>4 DEF Added
<1> QED BY <1>1, <1>5, <1>6

\* The rest leaves rows and intakes alone.
LEMMA RestEffect ==
    ASSUME SpoolTypeOK,
           \/ Stop \/ WriteFails \/ DiskFails \/ DiskRecovers \/ Tick
           \/ RegisterAny \/ ControlAny \/ UNCHANGED spoolVars
    PROVE  Quiet
<1>1. UNCHANGED <<targets, intakes, grants>>
  BY DEF Stop, WriteFails, DiskFails, DiskRecovers, Tick, RegisterAny, Register,
         ControlAny, Control, spoolVars, bucketVars
<1>2. handle'.owner = handle.owner /\ (handle'.open => handle.open)
  <2>1. CASE Stop
    BY <2>1 DEF Stop, SpoolTypeOK
  <2>2. CASE WriteFails
    BY <2>2 DEF WriteFails, SpoolTypeOK
  <2>3. CASE DiskFails \/ DiskRecovers \/ Tick \/ UNCHANGED spoolVars
    BY <2>3 DEF DiskFails, DiskRecovers, Tick, spoolVars
  <2>4. CASE RegisterAny \/ ControlAny
    BY <2>4, CommitFrame DEF RegisterAny, Register, ControlAny, Control
  <2> QED BY ZenonT(30), <2>1, <2>2, <2>3, <2>4
<1> QED BY <1>1, <1>2 DEF Quiet

\* Every step of the spool has one of these effects.
LEMMA NextEffect ==
    ASSUME SpoolInv, CountsInv, [SpoolNext]_spoolVars
    PROVE  \/ Opened \/ Swept \/ Added \/ Quiet
           \/ \E x \in TargetIds : Taken(x)
           \/ \E x \in TargetIds, state \in Completions, outcome \in {"platform", "operator_reconciled"} :
                targets[x].state \in {"sending", "unknown", "dead_letter"} /\ Concluded(x, state, outcome)
<1>1. SpoolTypeOK /\ IndexesExact
  BY DEF SpoolInv
<1>2. CASE \E limit \in Limits : Open(limit)
  BY ZenonT(30), <1>1, <1>2, OpenEffect
<1>3. CASE SubmitAny
  BY <1>3, SubmitEffect
<1>4. CASE CleanupCompleted
  BY <1>4, CleanupEffect
<1>5. CASE Claim
  <2>1. PICK e \in ready : ClaimEntry(e)
    BY <1>5 DEF Claim
  <2> QED BY ZenonT(30), <1>1, <2>1, ClaimEffect DEF SpoolTypeOK
<1>6. CASE \E t \in TargetIds : ClaimForRecovery(t)
  BY ZenonT(30), <1>1, <1>6, RecoveryEffect
<1>7. CASE FinishAny
  <2>1. PICK t \in TargetIds, owner \in 1..MaxOpens, attempt \in 1..MaxAttempts,
             state \in Completions :
          Finish([target |-> t, owner |-> owner, attempt |-> attempt], state, now + RetryDelay)
    BY <1>7 DEF FinishAny
  <2>2. now + RetryDelay \in Nat
    BY SMTT(30), <1>1, SpoolConstants DEF SpoolTypeOK
  <2>3. Concluded(t, state, "platform") /\ targets[t].state = "sending"
    BY SMTT(30), <1>1, <2>1, <2>2, FinishEffect
  <2> QED BY <2>3
<1>8. CASE \E t \in TargetIds, state \in Completions \ {"unknown"} : Resolve(t, state)
  BY <1>1, <1>8, ResolveEffect
<1> QED BY <1>1, <1>2, <1>3, <1>4, <1>5, <1>6, <1>7, <1>8, RestEffect DEF SpoolNext

\* No step of the spool breaks the counts.
LEMMA NextCounts ==
    ASSUME SpoolInv, CountsInv, [SpoolNext]_spoolVars
    PROVE  CountsInv'
<1>1. /\ handle.owner \in Nat /\ MaxOpens \in Nat
      /\ \A t \in TargetIds : /\ targets[t].attempts \in Nat /\ targets[t].attempt \in Nat
                              /\ targets'[t] \in Row
  <2>1. SpoolTypeOK /\ SpoolTypeOK'
    BY NextInv DEF SpoolInv
  <2>2. handle.owner \in Nat /\ MaxOpens \in Nat
    BY ZenonT(30), <2>1, SpoolConstants DEF SpoolTypeOK
  <2>3. \A t \in TargetIds : targets[t] \in Row /\ targets'[t] \in Row
    BY ZenonT(30), <2>1 DEF SpoolTypeOK
  <2> QED BY ZenonT(30), <2>2, <2>3 DEF Row
<1>2. handle'.owner <= MaxOpens /\ (handle'.open => handle'.owner >= 1)
  BY SMTT(30), <1>1, NextEffect DEF CountsInv, Opened, Swept, Added, Quiet, Taken, Concluded, SameHandle
<1>3. ASSUME NEW t \in TargetIds
      PROVE  targets'[t].attempt <= targets'[t].attempts
  BY SMTT(30), <1>1, <1>3, NextEffect DEF CountsInv, Opened, Swept, Added, Quiet, Taken, Concluded, SameRow, AbsentRow
<1>4. ASSUME NEW t \in TargetIds, targets'[t].state = "absent"
      PROVE  targets'[t] = AbsentRow
  BY SMTT(30), <1>1, <1>4, NextEffect DEF CountsInv, Opened, Swept, Added, Quiet, Taken, Concluded,
                                    Completions, SameRow
<1> QED BY ZenonT(30), <1>2, <1>3, <1>4 DEF CountsInv

\* Finite sets are counted as the lemmas about the dispatcher suppose.
LEMMA CountingHolds == Counting
<1>1. /\ Cardinality({}) = 0
      /\ \A S : IsFiniteSet(S) => Cardinality(S) \in Nat /\ (Cardinality(S) = 0 => S = {})
  BY FS_EmptySet, FS_CardinalityType
<1>2. \A S, T : IsFiniteSet(S) /\ T \subseteq S => IsFiniteSet(T)
  BY FS_Subset
<1>3. \A S, x : IsFiniteSet(S) => IsFiniteSet(S \cup {x}) /\ IsFiniteSet(S \ {x})
  BY FS_AddElement, FS_RemoveElement
<1>4. \A S, x : IsFiniteSet(S) /\ x \notin S => Cardinality(S \cup {x}) = Cardinality(S) + 1
  BY FS_AddElement
<1>5. \A S, x : IsFiniteSet(S) /\ x \in S => Cardinality(S \ {x}) = Cardinality(S) - 1
  BY FS_RemoveElement
<1> QED BY <1>1, <1>2, <1>3, <1>4, <1>5 DEF Counting

\* So every step of the spool does what the lemmas about the dispatcher suppose.
LEMMA SpoolDelivers ==
    ASSUME SpoolInv, CountsInv, [SpoolNext]_spoolVars PROVE SpoolStepFacts
<1>1. SpoolTypeOK /\ IndexesExact
  BY DEF SpoolInv
<1>2. SpoolInv' /\ CountsInv' /\ \A t \in TargetIds : RowStep(t)
  BY NextInv, NextCounts, NextRowStep
<1>3. \A limit \in Limits : Open(limit) => Opened
  BY <1>1, OpenEffect
<1>4. /\ \A e \in ready : ClaimEntry(e) => Taken(e.id)
      /\ \A t \in TargetIds : ClaimForRecovery(t) => Taken(t)
  BY ZenonT(30), <1>1, ClaimEffect, RecoveryEffect
<1>5. \A c \in Claims, state \in Completions, next \in Nat :
        Finish(c, state, next) =>
          /\ Concluded(c.target, state, "platform") /\ UNCHANGED grants
          /\ targets[c.target].state = "sending"
  BY <1>1, FinishEffect, ClaimFields
<1>6. \A t \in TargetIds, state \in Completions :
        Resolve(t, state) =>
          /\ Concluded(t, state, "operator_reconciled")
          /\ targets[t].state \in {"unknown", "dead_letter"}
          /\ grants' = [grants EXCEPT ![t] = IF state = "retryable" THEN @ + 1 ELSE @]
  BY ZenonT(30), <1>1, ResolveEffect
<1>7. /\ CleanupCompleted => Swept
      /\ SubmitAny => Added
      /\ Stop \/ WriteFails \/ DiskFails \/ DiskRecovers \/ Tick
         \/ RegisterAny \/ ControlAny \/ UNCHANGED spoolVars => Quiet
  BY ZenonT(30), <1>1, CleanupEffect, SubmitEffect, RestEffect
<1> QED BY ZenonT(30), <1>2, <1>3, <1>4, <1>5, <1>6, <1>7, CountingHolds, NextEffect DEF SpoolStepFacts
-----------------------------------------------------------------------------
(***************************************************************************)
(* The theorems.                                                           *)
(***************************************************************************)
\* No process runs, nothing is stored and nothing was sent.
LEMMA DispatcherInitInv == DispatcherInit => DispatcherInv
<1> SUFFICES ASSUME DispatcherInit PROVE DispatcherInv
  OBVIOUS
<1>1. SpoolInv /\ SpoolTypeOK
  BY InitInv DEF DispatcherInit, SpoolInv
<1>2. /\ "off" \in Phases /\ At("off") \in AgentState
      /\ At("off").phase = "off" /\ At("off").claim = NoClaim
  BY AtType DEF Phases
<1>3. /\ senders = {} /\ net = {} /\ replies = {}
      /\ \A a \in Agents : agent[a] = At("off") /\ ~Holds(a) /\ agent[a].claim = NoClaim
      /\ \A t \in TargetIds : accepted[t] = 0 /\ targets[t] = AbsentRow /\ grants[t] = 0
      /\ ~handle.open /\ handle.owner = 0
  BY <1>2 DEF DispatcherInit, SpoolInit, Holds
<1>4. DispatcherTypeOK
  <2>1. agent \in [Agents -> AgentState]
    BY <1>2 DEF DispatcherInit
  <2> QED BY <1>1, <2>1 DEF DispatcherInit, DispatcherTypeOK, AgentState
<1>5. CountsInv
  BY SMTT(30), <1>3, SpoolConstants DEF CountsInv, AbsentRow
<1>6. ClaimsStayValid /\ ClosedInv /\ AgentsInv /\ SendersInv /\ MessagesInv
  BY <1>3, <1>4 DEF ClaimsStayValid, ClosedInv, AgentsInv, SendersInv, MessagesInv, Holds
<1>7. AccountsInv
  <2>1. IsFiniteSet(net) /\ \A t \in TargetIds : Spent(t) = 0
    <3>1. \A t \in TargetIds : OnWire(t) = {}
      BY <1>3 DEF OnWire
    <3> QED BY SMTT(30), <1>3, <3>1, FS_EmptySet DEF Spent
  <2>2. \A t \in TargetIds : Accounted(t)
    BY SMTT(30), <1>3, <2>1 DEF Accounted, AbsentRow, Due
  <2>3. \A a \in Agents : AgentAccounted(a)
    BY <1>3 DEF AgentAccounted, Unposted, Holds
  <2> QED BY <1>3, <2>1, <2>2, <2>3 DEF AccountsInv
<1> QED BY ZenonT(30), <1>1, <1>5, <1>6, <1>7 DEF DispatcherInv

\* The spool of the dispatcher does what the lemmas about its steps suppose.
LEMMA DispatcherSpool ==
    ASSUME DispatcherInv, [DispatcherNext]_vars PROVE SpoolStepFacts
<1>1. SpoolInv /\ CountsInv /\ AgentsInv
  BY DEF DispatcherInv
<1>2. [SpoolNext]_spoolVars
  BY <1>1, SpoolStep
<1> QED BY ZenonT(30), <1>1, <1>2, SpoolDelivers

\* Every step keeps the invariant.
LEMMA DispatcherNextInv == DispatcherInv /\ [DispatcherNext]_vars => DispatcherInv'
  BY DispatcherSpool, StepKeepsInv

\* The invariant of the dispatcher: what is stored, what the workers hold, what
\* their senders do and what the platform posted agree in every reachable state.
THEOREM DispatcherInvariant == DispatcherSpec => []DispatcherInv
  BY DispatcherInitInv, DispatcherNextInv, PTL DEF DispatcherSpec

\* Whatever the workers, the recovery tool, restarts and disk faults do, the
\* spool only sees operations of its own: all that is proved of the spool on its
\* own holds of the spool of the running manager.
THEOREM DispatcherRunsTheSpool == DispatcherSpec => SpoolSpec
<1>1. DispatcherInit => SpoolInit
  BY DEF DispatcherInit
<1>2. DispatcherInv /\ [DispatcherNext]_vars => [SpoolNext]_spoolVars
  BY SpoolStep DEF DispatcherInv
<1> QED BY <1>1, <1>2, DispatcherInvariant, PTL DEF DispatcherSpec, SpoolSpec

\* A worker that holds a claim owns the row it will finish, so the fence of
\* finishBase never drops an outcome of a running process.
THEOREM ClaimsAreValid == DispatcherSpec => []ClaimsStayValid
  BY DispatcherInvariant, PTL DEF DispatcherInv

\* No crash, timeout, lost answer, failed completion or late acceptance makes
\* the manager post a card twice on its own.
THEOREM CardsAreSentOnce == DispatcherSpec => []AtMostOnce
<1>1. DispatcherInv => AtMostOnce
  <2> SUFFICES ASSUME DispatcherInv, NEW t \in TargetIds
               PROVE  /\ accepted[t] <= 1 + grants[t]
                      /\ \/ Due(targets[t].state)
                         \/ targets[t].state = "dead_letter" /\ targets[t].outcome = "platform"
                         => accepted[t] + Cardinality({q \in net : q.target = t}) <= grants[t]
    BY DEF AtMostOnce
  <2>1. Accounted(t) /\ Spent(t) \in Nat /\ accepted[t] \in Nat /\ accepted[t] <= Spent(t) /\ grants[t] \in Nat
    <3>1. /\ IsFiniteSet(net) /\ Accounted(t) /\ accepted[t] \in Nat /\ grants[t] \in Nat
      BY InvFacts DEF DispatcherInv, AccountsInv, DispatcherTypeOK, SpoolTypeOK
    <3>2. OnWire(t) \subseteq net
      BY DEF OnWire
    <3>3. Cardinality(OnWire(t)) \in Nat
      BY ZenonT(30), <3>1, <3>2, CountingHolds DEF Counting
    <3> QED BY SMTT(30), <3>1, <3>3 DEF Spent
  <2>2. accepted[t] <= 1 + grants[t]
    BY SMTT(30), <2>1 DEF Accounted
  <2>3. \/ Due(targets[t].state)
        \/ targets[t].state = "dead_letter" /\ targets[t].outcome = "platform"
        => Spent(t) <= grants[t]
    BY <2>1 DEF Accounted
  <2> QED BY <2>2, <2>3 DEF Spent, OnWire
<1> QED BY <1>1, DispatcherInvariant, PTL

\* Pausing a lane makes it fall silent: whatever the workers, the recovery tool
\* and restarts do, nothing is added to what is in flight for it.
THEOREM PausedLanesQuiesce == DispatcherSpec => PauseQuiesces
<1>1. DispatcherInv /\ DispatcherInv' /\ [DispatcherNext]_vars =>
        [\A l \in Lanes : pstate[l].paused /\ pstate'[l].paused => InFlight(l)' \subseteq InFlight(l)]_vars
  BY PausedStep, DispatcherSpool
<1> QED BY <1>1, DispatcherInvariant, PTL DEF DispatcherSpec, PauseQuiesces

\* The dispatcher, with its workers, senders, crashes, restarts and lost answers,
\* implements the ledger: one verdict per target, sent once per grant.
THEOREM DispatcherImplementsLedger == DispatcherSpec => ImplementsLedger
<1>1. DispatcherInit => Ledger!LedgerInit
  <2> SUFFICES ASSUME DispatcherInit PROVE Ledger!LedgerInit
    OBVIOUS
  <2>1. ASSUME NEW t \in TargetIds
        PROVE  targets[t].state = "absent" /\ intakes[t[1]].status = "absent" /\ grants[t] = 0
    <3>1. t[1] \in Intakes
      BY DepsAreTargets
    <3> QED BY <3>1 DEF DispatcherInit, SpoolInit, AbsentRow, AbsentIntake
  <2>2. \A t \in TargetIds : VerdictOf(t) = "none"
    BY <2>1 DEF VerdictOf, Due
  <2>3. grants = [t \in TargetIds |-> 0] /\ accepted = [t \in TargetIds |-> 0]
    BY DEF DispatcherInit, SpoolInit
  <2> QED BY <2>2, <2>3 DEF Ledger!LedgerInit
<1>2. DispatcherInv /\ DispatcherInv' /\ [DispatcherNext]_vars => [Ledger!LedgerNext]_Ledger!ledgerVars
  BY LedgerStep, DispatcherSpool
<1> QED BY <1>1, <1>2, DispatcherInvariant, PTL DEF DispatcherSpec, ImplementsLedger, Ledger!LedgerSpec
=============================================================================
