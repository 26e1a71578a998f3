---------------------- MODULE DurableDispatcher_proofs ----------------------
(***************************************************************************)
(* The steps of the durable dispatcher keep its invariant, a paused lane   *)
(* gets no attempt, and each step is one of the delivery ledger, whenever  *)
(* the operation of the spool in that step does what SpoolStepFacts says.  *)
(* DispatcherTheorems shows that it does and draws the conclusions.  The   *)
(* lemmas hold for any number of workers, targets, attempts, opens and     *)
(* control operations.                                                     *)
(***************************************************************************)
EXTENDS DispatcherLedger, SpoolInvariant, TLAPS

\* Zenon is asked first; a leaf that needs arithmetic, records or many cases cites SMT.
USE Zenon

(***************************************************************************)
(* What an operation of the spool does to the part of a row that tells how *)
(* far its delivery got.                                                   *)
(***************************************************************************)
SameRow(t) ==
    /\ targets'[t].state = targets[t].state /\ targets'[t].outcome = targets[t].outcome
    /\ targets'[t].owner = targets[t].owner
    /\ targets'[t].attempt = targets[t].attempt /\ targets'[t].attempts = targets[t].attempts

SameHandle == handle'.owner = handle.owner /\ handle'.open = handle.open

\* An absent row is empty, the attempts on a row are counted by it, and the opens
\* are numbered from 1.
CountsInv ==
    /\ handle.owner <= MaxOpens /\ (handle.open => handle.owner >= 1)
    /\ \A t \in TargetIds : /\ targets[t].attempt <= targets[t].attempts
                            /\ targets[t].state = "absent" => targets[t] = AbsentRow

\* Open: what was Sending is unknown.
Opened ==
    /\ handle'.owner = handle.owner + 1 /\ handle.owner < MaxOpens /\ handle'.open /\ ~handle.open
    /\ UNCHANGED <<intakes, grants>>
    /\ \A t \in TargetIds :
         IF targets[t].state = "sending"
         THEN /\ targets'[t].state = "unknown"
              /\ targets'[t].attempt = targets[t].attempt /\ targets'[t].attempts = targets[t].attempts
         ELSE targets'[t] = targets[t]

\* Claim and ClaimForRecovery: x is Sending for a new attempt of this owner.
Taken(x) ==
    /\ handle.open /\ SameHandle /\ UNCHANGED <<intakes, grants>>
    /\ x \in TargetIds /\ Due(targets[x].state) /\ targets[x].attempts < MaxAttempts
    /\ targets'[x].state = "sending" /\ targets'[x].owner = handle.owner
    /\ targets'[x].attempts = targets[x].attempts + 1
    /\ targets'[x].attempt = targets[x].attempts + 1
    /\ \A t \in TargetIds : t # x => targets'[t] = targets[t]

\* Finish and Resolve: x has a new state; history they release stays pending.
Concluded(x, state, outcome) ==
    /\ SameHandle /\ UNCHANGED intakes
    /\ targets'[x].state = state /\ targets'[x].outcome = outcome
    /\ targets'[x].attempt = targets[x].attempt /\ targets'[x].attempts = targets[x].attempts
    /\ \A t \in TargetIds : t # x =>
         SameRow(t) /\ (targets[t].state = "absent" => targets'[t] = targets[t])

\* CleanupCompleted: a plan is erased with everything its intake might have held.
Swept ==
    /\ SameHandle /\ UNCHANGED grants
    /\ \A t \in TargetIds :
         \/ targets'[t] = targets[t] /\ intakes'[t[1]].status = intakes[t[1]].status
         \/ /\ targets'[t] = AbsentRow /\ intakes'[t[1]].status = "tombstone"
            /\ \/ targets[t].state \in {"absent", "delivered"}
               \/ targets[t].state = "dead_letter" /\ targets[t].outcome = "operator_reconciled"

\* submit: rows appear where neither a row nor a tombstone is.
Added ==
    /\ SameHandle /\ UNCHANGED grants
    /\ \A t \in TargetIds :
         \/ /\ targets'[t] = targets[t]
            /\ (intakes'[t[1]].status = "tombstone") = (intakes[t[1]].status = "tombstone")
         \/ /\ targets[t].state = "absent" /\ intakes[t[1]].status # "tombstone"
            /\ targets'[t].state = "pending" /\ targets'[t].attempts = 0 /\ targets'[t].attempt = 0

\* The others touch neither rows nor intakes.
Quiet ==
    /\ UNCHANGED <<targets, intakes, grants>>
    /\ handle'.owner = handle.owner /\ (handle'.open => handle.open)

Holds(a) == agent[a].phase \in {"budget", "sending", "finish"}

\* The row of the target of agent a is the attempt that a holds.
Valid(a) ==
    LET row == targets[agent[a].claim.target]
    IN  /\ row.state = "sending"
        /\ row.owner = agent[a].claim.owner /\ row.owner = handle.owner
        /\ row.attempt = agent[a].claim.attempt

\* The cards of t that the platform posted or may still post for a request on
\* its way.
OnWire(t) == {q \in net : q.target = t}
Spent(t) == accepted[t] + Cardinality(OnWire(t))

\* A closed spool has no process whose goroutines could hold a claim or send.
ClosedInv == ~handle.open => senders = {} /\ replies = {} /\ \A a \in Agents : ~Holds(a)

\* An agent holds a claim from the moment of the claim until it is finished, and
\* no other agent holds one of the same target.
AgentsInv ==
    /\ \A a \in Agents : IF Holds(a) THEN agent[a].claim \in Claims ELSE agent[a].claim = NoClaim
    /\ \A a, b \in Agents :
         Holds(a) /\ Holds(b) /\ agent[a].claim.target = agent[b].claim.target => a = b

\* Notify waits for exactly one live sender of its claim, a claim that waits for
\* its send budget has none, and the senders left behind have not sent.
SendersInv ==
    /\ \A a \in Agents : agent[a].phase = "sending" =>
         \E s \in senders : s.claim = agent[a].claim /\ s.live
    /\ \A a \in Agents : agent[a].phase = "budget" =>
         /\ \A s \in senders : s.claim # agent[a].claim
         /\ \A r \in replies : r.claim # agent[a].claim
    /\ \A s \in senders : s.live =>
         \E a \in Agents : agent[a].phase = "sending" /\ agent[a].claim = s.claim
    /\ \A s \in senders : s.stage = "sent" => s.live
    /\ \A s, r \in senders : s.claim = r.claim => s = r

\* c was handed out for a row that counts it, or that was erased since.
Made(c) ==
    IF Present(c.target) THEN c.attempt <= targets[c.target].attempts
                         ELSE intakes[c.target[1]].status = "tombstone"

\* Every message and every sender belongs to a claim that was made.
MessagesInv ==
    /\ \A q \in net : Made(q)
    /\ \A s \in senders : Made(s.claim)
    /\ \A r \in replies : Made(r.claim)

\* What is spent of a target in each state of its row.
Accounted(t) ==
    LET row == targets[t]
    IN  /\ Spent(t) <= 1 + grants[t]
        /\ Due(row.state) \/ (row.state = "dead_letter" /\ row.outcome = "platform")
             => Spent(t) <= grants[t]
        /\ row.state = "delivered" /\ row.outcome = "platform" => accepted[t] >= 1
        /\ row.state = "absent" /\ intakes[t[1]].status # "tombstone" => accepted[t] = 0

\* The send of agent a has not posted a card, and the outcome it will record
\* says so.
Unposted(a) ==
    \/ agent[a].phase = "budget"
    \/ /\ agent[a].phase = "sending"
       /\ \A s \in senders : s.claim = agent[a].claim => s.stage # "sent"
    \/ agent[a].phase = "finish" /\ agent[a].result \in {"presend", "refused", "invalid"}

\* A verdict of the platform, already with the agent or on its way, is true.
AgentAccounted(a) ==
    LET t == agent[a].claim.target
    IN  /\ Unposted(a) => Spent(t) <= grants[t]
        /\ agent[a].phase = "finish" /\ agent[a].result = "confirmed" => accepted[t] >= 1

ReplyAccounted(r, s) ==
    LET t == r.claim.target
    IN  s.claim = r.claim =>
          /\ s.stage = "sent"
          /\ r.answer \in {"refused", "invalid"} => Spent(t) <= grants[t]
          /\ r.answer = "confirmed" => accepted[t] >= 1

AccountsInv ==
    /\ IsFiniteSet(net)
    /\ \A t \in TargetIds : Accounted(t)
    /\ \A a \in Agents : AgentAccounted(a)
    /\ \A r \in replies, s \in senders : ReplyAccounted(r, s)

DispatcherInv ==
    /\ SpoolInv /\ CountsInv /\ ClaimsStayValid
    /\ ClosedInv /\ AgentsInv /\ SendersInv /\ MessagesInv /\ AccountsInv
-----------------------------------------------------------------------------
\* What is used of finite sets: removing and adding an element counts.
Counting ==
    /\ Cardinality({}) = 0
    /\ \A S : IsFiniteSet(S) => Cardinality(S) \in Nat /\ (Cardinality(S) = 0 => S = {})
    /\ \A S, T : IsFiniteSet(S) /\ T \subseteq S => IsFiniteSet(T)
    /\ \A S, x : IsFiniteSet(S) => IsFiniteSet(S \cup {x}) /\ IsFiniteSet(S \ {x})
    /\ \A S, x : IsFiniteSet(S) /\ x \notin S => Cardinality(S \cup {x}) = Cardinality(S) + 1
    /\ \A S, x : IsFiniteSet(S) /\ x \in S => Cardinality(S \ {x}) = Cardinality(S) - 1

\* What an operation of the spool guarantees in a state that satisfies the
\* invariant of the spool.  DispatcherTheorems proves it of every step.
SpoolStepFacts ==
    /\ Counting
    /\ SpoolInv' /\ CountsInv' /\ \A t \in TargetIds : RowStep(t)
    /\ (\E limit \in Limits : Open(limit)) => Opened
    /\ \A e \in ready : ClaimEntry(e) => Taken(e.id)
    /\ \A t \in TargetIds : ClaimForRecovery(t) => Taken(t)
    /\ \A c \in Claims, state \in Completions, next \in Nat :
         Finish(c, state, next) =>
           /\ Concluded(c.target, state, "platform") /\ UNCHANGED grants
           /\ targets[c.target].state = "sending"
    /\ \A t \in TargetIds, state \in Completions :
         Resolve(t, state) =>
           /\ Concluded(t, state, "operator_reconciled")
           /\ targets[t].state \in {"unknown", "dead_letter"}
           /\ grants' = [grants EXCEPT ![t] = IF state = "retryable" THEN @ + 1 ELSE @]
    /\ CleanupCompleted => Swept
    /\ SubmitAny => Added
    /\ Stop \/ WriteFails \/ DiskFails \/ DiskRecovers \/ Tick
       \/ RegisterAny \/ ControlAny \/ UNCHANGED spoolVars => Quiet
    /\ \/ Opened \/ Swept \/ Added \/ Quiet
       \/ \E x \in TargetIds : Taken(x)
       \/ \E x \in TargetIds, state \in Completions, outcome \in {"platform", "operator_reconciled"} :
            targets[x].state \in {"sending", "unknown", "dead_letter"} /\ Concluded(x, state, outcome)

(***************************************************************************)
(* The guarantees of the spool, one by one.                                *)
(***************************************************************************)
\* Sets are counted.
LEMMA SetsCount == ASSUME SpoolStepFacts PROVE Counting
  BY DEF SpoolStepFacts

\* The invariant of the spool is kept, with the counts and the rows.
LEMMA SpoolKept ==
    ASSUME SpoolStepFacts
    PROVE  SpoolInv' /\ CountsInv' /\ \A t \in TargetIds : RowStep(t)
  BY DEF SpoolStepFacts

\* Open interrupts what was Sending.
LEMMA OpenOpened ==
    ASSUME SpoolStepFacts, NEW limit \in Limits, Open(limit) PROVE Opened
  BY DEF SpoolStepFacts

\* Claim takes the target of the entry it stops at.
LEMMA ClaimTaken ==
    ASSUME SpoolStepFacts, NEW e \in ready, ClaimEntry(e) PROVE Taken(e.id)
  BY DEF SpoolStepFacts

\* ClaimForRecovery takes the target it was asked for.
LEMMA RecoveryTaken ==
    ASSUME SpoolStepFacts, NEW t \in TargetIds, ClaimForRecovery(t) PROVE Taken(t)
  BY DEF SpoolStepFacts

\* Finish records a verdict of the platform.
LEMMA FinishConcluded ==
    ASSUME SpoolStepFacts, NEW c \in Claims, NEW state \in Completions, NEW next \in Nat,
           Finish(c, state, next)
    PROVE  /\ Concluded(c.target, state, "platform") /\ UNCHANGED grants
           /\ targets[c.target].state = "sending"
  BY DEF SpoolStepFacts

\* Resolve records a decision of the operator, and a grant if it is to retry.
LEMMA ResolveConcluded ==
    ASSUME SpoolStepFacts, NEW t \in TargetIds, NEW state \in Completions, Resolve(t, state)
    PROVE  /\ Concluded(t, state, "operator_reconciled")
           /\ targets[t].state \in {"unknown", "dead_letter"}
           /\ grants' = [grants EXCEPT ![t] = IF state = "retryable" THEN @ + 1 ELSE @]
  BY DEF SpoolStepFacts

\* Cleanup erases whole plans, submit adds to new intakes, the rest touches none.
LEMMA PlansEffects ==
    ASSUME SpoolStepFacts
    PROVE  /\ CleanupCompleted => Swept
           /\ SubmitAny => Added
           /\ Stop \/ WriteFails \/ DiskFails \/ DiskRecovers \/ Tick
              \/ RegisterAny \/ ControlAny \/ UNCHANGED spoolVars => Quiet
  BY DEF SpoolStepFacts

\* Every step of the spool has one of these effects.
LEMMA StepEffects ==
    ASSUME SpoolStepFacts
    PROVE  \/ Opened \/ Swept \/ Added \/ Quiet
           \/ \E x \in TargetIds : Taken(x)
           \/ \E x \in TargetIds, state \in Completions, outcome \in {"platform", "operator_reconciled"} :
                targets[x].state \in {"sending", "unknown", "dead_letter"} /\ Concluded(x, state, outcome)
  BY DEF SpoolStepFacts

\* A committed transaction changes nothing of the handle but the outage signal.
LEMMA CommitSameHandle ==
    ASSUME SpoolTypeOK, Commit PROVE SameHandle
  BY DEF SpoolTypeOK, Commit, SameHandle
-----------------------------------------------------------------------------
(***************************************************************************)
(* The dispatcher runs the spool by its own operations.                    *)
(***************************************************************************)
\* A claim is a record of its three fields.
LEMMA ClaimFields ==
    ASSUME NEW c \in Claims
    PROVE  /\ c = [target |-> c.target, owner |-> c.owner, attempt |-> c.attempt]
           /\ c.target \in TargetIds /\ c.owner \in 1..MaxOpens /\ c.attempt \in 1..MaxAttempts
  BY DEF Claims

\* DeliveryOutcome completes an attempt.
LEMMA OutcomeCompletes ==
    ASSUME NEW result PROVE DeliveryOutcome(result) \in Completions
  BY DEF DeliveryOutcome, Completions

\* Whatever processes, workers, senders, platform and operator do, what they do
\* to the spool is one of its operations.
LEMMA SpoolStep ==
    ASSUME AgentsInv, DispatcherNext \/ UNCHANGED vars
    PROVE  [SpoolNext]_spoolVars
<1>1. CASE StartWriter \/ StartRecovery
  BY <1>1, DispatcherConstants DEF StartWriter, StartRecovery, SpoolNext
<1>2. CASE Crash \/ Exit
  BY <1>2 DEF Crash, Exit, ProcessDies, SpoolNext
<1>3. ASSUME NEW w \in Workers, WorkerStep(w) PROVE [SpoolNext]_spoolVars
  <2>1. CASE WorkerClaims(w)
    BY <2>1 DEF WorkerClaims, SpoolNext, Claim
  <2>2. CASE ClaimError(w)
    BY <2>2 DEF ClaimError, SpoolNext
  <2> QED BY <1>3, <2>1, <2>2 DEF WorkerStep, LoopTop, WorkerFindsNothing, CheckDrained,
                                  BudgetGranted, BudgetTimeout
<1>4. ASSUME NEW a \in Agents, SendStep(a) PROVE [SpoolNext]_spoolVars
  <2>1. CASE FinishSend(a) /\ ~WriteFails
    <3>1. agent[a].claim \in Claims
      BY <2>1 DEF FinishSend, AgentsInv, Holds
    <3>2. Finish(agent[a].claim, DeliveryOutcome(agent[a].result), now + RetryDelay)
      BY <2>1 DEF FinishSend
    <3> QED BY SMT, <3>1, <3>2, ClaimFields, OutcomeCompletes DEF SpoolNext, FinishAny
  <2>2. CASE FinishSend(a) /\ WriteFails
    BY <2>2 DEF SpoolNext
  <2> QED BY <1>4, <2>1, <2>2 DEF SendStep, PreflightFails, Interrupted, Answered
<1>5. CASE \E s \in senders : SenderStep(s)
  BY <1>5 DEF SenderStep, MarkDelivery, DoHttpRequest
<1>6. CASE \E q \in net : PlatformAccepts(q) \/ PlatformRefuses(q)
  BY <1>6 DEF PlatformAccepts, PlatformRefuses
<1>7. CASE OperatorResolves
  BY <1>7 DEF OperatorResolves, SpoolNext
<1>8. CASE OperatorReplays
  BY <1>8 DEF OperatorReplays, SpoolNext
<1>9. CASE WriterServes
  BY <1>9 DEF WriterServes, SpoolNext
<1>10. CASE Maintenance \/ TimePasses \/ DiskChanges
  BY <1>10 DEF Maintenance, TimePasses, DiskChanges, SpoolNext
<1> QED BY <1>1, <1>2, <1>3, <1>4, <1>5, <1>6, <1>7, <1>8, <1>9, <1>10
        DEF DispatcherNext, Terminate, vars
-----------------------------------------------------------------------------
(***************************************************************************)
(* What stays true of the messages and of the accounts.                    *)
(***************************************************************************)
\* A message of a claim that was made stays one: no row loses attempts, and an
\* erased row leaves a tombstone that no plan replaces.
LEMMA MadeStays ==
    ASSUME SpoolStepFacts, SpoolInv, CountsInv, [SpoolNext]_spoolVars, NEW c \in Claims, Made(c)
    PROVE  Made(c)'
<1> DEFINE t == c.target
<1>1. /\ t \in TargetIds /\ c.attempt \in Nat
      /\ targets[t].attempts \in Nat /\ targets'[t].attempts \in Nat
  BY SMT, ClaimFields, SpoolKept, SpoolConstants DEF SpoolInv, SpoolTypeOK, Row
<1>2. IF Present(t) THEN c.attempt <= targets[t].attempts ELSE intakes[t[1]].status = "tombstone"
  BY DEF Made
<1> HIDE DEF t
<1>3. CASE Opened
  BY <1>1, <1>2, <1>3 DEF Opened, Made, Present, t
<1>4. CASE Swept
  BY SMT, <1>1, <1>2, <1>4 DEF Swept, Made, Present, AbsentRow, t
<1>5. CASE Added
  BY <1>1, <1>2, <1>5 DEF Added, Made, Present, t
<1>6. CASE Quiet
  BY <1>1, <1>2, <1>6 DEF Quiet, Made, Present, t
<1>7. ASSUME NEW x \in TargetIds, Taken(x) PROVE Made(c)'
  BY SMT, <1>1, <1>2, <1>7 DEF Taken, Made, Present, Due, t
<1>8. ASSUME NEW x \in TargetIds, NEW state \in Completions,
             NEW outcome \in {"platform", "operator_reconciled"},
             targets[x].state \in {"sending", "unknown", "dead_letter"}, Concluded(x, state, outcome)
      PROVE  Made(c)'
  BY <1>1, <1>2, <1>8 DEF Concluded, SameRow, Made, Present, Completions, t
<1> QED BY <1>3, <1>4, <1>5, <1>6, <1>7, <1>8, StepEffects

\* The requests for a target can be counted.
LEMMA SpentType ==
    ASSUME SpoolStepFacts, DispatcherTypeOK, IsFiniteSet(net), NEW t \in TargetIds
    PROVE  /\ IsFiniteSet(OnWire(t)) /\ Cardinality(OnWire(t)) \in Nat
           /\ Spent(t) \in Nat /\ accepted[t] \in Nat /\ accepted[t] <= Spent(t) /\ grants[t] \in Nat
<1>1. IsFiniteSet(OnWire(t)) /\ Cardinality(OnWire(t)) \in Nat
  <2>1. OnWire(t) \subseteq net
    BY DEF OnWire
  <2> QED BY <2>1, SetsCount DEF Counting
<1>2. accepted[t] \in Nat /\ grants[t] \in Nat
  BY DEF DispatcherTypeOK, SpoolTypeOK
<1> QED BY SMT, <1>1, <1>2 DEF Spent

\* Nothing is spent while neither the wire nor the platform changes.
LEMMA SpentSame ==
    ASSUME UNCHANGED <<net, accepted>>, NEW t
    PROVE  Spent(t)' = Spent(t)
  BY DEF Spent, OnWire

\* A request leaves: one more may be posted.
LEMMA SpentSend ==
    ASSUME SpoolStepFacts, DispatcherTypeOK, IsFiniteSet(net), NEW c \in Claims, net' = net \cup {c},
           UNCHANGED accepted, NEW t \in TargetIds
    PROVE  /\ IsFiniteSet(net')
           /\ Spent(t)' \in Nat /\ Spent(t)' <= Spent(t) + 1
           /\ t # c.target => Spent(t)' = Spent(t)
<1>1. IsFiniteSet(net')
  BY SetsCount DEF Counting
<1>2. IsFiniteSet(OnWire(t)) /\ Cardinality(OnWire(t)) \in Nat /\ accepted[t] \in Nat
  BY SpentType
<1>3. CASE t # c.target \/ c \in net
  <2>1. OnWire(t)' = OnWire(t)
    BY <1>3 DEF OnWire
  <2> QED BY SMT, <1>1, <1>2, <2>1 DEF Spent
<1>4. CASE t = c.target /\ c \notin net
  <2>1. OnWire(t)' = OnWire(t) \cup {c} /\ c \notin OnWire(t)
    BY <1>4 DEF OnWire
  <2>2. Cardinality(OnWire(t)') = Cardinality(OnWire(t)) + 1
    BY <1>2, <2>1, SetsCount DEF Counting
  <2> QED BY SMT, <1>1, <1>2, <1>4, <2>2 DEF Spent
<1> QED BY <1>3, <1>4

\* A request arrives: it is posted, or nothing more can come of it.
LEMMA SpentArrive ==
    ASSUME SpoolStepFacts, DispatcherTypeOK, IsFiniteSet(net), NEW q \in net, net' = net \ {q},
           NEW posted \in {0, 1}, accepted' = [accepted EXCEPT ![q.target] = @ + posted],
           NEW t \in TargetIds
    PROVE  /\ IsFiniteSet(net') /\ q.target \in TargetIds
           /\ t # q.target => Spent(t)' = Spent(t) /\ accepted'[t] = accepted[t]
           /\ t = q.target => Spent(t)' = Spent(t) + posted - 1 /\ accepted'[t] = accepted[t] + posted
<1>0. IsFiniteSet(net')
  BY SetsCount DEF Counting
<1>1. IsFiniteSet(net') /\ q.target \in TargetIds /\ accepted \in [TargetIds -> Nat]
  BY <1>0, ClaimFields DEF DispatcherTypeOK
<1>2. IsFiniteSet(OnWire(t)) /\ Cardinality(OnWire(t)) \in Nat /\ accepted[t] \in Nat
  BY SpentType
<1>3. CASE t # q.target
  <2>1. OnWire(t)' = OnWire(t) /\ accepted'[t] = accepted[t]
    BY <1>1, <1>3 DEF OnWire
  <2> QED BY <1>1, <1>2, <1>3, <2>1 DEF Spent
<1>4. CASE t = q.target
  <2>1. OnWire(t)' = OnWire(t) \ {q} /\ q \in OnWire(t) /\ accepted'[t] = accepted[t] + posted
    BY <1>1, <1>4 DEF OnWire
  <2>2. Cardinality(OnWire(t)') = Cardinality(OnWire(t)) - 1
    BY <1>2, <2>1, SetsCount DEF Counting
  <2> QED BY SMT, <1>1, <1>2, <1>4, <2>1, <2>2 DEF Spent
<1> QED BY <1>3, <1>4
-----------------------------------------------------------------------------
(***************************************************************************)
(* The types of the dispatcher's variables.                                *)
(***************************************************************************)
AgentState == [phase : Phases, claim : Claims \cup {NoClaim}, result : Results, saw : BOOLEAN]

\* An agent that moves to another state of its loop keeps the type.
LEMMA MoveType ==
    ASSUME DispatcherTypeOK, NEW a \in Agents, NEW state \in AgentState, Move(a, state)
    PROVE  /\ agent' \in [Agents -> AgentState]
           /\ agent'[a] = state
           /\ \A b \in Agents : b # a => agent'[b] = agent[b]
  BY DEF DispatcherTypeOK, Move, AgentState

\* An agent that holds nothing has no claim and no result.
LEMMA AtType ==
    ASSUME NEW phase \in Phases
    PROVE  /\ At(phase) \in AgentState
           /\ At(phase).phase = phase /\ At(phase).claim = NoClaim
  BY DEF At, AgentState, Results

\* What the dispatcher's variables are when the spool's have their types.
LEMMA TypeFrame ==
    ASSUME DispatcherTypeOK, SpoolTypeOK', proc' \in {"none", "writer", "recovery"},
           closing' \in BOOLEAN, deadline' \in Nat, agent' \in [Agents -> AgentState],
           senders' \subseteq [claim : Claims, live : BOOLEAN,
                               stage : {"preflight", "marked", "sent"}],
           net' \subseteq Claims, replies' \subseteq [claim : Claims, answer : Answers],
           accepted' \in [TargetIds -> Nat]
    PROVE  DispatcherTypeOK'
  BY DEF DispatcherTypeOK, AgentState

\* The state of an agent that holds a claim, and that goes on with it.
LEMMA AgentFields ==
    ASSUME DispatcherTypeOK, NEW a \in Agents
    PROVE  /\ agent[a] \in AgentState
           /\ \A phase \in Phases : [agent[a] EXCEPT !.phase = phase] \in AgentState
           /\ \A result \in Results :
                [agent[a] EXCEPT !.phase = "finish", !.result = result] \in AgentState
<1>1. agent[a] \in AgentState
  BY DEF DispatcherTypeOK, AgentState
<1>2. "finish" \in Phases
  BY DEF Phases
<1> QED BY <1>1, <1>2 DEF AgentState
-----------------------------------------------------------------------------
\* A target that is neither stored nor erased has nothing spent.
LEMMA NoneSpent ==
    ASSUME SpoolStepFacts, DispatcherTypeOK, MessagesInv, AccountsInv, NEW t \in TargetIds,
           targets[t].state = "absent", intakes[t[1]].status # "tombstone"
    PROVE  Spent(t) = 0
<1>1. OnWire(t) = {}
  BY DEF OnWire, MessagesInv, Made, Present
<1>2. Cardinality(OnWire(t)) = 0
  BY <1>1, SetsCount DEF Counting
<1>3. accepted[t] = 0
  BY DEF AccountsInv, Accounted
<1> QED BY SMT, <1>2, <1>3 DEF Spent

\* A row that is not touched stays accounted for.
LEMMA AccountedFrame ==
    ASSUME NEW t \in TargetIds, Accounted(t), UNCHANGED <<net, accepted, grants>>, SameRow(t),
           (intakes'[t[1]].status = "tombstone") = (intakes[t[1]].status = "tombstone")
    PROVE  Accounted(t)'
  BY SpentSame DEF Accounted, SameRow

\* Steps that neither claim nor conclude keep the accounts.
LEMMA AccountedSpool ==
    ASSUME SpoolStepFacts, DispatcherInv, UNCHANGED <<net, accepted>>, Opened \/ Swept \/ Added \/ Quiet,
           NEW t \in TargetIds
    PROVE  Accounted(t)'
<1>1. Accounted(t) /\ Spent(t)' = Spent(t) /\ Spent(t) \in Nat /\ grants[t] \in Nat
  BY SpentSame, SpentType DEF DispatcherInv, AccountsInv, ClaimsStayValid
<1>2. CASE Opened
  BY <1>1, <1>2 DEF Opened, Accounted, Due
<1>3. CASE Swept
  BY SMTT(30), <1>1, <1>3 DEF Swept, Accounted, Due, AbsentRow
<1>4. CASE Added
  BY SMT, <1>1, <1>4, NoneSpent DEF Added, Accounted, DispatcherInv, ClaimsStayValid
<1>5. CASE Quiet
  BY <1>1, <1>5 DEF Quiet, Accounted
<1> QED BY <1>2, <1>3, <1>4, <1>5

\* A claim takes a row whose sends are all accounted for.
LEMMA AccountedTaken ==
    ASSUME SpoolStepFacts, DispatcherInv, UNCHANGED <<net, accepted>>, NEW x \in TargetIds, Taken(x),
           NEW t \in TargetIds
    PROVE  Accounted(t)' /\ (t = x => Spent(t)' <= grants'[t])
<1>1. Accounted(t) /\ Spent(t)' = Spent(t) /\ Spent(t) \in Nat /\ grants[t] \in Nat
  BY SpentSame, SpentType DEF DispatcherInv, AccountsInv, ClaimsStayValid
<1> QED BY <1>1 DEF Taken, Accounted, Due

\* Messages of claims that were made stay so through any step.
LEMMA MessagesStay ==
    ASSUME SpoolStepFacts, DispatcherInv, [SpoolNext]_spoolVars,
           \A q \in net' : q \in net \/ Made(q)',
           \A s \in senders' : Made(s.claim)' \/ \E r \in senders : r.claim = s.claim,
           \A r \in replies' : Made(r.claim)' \/ r.claim \in net \/ r \in replies
    PROVE  MessagesInv'
<1>1. /\ SpoolInv /\ CountsInv /\ MessagesInv /\ net \subseteq Claims
      /\ \A s \in senders : s.claim \in Claims
      /\ \A r \in replies : r.claim \in Claims
  BY DEF DispatcherInv, ClaimsStayValid, DispatcherTypeOK
<1>2. \A c \in Claims : Made(c) => Made(c)'
  BY <1>1, MadeStays
<1> QED BY <1>1, <1>2 DEF MessagesInv
-----------------------------------------------------------------------------
(***************************************************************************)
(* The steps of processes and of the spool.                                *)
(***************************************************************************)
\* Nothing happens to the agent and its row, or it holds no claim any more.
Kept(a) == agent'[a] = agent[a] /\ (Holds(a) => SameRow(agent[a].claim.target))
Idle(a) ==
    /\ agent'[a].phase \in Phases \ {"budget", "sending", "finish"}
    /\ agent'[a].claim = NoClaim

\* A step in which no send begins or goes on keeps the invariant.
LEMMA FrameStep ==
    ASSUME SpoolStepFacts, DispatcherInv, [SpoolNext]_spoolVars, DispatcherTypeOK', SameHandle,
           UNCHANGED <<senders, net, replies, accepted>>,
           \A t \in TargetIds : Accounted(t)' /\ grants'[t] >= grants[t],
           \A a \in Agents : Kept(a) \/ (Idle(a) /\ agent[a].phase # "sending")
    PROVE  DispatcherInv'
<1>1. /\ SpoolInv /\ CountsInv /\ ClaimsStayValid /\ DispatcherTypeOK
      /\ ClosedInv /\ AgentsInv /\ SendersInv /\ MessagesInv /\ AccountsInv
  BY DEF DispatcherInv, ClaimsStayValid
<1>2. SpoolInv' /\ CountsInv'
  BY <1>1, SpoolKept
<1>3. \A a \in Agents : /\ Holds(a)' => Kept(a) /\ Holds(a)
                        /\ ~Holds(a)' => agent'[a].claim = NoClaim
  BY <1>1 DEF Kept, Idle, Holds, AgentsInv
<1>4. ClaimsStayValid'
  <2>1. \A a \in Agents : Holds(a) => Valid(a)
    BY <1>1 DEF ClaimsStayValid, Holds, Valid
  <2>2. ASSUME NEW a \in Agents, Holds(a)' PROVE Valid(a)'
    <3>1. Kept(a) /\ Holds(a) /\ Valid(a)
      BY <1>3, <2>1, <2>2
    <3> QED BY <3>1 DEF Valid, Kept, SameRow, SameHandle
  <2> QED BY <2>2 DEF ClaimsStayValid, Holds, Valid
<1>5. ClosedInv'
  BY <1>1, <1>3 DEF ClosedInv, SameHandle
<1>6. AgentsInv'
  BY <1>1, <1>3 DEF AgentsInv, Kept
<1>7. SendersInv'
  <2>1. \A a \in Agents : /\ agent[a].phase = "sending" => agent'[a] = agent[a]
                          /\ agent'[a].phase \in {"sending", "budget"} => agent'[a] = agent[a]
    BY DEF Kept, Idle
  <2> QED BY SMT, <1>1, <2>1 DEF SendersInv
<1>8. MessagesInv'
  BY MessagesStay
<1>9. AccountsInv'
  <2>1. \A t \in TargetIds : /\ Spent(t)' = Spent(t) /\ Spent(t) \in Nat
                             /\ grants[t] \in Nat /\ grants'[t] \in Nat /\ grants'[t] >= grants[t]
    BY <1>1, SpentSame, SpentType DEF AccountsInv, DispatcherTypeOK, SpoolTypeOK
  <2>2. ASSUME NEW a \in Agents PROVE AgentAccounted(a)'
    <3>1. CASE Holds(a)'
      <4>1. /\ agent'[a] = agent[a] /\ AgentAccounted(a)
            /\ agent[a].claim.target \in TargetIds
        BY <1>1, <1>3, <3>1, ClaimFields DEF Kept, AccountsInv, AgentsInv
      <4>2. Unposted(a)' => Unposted(a)
        BY <4>1 DEF Unposted
      <4> QED BY SMT, <2>1, <4>1, <4>2 DEF AgentAccounted
    <3>2. CASE ~Holds(a)'
      BY <3>2 DEF Holds, AgentAccounted, Unposted
    <3> QED BY <3>1, <3>2
  <2>3. ASSUME NEW r \in replies', NEW s \in senders' PROVE ReplyAccounted(r, s)'
    <3>1. ReplyAccounted(r, s) /\ r.claim.target \in TargetIds
      BY <1>1, <2>3, ClaimFields DEF AccountsInv, DispatcherTypeOK
    <3> QED BY SMT, <2>1, <3>1 DEF ReplyAccounted
  <2> QED BY <1>1, <2>2, <2>3 DEF AccountsInv
<1> QED BY <1>2, <1>4, <1>5, <1>6, <1>7, <1>8, <1>9 DEF DispatcherInv

\* A step after which no agent, sender or reply is left keeps the invariant.
LEMMA RestartStep ==
    ASSUME SpoolStepFacts, DispatcherInv, [SpoolNext]_spoolVars, DispatcherTypeOK',
           senders' = {}, replies' = {}, UNCHANGED <<net, accepted>>,
           \A t \in TargetIds : Accounted(t)',
           \A a \in Agents : Idle(a)
    PROVE  DispatcherInv'
<1>1. SpoolInv /\ CountsInv /\ AccountsInv
  BY DEF DispatcherInv
<1>2. SpoolInv' /\ CountsInv'
  BY <1>1, SpoolKept
<1>3. \A a \in Agents : ~Holds(a)' /\ agent'[a].claim = NoClaim
  BY DEF Idle, Holds
<1>4. ClaimsStayValid' /\ ClosedInv' /\ AgentsInv'
  BY <1>3 DEF ClaimsStayValid, ClosedInv, AgentsInv, Holds
<1>5. SendersInv'
  BY <1>3 DEF SendersInv, Holds
<1>6. MessagesInv'
  BY MessagesStay
<1>7. AccountsInv'
  BY <1>1, <1>3 DEF AccountsInv, AgentAccounted, Unposted, Holds
<1> QED BY <1>2, <1>4, <1>5, <1>6, <1>7 DEF DispatcherInv

\* Intake, cleanup and the rest do not touch a row that is Sending.
LEMMA SendingKept ==
    ASSUME Swept \/ Added \/ Quiet, NEW t \in TargetIds, targets[t].state = "sending"
    PROVE  SameRow(t)
  BY DEF Swept, Added, Quiet, SameRow

\* The conjuncts of the invariant that every step starts from.
LEMMA InvFacts ==
    ASSUME DispatcherInv
    PROVE  /\ SpoolInv /\ SpoolTypeOK /\ CountsInv /\ DispatcherTypeOK /\ IndexesExact
           /\ agent \in [Agents -> AgentState]
           /\ \A a \in Agents : Holds(a) =>
                /\ agent[a].claim \in Claims /\ agent[a].claim.target \in TargetIds /\ Valid(a)
  BY ClaimFields DEF DispatcherInv, ClaimsStayValid, DispatcherTypeOK, SpoolInv, AgentsInv,
                     AgentState, Holds, Valid

\* A process opens the spool: what was Sending is unknown and nobody holds it.
LEMMA StartInv ==
    ASSUME SpoolStepFacts, DispatcherInv, StartWriter \/ StartRecovery PROVE DispatcherInv'
<1>1. SpoolInv /\ SpoolTypeOK /\ DispatcherTypeOK
  BY InvFacts
<1>2. PICK limit \in Limits : Open(limit)
  BY DispatcherConstants DEF StartWriter, StartRecovery
<1>3. [SpoolNext]_spoolVars /\ Opened
  BY <1>1, <1>2, OpenOpened DEF SpoolNext
<1>4. senders' = {} /\ replies' = {} /\ UNCHANGED <<net, accepted>>
  BY <1>2 DEF StartWriter, StartRecovery, DispatcherInv, ClosedInv, Open
<1>5. PICK f \in [Agents -> {"loop", "off"}] : agent' = [a \in Agents |-> At(f[a])]
  <2>1. CASE StartWriter
    <3> DEFINE f == [a \in Agents |-> IF a \in Workers THEN "loop" ELSE "off"]
    <3>1. f \in [Agents -> {"loop", "off"}]
      OBVIOUS
    <3>2. agent' = [a \in Agents |-> At(f[a])]
      BY <2>1 DEF StartWriter
    <3> QED BY <3>1, <3>2
  <2>2. CASE StartRecovery
    <3> DEFINE f == [a \in Agents |-> IF a = Operator THEN "loop" ELSE "off"]
    <3>1. f \in [Agents -> {"loop", "off"}]
      OBVIOUS
    <3>2. agent' = [a \in Agents |-> At(f[a])]
      BY <2>2 DEF StartRecovery
    <3> QED BY <3>1, <3>2
  <2> QED BY <2>1, <2>2
<1>6. agent' \in [Agents -> AgentState] /\ \A a \in Agents : Idle(a)
  <2>1. \A a \in Agents : f[a] \in Phases \ {"budget", "sending", "finish"}
    BY DEF Phases
  <2>2. \A a \in Agents : agent'[a] = At(f[a])
    BY <1>5
  <2>3. \A a \in Agents : At(f[a]) \in AgentState /\ At(f[a]).phase = f[a] /\ At(f[a]).claim = NoClaim
    BY <2>1, AtType
  <2> QED BY <1>5, <2>1, <2>2, <2>3 DEF Idle
<1>7. DispatcherTypeOK'
  <2>1. SpoolTypeOK'
    BY <1>1, <1>3, SpoolKept DEF SpoolInv
  <2>2. proc' \in {"writer", "recovery"} /\ closing' = FALSE /\ deadline' = 0
    BY DEF StartWriter, StartRecovery
  <2>3. proc' \in {"none", "writer", "recovery"} /\ closing' \in BOOLEAN /\ deadline' \in Nat
    BY <2>2
  <2> QED BY <1>1, <1>4, <1>6, <2>1, <2>3, TypeFrame DEF DispatcherTypeOK
<1> QED BY <1>3, <1>4, <1>6, <1>7, RestartStep, AccountedSpool

\* A process that dies leaves only what travels to the platform.
LEMMA DiesInv ==
    ASSUME SpoolStepFacts, DispatcherInv, ProcessDies PROVE DispatcherInv'
<1>1. SpoolInv /\ SpoolTypeOK /\ DispatcherTypeOK
  BY InvFacts
<1>2. [SpoolNext]_spoolVars /\ Quiet
  BY <1>1, PlansEffects DEF ProcessDies, SpoolNext
<1>3. senders' = {} /\ replies' = {} /\ UNCHANGED <<net, accepted>>
  BY DEF ProcessDies
<1>4. agent' \in [Agents -> AgentState] /\ \A a \in Agents : Idle(a)
  <2>1. \A a \in Agents : agent'[a] = At("off")
    BY DEF ProcessDies
  <2>2. At("off") \in AgentState /\ At("off").phase = "off" /\ At("off").claim = NoClaim /\ "off" \in Phases
    BY AtType DEF Phases
  <2> QED BY <2>1, <2>2 DEF Idle, ProcessDies
<1>5. DispatcherTypeOK'
  <2>1. SpoolTypeOK'
    BY <1>1, <1>2, SpoolKept DEF SpoolInv
  <2>2. proc' \in {"none", "writer", "recovery"} /\ closing' \in BOOLEAN /\ deadline' \in Nat
    BY DEF ProcessDies
  <2> QED BY <1>1, <1>3, <1>4, <2>1, <2>2, TypeFrame DEF DispatcherTypeOK
<1> QED BY <1>2, <1>3, <1>4, <1>5, RestartStep, AccountedSpool

\* Intake, profile control, maintenance, the clock and the disk.
LEMMA ServeInv ==
    ASSUME SpoolStepFacts, DispatcherInv,
           WriterServes \/ Maintenance \/ TimePasses \/ DiskChanges \/ UNCHANGED vars
    PROVE  DispatcherInv'
<1>1. SpoolInv /\ SpoolTypeOK /\ CountsInv /\ DispatcherTypeOK /\ AgentsInv
  BY InvFacts DEF DispatcherInv
<1>2. [SpoolNext]_spoolVars
  BY <1>1, SpoolStep DEF DispatcherNext
<1>3. Swept \/ Added \/ Quiet
  BY <1>1, PlansEffects
     DEF WriterServes, Maintenance, TimePasses, DiskChanges, vars
<1>4. SameHandle
  <2>1. CASE \/ WriterServes /\ ~WriteFails
             \/ Maintenance
    BY <1>1, <2>1, CommitSameHandle
       DEF WriterServes, Maintenance, SubmitAny, Submit, RegisterAny, Register, ControlAny, Control,
           CleanupCompleted, SameHandle
  <2>2. CASE WriterServes /\ WriteFails
    BY <1>1, <2>2 DEF WriteFails, SpoolTypeOK, SameHandle
  <2>3. CASE TimePasses \/ DiskChanges \/ UNCHANGED vars
    BY <2>3 DEF TimePasses, DiskChanges, Tick, DiskFails, DiskRecovers, vars, spoolVars, SameHandle
  <2> QED BY <2>1, <2>2, <2>3
<1>5. UNCHANGED dispatchVars
  BY DEF WriterServes, Maintenance, TimePasses, DiskChanges, vars
<1>6. DispatcherTypeOK'
  <2>1. SpoolTypeOK'
    BY <1>1, <1>2, SpoolKept DEF SpoolInv
  <2> QED BY <1>1, <1>5, <2>1 DEF DispatcherTypeOK, dispatchVars
<1>7. \A a \in Agents : Kept(a)
  BY <1>3, <1>5, InvFacts, SendingKept DEF Kept, dispatchVars, Valid
<1>8. \A t \in TargetIds : grants'[t] >= grants[t]
  BY SMT, <1>1, <1>3 DEF Swept, Added, Quiet, SpoolTypeOK
<1> QED BY <1>2, <1>3, <1>4, <1>5, <1>6, <1>7, <1>8, FrameStep, AccountedSpool DEF dispatchVars

\* SIGTERM, and the steps of the loop that claim nothing.
LEMMA LoopInv ==
    ASSUME SpoolStepFacts, DispatcherInv, NEW w \in Agents,
           \/ Terminate \/ LoopTop(w) \/ WorkerFindsNothing(w) \/ ClaimError(w) \/ CheckDrained(w)
    PROVE  DispatcherInv'
<1>1. SpoolInv /\ SpoolTypeOK /\ CountsInv /\ DispatcherTypeOK /\ AgentsInv
  BY InvFacts DEF DispatcherInv
<1>2. UNCHANGED spoolVars \/ WriteFails
  BY DEF Terminate, LoopTop, WorkerFindsNothing, ClaimError, CheckDrained
<1>3. [SpoolNext]_spoolVars /\ Quiet
  BY <1>1, <1>2, PlansEffects DEF SpoolNext
<1>4. SameHandle
  <2>1. CASE UNCHANGED spoolVars
    BY <2>1 DEF spoolVars, SameHandle
  <2>2. CASE WriteFails
    BY <1>1, <2>2 DEF WriteFails, SpoolTypeOK, SameHandle
  <2> QED BY <1>2, <2>1, <2>2
<1>5. UNCHANGED <<senders, net, replies, accepted>>
  BY DEF Terminate, LoopTop, WorkerFindsNothing, ClaimError, CheckDrained
<1>6. \/ UNCHANGED agent
      \/ /\ agent[w].phase \in {"loop", "claiming", "checking"}
         /\ \E state \in AgentState : /\ state.claim = NoClaim
                                      /\ state.phase \in Phases \ {"budget", "sending", "finish"}
                                      /\ Move(w, state)
  <2>1. closing \in BOOLEAN
    BY <1>1 DEF DispatcherTypeOK
  <2>2. \A phase \in {"loop", "claiming", "checking", "exited"} :
          /\ phase \in Phases \ {"budget", "sending", "finish"}
          /\ At(phase) \in AgentState /\ At(phase).claim = NoClaim /\ At(phase).phase = phase
    BY AtType DEF Phases
  <2>3. LET state == [At("claiming") EXCEPT !.saw = closing]
        IN  state \in AgentState /\ state.claim = NoClaim /\ state.phase = "claiming"
    BY <2>1 DEF At, AgentState, Results, Phases
  <2>4. CASE LoopTop(w)
    <3>1. CASE Move(w, At("exited"))
      BY <2>2, <2>4, <3>1 DEF LoopTop
    <3>2. CASE Move(w, [At("claiming") EXCEPT !.saw = closing])
      BY <2>2, <2>3, <2>4, <3>2 DEF LoopTop
    <3> QED BY <2>4, <3>1, <3>2 DEF LoopTop
  <2>5. CASE WorkerFindsNothing(w)
    <3>1. Move(w, At("checking")) \/ Move(w, At("loop"))
      BY <2>5 DEF WorkerFindsNothing
    <3> QED BY <2>2, <2>5, <3>1 DEF WorkerFindsNothing
  <2>6. CASE ClaimError(w)
    BY <2>2, <2>6 DEF ClaimError
  <2>7. CASE CheckDrained(w)
    BY <2>2, <2>7 DEF CheckDrained
  <2> QED BY <2>4, <2>5, <2>6, <2>7 DEF Terminate
<1>7. agent' \in [Agents -> AgentState] /\ \A a \in Agents : Kept(a) \/ (Idle(a) /\ agent[a].phase # "sending")
  <2>1. \A a \in Agents : Holds(a) => SameRow(agent[a].claim.target)
    BY <1>3, InvFacts, SendingKept DEF Valid
  <2>2. CASE UNCHANGED agent
    BY <2>1, <2>2, InvFacts DEF Kept
  <2>3. CASE ~UNCHANGED agent
    <3>1. PICK state \in AgentState : /\ state.claim = NoClaim
                                      /\ state.phase \in Phases \ {"budget", "sending", "finish"}
                                      /\ Move(w, state)
      BY <1>6, <2>3
    <3>2. agent' \in [Agents -> AgentState] /\ agent'[w] = state /\ \A b \in Agents : b # w => agent'[b] = agent[b]
      BY <1>1, <3>1, MoveType
    <3> QED BY <1>6, <2>1, <2>3, <3>1, <3>2 DEF Kept, Idle
  <2> QED BY <2>2, <2>3
<1>8. DispatcherTypeOK'
  <2>1. SpoolTypeOK'
    BY <1>1, <1>3, SpoolKept DEF SpoolInv
  <2>2. proc' \in {"none", "writer", "recovery"} /\ closing' \in BOOLEAN
    BY <1>1 DEF Terminate, LoopTop, WorkerFindsNothing, ClaimError, CheckDrained, DispatcherTypeOK
  <2>3. deadline' \in Nat
    BY SMT, <1>1, DispatcherConstants DEF Terminate, LoopTop, WorkerFindsNothing, ClaimError, CheckDrained,
       DispatcherTypeOK, SpoolTypeOK
  <2> QED BY <1>1, <1>5, <1>7, <2>1, <2>2, <2>3, TypeFrame DEF DispatcherTypeOK
<1>9. \A t \in TargetIds : grants'[t] >= grants[t]
  BY SMT, <1>1, <1>3 DEF Quiet, SpoolTypeOK
<1> QED BY <1>3, <1>4, <1>5, <1>7, <1>8, <1>9, FrameStep, AccountedSpool

\* The verdict that Finish records is accounted for: delivered was posted, and
\* what is to be retried or refused was not.
LEMMA AccountedFinish ==
    ASSUME SpoolStepFacts, DispatcherInv, UNCHANGED <<net, accepted, grants>>, NEW a \in Agents,
           agent[a].phase = "finish",
           Concluded(agent[a].claim.target, DeliveryOutcome(agent[a].result), "platform"),
           NEW t \in TargetIds
    PROVE  Accounted(t)'
<1>1. Accounted(t) /\ Spent(t)' = Spent(t) /\ Spent(t) \in Nat /\ grants[t] \in Nat
  BY InvFacts, SpentSame, SpentType DEF DispatcherInv, AccountsInv
<1>2. CASE t # agent[a].claim.target
  BY <1>1, <1>2, AccountedFrame DEF Concluded
<1>3. CASE t = agent[a].claim.target
  <2>1. AgentAccounted(a)
    BY DEF DispatcherInv, AccountsInv
  <2>2. /\ agent[a].result \in {"presend", "refused", "invalid"} => Spent(t) <= grants[t]
        /\ agent[a].result = "confirmed" => accepted[t] >= 1
    BY <1>3, <2>1 DEF AgentAccounted, Unposted
  <2>3. /\ targets'[t].state = DeliveryOutcome(agent[a].result)
        /\ UNCHANGED intakes
    BY <1>3 DEF Concluded
  <2>4. /\ targets'[t].state \in {"retryable", "dead_letter"} =>
             agent[a].result \in {"presend", "refused", "invalid"}
        /\ targets'[t].state = "delivered" => agent[a].result = "confirmed"
        /\ targets'[t].state \in Completions
    BY <2>3, OutcomeCompletes DEF DeliveryOutcome
  <2> QED BY <1>1, <2>2, <2>4 DEF Accounted, Due, Completions
<1> QED BY <1>2, <1>3

\* The operator pays for what is sent again.
LEMMA AccountedResolve ==
    ASSUME SpoolStepFacts, DispatcherInv, UNCHANGED <<net, accepted>>, NEW x \in TargetIds,
           NEW state \in Completions, Concluded(x, state, "operator_reconciled"),
           grants' = [grants EXCEPT ![x] = IF state = "retryable" THEN @ + 1 ELSE @],
           NEW t \in TargetIds
    PROVE  Accounted(t)' /\ grants'[t] >= grants[t]
<1>1. Accounted(t) /\ Spent(t)' = Spent(t) /\ Spent(t) \in Nat /\ grants[t] \in Nat
  BY InvFacts, SpentSame, SpentType DEF DispatcherInv, AccountsInv
<1>2. grants \in [TargetIds -> Nat]
  BY InvFacts DEF SpoolTypeOK
<1>3. grants'[t] = IF t = x /\ state = "retryable" THEN grants[t] + 1 ELSE grants[t]
  BY <1>2
<1>4. CASE t # x
  BY SMT, <1>1, <1>3, <1>4 DEF Concluded, SameRow, Accounted
<1>5. CASE t = x
  BY SMT, <1>1, <1>3, <1>5 DEF Concluded, Accounted, Due, Completions
<1> QED BY <1>4, <1>5

\* The end of a send, recorded or dropped.
LEMMA FinishSendInv ==
    ASSUME SpoolStepFacts, DispatcherInv, NEW a \in Agents, FinishSend(a) PROVE DispatcherInv'
<1>1. SpoolInv /\ SpoolTypeOK /\ CountsInv /\ DispatcherTypeOK /\ AgentsInv /\ IndexesExact
  BY InvFacts DEF DispatcherInv
<1>2. [SpoolNext]_spoolVars
  BY <1>1, SpoolStep DEF DispatcherNext, SendStep
<1>3. Holds(a) /\ agent[a].phase = "finish" /\ agent[a].claim.target \in TargetIds
  BY InvFacts DEF FinishSend, Holds
<1>4. UNCHANGED <<proc, closing, deadline, senders, net, replies, accepted>>
  BY DEF FinishSend
<1>5. /\ agent' \in [Agents -> AgentState] /\ Idle(a)
      /\ \A b \in Agents : b # a => agent'[b] = agent[b]
  <2>1. PICK phase \in {"exited", "loop"} : Move(a, At(phase))
    BY DEF FinishSend
  <2>2. phase \in Phases \ {"budget", "sending", "finish"}
    BY DEF Phases
  <2>3. At(phase) \in AgentState /\ At(phase).phase = phase /\ At(phase).claim = NoClaim
    BY <2>2, AtType
  <2> QED BY <1>1, <2>1, <2>2, <2>3, MoveType DEF Idle
<1>6. DispatcherTypeOK'
  <2>1. SpoolTypeOK'
    BY <1>1, <1>2, SpoolKept DEF SpoolInv
  <2> QED BY <1>1, <1>4, <1>5, <2>1, TypeFrame DEF DispatcherTypeOK
<1>7. CASE WriteFails
  <2>1. Quiet /\ SameHandle
    <3>1. Quiet
      BY <1>1, <1>7, PlansEffects
    <3>2. SameHandle
      BY <1>1, <1>7 DEF WriteFails, SpoolTypeOK, SameHandle
    <3> QED BY <3>1, <3>2
  <2>2. \A b \in Agents : Holds(b) => SameRow(agent[b].claim.target)
    BY <2>1, InvFacts, SendingKept DEF Valid
  <2>3. \A b \in Agents : Kept(b) \/ (Idle(b) /\ agent[b].phase # "sending")
    BY <1>3, <1>5, <2>2 DEF Kept
  <2>4. \A t \in TargetIds : grants'[t] >= grants[t]
    BY SMT, <1>1, <2>1 DEF Quiet, SpoolTypeOK
  <2> QED BY <1>2, <1>4, <1>6, <2>1, <2>3, <2>4, FrameStep, AccountedSpool
<1>8. CASE ~WriteFails
  <2>1. Finish(agent[a].claim, DeliveryOutcome(agent[a].result), now + RetryDelay)
    BY <1>8 DEF FinishSend
  <2>2. now + RetryDelay \in Nat
    BY SMT, <1>1, SpoolConstants DEF SpoolTypeOK
  <2>3. /\ Concluded(agent[a].claim.target, DeliveryOutcome(agent[a].result), "platform")
        /\ UNCHANGED grants
    <3>1. agent[a].claim \in Claims /\ DeliveryOutcome(agent[a].result) \in Completions
      BY <1>3, InvFacts, OutcomeCompletes
    <3> QED BY <2>1, <2>2, <3>1, FinishConcluded
  <2>4. \A b \in Agents : b # a /\ Holds(b) => SameRow(agent[b].claim.target)
    <3>1. \A b \in Agents : b # a /\ Holds(b) =>
            agent[b].claim.target # agent[a].claim.target /\ agent[b].claim.target \in TargetIds
      BY <1>1, <1>3, InvFacts DEF AgentsInv
    <3> QED BY <2>3, <3>1 DEF Concluded
  <2>5. \A b \in Agents : Kept(b) \/ (Idle(b) /\ agent[b].phase # "sending")
    BY <1>3, <1>5, <2>4 DEF Kept
  <2>6. SameHandle /\ \A t \in TargetIds : grants'[t] >= grants[t]
    BY SMT, <1>1, <2>3 DEF Concluded, SpoolTypeOK
  <2>7. \A t \in TargetIds : Accounted(t)'
    BY <1>3, <1>4, <2>3, AccountedFinish
  <2> QED BY <1>2, <1>4, <1>6, <2>5, <2>6, <2>7, FrameStep
<1> QED BY <1>7, <1>8

\* A decision of the operator touches only a row that nobody holds.
LEMMA ResolvesInv ==
    ASSUME SpoolStepFacts, DispatcherInv, OperatorResolves PROVE DispatcherInv'
<1>1. SpoolInv /\ SpoolTypeOK /\ CountsInv /\ DispatcherTypeOK /\ AgentsInv /\ IndexesExact
  BY InvFacts DEF DispatcherInv
<1>2. [SpoolNext]_spoolVars
  BY <1>1, SpoolStep DEF DispatcherNext
<1>3. UNCHANGED <<proc, closing, deadline, senders, net, replies, accepted>> /\ Operator \in Agents
  BY DEF OperatorResolves, Agents
<1>4. PICK x \in TargetIds, state \in Completions : Resolve(x, state)
  BY DEF OperatorResolves
<1>5. /\ Concluded(x, state, "operator_reconciled")
      /\ targets[x].state \in {"unknown", "dead_letter"}
      /\ grants' = [grants EXCEPT ![x] = IF state = "retryable" THEN @ + 1 ELSE @]
  BY <1>1, <1>4, ResolveConcluded
<1>6. /\ agent' \in [Agents -> AgentState] /\ Idle(Operator) /\ agent[Operator].phase # "sending"
      /\ \A b \in Agents : b # Operator => agent'[b] = agent[b]
  <2>1. "exited" \in Phases
    BY DEF Phases
  <2>2. At("exited") \in AgentState /\ At("exited").phase = "exited" /\ At("exited").claim = NoClaim
    BY <2>1, AtType
  <2>3. Move(Operator, At("exited")) /\ agent[Operator].phase = "loop"
    BY DEF OperatorResolves
  <2> QED BY <1>1, <1>3, <2>1, <2>2, <2>3, MoveType DEF Idle
<1>7. DispatcherTypeOK'
  <2>1. SpoolTypeOK'
    BY <1>1, <1>2, SpoolKept DEF SpoolInv
  <2> QED BY <1>1, <1>3, <1>6, <2>1, TypeFrame DEF DispatcherTypeOK
<1>8. \A b \in Agents : Holds(b) => SameRow(agent[b].claim.target)
  <2>1. \A b \in Agents : Holds(b) => agent[b].claim.target # x /\ agent[b].claim.target \in TargetIds
    BY <1>5, InvFacts DEF Valid
  <2> QED BY <1>5, <2>1 DEF Concluded
<1>9. \A b \in Agents : Kept(b) \/ (Idle(b) /\ agent[b].phase # "sending")
  BY <1>6, <1>8 DEF Kept
<1>10. \A t \in TargetIds : Accounted(t)' /\ grants'[t] >= grants[t]
  BY <1>3, <1>5, AccountedResolve
<1> QED BY <1>2, <1>3, <1>5, <1>7, <1>9, <1>10, FrameStep DEF Concluded
-----------------------------------------------------------------------------
(***************************************************************************)
(* The steps of a send.                                                    *)
(***************************************************************************)
Preflight(c) == [claim |-> c, live |-> TRUE, stage |-> "preflight"]

\* The claim of a target that was taken is new: no message bears it.
LEMMA TakenClaim ==
    ASSUME DispatcherInv, NEW x \in TargetIds, Taken(x)
    PROVE  /\ ClaimOf(x) \in Claims /\ ClaimOf(x).target = x
           /\ ClaimOf(x).owner = handle.owner /\ ClaimOf(x).attempt = targets[x].attempts + 1
           /\ \A s \in senders : s.claim # ClaimOf(x)
           /\ \A r \in replies : r.claim # ClaimOf(x)
<1>1. /\ handle.owner \in Nat /\ targets[x].attempts \in Nat /\ MaxOpens \in Nat /\ MaxAttempts \in Nat
      /\ handle.owner >= 1 /\ handle.owner <= MaxOpens /\ targets[x].attempts < MaxAttempts
  BY InvFacts, SpoolConstants DEF Taken, CountsInv, SpoolTypeOK, Row
<1>2. handle.owner \in 1..MaxOpens /\ targets[x].attempts + 1 \in 1..MaxAttempts
  BY SMT, <1>1
<1>3. /\ ClaimOf(x) \in Claims /\ ClaimOf(x).target = x
      /\ ClaimOf(x).owner = handle.owner /\ ClaimOf(x).attempt = targets[x].attempts + 1
  BY <1>2 DEF ClaimOf, Claims
<1>4. Present(x)
  BY DEF Taken, Due, Present
<1>5. ~Made(ClaimOf(x))
  BY SMT, <1>1, <1>3, <1>4 DEF Made
<1> QED BY <1>3, <1>5 DEF DispatcherInv, MessagesInv

\* Claim and ClaimForRecovery: agent a holds a new claim of x, and has at most
\* begun to send.
LEMMA TakeStep ==
    ASSUME SpoolStepFacts, DispatcherInv, [SpoolNext]_spoolVars, DispatcherTypeOK', NEW a \in Agents, ~Holds(a),
           NEW x \in TargetIds, Taken(x), UNCHANGED <<net, replies, accepted>>,
           agent'[a].claim = ClaimOf(x), \A b \in Agents : b # a => agent'[b] = agent[b],
           \/ agent'[a].phase = "budget" /\ UNCHANGED senders
           \/ agent'[a].phase = "sending" /\ senders' = senders \cup {Preflight(ClaimOf(x))}
    PROVE  DispatcherInv'
<1>0. PICK c \in Claims : c = ClaimOf(x)
  BY TakenClaim
<1>1. /\ SpoolInv /\ CountsInv /\ ClaimsStayValid /\ DispatcherTypeOK
      /\ ClosedInv /\ AgentsInv /\ SendersInv /\ MessagesInv /\ AccountsInv
  BY DEF DispatcherInv, ClaimsStayValid
<1>2. SpoolInv' /\ CountsInv'
  BY <1>1, SpoolKept
<1>3. /\ c \in Claims /\ c.target = x /\ c.owner = handle.owner /\ c.attempt = targets[x].attempts + 1
      /\ \A s \in senders : s.claim # c
      /\ \A r \in replies : r.claim # c
  BY <1>0, TakenClaim
<1>4. /\ Holds(a)' /\ agent'[a].claim = c
      /\ Preflight(c).claim = c /\ Preflight(c).live /\ Preflight(c).stage = "preflight"
  BY <1>0 DEF Holds, Preflight
<1>5. \A b \in Agents : b # a => /\ agent'[b] = agent[b] /\ Holds(b)' = Holds(b)
                                 /\ Holds(b) => agent[b].claim.target # x
  <2>1. \A b \in Agents : Holds(b) => agent[b].claim.target # x
    BY InvFacts DEF Valid, Taken, Due
  <2> QED BY <2>1 DEF Holds
<1>6. ClaimsStayValid'
  <2>1. Valid(a)'
    BY ZenonT(30), <1>3, <1>4 DEF Valid, Taken, SameHandle
  <2>2. \A b \in Agents : b # a /\ Holds(b)' => Valid(b)'
    <3>1. \A b \in Agents : b # a /\ Holds(b) => /\ Valid(b) /\ agent'[b] = agent[b]
                                                 /\ targets'[agent[b].claim.target] = targets[agent[b].claim.target]
      BY <1>5, InvFacts DEF Taken
    <3> QED BY SMTT(30), <1>5, <3>1 DEF Valid, Taken, SameHandle
  <2> QED BY <2>1, <2>2 DEF ClaimsStayValid, Holds, Valid
<1>7. ClosedInv'
  BY DEF ClosedInv, Taken, SameHandle
<1>8. AgentsInv'
  BY SMT, <1>1, <1>3, <1>4, <1>5 DEF AgentsInv
<1>9. SendersInv'
  <2>1. \A b \in Agents : b # a /\ agent[b].phase \in {"budget", "sending"} => agent[b].claim # c
    BY <1>3, <1>5 DEF Holds
  <2>2. agent[a].phase \notin {"budget", "sending"}
    BY DEF Holds
  <2>3. CASE agent'[a].phase = "budget" /\ UNCHANGED senders
    BY SMTT(30), <1>1, <1>3, <1>4, <1>5, <2>2, <2>3 DEF SendersInv
  <2>4. CASE agent'[a].phase = "sending" /\ senders' = senders \cup {Preflight(c)}
    <3>1. \A b \in Agents : agent'[b].phase = "sending" =>
            \E s \in senders' : s.claim = agent'[b].claim /\ s.live
      BY SMTT(30), <1>1, <1>4, <1>5, <2>4 DEF SendersInv
    <3>2. \A b \in Agents : agent'[b].phase = "budget" =>
            /\ \A s \in senders' : s.claim # agent'[b].claim
            /\ \A r \in replies' : r.claim # agent'[b].claim
      BY SMTT(30), <1>1, <1>4, <1>5, <2>1, <2>4 DEF SendersInv
    <3>3. \A s \in senders' : s.live =>
            \E b \in Agents : agent'[b].phase = "sending" /\ agent'[b].claim = s.claim
      BY SMTT(30), <1>1, <1>4, <1>5, <2>2, <2>4 DEF SendersInv
    <3>4. /\ \A s \in senders' : s.stage = "sent" => s.live
          /\ \A s, r \in senders' : s.claim = r.claim => s = r
      BY SMT, <1>1, <1>3, <1>4, <2>4 DEF SendersInv
    <3> QED BY ZenonT(30), <3>1, <3>2, <3>3, <3>4 DEF SendersInv
  <2> QED BY <1>0, <2>3, <2>4
<1>10. MessagesInv'
  <2>1. Made(c)'
    BY SMT, <1>2, <1>3 DEF Made, Taken, Present, SpoolInv, SpoolTypeOK, Row
  <2>2. \A s \in senders' : Made(s.claim)' \/ s \in senders
    BY <1>0, <1>4, <2>1
  <2> QED BY <2>2, MessagesStay
<1>11. AccountsInv'
  <2>1. \A t \in TargetIds : Accounted(t)' /\ (t = x => Spent(t)' <= grants'[t])
    BY AccountedTaken
  <2>2. AgentAccounted(a)'
    BY <1>3, <1>4, <2>1 DEF AgentAccounted
  <2>3. ASSUME NEW b \in Agents, b # a PROVE AgentAccounted(b)'
    <3>1. AgentAccounted(b) /\ agent'[b] = agent[b] /\ UNCHANGED grants
      BY <1>1, <1>5, <2>3 DEF AccountsInv, Taken
    <3>2. Unposted(b)' => Unposted(b)
      BY <3>1 DEF Unposted
    <3> QED BY <3>1, <3>2, SpentSame DEF AgentAccounted
  <2>4. ASSUME NEW r \in replies', NEW s \in senders' PROVE ReplyAccounted(r, s)'
    <3>1. CASE s \in senders
      <4>1. ReplyAccounted(r, s) /\ UNCHANGED grants
        BY <1>1, <2>4, <3>1 DEF AccountsInv, Taken
      <4> QED BY <4>1, SpentSame DEF ReplyAccounted
    <3>2. CASE s = Preflight(c)
      BY <1>3, <1>4, <2>4, <3>2 DEF ReplyAccounted
    <3> QED BY <1>0, <2>4, <3>1, <3>2
  <2> QED BY <1>1, <2>1, <2>2, <2>3, <2>4 DEF AccountsInv
<1> QED BY <1>2, <1>6, <1>7, <1>8, <1>9, <1>10, <1>11 DEF DispatcherInv

\* A worker claims the next target; the operator claims and sends at once.
LEMMA ClaimsInv ==
    ASSUME SpoolStepFacts, DispatcherInv, OperatorReplays \/ \E w \in Workers : WorkerClaims(w)
    PROVE  DispatcherInv'
<1>1. SpoolInv /\ SpoolTypeOK /\ DispatcherTypeOK /\ AgentsInv
  BY InvFacts DEF DispatcherInv
<1>2. [SpoolNext]_spoolVars
  BY <1>1, SpoolStep DEF DispatcherNext, WorkerStep
<1>3. SpoolTypeOK'
  BY <1>1, <1>2, SpoolKept DEF SpoolInv
<1>4. UNCHANGED <<proc, closing, deadline, net, replies, accepted>>
  BY DEF OperatorReplays, WorkerClaims
<1>5. ASSUME NEW c \in Claims, NEW phase \in {"budget", "sending"}
      PROVE  LET state == [At(phase) EXCEPT !.claim = c]
             IN  state \in AgentState /\ state.claim = c /\ state.phase = phase
  BY DEF At, AgentState, Results, Phases
<1>6. CASE \E w \in Workers : WorkerClaims(w)
  <2>1. PICK w \in Workers, e \in ready :
          /\ agent[w].phase = "claiming" /\ ClaimEntry(e) /\ UNCHANGED senders
          /\ Move(w, [At("budget") EXCEPT !.claim = ClaimOf(e.id)])
    BY <1>6 DEF WorkerClaims
  <2>2. w \in Agents /\ ~Holds(w) /\ e.id \in TargetIds /\ Taken(e.id)
    BY <1>1, <2>1, ClaimTaken DEF Agents, Holds, SpoolTypeOK
  <2>3. ClaimOf(e.id) \in Claims
    BY <2>2, TakenClaim
  <2>4. /\ agent' \in [Agents -> AgentState]
        /\ agent'[w].claim = ClaimOf(e.id) /\ agent'[w].phase = "budget"
        /\ \A b \in Agents : b # w => agent'[b] = agent[b]
    <3>1. PICK state \in AgentState : /\ state = [At("budget") EXCEPT !.claim = ClaimOf(e.id)]
                                      /\ state.claim = ClaimOf(e.id) /\ state.phase = "budget"
      BY ZenonT(30), <1>5, <2>3
    <3>2. Move(w, state)
      BY <2>1, <3>1
    <3> QED BY <1>1, <2>2, <3>1, <3>2, MoveType
  <2>5. DispatcherTypeOK'
    BY <1>1, <1>3, <1>4, <2>1, <2>4, TypeFrame DEF DispatcherTypeOK
  <2> QED BY <1>2, <1>4, <2>1, <2>2, <2>4, <2>5, TakeStep
<1>7. CASE OperatorReplays
  <2>1. PICK t \in TargetIds :
          /\ ClaimForRecovery(t) /\ Launch(ClaimOf(t)) /\ agent[Operator].phase = "loop"
          /\ Move(Operator, [At("sending") EXCEPT !.claim = ClaimOf(t)])
    BY <1>7 DEF OperatorReplays
  <2>2. Operator \in Agents /\ ~Holds(Operator) /\ Taken(t)
    BY <1>1, <2>1, RecoveryTaken DEF Agents, Holds
  <2>3. ClaimOf(t) \in Claims
    BY <2>2, TakenClaim
  <2>4. /\ agent' \in [Agents -> AgentState]
        /\ agent'[Operator].claim = ClaimOf(t) /\ agent'[Operator].phase = "sending"
        /\ \A b \in Agents : b # Operator => agent'[b] = agent[b]
    <3>1. PICK state \in AgentState : /\ state = [At("sending") EXCEPT !.claim = ClaimOf(t)]
                                      /\ state.claim = ClaimOf(t) /\ state.phase = "sending"
      BY <1>5, <2>3
    <3>2. Move(Operator, state)
      BY <2>1, <3>1
    <3> QED BY <1>1, <2>2, <3>1, <3>2, MoveType
  <2>5. senders' = senders \cup {Preflight(ClaimOf(t))}
    BY <2>1 DEF Launch, Preflight
  <2>6. DispatcherTypeOK'
    <3>1. Preflight(ClaimOf(t)) \in [claim : Claims, live : BOOLEAN, stage : {"preflight", "marked", "sent"}]
      BY <2>3 DEF Preflight
    <3> QED BY <1>1, <1>3, <1>4, <2>4, <2>5, <3>1, TypeFrame DEF DispatcherTypeOK
  <2> QED BY <1>2, <1>4, <2>2, <2>4, <2>5, <2>6, TakeStep
<1> QED BY <1>6, <1>7

\* While the spool does not move and every agent keeps its claim, claims stay valid.
LEMMA HoldFrame ==
    ASSUME SpoolStepFacts, DispatcherInv, UNCHANGED spoolVars, DispatcherTypeOK',
           \A b \in Agents : agent'[b].claim = agent[b].claim /\ Holds(b)' = Holds(b)
    PROVE  /\ SpoolInv' /\ CountsInv' /\ ClaimsStayValid' /\ AgentsInv'
           /\ \A c \in Claims : Made(c) => Made(c)'
           /\ UNCHANGED <<targets, intakes, grants, handle>>
<1>1. SpoolInv /\ CountsInv /\ AgentsInv /\ \A b \in Agents : Holds(b) => Valid(b)
  BY InvFacts DEF DispatcherInv
<1>2. SpoolInv' /\ CountsInv' /\ \A c \in Claims : Made(c) => Made(c)'
  BY <1>1, SpoolKept, MadeStays
<1>3. UNCHANGED <<targets, intakes, grants, handle>>
  BY DEF spoolVars, bucketVars
<1>4. \A b \in Agents : Holds(b)' => Valid(b)'
  BY <1>1, <1>3 DEF Valid
<1>5. ClaimsStayValid'
  BY <1>4 DEF ClaimsStayValid, Holds, Valid
<1>6. AgentsInv'
  BY <1>1 DEF AgentsInv
<1> QED BY <1>2, <1>3, <1>5, <1>6

\* While neither the spool nor wire and platform move, rows stay accounted for.
LEMMA AccountsStay ==
    ASSUME DispatcherInv, UNCHANGED <<targets, intakes, grants, net, accepted>>
    PROVE  /\ IsFiniteSet(net')
           /\ \A t \in TargetIds : Accounted(t)' /\ Spent(t)' = Spent(t)
<1>1. \A t \in TargetIds : Accounted(t)' /\ Spent(t)' = Spent(t)
  BY SpentSame DEF DispatcherInv, AccountsInv, Accounted
<1> QED BY <1>1 DEF DispatcherInv, AccountsInv

\* An agent that is sending has a sender, and no other sender has its claim.
LEMMA SenderFacts ==
    ASSUME DispatcherInv, NEW a \in Agents, agent[a].phase = "sending"
    PROVE  /\ Sender(a) \in senders /\ Sender(a).claim = agent[a].claim /\ Sender(a).live
           /\ \A s \in senders : s.claim = agent[a].claim => s = Sender(a)
<1>1. \E s \in senders : s.claim = agent[a].claim /\ s.live
  BY DEF DispatcherInv, SendersInv
<1>2. Sender(a) \in senders /\ Sender(a).claim = agent[a].claim /\ Sender(a).live
  BY <1>1 DEF Sender
<1> QED BY SMT, <1>2 DEF DispatcherInv, SendersInv

\* The budget is granted: the first sender of a claim starts.
LEMMA BudgetInv ==
    ASSUME SpoolStepFacts, DispatcherInv, NEW w \in Workers, BudgetGranted(w) PROVE DispatcherInv'
<1>1. /\ DispatcherTypeOK /\ SpoolTypeOK /\ ClosedInv /\ AgentsInv /\ SendersInv /\ MessagesInv /\ AccountsInv
      /\ w \in Agents /\ agent[w].phase = "budget" /\ Holds(w)
  BY InvFacts DEF DispatcherInv, BudgetGranted, Agents, Holds
<1>2. PICK c \in Claims : c = agent[w].claim
  BY <1>1 DEF AgentsInv
<1>3. UNCHANGED <<spoolVars, proc, closing, deadline, net, replies, accepted>>
  BY DEF BudgetGranted
<1>4. /\ senders' = senders \cup {Preflight(c)}
      /\ Preflight(c).claim = c /\ Preflight(c).live /\ Preflight(c).stage = "preflight"
      /\ Preflight(c) \in [claim : Claims, live : BOOLEAN, stage : {"preflight", "marked", "sent"}]
  BY <1>2 DEF BudgetGranted, Launch, Preflight
<1>5. /\ agent' \in [Agents -> AgentState] /\ agent'[w].phase = "sending" /\ agent'[w].claim = c
      /\ \A b \in Agents : b # w => agent'[b] = agent[b]
  <2>1. "sending" \in Phases
    BY DEF Phases
  <2>2. LET state == [agent[w] EXCEPT !.phase = "sending"]
        IN  state \in AgentState /\ state.phase = "sending" /\ state.claim = c
    BY <1>1, <1>2, <2>1, AgentFields DEF AgentState
  <2>3. Move(w, [agent[w] EXCEPT !.phase = "sending"])
    BY DEF BudgetGranted
  <2> QED BY <1>1, <2>2, <2>3, MoveType
<1>6. DispatcherTypeOK'
  BY <1>1, <1>3, <1>4, <1>5, TypeFrame DEF DispatcherTypeOK, SpoolTypeOK, ProfilesTypeOK, spoolVars, bucketVars, profileVars
<1>7. \A b \in Agents : agent'[b].claim = agent[b].claim /\ Holds(b)' = Holds(b)
  BY SMT, <1>1, <1>2, <1>5 DEF Holds
<1>8. /\ SpoolInv' /\ CountsInv' /\ ClaimsStayValid' /\ AgentsInv'
      /\ \A k \in Claims : Made(k) => Made(k)'
      /\ UNCHANGED <<targets, intakes, grants, handle>>
  BY <1>3, <1>6, <1>7, HoldFrame
<1>9. ClosedInv'
  BY <1>1, <1>8 DEF ClosedInv
<1>10. /\ \A s \in senders : s.claim # c
       /\ \A r \in replies : r.claim # c
       /\ \A b \in Agents : b # w /\ Holds(b) => agent[b].claim # c
  BY <1>1, <1>2 DEF SendersInv, AgentsInv
<1>11. SendersInv'
  <2>1. \A b \in Agents : agent'[b].phase = "sending" =>
          \E s \in senders' : s.claim = agent'[b].claim /\ s.live
    BY SMTT(30), <1>1, <1>4, <1>5 DEF SendersInv
  <2>2. \A b \in Agents : agent'[b].phase = "budget" =>
          /\ \A s \in senders' : s.claim # agent'[b].claim
          /\ \A r \in replies' : r.claim # agent'[b].claim
    BY SMTT(30), <1>1, <1>3, <1>4, <1>5, <1>10 DEF SendersInv, Holds
  <2>3. \A s \in senders' : s.live =>
          \E b \in Agents : agent'[b].phase = "sending" /\ agent'[b].claim = s.claim
    BY SMTT(30), <1>1, <1>4, <1>5 DEF SendersInv
  <2>4. /\ \A s \in senders' : s.stage = "sent" => s.live
        /\ \A s, r \in senders' : s.claim = r.claim => s = r
    BY SMT, <1>1, <1>4, <1>10 DEF SendersInv
  <2> QED BY <2>1, <2>2, <2>3, <2>4 DEF SendersInv
<1>12. MessagesInv'
  <2>1. Made(c)'
    <3>1. c.target \in TargetIds /\ Valid(w) /\ targets[c.target].attempt <= targets[c.target].attempts
      BY <1>1, <1>2, InvFacts DEF CountsInv
    <3> QED BY <1>2, <1>8, <3>1 DEF Valid, Made, Present
  <2>2. \A s \in senders' : Made(s.claim)' \/ s \in senders
    BY <1>4, <2>1
  <2>3. \A s \in senders : s.claim \in Claims
    BY <1>1 DEF DispatcherTypeOK
  <2>4. net \subseteq Claims /\ \A r \in replies : r.claim \in Claims
    BY <1>1 DEF DispatcherTypeOK
  <2> QED BY <1>1, <1>3, <1>8, <2>2, <2>3, <2>4 DEF MessagesInv
<1>13. AccountsInv'
  <2>1. IsFiniteSet(net') /\ \A t \in TargetIds : Accounted(t)' /\ Spent(t)' = Spent(t)
    BY <1>3, <1>8, AccountsStay
  <2>2. AgentAccounted(w)'
    <3>1. AgentAccounted(w) /\ Unposted(w) /\ c.target \in TargetIds
      BY <1>1, ClaimFields DEF AccountsInv, Unposted
    <3> QED BY <1>2, <1>5, <1>8, <2>1, <3>1 DEF AgentAccounted
  <2>3. ASSUME NEW b \in Agents, b # w PROVE AgentAccounted(b)'
    <3>1. AgentAccounted(b) /\ agent'[b] = agent[b]
      BY <1>1, <1>5, <2>3 DEF AccountsInv
    <3>2. Unposted(b)' => Unposted(b)
      BY <1>4, <3>1 DEF Unposted
    <3> QED BY <1>3, <1>8, <3>1, <3>2, SpentSame DEF AgentAccounted
  <2>4. ASSUME NEW r \in replies', NEW s \in senders' PROVE ReplyAccounted(r, s)'
    <3>1. CASE s \in senders
      <4>1. ReplyAccounted(r, s)
        BY <1>1, <1>3, <2>4, <3>1 DEF AccountsInv
      <4> QED BY <1>3, <1>8, <4>1, SpentSame DEF ReplyAccounted
    <3>2. CASE s = Preflight(c)
      BY <1>3, <1>4, <1>10, <2>4, <3>2 DEF ReplyAccounted
    <3> QED BY <1>4, <2>4, <3>1, <3>2
  <2> QED BY <2>1, <2>2, <2>3, <2>4 DEF AccountsInv
<1> QED BY <1>8, <1>9, <1>11, <1>12, <1>13 DEF DispatcherInv

Without(c) == {s \in senders : s.claim # c}

\* The send of agent a ends: its sender is gone, or left behind without having
\* sent, and the result says whether a card was posted.
LEMMA EndStep ==
    ASSUME SpoolStepFacts, DispatcherInv, NEW a \in Agents, NEW c \in Claims, agent[a].claim = c, Holds(a),
           NEW result \in Results, Ends(a, result),
           UNCHANGED <<spoolVars, proc, closing, deadline, net, accepted>>, replies' \subseteq replies,
           NEW left \in SUBSET [claim : {c}, live : {FALSE}, stage : {"preflight", "marked"}],
           senders' = Without(c) \cup left,
           \A s, r \in left : s = r,
           left # {} => \A r \in replies : r.claim # c,
           result \in {"presend", "refused", "invalid"} => Spent(c.target) <= grants[c.target],
           result = "confirmed" => accepted[c.target] >= 1
    PROVE  DispatcherInv'
<1>0. senders' = {s \in senders : s.claim # c} \cup left
  BY DEF Without
<1>1. /\ DispatcherTypeOK /\ SpoolTypeOK /\ ClosedInv /\ AgentsInv /\ SendersInv /\ MessagesInv /\ AccountsInv
      /\ handle.open /\ c.target \in TargetIds /\ Valid(a)
  BY InvFacts DEF DispatcherInv, ClosedInv
<1>2. /\ agent' \in [Agents -> AgentState] /\ agent'[a].phase = "finish"
      /\ agent'[a].claim = c /\ agent'[a].result = result
      /\ \A b \in Agents : b # a => agent'[b] = agent[b]
  <2>1. PICK state \in AgentState : /\ state = [agent[a] EXCEPT !.phase = "finish", !.result = result]
                                    /\ state.phase = "finish" /\ state.claim = c /\ state.result = result
    <3>1. agent[a] \in AgentState /\ [agent[a] EXCEPT !.phase = "finish", !.result = result] \in AgentState
      BY <1>1, AgentFields DEF AgentState
    <3> QED BY <3>1 DEF AgentState
  <2>2. Move(a, state)
    BY <2>1 DEF Ends
  <2> QED BY <1>1, <2>1, <2>2, MoveType
<1>3. \A s \in left : /\ s.claim = c /\ ~s.live /\ s.stage \in {"preflight", "marked"}
                      /\ s \in [claim : Claims, live : BOOLEAN, stage : {"preflight", "marked", "sent"}]
  OBVIOUS
<1>4. DispatcherTypeOK'
  <2>1. SpoolTypeOK'
    BY <1>1 DEF SpoolTypeOK, ProfilesTypeOK, spoolVars, bucketVars, profileVars
  <2>2. senders' \subseteq [claim : Claims, live : BOOLEAN, stage : {"preflight", "marked", "sent"}]
    BY <1>0, <1>1, <1>3 DEF DispatcherTypeOK
  <2> QED BY <1>1, <1>2, <2>1, <2>2, TypeFrame DEF DispatcherTypeOK
<1>5. \A b \in Agents : agent'[b].claim = agent[b].claim /\ Holds(b)' = Holds(b)
  BY SMT, <1>2 DEF Holds
<1>6. /\ SpoolInv' /\ CountsInv' /\ ClaimsStayValid' /\ AgentsInv'
      /\ \A k \in Claims : Made(k) => Made(k)'
      /\ UNCHANGED <<targets, intakes, grants, handle>>
  BY <1>4, <1>5, HoldFrame
<1>7. ClosedInv'
  BY <1>1, <1>6 DEF ClosedInv
<1>8. \A b \in Agents : b # a /\ Holds(b) => agent[b].claim # c
  BY <1>1 DEF AgentsInv
<1>9. SendersInv'
  <2>1. \A b \in Agents : agent'[b].phase = "sending" =>
          \E s \in senders' : s.claim = agent'[b].claim /\ s.live
    <3>1. ASSUME NEW b \in Agents, agent'[b].phase = "sending"
          PROVE  \E s \in senders' : s.claim = agent'[b].claim /\ s.live
      <4>1. b # a /\ agent'[b] = agent[b] /\ Holds(b)
        BY <1>2, <3>1 DEF Holds
      <4>2. PICK s \in senders : s.claim = agent[b].claim /\ s.live
        BY ZenonT(30), <1>1, <3>1, <4>1 DEF SendersInv
      <4> QED BY <1>0, <1>8, <4>1, <4>2
    <3> QED BY <3>1
  <2>2. \A b \in Agents : agent'[b].phase = "budget" =>
          /\ \A s \in senders' : s.claim # agent'[b].claim
          /\ \A r \in replies' : r.claim # agent'[b].claim
    BY SMTT(30), <1>0, <1>1, <1>2, <1>3, <1>8 DEF SendersInv, Holds
  <2>3. \A s \in senders' : s.live =>
          \E b \in Agents : agent'[b].phase = "sending" /\ agent'[b].claim = s.claim
    BY SMTT(30), <1>0, <1>1, <1>2, <1>3 DEF SendersInv
  <2>4. /\ \A s \in senders' : s.stage = "sent" => s.live
        /\ \A s, r \in senders' : s.claim = r.claim => s = r
    BY ZenonT(30), <1>0, <1>1, <1>3 DEF SendersInv
  <2> QED BY ZenonT(30), <2>1, <2>2, <2>3, <2>4 DEF SendersInv
<1>10. MessagesInv'
  <2>1. Made(c)'
    <3>1. targets[c.target].attempt <= targets[c.target].attempts
      BY <1>1, InvFacts DEF CountsInv
    <3> QED BY <1>1, <1>6, <3>1 DEF Valid, Made, Present
  <2>2. \A s \in senders' : Made(s.claim)' \/ s \in senders
    BY <1>0, <1>3, <2>1
  <2>3. net \subseteq Claims /\ (\A r \in replies : r.claim \in Claims) /\ \A s \in senders : s.claim \in Claims
    BY <1>1 DEF DispatcherTypeOK
  <2> QED BY <1>1, <1>6, <2>2, <2>3 DEF MessagesInv
<1>11. AccountsInv'
  <2>1. IsFiniteSet(net') /\ \A t \in TargetIds : Accounted(t)' /\ Spent(t)' = Spent(t)
    BY <1>6, AccountsStay
  <2>2. AgentAccounted(a)'
    BY <1>1, <1>2, <1>6, <2>1 DEF AgentAccounted, Unposted
  <2>3. ASSUME NEW b \in Agents, b # a PROVE AgentAccounted(b)'
    <3>1. AgentAccounted(b) /\ agent'[b] = agent[b]
      BY <1>1, <1>2, <2>3 DEF AccountsInv
    <3>2. Unposted(b)' => Unposted(b)
      BY <1>0, <1>8, <2>3, <3>1 DEF Unposted, Holds
    <3> QED BY <1>6, <3>1, <3>2, SpentSame DEF AgentAccounted
  <2>4. ASSUME NEW r \in replies', NEW s \in senders' PROVE ReplyAccounted(r, s)'
    <3>1. CASE s \in senders
      <4>1. ReplyAccounted(r, s)
        BY <1>1, <2>4, <3>1 DEF AccountsInv
      <4> QED BY <1>6, <4>1, SpentSame DEF ReplyAccounted
    <3>2. CASE s \in left
      BY <1>3, <2>4, <3>2 DEF ReplyAccounted
    <3> QED BY <1>0, <2>4, <3>1, <3>2
  <2> QED BY <2>1, <2>2, <2>3, <2>4 DEF AccountsInv
<1> QED BY <1>6, <1>7, <1>9, <1>10, <1>11 DEF DispatcherInv

\* The same when no sender of the claim is left.
LEMMA EndGone ==
    ASSUME SpoolStepFacts, DispatcherInv, NEW a \in Agents, NEW c \in Claims, agent[a].claim = c, Holds(a),
           NEW result \in Results, Ends(a, result),
           UNCHANGED <<spoolVars, proc, closing, deadline, net, accepted>>, replies' \subseteq replies,
           senders' = Without(c),
           result \in {"presend", "refused", "invalid"} => Spent(c.target) <= grants[c.target],
           result = "confirmed" => accepted[c.target] >= 1
    PROVE  DispatcherInv'
<1> DEFINE left == {}
<1>1. /\ senders' = Without(c) \cup left
      /\ left \in SUBSET [claim : {c}, live : {FALSE}, stage : {"preflight", "marked"}]
      /\ \A s, r \in left : s = r
      /\ left # {} => \A r \in replies : r.claim # c
  OBVIOUS
<1> HIDE DEF left
<1> QED BY <1>1, EndStep

\* The budget is not granted in time.
LEMMA BudgetTimeoutInv ==
    ASSUME SpoolStepFacts, DispatcherInv, NEW w \in Workers, BudgetTimeout(w) PROVE DispatcherInv'
<1>1. /\ w \in Agents /\ agent[w].phase = "budget" /\ Holds(w) /\ Ends(w, "presend")
      /\ UNCHANGED <<spoolVars, proc, closing, deadline, senders, net, replies, accepted>>
  BY DEF BudgetTimeout, Agents, Holds
<1>2. PICK c \in Claims : c = agent[w].claim
  BY <1>1, InvFacts
<1>3. Spent(c.target) <= grants[c.target]
  BY <1>1, <1>2 DEF DispatcherInv, AccountsInv, AgentAccounted, Unposted
<1>4. senders' = Without(c)
  BY <1>1, <1>2 DEF DispatcherInv, SendersInv, Without
<1>5. "presend" \in Results
  BY DEF Results
<1>6. UNCHANGED <<spoolVars, proc, closing, deadline, net, accepted>> /\ replies' \subseteq replies
  BY <1>1
<1> QED BY <1>1, <1>2, <1>3, <1>4, <1>5, <1>6, EndGone

\* The preflight fails: the only sender returns without having sent.
LEMMA PreflightFailsInv ==
    ASSUME SpoolStepFacts, DispatcherInv, NEW a \in Agents, PreflightFails(a) PROVE DispatcherInv'
<1>1. /\ agent[a].phase = "sending" /\ Holds(a) /\ Ends(a, "presend")
      /\ Sender(a).stage = "preflight" /\ senders' = senders \ {Sender(a)}
      /\ UNCHANGED <<spoolVars, proc, closing, deadline, net, replies, accepted>>
  BY DEF PreflightFails, Holds
<1>2. PICK c \in Claims : c = agent[a].claim
  BY <1>1, InvFacts
<1>3. /\ Sender(a).claim = c /\ \A s \in senders : s.claim = c => s = Sender(a)
  BY <1>1, <1>2, SenderFacts
<1>4. Spent(c.target) <= grants[c.target]
  <2>1. Unposted(a)
    BY <1>1, <1>2, <1>3 DEF Unposted
  <2> QED BY <1>2, <2>1 DEF DispatcherInv, AccountsInv, AgentAccounted
<1>5. senders' = Without(c)
  BY <1>1, <1>3 DEF Without
<1>6. "presend" \in Results
  BY DEF Results
<1>7. UNCHANGED <<spoolVars, proc, closing, deadline, net, accepted>> /\ replies' \subseteq replies
  BY <1>1
<1> QED BY <1>1, <1>2, <1>4, <1>5, <1>6, <1>7, EndGone

\* The context of a send ends: a sender that has not sent yet never will.
LEMMA InterruptedInv ==
    ASSUME SpoolStepFacts, DispatcherInv, NEW a \in Agents, Interrupted(a) PROVE DispatcherInv'
<1>1. /\ agent[a].phase = "sending" /\ Holds(a)
      /\ UNCHANGED <<spoolVars, proc, closing, deadline, net, replies, accepted>>
  BY DEF Interrupted, Holds
<1>2. PICK c \in Claims : c = agent[a].claim
  BY <1>1, InvFacts
<1>3. PICK s \in senders : s = Sender(a) /\ s.claim = c /\ \A r \in senders : r.claim = c => r = s
  BY <1>1, <1>2, SenderFacts
<1>4. s \in [claim : Claims, live : BOOLEAN, stage : {"preflight", "marked", "sent"}]
  BY InvFacts DEF DispatcherTypeOK
<1> DEFINE result == IF s.stage = "preflight" THEN "presend" ELSE "failed"
           left == IF s.stage = "sent" THEN {} ELSE {[s EXCEPT !.live = FALSE]}
<1>5. result \in Results /\ Ends(a, result)
  BY <1>3 DEF Interrupted, Results, Answers
<1>6. senders' = Without(c) \cup left
  BY <1>3 DEF Interrupted, Without
<1>7. /\ left \in SUBSET [claim : {c}, live : {FALSE}, stage : {"preflight", "marked"}]
      /\ \A r, q \in left : r = q
  BY <1>3, <1>4
<1>8. left # {} => \A r \in replies : r.claim # c
  <2>1. \A r \in replies : ReplyAccounted(r, s)
    BY DEF DispatcherInv, AccountsInv
  <2> QED BY <1>3, <2>1 DEF ReplyAccounted
<1>9. result \in {"presend", "refused", "invalid"} => Spent(c.target) <= grants[c.target]
  <2>1. SUFFICES ASSUME s.stage = "preflight" PROVE Spent(c.target) <= grants[c.target]
    OBVIOUS
  <2>2. Unposted(a)
    BY <1>1, <1>2, <1>3, <2>1 DEF Unposted
  <2> QED BY <1>2, <2>2 DEF DispatcherInv, AccountsInv, AgentAccounted
<1>10. result # "confirmed"
  OBVIOUS
<1> HIDE DEF result, left
<1> QED BY <1>1, <1>2, <1>5, <1>6, <1>7, <1>8, <1>9, <1>10, EndStep

\* An answer arrives: what it says is true.
LEMMA AnsweredInv ==
    ASSUME SpoolStepFacts, DispatcherInv, NEW a \in Agents, Answered(a) PROVE DispatcherInv'
<1>1. /\ agent[a].phase = "sending" /\ Holds(a) /\ senders' = senders \ {Sender(a)}
      /\ UNCHANGED <<spoolVars, proc, closing, deadline, net, accepted>>
  BY DEF Answered, Holds
<1>2. PICK c \in Claims : c = agent[a].claim
  BY <1>1, InvFacts
<1>3. PICK r \in replies : r.claim = c /\ Ends(a, r.answer) /\ replies' = replies \ {r}
  BY <1>2 DEF Answered
<1>4. Sender(a) \in senders /\ Sender(a).claim = c /\ \A s \in senders : s.claim = c => s = Sender(a)
  BY <1>1, <1>2, SenderFacts
<1>5. ReplyAccounted(r, Sender(a))
  BY <1>4 DEF DispatcherInv, AccountsInv
<1>6. senders' = Without(c)
  BY <1>1, <1>4 DEF Without
<1>7. r.answer \in Answers
  BY InvFacts DEF DispatcherTypeOK
<1>8. r.answer \in Results /\ r.answer # "presend"
  BY <1>7 DEF Results, Answers
<1>9. /\ r.answer \in {"presend", "refused", "invalid"} => Spent(c.target) <= grants[c.target]
      /\ r.answer = "confirmed" => accepted[c.target] >= 1
  BY <1>3, <1>4, <1>5, <1>8 DEF ReplyAccounted
<1>10. replies' \subseteq replies
  BY <1>3
<1> QED BY <1>1, <1>2, <1>3, <1>6, <1>8, <1>9, <1>10, EndGone
-----------------------------------------------------------------------------
\* A sender goes on: it marks, posts its request if its context is live, or
\* returns.
LEMMA SenderMoves ==
    ASSUME SpoolStepFacts, DispatcherInv, NEW s \in senders, s.stage # "sent",
           UNCHANGED <<spoolVars, proc, closing, deadline, agent, replies, accepted>>,
           NEW moved \in SUBSET [claim : {s.claim}, live : {s.live}, stage : {"marked", "sent"}],
           senders' = (senders \ {s}) \cup moved, \A r, q \in moved : r = q,
           s.live => moved # {},
           \/ UNCHANGED net /\ \A r \in moved : r.stage = "marked"
           \/ s.live /\ net' = net \cup {s.claim} /\ \A r \in moved : r.stage = "sent"
    PROVE  DispatcherInv'
<1>1. /\ DispatcherTypeOK /\ SpoolTypeOK /\ ClosedInv /\ AgentsInv /\ SendersInv /\ MessagesInv /\ AccountsInv
      /\ s \in [claim : Claims, live : BOOLEAN, stage : {"preflight", "marked", "sent"}]
  BY InvFacts DEF DispatcherInv, DispatcherTypeOK
<1>2. PICK c \in Claims : c = s.claim
  BY <1>1
<1>3. \A r \in moved : /\ r.claim = c /\ r.live = s.live /\ r.stage \in {"marked", "sent"}
                       /\ r \in [claim : Claims, live : BOOLEAN, stage : {"preflight", "marked", "sent"}]
  BY <1>1, <1>2
<1>4. \A r \in senders : r.claim = c => r = s
  BY <1>1, <1>2 DEF SendersInv
<1>5. DispatcherTypeOK'
  <2>1. SpoolTypeOK'
    BY <1>1 DEF SpoolTypeOK, ProfilesTypeOK, spoolVars, bucketVars, profileVars
  <2>2. senders' \subseteq [claim : Claims, live : BOOLEAN, stage : {"preflight", "marked", "sent"}]
    BY <1>1, <1>3 DEF DispatcherTypeOK
  <2>3. net' \subseteq Claims
    BY <1>1, <1>2 DEF DispatcherTypeOK
  <2> QED BY <1>1, <2>1, <2>2, <2>3, TypeFrame DEF DispatcherTypeOK, AgentState
<1>6. \A b \in Agents : agent'[b].claim = agent[b].claim /\ Holds(b)' = Holds(b)
  BY DEF Holds
<1>7. /\ SpoolInv' /\ CountsInv' /\ ClaimsStayValid' /\ AgentsInv'
      /\ \A k \in Claims : Made(k) => Made(k)'
      /\ UNCHANGED <<targets, intakes, grants, handle>>
  BY <1>5, <1>6, HoldFrame
<1>8. ClosedInv'
  BY <1>1, <1>6, <1>7 DEF ClosedInv
<1>9. SendersInv'
  <2>1. \A b \in Agents : agent'[b].phase = "sending" =>
          \E r \in senders' : r.claim = agent'[b].claim /\ r.live
    <3>1. SUFFICES ASSUME NEW b \in Agents, agent[b].phase = "sending"
                   PROVE  \E r \in senders' : r.claim = agent[b].claim /\ r.live
      OBVIOUS
    <3>2. PICK r \in senders : r.claim = agent[b].claim /\ r.live
      BY <1>1, <3>1 DEF SendersInv
    <3> QED BY <1>2, <1>3, <3>2
  <2>2. \A b \in Agents : agent'[b].phase = "budget" =>
          /\ \A r \in senders' : r.claim # agent'[b].claim
          /\ \A r \in replies' : r.claim # agent'[b].claim
    BY SMTT(30), <1>1, <1>2, <1>3 DEF SendersInv
  <2>3. \A r \in senders' : r.live =>
          \E b \in Agents : agent'[b].phase = "sending" /\ agent'[b].claim = r.claim
    BY SMT, <1>1, <1>2, <1>3 DEF SendersInv
  <2>4. \A r \in senders' : r.stage = "sent" => r.live
    BY <1>1, <1>3 DEF SendersInv
  <2>5. \A r, q \in senders' : r.claim = q.claim => r = q
    BY SMT, <1>1, <1>3, <1>4 DEF SendersInv
  <2> QED BY <2>1, <2>2, <2>3, <2>4, <2>5 DEF SendersInv
<1>10. MessagesInv'
  <2>1. Made(c)'
    BY <1>1, <1>2, <1>7 DEF MessagesInv
  <2>2. /\ net \subseteq Claims /\ (\A r \in replies : r.claim \in Claims)
        /\ \A r \in senders : r.claim \in Claims
    BY <1>1 DEF DispatcherTypeOK
  <2>3. \A r \in senders' : r \in senders \/ r.claim = c
    BY <1>3
  <2>4. \A q \in net' : q \in net \/ q = c
    BY <1>2
  <2> QED BY <1>1, <1>7, <2>1, <2>2, <2>3, <2>4 DEF MessagesInv
<1>11. \A b \in Agents : Unposted(b)' => Unposted(b)
  BY <1>2, <1>4 DEF Unposted
<1>12. \A r \in replies : r.claim # c
  <2>1. \A r \in replies : ReplyAccounted(r, s)
    BY <1>1 DEF AccountsInv
  <2> QED BY <1>2, <2>1 DEF ReplyAccounted
<1>13. CASE UNCHANGED net
  <2>1. IsFiniteSet(net') /\ \A t \in TargetIds : Accounted(t)'
    BY <1>7, <1>13, AccountsStay
  <2>2. ASSUME NEW b \in Agents PROVE AgentAccounted(b)'
    BY <1>1, <1>7, <1>11, <1>13, SpentSame DEF AccountsInv, AgentAccounted
  <2>3. ASSUME NEW r \in replies', NEW q \in senders' PROVE ReplyAccounted(r, q)'
    <3>1. CASE q \in senders
      <4>1. ReplyAccounted(r, q)
        BY <1>1, <2>3, <3>1 DEF AccountsInv
      <4> QED BY <1>7, <1>13, <4>1, SpentSame DEF ReplyAccounted
    <3>2. CASE q \in moved
      BY <1>3, <1>12, <2>3, <3>2 DEF ReplyAccounted
    <3> QED BY <2>3, <3>1, <3>2
  <2>4. AccountsInv'
    BY <2>1, <2>2, <2>3 DEF AccountsInv
  <2> QED BY <1>7, <1>8, <1>9, <1>10, <2>4 DEF DispatcherInv
<1>14. CASE s.live /\ net' = net \cup {c} /\ \A r \in moved : r.stage = "sent"
  <2>1. PICK a \in Agents : agent[a].phase = "sending" /\ agent[a].claim = c
    BY <1>1, <1>2, <1>14 DEF SendersInv
  <2>2. /\ Holds(a) /\ c.target \in TargetIds /\ targets[c.target].state = "sending"
        /\ \A b \in Agents : b # a /\ Holds(b) => agent[b].claim.target # c.target
    BY <1>1, <2>1, InvFacts DEF Holds, Valid, AgentsInv
  <2>3. Spent(c.target) <= grants[c.target]
    <3>1. Unposted(a)
      BY <1>4, <2>1 DEF Unposted
    <3> QED BY <1>1, <2>1, <3>1 DEF AccountsInv, AgentAccounted
  <2>4. /\ IsFiniteSet(net')
        /\ \A t \in TargetIds : /\ Spent(t)' \in Nat /\ Spent(t)' <= Spent(t) + 1
                                /\ t # c.target => Spent(t)' = Spent(t)
    BY <1>1, <1>14, <2>2, SpentSend DEF AccountsInv
  <2>5. \A t \in TargetIds : Spent(t) \in Nat /\ grants[t] \in Nat
    BY <1>1, SpentType DEF AccountsInv
  <2>6. Spent(c.target)' \in Nat
    BY <2>2, <2>4
  <2>7. ASSUME NEW t \in TargetIds PROVE Accounted(t)'
    <3>1. Accounted(t)
      BY <1>1 DEF AccountsInv
    <3>2. CASE t = c.target
      BY SMTT(30), <1>7, <2>2, <2>3, <2>4, <2>5, <2>6, <3>2 DEF Accounted, Due
    <3>3. CASE t # c.target
      BY <1>7, <2>4, <3>1, <3>3 DEF Accounted
    <3> QED BY <3>2, <3>3
  <2>8. ASSUME NEW b \in Agents PROVE AgentAccounted(b)'
    <3>1. AgentAccounted(b)
      BY <1>1 DEF AccountsInv
    <3>2. CASE b = a
      <4>1. \E r \in senders' : r.claim = c /\ r.stage = "sent"
        BY <1>3, <1>14
      <4> QED BY <2>1, <3>2, <4>1 DEF AgentAccounted, Unposted
    <3>3. CASE b # a /\ Holds(b)
      <4>1. agent[b].claim.target \in TargetIds /\ agent[b].claim.target # c.target
        BY <2>2, <3>3, InvFacts
      <4>2. Spent(agent[b].claim.target)' = Spent(agent[b].claim.target)
        BY <2>4, <4>1
      <4> QED BY <1>7, <1>11, <3>1, <4>2 DEF AgentAccounted
    <3>4. CASE ~Holds(b)
      BY <3>4 DEF AgentAccounted, Unposted, Holds
    <3> QED BY <3>2, <3>3, <3>4
  <2>9. ASSUME NEW r \in replies', NEW q \in senders' PROVE ReplyAccounted(r, q)'
    <3>1. CASE q \in senders /\ q.claim = r.claim
      <4>1. ReplyAccounted(r, q)
        BY <1>1, <2>9, <3>1 DEF AccountsInv
      <4>2. PICK b \in Agents : agent[b].phase = "sending" /\ agent[b].claim = q.claim
        BY <1>1, <3>1, <4>1 DEF ReplyAccounted, SendersInv
      <4>3. b # a
        BY <1>12, <2>1, <2>9, <3>1, <4>2
      <4>4. r.claim.target \in TargetIds /\ r.claim.target # c.target
        BY ZenonT(30), <2>2, <3>1, <4>2, <4>3, InvFacts DEF Holds
      <4>5. Spent(r.claim.target)' = Spent(r.claim.target)
        BY <2>4, <4>4
      <4> QED BY <1>7, <3>1, <4>1, <4>5 DEF ReplyAccounted
    <3>2. CASE q \in moved \/ q.claim # r.claim
      BY <1>3, <1>12, <2>9, <3>2 DEF ReplyAccounted
    <3> QED BY <2>9, <3>1, <3>2
  <2>10. AccountsInv'
    BY <2>4, <2>7, <2>8, <2>9 DEF AccountsInv
  <2> QED BY <1>7, <1>8, <1>9, <1>10, <2>10 DEF DispatcherInv
<1> QED BY <1>2, <1>13, <1>14

\* A sender marks that delivery starts, and posts its request or gives up.
LEMMA SenderInv ==
    ASSUME SpoolStepFacts, DispatcherInv, NEW s \in senders, SenderStep(s) PROVE DispatcherInv'
<1>1. s \in [claim : Claims, live : BOOLEAN, stage : {"preflight", "marked", "sent"}]
  BY InvFacts DEF DispatcherTypeOK
<1>2. CASE MarkDelivery(s)
  <2> DEFINE moved == {[s EXCEPT !.stage = "marked"]}
  <2>1. /\ moved \in SUBSET [claim : {s.claim}, live : {s.live}, stage : {"marked", "sent"}]
        /\ senders' = (senders \ {s}) \cup moved /\ moved # {}
        /\ (\A r, q \in moved : r = q) /\ \A r \in moved : r.stage = "marked"
    BY <1>1, <1>2 DEF MarkDelivery
  <2>2. s.stage # "sent" /\ UNCHANGED <<spoolVars, proc, closing, deadline, agent, replies, accepted>> /\ UNCHANGED net
    BY <1>2 DEF MarkDelivery
  <2> HIDE DEF moved
  <2> QED BY <2>1, <2>2, SenderMoves
<1>3. CASE DoHttpRequest(s) /\ s.live
  <2> DEFINE moved == {[s EXCEPT !.stage = "sent"]}
  <2>1. /\ moved \in SUBSET [claim : {s.claim}, live : {s.live}, stage : {"marked", "sent"}]
        /\ senders' = (senders \ {s}) \cup moved /\ moved # {}
        /\ (\A r, q \in moved : r = q) /\ \A r \in moved : r.stage = "sent"
    BY <1>1, <1>3 DEF DoHttpRequest
  <2>2. /\ s.stage # "sent" /\ s.live /\ net' = net \cup {s.claim}
        /\ UNCHANGED <<spoolVars, proc, closing, deadline, agent, replies, accepted>>
    BY <1>3 DEF DoHttpRequest
  <2> HIDE DEF moved
  <2> QED BY <2>1, <2>2, SenderMoves
<1>4. CASE DoHttpRequest(s) /\ ~s.live
  <2> DEFINE moved == {}
  <2>1. /\ moved \in SUBSET [claim : {s.claim}, live : {s.live}, stage : {"marked", "sent"}]
        /\ senders' = (senders \ {s}) \cup moved
        /\ (\A r, q \in moved : r = q) /\ \A r \in moved : r.stage = "marked"
    BY <1>4 DEF DoHttpRequest
  <2>2. /\ s.stage # "sent" /\ ~s.live /\ UNCHANGED net
        /\ UNCHANGED <<spoolVars, proc, closing, deadline, agent, replies, accepted>>
    BY <1>4 DEF DoHttpRequest
  <2> HIDE DEF moved
  <2> QED BY <2>1, <2>2, SenderMoves
<1> QED BY <1>2, <1>3, <1>4 DEF SenderStep

\* A request taken off the wire without a card leaves one fewer to count.
LEMMA SpentUnposted ==
    ASSUME NEW n \in Nat, NEW g \in Nat, NEW p, p = 0, n <= 1 + g
    PROVE  n + p - 1 <= g
BY SMT

\* A request reaches the platform: a card is posted or the request refused, and
\* an answer goes to the sender that still waits, or is lost.
LEMMA ArrivesInv ==
    ASSUME SpoolStepFacts, DispatcherInv, NEW q \in net, net' = net \ {q}, NEW posted \in {0, 1},
           accepted' = [accepted EXCEPT ![q.target] = @ + posted],
           UNCHANGED <<spoolVars, proc, closing, deadline, agent, senders>>,
           NEW x \in Answers, x = "confirmed" => posted = 1, x \in {"refused", "invalid"} => posted = 0,
           replies' = replies \/ (Awaited(q) /\ replies' = replies \cup {[claim |-> q, answer |-> x]})
    PROVE  DispatcherInv'
<1>1. /\ DispatcherTypeOK /\ SpoolTypeOK /\ ClosedInv /\ AgentsInv /\ SendersInv /\ MessagesInv /\ AccountsInv
      /\ q \in Claims /\ accepted \in [TargetIds -> Nat]
  BY InvFacts DEF DispatcherInv, DispatcherTypeOK
<1>2. \A r \in replies' : r \in replies \/ (r = [claim |-> q, answer |-> x] /\ Awaited(q))
  OBVIOUS
<1>3. DispatcherTypeOK'
  <2>1. SpoolTypeOK'
    BY <1>1 DEF SpoolTypeOK, ProfilesTypeOK, spoolVars, bucketVars, profileVars
  <2>2. replies' \subseteq [claim : Claims, answer : Answers]
    BY SMTT(30), <1>1, <1>2 DEF DispatcherTypeOK
  <2>3. accepted' \in [TargetIds -> Nat]
    <3>1. q.target \in TargetIds
      BY <1>1, ClaimFields
    <3> QED BY SMT, <1>1, <3>1
  <2> QED BY <1>1, <2>1, <2>2, <2>3, TypeFrame DEF DispatcherTypeOK, AgentState
<1>4. \A b \in Agents : agent'[b].claim = agent[b].claim /\ Holds(b)' = Holds(b)
  BY DEF Holds
<1>5. /\ SpoolInv' /\ CountsInv' /\ ClaimsStayValid' /\ AgentsInv'
      /\ \A k \in Claims : Made(k) => Made(k)'
      /\ UNCHANGED <<targets, intakes, grants, handle>>
  BY <1>3, <1>4, HoldFrame
<1>6. ClosedInv'
  BY <1>1, <1>2, <1>4, <1>5 DEF ClosedInv, Awaited
<1>7. SendersInv'
  <2>1. \A b \in Agents : agent[b].phase = "budget" => \A r \in replies' : r.claim # agent[b].claim
    BY SMT, <1>1, <1>2 DEF SendersInv, Awaited
  <2> QED BY <1>1, <2>1 DEF SendersInv
<1>8. MessagesInv'
  <2>1. /\ net \subseteq Claims /\ (\A r \in replies : r.claim \in Claims)
        /\ \A r \in senders : r.claim \in Claims
    BY <1>1 DEF DispatcherTypeOK
  <2>2. \A r \in replies' : r \in replies \/ r.claim = q
    BY SMT, <1>2
  <2> QED BY <1>1, <1>5, <2>1, <2>2 DEF MessagesInv
<1>9. /\ IsFiniteSet(net') /\ q.target \in TargetIds
      /\ \A t \in TargetIds :
           /\ t # q.target => Spent(t)' = Spent(t) /\ accepted'[t] = accepted[t]
           /\ t = q.target => Spent(t)' = Spent(t) + posted - 1 /\ accepted'[t] = accepted[t] + posted
           /\ Spent(t) \in Nat /\ accepted[t] \in Nat /\ grants[t] \in Nat
  BY ZenonT(30), <1>1, SpentArrive, SpentType, ClaimFields DEF AccountsInv
<1>10. \A t \in TargetIds : /\ Spent(t)' \in Int /\ Spent(t)' <= Spent(t)
                            /\ accepted'[t] \in Int /\ accepted'[t] >= accepted[t]
  BY SMTT(30), <1>9
<1>11. ASSUME NEW t \in TargetIds PROVE Accounted(t)'
  <2>1. Accounted(t) /\ grants'[t] = grants[t]
    BY <1>1, <1>5 DEF AccountsInv
  <2>2. t = q.target /\ targets[t].state = "absent" => intakes[t[1]].status = "tombstone"
    BY <1>1 DEF MessagesInv, Made, Present
  <2> QED BY SMTT(30), <1>5, <1>9, <1>10, <2>1, <2>2 DEF Accounted
<1>12. ASSUME NEW b \in Agents PROVE AgentAccounted(b)'
  <2>1. AgentAccounted(b) /\ (Unposted(b)' <=> Unposted(b)) /\ agent'[b] = agent[b]
    BY <1>1 DEF AccountsInv, Unposted
  <2>2. CASE ~Holds(b)
    BY ZenonT(30), <2>1, <2>2 DEF AgentAccounted, Unposted, Holds
  <2>3. CASE Holds(b)
    <3>1. agent[b].claim.target \in TargetIds
      BY <2>3, InvFacts
    <3>2. PICK t \in TargetIds : t = agent[b].claim.target
      BY <3>1
    <3>3. /\ Spent(t)' \in Int /\ Spent(t) \in Nat /\ grants[t] \in Nat /\ Spent(t)' <= Spent(t)
          /\ accepted'[t] \in Int /\ accepted[t] \in Nat /\ accepted'[t] >= accepted[t] /\ grants'[t] = grants[t]
      BY ZenonT(30), <1>5, <1>9, <1>10
    <3>4. (Spent(t) <= grants[t] => Spent(t)' <= grants'[t]) /\ (accepted[t] >= 1 => accepted'[t] >= 1)
      BY SMTT(30), <3>3
    <3> QED BY <2>1, <3>2, <3>4 DEF AgentAccounted
  <2> QED BY <2>2, <2>3
<1>13. ASSUME NEW r \in replies', NEW s \in senders' PROVE ReplyAccounted(r, s)'
  <2>1. CASE r \in replies
    <3>1. ReplyAccounted(r, s) /\ r.claim.target \in TargetIds
      BY <1>1, <1>13, <2>1, ClaimFields DEF AccountsInv, DispatcherTypeOK
    <3>2. PICK t \in TargetIds : t = r.claim.target
      BY <3>1
    <3>3. /\ Spent(t)' \in Int /\ Spent(t) \in Nat /\ grants[t] \in Nat /\ Spent(t)' <= Spent(t)
          /\ accepted'[t] \in Int /\ accepted[t] \in Nat /\ accepted'[t] >= accepted[t] /\ grants'[t] = grants[t]
      BY ZenonT(30), <1>5, <1>9, <1>10
    <3>4. (Spent(t) <= grants[t] => Spent(t)' <= grants'[t]) /\ (accepted[t] >= 1 => accepted'[t] >= 1)
      BY SMTT(30), <3>3
    <3> QED BY <3>1, <3>2, <3>4 DEF ReplyAccounted
  <2>2. CASE r = [claim |-> q, answer |-> x] /\ Awaited(q)
    <3>1. r.claim = q /\ r.answer = x
      BY ZenonT(30), <2>2
    <3>2. s.claim = q => s.stage = "sent"
      BY SMTT(30), <1>1, <1>13, <2>2 DEF Awaited, SendersInv
    <3>3. Accounted(q.target)
      BY ZenonT(30), <1>1, <1>9 DEF AccountsInv
    <3>4. posted = 0 => Spent(q.target)' <= grants'[q.target]
      <4>1. /\ Spent(q.target) <= 1 + grants[q.target] /\ grants'[q.target] = grants[q.target]
            /\ Spent(q.target)' = Spent(q.target) + posted - 1
            /\ Spent(q.target) \in Nat /\ grants[q.target] \in Nat
        BY ZenonT(30), <1>5, <1>9, <3>3 DEF Accounted
      <4> QED BY <4>1, SpentUnposted
    <3>5. posted = 1 => accepted'[q.target] >= 1
      BY SMT, <1>9
    <3> QED BY <3>1, <3>2, <3>4, <3>5 DEF ReplyAccounted
  <2> QED BY ZenonT(30), <1>2, <1>13, <2>1, <2>2
<1>14. AccountsInv'
  BY <1>9, <1>11, <1>12, <1>13 DEF AccountsInv
<1> QED BY <1>5, <1>6, <1>7, <1>8, <1>14 DEF DispatcherInv

\* A platform that accepts a request, or refuses it, keeps the invariant.
LEMMA PlatformInv ==
    ASSUME SpoolStepFacts, DispatcherInv, NEW q \in net, PlatformAccepts(q) \/ PlatformRefuses(q) PROVE DispatcherInv'
<1>1. CASE PlatformAccepts(q)
  <2>1. PICK x \in {"confirmed", "failed"} :
          replies' = replies \/ (Awaited(q) /\ replies' = replies \cup {[claim |-> q, answer |-> x]})
    BY <1>1 DEF PlatformAccepts, Replying
  <2>2. /\ net' = net \ {q} /\ accepted' = [accepted EXCEPT ![q.target] = @ + 1]
        /\ UNCHANGED <<spoolVars, proc, closing, deadline, agent, senders>>
        /\ x \in Answers /\ x \notin {"refused", "invalid"}
    BY <1>1, <2>1 DEF PlatformAccepts, Answers
  <2> QED BY <2>1, <2>2, ArrivesInv
<1>2. CASE PlatformRefuses(q)
  <2>1. PICK x \in {"invalid", "failed", "refused"} :
          replies' = replies \/ (Awaited(q) /\ replies' = replies \cup {[claim |-> q, answer |-> x]})
    BY <1>2 DEF PlatformRefuses, Replying
  <2>2. accepted' = [accepted EXCEPT ![q.target] = @ + 0]
    <3>1. accepted \in [TargetIds -> Nat] /\ UNCHANGED accepted
      BY <1>2, InvFacts DEF PlatformRefuses, DispatcherTypeOK
    <3> QED BY SMT, <3>1
  <2>3. /\ net' = net \ {q} /\ x \in Answers /\ x # "confirmed"
        /\ UNCHANGED <<spoolVars, proc, closing, deadline, agent, senders>>
    BY <1>2, <2>1 DEF PlatformRefuses, Answers
  <2> QED BY <2>1, <2>2, <2>3, ArrivesInv
<1> QED BY <1>1, <1>2
-----------------------------------------------------------------------------
(***************************************************************************)
(* The theorems.                                                           *)
(***************************************************************************)
\* Every step keeps the invariant.
LEMMA StepKeepsInv ==
    ASSUME DispatcherInv, SpoolStepFacts, [DispatcherNext]_vars PROVE DispatcherInv'
<1>1. CASE StartWriter \/ StartRecovery
  BY <1>1, StartInv
<1>2. CASE Crash \/ Exit
  BY <1>2, DiesInv DEF Crash, Exit
<1>3. Operator \in Agents /\ Workers \subseteq Agents
  BY DEF Agents
<1>4. CASE Terminate
  BY <1>3, <1>4, LoopInv
<1>5. ASSUME NEW v \in Workers, WorkerStep(v) PROVE DispatcherInv'
  BY <1>3, <1>5, LoopInv, ClaimsInv, BudgetInv, BudgetTimeoutInv DEF WorkerStep
<1>6. ASSUME NEW a \in Agents, SendStep(a) PROVE DispatcherInv'
  BY <1>6, PreflightFailsInv, InterruptedInv, AnsweredInv, FinishSendInv DEF SendStep
<1>7. CASE \E s \in senders : SenderStep(s)
  BY <1>7, SenderInv
<1>8. CASE \E q \in net : PlatformAccepts(q) \/ PlatformRefuses(q)
  BY <1>8, PlatformInv
<1>9. CASE OperatorResolves \/ OperatorReplays
  BY <1>9, ResolvesInv, ClaimsInv
<1>10. CASE WriterServes \/ Maintenance \/ TimePasses \/ DiskChanges \/ UNCHANGED vars
  BY <1>10, ServeInv
<1> QED BY <1>1, <1>2, <1>4, <1>5, <1>6, <1>7, <1>8, <1>9, <1>10 DEF DispatcherNext

-----------------------------------------------------------------------------
(***************************************************************************)
(* Pausing a lane: the attempts in flight only get fewer.                  *)
(***************************************************************************)
\* Somebody may still send for claim c.
Live(c) ==
    \/ \E a \in Agents : agent[a].claim = c
    \/ \E s \in senders : s.claim = c /\ s.live
    \/ c \in net

\* A step in which every agent keeps its claim or drops it.
LEMMA LiveKept ==
    ASSUME NEW c \in Claims, Live(c)',
           \A a \in Agents : agent'[a].claim \in {agent[a].claim, NoClaim},
           \A s \in senders' : s.live => \/ \E r \in senders : r.live /\ r.claim = s.claim
                                         \/ \E a \in Agents : agent[a].claim = s.claim,
           \A q \in net' : q \in net \/ \E r \in senders : r.live /\ r.claim = q
    PROVE  Live(c)
<1>1. c # NoClaim
  <2>1. NoClaim.owner = 0
    BY DEF NoClaim
  <2>2. c.owner \in 1 .. MaxOpens
    BY DEF Claims
  <2>3. c.owner # 0
    BY SMTT(30), <2>2, SpoolConstants
  <2> QED BY <2>1, <2>3
<1> QED BY SMT, <1>1 DEF Live

\* Whoever may send for a claim was handed it by one who already might, or has
\* just claimed its target.
LEMMA LiveFrom ==
    ASSUME SpoolStepFacts, DispatcherInv, DispatcherNext \/ UNCHANGED vars, NEW c \in Claims, Live(c)'
    PROVE  Live(c) \/ Taken(c.target)
<1>1. /\ DispatcherTypeOK /\ SpoolTypeOK /\ agent \in [Agents -> AgentState]
      /\ Operator \in Agents /\ Workers \subseteq Agents
  BY InvFacts DEF Agents
<1>2. ASSUME NEW a \in Agents, NEW state, Move(a, state)
      PROVE  agent'[a] = state /\ \A b \in Agents : b # a => agent'[b] = agent[b]
  BY <1>1, <1>2 DEF Move
<1>3. \A phase : At(phase).claim = NoClaim
  BY DEF At
<1>4. CASE StartWriter \/ StartRecovery \/ Crash \/ Exit
  <2>1. \A a \in Agents : agent'[a].claim = NoClaim
    BY <1>3, <1>4 DEF StartWriter, StartRecovery, Crash, Exit, ProcessDies
  <2>2. senders' \subseteq senders /\ net' = net
    BY <1>4 DEF StartWriter, StartRecovery, Crash, Exit, ProcessDies
  <2> QED BY <2>1, <2>2, LiveKept
<1>5. ASSUME NEW w \in Workers, LoopTop(w) \/ WorkerFindsNothing(w) \/ ClaimError(w) \/ CheckDrained(w)
      PROVE  Live(c)
  <2>1. UNCHANGED <<senders, net>>
    BY <1>5 DEF LoopTop, WorkerFindsNothing, ClaimError, CheckDrained
  <2>2. PICK state : Move(w, state) /\ state.claim = NoClaim
    <3>1. [At("claiming") EXCEPT !.saw = closing].claim = NoClaim
      BY DEF At
    <3> QED BY <1>3, <1>5, <3>1 DEF LoopTop, WorkerFindsNothing, ClaimError, CheckDrained
  <2>3. \A a \in Agents : agent'[a].claim \in {agent[a].claim, NoClaim}
    BY <1>1, <1>2, <2>2
  <2> QED BY <2>1, <2>3, LiveKept
<1>6. ASSUME NEW w \in Workers, WorkerClaims(w) PROVE Live(c) \/ Taken(c.target)
  <2>1. PICK e \in ready : /\ ClaimEntry(e) /\ UNCHANGED <<senders, net>>
                           /\ Move(w, [At("budget") EXCEPT !.claim = ClaimOf(e.id)])
    BY <1>6 DEF WorkerClaims
  <2>2. Taken(e.id)
    BY <1>1, <2>1, ClaimTaken
  <2>3. agent'[w].claim = ClaimOf(e.id) /\ \A b \in Agents : b # w => agent'[b] = agent[b]
    <3>1. [At("budget") EXCEPT !.claim = ClaimOf(e.id)].claim = ClaimOf(e.id)
      BY ZenonT(30) DEF At
    <3> QED BY <1>1, <1>2, <2>1, <3>1
  <2>4. c = ClaimOf(e.id) => c.target = e.id
    BY SMT DEF ClaimOf
  <2> QED BY <1>1, <2>1, <2>2, <2>3, <2>4 DEF Live
<1>7. CASE OperatorReplays
  <2>1. PICK t \in TargetIds : /\ ClaimForRecovery(t) /\ UNCHANGED net /\ Launch(ClaimOf(t))
                               /\ Move(Operator, [At("sending") EXCEPT !.claim = ClaimOf(t)])
    BY <1>7 DEF OperatorReplays
  <2>2. Taken(t)
    BY <1>1, <2>1, RecoveryTaken
  <2>3. agent'[Operator].claim = ClaimOf(t) /\ \A b \in Agents : b # Operator => agent'[b] = agent[b]
    <3>1. [At("sending") EXCEPT !.claim = ClaimOf(t)].claim = ClaimOf(t)
      BY DEF At
    <3> QED BY <1>1, <1>2, <2>1, <3>1
  <2>4. \A s \in senders' : s \in senders \/ s.claim = ClaimOf(t)
    BY SMTT(30), <2>1 DEF Launch
  <2>5. c = ClaimOf(t) => c.target = t
    BY SMT DEF ClaimOf
  <2> QED BY <1>1, <2>1, <2>2, <2>3, <2>4, <2>5 DEF Live
<1>8. ASSUME NEW w \in Workers, BudgetGranted(w) PROVE Live(c)
  <2>1. UNCHANGED net /\ \A s \in senders' : s \in senders \/ s.claim = agent[w].claim
    BY SMT, <1>8 DEF BudgetGranted, Launch
  <2>2. \A a \in Agents : agent'[a].claim = agent[a].claim
    <3>1. [agent[w] EXCEPT !.phase = "sending"].claim = agent[w].claim
      BY <1>1 DEF AgentState
    <3> QED BY <1>1, <1>2, <1>8, <3>1 DEF BudgetGranted
  <2> QED BY <1>1, <2>1, <2>2, LiveKept
<1>9. ASSUME NEW a \in Agents, (a \in Workers /\ BudgetTimeout(a)) \/ PreflightFails(a) \/ Interrupted(a) \/ Answered(a)
      PROVE  Live(c)
  <2>1. PICK result : Ends(a, result)
    BY <1>9 DEF BudgetTimeout, PreflightFails, Interrupted, Answered
  <2>2. \A b \in Agents : agent'[b].claim = agent[b].claim
    <3>1. [agent[a] EXCEPT !.phase = "finish", !.result = result].claim = agent[a].claim
      BY <1>1 DEF AgentState
    <3> QED BY <1>1, <1>2, <2>1, <3>1 DEF Ends
  <2>3. UNCHANGED net
    BY <1>9 DEF BudgetTimeout, PreflightFails, Interrupted, Answered
  <2>4. \A s \in senders' : s.live => s \in senders
    <3>1. CASE Interrupted(a)
      <4>1. PICK s \in senders : s = Sender(a)
        BY <3>1, SenderFacts DEF Interrupted
      <4>2. [s EXCEPT !.live = FALSE].live = FALSE
        BY <1>1 DEF DispatcherTypeOK
      <4> QED BY <3>1, <4>1, <4>2 DEF Interrupted
    <3> QED BY <1>9, <3>1 DEF BudgetTimeout, PreflightFails, Answered
  <2> QED BY <2>2, <2>3, <2>4, LiveKept
<1>10. ASSUME NEW a \in Agents, FinishSend(a) \/ (a = Operator /\ OperatorResolves) PROVE Live(c)
  <2>1. PICK phase : Move(a, At(phase))
    BY <1>10 DEF FinishSend, OperatorResolves
  <2>2. \A b \in Agents : agent'[b].claim \in {agent[b].claim, NoClaim}
    BY <1>2, <1>3, <2>1
  <2>3. UNCHANGED <<senders, net>>
    BY <1>10 DEF FinishSend, OperatorResolves
  <2> QED BY <2>2, <2>3, LiveKept
<1>11. ASSUME NEW s \in senders, SenderStep(s) PROVE Live(c)
  <2>1. s \in [claim : Claims, live : BOOLEAN, stage : {"preflight", "marked", "sent"}]
    BY <1>1 DEF DispatcherTypeOK
  <2>2. \A stage : [s EXCEPT !.stage = stage].claim = s.claim /\ [s EXCEPT !.stage = stage].live = s.live
    BY <2>1
  <2>3. /\ UNCHANGED agent
        /\ \A r \in senders' : r \in senders \/ (r.claim = s.claim /\ r.live = s.live)
        /\ \A q \in net' : q \in net \/ (s.live /\ q = s.claim)
    BY <1>11, <2>2 DEF SenderStep, MarkDelivery, DoHttpRequest
  <2> QED BY <2>3, LiveKept
<1>12. CASE \E q \in net : PlatformAccepts(q) \/ PlatformRefuses(q)
  <2>1. UNCHANGED <<agent, senders>> /\ net' \subseteq net
    BY <1>12 DEF PlatformAccepts, PlatformRefuses
  <2> QED BY <2>1, LiveKept
<1>13. CASE Terminate \/ WriterServes \/ Maintenance \/ TimePasses \/ DiskChanges \/ UNCHANGED vars
  <2>1. UNCHANGED <<agent, senders, net>>
    BY <1>13 DEF Terminate, WriterServes, Maintenance, TimePasses, DiskChanges, dispatchVars, vars
  <2> QED BY <2>1, LiveKept
<1> QED BY <1>1, <1>4, <1>5, <1>6, <1>7, <1>8, <1>9, <1>10, <1>11, <1>12, <1>13
        DEF DispatcherNext, WorkerStep, SendStep

\* Whoever may send for a claim holds one that was made.
LEMMA LiveMade ==
    ASSUME DispatcherInv, NEW c \in Claims, Live(c) PROVE Made(c)
<1>1. c # NoClaim
  <2>1. c.owner # 0 /\ NoClaim.owner = 0
    BY SMT, SpoolConstants DEF Claims, NoClaim
  <2> QED BY <2>1
<1>2. ASSUME NEW a \in Agents, agent[a].claim = c PROVE Made(c)
  <2>1. Holds(a) /\ Valid(a) /\ c.target \in TargetIds
    BY <1>1, <1>2, InvFacts DEF DispatcherInv, AgentsInv
  <2>2. targets[c.target].attempt <= targets[c.target].attempts
    BY <2>1 DEF DispatcherInv, CountsInv
  <2> QED BY <1>2, <2>1, <2>2 DEF Valid, Made, Present
<1> QED BY <1>2 DEF Live, DispatcherInv, MessagesInv

\* While a lane is paused no step adds an attempt of it to those in flight.
LEMMA PausedStep ==
    ASSUME SpoolStepFacts, DispatcherInv, DispatcherInv', DispatcherNext \/ UNCHANGED vars, NEW l \in Lanes,
           pstate[l].paused, NEW c \in InFlight(l)'
    PROVE  c \in InFlight(l)
<1> DEFINE t == c.target
<1>1. /\ c \in Claims /\ Live(c)' /\ t \in TargetIds
      /\ targets'[t].profile # NoProfile /\ targets'[t].profile.lane = l
  BY ClaimFields DEF InFlight, Live
<1>2. /\ SpoolInv /\ CountsInv /\ [SpoolNext]_spoolVars /\ RowStep(t)
      /\ targets[t].attempts \in Nat
  BY ZenonT(30), <1>1, SpoolStep, SpoolKept, InvFacts DEF DispatcherInv, SpoolTypeOK, Row
<1>3. targets'[t].state # "absent"
  <2>1. targets'[t].state = "absent" => targets'[t] = AbsentRow
    BY <1>1 DEF DispatcherInv, CountsInv
  <2> QED BY SMTT(30), <1>1, <2>1 DEF AbsentRow
<1>4. CASE Taken(t)
  <2>1. targets'[t].attempts > targets[t].attempts /\ Present(t)
    BY SMT, <1>2, <1>4 DEF Taken, Present, Due
  <2>2. ~DeliveryPaused(targets[t].profile) /\ targets'[t].profile = targets[t].profile
    BY <1>2, <1>3, <2>1 DEF RowStep
  <2> QED BY ZenonT(30), <1>1, <2>2 DEF DeliveryPaused
<1>5. CASE Live(c)
  <2>1. Present(t)
    <3>1. Made(c)
      BY <1>1, <1>5, LiveMade
    <3>2. SUFFICES ASSUME ~Present(t) PROVE FALSE
      OBVIOUS
    <3>3. intakes[t[1]].status = "tombstone" /\ targets[t].state = "absent"
      BY <3>1, <3>2 DEF Made, Present
    <3>4. ~Opened /\ ~Quiet
      BY <1>1, <1>3, <3>3 DEF Opened, Quiet
    <3>5. ~Swept /\ ~Added
      <4>1. AbsentRow.state = "absent"
        BY DEF AbsentRow
      <4> QED BY <1>1, <1>3, <3>3, <4>1 DEF Swept, Added
    <3>6. ASSUME NEW x \in TargetIds, Taken(x) PROVE FALSE
      BY <1>1, <1>3, <3>3, <3>6 DEF Taken, Due
    <3>7. ASSUME NEW x \in TargetIds, NEW state \in Completions, NEW outcome \in {"platform", "operator_reconciled"},
                 targets[x].state \in {"sending", "unknown", "dead_letter"}, Concluded(x, state, outcome)
          PROVE  FALSE
      BY <1>1, <1>3, <3>3, <3>7 DEF Concluded
    <3> QED BY <3>4, <3>5, <3>6, <3>7, StepEffects
  <2>2. targets'[t].profile = targets[t].profile
    BY <1>2, <1>3, <2>1 DEF RowStep
  <2> QED BY <1>1, <1>5, <2>2 DEF InFlight, Live
<1> QED BY <1>1, <1>4, <1>5, LiveFrom

-----------------------------------------------------------------------------
(***************************************************************************)
(* The dispatcher implements the delivery ledger.                          *)
(***************************************************************************)
\* What each state of a row means in the ledger.
LEMMA VerdictFacts ==
    ASSUME NEW t \in TargetIds, targets[t].state \in States
    PROVE  /\ VerdictOf(t) = "none" <=> targets[t].state = "absent" /\ intakes[t[1]].status # "tombstone"
           /\ VerdictOf(t) = "forgotten" <=> targets[t].state = "absent" /\ intakes[t[1]].status = "tombstone"
           /\ VerdictOf(t) = "waiting" <=> Due(targets[t].state)
           /\ VerdictOf(t) = "delivered" <=> targets[t].state = "delivered" /\ targets[t].outcome = "platform"
           /\ VerdictOf(t) = "refused" <=> targets[t].state = "dead_letter" /\ targets[t].outcome = "platform"
           /\ VerdictOf(t) = "settled" <=> /\ targets[t].state \in {"delivered", "dead_letter"}
                                           /\ targets[t].outcome # "platform"
           /\ VerdictOf(t) = "sending" <=> targets[t].state = "sending"
           /\ VerdictOf(t) = "unknown" <=> targets[t].state = "unknown"
           /\ VerdictOf(t) \in Ledger!Verdicts
  BY DEF VerdictOf, Due, States, Ledger!Verdicts

\* A row that keeps its state and outcome, with its intake erased or not as
\* before, keeps its verdict.
LEMMA VerdictSame ==
    ASSUME NEW t \in TargetIds, targets'[t].state = targets[t].state,
           targets'[t].outcome = targets[t].outcome,
           targets[t].state = "absent" =>
             (intakes'[t[1]].status = "tombstone") = (intakes[t[1]].status = "tombstone")
    PROVE  VerdictOf(t)' = VerdictOf(t)
  BY SMT DEF VerdictOf

\* A step of the ledger, row by row.
LEMMA JudgeRows ==
    ASSUME NEW S, NEW v,
           \A t \in TargetIds : VerdictOf(t)' = IF t \in S THEN v ELSE VerdictOf(t)
    PROVE  Ledger!Judge(S, v)
  BY DEF Ledger!Judge

\* Open, Claim, submit, cleanup and the rest, as the ledger sees them.
LEMMA SpoolLedger ==
    ASSUME SpoolStepFacts, DispatcherInv, DispatcherInv', UNCHANGED accepted,
           Opened \/ Swept \/ Added \/ Quiet \/ \E x \in TargetIds : Taken(x)
    PROVE  [Ledger!LedgerNext]_Ledger!ledgerVars
<1>1. \A t \in TargetIds : targets[t].state \in States /\ targets'[t].state \in States
  BY InvFacts DEF DispatcherInv, SpoolInv, SpoolTypeOK, Row
<1>2. CASE Opened
  <2>1. \A t \in TargetIds : VerdictOf(t)' = IF VerdictOf(t) = "sending" THEN "unknown" ELSE VerdictOf(t)
    <3>1. ASSUME NEW t \in TargetIds, targets[t].state = "sending" PROVE VerdictOf(t)' = "unknown"
      BY <1>2, <3>1 DEF Opened, VerdictOf, Due
    <3>2. ASSUME NEW t \in TargetIds, targets[t].state # "sending" PROVE VerdictOf(t)' = VerdictOf(t)
      BY <1>2, <3>2, VerdictSame DEF Opened
    <3> QED BY <1>1, <3>1, <3>2, VerdictFacts
  <2>2. Ledger!Judge({t \in TargetIds : VerdictOf(t) = "sending"}, "unknown")
    BY <2>1 DEF Ledger!Judge
  <2>3. Ledger!Interrupt
    BY <1>2, <2>2 DEF Ledger!Interrupt, Opened
  <2> QED BY <2>3 DEF Ledger!LedgerNext
<1>3. CASE Swept
  <2> DEFINE S == {t \in TargetIds : /\ VerdictOf(t) \in {"none", "delivered", "settled"}
                                     /\ targets'[t] = AbsentRow /\ intakes'[t[1]].status = "tombstone"}
  <2>a. AbsentRow.state = "absent"
    BY DEF AbsentRow
  <2>1. ASSUME NEW t \in TargetIds PROVE VerdictOf(t)' = IF t \in S THEN "forgotten" ELSE VerdictOf(t)
    <3>1. CASE targets'[t] = AbsentRow /\ intakes'[t[1]].status = "tombstone"
      <4>1. VerdictOf(t)' = "forgotten"
        <5>1. targets'[t].state = "absent"
          BY <3>1, <2>a
        <5> QED BY ZenonT(30), <3>1, <5>1 DEF VerdictOf, Due
      <4>2. VerdictOf(t) \in {"none", "forgotten", "delivered", "settled"}
        <5>1. CASE targets'[t] = targets[t]
          <6>1. targets[t].state = "absent"
            BY <3>1, <5>1, <2>a
          <6> QED BY <1>1, <6>1, VerdictFacts
        <5>2. CASE \/ targets[t].state \in {"absent", "delivered"}
                   \/ targets[t].state = "dead_letter" /\ targets[t].outcome = "operator_reconciled"
          <6>1. targets[t].outcome = "operator_reconciled" => targets[t].outcome # "platform"
            OBVIOUS
          <6> QED BY <1>1, <5>2, <6>1, VerdictFacts
        <5> QED BY <1>3, <5>1, <5>2 DEF Swept
      <4> QED BY <3>1, <4>1, <4>2
    <3>2. CASE ~(targets'[t] = AbsentRow /\ intakes'[t[1]].status = "tombstone")
      <4>1. targets'[t] = targets[t] /\ intakes'[t[1]].status = intakes[t[1]].status
        BY <1>3, <3>2 DEF Swept
      <4> QED BY <3>2, <4>1, VerdictSame
    <3> QED BY <3>1, <3>2
  <2>2. S \in SUBSET {t \in TargetIds : VerdictOf(t) \in {"none", "delivered", "settled"}}
    OBVIOUS
  <2> HIDE DEF S
  <2>3. Ledger!Judge(S, "forgotten")
    BY ZenonT(30), <2>1, JudgeRows
  <2>4. Ledger!Forget
    BY <1>3, <2>2, <2>3 DEF Ledger!Forget, Swept
  <2> QED BY <2>4 DEF Ledger!LedgerNext
<1>4. CASE Added
  <2> DEFINE S == {t \in TargetIds : VerdictOf(t) = "none" /\ targets'[t].state = "pending"}
  <2>1. ASSUME NEW t \in TargetIds PROVE VerdictOf(t)' = IF t \in S THEN "waiting" ELSE VerdictOf(t)
    <3>1. CASE /\ targets'[t] = targets[t]
               /\ (intakes'[t[1]].status = "tombstone") = (intakes[t[1]].status = "tombstone")
      <4>1. t \notin S
        BY <1>1, <3>1, VerdictFacts
      <4> QED BY <3>1, <4>1, VerdictSame
    <3>2. CASE /\ targets[t].state = "absent" /\ intakes[t[1]].status # "tombstone"
               /\ targets'[t].state = "pending"
      <4>1. t \in S
        BY <1>1, <3>2, VerdictFacts
      <4>2. VerdictOf(t)' = "waiting"
        BY <3>2 DEF VerdictOf, Due
      <4> QED BY <4>1, <4>2
    <3> QED BY <1>4, <3>1, <3>2 DEF Added
  <2>2. S \in SUBSET {t \in TargetIds : VerdictOf(t) = "none"}
    OBVIOUS
  <2> HIDE DEF S
  <2>3. Ledger!Judge(S, "waiting")
    BY ZenonT(30), <2>1, JudgeRows
  <2>4. Ledger!Plan
    BY <1>4, <2>2, <2>3 DEF Ledger!Plan, Added
  <2> QED BY <2>4 DEF Ledger!LedgerNext
<1>5. CASE Quiet
  <2>1. \A t \in TargetIds : VerdictOf(t)' = VerdictOf(t)
    BY <1>5, VerdictSame DEF Quiet
  <2> QED BY <1>5, <2>1 DEF Quiet, Ledger!ledgerVars
<1>6. ASSUME NEW x \in TargetIds, Taken(x) PROVE [Ledger!LedgerNext]_Ledger!ledgerVars
  <2>1. VerdictOf(x) = "waiting" /\ VerdictOf(x)' = "sending"
    <3>1. VerdictOf(x)' = "sending"
      BY <1>6 DEF Taken, VerdictOf, Due
    <3> QED BY <1>1, <1>6, <3>1, VerdictFacts DEF Taken
  <2>2. accepted[x] <= grants[x]
    <3>1. Spent(x) <= grants[x] /\ Spent(x) \in Nat /\ accepted[x] \in Nat /\ accepted[x] <= Spent(x) /\ grants[x] \in Nat
      BY <1>6, InvFacts, SpentType DEF DispatcherInv, AccountsInv, Accounted, Taken
    <3> QED BY SMT, <3>1
  <2>3. \A t \in TargetIds : VerdictOf(t)' = IF t \in {x} THEN "sending" ELSE VerdictOf(t)
    BY <1>6, <2>1, VerdictSame DEF Taken
  <2>4. Ledger!Judge({x}, "sending")
    BY <2>3, JudgeRows
  <2>5. Ledger!Send(x)
    BY <1>6, <2>1, <2>2, <2>4 DEF Ledger!Send, Ledger!Unsent, Taken
  <2> QED BY <2>5 DEF Ledger!LedgerNext
<1> QED BY <1>2, <1>3, <1>4, <1>5, <1>6

\* The end of a send, as the ledger sees it: what is recorded of the platform's
\* answer agrees with the cards.
LEMMA FinishLedger ==
    ASSUME SpoolStepFacts, DispatcherInv, NEW a \in Agents, FinishSend(a), ~WriteFails
    PROVE  [Ledger!LedgerNext]_Ledger!ledgerVars
<1>1. /\ SpoolTypeOK /\ IndexesExact /\ DispatcherTypeOK /\ Holds(a)
      /\ agent[a].phase = "finish" /\ UNCHANGED accepted
  BY InvFacts DEF FinishSend, Holds
<1>2. PICK x \in TargetIds, state \in Completions :
        x = agent[a].claim.target /\ state = DeliveryOutcome(agent[a].result)
  BY <1>1, InvFacts, OutcomeCompletes
<1>3. Concluded(x, state, "platform") /\ UNCHANGED grants /\ targets[x].state = "sending"
  <2>1. Finish(agent[a].claim, state, now + RetryDelay) /\ now + RetryDelay \in Nat
    <3>1. Finish(agent[a].claim, state, now + RetryDelay)
      BY <1>2 DEF FinishSend
    <3>2. now \in Nat /\ RetryDelay \in Nat
      BY <1>1, SpoolConstants DEF SpoolTypeOK
    <3>3. now + RetryDelay \in Nat
      BY SMTT(30), <3>2
    <3> QED BY <3>1, <3>3
  <2>2. agent[a].claim \in Claims
    BY <1>1, InvFacts
  <2> QED BY ZenonT(30), <1>2, <2>1, <2>2, FinishConcluded
<1>4. /\ Spent(x) \in Nat /\ accepted[x] \in Nat /\ accepted[x] <= Spent(x) /\ grants[x] \in Nat
      /\ AgentAccounted(a)
  BY ZenonT(30), <1>1, SpentType DEF DispatcherInv, AccountsInv
<1>5. /\ state \in {"retryable", "dead_letter"} => accepted[x] <= grants[x]
      /\ state = "delivered" => accepted[x] > 0
  <2>1. state \in {"retryable", "dead_letter"} => Unposted(a)
    BY <1>1, <1>2 DEF DeliveryOutcome, Unposted
  <2>2. state = "delivered" => agent[a].result = "confirmed"
    BY <1>2 DEF DeliveryOutcome
  <2> QED BY SMTT(30), <1>1, <1>2, <1>4, <2>1, <2>2 DEF AgentAccounted
<1> DEFINE v == CASE state = "retryable" -> "waiting"
                  [] state = "dead_letter" -> "refused"
                  [] OTHER -> state
<1>6. VerdictOf(x) = "sending" /\ VerdictOf(x)' = v
  <2>1. targets'[x].state = state /\ targets'[x].outcome = "platform"
    BY <1>3 DEF Concluded
  <2>2. VerdictOf(x)' = v
    BY <2>1 DEF VerdictOf, Due, Completions
  <2> QED BY <1>3, <2>2 DEF VerdictOf, Due
<1>7. \A t \in TargetIds : t # x => VerdictOf(t)' = VerdictOf(t)
  BY <1>3, VerdictSame DEF Concluded, SameRow
<1>8. v \in {"waiting", "refused", "delivered", "unknown"}
  BY DEF Completions
<1>9. /\ v = "waiting" => state = "retryable"
      /\ v = "refused" => state = "dead_letter"
      /\ v = "delivered" => state = "delivered"
  BY DEF Completions
<1> HIDE DEF v
<1>10. Ledger!Judge({x}, v)
  BY SMTT(30), <1>6, <1>7, JudgeRows
<1>11. Ledger!Conclude(x)
  BY <1>1, <1>3, <1>5, <1>6, <1>8, <1>9, <1>10 DEF Ledger!Conclude, Ledger!Unsent
<1> QED BY <1>11 DEF Ledger!LedgerNext

\* A decision of the operator, as the ledger sees it.
LEMMA ResolveLedger ==
    ASSUME SpoolStepFacts, DispatcherInv, OperatorResolves
    PROVE  [Ledger!LedgerNext]_Ledger!ledgerVars
<1>1. SpoolTypeOK /\ IndexesExact /\ UNCHANGED accepted
  BY InvFacts DEF OperatorResolves
<1>2. PICK x \in TargetIds, state \in Completions \ {"unknown"} : Resolve(x, state)
  BY DEF OperatorResolves
<1>3. /\ Concluded(x, state, "operator_reconciled")
      /\ targets[x].state \in {"unknown", "dead_letter"}
      /\ grants' = [grants EXCEPT ![x] = IF state = "retryable" THEN @ + 1 ELSE @]
  BY <1>1, <1>2, ResolveConcluded
<1>4. VerdictOf(x) \in {"unknown", "refused", "settled"}
  BY <1>3 DEF VerdictOf, Due
<1> DEFINE v == IF state = "retryable" THEN "waiting" ELSE "settled"
<1>5. VerdictOf(x)' = v
  <2>1. targets'[x].state = state /\ targets'[x].outcome = "operator_reconciled"
    BY <1>3 DEF Concluded
  <2> QED BY <2>1 DEF VerdictOf, Due, Completions
<1>6. \A t \in TargetIds : t # x => VerdictOf(t)' = VerdictOf(t)
  BY <1>3, VerdictSame DEF Concluded, SameRow
<1>7. IF state = "retryable"
      THEN v = "waiting" /\ grants' = [grants EXCEPT ![x] = @ + 1]
      ELSE v = "settled" /\ UNCHANGED grants
  BY <1>1, <1>3 DEF SpoolTypeOK
<1> HIDE DEF v
<1>8. Ledger!Judge({x}, v)
  BY SMTT(30), <1>5, <1>6, JudgeRows
<1>9. Ledger!Decide(x)
  BY <1>1, <1>4, <1>7, <1>8 DEF Ledger!Decide
<1> QED BY <1>9 DEF Ledger!LedgerNext

\* The platform posts a card: the ledger lets it.
LEMMA PostLedger ==
    ASSUME SpoolStepFacts, DispatcherInv, NEW q \in net, PlatformAccepts(q)
    PROVE  [Ledger!LedgerNext]_Ledger!ledgerVars
<1>1. /\ SpoolTypeOK /\ DispatcherTypeOK /\ q \in Claims /\ Made(q)
      /\ UNCHANGED <<targets, intakes, grants>>
      /\ accepted' = [accepted EXCEPT ![q.target] = @ + 1]
  BY InvFacts DEF DispatcherInv, DispatcherTypeOK, MessagesInv, PlatformAccepts, spoolVars, bucketVars
<1>2. PICK t \in TargetIds : t = q.target
  BY ZenonT(30), <1>1, ClaimFields
<1>3. /\ Spent(t) \in Nat /\ accepted[t] \in Nat /\ grants[t] \in Nat /\ Accounted(t)
      /\ accepted[t] < Spent(t)
  <2>1. IsFiniteSet(OnWire(t)) /\ q \in OnWire(t)
    BY <1>1, <1>2, SpentType DEF DispatcherInv, AccountsInv, OnWire
  <2>2. Cardinality(OnWire(t)) # 0 /\ Cardinality(OnWire(t)) \in Nat
    BY ZenonT(30), <2>1, SetsCount DEF Counting
  <2> QED BY SMTT(30), <1>1, <2>2, SpentType DEF DispatcherInv, AccountsInv, Spent
<1>4. accepted[t] <= grants[t]
  BY SMT, <1>3 DEF Accounted
<1>5. targets[t].state \in States
  BY <1>1 DEF SpoolTypeOK, Row
<1>6. grants[t] = 0 => VerdictOf(t) \in {"sending", "unknown", "settled", "forgotten"}
  <2>1. VerdictOf(t) # "none"
    BY ZenonT(30), <1>1, <1>2, <1>5, VerdictFacts DEF Made, Present
  <2>2. grants[t] = 0 => VerdictOf(t) \notin {"waiting", "refused", "delivered"}
    <3>1. VerdictOf(t) \in {"waiting", "refused", "delivered"} => Spent(t) <= grants[t] \/ accepted[t] >= 1
      BY <1>3, <1>5, VerdictFacts DEF Accounted
    <3>2. grants[t] = 0 => ~(Spent(t) <= grants[t]) /\ ~(accepted[t] >= 1)
      BY SMTT(30), <1>3, <1>4
    <3> QED BY <3>1, <3>2
  <2> QED BY <1>5, <2>1, <2>2, VerdictFacts DEF Ledger!Verdicts
<1>7. \A x \in TargetIds : VerdictOf(x)' = VerdictOf(x)
  BY <1>1, VerdictSame
<1>8. Ledger!Post(t)
  BY <1>1, <1>2, <1>4, <1>6, <1>7 DEF Ledger!Post, Ledger!Unsent
<1> QED BY <1>8 DEF Ledger!LedgerNext

\* Every step of the dispatcher is one of the ledger, or none it can see.
LEMMA LedgerStep ==
    ASSUME SpoolStepFacts, DispatcherInv, DispatcherInv', DispatcherNext \/ UNCHANGED vars
    PROVE  [Ledger!LedgerNext]_Ledger!ledgerVars
<1>1. SpoolInv /\ CountsInv /\ SpoolTypeOK
  BY InvFacts DEF DispatcherInv
<1>2. CASE (\E a \in Agents : FinishSend(a) /\ ~WriteFails) \/ OperatorResolves \/ \E q \in net : PlatformAccepts(q)
  BY <1>2, FinishLedger, ResolveLedger, PostLedger
<1>3. CASE StartWriter \/ StartRecovery
  <2>1. PICK limit \in Limits : Open(limit) /\ UNCHANGED accepted
    BY <1>3, DispatcherConstants DEF StartWriter, StartRecovery
  <2>2. Opened
    BY <2>1, OpenOpened
  <2> QED BY <2>1, <2>2, SpoolLedger
<1>4. ASSUME NEW w \in Workers, WorkerClaims(w) PROVE [Ledger!LedgerNext]_Ledger!ledgerVars
  <2>1. PICK e \in ready : ClaimEntry(e) /\ UNCHANGED accepted
    BY <1>4 DEF WorkerClaims
  <2>2. e.id \in TargetIds
    BY <1>1, <2>1 DEF SpoolTypeOK
  <2> QED BY <1>1, <2>1, <2>2, ClaimTaken, SpoolLedger
<1>5. CASE OperatorReplays
  <2>1. PICK t \in TargetIds : ClaimForRecovery(t) /\ UNCHANGED accepted
    BY <1>5 DEF OperatorReplays
  <2> QED BY <1>1, <2>1, RecoveryTaken, SpoolLedger
<1>6. CASE Maintenance
  BY <1>1, <1>6, PlansEffects, SpoolLedger DEF Maintenance, dispatchVars
<1>7. CASE WriterServes /\ SubmitAny
  BY <1>1, <1>7, PlansEffects, SpoolLedger DEF WriterServes, dispatchVars
<1>8. ASSUME UNCHANGED accepted,
             \/ Stop \/ WriteFails \/ DiskFails \/ DiskRecovers \/ Tick
             \/ RegisterAny \/ ControlAny \/ UNCHANGED spoolVars
      PROVE  [Ledger!LedgerNext]_Ledger!ledgerVars
  BY <1>1, <1>8, PlansEffects, SpoolLedger
<1>9. CASE \/ Crash \/ Exit \/ Terminate \/ TimePasses \/ DiskChanges \/ (WriterServes /\ ~SubmitAny)
           \/ UNCHANGED vars \/ \E q \in net : PlatformRefuses(q)
  BY <1>8, <1>9 DEF Crash, Exit, ProcessDies, Terminate, TimePasses, DiskChanges, WriterServes,
                    dispatchVars, vars, PlatformRefuses
<1>10. ASSUME NEW w \in Workers, WorkerStep(w), ~WorkerClaims(w) PROVE [Ledger!LedgerNext]_Ledger!ledgerVars
  BY <1>8, <1>10 DEF WorkerStep, LoopTop, WorkerFindsNothing, ClaimError, CheckDrained,
                     BudgetGranted, BudgetTimeout
<1>11. ASSUME NEW a \in Agents, SendStep(a), ~(FinishSend(a) /\ ~WriteFails)
       PROVE  [Ledger!LedgerNext]_Ledger!ledgerVars
  BY <1>8, <1>11 DEF SendStep, PreflightFails, Interrupted, Answered, FinishSend
<1>12. CASE \E s \in senders : SenderStep(s)
  BY <1>8, <1>12 DEF SenderStep, MarkDelivery, DoHttpRequest
<1> QED BY <1>2, <1>3, <1>4, <1>5, <1>6, <1>7, <1>9, <1>10, <1>11, <1>12 DEF DispatcherNext

=============================================================================
