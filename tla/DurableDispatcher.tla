-------------------------- MODULE DurableDispatcher --------------------------
(***************************************************************************)
(* The durable dispatcher (pkg/dispatcher/durable.go) at work on the       *)
(* notification spool: the workers' loop, one frozen send with its timeout *)
(* and classification (pkg/notify/durable.go, pkg/utils/delivery.go), the  *)
(* notification platform, shutdown (pkg/store/store.go, main.go) and the   *)
(* recovery tool (cmd/notification-spool-recovery).                        *)
(*                                                                         *)
(* The platform and the network are the environment: a request in flight   *)
(* may be accepted, refused or lost at any time, also after its sender     *)
(* timed out or died, and an answer may never arrive.                      *)
(***************************************************************************)
EXTENDS NotificationSpool

CONSTANTS Workers,         \* goroutines of runDurable
          Operator,        \* the main goroutine of the recovery tool
          Mode,            \* NM_SHUTDOWN_MODE: "drain" or "handoff"
          Grace,           \* time from SIGTERM to the drain deadline
          WriterLimit,     \* MaxTargets of the notification manager
          RecoveryLimit    \* the default MaxTargets, which the tool uses

ASSUME DispatcherConstants ==
    /\ Operator \notin Workers
    /\ Mode \in {"drain", "handoff"}
    /\ Grace \in Nat
    /\ WriterLimit \in Limits /\ RecoveryLimit \in Limits

VARIABLES proc,      \* which process holds the spool
          closing,   \* AlertStore.closing
          deadline,  \* AlertStore.deadline
          agent,     \* the position of every worker and of the operator
          senders,   \* goroutines inside Notify, orphans included
          net,       \* attempts whose request travels to the platform
          replies,   \* answers travelling back
          accepted   \* cards the platform posted, by target

dispatchVars == <<proc, closing, deadline, agent, senders, net, replies, accepted>>
vars == <<spoolVars, dispatchVars>>

Agents == Workers \cup {Operator}
Claims == [target : TargetIds, owner : 1..MaxOpens, attempt : 1..MaxAttempts]
NoClaim == [target |-> NoTarget, owner |-> 0, attempt |-> 0]

\* "confirmed" is HTTP 200 with code 0; "refused" an explicit platform code
\* or HTTP 429, 401, 403; "invalid" HTTP 400, 404, 405, 410, 413, 422;
\* "failed" anything else: HTTP 5xx, a broken body, a transport error.
Answers == {"confirmed", "refused", "invalid", "failed"}
Results == Answers \cup {"none", "presend"}

Phases == {"off", "loop", "claiming", "checking", "budget", "sending",
           "finish", "exited"}

\* Processes, claims, senders and messages are what their steps make them.
DispatcherTypeOK ==
    /\ SpoolTypeOK
    /\ proc \in {"none", "writer", "recovery"}
    /\ closing \in BOOLEAN
    /\ deadline \in Nat
    /\ agent \in [Agents -> [phase : Phases, claim : Claims \cup {NoClaim},
                             result : Results, saw : BOOLEAN]]
    /\ senders \subseteq [claim : Claims, live : BOOLEAN,
                          stage : {"preflight", "marked", "sent"}]
    /\ net \subseteq Claims
    /\ replies \subseteq [claim : Claims, answer : Answers]
    /\ accepted \in [TargetIds -> Nat]

At(phase) == [phase |-> phase, claim |-> NoClaim, result |-> "none", saw |-> FALSE]

DispatcherInit ==
    /\ SpoolInit
    /\ proc = "none" /\ closing = FALSE /\ deadline = 0
    /\ agent = [a \in Agents |-> At("off")]
    /\ senders = {} /\ net = {} /\ replies = {}
    /\ accepted = [t \in TargetIds |-> 0]

Move(a, state) == agent' = [agent EXCEPT ![a] = state]
-----------------------------------------------------------------------------
(***************************************************************************)
(* Processes.                                                              *)
(***************************************************************************)
StartWriter ==
    /\ proc = "none"
    /\ Open(WriterLimit)
    /\ proc' = "writer" /\ closing' = FALSE /\ deadline' = 0
    /\ agent' = [a \in Agents |-> At(IF a \in Workers THEN "loop" ELSE "off")]
    /\ UNCHANGED <<senders, net, replies, accepted>>

StartRecovery ==
    /\ proc = "none"
    /\ Open(RecoveryLimit)
    /\ proc' = "recovery" /\ closing' = FALSE /\ deadline' = 0
    /\ agent' = [a \in Agents |-> At(IF a = Operator THEN "loop" ELSE "off")]
    /\ UNCHANGED <<senders, net, replies, accepted>>

\* Memory is lost; a request that left is not called back.
ProcessDies ==
    /\ Stop
    /\ proc' = "none" /\ closing' = FALSE /\ deadline' = 0
    /\ agent' = [a \in Agents |-> At("off")]
    /\ senders' = {} /\ replies' = {}
    /\ UNCHANGED <<net, accepted>>

Crash == proc # "none" /\ ProcessDies

\* SIGTERM: AlertStore.Close.  Bound: the deadline lies within MaxTime.
Terminate ==
    /\ proc = "writer" /\ ~closing
    /\ now + Grace <= MaxTime
    /\ closing' = TRUE /\ deadline' = now + Grace
    /\ UNCHANGED <<spoolVars, proc, agent, senders, net, replies, accepted>>

\* wg.Wait returns, Run returns, Main returns through FinalClose.
Exit ==
    \/ /\ proc = "writer"
       /\ \A w \in Workers : agent[w].phase = "exited"
       /\ ProcessDies
    \/ /\ proc = "recovery" /\ agent[Operator].phase = "exited"
       /\ ProcessDies
-----------------------------------------------------------------------------
(***************************************************************************)
(* The loop of durableWorker.  ShutdownState, Claim and Status are three   *)
(* separate reads.                                                         *)
(***************************************************************************)

\* Mutant: a draining worker does not look at the deadline.
LoopTopUntilDrained(w) ==
    /\ agent[w].phase = "loop"
    /\ IF closing /\ Mode = "handoff"
       THEN Move(w, At("exited"))
       ELSE Move(w, [At("claiming") EXCEPT !.saw = closing])
    /\ UNCHANGED <<spoolVars, proc, closing, deadline, senders, net, replies,
                   accepted>>

LoopTop(w) ==
    /\ agent[w].phase = "loop"
    /\ IF closing /\ (Mode = "handoff" \/ now >= deadline)
       THEN Move(w, At("exited"))
       ELSE Move(w, [At("claiming") EXCEPT !.saw = closing])
    /\ UNCHANGED <<spoolVars, proc, closing, deadline, senders, net, replies,
                   accepted>>

ClaimOf(t) ==
    [target |-> t, owner |-> handle.owner, attempt |-> targets[t].attempts + 1]

WorkerClaims(w) ==
    /\ agent[w].phase = "claiming"
    /\ \E e \in ready : /\ ClaimEntry(e)
                        /\ Move(w, [At("budget") EXCEPT !.claim = ClaimOf(e.id)])
    /\ UNCHANGED <<proc, closing, deadline, senders, net, replies, accepted>>

\* ErrEmpty: every due entry is skipped as paused.
NothingToClaim ==
    \A e \in ready : e.at <= now =>
      DecodedValid(e) /\ DeliveryPaused(DecodedProfile(e))

WorkerFindsNothing(w) ==
    /\ agent[w].phase = "claiming"
    /\ NothingToClaim
    /\ Move(w, At(IF agent[w].saw THEN "checking" ELSE "loop"))
    /\ UNCHANGED <<spoolVars, proc, closing, deadline, senders, net, replies,
                   accepted>>

\* Any other error of Claim: an invalid frozen profile, or a failed commit.
ClaimError(w) ==
    /\ agent[w].phase = "claiming"
    /\ \/ /\ \E e \in ready :
               /\ e.at <= now /\ ~DecodedValid(e)
               /\ \A f \in ready : Precedes(f, e) =>
                    DecodedValid(f) /\ DeliveryPaused(DecodedProfile(f))
          /\ UNCHANGED spoolVars
       \/ (\E e \in ready : Claimable(e)) /\ WriteFails
    /\ Move(w, At("loop"))
    /\ UNCHANGED <<proc, closing, deadline, senders, net, replies, accepted>>

\* While draining, an idle worker leaves once nothing is left to send.
CheckDrained(w) ==
    /\ agent[w].phase = "checking"
    /\ IF \A t \in TargetIds :
            targets[t].state \notin {"pending", "retryable", "sending"}
       THEN Move(w, At("exited"))
       ELSE Move(w, At("loop"))
    /\ UNCHANGED <<spoolVars, proc, closing, deadline, senders, net, replies,
                   accepted>>
-----------------------------------------------------------------------------
(***************************************************************************)
(* One send.  Notify runs the request in a goroutine of its own and waits  *)
(* for it or for the end of the context.  markDelivery precedes client.Do, *)
(* which sends nothing once the context has ended (live = FALSE).          *)
(***************************************************************************)
Sender(a) == CHOOSE s \in senders : s.claim = agent[a].claim /\ s.live
Launch(c) == senders' = senders \cup {[claim |-> c, live |-> TRUE,
                                       stage |-> "preflight"]}
Ends(a, result) ==
    Move(a, [agent[a] EXCEPT !.phase = "finish", !.result = result])

\* Bound: only an attempt that may be followed by another ends retryable.
MayRetry(a) == agent[a].claim.attempt < MaxAttempts

\* waitSendBudget: a reservation, or the context ends first.
BudgetGranted(w) ==
    /\ agent[w].phase = "budget"
    /\ Launch(agent[w].claim)
    /\ Move(w, [agent[w] EXCEPT !.phase = "sending"])
    /\ UNCHANGED <<spoolVars, proc, closing, deadline, net, replies, accepted>>

BudgetTimeout(w) ==
    /\ agent[w].phase = "budget" /\ MayRetry(w)
    /\ Ends(w, "presend")
    /\ UNCHANGED <<spoolVars, proc, closing, deadline, senders, net, replies,
                   accepted>>

\* A frozen profile, credential or token that is not usable right now.
PreflightFails(a) ==
    /\ agent[a].phase = "sending" /\ MayRetry(a)
    /\ Sender(a).stage = "preflight"
    /\ senders' = senders \ {Sender(a)}
    /\ Ends(a, "presend")
    /\ UNCHANGED <<spoolVars, proc, closing, deadline, net, replies, accepted>>

MarkDelivery(s) ==
    /\ s.stage = "preflight"
    /\ senders' = (senders \ {s}) \cup {[s EXCEPT !.stage = "marked"]}
    /\ UNCHANGED <<spoolVars, proc, closing, deadline, agent, net, replies,
                   accepted>>

\* Mutant: the request does not carry the context of the send.
DoHttpRequestDetached(s) ==
    /\ s.stage = "marked"
    /\ net' = net \cup {s.claim}
    /\ senders' = (senders \ {s}) \cup {[s EXCEPT !.stage = "sent"]}
    /\ UNCHANGED <<spoolVars, proc, closing, deadline, agent, replies, accepted>>

DoHttpRequest(s) ==
    /\ s.stage = "marked"
    /\ IF s.live
       THEN /\ net' = net \cup {s.claim}
            /\ senders' = (senders \ {s}) \cup {[s EXCEPT !.stage = "sent"]}
       ELSE /\ net' = net
            /\ senders' = senders \ {s}
    /\ UNCHANGED <<spoolVars, proc, closing, deadline, agent, replies, accepted>>

\* The context ends, or the connection breaks.  SendFrozen turns the error
\* into a PreSendError unless delivery was marked as started.
Interrupted(a) ==
    /\ agent[a].phase = "sending"
    /\ Sender(a).stage = "preflight" => MayRetry(a)
    /\ Ends(a, IF Sender(a).stage = "preflight" THEN "presend" ELSE "failed")
    /\ senders' = (senders \ {Sender(a)}) \cup
         (IF Sender(a).stage = "sent" THEN {}
          ELSE {[Sender(a) EXCEPT !.live = FALSE]})
    /\ UNCHANGED <<spoolVars, proc, closing, deadline, net, replies, accepted>>

Answered(a) ==
    /\ agent[a].phase = "sending"
    /\ \E r \in replies :
         /\ r.claim = agent[a].claim
         /\ Ends(a, r.answer)
         /\ replies' = replies \ {r}
    /\ senders' = senders \ {Sender(a)}
    /\ UNCHANGED <<spoolVars, proc, closing, deadline, net, accepted>>

\* Mutant: every transport error may be retried.
DeliveryOutcomeRetries(result) ==
    CASE result = "confirmed" -> "delivered"
      [] result = "invalid"   -> "dead_letter"
      [] OTHER                -> "retryable"

\* DeliveryOutcome.
DeliveryOutcome(result) ==
    CASE result = "confirmed"              -> "delivered"
      [] result \in {"presend", "refused"} -> "retryable"
      [] result = "invalid"                -> "dead_letter"
      [] OTHER                             -> "unknown"

\* A completion that cannot be stored is dropped, never retried.
FinishSend(a) ==
    /\ agent[a].phase = "finish"
    /\ \/ Finish(agent[a].claim, DeliveryOutcome(agent[a].result), now + RetryDelay)
       \/ WriteFails
    /\ Move(a, At(IF a = Operator THEN "exited" ELSE "loop"))
    /\ UNCHANGED <<proc, closing, deadline, senders, net, replies, accepted>>
-----------------------------------------------------------------------------
(***************************************************************************)
(* The platform (external).                                                *)
(***************************************************************************)
Awaited(q) == \E s \in senders : s.claim = q /\ s.stage = "sent"

\* The answer reaches the sender if it still waits, or is lost.
Replying(q, answers) ==
    \/ replies' = replies
    \/ /\ Awaited(q)
       /\ \E x \in answers : replies' = replies \cup {[claim |-> q, answer |-> x]}

PlatformAccepts(q) ==
    /\ net' = net \ {q}
    /\ accepted' = [accepted EXCEPT ![q.target] = @ + 1]
    /\ Replying(q, {"confirmed", "failed"})
    /\ UNCHANGED <<spoolVars, proc, closing, deadline, agent, senders>>

\* A refusal proves that no card was posted.
PlatformRefuses(q) ==
    /\ net' = net \ {q}
    /\ Replying(q, {"invalid", "failed"} \cup
                   (IF q.attempt < MaxAttempts THEN {"refused"} ELSE {}))
    /\ UNCHANGED <<spoolVars, proc, closing, deadline, agent, senders, accepted>>
-----------------------------------------------------------------------------
(***************************************************************************)
(* The recovery tool: one audited decision, or one exact replay, per run.  *)
(***************************************************************************)
OperatorResolves ==
    /\ agent[Operator].phase = "loop"
    /\ \E t \in TargetIds, state \in Completions \ {"unknown"} :
         /\ state = "retryable" => targets[t].attempts < MaxAttempts
         /\ Resolve(t, state)
    /\ Move(Operator, At("exited"))
    /\ UNCHANGED <<proc, closing, deadline, senders, net, replies, accepted>>

OperatorReplays ==
    /\ agent[Operator].phase = "loop"
    /\ \E t \in TargetIds :
         /\ ClaimForRecovery(t)
         /\ Move(Operator, [At("sending") EXCEPT !.claim = ClaimOf(t)])
         /\ Launch(ClaimOf(t))
    /\ UNCHANGED <<proc, closing, deadline, net, replies, accepted>>
-----------------------------------------------------------------------------
\* Intake and profile control of the running manager.
WriterServes ==
    /\ proc = "writer"
    /\ SubmitAny \/ RegisterAny \/ ControlAny \/ WriteFails
    /\ UNCHANGED dispatchVars

\* The maintenance ticker of runDurable.
Maintenance == proc = "writer" /\ CleanupCompleted /\ UNCHANGED dispatchVars

TimePasses == Tick /\ UNCHANGED dispatchVars

DiskChanges == (DiskFails \/ DiskRecovers) /\ UNCHANGED dispatchVars

WorkerStep(w) ==
    \/ LoopTop(w) \/ WorkerClaims(w) \/ WorkerFindsNothing(w) \/ ClaimError(w)
    \/ CheckDrained(w) \/ BudgetGranted(w) \/ BudgetTimeout(w)

SendStep(a) == PreflightFails(a) \/ Interrupted(a) \/ Answered(a) \/ FinishSend(a)

SenderStep(s) == MarkDelivery(s) \/ DoHttpRequest(s)

DispatcherNext ==
    \/ StartWriter \/ StartRecovery \/ Crash \/ Terminate \/ Exit
    \/ \E w \in Workers : WorkerStep(w)
    \/ \E a \in Agents : SendStep(a)
    \/ \E s \in senders : SenderStep(s)
    \/ \E q \in net : PlatformAccepts(q) \/ PlatformRefuses(q)
    \/ OperatorResolves \/ OperatorReplays
    \/ WriterServes \/ Maintenance \/ TimePasses \/ DiskChanges

DispatcherSpec == DispatcherInit /\ [][DispatcherNext]_vars
-----------------------------------------------------------------------------
(***************************************************************************)
(* Properties.                                                             *)
(***************************************************************************)
\* A target gets at most one card, plus one for every time an operator sent
\* it back to be retried: no crash, timeout, lost answer, failed completion
\* or late acceptance makes the manager send a card again on its own.  What the
\* ledger offers for another send, or calls refused, was not posted and cannot
\* be posted any more by an attempt that is under way.
AtMostOnce ==
    \A t \in TargetIds :
      /\ accepted[t] <= 1 + grants[t]
      /\ \/ Due(targets[t].state)
         \/ targets[t].state = "dead_letter" /\ targets[t].outcome = "platform"
         => accepted[t] + Cardinality({q \in net : q.target = t}) <= grants[t]

\* A worker that holds a claim owns the row it will finish: no other attempt
\* or owner took the row over meanwhile, so ErrFence never drops an outcome.
ClaimsStayValid ==
    /\ DispatcherTypeOK
    /\ \A a \in Agents :
         agent[a].phase \in {"budget", "sending", "finish"} =>
           LET row == targets[agent[a].claim.target]
           IN  /\ row.state = "sending"
               /\ row.owner = agent[a].claim.owner /\ row.owner = handle.owner
               /\ row.attempt = agent[a].claim.attempt

\* The attempts on targets of lane l that may still post a card.
InFlight(l) ==
    {c \in Claims :
       /\ targets[c.target].profile # NoProfile
       /\ targets[c.target].profile.lane = l
       /\ \/ \E a \in Agents : agent[a].claim = c
          \/ \E x \in senders : x.claim = c /\ x.live
          \/ c \in net}

\* Pausing a lane makes it fall silent: whatever the workers, the recovery tool
\* and restarts do, the attempts in flight for a paused lane only get fewer.
PauseQuiesces ==
    [][\A l \in Lanes : pstate[l].paused /\ pstate'[l].paused =>
         InFlight(l)' \subseteq InFlight(l)]_vars

\* Goroutines are scheduled, tickers fire, time passes, and every send ends:
\* Notify returns at the latest when its context does.
DispatcherFairSpec ==
    /\ DispatcherSpec
    /\ \A w \in Workers : WF_vars(WorkerStep(w)) /\ WF_vars(SendStep(w))
    /\ WF_vars(\E s \in senders : SenderStep(s))
    /\ WF_vars(Exit)
    /\ WF_vars(Maintenance) /\ WF_vars(TimePasses)

\* A terminating manager always stops and releases the spool to its successor,
\* even when work is left that it can never send: history whose originals are
\* dead, a paused lane, or a target left Sending by a failed completion.
ShutdownCompletes == closing ~> proc = "none"

\* A storage outage signal clears by itself once the disk accepts writes, even
\* on a replica that gets no more intake because it is not ready: the periodic
\* cleanup commits, and a commit clears the error.
OutageClears == <>[](proc = "writer" /\ disk) => <>[](handle.healthy)
=============================================================================
