---------------------------- MODULE ReceiptOutbox ----------------------------
(***************************************************************************)
(* The receipt outbox of the executor (pkg/jevshadow/receipt_outbox.go):   *)
(* receipts are files that move from pending/ to completed/ or             *)
(* dead-letter/, one goroutine delivers them to Jev (postDeliveryReceipt   *)
(* and postObservation, observation.go), shutdown drains what is left.     *)
(*                                                                         *)
(* A receipt stands for its envelope ID.  record is what a process sees of *)
(* its files, disk what a power loss leaves: a rename reaches disk when    *)
(* its directory is synced.  A backoff is a flag that elapses; the worker  *)
(* takes any due receipt, which covers the order by next attempt.  Jev is  *)
(* the environment: it may accept a request whose answer is lost.          *)
(***************************************************************************)
EXTENDS Absence, Naturals, FiniteSets

CONSTANTS Receipts,
          Observed,        \* receipts of the production environment
          MaxAttempts,     \* ReceiptMaxAttempts
          Capacity,        \* records the three directories may hold
          MaxFaults,       \* bound: file operations that fail
          MaxCrashes,      \* bound: process deaths, shutdowns included
          PowerLoss        \* a crash may also lose unsynced renames

ASSUME OutboxConstants ==
    /\ Nil \notin Receipts /\ Observed \subseteq Receipts
    /\ MaxAttempts \in Nat \ {0} /\ Capacity \in Nat
    /\ MaxFaults \in Nat /\ MaxCrashes \in Nat /\ PowerLoss \in BOOLEAN

VARIABLES record, disk,    \* directory and attempts of every receipt
          due,             \* NextAttemptAt has passed
          enqueued,        \* receipts whose Enqueue returned nil
          worker,          \* the goroutine run, with the envelope in its hand
          stopping,
          jev,             \* what Jev accepted
          outboxFaults, outboxCrashes

outboxVars == <<record, disk, due, enqueued, worker, stopping, jev, outboxFaults,
                outboxCrashes>>

Places == {"absent", "pending", "completed", "dead"}
Record == [at : Places, attempts : 0..(MaxAttempts + MaxFaults + MaxCrashes + 1)]
Absent == [at |-> "absent", attempts |-> 0]
Steps == {"off", "scan", "observe", "post", "remove", "judge", "bury", "unlink",
          "keep", "sync", "done"}

\* Directory and attempts of every receipt, the step of the worker, what Jev got.
OutboxTypeOK ==
    /\ record \in [Receipts -> Record] /\ disk \in [Receipts -> Record]
    /\ due \subseteq Receipts /\ enqueued \subseteq Receipts
    /\ worker \in [at : Steps, has : Receipts \cup {Nil}, permanent : BOOLEAN,
                   draining : BOOLEAN, todo : SUBSET Receipts]
    /\ stopping \in BOOLEAN
    /\ jev \in [observations : SUBSET Receipts, receipts : SUBSET Receipts]
    /\ outboxFaults \in 0..MaxFaults /\ outboxCrashes \in 0..MaxCrashes

Stopped == [at |-> "off", has |-> Nil, permanent |-> FALSE, draining |-> FALSE, todo |-> {}]

OutboxInit ==
    /\ record = [r \in Receipts |-> Absent] /\ disk = record
    /\ due = {} /\ enqueued = {} /\ worker = Stopped /\ stopping = FALSE
    /\ jev = [observations |-> {}, receipts |-> {}]
    /\ outboxFaults = 0 /\ outboxCrashes = 0

At(place) == {r \in Receipts : record[r].at = place}
Fault == outboxFaults < MaxFaults /\ outboxFaults' = outboxFaults + 1
NoFault == UNCHANGED outboxFaults
Goto(step) == worker' = [worker EXCEPT !.at = step]
Rest == worker' = [worker EXCEPT !.at = "scan", !.has = Nil, !.permanent = FALSE]
Recorded == At("pending") \cup At("completed") \cup At("dead")
-----------------------------------------------------------------------------
(***************************************************************************)
(* The process.                                                            *)
(***************************************************************************)
newReceiptOutbox ==
    /\ worker.at = "off"
    /\ worker' = [Stopped EXCEPT !.at = "scan"] /\ stopping' = FALSE
    /\ due' = At("pending")
    /\ UNCHANGED <<record, disk, enqueued, jev, outboxFaults, outboxCrashes>>

Crash ==
    /\ worker.at # "off" /\ outboxCrashes < MaxCrashes
    /\ outboxCrashes' = outboxCrashes + 1
    /\ worker' = Stopped /\ stopping' = FALSE /\ due' = {}
    /\ record' \in IF PowerLoss
                 THEN {[r \in Receipts |-> IF r \in lost THEN disk[r] ELSE record[r]] :
                         lost \in SUBSET Receipts}
                 ELSE {record}
    /\ disk' = record'
    /\ UNCHANGED <<enqueued, jev, outboxFaults>>

Close ==
    /\ worker.at \notin {"off", "done"} /\ ~stopping
    /\ stopping' = TRUE
    /\ UNCHANGED <<record, disk, due, enqueued, worker, jev, outboxFaults, outboxCrashes>>

\* The drained process exits.
Exit ==
    /\ worker.at = "done" /\ outboxCrashes < MaxCrashes
    /\ outboxCrashes' = outboxCrashes + 1
    /\ worker' = Stopped /\ stopping' = FALSE /\ due' = {}
    /\ UNCHANGED <<record, disk, enqueued, jev, outboxFaults>>
-----------------------------------------------------------------------------
(***************************************************************************)
(* Enqueue.  The mutex makes it one step; the write may fail before the    *)
(* rename, or after it, in the sync of the directory.                      *)
(***************************************************************************)
EnqueueUnchanged == UNCHANGED <<worker, stopping, jev, outboxCrashes>>

\* Mutant: a completed receipt is not recognised.
KnownPending(r) == record[r].at = "pending"

Known(r) == record[r].at \in {"pending", "completed"}

Enqueue(r) ==
    /\ worker.at # "off" /\ ~stopping
    /\ \/ /\ Known(r)
          /\ enqueued' = enqueued \cup {r}
          /\ UNCHANGED <<record, disk, due>> /\ NoFault
       \/ /\ ~Known(r) /\ record[r].at # "dead"
          /\ Cardinality(Recorded) < Capacity
          /\ record' = [record EXCEPT ![r] = [at |-> "pending", attempts |-> 0]]
          /\ due' = due \cup {r}
          /\ \/ disk' = [disk EXCEPT ![r] = record'[r]] /\ enqueued' = enqueued \cup {r} /\ NoFault
             \/ UNCHANGED <<disk, enqueued>> /\ Fault
    /\ EnqueueUnchanged
-----------------------------------------------------------------------------
(***************************************************************************)
(* run, processNext and drainPending.                                      *)
(***************************************************************************)
WorkerOnly == UNCHANGED <<enqueued, stopping, outboxCrashes>>

\* nextEnvelope and the choice of processNext.
TakeDue(r) ==
    /\ worker.at = "scan" /\ ~worker.draining /\ ~stopping
    /\ r \in due /\ record[r].at = "pending"
    /\ worker' = [worker EXCEPT !.at = "observe", !.has = r]
    /\ UNCHANGED <<record, disk, due, jev, outboxFaults>> /\ WorkerOnly

\* A scan that cannot read an entry quarantines it as corrupt.
Quarantine(r) ==
    /\ worker.at = "scan" /\ record[r].at = "pending"
    /\ ~worker.draining \/ r \in worker.todo
    /\ Fault
    /\ \/ /\ record' = [record EXCEPT ![r].at = "dead"]
          /\ disk' \in {disk, [disk EXCEPT ![r] = record'[r]]}
       \/ UNCHANGED <<record, disk>>
    /\ worker' = [worker EXCEPT !.todo = @ \ {r}]
    /\ UNCHANGED <<due, jev>> /\ WorkerOnly

BackoffElapses(r) ==
    /\ worker.at # "off" /\ record[r].at = "pending" /\ r \notin due
    /\ due' = due \cup {r}
    /\ UNCHANGED <<record, disk, enqueued, worker, stopping, jev, outboxFaults, outboxCrashes>>

StartDrain ==
    /\ worker.at = "scan" /\ ~worker.draining /\ stopping
    /\ worker' = [worker EXCEPT !.draining = TRUE, !.todo = At("pending")]
    /\ UNCHANGED <<record, disk, due, jev, outboxFaults>> /\ WorkerOnly

\* The drain takes every entry once, due or not; its deadline may pass.
DrainNext ==
    /\ worker.at = "scan" /\ worker.draining
    /\ \/ \E r \in worker.todo :
             worker' = [worker EXCEPT !.at = "observe", !.has = r, !.todo = @ \ {r}]
       \/ Goto("done")
    /\ UNCHANGED <<record, disk, due, jev, outboxFaults>> /\ WorkerOnly
-----------------------------------------------------------------------------
(***************************************************************************)
(* postDeliveryReceipt.  An answer is 2xx, a status that may be retried    *)
(* (with a transport error and a timeout), or a permanent one.             *)
(***************************************************************************)
Failed(permanent) ==
    worker' = [worker EXCEPT !.at = "judge", !.permanent = permanent]

PostObservation ==
    /\ worker.at = "observe"
    /\ \/ /\ worker.has \in Observed
          /\ jev' = [jev EXCEPT !.observations = @ \cup {worker.has}]
          /\ Goto("post") \/ Failed(FALSE)
       \/ worker.has \in Observed /\ UNCHANGED jev /\ (Failed(FALSE) \/ Failed(TRUE))
       \/ worker.has \notin Observed /\ Goto("post") /\ UNCHANGED jev
    /\ UNCHANGED <<record, disk, due, outboxFaults>> /\ WorkerOnly

PostReceipt ==
    /\ worker.at = "post"
    /\ \/ /\ jev' = [jev EXCEPT !.receipts = @ \cup {worker.has}]
          /\ Goto("remove") \/ Failed(FALSE)
       \/ UNCHANGED jev /\ (Failed(FALSE) \/ Failed(TRUE))
    /\ UNCHANGED <<record, disk, due, outboxFaults>> /\ WorkerOnly
-----------------------------------------------------------------------------
(***************************************************************************)
(* deliverEnvelope after the delivery.                                     *)
(***************************************************************************)
\* Mutant: the delivered entry is deleted.
MovedAway(r, place) ==
    [record EXCEPT ![r].at = IF place = "completed" THEN "absent" ELSE place]

Moved(r, place) == [record EXCEPT ![r].at = place]

\* removePending: the rename, whose failure leaves the entry due.
RemovePending ==
    /\ worker.at = "remove"
    /\ \/ /\ record' = Moved(worker.has, "completed") /\ Goto("sync")
          /\ UNCHANGED outboxFaults
       \/ Fault /\ Rest /\ UNCHANGED record
    /\ UNCHANGED <<disk, due, jev>> /\ WorkerOnly

\* Attempts++ and the decision between retry and dead letter.
Judge ==
    /\ worker.at = "judge"
    /\ IF worker.permanent \/ record[worker.has].attempts + 1 >= MaxAttempts
       THEN Goto("bury") ELSE Goto("keep")
    /\ UNCHANGED <<record, disk, due, jev, outboxFaults>> /\ WorkerOnly

Attempted == [record EXCEPT ![worker.has].attempts = @ + 1]

\* replacePending with the backoff of retryDelay.
KeepPending ==
    /\ worker.at = "keep"
    /\ \/ /\ record' = Attempted /\ disk' = [disk EXCEPT ![worker.has] = record'[worker.has]]
          /\ due' = due \ {worker.has} /\ NoFault
       \/ /\ Fault
          /\ \/ UNCHANGED <<record, due>>
             \/ record' = Attempted /\ due' = due \ {worker.has}
          /\ UNCHANGED disk
    /\ Rest
    /\ UNCHANGED jev /\ WorkerOnly

\* moveToDeadLetter: the envelope is rewritten in place, then renamed.
Bury ==
    /\ worker.at = "bury"
    /\ \/ /\ record' = Attempted /\ disk' = [disk EXCEPT ![worker.has] = record'[worker.has]]
          /\ Goto("unlink") /\ NoFault
       \/ /\ Fault /\ Rest
          /\ record' \in {record, Attempted} /\ UNCHANGED disk
    /\ UNCHANGED <<due, jev>> /\ WorkerOnly

Unlink ==
    /\ worker.at = "unlink"
    /\ \/ record' = Moved(worker.has, "dead") /\ Goto("sync") /\ NoFault
       \/ Fault /\ Rest /\ UNCHANGED record
    /\ UNCHANGED <<disk, due, jev>> /\ WorkerOnly

\* The two directories are synced; an error is logged.
SyncDirectories ==
    /\ worker.at = "sync" /\ Rest
    /\ \/ disk' = [disk EXCEPT ![worker.has] = record[worker.has]] /\ NoFault
       \/ Fault /\ UNCHANGED disk
    /\ UNCHANGED <<record, due, jev>> /\ WorkerOnly

Delivering == PostObservation \/ PostReceipt \/ RemovePending \/ Judge
              \/ KeepPending \/ Bury \/ Unlink \/ SyncDirectories
Working == Delivering \/ StartDrain \/ DrainNext \/ \E r \in Receipts : TakeDue(r)

OutboxNext ==
    \/ newReceiptOutbox \/ Crash \/ Close \/ Exit \/ Working
    \/ \E r \in Receipts : Enqueue(r) \/ Quarantine(r) \/ BackoffElapses(r)

OutboxSpec == OutboxInit /\ [][OutboxNext]_outboxVars

\* The goroutine is scheduled, timers fire and the executor is restarted.
OutboxFairness ==
    /\ WF_outboxVars(newReceiptOutbox) /\ WF_outboxVars(Working)
    /\ WF_outboxVars(Exit)
    /\ \A r \in Receipts : WF_outboxVars(BackoffElapses(r))
-----------------------------------------------------------------------------
\* A receipt whose Enqueue returned nil, on which the executor answered 202,
\* is in one of the directories, through every failed write, rename, restart
\* and drain.
AckedIsKept == \A r \in enqueued : record[r].at # "absent"

\* completed/ holds only what Jev accepted, its observation included: no
\* failed rename, retry or drain turns another outcome into a completion.
CompletedWasAccepted ==
    \A r \in At("completed") :
        r \in jev.receipts /\ (r \in Observed => r \in jev.observations)

\* Jev never holds the receipt of a delivery it has not observed.
ObservedBeforeReceipt == jev.receipts \cap Observed \subseteq jev.observations

\* A pending entry has been tried fewer than MaxAttempts times, except when a
\* failure or a crash fell between the two steps of moveToDeadLetter.
AttemptsBounded ==
    \A r \in Receipts :
        record[r].attempts <= MaxAttempts + outboxFaults + outboxCrashes
        /\ (outboxFaults = 0 /\ outboxCrashes = 0 /\ worker.has # r /\ record[r].at = "pending"
              => record[r].attempts < MaxAttempts)

\* Completed and dead-lettered receipts are final: no later capture, scan,
\* drain or restart brings them back, so a confirmed receipt is never re-sent.
TerminalIsFinal ==
    [][\A r \in Receipts :
          record[r].at \in {"completed", "dead"} =>
              record'[r].at = record[r].at /\ (worker'.has = r => worker.has = r)]_outboxVars

\* Every receipt the outbox acknowledged is completed or dead-lettered in the
\* end, unless the executor is closed for good.
EveryReceiptSettles ==
    \A r \in Receipts :
        r \in enqueued ~> (record[r].at \in {"completed", "dead"} \/ worker.at = "done")

\* Close returns: the drain tries every entry at most once.
CloseReturns == stopping ~> (worker.at \in {"done", "off"})

\* "The adapter atomically persists the receipt before returning": a receipt
\* whose Enqueue returned nil survives a power loss.
AckedIsDurable == \A r \in enqueued : disk[r].at # "absent"

\* Through failed writes, crashes and drains, an acknowledged receipt stays in a
\* directory, and the directory says what Jev really accepted.
ReceiptsAreKept ==
    OutboxTypeOK /\ AckedIsKept /\ CompletedWasAccepted /\ ObservedBeforeReceipt /\ AttemptsBounded
=============================================================================
