---------------------------- MODULE SuccessRelay ----------------------------
(***************************************************************************)
(* The success relay of the notification manager (pkg/jevshadow/relay.go)  *)
(* and its gap journal (relay_gaps.go): senders offer a delivery after the *)
(* platform acknowledged it, one goroutine posts the offers to the         *)
(* executor, another journals the ones it could not post, and shutdown     *)
(* stops them within a budget.                                             *)
(*                                                                         *)
(* Every atomic load, store or add that another goroutine can observe is a *)
(* step of its own.  The executor is the environment: it may accept a      *)
(* request at any time after it left, also when the answer is lost.        *)
(***************************************************************************)
EXTENDS Absence, Naturals, Sequences, FiniteSets

CONSTANTS Deliveries,      \* acknowledged sends, one offer each
          Oversized,       \* those whose JSON exceeds maxSuccessBytes
          QueueCap,        \* relayCapacity
          GapCap,          \* capacity of the gap channel
          RotateAt,        \* records at which the journal is rotated
          Journal          \* journalPath is not empty

ASSUME RelayConstants ==
    /\ Oversized \subseteq Deliveries /\ Nil \notin Deliveries
    /\ QueueCap \in Nat \ {0} /\ GapCap \in Nat \ {0} /\ RotateAt \in Nat \ {0}
    /\ Journal \in BOOLEAN

VARIABLES offer,           \* where the sender of every delivery is
          closing, cancelled, incomplete,
          closer,          \* where shutdown is
          queue, gaps,
          run,             \* the relay goroutine and the delivery in its hand
          writer,          \* the gap goroutine and the gap in its hand
          counts,          \* accepted, dropped, failed, overflow, errors, pending
          journal,         \* the journal file and its predecessor
          synced,          \* gaps whose append was synced
          flying,          \* requests that left for the executor
          received         \* deliveries the executor accepted

shared == <<closing, cancelled, incomplete>>
relayVars == <<offer, shared, closer, queue, gaps, run, writer, counts, journal,
          synced, flying, received>>

Counters == {"accepted", "dropped", "failed", "overflow", "errors", "pending", "posted"}

\* Senders, goroutines and shutdown are at steps of theirs, the channels are
\* within their capacity, and no counter is decremented below zero.
RelayTypeOK ==
    /\ offer \in [Deliveries -> {"idle", "entered", "admitted", "queued",
                                 "overflow", "returned", "refused"}]
    /\ closing \in BOOLEAN /\ cancelled \in BOOLEAN /\ incomplete \in BOOLEAN
    /\ closer \in {"open", "waiting", "joining", "returned"}
    /\ queue \in Seq(Deliveries) /\ Len(queue) <= QueueCap
    /\ gaps \in Seq(Deliveries) /\ Len(gaps) <= GapCap
    /\ run \in [at : {"select", "posting", "failed", "overflow", "done"},
                draining : BOOLEAN, has : Deliveries \cup {Nil}]
    /\ writer \in [at : {"loop", "joining", "recording", "done"},
                   draining : BOOLEAN, has : Deliveries \cup {Nil}]
    /\ counts \in [Counters -> Nat]
    /\ journal \in [current : SUBSET Deliveries, previous : SUBSET Deliveries]
    /\ synced \subseteq Deliveries
    /\ flying \subseteq Deliveries /\ received \subseteq Deliveries

Waiting == [at |-> "select", draining |-> FALSE, has |-> Nil]

newRelay ==
    /\ offer = [d \in Deliveries |-> "idle"]
    /\ closing = FALSE /\ cancelled = FALSE /\ incomplete = FALSE
    /\ closer = "open" /\ queue = <<>> /\ gaps = <<>>
    /\ run = Waiting /\ writer = [Waiting EXCEPT !.at = "loop"]
    /\ counts = [c \in Counters |-> 0]
    /\ journal = [current |-> {}, previous |-> {}] /\ synced = {}
    /\ flying = {} /\ received = {}

Add(c) == counts' = [counts EXCEPT ![c] = @ + 1]
-----------------------------------------------------------------------------
(***************************************************************************)
(* offer.  The counter of offers in progress is the number of senders      *)
(* between its first and its last line.                                    *)
(***************************************************************************)
Inside == {d \in Deliveries : offer[d] \in {"entered", "admitted", "queued", "overflow"}}

EnterOffer(d) ==
    /\ offer[d] = "idle"
    /\ offer' = [offer EXCEPT ![d] = "entered"]
    /\ UNCHANGED <<shared, closer, queue, gaps, run, writer, counts, journal,
                   synced, flying, received>>

\* closing is read; a closing relay returns without a trace.
CheckClosing(d) ==
    /\ offer[d] = "entered"
    /\ offer' = [offer EXCEPT ![d] = IF closing THEN "refused" ELSE "admitted"]
    /\ UNCHANGED <<shared, closer, queue, gaps, run, writer, counts, journal,
                   synced, flying, received>>

\* gap(): enqueue the gap, or go on to count the overflow.
GapEnqueued(d) == Len(gaps) < GapCap /\ gaps' = Append(gaps, d)
GapRefused == Len(gaps) = GapCap /\ UNCHANGED gaps

\* The non-blocking select of offer.
SelectQueue(d) ==
    /\ offer[d] = "admitted"
    /\ \/ /\ Len(queue) < QueueCap
          /\ queue' = Append(queue, d)
          /\ offer' = [offer EXCEPT ![d] = "queued"]
          /\ UNCHANGED <<gaps, counts>>
       \/ /\ Len(queue) = QueueCap /\ GapEnqueued(d)
          /\ counts' = [counts EXCEPT !["dropped"] = @ + 1, !["pending"] = @ + 1]
          /\ offer' = [offer EXCEPT ![d] = "returned"]
          /\ UNCHANGED queue
       \/ /\ Len(queue) = QueueCap /\ GapRefused
          /\ Add("dropped")
          /\ offer' = [offer EXCEPT ![d] = "overflow"]
          /\ UNCHANGED queue
    /\ UNCHANGED <<shared, closer, run, writer, journal, synced, flying, received>>

ReturnOffer(d) ==
    /\ \/ offer[d] = "queued" /\ Add("accepted")
       \/ offer[d] = "overflow" /\ Add("overflow")
    /\ offer' = [offer EXCEPT ![d] = "returned"]
    /\ UNCHANGED <<shared, closer, queue, gaps, run, writer, journal, synced,
                   flying, received>>
-----------------------------------------------------------------------------
(***************************************************************************)
(* run: one delivery at a time, then the drain of what is left.            *)
(***************************************************************************)
RunUnchanged == UNCHANGED <<offer, shared, closer, writer, journal, synced>>

Dequeue ==
    /\ run.at = "select" /\ queue # <<>>
    /\ queue' = Tail(queue)
    /\ run' = [run EXCEPT !.at = IF run.draining \/ Head(queue) \in Oversized
                                 THEN "failed" ELSE "posting",
                          !.has = Head(queue)]
    /\ flying' = IF run'.at = "posting" THEN flying \cup {Head(queue)} ELSE flying
    /\ UNCHANGED <<gaps, counts, received>> /\ RunUnchanged

\* The answer is 202.
PostAccepted ==
    /\ run.at = "posting" /\ run.has \in received
    /\ Add("posted")
    /\ run' = Waiting
    /\ UNCHANGED <<queue, gaps, flying, received>> /\ RunUnchanged

\* Another status, a transport error, the timeout or the cancelled context.
PostFailed ==
    /\ run.at = "posting"
    /\ run' = [run EXCEPT !.at = "failed"]
    /\ UNCHANGED <<queue, gaps, counts, flying, received>> /\ RunUnchanged

\* failed is counted and the gap is offered to the journal.
RunGap ==
    /\ run.at = "failed"
    /\ \/ /\ GapEnqueued(run.has)
          /\ counts' = [counts EXCEPT !["failed"] = @ + 1, !["pending"] = @ + 1]
          /\ run' = [run EXCEPT !.at = "select", !.has = Nil]
       \/ /\ GapRefused
          /\ Add("failed")
          /\ run' = [run EXCEPT !.at = "overflow", !.has = Nil]
    /\ UNCHANGED <<queue, flying, received>> /\ RunUnchanged

RunOverflow ==
    /\ run.at = "overflow"
    /\ Add("overflow")
    /\ run' = [run EXCEPT !.at = "select"]
    /\ UNCHANGED <<queue, gaps, flying, received>> /\ RunUnchanged

\* ctx.Done is chosen: the deferred drain begins, and ends on an empty queue.
RunCancelled ==
    /\ run.at = "select"
    /\ \/ ~run.draining /\ cancelled /\ run' = [run EXCEPT !.draining = TRUE]
       \/ run.draining /\ queue = <<>> /\ run' = [run EXCEPT !.at = "done"]
    /\ UNCHANGED <<queue, gaps, counts, flying, received>> /\ RunUnchanged

ExecutorAccepts(d) ==
    /\ d \in flying \ received
    /\ received' = received \cup {d}
    /\ UNCHANGED <<offer, shared, closer, queue, gaps, run, writer, counts,
                   journal, synced, flying>>
-----------------------------------------------------------------------------
(***************************************************************************)
(* runGaps, recordGap and appendGap.                                       *)
(***************************************************************************)
WriterUnchanged == UNCHANGED <<offer, shared, closer, queue, run, flying, received>>

TakeGap ==
    /\ writer.at = "loop" /\ gaps # <<>>
    /\ gaps' = Tail(gaps)
    /\ writer' = [writer EXCEPT !.at = "recording", !.has = Head(gaps)]
    /\ UNCHANGED <<counts, journal, synced>> /\ WriterUnchanged

\* The append with its rotation.  An error may leave the record in the file.
Rotated(j) ==
    IF Cardinality(j.current) >= RotateAt
    THEN [current |-> {}, previous |-> j.current] ELSE j

RecordGap ==
    /\ writer.at = "recording"
    /\ \/ /\ Journal
          /\ journal' = [Rotated(journal) EXCEPT !.current = @ \cup {writer.has}]
          /\ synced' = synced \cup {writer.has}
          /\ counts' = [counts EXCEPT !["pending"] = @ - 1]
       \/ /\ Journal
          /\ journal' \in {journal, Rotated(journal),
                           [Rotated(journal) EXCEPT !.current = @ \cup {writer.has}]}
          /\ counts' = [counts EXCEPT !["pending"] = @ - 1, !["errors"] = @ + 1]
          /\ UNCHANGED synced
       \/ /\ ~Journal
          /\ counts' = [counts EXCEPT !["pending"] = @ - 1]
          /\ UNCHANGED <<journal, synced>>
    /\ writer' = [writer EXCEPT !.at = "loop", !.has = Nil]
    /\ UNCHANGED gaps /\ WriterUnchanged

\* ctx.Done is chosen, done is awaited, the rest is drained.
WriterCancelled ==
    /\ \/ /\ writer.at = "loop" /\ ~writer.draining /\ cancelled
          /\ writer' = [writer EXCEPT !.at = "joining"]
       \/ /\ writer.at = "joining" /\ run.at = "done"
          /\ writer' = [writer EXCEPT !.at = "loop", !.draining = TRUE]
       \/ /\ writer.at = "loop" /\ writer.draining /\ gaps = <<>>
          /\ writer' = [writer EXCEPT !.at = "done"]
    /\ UNCHANGED <<gaps, counts, journal, synced>> /\ WriterUnchanged
-----------------------------------------------------------------------------
(***************************************************************************)
(* shutdown.  The deadline may pass at any time after it is set.           *)
(***************************************************************************)
CloserUnchanged == UNCHANGED <<offer, queue, gaps, run, writer, counts, journal,
                               synced, flying, received>>

BeginShutdown ==
    /\ closer = "open"
    /\ closing' = TRUE /\ closer' = "waiting"
    /\ UNCHANGED <<cancelled, incomplete>> /\ CloserUnchanged

\* Mutant: shutdown cancels without waiting for the offers in progress.
NoOffersUnchecked ==
    /\ closer = "waiting"
    /\ cancelled' = TRUE /\ closer' = "joining"
    /\ UNCHANGED <<closing, incomplete>> /\ CloserUnchanged

NoOffers ==
    /\ closer = "waiting" /\ Inside = {}
    /\ cancelled' = TRUE /\ closer' = "joining"
    /\ UNCHANGED <<closing, incomplete>> /\ CloserUnchanged

Joined ==
    /\ closer = "joining" /\ writer.at = "done"
    /\ closer' = "returned"
    /\ UNCHANGED shared /\ CloserUnchanged

DeadlinePasses ==
    /\ closer \in {"waiting", "joining"}
    /\ incomplete' = TRUE /\ cancelled' = TRUE /\ closer' = "returned"
    /\ UNCHANGED closing /\ CloserUnchanged

shutdown == BeginShutdown \/ NoOffers \/ Joined \/ DeadlinePasses

Offering(d) == CheckClosing(d) \/ SelectQueue(d) \/ ReturnOffer(d)
Running == Dequeue \/ PostAccepted \/ PostFailed \/ RunGap \/ RunOverflow \/ RunCancelled
Writing == TakeGap \/ RecordGap \/ WriterCancelled

RelayNext ==
    \/ \E d \in Deliveries : EnterOffer(d) \/ Offering(d) \/ ExecutorAccepts(d)
    \/ Running \/ Writing \/ shutdown

RelaySpec == newRelay /\ [][RelayNext]_relayVars

\* The senders and shutdown are scheduled; the two relay goroutines
\* may be stuck, in a post or in a journal write.
StuckRelayFairness ==
    /\ \A d \in Deliveries : WF_relayVars(Offering(d))
    /\ WF_relayVars(NoOffers) /\ WF_relayVars(Joined)
    /\ WF_relayVars(DeadlinePasses)

\* The goroutines are scheduled as well: a post ends at its timeout; nothing is
\* assumed of the executor.
RelayFairness ==
    StuckRelayFairness /\ WF_relayVars(Running) /\ WF_relayVars(Writing)
-----------------------------------------------------------------------------
(***************************************************************************)
(* RelaySnapshot and the properties.                                       *)
(***************************************************************************)
ReconciliationComplete ==
    /\ writer.at = "done" /\ Journal
    /\ counts["overflow"] = 0 /\ counts["errors"] = 0 /\ counts["pending"] = 0
    /\ queue = <<>> /\ run.at \notin {"posting", "failed", "overflow"}
    /\ ~incomplete

\* An offer the relay admitted, in whichever order the sender, the two
\* goroutines and shutdown ran, was confirmed by the executor or is in the
\* journal once the snapshot reports reconciliation_complete.
CompleteMeansReconciled ==
    ReconciliationComplete =>
        \A d \in Deliveries :
            offer[d] \in {"idle", "entered", "refused"} \/ d \in received \cup synced

\* The counters of RelayStatus account for every delivery: what entered the
\* queue was confirmed, failed, is queued or is in the relay's hand.  A
\* sender that enqueued and has not counted yet is the only lag.
QueueAccounted ==
    counts["accepted"] + Cardinality({d \in Deliveries : offer[d] = "queued"})
        = counts["posted"] + counts["failed"] + Len(queue)
          + (IF run.at \in {"posting", "failed"} THEN 1 ELSE 0)

\* gapPending never undercounts: it covers the gaps in the channel and the
\* one being written, so a zero means that nothing waits for the journal.
PendingCoversGaps ==
    counts["pending"] = Len(gaps) + (IF writer.at = "recording" THEN 1 ELSE 0)

\* Every loss the relay admits to was journalled, overflowed or failed to be
\* written: the four reconciliation counters leave no silent loss of an
\* admitted delivery after both goroutines have stopped.
LossesAreCounted ==
    writer.at = "done" /\ ~incomplete /\ Journal =>
        counts["dropped"] + counts["failed"]
            = Cardinality(synced) + counts["overflow"] + counts["errors"]

\* Once cancelled, both goroutines stop and shutdown returns, whatever the
\* executor does: run ends its post, drains and closes done, runGaps follows.
RelayStops == cancelled ~> (writer.at = "done" /\ closer = "returned")

\* shutdown is bounded: it returns although offers may stay inside.
ShutdownReturns == closing ~> closer = "returned"

\* The hook in the senders never blocks: an offer returns although the relay
\* goroutine, the gap writer and the executor stand still.
OfferReturns ==
    \A d \in Deliveries : offer[d] = "entered" ~> offer[d] \in {"returned", "refused"}

\* "Relay loss is observable": a delivery whose offer returned is confirmed or
\* journalled when reconciliation_complete is reported.
RelayLossIsObservable ==
    ReconciliationComplete =>
        \A d \in Deliveries :
            offer[d] \in {"returned", "refused"} => d \in received \cup synced

\* Counters, queue and journal account for every delivery that the relay admitted,
\* in whichever order offers, the two goroutines and shutdown run.
RelayAccounts ==
    RelayTypeOK /\ CompleteMeansReconciled /\ QueueAccounted /\ PendingCoversGaps /\ LossesAreCounted
=============================================================================
