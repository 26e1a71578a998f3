--------------------------- MODULE Manager_proofs ---------------------------
(***************************************************************************)
(* What the notification manager keeps beside its pipeline: the relay that *)
(* reports successful deliveries, the controller with its receivers and    *)
(* configs, and the delivery ledger, the abstract specification of what    *)
(* the durable store promises.  Every part has an inductive invariant, and *)
(* theorems for any values of its constants.                               *)
(***************************************************************************)
EXTENDS SuccessRelay, ConfigController, DeliveryLedger, FiniteSetTheorems, TLAPS

\* Zenon is asked first; a leaf that needs arithmetic, records or many cases cites SMT.
USE Zenon

-----------------------------------------------------------------------------
(***************************************************************************)
(* SuccessRelay.  The inductive invariant says where a delivery is.  The   *)
(* two goroutines hold a delivery exactly at their steps that work on one  *)
(* (HandsInv); what shutdown cancelled, and what a goroutine drained,      *)
(* stays empty (ShutdownInv); a delivery is in one place at most, the      *)
(* queue, the relay's hand, the gap channel, the writer's hand or the      *)
(* journal (PlacesInv); an offered delivery is in such a place, or was     *)
(* confirmed, or a loss is visible in the counters (FoundInv); and the     *)
(* counters are exact up to the one step in which somebody is about to     *)
(* count (CountsInv).                                                      *)
(***************************************************************************)
\* A delivery is in a channel; a channel holds no delivery twice.
In(s, d) == \E i \in 1..Len(s) : s[i] = d
Once(s) == \A i, j \in 1..Len(s) : s[i] = s[j] => i = j

\* The goroutines have a delivery in hand exactly while they post, drop or
\* record it.
HandsInv ==
    /\ run.at \in {"posting", "failed"} <=> run.has # Nil
    /\ writer.at = "recording" <=> writer.has # Nil

\* What the steps of shutdown, of the relay goroutine and of the gap goroutine
\* leave behind.
ShutdownInv ==
    /\ closing <=> closer # "open"
    /\ cancelled => closer \in {"joining", "returned"}
    /\ incomplete => closer = "returned"
    /\ cancelled /\ ~incomplete =>
         \A d \in Deliveries : offer[d] \notin {"admitted", "queued", "overflow"}
    /\ run.draining \/ run.at = "done" => cancelled
    /\ run.at = "done" /\ ~incomplete => queue = <<>>
    /\ writer.draining \/ writer.at \in {"joining", "done"} => cancelled
    /\ writer.draining => run.at = "done"
    /\ writer.at = "done" => writer.draining
    /\ writer.at = "done" /\ ~incomplete => gaps = <<>>

\* A delivery is in one place at most, and is somewhere only once it was offered.
PlacesInv ==
    /\ Once(queue) /\ Once(gaps)
    /\ \A d \in Deliveries :
         /\ In(queue, d) => run.has # d /\ ~In(gaps, d) /\ writer.has # d /\ d \notin synced
         /\ run.has = d => ~In(gaps, d) /\ writer.has # d /\ d \notin synced
         /\ In(gaps, d) => writer.has # d /\ d \notin synced
         /\ writer.has = d => d \notin synced
         /\ In(queue, d) \/ run.has = d \/ In(gaps, d) \/ writer.has = d \/ d \in synced =>
              offer[d] \in {"queued", "returned"}

\* A loss that the snapshot shows.
LossShows ==
    ~Journal \/ counts["overflow"] > 0 \/ counts["errors"] > 0 \/ run.at = "overflow"

\* What was offered is in a place, confirmed or journalled, or a loss shows.
FoundInv ==
    \A d \in Deliveries : offer[d] \in {"queued", "returned"} =>
        \/ In(queue, d) \/ run.has = d \/ In(gaps, d) \/ writer.has = d
        \/ d \in received \cup synced \/ LossShows

\* The deliveries whose sender is at a step of offer.
At(f, where) == {d \in Deliveries : f[d] = where}

\* The losses that are counted as dropped or failed are journalled, overflowed,
\* failed to be written, wait for the writer, or are about to be counted.
LossesAddUp ==
    counts["dropped"] + counts["failed"]
        = Cardinality(synced) + counts["overflow"] + counts["errors"] + counts["pending"]
          + Cardinality(At(offer, "overflow")) + (IF run.at = "overflow" THEN 1 ELSE 0)

\* The counters are exact, but for the step in which a sender or the relay
\* goroutine is about to count.
CountsInv ==
    /\ IsFiniteSet(At(offer, "queued")) /\ IsFiniteSet(At(offer, "overflow"))
    /\ IsFiniteSet(synced)
    /\ QueueAccounted /\ PendingCoversGaps
    /\ Journal => LossesAddUp

RelayInv ==
    RelayTypeOK /\ HandsInv /\ ShutdownInv /\ PlacesInv /\ FoundInv /\ CountsInv
-----------------------------------------------------------------------------
(***************************************************************************)
(* Channels are sequences: what a send and a receive do to their contents. *)
(***************************************************************************)

\* An empty channel holds nothing.
LEMMA EmptyChannel ==
    /\ Len(<<>>) = 0 /\ Once(<<>>) /\ \A d : ~In(<<>>, d)
    /\ \A S : <<>> \in Seq(S)
BY SMT DEF In, Once

\* A send adds the delivery at the end of the channel, and nothing else.
LEMMA SendChannel ==
    ASSUME NEW S, NEW s \in Seq(S), NEW e \in S
    PROVE  /\ Append(s, e) \in Seq(S) /\ Len(Append(s, e)) = Len(s) + 1 /\ Len(s) \in Nat
           /\ \A d : In(Append(s, e), d) <=> In(s, d) \/ d = e
           /\ Once(s) /\ ~In(s, e) => Once(Append(s, e))
<1>1. /\ Append(s, e) \in Seq(S) /\ Len(Append(s, e)) = Len(s) + 1 /\ Len(s) \in Nat
      /\ \A i \in 1..Len(s) + 1 : Append(s, e)[i] = IF i = Len(s) + 1 THEN e ELSE s[i]
  BY SMT
<1>2. \A d : In(Append(s, e), d) <=> In(s, d) \/ d = e
  <2> TAKE d
  <2>1. ASSUME In(Append(s, e), d) PROVE In(s, d) \/ d = e
    <3>1. PICK i \in 1..Len(s) + 1 : Append(s, e)[i] = d
      BY <1>1, <2>1 DEF In
    <3>2. CASE i = Len(s) + 1
      BY <1>1, <3>1, <3>2
    <3>3. CASE i # Len(s) + 1
      <4>1. i \in 1..Len(s) /\ s[i] = d
        BY SMT, <1>1, <3>1, <3>3
      <4> QED BY <4>1 DEF In
    <3> QED BY <3>2, <3>3
  <2>2. ASSUME In(s, d) PROVE In(Append(s, e), d)
    <3>1. PICK i \in 1..Len(s) : s[i] = d
      BY <2>2 DEF In
    <3>2. i \in 1..Len(s) + 1 /\ Append(s, e)[i] = d
      BY SMT, <1>1, <3>1
    <3> QED BY <1>1, <3>2 DEF In
  <2>3. ASSUME d = e PROVE In(Append(s, e), d)
    <3>1. Len(s) + 1 \in 1..Len(Append(s, e)) /\ Append(s, e)[Len(s) + 1] = d
      BY SMT, <1>1, <2>3
    <3> QED BY <3>1 DEF In
  <2> QED BY <2>1, <2>2, <2>3
<1>3. ASSUME Once(s), ~In(s, e) PROVE Once(Append(s, e))
  <2> SUFFICES ASSUME NEW i \in 1..Len(s) + 1, NEW j \in 1..Len(s) + 1,
                      Append(s, e)[i] = Append(s, e)[j]
               PROVE  i = j
    BY <1>1 DEF Once
  <2>1. \A k \in 1..Len(s) : s[k] # e
    BY <1>3 DEF In
  <2> QED BY SMT, <1>1, <1>3, <2>1 DEF Once
<1> QED BY <1>1, <1>2, <1>3

\* A receive takes the first delivery out of the channel, and leaves the rest.
LEMMA ReceiveChannel ==
    ASSUME NEW S, NEW s \in Seq(S), s # <<>>
    PROVE  /\ Tail(s) \in Seq(S) /\ Len(Tail(s)) \in Nat /\ Len(s) = Len(Tail(s)) + 1
           /\ Head(s) \in S
           /\ \A d : In(s, d) <=> In(Tail(s), d) \/ d = Head(s)
           /\ Once(s) => Once(Tail(s)) /\ ~In(Tail(s), Head(s))
<1>1. /\ Tail(s) \in Seq(S) /\ Len(s) \in Nat /\ Len(s) >= 1 /\ Len(Tail(s)) = Len(s) - 1
      /\ Head(s) = s[1] /\ Head(s) \in S
      /\ \A i \in 1..Len(s) - 1 : Tail(s)[i] = s[i + 1]
  BY SMT
<1>2. \A d : In(s, d) <=> In(Tail(s), d) \/ d = Head(s)
  <2> TAKE d
  <2>1. ASSUME In(s, d) PROVE In(Tail(s), d) \/ d = Head(s)
    <3>1. PICK i \in 1..Len(s) : s[i] = d
      BY <2>1 DEF In
    <3>2. CASE i = 1
      BY <1>1, <3>1, <3>2
    <3>3. CASE i # 1
      <4>1. i - 1 \in 1..Len(s) - 1 /\ (i - 1) + 1 = i
        BY SMT, <1>1, <3>3
      <4>2. Tail(s)[i - 1] = d
        BY <1>1, <3>1, <4>1
      <4> QED BY <1>1, <4>1, <4>2 DEF In
    <3> QED BY <3>2, <3>3
  <2>2. ASSUME In(Tail(s), d) PROVE In(s, d)
    <3>1. PICK i \in 1..Len(s) - 1 : Tail(s)[i] = d
      BY <1>1, <2>2 DEF In
    <3>2. i + 1 \in 1..Len(s) /\ s[i + 1] = d
      BY SMT, <1>1, <3>1
    <3> QED BY <3>2 DEF In
  <2>3. ASSUME d = Head(s) PROVE In(s, d)
    <3>1. 1 \in 1..Len(s)
      BY SMT, <1>1
    <3> QED BY <1>1, <2>3, <3>1 DEF In
  <2> QED BY <2>1, <2>2, <2>3
<1>3. ASSUME Once(s) PROVE Once(Tail(s)) /\ ~In(Tail(s), Head(s))
  <2>1. \A i \in 1..Len(s) - 1 : i + 1 \in 1..Len(s) /\ i + 1 # 1
    BY SMT, <1>1
  <2>2. 1 \in 1..Len(s)
    BY SMT, <1>1
  <2>3. \A i \in 1..Len(s) - 1 : s[i + 1] # s[1]
    BY <1>3, <2>1, <2>2 DEF Once
  <2>4. ~In(Tail(s), Head(s))
    BY <1>1, <2>3 DEF In
  <2>5. ASSUME NEW i \in 1..Len(s) - 1, NEW j \in 1..Len(s) - 1, Tail(s)[i] = Tail(s)[j]
        PROVE  i = j
    <3>1. i + 1 = j + 1
      BY SMT, <1>1, <1>3, <2>1, <2>5 DEF Once
    <3> QED BY SMT, <3>1
  <2> QED BY <1>1, <2>4, <2>5 DEF Once
<1> QED
  <2>1. Len(s) = Len(Tail(s)) + 1 /\ Len(Tail(s)) \in Nat
    BY SMT, <1>1
  <2> QED BY <1>1, <1>2, <1>3, <2>1

(***************************************************************************)
(* Sets: one sender moves, one gap is journalled.                          *)
(***************************************************************************)

\* The number of elements when one joins or leaves.
LEMMA CountMoves ==
    ASSUME NEW S, IsFiniteSet(S), NEW e
    PROVE  /\ Cardinality(S) \in Nat
           /\ e \notin S => /\ IsFiniteSet(S \cup {e})
                            /\ Cardinality(S \cup {e}) = Cardinality(S) + 1
           /\ e \in S => /\ IsFiniteSet(S \ {e}) /\ Cardinality(S \ {e}) \in Nat
                          /\ Cardinality(S) = Cardinality(S \ {e}) + 1
<1>1. Cardinality(S) \in Nat
  BY FS_CardinalityType
<1>2. ASSUME e \notin S
      PROVE  IsFiniteSet(S \cup {e}) /\ Cardinality(S \cup {e}) = Cardinality(S) + 1
  BY <1>2, FS_AddElement
<1>3. ASSUME e \in S
      PROVE  /\ IsFiniteSet(S \ {e}) /\ Cardinality(S \ {e}) \in Nat
             /\ Cardinality(S) = Cardinality(S \ {e}) + 1
  <2>1. IsFiniteSet(S \ {e}) /\ Cardinality(S \ {e}) = Cardinality(S) - 1
    BY <1>3, FS_RemoveElement
  <2>2. Cardinality(S \ {e}) \in Nat
    BY <2>1, FS_CardinalityType
  <2> QED BY SMT, <1>1, <2>1, <2>2
<1> QED BY <1>1, <1>2, <1>3
-----------------------------------------------------------------------------
(***************************************************************************)
(* The atomic steps, with every branch of a handler apart and the records  *)
(* written out.  They leave out the journal's file and the requests under  *)
(* way, of which the invariant only needs the type.                        *)
(***************************************************************************)
Moves(d, from, to) ==
    offer[d] = from /\ offer' = [offer EXCEPT ![d] = to]

\* The counters of S are incremented, the others are not.
More(S) ==
    /\ counts' \in [Counters -> Nat]
    /\ \A c \in Counters : counts'[c] = IF c \in S THEN counts[c] + 1 ELSE counts[c]

\* The writer has counted a gap as no longer pending, and maybe as an error.
LessPending(S) ==
    /\ counts' \in [Counters -> Nat]
    /\ counts["pending"] = counts'["pending"] + 1
    /\ \A c \in Counters \ {"pending"} :
         counts'[c] = IF c \in S THEN counts[c] + 1 ELSE counts[c]

RunAt(from, to, draining, has) ==
    run.at = from /\ run' = [at |-> to, draining |-> draining, has |-> has]
WriterAt(from, to, draining, has) ==
    writer.at = from /\ writer' = [at |-> to, draining |-> draining, has |-> has]

SenderIdle == UNCHANGED <<offer, shared, closer>>
RunIdle == UNCHANGED <<queue, run>>
WriterIdle == UNCHANGED <<writer, synced>>

\* A sender's step.
SenderStep(d) ==
    /\ UNCHANGED <<shared, closer, run, received>> /\ WriterIdle
    /\ \/ /\ \/ Moves(d, "idle", "entered")
             \/ Moves(d, "entered", "refused")
             \/ Moves(d, "entered", "admitted") /\ ~closing
          /\ UNCHANGED <<queue, gaps, counts>>
       \/ /\ Moves(d, "admitted", "queued")
          /\ Len(queue) < QueueCap /\ queue' = Append(queue, d)
          /\ UNCHANGED <<gaps, counts>>
       \/ /\ Moves(d, "admitted", "returned")
          /\ Len(gaps) < GapCap /\ gaps' = Append(gaps, d)
          /\ More({"dropped", "pending"}) /\ UNCHANGED queue
       \/ /\ Moves(d, "admitted", "overflow")
          /\ More({"dropped"}) /\ UNCHANGED <<queue, gaps>>
       \/ /\ Moves(d, "queued", "returned")
          /\ More({"accepted"}) /\ UNCHANGED <<queue, gaps>>
       \/ /\ Moves(d, "overflow", "returned")
          /\ More({"overflow"}) /\ UNCHANGED <<queue, gaps>>

\* The executor's step.
ExecutorStep(d) ==
    /\ received' = received \cup {d}
    /\ SenderIdle /\ RunIdle /\ WriterIdle /\ UNCHANGED <<gaps, counts>>

\* A step of the relay goroutine.
RunStep ==
    /\ SenderIdle /\ WriterIdle /\ UNCHANGED received
    /\ \/ /\ queue # <<>> /\ queue' = Tail(queue)
          /\ \E at \in {"posting", "failed"} : RunAt("select", at, run.draining, Head(queue))
          /\ UNCHANGED <<gaps, counts>>
       \/ /\ RunAt("posting", "select", FALSE, Nil) /\ run.has \in received
          /\ More({"posted"}) /\ UNCHANGED <<queue, gaps>>
       \/ /\ RunAt("posting", "failed", run.draining, run.has)
          /\ UNCHANGED <<queue, gaps, counts>>
       \/ /\ RunAt("failed", "select", run.draining, Nil)
          /\ Len(gaps) < GapCap /\ gaps' = Append(gaps, run.has)
          /\ More({"failed", "pending"}) /\ UNCHANGED queue
       \/ /\ RunAt("failed", "overflow", run.draining, Nil)
          /\ More({"failed"}) /\ UNCHANGED <<queue, gaps>>
       \/ /\ RunAt("overflow", "select", run.draining, run.has)
          /\ More({"overflow"}) /\ UNCHANGED <<queue, gaps>>
       \/ /\ RunAt("select", "select", TRUE, run.has) /\ cancelled
          /\ UNCHANGED <<queue, gaps, counts>>
       \/ /\ RunAt("select", "done", run.draining, run.has) /\ run.draining /\ queue = <<>>
          /\ UNCHANGED <<queue, gaps, counts>>

\* A step of the gap goroutine.
WriterStep ==
    /\ SenderIdle /\ RunIdle /\ UNCHANGED received
    /\ \/ /\ gaps # <<>> /\ gaps' = Tail(gaps)
          /\ WriterAt("loop", "recording", writer.draining, Head(gaps))
          /\ UNCHANGED <<counts, synced>>
       \/ /\ WriterAt("recording", "loop", writer.draining, Nil)
          /\ \/ Journal /\ synced' = synced \cup {writer.has} /\ LessPending({})
             \/ Journal /\ UNCHANGED synced /\ LessPending({"errors"})
             \/ ~Journal /\ UNCHANGED synced /\ LessPending({})
          /\ UNCHANGED gaps
       \/ /\ \/ WriterAt("loop", "joining", writer.draining, writer.has) /\ cancelled
             \/ WriterAt("joining", "loop", TRUE, writer.has) /\ run.at = "done"
             \/ /\ WriterAt("loop", "done", writer.draining, writer.has)
                /\ writer.draining /\ gaps = <<>>
          /\ UNCHANGED <<gaps, counts, synced>>

\* A step of shutdown.
ShutdownStep ==
    /\ RunIdle /\ WriterIdle /\ UNCHANGED <<offer, gaps, counts, received>>
    /\ shutdown

\* A counter that is incremented counts on.
LEMMA AddCounts ==
    ASSUME RelayTypeOK, NEW c \in Counters, Add(c)
    PROVE  More({c})
<1>1. counts \in [Counters -> Nat]
  BY DEF RelayTypeOK
<1> QED BY SMT, <1>1 DEF Add, More

\* enqueueGap counts its event and a pending gap in one step.
LEMMA AddWithPending ==
    ASSUME RelayTypeOK, NEW c \in Counters, c # "pending",
           counts' = [counts EXCEPT ![c] = @ + 1, !["pending"] = @ + 1]
    PROVE  More({c, "pending"})
<1>1. counts \in [Counters -> Nat] /\ "pending" \in Counters
  BY DEF RelayTypeOK, Counters
<1>2. counts' \in [Counters -> Nat]
  BY SMTT(30), <1>1
<1>3. \A x \in Counters : counts'[x] = IF x \in {c, "pending"} THEN counts[x] + 1 ELSE counts[x]
  BY SMTT(30), <1>1
<1> QED BY <1>2, <1>3 DEF More

\* A pending gap is counted while the writer has one in hand, so that the
\* decrement of recordGap does not wrap.
LEMMA PendingPositive ==
    ASSUME RelayTypeOK, PendingCoversGaps, writer.at = "recording"
    PROVE  counts["pending"] \in Nat /\ counts["pending"] >= 1 /\ counts["pending"] - 1 \in Nat
<1>1. PICK n \in Nat : n = Len(gaps)
  BY SMT DEF RelayTypeOK
<1> QED BY SMT, <1>1 DEF PendingCoversGaps

\* offer takes one of the sender's steps.
LEMMA OfferSteps ==
    ASSUME RelayTypeOK, NEW d \in Deliveries, EnterOffer(d) \/ Offering(d)
    PROVE  SenderStep(d)
<1> USE DEF Moves, WriterIdle
<1>1. CASE EnterOffer(d)
  BY <1>1 DEF EnterOffer, SenderStep
<1>2. CASE CheckClosing(d)
  BY <1>2 DEF CheckClosing, SenderStep
<1>3. CASE SelectQueue(d)
  <2>1. CASE Len(queue) < QueueCap /\ queue' = Append(queue, d)
             /\ offer' = [offer EXCEPT ![d] = "queued"] /\ UNCHANGED <<gaps, counts>>
    BY <1>3, <2>1 DEF SelectQueue, SenderStep
  <2>2. CASE /\ GapEnqueued(d) /\ UNCHANGED queue
             /\ counts' = [counts EXCEPT !["dropped"] = @ + 1, !["pending"] = @ + 1]
             /\ offer' = [offer EXCEPT ![d] = "returned"]
    <3>1. More({"dropped", "pending"})
      BY <2>2, AddWithPending DEF Counters
    <3> QED BY <1>3, <2>2, <3>1 DEF SelectQueue, SenderStep, GapEnqueued
  <2>3. CASE GapRefused /\ Add("dropped") /\ offer' = [offer EXCEPT ![d] = "overflow"]
             /\ UNCHANGED queue
    <3>1. More({"dropped"})
      BY <2>3, AddCounts DEF Counters
    <3> QED BY <1>3, <2>3, <3>1 DEF SelectQueue, SenderStep, GapRefused
  <2> QED BY <1>3, <2>1, <2>2, <2>3 DEF SelectQueue
<1>4. CASE ReturnOffer(d)
  <2>1. CASE offer[d] = "queued" /\ Add("accepted")
    <3>1. More({"accepted"})
      BY <2>1, AddCounts DEF Counters
    <3> QED BY <1>4, <2>1, <3>1 DEF ReturnOffer, SenderStep
  <2>2. CASE offer[d] = "overflow" /\ Add("overflow")
    <3>1. More({"overflow"})
      BY <2>2, AddCounts DEF Counters
    <3> QED BY <1>4, <2>2, <3>1 DEF ReturnOffer, SenderStep
  <2> QED BY <1>4, <2>1, <2>2 DEF ReturnOffer
<1> QED BY <1>1, <1>2, <1>3, <1>4 DEF Offering

\* run takes one of the steps of the relay goroutine.
LEMMA RunSteps ==
    ASSUME RelayTypeOK, Running
    PROVE  RunStep
<1> USE DEF SenderIdle, WriterIdle, RunUnchanged, RunAt
<1>0. run \in [at : {"select", "posting", "failed", "overflow", "done"},
               draining : BOOLEAN, has : Deliveries \cup {Nil}]
  BY DEF RelayTypeOK
<1>1. CASE Dequeue
  <2>1. PICK at \in {"posting", "failed"} : run' = [run EXCEPT !.at = at, !.has = Head(queue)]
    BY <1>1 DEF Dequeue
  <2>2. run' = [at |-> at, draining |-> run.draining, has |-> Head(queue)]
    BY <1>0, <2>1
  <2> QED BY <1>1, <2>2 DEF Dequeue, RunStep
<1>2. CASE PostAccepted
  <2>1. More({"posted"})
    BY <1>2, AddCounts DEF PostAccepted, Counters
  <2> QED BY <1>2, <2>1 DEF PostAccepted, RunStep, Waiting
<1>3. CASE PostFailed
  <2>1. run' = [at |-> "failed", draining |-> run.draining, has |-> run.has]
    BY <1>0, <1>3 DEF PostFailed
  <2> QED BY <1>3, <2>1 DEF PostFailed, RunStep
<1>4. CASE RunGap
  <2>1. CASE /\ GapEnqueued(run.has)
             /\ counts' = [counts EXCEPT !["failed"] = @ + 1, !["pending"] = @ + 1]
             /\ run' = [run EXCEPT !.at = "select", !.has = Nil]
    <3>1. More({"failed", "pending"})
      BY <2>1, AddWithPending DEF Counters
    <3>2. run' = [at |-> "select", draining |-> run.draining, has |-> Nil]
      BY <1>0, <2>1
    <3> QED BY <1>4, <2>1, <3>1, <3>2 DEF RunGap, RunStep, GapEnqueued
  <2>2. CASE GapRefused /\ Add("failed") /\ run' = [run EXCEPT !.at = "overflow", !.has = Nil]
    <3>1. More({"failed"})
      BY <2>2, AddCounts DEF Counters
    <3>2. run' = [at |-> "overflow", draining |-> run.draining, has |-> Nil]
      BY <1>0, <2>2
    <3> QED BY <1>4, <2>2, <3>1, <3>2 DEF RunGap, RunStep, GapRefused
  <2> QED BY <1>4, <2>1, <2>2 DEF RunGap
<1>5. CASE RunOverflow
  <2>1. More({"overflow"})
    BY <1>5, AddCounts DEF RunOverflow, Counters
  <2>2. run' = [at |-> "select", draining |-> run.draining, has |-> run.has]
    BY <1>0, <1>5 DEF RunOverflow
  <2> QED BY <1>5, <2>1, <2>2 DEF RunOverflow, RunStep
<1>6. CASE RunCancelled
  <2>1. CASE cancelled /\ run' = [run EXCEPT !.draining = TRUE]
    <3>1. run' = [at |-> run.at, draining |-> TRUE, has |-> run.has]
      BY <1>0, <2>1
    <3> QED BY <1>6, <2>1, <3>1 DEF RunCancelled, RunStep
  <2>2. CASE run.draining /\ queue = <<>> /\ run' = [run EXCEPT !.at = "done"]
    <3>1. run' = [at |-> "done", draining |-> run.draining, has |-> run.has]
      BY <1>0, <2>2
    <3> QED BY <1>6, <2>2, <3>1 DEF RunCancelled, RunStep
  <2> QED BY <1>6, <2>1, <2>2 DEF RunCancelled
<1> QED BY <1>1, <1>2, <1>3, <1>4, <1>5, <1>6 DEF Running

\* runGaps takes one of the steps of the gap goroutine.
LEMMA WriterSteps ==
    ASSUME RelayTypeOK, PendingCoversGaps, Writing
    PROVE  WriterStep
<1> USE DEF SenderIdle, RunIdle, WriterUnchanged, WriterAt
<1>0. writer \in [at : {"loop", "joining", "recording", "done"},
                  draining : BOOLEAN, has : Deliveries \cup {Nil}]
  BY DEF RelayTypeOK
<1>1. CASE TakeGap
  <2>1. writer' = [at |-> "recording", draining |-> writer.draining, has |-> Head(gaps)]
    BY <1>0, <1>1 DEF TakeGap
  <2> QED BY <1>1, <2>1 DEF TakeGap, WriterStep
<1>2. CASE RecordGap
  <2>1. writer' = [at |-> "loop", draining |-> writer.draining, has |-> Nil]
    BY <1>0, <1>2 DEF RecordGap
  <2>2. writer.at = "recording" /\ counts["pending"] - 1 \in Nat /\ counts["pending"] \in Nat
    BY <1>2, PendingPositive DEF RecordGap
  <2>c. counts \in [Counters -> Nat]
    BY DEF RelayTypeOK
  <2>3. ASSUME counts' = [counts EXCEPT !["pending"] = @ - 1] PROVE LessPending({})
    BY SMTT(30), <2>2, <2>3, <2>c DEF LessPending, Counters
  <2>4. ASSUME counts' = [counts EXCEPT !["pending"] = @ - 1, !["errors"] = @ + 1]
        PROVE  LessPending({"errors"})
    BY SMTT(30), <2>2, <2>4, <2>c DEF LessPending, Counters
  <2>5. \/ Journal /\ synced' = synced \cup {writer.has} /\ LessPending({})
        \/ Journal /\ UNCHANGED synced /\ LessPending({"errors"})
        \/ ~Journal /\ UNCHANGED synced /\ LessPending({})
    BY <1>2, <2>3, <2>4 DEF RecordGap
  <2> QED BY <1>2, <2>1, <2>5 DEF RecordGap, WriterStep
<1>3. CASE WriterCancelled
  <2>1. CASE writer.at = "loop" /\ cancelled /\ writer' = [writer EXCEPT !.at = "joining"]
    <3>1. writer' = [at |-> "joining", draining |-> writer.draining, has |-> writer.has]
      BY <1>0, <2>1
    <3> QED BY <1>3, <2>1, <3>1 DEF WriterCancelled, WriterStep
  <2>2. CASE /\ writer.at = "joining" /\ run.at = "done"
             /\ writer' = [writer EXCEPT !.at = "loop", !.draining = TRUE]
    <3>1. writer' = [at |-> "loop", draining |-> TRUE, has |-> writer.has]
      BY <1>0, <2>2
    <3> QED BY <1>3, <2>2, <3>1 DEF WriterCancelled, WriterStep
  <2>3. CASE /\ writer.at = "loop" /\ writer.draining /\ gaps = <<>>
             /\ writer' = [writer EXCEPT !.at = "done"]
    <3>1. writer' = [at |-> "done", draining |-> writer.draining, has |-> writer.has]
      BY <1>0, <2>3
    <3> QED BY <1>3, <2>3, <3>1 DEF WriterCancelled, WriterStep
  <2> QED BY <1>3, <2>1, <2>2, <2>3 DEF WriterCancelled
<1> QED BY <1>1, <1>2, <1>3 DEF Writing

\* Every step of the relay is one of the atomic steps.
AtomicStep ==
    \/ \E d \in Deliveries : SenderStep(d) \/ ExecutorStep(d)
    \/ RunStep \/ WriterStep \/ ShutdownStep

\* Each action of the relay is one of the atomic steps above.
LEMMA RelaySteps ==
    ASSUME RelayTypeOK, PendingCoversGaps, RelayNext
    PROVE  AtomicStep
<1>1. ASSUME NEW d \in Deliveries, ExecutorAccepts(d) PROVE ExecutorStep(d)
  BY <1>1 DEF ExecutorAccepts, ExecutorStep, SenderIdle, RunIdle, WriterIdle
<1>2. ASSUME shutdown PROVE ShutdownStep
  BY <1>2 DEF shutdown, BeginShutdown, NoOffers, Joined, DeadlinePasses, CloserUnchanged,
              ShutdownStep, RunIdle, WriterIdle
<1> QED BY <1>1, <1>2, OfferSteps, RunSteps, WriterSteps DEF RelayNext, AtomicStep
-----------------------------------------------------------------------------
(***************************************************************************)
(* Types, hands and shutdown.                                              *)
(***************************************************************************)

\* What the atomic steps leave out keeps its type.
LEMMA RestTypes ==
    ASSUME RelayTypeOK, HandsInv, RelayNext
    PROVE  /\ journal' \in [current : SUBSET Deliveries, previous : SUBSET Deliveries]
           /\ flying' \subseteq Deliveries /\ received' \subseteq Deliveries
<1>1. \/ UNCHANGED <<journal, flying, received>>
      \/ Dequeue
      \/ RecordGap
      \/ \E d \in Deliveries : ExecutorAccepts(d)
  BY DEF RelayNext, EnterOffer, Offering, CheckClosing, SelectQueue, ReturnOffer, Running,
         PostAccepted, PostFailed, RunGap, RunOverflow, RunCancelled, RunUnchanged, Writing,
         TakeGap, WriterCancelled, WriterUnchanged, shutdown, BeginShutdown, NoOffers, Joined,
         DeadlinePasses, CloserUnchanged
<1>2. CASE UNCHANGED <<journal, flying, received>>
  BY <1>2 DEF RelayTypeOK
<1>3. CASE Dequeue
  <2>1. queue \in Seq(Deliveries) /\ queue # <<>>
    BY <1>3 DEF Dequeue, RelayTypeOK
  <2>2. Head(queue) \in Deliveries
    BY <2>1, ReceiveChannel
  <2> QED BY <1>3, <2>2 DEF Dequeue, RunUnchanged, RelayTypeOK
<1>4. CASE RecordGap
  <2>1. writer.has \in Deliveries
    BY <1>4 DEF RecordGap, HandsInv, RelayTypeOK
  <2>2. Rotated(journal) \in [current : SUBSET Deliveries, previous : SUBSET Deliveries]
    BY DEF Rotated, RelayTypeOK
  <2>3. [Rotated(journal) EXCEPT !.current = @ \cup {writer.has}]
          \in [current : SUBSET Deliveries, previous : SUBSET Deliveries]
    BY <2>1, <2>2
  <2>4. journal' \in [current : SUBSET Deliveries, previous : SUBSET Deliveries]
    BY <1>4, <2>2, <2>3 DEF RecordGap, RelayTypeOK
  <2> QED BY <1>4, <2>4 DEF RecordGap, WriterUnchanged, RelayTypeOK
<1>5. ASSUME NEW d \in Deliveries, ExecutorAccepts(d)
      PROVE  /\ journal' \in [current : SUBSET Deliveries, previous : SUBSET Deliveries]
             /\ flying' \subseteq Deliveries /\ received' \subseteq Deliveries
  BY <1>5 DEF ExecutorAccepts, RelayTypeOK
<1> QED BY <1>1, <1>2, <1>3, <1>4, <1>5

\* The types and the capacities, but for the variables of RestTypes.
StepTypeOK ==
    /\ offer \in [Deliveries -> {"idle", "entered", "admitted", "queued",
                                 "overflow", "returned", "refused"}]
    /\ closing \in BOOLEAN /\ cancelled \in BOOLEAN /\ incomplete \in BOOLEAN
    /\ closer \in {"open", "waiting", "joining", "returned"}
    /\ queue \in Seq(Deliveries) /\ Len(queue) <= QueueCap
    /\ gaps \in Seq(Deliveries) /\ Len(gaps) <= GapCap
    /\ run \in [at : {"select", "posting", "failed", "overflow", "done"},
                draining : BOOLEAN, has : Deliveries \cup {Nil}]
    /\ writer \in [at : {"loop", "joining", "recording", "done"},
                   draining : BOOLEAN, has : Deliveries \cup {Nil}]
    /\ counts \in [Counters -> Nat]
    /\ synced \subseteq Deliveries

\* A sender keeps the variables in their ranges and the channels within their
\* capacity.
LEMMA SenderTypes ==
    ASSUME StepTypeOK, NEW d \in Deliveries, SenderStep(d)
    PROVE  StepTypeOK'
<1> USE RelayConstants
<1>1. offer' \in [Deliveries -> {"idle", "entered", "admitted", "queued",
                                 "overflow", "returned", "refused"}]
  <2>1. \E to \in {"entered", "refused", "admitted", "queued", "returned", "overflow"} :
           offer' = [offer EXCEPT ![d] = to]
    BY DEF SenderStep, Moves
  <2> QED BY <2>1 DEF StepTypeOK
<1>2. queue' \in Seq(Deliveries) /\ Len(queue') <= QueueCap
  <2>1. queue' = queue \/ (queue' = Append(queue, d) /\ Len(queue) < QueueCap)
    BY DEF SenderStep
  <2>2. queue \in Seq(Deliveries) /\ Len(queue) \in Nat /\ Len(queue) <= QueueCap
    BY SMT DEF StepTypeOK
  <2>3. Append(queue, d) \in Seq(Deliveries) /\ Len(Append(queue, d)) = Len(queue) + 1
    BY <2>2, SendChannel
  <2> QED BY SMT, <2>1, <2>2, <2>3
<1>3. gaps' \in Seq(Deliveries) /\ Len(gaps') <= GapCap
  <2>1. gaps' = gaps \/ (gaps' = Append(gaps, d) /\ Len(gaps) < GapCap)
    BY DEF SenderStep
  <2>2. gaps \in Seq(Deliveries) /\ Len(gaps) \in Nat /\ Len(gaps) <= GapCap
    BY SMT DEF StepTypeOK
  <2>3. Append(gaps, d) \in Seq(Deliveries) /\ Len(Append(gaps, d)) = Len(gaps) + 1
    BY <2>2, SendChannel
  <2> QED BY SMT, <2>1, <2>2, <2>3
<1>4. counts' \in [Counters -> Nat]
  BY DEF SenderStep, More, StepTypeOK
<1> QED BY SMT, <1>1, <1>2, <1>3, <1>4 DEF SenderStep, WriterIdle, StepTypeOK, shared

\* So does the relay goroutine.
LEMMA RunTypes ==
    ASSUME StepTypeOK, HandsInv, RunStep
    PROVE  StepTypeOK'
<1> USE RelayConstants
<1>1. queue' \in Seq(Deliveries) /\ Len(queue') <= QueueCap
      /\ (queue # <<>> => Head(queue) \in Deliveries)
  <2>1. queue' = queue \/ (queue # <<>> /\ queue' = Tail(queue))
    BY DEF RunStep
  <2>2. queue \in Seq(Deliveries) /\ Len(queue) \in Nat /\ Len(queue) <= QueueCap
    BY SMT DEF StepTypeOK
  <2>3. queue # <<>> => /\ Tail(queue) \in Seq(Deliveries) /\ Len(Tail(queue)) \in Nat
                        /\ Len(queue) = Len(Tail(queue)) + 1 /\ Head(queue) \in Deliveries
    BY <2>2, ReceiveChannel
  <2> QED BY SMT, <2>1, <2>2, <2>3
<1>2. gaps' \in Seq(Deliveries) /\ Len(gaps') <= GapCap
  <2>1. \/ gaps' = gaps
        \/ gaps' = Append(gaps, run.has) /\ Len(gaps) < GapCap /\ run.at = "failed"
    BY DEF RunStep, RunAt
  <2>2. gaps \in Seq(Deliveries) /\ Len(gaps) \in Nat /\ Len(gaps) <= GapCap
    BY SMT DEF StepTypeOK
  <2>3. run.at = "failed" => run.has \in Deliveries
    BY DEF HandsInv, StepTypeOK
  <2>4. run.at = "failed" => /\ Append(gaps, run.has) \in Seq(Deliveries)
                             /\ Len(Append(gaps, run.has)) = Len(gaps) + 1
    BY SMT, <2>2, <2>3, SendChannel
  <2> QED BY SMT, <2>1, <2>2, <2>4
<1>3. counts' \in [Counters -> Nat]
  BY DEF RunStep, More, StepTypeOK
<1>4. run' \in [at : {"select", "posting", "failed", "overflow", "done"},
                draining : BOOLEAN, has : Deliveries \cup {Nil}]
  <2>1. run.draining \in BOOLEAN /\ run.has \in Deliveries \cup {Nil}
    BY DEF StepTypeOK
  <2>2. \E at \in {"select", "posting", "failed", "overflow", "done"}, draining \in BOOLEAN,
           has \in Deliveries \cup {Nil} :
           run' = [at |-> at, draining |-> draining, has |-> has]
    BY <1>1, <2>1 DEF RunStep, RunAt
  <2> QED BY SMT, <2>2
<1> QED BY <1>1, <1>2, <1>3, <1>4 DEF RunStep, SenderIdle, WriterIdle, StepTypeOK, shared

\* So does the gap goroutine.
LEMMA WriterTypes ==
    ASSUME StepTypeOK, HandsInv, WriterStep
    PROVE  StepTypeOK'
<1> USE RelayConstants
<1>1. gaps' \in Seq(Deliveries) /\ Len(gaps') <= GapCap
      /\ (gaps # <<>> => Head(gaps) \in Deliveries)
  <2>1. gaps' = gaps \/ (gaps # <<>> /\ gaps' = Tail(gaps))
    BY DEF WriterStep
  <2>2. gaps \in Seq(Deliveries) /\ Len(gaps) \in Nat /\ Len(gaps) <= GapCap
    BY SMT DEF StepTypeOK
  <2>3. gaps # <<>> => /\ Tail(gaps) \in Seq(Deliveries) /\ Len(Tail(gaps)) \in Nat
                       /\ Len(gaps) = Len(Tail(gaps)) + 1 /\ Head(gaps) \in Deliveries
    BY <2>2, ReceiveChannel
  <2> QED BY SMT, <2>1, <2>2, <2>3
<1>2. counts' \in [Counters -> Nat]
  BY DEF WriterStep, LessPending, StepTypeOK
<1>3. writer' \in [at : {"loop", "joining", "recording", "done"},
                   draining : BOOLEAN, has : Deliveries \cup {Nil}]
  <2>1. writer.draining \in BOOLEAN /\ writer.has \in Deliveries \cup {Nil}
    BY DEF StepTypeOK
  <2>2. \E at \in {"loop", "joining", "recording", "done"}, draining \in BOOLEAN,
           has \in Deliveries \cup {Nil} :
           writer' = [at |-> at, draining |-> draining, has |-> has]
    BY <1>1, <2>1 DEF WriterStep, WriterAt
  <2> QED BY SMT, <2>2
<1>4. synced' \subseteq Deliveries
  <2>1. writer.at = "recording" => writer.has \in Deliveries
    BY DEF HandsInv, StepTypeOK
  <2> QED BY <2>1 DEF WriterStep, WriterAt, StepTypeOK
<1> QED BY <1>1, <1>2, <1>3, <1>4 DEF WriterStep, SenderIdle, RunIdle, StepTypeOK, shared

\* The steps of the relay keep every variable in its range and the channels
\* within their capacity.
LEMMA RelayTypes ==
    ASSUME RelayTypeOK, HandsInv, RelayNext, AtomicStep
    PROVE  RelayTypeOK'
<1>1. StepTypeOK
  BY DEF RelayTypeOK, StepTypeOK
<1>2. ASSUME NEW d \in Deliveries, ExecutorStep(d) PROVE StepTypeOK'
  BY SMT, <1>1, <1>2 DEF ExecutorStep, SenderIdle, RunIdle, WriterIdle, StepTypeOK, shared
<1>3. ASSUME ShutdownStep PROVE StepTypeOK'
  <2>1. UNCHANGED <<offer, queue, gaps, run, writer, counts, synced>>
    BY <1>3 DEF ShutdownStep, RunIdle, WriterIdle
  <2>2. /\ closing' \in BOOLEAN /\ cancelled' \in BOOLEAN /\ incomplete' \in BOOLEAN
        /\ closer' \in {"open", "waiting", "joining", "returned"}
    BY <1>1, <1>3 DEF ShutdownStep, shutdown, BeginShutdown, NoOffers, Joined, DeadlinePasses,
                      StepTypeOK, shared
  <2> QED BY <1>1, <2>1, <2>2 DEF StepTypeOK
<1>4. StepTypeOK'
  <2>1. ASSUME NEW d \in Deliveries, SenderStep(d) PROVE StepTypeOK'
    BY <1>1, <2>1, SenderTypes
  <2>2. ASSUME RunStep PROVE StepTypeOK'
    BY <1>1, <2>2, RunTypes
  <2>3. ASSUME WriterStep PROVE StepTypeOK'
    BY <1>1, <2>3, WriterTypes
  <2> QED BY <1>2, <1>3, <2>1, <2>2, <2>3 DEF AtomicStep
<1> QED BY <1>4, RestTypes DEF StepTypeOK, RelayTypeOK

\* The goroutines take and hand on a delivery with the step that says so.
LEMMA RelayHands ==
    ASSUME RelayTypeOK, HandsInv, AtomicStep
    PROVE  HandsInv'
<1> USE RelayConstants
<1>1. ASSUME UNCHANGED <<run, writer>> PROVE HandsInv'
  BY <1>1 DEF HandsInv
<1>2. CASE RunStep
  <2>1. queue # <<>> => Head(queue) \in Deliveries
    BY ReceiveChannel DEF RelayTypeOK
  <2>2. run'.at \in {"posting", "failed"} <=> run'.has # Nil
    BY SMT, <1>2, <2>1 DEF RunStep, RunAt, HandsInv
  <2> QED BY <1>2, <2>2 DEF RunStep, WriterIdle, HandsInv
<1>3. CASE WriterStep
  <2>1. gaps # <<>> => Head(gaps) \in Deliveries
    BY ReceiveChannel DEF RelayTypeOK
  <2>2. writer'.at = "recording" <=> writer'.has # Nil
    BY SMT, <1>3, <2>1 DEF WriterStep, WriterAt, HandsInv
  <2> QED BY <1>3, <2>2 DEF WriterStep, RunIdle, HandsInv
<1>4. CASE ShutdownStep
  BY <1>1, <1>4 DEF ShutdownStep, RunIdle, WriterIdle
<1>5. ASSUME NEW d \in Deliveries, SenderStep(d) \/ ExecutorStep(d) PROVE HandsInv'
  BY <1>1, <1>5 DEF SenderStep, ExecutorStep, RunIdle, WriterIdle
<1> QED BY <1>2, <1>3, <1>4, <1>5 DEF AtomicStep

\* Once the relay is cancelled within its budget no sender is past its check of
\* closing; a goroutine that ended has drained its channel, and nothing is sent
\* to it again.
LEMMA RelayShutdown ==
    ASSUME RelayTypeOK, HandsInv, ShutdownInv, AtomicStep
    PROVE  ShutdownInv'
<1> USE RelayConstants
<1>1. ASSUME NEW d \in Deliveries, SenderStep(d) PROVE ShutdownInv'
  <2>1. CASE cancelled /\ ~incomplete
    <3>1. offer[d] \in {"idle", "entered"} /\ closing
      BY <1>1, <2>1 DEF SenderStep, Moves, ShutdownInv
    <3>2. UNCHANGED <<queue, gaps>> /\ \E to \in {"entered", "refused"} :
             offer' = [offer EXCEPT ![d] = to]
      BY <1>1, <3>1 DEF SenderStep, Moves
    <3> QED BY <1>1, <2>1, <3>2 DEF SenderStep, WriterIdle, ShutdownInv, RelayTypeOK, shared
  <2>2. CASE ~cancelled \/ incomplete
    <3>1. UNCHANGED <<closing, cancelled, incomplete, closer, run, writer>>
      BY <1>1 DEF SenderStep, WriterIdle, shared
    <3> QED BY <2>2, <3>1 DEF ShutdownInv
  <2> QED BY <2>1, <2>2
<1>2. ASSUME NEW d \in Deliveries, ExecutorStep(d) PROVE ShutdownInv'
  BY <1>2 DEF ExecutorStep, SenderIdle, RunIdle, WriterIdle, ShutdownInv, shared
<1>3. CASE RunStep
  <2>1. UNCHANGED <<offer, closing, cancelled, incomplete, closer, writer>>
    BY <1>3 DEF RunStep, SenderIdle, WriterIdle, shared
  <2>2. run.at # "done"
    BY <1>3 DEF RunStep, RunAt
  <2>3. run'.draining \/ run'.at = "done" => cancelled
    BY SMTT(30), <1>3 DEF RunStep, RunAt, ShutdownInv
  <2>4. run'.at = "done" => queue' = <<>>
    BY SMT, <1>3 DEF RunStep, RunAt
  <2> QED BY <2>1, <2>2, <2>3, <2>4 DEF ShutdownInv
<1>4. CASE WriterStep
  <2>1. UNCHANGED <<offer, closing, cancelled, incomplete, closer, queue, run>>
    BY <1>4 DEF WriterStep, SenderIdle, RunIdle, shared
  <2>2. writer'.draining \/ writer'.at \in {"joining", "done"} => cancelled
    BY SMT, <1>4 DEF WriterStep, WriterAt, ShutdownInv
  <2>3. writer'.draining => run.at = "done"
    BY SMT, <1>4 DEF WriterStep, WriterAt, ShutdownInv
  <2>4. writer'.at = "done" => writer'.draining /\ gaps' = <<>>
    BY SMT, <1>4 DEF WriterStep, WriterAt
  <2> QED BY <2>1, <2>2, <2>3, <2>4 DEF ShutdownInv
<1>5. CASE ShutdownStep
  <2>1. UNCHANGED <<offer, queue, gaps, run, writer>>
    BY <1>5 DEF ShutdownStep, RunIdle, WriterIdle
  <2>2. CASE BeginShutdown \/ Joined \/ DeadlinePasses
    BY SMT, <2>1, <2>2 DEF BeginShutdown, Joined, DeadlinePasses, ShutdownInv, RelayTypeOK, shared
  <2>3. CASE NoOffers
    <3>1. \A d \in Deliveries : offer[d] \notin {"admitted", "queued", "overflow"}
      BY <2>3 DEF NoOffers, Inside
    <3>2. ~cancelled /\ ~incomplete
      BY <2>3 DEF NoOffers, ShutdownInv
    <3> QED BY <2>1, <2>3, <3>1, <3>2 DEF NoOffers, ShutdownInv
  <2> QED BY <1>5, <2>2, <2>3 DEF ShutdownStep, shutdown
<1> QED BY <1>1, <1>2, <1>3, <1>4, <1>5 DEF AtomicStep
-----------------------------------------------------------------------------
(***************************************************************************)
(* Where a delivery is.                                                    *)
(***************************************************************************)

\* A delivery that is offered goes to the end of one channel or to none; it
\* was in no place before.
LEMMA SenderPlaces ==
    ASSUME RelayTypeOK, PlacesInv, NEW d \in Deliveries, SenderStep(d)
    PROVE  PlacesInv'
<1> USE RelayConstants
<1>1. /\ queue \in Seq(Deliveries) /\ gaps \in Seq(Deliveries)
      /\ offer \in [Deliveries -> {"idle", "entered", "admitted", "queued",
                                   "overflow", "returned", "refused"}]
  BY DEF RelayTypeOK
<1>2. UNCHANGED <<run, writer, synced>>
  BY DEF SenderStep, WriterIdle
<1>3. PICK to : /\ offer' = [offer EXCEPT ![d] = to]
                /\ offer[d] \in {"queued", "returned"} => to \in {"queued", "returned"}
  BY DEF SenderStep, Moves
<1>4. offer'[d] = to /\ \A e \in Deliveries : e # d => offer'[e] = offer[e]
  BY <1>1, <1>3
<1>5. CASE UNCHANGED <<queue, gaps>>
  BY <1>2, <1>3, <1>4, <1>5 DEF PlacesInv
<1>6. CASE queue' = Append(queue, d) /\ UNCHANGED gaps /\ Moves(d, "admitted", "queued")
  <2>1. offer[d] = "admitted" /\ offer'[d] = "queued"
    BY <1>1, <1>6 DEF Moves
  <2>2. ~In(queue, d) /\ run.has # d /\ ~In(gaps, d) /\ writer.has # d /\ d \notin synced
    BY <2>1 DEF PlacesInv
  <2>3. Once(queue') /\ \A e : In(queue', e) <=> In(queue, e) \/ e = d
    BY ZenonT(30), <1>1, <1>6, <2>2, SendChannel DEF PlacesInv
  <2> QED BY <1>2, <1>4, <1>6, <2>1, <2>2, <2>3 DEF PlacesInv
<1>7. CASE gaps' = Append(gaps, d) /\ UNCHANGED queue /\ Moves(d, "admitted", "returned")
  <2>1. offer[d] = "admitted" /\ offer'[d] = "returned"
    BY <1>1, <1>7 DEF Moves
  <2>2. ~In(queue, d) /\ run.has # d /\ ~In(gaps, d) /\ writer.has # d /\ d \notin synced
    BY <2>1 DEF PlacesInv
  <2>3. Once(gaps') /\ \A e : In(gaps', e) <=> In(gaps, e) \/ e = d
    BY ZenonT(30), <1>1, <1>7, <2>2, SendChannel DEF PlacesInv
  <2> QED BY <1>2, <1>4, <1>7, <2>1, <2>2, <2>3 DEF PlacesInv
<1> QED BY <1>5, <1>6, <1>7 DEF SenderStep

\* The relay goroutine moves a delivery from the queue to its hand, and from
\* there to the gap channel or out.
LEMMA RunPlaces ==
    ASSUME RelayTypeOK, HandsInv, PlacesInv, RunStep
    PROVE  PlacesInv'
<1> USE RelayConstants
<1>1. queue \in Seq(Deliveries) /\ gaps \in Seq(Deliveries) /\ run.has \in Deliveries \cup {Nil}
  BY DEF RelayTypeOK
<1>2. UNCHANGED <<offer, writer, synced>>
  BY DEF RunStep, SenderIdle, WriterIdle
<1>3. CASE UNCHANGED <<queue, gaps>> /\ run'.has \in {run.has, Nil}
  BY <1>2, <1>3 DEF PlacesInv
<1>4. CASE queue # <<>> /\ queue' = Tail(queue) /\ UNCHANGED gaps /\ run'.has = Head(queue)
  <2>1. /\ Once(queue') /\ ~In(queue', Head(queue)) /\ Head(queue) \in Deliveries
        /\ \A e : In(queue, e) <=> In(queue', e) \/ e = Head(queue)
    BY <1>1, <1>4, ReceiveChannel DEF PlacesInv
  <2> QED BY <1>2, <1>4, <2>1 DEF PlacesInv
<1>5. CASE gaps' = Append(gaps, run.has) /\ UNCHANGED queue /\ run'.has = Nil /\ run.at = "failed"
  <2>1. run.has \in Deliveries
    BY <1>1, <1>5 DEF HandsInv
  <2>2. ~In(gaps, run.has) /\ writer.has # run.has /\ run.has \notin synced /\ ~In(queue, run.has)
        /\ offer[run.has] \in {"queued", "returned"}
    BY <2>1 DEF PlacesInv
  <2>3. Once(gaps') /\ \A e : In(gaps', e) <=> In(gaps, e) \/ e = run.has
    BY SMTT(30), <1>1, <1>5, <2>1, <2>2, SendChannel DEF PlacesInv
  <2> QED BY <1>2, <1>5, <2>1, <2>2, <2>3 DEF PlacesInv
<1> QED BY SMT, <1>3, <1>4, <1>5 DEF RunStep, RunAt

\* The gap goroutine moves a gap from the channel to its hand, and from there
\* to the journal or out.
LEMMA WriterPlaces ==
    ASSUME RelayTypeOK, HandsInv, PlacesInv, WriterStep
    PROVE  PlacesInv'
<1> USE RelayConstants
<1>1. gaps \in Seq(Deliveries) /\ writer.has \in Deliveries \cup {Nil}
  BY DEF RelayTypeOK
<1>2. UNCHANGED <<offer, queue, run>>
  BY DEF WriterStep, SenderIdle, RunIdle
<1>3. CASE UNCHANGED <<gaps, synced>> /\ writer'.has \in {writer.has, Nil}
  BY <1>2, <1>3 DEF PlacesInv
<1>4. CASE gaps # <<>> /\ gaps' = Tail(gaps) /\ UNCHANGED synced /\ writer'.has = Head(gaps)
  <2>1. /\ Once(gaps') /\ ~In(gaps', Head(gaps)) /\ Head(gaps) \in Deliveries
        /\ \A e : In(gaps, e) <=> In(gaps', e) \/ e = Head(gaps)
    BY <1>1, <1>4, ReceiveChannel DEF PlacesInv
  <2> QED BY <1>2, <1>4, <2>1 DEF PlacesInv
<1>5. CASE synced' = synced \cup {writer.has} /\ UNCHANGED gaps /\ writer'.has = Nil
           /\ writer.at = "recording"
  <2>1. writer.has \in Deliveries
    BY <1>1, <1>5 DEF HandsInv
  <2> QED BY <1>2, <1>5, <2>1 DEF PlacesInv
<1> QED BY SMT, <1>3, <1>4, <1>5 DEF WriterStep, WriterAt

\* A delivery stays in one place at most.
LEMMA RelayPlaces ==
    ASSUME RelayTypeOK, HandsInv, PlacesInv, AtomicStep
    PROVE  PlacesInv'
<1>1. ASSUME UNCHANGED <<offer, queue, gaps, run, writer, synced>> PROVE PlacesInv'
  BY <1>1 DEF PlacesInv
<1>2. ASSUME NEW d \in Deliveries, ExecutorStep(d) PROVE PlacesInv'
  BY <1>1, <1>2 DEF ExecutorStep, SenderIdle, RunIdle, WriterIdle
<1>3. CASE ShutdownStep
  BY <1>1, <1>3 DEF ShutdownStep, RunIdle, WriterIdle
<1> QED BY <1>2, <1>3, SenderPlaces, RunPlaces, WriterPlaces DEF AtomicStep

\* A loss that shows stays visible: the counters of losses only grow.
LEMMA LossStays ==
    ASSUME RelayTypeOK, LossShows, AtomicStep
    PROVE  LossShows'
<1> USE DEF LossShows
<1>1. counts["overflow"] \in Nat /\ counts["errors"] \in Nat
  BY DEF RelayTypeOK, Counters
<1>2. ASSUME UNCHANGED <<run, counts>> PROVE LossShows'
  BY <1>2
<1>3. ASSUME NEW S, More(S)
      PROVE  counts'["overflow"] >= counts["overflow"] /\ counts'["errors"] >= counts["errors"]
             /\ counts'["overflow"] \in Nat /\ counts'["errors"] \in Nat
  BY SMT, <1>1, <1>3 DEF More, Counters
<1>4. ASSUME NEW S, LessPending(S)
      PROVE  counts'["overflow"] >= counts["overflow"] /\ counts'["errors"] >= counts["errors"]
             /\ counts'["overflow"] \in Nat /\ counts'["errors"] \in Nat
  BY SMT, <1>1, <1>4 DEF LessPending, Counters
<1>5. ASSUME NEW d \in Deliveries, SenderStep(d) PROVE LossShows'
  <2>1. UNCHANGED run /\ (UNCHANGED counts \/ \E S : More(S))
    BY <1>5 DEF SenderStep
  <2> QED BY SMTT(30), <1>1, <1>2, <1>3, <2>1
<1>6. CASE RunStep
  <2>1. CASE run.at = "overflow"
    <3>1. More({"overflow"})
      BY <1>6, <2>1 DEF RunStep, RunAt
    <3>2. counts'["overflow"] = counts["overflow"] + 1
      BY <3>1 DEF More, Counters
    <3> QED BY SMT, <1>1, <3>2
  <2>2. CASE run.at # "overflow"
    <3>1. UNCHANGED counts \/ \E S : More(S)
      BY <1>6 DEF RunStep
    <3> QED BY SMT, <1>1, <1>3, <2>2, <3>1
  <2> QED BY <2>1, <2>2
<1>7. CASE WriterStep
  <2>1. UNCHANGED run /\ (UNCHANGED counts \/ \E S : LessPending(S))
    BY <1>7 DEF WriterStep, RunIdle
  <2> QED BY SMT, <1>1, <1>2, <1>4, <2>1
<1>8. ASSUME NEW d \in Deliveries, ExecutorStep(d) PROVE LossShows'
  BY <1>2, <1>8 DEF ExecutorStep, RunIdle
<1>9. CASE ShutdownStep
  BY <1>2, <1>9 DEF ShutdownStep, RunIdle
<1> QED BY <1>5, <1>6, <1>7, <1>8, <1>9 DEF AtomicStep

\* An offered delivery is found in a place, with the executor or in the
\* journal, unless a loss shows.
LEMMA RelayFound ==
    ASSUME RelayTypeOK, HandsInv, FoundInv, AtomicStep
    PROVE  FoundInv'
<1> USE RelayConstants
<1>1. CASE LossShows
  BY <1>1, LossStays DEF FoundInv
<1>2. CASE ~LossShows
  <2>1. /\ queue \in Seq(Deliveries) /\ gaps \in Seq(Deliveries)
        /\ offer \in [Deliveries -> {"idle", "entered", "admitted", "queued",
                                     "overflow", "returned", "refused"}]
        /\ counts["overflow"] \in Nat /\ counts["errors"] \in Nat
    BY DEF RelayTypeOK, Counters
  <2>2. Journal /\ run.at # "overflow"
    BY <1>2 DEF LossShows
  <2>3. \A d \in Deliveries : offer[d] \in {"queued", "returned"} =>
            In(queue, d) \/ run.has = d \/ In(gaps, d) \/ writer.has = d \/ d \in received \cup synced
    BY <1>2 DEF FoundInv
  <2>4. ASSUME NEW d \in Deliveries, SenderStep(d) PROVE FoundInv'
    <3>1. UNCHANGED <<run, writer, synced, received>>
      BY <2>4 DEF SenderStep, WriterIdle
    <3>2. PICK to : offer' = [offer EXCEPT ![d] = to]
      BY <2>4 DEF SenderStep, Moves
    <3>3. offer'[d] = to /\ \A e \in Deliveries : e # d => offer'[e] = offer[e]
      BY <2>1, <3>2
    <3>4. \A e : In(queue, e) => In(queue', e)
      <4>1. queue' = queue \/ queue' = Append(queue, d)
        BY <2>4 DEF SenderStep
      <4>2. \A e : In(queue, e) => In(Append(queue, d), e)
        BY <2>1, SendChannel
      <4> QED BY <4>1, <4>2
    <3>5. \A e : In(gaps, e) => In(gaps', e)
      <4>1. gaps' = gaps \/ gaps' = Append(gaps, d)
        BY <2>4 DEF SenderStep
      <4>2. \A e : In(gaps, e) => In(Append(gaps, d), e)
        BY <2>1, SendChannel
      <4> QED BY <4>1, <4>2
    <3>6. ASSUME offer'[d] \in {"queued", "returned"}
          PROVE  \/ In(queue', d) \/ run.has = d \/ In(gaps', d) \/ writer.has = d
                 \/ d \in received \cup synced \/ LossShows'
      <4>1. CASE queue' = Append(queue, d)
        BY ZenonT(30), <2>1, <4>1, SendChannel
      <4>2. CASE gaps' = Append(gaps, d)
        BY ZenonT(30), <2>1, <4>2, SendChannel
      <4>3. CASE Moves(d, "queued", "returned")
        BY <2>3, <3>4, <3>5, <4>3 DEF Moves
      <4>4. CASE Moves(d, "overflow", "returned") /\ More({"overflow"})
        <5>1. counts'["overflow"] = counts["overflow"] + 1
          BY <4>4 DEF More, Counters
        <5> QED BY SMT, <2>1, <5>1 DEF LossShows
      <4>5. CASE \/ Moves(d, "idle", "entered") \/ Moves(d, "entered", "refused")
                 \/ Moves(d, "entered", "admitted") \/ Moves(d, "admitted", "overflow")
        BY <2>1, <3>6, <4>5 DEF Moves
      <4> QED BY <2>4, <4>1, <4>2, <4>3, <4>4, <4>5 DEF SenderStep
    <3> QED BY <2>3, <3>1, <3>3, <3>4, <3>5, <3>6 DEF FoundInv
  <2>5. ASSUME NEW d \in Deliveries, ExecutorStep(d) PROVE FoundInv'
    BY <2>3, <2>5 DEF ExecutorStep, SenderIdle, RunIdle, WriterIdle, FoundInv
  <2>6. CASE RunStep
    <3>1. UNCHANGED <<offer, writer, synced, received>>
      BY <2>6 DEF RunStep, SenderIdle, WriterIdle
    <3>2. CASE UNCHANGED <<queue, gaps>> /\ (run'.has = run.has \/ run.has \in received)
      BY <2>3, <3>1, <3>2 DEF FoundInv
    <3>3. CASE queue # <<>> /\ queue' = Tail(queue) /\ UNCHANGED gaps /\ run'.has = Head(queue)
               /\ run.at = "select"
      <4>1. \A e : In(queue, e) <=> In(queue', e) \/ e = Head(queue)
        BY <2>1, <3>3, ReceiveChannel
      <4>2. run.has = Nil
        BY <3>3 DEF HandsInv
      <4> QED BY <2>3, <3>1, <3>3, <4>1, <4>2 DEF FoundInv
    <3>4. CASE gaps' = Append(gaps, run.has) /\ UNCHANGED queue /\ run.at = "failed"
      <4>1. run.has \in Deliveries
        BY <3>4 DEF HandsInv, RelayTypeOK
      <4>2. \A e : In(gaps', e) <=> In(gaps, e) \/ e = run.has
        BY SMTT(30), <2>1, <3>4, <4>1, SendChannel
      <4> QED BY <2>3, <3>1, <3>4, <4>2 DEF FoundInv
    <3>5. CASE run'.at = "overflow"
      BY <3>5 DEF FoundInv, LossShows
    <3> QED BY SMTT(30), <2>6, <3>2, <3>3, <3>4, <3>5 DEF RunStep, RunAt
  <2>7. CASE WriterStep
    <3>1. UNCHANGED <<offer, queue, run, received>>
      BY <2>7 DEF WriterStep, SenderIdle, RunIdle
    <3>2. CASE UNCHANGED <<gaps, synced>> /\ writer'.has = writer.has
      BY <2>3, <3>1, <3>2 DEF FoundInv
    <3>3. CASE gaps # <<>> /\ gaps' = Tail(gaps) /\ UNCHANGED synced /\ writer'.has = Head(gaps)
               /\ writer.at = "loop"
      <4>1. \A e : In(gaps, e) <=> In(gaps', e) \/ e = Head(gaps)
        BY <2>1, <3>3, ReceiveChannel
      <4>2. writer.has = Nil
        BY <3>3 DEF HandsInv
      <4> QED BY <2>3, <3>1, <3>3, <4>1, <4>2 DEF FoundInv
    <3>4. CASE synced' = synced \cup {writer.has} /\ UNCHANGED gaps
      BY <2>3, <3>1, <3>4 DEF FoundInv
    <3>5. CASE LessPending({"errors"})
      <4>1. counts'["errors"] = counts["errors"] + 1
        BY <3>5 DEF LessPending, Counters
      <4> QED BY SMTT(30), <2>1, <4>1 DEF FoundInv, LossShows
    <3>6. ASSUME NEW from, NEW to, NEW draining, NEW has, WriterAt(from, to, draining, has)
          PROVE  writer.at = from /\ writer'.has = has
      BY SMT, <3>6 DEF WriterAt
    <3>7. CASE /\ gaps # <<>> /\ gaps' = Tail(gaps) /\ UNCHANGED <<counts, synced>>
               /\ WriterAt("loop", "recording", writer.draining, Head(gaps))
      BY <3>3, <3>6, <3>7
    <3>8. CASE /\ UNCHANGED <<gaps, counts, synced>>
               /\ \E from, to, draining : WriterAt(from, to, draining, writer.has)
      BY <3>2, <3>6, <3>8
    <3> QED BY <2>2, <2>7, <3>4, <3>5, <3>7, <3>8 DEF WriterStep
  <2>8. CASE ShutdownStep
    BY <2>3, <2>8 DEF ShutdownStep, RunIdle, WriterIdle, FoundInv
  <2> QED BY <2>4, <2>5, <2>6, <2>7, <2>8 DEF AtomicStep
<1> QED BY <1>1, <1>2
-----------------------------------------------------------------------------
(***************************************************************************)
(* The counters.                                                           *)
(***************************************************************************)

\* The numbers that the equations of CountsInv are about.
LEMMA Numbers ==
    ASSUME RelayTypeOK, CountsInv
    PROVE  /\ \A c \in Counters : counts[c] \in Nat
           /\ Len(queue) \in Nat /\ Len(gaps) \in Nat
           /\ Cardinality(At(offer, "queued")) \in Nat
           /\ Cardinality(At(offer, "overflow")) \in Nat
           /\ Cardinality(synced) \in Nat
BY SMT, FS_CardinalityType DEF RelayTypeOK, CountsInv

\* The equation of the queue, with the set of the senders at their count.
LEMMA QueueEquation ==
    QueueAccounted <=>
        counts["accepted"] + Cardinality(At(offer, "queued"))
            = counts["posted"] + counts["failed"] + Len(queue)
              + (IF run.at \in {"posting", "failed"} THEN 1 ELSE 0)
BY DEF QueueAccounted, At

\* A sender that goes from one step of offer to another leaves the set of the
\* senders at the first and joins the set of those at the second.
LEMMA SenderMoves ==
    ASSUME RelayTypeOK, NEW d \in Deliveries, NEW from, NEW to, from # to, Moves(d, from, to)
    PROVE  /\ \A w : w # to /\ w # from => At(offer', w) = At(offer, w)
           /\ At(offer', to) = At(offer, to) \cup {d} /\ d \notin At(offer, to)
           /\ At(offer', from) = At(offer, from) \ {d} /\ d \in At(offer, from)
<1>1. offer[d] = from /\ offer'[d] = to /\ \A e \in Deliveries : e # d => offer'[e] = offer[e]
  BY DEF Moves, RelayTypeOK
<1>2. \A w : w # to /\ w # from => At(offer', w) = At(offer, w)
  BY <1>1 DEF At
<1>3. At(offer', to) = At(offer, to) \cup {d} /\ d \notin At(offer, to)
  BY <1>1 DEF At
<1>4. At(offer', from) = At(offer, from) \ {d} /\ d \in At(offer, from)
  BY SMT, <1>1 DEF At
<1> QED BY <1>2, <1>3, <1>4

\* A sender counts what it did with its delivery.
LEMMA SenderCounts ==
    ASSUME RelayTypeOK, CountsInv, NEW d \in Deliveries, SenderStep(d)
    PROVE  CountsInv'
<1>1. UNCHANGED <<run, writer, synced>>
  BY DEF SenderStep, WriterIdle
<1>2. queue \in Seq(Deliveries) /\ gaps \in Seq(Deliveries)
  BY DEF RelayTypeOK
<1> DEFINE Q == At(offer, "queued")
           O == At(offer, "overflow")
<1>3. PICK b \in Nat, w \in Nat, v \in Nat :
         /\ b = IF run.at \in {"posting", "failed"} THEN 1 ELSE 0
         /\ w = IF writer.at = "recording" THEN 1 ELSE 0
         /\ v = IF run.at = "overflow" THEN 1 ELSE 0
  BY SMT
<1>4. PICK q \in Nat, g \in Nat, s \in Nat, cq \in Nat, co \in Nat :
         /\ q = Len(queue) /\ g = Len(gaps)
         /\ s = Cardinality(synced) /\ cq = Cardinality(Q) /\ co = Cardinality(O)
  BY Numbers
<1>5. PICK ac \in Nat, po \in Nat, fa \in Nat, dr \in Nat, ov \in Nat, er \in Nat, pe \in Nat :
         /\ ac = counts["accepted"] /\ po = counts["posted"] /\ fa = counts["failed"]
         /\ dr = counts["dropped"] /\ ov = counts["overflow"] /\ er = counts["errors"]
         /\ pe = counts["pending"]
  BY Numbers DEF Counters
<1>6. /\ IsFiniteSet(Q) /\ IsFiniteSet(O) /\ IsFiniteSet(synced)
      /\ ac + cq = po + fa + q + b /\ pe = g + w
      /\ Journal => dr + fa = s + ov + er + pe + co + v
  BY <1>3, <1>4, <1>5, QueueEquation DEF CountsInv, PendingCoversGaps, LossesAddUp
<1>7. ASSUME IsFiniteSet(At(offer', "queued")), IsFiniteSet(At(offer', "overflow")),
             counts'["accepted"] + Cardinality(At(offer', "queued"))
               = counts'["posted"] + counts'["failed"] + Len(queue') + b,
             counts'["pending"] = Len(gaps') + w,
             Journal => counts'["dropped"] + counts'["failed"]
               = s + counts'["overflow"] + counts'["errors"] + counts'["pending"]
                 + Cardinality(At(offer', "overflow")) + v
      PROVE  CountsInv'
  <2>1. QueueAccounted'
    BY <1>1, <1>3, <1>7 DEF QueueAccounted, At
  <2>2. PendingCoversGaps'
    BY <1>1, <1>3, <1>7 DEF PendingCoversGaps
  <2>3. Journal => LossesAddUp'
    BY <1>1, <1>3, <1>4, <1>7 DEF LossesAddUp
  <2> QED BY <1>1, <1>6, <1>7, <2>1, <2>2, <2>3 DEF CountsInv
<1> HIDE DEF Q, O
<1>8. CASE /\ \/ Moves(d, "idle", "entered") \/ Moves(d, "entered", "refused")
              \/ Moves(d, "entered", "admitted")
           /\ UNCHANGED <<queue, gaps, counts>>
  <2>1. At(offer', "queued") = Q /\ At(offer', "overflow") = O
    BY SMT, <1>8, SenderMoves DEF Q, O
  <2>2. Len(queue') = q /\ Len(gaps') = g
    BY <1>4, <1>8
  <2> QED BY <1>4, <1>5, <1>6, <1>7, <1>8, <2>1, <2>2
<1>9. CASE /\ Moves(d, "admitted", "queued") /\ queue' = Append(queue, d)
           /\ UNCHANGED <<gaps, counts>>
  <2>1. /\ At(offer', "queued") = Q \cup {d} /\ d \notin Q
        /\ At(offer', "overflow") = O
    BY SMT, <1>9, SenderMoves DEF Q, O
  <2>2. /\ IsFiniteSet(At(offer', "queued")) /\ IsFiniteSet(At(offer', "overflow"))
        /\ Cardinality(At(offer', "queued")) = cq + 1
        /\ Cardinality(At(offer', "overflow")) = co
    BY ZenonT(30), <1>4, <1>6, <2>1, CountMoves
  <2>3. Len(queue') = q + 1 /\ Len(gaps') = g
    BY <1>2, <1>4, <1>9, SendChannel
  <2>4. /\ counts'["accepted"] = ac
        /\ counts'["posted"] = po
        /\ counts'["failed"] = fa
        /\ counts'["dropped"] = dr
        /\ counts'["overflow"] = ov
        /\ counts'["errors"] = er
        /\ counts'["pending"] = pe
    BY <1>5, <1>9 DEF More, Counters
  <2>5. counts'["accepted"] + Cardinality(At(offer', "queued"))
          = counts'["posted"] + counts'["failed"] + Len(queue') + b
    BY SMTT(30), <1>6, <2>2, <2>3, <2>4
  <2>6. counts'["pending"] = Len(gaps') + w
    BY <1>6, <2>2, <2>3, <2>4
  <2>7. Journal => counts'["dropped"] + counts'["failed"]
          = s + counts'["overflow"] + counts'["errors"] + counts'["pending"]
            + Cardinality(At(offer', "overflow")) + v
    BY <1>6, <2>2, <2>3, <2>4
  <2> QED BY <1>7, <2>2, <2>5, <2>6, <2>7
<1>10. CASE /\ Moves(d, "admitted", "returned") /\ gaps' = Append(gaps, d)
            /\ More({"dropped", "pending"}) /\ UNCHANGED queue
  <2>1. /\ At(offer', "queued") = Q
        /\ At(offer', "overflow") = O
    BY SMT, <1>10, SenderMoves DEF Q, O
  <2>2. /\ IsFiniteSet(At(offer', "queued")) /\ IsFiniteSet(At(offer', "overflow"))
        /\ Cardinality(At(offer', "queued")) = cq
        /\ Cardinality(At(offer', "overflow")) = co
    BY <1>4, <1>6, <2>1, CountMoves
  <2>3. Len(queue') = q /\ Len(gaps') = g + 1
    BY <1>2, <1>4, <1>10, SendChannel
  <2>4. /\ counts'["accepted"] = ac
        /\ counts'["posted"] = po
        /\ counts'["failed"] = fa
        /\ counts'["dropped"] = dr + 1
        /\ counts'["overflow"] = ov
        /\ counts'["errors"] = er
        /\ counts'["pending"] = pe + 1
    BY <1>5, <1>10 DEF More, Counters
  <2>5. counts'["accepted"] + Cardinality(At(offer', "queued"))
          = counts'["posted"] + counts'["failed"] + Len(queue') + b
    BY <1>6, <2>2, <2>3, <2>4
  <2>6. counts'["pending"] = Len(gaps') + w
    BY SMTT(30), <1>6, <2>2, <2>3, <2>4
  <2>7. Journal => counts'["dropped"] + counts'["failed"]
          = s + counts'["overflow"] + counts'["errors"] + counts'["pending"]
            + Cardinality(At(offer', "overflow")) + v
    <3>1. Journal => (dr + 1) + fa = s + ov + er + (pe + 1) + co + v
      BY SMT, <1>6
    <3> QED BY <2>2, <2>4, <3>1
  <2> QED BY <1>7, <2>2, <2>5, <2>6, <2>7
<1>11. CASE Moves(d, "admitted", "overflow") /\ More({"dropped"}) /\ UNCHANGED <<queue, gaps>>
  <2>1. /\ At(offer', "queued") = Q
        /\ At(offer', "overflow") = O \cup {d} /\ d \notin O
    BY SMTT(30), <1>11, SenderMoves DEF Q, O
  <2>2. /\ IsFiniteSet(At(offer', "queued")) /\ IsFiniteSet(At(offer', "overflow"))
        /\ Cardinality(At(offer', "queued")) = cq
        /\ Cardinality(At(offer', "overflow")) = co + 1
    BY ZenonT(30), <1>4, <1>6, <2>1, CountMoves
  <2>3. Len(queue') = q /\ Len(gaps') = g
    BY <1>2, <1>4, <1>11, SendChannel
  <2>4. /\ counts'["accepted"] = ac
        /\ counts'["posted"] = po
        /\ counts'["failed"] = fa
        /\ counts'["dropped"] = dr + 1
        /\ counts'["overflow"] = ov
        /\ counts'["errors"] = er
        /\ counts'["pending"] = pe
    BY <1>5, <1>11 DEF More, Counters
  <2>5. counts'["accepted"] + Cardinality(At(offer', "queued"))
          = counts'["posted"] + counts'["failed"] + Len(queue') + b
    BY <1>6, <2>2, <2>3, <2>4
  <2>6. counts'["pending"] = Len(gaps') + w
    BY <1>6, <2>2, <2>3, <2>4
  <2>7. Journal => counts'["dropped"] + counts'["failed"]
          = s + counts'["overflow"] + counts'["errors"] + counts'["pending"]
            + Cardinality(At(offer', "overflow")) + v
    <3>1. Journal => (dr + 1) + fa = s + ov + er + pe + (co + 1) + v
      BY SMT, <1>6
    <3> QED BY <2>2, <2>4, <3>1
  <2> QED BY <1>7, <2>2, <2>5, <2>6, <2>7
<1>12. CASE Moves(d, "queued", "returned") /\ More({"accepted"}) /\ UNCHANGED <<queue, gaps>>
  <2>1. /\ At(offer', "queued") = Q \ {d} /\ d \in Q
        /\ At(offer', "overflow") = O
    BY SMTT(30), <1>12, SenderMoves DEF Q, O
  <2>2. /\ IsFiniteSet(At(offer', "queued")) /\ IsFiniteSet(At(offer', "overflow"))
        /\ Cardinality(At(offer', "queued")) \in Nat /\ cq = Cardinality(At(offer', "queued")) + 1
        /\ Cardinality(At(offer', "overflow")) = co
    BY SMTT(30), <1>4, <1>6, <2>1, CountMoves
  <2>3. Len(queue') = q /\ Len(gaps') = g
    BY <1>2, <1>4, <1>12, SendChannel
  <2>4. /\ counts'["accepted"] = ac + 1
        /\ counts'["posted"] = po
        /\ counts'["failed"] = fa
        /\ counts'["dropped"] = dr
        /\ counts'["overflow"] = ov
        /\ counts'["errors"] = er
        /\ counts'["pending"] = pe
    BY <1>5, <1>12 DEF More, Counters
  <2>5. counts'["accepted"] + Cardinality(At(offer', "queued"))
          = counts'["posted"] + counts'["failed"] + Len(queue') + b
    BY SMTT(30), <1>6, <2>2, <2>3, <2>4
  <2>6. counts'["pending"] = Len(gaps') + w
    BY <1>6, <2>2, <2>3, <2>4
  <2>7. Journal => counts'["dropped"] + counts'["failed"]
          = s + counts'["overflow"] + counts'["errors"] + counts'["pending"]
            + Cardinality(At(offer', "overflow")) + v
    BY <1>6, <2>2, <2>3, <2>4
  <2> QED BY <1>7, <2>2, <2>5, <2>6, <2>7
<1>13. CASE Moves(d, "overflow", "returned") /\ More({"overflow"}) /\ UNCHANGED <<queue, gaps>>
  <2>1. /\ At(offer', "queued") = Q
        /\ At(offer', "overflow") = O \ {d} /\ d \in O
    BY SMTT(30), <1>13, SenderMoves DEF Q, O
  <2>2. /\ IsFiniteSet(At(offer', "queued")) /\ IsFiniteSet(At(offer', "overflow"))
        /\ Cardinality(At(offer', "queued")) = cq
        /\ Cardinality(At(offer', "overflow")) \in Nat /\ co = Cardinality(At(offer', "overflow")) + 1
    BY SMTT(30), <1>4, <1>6, <2>1, CountMoves
  <2>3. Len(queue') = q /\ Len(gaps') = g
    BY <1>2, <1>4, <1>13, SendChannel
  <2>4. /\ counts'["accepted"] = ac
        /\ counts'["posted"] = po
        /\ counts'["failed"] = fa
        /\ counts'["dropped"] = dr
        /\ counts'["overflow"] = ov + 1
        /\ counts'["errors"] = er
        /\ counts'["pending"] = pe
    BY <1>5, <1>13 DEF More, Counters
  <2>5. counts'["accepted"] + Cardinality(At(offer', "queued"))
          = counts'["posted"] + counts'["failed"] + Len(queue') + b
    BY <1>6, <2>2, <2>3, <2>4
  <2>6. counts'["pending"] = Len(gaps') + w
    BY <1>6, <2>2, <2>3, <2>4
  <2>7. Journal => counts'["dropped"] + counts'["failed"]
          = s + counts'["overflow"] + counts'["errors"] + counts'["pending"]
            + Cardinality(At(offer', "overflow")) + v
    BY SMTT(30), <1>6, <2>2, <2>3, <2>4
  <2> QED BY <1>7, <2>2, <2>5, <2>6, <2>7
<1> QED BY <1>8, <1>9, <1>10, <1>11, <1>12, <1>13 DEF SenderStep

\* The relay goroutine counts what became of its delivery.
LEMMA RunCounts ==
    ASSUME RelayTypeOK, HandsInv, CountsInv, RunStep
    PROVE  CountsInv'
<1>1. UNCHANGED <<offer, writer, synced>>
  BY DEF RunStep, SenderIdle, WriterIdle
<1>2. queue \in Seq(Deliveries) /\ gaps \in Seq(Deliveries)
  BY DEF RelayTypeOK
<1>3. PICK w \in Nat : w = IF writer.at = "recording" THEN 1 ELSE 0
  OBVIOUS
<1>4. PICK q \in Nat, g \in Nat, s \in Nat, cq \in Nat, co \in Nat :
         /\ q = Len(queue) /\ g = Len(gaps) /\ s = Cardinality(synced)
         /\ cq = Cardinality(At(offer, "queued")) /\ co = Cardinality(At(offer, "overflow"))
  BY Numbers
<1>5. PICK ac \in Nat, po \in Nat, fa \in Nat, dr \in Nat, ov \in Nat, er \in Nat, pe \in Nat :
         /\ ac = counts["accepted"] /\ po = counts["posted"] /\ fa = counts["failed"]
         /\ dr = counts["dropped"] /\ ov = counts["overflow"] /\ er = counts["errors"]
         /\ pe = counts["pending"]
  BY Numbers DEF Counters
<1> DEFINE Busy(at) == IF at \in {"posting", "failed"} THEN 1 ELSE 0
           Over(at) == IF at = "overflow" THEN 1 ELSE 0
<1>6. /\ ac + cq = po + fa + q + Busy(run.at) /\ pe = g + w
      /\ Journal => dr + fa = s + ov + er + pe + co + Over(run.at)
  BY <1>3, <1>4, <1>5, QueueEquation DEF CountsInv, PendingCoversGaps, LossesAddUp
<1>7. ASSUME counts'["accepted"] + cq
               = counts'["posted"] + counts'["failed"] + Len(queue') + Busy(run'.at),
             counts'["pending"] = Len(gaps') + w,
             Journal => counts'["dropped"] + counts'["failed"]
               = s + counts'["overflow"] + counts'["errors"] + counts'["pending"] + co
                 + Over(run'.at)
      PROVE  CountsInv'
  <2>1. QueueAccounted'
    BY <1>1, <1>4, <1>7 DEF QueueAccounted, At
  <2>2. PendingCoversGaps'
    BY <1>1, <1>3, <1>7 DEF PendingCoversGaps
  <2>3. Journal => LossesAddUp'
    BY <1>1, <1>4, <1>7 DEF LossesAddUp
  <2> QED BY <1>1, <2>1, <2>2, <2>3 DEF CountsInv
<1>8. CASE /\ queue # <<>> /\ queue' = Tail(queue) /\ UNCHANGED <<gaps, counts>>
           /\ \E at \in {"posting", "failed"} : RunAt("select", at, run.draining, Head(queue))
  <2>1. /\ Busy(run.at) = 0 /\ Busy(run'.at) = 1 /\ Over(run.at) = 0 /\ Over(run'.at) = 0
    BY SMT, <1>8 DEF RunAt
  <2>2. q = Len(queue') + 1 /\ Len(queue') \in Nat /\ Len(gaps') = g
    BY <1>2, <1>4, <1>8, ReceiveChannel
  <2>3. /\ counts'["accepted"] = ac
        /\ counts'["posted"] = po
        /\ counts'["failed"] = fa
        /\ counts'["dropped"] = dr
        /\ counts'["overflow"] = ov
        /\ counts'["errors"] = er
        /\ counts'["pending"] = pe
    BY <1>5, <1>8 DEF More, Counters
  <2> HIDE DEF Busy, Over
  <2>4. counts'["accepted"] + cq
          = counts'["posted"] + counts'["failed"] + Len(queue') + Busy(run'.at)
    <3>1. ac + cq = po + fa + Len(queue') + 1
      BY SMTT(30), <1>6, <2>1, <2>2
    <3> QED BY <2>1, <2>2, <2>3, <3>1
  <2>5. counts'["pending"] = Len(gaps') + w
    BY <1>6, <2>2, <2>3
  <2>6. Journal => counts'["dropped"] + counts'["failed"]
          = s + counts'["overflow"] + counts'["errors"] + counts'["pending"] + co + Over(run'.at)
    <3>1. Journal => dr + fa = s + ov + er + pe + co + 0
      BY <1>6, <2>1
    <3> QED BY <2>1, <2>3, <3>1
  <2> QED BY ZenonT(30), <1>7, <2>4, <2>5, <2>6
<1>9. CASE /\ RunAt("posting", "select", FALSE, Nil)
           /\ More({"posted"}) /\ UNCHANGED <<queue, gaps>>
  <2>1. /\ Busy(run.at) = 1 /\ Busy(run'.at) = 0 /\ Over(run.at) = 0 /\ Over(run'.at) = 0
    BY <1>9 DEF RunAt
  <2>2. Len(queue') = q /\ Len(gaps') = g
    BY <1>2, <1>4, <1>9
  <2>3. /\ counts'["accepted"] = ac
        /\ counts'["posted"] = po + 1
        /\ counts'["failed"] = fa
        /\ counts'["dropped"] = dr
        /\ counts'["overflow"] = ov
        /\ counts'["errors"] = er
        /\ counts'["pending"] = pe
    BY <1>5, <1>9 DEF More, Counters
  <2> HIDE DEF Busy, Over
  <2>4. counts'["accepted"] + cq
          = counts'["posted"] + counts'["failed"] + Len(queue') + Busy(run'.at)
    <3>1. ac + cq = (po + 1) + fa + q + 0
      BY SMT, <1>6, <2>1, <2>2
    <3> QED BY <2>1, <2>2, <2>3, <3>1
  <2>5. counts'["pending"] = Len(gaps') + w
    BY <1>6, <2>2, <2>3
  <2>6. Journal => counts'["dropped"] + counts'["failed"]
          = s + counts'["overflow"] + counts'["errors"] + counts'["pending"] + co + Over(run'.at)
    <3>1. Journal => dr + fa = s + ov + er + pe + co + 0
      BY <1>6, <2>1
    <3> QED BY <2>1, <2>3, <3>1
  <2> QED BY <1>7, <2>4, <2>5, <2>6
<1>10. CASE /\ RunAt("posting", "failed", run.draining, run.has)
            /\ UNCHANGED <<queue, gaps, counts>>
  <2>1. /\ Busy(run.at) = 1 /\ Busy(run'.at) = 1 /\ Over(run.at) = 0 /\ Over(run'.at) = 0
    BY <1>10 DEF RunAt
  <2>2. Len(queue') = q /\ Len(gaps') = g
    BY <1>2, <1>4, <1>10
  <2>3. /\ counts'["accepted"] = ac
        /\ counts'["posted"] = po
        /\ counts'["failed"] = fa
        /\ counts'["dropped"] = dr
        /\ counts'["overflow"] = ov
        /\ counts'["errors"] = er
        /\ counts'["pending"] = pe
    BY <1>5, <1>10 DEF More, Counters
  <2> HIDE DEF Busy, Over
  <2>4. counts'["accepted"] + cq
          = counts'["posted"] + counts'["failed"] + Len(queue') + Busy(run'.at)
    <3>1. ac + cq = po + fa + q + 1
      BY <1>6, <2>1, <2>2
    <3> QED BY <2>1, <2>2, <2>3, <3>1
  <2>5. counts'["pending"] = Len(gaps') + w
    BY <1>6, <2>2, <2>3
  <2>6. Journal => counts'["dropped"] + counts'["failed"]
          = s + counts'["overflow"] + counts'["errors"] + counts'["pending"] + co + Over(run'.at)
    <3>1. Journal => dr + fa = s + ov + er + pe + co + 0
      BY <1>6, <2>1
    <3> QED BY <2>1, <2>3, <3>1
  <2> QED BY <1>7, <2>4, <2>5, <2>6
<1>11. CASE /\ RunAt("failed", "select", run.draining, Nil) /\ gaps' = Append(gaps, run.has)
            /\ More({"failed", "pending"}) /\ UNCHANGED queue
  <2>0. run.has \in Deliveries
    BY <1>11 DEF RunAt, HandsInv, RelayTypeOK
  <2>1. /\ Busy(run.at) = 1 /\ Busy(run'.at) = 0 /\ Over(run.at) = 0 /\ Over(run'.at) = 0
    BY <1>11 DEF RunAt
  <2>2. Len(queue') = q /\ Len(gaps') = g + 1
    BY <1>2, <1>4, <1>11, <2>0, SendChannel
  <2>3. /\ counts'["accepted"] = ac
        /\ counts'["posted"] = po
        /\ counts'["failed"] = fa + 1
        /\ counts'["dropped"] = dr
        /\ counts'["overflow"] = ov
        /\ counts'["errors"] = er
        /\ counts'["pending"] = pe + 1
    BY <1>5, <1>11 DEF More, Counters
  <2> HIDE DEF Busy, Over
  <2>4. counts'["accepted"] + cq
          = counts'["posted"] + counts'["failed"] + Len(queue') + Busy(run'.at)
    <3>1. ac + cq = po + (fa + 1) + q + 0
      BY SMTT(30), <1>6, <2>1, <2>2
    <3> QED BY <2>1, <2>2, <2>3, <3>1
  <2>5. counts'["pending"] = Len(gaps') + w
    BY SMTT(30), <1>6, <2>2, <2>3
  <2>6. Journal => counts'["dropped"] + counts'["failed"]
          = s + counts'["overflow"] + counts'["errors"] + counts'["pending"] + co + Over(run'.at)
    <3>1. Journal => dr + (fa + 1) = s + ov + er + (pe + 1) + co + 0
      BY SMTT(30), <1>6, <2>1
    <3> QED BY <2>1, <2>3, <3>1
  <2> QED BY <1>7, <2>4, <2>5, <2>6
<1>12. CASE /\ RunAt("failed", "overflow", run.draining, Nil)
            /\ More({"failed"}) /\ UNCHANGED <<queue, gaps>>
  <2>1. /\ Busy(run.at) = 1 /\ Busy(run'.at) = 0 /\ Over(run.at) = 0 /\ Over(run'.at) = 1
    BY <1>12 DEF RunAt
  <2>2. Len(queue') = q /\ Len(gaps') = g
    BY <1>2, <1>4, <1>12
  <2>3. /\ counts'["accepted"] = ac
        /\ counts'["posted"] = po
        /\ counts'["failed"] = fa + 1
        /\ counts'["dropped"] = dr
        /\ counts'["overflow"] = ov
        /\ counts'["errors"] = er
        /\ counts'["pending"] = pe
    BY <1>5, <1>12 DEF More, Counters
  <2> HIDE DEF Busy, Over
  <2>4. counts'["accepted"] + cq
          = counts'["posted"] + counts'["failed"] + Len(queue') + Busy(run'.at)
    <3>1. ac + cq = po + (fa + 1) + q + 0
      BY SMTT(30), <1>6, <2>1, <2>2
    <3> QED BY <2>1, <2>2, <2>3, <3>1
  <2>5. counts'["pending"] = Len(gaps') + w
    BY <1>6, <2>2, <2>3
  <2>6. Journal => counts'["dropped"] + counts'["failed"]
          = s + counts'["overflow"] + counts'["errors"] + counts'["pending"] + co + Over(run'.at)
    <3>1. Journal => dr + (fa + 1) = s + ov + er + pe + co + 1
      BY SMTT(30), <1>6, <2>1
    <3> QED BY <2>1, <2>3, <3>1
  <2> QED BY <1>7, <2>4, <2>5, <2>6
<1>13. CASE /\ RunAt("overflow", "select", run.draining, run.has)
            /\ More({"overflow"}) /\ UNCHANGED <<queue, gaps>>
  <2>1. /\ Busy(run.at) = 0 /\ Busy(run'.at) = 0 /\ Over(run.at) = 1 /\ Over(run'.at) = 0
    BY <1>13 DEF RunAt
  <2>2. Len(queue') = q /\ Len(gaps') = g
    BY <1>2, <1>4, <1>13
  <2>3. /\ counts'["accepted"] = ac
        /\ counts'["posted"] = po
        /\ counts'["failed"] = fa
        /\ counts'["dropped"] = dr
        /\ counts'["overflow"] = ov + 1
        /\ counts'["errors"] = er
        /\ counts'["pending"] = pe
    BY <1>5, <1>13 DEF More, Counters
  <2> HIDE DEF Busy, Over
  <2>4. counts'["accepted"] + cq
          = counts'["posted"] + counts'["failed"] + Len(queue') + Busy(run'.at)
    <3>1. ac + cq = po + fa + q + 0
      BY <1>6, <2>1, <2>2
    <3> QED BY <2>1, <2>2, <2>3, <3>1
  <2>5. counts'["pending"] = Len(gaps') + w
    BY <1>6, <2>2, <2>3
  <2>6. Journal => counts'["dropped"] + counts'["failed"]
          = s + counts'["overflow"] + counts'["errors"] + counts'["pending"] + co + Over(run'.at)
    <3>1. Journal => dr + fa = s + (ov + 1) + er + pe + co + 0
      BY SMTT(30), <1>6, <2>1
    <3> QED BY <2>1, <2>3, <3>1
  <2> QED BY <1>7, <2>4, <2>5, <2>6
<1>14. CASE /\ \/ RunAt("select", "select", TRUE, run.has)
               \/ RunAt("select", "done", run.draining, run.has)
            /\ UNCHANGED <<queue, gaps, counts>>
  <2>1. /\ Busy(run.at) = 0 /\ Busy(run'.at) = 0 /\ Over(run.at) = 0 /\ Over(run'.at) = 0
    BY SMT, <1>14 DEF RunAt
  <2>2. Len(queue') = q /\ Len(gaps') = g
    BY <1>2, <1>4, <1>14
  <2>3. /\ counts'["accepted"] = ac
        /\ counts'["posted"] = po
        /\ counts'["failed"] = fa
        /\ counts'["dropped"] = dr
        /\ counts'["overflow"] = ov
        /\ counts'["errors"] = er
        /\ counts'["pending"] = pe
    BY <1>5, <1>14 DEF More, Counters
  <2> HIDE DEF Busy, Over
  <2>4. counts'["accepted"] + cq
          = counts'["posted"] + counts'["failed"] + Len(queue') + Busy(run'.at)
    <3>1. ac + cq = po + fa + q + 0
      BY <1>6, <2>1, <2>2
    <3> QED BY <2>1, <2>2, <2>3, <3>1
  <2>5. counts'["pending"] = Len(gaps') + w
    BY <1>6, <2>2, <2>3
  <2>6. Journal => counts'["dropped"] + counts'["failed"]
          = s + counts'["overflow"] + counts'["errors"] + counts'["pending"] + co + Over(run'.at)
    <3>1. Journal => dr + fa = s + ov + er + pe + co + 0
      BY <1>6, <2>1
    <3> QED BY <2>1, <2>3, <3>1
  <2> QED BY <1>7, <2>4, <2>5, <2>6
<1> QED BY <1>8, <1>9, <1>10, <1>11, <1>12, <1>13, <1>14 DEF RunStep

\* The gap goroutine counts a gap as pending until it is journalled or has
\* failed to be.
LEMMA WriterCounts ==
    ASSUME RelayTypeOK, HandsInv, PlacesInv, CountsInv, WriterStep
    PROVE  CountsInv'
<1>1. UNCHANGED <<offer, queue, run>>
  BY DEF WriterStep, SenderIdle, RunIdle
<1>2. gaps \in Seq(Deliveries)
  BY DEF RelayTypeOK
<1>3. PICK v \in Nat : v = IF run.at = "overflow" THEN 1 ELSE 0
  OBVIOUS
<1>4. PICK g \in Nat, s \in Nat, co \in Nat :
         g = Len(gaps) /\ s = Cardinality(synced) /\ co = Cardinality(At(offer, "overflow"))
  BY Numbers
<1>5. PICK ac \in Nat, po \in Nat, fa \in Nat, dr \in Nat, ov \in Nat, er \in Nat, pe \in Nat :
         /\ ac = counts["accepted"] /\ po = counts["posted"] /\ fa = counts["failed"]
         /\ dr = counts["dropped"] /\ ov = counts["overflow"] /\ er = counts["errors"]
         /\ pe = counts["pending"]
  BY Numbers DEF Counters
<1> DEFINE Held(at) == IF at = "recording" THEN 1 ELSE 0
<1>6. /\ pe = g + Held(writer.at)
      /\ Journal => dr + fa = s + ov + er + pe + co + v
  BY <1>3, <1>4, <1>5 DEF CountsInv, PendingCoversGaps, LossesAddUp
<1>7. ASSUME counts'["accepted"] = ac, counts'["posted"] = po, counts'["failed"] = fa,
             IsFiniteSet(synced'),
             counts'["pending"] = Len(gaps') + Held(writer'.at),
             Journal => counts'["dropped"] + fa
               = Cardinality(synced') + counts'["overflow"] + counts'["errors"]
                 + counts'["pending"] + co + v
      PROVE  CountsInv'
  <2>1. QueueAccounted'
    BY <1>1, <1>5, <1>7 DEF CountsInv, QueueAccounted
  <2>2. PendingCoversGaps'
    BY <1>7 DEF PendingCoversGaps
  <2>3. Journal => LossesAddUp'
    BY <1>1, <1>3, <1>4, <1>7 DEF LossesAddUp
  <2> QED BY <1>1, <1>7, <2>1, <2>2, <2>3 DEF CountsInv
<1>8. IsFiniteSet(synced)
  BY DEF CountsInv
<1>9. CASE /\ gaps # <<>> /\ gaps' = Tail(gaps) /\ UNCHANGED <<counts, synced>>
           /\ WriterAt("loop", "recording", writer.draining, Head(gaps))
  <2>1. Held(writer.at) = 0 /\ Held(writer'.at) = 1
    BY <1>9 DEF WriterAt
  <2>2. g = Len(gaps') + 1 /\ Len(gaps') \in Nat
    BY <1>2, <1>4, <1>9, ReceiveChannel
  <2> HIDE DEF Held
  <2>3. pe = Len(gaps') + 1
    BY SMTT(30), <1>6, <2>1, <2>2
  <2> QED BY <1>4, <1>5, <1>6, <1>7, <1>8, <1>9, <2>1, <2>3
<1>10. CASE WriterAt("recording", "loop", writer.draining, Nil) /\ UNCHANGED gaps
  <2>1. Held(writer.at) = 1 /\ Held(writer'.at) = 0
    BY <1>10 DEF WriterAt
  <2>2. Len(gaps') = g
    BY <1>4, <1>10
  <2> HIDE DEF Held
  <2>3. ASSUME NEW S, S \in {{}, {"errors"}}, LessPending(S)
        PROVE  /\ counts'["accepted"] = ac /\ counts'["posted"] = po /\ counts'["failed"] = fa
               /\ counts'["dropped"] = dr /\ counts'["overflow"] = ov
               /\ counts'["pending"] = g /\ pe = g + 1
               /\ counts'["errors"] = IF S = {} THEN er ELSE er + 1
    <3>1. counts'["pending"] \in Nat /\ pe = counts'["pending"] + 1
      BY <1>5, <2>3 DEF LessPending, Counters
    <3>2. pe = g + 1
      BY <1>6, <2>1
    <3>3. counts'["pending"] = g
      BY SMT, <3>1, <3>2
    <3> QED BY <1>5, <2>3, <3>2, <3>3 DEF LessPending, Counters
  <2>4. CASE Journal /\ synced' = synced \cup {writer.has} /\ LessPending({})
    <3>1. writer.has \in Deliveries /\ writer.has \notin synced
      BY <1>10 DEF WriterAt, HandsInv, PlacesInv, RelayTypeOK
    <3>2. IsFiniteSet(synced') /\ Cardinality(synced') = s + 1
      BY ZenonT(30), <1>4, <1>8, <2>4, <3>1, CountMoves
    <3>3. dr + fa = (s + 1) + ov + er + g + co + v
      BY SMT, <1>6, <2>3, <2>4
    <3>4. /\ counts'["accepted"] = ac /\ counts'["posted"] = po /\ counts'["failed"] = fa
          /\ counts'["dropped"] = dr /\ counts'["overflow"] = ov
          /\ counts'["pending"] = g /\ counts'["errors"] = er
      BY <2>3, <2>4
    <3>5. counts'["pending"] = Len(gaps') + Held(writer'.at)
      BY SMTT(30), <2>1, <2>2, <3>4
    <3>6. counts'["dropped"] + fa
            = Cardinality(synced') + counts'["overflow"] + counts'["errors"]
              + counts'["pending"] + co + v
      BY <3>2, <3>3, <3>4
    <3> QED BY <1>7, <3>2, <3>4, <3>5, <3>6
  <2>5. CASE Journal /\ UNCHANGED synced /\ LessPending({"errors"})
    <3>1. dr + fa = s + ov + (er + 1) + g + co + v
      BY SMT, <1>6, <2>3, <2>5
    <3>2. {"errors"} # {}
      OBVIOUS
    <3>3. /\ counts'["accepted"] = ac /\ counts'["posted"] = po /\ counts'["failed"] = fa
          /\ counts'["dropped"] = dr /\ counts'["overflow"] = ov
          /\ counts'["pending"] = g /\ counts'["errors"] = er + 1
      BY <2>3, <2>5, <3>2
    <3>4. counts'["pending"] = Len(gaps') + Held(writer'.at)
      BY SMTT(30), <2>1, <2>2, <3>3
    <3>5. counts'["dropped"] + fa
            = Cardinality(synced') + counts'["overflow"] + counts'["errors"]
              + counts'["pending"] + co + v
      BY ZenonT(30), <1>4, <2>5, <3>1, <3>3
    <3> QED BY <1>7, <1>8, <2>5, <3>3, <3>4, <3>5
  <2>6. CASE ~Journal /\ UNCHANGED synced /\ LessPending({})
    BY SMTT(30), <1>7, <1>8, <2>1, <2>2, <2>3, <2>6
  <2> QED BY <1>10, <2>4, <2>5, <2>6 DEF WriterStep, WriterAt
<1>11. CASE /\ \/ WriterAt("loop", "joining", writer.draining, writer.has)
               \/ WriterAt("joining", "loop", TRUE, writer.has)
               \/ WriterAt("loop", "done", writer.draining, writer.has)
            /\ UNCHANGED <<gaps, counts, synced>>
  <2>1. Held(writer.at) = 0 /\ Held(writer'.at) = 0
    BY SMT, <1>11 DEF WriterAt
  <2> HIDE DEF Held
  <2> QED BY ZenonT(30), <1>4, <1>5, <1>6, <1>7, <1>8, <1>11, <2>1
<1> QED BY <1>9, <1>10, <1>11 DEF WriterStep

\* Every step keeps the counters exact.
LEMMA RelayCounts ==
    ASSUME RelayTypeOK, HandsInv, PlacesInv, CountsInv, AtomicStep
    PROVE  CountsInv'
<1>1. ASSUME UNCHANGED <<offer, queue, gaps, run, writer, counts, synced>> PROVE CountsInv'
  BY <1>1 DEF CountsInv, QueueAccounted, PendingCoversGaps, LossesAddUp
<1>2. ASSUME NEW d \in Deliveries, ExecutorStep(d) PROVE CountsInv'
  BY <1>1, <1>2 DEF ExecutorStep, SenderIdle, RunIdle, WriterIdle
<1>3. CASE ShutdownStep
  BY <1>1, <1>3 DEF ShutdownStep, RunIdle, WriterIdle
<1> QED BY <1>2, <1>3, SenderCounts, RunCounts, WriterCounts DEF AtomicStep
-----------------------------------------------------------------------------
\* A new relay has offered, queued and counted nothing.
LEMMA RelayStart == newRelay => RelayInv
<1> SUFFICES ASSUME newRelay PROVE RelayInv
  OBVIOUS
<1> USE RelayConstants DEF newRelay, Waiting
<1>1. RelayTypeOK
  <2>1. <<>> \in Seq(Deliveries) /\ Len(<<>>) <= QueueCap /\ Len(<<>>) <= GapCap
    BY SMT, EmptyChannel
  <2>2. /\ run \in [at : {"select", "posting", "failed", "overflow", "done"},
                    draining : BOOLEAN, has : Deliveries \cup {Nil}]
        /\ writer \in [at : {"loop", "joining", "recording", "done"},
                       draining : BOOLEAN, has : Deliveries \cup {Nil}]
    OBVIOUS
  <2>3. /\ counts \in [Counters -> Nat]
        /\ journal \in [current : SUBSET Deliveries, previous : SUBSET Deliveries]
        /\ offer \in [Deliveries -> {"idle", "entered", "admitted", "queued",
                                     "overflow", "returned", "refused"}]
    OBVIOUS
  <2> QED BY <2>1, <2>2, <2>3 DEF RelayTypeOK
<1>2. run.at = "select" /\ run.has = Nil /\ ~run.draining
      /\ writer.at = "loop" /\ writer.has = Nil /\ ~writer.draining
  OBVIOUS
<1>3. HandsInv /\ ShutdownInv
  BY <1>2 DEF HandsInv, ShutdownInv
<1>4. PlacesInv /\ FoundInv
  BY <1>2, EmptyChannel DEF PlacesInv, FoundInv
<1>5. At(offer, "queued") = {} /\ At(offer, "overflow") = {}
  BY DEF At
<1>6. IsFiniteSet({}) /\ Cardinality({}) = 0
  BY FS_EmptySet
<1>7. /\ Cardinality(At(offer, "queued")) = 0 /\ Cardinality(At(offer, "overflow")) = 0
      /\ Cardinality(synced) = 0 /\ Len(queue) = 0 /\ Len(gaps) = 0
  BY <1>5, <1>6, EmptyChannel
<1>8. /\ counts["accepted"] = 0 /\ counts["posted"] = 0 /\ counts["failed"] = 0
      /\ counts["dropped"] = 0 /\ counts["overflow"] = 0 /\ counts["errors"] = 0
      /\ counts["pending"] = 0
  BY DEF Counters
<1> HIDE DEF newRelay
<1>9. CountsInv
  <2>1. QueueAccounted
    BY SMTT(30), <1>2, <1>7, <1>8, QueueEquation
  <2>2. PendingCoversGaps
    BY SMTT(30), <1>2, <1>7, <1>8 DEF PendingCoversGaps
  <2>3. LossesAddUp
    BY SMTT(30), <1>2, <1>7, <1>8 DEF LossesAddUp
  <2>4. synced = {}
    BY DEF newRelay
  <2> QED BY <1>5, <1>6, <2>1, <2>2, <2>3, <2>4 DEF CountsInv
<1> QED BY <1>1, <1>3, <1>4, <1>9 DEF RelayInv

\* A step of the relay, of a sender, of the executor or of shutdown keeps the
\* inductive invariant.
LEMMA RelayStepInv == RelayInv /\ [RelayNext]_relayVars => RelayInv'
<1> SUFFICES ASSUME RelayInv, [RelayNext]_relayVars PROVE RelayInv'
  OBVIOUS
<1>1. RelayTypeOK /\ HandsInv /\ ShutdownInv /\ PlacesInv /\ FoundInv /\ CountsInv
  BY DEF RelayInv
<1>2. CASE RelayNext
  <2>1. AtomicStep
    BY <1>1, <1>2, RelaySteps DEF CountsInv
  <2> QED BY <1>1, <1>2, <2>1, RelayTypes, RelayHands, RelayShutdown, RelayPlaces, RelayFound,
             RelayCounts DEF RelayInv
<1>3. CASE UNCHANGED relayVars
  <2> USE <1>3 DEF relayVars, shared
  <2>1. RelayTypeOK' /\ HandsInv' /\ ShutdownInv'
    BY ZenonT(30), <1>1 DEF RelayTypeOK, HandsInv, ShutdownInv
  <2>2. PlacesInv' /\ FoundInv'
    BY <1>1 DEF PlacesInv, FoundInv, LossShows
  <2>3. CountsInv'
    BY <1>1 DEF CountsInv, QueueAccounted, PendingCoversGaps, LossesAddUp
  <2> QED BY <2>1, <2>2, <2>3 DEF RelayInv
<1> QED BY <1>2, <1>3

\* The invariant of relay.go and relay_gaps.go: where every delivery is, and
\* what the counters, the channels and the goroutines' hands say of it.
THEOREM RelayInvariant == RelaySpec => []RelayInv
BY RelayStart, RelayStepInv, PTL DEF RelaySpec

\* What RelaySnapshot reports as complete was confirmed by the executor or is in
\* the journal: when the gap goroutine has ended within the budget of shutdown,
\* both channels are empty, both hands are, and no sender is on its way.
LEMMA CompleteIsReconciled == RelayInv => CompleteMeansReconciled
<1> SUFFICES ASSUME RelayInv, ReconciliationComplete, NEW d \in Deliveries,
                    offer[d] \notin {"idle", "entered", "refused"}
             PROVE  d \in received \cup synced
  BY DEF CompleteMeansReconciled
<1> USE RelayConstants
<1>1. /\ writer.at = "done" /\ ~incomplete /\ queue = <<>> /\ Journal
      /\ ~(counts["overflow"] > 0) /\ ~(counts["errors"] > 0)
      /\ run.at \notin {"posting", "failed", "overflow"}
  BY SMT DEF ReconciliationComplete
<1>2. cancelled /\ gaps = <<>>
  BY <1>1 DEF RelayInv, ShutdownInv
<1>3. offer[d] = "returned"
  BY <1>1, <1>2 DEF RelayInv, ShutdownInv, RelayTypeOK
<1>4. run.has = Nil /\ writer.has = Nil
  BY <1>1 DEF RelayInv, HandsInv
<1>5. ~LossShows
  BY <1>1 DEF LossShows
<1> QED BY <1>1, <1>2, <1>3, <1>4, <1>5, EmptyChannel DEF RelayInv, FoundInv

\* After an orderly stop nothing is pending and nobody is about to count, so
\* that the losses are the journalled, the overflowed and the failed ones.
LEMMA StoppedLossesAddUp == RelayInv => LossesAreCounted
<1> SUFFICES ASSUME RelayInv, writer.at = "done", ~incomplete, Journal
             PROVE  counts["dropped"] + counts["failed"]
                      = Cardinality(synced) + counts["overflow"] + counts["errors"]
  BY DEF LossesAreCounted
<1>1. cancelled /\ gaps = <<>> /\ run.at = "done"
  BY DEF RelayInv, ShutdownInv
<1>2. At(offer, "overflow") = {}
  BY <1>1 DEF RelayInv, ShutdownInv, At
<1>3. Cardinality(At(offer, "overflow")) = 0
  BY <1>2, FS_EmptySet
<1>4. counts["pending"] = 0
  BY SMT, <1>1, EmptyChannel DEF RelayInv, CountsInv, PendingCoversGaps
<1>5. PICK s \in Nat, ov \in Nat, er \in Nat :
         s = Cardinality(synced) /\ ov = counts["overflow"] /\ er = counts["errors"]
  BY Numbers DEF RelayInv, Counters
<1>6. counts["dropped"] + counts["failed"] = s + ov + er + 0 + 0 + 0
  BY <1>1, <1>3, <1>4, <1>5 DEF RelayInv, CountsInv, LossesAddUp
<1> QED BY SMT, <1>5, <1>6

\* Counters, queue and journal of the success relay account for every delivery
\* it admitted, in whichever order the senders, the two goroutines, shutdown
\* and the executor run, with any number of deliveries and any capacities.
THEOREM RelayAccountsForAll == RelaySpec => []RelayAccounts
<1>1. RelayInv => RelayAccounts
  BY CompleteIsReconciled, StoppedLossesAddUp DEF RelayInv, RelayAccounts, CountsInv
<1> QED BY <1>1, RelayInvariant, PTL

-----------------------------------------------------------------------------
(***************************************************************************)
(* ConfigController: the receivers and configs that the tenants hold are   *)
(* those of the cluster.                                                   *)
(***************************************************************************)
\* Nothing is deleted, and the manager has one spec.
Steady == Removable = {} /\ \A s, t \in Specs : s = t

\* getTenantID under the selectors of s.
TenantOf(s, labels) ==
    IF s.global \cap labels # {} THEN globalTenantID
    ELSE IF s.tenant \cap labels # {} /\ \E p \in labels : p[1] = s.tenantKey
    THEN (CHOOSE p \in labels : p[1] = s.tenantKey)[2]
    ELSE IF s.default # Nil /\ s.default \subseteq labels THEN defaultConfig ELSE ""

Elements(s) == {s[i] : i \in 1 .. Len(s)}
Informers == Kinds \cup {"managers"}
Queued(q) == UNION {Elements(q[k]) : k \in Informers}
ToFeed(gs) == UNION {g.todo : g \in gs}

\* The tasks that are still to be run, and what a reload would list.
Work == Queued(events) \cup Elements(ch) \cup ToFeed(reloads)
Listed == {Task("update", o[1], o[2], object[o]) : o \in {x \in Objects : object[x] # Nil}}
Sources == {t \in Work : t.kind \in Kinds} \cup Listed

Resources == [version : Nat, labels : LabelSets]
ObjectTasks == [op : {"add", "update"}, kind : Kinds, name : {o[2] : o \in Objects}, obj : Resources]
ManagerTasks == [op : {"update"}, kind : {"managers"}, name : {"nm"}, obj : Specs]
Tasks == ObjectTasks \cup ManagerTasks
Reloads == [id : Nat, need : SUBSET Kinds, todo : SUBSET ObjectTasks]

ControllerTypeOK ==
    /\ version \in Nat /\ object \in [Objects -> Resources \cup {Nil}]
    /\ events \in [Informers -> Seq(Tasks)] /\ ch \in Seq(Tasks)
    /\ reloads \subseteq Reloads /\ IsFiniteSet(reloads)
    /\ DOMAIN held = Kinds

\* Tasks of one object and version agree, none is newer than the object, and the
\* task that adds the object is the oldest.
SourcesInv ==
    /\ \A t \in Sources :
          /\ <<t.kind, t.name>> \in Objects /\ object[<<t.kind, t.name>>] # Nil
          /\ 0 < t.obj.version /\ t.obj.version <= object[<<t.kind, t.name>>].version
    /\ \A o \in Objects : object[o] # Nil => object[o].version <= version
    /\ \A t, u \in Sources : t.kind = u.kind /\ t.name = u.name =>
          /\ t.obj.version = u.obj.version => t.obj.labels = u.obj.labels
          /\ t.op = "add" => t.obj.version <= u.obj.version

\* An entry is a version of its object, is under the tenant of that version, and
\* is not older than the task that adds the object.
HeldInv ==
    /\ \A k \in Kinds : \A e \in held[k] :
          /\ nmAdd /\ e = Entry(e.tenant, e.name, e.version) /\ e.version \in Nat
          /\ <<k, e.name>> \in Objects /\ object[<<k, e.name>>] # Nil
          /\ e.version <= object[<<k, e.name>>].version
          /\ \A t \in Sources : t.kind = k /\ t.name = e.name =>
                /\ t.obj.version = e.version => e.tenant = TenantOf(spec, t.obj.labels)
                /\ t.op = "add" => t.obj.version <= e.version
    /\ HeldOnce
    /\ IF nmAdd THEN spec \in Specs ELSE spec = NoSpec

ControllerInv == ControllerTypeOK /\ SourcesInv /\ HeldInv

\* What is not held in its latest version is on its way; of a Discord receiver any
\* version will do.
OnItsWay(o) ==
    \/ \E t \in Work : t.kind = o[1] /\ t.name = o[2] /\ t.obj = object[o]
    \/ \E g \in reloads : o[1] \in g.need
Latest(o) == Entry(TenantOf(spec, object[o].labels), o[2], object[o].version)
Arrived(o) ==
    IF o \in Versioned THEN Latest(o) \in held[o[1]] ELSE \E e \in held[o[1]] : e.name = o[2]
ArrivalInv ==
    nmAdd => \A o \in Objects : object[o] # Nil /\ TenantOf(spec, object[o].labels) # "" =>
        Arrived(o) \/ OnItsWay(o)

\* getTenantID reads the selectors of the controller.
LEMMA TenantIDs == \A l : getTenantID(l) = TenantOf(spec, l)
  BY DEF getTenantID, isGlobal, isTenant, isDefaultConfig, TenantOf

\* What Append, Head and Tail do to the elements of a channel.
LEMMA ElementsOf ==
    ASSUME NEW q \in Seq(Tasks), NEW t \in Tasks
    PROVE  /\ Elements(Append(q, t)) = Elements(q) \cup {t} /\ Append(q, t) \in Seq(Tasks)
           /\ Elements(q) \subseteq Tasks
           /\ q # <<>> => /\ Head(q) \in Elements(q) /\ Tail(q) \in Seq(Tasks)
                          /\ Elements(q) = Elements(Tail(q)) \cup {Head(q)}
<1>1. Elements(Append(q, t)) = Elements(q) \cup {t} /\ Append(q, t) \in Seq(Tasks)
  <2>1. Elements(Append(q, t)) \subseteq Elements(q) \cup {t}
    BY SMT DEF Elements
  <2>2. Elements(q) \subseteq Elements(Append(q, t))
    BY SMT DEF Elements
  <2>3. t \in Elements(Append(q, t))
    <3>1. Len(q) + 1 \in 1 .. Len(Append(q, t)) /\ Append(q, t)[Len(q) + 1] = t
      BY SMT
    <3> QED BY <3>1 DEF Elements
  <2> QED BY SMTT(30), <2>1, <2>2, <2>3
<1>2. Elements(q) \subseteq Tasks
  BY SMT DEF Elements
<1>3. ASSUME q # <<>>
      PROVE  /\ Head(q) \in Elements(q) /\ Tail(q) \in Seq(Tasks)
             /\ Elements(q) = Elements(Tail(q)) \cup {Head(q)}
  <2>1. Head(q) \in Elements(q) /\ Tail(q) \in Seq(Tasks)
    BY SMT, <1>3 DEF Elements
  <2>2. Elements(Tail(q)) \subseteq Elements(q)
    BY SMT, <1>3 DEF Elements
  <2>3. ASSUME NEW i \in 1 .. Len(q) PROVE q[i] = Head(q) \/ q[i] \in Elements(Tail(q))
    <3>1. CASE i = 1
      BY SMT, <1>3, <3>1
    <3>2. CASE i # 1
      <4>1. i - 1 \in 1 .. Len(Tail(q)) /\ Tail(q)[i - 1] = q[i]
        BY SMTT(30), <1>3, <2>3, <3>2
      <4> QED BY <4>1 DEF Elements
    <3> QED BY <3>1, <3>2
  <2>4. Elements(q) \subseteq Elements(Tail(q)) \cup {Head(q)}
    BY <2>3 DEF Elements
  <2> QED BY <2>1, <2>2, <2>4
<1> QED BY <1>1, <1>2, <1>3

\* The tasks of the informers, when one gets another or hands its first over.
LEMMA QueuedOf ==
    ASSUME NEW q \in [Informers -> Seq(Tasks)], NEW k \in Informers
    PROVE  /\ Queued(q) \subseteq Tasks
           /\ \A t \in Tasks : /\ [q EXCEPT ![k] = Append(@, t)] \in [Informers -> Seq(Tasks)]
                               /\ Queued([q EXCEPT ![k] = Append(@, t)]) = Queued(q) \cup {t}
           /\ q[k] # <<>> => /\ Head(q[k]) \in Queued(q) /\ [q EXCEPT ![k] = Tail(@)] \in [Informers -> Seq(Tasks)]
                             /\ Queued(q) = Queued([q EXCEPT ![k] = Tail(@)]) \cup {Head(q[k])}
<1>1. \A l \in Informers : q[l] \in Seq(Tasks)
  OBVIOUS
<1>2. Queued(q) \subseteq Tasks
  <2>1. \A l \in Informers : Elements(q[l]) \subseteq Tasks
    BY SMT, <1>1 DEF Elements
  <2> QED BY <2>1 DEF Queued
<1>3. ASSUME NEW s \in Seq(Tasks)
      PROVE  /\ [q EXCEPT ![k] = s] \in [Informers -> Seq(Tasks)]
             /\ Queued([q EXCEPT ![k] = s]) = (UNION {Elements(q[l]) : l \in Informers \ {k}}) \cup Elements(s)
  <2>1. \A l \in Informers : [q EXCEPT ![k] = s][l] = IF l = k THEN s ELSE q[l]
    OBVIOUS
  <2> QED BY <2>1 DEF Queued
<1>4. Queued(q) = (UNION {Elements(q[l]) : l \in Informers \ {k}}) \cup Elements(q[k])
  BY DEF Queued
<1>5. ASSUME NEW t \in Tasks
      PROVE  /\ [q EXCEPT ![k] = Append(@, t)] \in [Informers -> Seq(Tasks)]
             /\ Queued([q EXCEPT ![k] = Append(@, t)]) = Queued(q) \cup {t}
  <2>1. Elements(Append(q[k], t)) = Elements(q[k]) \cup {t} /\ Append(q[k], t) \in Seq(Tasks)
    BY <1>1, ElementsOf
  <2> QED BY <1>3, <1>4, <2>1
<1>6. ASSUME q[k] # <<>>
      PROVE  /\ Head(q[k]) \in Queued(q) /\ [q EXCEPT ![k] = Tail(@)] \in [Informers -> Seq(Tasks)]
             /\ Queued(q) = Queued([q EXCEPT ![k] = Tail(@)]) \cup {Head(q[k])}
  <2>1. /\ Head(q[k]) \in Elements(q[k]) /\ Tail(q[k]) \in Seq(Tasks)
        /\ Elements(q[k]) = Elements(Tail(q[k])) \cup {Head(q[k])}
    <3>1. \E t : t \in Tasks
      BY SMTT(30), <1>1, <1>6
    <3> QED BY <1>1, <1>6, <3>1, ElementsOf
  <2> QED BY <1>3, <1>4, <2>1
<1> QED BY <1>2, <1>5, <1>6

\* A reload goroutine g becomes h, or ends when h has nothing left.
LEMMA ReloadsOf ==
    ASSUME NEW gs, IsFiniteSet(gs), gs \subseteq Reloads, NEW g \in gs, NEW h \in Reloads,
           NEW hs, hs = {h} \/ (hs = {} /\ h.need = {} /\ h.todo = {})
    PROVE  /\ IsFiniteSet((gs \ {g}) \cup hs) /\ (gs \ {g}) \cup hs \subseteq Reloads
           /\ ToFeed((gs \ {g}) \cup hs) \subseteq ToFeed(gs) \cup h.todo
           /\ ToFeed(gs) \subseteq ToFeed((gs \ {g}) \cup hs) \cup (g.todo \ h.todo)
           /\ h.todo \subseteq ToFeed((gs \ {g}) \cup hs)
           /\ \A k : (\E r \in gs : k \in r.need) =>
                  (\E r \in (gs \ {g}) \cup hs : k \in r.need) \/ k \in g.need \ h.need
<1>1. IsFiniteSet((gs \ {g}) \cup hs)
  <2>1. IsFiniteSet(gs \ {g})
    BY FS_Subset
  <2>2. IsFiniteSet((gs \ {g}) \cup {h})
    BY <2>1, FS_AddElement
  <2>3. CASE hs = {h}
    BY <2>2, <2>3
  <2>4. CASE hs = {}
    <3>1. (gs \ {g}) \cup hs = gs \ {g}
      BY <2>4
    <3> QED BY <2>1, <3>1
  <2> QED BY <2>3, <2>4
<1>2. (gs \ {g}) \cup hs \subseteq Reloads
  OBVIOUS
<1>3. ToFeed((gs \ {g}) \cup hs) \subseteq ToFeed(gs) \cup h.todo
  BY DEF ToFeed
<1>4. h.todo \subseteq ToFeed((gs \ {g}) \cup hs)
  BY DEF ToFeed
<1>5. ToFeed(gs) \subseteq ToFeed((gs \ {g}) \cup hs) \cup (g.todo \ h.todo)
  <2>1. ASSUME NEW x \in ToFeed(gs), x \notin g.todo \ h.todo PROVE x \in ToFeed((gs \ {g}) \cup hs)
    <3>1. PICK r \in gs : x \in r.todo
      BY <2>1 DEF ToFeed
    <3>2. CASE r = g
      BY <1>4, <2>1, <3>1, <3>2
    <3>3. CASE r # g
      BY <3>1, <3>3 DEF ToFeed
    <3> QED BY <3>2, <3>3
  <2> QED BY <2>1
<1>6. ASSUME NEW k, NEW r \in gs, k \in r.need, k \notin g.need \ h.need
      PROVE  \E q \in (gs \ {g}) \cup hs : k \in q.need
  <2>1. CASE r # g
    BY <1>6, <2>1
  <2>2. CASE r = g
    BY <1>6, <2>2
  <2> QED BY <2>1, <2>2
<1> QED BY <1>1, <1>2, <1>3, <1>4, <1>5, <1>6

\* What every task is.
LEMMA WorkTypes ==
    ASSUME ControllerTypeOK
    PROVE  /\ Work \subseteq Tasks /\ Listed \subseteq ObjectTasks /\ Sources \subseteq ObjectTasks
           /\ \A t \in ObjectTasks : t.kind \in Kinds /\ t.kind # "managers"
           /\ \A t \in ManagerTasks : t.kind = "managers" /\ t.op = "update" /\ t.obj \in Specs
<1>1. \A t \in ObjectTasks : t.kind \in Kinds /\ t.kind # "managers"
  BY SMT DEF ObjectTasks, Kinds
<1>2. \A t \in ManagerTasks : t.kind = "managers" /\ t.op = "update" /\ t.obj \in Specs
  BY SMT DEF ManagerTasks
<1>3. "managers" \in Informers /\ "managers" \notin Kinds
  BY DEF Informers, Kinds
<1>4. Elements(ch) \subseteq Tasks
  BY SMT DEF ControllerTypeOK, Elements
<1>5. Queued(events) \subseteq Tasks
  BY <1>3, QueuedOf DEF ControllerTypeOK
<1>6. ToFeed(reloads) \subseteq ObjectTasks
  <2>1. \A g \in Reloads : g.todo \subseteq ObjectTasks
    BY SMT DEF Reloads
  <2> QED BY <2>1 DEF ToFeed, ControllerTypeOK
<1>7. Listed \subseteq ObjectTasks
  <2>1. ASSUME NEW o \in Objects, object[o] # Nil
        PROVE  Task("update", o[1], o[2], object[o]) \in ObjectTasks
    <3>1. object[o] \in Resources /\ o[1] \in Kinds
      BY <2>1, ControllerConstants DEF ControllerTypeOK
    <3>2. PICK n \in {x[2] : x \in Objects} : n = o[2]
      OBVIOUS
    <3> QED BY SMT, <3>1, <3>2 DEF Task, ObjectTasks
  <2> QED BY <2>1 DEF Listed
<1>8. Work \subseteq Tasks
  BY <1>4, <1>5, <1>6 DEF Work, Tasks
<1>9. Sources \subseteq ObjectTasks
  BY <1>2, <1>3, <1>7, <1>8 DEF Sources, Tasks
<1> QED BY <1>1, <1>2, <1>7, <1>8, <1>9

\* A step after which there are no other tasks, and the controller holds the same.
LEMMA FewerSources ==
    ASSUME SourcesInv, HeldInv, Sources' \subseteq Sources, UNCHANGED <<object, held, nmAdd, spec>>,
           version \in Nat, version' \in Nat, version <= version',
           \A o \in Objects : object[o] # Nil => object[o].version \in Nat
    PROVE  SourcesInv' /\ HeldInv'
<1>1. SourcesInv'
  <2>1. \A o \in Objects : object[o] # Nil => object[o].version <= version'
    BY SMT DEF SourcesInv
  <2> QED BY <2>1 DEF SourcesInv
<1>2. HeldInv'
  <2>1. HeldOnce'
    BY DEF HeldInv, HeldOnce
  <2> QED BY <2>1 DEF HeldInv
<1> QED BY <1>1, <1>2

\* A step that leaves what is held alone keeps ArrivalInv when what was on its
\* way still is.
LEMMA StillOnItsWay ==
    ASSUME ArrivalInv, UNCHANGED <<object, held, nmAdd, spec>>,
           \A o \in Objects : object[o] # Nil /\ OnItsWay(o) => OnItsWay(o)'
    PROVE  ArrivalInv'
  BY DEF ArrivalInv, Arrived, Latest

\* EditManager tells the controller of the one spec.
LEMMA EditManagerStep ==
    ASSUME Steady, ControllerInv, EditManager
    PROVE  ControllerInv' /\ held' = held /\ (ArrivalInv => ArrivalInv')
<1>1. PICK s \in Specs : events' = [events EXCEPT !["managers"] = Append(@, Task("update", "managers", "nm", s))]
  BY DEF Steady, EditManager
<1> DEFINE t == Task("update", "managers", "nm", s)
<1>2. version' = version + 1 /\ UNCHANGED <<object, ch, reloads, nmAdd, spec, held>>
  BY DEF EditManager, controller
<1>3. t \in ManagerTasks /\ t \in Tasks /\ t.kind \notin Kinds
  BY SMT DEF Task, ManagerTasks, Tasks, Kinds
<1>0. events' = [events EXCEPT !["managers"] = Append(@, t)]
  BY <1>1
<1> HIDE DEF t
<1>4. "managers" \in Informers
  BY DEF Informers
<1>5. events' \in [Informers -> Seq(Tasks)] /\ Queued(events') = Queued(events) \cup {t}
  <2>1. events \in [Informers -> Seq(Tasks)]
    BY DEF ControllerInv, ControllerTypeOK
  <2>2. \A x \in Tasks : /\ [events EXCEPT !["managers"] = Append(@, x)] \in [Informers -> Seq(Tasks)]
                         /\ Queued([events EXCEPT !["managers"] = Append(@, x)]) = Queued(events) \cup {x}
    BY <1>4, <2>1, QueuedOf
  <2> QED BY <1>0, <1>3, <2>2
<1>6. Work' = Work \cup {t}
  BY <1>2, <1>5 DEF Work
<1>7. Sources' \subseteq Sources
  BY <1>2, <1>3, <1>6 DEF Sources, Listed
<1>8. version \in Nat /\ version' \in Nat /\ version <= version'
  BY SMTT(30), <1>2 DEF ControllerInv, ControllerTypeOK
<1>9. \A o \in Objects : object[o] # Nil => object[o].version \in Nat
  BY SMT DEF ControllerInv, ControllerTypeOK, Resources
<1>10. ControllerTypeOK'
  BY <1>2, <1>5, <1>8 DEF ControllerInv, ControllerTypeOK
<1>11. SourcesInv' /\ HeldInv'
  BY <1>2, <1>7, <1>8, <1>9, FewerSources DEF ControllerInv
<1>12. ArrivalInv => ArrivalInv'
  BY <1>2, <1>6, StillOnItsWay DEF OnItsWay
<1> QED BY <1>2, <1>10, <1>11, <1>12 DEF ControllerInv

\* A step of an informer or of a reload only moves tasks, or lists what there is.
LEMMA MovingStep ==
    ASSUME ControllerInv, ControllerTypeOK', UNCHANGED <<cached, controller>>,
           Work' \subseteq Work \cup Listed
    PROVE  ControllerInv' /\ held' = held
<1>1. UNCHANGED <<object, version, held, nmAdd, spec>>
  BY DEF cached, controller
<1>2. Listed' = Listed
  BY <1>1 DEF Listed
<1>3. Sources' \subseteq Sources
  BY <1>2 DEF Sources
<1>4. version \in Nat /\ version' \in Nat /\ version <= version'
  BY SMTT(30), <1>1 DEF ControllerInv, ControllerTypeOK
<1>5. \A o \in Objects : object[o] # Nil => object[o].version \in Nat
  BY SMT DEF ControllerInv, ControllerTypeOK, Resources
<1> QED BY <1>1, <1>3, <1>4, <1>5, FewerSources DEF ControllerInv

\* onResourceChange hands an event over.
LEMMA HandOverStep ==
    ASSUME ControllerInv, NEW k \in Informers, onResourceChange(k)
    PROVE  ControllerInv' /\ held' = held /\ (ArrivalInv => ArrivalInv')
<1> DEFINE h == Head(events[k])
<1>1. /\ events[k] # <<>> /\ ch' = Append(ch, h) /\ events' = [events EXCEPT ![k] = Tail(@)]
      /\ UNCHANGED <<cached, reloads, controller>>
  BY DEF onResourceChange
<1>2. events \in [Informers -> Seq(Tasks)] /\ ch \in Seq(Tasks)
  BY DEF ControllerInv, ControllerTypeOK
<1>3. /\ h \in Queued(events) /\ events' \in [Informers -> Seq(Tasks)]
      /\ Queued(events) = Queued(events') \cup {h}
  BY <1>1, <1>2, QueuedOf
<1>4. h \in Tasks
  BY <1>2, <1>3, QueuedOf
<1> HIDE DEF h
<1>5. ch' \in Seq(Tasks) /\ Elements(ch') = Elements(ch) \cup {h}
  BY <1>1, <1>2, <1>4, ElementsOf
<1>6. Work' = Work
  BY <1>1, <1>3, <1>5 DEF Work
<1>7. ControllerTypeOK'
  BY <1>1, <1>3, <1>5 DEF ControllerInv, ControllerTypeOK, cached, controller
<1>8. ArrivalInv => ArrivalInv'
  BY <1>1, <1>6, StillOnItsWay DEF OnItsWay, cached, controller
<1> QED BY <1>1, <1>6, <1>7, <1>8, MovingStep

\* A reload lists a kind, and feeds what it found.
LEMMA ReloadStep ==
    ASSUME ControllerInv, NEW g \in reloads, List(g) \/ Feed(g)
    PROVE  ControllerInv' /\ held' = held /\ (ArrivalInv => ArrivalInv')
<1>1. /\ reloads \subseteq Reloads /\ IsFiniteSet(reloads) /\ g \in Reloads /\ ch \in Seq(Tasks)
      /\ g.need \subseteq Kinds /\ g.todo \subseteq ObjectTasks
  BY SMT DEF ControllerInv, ControllerTypeOK, Reloads
<1>2. CASE List(g)
  <2> DEFINE k == First(g.need)
             found == {Task("update", o[1], o[2], object[o]) : o \in {x \in Objects : x[1] = k /\ object[x] # Nil}}
             h == [g EXCEPT !.need = g.need \ {k}, !.todo = found]
             hs == IF h.need = {} /\ found = {} THEN {} ELSE {h}
  <2>1. g.todo = {} /\ reloads' = (reloads \ {g}) \cup hs /\ UNCHANGED <<cached, events, ch, controller>>
    BY <1>2 DEF List
  <2>2. found \subseteq Listed
    BY DEF Listed
  <2>3. found \in SUBSET ObjectTasks /\ g.need \ {k} \in SUBSET Kinds
    BY <1>1, <2>2, WorkTypes DEF ControllerInv
  <2>4. \A o \in Objects : o[1] = k /\ object[o] # Nil => Task("update", o[1], o[2], object[o]) \in found
    OBVIOUS
  <2> HIDE DEF found, k
  <2>5. h \in Reloads /\ h.need = g.need \ {k} /\ h.todo = found
    <3>1. PICK r : r = [g EXCEPT !.need = g.need \ {k}]
      OBVIOUS
    <3>2. h = [r EXCEPT !.todo = found]
      BY <3>1
    <3> HIDE DEF h
    <3>3. r \in Reloads /\ r.need = g.need \ {k}
      BY SMTT(30), <1>1, <3>1 DEF Reloads
    <3> QED BY SMTT(30), <2>3, <3>2, <3>3 DEF Reloads
  <2>6. hs = {h} \/ (hs = {} /\ h.need = {} /\ h.todo = {})
    BY <2>5
  <2> HIDE DEF h, hs
  <2>7. /\ IsFiniteSet(reloads') /\ reloads' \subseteq Reloads
        /\ ToFeed(reloads') \subseteq ToFeed(reloads) \cup found
        /\ ToFeed(reloads) \subseteq ToFeed(reloads') /\ found \subseteq ToFeed(reloads')
        /\ \A j : (\E r \in reloads : j \in r.need) => (\E r \in reloads' : j \in r.need) \/ j = k
    <3>1. /\ IsFiniteSet(reloads') /\ reloads' \subseteq Reloads
          /\ ToFeed(reloads') \subseteq ToFeed(reloads) \cup h.todo
          /\ ToFeed(reloads) \subseteq ToFeed(reloads') \cup (g.todo \ h.todo)
          /\ h.todo \subseteq ToFeed(reloads')
          /\ \A j : (\E r \in reloads : j \in r.need) =>
                 (\E r \in reloads' : j \in r.need) \/ j \in g.need \ h.need
      BY ZenonT(30), <1>1, <2>1, <2>5, <2>6, ReloadsOf
    <3> QED BY <2>1, <2>5, <3>1
  <2>8. Work' \subseteq Work \cup Listed /\ Work \subseteq Work' /\ found \subseteq Work'
    BY <2>1, <2>2, <2>7 DEF Work
  <2>9. ControllerTypeOK'
    BY <2>1, <2>7 DEF ControllerInv, ControllerTypeOK, cached, controller
  <2>10. ASSUME NEW o \in Objects, object[o] # Nil, OnItsWay(o) PROVE OnItsWay(o)'
    <3>1. CASE o[1] = k
      <4>1. Task("update", o[1], o[2], object[o]) \in Work'
        BY <2>4, <2>8, <2>10, <3>1
      <4>2. object' = object
        BY <2>1 DEF cached
      <4>3. LET t == Task("update", o[1], o[2], object[o]) IN t.kind = o[1] /\ t.name = o[2] /\ t.obj = object[o]
        BY DEF Task
      <4> QED BY <4>1, <4>2, <4>3 DEF OnItsWay
    <3>2. CASE o[1] # k
      BY <2>1, <2>7, <2>8, <2>10, <3>2 DEF OnItsWay, cached
    <3> QED BY <3>1, <3>2
  <2>11. ArrivalInv => ArrivalInv'
    BY <2>1, <2>10, StillOnItsWay DEF cached, controller
  <2> QED BY <2>1, <2>8, <2>9, <2>11, MovingStep
<1>3. CASE Feed(g)
  <2>1. PICK t \in g.todo :
          /\ ch' = Append(ch, t)
          /\ LET rest == [g EXCEPT !.todo = @ \ {t}] IN
             reloads' = (reloads \ {g}) \cup (IF rest.need = {} /\ rest.todo = {} THEN {} ELSE {rest})
    BY <1>3 DEF Feed
  <2>2. UNCHANGED <<cached, events, controller>>
    BY <1>3 DEF Feed
  <2> DEFINE h == [g EXCEPT !.todo = g.todo \ {t}]
             hs == IF h.need = {} /\ h.todo = {} THEN {} ELSE {h}
  <2>3. reloads' = (reloads \ {g}) \cup hs
    BY <2>1
  <2>4. h \in Reloads /\ h.need = g.need /\ h.todo = g.todo \ {t}
    BY SMT, <1>1 DEF Reloads
  <2>5. hs = {h} \/ (hs = {} /\ h.need = {} /\ h.todo = {})
    OBVIOUS
  <2> HIDE DEF h, hs
  <2>6. /\ IsFiniteSet(reloads') /\ reloads' \subseteq Reloads
        /\ ToFeed(reloads') \subseteq ToFeed(reloads)
        /\ ToFeed(reloads) \subseteq ToFeed(reloads') \cup {t}
        /\ \A j : (\E r \in reloads : j \in r.need) => (\E r \in reloads' : j \in r.need)
    <3>1. /\ IsFiniteSet(reloads') /\ reloads' \subseteq Reloads
          /\ ToFeed(reloads') \subseteq ToFeed(reloads) \cup h.todo
          /\ ToFeed(reloads) \subseteq ToFeed(reloads') \cup (g.todo \ h.todo)
          /\ \A j : (\E r \in reloads : j \in r.need) =>
                 (\E r \in reloads' : j \in r.need) \/ j \in g.need \ h.need
      BY <1>1, <2>3, <2>4, <2>5, ReloadsOf
    <3>2. h.todo \subseteq ToFeed(reloads)
      BY <2>4 DEF ToFeed
    <3> QED BY <2>4, <3>1, <3>2
  <2>7. t \in Tasks /\ t \in ToFeed(reloads)
    BY <1>1, <2>1 DEF Tasks, ToFeed
  <2>8. ch' \in Seq(Tasks) /\ Elements(ch') = Elements(ch) \cup {t}
    BY <1>1, <2>1, <2>7, ElementsOf
  <2>9. Work' = Work
    BY <2>2, <2>6, <2>7, <2>8 DEF Work
  <2>10. ControllerTypeOK'
    BY <2>2, <2>6, <2>8 DEF ControllerInv, ControllerTypeOK, cached, controller
  <2>11. ArrivalInv => ArrivalInv'
    BY <2>2, <2>6, <2>9, StillOnItsWay DEF OnItsWay, cached, controller
  <2> QED BY <2>2, <2>9, <2>10, <2>11, MovingStep
<1> QED BY <1>2, <1>3

\* EditObject: a version newer than all there is, and its event.
LEMMA EditObjectStep ==
    ASSUME Steady, ControllerInv, NEW o \in Objects, EditObject(o)
    PROVE  ControllerInv' /\ held' = held /\ (ArrivalInv => ArrivalInv')
<1>1. PICK l \in LabelSets, a \in {"add", "update"} :
        /\ a = IF object[o] = Nil THEN "add" ELSE "update"
        /\ object' = [object EXCEPT ![o] = [version |-> version + 1, labels |-> l]]
        /\ events' = [events EXCEPT ![o[1]] = Append(@, Task(a, o[1], o[2], [version |-> version + 1, labels |-> l]))]
  BY DEF Steady, EditObject
<1>2. version' = version + 1 /\ UNCHANGED <<ch, reloads, nmAdd, spec, held>>
  BY DEF EditObject, controller
<1>3. version \in Nat /\ object \in [Objects -> Resources \cup {Nil}] /\ events \in [Informers -> Seq(Tasks)]
  BY DEF ControllerInv, ControllerTypeOK
<1>4. PICK r \in Resources : r = [version |-> version + 1, labels |-> l] /\ r.version = version + 1 /\ r # Nil
  <2>1. [version |-> version + 1, labels |-> l] \in Resources
    BY SMTT(30), <1>3 DEF Resources
  <2> QED BY <2>1, ControllerConstants DEF Resources
<1>5. o = <<o[1], o[2]>> /\ o[1] \in Kinds /\ o[1] \in Informers
  BY ControllerConstants DEF Informers
<1>6. PICK t \in ObjectTasks, u \in ObjectTasks :
        /\ t = Task(a, o[1], o[2], r) /\ u = Task("update", o[1], o[2], r)
        /\ t.kind = o[1] /\ t.name = o[2] /\ t.obj = r /\ t.op = a
        /\ u.kind = o[1] /\ u.name = o[2] /\ u.obj = r /\ u.op = "update"
  <2>1. PICK n \in {x[2] : x \in Objects} : n = o[2]
    OBVIOUS
  <2>2. \A b \in {"add", "update"} : LET x == Task(b, o[1], n, r)
                                     IN  x \in ObjectTasks /\ x.kind = o[1] /\ x.name = n /\ x.obj = r /\ x.op = b
    BY SMTT(30), <1>5 DEF Task, ObjectTasks
  <2> QED BY <2>1, <2>2
<1>7. /\ object' \in [Objects -> Resources \cup {Nil}] /\ object'[o] = r
      /\ \A x \in Objects : x # o => object'[x] = object[x]
  BY <1>1, <1>3, <1>4
<1>8. events' \in [Informers -> Seq(Tasks)] /\ Queued(events') = Queued(events) \cup {t}
  <2>1. events' = [events EXCEPT ![o[1]] = Append(@, t)] /\ t \in Tasks
    BY <1>1, <1>4, <1>6 DEF Tasks
  <2>2. \A x \in Tasks : /\ [events EXCEPT ![o[1]] = Append(@, x)] \in [Informers -> Seq(Tasks)]
                         /\ Queued([events EXCEPT ![o[1]] = Append(@, x)]) = Queued(events) \cup {x}
    BY <1>3, <1>5, QueuedOf
  <2> QED BY <2>1, <2>2
<1>9. ControllerTypeOK'
  <2>1. version' \in Nat
    BY SMTT(30), <1>2, <1>3
  <2> QED BY ZenonT(30), <1>2, <1>7, <1>8, <2>1 DEF ControllerInv, ControllerTypeOK
<1>10. Work' = Work \cup {t}
  BY <1>2, <1>8 DEF Work
<1>11. Sources' \subseteq Sources \cup {t, u}
  <2>1. Listed' \subseteq Listed \cup {u}
    BY ZenonT(30), <1>4, <1>6, <1>7 DEF Listed
  <2> QED BY <1>10, <2>1 DEF Sources
<1>12. \A x \in Sources : x.obj.version \in Nat /\ (x.kind = o[1] /\ x.name = o[2] => object[o] # Nil)
  <2>1. \A x \in Sources : x.obj.version \in Nat
    BY SMT, WorkTypes DEF ControllerInv, ObjectTasks, Resources
  <2> QED BY <1>5, <2>1 DEF ControllerInv, SourcesInv
<1>13. \A x \in Objects : object[x] # Nil => object[x].version \in Nat /\ object[x].version <= version
  BY SMTT(30), <1>3 DEF ControllerInv, SourcesInv, Resources
<1>14. \A x \in Objects : object[x] # Nil => object'[x] # Nil /\ object[x].version <= object'[x].version
                                              /\ object'[x].version \in Nat
  BY SMTT(30), <1>3, <1>4, <1>7, <1>13
<1>15. \A x \in Sources : x.obj.version <= version
  <2>1. ASSUME NEW x \in Sources PROVE x.obj.version <= version
    <3>1. PICK y \in Objects : object[y] # Nil /\ x.obj.version <= object[y].version
      BY DEF ControllerInv, SourcesInv
    <3> QED BY SMTT(30), <1>3, <1>12, <1>13, <3>1
  <2> QED BY ZenonT(30), <2>1
<1>16. SourcesInv'
  <2>1. ASSUME NEW x \in Sources'
        PROVE  /\ <<x.kind, x.name>> \in Objects /\ object'[<<x.kind, x.name>>] # Nil
               /\ 0 < x.obj.version /\ x.obj.version <= object'[<<x.kind, x.name>>].version
    <3>1. CASE x \in Sources
      <4>1. /\ <<x.kind, x.name>> \in Objects /\ object[<<x.kind, x.name>>] # Nil
            /\ 0 < x.obj.version /\ x.obj.version <= object[<<x.kind, x.name>>].version
        BY <3>1 DEF ControllerInv, SourcesInv
      <4> QED BY SMTT(30), <1>12, <1>13, <1>14, <3>1, <4>1
    <3>2. CASE x \in {t, u}
      <4>1. <<x.kind, x.name>> = o /\ x.obj = r
        BY <1>5, <1>6, <3>2
      <4>2. 0 < r.version /\ r.version <= r.version
        BY SMTT(30), <1>3, <1>4
      <4> QED BY <1>4, <1>7, <4>1, <4>2
    <3> QED BY ZenonT(30), <1>11, <2>1, <3>1, <3>2
  <2>2. \A x \in Objects : object'[x] # Nil => object'[x].version <= version'
    BY SMTT(30), <1>2, <1>3, <1>4, <1>7, <1>13
  <2>3. ASSUME NEW x \in Sources', NEW y \in Sources', x.kind = y.kind, x.name = y.name
        PROVE  /\ x.obj.version = y.obj.version => x.obj.labels = y.obj.labels
               /\ x.op = "add" => x.obj.version <= y.obj.version
    <3>1. CASE x \in Sources /\ y \in Sources
      BY <2>3, <3>1 DEF ControllerInv, SourcesInv
    <3>2. CASE x \in Sources /\ y \in {t, u}
      <4>1. y.obj.version = version + 1
        BY <1>4, <1>6, <3>2
      <4> QED BY SMTT(30), <1>3, <1>12, <1>15, <3>2, <4>1
    <3>3. CASE x \in {t, u} /\ y \in Sources
      <4>1. x.obj.version = version + 1 /\ object[o] # Nil
        BY ZenonT(30), <1>4, <1>6, <1>12, <2>3, <3>3
      <4>2. x.op # "add"
        BY <1>1, <1>6, <3>3, <4>1
      <4> QED BY SMTT(30), <1>3, <1>12, <1>15, <3>3, <4>1, <4>2
    <3>4. CASE x \in {t, u} /\ y \in {t, u}
      <4>1. x.obj = r /\ y.obj = r /\ r.version <= r.version
        BY SMTT(30), <1>3, <1>4, <1>6, <3>4
      <4> QED BY ZenonT(30), <4>1
    <3> QED BY <1>11, <2>3, <3>1, <3>2, <3>3, <3>4
  <2> QED BY <2>1, <2>2, <2>3 DEF SourcesInv
<1>17. HeldInv'
  <2>1. ASSUME NEW k \in Kinds, NEW e \in held[k]
        PROVE  /\ nmAdd /\ e = Entry(e.tenant, e.name, e.version) /\ e.version \in Nat
               /\ <<k, e.name>> \in Objects /\ object'[<<k, e.name>>] # Nil
               /\ e.version <= object'[<<k, e.name>>].version
               /\ \A x \in Sources' : x.kind = k /\ x.name = e.name =>
                     /\ x.obj.version = e.version => e.tenant = TenantOf(spec, x.obj.labels)
                     /\ x.op = "add" => x.obj.version <= e.version
    <3>1. /\ nmAdd /\ e = Entry(e.tenant, e.name, e.version) /\ e.version \in Nat
          /\ <<k, e.name>> \in Objects /\ object[<<k, e.name>>] # Nil
          /\ e.version <= object[<<k, e.name>>].version
      BY <2>1 DEF ControllerInv, HeldInv
    <3>2. object'[<<k, e.name>>] # Nil /\ e.version <= object'[<<k, e.name>>].version /\ e.version <= version
      BY SMTT(30), <1>3, <1>13, <1>14, <3>1
    <3>3. ASSUME NEW x \in Sources', x.kind = k, x.name = e.name
          PROVE  /\ x.obj.version = e.version => e.tenant = TenantOf(spec, x.obj.labels)
                 /\ x.op = "add" => x.obj.version <= e.version
      <4>1. CASE x \in Sources
        BY <2>1, <3>3, <4>1 DEF ControllerInv, HeldInv
      <4>2. CASE x \in {t, u}
        <5>1. <<k, e.name>> = o /\ x.obj.version = version + 1 /\ (x.op = "add" => object[o] = Nil)
          BY <1>1, <1>4, <1>5, <1>6, <3>3, <4>2
        <5>2. x.op # "add"
          BY <3>1, <5>1
        <5>3. PICK n \in Nat : n = e.version /\ n <= version
          BY <3>1, <3>2
        <5>4. n # version + 1
          BY SMTT(30), <1>3, <5>3
        <5> QED BY <5>1, <5>2, <5>3, <5>4
      <4> QED BY <1>11, <3>3, <4>1, <4>2
    <3> QED BY <3>1, <3>2, <3>3
  <2>2. HeldOnce'
    BY <1>2 DEF ControllerInv, HeldInv, HeldOnce
  <2>3. IF nmAdd' THEN spec' \in Specs ELSE spec' = NoSpec
    BY <1>2 DEF ControllerInv, HeldInv
  <2> QED BY <1>2, <2>1, <2>2, <2>3 DEF HeldInv
<1>18. ASSUME ArrivalInv PROVE ArrivalInv'
  <2>1. OnItsWay(o)'
    BY <1>6, <1>7, <1>10 DEF OnItsWay
  <2>2. \A x \in Objects : x # o /\ OnItsWay(x) => OnItsWay(x)'
    BY <1>2, <1>7, <1>10 DEF OnItsWay
  <2> QED BY <1>2, <1>7, <1>18, <2>1, <2>2 DEF ArrivalInv, Arrived, Latest
<1> QED BY <1>2, <1>9, <1>16, <1>17, <1>18 DEF ControllerInv

\* What a task of an object does to the entries of its kind: entries of other names
\* stay, and there is one of this name.  Unless it is a Discord receiver, a newer
\* entry, or the same, stays; otherwise the new one takes the place of all of that name.
Outcome(entries, h, t, new) ==
    /\ \A e \in h : e \in entries \/ e = new
    /\ \A e \in entries : e.name # t.name => e \in h
    /\ \E e \in h : e.name = t.name
    /\ <<t.kind, t.name>> \in Versioned =>
         \/ /\ h = entries
            /\ \E e \in entries : e.name = t.name /\ (new.version < e.version \/ new = e)
         \/ /\ h = {e \in entries : e.name # t.name} \cup {new}
            /\ \A e \in entries : e.name = t.name => e.version <= new.version

\* Replaced, which is the body of receiverChanged and configChanged, does that.
LEMMA ReplacedEffect ==
    ASSUME ControllerInv, NEW t \in Sources, NEW h \in Replaced(held[t.kind], t), NEW new,
           new = Entry(TenantOf(spec, t.obj.labels), t.name, t.obj.version)
    PROVE  Outcome(held[t.kind], h, t, new)
<1> DEFINE mine == {e \in held[t.kind] : e.name = t.name}
           NamedBy(e) == {x \in mine : x.tenant = e.tenant}
<1>1. /\ t.kind \in Kinds /\ t.op \in {"add", "update"} /\ t.op # "delete"
      /\ t.obj.version \in Nat /\ 0 < t.obj.version
  <2>1. t \in ObjectTasks
    BY WorkTypes DEF ControllerInv
  <2>2. t.kind \in Kinds /\ t.op \in {"add", "update"} /\ t.obj.version \in Nat
    BY SMT, <2>1 DEF ObjectTasks, Resources
  <2> QED BY <2>2 DEF ControllerInv, SourcesInv
<1>2. new.version = t.obj.version /\ new.tenant = TenantOf(spec, t.obj.labels) /\ new.name = t.name
  BY DEF Entry
<1>3. <<t.kind, t.name>> \in Versioned => \A e, f \in mine : e = f
  BY <1>1 DEF ControllerInv, HeldInv, HeldOnce
<1> DEFINE Read(e) == Entry(e.tenant, e.name, GetResourceVersion(t.kind, e))
           Found == IF mine = {} THEN {Entry("", t.name, 0)} ELSE mine
           Put(e, n) == IF Stale(Read(e), n) THEN held[t.kind]
                        ELSE (held[t.kind] \ ((IF t.op = "update" THEN NamedBy(e) ELSE {}) \cup NamedBy(n))) \cup {n}
<1>4. \E e \in Found : h = Put(e, new)
  <2> DEFINE n == Entry(getTenantID(t.obj.labels), t.name, t.obj.version)
  <2>1. h \in {Put(e, n) : e \in Found}
    BY <1>1 DEF Replaced
  <2>2. new = n
    BY TenantIDs
  <2> HIDE DEF n, Put, Found
  <2> QED BY <2>1, <2>2
<1>5. CASE mine = {}
  <2>1. ~Stale(Read(Entry("", t.name, 0)), new)
    <3>1. Read(Entry("", t.name, 0)).version = 0
      BY DEF Entry, GetResourceVersion
    <3>2. \A z : z.version = 0 => ~Stale(z, new)
      BY SMT, <1>1, <1>2 DEF Stale
    <3> QED BY <3>1, <3>2
  <2>2. h = (held[t.kind] \ ((IF t.op = "update" THEN NamedBy(Entry("", t.name, 0)) ELSE {}) \cup NamedBy(new))) \cup {new}
    BY <1>4, <1>5, <2>1
  <2>3. h = held[t.kind] \cup {new} /\ \A e \in held[t.kind] : e.name # t.name
    BY <1>5, <2>2
  <2> QED BY <1>2, <2>3 DEF Outcome
<1>6. CASE mine # {}
  <2>1. PICK e \in mine : h = Put(e, new)
    BY <1>4, <1>6
  <2>2. e \in held[t.kind] /\ e.name = t.name
    BY <2>1
  <2>3. /\ e = Entry(e.tenant, e.name, e.version) /\ e.version \in Nat
        /\ t.obj.version = e.version => e.tenant = TenantOf(spec, t.obj.labels)
        /\ t.op = "add" => t.obj.version <= e.version
    BY <1>1, <2>2 DEF ControllerInv, HeldInv
  <2>4. /\ \A f \in h : f \in held[t.kind] \/ f = new
        /\ \A f \in held[t.kind] : f.name # t.name => f \in h
        /\ \E f \in h : f.name = t.name
    <3>1. CASE h = held[t.kind]
      BY <2>2, <3>1
    <3>2. CASE h = (held[t.kind] \ ((IF t.op = "update" THEN NamedBy(e) ELSE {}) \cup NamedBy(new))) \cup {new}
      BY <1>2, <3>2
    <3> QED BY <2>1, <3>1, <3>2
  <2>5. ASSUME <<t.kind, t.name>> \in Versioned
        PROVE  \/ /\ h = held[t.kind]
                  /\ \E f \in held[t.kind] : f.name = t.name /\ (new.version < f.version \/ new = f)
               \/ /\ h = {f \in held[t.kind] : f.name # t.name} \cup {new}
                  /\ \A f \in held[t.kind] : f.name = t.name => f.version <= new.version
    <3>1. \A f \in held[t.kind] : f.name = t.name => f = e
      BY <1>3, <2>2, <2>5
    <3>2. Read(e) = e
      <4>1. GetResourceVersion(t.kind, e) = e.version
        BY <2>2, <2>5 DEF GetResourceVersion, Versioned
      <4> QED BY <2>3, <4>1
    <3>3. CASE Stale(e, new)
      <4>1. new.version < e.version \/ new = e
        BY <1>2, <2>2, <2>3, <3>3 DEF Stale
      <4> QED BY <2>1, <2>2, <3>2, <3>3, <4>1
    <3>4. CASE ~Stale(e, new)
      <4>1. e.version <= new.version /\ (e.version = new.version => e.tenant # new.tenant)
        BY SMTT(30), <1>1, <1>2, <2>3, <3>4 DEF Stale
      <4>2. t.op = "update"
        <5>1. PICK m \in Nat, n \in Nat : m = e.version /\ n = new.version
          BY ZenonT(30), <1>1, <1>2, <2>3
        <5>2. t.op = "add" => m = n
          BY SMTT(30), <1>2, <2>3, <4>1, <5>1
        <5> QED BY <1>1, <1>2, <2>3, <4>1, <5>1, <5>2
      <4>3. h = (held[t.kind] \ (NamedBy(e) \cup NamedBy(new))) \cup {new}
        BY <2>1, <3>2, <3>4, <4>2
      <4>4. h = {f \in held[t.kind] : f.name # t.name} \cup {new}
        BY <2>2, <3>1, <4>3
      <4> QED BY ZenonT(30), <3>1, <4>1, <4>4
    <3> QED BY <3>3, <3>4
  <2> QED BY <2>4, <2>5 DEF Outcome
<1> QED BY <1>5, <1>6

\* What Run takes from the channel.
LEMMA RunEffect ==
    ASSUME ControllerInv, Run
    PROVE  /\ ch \in Seq(Tasks) /\ ch # <<>> /\ ch' \in Seq(Tasks) /\ Head(ch) \in Work /\ Head(ch) \in Tasks
           /\ UNCHANGED <<object, version, events>>
           /\ Elements(ch) = Elements(ch') \cup {Head(ch)}
<1>1. ch \in Seq(Tasks) /\ ch # <<>> /\ ch' = Tail(ch) /\ UNCHANGED <<object, version, events>>
  BY DEF Run, ControllerInv, ControllerTypeOK, cached
<1>2. \E t : t \in Tasks
  BY SMT, <1>1
<1>3. Head(ch) \in Elements(ch) /\ ch' \in Seq(Tasks) /\ Elements(ch) = Elements(ch') \cup {Head(ch)}
  BY <1>1, <1>2, ElementsOf
<1>4. Head(ch) \in Work
  BY <1>3 DEF Work
<1>5. Head(ch) \in Tasks
  BY <1>4, WorkTypes DEF ControllerInv
<1> QED BY <1>1, <1>3, <1>4, <1>5

\* receiverChanged and configChanged.
LEMMA ChangedStep ==
    ASSUME ControllerInv, Run, Head(ch).kind \in Kinds, Changed(Head(ch))
    PROVE  ControllerInv' /\ KeepsNewest /\ (ArrivalInv => ArrivalInv')
<1>1. PICK t \in Tasks : t = Head(ch) /\ t \in Work /\ t.kind \in Kinds
  BY RunEffect
<1>2. /\ UNCHANGED <<object, version, events, reloads, nmAdd, spec>> /\ ch' \in Seq(Tasks)
      /\ Elements(ch) = Elements(ch') \cup {t}
  BY <1>1, RunEffect DEF Changed
<1>3. Work' \subseteq Work /\ Work \subseteq Work' \cup {t} /\ Listed' = Listed
  BY <1>2 DEF Work, Listed
<1>4. t \in Sources /\ Sources' \subseteq Sources
  BY ZenonT(30), <1>1, <1>3 DEF Sources
<1>5. version \in Nat /\ version' \in Nat /\ version <= version' /\ ControllerTypeOK
  <2>1. ControllerTypeOK /\ version \in Nat /\ version' = version
    BY <1>2 DEF ControllerInv, ControllerTypeOK
  <2>2. version <= version
    BY SMTT(30), <2>1
  <2> QED BY <2>1, <2>2
<1>6. \A o \in Objects : object[o] # Nil => object[o].version \in Nat
  BY SMT DEF ControllerInv, ControllerTypeOK, Resources
<1>7. DOMAIN held = Kinds
  BY <1>5 DEF ControllerTypeOK
<1>8. CASE held' = held /\ ~(nmAdd /\ TenantOf(spec, t.obj.labels) # "")
  <2>1. ControllerTypeOK'
    BY <1>2, <1>5, <1>8 DEF ControllerTypeOK
  <2>2. SourcesInv' /\ HeldInv'
    BY <1>2, <1>4, <1>5, <1>6, <1>8, FewerSources DEF ControllerInv
  <2>3. KeepsNewest
    <3>1. \A k \in Kinds : \A e \in held[k] : e.version \in Nat
      BY ZenonT(30) DEF ControllerInv, HeldInv
    <3>2. \A k \in Kinds : \A e \in held[k] : e.version <= e.version
      BY SMT, <3>1
    <3> QED BY <1>8, <3>2 DEF KeepsNewest, ControllerInv, HeldInv, HeldOnce
  <2>4. ASSUME ArrivalInv PROVE ArrivalInv'
    <3>1. ASSUME nmAdd, NEW o \in Objects, object[o] # Nil, TenantOf(spec, object[o].labels) # "", OnItsWay(o)
          PROVE  OnItsWay(o)'
      <4>1. t.obj # object[o]
        BY <1>8, <3>1
      <4> QED BY <1>2, <1>3, <3>1, <4>1 DEF OnItsWay
    <3> QED BY <1>2, <1>8, <2>4, <3>1 DEF ArrivalInv, Arrived, Latest
  <2> QED BY <2>1, <2>2, <2>3, <2>4 DEF ControllerInv
<1>9. ASSUME nmAdd, TenantOf(spec, t.obj.labels) # "", NEW h \in Replaced(held[t.kind], t),
             held' = [held EXCEPT ![t.kind] = h]
      PROVE  ControllerInv' /\ KeepsNewest /\ (ArrivalInv => ArrivalInv')
  <2> DEFINE k == t.kind
             new == Entry(TenantOf(spec, t.obj.labels), t.name, t.obj.version)
             o == <<t.kind, t.name>>
  <2>1. held'[k] = h /\ DOMAIN held' = Kinds /\ \A j \in Kinds : j # k => held'[j] = held[j]
    BY <1>1, <1>7, <1>9
  <2>0. Outcome(held[k], h, t, new)
    BY <1>4, <1>9, ReplacedEffect
  <2>2. o \in Versioned =>
          \/ h = held[k] /\ \E e \in held[k] : e.name = t.name /\ (new.version < e.version \/ new = e)
          \/ /\ h = {e \in held[k] : e.name # t.name} \cup {new}
             /\ \A e \in held[k] : e.name = t.name => e.version <= new.version
    BY <2>0 DEF Outcome
  <2>3. /\ new.version = t.obj.version /\ new.tenant = TenantOf(spec, t.obj.labels) /\ new.name = t.name
        /\ new = Entry(new.tenant, new.name, new.version)
    BY DEF Entry
  <2>4. /\ o \in Objects /\ object[o] # Nil /\ t.obj.version <= object[o].version
    BY <1>4 DEF ControllerInv, SourcesInv
  <2>5. t.obj.version \in Nat /\ object[o].version \in Nat
    <3>1. t \in ObjectTasks
      BY <1>4, <1>5, WorkTypes
    <3>2. t.obj.version \in Nat
      BY SMT, <3>1 DEF ObjectTasks, Resources
    <3> QED BY <1>6, <2>4, <3>2
  <2> HIDE DEF new, o
  <2>6. ControllerTypeOK'
    BY <1>2, <1>5, <2>1 DEF ControllerTypeOK
  <2>7. SourcesInv'
    BY <1>2, <1>4 DEF ControllerInv, SourcesInv
  <2>8. \A e \in held[k] : e.version \in Nat /\ e.version <= e.version
    <3>1. \A e \in held[k] : e.version \in Nat
      BY <1>1 DEF ControllerInv, HeldInv
    <3> QED BY SMT, <3>1
  <2>9. /\ \A e \in h : e \in held[k] \/ e = new
        /\ \A e \in held[k] : e.name # t.name => e \in h
        /\ \E e \in h : e.name = t.name
    BY <2>0 DEF Outcome
  <2>10. HeldOnce'
    <3>1. ASSUME NEW e \in h, NEW f \in h, <<k, e.name>> \in Versioned, e.name = f.name PROVE e = f
      <4>1. \A x, y \in held[k] : <<k, x.name>> \in Versioned /\ x.name = y.name => x = y
        BY <1>1 DEF ControllerInv, HeldInv, HeldOnce
      <4>2. CASE e.name # t.name
        BY <2>3, <2>9, <3>1, <4>1, <4>2
      <4>3. CASE e.name = t.name
        <5>1. o \in Versioned
          BY <3>1, <4>3 DEF o
        <5>2. CASE h = held[k]
          BY <3>1, <4>1, <5>2
        <5>3. CASE h = {x \in held[k] : x.name # t.name} \cup {new}
          BY <3>1, <4>3, <5>3
        <5> QED BY <2>2, <5>1, <5>2, <5>3
      <4> QED BY <4>2, <4>3
    <3> QED BY <2>1, <3>1 DEF ControllerInv, HeldInv, HeldOnce
  <2>11. ASSUME NEW j \in Kinds, NEW e \in held'[j]
         PROVE  /\ e = Entry(e.tenant, e.name, e.version) /\ e.version \in Nat
                /\ <<j, e.name>> \in Objects /\ object[<<j, e.name>>] # Nil
                /\ e.version <= object[<<j, e.name>>].version
                /\ \A u \in Sources' : u.kind = j /\ u.name = e.name =>
                      /\ u.obj.version = e.version => e.tenant = TenantOf(spec, u.obj.labels)
                      /\ u.op = "add" => u.obj.version <= e.version
    <3>1. CASE e \in held[j]
      BY <1>4, <2>11, <3>1 DEF ControllerInv, HeldInv
    <3>2. CASE j = k /\ e = new
      <4>1. \A u \in Sources : u.kind = k /\ u.name = t.name =>
               /\ u.obj.version = t.obj.version => u.obj.labels = t.obj.labels
               /\ u.op = "add" => u.obj.version <= t.obj.version
        BY <1>4 DEF ControllerInv, SourcesInv
      <4>2. <<j, e.name>> = o
        BY <2>3, <3>2 DEF o
      <4>3. \A u \in Sources' : u.kind = j /\ u.name = e.name =>
               /\ u.obj.version = e.version => e.tenant = TenantOf(spec, u.obj.labels)
               /\ u.op = "add" => u.obj.version <= e.version
        BY <1>4, <2>3, <3>2, <4>1
      <4> QED BY <2>3, <2>4, <2>5, <3>2, <4>2, <4>3
    <3> QED BY <2>1, <2>9, <2>11, <3>1, <3>2
  <2>12. HeldInv'
    <3>1. IF nmAdd' THEN spec' \in Specs ELSE spec' = NoSpec
      BY <1>2 DEF ControllerInv, HeldInv
    <3>2. ASSUME NEW j \in Kinds, NEW e \in held'[j]
          PROVE  /\ nmAdd' /\ object' = object /\ spec' = spec
                 /\ e = Entry(e.tenant, e.name, e.version) /\ e.version \in Nat
                 /\ <<j, e.name>> \in Objects /\ object'[<<j, e.name>>] # Nil
                 /\ e.version <= object'[<<j, e.name>>].version
      BY <1>2, <1>9, <2>11, <3>2
    <3>3. ASSUME NEW j \in Kinds, NEW e \in held'[j], NEW u \in Sources', u.kind = j, u.name = e.name
          PROVE  /\ u.obj.version = e.version => e.tenant = TenantOf(spec', u.obj.labels)
                 /\ u.op = "add" => u.obj.version <= e.version
      BY <1>2, <2>11, <3>3
    <3> QED BY <2>10, <3>1, <3>2, <3>3 DEF HeldInv
  <2>13. KeepsNewest
    <3>1. ASSUME NEW j \in Kinds, NEW e \in held[j], NEW f \in held'[j],
                 <<j, e.name>> \in Versioned, e.name = f.name
          PROVE  e.version <= f.version
      <4>1. e.version \in Nat /\ e.version <= e.version
        <5>1. e.version \in Nat
          BY <3>1 DEF ControllerInv, HeldInv
        <5> QED BY SMT, <5>1
      <4>2. CASE f \in held[j]
        BY <3>1, <4>1, <4>2 DEF ControllerInv, HeldInv, HeldOnce
      <4>3. CASE j = k /\ f = new /\ f \notin held[k]
        <5>1. o \in Versioned
          BY <2>3, <3>1, <4>3 DEF o
        <5> QED BY <2>1, <2>2, <2>3, <3>1, <4>3, <5>1
      <4> QED BY <2>1, <2>9, <3>1, <4>2, <4>3
    <3> QED BY <3>1 DEF KeepsNewest
  <2>14. ASSUME ArrivalInv PROVE ArrivalInv'
    <3>1. ASSUME NEW x \in Objects, object[x] # Nil, TenantOf(spec, object[x].labels) # ""
          PROVE  Arrived(x)' \/ OnItsWay(x)'
      <4>1. x = <<x[1], x[2]>> /\ x[1] \in Kinds
        BY ControllerConstants
      <4>2. /\ Latest(x).name = x[2] /\ Latest(x).version = object[x].version
            /\ Latest(x).tenant = TenantOf(spec, object[x].labels)
        BY DEF Entry, Latest
      <4>3. Arrived(x) \/ OnItsWay(x)
        BY <1>9, <2>14, <3>1 DEF ArrivalInv
      <4>4. x = o => Task("update", x[1], x[2], object[x]) \in Sources
        BY <3>1 DEF Sources, Listed
      <4>5. x = o /\ t.obj.version = object[x].version => new = Latest(x)
        <5>1. LET u == Task("update", x[1], x[2], object[x]) IN u.kind = x[1] /\ u.name = x[2] /\ u.obj = object[x]
          BY DEF Task
        <5>2. x = o => t.kind = x[1] /\ t.name = x[2]
          BY SMT DEF o
        <5>3. x = o /\ t.obj.version = object[x].version => t.obj.labels = object[x].labels
          BY <1>4, <4>4, <5>1, <5>2 DEF ControllerInv, SourcesInv
        <5> QED BY <5>2, <5>3 DEF new, Latest
      <4>6. /\ x \in Versioned => (Latest(x) \in held'[x[1]] => Arrived(x)')
            /\ x \notin Versioned => ((\E e \in held'[x[1]] : e.name = x[2]) => Arrived(x)')
        <5>1. Latest(x)' = Latest(x)
          BY <1>2 DEF Latest
        <5> QED BY <5>1 DEF Arrived
      <4>7. CASE x # o
        <5>1. ~(t.kind = x[1] /\ t.name = x[2])
          BY <4>1, <4>7 DEF o
        <5>2. OnItsWay(x) => OnItsWay(x)'
          BY <1>2, <1>3, <5>1 DEF OnItsWay
        <5>3. \A e \in held[x[1]] : e.name = x[2] => e \in held'[x[1]]
          BY <2>1, <2>9, <4>1, <5>1
        <5> QED BY <4>2, <4>3, <4>6, <5>2, <5>3 DEF Arrived
      <4>8. CASE x = o /\ x \notin Versioned
        <5>1. x[1] = k /\ x[2] = t.name
          BY <4>8 DEF o
        <5> QED BY <2>1, <2>9, <4>6, <4>8, <5>1
      <4>9. CASE x = o /\ x \in Versioned
        <5>1. x[1] = k /\ x[2] = t.name
          BY <4>9 DEF o
        <5>2. CASE t.obj.version = object[x].version
          <6>1. new = Latest(x)
            BY <4>5, <4>9, <5>2
          <6>2. \A e \in held[k] : e.name = t.name => ~(new.version < e.version)
            <7>1. ASSUME NEW e \in held[k], e.name = t.name PROVE ~(new.version < e.version)
              <8>1. e.version <= object[o].version /\ e.version \in Nat
                BY <1>1, <7>1 DEF ControllerInv, HeldInv, o
              <8> QED BY SMTT(30), <2>3, <2>5, <4>9, <5>2, <8>1
            <7> QED BY ZenonT(30), <7>1
          <6>3. new \in h
            BY <2>2, <4>9, <6>2
          <6> QED BY <2>1, <4>6, <4>9, <5>1, <6>1, <6>3
        <5>3. CASE t.obj.version # object[x].version
          <6>1. t.obj # object[x]
            BY <5>3
          <6>2. OnItsWay(x) => OnItsWay(x)'
            BY <1>2, <1>3, <6>1 DEF OnItsWay
          <6>3. Latest(x) \in held[k] => h = held[k]
            <7>1. ~(object[x].version <= new.version)
              BY SMTT(30), <2>3, <2>4, <2>5, <4>9, <5>3
            <7> QED BY ZenonT(30), <2>2, <4>2, <4>9, <5>1, <7>1
          <6>4. Arrived(x) => Latest(x) \in held[k]
            BY <4>9, <5>1 DEF Arrived
          <6> QED BY <2>1, <4>3, <4>6, <4>9, <5>1, <6>2, <6>3, <6>4
        <5> QED BY <5>2, <5>3
      <4> QED BY <4>7, <4>8, <4>9
    <3> QED BY <1>2, <3>1 DEF ArrivalInv
  <2> QED BY <2>6, <2>7, <2>12, <2>13, <2>14 DEF ControllerInv
<1> QED
  <2>1. \/ nmAdd /\ TenantOf(spec, t.obj.labels) # "" /\ \E h \in Replaced(held[t.kind], t) : held' = [held EXCEPT ![t.kind] = h]
        \/ held' = held /\ ~(nmAdd /\ TenantOf(spec, t.obj.labels) # "")
    BY <1>1, TenantIDs DEF Changed
  <2> QED BY <1>8, <1>9, <2>1

\* A manager whose tenant selector is set makes nmChange reload both kinds.
Selecting == \A s \in Specs : s.tenant # {}

\* nmChange: the one spec, which is new only the first time.
LEMMA ManagerStep ==
    ASSUME Steady, ControllerInv, Run, Head(ch).kind = "managers", nmChange(Head(ch))
    PROVE  ControllerInv' /\ held' = held /\ (Selecting /\ ArrivalInv => ArrivalInv')
<1>1. PICK t \in ManagerTasks : t = Head(ch) /\ t.op = "update" /\ t.obj \in Specs /\ t.kind \notin Kinds
  <2>1. Head(ch) \in Tasks /\ "managers" \notin Kinds
    BY RunEffect DEF Kinds
  <2> QED BY <2>1, WorkTypes DEF ControllerInv, Tasks
<1>2. /\ UNCHANGED <<object, version, events>> /\ ch' \in Seq(Tasks) /\ Elements(ch) = Elements(ch') \cup {t}
  BY <1>1, RunEffect
<1> DEFINE g == [id |-> version * 10 + Cardinality(reloads), need |-> Needed(t.obj), todo |-> {}]
<1>3. spec' = t.obj /\ nmAdd' = TRUE /\ held' = held /\ reloads' = IF Needed(t.obj) = {} THEN reloads ELSE reloads \cup {g}
  BY <1>1 DEF nmChange
<1>4. version \in Nat /\ version' \in Nat /\ version <= version' /\ IsFiniteSet(reloads) /\ reloads \subseteq Reloads
  BY SMT, <1>2 DEF ControllerInv, ControllerTypeOK
<1>5. g \in Reloads /\ g.todo = {} /\ g.need = Needed(t.obj)
  <2>1. PICK c \in Nat : c = Cardinality(reloads)
    BY <1>4, FS_CardinalityType
  <2>2. PICK n \in SUBSET Kinds : n = Needed(t.obj)
    BY DEF Needed
  <2>3. PICK i \in Nat : i = version * 10 + c
    BY SMT, <1>4
  <2>4. g = [id |-> i, need |-> n, todo |-> {}]
    BY <2>1, <2>2, <2>3
  <2> HIDE DEF g
  <2>5. g \in Reloads /\ g.todo = {} /\ g.need = n
    BY SMT, <2>4 DEF Reloads
  <2> QED BY <2>2, <2>5
<1> HIDE DEF g
<1>6. reloads \subseteq reloads' /\ reloads' \subseteq reloads \cup {g} /\ IsFiniteSet(reloads')
  BY <1>3, <1>4, FS_AddElement
<1>7. ToFeed(reloads') = ToFeed(reloads)
  BY <1>5, <1>6 DEF ToFeed
<1>8. Work' \subseteq Work /\ Work \subseteq Work' \cup {t} /\ Listed' = Listed
  BY <1>2, <1>7 DEF Work, Listed
<1>9. Sources' \subseteq Sources
  BY <1>8 DEF Sources
<1>10. ControllerTypeOK'
  BY <1>2, <1>3, <1>4, <1>5, <1>6 DEF ControllerInv, ControllerTypeOK
<1>11. \A o \in Objects : object[o] # Nil => object[o].version \in Nat
  BY SMT DEF ControllerInv, ControllerTypeOK, Resources
<1>12. nmAdd => spec' = spec
  BY <1>1, <1>3 DEF Steady, ControllerInv, HeldInv
<1>13. SourcesInv'
  BY <1>2, <1>9 DEF ControllerInv, SourcesInv
<1>14. HeldInv'
  <2>1. ASSUME NEW k \in Kinds, NEW e \in held[k]
        PROVE  /\ e = Entry(e.tenant, e.name, e.version) /\ e.version \in Nat
               /\ <<k, e.name>> \in Objects /\ object[<<k, e.name>>] # Nil
               /\ e.version <= object[<<k, e.name>>].version
               /\ \A u \in Sources' : u.kind = k /\ u.name = e.name =>
                     /\ u.obj.version = e.version => e.tenant = TenantOf(spec', u.obj.labels)
                     /\ u.op = "add" => u.obj.version <= e.version
    <3>1. spec' = spec
      BY <1>12, <2>1 DEF ControllerInv, HeldInv
    <3> QED BY <1>9, <2>1, <3>1 DEF ControllerInv, HeldInv
  <2>2. HeldOnce'
    BY <1>3 DEF ControllerInv, HeldInv, HeldOnce
  <2> QED BY <1>1, <1>2, <1>3, <2>1, <2>2 DEF HeldInv
<1>15. ASSUME Selecting, ArrivalInv PROVE ArrivalInv'
  <2>1. ASSUME NEW o \in Objects, OnItsWay(o) PROVE OnItsWay(o)'
    <3>1. o[1] \in Kinds
      BY ControllerConstants
    <3> QED BY <1>1, <1>2, <1>6, <1>8, <2>1, <3>1 DEF OnItsWay
  <2>2. CASE nmAdd
    BY <1>2, <1>3, <1>12, <1>15, <2>1, <2>2 DEF ArrivalInv, Arrived, Latest
  <2>3. CASE ~nmAdd
    <3>1. spec = NoSpec /\ NoSpec.tenant = {}
      BY <2>3 DEF ControllerInv, HeldInv, NoSpec
    <3>2. Needed(t.obj) = Kinds
      BY <1>1, <1>15, <3>1 DEF Selecting, Needed, NeedConfigs, NeedReceivers
    <3>3. Kinds # {}
      BY DEF Kinds
    <3>4. g \in reloads'
      BY <1>3, <3>2, <3>3
    <3>5. \A o \in Objects : o[1] \in g.need
      BY <1>5, <3>2, ControllerConstants
    <3>6. \A o \in Objects : OnItsWay(o)'
      BY <3>4, <3>5 DEF OnItsWay
    <3> QED BY <3>6 DEF ArrivalInv
  <2> QED BY <2>2, <2>3
<1> QED BY <1>3, <1>10, <1>13, <1>14, <1>15 DEF ControllerInv

\* A step that leaves what is held alone puts nothing older there.
LEMMA SameHeld ==
    ASSUME ControllerInv, held' = held
    PROVE  KeepsNewest
<1>1. \A k \in Kinds : \A e \in held[k] : e.version \in Nat
  BY DEF ControllerInv, HeldInv
<1>2. \A k \in Kinds : \A e \in held[k] : e.version <= e.version
  BY SMTT(30), <1>1
<1> QED BY <1>2 DEF KeepsNewest, ControllerInv, HeldInv, HeldOnce

\* Every step of the controller, its informers and its reloads.
LEMMA ControllerStep ==
    ASSUME Steady, ControllerInv, [ControllerNext]_controllerVars
    PROVE  ControllerInv' /\ KeepsNewest /\ (Selecting /\ ArrivalInv => ArrivalInv')
<1>1. CASE Run
  <2> DEFINE t == Head(ch)
  <2>1. \/ t.kind = "managers" /\ nmChange(t)
        \/ t.kind \in Kinds /\ Changed(t)
    BY <1>1 DEF Run, receiverChanged, configChanged, Kinds
  <2> QED BY <1>1, <2>1, ManagerStep, ChangedStep, SameHeld
<1>2. CASE \E k \in DOMAIN events : onResourceChange(k)
  <2>1. DOMAIN events = Informers
    BY DEF ControllerInv, ControllerTypeOK
  <2> QED BY <1>2, <2>1, HandOverStep, SameHeld
<1>3. CASE UNCHANGED controllerVars
  <2>1. UNCHANGED <<object, version, events, ch, reloads, nmAdd, spec, held>>
    BY <1>3 DEF controllerVars, cached, controller
  <2>2. Work' = Work /\ Listed' = Listed
    BY <2>1 DEF Work, Listed
  <2>3. ControllerTypeOK'
    BY <2>1 DEF ControllerInv, ControllerTypeOK
  <2>4. UNCHANGED <<cached, controller>>
    BY <1>3 DEF controllerVars
  <2>5. ControllerInv'
    BY <2>2, <2>3, <2>4, MovingStep
  <2>6. ArrivalInv => ArrivalInv'
    BY <2>1, <2>2, StillOnItsWay DEF OnItsWay
  <2> QED BY <2>1, <2>5, <2>6, SameHeld
<1>4. CASE EditManager \/ \E o \in Objects : EditObject(o)
  BY <1>4, EditManagerStep, EditObjectStep, SameHeld
<1>5. CASE \E g \in reloads : List(g) \/ Feed(g)
  BY <1>5, ReloadStep, SameHeld
<1> QED BY <1>1, <1>2, <1>3, <1>4, <1>5 DEF ControllerNext

\* The controller starts with nothing held and nothing to do.
LEMMA ControllerInitially == New => ControllerInv /\ ArrivalInv
<1> SUFFICES ASSUME New PROVE ControllerInv /\ ArrivalInv
  OBVIOUS
<1>1. /\ \A o \in Objects : object[o] = Nil
      /\ \A k \in Informers : events[k] = <<>>
      /\ ch = <<>> /\ reloads = {} /\ ~nmAdd /\ spec = NoSpec /\ \A k \in Kinds : held[k] = {}
  BY DEF New, Informers
<1>2. Elements(<<>>) = {}
  BY SMT DEF Elements
<1>3. Work = {} /\ Listed = {}
  BY <1>1, <1>2 DEF Work, Queued, ToFeed, Listed
<1>4. ControllerTypeOK
  <2>1. <<>> \in Seq(Tasks) /\ 0 \in Nat
    BY SMT
  <2>2. IsFiniteSet({})
    BY FS_EmptySet
  <2> QED BY <1>1, <2>1, <2>2 DEF New, ControllerTypeOK, Informers
<1>5. SourcesInv /\ HeldInv
  BY <1>1, <1>3 DEF SourcesInv, HeldInv, HeldOnce, Sources
<1> QED BY <1>1, <1>4, <1>5 DEF ControllerInv, ArrivalInv

\* As long as nothing is deleted and the manager keeps its spec, the tasks of the
\* channel, the informers and the reloads agree with what is held.
THEOREM ControllerInvariant ==
    ASSUME Steady
    PROVE  ControllerSpec => []ControllerInv
<1>1. ControllerInv /\ [ControllerNext]_controllerVars => ControllerInv'
  BY ControllerStep
<1>2. New => ControllerInv
  BY ControllerInitially
<1> QED BY <1>1, <1>2, PTL DEF ControllerSpec

\* A receiver that changes hands is held for one tenant at a time, and neither a
\* late event nor a reload puts an older version in the place of a newer one, where
\* receiverChanged and configChanged can read the version: not of Discord receivers.
THEOREM ReceiversAreHeldOnce ==
    ASSUME Steady
    PROVE  ControllerSpec => []HeldOnce /\ [][KeepsNewest]_controllerVars
<1>1. ControllerInv /\ [ControllerNext]_controllerVars => [KeepsNewest]_controllerVars
  BY ControllerStep
<1>2. ControllerInv => HeldOnce
  BY DEF ControllerInv, HeldInv
<1> QED BY <1>1, <1>2, ControllerInvariant, PTL DEF ControllerSpec

\* Once all is handled, every receiver and config that the selectors give a
\* tenant is held for that tenant in its latest version, a Discord receiver in some
\* version: receiverChanged, configChanged and reload lose none.
THEOREM ReceiversArrive ==
    ASSUME Steady, Selecting
    PROVE  ControllerSpec => []NoneMissing
<1>1. ControllerInv /\ ArrivalInv /\ [ControllerNext]_controllerVars => ControllerInv' /\ ArrivalInv'
  BY ControllerStep
<1>2. New => ControllerInv /\ ArrivalInv
  BY ControllerInitially
<1>3. ControllerInv /\ ArrivalInv => NoneMissing
  <2> SUFFICES ASSUME ControllerInv, ArrivalInv, Settled, nmAdd, NEW o \in Objects, Known(o)
               PROVE  IF o \in Versioned THEN Current(o) \in held[o[1]] ELSE \E e \in held[o[1]] : e.name = o[2]
    BY DEF NoneMissing
  <2>1. Work = {} /\ reloads = {}
    <3>1. DOMAIN events = Informers
      BY DEF ControllerInv, ControllerTypeOK
    <3>2. Elements(<<>>) = {}
      BY SMT DEF Elements
    <3> QED BY <3>1, <3>2 DEF Settled, Work, Queued, ToFeed
  <2>2. ~OnItsWay(o)
    BY <2>1 DEF OnItsWay
  <2>3. /\ object[o] # Nil /\ TenantOf(spec, object[o].labels) # ""
        /\ Current(o) = Latest(o)
    BY TenantIDs DEF Known, Current, Latest
  <2> QED BY <2>2, <2>3 DEF ArrivalInv, Arrived
<1> QED BY <1>1, <1>2, <1>3, PTL DEF ControllerSpec

-----------------------------------------------------------------------------
(***************************************************************************)
(* DeliveryLedger: what is promised of a delivery, for any set of          *)
(* targets.                                                                *)
(***************************************************************************)
LedgerTypeOK ==
    /\ verdict \in [Targets -> Verdicts]
    /\ posted \in [Targets -> Nat] /\ granted \in [Targets -> Nat]

\* The inductive invariant: LedgerAtMostOnce, with types.
LedgerInv == LedgerTypeOK /\ LedgerAtMostOnce

\* A verdict, given or forgotten, is a verdict.
LEMMA JudgeType ==
    ASSUME LedgerTypeOK, NEW S, NEW v \in Verdicts, Judge(S, v)
    PROVE  /\ verdict' \in [Targets -> Verdicts]
           /\ \A t \in Targets : verdict'[t] = IF t \in S THEN v ELSE verdict[t]
BY DEF LedgerTypeOK, Judge

\* Nothing is submitted, posted or granted yet.
LEMMA LedgerInvInitially == LedgerInit => LedgerInv
BY SMT DEF LedgerInit, LedgerInv, LedgerTypeOK, LedgerAtMostOnce, Verdicts

\* Every change of a verdict, posting, grant and loss keeps the invariant.
LEMMA LedgerInvStep == LedgerInv /\ [LedgerNext]_ledgerVars => LedgerInv'
<1> SUFFICES ASSUME LedgerInv, [LedgerNext]_ledgerVars PROVE LedgerInv'
    OBVIOUS
<1> USE DEF LedgerInv, LedgerAtMostOnce
<1> LedgerTypeOK
    OBVIOUS
<1>1. CASE Plan
  <2>1. PICK S \in SUBSET {t \in Targets : verdict[t] = "none"} :
            Judge(S, "waiting") /\ UNCHANGED <<posted, granted>>
      BY <1>1 DEF Plan
  <2> QED
      BY SMTT(30), <2>1, JudgeType DEF LedgerTypeOK, Verdicts
<1>2. CASE Interrupt
  <2>1. Judge({t \in Targets : verdict[t] = "sending"}, "unknown")
      BY <1>2 DEF Interrupt
  <2> QED
      BY SMTT(30), <2>1, <1>2, JudgeType DEF Interrupt, LedgerTypeOK, Verdicts
<1>3. CASE Forget
  <2>1. PICK S \in SUBSET {t \in Targets : verdict[t] \in {"none", "delivered", "settled"}} :
            Judge(S, "forgotten") /\ UNCHANGED <<posted, granted>>
      BY <1>3 DEF Forget
  <2> QED
      BY SMT, <2>1, JudgeType DEF LedgerTypeOK, Verdicts
<1>4. ASSUME NEW t \in Targets, Send(t) PROVE LedgerInv'
    BY SMTT(30), <1>4, JudgeType DEF Send, Unsent, LedgerTypeOK, Verdicts
<1>5. ASSUME NEW t \in Targets, Post(t) PROVE LedgerInv'
    BY SMTT(30), <1>5 DEF Post, Unsent, LedgerTypeOK, Verdicts
<1>6. ASSUME NEW t \in Targets, Conclude(t) PROVE LedgerInv'
  <2>1. PICK v \in Verdicts : /\ Judge({t}, v) /\ UNCHANGED <<posted, granted>>
                              /\ v \in {"refused", "waiting"} => Unsent(t)
                              /\ v # "none"
      BY <1>6 DEF Conclude, Verdicts
  <2> QED
      BY SMTT(30), <2>1, JudgeType DEF Unsent, LedgerTypeOK
<1>7. ASSUME NEW t \in Targets, Decide(t) PROVE LedgerInv'
  <2>1. CASE Judge({t}, "settled") /\ UNCHANGED granted
      BY SMTT(30), <2>1, <1>7, JudgeType DEF Decide, LedgerTypeOK, Verdicts
  <2>2. CASE Judge({t}, "waiting") /\ granted' = [granted EXCEPT ![t] = @ + 1]
      BY SMTT(30), <2>2, <1>7, JudgeType DEF Decide, LedgerTypeOK, Verdicts
  <2> QED
      BY <2>1, <2>2, <1>7 DEF Decide
<1>8. CASE UNCHANGED ledgerVars
    BY <1>8 DEF ledgerVars, LedgerTypeOK
<1> QED
    BY <1>1, <1>2, <1>3, <1>4, <1>5, <1>6, <1>7, <1>8 DEF LedgerNext

(***************************************************************************)
(* A target gets one card, and one more for every send an operator grants. *)
(***************************************************************************)
THEOREM LedgerSendsOnce == LedgerSpec => []LedgerAtMostOnce
<1>1. LedgerInv => LedgerAtMostOnce
    BY DEF LedgerInv
<1> QED
    BY <1>1, LedgerInvInitially, LedgerInvStep, PTL DEF LedgerSpec

(***************************************************************************)
(* The verdict of the platform is the last word on a target that no        *)
(* operator touched.                                                       *)
(***************************************************************************)
THEOREM LedgerIsFinal == LedgerSpec => JudgedIsFinal
<1>1. LedgerInv /\ [LedgerNext]_ledgerVars =>
        [\A t \in Targets : granted[t] = 0 /\ verdict[t] \in {"delivered", "refused"}
            => posted'[t] = posted[t]]_ledgerVars
  <2> SUFFICES ASSUME LedgerInv, LedgerNext, NEW t \in Targets, granted[t] = 0,
                      verdict[t] \in {"delivered", "refused"}
               PROVE  posted'[t] = posted[t]
      OBVIOUS
  <2>1. ASSUME NEW u \in Targets, Post(u) PROVE posted'[t] = posted[t]
      BY <2>1 DEF Post, LedgerInv, LedgerTypeOK
  <2> QED
      BY <2>1 DEF LedgerNext, Plan, Interrupt, Forget, Send, Conclude, Decide
<1> QED
    BY <1>1, LedgerInvInitially, LedgerInvStep, PTL DEF LedgerSpec, JudgedIsFinal
=============================================================================
