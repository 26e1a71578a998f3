---------------------------- MODULE MessageSplit ----------------------------
(***************************************************************************)
(* How a notification becomes requests: Template.Split                     *)
(* (pkg/template/template.go) packs the alerts of a notification into      *)
(* messages below a size, and the WeChat notifier cuts its recipients into *)
(* batches.  An alert is its position, and its size the length of its      *)
(* rendering after serialization (Len).                                    *)
(***************************************************************************)
EXTENDS Naturals, Sequences, SequencesExt, FiniteSets, FiniteSetsExt

CONSTANTS MaxAlerts, Sizes, MaxSize, MaxRecipients, RecipientLimit

VARIABLES sizes,           \* of the alerts of the notification
          position,        \* the alert under consideration
          filling,         \* alerts of the slice being filled
          lastMsg,         \* alerts in the message rendered last
          output,          \* slices: [alerts, message]
          to,              \* the recipients, by sort
          index,           \* where the next batch of each sort begins
          sendings,
          loop             \* "split", "batch" or "done"

splitVars == <<sizes, position, filling, lastMsg, output, to, index, sendings, loop>>

Sorts == {"toUser", "toParty", "toTag"}

ASSUME SplitConstants == MaxSize \in Nat /\ Sizes \subseteq Nat \ {0} /\ RecipientLimit \in [Sorts -> Nat \ {0}]

\* Every list of recipients, by the numbers of its members.
Recipients == [Sorts -> {[n \in 1 .. m |-> n] : m \in 0 .. MaxRecipients}]

SplitInit ==
    /\ sizes \in UNION {[1 .. n -> Sizes] : n \in 0 .. MaxAlerts}
    /\ position = 1 /\ filling = <<>> /\ lastMsg = <<>> /\ output = <<>>
    /\ to \in Recipients /\ index = [s \in Sorts |-> 0] /\ sendings = <<>> /\ loop = "split"

\* The length of the message rendered for a sequence of alerts.
Rendered(alerts) == FoldLeft(LAMBDA n, a : n + sizes[a], 0, alerts)

Fits(alerts) == Rendered(alerts) < MaxSize

\* Mutant: the alert that did not fit is not looked at again.
SplitSkips(filled) ==
    \/ /\ Fits(filled) /\ filling' = filled /\ lastMsg' = filled /\ position' = position + 1 /\ UNCHANGED output
    \/ /\ ~Fits(filled) /\ Len(filled) = 1
       /\ filling' = <<>> /\ lastMsg' = <<>> /\ position' = position + 1 /\ UNCHANGED output
    \/ /\ ~Fits(filled) /\ Len(filled) > 1
       /\ output' = Append(output, [alerts |-> filled, message |-> lastMsg])
       /\ filling' = <<>> /\ lastMsg' = <<>> /\ position' = position + 1

\* The loop body on the slice with the next alert: it fits; it is alone and too large,
\* and is dropped; or the slice is put out with the message of the alerts before
\* it, and that alert is taken up again.
SplitAlert(filled) ==
    \/ /\ Fits(filled) /\ filling' = filled /\ lastMsg' = filled /\ position' = position + 1 /\ UNCHANGED output
    \/ /\ ~Fits(filled) /\ Len(filled) = 1
       /\ filling' = <<>> /\ lastMsg' = <<>> /\ position' = position + 1 /\ UNCHANGED output
    \/ /\ ~Fits(filled) /\ Len(filled) > 1
       /\ output' = Append(output, [alerts |-> filled, message |-> lastMsg])
       /\ filling' = <<>> /\ lastMsg' = <<>> /\ UNCHANGED position

Split ==
    /\ loop = "split" /\ position <= Len(sizes)
    /\ SplitAlert(Append(filling, position))
    /\ UNCHANGED <<sizes, to, index, sendings, loop>>

\* What is left makes the last slice.
SplitReturns ==
    /\ loop = "split" /\ position > Len(sizes) /\ loop' = "batch"
    /\ output' = IF lastMsg # <<>> THEN Append(output, [alerts |-> filling, message |-> lastMsg]) ELSE output
    /\ UNCHANGED <<sizes, position, filling, lastMsg, to, index, sendings>>

\* The next recipients of a sort.
batch(s) ==
    IF index[s] > Len(to[s]) THEN <<>>
    ELSE SubSeq(to[s], index[s] + 1, Min({index[s] + RecipientLimit[s], Len(to[s])}))

\* The loop of the WeChat notifier, until every list is used up.
NextBatch ==
    /\ loop = "batch" /\ \E s \in Sorts : index[s] < Len(to[s])
    /\ sendings' = Append(sendings, [s \in Sorts |-> batch(s)])
    /\ index' = [s \in Sorts |-> IF index[s] > Len(to[s]) THEN index[s] ELSE index[s] + RecipientLimit[s]]
    /\ UNCHANGED <<sizes, position, filling, lastMsg, output, to, loop>>

BatchReturns ==
    /\ loop = "batch" /\ \A s \in Sorts : index[s] >= Len(to[s])
    /\ loop' = "done" /\ UNCHANGED <<sizes, position, filling, lastMsg, output, to, index, sendings>>

SplitNext == Split \/ SplitReturns \/ NextBatch \/ BatchReturns
SplitSpec == SplitInit /\ [][SplitNext]_splitVars
SplitFairness == WF_splitVars(SplitNext)
-----------------------------------------------------------------------------
(***************************************************************************)
(* Correctness.                                                            *)
(***************************************************************************)
\* Every message that Split returns is below the limit of the platform.
MessagesFit == \A n \in 1 .. Len(output) : Rendered(output[n].message) < MaxSize

\* The messages contain, in order and once each, the alerts that fit alone; only
\* alerts too large for a message of their own are missing.
SplitIsComplete ==
    loop # "split" =>
        FlattenSeq([n \in 1 .. Len(output) |-> output[n].message])
            = SelectSeq([a \in 1 .. Len(sizes) |-> a], LAMBDA a : sizes[a] < MaxSize)

\* Every recipient is in exactly one batch, whatever the lengths of the lists,
\* and no batch has no recipient or more of a sort than WeChat takes.
BatchesPartition ==
    loop = "done" =>
        /\ \A s \in Sorts :
              /\ FlattenSeq([n \in 1 .. Len(sendings) |-> sendings[n][s]]) = to[s]
              /\ \A n \in 1 .. Len(sendings) : Len(sendings[n][s]) <= RecipientLimit[s]
        /\ \A n \in 1 .. Len(sendings) : \E s \in Sorts : sendings[n][s] # <<>>

\* The loops end, although Split takes an alert up again.
SplitEnds == <>(loop = "done")

\* An alert that is dropped as too large belongs to no slice, so that no success
\* is ever reported for it.
DroppedIsNotReported ==
    \A n \in 1 .. Len(output) : \A a \in ToSet(output[n].alerts) : sizes[a] < MaxSize

\* Cut into messages and batches, a notification reaches every recipient with every
\* alert that can be sent at all, once, and within the limits of the platform.  When
\* none can, there is no message, and Notify returns nil.
SplitLosesNothing == MessagesFit /\ SplitIsComplete /\ BatchesPartition
=============================================================================
