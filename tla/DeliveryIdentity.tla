-------------------------- MODULE DeliveryIdentity --------------------------
(***************************************************************************)
(* The identities by which deliveries are correlated with observations:    *)
(* pkg/jevshadow/receipt.go and canonical_identity.go, stamped by the      *)
(* notify stage (pkg/notify/notify.go) for every channel of a fanout.      *)
(*                                                                         *)
(* SHA-256 over a canonical or length-framed encoding is the encoded value *)
(* itself.  Times are counted in half microseconds, so that truncation to  *)
(* microseconds loses something.  The time of the notification is the      *)
(* stage's: an alert that brings a notificationTime of its own, which the  *)
(* stage keeps, is not among the inputs.                                   *)
(***************************************************************************)
EXTENDS Absence, Naturals, Sequences, Functions

CONSTANTS SentAlerts,      \* [id, labels, annotations, status, start, end]
          Names,           \* the label and annotation names, in string order
          Excluded,        \* JEV_EXCLUDED_IDENTITY_LABELS
          Fanouts,         \* what the filters leave: <<receiver, group>> -> alerts,
                           \* in and outside of production
          MaxDispatches

\* A group that is sent has alerts, and within a fanout an alert's identity stands for
\* one start of it.
ASSUME IdentityConstants ==
    /\ MaxDispatches \in Nat
    /\ \A a \in SentAlerts : {"id", "labels", "start"} \subseteq DOMAIN a
    /\ \A f \in Fanouts[TRUE] \cup Fanouts[FALSE] : \A r \in DOMAIN f : f[r] \subseteq SentAlerts /\ f[r] # {}
    /\ \A f \in Fanouts[FALSE] : \A p, q \in DOMAIN f : p[2] = q[2] /\ q[1] = "observer" =>
          \A a \in f[p], b \in f[q] : a.id = b.id => a.start = b.start
    /\ \A f \in Fanouts[FALSE] : \A p \in DOMAIN f : \A d \in 1..MaxDispatches : Nil # <<"attempt", d, p[2]>>

VARIABLES production,      \* the environment is "production"
          dispatches, receipts, observed

identityVars == <<production, dispatches, receipts, observed>>

Observer == "observer"     \* the observation webhook among the receivers

IdentityInit ==
    production \in BOOLEAN /\ dispatches = 0 /\ receipts = {} /\ observed = {}
-----------------------------------------------------------------------------
\* The names of a label set in sorted order, each followed by its value.
SortedPairs(kv) ==
    LET names == SelectSeq(Names, LAMBDA n : n \in DOMAIN kv)
    IN  [i \in 1 .. 2 * Len(names) |->
            LET n == names[(i + 1) \div 2] IN IF i % 2 = 1 THEN n ELSE kv[n]]

Without(kv, names) == Restrict(kv, DOMAIN kv \ names)

labelsWithoutReceiver(labels) == Without(labels, {"receiver"})

pythonISOTime(t) == t \div 2

framedDigest(version, parts) == <<version>> \o parts

fingerprintV2(labels) == framedDigest("fingerprint-v2", <<"source">> \o SortedPairs(labels))

episodeV2(fingerprint, start) ==
    framedDigest("episode-v2", <<"source", fingerprint, pythonISOTime(start)>>)

\* A resolved alert ends no earlier than it starts, or it has no end.
EndOf(a) == IF a.status = "resolved" /\ a.end >= a.start THEN pythonISOTime(a.end) ELSE Nil

occurrenceV2(ep, a) ==
    framedDigest("occurrence-v2", <<ep, a.status, EndOf(a), "labels">> \o SortedPairs(a.labels)
        \o <<"annotations">> \o SortedPairs(Without(a.annotations, {"alerttime"})))

\* canonicalData: identity labels only, the fingerprint from them.
canonicalData(a) ==
    LET labels == Without(labelsWithoutReceiver(a.labels), Excluded)
    IN  [a EXCEPT !.labels = labels, !.id = fingerprintV2(labels)]

\* Mutant: the members take part.
deriveAttemptDeliveryIDMembers(attempt, group, members) ==
    <<"attempt", attempt, group, {a.id : a \in members}>>

\* One identity per group for every channel of the fanout, whatever its members.
deriveAttemptDeliveryID(attempt, group, members) == <<"attempt", attempt, group>>

\* The fallback, from the sorted members and the time of the notification.
deriveDeliveryID(group, members, time) ==
    <<"members", group, {<<a.id, a.status, pythonISOTime(a.start), EndOf(a), time>> : a \in members}>>
-----------------------------------------------------------------------------
\* addExtensionLabels: a channel's copy of an alert names its receiver.
addExtensionLabels(a, receiver) ==
    IF "receiver" \in DOMAIN a.labels THEN a
    ELSE [a EXCEPT !.labels = [n \in DOMAIN a.labels \cup {"receiver"} |->
                                  IF n = "receiver" THEN receiver ELSE a.labels[n]]]

Member(a) ==
    LET c == IF production THEN canonicalData(a) ELSE a
    IN  [alert |-> a, fingerprint |-> c.id, starts |-> c.start,
         event |-> IF production THEN occurrenceV2(episodeV2(c.id, c.start), c) ELSE Nil]

\* buildReceipt for a card sent as a message of its own, <<d, receiver, group>>.
buildReceipt(d, receiver, group, members, stamp) ==
    [dispatch |-> d, group |-> group, members |-> {Member(a) : a \in members},
     deliveryID |-> IF stamp # Nil THEN stamp
                    ELSE IF production
                    THEN framedDigest("sent-notification-v2", <<"source", receiver, <<d, receiver, group>>>>)
                    ELSE deriveDeliveryID(group, members, d)]

\* notifyStage.Exec stamps the attempt, unless Jev sits behind a relay (the
\* production executor) or no attempt identity could be drawn; then every
\* channel of the fanout sends its own copy of each group.
Exec(fan, drawn) ==
    LET d == dispatches + 1
        copies(p) == {addExtensionLabels(a, p[1]) : a \in fan[p]}
        stamp(p) == IF production \/ ~drawn THEN Nil ELSE deriveAttemptDeliveryID(d, p[2], fan[p])
        seen == {p \in DOMAIN fan : p[1] = Observer}
        cards == {buildReceipt(d, p[1], p[2], copies(p), stamp(p)) : p \in DOMAIN fan \ seen}
    IN  /\ dispatches < MaxDispatches /\ dispatches' = d
        /\ receipts' = receipts \cup cards
        /\ observed' = observed \cup
              IF production THEN cards
              ELSE {[dispatch |-> d, group |-> p[2], deliveryID |-> stamp(p),
                     members |-> {Member(a) : a \in copies(p)}] : p \in {q \in seen : drawn}}

IdentityNext ==
    \E fan \in Fanouts[production], drawn \in BOOLEAN : Exec(fan, drawn) /\ UNCHANGED production

IdentitySpec == IdentityInit /\ [][IdentityNext]_identityVars
-----------------------------------------------------------------------------
Content(a) ==
    LET c == canonicalData(a)
    IN  <<c.labels, Without(a.annotations, {"alerttime"}), a.status, EndOf(a), pythonISOTime(a.start)>>

\* A receipt finds the observation of its own fanout and group and no other,
\* and in it every member that the observation channel was given, although the
\* two channels were filtered differently and label their copies differently.
ReceiptsCorrelate ==
    \A r \in receipts, o \in observed :
        LET same == r.dispatch = o.dispatch /\ r.group = o.group
        IN  /\ r.deliveryID = o.deliveryID => same
            /\ (~production /\ same) =>
                  /\ r.deliveryID = o.deliveryID
                  /\ \A m \in r.members :
                        (\E n \in o.members : n.alert.id = m.alert.id)
                            => \E n \in o.members : n.fingerprint = m.fingerprint /\ n.starts = m.starts

\* A repeat of the same group is a delivery of its own, also when it had to be
\* identified by its members.
RepeatsStaySeparate ==
    \A r, q \in receipts : r.deliveryID = q.deliveryID => r.dispatch = q.dispatch

\* Two members carry the same event exactly when they are the same occurrence:
\* same identity labels, annotations, status, start and end, up to the
\* receiver they were sent to and the labels left out of identities.
EventIsTheOccurrence ==
    \A r, q \in receipts : \A m \in r.members, n \in q.members :
        m.event = n.event <=> (~production \/ Content(m.alert) = Content(n.alert))

\* Receipts, observations and repeats are told apart and brought together by their
\* identities as the occurrences and dispatches they stand for are.
IdentitiesCorrelate == EventIsTheOccurrence /\ ReceiptsCorrelate /\ RepeatsStaySeparate
=============================================================================
