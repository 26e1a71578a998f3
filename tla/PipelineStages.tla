--------------------------- MODULE PipelineStages ---------------------------
(***************************************************************************)
(* The stages every batch of alerts goes through before it is sent, in     *)
(* memory mode by the dispatcher's worker and in durable mode when a plan  *)
(* is frozen: silence, route, filter and aggregation (pkg/silence, route,  *)
(* filter, aggregation), run by MultiStage.Exec (pkg/stage), and the label *)
(* selectors they use (apis/v2beta2/common.go).                            *)
(*                                                                         *)
(* An alert is a record [id, labels]; a label that is not set is "".  A    *)
(* regular expression is the set of values it matches, or Bad.             *)
(***************************************************************************)
EXTENDS Absence, Naturals, Functions

CONSTANTS Batches,         \* sets of alerts
          Receivers,       \* [hash, tenant, selector]
          Worlds,          \* [silences, routers, access, policy, groupBy]
          Bad, Global

\* A silence has a matcher, as its CRD requires, the policy is one of the three that are
\* documented, and routers name receivers that there are.
ASSUME StageConstants ==
    /\ Bad \notin BOOLEAN
    /\ \A w \in Worlds : /\ w.policy \in {"All", "RouterFirst", "RouterOnly"}
                         /\ \A t \in w.routers : t.receivers \subseteq Receivers
                         /\ \A s \in w.silences : s.matcher # Nil

VARIABLES world, input, stage, data

stagesVars == <<world, input, stage, data>>
-----------------------------------------------------------------------------
(***************************************************************************)
(* Label selectors: [labels, exprs], exprs a sequence of [key, op, values].*)
(***************************************************************************)
Regular(e) == e.op = "Match"

\* metav1.LabelSelectorAsSelector accepts a requirement.
Convertible(e) ==
    \/ e.op \in {"In", "NotIn"} /\ e.values # {}
    \/ e.op \in {"Exists", "DoesNotExist"} /\ e.values = {}

Holds(e, labels) ==
    CASE e.op = "In"           -> labels[e.key] \in e.values /\ labels[e.key] # ""
      [] e.op = "NotIn"        -> labels[e.key] \notin e.values
      [] e.op = "Exists"       -> labels[e.key] # ""
      [] e.op = "DoesNotExist" -> labels[e.key] = ""

\* An expression of operator Match that fails.
Misses(e, labels) == Regular(e) /\ (e.values = Bad \/ labels[e.key] \notin e.values)

\* The first expression that is regular and does not match ends the loop.
FirstMiss(s, labels) ==
    {i \in DOMAIN s.exprs : Misses(s.exprs[i], labels) /\ \A j \in 1..(i - 1) : ~Misses(s.exprs[j], labels)}

\* Matches: TRUE, FALSE, or Bad for an error.
Matches(s, labels) ==
    LET first == FirstMiss(s, labels)
        plain == {e \in Range(s.exprs) : ~Regular(e)}
    IN  IF first # {} THEN (IF \E i \in first : s.exprs[i].values = Bad THEN Bad ELSE FALSE)
        ELSE IF \E e \in plain : ~Convertible(e) THEN Bad
        ELSE /\ \A k \in DOMAIN s.labels : labels[k] = s.labels[k]
             /\ \A e \in plain : Holds(e, labels)

ValidSelector(s) ==
    \A e \in Range(s.exprs) : IF Regular(e) THEN e.values # Bad ELSE Convertible(e)

LabelMatchSelector(labels, s) == s = Nil \/ Matches(s, labels) = TRUE
-----------------------------------------------------------------------------
(***************************************************************************)
(* The stages.  Each ends with the data of the next, with nil when nothing *)
(* is left, or fails the whole batch.                                      *)
(***************************************************************************)
\* MultiStage.Exec: on to the next stage, or stop on nil data.
Continue(next, out) == stage' = next /\ data' = out /\ UNCHANGED <<world, input>>
Stop == stage' = "nothing" /\ data' = Nil /\ UNCHANGED <<world, input>>

Fail == stage' = "failed" /\ UNCHANGED <<data, world, input>>

StagesInit ==
    /\ world \in Worlds /\ input \in Batches
    /\ stage = "silence" /\ data = input

\* GetActiveSilences.  Asked for the tenant of a global receiver, it has the same
\* silences again in static mode and none otherwise, which is the same after
\* SilenceStage.
SilencesOf(tenant) == {s.matcher : s \in {x \in world.silences : x.tenant = tenant}}

\* The global silences, a broken one fails the batch.  An alert is dropped by
\* the first that matches it, so a broken one after it goes unnoticed.
SilenceStage ==
    /\ stage = "silence"
    /\ LET errs(a) == \E s \in SilencesOf(Global) : Matches(s, a.labels) = Bad
           muted(a) == \E s \in SilencesOf(Global) : Matches(s, a.labels) = TRUE
           left == {a \in data : ~muted(a)}
       IN  \/ \E a \in data : errs(a) /\ Fail
           \/ /\ \A a \in data : errs(a) => muted(a)
              /\ IF left = {} THEN Stop ELSE Continue("route", left)

Key(a) == IF a.labels["level"] = "namespace" THEN a.labels["namespace"] ELSE ""

\* RcvsFromNs: the global receivers and those of the tenants of a namespace.
RcvsFromNs(ns) ==
    {r \in Receivers : r.tenant = Global \/ (ns # "" /\ r.tenant \in world.access[ns])}

rcvsFromRouter(a) ==
    UNION {r.receivers : r \in {x \in world.routers : Matches(x.selector, a.labels) = TRUE}}

\* Mutant: RouterFirst adds the tenant receivers all the same.
RoutedToAll(a) ==
    LET routed == rcvsFromRouter(a)
    IN  IF world.policy = "RouterOnly" THEN routed ELSE routed \cup RcvsFromNs(Key(a))

Routed(a) ==
    LET routed == rcvsFromRouter(a)
        tenants == IF world.policy = "RouterOnly" THEN {} ELSE RcvsFromNs(Key(a))
    IN  IF world.policy = "RouterFirst" /\ routed # {} THEN routed ELSE routed \cup tenants

\* deduplication and the packets: one per receiver hash, kept by one receiver that
\* has it, and every alert in it once.
RouteStage ==
    /\ stage = "route"
    /\ LET hashes(a) == {r.hash : r \in Routed(a)}
           used == UNION {hashes(a) : a \in data}
       IN  IF used = {} THEN Stop
           ELSE \E pick \in {f \in [used -> UNION {Routed(a) : a \in data}] :
                                \A h \in used : f[h].hash = h} :
                   Continue("filter",
                       [r \in Range(pick) |-> {a \in data : r.hash \in hashes(a)}])

\* Tenant silences; here a broken one silences nothing.
mute(alerts, r) ==
    {a \in alerts : ~\E s \in SilencesOf(r.tenant) : LabelMatchSelector(a.labels, s)}

Filtered(r) ==
    IF r.selector = Nil THEN mute(data[r], r)
    ELSE {a \in mute(data[r], r) : Matches(r.selector, a.labels) = TRUE}

\* A broken selector of one receiver fails the batch for all of them.
FilterStage ==
    /\ stage = "filter"
    /\ IF \E r \in DOMAIN data : \E a \in mute(data[r], r) :
              r.selector # Nil /\ Matches(r.selector, a.labels) = Bad
       THEN Fail
       ELSE Continue("aggregate", [r \in DOMAIN data |-> Filtered(r)])

labelToGroupKey(a) == Restrict(a.labels, world.groupBy)

\* groupKeyToLabel: labels that are not set do not show.
groupKeyToLabel(key) == Restrict(key, {k \in DOMAIN key : key[k] # ""})

CommonLabels(alerts) ==
    LET one == CHOOSE a \in alerts : TRUE
    IN  Restrict(one.labels, {k \in DOMAIN one.labels :
            one.labels[k] # "" /\ \A a \in alerts : a.labels[k] = one.labels[k]})

\* Format: what the alerts of a group have in common.
Format(key, alerts) ==
    [group |-> groupKeyToLabel(key), alerts |-> alerts, common |-> CommonLabels(alerts)]

AggregationStage ==
    /\ stage = "aggregate"
    /\ Continue("notify", [r \in DOMAIN data |->
           {Format(k, {a \in data[r] : labelToGroupKey(a) = k}) :
               k \in {labelToGroupKey(a) : a \in data[r]}}])

StagesNext == SilenceStage \/ RouteStage \/ FilterStage \/ AggregationStage

StagesSpec == StagesInit /\ [][StagesNext]_stagesVars
-----------------------------------------------------------------------------
Selectors ==
    {s.matcher : s \in world.silences} \cup {r.selector : r \in world.routers}
        \cup {r.selector : r \in Receivers \ {x \in Receivers : x.selector = Nil}}
Sound == \A s \in Selectors : ValidSelector(s)
Gets(r, a) == \E d \in data[r] : a \in d.alerts
Silenced(a, tenant) == \E s \in SilencesOf(tenant) : Matches(s, a.labels)

\* Routing chooses r for a: a router does, or, as the policy has it, the tenants of
\* its namespace do.
Chooses(r, a) ==
    \/ \E t \in world.routers : Matches(t.selector, a.labels) /\ r \in t.receivers
    \/ /\ world.policy = "All" \/ (world.policy = "RouterFirst" /\
             ~\E t \in world.routers : Matches(t.selector, a.labels) /\ t.receivers # {})
       /\ r.tenant = Global \/ (a.labels["level"] = "namespace" /\ a.labels["namespace"] # ""
                                 /\ r.tenant \in world.access[a.labels["namespace"]])

\* A selector the admission webhooks let through never fails a batch.
ValidatedNeverFails == Sound => stage # "failed"

\* When no selector is broken, a batch is over with one packet for every receiver
\* that routing chooses for an alert no global silence covers, and with none for
\* others; the packet has exactly the alerts that routing, the silences of the
\* tenant and the selector leave the receiver.  Receivers of one hash are one.
SentToTheRightReceivers ==
    (stage \in {"notify", "nothing"} /\ Sound) =>
        LET loud == {a \in input : ~Silenced(a, Global)}
            notified == IF stage = "notify" THEN DOMAIN data ELSE {}
        IN  /\ \A a \in loud, r \in Receivers : Chooses(r, a) => \E q \in notified : q.hash = r.hash
            /\ \A q \in notified : \E a \in loud : Chooses(q, a)
            /\ \A q, r \in notified : q.hash = r.hash => q = r
            /\ \A q \in notified, a \in input :
                  Gets(q, a) <=>
                      /\ a \in loud /\ ~Silenced(a, q.tenant)
                      /\ q.selector # Nil => Matches(q.selector, a.labels)
                      /\ \E r \in Receivers : r.hash = q.hash /\ Chooses(r, a)

\* A receiver gets every alert once, in the group of its own label values,
\* and what a group shows as common is common to all its alerts.
GroupsPartition ==
    stage = "notify" =>
        \A r \in DOMAIN data :
            /\ \A d, e \in data[r] : d # e => d.alerts \cap e.alerts = {}
            /\ \A d \in data[r] : \A a \in d.alerts :
                  /\ \A k \in world.groupBy :
                        a.labels[k] = IF k \in DOMAIN d.group THEN d.group[k] ELSE ""
                  /\ \A k \in DOMAIN d.common : a.labels[k] = d.common[k]

\* "If the selector is not correct, return all of the alerts": a broken
\* receiver selector keeps no receiver from its alerts.
BrokenSelectorReturnsAll ==
    (\A s \in Selectors \ {r.selector : r \in Receivers} : ValidSelector(s)) => stage # "failed"

\* Silences, routers, tenants, selectors and groups together notify whom they should
\* of what they should, and valid ones never fail.
StagesAreRight == ValidatedNeverFails /\ SentToTheRightReceivers /\ GroupsPartition
=============================================================================
