---------------------------- MODULE MCContracts -----------------------------
(***************************************************************************)
(* Instances of what the components agree on: the annotation a producer    *)
(* attaches, the identities that correlate deliveries, the receiver kinds  *)
(* and their settings, the stages that choose alerts and receivers, and    *)
(* the plan an accepted notification is frozen into.  They share no state  *)
(* in these models, so that one run takes them one at a time: `part`       *)
(* moves, the others stay as they start.                                   *)
(***************************************************************************)
EXTENDS AnnotationContract, DeliveryIdentity, ReceiverKinds, PipelineStages, FrozenPlan, TLC

CONSTANTS Taken,           \* what the run takes
          prod, lab, side, critical, warning, infra, stray

VARIABLE part
-----------------------------------------------------------------------------
\* The annotation: v2 judgments, policy facts and v1 recommendations.
Answer(choice, pool) ==
    [choice |-> choice,
     probabilities |-> [o \in Routes |-> IF o = "pool" THEN pool ELSE 100 - pool]]

Reason(choice, recurring, unclear) ==
    [choice |-> choice,
     probabilities |-> [o \in PoolReasons |->
         CASE o = "recurring" -> recurring [] o = "unclear" -> unclear [] OTHER -> 0]]

Routings == {Nil, Answer("pool", 70), Answer("pool", 50), Answer("oncall", 40),
             Answer("oncall", 70)}
Reasons == {Nil, Reason("recurring", 60, 40), Reason("unclear", 60, 39)}

V2(routing, reason, proposal, code, min, cap, source, applied, from, status, reduced,
   trace, id) ==
    ("schema_version" :> "2") @@ ("execution_mode" :> "shadow") @@
    ("routing" :> routing) @@ ("pool_reason" :> reason) @@
    ("policy_proposal" :> proposal) @@ ("policy_reason_code" :> code) @@
    ("pool_min_probability" :> min) @@ ("capability" :> cap) @@
    ("decision_source" :> source) @@ ("threshold_applied" :> applied) @@
    ("threshold_source" :> from) @@ ("model_status" :> status) @@
    ("context_reduced" :> reduced) @@ ("trace_url" :> trace) @@ ("judgment_id" :> id)

Codes == {"pool_probability_below_threshold", "routing_tie"}
Proposals == {"pool", "oncall", "original"}

JudgmentWires ==
    {V2(r, s, p, c, m, "", "", Nil, "", "", Nil, t, i) :
        r \in Routings, s \in Reasons, p \in Proposals, c \in Codes,
        m \in {Nil, 50, 70}, t \in {Nil, "https"}, i \in {"", "j"}}

FactsWires ==
    {V2(r, s, p, c, m, "policy-facts-v1", d, a, f, st, TRUE, "https", "j") :
        r \in Routings, s \in Reasons, p \in Proposals, c \in {"routing_tie"},
        m \in {Nil, 50, 70}, d \in {"operator_rule", "model_policy", "model_unavailable"},
        a \in {Nil, TRUE, FALSE}, f \in {"", "default", "not_applicable"},
        st \in {"", "available", "unavailable"}}

V1Wires ==
    {("schema_version" :> "1") @@ ("category" :> c) @@ ("route" :> r) @@
     ("repeat_count" :> n) @@ ("same_kind_count" :> 1) @@ ("detail_url" :> u) @@
     ("evidence_lines" :> e) :
        c \in {"", "urgent", "other"}, r \in {"", "pool"}, n \in {0, 1},
        u \in {Nil, "http", "https"}, e \in {<<>>, <<"line">>, <<"">>}}

AllWires == JudgmentWires \cup FactsWires \cup V1Wires

\* A judgment with one field left out.
PartialWires ==
    {Restrict(V2(r, s, p, "routing_tie", Nil, "", "", Nil, "", "", Nil, "https", "j"),
              FieldsV2 \ {f}) :
        r \in {Nil, Answer("pool", 70)}, s \in Reasons, p \in Proposals, f \in FieldsV2}

\* Judgments over rounded answers, and over some that are not.
RoundingWire(routing) ==
    V2(routing, Reason("recurring", 60, 40), "oncall", "routing_tie", Nil, "", "", Nil, "", "",
       Nil, "https", "j")
Likelier(p) == IF p["pool"] >= p["oncall"] THEN "pool" ELSE "oncall"
RoundingWires ==
    {RoundingWire([choice |-> Likelier(p), probabilities |-> p]) :
        p \in {RoundedAnswer(q) : q \in 0..1000}
              \cup [Routes -> {0, 20, 49, 50, 53, 70}]}

OneWire == V2(Nil, Nil, "original", "routing_tie", Nil, "", "", Nil, "", "", Nil, Nil, "")
ContractWires == AllWires \cup PartialWires
SomeWires == ContractWires \cup RoundingWires \cup {OneWire}
-----------------------------------------------------------------------------
\* Identities.
SortedNames == <<"a", "alerttime", "annotations", "receiver", "replica">>

Occurrence(id, labels, annotations, status, start, end) ==
    [id |-> id, labels |-> labels, annotations |-> annotations, status |-> status,
     start |-> start, end |-> end]

\* Neighbours in every field, among them a label and an annotation that
\* spell the same sequence.
SomeAlerts ==
    {Occurrence("i1", ("a" :> "x"), ("a" :> "annotations"), "firing", 4, 0),
     Occurrence("i2", ("a" :> "x" @@ "annotations" :> "a"), <<>>, "firing", 4, 0),
     Occurrence("i1", ("a" :> "x" @@ "replica" :> "r1"), ("a" :> "annotations"), "firing", 4, 0),
     Occurrence("i1", ("a" :> "x"), ("a" :> "y" @@ "alerttime" :> "t"), "firing", 4, 0),
     Occurrence("i1", ("a" :> "x"), ("a" :> "y"), "resolved", 4, 6),
     Occurrence("i1", ("a" :> "x"), ("a" :> "y"), "resolved", 4, 2),
     Occurrence("i1", ("a" :> "x"), ("a" :> "annotations"), "firing", 5, 0),
     Occurrence("i1", ("a" :> "x"), ("a" :> "annotations"), "firing", 6, 0)}

Groups == {g \in SUBSET SomeAlerts : Cardinality(g) \in {1, 2}}
OneIdPerGroup(g) == \A a, b \in g : a.id = b.id => a = b

\* Two card channels of the executor.
TwoCardFanouts == {(<<"feishu1", "g">> :> g) @@ (<<"feishu2", "g">> :> h) : g, h \in Groups}
CardFanouts == {f \in TwoCardFanouts : f[<<"feishu2", "g">>] \subseteq f[<<"feishu1", "g">>]}
\* The observation webhook sees two groups, the card channel a part of them.
ObserverFanouts ==
    {(<<Observer, "g">> :> g) @@ (<<"feishu1", "g">> :> h) @@
     (<<Observer, "h">> :> g) @@ (<<"feishu1", "h">> :> h) :
        g \in {x \in Groups : OneIdPerGroup(x)}, h \in Groups}
FilteredFanouts ==
    {f \in ObserverFanouts : f[<<"feishu1", "g">>] \subseteq f[<<Observer, "g">>]}
SomeFanouts == [p \in BOOLEAN |-> IF p THEN CardFanouts ELSE FilteredFanouts]
-----------------------------------------------------------------------------
\* Receiver kinds.
Types(k) ==
    CASE k \in {"dingtalk", "wechat"} -> {Nil, "markdown", "other"}
      [] k = "email" -> {Nil, "text", "html", "other"}
      [] k = "feishu" -> {Nil, "post", "markdown", "other"}
      [] k = "discord" -> {Nil, "embed", "other"}
      [] OTHER -> {Nil}
Details(k) ==
    CASE k = "pushover" -> {"fine", "odd", "missing"}
      [] k \in {"sms", "webhook"} -> {"fine", "odd"}
      [] k = "dingtalk" -> {"fine", "missing"}
      [] OTHER -> {"fine"}

SomeResources ==
    UNION {{[kind |-> k, template |-> t, title |-> Nil, type |-> y, selector |-> s, bot |-> b,
             cred |-> c, direct |-> d, detail |-> f] :
              t \in {Nil, "own"}, y \in Types(k), s \in {Nil, "bad"}, b \in BOOLEAN,
              c \in {"none", "value", "neither", "noKey"}, d \in BOOLEAN, f \in Details(k)} : k \in Kinds}
\* Receivers that reach a notifier, for the settings.
Sendable == {s \in SomeResources : s.selector = Nil /\ s.bot /\ s.cred = "value" /\ s.direct /\ s.detail = "fine"}
SomeConfigs ==
    {Nil} \cup {[cred |-> c, provider |-> p] : c \in {"none", "value", "noKey"},
                                               p \in {"present", "absent", "huaweiAbsent"}}
OneConfig == [cred |-> "value", provider |-> "present"]
SomeOptions ==
    {[global |-> g, template |-> t, type |-> y, title |-> Nil] :
        g \in {Nil, "global"}, t \in {Nil, "channel"}, y \in {Nil, "text"}}
NoOptions == [global |-> Nil, template |-> Nil, type |-> Nil, title |-> Nil]
-----------------------------------------------------------------------------
\* Stages.
Labelled(id, level, ns, sev) ==
    [id |-> id, labels |-> [level |-> level, namespace |-> ns, severity |-> sev]]

a1 == Labelled(1, "namespace", "ns1", "high")
a2 == Labelled(2, "namespace", "ns2", "")
a3 == Labelled(3, "cluster", "ns1", "low")

AllBatches == SUBSET {a1, a2, a3} \ {{}}

Sel(labels, exprs) == [labels |-> labels, exprs |-> exprs]
Expr(k, op, vs) == [key |-> k, op |-> op, values |-> vs]

High == Sel([severity |-> "high"], <<>>)
Graded == Sel(<<>>, <<Expr("severity", "Exists", {})>>)
NotOne == Sel(<<>>, <<Expr("namespace", "NotIn", {"ns1"}), Expr("level", "Match", {"namespace", "cluster"})>>)
Broken == Sel(<<>>, <<Expr("level", "Match", {"namespace"}), Expr("severity", "In", {})>>)
BadRegex == Sel(<<>>, <<Expr("severity", "Match", Bad)>>)

r0 == [hash |-> "h0", tenant |-> Global, selector |-> Nil]
r1 == [hash |-> "h1", tenant |-> "t1", selector |-> High]
r2 == [hash |-> "h2", tenant |-> "t2", selector |-> Nil]
r3 == [hash |-> "h3", tenant |-> "t1", selector |-> Broken]
SoundReceivers == {r0, r1, r2}
AnyReceivers == {r0, r1, r2, r3}

Access == [ns1 |-> {"t1"}, ns2 |-> {"t1", "t2"}]

Silence(t, s) == [tenant |-> t, matcher |-> s]
Router(s, rs) == [selector |-> s, receivers |-> rs]

World(silences, routers, policy, groupBy) ==
    [silences |-> silences, routers |-> routers, policy |-> policy, groupBy |-> groupBy, access |-> Access]

ManyWorlds ==
    {World(ss, rs, p, g) :
        ss \in {x \in SUBSET {Silence(Global, High), Silence(Global, NotOne), Silence("t1", Graded),
                              Silence("t2", NotOne), Silence("t1", BadRegex), Silence(Global, Broken), Silence(Global, BadRegex)} :
                  Cardinality(x) <= 2},
        rs \in SUBSET {Router(High, {r2}), Router(NotOne, {r0, r1}), Router(BadRegex, {r0})},
        p \in {"All", "RouterFirst", "RouterOnly"},
        g \in {{}, {"severity"}, {"severity", "namespace"}}}
-----------------------------------------------------------------------------
\* Plans.
Feishu(chats, users, bot, template, only) ==
    [kind |-> "feishu", chats |-> chats, users |-> users, departments |-> {},
     bot |-> bot, url |-> Nil, template |-> template, criticalOnly |-> only]

Webhook(url) ==
    [kind |-> "webhook", chats |-> {}, users |-> {}, departments |-> {},
     bot |-> Nil, url |-> url, template |-> "t1", criticalOnly |-> FALSE]

Email == [Webhook(Nil) EXCEPT !.kind = "email"]

HistoryWebhook == Webhook("history")

\* The scoped receiver; in the second instance a webhook and a team with a
\* department and a bot.
ScopedOnly == ("scoped" :> Feishu({prod}, {"u"}, Nil, "t1", TRUE))
ScopedEdits ==
    ("scoped" :> {Feishu({prod}, {"u"}, Nil, "t2", TRUE),
                  Feishu({prod, side}, {}, Nil, "t1", FALSE),
                  Feishu({side}, {}, Nil, "t1", TRUE)})

WithTeam ==
    "team" :> [Feishu({side}, {}, "ref", "t1", FALSE)
                   EXCEPT !.departments = {"d"}] @@
    "hook" :> Webhook("u1")
TeamEdits ==
    "team" :> {Feishu({side, lab}, {}, Nil, "t2", FALSE),
               Feishu({}, {}, "literal", "t1", FALSE),
               Feishu({side}, {}, Nil, "broken", FALSE), Email} @@
    "hook" :> {Webhook("u2"), Webhook("credentials")}

ALiteral(uid, app) == [mode |-> "literal", app |-> app, uid |-> uid]
LiteralConfigs == {ALiteral(1, infra), ALiteral(2, infra), ALiteral(1, stray)}
AllConfigs ==
    LiteralConfigs \cup {[mode |-> "public", app |-> infra, uid |-> 1],
                         [mode |-> "reference", app |-> Nil, uid |-> 1]}

TestProfile(v) ==
    [id |-> "test", version |-> v, owner |-> "o-test", receiver |-> "scoped",
     source |-> prod, testChat |-> lab]
FormalProfile(v, owner) ==
    [id |-> "formal", version |-> v, owner |-> owner, receiver |-> Nil,
     source |-> Nil, testChat |-> Nil]

\* One formal version for the scoped receiver, two for the team.
SomeProfiles ==
    <<"test", 1>> :> TestProfile(1) @@ <<"formal", 1>> :> FormalProfile(1, "o-1") @@
    <<"formal", 2>> :> FormalProfile(2, "o-1") @@ <<"formal", 3>> :> FormalProfile(3, "o-2")

Scope(owner, destinations_, names) ==
    [owner |-> owner, app |-> infra, receivers |-> names,
     destinations |-> destinations_]
SomeScopes ==
    <<"test", 1>> :> Scope("o-test", {lab}, {"scoped"}) @@
    <<"formal", 1>> :> Scope("o-1", {prod}, {"scoped"}) @@
    <<"formal", 2>> :> Scope("o-1", {side}, {"team"}) @@
    <<"formal", 3>> :> Scope("o-2", {side}, {"team"})

SomeReceivers == {ScopedOnly, WithTeam}
SomeEdits == ScopedEdits @@ TeamEdits
-----------------------------------------------------------------------------
contractVars == <<annotationVars, identityVars, kindsVars, stagesVars, planVars, part>>

Sent == CHOOSE r \in Sendable : r.kind = "slack"
Still == World({}, {}, "All", {})

\* The two clusters of the plan: the scoped receiver under any Config and two
\* edits, the team and the webhook under a literal Config and one.
InCluster(p) ==
    IF p = "team"
    THEN /\ {held, stored} \subseteq LiteralConfigs \cup {Nil} /\ edits <= 1
         /\ prepared \subseteq {<<"formal", 2>>, <<"formal", 3>>}
    ELSE prepared \subseteq {<<"test", 1>>, <<"formal", 1>>}

\* Every part but one starts in one state.
Fixed(p) ==
    /\ p = "annotation" \/ (wire = OneWire /\ AnnotationInit)
    /\ p = "identity" \/ (production = TRUE /\ IdentityInit)
    /\ \/ p = "kinds"
       \/ resource = Sent /\ config = OneConfig /\ options = NoOptions /\ path = "cr" /\ KindsInit
    /\ p = "stages" \/ (world = Still /\ input = {a1} /\ StagesInit)
    /\ \/ p = "plan"
       \/ receivers = ScopedOnly /\ held = ALiteral(1, infra) /\ vault = infra /\ PlanInit

ContractInit ==
    /\ part \in Taken
    /\ \/ part = "annotation" /\ Fixed("annotation") /\ AnnotationInit
       \/ part = "identity" /\ Fixed("identity") /\ IdentityInit
       \/ part = "kinds" /\ Fixed("kinds") /\ options = NoOptions /\ KindsInit
       \/ part = "settings" /\ Fixed("kinds") /\ resource \in Sendable /\ config = OneConfig /\ KindsInit
       \/ part = "stages" /\ Fixed("stages") /\ StagesInit
       \/ part = "scoped" /\ Fixed("plan") /\ receivers = ScopedOnly /\ PlanInit
       \/ part = "team" /\ Fixed("plan") /\ receivers = WithTeam /\ held \in LiteralConfigs /\ PlanInit

Idles(p) ==
    /\ p = "annotation" \/ UNCHANGED annotationVars
    /\ p = "identity" \/ UNCHANGED identityVars
    /\ p = "kinds" \/ UNCHANGED kindsVars
    /\ p = "stages" \/ UNCHANGED stagesVars
    /\ p = "plan" \/ UNCHANGED planVars

ContractNext ==
    /\ UNCHANGED part
    /\ \/ part = "annotation" /\ AnnotationNext /\ Idles("annotation")
       \/ part = "identity" /\ IdentityNext /\ Idles("identity")
       \/ part = "kinds" /\ KindsNext /\ options' = NoOptions /\ Idles("kinds")
       \/ part = "settings" /\ KindsNext /\ Idles("kinds")
       \/ part = "stages" /\ StagesNext /\ Idles("stages")
       \/ part \in {"scoped", "team"} /\ PlanNext /\ InCluster(part)' /\ Idles("plan")

ContractSpec == ContractInit /\ [][ContractNext]_contractVars
-----------------------------------------------------------------------------
\* No judgment that chooses the likelier route and differs from an accepted one
\* only in its routing answer is refused for percents that are the rounding of a
\* distribution.
RoundedJudgmentsAccepted ==
    (/\ [wire EXCEPT !["routing"] = Nil] = RoundingWire(Nil) /\ wire["routing"] # Nil
     /\ wire["routing"].choice = Likelier(wire["routing"].probabilities))
        => RoundedAnswersAccepted

\* An accepted annotation is read back from the state file as it was, shows no route
\* that its answers do not carry, and is not refused for being rounded.
AnnotationsAreSound ==
    StoredFormDecodes /\ PoolReachesThreshold /\ ExceptionKeepsOriginal /\ RoundedJudgmentsAccepted
=============================================================================
