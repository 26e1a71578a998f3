----------------------------- MODULE FrozenPlan -----------------------------
(***************************************************************************)
(* What an accepted notification is, from the routed plan to the card: the *)
(* lane's overlay (ApplyProfile), the split into one frozen target per     *)
(* destination (Freeze, pkg/notify/durable.go), its binding to a profile   *)
(* version (BindFrozenProfile), the history messages that wait for it      *)
(* (FreezeHistory), and the checks a worker repeats before it sends        *)
(* (SendFrozen).                                                           *)
(*                                                                         *)
(* Between these steps the cluster is edited: receivers, the Feishu Config *)
(* and the Secret its references name, the active profile version.  The    *)
(* controller's receivers hold a Config that may lag behind the cache.     *)
(* Queues, attempts and crashes are NotificationSpool and                  *)
(* DurableDispatcher; one request and one send at a time are enough here.  *)
(***************************************************************************)
EXTENDS Absence, Naturals, FiniteSets

CONSTANTS Lanes,           \* {"test", "formal"}, or {Nil} without profiles
          Profiles,        \* registered versions: [<<lane, version>> -> profile]
          Shadow,          \* the Jev shadow is enabled
          Scopes,          \* its delivery scopes: [<<lane, version>> -> scope]
          Originals,       \* first contents of the Receiver objects
          Edited,          \* contents an edit may give them: [name -> set]
          AppConfigs,      \* contents of the Feishu Config object
          Apps,            \* application identities
          Alerts,
          Critical,        \* alerts with severity=critical
          History,         \* the history webhook, or Nil
          MaxEdits         \* bound: changes to the cluster

ReceiverFields == {"kind", "chats", "users", "departments", "bot", "url", "template"}
ConfigModes == {"literal", "public", "reference"}

\* A profile is registered under its lane and version; "history" names the targets of
\* the history webhook, and no receiver.
ASSUME PlanConstants ==
    /\ \A key \in DOMAIN Profiles :
          /\ key = <<key[1], key[2]>> /\ key[1] \in {"test", "formal"}
          /\ Profiles[key].id = key[1] /\ Profiles[key].version = key[2]
    /\ \A f \in Originals : \A n \in DOMAIN f :
          n # "history" /\ \A r \in {f[n]} \cup Edited[n] : ReceiverFields \subseteq DOMAIN r
    /\ \A c \in AppConfigs : c.mode \in ConfigModes
    /\ History # Nil => History.kind = "webhook"
    /\ Nil \notin AppConfigs
    /\ Nil \notin {"test", "formal", "scope", "owner", "destination", "payload", "escape", "sender", "credential"}
    /\ MaxEdits \in Nat

VARIABLES receivers,       \* Receiver objects, as the controller holds them
          held,            \* the Config inside those receivers
          stored,          \* the Config in the informer's cache, or Nil
          vault,           \* the application the Secret names
          prepared,        \* profile versions that passed preparation
          active,          \* the active version of a lane, or Nil
          request,         \* the request being accepted, or Nil
          accepted,        \* the durable targets of the accepted request
          origin,          \* the routed plan it came from, its profile and applications
          sending,         \* a frozen notification handed to its notifier, or Nil
          card,            \* the last card posted, or Nil
          refused,         \* the last refusal before a send, or Nil
          edits

planVars == <<receivers, held, stored, vault, prepared, active, request, accepted,
          origin, sending, card, refused, edits>>

cluster == <<receivers, held, stored, vault, prepared, active, edits>>

Chat(id) == <<"chat", id>>
Nothing == [plan |-> Nil, profile |-> Nil, app |-> Nil]

PlanInit ==
    /\ receivers \in Originals
    /\ held \in AppConfigs /\ stored = held
    /\ vault \in Apps
    /\ prepared = {} /\ active = [l \in Lanes |-> Nil]
    /\ request = Nil /\ accepted = {} /\ origin = Nothing
    /\ sending = Nil /\ card = Nil /\ refused = Nil
    /\ edits = 0
-----------------------------------------------------------------------------
(***************************************************************************)
(* Credentials.  A Config's mode is "literal" (both values inline),        *)
(* "public" (inline appID, referenced secret) or "reference" (both         *)
(* referenced).                                                            *)
(***************************************************************************)

\* GetCredential of the AppID
AppOf(config) == IF config.mode = "reference" THEN vault ELSE config.app

ResolveFeishuCredentialReference(ref) ==
    /\ stored # Nil
    /\ stored.uid = ref.uid
    /\ AppOf(stored) = ref.app

\* The frozen Config: its literal secret is replaced by a reference to the
\* Config object; a referenced secret stays what it is.
FreezeFeishuCredentialReference(config) ==
    IF config.mode = "literal"
    THEN [mode |-> "resolved", app |-> config.app,
          uid |-> IF stored = Nil THEN Nil ELSE stored.uid]
    ELSE config

ValidateProfileSender(lane, version, app) ==
    Shadow => /\ <<lane, version>> \in DOMAIN Scopes
              /\ Scopes[<<lane, version>>].app = app

ValidateProfileBinding(p, receiver, chat) ==
    Shadow => /\ <<p.id, p.version>> \in DOMAIN Scopes
              /\ LET s == Scopes[<<p.id, p.version>>]
                 IN  /\ s.owner = p.owner
                     /\ receiver \in s.receivers
                     /\ chat \in s.destinations
-----------------------------------------------------------------------------
(***************************************************************************)
(* The plan.  An entry is a routed receiver with its group of alerts.      *)
(***************************************************************************)
Unbound == [id |-> Nil, version |-> Nil, owner |-> Nil, source |-> Nil]

Stamp(p, source) ==
    [id |-> p.id, version |-> p.version, owner |-> p.owner, source |-> source]

InScope(p, n, entry) ==
    p.id = "test" => /\ entry.rcv.kind = "feishu" /\ n = p.receiver
                     /\ p.source \in entry.rcv.chats
                     /\ entry.alerts \cap Critical # {}

\* A receiver with these destinations alone.
Sole(r, chats, users, departments, bot) ==
    [r EXCEPT !.chats = chats, !.users = users, !.departments = departments, !.bot = bot]

Overlay(p, entry) ==
    IF p.id # "test" THEN [entry EXCEPT !.data = Stamp(p, Nil)]
    ELSE [entry EXCEPT !.rcv = Sole(@, {p.testChat}, {}, {}, Nil), !.alerts = @ \cap Critical,
                       !.data = Stamp(p, Chat(p.source))]

ApplyProfile(p, plan) ==
    [n \in {m \in DOMAIN plan : InScope(p, m, plan[m])} |-> Overlay(p, plan[n])]

\* One frozen receiver per destination, with its template text removed.
destinations(r) ==
    LET base == [r EXCEPT !.template = Nil]
    IN  CASE r.kind = "feishu" ->
               {[rcv |-> Sole(base, {c}, {}, {}, Nil), to |-> Chat(c)] : c \in r.chats}
               \cup {[rcv |-> Sole(base, {}, {u}, {}, Nil), to |-> <<"user", u>>] : u \in r.users}
               \cup {[rcv |-> Sole(base, {}, {}, {d}, Nil), to |-> <<"department", d>>] : d \in r.departments}
               \cup {[rcv |-> Sole(base, {}, {}, {}, b), to |-> <<"bot-ref", b>>] : b \in {r.bot} \ {Nil}}
          [] r.kind = "webhook" ->
               {[rcv |-> Sole(base, {}, {}, {}, Nil), to |-> <<"webhook", r.url>>]}
          [] OTHER -> {}

\* Freeze fails as a whole: a channel without renderer or adapter, a webhook
\* URL that carries credentials, no destination, an application outside the
\* scope, a literal credential that no Config object backs, a literal bot.
CanFreeze(entry) ==
    LET r == entry.rcv
    IN  /\ r.kind \in {"feishu", "webhook"}
        /\ r.template # "broken"
        /\ destinations(r) # {}
        /\ r.kind = "webhook" => r.url # "credentials"
        /\ r.kind = "feishu" =>
             /\ entry.data.id # Nil =>
                  ValidateProfileSender(entry.data.id, entry.data.version,
                                        AppOf(entry.config))
             /\ entry.config.mode = "literal" =>
                  ResolveFeishuCredentialReference(
                      FreezeFeishuCredentialReference(entry.config))
             /\ r.bot # "literal"

\* The targets of one entry.  The content is rendered now; the revision is
\* the hash of the payload, here the payload itself.
FrozenTargets(n, entry) ==
    {[receiver |-> n, channel |-> entry.rcv.kind, to |-> d.to,
      bound |-> Unbound, waits |-> {},
      payload |-> [rcv |-> d.rcv, data |-> entry.data, alerts |-> entry.alerts,
                   config |-> IF entry.rcv.kind = "feishu"
                              THEN FreezeFeishuCredentialReference(entry.config)
                              ELSE Nil,
                   content |-> <<entry.rcv.template, entry.alerts>>]]
       : d \in destinations(entry.rcv)}

Freeze(plan) == UNION {FrozenTargets(n, plan[n]) : n \in DOMAIN plan}

\* BindFrozenProfile for one target: the row and its payload agree.
Bind(p, t) ==
    LET b == Stamp(p, IF p.id = "test" THEN Chat(p.source) ELSE t.to)
    IN  [t EXCEPT !.bound = b, !.payload.data = b]

BindFrozenProfile(p, targets) ==
    IF p = Nil THEN targets ELSE {Bind(p, t) : t \in targets}

\* One message per alert and history webhook, after any original delivery
\* of that alert.
FreezeHistory(primary) ==
    IF History = Nil THEN {}
    ELSE UNION {
        {[h EXCEPT !.waits = {t.payload : t \in {q \in primary :
                                                 a \in q.payload.alerts}}]
           : h \in FrozenTargets("history",
                     [rcv |-> History, config |-> Nil, alerts |-> {a},
                      data |-> Unbound])}
        : a \in UNION {t.payload.alerts : t \in primary}}

\* acceptDurable after the pipeline; history is not copied into the test lane.
Plan(p, plan) ==
    LET frozen == Freeze(IF p = Nil THEN plan ELSE ApplyProfile(p, plan))
        primary == BindFrozenProfile(p, frozen)
    IN  primary \cup
        IF p # Nil /\ p.id = "test" THEN {}
        ELSE BindFrozenProfile(p, FreezeHistory(primary))
-----------------------------------------------------------------------------
(***************************************************************************)
(* Preparation and the test lane's scope check.                            *)
(***************************************************************************)
ScopeReceiver(p) ==
    /\ p.receiver \in DOMAIN receivers
    /\ receivers[p.receiver].kind = "feishu"
    /\ receivers[p.receiver].criticalOnly
    /\ p.source \in receivers[p.receiver].chats

validateTestScope(p) == ScopeReceiver(p)

\* The synthetic group of validateProfile has one critical alert.
Entry(n, alerts) ==
    [rcv |-> receivers[n], alerts |-> alerts, config |-> held, data |-> Unbound]

validateProfile(p) ==
    LET rs == IF p.id = "test" THEN {p.receiver} \cap DOMAIN receivers
              ELSE DOMAIN receivers
        sample == [n \in rs |-> Entry(n, Critical)]
        plan == IF p.id = "test" THEN ApplyProfile(p, sample) ELSE sample
    IN  /\ rs # {}
        /\ p.id = "test" => /\ ValidateProfileBinding(p, p.receiver, p.testChat)
                            /\ ScopeReceiver(p)
        /\ \A n \in rs :
             /\ receivers[n].kind \in {"feishu", "webhook"}
             /\ destinations(receivers[n]) # {}
             /\ receivers[n].kind = "feishu" =>
                  /\ ValidateProfileSender(p.id, p.version, AppOf(held))
                  /\ p.id = "formal" => \A c \in receivers[n].chats :
                         ValidateProfileBinding(p, n, c)
        /\ \A n \in DOMAIN plan : CanFreeze(plan[n])

\* ProfileControl: prepare, then activate.
Prepare(key) ==
    /\ key \notin prepared /\ validateProfile(Profiles[key])
    /\ prepared' = prepared \cup {key}
    /\ UNCHANGED <<receivers, held, stored, vault, active, edits, request,
                   accepted, origin, sending, card, refused>>

Activate(key) ==
    /\ key \in prepared /\ active[key[1]] # key[2]
    /\ active' = [active EXCEPT ![key[1]] = key[2]]
    /\ UNCHANGED <<receivers, held, stored, vault, prepared, edits, request,
                   accepted, origin, sending, card, refused>>
-----------------------------------------------------------------------------
(***************************************************************************)
(* One request.                                                            *)
(***************************************************************************)

\* Guard binds the snapshot of the lane; TestAlert checks its scope.
Admit(lane) ==
    /\ request = Nil /\ accepted = {}
    /\ lane # Nil => active[lane] # Nil
    /\ LET p == IF lane = Nil THEN Nil ELSE Profiles[<<lane, active[lane]>>]
       IN  /\ lane = "test" => validateTestScope(p)
           /\ request' = [profile |-> p, plan |-> Nil]
    /\ UNCHANGED <<cluster, accepted, origin, sending, card, refused>>

\* The pipeline up to aggregation, which PipelineStages models: a group of
\* alerts for each receiver of some set.
Route(groups) ==
    /\ request # Nil /\ request.plan = Nil
    /\ request' = [request EXCEPT !.plan =
                      [n \in DOMAIN groups |-> Entry(n, groups[n])]]
    /\ UNCHANGED <<cluster, accepted, origin, sending, card, refused>>

\* validateProfileTarget, in the transaction that stores the plan
ValidTarget(t) ==
    t.bound.id # Nil =>
        LET p == Profiles[<<t.bound.id, t.bound.version>>]
        IN  /\ t.bound.owner = p.owner
            /\ p.id = "test" => /\ t.channel = "feishu"
                                /\ t.receiver = p.receiver
                                /\ t.to = Chat(p.testChat)
                                /\ t.bound.source = Chat(p.source)

\* Freeze, bind and submit, or answer with an error and store nothing.  The
\* store checks every target, that history waits for targets of the same
\* plan, and that the snapshot is still the active version.
Accept ==
    /\ request # Nil /\ request.plan # Nil
    /\ LET p == request.profile
           plan == IF p = Nil THEN request.plan ELSE ApplyProfile(p, request.plan)
           targets == Plan(p, request.plan)
       IN  /\ accepted' = IF /\ \A n \in DOMAIN plan : CanFreeze(plan[n])
                             /\ \A t \in targets :
                                  /\ ValidTarget(t)
                                  /\ t.waits \subseteq {q.payload : q \in
                                         {u \in targets : u.waits = {}}}
                             /\ p # Nil => active[p.id] = p.version
                          THEN targets ELSE {}
           /\ origin' = IF accepted' = {} THEN Nothing
                        ELSE [plan |-> request.plan, profile |-> p,
                              app |-> [n \in DOMAIN request.plan |->
                                         AppOf(request.plan[n].config)]]
    /\ request' = Nil
    /\ UNCHANGED <<cluster, sending, card, refused>>
-----------------------------------------------------------------------------
(***************************************************************************)
(* One send.                                                               *)
(***************************************************************************)

\* The checks of SendFrozen, in order; the first that fails names the refusal.
Checks(t) ==
    LET p == Profiles[<<t.bound.id, t.bound.version>>]
        f == t.payload
        lane == t.bound.id # Nil
        feishu == t.channel = "feishu"
    IN  <<[name |-> "scope",
           ok |-> (lane /\ feishu /\ t.to[1] = "chat") =>
                      ValidateProfileBinding(p, t.receiver, t.to[2])],
          [name |-> "owner", ok |-> lane => p.owner = t.bound.owner],
          [name |-> "destination", ok |-> lane => ValidTarget(t)],
          [name |-> "payload", ok |-> lane => f.data = t.bound],
          [name |-> "escape",
           ok |-> (lane /\ feishu /\ t.bound.id = "test") =>
                      /\ \E c \in f.rcv.chats : f.rcv.chats = {c} /\ t.to = Chat(c)
                      /\ f.rcv.users = {} /\ f.rcv.departments = {}
                      /\ f.rcv.bot = Nil],
          [name |-> "sender",
           ok |-> (lane /\ feishu) =>
                      ValidateProfileSender(t.bound.id, t.bound.version,
                                            AppOf(f.config))],
          [name |-> "credential",
           ok |-> (feishu /\ f.config.mode = "resolved") =>
                      ResolveFeishuCredentialReference(f.config)]>>

\* The secret of the Config object that backs a literal credential
Secret(t) ==
    IF t.channel = "feishu" /\ t.payload.config.mode = "resolved"
    THEN [uid |-> stored.uid, app |-> AppOf(stored)] ELSE Nil

Refusal(t) ==
    LET failed == {i \in DOMAIN Checks(t) : ~Checks(t)[i].ok}
    IN  IF failed = {} THEN Nil
        ELSE Checks(t)[CHOOSE i \in failed : \A j \in failed : i <= j].name

\* Mutant: the message is rendered again from the live receiver.
SendFrozenRerenders(t) ==
    /\ sending = Nil
    /\ IF Refusal(t) = Nil
       THEN /\ sending' = [target |-> t,
                           content |-> <<IF t.receiver \in DOMAIN receivers
                                         THEN receivers[t.receiver].template
                                         ELSE t.payload.content[1],
                                         t.payload.alerts>>,
                           secret |-> Secret(t)]
            /\ UNCHANGED refused
       ELSE /\ refused' = [target |-> t, why |-> Refusal(t)]
            /\ UNCHANGED sending
    /\ UNCHANGED <<cluster, request, accepted, origin, card>>

SendFrozen(t) ==
    /\ sending = Nil
    /\ IF Refusal(t) = Nil
       THEN /\ sending' = [target |-> t, content |-> t.payload.content,
                           secret |-> Secret(t)]
            /\ UNCHANGED refused
       ELSE /\ refused' = [target |-> t, why |-> Refusal(t)]
            /\ UNCHANGED sending
    /\ UNCHANGED <<cluster, request, accepted, origin, card>>

\* The notifier posts to every destination of the frozen receiver.
Notify ==
    /\ sending # Nil
    /\ LET t == sending.target
           r == t.payload.rcv
       IN  card' = [target |-> t, content |-> sending.content,
                    to |-> {d.to : d \in destinations(r)},
                    secret |-> sending.secret]
    /\ sending' = Nil
    /\ UNCHANGED <<cluster, request, accepted, origin, refused>>
-----------------------------------------------------------------------------
(***************************************************************************)
(* The cluster.                                                            *)
(***************************************************************************)
Edit ==
    /\ edits < MaxEdits
    /\ edits' = edits + 1
    /\ \/ /\ \E n \in DOMAIN receivers : \E shape \in Edited[n] :
                receivers' = [receivers EXCEPT ![n] = shape]
          /\ UNCHANGED <<held, stored, vault>>
       \/ /\ stored' \in AppConfigs \cup {Nil}
          /\ UNCHANGED <<receivers, held, vault>>
       \/ /\ vault' \in Apps
          /\ UNCHANGED <<receivers, held, stored>>
    /\ UNCHANGED <<prepared, active, request, accepted, origin, sending, card,
                   refused>>

\* The controller's configOperation
Sync ==
    /\ stored # Nil /\ held # stored
    /\ held' = stored
    /\ UNCHANGED <<receivers, stored, vault, prepared, active, edits, request,
                   accepted, origin, sending, card, refused>>

PlanNext ==
    \/ \E key \in DOMAIN Profiles : Prepare(key) \/ Activate(key)
    \/ \E lane \in Lanes : Admit(lane)
    \/ \E names \in SUBSET DOMAIN receivers \ {{}} :
           \E groups \in [names -> SUBSET Alerts \ {{}}] : Route(groups)
    \/ Accept
    \/ \E t \in accepted : SendFrozen(t)
    \/ Notify
    \/ Edit
    \/ Sync

PlanSpec == PlanInit /\ [][PlanNext]_planVars
-----------------------------------------------------------------------------
\* An active version was prepared, and a plan is accepted with its origin.
PlanTypeOK ==
    /\ prepared \subseteq DOMAIN Profiles
    /\ \A l \in Lanes : active[l] # Nil => <<l, active[l]>> \in prepared
    /\ edits \in 0..MaxEdits
    /\ (accepted = {}) = (origin.plan = Nil)

(***************************************************************************)
(* "SendFrozen never re-routes or re-renders ... a receiver/template edit  *)
(* cannot change the accepted target": a card carries the content rendered *)
(* from the receiver as it was routed and goes to exactly one destination  *)
(* of it (the test chat in the test lane), whatever was edited since.      *)
(***************************************************************************)
CardIsAsAccepted ==
    card # Nil /\ card.target.waits = {} =>
        LET e == origin.plan[card.target.receiver]
            test == origin.profile # Nil /\ origin.profile.id = "test"
        IN  /\ card.to = {card.target.to}
            /\ card.content[1] = e.rcv.template
            /\ card.content[2] = IF test THEN e.alerts \cap Critical ELSE e.alerts
            /\ \/ test
               \/ card.target.to \in {d.to : d \in destinations(e.rcv)}

(***************************************************************************)
(* The test lane copies "exactly the original scoped chat intent, and no   *)
(* other channels or destinations": every card of it is a critical one, of *)
(* the scoped receiver while it named the source chat, posted to the test  *)
(* chat alone, even when the receiver changed after TestAlert's check.     *)
(***************************************************************************)
TestLaneIsACopy ==
    card # Nil /\ card.target.bound.id = "test" =>
        LET p == Profiles[<<"test", card.target.bound.version>>]
        IN  /\ card.to = {Chat(p.testChat)}
            /\ card.target.receiver = p.receiver
            /\ p.source \in origin.plan[p.receiver].rcv.chats
            /\ card.content[2] \subseteq Critical

(***************************************************************************)
(* "Same-app secret rotation is supported; Config replacement/app identity *)
(* drift is a known pre-send rejection": a card whose Config held a literal*)
(* secret is posted with the secret of that very Config object, while it   *)
(* still names the application the request was routed with, although the   *)
(* routed receiver's Config may have lagged behind the cache.              *)
(***************************************************************************)
SecretIsOfTheAcceptedApp ==
    card # Nil /\ card.secret # Nil =>
        card.secret = [uid |-> card.target.payload.config.uid,
                       app |-> origin.app[card.target.receiver]]

(***************************************************************************)
(* What acceptance froze passes the fences of every later send: a target   *)
(* is refused only for its live credentials, or because a receiver edited  *)
(* after preparation named a chat outside the formal scope; never for its  *)
(* owner, its destination, its payload or its transport, and never for the *)
(* scope in the test lane.  A refusal is retried for ever.                 *)
(***************************************************************************)
RefusedOnlyForLiveState ==
    refused # Nil =>
        \/ refused.why \in {"sender", "credential"}
        \/ refused.why = "scope" /\ refused.target.bound.id = "formal"

(***************************************************************************)
(* "Each history message is frozen separately and waits for a confirmed    *)
(* original delivery of that alert": it waits for exactly the stored       *)
(* targets of the same request that carry its alert, and for at least one; *)
(* the test lane has none.                                                 *)
(***************************************************************************)
HistoryWaitsForItsAlert ==
    \A h \in {t \in accepted : t.receiver = "history"} :
        /\ h.bound.id # "test"
        /\ \E a \in Alerts :
             /\ h.payload.alerts = {a}
             /\ h.waits # {}
             /\ h.waits = {t.payload : t \in {q \in accepted :
                               q.receiver # "history" /\ a \in q.payload.alerts}}

\* Whatever is edited between overlay, freeze and send, what is sent is what was
\* accepted, where it was accepted for, and history follows its own alert.
PlanIsKept ==
    /\ PlanTypeOK /\ CardIsAsAccepted /\ TestLaneIsACopy
    /\ RefusedOnlyForLiveState /\ SecretIsOfTheAcceptedApp /\ HistoryWaitsForItsAlert
=============================================================================
