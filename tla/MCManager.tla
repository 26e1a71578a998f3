----------------------------- MODULE MCManager ------------------------------
(***************************************************************************)
(* Instances of the parts of the notification manager itself: the operator *)
(* that hands a sender over, the controller that keeps receivers and       *)
(* configs, the in-memory pipeline and the notifiers.  They share no state *)
(* in these models, so that one run takes them one at a time: `part`       *)
(* moves, the others stay as they start.                                   *)
(***************************************************************************)
EXTENDS SenderHandoff, ConfigController, MemoryPipeline, Notifiers, Throttle, TokenCache,
        MessageSplit

CONSTANTS Taken,           \* what the run takes
          c1, c2

VARIABLE part

\* A receiver and a config whose labels fit a global selector, a tenant or the
\* default config.
TypeGlobal == <<"type", "global">>
TypeTenant == <<"type", "tenant">>
TypeDefault == <<"type", "default">>
OfUser(u) == {TypeTenant, <<"user", u>>, <<"org", "o">>}

Discord == {<<"receivers", "d">>}
TwoKinds == {<<"receivers", "r">>, <<"configs", "c">>} \cup Discord
OneReceiver == {<<"receivers", "r">>}
AllLabels == {{TypeGlobal}, OfUser("a"), {TypeDefault}}
Tenants == {{TypeGlobal}, OfUser("a")}

Manager(key) == [tenantKey |-> key, global |-> {TypeGlobal}, tenant |-> {TypeTenant},
                 default |-> {TypeDefault}]
ByUser == {Manager("user")}
ByUserOrOrg == {Manager("user"), Manager("org")}

TwoRequests == [h \in Handlers |-> IF h = 1 THEN <<"a", "b">> ELSE <<"c">>]

\* Feishu receivers.
Rcv(type, parses, frozen, targets) ==
    [type |-> type, parses |-> parses, frozen |-> frozen, targets |-> targets]
AnyReceiver ==
    {Rcv(t, p, f, ts) : t \in {"text", "interactive", "other"}, p \in BOOLEAN, f \in BOOLEAN,
        ts \in {{"chatbot"}, {"batch", c1}, {c1, c2}, {"chatbot", c1}}}
FewReceivers ==
    {Rcv("interactive", TRUE, f, ts) : f \in BOOLEAN, ts \in {{"chatbot", "batch"}, {c1, c2}}}
OneChat == Rcv("interactive", TRUE, FALSE, {c1, c2})

\* Every channel, with two parts where it splits and two targets where it has them.
Note(k, p, n) == [kind |-> k, parts |-> p, targets |-> 1 .. n]
OneMessage == Note("aws", 1, 1)
EveryChannel ==
    {Note(k, 1, 2) : k \in {"email", "slack", "telegram"}}
        \cup {Note(k, 1, 1) : k \in {"webhook", "huawei", "tencent", "aws", "aliyun"}}
        \cup {Note(k, 2, 1) : k \in {"discord", "pushover", "chatbot", "conversation", "wechat", "wechatBot"}}
        \cup {Note("wechat", 1, 2), Note("conversation", 1, 2)}
        \cup {Note(k, 0, 1) : k \in {"discord", "chatbot", "wechat"}}
FewChannels == {Note("slack", 1, 2), Note("webhook", 1, 1), Note("chatbot", 2, 1), Note("discord", 0, 1), OneMessage}

TwoSettings == {[threshold |-> 1, unitTime |-> 2, maxWaitTime |-> 1],
                [threshold |-> 2, unitTime |-> 3, maxWaitTime |-> 3]}

\* WeChat takes two users, one party and one tag at a time.
SmallBatches == [toUser |-> 2, toParty |-> 1, toTag |-> 1]
Nobody == [s \in Sorts |-> <<>>]

OneApp(s) == [corpID |-> "corp", apiSecret |-> "secret", agentID |-> "agent"]
-----------------------------------------------------------------------------
managerVars == <<handoffVars, controllerVars, memoryVars, feishuVars, notifyVars,
                 throttleVars, tokenVars, splitVars, part>>

ManagerInit ==
    /\ part \in Taken
    /\ HandoffInit /\ New /\ MemoryInit /\ ThrottleInit /\ TokenInit
    /\ FeishuInit /\ (part = "feishu" \/ receiver = OneChat)
    /\ NotifyInit /\ (part = "channels" \/ note = OneMessage)
    /\ (part = "split" \/ (sizes = <<>> /\ to = Nobody)) /\ SplitInit

\* In "moves" nothing is deleted.
NoDeletion == \A o \in Objects : object[o] # Nil => object'[o] # Nil

Idles(p) ==
    /\ p = "handoff" \/ UNCHANGED handoffVars
    /\ p = "controller" \/ UNCHANGED controllerVars
    /\ p = "memory" \/ UNCHANGED memoryVars
    /\ p = "feishu" \/ UNCHANGED feishuVars
    /\ p = "channels" \/ UNCHANGED notifyVars
    /\ p = "throttle" \/ UNCHANGED throttleVars
    /\ p = "token" \/ UNCHANGED tokenVars
    /\ p = "split" \/ UNCHANGED splitVars

ManagerNext ==
    /\ UNCHANGED part
    /\ \/ part = "handoff" /\ HandoffNext /\ Idles("handoff")
       \/ part = "controller" /\ ControllerNext /\ Idles("controller")
       \/ part = "moves" /\ ControllerNext /\ NoDeletion /\ Idles("controller")
       \/ part = "memory" /\ MemoryNext /\ Idles("memory")
       \/ part = "feishu" /\ FeishuNext /\ Idles("feishu")
       \/ part = "channels" /\ NotifyNext /\ Idles("channels")
       \/ part = "throttle" /\ ThrottleNext /\ Idles("throttle")
       \/ part = "token" /\ TokenNext /\ Idles("token")
       \/ part = "split" /\ SplitNext /\ Idles("split")

ManagerSpec == ManagerInit /\ [][ManagerNext]_managerVars

\* Every part is scheduled as it is alone; the throttle has no liveness here.
ControlFairSpec ==
    /\ ManagerSpec
    /\ \/ <>[](part = "handoff") /\ HandoffFairness
       \/ <>[](part = "controller") /\ ControllerFairness
       \/ <>[](part = "memory") /\ MemoryFairness

NotifierFairSpec ==
    /\ ManagerSpec
    /\ \/ <>[](part = "feishu") /\ FeishuFairness
       \/ <>[](part = "channels") /\ NotifyFairness
       \/ <>[](part = "token") /\ TokenFairness
       \/ <>[](part = "split") /\ SplitFairness
-----------------------------------------------------------------------------
\* While no resource is deleted and the manager keeps its spec, a receiver that
\* changes hands is held for one tenant at a time, however its events and the reloads
\* of the controller meet; Discord receivers, which keep no version, are exempt.
HeldOnceUnlessDeleted == part = "moves" => HeldOnce

\* While no resource is deleted and the manager keeps its spec, neither a late event
\* nor a reload puts an older version of a receiver or config in the place of a
\* newer one; the stale check does not see the version of a Discord receiver.
NeverOlder == [][part = "moves" => KeepsNewest]_managerVars

\* The handover of the part that runs is carried out.
HandoverIsRealised == part = "handoff" => IntentIsRealised

\* Where a message is split, the loops of Split and of the batches end.
MessageSplitEnds == part = "split" => SplitEnds

\* With one spec of the manager, receivers and configs are held for the right
\* tenant, and for that one alone; Discord receivers are held, but a reload may
\* leave an outdated version of them, or one for another tenant.
ReceiversAreHeld == NoneMissing /\ HeldOnceUnlessDeleted

\* The control loops come to rest and the pipeline ends, although caches lag,
\* channels are full and pipelines hang.
ControlSettles == HandoverIsRealised /\ ChangesSettle /\ BatchSettles /\ DispatcherReturns

\* Notifiers end although platforms may never answer: senders, Notify, the calls
\* for a token and the loops that cut a message.
NotifiersEnd == FeishuSendersEnd /\ NotifyReturns /\ SendersEnd /\ CallsReturn /\ MessageSplitEnds
=============================================================================
