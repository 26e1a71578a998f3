-------------------------- MODULE Contracts_proofs --------------------------
(***************************************************************************)
(* What the components agree on, each part with its inductive invariant:   *)
(* the annotation a producer attaches, the identities of deliveries, the   *)
(* receiver kinds, the stages that choose alerts and receivers, and the    *)
(* plan an accepted notification is frozen into.                           *)
(***************************************************************************)
EXTENDS AnnotationContract, DeliveryIdentity, ReceiverKinds, PipelineStages, FrozenPlan, TLAPS

\* Zenon is asked first; a leaf that needs arithmetic, records or many cases cites SMT.
USE Zenon

-----------------------------------------------------------------------------
(***************************************************************************)
(* FrozenPlan.  Freeze makes one target per address of a routed receiver;  *)
(* binding, storing and sending keep it, whatever the cluster is edited    *)
(* to.                                                                     *)
(***************************************************************************)
\* Assigning the destinations of a receiver changes them and nothing else.
LEMMA SoleFields ==
    ASSUME NEW r, ReceiverFields \subseteq DOMAIN r, NEW c, NEW u, NEW d, NEW b, NEW s, s = Sole(r, c, u, d, b)
    PROVE  /\ s.chats = c /\ s.users = u /\ s.departments = d /\ s.bot = b
           /\ s.kind = r.kind /\ s.url = r.url /\ s.template = r.template
           /\ ReceiverFields \subseteq DOMAIN s
<1>1. PICK r1 : r1 = [r EXCEPT !.chats = c]
    OBVIOUS
<1>2. PICK r2 : r2 = [r1 EXCEPT !.users = u]
    OBVIOUS
<1>3. PICK r3 : r3 = [r2 EXCEPT !.departments = d]
    OBVIOUS
<1>4. s = [r3 EXCEPT !.bot = b]
    BY SMT, <1>1, <1>2, <1>3 DEF Sole
<1>5. /\ r1.chats = c /\ r1.kind = r.kind /\ r1.url = r.url /\ r1.template = r.template
      /\ ReceiverFields \subseteq DOMAIN r1
    BY SMT, <1>1 DEF ReceiverFields
<1>6. /\ r2.chats = c /\ r2.users = u /\ r2.kind = r.kind /\ r2.url = r.url /\ r2.template = r.template
      /\ ReceiverFields \subseteq DOMAIN r2
    BY SMT, <1>2, <1>5 DEF ReceiverFields
<1>7. /\ r3.chats = c /\ r3.users = u /\ r3.departments = d /\ r3.kind = r.kind /\ r3.url = r.url
      /\ r3.template = r.template /\ ReceiverFields \subseteq DOMAIN r3
    BY SMT, <1>3, <1>6 DEF ReceiverFields
<1> QED
    BY SMT, <1>4, <1>7 DEF ReceiverFields

\* The addresses of a receiver.
Addresses(r) == {d.to : d \in destinations(r)}

\* What Freeze makes of a Feishu receiver: a chat, a user, a department or a bot alone.
LEMMA FeishuDestination ==
    ASSUME NEW r, r.kind = "feishu", NEW base, base = [r EXCEPT !.template = Nil], NEW d \in destinations(r)
    PROVE  \/ \E c \in r.chats : d.rcv = Sole(base, {c}, {}, {}, Nil) /\ d.to = Chat(c)
           \/ \E u \in r.users : d.rcv = Sole(base, {}, {u}, {}, Nil) /\ d.to = <<"user", u>>
           \/ \E e \in r.departments : d.rcv = Sole(base, {}, {}, {e}, Nil) /\ d.to = <<"department", e>>
           \/ r.bot # Nil /\ d.rcv = Sole(base, {}, {}, {}, r.bot) /\ d.to = <<"bot-ref", r.bot>>
<1>1. \/ d \in {[rcv |-> Sole(base, {c}, {}, {}, Nil), to |-> Chat(c)] : c \in r.chats}
      \/ d \in {[rcv |-> Sole(base, {}, {u}, {}, Nil), to |-> <<"user", u>>] : u \in r.users}
      \/ d \in {[rcv |-> Sole(base, {}, {}, {e}, Nil), to |-> <<"department", e>>] : e \in r.departments}
      \/ d \in {[rcv |-> Sole(base, {}, {}, {}, b), to |-> <<"bot-ref", b>>] : b \in {r.bot} \ {Nil}}
    BY DEF destinations
<1>2. CASE d \in {[rcv |-> Sole(base, {c}, {}, {}, Nil), to |-> Chat(c)] : c \in r.chats}
  <2>1. PICK c \in r.chats : d = [rcv |-> Sole(base, {c}, {}, {}, Nil), to |-> Chat(c)]
      BY <1>2
  <2>2. d.rcv = Sole(base, {c}, {}, {}, Nil) /\ d.to = Chat(c)
      BY SMT, <2>1
  <2> QED
      BY <2>2
<1>3. CASE d \in {[rcv |-> Sole(base, {}, {u}, {}, Nil), to |-> <<"user", u>>] : u \in r.users}
  <2>1. PICK u \in r.users : d = [rcv |-> Sole(base, {}, {u}, {}, Nil), to |-> <<"user", u>>]
      BY <1>3
  <2>2. d.rcv = Sole(base, {}, {u}, {}, Nil) /\ d.to = <<"user", u>>
      BY SMT, <2>1
  <2> QED
      BY <2>2
<1>4. CASE d \in {[rcv |-> Sole(base, {}, {}, {e}, Nil), to |-> <<"department", e>>] : e \in r.departments}
  <2>1. PICK e \in r.departments : d = [rcv |-> Sole(base, {}, {}, {e}, Nil), to |-> <<"department", e>>]
      BY <1>4
  <2>2. d.rcv = Sole(base, {}, {}, {e}, Nil) /\ d.to = <<"department", e>>
      BY SMT, <2>1
  <2> QED
      BY <2>2
<1>5. CASE d \in {[rcv |-> Sole(base, {}, {}, {}, b), to |-> <<"bot-ref", b>>] : b \in {r.bot} \ {Nil}}
    BY SMT, <1>5
<1> QED
    BY <1>1, <1>2, <1>3, <1>4, <1>5

\* A Feishu receiver has an address for each chat, user and department and for its bot.
LEMMA FeishuAddresses ==
    ASSUME NEW r, r.kind = "feishu", NEW x
    PROVE  x \in Addresses(r) <=> \/ \E c \in r.chats : x = Chat(c)
                                  \/ \E u \in r.users : x = <<"user", u>>
                                  \/ \E d \in r.departments : x = <<"department", d>>
                                  \/ r.bot # Nil /\ x = <<"bot-ref", r.bot>>
<1>1. PICK base : base = [r EXCEPT !.template = Nil]
    OBVIOUS
<1>2. destinations(r) =
               {[rcv |-> Sole(base, {c}, {}, {}, Nil), to |-> Chat(c)] : c \in r.chats}
               \cup {[rcv |-> Sole(base, {}, {u}, {}, Nil), to |-> <<"user", u>>] : u \in r.users}
               \cup {[rcv |-> Sole(base, {}, {}, {d}, Nil), to |-> <<"department", d>>] : d \in r.departments}
               \cup {[rcv |-> Sole(base, {}, {}, {}, b), to |-> <<"bot-ref", b>>] : b \in {r.bot} \ {Nil}}
    BY <1>1 DEF destinations
<1>3. x \in Addresses(r) <=> \E d \in destinations(r) : x = d.to
    BY DEF Addresses
<1>4. ASSUME NEW d \in destinations(r), x = d.to
      PROVE  \/ \E c \in r.chats : x = Chat(c)
             \/ \E u \in r.users : x = <<"user", u>>
             \/ \E e \in r.departments : x = <<"department", e>>
             \/ r.bot # Nil /\ x = <<"bot-ref", r.bot>>
    BY <1>1, <1>4, FeishuDestination
<1>5. ASSUME NEW c \in r.chats PROVE \E d \in destinations(r) : d.to = Chat(c)
  <2>1. [rcv |-> Sole(base, {c}, {}, {}, Nil), to |-> Chat(c)] \in destinations(r)
      BY <1>2
  <2> QED
      BY <2>1
<1>6. ASSUME NEW u \in r.users PROVE \E d \in destinations(r) : d.to = <<"user", u>>
  <2>1. [rcv |-> Sole(base, {}, {u}, {}, Nil), to |-> <<"user", u>>] \in destinations(r)
      BY <1>2
  <2> QED
      BY <2>1
<1>7. ASSUME NEW e \in r.departments PROVE \E d \in destinations(r) : d.to = <<"department", e>>
  <2>1. [rcv |-> Sole(base, {}, {}, {e}, Nil), to |-> <<"department", e>>] \in destinations(r)
      BY <1>2
  <2> QED
      BY <2>1
<1>8. ASSUME r.bot # Nil PROVE \E d \in destinations(r) : d.to = <<"bot-ref", r.bot>>
  <2>1. [rcv |-> Sole(base, {}, {}, {}, r.bot), to |-> <<"bot-ref", r.bot>>] \in destinations(r)
      BY <1>2, <1>8
  <2> QED
      BY <2>1
<1> QED
    BY <1>3, <1>4, <1>5, <1>6, <1>7, <1>8

\* A webhook has the address of its URL.
LEMMA WebhookAddresses ==
    ASSUME NEW r, r.kind = "webhook"
    PROVE  Addresses(r) = {<<"webhook", r.url>>}
<1>1. PICK base : base = [r EXCEPT !.template = Nil]
    OBVIOUS
<1>2. destinations(r) = {[rcv |-> Sole(base, {}, {}, {}, Nil), to |-> <<"webhook", r.url>>]}
    BY <1>1 DEF destinations
<1> QED
    BY SMT, <1>2 DEF Addresses

\* A frozen receiver has one address, the one of its target, and is of the same channel.
LEMMA DestinationIsOne ==
    ASSUME NEW r, ReceiverFields \subseteq DOMAIN r, NEW d \in destinations(r)
    PROVE  /\ r.kind \in {"feishu", "webhook"}
           /\ Addresses(d.rcv) = {d.to} /\ d.to \in Addresses(r)
<1>1. PICK base : base = [r EXCEPT !.template = Nil]
    OBVIOUS
<1>2. ReceiverFields \subseteq DOMAIN base /\ base.kind = r.kind /\ base.url = r.url
    BY SMT, <1>1 DEF ReceiverFields
<1>3. d.to \in Addresses(r)
    BY DEF Addresses
<1>4. CASE r.kind = "feishu"
  <2>2. ASSUME NEW c, d.rcv = Sole(base, {c}, {}, {}, Nil), d.to = Chat(c) PROVE Addresses(d.rcv) = {d.to}
    <3>1. /\ d.rcv.kind = "feishu" /\ d.rcv.chats = {c} /\ d.rcv.users = {} /\ d.rcv.departments = {} /\ d.rcv.bot = Nil
        BY SMT, <1>2, <1>4, <2>2, SoleFields
    <3>2. \A x : x \in Addresses(d.rcv) <=> x = Chat(c)
        BY <3>1, FeishuAddresses
    <3> QED
        BY <2>2, <3>2
  <2>3. ASSUME NEW u, d.rcv = Sole(base, {}, {u}, {}, Nil), d.to = <<"user", u>> PROVE Addresses(d.rcv) = {d.to}
    <3>1. /\ d.rcv.kind = "feishu" /\ d.rcv.chats = {} /\ d.rcv.users = {u} /\ d.rcv.departments = {} /\ d.rcv.bot = Nil
        BY SMT, <1>2, <1>4, <2>3, SoleFields
    <3>2. \A x : x \in Addresses(d.rcv) <=> x = <<"user", u>>
        BY <3>1, FeishuAddresses
    <3> QED
        BY <2>3, <3>2
  <2>4. ASSUME NEW e, d.rcv = Sole(base, {}, {}, {e}, Nil), d.to = <<"department", e>> PROVE Addresses(d.rcv) = {d.to}
    <3>1. /\ d.rcv.kind = "feishu" /\ d.rcv.chats = {} /\ d.rcv.users = {} /\ d.rcv.departments = {e} /\ d.rcv.bot = Nil
        BY SMT, <1>2, <1>4, <2>4, SoleFields
    <3>2. \A x : x \in Addresses(d.rcv) <=> x = <<"department", e>>
        BY <3>1, FeishuAddresses
    <3> QED
        BY <2>4, <3>2
  <2>5. ASSUME NEW b, b # Nil, d.rcv = Sole(base, {}, {}, {}, b), d.to = <<"bot-ref", b>> PROVE Addresses(d.rcv) = {d.to}
    <3>1. /\ d.rcv.kind = "feishu" /\ d.rcv.chats = {} /\ d.rcv.users = {} /\ d.rcv.departments = {} /\ d.rcv.bot = b
        BY SMT, <1>2, <1>4, <2>5, SoleFields
    <3>2. \A x : x \in Addresses(d.rcv) <=> x = <<"bot-ref", b>>
        BY <2>5, <3>1, FeishuAddresses
    <3> QED
        BY <2>5, <3>2
  <2> QED
      BY ZenonT(30), <1>1, <1>3, <1>4, <2>2, <2>3, <2>4, <2>5, FeishuDestination
<1>5. CASE r.kind = "webhook"
  <2>1. destinations(r) = {[rcv |-> Sole(base, {}, {}, {}, Nil), to |-> <<"webhook", r.url>>]}
      BY <1>1, <1>5 DEF destinations
  <2>2. d.rcv = Sole(base, {}, {}, {}, Nil) /\ d.to = <<"webhook", r.url>>
      BY SMT, <2>1
  <2>3. d.rcv.kind = "webhook" /\ d.rcv.url = r.url
      BY SMT, <1>2, <1>5, <2>2, SoleFields
  <2> QED
      BY <1>3, <1>5, <2>2, <2>3, WebhookAddresses
<1>6. CASE r.kind \notin {"feishu", "webhook"}
    BY <1>6 DEF destinations
<1> QED
    BY <1>4, <1>5, <1>6

\* A Feishu receiver with one chat is frozen into that chat and nothing else.
LEMMA OneChat ==
    ASSUME NEW r, ReceiverFields \subseteq DOMAIN r, r.kind = "feishu",
           NEW c, r.chats = {c}, r.users = {}, r.departments = {}, r.bot = Nil, NEW d \in destinations(r)
    PROVE  /\ d.to = Chat(c) /\ d.rcv.chats = {c} /\ d.rcv.users = {} /\ d.rcv.departments = {} /\ d.rcv.bot = Nil
<1>1. PICK base : base = [r EXCEPT !.template = Nil]
    OBVIOUS
<1>2. ReceiverFields \subseteq DOMAIN base
    BY SMT, <1>1 DEF ReceiverFields
<1>4. d.rcv = Sole(base, {c}, {}, {}, Nil) /\ d.to = Chat(c)
    BY <1>1, FeishuDestination
<1> QED
    BY SMT, <1>2, <1>4, SoleFields

\* A routed entry of the plan.
EntryOK(e) ==
    /\ e = [rcv |-> e.rcv, alerts |-> e.alerts, config |-> e.config, data |-> e.data]
    /\ ReceiverFields \subseteq DOMAIN e.rcv
    /\ e.config \in AppConfigs /\ e.alerts \subseteq Alerts

EntriesOK(plan) == \A n \in DOMAIN plan : n # "history" /\ EntryOK(plan[n])

\* A target and its payload have these fields.
Shape(t) ==
    /\ {"receiver", "channel", "to", "bound", "waits", "payload"} \subseteq DOMAIN t
    /\ {"rcv", "data", "alerts", "config", "content"} \subseteq DOMAIN t.payload

\* ApplyProfile stamps an entry in the formal lane.
LEMMA FormalOverlay ==
    ASSUME NEW e, EntryOK(e), NEW p, p.id # "test", NEW x, x = Overlay(p, e)
    PROVE  x.config = e.config /\ x.rcv = e.rcv /\ x.alerts = e.alerts
<1>1. {"rcv", "alerts", "config", "data"} \subseteq DOMAIN e
    BY SMT DEF EntryOK
<1> QED
    BY SMT, <1>1 DEF Overlay

\* ApplyProfile narrows an entry to the test chat and to critical alerts in the test lane.
LEMMA TestOverlay ==
    ASSUME NEW e, EntryOK(e), NEW p, p.id = "test", NEW x, x = Overlay(p, e)
    PROVE  /\ x.config = e.config /\ x.alerts = e.alerts \cap Critical
           /\ x.rcv = Sole(e.rcv, {p.testChat}, {}, {}, Nil)
<1>1. {"rcv", "alerts", "config", "data"} \subseteq DOMAIN e
    BY SMT DEF EntryOK
<1>2. PICK e1 : e1 = [e EXCEPT !.rcv = Sole(e.rcv, {p.testChat}, {}, {}, Nil)]
    OBVIOUS
<1>3. PICK e2 : e2 = [e1 EXCEPT !.alerts = e.alerts \cap Critical]
    OBVIOUS
<1>4. x = [e2 EXCEPT !.data = Stamp(p, Chat(p.source))]
    BY SMT, <1>2, <1>3 DEF Overlay
<1>5. /\ e1.rcv = Sole(e.rcv, {p.testChat}, {}, {}, Nil) /\ e1.config = e.config
      /\ {"rcv", "alerts", "config", "data"} \subseteq DOMAIN e1
    BY SMT, <1>1, <1>2
<1>6. /\ e2.rcv = Sole(e.rcv, {p.testChat}, {}, {}, Nil) /\ e2.config = e.config /\ e2.alerts = e.alerts \cap Critical
      /\ {"rcv", "alerts", "config", "data"} \subseteq DOMAIN e2
    BY SMT, <1>1, <1>3, <1>5
<1> QED
    BY SMT, <1>4, <1>6

\* The fields of a target that Freeze makes.
LEMMA FrozenFields ==
    ASSUME NEW n, NEW x, NEW t \in FrozenTargets(n, x)
    PROVE  /\ Shape(t) /\ t.receiver = n /\ t.channel = x.rcv.kind /\ t.bound = Unbound /\ t.waits = {}
           /\ t.payload.data = x.data /\ t.payload.alerts = x.alerts
           /\ t.payload.content = <<x.rcv.template, x.alerts>>
           /\ t.payload.config = IF x.rcv.kind = "feishu" THEN FreezeFeishuCredentialReference(x.config) ELSE Nil
           /\ \E d \in destinations(x.rcv) : t.to = d.to /\ t.payload.rcv = d.rcv
<1>1. PICK f : f = IF x.rcv.kind = "feishu" THEN FreezeFeishuCredentialReference(x.config) ELSE Nil
    OBVIOUS
<1>2. PICK d \in destinations(x.rcv) :
         t = [receiver |-> n, channel |-> x.rcv.kind, to |-> d.to, bound |-> Unbound, waits |-> {},
              payload |-> [rcv |-> d.rcv, data |-> x.data, alerts |-> x.alerts, config |-> f,
                           content |-> <<x.rcv.template, x.alerts>>]]
    BY <1>1 DEF FrozenTargets
<1>3. PICK y : y = [rcv |-> d.rcv, data |-> x.data, alerts |-> x.alerts, config |-> f,
                    content |-> <<x.rcv.template, x.alerts>>]
    OBVIOUS
<1>4. /\ y.rcv = d.rcv /\ y.data = x.data /\ y.alerts = x.alerts /\ y.config = f
      /\ y.content = <<x.rcv.template, x.alerts>>
      /\ {"rcv", "data", "alerts", "config", "content"} \subseteq DOMAIN y
    BY SMT, <1>3
<1>5. t = [receiver |-> n, channel |-> x.rcv.kind, to |-> d.to, bound |-> Unbound, waits |-> {}, payload |-> y]
    BY <1>2, <1>3
<1>6. /\ t.receiver = n /\ t.channel = x.rcv.kind /\ t.to = d.to /\ t.bound = Unbound /\ t.waits = {} /\ t.payload = y
      /\ {"receiver", "channel", "to", "bound", "waits", "payload"} \subseteq DOMAIN t
    BY SMT, <1>5
<1> QED
    BY <1>1, <1>4, <1>6 DEF Shape

\* BindFrozenProfile changes the binding and its copy in the payload.
LEMMA BindFields ==
    ASSUME NEW t, Shape(t), NEW p, NEW u, u = Bind(p, t)
    PROVE  /\ Shape(u) /\ u.receiver = t.receiver /\ u.channel = t.channel /\ u.to = t.to /\ u.waits = t.waits
           /\ u.bound.id = p.id /\ u.bound.version = p.version /\ u.bound.owner = p.owner
           /\ u.payload.data = u.bound
           /\ u.payload.rcv = t.payload.rcv /\ u.payload.alerts = t.payload.alerts
           /\ u.payload.config = t.payload.config /\ u.payload.content = t.payload.content
<1>1. PICK src : src = IF p.id = "test" THEN Chat(p.source) ELSE t.to
    OBVIOUS
<1>2. PICK b : b = Stamp(p, src)
    OBVIOUS
<1>3. b.id = p.id /\ b.version = p.version /\ b.owner = p.owner
    BY SMT, <1>2 DEF Stamp
<1>4. u = [t EXCEPT !.bound = b, !.payload.data = b]
    BY <1>1, <1>2 DEF Bind
<1>5. PICK t1 : t1 = [t EXCEPT !.bound = b]
    OBVIOUS
<1>6. /\ t1.bound = b /\ t1.receiver = t.receiver /\ t1.channel = t.channel /\ t1.to = t.to /\ t1.waits = t.waits
      /\ t1.payload = t.payload
      /\ {"receiver", "channel", "to", "bound", "waits", "payload"} \subseteq DOMAIN t1
    BY SMT, <1>5 DEF Shape
<1>7. PICK y : y = [t.payload EXCEPT !.data = b]
    OBVIOUS
<1>8. /\ y.data = b /\ y.rcv = t.payload.rcv /\ y.alerts = t.payload.alerts /\ y.config = t.payload.config
      /\ y.content = t.payload.content
      /\ {"rcv", "data", "alerts", "config", "content"} \subseteq DOMAIN y
    BY SMT, <1>7 DEF Shape
<1>9. u = [t1 EXCEPT !.payload = y]
    BY SMTT(30), <1>4, <1>5, <1>6, <1>7
<1>10. /\ u.payload = y /\ u.bound = b /\ u.receiver = t.receiver /\ u.channel = t.channel /\ u.to = t.to
       /\ u.waits = t.waits
       /\ {"receiver", "channel", "to", "bound", "waits", "payload"} \subseteq DOMAIN u
    BY SMT, <1>6, <1>9
<1> QED
    BY <1>3, <1>8, <1>10 DEF Shape

\* u is t, apart from the binding.
SameTarget(u, t) ==
    /\ u.receiver = t.receiver /\ u.channel = t.channel /\ u.to = t.to /\ u.waits = t.waits
    /\ u.payload.rcv = t.payload.rcv /\ u.payload.alerts = t.payload.alerts
    /\ u.payload.config = t.payload.config /\ u.payload.content = t.payload.content

\* A target of a request with a profile is bound to it, and its payload says so.
BoundTo(t, p) ==
    /\ p = Nil => t.bound.id = Nil
    /\ p # Nil => /\ t.bound.id = p.id /\ t.bound.version = p.version /\ t.bound.owner = p.owner
                  /\ t.payload.data = t.bound

\* BindFrozenProfile binds every target and changes nothing else of it.
LEMMA BoundTargets ==
    ASSUME NEW T, \A t \in T : Shape(t) /\ t.bound = Unbound, NEW p, NEW u \in BindFrozenProfile(p, T)
    PROVE  Shape(u) /\ BoundTo(u, p) /\ \E t \in T : SameTarget(u, t)
<1>1. CASE p = Nil
  <2>1. u \in T /\ u.bound = Unbound
      BY <1>1 DEF BindFrozenProfile
  <2>2. u.bound.id = Nil
      BY SMT, <2>1 DEF Unbound
  <2> QED
      BY <1>1, <2>1, <2>2 DEF BoundTo, SameTarget
<1>2. CASE p # Nil
  <2>1. PICK t \in T : u = Bind(p, t)
      BY <1>2 DEF BindFrozenProfile
  <2>2. Shape(t)
      BY <2>1
  <2>3. /\ Shape(u) /\ u.receiver = t.receiver /\ u.channel = t.channel /\ u.to = t.to /\ u.waits = t.waits
        /\ u.bound.id = p.id /\ u.bound.version = p.version /\ u.bound.owner = p.owner
        /\ u.payload.data = u.bound
        /\ u.payload.rcv = t.payload.rcv /\ u.payload.alerts = t.payload.alerts
        /\ u.payload.config = t.payload.config /\ u.payload.content = t.payload.content
      BY SMT, <2>1, <2>2, BindFields
  <2> QED
      BY <1>2, <2>3 DEF BoundTo, SameTarget
<1> QED
    BY <1>1, <1>2

\* The plan of a profile, as ApplyProfile leaves it.
Overlaid(p, plan) == IF p = Nil THEN plan ELSE ApplyProfile(p, plan)

\* t is the target of a receiver of the routed plan, as it was routed: its one
\* address, its content and the application of its credential.
Original(t, p, plan, app) ==
    LET e == plan[t.receiver]
        test == p # Nil /\ p.id = "test"
    IN  /\ t.waits = {} /\ t.receiver \in DOMAIN plan
        /\ Addresses(t.payload.rcv) = {t.to}
        /\ t.payload.alerts = IF test THEN e.alerts \cap Critical ELSE e.alerts
        /\ t.payload.content = <<e.rcv.template, t.payload.alerts>>
        /\ ~test => t.to \in Addresses(e.rcv)
        /\ test => /\ t.channel = "feishu" /\ t.to = Chat(p.testChat) /\ p.source \in e.rcv.chats
                   /\ t.payload.rcv.chats = {p.testChat} /\ t.payload.rcv.users = {}
                   /\ t.payload.rcv.departments = {} /\ t.payload.rcv.bot = Nil
        /\ (t.channel = "feishu" /\ t.payload.config.mode = "resolved") =>
              t.payload.config.app = app[t.receiver]

\* Original says nothing of the binding.
LEMMA OriginalOfSame ==
    ASSUME NEW t, NEW u, SameTarget(u, t), NEW p, NEW plan, NEW app, Original(t, p, plan, app)
    PROVE  Original(u, p, plan, app)
BY DEF Original, SameTarget

\* Freeze makes such targets.
LEMMA FrozenIsOriginal ==
    ASSUME NEW p, NEW plan, EntriesOK(plan), NEW app, \A n \in DOMAIN plan : app[n] = AppOf(plan[n].config),
           NEW t \in Freeze(Overlaid(p, plan))
    PROVE  Shape(t) /\ t.bound = Unbound /\ Original(t, p, plan, app)
<1> DEFINE test == p # Nil /\ p.id = "test"
<1>1. PICK n \in DOMAIN Overlaid(p, plan) : t \in FrozenTargets(n, Overlaid(p, plan)[n])
    BY DEF Freeze
<1>2. PICK x : x = Overlaid(p, plan)[n]
    OBVIOUS
<1>3. /\ n \in DOMAIN plan
      /\ p = Nil => x = plan[n]
      /\ p # Nil => InScope(p, n, plan[n]) /\ x = Overlay(p, plan[n])
    BY <1>1, <1>2 DEF Overlaid, ApplyProfile
<1>4. PICK e : e = plan[n]
    OBVIOUS
<1>5. EntryOK(e)
    BY <1>3, <1>4 DEF EntriesOK
<1>6. /\ x.config = e.config /\ x.alerts = IF test THEN e.alerts \cap Critical ELSE e.alerts
      /\ ~test => x.rcv = e.rcv
      /\ test => x.rcv = Sole(e.rcv, {p.testChat}, {}, {}, Nil)
  <2>1. CASE p = Nil
      BY <1>3, <1>4, <2>1
  <2>2. CASE p # Nil
    <3>1. x = Overlay(p, e)
        BY <1>3, <1>4, <2>2
    <3>2. CASE p.id = "test"
      <4>1. /\ x.config = e.config /\ x.alerts = e.alerts \cap Critical
            /\ x.rcv = Sole(e.rcv, {p.testChat}, {}, {}, Nil)
          BY <1>5, <3>1, <3>2, TestOverlay
      <4> QED
          BY <2>2, <3>2, <4>1
    <3>3. CASE p.id # "test"
      <4>1. x.config = e.config /\ x.rcv = e.rcv /\ x.alerts = e.alerts
          BY <1>5, <3>1, <3>3, FormalOverlay
      <4> QED
          BY <3>3, <4>1
    <3> QED
        BY <3>2, <3>3
  <2> QED
      BY <2>1, <2>2
<1>7. ReceiverFields \subseteq DOMAIN e.rcv
    BY <1>5 DEF EntryOK
<1>8. /\ ReceiverFields \subseteq DOMAIN x.rcv /\ x.rcv.kind = e.rcv.kind /\ x.rcv.template = e.rcv.template
      /\ test => /\ x.rcv.chats = {p.testChat} /\ x.rcv.users = {} /\ x.rcv.departments = {} /\ x.rcv.bot = Nil
    BY SMTT(30), <1>6, <1>7, SoleFields
<1>9. /\ Shape(t) /\ t.receiver = n /\ t.channel = x.rcv.kind /\ t.bound = Unbound /\ t.waits = {}
      /\ t.payload.alerts = x.alerts
      /\ t.payload.content = <<x.rcv.template, x.alerts>>
      /\ t.payload.config = IF x.rcv.kind = "feishu" THEN FreezeFeishuCredentialReference(x.config) ELSE Nil
      /\ \E d \in destinations(x.rcv) : t.to = d.to /\ t.payload.rcv = d.rcv
  <2>1. t \in FrozenTargets(n, x)
      BY <1>1, <1>2
  <2> QED
      BY SMT, <2>1, FrozenFields
<1>10. PICK d \in destinations(x.rcv) : t.to = d.to /\ t.payload.rcv = d.rcv
    BY <1>9
<1>11. Addresses(t.payload.rcv) = {t.to} /\ t.to \in Addresses(x.rcv)
    BY <1>8, <1>10, DestinationIsOne
<1>12. test => /\ t.channel = "feishu" /\ t.to = Chat(p.testChat) /\ p.source \in e.rcv.chats
               /\ t.payload.rcv.chats = {p.testChat} /\ t.payload.rcv.users = {}
               /\ t.payload.rcv.departments = {} /\ t.payload.rcv.bot = Nil
  <2> SUFFICES ASSUME p # Nil, p.id = "test"
               PROVE  /\ t.channel = "feishu" /\ t.to = Chat(p.testChat) /\ p.source \in e.rcv.chats
                      /\ t.payload.rcv.chats = {p.testChat} /\ t.payload.rcv.users = {}
                      /\ t.payload.rcv.departments = {} /\ t.payload.rcv.bot = Nil
      OBVIOUS
  <2>1. e.rcv.kind = "feishu" /\ p.source \in e.rcv.chats
      BY <1>3, <1>4 DEF InScope
  <2>2. /\ d.to = Chat(p.testChat) /\ d.rcv.chats = {p.testChat} /\ d.rcv.users = {} /\ d.rcv.departments = {}
        /\ d.rcv.bot = Nil
      BY ZenonT(30), <1>8, <2>1, OneChat
  <2> QED
      BY <1>8, <1>9, <1>10, <2>1, <2>2
<1>13. (t.channel = "feishu" /\ t.payload.config.mode = "resolved") => t.payload.config.app = app[n]
  <2> SUFFICES ASSUME t.channel = "feishu", t.payload.config.mode = "resolved"
               PROVE  t.payload.config.app = app[n]
      OBVIOUS
  <2>1. t.payload.config = FreezeFeishuCredentialReference(e.config)
      BY <1>6, <1>9
  <2>2. e.config.mode \in ConfigModes
      BY <1>5, PlanConstants DEF EntryOK
  <2>3. e.config.mode = "literal"
      BY <2>1, <2>2 DEF FreezeFeishuCredentialReference, ConfigModes
  <2>4. t.payload.config.app = e.config.app
      BY SMT, <2>1, <2>3 DEF FreezeFeishuCredentialReference
  <2>5. AppOf(e.config) = e.config.app
      BY <2>3 DEF AppOf
  <2> QED
      BY <1>3, <1>4, <2>4, <2>5
<1>14. ~test => t.to \in Addresses(e.rcv)
    BY <1>6, <1>11
<1>15. t.payload.content = <<e.rcv.template, t.payload.alerts>>
    BY <1>8, <1>9
<1>16. t.payload.alerts = IF test THEN e.alerts \cap Critical ELSE e.alerts
    BY <1>6, <1>9
<1>17. e = plan[t.receiver] /\ t.receiver \in DOMAIN plan /\ t.waits = {}
    BY <1>3, <1>4, <1>9
<1>18. app[n] = app[t.receiver]
    BY <1>9
<1> HIDE DEF test
<1> QED
    BY <1>9, <1>11, <1>12, <1>13, <1>14, <1>15, <1>16, <1>17, <1>18 DEF Original, test

\* h is a history message of one alert, after every original target that carries it.
Copies(h, targets) ==
    /\ h.receiver = "history" /\ h.channel = "webhook"
    /\ \E a \in Alerts :
          /\ h.payload.alerts = {a} /\ h.waits # {}
          /\ h.waits = {t.payload : t \in {q \in targets : q.receiver # "history" /\ a \in q.payload.alerts}}

\* FreezeHistory makes such messages of a set of original targets.
LEMMA HistoryFields ==
    ASSUME NEW primary, \A t \in primary : t.receiver # "history" /\ t.payload.alerts \subseteq Alerts,
           NEW h \in FreezeHistory(primary)
    PROVE  Shape(h) /\ h.bound = Unbound /\ Copies(h, primary)
<1>1. History # Nil
    BY DEF FreezeHistory
<1>2. PICK a \in UNION {t.payload.alerts : t \in primary} :
         \E g \in FrozenTargets("history", [rcv |-> History, config |-> Nil, alerts |-> {a}, data |-> Unbound]) :
            h = [g EXCEPT !.waits = {t.payload : t \in {q \in primary : a \in q.payload.alerts}}]
    BY <1>1 DEF FreezeHistory
<1>3. PICK x : x = [rcv |-> History, config |-> Nil, alerts |-> {a}, data |-> Unbound]
    OBVIOUS
<1>4. PICK g \in FrozenTargets("history", x) :
            h = [g EXCEPT !.waits = {t.payload : t \in {q \in primary : a \in q.payload.alerts}}]
    BY <1>2, <1>3
<1>5. x.rcv = History /\ x.alerts = {a}
    BY SMT, <1>3
<1>6. Shape(g) /\ g.receiver = "history" /\ g.channel = "webhook" /\ g.bound = Unbound /\ g.payload.alerts = {a}
  <2>1. Shape(g) /\ g.receiver = "history" /\ g.channel = x.rcv.kind /\ g.bound = Unbound /\ g.payload.alerts = x.alerts
      BY SMT, FrozenFields
  <2> QED
      BY <1>1, <1>5, <2>1, PlanConstants
<1>7. PICK w : w = {t.payload : t \in {q \in primary : a \in q.payload.alerts}}
    OBVIOUS
<1>8. h = [g EXCEPT !.waits = w]
    BY <1>4, <1>7
<1>9. /\ Shape(h) /\ h.receiver = "history" /\ h.channel = "webhook" /\ h.bound = Unbound /\ h.payload.alerts = {a}
      /\ h.waits = w
    BY SMT, <1>6, <1>8 DEF Shape
<1>10. PICK t \in primary : a \in t.payload.alerts
    BY <1>2
<1>11. a \in Alerts /\ t.payload \in w
    BY <1>7, <1>10
<1>12. w = {q.payload : q \in {q \in primary : q.receiver # "history" /\ a \in q.payload.alerts}}
    BY <1>7
<1> QED
    BY <1>9, <1>11, <1>12 DEF Copies

\* What acceptDurable submits: originals, and outside the test lane history after
\* them, all bound to the profile of the request.
LEMMA PlanTargets ==
    ASSUME NEW p, NEW plan, EntriesOK(plan), NEW app, \A n \in DOMAIN plan : app[n] = AppOf(plan[n].config),
           NEW t \in Plan(p, plan)
    PROVE  /\ BoundTo(t, p)
           /\ \/ Original(t, p, plan, app) /\ t.receiver # "history"
              \/ Copies(t, Plan(p, plan)) /\ ~(p # Nil /\ p.id = "test")
<1>1. PICK frozen : frozen = Freeze(Overlaid(p, plan))
    OBVIOUS
<1>2. PICK primary : primary = BindFrozenProfile(p, frozen)
    OBVIOUS
<1>3. PICK history : history = BindFrozenProfile(p, FreezeHistory(primary))
    OBVIOUS
<1>4. Plan(p, plan) = primary \cup IF p # Nil /\ p.id = "test" THEN {} ELSE history
    BY <1>1, <1>2, <1>3 DEF Plan, Overlaid
<1>5. ASSUME NEW u \in primary
      PROVE  /\ BoundTo(u, p) /\ Original(u, p, plan, app) /\ u.receiver # "history"
             /\ u.payload.alerts \subseteq Alerts
  <2>1. \A q \in frozen : Shape(q) /\ q.bound = Unbound /\ Original(q, p, plan, app)
      BY <1>1, FrozenIsOriginal
  <2>2. u \in BindFrozenProfile(p, frozen)
      BY <1>2
  <2>3. BoundTo(u, p) /\ \E q \in frozen : SameTarget(u, q)
      BY <2>1, <2>2, BoundTargets
  <2>4. Original(u, p, plan, app)
      BY <2>1, <2>3, OriginalOfSame
  <2>5. u.receiver \in DOMAIN plan /\ u.payload.alerts \subseteq plan[u.receiver].alerts
      BY <2>4 DEF Original
  <2>6. u.receiver # "history" /\ plan[u.receiver].alerts \subseteq Alerts
      BY <2>5 DEF EntriesOK, EntryOK
  <2> QED
      BY <2>3, <2>4, <2>5, <2>6
<1>6. ASSUME NEW u \in history PROVE BoundTo(u, p) /\ Copies(u, primary)
  <2>1. \A h \in FreezeHistory(primary) : Shape(h) /\ h.bound = Unbound /\ Copies(h, primary)
      BY <1>5, HistoryFields
  <2>2. u \in BindFrozenProfile(p, FreezeHistory(primary))
      BY <1>3
  <2>3. BoundTo(u, p) /\ \E h \in FreezeHistory(primary) : SameTarget(u, h)
      BY <2>1, <2>2, BoundTargets
  <2> QED
      BY <2>1, <2>3 DEF Copies, SameTarget
<1>7. ASSUME NEW u \in history, ~(p # Nil /\ p.id = "test") PROVE Copies(u, Plan(p, plan))
  <2>1. \A v \in history : v.receiver = "history"
      BY <1>6 DEF Copies
  <2>2. Plan(p, plan) = primary \cup history
      BY <1>4, <1>7
  <2>3. \A a : {q \in Plan(p, plan) : q.receiver # "history" /\ a \in q.payload.alerts}
                 = {q \in primary : q.receiver # "history" /\ a \in q.payload.alerts}
      BY <2>1, <2>2
  <2>4. Copies(u, primary)
      BY <1>6
  <2> QED
      BY <2>3, <2>4 DEF Copies
<1>8. CASE t \in primary
    BY <1>5, <1>8
<1>9. CASE t \notin primary
  <2>1. t \in history /\ ~(p # Nil /\ p.id = "test")
      BY <1>4, <1>9
  <2> QED
      BY <1>6, <1>7, <2>1
<1> QED
    BY <1>8, <1>9

\* A refusal names the first check that failed; without one, all hold.
LEMMA RefusalNames ==
    ASSUME NEW t
    PROVE  LET p == Profiles[<<t.bound.id, t.bound.version>>]
               lane == t.bound.id # Nil
               feishu == t.channel = "feishu"
           IN  /\ Refusal(t) = Nil =>
                     ((feishu /\ t.payload.config.mode = "resolved") =>
                          ResolveFeishuCredentialReference(t.payload.config))
               /\ Refusal(t) # Nil =>
                     \/ Refusal(t) \in {"sender", "credential"}
                     \/ /\ Refusal(t) = "scope" /\ lane /\ feishu /\ t.to[1] = "chat"
                        /\ ~ValidateProfileBinding(p, t.receiver, t.to[2])
                     \/ lane /\ p.owner # t.bound.owner
                     \/ lane /\ ~ValidTarget(t)
                     \/ lane /\ t.payload.data # t.bound
                     \/ /\ lane /\ feishu /\ t.bound.id = "test"
                        /\ ~(/\ \E c \in t.payload.rcv.chats : t.payload.rcv.chats = {c} /\ t.to = Chat(c)
                             /\ t.payload.rcv.users = {} /\ t.payload.rcv.departments = {}
                             /\ t.payload.rcv.bot = Nil)
<1> DEFINE p == Profiles[<<t.bound.id, t.bound.version>>]
           lane == t.bound.id # Nil
           feishu == t.channel = "feishu"
           o1 == (lane /\ feishu /\ t.to[1] = "chat") => ValidateProfileBinding(p, t.receiver, t.to[2])
           o2 == lane => p.owner = t.bound.owner
           o3 == lane => ValidTarget(t)
           o4 == lane => t.payload.data = t.bound
           o5 == (lane /\ feishu /\ t.bound.id = "test") =>
                      /\ \E c \in t.payload.rcv.chats : t.payload.rcv.chats = {c} /\ t.to = Chat(c)
                      /\ t.payload.rcv.users = {} /\ t.payload.rcv.departments = {}
                      /\ t.payload.rcv.bot = Nil
           o6 == (lane /\ feishu) =>
                      ValidateProfileSender(t.bound.id, t.bound.version, AppOf(t.payload.config))
           o7 == (feishu /\ t.payload.config.mode = "resolved") =>
                      ResolveFeishuCredentialReference(t.payload.config)
<1>1. PICK b1, b2, b3, b4, b5, b6, b7 :
         b1 = o1 /\ b2 = o2 /\ b3 = o3 /\ b4 = o4 /\ b5 = o5 /\ b6 = o6 /\ b7 = o7
  <2> HIDE DEF o1, o2, o3, o4, o5, o6, o7
  <2> QED
      OBVIOUS
<1>2. PICK cs : cs = Checks(t)
    OBVIOUS
<1>3. cs = <<[name |-> "scope", ok |-> b1], [name |-> "owner", ok |-> b2], [name |-> "destination", ok |-> b3],
             [name |-> "payload", ok |-> b4], [name |-> "escape", ok |-> b5], [name |-> "sender", ok |-> b6],
             [name |-> "credential", ok |-> b7]>>
    BY ZenonT(30), <1>1, <1>2 DEF Checks
<1>4. /\ DOMAIN cs = 1..7
      /\ cs[1].name = "scope" /\ cs[2].name = "owner" /\ cs[3].name = "destination" /\ cs[4].name = "payload"
      /\ cs[5].name = "escape" /\ cs[6].name = "sender" /\ cs[7].name = "credential"
      /\ cs[1].ok = b1 /\ cs[2].ok = b2 /\ cs[3].ok = b3 /\ cs[4].ok = b4 /\ cs[5].ok = b5 /\ cs[6].ok = b6
      /\ cs[7].ok = b7
    BY SMT, <1>3
<1>5. PICK failed : failed = {i \in DOMAIN cs : ~cs[i].ok}
    OBVIOUS
<1>6. failed \subseteq 1..7
    BY <1>4, <1>5
<1>7. Refusal(t) = IF failed = {} THEN Nil ELSE cs[CHOOSE i \in failed : \A j \in failed : i <= j].name
  <2> DEFINE G == {i \in DOMAIN Checks(t) : ~Checks(t)[i].ok}
  <2>1. failed = G
      BY <1>2, <1>5
  <2>2. Refusal(t) = IF G = {} THEN Nil ELSE Checks(t)[CHOOSE i \in G : \A j \in G : i <= j].name
      BY DEF Refusal
  <2> HIDE DEF G
  <2> QED
      BY <1>2, <2>1, <2>2
<1>8. failed # {} => \E i \in failed : \A j \in failed : i <= j
  <2>1. CASE 1 \in failed
      BY SMT, <1>6, <2>1
  <2>2. CASE 1 \notin failed /\ 2 \in failed
      BY SMT, <1>6, <2>2
  <2>3. CASE 1 \notin failed /\ 2 \notin failed /\ 3 \in failed
      BY SMT, <1>6, <2>3
  <2>4. CASE 1 \notin failed /\ 2 \notin failed /\ 3 \notin failed /\ 4 \in failed
      BY SMT, <1>6, <2>4
  <2>5. CASE 1 \notin failed /\ 2 \notin failed /\ 3 \notin failed /\ 4 \notin failed /\ 5 \in failed
      BY SMT, <1>6, <2>5
  <2>6. CASE 1 \notin failed /\ 2 \notin failed /\ 3 \notin failed /\ 4 \notin failed /\ 5 \notin failed /\ 6 \in failed
      BY SMT, <1>6, <2>6
  <2>7. CASE 1 \notin failed /\ 2 \notin failed /\ 3 \notin failed /\ 4 \notin failed /\ 5 \notin failed /\ 6 \notin failed
    <3>1. \A i \in failed : i = 7
        BY SMT, <1>6, <2>7
    <3>2. 7 <= 7
        BY SMT
    <3> QED
        BY <3>1, <3>2
  <2> QED
      BY <2>1, <2>2, <2>3, <2>4, <2>5, <2>6, <2>7
<1>9. failed # {} => \E i \in 1..7 : ~cs[i].ok /\ Refusal(t) = cs[i].name
    BY <1>4, <1>5, <1>7, <1>8
<1>10. ASSUME Refusal(t) = Nil PROVE o7
  <2>1. failed = {}
    <3> SUFFICES ASSUME failed # {} PROVE FALSE
        OBVIOUS
    <3>1. PICK i \in 1..7 : Refusal(t) = cs[i].name
        BY <1>9
    <3>2. i = 1 \/ i = 2 \/ i = 3 \/ i = 4 \/ i = 5 \/ i = 6 \/ i = 7
        BY SMT
    <3>3. Nil \notin {"scope", "owner", "destination", "payload", "escape", "sender", "credential"}
        BY SMT, PlanConstants
    <3> QED
        BY <1>4, <1>10, <3>1, <3>2, <3>3
  <2>2. 7 \in 1..7
      BY SMT
  <2>3. cs[7].ok
      BY <1>4, <1>5, <2>1, <2>2
  <2> QED
      BY <1>1, <1>4, <2>3
<1>11. ASSUME Refusal(t) # Nil
       PROVE  Refusal(t) \in {"sender", "credential"} \/ (Refusal(t) = "scope" /\ ~o1) \/ ~o2 \/ ~o3 \/ ~o4 \/ ~o5
  <2>1. PICK i \in 1..7 : ~cs[i].ok /\ Refusal(t) = cs[i].name
      BY <1>7, <1>9, <1>11
  <2>2. i = 1 \/ i = 2 \/ i = 3 \/ i = 4 \/ i = 5 \/ i = 6 \/ i = 7
      BY SMT
  <2> HIDE DEF o1, o2, o3, o4, o5, o6, o7
  <2> QED
      BY SMTT(30), <1>1, <1>4, <2>1, <2>2
<1> QED
    BY <1>10, <1>11

\* A profile of a request is one that was prepared.
Prepared(p) == p # Nil => \E key \in prepared : p = Profiles[key]

\* A target of the accepted plan.
AcceptedOK(t) ==
    /\ BoundTo(t, origin.profile) /\ ValidTarget(t)
    /\ \/ Original(t, origin.profile, origin.plan, origin.app) /\ t.receiver # "history"
       \/ Copies(t, accepted) /\ ~(origin.profile # Nil /\ origin.profile.id = "test")

\* What goes out for an accepted target: its content, with the secret of its Config.
SentOK(s) ==
    /\ s.target \in accepted /\ s.content = s.target.payload.content
    /\ s.secret # Nil =>
          /\ s.target.channel = "feishu" /\ s.target.payload.config.mode = "resolved"
          /\ s.secret = [uid |-> s.target.payload.config.uid, app |-> s.target.payload.config.app]

\* The inductive invariant, in four parts: profiles, the cluster, the request and
\* what was accepted of it, and what was sent.
ProfilesInv ==
    /\ prepared \subseteq DOMAIN Profiles /\ DOMAIN active = Lanes
    /\ \A l \in Lanes : active[l] # Nil => <<l, active[l]>> \in prepared
    /\ \A key \in prepared : key[1] = "test" =>
          ValidateProfileBinding(Profiles[key], Profiles[key].receiver, Profiles[key].testChat)

ClusterInv ==
    /\ \A n \in DOMAIN receivers :
          n # "history" /\ \A r \in {receivers[n]} \cup Edited[n] : ReceiverFields \subseteq DOMAIN r
    /\ held \in AppConfigs /\ stored \in AppConfigs \cup {Nil} /\ edits \in 0..MaxEdits

RequestInv ==
    /\ request # Nil =>
          /\ accepted = {} /\ request = [profile |-> request.profile, plan |-> request.plan]
          /\ Prepared(request.profile) /\ (request.plan # Nil => EntriesOK(request.plan))
    /\ Prepared(origin.profile)
    /\ accepted = {} <=> origin.plan = Nil
    /\ \A t \in accepted : AcceptedOK(t)

SentInv ==
    /\ sending # Nil => SentOK(sending)
    /\ card # Nil => SentOK(card) /\ card.to = Addresses(card.target.payload.rcv)
    /\ RefusedOnlyForLiveState

PlanInv == ProfilesInv /\ ClusterInv /\ RequestInv /\ SentInv

\* A prepared profile is found under its lane and version.
LEMMA ProfileFound ==
    ASSUME ProfilesInv, NEW p, p # Nil, Prepared(p)
    PROVE  /\ p.id \in {"test", "formal"} /\ p = Profiles[<<p.id, p.version>>]
           /\ p.id = "test" => ValidateProfileBinding(p, p.receiver, p.testChat)
<1>1. PICK key \in prepared : p = Profiles[key]
    BY DEF Prepared
<1>2. key = <<key[1], key[2]>> /\ key[1] \in {"test", "formal"} /\ p.id = key[1] /\ p.version = key[2]
    BY <1>1, PlanConstants DEF ProfilesInv
<1> QED
    BY <1>1, <1>2 DEF ProfilesInv

\* What an accepted target says of its profile.
LEMMA AcceptedProfile ==
    ASSUME ProfilesInv, RequestInv, NEW t \in accepted, t.bound.id # Nil
    PROVE  /\ origin.profile # Nil /\ t.bound.id = origin.profile.id
           /\ Profiles[<<t.bound.id, t.bound.version>>] = origin.profile
           /\ t.bound.owner = origin.profile.owner /\ t.payload.data = t.bound
           /\ t.bound.id \in {"test", "formal"}
           /\ t.bound.id = "test" => /\ Original(t, origin.profile, origin.plan, origin.app)
                                     /\ t.receiver = origin.profile.receiver
                                     /\ ValidateProfileBinding(origin.profile, t.receiver, origin.profile.testChat)
<1>1. BoundTo(t, origin.profile) /\ ValidTarget(t) /\ AcceptedOK(t) /\ Prepared(origin.profile)
    BY DEF RequestInv, AcceptedOK
<1>2. origin.profile # Nil
    BY <1>1 DEF BoundTo
<1>3. /\ t.bound.id = origin.profile.id /\ t.bound.version = origin.profile.version
      /\ t.bound.owner = origin.profile.owner /\ t.payload.data = t.bound
    BY <1>1, <1>2 DEF BoundTo
<1>4. PICK p : p = origin.profile
    OBVIOUS
<1>5. /\ p.id \in {"test", "formal"} /\ p = Profiles[<<p.id, p.version>>]
      /\ p.id = "test" => ValidateProfileBinding(p, p.receiver, p.testChat)
    BY <1>1, <1>2, <1>4, ProfileFound
<1>6. Profiles[<<t.bound.id, t.bound.version>>] = p
    BY <1>3, <1>4, <1>5
<1>7. ASSUME t.bound.id = "test"
      PROVE  /\ Original(t, origin.profile, origin.plan, origin.app)
             /\ t.receiver = p.receiver
  <2>1. Original(t, origin.profile, origin.plan, origin.app)
      BY <1>1, <1>2, <1>3, <1>7 DEF AcceptedOK
  <2>2. p.id = "test"
      BY <1>3, <1>4, <1>7
  <2>3. t.receiver = p.receiver
      BY <1>1, <1>6, <2>2 DEF ValidTarget
  <2> QED
      BY <2>1, <2>3
<1> QED
    BY <1>2, <1>3, <1>4, <1>5, <1>6, <1>7

\* Nothing is prepared, requested or sent at first.
LEMMA PlanStart ==
    ASSUME PlanInit
    PROVE  PlanInv
<1>1. ProfilesInv
    BY DEF PlanInit, ProfilesInv
<1>2. ClusterInv
  <2>1. edits \in 0..MaxEdits
      BY SMT, PlanConstants DEF PlanInit
  <2> QED
      BY <2>1, PlanConstants DEF PlanInit, ClusterInv
<1>3. RequestInv
  <2>1. origin.plan = Nil /\ origin.profile = Nil
      BY SMT DEF PlanInit, Nothing
  <2> QED
      BY <2>1 DEF PlanInit, RequestInv, Prepared
<1>4. SentInv
    BY DEF PlanInit, SentInv, RefusedOnlyForLiveState
<1> QED
    BY <1>1, <1>2, <1>3, <1>4 DEF PlanInv

\* A step that leaves the profiles alone keeps their part of the invariant.
LEMMA ProfilesSame ==
    ASSUME ProfilesInv, UNCHANGED <<prepared, active>>
    PROVE  ProfilesInv'
BY DEF ProfilesInv

\* A step that leaves the Receiver and Config objects alone keeps theirs.
LEMMA ClusterSame ==
    ASSUME ClusterInv, UNCHANGED <<receivers, held, stored, edits>>
    PROVE  ClusterInv'
BY DEF ClusterInv

\* A stored target stays as it is while its plan and origin do.
LEMMA AcceptedSame ==
    ASSUME UNCHANGED <<accepted, origin>>, NEW t, AcceptedOK(t)
    PROVE  AcceptedOK(t)'
<1>1. UNCHANGED accepted /\ UNCHANGED origin
    OBVIOUS
<1> QED
    BY <1>1 DEF AcceptedOK

\* A step that leaves the request and the stored plan alone keeps their part, also
\* when a version is prepared.
LEMMA RequestSame ==
    ASSUME RequestInv, prepared \subseteq prepared', UNCHANGED <<request, accepted, origin>>
    PROVE  RequestInv'
<1>1. UNCHANGED request /\ UNCHANGED accepted /\ UNCHANGED origin
    OBVIOUS
<1>2. ASSUME NEW q, Prepared(q) PROVE Prepared(q)'
    BY <1>2 DEF Prepared
<1>3. Prepared(origin.profile)'
  <2>1. PICK q : q = origin.profile
      OBVIOUS
  <2>2. Prepared(q)'
      BY <1>2, <2>1 DEF RequestInv
  <2> QED
      BY <1>1, <2>1, <2>2 DEF Prepared
<1>4. request # Nil => Prepared(request.profile)'
  <2>1. PICK q : q = request.profile
      OBVIOUS
  <2>2. request # Nil => Prepared(q)'
      BY <1>2, <2>1 DEF RequestInv
  <2> QED
      BY <1>1, <2>1, <2>2 DEF Prepared
<1>5. \A t \in accepted' : AcceptedOK(t)'
    BY <1>1, AcceptedSame DEF RequestInv
<1> QED
    BY <1>1, <1>3, <1>4, <1>5 DEF RequestInv

\* A step that sends and refuses nothing keeps the part of what was sent.
LEMMA SentSame ==
    ASSUME SentInv, UNCHANGED <<accepted, sending, card, refused>>
    PROVE  SentInv'
<1>1. UNCHANGED accepted /\ UNCHANGED sending /\ UNCHANGED card /\ UNCHANGED refused
    OBVIOUS
<1>2. RefusedOnlyForLiveState'
    BY <1>1 DEF SentInv, RefusedOnlyForLiveState
<1> QED
    BY <1>1, <1>2 DEF SentInv, SentOK

\* ProfileControl: preparing checks the test lane's scope, activating takes what was prepared.
LEMMA PrepareStep ==
    ASSUME PlanInv, NEW key \in DOMAIN Profiles, Prepare(key) \/ Activate(key)
    PROVE  PlanInv'
<1>1. CASE Prepare(key)
  <2>1. ClusterInv'
      BY <1>1, ClusterSame DEF PlanInv, Prepare
  <2>2. RequestInv'
      BY <1>1, RequestSame DEF PlanInv, Prepare
  <2>3. SentInv'
      BY <1>1, SentSame DEF PlanInv, Prepare
  <2>4. ASSUME key[1] = "test"
        PROVE  ValidateProfileBinding(Profiles[key], Profiles[key].receiver, Profiles[key].testChat)
    <3>1. Profiles[key].id = "test"
        BY <2>4, PlanConstants
    <3> QED
        BY <1>1, <3>1 DEF Prepare, validateProfile
  <2>5. ProfilesInv'
      BY <1>1, <2>4 DEF PlanInv, ProfilesInv, Prepare
  <2> QED
      BY <2>1, <2>2, <2>3, <2>5 DEF PlanInv
<1>2. CASE Activate(key)
  <2>1. ClusterInv'
      BY <1>2, ClusterSame DEF PlanInv, Activate
  <2>2. RequestInv'
      BY <1>2, RequestSame DEF PlanInv, Activate
  <2>3. SentInv'
      BY <1>2, SentSame DEF PlanInv, Activate
  <2>4. key = <<key[1], key[2]>>
      BY PlanConstants
  <2>5. ASSUME NEW l \in Lanes, active'[l] # Nil PROVE <<l, active'[l]>> \in prepared
    <3>1. CASE l = key[1]
      <4>1. active'[l] = key[2]
          BY SMT, <1>2, <3>1 DEF Activate, PlanInv, ProfilesInv
      <4> QED
          BY <1>2, <2>4, <3>1, <4>1 DEF Activate
    <3>2. CASE l # key[1]
      <4>1. active'[l] = active[l]
          BY SMTT(30), <1>2, <3>2 DEF Activate, PlanInv, ProfilesInv
      <4> QED
          BY <2>5, <4>1 DEF PlanInv, ProfilesInv
    <3> QED
        BY <3>1, <3>2
  <2>6. DOMAIN active' = Lanes
      BY SMT, <1>2 DEF Activate, PlanInv, ProfilesInv
  <2>7. ProfilesInv'
      BY <1>2, <2>5, <2>6 DEF PlanInv, ProfilesInv, Activate
  <2> QED
      BY <2>1, <2>2, <2>3, <2>7 DEF PlanInv
<1> QED
    BY <1>1, <1>2

\* Guard takes the active version's profile into the request.
LEMMA AdmitStep ==
    ASSUME PlanInv, NEW lane \in Lanes, Admit(lane)
    PROVE  PlanInv'
<1>1. UNCHANGED <<receivers, held, stored, vault, prepared, active, edits>>
    BY DEF Admit, cluster
<1>2. UNCHANGED <<accepted, origin, sending, card, refused>> /\ accepted = {}
    BY DEF Admit
<1>3. ProfilesInv' /\ ClusterInv' /\ SentInv'
    BY <1>1, <1>2, ProfilesSame, ClusterSame, SentSame DEF PlanInv
<1>4. PICK q : q = IF lane = Nil THEN Nil ELSE Profiles[<<lane, active[lane]>>]
    OBVIOUS
<1>5. request' = [profile |-> q, plan |-> Nil]
    BY <1>4 DEF Admit
<1>6. request'.profile = q /\ request'.plan = Nil
    BY SMT, <1>5
<1>7. q # Nil => \E key \in prepared : q = Profiles[key]
    BY <1>4 DEF Admit, PlanInv, ProfilesInv
<1>8. Prepared(request.profile)'
    BY <1>1, <1>6, <1>7 DEF Prepared
<1>9. Prepared(origin.profile)'
    BY <1>1, <1>2 DEF PlanInv, RequestInv, Prepared
<1>10. RequestInv'
  <2>1. request' = [profile |-> request'.profile, plan |-> request'.plan]
      BY <1>5, <1>6
  <2>2. accepted' = {} /\ origin' = origin
      BY <1>2
  <2>3. origin.plan = Nil
      BY <1>2 DEF PlanInv, RequestInv
  <2> QED
      BY <1>6, <1>8, <1>9, <2>1, <2>2, <2>3 DEF RequestInv
<1> QED
    BY <1>3, <1>10 DEF PlanInv

\* Routing gives each receiver of the request its group of alerts.
LEMMA PlanRouteStep ==
    ASSUME PlanInv, NEW names \in SUBSET DOMAIN receivers, NEW groups \in [names -> SUBSET Alerts \ {{}}], Route(groups)
    PROVE  PlanInv'
<1>1. UNCHANGED <<receivers, held, stored, vault, prepared, active, edits>>
    BY DEF Route, cluster
<1>2. UNCHANGED <<accepted, origin, sending, card, refused>> /\ request # Nil
    BY DEF Route
<1>3. ProfilesInv' /\ ClusterInv' /\ SentInv'
    BY <1>1, <1>2, ProfilesSame, ClusterSame, SentSame DEF PlanInv
<1>4. PICK plan : plan = [n \in DOMAIN groups |-> Entry(n, groups[n])]
    OBVIOUS
<1>5. EntriesOK(plan)
  <2> SUFFICES ASSUME NEW n \in names PROVE n # "history" /\ EntryOK(plan[n])
      BY <1>4 DEF EntriesOK
  <2>1. PICK e : e = plan[n]
      OBVIOUS
  <2>2. e = [rcv |-> receivers[n], alerts |-> groups[n], config |-> held, data |-> Unbound]
      BY <1>4, <2>1 DEF Entry
  <2>3. e.rcv = receivers[n] /\ e.alerts = groups[n] /\ e.config = held /\ e.data = Unbound
      BY SMT, <2>2
  <2>4. ReceiverFields \subseteq DOMAIN receivers[n] /\ held \in AppConfigs /\ n # "history"
      BY DEF PlanInv, ClusterInv
  <2>5. groups[n] \subseteq Alerts
      BY SMT
  <2>6. EntryOK(e)
      BY <2>2, <2>3, <2>4, <2>5 DEF EntryOK
  <2> QED
      BY <2>1, <2>4, <2>6
<1>6. PICK q : q = request.profile
    OBVIOUS
<1>7. request = [profile |-> q, plan |-> request.plan] /\ Prepared(q) /\ accepted = {} /\ Prepared(origin.profile)
      /\ (accepted = {} <=> origin.plan = Nil)
    BY <1>2, <1>6 DEF PlanInv, RequestInv
<1>8. request' = [request EXCEPT !.plan = plan]
    BY <1>4 DEF Route
<1>9. request' = [profile |-> q, plan |-> plan]
    BY SMT, <1>7, <1>8
<1>10. request'.profile = q /\ request'.plan = plan
    BY SMT, <1>9
<1>11. Prepared(request.profile)' /\ Prepared(origin.profile)'
    BY <1>1, <1>2, <1>7, <1>10 DEF Prepared
<1>12. request' = [profile |-> request'.profile, plan |-> request'.plan]
    BY <1>9, <1>10
<1>13. accepted' = {} /\ origin' = origin
    BY <1>2, <1>7
<1>14. EntriesOK(request.plan)'
    BY <1>5, <1>10 DEF EntriesOK, EntryOK
<1>15. RequestInv'
    BY <1>7, <1>11, <1>12, <1>13, <1>14 DEF RequestInv
<1> QED
    BY <1>3, <1>15 DEF PlanInv

\* acceptDurable stores the whole plan or nothing.
LEMMA AcceptStep ==
    ASSUME PlanInv, Accept
    PROVE  PlanInv'
<1>1. UNCHANGED <<receivers, held, stored, vault, prepared, active, edits>>
    BY DEF Accept, cluster
<1>2. UNCHANGED <<sending, card, refused>> /\ request # Nil /\ request.plan # Nil /\ request' = Nil
    BY DEF Accept
<1>3. accepted = {} /\ Prepared(request.profile) /\ EntriesOK(request.plan)
    BY <1>2 DEF PlanInv, RequestInv
<1>4. sending = Nil /\ card = Nil
    BY <1>3 DEF PlanInv, SentInv, SentOK
<1>5. SentInv'
  <2>1. RefusedOnlyForLiveState'
      BY <1>2 DEF PlanInv, SentInv, RefusedOnlyForLiveState
  <2> QED
      BY <1>2, <1>4, <2>1 DEF SentInv
<1>6. ProfilesInv' /\ ClusterInv'
    BY <1>1, ProfilesSame, ClusterSame DEF PlanInv
<1>7. PICK p : p = request.profile
    OBVIOUS
<1>8. PICK plan : plan = request.plan
    OBVIOUS
<1>9. PICK app : app = [n \in DOMAIN plan |-> AppOf(plan[n].config)]
    OBVIOUS
<1>10. accepted' = {} \/ (accepted' = Plan(p, plan) /\ \A t \in Plan(p, plan) : ValidTarget(t))
    BY <1>7, <1>8 DEF Accept
<1>11. origin' = IF accepted' = {} THEN Nothing ELSE [plan |-> plan, profile |-> p, app |-> app]
    BY <1>7, <1>8, <1>9 DEF Accept
<1>12. CASE accepted' = {}
  <2>1. origin'.plan = Nil /\ origin'.profile = Nil
      BY SMT, <1>11, <1>12 DEF Nothing
  <2>2. RequestInv'
      BY <1>2, <1>12, <2>1 DEF RequestInv, Prepared
  <2> QED
      BY <1>5, <1>6, <2>2 DEF PlanInv
<1>13. CASE accepted' # {}
  <2>1. origin'.plan = plan /\ origin'.profile = p /\ origin'.app = app
      BY SMT, <1>11, <1>13
  <2>2. accepted' = Plan(p, plan)
      BY <1>10, <1>13
  <2>3. Prepared(origin.profile)'
      BY <1>1, <1>3, <1>7, <2>1 DEF Prepared
  <2>4. \A n \in DOMAIN plan : app[n] = AppOf(plan[n].config)
      BY <1>9
  <2>5. ASSUME NEW t \in accepted'
        PROVE  AcceptedOK(t)'
    <3>1. ValidTarget(t)
        BY <1>10, <1>13, <2>2
    <3>2. /\ BoundTo(t, p)
          /\ \/ Original(t, p, plan, app) /\ t.receiver # "history"
             \/ Copies(t, Plan(p, plan)) /\ ~(p # Nil /\ p.id = "test")
        BY <1>3, <1>8, <2>2, <2>4, PlanTargets
    <3>3. /\ BoundTo(t, origin'.profile)
          /\ \/ Original(t, origin'.profile, origin'.plan, origin'.app) /\ t.receiver # "history"
             \/ Copies(t, accepted') /\ ~(origin'.profile # Nil /\ origin'.profile.id = "test")
        BY <2>1, <2>2, <3>2
    <3> QED
        BY <3>1, <3>3 DEF AcceptedOK
  <2>6. RequestInv'
      BY <1>2, <1>8, <1>13, <2>1, <2>3, <2>5 DEF RequestInv
  <2> QED
      BY <1>5, <1>6, <2>6 DEF PlanInv
<1> QED
    BY <1>12, <1>13

\* SendFrozen refuses an accepted target only for what may have changed since.
LEMMA RefusedForLiveState ==
    ASSUME PlanInv, NEW t \in accepted, Refusal(t) # Nil
    PROVE  \/ Refusal(t) \in {"sender", "credential"}
           \/ Refusal(t) = "scope" /\ t.bound.id = "formal"
<1> SUFFICES ASSUME Refusal(t) \notin {"sender", "credential"}
             PROVE  Refusal(t) = "scope" /\ t.bound.id = "formal"
    OBVIOUS
<1>1. PICK p : p = Profiles[<<t.bound.id, t.bound.version>>]
    OBVIOUS
<1>2. t.bound.id # Nil /\ (\/ /\ Refusal(t) = "scope" /\ t.channel = "feishu" /\ t.to[1] = "chat"
                              /\ ~ValidateProfileBinding(p, t.receiver, t.to[2])
                           \/ p.owner # t.bound.owner
                           \/ ~ValidTarget(t)
                           \/ t.payload.data # t.bound
                           \/ /\ t.bound.id = "test"
                              /\ ~(/\ \E c \in t.payload.rcv.chats : t.payload.rcv.chats = {c} /\ t.to = Chat(c)
                                   /\ t.payload.rcv.users = {} /\ t.payload.rcv.departments = {}
                                   /\ t.payload.rcv.bot = Nil))
    BY <1>1, RefusalNames
<1>3. /\ p = origin.profile /\ t.bound.id = origin.profile.id /\ origin.profile # Nil
      /\ t.bound.owner = p.owner /\ t.payload.data = t.bound /\ t.bound.id \in {"test", "formal"}
      /\ t.bound.id = "test" => /\ Original(t, origin.profile, origin.plan, origin.app)
                                /\ t.receiver = origin.profile.receiver
                                /\ ValidateProfileBinding(origin.profile, t.receiver, origin.profile.testChat)
    BY <1>1, <1>2, AcceptedProfile DEF PlanInv
<1>4. ValidTarget(t)
    BY DEF PlanInv, RequestInv, AcceptedOK
<1>5. CASE t.bound.id = "formal"
  <2>1. "formal" # "test"
      BY SMT
  <2> QED
      BY <1>2, <1>3, <1>4, <1>5, <2>1
<1>6. CASE t.bound.id = "test"
  <2>1. /\ t.to = Chat(p.testChat) /\ t.payload.rcv.chats = {p.testChat} /\ t.payload.rcv.users = {}
        /\ t.payload.rcv.departments = {} /\ t.payload.rcv.bot = Nil
      BY <1>3, <1>6 DEF Original
  <2>2. t.to[2] = p.testChat
      BY SMT, <2>1 DEF Chat
  <2>3. ValidateProfileBinding(p, t.receiver, t.to[2])
      BY <1>3, <1>6, <2>2
  <2> QED
      BY <1>2, <1>3, <1>4, <2>1, <2>3
<1> QED
    BY <1>3, <1>5, <1>6

\* SendFrozen hands on what was accepted, or refuses.
LEMMA SendStep ==
    ASSUME PlanInv, NEW t \in accepted, SendFrozen(t)
    PROVE  PlanInv'
<1>1. UNCHANGED <<receivers, held, stored, vault, prepared, active, edits>>
    BY DEF SendFrozen, cluster
<1>2. UNCHANGED <<request, accepted, origin, card>>
    BY DEF SendFrozen
<1>3. ProfilesInv' /\ ClusterInv'
    BY <1>1, ProfilesSame, ClusterSame DEF PlanInv
<1>4. RequestInv'
    BY <1>1, <1>2, RequestSame DEF PlanInv
<1>5. card' # Nil => SentOK(card)' /\ card'.to = Addresses(card'.target.payload.rcv)
    BY <1>2 DEF PlanInv, SentInv, SentOK
<1>6. CASE Refusal(t) = Nil
  <2>1. PICK c : c = Secret(t)
      OBVIOUS
  <2>2. sending' = [target |-> t, content |-> t.payload.content, secret |-> c] /\ UNCHANGED refused
      BY <1>6, <2>1 DEF SendFrozen
  <2>3. sending'.target = t /\ sending'.content = t.payload.content /\ sending'.secret = c
      BY SMT, <2>2
  <2>4. ASSUME c # Nil
        PROVE  /\ t.channel = "feishu" /\ t.payload.config.mode = "resolved"
               /\ c = [uid |-> t.payload.config.uid, app |-> t.payload.config.app]
    <3>1. /\ t.channel = "feishu" /\ t.payload.config.mode = "resolved"
          /\ c = [uid |-> stored.uid, app |-> AppOf(stored)]
        BY <2>1, <2>4 DEF Secret
    <3>2. ResolveFeishuCredentialReference(t.payload.config)
        BY <1>6, <3>1, RefusalNames
    <3> QED
        BY <3>1, <3>2 DEF ResolveFeishuCredentialReference
  <2>5. SentOK(sending)'
      BY <1>2, <2>3, <2>4 DEF SentOK
  <2>6. RefusedOnlyForLiveState'
      BY <2>2 DEF PlanInv, SentInv, RefusedOnlyForLiveState
  <2> QED
      BY <1>3, <1>4, <1>5, <2>5, <2>6 DEF PlanInv, SentInv
<1>7. CASE Refusal(t) # Nil
  <2>1. PICK why : why = Refusal(t)
      OBVIOUS
  <2>2. refused' = [target |-> t, why |-> why] /\ UNCHANGED sending /\ sending = Nil
      BY <1>7, <2>1 DEF SendFrozen
  <2>3. refused'.target = t /\ refused'.why = why
      BY SMT, <2>2
  <2>4. why \in {"sender", "credential"} \/ (why = "scope" /\ t.bound.id = "formal")
      BY <1>7, <2>1, RefusedForLiveState
  <2>5. RefusedOnlyForLiveState'
      BY <2>3, <2>4 DEF RefusedOnlyForLiveState
  <2> QED
      BY <1>3, <1>4, <1>5, <2>2, <2>5 DEF PlanInv, SentInv
<1> QED
    BY <1>6, <1>7

\* The notifier posts what SendFrozen handed to it.
LEMMA NotifyStep ==
    ASSUME PlanInv, Notify
    PROVE  PlanInv'
<1>1. UNCHANGED <<receivers, held, stored, vault, prepared, active, edits>>
    BY DEF Notify, cluster
<1>2. UNCHANGED <<request, accepted, origin, refused>> /\ sending # Nil /\ sending' = Nil
    BY DEF Notify
<1>3. ProfilesInv' /\ ClusterInv'
    BY <1>1, ProfilesSame, ClusterSame DEF PlanInv
<1>4. RequestInv'
    BY <1>1, <1>2, RequestSame DEF PlanInv
<1>5. PICK r : r = sending.target.payload.rcv
    OBVIOUS
<1>6. card' = [target |-> sending.target, content |-> sending.content, to |-> Addresses(r), secret |-> sending.secret]
    BY <1>5 DEF Notify, Addresses
<1>7. PICK a : a = Addresses(r)
    OBVIOUS
<1>8. card'.target = sending.target /\ card'.content = sending.content /\ card'.to = a /\ card'.secret = sending.secret
    BY SMT, <1>6, <1>7
<1>9. SentOK(sending)
    BY <1>2 DEF PlanInv, SentInv
<1>10. SentOK(card)'
    BY <1>2, <1>8, <1>9 DEF SentOK
<1>11. card'.to = Addresses(card'.target.payload.rcv)
    BY <1>5, <1>7, <1>8
<1>12. RefusedOnlyForLiveState'
    BY <1>2 DEF PlanInv, SentInv, RefusedOnlyForLiveState
<1> QED
    BY <1>2, <1>3, <1>4, <1>10, <1>11, <1>12 DEF PlanInv, SentInv

\* The cluster is edited and the controller follows.
LEMMA EditStep ==
    ASSUME PlanInv, Edit \/ Sync
    PROVE  PlanInv'
<1>1. UNCHANGED <<prepared, active, request, accepted, origin, sending, card, refused>>
    BY DEF Edit, Sync
<1>2. ProfilesInv' /\ RequestInv' /\ SentInv'
    BY <1>1, ProfilesSame, RequestSame, SentSame DEF PlanInv
<1>3. edits' \in 0..MaxEdits
    BY SMTT(30), PlanConstants DEF Edit, Sync, PlanInv, ClusterInv
<1>4. /\ \A n \in DOMAIN receivers' :
            n # "history" /\ \A r \in {receivers'[n]} \cup Edited[n] : ReceiverFields \subseteq DOMAIN r
  <2>1. CASE UNCHANGED receivers
      BY <2>1 DEF PlanInv, ClusterInv
  <2>2. ASSUME NEW n \in DOMAIN receivers, NEW shape \in Edited[n], receivers' = [receivers EXCEPT ![n] = shape]
        PROVE  \A m \in DOMAIN receivers' :
                   m # "history" /\ \A r \in {receivers'[m]} \cup Edited[m] : ReceiverFields \subseteq DOMAIN r
    <3>1. DOMAIN receivers' = DOMAIN receivers /\ \A m \in DOMAIN receivers : receivers'[m] \in {receivers[m]} \cup Edited[m]
        BY SMTT(30), <2>2
    <3> QED
        BY <3>1 DEF PlanInv, ClusterInv
  <2> QED
      BY <2>1, <2>2 DEF Edit, Sync
<1>5. held' \in AppConfigs /\ stored' \in AppConfigs \cup {Nil}
    BY DEF Edit, Sync, PlanInv, ClusterInv
<1>6. ClusterInv'
    BY <1>3, <1>4, <1>5 DEF ClusterInv
<1> QED
    BY <1>2, <1>6 DEF PlanInv

\* The inductive invariant of the frozen plan: profiles are used as they were
\* prepared, what is accepted was routed, and what is sent was accepted.
THEOREM PlanInvariant == PlanSpec => []PlanInv
<1>1. PlanInit => PlanInv
    BY PlanStart
<1>2. PlanInv /\ [PlanNext]_planVars => PlanInv'
  <2> SUFFICES ASSUME PlanInv, [PlanNext]_planVars PROVE PlanInv'
      OBVIOUS
  <2>1. CASE UNCHANGED planVars
    <3>1. ProfilesInv' /\ ClusterInv' /\ SentInv'
        BY <2>1, ProfilesSame, ClusterSame, SentSame DEF PlanInv, planVars
    <3>2. RequestInv'
        BY <2>1, RequestSame DEF PlanInv, planVars
    <3> QED
        BY <3>1, <3>2 DEF PlanInv
  <2>2. CASE PlanNext
    <3>1. ASSUME NEW names \in SUBSET DOMAIN receivers \ {{}}, NEW groups \in [names -> SUBSET Alerts \ {{}}], Route(groups)
          PROVE  PlanInv'
      <4>1. names \in SUBSET DOMAIN receivers
          OBVIOUS
      <4> QED
          BY <3>1, <4>1, PlanRouteStep
    <3> QED
        BY <2>2, <3>1, PrepareStep, AdmitStep, AcceptStep, SendStep, NotifyStep, EditStep DEF PlanNext
  <2> QED
      BY <2>1, <2>2
<1> QED
    BY <1>1, <1>2, PTL DEF PlanSpec

\* The invariant says what the properties say of cards, refusals and history.
LEMMA PlanKept ==
    ASSUME PlanInv
    PROVE  PlanIsKept
<1>1. PlanTypeOK
  <2>1. (accepted = {}) = (origin.plan = Nil)
      BY SMT DEF PlanInv, RequestInv
  <2> QED
      BY <2>1 DEF PlanInv, ProfilesInv, ClusterInv, PlanTypeOK
<1>2. RefusedOnlyForLiveState
    BY DEF PlanInv, SentInv
<1>3. card # Nil => SentOK(card) /\ card.to = Addresses(card.target.payload.rcv) /\ card.target \in accepted
    BY DEF PlanInv, SentInv, SentOK
<1>4. card # Nil => AcceptedOK(card.target)
    BY <1>3 DEF PlanInv, RequestInv
<1>5. PICK t : t = card.target
    OBVIOUS
<1>6. PICK test : test = (origin.profile # Nil /\ origin.profile.id = "test")
    OBVIOUS
<1>7. CardIsAsAccepted
  <2> SUFFICES ASSUME card # Nil, t.waits = {}
               PROVE  /\ card.to = {t.to}
                      /\ card.content[1] = origin.plan[t.receiver].rcv.template
                      /\ card.content[2] = IF test THEN origin.plan[t.receiver].alerts \cap Critical
                                           ELSE origin.plan[t.receiver].alerts
                      /\ test \/ t.to \in {d.to : d \in destinations(origin.plan[t.receiver].rcv)}
      BY <1>5, <1>6 DEF CardIsAsAccepted
  <2>1. Original(t, origin.profile, origin.plan, origin.app)
      BY <1>4, <1>5 DEF AcceptedOK, Copies
  <2>2. PICK e : e = origin.plan[t.receiver]
      OBVIOUS
  <2>3. /\ Addresses(t.payload.rcv) = {t.to}
        /\ t.payload.alerts = IF test THEN e.alerts \cap Critical ELSE e.alerts
        /\ t.payload.content = <<e.rcv.template, t.payload.alerts>>
        /\ ~test => t.to \in Addresses(e.rcv)
      BY <1>6, <2>1, <2>2 DEF Original
  <2>4. t.payload.content[1] = e.rcv.template /\ t.payload.content[2] = t.payload.alerts
      BY SMT, <2>3
  <2>5. card.content = t.payload.content /\ card.to = Addresses(t.payload.rcv)
      BY <1>3, <1>5 DEF SentOK
  <2>6. ~test => t.to \in {d.to : d \in destinations(e.rcv)}
      BY <2>3 DEF Addresses
  <2> QED
      BY <2>2, <2>3, <2>4, <2>5, <2>6
<1>8. TestLaneIsACopy
  <2> SUFFICES ASSUME card # Nil, t.bound.id = "test"
               PROVE  LET p == Profiles[<<"test", t.bound.version>>]
                      IN  /\ card.to = {Chat(p.testChat)} /\ t.receiver = p.receiver
                          /\ p.source \in origin.plan[p.receiver].rcv.chats
                          /\ card.content[2] \subseteq Critical
      BY <1>5 DEF TestLaneIsACopy
  <2>1. t.bound.id # Nil
      BY PlanConstants
  <2>2. PICK p : p = origin.profile
      OBVIOUS
  <2>3. /\ p # Nil /\ p.id = "test" /\ Profiles[<<"test", t.bound.version>>] = p
        /\ Original(t, p, origin.plan, origin.app) /\ t.receiver = p.receiver
      BY <1>3, <1>5, <2>1, <2>2, AcceptedProfile DEF PlanInv
  <2>4. /\ Addresses(t.payload.rcv) = {Chat(p.testChat)} /\ p.source \in origin.plan[t.receiver].rcv.chats
        /\ t.payload.alerts = origin.plan[t.receiver].alerts \cap Critical
      BY <2>3 DEF Original
  <2>5. t.payload.content = <<origin.plan[t.receiver].rcv.template, t.payload.alerts>>
      BY <2>3 DEF Original
  <2>6. t.payload.content[2] = t.payload.alerts
      BY SMT, <2>5
  <2>7. card.content = t.payload.content /\ card.to = Addresses(t.payload.rcv)
      BY <1>3, <1>5 DEF SentOK
  <2>8. card.content[2] \subseteq Critical
      BY <2>4, <2>6, <2>7
  <2> QED
      BY <2>3, <2>4, <2>7, <2>8
<1>9. SecretIsOfTheAcceptedApp
  <2> SUFFICES ASSUME card # Nil, card.secret # Nil
               PROVE  card.secret = [uid |-> t.payload.config.uid, app |-> origin.app[t.receiver]]
      BY <1>5 DEF SecretIsOfTheAcceptedApp
  <2>1. /\ t.channel = "feishu" /\ t.payload.config.mode = "resolved"
        /\ card.secret = [uid |-> t.payload.config.uid, app |-> t.payload.config.app]
      BY <1>3, <1>5 DEF SentOK
  <2>2. t.channel # "webhook"
      BY SMT, <2>1
  <2>3. Original(t, origin.profile, origin.plan, origin.app)
      BY <1>4, <1>5, <2>2 DEF AcceptedOK, Copies
  <2>4. t.payload.config.app = origin.app[t.receiver]
      BY <2>1, <2>3 DEF Original
  <2> QED
      BY <2>1, <2>4
<1>10. HistoryWaitsForItsAlert
  <2> SUFFICES ASSUME NEW h \in accepted, h.receiver = "history"
               PROVE  /\ h.bound.id # "test"
                      /\ \E a \in Alerts :
                            /\ h.payload.alerts = {a} /\ h.waits # {}
                            /\ h.waits = {q.payload : q \in {v \in accepted :
                                               v.receiver # "history" /\ a \in v.payload.alerts}}
      BY DEF HistoryWaitsForItsAlert
  <2>1. Copies(h, accepted) /\ ~(origin.profile # Nil /\ origin.profile.id = "test") /\ BoundTo(h, origin.profile)
      BY DEF PlanInv, RequestInv, AcceptedOK
  <2>2. h.bound.id # "test"
      BY <2>1, PlanConstants DEF BoundTo
  <2> QED
      BY <2>1, <2>2 DEF Copies
<1> QED
    BY <1>1, <1>2, <1>7, <1>8, <1>9, <1>10 DEF PlanIsKept

\* "SendFrozen never re-routes or re-renders": whatever is edited between the routing
\* of a request, its acceptance and the send, a card is the one that was accepted, goes
\* where it was accepted for with the secret of that application, and history follows
\* its own alert (pkg/notify/durable.go, Freeze to SendFrozen).
THEOREM AcceptedPlanIsKept == PlanSpec => []PlanIsKept
BY PlanInvariant, PlanKept, PTL

-----------------------------------------------------------------------------
(***************************************************************************)
(* AnnotationContract: what decodeAnnotation accepted is stored as it was  *)
(* and shows what its answers carry.                                       *)
(***************************************************************************)
\* A component that was accepted is the decoded form of an annotation of either
\* schema, and passed its validation.
AnnotationInv ==
    Accepted => \E w : Decodable(w) /\ component = Decoded(w) /\ validate(component)

\* A component has the fields of its schema, and its schema's version.
LEMMA DecodedFields ==
    ASSUME NEW w, Decodable(w), NEW c, c = Decoded(w)
    PROVE  /\ c["schema_version"] \in {"1", "2"} /\ DOMAIN c = Fields(c["schema_version"])
           /\ c = [f \in DOMAIN c |-> c[f]]
<1>1. PICK v : v = w["schema_version"]
    OBVIOUS
<1>2. v \in {"1", "2"} /\ "schema_version" \in DOMAIN w
    BY <1>1 DEF Decodable
<1>3. c = [f \in Fields(v) |-> IF f \in DOMAIN w THEN w[f] ELSE Zero(f)]
    BY <1>1 DEF Decoded, Value
<1>4. "schema_version" \in Fields(v)
    BY DEF Fields, FieldsV1, FieldsV2
<1>5. c["schema_version"] = v /\ DOMAIN c = Fields(v)
    BY <1>1, <1>2, <1>3, <1>4
<1>6. c = [f \in Fields(v) |-> c[f]]
    BY <1>3
<1> QED
    BY <1>2, <1>5, <1>6

\* MarshalJSON leaves out optional fields only, and those only when decoding
\* puts the same value back.
LEMMA MarshalDecodes ==
    ASSUME NEW w, Decodable(w), NEW c, c = Decoded(w)
    PROVE  /\ Readable(MarshalJSON(c))
           /\ Read(MarshalJSON(c)) = [f \in UnionFields |-> Value(c, f)]
<1>1. /\ c["schema_version"] \in {"1", "2"} /\ DOMAIN c = Fields(c["schema_version"])
      /\ c = [f \in DOMAIN c |-> c[f]]
    BY DecodedFields
<1>2. PICK v : v = c["schema_version"]
    OBVIOUS
<1>3. PICK stays : stays = {f \in DOMAIN c : ~(v = "2" /\ f \in OmitEmpty /\ c[f] = Zero(f))}
    OBVIOUS
<1>4. PICK m : m = MarshalJSON(c)
    OBVIOUS
<1>5. m = [f \in stays |-> c[f]]
    BY <1>2, <1>3, <1>4 DEF MarshalJSON, Restrict
<1>6. DOMAIN m = stays /\ \A f \in stays : m[f] = c[f]
    BY <1>5
<1>7. stays \subseteq UnionFields
    BY <1>1, <1>2, <1>3 DEF Fields, UnionFields
<1>8. ASSUME NEW f \in UnionFields PROVE Value(m, f) = Value(c, f)
  <2>1. CASE f \in stays
      BY <1>3, <1>6, <2>1 DEF Value
  <2>2. CASE f \notin stays /\ f \in DOMAIN c
      BY <1>3, <1>6, <2>2 DEF Value
  <2>3. CASE f \notin stays /\ f \notin DOMAIN c
      BY <1>6, <2>3 DEF Value
  <2> QED
      BY <2>1, <2>2, <2>3
<1>9. Readable(m)
    BY <1>6, <1>7 DEF Readable
<1>10. Read(m) = [f \in UnionFields |-> Value(c, f)]
    BY <1>8 DEF Read
<1> QED
    BY <1>4, <1>9, <1>10

\* What the two validators of schema 2 demand of a proposal.
LEMMA ProposalIsCarried ==
    ASSUME NEW c, validateV2(c)
    PROVE  /\ c["policy_proposal"] = "pool" /\ c["pool_min_probability"] # Nil =>
                c["routing"].probabilities["pool"] >= c["pool_min_probability"]
           /\ c["routing"] = Nil => c["policy_proposal"] = "original" \/ c["decision_source"] = "operator_rule"
<1>1. "pool" # "original" /\ "pool" # "oncall"
    BY SMT
<1>2. CASE validatePolicyFactsV1(c)
  <2>1. CASE c["decision_source"] = "operator_rule" /\ WithoutThreshold(c)
      BY <2>1 DEF WithoutThreshold
  <2>2. CASE ModelPolicy(c)
    <3>1. (c["model_status"] = "available") = (c["routing"] # Nil /\ c["pool_reason"] # Nil)
        BY <1>2 DEF validatePolicyFactsV1
    <3>2. c["model_status"] = "available"
        BY <2>2 DEF ModelPolicy
    <3>3. c["routing"] # Nil
        BY SMT, <3>1, <3>2
    <3> QED
        BY <1>1, <2>2, <3>3 DEF ModelPolicy
  <2>3. CASE c["policy_proposal"] = "original"
      BY <1>1, <2>3
  <2> QED
      BY <1>2, <2>1, <2>2, <2>3 DEF validatePolicyFactsV1
<1>3. CASE ValidException(c)
    BY <1>1, <1>3 DEF ValidException
<1>4. CASE c["routing"] # Nil /\ ValidJudgment(c)
    BY <1>1, <1>4 DEF ValidJudgment
<1> QED
    BY <1>2, <1>3, <1>4 DEF validateV2

\* decodeAnnotation accepts what it decoded and validated; rendering leaves it as it is.
LEMMA AnnotationInvariant == AnnotationSpec => []AnnotationInv
<1>1. AnnotationInit => AnnotationInv
  <2>1. "wire" \notin {"component", "card"}
      BY SMT
  <2> QED
      BY <2>1 DEF AnnotationInit, AnnotationInv, Accepted
<1>2. AnnotationInv /\ [AnnotationNext]_annotationVars => AnnotationInv'
  <2> SUFFICES ASSUME AnnotationInv, [AnnotationNext]_annotationVars, Accepted'
               PROVE  \E w : Decodable(w) /\ component' = Decoded(w) /\ validate(component')
      BY DEF AnnotationInv
  <2>1. CASE decodeAnnotation
    <3>1. "rejected" \notin {"component", "card"}
        BY SMT
    <3> QED
        BY <2>1, <3>1 DEF decodeAnnotation, Accepted
  <2>2. CASE renderCard
      BY <2>2 DEF renderCard, AnnotationInv, Accepted
  <2>3. CASE UNCHANGED annotationVars
      BY <2>3 DEF annotationVars, AnnotationInv, Accepted
  <2> QED
      BY <2>1, <2>2, <2>3 DEF AnnotationNext
<1> QED
    BY <1>1, <1>2, PTL DEF AnnotationSpec

\* Whatever a producer sends, an annotation that decodeAnnotation accepts is read back
\* from the state file as it was, and its card shows no route that its answers, or an
\* operator rule, do not carry (pkg/jevshadow/service.go).
THEOREM AcceptedAnnotationsAreSound ==
    AnnotationSpec => [](StoredFormDecodes /\ PoolReachesThreshold /\ ExceptionKeepsOriginal)
<1>1. ASSUME AnnotationInv PROVE StoredFormDecodes /\ PoolReachesThreshold /\ ExceptionKeepsOriginal
  <2>1. CASE ~Accepted
      BY <2>1 DEF StoredFormDecodes, PoolReachesThreshold, ExceptionKeepsOriginal
  <2>2. CASE Accepted
    <3>1. PICK w : Decodable(w) /\ component = Decoded(w) /\ validate(component)
        BY <1>1, <2>2 DEF AnnotationInv
    <3>2. StoredFormDecodes
        BY <3>1, MarshalDecodes DEF StoredFormDecodes
    <3>3. ASSUME component["schema_version"] = "2" PROVE validateV2(component)
      <4>1. "2" # "1"
          BY SMT
      <4> QED
          BY <3>1, <3>3, <4>1 DEF validate
    <3>4. PoolReachesThreshold /\ ExceptionKeepsOriginal
        BY <3>3, ProposalIsCarried DEF PoolReachesThreshold, ExceptionKeepsOriginal
    <3> QED
        BY <3>2, <3>4
  <2> QED
      BY <2>1, <2>2
<1> QED
    BY <1>1, AnnotationInvariant, PTL

-----------------------------------------------------------------------------
(***************************************************************************)
(* DeliveryIdentity: an identity tells the dispatch and the group it was   *)
(* made for, whichever of its three forms it has.                          *)
(***************************************************************************)
\* The three forms of a delivery's identity: the stamped attempt, the message of a
\* production card, and the fallback over the members.
Attempted(x) == ~production /\ x.deliveryID = <<"attempt", x.dispatch, x.group>>
SentCard(x) ==
    /\ production
    /\ \E r : x.deliveryID[4] = <<x.dispatch, r, x.group>>
ByMembers(x) ==
    /\ ~production
    /\ \E members : members # {} /\ x.deliveryID = deriveDeliveryID(x.group, members, x.dispatch)

IdentityInv ==
    /\ production \in BOOLEAN /\ dispatches \in Nat
    /\ \A r \in receipts : (Attempted(r) \/ SentCard(r) \/ ByMembers(r)) /\ r.dispatch \in 1..dispatches
    /\ \A o \in observed : (Attempted(o) \/ SentCard(o)) /\ o.dispatch \in 1..dispatches
    /\ ReceiptsCorrelate

\* The parts of one fanout: the copies a channel sends, their stamp, the receipts of
\* the cards and what is observed.
FanCopies(fan, p) == {addExtensionLabels(a, p[1]) : a \in fan[p]}
FanMembers(fan, p) == {Member(c) : c \in FanCopies(fan, p)}
FanStamp(fan, d, drawn, p) ==
    IF production \/ ~drawn THEN Nil ELSE deriveAttemptDeliveryID(d, p[2], fan[p])
FanSeen(fan) == {p \in DOMAIN fan : p[1] = Observer}
FanCards(fan, d, drawn) ==
    {buildReceipt(d, p[1], p[2], FanCopies(fan, p), FanStamp(fan, d, drawn, p)) : p \in DOMAIN fan \ FanSeen(fan)}
FanHeard(fan, d, drawn) ==
    IF production THEN FanCards(fan, d, drawn)
    ELSE {[dispatch |-> d, group |-> p[2], deliveryID |-> FanStamp(fan, d, drawn, p),
           members |-> FanMembers(fan, p)] : p \in {q \in FanSeen(fan) : drawn}}

\* notifyStage.Exec adds these parts.
LEMMA ExecAdds ==
    ASSUME NEW fan, NEW drawn, Exec(fan, drawn), NEW d, d = dispatches + 1
    PROVE  /\ dispatches < MaxDispatches /\ dispatches' = d
           /\ receipts' = receipts \cup FanCards(fan, d, drawn)
           /\ observed' = observed \cup FanHeard(fan, d, drawn)
<1>1. dispatches < MaxDispatches /\ dispatches' = dispatches + 1
    BY DEF Exec
<1>2. receipts' = receipts \cup FanCards(fan, dispatches + 1, drawn)
    BY DEF Exec, FanCards, FanSeen, FanCopies, FanStamp
<1>3. observed' = observed \cup FanHeard(fan, dispatches + 1, drawn)
    BY DEF Exec, FanHeard, FanCards, FanSeen, FanCopies, FanStamp, FanMembers
<1> QED
    BY <1>1, <1>2, <1>3

\* Every form tells the dispatch and the group, and none can be taken for another.
LEMMA IdentityTells ==
    ASSUME NEW x, Attempted(x) \/ SentCard(x) \/ ByMembers(x),
           NEW y, Attempted(y) \/ SentCard(y) \/ ByMembers(y), x.deliveryID = y.deliveryID
    PROVE  x.dispatch = y.dispatch /\ x.group = y.group
<1>0. PICK id : id = x.deliveryID /\ id = y.deliveryID
    OBVIOUS
<1>1. CASE Attempted(x) /\ Attempted(y)
  <2>1. id = <<"attempt", x.dispatch, x.group>> /\ id = <<"attempt", y.dispatch, y.group>>
      BY <1>0, <1>1 DEF Attempted
  <2>2. id[2] = x.dispatch /\ id[3] = x.group
      BY SMT, <2>1
  <2>3. id[2] = y.dispatch /\ id[3] = y.group
      BY SMT, <2>1
  <2> QED
      BY <2>2, <2>3
<1>2. CASE SentCard(x) /\ SentCard(y)
  <2>3. PICK message : message = id[4]
      OBVIOUS
  <2>4. PICK r : message = <<x.dispatch, r, x.group>>
      BY <1>0, <1>2, <2>3 DEF SentCard
  <2>5. PICK q : message = <<y.dispatch, q, y.group>>
      BY <1>0, <1>2, <2>3 DEF SentCard
  <2>6. message[1] = x.dispatch /\ message[3] = x.group
      BY SMT, <2>4
  <2>7. message[1] = y.dispatch /\ message[3] = y.group
      BY SMT, <2>5
  <2> QED
      BY <2>6, <2>7
<1>3. CASE ByMembers(x) /\ ByMembers(y)
  <2>1. PICK M : M # {} /\ x.deliveryID = deriveDeliveryID(x.group, M, x.dispatch)
      BY <1>3 DEF ByMembers
  <2>2. PICK N : N # {} /\ y.deliveryID = deriveDeliveryID(y.group, N, y.dispatch)
      BY <1>3 DEF ByMembers
  <2>3. PICK S : S = {<<a.id, a.status, pythonISOTime(a.start), EndOf(a), x.dispatch>> : a \in M}
      OBVIOUS
  <2>4. PICK T : T = {<<a.id, a.status, pythonISOTime(a.start), EndOf(a), y.dispatch>> : a \in N}
      OBVIOUS
  <2>5. id = <<"members", x.group, S>> /\ id = <<"members", y.group, T>>
      BY <1>0, <2>1, <2>2, <2>3, <2>4 DEF deriveDeliveryID
  <2>6. x.group = y.group /\ S = T
    <3>1. id[2] = x.group /\ id[3] = S
        BY SMTT(30), <2>5
    <3>2. id[2] = y.group /\ id[3] = T
        BY SMT, <2>5
    <3> QED
        BY <3>1, <3>2
  <2>7. PICK a \in M : TRUE
      BY <2>1
  <2>8. PICK s : s = <<a.id, a.status, pythonISOTime(a.start), EndOf(a), x.dispatch>>
      OBVIOUS
  <2>9. s \in T
      BY <2>3, <2>6, <2>8
  <2>10. PICK b \in N : s = <<b.id, b.status, pythonISOTime(b.start), EndOf(b), y.dispatch>>
      BY <2>4, <2>9
  <2>11. s[5] = x.dispatch
      BY SMTT(30), <2>8
  <2>12. s[5] = y.dispatch
      BY SMT, <2>10
  <2> QED
      BY <2>6, <2>11, <2>12
<1>4. ASSUME NEW u, NEW v, Attempted(u), ByMembers(v) PROVE u.deliveryID # v.deliveryID
  <2>1. PICK S : v.deliveryID = <<"members", v.group, S>>
      BY <1>4 DEF ByMembers, deriveDeliveryID
  <2>2. u.deliveryID[1] = "attempt"
      BY SMTT(30), <1>4 DEF Attempted
  <2>3. v.deliveryID[1] = "members"
      BY SMTT(30), <2>1
  <2>4. "attempt" # "members"
      BY SMT
  <2> QED
      BY <2>2, <2>3, <2>4
<1> QED
    BY <1>1, <1>2, <1>3, <1>4 DEF Attempted, SentCard, ByMembers

\* A member outside of production carries the identity and the start of the alert.
LEMMA PlainMember ==
    ASSUME ~production, NEW a \in SentAlerts, NEW r, NEW c, c = addExtensionLabels(a, r), NEW m, m = Member(c)
    PROVE  m.alert.id = a.id /\ m.fingerprint = a.id /\ m.starts = a.start
<1>1. {"id", "labels", "start"} \subseteq DOMAIN a
    BY IdentityConstants
<1>2. c.id = a.id /\ c.start = a.start
  <2>1. CASE "receiver" \in DOMAIN a.labels
      BY <2>1 DEF addExtensionLabels
  <2>2. CASE "receiver" \notin DOMAIN a.labels
    <3>1. PICK l : c = [a EXCEPT !.labels = l]
        BY <2>2 DEF addExtensionLabels
    <3> QED
        BY SMT, <1>1, <3>1
  <2> QED
      BY <2>1, <2>2
<1>3. m = [alert |-> c, fingerprint |-> c.id, starts |-> c.start, event |-> Nil]
    BY DEF Member
<1>4. m.alert = c /\ m.fingerprint = c.id /\ m.starts = c.start
    BY SMT, <1>3
<1> QED
    BY <1>2, <1>4

\* framedDigest keeps its parts apart: the last of three after a version is found again.
LEMMA FourthPart ==
    ASSUME NEW version, NEW a, NEW b, NEW c PROVE (<<version>> \o <<a, b, c>>)[4] = c
    BY SMT

\* buildReceipt gives a card of a fanout one of the three identities.
LEMMA NewReceipt ==
    ASSUME NEW fan \in Fanouts[production], production \in BOOLEAN, NEW drawn \in BOOLEAN, NEW d \in 1..MaxDispatches,
           NEW p \in DOMAIN fan, NEW stamp, stamp = FanStamp(fan, d, drawn, p),
           NEW members, members = FanCopies(fan, p),
           NEW r, r = buildReceipt(d, p[1], p[2], members, stamp)
    PROVE  /\ r.dispatch = d /\ r.group = p[2] /\ (Attempted(r) \/ SentCard(r) \/ ByMembers(r))
           /\ production => SentCard(r)
           /\ ~production => r.members = FanMembers(fan, p) /\ (drawn => Attempted(r))
<1>1. PICK id : id = IF stamp # Nil THEN stamp
                    ELSE IF production
                    THEN framedDigest("sent-notification-v2", <<"source", p[1], <<d, p[1], p[2]>>>>)
                    ELSE deriveDeliveryID(p[2], members, d)
    OBVIOUS
<1>2. r = [dispatch |-> d, group |-> p[2], members |-> {Member(c) : c \in members}, deliveryID |-> id]
    BY <1>1 DEF buildReceipt
<1>3. PICK M : M = {Member(c) : c \in members} /\ M = FanMembers(fan, p)
    BY DEF FanMembers
<1>4. r.dispatch = d /\ r.group = p[2] /\ r.members = M /\ r.deliveryID = id
    BY SMT, <1>2, <1>3
<1>5. production = TRUE \/ production = FALSE
    OBVIOUS
<1>6. members # {}
  <2>1. fan \in Fanouts[TRUE] \cup Fanouts[FALSE]
      BY <1>5
  <2>2. fan[p] # {}
      BY <2>1, IdentityConstants
  <2>3. PICK a : a \in fan[p]
      BY <2>2
  <2> QED
      BY <2>3 DEF FanCopies
<1>7. CASE production
  <2>1. id = framedDigest("sent-notification-v2", <<"source", p[1], <<d, p[1], p[2]>>>>)
      BY <1>1, <1>7 DEF FanStamp
  <2>2. PICK message : message = <<d, p[1], p[2]>>
      OBVIOUS
  <2>3. id = <<"sent-notification-v2">> \o <<"source", p[1], message>>
      BY <2>1, <2>2 DEF framedDigest
  <2>4. id[4] = message
      BY SMTT(30), <2>3, FourthPart
  <2> QED
      BY <1>4, <1>7, <2>2, <2>4 DEF SentCard
<1>8. CASE ~production /\ drawn
  <2>1. fan \in Fanouts[FALSE]
      BY <1>5, <1>8
  <2>2. stamp = <<"attempt", d, p[2]>>
      BY <1>8 DEF FanStamp, deriveAttemptDeliveryID
  <2>3. stamp # Nil
      BY <2>1, <2>2, IdentityConstants
  <2>4. id = stamp
      BY <1>1, <2>3
  <2> QED
      BY <1>3, <1>4, <1>8, <2>2, <2>4 DEF Attempted
<1>9. CASE ~production /\ ~drawn
  <2>1. id = deriveDeliveryID(p[2], members, d)
      BY <1>1, <1>9 DEF FanStamp
  <2> QED
      BY <1>3, <1>4, <1>6, <1>9, <2>1 DEF ByMembers
<1> QED
    BY <1>7, <1>8, <1>9

\* Outside of production the observation webhook is given the stamped attempt.
LEMMA NewObservation ==
    ASSUME NEW d, NEW g, NEW members, NEW o, ~production,
           o = [dispatch |-> d, group |-> g, deliveryID |-> <<"attempt", d, g>>, members |-> members]
    PROVE  o.dispatch = d /\ o.group = g /\ o.members = members /\ Attempted(o)
<1>1. o.dispatch = d /\ o.group = g /\ o.members = members /\ o.deliveryID = <<"attempt", d, g>>
    BY SMT
<1> QED
    BY <1>1 DEF Attempted

\* A receipt and an observation of one fanout and group name the same alerts alike.
LEMMA FanoutCorrelates ==
    ASSUME ~production, NEW fan \in Fanouts[FALSE], NEW p \in DOMAIN fan, NEW q \in DOMAIN fan,
           p[2] = q[2], q[1] = Observer,
           NEW m \in FanMembers(fan, p), NEW n \in FanMembers(fan, q), n.alert.id = m.alert.id
    PROVE  n.fingerprint = m.fingerprint /\ n.starts = m.starts
<1>1. PICK a \in fan[p] : m = Member(addExtensionLabels(a, p[1]))
    BY DEF FanMembers, FanCopies
<1>2. PICK b \in fan[q] : n = Member(addExtensionLabels(b, q[1]))
    BY DEF FanMembers, FanCopies
<1>3. a \in SentAlerts /\ b \in SentAlerts
    BY IdentityConstants
<1>4. m.alert.id = a.id /\ m.fingerprint = a.id /\ m.starts = a.start
    BY ZenonT(30), <1>1, <1>3, PlainMember
<1>5. n.alert.id = b.id /\ n.fingerprint = b.id /\ n.starts = b.start
    BY ZenonT(30), <1>2, <1>3, PlainMember
<1>6. a.id = b.id
    BY <1>4, <1>5
<1>7. \A x \in fan[p], y \in fan[q] : x.id = y.id => x.start = y.start
    BY IdentityConstants DEF Observer
<1>8. a.start = b.start
    BY <1>6, <1>7
<1> QED
    BY <1>4, <1>5, <1>6, <1>8

\* One fanout keeps the invariant: what it adds correlates within itself, and is told
\* apart from everything earlier by its dispatch.
LEMMA ExecStep ==
    ASSUME IdentityInv, NEW fan \in Fanouts[production], NEW drawn \in BOOLEAN, Exec(fan, drawn), UNCHANGED production
    PROVE  IdentityInv'
<1>1. PICK d : d = dispatches + 1
    OBVIOUS
<1>2. PICK cards : cards = FanCards(fan, d, drawn)
    OBVIOUS
<1>3. PICK heard : heard = FanHeard(fan, d, drawn)
    OBVIOUS
<1>4. /\ dispatches < MaxDispatches /\ dispatches' = d
      /\ receipts' = receipts \cup cards /\ observed' = observed \cup heard
    BY <1>1, <1>2, <1>3, ExecAdds
<1>5. production \in BOOLEAN /\ dispatches \in Nat /\ production' = production
    BY DEF IdentityInv
<1>0. production' <=> production
    BY SMTT(30), <1>5
<1>6. d \in 1..MaxDispatches /\ d \in Nat /\ d \in 1..d /\ d \notin 1..dispatches /\ 1..dispatches \subseteq 1..d
    BY SMTT(30), <1>1, <1>4, <1>5, IdentityConstants
<1>7. ASSUME NEW r \in cards
      PROVE  /\ r.dispatch = d /\ (Attempted(r) \/ SentCard(r) \/ ByMembers(r))
             /\ production => SentCard(r)
             /\ \E p \in DOMAIN fan : /\ r.group = p[2]
                                      /\ ~production => r.members = FanMembers(fan, p) /\ (drawn => Attempted(r))
  <2>1. PICK p \in DOMAIN fan : r = buildReceipt(d, p[1], p[2], FanCopies(fan, p), FanStamp(fan, d, drawn, p))
      BY <1>2 DEF FanCards
  <2>2. PICK st : st = FanStamp(fan, d, drawn, p)
      OBVIOUS
  <2>3. PICK cs : cs = FanCopies(fan, p)
      OBVIOUS
  <2>4. r = buildReceipt(d, p[1], p[2], cs, st)
      BY ZenonT(30), <2>1, <2>2, <2>3
  <2>5. /\ r.dispatch = d /\ r.group = p[2] /\ (Attempted(r) \/ SentCard(r) \/ ByMembers(r))
        /\ production => SentCard(r)
        /\ ~production => r.members = FanMembers(fan, p) /\ (drawn => Attempted(r))
      BY SMTT(30), <1>5, <1>6, <2>2, <2>3, <2>4, NewReceipt
  <2> QED
      BY <2>5
<1>8. ASSUME NEW o \in heard
      PROVE  /\ o.dispatch = d /\ (Attempted(o) \/ SentCard(o))
             /\ ~production => /\ drawn /\ Attempted(o)
                               /\ \E q \in DOMAIN fan : q[1] = Observer /\ o.group = q[2] /\ o.members = FanMembers(fan, q)
  <2>1. CASE production
      BY <1>2, <1>3, <1>7, <2>1 DEF FanHeard
  <2>2. CASE ~production
    <3>1. PICK q \in FanSeen(fan) : drawn /\ o = [dispatch |-> d, group |-> q[2],
              deliveryID |-> FanStamp(fan, d, drawn, q), members |-> FanMembers(fan, q)]
        BY <1>3, <2>2 DEF FanHeard
    <3>2. FanStamp(fan, d, drawn, q) = <<"attempt", d, q[2]>>
        BY <2>2, <3>1 DEF FanStamp, deriveAttemptDeliveryID
    <3>3. PICK M : M = FanMembers(fan, q)
        OBVIOUS
    <3>4. o = [dispatch |-> d, group |-> q[2], deliveryID |-> <<"attempt", d, q[2]>>, members |-> M]
        BY ZenonT(30), <3>1, <3>2, <3>3
    <3>5. o.dispatch = d /\ o.group = q[2] /\ o.members = M /\ Attempted(o)
        BY SMTT(30), <2>2, <3>4, NewObservation
    <3> QED
        BY <2>2, <3>1, <3>3, <3>5 DEF FanSeen
  <2> QED
      BY <2>1, <2>2
<1>9. ASSUME NEW x
      PROVE  (Attempted(x) => Attempted(x)') /\ (SentCard(x) => SentCard(x)') /\ (ByMembers(x) => ByMembers(x)')
  <2>1. Attempted(x) => Attempted(x)'
      BY <1>0 DEF Attempted
  <2>2. SentCard(x) => SentCard(x)'
      BY <1>0 DEF SentCard
  <2>3. ByMembers(x) => ByMembers(x)'
      BY <1>0 DEF ByMembers, deriveDeliveryID, EndOf, pythonISOTime
  <2> QED
      BY <2>1, <2>2, <2>3
<1>10. \A r \in receipts' : (Attempted(r) \/ SentCard(r) \/ ByMembers(r)) /\ r.dispatch \in 1..d
    BY <1>4, <1>6, <1>7 DEF IdentityInv
<1>11. \A o \in observed' : (Attempted(o) \/ SentCard(o)) /\ o.dispatch \in 1..d
    BY <1>4, <1>6, <1>8 DEF IdentityInv
<1>12. ASSUME NEW r \in receipts', NEW o \in observed', r.deliveryID = o.deliveryID
       PROVE  r.dispatch = o.dispatch /\ r.group = o.group
    BY <1>10, <1>11, <1>12, IdentityTells
<1>13. ASSUME NEW r \in receipts', NEW o \in observed', ~production, r.dispatch = o.dispatch, r.group = o.group
       PROVE  /\ r.deliveryID = o.deliveryID
              /\ \A m \in r.members : (\E n \in o.members : n.alert.id = m.alert.id)
                                       => \E n \in o.members : n.fingerprint = m.fingerprint /\ n.starts = m.starts
  <2>1. CASE r \in receipts /\ o \in observed
      BY <1>13, <2>1 DEF IdentityInv, ReceiptsCorrelate
  <2>2. CASE r \in cards /\ o \in heard
    <3>1. PICK p \in DOMAIN fan : r.group = p[2] /\ r.members = FanMembers(fan, p) /\ (drawn => Attempted(r))
        BY <1>7, <1>13, <2>2
    <3>2. drawn /\ Attempted(o)
        BY <1>8, <1>13, <2>2
    <3>3. PICK q \in DOMAIN fan : q[1] = Observer /\ o.group = q[2] /\ o.members = FanMembers(fan, q)
        BY <1>8, <1>13, <2>2
    <3>4. r.deliveryID = o.deliveryID
        BY <1>13, <3>1, <3>2 DEF Attempted
    <3>5. fan \in Fanouts[FALSE]
      <4>1. production = FALSE
          BY <1>5, <1>13
      <4> QED
          BY <4>1
    <3>6. p[2] = q[2]
        BY <1>13, <3>1, <3>3
    <3>7. ASSUME NEW m \in FanMembers(fan, p), NEW n \in FanMembers(fan, q), n.alert.id = m.alert.id
          PROVE  n.fingerprint = m.fingerprint /\ n.starts = m.starts
        BY <1>13, <3>3, <3>5, <3>6, <3>7, FanoutCorrelates
    <3> QED
        BY <3>1, <3>3, <3>4, <3>7
  <2>3. CASE r \in receipts /\ o \in heard
      BY <1>6, <1>8, <1>13, <2>3 DEF IdentityInv
  <2>4. CASE r \in cards /\ o \in observed
      BY <1>6, <1>7, <1>13, <2>4 DEF IdentityInv
  <2> QED
      BY <1>4, <2>1, <2>2, <2>3, <2>4
<1>14. ReceiptsCorrelate'
  <2> SUFFICES ASSUME NEW r \in receipts', NEW o \in observed'
               PROVE  /\ r.deliveryID = o.deliveryID => r.dispatch = o.dispatch /\ r.group = o.group
                      /\ (~production' /\ r.dispatch = o.dispatch /\ r.group = o.group) =>
                            /\ r.deliveryID = o.deliveryID
                            /\ \A m \in r.members : (\E n \in o.members : n.alert.id = m.alert.id)
                                  => \E n \in o.members : n.fingerprint = m.fingerprint /\ n.starts = m.starts
      BY DEF ReceiptsCorrelate
  <2> QED
      BY <1>0, <1>12, <1>13
<1> QED
    BY <1>4, <1>5, <1>6, <1>9, <1>10, <1>11, <1>14 DEF IdentityInv

\* Whatever fanouts are sent, a receipt finds the observation of its own dispatch and
\* group, and no other, and in it the alerts both were given; and a repeat is a delivery
\* of its own, by whichever of the three identities (pkg/jevshadow/receipt.go).
THEOREM IdentitiesTellDeliveriesApart == IdentitySpec => [](ReceiptsCorrelate /\ RepeatsStaySeparate)
<1>1. IdentityInit => IdentityInv
  <2>1. 0 \in Nat
      BY SMT
  <2> QED
      BY <2>1 DEF IdentityInit, IdentityInv, ReceiptsCorrelate
<1>2. IdentityInv /\ [IdentityNext]_identityVars => IdentityInv'
  <2> SUFFICES ASSUME IdentityInv, [IdentityNext]_identityVars PROVE IdentityInv'
      OBVIOUS
  <2>1. CASE IdentityNext
      BY <2>1, ExecStep DEF IdentityNext
  <2>2. CASE UNCHANGED identityVars
    <3>1. UNCHANGED production /\ UNCHANGED dispatches /\ UNCHANGED receipts /\ UNCHANGED observed
        BY <2>2 DEF identityVars
    <3>2. ReceiptsCorrelate'
        BY SMT, <3>1 DEF IdentityInv, ReceiptsCorrelate
    <3> QED
        BY <3>1, <3>2 DEF IdentityInv, Attempted, SentCard, ByMembers
  <2> QED
      BY <2>1, <2>2
<1>3. IdentityInv => ReceiptsCorrelate /\ RepeatsStaySeparate
    BY IdentityTells DEF IdentityInv, RepeatsStaySeparate
<1> QED
    BY <1>1, <1>2, <1>3, PTL DEF IdentitySpec

-----------------------------------------------------------------------------
(***************************************************************************)
(* ReceiverKinds: a receiver that passed validation is one its notifier    *)
(* can use, with the settings it chose.                                    *)
(***************************************************************************)
\* The internal receiver of a resource, kind by kind: which of its fields the kind has.
Built(s) ==
    [kind |-> s.kind, template |-> s.template,
     title |-> IF s.kind \in {"dingtalk", "email", "pushover"} THEN s.title ELSE Nil,
     type |-> IF s.kind \in {"dingtalk", "email", "wechat", "feishu", "discord"} THEN s.type ELSE Nil,
     bot |-> IF s.kind \in {"dingtalk", "webhook", "wechat", "feishu", "discord"} THEN s.bot ELSE FALSE,
     cred |-> IF s.kind = "webhook" \/ (s.kind \in {"dingtalk", "wechat", "feishu", "discord"} /\ s.bot)
              THEN s.cred ELSE "none",
     direct |-> s.direct, detail |-> s.detail, config |-> Nil]

\* The inductive invariant: what a phase says of the receiver that got there.
KindsInv ==
    /\ resource \in Resources /\ options \in Options /\ path \in {"cr", "api"}
    /\ path = "cr" => handed = "copy"
    /\ phase \in {"written", "admitted", "rejected", "unbuilt", "stored", "selected", "panicked", "open", "ignored"}
    /\ (path = "cr" /\ phase \in {"admitted", "stored", "selected", "open"}) => validateReceiver(resource) = "ok"
    /\ (phase \in {"stored", "selected"} \/ (phase = "open" /\ path = "cr")) => kept = Built(resource)
    /\ phase = "selected" =>
          receiver = Matched(Built(resource), config) /\ (path = "api" => Validate(receiver))
    /\ phase = "open" =>
          \E r : /\ receiver = Settings(r, options) /\ r = Matched(Built(resource), config)
                 /\ path = "api" => Validate(r)

\* The record of an internal receiver, by its fields.
Rec(k, t, l, y, b, c, d, f, g) ==
    [kind |-> k, template |-> t, title |-> l, type |-> y, bot |-> b, cred |-> c, direct |-> d, detail |-> f, config |-> g]

\* The assignments to the fields of a receiver.  The lemmas say what they change.
SetType(r, x) == [r EXCEPT !.type = x]
SetTitle(r, x) == [r EXCEPT !.title = x]
SetTemplate(r, x) == [r EXCEPT !.template = x]
SetConfig(r, x) == [r EXCEPT !.config = x]
SetBot(r, x, z) == [r EXCEPT !.bot = x, !.cred = z]
SetForm(r, x, z) == [r EXCEPT !.type = x, !.template = z]

\* Assigning a receiver's message type, as the notifiers' New functions do, keeps its other
\* fields.
LEMMA TypeAssigned ==
    ASSUME NEW k, NEW t, NEW l, NEW y, NEW b, NEW c, NEW d, NEW f, NEW g, NEW x
    PROVE  SetType(Rec(k, t, l, y, b, c, d, f, g), x) = Rec(k, t, l, x, b, c, d, f, g)
BY SMT DEF SetType, Rec

\* The same for the template of the title.
LEMMA TitleAssigned ==
    ASSUME NEW k, NEW t, NEW l, NEW y, NEW b, NEW c, NEW d, NEW f, NEW g, NEW x
    PROVE  SetTitle(Rec(k, t, l, y, b, c, d, f, g), x) = Rec(k, t, x, y, b, c, d, f, g)
BY SMT DEF SetTitle, Rec

\* The same for the template.
LEMMA TemplateAssigned ==
    ASSUME NEW k, NEW t, NEW l, NEW y, NEW b, NEW c, NEW d, NEW f, NEW g, NEW x
    PROVE  SetTemplate(Rec(k, t, l, y, b, c, d, f, g), x) = Rec(k, x, l, y, b, c, d, f, g)
BY SMT DEF SetTemplate, Rec

\* The same for the config that getMatchedConfig adds.
LEMMA ConfigAssigned ==
    ASSUME NEW k, NEW t, NEW l, NEW y, NEW b, NEW c, NEW d, NEW f, NEW g, NEW x
    PROVE  SetConfig(Rec(k, t, l, y, b, c, d, f, g), x) = Rec(k, t, l, y, b, c, d, f, x)
BY SMT DEF SetConfig, Rec

\* The same for the chat bot, webhook or URL and its credential, which NewReceiver adds.
LEMMA BotAssigned ==
    ASSUME NEW k, NEW t, NEW l, NEW y, NEW b, NEW c, NEW d, NEW f, NEW g, NEW x, NEW z
    PROVE  SetBot(Rec(k, t, l, y, b, c, d, f, g), x, z) = Rec(k, t, l, y, x, z, d, f, g)
<1>1. SetBot(Rec(k, t, l, y, b, c, d, f, g), x, z) = [[Rec(k, t, l, y, b, c, d, f, g) EXCEPT !.bot = x] EXCEPT !.cred = z]
    BY SMT DEF SetBot
<1>2. [Rec(k, t, l, y, b, c, d, f, g) EXCEPT !.bot = x] = Rec(k, t, l, y, x, c, d, f, g)
    BY SMT DEF Rec
<1>3. [Rec(k, t, l, y, x, c, d, f, g) EXCEPT !.cred = z] = Rec(k, t, l, y, x, z, d, f, g)
    BY SMT DEF Rec
<1> QED
    BY <1>1, <1>2, <1>3

\* The same for the message type and the template together.
LEMMA FormAssigned ==
    ASSUME NEW k, NEW t, NEW l, NEW y, NEW b, NEW c, NEW d, NEW f, NEW g, NEW x, NEW z
    PROVE  SetForm(Rec(k, t, l, y, b, c, d, f, g), x, z) = Rec(k, z, l, x, b, c, d, f, g)
<1>1. SetForm(Rec(k, t, l, y, b, c, d, f, g), x, z) = [[Rec(k, t, l, y, b, c, d, f, g) EXCEPT !.type = x] EXCEPT !.template = z]
    BY SMT DEF SetForm
<1>2. [Rec(k, t, l, y, b, c, d, f, g) EXCEPT !.type = x] = Rec(k, t, l, x, b, c, d, f, g)
    BY SMT DEF Rec
<1>3. [Rec(k, t, l, x, b, c, d, f, g) EXCEPT !.template = z] = Rec(k, z, l, x, b, c, d, f, g)
    BY SMT DEF Rec
<1> QED
    BY <1>1, <1>2, <1>3

\* NewReceiver leaves out what the kind does not have, and nothing else.
LEMMA BuiltFields ==
    ASSUME NEW s \in Resources, NewReceiver(s) # Nil
    PROVE  NewReceiver(s) = Built(s)
<1> DEFINE cred == IF s.bot \/ s.kind = "webhook" THEN s.cred ELSE "none"
           title == IF s.kind \in {"dingtalk", "email", "pushover"} THEN s.title ELSE Nil
           type == IF s.kind \in {"dingtalk", "email", "wechat", "feishu", "discord"} THEN s.type ELSE Nil
           bot == IF s.kind \in {"dingtalk", "webhook", "wechat", "feishu", "discord"} THEN s.bot ELSE FALSE
           bcred == IF s.kind = "webhook" \/ (s.kind \in {"dingtalk", "wechat", "feishu", "discord"} /\ s.bot)
                    THEN s.cred ELSE "none"
<1>1. s.kind \in Kinds /\ s.bot \in BOOLEAN
    BY SMT, KindConstants DEF ResourceType
<1>0. PICK no : no = FALSE
    OBVIOUS
<1>2. Common(s) = Rec(s.kind, s.template, Nil, Nil, no, "none", s.direct, s.detail, Nil)
    BY <1>0 DEF Common, Rec
<1>3. Typed(s) = Rec(s.kind, s.template, Nil, s.type, no, "none", s.direct, s.detail, Nil)
  <2>1. Typed(s) = SetType(Common(s), s.type)
      BY DEF Typed, SetType
  <2> QED
      BY SMTT(30), <2>1, <1>2, TypeAssigned
<1>4. ASSUME NEW l, NEW y
      PROVE  WithBot(s, Rec(s.kind, s.template, l, y, no, "none", s.direct, s.detail, Nil))
                  = Rec(s.kind, s.template, l, y, s.bot, cred, s.direct, s.detail, Nil)
  <2>1. \A r : WithBot(s, r) = SetBot(r, s.bot, cred)
      BY DEF WithBot, SetBot
  <2> HIDE DEF cred
  <2> QED
      BY SMTT(30), <2>1, BotAssigned
<1>5. /\ SetTitle(Typed(s), s.title)
           = Rec(s.kind, s.template, s.title, s.type, no, "none", s.direct, s.detail, Nil)
      /\ SetTitle(Common(s), s.title)
           = Rec(s.kind, s.template, s.title, Nil, no, "none", s.direct, s.detail, Nil)
    BY SMTT(30), <1>2, <1>3, TitleAssigned
<1>6. Built(s) = Rec(s.kind, s.template, title, type, bot, bcred, s.direct, s.detail, Nil)
    BY DEF Built, Rec
<1>7. /\ NewDingTalk(s) = WithBot(s, SetTitle(Typed(s), s.title))
      /\ NewEmail(s) = SetTitle(Typed(s), s.title) /\ NewPushover(s) = SetTitle(Common(s), s.title)
    BY DEF NewDingTalk, NewEmail, NewPushover, SetTitle
<1>8. CASE s.kind = "dingtalk"
  <2>1. NewReceiver(s) = Rec(s.kind, s.template, s.title, s.type, s.bot, cred, s.direct, s.detail, Nil)
      BY <1>4, <1>5, <1>7, <1>8 DEF NewReceiver
  <2>5. title = s.title /\ type = s.type /\ bot = s.bot /\ bcred = cred
      BY <1>8
  <2> QED
      BY <2>1, <1>6, <2>5
<1>9. CASE s.kind \in {"wechat", "feishu", "discord"}
  <2>1. WithBot(s, Typed(s)) = Rec(s.kind, s.template, Nil, s.type, s.bot, cred, s.direct, s.detail, Nil)
      BY <1>3, <1>4
  <2>2. NewReceiver(s) = WithBot(s, Typed(s))
      BY SMT, <1>9 DEF NewReceiver, NewWechat, NewFeishu, NewDiscord
  <2>5. title = Nil /\ type = s.type /\ bot = s.bot /\ bcred = cred
    <3>1. s.kind \notin {"dingtalk", "email", "pushover", "webhook"}
        BY SMTT(30), <1>9
    <3> QED
        BY <1>9, <3>1
  <2> QED
      BY <2>1, <2>2, <1>6, <2>5
<1>10. CASE s.kind = "webhook"
  <2>1. WithBot(s, Common(s)) = Rec(s.kind, s.template, Nil, Nil, s.bot, cred, s.direct, s.detail, Nil)
      BY <1>2, <1>4
  <2>2. NewReceiver(s) = WithBot(s, Common(s))
      BY SMTT(30), <1>10 DEF NewReceiver, NewWebhook
  <2>5. title = Nil /\ type = Nil /\ bot = s.bot /\ bcred = cred
      BY <1>10
  <2> QED
      BY <2>1, <2>2, <1>6, <2>5
<1>11. CASE s.kind \in {"slack", "sms", "telegram"}
  <2>1. NewReceiver(s) = Common(s)
      BY SMT, <1>11 DEF NewReceiver, NewSlack, NewSms, NewTelegram
  <2>5. title = Nil /\ type = Nil /\ bot = no /\ bcred = "none"
    <3>1. s.kind \notin {"dingtalk", "email", "pushover", "webhook", "wechat", "feishu", "discord"}
        BY SMTT(30), <1>11
    <3> QED
        BY <1>0, <3>1
  <2> QED
      BY <1>2, <2>1, <1>6, <2>5
<1>12. CASE s.kind \in {"email", "pushover"}
  <2>1. NewReceiver(s) = IF s.kind = "email" THEN SetTitle(Typed(s), s.title) ELSE SetTitle(Common(s), s.title)
      BY SMTT(30), <1>7, <1>12 DEF NewReceiver
  <2>5. title = s.title /\ (s.kind = "email" => type = s.type) /\ (s.kind # "email" => type = Nil) /\ bot = no /\ bcred = "none"
    <3>1. s.kind \notin {"dingtalk", "webhook", "wechat", "feishu", "discord"}
        BY SMT, <1>12
    <3> QED
        BY <1>0, <1>12, <3>1
  <2> QED
      BY ZenonT(30), <1>5, <2>1, <1>6, <2>5
<1> QED
    BY <1>1, <1>8, <1>9, <1>10, <1>11, <1>12 DEF Kinds

\* A resource has one record.
LEMMA BuiltIsRec ==
    ASSUME NEW s
    PROVE  \E l, y, b, c : Built(s) = Rec(s.kind, s.template, l, y, b, c, s.direct, s.detail, Nil)
BY ZenonT(30) DEF Built, Rec

\* getMatchedConfig adds a config or leaves the receiver as it is.
LEMMA MatchedFields ==
    ASSUME NEW s, NEW c
    PROVE  \E g : Matched(Built(s), c) = SetConfig(Built(s), g)
<1>1. Matched(Built(s), c) = Built(s) \/ Matched(Built(s), c) = [Built(s) EXCEPT !.config = c]
    BY DEF Matched
<1>2. Built(s) = SetConfig(Built(s), Nil)
    BY SMTT(30), BuiltIsRec, ConfigAssigned
<1> QED
    BY <1>1, <1>2 DEF SetConfig

\* The fields of a receiver's record.
LEMMA RecFields ==
    ASSUME NEW k, NEW t, NEW l, NEW y, NEW b, NEW c, NEW d, NEW f, NEW g, NEW r, r = Rec(k, t, l, y, b, c, d, f, g)
    PROVE  /\ r.kind = k /\ r.template = t /\ r.title = l /\ r.type = y /\ r.bot = b /\ r.cred = c
           /\ r.direct = d /\ r.detail = f /\ r.config = g
BY SMT DEF Rec

\* The lookups copy every field.
LEMMA CopyIsEqual ==
    ASSUME NEW s
    PROVE  HandOut(Built(s)).receiver = Built(s) /\ HandOut(Built(s)).handed = "copy"
<1>1. PICK l, y, b, c : Built(s) = Rec(s.kind, s.template, l, y, b, c, s.direct, s.detail, Nil)
    BY BuiltIsRec
<1>2. PICK r : r = Built(s)
    OBVIOUS
<1>3. /\ r.kind = s.kind /\ r.template = s.template /\ r.title = l /\ r.type = y /\ r.bot = b /\ r.cred = c
      /\ r.direct = s.direct /\ r.detail = s.detail /\ r.config = Nil
    BY SMTT(30), <1>1, <1>2 DEF Rec
<1>4. HandOut(r) = [receiver |-> Rec(s.kind, s.template, l, y, b, c, s.direct, s.detail, Nil), handed |-> "copy"]
    BY <1>3 DEF HandOut, Rec
<1>5. HandOut(r) = [receiver |-> r, handed |-> "copy"]
    BY <1>1, <1>2, <1>4
<1>6. HandOut(r).receiver = r /\ HandOut(r).handed = "copy"
    BY SMTT(30), <1>5
<1> QED
    BY <1>2, <1>6

\* The kinds whose notifier has message types, the ones it has, and its default.
TypedKinds == {"dingtalk", "email", "wechat", "feishu"}
TypesOf(k) ==
    CASE k \in {"dingtalk", "wechat"} -> {"text", "markdown"} [] k = "email" -> {"text", "html"}
      [] k = "feishu" -> {"text", "post", "interactive"}
TypeOf(k) == IF k = "email" THEN "html" ELSE IF k = "feishu" THEN "interactive" ELSE "text"

\* n is receiver r with the settings of a notifier under the options o.
Chosen(r, o, n) ==
    /\ n.kind = r.kind /\ n.bot = r.bot /\ n.cred = r.cred /\ n.direct = r.direct /\ n.detail = r.detail
    /\ n.config = r.config
    /\ r.kind \notin TypedKinds =>
          n.type = r.type /\ n.template = IF r.template # Nil THEN r.template ELSE TemplateName(o, "default")
    /\ r.kind \in TypedKinds =>
          /\ n.type = IF r.type # Nil THEN r.type ELSE IF o.type # Nil THEN o.type ELSE TypeOf(r.kind)
          /\ n.template = IF r.template # Nil THEN r.template
                          ELSE TemplateName(o, IF n.type \in TypesOf(r.kind) THEN n.type ELSE Nil)

\* A title changes nothing of what Chosen speaks of.
LEMMA TitleKeeps ==
    ASSUME NEW k, NEW t, NEW l, NEW y, NEW b, NEW c, NEW d, NEW f, NEW g, NEW o
    PROVE  \E x : Titled(Rec(k, t, l, y, b, c, d, f, g), o) = Rec(k, t, x, y, b, c, d, f, g)
<1>1. \A r : \E x : Titled(r, o) = SetTitle(r, x)
    BY DEF Titled, SetTitle
<1> QED
    BY SMTT(30), <1>1, TitleAssigned

\* The kinds without message types take a template.
LEMMA PlainSettings ==
    ASSUME NEW k, NEW t, NEW l, NEW y, NEW b, NEW c, NEW d, NEW f, NEW g, NEW o,
           NEW x, x = IF t # Nil THEN t ELSE TemplateName(o, "default")
    PROVE  Plain(Rec(k, t, l, y, b, c, d, f, g), o) = Rec(k, x, l, y, b, c, d, f, g)
<1>1. PICK r : r = Rec(k, t, l, y, b, c, d, f, g)
    OBVIOUS
<1>2. r.template = t
    BY SMTT(30), <1>1, RecFields
<1>3. Plain(r, o) = SetTemplate(r, x)
    BY ZenonT(30), <1>2 DEF Plain, SetTemplate
<1> QED
  <2>1. SetTemplate(Rec(k, t, l, y, b, c, d, f, g), x) = Rec(k, x, l, y, b, c, d, f, g)
      BY SMTT(30), TemplateAssigned
  <2> QED
      BY <1>1, <1>3, <2>1

\* The kinds with message types take a type and the default template for it.
LEMMA FormSettings ==
    ASSUME NEW k, NEW t, NEW l, NEW y, NEW b, NEW c, NEW d, NEW f, NEW g, NEW o, NEW dflt, NEW types,
           NEW y1, y1 = IF y # Nil THEN y ELSE IF o.type # Nil THEN o.type ELSE dflt,
           NEW t1, t1 = IF t # Nil THEN t ELSE TemplateName(o, IF y1 \in types THEN y1 ELSE Nil)
    PROVE  TypedSettings(Rec(k, t, l, y, b, c, d, f, g), o, dflt, types) = Rec(k, t1, l, y1, b, c, d, f, g)
<1>1. PICK r : r = Rec(k, t, l, y, b, c, d, f, g)
    OBVIOUS
<1>2. r.template = t /\ r.type = y
    BY SMTT(30), <1>1, RecFields
<1>3. TypedSettings(r, o, dflt, types) = SetForm(r, y1, t1)
    BY <1>2 DEF TypedSettings, SetForm
<1> QED
  <2>1. SetForm(Rec(k, t, l, y, b, c, d, f, g), y1, t1) = Rec(k, t1, l, y1, b, c, d, f, g)
      BY SMTT(30), FormAssigned
  <2> QED
      BY ZenonT(30), <1>1, <1>3, <2>1

\* New settles the settings of a receiver as Chosen says, whatever its kind.
LEMMA SettingsChosen ==
    ASSUME NEW s \in Resources, NEW o, NEW g
    PROVE  Chosen(SetConfig(Built(s), g), o, Settings(SetConfig(Built(s), g), o))
<1>1. PICK l, y, b, c : Built(s) = Rec(s.kind, s.template, l, y, b, c, s.direct, s.detail, Nil)
    BY BuiltIsRec
<1>2. PICK k, t, d, f : k = s.kind /\ t = s.template /\ d = s.direct /\ f = s.detail
    OBVIOUS
<1>3. PICK r : r = Rec(k, t, l, y, b, c, d, f, g) /\ r = SetConfig(Built(s), g)
    BY SMTT(30), <1>1, <1>2, ConfigAssigned
<1>8. r = Rec(k, t, l, y, b, c, d, f, g)
    BY <1>3
<1>4. k \in Kinds
    BY SMTT(30), <1>2, KindConstants DEF ResourceType
<1>5. r.kind = k /\ r.template = t /\ r.title = l /\ r.type = y /\ r.bot = b /\ r.cred = c
      /\ r.direct = d /\ r.detail = f /\ r.config = g
    BY SMTT(30), <1>8, RecFields
<1>6. CASE k \notin TypedKinds
  <2>0. PICK t1 : t1 = IF t # Nil THEN t ELSE TemplateName(o, "default")
      OBVIOUS
  <2>1. PICK x : Settings(r, o) = Rec(k, t1, x, y, b, c, d, f, g)
    <3>1. Plain(r, o) = Rec(k, t1, l, y, b, c, d, f, g)
        BY SMTT(30), <1>8, <2>0, PlainSettings
    <3>2. \E x : Titled(Plain(r, o), o) = Rec(k, t1, x, y, b, c, d, f, g)
        BY SMTT(30), <3>1, TitleKeeps
    <3>3. Settings(r, o) = Plain(r, o) \/ Settings(r, o) = Titled(Plain(r, o), o)
      <4>1. k \in {"slack", "webhook", "discord", "pushover", "sms", "telegram"}
          BY SMTT(30), <1>4, <1>6 DEF Kinds, TypedKinds
      <4>2. CASE k = "pushover"
          BY <1>5, <4>2 DEF Settings, NewPushoverNotifier
      <4>3. CASE k = "slack"
          BY <1>5, <4>3 DEF Settings, NewSlackNotifier
      <4>4. CASE k = "webhook"
          BY <1>5, <4>4 DEF Settings, NewWebhookNotifier
      <4>5. CASE k = "discord"
          BY <1>5, <4>5 DEF Settings, NewDiscordNotifier
      <4>6. CASE k = "sms"
          BY <1>5, <4>6 DEF Settings, NewSmsNotifier
      <4>7. CASE k = "telegram"
          BY <1>5, <4>7 DEF Settings, NewTelegramNotifier
      <4> QED
          BY <4>1, <4>2, <4>3, <4>4, <4>5, <4>6, <4>7
    <3> QED
        BY ZenonT(30), <3>1, <3>2, <3>3
  <2>2. PICK n : n = Settings(r, o)
      OBVIOUS
  <2>3. n.kind = k /\ n.template = t1 /\ n.type = y /\ n.bot = b
        /\ n.cred = c /\ n.direct = d /\ n.detail = f /\ n.config = g
      BY SMTT(30), <2>1, <2>2, RecFields
  <2>4. Chosen(r, o, n)
      BY <1>5, <1>6, <2>0, <2>3 DEF Chosen
  <2> QED
      BY <1>3, <2>2, <2>4
<1>7. CASE k \in TypedKinds
  <2>1. PICK dflt, types : dflt = TypeOf(k) /\ types = TypesOf(k)
      OBVIOUS
  <2>9. PICK y1 : y1 = IF y # Nil THEN y ELSE IF o.type # Nil THEN o.type ELSE dflt
      OBVIOUS
  <2>10. PICK t1 : t1 = IF t # Nil THEN t ELSE TemplateName(o, IF y1 \in types THEN y1 ELSE Nil)
      OBVIOUS
  <2>2. TypedSettings(r, o, dflt, types) = Rec(k, t1, l, y1, b, c, d, f, g)
      BY SMTT(30), <1>8, <2>9, <2>10, FormSettings
  <2>3. PICK m : m = TypedSettings(r, o, dflt, types)
      OBVIOUS
  <2>4. Settings(r, o) = m \/ Settings(r, o) = Titled(m, o)
    <3>1. CASE k = "dingtalk"
        BY <1>5, <2>1, <2>3, <3>1 DEF Settings, TypeOf, TypesOf, NewDingTalkNotifier
    <3>2. CASE k = "email"
        BY <1>5, <2>1, <2>3, <3>2 DEF Settings, TypeOf, TypesOf, NewEmailNotifier
    <3>3. CASE k = "wechat"
        BY <1>5, <2>1, <2>3, <3>3 DEF Settings, TypeOf, TypesOf, NewWechatNotifier
    <3>4. CASE k = "feishu"
        BY <1>5, <2>1, <2>3, <3>4 DEF Settings, TypeOf, TypesOf, NewFeishuNotifier
    <3> QED
        BY <1>7, <3>1, <3>2, <3>3, <3>4 DEF TypedKinds
  <2>5. PICK x : Settings(r, o) = Rec(k, t1, x, y1, b, c, d, f, g)
    <3>1. \E x : Titled(m, o) = Rec(k, t1, x, y1, b, c, d, f, g)
        BY SMTT(30), <2>2, <2>3, TitleKeeps
    <3> QED
        BY ZenonT(30), <2>2, <2>3, <2>4, <3>1
  <2>6. PICK n : n = Settings(r, o)
      OBVIOUS
  <2>7. n.kind = k /\ n.template = t1 /\ n.type = y1 /\ n.bot = b
        /\ n.cred = c /\ n.direct = d /\ n.detail = f /\ n.config = g
      BY SMT, <2>5, <2>6, RecFields
  <2>8. Chosen(r, o, n)
      BY <1>5, <1>7, <2>1, <2>9, <2>10, <2>7 DEF Chosen
  <2> QED
      BY <1>3, <2>6, <2>8
<1> QED
    BY <1>6, <1>7

\* The message types a kind may have once it is admitted.
FitsKind(k, y) ==
    /\ k \in {"dingtalk", "wechat"} => y \in {Nil, "text", "markdown"}
    /\ k = "email" => y \in {Nil, "text", "html"}
    /\ k = "discord" => y \in {Nil, "embed"}
    /\ k = "feishu" => y \in {Nil, "text", "markdown", "html", "post", "interactive", "embed", "other"}

\* Admission looks at the message type, the credential and what the kind needs.
LEMMA Admitted ==
    ASSUME NEW s \in Resources, validateReceiver(s) = "ok"
    PROVE  /\ FitsKind(s.kind, s.type)
           /\ AdmitKind(s) /\ AdmittedCredential(s)
<1>1. s.kind \in Kinds /\ s.type \in {Nil, "text", "markdown", "html", "post", "interactive", "embed", "other"}
    BY SMT, KindConstants DEF ResourceType
<1>2. ~AdmissionPanics(s) /\ AdmitKind(s) /\ AdmittedCredential(s)
    BY SMT DEF validateReceiver
<1>3. s.kind \in {"dingtalk", "wechat"} => s.type \in {Nil, "text", "markdown"}
  <2>1. s.kind = "dingtalk" => s.type \in {Nil, "text", "markdown"}
      BY SMTT(30), <1>2 DEF AdmitKind, AdmitDingTalk
  <2>2. s.kind = "wechat" => s.type \in {Nil, "text", "markdown"}
      BY SMTT(30), <1>2 DEF AdmitKind, AdmitWechat
  <2> QED
      BY <2>1, <2>2
<1>4. s.kind = "email" => s.type \in {Nil, "text", "html"}
    BY SMTT(30), <1>2 DEF AdmitKind, AdmitEmail
<1>5. s.kind = "discord" => s.type \in {Nil, "embed"}
    BY SMT, <1>2 DEF AdmitKind, AdmitDiscord, AdmissionPanics
<1> QED
    BY <1>1, <1>2, <1>3, <1>4, <1>5 DEF FitsKind

\* The options do not make a type that fits one that does not.
LEMMA ChosenFits ==
    ASSUME NEW s \in Resources, NEW o \in Options, NEW r, NEW n, r.kind = s.kind, Chosen(r, o, n),
           FitsKind(r.kind, r.type)
    PROVE  FitsKind(n.kind, n.type)
<1>1. n.kind = s.kind /\ n.kind = r.kind
    BY DEF Chosen
<1>2. CASE s.kind \notin TypedKinds
    BY <1>1, <1>2 DEF Chosen
<1>3. CASE s.kind \in TypedKinds
  <2>1. n.type = r.type \/ (o.type # Nil /\ n.type = o.type) \/ n.type = TypeOf(s.kind)
      BY <1>3 DEF Chosen
  <2>2. FitsKind(s.kind, TypeOf(s.kind))
      BY SMT, <1>3 DEF FitsKind, TypeOf, TypedKinds
  <2>3. o.type # Nil => FitsKind(s.kind, o.type)
    <3>1. o.type # Nil => Composes(s.kind, o.type) /\ (s.kind = "email" => o.type \in {"text", "html"})
        BY OptionConstants
    <3> QED
        BY SMTT(30), <1>3, <3>1 DEF FitsKind, Composes, TypedKinds
  <2> QED
      BY <1>1, <2>1, <2>2, <2>3
<1> QED
    BY <1>2, <1>3

\* What Validate asks of a receiver, admission made sure of, apart from what only
\* Validate sees.
LEMMA AdmittedValidates ==
    ASSUME NEW s \in Resources, validateReceiver(s) = "ok", NEW n,
           n.kind = s.kind, n.direct = s.direct, n.detail = s.detail, n.bot = Built(s).bot, n.cred = Built(s).cred,
           FitsKind(n.kind, n.type), ~OnlyValidateSees(n),
           n.config # Nil \/ n.kind \in {"webhook", "discord"} \/ ~n.direct
    PROVE  Validate(n)
<1>1. /\ s.kind \in Kinds /\ s.bot \in BOOLEAN /\ s.cred \in Credentials /\ s.direct \in BOOLEAN
      /\ s.detail \in {"fine", "odd", "missing"}
    BY SMT, KindConstants DEF ResourceType
<1>2. AdmitKind(s) /\ AdmittedCredential(s)
    BY Admitted
<1>3. s.kind \in {"dingtalk", "webhook", "wechat", "feishu"} => n.bot = s.bot
    BY DEF Built
<1>4. CASE s.kind = "dingtalk"
  <2>1. s.bot => n.cred = s.cred
      BY <1>4 DEF Built
  <2>2. s.bot => n.cred \in {"value", "ref"}
    <3>1. s.bot => s.cred \notin {"neither", "both", "noRef"}
        BY <1>2, <1>4 DEF AdmittedCredential, validateCredential
    <3>2. s.bot => n.cred \notin {"none", "noKey"}
        BY <1>3, <1>4 DEF OnlyValidateSees
    <3> QED
        BY SMTT(30), <1>1, <2>1, <3>1, <3>2 DEF Credentials
  <2>3. s.bot \/ s.direct
      BY SMTT(30), <1>1, <1>3, <1>4 DEF OnlyValidateSees
  <2> QED
      BY SMTT(30), <1>1, <1>3, <1>4, <2>2, <2>3 DEF Validate, DingTalkValid, FitsKind, ValidateCredential
<1>5. CASE s.kind = "email"
    BY SMTT(30), <1>2, <1>5 DEF Validate, EmailValid, FitsKind, AdmitKind, AdmitEmail
<1>6. CASE s.kind = "slack"
    BY SMTT(30), <1>2, <1>6 DEF Validate, SlackValid, AdmitKind, AdmitSlack
<1>7. CASE s.kind = "webhook"
    BY SMTT(30), <1>2, <1>3, <1>7 DEF Validate, WebhookValid, AdmitKind, AdmitWebhook
<1>8. CASE s.kind = "wechat"
    BY SMTT(30), <1>1, <1>2, <1>3, <1>8 DEF Validate, WechatValid, FitsKind, AdmitKind, AdmitWechat
<1>9. CASE s.kind = "discord"
    BY SMT, <1>9 DEF Validate, DiscordValid, FitsKind
<1>10. CASE s.kind = "pushover"
    BY SMTT(30), <1>1, <1>2, <1>10 DEF Validate, PushoverValid, OnlyValidateSees, AdmitKind, AdmitPushover
<1>11. CASE s.kind = "sms"
  <2>1. s.detail # "missing"
      BY SMTT(30), <1>11, KindConstants
  <2> QED
      BY SMTT(30), <1>1, <1>2, <1>11, <2>1 DEF Validate, SmsValid, OnlyValidateSees, AdmitKind, AdmitSms
<1>12. CASE s.kind = "feishu"
    BY SMTT(30), <1>1, <1>2, <1>3, <1>12 DEF Validate, FeishuValid, FitsKind, OnlyValidateSees, AdmitKind, AdmitFeishu
<1>13. CASE s.kind = "telegram"
    BY SMTT(30), <1>2, <1>13 DEF Validate, TelegramValid, AdmitKind, AdmitTelegram
<1> QED
    BY <1>1, <1>4, <1>5, <1>6, <1>7, <1>8, <1>9, <1>10, <1>11, <1>12, <1>13 DEF Kinds

\* The invariant is kept by every step of a receiver's life.
LEMMA KindsStep ==
    ASSUME KindsInv, [KindsNext]_kindsVars
    PROVE  KindsInv'
<1>1. CASE UNCHANGED kindsVars
  <2>1. UNCHANGED <<resource, config, options, path, phase, kept, handed, receiver>>
      BY <1>1 DEF kindsVars
  <2> QED
      BY <2>1 DEF KindsInv
<1>2. CASE AdmitResource
  <2>1. /\ phase = "written" /\ UNCHANGED <<resource, config, options, path, kept, handed, receiver>>
        /\ phase' \in {"admitted", "rejected"}
        /\ (path = "cr" /\ phase' = "admitted") => validateReceiver(resource) = "ok"
      BY <1>2 DEF AdmitResource, Same
  <2> QED
      BY <2>1 DEF KindsInv
<1>3. CASE Build
  <2>1. /\ phase = "admitted" /\ UNCHANGED <<resource, config, options, path, handed, receiver>>
        /\ phase' \in {"unbuilt", "stored"} /\ (phase' = "stored" => kept' = Built(resource))
      BY <1>3, BuiltFields DEF Build, Same, KindsInv
  <2> QED
      BY <2>1 DEF KindsInv
<1>4. CASE Lookup
  <2>1. /\ phase = "stored" /\ path = "cr" /\ phase' = "selected" /\ kept = Built(resource)
        /\ UNCHANGED <<resource, config, options, path, kept>>
      BY <1>4 DEF Lookup, Same, KindsInv
  <2>2. receiver' = Matched(Built(resource), config) /\ handed' = "copy"
      BY <1>4, <2>1, CopyIsEqual DEF Lookup
  <2> QED
      BY <2>1, <2>2 DEF KindsInv
<1>5. CASE Generate
  <2>1. /\ phase = "stored" /\ path = "api" /\ kept = Built(resource)
        /\ UNCHANGED <<resource, config, options, path, kept>>
        /\ phase' \in {"panicked", "selected", "rejected"}
        /\ receiver' = Matched(Built(resource), config) /\ (phase' = "selected" => Validate(receiver'))
      BY <1>5 DEF Generate, Same, KindsInv
  <2> QED
      BY <2>1 DEF KindsInv
<1>6. CASE Open
  <2>1. /\ phase = "selected" /\ UNCHANGED <<resource, config, options, path, handed>>
      BY <1>6 DEF Open, Same
  <2>2. CASE phase' = "ignored"
      BY <2>1, <2>2 DEF KindsInv
  <2>3. CASE /\ phase' = "open" /\ receiver' = Settings(receiver, options)
             /\ kept' = IF handed = "same" THEN receiver' ELSE kept
    <3>1. /\ receiver = Matched(Built(resource), config) /\ (path = "api" => Validate(receiver))
          /\ (path = "cr" => kept' = kept /\ kept = Built(resource))
        BY <2>1, <2>3 DEF KindsInv
    <3> QED
        BY <2>1, <2>3, <3>1 DEF KindsInv
  <2> QED
      BY <1>6, <2>2, <2>3 DEF Open
<1>7. CASE Reconfigure
    BY <1>7 DEF Reconfigure, Same, KindsInv
<1> QED
    BY <1>1, <1>2, <1>3, <1>4, <1>5, <1>6, <1>7 DEF KindsNext

\* A receiver of any kind goes from its resource to a notifier as KindsInv says: what
\* admission let in, what the controller keeps of it, and what New is given.
THEOREM KindsInvariant == KindsSpec => []KindsInv
<1>1. KindsInit => KindsInv
    BY DEF KindsInit, KindsInv
<1> QED
    BY <1>1, KindsStep, PTL DEF KindsSpec

\* The receiver of a lookup or of the API, in fields.
LEMMA MatchedLike ==
    ASSUME NEW s \in Resources, NEW c
    PROVE  LET r == Matched(Built(s), c)
           IN  /\ r.kind = s.kind /\ r.template = s.template /\ r.direct = s.direct /\ r.detail = s.detail
               /\ r.bot = Built(s).bot /\ r.cred = Built(s).cred /\ r.type = Built(s).type
<1>1. PICK g : Matched(Built(s), c) = SetConfig(Built(s), g)
    BY MatchedFields
<1>2. PICK l, y, b, d : Built(s) = Rec(s.kind, s.template, l, y, b, d, s.direct, s.detail, Nil)
    BY BuiltIsRec
<1>3. PICK r : r = Matched(Built(s), c)
    OBVIOUS
<1>4. r = Rec(s.kind, s.template, l, y, b, d, s.direct, s.detail, g)
    BY SMTT(30), <1>1, <1>2, <1>3, ConfigAssigned
<1>5. /\ r.kind = s.kind /\ r.template = s.template /\ r.direct = s.direct /\ r.detail = s.detail
      /\ r.bot = b /\ r.cred = d /\ r.type = y
    BY SMTT(30), <1>4, RecFields
<1>6. Built(s).bot = b /\ Built(s).cred = d /\ Built(s).type = y
    BY SMTT(30), <1>2, RecFields
<1> QED
    BY <1>3, <1>5, <1>6

\* A kind with message types keeps the one of the resource, the others have none.
LEMMA BuiltType ==
    ASSUME NEW s \in Resources
    PROVE  /\ s.kind \in TypedKinds \cup {"discord"} => Built(s).type = s.type
           /\ validateReceiver(s) = "ok" => FitsKind(s.kind, Built(s).type)
<1>1. s.kind \in TypedKinds \cup {"discord"} => Built(s).type = s.type
    BY DEF Built, TypedKinds
<1>2. s.kind \notin TypedKinds \cup {"discord"} => \A y : FitsKind(s.kind, y)
    BY DEF FitsKind, TypedKinds
<1> QED
    BY <1>1, <1>2, Admitted

\* What admission or the verify API accepts reaches a notifier that can send it, with
\* the settings that take precedence now: for every resource, config and options.
THEOREM AcceptedReceiversAreUsable == KindsSpec => []AcceptedIsUsable
<1> SUFFICES ASSUME KindsInv PROVE AcceptedIsUsable
    BY KindsInvariant, PTL
<1>1. resource \in Resources /\ options \in Options
    BY DEF KindsInv
<1>2. PICK s, o : s = resource /\ o = options /\ s \in Resources /\ o \in Options
    BY <1>1
<1>3. PICK r : r = Matched(Built(s), config)
    OBVIOUS
<1>4. /\ r.kind = s.kind /\ r.template = s.template /\ r.direct = s.direct /\ r.detail = s.detail
      /\ r.bot = Built(s).bot /\ r.cred = Built(s).cred /\ r.type = Built(s).type
    BY <1>2, <1>3, MatchedLike
<1>5. phase = "selected" => receiver = r
    BY <1>2, <1>3 DEF KindsInv
<1>6. phase = "open" => Chosen(r, o, receiver) /\ (path = "api" => Validate(r))
  <2>1. PICK g : r = SetConfig(Built(s), g)
      BY <1>3, MatchedFields
  <2>2. Chosen(r, o, Settings(r, o))
      BY <1>2, <2>1, SettingsChosen
  <2> QED
      BY <1>2, <1>3, <2>2 DEF KindsInv
<1>7. s.kind \in Kinds /\ s.template \in {Nil, "own"}
    BY SMTT(30), <1>2, KindConstants DEF ResourceType
<1>8. /\ Nil \notin {"own", "channel", "global", "default", "text", "markdown", "html", "post", "interactive",
                     "embed", "other"}
    BY SMT, KindConstants
<1>9. AdmittedIsValid
  <2> SUFFICES ASSUME path = "cr", phase \in {"selected", "open"}, ~OnlyValidateSees(receiver),
                      receiver.config # Nil \/ receiver.kind \in {"webhook", "discord"} \/ ~receiver.direct
               PROVE  Validate(receiver)
      BY DEF AdmittedIsValid
  <2>1. validateReceiver(s) = "ok"
      BY <1>2 DEF KindsInv
  <2>2. FitsKind(r.kind, r.type)
      BY <1>2, <1>4, <2>1, BuiltType
  <2>3. /\ receiver.kind = s.kind /\ receiver.direct = s.direct /\ receiver.detail = s.detail
        /\ receiver.bot = Built(s).bot /\ receiver.cred = Built(s).cred
      BY <1>4, <1>5, <1>6 DEF Chosen
  <2>4. FitsKind(receiver.kind, receiver.type)
    <3>1. CASE phase = "selected"
        BY <1>5, <2>2, <3>1
    <3>2. CASE phase = "open"
        BY <1>2, <1>4, <1>6, <2>2, <3>2, ChosenFits
    <3> QED
        BY <3>1, <3>2
  <2> QED
      BY <1>2, <2>1, <2>3, <2>4, AdmittedValidates
<1>10. VerifiedComposes
  <2> SUFFICES ASSUME phase = "open", path = "api"
               PROVE  Composes(receiver.kind, receiver.type) /\ receiver.template # Nil
      BY DEF VerifiedComposes
  <2>1. Chosen(r, o, receiver) /\ Validate(r)
      BY <1>6
  <2>2. receiver.kind = s.kind
      BY <1>4, <2>1 DEF Chosen
  <2>3. CASE s.kind \in TypedKinds
    <3>1. receiver.type \in TypesOf(s.kind)
      <4>1. r.type = Nil \/ r.type \in TypesOf(s.kind)
        <5>1. CASE s.kind = "dingtalk"
            BY SMTT(30), <1>4, <2>1, <5>1 DEF Validate, DingTalkValid, TypesOf
        <5>2. CASE s.kind = "email"
            BY SMTT(30), <1>4, <2>1, <5>2 DEF Validate, EmailValid, TypesOf
        <5>3. CASE s.kind = "wechat"
            BY SMTT(30), <1>4, <2>1, <5>3 DEF Validate, WechatValid, TypesOf
        <5>4. CASE s.kind = "feishu"
            BY SMTT(30), <1>4, <2>1, <5>4 DEF Validate, FeishuValid, TypesOf
        <5> QED
            BY <2>3, <5>1, <5>2, <5>3, <5>4 DEF TypedKinds
      <4>2. o.type = Nil \/ o.type \in TypesOf(s.kind)
        <5>1. o.type # Nil => Composes(s.kind, o.type) /\ (s.kind = "email" => o.type \in {"text", "html"})
            BY <1>2, OptionConstants
        <5> QED
            BY SMT, <2>3, <5>1 DEF Composes, TypesOf, TypedKinds
      <4>3. TypeOf(s.kind) \in TypesOf(s.kind)
          BY SMT, <2>3 DEF TypeOf, TypesOf, TypedKinds
      <4> QED
          BY <1>4, <2>1, <2>3, <4>1, <4>2, <4>3 DEF Chosen
    <3>2. Composes(s.kind, receiver.type)
        BY SMTT(30), <2>3, <3>1 DEF Composes, TypesOf, TypedKinds
    <3>3. receiver.type # Nil
        BY SMTT(30), <1>8, <2>3, <3>1 DEF TypesOf, TypedKinds
    <3>4. receiver.template # Nil
        BY <1>4, <1>8, <2>1, <2>3, <3>1, <3>3 DEF Chosen, TemplateName
    <3> QED
        BY <2>2, <3>2, <3>4
  <2>4. CASE s.kind \notin TypedKinds
    <3>1. Composes(s.kind, receiver.type)
        BY SMT, <2>4 DEF Composes, TypedKinds
    <3>2. receiver.template # Nil
        BY <1>4, <1>8, <2>1, <2>4 DEF Chosen, TemplateName
    <3> QED
        BY <2>2, <3>1, <3>2
  <2> QED
      BY <2>3, <2>4
<1>11. SettingsArePreferred
  <2> SUFFICES ASSUME phase = "open"
               PROVE  /\ s.template # Nil => receiver.template = "own"
                      /\ s.template = Nil =>
                            /\ o.template # Nil => receiver.template = "channel"
                            /\ o.template = Nil /\ o.global # Nil => receiver.template = "global"
                      /\ receiver.kind \in TypedKinds =>
                            /\ s.type # Nil => receiver.type = s.type
                            /\ s.type = Nil /\ o.type # Nil => receiver.type = o.type
                            /\ receiver.template \in {"text", "markdown", "html", "post", "interactive"} =>
                                  receiver.template = receiver.type
      BY <1>2 DEF SettingsArePreferred, TypedKinds
  <2>1. Chosen(r, o, receiver)
      BY <1>6
  <2>2. receiver.kind = s.kind
      BY <1>4, <2>1 DEF Chosen
  <2>3. s.template # Nil => receiver.template = "own"
      BY <1>4, <1>7, <2>1 DEF Chosen
  <2>4. s.template = Nil =>
            /\ o.template # Nil => receiver.template = "channel"
            /\ o.template = Nil /\ o.global # Nil => receiver.template = "global"
      BY <1>4, <2>1 DEF Chosen, TemplateName
  <2>5. ASSUME s.kind \in TypedKinds
        PROVE  /\ s.type # Nil => receiver.type = s.type
               /\ s.type = Nil /\ o.type # Nil => receiver.type = o.type
               /\ receiver.template \in {"text", "markdown", "html", "post", "interactive"} =>
                     receiver.template = receiver.type
    <3>1. r.type = s.type
        BY <1>2, <1>4, <2>5, BuiltType
    <3>2. /\ s.type # Nil => receiver.type = s.type
          /\ s.type = Nil /\ o.type # Nil => receiver.type = o.type
        BY <1>4, <2>1, <2>5, <3>1 DEF Chosen
    <3>3. receiver.template \in {"own", "channel", "global", receiver.type, Nil}
        BY ZenonT(30), <1>4, <1>7, <2>1, <2>5 DEF Chosen, TemplateName
    <3>4. receiver.template \in {"text", "markdown", "html", "post", "interactive"} => receiver.template = receiver.type
        BY SMTT(30), <1>8, <3>3
    <3> QED
        BY <3>2, <3>4
  <2> QED
      BY <2>2, <2>3, <2>4, <2>5
<1> QED
    BY <1>9, <1>10, <1>11 DEF AcceptedIsUsable

-----------------------------------------------------------------------------
(***************************************************************************)
(* PipelineStages: every receiver that routing chooses has one packet, of  *)
(* the alerts that no silence, router or selector keeps from it.           *)
(***************************************************************************)
\* What the stages have made of the input when they are done with it: the alerts
\* that no global silence covers, those that routing gives r, and those of them
\* that neither a silence of its tenant nor its selector keeps back.
Hashes(rs) == {r.hash : r \in rs}
Unmuted == {a \in input : ~\E s \in SilencesOf(Global) : Matches(s, a.labels) = TRUE}
ForReceiver(r) == {a \in Unmuted : r.hash \in Hashes(Routed(a))}
Wanted(r) ==
    IF r.selector = Nil THEN mute(ForReceiver(r), r)
    ELSE {a \in mute(ForReceiver(r), r) : Matches(r.selector, a.labels) = TRUE}

Grouped(alerts) ==
    {Format(k, {a \in alerts : labelToGroupKey(a) = k}) : k \in {labelToGroupKey(a) : a \in alerts}}

\* The receivers that have a packet: one for each hash that routing names.
Addressed(rs) ==
    /\ \A a \in Unmuted : Hashes(Routed(a)) \subseteq Hashes(rs)
    /\ \A r \in rs : \E a \in Unmuted : r \in Routed(a)
    /\ \A q, r \in rs : q.hash = r.hash => q = r

\* The inductive invariant: what each stage hands to the next.
StagesInv ==
    /\ world \in Worlds
    /\ stage \in {"silence", "route", "filter", "aggregate", "notify", "nothing", "failed"}
    /\ stage = "silence" => data = input
    /\ stage = "route" => data = Unmuted
    /\ stage \in {"filter", "aggregate", "notify"} => DOMAIN data \subseteq Receivers /\ Addressed(DOMAIN data)
    /\ stage = "nothing" => Addressed({})
    /\ stage = "filter" => \A r \in DOMAIN data : data[r] = ForReceiver(r)
    /\ stage = "aggregate" => \A r \in DOMAIN data : data[r] = Wanted(r)
    /\ stage = "notify" => \A r \in DOMAIN data : data[r] = Grouped(Wanted(r))
    /\ stage = "failed" => ~Sound

\* Matches decides without an error on a selector that Validate accepts.
LEMMA ValidDecides ==
    ASSUME NEW s, ValidSelector(s), NEW l
    PROVE  Matches(s, l) \in BOOLEAN /\ Matches(s, l) # Bad
<1>1. ASSUME NEW i \in FirstMiss(s, l) PROVE s.exprs[i].values # Bad
    BY <1>1 DEF FirstMiss, Misses, Regular, ValidSelector, Range
<1>2. ASSUME NEW e \in Range(s.exprs), ~Regular(e) PROVE Convertible(e)
    BY <1>2 DEF ValidSelector
<1>3. Matches(s, l) \in BOOLEAN
    BY <1>1, <1>2 DEF Matches
<1> QED
    BY <1>3, StageConstants

\* Routing gives an alert to receivers that the controller has.
LEMMA RoutedAreReceivers ==
    ASSUME world \in Worlds, NEW a
    PROVE  Routed(a) \subseteq Receivers
BY StageConstants DEF Routed, rcvsFromRouter, RcvsFromNs

\* Every selector of a silence, of a router and of a receiver is among Selectors.
LEMMA AllSelectors ==
    /\ \A t : \A s \in SilencesOf(t) : s \in Selectors
    /\ \A t \in world.routers : t.selector \in Selectors
    /\ \A r \in Receivers : r.selector # Nil => r.selector \in Selectors
BY DEF Selectors, SilencesOf

\* silenceStage: alerts that no global silence covers go on; an error is due to a
\* broken selector.
LEMMA SilenceStep ==
    ASSUME StagesInv, SilenceStage
    PROVE  StagesInv'
<1>1. stage = "silence" /\ data = input /\ world \in Worlds
    BY DEF StagesInv, SilenceStage
<1>2. ASSUME NEW a \in data, \E s \in SilencesOf(Global) : Matches(s, a.labels) = Bad, Fail PROVE StagesInv'
  <2>1. ~Sound
      BY <1>2, AllSelectors, ValidDecides DEF Sound
  <2>2. stage' = "failed" /\ UNCHANGED <<data, world, input>>
      BY <1>2 DEF Fail
  <2> QED
      BY <1>1, <2>1, <2>2 DEF StagesInv, Sound, Selectors
<1>3. ASSUME IF Unmuted = {} THEN Stop ELSE Continue("route", Unmuted) PROVE StagesInv'
  <2>1. /\ UNCHANGED <<world, input>>
        /\ (stage' = "nothing" /\ Unmuted = {}) \/ (stage' = "route" /\ data' = Unmuted)
        /\ Unmuted' = Unmuted
      BY <1>3 DEF Continue, Stop, Unmuted, SilencesOf
  <2> QED
      BY <1>1, <2>1 DEF StagesInv, Addressed
<1> QED
    BY <1>1, <1>2, <1>3 DEF SilenceStage, Unmuted

\* What the stages make of a batch depends on the batch and on the world only.
LEMMA StagesSame ==
    ASSUME UNCHANGED <<world, input>>
    PROVE  /\ Unmuted' = Unmuted
           /\ \A rs : Addressed(rs)' <=> Addressed(rs)
           /\ \A r : /\ ForReceiver(r)' = ForReceiver(r)
                     /\ Wanted(r)' = Wanted(r)
                     /\ Grouped(Wanted(r))' = Grouped(Wanted(r))
<1>1. world' = world /\ input' = input
    OBVIOUS
<1>2. \A t : SilencesOf(t)' = SilencesOf(t)
    BY <1>1 DEF SilencesOf
<1>3. Unmuted' = Unmuted
    BY <1>1, <1>2 DEF Unmuted
<1>4. \A a : Routed(a)' = Routed(a)
    BY <1>1 DEF Routed, rcvsFromRouter, RcvsFromNs, Key
<1>8. ASSUME NEW CONSTANT rs PROVE Addressed(rs)' <=> Addressed(rs)
    BY <1>3, <1>4 DEF Addressed
<1>5. ASSUME NEW CONSTANT r PROVE ForReceiver(r)' = ForReceiver(r)
    BY <1>3, <1>4 DEF ForReceiver
<1>6. ASSUME NEW CONSTANT r PROVE Wanted(r)' = Wanted(r)
  <2>1. mute(ForReceiver(r), r)' = mute(ForReceiver(r), r)
      BY <1>2, <1>5 DEF mute
  <2> QED
      BY <2>1 DEF Wanted
<1>7. ASSUME NEW CONSTANT r PROVE Grouped(Wanted(r))' = Grouped(Wanted(r))
  <2>1. PICK w : w = Wanted(r) /\ w = Wanted(r)'
      BY <1>6
  <2>2. PICK g : g = world.groupBy /\ g = world'.groupBy
      BY <1>1
  <2>3. Grouped(Wanted(r)) = {Format(k, {a \in w : Restrict(a.labels, g) = k}) : k \in {Restrict(a.labels, g) : a \in w}}
      BY <2>1, <2>2 DEF Grouped, labelToGroupKey
  <2>4. Grouped(Wanted(r))' = {Format(k, {a \in w : Restrict(a.labels, g) = k}) : k \in {Restrict(a.labels, g) : a \in w}}
      BY <2>1, <2>2 DEF Grouped, labelToGroupKey
  <2> QED
      BY <2>3, <2>4
<1> QED
    BY <1>3, <1>5, <1>6, <1>7, <1>8

\* routeStage: a packet for a receiver of every hash that routing names.
LEMMA RouteStep ==
    ASSUME StagesInv, RouteStage
    PROVE  StagesInv'
<1>1. stage = "route" /\ data = Unmuted /\ world \in Worlds
    BY DEF StagesInv, RouteStage
<1>2. PICK used : used = UNION {Hashes(Routed(a)) : a \in Unmuted}
    OBVIOUS
<1>3. CASE used = {} /\ Stop
  <2>1. UNCHANGED <<world, input>> /\ stage' = "nothing"
      BY <1>3 DEF Stop
  <2>2. Addressed({})
      BY <1>2, <1>3 DEF Addressed
  <2>3. Addressed({})'
      BY <2>1, <2>2, StagesSame
  <2> QED
      BY <1>1, <2>1, <2>3 DEF StagesInv
<1>4. ASSUME NEW pick \in [used -> UNION {Routed(a) : a \in Unmuted}], \A h \in used : pick[h].hash = h,
             Continue("filter", [r \in Range(pick) |-> {a \in Unmuted : r.hash \in Hashes(Routed(a))}])
      PROVE  StagesInv'
  <2>1. PICK rs : rs = Range(pick)
      OBVIOUS
  <2>2. /\ \A r \in rs : r.hash \in used /\ r = pick[r.hash]
        /\ \A h \in used : \E r \in rs : r.hash = h
        /\ \A r \in rs : \E a \in Unmuted : r \in Routed(a)
    <3>1. DOMAIN pick = used /\ \A h \in used : pick[h] \in UNION {Routed(a) : a \in Unmuted}
        BY ZenonT(30), <1>4
    <3>2. rs = {pick[h] : h \in used}
        BY <2>1, <3>1 DEF Range
    <3>3. ASSUME NEW r \in rs
          PROVE  r.hash \in used /\ r = pick[r.hash] /\ \E a \in Unmuted : r \in Routed(a)
      <4>1. PICK h \in used : r = pick[h]
          BY <3>2
      <4>2. r.hash = h
          BY <1>4, <4>1
      <4>3. \E a \in Unmuted : r \in Routed(a)
          BY <3>1, <4>1
      <4> QED
          BY <4>1, <4>2, <4>3
    <3>4. ASSUME NEW h \in used PROVE \E r \in rs : r.hash = h
      <4>1. pick[h] \in rs /\ pick[h].hash = h
          BY <1>4, <3>2
      <4> QED
          BY <4>1
    <3> QED
        BY <3>3, <3>4
  <2>3. rs \subseteq Receivers
      BY <1>1, <2>2, RoutedAreReceivers
  <2>4. Addressed(rs)
    <3>1. ASSUME NEW a \in Unmuted PROVE Hashes(Routed(a)) \subseteq Hashes(rs)
        BY <1>2, <2>2 DEF Hashes
    <3> QED
        BY <2>2, <3>1 DEF Addressed
  <2>5. UNCHANGED <<world, input>> /\ stage' = "filter"
      BY <1>4 DEF Continue
  <2>6. /\ DOMAIN data' = rs
        /\ \A r \in rs : data'[r] = ForReceiver(r)
      BY <1>4, <2>1 DEF Continue, ForReceiver
  <2>7. Addressed(rs)' /\ \A r \in DOMAIN data' : data'[r] = ForReceiver(r)'
      BY <2>4, <2>5, <2>6, StagesSame
  <2> QED
      BY <1>1, <2>3, <2>5, <2>6, <2>7 DEF StagesInv
<1>5. IF used = {} THEN Stop
      ELSE \E pick \in {f \in [used -> UNION {Routed(a) : a \in Unmuted}] : \A h \in used : f[h].hash = h} :
             Continue("filter", [r \in Range(pick) |-> {a \in Unmuted : r.hash \in Hashes(Routed(a))}])
  <2> DEFINE picks(u, d) == {f \in [u -> UNION {Routed(a) : a \in d}] : \A h \in u : f[h].hash = h}
             packets(pick, d) == [r \in Range(pick) |-> {a \in d : r.hash \in Hashes(Routed(a))}]
             hashes(d) == UNION {Hashes(Routed(a)) : a \in d}
  <2>1. IF hashes(data) = {} THEN Stop
        ELSE \E pick \in picks(hashes(data), data) : Continue("filter", packets(pick, data))
      BY DEF RouteStage, Hashes
  <2>2. hashes(data) = used
      BY <1>1, <1>2
  <2> HIDE DEF picks, packets, hashes
  <2>3. IF used = {} THEN Stop ELSE \E pick \in picks(used, Unmuted) : Continue("filter", packets(pick, Unmuted))
      BY <1>1, <2>1, <2>2
  <2> QED
      BY <2>3 DEF picks, packets
<1> QED
    BY <1>3, <1>4, <1>5

\* filterStage: a receiver keeps what is wanted; an error is due to its selector.
LEMMA FilterStep ==
    ASSUME StagesInv, FilterStage
    PROVE  StagesInv'
<1>1. /\ stage = "filter" /\ world \in Worlds /\ DOMAIN data \subseteq Receivers /\ Addressed(DOMAIN data)
      /\ \A r \in DOMAIN data : data[r] = ForReceiver(r)
    BY DEF StagesInv, FilterStage
<1>2. ASSUME NEW r \in DOMAIN data, NEW a, r.selector # Nil, Matches(r.selector, a.labels) = Bad, Fail
      PROVE  StagesInv'
  <2>1. ~Sound
      BY <1>1, <1>2, AllSelectors, ValidDecides DEF Sound
  <2>2. stage' = "failed" /\ UNCHANGED <<data, world, input>>
      BY <1>2 DEF Fail
  <2> QED
      BY <1>1, <2>1, <2>2 DEF StagesInv, Sound, Selectors
<1>3. CASE Continue("aggregate", [r \in DOMAIN data |-> Filtered(r)])
  <2>1. UNCHANGED <<world, input>> /\ stage' = "aggregate"
      BY <1>3 DEF Continue
  <2>2. /\ DOMAIN data' = DOMAIN data
        /\ \A r \in DOMAIN data : data'[r] = Wanted(r)
      BY <1>1, <1>3 DEF Continue, Filtered, Wanted
  <2>3. \A r : Wanted(r)' = Wanted(r)
      BY <2>1, StagesSame
  <2>4. \A r \in DOMAIN data' : data'[r] = Wanted(r)'
      BY <2>2, <2>3
  <2>5. Addressed(DOMAIN data)'
    <3>1. PICK rs : rs = DOMAIN data
        OBVIOUS
    <3> QED
        BY <1>1, <2>1, <2>2, <3>1, StagesSame
  <2> QED
      BY <1>1, <2>1, <2>2, <2>4, <2>5 DEF StagesInv
<1> QED
    BY <1>2, <1>3 DEF FilterStage

\* aggregationStage: what is wanted, in groups.
LEMMA AggregationStep ==
    ASSUME StagesInv, AggregationStage
    PROVE  StagesInv'
<1>1. /\ stage = "aggregate" /\ world \in Worlds /\ DOMAIN data \subseteq Receivers /\ Addressed(DOMAIN data)
      /\ \A r \in DOMAIN data : data[r] = Wanted(r)
    BY DEF StagesInv, AggregationStage
<1>2. UNCHANGED <<world, input>> /\ stage' = "notify"
    BY DEF AggregationStage, Continue
<1>3. /\ DOMAIN data' = DOMAIN data
      /\ \A r \in DOMAIN data : data'[r] = Grouped(Wanted(r))
    BY <1>1 DEF AggregationStage, Continue, Grouped
<1>6. \A r : Grouped(Wanted(r))' = Grouped(Wanted(r))
    BY <1>2, StagesSame
<1>7. \A r \in DOMAIN data' : data'[r] = Grouped(Wanted(r))'
    BY <1>3, <1>6
<1>8. Addressed(DOMAIN data)'
  <2>1. PICK rs : rs = DOMAIN data
      OBVIOUS
  <2> QED
      BY <1>1, <1>2, <1>3, <2>1, StagesSame
<1> QED
    BY <1>1, <1>2, <1>3, <1>7, <1>8 DEF StagesInv

\* A batch goes through the stages of MultiStage.Exec as StagesInv says, and stops
\* on nothing to send or on the selector of somebody that is broken.
THEOREM StagesInvariant == StagesSpec => []StagesInv
<1>1. StagesInit => StagesInv
    BY DEF StagesInit, StagesInv
<1>2. StagesInv /\ [StagesNext]_stagesVars => StagesInv'
  <2> SUFFICES ASSUME StagesInv, [StagesNext]_stagesVars PROVE StagesInv'
      OBVIOUS
  <2>1. CASE UNCHANGED stagesVars
    <3>1. UNCHANGED <<world, input, stage, data>>
        BY <2>1 DEF stagesVars
    <3>2. PICK rs : rs = DOMAIN data /\ rs = DOMAIN data'
        BY <3>1
    <3> QED
        BY <3>1, <3>2, StagesSame DEF StagesInv, Sound, Selectors
  <2> QED
      BY <2>1, SilenceStep, RouteStep, FilterStep, AggregationStep DEF StagesNext
<1> QED
    BY <1>1, <1>2, PTL DEF StagesSpec

\* With valid selectors, whom routing gives an alert: by a router that matches, or,
\* as the policy has it, by the tenants of its namespace.
LEMMA RoutedIsRight ==
    ASSUME world \in Worlds, Sound, NEW a, NEW r \in Receivers
    PROVE  r \in Routed(a) <=> Chooses(r, a)
<1> DEFINE fits(t) == Matches(t.selector, a.labels)
           ofTenants == r.tenant = Global \/ (a.labels["level"] = "namespace" /\ a.labels["namespace"] # ""
                                                /\ r.tenant \in world.access[a.labels["namespace"]])
           some == \E t \in world.routers : fits(t) /\ t.receivers # {}
           routed == \E t \in world.routers : fits(t) /\ r \in t.receivers
<1>1. \A t \in world.routers : fits(t) \in BOOLEAN
    BY AllSelectors, ValidDecides DEF Sound
<1>2. r \in RcvsFromNs(Key(a)) <=> ofTenants
    BY DEF RcvsFromNs, Key
<1>3. \A x : x \in rcvsFromRouter(a) <=> \E t \in world.routers : fits(t) /\ x \in t.receivers
    BY <1>1 DEF rcvsFromRouter
<1>4. (rcvsFromRouter(a) # {} <=> some) /\ (r \in rcvsFromRouter(a) <=> routed)
    BY <1>3
<1>5. world.policy \in {"All", "RouterFirst", "RouterOnly"}
    BY StageConstants
<1>6. Chooses(r, a) <=>
        routed \/ ((world.policy = "All" \/ (world.policy = "RouterFirst" /\ ~some)) /\ ofTenants)
    BY DEF Chooses
<1>7. r \in Routed(a) <=>
         \/ r \in rcvsFromRouter(a)
         \/ /\ ~(world.policy = "RouterFirst" /\ rcvsFromRouter(a) # {})
            /\ world.policy # "RouterOnly" /\ r \in RcvsFromNs(Key(a))
    BY DEF Routed
<1> HIDE DEF ofTenants, some, routed
<1>8. "All" # "RouterFirst" /\ "All" # "RouterOnly" /\ "RouterFirst" # "RouterOnly"
    OBVIOUS
<1> QED
    BY <1>2, <1>4, <1>5, <1>6, <1>7, <1>8

\* Groups hold what is grouped, each alert in the group of its own values.
LEMMA GroupsAreRight ==
    ASSUME NEW alerts
    PROVE  /\ \A a : (\E d \in Grouped(alerts) : a \in d.alerts) <=> a \in alerts
           /\ \A d, e \in Grouped(alerts) : d # e => d.alerts \cap e.alerts = {}
           /\ \A d \in Grouped(alerts) : \A a \in d.alerts :
                 /\ \A k \in world.groupBy :
                       a.labels[k] = IF k \in DOMAIN d.group THEN d.group[k] ELSE ""
                 /\ \A k \in DOMAIN d.common : a.labels[k] = d.common[k]
<1>1. ASSUME NEW d \in Grouped(alerts)
      PROVE  \E k : /\ d = Format(k, {a \in alerts : labelToGroupKey(a) = k})
                    /\ d.alerts = {a \in alerts : labelToGroupKey(a) = k}
                    /\ d.group = groupKeyToLabel(k) /\ d.common = CommonLabels(d.alerts)
    BY SMTT(30) DEF Grouped, Format
<1>2. ASSUME NEW a \in alerts PROVE \E d \in Grouped(alerts) : a \in d.alerts
  <2>1. Format(labelToGroupKey(a), {x \in alerts : labelToGroupKey(x) = labelToGroupKey(a)}) \in Grouped(alerts)
      BY DEF Grouped
  <2> QED
      BY SMT, <2>1 DEF Format
<1>3. ASSUME NEW d \in Grouped(alerts), NEW e \in Grouped(alerts), d # e PROVE d.alerts \cap e.alerts = {}
  <2>1. PICK k : /\ d = Format(k, {a \in alerts : labelToGroupKey(a) = k})
                 /\ d.alerts = {a \in alerts : labelToGroupKey(a) = k}
      BY <1>1
  <2>2. PICK l : /\ e = Format(l, {a \in alerts : labelToGroupKey(a) = l})
                 /\ e.alerts = {a \in alerts : labelToGroupKey(a) = l}
      BY <1>1
  <2> QED
      BY <1>3, <2>1, <2>2
<1>4. ASSUME NEW d \in Grouped(alerts), NEW a \in d.alerts
      PROVE  /\ \A k \in world.groupBy : a.labels[k] = IF k \in DOMAIN d.group THEN d.group[k] ELSE ""
             /\ \A k \in DOMAIN d.common : a.labels[k] = d.common[k]
  <2>1. d.group = groupKeyToLabel(labelToGroupKey(a)) /\ d.common = CommonLabels(d.alerts)
      BY <1>1, <1>4
  <2>2. \A k \in world.groupBy : a.labels[k] = IF k \in DOMAIN d.group THEN d.group[k] ELSE ""
      BY <2>1 DEF groupKeyToLabel, labelToGroupKey, Restrict
  <2>3. \A k \in DOMAIN d.common : a.labels[k] = d.common[k]
    <3>1. PICK one : one = CHOOSE x \in d.alerts : TRUE
        OBVIOUS
    <3>2. d.common = CommonLabels(d.alerts)
        BY <2>1
    <3>3. CommonLabels(d.alerts) = [k \in {k \in DOMAIN one.labels : one.labels[k] # "" /\ \A x \in d.alerts : x.labels[k] = one.labels[k]}
                        |-> one.labels[k]]
        BY <3>1 DEF CommonLabels, Restrict
    <3> QED
        BY <1>4, <3>2, <3>3
  <2> QED
      BY <2>2, <2>3
<1>5. \A a : (\E d \in Grouped(alerts) : a \in d.alerts) <=> a \in alerts
  <2>1. ASSUME NEW a, NEW d \in Grouped(alerts), a \in d.alerts PROVE a \in alerts
      BY <1>1, <2>1
  <2> QED
      BY <1>2, <2>1
<1>6. \A d, e \in Grouped(alerts) : d # e => d.alerts \cap e.alerts = {}
    BY <1>3
<1>7. \A d \in Grouped(alerts) : \A a \in d.alerts :
         /\ \A k \in world.groupBy : a.labels[k] = IF k \in DOMAIN d.group THEN d.group[k] ELSE ""
         /\ \A k \in DOMAIN d.common : a.labels[k] = d.common[k]
    BY <1>4
<1> QED
    BY <1>5, <1>6, <1>7

\* Silences, routers, tenants, selectors and groups notify everyone they should, in
\* one packet and of what they should, for any batch of alerts and any of them.
THEOREM StagesNotifyTheRight == StagesSpec => []StagesAreRight
<1> SUFFICES ASSUME StagesInv PROVE StagesAreRight
    BY StagesInvariant, PTL
<1>1. ValidatedNeverFails
    BY DEF StagesInv, ValidatedNeverFails
<1>2. GroupsPartition
  <2> SUFFICES ASSUME stage = "notify", NEW r \in DOMAIN data
               PROVE  /\ \A d, e \in data[r] : d # e => d.alerts \cap e.alerts = {}
                      /\ \A d \in data[r] : \A a \in d.alerts :
                            /\ \A k \in world.groupBy :
                                  a.labels[k] = IF k \in DOMAIN d.group THEN d.group[k] ELSE ""
                            /\ \A k \in DOMAIN d.common : a.labels[k] = d.common[k]
      BY DEF GroupsPartition
  <2>1. data[r] = Grouped(Wanted(r))
      BY DEF StagesInv
  <2> QED
    <3>1. PICK G : G = Grouped(Wanted(r))
        OBVIOUS
    <3>2. \A d, e \in G : d # e => d.alerts \cap e.alerts = {}
        BY <3>1, GroupsAreRight
    <3>3. \A d \in G : \A a \in d.alerts :
             /\ \A k \in world.groupBy : a.labels[k] = IF k \in DOMAIN d.group THEN d.group[k] ELSE ""
             /\ \A k \in DOMAIN d.common : a.labels[k] = d.common[k]
        BY <3>1, GroupsAreRight
    <3> QED
        BY <2>1, <3>1, <3>2, <3>3
<1>3. SentToTheRightReceivers
  <2> SUFFICES ASSUME stage \in {"notify", "nothing"}, Sound
               PROVE  SentToTheRightReceivers
      BY DEF SentToTheRightReceivers
  <2>0. world \in Worlds
      BY DEF StagesInv
  <2>1. /\ \A a, t : \A s \in SilencesOf(t) : Matches(s, a.labels) \in BOOLEAN
        /\ \A a : \A r \in Receivers : r.selector # Nil => Matches(r.selector, a.labels) \in BOOLEAN
      BY AllSelectors, ValidDecides DEF Sound
  <2>2. {a \in input : ~Silenced(a, Global)} = Unmuted
      BY <2>1 DEF Silenced, Unmuted
  <2>3. PICK notified : notified = IF stage = "notify" THEN DOMAIN data ELSE {}
      OBVIOUS
  <2>4. Addressed(notified) /\ notified \subseteq Receivers
      BY <2>3 DEF StagesInv
  <2>5. \A a, r : r \in Receivers => (r \in Routed(a) <=> Chooses(r, a))
      BY <2>0, RoutedIsRight
  <2>6. \A a \in Unmuted, r \in Receivers : Chooses(r, a) => \E q \in notified : q.hash = r.hash
    <3>1. ASSUME NEW a \in Unmuted, NEW r \in Receivers, Chooses(r, a) PROVE r.hash \in Hashes(notified)
        BY <2>4, <2>5, <3>1 DEF Addressed, Hashes
    <3> QED
        BY <3>1 DEF Hashes
  <2>7. \A q \in notified : \E a \in Unmuted : Chooses(q, a)
      BY <2>4, <2>5 DEF Addressed
  <2>8. \A q, r \in notified : q.hash = r.hash => q = r
      BY <2>4 DEF Addressed
  <2>9. ASSUME NEW q \in notified, NEW a \in input
        PROVE  Gets(q, a) <=>
                 /\ a \in Unmuted /\ ~Silenced(a, q.tenant)
                 /\ q.selector # Nil => Matches(q.selector, a.labels)
                 /\ \E r \in Receivers : r.hash = q.hash /\ Chooses(r, a)
    <3>1. q \in Receivers /\ q \in DOMAIN data /\ stage = "notify"
        BY <2>3, <2>4, <2>9
    <3>2. Gets(q, a) <=> a \in Wanted(q)
      <4>1. data[q] = Grouped(Wanted(q))
          BY <3>1 DEF StagesInv
      <4>2. (\E d \in Grouped(Wanted(q)) : a \in d.alerts) <=> a \in Wanted(q)
          BY GroupsAreRight
      <4> QED
          BY <4>1, <4>2 DEF Gets
    <3>3. q.hash \in Hashes(Routed(a)) <=> \E r \in Receivers : r.hash = q.hash /\ Chooses(r, a)
        BY <2>0, <2>5, RoutedAreReceivers DEF Hashes
    <3>4. \A s \in SilencesOf(q.tenant) : LabelMatchSelector(a.labels, s) <=> Matches(s, a.labels)
      <4>1. \A s \in SilencesOf(q.tenant) : s # Nil
          BY <2>0, StageConstants DEF SilencesOf
      <4> QED
          BY <2>1, <4>1 DEF LabelMatchSelector
    <3>5. a \in Wanted(q) <=> /\ a \in ForReceiver(q)
                              /\ ~\E s \in SilencesOf(q.tenant) : LabelMatchSelector(a.labels, s)
                              /\ q.selector # Nil => Matches(q.selector, a.labels)
        BY <2>1, <3>1 DEF Wanted, mute
    <3>6. a \in ForReceiver(q) <=> a \in Unmuted /\ q.hash \in Hashes(Routed(a))
        BY DEF ForReceiver
    <3>7. Silenced(a, q.tenant) <=> \E s \in SilencesOf(q.tenant) : LabelMatchSelector(a.labels, s)
        BY <3>4 DEF Silenced
    <3> QED
        BY <3>2, <3>3, <3>5, <3>6, <3>7
  <2> QED
      BY <2>2, <2>3, <2>6, <2>7, <2>8, <2>9 DEF SentToTheRightReceivers
<1> QED
    BY <1>1, <1>2, <1>3 DEF StagesAreRight
=============================================================================
