-------------------------- MODULE ConfigController --------------------------
(***************************************************************************)
(* The CR-backed controller of the notification manager                    *)
(* (pkg/controller/controller.go).  Informers keep a cache of the          *)
(* NotificationManager, Receiver and Config resources and hand their       *)
(* events, in order, to a channel; one goroutine runs the tasks of the     *)
(* channel and keeps the receivers and configs of each tenant.  A change   *)
(* of the manager starts a goroutine that lists the cache and feeds what   *)
(* it found to the same channel.  A resource is its version and labels,    *)
(* and has one channel.  An entry is the version it was made from, and     *)
(* discord.NewReceiver does not keep that number: the check of what is     *)
(* stale reads 0 there.                                                    *)
(***************************************************************************)
EXTENDS Absence, Naturals, Sequences, FiniteSets

CONSTANTS Objects,         \* pairs of "receivers" or "configs" and a name
          DiscordReceivers,  \* those of Objects that are of the Discord channel
          LabelSets,       \* sets of key-value pairs
          Specs,           \* of the manager: [tenantKey, global, tenant, default]
          Removable,       \* what may be deleted: "manager", "objects"
          MaxEdits,        \* edits of resources in all
          ChannelCapacity

VARIABLES manager, object,  \* the caches of the informers
          version,          \* the latest resource version
          events,           \* of each informer, not yet handed over
          ch,               \* tasks
          reloads,          \* reload goroutines: [id, need, todo]
          nmAdd, spec,      \* the controller: fields of the manager
          held              \* by kind: entries [tenant, name, version]

cached == <<manager, object, version>>
controller == <<nmAdd, spec, held>>
controllerVars == <<cached, events, ch, reloads, controller>>

Kinds == {"receivers", "configs"}
Pairs == UNION LabelSets
globalTenantID == "global"
defaultConfig == "default"
NoSpec == [tenantKey |-> "user", global |-> {}, tenant |-> {}, default |-> Nil]

ASSUME ControllerConstants ==
    /\ \A o \in Objects : o = <<o[1], o[2]>> /\ o[1] \in Kinds
    /\ \A s \in Specs : s.global \subseteq Pairs /\ s.tenant \subseteq Pairs
    /\ ChannelCapacity \in Nat \ {0}
    /\ Nil \notin [version : Nat, labels : LabelSets]

New ==
    /\ manager = Nil /\ object = [o \in Objects |-> Nil] /\ version = 0
    /\ events = [k \in Kinds \cup {"managers"} |-> <<>>] /\ ch = <<>> /\ reloads = {}
    /\ nmAdd = FALSE /\ spec = NoSpec /\ held = [k \in Kinds |-> {}]
-----------------------------------------------------------------------------
(***************************************************************************)
(* Tenants.                                                                *)
(***************************************************************************)
\* One matching label is enough, also of several.
isGlobal(labels) == spec.global \cap labels # {}

isTenant(labels) == spec.tenant \cap labels # {} /\ \E p \in labels : p[1] = spec.tenantKey

isDefaultConfig(labels) == spec.default # Nil /\ spec.default \subseteq labels

getTenantID(labels) ==
    IF isGlobal(labels) THEN globalTenantID
    ELSE IF isTenant(labels) THEN (CHOOSE p \in labels : p[1] = spec.tenantKey)[2]
    ELSE IF isDefaultConfig(labels) THEN defaultConfig ELSE ""
-----------------------------------------------------------------------------
(***************************************************************************)
(* The resources and their informers.                                      *)
(***************************************************************************)
Task(op, kind, name, obj) == [op |-> op, kind |-> kind, name |-> name, obj |-> obj]

EditManager ==
    /\ version < MaxEdits /\ version' = version + 1
    /\ \/ \E s \in Specs \ {manager} :
             /\ manager' = s
             /\ events' = [events EXCEPT !.managers = Append(@, Task("update", "managers", "nm", s))]
       \/ /\ "manager" \in Removable /\ manager # Nil /\ manager' = Nil
          /\ events' = [events EXCEPT !.managers = Append(@, Task("delete", "managers", "nm", manager))]
    /\ UNCHANGED <<object, ch, reloads, controller>>

EditObject(o) ==
    /\ version < MaxEdits /\ version' = version + 1
    /\ \/ \E l \in LabelSets :
             LET r == [version |-> version + 1, labels |-> l] IN
             /\ object' = [object EXCEPT ![o] = r]
             /\ events' = [events EXCEPT ![o[1]] = Append(@,
                              Task(IF object[o] = Nil THEN "add" ELSE "update", o[1], o[2], r))]
       \/ /\ "objects" \in Removable /\ object[o] # Nil /\ object' = [object EXCEPT ![o] = Nil]
          /\ events' = [events EXCEPT ![o[1]] = Append(@, Task("delete", o[1], o[2], object[o]))]
    /\ UNCHANGED <<manager, ch, reloads, controller>>

\* The handler of an informer waits for room in the channel.
onResourceChange(k) ==
    /\ events[k] # <<>> /\ Len(ch) < ChannelCapacity
    /\ ch' = Append(ch, Head(events[k])) /\ events' = [events EXCEPT ![k] = Tail(@)]
    /\ UNCHANGED <<cached, reloads, controller>>
-----------------------------------------------------------------------------
(***************************************************************************)
(* The tasks.                                                              *)
(***************************************************************************)
\* What a new spec makes it necessary to read again.
NeedConfigs(s) == spec.tenantKey # s.tenantKey \/ spec.default # s.default \/ spec.tenant # s.tenant
NeedReceivers(s) == spec.tenantKey # s.tenantKey \/ spec.tenant # s.tenant \/ spec.global # s.global

Needed(s) == {k \in Kinds : IF k = "configs" THEN NeedConfigs(s) ELSE NeedReceivers(s)}

nmChange(t) ==
    \/ /\ t.op = "delete" /\ spec' = NoSpec /\ nmAdd' = FALSE
       /\ UNCHANGED <<held, reloads>>
    \/ /\ t.op # "delete" /\ spec' = t.obj /\ nmAdd' = TRUE
       /\ reloads' = IF Needed(t.obj) = {} THEN reloads
                     ELSE reloads \cup {[id |-> version * 10 + Cardinality(reloads), need |-> Needed(t.obj), todo |-> {}]}
       /\ UNCHANGED held

Entry(tenant, name, v) == [tenant |-> tenant, name |-> name, version |-> v]

\* GetResourceVersion of an entry, as NewReceivers and NewConfigs made it.
GetResourceVersion(kind, e) == IF <<kind, e.name>> \in DiscordReceivers THEN 0 ELSE e.version

\* Mutant: whatever comes last is kept.
StaleNever(old, new) == FALSE

\* The entry that was found is newer, or the same.
Stale(old, new) == new.version < old.version \/ (new.version = old.version /\ new.tenant = old.tenant)

\* Mutant: the new entry is added to whatever there is.
ReplacedNothing(entries, t) ==
    {IF \E e \in entries : e.name = t.name /\ e.version >= t.obj.version THEN entries
     ELSE entries \cup {Entry(getTenantID(t.obj.labels), t.name, t.obj.version)}}

\* The entries of a kind after a task: the tenant that is looked at for the old
\* entry is the first one found to have the name.
Replaced(entries, t) ==
    LET mine == {e \in entries : e.name = t.name}
        new == Entry(getTenantID(t.obj.labels), t.name, t.obj.version)
        Of(e) == {x \in mine : x.tenant = e.tenant}
    IN  IF t.op = "delete"
        THEN IF mine = {} THEN {entries} ELSE {entries \ Of(e) : e \in mine}
        ELSE {IF Stale(Entry(e.tenant, e.name, GetResourceVersion(t.kind, e)), new) THEN entries
              ELSE (entries \ ((IF t.op = "update" THEN Of(e) ELSE {}) \cup Of(new))) \cup {new}
                  : e \in (IF mine = {} THEN {Entry("", t.name, 0)} ELSE mine)}

Changed(t) ==
    /\ IF nmAdd /\ getTenantID(t.obj.labels) # ""
       THEN \E h \in Replaced(held[t.kind], t) : held' = [held EXCEPT ![t.kind] = h]
       ELSE UNCHANGED held
    /\ UNCHANGED <<nmAdd, spec, reloads>>

receiverChanged(t) == t.kind = "receivers" /\ Changed(t)
configChanged(t) == t.kind = "configs" /\ Changed(t)

\* Mutant: the loop waits for the reload it started.
RunWaits ==
    /\ ch # <<>> /\ reloads = {} /\ ch' = Tail(ch)
    /\ LET t == Head(ch) IN
       \/ t.kind = "managers" /\ nmChange(t)
       \/ receiverChanged(t) \/ configChanged(t)
    /\ UNCHANGED <<cached, events>>

Run ==
    /\ ch # <<>> /\ ch' = Tail(ch)
    /\ LET t == Head(ch) IN
       \/ t.kind = "managers" /\ nmChange(t)
       \/ receiverChanged(t) \/ configChanged(t)
    /\ UNCHANGED <<cached, events>>
-----------------------------------------------------------------------------
(***************************************************************************)
(* reload: configs are listed and fed to the channel before receivers.     *)
(***************************************************************************)
First(need) == IF "configs" \in need THEN "configs" ELSE "receivers"

\* A list that is empty leaves nothing to feed.
List(g) ==
    /\ g.todo = {} /\ g.need # {}
    /\ LET k == First(g.need)
           found == {Task("update", o[1], o[2], object[o]) : o \in {x \in Objects : x[1] = k /\ object[x] # Nil}}
           rest == [g EXCEPT !.need = @ \ {k}, !.todo = found]
       IN  reloads' = (reloads \ {g}) \cup (IF rest.need = {} /\ found = {} THEN {} ELSE {rest})
    /\ UNCHANGED <<cached, events, ch, controller>>

Feed(g) ==
    /\ Len(ch) < ChannelCapacity
    /\ \E t \in g.todo :
          /\ ch' = Append(ch, t)
          /\ LET rest == [g EXCEPT !.todo = @ \ {t}] IN
             reloads' = (reloads \ {g}) \cup (IF rest.need = {} /\ rest.todo = {} THEN {} ELSE {rest})
    /\ UNCHANGED <<cached, events, controller>>

ControllerNext ==
    \/ EditManager \/ (\E o \in Objects : EditObject(o)) \/ Run
    \/ \E k \in DOMAIN events : onResourceChange(k)
    \/ \E g \in reloads : List(g) \/ Feed(g)

ControllerSpec == New /\ [][ControllerNext]_controllerVars

\* The loop runs while the process does, informers hand over their events, and
\* goroutines waiting for room in a channel are served in turn.
ControllerFairness ==
    /\ WF_controllerVars(Run)
    /\ \A k \in Kinds \cup {"managers"} : SF_controllerVars(onResourceChange(k))
    /\ SF_controllerVars(\E g \in reloads : List(g) \/ Feed(g))
-----------------------------------------------------------------------------
(***************************************************************************)
(* Correctness.                                                            *)
(***************************************************************************)
Settled == ch = <<>> /\ reloads = {} /\ \A k \in DOMAIN events : events[k] = <<>>

Current(o) == Entry(getTenantID(object[o].labels), o[2], object[o].version)
Known(o) == object[o] # Nil /\ getTenantID(object[o].labels) # ""

\* What keeps its version.
Versioned == Objects \ DiscordReceivers

\* Once the channel is drained, every receiver and config of the cluster that
\* the manager's selectors give a tenant is held for that tenant in its latest
\* version, however its events, those of the manager and the reloads met, as long
\* as the manager keeps its spec.  A Discord receiver is held in some version:
\* a reload that listed it before an edit may be the last to be run.
NoneMissing ==
    Settled /\ nmAdd => \A o \in Objects : Known(o) =>
        IF o \in Versioned THEN Current(o) \in held[o[1]] ELSE \E e \in held[o[1]] : e.name = o[2]

\* A receiver that changes hands is held for one tenant at a time, as long as
\* nothing is deleted and the manager keeps its spec: both would be notified of
\* what only one may see.  A Discord receiver is exempt: the task that adds it may
\* come after a reload and leave it under two tenants.
HeldOnce ==
    \A k \in Kinds : \A e, f \in held[k] :
        <<k, e.name>> \in Versioned /\ e.name = f.name => e = f

\* Neither a late event nor a reload puts an older version in the place of a newer
\* one, as long as nothing is deleted and the manager keeps its spec, and except
\* for Discord receivers.
KeepsNewest ==
    \A k \in Kinds : \A e \in held[k], f \in held'[k] :
        <<k, e.name>> \in Versioned /\ e.name = f.name => e.version <= f.version

\* "A newer receiver had added": the task of an older version is turned away.
NewerIsKept ==
    [][\A k \in Kinds : \A e \in held[k], f \in held'[k] :
          e.name = f.name => e.version <= f.version]_controllerVars

\* When the edits are over the controller comes to rest: the loop, the informers
\* and the reloads never wait for each other for good, however small the channel.
ChangesSettle == <>[]Settled

\* What the controller holds after all the events are in exists: deletions remove.
NoneLeftOver ==
    Settled => \A k \in Kinds : \A e \in held[k] : <<k, e.name>> \in Objects /\ object[<<k, e.name>>] # Nil
=============================================================================
