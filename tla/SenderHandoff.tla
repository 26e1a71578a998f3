---------------------------- MODULE SenderHandoff ---------------------------
(***************************************************************************)
(* The operator (controllers/notificationmanager_controller.go) and the    *)
(* handover of the stable Service from the original sender to a candidate  *)
(* and back (controllers/sender_handoff.go).  Reconcile runs one at a time *)
(* per object; it reads through the informer cache, which may be behind    *)
(* the API server, one object at a time, and it writes to the API server,  *)
(* which refuses an update made from an outdated copy.                     *)
(*                                                                         *)
(* The objects: "cr" is the phase asked for (Nil: no intent, "invalid": an *)
(* intent that does not decode), "orig" and "cand" are the two Deployments *)
(* and "svc" the Service with the intent it records.                       *)
(***************************************************************************)
EXTENDS Absence, Naturals

CONSTANTS Lagging,         \* objects whose cached copy may be behind
          MaxIntents,      \* changes of the intent
          MaxFlaps         \* failures of pods, replaced candidates, lost Services

ASSUME HandoffConstants ==
    /\ Lagging \subseteq {"cr", "orig", "cand", "svc"} /\ MaxIntents \in Nat /\ MaxFlaps \in Nat
    /\ Nil \notin {"active", "retired", "rollback", "invalid"}
    /\ Nil \notin [replicas : {0, 1}, observed : BOOLEAN, ready : Nat, fit : BOOLEAN]

VARIABLES obj,             \* the objects at the API server
          seen, behind,    \* the cache, and where it is behind
          queued,          \* the CR is in the work queue
          rec,             \* the reconciler: [at, nm, selector]
          edits, flaps

handoffVars == <<obj, seen, behind, queued, rec, edits, flaps>>

Phases == {Nil, "active", "retired", "rollback", "invalid"}
Idle == [at |-> "idle", nm |-> Nil, selector |-> Nil]

\* A Deployment: wanted replicas, whether its controller has seen them, ready
\* pods and, for the candidate, whether UID, labels, port and probe fit.
Deployment(n) == [replicas |-> n, observed |-> FALSE, ready |-> 0, fit |-> TRUE]

HandoffInit ==
    /\ obj = [cr |-> Nil, orig |-> Nil, svc |-> Nil,
              cand |-> [Deployment(1) EXCEPT !.observed = TRUE, !.ready = 1]]
    /\ seen = obj /\ behind = {} /\ queued = TRUE /\ rec = Idle
    /\ edits = 0 /\ flaps = 0
-----------------------------------------------------------------------------
(***************************************************************************)
(* The API server and its watchers.                                        *)
(***************************************************************************)
Write(x, v) ==
    /\ obj' = [obj EXCEPT ![x] = v]
    /\ IF x \in Lagging
       THEN behind' = behind \cup {x} /\ UNCHANGED seen
       ELSE behind' = behind /\ seen' = [seen EXCEPT ![x] = v]

Untouched == UNCHANGED <<obj, seen, behind>>

\* Owns and For: events of the CR and of what it owns queue it.
Watched(x) == x # "cand" /\ x \notin Lagging

Informer(x) ==
    /\ x \in behind
    /\ seen' = [seen EXCEPT ![x] = obj[x]] /\ behind' = behind \ {x}
    /\ queued' = (queued \/ x # "cand")
    /\ UNCHANGED <<obj, rec, edits, flaps>>

EditIntent ==
    /\ edits < MaxIntents /\ edits' = edits + 1
    /\ \E p \in Phases \ {obj.cr} : Write("cr", p)
    /\ queued' = (queued \/ Watched("cr"))
    /\ UNCHANGED <<rec, flaps>>

\* The deployment controller brings the pods up, or takes them down.
RollOut(x) ==
    /\ obj[x] # Nil
    /\ ~(obj[x].observed /\ obj[x].ready = obj[x].replicas)
    /\ Write(x, [obj[x] EXCEPT !.observed = TRUE, !.ready = obj[x].replicas])
    /\ queued' = (queued \/ Watched(x))
    /\ UNCHANGED <<rec, edits, flaps>>

Flap(x, v) ==
    /\ flaps < MaxFlaps /\ flaps' = flaps + 1
    /\ obj[x] # Nil /\ v # obj[x] /\ Write(x, v)
    /\ queued' = (queued \/ Watched(x))
    /\ UNCHANGED <<rec, edits>>

PodsFail(x) == obj[x] # Nil /\ Flap(x, [obj[x] EXCEPT !.ready = 0])
CandidateReplaced == Flap("cand", [obj["cand"] EXCEPT !.fit = ~@])
ServiceDeleted == Flap("svc", Nil)
-----------------------------------------------------------------------------
(***************************************************************************)
(* Reconcile.                                                              *)
(***************************************************************************)
Fail == rec' = Idle /\ queued' = TRUE /\ UNCHANGED <<edits, flaps>>
Goto(l) == rec' = [rec EXCEPT !.at = l] /\ UNCHANGED <<edits, flaps>>
Kept(x) == queued' = (queued \/ Watched(x))

\* The handler reads the CR; an intent that does not decode ends it.
Reconcile ==
    /\ rec.at = "idle" /\ queued
    /\ IF seen.cr = "invalid"
       THEN Fail
       ELSE /\ rec' = [Idle EXCEPT !.at = IF seen.cr = "rollback" THEN "ready" ELSE "select",
                                   !.nm = seen.cr]
            /\ queued' = FALSE /\ UNCHANGED <<edits, flaps>>
    /\ Untouched

deploymentReady(d) == d.replicas > 0 /\ d.observed /\ d.ready >= d.replicas

\* mutateDeployment: the original has no replicas once it is retired.
Mutated(d) ==
    LET n == IF rec.nm = "retired" THEN 0 ELSE 1
    IN  IF d = Nil THEN Deployment(n)
        ELSE IF d.replicas = n THEN d
        ELSE [d EXCEPT !.replicas = n, !.observed = FALSE]

\* CreateOrUpdate of the original: always an Update, since the cached copy has
\* defaults that mutateDeployment leaves out.  The API server refuses it when
\* the copy is outdated, and one that changes nothing makes no new version.
CreateOrUpdate(at, next) ==
    /\ rec.at = at
    /\ IF "orig" \in behind
       THEN Fail /\ Untouched
       ELSE /\ Goto(next)
            /\ IF Mutated(seen.orig) = seen.orig THEN Untouched /\ UNCHANGED queued
               ELSE Write("orig", Mutated(seen.orig)) /\ Kept("orig")

ReadyOriginal == seen.orig # Nil /\ deploymentReady(seen.orig)

ReadyCandidate == seen.cand.fit /\ deploymentReady(seen.cand)

\* handoffSelector: whom the Service should select.
handoffSelector ==
    /\ rec.at = "select" /\ rec.nm # Nil
    /\ IF IF rec.nm = "rollback" THEN ReadyOriginal ELSE ReadyCandidate
       THEN /\ rec' = [rec EXCEPT !.at = "put",
                                  !.selector = IF rec.nm = "rollback" THEN "orig" ELSE "cand"]
            /\ UNCHANGED <<queued, edits, flaps>>
       ELSE Fail
    /\ Untouched

\* createManagedHandoffService: Create, or Update of the cached copy.
PutService ==
    /\ rec.at = "put"
    /\ IF "svc" \in behind
       THEN Fail /\ Untouched
       ELSE LET new == [selects |-> rec.selector, mark |-> rec.nm]
            IN  /\ Goto("deploy")
                /\ IF new = obj.svc THEN Untouched /\ UNCHANGED queued
                   ELSE Write("svc", new) /\ Kept("svc")

Marked(s) == s # Nil /\ s.mark \notin {Nil, "rollback"}

\* createDeploymentSvc without an intent: never over a managed Service, and
\* only a Create otherwise.
LegacyService ==
    /\ rec.at = "select" /\ rec.nm = Nil
    /\ IF Marked(seen.svc)
       THEN Fail /\ Untouched
       ELSE /\ Goto("deploy")
            /\ IF obj.svc = Nil
               THEN Write("svc", [selects |-> "orig", mark |-> Nil]) /\ Kept("svc")
               ELSE Untouched /\ UNCHANGED queued

\* Mutant: the Deployment is brought to its phase before the Service.
ServiceFirstSwapped == \/ rec.at = "select" /\ CreateOrUpdate("select", "put")
                       \/ CreateOrUpdate("deploy", "idle")

\* Reconcile ends with the Deployment.
ServiceFirst == CreateOrUpdate("deploy", "idle")

ReconcileStep ==
    \/ Reconcile \/ CreateOrUpdate("ready", "select") \/ handoffSelector \/ PutService
    \/ LegacyService \/ ServiceFirst

HandoffNext ==
    \/ ReconcileStep \/ EditIntent \/ CandidateReplaced \/ ServiceDeleted
    \/ \E x \in {"cr", "orig", "cand", "svc"} : Informer(x)
    \/ \E x \in {"orig", "cand"} : RollOut(x) \/ PodsFail(x)

HandoffSpec == HandoffInit /\ [][HandoffNext]_handoffVars

\* The work queue retries with a bounded delay, watches deliver, and the
\* deployment controller keeps starting pods.
HandoffFairness ==
    /\ WF_handoffVars(ReconcileStep)
    /\ \A x \in {"cr", "orig", "cand", "svc"} : WF_handoffVars(Informer(x))
    /\ \A x \in {"orig", "cand"} : WF_handoffVars(RollOut(x))
-----------------------------------------------------------------------------
Selects(x) == obj.svc # Nil /\ obj.svc.selects = x

\* The original is only scaled to nothing once the Service has left it.
RetiredAfterHandover ==
    [][(obj.orig # Nil /\ obj.orig.replicas > 0 /\ obj'.orig.replicas = 0)
          => ~Selects("orig")]_handoffVars

\* "Rollback readies the original before switching the Service back": it has its
\* replicas again and its controller has seen them, although the check reads a
\* cache that may be behind.  Pods that fail after the check are not excluded.
RollbackReadiesFirst ==
    [][(Selects("cand") /\ obj'.svc # Nil /\ obj'.svc.selects = "orig")
          => obj.orig # Nil /\ obj.orig.replicas > 0 /\ obj.orig.observed]_handoffVars

\* "Removing an active annotation is rejected": without an intent a Service
\* that exists keeps its backend.
RemovalSwitchesNothing ==
    [][(obj.svc # Nil /\ obj'.svc # Nil /\ obj'.svc # obj.svc) => rec.nm # Nil]_handoffVars

Wanted(n) == obj.orig # Nil /\ obj.orig.replicas = n

\* What an intent asks for when it has been carried out; an intent removed in
\* the middle of a handover is refused, one that names no fit candidate waits.
Realised ==
    CASE obj.cr = "active"   -> ~obj.cand.fit \/ (Selects("cand") /\ Wanted(1))
      [] obj.cr = "retired"  -> ~obj.cand.fit \/ (Selects("cand") /\ Wanted(0))
      [] obj.cr = "rollback" -> Selects("orig") /\ Wanted(1) /\ deploymentReady(obj.orig)
      [] obj.cr = Nil        -> obj.svc # Nil /\ (Marked(obj.svc) \/ Wanted(1))
      [] obj.cr = "invalid"  -> TRUE

\* Once the intent no longer changes it is carried out for good, whatever
\* conflicts, outdated reads and failing pods came before.
IntentIsRealised == <>[]Realised

\* Handover, rollback and removal of the intent never leave the Service without a
\* sender: it is switched on purpose, back to the original only once that has its
\* replicas again and its controller knows, and the original retires only after the
\* switch.
HandoverKeepsASender == RetiredAfterHandover /\ RollbackReadiesFirst /\ RemovalSwitchesNothing
=============================================================================
