--------------------------- MODULE Notifier_proofs ---------------------------
(***************************************************************************)
(* What sends, each on its own: the handover from one sender to the next,  *)
(* the pipeline of the memory store, the notifiers of pkg/notify/notifier  *)
(* it ends in, the flow control of DingTalk and the token cache.  Every    *)
(* part has an inductive invariant, and theorems for any values of its     *)
(* constants.                                                              *)
(***************************************************************************)
EXTENDS SenderHandoff, MemoryPipeline, Notifiers, Throttle, TokenCache, FiniteSetTheorems, TLAPS

\* Zenon is asked first; a leaf that needs arithmetic, records or many cases cites SMT.
USE Zenon

-----------------------------------------------------------------------------
(***************************************************************************)
(* SenderHandoff: at every moment of a handover a sender is selected that  *)
(* can send.                                                               *)
(***************************************************************************)
Names == {"cr", "orig", "cand", "svc"}
Deployments == [replicas : {0, 1}, observed : BOOLEAN, ready : Nat, fit : BOOLEAN]
Services == [selects : {"orig", "cand"}, mark : Phases]
Cluster == [cr : Phases, orig : Deployments \cup {Nil}, cand : Deployments, svc : Services \cup {Nil}]

HandoffTypeOK ==
    /\ obj \in Cluster /\ seen \in Cluster /\ behind \subseteq Lagging
    /\ rec \in [at : {"idle", "ready", "select", "put", "deploy"}, nm : Phases,
                selector : {Nil, "orig", "cand"}]

\* The cache is behind only where it may be and is known to be.
CacheInv == \A x \in Names : x \notin behind => seen[x] = obj[x]

\* What the reconciler has made sure of when it is at a step.
ReconcilerInv ==
    /\ rec.at = "ready" => rec.nm = "rollback"
    /\ rec.at = "put" => rec.nm # Nil /\ rec.selector = IF rec.nm = "rollback" THEN "orig" ELSE "cand"
    /\ rec.at = "deploy" /\ rec.nm = "retired" /\ obj.svc # Nil => obj.svc.selects = "cand"

Up(d) == d # Nil /\ d.replicas > 0 /\ d.observed

\* Before the Service goes back to the original that one is up.  The copy in the
\* cache that the reconciler decides on may be outdated, but since the update
\* before was accepted it is not one from before the original was retired.
OriginalInv ==
    /\ rec.at = "select" /\ rec.nm = "rollback" /\ Up(seen.orig) => Up(obj.orig)
    /\ rec.at = "put" /\ rec.nm = "rollback" => Up(obj.orig)

HandoffInv == HandoffTypeOK /\ CacheInv /\ ReconcilerInv /\ OriginalInv

Placed(x) == IF x = "orig" THEN Deployments \cup {Nil}
             ELSE IF x = "cand" THEN Deployments
             ELSE IF x = "svc" THEN Services \cup {Nil} ELSE Phases

\* The fields of what is in a cluster.
LEMMA ClusterFields ==
    ASSUME NEW c \in Cluster
    PROVE  /\ c.cr \in Phases /\ c.orig \in Deployments \cup {Nil} /\ c.cand \in Deployments
           /\ c.svc \in Services \cup {Nil}
           /\ \A x \in Names : c[x] \in Placed(x)
  BY SMT DEF Cluster, Names, Placed

\* A write puts v in the place of x and leaves the rest; the cache follows at
\* once, or is behind from then on.
LEMMA WriteEffect ==
    ASSUME HandoffTypeOK, CacheInv, NEW x \in Names, NEW v \in Placed(x), Write(x, v)
    PROVE  /\ obj' \in Cluster /\ seen' \in Cluster /\ behind' \subseteq Lagging
           /\ CacheInv' /\ obj'[x] = v /\ \A y \in Names : y # x => obj'[y] = obj[y]
           /\ \A y \in Names : seen'[y] \in {seen[y], obj'[y]}
<1>1. obj \in Cluster /\ seen \in Cluster /\ behind \subseteq Lagging
  BY DEF HandoffTypeOK
<1>2. obj' = [obj EXCEPT ![x] = v]
  BY DEF Write
<1>3. /\ obj' \in Cluster /\ obj'[x] = v /\ \A y \in Names : y # x => obj'[y] = obj[y]
  BY SMT, <1>1, <1>2 DEF Cluster, Names, Placed
<1>4. CASE x \in Lagging
  <2>1. behind' = behind \cup {x} /\ seen' = seen
    BY <1>4 DEF Write
  <2> QED BY <1>1, <1>3, <1>4, <2>1 DEF CacheInv
<1>5. CASE x \notin Lagging
  <2>1. behind' = behind /\ seen' = [seen EXCEPT ![x] = v]
    BY <1>5 DEF Write
  <2>2. /\ seen' \in Cluster /\ seen'[x] = v /\ \A y \in Names : y # x => seen'[y] = seen[y]
    BY SMT, <1>1, <2>1 DEF Cluster, Names, Placed
  <2> QED BY <1>1, <1>3, <2>1, <2>2 DEF CacheInv
<1> QED BY <1>4, <1>5

\* What a step may not do: RetiredAfterHandover, RollbackReadiesFirst and
\* RemovalSwitchesNothing.
SafeStep ==
    /\ obj.orig # Nil /\ obj.orig.replicas > 0 /\ obj'.orig.replicas = 0 => ~Selects("orig")
    /\ Selects("cand") /\ obj'.svc # Nil /\ obj'.svc.selects = "orig" => Up(obj.orig)
    /\ obj.svc # Nil /\ obj'.svc # Nil /\ obj'.svc # obj.svc => rec.nm # Nil

\* The reconciler does not move, the original keeps its replicas and stays
\* observed, its copy in the cache stays or is brought up to date, and the Service is only lost.
Calm ==
    /\ rec' = rec
    /\ obj.orig # Nil => /\ obj'.orig # Nil /\ obj'.orig.replicas = obj.orig.replicas
                         /\ obj.orig.observed => obj'.orig.observed
    /\ seen'.orig \in {seen.orig, obj'.orig}
    /\ obj'.svc \in {obj.svc, Nil}

\* A calm step keeps what the reconciler has made sure of, and is safe.
LEMMA CalmStep ==
    ASSUME HandoffInv, Calm
    PROVE  ReconcilerInv' /\ OriginalInv' /\ SafeStep
<1>1. ReconcilerInv'
  BY DEF HandoffInv, ReconcilerInv, Calm
<1>2. OriginalInv'
  <2>1. Up(obj.orig) => Up(obj'.orig)
    BY DEF Calm, Up
  <2>2. Up(seen'.orig) => Up(seen.orig) \/ Up(obj'.orig)
    BY DEF Calm
  <2> QED BY <2>1, <2>2 DEF HandoffInv, OriginalInv, Calm
<1>3. SafeStep
  BY SMT DEF HandoffInv, Calm, SafeStep, Selects
<1> QED BY <1>1, <1>2, <1>3

\* A write by another than the reconciler, and its arrival in the cache.
LEMMA WorldStep ==
    ASSUME HandoffInv, NEW x \in Names, NEW v \in Placed(x), Write(x, v), rec' = rec,
           x = "orig" => /\ obj.orig # Nil /\ v.replicas = obj.orig.replicas /\ v # Nil
                         /\ obj.orig.observed => v.observed,
           x = "svc" => v = Nil
    PROVE  HandoffInv' /\ SafeStep
<1>1. /\ obj' \in Cluster /\ seen' \in Cluster /\ behind' \subseteq Lagging
      /\ CacheInv' /\ obj'[x] = v /\ \A y \in Names : y # x => obj'[y] = obj[y]
      /\ \A y \in Names : seen'[y] \in {seen[y], obj'[y]}
  BY WriteEffect DEF HandoffInv
<1>2. Calm
  BY SMT, <1>1 DEF Calm, Names
<1>3. HandoffTypeOK'
  BY <1>1 DEF HandoffInv, HandoffTypeOK
<1> QED BY <1>1, <1>2, <1>3, CalmStep DEF HandoffInv

\* The Deployments that CandidateReplaced, RollOut and PodsFail write.
LEMMA WrittenDeployments ==
    ASSUME NEW d \in Deployments
    PROVE  /\ [d EXCEPT !.fit = ~@] \in Deployments
           /\ [d EXCEPT !.observed = TRUE, !.ready = d.replicas] \in Deployments
           /\ [d EXCEPT !.observed = TRUE, !.ready = d.replicas].replicas = d.replicas
           /\ [d EXCEPT !.observed = TRUE, !.ready = d.replicas].observed = TRUE
           /\ [d EXCEPT !.ready = 0] \in Deployments
           /\ [d EXCEPT !.ready = 0].replicas = d.replicas
           /\ [d EXCEPT !.ready = 0].observed = d.observed
<1>1. [d EXCEPT !.fit = ~@] \in Deployments
  <2>1. PICK b \in BOOLEAN : b = ~d.fit
    OBVIOUS
  <2>2. [d EXCEPT !.fit = b] \in Deployments
    BY SMT DEF Deployments
  <2> QED BY <2>1, <2>2
<1>2. /\ [d EXCEPT !.observed = TRUE, !.ready = d.replicas] \in Deployments
      /\ [d EXCEPT !.observed = TRUE, !.ready = d.replicas].replicas = d.replicas
      /\ [d EXCEPT !.observed = TRUE, !.ready = d.replicas].observed = TRUE
  <2>1. PICK n \in {0, 1} : n = d.replicas
    BY SMT DEF Deployments
  <2>2. [d EXCEPT !.observed = TRUE] \in Deployments /\ [d EXCEPT !.observed = TRUE].replicas = n
    <3>1. \A b \in BOOLEAN : [d EXCEPT !.observed = b] \in Deployments /\ [d EXCEPT !.observed = b].replicas = d.replicas
      BY SMT DEF Deployments
    <3> QED BY <2>1, <3>1
  <2>3. \A e \in Deployments : /\ [e EXCEPT !.ready = n] \in Deployments
                              /\ [e EXCEPT !.ready = n].replicas = e.replicas
                              /\ [e EXCEPT !.ready = n].observed = e.observed
    BY SMT DEF Deployments
  <2>4. [d EXCEPT !.observed = TRUE].observed = TRUE
    BY DEF Deployments
  <2> QED BY <2>1, <2>2, <2>3, <2>4
<1>3. /\ [d EXCEPT !.ready = 0] \in Deployments
      /\ [d EXCEPT !.ready = 0].replicas = d.replicas
      /\ [d EXCEPT !.ready = 0].observed = d.observed
  BY SMT DEF Deployments
<1> QED BY <1>1, <1>2, <1>3

\* The deployment controller, failing pods, a replaced candidate, a lost Service
\* and a new intent are such writes; Informer only brings the cache up to date.
LEMMA WorldKeeps ==
    ASSUME HandoffInv,
           \/ EditIntent \/ CandidateReplaced \/ ServiceDeleted
           \/ \E x \in Names : Informer(x)
           \/ \E x \in {"orig", "cand"} : RollOut(x) \/ PodsFail(x)
    PROVE  HandoffInv' /\ SafeStep
<1>1. /\ obj \in Cluster /\ seen \in Cluster /\ behind \subseteq Lagging
      /\ obj.orig \in Deployments \cup {Nil} /\ obj.cand \in Deployments
  BY ClusterFields DEF HandoffInv, HandoffTypeOK
<1>2. CASE EditIntent
  <2>1. PICK p \in Phases : Write("cr", p) /\ rec' = rec
    BY <1>2 DEF EditIntent
  <2> QED BY SMT, <2>1, WorldStep DEF Names, Placed
<1>3. ASSUME NEW x \in Names, Informer(x) PROVE HandoffInv' /\ SafeStep
  <2>1. obj' = obj /\ rec' = rec /\ seen' = [seen EXCEPT ![x] = obj[x]] /\ behind' = behind \ {x}
    BY <1>3 DEF Informer
  <2>2. seen' \in Cluster /\ seen'[x] = obj[x] /\ \A y \in Names : y # x => seen'[y] = seen[y]
    BY SMT, <1>1, <2>1 DEF Cluster, Names
  <2>3. CacheInv' /\ HandoffTypeOK'
    BY <2>1, <2>2 DEF HandoffInv, HandoffTypeOK, CacheInv
  <2>4. Calm
    BY SMT, <2>1, <2>2 DEF Calm, Names
  <2> QED BY <2>3, <2>4, CalmStep DEF HandoffInv
<1>4. CASE CandidateReplaced
  <2> DEFINE v == [obj["cand"] EXCEPT !.fit = ~@]
  <2>1. Write("cand", v) /\ rec' = rec
    BY <1>4 DEF CandidateReplaced, Flap
  <2>2. obj["cand"] \in Deployments
    BY SMT, <1>1
  <2>3. v \in Deployments
    BY <2>2, WrittenDeployments
  <2> HIDE DEF v
  <2> QED BY SMT, <2>1, <2>3, WorldStep DEF Names, Placed
<1>5. CASE ServiceDeleted
  <2>1. Write("svc", Nil) /\ rec' = rec
    BY <1>5 DEF ServiceDeleted, Flap
  <2> QED BY SMT, <2>1, WorldStep DEF Names, Placed
<1>6. ASSUME NEW x \in {"orig", "cand"}, RollOut(x) \/ PodsFail(x) PROVE HandoffInv' /\ SafeStep
  <2>1. obj[x] \in Deployments /\ rec' = rec
    BY SMT, <1>1, <1>6 DEF RollOut, PodsFail, Flap
  <2>2. PICK v \in Deployments : /\ Write(x, v) /\ v.replicas = obj[x].replicas
                                 /\ obj[x].observed => v.observed
    <3>1. CASE RollOut(x)
      BY <2>1, <3>1, WrittenDeployments DEF RollOut
    <3>2. CASE PodsFail(x)
      BY <2>1, <3>2, WrittenDeployments DEF PodsFail, Flap
    <3> QED BY <1>6, <3>1, <3>2
  <2>3. v # Nil /\ obj[x] # Nil
    BY <2>1, HandoffConstants DEF Deployments
  <2> QED BY SMTT(30), <2>1, <2>2, <2>3, WorldStep DEF Names, Placed
<1> QED BY <1>2, <1>3, <1>4, <1>5, <1>6

\* The reconciler fails, or moves on without a write.
LEMMA ReadingStep ==
    ASSUME HandoffInv, Untouched, ReconcilerInv', OriginalInv', HandoffTypeOK'
    PROVE  HandoffInv' /\ SafeStep
<1>1. CacheInv'
  BY DEF HandoffInv, CacheInv, Untouched
<1>2. SafeStep
  BY SMT DEF Untouched, SafeStep, Selects
<1> QED BY <1>1, <1>2 DEF HandoffInv

\* A reconciler that starts again has made sure of nothing.
LEMMA FailStep ==
    ASSUME HandoffInv, Fail, Untouched
    PROVE  HandoffInv' /\ SafeStep
<1>1. rec' = Idle /\ obj' = obj /\ seen' = seen /\ behind' = behind
  BY DEF Fail, Untouched
<1>2. HandoffTypeOK'
  BY <1>1 DEF HandoffInv, HandoffTypeOK, Idle, Phases
<1>3. ReconcilerInv' /\ OriginalInv'
  BY <1>1 DEF ReconcilerInv, OriginalInv, Idle
<1> QED BY <1>2, <1>3, ReadingStep

\* Reconcile and handoffSelector read, and decide.
LEMMA DecideStep ==
    ASSUME HandoffInv, Reconcile \/ handoffSelector
    PROVE  HandoffInv' /\ SafeStep
<1>1. /\ obj \in Cluster /\ seen \in Cluster /\ rec.nm \in Phases /\ seen.cr \in Phases
      /\ rec \in [at : {"idle", "ready", "select", "put", "deploy"}, nm : Phases, selector : {Nil, "orig", "cand"}]
  BY SMT, ClusterFields DEF HandoffInv, HandoffTypeOK
<1>2. CASE Reconcile /\ ~Fail
  <2>1. /\ rec' = [Idle EXCEPT !.at = IF seen.cr = "rollback" THEN "ready" ELSE "select", !.nm = seen.cr]
        /\ Untouched
    BY <1>2 DEF Reconcile
  <2>2. PICK a \in {"ready", "select"}, n \in Phases :
          n = seen.cr /\ a = IF n = "rollback" THEN "ready" ELSE "select"
    BY <1>1
  <2>3. rec' = [at |-> a, nm |-> n, selector |-> Nil]
    BY <2>1, <2>2 DEF Idle
  <2>4. HandoffTypeOK'
    BY SMT, <2>1, <2>3 DEF HandoffInv, HandoffTypeOK, Untouched
  <2>5. ReconcilerInv' /\ OriginalInv'
    BY SMT, <2>2, <2>3 DEF ReconcilerInv, OriginalInv
  <2> QED BY <2>1, <2>4, <2>5, ReadingStep
<1>3. CASE handoffSelector /\ ~Fail
  <2>1. /\ rec.nm # Nil /\ Untouched
        /\ IF rec.nm = "rollback" THEN ReadyOriginal ELSE ReadyCandidate
        /\ rec' = [rec EXCEPT !.at = "put", !.selector = IF rec.nm = "rollback" THEN "orig" ELSE "cand"]
    BY <1>3 DEF handoffSelector
  <2>2. PICK x \in {"orig", "cand"} : x = IF rec.nm = "rollback" THEN "orig" ELSE "cand"
    OBVIOUS
  <2>3. rec' = [rec EXCEPT !.at = "put", !.selector = x]
    BY <2>1, <2>2
  <2>4. /\ rec' \in [at : {"idle", "ready", "select", "put", "deploy"}, nm : Phases, selector : {Nil, "orig", "cand"}]
        /\ rec'.at = "put" /\ rec'.nm = rec.nm /\ rec'.selector = x
    <3>1. PICK e : e = [rec EXCEPT !.at = "put"]
      OBVIOUS
    <3>2. e \in [at : {"idle", "ready", "select", "put", "deploy"}, nm : Phases, selector : {Nil, "orig", "cand"}] /\ e.at = "put" /\ e.nm = rec.nm
      BY SMT, <1>1, <3>1
    <3>3. rec' = [e EXCEPT !.selector = x]
      BY <2>3, <3>1
    <3> QED BY SMT, <3>2, <3>3
  <2>5. HandoffTypeOK'
    BY SMT, <1>1, <2>1, <2>4 DEF HandoffInv, HandoffTypeOK, Untouched
  <2>6. ReconcilerInv'
    BY SMT, <2>1, <2>2, <2>4 DEF ReconcilerInv
  <2>7. OriginalInv'
    <3>1. rec'.nm = "rollback" => Up(seen.orig) /\ rec.nm = "rollback" /\ rec.at = "select" /\ obj' = obj
      BY <1>3, <2>1, <2>4 DEF Untouched, handoffSelector, ReadyOriginal, deploymentReady, Up
    <3> QED BY <2>4, <3>1 DEF HandoffInv, OriginalInv
  <2> QED BY <2>1, <2>5, <2>6, <2>7, ReadingStep
<1>4. CASE Fail
  BY <1>4, FailStep DEF Reconcile, handoffSelector
<1> QED BY <1>2, <1>3, <1>4

\* createManagedHandoffService and createDeploymentSvc write the Service.
LEMMA ServiceStep ==
    ASSUME HandoffInv, PutService \/ LegacyService
    PROVE  HandoffInv' /\ SafeStep
<1>1. /\ obj \in Cluster /\ seen \in Cluster
      /\ rec \in [at : {"idle", "ready", "select", "put", "deploy"}, nm : Phases, selector : {Nil, "orig", "cand"}]
  BY DEF HandoffInv, HandoffTypeOK
<1>2. CASE Fail /\ Untouched
  BY <1>2, FailStep
<1>3. ASSUME Goto("deploy"), Untouched,
             rec.nm = "retired" /\ obj.svc # Nil => obj.svc.selects = "cand"
      PROVE  HandoffInv' /\ SafeStep
  <2>1. rec' = [at |-> "deploy", nm |-> rec.nm, selector |-> rec.selector] /\ obj' = obj
    BY SMTT(30), <1>1, <1>3 DEF Goto, Untouched
  <2>2. HandoffTypeOK'
    BY SMT, <1>1, <1>3, <2>1 DEF HandoffInv, HandoffTypeOK, Untouched
  <2>3. ReconcilerInv' /\ OriginalInv'
    BY SMT, <1>3, <2>1 DEF ReconcilerInv, OriginalInv
  <2> QED BY <1>3, <2>2, <2>3, ReadingStep
<1>4. ASSUME NEW s \in Services, Goto("deploy"), Write("svc", s),
             rec.nm = "retired" => s.selects = "cand", obj.svc # Nil => rec.nm # Nil,
             obj.svc # Nil /\ s.selects = "orig" => Up(obj.orig)
      PROVE  HandoffInv' /\ SafeStep
  <2>1. rec' = [at |-> "deploy", nm |-> rec.nm, selector |-> rec.selector]
    BY SMT, <1>1, <1>4 DEF Goto
  <2>2. "svc" \in Names /\ "orig" \in Names /\ s \in Placed("svc")
    BY DEF Names, Placed
  <2>3. /\ obj' \in Cluster /\ seen' \in Cluster /\ behind' \subseteq Lagging
        /\ CacheInv' /\ obj'["svc"] = s /\ obj'["orig"] = obj["orig"]
    BY <1>4, <2>2, WriteEffect DEF HandoffInv
  <2>4. HandoffTypeOK'
    BY SMTT(30), <1>1, <2>1, <2>3 DEF HandoffTypeOK
  <2>5. ReconcilerInv' /\ OriginalInv'
    BY SMT, <1>4, <2>1, <2>3 DEF ReconcilerInv, OriginalInv
  <2>6. SafeStep
    BY SMTT(30), <1>4, <2>3 DEF SafeStep, Selects
  <2> QED BY <2>3, <2>4, <2>5, <2>6 DEF HandoffInv
<1>5. CASE PutService
  <2> DEFINE s == [selects |-> rec.selector, mark |-> rec.nm]
  <2>1. /\ rec.nm # Nil /\ rec.selector = IF rec.nm = "rollback" THEN "orig" ELSE "cand"
        /\ rec.nm = "rollback" => Up(obj.orig)
    BY <1>5 DEF PutService, HandoffInv, ReconcilerInv, OriginalInv
  <2>2. s \in Services /\ s.selects = rec.selector
    BY SMT, <1>1, <2>1 DEF Services
  <2>3. \/ Fail /\ Untouched
        \/ Goto("deploy") /\ s = obj.svc /\ Untouched
        \/ Goto("deploy") /\ Write("svc", s)
    BY <1>5 DEF PutService
  <2> HIDE DEF s
  <2> QED BY <1>2, <1>3, <1>4, <2>1, <2>2, <2>3
<1>6. CASE LegacyService
  <2> DEFINE s == [selects |-> "orig", mark |-> Nil]
  <2>1. s \in Services /\ rec.nm = Nil /\ Nil # "retired"
    BY <1>6, HandoffConstants DEF LegacyService, Services, Phases
  <2>2. \/ Fail /\ Untouched
        \/ Goto("deploy") /\ obj.svc = Nil /\ Write("svc", s)
        \/ Goto("deploy") /\ Untouched
    BY <1>6 DEF LegacyService
  <2> HIDE DEF s
  <2> QED BY <1>2, <1>3, <1>4, <2>1, <2>2
<1> QED BY <1>5, <1>6

\* mutateDeployment asks for one replica, or for none when the original is retired.
LEMMA MutatedOriginal ==
    ASSUME NEW d \in Deployments \cup {Nil}
    PROVE  /\ Mutated(d) \in Deployments
           /\ Mutated(d).replicas = IF rec.nm = "retired" THEN 0 ELSE 1
<1>1. PICK n \in {0, 1} : n = IF rec.nm = "retired" THEN 0 ELSE 1
  BY SMT
<1>2. CASE d = Nil
  <2>1. Mutated(d) = [replicas |-> n, observed |-> FALSE, ready |-> 0, fit |-> TRUE]
    BY <1>1, <1>2 DEF Mutated, Deployment
  <2>2. \A b, f \in BOOLEAN : LET v == [replicas |-> n, observed |-> b, ready |-> 0, fit |-> f]
                              IN  v \in Deployments /\ v.replicas = n
    BY SMT DEF Deployments
  <2> QED BY <1>1, <2>1, <2>2
<1>3. CASE d # Nil /\ d.replicas = n
  BY <1>1, <1>3 DEF Mutated
<1>4. CASE d # Nil /\ d.replicas # n
  <2>1. Mutated(d) = [d EXCEPT !.replicas = n, !.observed = FALSE]
    BY <1>1, <1>4 DEF Mutated
  <2>2. PICK e : e = [d EXCEPT !.replicas = n]
    OBVIOUS
  <2>3. e \in Deployments /\ e.replicas = n
    BY SMT, <1>4, <2>2 DEF Deployments
  <2>4. \A b \in BOOLEAN : [e EXCEPT !.observed = b] \in Deployments /\ [e EXCEPT !.observed = b].replicas = e.replicas
    BY SMT, <2>3 DEF Deployments
  <2>5. Mutated(d) = [e EXCEPT !.observed = FALSE]
    BY <2>1, <2>2
  <2> QED BY <1>1, <2>3, <2>4, <2>5
<1> QED BY <1>2, <1>3, <1>4

\* CreateOrUpdate, of a rollback before the Service or of any phase after it.
LEMMA DeploymentStep ==
    ASSUME HandoffInv, CreateOrUpdate("ready", "select") \/ ServiceFirst
    PROVE  HandoffInv' /\ SafeStep
<1>1. /\ obj \in Cluster /\ seen \in Cluster /\ seen.orig \in Deployments \cup {Nil}
      /\ rec \in [at : {"idle", "ready", "select", "put", "deploy"}, nm : Phases, selector : {Nil, "orig", "cand"}]
  BY SMT, ClusterFields DEF HandoffInv, HandoffTypeOK
<1>2. PICK l \in {"select", "idle"} :
        \/ Goto(l) /\ Untouched /\ "orig" \notin behind
        \/ Fail /\ Untouched
        \/ Goto(l) /\ Write("orig", Mutated(seen.orig)) /\ Mutated(seen.orig) # seen.orig
  BY DEF CreateOrUpdate, ServiceFirst
<1>3. rec.nm = "retired" => ~Selects("orig")
  BY DEF CreateOrUpdate, ServiceFirst, HandoffInv, ReconcilerInv, Selects
<1>4. CASE Goto(l)
  <2>1. rec' = [at |-> l, nm |-> rec.nm, selector |-> rec.selector]
    BY SMT, <1>1, <1>4 DEF Goto
  <2>2. ReconcilerInv'
    BY SMT, <2>1 DEF ReconcilerInv
  <2>3. rec' \in [at : {"idle", "ready", "select", "put", "deploy"}, nm : Phases, selector : {Nil, "orig", "cand"}]
    BY SMT, <1>1, <2>1
  <2>4. CASE Untouched /\ "orig" \notin behind
    <3>1. HandoffTypeOK'
      BY <2>3, <2>4 DEF HandoffInv, HandoffTypeOK, Untouched
    <3>2. seen'.orig = obj'.orig
      <4>1. seen["orig"] = obj["orig"] /\ seen' = seen /\ obj' = obj
        BY <2>4 DEF HandoffInv, CacheInv, Names, Untouched
      <4> QED BY SMT, <4>1
    <3>3. OriginalInv'
      BY SMT, <2>1, <3>2 DEF OriginalInv
    <3> QED BY <2>2, <2>4, <3>1, <3>3, ReadingStep
  <2>5. CASE Write("orig", Mutated(seen.orig)) /\ Mutated(seen.orig) # seen.orig
    <3>1. PICK v \in Deployments : v = Mutated(seen.orig) /\ v.replicas = IF rec.nm = "retired" THEN 0 ELSE 1
      BY <1>1, MutatedOriginal
    <3>2. "svc" \in Names /\ "orig" \in Names /\ v \in Placed("orig") /\ "svc" # "orig"
      BY <3>1 DEF Names, Placed
    <3>3. /\ obj' \in Cluster /\ seen' \in Cluster /\ behind' \subseteq Lagging
          /\ CacheInv' /\ obj'["orig"] = v /\ obj'["svc"] = obj["svc"]
          /\ seen'["orig"] \in {seen["orig"], obj'["orig"]}
      BY <2>5, <3>1, <3>2, WriteEffect DEF HandoffInv
    <3>4. HandoffTypeOK'
      BY <2>3, <3>3 DEF HandoffTypeOK
    <3>5. SafeStep
      BY SMTT(30), <1>3, <3>1, <3>3 DEF SafeStep, Selects
    <3>6. OriginalInv'
      <4>1. rec.nm = "rollback" => ~Up(seen.orig)
        <5> SUFFICES ASSUME rec.nm = "rollback", Up(seen.orig) PROVE FALSE
          OBVIOUS
        <5>1. seen.orig # Nil /\ seen.orig \in Deployments /\ seen.orig.replicas > 0
          BY <1>1 DEF Up
        <5>2. seen.orig.replicas = 1
          BY SMT, <5>1 DEF Deployments
        <5> QED BY <2>5, <5>1, <5>2 DEF Mutated
      <4>2. seen'.orig = seen.orig \/ seen'.orig = obj'.orig
        BY SMT, <3>3
      <4>3. rec'.nm = rec.nm /\ rec'.at = l /\ l # "put"
        BY SMT, <2>1
      <4> QED BY <4>1, <4>2, <4>3 DEF OriginalInv
    <3> QED BY <2>2, <3>3, <3>4, <3>5, <3>6 DEF HandoffInv
  <2> QED BY <1>2, <1>4, <2>4, <2>5, FailStep
<1> QED BY <1>2, <1>4, FailStep

\* Every step of the operator and of the world around it keeps the invariant.
LEMMA HandoffStep ==
    ASSUME HandoffInv, [HandoffNext]_handoffVars
    PROVE  HandoffInv' /\ SafeStep
<1>1. CASE ReconcileStep
  BY <1>1, DecideStep, ServiceStep, DeploymentStep DEF ReconcileStep
<1>2. CASE UNCHANGED handoffVars
  <2>1. HandoffInv'
    BY <1>2 DEF handoffVars, HandoffInv, HandoffTypeOK, CacheInv, ReconcilerInv, OriginalInv
  <2>2. SafeStep
    BY SMT, <1>2 DEF handoffVars, SafeStep, Selects
  <2> QED BY <2>1, <2>2
<1>3. CASE HandoffNext /\ ~ReconcileStep
  BY <1>3, WorldKeeps DEF HandoffNext, Names
<1> QED BY <1>1, <1>2, <1>3

\* The operator starts with nothing created and an up to date cache.
LEMMA HandoffInitially == HandoffInit => HandoffInv
<1> SUFFICES ASSUME HandoffInit PROVE HandoffInv
  OBVIOUS
<1>1. [Deployment(1) EXCEPT !.observed = TRUE, !.ready = 1] \in Deployments
  <2>1. \A b, f \in BOOLEAN : LET v == [replicas |-> 1, observed |-> b, ready |-> 0, fit |-> f]
                              IN  v \in Deployments /\ v.replicas = 1
    BY SMT DEF Deployments
  <2>2. Deployment(1) \in Deployments /\ Deployment(1).replicas = 1
    BY <2>1 DEF Deployment
  <2> QED BY <2>2, WrittenDeployments
<1>2. PICK d \in Deployments : obj = [cr |-> Nil, orig |-> Nil, svc |-> Nil, cand |-> d]
  BY <1>1 DEF HandoffInit
<1>3. obj \in Cluster
  BY SMT, <1>2 DEF Cluster, Phases
<1>4. HandoffTypeOK
  BY <1>3 DEF HandoffInit, HandoffTypeOK, Idle, Phases
<1>5. CacheInv /\ ReconcilerInv /\ OriginalInv
  BY DEF HandoffInit, CacheInv, ReconcilerInv, OriginalInv, Idle
<1> QED BY <1>4, <1>5 DEF HandoffInv

\* Reconcile keeps the invariant whatever its informer cache shows: the Service
\* is put before the Deployment is retired, and the deployments are what it says.
THEOREM HandoffInvariant == HandoffSpec => []HandoffInv
<1>1. HandoffInv /\ [HandoffNext]_handoffVars => HandoffInv'
  BY HandoffStep
<1> QED BY <1>1, HandoffInitially, PTL DEF HandoffSpec

\* Whatever the cache shows: the original is scaled to nothing only once the
\* Service has left it, and without an intent the Service keeps its backend.
THEOREM HandoverIsOrdered == HandoffSpec => RetiredAfterHandover /\ RemovalSwitchesNothing
<1>1. HandoffInv /\ [HandoffNext]_handoffVars =>
        /\ [obj.orig # Nil /\ obj.orig.replicas > 0 /\ obj'.orig.replicas = 0 => ~Selects("orig")]_handoffVars
        /\ [obj.svc # Nil /\ obj'.svc # Nil /\ obj'.svc # obj.svc => rec.nm # Nil]_handoffVars
  BY HandoffStep DEF SafeStep
<1> QED BY <1>1, HandoffInvariant, PTL DEF HandoffSpec, RetiredAfterHandover, RemovalSwitchesNothing

\* However far the informer cache is behind, a handover, a rollback and the
\* removal of the intent never leave the Service without a sender.
THEOREM HandoverIsSafe == HandoffSpec => HandoverKeepsASender
<1>1. HandoffInv /\ [HandoffNext]_handoffVars =>
        [Selects("cand") /\ obj'.svc # Nil /\ obj'.svc.selects = "orig"
           => obj.orig # Nil /\ obj.orig.replicas > 0 /\ obj.orig.observed]_handoffVars
  BY HandoffStep DEF SafeStep, Up
<1> QED BY <1>1, HandoffInvariant, HandoverIsOrdered, PTL
        DEF HandoffSpec, HandoverKeepsASender, RollbackReadiesFirst

-----------------------------------------------------------------------------
(***************************************************************************)
(* MemoryPipeline: an alert that the store has taken is in one place.      *)
(***************************************************************************)
BatchType ==
    [alerts : Seq(Alerts), at : {"waiting", "working", "done", "dropped", "timeout", "leaked"},
     history : {"none", "due", "written", "lost"}, tries : Nat, inline : BOOLEAN]

MemoryTypeOK ==
    /\ handler \in [Handlers -> [at : {"idle", "pushing", "ok", "refused", "broken"}, next : Nat \ {0}]]
    /\ channel \in Seq(Alerts) /\ store \in {"open", "closing", "closed"}
    /\ run \in [at : {"pulling", "last", "exited"}, batch : Seq(Alerts)]
    /\ batches \in Seq(BatchType)

\* A request that pushes has an alert to push, one that was answered has none; and
\* Run goes on to its last batch only when the channel is closed and empty.
ProgressInv ==
    /\ \A h \in Handlers :
          /\ handler[h].next <= Len(Requests[h]) + 1
          /\ handler[h].at = "idle" => handler[h].next = 1
          /\ handler[h].at = "pushing" => handler[h].next <= Len(Requests[h])
          /\ handler[h].at = "ok" => handler[h].next = Len(Requests[h]) + 1
    /\ run.at # "pulling" => store = "closed" /\ channel = <<>> /\ run.batch = <<>>

MemoryInv == MemoryTypeOK /\ ProgressInv /\ AcceptedOnce

\* What is taken from, and put into, a queue without repetitions.
LEMMA QueueAppend ==
    ASSUME NEW S, NEW q \in Seq(S), NEW x \in S
    PROVE  /\ Append(q, x) \in Seq(S) /\ Range(Append(q, x)) = Range(q) \cup {x}
           /\ IsInjective(q) /\ x \notin Range(q) => IsInjective(Append(q, x))
<1>1. /\ Append(q, x) \in Seq(S) /\ Len(q) \in Nat /\ DOMAIN q = 1 .. Len(q)
      /\ DOMAIN Append(q, x) = 1 .. Len(q) + 1 /\ Append(q, x)[Len(q) + 1] = x
      /\ \A i \in 1 .. Len(q) : Append(q, x)[i] = q[i]
    BY SMT
<1>2. Range(Append(q, x)) = Range(q) \cup {x}
    BY SMTT(30), <1>1 DEF Range
<1>3. IsInjective(q) /\ x \notin Range(q) => IsInjective(Append(q, x))
    BY SMT, <1>1 DEF Range, IsInjective
<1> QED
    BY <1>1, <1>2, <1>3

\* Pull and PullBatch take the head: what remains has no alert twice, and not
\* the one that was taken.
LEMMA QueueTail ==
    ASSUME NEW S, NEW q \in Seq(S), q # <<>>, IsInjective(q)
    PROVE  /\ Tail(q) \in Seq(S) /\ Head(q) \in S /\ Head(q) \in Range(q)
           /\ Range(Tail(q)) = Range(q) \ {Head(q)} /\ IsInjective(Tail(q))
<1>1. /\ Tail(q) \in Seq(S) /\ Head(q) \in S /\ Head(q) = q[1] /\ Len(q) \in Nat \ {0} /\ DOMAIN q = 1 .. Len(q)
      /\ DOMAIN Tail(q) = 1 .. Len(q) - 1
      /\ \A i \in 1 .. Len(q) - 1 : Tail(q)[i] = q[i + 1]
    BY SMT
<1>2. Head(q) \in Range(q)
    BY SMT, <1>1 DEF Range
<1>3. Range(Tail(q)) = Range(q) \ {Head(q)}
  <2>1. ASSUME NEW y \in Range(Tail(q)) PROVE y \in Range(q) \ {Head(q)}
    <3>1. PICK i \in 1 .. Len(q) - 1 : y = q[i + 1]
        BY <1>1 DEF Range
    <3>2. i + 1 \in DOMAIN q /\ i + 1 # 1 /\ 1 \in DOMAIN q
        BY SMT, <1>1
    <3> QED
        BY <1>1, <3>1, <3>2 DEF Range, IsInjective
  <2>2. ASSUME NEW y \in Range(q) \ {Head(q)} PROVE y \in Range(Tail(q))
    <3>1. PICK i \in 1 .. Len(q) : y = q[i] /\ i # 1
        BY <1>1 DEF Range
    <3>2. i - 1 \in 1 .. Len(q) - 1 /\ (i - 1) + 1 = i
        BY SMTT(30), <1>1, <3>1
    <3> QED
        BY <1>1, <3>1, <3>2 DEF Range
  <2> QED
      BY <2>1, <2>2
<1>4. IsInjective(Tail(q))
    BY SMT, <1>1 DEF IsInjective
<1> QED
    BY <1>1, <1>2, <1>3, <1>4

\* Nothing is pushed yet.
LEMMA MemoryInvInitially == MemoryInit => MemoryInv
<1> SUFFICES ASSUME MemoryInit PROVE MemoryInv
    OBVIOUS
<1>1. MemoryTypeOK
    BY SMT DEF MemoryInit, MemoryTypeOK
<1>2. run.at = "pulling" /\ run.batch = <<>> /\ channel = <<>> /\ batches = <<>>
    BY SMT DEF MemoryInit
<1>3. \A h \in Handlers : handler[h].at = "idle" /\ handler[h].next = 1
    BY SMT DEF MemoryInit
<1>a. \A h \in Handlers : 1 <= Len(Requests[h]) + 1
  <2>1. \A h \in Handlers : Requests[h] \in Seq(Alerts)
      BY MemoryConstants
  <2> QED
      BY SMT, <2>1
<1>4. Range(<<>>) = {} /\ IsInjective(<<>>) /\ DOMAIN <<>> = {}
    BY SMT DEF Range, IsInjective
<1>5. 1 .. (1 - 1) = {}
    BY SMT
<1>6. Pushed = {}
    BY <1>3, <1>5 DEF Pushed
<1> QED
    BY <1>1, <1>2, <1>3, <1>a, <1>4, <1>6 DEF MemoryInv, ProgressInv, AcceptedOnce

\* As long as no alert moves, and no request is answered with 200, none is lost.
LEMMA NothingMoves ==
    ASSUME AcceptedOnce, channel' = channel, run'.batch = run.batch, DOMAIN batches' = DOMAIN batches,
           \A i \in DOMAIN batches : batches'[i].alerts = batches[i].alerts,
           \A h \in Handlers : /\ handler'[h].next = handler[h].next
                               /\ handler'[h].at = "ok" => handler[h].at = "ok"
    PROVE  AcceptedOnce'
<1>1. Pushed' = Pushed
    BY DEF Pushed
<1>2. \A i \in DOMAIN batches : InBatch(i)' = InBatch(i)
    BY DEF InBatch
<1>3. UNION {InBatch(i)' : i \in DOMAIN batches'} = UNION {InBatch(i) : i \in DOMAIN batches}
    BY <1>2
<1> QED
    BY <1>1, <1>2, <1>3 DEF AcceptedOnce

\* Alert: a request is taken, refused, or pushes its next alert, which nobody else
\* pushes and which it has not pushed before.
LEMMA HandlerStep ==
    ASSUME MemoryInv, NEW h \in Handlers, Accepting(h) \/ PushAlert(h) \/ PushTimeout(h)
    PROVE  MemoryInv'
<1> DEFINE HandlerType == [at : {"idle", "pushing", "ok", "refused", "broken"}, next : Nat \ {0}]
<1>0. /\ MemoryTypeOK /\ ProgressInv /\ AcceptedOnce /\ handler \in [Handlers -> HandlerType]
      /\ handler[h] \in HandlerType /\ UNCHANGED <<store, run, batches>>
    BY DEF MemoryInv, MemoryTypeOK, Accepting, PushAlert, PushTimeout
<1>r. Requests[h] \in Seq(Alerts) /\ Requests[h] # <<>> /\ Len(Requests[h]) \in Nat \ {0}
  <2>1. Requests[h] \in Seq(Alerts) /\ Requests[h] # <<>>
      BY MemoryConstants
  <2> QED
      BY SMT, <2>1
<1>1. ASSUME NEW a \in {"pushing", "refused", "broken"}, Respond(h, a), channel' = channel,
             a = "pushing" => handler[h].at = "idle"
      PROVE  MemoryInv'
  <2>1. [handler[h] EXCEPT !.at = a] \in HandlerType
      BY SMT, <1>0
  <2>2. PICK r \in HandlerType : r = [handler[h] EXCEPT !.at = a]
      BY <2>1
  <2>3. r.at = a /\ r.next = handler[h].next
      BY SMTT(30), <1>0, <2>2
  <2>4. handler' = [handler EXCEPT ![h] = r]
      BY <1>1, <2>2 DEF Respond
  <2>5. handler' \in [Handlers -> HandlerType] /\ \A g \in Handlers : handler'[g] = IF g = h THEN r ELSE handler[g]
      BY <1>0, <2>4
  <2>6. MemoryTypeOK'
      BY <1>0, <1>1, <2>5 DEF MemoryTypeOK
  <2>7. AcceptedOnce'
      BY <1>0, <1>1, <2>3, <2>5, NothingMoves
  <2>8. 1 <= Len(Requests[h])
      BY SMT, <1>r
  <2>9. ProgressInv'
      BY ZenonT(30), <1>0, <1>1, <2>3, <2>5, <2>8 DEF ProgressInv
  <2> QED
      BY <2>6, <2>7, <2>9 DEF MemoryInv
<1>2. CASE Accepting(h)
    BY <1>1, <1>2 DEF Accepting
<1>3. CASE PushTimeout(h)
    BY <1>1, <1>3 DEF PushTimeout
<1>4. CASE PushAlert(h) /\ store = "closed"
    BY <1>1, <1>4 DEF PushAlert
<1>5. CASE PushAlert(h) /\ store # "closed"
  <2> DEFINE n == handler[h].next
             x == Requests[h][n]
  <2>1. n \in 1 .. Len(Requests[h]) /\ n \in Nat
      BY SMTT(30), <1>0, <1>5, <1>r DEF ProgressInv, PushAlert
  <2>2. x \in Alerts /\ x \in Range(Requests[h])
      BY SMT, <1>r, <2>1 DEF Range
  <2>3. PICK a \in {"pushing", "ok"} : a = IF n = Len(Requests[h]) THEN "ok" ELSE "pushing"
      OBVIOUS
  <2>4. [at |-> a, next |-> n + 1] \in HandlerType
      BY SMT, <2>1
  <2>5. PICK r \in HandlerType : r = [at |-> a, next |-> n + 1]
      BY <2>4
  <2>6. r.at = a /\ r.next = n + 1
      BY SMT, <2>5
  <2>7. handler' = [handler EXCEPT ![h] = r] /\ channel' = Append(channel, x)
      BY <1>5, <2>3, <2>5 DEF PushAlert
  <2>8. handler' \in [Handlers -> HandlerType] /\ \A g \in Handlers : handler'[g] = IF g = h THEN r ELSE handler[g]
      BY <1>0, <2>7
  <2>9. x \notin Pushed
    <3>1. SUFFICES ASSUME NEW g \in Handlers, NEW i \in 1 .. (handler[g].next - 1), x = Requests[g][i] PROVE FALSE
      <4> HIDE DEF x
      <4> QED
          BY DEF Pushed
    <3>2. i \in DOMAIN Requests[g] /\ n \in DOMAIN Requests[h] /\ (g = h => i # n)
      <4>1. handler[g] \in HandlerType /\ Requests[g] \in Seq(Alerts) /\ handler[g].next <= Len(Requests[g]) + 1
          BY <1>0, MemoryConstants DEF ProgressInv
      <4> QED
          BY SMTT(30), <1>r, <2>1, <4>1
    <3> HIDE DEF n
    <3>3. CASE g = h
        BY <3>1, <3>2, <3>3, MemoryConstants DEF IsInjective
    <3>4. CASE g # h
      <4>1. x \in Range(Requests[g])
          BY <3>1, <3>2 DEF Range
      <4> QED
          BY <2>2, <3>4, <4>1, MemoryConstants
    <3> QED
        BY <3>3, <3>4
  <2>10. 1 .. (r.next - 1) = 1 .. (n - 1) \cup {n}
      BY SMTT(30), <2>1, <2>6
  <2> HIDE DEF x, n
  <2>11. Pushed' = Pushed \cup {x}
    <3>1. \A g \in Handlers \ {h} : handler'[g] = handler[g]
        BY <2>8
    <3>2. n = handler[h].next /\ handler'[h].next = r.next /\ x = Requests[h][n]
        BY <2>8 DEF n, x
    <3>3. ASSUME NEW y \in Pushed' PROVE y \in Pushed \cup {x}
      <4>0. PICK g \in Handlers : \E i \in 1 .. (handler'[g].next - 1) : y = Requests[g][i]
          BY <3>3 DEF Pushed
      <4>1. PICK i \in 1 .. (handler'[g].next - 1) : y = Requests[g][i]
          BY <4>0
      <4>2. y \in Alerts
          BY <3>3 DEF Pushed
      <4>3. CASE g = h
          BY <2>10, <3>2, <4>1, <4>2, <4>3 DEF Pushed
      <4>4. CASE g # h
          BY <3>1, <4>1, <4>2, <4>4 DEF Pushed
      <4> QED
          BY <4>3, <4>4
    <3>4. ASSUME NEW y \in Pushed \cup {x} PROVE y \in Pushed'
      <4>1. CASE y = x
          BY <2>2, <2>10, <3>2, <4>1 DEF Pushed
      <4>2. CASE y # x
        <5>0. PICK g \in Handlers : \E i \in 1 .. (handler[g].next - 1) : y = Requests[g][i] /\ y \in Alerts
            BY <3>4, <4>2 DEF Pushed
        <5>1. PICK i \in 1 .. (handler[g].next - 1) : y = Requests[g][i] /\ y \in Alerts
            BY <5>0
        <5>2. i \in 1 .. (handler'[g].next - 1)
            BY <2>10, <3>1, <3>2
        <5> QED
            BY <5>1, <5>2 DEF Pushed
      <4> QED
          BY <4>1, <4>2
    <3> QED
        BY <3>3, <3>4
  <2>12. /\ channel' \in Seq(Alerts) /\ Range(channel') = Range(channel) \cup {x}
         /\ IsInjective(channel) /\ x \notin Range(channel) => IsInjective(channel')
    <3>1. channel \in Seq(Alerts)
        BY <1>0 DEF MemoryTypeOK
    <3>2. /\ Append(channel, x) \in Seq(Alerts) /\ Range(Append(channel, x)) = Range(channel) \cup {x}
          /\ IsInjective(channel) /\ x \notin Range(channel) => IsInjective(Append(channel, x))
        BY <2>2, <3>1, QueueAppend
    <3> QED
        BY <2>7, <3>2
  <2>13. \A i \in DOMAIN batches : InBatch(i)' = InBatch(i)
      BY <1>0 DEF InBatch
  <2>14. UNION {InBatch(i)' : i \in DOMAIN batches'} = UNION {InBatch(i) : i \in DOMAIN batches}
      BY <1>0, <2>13
  <2>15. \A g \in Handlers : handler'[g].at = "ok" => Range(Requests[g]) \subseteq Pushed \cup {x}
    <3>1. ASSUME a = "ok", NEW y \in Range(Requests[h]) PROVE y \in Pushed \cup {x}
      <4>1. n = Len(Requests[h])
          BY <2>3, <3>1, <1>5 DEF n, PushAlert
      <4>2. PICK i \in 1 .. (r.next - 1) : y = Requests[h][i]
          BY SMTT(30), <1>r, <2>1, <2>6, <3>1, <4>1 DEF Range
      <4>3. y \in Alerts /\ handler'[h] = r
          BY <2>8, <3>1 DEF Alerts
      <4>4. y \in Pushed'
          BY <4>2, <4>3 DEF Pushed
      <4> QED
          BY <2>11, <4>4
    <3> QED
        BY <1>0, <2>6, <2>8, <3>1 DEF AcceptedOnce
  <2>16. AcceptedOnce'
    <3>1. x \notin Range(channel) /\ x \notin Range(run.batch) /\ \A i \in DOMAIN batches : x \notin InBatch(i)
        BY <1>0, <2>9 DEF AcceptedOnce
    <3>2. (Pushed = Range(channel) \cup Range(run.batch) \cup UNION {InBatch(i) : i \in DOMAIN batches})'
      <4>1. Pushed = Range(channel) \cup Range(run.batch) \cup UNION {InBatch(i) : i \in DOMAIN batches}
          BY <1>0 DEF AcceptedOnce
      <4> QED
          BY <1>0, <2>11, <2>12, <2>14, <4>1
    <3>3. (IsInjective(channel) /\ IsInjective(run.batch) /\ Range(channel) \cap Range(run.batch) = {})'
        BY ZenonT(30), <1>0, <2>12, <3>1 DEF AcceptedOnce
    <3>4. ASSUME NEW i \in DOMAIN batches
          PROVE  /\ IsInjective(batches[i].alerts) /\ InBatch(i)' \cap (Range(channel') \cup Range(run.batch)) = {}
                 /\ \A k \in DOMAIN batches \ {i} : InBatch(i)' \cap InBatch(k)' = {}
      <4>1. /\ IsInjective(batches[i].alerts) /\ InBatch(i) \cap (Range(channel) \cup Range(run.batch)) = {}
            /\ \A k \in DOMAIN batches \ {i} : InBatch(i) \cap InBatch(k) = {}
          BY <1>0 DEF AcceptedOnce
      <4> QED
          BY <2>12, <2>13, <3>1, <4>1
    <3> QED
        BY <1>0, <2>11, <2>15, <3>2, <3>3, <3>4 DEF AcceptedOnce
  <2>17. ProgressInv'
    <3>1. run.at = "pulling"
        BY <1>0, <1>5 DEF ProgressInv
    <3>2. r.next <= Len(Requests[h]) + 1 /\ (a = "pushing" => r.next <= Len(Requests[h]))
          /\ (a = "ok" => r.next = Len(Requests[h]) + 1)
      <4>1. a = "ok" <=> n = Len(Requests[h])
          BY <2>3, <1>5 DEF n, PushAlert
      <4> QED
          BY SMTT(30), <1>r, <2>1, <2>3, <2>6, <4>1
    <3> QED
        BY ZenonT(30), <1>0, <2>6, <2>8, <3>1, <3>2 DEF ProgressInv
  <2>18. MemoryTypeOK'
      BY <1>0, <2>8, <2>12 DEF MemoryTypeOK
  <2> QED
      BY ZenonT(30), <2>16, <2>17, <2>18 DEF MemoryInv
<1> QED
    BY <1>2, <1>3, <1>4, <1>5

\* What was pulled becomes a batch: the alerts that are in no batch yet are in the
\* channel and in the new one.
LEMMA BatchHandedOver ==
    ASSUME AcceptedOnce, MemoryTypeOK, NEW got \in Seq(Alerts), NEW b \in BatchType, b.alerts = got, IsInjective(got),
           IsInjective(channel'), Range(channel') \cap Range(got) = {},
           Range(channel') \cup Range(got) = Range(channel) \cup Range(run.batch),
           run'.batch = <<>>, batches' = Append(batches, b), UNCHANGED handler
    PROVE  AcceptedOnce' /\ batches' \in Seq(BatchType)
<1>1. /\ batches' \in Seq(BatchType) /\ Len(batches) \in Nat /\ DOMAIN batches = 1 .. Len(batches)
      /\ DOMAIN batches' = DOMAIN batches \cup {Len(batches) + 1} /\ Len(batches) + 1 \notin DOMAIN batches
      /\ batches'[Len(batches) + 1] = b /\ \A i \in DOMAIN batches : batches'[i] = batches[i]
    BY SMT DEF MemoryTypeOK
<1>2. PICK m : m = Len(batches) + 1
    OBVIOUS
<1>3. Pushed' = Pushed
    BY DEF Pushed
<1>4. InBatch(m)' = Range(got) /\ \A i \in DOMAIN batches : InBatch(i)' = InBatch(i)
    BY <1>1, <1>2 DEF InBatch
<1>5. UNION {InBatch(i)' : i \in DOMAIN batches'} = (UNION {InBatch(i) : i \in DOMAIN batches}) \cup Range(got)
    BY ZenonT(30), <1>1, <1>2, <1>4
<1>6. Range(<<>>) = {} /\ IsInjective(<<>>)
    BY SMT DEF Range, IsInjective
<1>7. Pushed' = Range(channel') \cup Range(run'.batch) \cup UNION {InBatch(i)' : i \in DOMAIN batches'}
  <2>1. Pushed = Range(channel) \cup Range(run.batch) \cup UNION {InBatch(i) : i \in DOMAIN batches}
      BY DEF AcceptedOnce
  <2> QED
      BY <1>3, <1>5, <1>6, <2>1
<1>8. ASSUME NEW i \in DOMAIN batches'
      PROVE  /\ IsInjective(batches'[i].alerts)
             /\ InBatch(i)' \cap (Range(channel') \cup Range(run'.batch)) = {}
             /\ \A k \in DOMAIN batches' \ {i} : InBatch(i)' \cap InBatch(k)' = {}
  <2>0. \A k \in DOMAIN batches : InBatch(k) \cap (Range(channel') \cup Range(got)) = {}
      BY DEF AcceptedOnce
  <2>1. CASE i = m
    <3>1. \A k \in DOMAIN batches' \ {i} : k \in DOMAIN batches
        BY <1>1, <1>2, <2>1
    <3>2. IsInjective(batches'[i].alerts) /\ InBatch(i)' = Range(got)
        BY <1>1, <1>2, <1>4, <2>1
    <3>3. ASSUME NEW k \in DOMAIN batches' \ {i} PROVE Range(got) \cap InBatch(k)' = {}
        BY ZenonT(30), <1>4, <2>0, <3>1
    <3> QED
        BY <1>6, <3>2, <3>3
  <2>2. CASE i # m
    <3>1. i \in DOMAIN batches
        BY <1>1, <1>2, <2>2
    <3>2. InBatch(i)' = InBatch(i) /\ IsInjective(batches'[i].alerts)
        BY <1>1, <1>4, <3>1 DEF AcceptedOnce
    <3>3. ASSUME NEW k \in DOMAIN batches' \ {i} PROVE InBatch(i) \cap InBatch(k)' = {}
      <4>1. CASE k = m
          BY <1>4, <2>0, <3>1, <4>1
      <4>2. CASE k \in DOMAIN batches
          BY <1>4, <3>1, <4>2 DEF AcceptedOnce
      <4> QED
          BY <1>1, <1>2, <4>1, <4>2
    <3>4. InBatch(i) \cap (Range(channel') \cup Range(run'.batch)) = {}
        BY <1>6, <2>0, <3>1
    <3> QED
        BY <3>2, <3>3, <3>4
  <2> QED
      BY <2>1, <2>2
<1>9. \A h \in Handlers : handler'[h].at = "ok" => Range(Requests[h]) \subseteq Pushed'
    BY <1>3 DEF AcceptedOnce
<1> QED
    BY ZenonT(30), <1>1, <1>6, <1>7, <1>8, <1>9 DEF AcceptedOnce

\* A batch, as it is made.
LEMMA BatchMade ==
    ASSUME NEW got \in Seq(Alerts), NEW inline \in BOOLEAN
    PROVE  Batch(got, inline) \in BatchType /\ Batch(got, inline).alerts = got
BY SMT DEF Batch, BatchType

\* Dispatcher.Run: alerts are pulled and batched, and Run ends.
LEMMA RunStep ==
    ASSUME MemoryInv, Receive \/ BatchWait \/ StoreClosed \/ RunReturns
    PROVE  MemoryInv'
<1> DEFINE RunType == [at : {"pulling", "last", "exited"}, batch : Seq(Alerts)]
<1>0. /\ MemoryTypeOK /\ ProgressInv /\ AcceptedOnce /\ UNCHANGED <<handler, store>>
      /\ channel \in Seq(Alerts) /\ run \in RunType
    BY DEF MemoryInv, MemoryTypeOK, Receive, BatchWait, StoreClosed, RunReturns
<1>1. run.batch \in Seq(Alerts) /\ <<>> \in Seq(Alerts)
    BY SMT, <1>0
<1>2. IsInjective(channel) /\ IsInjective(run.batch) /\ Range(channel) \cap Range(run.batch) = {}
    BY <1>0 DEF AcceptedOnce
<1>3. ASSUME NEW q \in Seq(Alerts) PROVE /\ [run EXCEPT !.batch = q] \in RunType
                                         /\ [run EXCEPT !.batch = q].batch = q /\ [run EXCEPT !.batch = q].at = run.at
    BY SMTT(30), <1>0
<1>4. CASE Receive
  <2> DEFINE got == Append(run.batch, Head(channel))
  <2>1. /\ run.at = "pulling" /\ channel # <<>> /\ channel' = Tail(channel)
        /\ \/ batches' = Append(batches, Batch(got, FALSE)) /\ run' = [run EXCEPT !.batch = <<>>]
           \/ run' = [run EXCEPT !.batch = got] /\ UNCHANGED batches
      BY <1>4 DEF Receive
  <2>2. /\ Tail(channel) \in Seq(Alerts) /\ Head(channel) \in Alerts /\ Head(channel) \in Range(channel)
        /\ Range(Tail(channel)) = Range(channel) \ {Head(channel)} /\ IsInjective(Tail(channel))
      BY <1>0, <1>2, <2>1, QueueTail
  <2>3. got \in Seq(Alerts) /\ Range(got) = Range(run.batch) \cup {Head(channel)} /\ IsInjective(got)
    <3>1. Head(channel) \notin Range(run.batch)
        BY <1>2, <2>2
    <3>2. PICK x \in Alerts : x = Head(channel)
        BY <2>2
    <3>3. /\ Append(run.batch, x) \in Seq(Alerts) /\ Range(Append(run.batch, x)) = Range(run.batch) \cup {x}
          /\ IsInjective(run.batch) /\ x \notin Range(run.batch) => IsInjective(Append(run.batch, x))
        BY <1>1, QueueAppend
    <3> QED
        BY <1>2, <3>1, <3>2, <3>3
  <2> HIDE DEF got
  <2>4. /\ Range(channel') \cap Range(got) = {} /\ Range(channel') \cup Range(got) = Range(channel) \cup Range(run.batch)
        /\ channel' \in Seq(Alerts) /\ IsInjective(channel')
      BY <1>2, <2>1, <2>2, <2>3
  <2>5. CASE batches' = Append(batches, Batch(got, FALSE)) /\ run' = [run EXCEPT !.batch = <<>>]
    <3>1. AcceptedOnce' /\ batches' \in Seq(BatchType)
      <4>1. PICK b \in BatchType : b = Batch(got, FALSE) /\ b.alerts = got
          BY <2>3, BatchMade
      <4>2. run'.batch = <<>> /\ batches' = Append(batches, b)
          BY <1>1, <1>3, <2>5, <4>1
      <4> QED
          BY <1>0, <2>3, <2>4, <4>1, <4>2, BatchHandedOver
    <3>2. run' \in RunType /\ run'.at = "pulling"
        BY <1>1, <1>3, <2>1, <2>5
    <3> QED
        BY <1>0, <2>4, <3>1, <3>2 DEF MemoryInv, MemoryTypeOK, ProgressInv
  <2>6. CASE run' = [run EXCEPT !.batch = got] /\ UNCHANGED batches
    <3>1. run' \in RunType /\ run'.at = "pulling" /\ run'.batch = got
        BY <1>3, <2>1, <2>3, <2>6
    <3>2. Pushed' = Pushed /\ \A i \in DOMAIN batches : InBatch(i)' = InBatch(i)
        BY <1>0, <2>6 DEF Pushed, InBatch
    <3>3. UNION {InBatch(i)' : i \in DOMAIN batches'} = UNION {InBatch(i) : i \in DOMAIN batches}
        BY <2>6, <3>2
    <3>4. Pushed' = Range(channel') \cup Range(run'.batch) \cup UNION {InBatch(i)' : i \in DOMAIN batches'}
      <4>1. Pushed = Range(channel) \cup Range(run.batch) \cup UNION {InBatch(i) : i \in DOMAIN batches}
          BY <1>0 DEF AcceptedOnce
      <4> QED
          BY <2>4, <3>1, <3>2, <3>3, <4>1
    <3>5. ASSUME NEW i \in DOMAIN batches
          PROVE  /\ IsInjective(batches[i].alerts)
                 /\ InBatch(i)' \cap (Range(channel') \cup Range(run'.batch)) = {}
                 /\ \A k \in DOMAIN batches \ {i} : InBatch(i)' \cap InBatch(k)' = {}
        BY <1>0, <2>4, <3>1, <3>2 DEF AcceptedOnce
    <3>6. AcceptedOnce'
        BY <1>0, <2>3, <2>4, <2>6, <3>1, <3>2, <3>4, <3>5 DEF AcceptedOnce
    <3> QED
        BY <1>0, <2>4, <2>6, <3>1, <3>6 DEF MemoryInv, MemoryTypeOK, ProgressInv
  <2> QED
      BY <2>1, <2>5, <2>6
<1>5. ASSUME NEW inline \in BOOLEAN, batches' = Append(batches, Batch(run.batch, inline)), channel' = channel,
             run'.batch = <<>>
      PROVE  AcceptedOnce' /\ batches' \in Seq(BatchType)
  <2>1. PICK b \in BatchType : b = Batch(run.batch, inline) /\ b.alerts = run.batch
      BY <1>1, BatchMade
  <2> QED
      BY <1>0, <1>1, <1>2, <1>5, <2>1, BatchHandedOver
<1>6. CASE BatchWait
  <2>1. run' \in RunType /\ run'.at = "pulling" /\ run'.batch = <<>> /\ channel' = channel
      BY <1>1, <1>3, <1>6 DEF BatchWait
  <2>2. AcceptedOnce' /\ batches' \in Seq(BatchType)
      BY <1>5, <1>6, <2>1 DEF BatchWait
  <2> QED
      BY <1>0, <2>1, <2>2 DEF MemoryInv, MemoryTypeOK, ProgressInv
<1>7. CASE StoreClosed
  <2>1. run' \in RunType /\ run'.at = "last" /\ run'.batch = <<>>
      BY SMT, <1>1, <1>7 DEF StoreClosed
  <2>2. channel' = channel /\ channel = <<>> /\ store = "closed"
      BY <1>7 DEF StoreClosed
  <2>3. AcceptedOnce' /\ batches' \in Seq(BatchType)
      BY <1>5, <1>7, <2>1, <2>2 DEF StoreClosed
  <2> QED
      BY ZenonT(30), <1>0, <2>1, <2>2, <2>3 DEF MemoryInv, MemoryTypeOK, ProgressInv
<1>8. CASE RunReturns
  <2>1. run' \in RunType /\ run'.at = "exited" /\ run'.batch = run.batch
      BY SMTT(30), <1>0, <1>8 DEF RunReturns
  <2>2. UNCHANGED <<channel, batches>> /\ run.at = "last"
      BY <1>8 DEF RunReturns
  <2>3. AcceptedOnce'
      BY <1>0, <2>1, <2>2, NothingMoves
  <2> QED
      BY <1>0, <2>1, <2>2, <2>3 DEF MemoryInv, MemoryTypeOK, ProgressInv
<1> QED
    BY <1>4, <1>6, <1>7, <1>8

\* processAlerts and the history stage move no alert.
LEMMA BatchStep ==
    ASSUME MemoryInv, NEW i \in DOMAIN batches, Process(i) \/ PipelineReturns(i) \/ History(i)
    PROVE  MemoryInv'
<1>0. /\ MemoryTypeOK /\ ProgressInv /\ AcceptedOnce /\ UNCHANGED <<handler, channel, store, run>>
      /\ batches[i] \in BatchType /\ batches \in Seq(BatchType)
  <2>1. MemoryTypeOK /\ ProgressInv /\ AcceptedOnce /\ UNCHANGED <<handler, channel, store, run>>
      BY DEF MemoryInv, Process, getWorker, ScheduleTimeout, WorkerTimeout, Turn, PipelineReturns, History
  <2> QED
      BY SMT, <2>1 DEF MemoryTypeOK
<1>1. ASSUME NEW b \in BatchType, b.alerts = batches[i].alerts, batches' = [batches EXCEPT ![i] = b]
      PROVE  MemoryInv'
  <2>1. batches' \in Seq(BatchType) /\ DOMAIN batches' = DOMAIN batches
      BY SMTT(30), <1>0, <1>1
  <2>2. \A k \in DOMAIN batches : batches'[k].alerts = batches[k].alerts
      BY <1>0, <1>1
  <2>3. AcceptedOnce'
      BY <1>0, <2>1, <2>2, NothingMoves
  <2> QED
      BY <1>0, <2>1, <2>3 DEF MemoryInv, MemoryTypeOK, ProgressInv
<1>e. ASSUME NEW q, NEW b
      PROVE  /\ [[batches EXCEPT ![i] = q] EXCEPT ![i] = b] = [batches EXCEPT ![i] = b]
             /\ [batches EXCEPT ![i] = q][i] = q
  <2>1. batches = [k \in DOMAIN batches |-> batches[k]]
      BY SMT, <1>0
  <2> QED
      BY <2>1
<1>2. ASSUME NEW a \in {"working", "dropped", "timeout"}, Turn(i, a) PROVE MemoryInv'
  <2>1. PICK r \in BatchType : r = batches[i]
      BY <1>0
  <2>2. [r EXCEPT !.at = a] \in BatchType /\ [r EXCEPT !.at = a].alerts = r.alerts
      BY SMT DEF BatchType
  <2> QED
      BY <1>1, <1>2, <2>1, <2>2 DEF Turn
<1>3. CASE Process(i)
    BY <1>2, <1>3 DEF Process, getWorker, ScheduleTimeout, WorkerTimeout
<1>4. CASE PipelineReturns(i)
  <2>1. PICK a \in {"done", "leaked"} : a = IF batches[i].at = "working" THEN "done" ELSE "leaked"
      OBVIOUS
  <2>2. PICK r \in BatchType : r = batches[i]
      BY <1>0
  <2>3. [r EXCEPT !.at = a] \in BatchType /\ [r EXCEPT !.at = a].alerts = r.alerts
      BY SMT DEF BatchType
  <2>4. PICK q \in BatchType : q = [r EXCEPT !.at = a] /\ q.alerts = r.alerts
      BY <2>3
  <2>5. [q EXCEPT !.history = "due"] \in BatchType /\ [q EXCEPT !.history = "due"].alerts = q.alerts
      BY SMT DEF BatchType
  <2>6. PICK b \in BatchType : b = [q EXCEPT !.history = "due"] /\ b.alerts = batches[i].alerts
      BY <2>2, <2>4, <2>5
  <2>7. PICK f : f = [batches EXCEPT ![i].at = IF @ = "working" THEN "done" ELSE "leaked"]
      OBVIOUS
  <2>8. f = [batches EXCEPT ![i] = q] /\ batches' = [f EXCEPT ![i].history = "due"]
      BY <1>4, <2>1, <2>2, <2>4, <2>7 DEF PipelineReturns
  <2>9. batches' = [batches EXCEPT ![i] = b]
      BY <1>e, <2>6, <2>8
  <2> QED
      BY <1>1, <2>6, <2>9
<1>5. CASE History(i)
  <2>1. PICK h \in {"written", "lost", "due"} : batches' = [batches EXCEPT ![i].tries = @ + 1, ![i].history = h]
      BY <1>5 DEF History
  <2>2. PICK r \in BatchType : r = batches[i]
      BY <1>0
  <2>3. [r EXCEPT !.tries = @ + 1] \in BatchType /\ [r EXCEPT !.tries = @ + 1].alerts = r.alerts
      BY SMT DEF BatchType
  <2>4. PICK q \in BatchType : q = [r EXCEPT !.tries = @ + 1] /\ q.alerts = r.alerts
      BY <2>3
  <2>5. [q EXCEPT !.history = h] \in BatchType /\ [q EXCEPT !.history = h].alerts = q.alerts
      BY SMT DEF BatchType
  <2>6. PICK b \in BatchType : b = [q EXCEPT !.history = h] /\ b.alerts = batches[i].alerts
      BY <2>2, <2>4, <2>5
  <2>7. PICK f : f = [batches EXCEPT ![i].tries = @ + 1]
      OBVIOUS
  <2>8. f = [batches EXCEPT ![i] = q] /\ batches' = [f EXCEPT ![i].history = h]
      BY <2>1, <2>2, <2>4, <2>7
  <2>9. batches' = [batches EXCEPT ![i] = b]
      BY <1>e, <2>6, <2>8
  <2> QED
      BY <1>1, <2>6, <2>9
<1> QED
    BY <1>3, <1>4, <1>5

\* MemoryInv holds however pushes, pulls, timeouts and the closing of the store meet.
THEOREM MemoryInvariant == MemorySpec => []MemoryInv
<1>1. MemoryInv /\ [MemoryNext]_memoryVars => MemoryInv'
  <2> SUFFICES ASSUME MemoryInv, [MemoryNext]_memoryVars PROVE MemoryInv'
      OBVIOUS
  <2>1. CASE UNCHANGED memoryVars
    <3>1. AcceptedOnce'
        BY <2>1, NothingMoves DEF memoryVars, MemoryInv
    <3> QED
        BY <2>1, <3>1 DEF memoryVars, MemoryInv, MemoryTypeOK, ProgressInv
  <2>2. CASE Close \/ CloseChannel
    <3>1. UNCHANGED <<handler, channel, run, batches>> /\ store # "closed" /\ store' \in {"closing", "closed"}
        BY <2>2 DEF Close, CloseChannel
    <3>2. AcceptedOnce'
        BY <3>1, NothingMoves DEF MemoryInv
    <3> QED
        BY <3>1, <3>2 DEF MemoryInv, MemoryTypeOK, ProgressInv
  <2>3. CASE MemoryNext
      BY <2>2, <2>3, HandlerStep, RunStep, BatchStep DEF MemoryNext
  <2> QED
      BY <2>1, <2>3
<1> QED
    BY <1>1, MemoryInvInitially, PTL DEF MemorySpec

\* An alert that the store has taken, and every alert of a request answered with
\* 200, is in one place, once, and none is in the channel when Run has returned:
\* for any requests, queue length and batch size, and whenever the store closes.
THEOREM AcceptedAlertsAreKept == MemorySpec => []AlertsAreKept
<1>1. MemoryInv => AlertsAreKept
    BY DEF MemoryInv, ProgressInv, AlertsAreKept, DrainedBeforeExit
<1> QED
    BY <1>1, MemoryInvariant, PTL

-----------------------------------------------------------------------------
(***************************************************************************)
(* FeishuNotifier: success means delivery, once.                           *)
(***************************************************************************)
FeishuAnswers == {"ok", "limit", "bad", "rejected", "invalid", "uncoded", "lost"}
SenderType ==
    [at : {"start", "posted", "done"}, posts : Nat, answer : FeishuAnswers \cup {Nil},
     err : {Nil, "nil", "error"}]

FeishuTypeOK ==
    /\ receiver \in ReceiverType
    /\ sender \in [Targets -> SenderType] /\ platform \in [Targets -> Nat]
    /\ notified \subseteq {"chatbot", "batch", "chats"} /\ captured \subseteq Targets

\* Where a sender is, and what Feishu has delivered to its target by then: nothing
\* before a request, and after one what its answer says, whether or not that
\* answer gets back.  Only a chat bot ends well on an answer that delivered nothing.
TargetInv(t, s, n, frozen) ==
    /\ s.at = "start" => n = 0 /\ s.answer = Nil /\ (frozen => s.posts = 0)
    /\ s.at = "posted" => n = IF s.answer \in {"ok", "invalid"} THEN 1 ELSE 0
    /\ s.at # "done" => s.err = Nil
    /\ n <= 1 /\ (frozen => s.posts <= 1)
    /\ s.err = "nil" => n = 1 \/ (t = "chatbot" /\ ~frozen /\ s.answer = "uncoded")

\* The inductive invariant of one Notify: the above for every target, and the
\* steps that report success have seen the senders end without an error.
FeishuInv ==
    /\ FeishuTypeOK
    /\ \A t \in Targets : TargetInv(t, sender[t], platform[t], receiver.frozen)
    /\ chats = "ok" => Fine(Own)
    /\ \A p \in notified : Fine(PartOf(p))
    /\ outcome = "nil" => Fine(receiver.targets)
    /\ \A c \in captured : platform[c] = 1 /\ sender[c].at = "done" /\ receiver.type = "interactive"

\* Nothing is sent yet.
LEMMA FeishuInvInitially == FeishuInit => FeishuInv
<1> SUFFICES ASSUME FeishuInit PROVE FeishuInv
    OBVIOUS
<1>1. FeishuTypeOK
    BY SMTT(30), FeishuConstants DEF FeishuInit, FeishuTypeOK, SenderType, FeishuAnswers
<1>2. \A t \in Targets : TargetInv(t, sender[t], platform[t], receiver.frozen)
    BY SMTT(30), FeishuConstants DEF FeishuInit, TargetInv
<1> QED
    BY <1>1, <1>2, FeishuConstants DEF FeishuInit, FeishuInv

\* Only an answer that says that nothing was delivered is followed by another
\* request, only a chat's interactive card is captured, and only the chat bot
\* reads an answer without a code as success.
LEMMA SendingKnows ==
    ASSUME FeishuTypeOK, NEW t \in Targets
    PROVE  /\ RetryOn(t) \subseteq {"limit", "bad"}
           /\ Sending(t).captures => receiver.type = "interactive"
           /\ Sending(t).sent \subseteq {"ok", "uncoded"}
           /\ "uncoded" \in Sending(t).sent => t = "chatbot" /\ ~receiver.frozen
BY SMT DEF RetryOn, Sending, BotReads, sendToChatBot, sendToChatBotInteractive, batchSend, batchSendInteractive,
           sendToChat, sendToChatInteractive

\* A sender that sends again, or ends.
LEMMA SenderTurns ==
    ASSUME NEW s \in SenderType, NEW a \in {"start", "posted", "done"}, NEW e \in {Nil, "nil", "error"},
           NEW n \in Nat, NEW b \in FeishuAnswers \cup {Nil}
    PROVE  /\ [s EXCEPT !.at = a, !.answer = Nil] \in SenderType
           /\ [s EXCEPT !.at = a, !.answer = b, !.err = e] \in SenderType
           /\ [s EXCEPT !.at = a, !.posts = n] \in SenderType
<1>1. [s EXCEPT !.at = a] \in SenderType
    BY SMT DEF SenderType
<1>2. PICK r \in SenderType : r = [s EXCEPT !.at = a]
    BY <1>1
<1>3. /\ [r EXCEPT !.answer = Nil] \in SenderType /\ [r EXCEPT !.answer = b] \in SenderType
      /\ [r EXCEPT !.posts = n] \in SenderType
    BY SMT DEF SenderType
<1>4. PICK q \in SenderType : q = [r EXCEPT !.answer = b]
    BY <1>3
<1>5. [q EXCEPT !.err = e] \in SenderType
    BY SMT DEF SenderType
<1> QED
    BY <1>2, <1>3, <1>4, <1>5

\* A sender that has not ended moves, in keeping with what was delivered: what
\* the rest of Notify has concluded from the senders that did end stands.
LEMMA SenderMoves ==
    ASSUME FeishuInv, NEW t \in Targets, NEW s \in SenderType, NEW n \in Nat, Moves(t, s),
           sender[t].at # "done", TargetInv(t, s, n, receiver.frozen),
           platform' = [platform EXCEPT ![t] = n], Elsewhere,
           \A c \in captured' \ captured :
               c = t /\ n = 1 /\ s.at = "done" /\ receiver.type = "interactive"
    PROVE  FeishuInv'
<1> USE DEF FeishuInv, FeishuTypeOK
<1>0. sender' \in [Targets -> SenderType] /\ platform' \in [Targets -> Nat] /\ UNCHANGED receiver
    BY DEF Moves, Elsewhere
<1>1. \A u \in Targets : /\ sender'[u] = (IF u = t THEN s ELSE sender[u])
                         /\ platform'[u] = (IF u = t THEN n ELSE platform[u])
    BY DEF Moves
<1>a. captured' \subseteq Targets
    BY SMT
<1>2. FeishuTypeOK'
    BY <1>0, <1>a DEF Elsewhere
<1>3. sender[t].err = Nil /\ Nil # "nil"
    BY FeishuConstants DEF TargetInv
<1>4. \A u \in Targets : sender[u].err = "nil" => sender'[u].err = "nil"
    BY <1>1, <1>3
<1>5. \A u \in Targets : TargetInv(u, sender[u], platform[u], receiver.frozen)' 
    BY <1>0, <1>1
<1>6. receiver.targets \subseteq Targets
    BY SMT DEF ReceiverType
<1>7. \A ts \in SUBSET Targets : Fine(ts) => Fine(ts)'
    BY <1>4 DEF Fine
<1>8. Own' = Own /\ Own \in SUBSET Targets /\ \A p : PartOf(p)' = PartOf(p) /\ PartOf(p) \in SUBSET Targets
    BY <1>0, <1>6 DEF Own, PartOf
<1>9. (chats = "ok" => Fine(Own))' /\ (outcome = "nil" => Fine(receiver.targets))'
    BY <1>0, <1>6, <1>7, <1>8 DEF Elsewhere
<1>10. \A p \in notified' : Fine(PartOf(p))'
    BY <1>7, <1>8 DEF Elsewhere
<1>11. \A c \in captured' : (platform[c] = 1 /\ sender[c].at = "done" /\ receiver.type = "interactive")'
    BY SMTT(30), <1>0, <1>1, <1>a
<1> QED
    BY <1>2, <1>5, <1>9, <1>10, <1>11

\* The senders: a request is made where nothing was delivered, and what follows
\* it keeps to the answer.
LEMMA FeishuSenderStep ==
    ASSUME FeishuInv, NEW t \in Targets, FeishuSender(t) \/ FeishuTakes(t)
    PROVE  FeishuInv'
<1>0. /\ sender[t] \in SenderType /\ platform[t] \in Nat /\ receiver.frozen \in BOOLEAN
      /\ TargetInv(t, sender[t], platform[t], receiver.frozen) /\ FeishuTypeOK
      /\ platform = [platform EXCEPT ![t] = platform[t]]
    BY SMT DEF FeishuInv, FeishuTypeOK, ReceiverType
<1>f. PICK frozen \in BOOLEAN : frozen = receiver.frozen
    BY <1>0
<1>1. CASE SendRefused(t)
  <2>1a. [sender[t] EXCEPT !.at = "done", !.answer = Nil, !.err = "error"] \in SenderType
      BY <1>0, SenderTurns
  <2>1. PICK s \in SenderType : s = [sender[t] EXCEPT !.at = "done", !.answer = Nil, !.err = "error"]
      BY <2>1a
  <2>2. Moves(t, s) /\ sender[t].at # "done" /\ Elsewhere /\ UNCHANGED <<platform, captured>>
      BY <1>1, <2>1 DEF SendRefused, Finish
  <2>3. TargetInv(t, s, platform[t], receiver.frozen)
      BY SMTT(30), <1>0, <1>1, <2>1, <1>f, FeishuConstants DEF TargetInv, SenderType, SendRefused
  <2> QED
      BY <1>0, <2>2, <2>3, SenderMoves
<1>2. CASE Post(t)
  <2>n. PICK n \in Nat : n = IF sender[t].posts < MaxPosts THEN sender[t].posts + 1 ELSE sender[t].posts
      BY SMTT(30), <1>0, FeishuConstants DEF SenderType
  <2>1. PICK s \in SenderType : s = [sender[t] EXCEPT !.at = "posted", !.posts = n]
      BY <1>0, SenderTurns
  <2>s. s = [sender[t] EXCEPT !.at = "posted", !.posts = IF @ < MaxPosts THEN @ + 1 ELSE @]
      BY SMTT(30), <1>0, <2>n, <2>1 DEF SenderType
  <2>2. Moves(t, s) /\ sender[t].at # "done" /\ Elsewhere /\ UNCHANGED <<platform, captured>>
      BY <1>2, <2>s DEF Post
  <2>3. TargetInv(t, s, platform[t], receiver.frozen)
      BY SMTT(30), <1>0, <1>2, <2>n, <2>1, <1>f, FeishuConstants DEF TargetInv, SenderType, Post
  <2> QED
      BY ZenonT(30), <1>0, <2>2, <2>3, SenderMoves
<1>3. CASE FeishuTakes(t)
  <2>1. PICK a \in FeishuAnswers :
            /\ Moves(t, [sender[t] EXCEPT !.answer = a])
            /\ platform' = [platform EXCEPT ![t] = IF a \in {"ok", "invalid"} THEN @ + 1 ELSE @]
      BY <1>3 DEF FeishuTakes, FeishuAnswers
  <2>2a. [sender[t] EXCEPT !.answer = a] \in SenderType
      BY SMTT(30), <1>0 DEF SenderType
  <2>2. PICK s \in SenderType : s = [sender[t] EXCEPT !.answer = a]
      BY <2>2a
  <2>3. PICK n \in Nat : n = IF a \in {"ok", "invalid"} THEN platform[t] + 1 ELSE platform[t]
      BY SMTT(30), <1>0
  <2>4. /\ Moves(t, s) /\ sender[t].at # "done" /\ Elsewhere /\ UNCHANGED captured
        /\ platform' = [platform EXCEPT ![t] = n]
      BY ZenonT(30), <1>3, <2>1, <2>2, <2>3 DEF FeishuTakes
  <2>5. TargetInv(t, s, n, receiver.frozen)
      BY SMTT(30), <1>0, <1>3, <2>2, <2>3, <1>f, FeishuConstants DEF TargetInv, SenderType, FeishuTakes, FeishuAnswers
  <2> QED
      BY <2>4, <2>5, SenderMoves
<1>4. ASSUME NEW a, sender[t].at = "posted", HandleAnswer(t, a),
             a = "lost" \/ (a # Nil /\ a = sender[t].answer)
      PROVE  FeishuInv'
  <2>0. Elsewhere /\ UNCHANGED platform
      BY <1>4 DEF HandleAnswer
  <2>1. CASE Again(t, a)
    <3>1. a \in {"limit", "bad"} /\ ~receiver.frozen
        BY <2>1, <1>0, SendingKnows DEF Again
    <3>2a. [sender[t] EXCEPT !.at = "start", !.answer = Nil] \in SenderType
        BY <1>0, SenderTurns
    <3>2. PICK s \in SenderType : s = [sender[t] EXCEPT !.at = "start", !.answer = Nil]
        BY <3>2a
    <3>3. Moves(t, s) /\ captured' = captured
        BY ZenonT(30), <1>4, <2>1, <3>1, <3>2 DEF HandleAnswer
    <3>4. TargetInv(t, s, platform[t], receiver.frozen)
        BY SMTT(30), <1>0, <1>4, <3>1, <3>2, FeishuConstants DEF TargetInv, SenderType
    <3> QED
        BY <1>0, <1>4, <2>0, <3>3, <3>4, SenderMoves
  <2>2. CASE ~Again(t, a)
    <3>1. PICK e \in {"nil", "error"} : e = IF a \in Sending(t).sent THEN "nil" ELSE "error"
        OBVIOUS
    <3>a. a \in FeishuAnswers
        BY SMT, <1>0, <1>4 DEF SenderType, FeishuAnswers
    <3>2a. [sender[t] EXCEPT !.at = "done", !.answer = a, !.err = e] \in SenderType
        BY <1>0, <3>a, SenderTurns
    <3>2. PICK s \in SenderType : s = [sender[t] EXCEPT !.at = "done", !.answer = a, !.err = e]
        BY <3>2a
    <3>b. e = "nil" => a = "ok" \/ (a = "uncoded" /\ t = "chatbot" /\ ~receiver.frozen)
        BY <1>0, <3>1, SendingKnows
    <3>3. Moves(t, s)
        BY ZenonT(30), <1>4, <2>2, <3>1, <3>2 DEF HandleAnswer, Finish
    <3>4. TargetInv(t, s, platform[t], receiver.frozen) /\ s.at = "done" /\ (a = "ok" => platform[t] = 1)
        BY SMTT(30), <1>0, <1>4, <3>b, <3>2, <1>f, FeishuConstants DEF TargetInv, SenderType
    <3>5. \A c \in captured' \ captured : c = t /\ a = "ok" /\ receiver.type = "interactive"
        BY <1>0, <1>4, SendingKnows DEF HandleAnswer
    <3> QED
        BY <1>0, <1>4, <2>0, <3>3, <3>4, <3>5, SenderMoves
  <2> QED
      BY <2>1, <2>2
<1>5. CASE ReadAnswer(t)
    BY <1>4, <1>5 DEF ReadAnswer
<1>6. CASE AnswerLost(t)
    BY <1>4, <1>6 DEF AnswerLost
<1> QED
    BY ZenonT(30), <1>1, <1>2, <1>3, <1>5, <1>6 DEF FeishuSender

\* Waiting for the chats, reporting and returning conclude from senders that ended.
LEMMA FeishuNotifyStep ==
    ASSUME FeishuInv, FeishuDeadline \/ WaitChats \/ Notify \/ \E p \in {"chatbot", "batch", "chats"} : Report(p)
    PROVE  FeishuInv'
<1> USE DEF FeishuInv
<1>0. /\ UNCHANGED <<receiver, sender, platform, captured>> /\ FeishuTypeOK
      /\ Own' = Own /\ \A p : PartOf(p)' = PartOf(p) /\ \A ts : Fine(ts)' = Fine(ts)
    BY DEF FeishuDeadline, WaitChats, Notify, Report, Own, PartOf, Fine
<1>1. receiver.targets \subseteq Targets
    BY SMT DEF FeishuTypeOK, ReceiverType
<1>2. \A p : Succeeded(p) => Fine(PartOf(p))
    BY DEF Succeeded, PartOf, Fine
<1>3. (\A p \in Parts : Succeeded(p)) => Fine(receiver.targets)
  <2> SUFFICES ASSUME \A p \in Parts : Succeeded(p), NEW t \in receiver.targets PROVE sender[t].err = "nil"
      BY DEF Fine
  <2>1. PICK p \in {"chatbot", "batch", "chats"} : t \in PartOf(p)
      BY <1>1 DEF PartOf, Own, Targets
  <2>2. p \in Parts
      BY <2>1 DEF Parts
  <2> QED
      BY <2>1, <2>2, <1>2 DEF Fine
<1>4. FeishuTypeOK' /\ \A t \in Targets : TargetInv(t, sender[t], platform[t], receiver.frozen)'
    BY <1>0 DEF FeishuDeadline, WaitChats, Notify, Report, FeishuTypeOK
<1>5. \A c \in captured' : (platform[c] = 1 /\ sender[c].at = "done" /\ receiver.type = "interactive")'
    BY <1>0
<1>6. (chats = "ok" => Fine(Own))'
    BY <1>0 DEF FeishuDeadline, WaitChats, Notify, Report
<1>7. \A p \in notified' : Fine(PartOf(p))'
    BY <1>0, <1>2 DEF FeishuDeadline, WaitChats, Notify, Report
<1>8. (outcome = "nil" => Fine(receiver.targets))'
    BY <1>0, <1>3 DEF FeishuDeadline, WaitChats, Notify, Report
<1> QED
    BY <1>4, <1>5, <1>6, <1>7, <1>8

\* FeishuInv holds throughout a Notify of the Feishu notifier, whatever answers are
\* lost, limited or late and whenever its context ends.
THEOREM FeishuInvariant == FeishuSpec => []FeishuInv
<1>1. FeishuInv /\ [FeishuNext]_feishuVars => FeishuInv'
  <2> SUFFICES ASSUME FeishuInv, [FeishuNext]_feishuVars PROVE FeishuInv'
      OBVIOUS
  <2>1. CASE UNCHANGED feishuVars
      BY ZenonT(30), <2>1 DEF feishuVars, FeishuInv, FeishuTypeOK, Fine, PartOf, Own
  <2>2. CASE FeishuNext
      BY <2>2, FeishuSenderStep, FeishuNotifyStep DEF FeishuNext
  <2> QED
      BY <2>1, <2>2
<1> QED
    BY <1>1, FeishuInvInitially, PTL DEF FeishuSpec

\* What the invariant says of success and of repetition.
LEMMA FeishuKeeps ==
    ASSUME FeishuInv
    PROVE  SuccessWasDelivered /\ CapturedWasDelivered /\ DeliveredAtMostOnce /\ FrozenSendsOnce
<1>1. receiver.targets \subseteq Targets /\ \A p : PartOf(p) \subseteq Targets
    BY SMT DEF FeishuInv, FeishuTypeOK, ReceiverType, PartOf, Own
<1>2. \A t \in Targets : /\ sender[t].err = "nil" => platform[t] = 1 \/ Misread(t)
                         /\ platform[t] <= 1 /\ (receiver.frozen => sender[t].posts <= 1)
    BY DEF FeishuInv, TargetInv, Misread
<1>3. 1 > 0
    BY SMTT(30)
<1> QED
    BY <1>1, <1>2, <1>3 DEF FeishuInv, Fine, SuccessWasDelivered, CapturedWasDelivered, DeliveredAtMostOnce,
        FrozenSendsOnce

-----------------------------------------------------------------------------
(***************************************************************************)
(* ChannelNotifiers: the same for the other channels, whose senders leave  *)
(* their results in stopCh.                                                *)
(***************************************************************************)
\* What the senders have in common.
ChannelType(c) ==
    /\ c.throttled \in BOOLEAN /\ c.answers \subseteq {"late", "partial", "expired"}
    /\ c.sent \subseteq {"ok", "late"} /\ c.again \subseteq {"lost", "expired"}
    /\ c.tries \in {1, 2, 3} /\ c.unsplit \in {"nil", "error"}

\* Only email counts a message as sent without knowing, and only Discord repeats
\* a request without an answer.
LEMMA ChannelKinds ==
    \A k \in DOMAIN Channel :
        /\ ChannelType(Channel[k])
        /\ k # "email" => Channel[k].sent = {"ok"}
        /\ k # "discord" => "lost" \notin Channel[k].again
<1>1. ChannelType(Plain) /\ Plain.sent = {"ok"} /\ Plain.again = {}
    BY SMT DEF Plain, ChannelType
<1>2. ChannelType(email) /\ email.again = {}
    BY SMT DEF email, Plain, ChannelType
<1>3. ChannelType(discord) /\ discord.sent = {"ok"}
    BY SMT DEF discord, Plain, ChannelType
<1>4. ChannelType(webhook) /\ webhook.sent = {"ok"} /\ webhook.again = {}
    BY SMT DEF webhook, Plain, ChannelType
<1>5. ChannelType(Provider) /\ Provider.sent = {"ok"} /\ Provider.again = {}
    BY SMT DEF Provider, Plain, ChannelType
<1>6. ChannelType(tencent) /\ tencent.sent = {"ok"} /\ tencent.again = {}
    BY SMT DEF tencent, Plain, ChannelType, Provider
<1>7. ChannelType(chatbot) /\ chatbot.sent = {"ok"} /\ chatbot.again = {}
    BY SMT DEF chatbot, Plain, ChannelType
<1>8. ChannelType(conversation) /\ conversation.sent = {"ok"} /\ conversation.again = {}
    BY SMT DEF conversation, Plain, ChannelType
<1>9. ChannelType(wechat) /\ wechat.sent = {"ok"} /\ wechat.again = {"expired"}
    BY SMT DEF wechat, Plain, ChannelType
<1>10. ChannelType(wechatBot) /\ wechatBot.sent = {"ok"} /\ wechatBot.again = {}
    BY SMT DEF wechatBot, Plain, ChannelType
<1> QED
  <2>1. ASSUME NEW k \in DOMAIN Channel
        PROVE  \/ k = "email" /\ Channel[k] = email
               \/ k = "discord" /\ Channel[k] = discord
               \/ Channel[k] \in {Plain, webhook, Provider, tencent, chatbot, conversation, wechat, wechatBot}
      BY SMTT(30), <2>1 DEF Channel, slack, telegram, pushover, huawei, aws, aliyun
  <2>2. "lost" \notin {} /\ "lost" \notin {"expired"}
      OBVIOUS
  <2>3. ASSUME NEW c \in {Plain, webhook, Provider, tencent, chatbot, conversation, wechat, wechatBot}
        PROVE  ChannelType(c) /\ c.sent = {"ok"} /\ c.again \in {{}, {"expired"}}
      BY <1>1, <1>4, <1>5, <1>6, <1>7, <1>8, <1>9, <1>10, <2>3
  <2>4. ASSUME NEW k \in DOMAIN Channel
        PROVE  /\ ChannelType(Channel[k])
               /\ k # "email" => Channel[k].sent = {"ok"}
               /\ k # "discord" => Channel[k].again \in {{}, {"expired"}}
      BY ZenonT(30), <1>2, <1>3, <2>1, <2>3, <2>4
  <2> QED
      BY ZenonT(30), <2>2, <2>4

Nils(q) == {i \in 1 .. Len(q) : q[i] = "nil"}

\* A value that a sender leaves in stopCh is counted once.
LEMMA NilsAppend ==
    ASSUME NEW q \in Seq({"nil", "error"}), NEW v \in {"nil", "error"}
    PROVE  /\ IsFiniteSet(Nils(q)) /\ Cardinality(Nils(q)) \in Nat
           /\ Append(q, v) \in Seq({"nil", "error"}) /\ Len(Append(q, v)) = Len(q) + 1
           /\ Cardinality(Nils(Append(q, v))) = IF v = "nil" THEN Cardinality(Nils(q)) + 1 ELSE Cardinality(Nils(q))
<1>1. IsFiniteSet(1 .. Len(q)) /\ Nils(q) \in SUBSET (1 .. Len(q)) /\ Len(q) \in Nat
    BY SMT, FS_Interval DEF Nils
<1>2. IsFiniteSet(Nils(q)) /\ Cardinality(Nils(q)) \in Nat
    BY <1>1, FS_Subset, FS_CardinalityType
<1>3. Nils(Append(q, v)) = IF v = "nil" THEN Nils(q) \cup {Len(q) + 1} ELSE Nils(q)
    BY SMT DEF Nils
<1>4. Len(q) + 1 \notin Nils(q)
    BY SMT, <1>1 DEF Nils
<1>5. Append(q, v) \in Seq({"nil", "error"}) /\ Len(Append(q, v)) = Len(q) + 1
    BY SMT
<1> QED
    BY <1>2, <1>3, <1>4, <1>5, FS_AddElement

\* The value that Wait takes is one less.
LEMMA NilsTail ==
    ASSUME NEW q \in Seq({"nil", "error"}), q # <<>>
    PROVE  /\ Tail(q) \in Seq({"nil", "error"}) /\ Len(Tail(q)) = Len(q) - 1 /\ Len(q) \in Nat
           /\ Head(q) \in {"nil", "error"}
           /\ Cardinality(Nils(q)) \in Nat /\ Cardinality(Nils(Tail(q))) \in Nat
           /\ Head(q) = "nil" => Cardinality(Nils(Tail(q))) = Cardinality(Nils(q)) - 1
<1>1. /\ Tail(q) \in Seq({"nil", "error"}) /\ Len(Tail(q)) = Len(q) - 1 /\ Len(q) \in Nat /\ Len(q) >= 1
      /\ Head(q) \in {"nil", "error"} /\ Head(q) = q[1]
      /\ \A i \in 1 .. Len(q) - 1 : Tail(q)[i] = q[i + 1]
    BY SMT
<1>2. /\ IsFiniteSet(Nils(q)) /\ Cardinality(Nils(q)) \in Nat
      /\ IsFiniteSet(Nils(Tail(q))) /\ Cardinality(Nils(Tail(q))) \in Nat
    BY <1>1, NilsAppend
<1>3. ASSUME Head(q) = "nil" PROVE Cardinality(Nils(Tail(q))) = Cardinality(Nils(q)) - 1
  <2> DEFINE T == Nils(Tail(q))
             N == Nils(q) \ {1}
             f == [i \in T |-> i + 1]
  <2>1. T = {i \in 1 .. Len(q) - 1 : q[i + 1] = "nil"}
      BY SMT, <1>1 DEF Nils
  <2>2. N = {i \in 2 .. Len(q) : q[i] = "nil"}
      BY SMTT(30), <1>1 DEF Nils
  <2>3. f \in [T -> N] /\ \A a, b \in T : f[a] = f[b] => a = b
      BY SMTT(30), <1>1, <2>1, <2>2
  <2>4. \A i \in N : i - 1 \in T /\ f[i - 1] = i
      BY SMTT(30), <1>1, <2>1, <2>2
  <2>5. f \in Bijection(T, N)
    <3> HIDE DEF T, N, f
    <3> QED
        BY <2>3, <2>4 DEF Bijection, Injection, Surjection, IsInjective
  <2>6. Cardinality(N) = Cardinality(T)
      BY <1>2, <2>5, FS_Bijection DEF ExistsBijection
  <2>7. 1 \in Nils(q)
      BY SMT, <1>1, <1>3 DEF Nils
  <2> QED
      BY <1>2, <2>6, <2>7, FS_RemoveElement
<1> QED
    BY ZenonT(30), <1>1, <1>2, <1>3

ChannelAnswers == {"ok", "refused", "late", "partial", "expired", "lost"}
JobType ==
    [at : {"new", "asking", "dropping", "sending", "sent", "pushing", "done"}, tries : Nat,
     answer : ChannelAnswers \cup {Nil}, ok : BOOLEAN, dropped : BOOLEAN]

NotifyTypeOK ==
    /\ note \in Notifications
    /\ job \in [Jobs -> JobType] /\ received \in [Jobs -> Nat] /\ reported \subseteq 1 .. note.parts
    /\ stopCh \in Seq({"nil", "error"})
    /\ taken.count \in Nat /\ taken.failed \in BOOLEAN
    /\ result \in {Nil, "nil", "error"}

\* Where a sender is and what the platform has delivered of its message: at most
\* one delivery per request, and where no request is repeated without an answer
\* nothing before the last one.
JobInv(r, n, c) ==
    /\ r.at \in {"new", "asking", "dropping"} => r.tries = 0
    /\ r.at \notin {"sent", "pushing", "done"} => r.answer = Nil
    /\ r.tries <= c.tries /\ (r.at = "sending" => r.tries < c.tries)
    /\ n <= r.tries /\ (r.at = "sent" /\ r.answer = Nil => n < r.tries)
    /\ r.at = "sent" /\ r.answer \in {"ok", "partial"} => n > 0
    /\ r.ok => r.at \in {"pushing", "done"} /\ (n > 0 \/ ("late" \in c.sent /\ r.answer = "late"))
    /\ "lost" \notin c.again =>
          /\ n <= 1 /\ (r.at = "sending" => n = 0)
          /\ r.at = "sent" /\ r.answer \notin {"ok", "partial"} => n = 0
    /\ ~c.throttled => r.at \notin {"asking", "dropping"}

Done == {j \in Jobs : job[j].at = "done"}
DoneWell == {j \in Jobs : job[j].at = "done" /\ job[j].ok}

\* stopCh holds one value of each sender that is done, except for those that Wait
\* took; as long as it took no error, those are of senders that did well.
CountsInv ==
    /\ ~taken.failed => taken.count + Cardinality(Nils(stopCh)) <= Cardinality(DoneWell)
    /\ ~Of.throttled => taken.count + Len(stopCh) = Cardinality(Done)

\* What is concluded from them.
ConcludedInv ==
    /\ \A p \in reported : \E t \in note.targets : job[<<p, t>>].ok
    /\ result = "nil" => DoneWell = Jobs \/ (Of.unsplit = "nil" /\ \A j \in Jobs : job[j].at = "new")
    /\ result # Nil /\ ctx = "live" /\ ~Of.throttled /\ taken.count > 0 => Done = Jobs

\* The inductive invariant of one Notify.
NotifyInv ==
    /\ NotifyTypeOK /\ \A j \in Jobs : JobInv(job[j], received[j], Of)
    /\ CountsInv /\ ConcludedInv

\* A notification has finitely many parts and targets, and its sender is known.
LEMMA NoteKnown ==
    ASSUME note \in Notifications
    PROVE  /\ IsFiniteSet(Jobs) /\ note.parts \in Nat
           /\ Jobs = (1 .. note.parts) \X note.targets
           /\ ChannelType(Of) /\ (note.kind # "email" => "late" \notin Of.sent)
           /\ note.kind # "discord" => "lost" \notin Of.again
           /\ Nil \notin {"ok", "refused", "late", "partial", "expired", "lost", "nil", "error"}
<1>1. note.kind \in DOMAIN Channel /\ note.parts \in Nat /\ IsFiniteSet(note.targets)
    BY SMTT(30), NotifierConstants
<1>2. IsFiniteSet(1 .. note.parts)
    BY SMTT(30), <1>1, FS_Interval
<1>3. IsFiniteSet(Jobs)
    BY <1>1, <1>2, FS_Product DEF Jobs
<1>4. ChannelType(Of) /\ (note.kind # "discord" => "lost" \notin Of.again)
    BY <1>1, ChannelKinds DEF Of
<1>5. note.kind # "email" => Of.sent = {"ok"}
    BY <1>1, ChannelKinds DEF Of
<1> QED
    BY ZenonT(30), <1>1, <1>3, <1>4, <1>5, NotifierConstants DEF Jobs

\* Nothing is started.
LEMMA NotifyInvInitially == NotifyInit => NotifyInv
<1> SUFFICES ASSUME NotifyInit PROVE NotifyInv
    OBVIOUS
<1>0. note \in Notifications
    BY DEF NotifyInit
<1>1. NotifyTypeOK
    BY SMTT(30), <1>0 DEF NotifyInit, NotifyTypeOK, JobType
<1>2. \A j \in Jobs : JobInv(job[j], received[j], Of)
    BY SMTT(30), <1>0, NoteKnown DEF NotifyInit, JobInv, ChannelType
<1>3. Done = {} /\ DoneWell = {} /\ Nils(stopCh) = {} /\ Len(stopCh) = 0
    BY SMT DEF NotifyInit, Done, DoneWell, Nils
<1>4. CountsInv
  <2>1. taken.count = 0 /\ 0 + 0 = 0 /\ 0 <= 0
      BY SMT DEF NotifyInit
  <2> QED
      BY <1>3, <2>1, FS_EmptySet DEF CountsInv
<1>5. ConcludedInv
    BY <1>0, NoteKnown DEF NotifyInit, ConcludedInv
<1> QED
    BY <1>1, <1>2, <1>4, <1>5 DEF NotifyInv

\* A sender that was started and is not done moves: what is not counted stands.
LEMMA JobMoves ==
    ASSUME NotifyInv, NEW j \in Jobs, NEW r \in JobType, NEW n \in Nat, Step(j, r), JobInv(r, n, Of),
           job[j].at \notin {"new", "done"}, n >= received[j], received' = [received EXCEPT ![j] = n],
           UNCHANGED <<note, taken, ctx, result>>, stopCh' \in Seq({"nil", "error"}),
           job[j].ok => r.ok, reported' = reported \/ (reported' = reported \cup {j[1]} /\ r.ok)
    PROVE  /\ NotifyTypeOK' /\ (\A i \in Jobs : JobInv(job[i], received[i], Of))' /\ ConcludedInv'
           /\ Done' = (IF r.at = "done" THEN Done \cup {j} ELSE Done)
           /\ DoneWell' = (IF r.at = "done" /\ r.ok THEN DoneWell \cup {j} ELSE DoneWell)
           /\ j \notin Done /\ j \notin DoneWell /\ Of' = Of /\ IsFiniteSet(Done) /\ IsFiniteSet(DoneWell)
<1>0. NotifyTypeOK /\ note \in Notifications
    BY DEF NotifyInv, NotifyTypeOK
<1>1. Jobs' = Jobs /\ Of' = Of /\ note' = note
    BY DEF Jobs, Of
<1>2. job' \in [Jobs -> JobType] /\ received' \in [Jobs -> Nat]
    BY <1>0 DEF NotifyTypeOK, Step
<1>3. \A i \in Jobs : /\ job'[i] = (IF i = j THEN r ELSE job[i])
                      /\ received'[i] = (IF i = j THEN n ELSE received[i])
    BY <1>0 DEF NotifyTypeOK, Step
<1>4. j[1] \in 1 .. note.parts /\ j[2] \in note.targets /\ j = <<j[1], j[2]>>
    BY SMT DEF Jobs
<1>5. reported' \subseteq 1 .. note.parts
    BY <1>0, <1>4 DEF NotifyTypeOK
<1>6. NotifyTypeOK'
    BY <1>0, <1>1, <1>2, <1>5 DEF NotifyTypeOK
<1>7. (\A i \in Jobs : JobInv(job[i], received[i], Of))'
    BY ZenonT(30), <1>1, <1>3 DEF NotifyInv
<1>8. \A p \in reported' : \E t \in note.targets : job'[<<p, t>>].ok
  <2> SUFFICES ASSUME NEW p \in reported' PROVE \E t \in note.targets : job'[<<p, t>>].ok
      OBVIOUS
  <2>1. CASE p \in reported
    <3>1. PICK t \in note.targets : job[<<p, t>>].ok
        BY <2>1 DEF NotifyInv, ConcludedInv
    <3>2. PICK i \in Jobs : i = <<p, t>>
        BY <2>1, <1>0 DEF NotifyTypeOK, Jobs
    <3>3. job'[i].ok
        BY <1>3, <3>1, <3>2
    <3> QED
        BY <3>2, <3>3
  <2>2. CASE p \notin reported
    <3>1. p = j[1] /\ r.ok
        BY <2>2
    <3> QED
        BY <1>3, <1>4, <3>1
  <2> QED
      BY <2>1, <2>2
<1>9. j \notin Done /\ j \notin DoneWell /\ result # "nil"
    BY DEF Done, DoneWell, NotifyInv, ConcludedInv
<1>10. ConcludedInv'
    BY <1>1, <1>8, <1>9 DEF NotifyInv, ConcludedInv
<1>11. Done' = (IF r.at = "done" THEN Done \cup {j} ELSE Done)
  <2>1. \A i : i \in Done' <=> i \in Jobs /\ job'[i].at = "done"
      BY <1>1 DEF Done
  <2>2. \A i : i \in Done <=> i \in Jobs /\ job[i].at = "done"
      BY DEF Done
  <2>3. \A i : i \in Done' <=> (i = j /\ r.at = "done") \/ i \in Done
      BY <1>3, <1>9, <2>1, <2>2
  <2> QED
      BY <2>3
<1>12. DoneWell' = (IF r.at = "done" /\ r.ok THEN DoneWell \cup {j} ELSE DoneWell)
  <2>1. \A i : i \in DoneWell' <=> i \in Jobs /\ job'[i].at = "done" /\ job'[i].ok
      BY <1>1 DEF DoneWell
  <2>2. \A i : i \in DoneWell <=> i \in Jobs /\ job[i].at = "done" /\ job[i].ok
      BY DEF DoneWell
  <2>3. \A i : i \in DoneWell' <=> (i = j /\ r.at = "done" /\ r.ok) \/ i \in DoneWell
      BY <1>3, <1>9, <2>1, <2>2
  <2> QED
      BY <2>3
<1>13. IsFiniteSet(Done) /\ IsFiniteSet(DoneWell)
    BY <1>0, NoteKnown, FS_Subset DEF Done, DoneWell
<1> QED
    BY <1>1, <1>6, <1>7, <1>9, <1>10, <1>11, <1>12, <1>13

\* A sender moves that neither leaves a value nor ends.
LEMMA JobMovesOn ==
    ASSUME NotifyInv, NEW j \in Jobs, NEW r \in JobType, NEW n \in Nat, Step(j, r), JobInv(r, n, Of),
           job[j].at \notin {"new", "done"}, r.at # "done", n >= received[j],
           received' = [received EXCEPT ![j] = n], UNCHANGED <<note, stopCh, taken, ctx, result>>,
           job[j].ok => r.ok, reported' = reported \/ (reported' = reported \cup {j[1]} /\ r.ok)
    PROVE  NotifyInv'
<1>1. stopCh' \in Seq({"nil", "error"})
    BY DEF NotifyInv, NotifyTypeOK
<1>2. /\ NotifyTypeOK' /\ (\A i \in Jobs : JobInv(job[i], received[i], Of))' /\ ConcludedInv'
      /\ Done' = Done /\ DoneWell' = DoneWell /\ Of' = Of
    BY <1>1, JobMoves
<1>3. CountsInv'
    BY <1>2 DEF NotifyInv, CountsInv, Nils
<1> QED
    BY <1>2, <1>3 DEF NotifyInv

\* A job with some of its fields changed.
LEMMA JobSets ==
    ASSUME NEW r \in JobType, NEW n \in Nat, NEW b \in BOOLEAN, NEW c \in ChannelAnswers \cup {Nil},
           NEW a \in {"new", "asking", "dropping", "sending", "sent", "pushing", "done"}
    PROVE  /\ [r EXCEPT !.at = a] \in JobType /\ [r EXCEPT !.answer = c] \in JobType
           /\ [r EXCEPT !.at = a, !.dropped = b] \in JobType
           /\ [r EXCEPT !.at = a, !.tries = n] \in JobType
           /\ [r EXCEPT !.at = a, !.answer = c] \in JobType
           /\ [r EXCEPT !.at = a, !.answer = c, !.ok = b] \in JobType
<1>1. [r EXCEPT !.at = a] \in JobType /\ [r EXCEPT !.answer = c] \in JobType
    BY SMT DEF JobType
<1>2. PICK q \in JobType : q = [r EXCEPT !.at = a]
    BY <1>1
<1>3. [q EXCEPT !.dropped = b] \in JobType /\ [q EXCEPT !.tries = n] \in JobType /\ [q EXCEPT !.answer = c] \in JobType
    BY SMTT(30) DEF JobType
<1>4. PICK o \in JobType : o = [q EXCEPT !.answer = c]
    BY <1>3
<1>5. [o EXCEPT !.ok = b] \in JobType
    BY SMT DEF JobType
<1> QED
    BY <1>1, <1>2, <1>3, <1>4, <1>5

\* The step of a sender that asks the flow control, makes a request or handles what
\* came of it keeps to what was delivered.
LEMMA JobStep ==
    ASSUME NotifyInv, NEW j \in Jobs,
           Ask(j) \/ SendFails(j) \/ Request(j) \/ Platform(j) \/ Answered(j) \/ Lost(j)
    PROVE  NotifyInv'
<1>0. /\ NotifyTypeOK /\ job[j] \in JobType /\ received[j] \in Nat /\ JobInv(job[j], received[j], Of)
      /\ ChannelType(Of) /\ Nil \notin ChannelAnswers
      /\ received = [received EXCEPT ![j] = received[j]] /\ received[j] >= received[j]
  <2>1. NotifyTypeOK /\ note \in Notifications
      BY DEF NotifyInv, NotifyTypeOK
  <2>2. job[j] \in JobType /\ received[j] \in Nat /\ JobInv(job[j], received[j], Of)
      BY <2>1 DEF NotifyInv, NotifyTypeOK
  <2>3. received = [received EXCEPT ![j] = received[j]] /\ received[j] >= received[j]
      BY SMTT(30), <2>1, <2>2 DEF NotifyTypeOK
  <2> QED
      BY <2>1, <2>2, <2>3, NoteKnown DEF ChannelAnswers
<1>1. CASE Ask(j)
  <2>1. PICK a \in {"sending", "dropping"} : At(j, a)
      BY <1>1 DEF Ask
  <2>2. PICK r \in JobType : r = [job[j] EXCEPT !.at = a]
      BY ZenonT(30), <1>0, JobSets
  <2>3. JobInv(r, received[j], Of)
      BY SMTT(30), <1>0, <1>1, <2>2 DEF JobInv, JobType, Ask, ChannelType
  <2>4. Step(j, r) /\ r.at # "done" /\ job[j].at \notin {"new", "done"} /\ r.ok = job[j].ok
      BY SMTT(30), <1>0, <1>1, <2>1, <2>2 DEF Ask, At, JobType
  <2> QED
      BY <1>0, <1>1, <2>3, <2>4, JobMovesOn DEF Ask
<1>2. CASE SendFails(j)
  <2>2. PICK r \in JobType : r = [job[j] EXCEPT !.at = "pushing"]
      BY <1>0, JobSets
  <2>3. JobInv(r, received[j], Of)
      BY SMTT(30), <1>0, <1>2, <2>2 DEF JobInv, JobType, SendFails, ChannelType
  <2>4. Step(j, r) /\ r.at # "done" /\ job[j].at \notin {"new", "done"} /\ r.ok = job[j].ok
      BY SMTT(30), <1>0, <1>2, <2>2 DEF SendFails, At, JobType
  <2> QED
      BY <1>0, <1>2, <2>3, <2>4, JobMovesOn DEF SendFails
<1>3. CASE Request(j)
  <2>1. PICK m \in Nat : m = job[j].tries + 1
      BY SMT, <1>0 DEF JobType
  <2>2. PICK r \in JobType : r = [job[j] EXCEPT !.at = "sent", !.tries = m]
      BY <1>0, JobSets
  <2>b. r.at = "sent" /\ r.tries = m /\ r.answer = job[j].answer /\ r.ok = job[j].ok /\ job[j].tries \in Nat
      BY SMTT(30), <1>0, <2>2 DEF JobType
  <2>c. /\ job[j].answer = Nil /\ ~job[j].ok /\ job[j].tries < Of.tries /\ received[j] <= job[j].tries
        /\ "lost" \notin Of.again => received[j] = 0
      BY ZenonT(30), <1>0, <1>3 DEF JobInv, Request
  <2>d. Of.tries \in Nat
      BY SMTT(30), <1>0 DEF ChannelType
  <2>e. m <= Of.tries /\ received[j] < m /\ received[j] <= m /\ ("lost" \notin Of.again => received[j] <= 1)
      BY SMTT(30), <1>0, <2>1, <2>b, <2>c, <2>d
  <2>3. JobInv(r, received[j], Of)
      BY <1>0, <2>b, <2>c, <2>e DEF JobInv, ChannelAnswers
  <2>a. r = [job[j] EXCEPT !.at = "sent", !.tries = @ + 1]
      BY SMTT(30), <1>0, <2>1, <2>2 DEF JobType
  <2>4. Step(j, r) /\ r.at # "done" /\ job[j].at \notin {"new", "done"}
    <3>1. r.at = "sent"
        BY SMTT(30), <1>0, <2>2 DEF JobType
    <3> QED
        BY <1>3, <2>a, <3>1 DEF Request
  <2> QED
      BY <1>0, <1>3, <2>b, <2>3, <2>4, JobMovesOn DEF Request
<1>4. CASE Platform(j)
  <2>1. PICK a \in ChannelAnswers :
            /\ Step(j, [job[j] EXCEPT !.answer = a])
            /\ received' = [received EXCEPT ![j] = IF a \in {"ok", "partial"} THEN @ + 1 ELSE @]
    <3>1. {"ok", "refused"} \cup Of.answers \subseteq ChannelAnswers
        BY <1>0 DEF ChannelType, ChannelAnswers
    <3> QED
        BY <1>4, <3>1 DEF Platform
  <2>2. PICK r \in JobType : r = [job[j] EXCEPT !.answer = a]
      BY <1>0, JobSets
  <2>3. PICK n \in Nat : n = IF a \in {"ok", "partial"} THEN received[j] + 1 ELSE received[j]
      BY SMTT(30), <1>0
  <2>5. r.at = job[j].at /\ r.answer = a /\ r.tries = job[j].tries /\ r.ok = job[j].ok /\ job[j].tries \in Nat
      BY SMTT(30), <1>0, <2>2 DEF JobType
  <2>c. /\ job[j].at = "sent" /\ ~job[j].ok /\ job[j].tries <= Of.tries /\ received[j] < job[j].tries
        /\ "lost" \notin Of.again => received[j] = 0
      BY ZenonT(30), <1>0, <1>4 DEF JobInv, Platform, ChannelAnswers
  <2>d. n <= job[j].tries /\ (a \in {"ok", "partial"} => n > 0) /\ n >= received[j]
      BY SMTT(30), <1>0, <2>3, <2>5, <2>c
  <2>e. "lost" \notin Of.again => n <= 1 /\ (a \notin {"ok", "partial"} => n = 0)
    <3>1. 0 + 1 <= 1 /\ 0 <= 1
        BY SMTT(30)
    <3> QED
        BY <2>3, <2>c, <3>1
  <2>4. JobInv(r, n, Of) /\ n >= received[j]
      BY <1>0, <2>5, <2>c, <2>d, <2>e DEF JobInv, ChannelAnswers
  <2>6. /\ Step(j, r) /\ r.at # "done" /\ job[j].at \notin {"new", "done"}
        /\ received' = [received EXCEPT ![j] = n]
      BY <1>4, <2>1, <2>2, <2>3, <2>5 DEF Platform
  <2> QED
      BY <1>4, <2>4, <2>5, <2>6, JobMovesOn DEF Platform
<1>5. ASSUME NEW a, job[j].at = "sent", Handled(j, a), a = "lost" \/ (a # Nil /\ a = job[j].answer)
      PROVE  NotifyInv'
  <2>1. CASE a \in Of.again /\ job[j].tries < Of.tries
    <3>1. PICK r \in JobType : r = [job[j] EXCEPT !.at = "sending", !.answer = Nil]
        BY <1>0, JobSets
    <3>2. a \in {"lost", "expired"}
        BY <1>0, <2>1 DEF ChannelType
    <3>3. JobInv(r, received[j], Of) /\ r.at = "sending" /\ r.ok = job[j].ok
        BY SMTT(30), <1>0, <1>5, <2>1, <3>1, <3>2 DEF JobInv, JobType, ChannelType
    <3> QED
        BY <1>0, <1>5, <2>1, <3>1, <3>3, JobMovesOn DEF Handled
  <2>2. CASE ~(a \in Of.again /\ job[j].tries < Of.tries)
    <3>a. (a \in Of.sent) = TRUE \/ (a \in Of.sent) = FALSE
        BY SMT
    <3>0. PICK ok \in BOOLEAN : ok = (a \in Of.sent)
        BY <3>a
    <3>b. a \in ChannelAnswers \cup {Nil}
        BY SMT, <1>0, <1>5 DEF JobType, ChannelAnswers
    <3>1. PICK r \in JobType : r = [job[j] EXCEPT !.at = "pushing", !.answer = a, !.ok = ok]
        BY <1>0, <3>b, JobSets
    <3>2. ok => received[j] > 0 \/ ("late" \in Of.sent /\ a = "late")
        BY ZenonT(30), <1>0, <1>5, <3>0 DEF ChannelType, JobInv
    <3>c. r.ok = ok /\ r.answer = a
        BY SMTT(30), <1>0, <3>1 DEF JobType
    <3>3. JobInv(r, received[j], Of) /\ r.at = "pushing" /\ ~job[j].ok
        BY SMTT(30), <1>0, <1>5, <3>1, <3>2 DEF JobInv, JobType, ChannelType
    <3>4. Step(j, r) /\ (reported' = reported \/ (reported' = reported \cup {j[1]} /\ r.ok))
        BY <1>5, <2>2, <3>0, <3>1, <3>c DEF Handled
    <3> QED
        BY ZenonT(30), <1>0, <1>5, <3>3, <3>4, JobMovesOn DEF Handled
  <2> QED
      BY <2>1, <2>2
<1>6. CASE Answered(j)
    BY <1>5, <1>6 DEF Answered
<1>7. CASE Lost(j)
    BY <1>5, <1>7 DEF Lost
<1> QED
    BY <1>1, <1>2, <1>3, <1>4, <1>6, <1>7

\* A sender leaves a value in stopCh: an error for a message over the limit, which
\* is sent nevertheless, or the one it ends with.
LEMMA JobLeavesValue ==
    ASSUME NotifyInv, NEW j \in Jobs, Drop(j) \/ Push(j)
    PROVE  NotifyInv'
<1>0. /\ NotifyTypeOK /\ job[j] \in JobType /\ received[j] \in Nat /\ JobInv(job[j], received[j], Of)
      /\ ChannelType(Of) /\ stopCh \in Seq({"nil", "error"})
      /\ received = [received EXCEPT ![j] = received[j]] /\ received[j] >= received[j]
  <2>1. NotifyTypeOK /\ note \in Notifications
      BY DEF NotifyInv, NotifyTypeOK
  <2>2. job[j] \in JobType /\ received[j] \in Nat /\ JobInv(job[j], received[j], Of)
      BY <2>1 DEF NotifyInv, NotifyTypeOK
  <2>3. received = [received EXCEPT ![j] = received[j]] /\ received[j] >= received[j]
      BY SMT, <2>1, <2>2 DEF NotifyTypeOK
  <2> QED
      BY <2>1, <2>2, <2>3, NoteKnown DEF NotifyTypeOK
<1>1. CASE Drop(j)
  <2>1. PICK r \in JobType : r = [job[j] EXCEPT !.at = "sending", !.dropped = TRUE]
      BY <1>0, JobSets
  <2>2. JobInv(r, received[j], Of) /\ r.at = "sending" /\ r.ok = job[j].ok
      BY SMTT(30), <1>0, <1>1, <2>1 DEF JobInv, JobType, Drop, ChannelType
  <2>3. /\ stopCh' \in Seq({"nil", "error"})
        /\ Cardinality(Nils(stopCh')) = Cardinality(Nils(stopCh))
      BY <1>0, <1>1, NilsAppend DEF Drop
  <2>4. /\ NotifyTypeOK' /\ (\A i \in Jobs : JobInv(job[i], received[i], Of))' /\ ConcludedInv'
        /\ Done' = Done /\ DoneWell' = DoneWell /\ Of' = Of
      BY <1>0, <1>1, <2>1, <2>2, <2>3, JobMoves DEF Drop
  <2>5. Of.throttled
      BY <1>0, <1>1 DEF Drop, JobInv
  <2>6. CountsInv'
      BY <1>1, <2>3, <2>4, <2>5 DEF NotifyInv, CountsInv, Drop, Nils
  <2> QED
      BY <2>4, <2>6 DEF NotifyInv
<1>2. CASE Push(j)
  <2>1. PICK r \in JobType : r = [job[j] EXCEPT !.at = "done"]
      BY <1>0, JobSets
  <2>2. JobInv(r, received[j], Of) /\ r.at = "done" /\ r.ok = job[j].ok
      BY SMTT(30), <1>0, <1>2, <2>1 DEF JobInv, JobType, Push, ChannelType
  <2>3. PICK v \in {"nil", "error"} : v = IF job[j].ok THEN "nil" ELSE "error"
      OBVIOUS
  <2>4. stopCh' = Append(stopCh, v) /\ Step(j, r)
      BY <1>2, <2>1, <2>3 DEF Push, At
  <2>5. /\ stopCh' \in Seq({"nil", "error"}) /\ Len(stopCh') = Len(stopCh) + 1
        /\ Cardinality(Nils(stopCh')) = IF v = "nil" THEN Cardinality(Nils(stopCh)) + 1 ELSE Cardinality(Nils(stopCh))
        /\ Cardinality(Nils(stopCh)) \in Nat
      BY <1>0, <2>4, NilsAppend
  <2>6. /\ NotifyTypeOK' /\ (\A i \in Jobs : JobInv(job[i], received[i], Of))' /\ ConcludedInv'
        /\ Done' = Done \cup {j} /\ DoneWell' = IF job[j].ok THEN DoneWell \cup {j} ELSE DoneWell
        /\ j \notin Done /\ j \notin DoneWell /\ Of' = Of /\ IsFiniteSet(Done) /\ IsFiniteSet(DoneWell)
      BY <1>0, <1>2, <2>2, <2>4, <2>5, JobMoves DEF Push
  <2>7. /\ Cardinality(Done') = Cardinality(Done) + 1 /\ Cardinality(Done) \in Nat
        /\ Cardinality(DoneWell \cup {j}) = Cardinality(DoneWell) + 1 /\ Cardinality(DoneWell) \in Nat
      BY ZenonT(30), <2>6, FS_AddElement, FS_CardinalityType
  <2>8. taken' = taken /\ taken.count \in Nat /\ Len(stopCh) \in Nat
      BY SMTT(30), <1>0, <1>2 DEF Push, NotifyTypeOK
  <2>9. ~taken.failed => taken.count + Cardinality(Nils(stopCh')) <= Cardinality(DoneWell')
    <3>0. ~taken.failed => taken.count + Cardinality(Nils(stopCh)) <= Cardinality(DoneWell)
        BY DEF NotifyInv, CountsInv
    <3>1. CASE job[j].ok
      <4>1. /\ Cardinality(Nils(stopCh')) = Cardinality(Nils(stopCh)) + 1
            /\ Cardinality(DoneWell') = Cardinality(DoneWell) + 1
          BY <2>3, <2>5, <2>6, <2>7, <3>1
      <4>2. Cardinality(Nils(stopCh)) \in Nat /\ Cardinality(DoneWell) \in Nat /\ taken.count \in Nat
          BY <2>5, <2>7, <2>8
      <4> QED
          BY SMTT(30), <3>0, <4>1, <4>2
    <3>2. CASE ~job[j].ok
        BY ZenonT(30), <2>3, <2>5, <2>6, <3>2 DEF NotifyInv, CountsInv
    <3> QED
        BY <3>1, <3>2
  <2>10. ~Of.throttled => taken.count + Len(stopCh') = Cardinality(Done')
    <3>1. ~Of.throttled => taken.count + Len(stopCh) = Cardinality(Done)
        BY DEF NotifyInv, CountsInv
    <3>2. /\ Len(stopCh') = Len(stopCh) + 1 /\ Cardinality(Done') = Cardinality(Done) + 1
          /\ Len(stopCh) \in Nat /\ Cardinality(Done) \in Nat /\ taken.count \in Nat
        BY <2>5, <2>7, <2>8
    <3> QED
        BY SMTT(30), <3>1, <3>2
  <2>11. CountsInv'
      BY <2>6, <2>8, <2>9, <2>10 DEF CountsInv, Nils
  <2> QED
      BY <2>6, <2>11 DEF NotifyInv
<1> QED
    BY <1>1, <1>2

\* Notify: starting the senders, taking their values and giving up.
LEMMA WaitStep ==
    ASSUME NotifyInv, NotStarted \/ Start \/ Take \/ GiveUp \/ Deadline
    PROVE  NotifyInv'
<1>0. /\ NotifyTypeOK /\ note \in Notifications /\ ChannelType(Of) /\ IsFiniteSet(Jobs)
      /\ Nil # "nil" /\ Nil # "error" /\ stopCh \in Seq({"nil", "error"})
      /\ \A i \in Jobs : job[i] \in JobType /\ received[i] \in Nat
  <2>1. NotifyTypeOK /\ note \in Notifications
      BY DEF NotifyInv, NotifyTypeOK
  <2> QED
      BY <2>1, NoteKnown DEF NotifyTypeOK
<1>1. /\ note' = note /\ Jobs' = Jobs /\ Of' = Of /\ UNCHANGED <<received, reported>>
    BY DEF NotStarted, Start, Take, GiveUp, Deadline, Jobs, Of
<1>2. /\ Done \in SUBSET Jobs /\ DoneWell \in SUBSET Jobs
      /\ IsFiniteSet(Done) /\ IsFiniteSet(DoneWell) /\ Cardinality(Jobs) \in Nat
      /\ Cardinality(Done) \in Nat /\ Cardinality(DoneWell) \in Nat
      /\ Cardinality(Done) <= Cardinality(Jobs) /\ Cardinality(DoneWell) <= Cardinality(Jobs)
      /\ Cardinality(Done) = Cardinality(Jobs) => Done = Jobs
      /\ Cardinality(DoneWell) = Cardinality(Jobs) => DoneWell = Jobs
  <2>1. Done \in SUBSET Jobs /\ DoneWell \in SUBSET Jobs
      BY DEF Done, DoneWell
  <2> QED
      BY <1>0, <2>1, FS_Subset, FS_CardinalityType
<1>3. taken.count \in Nat /\ Len(stopCh) \in Nat /\ taken.failed \in BOOLEAN
    BY SMTT(30), <1>0 DEF NotifyTypeOK
<1>4. ASSUME UNCHANGED <<job, stopCh, taken>>
      PROVE  /\ (\A i \in Jobs : JobInv(job[i], received[i], Of))' /\ CountsInv' /\ UNCHANGED <<Done, DoneWell>>
      BY <1>1, <1>4 DEF NotifyInv, CountsInv, Nils, Done, DoneWell
<1>5. CASE NotStarted
  <2>1. \A i \in Jobs : job[i].at = "new"
      BY <1>5 DEF NotStarted
  <2>2. Done = {}
      BY ZenonT(30), <2>1 DEF Done
  <2>3. ~Of.throttled => ~(taken.count > 0)
      BY SMTT(30), <1>3, <2>2, FS_EmptySet DEF NotifyInv, CountsInv
  <2>4. UNCHANGED <<job, stopCh, taken, ctx>> /\ result' \in {"error", Of.unsplit}
      BY <1>5 DEF NotStarted
  <2>5. NotifyTypeOK'
      BY <1>0, <1>1, <2>4 DEF NotifyTypeOK, ChannelType
  <2>6. ConcludedInv'
      BY <1>1, <1>4, <2>1, <2>3, <2>4 DEF NotifyInv, ConcludedInv, ChannelType
  <2> QED
      BY <1>4, <2>4, <2>5, <2>6 DEF NotifyInv
<1>6. CASE Start
  <2>1. PICK a \in {"asking", "sending"} : a = IF Of.throttled THEN "asking" ELSE "sending"
      OBVIOUS
  <2>2. job' = [i \in Jobs |-> [job[i] EXCEPT !.at = a]] /\ result = Nil /\ \A i \in Jobs : job[i].at = "new"
      BY <1>6, <2>1 DEF Start
  <2>3. ASSUME NEW i \in Jobs
        PROVE  job'[i] \in JobType /\ job'[i].at = a /\ JobInv(job'[i], received[i], Of) /\ ~job[i].ok
    <3>1. PICK r \in JobType : r = [job[i] EXCEPT !.at = a]
        BY <1>0, JobSets
    <3>2. JobInv(job[i], received[i], Of)
        BY DEF NotifyInv
    <3>3. r.at = a /\ JobInv(r, received[i], Of) /\ ~job[i].ok
        BY SMTT(30), <1>0, <2>1, <2>2, <3>1, <3>2 DEF JobInv, JobType, ChannelType
    <3> QED
        BY <2>2, <3>1, <3>3
  <2>4. Done' = Done /\ DoneWell' = DoneWell
      BY <1>1, <2>2, <2>3 DEF Done, DoneWell
  <2>5. UNCHANGED <<stopCh, taken, ctx>> /\ (result' = Nil \/ (result' = "nil" /\ Jobs = {}))
      BY <1>6 DEF Start
  <2>6. job' \in [Jobs -> JobType]
      BY <2>2, <2>3
  <2>7. NotifyTypeOK'
      BY <1>0, <1>1, <2>5, <2>6 DEF NotifyTypeOK
  <2>8. CountsInv'
      BY <1>1, <2>4, <2>5 DEF NotifyInv, CountsInv, Nils
  <2>9. reported = {}
      BY <1>0, <2>3 DEF NotifyInv, ConcludedInv, NotifyTypeOK, Jobs
  <2>10. Jobs = {} => DoneWell' = Jobs' /\ Done' = Jobs'
      BY <1>1, <2>4 DEF Done, DoneWell
  <2>11. ConcludedInv'
      BY <1>0, <1>1, <2>5, <2>9, <2>10 DEF ConcludedInv
  <2> QED
      BY <1>1, <2>3, <2>7, <2>8, <2>11 DEF NotifyInv
<1>7. CASE Take
  <2>1. /\ stopCh' = Tail(stopCh) /\ stopCh # <<>> /\ UNCHANGED <<job, ctx>> /\ result = Nil
        /\ taken' = [count |-> taken.count + 1, failed |-> taken.failed \/ Head(stopCh) = "error"]
      BY <1>7 DEF Take
  <2>a. (taken.failed \/ Head(stopCh) = "error") = TRUE \/ (taken.failed \/ Head(stopCh) = "error") = FALSE
      BY SMT
  <2>b. taken.count + 1 \in Nat
      BY SMT, <1>3
  <2>2. PICK n \in Nat, b \in BOOLEAN : n = taken.count + 1 /\ b = (taken.failed \/ Head(stopCh) = "error")
      BY <2>a, <2>b
  <2>3. taken'.count = n /\ taken'.failed = b
      BY SMTT(30), <2>1, <2>2
  <2>4. result' = IF n < Cardinality(Jobs) THEN Nil ELSE IF b THEN "error" ELSE "nil"
      BY <1>7, <2>2 DEF Take
  <2>5. /\ stopCh' \in Seq({"nil", "error"}) /\ Len(stopCh') = Len(stopCh) - 1 /\ Head(stopCh) \in {"nil", "error"}
        /\ Cardinality(Nils(stopCh)) \in Nat /\ Cardinality(Nils(stopCh')) \in Nat
        /\ Head(stopCh) = "nil" => Cardinality(Nils(stopCh')) = Cardinality(Nils(stopCh)) - 1
      BY <1>0, <2>1, NilsTail
  <2>6. UNCHANGED <<Done, DoneWell>> /\ (\A i \in Jobs : JobInv(job[i], received[i], Of))'
      BY <1>1, <2>1 DEF NotifyInv, Done, DoneWell
  <2>7. ~b => n + Cardinality(Nils(stopCh')) <= Cardinality(DoneWell)
    <3> SUFFICES ASSUME ~b PROVE n + Cardinality(Nils(stopCh')) <= Cardinality(DoneWell)
        OBVIOUS
    <3>1. ~taken.failed /\ Head(stopCh) = "nil"
        BY <2>2, <2>5
    <3>2. taken.count + Cardinality(Nils(stopCh)) <= Cardinality(DoneWell)
        BY <3>1 DEF NotifyInv, CountsInv
    <3>3. /\ Cardinality(Nils(stopCh')) = Cardinality(Nils(stopCh)) - 1 /\ Cardinality(Nils(stopCh)) \in Nat
          /\ n = taken.count + 1 /\ taken.count \in Nat /\ Cardinality(DoneWell) \in Nat
        BY <1>2, <1>3, <2>2, <2>5, <3>1
    <3> QED
        BY SMTT(30), <3>2, <3>3
  <2>8. ~Of.throttled => n + Len(stopCh') = Cardinality(Done) /\ n <= Cardinality(Done)
    <3>1. ~Of.throttled => taken.count + Len(stopCh) = Cardinality(Done)
        BY DEF NotifyInv, CountsInv
    <3>2. Len(stopCh') \in Nat /\ Len(stopCh) \in Nat
        BY SMTT(30), <1>0, <2>5
    <3>3. /\ Len(stopCh') = Len(stopCh) - 1 /\ n = taken.count + 1
          /\ taken.count \in Nat /\ Cardinality(Done) \in Nat
        BY <1>2, <1>3, <2>2, <2>5
    <3> QED
        BY SMTT(30), <3>1, <3>2, <3>3
  <2>9. CountsInv'
      BY <1>1, <2>3, <2>6, <2>7, <2>8 DEF CountsInv, Nils
  <2>10. result' = "nil" => DoneWell = Jobs
    <3> SUFFICES ASSUME result' = "nil" PROVE DoneWell = Jobs
        OBVIOUS
    <3>1. ~(n < Cardinality(Jobs)) /\ ~b
        BY ZenonT(30), <1>0, <2>4
    <3>2. Cardinality(DoneWell) = Cardinality(Jobs)
        BY SMTT(30), <1>2, <2>5, <2>7, <3>1
    <3> QED
        BY <1>2, <3>2
  <2>11. result' # Nil /\ ~Of.throttled => Done = Jobs
    <3> SUFFICES ASSUME result' # Nil, ~Of.throttled PROVE Done = Jobs
        OBVIOUS
    <3>1. ~(n < Cardinality(Jobs))
        BY <2>4
    <3>2. Cardinality(Done) = Cardinality(Jobs)
        BY SMTT(30), <1>2, <2>8, <3>1
    <3> QED
        BY <1>2, <3>2
  <2>12. ConcludedInv'
      BY <1>1, <2>1, <2>6, <2>10, <2>11 DEF NotifyInv, ConcludedInv
  <2>13. NotifyTypeOK'
      BY <1>0, <1>1, <2>1, <2>3, <2>4, <2>5 DEF NotifyTypeOK
  <2> QED
      BY <2>6, <2>9, <2>12, <2>13 DEF NotifyInv
<1>8. CASE GiveUp
  <2>1. UNCHANGED <<job, stopCh, taken, ctx>> /\ ctx = "done" /\ result' = "error"
      BY <1>8 DEF GiveUp
  <2>2. NotifyTypeOK'
      BY <1>0, <1>1, <2>1 DEF NotifyTypeOK
  <2>3. ConcludedInv'
      BY <1>1, <2>1 DEF NotifyInv, ConcludedInv
  <2> QED
      BY <1>4, <2>1, <2>2, <2>3 DEF NotifyInv
<1>9. CASE Deadline
  <2>1. UNCHANGED <<job, stopCh, taken, result>> /\ ctx' = "done"
      BY <1>9 DEF Deadline
  <2>2. NotifyTypeOK'
      BY <1>0, <1>1, <2>1 DEF NotifyTypeOK
  <2>3. ConcludedInv'
      BY <1>1, <1>4, <2>1 DEF NotifyInv, ConcludedInv
  <2> QED
      BY <1>4, <2>1, <2>2, <2>3 DEF NotifyInv
<1> QED
    BY <1>5, <1>6, <1>7, <1>8, <1>9

\* NotifyInv holds throughout a Notify of every channel: whatever the platform
\* answers, and whenever the context ends.
THEOREM NotifyInvariant == NotifySpec => []NotifyInv
<1>1. NotifyInv /\ [NotifyNext]_notifyVars => NotifyInv'
  <2> SUFFICES ASSUME NotifyInv, [NotifyNext]_notifyVars PROVE NotifyInv'
      OBVIOUS
  <2>1. CASE UNCHANGED notifyVars
      BY <2>1 DEF notifyVars, NotifyInv, NotifyTypeOK, CountsInv, ConcludedInv, Done, DoneWell, Jobs, Of, Nils
  <2>2. CASE NotifyNext
      BY <2>2, WaitStep, JobStep, JobLeavesValue DEF NotifyNext, Sender
  <2> QED
      BY <2>1, <2>2
<1> QED
    BY <1>1, NotifyInvInitially, PTL DEF NotifySpec

\* What the invariant says of success, of repetition and of the end.
LEMMA NotifyKeeps ==
    ASSUME NotifyInv
    PROVE  ReportedWasDelivered /\ NilMeansDelivered /\ ReturnsAfterAll /\ DeliveredOnce
<1>0. /\ note \in Notifications /\ ChannelType(Of) /\ (note.kind # "email" => "late" \notin Of.sent)
      /\ note.kind # "discord" => "lost" \notin Of.again
  <2>1. note \in Notifications
      BY DEF NotifyInv, NotifyTypeOK
  <2> QED
      BY <2>1, NoteKnown
<1>a. \A j \in Jobs : job[j].ok => Through(j)
    BY <1>0 DEF NotifyInv, JobInv, Through
<1>1. ReportedWasDelivered
    BY <1>a DEF NotifyInv, NotifyTypeOK, ConcludedInv, ReportedWasDelivered, Jobs
<1>2. NilMeansDelivered
    BY <1>a DEF NotifyInv, ConcludedInv, NilMeansDelivered, DoneWell
<1>3. ReturnsAfterAll
    BY DEF NotifyInv, ConcludedInv, ReturnsAfterAll, Done
<1>4. DeliveredOnce
  <2> SUFFICES ASSUME NEW j \in Jobs PROVE received[j] <= IF note.kind = "discord" THEN 3 ELSE 1
      BY DEF DeliveredOnce
  <2>1. /\ received[j] \in Nat /\ received[j] <= job[j].tries /\ job[j].tries <= Of.tries /\ job[j] \in JobType
        /\ "lost" \notin Of.again => received[j] <= 1
      BY DEF NotifyInv, NotifyTypeOK, JobInv
  <2>2. received[j] <= 3
      BY SMT, <1>0, <2>1 DEF ChannelType, JobType
  <2> QED
      BY <1>0, <2>1, <2>2
<1> QED
    BY <1>1, <1>2, <1>3, <1>4

\* What Notify reports, returns and captures is true, for every receiver, channel,
\* number of parts (none too) and targets, whatever answers are lost, refused or
\* late: success stands for deliveries, apart from the answers that
\* SuccessMeansDelivered names.
THEOREM SuccessIsTrue == FeishuSpec /\ NotifySpec => []SuccessMeansDelivered
<1>1. FeishuInv /\ NotifyInv => SuccessMeansDelivered
    BY FeishuKeeps, NotifyKeeps DEF SuccessMeansDelivered
<1> QED
    BY <1>1, FeishuInvariant, NotifyInvariant, PTL

\* The retry loops of all the notifiers deliver a message to a target once, three
\* times at most for Discord, and a frozen plan makes one request per target.
THEOREM RetriesSendOnce == FeishuSpec /\ NotifySpec => []SentOnce
<1>1. FeishuInv /\ NotifyInv => SentOnce
    BY FeishuKeeps, NotifyKeeps DEF SentOnce
<1> QED
    BY <1>1, FeishuInvariant, NotifyInvariant, PTL

-----------------------------------------------------------------------------
(***************************************************************************)
(* Throttle: the DingTalk flow control respects its rate.                  *)
(***************************************************************************)
ThrottleTypeOK ==
    /\ limiter \in Settings \cup {Nil}
    /\ queue \in Seq(Nat) /\ allowed \in Seq(Nat) /\ now \in Nat
    /\ mutex \in Callers \cup {Nil}
    /\ caller \in [Callers -> [at : {"idle", "locking", "sleeping", "dropped"},
                               since : Nat, until : Nat]]

\* Nothing happens before the limiter exists.
Unlimited ==
    limiter = Nil => /\ queue = <<>> /\ allowed = <<>>
                     /\ \A c \in Callers : caller[c].at = "idle"

\* The queue holds the latest allowed calls, all of them or `threshold` many.
QueueIsRecent ==
    limiter # Nil =>
        /\ Len(queue) <= limiter.threshold /\ Len(queue) <= Len(allowed)
        /\ Len(queue) < limiter.threshold => Len(queue) = Len(allowed)
        /\ \A i \in 1 .. Len(queue) :
               queue[i] = allowed[Len(allowed) - Len(queue) + i]

\* A sleeper holds the mutex, and its alarm is set by the head of a full queue.
SleeperWaits ==
    \A c \in Callers : caller[c].at = "sleeping" =>
        /\ limiter # Nil /\ mutex = c /\ Len(queue) = limiter.threshold
        /\ caller[c].until = queue[1] + limiter.unitTime

ThrottleInv ==
    ThrottleTypeOK /\ Unlimited /\ QueueIsRecent /\ SleeperWaits /\ RateRespected

\* The settings of a limiter are numbers, its threshold positive.
LEMMA LimiterType ==
    ASSUME ThrottleTypeOK, limiter # Nil
    PROVE  /\ limiter.threshold \in Nat \ {0}
           /\ limiter.unitTime \in Nat /\ limiter.maxWaitTime \in Nat
BY ThrottleConstants DEF ThrottleTypeOK, SettingsType

\* The queue and the record after a call is let through while the queue is short.
LEMMA LetShort ==
    ASSUME ThrottleInv, limiter # Nil, Len(queue) < limiter.threshold, Let(queue),
           limiter' = limiter
    PROVE  /\ queue' \in Seq(Nat) /\ allowed' \in Seq(Nat)
           /\ QueueIsRecent' /\ RateRespected'
<1> USE LimiterType DEF ThrottleInv
<1>1. /\ queue \in Seq(Nat) /\ allowed \in Seq(Nat) /\ now \in Nat
      /\ queue' = Append(queue, now) /\ allowed' = Append(allowed, now)
      /\ Len(queue) = Len(allowed) /\ Len(queue) \in Nat
    BY SMT DEF ThrottleTypeOK, Let, QueueIsRecent
<1>2. /\ queue' \in Seq(Nat) /\ allowed' \in Seq(Nat)
      /\ Len(queue') = Len(queue) + 1 /\ Len(allowed') = Len(allowed) + 1
      /\ \A i \in 1 .. Len(queue) : queue'[i] = queue[i] /\ allowed'[i] = allowed[i]
      /\ queue'[Len(queue) + 1] = now /\ allowed'[Len(queue) + 1] = now
    BY SMTT(30), <1>1
<1>3. QueueIsRecent'
    BY SMTT(30), <1>1, <1>2 DEF QueueIsRecent
<1>4. RateRespected'
    BY SMTT(30), <1>1, <1>2 DEF RateRespected
<1> QED
    BY ZenonT(30), <1>2, <1>3, <1>4

\* The k entries of q are the last of the n entries of a.
EndsWith(a, n, q, k) == \A i \in 1 .. k : q[i] = a[n - k + i]

\* Entries of a that are k apart differ by u or more.
Spaced(a, n, k, u) == \A i \in 1 .. n : i + k <= n => a[i + k] - a[i] >= u

FullQueueOf(a, n, q, k) ==
    q \in Seq(Nat) /\ Len(q) = k /\ k <= n /\ EndsWith(a, n, q, k)

Extends(a2, a, n, x) == (\A i \in 1 .. n : a2[i] = a[i]) /\ a2[n + 1] = x

\* What Append does, without sequences.
LEMMA Appended ==
    ASSUME NEW a \in Seq(Nat), NEW x \in Nat, NEW n \in Nat, Len(a) = n,
           NEW a2, a2 = Append(a, x)
    PROVE  a2 \in Seq(Nat) /\ Len(a2) = n + 1 /\ Extends(a2, a, n, x)
BY SMT DEF Extends

\* What appending x does to a full queue q and to the record a that it ends.
LEMMA Shifted ==
    ASSUME NEW k \in Nat \ {0}, NEW n \in Nat, NEW x \in Nat, NEW a, NEW a2,
           NEW q, NEW q2, FullQueueOf(a, n, q, k), Extends(a2, a, n, x),
           q2 = Append(Tail(q), x)
    PROVE  FullQueueOf(a2, n + 1, q2, k)
<1> USE DEF FullQueueOf
<1>1. /\ Tail(q) \in Seq(Nat) /\ Len(Tail(q)) = k - 1
      /\ \A i \in 1 .. (k - 1) : Tail(q)[i] = q[i + 1]
    BY SMTT(30)
<1>2. q2 \in Seq(Nat) /\ Len(q2) = k /\ q2[k] = x
    BY SMTT(30), <1>1
<1>3. \A i \in 1 .. (k - 1) : q2[i] = q[i + 1]
    BY SMT, <1>1
<1>4. ASSUME NEW i \in 1 .. k PROVE q2[i] = a2[(n + 1) - k + i]
  <2>1. CASE i = k
    <3>1. (n + 1) - k + i = n + 1
        BY SMT, <2>1
    <3> QED
        BY <3>1, <2>1, <1>2 DEF Extends
  <2>2. CASE i # k
    <3>1. i \in 1 .. (k - 1) /\ i + 1 \in 1 .. k /\ (n + 1) - k + i \in 1 .. n
        BY SMTT(30), <2>2
    <3>2. q2[i] = a[n - k + (i + 1)]
        BY ZenonT(30), <3>1, <1>3 DEF EndsWith
    <3>3. n - k + (i + 1) = (n + 1) - k + i
        BY SMTT(30), <3>1
    <3> QED
        BY <3>1, <3>2, <3>3 DEF Extends
  <2> QED
      BY <2>1, <2>2
<1>5. k <= n + 1
    BY SMT
<1>6. EndsWith(a2, n + 1, q2, k)
    BY <1>4 DEF EndsWith
<1> QED
    BY ZenonT(30), <1>2, <1>5, <1>6

\* The rate survives when the new call is u after the head of the queue.
LEMMA StaysSpaced ==
    ASSUME NEW a, NEW a2, NEW q, NEW k \in Nat \ {0}, NEW n \in Nat, NEW u \in Nat,
           NEW x \in Nat, NEW h \in Nat, k <= n, EndsWith(a, n, q, k),
           Extends(a2, a, n, x), Spaced(a, n, k, u), q[1] = h, x >= h + u
    PROVE  Spaced(a2, n + 1, k, u)
<1> SUFFICES ASSUME NEW i \in 1 .. (n + 1), i + k <= n + 1
             PROVE  a2[i + k] - a2[i] >= u
    BY DEF Spaced
<1>1. CASE i + k <= n
  <2>1. i \in 1 .. n /\ i + k \in 1 .. n
      BY SMTT(30), <1>1
  <2> QED
      BY <2>1, <1>1 DEF Spaced, Extends
<1>2. CASE i + k = n + 1
  <2>1. i = n - k + 1 /\ i \in 1 .. n /\ 1 \in 1 .. k
      BY SMT, <1>2
  <2>2. a2[i] = h /\ a2[i + k] = x
      BY <2>1, <1>2 DEF EndsWith, Extends
  <2> QED
      BY SMTT(30), <2>2
<1> QED
    BY SMTT(30), <1>1, <1>2

\* The same when the queue is full and its head is a unit old.
LEMMA LetFull ==
    ASSUME ThrottleInv, limiter # Nil, Len(queue) = limiter.threshold,
           now >= queue[1] + limiter.unitTime, Let(Tail(queue)), limiter' = limiter
    PROVE  /\ queue' \in Seq(Nat) /\ allowed' \in Seq(Nat)
           /\ QueueIsRecent' /\ RateRespected'
<1>1. /\ queue \in Seq(Nat) /\ allowed \in Seq(Nat) /\ now \in Nat
      /\ limiter.threshold \in Nat \ {0} /\ limiter.unitTime \in Nat
    BY LimiterType DEF ThrottleInv, ThrottleTypeOK
<1>2. /\ queue' = Append(Tail(queue), now) /\ allowed' = Append(allowed, now)
      /\ Len(queue) <= Len(allowed) /\ Len(allowed) \in Nat
      /\ \A i \in 1 .. Len(queue) :
             queue[i] = allowed[Len(allowed) - Len(queue) + i]
    BY SMTT(30), <1>1 DEF Let, ThrottleInv, QueueIsRecent
<1>3. PICK k \in Nat \ {0}, n \in Nat, u \in Nat, h \in Nat :
          /\ k = limiter.threshold /\ n = Len(allowed) /\ u = limiter.unitTime
          /\ h = queue[1]
    BY SMTT(30), <1>1, <1>2
<1>4. /\ Len(queue) = k /\ Len(allowed) = n /\ k <= n /\ now >= h + u
      /\ EndsWith(allowed, n, queue, k) /\ Spaced(allowed, n, k, u)
    BY <1>1, <1>2, <1>3 DEF EndsWith, Spaced, ThrottleInv, RateRespected
<1>5. allowed' \in Seq(Nat) /\ Len(allowed') = n + 1 /\ Extends(allowed', allowed, n, now)
  <2>1. /\ allowed \in Seq(Nat) /\ now \in Nat /\ n \in Nat /\ Len(allowed) = n
        /\ allowed' = Append(allowed, now)
      BY <1>1, <1>2, <1>4
  <2> QED
      BY ZenonT(30), <2>1, Appended
<1>6. queue' \in Seq(Nat) /\ Len(queue') = k /\ EndsWith(allowed', n + 1, queue', k)
  <2>1. FullQueueOf(allowed, n, queue, k)
      BY <1>1, <1>4 DEF FullQueueOf
  <2>2. FullQueueOf(allowed', n + 1, queue', k)
      BY <2>1, <1>1, <1>2, <1>5, Shifted, Zenon
  <2> QED
      BY <2>2 DEF FullQueueOf
<1>7. Spaced(allowed', n + 1, k, u)
    BY ZenonT(30), <1>1, <1>3, <1>4, <1>5, StaysSpaced
<1>8. QueueIsRecent'
    BY SMTT(30), <1>3, <1>4, <1>5, <1>6 DEF QueueIsRecent, EndsWith
<1>9. RateRespected'
    BY <1>3, <1>5, <1>7 DEF RateRespected, Spaced
<1> QED
    BY <1>5, <1>6, <1>8, <1>9

\* Of a full queue, the last `threshold` calls are all.
LEMMA FullQueue ==
    ASSUME ThrottleInv, limiter # Nil, Len(queue) >= limiter.threshold
    PROVE  /\ Len(queue) = limiter.threshold /\ LastCalls = queue
           /\ queue # <<>> /\ Head(queue) = queue[1] /\ queue[1] \in Nat
<1> USE LimiterType DEF ThrottleInv
<1>1. /\ queue \in Seq(Nat) /\ Len(queue) = limiter.threshold
      /\ limiter.threshold \in Nat \ {0}
    BY SMT DEF ThrottleTypeOK, QueueIsRecent
<1>2. SubSeq(queue, 1, Len(queue)) = queue
    BY SMTT(30), <1>1
<1>3. Len(queue) - limiter.threshold + 1 = 1
    BY SMTT(30), <1>1
<1> QED
    BY SMTT(30), <1>1, <1>2, <1>3 DEF LastCalls

\* There is no limiter and no call yet.
LEMMA ThrottleInvInitially == ThrottleInit => ThrottleInv
BY SMTT(30), ThrottleConstants DEF ThrottleInit, ThrottleInv, ThrottleTypeOK, Unlimited,
   QueueIsRecent, SleeperWaits, RateRespected

\* Allow lets the call through, refuses it or goes to sleep.
LEMMA AllowKeeps ==
    ASSUME ThrottleInv, NEW c \in Callers, Allow(c)
    PROVE  ThrottleInv'
<1> USE DEF ThrottleInv
<1>1. /\ limiter # Nil /\ mutex = Nil /\ limiter' = limiter /\ now' = now
      /\ \A d \in Callers : caller[d].at # "sleeping"
    BY ThrottleConstants DEF Allow, Unlimited, SleeperWaits
<1>2. /\ caller \in [Callers -> [at : {"idle", "locking", "sleeping", "dropped"},
                                 since : Nat, until : Nat]]
      /\ now \in Nat /\ limiter \in Settings \cup {Nil}
    BY DEF ThrottleTypeOK
<1>3. CASE Len(queue) < limiter.threshold /\ Let(queue) /\ Call(c, "idle") /\ UNCHANGED mutex
  <2>1. /\ queue' \in Seq(Nat) /\ allowed' \in Seq(Nat)
        /\ QueueIsRecent' /\ RateRespected'
      BY <1>1, <1>3, LetShort
  <2> QED
      BY <2>1, <1>1, <1>2, <1>3 DEF Call, ThrottleTypeOK, Unlimited, SleeperWaits
<1>4. CASE /\ Len(queue) >= limiter.threshold
           /\ now - Head(LastCalls) >= limiter.unitTime
           /\ Let(Tail(LastCalls)) /\ Call(c, "idle") /\ UNCHANGED mutex
  <2>1. /\ queue' \in Seq(Nat) /\ allowed' \in Seq(Nat)
        /\ QueueIsRecent' /\ RateRespected'
    <3>1. now >= queue[1] + limiter.unitTime /\ Let(Tail(queue))
        BY SMTT(30), <1>1, <1>2, <1>4, FullQueue, LimiterType
    <3> QED
        BY ZenonT(30), <3>1, <1>1, <1>4, FullQueue, LetFull
  <2> QED
      BY <2>1, <1>1, <1>2, <1>4 DEF Call, ThrottleTypeOK, Unlimited, SleeperWaits
<1>5. CASE /\ Len(queue) >= limiter.threshold
           /\ queue' = LastCalls /\ UNCHANGED allowed
           /\ IF WaitTime <= limiter.maxWaitTime
              THEN /\ mutex' = c
                   /\ caller' = [caller EXCEPT ![c].at = "sleeping",
                                               ![c].until = now + WaitTime]
              ELSE Call(c, "dropped") /\ UNCHANGED mutex
  <2>1. /\ queue' = queue /\ allowed' = allowed
        /\ Len(queue) = limiter.threshold /\ queue[1] \in Nat
        /\ now + WaitTime = queue[1] + limiter.unitTime
        /\ now + WaitTime \in Nat
      BY SMTT(30), <1>1, <1>2, <1>5, FullQueue, LimiterType DEF WaitTime
  <2>2. QueueIsRecent' /\ RateRespected'
      BY <2>1, <1>1 DEF QueueIsRecent, RateRespected
  <2>3. CASE mutex' = c /\ caller' = [caller EXCEPT ![c].at = "sleeping",
                                                    ![c].until = now + WaitTime]
    <3>1. /\ ThrottleTypeOK'
          /\ \A d \in Callers : caller'[d].at = "sleeping" => d = c
          /\ caller'[c].until = queue[1] + limiter.unitTime
        BY <2>1, <2>3, <1>1, <1>2 DEF ThrottleTypeOK
    <3> QED
        BY <3>1, <2>1, <2>2, <2>3, <1>1 DEF Unlimited, SleeperWaits
  <2>4. CASE Call(c, "dropped") /\ UNCHANGED mutex
      BY <2>1, <2>2, <2>4, <1>1, <1>2 DEF Call, ThrottleTypeOK, Unlimited, SleeperWaits
  <2> QED
      BY <2>3, <2>4, <1>5
<1> QED
    BY <1>3, <1>4, <1>5 DEF Allow

\* A caller wakes with the mutex, when the oldest call is a unit old.
LEMMA WakeKeeps ==
    ASSUME ThrottleInv, NEW c \in Callers, Wake(c)
    PROVE  ThrottleInv'
<1> USE DEF ThrottleInv
<1>1. /\ limiter # Nil /\ mutex = c /\ limiter' = limiter /\ now' = now
      /\ mutex' = Nil /\ Call(c, "idle") /\ Let(Tail(queue))
      /\ Len(queue) = limiter.threshold
      /\ now >= queue[1] + limiter.unitTime
      /\ \A d \in Callers : caller[d].at = "sleeping" => d = c
    BY DEF Wake, SleeperWaits
<1>2. /\ queue' \in Seq(Nat) /\ allowed' \in Seq(Nat)
      /\ QueueIsRecent' /\ RateRespected'
    BY <1>1, LetFull
<1> QED
    BY <1>1, <1>2 DEF Call, ThrottleTypeOK, Unlimited, SleeperWaits

\* Every step of the callers and of time keeps the invariant.
LEMMA ThrottleInvStep == ThrottleInv /\ [ThrottleNext]_throttleVars => ThrottleInv'
<1> SUFFICES ASSUME ThrottleInv, [ThrottleNext]_throttleVars PROVE ThrottleInv'
    OBVIOUS
<1> USE DEF ThrottleInv
<1>1. ASSUME NEW c \in Callers, TryAdd(c) PROVE ThrottleInv'
  <2>1. /\ limiter' \in Settings /\ queue' = queue /\ allowed' = allowed
        /\ mutex' = mutex /\ now' = now
        /\ limiter # Nil => limiter' = limiter
        /\ caller' = [caller EXCEPT ![c] = [at |-> "locking", since |-> now,
                                            until |-> now]]
      BY <1>1 DEF TryAdd, ThrottleTypeOK
  <2>2. ThrottleTypeOK'
      BY <2>1 DEF ThrottleTypeOK
  <2>3. limiter' # Nil
      BY <2>1, ThrottleConstants
  <2>4. /\ limiter'.threshold \in Nat \ {0}
        /\ limiter = Nil => queue = <<>> /\ allowed = <<>>
      BY ZenonT(30), <2>1, ThrottleConstants DEF Unlimited, SettingsType
  <2>5. QueueIsRecent' /\ RateRespected'
      BY SMTT(30), <2>1, <2>4 DEF QueueIsRecent, RateRespected
  <2>6. SleeperWaits'
      BY <2>1, <2>3 DEF SleeperWaits, ThrottleTypeOK
  <2> QED
      BY <2>2, <2>3, <2>5, <2>6 DEF Unlimited
<1>2. ASSUME NEW c \in Callers, Dropped(c) PROVE ThrottleInv'
    BY ZenonT(30), <1>2 DEF Dropped, Call, ThrottleTypeOK, Unlimited, QueueIsRecent,
       SleeperWaits, RateRespected
<1>3. CASE Tick
    BY SMT, <1>3 DEF Tick, ThrottleTypeOK, Unlimited, QueueIsRecent, SleeperWaits,
       RateRespected
<1>4. CASE UNCHANGED throttleVars
    BY <1>4 DEF throttleVars, ThrottleTypeOK, Unlimited, QueueIsRecent, SleeperWaits,
       RateRespected
<1> QED
    BY <1>1, <1>2, <1>3, <1>4, AllowKeeps, WakeKeeps DEF ThrottleNext

(***************************************************************************)
(* A call that Allow lets through and the one `threshold` calls later are  *)
(* at least `unitTime` apart, whatever the callers and the scheduler do.   *)
(***************************************************************************)
THEOREM RateIsRespected == ThrottleSpec => []RateRespected
<1>1. ThrottleInv => RateRespected
    BY DEF ThrottleInv
<1> QED
    BY <1>1, ThrottleInvInitially, ThrottleInvStep, PTL DEF ThrottleSpec

(***************************************************************************)
(* A sleeping caller of Allow owns the queue it computed its alarm from.   *)
(***************************************************************************)
THEOREM SleepersOwnTheQueue == ThrottleSpec => []SleeperOwnsTheQueue
<1>1. ThrottleInv => SleeperOwnsTheQueue
  <2> SUFFICES ASSUME ThrottleInv, NEW c \in Callers, caller[c].at = "sleeping"
               PROVE  /\ mutex = c /\ queue # <<>>
                      /\ caller[c].until = Head(queue) + limiter.unitTime
      BY DEF SleeperOwnsTheQueue
  <2>1. /\ limiter # Nil /\ mutex = c /\ Len(queue) = limiter.threshold
        /\ caller[c].until = queue[1] + limiter.unitTime
      BY DEF ThrottleInv, SleeperWaits
  <2>2. queue # <<>> /\ Head(queue) = queue[1]
      BY SMTT(30), <2>1, FullQueue, LimiterType DEF ThrottleInv
  <2> QED
      BY <2>1, <2>2
<1> QED
    BY <1>1, ThrottleInvInitially, ThrottleInvStep, PTL DEF ThrottleSpec

-----------------------------------------------------------------------------
(***************************************************************************)
(* TokenCache: a token is fetched once, however many senders ask for it.   *)
(***************************************************************************)
\* No agent ID is the secret of an application of the same corporation.
KeysApart == \A s, t \in Senders : invalidToken(s) # getToken(t)

Values == Tokens \cup {Nil, "forgot", "error"}
Busy == {"started", "fetching", "storing", "handing"}

TokenTypeOK ==
    /\ tokens \in [Keys -> [token : Values, fresh : BOOLEAN] \cup {Nil}]
    /\ worker \in [Calls -> [at : Busy \cup {"none", "ended"}, value : Values]]
    /\ callCtx \in [Senders -> {"live", "done"}]

\* Undisturbed, a goroutine works for the call that holds the mutex, it asks the
\* platform only where there is no token, and a cached token is fresh.
Undisturbed ==
    /\ \A c \in Calls : worker[c].at \in Busy => tokensMutex = c
    /\ \A c \in Calls : worker[c].at \in {"fetching", "storing"} => c[2] # "invalid" /\ tokens[Key(c)] = Nil
    /\ \A c \in Calls : c[2] = "invalid" => tokens[Key(c)] = Nil
    /\ \A k \in Keys : tokens[k] # Nil => tokens[k].fresh
    /\ \A s \in Senders : callCtx[s] = "live"

TokenInv == TokenTypeOK /\ (~disturbed => Undisturbed)

\* What a step of a goroutine does to its record.
LEMMA WorkerEffect ==
    ASSUME TokenTypeOK, NEW c \in Calls, NEW a \in Busy \cup {"none", "ended"}, NEW v \in Values,
           Worker(c, a, v)
    PROVE  /\ worker' \in [Calls -> [at : Busy \cup {"none", "ended"}, value : Values]]
           /\ worker'[c].at = a /\ \A d \in Calls : d # c => worker'[d] = worker[d]
  BY SMT DEF TokenTypeOK, Worker

\* A step of a goroutine that leaves the tokens alone.
LEMMA QuietWorker ==
    ASSUME TokenInv, NEW c \in Calls, NEW a \in Busy \cup {"none", "ended"}, NEW v \in Values,
           Worker(c, a, v), worker[c].at \in Busy,
           (a \in Busy /\ tokensMutex' = tokensMutex) \/ a = "ended",
           ~disturbed /\ a \in {"fetching", "storing"} => c[2] # "invalid" /\ tokens[Key(c)] = Nil,
           tokens' = tokens, callCtx' = callCtx, disturbed => disturbed'
    PROVE  TokenInv'
<1>1. /\ worker' \in [Calls -> [at : Busy \cup {"none", "ended"}, value : Values]]
      /\ worker'[c].at = a /\ \A d \in Calls : d # c => worker'[d] = worker[d]
  BY WorkerEffect DEF TokenInv
<1>2. TokenTypeOK'
  BY <1>1 DEF TokenInv, TokenTypeOK
<1>3. ASSUME ~disturbed' PROVE Undisturbed'
  <2>1. Undisturbed
    BY <1>3 DEF TokenInv
  <2>2. \A d \in Calls : worker[d].at \in Busy => d = c
    BY <2>1 DEF Undisturbed
  <2>3. \A d \in Calls : worker'[d].at \in Busy => tokensMutex' = d
    BY <1>1, <2>1, <2>2 DEF Undisturbed, Busy
  <2>4. \A d \in Calls : worker'[d].at \in {"fetching", "storing"} => d[2] # "invalid" /\ tokens'[Key(d)] = Nil
    BY <1>1, <1>3, <2>1 DEF Undisturbed
  <2> QED BY <2>1, <2>3, <2>4 DEF Undisturbed
<1> QED BY <1>2, <1>3 DEF TokenInv

\* Steps that leave the goroutines, the mutex, the tokens and the contexts alone.
LEMMA QuietStep ==
    ASSUME TokenInv, UNCHANGED <<tokens, tokensMutex, worker, callCtx, disturbed>>
    PROVE  TokenInv'
  BY DEF TokenInv, TokenTypeOK, Undisturbed

\* Lock: GetToken and InvalidToken start their goroutine under the mutex.
LEMMA LockStep ==
    ASSUME TokenInv, NEW c \in Calls, Lock(c)
    PROVE  TokenInv'
<1>1. worker' = [worker EXCEPT ![c].at = "started"] /\ tokensMutex = Nil /\ tokensMutex' = c
  BY DEF Lock
<1>2. /\ worker' \in [Calls -> [at : Busy \cup {"none", "ended"}, value : Values]]
      /\ worker'[c].at = "started" /\ \A d \in Calls : d # c => worker'[d] = worker[d]
  BY SMTT(30), <1>1 DEF TokenInv, TokenTypeOK, Busy
<1>3. tokens' = tokens /\ callCtx' = callCtx /\ disturbed' = disturbed
  BY DEF Lock
<1>4. ASSUME Undisturbed PROVE Undisturbed'
  <2>1. \A d \in Calls : worker[d].at \notin Busy
    BY <1>1, <1>4, TokenConstants DEF Undisturbed
  <2> QED BY <1>1, <1>2, <1>3, <1>4, <2>1 DEF Undisturbed, Busy
<1> QED BY <1>2, <1>3, <1>4 DEF TokenInv, TokenTypeOK

\* The goroutine of GetToken looks the token up, asks the platform and hands the
\* answer over.
LEMMA GetTokenStep ==
    ASSUME TokenInv, NEW c \in Calls, Lookup(c) \/ Issue(c) \/ Hand(c)
    PROVE  TokenInv'
<1>1. Key(c) \in Keys /\ worker[c].value \in Values
  BY SMT DEF Keys, TokenInv, TokenTypeOK
<1>2. CASE Lookup(c)
  <2> DEFINE t == tokens[Key(c)]
  <2>1. t # Nil => t.token \in Values
    BY SMT, <1>1 DEF TokenInv, TokenTypeOK
  <2>2. ~disturbed /\ t # Nil => t.fresh
    BY <1>1 DEF TokenInv, Undisturbed
  <2>3. \/ t # Nil /\ Worker(c, "handing", t.token)
        \/ (t # Nil => ~t.fresh) /\ Worker(c, "fetching", Nil)
    BY <1>2 DEF Lookup
  <2>4. /\ tokens' = tokens /\ callCtx' = callCtx /\ disturbed' = disturbed /\ tokensMutex' = tokensMutex
        /\ c[2] # "invalid" /\ worker[c].at = "started" /\ Nil \in Values
    BY <1>2 DEF Lookup, Values
  <2> QED BY ZenonT(30), <2>1, <2>2, <2>3, <2>4, QuietWorker DEF Busy
<1>3. CASE Issue(c)
  <2>1. /\ tokens' = tokens /\ callCtx' = callCtx /\ tokensMutex' = tokensMutex /\ worker[c].at = "fetching"
        /\ disturbed' = disturbed \/ disturbed' = TRUE
    BY <1>3 DEF Issue
  <2>2. ~disturbed => c[2] # "invalid" /\ tokens[Key(c)] = Nil
    BY <2>1 DEF TokenInv, Undisturbed
  <2>3. \E v \in Values : Worker(c, "storing", v) \/ Worker(c, "handing", v)
    BY <1>3 DEF Issue, Values
  <2>4. disturbed => disturbed'
    BY <2>1
  <2> QED BY <2>1, <2>2, <2>3, <2>4, QuietWorker DEF Busy
<1>4. CASE Hand(c)
  <2>1. /\ tokens' = tokens /\ callCtx' = callCtx /\ disturbed' = disturbed
        /\ worker[c].at = "handing" /\ Worker(c, "ended", Nil) /\ Nil \in Values
    BY <1>4 DEF Hand, Values
  <2> QED BY <2>1, QuietWorker DEF Busy
<1> QED BY <1>2, <1>3, <1>4

\* A token is stored under the key of GetToken, and forgotten under another.
LEMMA TokensStep ==
    ASSUME KeysApart, TokenInv, NEW c \in Calls, Store(c) \/ Forget(c)
    PROVE  TokenInv'
<1>1. PICK a \in Busy, v \in Values : Worker(c, "handing", v) /\ a = "handing"
  BY SMT DEF TokenInv, TokenTypeOK, Store, Forget, Values, Busy
<1>2. /\ worker' \in [Calls -> [at : Busy \cup {"none", "ended"}, value : Values]]
      /\ worker'[c].at = "handing" /\ \A d \in Calls : d # c => worker'[d] = worker[d]
  BY <1>1, WorkerEffect DEF TokenInv
<1>3. /\ tokensMutex' = tokensMutex /\ callCtx' = callCtx /\ disturbed' = disturbed
      /\ worker[c].at \in Busy
  BY DEF Store, Forget, Busy
<1>4. Key(c) \in Keys
  BY DEF Keys
<1>5. CASE Store(c)
  <2>1. PICK e \in [token : Values, fresh : BOOLEAN] : tokens' = [tokens EXCEPT ![Key(c)] = e] /\ e.fresh
    <3>1. PICK w \in Values : w = worker[c].value
      BY SMT DEF TokenInv, TokenTypeOK
    <3>2. [token |-> w, fresh |-> TRUE] \in [token : Values, fresh : BOOLEAN] /\ [token |-> w, fresh |-> TRUE].fresh
      OBVIOUS
    <3> QED BY ZenonT(30), <1>5, <3>1, <3>2 DEF Store
  <2>2. /\ tokens' \in [Keys -> [token : Values, fresh : BOOLEAN] \cup {Nil}]
        /\ tokens'[Key(c)] = e /\ \A k \in Keys : k # Key(c) => tokens'[k] = tokens[k]
    BY <1>4, <2>1 DEF TokenInv, TokenTypeOK
  <2>3. ASSUME Undisturbed PROVE Undisturbed'
    <3>1. \A d \in Calls : worker[d].at \in Busy => d = c
      BY <1>3, <2>3 DEF Undisturbed
    <3>2. c[2] # "invalid"
      BY <1>5, <2>3 DEF Undisturbed, Store
    <3>3. \A d \in Calls : d[2] = "invalid" => Key(d) # Key(c)
      BY SMT, <3>2 DEF KeysApart, Key, Calls
    <3>4. \A d \in Calls : Key(d) \in Keys
      BY DEF Keys
    <3>5. \A d \in Calls : d[2] = "invalid" => tokens'[Key(d)] = Nil
      BY SMTT(30), <2>2, <2>3, <3>3, <3>4 DEF Undisturbed
    <3>6. \A d \in Calls : worker'[d].at \notin {"fetching", "storing"}
      BY <1>2, <3>1 DEF Busy
    <3>7. \A d \in Calls : worker'[d].at \in Busy => tokensMutex' = d
      BY <1>2, <1>3, <2>3 DEF Undisturbed
    <3>8. \A k \in Keys : tokens'[k] # Nil => tokens'[k].fresh
      BY <2>1, <2>2, <2>3 DEF Undisturbed
    <3> QED BY <1>3, <2>3, <3>5, <3>6, <3>7, <3>8 DEF Undisturbed
  <2> QED BY <1>2, <1>3, <2>2, <2>3 DEF TokenInv, TokenTypeOK
<1>6. CASE Forget(c)
  <2>1. PICK e \in [token : Values, fresh : BOOLEAN] \cup {Nil} :
          tokens' = [tokens EXCEPT ![Key(c)] = e] /\ (tokens[Key(c)] = Nil => e = Nil)
    <3>1. PICK t \in [token : Values, fresh : BOOLEAN] \cup {Nil} : t = tokens[Key(c)]
      BY <1>4 DEF TokenInv, TokenTypeOK
    <3>2. t # Nil => [t EXCEPT !.fresh = FALSE] \in [token : Values, fresh : BOOLEAN]
      <4>1. \A b \in BOOLEAN : t # Nil => [t EXCEPT !.fresh = b] \in [token : Values, fresh : BOOLEAN]
        BY SMT
      <4> QED BY <4>1
    <3>3. tokens' = [tokens EXCEPT ![Key(c)] = IF t = Nil THEN Nil ELSE [t EXCEPT !.fresh = FALSE]]
      BY <1>6, <3>1 DEF Forget
    <3> QED BY <3>1, <3>2, <3>3
  <2>2. /\ tokens' \in [Keys -> [token : Values, fresh : BOOLEAN] \cup {Nil}]
        /\ tokens'[Key(c)] = e /\ \A k \in Keys : k # Key(c) => tokens'[k] = tokens[k]
    BY <1>4, <2>1 DEF TokenInv, TokenTypeOK
  <2>3. ASSUME Undisturbed PROVE Undisturbed'
    <3>1. tokens[Key(c)] = Nil
      BY <1>6, <2>3 DEF Undisturbed, Forget
    <3>2. \A k \in Keys : tokens'[k] = tokens[k]
      BY <2>1, <2>2, <3>1
    <3>3. \A d \in Calls : Key(d) \in Keys
      BY DEF Keys
    <3> QED BY <1>2, <1>3, <2>3, <3>2, <3>3 DEF Undisturbed, Busy
  <2> QED BY <1>2, <1>3, <2>2, <2>3 DEF TokenInv, TokenTypeOK
<1> QED BY <1>5, <1>6

\* A call that ends at its deadline, and a token that ages, are disturbances.
LEMMA DisturbingStep ==
    ASSUME TokenInv, \/ \E c \in Calls : LeaveFetch(c)
                     \/ \E s \in Senders : CallDeadline(s)
                     \/ \E k \in Keys : Age(k)
    PROVE  TokenInv'
<1>1. ASSUME NEW c \in Calls, LeaveFetch(c) PROVE TokenInv'
  <2>1. disturbed
    <3>1. c[1] \in Senders /\ callCtx[c[1]] = "done"
      BY <1>1 DEF LeaveFetch, Calls
    <3> QED BY <3>1 DEF TokenInv, Undisturbed
  <2> QED BY <1>1, <2>1 DEF LeaveFetch, TokenInv, TokenTypeOK
<1>2. ASSUME NEW s \in Senders, CallDeadline(s) PROVE TokenInv'
  BY <1>2 DEF CallDeadline, TokenInv, TokenTypeOK
<1>3. ASSUME NEW k \in Keys, Age(k) PROVE TokenInv'
  <2>1. PICK t \in [token : Values, fresh : BOOLEAN] : t = tokens[k]
    BY <1>3 DEF Age, TokenInv, TokenTypeOK
  <2>2. [t EXCEPT !.fresh = FALSE] \in [token : Values, fresh : BOOLEAN]
    <3>1. \A b \in BOOLEAN : [t EXCEPT !.fresh = b] \in [token : Values, fresh : BOOLEAN]
      BY SMT
    <3> QED BY <3>1
  <2>3. tokens' = [tokens EXCEPT ![k] = [t EXCEPT !.fresh = FALSE]] /\ disturbed'
    BY <1>3, <2>1 DEF Age
  <2>4. tokens' \in [Keys -> [token : Values, fresh : BOOLEAN] \cup {Nil}]
    BY <2>2, <2>3 DEF TokenInv, TokenTypeOK
  <2>5. worker' = worker /\ callCtx' = callCtx
    BY <1>3 DEF Age
  <2> QED BY <2>3, <2>4, <2>5 DEF TokenInv, TokenTypeOK
<1> QED BY <1>1, <1>2, <1>3

\* With the keys apart, GetToken and InvalidToken keep the invariant.
THEOREM TokenInvariant ==
    ASSUME KeysApart
    PROVE  TokenSpec => []TokenInv
<1>1. TokenInit => TokenInv
  <2> SUFFICES ASSUME TokenInit PROVE TokenInv
    OBVIOUS
  <2>1. TokenTypeOK
    BY DEF TokenInit, TokenTypeOK, Values, Busy
  <2>2. \A c \in Calls : worker[c].at = "none" /\ Key(c) \in Keys
    BY DEF TokenInit, Keys
  <2> QED BY <2>1, <2>2 DEF TokenInit, TokenInv, Undisturbed, Busy
<1>2. TokenInv /\ [TokenNext]_tokenVars => TokenInv'
  <2> SUFFICES ASSUME TokenInv, [TokenNext]_tokenVars PROVE TokenInv'
    OBVIOUS
  <2>1. ASSUME NEW s \in Senders, Send(s) \/ Expired(s) PROVE TokenInv'
    BY <2>1, QuietStep DEF Send, Expired
  <2>2. CASE Revoke
    BY <2>2, QuietStep DEF Revoke
  <2>3. CASE UNCHANGED tokenVars
    BY <2>3, QuietStep DEF tokenVars
  <2> QED BY <2>1, <2>2, <2>3, LockStep, GetTokenStep, TokensStep, DisturbingStep DEF TokenNext
<1> QED BY <1>1, <1>2, PTL DEF TokenSpec

\* Senders that share a key share one token: undisturbed, GetToken asks the
\* platform at most once per key, for any number of senders and of keys.
THEOREM TokensAreShared ==
    ASSUME KeysApart
    PROVE  TokenSpec => []FetchedOnce
<1>1. TokenInv => FetchedOnce
  <2> SUFFICES ASSUME TokenInv, ~disturbed, NEW k \in Keys
               PROVE  Cardinality({c \in Calls : Key(c) = k /\ worker[c].at \in {"fetching", "storing"}})
                          <= IF tokens[k] = Nil THEN 1 ELSE 0
    BY DEF FetchedOnce
  <2> DEFINE S == {c \in Calls : Key(c) = k /\ worker[c].at \in {"fetching", "storing"}}
  <2>1. S \subseteq {tokensMutex}
    BY DEF TokenInv, Undisturbed, Busy
  <2>2. tokens[k] # Nil => S = {}
    BY DEF TokenInv, Undisturbed
  <2>3. S = {} \/ S = {tokensMutex}
    BY <2>1
  <2> HIDE DEF S
  <2>4. Cardinality({}) = 0 /\ Cardinality({tokensMutex}) = 1
    BY FS_EmptySet, FS_Singleton
  <2>5. Cardinality(S) <= IF tokens[k] = Nil THEN 1 ELSE 0
    BY SMTT(30), <2>2, <2>3, <2>4
  <2> QED BY <2>5 DEF S
<1> QED BY <1>1, TokenInvariant, PTL
=============================================================================
