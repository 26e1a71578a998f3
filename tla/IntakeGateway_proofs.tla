------------------------ MODULE IntakeGateway_proofs ------------------------
(***************************************************************************)
(* The theorems about startup, intake and profile control: every step of   *)
(* the gateway is a step of the spool, and the inductive invariant of the  *)
(* gateway relates requests, operators and Main to the profile states and  *)
(* the plans in it.  They hold for any lanes, versions, requests and       *)
(* operators that satisfy the named assumptions.                           *)
(***************************************************************************)
EXTENDS IntakeGateway, NotificationSpool_proofs

\* Zenon is asked first; a leaf that needs arithmetic, records or many cases cites SMT.
USE Zenon

\* A lane that nobody registered is empty; the bootstrap version is one that is
\* registered, and gone once a version was activated.
StatesInv ==
    \A l \in Lanes :
      /\ pstate[l].rev = 0 => pstate[l] = Unregistered
      /\ pstate[l].bootstrap # NoVersion =>
           pstate[l].version = NoVersion /\ pstate[l].bootstrap \in registered[l]

\* Main holds the bootstrap version that the state still names, and no request
\* is in progress before it serves.
BootInv ==
    /\ boot.phase \in {"prepare", "activate"} =>
         boot.version = pstate[TestLane].bootstrap /\ boot.version # NoVersion
    /\ boot.phase # "serving" => \A r \in Requests : req[r].stage \in {"idle", "acked"}

\* A request holds a snapshot of its own lane that is not newer than the state,
\* and as old as the last control operation unless it is fresh.
RequestsInv ==
    \A r \in Requests : req[r].stage # "idle" =>
      /\ req[r].snap \in Snapshot /\ req[r].snap.lane = LaneOf[r] /\ req[r].snap.rev # 0
      /\ req[r].snap.rev <= pstate[LaneOf[r]].rev
      /\ req[r].snap.rev = pstate[LaneOf[r]].rev => req[r].fresh
      /\ req[r].stage \in {"stored", "acked"} => req[r].intake \in Intakes

\* What an operator has seen is not newer than the state, and equal to it at the
\* same revision.
ViewsInv ==
    \A o \in Operators, l \in Lanes :
      /\ view[o][l].rev <= pstate[l].rev
      /\ view[o][l].rev = pstate[l].rev => view[o][l] = pstate[l]

\* The provenance that the dedupe key of a plan promises.
KeyFits(key, p) ==
    /\ key \in ProfiledKeys("am") \cup ProfiledKeys("explicit") =>
         p.lane = key[1] /\ p.version = key[2]
    /\ \A r \in Requests : Kind[r] = "direct" /\ key = PlainKey(Intent[r]) => p.lane = LaneOf[r]

\* Every stored plan was frozen under the provenance its key promises.
PlansInv ==
    \A i \in Intakes : \A t \in intakes[i].targets :
      KeyFits(intakes[i].key, targets[t].profile)

\* The inductive invariant of the gateway.
GatewayInv ==
    /\ SpoolInv /\ GatewayTypeOK /\ StartupNeverConflicts
    /\ StatesInv /\ BootInv /\ RequestsInv /\ ViewsInv /\ PlansInv /\ AckedIsStored
-----------------------------------------------------------------------------
(***************************************************************************)
(* What the operations of the spool do for the gateway.                    *)
(***************************************************************************)
\* ControlProfile moves one lane to its next revision.
LEMMA ControlEffect ==
    ASSUME SpoolTypeOK, NEW l \in Lanes, NEW action \in Actions, NEW v \in Versions,
           NEW expected, Control(l, action, v, expected)
    PROVE  /\ UNCHANGED <<bucketVars, registered>> /\ expected = pstate[l].rev
           /\ pstate[l].rev # 0 /\ pstate'[l].rev = pstate[l].rev + 1
           /\ \A m \in Lanes : m # l => pstate'[m] = pstate[m]
           /\ \/ action = "activate" /\ pstate'[l].bootstrap = NoVersion
              \/ /\ action # "activate" /\ pstate'[l].version = pstate[l].version
                 /\ pstate'[l].bootstrap = pstate[l].bootstrap
           /\ action = "prepare" => v \in pstate'[l].prepared
<1>1. pstate \in [Lanes -> ProfileState]
  BY DEF SpoolTypeOK, ProfilesTypeOK
<1>2. PICK st : st = Controlled(pstate[l], action, v)
  OBVIOUS
<1>3. /\ st \in ProfileState
      /\ \/ action = "activate" /\ st.bootstrap = NoVersion
         \/ action # "activate" /\ st.version = pstate[l].version /\ st.bootstrap = pstate[l].bootstrap
      /\ action = "prepare" => v \in st.prepared
  BY <1>1, <1>2 DEF Controlled, ProfileState, Actions
<1>4. /\ pstate' = [pstate EXCEPT ![l] = [st EXCEPT !.rev = expected + 1]]
      /\ UNCHANGED <<bucketVars, registered>> /\ expected = pstate[l].rev /\ pstate[l].rev # 0
  BY <1>2 DEF Control, ControlProfile
<1>5. pstate'[l] = [st EXCEPT !.rev = expected + 1] /\ \A m \in Lanes : m # l => pstate'[m] = pstate[m]
  BY <1>1, <1>4
<1>6. /\ pstate'[l].rev = expected + 1 /\ pstate'[l].version = st.version
      /\ pstate'[l].bootstrap = st.bootstrap /\ pstate'[l].prepared = st.prepared
  BY <1>3, <1>5 DEF ProfileState
<1> QED BY <1>3, <1>4, <1>5, <1>6

\* A state is replaced only by one with a higher revision.
ProfileStep(l) == pstate'[l] = pstate[l] \/ pstate'[l].rev > pstate[l].rev

\* RegisterProfiles gives a state to the lanes that have none, and takes nothing away.
LEMMA RegisterEffect ==
    ASSUME SpoolTypeOK, StatesInv, NEW config \in [Lanes -> Versions], NEW initial \in Versions,
           Register(config, initial), NEW l \in Lanes
    PROVE  /\ UNCHANGED bucketVars
           /\ ProfileStep(l) /\ registered[l] \subseteq registered'[l]
           /\ \/ pstate'[l] = pstate[l]
              \/ /\ pstate[l].rev = 0 /\ pstate[l].version = NoVersion
                 /\ pstate'[l].rev = 1 /\ pstate'[l].version = NoVersion
                 /\ pstate'[l].bootstrap # NoVersion => pstate'[l].bootstrap \in registered'[l]
<1>1. /\ UNCHANGED bucketVars /\ registered'[l] = registered[l] \cup {config[l]}
      /\ pstate'[l] = IF pstate[l].rev = 0
                      THEN [Unregistered EXCEPT !.rev = 1,
                              !.bootstrap = IF l = TestLane /\ config[l] = initial
                                            THEN initial ELSE NoVersion]
                      ELSE pstate[l]
  BY DEF Register, RegisterProfiles
<1>2. CASE pstate[l].rev = 0
  <2>1. pstate[l].version = NoVersion
    BY SMT, <1>2 DEF StatesInv, Unregistered
  <2>2. pstate'[l].rev = 1 /\ pstate'[l].version = NoVersion
    BY <1>1, <1>2 DEF Unregistered
  <2>3. pstate'[l].bootstrap = IF l = TestLane /\ config[l] = initial THEN initial ELSE NoVersion
    BY <1>1, <1>2 DEF Unregistered
  <2> QED BY SMTT(30), <1>1, <1>2, <2>1, <2>2, <2>3 DEF ProfileStep
<1>3. CASE pstate[l].rev # 0
  BY <1>1, <1>3 DEF ProfileStep
<1> QED BY <1>2, <1>3

\* The profile states stay in order when they do not change, ...
LEMMA StatesFrame ==
    ASSUME StatesInv, UNCHANGED profileVars
    PROVE  StatesInv' /\ \A l \in Lanes : ProfileStep(l)
  BY DEF StatesInv, profileVars, ProfileStep

\* ... when an operation controls one of them ...
LEMMA StatesControl ==
    ASSUME SpoolTypeOK, SpoolTypeOK', StatesInv, NEW l \in Lanes, NEW action \in Actions,
           NEW v \in Versions, NEW expected, Control(l, action, v, expected)
    PROVE  StatesInv' /\ \A m \in Lanes : ProfileStep(m)
<1>1. \A m \in Lanes : pstate[m].rev \in Nat /\ pstate'[m].rev \in Nat
  BY DEF SpoolTypeOK, ProfilesTypeOK, ProfileState
<1>2. ASSUME NEW m \in Lanes
      PROVE  /\ ProfileStep(m)
             /\ pstate'[m].rev = 0 => pstate'[m] = Unregistered
             /\ pstate'[m].bootstrap # NoVersion =>
                  pstate'[m].version = NoVersion /\ pstate'[m].bootstrap \in registered'[m]
  BY SMTT(30), <1>1, ControlEffect DEF StatesInv, ProfileStep
<1> QED BY <1>2 DEF StatesInv

\* ... and when FromEnv registers the configured profiles.
LEMMA StatesRegister ==
    ASSUME SpoolTypeOK, StatesInv, NEW config \in [Lanes -> Versions], NEW initial \in Versions,
           Register(config, initial)
    PROVE  StatesInv' /\ \A m \in Lanes : ProfileStep(m)
<1>1. ASSUME NEW m \in Lanes
      PROVE  /\ ProfileStep(m)
             /\ pstate'[m].rev = 0 => pstate'[m] = Unregistered
             /\ pstate'[m].bootstrap # NoVersion =>
                  pstate'[m].version = NoVersion /\ pstate'[m].bootstrap \in registered'[m]
  BY SMT, RegisterEffect DEF StatesInv
<1> QED BY <1>1 DEF StatesInv
-----------------------------------------------------------------------------
(***************************************************************************)
(* Every step of the gateway is a step of the spool.                       *)
(***************************************************************************)
\* The dedupe key of a request is one of the spool's, and it carries the repeat
\* interval exactly when it is an Alertmanager key.
LEMMA KeyFacts ==
    ASSUME NEW r \in Requests, req[r].snap \in Snapshot
    PROVE  /\ Key(r) \in Keys \cup {NoKey} /\ req[r].snap # NoSnapshot
           /\ Key(r) \in AMKeys <=> Kind[r] = "am"
           /\ Window(r) = IF Key(r) \in AMKeys THEN RepeatInterval ELSE 0
           /\ Kind[r] \in {"am", "explicit"} =>
                /\ Key(r) \in ProfiledKeys("am") \cup ProfiledKeys("explicit")
                /\ Key(r)[1] = req[r].snap.lane /\ Key(r)[2] = req[r].snap.version
           /\ Kind[r] = "direct" => Key(r) = PlainKey(Intent[r])
           /\ Kind[r] = "keyless" => Key(r) = NoKey
<1>1. /\ Kind[r] \in Kinds /\ Intent[r] \in Hashes
      /\ AMKeys = ProfiledKeys("am") /\ ExplicitKeys = HeaderKeys
      /\ AMKeys \cap ExplicitKeys = {} /\ NoKey \notin Keys
      /\ req[r].snap.lane \in Lanes /\ req[r].snap.version \in Versions
      /\ req[r].snap # NoSnapshot
  BY GatewayConstants, SpoolConstants DEF Snapshot
<1>2. CASE Kind[r] \in {"am", "explicit"}
  <2>1. Key(r) = <<req[r].snap.lane, req[r].snap.version, Kind[r], Intent[r]>>
    BY <1>2 DEF Key
  <2>2. Key(r) \in ProfiledKeys(Kind[r])
    BY SMTT(30), <1>1, <2>1 DEF ProfiledKeys
  <2>3. ProfiledKeys("explicit") \subseteq HeaderKeys
    BY DEF HeaderKeys
  <2> QED BY SMTT(30), <1>1, <1>2, <2>1, <2>2, <2>3 DEF Keys, Window
<1>3. CASE Kind[r] = "direct"
  <2>1. Key(r) = PlainKey(Intent[r])
    BY <1>3 DEF Key
  <2>2. Key(r) \in HeaderKeys
    BY <1>1, <2>1 DEF HeaderKeys
  <2> QED BY <1>1, <1>3, <2>1, <2>2 DEF Keys, Window
<1>4. CASE Kind[r] = "keyless"
  <2>1. Key(r) = NoKey
    BY <1>4 DEF Key
  <2> QED BY <1>1, <1>4, <2>1 DEF Keys, Window
<1> QED BY <1>1, <1>2, <1>3, <1>4 DEF Kinds

\* What a frozen request hands to the spool.
LEMMA FrozenFacts ==
    ASSUME GatewayInv, NEW r \in Requests, req[r].stage # "idle"
    PROVE  /\ req[r].snap \in Snapshot /\ req[r].snap.lane = LaneOf[r] /\ req[r].snap.rev # 0
           /\ req[r].plan \in SUBSET Items /\ Intent[r] \in Hashes /\ LaneOf[r] \in Lanes
  BY GatewayConstants DEF GatewayInv, RequestsInv, GatewayTypeOK, Request

\* acceptDurable submits under the snapshot of a lane that still accepts it.
LEMMA SubmitRuns ==
    ASSUME GatewayInv, NEW r \in Requests, SubmitProfile(r)
    PROVE  SubmitAny
<1>1. PICK i \in Intakes : Submit(i, Key(r), Intent[r], req[r].plan, req[r].snap, Window(r))
  BY DEF SubmitProfile
<1>2. /\ req[r].snap \in Snapshot /\ req[r].snap.lane = LaneOf[r] /\ req[r].snap.rev # 0
      /\ req[r].plan \in SUBSET Items /\ Intent[r] \in Hashes /\ LaneOf[r] \in Lanes
  BY FrozenFacts DEF SubmitProfile
<1>3. /\ Key(r) \in Keys \cup {NoKey} /\ req[r].snap # NoSnapshot
      /\ Window(r) = IF Key(r) \in AMKeys THEN RepeatInterval ELSE 0
  BY <1>2, KeyFacts
<1>4. CheckProfileAdmission(req[r].snap)
  BY <1>1, <1>3 DEF Submit
<1>5. Accepting(LaneOf[r]) /\ req[r].snap = ProfileSnapshot(LaneOf[r])
  BY <1>2, <1>4 DEF CheckProfileAdmission, Accepting, ProfileSnapshot, Snapshot
<1> QED BY <1>1, <1>2, <1>3, <1>5 DEF SubmitAny

\* A control operation with the current revision is one of the spool's.
LEMMA ControlRuns ==
    ASSUME NEW l \in Lanes, NEW action \in Actions, NEW v \in Versions, NEW expected,
           Control(l, action, v, expected)
    PROVE  ControlAny
<1>1. expected = pstate[l].rev
  BY DEF Control, ControlProfile
<1> QED BY <1>1 DEF ControlAny

\* The startup of Main holds a version that can be prepared and activated.
LEMMA BootVersion ==
    ASSUME GatewayInv, boot.phase \in {"prepare", "activate"}
    PROVE  boot.version \in Versions /\ TestLane \in Lanes
           /\ {"prepare", "activate"} \subseteq Actions
  BY ProfileConstants DEF GatewayInv, BootInv, GatewayTypeOK, Actions

\* Every step of startup, intake and control runs operations of the spool only.
LEMMA GatewayStep ==
    ASSUME GatewayInv, [GatewayNext]_vars
    PROVE  [SpoolNext]_spoolVars
<1>1. CASE OpenStore
  BY <1>1 DEF OpenStore, SpoolNext
<1>2. CASE FromEnv
  BY <1>2, GatewayConstants DEF FromEnv, RegisterAny, SpoolNext
<1>3. CASE StartupPrepare \/ StartupActivate
  BY <1>3, BootVersion, ControlRuns DEF StartupPrepare, StartupActivate, SpoolNext
<1>4. CASE ReadBootstrap \/ SigTerm \/ UNCHANGED vars
  BY <1>4 DEF ReadBootstrap, SigTerm, vars
<1>5. CASE Down \/ DiskChanges
  BY <1>5 DEF Down, DiskChanges, SpoolNext
<1>6. ASSUME NEW r \in Requests, Serve(r) PROVE [SpoolNext]_spoolVars
  <2>1. CASE SubmitProfile(r)
    BY <2>1, SubmitRuns DEF SpoolNext
  <2>2. CASE Guard(r) \/ Freeze(r) \/ Respond(r)
    BY <2>2 DEF Guard, Freeze, Respond
  <2>3. CASE Rejected(r)
    BY <2>3 DEF Rejected, SpoolNext
  <2> QED BY <1>6, <2>1, <2>2, <2>3 DEF Serve
<1>7. ASSUME NEW o \in Operators, ProfileStatus(o) PROVE [SpoolNext]_spoolVars
  BY <1>7 DEF ProfileStatus
<1>8. ASSUME NEW o \in Operators, NEW l \in Lanes, NEW action \in Actions, NEW v \in Versions,
             ProfileControl(o, l, action, v)
      PROVE  [SpoolNext]_spoolVars
  BY ZenonT(30), <1>8, ControlRuns DEF ProfileControl, SpoolNext
<1> QED BY <1>1, <1>2, <1>3, <1>4, <1>5, <1>6, <1>7, <1>8 DEF GatewayNext, Startup
-----------------------------------------------------------------------------
(***************************************************************************)
(* Each conjunct of the invariant survives a step that leaves alone the    *)
(* part of the state it is about.                                          *)
(***************************************************************************)
\* Requests keep their snapshot, and lose their freshness when their lane moves.
RequestKept(r) ==
    /\ req[r].stage # "idle" /\ req'[r].snap = req[r].snap
    /\ req'[r].fresh = req[r].fresh \/ pstate'[LaneOf[r]].rev # pstate[LaneOf[r]].rev
    /\ req'[r].stage \in {"stored", "acked"} => req'[r].intake \in Intakes

\* What the states, the snapshots and the answers of requests rest on is kept.
LEMMA RequestsFrame ==
    ASSUME SpoolTypeOK, SpoolTypeOK', RequestsInv, \A l \in Lanes : ProfileStep(l),
           \A r \in Requests : req'[r].stage # "idle" => RequestKept(r)
    PROVE  RequestsInv'
<1> SUFFICES ASSUME NEW r \in Requests, req'[r].stage # "idle"
             PROVE  /\ req'[r].snap \in Snapshot /\ req'[r].snap.lane = LaneOf[r] /\ req'[r].snap.rev # 0
                    /\ req'[r].snap.rev <= pstate'[LaneOf[r]].rev
                    /\ req'[r].snap.rev = pstate'[LaneOf[r]].rev => req'[r].fresh
                    /\ req'[r].stage \in {"stored", "acked"} => req'[r].intake \in Intakes
  BY DEF RequestsInv
<1>1. LaneOf[r] \in Lanes
  BY GatewayConstants
<1>2. pstate[LaneOf[r]].rev \in Nat /\ pstate'[LaneOf[r]].rev \in Nat
  BY <1>1 DEF SpoolTypeOK, ProfilesTypeOK, ProfileState
<1>3. RequestKept(r) /\ ProfileStep(LaneOf[r])
  BY <1>1
<1>4. /\ req[r].snap \in Snapshot /\ req[r].snap.lane = LaneOf[r] /\ req[r].snap.rev # 0
      /\ req[r].snap.rev <= pstate[LaneOf[r]].rev
      /\ req[r].snap.rev = pstate[LaneOf[r]].rev => req[r].fresh
  BY <1>3 DEF RequestKept, RequestsInv
<1>5. req[r].snap.rev \in Nat
  BY <1>4 DEF Snapshot
<1> QED BY SMTT(30), <1>2, <1>3, <1>4, <1>5 DEF RequestKept, ProfileStep

\* What an operator saw stays older than, or equal to, the state.
LEMMA ViewsFrame ==
    ASSUME GatewayTypeOK, SpoolTypeOK', ViewsInv, UNCHANGED view, \A l \in Lanes : ProfileStep(l)
    PROVE  ViewsInv'
<1> SUFFICES ASSUME NEW o \in Operators, NEW l \in Lanes
             PROVE  /\ view[o][l].rev <= pstate'[l].rev
                    /\ view[o][l].rev = pstate'[l].rev => view[o][l] = pstate'[l]
  BY DEF ViewsInv
<1>1. view[o][l].rev \in Nat /\ pstate[l].rev \in Nat /\ pstate'[l].rev \in Nat
  BY SMT DEF GatewayTypeOK, SpoolTypeOK, ProfilesTypeOK, ProfileState
<1> QED BY SMTT(30), <1>1 DEF ViewsInv, ProfileStep

\* A stored request keeps its answer.
AnswerKept(r) ==
    /\ req[r].stage \in {"stored", "acked"}
    /\ req'[r].intake = req[r].intake /\ req'[r].snap = req[r].snap

\* Plans stay where acknowledged requests expect them when no row loses its
\* profile or disappears.
LEMMA PlansFrameGateway ==
    ASSUME SpoolTypeOK, RequestsInv, PlansInv, AckedIsStored, UNCHANGED intakes,
           \A t \in TargetIds : /\ targets'[t].profile = targets[t].profile
                                /\ Present(t) => targets'[t].state # "absent",
           \A r \in Requests : req'[r].stage \in {"stored", "acked"} => AnswerKept(r)
    PROVE  PlansInv' /\ AckedIsStored'
<1>1. \A i \in Intakes : intakes[i].targets \subseteq TargetIds
  BY DEF SpoolTypeOK, IntakeRow
<1>2. PlansInv'
  BY SMTT(30), <1>1 DEF PlansInv, KeyFits
<1>3. ASSUME NEW r \in Requests, req'[r].stage \in {"stored", "acked"}
      PROVE  /\ intakes'[req'[r].intake].status # "absent"
             /\ intakes'[req'[r].intake].hash = Intent[r]
             /\ \A t \in intakes'[req'[r].intake].targets :
                  /\ targets'[t].state # "absent"
                  /\ targets'[t].profile.lane = LaneOf[r]
                  /\ Kind[r] \in {"am", "explicit"} =>
                       targets'[t].profile.version = req'[r].snap.version
  <2>1. AnswerKept(r) /\ req[r].intake \in Intakes
    BY <1>3 DEF AnswerKept, RequestsInv
  <2>2. intakes[req[r].intake].targets \subseteq TargetIds
    BY <1>1, <2>1
  <2> QED BY SMTT(30), <2>1, <2>2 DEF AnswerKept, AckedIsStored
<1>4. AckedIsStored'
  BY <1>3 DEF AckedIsStored, Present
<1> QED BY <1>2, <1>4

\* Main's part of the invariant, when it serves or neither it nor the test lane moves.
LEMMA BootFrame ==
    ASSUME BootInv, StartupNeverConflicts, boot' = boot,
           boot.phase # "serving" => UNCHANGED profileVars,
           boot.phase # "serving" => \A r \in Requests : req'[r].stage \in {"idle", "acked"}
    PROVE  BootInv' /\ StartupNeverConflicts'
  BY DEF BootInv, StartupNeverConflicts, profileVars

\* A step that neither touches the profiles nor the buckets.
LEMMA QuietGateway ==
    ASSUME GatewayInv, SpoolInv', GatewayTypeOK', UNCHANGED <<bucketVars, profileVars, view>>,
           BootInv', StartupNeverConflicts',
           \A r \in Requests : req'[r].stage # "idle" => RequestKept(r),
           \A r \in Requests : req'[r].stage \in {"stored", "acked"} => AnswerKept(r)
    PROVE  GatewayInv'
<1>1. SpoolTypeOK /\ SpoolTypeOK'
  BY DEF GatewayInv, SpoolInv
<1>2. StatesInv' /\ \A l \in Lanes : ProfileStep(l)
  BY StatesFrame DEF GatewayInv
<1>3. RequestsInv' /\ ViewsInv'
  BY <1>1, <1>2, RequestsFrame, ViewsFrame DEF GatewayInv
<1>4. PlansInv' /\ AckedIsStored'
  <2>1. UNCHANGED <<intakes, targets>>
    BY DEF bucketVars
  <2> QED BY <1>1, <2>1, PlansFrameGateway DEF GatewayInv, Present
<1> QED BY <1>2, <1>3, <1>4 DEF GatewayInv

\* A step that only controls or registers profiles and keeps every answer.
LEMMA ProfilesGateway ==
    ASSUME GatewayInv, SpoolInv', GatewayTypeOK', UNCHANGED <<bucketVars, view>>,
           StatesInv', \A l \in Lanes : ProfileStep(l), BootInv', StartupNeverConflicts',
           \A r \in Requests :
             /\ req'[r].stage = req[r].stage /\ req'[r].snap = req[r].snap
             /\ req'[r].intake = req[r].intake
             /\ req'[r].fresh = req[r].fresh \/ pstate'[LaneOf[r]].rev # pstate[LaneOf[r]].rev
    PROVE  GatewayInv'
<1>1. SpoolTypeOK /\ SpoolTypeOK'
  BY DEF GatewayInv, SpoolInv
<1>2. \A r \in Requests : req'[r].stage # "idle" => RequestKept(r)
  BY DEF GatewayInv, RequestsInv, RequestKept
<1>3. RequestsInv' /\ ViewsInv'
  BY <1>1, <1>2, RequestsFrame, ViewsFrame DEF GatewayInv
<1>4. PlansInv' /\ AckedIsStored'
  <2>1. UNCHANGED <<intakes, targets>>
    BY DEF bucketVars
  <2>2. \A r \in Requests : req'[r].stage \in {"stored", "acked"} => AnswerKept(r)
    BY DEF AnswerKept
  <2> QED BY <1>1, <2>1, <2>2, PlansFrameGateway DEF GatewayInv, Present
<1> QED BY <1>3, <1>4 DEF GatewayInv
-----------------------------------------------------------------------------
(***************************************************************************)
(* Startup keeps the invariant.                                            *)
(***************************************************************************)
\* Nothing is being served while Main starts.
LEMMA NobodyServed ==
    ASSUME GatewayInv, boot.phase # "serving", UNCHANGED req
    PROVE  \A r \in Requests : req'[r].stage \in {"idle", "acked"}
  BY DEF GatewayInv, BootInv

\* Requests that a step does not touch keep what they hold.
LEMMA RequestsUntouched ==
    ASSUME RequestsInv, UNCHANGED req
    PROVE  /\ \A r \in Requests : req'[r].stage # "idle" => RequestKept(r)
           /\ \A r \in Requests : req'[r].stage \in {"stored", "acked"} => AnswerKept(r)
  BY DEF RequestsInv, RequestKept, AnswerKept

\* Open turns Sending rows unknown and leaves their profiles alone.
LEMMA OpenStoreInv ==
    ASSUME GatewayInv, SpoolInv', OpenStore PROVE GatewayInv'
<1>1. PICK limit \in Limits : Open(limit)
  BY DEF OpenStore
<1>2. /\ UNCHANGED <<profileVars, intakes, req, view, closing>>
      /\ boot' = [phase |-> "opened", version |-> NoVersion, rev |-> 0] /\ boot.phase = "down"
  BY <1>1 DEF OpenStore, Open, Booting
<1>3. SpoolTypeOK /\ SpoolTypeOK'
  BY DEF GatewayInv, SpoolInv
<1>4. GatewayTypeOK'
  BY <1>2, <1>3 DEF GatewayInv, GatewayTypeOK, BootPhases
<1>5. StatesInv' /\ \A l \in Lanes : ProfileStep(l)
  BY <1>2, StatesFrame DEF GatewayInv
<1>6. /\ \A r \in Requests : req'[r].stage # "idle" => RequestKept(r)
      /\ \A r \in Requests : req'[r].stage \in {"stored", "acked"} => AnswerKept(r)
  BY <1>2, RequestsUntouched DEF GatewayInv
<1>7. RequestsInv' /\ ViewsInv'
  BY ZenonT(30), <1>2, <1>3, <1>5, <1>6, RequestsFrame, ViewsFrame DEF GatewayInv
<1>8. ASSUME NEW t \in TargetIds
      PROVE  targets'[t].profile = targets[t].profile /\ (Present(t) => targets'[t].state # "absent")
  BY <1>1, <1>3, OpenRows, OpenRowStep DEF RowStep, Present
<1>9. PlansInv' /\ AckedIsStored'
  BY <1>2, <1>3, <1>6, <1>8, PlansFrameGateway DEF GatewayInv
<1>10. BootInv' /\ StartupNeverConflicts'
  <2>1. \A r \in Requests : req'[r].stage \in {"idle", "acked"}
    BY <1>2, NobodyServed
  <2> QED BY <1>2, <2>1 DEF BootInv, StartupNeverConflicts
<1> QED BY <1>4, <1>5, <1>7, <1>9, <1>10 DEF GatewayInv

\* FromEnv registers what is new and keeps every state there is.
LEMMA FromEnvInv ==
    ASSUME GatewayInv, SpoolInv', FromEnv PROVE GatewayInv'
<1>1. PICK config \in Configs : Register(config, Initial)
  BY DEF FromEnv
<1>2. /\ UNCHANGED <<req, view, closing>> /\ boot.phase = "opened"
      /\ boot' = [phase |-> "registered", version |-> NoVersion, rev |-> 0]
  BY DEF FromEnv, Booting
<1>3. config \in [Lanes -> Versions] /\ Initial \in Versions
  BY GatewayConstants
<1>4. SpoolTypeOK /\ SpoolTypeOK' /\ StatesInv
  BY DEF GatewayInv, SpoolInv
<1>5. StatesInv' /\ \A l \in Lanes : ProfileStep(l)
  BY <1>1, <1>3, <1>4, StatesRegister
<1>6. GatewayTypeOK'
  BY <1>2, <1>4 DEF GatewayInv, GatewayTypeOK, BootPhases
<1>7. BootInv' /\ StartupNeverConflicts'
  <2>1. \A r \in Requests : req'[r].stage \in {"idle", "acked"}
    BY <1>2, NobodyServed
  <2> QED BY <1>2, <2>1 DEF BootInv, StartupNeverConflicts
<1>8. UNCHANGED bucketVars
  BY <1>1 DEF Register
<1> QED BY <1>2, <1>5, <1>6, <1>7, <1>8, ProfilesGateway

\* PrepareInitialProfiles reads a bootstrap version that can be prepared.
LEMMA ReadBootstrapInv ==
    ASSUME GatewayInv, SpoolInv', ReadBootstrap PROVE GatewayInv'
<1>1. /\ UNCHANGED <<spoolVars, req, view, closing>> /\ boot.phase = "registered"
      /\ boot' = IF pstate[TestLane].bootstrap = NoVersion
                 THEN [phase |-> "serving", version |-> NoVersion, rev |-> 0]
                 ELSE [phase |-> "prepare", version |-> pstate[TestLane].bootstrap,
                       rev |-> pstate[TestLane].rev]
  BY DEF ReadBootstrap, Booting
<1>2. UNCHANGED <<bucketVars, profileVars, registered, pstate>>
  BY <1>1 DEF spoolVars, profileVars
<1>3. TestLane \in Lanes /\ pstate[TestLane] \in ProfileState
  BY ProfileConstants DEF GatewayInv, SpoolInv, SpoolTypeOK, ProfilesTypeOK
<1>4. boot' \in [phase : BootPhases, version : Versions \cup {NoVersion}, rev : Nat]
  BY <1>1, <1>3 DEF BootPhases, ProfileState
<1>5. GatewayTypeOK'
  BY <1>1, <1>4 DEF GatewayInv, GatewayTypeOK, SpoolInv
<1>6. \A r \in Requests : req'[r].stage \in {"idle", "acked"}
  BY <1>1, NobodyServed
<1>7. BootInv' /\ StartupNeverConflicts'
  <2>1. pstate[TestLane].bootstrap # NoVersion => pstate[TestLane].bootstrap \in registered[TestLane]
    BY <1>3 DEF GatewayInv, StatesInv
  <2> QED BY <1>1, <1>2, <1>6, <2>1 DEF BootInv, StartupNeverConflicts
<1>8. /\ \A r \in Requests : req'[r].stage # "idle" => RequestKept(r)
      /\ \A r \in Requests : req'[r].stage \in {"stored", "acked"} => AnswerKept(r)
  BY <1>1, RequestsUntouched DEF GatewayInv
<1> QED BY <1>1, <1>2, <1>5, <1>7, <1>8, QuietGateway

\* The two control operations of startup move Main along with the state.
LEMMA StartupControlInv ==
    ASSUME GatewayInv, SpoolInv', StartupPrepare \/ StartupActivate PROVE GatewayInv'
<1>0. SpoolTypeOK /\ SpoolTypeOK' /\ StatesInv
  BY DEF GatewayInv, SpoolInv
<1>1. boot.phase \in {"prepare", "activate"} /\ UNCHANGED <<req, view, closing>>
  BY DEF StartupPrepare, StartupActivate
<1>2. /\ boot.version \in Versions /\ TestLane \in Lanes
      /\ "prepare" \in Actions /\ "activate" \in Actions
  BY <1>1, BootVersion
<1>3. PICK action \in Actions : Control(TestLane, action, boot.version, boot.rev)
  BY <1>2 DEF StartupPrepare, StartupActivate
<1>4. StatesInv' /\ \A l \in Lanes : ProfileStep(l)
  BY <1>0, <1>2, <1>3, StatesControl
<1>5. UNCHANGED bucketVars
  BY <1>3 DEF Control
<1>6. /\ GatewayTypeOK' /\ BootInv' /\ StartupNeverConflicts'
  <2>0. pstate'[TestLane].rev \in Nat
    BY <1>0, <1>2 DEF SpoolTypeOK, ProfilesTypeOK, ProfileState
  <2>1. \A r \in Requests : req'[r].stage \in {"idle", "acked"}
    BY <1>1, NobodyServed
  <2>2. CASE StartupPrepare
    <3>1. /\ Control(TestLane, "prepare", boot.version, boot.rev)
          /\ boot' = [phase |-> "activate", version |-> boot.version, rev |-> pstate'[TestLane].rev]
      BY <2>2 DEF StartupPrepare, Booting
    <3>2. /\ registered' = registered /\ pstate'[TestLane].bootstrap = pstate[TestLane].bootstrap
          /\ boot.version \in pstate'[TestLane].prepared
      BY <1>0, <1>2, <3>1, ControlEffect
    <3>3. /\ boot.version = pstate[TestLane].bootstrap /\ boot.version # NoVersion
          /\ boot.version \in registered[TestLane]
      BY <1>1 DEF GatewayInv, BootInv, StartupNeverConflicts
    <3>4. GatewayTypeOK'
      BY ZenonT(30), <1>0, <1>1, <1>2, <2>0, <3>1 DEF GatewayInv, GatewayTypeOK, BootPhases
    <3> QED BY <2>1, <3>1, <3>2, <3>3, <3>4 DEF BootInv, StartupNeverConflicts
  <2>3. CASE StartupActivate
    <3>1. boot' = [phase |-> "serving", version |-> NoVersion, rev |-> 0]
      BY <2>3 DEF StartupActivate, Booting
    <3>2. GatewayTypeOK'
      BY <1>0, <1>1, <3>1 DEF GatewayInv, GatewayTypeOK, BootPhases
    <3> QED BY <2>1, <3>1, <3>2 DEF BootInv, StartupNeverConflicts
  <2> QED BY <2>2, <2>3
<1> QED BY ZenonT(30), <1>1, <1>4, <1>5, <1>6, ProfilesGateway

\* The end of the process breaks the requests in progress and forgets no answer.
LEMMA DownInv ==
    ASSUME GatewayInv, SpoolInv', Down PROVE GatewayInv'
<1>1. /\ UNCHANGED <<bucketVars, profileVars, view>> /\ closing' = FALSE
      /\ boot' = [phase |-> "down", version |-> NoVersion, rev |-> 0]
      /\ req' = [r \in Requests |-> IF req[r].stage = "acked" THEN req[r] ELSE Idle]
  BY DEF Down, Stop, Booting
<1>2. Idle \in Request /\ Idle.stage = "idle"
  BY DEF Idle, Request
<1>3. \A r \in Requests : \/ req'[r] = req[r] /\ req[r].stage = "acked"
                          \/ req'[r] = Idle
  BY <1>1
<1>4. GatewayTypeOK'
  <2>1. req' \in [Requests -> Request]
    BY <1>1, <1>2 DEF GatewayInv, GatewayTypeOK
  <2> QED BY <1>1, <2>1 DEF GatewayInv, GatewayTypeOK, BootPhases, SpoolInv
<1>5. BootInv' /\ StartupNeverConflicts'
  BY <1>1, <1>2, <1>3 DEF BootInv, StartupNeverConflicts
<1>6. /\ \A r \in Requests : req'[r].stage # "idle" => RequestKept(r)
      /\ \A r \in Requests : req'[r].stage \in {"stored", "acked"} => AnswerKept(r)
  BY <1>2, <1>3 DEF GatewayInv, RequestsInv, RequestKept, AnswerKept
<1> QED BY <1>1, <1>4, <1>5, <1>6, QuietGateway

\* SIGTERM, the disk and a stuttering step touch neither profiles nor requests.
LEMMA IdleInv ==
    ASSUME GatewayInv, SpoolInv', SigTerm \/ DiskChanges \/ UNCHANGED vars PROVE GatewayInv'
<1>1. UNCHANGED <<bucketVars, profileVars, boot, req, view>> /\ closing' \in BOOLEAN
  BY DEF SigTerm, DiskChanges, DiskFails, DiskRecovers, vars, spoolVars, gatewayVars, GatewayInv, GatewayTypeOK
<1>2. GatewayTypeOK'
  BY <1>1 DEF GatewayInv, GatewayTypeOK, SpoolInv
<1>3. BootInv' /\ StartupNeverConflicts'
  BY <1>1, BootFrame DEF GatewayInv, BootInv
<1>4. /\ \A r \in Requests : req'[r].stage # "idle" => RequestKept(r)
      /\ \A r \in Requests : req'[r].stage \in {"stored", "acked"} => AnswerKept(r)
  BY <1>1, RequestsUntouched DEF GatewayInv
<1> QED BY <1>1, <1>2, <1>3, <1>4, QuietGateway
-----------------------------------------------------------------------------
(***************************************************************************)
(* Intake keeps the invariant.                                             *)
(***************************************************************************)
\* A request of a serving process that only changes its own record.
LEMMA RequestStep ==
    ASSUME GatewayInv, SpoolInv', NEW r \in Requests, NEW new \in Request, Becomes(r, new),
           UNCHANGED <<bucketVars, profileVars, boot, closing, view>>,
           boot.phase = "serving",
           \/ new.stage = "idle"
           \/ /\ req[r].stage # "idle" /\ new.snap = req[r].snap /\ new.fresh = req[r].fresh
              /\ new.stage \in {"stored", "acked"} =>
                   req[r].stage \in {"stored", "acked"} /\ new.intake = req[r].intake
    PROVE  GatewayInv'
<1>1. req' = [req EXCEPT ![r] = new] /\ req \in [Requests -> Request]
  BY DEF Becomes, GatewayInv, GatewayTypeOK
<1>2. req'[r] = new /\ \A s \in Requests : s # r => req'[s] = req[s]
  BY <1>1
<1>3. GatewayTypeOK'
  BY <1>1 DEF GatewayInv, GatewayTypeOK, SpoolInv
<1>4. BootInv' /\ StartupNeverConflicts'
  BY BootFrame DEF GatewayInv
<1>5. ASSUME NEW s \in Requests, req'[s].stage # "idle" PROVE RequestKept(s)
  BY <1>2, <1>5 DEF RequestKept, GatewayInv, RequestsInv
<1>6. ASSUME NEW s \in Requests, req'[s].stage \in {"stored", "acked"} PROVE AnswerKept(s)
  BY <1>2, <1>6 DEF AnswerKept
<1> QED BY <1>3, <1>4, <1>5, <1>6, QuietGateway

\* A request in progress is served by a process that finished its startup.
LEMMA ServedIsServing ==
    ASSUME GatewayInv, NEW r \in Requests, req[r].stage \in {"guarded", "frozen", "stored"}
    PROVE  boot.phase = "serving"
  BY DEF GatewayInv, BootInv

\* Guard takes a snapshot of the current state.
LEMMA GuardInv ==
    ASSUME GatewayInv, SpoolInv', NEW r \in Requests, Guard(r) PROVE GatewayInv'
<1> DEFINE new == [Idle EXCEPT !.stage = "guarded", !.fresh = TRUE,
                               !.snap = ProfileSnapshot(LaneOf[r])]
<1>1. /\ UNCHANGED <<spoolVars, boot, closing, view>> /\ boot.phase = "serving"
      /\ Accepting(LaneOf[r]) /\ req' = [req EXCEPT ![r] = new]
  BY DEF Guard, Becomes
<1>2. UNCHANGED <<bucketVars, profileVars, targets, intakes, pstate>>
  BY ZenonT(30), <1>1 DEF spoolVars, bucketVars, profileVars
<1>3. LaneOf[r] \in Lanes /\ SpoolTypeOK /\ SpoolTypeOK' /\ ProfilesTypeOK
  BY GatewayConstants DEF GatewayInv, SpoolInv, SpoolTypeOK
<1>4. ProfileSnapshot(LaneOf[r]) \in Snapshot
  BY <1>1, <1>3, SnapshotType
<1>5. /\ new \in Request /\ new.stage = "guarded" /\ new.fresh = TRUE
      /\ new.snap = ProfileSnapshot(LaneOf[r])
  BY <1>4 DEF Idle, Request
<1>6. /\ new.snap.lane = LaneOf[r] /\ new.snap.rev = pstate[LaneOf[r]].rev
      /\ pstate[LaneOf[r]].rev # 0 /\ pstate[LaneOf[r]].rev \in Nat
  BY SMTT(30), <1>1, <1>3, <1>5 DEF ProfileSnapshot, Accepting, ProfilesTypeOK, ProfileState
<1> HIDE DEF new
<1>7. req \in [Requests -> Request]
  BY DEF GatewayInv, GatewayTypeOK
<1>8. req'[r] = new /\ \A s \in Requests : s # r => req'[s] = req[s]
  BY <1>1, <1>7
<1>9. GatewayTypeOK'
  BY <1>1, <1>5, <1>7 DEF GatewayInv, GatewayTypeOK, SpoolInv
<1>10. StatesInv' /\ \A l \in Lanes : ProfileStep(l)
  BY <1>2, StatesFrame DEF GatewayInv
<1>11. BootInv' /\ StartupNeverConflicts' /\ ViewsInv'
  BY <1>1, <1>2, <1>3, <1>10, BootFrame, ViewsFrame DEF GatewayInv
<1>12. RequestsInv'
  <2>1. ASSUME NEW s \in Requests, req'[s].stage # "idle"
        PROVE  /\ req'[s].snap \in Snapshot /\ req'[s].snap.lane = LaneOf[s] /\ req'[s].snap.rev # 0
               /\ req'[s].snap.rev <= pstate'[LaneOf[s]].rev
               /\ req'[s].snap.rev = pstate'[LaneOf[s]].rev => req'[s].fresh
               /\ req'[s].stage \in {"stored", "acked"} => req'[s].intake \in Intakes
    <3>1. CASE s = r
      BY SMTT(30), <1>2, <1>4, <1>5, <1>6, <1>8, <3>1
    <3>2. CASE s # r
      BY <1>2, <1>8, <2>1, <3>2 DEF GatewayInv, RequestsInv
    <3> QED BY <3>1, <3>2
  <2> QED BY <2>1 DEF RequestsInv
<1>13. PlansInv' /\ AckedIsStored'
  <2>1. ASSUME NEW s \in Requests, req'[s].stage \in {"stored", "acked"} PROVE AnswerKept(s)
    BY <1>5, <1>8, <2>1 DEF AnswerKept
  <2> QED BY <1>2, <1>3, <2>1, PlansFrameGateway DEF GatewayInv, Present
<1> QED BY ZenonT(30), <1>9, <1>10, <1>11, <1>12, <1>13 DEF GatewayInv

\* Freezing a plan, a rejection and the answer change the record of a request.
LEMMA FreezeInv ==
    ASSUME GatewayInv, SpoolInv', NEW r \in Requests, Freeze(r) \/ Rejected(r) \/ Respond(r)
    PROVE  GatewayInv'
<1>1. UNCHANGED <<bucketVars, profileVars, boot, closing, view>> /\ boot.phase = "serving"
  BY ServedIsServing DEF Freeze, Rejected, Respond, WriteFails, spoolVars
<1>2. Idle \in Request /\ Idle.stage = "idle" /\ req[r] \in Request
  BY DEF Idle, Request, GatewayInv, GatewayTypeOK
<1>3. CASE Becomes(r, Idle)
  BY <1>1, <1>2, <1>3, RequestStep
<1>4. CASE Freeze(r) /\ ~Becomes(r, Idle)
  <2>1. PICK plan \in SUBSET Items :
          /\ Becomes(r, [req[r] EXCEPT !.stage = "frozen", !.plan = plan])
          /\ req[r].stage = "guarded"
    BY <1>4 DEF Freeze, Plans
  <2> DEFINE new == [req[r] EXCEPT !.stage = "frozen", !.plan = plan]
  <2>2. /\ new \in Request /\ new.snap = req[r].snap /\ new.fresh = req[r].fresh
        /\ new.stage = "frozen"
    BY <1>2 DEF Request
  <2> HIDE DEF new
  <2>3. Becomes(r, new)
    BY <2>1 DEF new
  <2> QED BY <1>1, <2>1, <2>2, <2>3, RequestStep
<1>5. CASE Respond(r) /\ ~Becomes(r, Idle)
  <2> DEFINE new == [req[r] EXCEPT !.stage = "acked"]
  <2>1. Becomes(r, new) /\ req[r].stage = "stored"
    BY <1>5 DEF Respond
  <2>2. /\ new \in Request /\ new.snap = req[r].snap /\ new.fresh = req[r].fresh
        /\ new.stage = "acked" /\ new.intake = req[r].intake
    BY <1>2 DEF Request
  <2> HIDE DEF new
  <2> QED BY <1>1, <2>1, <2>2, RequestStep
<1>6. Rejected(r) => Becomes(r, Idle)
  BY DEF Rejected
<1> QED BY ZenonT(30), <1>3, <1>4, <1>5, <1>6

\* The provenance of a snapshot is the one that the key of its request promises.
LEMMA KeyPromises ==
    ASSUME NEW r \in Requests, req[r].snap \in Snapshot, req[r].snap.lane = LaneOf[r],
           NEW p, p.lane = req[r].snap.lane, p.version = req[r].snap.version
    PROVE  KeyFits(Key(r), p)
<1>1. /\ Kind[r] \in {"am", "explicit"} =>
           Key(r) = <<req[r].snap.lane, req[r].snap.version, Kind[r], Intent[r]>>
      /\ Kind[r] = "direct" => Key(r) = PlainKey(Intent[r])
      /\ Kind[r] = "keyless" => Key(r) = NoKey
      /\ Kind[r] \in {"am", "explicit", "direct", "keyless"}
  BY GatewayConstants DEF Key, Kinds
<1>2. \A h \in Hashes : PlainKey(h) \in Keys \ (ProfiledKeys("am") \cup ProfiledKeys("explicit"))
  BY GatewayConstants DEF PlainKey, HeaderKeys, ProfiledKeys, Keys
<1>3. NoKey \notin Keys /\ ProfiledKeys("am") \cup ProfiledKeys("explicit") \subseteq Keys
  BY GatewayConstants, SpoolConstants DEF HeaderKeys, Keys
<1>4. Intent \in [Requests -> Hashes]
  BY GatewayConstants
<1>5. Key(r) \in ProfiledKeys("am") \cup ProfiledKeys("explicit") => p.lane = Key(r)[1] /\ p.version = Key(r)[2]
  BY SMTT(30), <1>1, <1>2, <1>3, <1>4
<1>6. ASSUME NEW s \in Requests, Kind[s] = "direct", Key(r) = PlainKey(Intent[s]) PROVE p.lane = LaneOf[s]
  <2>1. Kind[r] = "direct"
    <3>1. Kind[r] # "keyless"
      BY <1>1, <1>2, <1>3, <1>4, <1>6
    <3>2. Kind[r] \notin {"am", "explicit"}
      <4>1. Key(r)[3] = "direct"
        <5>1. ASSUME NEW h PROVE PlainKey(h)[3] = "direct"
          BY DEF PlainKey
        <5> QED BY ZenonT(30), <1>6, <5>1, Zenon
      <4>2. Kind[r] \in {"am", "explicit"} => Key(r)[3] = Kind[r]
        BY SMT, <1>1
      <4> QED BY <4>1, <4>2
    <3> QED BY <1>1, <3>1, <3>2
  <2>2. LaneOf[r] = LaneOf[s]
    BY <1>6, <2>1, GatewayConstants
  <2> QED BY <2>2
<1> QED BY <1>5, <1>6 DEF KeyFits

\* What a stored request finds in the spool.
Answered(r, i) ==
    /\ i \in Intakes /\ intakes'[i].status # "absent" /\ intakes'[i].hash = Intent[r]
    /\ \A t \in intakes'[i].targets :
         /\ targets'[t].state # "absent" /\ targets'[t].profile.lane = LaneOf[r]
         /\ Kind[r] \in {"am", "explicit"} => targets'[t].profile.version = req[r].snap.version

\* A duplicate is answered with the plan that its key leads to.
LEMMA DuplicateAnswered ==
    ASSUME GatewayInv, NEW r \in Requests, req[r].stage = "frozen", UNCHANGED bucketVars,
           Duplicate(Key(r), Window(r)), intakes[dedupe[Key(r)]].hash = Intent[r]
    PROVE  Answered(r, dedupe[Key(r)])
<1>1. req[r].snap \in Snapshot /\ req[r].snap.lane = LaneOf[r]
  BY FrozenFacts
<1>2. /\ Key(r) \in Keys /\ Kind[r] # "keyless" /\ Kind[r] \in Kinds
      /\ Kind[r] \in {"am", "explicit"} =>
           /\ Key(r) \in ProfiledKeys("am") \cup ProfiledKeys("explicit")
           /\ Key(r)[1] = req[r].snap.lane /\ Key(r)[2] = req[r].snap.version
      /\ Kind[r] = "direct" => Key(r) = PlainKey(Intent[r])
  BY ZenonT(30), <1>1, KeyFacts, GatewayConstants DEF Duplicate
<1>3. /\ dedupe[Key(r)] \in Intakes
      /\ intakes[dedupe[Key(r)]].status # "absent" /\ intakes[dedupe[Key(r)]].key = Key(r)
  BY <1>2 DEF Duplicate, GatewayInv, SpoolInv, SpoolTypeOK, PlansAreWhole
<1>4. ASSUME NEW t \in intakes[dedupe[Key(r)]].targets
      PROVE  Present(t) /\ KeyFits(Key(r), targets[t].profile)
  <2>1. t \in TargetIds /\ t[1] = dedupe[Key(r)]
    BY <1>3 DEF GatewayInv, SpoolInv, SpoolTypeOK, IntakeRow, PlansOwned
  <2> QED BY ZenonT(30), <1>3, <2>1 DEF GatewayInv, SpoolInv, PlansAreWhole, PlansInv
<1>5. UNCHANGED <<intakes, targets>>
  BY DEF bucketVars
<1> QED BY <1>1, <1>2, <1>3, <1>4, <1>5 DEF Answered, KeyFits, Present, Kinds

\* A new plan is stored whole under the provenance of the snapshot.
LEMMA AdmitAnswered ==
    ASSUME GatewayInv, NEW r \in Requests, req[r].stage = "frozen", NEW i \in Intakes,
           Admit(i, Key(r), Intent[r], req[r].plan, req[r].snap)
    PROVE  /\ Answered(r, i) /\ PlansInv'
           /\ \A j \in Intakes : intakes[j].status # "absent" =>
                /\ intakes'[j] = intakes[j]
                /\ \A t \in intakes[j].targets : targets'[t] = targets[t]
<1>1. /\ req[r].snap \in Snapshot /\ req[r].snap.lane = LaneOf[r]
      /\ req[r].plan \in SUBSET Items /\ Intent[r] \in Hashes
  BY FrozenFacts
<1>2. Key(r) \in Keys \cup {NoKey} /\ req[r].snap # NoSnapshot
  BY <1>1, KeyFacts
<1>3. SpoolTypeOK /\ PlansAreWhole /\ PlansOwned
  BY DEF GatewayInv, SpoolInv
<1>4. /\ intakes[i].status = "absent" /\ intakes'[i].targets = {i} \X req[r].plan
      /\ intakes'[i].status # "absent" /\ intakes'[i].key = Key(r)
      /\ \A j \in Intakes : j # i => intakes'[j] = intakes[j]
  BY ZenonT(30), <1>1, <1>2, <1>3, AdmitIntakes
<1>5. intakes'[i].hash = Intent[r]
  BY <1>3 DEF Admit, SpoolTypeOK
<1>6. \A t \in {i} \X req[r].plan : t \in TargetIds
  BY <1>1 DEF TargetIds
<1>7. ASSUME NEW t \in {i} \X req[r].plan
      PROVE  /\ targets'[t].state # "absent"
             /\ targets'[t].profile.lane = req[r].snap.lane
             /\ targets'[t].profile.version = req[r].snap.version
  <2>1. targets'[t] = NewRow(req[r].snap)
    BY <1>6 DEF Admit
  <2>2. /\ NewRow(req[r].snap).state = "pending"
        /\ NewRow(req[r].snap).profile = [lane |-> req[r].snap.lane, version |-> req[r].snap.version]
    BY <1>2 DEF NewRow, AbsentRow
  <2> QED BY SMTT(30), <2>1, <2>2
<1>8. ASSUME NEW j \in Intakes, j # i PROVE \A t \in intakes[j].targets : targets'[t] = targets[t]
  <2>1. \A t \in intakes[j].targets : t \in TargetIds /\ t[1] = j
    BY <1>3 DEF PlansOwned, SpoolTypeOK, IntakeRow
  <2> QED BY ZenonT(30), <1>8, <2>1 DEF Admit
<1>9. Answered(r, i)
  BY <1>1, <1>4, <1>5, <1>7 DEF Answered
<1>10. PlansInv'
  <2>1. ASSUME NEW j \in Intakes, NEW t \in intakes'[j].targets
        PROVE  KeyFits(intakes'[j].key, targets'[t].profile)
    <3>1. CASE j = i
      BY SMTT(30), <1>1, <1>4, <1>7, <3>1, KeyPromises
    <3>2. CASE j # i
      BY <1>4, <1>8, <3>2 DEF GatewayInv, PlansInv
    <3> QED BY ZenonT(30), <3>1, <3>2
  <2> QED BY <2>1 DEF PlansInv, KeyFits
<1> QED BY <1>4, <1>8, <1>9, <1>10

\* A submission stores the answer of one request and disturbs no other.
LEMMA SubmitProfileInv ==
    ASSUME GatewayInv, SpoolInv', NEW r \in Requests, SubmitProfile(r) PROVE GatewayInv'
<1>1. PICK i \in Intakes :
        /\ Submit(i, Key(r), Intent[r], req[r].plan, req[r].snap, Window(r))
        /\ Becomes(r, [req[r] EXCEPT !.stage = "stored",
             !.intake = IF Duplicate(Key(r), Window(r)) THEN dedupe[Key(r)] ELSE i])
  BY DEF SubmitProfile
<1>2. PICK j : j = IF Duplicate(Key(r), Window(r)) THEN dedupe[Key(r)] ELSE i
  OBVIOUS
<1>3. /\ req[r].stage = "frozen" /\ UNCHANGED <<boot, closing, view, profileVars>>
      /\ boot.phase = "serving"
  BY <1>1, ServedIsServing DEF SubmitProfile, Submit
<1>4. /\ Answered(r, j) /\ PlansInv'
      /\ \A k \in Intakes : intakes[k].status # "absent" =>
           /\ intakes'[k] = intakes[k]
           /\ \A t \in intakes[k].targets : targets'[t] = targets[t]
  <2>1. CASE Duplicate(Key(r), Window(r))
    <3>1. UNCHANGED bucketVars /\ intakes[dedupe[Key(r)]].hash = Intent[r]
      BY ZenonT(30), <1>1, <2>1 DEF Submit, Duplicate
    <3>2. UNCHANGED <<targets, intakes>>
      BY <3>1 DEF bucketVars
    <3>3. PlansInv'
      BY <3>2 DEF GatewayInv, PlansInv, KeyFits
    <3> QED BY ZenonT(30), <1>2, <1>3, <2>1, <3>1, <3>2, <3>3, DuplicateAnswered
  <2>2. CASE ~Duplicate(Key(r), Window(r))
    <3>1. Admit(i, Key(r), Intent[r], req[r].plan, req[r].snap)
      BY <1>1, <2>2 DEF Submit
    <3> QED BY <1>2, <1>3, <2>2, <3>1, AdmitAnswered
  <2> QED BY <2>1, <2>2
<1> DEFINE new == [req[r] EXCEPT !.stage = "stored", !.intake = j]
<1>5. req \in [Requests -> Request] /\ j \in Intakes
  BY <1>4 DEF GatewayInv, GatewayTypeOK, Answered
<1>6. /\ new \in Request /\ new.stage = "stored" /\ new.intake = j
      /\ new.snap = req[r].snap /\ new.fresh = req[r].fresh
  BY <1>5 DEF Request
<1>7. req' = [req EXCEPT ![r] = new]
  BY <1>1, <1>2 DEF Becomes
<1> HIDE DEF new
<1>8. req'[r] = new /\ \A s \in Requests : s # r => req'[s] = req[s]
  BY ZenonT(30), <1>5, <1>7
<1>9. SpoolTypeOK /\ SpoolTypeOK'
  BY DEF GatewayInv, SpoolInv
<1>10. GatewayTypeOK'
  BY <1>3, <1>5, <1>6, <1>7, <1>9 DEF GatewayInv, GatewayTypeOK
<1>11. StatesInv' /\ \A l \in Lanes : ProfileStep(l)
  BY ZenonT(30), <1>3, StatesFrame DEF GatewayInv
<1>12. BootInv' /\ StartupNeverConflicts' /\ ViewsInv'
  BY ZenonT(30), <1>3, <1>9, <1>11, BootFrame, ViewsFrame DEF GatewayInv
<1>13. RequestsInv'
  <2>1. ASSUME NEW s \in Requests, req'[s].stage # "idle" PROVE RequestKept(s)
    BY <1>3, <1>5, <1>6, <1>8, <2>1 DEF RequestKept, GatewayInv, RequestsInv
  <2> QED BY ZenonT(30), <1>9, <1>11, <2>1, RequestsFrame DEF GatewayInv
<1>14. AckedIsStored'
  <2>1. ASSUME NEW s \in Requests, req'[s].stage \in {"stored", "acked"}
        PROVE  /\ intakes'[req'[s].intake].status # "absent"
               /\ intakes'[req'[s].intake].hash = Intent[s]
               /\ \A t \in intakes'[req'[s].intake].targets :
                    /\ targets'[t].state # "absent"
                    /\ targets'[t].profile.lane = LaneOf[s]
                    /\ Kind[s] \in {"am", "explicit"} =>
                         targets'[t].profile.version = req'[s].snap.version
    <3>1. CASE s = r
      BY ZenonT(30), <1>4, <1>6, <1>8, <3>1 DEF Answered
    <3>2. CASE s # r
      <4>1. req'[s] = req[s] /\ req[s].intake \in Intakes
        BY ZenonT(30), <1>8, <2>1, <3>2 DEF GatewayInv, RequestsInv
      <4> QED BY SMTT(30), <1>4, <2>1, <4>1 DEF GatewayInv, AckedIsStored, Present
    <3> QED BY <3>1, <3>2
  <2> QED BY <2>1 DEF AckedIsStored, Present
<1> QED BY ZenonT(30), <1>4, <1>10, <1>11, <1>12, <1>13, <1>14 DEF GatewayInv
-----------------------------------------------------------------------------
(***************************************************************************)
(* Profile control keeps the invariant.                                    *)
(***************************************************************************)
\* ProfileStatus shows an operator the current states.
LEMMA ProfileStatusInv ==
    ASSUME GatewayInv, SpoolInv', NEW o \in Operators, ProfileStatus(o) PROVE GatewayInv'
<1>1. /\ UNCHANGED <<spoolVars, boot, closing, req>> /\ boot.phase = "serving"
      /\ view' = [view EXCEPT ![o] = pstate]
  BY DEF ProfileStatus
<1>2. UNCHANGED <<bucketVars, profileVars, targets, intakes, pstate>>
  BY <1>1 DEF spoolVars, bucketVars, profileVars
<1>3. SpoolTypeOK /\ SpoolTypeOK' /\ pstate \in [Lanes -> ProfileState]
      /\ view \in [Operators -> [Lanes -> ProfileState]]
  BY DEF GatewayInv, GatewayTypeOK, SpoolInv, SpoolTypeOK, ProfilesTypeOK
<1>4. GatewayTypeOK'
  BY ZenonT(30), <1>1, <1>3 DEF GatewayInv, GatewayTypeOK
<1>5. StatesInv' /\ \A l \in Lanes : ProfileStep(l)
  BY <1>2, StatesFrame DEF GatewayInv
<1>6. /\ \A r \in Requests : req'[r].stage # "idle" => RequestKept(r)
      /\ \A r \in Requests : req'[r].stage \in {"stored", "acked"} => AnswerKept(r)
  BY <1>1, RequestsUntouched DEF GatewayInv
<1>7. RequestsInv' /\ BootInv' /\ StartupNeverConflicts'
  BY <1>1, <1>2, <1>3, <1>5, <1>6, RequestsFrame, BootFrame DEF GatewayInv
<1>8. ViewsInv'
  <2>1. ASSUME NEW p \in Operators, NEW l \in Lanes
        PROVE  /\ view'[p][l].rev <= pstate'[l].rev
               /\ view'[p][l].rev = pstate'[l].rev => view'[p][l] = pstate'[l]
    <3>1. pstate[l].rev \in Nat
      BY <1>3 DEF ProfileState
    <3>2. view'[p] = IF p = o THEN pstate ELSE view[p]
      BY <1>1, <1>3
    <3> QED BY SMTT(30), <1>2, <3>1, <3>2 DEF GatewayInv, ViewsInv
  <2> QED BY <2>1 DEF ViewsInv
<1>9. PlansInv' /\ AckedIsStored'
  BY <1>2, <1>3, <1>6, PlansFrameGateway DEF GatewayInv, Present
<1> QED BY <1>4, <1>5, <1>7, <1>8, <1>9 DEF GatewayInv

\* ProfileControl moves a lane on and takes the freshness of its requests.
LEMMA ProfileControlInv ==
    ASSUME GatewayInv, SpoolInv', NEW o \in Operators, NEW l \in Lanes, NEW action \in Actions,
           NEW v \in Versions, ProfileControl(o, l, action, v)
    PROVE  GatewayInv'
<1>1. /\ UNCHANGED <<boot, closing, view>> /\ boot.phase = "serving"
      /\ Control(l, action, v, view[o][l].rev)
      /\ req' = [r \in Requests |->
                   IF LaneOf[r] = l THEN [req[r] EXCEPT !.fresh = FALSE] ELSE req[r]]
  BY DEF ProfileControl
<1>2. SpoolTypeOK /\ SpoolTypeOK' /\ StatesInv /\ req \in [Requests -> Request]
  BY DEF GatewayInv, GatewayTypeOK, SpoolInv
<1>3. StatesInv' /\ \A m \in Lanes : ProfileStep(m)
  BY <1>1, <1>2, StatesControl
<1>4. pstate'[l].rev # pstate[l].rev /\ UNCHANGED bucketVars
  <2>1. pstate[l].rev \in Nat /\ pstate'[l].rev = pstate[l].rev + 1
    BY ZenonT(30), <1>1, <1>2, ControlEffect DEF SpoolTypeOK, ProfilesTypeOK, ProfileState
  <2> QED BY SMTT(30), <1>1, <2>1 DEF Control
<1>5. ASSUME NEW r \in Requests
      PROVE  /\ req'[r] \in Request /\ req'[r].stage = req[r].stage
             /\ req'[r].snap = req[r].snap /\ req'[r].intake = req[r].intake
             /\ req'[r].fresh = req[r].fresh \/ LaneOf[r] = l
  BY <1>1, <1>2 DEF Request
<1>6. GatewayTypeOK'
  <2>1. req' \in [Requests -> Request]
    BY <1>1, <1>5
  <2> QED BY <1>1, <1>2, <2>1 DEF GatewayInv, GatewayTypeOK
<1>7. BootInv' /\ StartupNeverConflicts'
  BY <1>1, BootFrame DEF GatewayInv
<1> QED BY <1>1, <1>3, <1>4, <1>5, <1>6, <1>7, ProfilesGateway
-----------------------------------------------------------------------------
(***************************************************************************)
(* The theorems.                                                           *)
(***************************************************************************)
\* The gateway starts with an empty spool and no state anyone could have seen.
LEMMA GatewayInitInv == GatewayInit => GatewayInv
<1> SUFFICES ASSUME GatewayInit PROVE GatewayInv
  OBVIOUS
<1>1. SpoolInv /\ SpoolTypeOK
  BY InitInv DEF GatewayInit, SpoolInv
<1>2. pstate = [l \in Lanes |-> Unregistered] /\ intakes = [i \in Intakes |-> AbsentIntake]
  BY DEF GatewayInit, SpoolInit, ProfilesInit
<1>3. /\ boot = [phase |-> "down", version |-> NoVersion, rev |-> 0] /\ closing = FALSE
      /\ req = [r \in Requests |-> Idle]
      /\ view = [o \in Operators |-> [l \in Lanes |-> Unregistered]]
  BY DEF GatewayInit, Booting
<1>4. Idle \in Request /\ Idle.stage = "idle"
  BY DEF Idle, Request
<1>5. /\ Unregistered \in ProfileState /\ Unregistered.rev = 0
      /\ Unregistered.bootstrap = NoVersion /\ AbsentIntake.targets = {}
  BY DEF Unregistered, ProfileState, AbsentIntake
<1>6. GatewayTypeOK
  BY ZenonT(30), <1>1, <1>3, <1>4, <1>5 DEF GatewayTypeOK, BootPhases
<1>7. StatesInv /\ ViewsInv /\ PlansInv
  BY SMTT(30), <1>2, <1>3, <1>5 DEF StatesInv, ViewsInv, PlansInv
<1>8. BootInv /\ StartupNeverConflicts /\ RequestsInv /\ AckedIsStored
  BY <1>3, <1>4 DEF BootInv, StartupNeverConflicts, RequestsInv, AckedIsStored
<1> QED BY <1>1, <1>6, <1>7, <1>8 DEF GatewayInv

\* Every step of the gateway keeps the invariant.
LEMMA GatewayNextInv == GatewayInv /\ [GatewayNext]_vars => GatewayInv'
<1> SUFFICES ASSUME GatewayInv, [GatewayNext]_vars PROVE GatewayInv'
  OBVIOUS
<1>1. SpoolInv'
  BY GatewayStep, NextInv DEF GatewayInv
<1>2. CASE Startup
  BY <1>1, <1>2, OpenStoreInv, FromEnvInv, ReadBootstrapInv, StartupControlInv DEF Startup
<1>3. CASE Down \/ SigTerm \/ DiskChanges \/ UNCHANGED vars
  BY ZenonT(30), <1>1, <1>3, DownInv, IdleInv
<1>4. ASSUME NEW r \in Requests, Serve(r) PROVE GatewayInv'
  BY ZenonT(30), <1>1, <1>4, GuardInv, FreezeInv, SubmitProfileInv DEF Serve
<1>5. ASSUME NEW o \in Operators, ProfileStatus(o) PROVE GatewayInv'
  BY <1>1, <1>5, ProfileStatusInv
<1>6. ASSUME NEW o \in Operators, NEW l \in Lanes, NEW action \in Actions, NEW v \in Versions,
             ProfileControl(o, l, action, v)
      PROVE  GatewayInv'
  BY <1>1, <1>6, ProfileControlInv
<1> QED BY <1>2, <1>3, <1>4, <1>5, <1>6 DEF GatewayNext

\* The inductive invariant of startup, intake and control holds in every state.
THEOREM GatewayInvariant == GatewaySpec => []GatewayInv
<1>1. GatewayInit => GatewayInv
  BY GatewayInitInv
<1>2. GatewayInv /\ [GatewayNext]_vars => GatewayInv'
  BY GatewayNextInv
<1> QED BY <1>1, <1>2, PTL DEF GatewaySpec

\* Whatever handlers, operators and Main do, the spool runs by its own rules, so
\* that every theorem about the spool holds of the gateway.
THEOREM GatewayRunsTheSpool == GatewaySpec => SpoolSpec
<1>1. GatewayInit => SpoolInit
  BY DEF GatewayInit
<1>2. GatewayInv /\ [GatewayNext]_vars => [SpoolNext]_spoolVars
  BY GatewayStep
<1> QED BY <1>1, <1>2, GatewayInvariant, PTL DEF GatewaySpec, SpoolSpec

\* An acknowledged request has a whole plan of its own content and provenance in
\* the spool, through restarts, duplicates and profile changes.
THEOREM AcknowledgedIsStored == GatewaySpec => []AckedIsStored
  BY GatewayInvariant, PTL DEF GatewayInv

\* Whoever holds the current revision of a lane has seen its current state.
THEOREM RevisionsIdentifyStates == GatewaySpec => []RevisionIdentifiesState
<1>1. GatewayInv => RevisionIdentifiesState
  BY DEF GatewayInv, ViewsInv, RevisionIdentifiesState
<1> QED BY <1>1, GatewayInvariant, PTL

\* Only a submission stores a request, and the transaction compares revisions.
LEMMA StoredWasFresh ==
    ASSUME GatewayInv, [GatewayNext]_vars, NEW r \in Requests,
           req[r].stage = "frozen", req'[r].stage = "stored"
    PROVE  req[r].fresh
<1>0. req \in [Requests -> Request] /\ req' # req
  BY DEF GatewayInv, GatewayTypeOK
<1>1. ASSUME NEW s \in Requests, Serve(s) PROVE SubmitProfile(s) /\ s = r
  <2>1. CASE s # r
    <3>1. req'[r] = req[r]
      BY <1>0, <1>1, <2>1 DEF Serve, Guard, Freeze, SubmitProfile, Rejected, Respond, Becomes
    <3> QED BY <3>1
  <2>2. CASE s = r
    <3>1. ~Guard(r) /\ ~Freeze(r) /\ ~Respond(r)
      BY DEF Guard, Freeze, Respond
    <3>2. ~Rejected(r)
      BY SMTT(30), <1>0 DEF Rejected, Becomes, Idle
    <3> QED BY <1>1, <2>2, <3>1, <3>2 DEF Serve
  <2> QED BY <2>1, <2>2
<1>2. ~Startup /\ ~SigTerm /\ ~DiskChanges /\ ~UNCHANGED vars
  BY ZenonT(30), <1>0 DEF Startup, OpenStore, FromEnv, ReadBootstrap, StartupPrepare, StartupActivate,
              SigTerm, DiskChanges, vars, gatewayVars
<1>3. ~Down
  BY SMTT(30) DEF Down, Idle
<1>4. ASSUME NEW o \in Operators, NEW l \in Lanes, NEW action \in Actions, NEW v \in Versions,
             ProfileStatus(o) \/ ProfileControl(o, l, action, v)
      PROVE  FALSE
  <2>1. ~ProfileStatus(o)
    BY <1>0 DEF ProfileStatus
  <2>2. ProfileControl(o, l, action, v) => req'[r].stage = req[r].stage
    BY ZenonT(30), <1>0 DEF ProfileControl, Request
  <2> QED BY <1>4, <2>1, <2>2
<1>5. SubmitProfile(r)
  <2>1. \A o \in Operators : ~ProfileStatus(o)
    BY <1>0 DEF ProfileStatus
  <2> QED BY <1>1, <1>2, <1>3, <1>4, <2>1 DEF GatewayNext
<1>6. req[r].snap \in Snapshot /\ req[r].snap.lane = LaneOf[r]
  BY FrozenFacts
<1>7. CheckProfileAdmission(req[r].snap)
  BY <1>5, <1>6, KeyFacts DEF SubmitProfile, Submit
<1> QED BY <1>6, <1>7 DEF CheckProfileAdmission, GatewayInv, RequestsInv

\* No request stores a plan that it rendered before a control operation on its lane.
THEOREM AdmissionsAreCurrent == GatewaySpec => NoAdmissionAcrossControl
<1>1. GatewayInv /\ [GatewayNext]_vars =>
        [\A r \in Requests :
           req[r].stage = "frozen" /\ req'[r].stage = "stored" => req[r].fresh]_vars
  BY StoredWasFresh
<1> QED BY <1>1, GatewayInvariant, PTL DEF GatewaySpec, NoAdmissionAcrossControl

\* Before it serves, the process only gives a state to lanes without one and
\* activates the bootstrap version of a lane that never had another.
LEMMA StartupKeeps ==
    ASSUME GatewayInv, [GatewayNext]_vars, boot.phase # "serving", NEW l \in Lanes,
           pstate'[l] # pstate[l]
    PROVE  pstate[l].version = NoVersion
<1>0. SpoolTypeOK /\ StatesInv
  BY DEF GatewayInv, SpoolInv
<1>1. CASE FromEnv
  BY <1>0, <1>1, RegisterEffect, GatewayConstants DEF FromEnv
<1>2. CASE StartupPrepare \/ StartupActivate
  <2>1. boot.phase \in {"prepare", "activate"}
    BY <1>2 DEF StartupPrepare, StartupActivate
  <2>2. /\ boot.version \in Versions /\ TestLane \in Lanes
        /\ "prepare" \in Actions /\ "activate" \in Actions
    BY <2>1, BootVersion
  <2>3. PICK action \in Actions : Control(TestLane, action, boot.version, boot.rev)
    BY <1>2, <2>2 DEF StartupPrepare, StartupActivate
  <2>4. l = TestLane
    BY <1>0, <2>2, <2>3, ControlEffect
  <2> QED BY <2>1, <2>4 DEF GatewayInv, BootInv, StatesInv
<1>3. CASE OpenStore \/ Down \/ DiskChanges
  BY <1>3 DEF OpenStore, Open, Down, Stop, DiskChanges, DiskFails, DiskRecovers, profileVars
<1>4. CASE ReadBootstrap \/ SigTerm \/ UNCHANGED vars
  BY <1>4 DEF ReadBootstrap, SigTerm, vars, spoolVars, profileVars
<1>5. ASSUME NEW r \in Requests, Serve(r) PROVE FALSE
  <2>1. ~Guard(r)
    BY DEF Guard
  <2> QED BY <1>5, <2>1, ServedIsServing DEF Serve, Freeze, SubmitProfile, Rejected, Respond
<1>6. ASSUME NEW o \in Operators, NEW m, NEW action, NEW v,
             ProfileStatus(o) \/ ProfileControl(o, m, action, v)
      PROVE  FALSE
  BY <1>6 DEF ProfileStatus, ProfileControl
<1> QED BY <1>1, <1>2, <1>3, <1>4, <1>5, <1>6 DEF GatewayNext, Startup

\* Startup goes through whatever state a crash left, and overrides no decision of
\* an operator.
THEOREM StartupSafe == GatewaySpec => StartupIsSafe
<1>1. GatewayInv => GatewayTypeOK /\ StartupNeverConflicts
  BY DEF GatewayInv
<1>2. GatewayInv /\ [GatewayNext]_vars =>
        [\A l \in Lanes :
           boot.phase # "serving" /\ pstate'[l] # pstate[l] => pstate[l].version = NoVersion]_vars
  BY StartupKeeps
<1> QED BY <1>1, <1>2, GatewayInvariant, PTL DEF GatewaySpec, StartupIsSafe, StartupKeepsDecisions
=============================================================================
