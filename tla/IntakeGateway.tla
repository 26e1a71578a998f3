---------------------------- MODULE IntakeGateway ----------------------------
(***************************************************************************)
(* The HTTP side of a profiled notification manager on the spool: startup  *)
(* (main.go, deliveryprofiles.FromEnv, PrepareInitialProfiles), intake     *)
(* (Guard, Alert, Verify, Notification, acceptDurable) and the profile     *)
(* control API (ProfileStatus, ProfileControl).                            *)
(*                                                                         *)
(* A request reads its lane once in Guard, renders its plan without any    *)
(* lock, and commits it later; operators read the profile states, think,   *)
(* and send a control operation with the revision they saw.  The process   *)
(* may die at any point.  A client that gets no answer sends the same      *)
(* request again, also while the first is still being served.              *)
(***************************************************************************)
EXTENDS NotificationSpool

CONSTANTS Requests,     \* connections; each carries one intent again and again
          Intent,       \* the body a request carries
          Kind,         \* how it is sent: Alert, or Verify and Notification
          LaneOf,       \* the lane that the route and its token select
          Operators,    \* callers of the profile control API
          Configs,      \* the profile sets a deployment may configure
          Initial       \* initial_test_version

Kinds == {"am", "explicit", "direct", "keyless"}
ProfiledKeys(kind) == Lanes \X Versions \X {kind} \X Hashes
PlainKey(hash) == <<"", "", "direct", hash>>
HeaderKeys == ProfiledKeys("explicit") \cup {PlainKey(h) : h \in Hashes}

ASSUME GatewayConstants ==
    /\ Intent \in [Requests -> Hashes]
    /\ Kind \in [Requests -> Kinds]
    /\ LaneOf \in [Requests -> Lanes]
    \* Verify and Notification are routes of the formal lane alone: the test lane
    \* only admits Alertmanager alerts.
    /\ \E formal \in Lanes \ {TestLane} :
         \A r \in Requests : Kind[r] \in {"direct", "keyless"} => LaneOf[r] = formal
    /\ AMKeys = ProfiledKeys("am")
    /\ ExplicitKeys = HeaderKeys
    /\ Configs \subseteq [Lanes -> Versions]
    /\ Initial \in Versions

VARIABLES boot,      \* where Main is, and the version and revision it holds
          closing,   \* AlertStore.closing
          req,       \* the requests being served
          view       \* the profile states an operator last read

gatewayVars == <<boot, closing, req, view>>
vars == <<spoolVars, gatewayVars>>

BootPhases == {"down", "opened", "registered", "prepare", "activate", "serving"}

\* fresh is auxiliary: no control operation on the lane since Guard.
Request == [stage : {"idle", "guarded", "frozen", "stored", "acked"},
            snap : Snapshot \cup {NoSnapshot}, fresh : BOOLEAN,
            plan : SUBSET Items, intake : Intakes \cup {NoIntake}]

Idle == [stage |-> "idle", snap |-> NoSnapshot, fresh |-> FALSE,
         plan |-> {}, intake |-> NoIntake]
Booting(phase, v, rev) == [phase |-> phase, version |-> v, rev |-> rev]

\* The progress of startup and of requests, over a well-formed spool.
GatewayTypeOK ==
    /\ SpoolTypeOK
    /\ boot \in [phase : BootPhases, version : Versions \cup {NoVersion}, rev : Nat]
    /\ closing \in BOOLEAN
    /\ req \in [Requests -> Request]
    /\ view \in [Operators -> [Lanes -> ProfileState]]

GatewayInit ==
    /\ SpoolInit
    /\ boot = Booting("down", NoVersion, 0)
    /\ closing = FALSE
    /\ req = [r \in Requests |-> Idle]
    /\ view = [o \in Operators |-> [l \in Lanes |-> Unregistered]]
-----------------------------------------------------------------------------
(***************************************************************************)
(* Startup: no request is served before it is complete.                    *)
(***************************************************************************)
OpenStore ==
    /\ boot.phase = "down"
    /\ \E limit \in Limits : Open(limit)
    /\ boot' = Booting("opened", NoVersion, 0)
    /\ UNCHANGED <<closing, req, view>>

FromEnv ==
    /\ boot.phase = "opened"
    /\ \E config \in Configs : Register(config, Initial)
    /\ boot' = Booting("registered", NoVersion, 0)
    /\ UNCHANGED <<closing, req, view>>

\* PrepareInitialProfiles reads the test state; without a bootstrap version
\* persisted pauses and activations stay as they are.
ReadBootstrap ==
    /\ boot.phase = "registered"
    /\ LET st == pstate[TestLane]
       IN  boot' = IF st.bootstrap = NoVersion
                   THEN Booting("serving", NoVersion, 0)
                   ELSE Booting("prepare", st.bootstrap, st.rev)
    /\ UNCHANGED <<spoolVars, closing, req, view>>

StartupPrepare ==
    /\ boot.phase = "prepare"
    /\ Control(TestLane, "prepare", boot.version, boot.rev)
    /\ boot' = Booting("activate", boot.version, pstate'[TestLane].rev)
    /\ UNCHANGED <<closing, req, view>>

StartupActivate ==
    /\ boot.phase = "activate"
    /\ Control(TestLane, "activate", boot.version, boot.rev)
    /\ boot' = Booting("serving", NoVersion, 0)
    /\ UNCHANGED <<closing, req, view>>

\* Main returns (a failed startup, a finished dispatcher) or the process dies.
\* Requests in progress break; an acknowledged client is done.
Down ==
    /\ boot.phase # "down"
    /\ Stop
    /\ boot' = Booting("down", NoVersion, 0)
    /\ closing' = FALSE
    /\ req' = [r \in Requests |-> IF req[r].stage = "acked" THEN req[r] ELSE Idle]
    /\ UNCHANGED view

SigTerm ==
    /\ boot.phase = "serving" /\ ~closing
    /\ closing' = TRUE
    /\ UNCHANGED <<spoolVars, boot, req, view>>
-----------------------------------------------------------------------------
(***************************************************************************)
(* Intake.                                                                 *)
(***************************************************************************)
Becomes(r, state) == req' = [req EXCEPT ![r] = state]

\* Guard: snapshot the lane, or answer 503.
Guard(r) ==
    /\ boot.phase = "serving"
    /\ req[r].stage = "idle"
    /\ Accepting(LaneOf[r])
    /\ Becomes(r, [Idle EXCEPT !.stage = "guarded", !.fresh = TRUE,
                               !.snap = ProfileSnapshot(LaneOf[r])])
    /\ UNCHANGED <<spoolVars, boot, closing, view>>

\* The pipeline up to the frozen plan; filtered or silenced alerts leave an
\* empty one, and the test lane has no history.
Plans(r) ==
    {plan \in SUBSET Items :
       /\ ValidPlan(plan)
       /\ LaneOf[r] = TestLane => \A i \in plan : Deps[i] = {}}

\* acceptDurable up to the commit: 503 when stopping or when a stage fails.
Freeze(r) ==
    /\ req[r].stage = "guarded"
    /\ \/ /\ ~closing
          /\ \E plan \in Plans(r) :
               Becomes(r, [req[r] EXCEPT !.stage = "frozen", !.plan = plan])
       \/ Becomes(r, Idle)
    /\ UNCHANGED <<spoolVars, boot, closing, view>>

\* Mutant: the key names the initial version, not the one of the snapshot.
KeyOfInitial(r) ==
    CASE Kind[r] \in {"am", "explicit"} ->
           <<req[r].snap.lane, Initial, Kind[r], Intent[r]>>
      [] Kind[r] = "direct" -> PlainKey(Intent[r])
      [] OTHER -> NoKey

\* Alert prefixes its key with the lane and version; Verify and Notification
\* pass the header on as it is, and it may be missing.
Key(r) ==
    CASE Kind[r] \in {"am", "explicit"} ->
           <<req[r].snap.lane, req[r].snap.version, Kind[r], Intent[r]>>
      [] Kind[r] = "direct" -> PlainKey(Intent[r])
      [] OTHER -> NoKey

\* The keys that contain ":am:": no header a client sends is taken to.
Window(r) == IF Key(r) \in AMKeys THEN RepeatInterval ELSE 0

SubmitProfile(r) ==
    /\ req[r].stage = "frozen"
    /\ \E i \in Intakes :
         /\ Submit(i, Key(r), Intent[r], req[r].plan, req[r].snap, Window(r))
         /\ Becomes(r, [req[r] EXCEPT !.stage = "stored",
              !.intake = IF Duplicate(Key(r), Window(r)) THEN dedupe[Key(r)] ELSE i])
    /\ UNCHANGED <<boot, closing, view>>

\* The transaction rejects the plan (profile state, target or byte capacity),
\* or its commit fails: 503.
Rejected(r) ==
    /\ req[r].stage = "frozen"
    /\ \/ /\ ~CheckProfileAdmission(req[r].snap) \/ ~Duplicate(Key(r), Window(r))
          /\ UNCHANGED spoolVars
       \/ WriteFails
    /\ Becomes(r, Idle)
    /\ UNCHANGED <<boot, closing, view>>

\* 200, which the client sees or not.
Respond(r) ==
    /\ req[r].stage = "stored"
    /\ Becomes(r, [req[r] EXCEPT !.stage = "acked"]) \/ Becomes(r, Idle)
    /\ UNCHANGED <<spoolVars, boot, closing, view>>
-----------------------------------------------------------------------------
(***************************************************************************)
(* Profile control.                                                        *)
(***************************************************************************)
ProfileStatus(o) ==
    /\ boot.phase = "serving"
    /\ view' = [view EXCEPT ![o] = pstate]
    /\ UNCHANGED <<spoolVars, boot, closing, req>>

\* A validated operation, with the revision that the operator saw.
ProfileControl(o, l, action, v) ==
    /\ boot.phase = "serving"
    /\ Control(l, action, v, view[o][l].rev)
    /\ req' = [r \in Requests |->
                 IF LaneOf[r] = l THEN [req[r] EXCEPT !.fresh = FALSE] ELSE req[r]]
    /\ UNCHANGED <<boot, closing, view>>

Startup == OpenStore \/ FromEnv \/ ReadBootstrap \/ StartupPrepare \/ StartupActivate

Serve(r) == Guard(r) \/ Freeze(r) \/ SubmitProfile(r) \/ Rejected(r) \/ Respond(r)

DiskChanges == (DiskFails \/ DiskRecovers) /\ UNCHANGED gatewayVars

GatewayNext ==
    \/ Startup \/ Down \/ SigTerm \/ DiskChanges
    \/ \E r \in Requests : Serve(r)
    \/ \E o \in Operators :
         \/ ProfileStatus(o)
         \/ \E l \in Lanes, action \in Actions, v \in Versions :
              ProfileControl(o, l, action, v)

GatewaySpec == GatewayInit /\ [][GatewayNext]_vars
-----------------------------------------------------------------------------
(***************************************************************************)
(* Properties.                                                             *)
(***************************************************************************)
\* The frozen plan is committed before the HTTP acknowledgement, and survives
\* every later restart: an acknowledged request has a stored intake of its own
\* content, whole, frozen for the lane and version it was rendered under, even
\* if the answer came from an earlier copy of the request.
AckedIsStored ==
    \A r \in Requests : req[r].stage \in {"stored", "acked"} =>
      LET row == intakes[req[r].intake]
      IN  /\ row.status # "absent" /\ row.hash = Intent[r]
          /\ \A t \in row.targets :
               /\ Present(t)
               /\ targets[t].profile.lane = LaneOf[r]
               /\ Kind[r] \in {"am", "explicit"} =>
                    targets[t].profile.version = req[r].snap.version

\* A pause or activation that races with rendering cannot admit work after it
\* committed: the lane of a request that stores a plan saw no control operation
\* since Guard took its snapshot.
NoAdmissionAcrossControl ==
    [][\A r \in Requests :
         req[r].stage = "frozen" /\ req'[r].stage = "stored" => req[r].fresh]_vars

\* Compare-and-swap protects the decision of an operator: whoever holds the
\* current revision of a lane has seen its current state.  Restarts do not
\* reset revisions or states.
RevisionIdentifiesState ==
    \A o \in Operators, l \in Lanes :
      view[o][l].rev = pstate[l].rev => view[o][l] = pstate[l]

\* Startup never touches a lane that was once activated, so that a pause of an
\* operator outlives every restart.
StartupKeepsDecisions ==
    [][\A l \in Lanes :
         boot.phase # "serving" /\ pstate'[l] # pstate[l] =>
           pstate[l].version = NoVersion]_vars

\* The initial activation always goes through, also after a crash between its
\* two control operations: the revision that Main holds is current, and the
\* version it activates is prepared.
StartupNeverConflicts ==
    /\ boot.phase \in {"prepare", "activate"} =>
         boot.rev = pstate[TestLane].rev /\ boot.version \in registered[TestLane]
    /\ boot.phase = "activate" => boot.version \in pstate[TestLane].prepared

\* Startup goes through whatever state it finds, and overrides no decision in it.
StartupIsSafe == [](GatewayTypeOK /\ StartupNeverConflicts) /\ StartupKeepsDecisions
=============================================================================
