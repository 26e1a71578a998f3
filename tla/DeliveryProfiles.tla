-------------------------- MODULE DeliveryProfiles --------------------------
(***************************************************************************)
(* The persisted delivery profiles of pkg/notification_spool/profiles.go.  *)
(* A profile ID ("test" or "formal") is a lane.  Each lane has a set of    *)
(* registered immutable versions and one ProfileState, changed by control  *)
(* operations that compare-and-swap its revision.  Intake and delivery     *)
(* consult the state inside the transaction that admits or claims work.    *)
(*                                                                         *)
(* Versions stand for whole DeliveryProfile rows: a row is immutable, so   *)
(* its owner and chats are functions of (lane, version).                   *)
(***************************************************************************)
EXTENDS Integers

CONSTANTS Lanes,        \* profile IDs
          TestLane,     \* the lane fenced to one receiver and chat, "test"
          Versions,     \* version strings a configuration may name
          NoVersion,    \* the empty version string
          NoProfile,    \* provenance of a target frozen without profiles
          MaxRevision   \* bound: control operations stop at this revision

ASSUME ProfileConstants ==
    /\ TestLane \in Lanes
    /\ NoVersion \notin Versions
    /\ NoProfile \notin [lane : Lanes, version : Versions]
    /\ MaxRevision \in Nat

VARIABLES registered,   \* versions put under "profile:<lane>:<version>"
          pstate        \* the ProfileState under "profile-state:<lane>"

profileVars == <<registered, pstate>>

ProfileState == [rev : Nat, version : Versions \cup {NoVersion},
                 paused : BOOLEAN, prepared : SUBSET Versions,
                 bootstrap : Versions \cup {NoVersion}]

\* Provenance frozen in a target: its profile ID and version.
Profile == [lane : Lanes, version : Versions]

Snapshot == [lane : Lanes, version : Versions, rev : Nat]

\* A lane nobody registered: readProfileState finds no row.
Unregistered == [rev |-> 0, version |-> NoVersion, paused |-> TRUE,
                 prepared |-> {}, bootstrap |-> NoVersion]

ProfilesTypeOK ==
    /\ registered \in [Lanes -> SUBSET Versions]
    /\ pstate \in [Lanes -> ProfileState]

ProfilesInit ==
    /\ registered = [l \in Lanes |-> {}]
    /\ pstate = [l \in Lanes |-> Unregistered]

\* Mutant: every start resets the state of a lane.
RegisterProfilesAfresh(config, initial) ==
    /\ registered' = [l \in Lanes |-> registered[l] \cup {config[l]}]
    /\ pstate' = [l \in Lanes |->
         [Unregistered EXCEPT
            !.rev = 1,
            !.bootstrap = IF l = TestLane /\ config[l] = initial
                          THEN initial ELSE NoVersion]]

\* config names one version for every lane; initial is initial_test_version.
\* A version that is already registered, and a state that already exists,
\* are left as they are.
RegisterProfiles(config, initial) ==
    /\ registered' = [l \in Lanes |-> registered[l] \cup {config[l]}]
    /\ pstate' = [l \in Lanes |->
         IF pstate[l].rev = 0
         THEN [Unregistered EXCEPT
                 !.rev = 1,
                 !.bootstrap = IF l = TestLane /\ config[l] = initial
                               THEN initial ELSE NoVersion]
         ELSE pstate[l]]

\* What Guard sees: only a lane that is accepting can be snapshotted.
Accepting(l) ==
    /\ pstate[l].rev # 0
    /\ ~pstate[l].paused
    /\ pstate[l].version \in pstate[l].prepared

ProfileSnapshot(l) ==
    [lane |-> l, version |-> pstate[l].version, rev |-> pstate[l].rev]

Actions == {"prepare", "activate", "pause", "resume"}

\* The condition under which the switch of ControlProfile accepts an action.
ControlAllowed(l, action, v) ==
    \/ action = "prepare" /\ v \in registered[l]
    \/ action = "activate" /\ v \in pstate[l].prepared
    \/ action = "pause"
    \/ action = "resume" /\ pstate[l].version \in pstate[l].prepared

\* Mutant: an activation leaves the bootstrap version set.
ControlledKeepsBootstrap(st, action, v) ==
    CASE action = "prepare"  -> [st EXCEPT !.prepared = @ \cup {v}]
      [] action = "activate" -> [st EXCEPT !.version = v, !.paused = FALSE]
      [] action = "pause"    -> [st EXCEPT !.paused = TRUE]
      [] OTHER               -> [st EXCEPT !.paused = FALSE]

Controlled(st, action, v) ==
    CASE action = "prepare"  -> [st EXCEPT !.prepared = @ \cup {v}]
      [] action = "activate" -> [st EXCEPT !.version = v, !.paused = FALSE,
                                           !.bootstrap = NoVersion]
      [] action = "pause"    -> [st EXCEPT !.paused = TRUE]
      [] OTHER               -> [st EXCEPT !.paused = FALSE]

ControlProfile(l, action, v, expected) ==
    /\ pstate[l].rev # 0
    /\ pstate[l].rev = expected
    /\ pstate[l].rev < MaxRevision
    /\ ControlAllowed(l, action, v)
    /\ pstate' = [pstate EXCEPT ![l] =
                    [Controlled(@, action, v) EXCEPT !.rev = expected + 1]]
    /\ UNCHANGED registered

\* Mutant: the revision of the snapshot is not compared.
CheckProfileAdmissionByVersion(snap) ==
    /\ ~pstate[snap.lane].paused
    /\ pstate[snap.lane].version = snap.version
    /\ snap.version \in pstate[snap.lane].prepared

\* checkProfileAdmission, with the snapshot the request was rendered under.
CheckProfileAdmission(snap) ==
    /\ ~pstate[snap.lane].paused
    /\ pstate[snap.lane].rev = snap.rev
    /\ pstate[snap.lane].version = snap.version
    /\ snap.version \in pstate[snap.lane].prepared

\* profileDeliveryPaused of provenance p: TRUE when the lane is paused.
DeliveryPaused(p) == p # NoProfile /\ pstate[p.lane].paused
=============================================================================
