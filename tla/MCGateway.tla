------------------------------ MODULE MCGateway ------------------------------
(* An instance of IntakeGateway for model checking, with two scenarios. *)
EXTENDS IntakeGateway, TLC

SingleDeps == [i \in Items |-> {}]
HashOrder == [t \in TargetIds |-> t[1]]

AlertKeys == ProfiledKeys("am")
PlainKeys == HeaderKeys

\* Every lane has the same version: a deployment and its successor.
SameVersion == {[l \in Lanes |-> v] : v \in Versions}

\* One content twice through Alert to the test lane and through Notification to
\* the formal lane, with a header; another through Notification without one.
Alerts == {"r1", "r2"}
Notifications == {"r3", "r4"}
IntentOf == [r \in Requests |-> IF r = "r4" THEN "g" ELSE "h"]
KindOf == [r1 |-> "am", r2 |-> "am", r3 |-> "direct", r4 |-> "keyless"]
LaneByKind == [r \in Requests |-> IF r \in Alerts THEN TestLane ELSE "formal"]

Symmetry == Permutations(Operators)
-----------------------------------------------------------------------------
VARIABLE scenario

Controlling(lanes, versions) ==
    \E o \in Operators :
      \/ ProfileStatus(o)
      \/ \E l \in lanes, action \in Actions, v \in versions :
           ProfileControl(o, l, action, v)

\* The copies of an alert across restarts, with operators of the test lane.
RestartNext ==
    \/ Startup \/ Down \/ SigTerm
    \/ \E r \in Alerts : Serve(r)
    \/ Controlling({TestLane}, Versions)

\* Notifications during one deployment, with a disk that fails, while operators
\* prepare and activate the formal lane.
NotificationsNext ==
    \/ Startup /\ handle'.owner = 1 /\ registered'[TestLane] \subseteq {Initial}
    \/ Down \/ DiskChanges
    \/ \E r \in Notifications : Serve(r)
    \/ Controlling({"formal"}, {Initial})

MCInit == GatewayInit /\ scenario \in {"restart", "notifications"}

MCNext ==
    /\ \/ scenario = "restart" /\ RestartNext
       \/ scenario = "notifications" /\ NotificationsNext
    /\ UNCHANGED scenario

MCSpec == MCInit /\ [][MCNext]_<<vars, scenario>>
=============================================================================
