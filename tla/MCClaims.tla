------------------------------- MODULE MCClaims -------------------------------
(* One waypoint and the messages that matter to the two statements.          *)
EXTENDS MissionClaims

MCDwellTime == [i \in Waypoints |-> 3]

MCPosMsgs == [inside : {{p} : p \in Targets}, valid : {TRUE}]

MCStatusMsgs == {[armed |-> TRUE, offboard |-> TRUE]}
=============================================================================
