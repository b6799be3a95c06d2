------------------------------- MODULE MCFlight -------------------------------
(* One waypoint, one fault (an outage or a gust), any abort; the battery may *)
(* report low at any time.                                                   *)
EXTENDS MissionFlight

MCDwellTime == [i \in Waypoints |-> 2]

MCPosMsgs == [inside : {{}} \cup {{p} : p \in Targets}, valid : BOOLEAN]

MCBatteryMsgs == {[level |-> "low", connected |-> TRUE]}
=============================================================================
