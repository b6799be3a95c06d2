------------------------------ MODULE MCMission ------------------------------
(* A two-waypoint mission.  The first dwell is long enough for the settle    *)
(* delay and the timer jitter, the second one is not.                        *)
EXTENDS MissionHistory

MCDwellTime == [i \in Waypoints |-> IF i = 0 THEN 2 ELSE 1]

\* The tolerance balls of the targets do not overlap; an unconverged estimate
\* may claim to be anywhere, one such claim is enough.
MCPosMsgs ==
  [inside : {{}} \cup {{p} : p \in Targets}, valid : {TRUE}]
  \cup {[inside |-> {TakeoffPoint}, valid |-> FALSE]}

\* Armed in another mode, and armed in offboard, besides disarmed.
MCStatusMsgs == {m \in StatusMsg : m.offboard => m.armed}

\* The default (full) stands in for a good reading.
MCBatteryMsgs == [level : {"low"}, connected : BOOLEAN]
=============================================================================
