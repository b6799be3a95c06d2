---------------------------- MODULE MissionFlight ----------------------------
(***************************************************************************)
(* The mission node flying a vehicle.  PX4 and the DDS link to it are not  *)
(* part of the repository: they are modelled from what the node relies on. *)
(*                                                                         *)
(* - setpoints and VehicleCommands are published BEST_EFFORT, depth 1: one *)
(*   not received before the next tick is lost, and the node's only remedy *)
(*   is to publish again                                                   *)
(* - PX4 accepts the mode switch once it has seen a setpoint, may refuse   *)
(*   to arm outside offboard, flies to the latest setpoint while armed in  *)
(*   offboard, and disarms after a landing                                 *)
(* - telemetry reports the vehicle as it is, and stops during an outage    *)
(*                                                                         *)
(* Outages and gusts that push the vehicle out of a tolerance ball happen  *)
(* MaxFaults times: with endlessly many no mission would ever end.         *)
(***************************************************************************)
EXTENDS PatrolMissionNode

CONSTANT MaxFaults   \* bound: outages and gusts in one flight

ASSUME FaultAssumption == MaxFaults \in Nat

VARIABLES
  at,        \* the targets the vehicle is within tolerance of
  aim,       \* the latest setpoint PX4 received
  armed,     \* whether the motors run
  mode,      \* "manual", "offboard" or "land"
  wire,      \* VehicleCommands published by the latest tick, not yet received
  stream,    \* the setpoint published by the latest tick, NoPoint once received
  ekfValid,  \* PX4's estimate has converged
  linkUp,    \* telemetry is flowing
  faults     \* outages and gusts so far

vehicleVars == <<at, aim, armed, mode, wire, stream, ekfValid, linkUp, faults>>
flightVars == <<nodeVars, vehicleVars>>

-----------------------------------------------------------------------------
(* The node's callbacks, driven by the vehicle.                             *)

FlightTick ==
  /\ OnTick
  /\ wire' = sent'
  /\ stream' = cmd'.setpoint
  /\ UNCHANGED <<at, aim, armed, mode, ekfValid, linkUp, faults>>

SensePos ==
  /\ linkUp
  /\ OnPos([inside |-> at, valid |-> ekfValid])
  /\ UNCHANGED vehicleVars

SenseStatus ==
  /\ linkUp
  /\ OnStatus([armed |-> armed, offboard |-> mode = "offboard"])
  /\ UNCHANGED vehicleVars

SenseBattery ==
  /\ linkUp
  /\ \E msg \in BatteryMsgs : OnBattery(msg)
  /\ UNCHANGED vehicleVars

OperatorAbort ==
  /\ \E value \in BOOLEAN : OnAbort(value)
  /\ UNCHANGED vehicleVars

\* While the link is up both required streams are published often enough that
\* neither sample outlives the freshness timeout.
FlightElapse ==
  /\ linkUp => {posAge, statusAge} \subseteq 0 .. TelemetryTimeout - 1
  /\ Elapse
  /\ UNCHANGED vehicleVars

-----------------------------------------------------------------------------
(* The vehicle.                                                             *)

AcceptSetpoint ==
  /\ stream # NoPoint
  /\ aim' = stream /\ stream' = NoPoint
  /\ UNCHANGED <<nodeVars, at, armed, mode, wire, ekfValid, linkUp, faults>>

AcceptMode ==
  /\ "SET_OFFBOARD" \in wire
  /\ wire' = wire \ {"SET_OFFBOARD"}
  /\ mode' = IF aim = NoPoint THEN mode ELSE "offboard"
  /\ UNCHANGED <<nodeVars, at, aim, armed, stream, ekfValid, linkUp, faults>>

AcceptArm ==
  /\ "ARM" \in wire
  /\ wire' = wire \ {"ARM"}
  /\ armed' \in {TRUE, mode = "offboard" \/ armed}
  /\ UNCHANGED <<nodeVars, at, aim, mode, stream, ekfValid, linkUp, faults>>

AcceptLand ==
  /\ "LAND" \in wire
  /\ wire' = wire \ {"LAND"}
  /\ mode' = "land"
  /\ UNCHANGED <<nodeVars, at, aim, armed, stream, ekfValid, linkUp, faults>>

Flying == armed /\ mode = "offboard"

\* The vehicle leaves where it is, then reaches its latest setpoint.
Fly ==
  /\ Flying /\ aim # NoPoint /\ at # {aim}
  /\ at' = IF at = {} THEN {aim} ELSE {}
  /\ UNCHANGED <<nodeVars, aim, armed, mode, wire, stream, ekfValid, linkUp, faults>>

Touchdown ==
  /\ armed /\ mode = "land"
  /\ armed' = FALSE
  /\ at' = {}
  /\ UNCHANGED <<nodeVars, aim, mode, wire, stream, ekfValid, linkUp, faults>>

Converge ==
  /\ ~ekfValid
  /\ ekfValid' = TRUE
  /\ UNCHANGED <<nodeVars, at, aim, armed, mode, wire, stream, linkUp, faults>>

LinkRestored ==
  /\ ~linkUp
  /\ linkUp' = TRUE
  /\ UNCHANGED <<nodeVars, at, aim, armed, mode, wire, stream, ekfValid, faults>>

Outage ==
  /\ linkUp /\ faults < MaxFaults
  /\ linkUp' = FALSE
  /\ faults' = faults + 1
  /\ UNCHANGED <<nodeVars, at, aim, armed, mode, wire, stream, ekfValid>>

Gust ==
  /\ Flying /\ at # {} /\ faults < MaxFaults
  /\ at' = {}
  /\ faults' = faults + 1
  /\ UNCHANGED <<nodeVars, aim, armed, mode, wire, stream, ekfValid, linkUp>>

-----------------------------------------------------------------------------
FlightInit ==
  /\ NodeInit
  /\ at = {}
  /\ aim = NoPoint
  /\ armed = FALSE
  /\ mode = "manual"
  /\ wire = {} /\ stream = NoPoint
  /\ ekfValid = FALSE
  /\ linkUp = FALSE
  /\ faults = 0

FlightNext ==
  \/ FlightTick \/ SensePos \/ SenseStatus \/ SenseBattery \/ OperatorAbort \/ FlightElapse
  \/ AcceptSetpoint \/ AcceptMode \/ AcceptArm \/ AcceptLand
  \/ Fly \/ Touchdown \/ Converge \/ LinkRestored \/ Outage \/ Gust

\* Weak fairness of what a running executor, clock and vehicle keep doing, and
\* strong fairness of the link: what is published again and again, a setpoint or a
\* command, gets through.
\* Nothing is assumed of the operator, the battery, outages or gusts.
Fairness ==
  /\ WF_flightVars(FlightTick) /\ WF_flightVars(FlightElapse)
  /\ WF_flightVars(SensePos) /\ WF_flightVars(SenseStatus)
  /\ WF_flightVars(Fly) /\ WF_flightVars(Touchdown)
  /\ WF_flightVars(Converge) /\ WF_flightVars(LinkRestored)
  /\ SF_flightVars(AcceptSetpoint)
  /\ SF_flightVars(AcceptMode) /\ SF_flightVars(AcceptArm) /\ SF_flightVars(AcceptLand)

FlightSpec == FlightInit /\ [][FlightNext]_flightVars /\ Fairness

-----------------------------------------------------------------------------
\* A mission whose vehicle flies always ends in DONE: through outages, gusts,
\* lost setpoints, lost land commands and aborts at any moment, no hold, wait or
\* retry of the code waits for ever.  (An abort before the vehicle flies leaves the machine
\* in RTH on the ground: nothing asks for arming or offboard any more.)
FlyingMissionEnds == Flying ~> state = "DONE"

\* The arming retries of ARMING get every mission into the air that is not
\* aborted on the ground, however often the mode or arm command is lost.
MissionLaunches == <>(Flying \/ abortReason # "NONE")

\* The mission is never declared over while the motors run: a disarmed status
\* from before the flight is too old to be taken for the landing.
DoneMeansDisarmed == state = "DONE" => ~armed
=============================================================================
