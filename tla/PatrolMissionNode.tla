-------------------------- MODULE PatrolMissionNode --------------------------
(***************************************************************************)
(* The rclpy node of patrol_mission/node.py around the mission machine.    *)
(*                                                                         *)
(* The node runs on a single-threaded executor: the 10 Hz timer callback   *)
(* OnTick and the four subscription callbacks are atomic actions that      *)
(* interleave in any order, and time passes (Elapse) between them.  The    *)
(* executor calls the timer at least once every MaxTickGap units; several  *)
(* callbacks and several ticks may share one unit.                         *)
(*                                                                         *)
(* Message contents come from outside: any PX4 sample and any abort value  *)
(* may arrive at any time, or never.                                       *)
(***************************************************************************)
EXTENDS MissionStateMachine

CONSTANTS
  PosMsgs,            \* the VehicleLocalPosition messages PX4 may publish
  StatusMsgs,         \* the VehicleStatus messages
  BatteryMsgs,        \* the BatteryStatus messages
  WarmupTicks,        \* _OFFBOARD_STREAM_WARMUP_TICKS
  TelemetryTimeout,   \* _TELEMETRY_TIMEOUT_S
  BatteryTimeout,     \* _BATTERY_TIMEOUT_S
  DwellSettle,        \* _DWELL_SETTLE_S
  MaxTickGap          \* bound: the longest time between two timer callbacks

\* A position is the set of targets it is within tolerance of; valid is
\* xy_valid and z_valid together (local_position_usable).
PosMsg == [inside : SUBSET Targets, valid : BOOLEAN]
StatusMsg == [armed : BOOLEAN, offboard : BOOLEAN]
BatteryLevels == {"unknown", "low", "ok"}
BatteryMsg == [level : BatteryLevels, connected : BOOLEAN]

ASSUME NodeAssumption ==
  /\ PosMsgs \subseteq PosMsg
  /\ StatusMsgs \subseteq StatusMsg
  /\ BatteryMsgs \subseteq BatteryMsg
  /\ WarmupTicks \in Nat
  /\ TelemetryTimeout \in Nat
  /\ BatteryTimeout \in Nat
  /\ DwellSettle \in Nat
  /\ MaxTickGap \in Nat \ {0}

VARIABLES
  pos,               \* _pos: the latest VehicleLocalPosition
  posAge,            \* age of _pos_rx_s, Never while _pos is None
  status,            \* _status: the latest VehicleStatus
  statusAge,         \* age of _status_rx_s
  battery,           \* _battery_remaining, as its class
  batteryAge,        \* age of _battery_rx_s
  abortRequested,    \* _abort_requested
  warmup,            \* _warmup
  offboardRequested, \* _offboard_requested
  paused,            \* _progression_paused
  dwellClock,        \* age of _dwell_entered_s
  dwellFired,        \* _dwell_fired
  sent,              \* the VehicleCommands the latest tick published
  trigger,           \* the /patrol/dwell index the latest tick published
  tickAge            \* time since the latest timer callback

sensorVars == <<pos, posAge, status, statusAge, battery, batteryAge, abortRequested>>
controlVars == <<warmup, offboardRequested, paused, dwellClock, dwellFired>>
outputVars == <<sent, trigger>>
nodeVars == <<machineVars, sensorVars, controlVars, outputVars, tickAge>>

\* A tick publishes at most one of each, in this order.
VehicleCommandKinds == {"SET_OFFBOARD", "ARM", "LAND"}

NoTrigger == -1

-----------------------------------------------------------------------------
(* Subscription callbacks.                                                  *)

OnPos(msg) ==
  /\ pos' = msg
  /\ posAge' = 0
  /\ UNCHANGED <<status, statusAge, battery, batteryAge, abortRequested>>
  /\ UNCHANGED <<machineVars, controlVars, outputVars, tickAge>>

OnStatus(msg) ==
  /\ status' = msg
  /\ statusAge' = 0
  /\ UNCHANGED <<pos, posAge, battery, batteryAge, abortRequested>>
  /\ UNCHANGED <<machineVars, controlVars, outputVars, tickAge>>

\* Mutant: connected is not looked at.
BatteryReadingRaw(msg) == msg.level

\* A disconnected battery is unknown whatever the message's fraction says.
BatteryReading(msg) == IF msg.connected THEN msg.level ELSE "unknown"

OnBattery(msg) ==
  /\ battery' = BatteryReading(msg)
  /\ batteryAge' = 0
  /\ UNCHANGED <<pos, posAge, status, statusAge, abortRequested>>
  /\ UNCHANGED <<machineVars, controlVars, outputVars, tickAge>>

\* The latest value replaces the cached one: nothing is latched here.
OnAbort(value) ==
  /\ abortRequested' = value
  /\ UNCHANGED <<pos, posAge, status, statusAge, battery, batteryAge>>
  /\ UNCHANGED <<machineVars, controlVars, outputVars, tickAge>>

-----------------------------------------------------------------------------
(* The control loop.                                                        *)

TelemetryFresh(age, timeout) == age <= timeout

TelemetryStale ==
  \/ ~TelemetryFresh(posAge, TelemetryTimeout)
  \/ ~TelemetryFresh(statusAge, TelemetryTimeout)

\* The gates of _on_tick, in order: both streams seen, a converged EKF, and
\* both samples fresh.
Gated ==
  \/ posAge = Never
  \/ statusAge = Never
  \/ ~pos.valid
  \/ TelemetryStale

\* Before the first sample the default (full) stands; a stale one is unknown.
FreshBattery ==
  IF batteryAge = Never \/ TelemetryFresh(batteryAge, BatteryTimeout)
  THEN battery ELSE "unknown"

BuildTelemetry ==
  [inside |-> pos.inside, armed |-> status.armed, offboard |-> status.offboard,
   battery |-> FreshBattery, abort |-> abortRequested,
   takeover |-> FALSE, timedOut |-> FALSE]

\* Mutant: arm does not wait for a mode request on a prior tick.
VehicleCommandsRaced(command, warmupElapsed, requested) ==
  {k \in VehicleCommandKinds :
     \/ k = "SET_OFFBOARD" /\ warmupElapsed /\ command.offboard
     \/ k = "ARM" /\ warmupElapsed /\ command.arm
     \/ k = "LAND" /\ command.land}

\* Mutant: the mode is requested once, not until it is confirmed.
VehicleCommandsOnce(command, warmupElapsed, requested) ==
  {k \in VehicleCommandKinds :
     \/ k = "SET_OFFBOARD" /\ warmupElapsed /\ command.offboard /\ ~requested
     \/ k = "ARM" /\ warmupElapsed /\ command.arm /\ requested
     \/ k = "LAND" /\ command.land}

\* build_vehicle_commands: mode and arm wait for the warm-up, arm also for a
\* mode request on a prior tick, land for nothing.
VehicleCommands(command, warmupElapsed, requested) ==
  {k \in VehicleCommandKinds :
     \/ k = "SET_OFFBOARD" /\ warmupElapsed /\ command.offboard
     \/ k = "ARM" /\ warmupElapsed /\ command.arm /\ requested
     \/ k = "LAND" /\ command.land}

\* _issue for the Command that Tick just produced.
Issue ==
  /\ sent' = VehicleCommands(cmd', warmup >= WarmupTicks, offboardRequested)
  /\ offboardRequested' = (offboardRequested \/ "SET_OFFBOARD" \in sent')

\* The settle clock that _publish_dwell_event reads: restarted on the edge
\* into DWELL, kept otherwise.
DwellClockNow == IF state # "DWELL" THEN 0 ELSE dwellClock

DwellSettled ==
  /\ ~dwellFired
  /\ DwellClockNow # Never
  /\ DwellClockNow >= DwellSettle

\* Mutant: the dwell is not marked as fired.
PublishDwellEventAgain ==
  \/ /\ state' # "DWELL"
     /\ dwellClock' = Never /\ dwellFired' = FALSE /\ trigger' = NoTrigger
  \/ /\ state' = "DWELL"
     /\ dwellClock' = DwellClockNow
     /\ trigger' = IF DwellSettled THEN cmd'.waypoint ELSE NoTrigger
     /\ UNCHANGED dwellFired

PublishDwellEvent ==
  \/ /\ state' # "DWELL"
     /\ dwellClock' = Never
     /\ dwellFired' = FALSE
     /\ trigger' = NoTrigger
  \/ /\ state' = "DWELL"
     /\ dwellClock' = DwellClockNow
     /\ IF DwellSettled
        THEN trigger' = cmd'.waypoint /\ dwellFired' = TRUE
        ELSE trigger' = NoTrigger /\ UNCHANGED dwellFired

\* A gated tick publishes the keepalive only.
GatedTick ==
  /\ Gated
  /\ paused' = TRUE
  /\ cmd' = NoCommand
  /\ sent' = {}
  /\ trigger' = NoTrigger
  /\ tickAge' = 0
  /\ UNCHANGED <<state, lastState, sinceEntry, sinceInside, waypointIndex, abortReason>>
  /\ UNCHANGED <<warmup, offboardRequested, dwellClock, dwellFired, sensorVars>>

\* Mutant: the resume edge restarts nothing.
NoResetOnResume == FALSE

\* The first tick after a pause restarts the machine's windows (reset_timing).
ResetTimingOnResume == paused

LiveTick ==
  /\ ~Gated
  /\ Tick(BuildTelemetry, ResetTimingOnResume)
  /\ paused' = FALSE
  /\ Issue
  /\ PublishDwellEvent
  /\ warmup' = IF warmup < WarmupTicks THEN warmup + 1 ELSE warmup
  /\ tickAge' = 0
  /\ UNCHANGED sensorVars

OnTick == GatedTick \/ LiveTick

\* One unit of time passes.
Elapse ==
  /\ tickAge < MaxTickGap
  /\ tickAge' = tickAge + 1
  /\ MachineElapse
  /\ posAge' = Older(posAge, TelemetryTimeout + 1)
  /\ statusAge' = Older(statusAge, TelemetryTimeout + 1)
  /\ batteryAge' = Older(batteryAge, BatteryTimeout + 1)
  /\ dwellClock' = Older(dwellClock, DwellSettle)
  /\ UNCHANGED <<pos, status, battery, abortRequested, warmup, offboardRequested,
                 paused, dwellFired, outputVars>>

-----------------------------------------------------------------------------
\* An age of Never is the code's None: the content beside it is a placeholder.
NodeInit ==
  /\ MachineInit
  /\ pos = [inside |-> {}, valid |-> TRUE] /\ posAge = Never
  /\ status = [armed |-> FALSE, offboard |-> FALSE] /\ statusAge = Never
  /\ battery = "ok" /\ batteryAge = Never
  /\ abortRequested = FALSE
  /\ warmup = 0
  /\ offboardRequested = FALSE
  /\ paused = TRUE
  /\ dwellClock = Never
  /\ dwellFired = FALSE
  /\ sent = {}
  /\ trigger = NoTrigger
  /\ tickAge = 0

Receive ==
  \/ \E msg \in PosMsgs : OnPos(msg)
  \/ \E msg \in StatusMsgs : OnStatus(msg)
  \/ \E msg \in BatteryMsgs : OnBattery(msg)
  \/ \E value \in BOOLEAN : OnAbort(value)

NodeNext == OnTick \/ Receive \/ Elapse

NodeSpec == NodeInit /\ [][NodeNext]_nodeVars

NodeTypeOK ==
  /\ MachineTypeOK
  /\ pos \in PosMsg /\ posAge \in Ages(TelemetryTimeout + 1)
  /\ status \in StatusMsg /\ statusAge \in Ages(TelemetryTimeout + 1)
  /\ battery \in BatteryLevels /\ batteryAge \in Ages(BatteryTimeout + 1)
  /\ abortRequested \in BOOLEAN
  /\ warmup \in 0 .. WarmupTicks
  /\ offboardRequested \in BOOLEAN
  /\ paused \in BOOLEAN
  /\ dwellClock \in Ages(DwellSettle)
  /\ dwellFired \in BOOLEAN
  /\ sent \subseteq VehicleCommandKinds
  /\ trigger \in Waypoints \cup {NoTrigger}
  /\ tickAge \in 0 .. MaxTickGap
=============================================================================
