------------------------- MODULE MissionStateMachine -------------------------
(***************************************************************************)
(* The mission state machine of patrol_mission/state_machine.py: a Python  *)
(* object whose tick(state, telemetry) decides every mission transition.   *)
(*                                                                         *)
(* An operator here is one handler of the class, written as an action over *)
(* the machine's state.  The node (PatrolMissionNode) conjoins Tick with   *)
(* its own glue; nothing here runs by itself.                              *)
(*                                                                         *)
(* Time.  The code stores absolute timestamps and compares now - stamp     *)
(* with a duration.  The model stores the ages themselves (-1 = no stamp)  *)
(* and lets Elapse age them all; an age stops growing once every           *)
(* comparison the code makes with it has settled.                          *)
(*                                                                         *)
(* Space.  A position is abstracted to the set of targets whose tolerance  *)
(* ball contains it; distances, headings and frames are not represented.   *)
(***************************************************************************)
EXTENDS Integers

CONSTANTS
  NumWaypoints,   \* len(config.waypoints)
  HoldTime,       \* completion.hold_time_s
  HoverTime,      \* hover_time_s
  DwellTime,      \* dwell_s of each waypoint
  EntryLimit      \* bound: the age at which the state-entry clock saturates

Waypoints == 0 .. NumWaypoints - 1

ASSUME MissionConfigAssumption ==
  /\ NumWaypoints \in Nat
  /\ HoldTime \in Nat
  /\ HoverTime \in Nat
  /\ DwellTime \in [Waypoints -> Nat]
  /\ EntryLimit \in Nat
  /\ HoverTime <= EntryLimit
  /\ \A i \in Waypoints : DwellTime[i] <= EntryLimit

VARIABLES
  state,           \* the MissionState the node passes to tick() and gets back
  lastState,       \* _Progress.last_state ("NONE" = None)
  sinceEntry,      \* age of _Progress.state_entered_s
  sinceInside,     \* age of _Progress.inside_since_s, Never = None
  waypointIndex,   \* _Progress.waypoint_index
  abortReason,     \* _Progress.abort_reason
  cmd              \* the Command the latest timer tick produced

machineVars ==
  <<state, lastState, sinceEntry, sinceInside, waypointIndex, abortReason, cmd>>

-----------------------------------------------------------------------------
Never == -1

Ages(limit) == Never .. limit

Older(age, limit) == IF age = Never \/ age >= limit THEN age ELSE age + 1

States == {"IDLE", "ARMING", "TAKEOFF", "HOVER", "WAYPOINT", "DWELL",
           "RTH", "LANDING", "ABORT", "DONE"}

AbortReasons == {"NONE", "EXTERNAL_SIGNAL", "LOW_BATTERY",
                 "MANUAL_TAKEOVER", "TIMEOUT"}

\* Setpoints and targets: a waypoint is its index.
NoPoint == -1
HomePoint == -2
TakeoffPoint == -3

Targets == {HomePoint, TakeoffPoint} \cup Waypoints

\* What the machine is told each tick.  battery is the class of
\* battery_remaining: "unknown" for a negative or non-finite value, "low" for a
\* fraction below abort.low_battery_threshold, "ok" otherwise.
Telemetry ==
  [inside : SUBSET Targets, armed : BOOLEAN, offboard : BOOLEAN,
   battery : {"unknown", "low", "ok"}, abort : BOOLEAN,
   takeover : BOOLEAN, timedOut : BOOLEAN]

\* The Command dataclass; waypoint is current_waypoint, -1 outside the route.
Command ==
  [arm : BOOLEAN, offboard : BOOLEAN, land : BOOLEAN,
   setpoint : Targets \cup {NoPoint}, waypoint : Waypoints \cup {NoPoint}]

NoCommand == [arm |-> FALSE, offboard |-> FALSE, land |-> FALSE,
              setpoint |-> NoPoint, waypoint |-> NoPoint]

FlyTo(target) == [NoCommand EXCEPT !.setpoint = target]

FlyRoute(i) == [NoCommand EXCEPT !.setpoint = i, !.waypoint = i]

LandNow == [NoCommand EXCEPT !.land = TRUE]

\* States in which an abort guard does not fire again.
NonAbortable == {"ABORT", "RTH", "LANDING", "DONE"}

BatteryLow(level) == level = "low"

\* The highest-precedence abort condition active this tick.
AbortReasonOf(t) ==
  CASE t.abort -> "EXTERNAL_SIGNAL"
    [] ~t.abort /\ BatteryLow(t.battery) -> "LOW_BATTERY"
    [] ~t.abort /\ ~BatteryLow(t.battery) /\ t.takeover -> "MANUAL_TAKEOVER"
    [] ~t.abort /\ ~BatteryLow(t.battery) /\ ~t.takeover /\ t.timedOut -> "TIMEOUT"
    [] OTHER -> "NONE"

-----------------------------------------------------------------------------
(* Entry bookkeeping and the two time windows.  reset is TRUE when the      *)
(* node called reset_timing() just before this tick.                        *)

\* The machine was already in s at its previous tick.
Continues(s, reset) == ~reset /\ lastState = s

EntryClock(s, reset) == IF Continues(s, reset) THEN sinceEntry ELSE 0

InsideClock(s, reset) == IF Continues(s, reset) THEN sinceInside ELSE Never

\* _enter_if_new of a handler that does not look at the hold clock.
EnterIfNew(s, reset) ==
  /\ lastState' = s
  /\ sinceEntry' = EntryClock(s, reset)
  /\ sinceInside' = InsideClock(s, reset)

\* Mutant: an excursion does not restart the hold clock.
HoldClockKept(t, target, reset) ==
  IF target \in t.inside /\ InsideClock(state, reset) = Never THEN 0
  ELSE InsideClock(state, reset)

\* The hold clock after this tick's reading, for a handler flying to target.
HoldClock(t, target, reset) ==
  IF target \notin t.inside THEN Never
  ELSE IF InsideClock(state, reset) = Never THEN 0
  ELSE InsideClock(state, reset)

EnterAndHold(t, target, reset) ==
  /\ lastState' = state
  /\ sinceEntry' = EntryClock(state, reset)
  /\ sinceInside' = HoldClock(t, target, reset)

\* Mutant: one reading inside the ball is enough.
HoldCompleteAtOnce(t, target, reset) == target \in t.inside

HoldComplete(t, target, reset) ==
  /\ target \in t.inside
  /\ HoldClock(t, target, reset) >= HoldTime

Return(next, command) == state' = next /\ cmd' = command

Stay(command) == Return(state, command)

-----------------------------------------------------------------------------
(* The per-state handlers.                                                  *)

Idle(reset) ==
  /\ state = "IDLE"
  /\ EnterIfNew("IDLE", reset)
  /\ Return("ARMING", [FlyTo(TakeoffPoint) EXCEPT !.arm = TRUE])
  /\ UNCHANGED waypointIndex

Arming(t, reset) ==
  /\ state = "ARMING"
  /\ EnterIfNew("ARMING", reset)
  /\ \/ /\ t.armed /\ t.offboard
        /\ Return("TAKEOFF", FlyTo(TakeoffPoint))
     \/ /\ ~(t.armed /\ t.offboard)
        /\ Stay([FlyTo(TakeoffPoint) EXCEPT !.arm = TRUE, !.offboard = TRUE])
  /\ UNCHANGED waypointIndex

Takeoff(t, reset) ==
  /\ state = "TAKEOFF"
  /\ EnterAndHold(t, TakeoffPoint, reset)
  /\ \/ /\ HoldComplete(t, TakeoffPoint, reset)
        /\ Return("HOVER", FlyTo(TakeoffPoint))
     \/ /\ ~HoldComplete(t, TakeoffPoint, reset)
        /\ Stay(FlyTo(TakeoffPoint))
  /\ UNCHANGED waypointIndex

Hover(reset) ==
  /\ state = "HOVER"
  /\ EnterIfNew("HOVER", reset)
  /\ \/ /\ EntryClock("HOVER", reset) >= HoverTime
        /\ NumWaypoints > 0
        /\ waypointIndex' = 0
        /\ Return("WAYPOINT", FlyRoute(0))
     \/ /\ EntryClock("HOVER", reset) >= HoverTime
        /\ NumWaypoints = 0
        /\ Return("RTH", FlyTo(HomePoint))
        /\ UNCHANGED waypointIndex
     \/ /\ EntryClock("HOVER", reset) < HoverTime
        /\ Stay(FlyTo(TakeoffPoint))
        /\ UNCHANGED waypointIndex

Waypoint(t, reset) ==
  /\ state = "WAYPOINT"
  /\ EnterAndHold(t, waypointIndex, reset)
  /\ \/ /\ HoldComplete(t, waypointIndex, reset)
        /\ Return("DWELL", FlyRoute(waypointIndex))
     \/ /\ ~HoldComplete(t, waypointIndex, reset)
        /\ Stay(FlyRoute(waypointIndex))
  /\ UNCHANGED waypointIndex

\* Mutant: the route ends one waypoint early.
AdvanceFromDwellEarly(i) ==
  \/ i + 2 < NumWaypoints /\ waypointIndex' = i + 1 /\ Return("WAYPOINT", FlyRoute(i + 1))
  \/ i + 2 >= NumWaypoints /\ UNCHANGED waypointIndex /\ Return("RTH", FlyTo(HomePoint))

\* Mutant: the bound check is off by one.
AdvanceFromDwellPast(i) ==
  \/ i < NumWaypoints /\ waypointIndex' = i + 1 /\ Return("WAYPOINT", FlyRoute(i + 1))
  \/ i >= NumWaypoints /\ UNCHANGED waypointIndex /\ Return("RTH", FlyTo(HomePoint))

AdvanceFromDwell(i) ==
  \/ /\ i + 1 < NumWaypoints
     /\ waypointIndex' = i + 1
     /\ Return("WAYPOINT", FlyRoute(i + 1))
  \/ /\ i + 1 >= NumWaypoints
     /\ Return("RTH", FlyTo(HomePoint))
     /\ UNCHANGED waypointIndex

Dwell(reset) ==
  /\ state = "DWELL"
  /\ EnterIfNew("DWELL", reset)
  /\ \/ /\ EntryClock("DWELL", reset) >= DwellTime[waypointIndex]
        /\ AdvanceFromDwell(waypointIndex)
     \/ /\ EntryClock("DWELL", reset) < DwellTime[waypointIndex]
        /\ Stay(FlyRoute(waypointIndex))
        /\ UNCHANGED waypointIndex

Rth(t, reset) ==
  /\ state = "RTH"
  /\ EnterAndHold(t, HomePoint, reset)
  /\ \/ /\ HoldComplete(t, HomePoint, reset)
        /\ Return("LANDING", LandNow)
     \/ /\ ~HoldComplete(t, HomePoint, reset)
        /\ Stay(FlyTo(HomePoint))
  /\ UNCHANGED waypointIndex

\* ABORT was surfaced for one tick; fly the explicit return to home.
AbortToRth(reset) ==
  /\ state = "ABORT"
  /\ EnterIfNew("ABORT", reset)
  /\ Return("RTH", FlyTo(HomePoint))
  /\ UNCHANGED waypointIndex

\* Mutant: land was commanded on entry and is not repeated.
LandingOnce(t, reset) ==
  /\ state = "LANDING"
  /\ EnterIfNew("LANDING", reset)
  /\ IF t.armed THEN Stay(NoCommand) ELSE Return("DONE", NoCommand)
  /\ UNCHANGED waypointIndex

Landing(t, reset) ==
  /\ state = "LANDING"
  /\ EnterIfNew("LANDING", reset)
  /\ \/ ~t.armed /\ Return("DONE", NoCommand)
     \/ t.armed /\ Stay(LandNow)
  /\ UNCHANGED waypointIndex

Done(reset) ==
  /\ state = "DONE"
  /\ EnterIfNew("DONE", reset)
  /\ Stay(NoCommand)
  /\ UNCHANGED waypointIndex

-----------------------------------------------------------------------------
(* tick(): the abort guards come first, then the state's handler.           *)

AbortFires(t) == AbortReasonOf(t) # "NONE" /\ state \notin NonAbortable

Dispatch(t, reset) ==
  \/ Idle(reset)
  \/ Arming(t, reset)
  \/ Takeoff(t, reset)
  \/ Hover(reset)
  \/ Waypoint(t, reset)
  \/ Dwell(reset)
  \/ Rth(t, reset)
  \/ AbortToRth(reset)
  \/ Landing(t, reset)
  \/ Done(reset)

\* Mutant: the reason is recorded and the state's handler still runs.
AbortNoReturn(t, reset) ==
  /\ AbortFires(t)
  /\ abortReason' = AbortReasonOf(t)
  /\ Dispatch(t, reset)

Abort(t, reset) ==
  /\ AbortFires(t)
  /\ abortReason' = AbortReasonOf(t)
  /\ EnterIfNew("ABORT", reset)
  /\ Return("ABORT", FlyTo(HomePoint))
  /\ UNCHANGED waypointIndex

Tick(t, reset) ==
  \/ Abort(t, reset)
  \/ /\ ~AbortFires(t)
     /\ Dispatch(t, reset)
     /\ UNCHANGED abortReason

MachineInit ==
  /\ state = "IDLE"
  /\ lastState = "NONE"
  /\ sinceEntry = 0
  /\ sinceInside = Never
  /\ waypointIndex = 0
  /\ abortReason = "NONE"
  /\ cmd = NoCommand

\* One unit of time passes for the stored timestamps.
MachineElapse ==
  /\ sinceEntry' = Older(sinceEntry, EntryLimit)
  /\ sinceInside' = Older(sinceInside, HoldTime)
  /\ UNCHANGED <<state, lastState, waypointIndex, abortReason, cmd>>

MachineTypeOK ==
  /\ state \in States
  /\ lastState \in States \cup {"NONE"}
  /\ sinceEntry \in 0 .. EntryLimit
  /\ sinceInside \in Ages(HoldTime)
  /\ waypointIndex \in 0 .. NumWaypoints
  /\ abortReason \in AbortReasons
  /\ cmd \in Command
=============================================================================
