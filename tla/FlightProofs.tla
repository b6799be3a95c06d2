----------------------------- MODULE FlightProofs -----------------------------
(***************************************************************************)
(* Theorems about the mission node flying a vehicle: when the motors can   *)
(* start, that the mission is over only once they have stopped, and that   *)
(* the closed loop is one of the behaviours of the open node.              *)
(*                                                                         *)
(* MissionProofs and MissionRouteProofs supply what holds of the node      *)
(* whatever it is told; its history variables play no part here.           *)
(***************************************************************************)
EXTENDS MissionFlight, MissionRouteProofs

USE MissionConfigAssumption, NodeAssumption

FlightTypeOK ==
  /\ NodeInv
  /\ at \in {{}} \cup {{p} : p \in Targets}
  /\ aim \in Targets \cup {NoPoint}
  /\ armed \in BOOLEAN
  /\ mode \in {"manual", "offboard", "land"}
  /\ wire \subseteq VehicleCommandKinds
  /\ stream \in Targets \cup {NoPoint}
  /\ ekfValid \in BOOLEAN

\* The vehicle's own steps leave the node alone.
VehicleStep ==
  AcceptSetpoint \/ AcceptMode \/ AcceptArm \/ AcceptLand \/ Fly \/ Touchdown \/ Converge
    \/ LinkRestored \/ Outage \/ Gust

-----------------------------------------------------------------------------
(* The closed loop and the open node.                                       *)

LEMMA VehicleFrame == VehicleStep => UNCHANGED nodeVars
BY DEF VehicleStep, AcceptSetpoint, AcceptMode, AcceptArm, AcceptLand, Fly, Touchdown, Converge,
       LinkRestored, Outage, Gust

\* The position and the status a flying vehicle reports.
Reports == [inside : {{}} \cup {{p} : p \in Targets}, valid : BOOLEAN]

\* What each step of the closed loop is to the node.
LEMMA NodeView ==
  ASSUME FlightTypeOK, [FlightNext]_flightVars
  PROVE  \/ OnTick
         \/ Elapse
         \/ \E msg \in Reports : OnPos(msg)
         \/ \E msg \in StatusMsg : OnStatus(msg)
         \/ \E msg \in BatteryMsgs : OnBattery(msg)
         \/ \E value \in BOOLEAN : OnAbort(value)
         \/ UNCHANGED nodeVars
<1>1. CASE SensePos
  <2>1. [inside |-> at, valid |-> ekfValid] \in Reports
    BY DEF FlightTypeOK, Reports
  <2>. QED  BY <1>1, <2>1 DEF SensePos
<1>2. CASE SenseStatus
  <2>1. [armed |-> armed, offboard |-> mode = "offboard"] \in StatusMsg
    BY DEF FlightTypeOK, StatusMsg
  <2>. QED  BY <1>2, <2>1 DEF SenseStatus
<1>3. CASE FlightTick \/ SenseBattery \/ OperatorAbort \/ FlightElapse
  BY <1>3 DEF FlightTick, SenseBattery, OperatorAbort, FlightElapse
<1>4. CASE VehicleStep \/ UNCHANGED flightVars
  BY <1>4, VehicleFrame DEF flightVars
<1>. QED  BY <1>1, <1>2, <1>3, <1>4 DEF FlightNext, VehicleStep

\* Whatever the vehicle reports is a message.
LEMMA FlightIsAny == FlightTypeOK /\ [FlightNext]_flightVars => [AnyNext]_nodeVars
<1>1. Reports \subseteq PosMsg
  BY DEF Reports, PosMsg
<1>. QED  BY <1>1, NodeView DEF AnyNext

LEMMA FlightTypeInitial == FlightInit => FlightTypeOK
BY NodeInitial DEF FlightInit, FlightTypeOK

\* What a tick publishes is what the vehicle may receive.
LEMMA TickPublishes ==
  ASSUME OnTick
  PROVE  sent' \subseteq VehicleCommandKinds
BY DEF OnTick, GatedTick, LiveTick, Issue, VehicleCommands

LEMMA FlightTypeStep == FlightTypeOK /\ [FlightNext]_flightVars => FlightTypeOK'
<1>1. SUFFICES ASSUME FlightTypeOK, [FlightNext]_flightVars PROVE FlightTypeOK'
  OBVIOUS
<1>2. NodeInv'
  BY <1>1, FlightIsAny, AnyStep DEF FlightTypeOK
<1>. USE DEF FlightTypeOK
<1>3. CASE FlightTick
  <2>1. cmd'.setpoint \in Targets \cup {NoPoint}
    BY <1>2 DEF NodeInv, NodeTypeOK, MachineTypeOK, Command
  <2>2. stream' \in Targets \cup {NoPoint}
    BY <1>3, <2>1 DEF FlightTick
  <2>3. wire' \subseteq VehicleCommandKinds
    BY <1>3, TickPublishes DEF FlightTick
  <2>. QED  BY <1>1, <1>2, <1>3, <2>2, <2>3 DEF FlightTick
<1>4. CASE SensePos \/ SenseStatus \/ SenseBattery \/ OperatorAbort \/ FlightElapse
  BY <1>1, <1>2, <1>4
     DEF SensePos, SenseStatus, SenseBattery, OperatorAbort, FlightElapse, vehicleVars
<1>5. CASE AcceptSetpoint \/ AcceptMode \/ AcceptArm \/ AcceptLand
  BY <1>1, <1>2, <1>5 DEF AcceptSetpoint, AcceptMode, AcceptArm, AcceptLand
<1>6. CASE Fly \/ Gust \/ Touchdown
  <2>1. aim # NoPoint => {aim} \in {{p} : p \in Targets}
    BY <1>1
  <2>2. at' \in {{}} \cup {{p} : p \in Targets}
    BY <1>1, <1>6, <2>1 DEF Fly, Gust, Touchdown
  <2>. QED  BY <1>1, <1>2, <1>6, <2>2 DEF Fly, Gust, Touchdown
<1>7. CASE Converge \/ LinkRestored \/ Outage
  BY <1>1, <1>2, <1>7 DEF Converge, LinkRestored, Outage
<1>8. CASE UNCHANGED flightVars
  BY <1>1, <1>2, <1>8 DEF flightVars, vehicleVars
<1>. QED  BY <1>1, <1>3, <1>4, <1>5, <1>6, <1>7, <1>8 DEF FlightNext

LEMMA FlightTypeCorrect == FlightSpec => []FlightTypeOK
BY FlightTypeInitial, FlightTypeStep, PTL DEF FlightSpec

\* Flying a vehicle is one of the things the open node of NodeSpec allows for,
\* provided that its messages include what a vehicle reports: what is proved or
\* checked of the node with arbitrary messages holds of the closed loop.
THEOREM ImplementsNode ==
  ASSUME Reports \subseteq PosMsgs, StatusMsg \subseteq StatusMsgs
  PROVE  FlightSpec => NodeSpec
<1>1. FlightTypeOK /\ [FlightNext]_flightVars => [NodeNext]_nodeVars
  BY NodeView DEF NodeNext, Receive
<1>2. FlightInit => NodeInit
  BY DEF FlightInit
<1>. QED  BY <1>1, <1>2, FlightTypeCorrect, PTL DEF FlightSpec, NodeSpec

(* The mission that is flown is a patrol: over a link that loses commands and *)
(* telemetry, in gusts and with an operator who may abort at any moment, the *)
(* waypoints are visited in order, each once, and the vehicle is sent home   *)
(* after the last one or on an abort that is never taken back.               *)
THEOREM FlightImplementsRoute == FlightSpec => RefinesRoute
<1>1. FlightInit => NodeInit
  BY DEF FlightInit
<1>2. FlightSpec => [](FlightTypeOK /\ PatrolInv)
  BY <1>1, PatrolInitial, PatrolStep, FlightIsAny, FlightTypeCorrect, PTL DEF FlightSpec
<1>3. FlightSpec => [][Route!RouteNext]_Route!routeVars
  BY <1>2, PatrolStep, FlightIsAny, PTL DEF FlightSpec
<1>. QED  BY <1>1, <1>3, PatrolInitial, PTL DEF RefinesRoute, Route!RouteSpec, FlightSpec

-----------------------------------------------------------------------------
(* When the motors start.                                                   *)

\* The command that starts the motors is on its way only while the machine is
\* in ARMING: the tick that leaves ARMING takes it back.
ArmsInArming == "ARM" \in wire => state = "ARMING"

\* The machine commands arming only on the way into ARMING or in it.
LEMMA ArmTick ==
  ASSUME NEW t, NEW reset, Tick(t, reset), cmd'.arm
  PROVE  state' = "ARMING"
<1>1. ~NoCommand.arm /\ ~LandNow.arm /\ \A p : ~FlyTo(p).arm /\ ~FlyRoute(p).arm
  BY DEF NoCommand, LandNow, FlyTo, FlyRoute
<1>2. ~Abort(t, reset)
  BY <1>1 DEF Abort, Return
<1>3. CASE Idle(reset) \/ Arming(t, reset)
  BY <1>1, <1>3 DEF Idle, Arming, Return, Stay
<1>4. CASE Takeoff(t, reset) \/ Hover(reset) \/ Waypoint(t, reset) \/ Dwell(reset)
  BY <1>1, <1>4 DEF Takeoff, Hover, Waypoint, Dwell, AdvanceFromDwell, Return, Stay
<1>5. CASE Rth(t, reset) \/ AbortToRth(reset) \/ Landing(t, reset) \/ Done(reset)
  BY <1>1, <1>5 DEF Rth, AbortToRth, Landing, Done, Return, Stay
<1>. QED  BY <1>2, <1>3, <1>4, <1>5 DEF Tick, Dispatch

LEMMA ArmsStep == ArmsInArming /\ [FlightNext]_flightVars => ArmsInArming'
<1>1. SUFFICES ASSUME ArmsInArming, [FlightNext]_flightVars, "ARM" \in wire'
               PROVE  state' = "ARMING"
  BY DEF ArmsInArming
<1>2. CASE FlightTick
  <2>1. "ARM" \in sent' /\ OnTick
    BY <1>1, <1>2 DEF FlightTick
  <2>2. LiveTick /\ cmd'.arm
    BY <2>1 DEF OnTick, GatedTick, LiveTick, Issue, VehicleCommands
  <2>. QED  BY <2>2, ArmTick DEF LiveTick
<1>3. CASE SensePos \/ SenseStatus \/ SenseBattery \/ OperatorAbort
  BY <1>1, <1>3 DEF SensePos, SenseStatus, SenseBattery, OperatorAbort, OnPos, OnStatus,
     OnBattery, OnAbort, vehicleVars, machineVars, ArmsInArming
<1>4. CASE FlightElapse
  BY <1>1, <1>4 DEF FlightElapse, Elapse, MachineElapse, vehicleVars, ArmsInArming
<1>5. CASE AcceptSetpoint \/ AcceptMode \/ AcceptArm \/ AcceptLand
  BY <1>1, <1>5 DEF AcceptSetpoint, AcceptMode, AcceptArm, AcceptLand, nodeVars, machineVars, ArmsInArming
<1>6. CASE Fly \/ Touchdown \/ Converge \/ LinkRestored \/ Outage \/ Gust
  BY <1>1, <1>6 DEF Fly, Touchdown, Converge, LinkRestored, Outage, Gust, nodeVars,
     machineVars, ArmsInArming
<1>7. CASE UNCHANGED flightVars
  BY <1>1, <1>7 DEF flightVars, nodeVars, vehicleVars, machineVars, ArmsInArming
<1>. QED  BY <1>1, <1>2, <1>3, <1>4, <1>5, <1>6, <1>7 DEF FlightNext

LEMMA ArmsInvariant == FlightSpec => []ArmsInArming
<1>1. FlightInit => ArmsInArming
  BY DEF FlightInit, ArmsInArming
<1>. QED  BY <1>1, ArmsStep, PTL DEF FlightSpec

\* The motors start only while the mission is arming the vehicle: no ARM that
\* was published on the ground can start them once an abort has turned the
\* mission home, however late PX4 acts on it.
MotorsStartInArming == [][~armed /\ armed' => state = "ARMING"]_flightVars

\* An ARM still on its way is taken back by the tick that leaves ARMING.
THEOREM MotorsStart == FlightSpec => MotorsStartInArming
<1>. DEFINE Starts == ~armed /\ armed' => state = "ARMING"
<1>1. ArmsInArming /\ [FlightNext]_flightVars => [Starts]_flightVars
  <2>1. SUFFICES ASSUME ArmsInArming, FlightNext, ~armed, armed' PROVE state = "ARMING"
    OBVIOUS
  <2>2. CASE AcceptArm
    BY <2>1, <2>2 DEF AcceptArm, ArmsInArming
  <2>3. CASE FlightTick
    BY <2>1, <2>3 DEF FlightTick
  <2>4. CASE SensePos \/ SenseStatus \/ SenseBattery \/ OperatorAbort \/ FlightElapse
    BY <2>1, <2>4
       DEF SensePos, SenseStatus, SenseBattery, OperatorAbort, FlightElapse, vehicleVars
  <2>5. CASE AcceptSetpoint \/ AcceptMode \/ AcceptLand \/ Fly \/ Touchdown
    BY <2>1, <2>5 DEF AcceptSetpoint, AcceptMode, AcceptLand, Fly, Touchdown
  <2>6. CASE Converge \/ LinkRestored \/ Outage \/ Gust
    BY <2>1, <2>6 DEF Converge, LinkRestored, Outage, Gust
  <2>. QED  BY <2>1, <2>2, <2>3, <2>4, <2>5, <2>6 DEF FlightNext
<1>2. FlightSpec => [][Starts]_flightVars
  BY <1>1, ArmsInvariant, PTL DEF FlightSpec
<1>. QED  BY <1>2 DEF MotorsStartInArming

-----------------------------------------------------------------------------
(* DONE and the motors.  The only danger is a disarmed status from before   *)
(* the flight that an abort in ARMING carries into LANDING.  The argument   *)
(* dates it: the status in the cache was received before the abort, the     *)
(* hold over home takes HoldTime after it, and a status as old as that is   *)
(* stale.                                                                   *)

InFlight == {"TAKEOFF", "HOVER", "WAYPOINT", "DWELL"}

\* The cached status shows running motors, or is stale, or at least this old.
Dated(age) ==
  \/ armed => status.armed
  \/ statusAge > TelemetryTimeout
  \/ statusAge >= age

\* lead is the time that passed at least between the abort and the first tick
\* in RTH.
LandingInv(lead) ==
  /\ state \in InFlight \cup {"LANDING"} => (armed => status.armed)
  /\ state = "ABORT" => Dated(tickAge)
  /\ state = "RTH" => Dated(lead)
  /\ state = "RTH" /\ lastState = "RTH" => Dated(sinceInside + lead)
  /\ state = "DONE" => ~armed

\* Where a tick can come from, for each place it can lead to.
LEMMA TickMoves ==
  ASSUME NEW t, NEW reset, Tick(t, reset)
  PROVE  /\ state' \in InFlight => state \in InFlight \/ (state = "ARMING" /\ t.armed /\ t.offboard)
         /\ state' = "RTH" =>
              \/ state \in InFlight /\ lastState' # "RTH"
              \/ state = "ABORT" /\ lastState' # "RTH"
              \/ state = "RTH" /\ sinceInside' = HoldClock(t, HomePoint, reset)
         /\ state' = "LANDING" =>
              \/ state = "LANDING"
              \/ state = "RTH" /\ HoldClock(t, HomePoint, reset) >= HoldTime
         /\ state' = "DONE" => state = "DONE" \/ (state = "LANDING" /\ ~t.armed)
<1>. USE DEF InFlight, Return, Stay
<1>1. CASE Abort(t, reset)
  BY <1>1 DEF Abort
<1>2. CASE Idle(reset) \/ Arming(t, reset) \/ Landing(t, reset) \/ Done(reset)
  BY <1>2 DEF Idle, Arming, Landing, Done
<1>3. CASE Takeoff(t, reset) \/ Hover(reset) \/ Waypoint(t, reset)
  BY <1>3 DEF Takeoff, Hover, Waypoint, EnterIfNew
<1>4. CASE Dwell(reset)
  BY <1>4 DEF Dwell, AdvanceFromDwell, EnterIfNew
<1>5. CASE Rth(t, reset)
  BY <1>5 DEF Rth, EnterAndHold, HoldComplete
<1>6. CASE AbortToRth(reset)
  BY <1>6 DEF AbortToRth, EnterIfNew
<1>. QED  BY <1>1, <1>2, <1>3, <1>4, <1>5, <1>6 DEF Tick, Dispatch

\* The hold clock a tick leaves is empty, has just started, or is one that was
\* running in the same state.
LEMMA HoldClockValues ==
  ASSUME NEW t, NEW p, NEW reset
  PROVE  \/ HoldClock(t, p, reset) = Never
         \/ HoldClock(t, p, reset) = 0
         \/ lastState = state /\ HoldClock(t, p, reset) = sinceInside
BY DEF HoldClock, InsideClock, Continues

\* A live tick keeps the dates right.  With HoldTime no longer than the
\* freshness timeout it takes time between two ticks.
LEMMA LandingTick ==
  ASSUME NEW lead \in {0, 1}, FlightTypeOK, LandingInv(lead), FlightTick, LiveTick,
         HoldTime + lead > TelemetryTimeout, lead = 1 => tickAge > 0
  PROVE  LandingInv(lead)'
<1>. DEFINE t == BuildTelemetry
<1>1. /\ statusAge \in 0 .. TelemetryTimeout /\ tickAge \in Nat
      /\ sinceInside \in Ages(HoldTime)
  <2>1. statusAge \in Ages(TelemetryTimeout + 1) /\ statusAge # Never
        /\ statusAge <= TelemetryTimeout
    BY DEF FlightTypeOK, NodeInv, NodeTypeOK, LiveTick, Gated, TelemetryStale, TelemetryFresh
  <2>2. tickAge \in Nat /\ sinceInside \in Ages(HoldTime)
    BY DEF FlightTypeOK, NodeInv, NodeTypeOK, MachineTypeOK
  <2>. QED  BY <2>1, <2>2 DEF Ages, Never
<1>2. /\ Tick(t, ResetTimingOnResume)
      /\ t.armed = status.armed
      /\ armed' = armed /\ status' = status /\ statusAge' = statusAge /\ tickAge' = 0
  BY DEF LiveTick, FlightTick, BuildTelemetry, sensorVars
<1>3. state' \in InFlight => (armed => status.armed)
  BY <1>2, TickMoves DEF LandingInv, InFlight
<1>4. state' = "RTH" => Dated(lead)
  <2>1. CASE state = "ABORT"
    BY <1>1, <2>1 DEF LandingInv, Dated
  <2>2. CASE state \in InFlight \cup {"RTH"}
    BY <2>2 DEF LandingInv, Dated
  <2>. QED  BY <1>2, <2>1, <2>2, TickMoves
<1>5. state' = "RTH" /\ lastState' = "RTH" => Dated(sinceInside' + lead)
  <2>1. CASE state \in InFlight
    BY <2>1 DEF LandingInv, Dated
  <2>2. CASE state = "RTH" /\ sinceInside' = HoldClock(t, HomePoint, ResetTimingOnResume)
    <3>1. Dated(lead) /\ (lastState = "RTH" => Dated(sinceInside + lead))
      BY <2>2 DEF LandingInv
    <3>2. sinceInside' \in {Never, 0} \/ (lastState = "RTH" /\ sinceInside' = sinceInside)
      BY <2>2, HoldClockValues
    <3>3. Dated(lead) => Dated(Never + lead) /\ Dated(0 + lead)
      BY <1>1 DEF Dated, Never
    <3>. QED  BY <3>1, <3>2, <3>3
  <2>. QED  BY <1>2, <2>1, <2>2, TickMoves
<1>6. state' = "LANDING" => (armed => status.armed)
  <2>1. SUFFICES ASSUME state = "RTH", HoldClock(t, HomePoint, ResetTimingOnResume) >= HoldTime
                 PROVE  armed => status.armed
    BY <1>2, TickMoves DEF LandingInv
  <2>2. Dated(lead) /\ (lastState = "RTH" => Dated(sinceInside + lead))
    BY <2>1 DEF LandingInv
  <2>3. HoldTime = 0 \/ (lastState = "RTH" /\ sinceInside >= HoldTime)
    BY <2>1, HoldClockValues DEF Never
  <2>4. Dated(HoldTime + lead)
    BY <1>1, <2>2, <2>3 DEF Dated, Ages, Never
  <2>. QED  BY <1>1, <2>4 DEF Dated
<1>7. state' = "DONE" => ~armed
  BY <1>2, TickMoves DEF LandingInv
<1>8. Dated(tickAge)'
  BY <1>1, <1>2 DEF Dated
<1>9. /\ state' = "RTH" => Dated(lead)'
      /\ state' = "RTH" /\ lastState' = "RTH" => (Dated(sinceInside + lead))'
  BY <1>2, <1>4, <1>5 DEF Dated
<1>. QED  BY <1>2, <1>3, <1>6, <1>7, <1>8, <1>9 DEF LandingInv

\* Dates are kept by the passing of time, which ages the status as fast as
\* anything else.
LEMMA LandingElapse ==
  ASSUME NEW lead \in {0, 1}, FlightTypeOK, LandingInv(lead), FlightElapse
  PROVE  LandingInv(lead)'
<1>1. /\ statusAge \in Ages(TelemetryTimeout + 1) /\ sinceInside \in Ages(HoldTime)
      /\ tickAge \in Nat
  BY DEF FlightTypeOK, NodeInv, NodeTypeOK, MachineTypeOK
<1>2. /\ statusAge' = Older(statusAge, TelemetryTimeout + 1)
      /\ sinceInside' = Older(sinceInside, HoldTime)
      /\ tickAge' = tickAge + 1
      /\ UNCHANGED <<state, lastState, armed, status>>
  BY DEF FlightElapse, Elapse, MachineElapse, vehicleVars
<1>3. Dated(lead) => Dated(lead)'
  BY <1>1, <1>2 DEF Dated, Older, Ages, Never
<1>4. Dated(tickAge) => Dated(tickAge)'
  <2>1. statusAge >= tickAge => \/ statusAge' > TelemetryTimeout
                                \/ statusAge' >= tickAge'
    BY <1>1, <1>2 DEF Older, Ages, Never
  <2>2. statusAge > TelemetryTimeout => statusAge' > TelemetryTimeout
    BY <1>1, <1>2 DEF Older, Ages, Never
  <2>. QED  BY <1>2, <2>1, <2>2 DEF Dated
<1>5. Dated(lead) /\ Dated(sinceInside + lead) => (Dated(sinceInside + lead))'
  <2>1. statusAge >= lead /\ statusAge >= sinceInside + lead
          => statusAge' > TelemetryTimeout \/ statusAge' >= sinceInside' + lead
    BY <1>1, <1>2 DEF Older, Ages, Never
  <2>2. statusAge > TelemetryTimeout => statusAge' > TelemetryTimeout
    BY <1>1, <1>2 DEF Older, Ages, Never
  <2>. QED  BY <1>2, <2>1, <2>2 DEF Dated
<1>. QED  BY <1>2, <1>3, <1>4, <1>5 DEF LandingInv

\* The other steps of the node: a status is news, the rest touches no date.
LEMMA LandingCallback ==
  ASSUME NEW lead \in {0, 1}, FlightTypeOK, LandingInv(lead),
         SensePos \/ SenseStatus \/ SenseBattery \/ OperatorAbort
           \/ (FlightTick /\ GatedTick)
  PROVE  LandingInv(lead)'
<1>1. /\ UNCHANGED <<state, lastState, sinceInside, armed>>
      /\ UNCHANGED tickAge \/ tickAge' = 0
  BY DEF SensePos, SenseStatus, SenseBattery, OperatorAbort, OnPos, OnStatus, OnBattery,
     OnAbort, FlightTick, GatedTick, vehicleVars, machineVars
<1>2. \/ UNCHANGED <<status, statusAge>>
      \/ status' = [armed |-> armed, offboard |-> mode = "offboard"]
  BY DEF SensePos, SenseStatus, SenseBattery, OperatorAbort, OnPos, OnStatus, OnBattery,
     OnAbort, FlightTick, GatedTick, sensorVars
<1>4. tickAge \in Nat /\ statusAge \in Ages(TelemetryTimeout + 1)
  BY DEF FlightTypeOK, NodeInv, NodeTypeOK
<1>5. CASE UNCHANGED <<status, statusAge>>
  <2>1. Dated(tickAge) => Dated(tickAge)'
    BY <1>1, <1>4, <1>5 DEF Dated, Ages, Never
  <2>2. Dated(lead) => Dated(lead)'
    BY <1>1, <1>5 DEF Dated
  <2>3. Dated(sinceInside + lead) => (Dated(sinceInside + lead))'
    BY <1>1, <1>5 DEF Dated
  <2>. QED  BY <1>1, <1>5, <2>1, <2>2, <2>3 DEF LandingInv
<1>6. CASE status' = [armed |-> armed, offboard |-> mode = "offboard"]
  <2>1. armed' => status'.armed
    BY <1>1, <1>6
  <2>. QED  BY <1>1, <2>1 DEF LandingInv, Dated
<1>. QED  BY <1>2, <1>5, <1>6

\* The vehicle: its motors start in ARMING only, where nothing is claimed.
LEMMA LandingVehicle ==
  ASSUME NEW lead \in {0, 1}, LandingInv(lead), ArmsInArming, VehicleStep
  PROVE  LandingInv(lead)'
<1>1. UNCHANGED <<state, lastState, sinceInside, status, statusAge, tickAge>>
  BY VehicleFrame DEF nodeVars, machineVars, sensorVars
<1>2. CASE AcceptArm
  <2>1. state = "ARMING"
    BY <1>2 DEF AcceptArm, ArmsInArming
  <2>. QED  BY <1>1, <2>1 DEF LandingInv, InFlight
<1>3. CASE ~AcceptArm
  <2>1. armed' => armed
    BY <1>3 DEF VehicleStep, AcceptSetpoint, AcceptMode, AcceptLand, Fly, Touchdown, Converge,
       LinkRestored, Outage, Gust
  <2>2. \A age : Dated(age) => Dated(age)'
    BY <1>1, <2>1 DEF Dated
  <2>3. /\ Dated(tickAge) => Dated(tickAge)'
        /\ Dated(sinceInside + lead) => (Dated(sinceInside + lead))'
    BY <1>1, <2>1 DEF Dated
  <2>. QED  BY <1>1, <2>1, <2>2, <2>3 DEF LandingInv
<1>. QED  BY <1>2, <1>3

LEMMA LandingStep ==
  ASSUME NEW lead \in {0, 1}, FlightTypeOK, ArmsInArming, LandingInv(lead),
         [FlightNext]_flightVars,
         HoldTime + lead > TelemetryTimeout, lead = 1 /\ FlightTick => tickAge > 0
  PROVE  LandingInv(lead)'
<1>1. CASE FlightTick
  BY <1>1, LandingTick, LandingCallback DEF FlightTick, OnTick
<1>2. CASE FlightElapse
  BY <1>2, LandingElapse
<1>3. CASE SensePos \/ SenseStatus \/ SenseBattery \/ OperatorAbort
  BY <1>3, LandingCallback
<1>4. CASE VehicleStep
  BY <1>4, LandingVehicle
<1>5. CASE UNCHANGED flightVars
  BY <1>5 DEF flightVars, nodeVars, machineVars, sensorVars, vehicleVars, LandingInv, Dated
<1>. QED  BY <1>1, <1>2, <1>3, <1>4, <1>5 DEF FlightNext, VehicleStep

\* The mission is never declared over while the motors run, however late or lost
\* the messages of the link and whenever the abort comes, as long as the hold
\* over home outlasts the freshness of a status.
THEOREM DoneDisarmed ==
  ASSUME HoldTime > TelemetryTimeout
  PROVE  FlightSpec => []DoneMeansDisarmed
<1>1. FlightInit => LandingInv(0)
  BY DEF FlightInit, NodeInit, MachineInit, LandingInv, InFlight
<1>2. FlightTypeOK /\ ArmsInArming /\ LandingInv(0) /\ [FlightNext]_flightVars => LandingInv(0)'
  BY LandingStep
<1>3. LandingInv(0) => DoneMeansDisarmed
  BY DEF LandingInv, DoneMeansDisarmed
<1>. QED  BY <1>1, <1>2, <1>3, FlightTypeCorrect, ArmsInvariant, PTL DEF FlightSpec

\* Time passes between two callbacks of the timer.
TicksApart == [][FlightTick => tickAge > 0]_flightVars

\* The same when the two durations are equal, as they are in the shipped
\* configuration (hold_time_s and _TELEMETRY_TIMEOUT_S are both two seconds):
\* then the time between two timer callbacks is what makes the status stale.
THEOREM DoneDisarmedAtEquality ==
  ASSUME HoldTime >= TelemetryTimeout
  PROVE  FlightSpec /\ TicksApart => []DoneMeansDisarmed
<1>0. HoldTime + 1 > TelemetryTimeout
  OBVIOUS
<1>1. FlightInit => LandingInv(1)
  BY DEF FlightInit, NodeInit, MachineInit, LandingInv, InFlight
<1>2. FlightTypeOK /\ ArmsInArming /\ LandingInv(1) /\ [FlightNext]_flightVars
        /\ [FlightTick => tickAge > 0]_flightVars => LandingInv(1)'
  <2>1. SUFFICES ASSUME FlightTypeOK, ArmsInArming, LandingInv(1), [FlightNext]_flightVars,
                        [FlightTick => tickAge > 0]_flightVars
                 PROVE  LandingInv(1)'
    OBVIOUS
  <2>2. CASE UNCHANGED flightVars
    BY <2>1, <2>2 DEF flightVars, nodeVars, machineVars, sensorVars, vehicleVars, LandingInv, Dated
  <2>3. CASE FlightTick => tickAge > 0
    BY <1>0, <2>1, <2>3, LandingStep
  <2>. QED  BY <2>1, <2>2, <2>3
<1>3. LandingInv(1) => DoneMeansDisarmed
  BY DEF LandingInv, DoneMeansDisarmed
<1>. QED
  BY <1>1, <1>2, <1>3, FlightTypeCorrect, ArmsInvariant, PTL DEF FlightSpec, TicksApart

-----------------------------------------------------------------------------
(* The route and the vehicle that flies it.                                 *)

Down == {"LANDING", "DONE"}

\* Only LANDING takes the vehicle out of the mode it flies the mission in, so
\* that until then a status once received as armed or offboard is still true.
FlownInv ==
  /\ "LAND" \in wire => state \in Down
  /\ mode = "land" => state \in Down
  /\ state \notin Down => /\ status.armed => armed
                          /\ status.offboard => mode = "offboard"
  /\ state \in InFlight => Flying

\* Land is commanded in LANDING only, and nothing leads back from there.
LEMMA LandTick ==
  ASSUME NEW t, NEW reset, Tick(t, reset)
  PROVE  /\ cmd'.land => state' \in Down
         /\ state \in Down => state' \in Down
<1>1. /\ ~NoCommand.land
      /\ \A p : /\ ~FlyTo(p).land /\ ~FlyRoute(p).land
                /\ ~[FlyTo(p) EXCEPT !.arm = TRUE].land
                /\ ~[FlyTo(p) EXCEPT !.arm = TRUE, !.offboard = TRUE].land
  BY DEF NoCommand, FlyTo, FlyRoute
<1>. USE <1>1 DEF Down, Return, Stay
<1>2. CASE Abort(t, reset)
  BY <1>2 DEF Abort, AbortFires, NonAbortable
<1>3. CASE Idle(reset) \/ Arming(t, reset) \/ Takeoff(t, reset) \/ Hover(reset)
  BY <1>3 DEF Idle, Arming, Takeoff, Hover
<1>4. CASE Waypoint(t, reset) \/ Dwell(reset) \/ AbortToRth(reset)
  BY <1>4 DEF Waypoint, Dwell, AdvanceFromDwell, AbortToRth
<1>5. CASE Rth(t, reset) \/ Landing(t, reset) \/ Done(reset)
  BY <1>5 DEF Rth, Landing, Done
<1>. QED  BY <1>2, <1>3, <1>4, <1>5 DEF Tick, Dispatch

LEMMA FlownTick ==
  ASSUME FlownInv, FlightTick
  PROVE  FlownInv'
<1>1. /\ UNCHANGED <<status, armed, mode>>
      /\ wire' = sent'
  BY DEF FlightTick, OnTick, GatedTick, LiveTick, sensorVars
<1>2. CASE GatedTick
  BY <1>1, <1>2 DEF GatedTick, FlownInv, Flying
<1>3. CASE LiveTick
  <2>1. PICK t, reset : /\ Tick(t, reset)
                        /\ t.armed = status.armed /\ t.offboard = status.offboard
    BY <1>3 DEF LiveTick, BuildTelemetry
  <2>2. "LAND" \in sent' => state' \in Down
    BY <1>3, <2>1, LandTick DEF LiveTick, Issue, VehicleCommands
  <2>3. state \in Down => state' \in Down
    BY <2>1, LandTick
  <2>4. state' \in InFlight => Flying
    BY <2>1, TickMoves DEF FlownInv, Flying, Down
  <2>. QED  BY <1>1, <2>2, <2>3, <2>4 DEF FlownInv, Flying
<1>. QED  BY <1>2, <1>3 DEF FlightTick, OnTick

LEMMA FlownStep == FlightTypeOK /\ FlownInv /\ [FlightNext]_flightVars => FlownInv'
<1>1. SUFFICES ASSUME FlightTypeOK, FlownInv, [FlightNext]_flightVars PROVE FlownInv'
  OBVIOUS
<1>2. CASE SensePos \/ SenseBattery \/ OperatorAbort \/ FlightElapse \/ UNCHANGED flightVars
  <2>1. UNCHANGED <<state, status, armed, mode, wire>>
    BY <1>2 DEF SensePos, SenseBattery, OperatorAbort, FlightElapse, OnPos, OnBattery, OnAbort,
       Elapse, MachineElapse, flightVars, nodeVars, machineVars, sensorVars, vehicleVars
  <2>. QED  BY <1>1, <2>1 DEF FlownInv, Flying
<1>3. CASE SenseStatus
  <2>1. /\ UNCHANGED <<state, armed, mode, wire>>
        /\ status' = [armed |-> armed, offboard |-> mode = "offboard"]
    BY <1>3 DEF SenseStatus, OnStatus, machineVars, vehicleVars
  <2>. QED  BY <1>1, <2>1 DEF FlownInv, Flying
<1>4. CASE VehicleStep
  <2>1. UNCHANGED <<state, status>>
    BY <1>4, VehicleFrame DEF nodeVars, machineVars, sensorVars
  <2>2. CASE AcceptMode \/ AcceptLand
    BY <1>1, <2>1, <2>2 DEF AcceptMode, AcceptLand, FlownInv, Flying, Down, InFlight
  <2>3. CASE AcceptArm
    <3>1. armed => armed'
      BY <1>1, <2>3 DEF AcceptArm, FlightTypeOK
    <3>. QED  BY <1>1, <2>1, <2>3, <3>1 DEF AcceptArm, FlownInv, Flying
  <2>4. CASE Touchdown
    BY <1>1, <2>1, <2>4 DEF Touchdown, FlownInv, Flying, Down, InFlight
  <2>5. CASE AcceptSetpoint \/ Fly \/ Converge \/ LinkRestored \/ Outage \/ Gust
    BY <1>1, <2>1, <2>5 DEF AcceptSetpoint, Fly, Converge, LinkRestored, Outage, Gust, FlownInv, Flying
  <2>. QED  BY <1>4, <2>2, <2>3, <2>4, <2>5 DEF VehicleStep
<1>. QED  BY <1>1, <1>2, <1>3, <1>4, FlownTick DEF FlightNext, VehicleStep

\* The route is flown, never merely counted: in TAKEOFF, HOVER, WAYPOINT and
\* DWELL the motors run and PX4 follows the setpoints, so that no waypoint is
\* dwelled at, and no capture triggered, by a vehicle on the ground.  (PX4 as
\* modelled leaves offboard only to land; a pilot's takeover is not modelled.)
THEOREM RouteIsFlown == FlightSpec => [](state \in InFlight => Flying)
<1>1. FlightInit => FlownInv
  BY DEF FlightInit, NodeInit, MachineInit, FlownInv, InFlight
<1>2. FlownInv => (state \in InFlight => Flying)
  BY DEF FlownInv
<1>. QED  BY <1>1, <1>2, FlownStep, FlightTypeCorrect, PTL DEF FlightSpec

-----------------------------------------------------------------------------
(* An abort, seen from the vehicle.                                         *)

\* What the link carries, what the node repeats, and what PX4 makes of it.
HomewardInFlight ==
  abortReason # "NONE" => stream \in {HomePoint, NoPoint} /\ wire \subseteq {"LAND"}

HomeRepeated ==
  [][FlightTick /\ LiveTick /\ abortReason' # "NONE" /\ state' \notin Down
       => stream' = HomePoint]_flightVars

OnlyHomeAccepted == [][abortReason # "NONE" => aim' \in {aim, HomePoint}]_flightVars

HomeInv == /\ AbortIsFinal
           /\ wire \subseteq sent
           /\ stream \in {cmd.setpoint, NoPoint}

LEMMA HomeStep == FlightTypeOK /\ HomeInv /\ [FlightNext]_flightVars => HomeInv'
<1>1. SUFFICES ASSUME FlightTypeOK, HomeInv, [FlightNext]_flightVars PROVE HomeInv'
  OBVIOUS
<1>2. AbortIsFinal'
  BY <1>1, FlightIsAny, AbortStep DEF HomeInv
<1>3. CASE FlightTick
  BY <1>2, <1>3 DEF FlightTick, HomeInv
<1>4. CASE \/ SensePos \/ SenseStatus \/ SenseBattery \/ OperatorAbort \/ FlightElapse
           \/ UNCHANGED flightVars
  <2>1. UNCHANGED <<cmd, sent, stream, wire>>
    BY <1>4 DEF SensePos, SenseStatus, SenseBattery, OperatorAbort, FlightElapse, OnPos,
       OnStatus, OnBattery, OnAbort, Elapse, MachineElapse, flightVars, nodeVars, machineVars,
       outputVars, vehicleVars
  <2>. QED  BY <1>1, <1>2, <2>1 DEF HomeInv
<1>5. CASE VehicleStep
  <2>1. UNCHANGED <<cmd, sent>>
    BY <1>5, VehicleFrame DEF nodeVars, machineVars, outputVars
  <2>2. stream' \in {stream, NoPoint} /\ wire' \subseteq wire
    BY <1>5 DEF VehicleStep, AcceptSetpoint, AcceptMode, AcceptArm, AcceptLand, Fly, Touchdown,
       Converge, LinkRestored, Outage, Gust
  <2>. QED  BY <1>1, <1>2, <2>1, <2>2 DEF HomeInv
<1>. QED  BY <1>1, <1>3, <1>4, <1>5 DEF FlightNext, VehicleStep

LEMMA HomeInvariant == FlightSpec => []HomeInv
<1>1. FlightInit => HomeInv
  BY CommandFields DEF FlightInit, NodeInit, MachineInit, HomeInv, AbortIsFinal
<1>. QED  BY <1>1, HomeStep, FlightTypeCorrect, PTL DEF FlightSpec

\* A tick on the way home publishes home: the abort itself, the surfaced ABORT
\* and every tick of the return.
LEMMA HomeTick ==
  ASSUME AbortIsFinal, NEW t, NEW reset, Tick(t, reset), abortReason' # "NONE", state' \notin Down
  PROVE  cmd'.setpoint = HomePoint
<1>. USE CommandFields DEF Return, Stay
<1>1. CASE Abort(t, reset)
  BY <1>1 DEF Abort
<1>2. CASE Dispatch(t, reset) /\ UNCHANGED abortReason
  <2>1. state \in NonAbortable
    BY <1>2 DEF AbortIsFinal
  <2>2. Rth(t, reset) \/ AbortToRth(reset) \/ Landing(t, reset) \/ Done(reset)
    BY <1>2, <2>1 DEF Dispatch, Idle, Arming, Takeoff, Hover, Waypoint, Dwell, NonAbortable
  <2>. QED  BY <2>2 DEF Rth, AbortToRth, Landing, Done, Down
<1>. QED  BY <1>1, <1>2 DEF Tick

\* After an abort only home and the command to land can still reach PX4, and
\* every live tick publishes home again until the landing: a setpoint that the
\* link lost leaves the vehicle on its old course for a tick, never on a new
\* one, and once a single one got through it flies home and nowhere else.
THEOREM AbortedFlightGoesHome ==
  FlightSpec => []HomewardInFlight /\ HomeRepeated /\ OnlyHomeAccepted
<1>1. HomeInv => HomewardInFlight
  BY DEF HomeInv, AbortIsFinal, HomewardInFlight
<1>2. HomeInv /\ [FlightNext]_flightVars
        => [FlightTick /\ LiveTick /\ abortReason' # "NONE" /\ state' \notin Down
              => stream' = HomePoint]_flightVars
  <2>1. SUFFICES ASSUME HomeInv, FlightTick, LiveTick, abortReason' # "NONE", state' \notin Down
                 PROVE  stream' = HomePoint
    OBVIOUS
  <2>2. cmd'.setpoint = HomePoint
    BY <2>1, HomeTick DEF LiveTick, HomeInv
  <2>. QED  BY <2>1, <2>2 DEF FlightTick
<1>3. FlightTypeOK /\ HomeInv /\ [FlightNext]_flightVars
        => [abortReason # "NONE" => aim' \in {aim, HomePoint}]_flightVars
  <2>1. SUFFICES ASSUME HomeInv, FlightNext, abortReason # "NONE" PROVE aim' \in {aim, HomePoint}
    OBVIOUS
  <2>2. CASE AcceptSetpoint
    BY <1>1, <2>1, <2>2 DEF AcceptSetpoint, HomewardInFlight
  <2>3. CASE FlightTick
    BY <2>3 DEF FlightTick
  <2>4. CASE SensePos \/ SenseStatus \/ SenseBattery \/ OperatorAbort \/ FlightElapse
    BY <2>4 DEF SensePos, SenseStatus, SenseBattery, OperatorAbort, FlightElapse, vehicleVars
  <2>5. CASE AcceptMode \/ AcceptArm \/ AcceptLand \/ Fly \/ Touchdown
    BY <2>5 DEF AcceptMode, AcceptArm, AcceptLand, Fly, Touchdown
  <2>6. CASE Converge \/ LinkRestored \/ Outage \/ Gust
    BY <2>6 DEF Converge, LinkRestored, Outage, Gust
  <2>. QED  BY <2>1, <2>2, <2>3, <2>4, <2>5, <2>6 DEF FlightNext
<1>4. FlightSpec => []HomewardInFlight
  BY <1>1, HomeInvariant, PTL
<1>5. FlightSpec => HomeRepeated
  BY <1>2, HomeInvariant, PTL DEF FlightSpec, HomeRepeated
<1>6. FlightSpec => OnlyHomeAccepted
  BY <1>3, HomeInvariant, FlightTypeCorrect, PTL DEF FlightSpec, OnlyHomeAccepted
<1>. QED  BY <1>4, <1>5, <1>6
=============================================================================
