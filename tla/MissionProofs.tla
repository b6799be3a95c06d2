---------------------------- MODULE MissionProofs ----------------------------
(***************************************************************************)
(* Theorems about the mission node for every number of waypoints, every    *)
(* duration, every timeout and every set of messages.                      *)
(*                                                                         *)
(* Each invariant is proved the same way: it holds initially, one lemma    *)
(* shows that tick() preserves the machine's part of it, and the actions   *)
(* of the node are then taken one by one.                                  *)
(***************************************************************************)
EXTENDS MissionHistory, TLAPS

USE MissionConfigAssumption, NodeAssumption

\* While the machine is on the route its index names a waypoint.
RouteIndexOK == state \in {"WAYPOINT", "DWELL"} => waypointIndex \in Waypoints

\* The types of the node, and with its history.
NodeInv == NodeTypeOK /\ RouteIndexOK
TypeInv == TypeOK /\ RouteIndexOK

-----------------------------------------------------------------------------
(* The operators the machine is built from.                                 *)

\* The commands a handler can return are Commands.
LEMMA CommandTypes ==
  /\ NoCommand \in Command
  /\ LandNow \in Command
  /\ \A p \in Targets :
       /\ FlyTo(p) \in Command
       /\ [FlyTo(p) EXCEPT !.arm = TRUE] \in Command
       /\ [FlyTo(p) EXCEPT !.arm = TRUE, !.offboard = TRUE] \in Command
  /\ \A i \in Waypoints : FlyRoute(i) \in Command
BY DEF NoCommand, LandNow, FlyTo, FlyRoute, Command, Targets, NoPoint, HomePoint,
       TakeoffPoint, Waypoints

\* An age stays within its bound as time passes, and never becomes None.
LEMMA OlderType ==
  ASSUME NEW limit \in Nat, NEW age \in Ages(limit)
  PROVE  /\ Older(age, limit) \in Ages(limit)
         /\ age \in 0 .. limit => Older(age, limit) \in 0 .. limit
         /\ (Older(age, limit) = Never) <=> (age = Never)
BY DEF Ages, Older, Never

\* The entry clock a handler sees and the hold clock it leaves are ages.
LEMMA ClockTypes ==
  ASSUME MachineTypeOK, NEW reset \in BOOLEAN, NEW s \in States
  PROVE  /\ EntryClock(s, reset) \in 0 .. EntryLimit
         /\ InsideClock(s, reset) \in Ages(HoldTime)
         /\ \A t \in Telemetry, p \in Targets : HoldClock(t, p, reset) \in Ages(HoldTime)
BY DEF MachineTypeOK, EntryClock, InsideClock, HoldClock, Ages, Never, States

\* An abort reason is one of the enumeration's.
LEMMA AbortReasonType == \A t \in Telemetry : AbortReasonOf(t) \in AbortReasons
<1>1. SUFFICES ASSUME NEW t \in Telemetry PROVE AbortReasonOf(t) \in AbortReasons
  OBVIOUS
<1>2. t.abort \in BOOLEAN /\ t.takeover \in BOOLEAN /\ t.timedOut \in BOOLEAN
      /\ BatteryLow(t.battery) \in BOOLEAN
  BY DEF Telemetry, BatteryLow
<1>. QED  BY <1>2 DEF AbortReasonOf, AbortReasons

\* What the node tells the machine is a Telemetry record.
LEMMA BuildTelemetryType == NodeTypeOK => BuildTelemetry \in Telemetry
BY DEF NodeTypeOK, BuildTelemetry, Telemetry, FreshBattery, PosMsg, StatusMsg,
       BatteryLevels

-----------------------------------------------------------------------------
(* Type correctness.                                                        *)

\* tick() keeps the machine's types and a valid route index, and a command
\* returned with DWELL carries a waypoint.
LEMMA TickType ==
  ASSUME MachineTypeOK, RouteIndexOK, NEW t \in Telemetry, NEW reset \in BOOLEAN,
         Tick(t, reset)
  PROVE  /\ MachineTypeOK' /\ RouteIndexOK'
         /\ state' = "DWELL" => cmd'.waypoint \in Waypoints
<1>. DEFINE Goal == /\ MachineTypeOK' /\ RouteIndexOK'
                    /\ state' = "DWELL" => cmd'.waypoint \in Waypoints
<1>1. /\ TakeoffPoint \in Targets /\ HomePoint \in Targets
      /\ \A i \in Waypoints : i \in Targets /\ FlyRoute(i).waypoint = i
      /\ \A i \in Waypoints : i \in 0 .. NumWaypoints
  BY DEF Targets, FlyRoute, NoCommand, Waypoints
<1>0. /\ NumWaypoints > 0 => 0 \in Waypoints
      /\ \A i \in Waypoints : i + 1 < NumWaypoints => i + 1 \in Waypoints
  BY DEF Waypoints
<1>2. \A s \in States : EnterIfNew(s, reset) =>
        lastState' \in States /\ sinceEntry' \in 0 .. EntryLimit /\ sinceInside' \in Ages(HoldTime)
  BY ClockTypes DEF EnterIfNew
<1>3. \A p \in Targets : EnterAndHold(t, p, reset) =>
        lastState' \in States /\ sinceEntry' \in 0 .. EntryLimit /\ sinceInside' \in Ages(HoldTime)
  BY ClockTypes DEF EnterAndHold, MachineTypeOK
<1>. USE DEF Return, Stay
<1>4. CASE Abort(t, reset)
  BY <1>1, <1>2, <1>4, CommandTypes, AbortReasonType
     DEF Abort, MachineTypeOK, RouteIndexOK, States
<1>5. ASSUME Dispatch(t, reset), UNCHANGED abortReason PROVE Goal
  <2>. USE CommandTypes DEF MachineTypeOK, RouteIndexOK, States
  <2>1. CASE Idle(reset)
    BY <1>1, <1>2, <1>5, <2>1 DEF Idle
  <2>2. CASE Arming(t, reset)
    BY <1>1, <1>2, <1>5, <2>2 DEF Arming
  <2>3. CASE Takeoff(t, reset)
    BY <1>1, <1>3, <1>5, <2>3 DEF Takeoff
  <2>4. CASE Hover(reset)
    <3>1. \/ /\ waypointIndex' \in Waypoints
             /\ state' = "WAYPOINT" /\ cmd' = FlyRoute(waypointIndex')
          \/ /\ waypointIndex' = waypointIndex
             /\ \/ state' = "RTH" /\ cmd' = FlyTo(HomePoint)
                \/ state' = "HOVER" /\ cmd' = FlyTo(TakeoffPoint)
      BY <1>0, <2>4 DEF Hover
    <3>2. EnterIfNew("HOVER", reset)
      BY <2>4 DEF Hover
    <3>. QED  BY <1>1, <1>2, <1>5, <3>1, <3>2
  <2>5. CASE Waypoint(t, reset)
    BY <1>1, <1>3, <1>5, <2>5 DEF Waypoint
  <2>6. CASE Dwell(reset)
    <3>1. \/ /\ waypointIndex' \in Waypoints
             /\ state' = "WAYPOINT" /\ cmd' = FlyRoute(waypointIndex')
          \/ /\ waypointIndex' = waypointIndex
             /\ \/ state' = "RTH" /\ cmd' = FlyTo(HomePoint)
                \/ state' = "DWELL" /\ cmd' = FlyRoute(waypointIndex)
      BY <1>0, <2>6 DEF Dwell, AdvanceFromDwell
    <3>2. state = "DWELL" /\ EnterIfNew("DWELL", reset)
      BY <2>6 DEF Dwell
    <3>. QED  BY <1>1, <1>2, <1>5, <3>1, <3>2
  <2>7. CASE Rth(t, reset)
    BY <1>1, <1>3, <1>5, <2>7 DEF Rth
  <2>8. CASE AbortToRth(reset)
    BY <1>1, <1>2, <1>5, <2>8 DEF AbortToRth
  <2>9. CASE Landing(t, reset)
    BY <1>1, <1>2, <1>5, <2>9 DEF Landing
  <2>10. CASE Done(reset)
    BY <1>1, <1>2, <1>5, <2>10 DEF Done
  <2>. QED  BY <1>5, <2>1, <2>2, <2>3, <2>4, <2>5, <2>6, <2>7, <2>8, <2>9, <2>10 DEF Dispatch
<1>. QED  BY <1>4, <1>5 DEF Tick

\* The commands of a tick, and the trigger, are of their types.
LEMMA OutputTypes ==
  ASSUME NodeInv, cmd' \in Command, Issue, PublishDwellEvent,
         state' = "DWELL" => cmd'.waypoint \in Waypoints
  PROVE  /\ sent' \subseteq VehicleCommandKinds
         /\ offboardRequested' \in BOOLEAN
         /\ dwellClock' \in Ages(DwellSettle)
         /\ dwellFired' \in BOOLEAN
         /\ trigger' \in Waypoints \cup {NoTrigger}
<1>1. sent' \subseteq VehicleCommandKinds /\ offboardRequested' \in BOOLEAN
  BY DEF Issue, VehicleCommands
<1>2. dwellClock' \in Ages(DwellSettle)
  BY DEF PublishDwellEvent, DwellClockNow, Ages, Never, NodeInv, NodeTypeOK
<1>3. dwellFired' \in BOOLEAN /\ trigger' \in Waypoints \cup {NoTrigger}
  BY DEF PublishDwellEvent, NodeInv, NodeTypeOK
<1>. QED  BY <1>1, <1>2, <1>3

\* None is an age, and so is the age of what has just been stamped.
LEMMA AgeLimits ==
  \A limit \in Nat : Never \in Ages(limit) /\ 0 \in Ages(limit) /\ 0 \in 0 .. limit
BY DEF Ages, Never

LEMMA NodeInitial == NodeInit => NodeInv
<1>1. SUFFICES ASSUME NodeInit PROVE NodeInv
  OBVIOUS
<1>2. MachineTypeOK /\ RouteIndexOK
  <2>1. NoCommand \in Command /\ Never \in Ages(HoldTime) /\ 0 \in 0 .. EntryLimit
    BY CommandTypes, AgeLimits
  <2>. QED
    BY <1>1, <2>1 DEF NodeInit, MachineInit, MachineTypeOK, RouteIndexOK, States, AbortReasons
<1>3. /\ Never \in Ages(TelemetryTimeout + 1) /\ Never \in Ages(BatteryTimeout + 1)
      /\ Never \in Ages(DwellSettle) /\ 0 \in 0 .. WarmupTicks /\ 0 \in 0 .. MaxTickGap
  BY AgeLimits
<1>. QED
  BY <1>1, <1>2, <1>3 DEF NodeInit, NodeInv, NodeTypeOK, PosMsg, StatusMsg, BatteryLevels

\* The node told anything at all that is a message.
AnyNext ==
  \/ OnTick
  \/ Elapse
  \/ \E msg \in PosMsg : OnPos(msg)
  \/ \E msg \in StatusMsg : OnStatus(msg)
  \/ \E msg \in BatteryMsg : OnBattery(msg)
  \/ \E value \in BOOLEAN : OnAbort(value)

LEMMA AnyStep == NodeInv /\ [AnyNext]_nodeVars => NodeInv'
<1>1. SUFFICES ASSUME NodeInv, [AnyNext]_nodeVars PROVE NodeInv'
  OBVIOUS
<1>. USE DEF NodeInv, NodeTypeOK
<1>2. CASE LiveTick
  <2>1. PICK t \in Telemetry, reset \in BOOLEAN : Tick(t, reset)
    BY <1>1, <1>2, BuildTelemetryType DEF LiveTick, ResetTimingOnResume
  <2>2. /\ MachineTypeOK' /\ RouteIndexOK'
        /\ state' = "DWELL" => cmd'.waypoint \in Waypoints
    BY <1>1, <2>1, TickType
  <2>3. /\ sent' \subseteq VehicleCommandKinds
        /\ offboardRequested' \in BOOLEAN
        /\ dwellClock' \in Ages(DwellSettle)
        /\ dwellFired' \in BOOLEAN
        /\ trigger' \in Waypoints \cup {NoTrigger}
    BY <1>1, <1>2, <2>2, OutputTypes DEF LiveTick, MachineTypeOK
  <2>4. paused' \in BOOLEAN /\ tickAge' \in 0 .. MaxTickGap
    BY <1>1, <1>2, AgeLimits DEF LiveTick
  <2>5. warmup' \in 0 .. WarmupTicks
    <3>1. warmup' = IF warmup < WarmupTicks THEN warmup + 1 ELSE warmup
      BY <1>2 DEF LiveTick
    <3>. QED  BY <1>1, <3>1
  <2>. QED
    BY <1>1, <1>2, <2>2, <2>3, <2>4, <2>5 DEF LiveTick, sensorVars
<1>3. CASE GatedTick
  <2>1. NoCommand \in Command
    BY CommandTypes
  <2>. QED
    BY <1>1, <1>3, <2>1 DEF GatedTick, sensorVars, MachineTypeOK, RouteIndexOK
<1>4. CASE Elapse
  <2>1. /\ sinceEntry' \in 0 .. EntryLimit /\ sinceInside' \in Ages(HoldTime)
        /\ posAge' \in Ages(TelemetryTimeout + 1) /\ statusAge' \in Ages(TelemetryTimeout + 1)
        /\ batteryAge' \in Ages(BatteryTimeout + 1) /\ dwellClock' \in Ages(DwellSettle)
    <3>1. sinceEntry \in Ages(EntryLimit)
      BY <1>1 DEF MachineTypeOK, Ages, Never
    <3>. QED
      BY <1>1, <1>4, <3>1, OlderType DEF Elapse, MachineElapse, MachineTypeOK
  <2>2. tickAge' \in 0 .. MaxTickGap
    BY <1>1, <1>4 DEF Elapse
  <2>. QED
    BY <1>1, <1>4, <2>1, <2>2 DEF Elapse, MachineElapse, MachineTypeOK, RouteIndexOK, outputVars
<1>5. ASSUME NEW msg \in PosMsg, OnPos(msg) PROVE NodeInv'
  <2>1. posAge' \in Ages(TelemetryTimeout + 1)
    BY <1>5, AgeLimits DEF OnPos
  <2>. QED
    BY <1>1, <1>5, <2>1 DEF OnPos, machineVars, controlVars, outputVars, MachineTypeOK, RouteIndexOK
<1>6. ASSUME NEW msg \in StatusMsg, OnStatus(msg) PROVE NodeInv'
  <2>1. statusAge' \in Ages(TelemetryTimeout + 1)
    BY <1>6, AgeLimits DEF OnStatus
  <2>. QED
    BY <1>1, <1>6, <2>1 DEF OnStatus, machineVars, controlVars, outputVars, MachineTypeOK,
       RouteIndexOK
<1>7. ASSUME NEW msg \in BatteryMsg, OnBattery(msg) PROVE NodeInv'
  <2>1. batteryAge' \in Ages(BatteryTimeout + 1) /\ battery' \in BatteryLevels
    BY <1>7, AgeLimits DEF OnBattery, BatteryReading, BatteryMsg, BatteryLevels
  <2>. QED
    BY <1>1, <1>7, <2>1 DEF OnBattery, machineVars, controlVars, outputVars, MachineTypeOK,
       RouteIndexOK
<1>8. ASSUME NEW value \in BOOLEAN, OnAbort(value) PROVE NodeInv'
  BY <1>1, <1>8 DEF OnAbort, machineVars, controlVars, outputVars, MachineTypeOK, RouteIndexOK
<1>9. CASE UNCHANGED nodeVars
  BY <1>1, <1>9 DEF nodeVars, machineVars, sensorVars, controlVars, outputVars,
     MachineTypeOK, RouteIndexOK
<1>. QED  BY <1>1, <1>2, <1>3, <1>4, <1>5, <1>6, <1>7, <1>8, <1>9 DEF AnyNext, OnTick

LEMMA NodeStep == NodeInv /\ [NodeNext]_nodeVars => NodeInv'
BY AnyStep DEF NodeNext, Receive, AnyNext

\* The node, whatever it is told and whenever, keeps every variable in its type,
\* and while the machine is on the route its index names a waypoint.
THEOREM NodeTypeCorrect == NodeSpec => [](NodeTypeOK /\ RouteIndexOK)
<1>1. NodeSpec => []NodeInv
  BY NodeInitial, NodeStep, PTL DEF NodeSpec
<1>. QED  BY <1>1, PTL DEF NodeInv

\* What the history variables become on a tick.
LEMMA RecordTypes ==
  ASSUME TypeInv, trigger' \in Waypoints \cup {NoTrigger},
         RecordLiveTick \/ RecordGatedTick
  PROVE  /\ watched' \in Ages(WatchLimit) /\ settled' \in Ages(HoldTime)
         /\ triggers' \in [Waypoints -> Nat]
         /\ setpoints' \in 0 .. WarmupTicks
         /\ rawBattery' \in BatteryMsg
<1>. USE DEF TypeInv, TypeOK, RecordLiveTick, RecordGatedTick
<1>1. watched' \in Ages(WatchLimit) /\ settled' \in Ages(HoldTime)
  BY DEF RunClock, Ages, Never, WatchLimit
<1>2. triggers' \in [Waypoints -> Nat]
  OBVIOUS
<1>3. setpoints' \in 0 .. WarmupTicks
  OBVIOUS
<1>. QED  BY <1>1, <1>2, <1>3

\* The history variables only watch: every step of the node with its history is
\* a step of the node.
LEMMA HistoryWatches == [Next]_vars => [NodeNext]_nodeVars
BY DEF Next, vars, HLiveTick, HGatedTick, HElapse, HOnPos, HOnStatus, HOnAbort, HOnBattery,
   NodeNext, OnTick, Receive

LEMMA TypeInitial == Init => TypeInv
<1>1. SUFFICES ASSUME Init PROVE TypeInv
  OBVIOUS
<1>2. NodeInv
  BY <1>1, NodeInitial DEF Init
<1>3. watched \in Ages(WatchLimit) /\ settled \in Ages(HoldTime) /\ setpoints \in 0 .. WarmupTicks
  BY <1>1, AgeLimits DEF Init, WatchLimit
<1>4. triggers \in [Waypoints -> Nat] /\ modeAsked \in BOOLEAN /\ rawBattery \in BatteryMsg
  BY <1>1 DEF Init, BatteryMsg, BatteryLevels
<1>. QED  BY <1>2, <1>3, <1>4 DEF TypeInv, TypeOK, NodeInv

LEMMA TypeStep == TypeInv /\ [Next]_vars => TypeInv'
<1>1. SUFFICES ASSUME TypeInv, [Next]_vars PROVE TypeInv'
  OBVIOUS
<1>2. NodeInv'
  BY <1>1, HistoryWatches, NodeStep DEF TypeInv, TypeOK, NodeInv
<1>3. /\ watched' \in Ages(WatchLimit) /\ settled' \in Ages(HoldTime)
      /\ triggers' \in [Waypoints -> Nat]
      /\ setpoints' \in 0 .. WarmupTicks
      /\ modeAsked' \in BOOLEAN
      /\ rawBattery' \in BatteryMsg
  <2>1. CASE HLiveTick \/ HGatedTick
    <3>1. trigger' \in Waypoints \cup {NoTrigger}
      BY <1>2 DEF NodeInv, NodeTypeOK
    <3>2. modeAsked' \in BOOLEAN
      BY <1>1, <2>1 DEF HLiveTick, HGatedTick, RecordLiveTick, RecordGatedTick, TypeInv, TypeOK
    <3>. QED  BY <1>1, <2>1, <3>1, <3>2, RecordTypes DEF HLiveTick, HGatedTick
  <2>2. CASE HElapse
    BY <1>1, <2>2, OlderType DEF HElapse, RecordElapse, WatchLimit, TypeInv, TypeOK
  <2>3. CASE HOnPos \/ HOnStatus \/ HOnAbort \/ HOnBattery \/ UNCHANGED vars
    BY <1>1, <2>3 DEF HOnPos, HOnStatus, HOnAbort, HOnBattery, vars, historyVars, TypeInv, TypeOK
  <2>. QED  BY <1>1, <2>1, <2>2, <2>3 DEF Next
<1>. QED  BY <1>2, <1>3 DEF TypeInv, TypeOK, NodeInv

\* Every variable of the node and its history keeps its type, and while the
\* machine is on the route its index names a waypoint.
THEOREM TypeCorrect == Spec => [](TypeOK /\ RouteIndexOK)
<1>1. Spec => []TypeInv
  BY TypeInitial, TypeStep, PTL DEF Spec
<1>. QED  BY <1>1, PTL DEF TypeInv

-----------------------------------------------------------------------------
(* A latched abort is final.                                                *)

\* The command fields that the machine's own commands set.
LEMMA CommandFields ==
  /\ ~NoCommand.arm /\ ~NoCommand.offboard /\ NoCommand.setpoint = NoPoint
  /\ ~LandNow.arm /\ ~LandNow.offboard /\ LandNow.setpoint = NoPoint
  /\ \A p : /\ ~FlyTo(p).arm /\ ~FlyTo(p).offboard /\ ~FlyTo(p).land
           /\ FlyTo(p).setpoint = p
BY DEF NoCommand, LandNow, FlyTo

\* A tick that leaves an abort on record ends on the way home, with a command
\* that neither arms nor changes mode.
LEMMA TickAborted ==
  ASSUME AbortIsFinal, NEW t, NEW reset, Tick(t, reset), abortReason' # "NONE"
  PROVE  /\ state' \in NonAbortable
         /\ cmd'.setpoint \in {HomePoint, NoPoint}
         /\ ~cmd'.arm /\ ~cmd'.offboard
<1>. USE CommandFields DEF Return, Stay, NonAbortable
<1>1. CASE Abort(t, reset)
  BY <1>1 DEF Abort
<1>2. CASE Dispatch(t, reset) /\ UNCHANGED abortReason
  <2>1. state \in NonAbortable
    BY <1>2 DEF AbortIsFinal
  <2>2. Rth(t, reset) \/ AbortToRth(reset) \/ Landing(t, reset) \/ Done(reset)
    BY <1>2, <2>1 DEF Dispatch, Idle, Arming, Takeoff, Hover, Waypoint, Dwell
  <2>. QED  BY <2>2 DEF Rth, AbortToRth, Landing, Done
<1>. QED  BY <1>1, <1>2 DEF Tick

\* A latched abort survives every action of the node.
LEMMA AbortStep == AbortIsFinal /\ [AnyNext]_nodeVars => AbortIsFinal'
<1>1. SUFFICES ASSUME AbortIsFinal, [AnyNext]_nodeVars, abortReason' # "NONE"
               PROVE  /\ state' \in NonAbortable
                      /\ cmd'.setpoint \in {HomePoint, NoPoint}
                      /\ sent' \subseteq {"LAND"}
                      /\ trigger' = NoTrigger
  BY DEF AbortIsFinal
<1>2. CASE LiveTick
  <2>1. /\ state' \in NonAbortable
        /\ cmd'.setpoint \in {HomePoint, NoPoint}
        /\ ~cmd'.arm /\ ~cmd'.offboard
    BY <1>1, <1>2, TickAborted DEF LiveTick
  <2>2. sent' \subseteq {"LAND"}
    BY <1>2, <2>1 DEF LiveTick, Issue, VehicleCommands
  <2>3. trigger' = NoTrigger
    BY <1>2, <2>1 DEF LiveTick, PublishDwellEvent, NonAbortable
  <2>. QED  BY <2>1, <2>2, <2>3
<1>3. CASE GatedTick
  BY <1>1, <1>3, CommandFields DEF GatedTick, AbortIsFinal
<1>4. CASE Elapse
  BY <1>1, <1>4 DEF Elapse, MachineElapse, outputVars, AbortIsFinal
<1>5. CASE \/ \E msg \in PosMsg : OnPos(msg)
           \/ \E msg \in StatusMsg : OnStatus(msg)
           \/ \E msg \in BatteryMsg : OnBattery(msg)
           \/ \E value \in BOOLEAN : OnAbort(value)
  BY <1>1, <1>5 DEF OnPos, OnStatus, OnAbort, OnBattery, machineVars, outputVars, AbortIsFinal
<1>6. CASE UNCHANGED nodeVars
  BY <1>1, <1>6 DEF nodeVars, machineVars, outputVars, AbortIsFinal
<1>. QED  BY <1>1, <1>2, <1>3, <1>4, <1>5, <1>6 DEF AnyNext, OnTick

LEMMA HistoryAbortStep == AbortIsFinal /\ [Next]_vars => AbortIsFinal'
BY AbortStep, HistoryWatches DEF NodeNext, Receive, AnyNext

\* Once latched, an abort stays in force for the rest of the mission, whatever
\* the callbacks deliver and however often ticks are gated.
THEOREM AbortFinal == Spec => []AbortIsFinal
<1>1. Init => AbortIsFinal
  BY DEF Init, NodeInit, MachineInit, AbortIsFinal
<1>. QED  BY <1>1, HistoryAbortStep, PTL DEF Spec

-----------------------------------------------------------------------------
(* Time windows that were really observed, the arming handshake, and aborts *)
(* that have a cause.  Each compares a clock or latch of the code with what *)
(* the history recorded independently of it.                                *)

HoldStates == {"TAKEOFF", "WAYPOINT", "RTH"}

\* The machine has been in its state since its previous tick, on live ticks.
Settling == lastState = state /\ ~paused

\* The entry clock never shows more than the unbroken run of live ticks.
WatchCovers ==
  Settling /\ state # "ABORT" => watched # Never /\ sinceEntry <= watched

\* The hold clock never shows more than the run of ticks in tolerance.
SettleCovers ==
  Settling /\ state \in HoldStates /\ sinceInside # Never
    => settled # Never /\ sinceInside <= settled

\* The latch and the warm-up counter tell what was really published.
HandshakeCounts ==
  /\ offboardRequested = modeAsked
  /\ state \in {"IDLE", "ARMING"} => setpoints = warmup

\* A low reading in the cache is the newest one received.
BatteryTraced ==
  battery = "low" => /\ rawBattery = [level |-> "low", connected |-> TRUE]
                     /\ batteryAge # Never

WindowInv == WatchCovers /\ SettleCovers /\ HandshakeCounts /\ BatteryTraced

-----------------------------------------------------------------------------
(* What a tick does to the clocks.                                          *)

\* The tick of a handler, as opposed to an abort, is an entry or a continuation
\* of its state.
LEMMA TickClocks ==
  ASSUME NEW t, NEW reset, Dispatch(t, reset)
  PROVE  /\ lastState' = state
         /\ sinceEntry' = EntryClock(state, reset)
         /\ state \in HoldStates => sinceInside' = HoldClock(t, HoldTarget, reset)
BY DEF Dispatch, Idle, Arming, Takeoff, Hover, Waypoint, Dwell, Rth, AbortToRth, Landing,
       Done, EnterIfNew, EnterAndHold, HoldTarget, HoldStates, Return, Stay

\* The callbacks touch neither the machine nor the node's own bookkeeping.
LEMMA CallbackFrame ==
  HOnPos \/ HOnStatus \/ HOnAbort \/ HOnBattery
    => UNCHANGED <<machineVars, controlVars, outputVars, tickAge,
                   watched, settled, triggers, setpoints, modeAsked>>
BY DEF HOnPos, HOnStatus, HOnAbort, HOnBattery, OnPos, OnStatus, OnAbort, OnBattery,
       machineVars, controlVars, outputVars, historyVars

\* A clock that covers another one still does after one unit of time.
LEMMA OlderMonotone ==
  ASSUME NEW limit \in Nat, NEW a \in Ages(limit), NEW b \in Ages(limit),
         a # Never, b # Never, a <= b
  PROVE  Older(b, limit) # Never /\ Older(a, limit) <= Older(b, limit)
BY DEF Ages, Older, Never

\* A live tick hands the machine what the node has and resets after a pause.
LEMMA LiveTickParts ==
  ASSUME HLiveTick
  PROVE  /\ BuildTelemetry.inside = pos.inside
         /\ paused' = FALSE
         /\ \/ Abort(BuildTelemetry, paused)
            \/ Dispatch(BuildTelemetry, paused) /\ UNCHANGED abortReason
         /\ watched' = IF state' = state THEN RunClock(watched) ELSE Never
         /\ settled' = IF state' = state /\ HoldTarget \in pos.inside
                       THEN RunClock(settled) ELSE Never
BY DEF HLiveTick, LiveTick, RecordLiveTick, ResetTimingOnResume, Tick, BuildTelemetry
-----------------------------------------------------------------------------
(* The invariants are inductive.                                            *)

LEMMA WindowInitial == Init => WindowInv
BY DEF Init, NodeInit, MachineInit, WindowInv, WatchCovers, SettleCovers, HandshakeCounts,
       BatteryTraced, Settling, States, HoldStates

\* The run of live ticks covers the entry clock after every step.
LEMMA WatchStep == TypeInv /\ TypeInv' /\ WatchCovers /\ [Next]_vars => WatchCovers'
<1>1. SUFFICES ASSUME TypeInv, TypeInv', WatchCovers, [Next]_vars, Settling', state' # "ABORT"
               PROVE  watched' # Never /\ sinceEntry' <= watched'
  BY DEF WatchCovers
<1>. USE DEF Settling
<1>t. /\ sinceEntry \in 0 .. EntryLimit /\ watched \in Ages(EntryLimit)
      /\ sinceEntry' \in 0 .. EntryLimit /\ watched' \in Ages(EntryLimit)
  BY <1>1 DEF TypeInv, TypeOK, NodeTypeOK, MachineTypeOK, WatchLimit
<1>2. CASE HLiveTick
  <2>1. ~Abort(BuildTelemetry, paused)
    BY <1>1 DEF Abort, Return
  <2>2. Dispatch(BuildTelemetry, paused) /\ state' = state
    BY <1>1, <1>2, <2>1, LiveTickParts, TickClocks
  <2>3. sinceEntry' = EntryClock(state, paused) /\ watched' = RunClock(watched)
    BY <1>2, <2>2, TickClocks, LiveTickParts
  <2>4. CASE Continues(state, paused)
    BY <1>1, <1>t, <2>2, <2>3, <2>4 DEF WatchCovers, Continues, EntryClock, RunClock
  <2>5. CASE ~Continues(state, paused)
    BY <1>t, <2>3, <2>5 DEF EntryClock, RunClock, Ages, Never
  <2>. QED  BY <2>4, <2>5
<1>3. CASE HGatedTick
  BY <1>1, <1>3 DEF HGatedTick, GatedTick
<1>4. CASE HElapse
  <2>1. /\ watched # Never /\ sinceEntry <= watched
        /\ sinceEntry' = Older(sinceEntry, EntryLimit) /\ watched' = Older(watched, EntryLimit)
    BY <1>1, <1>4 DEF WatchCovers, HElapse, Elapse, MachineElapse, RecordElapse, WatchLimit
  <2>2. sinceEntry \in Ages(EntryLimit) /\ sinceEntry # Never
    BY <1>t DEF Ages, Never
  <2>. QED  BY <1>t, <2>1, <2>2, OlderMonotone
<1>5. CASE HOnPos \/ HOnStatus \/ HOnAbort \/ HOnBattery
  BY <1>1, <1>5, CallbackFrame DEF WatchCovers, machineVars, controlVars
<1>6. CASE UNCHANGED vars
  BY <1>1, <1>6 DEF vars, nodeVars, machineVars, controlVars, historyVars, WatchCovers
<1>. QED  BY <1>1, <1>2, <1>3, <1>4, <1>5, <1>6 DEF Next

\* The run of ticks in tolerance covers the hold clock after every step.
LEMMA SettleStep == TypeInv /\ TypeInv' /\ SettleCovers /\ [Next]_vars => SettleCovers'
<1>1. SUFFICES ASSUME TypeInv, TypeInv', SettleCovers, [Next]_vars, Settling',
                      state' \in HoldStates, sinceInside' # Never
               PROVE  settled' # Never /\ sinceInside' <= settled'
  BY DEF SettleCovers
<1>. USE DEF Settling
<1>t. sinceInside \in Ages(HoldTime) /\ settled \in Ages(HoldTime)
  BY <1>1 DEF TypeInv, TypeOK, NodeTypeOK, MachineTypeOK
<1>2. CASE HLiveTick
  <2>1. ~Abort(BuildTelemetry, paused)
    BY <1>1 DEF Abort, Return, HoldStates
  <2>2. Dispatch(BuildTelemetry, paused) /\ state' = state
    BY <1>1, <1>2, <2>1, LiveTickParts, TickClocks
  <2>3. sinceInside' = HoldClock(BuildTelemetry, HoldTarget, paused)
    BY <1>1, <2>2, TickClocks
  <2>4. /\ HoldTarget \in pos.inside
        /\ sinceInside' = IF InsideClock(state, paused) = Never THEN 0
                          ELSE InsideClock(state, paused)
    BY <1>1, <1>2, <2>3, LiveTickParts DEF HoldClock
  <2>5. settled' = RunClock(settled)
    BY <1>2, <2>2, <2>4, LiveTickParts
  <2>6. CASE InsideClock(state, paused) = Never
    BY <1>t, <2>4, <2>5, <2>6 DEF RunClock, Ages, Never
  <2>7. CASE InsideClock(state, paused) # Never
    <3>1. Continues(state, paused) /\ sinceInside # Never /\ sinceInside' = sinceInside
      BY <2>4, <2>7 DEF InsideClock
    <3>2. settled # Never /\ sinceInside <= settled
      BY <1>1, <2>2, <3>1 DEF SettleCovers, Continues
    <3>. QED  BY <2>5, <3>1, <3>2 DEF RunClock
  <2>. QED  BY <2>6, <2>7
<1>3. CASE HGatedTick
  BY <1>1, <1>3 DEF HGatedTick, GatedTick
<1>4. CASE HElapse
  <2>1. /\ Settling /\ state \in HoldStates
        /\ sinceInside' = Older(sinceInside, HoldTime) /\ settled' = Older(settled, HoldTime)
    BY <1>1, <1>4 DEF HElapse, Elapse, MachineElapse, RecordElapse
  <2>2. sinceInside # Never
    BY <1>1, <1>t, <2>1, OlderType
  <2>3. settled # Never /\ sinceInside <= settled
    BY <1>1, <2>1, <2>2 DEF SettleCovers
  <2>. QED  BY <1>t, <2>1, <2>2, <2>3, OlderMonotone
<1>5. CASE HOnPos \/ HOnStatus \/ HOnAbort \/ HOnBattery
  BY <1>1, <1>5, CallbackFrame DEF SettleCovers, machineVars, controlVars
<1>6. CASE UNCHANGED vars
  BY <1>1, <1>6 DEF vars, nodeVars, machineVars, controlVars, historyVars, SettleCovers
<1>. QED  BY <1>1, <1>2, <1>3, <1>4, <1>5, <1>6 DEF Next

\* Only ARMING asks for the mode, only IDLE and ARMING ask to arm, both with a
\* setpoint, and nothing leads back to them.
LEMMA DispatchArms ==
  ASSUME NEW t, NEW reset, Dispatch(t, reset)
  PROVE  /\ cmd'.offboard => state = "ARMING" /\ state' = "ARMING"
         /\ cmd'.arm => state' = "ARMING"
         /\ state' \in {"IDLE", "ARMING"}
              => state \in {"IDLE", "ARMING"} /\ cmd'.setpoint = TakeoffPoint
<1>1. /\ ~NoCommand.arm /\ ~NoCommand.offboard
      /\ ~LandNow.arm /\ ~LandNow.offboard
      /\ \A p : ~FlyTo(p).arm /\ ~FlyTo(p).offboard
      /\ \A i : ~FlyRoute(i).arm /\ ~FlyRoute(i).offboard
      /\ FlyTo(TakeoffPoint).setpoint = TakeoffPoint
      /\ [FlyTo(TakeoffPoint) EXCEPT !.arm = TRUE].setpoint = TakeoffPoint
      /\ [FlyTo(TakeoffPoint) EXCEPT !.arm = TRUE, !.offboard = TRUE].setpoint = TakeoffPoint
      /\ ~[FlyTo(TakeoffPoint) EXCEPT !.arm = TRUE].offboard
  BY DEF NoCommand, LandNow, FlyTo, FlyRoute
<1>. USE <1>1 DEF Return, Stay
<1>2. CASE Idle(reset)
  BY <1>2 DEF Idle
<1>3. CASE Arming(t, reset)
  BY <1>3 DEF Arming
<1>4. CASE Takeoff(t, reset)
  BY <1>4 DEF Takeoff
<1>5. CASE Hover(reset)
  BY <1>5 DEF Hover
<1>6. CASE Waypoint(t, reset)
  BY <1>6 DEF Waypoint
<1>7. CASE Dwell(reset)
  BY <1>7 DEF Dwell, AdvanceFromDwell
<1>8. CASE Rth(t, reset) \/ AbortToRth(reset)
  BY <1>8 DEF Rth, AbortToRth
<1>9. CASE Landing(t, reset) \/ Done(reset)
  BY <1>9 DEF Landing, Done
<1>. QED  BY <1>2, <1>3, <1>4, <1>5, <1>6, <1>7, <1>8, <1>9 DEF Dispatch

\* An abort asks for neither.
LEMMA AbortArms ==
  ASSUME NEW t, NEW reset, Abort(t, reset)
  PROVE  state' = "ABORT" /\ ~cmd'.arm /\ ~cmd'.offboard
BY CommandFields DEF Abort, Return

LEMMA HandshakeStep == HandshakeCounts /\ [Next]_vars => HandshakeCounts'
<1>1. SUFFICES ASSUME HandshakeCounts, [Next]_vars PROVE HandshakeCounts'
  OBVIOUS
<1>2. CASE HLiveTick
  <2>1. offboardRequested' = modeAsked'
    BY <1>1, <1>2 DEF HLiveTick, LiveTick, RecordLiveTick, Issue, HandshakeCounts
  <2>2. ASSUME state' \in {"IDLE", "ARMING"} PROVE setpoints' = warmup'
    <3>1. PICK t, reset : Dispatch(t, reset)
      BY <1>2, <2>2, LiveTickParts, AbortArms
    <3>2. setpoints = warmup /\ cmd'.setpoint # NoPoint
      BY <1>1, <2>2, <3>1, DispatchArms DEF HandshakeCounts, TakeoffPoint, NoPoint
    <3>3. /\ setpoints' = IF cmd'.setpoint # NoPoint /\ setpoints < WarmupTicks
                          THEN setpoints + 1 ELSE setpoints
          /\ warmup' = IF warmup < WarmupTicks THEN warmup + 1 ELSE warmup
      BY <1>2 DEF HLiveTick, LiveTick, RecordLiveTick
    <3>. QED  BY <3>2, <3>3
  <2>. QED  BY <2>1, <2>2 DEF HandshakeCounts
<1>3. CASE HGatedTick
  BY <1>1, <1>3 DEF HGatedTick, GatedTick, RecordGatedTick, HandshakeCounts
<1>4. CASE HElapse
  BY <1>1, <1>4 DEF HElapse, Elapse, MachineElapse, RecordElapse, HandshakeCounts
<1>5. CASE HOnPos \/ HOnStatus \/ HOnAbort \/ HOnBattery
  BY <1>1, <1>5, CallbackFrame DEF HandshakeCounts, machineVars, controlVars
<1>6. CASE UNCHANGED vars
  BY <1>1, <1>6 DEF vars, nodeVars, machineVars, controlVars, historyVars, HandshakeCounts
<1>. QED  BY <1>1, <1>2, <1>3, <1>4, <1>5, <1>6 DEF Next

LEMMA BatteryStep == TypeInv /\ BatteryTraced /\ [Next]_vars => BatteryTraced'
<1>1. SUFFICES ASSUME TypeInv, BatteryTraced, [Next]_vars PROVE BatteryTraced'
  OBVIOUS
<1>2. CASE HOnBattery
  <2>1. PICK msg \in BatteryMsg :
          battery' = BatteryReading(msg) /\ batteryAge' = 0 /\ rawBattery' = msg
    BY <1>2 DEF HOnBattery, OnBattery
  <2>2. battery' = "low" => msg = [level |-> "low", connected |-> TRUE]
    BY <2>1 DEF BatteryReading, BatteryMsg
  <2>. QED  BY <2>1, <2>2 DEF BatteryTraced, Never
<1>3. CASE HElapse
  <2>1. (batteryAge' = Never) <=> (batteryAge = Never)
    BY <1>1, <1>3, OlderType DEF HElapse, Elapse, TypeInv, TypeOK, NodeTypeOK
  <2>. QED  BY <1>1, <1>3, <2>1 DEF HElapse, Elapse, RecordElapse, BatteryTraced
<1>4. CASE HLiveTick \/ HGatedTick \/ HOnPos \/ HOnStatus \/ HOnAbort \/ UNCHANGED vars
  <2>1. UNCHANGED <<battery, batteryAge, rawBattery>>
    BY <1>4 DEF HLiveTick, LiveTick, RecordLiveTick, HGatedTick, GatedTick, RecordGatedTick,
       HOnPos, OnPos, HOnStatus, OnStatus, HOnAbort, OnAbort, sensorVars, historyVars,
       vars, nodeVars
  <2>. QED  BY <1>1, <2>1 DEF BatteryTraced
<1>. QED  BY <1>1, <1>2, <1>3, <1>4 DEF Next

\* The windows of the code and of the history agree in every reachable state.
THEOREM WindowsTraced == Spec => [](TypeInv /\ WindowInv)
<1>1. TypeInv /\ WindowInv /\ [Next]_vars => TypeInv' /\ WindowInv'
  BY TypeStep, WatchStep, SettleStep, HandshakeStep, BatteryStep DEF WindowInv
<1>. QED  BY <1>1, TypeInitial, WindowInitial, PTL DEF Spec
-----------------------------------------------------------------------------
(* The action properties that follow.                                       *)

\* Only a live tick changes the machine's state or its abort record.
LEMMA OnlyTicksMove ==
  [Next]_vars => HLiveTick \/ UNCHANGED <<state, abortReason>>
BY DEF Next, HGatedTick, GatedTick, HElapse, Elapse, MachineElapse, HOnPos, HOnStatus,
   HOnAbort, HOnBattery, OnPos, OnStatus, OnAbort, OnBattery, machineVars, vars, nodeVars

\* A handler that leaves its state was satisfied with the clock it read.
LEMMA DispatchLeaves ==
  ASSUME NEW t, NEW reset, Dispatch(t, reset), state' # state
  PROVE  /\ state = "HOVER" => EntryClock("HOVER", reset) >= HoverTime
         /\ state = "DWELL" => EntryClock("DWELL", reset) >= DwellTime[waypointIndex]
         /\ state \in HoldStates => HoldComplete(t, HoldTarget, reset)
BY DEF Dispatch, Idle, Arming, Takeoff, Hover, Waypoint, Dwell, Rth, AbortToRth, Landing,
       Done, HoldTarget, HoldStates, Return, Stay

\* The tick that leaves a state other than by an abort.
LEMMA LeavingTick ==
  ASSUME TypeInv, [Next]_vars, state' \notin {state, "ABORT"}
  PROVE  /\ HLiveTick
         /\ Dispatch(BuildTelemetry, paused)
<1>1. HLiveTick
  BY OnlyTicksMove
<1>2. ~Abort(BuildTelemetry, paused)
  BY AbortArms
<1>. QED  BY <1>1, <1>2, LiveTickParts

\* An entry clock that counted to a duration was observed to.
LEMMA EntryObserved ==
  ASSUME TypeInv, WatchCovers, state # "ABORT", NEW duration \in Nat,
         EntryClock(state, paused) >= duration
  PROVE  RunClock(watched) >= duration
<1>1. /\ sinceEntry \in 0 .. EntryLimit /\ watched \in Ages(EntryLimit)
      /\ paused \in BOOLEAN
  BY DEF TypeInv, TypeOK, NodeTypeOK, MachineTypeOK, WatchLimit
<1>2. CASE Continues(state, paused)
  <2>1. watched # Never /\ sinceEntry <= watched
    BY <1>1, <1>2 DEF WatchCovers, Settling, Continues
  <2>. QED  BY <1>1, <1>2, <2>1 DEF EntryClock, RunClock, Ages, Never
<1>3. CASE ~Continues(state, paused)
  <2>1. duration = 0
    BY <1>3 DEF EntryClock
  <2>. QED  BY <1>1, <2>1 DEF RunClock, Ages, Never
<1>. QED  BY <1>2, <1>3

\* A hold clock that counted to HoldTime was observed to.
LEMMA HoldObserved ==
  ASSUME TypeInv, SettleCovers, state \in HoldStates,
         HoldComplete(BuildTelemetry, HoldTarget, paused)
  PROVE  HoldTarget \in pos.inside /\ RunClock(settled) >= HoldTime
<1>1. /\ sinceInside \in Ages(HoldTime) /\ settled \in Ages(HoldTime)
      /\ paused \in BOOLEAN
  BY DEF TypeInv, TypeOK, NodeTypeOK, MachineTypeOK
<1>2. HoldTarget \in pos.inside
  BY DEF HoldComplete, BuildTelemetry
<1>3. HoldClock(BuildTelemetry, HoldTarget, paused) >= HoldTime
  BY DEF HoldComplete
<1>4. CASE InsideClock(state, paused) = Never
  <2>1. HoldTime = 0
    BY <1>2, <1>3, <1>4 DEF HoldClock, BuildTelemetry
  <2>. QED  BY <1>1, <1>2, <2>1 DEF RunClock, Ages, Never
<1>5. CASE InsideClock(state, paused) # Never
  <2>1. /\ Continues(state, paused) /\ sinceInside # Never /\ sinceInside >= HoldTime
    BY <1>2, <1>3, <1>5 DEF HoldClock, InsideClock, BuildTelemetry
  <2>2. settled # Never /\ sinceInside <= settled
    BY <1>1, <2>1 DEF SettleCovers, Settling, Continues
  <2>. QED  BY <1>1, <1>2, <2>1, <2>2 DEF RunClock, Ages, Never
<1>. QED  BY <1>4, <1>5

\* HOVER and DWELL never end before their whole duration passed in an unbroken
\* run of live ticks.
THEOREM WaitsObserved == Spec => WaitsAreObserved
<1>. DEFINE Waits ==
       /\ (state = "HOVER" /\ state' \notin {"HOVER", "ABORT"})
          => RunClock(watched) >= HoverTime
       /\ (state = "DWELL" /\ state' \notin {"DWELL", "ABORT"})
          => RunClock(watched) >= DwellTime[waypointIndex]
<1>1. TypeInv /\ WindowInv /\ [Next]_vars => [Waits]_vars
  <2>1. SUFFICES ASSUME TypeInv, WindowInv, [Next]_vars PROVE Waits
    OBVIOUS
  <2>2. ASSUME state = "HOVER", state' \notin {"HOVER", "ABORT"}
        PROVE  RunClock(watched) >= HoverTime
    BY <2>1, <2>2, LeavingTick, DispatchLeaves, EntryObserved DEF WindowInv
  <2>3. ASSUME state = "DWELL", state' \notin {"DWELL", "ABORT"}
        PROVE  RunClock(watched) >= DwellTime[waypointIndex]
    <3>1. DwellTime[waypointIndex] \in Nat
      BY <2>1, <2>3 DEF TypeInv, RouteIndexOK
    <3>. QED  BY <2>1, <2>3, <3>1, LeavingTick, DispatchLeaves, EntryObserved DEF WindowInv
  <2>. QED  BY <2>2, <2>3
<1>2. Spec => [][Waits]_vars
  BY <1>1, WindowsTraced, PTL DEF Spec
<1>. QED  BY <1>2 DEF WaitsAreObserved

\* TAKEOFF, WAYPOINT and RTH never end before the target was seen in tolerance
\* for the whole hold time, on live ticks only.
THEOREM HoldsObserved == Spec => HoldsAreObserved
<1>. DEFINE Holds ==
       (state \in {"TAKEOFF", "WAYPOINT", "RTH"} /\ state' \notin {state, "ABORT"})
       => /\ HoldTarget \in pos.inside
          /\ RunClock(settled) >= HoldTime
<1>1. TypeInv /\ WindowInv /\ [Next]_vars => [Holds]_vars
  BY LeavingTick, DispatchLeaves, HoldObserved DEF WindowInv, HoldStates
<1>2. Spec => [][Holds]_vars
  BY <1>1, WindowsTraced, PTL DEF Spec
<1>. QED  BY <1>2 DEF HoldsAreObserved

\* PX4 is asked for offboard mode only after the warm-up stream, and to arm only
\* after an earlier tick asked for the mode.
THEOREM HandshakeKept == Spec => ArmHandshake
<1>. DEFINE Handshake ==
       /\ "SET_OFFBOARD" \in sent' => setpoints = WarmupTicks
       /\ ("ARM" \in sent' /\ tickAge' = 0) => modeAsked /\ state' = "ARMING"
<1>1. TypeInv /\ WindowInv /\ [Next]_vars => [Handshake]_<<sent, setpoints, modeAsked, state>>
  <2>1. SUFFICES ASSUME TypeInv, WindowInv, [Next]_vars,
                        ~UNCHANGED <<sent, setpoints, modeAsked, state>>
                 PROVE  Handshake
    OBVIOUS
  <2>2. HLiveTick \/ HGatedTick
    BY <2>1 DEF Next, HElapse, Elapse, MachineElapse, RecordElapse, HOnPos, HOnStatus,
       HOnAbort, HOnBattery, OnPos, OnStatus, OnAbort, OnBattery, machineVars, outputVars,
       historyVars, vars, nodeVars
  <2>3. CASE HGatedTick
    BY <2>3 DEF HGatedTick, GatedTick
  <2>4. CASE HLiveTick
    <3>1. sent' = VehicleCommands(cmd', warmup >= WarmupTicks, offboardRequested)
      BY <2>4 DEF HLiveTick, LiveTick, Issue
    <3>2. /\ "SET_OFFBOARD" \in sent' => warmup >= WarmupTicks /\ cmd'.offboard
          /\ "ARM" \in sent' => offboardRequested /\ cmd'.arm
      BY <3>1 DEF VehicleCommands
    <3>3. /\ cmd'.offboard => state = "ARMING"
          /\ cmd'.arm => state' = "ARMING"
      BY <2>4, LiveTickParts, AbortArms, DispatchArms
    <3>4. /\ state = "ARMING" => setpoints = warmup
          /\ offboardRequested = modeAsked
          /\ warmup \in 0 .. WarmupTicks
      BY <2>1 DEF WindowInv, HandshakeCounts, TypeInv, TypeOK, NodeTypeOK
    <3>. QED  BY <3>2, <3>3, <3>4
  <2>. QED  BY <2>2, <2>3, <2>4
<1>2. Spec => [][Handshake]_<<sent, setpoints, modeAsked, state>>
  BY <1>1, WindowsTraced, PTL DEF Spec
<1>. QED  BY <1>2 DEF ArmHandshake

\* Every abort that is recorded has the cause it names.
THEOREM AbortsJustified == Spec => AbortJustified
<1>. DEFINE Justified ==
       abortReason' # abortReason =>
         \/ abortReason' = "EXTERNAL_SIGNAL" /\ abortRequested
         \/ /\ abortReason' = "LOW_BATTERY" /\ ~abortRequested
            /\ rawBattery = [level |-> "low", connected |-> TRUE]
            /\ batteryAge \in 0 .. BatteryTimeout
<1>1. TypeInv /\ WindowInv /\ [Next]_vars => [Justified]_vars
  <2>1. SUFFICES ASSUME TypeInv, WindowInv, [Next]_vars, abortReason' # abortReason
                 PROVE  \/ abortReason' = "EXTERNAL_SIGNAL" /\ abortRequested
                        \/ /\ abortReason' = "LOW_BATTERY" /\ ~abortRequested
                           /\ rawBattery = [level |-> "low", connected |-> TRUE]
                           /\ batteryAge \in 0 .. BatteryTimeout
    OBVIOUS
  <2>2. /\ AbortReasonOf(BuildTelemetry) # "NONE"
        /\ abortReason' = AbortReasonOf(BuildTelemetry)
    BY <2>1, OnlyTicksMove, LiveTickParts DEF Abort, AbortFires
  <2>3. /\ abortRequested \in BOOLEAN /\ BatteryLow(FreshBattery) \in BOOLEAN
        /\ BuildTelemetry.abort = abortRequested
        /\ BuildTelemetry.battery = FreshBattery
        /\ ~BuildTelemetry.takeover /\ ~BuildTelemetry.timedOut
    BY <2>1 DEF TypeInv, TypeOK, NodeTypeOK, BuildTelemetry, BatteryLow
  <2>4. \/ abortReason' = "EXTERNAL_SIGNAL" /\ abortRequested
        \/ /\ abortReason' = "LOW_BATTERY" /\ ~abortRequested
           /\ FreshBattery = "low"
    BY <2>2, <2>3 DEF AbortReasonOf, BatteryLow
  <2>5. ASSUME FreshBattery = "low"
        PROVE  /\ rawBattery = [level |-> "low", connected |-> TRUE]
               /\ batteryAge \in 0 .. BatteryTimeout
    <3>1. battery = "low" /\ (batteryAge = Never \/ batteryAge <= BatteryTimeout)
      BY <2>5 DEF FreshBattery, TelemetryFresh
    <3>2. batteryAge \in Ages(BatteryTimeout + 1)
      BY <2>1 DEF TypeInv, TypeOK, NodeTypeOK
    <3>3. rawBattery = [level |-> "low", connected |-> TRUE] /\ batteryAge # Never
      BY <2>1, <3>1 DEF WindowInv, BatteryTraced
    <3>. QED  BY <3>1, <3>2, <3>3 DEF Ages, Never
  <2>. QED  BY <2>4, <2>5
<1>2. Spec => [][Justified]_vars
  BY <1>1, WindowsTraced, PTL DEF Spec
<1>. QED  BY <1>2 DEF AbortJustified

=============================================================================
