--------------------------- MODULE MissionRouteProofs ---------------------------
(***************************************************************************)
(* Theorems about the route: the node implements the abstract patrol of    *)
(* PatrolRoute, and each waypoint gets one capture trigger.                *)
(***************************************************************************)
EXTENDS MissionProofs

USE MissionConfigAssumption, NodeAssumption

BeforeRoute == {"IDLE", "ARMING", "TAKEOFF", "HOVER"}

\* The index starts at the first waypoint and ABORT is never without a reason.
RouteInv ==
  /\ state \in BeforeRoute => waypointIndex = 0
  /\ state = "ABORT" => abortReason # "NONE"

\* A dwell at i is long enough for the settle delay and the timer's jitter.
OwesTrigger(i) == DwellTime[i] >= DwellSettle + MaxTickGap

\* Waypoints ahead have no trigger; the one being dwelled at has one as soon as
\* the latch is set; the ones behind have one if they owe one.
TriggerCountAt(i) ==
  /\ triggers[i] \in {0, 1}
  /\ i > waypointIndex => triggers[i] = 0
  /\ i = waypointIndex /\ state \in BeforeRoute \cup {"WAYPOINT"} => triggers[i] = 0
  /\ i = waypointIndex /\ state = "DWELL" => triggers[i] = IF dwellFired THEN 1 ELSE 0
  /\ Completed(i) /\ OwesTrigger(i) => triggers[i] = 1

TriggerCount == \A i \in Waypoints : TriggerCountAt(i)

\* The settle clock runs exactly while the machine dwells.
DwellLatch ==
  /\ state = "DWELL" => dwellClock # Never
  /\ state # "DWELL" => ~dwellFired /\ dwellClock = Never

\* While the trigger is pending, the last tick saw the dwell shorter than the
\* settle delay; the machine's own dwell clock is not ahead of the settle clock.
DwellPending ==
  state = "DWELL" /\ Settling =>
    /\ sinceEntry <= dwellClock \/ dwellClock >= DwellSettle
    /\ ~dwellFired => sinceEntry < DwellSettle + tickAge

TriggerInv == RouteInv /\ TriggerCount /\ DwellLatch /\ DwellPending

-----------------------------------------------------------------------------
(* What one tick can do to the route.                                       *)

\* The moves of the handlers, with what each does to the index.
Proceeds ==
  /\ \/ state = "IDLE" /\ state' = "ARMING"
     \/ state = "ARMING" /\ state' = "TAKEOFF"
     \/ state = "TAKEOFF" /\ state' = "HOVER"
     \/ state = "WAYPOINT" /\ state' = "DWELL"
     \/ state = "ABORT" /\ state' = "RTH"
     \/ state = "RTH" /\ state' = "LANDING"
     \/ state = "LANDING" /\ state' = "DONE"
  /\ UNCHANGED waypointIndex

StartsRoute ==
  /\ state = "HOVER" /\ state' = "WAYPOINT"
  /\ NumWaypoints > 0 /\ waypointIndex' = 0

SkipsRoute ==
  /\ state = "HOVER" /\ state' = "RTH"
  /\ NumWaypoints = 0 /\ UNCHANGED waypointIndex

Advances ==
  /\ state = "DWELL" /\ state' = "WAYPOINT"
  /\ waypointIndex + 1 < NumWaypoints /\ waypointIndex' = waypointIndex + 1

EndsRoute ==
  /\ state = "DWELL" /\ state' = "RTH"
  /\ waypointIndex + 1 >= NumWaypoints /\ UNCHANGED waypointIndex

Rests == UNCHANGED <<state, waypointIndex>>

Moves == Rests \/ Proceeds \/ StartsRoute \/ SkipsRoute \/ Advances \/ EndsRoute

LEMMA DispatchMoves ==
  ASSUME NEW t, NEW reset, Dispatch(t, reset)
  PROVE  Moves /\ (state' = "DWELL" => cmd'.waypoint = waypointIndex')
<1>. DEFINE Goal == Moves /\ (state' = "DWELL" => cmd'.waypoint = waypointIndex')
<1>0. \A i : FlyRoute(i).waypoint = i
  BY DEF FlyRoute, NoCommand
<1>. USE DEF Return, Stay, Moves, Rests, Proceeds
<1>1. CASE Idle(reset)
  BY <1>1 DEF Idle
<1>2. CASE Arming(t, reset)
  BY <1>2 DEF Arming
<1>3. CASE Takeoff(t, reset)
  BY <1>3 DEF Takeoff
<1>4. CASE Hover(reset)
  BY <1>4 DEF Hover, StartsRoute, SkipsRoute
<1>5. CASE Waypoint(t, reset)
  BY <1>0, <1>5 DEF Waypoint
<1>6. CASE Dwell(reset)
  BY <1>0, <1>6 DEF Dwell, AdvanceFromDwell, Advances, EndsRoute
<1>7. CASE Rth(t, reset)
  BY <1>7 DEF Rth
<1>8. CASE AbortToRth(reset)
  BY <1>8 DEF AbortToRth
<1>9. CASE Landing(t, reset)
  BY <1>9 DEF Landing
<1>10. CASE Done(reset)
  BY <1>10 DEF Done
<1>. QED  BY <1>1, <1>2, <1>3, <1>4, <1>5, <1>6, <1>7, <1>8, <1>9, <1>10 DEF Dispatch

\* An abort leaves the route from a state that was not yet on the way home.
Aborts ==
  /\ state \notin NonAbortable /\ state' = "ABORT"
  /\ abortReason' # "NONE" /\ UNCHANGED waypointIndex

LEMMA LiveTickMoves ==
  LiveTick => Aborts \/ (Dispatch(BuildTelemetry, paused) /\ Moves /\ UNCHANGED abortReason)
BY DispatchMoves DEF LiveTick, ResetTimingOnResume, Tick, Abort, AbortFires, Return, Aborts

\* Everything but a tick leaves the route alone.
LEMMA RouteFrame ==
  [AnyNext]_nodeVars => LiveTick \/ UNCHANGED <<state, waypointIndex, abortReason>>
BY DEF AnyNext, OnTick, GatedTick, Elapse, MachineElapse, OnPos, OnStatus, OnAbort, OnBattery,
   machineVars, nodeVars

LEMMA NodeIsAny == [NodeNext]_nodeVars => [AnyNext]_nodeVars
BY DEF NodeNext, Receive, AnyNext

LEMMA HistoryFrame == [Next]_vars => HLiveTick \/ UNCHANGED <<state, waypointIndex, abortReason>>
BY DEF Next, HGatedTick, GatedTick, HElapse, Elapse, MachineElapse, HOnPos, HOnStatus,
   HOnAbort, HOnBattery, OnPos, OnStatus, OnAbort, OnBattery, machineVars, vars, nodeVars

LEMMA RouteStep == RouteInv /\ [AnyNext]_nodeVars => RouteInv'
<1>. USE DEF RouteInv, BeforeRoute
<1>1. SUFFICES ASSUME RouteInv, [AnyNext]_nodeVars PROVE RouteInv'
  OBVIOUS
<1>2. CASE UNCHANGED <<state, waypointIndex, abortReason>>
  BY <1>1, <1>2
<1>3. CASE Aborts
  BY <1>1, <1>3 DEF Aborts
<1>4. CASE Moves /\ UNCHANGED abortReason
  BY <1>1, <1>4 DEF Moves, Rests, Proceeds, StartsRoute, SkipsRoute, Advances, EndsRoute
<1>. QED  BY <1>1, <1>2, <1>3, <1>4, LiveTickMoves, RouteFrame

-----------------------------------------------------------------------------
(* The node implements the abstract patrol.                                 *)

\* Every step of the node is a step of PatrolRoute or changes nothing in it.
LEMMA RouteRefined ==
  ASSUME NodeInv, AbortIsFinal, RouteInv, [AnyNext]_nodeVars
  PROVE  [Route!RouteNext]_Route!routeVars
<1>. DEFINE Kept == UNCHANGED <<PhaseOf(state), VisitedCount, abortReason # "NONE">>
<1>0. Kept => UNCHANGED Route!routeVars
  BY DEF Route!routeVars
<1>1. CASE UNCHANGED <<state, waypointIndex, abortReason>>
  BY <1>0, <1>1 DEF PhaseOf, VisitedCount
<1>2. CASE Aborts
  <2>1. abortReason = "NONE" /\ state \in {"IDLE", "ARMING", "TAKEOFF", "HOVER", "WAYPOINT", "DWELL"}
    BY <1>2 DEF Aborts, AbortIsFinal, NodeInv, NodeTypeOK, MachineTypeOK, States,
       NonAbortable
  <2>2. PhaseOf(state) \in {"ground", "route"} /\ PhaseOf(state)' = "return"
    BY <1>2, <2>1 DEF Aborts, PhaseOf
  <2>3. UNCHANGED VisitedCount
    BY <1>2, <2>1 DEF Aborts, VisitedCount
  <2>. QED  BY <1>2, <2>2, <2>3 DEF Route!RouteNext, Route!CutShort, Aborts
<1>3. CASE Moves /\ UNCHANGED abortReason
  <2>. USE <1>3
  <2>1. CASE Rests
    BY <1>1, <2>1 DEF Rests
  <2>2. CASE Proceeds
    <3>. USE DEF Proceeds
    <3>0. state \in {"IDLE", "ARMING", "TAKEOFF", "WAYPOINT"} => abortReason = "NONE"
      BY DEF AbortIsFinal, NonAbortable
    <3>1. UNCHANGED VisitedCount
      BY <2>2, <3>0 DEF RouteInv, VisitedCount
    <3>2. CASE state \in {"IDLE", "TAKEOFF", "WAYPOINT", "ABORT"}
      BY <1>0, <2>2, <3>1, <3>2 DEF PhaseOf
    <3>3. CASE state = "ARMING"
      BY <2>2, <3>1, <3>3 DEF PhaseOf, Route!RouteNext, Route!Launch
    <3>4. CASE state = "RTH"
      BY <2>2, <3>1, <3>4 DEF PhaseOf, Route!RouteNext, Route!Land
    <3>5. CASE state = "LANDING"
      BY <2>2, <3>1, <3>5 DEF PhaseOf, Route!RouteNext, Route!Finish
    <3>. QED  BY <2>2, <3>2, <3>3, <3>4, <3>5
  <2>3. CASE StartsRoute
    BY <1>0, <2>3 DEF StartsRoute, RouteInv, BeforeRoute, PhaseOf, VisitedCount
  <2>4. CASE SkipsRoute
    <3>1. waypointIndex = 0 /\ abortReason = "NONE"
      BY <2>4 DEF SkipsRoute, RouteInv, BeforeRoute, AbortIsFinal, NonAbortable
    <3>2. PhaseOf(state) = "route" /\ PhaseOf(state)' = "return" /\ UNCHANGED VisitedCount
      BY <2>4, <3>1 DEF SkipsRoute, PhaseOf, VisitedCount
    <3>. QED  BY <2>4, <3>2 DEF SkipsRoute, Route!RouteNext, Route!SkipRoute
  <2>5. CASE Advances
    <3>1. abortReason = "NONE" /\ waypointIndex \in Waypoints
      BY <2>5 DEF Advances, AbortIsFinal, NonAbortable, NodeInv, RouteIndexOK
    <3>2. PhaseOf(state) = "route" /\ PhaseOf(state)' = "route"
      BY <2>5 DEF Advances, PhaseOf
    <3>3. VisitedCount = waypointIndex /\ VisitedCount' = waypointIndex + 1
      BY <2>5, <3>1 DEF Advances, VisitedCount
    <3>4. waypointIndex < NumWaypoints /\ waypointIndex + 1 # NumWaypoints
      BY <2>5, <3>1 DEF Advances, Waypoints
    <3>. QED  BY <3>1, <3>2, <3>3, <3>4 DEF Route!RouteNext, Route!Visit
  <2>6. CASE EndsRoute
    <3>1. abortReason = "NONE" /\ waypointIndex \in Waypoints
      BY <2>6 DEF EndsRoute, AbortIsFinal, NonAbortable, NodeInv, RouteIndexOK
    <3>2. PhaseOf(state) = "route" /\ PhaseOf(state)' = "return"
      BY <2>6 DEF EndsRoute, PhaseOf
    <3>3. VisitedCount = waypointIndex /\ VisitedCount' = NumWaypoints
      BY <2>6, <3>1 DEF EndsRoute, VisitedCount
    <3>4. waypointIndex < NumWaypoints /\ NumWaypoints = waypointIndex + 1
      BY <2>6, <3>1 DEF EndsRoute, Waypoints
    <3>. QED  BY <3>1, <3>2, <3>3, <3>4 DEF Route!RouteNext, Route!Visit
  <2>. QED  BY <2>1, <2>2, <2>3, <2>4, <2>5, <2>6 DEF Moves
<1>. QED  BY <1>1, <1>2, <1>3, LiveTickMoves, RouteFrame

\* What the refinement rests on.
PatrolInv == NodeInv /\ AbortIsFinal /\ RouteInv

LEMMA PatrolInitial == NodeInit => PatrolInv /\ Route!RouteInit
BY NodeInitial
   DEF PatrolInv, NodeInit, MachineInit, AbortIsFinal, RouteInv, BeforeRoute, Route!RouteInit,
       PhaseOf, VisitedCount

LEMMA PatrolStep ==
  PatrolInv /\ [AnyNext]_nodeVars => PatrolInv' /\ [Route!RouteNext]_Route!routeVars
BY AnyStep, AbortStep, RouteStep, RouteRefined DEF PatrolInv

\* For every configuration the node is an implementation of the patrol: visits in
\* order and none skipped, home only after the last or on an abort, one landing.
THEOREM NodeImplementsRoute == NodeSpec => RefinesRoute
<1>1. NodeSpec => []PatrolInv
  BY PatrolInitial, PatrolStep, NodeIsAny, PTL DEF NodeSpec
<1>2. NodeSpec => [][Route!RouteNext]_Route!routeVars
  BY <1>1, PatrolStep, NodeIsAny, PTL DEF NodeSpec
<1>. QED  BY PatrolInitial, <1>2, PTL DEF RefinesRoute, Route!RouteSpec, NodeSpec

\* The same of the node with its history, whose behaviours are the node's.
THEOREM ImplementsRoute == Spec => RefinesRoute
<1>1. Init => NodeInit
  BY DEF Init
<1>2. Spec => NodeSpec
  BY <1>1, HistoryWatches, PTL DEF Spec, NodeSpec
<1>. QED  BY <1>2, NodeImplementsRoute

-----------------------------------------------------------------------------
(* One trigger per visit.                                                   *)

\* The settle clock of PublishDwellEvent is an age, never None.
LEMMA SettleClock ==
  ASSUME TypeInv, DwellLatch
  PROVE  DwellClockNow \in 0 .. DwellSettle
BY DEF TypeInv, TypeOK, NodeTypeOK, DwellLatch, DwellClockNow, Ages, Never

LEMMA LatchStep == TypeInv /\ DwellLatch /\ [Next]_vars => DwellLatch'
<1>1. SUFFICES ASSUME TypeInv, DwellLatch, [Next]_vars PROVE DwellLatch'
  OBVIOUS
<1>2. CASE HLiveTick
  <2>1. DwellClockNow # Never
    BY <1>1, SettleClock DEF Never
  <2>. QED  BY <1>2, <2>1 DEF HLiveTick, LiveTick, PublishDwellEvent, DwellLatch
<1>3. CASE HElapse
  <2>1. (dwellClock' = Never) <=> (dwellClock = Never)
    BY <1>1, <1>3, OlderType DEF HElapse, Elapse, TypeInv, TypeOK, NodeTypeOK
  <2>. QED  BY <1>1, <1>3, <2>1 DEF HElapse, Elapse, MachineElapse, DwellLatch
<1>4. CASE HGatedTick
  BY <1>1, <1>4 DEF HGatedTick, GatedTick, DwellLatch
<1>5. CASE HOnPos \/ HOnStatus \/ HOnAbort \/ HOnBattery
  BY <1>1, <1>5, CallbackFrame DEF DwellLatch, machineVars, controlVars
<1>6. CASE UNCHANGED vars
  BY <1>1, <1>6 DEF vars, nodeVars, machineVars, controlVars, DwellLatch
<1>. QED  BY <1>1, <1>2, <1>3, <1>4, <1>5, <1>6 DEF Next

LEMMA PendingStep ==
  TypeInv /\ DwellLatch /\ DwellPending /\ [Next]_vars => DwellPending'
<1>1. SUFFICES ASSUME TypeInv, DwellLatch, DwellPending, [Next]_vars,
                      state' = "DWELL", Settling'
               PROVE  /\ sinceEntry' <= dwellClock' \/ dwellClock' >= DwellSettle
                      /\ ~dwellFired' => sinceEntry' < DwellSettle + tickAge'
  BY DEF DwellPending
<1>t. /\ sinceEntry \in 0 .. EntryLimit /\ dwellClock \in Ages(DwellSettle)
      /\ tickAge \in 0 .. MaxTickGap
  BY <1>1 DEF TypeInv, TypeOK, NodeTypeOK, MachineTypeOK
<1>2. CASE HLiveTick
  <2>1. Dispatch(BuildTelemetry, paused)
    BY <1>1, <1>2, LiveTickParts, AbortArms
  <2>2. /\ state = "DWELL" /\ lastState' = state
        /\ sinceEntry' = EntryClock(state, paused)
    BY <1>1, <2>1, TickClocks DEF Settling
  <2>3. /\ dwellClock' = dwellClock /\ dwellClock \in 0 .. DwellSettle /\ tickAge' = 0
        /\ ~dwellFired' => ~dwellFired /\ dwellClock < DwellSettle
    <3>1. DwellClockNow = dwellClock /\ dwellClock \in 0 .. DwellSettle /\ dwellClock # Never
      BY <1>1, <2>2, SettleClock DEF DwellClockNow, DwellLatch
    <3>. QED
      BY <1>1, <1>2, <3>1 DEF HLiveTick, LiveTick, PublishDwellEvent, DwellSettled
  <2>4. CASE Continues(state, paused)
    <3>1. sinceEntry' = sinceEntry /\ (sinceEntry <= dwellClock \/ dwellClock >= DwellSettle)
      BY <2>2, <2>4, <1>1 DEF EntryClock, Continues, DwellPending, Settling
    <3>. QED  BY <1>t, <2>3, <3>1
  <2>5. CASE ~Continues(state, paused)
    BY <2>2, <2>3, <2>5 DEF EntryClock
  <2>. QED  BY <2>4, <2>5
<1>3. CASE HGatedTick
  BY <1>1, <1>3 DEF HGatedTick, GatedTick, Settling
<1>4. CASE HElapse
  <2>1. /\ sinceEntry' = Older(sinceEntry, EntryLimit)
        /\ dwellClock' = Older(dwellClock, DwellSettle)
        /\ tickAge' = tickAge + 1 /\ dwellFired' = dwellFired
        /\ state = "DWELL" /\ Settling
    BY <1>1, <1>4 DEF HElapse, Elapse, MachineElapse, Settling
  <2>2. /\ dwellClock # Never
        /\ sinceEntry <= dwellClock \/ dwellClock >= DwellSettle
        /\ ~dwellFired => sinceEntry < DwellSettle + tickAge
    BY <1>1, <2>1 DEF DwellLatch, DwellPending
  <2>3. sinceEntry' <= sinceEntry + 1
    BY <1>t, <2>1 DEF Older, Never
  <2>4. sinceEntry' <= dwellClock' \/ dwellClock' >= DwellSettle
    BY <1>t, <2>1, <2>2, <2>3 DEF Older, Ages, Never
  <2>5. sinceEntry' \in Nat
    BY <1>t, <2>1 DEF Older, Never
  <2>. QED  BY <1>t, <2>1, <2>2, <2>3, <2>4, <2>5
<1>5. CASE HOnPos \/ HOnStatus \/ HOnAbort \/ HOnBattery
  BY <1>1, <1>5, CallbackFrame DEF DwellPending, Settling, machineVars, controlVars
<1>6. CASE UNCHANGED vars
  BY <1>1, <1>6 DEF vars, nodeVars, machineVars, controlVars, DwellPending, Settling
<1>. QED  BY <1>1, <1>2, <1>3, <1>4, <1>5, <1>6 DEF Next

\* A dwell long enough to owe a trigger does not end before it.
LEMMA OwedDwellFired ==
  ASSUME TypeInv, DwellPending, state = "DWELL", state' # "DWELL",
         Dispatch(BuildTelemetry, paused),
         DwellTime[waypointIndex] >= DwellSettle + MaxTickGap
  PROVE  dwellFired
<1>1. /\ sinceEntry \in 0 .. EntryLimit /\ tickAge \in 0 .. MaxTickGap
      /\ DwellTime[waypointIndex] \in Nat /\ paused \in BOOLEAN
  BY DEF TypeInv, TypeOK, NodeTypeOK, MachineTypeOK, RouteIndexOK
<1>2. EntryClock(state, paused) >= DwellTime[waypointIndex]
  BY DispatchLeaves
<1>3. Continues(state, paused) /\ sinceEntry >= DwellSettle + MaxTickGap
  BY <1>1, <1>2 DEF EntryClock
<1>4. ~dwellFired => sinceEntry < DwellSettle + tickAge
  BY <1>1, <1>3 DEF DwellPending, Settling, Continues
<1>. QED  BY <1>1, <1>3, <1>4

\* What a live tick adds to the triggers.
LEMMA TickTriggers ==
  ASSUME TypeInv, DwellLatch, HLiveTick
  PROVE  \/ /\ UNCHANGED triggers
            /\ state' = "DWELL" => dwellFired' = IF state = "DWELL" THEN dwellFired ELSE FALSE
         \/ /\ state' = "DWELL" /\ dwellFired' = TRUE
            /\ state = "DWELL" => ~dwellFired
            /\ waypointIndex' \in Waypoints
            /\ triggers' = [triggers EXCEPT ![waypointIndex'] = @ + 1]
            /\ triggers' # triggers
<1>1. CASE trigger' = NoTrigger
  <2>1. UNCHANGED triggers
    BY <1>1 DEF HLiveTick, RecordLiveTick
  <2>2. state' = "DWELL" => cmd'.waypoint # NoTrigger
    <3>1. state' = "DWELL" => cmd'.waypoint = waypointIndex' /\ waypointIndex' \in Waypoints
      BY LiveTickParts, AbortArms, DispatchMoves, TypeStep DEF Next, TypeInv, RouteIndexOK
    <3>. QED  BY <3>1 DEF Waypoints, NoTrigger
  <2>3. state' = "DWELL" => dwellFired' = dwellFired
    BY <1>1, <2>2 DEF HLiveTick, LiveTick, PublishDwellEvent
  <2>4. dwellFired \in BOOLEAN /\ (state # "DWELL" => ~dwellFired)
    BY DEF TypeInv, TypeOK, NodeTypeOK, DwellLatch
  <2>. QED  BY <2>1, <2>3, <2>4
<1>2. CASE trigger' # NoTrigger
  <2>1. /\ state' = "DWELL" /\ dwellFired' = TRUE /\ ~dwellFired
        /\ trigger' = cmd'.waypoint
    BY <1>2 DEF HLiveTick, LiveTick, PublishDwellEvent, DwellSettled
  <2>2. cmd'.waypoint = waypointIndex' /\ waypointIndex' \in Waypoints
    BY <2>1, LiveTickParts, AbortArms, DispatchMoves, TypeStep DEF Next, TypeInv, RouteIndexOK
  <2>3. triggers' = [triggers EXCEPT ![waypointIndex'] = @ + 1]
    BY <1>2, <2>1, <2>2 DEF HLiveTick, RecordLiveTick
  <2>4. triggers \in [Waypoints -> Nat]
    BY DEF TypeInv, TypeOK
  <2>5. triggers'[waypointIndex'] = triggers[waypointIndex'] + 1
    BY <2>2, <2>3, <2>4
  <2>6. triggers[waypointIndex'] \in Nat
    BY <2>2, <2>4
  <2>7. triggers' # triggers
    BY <2>5, <2>6
  <2>. QED  BY <2>1, <2>2, <2>3, <2>7
<1>. QED  BY <1>1, <1>2
\* The triggers of one waypoint are right after a live tick.
LEMMA CountTick ==
  ASSUME TypeInv, AbortIsFinal, RouteInv, TriggerCount, DwellLatch, DwellPending, HLiveTick,
         NEW i \in Waypoints
  PROVE  TriggerCountAt(i)'
<1>. USE DEF TriggerCountAt
<1>t. /\ waypointIndex \in 0 .. NumWaypoints /\ i \in 0 .. NumWaypoints - 1
      /\ triggers \in [Waypoints -> Nat] /\ dwellFired \in BOOLEAN
      /\ TriggerCountAt(i)
  BY DEF TypeInv, TypeOK, NodeTypeOK, MachineTypeOK, Waypoints, TriggerCount
<1>1. CASE Aborts
  <2>1. UNCHANGED triggers
    BY <1>1, TickTriggers DEF Aborts
  <2>2. Completed(i)' => Completed(i)
    BY <1>1 DEF Aborts, Completed
  <2>. QED  BY <1>1, <1>t, <2>1, <2>2 DEF Aborts, BeforeRoute
<1>2. CASE Dispatch(BuildTelemetry, paused) /\ Moves /\ UNCHANGED abortReason
  <2>. USE <1>2
  <2>1. CASE Rests
    <3>1. Completed(i)' => Completed(i)
      BY <2>1 DEF Rests, Completed
    <3>2. Completed(i) => i # waypointIndex \/ state # "DWELL"
      BY <1>t DEF Completed
    <3>3. CASE UNCHANGED triggers
      <4>1. state = "DWELL" => dwellFired' = dwellFired
        BY <2>1, <3>3, <1>t, TickTriggers DEF Rests
      <4>. QED  BY <1>t, <2>1, <3>1, <3>3, <4>1 DEF Rests
    <3>4. CASE ~UNCHANGED triggers
      <4>1. /\ state = "DWELL" /\ ~dwellFired /\ dwellFired' = TRUE
            /\ triggers' = [triggers EXCEPT ![waypointIndex] = @ + 1]
        BY <2>1, <3>4, TickTriggers DEF Rests
      <4>2. CASE i = waypointIndex
        BY <1>t, <2>1, <3>1, <3>2, <4>1, <4>2 DEF Rests, BeforeRoute
      <4>3. CASE i # waypointIndex
        BY <1>t, <2>1, <3>1, <4>1, <4>3 DEF Rests, BeforeRoute
      <4>. QED  BY <4>2, <4>3
    <3>. QED  BY <3>3, <3>4
  <2>2. CASE Proceeds
    <3>1. Completed(i)' => Completed(i)
      BY <2>2 DEF Proceeds, Completed, RouteInv
    <3>2. CASE state = "WAYPOINT"
      <4>1. state' = "DWELL" /\ waypointIndex' = waypointIndex /\ waypointIndex \in Waypoints
        BY <2>2, <3>2 DEF Proceeds, TypeInv, RouteIndexOK
      <4>2. Completed(i)' => i # waypointIndex
        BY <1>t, <4>1 DEF Completed
      <4>3. CASE UNCHANGED triggers
        <5>1. dwellFired' = FALSE
          BY <3>2, <4>1, <4>3, <1>t, TickTriggers
        <5>. QED  BY <1>t, <3>1, <3>2, <4>1, <4>3, <5>1 DEF BeforeRoute
      <4>4. CASE ~UNCHANGED triggers
        <5>1. dwellFired' = TRUE /\ triggers' = [triggers EXCEPT ![waypointIndex] = @ + 1]
          BY <4>1, <4>4, TickTriggers
        <5>. QED  BY <1>t, <3>1, <3>2, <4>1, <4>2, <5>1 DEF BeforeRoute
      <4>. QED  BY <4>3, <4>4
    <3>3. CASE state # "WAYPOINT"
      <4>1. UNCHANGED <<triggers, waypointIndex>> /\ state' # "DWELL"
        BY <2>2, <3>3, TickTriggers DEF Proceeds
      <4>2. state' \in BeforeRoute \cup {"WAYPOINT"} => state \in BeforeRoute
        BY <2>2, <3>3 DEF Proceeds, BeforeRoute
      <4>. QED  BY <1>t, <3>1, <4>1, <4>2
    <3>. QED  BY <3>2, <3>3
  <2>3. CASE StartsRoute
    <3>1. UNCHANGED <<triggers, waypointIndex>>
      BY <2>3, TickTriggers DEF StartsRoute, RouteInv, BeforeRoute
    <3>2. Completed(i)' => Completed(i)
      BY <2>3, <3>1 DEF StartsRoute, Completed
    <3>. QED  BY <1>t, <2>3, <3>1, <3>2 DEF StartsRoute, BeforeRoute
  <2>4. CASE SkipsRoute
    BY <1>t, <2>4 DEF SkipsRoute
  <2>5. CASE Advances \/ EndsRoute
    <3>1. /\ state = "DWELL" /\ state' \in {"WAYPOINT", "RTH"}
          /\ UNCHANGED triggers
      BY <2>5, TickTriggers DEF Advances, EndsRoute
    <3>2. i = waypointIndex /\ OwesTrigger(i) => triggers[i] = 1
      BY <1>t, <3>1, OwedDwellFired DEF OwesTrigger
    <3>3. Completed(i)' => Completed(i) \/ i = waypointIndex
      BY <1>t, <2>5, <3>1 DEF Advances, EndsRoute, Completed
    <3>4. i > waypointIndex' => i > waypointIndex
      BY <1>t, <2>5 DEF Advances, EndsRoute
    <3>5. i = waypointIndex' /\ state' = "WAYPOINT" => i > waypointIndex
      BY <1>t, <2>5 DEF Advances, EndsRoute
    <3>. QED  BY <1>t, <3>1, <3>2, <3>3, <3>4, <3>5 DEF BeforeRoute, OwesTrigger
  <2>. QED  BY <2>1, <2>2, <2>3, <2>4, <2>5 DEF Moves
<1>. QED  BY <1>1, <1>2, LiveTickMoves DEF HLiveTick

LEMMA CountStep ==
  TypeInv /\ AbortIsFinal /\ TriggerInv /\ [Next]_vars => TriggerCount'
<1>1. SUFFICES ASSUME TypeInv, AbortIsFinal, TriggerInv, [Next]_vars, NEW i \in Waypoints
               PROVE  TriggerCountAt(i)'
  BY DEF TriggerCount
<1>2. CASE HLiveTick
  BY <1>1, <1>2, CountTick DEF TriggerInv
<1>3. CASE ~HLiveTick
  <2>1. UNCHANGED <<triggers, state, waypointIndex, abortReason, dwellFired>>
    BY <1>1, <1>3, CallbackFrame, HistoryFrame
       DEF Next, HGatedTick, GatedTick, RecordGatedTick, HElapse, Elapse, RecordElapse,
           machineVars, controlVars, vars, nodeVars, historyVars
  <2>. QED  BY <1>1, <2>1 DEF TriggerInv, TriggerCount, TriggerCountAt, Completed
<1>. QED  BY <1>2, <1>3

LEMMA TriggerInitial == Init => TriggerInv
<1>1. SUFFICES ASSUME Init PROVE TriggerInv
  OBVIOUS
<1>2. RouteInv /\ DwellLatch /\ DwellPending
  BY <1>1 DEF Init, NodeInit, MachineInit, RouteInv, DwellLatch, DwellPending
<1>3. TriggerCount
  <2>1. SUFFICES ASSUME NEW i \in Waypoints PROVE TriggerCountAt(i)
    BY DEF TriggerCount
  <2>2. triggers[i] = 0 /\ ~Completed(i)
    BY <1>1 DEF Init, NodeInit, MachineInit, Completed, Waypoints
  <2>. QED  BY <1>1, <2>2 DEF TriggerCountAt, Init, NodeInit, MachineInit
<1>. QED  BY <1>2, <1>3 DEF TriggerInv

\* No waypoint is triggered twice or before its turn, and a dwell that is long
\* enough for the settle delay and the timer's jitter never ends untriggered.
THEOREM TriggersMatched == Spec => []TriggersMatchVisits
<1>1. TypeInv /\ AbortIsFinal /\ TriggerInv /\ [Next]_vars => TriggerInv'
  BY RouteStep, NodeIsAny, HistoryWatches, CountStep, LatchStep, PendingStep DEF TriggerInv
<1>2. Spec => [](TypeInv /\ TriggerInv)
  BY <1>1, TriggerInitial, TypeCorrect, AbortFinal, PTL DEF Spec, TypeInv
<1>3. TypeInv /\ TriggerInv => TriggersMatchVisits
  <2>1. SUFFICES ASSUME TypeInv, TriggerInv, NEW i \in Waypoints
                 PROVE  /\ triggers[i] <= 1
                        /\ triggers[i] = 1 =>
                             i < waypointIndex \/ (i = waypointIndex /\ state # "WAYPOINT")
                        /\ Completed(i) /\ DwellTime[i] >= DwellSettle + MaxTickGap
                             => triggers[i] = 1
    BY DEF TriggersMatchVisits
  <2>2. TriggerCountAt(i) /\ waypointIndex \in Int /\ i \in Int
    BY <2>1 DEF TypeInv, TypeOK, NodeTypeOK, MachineTypeOK, TriggerInv, TriggerCount, Waypoints
  <2>. QED  BY <2>2 DEF TriggerCountAt, OwesTrigger
<1>. QED  BY <1>2, <1>3, PTL
=============================================================================
