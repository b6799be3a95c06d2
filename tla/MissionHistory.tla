--------------------------- MODULE MissionHistory ---------------------------
(***************************************************************************)
(* The mission node with history variables, and the properties that are    *)
(* about more than one moment of a flight.  The history is built from what *)
(* each tick saw and published, never from the machine's own clocks, so    *)
(* that a bookkeeping mistake in the code shows up as a difference.        *)
(***************************************************************************)
EXTENDS PatrolMissionNode

VARIABLES
  watched,      \* time since the first tick of an unbroken run of live ticks
                \* spent in the current state (Never: no such run)
  settled,      \* the same, for ticks that saw the state's target in tolerance
  triggers,     \* /patrol/dwell events published for each waypoint
  setpoints,    \* ticks that published a setpoint, up to WarmupTicks
  modeAsked,    \* an earlier tick published SET_OFFBOARD
  rawBattery    \* the latest BatteryStatus as received

historyVars == <<watched, settled, triggers, setpoints, modeAsked, rawBattery>>
vars == <<nodeVars, historyVars>>

-----------------------------------------------------------------------------
\* The target whose tolerance ball the current state waits in.
HoldTarget ==
  CASE state = "TAKEOFF" -> TakeoffPoint
    [] state = "WAYPOINT" -> waypointIndex
    [] state = "RTH" -> HomePoint
    [] OTHER -> NoPoint

RunClock(clock) == IF clock = Never THEN 0 ELSE clock

WatchLimit == EntryLimit

RecordLiveTick ==
  /\ watched' = IF state' = state THEN RunClock(watched) ELSE Never
  /\ settled' = IF state' = state /\ HoldTarget \in pos.inside
                THEN RunClock(settled) ELSE Never
  /\ triggers' = IF trigger' = NoTrigger THEN triggers
                 ELSE [triggers EXCEPT ![trigger'] = @ + 1]
  /\ setpoints' = IF cmd'.setpoint # NoPoint /\ setpoints < WarmupTicks
                  THEN setpoints + 1 ELSE setpoints
  /\ modeAsked' = (modeAsked \/ "SET_OFFBOARD" \in sent')
  /\ UNCHANGED rawBattery

RecordGatedTick ==
  /\ watched' = Never
  /\ settled' = Never
  /\ UNCHANGED <<triggers, setpoints, modeAsked, rawBattery>>

RecordElapse ==
  /\ watched' = Older(watched, WatchLimit)
  /\ settled' = Older(settled, HoldTime)
  /\ UNCHANGED <<triggers, setpoints, modeAsked, rawBattery>>

HLiveTick == LiveTick /\ RecordLiveTick
HGatedTick == GatedTick /\ RecordGatedTick
HElapse == Elapse /\ RecordElapse
HOnPos == \E msg \in PosMsgs : OnPos(msg) /\ UNCHANGED historyVars
HOnStatus == \E msg \in StatusMsgs : OnStatus(msg) /\ UNCHANGED historyVars
HOnAbort == \E value \in BOOLEAN : OnAbort(value) /\ UNCHANGED historyVars

HOnBattery ==
  \E msg \in BatteryMsgs :
    /\ OnBattery(msg)
    /\ rawBattery' = msg
    /\ UNCHANGED <<watched, settled, triggers, setpoints, modeAsked>>

Init ==
  /\ NodeInit
  /\ watched = Never
  /\ settled = Never
  /\ triggers = [i \in Waypoints |-> 0]
  /\ setpoints = 0
  /\ modeAsked = FALSE
  /\ rawBattery = [level |-> "unknown", connected |-> FALSE]

Next == HLiveTick \/ HGatedTick \/ HElapse \/ HOnPos \/ HOnStatus \/ HOnAbort \/ HOnBattery

Spec == Init /\ [][Next]_vars

TypeOK ==
  /\ NodeTypeOK
  /\ watched \in Ages(WatchLimit)
  /\ settled \in Ages(HoldTime)
  /\ triggers \in [Waypoints -> Nat]
  /\ setpoints \in 0 .. WarmupTicks
  /\ modeAsked \in BOOLEAN
  /\ rawBattery \in BatteryMsg

-----------------------------------------------------------------------------
\* TAKEOFF, WAYPOINT and RTH end (other than by an abort) only when an unbroken
\* run of live ticks, none of them gated, saw the target in tolerance for
\* HoldTime: neither a telemetry blackout nor an excursion between two readings
\* counts towards the hold of _within_tolerance_for_hold.
HoldsAreObserved ==
  [][ (state \in {"TAKEOFF", "WAYPOINT", "RTH"} /\ state' \notin {state, "ABORT"})
      => /\ HoldTarget \in pos.inside
         /\ RunClock(settled) >= HoldTime ]_vars

\* HOVER and DWELL end (other than by an abort) only after their whole duration
\* was spent in an unbroken run of live ticks: reset_timing() on the resume edge
\* never lets wall time that passed while the machine was not ticking count.
WaitsAreObserved ==
  [][ /\ (state = "HOVER" /\ state' \notin {"HOVER", "ABORT"})
         => RunClock(watched) >= HoverTime
      /\ (state = "DWELL" /\ state' \notin {"DWELL", "ABORT"})
         => RunClock(watched) >= DwellTime[waypointIndex] ]_vars

\* The arming handshake with PX4: the mode switch is never asked for before
\* WarmupTicks setpoints were streamed on earlier ticks, and ARM never rides in
\* the tick of the first mode request nor after the mission turned home.
ArmHandshake ==
  [][ /\ "SET_OFFBOARD" \in sent' => setpoints = WarmupTicks
      /\ ("ARM" \in sent' /\ tickAge' = 0) => modeAsked /\ state' = "ARMING"
    ]_<<sent, setpoints, modeAsked, state>>

\* One capture trigger per visit, as 04 expects of /patrol/dwell: no waypoint is
\* ever triggered twice, none before its turn, and a dwell that was long enough
\* for the settle delay and the timer's jitter never ends without its trigger,
\* whatever pauses and resets happened during it.
Completed(i) == i < waypointIndex \/ (abortReason = "NONE" /\ state \in {"RTH", "LANDING", "DONE"})

TriggersMatchVisits ==
  \A i \in Waypoints :
    /\ triggers[i] <= 1
    /\ triggers[i] = 1 => i < waypointIndex \/ (i = waypointIndex /\ state # "WAYPOINT")
    /\ (Completed(i) /\ DwellTime[i] >= DwellSettle + MaxTickGap) => triggers[i] = 1

\* Once latched, an abort is final: the machine stays on the way home, flies to
\* no other point, asks for no arming or mode change and triggers no capture,
\* whatever /patrol/abort, the battery or a blackout does afterwards.
AbortIsFinal ==
  abortReason # "NONE" =>
    /\ state \in NonAbortable
    /\ cmd.setpoint \in {HomePoint, NoPoint}
    /\ sent \subseteq {"LAND"}
    /\ trigger = NoTrigger

\* No abort is fabricated: a low-battery abort needs a connected, recent and low
\* reading as the newest one received, an external one a /patrol/abort that is
\* True now, and the external signal takes precedence in the record.
AbortJustified ==
  [][ abortReason' # abortReason =>
        \/ abortReason' = "EXTERNAL_SIGNAL" /\ abortRequested
        \/ /\ abortReason' = "LOW_BATTERY" /\ ~abortRequested
           /\ rawBattery = [level |-> "low", connected |-> TRUE]
           /\ batteryAge \in 0 .. BatteryTimeout ]_vars

-----------------------------------------------------------------------------
(* The refinement mapping to PatrolRoute.                                   *)

PhaseOf(s) ==
  CASE s \in {"IDLE", "ARMING"} -> "ground"
    [] s \in {"TAKEOFF", "HOVER", "WAYPOINT", "DWELL"} -> "route"
    [] s \in {"ABORT", "RTH"} -> "return"
    [] s = "LANDING" -> "landing"
    [] s = "DONE" -> "over"

\* The index stays on the last waypoint when its dwell ends the route.
VisitedCount ==
  IF abortReason = "NONE" /\ state \in {"RTH", "LANDING", "DONE"}
  THEN NumWaypoints ELSE waypointIndex

Route == INSTANCE PatrolRoute WITH
  RouteLength <- NumWaypoints,
  phase <- PhaseOf(state),
  visited <- VisitedCount,
  aborted <- abortReason # "NONE"

\* Every behaviour of the node is a behaviour of the abstract patrol: visits in
\* order and none skipped, home only after the last or on an abort, one landing.
RefinesRoute == Route!RouteSpec
=============================================================================
