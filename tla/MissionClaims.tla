---------------------------- MODULE MissionClaims ----------------------------
(***************************************************************************)
(* Two statements that comments of node.py make about the node, checked    *)
(* against what it does.  Each needs one more history variable.            *)
(***************************************************************************)
EXTENDS MissionHistory

VARIABLES
  heardAbort,   \* a True arrived on /patrol/abort during the flight
  heldDwell     \* time since the first tick of the unbroken run of live ticks
                \* that ended in DWELL

claimVars == <<vars, heardAbort, heldDwell>>

InFlight == state \in {"TAKEOFF", "HOVER", "WAYPOINT", "DWELL"}

CInit == Init /\ heardAbort = FALSE /\ heldDwell = Never

CNext ==
  \/ /\ HLiveTick
     /\ heldDwell' = IF state' = "DWELL" THEN RunClock(heldDwell) ELSE Never
     /\ UNCHANGED heardAbort
  \/ HGatedTick /\ heldDwell' = Never /\ UNCHANGED heardAbort
  \/ HElapse /\ heldDwell' = Older(heldDwell, DwellSettle) /\ UNCHANGED heardAbort
  \/ /\ HOnAbort
     /\ heardAbort' = (heardAbort \/ (abortRequested' /\ InFlight))
     /\ UNCHANGED heldDwell
  \/ (HOnPos \/ HOnStatus \/ HOnBattery) /\ UNCHANGED <<heardAbort, heldDwell>>

CSpec == CInit /\ [][CNext]_claimVars

\* node.py: "a momentary external True still drives the full return home": once
\* a True has arrived, the next live tick has the mission on its way home.
MomentaryAbortReturnsHome ==
  [][ (heardAbort /\ HLiveTick) => state' \in NonAbortable ]_claimVars

\* node.py: /patrol/dwell fires "once the drone has held DWELL for
\* _DWELL_SETTLE_S", and no window completes "on wall-time that elapsed while the
\* machine was NOT ticking": the settle time was spent in DWELL on live ticks.
TriggerAfterHeldDwell ==
  [][ trigger' # NoTrigger /\ trigger' # trigger
      => RunClock(heldDwell) >= DwellSettle ]_claimVars
=============================================================================
