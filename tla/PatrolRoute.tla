----------------------------- MODULE PatrolRoute -----------------------------
(***************************************************************************)
(* What a patrol mission promises, with no clocks, telemetry or setpoints: *)
(* every waypoint is visited once, in order; the vehicle turns home only   *)
(* after the last one or on an abort; an abort is never taken back and     *)
(* skips the rest of the route; the vehicle lands only on its way home and *)
(* a landed mission is over.                                               *)
(***************************************************************************)
EXTENDS Naturals

CONSTANT RouteLength

VARIABLES
  phase,     \* "ground", "route", "return", "landing" or "over"
  visited,   \* how many waypoints have been dwelled at
  aborted    \* whether the route was cut short

routeVars == <<phase, visited, aborted>>

RouteInit == phase = "ground" /\ visited = 0 /\ aborted = FALSE

Launch ==
  /\ phase = "ground"
  /\ phase' = "route"
  /\ UNCHANGED <<visited, aborted>>

Visit ==
  /\ phase = "route" /\ visited < RouteLength
  /\ visited' = visited + 1
  /\ phase' = IF visited' = RouteLength THEN "return" ELSE "route"
  /\ UNCHANGED aborted

\* A mission without waypoints goes home from the hover.
SkipRoute ==
  /\ phase = "route" /\ RouteLength = 0
  /\ phase' = "return"
  /\ UNCHANGED <<visited, aborted>>

CutShort ==
  /\ phase \in {"ground", "route"}
  /\ phase' = "return" /\ aborted' = TRUE
  /\ UNCHANGED visited

Land ==
  /\ phase = "return"
  /\ phase' = "landing"
  /\ UNCHANGED <<visited, aborted>>

Finish ==
  /\ phase = "landing"
  /\ phase' = "over"
  /\ UNCHANGED <<visited, aborted>>

RouteNext == Launch \/ Visit \/ SkipRoute \/ CutShort \/ Land \/ Finish

RouteSpec == RouteInit /\ [][RouteNext]_routeVars
=============================================================================
