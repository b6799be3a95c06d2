----------------------------- MODULE MissionConfig -----------------------------
(***************************************************************************)
(* load_mission_config (config.py): which mission documents load, with     *)
(* which checkpoints file, and the route a loaded mission flies.           *)
(*                                                                         *)
(* A mission document m has                                                *)
(*   shape      "mapping" or "other"                                       *)
(*   keys       its top-level keys                                         *)
(*   sections   the shape of completion, abort and approach                *)
(*   numbers    the token of every scalar number                           *)
(*   home       [shape, keys, pos, frame]                                  *)
(*   waypoints  [shape, items], an item being [shape, keys, id, pos,       *)
(*              frame, dwell]                                              *)
(* Units make the defaults whole: tolerance_m in half metres,              *)
(* low_battery_threshold in fifths, camera_pitch_rad in eighths of a turn  *)
(* (one of them standing for the default 0.35 rad).                        *)
(***************************************************************************)
EXTENDS CheckpointConfig, Frames

RequiredKeys == {"takeoff_alt_m", "hover_time_s", "home", "waypoints"}
SectionKeys == {"completion", "abort", "approach"}
KnownKeys == RequiredKeys \cup SectionKeys

Defaults == [tolerance_m |-> 1, hold_time_s |-> 2, low_battery_threshold |-> 1,
             standoff_m |-> 3, camera_pitch_rad |-> 1]
SectionOf == [tolerance_m |-> "completion", hold_time_s |-> "completion",
              low_battery_threshold |-> "abort",
              standoff_m |-> "approach", camera_pitch_rad |-> "approach"]
TopNumbers == {"takeoff_alt_m", "hover_time_s"}
NumberFields == TopNumbers \cup DOMAIN Defaults

FullThreshold == 5  \* 1.0, in fifths
ClimbRate == <<0, 1>>  \* tan of no pitch and of one eighth of a turn

\* _section: an omitted section takes the defaults.
SectionLoads(m, s) == s \in m.keys => m.sections[s] = "mapping"

NumberGiven(m, f) == f \in TopNumbers \/ SectionOf[f] \in m.keys

NumberLoads(m, f) == NumberGiven(m, f) => MissionNumber(m.numbers[f].form)

Value(m, f) == IF NumberGiven(m, f) THEN m.numbers[f].val ELSE Defaults[f]

\* _validate_semantics, without the dwells
InRange(m, f) ==
  LET v == Value(m, f) IN
    CASE f \in {"takeoff_alt_m", "tolerance_m", "standoff_m"} -> v > 0
      [] f \in {"hover_time_s", "hold_time_s"} -> v >= 0
      [] f = "low_battery_threshold" -> v \in 0 .. FullThreshold
      [] f = "camera_pitch_rad" -> v \in 0 .. QuarterTurn - 1

-----------------------------------------------------------------------------
(* The checkpoints file: read only when a waypoint refers to it.            *)

Items(m) == m.waypoints.items

Refers(w) == "checkpoint_id" \in w.keys

ReferencesCheckpoint(m) == \E i \in 1 .. Len(Items(m)) : Refers(Items(m)[i])

\* Mutant: the check for repeated ids is left out.
RowsReadable(doc) ==
  /\ doc.shape \in {"keyed", "bare"}
  /\ \A i \in 1 .. Len(doc.rows) : MissionId(doc.rows[i].id) /\ MissionPosition(doc.rows[i].pos)

CheckpointsLoad(doc) ==
  /\ doc.shape \in {"keyed", "bare"}
  /\ \A i \in 1 .. Len(doc.rows) : MissionId(doc.rows[i].id) /\ MissionPosition(doc.rows[i].pos)
  /\ UniqueNames(doc.rows)

\* {checkpoint_id: position}
CheckpointTable(doc) ==
  [n \in {NameOf(doc.rows[i]) : i \in 1 .. Len(doc.rows)} |->
     YamlPoint(doc.rows[CHOOSE i \in 1 .. Len(doc.rows) : NameOf(doc.rows[i]) = n].pos)]

\* path: "none", "relative", "missing" (absolute, no such file) or "absolute".
CheckpointsResolve(m, path, doc) ==
  ReferencesCheckpoint(m) => path = "absolute" /\ CheckpointsLoad(doc)

-----------------------------------------------------------------------------
(* Waypoints: exactly one of two shapes, with exactly its keys.             *)

CheckpointKeys == {"checkpoint_id", "dwell_s"}
InlineKeys == {"position", "frame", "dwell_s"}

WaypointLoads(w, doc) ==
  /\ w.shape = "mapping"
  /\ MissionNumber(w.dwell.form) /\ w.dwell.val >= 0
  /\ \/ /\ w.keys = CheckpointKeys /\ MissionId(w.id)
        /\ w.id.name \in DOMAIN CheckpointTable(doc)
     \/ w.keys = InlineKeys /\ w.frame \in FrameNames /\ MissionPosition(w.pos)

HomeLoads(home) ==
  /\ home.shape = "mapping" /\ {"position", "frame"} \subseteq home.keys
  /\ home.frame \in FrameNames /\ MissionPosition(home.pos)

MissionLoads(m, path, doc) ==
  /\ m.shape = "mapping" /\ m.keys \subseteq KnownKeys /\ RequiredKeys \subseteq m.keys
  /\ \A s \in SectionKeys : SectionLoads(m, s)
  /\ HomeLoads(m.home)
  /\ m.waypoints.shape = "list" /\ CheckpointsResolve(m, path, doc)
  /\ \A i \in 1 .. Len(Items(m)) : WaypointLoads(Items(m)[i], doc)
  /\ \A f \in NumberFields : NumberLoads(m, f) /\ InRange(m, f)

\* _approach_pose: standoff_m north of the tag, facing it, high enough for the
\* pitched camera.  atan2(-standoff, 0) is a quarter turn clockwise of East.
Standoff(m) == Metre * Value(m, "standoff_m")
Climb(m) == Standoff(m) * ClimbRate[Value(m, "camera_pitch_rad") + 1]

ApproachPose(m, tag) ==
  [at |-> Plus(tag, <<0, Standoff(m), Climb(m)>>), yaw |-> -QuarterTurn]

NoYaw == 99

\* The waypoints of a mission that loads.
Route(m, doc) ==
  [i \in 1 .. Len(Items(m)) |->
     LET w == Items(m)[i] IN
       IF Refers(w)
         THEN LET pose == ApproachPose(m, CheckpointTable(doc)[w.id.name])
              IN  [at |-> pose.at, frame |-> "enu", id |-> w.id.name, yaw |-> pose.yaw]
         ELSE [at |-> w.pos.at, frame |-> w.frame, id |-> "none", yaw |-> NoYaw]]
================================================================================
