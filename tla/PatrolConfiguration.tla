-------------------------- MODULE PatrolConfiguration --------------------------
(***************************************************************************)
(* The files a patrol is configured by, and their life: authors edit the   *)
(* checkpoints, the mission, the world template and the marker generator;  *)
(* the two generators write the world and the models, and may be killed;   *)
(* generated files may be touched by hand.                                 *)
(*                                                                         *)
(* Nothing here runs concurrently with a flight: the nodes read the files  *)
(* as they find them when they start.                                      *)
(***************************************************************************)
EXTENDS MissionConfig, WorldComposer

CONSTANTS
  MaxMishaps  \* bound: edits by hand and killed generator runs, together

ASSUME ConfigurationAssumption == MaxMishaps \in Nat

VARIABLES
  checkpoints,  \* sim/config/checkpoints.yaml
  mission,      \* patrol_mission.yaml
  path,         \* the checkpoints_yaml argument of the launch
  template,     \* the world template
  table,        \* CANONICAL_TAG36H11
  version,      \* of the marker generator
  models,       \* sim/models/apriltag_36h11_*
  world,        \* sim/worlds/patrol_world.sdf
  mishaps       \* so far

configVars == <<checkpoints, mission, path, template, table, version, models, world, mishaps>>

-----------------------------------------------------------------------------
(* The shipped files, rounded to whole metres and with the inline waypoint   *)
(* off the diagonal, and what an author may do to each.                      *)

Metres(p) == <<Metre * p[1], Metre * p[2], Metre * p[3]>>

Position(at) == [style |-> "flow", form |-> "plain", at |-> Metres(at)]
Name(n) == [form |-> "plain", name |-> n]
Row(n, t, at) ==
  [oddity |-> "none", id |-> Name(n), tag |-> Plain(t), family |-> "tag36h11",
   pos |-> Position(at)]

ShippedRows ==
  <<Row("a", 0, <<12, 8, 1>>), Row("b", 1, <<18, -6, 1>>), Row("c", 2, <<-10, -12, 1>>)>>

CheckpointItem(n) ==
  [shape |-> "mapping", keys |-> CheckpointKeys, id |-> Name(n),
   pos |-> Position(<<0, 0, 0>>), frame |-> "enu", dwell |-> Plain(6)]

InlineItem ==
  [shape |-> "mapping", keys |-> InlineKeys, id |-> Name("none"),
   pos |-> Position(<<5, 4, 2>>), frame |-> "enu", dwell |-> Plain(6)]

ShippedMission ==
  [shape |-> "mapping", keys |-> KnownKeys,
   sections |-> [s \in SectionKeys |-> "mapping"],
   numbers |-> [f \in NumberFields |->
                  Plain(CASE f = "takeoff_alt_m" -> 5 [] f = "hover_time_s" -> 10
                          [] OTHER -> Defaults[f])],
   home |-> [shape |-> "mapping", keys |-> {"position", "frame"},
             pos |-> Position(<<0, 0, 2>>), frame |-> "enu"],
   waypoints |-> [shape |-> "list",
                  items |-> <<CheckpointItem("a"), CheckpointItem("b"), InlineItem>>]]

\* One of them has a digit more than whole metres have.
Points ==
  {Metres(at) : at \in {<<12, 8, 1>>, <<12, 1, 1>>, <<21, 0, 1>>, <<Precision, 0, 1>>}}
    \cup {Plus(Metres(<<18, -6, 1>>), <<4, 0, 0>>)}

PositionEdits(p) ==
  {[p EXCEPT !.at = at, !.form = "plain"] : at \in Points}
    \cup {[p EXCEPT !.form = form] :
            form \in {f \in NumberForms : f = "zeros" => WholeMetres(p.at)}}
    \cup {[p EXCEPT !.style = style] : style \in Styles}

NumberEdits(t) ==
  {[t EXCEPT !.form = form] : form \in NumberForms}
    \cup {[t EXCEPT !.val = val] : val \in {-1, 0, 2, 6}}

IdEdits(c) ==
  {[c EXCEPT !.form = form] : form \in IdForms}
    \cup {[c EXCEPT !.name = n] : n \in {"a", "b", "d"}}

RowEdits(r) ==
  {[r EXCEPT !.oddity = oddity] : oddity \in RowOddities}
    \cup {[r EXCEPT !.id = c] : c \in IdEdits(r.id)}
    \cup {[r EXCEPT !.tag = t] : t \in {Plain(0), Plain(1), Plain(2), Plain(3),
                                          [form |-> "quoted", val |-> 0],
                                          [form |-> "zeros", val |-> 10]}}
    \cup {[r EXCEPT !.family = family] : family \in Families}
    \cup {[r EXCEPT !.pos = p] : p \in PositionEdits(r.pos)}

ItemEdits(w) ==
  {[w EXCEPT !.shape = "scalar"], [w EXCEPT !.id = Name("d")],
   [w EXCEPT !.id.form = "numeric"], [w EXCEPT !.keys = CheckpointKeys \cup InlineKeys],
   [w EXCEPT !.keys = @ \cup {"tolerance_m"}], [w EXCEPT !.keys = {}]}
    \cup {[w EXCEPT !.dwell = t] : t \in NumberEdits(w.dwell)}
    \cup {[w EXCEPT !.keys = @ \ {key}] : key \in {"dwell_s", "frame"}}
    \cup {[w EXCEPT !.frame = f] : f \in {"ned", "body"}}
    \cup {[w EXCEPT !.pos = p] : p \in PositionEdits(w.pos)}

-----------------------------------------------------------------------------
(* Edits.                                                                   *)

Mishap == mishaps < MaxMishaps /\ mishaps' = mishaps + 1

sourcesButCheckpoints == <<mission, path, template, table, version>>
generated == <<models, world>>

EditCheckpoints ==
  /\ Mishap
  /\ \/ \E shape \in {"keyed", "bare", "other"} : checkpoints' = [checkpoints EXCEPT !.shape = shape]
     \/ \E i \in 1 .. Len(checkpoints.rows) :
          \/ \E r \in RowEdits(checkpoints.rows[i]) :
               checkpoints' = [checkpoints EXCEPT !.rows[i] = r]
          \/ checkpoints' = [checkpoints EXCEPT !.rows =
                               SubSeq(@, 1, i - 1) \o SubSeq(@, i + 1, Len(@))]
     \/ /\ Len(checkpoints.rows) = 3
        /\ checkpoints' = [checkpoints EXCEPT !.rows = Append(@, Row("d", 3, <<-12, 10, 1>>))]
  /\ UNCHANGED <<sourcesButCheckpoints, generated>>

EditMission ==
  /\ Mishap
  /\ mission' \in
       {[mission EXCEPT !.shape = "other"], [mission EXCEPT !.keys = @ \cup {"aproach"}],
        [mission EXCEPT !.waypoints.shape = "null"], [mission EXCEPT !.home.shape = "null"],
        [mission EXCEPT !.home.keys = {"frame"}], [mission EXCEPT !.waypoints.items = <<InlineItem>>]}
         \cup {[mission EXCEPT !.keys = @ \ {key}] : key \in KnownKeys}
         \cup (UNION {{[mission EXCEPT !.sections[s] = shape] : shape \in {"null", "scalar", "misspelled"}} :
                        s \in SectionKeys})
         \cup (UNION {{[mission EXCEPT !.numbers[f] = t] : t \in NumberEdits(mission.numbers[f])} :
                        f \in NumberFields})
         \cup (UNION {{[mission EXCEPT !.waypoints.items[i] = w] : w \in ItemEdits(Items(mission)[i])} :
                        i \in 1 .. Len(Items(mission))})
  /\ UNCHANGED <<checkpoints, path, template, table, version, generated>>

EditLaunch ==
  /\ Mishap /\ path' \in {"none", "relative", "missing", "absolute"}
  /\ UNCHANGED <<checkpoints, mission, template, table, version, generated>>

EditTemplate ==
  /\ Mishap
  /\ \/ template' = [template EXCEPT !.version = 1 - @]
     \/ \E n \in 0 .. 2 : template' = [template EXCEPT !.placeholders = n]
  /\ UNCHANGED <<checkpoints, mission, path, table, version, generated>>

EditGenerator ==
  /\ Mishap
  /\ \/ version' = 1 - version /\ UNCHANGED table
     \/ /\ UNCHANGED version
        /\ \/ \E t \in DOMAIN table : table' = [u \in DOMAIN table \ {t} |-> table[u]]
           \/ \E t \in DOMAIN table, g \in {"square", "malformed"} : table' = [table EXCEPT ![t] = g]
           \/ table' = [u \in DOMAIN table \cup {3} |-> IF u \in DOMAIN table THEN table[u] ELSE "square"]
  /\ UNCHANGED <<checkpoints, mission, path, template, generated>>

\* A generated file edited by hand, or merged badly.
TouchGenerated ==
  /\ Mishap
  /\ \/ /\ UNCHANGED models
        /\ \/ \E i \in 1 .. Len(world.markers), at \in Points : world' = [world EXCEPT !.markers[i].at = at]
           \/ \E i \in 1 .. Len(world.markers), t \in 0 .. 3 : world' = [world EXCEPT !.markers[i].tag = t]
           \/ world' = [world EXCEPT !.markers = IF @ = <<>> THEN @ ELSE Tail(@)]
     \/ /\ UNCHANGED world
        /\ \E t \in DOMAIN models, k \in 1 .. 3, held \in {Missing, Damaged} :
             models' = [models EXCEPT ![t][k] = held]
  /\ UNCHANGED <<checkpoints, mission, path, template, table, version>>

-----------------------------------------------------------------------------
(* The tools.                                                               *)

sources == <<checkpoints, mission, path, template, table, version>>

ComposeWorld ==
  /\ CanRender(checkpoints, template, models)
  /\ world' = RenderWorld(checkpoints, template)
  /\ UNCHANGED <<sources, models, mishaps>>

ComposeKilled ==
  /\ Mishap
  /\ CanRender(checkpoints, template, models) /\ world' = NoWorld
  /\ UNCHANGED <<sources, models>>

GenerateModels ==
  /\ models' = WriteModels(table, models, version, AllFiles(table), 0)
  /\ UNCHANGED <<sources, world, mishaps>>

GenerateKilled ==
  /\ Mishap
  /\ \E count \in 0 .. AllFiles(table) - 1, damaged \in 0 .. 1 :
       models' = WriteModels(table, models, version, count, damaged)
  /\ UNCHANGED <<sources, world>>

\* By hand, as the check advises.
RemoveOrphans ==
  /\ models' = [t \in DOMAIN models \cap DOMAIN table |-> models[t]]
  /\ UNCHANGED <<sources, world, mishaps>>

Init ==
  /\ checkpoints = [shape |-> "keyed", rows |-> ShippedRows]
  /\ mission = ShippedMission /\ path = "absolute"
  /\ template = [version |-> 0, placeholders |-> 1]
  /\ table = [t \in 0 .. 2 |-> "square"] /\ version = 0
  /\ models = [t \in 0 .. 2 |-> [k \in 1 .. 3 |-> 0]]
  /\ world = RenderWorld(checkpoints, template)
  /\ mishaps = 0

Authors ==
  EditCheckpoints \/ EditMission \/ EditLaunch \/ EditTemplate \/ EditGenerator \/ TouchGenerated

Tools == ComposeWorld \/ ComposeKilled \/ GenerateModels \/ GenerateKilled \/ RemoveOrphans

Next == Authors \/ Tools

Spec == Init /\ [][Next]_configVars

\* Whoever sees the gate fail does what it says until it passes.
FollowsAdvice ==
  /\ WF_configVars(ComposeWorld)
  /\ WF_configVars(GenerateModels)
  /\ WF_configVars(RemoveOrphans)

FairSpec == Spec /\ FollowsAdvice

\* check_world_drift.py, but for its camera topic check.
GateClean ==
  /\ WorldInSync(checkpoints, template, models, world)
  /\ DesignHolds(checkpoints)
  /\ ModelsInSync(table, models, version)
================================================================================
