------------------------ MODULE ConfigurationProperties ------------------------
(***************************************************************************)
(* What the readers of the configuration owe each other: the same patrol.  *)
(***************************************************************************)
EXTENDS PatrolConfiguration

Origin == <<0, 0, 0>>  \* _EKF_ORIGIN_NED

\* No scalar that the line reader and PyYAML type or read differently.
PlainlyTyped ==
  \A i \in 1 .. Len(checkpoints.rows) :
    LET r == checkpoints.rows[i] IN
      r.id.form = "plain" /\ r.pos.form = "plain" /\ r.tag.form = "plain"

\* What %g makes of q: no coordinate is off by more than half its grain.
Near(p, q) == \A k \in 1 .. 3 : 2 * Magnitude(p[k] - q[k]) <= Grain(q[k])

Loads == MissionLoads(mission, path, checkpoints)

NoTag == -3

\* External: the tag a detector reads off marker mk, if its model is whole.
DetectedTag(mk) ==
  IF mk.tag \in DOMAIN models /\ \A k \in 1 .. 3 : models[mk.tag][k] \in {0, 1}
    THEN mk.tag ELSE NoTag

\* A clean gate means one patrol: every marker of the world shows a tag that
\* perception maps to the checkpoint of that marker, at the very position the
\* mission flies to for it, the marker stands there to within the rounding of
\* the composer, and there is a marker for every checkpoint.  The gate reads
\* the file with a line reader of its own, the nodes with PyYAML; the claim
\* needs the file keyed and its scalars plainly typed, which the gate does not
\* check: it passes an unquoted id of digits or a coordinate like 1e0, which
\* keep the perception node from starting, and a coordinate like 012, which the
\* nodes read as 10.
CleanMeansOnePatrol ==
  (GateClean /\ checkpoints.shape = "keyed" /\ PlainlyTyped) =>
    /\ PerceptionLoads(checkpoints) /\ CheckpointsLoad(checkpoints)
    /\ LET table_ == CheckpointTable(checkpoints)
           map == PerceptionMap(checkpoints)
           markers == {world.markers[i] : i \in 1 .. Len(world.markers)}
       IN  /\ \A mk \in markers :
                /\ DetectedTag(mk) \in DOMAIN map
                /\ map[DetectedTag(mk)]
                     = [id |-> mk.name, family |-> "tag36h11", at |-> table_[mk.name]]
                /\ Near(mk.at, table_[mk.name])
           /\ DOMAIN table_ = {mk.name : mk \in markers}

\* Two nodes that both start agree: whatever file mission and perception both
\* accept, however its numbers are spelled, perception's entry for a tag names
\* a checkpoint the mission knows, and at the same position.  What the composer
\* accepts beside the mission it places where the mission flies, to within its
\* rounding, unless the coordinates have leading zeros: 012 is 12 to the
\* composer and 10 to the nodes, and each is content with its reading.
ReadersAgree ==
  /\ (PerceptionLoads(checkpoints) /\ CheckpointsLoad(checkpoints)) =>
       \A t \in DOMAIN PerceptionMap(checkpoints) :
         LET entry == PerceptionMap(checkpoints)[t] IN
           CheckpointTable(checkpoints)[entry.id] = entry.at
  /\ (CanRender(checkpoints, template, models) /\ CheckpointsLoad(checkpoints)) =>
       \A i \in 1 .. Len(checkpoints.rows) :
         LET mk == RenderWorld(checkpoints, template).markers[i] IN
           checkpoints.rows[i].pos.form # "zeros" =>
             Near(mk.at, CheckpointTable(checkpoints)[mk.name])

Forward(heading) ==
  CASE heading = 0 -> <<1, 0, 0>> [] heading = QuarterTurn -> <<0, 1, 0>>
    [] heading = HalfTurn -> <<-1, 0, 0>> [] heading = -QuarterTurn -> <<0, -1, 0>>

Times(n, p) == <<n * p[1], n * p[2], n * p[3]>>

\* Hovers face their tags, and captures say where: the setpoint of a
\* checkpoint waypoint, after the mission's conversion to NED, is standoff_m in
\* front of the tag along the commanded heading and a climb above it; the
\* pose perception records there converts back to the point the mission file
\* meant, for an inline waypoint of either frame too.
HoversFaceTags ==
  Loads =>
    \A i \in 1 .. Len(Items(mission)) :
      LET w == Route(mission, checkpoints)[i]
          setpoint == ToNedFromOrigin(w.at, w.frame, Origin)
          recorded == ToEnuFromNed(setpoint, Origin)
      IN  /\ w.frame = "enu" => recorded = w.at
          /\ w.frame = "ned" => setpoint = w.at
          /\ w.id # "none" =>
               LET tag == CheckpointTable(checkpoints)[w.id]
                   heading == EnuYawToNed(w.yaw)
                   below == Plus(setpoint, <<0, 0, Climb(mission)>>)
               IN  /\ Plus(below, Times(Standoff(mission), Forward(heading)))
                        = SwapAxes(tag)
                   /\ NedYawToEnu(heading) = w.yaw

-----------------------------------------------------------------------------
\* The sources can be built.
Buildable ==
  /\ ComposerLoads(checkpoints) /\ UniqueNames(checkpoints.rows)
  /\ \A i \in 1 .. Len(checkpoints.rows) : Formats(checkpoints.rows[i].pos.at)
  /\ DesignHolds(checkpoints) /\ template.placeholders = 1 /\ Square(table)
  /\ \A i \in 1 .. Len(checkpoints.rows) : MarkerTag(checkpoints.rows[i]) \in DOMAIN table

\* The gate's advice repairs: whatever was edited, touched, killed half-way or
\* removed, rerunning the two generators and removing orphans in any order
\* ends in a clean gate once the sources stay buildable.  The composer needs
\* the model directories and the generator never removes one, so neither
\* repairs alone.
AdviceRepairs == <>[]Buildable => <>[]GateClean

Advice == ComposeWorld \/ GenerateModels \/ RemoveOrphans

\* The gate and the tools mean the same by clean: over a clean gate none of the
\* three changes a file, in whatever order they are rerun, so that what the
\* checks compare with is what the tools write and leave, and regenerating
\* never dirties a clean checkout.
CleanIsFixed == [][GateClean /\ Advice => UNCHANGED configVars]_configVars
================================================================================
