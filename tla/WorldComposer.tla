----------------------------- MODULE WorldComposer -----------------------------
(***************************************************************************)
(* The World Composer (compose_world.py) and the marker generator          *)
(* (gen_apriltag_models.py) as functions: what they refuse, what they      *)
(* render and what their --check reports.                                  *)
(*                                                                         *)
(* A template is [version, placeholders].  A world file is the version of  *)
(* its body and the sequence of its markers.  A model directory maps its   *)
(* three files to what they hold: the generator's version that wrote them, *)
(* or Damaged, or Missing.                                                 *)
(***************************************************************************)
EXTENDS CheckpointConfig, FiniteSets

CONSTANTS
  Precision  \* 10 to the number of significant digits %g writes: six

ASSUME PrecisionAssumption == Precision \in Nat \ {0}

HalfExtent == 20 * Metre
MinSeparation == 8 * Metre
MinCheckpoints == 3

ModelFiles == <<"config", "sdf", "png">>
Missing == -1
Damaged == -2

NoWorld == [version |-> Damaged, markers |-> <<>>]

-----------------------------------------------------------------------------
(* Reading and the guards of a render.                                      *)

ComposerRow(r) ==
  /\ r.oddity = "none" /\ r.family = "tag36h11" /\ ComposerTag(r.tag)
  /\ ComposerId(r.id) /\ ComposerPosition(r.pos)

\* The header line is skipped, so a bare list reads like a keyed one.
ComposerLoads(doc) ==
  /\ doc.shape \in {"keyed", "bare"} /\ doc.rows # <<>>
  /\ \A i \in 1 .. Len(doc.rows) : ComposerRow(doc.rows[i])

\* int() of the bare text.
MarkerTag(r) == r.tag.val

UniqueMarkerTags(rows) == IsInjective([i \in 1 .. Len(rows) |-> MarkerTag(rows[i])])

\* What %g rounds v to a multiple of: the finest that leaves it Precision's
\* digits.
Grain(v) ==
  LET fine == {g \in Powers : Magnitude(v) < g * Precision}
  IN  CHOOSE g \in fine : \A h \in fine : g <= h

\* v as %g writes it.  A tie, which binary floats break, goes away from zero.
Written(v) ==
  Signed(v, Grain(v) * ((Magnitude(v) + Grain(v) \div 2) \div Grain(v)))

\* %g needs an exponent from a million metres on and below a tenth of a
\* millimetre.
FixedPoint(v) ==
  LET n == Magnitude(Written(v)) IN
    /\ Magnitude(v) < Precision * Metre /\ n < Precision * Metre
    /\ n = 0 \/ 10000 * n >= Metre

Formats(p) == \A k \in 1 .. 3 : FixedPoint(p[k])

\* Mutant: only the tag ids are checked for repeats.
CanRenderRepeatedIds(doc, template, models) ==
  /\ ComposerLoads(doc) /\ UniqueMarkerTags(doc.rows)
  /\ \A i \in 1 .. Len(doc.rows) : MarkerTag(doc.rows[i]) \in DOMAIN models
  /\ \A i \in 1 .. Len(doc.rows) : Formats(doc.rows[i].pos.at)
  /\ template.placeholders = 1

\* load_checkpoints, _run_guards, _find_placeholder_line and _fmt raise
\* nothing.  Only the directory of a model is looked for, not its files.
CanRender(doc, template, models) ==
  /\ ComposerLoads(doc) /\ UniqueMarkerTags(doc.rows) /\ UniqueNames(doc.rows)
  /\ \A i \in 1 .. Len(doc.rows) : MarkerTag(doc.rows[i]) \in DOMAIN models
  /\ \A i \in 1 .. Len(doc.rows) : Formats(doc.rows[i].pos.at)
  /\ template.placeholders = 1

RenderWorld(doc, template) ==
  [version |-> template.version,
   markers |-> [i \in 1 .. Len(doc.rows) |->
                  [name |-> NameOf(doc.rows[i]), tag |-> MarkerTag(doc.rows[i]),
                   at |-> [k \in 1 .. 3 |-> Written(doc.rows[i].pos.at[k])]]]]

-----------------------------------------------------------------------------
(* The checks.  check_drift compares whole files.                           *)

WorldInSync(doc, template, models, world) ==
  CanRender(doc, template, models) /\ world = RenderWorld(doc, template)

Apart(p, q) ==
  LET dx == p[1] - q[1]
      dy == p[2] - q[2]
  IN  dx * dx + dy * dy >= MinSeparation * MinSeparation

InWorld(p) == \A k \in 1 .. 2 : p[k] \in -HalfExtent .. HalfExtent

\* validate_world_design
DesignHolds(doc) ==
  LET n == Len(doc.rows)
      At(i) == doc.rows[i].pos.at
  IN  /\ n >= MinCheckpoints
      /\ \A i \in 1 .. n : InWorld(At(i))
      /\ \A i, j \in 1 .. n : i < j => Apart(At(i), At(j))
      /\ {MarkerTag(doc.rows[i]) : i \in 1 .. n} = 0 .. n - 1

\* table: the canonical grids, tag -> "square" or "malformed"; render_png
\* raises on a malformed one.
Square(table) == \A t \in DOMAIN table : table[t] = "square"

\* Mutant: the models of retired tags are not looked for.
ModelsWithOrphansInSync(table, models, version) ==
  /\ Square(table)
  /\ \A t \in DOMAIN table :
       t \in DOMAIN models /\ \A k \in 1 .. 3 : models[t][k] = version

\* No stale file and no orphan directory.
ModelsInSync(table, models, version) ==
  /\ Square(table)
  /\ \A t \in DOMAIN table :
       t \in DOMAIN models /\ \A k \in 1 .. 3 : models[t][k] = version
  /\ DOMAIN models \subseteq DOMAIN table

-----------------------------------------------------------------------------
(* Writing the models.  The tags are written in order, each in the order   *)
(* config, sdf, png; a malformed grid stops the run before its tag, a kill *)
(* stops it after any number of files, the next one damaged or untouched.  *)

EmptyModel == [k \in 1 .. 3 |-> Missing]

Writable(table, t) == \A u \in DOMAIN table : u <= t => table[u] = "square"

\* Where tag t's k-th file stands in the order of writing, from 1.
Turn(table, t, k) == 3 * Cardinality({u \in DOMAIN table : u < t}) + k

\* Mutant: a directory that exists is taken to be up to date.
WriteNewModels(table, models, version, count, damaged) ==
  [t \in DOMAIN models \cup DOMAIN table |->
     IF t \in DOMAIN models THEN models[t] ELSE [k \in 1 .. 3 |-> version]]

\* The models after count files were written; damaged: the next was begun.
WriteModels(table, models, version, count, damaged) ==
  LET reached == {t \in DOMAIN table : Writable(table, t) /\ Turn(table, t, 1) <= count + damaged}
  IN  [t \in DOMAIN models \cup reached |->
         LET old == IF t \in DOMAIN models THEN models[t] ELSE EmptyModel IN
         IF t \notin reached THEN old
         ELSE [k \in 1 .. 3 |->
                 IF Turn(table, t, k) <= count THEN version
                 ELSE IF Turn(table, t, k) = count + damaged THEN Damaged
                 ELSE old[k]]]

AllFiles(table) == 3 * Cardinality(DOMAIN table)
================================================================================
