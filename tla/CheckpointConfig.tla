--------------------------- MODULE CheckpointConfig ----------------------------
(***************************************************************************)
(* The perception node's reader of checkpoints.yaml                        *)
(* (checkpoint_config.py).                                                 *)
(*                                                                         *)
(* A document is [shape, rows]: "keyed" (a mapping with a checkpoints: key *)
(* holding the list), "bare" (the list itself) or "other".  A row is       *)
(* [oddity, id, tag, family, pos]; its oddity: a field is "missing",       *)
(* "extra" or given "twice" (PyYAML keeps the last), or "none".            *)
(***************************************************************************)
EXTENDS ConfigScalars, Functions, Sequences

RowOddities == {"none", "missing", "extra", "twice"}
Families == {"tag36h11", "other", "empty"}

PerceptionRow(r) ==
  /\ r.oddity # "missing" /\ r.family # "empty" /\ PerceptionTag(r.tag)
  /\ PerceptionId(r.id) /\ PerceptionPosition(r.pos)

TagOf(r) == YamlValue(r.tag.form, r.tag.val)
NameOf(r) == r.id.name

UniqueTags(rows) == IsInjective([i \in 1 .. Len(rows) |-> TagOf(rows[i])])
UniqueNames(rows) == IsInjective([i \in 1 .. Len(rows) |-> NameOf(rows[i])])

PerceptionLoads(doc) ==
  /\ doc.shape = "keyed" /\ doc.rows # <<>>
  /\ \A i \in 1 .. Len(doc.rows) : PerceptionRow(doc.rows[i])
  /\ UniqueTags(doc.rows)

\* {tag_id: entry}
PerceptionMap(doc) ==
  [t \in {TagOf(doc.rows[i]) : i \in 1 .. Len(doc.rows)} |->
     LET i == CHOOSE i \in 1 .. Len(doc.rows) : TagOf(doc.rows[i]) = t
     IN  [id |-> NameOf(doc.rows[i]), family |-> doc.rows[i].family,
          at |-> YamlPoint(doc.rows[i].pos)]]
================================================================================
