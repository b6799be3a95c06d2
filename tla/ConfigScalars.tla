----------------------------- MODULE ConfigScalars -----------------------------
(***************************************************************************)
(* What an author may type where a configuration file wants a number, a    *)
(* position or a checkpoint id, and which of it each of the three readers  *)
(* of checkpoints.yaml takes: the mission (config.py, PyYAML and float()), *)
(* the perception node (checkpoint_config.py, PyYAML and isinstance) and   *)
(* the World Composer (compose_world.py, its own line reader).             *)
(*                                                                         *)
(* A number is [form, val].  The forms: "plain" 1.0; "exponent" 1e0, which *)
(* PyYAML reads as a string; "zeros" 012, in base eight to PyYAML if its   *)
(* digits allow it and a string if not; "quoted" "1.0"; "nan" .nan; "bool" *)
(* true; "word" anything else, null included.  In checkpoints.yaml, which  *)
(* has several readers, val is the number in decimal; in the mission, which*)
(* has one, what that reader makes of it.                                  *)
(*                                                                         *)
(* Lengths are whole numbers of a unit; Metre is a metre in units.         *)
(***************************************************************************)
EXTENDS Integers

CONSTANTS
  Metre  \* the finer the unit, the more digits a coordinate may have

Powers == {1, 10, 100, 1000, 10000, 100000}

ASSUME MetreAssumption == Metre \in Powers

NumberForms == {"plain", "exponent", "zeros", "quoted", "nan", "bool", "word"}
IdForms == {"plain", "dotted", "numeric", "empty"}

Plain(v) == [form |-> "plain", val |-> v]

Magnitude(v) == IF v < 0 THEN -v ELSE v
Signed(v, n) == IF v < 0 THEN -n ELSE n

-----------------------------------------------------------------------------
(* Leading zeros.  Bound: the numbers have up to six digits.                *)

Digit(v, power) == (Magnitude(v) \div power) % 10

OctalDigits(v) == \A power \in Powers : Digit(v, power) < 8

\* The digits of v, read in base eight.
Octal(v) ==
  Signed(v, Digit(v, 1) + 8 * Digit(v, 10) + 64 * Digit(v, 100) + 512 * Digit(v, 1000)
              + 4096 * Digit(v, 10000) + 32768 * Digit(v, 100000))

\* External: the number PyYAML, and float() after it, make of a token.
YamlValue(form, v) == IF form = "zeros" /\ OctalDigits(v) THEN Octal(v) ELSE v

-----------------------------------------------------------------------------
(* What each reader takes.                                                  *)

\* _number: float() succeeds, the value is finite and not a bool.
MissionNumber(form) == form \in {"plain", "exponent", "zeros", "quoted"}

\* _require_number: an int or a float, finite or not.
PerceptionNumber(form, v) ==
  form \in {"plain", "nan", "zeros"} /\ (form = "zeros" => OctalDigits(v))

\* _numeric_token: the bare text is a finite float, in decimal.
ComposerNumber(form) == form \in {"plain", "exponent", "zeros"}

\* tag_id: an int to PyYAML; int() of the bare text.
PerceptionTag(t) == t.form # "nan" /\ PerceptionNumber(t.form, t.val)
ComposerTag(t) == t.form \in {"plain", "zeros"}

\* A position is [style, form, at]: a flow or block mapping, a scalar, or a
\* mapping that lacks an axis; the form of its numbers, "zeros" only in whole
\* metres; the point.
Styles == {"flow", "block", "scalar", "short"}

WholeMetres(at) == \A k \in 1 .. 3 : at[k] % Metre = 0

MissionPosition(p) == p.style \in {"flow", "block"} /\ MissionNumber(p.form)

PerceptionPosition(p) ==
  /\ p.style \in {"flow", "block"}
  /\ \A k \in 1 .. 3 : PerceptionNumber(p.form, p.at[k] \div Metre)

ComposerPosition(p) == p.style = "flow" /\ ComposerNumber(p.form)

\* Where the two YAML readers find a position of checkpoints.yaml.
YamlPoint(p) ==
  LET Read(v) == IF p.form = "zeros" THEN Metre * YamlValue(p.form, v \div Metre) ELSE v
  IN  <<Read(p.at[1]), Read(p.at[2]), Read(p.at[3])>>

\* A checkpoint id is [form, name]: letters, with a dot, unquoted digits (an
\* int to PyYAML), or the empty string.
MissionId(c) == c.form # "numeric"
PerceptionId(c) == c.form \in {"plain", "dotted"}
ComposerId(c) == c.form \in {"plain", "numeric"}
================================================================================
