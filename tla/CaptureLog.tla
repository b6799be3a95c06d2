------------------------------- MODULE CaptureLog -------------------------------
(***************************************************************************)
(* What the perception node promises: a log of captures that only grows,   *)
(* one entry at a time and never two in a row for the same visit, and an   *)
(* archive from which nothing that was archived ever disappears.           *)
(***************************************************************************)
EXTENDS Naturals, Sequences

CONSTANTS
  Visits,   \* visit tokens
  Places    \* checkpoint ids

VARIABLES
  log,      \* the captures, as [visit, place, archived]
  archive   \* the numbers of the captures that can be read back from disk

logVars == <<log, archive>>

LogInit == log = <<>> /\ archive = {}

Fresh(visit) == log # <<>> => log[Len(log)].visit # visit

\* A capture whose files could not be written is logged as such.
Record(visit, place, archived) ==
  /\ Fresh(visit)
  /\ log' = Append(log, [visit |-> visit, place |-> place, archived |-> archived])
  /\ archive' = IF archived THEN archive \cup {Len(log')} ELSE archive

LogNext == \E visit \in Visits, place \in Places, archived \in BOOLEAN :
             Record(visit, place, archived)

LogSpec == LogInit /\ [][LogNext]_logVars
=============================================================================
