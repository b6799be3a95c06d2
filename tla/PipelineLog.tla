------------------------------- MODULE PipelineLog -------------------------------
(***************************************************************************)
(* What the bag pipeline promises: a bag is recorded, then it arrives,     *)
(* then it is catalogued, each at most once; the catalogue only grows.     *)
(***************************************************************************)
EXTENDS Sequences

CONSTANT Flights

VARIABLES recorded, arrived, catalogue

logVars == <<recorded, arrived, catalogue>>

LogInit == recorded = {} /\ arrived = {} /\ catalogue = <<>>

Catalogued(f) == \E i \in DOMAIN catalogue : catalogue[i] = f

Record(f) ==
  /\ f \in Flights \ recorded
  /\ recorded' = recorded \cup {f}
  /\ UNCHANGED <<arrived, catalogue>>

Arrive(f) ==
  /\ f \in recorded \ arrived
  /\ arrived' = arrived \cup {f}
  /\ UNCHANGED <<recorded, catalogue>>

Catalogue(f) ==
  /\ f \in arrived /\ ~Catalogued(f)
  /\ catalogue' = Append(catalogue, f)
  /\ UNCHANGED <<recorded, arrived>>

LogNext == \E f \in Flights : Record(f) \/ Arrive(f) \/ Catalogue(f)

LogSpec == LogInit /\ [][LogNext]_logVars
=============================================================================
