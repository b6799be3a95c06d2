------------------------------- MODULE BagPipeline -------------------------------
(***************************************************************************)
(* The upload daemon and the ingest service over one landing directory.    *)
(* They share nothing else: the sidecar's arrival is the only signal.      *)
(***************************************************************************)
EXTENDS UploadProperties

CONSTANTS
  Dgx,                \* the target whose directory is ingested
  Defects,            \* the sets of bags that may turn out defective
  MaxIngestFaults,    \* bound: transient faults of the service
  MaxIngestRestarts   \* bound: its restarts

ASSUME PipelineAssumption ==
  /\ Dgx \in Targets
  /\ Defects \subseteq SUBSET Bags
  /\ MaxIngestFaults \in Nat /\ MaxIngestRestarts \in Nat

VARIABLES defective, manifest, indexed, listing, at, current, faults, ingestRestarts

Ingest == INSTANCE IngestService WITH landing <- landed[Dgx]

serviceVars == <<defective, manifest, indexed, listing, at, current, faults, ingestRestarts>>
pipelineVars == <<uploadVars, serviceVars>>

Init == UploadInit /\ Ingest!IngestInit

Next ==
  \/ UploadNext /\ UNCHANGED serviceVars
  \/ UNCHANGED uploadVars /\ Ingest!IngestNext

Spec == Init /\ [][Next]_pipelineVars

(* Types of the service's variables.                                        *)
PipelineTypeOK ==
  /\ defective \in Defects
  /\ manifest \in Seq(Bags)
  /\ indexed \in Seq(Bags) /\ Len(indexed) <= SeenLimit
  /\ listing \in SUBSET Bags
  /\ at \in Ingest!IngestSteps
  /\ current \in Bags
  /\ faults \in 0 .. MaxIngestFaults
  /\ ingestRestarts \in 0 .. MaxIngestRestarts

(* What the service remembers in memory, and so never looks at again, has   *)
(* its row: no fault or eviction makes it forget a bag for good.            *)
IndexedHaveRows == \A b \in Bags : Remembers(indexed, b) => Ingest!Contains(b)

Log == INSTANCE PipelineLog WITH
  Flights <- Bags,
  recorded <- {b \in Bags : local[b] = Parts},
  arrived <- {b \in Bags : landed[Dgx][b] = Parts},
  catalogue <- manifest

(* Daemon and service together implement the pipeline: a row only for a bag *)
(* that has arrived whole, and one row for each, through re-transfers,      *)
(* restarts of both sides and faults between any two steps.                 *)
RefinesLog == Log!LogSpec

-----------------------------------------------------------------------------
(* The service keeps polling; its faults are transient.                     *)
IngestFairness == WF_pipelineVars(UNCHANGED uploadVars /\ Ingest!IngestPass)

FairSpecification == Spec /\ UploadFairness /\ IngestFairness

(* Every recorded bag gets its row, also behind a bag that never validates. *)
BagsAreIndexed ==
  \A b \in Bags : (local[b] = Parts /\ target = Dgx)
                   ~> (Ingest!Contains(b) \/ b \in defective \/ target # Dgx)

(* The daemon comes to rest: a bag with a receipt is not shipped again,     *)
(* however small the set in memory is.                                      *)
PipelineSettles ==
  (\A b \in Bags : marker[b] # ForeignFile) => <>[](~Sending)
=============================================================================
