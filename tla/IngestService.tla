----------------------------- MODULE IngestService -----------------------------
(***************************************************************************)
(* The ingest service (docker/ingest): it polls the landing directory and  *)
(* puts one row into the manifest for each bag whose sidecar is there.     *)
(* Any of its reads and writes may fail for the moment: the database is    *)
(* locked, ros2 bag info times out, a file cannot be read.  The service    *)
(* may be killed anywhere and started again.                               *)
(*                                                                         *)
(* A row is its bag; the manifest lists the rows in the order of their     *)
(* ingested_utc.                                                           *)
(***************************************************************************)
EXTENDS Naturals, BagLayout, BoundedSeen

CONSTANTS
  Bags,               \* the bags, in the order of their names
  Defects,            \* the sets of bags that may turn out defective
  MaxIngestFaults,    \* bound: transient faults
  MaxIngestRestarts   \* bound: restarts

VARIABLES
  landing,     \* the landing directory: the parts of each bag
  defective,   \* bags whose sidecar or metadata.yaml never validates
  manifest,    \* the rows, oldest first
  indexed,     \* the bounded set in memory
  listing,     \* the rest of the listing of this pass
  at,          \* where the service is
  current,     \* the bag it is looking at
  faults,      \* transient faults so far
  ingestRestarts

inputVars == <<landing, defective>>
ingestVars == <<defective, manifest, indexed, listing, at, current, faults, ingestRestarts>>

IngestSteps == {"sleeping", "scan", "dedup", "read", "upsert"}

Contains(b) == \E i \in DOMAIN manifest : manifest[i] = b

\* INSERT OR REPLACE: an earlier row of the bag gives way.
Upsert(b) == manifest' = Append(Without(manifest, b), b)

-----------------------------------------------------------------------------
ListLanding ==
  /\ at = "sleeping"
  /\ listing' = {b \in Bags : landing[b] \cap BagDirParts # {}}
  /\ at' = "scan"
  /\ UNCHANGED <<inputVars, manifest, indexed, current, faults, ingestRestarts>>

Foremost(b) == b \in listing /\ \A other \in listing : b <= other

\* Known to this process, or without a sidecar.
PassOver(b) ==
  /\ at = "scan" /\ Foremost(b)
  /\ Remembers(indexed, b) \/ "sidecar" \notin landing[b]
  /\ listing' = listing \ {b}
  /\ UNCHANGED <<inputVars, manifest, indexed, at, current, faults, ingestRestarts>>

Consider(b) ==
  /\ at = "scan" /\ Foremost(b)
  /\ ~Remembers(indexed, b) /\ "sidecar" \in landing[b]
  /\ current' = b /\ at' = "dedup"
  /\ listing' = listing \ {b}
  /\ UNCHANGED <<inputVars, manifest, indexed, faults, ingestRestarts>>

EndListing ==
  /\ at = "scan" /\ listing = {}
  /\ at' = "sleeping"
  /\ UNCHANGED <<inputVars, manifest, indexed, listing, current, faults, ingestRestarts>>

\* Mutant: the manifest is not asked.
ConsiderAgain ==
  /\ at = "dedup"
  /\ at' = "read"
  /\ UNCHANGED <<inputVars, manifest, indexed, listing, current, faults, ingestRestarts>>

\* already_indexed: a bag with a row is skipped for good.
AlreadyIndexed ==
  /\ at = "dedup" /\ Contains(current)
  /\ indexed' = Remember(indexed, current)
  /\ at' = "scan"
  /\ UNCHANGED <<inputVars, manifest, listing, current, faults, ingestRestarts>>

NotIndexed ==
  /\ at = "dedup" /\ ~Contains(current)
  /\ at' = "read"
  /\ UNCHANGED <<inputVars, manifest, indexed, listing, current, faults, ingestRestarts>>

\* Bag guard, sidecar validation and the facts derived from the bag.
ReadBag ==
  /\ at = "read" /\ IsValidBagDir(landing[current]) /\ current \notin defective
  /\ at' = "upsert"
  /\ UNCHANGED <<inputVars, manifest, indexed, listing, current, faults, ingestRestarts>>

\* Mutant: a bad bag ends the pass.
RefuseAndWait ==
  /\ at = "read" /\ (~IsValidBagDir(landing[current]) \/ current \in defective)
  /\ at' = "sleeping" /\ listing' = {}
  /\ UNCHANGED <<inputVars, manifest, indexed, current, faults, ingestRestarts>>

\* A guard raises: the bag is logged and tried again by a later pass.
Refuse ==
  /\ at = "read" /\ (~IsValidBagDir(landing[current]) \/ current \in defective)
  /\ at' = "scan"
  /\ UNCHANGED <<inputVars, manifest, indexed, listing, current, faults, ingestRestarts>>

IndexBag ==
  /\ at = "upsert"
  /\ Upsert(current)
  /\ indexed' = Remember(indexed, current)
  /\ at' = "scan"
  /\ UNCHANGED <<inputVars, listing, current, faults, ingestRestarts>>

\* Mutant: a bag whose insert failed is remembered as indexed.
FaultRemembered ==
  /\ at \in {"dedup", "read", "upsert"} /\ faults < MaxIngestFaults
  /\ faults' = faults + 1
  /\ at' = "scan" /\ indexed' = Remember(indexed, current)
  /\ UNCHANGED <<inputVars, manifest, listing, current, ingestRestarts>>

\* One of _INGEST_FAULTS, in the duplicate check as well as in index.
Fault ==
  /\ at \in {"dedup", "read", "upsert"} /\ faults < MaxIngestFaults
  /\ faults' = faults + 1
  /\ at' = "scan"
  /\ UNCHANGED <<inputVars, manifest, indexed, listing, current, ingestRestarts>>

IngestRestart ==
  /\ ingestRestarts < MaxIngestRestarts
  /\ ingestRestarts' = ingestRestarts + 1
  /\ at' = "sleeping" /\ indexed' = NothingSeen /\ listing' = {}
  /\ UNCHANGED <<inputVars, manifest, current, faults>>

-----------------------------------------------------------------------------
IngestInit ==
  /\ defective \in Defects
  /\ manifest = <<>>
  /\ indexed = NothingSeen /\ listing = {} /\ at = "sleeping"
  /\ current = (CHOOSE b \in Bags : TRUE)
  /\ faults = 0 /\ ingestRestarts = 0

IngestPass ==
  \/ ListLanding \/ EndListing
  \/ \E b \in Bags : PassOver(b) \/ Consider(b)
  \/ AlreadyIndexed \/ NotIndexed \/ ReadBag \/ Refuse \/ IndexBag

IngestNext == IngestPass \/ Fault \/ IngestRestart
=============================================================================
