------------------------------- MODULE BagLayout -------------------------------
(***************************************************************************)
(* What makes a directory entry a bag (analysis/_shared/bag_layout.py).    *)
(* A bag is the set of its parts.  A part is a regular file: symbolic      *)
(* links are refused everywhere and count as absent.                       *)
(***************************************************************************)
BagDirParts == {"metadata", "payload"}

Parts == BagDirParts \cup {"sidecar"}

HasFinalizeMarker(parts) == "metadata" \in parts

HasMcapPayload(parts) == "payload" \in parts

IsValidBagDir(parts) == HasFinalizeMarker(parts) /\ HasMcapPayload(parts)

\* Mutant: the sidecar is not waited for.
IsFinalized(parts) == IsValidBagDir(parts)

\* upload_daemon.is_complete
IsComplete(parts) == IsValidBagDir(parts) /\ "sidecar" \in parts
=============================================================================
