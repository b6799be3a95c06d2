------------------------------ MODULE BagDirectory ------------------------------
(***************************************************************************)
(* How a bag comes to be: its files only grow, and the sidecar, which says *)
(* that the bag is complete, comes last.  The recorder implements this     *)
(* specification; the upload daemon relies on it.                          *)
(***************************************************************************)
EXTENDS BagLayout

VARIABLE files   \* the files of one bag

MayAdd(parts, part) ==
  /\ part \in Parts \ parts
  /\ part = "sidecar" => IsValidBagDir(parts)

DirectoryInit == files = {}

DirectoryNext == \E part \in Parts : MayAdd(files, part) /\ files' = files \cup {part}

DirectorySpec == DirectoryInit /\ [][DirectoryNext]_files
=============================================================================
