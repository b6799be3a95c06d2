---------------------------- MODULE UploadProperties ----------------------------
(***************************************************************************)
(* What the upload daemon keeps through failures, retries and restarts.    *)
(***************************************************************************)
EXTENDS UploadDaemon

(* Types of all variables.                                                  *)
TypeOK ==
  /\ local \in [Bags -> SUBSET Parts]
  /\ landed \in [Targets -> [Bags -> SUBSET Parts]]
  /\ marker \in [Bags -> Targets \cup {NoReceipt, ForeignFile}]
  /\ target \in Targets
  /\ seen \in Seq(Bags) /\ Len(seen) <= SeenLimit
  /\ todo \in SUBSET Bags
  /\ step \in Steps
  /\ bag \in Bags
  /\ attempts \in 0 .. MaxRetries
  /\ restarts \in 0 .. MaxRestarts
  /\ receiptFaults \in 0 .. MaxReceiptFaults

(* A receipt is written only after arrival: the target it names holds the   *)
(* whole bag and its sidecar.                                               *)
ReceiptMeansArrival ==
  \A b \in Bags : marker[b] \in Targets => landed[marker[b]][b] = Parts

(* A sidecar is never alone at a target, where it is the ingest's signal:   *)
(* the bag is there, too, after any failure, retry, restart or retarget.    *)
SidecarArrivesLast ==
  \A t \in Targets, b \in Bags : "sidecar" \in landed[t][b] => BagDirParts \subseteq landed[t][b]

(* Nothing of a bag leaves before its sidecar says that it is complete.     *)
OnlyCompleteBagsTravel ==
  \A t \in Targets, b \in Bags : landed[t][b] # {} => local[b] = Parts

(* What the daemon remembers in memory, and so never looks at again, has a  *)
(* receipt for the target the daemon has now.                               *)
SeenAreReceipted == \A b \in Bags : Remembers(seen, b) => marker[b] = target

-----------------------------------------------------------------------------
(* The daemon keeps polling.  The link fails often but not for good: a      *)
(* path that is tried again and again is sent at some time.                 *)
UploadFairness ==
  /\ WF_uploadVars(Pass) /\ WF_uploadVars(Receipt)
  /\ \A b \in Bags :
       /\ SF_uploadVars(bag = b /\ step = "bag" /\ SendSucceeds)
       /\ SF_uploadVars(bag = b /\ step = "sidecar" /\ SendSucceeds)

FairSpec == UploadSpec /\ UploadFairness

(* Every complete bag arrives at the daemon's target, whatever lies beside  *)
(* it, whatever was shipped elsewhere before, and however many other bags   *)
(* fail, unless the daemon is sent elsewhere first.                         *)
BagsArrive ==
  \A b \in Bags, t \in Targets :
    (local[b] = Parts /\ target = t) ~> (landed[t][b] = Parts \/ target # t)
=============================================================================
