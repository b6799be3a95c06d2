------------------------------ MODULE UploadClaims ------------------------------
(***************************************************************************)
(* A statement of a docstring of the upload daemon, with the history it    *)
(* needs.                                                                  *)
(***************************************************************************)
EXTENDS UploadProperties

VARIABLE shipments   \* confirmed transfers of each bag by the running process, at most two

claimVars == <<uploadVars, shipments>>

ClaimInit == UploadInit /\ shipments = [b \in Bags |-> 0]

\* The bag counts as shipped when its sidecar is confirmed.
Count ==
  shipments' = IF step = "sidecar" /\ step' = "receipt"
               THEN [shipments EXCEPT ![bag] = IF @ < 2 THEN @ + 1 ELSE @]
               ELSE shipments

Started == shipments' = [b \in Bags |-> 0]

ClaimNext ==
  /\ UploadNext
  /\ IF restarts' = restarts THEN Count ELSE Started

ClaimSpec == ClaimInit /\ [][ClaimNext]_claimVars

(* "Poll watch_dir for newly-completed bag dirs and upload each one exactly *)
(* once" (_watch_loop), with no foreign file in the way and no failed write.*)
ShippedOnce == \A b \in Bags : marker[b] # ForeignFile => shipments[b] <= 1
=============================================================================
