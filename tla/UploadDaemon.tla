------------------------------ MODULE UploadDaemon ------------------------------
(***************************************************************************)
(* The upload daemon (analysis/upload_daemon): it polls a directory of     *)
(* bags and ships each complete one to its target, the bag directory       *)
(* first, then the sidecar, then writes a local receipt that names the     *)
(* target.  Transfers land part by part, fail, time out and are retried;   *)
(* the daemon may be killed anywhere and started again, possibly with      *)
(* another target.                                                         *)
(*                                                                         *)
(* Bags are numbered in the order of their names, which is the order of a  *)
(* pass.  rsync writes a file under a temporary name and renames it, so a  *)
(* file at the target is whole.                                            *)
(***************************************************************************)
EXTENDS Naturals, BagLayout, BoundedSeen

CONSTANTS
  Bags,             \* the bags, in the order of their names
  Targets,          \* values of --target, in canonical form
  MaxRetries,       \* max_retries
  MaxRestarts,      \* bound: restarts
  MaxReceiptFaults  \* bound: receipts that cannot be written

NoReceipt == "none"
ForeignFile == "foreign"

ASSUME UploadAssumption ==
  /\ Bags \subseteq Nat /\ Bags # {}
  /\ NoReceipt \notin Targets /\ ForeignFile \notin Targets
  /\ MaxRetries \in Nat /\ MaxRestarts \in Nat /\ MaxReceiptFaults \in Nat

VARIABLES
  local,         \* the watch directory: the parts of each bag
  landed,        \* the same at each target
  marker,        \* the <bag>.uploaded file of each bag; a foreign one may lie there
  target,        \* the daemon's target
  seen,          \* uploaded, the bounded set in memory
  todo,          \* the rest of the listing of this pass
  step,          \* where the daemon is
  bag,           \* the bag it is shipping
  attempts,      \* failed attempts to send the current path
  restarts,      \* restarts so far
  receiptFaults  \* receipts that could not be written so far

memoryVars == <<seen, todo, step, bag, attempts>>
uploadVars == <<local, landed, marker, target, memoryVars, restarts, receiptFaults>>

Steps == {"sleeping", "scan", "bag", "sidecar", "receipt"}

-----------------------------------------------------------------------------
(* The watch directory, as the recorder fills it.                           *)

MayAdd(parts, part) ==
  /\ part \in Parts \ parts
  /\ part = "sidecar" => IsValidBagDir(parts)

Produce(b, part) ==
  /\ MayAdd(local[b], part)
  /\ local' = [local EXCEPT ![b] = @ \cup {part}]
  /\ UNCHANGED <<landed, marker, target, memoryVars, restarts, receiptFaults>>

-----------------------------------------------------------------------------
(* _watch_loop and _drain_once.                                             *)

\* Mutant: any marker is taken for a receipt.
HasMarker(b) == marker[b] # NoReceipt

\* Mutant: only the set in memory is asked.
NoDurableSkip(b) == FALSE

\* A receipt names the bag's files, which a marker beside another bag does not.
IsAlreadyUploaded(b) == marker[b] = target

\* The directory is listed once, at the beginning of a pass.
StartPass ==
  /\ step = "sleeping"
  /\ todo' = {b \in Bags : local[b] # {}}
  /\ step' = "scan"
  /\ UNCHANGED <<local, landed, marker, target, seen, bag, attempts, restarts, receiptFaults>>

IsNext(b) == b \in todo /\ \A other \in todo : b <= other

Skip(b) ==
  /\ step = "scan" /\ IsNext(b)
  /\ Remembers(seen, b) \/ ~IsComplete(local[b])
  /\ todo' = todo \ {b}
  /\ UNCHANGED <<local, landed, marker, target, seen, step, bag, attempts, restarts, receiptFaults>>

SkipDurably(b) ==
  /\ step = "scan" /\ IsNext(b)
  /\ ~Remembers(seen, b) /\ IsComplete(local[b]) /\ IsAlreadyUploaded(b)
  /\ seen' = Remember(seen, b)
  /\ todo' = todo \ {b}
  /\ UNCHANGED <<local, landed, marker, target, step, bag, attempts, restarts, receiptFaults>>

OnBagComplete(b) ==
  /\ step = "scan" /\ IsNext(b)
  /\ ~Remembers(seen, b) /\ IsComplete(local[b]) /\ ~IsAlreadyUploaded(b)
  /\ step' = "bag" /\ bag' = b /\ attempts' = 0
  /\ todo' = todo \ {b}
  /\ UNCHANGED <<local, landed, marker, target, seen, restarts, receiptFaults>>

EndPass ==
  /\ step = "scan" /\ todo = {}
  /\ step' = "sleeping"
  /\ UNCHANGED <<local, landed, marker, target, seen, todo, bag, attempts, restarts, receiptFaults>>

-----------------------------------------------------------------------------
(* _send_with_retry and the transport.                                      *)

\* What the current transfer carries.
Carried == IF step = "bag" THEN BagDirParts ELSE {"sidecar"}

Sending == step \in {"bag", "sidecar"}

LandPart(part) ==
  /\ Sending /\ part \in Carried \ landed[target][bag]
  /\ landed' = [landed EXCEPT ![target][bag] = @ \cup {part}]
  /\ UNCHANGED <<local, marker, target, memoryVars, restarts, receiptFaults>>

\* Mutant: whatever rsync answers counts as sent.
SendEnds ==
  /\ Sending
  /\ step' = IF step = "bag" THEN "sidecar" ELSE "receipt"
  /\ attempts' = 0
  /\ UNCHANGED <<local, landed, marker, target, seen, todo, bag, restarts, receiptFaults>>

\* rsync exits 0: what it carried and had not landed before has landed now.
SendSucceeds ==
  /\ Sending
  /\ landed' = [landed EXCEPT ![target][bag] = @ \cup Carried]
  /\ step' = IF step = "bag" THEN "sidecar" ELSE "receipt"
  /\ attempts' = 0
  /\ UNCHANGED <<local, marker, target, seen, todo, bag, restarts, receiptFaults>>

\* Mutant: after the last retry of the bag the sidecar is sent all the same.
SendFailsOn ==
  /\ Sending
  /\ IF attempts < MaxRetries
     THEN attempts' = attempts + 1 /\ UNCHANGED step
     ELSE attempts' = 0 /\ step' = IF step = "bag" THEN "sidecar" ELSE "scan"
  /\ UNCHANGED <<local, landed, marker, target, seen, todo, bag, restarts, receiptFaults>>

\* rsync fails or is killed at its timeout; after the last retry the pass goes on.
SendFails ==
  /\ Sending
  /\ IF attempts < MaxRetries
     THEN attempts' = attempts + 1 /\ UNCHANGED step
     ELSE attempts' = 0 /\ step' = "scan"
  /\ UNCHANGED <<local, landed, marker, target, seen, todo, bag, restarts, receiptFaults>>

\* An OSError is not retried: _try_upload logs it and the pass goes on.
SendRaises ==
  /\ Sending
  /\ step' = "scan" /\ attempts' = 0
  /\ UNCHANGED <<local, landed, marker, target, seen, todo, bag, restarts, receiptFaults>>

-----------------------------------------------------------------------------
(* The receipt.                                                             *)

\* The marker appears whole or not at all, and never over another file.
WriteUploadMarker ==
  /\ step = "receipt" /\ marker[bag] = NoReceipt
  /\ marker' = [marker EXCEPT ![bag] = target]
  /\ seen' = Remember(seen, bag)
  /\ step' = "scan"
  /\ UNCHANGED <<local, landed, target, todo, bag, attempts, restarts, receiptFaults>>

\* Mutant: the bag is remembered although its receipt could not be written.
MarkerExistsRemembered ==
  /\ step = "receipt" /\ marker[bag] # NoReceipt
  /\ step' = "scan"
  /\ seen' = Remember(seen, bag)
  /\ UNCHANGED <<local, landed, marker, target, todo, bag, attempts, restarts, receiptFaults>>

\* FileExistsError: the bag stays as it is and is shipped again by the next pass.
MarkerExists ==
  /\ step = "receipt" /\ marker[bag] # NoReceipt
  /\ step' = "scan"
  /\ UNCHANGED <<local, landed, marker, target, seen, todo, bag, attempts, restarts, receiptFaults>>

MarkerFails ==
  /\ step = "receipt" /\ receiptFaults < MaxReceiptFaults
  /\ receiptFaults' = receiptFaults + 1
  /\ step' = "scan"
  /\ UNCHANGED <<local, landed, marker, target, seen, todo, bag, attempts, restarts>>

-----------------------------------------------------------------------------
(* A killed daemon loses its memory; files stay.                            *)
Restart(t) ==
  /\ restarts < MaxRestarts
  /\ restarts' = restarts + 1
  /\ target' = t
  /\ seen' = NothingSeen /\ todo' = {} /\ step' = "sleeping" /\ attempts' = 0
  /\ UNCHANGED <<local, landed, marker, bag, receiptFaults>>

UploadInit ==
  /\ local = [b \in Bags |-> {}]
  /\ landed = [t \in Targets |-> [b \in Bags |-> {}]]
  /\ marker \in [Bags -> {NoReceipt, ForeignFile}]
  /\ target \in Targets
  /\ seen = NothingSeen /\ todo = {} /\ step = "sleeping"
  /\ bag = (CHOOSE b \in Bags : TRUE) /\ attempts = 0
  /\ restarts = 0 /\ receiptFaults = 0

Pass == StartPass \/ EndPass \/ \E b \in Bags : Skip(b) \/ SkipDurably(b) \/ OnBagComplete(b)

Receipt == WriteUploadMarker \/ MarkerExists \/ MarkerFails

UploadNext ==
  \/ \E b \in Bags, part \in Parts : Produce(b, part)
  \/ Pass
  \/ \E part \in Parts : LandPart(part)
  \/ SendSucceeds \/ SendFails \/ SendRaises
  \/ Receipt
  \/ \E t \in Targets : Restart(t)

UploadSpec == UploadInit /\ [][UploadNext]_uploadVars
=============================================================================
