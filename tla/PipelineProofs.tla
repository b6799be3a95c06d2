----------------------------- MODULE PipelineProofs -----------------------------
(***************************************************************************)
(* Theorems about the daemon and the service together, for every set of    *)
(* bags, every size of the seen sets and any number of faults and restarts *)
(* on both sides.                                                          *)
(***************************************************************************)
EXTENDS BagPipeline, UploadProofs

USE UploadAssumption, SeenAssumption, PipelineAssumption

\* What the service relies on between its steps, while the daemon goes on sending.
ServiceInv ==
  /\ PipelineTypeOK
  /\ at \in {"dedup", "read", "upsert"} => "sidecar" \in landed[Dgx][current]
  /\ at \in {"read", "upsert"} => ~Ingest!Contains(current)
  /\ \A i \in DOMAIN manifest : "sidecar" \in landed[Dgx][manifest[i]]
  /\ IndexedHaveRows

PInv == IInv /\ ServiceInv

-----------------------------------------------------------------------------
\* The service's seen set is the same class.
LEMMA SameSet ==
  /\ \A list, b : Ingest!Remember(list, b) = Remember(list, b)
  /\ \A list, b : Ingest!Remembers(list, b) <=> Remembers(list, b)
  /\ \A list, b : Ingest!Without(list, b) = Without(list, b)
  /\ Ingest!NothingSeen = NothingSeen
  /\ Ingest!Parts = Parts /\ Ingest!BagDirParts = BagDirParts
BY DEF Ingest!Remember, Remember, Ingest!Remembers, Remembers, Ingest!Without, Without,
   Ingest!NothingSeen, NothingSeen, Ingest!Parts, Parts, Ingest!BagDirParts, BagDirParts

\* The insert of a bag without a row.
LEMMA UpsertFacts ==
  ASSUME PipelineTypeOK, NEW b \in Bags, ~Ingest!Contains(b), Ingest!Upsert(b)
  PROVE  /\ manifest' = Append(manifest, b)
         /\ manifest' \in Seq(Bags)
         /\ \A i \in DOMAIN manifest' : manifest'[i] = b \/ \E j \in DOMAIN manifest : manifest'[i] = manifest[j]
         /\ \A c : Ingest!Contains(c)' <=> Ingest!Contains(c) \/ c = b
<1>1. manifest' = Append(manifest, b) /\ manifest \in Seq(Bags)
  BY DEF Ingest!Upsert, Ingest!Without, Ingest!Contains, PipelineTypeOK
<1>2. /\ manifest' \in Seq(Bags) /\ DOMAIN manifest' = DOMAIN manifest \cup {Len(manifest) + 1}
      /\ manifest'[Len(manifest) + 1] = b /\ \A i \in DOMAIN manifest : manifest'[i] = manifest[i]
  BY <1>1
<1>. QED  BY <1>1, <1>2 DEF Ingest!Contains

-----------------------------------------------------------------------------
LEMMA PipelineInit == Init => PInv
<1>. SUFFICES ASSUME Init  PROVE PInv
  OBVIOUS
<1>1. IInv
  BY InitHolds DEF Init
<1>2. PipelineTypeOK
  <2>1. manifest \in Seq(Bags) /\ indexed \in Seq(Bags) /\ Len(indexed) <= SeenLimit
    <3>1. manifest = <<>> /\ indexed = <<>>
      BY DEF Init, Ingest!IngestInit, Ingest!NothingSeen
    <3>2. <<>> \in Seq(Bags) /\ Len(<<>>) = 0
      OBVIOUS
    <3>. QED  BY <3>1, <3>2
  <2>2. faults \in 0 .. MaxIngestFaults /\ ingestRestarts \in 0 .. MaxIngestRestarts
    BY DEF Init, Ingest!IngestInit
  <2>3. current \in Bags
    BY DEF Init, Ingest!IngestInit
  <2>. QED  BY <2>1, <2>2, <2>3 DEF PipelineTypeOK, Init, Ingest!IngestInit, Ingest!IngestSteps
<1>3. manifest = <<>> /\ indexed = <<>> /\ at = "sleeping"
  BY DEF Init, Ingest!IngestInit, Ingest!NothingSeen
<1>. QED  BY <1>1, <1>2, <1>3 DEF PInv, ServiceInv, IndexedHaveRows, Remembers

\* While the daemon moves, the service's picture of the landing directory stays true.
LEMMA DaemonStep == PInv /\ [UploadNext]_uploadVars /\ UNCHANGED serviceVars => PInv'
<1>. SUFFICES ASSUME PInv, [UploadNext]_uploadVars, UNCHANGED serviceVars  PROVE PInv'
  OBVIOUS
<1>1. IInv'
  BY StepHolds DEF PInv
<1>2. \A b \in Bags : landed[Dgx][b] \subseteq landed'[Dgx][b]
  BY LandedGrows DEF PInv, IInv
<1>3. UNCHANGED <<defective, manifest, indexed, listing, at, current, faults, ingestRestarts>>
  BY DEF serviceVars
<1>4. PipelineTypeOK'
  BY <1>3 DEF PInv, ServiceInv, PipelineTypeOK
<1>5. at \in {"dedup", "read", "upsert"} => "sidecar" \in landed'[Dgx][current]
  BY <1>2 DEF PInv, ServiceInv, PipelineTypeOK
<1>6. \A i \in DOMAIN manifest : "sidecar" \in landed'[Dgx][manifest[i]]
  <2>. SUFFICES ASSUME NEW i \in DOMAIN manifest  PROVE "sidecar" \in landed'[Dgx][manifest[i]]
    OBVIOUS
  <2>1. manifest[i] \in Bags /\ "sidecar" \in landed[Dgx][manifest[i]]
    BY DEF PInv, ServiceInv, PipelineTypeOK
  <2>. QED  BY <1>2, <2>1
<1>7. IndexedHaveRows' /\ (at \in {"read", "upsert"} => ~Ingest!Contains(current)')
  BY <1>3 DEF PInv, ServiceInv, IndexedHaveRows, Remembers, Ingest!Contains
<1>. QED  BY <1>1, <1>3, <1>4, <1>5, <1>6, <1>7 DEF PInv, ServiceInv

LEMMA ServiceTypes == PInv /\ UNCHANGED uploadVars /\ Ingest!IngestNext => PipelineTypeOK'
<1>. SUFFICES ASSUME PipelineTypeOK, PInv, UNCHANGED uploadVars, Ingest!IngestNext
              PROVE  PipelineTypeOK'
  BY DEF PInv, ServiceInv
<1>. USE DEF PipelineTypeOK, Ingest!IngestSteps, Ingest!inputVars
<1>1. CASE Ingest!ListLanding
  BY <1>1 DEF Ingest!ListLanding
<1>2. CASE Ingest!EndListing
  BY <1>2 DEF Ingest!EndListing
<1>3. CASE \E b \in Bags : Ingest!PassOver(b)
  BY <1>3 DEF Ingest!PassOver
<1>4. CASE \E b \in Bags : Ingest!Consider(b)
  BY <1>4 DEF Ingest!Consider
<1>5. CASE Ingest!AlreadyIndexed
  <2>1. indexed' \in Seq(Bags) /\ Len(indexed') <= SeenLimit
    BY <1>5, SameSet, RememberFacts DEF Ingest!AlreadyIndexed
  <2>. QED  BY <1>5, <2>1 DEF Ingest!AlreadyIndexed
<1>6. CASE Ingest!NotIndexed
  BY <1>6 DEF Ingest!NotIndexed
<1>7. CASE Ingest!ReadBag
  BY <1>7 DEF Ingest!ReadBag
<1>8. CASE Ingest!Refuse
  BY <1>8 DEF Ingest!Refuse
<1>9. CASE Ingest!IndexBag
  <2>1. indexed' \in Seq(Bags) /\ Len(indexed') <= SeenLimit
    BY <1>9, SameSet, RememberFacts DEF Ingest!IndexBag
  <2>2. manifest' \in Seq(Bags)
    BY <1>9, UpsertFacts DEF Ingest!IndexBag, PInv, ServiceInv
  <2>. QED  BY <1>9, <2>1, <2>2 DEF Ingest!IndexBag
<1>10. CASE Ingest!Fault
  BY <1>10 DEF Ingest!Fault
<1>11. CASE Ingest!IngestRestart
  <2>1. indexed' = <<>>
    BY <1>11 DEF Ingest!IngestRestart, Ingest!NothingSeen
  <2>2. <<>> \in Seq(Bags) /\ Len(<<>>) = 0
    OBVIOUS
  <2>. QED  BY <1>11, <2>1, <2>2 DEF Ingest!IngestRestart
<1>. QED
  BY <1>1, <1>2, <1>3, <1>4, <1>5, <1>6, <1>7, <1>8, <1>9, <1>10, <1>11
     DEF Ingest!IngestNext, Ingest!IngestPass

LEMMA ServiceStep == PInv /\ UNCHANGED uploadVars /\ Ingest!IngestNext => PInv'
<1>. SUFFICES ASSUME PInv, UNCHANGED uploadVars, Ingest!IngestNext  PROVE PInv'
  OBVIOUS
<1>0. UNCHANGED landed /\ IInv' /\ PipelineTypeOK'
  BY StepHolds, ServiceTypes DEF PInv, uploadVars
<1>. DEFINE Rest == /\ at \in {"dedup", "read", "upsert"} => "sidecar" \in landed[Dgx][current]
                    /\ at \in {"read", "upsert"} => ~Ingest!Contains(current)
                    /\ \A i \in DOMAIN manifest : "sidecar" \in landed[Dgx][manifest[i]]
                    /\ IndexedHaveRows
<1>. SUFFICES Rest'
  BY <1>0 DEF PInv, ServiceInv
<1>. USE <1>0 DEF PInv, ServiceInv, Ingest!inputVars
<1>. USE DEF IndexedHaveRows, Ingest!Contains
<1>1. CASE Ingest!ListLanding
  BY <1>1 DEF Ingest!ListLanding, Remembers
<1>2. CASE Ingest!EndListing
  BY <1>2 DEF Ingest!EndListing, Remembers
<1>3. CASE \E b \in Bags : Ingest!PassOver(b)
  BY <1>3 DEF Ingest!PassOver, Remembers
<1>4. CASE \E b \in Bags : Ingest!Consider(b)
  BY <1>4 DEF Ingest!Consider, Remembers
<1>5. CASE Ingest!AlreadyIndexed
  <2>1. \A c \in Bags : Remembers(indexed', c) => Remembers(indexed, c) \/ c = current
    BY <1>5, SameSet, RememberFacts DEF Ingest!AlreadyIndexed, PipelineTypeOK
  <2>2. UNCHANGED manifest /\ at' = "scan" /\ Ingest!Contains(current)
    BY <1>5 DEF Ingest!AlreadyIndexed
  <2>. QED  BY <2>1, <2>2
<1>6. CASE Ingest!NotIndexed
  BY <1>6 DEF Ingest!NotIndexed, Remembers
<1>7. CASE Ingest!ReadBag
  BY <1>7 DEF Ingest!ReadBag, Remembers
<1>8. CASE Ingest!Refuse
  BY <1>8 DEF Ingest!Refuse, Remembers
<1>9. CASE Ingest!IndexBag
  <2>1. \A c \in Bags : Remembers(indexed', c) => Remembers(indexed, c) \/ c = current
    BY <1>9, SameSet, RememberFacts DEF Ingest!IndexBag, PipelineTypeOK
  <2>2. /\ at' = "scan" /\ current \in Bags /\ "sidecar" \in landed[Dgx][current]
        /\ ~Ingest!Contains(current) /\ Ingest!Upsert(current)
    BY <1>9 DEF Ingest!IndexBag, PipelineTypeOK
  <2>3. \A c : Ingest!Contains(c)' <=> Ingest!Contains(c) \/ c = current
    BY <2>2, UpsertFacts
  <2>4. \A i \in DOMAIN manifest' : "sidecar" \in landed[Dgx][manifest'[i]]
    BY <2>2, UpsertFacts
  <2>. QED  BY <2>1, <2>2, <2>3, <2>4
<1>10. CASE Ingest!Fault
  BY <1>10 DEF Ingest!Fault, Remembers
<1>11. CASE Ingest!IngestRestart
  <2>1. UNCHANGED manifest /\ at' = "sleeping" /\ indexed' = <<>>
    BY <1>11 DEF Ingest!IngestRestart, Ingest!NothingSeen
  <2>. QED  BY <2>1 DEF Remembers
<1>. QED
  BY <1>1, <1>2, <1>3, <1>4, <1>5, <1>6, <1>7, <1>8, <1>9, <1>10, <1>11
     DEF Ingest!IngestNext, Ingest!IngestPass

LEMMA PipelineStep == PInv /\ [Next]_pipelineVars => PInv'
<1>1. PInv /\ UNCHANGED pipelineVars => PInv'
  BY DaemonStep DEF pipelineVars
<1>. QED  BY <1>1, DaemonStep, ServiceStep DEF Next

LEMMA PipelineInductive == Spec => []PInv
BY PipelineInit, PipelineStep, PTL DEF Spec

-----------------------------------------------------------------------------
(* The refinement: each step of either program records a bag, completes its *)
(* arrival, catalogues it, or changes nothing that the log shows.           *)

LEMMA LogInitHolds == Init => Log!LogInit
BY DEF Init, UploadInit, Ingest!IngestInit, Log!LogInit, Parts, BagDirParts

\* Parts are added to one bag at the recorder's side.
LEMMA RecordRefines ==
  ASSUME PInv, NEW b \in Bags, NEW part \in Parts, Produce(b, part), UNCHANGED serviceVars
  PROVE  [Log!LogNext]_(Log!logVars)
<1>1. /\ local[b] # Parts /\ UNCHANGED <<landed, manifest>>
      /\ local' = [local EXCEPT ![b] = @ \cup {part}]
  BY DEF Produce, MayAdd, serviceVars
<1>2. local \in [Bags -> SUBSET Parts]
  BY DEF PInv, IInv, TypeOK
<1>3. CASE local'[b] = Parts
  <2>1. {c \in Bags : local'[c] = Parts} = {c \in Bags : local[c] = Parts} \cup {b}
    BY <1>1, <1>2, <1>3
  <2>2. Log!Record(b)
    BY <1>1, <2>1 DEF Log!Record
  <2>. QED  BY <2>2 DEF Log!LogNext
<1>4. CASE local'[b] # Parts
  <2>1. {c \in Bags : local'[c] = Parts} = {c \in Bags : local[c] = Parts}
    BY <1>1, <1>2, <1>4
  <2>. QED  BY <1>1, <2>1 DEF Log!logVars
<1>. QED  BY <1>3, <1>4

\* Parts are added to the current bag at the daemon's target.
LEMMA ArrivalRefines ==
  ASSUME PInv, Sending, UNCHANGED <<local, manifest>>, NEW carried \in SUBSET Parts,
         landed' = [landed EXCEPT ![target][bag] = @ \cup carried]
  PROVE  [Log!LogNext]_(Log!logVars)
<1>1. /\ landed \in [Targets -> [Bags -> SUBSET Parts]]
      /\ target \in Targets /\ bag \in Bags /\ local[bag] = Parts
  BY DEF PInv, IInv, TypeOK, ShippingInv, Sending
<1>2. /\ landed'[target][bag] = landed[target][bag] \cup carried
      /\ \A c \in Bags : target # Dgx \/ c # bag => landed'[Dgx][c] = landed[Dgx][c]
  BY <1>1
<1>3. CASE target = Dgx /\ landed[Dgx][bag] # Parts /\ landed'[Dgx][bag] = Parts
  <2>1. {c \in Bags : landed'[Dgx][c] = Parts} = {c \in Bags : landed[Dgx][c] = Parts} \cup {bag}
    BY <1>1, <1>2, <1>3
  <2>2. PICK f \in Bags : f = bag
    BY <1>1
  <2>3. Log!Arrive(f)
    BY <1>1, <1>3, <2>1, <2>2 DEF Log!Arrive
  <2>. QED  BY <2>3 DEF Log!LogNext
<1>4. CASE ~(target = Dgx /\ landed[Dgx][bag] # Parts /\ landed'[Dgx][bag] = Parts)
  <2>1. \A c \in Bags : landed'[Dgx][c] = Parts <=> landed[Dgx][c] = Parts
    BY <1>1, <1>2, <1>4
  <2>2. {c \in Bags : landed'[Dgx][c] = Parts} = {c \in Bags : landed[Dgx][c] = Parts}
    BY <2>1
  <2>. QED  BY <2>2 DEF Log!logVars
<1>. QED  BY <1>3, <1>4

LEMMA DaemonRefines ==
  PInv /\ UploadNext /\ UNCHANGED serviceVars => [Log!LogNext]_(Log!logVars)
<1>. SUFFICES ASSUME PInv, UploadNext, UNCHANGED serviceVars  PROVE [Log!LogNext]_(Log!logVars)
  OBVIOUS
<1>0. UNCHANGED manifest
  BY DEF serviceVars
<1>1. CASE \E b \in Bags, part \in Parts : Produce(b, part)
  BY <1>1, RecordRefines
<1>2. CASE \E part \in Parts : LandPart(part)
  <2>1. PICK part \in Parts : LandPart(part)
    BY <1>2
  <2>2. /\ Sending /\ UNCHANGED local /\ {part} \in SUBSET Parts
        /\ landed' = [landed EXCEPT ![target][bag] = @ \cup {part}]
    BY <2>1 DEF LandPart
  <2>. QED  BY <1>0, <2>2, ArrivalRefines
<1>3. CASE SendSucceeds
  <2>1. Carried \in SUBSET Parts
    BY WholeBag DEF Carried
  <2>2. /\ Sending /\ UNCHANGED local
        /\ landed' = [landed EXCEPT ![target][bag] = @ \cup Carried]
    BY <1>3 DEF SendSucceeds
  <2>. QED  BY <1>0, <2>1, <2>2, ArrivalRefines
<1>4. CASE Pass \/ SendFails \/ SendRaises \/ Receipt \/ \E t \in Targets : Restart(t)
  <2>1. UNCHANGED <<local, landed>>
    BY <1>4 DEF Pass, StartPass, EndPass, Skip, SkipDurably, OnBagComplete, SendFails, SendRaises,
       Receipt, WriteUploadMarker, MarkerExists, MarkerFails, Restart
  <2>. QED  BY <1>0, <2>1 DEF Log!logVars
<1>. QED  BY <1>1, <1>2, <1>3, <1>4 DEF UploadNext

LEMMA ServiceRefines ==
  PInv /\ UNCHANGED uploadVars /\ Ingest!IngestNext => [Log!LogNext]_(Log!logVars)
<1>. SUFFICES ASSUME PInv, UNCHANGED uploadVars, Ingest!IngestNext
              PROVE  [Log!LogNext]_(Log!logVars)
  OBVIOUS
<1>0. UNCHANGED <<local, landed>>
  BY DEF uploadVars
<1>1. CASE Ingest!IndexBag
  <2>1. /\ current \in Bags /\ PipelineTypeOK /\ "sidecar" \in landed[Dgx][current]
        /\ ~Ingest!Contains(current) /\ Ingest!Upsert(current)
    BY <1>1 DEF Ingest!IndexBag, PInv, ServiceInv, PipelineTypeOK
  <2>2. manifest' = Append(manifest, current)
    BY <2>1, UpsertFacts
  <2>3. landed[Dgx][current] = Parts
    <3>1. BagDirParts \subseteq landed[Dgx][current] /\ landed[Dgx][current] \subseteq Parts
      BY <2>1 DEF PInv, IInv, TypeOK, SidecarArrivesLast
    <3>. QED  BY <2>1, <3>1 DEF Parts
  <2>4. ~Log!Catalogued(current)
    BY <2>1 DEF Log!Catalogued, Ingest!Contains
  <2>5. Log!Catalogue(current)
    BY <1>0, <2>1, <2>2, <2>3, <2>4 DEF Log!Catalogue
  <2>. QED  BY <2>1, <2>5 DEF Log!LogNext
<1>2. CASE ~Ingest!IndexBag
  <2>1. UNCHANGED manifest
    BY <1>2 DEF Ingest!IngestNext, Ingest!IngestPass, Ingest!ListLanding, Ingest!EndListing,
       Ingest!PassOver, Ingest!Consider, Ingest!AlreadyIndexed, Ingest!NotIndexed,
       Ingest!ReadBag, Ingest!Refuse, Ingest!Fault, Ingest!IngestRestart
  <2>. QED  BY <1>0, <2>1 DEF Log!logVars
<1>. QED  BY <1>1, <1>2

LEMMA StepRefines == PInv /\ [Next]_pipelineVars => [Log!LogNext]_(Log!logVars)
<1>1. PInv /\ UNCHANGED pipelineVars => UNCHANGED Log!logVars
  BY DEF pipelineVars, uploadVars, serviceVars, Log!logVars
<1>. QED  BY <1>1, DaemonRefines, ServiceRefines DEF Next

-----------------------------------------------------------------------------
(* Every variable of the service keeps its type, its seen set its limit.     *)
THEOREM ServiceTypeCorrect == Spec => []PipelineTypeOK
<1>1. PInv => PipelineTypeOK
  BY DEF PInv, ServiceInv
<1>. QED  BY PipelineInductive, <1>1, PTL

(* The service forgets no bag for good: what it remembers in memory has its  *)
(* row, through faults of the database, evictions and restarts.              *)
THEOREM IndexedBagsHaveRows == Spec => []IndexedHaveRows
<1>1. PInv => IndexedHaveRows
  BY DEF PInv, ServiceInv
<1>. QED  BY PipelineInductive, <1>1, PTL

(* Daemon and service implement the pipeline's log: a row only for a bag     *)
(* that has arrived whole, one row for each bag, and nothing ever undone.    *)
THEOREM ImplementsLog == Spec => RefinesLog
<1>1. Init => Log!LogInit
  BY LogInitHolds
<1>2. PInv /\ [Next]_pipelineVars => [Log!LogNext]_(Log!logVars)
  BY StepRefines
<1>. QED  BY <1>1, <1>2, PipelineInductive, PTL DEF Spec, RefinesLog, Log!LogSpec

-----------------------------------------------------------------------------
(* What the log promises, read off the log and not off the two programs.    *)

\* Rows are of different bags, each bag with a row is whole in the landing
\* directory, and each that is whole there is whole in the watch directory.
Accounted ==
  /\ \A i, j \in DOMAIN manifest : manifest[i] = manifest[j] => i = j
  /\ \A i \in DOMAIN manifest : landed[Dgx][manifest[i]] = Parts
  /\ \A b \in Bags : landed[Dgx][b] = Parts => local[b] = Parts

LEMMA LogAccounts ==
  ASSUME PipelineTypeOK, Accounted, [Log!LogNext]_(Log!logVars)
  PROVE  Accounted'
<1>. DEFINE recorded == {b \in Bags : local[b] = Parts}
            arrived == {b \in Bags : landed[Dgx][b] = Parts}
<1>1. /\ manifest \in Seq(Bags) /\ arrived \subseteq recorded
      /\ \A i \in DOMAIN manifest : manifest[i] \in arrived
  BY DEF PipelineTypeOK, Accounted
<1>2. SUFFICES /\ \A i, j \in DOMAIN manifest' : manifest'[i] = manifest'[j] => i = j
               /\ \A i \in DOMAIN manifest' : manifest'[i] \in arrived'
               /\ arrived' \subseteq recorded'
  BY DEF Accounted
<1>3. ASSUME NEW f \in Bags, Log!Record(f) \/ Log!Arrive(f)
      PROVE  /\ UNCHANGED manifest /\ arrived \subseteq arrived'
             /\ arrived' \subseteq recorded'
  BY <1>1, <1>3 DEF Log!Record, Log!Arrive
<1>4. ASSUME NEW f \in Bags, Log!Catalogue(f)
      PROVE  /\ f \in arrived /\ \A i \in DOMAIN manifest : manifest[i] # f
             /\ manifest' = Append(manifest, f)
             /\ recorded' = recorded /\ arrived' = arrived
  BY <1>4 DEF Log!Catalogue, Log!Catalogued
<1>. QED  BY <1>1, <1>3, <1>4 DEF Log!LogNext, Log!logVars, Accounted

(* Every row of the manifest is accounted for: there is one row for a bag at *)
(* most, its bag lies whole in the landing directory, and whole in the watch *)
(* directory it was sent from.  Nothing but the log's steps is used: whatever *)
(* refines PipelineLog keeps its catalogue like this.                        *)
THEOREM CatalogueAccounted == Spec => []Accounted
<1>1. Init => Accounted
  BY DEF Init, UploadInit, Ingest!IngestInit, Accounted, Parts, BagDirParts
<1>. QED
  BY <1>1, LogAccounts, ServiceTypeCorrect, ImplementsLog, PTL DEF Spec, RefinesLog, Log!LogSpec

(* A row is never taken back, and its bag stays at both ends.               *)
THEOREM RowsForGood ==
  ASSUME NEW b \in Bags
  PROVE  Spec => [](Ingest!Contains(b) => [](/\ Ingest!Contains(b)
                                            /\ landed[Dgx][b] = Parts /\ local[b] = Parts))
<1>1. PipelineTypeOK /\ Accounted /\ Ingest!Contains(b) => landed[Dgx][b] = Parts /\ local[b] = Parts
  BY DEF Accounted, Ingest!Contains
<1>2. PipelineTypeOK /\ [Log!LogNext]_(Log!logVars) /\ Ingest!Contains(b) => Ingest!Contains(b)'
  <2>1. SUFFICES ASSUME PipelineTypeOK, [Log!LogNext]_(Log!logVars), NEW i \in DOMAIN manifest,
                        manifest[i] = b
                 PROVE  \E j \in DOMAIN manifest' : manifest'[j] = b
    BY DEF Ingest!Contains
  <2>2. UNCHANGED manifest \/ \E f \in Bags : manifest' = Append(manifest, f)
    BY <2>1 DEF Log!LogNext, Log!logVars, Log!Record, Log!Arrive, Log!Catalogue
  <2>. QED  BY <2>1, <2>2 DEF PipelineTypeOK
<1>. QED
  BY <1>1, <1>2, CatalogueAccounted, ServiceTypeCorrect, ImplementsLog, PTL
     DEF RefinesLog, Log!LogSpec

(* A bag is refused only for what is wrong with the bag itself: that the     *)
(* daemon is still sending, or sends again, never makes the guards of index  *)
(* raise, and a bag without a defect is never put off by them.               *)
OnlyDefectsRefused == [][Ingest!Refuse => current \in defective]_pipelineVars

\* The guards see the bag that the sidecar promised.
THEOREM RefusalsJustified == Spec => OnlyDefectsRefused
<1>1. PInv => [Ingest!Refuse => current \in defective]_pipelineVars
  <2>1. SUFFICES ASSUME PInv, Ingest!Refuse  PROVE current \in defective
    OBVIOUS
  <2>2. BagDirParts \subseteq landed[Dgx][current]
    BY <2>1 DEF Ingest!Refuse, PInv, ServiceInv, PipelineTypeOK, IInv, SidecarArrivesLast
  <2>3. Ingest!IsValidBagDir(landed[Dgx][current])
    BY <2>2, WholeBag
       DEF Ingest!IsValidBagDir, Ingest!HasFinalizeMarker, Ingest!HasMcapPayload
  <2>. QED  BY <2>1, <2>3 DEF Ingest!Refuse
<1>2. Spec => [][Ingest!Refuse => current \in defective]_pipelineVars
  BY <1>1, PipelineInductive, PTL
<1>. QED  BY <1>2 DEF OnlyDefectsRefused
=============================================================================
