------------------------------ MODULE UploadProofs ------------------------------
(***************************************************************************)
(* Theorems about the upload daemon for every set of bags and targets, any *)
(* size of the seen set and any number of retries, restarts and faults.    *)
(***************************************************************************)
EXTENDS UploadProperties, TLAPS

USE UploadAssumption, SeenAssumption

-----------------------------------------------------------------------------
(* The bounded seen set.                                                    *)

LEMMA WithoutFacts ==
  ASSUME NEW S, NEW list \in Seq(S), NEW x \in S
  PROVE  /\ Without(list, x) \in Seq(S)
         /\ \A i \in DOMAIN Without(list, x) :
              \E j \in DOMAIN list : Without(list, x)[i] = list[j]
<1>1. CASE \E i \in DOMAIN list : list[i] = x
  <2>. DEFINE k == CHOOSE i \in DOMAIN list : list[i] = x
              head == SubSeq(list, 1, k - 1)
              tail == SubSeq(list, k + 1, Len(list))
  <2>1. k \in 1 .. Len(list)
    BY <1>1
  <2>. HIDE DEF k
  <2>2. head \in Seq(S) /\ Len(head) = k - 1 /\ \A i \in 1 .. k - 1 : head[i] = list[i]
    BY <2>1
  <2>3. /\ tail \in Seq(S) /\ Len(tail) = Len(list) - k
        /\ \A i \in 1 .. Len(list) - k : tail[i] = list[i + k]
    BY <2>1
  <2>. HIDE DEF head, tail
  <2>4. head \o tail \in Seq(S)
    BY <2>2, <2>3
  <2>5. ASSUME NEW i \in DOMAIN (head \o tail)
        PROVE  \E j \in DOMAIN list : (head \o tail)[i] = list[j]
    <3>1. CASE i <= Len(head)
      <4>1. i \in 1 .. k - 1 /\ (head \o tail)[i] = head[i]
        BY <2>1, <2>2, <2>3, <2>5, <3>1
      <4>2. i \in DOMAIN list /\ (head \o tail)[i] = list[i]
        BY <2>1, <2>2, <4>1
      <4>. QED  BY <4>2
    <3>2. CASE i > Len(head)
      <4>1. i - Len(head) \in 1 .. Len(list) - k /\ (head \o tail)[i] = tail[i - Len(head)]
        BY <2>1, <2>2, <2>3, <2>5, <3>2
      <4>2. i + 1 \in DOMAIN list /\ (head \o tail)[i] = list[i + 1]
        BY <2>1, <2>2, <2>3, <4>1
      <4>. QED  BY <4>2
    <3>. QED  BY <2>2, <2>3, <2>5, <3>1, <3>2
  <2>6. Without(list, x) = head \o tail
    BY <1>1 DEF Without, head, tail, k
  <2>. QED  BY <2>4, <2>5, <2>6
<1>2. CASE ~\E i \in DOMAIN list : list[i] = x
  BY <1>2 DEF Without
<1>. QED  BY <1>1, <1>2

\* Remembering a bag adds no other bag and keeps the bound.
LEMMA RememberFacts ==
  ASSUME NEW list \in Seq(Bags), NEW b \in Bags
  PROVE  /\ Remember(list, b) \in Seq(Bags) /\ Len(Remember(list, b)) <= SeenLimit
         /\ \A c \in Bags : Remembers(Remember(list, b), c) => Remembers(list, c) \/ c = b
<1>. DEFINE others == Without(list, b)
            moved == Append(others, b)
            kept == SubSeq(moved, Len(moved) - SeenLimit + 1, Len(moved))
<1>1. /\ others \in Seq(Bags)
      /\ \A i \in DOMAIN others : \E j \in DOMAIN list : others[i] = list[j]
  BY WithoutFacts
<1>. HIDE DEF others
<1>2. /\ moved \in Seq(Bags) /\ Len(moved) = Len(others) + 1
      /\ \A i \in DOMAIN moved : moved[i] = b \/ \E j \in DOMAIN list : moved[i] = list[j]
  BY <1>1
<1>. HIDE DEF moved
<1>3. CASE Len(moved) > SeenLimit
  <2>1. Len(moved) - SeenLimit + 1 \in 1 .. Len(moved) + 1
    BY <1>2, <1>3
  <2>2. kept \in Seq(Bags) /\ Len(kept) = SeenLimit
    BY <1>2, <1>3, <2>1
  <2>3. \A i \in DOMAIN kept : kept[i] = b \/ \E j \in DOMAIN list : kept[i] = list[j]
    <3>. SUFFICES ASSUME NEW i \in DOMAIN kept
                  PROVE  kept[i] = b \/ \E j \in DOMAIN list : kept[i] = list[j]
      OBVIOUS
    <3>1. i \in 1 .. SeenLimit
      BY <2>2
    <3>2. i + Len(moved) - SeenLimit \in DOMAIN moved /\ kept[i] = moved[i + Len(moved) - SeenLimit]
      BY <1>2, <1>3, <2>1, <3>1
    <3>. QED  BY <1>2, <3>2
  <2>4. Remember(list, b) = kept
    BY <1>3 DEF Remember, moved, others
  <2>. HIDE DEF kept
  <2>. QED  BY <2>2, <2>3, <2>4 DEF Remembers
<1>4. CASE ~(Len(moved) > SeenLimit)
  <2>1. Remember(list, b) = moved
    BY <1>4 DEF Remember, moved, others
  <2>2. Len(moved) <= SeenLimit
    BY <1>2, <1>4
  <2>. QED  BY <1>2, <2>1, <2>2 DEF Remembers
<1>. QED  BY <1>3, <1>4

-----------------------------------------------------------------------------
\* What the daemon has done for the bag it is shipping.
ShippingInv ==
  /\ step \in {"bag", "sidecar", "receipt"} => local[bag] = Parts
  /\ step \in {"sidecar", "receipt"} => BagDirParts \subseteq landed[target][bag]
  /\ step = "receipt" => landed[target][bag] = Parts

IInv ==
  /\ TypeOK
  /\ ShippingInv
  /\ ReceiptMeansArrival
  /\ SidecarArrivesLast
  /\ OnlyCompleteBagsTravel
  /\ SeenAreReceipted

LEMMA InitHolds == UploadInit => IInv
<1>. SUFFICES ASSUME UploadInit  PROVE IInv
  OBVIOUS
<1>. USE DEF UploadInit, NothingSeen
<1>1. TypeOK
  <2>1. bag \in Bags
    OBVIOUS
  <2>2. seen \in Seq(Bags) /\ Len(seen) <= SeenLimit
    OBVIOUS
  <2>3. attempts \in 0 .. MaxRetries /\ restarts \in 0 .. MaxRestarts
        /\ receiptFaults \in 0 .. MaxReceiptFaults
    OBVIOUS
  <2>4. marker \in [Bags -> Targets \cup {NoReceipt, ForeignFile}]
    OBVIOUS
  <2>5. local \in [Bags -> SUBSET Parts] /\ landed \in [Targets -> [Bags -> SUBSET Parts]]
    OBVIOUS
  <2>. QED  BY <2>1, <2>2, <2>3, <2>4, <2>5 DEF TypeOK, Steps
<1>2. ShippingInv
  BY DEF ShippingInv
<1>3. ReceiptMeansArrival
  BY DEF ReceiptMeansArrival
<1>4. SidecarArrivesLast
  BY DEF SidecarArrivesLast
<1>5. OnlyCompleteBagsTravel
  BY DEF OnlyCompleteBagsTravel
<1>6. SeenAreReceipted
  BY DEF SeenAreReceipted, Remembers
<1>. QED  BY <1>1, <1>2, <1>3, <1>4, <1>5, <1>6 DEF IInv

LEMMA WholeBag == Parts = {"metadata", "payload", "sidecar"} /\ BagDirParts = {"metadata", "payload"}
BY DEF Parts, BagDirParts

LEMMA CompleteIsWhole ==
  ASSUME NEW parts \in SUBSET Parts, IsComplete(parts)
  PROVE  parts = Parts
BY WholeBag DEF IsComplete, IsValidBagDir, HasFinalizeMarker, HasMcapPayload

LEMMA TypeStep == TypeOK /\ UploadNext => TypeOK'
<1>. SUFFICES ASSUME TypeOK, UploadNext  PROVE TypeOK'
  OBVIOUS
<1>. USE DEF TypeOK, Steps, NothingSeen, memoryVars
<1>1. CASE \E b \in Bags, part \in Parts : Produce(b, part)
  <2>1. PICK b \in Bags, part \in Parts : Produce(b, part)
    BY <1>1
  <2>2. local' \in [Bags -> SUBSET Parts]
    BY <2>1 DEF Produce
  <2>. QED  BY <2>1, <2>2 DEF Produce
<1>2. CASE StartPass
  BY <1>2, RememberFacts, WholeBag DEF StartPass, MayAdd, Sending, Carried, IsAlreadyUploaded
<1>3. CASE EndPass
  BY <1>3, RememberFacts, WholeBag DEF EndPass, MayAdd, Sending, Carried, IsAlreadyUploaded
<1>4. CASE \E b \in Bags : Skip(b)
  BY <1>4, RememberFacts, WholeBag DEF Skip, MayAdd, Sending, Carried, IsAlreadyUploaded
<1>5. CASE \E b \in Bags : SkipDurably(b)
  <2>1. PICK b \in Bags : SkipDurably(b)
    BY <1>5
  <2>2. seen' \in Seq(Bags) /\ Len(seen') <= SeenLimit
    BY <2>1, RememberFacts DEF SkipDurably
  <2>. QED  BY <2>1, <2>2 DEF SkipDurably
<1>6. CASE \E b \in Bags : OnBagComplete(b)
  <2>1. PICK b \in Bags : OnBagComplete(b)
    BY <1>6
  <2>2. bag' \in Bags /\ attempts' \in 0 .. MaxRetries
    BY <2>1 DEF OnBagComplete
  <2>. QED  BY <2>1, <2>2 DEF OnBagComplete
<1>7. CASE \E part \in Parts : LandPart(part)
  BY <1>7, RememberFacts, WholeBag DEF LandPart, MayAdd, Sending, Carried, IsAlreadyUploaded
<1>8. CASE SendSucceeds
  BY <1>8, RememberFacts, WholeBag DEF SendSucceeds, MayAdd, Sending, Carried, IsAlreadyUploaded
<1>9. CASE SendFails
  BY <1>9, RememberFacts, WholeBag DEF SendFails, MayAdd, Sending, Carried, IsAlreadyUploaded
<1>10. CASE SendRaises
  BY <1>10, RememberFacts, WholeBag DEF SendRaises, MayAdd, Sending, Carried, IsAlreadyUploaded
<1>11. CASE WriteUploadMarker
  BY <1>11, RememberFacts, WholeBag DEF WriteUploadMarker, MayAdd, Sending, Carried, IsAlreadyUploaded
<1>12. CASE MarkerExists
  BY <1>12, RememberFacts, WholeBag DEF MarkerExists, MayAdd, Sending, Carried, IsAlreadyUploaded
<1>13. CASE MarkerFails
  BY <1>13, RememberFacts, WholeBag DEF MarkerFails, MayAdd, Sending, Carried, IsAlreadyUploaded
<1>14. CASE \E t \in Targets : Restart(t)
  BY <1>14, RememberFacts, WholeBag DEF Restart, MayAdd, Sending, Carried, IsAlreadyUploaded
<1>. QED
  BY <1>1, <1>2, <1>3, <1>4, <1>5, <1>6, <1>7, <1>8, <1>9, <1>10, <1>11, <1>12, <1>13, <1>14
     DEF UploadNext, Pass, Receipt

LEMMA ShippingStep == IInv /\ UploadNext => ShippingInv'
<1>. SUFFICES ASSUME IInv, UploadNext  PROVE ShippingInv'
  OBVIOUS
<1>. USE DEF IInv, TypeOK, ShippingInv, memoryVars
<1>1. CASE \E b \in Bags, part \in Parts : Produce(b, part)
  BY <1>1, WholeBag, CompleteIsWhole DEF Produce, MayAdd, Sending, Carried, IsAlreadyUploaded
<1>2. CASE StartPass
  BY <1>2, WholeBag, CompleteIsWhole DEF StartPass, MayAdd, Sending, Carried, IsAlreadyUploaded
<1>3. CASE EndPass
  BY <1>3, WholeBag, CompleteIsWhole DEF EndPass, MayAdd, Sending, Carried, IsAlreadyUploaded
<1>4. CASE \E b \in Bags : Skip(b)
  BY <1>4, WholeBag, CompleteIsWhole DEF Skip, MayAdd, Sending, Carried, IsAlreadyUploaded
<1>5. CASE \E b \in Bags : SkipDurably(b)
  BY <1>5, WholeBag, CompleteIsWhole DEF SkipDurably, MayAdd, Sending, Carried, IsAlreadyUploaded
<1>6. CASE \E b \in Bags : OnBagComplete(b)
  BY <1>6, WholeBag, CompleteIsWhole DEF OnBagComplete, MayAdd, Sending, Carried, IsAlreadyUploaded
<1>7. CASE \E part \in Parts : LandPart(part)
  BY <1>7, WholeBag, CompleteIsWhole DEF LandPart, MayAdd, Sending, Carried, IsAlreadyUploaded
<1>8. CASE SendSucceeds
  BY <1>8, WholeBag, CompleteIsWhole DEF SendSucceeds, MayAdd, Sending, Carried, IsAlreadyUploaded
<1>9. CASE SendFails
  BY <1>9, WholeBag, CompleteIsWhole DEF SendFails, MayAdd, Sending, Carried, IsAlreadyUploaded
<1>10. CASE SendRaises
  BY <1>10, WholeBag, CompleteIsWhole DEF SendRaises, MayAdd, Sending, Carried, IsAlreadyUploaded
<1>11. CASE WriteUploadMarker
  BY <1>11, WholeBag, CompleteIsWhole DEF WriteUploadMarker, MayAdd, Sending, Carried, IsAlreadyUploaded
<1>12. CASE MarkerExists
  BY <1>12, WholeBag, CompleteIsWhole DEF MarkerExists, MayAdd, Sending, Carried, IsAlreadyUploaded
<1>13. CASE MarkerFails
  BY <1>13, WholeBag, CompleteIsWhole DEF MarkerFails, MayAdd, Sending, Carried, IsAlreadyUploaded
<1>14. CASE \E t \in Targets : Restart(t)
  BY <1>14, WholeBag, CompleteIsWhole DEF Restart, MayAdd, Sending, Carried, IsAlreadyUploaded
<1>. QED
  BY <1>1, <1>2, <1>3, <1>4, <1>5, <1>6, <1>7, <1>8, <1>9, <1>10, <1>11, <1>12, <1>13, <1>14
     DEF UploadNext, Pass, Receipt

LEMMA ReceiptStep == IInv /\ UploadNext => ReceiptMeansArrival'
<1>. SUFFICES ASSUME IInv, UploadNext  PROVE ReceiptMeansArrival'
  OBVIOUS
<1>. USE DEF IInv, TypeOK, ShippingInv, ReceiptMeansArrival, memoryVars
<1>1. CASE \E b \in Bags, part \in Parts : Produce(b, part)
  BY <1>1, WholeBag DEF Produce, MayAdd, Sending, Carried, IsAlreadyUploaded
<1>2. CASE StartPass
  BY <1>2, WholeBag DEF StartPass, MayAdd, Sending, Carried, IsAlreadyUploaded
<1>3. CASE EndPass
  BY <1>3, WholeBag DEF EndPass, MayAdd, Sending, Carried, IsAlreadyUploaded
<1>4. CASE \E b \in Bags : Skip(b)
  BY <1>4, WholeBag DEF Skip, MayAdd, Sending, Carried, IsAlreadyUploaded
<1>5. CASE \E b \in Bags : SkipDurably(b)
  BY <1>5, WholeBag DEF SkipDurably, MayAdd, Sending, Carried, IsAlreadyUploaded
<1>6. CASE \E b \in Bags : OnBagComplete(b)
  BY <1>6, WholeBag DEF OnBagComplete, MayAdd, Sending, Carried, IsAlreadyUploaded
<1>7. CASE \E part \in Parts : LandPart(part)
  BY <1>7, WholeBag DEF LandPart, MayAdd, Sending, Carried, IsAlreadyUploaded
<1>8. CASE SendSucceeds
  BY <1>8, WholeBag DEF SendSucceeds, MayAdd, Sending, Carried, IsAlreadyUploaded
<1>9. CASE SendFails
  BY <1>9, WholeBag DEF SendFails, MayAdd, Sending, Carried, IsAlreadyUploaded
<1>10. CASE SendRaises
  BY <1>10, WholeBag DEF SendRaises, MayAdd, Sending, Carried, IsAlreadyUploaded
<1>11. CASE WriteUploadMarker
  BY <1>11, WholeBag DEF WriteUploadMarker, MayAdd, Sending, Carried, IsAlreadyUploaded
<1>12. CASE MarkerExists
  BY <1>12, WholeBag DEF MarkerExists, MayAdd, Sending, Carried, IsAlreadyUploaded
<1>13. CASE MarkerFails
  BY <1>13, WholeBag DEF MarkerFails, MayAdd, Sending, Carried, IsAlreadyUploaded
<1>14. CASE \E t \in Targets : Restart(t)
  BY <1>14, WholeBag DEF Restart, MayAdd, Sending, Carried, IsAlreadyUploaded
<1>. QED
  BY <1>1, <1>2, <1>3, <1>4, <1>5, <1>6, <1>7, <1>8, <1>9, <1>10, <1>11, <1>12, <1>13, <1>14
     DEF UploadNext, Pass, Receipt

LEMMA SidecarStep == IInv /\ UploadNext => SidecarArrivesLast'
<1>. SUFFICES ASSUME IInv, UploadNext  PROVE SidecarArrivesLast'
  OBVIOUS
<1>. USE DEF IInv, TypeOK, ShippingInv, SidecarArrivesLast, memoryVars
<1>1. CASE \E b \in Bags, part \in Parts : Produce(b, part)
  BY <1>1, WholeBag DEF Produce, MayAdd, Sending, Carried, IsAlreadyUploaded
<1>2. CASE StartPass
  BY <1>2, WholeBag DEF StartPass, MayAdd, Sending, Carried, IsAlreadyUploaded
<1>3. CASE EndPass
  BY <1>3, WholeBag DEF EndPass, MayAdd, Sending, Carried, IsAlreadyUploaded
<1>4. CASE \E b \in Bags : Skip(b)
  BY <1>4, WholeBag DEF Skip, MayAdd, Sending, Carried, IsAlreadyUploaded
<1>5. CASE \E b \in Bags : SkipDurably(b)
  BY <1>5, WholeBag DEF SkipDurably, MayAdd, Sending, Carried, IsAlreadyUploaded
<1>6. CASE \E b \in Bags : OnBagComplete(b)
  BY <1>6, WholeBag DEF OnBagComplete, MayAdd, Sending, Carried, IsAlreadyUploaded
<1>7. CASE \E part \in Parts : LandPart(part)
  BY <1>7, WholeBag DEF LandPart, MayAdd, Sending, Carried, IsAlreadyUploaded
<1>8. CASE SendSucceeds
  BY <1>8, WholeBag DEF SendSucceeds, MayAdd, Sending, Carried, IsAlreadyUploaded
<1>9. CASE SendFails
  BY <1>9, WholeBag DEF SendFails, MayAdd, Sending, Carried, IsAlreadyUploaded
<1>10. CASE SendRaises
  BY <1>10, WholeBag DEF SendRaises, MayAdd, Sending, Carried, IsAlreadyUploaded
<1>11. CASE WriteUploadMarker
  BY <1>11, WholeBag DEF WriteUploadMarker, MayAdd, Sending, Carried, IsAlreadyUploaded
<1>12. CASE MarkerExists
  BY <1>12, WholeBag DEF MarkerExists, MayAdd, Sending, Carried, IsAlreadyUploaded
<1>13. CASE MarkerFails
  BY <1>13, WholeBag DEF MarkerFails, MayAdd, Sending, Carried, IsAlreadyUploaded
<1>14. CASE \E t \in Targets : Restart(t)
  BY <1>14, WholeBag DEF Restart, MayAdd, Sending, Carried, IsAlreadyUploaded
<1>. QED
  BY <1>1, <1>2, <1>3, <1>4, <1>5, <1>6, <1>7, <1>8, <1>9, <1>10, <1>11, <1>12, <1>13, <1>14
     DEF UploadNext, Pass, Receipt

LEMMA TravelStep == IInv /\ UploadNext => OnlyCompleteBagsTravel'
<1>. SUFFICES ASSUME IInv, UploadNext  PROVE OnlyCompleteBagsTravel'
  OBVIOUS
<1>. USE DEF IInv, TypeOK, ShippingInv, OnlyCompleteBagsTravel, memoryVars
<1>1. CASE \E b \in Bags, part \in Parts : Produce(b, part)
  BY <1>1, WholeBag DEF Produce, MayAdd, Sending, Carried, IsAlreadyUploaded
<1>2. CASE StartPass
  BY <1>2, WholeBag DEF StartPass, MayAdd, Sending, Carried, IsAlreadyUploaded
<1>3. CASE EndPass
  BY <1>3, WholeBag DEF EndPass, MayAdd, Sending, Carried, IsAlreadyUploaded
<1>4. CASE \E b \in Bags : Skip(b)
  BY <1>4, WholeBag DEF Skip, MayAdd, Sending, Carried, IsAlreadyUploaded
<1>5. CASE \E b \in Bags : SkipDurably(b)
  BY <1>5, WholeBag DEF SkipDurably, MayAdd, Sending, Carried, IsAlreadyUploaded
<1>6. CASE \E b \in Bags : OnBagComplete(b)
  BY <1>6, WholeBag DEF OnBagComplete, MayAdd, Sending, Carried, IsAlreadyUploaded
<1>7. CASE \E part \in Parts : LandPart(part)
  BY <1>7, WholeBag DEF LandPart, MayAdd, Sending, Carried, IsAlreadyUploaded
<1>8. CASE SendSucceeds
  BY <1>8, WholeBag DEF SendSucceeds, MayAdd, Sending, Carried, IsAlreadyUploaded
<1>9. CASE SendFails
  BY <1>9, WholeBag DEF SendFails, MayAdd, Sending, Carried, IsAlreadyUploaded
<1>10. CASE SendRaises
  BY <1>10, WholeBag DEF SendRaises, MayAdd, Sending, Carried, IsAlreadyUploaded
<1>11. CASE WriteUploadMarker
  BY <1>11, WholeBag DEF WriteUploadMarker, MayAdd, Sending, Carried, IsAlreadyUploaded
<1>12. CASE MarkerExists
  BY <1>12, WholeBag DEF MarkerExists, MayAdd, Sending, Carried, IsAlreadyUploaded
<1>13. CASE MarkerFails
  BY <1>13, WholeBag DEF MarkerFails, MayAdd, Sending, Carried, IsAlreadyUploaded
<1>14. CASE \E t \in Targets : Restart(t)
  BY <1>14, WholeBag DEF Restart, MayAdd, Sending, Carried, IsAlreadyUploaded
<1>. QED
  BY <1>1, <1>2, <1>3, <1>4, <1>5, <1>6, <1>7, <1>8, <1>9, <1>10, <1>11, <1>12, <1>13, <1>14
     DEF UploadNext, Pass, Receipt

LEMMA SeenStep == IInv /\ UploadNext => SeenAreReceipted'
<1>. SUFFICES ASSUME IInv, UploadNext  PROVE SeenAreReceipted'
  OBVIOUS
<1>. USE DEF IInv, TypeOK, SeenAreReceipted, NothingSeen, memoryVars
<1>1. CASE \E b \in Bags, part \in Parts : Produce(b, part)
  BY <1>1, RememberFacts DEF Produce, MayAdd, Sending, Carried, IsAlreadyUploaded
<1>2. CASE StartPass
  BY <1>2, RememberFacts DEF StartPass, MayAdd, Sending, Carried, IsAlreadyUploaded
<1>3. CASE EndPass
  BY <1>3, RememberFacts DEF EndPass, MayAdd, Sending, Carried, IsAlreadyUploaded
<1>4. CASE \E b \in Bags : Skip(b)
  BY <1>4, RememberFacts DEF Skip, MayAdd, Sending, Carried, IsAlreadyUploaded
<1>5. CASE \E b \in Bags : SkipDurably(b)
  <2>1. PICK b \in Bags : SkipDurably(b)
    BY <1>5
  <2>2. \A c \in Bags : Remembers(seen', c) => Remembers(seen, c) \/ c = b
    BY <2>1, RememberFacts DEF SkipDurably
  <2>3. marker[b] = target /\ UNCHANGED <<marker, target>>
    BY <2>1 DEF SkipDurably, IsAlreadyUploaded
  <2>. QED  BY <2>2, <2>3
<1>6. CASE \E b \in Bags : OnBagComplete(b)
  BY <1>6, RememberFacts DEF OnBagComplete, MayAdd, Sending, Carried, IsAlreadyUploaded
<1>7. CASE \E part \in Parts : LandPart(part)
  BY <1>7, RememberFacts DEF LandPart, MayAdd, Sending, Carried, IsAlreadyUploaded
<1>8. CASE SendSucceeds
  BY <1>8, RememberFacts DEF SendSucceeds, MayAdd, Sending, Carried, IsAlreadyUploaded
<1>9. CASE SendFails
  BY <1>9, RememberFacts DEF SendFails, MayAdd, Sending, Carried, IsAlreadyUploaded
<1>10. CASE SendRaises
  BY <1>10, RememberFacts DEF SendRaises, MayAdd, Sending, Carried, IsAlreadyUploaded
<1>11. CASE WriteUploadMarker
  BY <1>11, RememberFacts DEF WriteUploadMarker, MayAdd, Sending, Carried, IsAlreadyUploaded
<1>12. CASE MarkerExists
  BY <1>12, RememberFacts DEF MarkerExists, MayAdd, Sending, Carried, IsAlreadyUploaded
<1>13. CASE MarkerFails
  BY <1>13, RememberFacts DEF MarkerFails, MayAdd, Sending, Carried, IsAlreadyUploaded
<1>14. CASE \E t \in Targets : Restart(t)
  <2>1. seen' = <<>>
    BY <1>14 DEF Restart
  <2>. QED  BY <2>1 DEF Remembers
<1>. QED
  BY <1>1, <1>2, <1>3, <1>4, <1>5, <1>6, <1>7, <1>8, <1>9, <1>10, <1>11, <1>12, <1>13, <1>14
     DEF UploadNext, Pass, Receipt

LEMMA StepHolds == IInv /\ [UploadNext]_uploadVars => IInv'
<1>1. IInv /\ UploadNext => IInv'
  BY TypeStep, ShippingStep, ReceiptStep, SidecarStep, TravelStep, SeenStep DEF IInv
<1>2. IInv /\ UNCHANGED uploadVars => IInv'
  <2>. SUFFICES ASSUME IInv, UNCHANGED uploadVars  PROVE IInv'
    OBVIOUS
  <2>. USE DEF IInv, uploadVars, memoryVars
  <2>1. TypeOK'
    BY DEF TypeOK
  <2>2. ShippingInv'
    BY DEF ShippingInv
  <2>3. ReceiptMeansArrival'
    BY DEF ReceiptMeansArrival
  <2>4. SidecarArrivesLast' /\ OnlyCompleteBagsTravel'
    BY DEF SidecarArrivesLast, OnlyCompleteBagsTravel
  <2>5. SeenAreReceipted'
    BY DEF SeenAreReceipted, Remembers
  <2>. QED  BY <2>1, <2>2, <2>3, <2>4, <2>5
<1>. QED  BY <1>1, <1>2

LEMMA Inductive == UploadSpec => []IInv
BY InitHolds, StepHolds, PTL DEF UploadSpec

-----------------------------------------------------------------------------
(* Every variable of the daemon keeps its type; the seen set stays within    *)
(* its limit, also one of zero.                                              *)
THEOREM TypeCorrect == UploadSpec => []TypeOK
<1>1. IInv => TypeOK
  BY DEF IInv
<1>. QED  BY Inductive, <1>1, PTL

(* A receipt means arrival: the target it names holds the whole bag.         *)
THEOREM ReceiptsMeanArrival == UploadSpec => []ReceiptMeansArrival
<1>1. IInv => ReceiptMeansArrival
  BY DEF IInv
<1>. QED  BY Inductive, <1>1, PTL

(* At every target the sidecar comes after the bag, through any number of    *)
(* failures, retries, restarts and changes of the target.                    *)
THEOREM SidecarsArriveLast == UploadSpec => []SidecarArrivesLast
<1>1. IInv => SidecarArrivesLast
  BY DEF IInv
<1>. QED  BY Inductive, <1>1, PTL

(* Nothing of a bag that is still being recorded leaves the host.            *)
THEOREM CompleteBagsTravel == UploadSpec => []OnlyCompleteBagsTravel
<1>1. IInv => OnlyCompleteBagsTravel
  BY DEF IInv
<1>. QED  BY Inductive, <1>1, PTL

(* A bag the daemon will not look at again has its receipt.                  *)
THEOREM SeenReceipted == UploadSpec => []SeenAreReceipted
<1>1. IInv => SeenAreReceipted
  BY DEF IInv
<1>. QED  BY Inductive, <1>1, PTL

-----------------------------------------------------------------------------
(* What is done is done.                                                    *)

Directory(b) == INSTANCE BagDirectory WITH files <- local[b]

\* Files at a target stay.
LEMMA LandedGrows ==
  ASSUME TypeOK, [UploadNext]_uploadVars, NEW t \in Targets, NEW b \in Bags
  PROVE  landed[t][b] \subseteq landed'[t][b]
<1>1. CASE \E part \in Parts : LandPart(part)
  BY <1>1 DEF LandPart, TypeOK
<1>2. CASE SendSucceeds
  BY <1>2 DEF SendSucceeds, TypeOK
<1>3. CASE ~(\E part \in Parts : LandPart(part)) /\ ~SendSucceeds
  <2>1. UNCHANGED landed
    BY <1>3 DEF UploadNext, Pass, Receipt, Produce, StartPass, EndPass, Skip, SkipDurably,
       OnBagComplete, SendFails, SendRaises, WriteUploadMarker, MarkerExists, MarkerFails,
       Restart, uploadVars
  <2>. QED  BY <2>1
<1>. QED  BY <1>1, <1>2, <1>3

\* A marker is written at most once.
LEMMA MarkerStays ==
  ASSUME TypeOK, [UploadNext]_uploadVars, NEW b \in Bags, marker[b] # NoReceipt
  PROVE  marker'[b] = marker[b]
<1>1. CASE WriteUploadMarker
  BY <1>1 DEF WriteUploadMarker, TypeOK
<1>2. CASE ~WriteUploadMarker
  BY <1>2 DEF UploadNext, Pass, Receipt, Produce, StartPass, EndPass, Skip, SkipDurably,
     OnBagComplete, LandPart, SendSucceeds, SendFails, SendRaises, MarkerExists, MarkerFails,
     Restart, uploadVars
<1>. QED  BY <1>1, <1>2

(* A receipt is a promise kept for good: whatever is sent again, to whatever *)
(* target, and however often the daemon is killed, the receipt keeps naming  *)
(* the target it named and the whole bag stays there.                        *)
THEOREM ReceiptsForGood ==
  ASSUME NEW t \in Targets, NEW b \in Bags
  PROVE  UploadSpec => [](marker[b] = t => [](marker[b] = t /\ landed[t][b] = Parts))
<1>1. IInv /\ marker[b] = t => landed[t][b] = Parts
  BY DEF IInv, ReceiptMeansArrival
<1>2. IInv /\ [UploadNext]_uploadVars /\ marker[b] = t => (marker[b] = t)'
  BY MarkerStays DEF IInv
<1>. QED  BY <1>1, <1>2, Inductive, PTL DEF UploadSpec

(* The daemon's view of a bag at the recorder's side is BagDirectory, which  *)
(* RecorderProofs proves of the recorder: what is proved of the daemon is    *)
(* proved for every bag the recorder can leave, at any moment of its making. *)
THEOREM DirectoriesFill ==
  ASSUME NEW b \in Bags
  PROVE  UploadSpec => Directory(b)!DirectorySpec
<1>1. UploadInit => Directory(b)!DirectoryInit
  BY DEF UploadInit, Directory!DirectoryInit
<1>2. TypeOK /\ [UploadNext]_uploadVars => [Directory(b)!DirectoryNext]_(local[b])
  <2>1. SUFFICES ASSUME TypeOK, [UploadNext]_uploadVars, local'[b] # local[b]
                 PROVE  Directory(b)!DirectoryNext
    OBVIOUS
  <2>2. PICK c \in Bags, part \in Parts : Produce(c, part)
    BY <2>1 DEF UploadNext, Pass, Receipt, StartPass, EndPass, Skip, SkipDurably, OnBagComplete,
       LandPart, SendSucceeds, SendFails, SendRaises, WriteUploadMarker, MarkerExists,
       MarkerFails, Restart, uploadVars
  <2>3. c = b /\ local'[b] = local[b] \cup {part} /\ MayAdd(local[b], part)
    BY <2>1, <2>2 DEF Produce, TypeOK
  <2>. QED
    BY <2>3 DEF MayAdd, Parts, BagDirParts, IsValidBagDir, HasFinalizeMarker, HasMcapPayload,
       Directory!DirectoryNext, Directory!MayAdd, Directory!Parts, Directory!BagDirParts,
       Directory!IsValidBagDir, Directory!HasFinalizeMarker, Directory!HasMcapPayload
<1>. QED  BY <1>1, <1>2, TypeCorrect, PTL DEF UploadSpec, Directory!DirectorySpec
=============================================================================
