CONSTANTS
  Bags = {1, 2}
  Targets = {"dgx", "nas"}
  SeenLimit = 1
  MaxRetries = 1
  MaxRestarts = 1
  MaxReceiptFaults = 1
SPECIFICATION FairSpec
INVARIANTS TypeOK ReceiptMeansArrival SidecarArrivesLast OnlyCompleteBagsTravel SeenAreReceipted
PROPERTIES BagsArrive
