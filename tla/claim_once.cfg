CONSTANTS
  Bags = {1, 2}
  Targets = {"dgx", "nas"}
  SeenLimit = 1
  MaxRetries = 0
  MaxRestarts = 1
  MaxReceiptFaults = 0
SPECIFICATION ClaimSpec
INVARIANTS ShippedOnce
