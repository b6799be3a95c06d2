CONSTANTS
  Bags = {1, 2}
  Targets = {"dgx"}
  Dgx = "dgx"
  Defects = {{}, {1}}
  SeenLimit = 1
  MaxRetries = 0
  MaxRestarts = 1
  MaxReceiptFaults = 0
  MaxIngestFaults = 1
  MaxIngestRestarts = 1
SPECIFICATION FairSpecification
INVARIANTS PipelineTypeOK IndexedHaveRows
PROPERTIES RefinesLog BagsAreIndexed PipelineSettles
