CONSTANTS
  MaxRuns = 1
  MaxDiskFaults = 2
SPECIFICATION FairSpec
INVARIANTS TypeOK SidecarTells NeverStranded VerdictHonest
PROPERTIES SourcesOutliveRecorder RefinesLayout TeardownEnds FinalizedIsPublished
CHECK_DEADLOCK FALSE
