CONSTANTS
  Tokens = {0, 1}
  Tags <- MCTags
  DetectionArrays <- MCDetectionArrays
  Checkpoints <- MCCheckpoints
  MappedTags <- MCMappedTags
  CheckpointOf <- MCCheckpointOf
  DetectionWindow = 1
  FrameWindow = 1
  PoseWindow = 1
  MaxPublished = 3
SPECIFICATION Spec
INVARIANTS TypeOK NoTriggerWasted SidecarsTell
PROPERTIES EachDetectionOnce RefinesLog
