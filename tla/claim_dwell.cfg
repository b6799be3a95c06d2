CONSTANTS
  NumWaypoints = 1
  HoldTime = 0
  HoverTime = 0
  DwellTime <- MCDwellTime
  EntryLimit = 3
  PosMsgs <- MCPosMsgs
  StatusMsgs <- MCStatusMsgs
  BatteryMsgs = {}
  WarmupTicks = 1
  TelemetryTimeout = 1
  BatteryTimeout = 1
  DwellSettle = 2
  MaxTickGap = 1
SPECIFICATION CSpec
PROPERTY TriggerAfterHeldDwell
