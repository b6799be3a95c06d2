CONSTANTS
  NumWaypoints = 2
  HoldTime = 1
  HoverTime = 1
  DwellTime <- MCDwellTime
  EntryLimit = 2
  PosMsgs <- MCPosMsgs
  StatusMsgs <- MCStatusMsgs
  BatteryMsgs <- MCBatteryMsgs
  WarmupTicks = 2
  TelemetryTimeout = 1
  BatteryTimeout = 1
  DwellSettle = 1
  MaxTickGap = 1
SPECIFICATION Spec
INVARIANTS TypeOK TriggersMatchVisits AbortIsFinal
PROPERTIES HoldsAreObserved WaitsAreObserved ArmHandshake AbortJustified RefinesRoute
