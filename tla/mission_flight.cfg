CONSTANTS
  NumWaypoints = 1
  HoldTime = 2
  HoverTime = 1
  DwellTime <- MCDwellTime
  EntryLimit = 2
  PosMsgs <- MCPosMsgs
  StatusMsgs <- StatusMsg
  BatteryMsgs <- MCBatteryMsgs
  WarmupTicks = 1
  TelemetryTimeout = 1
  BatteryTimeout = 0
  DwellSettle = 1
  MaxTickGap = 1
  MaxFaults = 1
SPECIFICATION FlightSpec
INVARIANT DoneMeansDisarmed
PROPERTIES FlyingMissionEnds MissionLaunches
