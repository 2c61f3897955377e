CONSTANTS
  Null = Null
  Rooms = {"101"}
  Intents <- MCSeries
  limitation <- MCLimitation
  lower <- MCLower
  upper <- MCUpper
  RetryBase = 1
  RetryMax = 2
  FailureCap = 2
  MaxFaults = 3
SPECIFICATION Spec
INVARIANTS
  TypeOK
  WatermarksConsistent
  AppliedMeansMatched
  DeviceWithinLimits
PROPERTIES
  ImplementsLatestOrder
  PoweredOnConfigured
