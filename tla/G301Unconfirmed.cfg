CONSTANTS
  Null = Null
  Rooms = {"101"}
  Intents <- MCOne
  limitation <- MCLimitation
  lower <- MCLower
  upper <- MCUpper
  RetryBase = 1
  RetryMax = 2
  FailureCap = 2
  MaxFaults = 2
SPECIFICATION Spec
INVARIANTS
  UnconfirmedMeansWritten
