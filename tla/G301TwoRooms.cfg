CONSTANTS
  Null = Null
  Rooms = {"101", "102"}
  Intents <- MCPair
  limitation <- MCLimitation
  lower <- MCLower
  upper <- MCUpper
  RetryBase = 1
  RetryMax = 2
  FailureCap = 2
  MaxFaults = 2
SPECIFICATION FairSpec
INVARIANTS
  NoTrafficInCooldown
PROPERTIES
  EventuallyTerminal
