CONSTANTS
  Ids = {1, 2}
  Topics = {"intent"}
  Room = "intent"
  topic <- MCIntentsOnly
  Workers = {w1}
  BatchSize = 1
  MaxAttempts = 2
  MaxRequeues = 0
  MaxFaults = 1
  MaxDrops = 1
SPECIFICATION DeliverySpec
INVARIANT
  NewestAfterAway
