CONSTANTS
  Ids = {1, 2}
  Topics = {"control"}
  topic <- MCOneTopic
  Workers = {w1, w2}
  BatchSize = 2
  MaxAttempts = 2
  MaxRequeues = 0
  MaxFaults = 1
SPECIFICATION Spec
INVARIANTS
  PublishedDelivered
  DeadLetterExhausted
