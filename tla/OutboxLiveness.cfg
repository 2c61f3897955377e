CONSTANTS
  Ids = {1, 2}
  Topics = {"control"}
  topic <- MCOneTopic
  Workers = {w1}
  BatchSize = 2
  MaxAttempts = 2
  MaxRequeues = 0
  MaxFaults = 2
SPECIFICATION FairSpec
PROPERTY
  EventuallyResolved
