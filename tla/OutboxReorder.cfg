CONSTANTS
  Ids = {1, 2}
  Topics = {"control"}
  topic <- MCOneTopic
  Workers = {w1}
  BatchSize = 2
  MaxAttempts = 2
  MaxRequeues = 0
  MaxFaults = 0
SPECIFICATION Spec
INVARIANT
  RetainedIsNewest
