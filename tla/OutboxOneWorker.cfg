CONSTANTS
  Ids = {1, 2, 3}
  Topics = {"control", "intent"}
  topic <- MCTopic
  Workers = {w1}
  BatchSize = 2
  MaxAttempts = 2
  MaxRequeues = 1
  MaxFaults = 1
SPECIFICATION Spec
INVARIANTS
  TypeOK
  PublishedDelivered
  DeadLetterExhausted
  HeldIsClaimed
  InOrderWithoutFailure
PROPERTIES
  PublishedIsFinal
  ImplementsQueue
