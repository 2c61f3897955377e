CONSTANTS
  Commands = {c1, c2}
  Threads = {t1}
  Main = main
  MaxVersion = 2
  MaxInputs = 2
  MaxFaults = 1
  Null = Null
SPECIFICATION FairSpec
INVARIANTS
  TypeOK
  OfflineUnlessOvertaken
  SettledMeansOnline
  ReachableUnlessAborted
  FreshUnlessOvertaken
PROPERTIES
  CommandsInOrder
  EventuallyRestored
