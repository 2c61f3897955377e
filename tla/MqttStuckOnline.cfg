CONSTANTS
  Commands = {c1, c2}
  Threads = {t1}
  Main = main
  MaxVersion = 1
  MaxInputs = 0
  MaxFaults = 2
  Null = Null
SPECIFICATION Spec
INVARIANT
  StoppedMeansOffline
