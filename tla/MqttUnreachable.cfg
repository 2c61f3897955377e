CONSTANTS
  Commands = {c1, c2}
  Threads = {t1}
  Main = main
  MaxVersion = 0
  MaxInputs = 0
  MaxFaults = 1
  Null = Null
SPECIFICATION Spec
INVARIANT
  CommandsReachable
