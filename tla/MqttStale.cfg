CONSTANTS
  Commands = {c1, c2}
  Threads = {t1}
  Main = main
  MaxVersion = 1
  MaxInputs = 2
  MaxFaults = 1
  Null = Null
SPECIFICATION Spec
INVARIANT
  ControlNotStale
