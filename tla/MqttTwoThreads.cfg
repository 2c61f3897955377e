CONSTANTS
  Commands = {c1, c2}
  Threads = {t1, t2}
  Main = main
  MaxVersion = 1
  MaxInputs = 2
  MaxFaults = 0
  Null = Null
SPECIFICATION Spec
PROPERTY
  CommandsInOrder
