CONSTANTS
  b1 = b1
  b2 = b2
  Bookings <- MCBookings
  Malformed <- MCWellFormed
  Tasks = {periodic, reconcile}
  Start = 2
  DaysPast = 1
  Overlap = 1
  Lag = 2
  MaxTime = 4
  MaxVersion = 2
  MaxFaults = 1
  Null = Null
SPECIFICATION Spec
INVARIANTS
  NoUpdateMissed
