CONSTANTS
  b1 = b1
  b2 = b2
  Bookings <- MCBookings
  Malformed <- MCMalformed
  Tasks = {periodic, reconcile}
  Start = 2
  DaysPast = 1
  Overlap = 1
  Lag = 1
  MaxTime = 4
  MaxVersion = 2
  MaxFaults = 1
  Null = Null
SPECIFICATION FairSpec
INVARIANT
  NoUpdateMissed
PROPERTIES
  MirrorsClock
  EventuallyStored
