CONSTANTS
  Null = Null
  Rooms <- MCOneRoom
  ClockIds = {"c1"}
  RoomNumbers = {"101"}
  BookingIds = {"b1"}
  clock_room_id <- MCAllMapped
  enabled <- MCAllEnabled
  DayLength = 3
  CheckIn = 2
  CheckOut = 1
  Lead = 1
  HeatTarget = 22
  SetbackTarget = 16
  MinTarget = 19
  MaxTarget = 24
  WaterPreArrival = TRUE
  ConvectorsPreArrival = TRUE
  Span <- MCSpan
  MaxSpan = 6
  Temperatures = {30}
  Commands <- MCManual
  Feed <- MCStay
  MaxTime = 3
SPECIFICATION Spec
PROPERTY
  ControlStateNotStale
