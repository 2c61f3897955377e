CONSTANTS
  Null = Null
  Rooms <- MCTwoRooms
  ClockIds = {"c1", "c2"}
  RoomNumbers = {"101", "102"}
  BookingIds = {"b1"}
  clock_room_id <- MCAllMapped
  enabled <- MCAllEnabled
  DayLength = 3
  CheckIn = 2
  CheckOut = 1
  Lead = 1
  HeatTarget = 22
  SetbackTarget = 16
  MinTarget = 19
  MaxTarget = 24
  WaterPreArrival = TRUE
  ConvectorsPreArrival = TRUE
  Span <- MCSpan
  MaxSpan = 6
  Temperatures = {30}
  Commands <- MCNoCommands
  Feed <- MCSameDay
  MaxTime = 4
SPECIFICATION Spec
PROPERTY
  TickSettles
