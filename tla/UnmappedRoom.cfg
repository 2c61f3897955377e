CONSTANTS
  Null = Null
  Rooms = {"101"}
  ClockIds = {"c1"}
  RoomNumbers = {"101"}
  BookingIds = {"b1", "b2"}
  clock_room_id <- MCUnmapped
  enabled <- MCEnabled
  DayLength = 3
  CheckIn = 2
  CheckOut = 1
  Lead = 1
  HeatTarget = 22
  SetbackTarget = 16
  MinTarget = 19
  MaxTarget = 24
  WaterPreArrival = TRUE
  ConvectorsPreArrival = TRUE
  Span <- MCSpan
  MaxSpan = 6
  Temperatures = {30}
  Calendars <- MCCalendars
  OverrideRows <- MCOverrides
  Horizon = 9
SPECIFICATION Spec
INVARIANT
  UnassignedHasNoEffect
