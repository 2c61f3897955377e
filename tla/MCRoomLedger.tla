---------------------------- MODULE MCRoomLedger ----------------------------
(***************************************************************************)
(* Instances of RoomLedger for TLC.  In the example policy check-out time  *)
(* is also the start of the preparation window of an arrival that day      *)
(* (15:00 - 4h = 11:00).  A day has three ticks, the morning, check-out    *)
(* and check-in time, or only the last two, so that a stay of one night    *)
(* ends within MaxTime.                                                    *)
(***************************************************************************)
EXTENDS RoomLedger

MCOneRoom == {"101"}
MCTwoRooms == {"101", "102"}

MCAllMapped == [r \in Rooms |-> IF r = "101" THEN "c1" ELSE "c2"]
MCAllEnabled == [r \in Rooms |-> TRUE]

MCSpan == [d \in TimedDurations |->
             CASE d = "60" -> 1 [] d = "240" -> 2 [] d = "720" -> 6]

Booking(id, status, arrival, departure, room) ==
  [id |-> id, status |-> status, arrival |-> arrival, departure |-> departure,
   roomId |-> IF room = Null THEN Null ELSE MCAllMapped[room], roomNumber |-> room]

\* A guest whose booking is expected, checks in and checks out.
MCStay == {Booking("b1", s, 0, 1, "101") : s \in {"expected", "checked_in", "checked_out"}}

\* Arrival and departure on the same date.
MCSameDay == {Booking("b1", "expected", 0, 0, "101")}

\* A booking that moves from one room to the other.
MCMove == {Booking("b1", "checked_in", 0, 1, r) : r \in MCTwoRooms}

MCNoCommands == {}
MCManual == {[field |-> "mode", value |-> "manual"]}

MCCommands ==
  {[field |-> "mode", value |-> "off"], [field |-> "temperature", value |-> 30],
   [field |-> "duration", value |-> "until_checkout"],
   [field |-> "return-to-automatic", value |-> "press"]}

\* A message for every other branch of the command parser, refusal included.
MCAllCommands ==
  {[field |-> "mode", value |-> "manual"], [field |-> "mode", value |-> "invalid"],
   [field |-> "hvac-mode", value |-> "off"], [field |-> "mode", value |-> "off"],
   [field |-> "duration", value |-> "until_checkout"],
   [field |-> "water-heater", value |-> TRUE]}

\* The guest is in the house.
MCPresent == {Booking("b1", "checked_in", 0, 1, "101")}

=============================================================================
