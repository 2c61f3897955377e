--------------------------- MODULE MCRoomTimeline ---------------------------
(***************************************************************************)
(* All calendars of at most two bookings over three days for a room that   *)
(* has a Clock id, and for one configured without.  Ticks as in            *)
(* MCRoomLedger.                                                           *)
(***************************************************************************)
EXTENDS RoomTimeline

MCMapped == [r \in Rooms |-> "c1"]
MCUnmapped == [r \in Rooms |-> Null]
MCEnabled == [r \in Rooms |-> TRUE]
MCSpan == [d \in TimedDurations |->
             CASE d = "60" -> 1 [] d = "240" -> 2 [] d = "720" -> 6]

Dates == {d \in (0 .. 2) \X (0 .. 2) : d[1] <= d[2]}

\* Assigned by id and number, by number only, or not at all.
Assignments == {<<"c1", "101">>, <<Null, "101">>, <<Null, Null>>}

MCBookings(id) ==
  {[id |-> id, status |-> s, arrival |-> d[1], departure |-> d[2],
    roomId |-> a[1], roomNumber |-> a[2]] :
      s \in {"expected", "checked_in", "canceled", "unknown"},
      d \in Dates, a \in Assignments}

MCCalendars ==
  {{}} \cup {{b} : b \in MCBookings("b1")}
       \cup {{b, c} : b \in MCBookings("b1"), c \in MCBookings("b2")}

Timed(d) == override_row(Draft("manual", "heat", 21, TRUE, d), 0, Null, <<1, 1>>)

\* None, a timed override, and one until the checkout of booking b2 on day 1.
MCOverrides ==
  {Null, Timed("240"),
   [Timed("240") EXCEPT !.expires_at = Null, !.until_checkout = TRUE,
                        !.booking = "b2", !.checkout_at = DayLength + CheckOut]}

=============================================================================
