----------------------------- MODULE RoomPolicy -----------------------------
(***************************************************************************)
(* The room policy of app/domain/state_machine.py and app/policy/engine.py:*)
(* which phase a room is in, given the bookings of the property, an        *)
(* override row and an instant, and which intent that phase derives.       *)
(*                                                                         *)
(* Time is an integer number of ticks; a hotel day has DayLength ticks and *)
(* the check-in and check-out times are offsets into it, so a date is      *)
(* t \div DayLength.  A room is identified with its registry key, which is *)
(* also what Clock calls its physical room number.                         *)
(*                                                                         *)
(* The booking SELECT of the repository layer has no ORDER BY, so whatever *)
(* depends on the order of the list (the first unknown booking, the left   *)
(* booking of a conflict, a tie of a sort) is any of the possible ones:    *)
(* evaluate_room is the SET of the evaluations the code may return.        *)
(***************************************************************************)
EXTENDS Integers

CONSTANTS
  Null,             \* None
  Rooms,            \* keys of the registry's rooms
  ClockIds,         \* Clock's physical room ids
  RoomNumbers,      \* physical room numbers Clock may report
  BookingIds,       \* Clock booking ids
  clock_room_id,    \* room -> its Clock id in the registry, or Null
  enabled,          \* room -> enabled in the registry
  DayLength, CheckIn, CheckOut, Lead,           \* ticks
  HeatTarget, SetbackTarget, MinTarget, MaxTarget,   \* degrees
  WaterPreArrival, ConvectorsPreArrival         \* booleans of the policy

ASSUME RegistryAssumption ==
  /\ Rooms \subseteq RoomNumbers
  /\ clock_room_id \in [Rooms -> ClockIds \cup {Null}]
  /\ enabled \in [Rooms -> BOOLEAN]
  /\ Null \notin Rooms \cup ClockIds \cup RoomNumbers \cup BookingIds \cup Int
  \* require_unique_room_keys
  /\ \A r, s \in Rooms :
        clock_room_id[r] # Null /\ clock_room_id[r] = clock_room_id[s] => r = s

ASSUME PolicyAssumption ==
  /\ DayLength \in Nat \ {0}
  /\ {CheckIn, CheckOut} \subseteq 0 .. DayLength - 1
  /\ Lead \in Nat
  /\ {HeatTarget, SetbackTarget, MinTarget, MaxTarget} \subseteq Int
  /\ MinTarget <= MaxTarget
  /\ {WaterPreArrival, ConvectorsPreArrival} \subseteq BOOLEAN

-----------------------------------------------------------------------------
(* Data of app/domain/enums.py and app/domain/models.py.                   *)

BookingStatus ==
  {"expected", "checked_in", "checked_out", "canceled", "no_show", "unknown"}

AutomationPhase ==
  {"vacant", "reserved", "awaiting_assignment", "pre_arrival", "occupied",
   "checkout_due", "manual_override", "disabled", "conflict", "unknown"}

ControlMode == {"automatic", "manual", "off"}
HvacMode == {"off", "heat", "cool", "auto"}

\* A normalized booking with the identity of its current assignment.
NormalizedBooking ==
  {b \in [id : BookingIds, status : BookingStatus,
          arrival : Nat, departure : Nat,
          roomId : ClockIds \cup Rooms \cup {Null},
          roomNumber : RoomNumbers \cup {Null}] : b.arrival <= b.departure}

has_physical_room(b) == b.roomId # Null \/ b.roomNumber # Null
active_for_automation(b) == b.status \in {"expected", "checked_in"}

clamp_temperature(v) ==
  LET raised == IF v < MinTarget THEN MinTarget ELSE v
  IN  IF raised > MaxTarget THEN MaxTarget ELSE raised

-----------------------------------------------------------------------------
(* app/domain/state_machine.py                                             *)

date(t) == t \div DayLength
arrival_at(b) == b.arrival * DayLength + CheckIn
checkout_at(b) == b.departure * DayLength + CheckOut
lead_start(b) == arrival_at(b) - Lead

bookings_overlap(left, right) ==
  left.arrival < right.departure /\ right.arrival < left.departure

\* Mutant: the day of departure does not count.
active_bookings_for_room_Nights(r, B, on) ==
  {b \in B : /\ active_for_automation(b)
             /\ \/ b.roomId \in {clock_room_id[r], r} \ {Null}
                \/ b.roomNumber = r
             /\ on < b.departure}

\* Mutant: a booking without a room is a candidate of every room.
active_bookings_for_room_Anywhere(r, B, on) ==
  {b \in B : /\ active_for_automation(b)
             /\ \/ b.roomId \in {clock_room_id[r], r, Null}
                \/ b.roomNumber = r
             /\ on <= b.departure}

active_bookings_for_room(r, B, on) ==
  {b \in B : /\ active_for_automation(b)
             /\ \/ b.roomId \in {clock_room_id[r], r} \ {Null}
                \/ b.roomNumber = r
             /\ on <= b.departure}

\* An unassigned booking has roomId = Null, which equals the clock_room_id of
\* a room configured without one: None == None in the code.
unknown_bookings_for_room(r, B) ==
  {b \in B : /\ b.status = "unknown"
             /\ b.roomId = clock_room_id[r] \/ b.roomNumber = r}

conflicting(C) == {b \in C : \E c \in C : c # b /\ bookings_overlap(b, c)}

\* Mutant: the candidates are not sorted.
select_relevant_booking_Unsorted(C) == C

\* Every booking that may head the sorted list, ties included.
select_relevant_booking(C) ==
  LET checked_in == {b \in C : b.status = "checked_in"}
      expected   == {b \in C : b.status = "expected"}
  IN  IF checked_in # {}
      THEN {b \in checked_in :
              \A c \in checked_in : checkout_at(b) <= checkout_at(c)}
      ELSE {b \in expected : \A c \in expected : arrival_at(b) <= arrival_at(c)}

RoomStateEvaluation(phase, booking, from, until) ==
  [phase |-> phase, booking |-> booking, from |-> from, until |-> until]

\* ManualOverride.is_active and override_row_is_active: `o` is an override row.
override_row_is_active(o, t) ==
  /\ o.control_mode # "automatic"
  /\ IF o.until_checkout
     THEN o.booking # Null /\ o.checkout_at # Null /\ o.checkout_at > t
     ELSE o.expires_at # Null /\ o.expires_at > t

override_governs(o, b, t) ==
  /\ o # Null
  /\ override_row_is_active(o, t)
  /\ o.until_checkout => o.booking = b.id

\* Mutant: a checked-in guest stays occupied after the checkout time.
evaluate_selected_NoCheckoutDue(b, t, o) ==
  IF override_governs(o, b, t)
    THEN RoomStateEvaluation("manual_override", b, t, o.expires_at)
  ELSE IF b.status = "checked_in"
    THEN RoomStateEvaluation("occupied", b, t, checkout_at(b))
  ELSE IF t >= lead_start(b)
    THEN RoomStateEvaluation("pre_arrival", b, lead_start(b), checkout_at(b))
  ELSE RoomStateEvaluation("reserved", b, t, lead_start(b))

\* The evaluation of a room whose relevant booking is b.
evaluate_selected(b, t, o) ==
  IF override_governs(o, b, t)
    THEN RoomStateEvaluation("manual_override", b, t, o.expires_at)
  ELSE IF b.status = "checked_in" /\ t >= checkout_at(b)
    THEN RoomStateEvaluation("checkout_due", b, t, Null)
  ELSE IF b.status = "checked_in"
    THEN RoomStateEvaluation("occupied", b, t, checkout_at(b))
  ELSE IF t >= lead_start(b)
    THEN RoomStateEvaluation("pre_arrival", b, lead_start(b), checkout_at(b))
  ELSE RoomStateEvaluation("reserved", b, t, lead_start(b))

evaluate_room(r, B, t, o) ==
  LET candidates == active_bookings_for_room(r, B, date(t))
      unknown    == unknown_bookings_for_room(r, B)
      overlaps   == conflicting(candidates)
  IN  IF ~enabled[r]
        THEN {RoomStateEvaluation("disabled", Null, t, Null)}
      ELSE IF unknown # {}
        THEN {RoomStateEvaluation("unknown", b, t, Null) : b \in unknown}
      ELSE IF overlaps # {}
        THEN {RoomStateEvaluation("conflict", b, t, Null) : b \in overlaps}
      ELSE IF candidates = {}
        THEN {RoomStateEvaluation("vacant", Null, t, Null)}
      ELSE {evaluate_selected(b, t, o) : b \in select_relevant_booking(candidates)}

-----------------------------------------------------------------------------
(* app/policy/engine.py                                                    *)

build_intent(st, control_mode, hvac, water, convectors) ==
  [phase |-> st.phase, control_mode |-> control_mode,
   enabled |-> hvac.enabled, mode |-> hvac.mode, target |-> hvac.target,
   water |-> water, convectors |-> convectors,
   from |-> st.from, until |-> st.until]

Hvac(on, mode, target) == [enabled |-> on, mode |-> mode, target |-> target]
HvacOff == Hvac(FALSE, "off", Null)

SUPPRESS_AUTOMATION_PHASES ==
  {"awaiting_assignment", "conflict", "disabled", "unknown"}

\* Mutant: an "off" override is reported as manual.
override_intent_AlwaysManual(st, o) ==
  build_intent(st, "manual",
    Hvac(o.hvac_mode # "off", o.hvac_mode,
         IF o.target = Null THEN Null ELSE clamp_temperature(o.target)),
    o.water = TRUE, o.hvac_mode # "off")

override_intent(st, o) ==
  build_intent(st, o.control_mode,
    Hvac(o.hvac_mode # "off", o.hvac_mode,
         IF o.target = Null THEN Null ELSE clamp_temperature(o.target)),
    o.water = TRUE, o.hvac_mode # "off")

derive_room_intent(st, o) ==
  CASE st.phase = "manual_override" -> override_intent(st, o)
    [] st.phase \in SUPPRESS_AUTOMATION_PHASES ->
         build_intent(st, "off", HvacOff, FALSE, FALSE)
    [] st.phase = "vacant" ->
         build_intent(st, "automatic", Hvac(TRUE, "heat", SetbackTarget), FALSE, FALSE)
    [] st.phase = "pre_arrival" ->
         build_intent(st, "automatic", Hvac(TRUE, "heat", HeatTarget),
                      WaterPreArrival, ConvectorsPreArrival)
    [] st.phase = "reserved" ->
         build_intent(st, "automatic", HvacOff, FALSE, FALSE)
    [] st.phase \in {"occupied", "checkout_due"} ->
         build_intent(st, "automatic",
                      Hvac(TRUE, "auto", clamp_temperature(HeatTarget)), TRUE, TRUE)

\* HvacIntent.validate_hvac_state: the model refuses to be built otherwise.
validate_hvac_state(i) ==
  IF i.enabled THEN i.mode # "off" /\ i.target # Null
               ELSE i.mode = "off" /\ i.target = Null

\* DesiredRoomIntent.validate_validity_window
validate_validity_window(i) == i.until # Null => i.until > i.from

valid_intent(i) == validate_hvac_state(i) /\ validate_validity_window(i)

=============================================================================
