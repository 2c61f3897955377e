------------------------- MODULE RoomTimelineProofs -------------------------
(***************************************************************************)
(* Theorems about one room while time passes, for every calendar, override *)
(* row, registry and policy.                                               *)
(***************************************************************************)
EXTENDS RoomTimeline, TLAPS

Typed ==
  /\ room \in Rooms
  /\ calendar \in Calendars /\ calendar \subseteq NormalizedBooking
  /\ override \in OverrideRows
  /\ t \in Nat

\* Only the time changes.
LEMMA TypedInvariant == Spec => []Typed
<1>1. Init => Typed
  BY TimelineAssumption DEF Init, Typed
<1>2. Typed /\ [Next]_timelineVars => Typed'
  BY DEF Typed, Next, Tick, AtHorizon, timelineVars
<1> QED
  BY <1>1, <1>2, PTL DEF Spec

-----------------------------------------------------------------------------
(* Instants.                                                               *)

\* The types of the policy's times.
LEMMA TimeTypes ==
  /\ DayLength \in Nat \ {0} /\ CheckIn \in Nat /\ CheckOut \in Nat /\ Lead \in Nat
  /\ CheckIn < DayLength /\ CheckOut < DayLength
BY PolicyAssumption

\* The instants of a booking, as offsets into its days.
LEMMA BookingInstants ==
  ASSUME NEW b \in NormalizedBooking
  PROVE  /\ b.arrival \in Nat /\ b.departure \in Nat /\ b.arrival <= b.departure
         /\ b.arrival * DayLength \in Nat /\ b.departure * DayLength \in Nat
         /\ b.arrival * DayLength <= b.departure * DayLength
         /\ arrival_at(b) = b.arrival * DayLength + CheckIn
         /\ checkout_at(b) = b.departure * DayLength + CheckOut
         /\ arrival_at(b) \in Nat /\ checkout_at(b) \in Nat /\ lead_start(b) \in Int
         /\ lead_start(b) < b.departure * DayLength + DayLength
<1>1. b.arrival \in Nat /\ b.departure \in Nat /\ b.arrival <= b.departure
  BY DEF NormalizedBooking
<1>2. \A i, j, k \in Nat : i <= j => i * k \in Nat /\ j * k \in Nat /\ i * k <= j * k
  <2>1. ASSUME NEW i \in Nat, NEW j \in Nat, NEW k \in Nat, i <= j
        PROVE  i * k \in Nat /\ j * k \in Nat /\ i * k <= j * k
    <3>1. PICK n \in Nat : j = i + n
      <4>1. j - i \in Nat /\ j = i + (j - i)
        BY <2>1
      <4> QED
        BY <4>1
    <3>2. j * k = i * k + n * k /\ n * k \in Nat /\ i * k \in Nat
      BY <3>1
    <3> QED
      BY <3>2
  <2> QED
    BY <2>1
<1> DEFINE A == b.arrival * DayLength
           D == b.departure * DayLength
<1>3. A \in Nat /\ D \in Nat /\ A <= D
  BY <1>1, <1>2, TimeTypes
<1>4. arrival_at(b) = A + CheckIn /\ checkout_at(b) = D + CheckOut /\ lead_start(b) = A + CheckIn - Lead
  BY <1>1, TimeTypes DEF arrival_at, checkout_at, lead_start
<1> HIDE DEF A, D
<1>5. /\ arrival_at(b) \in Nat /\ checkout_at(b) \in Nat /\ lead_start(b) \in Int
      /\ lead_start(b) < D + DayLength
  BY <1>3, <1>4, TimeTypes
<1> QED
  BY <1>1, <1>3, <1>4, <1>5 DEF A, D

\* Bookings with the same instants have the same dates.
LEMMA SameDates ==
  ASSUME NEW b \in NormalizedBooking, NEW c \in NormalizedBooking
  PROVE  /\ checkout_at(b) = checkout_at(c) => b.departure = c.departure
         /\ arrival_at(b) = arrival_at(c) => b.arrival = c.arrival
<1>1. ASSUME NEW i \in Nat, NEW j \in Nat, i * DayLength = j * DayLength PROVE i = j
  BY <1>1, TimeTypes
<1>2. /\ b.arrival \in Nat /\ b.departure \in Nat /\ c.arrival \in Nat /\ c.departure \in Nat
      /\ b.arrival * DayLength \in Nat /\ b.departure * DayLength \in Nat
      /\ c.arrival * DayLength \in Nat /\ c.departure * DayLength \in Nat
  BY BookingInstants
<1>3. checkout_at(b) = checkout_at(c) => b.departure * DayLength = c.departure * DayLength
  BY <1>2, BookingInstants, TimeTypes
<1>4. arrival_at(b) = arrival_at(c) => b.arrival * DayLength = c.arrival * DayLength
  BY <1>2, BookingInstants, TimeTypes
<1> QED
  BY <1>1, <1>2, <1>3, <1>4

\* Before the end of a day it is that date, or an earlier one.
LEMMA DateBefore ==
  ASSUME NEW u \in Nat, NEW n \in Nat, u < n * DayLength + DayLength
  PROVE  date(u) <= n
<1> DEFINE q == u \div DayLength
<1>1. q \in Nat /\ q * DayLength <= u
  BY TimeTypes
<1>2. SUFFICES ASSUME n + 1 <= q PROVE FALSE
  BY <1>1 DEF date
<1>3. PICK m \in Nat : q = n + 1 + m
  <2>1. q - (n + 1) \in Nat /\ q = n + 1 + (q - (n + 1))
    BY <1>1, <1>2
  <2> QED
    BY <2>1
<1>4. q * DayLength = n * DayLength + DayLength + m * DayLength /\ m * DayLength \in Nat
      /\ n * DayLength \in Nat
  BY <1>3, TimeTypes
<1> QED
  BY <1>1, <1>4, TimeTypes

\* Time does not go back.
LEMMA DateGrows ==
  ASSUME NEW u \in Nat
  PROVE  date(u) \in Nat /\ date(u) <= date(u + 1)
<1> DEFINE q == u \div DayLength
           p == (u + 1) \div DayLength
<1>1. /\ q \in Nat /\ q * DayLength <= u
      /\ p \in Nat /\ u + 1 < p * DayLength + DayLength
  BY TimeTypes
<1>2. p * DayLength \in Nat
  BY <1>1, TimeTypes
<1>3. u < p * DayLength + DayLength
  BY <1>1, <1>2, TimeTypes
<1>4. date(u) <= p
  BY <1>1, <1>3, DateBefore
<1> QED
  BY <1>1, <1>4 DEF date

-----------------------------------------------------------------------------
(* Bookings without a room.                                                *)

\* Given that every room of the registry has a Clock id, a booking that is
\* assigned to no physical room has no say in any room's state.
THEOREM UnassignedIneffective ==
  ASSUME \A r \in Rooms : clock_room_id[r] # Null
  PROVE  Spec => []UnassignedHasNoEffect
<1>1. Typed => UnassignedHasNoEffect
  <2> SUFFICES ASSUME Typed PROVE UnassignedHasNoEffect
    OBVIOUS
  <2> DEFINE B == {b \in calendar : has_physical_room(b)}
  <2>1. room # Null /\ clock_room_id[room] # Null
    BY RegistryAssumption DEF Typed
  <2>2. \A on : active_bookings_for_room(room, calendar, on) = active_bookings_for_room(room, B, on)
    BY <2>1 DEF active_bookings_for_room, has_physical_room
  <2>3. unknown_bookings_for_room(room, calendar) = unknown_bookings_for_room(room, B)
    BY <2>1 DEF unknown_bookings_for_room, has_physical_room
  <2>4. evaluate_room(room, calendar, t, override) = evaluate_room(room, B, t, override)
    BY <2>2, <2>3 DEF evaluate_room
  <2> QED
    BY <2>4 DEF UnassignedHasNoEffect, Evaluations
<1> QED
  BY <1>1, TypedInvariant, PTL

-----------------------------------------------------------------------------
(* The order of the bookings.                                              *)

\* Without a conflict the relevant booking is unique.
LEMMA RelevantUnique ==
  ASSUME NEW C \in SUBSET NormalizedBooking, conflicting(C) = {},
         \A b \in C : b.arrival < b.departure,
         NEW b \in select_relevant_booking(C), NEW c \in select_relevant_booking(C)
  PROVE  b = c
<1>1. b \in C /\ c \in C
  BY DEF select_relevant_booking
<1>2. /\ b.arrival \in Nat /\ b.departure \in Nat /\ c.arrival \in Nat /\ c.departure \in Nat
      /\ checkout_at(b) \in Nat /\ checkout_at(c) \in Nat
      /\ arrival_at(b) \in Nat /\ arrival_at(c) \in Nat
  BY <1>1, BookingInstants
<1>3. b.departure = c.departure \/ b.arrival = c.arrival
  <2>1. \/ checkout_at(b) <= checkout_at(c) /\ checkout_at(c) <= checkout_at(b)
        \/ arrival_at(b) <= arrival_at(c) /\ arrival_at(c) <= arrival_at(b)
    BY DEF select_relevant_booking
  <2>2. checkout_at(b) = checkout_at(c) \/ arrival_at(b) = arrival_at(c)
    BY <1>2, <2>1
  <2> QED
    BY <1>1, <2>2, SameDates
<1>4. bookings_overlap(b, c)
  BY <1>1, <1>2, <1>3 DEF bookings_overlap
<1> QED
  BY <1>1, <1>4 DEF conflicting

\* For stays of at least one night the order in which the database returns the
\* bookings decides no room's state.
THEOREM OrderIrrelevant == Spec => []OrderIndependent
<1>1. Typed => OrderIndependent
  <2> SUFFICES ASSUME Typed, \A b \in calendar : b.arrival < b.departure,
                      NEW d \in Evaluations, NEW e \in Evaluations
               PROVE  d.phase = e.phase /\ (d.phase \notin {"conflict", "unknown"} => d = e)
    BY DEF OrderIndependent
  <2> DEFINE C == active_bookings_for_room(room, calendar, date(t))
             U == unknown_bookings_for_room(room, calendar)
  <2>1. CASE ~enabled[room]
    BY <2>1 DEF Evaluations, evaluate_room
  <2>2. CASE enabled[room] /\ U # {}
    BY <2>2 DEF Evaluations, evaluate_room, RoomStateEvaluation
  <2>3. CASE enabled[room] /\ U = {} /\ conflicting(C) # {}
    BY <2>3 DEF Evaluations, evaluate_room, RoomStateEvaluation
  <2>4. CASE enabled[room] /\ U = {} /\ conflicting(C) = {} /\ C = {}
    BY <2>4 DEF Evaluations, evaluate_room
  <2>5. CASE enabled[room] /\ U = {} /\ conflicting(C) = {} /\ C # {}
    <3>1. PICK b \in select_relevant_booking(C) : d = evaluate_selected(b, t, override)
      BY <2>5 DEF Evaluations, evaluate_room
    <3>2. PICK c \in select_relevant_booking(C) : e = evaluate_selected(c, t, override)
      BY <2>5 DEF Evaluations, evaluate_room
    <3>3. C \in SUBSET NormalizedBooking /\ \A x \in C : x.arrival < x.departure
      BY DEF Typed, active_bookings_for_room
    <3>4. b = c
      BY <2>5, <3>3, RelevantUnique
    <3> QED
      BY <3>1, <3>2, <3>4
  <2> QED
    BY <2>1, <2>2, <2>3, <2>4, <2>5
<1> QED
  BY <1>1, TypedInvariant, PTL

-----------------------------------------------------------------------------
(* The published ends.                                                     *)

\* How a room comes to a state with a booking in one of the normal phases.
LEMMA SelectedState ==
  ASSUME NEW r \in Rooms, NEW B \in SUBSET NormalizedBooking, NEW u \in Nat, NEW o,
         NEW e \in evaluate_room(r, B, u, o)
  PROVE  e.phase \in {"reserved", "pre_arrival", "occupied", "manual_override"} =>
           /\ enabled[r] /\ unknown_bookings_for_room(r, B) = {}
           /\ conflicting(active_bookings_for_room(r, B, date(u))) = {}
           /\ \E b \in select_relevant_booking(active_bookings_for_room(r, B, date(u))) :
                e = evaluate_selected(b, u, o)
BY DEF evaluate_room, RoomStateEvaluation

\* What evaluate_selected answers in each phase.
LEMMA SelectedPhases ==
  ASSUME NEW b \in NormalizedBooking, NEW u \in Nat, NEW o,
         NEW e, e = evaluate_selected(b, u, o)
  PROVE  /\ e.booking = b
         /\ e.phase = "manual_override" => override_governs(o, b, u) /\ e.until = o.expires_at
         /\ e.phase # "manual_override" => ~override_governs(o, b, u)
         /\ e.phase = "occupied" =>
              b.status = "checked_in" /\ u < checkout_at(b) /\ e.until = checkout_at(b)
         /\ e.phase = "pre_arrival" =>
              b.status # "checked_in" /\ lead_start(b) <= u /\ e.until = checkout_at(b)
         /\ e.phase = "reserved" =>
              b.status # "checked_in" /\ u < lead_start(b) /\ e.until = lead_start(b)
<1>1. checkout_at(b) \in Nat /\ lead_start(b) \in Int
  BY BookingInstants
<1>2. CASE override_governs(o, b, u)
  BY <1>2 DEF evaluate_selected, RoomStateEvaluation
<1>3. CASE ~override_governs(o, b, u)
  <2>1. CASE b.status = "checked_in" /\ u >= checkout_at(b)
    BY <1>3, <2>1 DEF evaluate_selected, RoomStateEvaluation
  <2>2. CASE b.status = "checked_in" /\ ~(u >= checkout_at(b))
    BY <1>1, <1>3, <2>2 DEF evaluate_selected, RoomStateEvaluation
  <2>3. CASE b.status # "checked_in" /\ u >= lead_start(b)
    BY <1>1, <1>3, <2>3 DEF evaluate_selected, RoomStateEvaluation
  <2>4. CASE b.status # "checked_in" /\ ~(u >= lead_start(b))
    BY <1>1, <1>3, <2>4 DEF evaluate_selected, RoomStateEvaluation
  <2> QED
    BY <2>1, <2>2, <2>3, <2>4
<1> QED
  BY <1>2, <1>3

\* A booking whose day of departure has not passed stays the relevant one.
LEMMA StaysSelected ==
  ASSUME NEW r \in Rooms, NEW B \in SUBSET NormalizedBooking, NEW u \in Nat,
         conflicting(active_bookings_for_room(r, B, date(u))) = {},
         NEW b \in select_relevant_booking(active_bookings_for_room(r, B, date(u))),
         date(u + 1) <= b.departure
  PROVE  /\ conflicting(active_bookings_for_room(r, B, date(u + 1))) = {}
         /\ b \in select_relevant_booking(active_bookings_for_room(r, B, date(u + 1)))
<1> DEFINE C == active_bookings_for_room(r, B, date(u))
           D == active_bookings_for_room(r, B, date(u + 1))
<1>1. /\ date(u) \in Nat /\ date(u + 1) \in Nat /\ date(u) <= date(u + 1)
      /\ \A c \in B : c.departure \in Nat
  BY DateGrows, BookingInstants
<1>2. D \subseteq C
  <2> SUFFICES ASSUME NEW c \in D PROVE c \in C
    OBVIOUS
  <2>1. c \in B /\ date(u + 1) <= c.departure
    BY DEF active_bookings_for_room
  <2>2. date(u) <= c.departure
    BY <1>1, <2>1
  <2> QED
    BY <2>1, <2>2 DEF active_bookings_for_room
<1>3. b \in C /\ b \in D
  BY DEF select_relevant_booking, active_bookings_for_room
<1>4. conflicting(D) = {}
  BY <1>2 DEF conflicting
<1> HIDE DEF C, D
<1>5. b \in select_relevant_booking(C)
  BY DEF C
<1>6. b \in select_relevant_booking(D)
  BY <1>2, <1>3, <1>5 DEF select_relevant_booking
<1> QED
  BY <1>4, <1>6 DEF D

\* An override that does not govern a booking does not come to govern it.
LEMMA NotGoverning ==
  ASSUME NEW o \in RoomPolicyOverride \cup {Null}, NEW b, NEW u \in Nat,
         ~override_governs(o, b, u)
  PROVE  ~override_governs(o, b, u + 1)
<1> SUFFICES ASSUME override_governs(o, b, u + 1) PROVE FALSE
  OBVIOUS
<1>1. /\ o # Null
      /\ o.expires_at \in Nat \cup {Null} /\ o.checkout_at \in Nat \cup {Null}
  BY DEF override_governs, RoomPolicyOverride
<1> QED
  BY <1>1 DEF override_governs, override_row_is_active

\* An instant later a state whose end is not reached is found again.
LEMMA Lasting ==
  ASSUME NEW r \in Rooms, NEW B \in SUBSET NormalizedBooking, NEW u \in Nat,
         NEW o \in RoomPolicyOverride \cup {Null},
         NEW e \in evaluate_room(r, B, u, o)
  PROVE  e.phase \in {"reserved", "pre_arrival", "occupied"} /\ u + 1 < e.until =>
           \E f \in evaluate_room(r, B, u + 1, o) :
             f.phase = e.phase /\ f.booking = e.booking /\ f.until = e.until
<1>1. e.phase \in {"reserved", "pre_arrival", "occupied", "manual_override"} =>
        /\ enabled[r] /\ unknown_bookings_for_room(r, B) = {}
        /\ conflicting(active_bookings_for_room(r, B, date(u))) = {}
        /\ \E b \in select_relevant_booking(active_bookings_for_room(r, B, date(u))) :
             e = evaluate_selected(b, u, o)
  BY SelectedState
<1> SUFFICES ASSUME e.phase \in {"reserved", "pre_arrival", "occupied"}
             PROVE  u + 1 < e.until =>
                      \E f \in evaluate_room(r, B, u + 1, o) :
                        f.phase = e.phase /\ f.booking = e.booking /\ f.until = e.until
  OBVIOUS
<1> DEFINE C == active_bookings_for_room(r, B, date(u))
           D == active_bookings_for_room(r, B, date(u + 1))
<1>2. /\ enabled[r] /\ unknown_bookings_for_room(r, B) = {} /\ conflicting(C) = {}
      /\ \E b \in select_relevant_booking(C) : e = evaluate_selected(b, u, o)
  BY <1>1
<1>3. PICK b \in select_relevant_booking(C) : e = evaluate_selected(b, u, o)
  BY <1>2
<1>4. b \in NormalizedBooking
  BY DEF select_relevant_booking, active_bookings_for_room
<1>5. /\ e.booking = b /\ ~override_governs(o, b, u)
      /\ e.phase = "occupied" =>
           b.status = "checked_in" /\ u < checkout_at(b) /\ e.until = checkout_at(b)
      /\ e.phase = "pre_arrival" =>
           b.status # "checked_in" /\ lead_start(b) <= u /\ e.until = checkout_at(b)
      /\ e.phase = "reserved" =>
           b.status # "checked_in" /\ u < lead_start(b) /\ e.until = lead_start(b)
  BY <1>3, <1>4, SelectedPhases
<1> SUFFICES ASSUME u + 1 < e.until
             PROVE  \E f \in evaluate_room(r, B, u + 1, o) :
                      f.phase = e.phase /\ f.booking = e.booking /\ f.until = e.until
  OBVIOUS
<1>6. /\ b.departure \in Nat /\ b.departure * DayLength \in Nat
      /\ checkout_at(b) \in Nat /\ lead_start(b) \in Int
      /\ checkout_at(b) = b.departure * DayLength + CheckOut
      /\ lead_start(b) < b.departure * DayLength + DayLength
  BY <1>4, BookingInstants
<1>7. u + 1 < b.departure * DayLength + DayLength
  <2>1. e.until < b.departure * DayLength + DayLength /\ e.until \in Int
    BY <1>5, <1>6, TimeTypes
  <2> QED
    BY <1>6, <2>1, TimeTypes
<1>8. date(u + 1) <= b.departure
  BY <1>6, <1>7, DateBefore
<1>9. conflicting(D) = {} /\ b \in select_relevant_booking(D)
  BY <1>2, <1>8, StaysSelected
<1>10. D # {}
  BY <1>9 DEF select_relevant_booking
<1> DEFINE f == evaluate_selected(b, u + 1, o)
<1>11. f \in evaluate_room(r, B, u + 1, o)
  BY <1>2, <1>9, <1>10 DEF evaluate_room
<1>12. ~override_governs(o, b, u + 1)
  BY <1>5, NotGoverning
<1>13. f.booking = e.booking /\ f.phase = e.phase /\ f.until = e.until
  <2>1. CASE e.phase = "occupied"
    BY <1>5, <1>6, <1>12, <2>1 DEF evaluate_selected, RoomStateEvaluation
  <2>2. CASE e.phase = "pre_arrival"
    BY <1>5, <1>6, <1>12, <2>2 DEF evaluate_selected, RoomStateEvaluation
  <2>3. CASE e.phase = "reserved"
    BY <1>5, <1>6, <1>12, <2>3 DEF evaluate_selected, RoomStateEvaluation
  <2> QED
    BY <2>1, <2>2, <2>3
<1> QED
  BY <1>11, <1>13

\* Time alone does not take a room out of a reserved, pre-arrival or occupied
\* state before the end that was published with it.
THEOREM LastsToExpiry == Spec => LastsUntilExpiry
<1> DEFINE Lasts ==
      \A e \in Evaluations :
        e.phase \in {"reserved", "pre_arrival", "occupied"} /\ t' < e.until =>
          \E f \in Evaluations' :
            f.phase = e.phase /\ f.booking = e.booking /\ f.until = e.until
<1>1. ASSUME Typed, [Next]_timelineVars PROVE [Lasts]_timelineVars
  <2> SUFFICES ASSUME Tick PROVE Lasts
    BY <1>1 DEF Next, AtHorizon
  <2>1. /\ room \in Rooms /\ calendar \in SUBSET NormalizedBooking /\ t \in Nat
        /\ override \in RoomPolicyOverride \cup {Null}
    BY <1>1, TimelineAssumption DEF Typed
  <2>2. t' = t + 1 /\ Evaluations' = evaluate_room(room, calendar, t + 1, override)
    BY DEF Tick, Evaluations
  <2>3. Evaluations = evaluate_room(room, calendar, t, override)
    BY DEF Evaluations
  <2> QED
    BY <2>1, <2>2, <2>3, Lasting
<1> QED
  BY <1>1, TypedInvariant, PTL DEF Spec, LastsUntilExpiry

\* A state that governs at an instant ends after it.
LEMMA EndsLater ==
  ASSUME NEW r \in Rooms, NEW B \in SUBSET NormalizedBooking, NEW u \in Nat,
         NEW o, o # Null /\ o.until_checkout => o.expires_at = Null,
         NEW f \in evaluate_room(r, B, u, o)
  PROVE  /\ f.phase \in {"reserved", "occupied"} => u < f.until
         /\ f.phase = "manual_override" /\ f.until # Null => u < f.until
<1>1. f.phase \in {"reserved", "pre_arrival", "occupied", "manual_override"} =>
        /\ enabled[r] /\ unknown_bookings_for_room(r, B) = {}
        /\ conflicting(active_bookings_for_room(r, B, date(u))) = {}
        /\ \E b \in select_relevant_booking(active_bookings_for_room(r, B, date(u))) :
             f = evaluate_selected(b, u, o)
  BY SelectedState
<1>2. f.phase \in {"reserved", "pre_arrival", "occupied", "manual_override"} =>
        \E c \in NormalizedBooking : f = evaluate_selected(c, u, o)
  BY <1>1 DEF select_relevant_booking, active_bookings_for_room
<1>3. ASSUME NEW c \in NormalizedBooking, f = evaluate_selected(c, u, o)
      PROVE  /\ f.phase = "manual_override" => override_governs(o, c, u) /\ f.until = o.expires_at
             /\ f.phase = "occupied" => u < checkout_at(c) /\ f.until = checkout_at(c)
             /\ f.phase = "reserved" => u < lead_start(c) /\ f.until = lead_start(c)
  BY <1>3, SelectedPhases
<1>4. ASSUME NEW c \in NormalizedBooking, override_governs(o, c, u), f.until = o.expires_at,
             f.until # Null
      PROVE  u < f.until
  <2>1. ~o.until_checkout
    BY <1>4 DEF override_governs
  <2> QED
    BY <1>4, <2>1 DEF override_governs, override_row_is_active
<1>5. f.phase \in {"reserved", "occupied"} => u < f.until
  BY <1>2, <1>3
<1>6. f.phase = "manual_override" /\ f.until # Null => u < f.until
  BY <1>2, <1>3, <1>4
<1> QED
  BY <1>5, <1>6

\* The end published with an override is the end of its row.
LEMMA SameEnd ==
  ASSUME NEW r \in Rooms, NEW B \in SUBSET NormalizedBooking, NEW u \in Nat, NEW o,
         NEW e \in evaluate_room(r, B, u, o)
  PROVE  e.phase = "manual_override" => e.until = o.expires_at
<1>1. e.phase \in {"reserved", "pre_arrival", "occupied", "manual_override"} =>
        /\ enabled[r] /\ unknown_bookings_for_room(r, B) = {}
        /\ conflicting(active_bookings_for_room(r, B, date(u))) = {}
        /\ \E b \in select_relevant_booking(active_bookings_for_room(r, B, date(u))) :
             e = evaluate_selected(b, u, o)
  BY SelectedState
<1>2. e.phase = "manual_override" =>
        \E c \in NormalizedBooking : e = evaluate_selected(c, u, o)
  BY <1>1 DEF select_relevant_booking, active_bookings_for_room
<1>3. \A c \in NormalizedBooking :
        e = evaluate_selected(c, u, o) /\ e.phase = "manual_override" => e.until = o.expires_at
  BY SelectedPhases
<1> QED
  BY <1>2, <1>3

\* Given that a row tied to a checkout has no other end, as _build_override_row
\* makes them, a reserved, occupied or overridden state is not issued again once
\* its published end is reached.
THEOREM EndsWithExpiry ==
  ASSUME \A o \in OverrideRows : o # Null /\ o.until_checkout => o.expires_at = Null
  PROVE  Spec => EndsAtExpiry
<1> DEFINE Ends ==
      \A e \in Evaluations, f \in Evaluations' :
         e.phase \in {"reserved", "occupied", "manual_override"}
           /\ e.until # Null /\ f.phase = e.phase /\ f.booking = e.booking
         => t' < f.until
<1>1. ASSUME Typed, [Next]_timelineVars PROVE [Ends]_timelineVars
  <2> SUFFICES ASSUME Tick PROVE Ends
    BY <1>1 DEF Next, AtHorizon
  <2>1. /\ room \in Rooms /\ calendar \in SUBSET NormalizedBooking /\ t \in Nat /\ t + 1 \in Nat
        /\ override # Null /\ override.until_checkout => override.expires_at = Null
    BY <1>1 DEF Typed
  <2>2. t' = t + 1 /\ Evaluations' = evaluate_room(room, calendar, t + 1, override)
    BY DEF Tick, Evaluations
  <2>3. Evaluations = evaluate_room(room, calendar, t, override)
    BY DEF Evaluations
  <2>4. ASSUME NEW e \in evaluate_room(room, calendar, t, override),
               NEW f \in evaluate_room(room, calendar, t + 1, override),
               e.phase \in {"reserved", "occupied", "manual_override"},
               e.until # Null, f.phase = e.phase
        PROVE  t + 1 < f.until
    <3>1. f.phase = "manual_override" => f.until = override.expires_at /\ e.until = override.expires_at
      BY <2>1, <2>4, SameEnd
    <3>2. f.phase \in {"reserved", "occupied"} \/ (f.phase = "manual_override" /\ f.until # Null)
      BY <2>4, <3>1
    <3> QED
      BY <2>1, <3>2, EndsLater
  <2> QED
    BY <2>2, <2>3, <2>4
<1> QED
  BY <1>1, TypedInvariant, PTL DEF Spec, EndsAtExpiry

=============================================================================
