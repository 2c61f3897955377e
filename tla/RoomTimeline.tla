---------------------------- MODULE RoomTimeline ----------------------------
(***************************************************************************)
(* One room under a fixed calendar and a fixed override while time passes: *)
(* evaluate_room (app/domain/state_machine.py) is called again and again   *)
(* with a later `now` and nothing else changed.  This is what the policy   *)
(* scheduler exists for, and where the windows it publishes                *)
(* (effective_from, expires_at) can be compared with what really happens.  *)
(***************************************************************************)
EXTENDS RoomControl

CONSTANTS
  Calendars,   \* sets of bookings to evaluate the room under
  OverrideRows,   \* override rows, or Null
  Horizon      \* bound: the last instant

ASSUME TimelineAssumption ==
  /\ \A B \in Calendars : B \subseteq NormalizedBooking
  /\ OverrideRows \subseteq RoomPolicyOverride \cup {Null}
  /\ Horizon \in Nat

VARIABLES room, calendar, override, t

timelineVars == <<room, calendar, override, t>>

Init ==
  /\ room \in Rooms
  /\ calendar \in Calendars
  /\ override \in OverrideRows
  /\ t = 0

Tick ==
  /\ t < Horizon
  /\ t' = t + 1
  /\ UNCHANGED <<room, calendar, override>>

\* The end of the modelled time.
AtHorizon == t = Horizon /\ UNCHANGED timelineVars

Next == Tick \/ AtHorizon

Spec == Init /\ [][Next]_timelineVars

Evaluations == evaluate_room(room, calendar, t, override)

-----------------------------------------------------------------------------
\* The order the database returns the bookings in does not decide a room's
\* state when every stay lasts a night: it decides at most which booking of a
\* conflict, or which unknown booking, is shown.
OrderIndependent ==
  (\A b \in calendar : b.arrival < b.departure) =>
    \A d, e \in Evaluations :
      d.phase = e.phase /\ (d.phase \notin {"conflict", "unknown"} => d = e)

\* Time alone takes a room from one state to another only at the published end
\* of the state: a reserved, pre-arrival or occupied state lasts at least until
\* its expires_at.
LastsUntilExpiry ==
  [][\A e \in Evaluations :
       e.phase \in {"reserved", "pre_arrival", "occupied"} /\ t' < e.until =>
         \E f \in Evaluations' :
           f.phase = e.phase /\ f.booking = e.booking /\ f.until = e.until]_timelineVars

\* A reserved, occupied or overridden state is not re-issued once its
\* expires_at is reached.  (A pre-arrival state is: its window ends at the
\* checkout time, the phase with the day of departure.)
EndsAtExpiry ==
  [][\A e \in Evaluations, f \in Evaluations' :
       e.phase \in {"reserved", "occupied", "manual_override"}
         /\ e.until # Null /\ f.phase = e.phase /\ f.booking = e.booking
       => t' < f.until]_timelineVars

\* A booking without a physical room has no say in any room's state.
UnassignedHasNoEffect ==
  Evaluations =
    evaluate_room(room, {b \in calendar : has_physical_room(b)}, t, override)

=============================================================================
