---------------------------- MODULE RoomControl ----------------------------
(***************************************************************************)
(* The override rows of app/policy/control.py: how a Home Assistant        *)
(* command, taken together with the override in force, becomes a row of    *)
(* room_policy_overrides, when it is refused, and which row is the latest. *)
(*                                                                         *)
(* A table is the sequence of its rows in commit order.  Primary keys are  *)
(* random UUIDs, compared only between rows that carry the same timestamp: *)
(* uid is the rank of the row's key and evid that of the key of the        *)
(* control/state event written with it.                                    *)
(***************************************************************************)
EXTENDS RoomPolicy, Sequences

CONSTANTS
  Span,          \* ticks of the durations "60", "240" and "720"
  MaxSpan,       \* manual_override_max_minutes, in ticks
  Temperatures   \* what a temperature command may ask for

TimedDurations == {"60", "240", "720"}
SUPPORTED_DURATIONS == TimedDurations \cup {"until_checkout"}
DEFAULT_DURATION == "60"

ASSUME ControlAssumption ==
  /\ Span \in [TimedDurations -> Nat \ {0}]
  /\ \A c, d \in TimedDurations : Span[c] = Span[d] => c = d
  /\ MaxSpan \in Nat \ {0}
  /\ Temperatures \subseteq Int

-----------------------------------------------------------------------------
(* Rows.                                                                   *)

Ranks == 0 .. 2

RoomPolicyOverride ==
  [control_mode : ControlMode, hvac_mode : HvacMode, target : Int \cup {Null},
   water : BOOLEAN \cup {Null}, starts_at : Nat, expires_at : Nat \cup {Null},
   until_checkout : BOOLEAN, booking : BookingIds \cup {Null},
   checkout_at : Nat \cup {Null}, created_by : {"home_assistant_mqtt", "policy_scheduler"},
   uid : Ranks, evid : Ranks]

\* The rows that come first under ORDER BY starts_at DESC, id DESC; the keys
\* being distinct there is one unless the table is empty.
latest_override_row(rows) ==
  IF rows = << >> THEN {Null}
  ELSE {rows[i] : i \in {k \in DOMAIN rows : \A j \in DOMAIN rows :
          \/ rows[j].starts_at < rows[k].starts_at
          \/ rows[j].starts_at = rows[k].starts_at /\ rows[j].uid <= rows[k].uid}}

duration_from_row(o) ==
  IF o.until_checkout THEN "until_checkout"
  ELSE IF o.expires_at # Null
          /\ \E d \in TimedDurations : Span[d] = o.expires_at - o.starts_at
       THEN CHOOSE d \in TimedDurations : Span[d] = o.expires_at - o.starts_at
       ELSE DEFAULT_DURATION

-----------------------------------------------------------------------------
(* Drafts and commands.                                                    *)

Draft(control_mode, hvac_mode, target, water, duration) ==
  [control_mode |-> control_mode, hvac_mode |-> hvac_mode, target |-> target,
   water |-> water, duration |-> duration]

default_override_draft == Draft("automatic", "off", Null, FALSE, DEFAULT_DURATION)

\* _current_draft: what the next command starts from.
current_draft(o, t) ==
  IF o = Null THEN default_override_draft
  ELSE IF ~override_row_is_active(o, t) THEN default_override_draft
  ELSE Draft(o.control_mode, o.hvac_mode, o.target, o.water, duration_from_row(o))

\* A message on a control/<field>/set topic.  "invalid" is any payload the
\* field's parser refuses.
Command ==
  [field : {"return-to-automatic"}, value : {"press"}]
    \cup [field : {"mode"}, value : ControlMode \cup {"invalid"}]
    \cup [field : {"hvac-mode"}, value : HvacMode \cup {"invalid"}]
    \cup [field : {"temperature"}, value : Temperatures \cup {Null}]
    \cup [field : {"duration"}, value : SUPPORTED_DURATIONS \cup {"invalid"}]
    \cup [field : {"water-heater"}, value : BOOLEAN \cup {Null}]

\* `base.target_temperature_c or default_heating_target_c`: zero is falsy.
target_or_default(v) == IF v = Null THEN HeatTarget ELSE IF v = 0 THEN HeatTarget ELSE v

mode_draft(base, mode) ==
  CASE mode = "automatic" -> Draft(mode, "off", Null, Null, base.duration)
    [] mode = "off"       -> Draft(mode, "off", Null, FALSE, base.duration)
    [] mode = "manual"    ->
         Draft(mode, IF base.hvac_mode # "off" THEN base.hvac_mode ELSE "auto",
               target_or_default(base.target), base.water, base.duration)

\* Mutant: switching the HVAC off keeps a target.
hvac_mode_draft_KeepsTarget(base, mode) ==
  Draft("manual", mode, target_or_default(base.target), base.water, base.duration)

hvac_mode_draft(base, mode) ==
  Draft("manual", mode, IF mode = "off" THEN Null ELSE target_or_default(base.target),
        base.water, base.duration)

temperature_draft(base, v) ==
  Draft("manual", IF base.hvac_mode # "off" THEN base.hvac_mode ELSE "heat",
        clamp_temperature(v), base.water, base.duration)

duration_draft(base, d) == [base EXCEPT !.duration = d]

water_heater_draft(base, on) == [base EXCEPT !.control_mode = "manual", !.water = on]

return_to_automatic_draft == Draft("automatic", "off", Null, Null, DEFAULT_DURATION)

duration_allowed(d) == d # "until_checkout" => Span[d] <= MaxSpan

\* The drafts the command yields: none when its parser raises ValueError.
command_drafts(base, c) ==
  CASE c.field = "return-to-automatic" -> {return_to_automatic_draft}
    [] c.field = "mode"      -> {mode_draft(base, m) : m \in ControlMode \cap {c.value}}
    [] c.field = "hvac-mode" -> {hvac_mode_draft(base, m) : m \in HvacMode \cap {c.value}}
    [] c.field = "temperature" -> {temperature_draft(base, v) : v \in {c.value} \ {Null}}
    [] c.field = "water-heater" -> {water_heater_draft(base, w) : w \in {c.value} \ {Null}}
    [] c.field = "duration"  ->
         {duration_draft(base, d) : d \in {x \in SUPPORTED_DURATIONS \cap {c.value} :
            base.control_mode # "automatic" /\ duration_allowed(x)}}

\* Mutant: an "off" override gets no expiry.
override_row_OffUnbounded(d, t, bound, ranks) ==
  LET timed == d.control_mode = "manual" /\ d.duration # "until_checkout"
      tied  == d.control_mode # "automatic" /\ d.duration = "until_checkout"
  IN  [control_mode |-> d.control_mode, hvac_mode |-> d.hvac_mode,
       target |-> IF d.target = Null THEN Null ELSE clamp_temperature(d.target),
       water |-> d.water, starts_at |-> t,
       expires_at |-> IF timed THEN t + Span[d.duration] ELSE Null,
       until_checkout |-> tied,
       booking |-> IF tied THEN bound.id ELSE Null,
       checkout_at |-> IF tied THEN checkout_at(bound) ELSE Null,
       created_by |-> "home_assistant_mqtt", uid |-> ranks[1], evid |-> ranks[2]]

\* The row of a draft; `bound` is the booking an until-checkout override is
\* tied to.  The stored temperature is clamped once more.
override_row(d, t, bound, ranks) ==
  LET timed == d.control_mode # "automatic" /\ d.duration # "until_checkout"
      tied  == d.control_mode # "automatic" /\ d.duration = "until_checkout"
  IN  [control_mode |-> d.control_mode, hvac_mode |-> d.hvac_mode,
       target |-> IF d.target = Null THEN Null ELSE clamp_temperature(d.target),
       water |-> d.water, starts_at |-> t,
       expires_at |-> IF timed THEN t + Span[d.duration] ELSE Null,
       until_checkout |-> tied,
       booking |-> IF tied THEN bound.id ELSE Null,
       checkout_at |-> IF tied THEN checkout_at(bound) ELSE Null,
       created_by |-> "home_assistant_mqtt", uid |-> ranks[1], evid |-> ranks[2]]

\* The row _end_inactive_override_if_needed writes.
end_row(t, ranks) ==
  [control_mode |-> "automatic", hvac_mode |-> "off", target |-> Null,
   water |-> Null, starts_at |-> t, expires_at |-> Null,
   until_checkout |-> FALSE, booking |-> Null, checkout_at |-> Null,
   created_by |-> "policy_scheduler", uid |-> ranks[1], evid |-> ranks[2]]

\* What the control/state event written with a row shows Home Assistant; the
\* row is active at the instant it is written, unless it is automatic.
control_state_payload(o) ==
  IF o.control_mode = "automatic" THEN default_override_draft
  ELSE Draft(o.control_mode, o.hvac_mode, o.target, o.water = TRUE, duration_from_row(o))

=============================================================================
