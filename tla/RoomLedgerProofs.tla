-------------------------- MODULE RoomLedgerProofs --------------------------
(***************************************************************************)
(* Theorems about the room ledger, for every registry, policy, feed of     *)
(* bookings, set of commands and interleaving of the three actors.         *)
(***************************************************************************)
EXTENDS RoomLedger, TLAPS

-----------------------------------------------------------------------------
(* Types of the policy's operators.                                        *)

Bookings == SUBSET NormalizedBooking
OverrideOrNull == RoomPolicyOverride \cup {Null}

Evaluation ==
  [phase : AutomationPhase, booking : NormalizedBooking \cup {Null},
   from : Int, until : Int \cup {Null}]

\* The types of the policy's parameters, as the assumption on them gives them.
LEMMA PolicyTypes ==
  /\ DayLength \in Nat /\ CheckIn \in Nat /\ CheckOut \in Nat /\ Lead \in Nat
  /\ HeatTarget \in Int /\ SetbackTarget \in Int /\ MinTarget \in Int /\ MaxTarget \in Int
  /\ MinTarget <= MaxTarget
  /\ WaterPreArrival \in BOOLEAN /\ ConvectorsPreArrival \in BOOLEAN
BY PolicyAssumption

\* clamp_temperature returns a temperature within the policy's bounds.
LEMMA ClampTypes ==
  ASSUME NEW v \in Int
  PROVE  /\ clamp_temperature(v) \in Int
         /\ MinTarget <= clamp_temperature(v) /\ clamp_temperature(v) <= MaxTarget
BY PolicyTypes DEF clamp_temperature

\* The instants of a booking.
LEMMA BookingTimes ==
  ASSUME NEW b \in NormalizedBooking
  PROVE  checkout_at(b) \in Nat /\ arrival_at(b) \in Nat /\ lead_start(b) \in Int
<1>1. b.arrival \in Nat /\ b.departure \in Nat
  BY DEF NormalizedBooking
<1>2. \A m, n \in Nat : m * n \in Nat
  OBVIOUS
<1>3. b.arrival * DayLength \in Nat /\ b.departure * DayLength \in Nat
  BY <1>1, <1>2, PolicyTypes
<1> QED
  BY <1>3, PolicyTypes DEF checkout_at, arrival_at, lead_start

\* evaluate_selected returns a well-typed state evaluation, in the manual phase
\* only under an override in force.
LEMMA SelectedTypes ==
  ASSUME NEW b \in NormalizedBooking, NEW t \in Nat, NEW o \in OverrideOrNull
  PROVE  /\ evaluate_selected(b, t, o) \in Evaluation
         /\ evaluate_selected(b, t, o).phase = "manual_override" => override_governs(o, b, t)
<1>1. checkout_at(b) \in Int /\ lead_start(b) \in Int
  BY BookingTimes
<1>2. override_governs(o, b, t) => o.expires_at \in Int \cup {Null}
  BY DEF override_governs, OverrideOrNull, RoomPolicyOverride
<1> QED
  BY <1>1, <1>2 DEF evaluate_selected, RoomStateEvaluation, Evaluation, AutomationPhase

\* What an evaluation may be, and when it is a manual override.
LEMMA EvaluationTypes ==
  ASSUME NEW r \in Rooms, NEW B \in Bookings, NEW t \in Nat, NEW o \in OverrideOrNull,
         NEW st \in evaluate_room(r, B, t, o)
  PROVE  /\ st \in Evaluation
         /\ st.phase = "manual_override" => o # Null /\ override_row_is_active(o, t)
<1> DEFINE C == active_bookings_for_room(r, B, date(t))
<1>1. C \subseteq NormalizedBooking /\ unknown_bookings_for_room(r, B) \subseteq NormalizedBooking
  BY DEF active_bookings_for_room, unknown_bookings_for_room, Bookings
<1>2. conflicting(C) \subseteq NormalizedBooking /\ select_relevant_booking(C) \subseteq NormalizedBooking
  BY <1>1 DEF conflicting, select_relevant_booking
<1> DEFINE Plain(phase, b) == RoomStateEvaluation(phase, b, t, Null)
<1>3. ASSUME NEW phase \in AutomationPhase \ {"manual_override"},
             NEW b \in NormalizedBooking \cup {Null}
      PROVE  Plain(phase, b) \in Evaluation /\ Plain(phase, b).phase # "manual_override"
  BY DEF RoomStateEvaluation, Evaluation
<1>4. \/ \E phase \in {"disabled", "vacant"} : st = Plain(phase, Null)
      \/ \E b \in unknown_bookings_for_room(r, B) : st = Plain("unknown", b)
      \/ \E b \in conflicting(C) : st = Plain("conflict", b)
      \/ \E b \in select_relevant_booking(C) : st = evaluate_selected(b, t, o)
  BY DEF evaluate_room
<1>5. ASSUME NEW b \in select_relevant_booking(C), st = evaluate_selected(b, t, o)
      PROVE  /\ st \in Evaluation
             /\ st.phase = "manual_override" => o # Null /\ override_row_is_active(o, t)
  BY <1>2, <1>5, SelectedTypes DEF override_governs
<1> QED
  BY <1>1, <1>2, <1>3, <1>4, <1>5 DEF AutomationPhase

\* The intent of an evaluation; a manual one is built from its override row.
LEMMA IntentTypes ==
  ASSUME NEW st \in Evaluation, NEW o \in OverrideOrNull,
         st.phase = "manual_override" => o # Null
  PROVE  derive_room_intent(st, o) \in Intent /\ derive_room_intent(st, o).from \in Int
<1>1. ASSUME NEW m \in ControlMode, NEW on \in BOOLEAN, NEW h \in HvacMode,
             NEW v \in Int \cup {Null}, NEW w \in BOOLEAN, NEW c \in BOOLEAN
      PROVE  /\ build_intent(st, m, Hvac(on, h, v), w, c) \in Intent
             /\ build_intent(st, m, Hvac(on, h, v), w, c).from \in Int
  BY DEF build_intent, Hvac, Intent, Evaluation
<1>2. ASSUME st.phase = "manual_override"
      PROVE  override_intent(st, o) \in Intent /\ override_intent(st, o).from \in Int
  <2>1. /\ o.control_mode \in ControlMode /\ o.hvac_mode \in HvacMode
        /\ o.target # Null => o.target \in Int
    BY <1>2 DEF OverrideOrNull, RoomPolicyOverride
  <2>2. (IF o.target = Null THEN Null ELSE clamp_temperature(o.target)) \in Int \cup {Null}
    BY <2>1, ClampTypes
  <2>3. (o.hvac_mode # "off") \in BOOLEAN
    BY Zenon
  <2>4. (o.water = TRUE) \in BOOLEAN
    BY Zenon
  <2> QED
    BY <1>1, <2>1, <2>2, <2>3, <2>4, Zenon DEF override_intent
<1>3. /\ {"automatic", "off"} \subseteq ControlMode
      /\ {"off", "heat", "auto"} \subseteq HvacMode
      /\ {HeatTarget, SetbackTarget, clamp_temperature(HeatTarget), Null} \subseteq Int \cup {Null}
      /\ {TRUE, FALSE, WaterPreArrival, ConvectorsPreArrival} \subseteq BOOLEAN
  BY PolicyTypes, ClampTypes DEF ControlMode, HvacMode
<1>4. st.phase \in AutomationPhase
  BY DEF Evaluation
<1>5. CASE st.phase = "manual_override"
  <2>1. derive_room_intent(st, o) = override_intent(st, o)
    BY <1>5 DEF derive_room_intent, SUPPRESS_AUTOMATION_PHASES
  <2> QED
    BY <1>2, <1>5, <2>1
<1>6. CASE st.phase \in SUPPRESS_AUTOMATION_PHASES
  <2>1. derive_room_intent(st, o) = build_intent(st, "off", Hvac(FALSE, "off", Null), FALSE, FALSE)
    BY <1>6 DEF derive_room_intent, HvacOff, SUPPRESS_AUTOMATION_PHASES
  <2>2. /\ "off" \in ControlMode /\ "off" \in HvacMode /\ FALSE \in BOOLEAN
        /\ Null \in Int \cup {Null}
    BY <1>3
  <2>3. /\ build_intent(st, "off", Hvac(FALSE, "off", Null), FALSE, FALSE) \in Intent
        /\ build_intent(st, "off", Hvac(FALSE, "off", Null), FALSE, FALSE).from \in Int
    BY <1>1, <2>2
  <2> QED
    BY <2>1, <2>3
<1>7. CASE st.phase = "vacant"
  BY <1>1, <1>3, <1>7 DEF derive_room_intent, SUPPRESS_AUTOMATION_PHASES
<1>8. CASE st.phase = "pre_arrival"
  BY <1>1, <1>3, <1>8 DEF derive_room_intent, SUPPRESS_AUTOMATION_PHASES
<1>9. CASE st.phase = "reserved"
  BY <1>1, <1>3, <1>9 DEF derive_room_intent, HvacOff, SUPPRESS_AUTOMATION_PHASES
<1>10. CASE st.phase \in {"occupied", "checkout_due"}
  BY <1>1, <1>3, <1>10 DEF derive_room_intent, SUPPRESS_AUTOMATION_PHASES
<1> QED
  BY <1>4, <1>5, <1>6, <1>7, <1>8, <1>9, <1>10
     DEF AutomationPhase, SUPPRESS_AUTOMATION_PHASES

\* The semantic content of a room state is well typed.
LEMMA HashTypes ==
  ASSUME NEW st \in Evaluation, NEW intent \in Intent
  PROVE  room_state_hash(st, intent) \in StateHash
BY DEF room_state_hash, StateHash, Intent, Evaluation

\* The latest override row of a room is a row of the table, or Null.
LEMMA LatestOverrideTypes ==
  ASSUME NEW rows \in Seq(RoomPolicyOverride)
  PROVE  latest_override_row(rows) \subseteq OverrideOrNull
BY DEF latest_override_row, OverrideOrNull

\* The latest state of a room is one of its states, or Null.
LEMMA LatestStateTypes ==
  ASSUME NEW rows \in Seq(RoomState)
  PROVE  latest_room_state(rows) \subseteq RoomState \cup {Null}
BY DEF latest_room_state

\* The row that returns a room to automatic is well typed.
LEMMA EndRowTypes ==
  ASSUME NEW t \in Nat, NEW ranks \in Ranks \X Ranks
  PROVE  end_row(t, ranks) \in RoomPolicyOverride
BY DEF end_row, RoomPolicyOverride, ControlMode, HvacMode

-----------------------------------------------------------------------------
(* What an evaluation adds to the tables.                                  *)

\* At most one end row, and at most one state: stamped with the evaluation's
\* timestamp, numbered after a latest state, and different from it.
IsEnd(x, t) == x.end = << >> \/ \E ranks \in Ranks \X Ranks : x.end = <<end_row(t, ranks)>>

IsState(r, x, t) ==
  \/ x.state = << >>
  \/ \E s \in RoomState, last \in latest_room_state(ledger[r]) :
       /\ x.state = <<s>>
       /\ s.at = t
       /\ s.version = next_intent_version(last)
       /\ last # Null => last.hash # s.hash

\* What recalculating one room can leave behind: at most one state more, and
\* at most one override row more.
LEMMA OutcomeShape ==
  ASSUME TypeOK, NEW r \in Rooms, NEW B \in Bookings, NEW t \in Nat,
         NEW x \in room_outcomes(r, B, t)
  PROVE  IsEnd(x, t) /\ IsState(r, x, t)
<1>1. PICK o \in latest_override_row(overrides[r]) :
        x \in UNION {{recalculated(st, derive_room_intent(st, o), o, last, t, ranks) :
                        last \in latest_room_state(ledger[r]), ranks \in EndRanks(r, t)} :
                        st \in evaluate_room(r, B, t, o)}
  BY DEF room_outcomes
<1>2. PICK st \in evaluate_room(r, B, t, o), last \in latest_room_state(ledger[r]),
           ranks \in EndRanks(r, t) :
        x = recalculated(st, derive_room_intent(st, o), o, last, t, ranks)
  BY <1>1
<1>3. o \in OverrideOrNull
  BY LatestOverrideTypes DEF TypeOK
<1>4. last \in RoomState \cup {Null}
  BY LatestStateTypes DEF TypeOK
<1>5. ranks \in Ranks \X Ranks
  BY DEF EndRanks, Ranks
<1>6. st \in Evaluation /\ derive_room_intent(st, o) \in Intent
                        /\ derive_room_intent(st, o).from \in Int
  BY <1>3, EvaluationTypes, IntentTypes
<1> DEFINE intent == derive_room_intent(st, o)
           s == [at |-> t, version |-> next_intent_version(last),
                 hash |-> room_state_hash(st, intent), from |-> intent.from]
<1>7. IsEnd(x, t)
  BY <1>2, <1>5 DEF recalculated, IsEnd
<1>8. s \in RoomState
  <2>1. next_intent_version(last) \in Nat
    BY <1>4, RegistryAssumption DEF next_intent_version, RoomState
  <2>2. room_state_hash(st, intent) \in StateHash
    BY <1>6, HashTypes
  <2> QED
    BY <1>6, <2>1, <2>2 DEF RoomState
<1>9. \/ x.state = << >>
      \/ x.state = <<s>> /\ (last # Null => last.hash # s.hash)
  BY <1>2 DEF recalculated
<1>10. IsState(r, x, t)
  BY <1>8, <1>9 DEF IsState
<1> QED
  BY <1>7, <1>10

\* Concatenating no row, or one, as the model extends its tables.
LEMMA Concatenation ==
  ASSUME NEW S, NEW q \in Seq(S), NEW e \in S
  PROVE  q \o << >> = q /\ q \o <<e>> = Append(q, e)
OBVIOUS

OverridesGrow(r, t) ==
  \/ overrides'[r] = overrides[r]
  \/ \E ranks \in Ranks \X Ranks : overrides'[r] = Append(overrides[r], end_row(t, ranks))

LedgerGrows(r, t) ==
  \/ ledger'[r] = ledger[r]
  \/ \E s \in RoomState, last \in latest_room_state(ledger[r]) :
       /\ ledger'[r] = Append(ledger[r], s)
       /\ s.at = t
       /\ s.version = next_intent_version(last)
       /\ last # Null => last.hash # s.hash

\* _recalculate_rooms only appends, to every table at most one row a room.
LEMMA RecalculationAppends ==
  ASSUME TypeOK, NEW R \in SUBSET Rooms, NEW B \in Bookings, NEW rows, NEW t \in Nat,
         recalculate_rooms(R, B, rows, t)
  PROVE  /\ bookings' = bookings \/ bookings' = rows
         /\ DOMAIN overrides' = Rooms /\ DOMAIN ledger' = Rooms
         /\ overrides' = [r \in Rooms |-> overrides'[r]]
         /\ ledger' = [r \in Rooms |-> ledger'[r]]
         /\ \A r \in Rooms : OverridesGrow(r, t) /\ LedgerGrows(r, t)
<1>t. overrides \in [Rooms -> Seq(RoomPolicyOverride)] /\ ledger \in [Rooms -> Seq(RoomState)]
  BY DEF TypeOK
<1>1. ASSUME UNCHANGED <<overrides, ledger, bookings>>
      PROVE  /\ bookings' = bookings
             /\ overrides' = [r \in Rooms |-> overrides'[r]]
             /\ ledger' = [r \in Rooms |-> ledger'[r]]
             /\ \A r \in Rooms : OverridesGrow(r, t) /\ LedgerGrows(r, t)
  BY <1>1, <1>t DEF OverridesGrow, LedgerGrows
<1>2. ASSUME NEW f \in Outcomes(R, B, t),
             overrides' = Appended(overrides, [r \in R |-> f[r].end]),
             ledger' = Appended(ledger, [r \in R |-> f[r].state]),
             bookings' = rows
      PROVE  /\ bookings' = rows
             /\ overrides' = [r \in Rooms |-> overrides'[r]]
             /\ ledger' = [r \in Rooms |-> ledger'[r]]
             /\ \A r \in Rooms : OverridesGrow(r, t) /\ LedgerGrows(r, t)
  <2>1. /\ overrides' = [r \in Rooms |-> overrides'[r]]
        /\ ledger' = [r \in Rooms |-> ledger'[r]]
    BY <1>2 DEF Appended
  <2>2. ASSUME NEW r \in Rooms \ R PROVE OverridesGrow(r, t) /\ LedgerGrows(r, t)
    BY <1>2, <2>2 DEF Appended, OverridesGrow, LedgerGrows
  <2>3. ASSUME NEW r \in R PROVE OverridesGrow(r, t) /\ LedgerGrows(r, t)
    <3>1. r \in Rooms /\ f[r] \in room_outcomes(r, B, t)
      BY <1>2 DEF Outcomes
    <3>2. IsEnd(f[r], t) /\ IsState(r, f[r], t)
      BY <3>1, OutcomeShape
    <3>3. overrides'[r] = overrides[r] \o f[r].end /\ ledger'[r] = ledger[r] \o f[r].state
      BY <1>2, <3>1 DEF Appended
    <3>4. OverridesGrow(r, t)
      <4>1. overrides[r] \in Seq(RoomPolicyOverride)
        BY <1>t, <3>1
      <4>2. CASE f[r].end = << >>
        BY <3>3, <4>1, <4>2 DEF OverridesGrow
      <4>3. ASSUME NEW ranks \in Ranks \X Ranks, f[r].end = <<end_row(t, ranks)>>
            PROVE  OverridesGrow(r, t)
        <5>1. overrides'[r] = Append(overrides[r], end_row(t, ranks))
          BY <3>3, <4>1, <4>3, EndRowTypes, Concatenation
        <5> QED
          BY <5>1 DEF OverridesGrow
      <4> QED
        BY <3>2, <4>2, <4>3 DEF IsEnd
    <3>5. LedgerGrows(r, t)
      <4>1. ledger[r] \in Seq(RoomState)
        BY <1>t, <3>1
      <4>2. CASE f[r].state = << >>
        BY <3>3, <4>1, <4>2 DEF LedgerGrows
      <4>3. ASSUME NEW s \in RoomState, f[r].state = <<s>>
            PROVE  ledger'[r] = Append(ledger[r], s)
        BY <3>3, <4>1, <4>3, Concatenation
      <4> QED
        BY <3>2, <4>2, <4>3 DEF IsState, LedgerGrows
    <3> QED
      BY <3>4, <3>5
  <2> QED
    BY <1>2, <2>1, <2>2, <2>3
<1>3. \/ UNCHANGED <<overrides, ledger, bookings>>
      \/ \E f \in Outcomes(R, B, t) :
           /\ overrides' = Appended(overrides, [r \in R |-> f[r].end])
           /\ ledger' = Appended(ledger, [r \in R |-> f[r].state])
           /\ bookings' = rows
  BY DEF recalculate_rooms
<1> QED
  BY <1>1, <1>2, <1>3

-----------------------------------------------------------------------------
(* What a command adds to the override table.                              *)

\* A draft or a row names a temperature exactly when it is not off.
Renderable(d) == d.hvac_mode = "off" <=> d.target = Null

Drafts ==
  {d \in [control_mode : ControlMode, hvac_mode : HvacMode, target : Int \cup {Null},
          water : BOOLEAN \cup {Null}, duration : SUPPORTED_DURATIONS] : Renderable(d)}

\* The conjuncts of RowsRenderable and of RowsBounded, for one row.
RenderableRow(o) ==
  /\ Renderable(o)
  /\ o.target # Null => MinTarget <= o.target /\ o.target <= MaxTarget

BoundedRow(o) ==
  CASE o.control_mode = "automatic" ->
         o.expires_at = Null /\ o.checkout_at = Null /\ ~o.until_checkout
    [] o.control_mode # "automatic" /\ o.until_checkout ->
         o.booking # Null /\ o.checkout_at # Null /\ o.checkout_at > o.starts_at
    [] OTHER -> o.expires_at # Null /\ o.expires_at > o.starts_at

\* The absent value is no temperature and no instant.
LEMMA NullIsNoNumber == Null \notin Int
BY RegistryAssumption

\* The drafts that reset a room's controls are proper drafts.
LEMMA DefaultDraft == default_override_draft \in Drafts /\ return_to_automatic_draft \in Drafts
BY DEF default_override_draft, return_to_automatic_draft, Draft, Drafts, Renderable,
   ControlMode, HvacMode, SUPPORTED_DURATIONS, TimedDurations, DEFAULT_DURATION

\* The draft a command starts from is proper if the rows in the table are
\* renderable.
LEMMA CurrentDraft ==
  ASSUME NEW o \in OverrideOrNull, o # Null => RenderableRow(o), NEW t \in Nat
  PROVE  current_draft(o, t) \in Drafts
<1>1. ASSUME o # Null
      PROVE  Draft(o.control_mode, o.hvac_mode, o.target, o.water, duration_from_row(o)) \in Drafts
  <2>1. duration_from_row(o) \in SUPPORTED_DURATIONS
    BY DEF duration_from_row, SUPPORTED_DURATIONS, TimedDurations, DEFAULT_DURATION
  <2> QED
    BY <1>1, <2>1 DEF OverrideOrNull, RoomPolicyOverride, RenderableRow, Renderable, Draft, Drafts
<1> QED
  BY <1>1, DefaultDraft DEF current_draft

\* No command leads from a renderable draft to one that is not.
LEMMA CommandDrafts ==
  ASSUME NEW base \in Drafts, NEW c \in Command, NEW d \in command_drafts(base, c)
  PROVE  d \in Drafts
<1>b. /\ base.control_mode \in ControlMode /\ base.hvac_mode \in HvacMode
      /\ base.target \in Int \cup {Null} /\ base.water \in BOOLEAN \cup {Null}
      /\ base.duration \in SUPPORTED_DURATIONS /\ Renderable(base)
  BY DEF Drafts
<1>d. ASSUME NEW m \in ControlMode, NEW h \in HvacMode, NEW v \in Int \cup {Null},
             NEW w \in BOOLEAN \cup {Null}, NEW u \in SUPPORTED_DURATIONS,
             h = "off" <=> v = Null
      PROVE  Draft(m, h, v, w, u) \in Drafts
  BY <1>d DEF Draft, Drafts, Renderable
<1>v. target_or_default(base.target) \in Int
  BY <1>b, PolicyTypes DEF target_or_default
<1>1. ASSUME NEW m \in ControlMode PROVE mode_draft(base, m) \in Drafts
  <2>1. CASE m = "automatic"
    BY <1>b, <1>d, <2>1 DEF mode_draft, HvacMode
  <2>2. CASE m = "off"
    BY <1>b, <1>d, <2>2 DEF mode_draft, HvacMode
  <2>3. CASE m = "manual"
    BY <1>b, <1>d, <1>v, <2>3, NullIsNoNumber DEF mode_draft, HvacMode
  <2> QED
    BY <2>1, <2>2, <2>3 DEF ControlMode
<1>2. ASSUME NEW h \in HvacMode PROVE hvac_mode_draft(base, h) \in Drafts
  BY <1>b, <1>d, <1>v, NullIsNoNumber DEF hvac_mode_draft, ControlMode
<1>3. ASSUME NEW v \in Int PROVE temperature_draft(base, v) \in Drafts
  <2>1. clamp_temperature(v) \in Int /\ clamp_temperature(v) # Null
    BY ClampTypes, NullIsNoNumber
  <2> QED
    BY <1>b, <1>d, <2>1 DEF temperature_draft, ControlMode, HvacMode
<1>4. ASSUME NEW u \in SUPPORTED_DURATIONS PROVE duration_draft(base, u) \in Drafts
  BY <1>b DEF duration_draft, Drafts, Renderable
<1>5. ASSUME NEW w \in BOOLEAN PROVE water_heater_draft(base, w) \in Drafts
  BY <1>b DEF water_heater_draft, Drafts, Renderable, ControlMode
<1>6. CASE c.field = "return-to-automatic"
  BY <1>6, DefaultDraft DEF command_drafts
<1>7. CASE c.field = "mode"
  BY <1>7, <1>1 DEF command_drafts
<1>8. CASE c.field = "hvac-mode"
  BY <1>8, <1>2 DEF command_drafts
<1>9. CASE c.field = "temperature"
  <2>1. c.value \in Int \cup {Null}
    BY <1>9, ControlAssumption DEF Command
  <2>2. \E v \in {c.value} \ {Null} : d = temperature_draft(base, v)
    BY <1>9 DEF command_drafts
  <2> QED
    BY <2>1, <2>2, <1>3
<1>10. CASE c.field = "duration"
  BY <1>10, <1>4 DEF command_drafts
<1>11. CASE c.field = "water-heater"
  <2>1. c.value \in BOOLEAN \cup {Null}
    BY <1>11 DEF Command
  <2>2. \E w \in {c.value} \ {Null} : d = water_heater_draft(base, w)
    BY <1>11 DEF command_drafts
  <2> QED
    BY <2>1, <2>2, <1>5
<1> QED
  BY <1>6, <1>7, <1>8, <1>9, <1>10, <1>11 DEF Command

\* The row of a draft that is not tied to a booking.
LEMMA TimedRow ==
  ASSUME NEW d \in Drafts, NEW t \in Nat,
         ~(d.control_mode # "automatic" /\ d.duration = "until_checkout")
  PROVE  LET o == override_row(d, t, Null, <<1, 1>>)
         IN  o \in RoomPolicyOverride /\ RenderableRow(o) /\ BoundedRow(o)
<1> DEFINE o == override_row(d, t, Null, <<1, 1>>)
<1>1. d.target # Null => d.target \in Int /\ clamp_temperature(d.target) \in Int
                         /\ clamp_temperature(d.target) # Null
  BY ClampTypes, NullIsNoNumber DEF Drafts
<1>2. d.duration # "until_checkout" => Span[d.duration] \in Nat \ {0}
  BY ControlAssumption DEF Drafts, SUPPORTED_DURATIONS
<1>3. d.control_mode # "automatic" => t + Span[d.duration] \in Nat /\ t + Span[d.duration] > t
  BY <1>2
<1>4. o \in RoomPolicyOverride
  BY <1>1, <1>3 DEF override_row, RoomPolicyOverride, Drafts, Ranks
<1>5. RenderableRow(o)
  BY <1>1, ClampTypes DEF override_row, RenderableRow, Renderable, Drafts
<1>6. BoundedRow(o)
  <2>1. CASE d.control_mode = "automatic"
    <3>1. o.control_mode = "automatic" /\ o.expires_at = Null /\ o.checkout_at = Null
      BY <2>1 DEF override_row
    <3>2. ~o.until_checkout
      BY <2>1 DEF override_row
    <3> QED
      BY <3>1, <3>2 DEF BoundedRow
  <2>2. CASE d.control_mode # "automatic"
    <3>1. o.control_mode # "automatic" /\ o.expires_at = t + Span[d.duration] /\ o.starts_at = t
      BY <2>2 DEF override_row
    <3>2. ~o.until_checkout
      BY <2>2 DEF override_row
    <3> QED
      BY <2>2, <3>1, <3>2, <1>3, NullIsNoNumber DEF BoundedRow
  <2> QED
    BY <2>1, <2>2
<1> QED
  BY <1>4, <1>5, <1>6

\* The row of a draft tied to a booking whose checkout lies ahead.
LEMMA TiedRow ==
  ASSUME NEW d \in Drafts, NEW t \in Nat, NEW b \in NormalizedBooking, checkout_at(b) > t,
         d.control_mode # "automatic", d.duration = "until_checkout"
  PROVE  LET o == override_row(d, t, b, <<1, 1>>)
         IN  o \in RoomPolicyOverride /\ RenderableRow(o) /\ BoundedRow(o)
<1> DEFINE o == override_row(d, t, b, <<1, 1>>)
<1>1. d.target # Null => d.target \in Int /\ clamp_temperature(d.target) \in Int
                         /\ clamp_temperature(d.target) # Null
  BY ClampTypes, NullIsNoNumber DEF Drafts
<1>2. b.id \in BookingIds /\ b.id # Null /\ checkout_at(b) \in Nat
  BY BookingTimes, RegistryAssumption DEF NormalizedBooking
<1>4. o \in RoomPolicyOverride
  BY <1>1, <1>2 DEF override_row, RoomPolicyOverride, Drafts, Ranks
<1>5. RenderableRow(o)
  BY <1>1, ClampTypes DEF override_row, RenderableRow, Renderable, Drafts
<1>6. BoundedRow(o)
  <2>1. /\ o.control_mode # "automatic" /\ o.starts_at = t
        /\ o.booking = b.id /\ o.checkout_at = checkout_at(b)
    BY DEF override_row
  <2>2. o.until_checkout
    BY DEF override_row
  <2> QED
    BY <1>2, <2>1, <2>2, NullIsNoNumber DEF BoundedRow
<1> QED
  BY <1>4, <1>5, <1>6

\* The row that returns a room to automatic is renderable and bounded.
LEMMA EndRowBounded ==
  ASSUME NEW t \in Nat, NEW ranks \in Ranks \X Ranks
  PROVE  RenderableRow(end_row(t, ranks)) /\ BoundedRow(end_row(t, ranks))
BY DEF end_row, RenderableRow, Renderable, BoundedRow

\* Every row of the override table is renderable.
RenderableTable == \A r \in Rooms : \A i \in DOMAIN overrides[r] : RenderableRow(overrides[r][i])

\* The row a command stores is well typed, renderable and bounded.
LEMMA CommandRow ==
  ASSUME TypeOK, RenderableTable, NEW r \in Rooms, NEW c \in Commands, NEW t \in Nat,
         NEW row \in build_override_row(r, c, t)
  PROVE  row \in RoomPolicyOverride /\ RenderableRow(row) /\ BoundedRow(row)
<1> DEFINE drafts == UNION {command_drafts(current_draft(o, t), c) :
                              o \in latest_override_row(overrides[r])}
           tied(d) == d.control_mode # "automatic" /\ d.duration = "until_checkout"
<1>1. ASSUME NEW d \in drafts PROVE d \in Drafts
  <2>1. PICK o \in latest_override_row(overrides[r]) : d \in command_drafts(current_draft(o, t), c)
    OBVIOUS
  <2>2. overrides[r] \in Seq(RoomPolicyOverride)
    BY DEF TypeOK
  <2>3. o \in OverrideOrNull
    BY <2>2, LatestOverrideTypes
  <2>4. o # Null => RenderableRow(o)
    BY <2>2 DEF latest_override_row, RenderableTable
  <2>5. current_draft(o, t) \in Drafts
    BY <2>3, <2>4, CurrentDraft
  <2>6. c \in Command
    BY LedgerAssumption
  <2> QED
    BY <2>1, <2>5, <2>6, CommandDrafts
<1>2. \/ \E d \in drafts : ~tied(d) /\ row = override_row(d, t, Null, <<1, 1>>)
      \/ \E d \in drafts, b \in current_booking_boundary(r, t) :
           tied(d) /\ row = override_row(d, t, b, <<1, 1>>)
  BY DEF build_override_row
<1>3. ASSUME NEW b \in current_booking_boundary(r, t)
      PROVE  b \in NormalizedBooking /\ checkout_at(b) > t
  BY DEF current_booking_boundary, Stored, TypeOK
<1> QED
  BY <1>1, <1>2, <1>3, TimedRow, TiedRow

-----------------------------------------------------------------------------
(* The steps, as far as the tables are concerned.                          *)

BookingTable == [BookingIds -> NormalizedBooking \cup {Null}]

\* The bookings read back from the database are well-typed bookings.
LEMMA StoredBookings == ASSUME TypeOK PROVE Stored(bookings) \in Bookings
BY DEF TypeOK, Stored, Bookings

\* What a sync writes, and the bookings it recalculates from, are well typed.
LEMMA SyncInputs ==
  ASSUME TypeOK, NEW batch \in Batches, NEW last \in DOMAIN batch, NEW touched
  PROVE  /\ upserted(batch) \in BookingTable
         /\ loaded(batch, last) \in Bookings
         /\ UNION {affected_rooms(bookings[b], batch[b], b \in touched) : b \in DOMAIN batch}
              \in SUBSET Rooms
<1>1. /\ DOMAIN batch \subseteq BookingIds
      /\ \A b \in DOMAIN batch : batch[b] \in NormalizedBooking
  BY LedgerAssumption DEF Batches
<1>2. upserted(batch) \in BookingTable
  BY <1>1 DEF upserted, BookingTable, TypeOK
<1>3. loaded(batch, last) \in Bookings
  <2> DEFINE old == bookings[last]
             id  == IF old = Null THEN Null ELSE old.roomId
             num == IF old = Null THEN Null ELSE old.roomNumber
             new == [[batch[last] EXCEPT !.roomId = id] EXCEPT !.roomNumber = num]
  <2>1. last \in BookingIds /\ upserted(batch)[last] = batch[last]
    BY <1>1 DEF upserted
  <2>2. old \in NormalizedBooking \cup {Null}
    BY <2>1 DEF TypeOK
  <2>3. id \in ClockIds \cup Rooms \cup {Null} /\ num \in RoomNumbers \cup {Null}
    BY <2>2 DEF NormalizedBooking
  <2>4. new \in NormalizedBooking
    BY <1>1, <2>3 DEF NormalizedBooking
  <2>5. loaded(batch, last) = Stored([upserted(batch) EXCEPT ![last] = new])
    BY <2>1, <1>2 DEF loaded, BookingTable
  <2>6. [upserted(batch) EXCEPT ![last] = new] \in BookingTable
    BY <1>2, <2>4 DEF BookingTable
  <2> QED
    BY <2>5, <2>6 DEF Stored, Bookings, BookingTable
<1>4. ASSUME NEW b PROVE resolve_room(b) \subseteq Rooms
  BY DEF resolve_room
<1>5. ASSUME NEW old, NEW new, NEW p PROVE affected_rooms(old, new, p) \subseteq Rooms
  BY <1>4 DEF affected_rooms
<1> QED
  BY <1>2, <1>3, <1>5

\* Every step leaves the tables alone, evaluates rooms, or stores a command.
LEMMA TableSteps ==
  ASSUME TypeOK, [Next]_vars
  PROVE  \/ UNCHANGED <<bookings, overrides, ledger>>
         \/ \E R \in SUBSET Rooms, B \in Bookings, rows \in BookingTable, t \in Nat :
              recalculate_rooms(R, B, rows, t)
         \/ \E r \in Rooms, c \in Commands, t \in Nat :
              /\ \E row \in build_override_row(r, c, t) :
                   overrides' = [overrides EXCEPT ![r] = Append(@, row)]
              /\ UNCHANGED <<bookings, ledger>>
<1> DEFINE Goal ==
      \/ UNCHANGED <<bookings, overrides, ledger>>
      \/ \E R \in SUBSET Rooms, B \in Bookings, rows \in BookingTable, t \in Nat :
           recalculate_rooms(R, B, rows, t)
      \/ \E r \in Rooms, c \in Commands, t \in Nat :
           /\ \E row \in build_override_row(r, c, t) :
                overrides' = [overrides EXCEPT ![r] = Append(@, row)]
           /\ UNCHANGED <<bookings, ledger>>
<1>0. ASSUME NEW a \in Actors, captured[a] # Null PROVE captured[a] \in Nat
  BY <1>0 DEF TypeOK
<1>a. {"policy", "sync", "command"} \subseteq Actors
  BY DEF Actors
<1>b. bookings \in BookingTable /\ Stored(bookings) \in Bookings
  BY StoredBookings DEF TypeOK, BookingTable
<1>1. ASSUME PolicyTick PROVE Goal
  <2>1. captured["policy"] \in Nat
    BY <1>0, <1>1, <1>a DEF PolicyTick
  <2>2. recalculate_rooms(Rooms, Stored(bookings), bookings, captured["policy"])
    BY <1>1 DEF PolicyTick
  <2>3. Rooms \in SUBSET Rooms
    OBVIOUS
  <2> QED
    BY <1>b, <2>1, <2>2, <2>3
<1>2. ASSUME SyncBatch PROVE Goal
  <2>1. PICK batch \in Batches :
          \E last \in DOMAIN batch,
             touched \in SUBSET {b \in DOMAIN batch : batch[b] = bookings[b]} :
            ApplySyncResult(batch, last, touched)
    BY <1>2 DEF SyncBatch
  <2>2. PICK last \in DOMAIN batch,
             touched \in SUBSET {b \in DOMAIN batch : batch[b] = bookings[b]} :
          ApplySyncResult(batch, last, touched)
    BY <2>1
  <2>3. captured["sync"] \in Nat
    BY <1>0, <2>2, <1>a DEF ApplySyncResult
  <2>4. recalculate_rooms(
          UNION {affected_rooms(bookings[b], batch[b], b \in touched) : b \in DOMAIN batch},
          loaded(batch, last), upserted(batch), captured["sync"])
    BY <2>2 DEF ApplySyncResult
  <2> QED
    BY <2>3, <2>4, SyncInputs
<1>3. ASSUME NEW r \in Rooms, NEW c \in Commands, AcceptCommand(r, c) PROVE Goal
  <2>1. captured["command"] \in Nat
    BY <1>0, <1>3, <1>a DEF AcceptCommand
  <2> QED
    BY <1>3, <2>1 DEF AcceptCommand
<1>4. ASSUME EvaluateCommand PROVE Goal
  <2>1. handling \in Rooms /\ captured["command"] \in Nat
    BY <1>0, <1>4, <1>a DEF EvaluateCommand, TypeOK
  <2>2. recalculate_rooms({handling}, Stored(bookings), bookings, captured["command"])
    BY <1>4 DEF EvaluateCommand
  <2>3. {handling} \in SUBSET Rooms
    BY <2>1
  <2> QED
    BY <1>b, <2>1, <2>2, <2>3
<1>5. ASSUME \/ BeginPolicy \/ BeginSync \/ BeginCommand \/ Elapse \/ SyncEmpty \/ Restart
             \/ UNCHANGED vars
             \/ \E r \in Rooms, c \in Commands : RejectCommand(r, c)
      PROVE  UNCHANGED <<bookings, overrides, ledger>>
  BY <1>5 DEF BeginPolicy, BeginSync, BeginCommand, Capture, Elapse, SyncEmpty, Restart,
     RejectCommand, vars
<1> QED
  BY <1>1, <1>2, <1>3, <1>4, <1>5 DEF Next, CommandArrives

-----------------------------------------------------------------------------
(* Type correctness, and the rows of the override table.                   *)

BoundedTable == \A r \in Rooms : \A i \in DOMAIN overrides[r] : BoundedRow(overrides[r][i])

\* TypeOK alone is not inductive: what a command appends has a type only if the
\* row it builds on is renderable.
LedgerInv == TypeOK /\ RenderableTable /\ BoundedTable

\* One row more keeps a table well typed and the rows it had.
LEMMA AppendedRow ==
  ASSUME NEW S, NEW q \in Seq(S), NEW e \in S
  PROVE  /\ Append(q, e) \in Seq(S)
         /\ DOMAIN Append(q, e) = 1 .. Len(q) + 1 /\ DOMAIN q = 1 .. Len(q) /\ Len(q) \in Nat
         /\ \A i \in DOMAIN q : Append(q, e)[i] = q[i]
         /\ Append(q, e)[Len(q) + 1] = e
OBVIOUS

\* The override table keeps its type and its properties when a room gets a row
\* that has them.
GoodTable(r) ==
  /\ overrides'[r] \in Seq(RoomPolicyOverride)
  /\ \A i \in DOMAIN overrides'[r] :
       RenderableRow(overrides'[r][i]) /\ BoundedRow(overrides'[r][i])

\* A renderable and bounded row more keeps the override table so.
LEMMA OverrideAppended ==
  ASSUME LedgerInv, NEW r \in Rooms, NEW o \in RoomPolicyOverride,
         RenderableRow(o), BoundedRow(o), overrides'[r] = Append(overrides[r], o)
  PROVE  GoodTable(r)
<1>1. overrides[r] \in Seq(RoomPolicyOverride)
  BY DEF LedgerInv, TypeOK
<1>2. \A i \in DOMAIN overrides[r] : RenderableRow(overrides[r][i]) /\ BoundedRow(overrides[r][i])
  BY DEF LedgerInv, RenderableTable, BoundedTable
<1>3. \A i \in DOMAIN overrides'[r] : i \in DOMAIN overrides[r] \/ i = Len(overrides[r]) + 1
  BY <1>1, AppendedRow
<1>4. ASSUME NEW i \in DOMAIN overrides'[r]
      PROVE  RenderableRow(overrides'[r][i]) /\ BoundedRow(overrides'[r][i])
  <2>1. CASE i \in DOMAIN overrides[r]
    <3>1. overrides'[r][i] = overrides[r][i]
      BY <1>1, <2>1, AppendedRow
    <3> QED
      BY <1>2, <2>1, <3>1
  <2>2. CASE i = Len(overrides[r]) + 1
    <3>1. overrides'[r][i] = o
      BY <1>1, <2>2, AppendedRow
    <3> QED
      BY <3>1
  <2> QED
    BY <1>3, <2>1, <2>2
<1> QED
  BY <1>1, <1>4, AppendedRow DEF GoodTable

\* An unchanged override table stays renderable and bounded.
LEMMA OverrideKept ==
  ASSUME LedgerInv, NEW r \in Rooms, overrides'[r] = overrides[r]
  PROVE  GoodTable(r)
BY DEF LedgerInv, TypeOK, RenderableTable, BoundedTable, GoodTable

\* Every step keeps the tables well typed, and the override rows renderable and
\* bounded.
LEMMA TablesStep ==
  ASSUME LedgerInv, [Next]_vars
  PROVE  /\ bookings' \in BookingTable
         /\ overrides' \in [Rooms -> Seq(RoomPolicyOverride)]
         /\ ledger' \in [Rooms -> Seq(RoomState)]
         /\ \A r \in Rooms : GoodTable(r)
<1>t. /\ TypeOK /\ RenderableTable /\ bookings \in BookingTable
      /\ overrides \in [Rooms -> Seq(RoomPolicyOverride)] /\ ledger \in [Rooms -> Seq(RoomState)]
  BY DEF LedgerInv, TypeOK, BookingTable
<1>1. CASE UNCHANGED <<bookings, overrides, ledger>>
  <2>1. \A r \in Rooms : GoodTable(r)
    BY <1>1, OverrideKept
  <2> QED
    BY <1>1, <1>t, <2>1
<1>2. ASSUME NEW R \in SUBSET Rooms, NEW B \in Bookings, NEW rows \in BookingTable,
             NEW t \in Nat, recalculate_rooms(R, B, rows, t)
      PROVE  /\ bookings' \in BookingTable
             /\ overrides' \in [Rooms -> Seq(RoomPolicyOverride)]
             /\ ledger' \in [Rooms -> Seq(RoomState)]
             /\ \A r \in Rooms : GoodTable(r)
  <2>1. /\ bookings' = bookings \/ bookings' = rows
        /\ overrides' = [r \in Rooms |-> overrides'[r]]
        /\ ledger' = [r \in Rooms |-> ledger'[r]]
        /\ \A r \in Rooms : OverridesGrow(r, t) /\ LedgerGrows(r, t)
    BY <1>2, <1>t, RecalculationAppends
  <2>2. ASSUME NEW r \in Rooms PROVE GoodTable(r)
    <3>1. CASE overrides'[r] = overrides[r]
      BY <3>1, OverrideKept
    <3>2. ASSUME NEW ranks \in Ranks \X Ranks,
                 overrides'[r] = Append(overrides[r], end_row(t, ranks))
          PROVE  GoodTable(r)
      BY <3>2, EndRowTypes, EndRowBounded, OverrideAppended
    <3> QED
      BY <2>1, <3>1, <3>2 DEF OverridesGrow
  <2>3. ASSUME NEW r \in Rooms PROVE ledger'[r] \in Seq(RoomState)
    <3>1. ledger[r] \in Seq(RoomState)
      BY <1>t
    <3>2. ASSUME NEW s \in RoomState, ledger'[r] = Append(ledger[r], s)
          PROVE  ledger'[r] \in Seq(RoomState)
      BY <3>1, <3>2, AppendedRow
    <3> QED
      BY <2>1, <3>1, <3>2 DEF LedgerGrows
  <2>4. \A r \in Rooms : overrides'[r] \in Seq(RoomPolicyOverride)
    BY <2>2 DEF GoodTable
  <2> QED
    BY <1>t, <2>1, <2>2, <2>3, <2>4
<1>3. ASSUME NEW r \in Rooms, NEW c \in Commands, NEW t \in Nat,
             NEW row \in build_override_row(r, c, t),
             overrides' = [overrides EXCEPT ![r] = Append(@, row)],
             UNCHANGED <<bookings, ledger>>
      PROVE  /\ bookings' \in BookingTable
             /\ overrides' \in [Rooms -> Seq(RoomPolicyOverride)]
             /\ ledger' \in [Rooms -> Seq(RoomState)]
             /\ \A q \in Rooms : GoodTable(q)
  <2>1. row \in RoomPolicyOverride /\ RenderableRow(row) /\ BoundedRow(row)
    BY <1>t, CommandRow
  <2>2. overrides'[r] = Append(overrides[r], row)
        /\ \A q \in Rooms : q # r => overrides'[q] = overrides[q]
    BY <1>3, <1>t
  <2>3. ASSUME NEW q \in Rooms PROVE GoodTable(q)
    <3>1. CASE q = r
      BY <2>1, <2>2, <3>1, OverrideAppended
    <3>2. CASE q # r
      BY <2>2, <3>2, OverrideKept
    <3> QED
      BY <3>1, <3>2
  <2>4. \A q \in Rooms : overrides'[q] \in Seq(RoomPolicyOverride)
    BY <2>3 DEF GoodTable
  <2> QED
    BY <1>3, <1>t, <2>3, <2>4
<1> QED
  BY <1>t, <1>1, <1>2, <1>3, TableSteps

\* The actors' timestamps.
ActorsOK ==
  /\ now \in Nat
  /\ captured \in [Actors -> Nat \cup {Null}]
  /\ handling \in Rooms \cup {Null}
  /\ handling # Null => captured["command"] # Null

\* Beginning and ending a handler keeps the actors' timestamps well typed.
LEMMA ActorsStep ==
  ASSUME TypeOK, [Next]_vars
  PROVE  ActorsOK'
<1>t. ActorsOK /\ {"policy", "sync", "command"} = Actors
  BY DEF TypeOK, ActorsOK, Actors
<1>n. Null \notin Nat /\ Null \notin Rooms
  BY RegistryAssumption
<1>1. ASSUME NEW a \in Actors, Capture(a) PROVE ActorsOK'
  BY <1>1, <1>t, <1>n DEF Capture, ActorsOK
<1>2. ASSUME PolicyTick \/ SyncEmpty PROVE ActorsOK'
  BY <1>2, <1>t DEF PolicyTick, SyncEmpty, Release, ActorsOK
<1>3. ASSUME NEW batch, NEW last, NEW touched, ApplySyncResult(batch, last, touched)
      PROVE  ActorsOK'
  BY <1>3, <1>t DEF ApplySyncResult, Release, ActorsOK
<1>4. ASSUME NEW r \in Rooms, NEW c \in Commands, AcceptCommand(r, c) PROVE ActorsOK'
  BY <1>4, <1>t DEF AcceptCommand, ActorsOK
<1>5. ASSUME NEW r \in Rooms, NEW c \in Commands, RejectCommand(r, c) PROVE ActorsOK'
  BY <1>5, <1>t DEF RejectCommand, Release, ActorsOK
<1>6. ASSUME EvaluateCommand PROVE ActorsOK'
  BY <1>6, <1>t DEF EvaluateCommand, Release, ActorsOK
<1>7. ASSUME Elapse \/ Restart \/ UNCHANGED vars PROVE ActorsOK'
  BY <1>7, <1>t DEF Elapse, Restart, vars, ActorsOK
<1> QED
  BY <1>t, <1>1, <1>2, <1>3, <1>4, <1>5, <1>6, <1>7
     DEF Next, BeginPolicy, BeginSync, BeginCommand, SyncBatch, CommandArrives

\* The ledger invariant holds of the empty database.
LEMMA LedgerInit == Init => LedgerInv
<1> SUFFICES ASSUME Init PROVE LedgerInv
  OBVIOUS
<1>1. \A r \in Rooms : overrides[r] = << >> /\ ledger[r] = << >>
  BY DEF Init
<1> QED
  BY <1>1, RegistryAssumption DEF Init, LedgerInv, TypeOK, RenderableTable, BoundedTable

\* Every step keeps the ledger invariant.
LEMMA LedgerStep == LedgerInv /\ [Next]_vars => LedgerInv'
<1> SUFFICES ASSUME LedgerInv, [Next]_vars PROVE LedgerInv'
  OBVIOUS
<1>1. ActorsOK'
  BY ActorsStep DEF LedgerInv
<1>2. /\ bookings' \in BookingTable
      /\ overrides' \in [Rooms -> Seq(RoomPolicyOverride)]
      /\ ledger' \in [Rooms -> Seq(RoomState)]
      /\ \A r \in Rooms : GoodTable(r)
  BY TablesStep
<1>3. TypeOK'
  BY <1>1, <1>2 DEF TypeOK, ActorsOK, BookingTable
<1>4. RenderableTable' /\ BoundedTable'
  BY <1>2 DEF GoodTable, RenderableTable, BoundedTable
<1> QED
  BY <1>3, <1>4 DEF LedgerInv

\* The tables and the actors' timestamps keep their types.
THEOREM TypeCorrect == Spec => []TypeOK
<1>1. LedgerInv => TypeOK
  BY DEF LedgerInv
<1> QED
  BY <1>1, LedgerInit, LedgerStep, PTL DEF Spec

\* No sequence of commands, whatever it is interleaved with, stores an override
\* row that the intent model would refuse.
THEOREM OverridesRenderable == Spec => []RowsRenderable
<1>1. LedgerInv => RowsRenderable
  BY DEF LedgerInv, RenderableTable, RenderableRow, Renderable, RowsRenderable
<1> QED
  BY <1>1, LedgerInit, LedgerStep, PTL DEF Spec

\* No override is stored without the expiry its kind needs.
THEOREM OverridesBounded == Spec => []RowsBounded
<1>1. LedgerInv => RowsBounded
  BY DEF LedgerInv, BoundedTable, BoundedRow, RowsBounded
<1> QED
  BY <1>1, LedgerInit, LedgerStep, PTL DEF Spec

-----------------------------------------------------------------------------
(* The versions and the changes of the ledger.                             *)

Ordered(q) == \A i, j \in DOMAIN q : i < j => q[i].at < q[j].at
Numbered(q) == \A i \in DOMAIN q : q[i].version = i
Changing(q) == \A i \in DOMAIN q : i > 1 => q[i].hash # q[i - 1].hash

\* In a table in timestamp order the latest state is the last row.
LEMMA LatestIsLast ==
  ASSUME NEW q \in Seq(RoomState), q # << >>, Ordered(q), NEW last \in latest_room_state(q)
  PROVE  /\ Len(q) \in DOMAIN q /\ Len(q) \in Nat \ {0}
         /\ last = q[Len(q)] /\ last # Null
<1>1. Len(q) \in DOMAIN q /\ Len(q) \in Nat \ {0}
  OBVIOUS
<1>2. PICK k \in DOMAIN q : last = q[k] /\ \A j \in DOMAIN q : q[j].at <= q[k].at
  BY DEF latest_room_state
<1>3. k = Len(q)
  <2>1. SUFFICES ASSUME k < Len(q) PROVE FALSE
    BY <1>1
  <2>2. q[k].at < q[Len(q)].at /\ q[Len(q)].at <= q[k].at
    BY <1>1, <1>2, <2>1 DEF Ordered
  <2>3. q[k] \in RoomState /\ q[Len(q)] \in RoomState
    BY <1>1, <1>2
  <2>4. q[k].at \in Nat /\ q[Len(q)].at \in Nat
    BY <2>3 DEF RoomState
  <2> QED
    BY <2>2, <2>4
<1>4. q[Len(q)] \in RoomState
  BY <1>1
<1> QED
  BY <1>1, <1>2, <1>3, <1>4, NullAssumption

\* One more row: if the longer table is in timestamp order, so is the shorter
\* one, and the new row follows its last row.
LEMMA GrownTable ==
  ASSUME NEW q \in Seq(RoomState), NEW s \in RoomState, NEW last \in latest_room_state(q),
         s.version = next_intent_version(last), last # Null => last.hash # s.hash,
         Ordered(q) => Numbered(q) /\ Changing(q), Ordered(Append(q, s))
  PROVE  Numbered(Append(q, s)) /\ Changing(Append(q, s))
<1> DEFINE p == Append(q, s)
           n == Len(q)
<1>1. /\ n \in Nat /\ DOMAIN p = 1 .. n + 1 /\ DOMAIN q = 1 .. n
      /\ \A i \in 1 .. n : p[i] = q[i]
      /\ p[n + 1] = s
  BY AppendedRow
<1>2. Ordered(q)
  BY <1>1 DEF Ordered
<1>3. Numbered(q) /\ Changing(q)
  BY <1>2
<1>4. s.version = n + 1
  <2>1. CASE q = << >>
    BY <2>1 DEF latest_room_state, next_intent_version
  <2>2. CASE q # << >>
    <3>1. n \in DOMAIN q /\ last = q[n] /\ last # Null
      BY <1>2, <2>2, LatestIsLast
    <3>2. last.version = n
      BY <1>3, <3>1 DEF Numbered
    <3> QED
      BY <3>1, <3>2 DEF next_intent_version
  <2> QED
    BY <2>1, <2>2
<1>5. n > 0 => s.hash # q[n].hash
  <2>1. SUFFICES ASSUME n > 0 PROVE s.hash # q[n].hash
    OBVIOUS
  <2>2. q # << >>
    BY <2>1
  <2>3. last = q[n] /\ last # Null
    BY <1>2, <2>2, LatestIsLast
  <2> QED
    BY <2>3
<1>6. Numbered(p)
  BY <1>1, <1>3, <1>4 DEF Numbered
<1>7. Changing(p)
  <2> HIDE DEF p, n
  <2>1. ASSUME NEW i \in 1 .. n + 1, i > 1 PROVE p[i].hash # p[i - 1].hash
    <3>1. i - 1 \in 1 .. n /\ p[i - 1] = q[i - 1]
      BY <1>1, <2>1
    <3>2. CASE i = n + 1
      <4>1. n > 0 /\ i - 1 = n
        BY <1>1, <2>1, <3>2
      <4> QED
        BY <1>1, <1>5, <3>1, <3>2, <4>1
    <3>3. CASE i \in 1 .. n
      <4>1. p[i] = q[i] /\ i \in DOMAIN q
        BY <1>1, <3>3
      <4> QED
        BY <1>3, <2>1, <3>1, <4>1 DEF Changing
    <3> QED
      BY <1>1, <3>2, <3>3
  <2> QED
    BY <1>1, <2>1 DEF Changing
<1> QED
  BY <1>6, <1>7

VersionInv ==
  LedgerInv /\ \A r \in Rooms : Ordered(ledger[r]) => Numbered(ledger[r]) /\ Changing(ledger[r])

\* Every step keeps the version invariant.
LEMMA VersionStep == VersionInv /\ [Next]_vars => VersionInv'
<1> SUFFICES ASSUME VersionInv, [Next]_vars,  NEW r \in Rooms, Ordered(ledger'[r])
             PROVE  Numbered(ledger'[r]) /\ Changing(ledger'[r])
  BY LedgerStep DEF VersionInv
<1>t. TypeOK /\ ledger[r] \in Seq(RoomState)
  BY DEF VersionInv, LedgerInv, TypeOK
<1>0. Ordered(ledger[r]) => Numbered(ledger[r]) /\ Changing(ledger[r])
  BY DEF VersionInv
<1>1. ASSUME ledger'[r] = ledger[r] PROVE Numbered(ledger'[r]) /\ Changing(ledger'[r])
  BY <1>0, <1>1
<1>2. ASSUME NEW t \in Nat, LedgerGrows(r, t) PROVE Numbered(ledger'[r]) /\ Changing(ledger'[r])
  <2>1. ASSUME NEW s \in RoomState, NEW last \in latest_room_state(ledger[r]),
               ledger'[r] = Append(ledger[r], s),
               s.version = next_intent_version(last), last # Null => last.hash # s.hash
        PROVE  Numbered(ledger'[r]) /\ Changing(ledger'[r])
    BY <1>t, <1>0, <2>1, GrownTable
  <2> QED
    BY <1>1, <1>2, <2>1 DEF LedgerGrows
<1>3. ASSUME NEW R \in SUBSET Rooms, NEW B \in Bookings, NEW rows \in BookingTable,
             NEW t \in Nat, recalculate_rooms(R, B, rows, t)
      PROVE  LedgerGrows(r, t)
  BY <1>t, <1>3, RecalculationAppends
<1> QED
  BY <1>t, <1>1, <1>2, <1>3, TableSteps

\* The version invariant holds in every reachable state.
LEMMA VersionInvariant == Spec => []VersionInv
<1>1. Init => VersionInv
  <2> SUFFICES ASSUME Init PROVE VersionInv
    OBVIOUS
  <2>1. \A r \in Rooms : ledger[r] = << >>
    BY DEF Init
  <2> QED
    BY <2>1, LedgerInit DEF VersionInv, Numbered, Changing
<1> QED
  BY <1>1, VersionStep, PTL DEF Spec

\* For every interleaving in which a room's states are committed in timestamp
\* order, its intent versions are 1, 2, 3, ...
THEOREM VersionsOrdered == Spec => []OrderedVersions
<1>1. VersionInv => OrderedVersions
  BY DEF VersionInv, Ordered, Numbered, OrderedVersions, StampsOrdered
<1> QED
  BY <1>1, VersionInvariant, PTL

\* Under the same condition no state repeats the meaning of the one before it.
THEOREM ChangesOrdered == Spec => []OrderedChanges
<1>1. VersionInv => OrderedChanges
  BY DEF VersionInv, Ordered, Changing, OrderedChanges, StampsOrdered
<1> QED
  BY <1>1, VersionInvariant, PTL

=============================================================================
