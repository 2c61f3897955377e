------------------------- MODULE RoomOutcomeProofs -------------------------
(***************************************************************************)
(* Theorems about what the evaluation of a room can come to in a reachable *)
(* database: it never raises, a manual state has its override, timestamps  *)
(* tell the rows apart, and a tick or a poll settles its rooms.            *)
(***************************************************************************)
EXTENDS RoomLedgerProofs

-----------------------------------------------------------------------------
(* When an intent is valid.                                                *)

Nights(b) == b.arrival < b.departure

\* The pre-arrival window of a stay of at least a night is not empty.
LEMMA LeadBeforeCheckout ==
  ASSUME NEW b \in NormalizedBooking, Nights(b)
  PROVE  lead_start(b) < checkout_at(b)
<1>1. /\ b.arrival \in Nat /\ b.departure \in Nat /\ b.arrival + 1 <= b.departure
      /\ DayLength \in Nat /\ CheckIn \in Nat /\ CheckOut \in Nat /\ Lead \in Nat
      /\ CheckIn < DayLength
  BY PolicyAssumption DEF NormalizedBooking, Nights
<1>2. PICK n \in Nat : b.departure = b.arrival + 1 + n
  <2>1. b.departure - (b.arrival + 1) \in Nat
    BY <1>1
  <2> QED
    BY <1>1, <2>1
<1>3. /\ b.departure * DayLength = b.arrival * DayLength + DayLength + n * DayLength
      /\ b.arrival * DayLength \in Nat /\ n * DayLength \in Nat
  <2>1. b.departure * DayLength = (b.arrival + 1 + n) * DayLength
    BY <1>2
  <2>2. \A i, j, k \in Nat : (i + 1 + j) * k = i * k + k + j * k /\ i * k \in Nat
    OBVIOUS
  <2> QED
    BY <1>1, <1>2, <2>1, <2>2
<1> DEFINE A == b.arrival * DayLength
           D == b.departure * DayLength
           N == n * DayLength
<1>4. A \in Nat /\ N \in Nat /\ D = A + DayLength + N
  BY <1>3
<1>5. lead_start(b) = A + CheckIn - Lead /\ checkout_at(b) = D + CheckOut
  BY <1>1 DEF lead_start, arrival_at, checkout_at
<1> HIDE DEF A, D, N
<1>6. A + CheckIn - Lead < D + CheckOut
  BY <1>1, <1>4
<1> QED
  BY <1>5, <1>6

\* A row that ends with a stay has no other end.
EndsOnce(o) == o.until_checkout => o.expires_at = Null

Governable(o) == o # Null => RenderableRow(o) /\ BoundedRow(o) /\ EndsOnce(o)

\* The validity window of an evaluation is not empty.
Window(st) == st.until # Null => st.until > st.from

\* The window of a state of the relevant booking, whatever governs it.
LEMMA SelectedWindow ==
  ASSUME NEW b \in NormalizedBooking, Nights(b), NEW t \in Nat,
         NEW o \in OverrideOrNull, Governable(o)
  PROVE  Window(evaluate_selected(b, t, o))
<1>1. checkout_at(b) \in Nat /\ lead_start(b) \in Int /\ lead_start(b) < checkout_at(b)
  BY BookingTimes, LeadBeforeCheckout
<1> DEFINE st == evaluate_selected(b, t, o)
<1>2. CASE override_governs(o, b, t)
  <2>1. st.until = o.expires_at /\ st.from = t
    BY <1>2 DEF evaluate_selected, RoomStateEvaluation
  <2>2. o # Null /\ override_row_is_active(o, t)
    BY <1>2 DEF override_governs
  <2>3. CASE o.until_checkout
    BY <2>1, <2>2, <2>3 DEF Governable, EndsOnce, Window
  <2>4. CASE ~o.until_checkout
    BY <2>1, <2>2, <2>4 DEF override_row_is_active, Window
  <2> QED
    BY <2>3, <2>4
<1>3. CASE ~override_governs(o, b, t)
  <2>1. CASE b.status = "checked_in" /\ t >= checkout_at(b)
    BY <1>3, <2>1 DEF evaluate_selected, RoomStateEvaluation, Window
  <2>2. CASE b.status = "checked_in" /\ ~(t >= checkout_at(b))
    BY <1>1, <1>3, <2>2 DEF evaluate_selected, RoomStateEvaluation, Window
  <2>3. CASE b.status # "checked_in" /\ t >= lead_start(b)
    BY <1>1, <1>3, <2>3 DEF evaluate_selected, RoomStateEvaluation, Window
  <2>4. CASE b.status # "checked_in" /\ ~(t >= lead_start(b))
    BY <1>1, <1>3, <2>4 DEF evaluate_selected, RoomStateEvaluation, Window
  <2> QED
    BY <2>1, <2>2, <2>3, <2>4
<1> QED
  BY <1>2, <1>3

\* Whatever a room evaluates to, the validity window is not empty.
LEMMA EvaluationWindow ==
  ASSUME NEW r \in Rooms, NEW B \in Bookings, \A b \in B : Nights(b), NEW t \in Nat,
         NEW o \in OverrideOrNull, Governable(o), NEW st \in evaluate_room(r, B, t, o)
  PROVE  Window(st)
<1> DEFINE C == active_bookings_for_room(r, B, date(t))
<1>1. C \subseteq B /\ B \subseteq NormalizedBooking
  BY DEF active_bookings_for_room, Bookings
<1>2. select_relevant_booking(C) \subseteq B
  BY <1>1 DEF select_relevant_booking
<1>3. \/ st.until = Null
      \/ \E b \in select_relevant_booking(C) : st = evaluate_selected(b, t, o)
  BY DEF evaluate_room, RoomStateEvaluation
<1> QED
  BY <1>1, <1>2, <1>3, SelectedWindow DEF Window

\* The intent of such an evaluation passes its validators.
LEMMA IntentValid ==
  ASSUME NEW st \in Evaluation, Window(st), NEW o \in OverrideOrNull, Governable(o),
         st.phase = "manual_override" => o # Null
  PROVE  valid_intent(derive_room_intent(st, o))
<1>n. /\ HeatTarget # Null /\ SetbackTarget # Null /\ clamp_temperature(HeatTarget) # Null
      /\ \A v \in Int : clamp_temperature(v) # Null
  BY PolicyTypes, ClampTypes, NullIsNoNumber
<1>b. ASSUME NEW m, NEW on \in BOOLEAN, NEW h, NEW v, NEW w, NEW c,
             on => h # "off" /\ v # Null, ~on => h = "off" /\ v = Null
      PROVE  valid_intent(build_intent(st, m, Hvac(on, h, v), w, c))
  BY <1>b DEF valid_intent, validate_hvac_state, validate_validity_window, build_intent,
     Hvac, Window
<1>1. CASE st.phase = "manual_override"
  <2>1. derive_room_intent(st, o) = override_intent(st, o)
    BY <1>1 DEF derive_room_intent, SUPPRESS_AUTOMATION_PHASES
  <2>2. o # Null /\ (o.target # Null => o.target \in Int) /\ (o.hvac_mode = "off" <=> o.target = Null)
    BY <1>1 DEF OverrideOrNull, RoomPolicyOverride, Governable, RenderableRow, Renderable
  <2> DEFINE on == o.hvac_mode # "off"
             v  == IF o.target = Null THEN Null ELSE clamp_temperature(o.target)
  <2>3. on \in BOOLEAN
    BY Zenon
  <2>4. on => o.hvac_mode # "off" /\ v # Null
    BY <1>n, <2>2
  <2>5. ~on => o.hvac_mode = "off" /\ v = Null
    BY <2>2
  <2>6. override_intent(st, o) =
          build_intent(st, o.control_mode, Hvac(on, o.hvac_mode, v), o.water = TRUE, on)
    BY DEF override_intent
  <2> HIDE DEF on, v
  <2> QED
    BY <1>b, <2>1, <2>3, <2>4, <2>5, <2>6
<1>2. CASE st.phase \in SUPPRESS_AUTOMATION_PHASES
  <2>1. derive_room_intent(st, o) = build_intent(st, "off", Hvac(FALSE, "off", Null), FALSE, FALSE)
    BY <1>2 DEF derive_room_intent, HvacOff, SUPPRESS_AUTOMATION_PHASES
  <2> QED
    BY <1>b, <2>1
<1>3. CASE st.phase = "vacant"
  <2>1. derive_room_intent(st, o) =
          build_intent(st, "automatic", Hvac(TRUE, "heat", SetbackTarget), FALSE, FALSE)
    BY <1>3 DEF derive_room_intent, SUPPRESS_AUTOMATION_PHASES
  <2> QED
    BY <1>b, <1>n, <2>1
<1>4. CASE st.phase = "pre_arrival"
  <2>1. derive_room_intent(st, o) =
          build_intent(st, "automatic", Hvac(TRUE, "heat", HeatTarget),
                       WaterPreArrival, ConvectorsPreArrival)
    BY <1>4 DEF derive_room_intent, SUPPRESS_AUTOMATION_PHASES
  <2> QED
    BY <1>b, <1>n, <2>1
<1>5. CASE st.phase = "reserved"
  <2>1. derive_room_intent(st, o) =
          build_intent(st, "automatic", Hvac(FALSE, "off", Null), FALSE, FALSE)
    BY <1>5 DEF derive_room_intent, HvacOff, SUPPRESS_AUTOMATION_PHASES
  <2> QED
    BY <1>b, <2>1
<1>6. CASE st.phase \in {"occupied", "checkout_due"}
  <2>1. derive_room_intent(st, o) =
          build_intent(st, "automatic", Hvac(TRUE, "auto", clamp_temperature(HeatTarget)),
                       TRUE, TRUE)
    BY <1>6 DEF derive_room_intent, SUPPRESS_AUTOMATION_PHASES
  <2> QED
    BY <1>b, <1>n, <2>1
<1>7. st.phase \in AutomationPhase
  BY DEF Evaluation
<1> QED
  BY <1>1, <1>2, <1>3, <1>4, <1>5, <1>6, <1>7 DEF AutomationPhase, SUPPRESS_AUTOMATION_PHASES

-----------------------------------------------------------------------------
(* The evaluation never raises.                                            *)

NightsFed == \A b \in Feed : Nights(b)

NightsStored == \A b \in BookingIds : bookings[b] # Null => Nights(bookings[b])

EndOnceTable == \A r \in Rooms : \A i \in DOMAIN overrides[r] : EndsOnce(overrides[r][i])

\* The bookings stay what the feed gave.
LEMMA NightsStep ==
  ASSUME NightsFed, TypeOK, NightsStored, [Next]_vars
  PROVE  NightsStored'
<1>1. ASSUME NEW R, NEW B, NEW rows, NEW t, recalculate_rooms(R, B, rows, t)
      PROVE  bookings' = rows \/ bookings' = bookings
  BY <1>1 DEF recalculate_rooms
<1>2. ASSUME bookings' = bookings PROVE NightsStored'
  BY <1>2 DEF NightsStored
<1>3. ASSUME SyncBatch PROVE NightsStored'
  <2>1. PICK batch \in Batches : \E last, touched : ApplySyncResult(batch, last, touched)
    BY <1>3 DEF SyncBatch
  <2>2. bookings' = upserted(batch) \/ bookings' = bookings
    BY <1>1, <2>1 DEF ApplySyncResult
  <2>3. \A b \in DOMAIN batch : batch[b] \in Feed
    BY DEF Batches
  <2>4. ASSUME bookings' = upserted(batch) PROVE NightsStored'
    BY <2>3, <2>4 DEF upserted, NightsStored, NightsFed
  <2> QED
    BY <1>2, <2>2, <2>4
<1>4. ASSUME PolicyTick \/ EvaluateCommand PROVE bookings' = bookings
  BY <1>1, <1>4 DEF PolicyTick, EvaluateCommand
<1>5. ASSUME NEW r \in Rooms, NEW c \in Commands, AcceptCommand(r, c) \/ RejectCommand(r, c)
      PROVE  bookings' = bookings
  BY <1>5 DEF AcceptCommand, RejectCommand
<1>6. ASSUME \/ BeginPolicy \/ BeginSync \/ BeginCommand \/ Elapse \/ SyncEmpty \/ Restart
             \/ UNCHANGED vars
      PROVE  bookings' = bookings
  BY <1>6 DEF BeginPolicy, BeginSync, BeginCommand, Capture, Elapse, SyncEmpty, Restart, vars
<1> QED
  BY <1>2, <1>3, <1>4, <1>5, <1>6 DEF Next, CommandArrives

\* A command stores no row with two ends.
LEMMA EndOnceStep ==
  ASSUME TypeOK, EndOnceTable, [Next]_vars
  PROVE  EndOnceTable'
<1>t. overrides \in [Rooms -> Seq(RoomPolicyOverride)]
  BY DEF TypeOK
<1>1. ASSUME NEW r \in Rooms, overrides'[r] = overrides[r]
      PROVE  \A i \in DOMAIN overrides'[r] : EndsOnce(overrides'[r][i])
  BY <1>1 DEF EndOnceTable
<1>2. ASSUME NEW r \in Rooms, NEW o, EndsOnce(o), overrides'[r] = Append(overrides[r], o)
      PROVE  \A i \in DOMAIN overrides'[r] : EndsOnce(overrides'[r][i])
  <2>1. overrides[r] \in Seq(RoomPolicyOverride)
    BY <1>t
  <2>2. /\ Len(overrides[r]) \in Nat /\ DOMAIN overrides[r] = 1 .. Len(overrides[r])
        /\ DOMAIN overrides'[r] = 1 .. Len(overrides[r]) + 1
        /\ \A i \in DOMAIN overrides[r] : overrides'[r][i] = overrides[r][i]
        /\ overrides'[r][Len(overrides[r]) + 1] = o
    BY <1>2, <2>1
  <2>3. \A i \in DOMAIN overrides[r] : EndsOnce(overrides[r][i])
    BY DEF EndOnceTable
  <2> QED
    BY <1>2, <2>2, <2>3
<1>3. ASSUME NEW t, NEW ranks PROVE EndsOnce(end_row(t, ranks))
  BY DEF end_row, EndsOnce
<1>4. ASSUME NEW r, NEW c, NEW t, NEW row \in build_override_row(r, c, t) PROVE EndsOnce(row)
  <2>1. \E d, b : row = override_row(d, t, b, <<1, 1>>)
    BY DEF build_override_row
  <2>2. ASSUME NEW d, NEW b PROVE EndsOnce(override_row(d, t, b, <<1, 1>>))
    BY DEF override_row, EndsOnce
  <2> QED
    BY <2>1, <2>2
<1>5. ASSUME NEW R \in SUBSET Rooms, NEW B \in Bookings, NEW rows, NEW t \in Nat,
             recalculate_rooms(R, B, rows, t)
      PROVE  EndOnceTable'
  <2>1. \A r \in Rooms : OverridesGrow(r, t)
    BY <1>5, RecalculationAppends
  <2> QED
    BY <2>1, <1>1, <1>2, <1>3 DEF OverridesGrow, EndOnceTable
<1>6. ASSUME NEW r \in Rooms, NEW c \in Commands, NEW t \in Nat,
             NEW row \in build_override_row(r, c, t),
             overrides' = [overrides EXCEPT ![r] = Append(@, row)]
      PROVE  EndOnceTable'
  <2>1. /\ overrides'[r] = Append(overrides[r], row)
        /\ \A q \in Rooms : q # r => overrides'[q] = overrides[q]
    BY <1>6, <1>t
  <2> QED
    BY <2>1, <1>1, <1>2, <1>4 DEF EndOnceTable
<1>7. ASSUME overrides' = overrides PROVE EndOnceTable'
  BY <1>7 DEF EndOnceTable
<1> QED
  BY <1>5, <1>6, <1>7, TableSteps

ValidInv == LedgerInv /\ NightsStored /\ EndOnceTable

\* Then whatever a room evaluates to, on stored bookings or on others of at
\* least a night, passes its validators.
LEMMA OutcomeValid ==
  ASSUME ValidInv, NEW r \in Rooms, NEW B \in Bookings, \A b \in B : Nights(b), NEW t \in Nat,
         NEW x \in room_outcomes(r, B, t)
  PROVE  x.valid
<1>1. PICK o \in latest_override_row(overrides[r]) :
        x \in UNION {{recalculated(st, derive_room_intent(st, o), o, last, t, ranks) :
                        last \in latest_room_state(ledger[r]), ranks \in EndRanks(r, t)} :
                        st \in evaluate_room(r, B, t, o)}
  BY DEF room_outcomes
<1>2. PICK st \in evaluate_room(r, B, t, o),
           last \in latest_room_state(ledger[r]), ranks \in EndRanks(r, t) :
        x = recalculated(st, derive_room_intent(st, o), o, last, t, ranks)
  BY <1>1
<1>3. overrides[r] \in Seq(RoomPolicyOverride)
  BY DEF ValidInv, LedgerInv, TypeOK
<1>4. o \in OverrideOrNull
  BY <1>3, LatestOverrideTypes
<1>5. Governable(o)
  BY <1>3 DEF latest_override_row, Governable, ValidInv, LedgerInv, RenderableTable,
     BoundedTable, EndOnceTable
<1>6. st \in Evaluation /\ Window(st) /\ (st.phase = "manual_override" => o # Null)
  BY <1>4, <1>5, EvaluationTypes, EvaluationWindow
<1>7. valid_intent(derive_room_intent(st, o))
  BY <1>4, <1>5, <1>6, IntentValid
<1> QED
  BY <1>2, <1>7 DEF recalculated

\* A feed of such stays keeps the tables so.
LEMMA ValidInvariant ==
  ASSUME NightsFed
  PROVE  Spec => []ValidInv
<1>1. Init => ValidInv
  <2> SUFFICES ASSUME Init PROVE ValidInv
    OBVIOUS
  <2>1. (\A r \in Rooms : overrides[r] = << >>) /\ \A b \in BookingIds : bookings[b] = Null
    BY DEF Init
  <2> QED
    BY <2>1, LedgerInit DEF ValidInv, NightsStored, EndOnceTable
<1>2. ValidInv /\ [Next]_vars => ValidInv'
  BY LedgerStep, NightsStep, EndOnceStep DEF ValidInv, LedgerInv
<1> QED
  BY <1>1, <1>2, PTL DEF Spec

\* The stored bookings are such.
LEMMA StoredNights ==
  ASSUME ValidInv
  PROVE  Stored(bookings) \in Bookings /\ \A b \in Stored(bookings) : Nights(b)
BY StoredBookings DEF ValidInv, LedgerInv, NightsStored, Stored

\* With stays of at least one night and in any reachable database, no
\* evaluation of a room raises, at any instant.
THEOREM NeverAborts ==
  ASSUME NightsFed
  PROVE  Spec => []EvaluationNeverAborts
<1>1. ValidInv => EvaluationNeverAborts
  <2> SUFFICES ASSUME ValidInv, NEW r \in Rooms, NEW t \in 0 .. MaxTime,
                      NEW x \in room_outcomes(r, Stored(bookings), t)
               PROVE  x.valid
    BY DEF EvaluationNeverAborts
  <2>1. t \in Nat
    BY LedgerAssumption
  <2> QED
    BY <2>1, OutcomeValid, StoredNights
<1> QED
  BY <1>1, ValidInvariant, PTL

-----------------------------------------------------------------------------
(* A manual state has its override.                                        *)

\* The conjuncts of ManualPhaseJustified, for one override row.
JustifiedBy(o, s) ==
  /\ override_row_is_active(o, s.at)
  /\ o.until_checkout => o.booking = s.hash.booking.id
  /\ s.hash.intent.control_mode = o.control_mode
  /\ s.hash.intent.mode = o.hvac_mode
  /\ s.hash.until = o.expires_at

Justified(rows, s) ==
  s.hash.phase = "manual_override" => \E k \in DOMAIN rows : JustifiedBy(rows[k], s)

\* The manual phase is reached in one way only.
LEMMA EvaluationGoverned ==
  ASSUME NEW r \in Rooms, NEW B, NEW t, NEW o, NEW st \in evaluate_room(r, B, t, o),
         st.phase = "manual_override"
  PROVE  \E b : /\ override_governs(o, b, t)
                /\ st = RoomStateEvaluation("manual_override", b, t, o.expires_at)
<1> DEFINE C == active_bookings_for_room(r, B, date(t))
<1>1. \/ \E phase \in {"disabled", "vacant", "unknown", "conflict"} : st.phase = phase
      \/ \E b \in select_relevant_booking(C) : st = evaluate_selected(b, t, o)
  BY DEF evaluate_room, RoomStateEvaluation
<1>2. PICK b \in select_relevant_booking(C) : st = evaluate_selected(b, t, o)
  BY <1>1
<1>3. CASE override_governs(o, b, t)
  BY <1>2, <1>3 DEF evaluate_selected
<1>4. CASE ~override_governs(o, b, t)
  BY <1>2, <1>4 DEF evaluate_selected, RoomStateEvaluation
<1> QED
  BY <1>3, <1>4

\* The state an evaluation stores is justified by the row it has read.
LEMMA OutcomeJustified ==
  ASSUME TypeOK, NEW r \in Rooms, NEW B, NEW t, NEW x \in room_outcomes(r, B, t),
         NEW s, x.state = <<s>>
  PROVE  Justified(overrides[r], s)
<1>1. PICK o \in latest_override_row(overrides[r]) :
        x \in UNION {{recalculated(st, derive_room_intent(st, o), o, last, t, ranks) :
                        last \in latest_room_state(ledger[r]), ranks \in EndRanks(r, t)} :
                        st \in evaluate_room(r, B, t, o)}
  BY DEF room_outcomes
<1>2. PICK st \in evaluate_room(r, B, t, o), last \in latest_room_state(ledger[r]),
           ranks \in EndRanks(r, t) :
        x = recalculated(st, derive_room_intent(st, o), o, last, t, ranks)
  BY <1>1
<1> DEFINE intent == derive_room_intent(st, o)
           hash   == room_state_hash(st, intent)
<1>3. s = [at |-> t, version |-> next_intent_version(last), hash |-> hash, from |-> intent.from]
  <2>1. x.state # << >>
    OBVIOUS
  <2>2. x.state = <<[at |-> t, version |-> next_intent_version(last), hash |-> hash,
                     from |-> intent.from]>>
    BY <1>2, <2>1 DEF recalculated
  <2> QED
    BY <2>2
<1>4. /\ s.at = t /\ s.hash.phase = st.phase /\ s.hash.booking = st.booking
      /\ s.hash.until = st.until /\ s.hash.intent = [intent EXCEPT !.from = Null]
  BY <1>3 DEF room_state_hash
<1> SUFFICES ASSUME st.phase = "manual_override"
             PROVE  \E k \in DOMAIN overrides[r] : JustifiedBy(overrides[r][k], s)
  BY <1>4 DEF Justified
<1>5. PICK b : /\ override_governs(o, b, t)
               /\ st = RoomStateEvaluation("manual_override", b, t, o.expires_at)
  BY EvaluationGoverned
<1>6. intent = override_intent(st, o)
  BY DEF derive_room_intent, SUPPRESS_AUTOMATION_PHASES
<1>7. s.hash.intent.control_mode = o.control_mode /\ s.hash.intent.mode = o.hvac_mode
  BY <1>4, <1>6 DEF override_intent, build_intent, Hvac
<1>8. JustifiedBy(o, s)
  BY <1>4, <1>5, <1>7 DEF JustifiedBy, override_governs, RoomStateEvaluation
<1>9. o # Null
  BY <1>5 DEF override_governs
<1>10. \E k \in DOMAIN overrides[r] : o = overrides[r][k]
  BY <1>9 DEF latest_override_row
<1> QED
  BY <1>8, <1>10

\* What a recalculation adds to the ledger is justified by the override table.
LEMMA RecalculationJustified ==
  ASSUME TypeOK, NEW R \in SUBSET Rooms, NEW B \in Bookings, NEW rows, NEW t \in Nat,
         recalculate_rooms(R, B, rows, t), NEW r \in Rooms
  PROVE  \/ ledger'[r] = ledger[r]
         \/ \E s \in RoomState : ledger'[r] = Append(ledger[r], s) /\ Justified(overrides[r], s)
<1>t. ledger[r] \in Seq(RoomState)
  BY DEF TypeOK
<1>1. CASE UNCHANGED <<overrides, ledger, bookings>>
  BY <1>1
<1>2. ASSUME NEW f \in Outcomes(R, B, t),
             ledger' = Appended(ledger, [q \in R |-> f[q].state])
      PROVE  \/ ledger'[r] = ledger[r]
             \/ \E s \in RoomState : ledger'[r] = Append(ledger[r], s) /\ Justified(overrides[r], s)
  <2>1. CASE r \notin R
    BY <1>2, <2>1 DEF Appended
  <2>2. CASE r \in R
    <3>1. f[r] \in room_outcomes(r, B, t)
      BY <1>2, <2>2 DEF Outcomes
    <3>2. ledger'[r] = ledger[r] \o f[r].state
      BY <1>2, <2>2 DEF Appended
    <3>3. f[r].state = << >> \/ \E s \in RoomState : f[r].state = <<s>>
      BY <3>1, OutcomeShape DEF IsState
    <3>4. CASE f[r].state = << >>
      BY <1>t, <3>2, <3>4
    <3>5. ASSUME NEW s \in RoomState, f[r].state = <<s>>
          PROVE  ledger'[r] = Append(ledger[r], s) /\ Justified(overrides[r], s)
      <4>1. ledger'[r] = Append(ledger[r], s)
        BY <1>t, <3>2, <3>5, Concatenation
      <4> QED
        BY <3>1, <3>5, <4>1, OutcomeJustified
    <3> QED
      BY <3>3, <3>4, <3>5
  <2> QED
    BY <2>1, <2>2
<1> QED
  BY <1>1, <1>2 DEF recalculate_rooms

\* The rows of an override table stay.
LEMMA RowsStay ==
  ASSUME TypeOK, NEW r \in Rooms,
         overrides'[r] = overrides[r] \/ \E o : overrides'[r] = Append(overrides[r], o),
         NEW s, Justified(overrides[r], s)
  PROVE  Justified(overrides'[r], s)
<1>1. overrides[r] \in Seq(RoomPolicyOverride)
  BY DEF TypeOK
<1>2. ASSUME NEW k \in DOMAIN overrides[r]
      PROVE  k \in DOMAIN overrides'[r] /\ overrides'[r][k] = overrides[r][k]
  BY <1>1, <1>2
<1> QED
  BY <1>2 DEF Justified

JustifiedInv ==
  LedgerInv /\ \A r \in Rooms : \A i \in DOMAIN ledger[r] : Justified(overrides[r], ledger[r][i])

\* Every step keeps the manual states justified.
LEMMA JustifiedStep == JustifiedInv /\ [Next]_vars => JustifiedInv'
<1> SUFFICES ASSUME JustifiedInv, [Next]_vars, NEW r \in Rooms
             PROVE  \A i \in DOMAIN ledger'[r] : Justified(overrides'[r], ledger'[r][i])
  BY LedgerStep DEF JustifiedInv
<1>t. TypeOK /\ overrides \in [Rooms -> Seq(RoomPolicyOverride)] /\ ledger[r] \in Seq(RoomState)
  BY DEF JustifiedInv, LedgerInv, TypeOK
<1>0. \A i \in DOMAIN ledger[r] : Justified(overrides[r], ledger[r][i])
  BY DEF JustifiedInv
<1>1. ASSUME ledger'[r] = ledger[r],
             overrides'[r] = overrides[r] \/ \E o : overrides'[r] = Append(overrides[r], o)
      PROVE  \A i \in DOMAIN ledger'[r] : Justified(overrides'[r], ledger'[r][i])
  BY <1>t, <1>0, <1>1, RowsStay
<1>2. ASSUME NEW R \in SUBSET Rooms, NEW B \in Bookings, NEW rows, NEW t \in Nat,
             recalculate_rooms(R, B, rows, t)
      PROVE  \A i \in DOMAIN ledger'[r] : Justified(overrides'[r], ledger'[r][i])
  <2>1. OverridesGrow(r, t)
    BY <1>t, <1>2, RecalculationAppends
  <2>2. overrides'[r] = overrides[r] \/ \E o : overrides'[r] = Append(overrides[r], o)
    BY <2>1 DEF OverridesGrow
  <2>3. ASSUME NEW s \in RoomState, ledger'[r] = Append(ledger[r], s), Justified(overrides[r], s)
        PROVE  \A i \in DOMAIN ledger'[r] : Justified(overrides'[r], ledger'[r][i])
    <3>1. /\ DOMAIN ledger'[r] = 1 .. Len(ledger[r]) + 1 /\ DOMAIN ledger[r] = 1 .. Len(ledger[r])
          /\ Len(ledger[r]) \in Nat
          /\ \A i \in DOMAIN ledger[r] : ledger'[r][i] = ledger[r][i]
          /\ ledger'[r][Len(ledger[r]) + 1] = s
      BY <1>t, <2>3, AppendedRow
    <3>2. \A i \in DOMAIN ledger'[r] : i \in DOMAIN ledger[r] \/ i = Len(ledger[r]) + 1
      BY <3>1
    <3>3. \A i \in DOMAIN ledger'[r] : Justified(overrides[r], ledger'[r][i])
      BY <1>0, <2>3, <3>1, <3>2
    <3> QED
      BY <1>t, <2>2, <3>3, RowsStay
  <2>4. \/ ledger'[r] = ledger[r]
        \/ \E s \in RoomState : ledger'[r] = Append(ledger[r], s) /\ Justified(overrides[r], s)
    BY <1>t, <1>2, RecalculationJustified
  <2> QED
    BY <1>1, <2>2, <2>3, <2>4
<1>3. ASSUME NEW q \in Rooms, NEW o, overrides' = [overrides EXCEPT ![q] = Append(@, o)],
             ledger' = ledger
      PROVE  \A i \in DOMAIN ledger'[r] : Justified(overrides'[r], ledger'[r][i])
  <2>1. overrides'[r] = overrides[r] \/ overrides'[r] = Append(overrides[r], o)
    BY <1>t, <1>3
  <2> QED
    BY <1>1, <1>3, <2>1
<1> QED
  BY <1>t, <1>1, <1>2, <1>3, TableSteps

\* Whatever commands, polls and policy ticks race, a state in the manual phase
\* goes back to an override that was in force at its timestamp and is about the
\* booking the override is tied to.
THEOREM ManualJustified == Spec => []ManualPhaseJustified
<1>1. Init => JustifiedInv
  <2> SUFFICES ASSUME Init PROVE JustifiedInv
    OBVIOUS
  <2>1. \A r \in Rooms : ledger[r] = << >>
    BY DEF Init
  <2> QED
    BY <2>1, LedgerInit DEF JustifiedInv
<1>2. JustifiedInv => ManualPhaseJustified
  BY DEF JustifiedInv, Justified, JustifiedBy, ManualPhaseJustified
<1> QED
  BY <1>1, <1>2, JustifiedStep, PTL DEF Spec

-----------------------------------------------------------------------------
(* Timestamps identify rows.                                               *)

\* No two actors hold the same timestamp, and all are in the past.
ActorStamps ==
  \A a, b \in Actors : captured[a] # Null =>
    captured[a] < now /\ (captured[a] = captured[b] => a = b)

\* A room has at most one state per timestamp, and none yet for one that an
\* actor holds.
StateStamps(r) ==
  /\ \A i \in DOMAIN ledger[r] :
       ledger[r][i].at < now /\ \A a \in Actors : ledger[r][i].at # captured[a]
  /\ \A i, j \in DOMAIN ledger[r] : ledger[r][i].at = ledger[r][j].at => i = j

\* Rows i and j differ in their keys; the first is a command's, the other is not.
Apart(r, i, j) ==
  /\ overrides[r][i].uid = overrides[r][j].uid => i = j
  /\ overrides[r][i].evid = overrides[r][j].evid => i = j
  /\ i < j => /\ overrides[r][i].created_by = "home_assistant_mqtt"
              /\ overrides[r][j].created_by = "policy_scheduler"

OfCommand(o) == o.uid = 1 /\ o.evid = 1 /\ o.created_by = "home_assistant_mqtt"

\* Rows with one timestamp are apart; an actor that holds the timestamp of a
\* row is the handler of the command that the row stores.
RowStamps(r) ==
  /\ \A i \in DOMAIN overrides[r] :
       /\ overrides[r][i].starts_at < now
       /\ \A a \in Actors : overrides[r][i].starts_at = captured[a] =>
            /\ a = "command" /\ handling = r
            /\ OfCommand(overrides[r][i])
  /\ \A i, j \in DOMAIN overrides[r] :
       overrides[r][i].starts_at = overrides[r][j].starts_at => Apart(r, i, j)

StampInv == LedgerInv /\ ActorStamps /\ \A r \in Rooms : StateStamps(r) /\ RowStamps(r)

\* The transaction of actor a that evaluates the rooms R.
Commits(a, R) ==
  /\ captured[a] \in Nat
  /\ \E B \in Bookings, rows \in BookingTable : recalculate_rooms(R, B, rows, captured[a])
  /\ captured' = [captured EXCEPT ![a] = Null]
  /\ now' = now
  /\ IF a = "command" THEN R = {handling} /\ handling' = Null ELSE handling' = handling

\* A task or a handler that ends without a transaction.
GivesUp(a) ==
  /\ captured' = [captured EXCEPT ![a] = Null]
  /\ a = "command" => handling = Null
  /\ UNCHANGED <<now, handling, overrides, ledger>>

\* The steps, as far as timestamps are concerned.
LEMMA StampSteps ==
  ASSUME TypeOK, [Next]_vars
  PROVE  \/ UNCHANGED <<now, captured, handling, overrides, ledger>>
         \/ Elapse \/ Restart
         \/ \E a \in Actors : Capture(a) \/ GivesUp(a)
         \/ \E a \in Actors, R \in SUBSET Rooms : Commits(a, R)
         \/ \E r \in Rooms, c \in Commands : AcceptCommand(r, c)
<1> DEFINE Goal ==
      \/ UNCHANGED <<now, captured, handling, overrides, ledger>>
      \/ Elapse \/ Restart
      \/ \E a \in Actors : Capture(a) \/ GivesUp(a)
      \/ \E a \in Actors, R \in SUBSET Rooms : Commits(a, R)
      \/ \E r \in Rooms, c \in Commands : AcceptCommand(r, c)
<1>0. ASSUME NEW a \in Actors, captured[a] # Null PROVE captured[a] \in Nat
  BY <1>0 DEF TypeOK
<1>a. "policy" \in Actors /\ "sync" \in Actors /\ "command" \in Actors
  BY DEF Actors
<1>b. bookings \in BookingTable /\ Stored(bookings) \in Bookings /\ Rooms \in SUBSET Rooms
  BY StoredBookings DEF TypeOK, BookingTable
<1>1. ASSUME PolicyTick PROVE Goal
  <2>1. captured["policy"] \in Nat
    BY <1>0, <1>1, <1>a DEF PolicyTick
  <2>2. Commits("policy", Rooms)
    BY <1>1, <1>b, <2>1 DEF PolicyTick, Release, Commits
  <2> QED
    BY <1>a, <1>b, <2>2
<1>2. ASSUME SyncBatch PROVE Goal
  <2>1. PICK batch, last, touched :
          batch \in Batches /\ last \in DOMAIN batch /\ ApplySyncResult(batch, last, touched)
    BY <1>2 DEF SyncBatch
  <2> DEFINE R == UNION {affected_rooms(bookings[b], batch[b], b \in touched) : b \in DOMAIN batch}
  <2>2. R \in SUBSET Rooms /\ loaded(batch, last) \in Bookings /\ upserted(batch) \in BookingTable
    BY <2>1, SyncInputs
  <2>3. captured["sync"] \in Nat
    BY <1>0, <2>1, <1>a DEF ApplySyncResult
  <2>4. recalculate_rooms(R, loaded(batch, last), upserted(batch), captured["sync"])
    BY <2>1 DEF ApplySyncResult
  <2>5. captured' = [captured EXCEPT !["sync"] = Null] /\ now' = now /\ handling' = handling
    BY <2>1 DEF ApplySyncResult, Release
  <2> HIDE DEF R
  <2>6. Commits("sync", R)
    BY <2>2, <2>3, <2>4, <2>5 DEF Commits
  <2> QED
    BY <1>a, <2>2, <2>6
<1>3. ASSUME EvaluateCommand PROVE Goal
  <2>1. handling \in Rooms /\ captured["command"] \in Nat /\ {handling} \in SUBSET Rooms
    BY <1>0, <1>3, <1>a DEF EvaluateCommand, TypeOK
  <2>2. Commits("command", {handling})
    BY <1>3, <1>b, <2>1 DEF EvaluateCommand, Release, Commits
  <2> QED
    BY <1>a, <2>1, <2>2
<1>4. ASSUME SyncEmpty PROVE Goal
  <2>1. GivesUp("sync")
    BY <1>4 DEF SyncEmpty, Release, GivesUp
  <2> QED
    BY <1>a, <2>1
<1>5. ASSUME NEW r \in Rooms, NEW c \in Commands, RejectCommand(r, c) PROVE Goal
  <2>1. GivesUp("command")
    BY <1>5 DEF RejectCommand, Release, GivesUp
  <2> QED
    BY <1>a, <2>1
<1>6. ASSUME BeginPolicy \/ BeginSync \/ BeginCommand PROVE Goal
  BY <1>6, <1>a DEF BeginPolicy, BeginSync, BeginCommand
<1>7. ASSUME UNCHANGED vars PROVE Goal
  BY <1>7 DEF vars
<1> QED
  BY <1>1, <1>2, <1>3, <1>4, <1>5, <1>6, <1>7 DEF Next, CommandArrives

\* What recalculating leaves behind in the tables of one room.
Recalculated(r, B, t) ==
  \E o \in latest_override_row(overrides[r]) :
    \E st \in evaluate_room(r, B, t, o), last \in latest_room_state(ledger[r]),
       ranks \in EndRanks(r, t) :
      /\ overrides'[r] =
           overrides[r] \o recalculated(st, derive_room_intent(st, o), o, last, t, ranks).end
      /\ ledger'[r] =
           ledger[r] \o recalculated(st, derive_room_intent(st, o), o, last, t, ranks).state

\* Every recalculation that is not rolled back leaves that for its rooms.
LEMMA RecalculatedRooms ==
  ASSUME NEW R \in SUBSET Rooms, NEW B, NEW rows, NEW t, recalculate_rooms(R, B, rows, t)
  PROVE  \/ /\ bookings' = rows
            /\ \A r \in R : Recalculated(r, B, t)
            /\ \A r \in Rooms \ R : overrides'[r] = overrides[r] /\ ledger'[r] = ledger[r]
         \/ /\ UNCHANGED <<overrides, ledger, bookings>>
            /\ \E r \in R : \E x \in room_outcomes(r, B, t) : ~x.valid
<1>1. PICK f \in Outcomes(R, B, t) :
        \/ /\ \A r \in R : f[r].valid
           /\ overrides' = Appended(overrides, [r \in R |-> f[r].end])
           /\ ledger' = Appended(ledger, [r \in R |-> f[r].state])
           /\ bookings' = rows
        \/ /\ \E r \in R : ~f[r].valid
           /\ UNCHANGED <<overrides, ledger, bookings>>
  BY DEF recalculate_rooms
<1>2. \A r \in R : f[r] \in room_outcomes(r, B, t)
  BY DEF Outcomes
<1>3. CASE /\ overrides' = Appended(overrides, [r \in R |-> f[r].end])
           /\ ledger' = Appended(ledger, [r \in R |-> f[r].state])
  <2>1. ASSUME NEW r \in Rooms \ R PROVE overrides'[r] = overrides[r] /\ ledger'[r] = ledger[r]
    BY <1>3, <2>1 DEF Appended
  <2>2. ASSUME NEW r \in R PROVE Recalculated(r, B, t)
    <3>1. overrides'[r] = overrides[r] \o f[r].end /\ ledger'[r] = ledger[r] \o f[r].state
      BY <1>3 DEF Appended
    <3>2. PICK o \in latest_override_row(overrides[r]) :
            f[r] \in UNION {{recalculated(st, derive_room_intent(st, o), o, last, t, ranks) :
                               last \in latest_room_state(ledger[r]), ranks \in EndRanks(r, t)} :
                               st \in evaluate_room(r, B, t, o)}
      BY <1>2 DEF room_outcomes
    <3>3. PICK st \in evaluate_room(r, B, t, o), last \in latest_room_state(ledger[r]),
               ranks \in EndRanks(r, t) :
            f[r] = recalculated(st, derive_room_intent(st, o), o, last, t, ranks)
      BY <3>2
    <3> QED
      BY <3>1, <3>3 DEF Recalculated
  <2> QED
    BY <1>1, <1>2, <1>3, <2>1, <2>2
<1> QED
  BY <1>1, <1>2, <1>3

\* The types that the timestamps of the rows and of the actors have.
LEMMA StampTypes ==
  ASSUME TypeOK
  PROVE  /\ now \in Nat /\ Null \notin Int /\ Null \notin Rooms
         /\ \A a \in Actors : captured[a] \in Nat \cup {Null}
         /\ captured \in [Actors -> Nat \cup {Null}]
         /\ \A r \in Rooms : /\ ledger[r] \in Seq(RoomState) /\ overrides[r] \in Seq(RoomPolicyOverride)
                             /\ \A i \in DOMAIN ledger[r] : ledger[r][i].at \in Nat
                             /\ \A i \in DOMAIN overrides[r] :
                                  overrides[r][i].starts_at \in Nat /\ overrides[r][i].uid \in 0 .. 2
<1>1. now \in Nat /\ Null \notin Int /\ Null \notin Rooms /\ captured \in [Actors -> Nat \cup {Null}]
  BY RegistryAssumption DEF TypeOK
<1>2. ASSUME NEW r \in Rooms
      PROVE  /\ ledger[r] \in Seq(RoomState) /\ overrides[r] \in Seq(RoomPolicyOverride)
             /\ \A i \in DOMAIN ledger[r] : ledger[r][i] \in RoomState
             /\ \A i \in DOMAIN overrides[r] : overrides[r][i] \in RoomPolicyOverride
  BY DEF TypeOK
<1>3. \A s \in RoomState : s.at \in Nat
  BY DEF RoomState
<1>4. \A o \in RoomPolicyOverride : o.starts_at \in Nat /\ o.uid \in 0 .. 2
  BY DEF RoomPolicyOverride, Ranks
<1> QED
  BY <1>1, <1>2, <1>3, <1>4

\* The room's override is ended at t.
EndAdded(r, t) ==
  \E ranks \in EndRanks(r, t) : overrides'[r] = Append(overrides[r], end_row(t, ranks))

\* A recalculation stores at most one state and one end row for a room; the end
\* row's keys are chosen apart from those of a row with the same timestamp.
LEMMA RecalculatedTables ==
  ASSUME TypeOK, NEW R \in SUBSET Rooms, NEW B \in Bookings, NEW rows, NEW t \in Nat,
         recalculate_rooms(R, B, rows, t), NEW r \in Rooms
  PROVE  /\ \/ ledger'[r] = ledger[r]
            \/ \E s \in RoomState : ledger'[r] = Append(ledger[r], s) /\ s.at = t
         /\ \/ overrides'[r] = overrides[r]
            \/ r \in R /\ EndAdded(r, t)
<1>t. ledger[r] \in Seq(RoomState) /\ overrides[r] \in Seq(RoomPolicyOverride)
  BY StampTypes
<1>1. LedgerGrows(r, t)
  BY RecalculationAppends
<1>2. \/ overrides'[r] = overrides[r]
      \/ r \in R /\ EndAdded(r, t)
  <2>1. CASE UNCHANGED <<overrides, ledger, bookings>>
    BY <2>1
  <2>2. CASE r \in Rooms \ R /\ overrides'[r] = overrides[r]
    BY <2>2
  <2>3. CASE r \in R /\ Recalculated(r, B, t)
    <3>0. PICK o \in latest_override_row(overrides[r]) :
            \E st \in evaluate_room(r, B, t, o), last \in latest_room_state(ledger[r]),
               ranks \in EndRanks(r, t) :
              overrides'[r] =
                overrides[r] \o recalculated(st, derive_room_intent(st, o), o, last, t, ranks).end
      BY <2>3 DEF Recalculated
    <3>1. PICK st \in evaluate_room(r, B, t, o), last \in latest_room_state(ledger[r]),
               ranks \in EndRanks(r, t) :
            overrides'[r] =
              overrides[r] \o recalculated(st, derive_room_intent(st, o), o, last, t, ranks).end
      BY <3>0
    <3> DEFINE end == recalculated(st, derive_room_intent(st, o), o, last, t, ranks).end
    <3>6. end = << >> \/ end = <<end_row(t, ranks)>>
      BY DEF recalculated
    <3> HIDE DEF end
    <3>7. overrides'[r] = overrides[r] \o end
      BY <3>1 DEF end
    <3>2. ranks \in Ranks \X Ranks
      BY DEF EndRanks, Ranks
    <3>3. end_row(t, ranks) \in RoomPolicyOverride
      BY <3>2, EndRowTypes
    <3>4. CASE end = << >>
      BY <1>t, <3>7, <3>4
    <3>5. CASE end = <<end_row(t, ranks)>>
      <4>1. overrides'[r] = Append(overrides[r], end_row(t, ranks))
        BY <1>t, <3>3, <3>5, <3>7, Concatenation
      <4> QED
        BY <2>3, <4>1 DEF EndAdded
    <3> QED
      BY <3>4, <3>5, <3>6
  <2> QED
    BY <2>1, <2>2, <2>3, RecalculatedRooms
<1> QED
  BY <1>1, <1>2 DEF LedgerGrows

\* One row more in a sequence: the old ones stay, the new one is the last.
Grown(q, p, x) ==
  /\ Len(q) \in Nat /\ DOMAIN q = 1 .. Len(q) /\ DOMAIN p = 1 .. Len(q) + 1
  /\ \A i \in DOMAIN q : p[i] = q[i]
  /\ p[Len(q) + 1] = x

\* Appending is that.
LEMMA AppendGrows ==
  ASSUME NEW S, NEW q \in Seq(S), NEW x
  PROVE  Grown(q, Append(q, x), x)
BY DEF Grown

\* Time passes; an actor keeps its timestamp, drops it or takes a new one.
Advance ==
  /\ now' \in Nat /\ now <= now'
  /\ \A a \in Actors : captured'[a] \in {captured[a], Null, now}

\* A table of states that stays keeps its stamps.
LEMMA StatesKept ==
  ASSUME TypeOK, NEW r \in Rooms, StateStamps(r), Advance, ledger'[r] = ledger[r]
  PROVE  StateStamps(r)'
<1>1. now \in Nat /\ Null \notin Int /\ \A i \in DOMAIN ledger[r] : ledger[r][i].at \in Nat
  BY StampTypes
<1>2. ASSUME NEW i \in DOMAIN ledger[r]
      PROVE  ledger[r][i].at < now' /\ \A a \in Actors : ledger[r][i].at # captured'[a]
  <2> DEFINE t == ledger[r][i].at
  <2>1. t \in Nat /\ t < now /\ \A a \in Actors : t # captured[a]
    BY <1>1 DEF StateStamps
  <2> HIDE DEF t
  <2>2. t < now' /\ t # now /\ t # Null
    BY <1>1, <2>1 DEF Advance
  <2>3. \A a \in Actors : t # captured'[a]
    BY <2>1, <2>2 DEF Advance
  <2> QED
    BY <2>2, <2>3 DEF t
<1>3. \A i, j \in DOMAIN ledger[r] : ledger[r][i].at = ledger[r][j].at => i = j
  BY DEF StateStamps
<1> QED
  BY <1>2, <1>3 DEF StateStamps

\* A state whose timestamp no other has is added.
LEMMA StateAdded ==
  ASSUME TypeOK, NEW r \in Rooms, StateStamps(r), Advance, NEW s \in RoomState,
         ledger'[r] = Append(ledger[r], s), s.at < now,
         \A i \in DOMAIN ledger[r] : ledger[r][i].at # s.at,
         \A a \in Actors : captured'[a] # s.at
  PROVE  StateStamps(r)'
<1> DEFINE q == ledger[r]
           n == Len(ledger[r]) + 1
<1>1. now \in Nat /\ Null \notin Int /\ \A i \in DOMAIN q : q[i].at \in Nat
  BY StampTypes
<1>2. Grown(q, ledger'[r], s)
  BY StampTypes, AppendGrows
<1>3. /\ \A i \in DOMAIN ledger'[r] : i \in DOMAIN q \/ i = n
      /\ \A i \in DOMAIN q : ledger'[r][i] = q[i]
      /\ ledger'[r][n] = s
  BY <1>2 DEF Grown
<1>4. ASSUME NEW i \in DOMAIN q
      PROVE  q[i].at < now' /\ \A a \in Actors : q[i].at # captured'[a]
  <2> DEFINE t == q[i].at
  <2>1. t \in Nat /\ t < now /\ \A a \in Actors : t # captured[a]
    BY <1>1 DEF StateStamps
  <2> HIDE DEF t
  <2>2. t < now' /\ t # now /\ t # Null
    BY <1>1, <2>1 DEF Advance
  <2>3. \A a \in Actors : t # captured'[a]
    BY <2>1, <2>2 DEF Advance
  <2> QED
    BY <2>2, <2>3 DEF t
<1>5. s.at < now'
  <2>1. s.at \in Nat
    BY DEF RoomState
  <2> QED
    BY <1>1, <2>1 DEF Advance
<1>6. \A i, j \in DOMAIN q : q[i].at = q[j].at => i = j
  BY DEF StateStamps
<1> HIDE DEF q, n
<1>7. ASSUME NEW i \in DOMAIN ledger'[r]
      PROVE  ledger'[r][i].at < now' /\ \A a \in Actors : ledger'[r][i].at # captured'[a]
  BY <1>3, <1>4, <1>5
<1>8. ASSUME NEW i \in DOMAIN ledger'[r], NEW j \in DOMAIN ledger'[r],
             ledger'[r][i].at = ledger'[r][j].at
      PROVE  i = j
  <2>1. \A k \in DOMAIN q : q[k].at # s.at
    BY DEF q
  <2> QED
    BY <1>3, <1>6, <1>8, <2>1
<1> QED
  BY <1>7, <1>8 DEF StateStamps

\* The handler of a command stays the same as long as it keeps its timestamp.
Handles(r) == handling = r /\ captured'["command"] = captured["command"] => handling' = r

\* The rows a table has keep their stamps.
LEMMA RowStampsKept ==
  ASSUME TypeOK, NEW r \in Rooms, RowStamps(r), Advance, Handles(r),
         NEW i \in DOMAIN overrides[r]
  PROVE  /\ overrides[r][i].starts_at < now'
         /\ \A a \in Actors : overrides[r][i].starts_at = captured'[a] =>
              /\ a = "command" /\ handling' = r
              /\ OfCommand(overrides[r][i])
<1> DEFINE t == overrides[r][i].starts_at
<1>1. now \in Nat /\ Null \notin Int /\ t \in Nat
  BY StampTypes
<1>2. /\ t < now
      /\ \A a \in Actors : t = captured[a] =>
           a = "command" /\ handling = r /\ OfCommand(overrides[r][i])
  BY DEF RowStamps
<1> HIDE DEF t
<1>3. t < now' /\ t # now /\ t # Null
  BY <1>1, <1>2 DEF Advance
<1>4. \A a \in Actors : t = captured'[a] => captured'[a] = captured[a]
  BY <1>3 DEF Advance
<1>5. ASSUME NEW a \in Actors, t = captured'[a]
      PROVE  a = "command" /\ handling' = r /\ OfCommand(overrides[r][i])
  BY <1>2, <1>4, <1>5 DEF Handles
<1> QED
  BY <1>3, <1>5 DEF t

\* A table of override rows that stays keeps its stamps.
LEMMA RowsKept ==
  ASSUME TypeOK, NEW r \in Rooms, RowStamps(r), Advance, Handles(r), overrides'[r] = overrides[r]
  PROVE  RowStamps(r)'
<1>1. \A i \in DOMAIN overrides[r] :
        /\ overrides[r][i].starts_at < now'
        /\ \A a \in Actors : overrides[r][i].starts_at = captured'[a] =>
             /\ a = "command" /\ handling' = r
             /\ OfCommand(overrides[r][i])
  BY RowStampsKept
<1>2. \A i, j \in DOMAIN overrides[r] :
        overrides[r][i].starts_at = overrides[r][j].starts_at => Apart(r, i, j)'
  BY DEF RowStamps, Apart
<1> QED
  BY <1>1, <1>2 DEF RowStamps

\* A row is added whose keys and timestamp no other row of the room has.
LEMMA RowAdded ==
  ASSUME TypeOK, NEW r \in Rooms, RowStamps(r), Advance, Handles(r),
         NEW o \in RoomPolicyOverride, overrides'[r] = Append(overrides[r], o),
         o.starts_at < now,
         \A a \in Actors : o.starts_at = captured'[a] =>
           a = "command" /\ handling' = r /\ OfCommand(o),
         \A i \in DOMAIN overrides[r] : overrides[r][i].starts_at = o.starts_at =>
           /\ overrides[r][i].uid # o.uid /\ overrides[r][i].evid # o.evid
           /\ overrides[r][i].created_by = "home_assistant_mqtt"
           /\ o.created_by = "policy_scheduler"
  PROVE  RowStamps(r)'
<1> DEFINE q == overrides[r]
           n == Len(overrides[r]) + 1
<1>1. Grown(q, overrides'[r], o)
  BY StampTypes, AppendGrows
<1>2. /\ \A i \in DOMAIN overrides'[r] : i \in DOMAIN q \/ i = n
      /\ \A i \in DOMAIN q : overrides'[r][i] = q[i] /\ i \in Int /\ i < n
      /\ overrides'[r][n] = o /\ n \in Int
  BY <1>1 DEF Grown
<1>3. \A i \in DOMAIN q :
        /\ q[i].starts_at < now'
        /\ \A a \in Actors : q[i].starts_at = captured'[a] =>
             a = "command" /\ handling' = r /\ OfCommand(q[i])
  BY RowStampsKept
<1>4. \A i, j \in DOMAIN q : q[i].starts_at = q[j].starts_at =>
        /\ q[i].uid = q[j].uid => i = j
        /\ q[i].evid = q[j].evid => i = j
        /\ i < j => /\ q[i].created_by = "home_assistant_mqtt"
                    /\ q[j].created_by = "policy_scheduler"
  BY DEF RowStamps, Apart
<1>5. \A i \in DOMAIN q : q[i].starts_at = o.starts_at =>
        /\ q[i].uid # o.uid /\ q[i].evid # o.evid
        /\ q[i].created_by = "home_assistant_mqtt" /\ o.created_by = "policy_scheduler"
  OBVIOUS
<1>6. o.starts_at < now'
  <2>1. o.starts_at \in Nat /\ now \in Nat
    BY StampTypes DEF RoomPolicyOverride
  <2> QED
    BY <2>1 DEF Advance
<1> HIDE DEF q, n
<1>7. ASSUME NEW i \in DOMAIN overrides'[r]
      PROVE  /\ overrides'[r][i].starts_at < now'
             /\ \A a \in Actors : overrides'[r][i].starts_at = captured'[a] =>
                  /\ a = "command" /\ handling' = r
                  /\ OfCommand(overrides'[r][i])
  <2>1. CASE i \in DOMAIN q
    BY <1>2, <1>3, <2>1
  <2>2. CASE i = n
    BY <1>2, <1>6, <2>2
  <2> QED
    BY <1>2, <2>1, <2>2
<1>8. ASSUME NEW i \in DOMAIN overrides'[r], NEW j \in DOMAIN overrides'[r],
             overrides'[r][i].starts_at = overrides'[r][j].starts_at
      PROVE  Apart(r, i, j)'
  <2>1. CASE i \in DOMAIN q /\ j \in DOMAIN q
    <3>1. overrides'[r][i] = q[i] /\ overrides'[r][j] = q[j]
      BY <1>2, <2>1
    <3> QED
      BY <1>4, <1>8, <2>1, <3>1 DEF Apart
  <2>2. CASE i \in DOMAIN q /\ j = n
    <3>1. overrides'[r][i] = q[i] /\ overrides'[r][j] = o
      BY <1>2, <2>2
    <3> QED
      BY <1>5, <1>8, <2>2, <3>1 DEF Apart
  <2>3. CASE i = n /\ j \in DOMAIN q
    <3>1. overrides'[r][i] = o /\ overrides'[r][j] = q[j] /\ ~(i < j)
      BY <1>2, <2>3
    <3> QED
      BY <1>5, <1>8, <2>3, <3>1 DEF Apart
  <2>4. CASE i = n /\ j = n
    BY <1>2, <2>4 DEF Apart
  <2> QED
    BY <1>2, <2>1, <2>2, <2>3, <2>4
<1> QED
  BY <1>7, <1>8 DEF RowStamps

\* No two actors take a timestamp at once, and taking one lets time pass.
TakenOnce ==
  \A a, b \in Actors : captured'[a] = now /\ captured'[b] = now => a = b /\ now < now'

\* The actors' timestamps stay distinct and in the past.
LEMMA ActorStampsStep ==
  ASSUME TypeOK, ActorStamps, Advance, TakenOnce
  PROVE  ActorStamps'
<1>0. now \in Nat /\ Null \notin Int /\ \A a \in Actors : captured[a] \in Nat \cup {Null}
  BY StampTypes
<1>1. ASSUME NEW a \in Actors, captured'[a] # Null PROVE captured'[a] < now'
  <2>1. CASE captured'[a] = now
    BY <2>1 DEF TakenOnce
  <2>2. CASE captured'[a] = captured[a]
    <3>1. captured[a] \in Nat /\ captured[a] < now
      BY <1>0, <1>1, <2>2 DEF ActorStamps
    <3> QED
      BY <1>0, <2>2, <3>1 DEF Advance
  <2> QED
    BY <1>1, <2>1, <2>2 DEF Advance
<1>2. ASSUME NEW a \in Actors, NEW b \in Actors, captured'[a] # Null, captured'[a] = captured'[b]
      PROVE  a = b
  <2>1. CASE captured'[a] = now
    BY <1>2, <2>1 DEF TakenOnce
  <2>2. CASE captured'[a] # now
    <3>1. captured[a] = captured'[a] /\ captured[b] = captured'[b] /\ captured[a] # Null
      BY <1>2, <2>2 DEF Advance
    <3> QED
      BY <1>2, <3>1 DEF ActorStamps
  <2> QED
    BY <2>1, <2>2
<1> QED
  BY <1>1, <1>2 DEF ActorStamps

\* An actor that drops its timestamp, or keeps it while no time passes.
LEMMA DroppedStamp ==
  ASSUME TypeOK, ActorStamps, NEW a \in Actors, now' = now,
         captured' = captured \/ captured' = [captured EXCEPT ![a] = Null]
  PROVE  Advance /\ TakenOnce
<1>0. now \in Nat /\ Null \notin Int /\ captured \in [Actors -> Nat \cup {Null}]
  BY StampTypes
<1>1. \A b \in Actors : captured'[b] \in {captured[b], Null}
  BY <1>0
<1>2. \A b \in Actors : captured[b] \in Nat => captured[b] < now
  BY <1>0 DEF ActorStamps
<1>3. \A b \in Actors : captured[b] # now
  BY <1>0, <1>2
<1>4. \A b \in Actors : captured'[b] # now
  BY <1>0, <1>1, <1>3
<1> QED
  BY <1>0, <1>1, <1>4 DEF Advance, TakenOnce

\* The steps that leave the tables alone.
LEMMA QuietSteps ==
  ASSUME TypeOK, ActorStamps,
         \/ UNCHANGED <<now, captured, handling, overrides, ledger>>
         \/ Elapse \/ Restart
         \/ \E a \in Actors : Capture(a) \/ GivesUp(a)
  PROVE  /\ Advance /\ TakenOnce /\ UNCHANGED <<overrides, ledger>>
         /\ \A r \in Rooms : Handles(r)
<1>0. /\ now \in Nat /\ Null \notin Int /\ captured \in [Actors -> Nat \cup {Null}]
      /\ Null \notin Rooms /\ "command" \in Actors
      /\ handling # Null => captured["command"] # Null
  BY StampTypes DEF Actors, TypeOK
<1>1. ASSUME UNCHANGED <<now, captured, handling, overrides, ledger>>
      PROVE  /\ Advance /\ TakenOnce /\ UNCHANGED <<overrides, ledger>>
             /\ \A r \in Rooms : Handles(r)
  BY <1>0, <1>1, DroppedStamp DEF Handles
<1>2. ASSUME Elapse
      PROVE  /\ Advance /\ TakenOnce /\ UNCHANGED <<overrides, ledger>>
             /\ \A r \in Rooms : Handles(r)
  <2>1. now' = now + 1 /\ UNCHANGED <<captured, handling, overrides, ledger>>
    BY <1>2 DEF Elapse
  <2>2. \A a \in Actors : captured[a] # now
    BY <1>0 DEF ActorStamps
  <2> QED
    BY <1>0, <2>1, <2>2 DEF Advance, TakenOnce, Handles
<1>3. ASSUME Restart
      PROVE  /\ Advance /\ TakenOnce /\ UNCHANGED <<overrides, ledger>>
             /\ \A r \in Rooms : Handles(r)
  <2>1. now' = now /\ UNCHANGED <<overrides, ledger>> /\ \A a \in Actors : captured'[a] = Null
    BY <1>3 DEF Restart
  <2>2. Advance /\ TakenOnce
    BY <1>0, <2>1 DEF Advance, TakenOnce
  <2>3. \A r \in Rooms : Handles(r)
    BY <1>0, <2>1 DEF Handles
  <2> QED
    BY <2>1, <2>2, <2>3
<1>4. ASSUME NEW a \in Actors, Capture(a)
      PROVE  /\ Advance /\ TakenOnce /\ UNCHANGED <<overrides, ledger>>
             /\ \A r \in Rooms : Handles(r)
  <2>1. /\ captured' = [captured EXCEPT ![a] = now] /\ now' = now + 1
        /\ UNCHANGED <<handling, overrides, ledger>>
    BY <1>4 DEF Capture
  <2>2. /\ \A b \in Actors : b # a => captured'[b] = captured[b]
        /\ captured'[a] = now
    BY <1>0, <2>1
  <2>3. \A b \in Actors : captured[b] # now
    BY <1>0 DEF ActorStamps
  <2>4. Advance
    BY <1>0, <2>1, <2>2 DEF Advance
  <2>5. TakenOnce
    BY <1>0, <2>1, <2>2, <2>3 DEF TakenOnce
  <2> QED
    BY <2>1, <2>4, <2>5 DEF Handles
<1>5. ASSUME NEW a \in Actors, GivesUp(a)
      PROVE  /\ Advance /\ TakenOnce /\ UNCHANGED <<overrides, ledger>>
             /\ \A r \in Rooms : Handles(r)
  BY <1>5, DroppedStamp DEF GivesUp, Handles
<1> QED
  BY <1>1, <1>2, <1>3, <1>4, <1>5

\* A transaction adds to a room what nobody else can add at that timestamp.
LEMMA CommitStamps ==
  ASSUME TypeOK, ActorStamps, NEW r \in Rooms, StateStamps(r), RowStamps(r),
         NEW a \in Actors, NEW R \in SUBSET Rooms, Commits(a, R)
  PROVE  Advance /\ TakenOnce /\ (StateStamps(r) /\ RowStamps(r))'
<1>t. PICK t \in Nat : t = captured[a]
  BY DEF Commits
<1>0. /\ now \in Nat /\ Null \notin Int /\ captured \in [Actors -> Nat \cup {Null}]
      /\ t < now /\ now' = now
  BY <1>t, StampTypes DEF Commits, ActorStamps
<1>1. Advance /\ TakenOnce
  BY DroppedStamp DEF Commits
<1>2. /\ captured'[a] = Null /\ \A b \in Actors : captured'[b] # t
      /\ \A b \in Actors : b # a => captured'[b] = captured[b]
  <2>1. captured' = [captured EXCEPT ![a] = Null]
    BY DEF Commits
  <2>2. \A b \in Actors : b # a => captured[b] # t
    BY <1>t, <1>0 DEF ActorStamps
  <2> QED
    BY <1>t, <1>0, <2>1, <2>2
<1>3. Handles(r)
  <2>1. CASE a = "command"
    <3>1. captured'["command"] # captured["command"]
      BY <1>t, <1>0, <1>2, <2>1
    <3> QED
      BY <3>1 DEF Handles
  <2>2. CASE a # "command"
    BY <2>2 DEF Commits, Handles
  <2> QED
    BY <2>1, <2>2
<1>4. PICK B : B \in Bookings /\ \E rows \in BookingTable : recalculate_rooms(R, B, rows, t)
  BY <1>t DEF Commits
<1>5. PICK rows : rows \in BookingTable /\ recalculate_rooms(R, B, rows, t)
  BY <1>4
<1>6. \A i \in DOMAIN ledger[r] : ledger[r][i].at # t
  BY <1>t DEF StateStamps
<1>7. \A i \in DOMAIN overrides[r] : overrides[r][i].starts_at = t =>
        /\ a = "command" /\ handling = r
        /\ OfCommand(overrides[r][i])
  BY <1>t DEF RowStamps
<1>8. /\ \/ ledger'[r] = ledger[r]
         \/ \E s \in RoomState : ledger'[r] = Append(ledger[r], s) /\ s.at = t
      /\ \/ overrides'[r] = overrides[r]
         \/ r \in R /\ EndAdded(r, t)
  <2>1. TypeOK /\ r \in Rooms /\ R \in SUBSET Rooms /\ t \in Nat /\ B \in Bookings
    BY <1>4
  <2>2. recalculate_rooms(R, B, rows, t)
    BY <1>5
  <2> QED
    BY <2>1, <2>2, RecalculatedTables
<1>9. StateStamps(r)'
  <2>1. CASE ledger'[r] = ledger[r]
    BY <1>1, <2>1, StatesKept
  <2>2. ASSUME NEW s \in RoomState, ledger'[r] = Append(ledger[r], s), s.at = t
        PROVE  StateStamps(r)'
    BY <1>0, <1>1, <1>2, <1>6, <2>2, StateAdded
  <2> QED
    BY <1>8, <2>1, <2>2
<1>10. RowStamps(r)'
  <2>1. CASE overrides'[r] = overrides[r]
    BY <1>1, <1>3, <2>1, RowsKept
  <2>2. ASSUME NEW ranks \in EndRanks(r, t), overrides'[r] = Append(overrides[r], end_row(t, ranks))
        PROVE  RowStamps(r)'
    <3>1. end_row(t, ranks) \in RoomPolicyOverride
      <4>1. ranks \in Ranks \X Ranks
        BY DEF EndRanks, Ranks
      <4> QED
        BY <1>0, <4>1, EndRowTypes
    <3>2. /\ end_row(t, ranks).starts_at = t
          /\ end_row(t, ranks).created_by = "policy_scheduler"
          /\ end_row(t, ranks).uid = ranks[1] /\ end_row(t, ranks).evid = ranks[2]
      BY DEF end_row
    <3>3. (\E i \in DOMAIN overrides[r] : overrides[r][i].starts_at = t)
            => ranks[1] # 1 /\ ranks[2] # 1
      BY DEF EndRanks
    <3> DEFINE o == end_row(t, ranks)
    <3>4. \A i \in DOMAIN overrides[r] : overrides[r][i].starts_at = o.starts_at =>
            /\ overrides[r][i].uid # o.uid /\ overrides[r][i].evid # o.evid
            /\ overrides[r][i].created_by = "home_assistant_mqtt"
            /\ o.created_by = "policy_scheduler"
      BY <1>7, <3>2, <3>3 DEF OfCommand
    <3>5. o.starts_at < now /\ \A b \in Actors : o.starts_at # captured'[b]
      BY <1>0, <1>2, <3>2
    <3>6. o \in RoomPolicyOverride /\ overrides'[r] = Append(overrides[r], o)
      BY <2>2, <3>1
    <3> HIDE DEF o
    <3> QED
      BY <1>1, <1>3, <3>4, <3>5, <3>6, RowAdded
  <2> QED
    BY <1>8, <2>1, <2>2 DEF EndAdded
<1> QED
  BY <1>1, <1>9, <1>10

\* An accepted command stores the first row of its timestamp.
LEMMA AcceptStamps ==
  ASSUME LedgerInv, ActorStamps, NEW q \in Rooms, NEW c \in Commands, AcceptCommand(q, c),
         NEW r \in Rooms, StateStamps(r), RowStamps(r)
  PROVE  Advance /\ TakenOnce /\ (StateStamps(r) /\ RowStamps(r))'
<1>t. TypeOK /\ RenderableTable
  BY DEF LedgerInv
<1> DEFINE t == captured["command"]
<1>a. "command" \in Actors
  BY DEF Actors
<1>0. /\ now \in Nat /\ Null \notin Int /\ Null \notin Rooms
      /\ captured \in [Actors -> Nat \cup {Null}]
      /\ overrides \in [Rooms -> Seq(RoomPolicyOverride)]
  BY <1>t, StampTypes DEF TypeOK
<1>1. /\ t # Null /\ handling = Null /\ handling' = q
      /\ now' = now /\ captured' = captured /\ ledger' = ledger
  BY DEF AcceptCommand
<1>2. t \in Nat /\ t < now
  BY <1>a, <1>0, <1>1 DEF ActorStamps
<1>3. Advance /\ TakenOnce
  BY <1>t, <1>a, <1>1, DroppedStamp
<1>4. Handles(r)
  BY <1>0, <1>1 DEF Handles
<1>5. StateStamps(r)'
  BY <1>t, <1>1, <1>3, StatesKept
<1>6. PICK row \in build_override_row(q, c, t) :
        overrides' = [overrides EXCEPT ![q] = Append(@, row)]
  BY DEF AcceptCommand
<1>7. row \in RoomPolicyOverride
  BY <1>t, <1>2, CommandRow
<1>8. row.starts_at = t /\ OfCommand(row)
  <2>1. \E d, b : row = override_row(d, t, b, <<1, 1>>)
    BY DEF build_override_row
  <2>2. ASSUME NEW d, NEW b
        PROVE  /\ override_row(d, t, b, <<1, 1>>).starts_at = t
               /\ OfCommand(override_row(d, t, b, <<1, 1>>))
    BY DEF override_row, OfCommand
  <2> QED
    BY <2>1, <2>2
<1>9. RowStamps(r)'
  <2>1. CASE r # q
    <3>1. overrides'[r] = overrides[r]
      BY <1>0, <1>6, <2>1
    <3> QED
      BY <1>t, <1>3, <1>4, <3>1, RowsKept
  <2>2. CASE r = q
    <3>1. overrides'[r] = Append(overrides[r], row)
      BY <1>0, <1>6, <2>2
    <3>2. \A i \in DOMAIN overrides[r] : overrides[r][i].starts_at # t
      BY <1>a, <1>0, <1>1 DEF RowStamps
    <3>3. \A a \in Actors : row.starts_at = captured'[a] =>
            a = "command" /\ handling' = r /\ OfCommand(row)
      BY <1>a, <1>1, <1>8, <2>2 DEF ActorStamps
    <3>4. row.starts_at < now /\ \A i \in DOMAIN overrides[r] : overrides[r][i].starts_at # row.starts_at
      BY <1>2, <1>8, <3>2
    <3> HIDE DEF t
    <3> QED
      BY <1>t, <1>3, <1>4, <1>7, <3>1, <3>3, <3>4, RowAdded
  <2> QED
    BY <2>1, <2>2
<1> QED
  BY <1>3, <1>5, <1>9

\* Every step keeps the timestamps telling the rows apart.
LEMMA StampStep == StampInv /\ [Next]_vars => StampInv'
<1> SUFFICES ASSUME StampInv, [Next]_vars PROVE StampInv'
  OBVIOUS
<1>0. LedgerInv /\ TypeOK /\ ActorStamps /\ \A r \in Rooms : StateStamps(r) /\ RowStamps(r)
  BY DEF StampInv, LedgerInv
<1> DEFINE Goal == Advance /\ TakenOnce /\ \A r \in Rooms : (StateStamps(r) /\ RowStamps(r))'
<1>1. ASSUME \/ UNCHANGED <<now, captured, handling, overrides, ledger>>
             \/ Elapse \/ Restart
             \/ \E a \in Actors : Capture(a) \/ GivesUp(a)
      PROVE  Goal
  <2>1. /\ Advance /\ TakenOnce /\ UNCHANGED <<overrides, ledger>>
        /\ \A r \in Rooms : Handles(r)
    BY <1>0, <1>1, QuietSteps
  <2>2. ASSUME NEW r \in Rooms PROVE (StateStamps(r) /\ RowStamps(r))'
    <3>1. overrides'[r] = overrides[r] /\ ledger'[r] = ledger[r] /\ Handles(r)
      BY <2>1
    <3> QED
      BY <1>0, <2>1, <3>1, StatesKept, RowsKept
  <2> QED
    BY <2>1, <2>2
<1>2. ASSUME NEW a \in Actors, NEW R \in SUBSET Rooms, Commits(a, R) PROVE Goal
  <2>1. Advance /\ TakenOnce
    BY <1>0, <1>2, DroppedStamp DEF Commits
  <2> QED
    BY <1>0, <1>2, <2>1, CommitStamps
<1>3. ASSUME NEW q \in Rooms, NEW c \in Commands, AcceptCommand(q, c) PROVE Goal
  <2>1. \A r \in Rooms : Advance /\ TakenOnce /\ (StateStamps(r) /\ RowStamps(r))'
    BY <1>0, <1>3, AcceptStamps
  <2> QED
    BY <2>1
<1>4. Goal
  BY <1>0, <1>1, <1>2, <1>3, StampSteps
<1>5. LedgerInv' /\ ActorStamps'
  BY <1>0, <1>4, LedgerStep, ActorStampsStep
<1> QED
  BY <1>4, <1>5 DEF StampInv

\* Nothing is stored before the first reading.
LEMMA StampInit == Init => StampInv
<1> SUFFICES ASSUME Init PROVE StampInv
  OBVIOUS
<1>1. \A r \in Rooms : overrides[r] = << >> /\ ledger[r] = << >>
  BY DEF Init
<1>2. \A a \in Actors : captured[a] = Null
  BY DEF Init
<1>3. ActorStamps /\ \A r \in Rooms : StateStamps(r) /\ RowStamps(r)
  BY <1>1, <1>2 DEF ActorStamps, StateStamps, RowStamps
<1> QED
  BY <1>3, LedgerInit DEF StampInv

\* Whatever races, a timestamp and a key tell the rows of a room apart.
LEMMA StampInvariant == Spec => []StampInv
BY StampInit, StampStep, PTL DEF Spec

\* At most one state of a room is the latest.
LEMMA LatestStateOne ==
  ASSUME StampInv, NEW r \in Rooms,
         NEW x \in latest_room_state(ledger[r]), NEW y \in latest_room_state(ledger[r])
  PROVE  x = y
<1>1. CASE ledger[r] = << >>
  BY <1>1 DEF latest_room_state
<1>2. CASE ledger[r] # << >>
  <2>1. PICK i \in DOMAIN ledger[r] :
          x = ledger[r][i] /\ \A k \in DOMAIN ledger[r] : ledger[r][k].at <= ledger[r][i].at
    BY <1>2 DEF latest_room_state
  <2>2. PICK j \in DOMAIN ledger[r] :
          y = ledger[r][j] /\ \A k \in DOMAIN ledger[r] : ledger[r][k].at <= ledger[r][j].at
    BY <1>2 DEF latest_room_state
  <2>3. ledger[r][i].at \in Nat /\ ledger[r][j].at \in Nat
    BY StampTypes DEF StampInv, LedgerInv
  <2>4. ledger[r][i].at <= ledger[r][j].at /\ ledger[r][j].at <= ledger[r][i].at
    BY <2>1, <2>2
  <2>5. ledger[r][i].at = ledger[r][j].at
    BY <2>3, <2>4
  <2>6. i = j
    BY <2>5 DEF StampInv, StateStamps
  <2> QED
    BY <2>1, <2>2, <2>6
<1> QED
  BY <1>1, <1>2

\* At most one override row of a room is the latest.
LEMMA LatestOverrideOne ==
  ASSUME StampInv, NEW r \in Rooms,
         NEW x \in latest_override_row(overrides[r]), NEW y \in latest_override_row(overrides[r])
  PROVE  x = y
<1> DEFINE q == overrides[r]
           Before(j, i) == \/ q[j].starts_at < q[i].starts_at
                           \/ q[j].starts_at = q[i].starts_at /\ q[j].uid <= q[i].uid
<1>1. CASE q = << >>
  BY <1>1 DEF latest_override_row
<1>2. CASE q # << >>
  <2>1. PICK i \in DOMAIN q : x = q[i] /\ \A k \in DOMAIN q : Before(k, i)
    BY <1>2 DEF latest_override_row
  <2>2. PICK j \in DOMAIN q : y = q[j] /\ \A k \in DOMAIN q : Before(k, j)
    BY <1>2 DEF latest_override_row
  <2>3. /\ q[i].starts_at \in Nat /\ q[j].starts_at \in Nat
        /\ q[i].uid \in Int /\ q[j].uid \in Int
    BY StampTypes DEF StampInv, LedgerInv
  <2>4. Before(i, j) /\ Before(j, i)
    BY <2>1, <2>2
  <2>5. q[i].starts_at = q[j].starts_at /\ q[i].uid = q[j].uid
    BY <2>3, <2>4
  <2>6. i = j
    BY <2>5 DEF StampInv, RowStamps, Apart
  <2> QED
    BY <2>1, <2>2, <2>6
<1> QED
  BY <1>1, <1>2

\* A state with a later timestamp than all others is the latest.
LEMMA NewStateLatest ==
  ASSUME NEW q \in Seq(RoomState), NEW s \in RoomState, \A i \in DOMAIN q : q[i].at < s.at,
         NEW x \in latest_room_state(Append(q, s))
  PROVE  x = s
<1> DEFINE p == Append(q, s)
<1>1. Grown(q, p, s)
  BY AppendGrows
<1>2. Len(q) + 1 \in DOMAIN p /\ p[Len(q) + 1] = s /\ p # << >>
  BY <1>1 DEF Grown
<1>3. PICK i \in DOMAIN p : x = p[i] /\ \A k \in DOMAIN p : p[k].at <= p[i].at
  BY <1>2 DEF latest_room_state
<1>4. s.at <= p[i].at
  BY <1>2, <1>3
<1>5. ASSUME i \in DOMAIN q PROVE FALSE
  <2>1. p[i] = q[i] /\ q[i] \in RoomState
    BY <1>1, <1>5 DEF Grown
  <2>2. q[i].at \in Nat /\ s.at \in Nat /\ q[i].at < s.at
    BY <1>5, <2>1 DEF RoomState
  <2>3. ~(s.at <= q[i].at)
    BY <2>2
  <2> QED
    BY <1>4, <2>1, <2>3
<1>6. i = Len(q) + 1
  BY <1>1, <1>5 DEF Grown
<1> QED
  BY <1>2, <1>3, <1>6

\* So is an override row.
LEMMA NewRowLatest ==
  ASSUME NEW q \in Seq(RoomPolicyOverride), NEW o \in RoomPolicyOverride,
         \A i \in DOMAIN q : q[i].starts_at < o.starts_at,
         NEW x \in latest_override_row(Append(q, o))
  PROVE  x = o
<1> DEFINE p == Append(q, o)
<1>1. Grown(q, p, o)
  BY AppendGrows
<1>2. Len(q) + 1 \in DOMAIN p /\ p[Len(q) + 1] = o /\ p # << >>
  BY <1>1 DEF Grown
<1>3. PICK i \in DOMAIN p :
        /\ x = p[i]
        /\ \A k \in DOMAIN p :
             \/ p[k].starts_at < p[i].starts_at
             \/ p[k].starts_at = p[i].starts_at /\ p[k].uid <= p[i].uid
  BY <1>2 DEF latest_override_row
<1>4. o.starts_at < p[i].starts_at \/ o.starts_at = p[i].starts_at
  BY <1>2, <1>3
<1>5. ASSUME i \in DOMAIN q PROVE FALSE
  <2>1. p[i] = q[i] /\ q[i] \in RoomPolicyOverride
    BY <1>1, <1>5 DEF Grown
  <2>2. q[i].starts_at \in Nat /\ o.starts_at \in Nat /\ q[i].starts_at < o.starts_at
    BY <1>5, <2>1 DEF RoomPolicyOverride
  <2>3. ~(o.starts_at < q[i].starts_at) /\ o.starts_at # q[i].starts_at
    BY <2>2
  <2> QED
    BY <1>4, <2>1, <2>3
<1>6. i = Len(q) + 1
  BY <1>1, <1>5 DEF Grown
<1> QED
  BY <1>2, <1>3, <1>6

-----------------------------------------------------------------------------
(* What a tick or a poll leaves behind is settled.                         *)

\* A row that ends an override leads to the evaluation that ended it.
LEMMA EndedEvaluation ==
  ASSUME NEW r \in Rooms, NEW B, NEW t, NEW o, NEW e, e.control_mode = "automatic",
         NEW st \in evaluate_room(r, B, t, o), st.phase # "manual_override"
  PROVE  st \in evaluate_room(r, B, t, e)
<1> DEFINE C == active_bookings_for_room(r, B, date(t))
<1>1. ASSUME NEW b, evaluate_selected(b, t, o).phase # "manual_override"
      PROVE  evaluate_selected(b, t, o) = evaluate_selected(b, t, e)
  <2>1. ~override_governs(o, b, t)
    BY <1>1 DEF evaluate_selected, RoomStateEvaluation
  <2>2. ~override_governs(e, b, t)
    BY DEF override_governs, override_row_is_active
  <2> QED
    BY <2>1, <2>2 DEF evaluate_selected
<1>2. CASE st \in {evaluate_selected(b, t, o) : b \in select_relevant_booking(C)}
  <2>1. PICK b \in select_relevant_booking(C) : st = evaluate_selected(b, t, o)
    BY <1>2
  <2>2. st = evaluate_selected(b, t, e)
    BY <1>1, <2>1
  <2>3. \/ evaluate_room(r, B, t, o) = evaluate_room(r, B, t, e)
        \/ evaluate_room(r, B, t, e) =
             {evaluate_selected(c, t, e) : c \in select_relevant_booking(C)}
    BY DEF evaluate_room
  <2> QED
    BY <2>1, <2>2, <2>3
<1>3. CASE st \notin {evaluate_selected(b, t, o) : b \in select_relevant_booking(C)}
  <2>1. evaluate_room(r, B, t, o) # {evaluate_selected(b, t, o) : b \in select_relevant_booking(C)}
    BY <1>3
  <2>2. evaluate_room(r, B, t, o) = evaluate_room(r, B, t, e)
    BY <2>1 DEF evaluate_room
  <2> QED
    BY <2>2
<1> QED
  BY <1>2, <1>3

\* Only a manual state's intent depends on the override row.
LEMMA SameIntent ==
  ASSUME NEW st \in Evaluation, st.phase # "manual_override", NEW o, NEW e
  PROVE  derive_room_intent(st, e) = derive_room_intent(st, o)
<1>1. CASE st.phase \in SUPPRESS_AUTOMATION_PHASES
  BY <1>1 DEF derive_room_intent, SUPPRESS_AUTOMATION_PHASES
<1>2. CASE st.phase = "vacant"
  BY <1>2 DEF derive_room_intent, SUPPRESS_AUTOMATION_PHASES
<1>3. CASE st.phase = "pre_arrival"
  BY <1>3 DEF derive_room_intent, SUPPRESS_AUTOMATION_PHASES
<1>4. CASE st.phase = "reserved"
  BY <1>4 DEF derive_room_intent, SUPPRESS_AUTOMATION_PHASES
<1>5. CASE st.phase \in {"occupied", "checkout_due"}
  BY <1>5 DEF derive_room_intent, SUPPRESS_AUTOMATION_PHASES
<1>6. st.phase \in AutomationPhase
  BY DEF Evaluation
<1> QED
  BY <1>1, <1>2, <1>3, <1>4, <1>5, <1>6 DEF AutomationPhase, SUPPRESS_AUTOMATION_PHASES

\* Settled, for the tables a step leaves behind and the bookings B.
SettledAfter(r, B, t) ==
  \A last \in latest_room_state(ledger'[r]), o \in latest_override_row(overrides'[r]) :
    /\ last # Null
    /\ \E st \in evaluate_room(r, B, t, o) :
         last.hash = room_state_hash(st, derive_room_intent(st, o))
    /\ o # Null => o.control_mode = "automatic" \/ last.hash.phase = "manual_override"

\* What recalculating a room that nobody has written with a later timestamp
\* leaves behind is settled: whether it stores a state or keeps the last one,
\* and whether or not it ends the override.
LEMMA SettledRoom ==
  ASSUME StampInv, NEW r \in Rooms, NEW B \in Bookings, NEW t \in Nat, Fresh(r, t),
         Recalculated(r, B, t)
  PROVE  SettledAfter(r, B, t)
<1>t. TypeOK /\ ledger[r] \in Seq(RoomState) /\ overrides[r] \in Seq(RoomPolicyOverride)
  BY StampTypes DEF StampInv, LedgerInv
<1>1. PICK o \in latest_override_row(overrides[r]) :
        \E st \in evaluate_room(r, B, t, o), last \in latest_room_state(ledger[r]),
           ranks \in EndRanks(r, t) :
          /\ overrides'[r] =
               overrides[r] \o recalculated(st, derive_room_intent(st, o), o, last, t, ranks).end
          /\ ledger'[r] =
               ledger[r] \o recalculated(st, derive_room_intent(st, o), o, last, t, ranks).state
  BY DEF Recalculated
<1>2. PICK st \in evaluate_room(r, B, t, o), last \in latest_room_state(ledger[r]),
           ranks \in EndRanks(r, t) :
        /\ overrides'[r] =
             overrides[r] \o recalculated(st, derive_room_intent(st, o), o, last, t, ranks).end
        /\ ledger'[r] =
             ledger[r] \o recalculated(st, derive_room_intent(st, o), o, last, t, ranks).state
  BY <1>1
<1> DEFINE hash == room_state_hash(st, derive_room_intent(st, o))
           new  == [at |-> t, version |-> next_intent_version(last), hash |-> hash,
                    from |-> derive_room_intent(st, o).from]
<1>3. overrides'[r] = overrides[r] \o (IF ends_override(o, st) THEN <<end_row(t, ranks)>> ELSE << >>)
  BY <1>2 DEF recalculated
<1>4. ledger'[r] = ledger[r] \o (IF last # Null /\ last.hash = hash THEN << >> ELSE <<new>>)
  BY <1>2 DEF recalculated
<1>5. hash.phase = st.phase
  BY DEF room_state_hash
<1>6. new \in RoomState
  <2>1. o \in OverrideOrNull
    BY <1>t, LatestOverrideTypes
  <2>2. st \in Evaluation /\ (st.phase = "manual_override" => o # Null)
    BY <2>1, EvaluationTypes
  <2>3. derive_room_intent(st, o) \in Intent /\ derive_room_intent(st, o).from \in Int
    BY <2>1, <2>2, IntentTypes
  <2>4. hash \in StateHash
    BY <2>2, <2>3, HashTypes
  <2>5. next_intent_version(last) \in Nat
    <3>1. last \in RoomState \cup {Null}
      BY <1>t, LatestStateTypes
    <3> QED
      BY <3>1 DEF next_intent_version, RoomState
  <2> HIDE DEF hash
  <2> QED
    BY <2>3, <2>4, <2>5 DEF RoomState
<1>7. new.hash = hash /\ new.at = t
  OBVIOUS
<1> HIDE DEF hash, new
\* the state
<1>8. ASSUME NEW x \in latest_room_state(ledger'[r]) PROVE x # Null /\ x.hash = hash
  <2>1. CASE last # Null /\ last.hash = hash
    <3>1. ledger'[r] = ledger[r]
      BY <1>t, <1>4, <2>1
    <3>2. x = last
      BY <1>8, <3>1, LatestStateOne
    <3> QED
      BY <2>1, <3>2
  <2>2. CASE ~(last # Null /\ last.hash = hash)
    <3>1. ledger'[r] = Append(ledger[r], new)
      BY <1>t, <1>4, <1>6, <2>2, Concatenation
    <3>2. \A i \in DOMAIN ledger[r] : ledger[r][i].at < new.at
      BY <1>7 DEF Fresh
    <3>3. x = new
      BY <1>t, <1>6, <1>8, <3>1, <3>2, NewStateLatest
    <3> QED
      BY <1>6, <1>7, <3>3, NullAssumption
  <2> QED
    BY <2>1, <2>2
\* the override
<1>9. ASSUME NEW y \in latest_override_row(overrides'[r])
      PROVE  /\ \E s \in evaluate_room(r, B, t, y) :
                  hash = room_state_hash(s, derive_room_intent(s, y))
             /\ y # Null => y.control_mode = "automatic" \/ hash.phase = "manual_override"
  <2>1. CASE ends_override(o, st)
    <3> DEFINE e == end_row(t, ranks)
    <3>1. e \in RoomPolicyOverride /\ e.control_mode = "automatic" /\ e.starts_at = t
      <4>1. ranks \in Ranks \X Ranks
        BY DEF EndRanks, Ranks
      <4>2. e \in RoomPolicyOverride
        BY <4>1, EndRowTypes
      <4> QED
        BY <4>2 DEF end_row
    <3>2. overrides'[r] = overrides[r] \o <<e>>
      BY <1>3, <2>1
    <3> HIDE DEF e
    <3>3. overrides'[r] = Append(overrides[r], e)
      BY <1>t, <3>1, <3>2, Concatenation
    <3>4. \A i \in DOMAIN overrides[r] : overrides[r][i].starts_at < e.starts_at
      BY <3>1 DEF Fresh
    <3>5. y = e
      BY <1>t, <1>9, <3>1, <3>3, <3>4, NewRowLatest
    <3>6. st.phase # "manual_override"
      BY <2>1 DEF ends_override
    <3>7. st \in evaluate_room(r, B, t, e)
      BY <3>1, <3>6, EndedEvaluation
    <3>8. derive_room_intent(st, e) = derive_room_intent(st, o)
      BY <1>t, <3>6, LatestOverrideTypes, EvaluationTypes, SameIntent
    <3> QED
      BY <3>1, <3>5, <3>7, <3>8 DEF hash
  <2>2. CASE ~ends_override(o, st)
    <3>1. overrides'[r] = overrides[r]
      BY <1>t, <1>3, <2>2
    <3>2. y = o
      BY <1>9, <3>1, LatestOverrideOne
    <3>3. o # Null => o.control_mode = "automatic" \/ hash.phase = "manual_override"
      BY <1>5, <2>2 DEF ends_override
    <3> QED
      BY <3>2, <3>3 DEF hash
  <2> QED
    BY <2>1, <2>2
<1> QED
  BY <1>8, <1>9 DEF SettledAfter

\* A recalculation on stays of at least a night is never rolled back.
LEMMA Recalculates ==
  ASSUME ValidInv, NEW R \in SUBSET Rooms, NEW B \in Bookings, \A b \in B : Nights(b),
         NEW rows, NEW t \in Nat, recalculate_rooms(R, B, rows, t)
  PROVE  bookings' = rows /\ \A r \in R : Recalculated(r, B, t)
<1>1. \A r \in R : \A x \in room_outcomes(r, B, t) : x.valid
  BY OutcomeValid
<1> QED
  BY <1>1, RecalculatedRooms

\* A policy tick that no later-stamped transaction overtook leaves every room
\* in the state its bookings and its override call for, and returns overrides
\* that ran out to automatic: for every feed of stays of at least a night.
THEOREM SettledByTick ==
  ASSUME NightsFed
  PROVE  Spec => TickSettles
<1>1. ASSUME ValidInv, StampInv, NEW r \in Rooms, PolicyTick, Fresh(r, captured["policy"])
      PROVE  \A t \in {captured["policy"]} : Settled(r, t)'
  <2>1. PICK t \in Nat : t = captured["policy"]
    BY <1>1 DEF PolicyTick, ValidInv, LedgerInv, TypeOK, Actors
  <2>2. PICK B : B = Stored(bookings)
    OBVIOUS
  <2>3. PICK rows : rows = bookings
    OBVIOUS
  <2>4. recalculate_rooms(Rooms, B, rows, t)
    BY <1>1, <2>1, <2>2, <2>3 DEF PolicyTick
  <2>5. B \in Bookings /\ \A b \in B : Nights(b)
    BY <1>1, <2>2, StoredNights
  <2>6. bookings' = rows /\ Recalculated(r, B, t)
    BY <1>1, <2>4, <2>5, Recalculates
  <2>7. SettledAfter(r, B, t)
    BY <1>1, <2>1, <2>5, <2>6, SettledRoom
  <2>8. B = Stored(bookings')
    BY <2>2, <2>3, <2>6
  <2>9. Settled(r, t)'
    BY <2>7, <2>8 DEF Settled, SettledAfter
  <2> QED
    BY <2>1, <2>9
<1>2. ValidInv /\ StampInv /\ [Next]_vars =>
        [\A r \in Rooms, t \in {captured["policy"]} :
           PolicyTick /\ Fresh(r, t) => Settled(r, t)']_vars
  BY <1>1
<1> QED
  BY <1>2, StampInvariant, ValidInvariant, PTL DEF Spec, TickSettles

\* The last booking of the batch has the assignment it had before, so that the
\* assignments the recalculation reads are those it stores.
LastUnmoved(batch, last) ==
  bookings[last] # Null /\ SameAssignment(bookings[last], batch[last])

\* Then it reads what it stores.
LEMMA LoadedUnmoved ==
  ASSUME TypeOK, NEW batch \in Batches, NEW last \in DOMAIN batch, LastUnmoved(batch, last)
  PROVE  loaded(batch, last) = Stored(upserted(batch))
<1> DEFINE u   == upserted(batch)
           old == bookings[last]
           rid == IF old = Null THEN Null ELSE old.roomId
           num == IF old = Null THEN Null ELSE old.roomNumber
<1>1. /\ u = [b \in BookingIds |-> IF b \in DOMAIN batch THEN batch[b] ELSE bookings[b]]
      /\ last \in BookingIds /\ batch[last] \in NormalizedBooking
  BY LedgerAssumption DEF Batches, upserted
<1>2. u[last] = batch[last] /\ rid = batch[last].roomId /\ num = batch[last].roomNumber
  BY <1>1 DEF LastUnmoved, SameAssignment
<1>3. [u EXCEPT ![last].roomId = rid, ![last].roomNumber = num] = u
  <2>1. [[batch[last] EXCEPT !.roomId = rid] EXCEPT !.roomNumber = num] = batch[last]
    BY <1>1, <1>2 DEF NormalizedBooking
  <2> HIDE DEF rid, num
  <2>2. [u EXCEPT ![last].roomId = rid, ![last].roomNumber = num] =
          [u EXCEPT ![last] = [[batch[last] EXCEPT !.roomId = rid] EXCEPT !.roomNumber = num]]
    BY <1>1, <1>2
  <2>3. [u EXCEPT ![last] = u[last]] = u
    BY <1>1
  <2> QED
    BY <1>2, <2>1, <2>2, <2>3
<1> QED
  BY <1>3 DEF loaded

\* What a poll stores is of at least a night.
LEMMA UpsertedNights ==
  ASSUME NightsFed, ValidInv, NEW batch \in Batches
  PROVE  \A b \in Stored(upserted(batch)) : Nights(b)
<1>1. \A b \in DOMAIN batch : batch[b] \in Feed
  BY DEF Batches
<1> QED
  BY <1>1 DEF upserted, Stored, NightsFed, ValidInv, NightsStored

\* After a sync that no later-stamped transaction overtook and whose last booking
\* keeps its assignment, every room that a new or changed booking is assigned to
\* is in the state its bookings and its override call for.
UnmovedSyncSettles ==
  [][\A r \in Rooms, t \in {captured["sync"]}, batch \in Batches :
       \A last \in DOMAIN batch, touched \in SUBSET {b \in DOMAIN batch : batch[b] = bookings[b]} :
         /\ ApplySyncResult(batch, last, touched) /\ Fresh(r, t) /\ LastUnmoved(batch, last)
         /\ \E b \in Stored(bookings)' \ Stored(bookings) : r \in resolve_room(b)
         => Settled(r, t)']_vars

\* Without a later-stamped transaction, then, SyncSettles fails only when the
\* last booking of the batch is new or has changed its assignment, which its
\* session has not flushed.
THEOREM SettledBySync ==
  ASSUME NightsFed
  PROVE  Spec => UnmovedSyncSettles
<1>1. ASSUME ValidInv, StampInv, NEW r \in Rooms, NEW batch \in Batches, NEW last \in DOMAIN batch,
             NEW touched, ApplySyncResult(batch, last, touched), Fresh(r, captured["sync"]),
             LastUnmoved(batch, last),
             NEW c \in Stored(bookings)' \ Stored(bookings), r \in resolve_room(c)
      PROVE  \A t \in {captured["sync"]} : Settled(r, t)'
  <2> DEFINE R == UNION {affected_rooms(bookings[b], batch[b], b \in touched) : b \in DOMAIN batch}
  <2>0. TypeOK
    BY <1>1 DEF ValidInv, LedgerInv
  <2>1. PICK t \in Nat : t = captured["sync"]
    BY <1>1, <2>0 DEF ApplySyncResult, TypeOK, Actors
  <2>2. PICK B : B = loaded(batch, last)
    OBVIOUS
  <2>3. PICK rows : rows = upserted(batch)
    OBVIOUS
  <2>4. PICK Q : Q = R
    OBVIOUS
  <2>5. recalculate_rooms(Q, B, rows, t)
    BY <1>1, <2>1, <2>2, <2>3, <2>4 DEF ApplySyncResult
  <2>6. B = Stored(rows)
    BY <1>1, <2>0, <2>2, <2>3, LoadedUnmoved
  <2>7. Q \in SUBSET Rooms /\ B \in Bookings /\ \A b \in B : Nights(b)
    BY <1>1, <2>0, <2>2, <2>3, <2>4, <2>6, SyncInputs, UpsertedNights
  <2>8. bookings' = rows /\ \A q \in Q : Recalculated(q, B, t)
    BY <1>1, <2>5, <2>7, Recalculates
  <2>9. r \in Q
    <3>1. c \in Stored(rows) /\ c \notin Stored(bookings)
      BY <2>8 DEF Stored
    <3>2. PICK k \in BookingIds : c = rows[k] /\ c # Null
      BY <3>1 DEF Stored
    <3>3. k \in DOMAIN batch /\ c = batch[k] /\ bookings[k] # batch[k]
      BY <2>3, <3>1, <3>2 DEF upserted, Stored
    <3>4. r \in affected_rooms(bookings[k], batch[k], k \in touched)
      BY <1>1, <3>3 DEF affected_rooms
    <3> QED
      BY <2>4, <3>3, <3>4
  <2>10. SettledAfter(r, B, t)
    BY <1>1, <2>1, <2>7, <2>8, <2>9, SettledRoom
  <2>11. Settled(r, t)'
    BY <2>6, <2>8, <2>10 DEF Settled, SettledAfter
  <2> QED
    BY <2>1, <2>11
<1>2. ValidInv /\ StampInv /\ [Next]_vars =>
        [\A r \in Rooms, t \in {captured["sync"]}, batch \in Batches :
           \A last \in DOMAIN batch,
              touched \in SUBSET {b \in DOMAIN batch : batch[b] = bookings[b]} :
             /\ ApplySyncResult(batch, last, touched) /\ Fresh(r, t) /\ LastUnmoved(batch, last)
             /\ \E b \in Stored(bookings)' \ Stored(bookings) : r \in resolve_room(b)
             => Settled(r, t)']_vars
  BY <1>1
<1> QED
  BY <1>2, StampInvariant, ValidInvariant, PTL DEF Spec, UnmovedSyncSettles

-----------------------------------------------------------------------------
(* What ORDER BY created_at DESC, id DESC LIMIT 1 finds.                   *)

\* A room's states differ in their timestamps, so the time alone finds the latest.
StatesApart(r) ==
  \A i, j \in DOMAIN ledger[r] : ledger[r][i].at = ledger[r][j].at => i = j

\* Override rows share a timestamp in pairs only: a command's row, and the
\* automatic row that its own evaluation added.
RowsPaired(r) ==
  \A i, j \in DOMAIN overrides[r] :
    i < j /\ overrides[r][i].starts_at = overrides[r][j].starts_at =>
      /\ overrides[r][i].created_by = "home_assistant_mqtt"
      /\ overrides[r][j].created_by = "policy_scheduler"
      /\ \A k \in DOMAIN overrides[r] :
           overrides[r][k].starts_at = overrides[r][i].starts_at => k \in {i, j}

\* Each query has one answer (before the first row, None): of a pair, the row
\* with the greater random key, which for the state of the room and for its
\* control/state event need not be the same.
OneLatest(r) ==
  /\ \E s \in latest_room_state(ledger[r]) : latest_room_state(ledger[r]) = {s}
  /\ \E o \in latest_override_row(overrides[r]) : latest_override_row(overrides[r]) = {o}
  /\ \A x, y \in last_control_rows(overrides[r]) : x = y

TiesAreEnds == \A r \in Rooms : StatesApart(r) /\ RowsPaired(r) /\ OneLatest(r)

SomeLatest(r) == latest_room_state(ledger[r]) # {} /\ latest_override_row(overrides[r]) # {}

\* The later of the latest state and a new one is the latest.
LEMMA LatestStateStays ==
  ASSUME NEW q \in Seq(RoomState), NEW s \in RoomState, latest_room_state(q) # {}
  PROVE  latest_room_state(Append(q, s)) # {}
<1> DEFINE p == Append(q, s)
           n == Len(q) + 1
<1>1. Grown(q, p, s)
  BY AppendGrows
<1>2. /\ \A k \in DOMAIN p : k \in DOMAIN q \/ k = n
      /\ \A k \in DOMAIN q : p[k] = q[k] /\ k \in DOMAIN p
      /\ n \in DOMAIN p /\ p[n] = s /\ p # << >>
  BY <1>1 DEF Grown
<1>3. s.at \in Nat /\ \A k \in DOMAIN q : q[k].at \in Nat
  <2>1. \A k \in DOMAIN q : q[k] \in RoomState
    OBVIOUS
  <2> QED
    BY <2>1 DEF RoomState
<1> HIDE DEF p, n
<1>4. CASE q = << >>
  <2>1. \A k \in DOMAIN p : p[k].at <= p[n].at
    BY <1>2, <1>3, <1>4
  <2> QED
    BY <1>2, <2>1 DEF latest_room_state, p
<1>5. CASE q # << >>
  <2>1. PICK i \in DOMAIN q : \A k \in DOMAIN q : q[k].at <= q[i].at
    BY <1>5 DEF latest_room_state
  <2>2. CASE q[i].at <= s.at
    <3>1. \A k \in DOMAIN p : p[k].at <= p[n].at
      BY <1>2, <1>3, <2>1, <2>2
    <3> QED
      BY <1>2, <3>1 DEF latest_room_state, p
  <2>3. CASE ~(q[i].at <= s.at)
    <3>1. \A k \in DOMAIN p : p[k].at <= p[i].at
      BY <1>2, <1>3, <2>1, <2>3
    <3> QED
      BY <1>2, <3>1 DEF latest_room_state, p
  <2> QED
    BY <2>2, <2>3
<1> QED
  BY <1>4, <1>5

\* So for override rows.
LEMMA LatestRowStays ==
  ASSUME NEW q \in Seq(RoomPolicyOverride), NEW o \in RoomPolicyOverride,
         latest_override_row(q) # {}
  PROVE  latest_override_row(Append(q, o)) # {}
<1> DEFINE p == Append(q, o)
           n == Len(q) + 1
           Before(x, y) == \/ x.starts_at < y.starts_at
                           \/ x.starts_at = y.starts_at /\ x.uid <= y.uid
<1>1. Grown(q, p, o)
  BY AppendGrows
<1>2. /\ \A k \in DOMAIN p : k \in DOMAIN q \/ k = n
      /\ \A k \in DOMAIN q : p[k] = q[k] /\ k \in DOMAIN p
      /\ n \in DOMAIN p /\ p[n] = o /\ p # << >>
  BY <1>1 DEF Grown
<1>3. \A x, y, z \in RoomPolicyOverride :
        /\ Before(x, x) /\ (Before(x, y) \/ Before(y, x))
        /\ Before(x, y) /\ Before(y, z) => Before(x, z)
  <2> SUFFICES ASSUME NEW x \in RoomPolicyOverride, NEW y \in RoomPolicyOverride,
                      NEW z \in RoomPolicyOverride
               PROVE  /\ Before(x, x) /\ (Before(x, y) \/ Before(y, x))
                      /\ Before(x, y) /\ Before(y, z) => Before(x, z)
    OBVIOUS
  <2>1. \A w \in {x, y, z} : w.starts_at \in Nat /\ w.uid \in Nat
    BY DEF RoomPolicyOverride, Ranks
  <2> QED
    BY <2>1
<1>4. \A k \in DOMAIN q : q[k] \in RoomPolicyOverride
  OBVIOUS
<1>5. ASSUME NEW i \in DOMAIN p, \A k \in DOMAIN p : Before(p[k], p[i])
      PROVE  latest_override_row(p) # {}
  BY <1>2, <1>5 DEF latest_override_row
<1> HIDE DEF p, n, Before
<1>6. CASE q = << >>
  <2>1. \A k \in DOMAIN p : Before(p[k], p[n])
    BY <1>2, <1>3, <1>6
  <2> QED
    BY <1>2, <1>5, <2>1 DEF p
<1>7. CASE q # << >>
  <2>1. PICK i \in DOMAIN q : \A k \in DOMAIN q : Before(q[k], q[i])
    BY <1>7 DEF latest_override_row, Before
  <2>2. CASE Before(q[i], o)
    <3>1. \A k \in DOMAIN p : Before(p[k], p[n])
      BY <1>2, <1>3, <1>4, <2>1, <2>2
    <3> QED
      BY <1>2, <1>5, <3>1 DEF p
  <2>3. CASE ~Before(q[i], o)
    <3>1. \A k \in DOMAIN p : Before(p[k], p[i])
      BY <1>2, <1>3, <1>4, <2>1, <2>3
    <3> QED
      BY <1>2, <1>5, <3>1 DEF p
  <2> QED
    BY <2>2, <2>3
<1> QED
  BY <1>6, <1>7

\* At most one control/state event of a room is the last one.
LEMMA LastControlOne ==
  ASSUME StampInv, NEW r \in Rooms,
         NEW x \in last_control_rows(overrides[r]), NEW y \in last_control_rows(overrides[r])
  PROVE  x = y
<1> DEFINE q == overrides[r]
           Before(j, i) == \/ q[j].starts_at < q[i].starts_at
                           \/ q[j].starts_at = q[i].starts_at /\ q[j].evid <= q[i].evid
<1>1. PICK i \in DOMAIN q : x = q[i] /\ \A k \in DOMAIN q : Before(k, i)
  BY DEF last_control_rows
<1>2. PICK j \in DOMAIN q : y = q[j] /\ \A k \in DOMAIN q : Before(k, j)
  BY DEF last_control_rows
<1>3. /\ q[i].starts_at \in Nat /\ q[j].starts_at \in Nat
      /\ q[i].evid \in Int /\ q[j].evid \in Int
  <2>1. q[i] \in RoomPolicyOverride /\ q[j] \in RoomPolicyOverride
    BY StampTypes DEF StampInv, LedgerInv
  <2> QED
    BY <2>1 DEF RoomPolicyOverride, Ranks
<1>4. Before(i, j) /\ Before(j, i)
  BY <1>1, <1>2
<1>5. q[i].starts_at = q[j].starts_at /\ q[i].evid = q[j].evid
  BY <1>3, <1>4
<1>6. i = j
  BY <1>5 DEF StampInv, RowStamps, Apart
<1> QED
  BY <1>1, <1>2, <1>6

\* No step empties the set of latest rows.
LEMMA SomeLatestStep ==
  ASSUME LedgerInv, [Next]_vars, NEW r \in Rooms, SomeLatest(r)
  PROVE  SomeLatest(r)'
<1>t. /\ TypeOK /\ RenderableTable /\ overrides \in [Rooms -> Seq(RoomPolicyOverride)]
      /\ ledger[r] \in Seq(RoomState) /\ overrides[r] \in Seq(RoomPolicyOverride)
  BY DEF LedgerInv, TypeOK
<1>1. ASSUME overrides'[r] = overrides[r], ledger'[r] = ledger[r] PROVE SomeLatest(r)'
  BY <1>1 DEF SomeLatest
<1>2. ASSUME NEW R \in SUBSET Rooms, NEW B \in Bookings, NEW rows, NEW t \in Nat,
             recalculate_rooms(R, B, rows, t)
      PROVE  SomeLatest(r)'
  <2>1. OverridesGrow(r, t) /\ LedgerGrows(r, t)
    BY <1>t, <1>2, RecalculationAppends
  <2>2. latest_room_state(ledger'[r]) # {}
    BY <1>t, <2>1, LatestStateStays DEF LedgerGrows, SomeLatest
  <2>3. latest_override_row(overrides'[r]) # {}
    BY <1>t, <1>2, <2>1, LatestRowStays, EndRowTypes DEF OverridesGrow, SomeLatest
  <2> QED
    BY <2>2, <2>3 DEF SomeLatest
<1>3. ASSUME NEW q \in Rooms, NEW c \in Commands, NEW t \in Nat,
             NEW row \in build_override_row(q, c, t),
             overrides' = [overrides EXCEPT ![q] = Append(@, row)], ledger' = ledger
      PROVE  SomeLatest(r)'
  <2>1. row \in RoomPolicyOverride
    BY <1>t, <1>3, CommandRow
  <2>2. overrides'[r] = overrides[r] \/ overrides'[r] = Append(overrides[r], row)
    BY <1>t, <1>3
  <2> QED
    BY <1>t, <1>1, <1>3, <2>1, <2>2, LatestRowStays DEF SomeLatest
<1> QED
  BY <1>t, <1>1, <1>2, <1>3, TableSteps

\* A pair of rows with one timestamp leaves no room for a third.
LEMMA PairedRows ==
  ASSUME StampInv, NEW r \in Rooms
  PROVE  StatesApart(r) /\ RowsPaired(r)
<1> DEFINE q == overrides[r]
<1>1. \A i, j \in DOMAIN q : i < j /\ q[i].starts_at = q[j].starts_at =>
        q[i].created_by = "home_assistant_mqtt" /\ q[j].created_by = "policy_scheduler"
  BY DEF StampInv, RowStamps, Apart
<1>2. DOMAIN q \subseteq Int
  BY StampTypes DEF StampInv, LedgerInv
<1> HIDE DEF q
<1>3. ASSUME NEW i \in DOMAIN q, NEW j \in DOMAIN q, NEW k \in DOMAIN q, i < j,
             q[i].starts_at = q[j].starts_at, q[k].starts_at = q[i].starts_at
      PROVE  k \in {i, j}
  <2>1. /\ q[i].created_by = "home_assistant_mqtt" /\ q[j].created_by = "policy_scheduler"
        /\ k < i => q[i].created_by = "policy_scheduler"
        /\ i < k /\ k < j => q[k].created_by = "policy_scheduler"
        /\ k < j => q[k].created_by = "home_assistant_mqtt"
        /\ j < k => q[j].created_by = "home_assistant_mqtt"
    BY <1>1, <1>3
  <2>2. ~(k < i) /\ ~(j < k) /\ ~(i < k /\ k < j)
    BY <2>1
  <2> QED
    BY <1>2, <2>2
<1> QED
  BY <1>1, <1>3 DEF StampInv, StateStamps, StatesApart, RowsPaired, q

\* Whatever races, two states of a room never share a timestamp; two override rows
\* do only as a command and the end that its own evaluation put to it, and then
\* their random keys decide which of the two is the latest (ControlStale.cfg).
THEOREM LatestRows == Spec => []TiesAreEnds
<1> DEFINE I == StampInv /\ \A r \in Rooms : SomeLatest(r)
<1>1. Init => I
  <2> SUFFICES ASSUME Init PROVE \A r \in Rooms : SomeLatest(r)
    BY StampInit
  <2>1. \A r \in Rooms : overrides[r] = << >> /\ ledger[r] = << >>
    BY DEF Init
  <2> QED
    BY <2>1 DEF SomeLatest, latest_room_state, latest_override_row
<1>2. I /\ [Next]_vars => I'
  BY StampStep, SomeLatestStep DEF StampInv
<1>3. I => TiesAreEnds
  <2> SUFFICES ASSUME I, NEW r \in Rooms PROVE OneLatest(r)
    BY PairedRows DEF TiesAreEnds
  <2>1. PICK s : s \in latest_room_state(ledger[r])
    BY DEF SomeLatest
  <2>2. PICK o : o \in latest_override_row(overrides[r])
    BY DEF SomeLatest
  <2>3. latest_room_state(ledger[r]) = {s}
    BY <2>1, LatestStateOne
  <2>4. latest_override_row(overrides[r]) = {o}
    BY <2>2, LatestOverrideOne
  <2> QED
    BY <2>1, <2>2, <2>3, <2>4, LastControlOne DEF OneLatest
<1> QED
  BY <1>1, <1>2, <1>3, PTL DEF Spec

=============================================================================
