----------------------------- MODULE RoomLedger -----------------------------
(***************************************************************************)
(* The database side of the orchestrator: ClockDbSyncService               *)
(* (app/clock/db_sync.py) and RoomControlCommandService                    *)
(* (app/policy/control.py), as the three actors of app/runtime.py drive    *)
(* them: the policy scheduler, the Clock poll and the MQTT command handler.*)
(*                                                                         *)
(* Every transaction locks the property row first, so a transaction is one *)
(* step.  The timestamp it writes is NOT taken under that lock: each actor *)
(* reads the clock (Begin...), and only later gets the lock and commits.   *)
(* captured[a] is the timestamp actor a holds in between.                  *)
(*                                                                         *)
(* One row of ledger[r] stands for the room_states row, the pms/state      *)
(* event and the intent/state event that _recalculate_rooms adds together; *)
(* one row of overrides[r] for the override row and the control/state      *)
(* event added with it.  Both are in commit order.                         *)
(***************************************************************************)
EXTENDS RoomControl

CONSTANTS
  Commands,   \* the messages Home Assistant may send
  Feed,       \* the normalized bookings a poll may return
  MaxTime     \* bound: no timestamp is taken at or after MaxTime

ASSUME LedgerAssumption ==
  /\ Commands \subseteq Command
  /\ Feed \subseteq NormalizedBooking
  /\ MaxTime \in Nat

VARIABLES
  now,        \* the wall clock
  captured,   \* actor -> the timestamp it works with, or Null
  handling,   \* the room whose accepted command awaits its evaluation, or Null
  bookings,   \* booking id -> its row with its current assignment, or Null
  overrides,  \* room -> rows of room_policy_overrides
  ledger      \* room -> rows of room_states, each with its intent

vars == <<now, captured, handling, bookings, overrides, ledger>>

Actors == {"policy", "sync", "command"}

-----------------------------------------------------------------------------
(* Types.                                                                  *)

Intent ==
  [phase : AutomationPhase, control_mode : ControlMode, enabled : BOOLEAN,
   mode : HvacMode, target : Int \cup {Null}, water : BOOLEAN,
   convectors : BOOLEAN, from : Int \cup {Null}, until : Int \cup {Null}]

StateHash ==
  [phase : AutomationPhase, booking : NormalizedBooking \cup {Null},
   until : Int \cup {Null}, intent : Intent]

RoomState == [at : Nat, version : Nat, hash : StateHash, from : Int]

\* None is not a row.
ASSUME NullAssumption == Null \notin RoomState

\* Type correctness of the tables and of the actors' timestamps.
TypeOK ==
  /\ now \in Nat
  /\ captured \in [Actors -> Nat \cup {Null}]
  /\ handling \in Rooms \cup {Null}
  /\ handling # Null => captured["command"] # Null
  /\ bookings \in [BookingIds -> NormalizedBooking \cup {Null}]
  /\ overrides \in [Rooms -> Seq(RoomPolicyOverride)]
  /\ ledger \in [Rooms -> Seq(RoomState)]

Init ==
  /\ now = 0
  /\ captured = [a \in Actors |-> Null]
  /\ handling = Null
  /\ bookings = [b \in BookingIds |-> Null]
  /\ overrides = [r \in Rooms |-> << >>]
  /\ ledger = [r \in Rooms |-> << >>]

-----------------------------------------------------------------------------
(* Reading the tables.                                                     *)

Stored(rows) == {rows[b] : b \in BookingIds} \ {Null}

\* ORDER BY created_at DESC, id DESC; a room gets at most one row per stamp.
latest_room_state(rows) ==
  IF rows = << >> THEN {Null}
  ELSE {rows[i] : i \in {k \in DOMAIN rows :
                            \A j \in DOMAIN rows : rows[j].at <= rows[k].at}}

\* Mutant: the version is not advanced.
next_intent_version_Same(last) == IF last = Null THEN 1 ELSE last.version

next_intent_version(last) == IF last = Null THEN 1 ELSE last.version + 1

\* _room_state_hash: what a state means, without the moment it starts at.
room_state_hash(st, intent) ==
  [phase |-> st.phase, booking |-> st.booking, until |-> st.until,
   intent |-> [intent EXCEPT !.from = Null]]

\* The booking an until-checkout override may be tied to: that of the latest
\* state, while its checkout lies ahead.
current_booking_boundary(r, t) ==
  {b \in Stored(bookings) :
     /\ checkout_at(b) > t
     /\ \E last \in latest_room_state(ledger[r]) \ {Null} :
          /\ last.hash.booking # Null
          /\ last.hash.booking.id = b.id
          /\ last.hash.phase \in {"manual_override", "occupied", "pre_arrival", "reserved"}}

-----------------------------------------------------------------------------
(* _recalculate_rooms.                                                     *)

\* Mutant: only manual overrides are ended.
ends_override_ManualOnly(o, st) ==
  o # Null /\ o.control_mode = "manual" /\ st.phase # "manual_override"

\* _end_inactive_override_if_needed
ends_override(o, st) ==
  o # Null /\ o.control_mode # "automatic" /\ st.phase # "manual_override"

\* The keys of an end row and of its event: their order matters only when a
\* row with the same timestamp exists.
EndRanks(r, t) ==
  IF \E i \in DOMAIN overrides[r] : overrides[r][i].starts_at = t
  THEN {0, 2} \X {0, 2} ELSE {<<1, 1>>}

\* Mutant: a state is stored even when nothing changed.
recalculated_Always(st, intent, o, last, t, ranks) ==
  [valid |-> valid_intent(intent),
   end   |-> IF ends_override(o, st) THEN <<end_row(t, ranks)>> ELSE << >>,
   state |-> <<[at |-> t, version |-> next_intent_version(last),
                hash |-> room_state_hash(st, intent), from |-> intent.from]>>]

recalculated(st, intent, o, last, t, ranks) ==
  LET hash == room_state_hash(st, intent)
  IN  [valid |-> valid_intent(intent),
       end   |-> IF ends_override(o, st) THEN <<end_row(t, ranks)>> ELSE << >>,
       state |-> IF last # Null /\ last.hash = hash THEN << >>
                 ELSE <<[at |-> t, version |-> next_intent_version(last),
                         hash |-> hash, from |-> intent.from]>>]

\* Everything the evaluation of room r on the bookings B may come to.
room_outcomes(r, B, t) ==
  UNION {UNION {{recalculated(st, derive_room_intent(st, o), o, last, t, ranks) :
                   last \in latest_room_state(ledger[r]), ranks \in EndRanks(r, t)} :
                   st \in evaluate_room(r, B, t, o)} :
                   o \in latest_override_row(overrides[r])}

Outcomes(R, B, t) ==
  {f \in [R -> UNION {room_outcomes(r, B, t) : r \in R}] :
     \A r \in R : f[r] \in room_outcomes(r, B, t)}

Appended(tables, rows) ==
  [r \in Rooms |-> IF r \in DOMAIN rows THEN tables[r] \o rows[r] ELSE tables[r]]

\* Re-evaluate the rooms R on the bookings B and, with them, store the table
\* `rows`.  An intent that its validators refuse raises out of the loop, and
\* the whole transaction rolls back.
recalculate_rooms(R, B, rows, t) ==
  \E f \in Outcomes(R, B, t) :
    \/ /\ \A r \in R : f[r].valid
       /\ overrides' = Appended(overrides, [r \in R |-> f[r].end])
       /\ ledger' = Appended(ledger, [r \in R |-> f[r].state])
       /\ bookings' = rows
    \/ /\ \E r \in R : ~f[r].valid
       /\ UNCHANGED <<overrides, ledger, bookings>>

-----------------------------------------------------------------------------
(* The actors read the clock.  Two readings never give the same instant.   *)

Capture(a) ==
  /\ captured[a] = Null
  /\ now < MaxTime
  /\ captured' = [captured EXCEPT ![a] = now]
  /\ now' = now + 1
  /\ UNCHANGED <<handling, bookings, overrides, ledger>>

Release(a) == captured' = [captured EXCEPT ![a] = Null]

\* The scheduler and the poll run in the event loop; a policy tick does not
\* await, so the poll makes no step between the tick's reading and its commit.
BeginPolicy == Capture("policy")
BeginSync == captured["policy"] = Null /\ Capture("sync")
BeginCommand == Capture("command")

Elapse ==
  /\ now < MaxTime
  /\ now' = now + 1
  /\ UNCHANGED <<captured, handling, bookings, overrides, ledger>>

-----------------------------------------------------------------------------
(* run_policy_once -> evaluate_all_rooms                                   *)

PolicyTick ==
  /\ captured["policy"] # Null
  /\ recalculate_rooms(Rooms, Stored(bookings), bookings, captured["policy"])
  /\ Release("policy")
  /\ UNCHANGED <<now, handling>>

-----------------------------------------------------------------------------
(* run_sync_once -> poll_once -> apply_sync_result                         *)

resolve_room(b) ==
  LET byId == {r \in Rooms : b.roomId # Null /\ clock_room_id[r] = b.roomId}
  IN  IF byId # {} THEN byId ELSE {r \in Rooms : b.roomNumber = r}

SameAssignment(a, b) == a.roomId = b.roomId /\ a.roomNumber = b.roomNumber

\* _sync_assignment and the caller: the rooms that storing `new` over `old`
\* touches.  `touched` says the raw payload changed in a field not modelled.
affected_rooms(old, new, touched) ==
  LET before == IF old = Null THEN {} ELSE resolve_room(old)
      after  == resolve_room(new)
  IN  (IF old # Null /\ SameAssignment(old, new) THEN {} ELSE before \cup after)
        \cup (IF old # new \/ touched THEN after ELSE {})

upserted(batch) ==
  [b \in BookingIds |-> IF b \in DOMAIN batch THEN batch[b] ELSE bookings[b]]

\* The rows the recalculation reads.  Sessions do not autoflush, and only the
\* upsert of a later booking flushes an assignment, so that of the last
\* booking of the batch is read as it was before.
loaded(batch, last) ==
  LET old == bookings[last]
  IN  Stored([upserted(batch) EXCEPT
        ![last].roomId = IF old = Null THEN Null ELSE old.roomId,
        ![last].roomNumber = IF old = Null THEN Null ELSE old.roomNumber])

Batches == UNION {{f \in [S -> Feed] : \A b \in S : f[b].id = b} :
                    S \in SUBSET BookingIds \ {{}}}

ApplySyncResult(batch, last, touched) ==
  /\ captured["sync"] # Null
  /\ captured["policy"] = Null
  /\ recalculate_rooms(
       UNION {affected_rooms(bookings[b], batch[b], b \in touched) : b \in DOMAIN batch},
       loaded(batch, last), upserted(batch), captured["sync"])
  /\ Release("sync")
  /\ UNCHANGED <<now, handling>>

SyncBatch ==
  \E batch \in Batches :
    \E last \in DOMAIN batch,
       touched \in SUBSET {b \in DOMAIN batch : batch[b] = bookings[b]} :
      ApplySyncResult(batch, last, touched)

\* The poll fails, or returns nothing: no booking and no room is written.
SyncEmpty ==
  /\ captured["sync"] # Null
  /\ captured["policy"] = Null
  /\ Release("sync")
  /\ UNCHANGED <<now, handling, bookings, overrides, ledger>>

-----------------------------------------------------------------------------
(* handle_control_message: one transaction stores the command, a second    *)
(* one, with the same timestamp, evaluates the room.                       *)

\* The override rows the command may be stored as; none means it is rejected.
build_override_row(r, c, t) ==
  LET drafts == UNION {command_drafts(current_draft(o, t), c) :
                         o \in latest_override_row(overrides[r])}
      tied(d) == d.control_mode # "automatic" /\ d.duration = "until_checkout"
  IN  {override_row(d, t, Null, <<1, 1>>) : d \in {x \in drafts : ~tied(x)}}
        \cup {override_row(d, t, b, <<1, 1>>) :
                d \in {x \in drafts : tied(x)}, b \in current_booking_boundary(r, t)}

AcceptCommand(r, c) ==
  /\ captured["command"] # Null
  /\ handling = Null
  /\ \E row \in build_override_row(r, c, captured["command"]) :
       overrides' = [overrides EXCEPT ![r] = Append(@, row)]
  /\ handling' = r
  /\ UNCHANGED <<now, captured, bookings, ledger>>

RejectCommand(r, c) ==
  /\ captured["command"] # Null
  /\ handling = Null
  /\ build_override_row(r, c, captured["command"]) = {}
  /\ Release("command")
  /\ UNCHANGED <<now, handling, bookings, overrides, ledger>>

CommandArrives == \E r \in Rooms, c \in Commands : AcceptCommand(r, c) \/ RejectCommand(r, c)

\* Mutant: the handler forgets its timestamp before it is done.
EvaluateCommand_StillHandling ==
  /\ handling # Null
  /\ recalculate_rooms({handling}, Stored(bookings), bookings, captured["command"])
  /\ Release("command")
  /\ UNCHANGED <<now, handling>>

EvaluateCommand ==
  /\ handling # Null
  /\ recalculate_rooms({handling}, Stored(bookings), bookings, captured["command"])
  /\ Release("command")
  /\ handling' = Null
  /\ UNCHANGED now

-----------------------------------------------------------------------------
\* The process dies and restarts: what was committed stays.
Restart ==
  /\ captured' = [a \in Actors |-> Null]
  /\ handling' = Null
  /\ UNCHANGED <<now, bookings, overrides, ledger>>

Next ==
  \/ BeginPolicy \/ BeginSync \/ BeginCommand \/ Elapse
  \/ PolicyTick
  \/ SyncBatch \/ SyncEmpty
  \/ CommandArrives \/ EvaluateCommand
  \/ Restart

Spec == Init /\ [][Next]_vars

-----------------------------------------------------------------------------
(* Properties.                                                             *)

\* Every override row can be turned into an intent: it names a temperature
\* exactly when it asks for heating or cooling, and one within the policy's
\* bounds.  _build_override_row composes a row from the previous one, so a
\* sequence of commands could drift away from this, and a single bad row makes
\* HvacIntent raise in every later evaluation of every room.
RowsRenderable ==
  \A r \in Rooms : \A i \in DOMAIN overrides[r] :
    LET o == overrides[r][i]
    IN  /\ o.hvac_mode = "off" <=> o.target = Null
        /\ o.target # Null => MinTarget <= o.target /\ o.target <= MaxTarget

\* An override row carries the expiry its kind needs: none when it is
\* automatic, a booking and a later checkout when it is until-checkout, a
\* later instant otherwise.  override_row_is_active treats a row without its
\* expiry as ended.
RowsBounded ==
  \A r \in Rooms : \A i \in DOMAIN overrides[r] :
    LET o == overrides[r][i]
    IN  CASE o.control_mode = "automatic" ->
               o.expires_at = Null /\ o.checkout_at = Null /\ ~o.until_checkout
          [] o.control_mode # "automatic" /\ o.until_checkout ->
               o.booking # Null /\ o.checkout_at # Null /\ o.checkout_at > o.starts_at
          [] OTHER -> o.expires_at # Null /\ o.expires_at > o.starts_at

\* With stays of at least one night, no reachable table makes the evaluation of a
\* room raise, at any instant: _recalculate_rooms never rolls back.  (A stay that
\* ends on the day of its arrival does make it raise.)
EvaluationNeverAborts ==
  \A r \in Rooms, t \in 0 .. MaxTime :
    \A outcome \in room_outcomes(r, Stored(bookings), t) : outcome.valid

\* A room state in the manual_override phase goes back to an override row that
\* was in force at its timestamp, carries that row's mode, and, if the row is
\* until-checkout, is about the very booking the row is tied to.
ManualPhaseJustified ==
  \A r \in Rooms : \A i \in DOMAIN ledger[r] :
    LET s == ledger[r][i]
    IN  s.hash.phase = "manual_override" =>
          \E k \in DOMAIN overrides[r] :
            LET o == overrides[r][k]
            IN  /\ override_row_is_active(o, s.at)
                /\ o.until_checkout => o.booking = s.hash.booking.id
                /\ s.hash.intent.control_mode = o.control_mode
                /\ s.hash.intent.mode = o.hvac_mode
                /\ s.hash.until = o.expires_at

StampsOrdered(r) ==
  \A i, j \in DOMAIN ledger[r] : i < j => ledger[r][i].at < ledger[r][j].at

\* As long as a room's states were committed in the order of their timestamps,
\* its intent versions are 1, 2, 3, ...: _next_intent_version skips none and
\* repeats none.
OrderedVersions ==
  \A r \in Rooms : StampsOrdered(r) =>
    \A i \in DOMAIN ledger[r] : ledger[r][i].version = i

\* Under the same condition no state repeats the meaning of its predecessor, so
\* no duplicate pms/state or intent/state event is enqueued.
OrderedChanges ==
  \A r \in Rooms : StampsOrdered(r) =>
    \A i \in DOMAIN ledger[r] :
      i > 1 => ledger[r][i].hash # ledger[r][i - 1].hash

\* Every intent version of a room is allocated once.
IntentVersionUnique ==
  \A r \in Rooms : \A i, j \in DOMAIN ledger[r] :
    ledger[r][i].version = ledger[r][j].version => i = j

\* The row the policy works with is the last committed Home Assistant command,
\* or one the policy itself committed after it.
LatestCommandAuthoritative ==
  \A r \in Rooms : \A i \in DOMAIN overrides[r] :
    overrides[r][i].created_by = "home_assistant_mqtt" =>
      \A o \in latest_override_row(overrides[r]) :
        \E k \in DOMAIN overrides[r] : k >= i /\ overrides[r][k] = o

Fresh(r, t) ==
  /\ \A i \in DOMAIN overrides[r] : overrides[r][i].starts_at < t
  /\ \A i \in DOMAIN ledger[r] : ledger[r][i].at < t

\* The override rows whose control/state event is the last one in the outbox's
\* publishing order (created_at, id).
last_control_rows(rows) ==
  {rows[i] : i \in {k \in DOMAIN rows : \A j \in DOMAIN rows :
     \/ rows[j].starts_at < rows[k].starts_at
     \/ rows[j].starts_at = rows[k].starts_at /\ rows[j].evid <= rows[k].evid}}

\* The latest state is what the policy says at t, and the latest override row
\* is either automatic or what put the room in the manual_override phase.
Settled(r, t) ==
  \A last \in latest_room_state(ledger[r]), o \in latest_override_row(overrides[r]) :
    /\ last # Null
    /\ \E st \in evaluate_room(r, Stored(bookings), t, o) :
         last.hash = room_state_hash(st, derive_room_intent(st, o))
    /\ o # Null => o.control_mode = "automatic" \/ last.hash.phase = "manual_override"

\* The last control/state event shows no override when none is in force.
ControlShown(r) ==
  \A last \in latest_room_state(ledger[r]), o \in last_control_rows(overrides[r]) :
    last # Null /\ last.hash.phase # "manual_override" =>
      control_state_payload(o) = default_override_draft

\* After a policy tick that no later-stamped transaction overtook, every room
\* is settled: overrides that ran out have returned to automatic.
TickSettles ==
  [][\A r \in Rooms, t \in {captured["policy"]} :
       PolicyTick /\ Fresh(r, t) => Settled(r, t)']_vars

\* The evaluation that ends a command's handler leaves the default
\* control/state as the last event of a room it did not put under the command,
\* when nothing else was committed for the room with a later timestamp.
ControlStateNotStale ==
  [][\A r \in Rooms, t \in {captured["command"]} :
       /\ EvaluateCommand /\ handling = r
       /\ \A i \in DOMAIN ledger[r] : ledger[r][i].at < t
       /\ \A i \in DOMAIN overrides[r] : overrides[r][i].starts_at <= t
       => ControlShown(r)']_vars

\* After a sync that no later-stamped transaction overtook, the rooms its
\* bookings are assigned to are in the state those bookings call for.
SyncSettles ==
  [][\A r \in Rooms, t \in {captured["sync"]} :
       /\ SyncBatch /\ Fresh(r, t)
       /\ \E b \in Stored(bookings)' \ Stored(bookings) : r \in resolve_room(b)
       => Settled(r, t)']_vars

=============================================================================
