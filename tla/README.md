# Clock / Home Assistant orchestrator: TLA+ models, checks and proofs

The orchestrator polls a hotel's property management system (Clock), decides
what every room's heating should do, takes override commands from Home Assistant
over MQTT, and publishes desired states ("intents") through a transactional
outbox. Adapters at the entrances carry the intents out on G301 controllers over
Modbus. This directory models the parts that carry state, checks them with TLC on
small instances, and proves the main safety properties with TLAPS for every value
of the constants.

## Inventory

| Part | State | Operations | What is hard | What makes it correct |
|---|---|---|---|---|
| Booking state machine (`domain/state_machine.py`) | none (pure) | `evaluate_room` | date and time boundaries, row order, optional ids | published windows are kept; the order of rows does not decide |
| Policy engine (`policy/engine.py`) | none (pure) | `derive_room_intent` | combinations of phase and override that the intent validators refuse | never raises on a reachable table |
| Room control (`policy/control.py`) | `room_policy_overrides` | six MQTT commands | each row is built from the previous one; "latest" is a timestamp and a random id | rows stay renderable and bounded; the last command counts |
| Database sync (`clock/db_sync.py`) | `bookings`, `booking_room_assignments`, `room_states` | apply a poll, tick, evaluate one room | timestamps taken before the lock, sessions without autoflush, one failing room | versions 1, 2, 3, ...; no duplicates; a tick settles every room |
| Runtime (`runtime.py`) | actors' local time, health flags | periodic tasks, command handler, restart | event loop against the MQTT thread; two transactions per command | no interleaving breaks the above |
| Outbox (`outbox/service.py`) | `outbox_events` | enqueue, claim, publish, record, release, requeue | crash between publish and record, late acknowledgement, stale claims | at least once, dead only when exhausted, eventually resolved |
| MQTT client (`mqtt/client.py`) | connection flag, handlers, executor; at the broker the session, its will, the retained topics | connect, subscribe, publish, disconnect, the callbacks | three kinds of threads; will, takeover and reconnect in any order; the library keeps a message after the wait timed out | availability tells the truth once things settle; commands arrive, in order; what is shown is fresh |
| Clock poller (`clock/sync.py`) | cursor, sync lock | `poll_once`, `_advance_cursor`, waiting requests | late updates against the incremental window, bookings that change between two pages, refused payloads | no update is passed over or put back; all is stored in the end |
| G301 worker (`g301_adapter/`) | watermarks, attempts, failures per slave, the devices | `apply_intent` | every await may fail or be cancelled; redelivery; uncertain writes | what is reported is what the device does; a final result is reached |
| Clients, normaliser, topics, discovery, dashboard, API, settings, system state | none of their own | I/O, layout, views | - | - |

Interaction: the sync, the policy tick and the command handler write
`room_states`, `room_policy_overrides` and outbox rows in one database
transaction each, under the lock of the property row. The outbox worker publishes
the rows; the broker retains them per topic; a G301 worker receives the retained
intents, possibly again and again. The hazards this creates are listed, with
their lines and the properties aimed at them, in `PROJECT.json`.

## Modules

| Module | Models |
|---|---|
| `RoomPolicy` | the pure part: bookings, `evaluate_room`, `derive_room_intent`, the validators |
| `RoomTimeline` | one room, one calendar, passing time: what `evaluate_room` says tick by tick |
| `RoomControl` | override rows, command drafts, `latest_override_row` |
| `RoomLedger` | the three actors on the tables: policy tick, sync, command handler, restart |
| `AtLeastOnce` | the abstract queue: absent, queued, done or given up |
| `Outbox` | claim, publish, record, release, requeue, broker, faults; refines `AtLeastOnce` |
| `LatestOrder` | the abstract worker: only newer orders are taken, an order ends once, applied is true |
| `G301Worker` | `apply_intent`, the plan, the bus and the devices; refines `LatestOrder` |
| `MqttSession` | start to stop of the MQTT client: connections, will, availability, subscriptions, executor, republication |
| `Mirror` | the abstract poll: a copy that trails a source that changes under it |
| `ClockPoll` | the incremental poll: window, pages, cursor, sync lock; refines `Mirror` |
| `IntentDelivery` | one room's intents from the outbox to the adapter's version memory |
| `MC...` | instances for TLC |
| `RoomLedgerProofs`, `RoomOutcomeProofs`, `RoomTimelineProofs`, `OutboxProofs`, `ClockPollProofs`, `G301Proofs`, `MqttProofs`, `IntentDeliveryProofs` | the theorems |

`RoomLedger` extends `RoomControl`, which extends `RoomPolicy`; `RoomTimeline`
extends `RoomControl`; `IntentDelivery` extends `Outbox`. Definitions keep the names
of the code.

### How state and actions correspond

*RoomLedger.* A transaction is one step, since each locks the property row first.
Its timestamp is not taken under the lock: `BeginPolicy`, `BeginSync` and
`BeginCommand` read the wall clock into `captured`, and the commit comes later. Each
reading gets an instant of its own: the code's clock has microseconds, and two
readings that coincide are left out. `LatestRows` and the theorems after it rest on
that; what still shares a timestamp is a command's override row and the automatic
row that the command's own evaluation adds. The policy tick and the commit of a sync
run on the same event loop without an await in between, so a sync cannot commit
while a tick is under way; the command handler runs on the MQTT executor's thread
and interleaves with both. A command takes two transactions (`AcceptCommand`, then
`EvaluateCommand`) with one timestamp. One element of `ledger[r]` is the
`room_states` row with the two events added along with it, one of `overrides[r]` is
the override row with its control/state event, both in commit order. Rows of one
timestamp are ordered by random UUIDs: every row carries two ranks, one for the
override table and one for the outbox, chosen when a row of the same timestamp is
added. A recalculation in which one room raises leaves all tables alone. `loaded` is
the read-back of the bookings in a session without autoflush. `Restart` forgets what
the actors hold.

*Outbox.* Rows are numbered in the order (created_at, id) in which they are claimed,
and are committed in any order: `created_at` is a timestamp taken before the poll,
the lock or the transaction (`runtime.py:115`, `:248`; `db_sync.py:788`;
`control.py:134`), so a row may appear after a later-numbered one has been
published, and equal timestamps are ordered by random ids. `overtaken` is a history
of the topics on which a row was committed after a later-numbered one had been
claimed. The clocks of a row are reduced to what the queries ask: `due` and `stale`.
Publishing is one step per message. A publish that fails may or may not have reached
the broker, and may reach it later (`DeliverLate`). `Crash` drops a worker's hands,
`RecordingFails` is a failed third transaction. The broker keeps one row per
retained topic.

*G301Worker.* The bus lock is held by at most one call (`bus`), and every await is
a step: reading the profile, each write, the read-back. Each may succeed, fail
retryably, fail finally, or be cancelled; a failed write may have been performed.
Time is relative: ticks of cooldown, and the side of its validity window an intent
is on. Temperatures are in hundredths of a degree and rounded to tenths as Python
rounds, halves to even.

*MqttSession.* The main thread (`main`, from `start()` to `stop()`), the
library's thread (`Connect`, `_on_connect`, `_on_disconnect`, `Deliver`,
`HomeAssistantSends`) and the executor's threads (`job`, fed from `queue`)
interleave. `_on_connect` is two steps, the flag and the rest, since `subscribe()`
reads the flag and enters handlers in between; `subscribe()` is two steps for the
same reason. The republication is three: "online", the read of the control
states, and their publication. The library and the broker are external: messages
are sent in order and survive a lost connection in the library's queue, a CONNECT
takes over a session that is still open (its will is published, its subscriptions
are gone), and a session whose connection is lost ends with its will (`WillFires`).
A control state is its number in timestamp order, and states are committed in any
order. The outbox is reduced to their rows: a batch claims some of the rows that are
due, publishes them one after the other, and records the results. A row that timed out
is due again and may be left out of the next batches, as its backoff demands
(`service.py:143-150`, `:188-196`), so newer rows go first and it may be published after
them. `handed` is the newest row given to the library. `late` and `aborted` record
what the code does not exclude: an "online" that falls into `stop()`, a control state
published after a newer one, and a callback that raises.

*ClockPoll.* A task reads the wall clock, waits for the lock, loads the cursor
(`BeginPoll`), reads pages of any size in any order (`ReadPage`, each at its own
moment, so that bookings change in between), and stores all in one transaction
with the new cursor (`Store`). What `apply_sync_result` derives from a booking is
`RoomLedger`'s subject; here a booking is a version. Clock is external: a query
answers with the bookings stamped at or after `updated_since`, and an update is
shown at most `Lag` after its stamp.

*IntentDelivery.* Every step of `Outbox` that reaches the broker also forwards the
message to a subscribed adapter. `ApplyIntent` is the version comparison of
`_apply_intent_serialized`; a subscription brings the retained message; a restart
of the adapter forgets `last_seen_version`. Rows stand for versions, in the order
`OrderedVersions` gives them, and are committed in that order (`EnqueueNewer`): the
module and its theorems are about rooms whose intents have their versions in timestamp
order, and not about those of `VersionReuse`.

### Assumptions on the constants

They are what the settings and the configuration models enforce: distinct Clock
ids per room, a minimum target not above the maximum, check-in and check-out
within the day, at least one attempt, a batch of at least one, a maximum retry
delay not below the base. `Null` is none of the values it stands in for.

## Runs

Passing:

| Run | Properties | Shows |
|---|---|---|
| `RoomLedgerOneRoom` | `TypeOK`, `ManualPhaseJustified`, `OrderedVersions`, `OrderedChanges`, `TickSettles` | a guest's stay with commands, polls, ticks and restarts in every interleaving |
| `RoomLedgerCommands` | `RowsRenderable`, `RowsBounded`, `EvaluationNeverAborts` | commands of each of the six fields, accepted and refused, in every order |
| `RoomTimeline` | `OrderIndependent`, `UnassignedHasNoEffect`, `LastsUntilExpiry`, `EndsAtExpiry` | every calendar of two bookings over three days, with and without an override |
| `OutboxOneWorker` | `TypeOK`, `PublishedDelivered`, `DeadLetterExhausted`, `HeldIsClaimed`, `InOrderWithoutFailure`, `PublishedIsFinal`, `ImplementsQueue` | one process, three rows on two topics, committed in any order |
| `G301Series` | `TypeOK`, `WatermarksConsistent`, `AppliedMeansMatched`, `DeviceWithinLimits`, `ImplementsLatestOrder`, `PoweredOnConfigured` | three versions of one room, one with two payloads |
| `G301TwoRooms` | `NoTrafficInCooldown`, `EventuallyTerminal` | two rooms on one bus, under fairness |
| `MqttSession` | `OfflineUnlessOvertaken`, `SettledMeansOnline`, `ReachableUnlessAborted`, `FreshUnlessOvertaken`, `CommandsInOrder`, `EventuallyRestored`, `TypeOK` | two command topics, one executor thread, commands and control states in any order, a fault anywhere between start and stop |
| `ClockPoll` | `NoUpdateMissed`, `MirrorsClock`, `EventuallyStored` | two bookings that change under two polling tasks; one payload is refused until it is corrected |
| `IntentDelivery` | `NewestDespiteReorder`, `EventuallyInformed`, `EventuallyResolved` | outbox, broker and adapter with failures on both sides: every row is resolved, and the newest intent arrives, for intents committed in version order |

Runs that end in a violation, each a disagreement between the code and a sentence
of the repository's documents, quoted in `PROJECT.json`:

| Run | Property | What happens |
|---|---|---|
| `VersionReuse` | `IntentVersionUnique` | a sync commits a state with an old timestamp; a later evaluation allocates the version again |
| `SameDayStay` | `TickSettles` | a stay within one date has an empty pre-arrival window; the tick rolls back for every room |
| `SyncFlush` | `SyncSettles` | the assignment of the last booking of a batch is not flushed before it is read |

Further configurations, not in the list of runs of `PROJECT.json`, can be run the
same way. `OutboxTwoWorkers.cfg` (what it checks is also proved) and
`OutboxLiveness.cfg` (`EventuallyResolved` with larger batches and two faults)
pass. The others end in a violation:

| Configuration | Property | What happens, and what the documents say |
|---|---|---|
| `CommandLost.cfg` (`MCRoomLedger`) | `LatestCommandAuthoritative` | a row with a later timestamp, committed before, hides the command; `docs/mqtt-contract.md:90`: "The latest override command for a room is authoritative." |
| `OutboxReorder.cfg` (`MCOutbox`) | `RetainedIsNewest` | on a topic where rows were committed in order, a retry overwrites a newer retained message; `docs/mqtt-contract.md:75` calls the retained control state authoritative |
| `OutboxLateCommit.cfg` (`MCOutbox`) | `LastDeliveredRetained` | a row whose `created_at` is older is committed after a newer one was published, and replaces it without any failure; the same line |
| `IntentOverwritten.cfg` (`MCIntentDelivery`) | `NewestAfterAway` | the same on the intent topic: an adapter that was away, or restarted and lost its version memory, takes over the older intent and keeps it; `docs/future-adapter-contract.md:80` asks the production adapter to persist the memory, which helps only against the restart |
| `MqttStuckOnline.cfg` (`MqttSession`) | `StoppedMeansOffline` | a reconnect, or its republication on the executor, falls into `stop()`: "online" is published after, or without, the graceful "offline", and the DISCONNECT suppresses the will |
| `MqttStale.cfg` (`MqttSession`) | `ControlNotStale` | a republication publishes what it read before the outbox published something newer; `docs/mqtt-contract.md:99-102` wants controls not to remain stale |
| `MqttUnreachable.cfg` (`MqttSession`) | `CommandsReachable` | a reconnect meets `start()` while it registers handlers: iterating over the dictionary raises, and topics stay without a subscription |
| `MqttTwoThreads.cfg` (`MqttSession`) | `CommandsInOrder` | with two executor threads a later command is handled first |
| `ClockLate.cfg` (`MCClockPoll`) | `NoUpdateMissed` | an update Clock shows later than the overlap is passed over for good; `AI_AGENT_HANDOFF.md:323` asks for polling "with reconciliation", but `reconciliation_window` (`sync.py:39`) is not used and `/sync/reconcile` polls incrementally |
| `ClockMalformed.cfg` (`MCClockPoll`) | `StoredDespiteRefusal` | one payload the normaliser refuses stops every booking from being stored while it is in the window |
| `ControlStale.cfg` (`MCRoomLedger`) | `ControlStateNotStale` | command row and automatic row share a timestamp and are published in the order of random ids; `docs/mqtt-contract.md:99` wants the default control state to be left |
| `UnmappedRoom.cfg` (`MCRoomTimeline`) | `UnassignedHasNoEffect` | two absent room ids are equal (`state_machine.py:112`), so an unassigned booking of unknown status takes a room without a Clock id out of automation; `AI_AGENT_HANDOFF.md:94` forbids intents before an assignment |
| `G301Unconfirmed.cfg` (`MCG301Worker`) | `UnconfirmedMeansWritten` | applied_unconfirmed after a write that failed; `docs/mqtt-contract.md:158` says the writes completed |
| `G301Expired.cfg` (`MCG301Worker`) | `ExpiredWithoutAccess` | a resumed verification does not look at the validity window; `docs/future-adapter-contract.md:83` says no hardware access |

Properties that hold only within limits say so: `OrderedVersions` and
`OrderedChanges` are about rooms whose states were committed in timestamp order
(`VersionReuse` shows the rest), `EvaluationNeverAborts` and `OrderIndependent`
about stays of at least a night (`SameDayStay`), and
`UnassignedHasNoEffect` about rooms with a Clock id (`UnmappedRoom.cfg`).
`InOrderWithoutFailure` is about topics on which no row was committed after a later one
had been claimed (`OutboxLateCommit.cfg`) and nothing has failed (`OutboxReorder.cfg`).
`OfflineUnlessOvertaken` excepts a reconnect or its republication that falls into
`stop()` (`MqttStuckOnline.cfg`), `ReachableUnlessAborted` a callback that raised
(`MqttUnreachable.cfg`). `FreshUnlessOvertaken` excepts two things: a republication that
publishes what it had read before the outbox published something newer
(`MqttStale.cfg`), and a row that the outbox itself publishes after a newer one, be it a
retry (`OutboxReorder.cfg`), a row committed late (`OutboxLateCommit.cfg`) or one of the
same timestamp (`ControlStale.cfg`). `late` is set at the very step that publishes the
older state, and taken back when the outbox publishes the newest row, so the property
still asks that a crash, a lost connection, a timeout or a failed recording leaves no
older state behind. `NoUpdateMissed` needs that
Clock's delay is within the overlap, `NewestDespiteReorder` that publishing did not
fail or that no intent passed the adapter by.

### Bounds, and why they are enough

* Time: a day has two or three ticks, its morning, check-out and check-in; in the
  example policy the preparation window begins at check-out. Every comparison of
  the code is between such instants. `MaxTime = 4` covers the day of arrival,
  the night and the check-out of a one-night stay, `Horizon = 9` three days.
* Rooms and bookings: one room is enough for versions and overrides, since rooms
  meet only in the rollback of a whole tick and in a move, which have two rooms
  (`SameDayStay`, `SyncFlush`). Two bookings are what overlaps and selection
  compare.
* `MaxSpan` caps until-checkout durations when they are shown as timed ones;
  `Temperatures = {30}` is above the maximum and so is clamped.
* Outbox: two rows on one topic and one on another are needed to reorder; a batch
  of two leaves one row for a second claim; two attempts give one retry and one
  dead letter; `MaxRequeues` lets a dead letter come back once; one or two faults
  place a crash, a lost connection or a failed transaction anywhere.
* MQTT: two topics let an iteration be cut in the middle; two control states can
  change places, in their commit, by a retry or by a republication; `MaxInputs` counts
  the commands sent and the states committed, two together: two commands can change
  places, or one commits a state behind another one, or both states come from the
  policy. One fault is a crash, a lost connection, a timeout, a failed read or a failed
  recording anywhere, and a wait that times out because the connection is lost needs no
  second one. `MqttProofs` has every bound as a parameter.
* Clock: two instants after the start, an overlap and a lag of one each: an update
  can be late by all the overlap allows. Two versions per booking, two tasks.
* Delivery: two versions, one retry each, a fault in the orchestrator and one
  absence of the adapter; batches of one row still reorder, by the retry delay.
* G301: `MaxFaults` of 2 or 3 allows a failed write, a failed read-back and a
  cancellation in one history; `FailureCap` is where the delay has reached its
  maximum.

`TickSettles` leaves out a tick that a transaction with a later timestamp
overtook. Deadlock checking is on in every run.

### Fairness

* `Outbox`: the worker's loop (`_periodic` catches every exception and goes on),
  the reconnecting client library, and the passing of time (retry and stale
  delays). Faults, requeues and late deliveries are not fair, and the number of
  faults is bounded: a broker that is down forever resolves nothing.
* `IntentDelivery`: the same, and an adapter that subscribes again and handles what
  it receives. Absences are bounded.
* `MqttSession`: the library reconnects and sends, the broker notices a lost
  connection, threads run what they have taken and take what is queued, and the
  main thread goes on. Stopping, crashing and losing connections are not fair.
  Nothing is asked of the library after a callback raised (`aborted`).
* `ClockPoll`: some task goes on (`_periodic` calls `run_sync_once` again and again,
  and requests to Clock have a timeout). Time and Clock's updates are not fair.
* `G301Worker`: the call that holds the bus goes on (every operation has a
  timeout), time passes, and the newest intent of a room is handed over again as
  long as its attempt is not final. The last is an obligation of the subscriber,
  which the repository leaves to the production adapter: `apply_intent` itself
  does not retry.

## Proofs

`OutboxProofs`, for any sets of rows and workers and any limits:

* `TypeCorrect`; `PublishedRowsDelivered` with the strengthening that an
  acknowledgement in a worker's hands stands for a delivery;
  `DeadLettersExhausted`, whose invariant is inductive with the types.
* With at most one worker process (assumed in each statement):
  `HeldRowsClaimed`, inductive together with the types: the release of stale
  claims is made by the same worker, and only while its hands are empty;
  `PublishedRowsFinal` from it; and `OutboxImplementsQueue`, the refinement of
  `AtLeastOnce`, which needs in addition that a message in flight has its row in
  the table.
* `DeliveredInOrder`, with one worker process as well, from `OrderInv`: rows are
  committed in any order, a claimed row is tried once, and on a topic without a
  failure and without a row committed behind a claimed one, what was delivered is older
  than what is in hand, and that older than what is still to be claimed. The exception
  is the one step `Enqueue` takes when `Overtakes` holds.

`IntentDeliveryProofs`:

* `DeliveryImplementsQueue`, with one worker process (assumed in the statement): the
  composed system implements `AtLeastOnce`. It rests on the lemma
  `DeliveryImplementsOutbox`, which only says that the composition is built from steps
  of `Outbox`.
* `NewestTakenOver`, with one worker process, from `ToldInv`: a subscribed adapter
  has taken over what the broker retains, or has it or something newer in its inbox;
  and one that has missed nothing, everything the broker has received. As the
  composition implements `Outbox`, the invariants of `OutboxProofs` carry over:
  either order or memory then gives the newest intent.
* `NewestByMany`, for any number of workers, where order is lost. Whatever the
  adapter forgot by a restart or missed while it was away, once it is subscribed and
  its inbox is handled it is not behind the intent the broker retains for its room;
  and one that has missed nothing has the newest intent the broker received.
  `Provenance` adds that everything in the adapter's hands came from the broker and
  is about its room.

`RoomLedgerProofs`, for any registry, policy, feed and set of commands:

* `TypeCorrect`, `OverridesRenderable` and `OverridesBounded` from one inductive
  invariant, `LedgerInv`: types, renderable rows, bounded rows. Renderability is
  needed for its own step, as a draft starts from the latest row. The until-
  checkout bound needs that `current_booking_boundary` answers only with a
  checkout later than the command.
* `VersionsOrdered` and `ChangesOrdered` from `VersionInv`: in a room whose states
  are in timestamp order, the row `latest_room_state` picks is the last one, so
  the next version is the length plus one and the content differs from the last.

`RoomOutcomeProofs`, about the same specification:

* `NeverAborts`, where every stay of the feed lasts a night (assumed in the
  statement; `SameDayStay` shows what happens otherwise). `ValidInv` adds to
  `LedgerInv` that stored stays last a night and that a row tied to a checkout has
  no other end; then the lead of a stay starts before its checkout, every
  published window is non-empty, and the intent passes its validators.
* `ManualJustified` from `JustifiedInv`: a state in the manual phase is stored only
  by an evaluation that has read a governing row, and rows are only appended.
* `LatestRows`: two states of a room never share a timestamp, and two override rows
  only as a command's row and the automatic row that the command's own evaluation
  added, which ends the same override. Random ids therefore decide between these two
  only. The latest-override query and the publishing order each have one answer, but
  not the same one: the state that is retained on control/state may be the
  command's, which is `ControlStale.cfg`. It rests on `StampInv`: timestamps
  identify rows. A timestamp that an actor holds is its own and before the wall
  clock; two states of a room never share one, and two override rows only when one
  command stored the first and its evaluation, under the rank constraints, ended the
  override with the second. `StampSteps` reduces every action to "actor `a` commits
  the rooms `R`" or "actor `a` gives up".
* `SettledByTick` (`TickSettles`), where every stay of the feed lasts a night. The
  state a room has after a tick is the one that evaluating the stored bookings and
  the latest override row at the tick's timestamp gives. By `StampInv` the row the
  tick commits, or the one it finds unchanged, is the latest; when the tick ends an
  override, evaluating again with the automatic row gives the same intent
  (`EndedEvaluation`), so the tick is idempotent; and `NeverAborts` excludes that
  another room rolls it back.
* `SettledBySync`, the same for a poll: `SyncSettles`, which the run `SyncFlush`
  refutes, does hold when the last booking of the batch keeps its assignment
  (`UnmovedSyncSettles`). The row that is not flushed is therefore the only reason.

`RoomTimelineProofs`, for any calendars, override rows, registry and policy times:

* `OrderIrrelevant`: two relevant bookings without a conflict have the same
  instants, so for stays of a night they overlap, and are one.
* `UnassignedIneffective`, where every room has a Clock id (`UnmappedRoom` shows
  what happens otherwise).
* `LastsToExpiry`: before a published end the booking's day of departure has not
  passed, so it stays the relevant one, and an override that does not govern it does
  not come to govern it.
* `EndsWithExpiry`, where a row tied to a checkout has no other end, which is what
  `RoomOutcomeProofs` proves of the rows the commands store.

`ClockPollProofs`, for any sets of bookings and tasks and any delays:

* `TypeCorrect` and `StoredNeverOlder` from `PollInv`: the window of the lock's
  holder was computed from the present cursor, and what it has read is not older
  than what is stored.
* `UpdatesNotMissed`, under the assumption `LagCovered` that Clock shows an update at
  most the overlap after its stamp. The invariant `MissInv` adds `PollComplete`: a
  booking whose page has been read is up to date, or was stamped within the overlap
  before the start of the poll, and the next window begins there.
* `ClockMirrored`, the refinement of `Mirror`, from `PollInv`: `ClockUpdate` is an
  update of the source, `Store` a pull, and requests, pages, refused or failed polls
  and restarts leave table and Clock alone. That a stored version is never replaced by
  an older one (`StoredNeverOlder`) is part of it.

`G301Proofs`, for any rooms, intents, devices, retry times and number of faults:

* The inductive invariant `WorkerInv` adds two parts to the properties: `BusInv`
  (the call on the bus works on the newest intent of its room, its attempt is not
  final, and it writes only what could be planned) and `WrittenInv` (the device
  does what the attempt counts as written, which a write that failed after it was
  performed does not disturb, as a plan writes each register once).
* The argument goes through `WorksOn`: every step either leaves all rooms as they
  are or works on one intent that is neither overtaken nor final, and makes the
  attempt, the watermarks and the device of its room agree again. One lemma per
  action shows this. `TypeCorrect`, `WatermarksOrdered`, `AppliedMatched`,
  `CooldownRespected`, `TerminalFinal` and `PoweredOnComplete` follow from it.
* `WorkerKeepsPromise`, the refinement of `LatestOrder`: a step that works on an
  intent takes it as a new order or is work for the order the room has
  (`TakesOrWorks`; another payload of the same version never takes its place). What
  is answered needs `ResultInv`: the result that an attempt caches agrees with the
  watermark of what was applied, so an answer repeated from the cache is true too.
* `LimitsRespected` assumes that the limits of every device include the 22 degrees
  it starts from; it needs that rounding to a tenth of a degree stays within
  limits given in whole degrees.

`MqttProofs`, for any topics, executor threads, commits, commands and number of
faults:

* `TypeCorrect`; `TopicsReachable` from `SubscribedInv`: while connected, with no
  callback running and none aborted, the topics the program has entered are the
  ones the session has, but for the one being registered.
* `OnlineWhenSettled` from `OnlineInv`: before `stop()` no "offline" is on its way,
  and while connected "online" is shown, on its way, or a task that will say it is
  queued.
* `OfflineAfterStop` from `OfflineInv`: without a session of the broker availability
  is offline, and while stopping every "online" on its way has an "offline" behind it.
* `CommandsOrdered`, with at most one thread (assumed in the statement), from
  `OrderInv`: what is queued was sent after everything handled, and in order.
* `FreshWhenSettled` from three invariants. `RowsInv`: the database shows the newest
  committed state, and what was handed to the library is not newer than `handed`.
  `BoundedInv`: no copy of a state is newer than the database. `FreshInv`: while
  nothing older was published last, the newest row handed over is at the broker or on
  its way there; once it is acknowledged nothing older is left, and while it is awaited
  what is older has a copy of it behind. When every row is published, `handed` is
  therefore the state of the database. While that row waits for another attempt the
  invariant promises nothing about it; its next publication puts a copy of it behind
  everything else.

Only model-checked: liveness (`EventuallyResolved`, `EventuallyInformed`,
`EventuallyStored`, `EventuallyRestored`, `EventuallyTerminal`), which needs
`ENABLED` and is beyond the prover. Every other property of the passing runs is a
theorem.

## Not modelled

Audit events, sync run rows and the registry upsert (nothing reads them back into
a decision); the HTTP and fixture clients, the normaliser, topics, discovery,
dashboard, API, settings, migrations (no state of their own); system state and the
health flags (views: a poll that fails is not an error there, as `poll_once` returns
it as a result); the unused `policy/commands.py` and `reconciliation_window`;
decoding of G301 faults and extended status. `RoomLedger` has one command handler,
as with the default `mqtt_callback_workers = 1`, and one sync at a time
(`ClockPoll` has several). With two outbox processes `HeldIsClaimed` and
`PublishedIsFinal` do not hold; the deployment runs one. The MQTT library is taken
to deliver in order and to lose nothing but with its process.

## Plan

Done: the room policy and its ledger, the outbox, the G301 worker and the poller with
their refinements, the MQTT session, the delivery of intents, and the theorems
above. What would come next, in this order:

1. `RoomLedger` with two command handlers, a second waiting sync, and a room move
   in a passing run.
2. The health flags and `/readyz` with the republished system state.
3. The codecs of `registers.py` over bounded inputs.
4. An abstract specification of the MQTT session (what Home Assistant is shown),
   refined as the queue, the mirror and the worker's promise are.
