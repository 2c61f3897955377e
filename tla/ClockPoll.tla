------------------------------ MODULE ClockPoll ------------------------------
(***************************************************************************)
(* The incremental poll of Clock: run_sync_once of app/runtime.py with     *)
(* poll_once of app/clock/sync.py, load_cursor_state, apply_sync_result    *)
(* and _advance_cursor of app/clock/db_sync.py.                            *)
(*                                                                         *)
(* A task (the periodic one, or a request to /sync/reconcile) reads the    *)
(* wall clock, waits for the sync lock, loads the cursor, reads page after *)
(* page with an await for each, and stores everything in one transaction.  *)
(* The content of a booking is a version.  What apply_sync_result derives  *)
(* from it is the subject of RoomLedger.                                   *)
(*                                                                         *)
(* Clock is external.  It is taken to answer a query with the bookings     *)
(* whose last update is stamped at or after updated_since, each on one     *)
(* page of its choice, and to show an update at most Lag after its stamp.  *)
(***************************************************************************)
EXTENDS Integers

CONSTANTS
  Bookings,
  Malformed,     \* <<booking, version>> whose payload normalize_booking_payload refuses
  Tasks,         \* callers of run_sync_once
  Start,         \* when the process is first started
  DaysPast,      \* clock_reconciliation_days_past
  Overlap,       \* clock_sync_overlap_seconds
  Lag,           \* external: how late Clock may show an update
  MaxTime,       \* bound: the last instant
  MaxVersion,    \* bound: updates of one booking
  MaxFaults,     \* bound: failed pages and transactions, restarts
  Null

ASSUME PollAssumption ==
  /\ Malformed \subseteq Bookings \X (Nat \ {0})
  /\ {Start, DaysPast, Overlap, Lag, MaxTime, MaxVersion, MaxFaults} \subseteq Nat
  /\ Null \notin Int \cup Tasks

VARIABLES
  now,
  clock,         \* Clock: booking -> [version, stamp] of its last visible update
  stored,        \* the bookings table: booking -> version, 0 if absent
  cursor,        \* the sync cursor's last_success_at, or Null
  lock,          \* the task that holds _sync_lock, or Null
  task,          \* task -> [at, started, since]
  left,          \* task -> bookings on the pages it has not read
  fetched,       \* task -> booking -> version read, 0 if not on a page
  firstWindow,   \* history: updated_since of the first successful poll, or Null
  faults

taskVars == <<lock, task, left, fetched>>
vars == <<now, clock, stored, cursor, taskVars, firstWindow, faults>>

Instant == Nat \cup {Null}

\* Type correctness; the lock is held by exactly the task that polls.
TypeOK ==
  /\ now \in Nat
  /\ clock \in [Bookings -> [version : Nat, stamp : Nat]]
  /\ stored \in [Bookings -> Nat]
  /\ cursor \in Instant
  /\ lock \in Tasks \cup {Null}
  /\ task \in [Tasks -> [at : {"idle", "waiting", "polling"}, started : Nat, since : Int]]
  /\ left \in [Tasks -> SUBSET Bookings]
  /\ fetched \in [Tasks -> [Bookings -> Nat]]
  /\ firstWindow \in Int \cup {Null}
  /\ faults \in Nat
  /\ \A t \in Tasks : task[t].at = "polling" <=> lock = t

NoPoll == [at |-> "idle", started |-> 0, since |-> 0]
NothingRead == [b \in Bookings |-> 0]

Init ==
  /\ now = Start
  /\ clock \in [Bookings -> [version : {1}, stamp : 0..Start]]
  /\ stored = [b \in Bookings |-> 0]
  /\ cursor = Null
  /\ lock = Null
  /\ task = [t \in Tasks |-> NoPoll]
  /\ left = [t \in Tasks |-> {}]
  /\ fetched = [t \in Tasks |-> NothingRead]
  /\ firstWindow = Null
  /\ faults = 0

Fault == faults < MaxFaults /\ faults' = faults + 1

-----------------------------------------------------------------------------
(* The environment.                                                        *)

Tick ==
  /\ now < MaxTime
  /\ now' = now + 1
  /\ UNCHANGED <<clock, stored, cursor, taskVars, firstWindow, faults>>

\* An update becomes visible, stamped up to Lag ago.
ClockUpdate(b) ==
  /\ clock[b].version < MaxVersion
  /\ \E s \in clock[b].stamp .. now :
       /\ s + Lag >= now
       /\ clock' = [clock EXCEPT ![b] = [version |-> @.version + 1, stamp |-> s]]
  /\ UNCHANGED <<now, stored, cursor, taskVars, firstWindow, faults>>

-----------------------------------------------------------------------------
(* run_sync_once                                                           *)

\* now = datetime.now(UTC), before the lock.
Request(t) ==
  /\ task[t].at = "idle"
  /\ task' = [task EXCEPT ![t] = [at |-> "waiting", started |-> now, since |-> 0]]
  /\ UNCHANGED <<now, clock, stored, cursor, lock, left, fetched, firstWindow, faults>>

incremental_window_start(last, at) ==
  IF last = Null THEN at - DaysPast ELSE last - Overlap

\* Mutant: without the lock.
BeginPoll_Unlocked(t) ==
  /\ task[t].at = "waiting"
  /\ lock' = t
  /\ task' = [task EXCEPT ![t].at = "polling",
                          ![t].since = incremental_window_start(cursor, task[t].started)]
  /\ left' = [left EXCEPT ![t] = Bookings]
  /\ fetched' = [fetched EXCEPT ![t] = NothingRead]
  /\ UNCHANGED <<now, clock, stored, cursor, firstWindow, faults>>

\* The lock is acquired and the cursor loaded.
BeginPoll(t) ==
  /\ task[t].at = "waiting" /\ lock = Null
  /\ lock' = t
  /\ task' = [task EXCEPT ![t].at = "polling",
                          ![t].since = incremental_window_start(cursor, task[t].started)]
  /\ left' = [left EXCEPT ![t] = Bookings]
  /\ fetched' = [fetched EXCEPT ![t] = NothingRead]
  /\ UNCHANGED <<now, clock, stored, cursor, firstWindow, faults>>

\* One page: the bookings of P that match, as they are at this moment.
ReadPage(t, P) ==
  /\ task[t].at = "polling"
  /\ P # {} /\ P \subseteq left[t]
  /\ left' = [left EXCEPT ![t] = @ \ P]
  /\ fetched' = [fetched EXCEPT ![t] =
       [b \in Bookings |-> IF b \in P /\ clock[b].stamp >= task[t].since
                           THEN clock[b].version ELSE @[b]]]
  /\ UNCHANGED <<now, clock, stored, cursor, lock, task, firstWindow, faults>>

PollEnds(t) ==
  /\ task[t].at = "polling"
  /\ lock' = Null
  /\ task' = [task EXCEPT ![t] = NoPoll]
  /\ left' = [left EXCEPT ![t] = {}]
  /\ fetched' = [fetched EXCEPT ![t] = NothingRead]

Normalized(t) == \A b \in Bookings : <<b, fetched[t][b]>> \notin Malformed

\* Mutant: the cursor is set to the end of the poll.
_advance_cursor_AtEnd(t) == cursor' = now

_advance_cursor(t) == cursor' = task[t].started

\* apply_sync_result: _upsert_booking overwrites whatever the row holds.
Store(t) ==
  /\ left[t] = {} /\ Normalized(t)
  /\ PollEnds(t)
  /\ stored' = [b \in Bookings |-> IF fetched[t][b] = 0 THEN stored[b] ELSE fetched[t][b]]
  /\ _advance_cursor(t)
  /\ firstWindow' = IF firstWindow = Null THEN task[t].since ELSE firstWindow
  /\ UNCHANGED <<now, clock, faults>>

\* One payload that is refused fails the poll as a whole.
Refuse(t) ==
  /\ left[t] = {} /\ ~Normalized(t)
  /\ PollEnds(t)
  /\ UNCHANGED <<now, clock, stored, cursor, firstWindow, faults>>

\* Mutant: a failed poll moves the cursor.
Fail_Advances(t) ==
  /\ PollEnds(t)
  /\ Fault
  /\ cursor' = task[t].started
  /\ UNCHANGED <<now, clock, stored, firstWindow>>

\* A page raises, or the transaction does: nothing is stored and the cursor stays.
Fail(t) ==
  /\ PollEnds(t)
  /\ Fault
  /\ UNCHANGED <<now, clock, stored, cursor, firstWindow>>

\* The process is restarted: tasks and lock are gone.
Restart ==
  /\ Fault
  /\ lock' = Null
  /\ task' = [t \in Tasks |-> NoPoll]
  /\ left' = [t \in Tasks |-> {}]
  /\ fetched' = [t \in Tasks |-> NothingRead]
  /\ UNCHANGED <<now, clock, stored, cursor, firstWindow>>

-----------------------------------------------------------------------------
PollStep(t) ==
  \/ Request(t) \/ BeginPoll(t) \/ Store(t) \/ Refuse(t)
  \/ \E P \in SUBSET Bookings : ReadPage(t, P)

Next ==
  \/ Tick
  \/ \E b \in Bookings : ClockUpdate(b)
  \/ \E t \in Tasks : PollStep(t) \/ Fail(t)
  \/ Restart

Spec == Init /\ [][Next]_vars

\* _periodic keeps calling run_sync_once, and Clock answers or the call times out.
FairSpec == Spec /\ WF_vars(\E t \in Tasks : PollStep(t))

-----------------------------------------------------------------------------
(* Properties.                                                             *)

\* Clock's delay is within the overlap the code allows for.
LagCovered == Lag <= Overlap

\* Seen since the first successful poll's window; earlier updates are not fetched.
InScope(b) == firstWindow # Null /\ clock[b].stamp >= firstWindow

\* An update that is not in the table yet lies in the window of the next poll:
\* whatever fails, waits, or changes between two pages, the cursor never
\* passes an update that was not stored.
NoUpdateMissed ==
  \A b \in Bookings :
    InScope(b) /\ stored[b] # clock[b].version =>
      cursor # Null /\ clock[b].stamp >= incremental_window_start(cursor, now)

\* A sync that waited, and stores what it read later, never puts back an
\* older version of a booking: _upsert_booking compares nothing, the lock does.
StoredMonotone == [][\A b \in Bookings : stored'[b] >= stored[b]]_vars

\* The bookings table is a copy of Clock that trails it: a transaction brings
\* bookings forward, together, to versions Clock has shown; failed and refused
\* polls, restarts and waiting syncs leave it alone, and nothing puts a row back.
Copy == INSTANCE Mirror WITH
  Keys <- Bookings,
  source <- [b \in Bookings |-> clock[b].version],
  copy <- stored

MirrorsClock == Copy!Spec

\* Clock has a payload the normaliser refuses.  It need not be in scope: a sync
\* that waited can move the cursor back, and its window before the first one.
Refusing == \E b \in Bookings : <<b, clock[b].version>> \in Malformed

\* A booking in scope comes to be stored as Clock has it (its updates are
\* bounded), whatever fails on the way, unless Clock shows a payload that is
\* refused; once that is corrected, all is stored.
EventuallyStored ==
  \A b \in Bookings : InScope(b) ~> stored[b] = clock[b].version \/ Refusing

\* It is not so without the exception: one refused payload stops every booking.
StoredDespiteRefusal ==
  \A b \in Bookings : InScope(b) ~> stored[b] = clock[b].version

=============================================================================
