--------------------------- MODULE ClockPollProofs ---------------------------
(***************************************************************************)
(* Theorems about ClockPoll, for any bookings, tasks and window settings.  *)
(* NoUpdateMissed needs the assumption that Clock's delay is within the    *)
(* overlap, stated in the theorem.                                         *)
(***************************************************************************)
EXTENDS ClockPoll, TLAPS

\* What the poll of task t has for booking b: the version it read, or the one
\* it leaves in the table.
Got(t, b) == IF fetched[t][b] = 0 THEN stored[b] ELSE fetched[t][b]

\* The scope InScope will have once task t has stored.
Scope(t) == IF firstWindow = Null THEN task[t].since ELSE firstWindow

\* Versions only grow, and the copies of them lag behind.
VersionsBounded ==
  \A b \in Bookings :
    /\ clock[b].version >= 1
    /\ stored[b] <= clock[b].version
    /\ \A t \in Tasks : fetched[t][b] <= clock[b].version

\* While a task holds the lock nobody else stores, so what it read is no older
\* than the table, and its window is still that of the cursor.
PollCurrent ==
  \A t \in Tasks : lock = t =>
    /\ task[t].since = incremental_window_start(cursor, task[t].started)
    /\ \A b \in Bookings : fetched[t][b] # 0 => stored[b] <= fetched[t][b]
    /\ \A b \in left[t] : fetched[t][b] = 0

\* A booking whose page was read is up to date, or was updated after the poll
\* began and so is stamped within the overlap before that.
PollComplete ==
  \A t \in Tasks : lock = t =>
    \A b \in Bookings \ left[t] : clock[b].stamp >= Scope(t) =>
      \/ Got(t, b) = clock[b].version
      \/ clock[b].stamp >= task[t].started - Overlap

PollInv ==
  /\ TypeOK
  /\ \A t \in Tasks : task[t].started <= now
  /\ cursor # Null => cursor <= now
  /\ cursor = Null <=> firstWindow = Null
  /\ VersionsBounded
  /\ PollCurrent

MissInv == PollInv /\ PollComplete /\ NoUpdateMissed

-----------------------------------------------------------------------------
LEMMA InitInv == Init => MissInv
  <1> SUFFICES ASSUME Init PROVE MissInv
    OBVIOUS
  <1> USE PollAssumption DEF Init, NoPoll, NothingRead
  <1>0. clock \in [Bookings -> [version : Nat, stamp : Nat]]
    BY DEF TypeOK
  <1>1. TypeOK
    BY <1>0 DEF TypeOK, Instant
  <1>2. VersionsBounded
    <2>1. \A b \in Bookings : clock[b].version = 1
      <3> TAKE b \in Bookings
      <3>1. clock[b] \in [version : {1}, stamp : 0..Start]
        BY Zenon
      <3> QED
        BY <3>1
    <2>3. \A b \in Bookings : stored[b] = 0
      BY Zenon
    <2>2. \A t \in Tasks, b \in Bookings : fetched[t][b] = 0
      BY Zenon
    <2>4. ASSUME NEW b \in Bookings
          PROVE /\ clock[b].version >= 1
                /\ stored[b] <= clock[b].version
                /\ \A t \in Tasks : fetched[t][b] <= clock[b].version
      <3> HIDE DEF Init, NoPoll, NothingRead
      <3>1. clock[b].version = 1 /\ stored[b] = 0 /\ \A t \in Tasks : fetched[t][b] = 0
        BY <2>1, <2>2, <2>3
      <3> QED
        BY <3>1
    <2> QED
      BY <2>4 DEF VersionsBounded
  <1>3. \A t \in Tasks : lock # t /\ task[t].started <= now
    OBVIOUS
  <1> QED
    BY <1>1, <1>2, <1>3 DEF MissInv, PollInv, PollCurrent, PollComplete, NoUpdateMissed, InScope

LEMMA WindowIsInt ==
  ASSUME NEW last \in Instant, NEW at \in Nat
  PROVE incremental_window_start(last, at) \in Int
  BY PollAssumption DEF incremental_window_start, Instant

-----------------------------------------------------------------------------
(* PollInv is inductive.                                                   *)

LEMMA TickInv == PollInv /\ Tick => PollInv'
  <1> SUFFICES ASSUME PollInv, Tick PROVE PollInv'
    OBVIOUS
  <1> USE DEF PollInv, Tick, taskVars
  <1>1. TypeOK'
    BY DEF TypeOK
  <1>2. /\ \A t \in Tasks : task'[t].started <= now'
        /\ cursor' # Null => cursor' <= now'
    BY DEF TypeOK, Instant
  <1>3. VersionsBounded' /\ PollCurrent'
    BY DEF VersionsBounded, PollCurrent
  <1> QED
    BY <1>1, <1>2, <1>3

LEMMA UpdateInv ==
  ASSUME NEW b \in Bookings, PollInv, ClockUpdate(b)
  PROVE PollInv'
  <1> USE DEF PollInv, ClockUpdate, taskVars
  <1>1. TypeOK'
    BY PollAssumption DEF TypeOK
  <1>2. VersionsBounded'
    BY DEF VersionsBounded, TypeOK
  <1>3. PollCurrent'
    BY DEF PollCurrent
  <1> QED
    BY <1>1, <1>2, <1>3

LEMMA RequestInv ==
  ASSUME NEW t \in Tasks, PollInv, Request(t)
  PROVE PollInv'
  <1> USE DEF PollInv, Request
  <1>1. TypeOK'
    BY PollAssumption DEF TypeOK
  <1>2. \A u \in Tasks : task'[u].started <= now'
    BY DEF TypeOK
  <1>3. lock # t
    BY DEF TypeOK
  <1>4. PollCurrent'
    BY <1>3 DEF PollCurrent, TypeOK
  <1> QED
    BY <1>1, <1>2, <1>4 DEF VersionsBounded

LEMMA BeginInv ==
  ASSUME NEW t \in Tasks, PollInv, BeginPoll(t)
  PROVE PollInv'
  <1> USE DEF PollInv, BeginPoll
  <1>0. incremental_window_start(cursor, task[t].started) \in Int
    BY WindowIsInt DEF TypeOK
  <1>1. TypeOK'
    BY <1>0, PollAssumption DEF TypeOK, NothingRead
  <1>2. \A u \in Tasks : task'[u].started <= now'
    BY DEF TypeOK
  <1>3. VersionsBounded'
    BY DEF VersionsBounded, TypeOK, NothingRead
  <1>4. PollCurrent'
    BY DEF PollCurrent, TypeOK, NothingRead
  <1> QED
    BY <1>1, <1>2, <1>3, <1>4

LEMMA ReadInv ==
  ASSUME NEW t \in Tasks, NEW P \in SUBSET Bookings, PollInv, ReadPage(t, P)
  PROVE PollInv'
  <1> USE DEF PollInv, ReadPage
  <1>1. TypeOK'
    BY DEF TypeOK
  <1>2. VersionsBounded'
    BY DEF VersionsBounded, TypeOK
  <1>3. PollCurrent'
    <2> SUFFICES ASSUME NEW u \in Tasks, lock' = u
                 PROVE /\ task'[u].since = incremental_window_start(cursor', task'[u].started)
                       /\ \A b \in Bookings : fetched'[u][b] # 0 => stored'[b] <= fetched'[u][b]
                       /\ \A b \in left'[u] : fetched'[u][b] = 0
      BY DEF PollCurrent
    <2>1. u = t
      BY DEF TypeOK
    <2>2. ASSUME NEW b \in Bookings, fetched'[u][b] # 0
          PROVE stored'[b] <= fetched'[u][b]
      BY <2>1, <2>2 DEF PollCurrent, VersionsBounded, TypeOK
    <2>3. ASSUME NEW b \in left'[u] PROVE fetched'[u][b] = 0
      BY <2>1, <2>3 DEF PollCurrent, TypeOK
    <2> QED
      BY <2>2, <2>3 DEF PollCurrent
  <1> QED
    BY <1>1, <1>2, <1>3

\* The end of a poll leaves nobody with the lock.
LEMMA EndInv ==
  ASSUME NEW t \in Tasks, PollInv, PollEnds(t),
         UNCHANGED <<now, clock>>,
         stored' \in [Bookings -> Nat],
         \A b \in Bookings : stored'[b] <= clock[b].version,
         cursor' \in Instant, firstWindow' \in Int \cup {Null}, faults' \in Nat,
         cursor' # Null => cursor' <= now, cursor' = Null <=> firstWindow' = Null
  PROVE PollInv'
  <1> USE DEF PollInv, PollEnds
  <1>1. TypeOK'
    BY PollAssumption DEF TypeOK, NoPoll, NothingRead
  <1>2. \A u \in Tasks : task'[u].started <= now'
    BY DEF TypeOK, NoPoll
  <1>3. VersionsBounded'
    BY DEF VersionsBounded, TypeOK, NothingRead
  <1>4. PollCurrent'
    BY <1>1 DEF PollCurrent, TypeOK, NoPoll
  <1> QED
    BY <1>1, <1>2, <1>3, <1>4

LEMMA StoreInv ==
  ASSUME NEW t \in Tasks, PollInv, Store(t)
  PROVE PollInv'
  <1> USE DEF PollInv, Store, _advance_cursor
  <1>1. stored' \in [Bookings -> Nat]
    BY DEF TypeOK
  <1>2. \A b \in Bookings : stored'[b] <= clock[b].version
    BY DEF VersionsBounded, TypeOK
  <1>3. cursor' \in Nat /\ cursor' # Null /\ cursor' <= now
    BY PollAssumption DEF TypeOK
  <1>4. firstWindow' \in Int /\ firstWindow' # Null
    BY PollAssumption DEF TypeOK
  <1> QED
    BY <1>1, <1>2, <1>3, <1>4, EndInv DEF Instant, TypeOK

LEMMA RefuseInv ==
  ASSUME NEW t \in Tasks, PollInv, Refuse(t)
  PROVE PollInv'
  <1> USE DEF PollInv, Refuse
  <1>1. \A b \in Bookings : stored'[b] <= clock[b].version
    BY DEF VersionsBounded
  <1> QED
    BY <1>1, EndInv DEF TypeOK

LEMMA FailInv ==
  ASSUME NEW t \in Tasks, PollInv, Fail(t)
  PROVE PollInv'
  <1> USE DEF PollInv, Fail, Fault
  <1>1. \A b \in Bookings : stored'[b] <= clock[b].version
    BY DEF VersionsBounded
  <1>2. faults' \in Nat /\ stored' \in [Bookings -> Nat]
    BY DEF TypeOK
  <1> QED
    BY <1>1, <1>2, EndInv DEF TypeOK

LEMMA RestartInv == PollInv /\ Restart => PollInv'
  <1> SUFFICES ASSUME PollInv, Restart PROVE PollInv'
    OBVIOUS
  <1> USE DEF PollInv, Restart
  <1>1. TypeOK'
    BY PollAssumption DEF TypeOK, NoPoll, NothingRead, Fault
  <1>2. \A u \in Tasks : task'[u].started <= now'
    BY DEF TypeOK, NoPoll
  <1>3. VersionsBounded'
    BY DEF VersionsBounded, TypeOK, NothingRead
  <1>4. PollCurrent'
    BY <1>1, PollAssumption DEF PollCurrent, TypeOK, NoPoll
  <1> QED
    BY <1>1, <1>2, <1>3, <1>4

LEMMA StepInv == PollInv /\ [Next]_vars => PollInv'
  <1> SUFFICES ASSUME PollInv, [Next]_vars PROVE PollInv'
    OBVIOUS
  <1>1. CASE Tick
    BY <1>1, TickInv
  <1>2. CASE \E b \in Bookings : ClockUpdate(b)
    BY <1>2, UpdateInv
  <1>3. CASE \E t \in Tasks : PollStep(t) \/ Fail(t)
    BY <1>3, RequestInv, BeginInv, ReadInv, StoreInv, RefuseInv, FailInv DEF PollStep
  <1>4. CASE Restart
    BY <1>4, RestartInv
  <1>5. CASE UNCHANGED vars
    BY <1>5 DEF vars, taskVars, PollInv, TypeOK, VersionsBounded, PollCurrent
  <1> QED
    BY <1>1, <1>2, <1>3, <1>4, <1>5 DEF Next

LEMMA PollInvariant == Spec => []PollInv
  <1>1. Init => PollInv
    BY InitInv DEF MissInv
  <1> QED
    BY <1>1, StepInv, PTL DEF Spec

\* Type correctness: the lock is held by exactly the task that polls, through
\* failures and restarts.
THEOREM TypeCorrect == Spec => []TypeOK
  <1>1. PollInv => TypeOK
    BY DEF PollInv
  <1> QED
    BY <1>1, PollInvariant, PTL

\* apply_sync_result never overwrites a booking with an older version.
THEOREM StoredNeverOlder == Spec => StoredMonotone
  <1>1. ASSUME PollInv, Next PROVE \A b \in Bookings : stored'[b] >= stored[b]
    <2>1. CASE \E t \in Tasks : Store(t)
      <3> PICK t \in Tasks : Store(t)
        BY <2>1
      <3>1. lock = t
        BY <1>1 DEF Store, PollEnds, PollInv, TypeOK
      <3> QED
        BY <1>1, <3>1 DEF Store, PollInv, PollCurrent, TypeOK
    <2>2. CASE UNCHANGED stored
      BY <1>1, <2>2 DEF PollInv, TypeOK
    <2> QED
      BY <1>1, <2>1, <2>2 DEF Next, Tick, ClockUpdate, PollStep, Request, BeginPoll,
         ReadPage, Refuse, Fail, Restart
  <1>2. PollInv /\ [Next]_vars => [\A b \in Bookings : stored'[b] >= stored[b]]_vars
    BY <1>1
  <1> QED
    BY <1>2, PollInvariant, PTL DEF Spec, StoredMonotone

-----------------------------------------------------------------------------
(* The table as a copy of Clock: an update of a booking is one of the      *)
(* source, Store is a pull, every other step leaves both alone.            *)

LEMMA ShowsUpdate ==
  ASSUME NEW b \in Bookings, PollInv, ClockUpdate(b)
  PROVE Copy!Update
  <1>1. clock \in [Bookings -> [version : Nat, stamp : Nat]]
    BY DEF PollInv, TypeOK
  <1>2. PICK s \in clock[b].stamp .. now :
           clock' = [clock EXCEPT ![b] = [version |-> @.version + 1, stamp |-> s]]
    BY DEF ClockUpdate
  <1>3. [c \in Bookings |-> clock'[c].version]
          = [[c \in Bookings |-> clock[c].version] EXCEPT ![b] = @ + 1]
    BY <1>1, <1>2
  <1> QED
    BY <1>3 DEF ClockUpdate, Copy!Update

LEMMA StorePulls ==
  ASSUME NEW t \in Tasks, PollInv, Store(t)
  PROVE Copy!Pull
  <1>1. lock = t /\ stored \in [Bookings -> Nat]
    BY DEF Store, PollEnds, PollInv, TypeOK
  <1>2. stored' = [b \in Bookings |-> IF fetched[t][b] = 0 THEN stored[b] ELSE fetched[t][b]]
    BY DEF Store
  <1>3. stored' \in [Bookings -> Nat]
    BY <1>2 DEF PollInv, TypeOK
  <1>4. ASSUME NEW b \in Bookings
        PROVE stored[b] <= stored'[b] /\ stored'[b] <= clock[b].version
    BY <1>1, <1>2 DEF PollInv, PollCurrent, VersionsBounded, TypeOK
  <1>5. UNCHANGED clock
    BY DEF Store
  <1> QED
    BY <1>3, <1>4, <1>5 DEF Copy!Pull

\* The bookings table refines a copy that trails Clock: no step of any task,
\* failed, refused, restarted or kept waiting, changes it otherwise.
THEOREM ClockMirrored == Spec => MirrorsClock
  <1>1. Init => Copy!Init
    <2> SUFFICES ASSUME Init PROVE Copy!Init
      OBVIOUS
    <2>1. clock \in [Bookings -> [version : {1}, stamp : 0..Start]]
      BY DEF Init
    <2>2. [b \in Bookings |-> clock[b].version] \in [Bookings -> Nat \ {0}]
      BY <2>1
    <2> QED
      BY <2>2 DEF Init, Copy!Init
  <1>2. PollInv /\ [Next]_vars => [Copy!Next]_(Copy!mirrorVars)
    <2> SUFFICES ASSUME PollInv, [Next]_vars PROVE [Copy!Next]_(Copy!mirrorVars)
      OBVIOUS
    <2>1. CASE \E b \in Bookings : ClockUpdate(b)
      BY <2>1, ShowsUpdate DEF Copy!Next
    <2>2. CASE \E t \in Tasks : Store(t)
      BY <2>2, StorePulls DEF Copy!Next
    <2>3. CASE UNCHANGED <<clock, stored>>
      BY <2>3 DEF Copy!mirrorVars
    <2> QED
      BY <2>1, <2>2, <2>3 DEF Next, Tick, PollStep, Request, BeginPoll, ReadPage, Refuse,
         Fail, Restart, vars
  <1> QED
    BY <1>1, <1>2, PollInvariant, PTL DEF Spec, MirrorsClock, Copy!Spec

-----------------------------------------------------------------------------
(* No update is missed.  MissInv adds to PollInv what a poll in progress   *)
(* has seen.                                                               *)

LEMMA UpdateMiss ==
  ASSUME LagCovered, NEW b \in Bookings, MissInv, ClockUpdate(b)
  PROVE (PollComplete /\ NoUpdateMissed)'
  <1> USE PollAssumption DEF MissInv, PollInv, ClockUpdate, taskVars
  <1>1. clock'[b].stamp \in Nat /\ clock'[b].stamp + Overlap >= now
    BY DEF TypeOK, LagCovered
  <1>2. \A c \in Bookings : c # b => clock'[c] = clock[c]
    BY DEF TypeOK
  <1>3. PollComplete'
    <2> SUFFICES ASSUME NEW t \in Tasks, lock = t, NEW c \in Bookings \ left[t],
                        (clock[c].stamp >= Scope(t))'
                 PROVE (\/ Got(t, c) = clock[c].version
                        \/ clock[c].stamp >= task[t].started - Overlap)'
      BY DEF PollComplete
    <2>1. CASE c = b
      BY <1>1, <2>1 DEF TypeOK
    <2>2. CASE c # b
      BY <1>2, <2>2 DEF PollComplete, Got, Scope
    <2> QED
      BY <2>1, <2>2
  <1>4. NoUpdateMissed'
    <2> SUFFICES ASSUME NEW c \in Bookings, InScope(c)', (stored[c] # clock[c].version)'
                 PROVE (cursor # Null /\
                        clock[c].stamp >= incremental_window_start(cursor, now))'
      BY DEF NoUpdateMissed
    <2>1. CASE c = b
      <3>1. cursor # Null /\ cursor \in Nat
        BY DEF InScope, TypeOK, Instant
      <3> QED
        BY <1>1, <2>1, <3>1 DEF incremental_window_start, TypeOK
    <2>2. CASE c # b
      BY <1>2, <2>2 DEF NoUpdateMissed, InScope
    <2> QED
      BY <2>1, <2>2
  <1> QED
    BY <1>3, <1>4

LEMMA ReadMiss ==
  ASSUME NEW t \in Tasks, NEW P \in SUBSET Bookings, MissInv, ReadPage(t, P)
  PROVE (PollComplete /\ NoUpdateMissed)'
  <1> USE PollAssumption DEF MissInv, PollInv, ReadPage
  <1>1. NoUpdateMissed'
    BY DEF NoUpdateMissed, InScope
  <1>2. PollComplete'
    <2> SUFFICES ASSUME NEW u \in Tasks, lock = u, NEW c \in Bookings \ left'[u],
                        (clock[c].stamp >= Scope(u))'
                 PROVE (\/ Got(u, c) = clock[c].version
                        \/ clock[c].stamp >= task[u].started - Overlap)'
      BY DEF PollComplete
    <2>0. u = t
      BY DEF TypeOK
    <2>1. CASE c \notin P
      <3>1. c \notin left[t] /\ fetched'[t][c] = fetched[t][c]
        BY <2>0, <2>1 DEF TypeOK
      <3> QED
        BY <2>0, <3>1 DEF PollComplete, Got, Scope
    <2>2. CASE c \in P /\ clock[c].stamp >= task[t].since
      <3>1. fetched'[t][c] = clock[c].version /\ clock[c].version # 0
        BY <2>2 DEF TypeOK, VersionsBounded
      <3> QED
        BY <2>0, <3>1 DEF Got
    <2>3. CASE c \in P /\ ~(clock[c].stamp >= task[t].since)
      <3>1. fetched'[t][c] = 0
        BY <2>3 DEF TypeOK, PollCurrent
      <3>2. firstWindow # Null /\ clock[c].stamp >= firstWindow
        BY <2>0, <2>3 DEF Scope
      <3>3. task[t].since = incremental_window_start(cursor, now)
        BY <2>0, <3>2 DEF PollCurrent, incremental_window_start
      <3>4. stored[c] = clock[c].version
        BY <2>3, <3>2, <3>3 DEF NoUpdateMissed, InScope
      <3> QED
        BY <2>0, <3>1, <3>4 DEF Got
    <2> QED
      BY <2>1, <2>2, <2>3
  <1> QED
    BY <1>1, <1>2

LEMMA StoreMiss ==
  ASSUME NEW t \in Tasks, MissInv, Store(t)
  PROVE (PollComplete /\ NoUpdateMissed)'
  <1> USE PollAssumption DEF MissInv, PollInv, Store, PollEnds, _advance_cursor
  <1>1. lock = t /\ lock' = Null
    BY DEF TypeOK
  <1>2. PollComplete'
    BY <1>1 DEF PollComplete
  <1>3. NoUpdateMissed'
    <2> SUFFICES ASSUME NEW c \in Bookings, InScope(c)', (stored[c] # clock[c].version)'
                 PROVE (cursor # Null /\
                        clock[c].stamp >= incremental_window_start(cursor, now))'
      BY DEF NoUpdateMissed
    <2>1. cursor' = task[t].started /\ cursor' # Null
      BY DEF TypeOK
    <2>2. stored'[c] = Got(t, c)
      BY DEF Got
    <2>3. clock[c].stamp >= Scope(t)
      BY DEF InScope, Scope
    <2>4. clock[c].stamp >= task[t].started - Overlap
      BY <1>1, <2>2, <2>3 DEF PollComplete
    <2> QED
      BY <2>1, <2>4 DEF incremental_window_start
  <1> QED
    BY <1>2, <1>3

\* Steps that leave bookings, cursor and scope alone, and whose poll, if any,
\* has read nothing.
LEMMA OtherMiss ==
  ASSUME MissInv, UNCHANGED <<clock, stored, cursor, firstWindow>>,
         \A t \in Tasks : lock' = t =>
           \/ left'[t] = Bookings
           \/ lock = t /\ UNCHANGED <<task[t], left[t], fetched[t]>>
  PROVE (PollComplete /\ NoUpdateMissed)'
  <1>1. NoUpdateMissed'
    BY DEF MissInv, NoUpdateMissed, InScope, incremental_window_start
  <1>2. PollComplete'
    BY DEF MissInv, PollComplete, Got, Scope
  <1> QED
    BY <1>1, <1>2

LEMMA StepMiss == LagCovered /\ MissInv /\ [Next]_vars => MissInv'
  <1> SUFFICES ASSUME LagCovered, MissInv, [Next]_vars PROVE (PollComplete /\ NoUpdateMissed)'
    BY StepInv DEF MissInv
  <1>0. TypeOK
    BY DEF MissInv, PollInv
  <1>1. CASE Tick
    BY <1>1, OtherMiss DEF Tick, taskVars
  <1>2. CASE \E b \in Bookings : ClockUpdate(b)
    BY <1>2, UpdateMiss
  <1>3. CASE \E t \in Tasks : PollStep(t) \/ Fail(t)
    <2> PICK t \in Tasks : PollStep(t) \/ Fail(t)
      BY <1>3
    <2>1. CASE Request(t)
      <3>1. \A u \in Tasks : lock' = u => lock = u /\ UNCHANGED <<task[u], left[u], fetched[u]>>
        BY <1>0, <2>1 DEF Request, TypeOK
      <3> QED
        BY <2>1, <3>1, OtherMiss DEF Request
    <2>2. CASE BeginPoll(t)
      <3>1. \A u \in Tasks : lock' = u => left'[u] = Bookings
        BY <1>0, <2>2 DEF BeginPoll, TypeOK
      <3> QED
        BY <2>2, <3>1, OtherMiss DEF BeginPoll
    <2>3. CASE Store(t)
      BY <2>3, StoreMiss
    <2>4. CASE \E P \in SUBSET Bookings : ReadPage(t, P)
      BY <2>4, ReadMiss
    <2>5. CASE Refuse(t) \/ Fail(t)
      <3>1. \A u \in Tasks : lock' # u
        BY <2>5, PollAssumption DEF Refuse, Fail, PollEnds
      <3> QED
        BY <2>5, <3>1, OtherMiss DEF Refuse, Fail
    <2> QED
      BY <2>1, <2>2, <2>3, <2>4, <2>5 DEF PollStep
  <1>4. CASE Restart
    <2>1. \A u \in Tasks : lock' # u
      BY <1>4, PollAssumption DEF Restart
    <2> QED
      BY <1>4, <2>1, OtherMiss DEF Restart
  <1>5. CASE UNCHANGED vars
    BY <1>5, OtherMiss DEF vars, taskVars
  <1> QED
    BY <1>1, <1>2, <1>3, <1>4, <1>5 DEF Next

\* If Clock shows an update no later than the overlap after its stamp, the
\* cursor never passes an update that was not stored.
THEOREM UpdatesNotMissed == LagCovered => (Spec => []NoUpdateMissed)
  <1> SUFFICES ASSUME LagCovered PROVE Spec => []NoUpdateMissed
    OBVIOUS
  <1>1. MissInv /\ [Next]_vars => MissInv'
    BY StepMiss
  <1>2. MissInv => NoUpdateMissed
    BY DEF MissInv
  <1> QED
    BY InitInv, <1>1, <1>2, PTL DEF Spec

=============================================================================
