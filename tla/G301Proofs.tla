----------------------------- MODULE G301Proofs -----------------------------
(***************************************************************************)
(* Theorems about the G301 entrance worker, for every set of rooms and     *)
(* intents, every device and every number of faults.                       *)
(***************************************************************************)
EXTENDS G301Worker, TLAPS

\* The call that holds the bus works on the newest intent of its room, whose
\* attempt is not final; it writes only what could be planned.
BusInv ==
  bus # Null =>
    LET a == attempt[bus.intent.room]
    IN  /\ a # Null /\ a.intent = bus.intent /\ a.phase # "terminal"
        /\ bus.at = "profile" => a.written = 0
        /\ bus.at = "write" =>
             plannable(bus.intent) /\ a.written < Len(plan_room_intent(bus.intent))

\* The device does what the attempt has written.
Holds(a, d) ==
  /\ a.written <= Len(plan_room_intent(a.intent))
  /\ \A k \in 1 .. a.written :
       d[plan_room_intent(a.intent)[k].register] = plan_room_intent(a.intent)[k].value

WrittenInv == \A r \in Rooms : attempt[r] # Null => Holds(attempt[r], device[r])

\* The result an attempt keeps agrees with the watermark of what was applied.
ResultInv ==
  \A r \in Rooms :
    attempt[r] # Null /\ attempt[r].result = "applied" => applied[r] = seen[r]

WorkerInv ==
  /\ TypeOK /\ WatermarksConsistent /\ BusInv /\ WrittenInv /\ ResultInv
  /\ AppliedMeansMatched /\ NoTrafficInCooldown

WithinLimits(r, d) ==
  /\ lower[r] * 10 <= d.temperature /\ d.temperature <= upper[r] * 10
  /\ limitation[r] = "heat" => d.mode \notin {4, 5}
  /\ limitation[r] = "cool_dry" => d.mode \notin {1, 5}

\* The device is left alone, or the newest intent of its room writes to it.
DeviceStep(i, d) ==
  \/ d = device[i.room]
  \/ /\ seen[i.room] = i.version
     /\ device[i.room].power = 0 /\ d.power = 1 => matches(i, d)
     /\ WithinLimits(i.room, device[i.room]) => WithinLimits(i.room, d)

\* An intent that is neither overtaken nor final is worked on, unless another
\* with the same version was there first.
Unfinished(i) ==
  /\ seen[i.room] <= i.version /\ terminal[i.room] < i.version
  /\ seen[i.room] = i.version => attempt[i.room].intent = i

\* What a step for intent i does to the room: the attempt becomes a, the
\* watermarks t and p, the device d; no other room is concerned.
RoomStep(i, a, t, p, d) ==
  /\ seen' = [seen EXCEPT ![i.room] = i.version]
  /\ attempt' = [attempt EXCEPT ![i.room] = a]
  /\ terminal' = [terminal EXCEPT ![i.room] = t]
  /\ applied' = [applied EXCEPT ![i.room] = p]
  /\ device' = [device EXCEPT ![i.room] = d]

\* Such a step keeps the attempt, the watermarks and the device in agreement.
RoomAgrees(i, a, t, p, d) ==
  /\ a \in IntentAttempt /\ a.intent = i /\ Holds(a, d)
  /\ t \in Nat /\ p \in Nat /\ p <= t /\ t <= i.version
  /\ a.phase = "terminal" <=> t = i.version
  /\ a.phase = "terminal" <=> a.result # Null
  /\ p = i.version => matches(i, d) /\ seen[i.room] = i.version
  /\ a.result = "applied" => p = i.version
  /\ d \in [Registers -> Nat] /\ DeviceStep(i, d)

WorksOn(i) ==
  /\ Unfinished(i)
  /\ \E a, t, p, d : RoomStep(i, a, t, p, d) /\ RoomAgrees(i, a, t, p, d)

RoomsUnchanged == UNCHANGED <<seen, terminal, applied, attempt, device>>

-----------------------------------------------------------------------------
(* Plans, delays and attempts.                                             *)

LEMMA IntentFields ==
  ASSUME NEW i \in Intents
  PROVE  /\ i.room \in Rooms /\ i.version \in Nat \ {0} /\ i.enabled \in BOOLEAN
         /\ i.enabled => i.mode \in {"heat", "cool", "auto"} /\ i.target \in Nat
  BY WorkerAssumption DEF DesiredRoomIntent, HvacMode

LEMMA RoundedIsNat ==
  ASSUME NEW v \in Nat
  PROVE  encode_set_temperature_c(v) \in Nat
  BY DEF encode_set_temperature_c

\* Rounding to a tenth of a degree does not leave limits given in degrees.
LEMMA RoundedWithin ==
  ASSUME NEW v \in Nat, NEW lo \in Nat, NEW hi \in Nat, lo * 100 <= v, v <= hi * 100
  PROVE  /\ lo * 10 <= encode_set_temperature_c(v)
         /\ encode_set_temperature_c(v) <= hi * 10
  BY DEF encode_set_temperature_c

\* A plan writes one to three registers, each once, and power last.
LEMMA PlanShape ==
  ASSUME NEW i \in Intents
  PROVE  LET plan == plan_room_intent(i)
         IN  /\ Len(plan) \in 1 .. 3 /\ DOMAIN plan = 1 .. Len(plan)
             /\ \A k \in 1 .. Len(plan) :
                  plan[k].register \in Registers /\ plan[k].value \in Nat
             /\ \A j, k \in 1 .. Len(plan) : j # k => plan[j].register # plan[k].register
  <1>1. CASE i.enabled
    <2>1. mode_from_hvac_mode(i.mode) \in Nat
      BY <1>1, IntentFields DEF mode_from_hvac_mode
    <2>2. encode_set_temperature_c(i.target) \in Nat
      BY <1>1, IntentFields, RoundedIsNat
    <2> QED
      BY <1>1, <2>1, <2>2 DEF plan_room_intent, RegisterWrite, Registers
  <1>2. CASE ~i.enabled
    BY <1>2 DEF plan_room_intent, RegisterWrite, Registers
  <1> QED
    BY <1>1, <1>2

LEMMA DelayBounded ==
  ASSUME NEW n \in Nat \ {0}
  PROVE  retry_delay(n) \in 0 .. RetryMax
  <1>1. Smaller(n, 17) \in 1 .. 17
    BY DEF Smaller
  <1>2. Doubled(n) \in Nat
    BY <1>1 DEF Doubled
  <1>3. RetryBase * Doubled(n) \in Nat
    BY <1>2, WorkerAssumption
  <1> QED
    BY <1>3, WorkerAssumption DEF retry_delay, Smaller

\* The failure count and the delay of a slave stay within their types.
LEMMA SlaveTypes ==
  ASSUME TypeOK, NEW r \in Rooms, record_slave_failure(r) \/ record_slave_success(r)
  PROVE  failures' \in [Rooms -> 0 .. FailureCap] /\ cooldown' \in [Rooms -> 0 .. RetryMax]
  <1>1. CASE record_slave_failure(r)
    <2>1. Smaller(failures[r] + 1, FailureCap) \in 0 .. FailureCap
      BY WorkerAssumption DEF TypeOK, Smaller
    <2>2. retry_delay(failures[r] + 1) \in 0 .. RetryMax
      BY WorkerAssumption, DelayBounded DEF TypeOK
    <2> QED
      BY <1>1, <2>1, <2>2 DEF TypeOK, record_slave_failure
  <1>2. CASE record_slave_success(r)
    <2>1. 0 \in 0 .. FailureCap /\ 0 \in 0 .. RetryMax
      BY WorkerAssumption
    <2> QED
      BY <1>2, <2>1 DEF TypeOK, record_slave_success
  <1> QED
    BY <1>1, <1>2

LEMMA FreshAttempt ==
  ASSUME NEW i \in Intents, NEW p \in Phases, NEW d
  PROVE  LET a == IntentAttemptFor(i, p)
         IN  /\ a \in IntentAttempt /\ a.intent = i /\ a.phase = p
             /\ a.written = 0 /\ a.result = Null /\ Holds(a, d)
  BY WorkerAssumption, PlanShape DEF IntentAttemptFor, IntentAttempt, Holds

-----------------------------------------------------------------------------
(* A step that works on an intent.                                         *)

\* It keeps everything the invariant says of the rooms.
LEMMA RoomsKept ==
  ASSUME WorkerInv, NEW i \in Intents, WorksOn(i)
  PROVE  /\ seen' \in [Rooms -> Nat] /\ terminal' \in [Rooms -> Nat]
         /\ applied' \in [Rooms -> Nat]
         /\ attempt' \in [Rooms -> IntentAttempt \cup {Null}]
         /\ device' \in [Rooms -> [Registers -> Nat]]
         /\ WatermarksConsistent' /\ AppliedMeansMatched' /\ WrittenInv' /\ ResultInv'
  <1> PICK a, t, p, d : RoomStep(i, a, t, p, d) /\ RoomAgrees(i, a, t, p, d)
    BY DEF WorksOn
  <1>0. i.room \in Rooms /\ i.version \in Nat /\ i.version > 0
    BY IntentFields
  <1>1. /\ seen' \in [Rooms -> Nat] /\ terminal' \in [Rooms -> Nat]
        /\ applied' \in [Rooms -> Nat]
        /\ attempt' \in [Rooms -> IntentAttempt \cup {Null}]
        /\ device' \in [Rooms -> [Registers -> Nat]]
    BY <1>0 DEF WorkerInv, TypeOK, RoomStep, RoomAgrees
  <1>2. \A r \in Rooms : r # i.room =>
          /\ seen'[r] = seen[r] /\ terminal'[r] = terminal[r] /\ applied'[r] = applied[r]
          /\ attempt'[r] = attempt[r] /\ device'[r] = device[r]
    BY DEF WorkerInv, TypeOK, RoomStep
  <1>3. /\ seen'[i.room] = i.version /\ terminal'[i.room] = t /\ applied'[i.room] = p
        /\ attempt'[i.room] = a /\ device'[i.room] = d
    BY <1>0 DEF WorkerInv, TypeOK, RoomStep
  <1>4. a # Null
    BY NullAssumption DEF RoomAgrees
  <1>5. WatermarksConsistent'
    <2> SUFFICES ASSUME NEW r \in Rooms
                 PROVE  /\ applied'[r] <= terminal'[r] /\ terminal'[r] <= seen'[r]
                        /\ seen'[r] > 0 => attempt'[r] # Null
                        /\ attempt'[r] # Null =>
                             /\ attempt'[r].intent.room = r
                             /\ attempt'[r].intent.version = seen'[r]
                             /\ attempt'[r].phase = "terminal" <=> terminal'[r] = seen'[r]
                             /\ attempt'[r].phase = "terminal" <=> attempt'[r].result # Null
      BY DEF WatermarksConsistent
    <2>1. CASE r = i.room
      BY <2>1, <1>0, <1>3, <1>4 DEF RoomAgrees
    <2>2. CASE r # i.room
      BY <2>2, <1>2 DEF WorkerInv, WatermarksConsistent
    <2> QED
      BY <2>1, <2>2
  <1>6. AppliedMeansMatched'
    <2> SUFFICES ASSUME NEW r \in Rooms, seen'[r] > 0, applied'[r] = seen'[r]
                 PROVE  matches(attempt'[r].intent, device'[r])
      BY DEF AppliedMeansMatched, matches
    <2>1. CASE r = i.room
      BY <2>1, <1>3 DEF RoomAgrees
    <2>2. CASE r # i.room
      BY <2>2, <1>2 DEF WorkerInv, AppliedMeansMatched
    <2> QED
      BY <2>1, <2>2
  <1>7. WrittenInv'
    <2> SUFFICES ASSUME NEW r \in Rooms, attempt'[r] # Null
                 PROVE  Holds(attempt'[r], device'[r])
      BY DEF WrittenInv, Holds
    <2>1. CASE r = i.room
      BY <2>1, <1>3 DEF RoomAgrees
    <2>2. CASE r # i.room
      BY <2>2, <1>2 DEF WorkerInv, WrittenInv
    <2> QED
      BY <2>1, <2>2
  <1>8. ResultInv'
    <2> SUFFICES ASSUME NEW r \in Rooms, attempt'[r] # Null, attempt'[r].result = "applied"
                 PROVE  applied'[r] = seen'[r]
      BY DEF ResultInv
    <2>1. CASE r = i.room
      BY <2>1, <1>3 DEF RoomAgrees
    <2>2. CASE r # i.room
      BY <2>2, <1>2 DEF WorkerInv, ResultInv
    <2> QED
      BY <2>1, <2>2
  <1> QED
    BY <1>1, <1>5, <1>6, <1>7, <1>8

\* The attempt becomes final with a result.
LEMMA Marked ==
  ASSUME WorkerInv, NEW i \in Intents, Unfinished(i),
         NEW a \in IntentAttempt, a.intent = i,
         NEW d \in [Registers -> Nat], Holds(a, d), DeviceStep(i, d),
         NEW status \in Statuses,
         status = "applied" => matches(i, d) /\ seen[i.room] = i.version,
         mark_terminal(i, a, status),
         seen' = [seen EXCEPT ![i.room] = i.version],
         device' = [device EXCEPT ![i.room] = d]
  PROVE  WorksOn(i) /\ report' \in IntentExecutionResult
  <1> DEFINE b == [a EXCEPT !.phase = "terminal", !.result = status]
             p == IF status = "applied" THEN i.version ELSE applied[i.room]
  <1>0. i.room \in Rooms /\ i.version \in Nat /\ i.version > 0
    BY IntentFields
  <1>1. /\ b \in IntentAttempt /\ b.intent = i /\ b.written = a.written
        /\ b.phase = "terminal" /\ b.result # Null /\ b.result = status
    BY NullAssumption DEF IntentAttempt, Phases
  <1>2. Holds(b, d)
    BY <1>1 DEF Holds
  <1>3. /\ applied[i.room] \in Nat /\ applied[i.room] <= terminal[i.room]
        /\ terminal[i.room] \in Nat /\ terminal[i.room] < i.version
    BY <1>0 DEF WorkerInv, TypeOK, WatermarksConsistent, Unfinished
  <1>4. p \in Nat /\ p <= i.version /\ (p = i.version <=> status = "applied")
    BY <1>0, <1>3
  <1>5. RoomAgrees(i, b, i.version, p, d)
    BY <1>0, <1>1, <1>2, <1>4 DEF RoomAgrees
  <1>6. applied' = [applied EXCEPT ![i.room] = p]
    BY <1>0 DEF mark_terminal, WorkerInv, TypeOK
  <1>7. RoomStep(i, b, i.version, p, d)
    BY <1>6 DEF RoomStep, mark_terminal
  <1>8. WorksOn(i)
    BY <1>5, <1>7 DEF WorksOn
  <1>9. report' \in IntentExecutionResult
    BY DEF mark_terminal, Report, IntentAttempt, IntentExecutionResult
  <1> QED
    BY <1>8, <1>9

\* The attempt goes on, or starts again.
LEMMA Continued ==
  ASSUME WorkerInv, NEW i \in Intents, Unfinished(i),
         NEW a \in IntentAttempt, a.intent = i, a.phase # "terminal", a.result = Null,
         NEW d \in [Registers -> Nat], Holds(a, d), DeviceStep(i, d),
         attempt' = [attempt EXCEPT ![i.room] = a],
         UNCHANGED <<terminal, applied>>,
         seen' = [seen EXCEPT ![i.room] = i.version],
         device' = [device EXCEPT ![i.room] = d]
  PROVE  WorksOn(i)
  <1> DEFINE t == terminal[i.room]
             p == applied[i.room]
  <1>0. i.room \in Rooms /\ i.version \in Nat /\ i.version > 0
    BY IntentFields
  <1>1. p \in Nat /\ t \in Nat /\ p <= t /\ t < i.version
    BY <1>0 DEF WorkerInv, TypeOK, WatermarksConsistent, Unfinished
  <1>2. a.result # "applied"
    BY NullAssumption DEF Statuses
  <1>3. RoomAgrees(i, a, t, p, d)
    BY <1>0, <1>1, <1>2 DEF RoomAgrees
  <1>4. RoomStep(i, a, t, p, d)
    BY DEF RoomStep, WorkerInv, TypeOK
  <1> QED
    BY <1>3, <1>4 DEF WorksOn

\* The device of a room that is left alone.
LEMMA DeviceKept ==
  ASSUME TypeOK, NEW i \in Intents
  PROVE  /\ device[i.room] \in [Registers -> Nat]
         /\ device = [device EXCEPT ![i.room] = device[i.room]]
         /\ DeviceStep(i, device[i.room])
  BY IntentFields DEF TypeOK, DeviceStep

\* What the invariant says of the call that holds the bus.
LEMMA CallUnderWay ==
  ASSUME WorkerInv, NEW i \in Intents, bus # Null, bus.intent = i
  PROVE  /\ bus \in BusCall /\ Unfinished(i) /\ seen[i.room] = i.version
         /\ seen = [seen EXCEPT ![i.room] = i.version]
         /\ attempt[i.room] \in IntentAttempt /\ attempt[i.room].intent = i
         /\ attempt[i.room].phase # "terminal" /\ attempt[i.room].result = Null
         /\ Holds(attempt[i.room], device[i.room])
         /\ cooldown[i.room] = 0
  <1>0. i.room \in Rooms /\ i.version \in Nat /\ i.version > 0
    BY IntentFields
  <1>1. /\ attempt[i.room] # Null /\ attempt[i.room].intent = i
        /\ attempt[i.room].phase # "terminal"
    BY DEF WorkerInv, BusInv
  <1>2. attempt[i.room] \in IntentAttempt
    BY <1>0, <1>1 DEF WorkerInv, TypeOK
  <1>3. /\ seen[i.room] = i.version /\ terminal[i.room] <= seen[i.room]
        /\ terminal[i.room] # seen[i.room] /\ attempt[i.room].result = Null
    BY <1>0, <1>1 DEF WorkerInv, WatermarksConsistent
  <1>4. terminal[i.room] \in Nat /\ seen \in [Rooms -> Nat] /\ bus \in BusCall
    BY <1>0 DEF WorkerInv, TypeOK
  <1>5. Unfinished(i) /\ seen = [seen EXCEPT ![i.room] = i.version]
    BY <1>0, <1>1, <1>3, <1>4 DEF Unfinished
  <1>6. Holds(attempt[i.room], device[i.room])
    BY <1>0, <1>1 DEF WorkerInv, WrittenInv
  <1>7. cooldown[i.room] = 0
    BY DEF WorkerInv, NoTrafficInCooldown
  <1> QED
    BY <1>1, <1>2, <1>3, <1>4, <1>5, <1>6, <1>7

-----------------------------------------------------------------------------
(* The actions.                                                            *)

\* What is shown of every step: it works on an intent or leaves all rooms as
\* they are, and keeps the rest of the invariant.
Kept ==
  /\ RoomsUnchanged \/ \E i \in Intents : WorksOn(i)
  /\ failures' \in [Rooms -> 0 .. FailureCap]
  /\ cooldown' \in [Rooms -> 0 .. RetryMax]
  /\ bus' \in BusCall \cup {Null}
  /\ window' \in [Intents -> {"early", "open", "over"}]
  /\ report' \in IntentExecutionResult \cup {Null}
  /\ faults' \in 0 .. MaxFaults
  /\ BusInv' /\ NoTrafficInCooldown'

LEMMA BusReleased ==
  ASSUME ReleaseBus
  PROVE  bus' \in BusCall \cup {Null} /\ BusInv' /\ NoTrafficInCooldown'
  BY DEF ReleaseBus, BusInv, NoTrafficInCooldown

LEMMA FaultCounted ==
  ASSUME TypeOK, Fault \/ UNCHANGED faults
  PROVE  faults' \in 0 .. MaxFaults
  BY WorkerAssumption DEF TypeOK, Fault

\* Execution from the start, of an intent that is not final.
LEMMA Executed ==
  ASSUME WorkerInv, NEW i \in Intents, Unfinished(i), execute_intent(i),
         seen' = [seen EXCEPT ![i.room] = i.version],
         UNCHANGED <<slaveVars, physicalVars>>, Fault \/ UNCHANGED faults
  PROVE  Kept
  <1> DEFINE d == device[i.room]
             ToWrite == window[i] = "open" /\ cooldown[i.room] = 0 /\ ~i.enabled
             a == IntentAttemptFor(i, IF ToWrite THEN "writing" ELSE "retryable")
  <1>0. i.room \in Rooms /\ TypeOK
    BY IntentFields DEF WorkerInv
  <1>1. /\ a \in IntentAttempt /\ a.intent = i /\ a.written = 0 /\ a.result = Null
        /\ a.phase # "terminal" /\ Holds(a, d)
    BY FreshAttempt DEF Phases
  <1>2. /\ d \in [Registers -> Nat] /\ DeviceStep(i, d)
        /\ device' = [device EXCEPT ![i.room] = d]
    BY <1>0, DeviceKept DEF physicalVars
  <1>3. /\ failures' \in [Rooms -> 0 .. FailureCap]
        /\ cooldown' \in [Rooms -> 0 .. RetryMax]
        /\ window' \in [Intents -> {"early", "open", "over"}]
        /\ faults' \in 0 .. MaxFaults
    BY <1>0, FaultCounted DEF TypeOK, slaveVars, physicalVars
  <1>4. CASE window[i] = "over" /\ mark_terminal(i, a, "expired") /\ ReleaseBus
    <2>1. "expired" \in Statuses
      BY DEF Statuses
    <2>2. WorksOn(i) /\ report' \in IntentExecutionResult
      BY <1>1, <1>2, <1>4, <2>1, Marked
    <2> QED
      BY <1>3, <1>4, <2>2, BusReleased DEF Kept
  <1>5. CASE /\ attempt' = [attempt EXCEPT ![i.room] = a]
             /\ UNCHANGED <<terminal, applied>>
             /\ \/ /\ Report(i, "not_yet_effective", 0) \/ Report(i, "device_offline", 0)
                   /\ ReleaseBus
                \/ /\ bus' = [intent |-> i, at |-> IF i.enabled THEN "profile" ELSE "write",
                              resumed |-> FALSE]
                   /\ cooldown[i.room] = 0
                   /\ UNCHANGED report
    <2>1. WorksOn(i)
      BY <1>1, <1>2, <1>5, Continued
    <2>2. CASE ReleaseBus
      <3>1. report' \in IntentExecutionResult \cup {Null}
        BY <1>0, <1>5 DEF Report, Statuses, TypeOK, IntentExecutionResult
      <3> QED
        BY <1>3, <2>1, <2>2, <3>1, BusReleased DEF Kept
    <2>3. CASE /\ bus' = [intent |-> i, at |-> IF i.enabled THEN "profile" ELSE "write",
                          resumed |-> FALSE]
               /\ cooldown[i.room] = 0
               /\ UNCHANGED report
      <3>1. bus' \in BusCall /\ bus'.intent = i
        BY <2>3 DEF BusCall
      <3>2. attempt'[i.room] = a
        BY <1>0, <1>5 DEF TypeOK
      <3>3. a # Null
        BY <1>1, NullAssumption
      <3>4. bus'.at = "write" =>
              plannable(i) /\ a.written < Len(plan_room_intent(i))
        BY <1>1, <2>3, PlanShape DEF plannable
      <3>5. BusInv'
        <4>1. attempt'[bus'.intent.room] = a
          BY <3>1, <3>2
        <4>2. BusInv' <=> (bus' # Null =>
                /\ a # Null /\ a.intent = i /\ a.phase # "terminal"
                /\ bus'.at = "profile" => a.written = 0
                /\ bus'.at = "write" =>
                     plannable(i) /\ a.written < Len(plan_room_intent(i)))
          BY <3>1, <4>1 DEF BusInv
        <4> QED
          BY <1>1, <3>3, <3>4, <4>2
      <3>6. NoTrafficInCooldown'
        BY <2>3, <3>1 DEF NoTrafficInCooldown, slaveVars
      <3>7. report' \in IntentExecutionResult \cup {Null}
        BY <1>0, <2>3 DEF TypeOK
      <3> QED
        BY <1>3, <2>1, <3>1, <3>5, <3>6, <3>7 DEF Kept
    <2> QED
      BY <1>5, <2>2, <2>3
  <1> QED
    BY <1>4, <1>5 DEF execute_intent

\* A call that only reports, while the bus is free.
LEMMA Reported ==
  ASSUME WorkerInv, NEW i \in Intents, NEW status \in Statuses, NEW n \in Nat,
         bus = Null, Report(i, status, n),
         UNCHANGED <<versionVars, attempt, slaveVars, bus, physicalVars, faults>>
  PROVE  Kept
  BY DEF Kept, Report, WorkerInv, TypeOK, RoomsUnchanged, versionVars, slaveVars,
         physicalVars, BusInv, NoTrafficInCooldown, IntentExecutionResult

LEMMA ReceiveKept ==
  ASSUME WorkerInv, NEW i \in Intents, Receive(i)
  PROVE  Kept
  <1>0. i.room \in Rooms /\ i.version \in Nat /\ i.version > 0
    BY IntentFields
  <1>1. /\ seen \in [Rooms -> Nat] /\ terminal \in [Rooms -> Nat]
        /\ seen[i.room] \in Nat /\ terminal[i.room] \in Nat
        /\ terminal[i.room] <= seen[i.room]
    BY <1>0 DEF WorkerInv, TypeOK, WatermarksConsistent
  <1>2. CASE ReceiveNewer(i)
    <2>1. Unfinished(i)
      BY <1>0, <1>1, <1>2 DEF Unfinished, ReceiveNewer
    <2> QED
      BY <1>2, <2>1, Executed DEF ReceiveNewer
  <1>3. CASE ReceiveStale(i)
    BY <1>3, Reported DEF ReceiveStale, Statuses
  <1>4. CASE ReceiveConflicting(i)
    BY <1>4, Reported DEF ReceiveConflicting, Statuses
  <1>5. ASSUME NEW phases, Redelivered(i, phases)
        PROVE  /\ bus = Null /\ seen = [seen EXCEPT ![i.room] = i.version]
               /\ attempt[i.room] \in IntentAttempt /\ attempt[i.room].intent = i
               /\ attempt[i.room].phase \in phases
               /\ attempt[i.room].phase = "terminal" <=> attempt[i.room].result # Null
               /\ attempt[i.room].phase # "terminal" => Unfinished(i)
               /\ Holds(attempt[i.room], device[i.room])
    <2>1. /\ bus = Null /\ i.version = seen[i.room] /\ attempt[i.room].intent = i
          /\ attempt[i.room].phase \in phases
      BY <1>5 DEF Redelivered
    <2>2. seen = [seen EXCEPT ![i.room] = i.version]
      BY <1>0, <1>1, <2>1
    <2>3. /\ attempt[i.room] # Null
          /\ attempt[i.room].phase = "terminal" <=> terminal[i.room] = seen[i.room]
          /\ attempt[i.room].phase = "terminal" <=> attempt[i.room].result # Null
      BY <1>0, <2>1 DEF WorkerInv, WatermarksConsistent
    <2>4. attempt[i.room] \in IntentAttempt /\ Holds(attempt[i.room], device[i.room])
      BY <1>0, <2>3 DEF WorkerInv, TypeOK, WrittenInv
    <2>5. attempt[i.room].phase # "terminal" => Unfinished(i)
      BY <1>0, <1>1, <2>1, <2>3 DEF Unfinished
    <2> QED
      BY <2>1, <2>2, <2>3, <2>4, <2>5
  <1>6. CASE ReceiveTerminal(i)
    <2>1. Redelivered(i, {"terminal"})
      BY <1>6 DEF ReceiveTerminal
    <2>2. attempt[i.room].result \in Statuses /\ attempt[i.room].written \in Nat
      BY <1>5, <2>1 DEF IntentAttempt
    <2> QED
      BY <1>5, <1>6, <2>1, <2>2, Reported DEF ReceiveTerminal
  <1>7. CASE ReceiveRetryable(i)
    <2>1. Redelivered(i, {"retryable"})
      BY <1>7 DEF ReceiveRetryable
    <2>2. Unfinished(i) /\ seen' = [seen EXCEPT ![i.room] = i.version]
      BY <1>5, <1>7, <2>1 DEF ReceiveRetryable
    <2> QED
      BY <1>7, <2>2, Executed DEF ReceiveRetryable
  <1>8. CASE ReceiveUncertain(i)
    <2>1. Redelivered(i, {"writing", "verification_pending"})
      BY <1>8 DEF ReceiveUncertain
    <2>2. CASE Report(i, "device_offline", 0) /\ UNCHANGED bus
      BY <1>5, <1>8, <2>1, <2>2, Reported DEF ReceiveUncertain, Statuses
    <2>3. CASE /\ cooldown[i.room] = 0
               /\ bus' = [intent |-> i, at |-> "verify", resumed |-> TRUE]
               /\ UNCHANGED report
      <3>1. bus' \in BusCall /\ bus'.intent = i /\ bus'.at = "verify"
        BY <2>3 DEF BusCall
      <3>2. UNCHANGED <<versionVars, attempt, slaveVars, physicalVars, report, faults>>
        BY <1>8, <2>3 DEF ReceiveUncertain
      <3>3. attempt[i.room] # Null /\ attempt[i.room].intent = i
            /\ attempt[i.room].phase # "terminal"
        BY <1>5, <2>1, NullAssumption
      <3>4. BusInv' /\ NoTrafficInCooldown'
        BY <2>3, <3>1, <3>2, <3>3 DEF BusInv, NoTrafficInCooldown, slaveVars
      <3> QED
        BY <3>1, <3>2, <3>4 DEF Kept, WorkerInv, TypeOK, RoomsUnchanged, versionVars,
           slaveVars, physicalVars
    <2> QED
      BY <1>8, <2>2, <2>3 DEF ReceiveUncertain
  <1> QED
    BY <1>2, <1>3, <1>4, <1>6, <1>7, <1>8 DEF Receive

\* A write of a plan touches one register, keeps those written before it, and
\* switches on only what is configured and within the limits.
LEMMA WritePerformed ==
  ASSUME WorkerInv, NEW i \in Intents, At(i, "write"), Performed(i)
  PROVE  LET a == attempt[i.room]
             d == [device[i.room] EXCEPT ![NextWrite(i).register] = NextWrite(i).value]
         IN  /\ d \in [Registers -> Nat] /\ device' = [device EXCEPT ![i.room] = d]
             /\ Holds(a, d) /\ Holds([a EXCEPT !.written = @ + 1], d)
             /\ DeviceStep(i, d)
  <1> DEFINE a == attempt[i.room]
             plan == plan_room_intent(i)
             n == a.written + 1
             d == [device[i.room] EXCEPT ![plan[n].register] = plan[n].value]
  <1>0. i.room \in Rooms /\ bus # Null /\ bus.intent = i
    BY IntentFields DEF At
  <1>1. /\ a \in IntentAttempt /\ a.intent = i /\ a.written \in Nat
        /\ Holds(a, device[i.room]) /\ seen[i.room] = i.version
    BY <1>0, CallUnderWay DEF IntentAttempt
  <1>2. plannable(i) /\ a.written < Len(plan)
    BY <1>0 DEF WorkerInv, BusInv, At
  <1>3. /\ n \in 1 .. Len(plan) /\ plan[n].register \in Registers /\ plan[n].value \in Nat
        /\ \A k \in 1 .. a.written : plan[k].register \in Registers
                                     /\ plan[k].register # plan[n].register
    BY <1>1, <1>2, PlanShape
  <1>4. /\ device \in [Rooms -> [Registers -> Nat]]
        /\ device[i.room] \in [Registers -> Nat]
    BY <1>0 DEF WorkerInv, TypeOK
  <1>5. d \in [Registers -> Nat] /\ NextWrite(i) = plan[n]
    BY <1>3, <1>4 DEF NextWrite, Current
  <1>6. device' = [device EXCEPT ![i.room] = d]
    BY <1>0, <1>4, <1>5 DEF Performed
  <1>7. d[plan[n].register] = plan[n].value
    BY <1>3, <1>4
  <1>8. \A k \in 1 .. a.written : d[plan[k].register] = plan[k].value
    BY <1>1, <1>3, <1>4 DEF Holds
  <1>9. Holds(a, d)
    BY <1>1, <1>8 DEF Holds
  <1>10. Holds([a EXCEPT !.written = @ + 1], d)
    <2> DEFINE b == [a EXCEPT !.written = @ + 1]
    <2>1. b.written = n /\ b.intent = i
      BY <1>1 DEF IntentAttempt
    <2>2. \A k \in 1 .. n : d[plan[k].register] = plan[k].value
      BY <1>1, <1>7, <1>8
    <2> QED
      BY <1>3, <2>1, <2>2 DEF Holds
  <1>11. device[i.room].power = 0 /\ d.power = 1 => matches(i, d)
    <2> SUFFICES ASSUME device[i.room]["power"] = 0, d["power"] = 1
                 PROVE  matches(i, d)
      OBVIOUS
    <2>1. plan[n].register = "power" /\ plan[n].value = 1
      BY <1>3, <1>4, <1>7
    <2>2. i.enabled /\ n = 3 /\ Len(plan) = 3
      BY <1>3, <2>1, IntentFields DEF plan_room_intent, RegisterWrite
    <2>3. \A k \in 1 .. 3 : d[plan[k].register] = plan[k].value
      BY <1>1, <1>7, <1>8, <2>2
    <2> QED
      BY <2>2, <2>3, PlanShape DEF matches
  <1>12. WithinLimits(i.room, device[i.room]) => WithinLimits(i.room, d)
    <2> SUFFICES ASSUME WithinLimits(i.room, device[i.room])
                 PROVE  WithinLimits(i.room, d)
      OBVIOUS
    <2>1. CASE plan[n].register = "power"
      BY <1>4, <2>1 DEF WithinLimits, Registers
    <2>2. CASE plan[n].register = "temperature"
      <3>1. i.enabled /\ plan[n].value = encode_set_temperature_c(i.target)
        BY <1>3, <2>2, IntentFields DEF plan_room_intent, RegisterWrite
      <3>2. /\ i.target \in Nat /\ lower[i.room] \in Nat /\ upper[i.room] \in Nat
            /\ lower[i.room] * 100 <= i.target /\ i.target <= upper[i.room] * 100
        BY <1>0, <1>2, <3>1, IntentFields, WorkerAssumption DEF plannable
      <3>3. /\ lower[i.room] * 10 <= d["temperature"]
            /\ d["temperature"] <= upper[i.room] * 10
        BY <1>7, <2>2, <3>1, <3>2, RoundedWithin
      <3> QED
        BY <1>4, <2>2, <3>3 DEF WithinLimits, Registers
    <2>3. CASE plan[n].register = "mode"
      <3>1. i.enabled /\ plan[n].value = mode_from_hvac_mode(i.mode)
        BY <1>3, <2>3, IntentFields DEF plan_room_intent, RegisterWrite
      <3>2. i.mode \in {"heat", "cool", "auto"} /\ validate_mode(i)
        BY <1>2, <3>1, IntentFields DEF plannable
      <3>3. /\ limitation[i.room] = "heat" => plan[n].value \notin {4, 5}
            /\ limitation[i.room] = "cool_dry" => plan[n].value \notin {1, 5}
        BY <3>1, <3>2 DEF validate_mode, mode_from_hvac_mode
      <3>4. d["mode"] = plan[n].value /\ d["temperature"] = device[i.room]["temperature"]
        BY <1>4, <1>7, <2>3 DEF Registers
      <3> QED
        BY <3>3, <3>4 DEF WithinLimits
    <2> QED
      BY <1>3, <2>1, <2>2, <2>3 DEF Registers
  <1> QED
    BY <1>1, <1>5, <1>6, <1>9, <1>10, <1>11, <1>12 DEF DeviceStep

\* The call ends with a final result of its attempt.
LEMMA EndsFinal ==
  ASSUME WorkerInv, NEW i \in Intents, bus # Null, bus.intent = i,
         NEW status \in Statuses, mark_terminal(i, Current(i), status), ReleaseBus,
         status = "applied" => matches(i, device[i.room]) /\ UNCHANGED device,
         UNCHANGED device \/ (At(i, "write") /\ Performed(i)),
         UNCHANGED <<seen, window>>,
         UNCHANGED slaveVars \/ record_slave_failure(i.room) \/ record_slave_success(i.room),
         Fault \/ UNCHANGED faults
  PROVE  Kept
  <1>0. i.room \in Rooms /\ TypeOK
    BY IntentFields DEF WorkerInv
  <1>1. \E d \in [Registers -> Nat] :
          /\ device' = [device EXCEPT ![i.room] = d]
          /\ Holds(Current(i), d) /\ DeviceStep(i, d)
          /\ UNCHANGED device => d = device[i.room]
    <2>1. CASE UNCHANGED device
      BY <1>0, <2>1, CallUnderWay, DeviceKept DEF Current
    <2>2. CASE At(i, "write") /\ Performed(i)
      <3> DEFINE d == [device[i.room] EXCEPT ![NextWrite(i).register] = NextWrite(i).value]
      <3>1. /\ d \in [Registers -> Nat] /\ device' = [device EXCEPT ![i.room] = d]
            /\ Holds(attempt[i.room], d) /\ DeviceStep(i, d)
        BY <2>2, WritePerformed
      <3>2. UNCHANGED device => d = device[i.room]
        BY <1>0, <3>1 DEF TypeOK
      <3> QED
        BY <3>1, <3>2 DEF Current
    <2> QED
      BY <2>1, <2>2
  <1>2. /\ Unfinished(i) /\ Current(i) \in IntentAttempt /\ Current(i).intent = i
        /\ seen' = [seen EXCEPT ![i.room] = i.version]
    BY CallUnderWay DEF Current
  <1>3. PICK d \in [Registers -> Nat] :
          /\ device' = [device EXCEPT ![i.room] = d]
          /\ Holds(Current(i), d) /\ DeviceStep(i, d)
          /\ UNCHANGED device => d = device[i.room]
    BY <1>1
  <1>4. status = "applied" => matches(i, d) /\ seen[i.room] = i.version
    BY <1>3, CallUnderWay
  <1>5. WorksOn(i) /\ report' \in IntentExecutionResult
    BY <1>2, <1>3, <1>4, Marked
  <1>6. failures' \in [Rooms -> 0 .. FailureCap] /\ cooldown' \in [Rooms -> 0 .. RetryMax]
    BY <1>0, SlaveTypes DEF TypeOK, slaveVars
  <1>7. /\ window' \in [Intents -> {"early", "open", "over"}]
        /\ faults' \in 0 .. MaxFaults
    BY <1>0, FaultCounted DEF TypeOK
  <1> QED
    BY <1>5, <1>6, <1>7, BusReleased DEF Kept

\* The call ends, or goes on, with its attempt not final.
LEMMA EndsOpen ==
  ASSUME WorkerInv, NEW i \in Intents, bus # Null, bus.intent = i,
         NEW phase \in Phases \ {"terminal"},
         attempt' = [attempt EXCEPT ![i.room].phase = phase]
           \/ UNCHANGED attempt,
         UNCHANGED device \/ (At(i, "write") /\ Performed(i)),
         UNCHANGED <<versionVars, window>>
  PROVE  WorksOn(i)
  <1> DEFINE b == [Current(i) EXCEPT !.phase = phase]
  <1>0. i.room \in Rooms /\ TypeOK
    BY IntentFields DEF WorkerInv
  <1>1. /\ Unfinished(i) /\ Current(i) \in IntentAttempt /\ Current(i).intent = i
        /\ Current(i).phase # "terminal" /\ Current(i).result = Null
        /\ seen' = [seen EXCEPT ![i.room] = i.version]
    BY CallUnderWay DEF Current, versionVars
  <1>2. PICK d \in [Registers -> Nat] :
          /\ device' = [device EXCEPT ![i.room] = d]
          /\ Holds(Current(i), d) /\ DeviceStep(i, d)
    <2>1. CASE UNCHANGED device
      BY <1>0, <2>1, CallUnderWay, DeviceKept DEF Current
    <2>2. CASE At(i, "write") /\ Performed(i)
      <3> DEFINE d == [device[i.room] EXCEPT ![NextWrite(i).register] = NextWrite(i).value]
      <3>1. /\ d \in [Registers -> Nat] /\ device' = [device EXCEPT ![i.room] = d]
            /\ Holds(attempt[i.room], d) /\ DeviceStep(i, d)
        BY <2>2, WritePerformed
      <3> QED
        BY <3>1 DEF Current
    <2> QED
      BY <2>1, <2>2
  <1>3. UNCHANGED <<terminal, applied>>
    BY DEF versionVars
  <1>4. CASE attempt' = [attempt EXCEPT ![i.room].phase = phase]
    <2>1. /\ b \in IntentAttempt /\ b.intent = i /\ b.phase # "terminal" /\ b.result = Null
          /\ b.written = Current(i).written
      BY <1>1 DEF IntentAttempt
    <2>2. Holds(b, d)
      BY <1>1, <1>2, <2>1 DEF Holds
    <2>3. attempt' = [attempt EXCEPT ![i.room] = b]
      BY <1>0, <1>4 DEF TypeOK, Current
    <2> QED
      BY <1>1, <1>2, <1>3, <2>1, <2>2, <2>3, Continued
  <1>5. CASE UNCHANGED attempt
    <2>1. attempt' = [attempt EXCEPT ![i.room] = Current(i)]
      BY <1>0, <1>5 DEF TypeOK, Current
    <2> QED
      BY <1>1, <1>2, <1>3, <2>1, Continued
  <1> QED
    BY <1>4, <1>5

\* The call goes on to another bus operation.
LEMMA BusKept ==
  ASSUME WorkerInv, NEW i \in Intents, bus # Null, bus.intent = i,
         NEW a \in IntentAttempt, a.intent = i, a.phase # "terminal",
         attempt' = [attempt EXCEPT ![i.room] = a],
         NEW where \in {"write", "verify"}, bus' = [bus EXCEPT !.at = where],
         where = "write" => plannable(i) /\ a.written < Len(plan_room_intent(i)),
         UNCHANGED slaveVars
  PROVE  bus' \in BusCall /\ BusInv' /\ NoTrafficInCooldown'
  <1>0. i.room \in Rooms /\ bus \in BusCall /\ cooldown[i.room] = 0
    BY IntentFields, CallUnderWay
  <1>1. bus' \in BusCall /\ bus'.intent = i /\ bus'.at = where
    BY <1>0 DEF BusCall
  <1>2. attempt'[bus'.intent.room] = a
    BY <1>0, <1>1 DEF WorkerInv, TypeOK
  <1>3. BusInv'
    <2>1. BusInv' <=> (bus' # Null =>
            /\ a # Null /\ a.intent = i /\ a.phase # "terminal"
            /\ bus'.at = "profile" => a.written = 0
            /\ bus'.at = "write" =>
                 plannable(i) /\ a.written < Len(plan_room_intent(i)))
      BY <1>1, <1>2 DEF BusInv
    <2> QED
      BY <1>1, <2>1, NullAssumption
  <1>4. NoTrafficInCooldown'
    BY <1>0, <1>1 DEF NoTrafficInCooldown, slaveVars
  <1> QED
    BY <1>1, <1>3, <1>4

LEMMA ProfileReadKept ==
  ASSUME WorkerInv, NEW i \in Intents, ProfileRead(i)
  PROVE  Kept
  <1> DEFINE a == [attempt[i.room] EXCEPT !.phase = "writing"]
  <1>0. /\ bus # Null /\ bus.intent = i /\ bus.at = "profile"
        /\ UNCHANGED <<seen, slaveVars, physicalVars, faults>>
    BY DEF ProfileRead, At
  <1>1. i.room \in Rooms /\ TypeOK
    BY IntentFields DEF WorkerInv
  <1>2. CASE /\ plannable(i) /\ SetPhase(i, "writing")
             /\ bus' = [bus EXCEPT !.at = "write"]
             /\ UNCHANGED <<terminal, applied, report>>
    <2>1. /\ attempt[i.room] \in IntentAttempt /\ attempt[i.room].intent = i
          /\ attempt[i.room].written = 0
      BY <1>0, CallUnderWay DEF WorkerInv, BusInv
    <2>2. /\ a \in IntentAttempt /\ a.intent = i /\ a.phase = "writing" /\ a.written = 0
          /\ attempt' = [attempt EXCEPT ![i.room] = a]
      BY <1>1, <1>2, <2>1 DEF IntentAttempt, Phases, SetPhase, TypeOK
    <2>3. bus' \in BusCall /\ BusInv' /\ NoTrafficInCooldown'
      <3>1. 0 < Len(plan_room_intent(i))
        BY PlanShape
      <3> QED
        BY <1>0, <1>2, <2>2, <3>1, BusKept
    <2>4. WorksOn(i)
      <3>1. "writing" \in Phases \ {"terminal"}
        BY DEF Phases
      <3>2. /\ attempt' = [attempt EXCEPT ![i.room].phase = "writing"]
            /\ UNCHANGED <<versionVars, device, window>>
        BY <1>0, <1>2 DEF SetPhase, versionVars, physicalVars
      <3> QED
        BY <1>0, <3>1, <3>2, EndsOpen
    <2> QED
      BY <1>0, <1>1, <1>2, <2>3, <2>4 DEF Kept, TypeOK, slaveVars, physicalVars
  <1>3. CASE mark_terminal(i, Current(i), "rejected") /\ ReleaseBus
    BY <1>0, <1>3, EndsFinal DEF Statuses, physicalVars
  <1> QED
    BY <1>2, <1>3 DEF ProfileRead

LEMMA ProfileFailsKept ==
  ASSUME WorkerInv, NEW i \in Intents, ProfileFails(i)
  PROVE  Kept
  <1>0. /\ bus # Null /\ bus.intent = i /\ Fault /\ ReleaseBus
        /\ UNCHANGED <<seen, device, window>>
    BY DEF ProfileFails, At, physicalVars
  <1>1. TypeOK /\ i.room \in Rooms
    BY IntentFields DEF WorkerInv
  <1>2. CASE /\ \E e \in RetryableError : Report(i, e, 0)
             /\ record_slave_failure(i.room)
             /\ UNCHANGED <<attempt, terminal, applied>>
    <2>1. WorksOn(i)
      BY <1>0, <1>2, EndsOpen DEF Phases, versionVars
    <2>2. report' \in IntentExecutionResult
      BY <1>2 DEF Report, RetryableError, Statuses, IntentExecutionResult
    <2>3. /\ failures' \in [Rooms -> 0 .. FailureCap]
          /\ cooldown' \in [Rooms -> 0 .. RetryMax]
      BY <1>1, <1>2, SlaveTypes
    <2> QED
      BY <1>0, <1>1, <2>1, <2>2, <2>3, BusReleased, FaultCounted DEF Kept, TypeOK
  <1>3. CASE (\E e \in FinalError : mark_terminal(i, Current(i), e)) /\ UNCHANGED slaveVars
    BY <1>0, <1>3, EndsFinal DEF FinalError, Statuses
  <1> QED
    BY <1>2, <1>3 DEF ProfileFails

LEMMA WriteOneKept ==
  ASSUME WorkerInv, NEW i \in Intents, WriteOne(i)
  PROVE  Kept
  <1> DEFINE written == Current(i).written + 1
             all == written = Len(plan_room_intent(i))
             a == attempt[i.room]
             c == [a EXCEPT !.written = @ + 1]
             b == [c EXCEPT !.phase = IF all THEN "verification_pending" ELSE @]
             d == [device[i.room] EXCEPT ![NextWrite(i).register] = NextWrite(i).value]
  <1>0. /\ At(i, "write") /\ bus # Null /\ bus.intent = i /\ bus.at = "write"
        /\ Performed(i)
        /\ UNCHANGED <<versionVars, slaveVars, window, report, faults>>
    BY DEF WriteOne, At
  <1>1. i.room \in Rooms /\ TypeOK
    BY IntentFields DEF WorkerInv
  <1>2. /\ Unfinished(i) /\ a \in IntentAttempt /\ a.intent = i /\ a.phase # "terminal"
        /\ a.result = Null /\ seen' = [seen EXCEPT ![i.room] = i.version]
        /\ bus \in BusCall
    BY <1>0, CallUnderWay DEF versionVars
  <1>3. /\ plannable(i) /\ a.written \in Nat /\ a.written < Len(plan_room_intent(i))
    BY <1>0, <1>2 DEF WorkerInv, BusInv, IntentAttempt
  <1>4. /\ d \in [Registers -> Nat] /\ device' = [device EXCEPT ![i.room] = d]
        /\ Holds(c, d) /\ DeviceStep(i, d)
    BY <1>0, WritePerformed
  <1>5. /\ b \in IntentAttempt /\ b.intent = i /\ b.phase # "terminal" /\ b.result = Null
        /\ b.written = written /\ c.written = written /\ c.intent = i
    <2>1. written \in Nat /\ "verification_pending" \in Phases
      BY <1>3 DEF Current, Phases
    <2>2. /\ c \in IntentAttempt /\ c.written = written /\ c.intent = i
          /\ c.phase = a.phase /\ c.result = Null
      BY <1>2, <2>1 DEF IntentAttempt, Current
    <2> QED
      BY <1>2, <2>1, <2>2 DEF IntentAttempt
  <1>6. Holds(b, d)
    BY <1>4, <1>5 DEF Holds
  <1>7. attempt' = [attempt EXCEPT ![i.room] = b]
    BY <1>1, <1>2 DEF WriteOne, TypeOK, IntentAttempt, Current
  <1>8. WorksOn(i)
    BY <1>0, <1>2, <1>4, <1>5, <1>6, <1>7, Continued DEF versionVars
  <1>9. bus' \in BusCall /\ BusInv' /\ NoTrafficInCooldown'
    <2>1. CASE all
      <3>1. bus' = [bus EXCEPT !.at = "verify"]
        BY <2>1 DEF WriteOne
      <3> QED
        BY <1>0, <1>5, <1>7, <3>1, BusKept
    <2>2. CASE ~all
      <3>1. bus' = [bus EXCEPT !.at = "write"]
        BY <1>0, <1>2, <2>2 DEF WriteOne, BusCall
      <3>2. b.written < Len(plan_room_intent(i))
        BY <1>3, <1>5, <2>2, PlanShape DEF Current
      <3> QED
        BY <1>0, <1>3, <1>5, <1>7, <3>1, <3>2, BusKept
    <2> QED
      BY <2>1, <2>2
  <1> QED
    BY <1>0, <1>1, <1>8, <1>9 DEF Kept, TypeOK, slaveVars

LEMMA WriteFailsKept ==
  ASSUME WorkerInv, NEW i \in Intents, WriteFails(i)
  PROVE  Kept
  <1>0. /\ At(i, "write") /\ bus # Null /\ bus.intent = i /\ Fault /\ ReleaseBus
        /\ Performed(i) \/ UNCHANGED device
        /\ UNCHANGED <<seen, window>>
    BY DEF WriteFails, At
  <1>1. TypeOK /\ i.room \in Rooms
    BY IntentFields DEF WorkerInv
  <1>2. CASE /\ \E e \in RetryableError : Report(i, e, Current(i).written)
             /\ SetPhase(i, "verification_pending")
             /\ record_slave_failure(i.room)
             /\ UNCHANGED <<terminal, applied>>
    <2>1. WorksOn(i)
      <3>1. "verification_pending" \in Phases \ {"terminal"}
        BY DEF Phases
      <3>2. /\ attempt' = [attempt EXCEPT ![i.room].phase = "verification_pending"]
            /\ UNCHANGED <<versionVars, window>>
        BY <1>0, <1>2 DEF SetPhase, versionVars
      <3> QED
        BY <1>0, <3>1, <3>2, EndsOpen
    <2>2. Current(i).written \in Nat
      BY <1>0, CallUnderWay DEF Current, IntentAttempt
    <2>3. report' \in IntentExecutionResult
      BY <1>2, <2>2 DEF Report, RetryableError, Statuses, IntentExecutionResult
    <2>4. /\ failures' \in [Rooms -> 0 .. FailureCap]
          /\ cooldown' \in [Rooms -> 0 .. RetryMax]
      BY <1>1, <1>2, SlaveTypes
    <2> QED
      BY <1>0, <1>1, <2>1, <2>3, <2>4, BusReleased, FaultCounted DEF Kept, TypeOK
  <1>3. CASE (\E e \in FinalError : mark_terminal(i, Current(i), e)) /\ UNCHANGED slaveVars
    BY <1>0, <1>3, EndsFinal DEF FinalError, Statuses
  <1> QED
    BY <1>2, <1>3 DEF WriteFails

LEMMA ReadbackKept ==
  ASSUME WorkerInv, NEW i \in Intents, ReadbackMatches(i) \/ ReadbackMismatch(i)
  PROVE  Kept
  <1>1. CASE ReadbackMatches(i)
    BY <1>1, EndsFinal DEF ReadbackMatches, At, Statuses, physicalVars
  <1>2. CASE ReadbackMismatch(i)
    <2>1. Fault \/ UNCHANGED faults
      BY <1>2 DEF ReadbackMismatch, Differs
    <2> QED
      BY <1>2, <2>1, EndsFinal DEF ReadbackMismatch, At, Statuses, physicalVars
  <1> QED
    BY <1>1, <1>2

LEMMA ResumeMismatchKept ==
  ASSUME WorkerInv, NEW i \in Intents, ResumeMismatch(i)
  PROVE  Kept
  <1>1. Fault \/ UNCHANGED faults
    BY DEF ResumeMismatch, Differs
  <1>2. Unfinished(i) /\ seen' = [seen EXCEPT ![i.room] = i.version]
    BY CallUnderWay DEF ResumeMismatch, At
  <1> QED
    BY <1>1, <1>2, Executed DEF ResumeMismatch

LEMMA ReadbackFailsKept ==
  ASSUME WorkerInv, NEW i \in Intents, ReadbackFails(i)
  PROVE  Kept
  <1>0. /\ bus # Null /\ bus.intent = i /\ Fault /\ ReleaseBus
        /\ record_slave_failure(i.room)
        /\ UNCHANGED <<seen, device, window>>
    BY DEF ReadbackFails, At, physicalVars
  <1>1. TypeOK /\ i.room \in Rooms
    BY IntentFields DEF WorkerInv
  <1>2. CASE /\ Report(i, "applied_unconfirmed", Current(i).written)
             /\ UNCHANGED <<attempt, terminal, applied>>
    <2>1. WorksOn(i)
      BY <1>0, <1>2, EndsOpen DEF Phases, versionVars
    <2>2. Current(i).written \in Nat
      BY <1>0, CallUnderWay DEF Current, IntentAttempt
    <2>3. report' \in IntentExecutionResult
      BY <1>2, <2>2 DEF Report, Statuses, IntentExecutionResult
    <2>4. /\ failures' \in [Rooms -> 0 .. FailureCap]
          /\ cooldown' \in [Rooms -> 0 .. RetryMax]
      BY <1>0, <1>1, SlaveTypes
    <2> QED
      BY <1>0, <1>1, <2>1, <2>3, <2>4, BusReleased, FaultCounted DEF Kept, TypeOK
  <1>3. CASE mark_terminal(i, Current(i), "applied_unconfirmed")
    BY <1>0, <1>3, EndsFinal DEF Statuses
  <1> QED
    BY <1>2, <1>3 DEF ReadbackFails

LEMMA CancelKept ==
  ASSUME WorkerInv, NEW i \in Intents, Cancel(i)
  PROVE  Kept
  <1>0. /\ bus # Null /\ bus.intent = i /\ Fault /\ ReleaseBus
        /\ UNCHANGED device \/ (At(i, "write") /\ Performed(i))
        /\ UNCHANGED <<versionVars, attempt, slaveVars, window, report>>
    BY DEF Cancel
  <1>1. WorksOn(i)
    BY <1>0, EndsOpen DEF Phases
  <1> QED
    BY <1>0, <1>1, BusReleased, FaultCounted DEF Kept, WorkerInv, TypeOK, slaveVars

LEMMA TimeKept ==
  ASSUME WorkerInv,
         \/ \E i \in Intents : BecomesEffective(i) \/ Expires(i)
         \/ \E r \in Rooms : CooldownElapses(r)
         \/ UNCHANGED vars
  PROVE  Kept
  <1>1. CASE \E i \in Intents : BecomesEffective(i) \/ Expires(i)
    BY <1>1 DEF BecomesEffective, Expires, Kept, WorkerInv, TypeOK, RoomsUnchanged,
       versionVars, slaveVars, BusInv, NoTrafficInCooldown
  <1>2. ASSUME NEW r \in Rooms, CooldownElapses(r)
        PROVE  Kept
    <2>1. /\ cooldown[r] > 0 /\ cooldown' = [cooldown EXCEPT ![r] = @ - 1]
          /\ UNCHANGED <<versionVars, attempt, failures, bus, physicalVars, report, faults>>
      BY <1>2 DEF CooldownElapses
    <2>2. cooldown \in [Rooms -> 0 .. RetryMax] /\ RetryMax \in Nat
      BY WorkerAssumption DEF WorkerInv, TypeOK
    <2>3. cooldown[r] - 1 \in 0 .. RetryMax
      BY <2>1, <2>2
    <2>4. cooldown' \in [Rooms -> 0 .. RetryMax]
      BY <2>1, <2>2, <2>3
    <2>5. NoTrafficInCooldown'
      BY <2>1, <2>2 DEF NoTrafficInCooldown, WorkerInv
    <2>6. BusInv'
      BY <2>1 DEF WorkerInv, BusInv
    <2> QED
      BY <2>1, <2>4, <2>5, <2>6 DEF Kept, WorkerInv, TypeOK, RoomsUnchanged, versionVars,
         physicalVars
  <1>3. CASE UNCHANGED vars
    BY <1>3 DEF vars, Kept, WorkerInv, TypeOK, RoomsUnchanged, BusInv, NoTrafficInCooldown
  <1> QED
    BY <1>1, <1>2, <1>3

LEMMA StepKept ==
  ASSUME WorkerInv, [Next]_vars
  PROVE  Kept
  <1>1. CASE \E i \in Intents : Receive(i)
    BY <1>1, ReceiveKept
  <1>2. CASE \E i \in Intents : BusStep(i)
    BY <1>2, ProfileReadKept, ProfileFailsKept, WriteOneKept, WriteFailsKept,
       ReadbackKept, ResumeMismatchKept, ReadbackFailsKept, CancelKept DEF BusStep
  <1>3. CASE \/ \E i \in Intents : BecomesEffective(i) \/ Expires(i)
             \/ \E r \in Rooms : CooldownElapses(r)
             \/ UNCHANGED vars
    BY <1>3, TimeKept
  <1> QED
    BY <1>1, <1>2, <1>3 DEF Next

-----------------------------------------------------------------------------
(* Theorems.                                                               *)

LEMMA InitWorkerInv == Init => WorkerInv
  <1> SUFFICES ASSUME Init PROVE WorkerInv
    OBVIOUS
  <1>1. TypeOK
    <2>1. 0 \in 0 .. FailureCap /\ 0 \in 0 .. RetryMax /\ 0 \in 0 .. MaxFaults
      BY WorkerAssumption
    <2>2. device \in [Rooms -> [Registers -> Nat]]
      BY DEF Init, Registers
    <2> QED
      BY <2>1, <2>2 DEF Init, TypeOK
  <1>2. WatermarksConsistent /\ WrittenInv /\ ResultInv /\ AppliedMeansMatched
    BY DEF Init, WatermarksConsistent, WrittenInv, ResultInv, AppliedMeansMatched
  <1>3. BusInv /\ NoTrafficInCooldown
    BY DEF Init, BusInv, NoTrafficInCooldown
  <1> QED
    BY <1>1, <1>2, <1>3 DEF WorkerInv

LEMMA NextWorkerInv == WorkerInv /\ [Next]_vars => WorkerInv'
  <1> SUFFICES ASSUME WorkerInv, [Next]_vars PROVE WorkerInv'
    OBVIOUS
  <1>1. Kept
    BY StepKept
  <1>2. CASE RoomsUnchanged
    <2>1. TypeOK'
      BY <1>1, <1>2 DEF RoomsUnchanged, Kept, WorkerInv, TypeOK
    <2>2. WatermarksConsistent'
      BY <1>2 DEF RoomsUnchanged, WorkerInv, WatermarksConsistent
    <2>3. AppliedMeansMatched'
      BY <1>2 DEF RoomsUnchanged, WorkerInv, AppliedMeansMatched, matches
    <2>4. WrittenInv'
      BY <1>2 DEF RoomsUnchanged, WorkerInv, WrittenInv, Holds
    <2>5. ResultInv'
      BY <1>2 DEF RoomsUnchanged, WorkerInv, ResultInv
    <2> QED
      BY <1>1, <2>1, <2>2, <2>3, <2>4, <2>5 DEF Kept, WorkerInv
  <1>3. CASE \E i \in Intents : WorksOn(i)
    BY <1>1, <1>3, RoomsKept DEF Kept, WorkerInv, TypeOK
  <1> QED
    BY <1>1, <1>2, <1>3 DEF Kept

LEMMA Invariant == Spec => []WorkerInv
  BY InitWorkerInv, NextWorkerInv, PTL DEF Spec

\* The worker's memory and the bus keep their types: the plan's index never
\* leaves the plan, and the delay never exceeds its maximum.
THEOREM TypeCorrect == Spec => []TypeOK
  <1>1. WorkerInv => TypeOK
    BY DEF WorkerInv
  <1> QED
    BY <1>1, Invariant, PTL

\* The watermarks of a room stay in order and agree with its attempt.
THEOREM WatermarksOrdered == Spec => []WatermarksConsistent
  <1>1. WorkerInv => WatermarksConsistent
    BY DEF WorkerInv
  <1> QED
    BY <1>1, Invariant, PTL

\* A version reported as applied is what the device does.
THEOREM AppliedMatched == Spec => []AppliedMeansMatched
  <1>1. WorkerInv => AppliedMeansMatched
    BY DEF WorkerInv
  <1> QED
    BY <1>1, Invariant, PTL

\* The bus carries nothing for a slave in its cooldown.
THEOREM CooldownRespected == Spec => []NoTrafficInCooldown
  <1>1. WorkerInv => NoTrafficInCooldown
    BY DEF WorkerInv
  <1> QED
    BY <1>1, Invariant, PTL

\* What is terminal is not executed again.
THEOREM TerminalFinal == Spec => TerminalIsFinal
  <1>1. ASSUME WorkerInv, [Next]_vars, NEW r \in Rooms,
               seen[r] > 0, terminal[r] = seen[r], seen'[r] = seen[r]
        PROVE  device'[r] = device[r] /\ attempt'[r] = attempt[r]
    <2>1. CASE RoomsUnchanged
      BY <2>1 DEF RoomsUnchanged
    <2>2. ASSUME NEW i \in Intents, WorksOn(i)
          PROVE  device'[r] = device[r] /\ attempt'[r] = attempt[r]
      <3>1. PICK a, t, p, d : RoomStep(i, a, t, p, d)
        BY <2>2 DEF WorksOn
      <3>2. i.room \in Rooms /\ i.version \in Nat /\ seen[r] \in Nat
        BY <1>1, IntentFields DEF WorkerInv, TypeOK
      <3>3. r # i.room
        <4> SUFFICES ASSUME r = i.room PROVE FALSE
          OBVIOUS
        <4>1. seen'[r] = i.version
          BY <1>1, <3>1, <3>2 DEF RoomStep, WorkerInv, TypeOK
        <4>2. terminal[r] < i.version
          BY <2>2 DEF WorksOn, Unfinished
        <4> QED
          BY <1>1, <3>2, <4>1, <4>2
      <3> QED
        BY <1>1, <3>1, <3>3 DEF RoomStep, WorkerInv, TypeOK
    <2> QED
      BY <1>1, <2>1, <2>2, StepKept DEF Kept
  <1>2. WorkerInv /\ [Next]_vars =>
          [\A r \in Rooms :
             seen[r] > 0 /\ terminal[r] = seen[r] /\ seen'[r] = seen[r] =>
               device'[r] = device[r] /\ attempt'[r] = attempt[r]]_vars
    BY <1>1
  <1> QED
    BY <1>2, Invariant, PTL DEF Spec, TerminalIsFinal

\* A device is switched on with the mode and temperature of one intent.
THEOREM PoweredOnComplete == Spec => PoweredOnConfigured
  <1>1. ASSUME WorkerInv, [Next]_vars, NEW r \in Rooms,
               device[r].power = 0, device'[r].power = 1
        PROVE  \E i \in Intents :
                 i.room = r /\ i.version = seen[r] /\ matches(i, device'[r])
    <2>1. CASE RoomsUnchanged
      BY <1>1, <2>1 DEF RoomsUnchanged
    <2>2. ASSUME NEW i \in Intents, WorksOn(i)
          PROVE  i.room = r /\ i.version = seen[r] /\ matches(i, device'[r])
      <3>1. PICK a, t, p, d : RoomStep(i, a, t, p, d) /\ RoomAgrees(i, a, t, p, d)
        BY <2>2 DEF WorksOn
      <3>2. i.room \in Rooms /\ device \in [Rooms -> [Registers -> Nat]]
        BY <1>1, IntentFields DEF WorkerInv, TypeOK
      <3>3. i.room = r
        BY <1>1, <3>1, <3>2 DEF RoomStep
      <3>4. device'[r] = d /\ d # device[i.room]
        BY <1>1, <3>1, <3>2, <3>3 DEF RoomStep
      <3> QED
        BY <1>1, <3>1, <3>3, <3>4 DEF RoomAgrees, DeviceStep
    <2> QED
      BY <1>1, <2>1, <2>2, StepKept DEF Kept
  <1>2. WorkerInv /\ [Next]_vars =>
          [\A r \in Rooms :
             device[r].power = 0 /\ device'[r].power = 1 =>
               \E i \in Intents :
                 i.room = r /\ i.version = seen[r] /\ matches(i, device'[r])]_vars
    BY <1>1
  <1> QED
    BY <1>2, Invariant, PTL DEF Spec, PoweredOnConfigured

\* A device that starts at 22 degrees within its limits is never taken out of
\* them, nor into a mode it prohibits.
THEOREM LimitsRespected ==
  ASSUME \A r \in Rooms : lower[r] <= 22 /\ 22 <= upper[r]
  PROVE  Spec => []DeviceWithinLimits
  <1>1. Init => DeviceWithinLimits
    BY WorkerAssumption DEF Init, DeviceWithinLimits
  <1>2. ASSUME WorkerInv, [Next]_vars, DeviceWithinLimits
        PROVE  DeviceWithinLimits'
    <2>1. CASE RoomsUnchanged
      BY <1>2, <2>1 DEF RoomsUnchanged, DeviceWithinLimits
    <2>2. ASSUME NEW i \in Intents, WorksOn(i), NEW r \in Rooms
          PROVE  WithinLimits(r, device'[r])
      <3>1. PICK a, t, p, d : RoomStep(i, a, t, p, d) /\ RoomAgrees(i, a, t, p, d)
        BY <2>2 DEF WorksOn
      <3>2. i.room \in Rooms /\ device \in [Rooms -> [Registers -> Nat]]
        BY <1>2, IntentFields DEF WorkerInv, TypeOK
      <3>3. \A q \in Rooms : WithinLimits(q, device[q])
        BY <1>2 DEF DeviceWithinLimits, WithinLimits
      <3>4. WithinLimits(i.room, d)
        BY <3>1, <3>2, <3>3 DEF RoomAgrees, DeviceStep
      <3>5. device'[r] = IF r = i.room THEN d ELSE device[r]
        BY <3>1, <3>2 DEF RoomStep
      <3> QED
        BY <3>3, <3>4, <3>5
    <2>3. CASE \E i \in Intents : WorksOn(i)
      BY <2>2, <2>3 DEF DeviceWithinLimits, WithinLimits
    <2> QED
      BY <1>2, <2>1, <2>3, StepKept DEF Kept
  <1> QED
    BY <1>1, <1>2, Invariant, PTL DEF Spec

-----------------------------------------------------------------------------
(* The promise of LatestOrder.                                             *)

LEMMA OrdersAreIntents ==
  ASSUME WorkerInv, NEW r \in Rooms
  PROVE  /\ OrderOf(r) # Null <=> attempt[r] # Null
         /\ OrderOf(r) # Null => /\ OrderOf(r) = attempt[r].intent
                                 /\ OrderOf(r).version = seen[r]
  BY WorkerAssumption DEF WorkerInv, TypeOK, WatermarksConsistent, IntentAttempt, OrderOf

\* A step that works on an intent takes it as a new order, or is work for the
\* order that the room has.
LEMMA TakesOrWorks ==
  ASSUME WorkerInv, NEW i \in Intents, WorksOn(i)
  PROVE  Promise!Take(i) \/ Promise!Work(i.room)
  <1> DEFINE q == i.room
             ord == [r \in Rooms |-> OrderOf(r)]
             out == [r \in Rooms |-> Outcome(r)]
  <1> PICK a, t, p, d : RoomStep(i, a, t, p, d) /\ RoomAgrees(i, a, t, p, d)
    BY DEF WorksOn
  <1>0. q \in Rooms /\ i.version \in Nat /\ i.version > 0
    BY IntentFields
  <1>1. /\ seen'[q] = i.version /\ terminal'[q] = t /\ applied'[q] = p
        /\ attempt'[q] = a /\ device'[q] = d /\ a # Null /\ a.intent = i
    BY <1>0, NullAssumption DEF WorkerInv, TypeOK, RoomStep, RoomAgrees
  <1>2. \A r \in Rooms \ {q} :
          /\ seen'[r] = seen[r] /\ terminal'[r] = terminal[r] /\ applied'[r] = applied[r]
          /\ attempt'[r] = attempt[r] /\ device'[r] = device[r]
    BY DEF WorkerInv, TypeOK, RoomStep
  <1>3. /\ OrderOf(q)' = i
        /\ \A r \in Rooms \ {q} : OrderOf(r)' = OrderOf(r) /\ Outcome(r)' = Outcome(r)
    BY <1>1, <1>2 DEF OrderOf, Outcome
  <1>4. ord' = [ord EXCEPT ![q] = i]
    BY <1>0, <1>3
  <1>5. out' = [out EXCEPT ![q] = Outcome(q)']
    BY <1>0, <1>3
  <1>6. /\ Outcome(q)' \in {"open", "applied", "ended"}
        /\ Outcome(q)' = "applied" => p = i.version
    BY <1>0, <1>1 DEF Outcome
  <1>7. device' \in [Rooms -> [Registers -> Nat]] /\ device \in [Rooms -> [Registers -> Nat]]
    BY RoomsKept DEF WorkerInv, TypeOK
  <1>8. seen[q] \in Nat /\ seen[q] <= i.version
    BY <1>0 DEF WorksOn, Unfinished, WorkerInv, TypeOK
  <1>9. CASE seen[q] # i.version
    <2>1. Outcome(q)' \in {"open", "ended"}
      BY <1>6, <1>9 DEF RoomAgrees
    <2>2. UNCHANGED device
      BY <1>0, <1>7, <1>9 DEF RoomStep, RoomAgrees, DeviceStep
    <2>3. ord[q] # Null => ord[q].version < i.version
      BY <1>0, <1>8, <1>9, OrdersAreIntents
    <2> QED
      BY <1>4, <1>5, <2>1, <2>2, <2>3 DEF Promise!Take
  <1>10. CASE seen[q] = i.version
    <2>1. attempt[q] # Null /\ attempt[q].intent = i
      BY <1>0, <1>10 DEF WorksOn, Unfinished, WorkerInv, WatermarksConsistent
    <2>2. ord[q] = i
      BY <1>0, <2>1 DEF OrderOf
    <2>3. ord' = ord
      BY <1>4, <2>2
    <2>4. out[q] = "open"
      BY <1>0, <1>10 DEF Outcome, WorksOn, Unfinished, WorkerInv, TypeOK
    <2>5. Outcome(q)' = "applied" => matches(ord[q], device'[q])
      BY <1>1, <1>6, <2>2 DEF RoomAgrees
    <2> QED
      BY <1>0, <1>2, <1>5, <1>6, <1>7, <2>3, <2>4, <2>5 DEF Promise!Work
  <1> QED
    BY <1>9, <1>10

\* The report is left, or is one of status s for intent i; "applied" is reported
\* only for the intent whose attempt has that result.
Told(i, s) ==
  /\ \E n \in Nat : report' = [intent |-> i, status |-> s, written |-> n]
  /\ s = "applied" => /\ attempt'[i.room] # Null /\ attempt'[i.room].intent = i
                      /\ attempt'[i.room].result = "applied"

Tells == report' = report \/ \E i \in Intents, s \in Statuses : Told(i, s)

\* Whatever is reported with another status is true in this sense.
LEMMA OtherTold ==
  ASSUME NEW i \in Intents, NEW s \in Statuses \ {"applied"}, NEW n \in Nat, Report(i, s, n)
  PROVE  Tells
  BY DEF Report, Tells, Told

LEMMA MarkTells ==
  ASSUME WorkerInv, NEW i \in Intents, NEW s \in Statuses,
         NEW a \in IntentAttempt, a.intent = i, mark_terminal(i, a, s)
  PROVE  Tells
  <1> DEFINE b == [a EXCEPT !.phase = "terminal", !.result = s]
  <1>1. b \in IntentAttempt /\ b.intent = i /\ b.result = s /\ b # Null /\ a.written \in Nat
    BY NullAssumption DEF IntentAttempt, Phases
  <1>2. attempt'[i.room] = b
    BY IntentFields DEF mark_terminal, WorkerInv, TypeOK
  <1> QED
    BY <1>1, <1>2 DEF mark_terminal, Report, Tells, Told

LEMMA ExecuteTells ==
  ASSUME WorkerInv, NEW i \in Intents, execute_intent(i)
  PROVE  Tells
  <1> DEFINE a == IntentAttemptFor(i, "retryable")
  <1>1. CASE mark_terminal(i, a, "expired")
    <2>1. a \in IntentAttempt /\ a.intent = i
      BY FreshAttempt DEF Phases
    <2> QED
      BY <1>1, <2>1, MarkTells DEF Statuses
  <1>2. CASE Report(i, "not_yet_effective", 0) \/ Report(i, "device_offline", 0)
    BY <1>2, OtherTold DEF Statuses
  <1>3. CASE UNCHANGED report
    BY <1>3 DEF Tells
  <1> QED
    BY <1>1, <1>2, <1>3 DEF execute_intent

LEMMA ReceiveTells ==
  ASSUME WorkerInv, NEW i \in Intents, Receive(i)
  PROVE  Tells
  <1>1. CASE ReceiveNewer(i) \/ ReceiveRetryable(i)
    BY <1>1, ExecuteTells DEF ReceiveNewer, ReceiveRetryable
  <1>2. CASE ReceiveStale(i) \/ ReceiveConflicting(i) \/ ReceiveUncertain(i)
    <2>1. CASE UNCHANGED report
      BY <2>1 DEF Tells
    <2>2. CASE \E s \in {"stale", "rejected", "device_offline"} : Report(i, s, 0)
      BY <2>2, OtherTold DEF Statuses
    <2> QED
      BY <1>2, <2>1, <2>2 DEF ReceiveStale, ReceiveConflicting, ReceiveUncertain
  <1>3. CASE ReceiveTerminal(i)
    <2>1. /\ i.room \in Rooms /\ i.version = seen[i.room] /\ i.version > 0
          /\ attempt[i.room].intent = i /\ attempt[i.room].phase = "terminal"
      BY <1>3, IntentFields DEF ReceiveTerminal, Redelivered
    <2>2. attempt[i.room] # Null /\ attempt[i.room].result # Null
      BY <2>1 DEF WorkerInv, WatermarksConsistent
    <2>3. attempt[i.room].result \in Statuses /\ attempt[i.room].written \in Nat
      BY <2>1, <2>2 DEF WorkerInv, TypeOK, IntentAttempt
    <2> QED
      BY <1>3, <2>1, <2>2, <2>3 DEF ReceiveTerminal, Report, Tells, Told
  <1> QED
    BY <1>1, <1>2, <1>3 DEF Receive

LEMMA BusStepTells ==
  ASSUME WorkerInv, NEW i \in Intents, BusStep(i)
  PROVE  Tells
  <1>1. /\ Current(i) \in IntentAttempt /\ Current(i).intent = i
        /\ Current(i).written \in Nat
    <2>1. bus # Null /\ bus.intent = i
      BY DEF BusStep, ProfileRead, ProfileFails, WriteOne, WriteFails, ReadbackMatches,
         ReadbackMismatch, ResumeMismatch, ReadbackFails, Cancel, At
    <2> QED
      BY <2>1, CallUnderWay DEF Current, IntentAttempt
  <1>2. CASE UNCHANGED report
    BY <1>2 DEF Tells
  <1>3. CASE \E s \in Statuses : mark_terminal(i, Current(i), s)
    BY <1>1, <1>3, MarkTells
  <1>4. CASE \E s \in Statuses \ {"applied"}, n \in Nat : Report(i, s, n)
    BY <1>4, OtherTold
  <1>5. CASE ResumeMismatch(i)
    BY <1>5, ExecuteTells DEF ResumeMismatch
  <1>6. CASE ProfileRead(i) \/ WriteOne(i) \/ Cancel(i) \/ ReadbackMatches(i)
             \/ ReadbackMismatch(i)
    BY <1>2, <1>3, <1>6 DEF ProfileRead, WriteOne, Cancel, ReadbackMatches,
       ReadbackMismatch, Statuses
  <1>7. CASE ProfileFails(i)
    BY <1>3, <1>4, <1>7 DEF ProfileFails, RetryableError, FinalError, Statuses
  <1>8. CASE WriteFails(i)
    BY <1>1, <1>3, <1>4, <1>8 DEF WriteFails, RetryableError, FinalError, Statuses
  <1>9. CASE ReadbackFails(i)
    BY <1>1, <1>3, <1>4, <1>9 DEF ReadbackFails, Statuses
  <1> QED
    BY <1>5, <1>6, <1>7, <1>8, <1>9 DEF BusStep

LEMMA StepTells ==
  ASSUME WorkerInv, [Next]_vars
  PROVE  Tells
  <1>1. CASE \E i \in Intents : Receive(i) \/ BusStep(i)
    BY <1>1, ReceiveTells, BusStepTells
  <1>2. CASE UNCHANGED report
    BY <1>2 DEF Tells
  <1> QED
    BY <1>1, <1>2 DEF Next, BecomesEffective, Expires, CooldownElapses, vars

\* What is told as applied has ended so.
LEMMA StepAnswers ==
  ASSUME WorkerInv, WorkerInv', [Next]_vars
  PROVE  Promise!Answer
  <1>1. CASE report' = report
    BY <1>1 DEF Promise!Answer
  <1>2. ASSUME NEW i \in Intents, NEW s \in Statuses, Told(i, s)
        PROVE  Promise!Answer
    <2>1. report' # Null /\ report'.intent = i /\ report'.status = s
      <3>1. PICK n \in Nat : report' = [intent |-> i, status |-> s, written |-> n]
        BY <1>2 DEF Told
      <3> QED
        BY <3>1, NullAssumption DEF IntentExecutionResult
    <2>2. CASE s # "applied"
      BY <2>1, <2>2 DEF Promise!Answer
    <2>3. CASE s = "applied"
      <3>1. /\ i.room \in Rooms /\ attempt'[i.room] # Null /\ attempt'[i.room].intent = i
            /\ attempt'[i.room].result = "applied"
        BY <1>2, <2>3, IntentFields DEF Told
      <3>2. /\ applied'[i.room] = seen'[i.room] /\ terminal'[i.room] = seen'[i.room]
            /\ seen'[i.room] = i.version /\ i.version > 0
        BY <3>1, <2>3, NullAssumption, IntentFields
           DEF WorkerInv, ResultInv, WatermarksConsistent
      <3>3. OrderOf(i.room)' = i /\ Outcome(i.room)' = "applied"
        BY <3>1, <3>2, IntentFields DEF OrderOf, Outcome
      <3> QED
        BY <2>1, <3>1, <3>3 DEF Promise!Answer
    <2> QED
      BY <2>2, <2>3
  <1> QED
    BY <1>1, <1>2, StepTells DEF Tells

LEMMA StartsWithoutOrders == Init => Promise!Init
  <1> SUFFICES ASSUME Init PROVE Promise!Init
    OBVIOUS
  <1>1. \A r \in Rooms : OrderOf(r) = Null /\ Outcome(r) = "none"
    BY DEF Init, OrderOf, Outcome
  <1>2. device \in [Rooms -> [Registers -> Nat]] /\ report = Null
    BY DEF Init, Registers
  <1> QED
    BY <1>1, <1>2 DEF Promise!Init

\* The worker keeps the promise of LatestOrder, for any rooms, intents in any
\* order, devices and faults.
THEOREM WorkerKeepsPromise == Spec => ImplementsLatestOrder
  <1>1. WorkerInv /\ [Next]_vars => [Promise!Next]_(Promise!orderVars)
    <2> SUFFICES ASSUME WorkerInv, [Next]_vars PROVE Promise!Next
      OBVIOUS
    <2>1. WorkerInv' /\ Promise!Answer
      BY NextWorkerInv, StepAnswers
    <2>2. CASE RoomsUnchanged
      <3>1. \A r \in Rooms : OrderOf(r)' = OrderOf(r) /\ Outcome(r)' = Outcome(r)
        BY <2>2 DEF RoomsUnchanged, OrderOf, Outcome
      <3>2. UNCHANGED Promise!roomVars
        BY <2>2, <3>1 DEF RoomsUnchanged, Promise!roomVars
      <3> QED
        BY <2>1, <3>2 DEF Promise!Next
    <2>3. CASE \E i \in Intents : WorksOn(i)
      BY <2>1, <2>3, TakesOrWorks, IntentFields DEF Promise!Next
    <2> QED
      BY <2>2, <2>3, StepKept DEF Kept
  <1> QED
    BY StartsWithoutOrders, <1>1, Invariant, PTL DEF Spec, ImplementsLatestOrder, Promise!Spec

=============================================================================
