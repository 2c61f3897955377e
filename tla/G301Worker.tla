----------------------------- MODULE G301Worker -----------------------------
(***************************************************************************)
(* The G301 entrance worker of app/g301_adapter/worker.py and the plans of *)
(* planner.py and registers.py: how an intent, delivered in any order and  *)
(* any number of times, becomes register writes on a Modbus bus that may   *)
(* fail at every operation.                                                *)
(*                                                                         *)
(* apply_intent holds the bus lock from start to end, so at most one       *)
(* intent is under way; every await in it is a step of its own.  A room is *)
(* identified with its slave.                                              *)
(*                                                                         *)
(* Time is relative: cooldown[r] is retry_after - now, and window[i] says  *)
(* on which side of its validity window (skew included) intent i is.       *)
(***************************************************************************)
EXTENDS Integers, Sequences

CONSTANTS
  Null,
  Rooms,           \* rooms with a configured slave on this entrance
  Intents,         \* the intents the broker may deliver
  limitation,      \* room -> what its device prohibits: none, heat or cool_dry
  lower, upper,    \* room -> temperature limits its device reports, in degrees
  RetryBase,       \* slave_retry_base_seconds, in ticks
  RetryMax,        \* slave_retry_max_seconds, in ticks
  FailureCap,      \* bound: consecutive failures are counted up to here
  MaxFaults        \* bound: failed bus operations and cancelled calls

HvacMode == {"off", "heat", "cool", "auto"}

\* The HVAC part of a validated DesiredRoomIntent, the target in 0.01 degrees.
\* Two intents of the same room and version have different fingerprints.
DesiredRoomIntent ==
  {i \in [room : Rooms, version : Nat \ {0}, enabled : BOOLEAN,
          mode : HvacMode, target : Nat \cup {Null}] :
     IF i.enabled THEN i.mode # "off" /\ i.target # Null
                  ELSE i.mode = "off" /\ i.target = Null}

ASSUME WorkerAssumption ==
  /\ Null \notin Nat \cup Rooms \cup Intents
  /\ Intents \subseteq DesiredRoomIntent
  /\ limitation \in [Rooms -> {"none", "heat", "cool_dry"}]
  /\ lower \in [Rooms -> Nat] /\ upper \in [Rooms -> Nat]
  /\ RetryBase \in Nat \ {0} /\ RetryMax \in Nat /\ RetryMax >= RetryBase
  /\ FailureCap \in Nat \ {0} /\ MaxFaults \in Nat

VARIABLES
  seen,       \* room -> last_seen_version, 0 for None
  terminal,   \* room -> last_terminal_version
  applied,    \* room -> last_applied_version
  attempt,    \* room -> current_attempt, or Null
  failures,   \* room -> consecutive_failures of its slave
  cooldown,   \* room -> ticks until retry_after
  bus,        \* the call that holds the bus lock, or Null
  device,     \* room -> register -> value
  window,     \* intent -> early, open or over
  report,     \* the last execution result
  faults

vars == <<seen, terminal, applied, attempt, failures, cooldown, bus, device,
          window, report, faults>>

-----------------------------------------------------------------------------
(* registers.py and planner.py                                             *)

Registers == {"power", "mode", "temperature"}

mode_from_hvac_mode(m) == CASE m = "cool" -> 1 [] m = "heat" -> 4 [] m = "auto" -> 5

\* int(round(value * 10)), value in 0.01 degrees: halves go to the even side.
encode_set_temperature_c(v) ==
  LET q == v \div 10  rest == v % 10
  IN  IF rest > 5 \/ (rest = 5 /\ q % 2 = 1) THEN q + 1 ELSE q

RegisterWrite(register, value) == [register |-> register, value |-> value]

\* build_device_profile refuses implausible limits.
build_device_profile(r) == lower[r] \in 16 .. 25 /\ upper[r] \in 26 .. 31

validate_mode(i) ==
  /\ ~(limitation[i.room] = "heat" /\ i.mode \in {"heat", "auto"})
  /\ ~(limitation[i.room] = "cool_dry" /\ i.mode \in {"cool", "auto"})

\* Mutant: the upper limit is not checked.
plannable_NoUpper(i) ==
  i.enabled => /\ build_device_profile(i.room)
               /\ validate_mode(i)
               /\ lower[i.room] * 100 <= i.target

\* No G301PlanningError: what is not plannable is rejected.
plannable(i) ==
  i.enabled => /\ build_device_profile(i.room)
               /\ validate_mode(i)
               /\ lower[i.room] * 100 <= i.target /\ i.target <= upper[i.room] * 100

\* Mutant: power before mode and temperature.
plan_room_intent_PowerFirst(i) ==
  IF i.enabled
  THEN <<RegisterWrite("power", 1),
         RegisterWrite("mode", mode_from_hvac_mode(i.mode)),
         RegisterWrite("temperature", encode_set_temperature_c(i.target))>>
  ELSE <<RegisterWrite("power", 0)>>

plan_room_intent(i) ==
  IF i.enabled
  THEN <<RegisterWrite("mode", mode_from_hvac_mode(i.mode)),
         RegisterWrite("temperature", encode_set_temperature_c(i.target)),
         RegisterWrite("power", 1)>>
  ELSE <<RegisterWrite("power", 0)>>

\* compare_readback: the status register of every write shows its value.
matches(i, registers) ==
  \A k \in DOMAIN plan_room_intent(i) :
    LET w == plan_room_intent(i)[k] IN registers[w.register] = w.value

-----------------------------------------------------------------------------
Phases == {"retryable", "writing", "verification_pending", "terminal"}

Statuses ==
  {"applied", "applied_unconfirmed", "rejected", "expired", "timeout",
   "modbus_exception", "failed", "readback_mismatch", "device_offline", "stale",
   "not_yet_effective"}

IntentAttempt ==
  [intent : Intents, phase : Phases, written : Nat, result : Statuses \cup {Null}]

\* The call that holds the bus lock, and the bus operation it awaits.
BusCall == [intent : Intents, at : {"profile", "write", "verify"}, resumed : BOOLEAN]

IntentExecutionResult == [intent : Intents, status : Statuses, written : Nat]

ASSUME NullAssumption ==
  /\ Null \notin IntentAttempt /\ Null \notin BusCall /\ Null \notin Statuses
  /\ Null \notin IntentExecutionResult

\* Type correctness of the worker's memory and of the bus.
TypeOK ==
  /\ seen \in [Rooms -> Nat] /\ terminal \in [Rooms -> Nat] /\ applied \in [Rooms -> Nat]
  /\ attempt \in [Rooms -> IntentAttempt \cup {Null}]
  /\ failures \in [Rooms -> 0 .. FailureCap]
  /\ cooldown \in [Rooms -> 0 .. RetryMax]
  /\ bus \in BusCall \cup {Null}
  /\ device \in [Rooms -> [Registers -> Nat]]
  /\ window \in [Intents -> {"early", "open", "over"}]
  /\ report \in IntentExecutionResult \cup {Null}
  /\ faults \in 0 .. MaxFaults

Init ==
  /\ seen = [r \in Rooms |-> 0]
  /\ terminal = [r \in Rooms |-> 0]
  /\ applied = [r \in Rooms |-> 0]
  /\ attempt = [r \in Rooms |-> Null]
  /\ failures = [r \in Rooms |-> 0]
  /\ cooldown = [r \in Rooms |-> 0]
  /\ bus = Null
  /\ device = [r \in Rooms |-> [power |-> 0, mode |-> 0, temperature |-> 220]]
  /\ window \in [Intents -> {"early", "open"}]
  /\ report = Null
  /\ faults = 0

-----------------------------------------------------------------------------
(* Bookkeeping.                                                            *)

IntentAttemptFor(i, phase) ==
  [intent |-> i, phase |-> phase, written |-> 0, result |-> Null]

Report(i, status, written) ==
  report' = [intent |-> i, status |-> status, written |-> written]

\* Mutant: the terminal watermark moves only when the intent was applied.
mark_terminal_AppliedOnly(i, a, status) ==
  /\ attempt' = [attempt EXCEPT ![i.room] =
                   [a EXCEPT !.phase = "terminal", !.result = status]]
  /\ IF status = "applied"
     THEN /\ terminal' = [terminal EXCEPT ![i.room] = i.version]
          /\ applied' = [applied EXCEPT ![i.room] = i.version]
     ELSE UNCHANGED <<terminal, applied>>
  /\ Report(i, status, a.written)

\* _mark_terminal, with the result it caches.
mark_terminal(i, a, status) ==
  /\ attempt' = [attempt EXCEPT ![i.room] =
                   [a EXCEPT !.phase = "terminal", !.result = status]]
  /\ terminal' = [terminal EXCEPT ![i.room] = i.version]
  /\ applied' = IF status = "applied" THEN [applied EXCEPT ![i.room] = i.version]
                ELSE applied
  /\ Report(i, status, a.written)

Smaller(a, b) == IF a < b THEN a ELSE b

\* 2 ** min(n - 1, 16)
Doubled(n) ==
  LET powers == <<1, 2, 4, 8, 16, 32, 64, 128, 256, 512, 1024, 2048, 4096, 8192,
                  16384, 32768, 65536>>
  IN  powers[Smaller(n, 17)]

\* Mutant: the delay is not capped.
retry_delay_Uncapped(n) == RetryBase * Doubled(n)

retry_delay(n) == Smaller(RetryBase * Doubled(n), RetryMax)

record_slave_failure(r) ==
  /\ failures' = [failures EXCEPT ![r] = Smaller(@ + 1, FailureCap)]
  /\ cooldown' = [cooldown EXCEPT ![r] = retry_delay(failures[r] + 1)]

record_slave_success(r) ==
  /\ failures' = [failures EXCEPT ![r] = 0]
  /\ cooldown' = [cooldown EXCEPT ![r] = 0]

ReleaseBus == bus' = Null
Fault == faults < MaxFaults /\ faults' = faults + 1

versionVars == <<seen, terminal, applied>>
slaveVars == <<failures, cooldown>>
physicalVars == <<device, window>>

-----------------------------------------------------------------------------
(* _apply_intent_serialized and _execute_intent                            *)

\* Execution from the start: the attempt is reset, and the call returns or
\* goes on to its first bus operation.
execute_intent(i) ==
  LET fresh == IntentAttemptFor(i, "retryable")
      Attempt(a) == /\ attempt' = [attempt EXCEPT ![i.room] = a]
                    /\ UNCHANGED <<terminal, applied>>
      Access(at) == bus' = [intent |-> i, at |-> at, resumed |-> FALSE] /\ UNCHANGED report
  IN  \/ /\ window[i] = "over"
         /\ mark_terminal(i, fresh, "expired") /\ ReleaseBus
      \/ /\ window[i] = "early"
         /\ Attempt(fresh) /\ Report(i, "not_yet_effective", 0) /\ ReleaseBus
      \/ /\ window[i] = "open" /\ cooldown[i.room] > 0
         /\ Attempt(fresh) /\ Report(i, "device_offline", 0) /\ ReleaseBus
      \/ /\ window[i] = "open" /\ cooldown[i.room] = 0 /\ i.enabled
         /\ Attempt(fresh) /\ Access("profile")
      \/ /\ window[i] = "open" /\ cooldown[i.room] = 0 /\ ~i.enabled
         /\ Attempt(IntentAttemptFor(i, "writing")) /\ Access("write")

ReceiveNewer(i) ==
  /\ bus = Null
  /\ i.version > seen[i.room]
  /\ seen' = [seen EXCEPT ![i.room] = i.version]
  /\ execute_intent(i)
  /\ UNCHANGED <<slaveVars, physicalVars, faults>>

ReceiveStale(i) ==
  /\ bus = Null
  /\ i.version < seen[i.room]
  /\ Report(i, "stale", 0)
  /\ UNCHANGED <<versionVars, attempt, slaveVars, bus, physicalVars, faults>>

\* The version seen last, again: `phases` says where its attempt stands.
Redelivered(i, phases) ==
  /\ bus = Null
  /\ i.version = seen[i.room]
  /\ attempt[i.room].intent = i
  /\ attempt[i.room].phase \in phases

\* Mutant: the other payload takes the place of the first.
ReceiveConflicting_Adopts(i) ==
  /\ bus = Null
  /\ i.version = seen[i.room]
  /\ attempt[i.room].intent # i
  /\ attempt' = [attempt EXCEPT ![i.room].intent = i]
  /\ Report(i, "rejected", 0)
  /\ UNCHANGED <<versionVars, slaveVars, bus, physicalVars, faults>>

ReceiveConflicting(i) ==
  /\ bus = Null
  /\ i.version = seen[i.room]
  /\ attempt[i.room].intent # i
  /\ Report(i, "rejected", 0)
  /\ UNCHANGED <<versionVars, attempt, slaveVars, bus, physicalVars, faults>>

ReceiveTerminal(i) ==
  /\ Redelivered(i, {"terminal"})
  /\ Report(i, attempt[i.room].result, attempt[i.room].written)
  /\ UNCHANGED <<versionVars, attempt, slaveVars, bus, physicalVars, faults>>

ReceiveRetryable(i) ==
  /\ Redelivered(i, {"retryable"})
  /\ execute_intent(i)
  /\ UNCHANGED <<seen, slaveVars, physicalVars, faults>>

\* Mutant: the cooldown is not looked at either.
ReceiveUncertain_NoCooldown(i) ==
  /\ Redelivered(i, {"writing", "verification_pending"})
  /\ bus' = [intent |-> i, at |-> "verify", resumed |-> TRUE]
  /\ UNCHANGED <<versionVars, attempt, slaveVars, physicalVars, report, faults>>

\* _resume_verification: a write may have reached the device.  These phases
\* always have a plan, and the validity window is not looked at.
ReceiveUncertain(i) ==
  /\ Redelivered(i, {"writing", "verification_pending"})
  /\ \/ /\ cooldown[i.room] > 0
        /\ Report(i, "device_offline", 0)
        /\ UNCHANGED bus
     \/ /\ cooldown[i.room] = 0
        /\ bus' = [intent |-> i, at |-> "verify", resumed |-> TRUE]
        /\ UNCHANGED report
  /\ UNCHANGED <<versionVars, attempt, slaveVars, physicalVars, faults>>

Receive(i) ==
  \/ ReceiveNewer(i) \/ ReceiveStale(i) \/ ReceiveConflicting(i)
  \/ ReceiveTerminal(i) \/ ReceiveRetryable(i) \/ ReceiveUncertain(i)

-----------------------------------------------------------------------------
(* The bus operations of the call under way.                               *)

At(i, where) == bus # Null /\ bus.intent = i /\ bus.at = where

Current(i) == attempt[i.room]

SetPhase(i, phase) == attempt' = [attempt EXCEPT ![i.room].phase = phase]

\* _with_retry gives up: timeouts and absent devices are retryable, Modbus
\* exceptions and malformed responses are not.
RetryableError == {"timeout", "device_offline"}
FinalError == {"modbus_exception", "failed"}

ProfileRead(i) ==
  /\ At(i, "profile")
  /\ IF plannable(i)
     THEN /\ SetPhase(i, "writing")
          /\ bus' = [bus EXCEPT !.at = "write"]
          /\ UNCHANGED <<terminal, applied, report>>
     ELSE mark_terminal(i, Current(i), "rejected") /\ ReleaseBus
  /\ UNCHANGED <<seen, slaveVars, physicalVars, faults>>

ProfileFails(i) ==
  /\ At(i, "profile")
  /\ \/ /\ \E e \in RetryableError : Report(i, e, 0)
        /\ record_slave_failure(i.room)
        /\ UNCHANGED <<attempt, terminal, applied>>
     \/ /\ \E e \in FinalError : mark_terminal(i, Current(i), e)
        /\ UNCHANGED slaveVars
  /\ Fault /\ ReleaseBus
  /\ UNCHANGED <<seen, physicalVars>>

NextWrite(i) == plan_room_intent(i)[Current(i).written + 1]

Performed(i) ==
  device' = [device EXCEPT ![i.room][NextWrite(i).register] = NextWrite(i).value]

WriteOne(i) ==
  LET written == Current(i).written + 1
      all     == written = Len(plan_room_intent(i))
  IN  /\ At(i, "write")
      /\ Performed(i)
      /\ attempt' = [attempt EXCEPT ![i.room].written = written,
                        ![i.room].phase = IF all THEN "verification_pending" ELSE @]
      /\ bus' = IF all THEN [bus EXCEPT !.at = "verify"] ELSE bus
      /\ UNCHANGED <<versionVars, slaveVars, window, report, faults>>

\* The device may have taken the write all the same.
WriteFails(i) ==
  /\ At(i, "write")
  /\ Performed(i) \/ UNCHANGED device
  /\ \/ /\ \E e \in RetryableError : Report(i, e, Current(i).written)
        /\ SetPhase(i, "verification_pending")
        /\ record_slave_failure(i.room)
        /\ UNCHANGED <<terminal, applied>>
     \/ /\ \E e \in FinalError : mark_terminal(i, Current(i), e)
        /\ UNCHANGED slaveVars
  /\ Fault /\ ReleaseBus
  /\ UNCHANGED <<seen, window>>

\* Mutant: the readback is taken, and not compared.
ReadbackMatches_Unchecked(i) ==
  /\ At(i, "verify")
  /\ mark_terminal(i, Current(i), "applied")
  /\ record_slave_success(i.room)
  /\ ReleaseBus
  /\ UNCHANGED <<seen, physicalVars, faults>>

ReadbackMatches(i) ==
  /\ At(i, "verify")
  /\ matches(i, device[i.room])
  /\ mark_terminal(i, Current(i), "applied")
  /\ record_slave_success(i.room)
  /\ ReleaseBus
  /\ UNCHANGED <<seen, physicalVars, faults>>

\* The status registers differ from the plan, or lag behind the device for
\* longer than readback_attempts reads.
Differs(i) == IF matches(i, device[i.room]) THEN Fault ELSE UNCHANGED faults

ReadbackMismatch(i) ==
  /\ At(i, "verify") /\ ~bus.resumed
  /\ Differs(i)
  /\ mark_terminal(i, Current(i), "readback_mismatch")
  /\ record_slave_success(i.room)
  /\ ReleaseBus
  /\ UNCHANGED <<seen, physicalVars>>

\* Mutant: a resumed verification that differs is only reported.
ResumeMismatch_NoRewrite(i) ==
  /\ At(i, "verify") /\ bus.resumed
  /\ Differs(i)
  /\ Report(i, "applied_unconfirmed", Current(i).written) /\ ReleaseBus
  /\ UNCHANGED <<versionVars, attempt, slaveVars, physicalVars>>

\* After a resumed verification the intent is executed again, in the same call.
ResumeMismatch(i) ==
  /\ At(i, "verify") /\ bus.resumed
  /\ Differs(i)
  /\ execute_intent(i)
  /\ UNCHANGED <<seen, slaveVars, physicalVars>>

ReadbackFails(i) ==
  /\ At(i, "verify")
  /\ \/ /\ Report(i, "applied_unconfirmed", Current(i).written)
        /\ UNCHANGED <<attempt, terminal, applied>>
     \/ mark_terminal(i, Current(i), "applied_unconfirmed")
  /\ record_slave_failure(i.room)
  /\ Fault /\ ReleaseBus
  /\ UNCHANGED <<seen, physicalVars>>

\* The caller's task is cancelled, or the client raises something that is not
\* a G301TransportError, while a bus operation is awaited: the lock is
\* released and the attempt stays as it is.
Cancel(i) ==
  /\ bus # Null /\ bus.intent = i
  /\ \/ UNCHANGED device
     \/ At(i, "write") /\ Performed(i)
  /\ Fault /\ ReleaseBus
  /\ UNCHANGED <<versionVars, attempt, slaveVars, window, report>>

BusStep(i) ==
  \/ ProfileRead(i) \/ ProfileFails(i) \/ WriteOne(i) \/ WriteFails(i)
  \/ ReadbackMatches(i) \/ ReadbackMismatch(i) \/ ResumeMismatch(i)
  \/ ReadbackFails(i) \/ Cancel(i)

-----------------------------------------------------------------------------
(* Time.                                                                   *)

CooldownElapses(r) ==
  /\ cooldown[r] > 0
  /\ cooldown' = [cooldown EXCEPT ![r] = @ - 1]
  /\ UNCHANGED <<versionVars, attempt, failures, bus, physicalVars, report, faults>>

BecomesEffective(i) ==
  /\ window[i] = "early"
  /\ window' = [window EXCEPT ![i] = "open"]
  /\ UNCHANGED <<versionVars, attempt, slaveVars, bus, device, report, faults>>

Expires(i) ==
  /\ window[i] = "open"
  /\ window' = [window EXCEPT ![i] = "over"]
  /\ UNCHANGED <<versionVars, attempt, slaveVars, bus, device, report, faults>>

Next ==
  \/ \E i \in Intents : Receive(i) \/ BusStep(i) \/ BecomesEffective(i) \/ Expires(i)
  \/ \E r \in Rooms : CooldownElapses(r)

Spec == Init /\ [][Next]_vars

\* A call under way runs on, time passes, and the broker's subscriber hands
\* over every intent again as long as it is the newest one of its room: the
\* redelivery docs/future-adapter-contract.md asks of the caller.
Newest(i) == \A j \in Intents : j.room = i.room => j.version <= i.version

Fairness ==
  /\ \A i \in Intents : WF_vars(BusStep(i)) /\ WF_vars(BecomesEffective(i))
  /\ \A r \in Rooms : WF_vars(CooldownElapses(r))
  /\ \A i \in {j \in Intents : Newest(j)} :
       WF_vars(ReceiveNewer(i) \/ ReceiveRetryable(i) \/ ReceiveUncertain(i))

FairSpec == Spec /\ Fairness

-----------------------------------------------------------------------------
(* Properties.                                                             *)

\* The three watermarks stay in order and agree with the attempt, so the
\* RuntimeError "version state is inconsistent" and the assertion on the
\* cached result are unreachable.
WatermarksConsistent ==
  \A r \in Rooms :
    /\ applied[r] <= terminal[r] /\ terminal[r] <= seen[r]
    /\ seen[r] > 0 => attempt[r] # Null
    /\ attempt[r] # Null =>
         /\ attempt[r].intent.room = r /\ attempt[r].intent.version = seen[r]
         /\ attempt[r].phase = "terminal" <=> terminal[r] = seen[r]
         /\ attempt[r].phase = "terminal" <=> attempt[r].result # Null

\* A version reported as applied is what the device does, until the room is
\* given a newer version: no late or repeated call of an older intent, and no
\* rewrite after an uncertain one, changes the device behind the report.
AppliedMeansMatched ==
  \A r \in Rooms :
    seen[r] > 0 /\ applied[r] = seen[r] => matches(attempt[r].intent, device[r])

\* The bus is never used for a slave in its cooldown, not by the rewrite that
\* follows a resumed verification either.
NoTrafficInCooldown == bus # Null => cooldown[bus.intent.room] = 0

\* No sequence of intents takes a device out of the limits it reports.
DeviceWithinLimits ==
  \A r \in Rooms :
    /\ lower[r] * 10 <= device[r].temperature /\ device[r].temperature <= upper[r] * 10
    /\ limitation[r] = "heat" => device[r].mode \notin {4, 5}
    /\ limitation[r] = "cool_dry" => device[r].mode \notin {1, 5}

\* What is terminal is not executed again: as long as the room sees no newer
\* version, neither its device nor its attempt changes.
TerminalIsFinal ==
  [][\A r \in Rooms :
       seen[r] > 0 /\ terminal[r] = seen[r] /\ seen'[r] = seen[r] =>
         device'[r] = device[r] /\ attempt'[r] = attempt[r]]_vars

\* The latest order of a room, and how it stands: open until its version is
\* terminal.
OrderOf(r) == IF attempt[r] = Null THEN Null ELSE attempt[r].intent

Outcome(r) ==
  IF seen[r] = 0 THEN "none"
  ELSE IF terminal[r] # seen[r] THEN "open"
  ELSE IF applied[r] = seen[r] THEN "applied" ELSE "ended"

\* The worker, with its phases, retries, resumed verifications and cancelled
\* calls, keeps the promise of LatestOrder: the device is touched only for the
\* newest version and while that is open, and a new answer "applied" is given only
\* for the version the room has, which its device meets.
Promise == INSTANCE LatestOrder WITH
  Orders <- Intents,
  States <- [Registers -> Nat],
  None <- Null,
  Meets <- matches,
  order <- [r \in Rooms |-> OrderOf(r)],
  outcome <- [r \in Rooms |-> Outcome(r)],
  answer <- IF report = Null THEN Null
            ELSE [order |-> report.intent, applied |-> report.status = "applied"]

ImplementsLatestOrder == Promise!Spec

\* A device that is switched on is switched on with the mode and temperature
\* of one intent, whatever failed or was cut short before.
PoweredOnConfigured ==
  [][\A r \in Rooms :
       device[r].power = 0 /\ device'[r].power = 1 =>
         \E i \in Intents : i.room = r /\ i.version = seen[r] /\ matches(i, device'[r])]_vars

\* A newest intent that keeps being handed over reaches a final result, or
\* another intent with the same version was there first.
EventuallyTerminal ==
  \A i \in Intents : Newest(i) => <>(terminal[i.room] = i.version)

\* applied_unconfirmed is reported only when every planned write completed.
UnconfirmedMeansWritten ==
  report # Null /\ report.status = "applied_unconfirmed" =>
    report.written = Len(plan_room_intent(report.intent))

\* A call with an expired intent does not touch the bus.
ExpiredWithoutAccess ==
  [][bus = Null /\ bus' # Null => window[bus'.intent] # "over"]_vars

=============================================================================
