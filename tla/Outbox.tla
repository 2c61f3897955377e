------------------------------- MODULE Outbox -------------------------------
(***************************************************************************)
(* The transactional outbox of app/outbox/service.py, driven by            *)
(* run_outbox_once of app/runtime.py: rows are claimed in one transaction, *)
(* published one by one without a transaction, and their results recorded  *)
(* in a third.                                                             *)
(*                                                                         *)
(* Rows are numbered in the order (created_at, id) the claim query uses,   *)
(* and committed in any: created_at is a time taken before the Clock poll, *)
(* the lock or the transaction, so a row may appear after a later-numbered *)
(* one has been published, and equal times are ordered by random ids.      *)
(* The two clocks of a row are abstracted to what the queries ask of them: *)
(* `due` is next_attempt_at <= now, `stale` is claimed_at < now - stale.   *)
(* claimed_by is written and never read, and is left out.                  *)
(***************************************************************************)
EXTENDS Integers, FiniteSets

CONSTANTS
  Ids,            \* rows, numbered in publishing order
  Topics,
  topic,          \* row -> topic
  Workers,        \* outbox worker processes
  BatchSize,      \* outbox_batch_size
  MaxAttempts,    \* outbox_max_attempts
  MaxRequeues,    \* bound: attempts of a row that retry_dead_letters may exceed
  MaxFaults       \* bound: crashes, lost connections and failed transactions

ASSUME OutboxAssumption ==
  /\ Ids \subseteq Nat \ {0}
  /\ topic \in [Ids -> Topics]
  /\ {BatchSize, MaxAttempts} \subseteq Nat \ {0}
  /\ {MaxRequeues, MaxFaults} \subseteq Nat

VARIABLES
  rows,        \* row -> [status, attempts, due, stale]
  step,        \* worker -> where it is in run_outbox_once
  todo,        \* worker -> claimed rows it has not tried yet
  acked,       \* worker -> rows whose publish was acknowledged
  failed,      \* worker -> rows whose publish raised
  connected,   \* worker -> its MQTT connection is up
  inflight,    \* worker -> rows its MQTT library still holds after a timeout
  delivered,   \* rows the broker received at least once
  retained,    \* topic -> the row whose payload the broker retains, or 0
  faults,      \* faults so far
  overtaken    \* history: topics on which a row was committed after a
               \* later-numbered one had been claimed

workerVars == <<step, todo, acked, failed>>
brokerVars == <<inflight, delivered, retained>>
vars == <<rows, workerVars, connected, brokerVars, faults, overtaken>>

OutboxEvent ==
  [status : {"absent", "pending", "publishing", "published", "retrying", "dead_letter"},
   attempts : Nat, due : BOOLEAN, stale : BOOLEAN]

Held(w) == todo[w] \cup acked[w] \cup failed[w]

\* Type correctness; a worker holds rows only between its claim and its record.
TypeOK ==
  /\ rows \in [Ids -> OutboxEvent]
  /\ step \in [Workers -> {"idle", "released", "publishing"}]
  /\ todo \in [Workers -> SUBSET Ids]
  /\ acked \in [Workers -> SUBSET Ids]
  /\ failed \in [Workers -> SUBSET Ids]
  /\ connected \in [Workers -> BOOLEAN]
  /\ inflight \in [Workers -> SUBSET Ids]
  /\ delivered \in SUBSET Ids
  /\ retained \in [Topics -> Ids \cup {0}]
  /\ faults \in Nat
  /\ overtaken \in SUBSET Topics
  /\ \A w \in Workers : step[w] # "publishing" => Held(w) = {}

Init ==
  /\ rows = [i \in Ids |-> [status |-> "absent", attempts |-> 0,
                            due |-> TRUE, stale |-> FALSE]]
  /\ step = [w \in Workers |-> "idle"]
  /\ todo = [w \in Workers |-> {}]
  /\ acked = [w \in Workers |-> {}]
  /\ failed = [w \in Workers |-> {}]
  /\ connected = [w \in Workers |-> TRUE]
  /\ inflight = [w \in Workers |-> {}]
  /\ delivered = {}
  /\ retained = [p \in Topics |-> 0]
  /\ faults = 0
  /\ overtaken = {}

Fault == faults < MaxFaults /\ faults' = faults + 1 /\ UNCHANGED overtaken

-----------------------------------------------------------------------------
\* Row i comes after a row of its topic that has been claimed already.
Overtakes(i) ==
  \E j \in Ids : /\ i < j /\ topic[j] = topic[i]
                 /\ rows[j].status \notin {"absent", "pending"}

\* A committed transaction of the ledger adds a row (_outbox_event), with a
\* created_at that may be older than that of rows committed before it.
Enqueue(i) ==
  /\ rows[i].status = "absent"
  /\ rows' = [rows EXCEPT ![i].status = "pending"]
  /\ overtaken' = overtaken \cup IF Overtakes(i) THEN {topic[i]} ELSE {}
  /\ UNCHANGED <<workerVars, connected, brokerVars, faults>>

\* next_attempt_at is reached.
BackoffElapses(i) ==
  /\ ~rows[i].due
  /\ rows' = [rows EXCEPT ![i].due = TRUE]
  /\ UNCHANGED <<workerVars, connected, brokerVars, faults, overtaken>>

\* outbox_stale_publish_seconds pass after the claim.  Nothing renews a claim,
\* and a full batch of timeouts (25 x 2s) outlasts the 30s default, so this may
\* happen to a claim whose worker is alive.
ClaimAges(i) ==
  /\ rows[i].status = "publishing" /\ ~rows[i].stale
  /\ rows' = [rows EXCEPT ![i].stale = TRUE]
  /\ UNCHANGED <<workerVars, connected, brokerVars, faults, overtaken>>

-----------------------------------------------------------------------------
(* run_outbox_once                                                         *)

\* Mutant: stale claims are not released.
released_Never(row) == row

released(row) ==
  IF row.status = "publishing" /\ row.stale
  THEN [row EXCEPT !.status = "retrying", !.due = TRUE, !.stale = FALSE] ELSE row

release_stale_publishing(w) ==
  /\ step[w] = "idle"
  /\ rows' = [i \in Ids |-> released(rows[i])]
  /\ step' = [step EXCEPT ![w] = "released"]
  /\ UNCHANGED <<todo, acked, failed, connected, brokerVars, faults, overtaken>>

SkipDisconnected(w) ==
  /\ step[w] = "released" /\ ~connected[w]
  /\ step' = [step EXCEPT ![w] = "idle"]
  /\ UNCHANGED <<rows, todo, acked, failed, connected, brokerVars, faults, overtaken>>

claimable == {i \in Ids : rows[i].status \in {"pending", "retrying"} /\ rows[i].due}

\* The first BatchSize claimable rows.
IsBatch(S) ==
  /\ S \subseteq claimable
  /\ \A i \in S, j \in claimable \ S : i < j
  /\ Cardinality(S) <= BatchSize
  /\ S # claimable => Cardinality(S) = BatchSize

\* Mutant: the claim is not written to the row.
claimed_StatusKept(row) == [row EXCEPT !.stale = FALSE]

claimed(row) == [row EXCEPT !.status = "publishing", !.stale = FALSE]

claim_pending(w) ==
  /\ step[w] = "released" /\ connected[w]
  /\ \E S \in SUBSET Ids :
       /\ IsBatch(S)
       /\ rows' = [i \in Ids |-> IF i \in S THEN claimed(rows[i]) ELSE rows[i]]
       /\ todo' = [todo EXCEPT ![w] = S]
  /\ step' = [step EXCEPT ![w] = "publishing"]
  /\ UNCHANGED <<acked, failed, connected, brokerVars, faults, overtaken>>

\* Mutant: newest row first.
IsNext_Newest(w, i) == i \in todo[w] /\ \A j \in todo[w] : j <= i

\* publish_pending tries the rows in order; a failure does not stop the batch.
IsNext(w, i) == i \in todo[w] /\ \A j \in todo[w] : i <= j

Receive(i) ==
  /\ delivered' = delivered \cup {i}
  /\ retained' = [retained EXCEPT ![topic[i]] = i]

\* The broker acknowledges in time.
PublishAcked(w, i) ==
  /\ IsNext(w, i) /\ connected[w]
  /\ Receive(i)
  /\ todo' = [todo EXCEPT ![w] = @ \ {i}]
  /\ acked' = [acked EXCEPT ![w] = @ \cup {i}]
  /\ UNCHANGED <<rows, step, failed, connected, inflight, faults, overtaken>>

\* Mutant: an exception of publish is swallowed.
PublishFailed_Swallowed(w, i) ==
  /\ IsNext(w, i)
  /\ todo' = [todo EXCEPT ![w] = @ \ {i}]
  /\ acked' = [acked EXCEPT ![w] = @ \cup {i}]
  /\ UNCHANGED <<rows, step, failed, connected, brokerVars, faults, overtaken>>

\* publish raises, or _wait_for_publish_ack does: the broker may have received
\* the message without its acknowledgement arriving, the library may keep it
\* for a later delivery, or it is gone.
PublishFailed(w, i) ==
  /\ IsNext(w, i)
  /\ \/ connected[w] /\ Receive(i) /\ UNCHANGED inflight
     \/ /\ inflight' = [inflight EXCEPT ![w] = @ \cup {i}]
        /\ UNCHANGED <<delivered, retained>>
     \/ UNCHANGED brokerVars
  /\ todo' = [todo EXCEPT ![w] = @ \ {i}]
  /\ failed' = [failed EXCEPT ![w] = @ \cup {i}]
  /\ UNCHANGED <<rows, step, acked, connected, faults, overtaken>>

\* The library delivers what it still holds.
DeliverLate(w, i) ==
  /\ i \in inflight[w] /\ connected[w]
  /\ Receive(i)
  /\ inflight' = [inflight EXCEPT ![w] = @ \ {i}]
  /\ UNCHANGED <<rows, workerVars, connected, faults, overtaken>>

published(row) == [row EXCEPT !.status = "published", !.due = TRUE, !.stale = FALSE]

\* Mutant: given up one attempt early.
unpublished_Early(row) ==
  [status |-> IF row.attempts + 2 >= MaxAttempts THEN "dead_letter" ELSE "retrying",
   attempts |-> row.attempts + 1,
   due |-> row.attempts + 2 >= MaxAttempts, stale |-> FALSE]

\* Mutant: an exhausted row is dropped instead of kept as a dead letter.
unpublished_Dropped(row) ==
  [status |-> IF row.attempts + 1 >= MaxAttempts THEN "absent" ELSE "retrying",
   attempts |-> row.attempts + 1,
   due |-> row.attempts + 1 >= MaxAttempts, stale |-> FALSE]

unpublished(row) ==
  [status |-> IF row.attempts + 1 >= MaxAttempts THEN "dead_letter" ELSE "retrying",
   attempts |-> row.attempts + 1,
   due |-> row.attempts + 1 >= MaxAttempts, stale |-> FALSE]

\* Mutant: the failures of a batch are carried into the next one.
EndOfBatch_KeepsFailed(w) ==
  /\ step[w] = "publishing" /\ todo[w] = {}
  /\ step' = [step EXCEPT ![w] = "idle"]
  /\ acked' = [acked EXCEPT ![w] = {}]
  /\ UNCHANGED <<todo, failed, connected, brokerVars>>

EndOfBatch(w) ==
  /\ step[w] = "publishing" /\ todo[w] = {}
  /\ step' = [step EXCEPT ![w] = "idle"]
  /\ acked' = [acked EXCEPT ![w] = {}]
  /\ failed' = [failed EXCEPT ![w] = {}]
  /\ UNCHANGED <<todo, connected, brokerVars>>

\* No check that the row is still claimed by this worker, or claimed at all.
record_results(w) ==
  /\ EndOfBatch(w)
  /\ rows' = [i \in Ids |-> IF i \in acked[w] THEN published(rows[i])
                            ELSE IF i \in failed[w] THEN unpublished(rows[i])
                            ELSE rows[i]]
  /\ UNCHANGED <<faults, overtaken>>

\* The recording transaction fails; _periodic only notes the error.
RecordingFails(w) ==
  /\ EndOfBatch(w)
  /\ Fault
  /\ UNCHANGED rows

-----------------------------------------------------------------------------
(* Faults, and the operator's requeue.                                     *)

Disconnect(w) ==
  /\ connected[w]
  /\ Fault
  /\ connected' = [connected EXCEPT ![w] = FALSE]
  /\ UNCHANGED <<rows, workerVars, brokerVars>>

Connect(w) ==
  /\ ~connected[w]
  /\ connected' = [connected EXCEPT ![w] = TRUE]
  /\ UNCHANGED <<rows, workerVars, brokerVars, faults, overtaken>>

\* The process dies and is restarted: claims stay in the table.
Crash(w) ==
  /\ Fault
  /\ step' = [step EXCEPT ![w] = "idle"]
  /\ todo' = [todo EXCEPT ![w] = {}]
  /\ acked' = [acked EXCEPT ![w] = {}]
  /\ failed' = [failed EXCEPT ![w] = {}]
  /\ inflight' = [inflight EXCEPT ![w] = {}]
  /\ connected' = [connected EXCEPT ![w] = TRUE]
  /\ UNCHANGED <<rows, delivered, retained>>

\* Mutant: the requeue takes every finished row.
requeued_Published(row) ==
  IF row.status \in {"dead_letter", "published"}
  THEN [row EXCEPT !.status = "retrying", !.due = TRUE, !.stale = FALSE] ELSE row

requeued(row) ==
  IF row.status = "dead_letter"
  THEN [row EXCEPT !.status = "retrying", !.due = TRUE, !.stale = FALSE] ELSE row

\* attempts is not reset.
retry_dead_letters ==
  /\ \E i \in Ids : rows[i].status = "dead_letter"
  /\ \A i \in Ids : rows[i].attempts < MaxAttempts + MaxRequeues
  /\ rows' = [i \in Ids |-> requeued(rows[i])]
  /\ UNCHANGED <<workerVars, connected, brokerVars, faults, overtaken>>

-----------------------------------------------------------------------------
WorkerStep(w) ==
  \/ release_stale_publishing(w) \/ SkipDisconnected(w) \/ claim_pending(w)
  \/ \E i \in Ids : PublishAcked(w, i) \/ PublishFailed(w, i)
  \/ record_results(w)

Next ==
  \/ \E i \in Ids : Enqueue(i) \/ BackoffElapses(i) \/ ClaimAges(i)
  \/ \E w \in Workers : WorkerStep(w) \/ RecordingFails(w)
  \/ \E w \in Workers, i \in Ids : DeliverLate(w, i)
  \/ \E w \in Workers : Disconnect(w) \/ Connect(w) \/ Crash(w)
  \/ retry_dead_letters

Spec == Init /\ [][Next]_vars

\* The periodic task keeps calling run_outbox_once, the MQTT library keeps
\* reconnecting, and time passes.  Nothing says that a publish ever succeeds.
Fairness ==
  /\ \A w \in Workers : WF_vars(WorkerStep(w)) /\ WF_vars(Connect(w))
  /\ \A i \in Ids : WF_vars(BackoffElapses(i)) /\ WF_vars(ClaimAges(i))

FairSpec == Spec /\ Fairness

-----------------------------------------------------------------------------
(* Properties.                                                             *)

\* A row is marked published only if the broker received it, also when the
\* worker died, lost its connection, or recorded late.
PublishedDelivered ==
  \A i \in Ids : rows[i].status = "published" => i \in delivered

\* A row is given up only after MaxAttempts recorded failures, however its
\* retries, releases and requeues interleave.
DeadLetterExhausted ==
  \A i \in Ids : rows[i].status = "dead_letter" => rows[i].attempts >= MaxAttempts

\* With one worker process, a row that worker holds is claimed in the table,
\* so it is held once and not handed out again before its result is recorded.
HeldIsClaimed ==
  \A w \in Workers : \A i \in Held(w) : rows[i].status = "publishing"

\* Once published, a row stays published.
PublishedIsFinal ==
  [][\A i \in Ids : rows[i].status = "published" => rows[i].status' = "published"]_vars

\* Every enqueued row is eventually published or given up: neither a crash
\* between claim and record nor a lost connection strands it.
EventuallyResolved ==
  \A i \in Ids :
    rows[i].status # "absent" ~> rows[i].status \in {"published", "dead_letter"}

NoFailure(p) ==
  /\ faults = 0
  /\ \A i \in Ids : topic[i] = p =>
       rows[i].attempts = 0 /\ \A w \in Workers : i \notin failed[w]

\* As long as nothing has failed on a topic, the broker retains the last row
\* of it that has been delivered; except when a row was committed after a later
\* one of the topic had been claimed (OutboxLateCommit.cfg).
InOrderWithoutFailure ==
  \A p \in Topics : NoFailure(p) /\ p \notin overtaken =>
    \A i \in delivered : topic[i] = p => i <= retained[p]

\* The same without the exception: a row committed late, published without any
\* failure, replaces the later one.
LastDeliveredRetained ==
  \A p \in Topics : NoFailure(p) =>
    \A i \in delivered : topic[i] = p => i <= retained[p]

\* When every row of a topic has been published, the broker retains the newest;
\* a retried row replaces it, although every row was committed in its order.
RetainedIsNewest ==
  \A p \in Topics \ overtaken :
    LET R == {i \in Ids : topic[i] = p /\ rows[i].status # "absent"}
    IN  (\A i \in R : rows[i].status = "published") =>
          \A i \in R : i <= retained[p]

\* The outbox seen as the at-least-once queue.
AbstractState ==
  [i \in Ids |-> CASE rows[i].status = "absent" -> "absent"
                   [] rows[i].status = "published" -> "done"
                   [] rows[i].status = "dead_letter" -> "parked"
                   [] OTHER -> "open"]

Queue == INSTANCE AtLeastOnce WITH state <- AbstractState

\* With one worker the outbox implements the at-least-once queue.
ImplementsQueue == Queue!Spec

=============================================================================
