---------------------------- MODULE OutboxProofs ----------------------------
(***************************************************************************)
(* Theorems about the transactional outbox, for every set of rows, topics  *)
(* and workers, every batch size and every number of attempts and faults.  *)
(***************************************************************************)
EXTENDS Outbox, TLAPS

\* Whatever step is taken, the next state is one of these actions'.
LEMMA StepCases ==
  ASSUME Next
  PROVE  \/ \E i \in Ids : Enqueue(i)
         \/ \E i \in Ids : BackoffElapses(i)
         \/ \E i \in Ids : ClaimAges(i)
         \/ \E w \in Workers : release_stale_publishing(w)
         \/ \E w \in Workers : SkipDisconnected(w)
         \/ \E w \in Workers : claim_pending(w)
         \/ \E w \in Workers, i \in Ids : PublishAcked(w, i)
         \/ \E w \in Workers, i \in Ids : PublishFailed(w, i)
         \/ \E w \in Workers : record_results(w)
         \/ \E w \in Workers : RecordingFails(w)
         \/ \E w \in Workers, i \in Ids : DeliverLate(w, i)
         \/ \E w \in Workers : Disconnect(w)
         \/ \E w \in Workers : Connect(w)
         \/ \E w \in Workers : Crash(w)
         \/ retry_dead_letters
BY Zenon DEF Next, WorkerStep

\* The operations on a row yield rows.
LEMMA RowTypes ==
  ASSUME NEW row \in OutboxEvent
  PROVE  /\ released(row) \in OutboxEvent
         /\ claimed(row) \in OutboxEvent
         /\ published(row) \in OutboxEvent
         /\ unpublished(row) \in OutboxEvent
         /\ requeued(row) \in OutboxEvent
<1>1. MaxAttempts \in Nat
  BY OutboxAssumption
<1>2. row.attempts \in Nat /\ row.attempts + 1 \in Nat
  BY DEF OutboxEvent
<1>3. (row.attempts + 1 >= MaxAttempts) \in BOOLEAN
  OBVIOUS
<1>4. unpublished(row) \in OutboxEvent
  BY <1>1, <1>2 DEF OutboxEvent, unpublished
<1> QED
  BY <1>4 DEF OutboxEvent, released, claimed, published, requeued

-----------------------------------------------------------------------------
(* Type correctness.                                                       *)

\* The empty table is well typed.
LEMMA TypeInit == Init => TypeOK
<1> SUFFICES ASSUME Init PROVE TypeOK
  OBVIOUS
<1>1. rows \in [Ids -> OutboxEvent]
  BY DEF Init, OutboxEvent
<1> QED
  BY <1>1 DEF Init, TypeOK, Held

\* A change of the table, and of what is noted of its order.
LEMMA TypeRows ==
  ASSUME TypeOK, rows' \in [Ids -> OutboxEvent], overtaken' \in SUBSET Topics,
         UNCHANGED <<workerVars, connected, brokerVars, faults>>
  PROVE  TypeOK'
BY DEF TypeOK, Held, workerVars, brokerVars

\* Every step of run_outbox_once, of the broker and of the environment keeps
\* the types.
LEMMA TypeStep == TypeOK /\ [Next]_vars => TypeOK'
<1> SUFFICES ASSUME TypeOK, [Next]_vars PROVE TypeOK'
  OBVIOUS
<1>0. ASSUME NEW i \in Ids PROVE rows[i] \in OutboxEvent
  BY DEF TypeOK
<1>1. ASSUME NEW i \in Ids, Enqueue(i) PROVE TypeOK'
  <2>1. rows' \in [Ids -> OutboxEvent]
    BY <1>1, <1>0 DEF TypeOK, Enqueue, OutboxEvent
  <2>2. overtaken' \in SUBSET Topics
    BY <1>1, OutboxAssumption DEF TypeOK, Enqueue
  <2> QED
    BY <1>1, <2>1, <2>2, TypeRows DEF Enqueue
<1>2. ASSUME NEW i \in Ids, BackoffElapses(i) PROVE TypeOK'
  <2>1. rows' \in [Ids -> OutboxEvent]
    BY <1>2, <1>0 DEF TypeOK, BackoffElapses, OutboxEvent
  <2> QED
    BY <1>2, <2>1, TypeRows DEF BackoffElapses, TypeOK
<1>3. ASSUME NEW i \in Ids, ClaimAges(i) PROVE TypeOK'
  <2>1. rows' \in [Ids -> OutboxEvent]
    BY <1>3, <1>0 DEF TypeOK, ClaimAges, OutboxEvent
  <2> QED
    BY <1>3, <2>1, TypeRows DEF ClaimAges, TypeOK
<1>4. ASSUME NEW w \in Workers, release_stale_publishing(w) PROVE TypeOK'
  <2>1. rows' \in [Ids -> OutboxEvent]
    BY <1>4, <1>0, RowTypes DEF release_stale_publishing
  <2> QED
    BY <1>4, <2>1 DEF release_stale_publishing, TypeOK, Held, brokerVars
<1>5. ASSUME NEW w \in Workers, SkipDisconnected(w) PROVE TypeOK'
  BY <1>5 DEF SkipDisconnected, TypeOK, Held, brokerVars
<1>6. ASSUME NEW w \in Workers, claim_pending(w) PROVE TypeOK'
  <2>1. PICK S \in SUBSET Ids :
          /\ rows' = [i \in Ids |-> IF i \in S THEN claimed(rows[i]) ELSE rows[i]]
          /\ todo' = [todo EXCEPT ![w] = S]
    BY <1>6 DEF claim_pending
  <2>2. rows' \in [Ids -> OutboxEvent]
    BY <2>1, <1>0, RowTypes
  <2> QED
    BY <1>6, <2>1, <2>2 DEF claim_pending, TypeOK, Held, brokerVars
<1>7. ASSUME NEW w \in Workers, NEW i \in Ids, PublishAcked(w, i) PROVE TypeOK'
  BY <1>7, OutboxAssumption DEF PublishAcked, Receive, IsNext, TypeOK, Held
<1>8. ASSUME NEW w \in Workers, NEW i \in Ids, PublishFailed(w, i) PROVE TypeOK'
  <2>1. inflight' \in [Workers -> SUBSET Ids]
    BY <1>8 DEF PublishFailed, TypeOK, brokerVars
  <2>2. delivered' \in SUBSET Ids
    BY <1>8 DEF PublishFailed, Receive, TypeOK, brokerVars
  <2>3. retained' \in [Topics -> Ids \cup {0}]
    BY <1>8, OutboxAssumption DEF PublishFailed, Receive, TypeOK, brokerVars
  <2> QED
    BY <1>8, <2>1, <2>2, <2>3 DEF PublishFailed, IsNext, TypeOK, Held
<1>9. ASSUME NEW w \in Workers, record_results(w) PROVE TypeOK'
  <2>1. rows' \in [Ids -> OutboxEvent]
    BY <1>9, <1>0, RowTypes DEF record_results
  <2> QED
    BY <1>9, <2>1 DEF record_results, EndOfBatch, TypeOK, Held, brokerVars
<1>10. ASSUME NEW w \in Workers, RecordingFails(w) PROVE TypeOK'
  BY <1>10 DEF RecordingFails, EndOfBatch, Fault, TypeOK, Held, brokerVars
<1>11. ASSUME NEW w \in Workers, NEW i \in Ids, DeliverLate(w, i) PROVE TypeOK'
  BY <1>11, OutboxAssumption DEF DeliverLate, Receive, TypeOK, Held, workerVars
<1>12. ASSUME NEW w \in Workers, Disconnect(w) PROVE TypeOK'
  BY <1>12 DEF Disconnect, Fault, TypeOK, Held, workerVars, brokerVars
<1>13. ASSUME NEW w \in Workers, Connect(w) PROVE TypeOK'
  BY <1>13 DEF Connect, TypeOK, Held, workerVars, brokerVars
<1>14. ASSUME NEW w \in Workers, Crash(w) PROVE TypeOK'
  BY <1>14 DEF Crash, Fault, TypeOK, Held
<1>15. ASSUME retry_dead_letters PROVE TypeOK'
  <2>1. rows' \in [Ids -> OutboxEvent]
    BY <1>15, <1>0, RowTypes DEF retry_dead_letters
  <2> QED
    BY <1>15, <2>1, TypeRows DEF retry_dead_letters, TypeOK
<1>16. ASSUME UNCHANGED vars PROVE TypeOK'
  BY <1>16 DEF vars, TypeOK, Held, workerVars, brokerVars
<1> QED
  BY <1>1, <1>2, <1>3, <1>4, <1>5, <1>6, <1>7, <1>8, <1>9, <1>10, <1>11, <1>12,
     <1>13, <1>14, <1>15, <1>16, StepCases

\* The table, the worker's hands and the broker keep their types, and a worker
\* holds rows only between its claim and its record.
THEOREM TypeCorrect == Spec => []TypeOK
BY TypeInit, TypeStep, PTL DEF Spec

-----------------------------------------------------------------------------
(* Published implies delivered.                                            *)

\* What a worker counts as acknowledged has reached the broker.
AckedDelivered == \A w \in Workers : acked[w] \subseteq delivered

PublishedInv == TypeOK /\ AckedDelivered /\ PublishedDelivered

\* Which operation on a row makes it published.
LEMMA RowStatus ==
  ASSUME NEW row \in OutboxEvent
  PROVE  /\ released(row).status = "published" => row.status = "published"
         /\ claimed(row).status = "publishing"
         /\ unpublished(row).status \in {"dead_letter", "retrying"}
         /\ requeued(row).status = "published" => row.status = "published"
BY DEF OutboxEvent, released, claimed, unpublished, requeued

\* Nothing is published, or in hand with an acknowledgement, at the start.
LEMMA PublishedInit == Init => PublishedInv
BY TypeInit DEF Init, PublishedInv, AckedDelivered, PublishedDelivered

\* An acknowledgement in hand, and a published row, always stand for a message
\* the broker received.
LEMMA PublishedStep == PublishedInv /\ [Next]_vars => PublishedInv'
<1> SUFFICES ASSUME PublishedInv, [Next]_vars PROVE PublishedInv'
  OBVIOUS
<1>t. TypeOK /\ TypeOK'
  BY TypeStep DEF PublishedInv
<1>0. ASSUME NEW i \in Ids PROVE rows[i] \in OutboxEvent
  BY <1>t DEF TypeOK
\* delivered only grows, so a step matters if it acknowledges or publishes.
<1>d. delivered \subseteq delivered'
  <2>1. ASSUME NEW w \in Workers, NEW i \in Ids, PublishFailed(w, i)
        PROVE  delivered \subseteq delivered'
    BY <2>1 DEF PublishFailed, Receive, brokerVars
  <2> QED
    BY <2>1, StepCases DEF Enqueue, BackoffElapses, ClaimAges,
       release_stale_publishing, SkipDisconnected, claim_pending, PublishAcked,
       record_results, RecordingFails, EndOfBatch, DeliverLate, Receive,
       Disconnect, Connect, Crash, retry_dead_letters, vars, brokerVars
<1>a. AckedDelivered'
  <2>1. ASSUME NEW w \in Workers, NEW i \in Ids, PublishAcked(w, i)
        PROVE  AckedDelivered'
    BY <2>1, <1>t DEF PublishAcked, Receive, PublishedInv, AckedDelivered, TypeOK
  <2>2. ASSUME NEW w \in Workers,
               EndOfBatch(w) \/ (acked' = [acked EXCEPT ![w] = {}])
        PROVE  AckedDelivered'
    BY <2>2, <1>t, <1>d DEF EndOfBatch, PublishedInv, AckedDelivered, TypeOK
  <2>3. ASSUME acked' = acked PROVE AckedDelivered'
    BY <2>3, <1>d DEF PublishedInv, AckedDelivered
  <2> QED
    BY <2>1, <2>2, <2>3, StepCases DEF Enqueue, BackoffElapses, ClaimAges,
       release_stale_publishing, SkipDisconnected, claim_pending, PublishFailed,
       record_results, RecordingFails, DeliverLate,
       Disconnect, Connect, Crash, retry_dead_letters, vars, workerVars
<1>p. PublishedDelivered'
  <2>1. ASSUME rows' = rows PROVE PublishedDelivered'
    BY <2>1, <1>d DEF PublishedInv, PublishedDelivered
  <2>2. ASSUME NEW i \in Ids, Enqueue(i) \/ BackoffElapses(i) \/ ClaimAges(i)
        PROVE  PublishedDelivered'
    <3>0. rows \in [Ids -> OutboxEvent]
      BY <1>t DEF TypeOK
    <3>1. CASE Enqueue(i)
      BY <3>0, <3>1, <1>d DEF Enqueue, OutboxEvent, PublishedInv, PublishedDelivered
    <3>2. CASE BackoffElapses(i)
      BY <3>0, <3>2, <1>d DEF BackoffElapses, OutboxEvent, PublishedInv, PublishedDelivered
    <3>3. CASE ClaimAges(i)
      BY <3>0, <3>3, <1>d DEF ClaimAges, OutboxEvent, PublishedInv, PublishedDelivered
    <3> QED
      BY <2>2, <3>1, <3>2, <3>3
  <2>3. ASSUME NEW w \in Workers, release_stale_publishing(w) PROVE PublishedDelivered'
    BY <2>3, <1>0, <1>d, RowStatus DEF release_stale_publishing, PublishedInv, PublishedDelivered
  <2>4. ASSUME NEW w \in Workers, claim_pending(w) PROVE PublishedDelivered'
    BY <2>4, <1>0, <1>d, RowStatus DEF claim_pending, PublishedInv, PublishedDelivered
  <2>5. ASSUME NEW w \in Workers, record_results(w) PROVE PublishedDelivered'
    BY <2>5, <1>0, <1>d, RowStatus
       DEF record_results, PublishedInv, PublishedDelivered, AckedDelivered
  <2>6. ASSUME retry_dead_letters PROVE PublishedDelivered'
    BY <2>6, <1>0, <1>d, RowStatus DEF retry_dead_letters, PublishedInv, PublishedDelivered
  <2> QED
    BY <2>1, <2>2, <2>3, <2>4, <2>5, <2>6, StepCases DEF
       SkipDisconnected, PublishAcked, PublishFailed, RecordingFails, DeliverLate,
       Disconnect, Connect, Crash, vars
<1> QED
  BY <1>t, <1>a, <1>p DEF PublishedInv

\* However workers die, lose their connection or record late: a row marked
\* published has reached the broker.
THEOREM PublishedRowsDelivered == Spec => []PublishedDelivered
<1>1. PublishedInv => PublishedDelivered
  BY DEF PublishedInv
<1> QED
  BY PublishedInit, PublishedStep, <1>1, PTL DEF Spec

-----------------------------------------------------------------------------
(* Dead letters.                                                           *)

Exhausted(row) == row.status = "dead_letter" => row.attempts >= MaxAttempts

\* No operation on a row gives it up early.
LEMMA RowExhausted ==
  ASSUME NEW row \in OutboxEvent, Exhausted(row)
  PROVE  /\ Exhausted(released(row))
         /\ Exhausted(claimed(row))
         /\ Exhausted(published(row))
         /\ Exhausted(unpublished(row))
         /\ Exhausted(requeued(row))
BY OutboxAssumption
   DEF OutboxEvent, Exhausted, released, claimed, published, unpublished, requeued

DeadLetterInv == TypeOK /\ DeadLetterExhausted

\* record_results gives a row up only when its count reaches the limit, and no
\* release, claim or requeue changes a count.
LEMMA DeadLetterStep == DeadLetterInv /\ [Next]_vars => DeadLetterInv'
<1> SUFFICES ASSUME DeadLetterInv, [Next]_vars PROVE DeadLetterExhausted'
  BY TypeStep DEF DeadLetterInv
<1>0. ASSUME NEW i \in Ids PROVE rows[i] \in OutboxEvent /\ Exhausted(rows[i])
  BY DEF DeadLetterInv, DeadLetterExhausted, Exhausted, TypeOK
<1>q. ASSUME \A i \in Ids : Exhausted(rows'[i]) PROVE DeadLetterExhausted'
  BY <1>q DEF DeadLetterExhausted, Exhausted
<1>1. ASSUME rows' = rows PROVE DeadLetterExhausted'
  BY <1>1 DEF DeadLetterInv, DeadLetterExhausted
<1>2. ASSUME NEW i \in Ids, Enqueue(i) \/ BackoffElapses(i) \/ ClaimAges(i)
      PROVE  DeadLetterExhausted'
  <2>1. rows \in [Ids -> OutboxEvent]
    BY DEF DeadLetterInv, TypeOK
  <2>2. \A j \in Ids : /\ rows'[j].attempts = rows[j].attempts
                       /\ rows'[j].status = "dead_letter" => rows[j].status = "dead_letter"
    BY <1>2, <2>1 DEF Enqueue, BackoffElapses, ClaimAges, OutboxEvent
  <2> QED
    BY <2>2, <1>0, <1>q DEF Exhausted
<1>3. ASSUME NEW w \in Workers, release_stale_publishing(w) PROVE DeadLetterExhausted'
  BY <1>3, <1>0, <1>q, RowExhausted DEF release_stale_publishing
<1>4. ASSUME NEW w \in Workers, claim_pending(w) PROVE DeadLetterExhausted'
  BY <1>4, <1>0, <1>q, RowExhausted DEF claim_pending
<1>5. ASSUME NEW w \in Workers, record_results(w) PROVE DeadLetterExhausted'
  BY <1>5, <1>0, <1>q, RowExhausted DEF record_results
<1>6. ASSUME retry_dead_letters PROVE DeadLetterExhausted'
  BY <1>6, <1>0, <1>q, RowExhausted DEF retry_dead_letters
<1> QED
  BY <1>1, <1>2, <1>3, <1>4, <1>5, <1>6, StepCases DEF
     SkipDisconnected, PublishAcked, PublishFailed, RecordingFails, DeliverLate,
     Disconnect, Connect, Crash, vars

\* However retries, releases and requeues interleave, and with any number of
\* workers: a row is given up only after MaxAttempts recorded failures.
THEOREM DeadLettersExhausted == Spec => []DeadLetterExhausted
<1>1. Init => DeadLetterInv
  BY TypeInit DEF Init, DeadLetterInv, DeadLetterExhausted
<1>2. DeadLetterInv => DeadLetterExhausted
  BY DEF DeadLetterInv
<1> QED
  BY <1>1, <1>2, DeadLetterStep, PTL DEF Spec

-----------------------------------------------------------------------------
(* One worker process.                                                     *)

OneWorker == \A v, w \in Workers : v = w

ClaimInv == TypeOK /\ HeldIsClaimed

\* Nobody holds a row at the start.
LEMMA ClaimInit == Init => ClaimInv
BY TypeInit DEF Init, ClaimInv, HeldIsClaimed, Held

\* With one worker, what the worker holds is claimed in the table and stays so.
LEMMA ClaimStep ==
  ASSUME OneWorker
  PROVE  ClaimInv /\ [Next]_vars => ClaimInv'
<1> SUFFICES ASSUME ClaimInv, [Next]_vars PROVE HeldIsClaimed'
  BY TypeStep DEF ClaimInv
<1>0. ASSUME NEW i \in Ids PROVE rows[i] \in OutboxEvent
  BY DEF ClaimInv, TypeOK
<1>h. ASSUME \A w \in Workers : Held(w)' \subseteq Held(w),
             \A i \in Ids : rows[i].status = "publishing" => rows'[i].status = "publishing"
      PROVE  HeldIsClaimed'
  <2>1. \A w \in Workers : Held(w) \subseteq Ids
    BY DEF ClaimInv, TypeOK, Held
  <2> QED
    BY <1>h, <2>1 DEF ClaimInv, HeldIsClaimed
<1>e. ASSUME NEW w \in Workers, Held(w)' = {} PROVE HeldIsClaimed'
  BY <1>e, OneWorker DEF OneWorker, HeldIsClaimed
<1>1. ASSUME rows' = rows, \A w \in Workers : Held(w)' \subseteq Held(w)
      PROVE  HeldIsClaimed'
  BY <1>1, <1>h
<1>2. ASSUME NEW i \in Ids, Enqueue(i) \/ BackoffElapses(i) \/ ClaimAges(i)
      PROVE  HeldIsClaimed'
  <2>1. rows \in [Ids -> OutboxEvent]
    BY DEF ClaimInv, TypeOK
  <2>2. \A j \in Ids : rows[j].status = "publishing" => rows'[j].status = "publishing"
    BY <1>2, <2>1 DEF Enqueue, BackoffElapses, ClaimAges, OutboxEvent
  <2>3. \A w \in Workers : Held(w)' = Held(w)
    BY <1>2 DEF Enqueue, BackoffElapses, ClaimAges, Held, workerVars
  <2> QED
    BY <2>2, <2>3, <1>h
<1>3. ASSUME NEW w \in Workers, release_stale_publishing(w) PROVE HeldIsClaimed'
  BY <1>3, <1>e DEF release_stale_publishing, ClaimInv, TypeOK, Held
<1>4. ASSUME NEW w \in Workers, claim_pending(w) PROVE HeldIsClaimed'
  <2>1. PICK S \in SUBSET Ids :
          /\ rows' = [i \in Ids |-> IF i \in S THEN claimed(rows[i]) ELSE rows[i]]
          /\ todo' = [todo EXCEPT ![w] = S]
    BY <1>4 DEF claim_pending
  <2>2. Held(w) = {}
    BY <1>4 DEF claim_pending, ClaimInv, TypeOK
  <2>3. Held(w)' = S
    BY <1>4, <2>1, <2>2 DEF claim_pending, Held, ClaimInv, TypeOK
  <2>4. \A i \in S : rows'[i].status = "publishing"
    BY <2>1, <1>0, RowStatus
  <2> QED
    BY <2>3, <2>4, OneWorker DEF OneWorker, HeldIsClaimed
<1>5. ASSUME NEW w \in Workers, NEW i \in Ids, PublishAcked(w, i) \/ PublishFailed(w, i)
      PROVE  HeldIsClaimed'
  <2>1. rows' = rows /\ \A v \in Workers : Held(v)' \subseteq Held(v)
    BY <1>5 DEF PublishAcked, PublishFailed, IsNext, Held, ClaimInv, TypeOK
  <2> QED
    BY <2>1, <1>1
<1>6. ASSUME NEW w \in Workers, EndOfBatch(w) PROVE HeldIsClaimed'
  <2>1. Held(w)' = {}
    BY <1>6 DEF EndOfBatch, Held, ClaimInv, TypeOK
  <2> QED
    BY <2>1, <1>e
<1>7. ASSUME NEW w \in Workers, Crash(w) PROVE HeldIsClaimed'
  <2>1. Held(w)' = {}
    BY <1>7 DEF Crash, Held, ClaimInv, TypeOK
  <2> QED
    BY <2>1, <1>e
<1>8. ASSUME retry_dead_letters PROVE HeldIsClaimed'
  <2>1. \A i \in Ids : rows[i].status = "publishing" => rows'[i].status = "publishing"
    BY <1>8 DEF retry_dead_letters, requeued
  <2>2. \A w \in Workers : Held(w)' = Held(w)
    BY <1>8 DEF retry_dead_letters, Held, workerVars
  <2> QED
    BY <2>1, <2>2, <1>h
<1>9. ASSUME rows' = rows, UNCHANGED <<todo, acked, failed>> PROVE HeldIsClaimed'
  BY <1>9, <1>1 DEF Held
<1> QED
  BY <1>2, <1>3, <1>4, <1>5, <1>6, <1>7, <1>8, <1>9, StepCases DEF
     SkipDisconnected, record_results, RecordingFails, DeliverLate,
     Disconnect, Connect, vars, workerVars

\* With one worker process no row is handed out while it is still being
\* published: the releases of stale claims never race its record.
THEOREM HeldRowsClaimed ==
  ASSUME OneWorker
  PROVE  Spec => []HeldIsClaimed
<1>1. ClaimInv => HeldIsClaimed
  BY DEF ClaimInv
<1> QED
  BY <1>1, ClaimInit, ClaimStep, PTL DEF Spec

\* With one worker process a published row is never taken up again.
THEOREM PublishedRowsFinal ==
  ASSUME OneWorker
  PROVE  Spec => PublishedIsFinal
<1> DEFINE Final == \A i \in Ids : rows[i].status = "published" => rows[i].status' = "published"
<1>1. ASSUME ClaimInv, [Next]_vars PROVE [Final]_vars
  <2>0. rows \in [Ids -> OutboxEvent]
    BY <1>1 DEF ClaimInv, TypeOK
  <2>1. ASSUME NEW i \in Ids, Enqueue(i) \/ BackoffElapses(i) \/ ClaimAges(i) PROVE Final
    BY <2>0, <2>1 DEF Enqueue, BackoffElapses, ClaimAges, OutboxEvent
  <2>2. ASSUME NEW w \in Workers, release_stale_publishing(w) PROVE Final
    BY <2>2 DEF release_stale_publishing, released
  <2>3. ASSUME NEW w \in Workers, claim_pending(w) PROVE Final
    BY <2>3 DEF claim_pending, IsBatch, claimable
  <2>4. ASSUME NEW w \in Workers, record_results(w) PROVE Final
    <3>1. \A i \in failed[w] : rows[i].status = "publishing"
      BY <1>1 DEF ClaimInv, HeldIsClaimed, Held
    <3>2. \A i \in Ids : published(rows[i]).status = "published"
      BY <2>0 DEF published, OutboxEvent
    <3> QED
      BY <2>4, <3>1, <3>2 DEF record_results
  <2>5. ASSUME retry_dead_letters PROVE Final
    BY <2>5 DEF retry_dead_letters, requeued
  <2>6. ASSUME rows' = rows PROVE Final
    BY <2>6
  <2> QED
    BY <1>1, <2>1, <2>2, <2>3, <2>4, <2>5, <2>6, StepCases DEF
       SkipDisconnected, PublishAcked, PublishFailed, RecordingFails, DeliverLate,
       Disconnect, Connect, Crash
<1> QED
  BY <1>1, ClaimInit, ClaimStep, PTL DEF Spec, PublishedIsFinal

-----------------------------------------------------------------------------
(* The outbox implements the at-least-once queue.                          *)

\* What the MQTT library still holds was enqueued.
InflightEnqueued ==
  \A w \in Workers : \A i \in inflight[w] : rows[i].status # "absent"

QueueInv == PublishedInv /\ HeldIsClaimed /\ InflightEnqueued

\* A row that was enqueued is never taken out of the table.
LEMMA NeverAbsentAgain ==
  ASSUME TypeOK, [Next]_vars, NEW i \in Ids, rows[i].status # "absent"
  PROVE  rows'[i].status # "absent"
<1>0. rows \in [Ids -> OutboxEvent]
  BY DEF TypeOK
<1>1. ASSUME NEW j \in Ids, Enqueue(j) \/ BackoffElapses(j) \/ ClaimAges(j)
      PROVE  rows'[i].status # "absent"
  BY <1>0, <1>1 DEF Enqueue, BackoffElapses, ClaimAges, OutboxEvent
<1>2. /\ released(rows[i]).status # "absent"
      /\ claimed(rows[i]).status # "absent"
      /\ published(rows[i]).status # "absent"
      /\ unpublished(rows[i]).status # "absent"
      /\ requeued(rows[i]).status # "absent"
  BY <1>0 DEF released, claimed, published, unpublished, requeued, OutboxEvent
<1>3. ASSUME NEW w \in Workers, claim_pending(w) PROVE rows'[i].status # "absent"
  BY <1>2, <1>3 DEF claim_pending
<1> QED
  BY <1>1, <1>2, <1>3, StepCases DEF release_stale_publishing, record_results,
     retry_dead_letters, SkipDisconnected, PublishAcked, PublishFailed,
     RecordingFails, DeliverLate, Disconnect, Connect, Crash, vars

\* With one worker, a message the client library still has in flight has its row
\* in the table, so a late delivery is one the abstract queue can make.
LEMMA InflightStep ==
  ASSUME ClaimInv, InflightEnqueued, [Next]_vars
  PROVE  InflightEnqueued'
<1>t. TypeOK
  BY DEF ClaimInv
<1>0. ASSUME \A w \in Workers : inflight'[w] \subseteq inflight[w] PROVE InflightEnqueued'
  BY <1>0, <1>t, NeverAbsentAgain DEF InflightEnqueued, TypeOK
<1>1. ASSUME NEW w \in Workers, NEW i \in Ids, PublishFailed(w, i) PROVE InflightEnqueued'
  <2>1. rows[i].status # "absent"
    BY <1>1 DEF PublishFailed, IsNext, ClaimInv, HeldIsClaimed, Held
  <2>2. \A v \in Workers : inflight'[v] \subseteq inflight[v] \cup {i}
    BY <1>1, <1>t DEF PublishFailed, TypeOK, brokerVars
  <2> QED
    BY <2>1, <2>2, <1>t, NeverAbsentAgain DEF InflightEnqueued, TypeOK
<1>2. ASSUME NEW w \in Workers, NEW i \in Ids, DeliverLate(w, i) PROVE InflightEnqueued'
  BY <1>2, <1>0, <1>t DEF DeliverLate, TypeOK
<1>3. ASSUME NEW w \in Workers, Crash(w) PROVE InflightEnqueued'
  BY <1>3, <1>0, <1>t DEF Crash, TypeOK
<1> QED
  BY <1>0, <1>1, <1>2, <1>3, StepCases DEF Enqueue, BackoffElapses, ClaimAges,
     release_stale_publishing, SkipDisconnected, claim_pending, PublishAcked,
     record_results, RecordingFails, EndOfBatch, Disconnect, Connect,
     retry_dead_letters, vars, brokerVars

\* A step that leaves the abstract state of every row alone and delivers at
\* most one enqueued row is a step of the queue.
LEMMA QueueDelivers ==
  ASSUME TypeOK,
         \A i \in Ids : AbstractState'[i] = AbstractState[i],
         \/ delivered' = delivered
         \/ \E i \in Ids : rows[i].status # "absent" /\ delivered' = delivered \cup {i}
  PROVE  [Queue!Next]_(Queue!alVars)
<1>1. AbstractState' = AbstractState
  BY DEF AbstractState
<1>2. ASSUME delivered' = delivered PROVE [Queue!Next]_(Queue!alVars)
  BY <1>1, <1>2 DEF Queue!alVars
<1>3. ASSUME NEW i \in Ids, rows[i].status # "absent", delivered' = delivered \cup {i}
      PROVE  Queue!Deliver
  <2>1. AbstractState[i] # "absent"
    BY <1>3 DEF AbstractState, TypeOK, OutboxEvent
  <2> QED
    BY <1>1, <1>3, <2>1 DEF Queue!Deliver
<1> QED
  BY <1>2, <1>3 DEF Queue!Next

\* Every step of the outbox is a step of the at-least-once queue or a stutter.
LEMMA QueueStep ==
  ASSUME QueueInv, [Next]_vars
  PROVE  [Queue!Next]_(Queue!alVars)
<1>t. TypeOK /\ rows \in [Ids -> OutboxEvent]
  BY DEF QueueInv, PublishedInv, TypeOK
<1>1. ASSUME rows' = rows,
             \/ delivered' = delivered
             \/ \E i \in Ids : rows[i].status # "absent" /\ delivered' = delivered \cup {i}
      PROVE  [Queue!Next]_(Queue!alVars)
  <2>1. AbstractState' = AbstractState
    BY <1>1 DEF AbstractState
  <2> QED
    BY <1>t, <1>1, <2>1, QueueDelivers
<1>2. ASSUME NEW i \in Ids, Enqueue(i) PROVE Queue!Next
  <2>1. AbstractState[i] = "absent"
    BY <1>2 DEF Enqueue, AbstractState
  <2>2. AbstractState' = [j \in Ids |-> IF j \in {i} THEN "open" ELSE AbstractState[j]]
    BY <1>2, <1>t DEF Enqueue, AbstractState, OutboxEvent
  <2>3. delivered' = delivered
    BY <1>2 DEF Enqueue, brokerVars
  <2>4. Queue!Move({i}, "absent", "open")
    BY <2>1, <2>2 DEF Queue!Move
  <2> QED
    BY <2>3, <2>4 DEF Queue!Next, Queue!Enqueue
<1>3. ASSUME NEW i \in Ids, BackoffElapses(i) \/ ClaimAges(i)
      PROVE  [Queue!Next]_(Queue!alVars)
  <2>1. \A j \in Ids : rows'[j].status = rows[j].status
    BY <1>3, <1>t DEF BackoffElapses, ClaimAges, OutboxEvent
  <2>2. \A j \in Ids : AbstractState'[j] = AbstractState[j]
    BY <2>1 DEF AbstractState
  <2> QED
    BY <1>t, <1>3, <2>2, QueueDelivers DEF BackoffElapses, ClaimAges, brokerVars
<1>4. ASSUME NEW w \in Workers, release_stale_publishing(w)
      PROVE  [Queue!Next]_(Queue!alVars)
  <2>1. \A j \in Ids : \/ rows'[j].status = rows[j].status
                       \/ rows[j].status = "publishing" /\ rows'[j].status = "retrying"
    BY <1>4, <1>t DEF release_stale_publishing, released, OutboxEvent
  <2>2. \A j \in Ids : AbstractState'[j] = AbstractState[j]
    BY <2>1 DEF AbstractState
  <2> QED
    BY <1>t, <1>4, <2>2, QueueDelivers DEF release_stale_publishing, brokerVars
<1>5. ASSUME NEW w \in Workers, claim_pending(w)
      PROVE  [Queue!Next]_(Queue!alVars)
  <2>1. \A j \in Ids : \/ rows'[j].status = rows[j].status
                       \/ /\ rows[j].status \in {"pending", "retrying"}
                          /\ rows'[j].status = "publishing"
    BY <1>5, <1>t, RowStatus DEF claim_pending, IsBatch, claimable
  <2>2. \A j \in Ids : AbstractState'[j] = AbstractState[j]
    BY <2>1 DEF AbstractState
  <2> QED
    BY <1>t, <1>5, <2>2, QueueDelivers DEF claim_pending, brokerVars
<1>6. ASSUME NEW w \in Workers, NEW i \in Ids, PublishAcked(w, i) \/ PublishFailed(w, i)
      PROVE  [Queue!Next]_(Queue!alVars)
  <2>1. rows[i].status # "absent"
    BY <1>6 DEF PublishAcked, PublishFailed, IsNext, QueueInv, HeldIsClaimed, Held
  <2>2. rows' = rows /\ (delivered' = delivered \/ delivered' = delivered \cup {i})
    BY <1>6 DEF PublishAcked, PublishFailed, Receive, brokerVars
  <2> QED
    BY <2>1, <2>2, <1>1
<1>7. ASSUME NEW w \in Workers, record_results(w) PROVE Queue!Next
  <2> DEFINE D == acked[w]
             P == {i \in failed[w] \ acked[w] : unpublished(rows[i]).status = "dead_letter"}
  <2>1. D \subseteq Ids /\ P \subseteq Ids /\ D \cap P = {} /\ D \subseteq delivered
    BY <1>t DEF TypeOK, QueueInv, PublishedInv, AckedDelivered
  <2>2. \A i \in D \cup P : AbstractState[i] = "open"
    BY <2>1 DEF QueueInv, HeldIsClaimed, Held, AbstractState
  <2>3. \A i \in Ids : AbstractState'[i] = IF i \in D THEN "done"
                                           ELSE IF i \in P THEN "parked" ELSE AbstractState[i]
    <3>1. ASSUME NEW i \in D PROVE AbstractState'[i] = "done"
      <4>1. rows'[i].status = "published"
        BY <1>7, <1>t, <2>1 DEF record_results, published, OutboxEvent
      <4> QED
        BY <4>1, <2>1 DEF AbstractState
    <3>2. ASSUME NEW i \in P PROVE AbstractState'[i] = "parked"
      <4>1. rows'[i].status = "dead_letter"
        BY <1>7, <2>1 DEF record_results
      <4> QED
        BY <4>1, <2>1 DEF AbstractState
    <3>3. ASSUME NEW i \in failed[w] \ (D \cup P) PROVE AbstractState'[i] = AbstractState[i]
      <4>1. i \in Ids /\ rows[i].status = "publishing"
        BY <1>t DEF TypeOK, QueueInv, HeldIsClaimed, Held
      <4>2. rows'[i].status = "retrying"
        BY <1>7, <1>t, <4>1, RowStatus DEF record_results
      <4> QED
        BY <4>1, <4>2 DEF AbstractState
    <3>4. ASSUME NEW i \in Ids \ (D \cup failed[w]) PROVE AbstractState'[i] = AbstractState[i]
      <4>1. rows'[i] = rows[i]
        BY <1>7 DEF record_results
      <4> QED
        BY <4>1 DEF AbstractState
    <3> QED
      BY <3>1, <3>2, <3>3, <3>4
  <2>4. AbstractState' = [i \in Ids |-> IF i \in D THEN "done"
                                        ELSE IF i \in P THEN "parked" ELSE AbstractState[i]]
    BY <2>3 DEF AbstractState
  <2>5. delivered' = delivered
    BY <1>7 DEF record_results, EndOfBatch, brokerVars
  <2>6. D \in SUBSET {i \in Ids : AbstractState[i] = "open"}
        /\ P \in SUBSET {i \in Ids : AbstractState[i] = "open"}
    BY <2>1, <2>2
  <2>7. Queue!Resolve
    BY <2>1, <2>4, <2>5, <2>6 DEF Queue!Resolve
  <2> QED
    BY <2>7 DEF Queue!Next
<1>8. ASSUME NEW w \in Workers, NEW i \in Ids, DeliverLate(w, i)
      PROVE  [Queue!Next]_(Queue!alVars)
  BY <1>8, <1>1 DEF DeliverLate, Receive, QueueInv, InflightEnqueued
<1>9. ASSUME retry_dead_letters PROVE Queue!Next
  <2> DEFINE S == {i \in Ids : rows[i].status = "dead_letter"}
  <2>1. \A i \in S : AbstractState[i] = "parked"
    BY DEF AbstractState
  <2>2. \A i \in Ids : AbstractState'[i] = IF i \in S THEN "open" ELSE AbstractState[i]
    <3>1. \A i \in Ids : IF i \in S THEN rows'[i].status = "retrying" ELSE rows'[i] = rows[i]
      BY <1>9, <1>t DEF retry_dead_letters, requeued, OutboxEvent
    <3> QED
      BY <3>1 DEF AbstractState
  <2>3. AbstractState' = [i \in Ids |-> IF i \in S THEN "open" ELSE AbstractState[i]]
    BY <2>2 DEF AbstractState
  <2>4. Queue!Move(S, "parked", "open") /\ delivered' = delivered
    BY <1>9, <2>1, <2>3 DEF Queue!Move, retry_dead_letters, brokerVars
  <2> QED
    BY <2>4 DEF Queue!Next, Queue!Unpark
<1> QED
  BY <1>1, <1>2, <1>3, <1>4, <1>5, <1>6, <1>7, <1>8, <1>9, StepCases DEF
     SkipDisconnected, RecordingFails, EndOfBatch, Disconnect, Connect, Crash,
     vars, brokerVars

\* With one worker process the outbox implements the at-least-once queue:
\* what is enqueued is never lost, and done only after a delivery.
THEOREM OutboxImplementsQueue ==
  ASSUME OneWorker
  PROVE  Spec => ImplementsQueue
<1>1. Init => QueueInv
  BY PublishedInit, ClaimInit DEF Init, QueueInv, ClaimInv, InflightEnqueued
<1>2. QueueInv /\ [Next]_vars => QueueInv'
  BY PublishedStep, ClaimStep, InflightStep DEF QueueInv, ClaimInv, PublishedInv
<1>3. Init => Queue!Init
  BY DEF Init, Queue!Init, AbstractState
<1>4. QueueInv /\ [Next]_vars => [Queue!Next]_(Queue!alVars)
  BY QueueStep
<1> QED
  BY <1>1, <1>2, <1>3, <1>4, PTL DEF Spec, ImplementsQueue, Queue!Spec

-----------------------------------------------------------------------------
(* Order without failures.                                                 *)

HandsDisjoint ==
  \A w \in Workers : /\ todo[w] \cap acked[w] = {}
                     /\ todo[w] \cap failed[w] = {}
                     /\ acked[w] \cap failed[w] = {}

\* On topic p what was delivered is older than what is still to be published,
\* and what is in hand is older than what is still to be claimed.
Orderly(p) == \A i \in Ids : topic[i] = p =>
  /\ rows[i].status \in {"absent", "pending", "publishing", "published"}
  /\ rows[i].status \in {"absent", "pending"} => rows[i].due
  /\ rows[i].status = "publishing" => \E w \in Workers : i \in Held(w)
  /\ \A w \in Workers : i \notin inflight[w]
  /\ \A j \in delivered : topic[j] = p =>
       /\ j <= retained[p]
       /\ rows[j].status # "absent"
       /\ rows[i].status = "pending" => j < i
       /\ \A w \in Workers : i \in todo[w] => j < i
  /\ \A w \in Workers : \A j \in todo[w] :
       topic[j] = p /\ rows[i].status = "pending" => j < i

HandsInv == ClaimInv /\ HandsDisjoint

OrderInv ==
  HandsInv /\ \A p \in Topics : NoFailure(p) /\ p \notin overtaken => Orderly(p)

\* The table is empty at the start.
LEMMA OrderInit == Init => OrderInv
<1> SUFFICES ASSUME Init PROVE OrderInv
  OBVIOUS
<1>1. HandsInv
  BY ClaimInit DEF Init, HandsInv, HandsDisjoint
<1>2. ASSUME NEW p \in Topics PROVE Orderly(p)
  BY DEF Init, Orderly, Held
<1> QED
  BY <1>1, <1>2 DEF OrderInv

\* A claimed row is tried once.
LEMMA HandsStep ==
  ASSUME OneWorker, HandsInv, [Next]_vars
  PROVE  HandsInv'
<1>t. TypeOK /\ HeldIsClaimed /\ rows \in [Ids -> OutboxEvent] /\ Ids \subseteq Nat
  BY OutboxAssumption DEF HandsInv, ClaimInv, TypeOK
<1>c. ClaimInv'
  BY ClaimStep DEF HandsInv
<1>d. HandsDisjoint'
  <2>1. ASSUME NEW w \in Workers, NEW i \in Ids, PublishAcked(w, i) PROVE HandsDisjoint'
    BY <2>1, <1>t DEF PublishAcked, IsNext, HandsInv, HandsDisjoint, TypeOK
  <2>2. ASSUME NEW w \in Workers, NEW i \in Ids, PublishFailed(w, i) PROVE HandsDisjoint'
    BY <2>2, <1>t DEF PublishFailed, IsNext, HandsInv, HandsDisjoint, TypeOK
  <2>3. ASSUME NEW w \in Workers, claim_pending(w) PROVE HandsDisjoint'
    BY <2>3, <1>t DEF claim_pending, Held, HandsInv, HandsDisjoint, TypeOK
  <2>4. ASSUME NEW w \in Workers, EndOfBatch(w) \/ Crash(w) PROVE HandsDisjoint'
    BY <2>4, <1>t DEF EndOfBatch, Crash, HandsInv, HandsDisjoint, TypeOK
  <2>5. ASSUME UNCHANGED <<todo, acked, failed>> PROVE HandsDisjoint'
    BY <2>5 DEF HandsInv, HandsDisjoint
  <2> QED
    BY <2>1, <2>2, <2>3, <2>4, <2>5, StepCases DEF Enqueue, BackoffElapses, ClaimAges,
       release_stale_publishing, SkipDisconnected, record_results, RecordingFails,
       DeliverLate, Disconnect, Connect, retry_dead_letters, vars, workerVars
<1> QED
  BY <1>c, <1>d DEF HandsInv

\* An overtaken topic remains so, and a row that is not late comes after all
\* rows of its topic that have been claimed.
LEMMA OvertakenStep ==
  ASSUME [Next]_vars
  PROVE  /\ overtaken \subseteq overtaken'
         /\ \A i \in Ids : Enqueue(i) /\ topic[i] \notin overtaken' => ~Overtakes(i)
<1>1. overtaken \subseteq overtaken'
  BY StepCases DEF Enqueue, BackoffElapses, ClaimAges, release_stale_publishing,
     SkipDisconnected, claim_pending, PublishAcked, PublishFailed, record_results,
     RecordingFails, DeliverLate, Disconnect, Connect, Crash, retry_dead_letters,
     vars, Fault
<1> QED
  BY <1>1 DEF Enqueue

\* A failure on a topic is remembered in the row's attempts, or in faults.
LEMMA NoFailureBefore ==
  ASSUME HandsInv, [Next]_vars, NEW p \in Topics, NoFailure(p)'
  PROVE  NoFailure(p) /\ faults' = 0
<1>t. TypeOK /\ rows \in [Ids -> OutboxEvent]
  BY DEF HandsInv, ClaimInv, TypeOK
<1>1. faults = 0 /\ faults' = 0
  <2>1. faults \in Nat /\ faults' = 0 /\ (faults' = faults \/ faults' = faults + 1)
    BY <1>t, StepCases DEF NoFailure, TypeOK, Enqueue, BackoffElapses, ClaimAges,
       release_stale_publishing, SkipDisconnected, claim_pending, PublishAcked,
       PublishFailed, record_results, RecordingFails, DeliverLate, Disconnect, Connect,
       Crash, retry_dead_letters, vars, Fault
  <2> QED
    BY <2>1
<1>2. ASSUME NEW i \in Ids
      PROVE  /\ released(rows[i]).attempts = rows[i].attempts
             /\ requeued(rows[i]).attempts = rows[i].attempts
             /\ claimed(rows[i]).attempts = rows[i].attempts
             /\ published(rows[i]).attempts = rows[i].attempts
             /\ unpublished(rows[i]).attempts = rows[i].attempts + 1
             /\ rows[i].attempts \in Nat
  BY <1>t DEF released, requeued, claimed, published, unpublished, OutboxEvent
<1>3. ASSUME NEW i \in Ids, topic[i] = p
      PROVE  rows[i].attempts = 0 /\ \A w \in Workers : i \notin failed[w]
  <2>1. rows'[i].attempts = 0 /\ \A w \in Workers : i \notin failed'[w]
    BY <1>3 DEF NoFailure
  <2>2. ASSUME NEW j \in Ids, Enqueue(j) \/ BackoffElapses(j) \/ ClaimAges(j)
        PROVE  rows'[i].attempts = rows[i].attempts /\ failed' = failed
    BY <2>2, <1>t DEF Enqueue, BackoffElapses, ClaimAges, OutboxEvent, workerVars
  <2>3. ASSUME NEW w \in Workers, release_stale_publishing(w)
        PROVE  rows'[i].attempts = rows[i].attempts /\ failed' = failed
    BY <2>3, <1>2 DEF release_stale_publishing
  <2>4. ASSUME NEW w \in Workers, claim_pending(w)
        PROVE  rows'[i].attempts = rows[i].attempts /\ failed' = failed
    BY <2>4, <1>2 DEF claim_pending
  <2>5. ASSUME retry_dead_letters
        PROVE  rows'[i].attempts = rows[i].attempts /\ failed' = failed
    BY <2>5, <1>2 DEF retry_dead_letters, workerVars
  <2>6. ASSUME NEW w \in Workers, NEW j \in Ids, PublishFailed(w, j)
        PROVE  rows' = rows /\ \A v \in Workers : failed[v] \subseteq failed'[v]
    BY <2>6, <1>t DEF PublishFailed, TypeOK
  <2>7. ASSUME NEW w \in Workers, record_results(w)
        PROVE  rows[i].attempts = 0 /\ \A v \in Workers : i \notin failed[v]
    <3>1. acked[w] \cap failed[w] = {}
      BY DEF HandsInv, HandsDisjoint
    <3>2. i \notin failed[w]
      BY <2>1, <2>7, <1>2, <3>1 DEF record_results
    <3>3. \A v \in Workers : v = w \/ failed'[v] = failed[v]
      BY <2>7, <1>t DEF record_results, EndOfBatch, TypeOK
    <3>4. rows'[i].attempts = rows[i].attempts
      BY <2>7, <1>2, <3>2 DEF record_results
    <3> QED
      BY <2>1, <3>2, <3>3, <3>4
  <2>8. ASSUME rows' = rows, failed' = failed
        PROVE  rows[i].attempts = 0 /\ \A w \in Workers : i \notin failed[w]
    BY <2>1, <2>8
  <2>9. ASSUME NEW w \in Workers, RecordingFails(w) \/ Crash(w) PROVE FALSE
    BY <2>9, <1>1 DEF RecordingFails, Crash, Fault
  <2> QED
    BY <2>1, <2>2, <2>3, <2>4, <2>5, <2>6, <2>7, <2>8, <2>9, StepCases DEF
       SkipDisconnected, PublishAcked, DeliverLate, Disconnect, Connect, vars, workerVars
<1> QED
  BY <1>1, <1>3 DEF NoFailure

\* A step that disturbs nothing the order speaks of.
LEMMA OrderlyKept ==
  ASSUME TypeOK, NEW p \in Topics, Orderly(p), UNCHANGED <<todo, acked, failed, brokerVars>>,
         \A i \in Ids : topic[i] = p =>
           rows'[i].status = rows[i].status /\ (rows[i].due => rows'[i].due)
  PROVE  Orderly(p)'
<1>1. /\ todo' = todo /\ delivered' = delivered /\ retained' = retained
      /\ inflight' = inflight /\ delivered \subseteq Ids
      /\ \A w \in Workers : Held(w)' = Held(w)
  BY DEF brokerVars, Held, TypeOK
<1>2. \A w \in Workers : todo[w] \subseteq Ids
  BY DEF TypeOK
<1> SUFFICES ASSUME NEW i \in Ids, topic[i] = p
             PROVE  /\ rows'[i].status \in {"absent", "pending", "publishing", "published"}
                    /\ rows'[i].status \in {"absent", "pending"} => rows'[i].due
                    /\ rows'[i].status = "publishing" => \E w \in Workers : i \in Held(w)
                    /\ \A w \in Workers : i \notin inflight[w]
                    /\ \A j \in delivered : topic[j] = p =>
                         /\ j <= retained[p]
                         /\ rows'[j].status # "absent"
                         /\ rows'[i].status = "pending" => j < i
                         /\ \A w \in Workers : i \in todo[w] => j < i
                    /\ \A w \in Workers : \A j \in todo[w] :
                         topic[j] = p /\ rows'[i].status = "pending" => j < i
  BY <1>1 DEF Orderly
<1> QED
  BY <1>1, <1>2 DEF Orderly


\* A new row that is not late comes after what was delivered and what is in hand.
LEMMA OrderlyEnqueue ==
  ASSUME HandsInv, NEW p \in Topics, Orderly(p), NEW i \in Ids, Enqueue(i),
         topic[i] = p => ~Overtakes(i)
  PROVE  Orderly(p)'
<1>t. TypeOK /\ HeldIsClaimed /\ rows \in [Ids -> OutboxEvent] /\ Ids \subseteq Nat
  BY OutboxAssumption DEF HandsInv, ClaimInv, TypeOK
<1>1. /\ todo' = todo /\ delivered' = delivered /\ retained' = retained
      /\ inflight' = inflight /\ \A w \in Workers : Held(w)' = Held(w)
  BY DEF Enqueue, workerVars, brokerVars, Held
<1>2. /\ rows'[i].status = "pending" /\ rows'[i].due = rows[i].due
      /\ \A k \in Ids : k # i => rows'[k] = rows[k]
  BY <1>t DEF Enqueue, OutboxEvent
<1>3. \A k \in Ids : topic[i] = p /\ topic[k] = p
                      /\ rows[k].status \notin {"absent", "pending"} => k < i
  BY <1>t DEF Enqueue, Overtakes
<1>4. rows[i].status = "absent" /\ delivered \subseteq Ids
      /\ \A w \in Workers : todo[w] \subseteq Ids
  BY <1>t DEF Enqueue, TypeOK
<1>5. /\ \A w \in Workers : \A j \in todo[w] : rows[j].status = "publishing"
      /\ \A j \in delivered : topic[j] = p => rows[j].status \notin {"absent", "pending"}
  <2>1. \A w \in Workers : \A j \in todo[w] : rows[j].status = "publishing"
    BY <1>t, <1>4 DEF HeldIsClaimed, Held
  <2>2. \A j \in delivered : topic[j] = p => rows[j].status \notin {"absent", "pending"}
    BY <1>t, <1>4 DEF Orderly
  <2> QED
    BY <2>1, <2>2
<1>6. \A w \in Workers : i \notin todo[w]
  BY <1>4, <1>5
<1> SUFFICES ASSUME NEW k \in Ids, topic[k] = p
             PROVE  /\ rows'[k].status \in {"absent", "pending", "publishing", "published"}
                    /\ rows'[k].status \in {"absent", "pending"} => rows'[k].due
                    /\ rows'[k].status = "publishing" => \E w \in Workers : k \in Held(w)
                    /\ \A w \in Workers : k \notin inflight[w]
                    /\ \A j \in delivered : topic[j] = p =>
                         /\ j <= retained[p]
                         /\ rows'[j].status # "absent"
                         /\ rows'[k].status = "pending" => j < k
                         /\ \A w \in Workers : k \in todo[w] => j < k
                    /\ \A w \in Workers : \A j \in todo[w] :
                         topic[j] = p /\ rows'[k].status = "pending" => j < k
  BY <1>1 DEF Orderly
<1>7. topic[i] = p => rows[i].due
  BY <1>4 DEF Orderly
<1>8. CASE k = i
  BY <1>2, <1>3, <1>4, <1>5, <1>7, <1>8 DEF Orderly
<1>9. CASE k # i
  BY <1>2, <1>3, <1>4, <1>5, <1>6, <1>9 DEF Orderly
<1> QED
  BY <1>8, <1>9

\* Without a failure an idle worker leaves no claimed row behind.
LEMMA NoneClaimed ==
  ASSUME OneWorker, HandsInv, NEW p \in Topics, Orderly(p),
         NEW w \in Workers, step[w] # "publishing"
  PROVE  /\ Held(w) = {}
         /\ \A i \in Ids : topic[i] = p => rows[i].status # "publishing"
<1>1. Held(w) = {}
  BY DEF HandsInv, ClaimInv, TypeOK
<1>2. \A v \in Workers : Held(v) = {}
  BY <1>1 DEF OneWorker
<1> QED
  BY <1>1, <1>2 DEF Orderly

\* The claim takes the oldest rows.
LEMMA OrderlyClaim ==
  ASSUME OneWorker, HandsInv, NEW p \in Topics, Orderly(p),
         NEW w \in Workers, claim_pending(w)
  PROVE  Orderly(p)'
<1>t. TypeOK /\ rows \in [Ids -> OutboxEvent] /\ Ids \subseteq Nat
  BY OutboxAssumption DEF HandsInv, ClaimInv, TypeOK
<1>1. PICK S \in SUBSET Ids :
        /\ IsBatch(S)
        /\ rows' = [i \in Ids |-> IF i \in S THEN claimed(rows[i]) ELSE rows[i]]
        /\ todo' = [todo EXCEPT ![w] = S]
  BY DEF claim_pending
<1>2. /\ Held(w) = {} /\ \A i \in Ids : topic[i] = p => rows[i].status # "publishing"
  BY NoneClaimed DEF claim_pending
<1>3. /\ delivered' = delivered /\ retained' = retained /\ inflight' = inflight
      /\ delivered \subseteq Ids
  BY <1>t DEF claim_pending, brokerVars, TypeOK
<1>4. \A v \in Workers : todo'[v] = S
  BY <1>1, <1>t DEF OneWorker, TypeOK
<1>5. Held(w)' = S
  BY <1>1, <1>2, <1>4, <1>t DEF claim_pending, Held
<1>6. \A i \in S : rows'[i].status = "publishing" /\ i \in claimable
  BY <1>1, <1>t, RowStatus DEF IsBatch
<1>7. \A i \in Ids \ S : rows'[i] = rows[i]
  BY <1>1
<1>8. ASSUME NEW i \in S, topic[i] = p PROVE rows[i].status = "pending"
  BY <1>8, <1>6 DEF claimable, Orderly
<1>9. ASSUME NEW i \in Ids, topic[i] = p, rows'[i].status = "pending"
      PROVE  /\ i \in claimable \ S /\ rows[i].status = "pending" /\ rows[i].due
             /\ \A j \in S : j < i
  <2>1. i \notin S /\ rows[i].status = "pending"
    BY <1>9, <1>6, <1>7
  <2>2. rows[i].due
    BY <1>9, <2>1 DEF Orderly
  <2> QED
    BY <1>1, <2>1, <2>2 DEF IsBatch, claimable
<1>10. \A j \in delivered : topic[j] = p => rows'[j].status # "absent"
  BY <1>3, <1>6, <1>7 DEF Orderly
<1> SUFFICES ASSUME NEW i \in Ids, topic[i] = p
             PROVE  /\ rows'[i].status \in {"absent", "pending", "publishing", "published"}
                    /\ rows'[i].status \in {"absent", "pending"} => rows'[i].due
                    /\ rows'[i].status = "publishing" => i \in S
                    /\ \A v \in Workers : i \notin inflight[v]
                    /\ \A j \in delivered : topic[j] = p =>
                         /\ j <= retained[p]
                         /\ rows'[i].status = "pending" => j < i
                         /\ i \in S => j < i
                    /\ \A j \in S : topic[j] = p /\ rows'[i].status = "pending" => j < i
  BY <1>3, <1>4, <1>5, <1>10 DEF Orderly
<1>11. /\ rows'[i].status \in {"absent", "pending", "publishing", "published"}
       /\ rows'[i].status = "publishing" => i \in S
  BY <1>2, <1>6, <1>7 DEF Orderly
<1>12. rows'[i].status \in {"absent", "pending"} => rows'[i].due
  BY <1>6, <1>7 DEF Orderly
<1>13. \A v \in Workers : i \notin inflight[v]
  BY DEF Orderly
<1>14. \A j \in delivered : topic[j] = p =>
         /\ j <= retained[p]
         /\ rows'[i].status = "pending" => j < i
         /\ i \in S => j < i
  BY <1>8, <1>9 DEF Orderly
<1>15. \A j \in S : topic[j] = p /\ rows'[i].status = "pending" => j < i
  BY <1>9
<1> QED
  BY <1>11, <1>12, <1>13, <1>14, <1>15

\* The acknowledged row is the oldest in hand.
LEMMA OrderlyAcked ==
  ASSUME OneWorker, HandsInv, NEW p \in Topics, Orderly(p), NEW w \in Workers,
         NEW k \in Ids, PublishAcked(w, k)
  PROVE  Orderly(p)'
<1>t. TypeOK /\ HeldIsClaimed /\ Ids \subseteq Nat /\ topic \in [Ids -> Topics]
      /\ delivered \subseteq Ids /\ retained \in [Topics -> Ids \cup {0}]
  BY OutboxAssumption DEF HandsInv, ClaimInv, TypeOK
<1>1. /\ rows' = rows /\ inflight' = inflight /\ delivered' = delivered \cup {k}
      /\ retained' = [retained EXCEPT ![topic[k]] = k]
      /\ k \in todo[w] /\ \A j \in todo[w] : k <= j
  BY DEF PublishAcked, Receive, IsNext
<1>2. \A v \in Workers : todo'[v] = todo[w] \ {k} /\ todo[v] = todo[w] /\ todo[v] \subseteq Ids
  BY <1>t DEF PublishAcked, OneWorker, TypeOK
<1>3. \A v \in Workers : Held(v)' = Held(v)
  BY <1>t, <1>1, <1>2 DEF PublishAcked, Held, OneWorker, TypeOK
<1>4. rows[k].status = "publishing"
  BY <1>t, <1>1 DEF HeldIsClaimed, Held
<1> SUFFICES ASSUME NEW i \in Ids, topic[i] = p
             PROVE  /\ rows[i].status \in {"absent", "pending", "publishing", "published"}
                    /\ rows[i].status \in {"absent", "pending"} => rows[i].due
                    /\ rows[i].status = "publishing" => \E v \in Workers : i \in Held(v)
                    /\ \A v \in Workers : i \notin inflight[v]
                    /\ \A j \in delivered \cup {k} : topic[j] = p =>
                         /\ j <= retained'[p]
                         /\ rows[j].status # "absent"
                         /\ rows[i].status = "pending" => j < i
                         /\ i \in todo[w] \ {k} => j < i
                    /\ \A j \in todo[w] \ {k} :
                         topic[j] = p /\ rows[i].status = "pending" => j < i
  BY <1>1, <1>2, <1>3 DEF Orderly
<1>5. /\ rows[i].status \in {"absent", "pending", "publishing", "published"}
      /\ rows[i].status \in {"absent", "pending"} => rows[i].due
      /\ rows[i].status = "publishing" => \E v \in Workers : i \in Held(v)
      /\ \A v \in Workers : i \notin inflight[v]
      /\ \A j \in todo[w] \ {k} : topic[j] = p /\ rows[i].status = "pending" => j < i
  BY DEF Orderly
<1>6. ASSUME NEW j \in delivered, topic[j] = p
      PROVE  /\ j <= retained'[p]
             /\ rows[j].status # "absent"
             /\ rows[i].status = "pending" => j < i
             /\ i \in todo[w] \ {k} => j < i
  <2>1. CASE topic[k] = p
    <3>1. j < k
      BY <1>6, <1>1, <1>t, <2>1 DEF Orderly
    <3>2. retained'[p] = k /\ j \in Nat /\ k \in Nat
      BY <1>1, <1>t, <2>1
    <3>3. \A h \in todo[w] : k <= h /\ h \in Nat
      BY <1>1, <1>2, <1>t
    <3>4. j <= k /\ (i \in todo[w] => j < i)
      BY <3>1, <3>2, <3>3
    <3> QED
      BY <1>6, <3>2, <3>4 DEF Orderly
  <2>2. CASE topic[k] # p
    BY <1>6, <1>1, <1>t, <2>2 DEF Orderly
  <2> QED
    BY <2>1, <2>2
<1>7. topic[k] = p => /\ k <= retained'[p]
                      /\ rows[k].status # "absent"
                      /\ rows[i].status = "pending" => k < i
                      /\ i \in todo[w] \ {k} => k < i
  <2> SUFFICES ASSUME topic[k] = p
               PROVE  /\ k <= retained'[p]
                      /\ rows[k].status # "absent"
                      /\ rows[i].status = "pending" => k < i
                      /\ i \in todo[w] \ {k} => k < i
    OBVIOUS
  <2>1. retained'[p] = k /\ k \in Nat /\ i \in Nat
    BY <1>1, <1>t
  <2>2. rows[i].status = "pending" => k < i
    BY <1>1 DEF Orderly
  <2>3. i \in todo[w] \ {k} => k < i
    BY <1>1, <2>1
  <2> QED
    BY <1>4, <2>1, <2>2, <2>3
<1> QED
  BY <1>5, <1>6, <1>7


\* A message that arrives on another topic.
LEMMA OrderlyElsewhere ==
  ASSUME OneWorker, HandsInv, NEW p \in Topics, Orderly(p), NEW w \in Workers, NEW k \in Ids,
         PublishFailed(w, k) \/ DeliverLate(w, k), topic[k] # p
  PROVE  Orderly(p)'
<1>t. TypeOK /\ HeldIsClaimed /\ Ids \subseteq Nat /\ topic \in [Ids -> Topics]
      /\ delivered \subseteq Ids /\ retained \in [Topics -> Ids \cup {0}]
      /\ \A v \in Workers : todo[v] \subseteq Ids
  BY OutboxAssumption DEF HandsInv, ClaimInv, TypeOK
<1>1. rows' = rows /\ retained'[p] = retained[p] /\ delivered' \subseteq delivered \cup {k}
  BY <1>t DEF PublishFailed, DeliverLate, Receive, brokerVars
<1>2. \A v \in Workers : todo'[v] \subseteq todo[v]
  BY <1>t DEF PublishFailed, DeliverLate, workerVars, TypeOK
<1>3. \A v \in Workers : Held(v)' = Held(v)
  BY <1>t DEF PublishFailed, DeliverLate, IsNext, workerVars, Held, TypeOK
<1>4. \A v \in Workers : inflight'[v] \subseteq inflight[v] \cup {k}
  BY <1>t DEF PublishFailed, DeliverLate, brokerVars, TypeOK
<1> SUFFICES ASSUME NEW i \in Ids, topic[i] = p
             PROVE  /\ rows[i].status \in {"absent", "pending", "publishing", "published"}
                    /\ rows[i].status \in {"absent", "pending"} => rows[i].due
                    /\ rows[i].status = "publishing" => \E v \in Workers : i \in Held(v)
                    /\ \A v \in Workers : i \notin inflight[v]
                    /\ \A j \in delivered : topic[j] = p =>
                         /\ j <= retained[p]
                         /\ rows[j].status # "absent"
                         /\ rows[i].status = "pending" => j < i
                         /\ \A v \in Workers : i \in todo[v] => j < i
                    /\ \A v \in Workers : \A j \in todo[v] :
                         topic[j] = p /\ rows[i].status = "pending" => j < i
  BY <1>1, <1>2, <1>3, <1>4 DEF Orderly
<1> QED
  BY DEF Orderly

\* Without a failure every row of a batch was acknowledged.
LEMMA OrderlyRecord ==
  ASSUME OneWorker, HandsInv, NEW p \in Topics, Orderly(p), NoFailure(p),
         NEW w \in Workers, record_results(w)
  PROVE  Orderly(p)'
<1>t. TypeOK /\ HeldIsClaimed /\ rows \in [Ids -> OutboxEvent]
      /\ delivered \subseteq Ids /\ \A v \in Workers : todo[v] \subseteq Ids
  BY DEF HandsInv, ClaimInv, TypeOK
<1>1. todo' = todo /\ delivered' = delivered /\ retained' = retained /\ inflight' = inflight
  BY DEF record_results, EndOfBatch, brokerVars
<1>2. \A v \in Workers : todo[v] = {}
  BY DEF record_results, EndOfBatch, OneWorker
<1>3. ASSUME NEW i \in Ids, topic[i] = p
      PROVE  IF rows[i].status = "publishing" THEN rows'[i].status = "published"
             ELSE rows'[i] = rows[i]
  <2>1. i \notin failed[w]
    BY <1>3 DEF NoFailure
  <2>2. rows[i].status = "publishing" <=> i \in acked[w]
    BY <1>3, <1>t, <1>2, <2>1 DEF Orderly, OneWorker, Held, HeldIsClaimed
  <2>3. published(rows[i]).status = "published"
    BY <1>t DEF published, OutboxEvent
  <2> QED
    BY <2>1, <2>2, <2>3 DEF record_results
<1> SUFFICES ASSUME NEW i \in Ids, topic[i] = p
             PROVE  /\ rows'[i].status \in {"absent", "pending", "publishing", "published"}
                    /\ rows'[i].status \in {"absent", "pending"} => rows'[i].due
                    /\ rows'[i].status # "publishing"
                    /\ \A v \in Workers : i \notin inflight[v]
                    /\ \A j \in delivered : topic[j] = p =>
                         /\ j <= retained[p]
                         /\ rows'[j].status # "absent"
                         /\ rows'[i].status = "pending" => j < i
  BY <1>1, <1>2 DEF Orderly
<1>4. \A j \in delivered : topic[j] = p => rows'[j].status # "absent"
  BY <1>t, <1>3 DEF Orderly
<1> QED
  BY <1>3, <1>4 DEF Orderly

\* With one worker the order is kept by every step.
LEMMA OrderStep ==
  ASSUME OneWorker
  PROVE  OrderInv /\ [Next]_vars => OrderInv'
<1> SUFFICES ASSUME OrderInv, [Next]_vars, NEW p \in Topics, NoFailure(p)',
                    p \notin overtaken'
             PROVE  Orderly(p)'
  BY HandsStep DEF OrderInv
<1>t. TypeOK /\ rows \in [Ids -> OutboxEvent]
  BY DEF OrderInv, HandsInv, ClaimInv, TypeOK
<1>n. HandsInv /\ NoFailure(p) /\ Orderly(p) /\ faults' = 0
  BY NoFailureBefore, OvertakenStep DEF OrderInv
<1>1. ASSUME NEW i \in Ids, Enqueue(i) PROVE Orderly(p)'
  <2>1. topic[i] = p => ~Overtakes(i)
    BY <1>1, OvertakenStep
  <2> QED
    BY <1>1, <1>n, <2>1, OrderlyEnqueue
<1>2. ASSUME NEW i \in Ids, BackoffElapses(i) \/ ClaimAges(i) PROVE Orderly(p)'
  <2>1. \A j \in Ids : rows'[j].status = rows[j].status /\ (rows[j].due => rows'[j].due)
    BY <1>2, <1>t DEF BackoffElapses, ClaimAges, OutboxEvent
  <2> QED
    BY <1>2, <1>n, <1>t, <2>1, OrderlyKept DEF BackoffElapses, ClaimAges, workerVars
<1>3. ASSUME NEW w \in Workers, release_stale_publishing(w) PROVE Orderly(p)'
  <2>1. ASSUME NEW i \in Ids, topic[i] = p PROVE rows'[i] = rows[i]
    <3>1. rows[i].status # "publishing"
      BY <1>3, <1>n, <2>1, NoneClaimed DEF release_stale_publishing
    <3> QED
      BY <1>3, <3>1 DEF release_stale_publishing, released
  <2> QED
    BY <1>3, <1>n, <1>t, <2>1, OrderlyKept DEF release_stale_publishing
<1>4. ASSUME NEW w \in Workers, claim_pending(w) PROVE Orderly(p)'
  BY <1>4, <1>n, OrderlyClaim
<1>5. ASSUME NEW w \in Workers, NEW k \in Ids, PublishAcked(w, k) PROVE Orderly(p)'
  BY <1>5, <1>n, OrderlyAcked
<1>6. ASSUME NEW w \in Workers, NEW k \in Ids, PublishFailed(w, k) PROVE Orderly(p)'
  <2>1. topic[k] # p
    BY <1>6, <1>t DEF PublishFailed, NoFailure, TypeOK
  <2> QED
    BY <1>6, <1>n, <2>1, OrderlyElsewhere
<1>7. ASSUME NEW w \in Workers, NEW k \in Ids, DeliverLate(w, k) PROVE Orderly(p)'
  <2>1. topic[k] # p
    BY <1>7, <1>n DEF DeliverLate, Orderly
  <2> QED
    BY <1>7, <1>n, <2>1, OrderlyElsewhere
<1>8. ASSUME NEW w \in Workers, record_results(w) PROVE Orderly(p)'
  BY <1>8, <1>n, OrderlyRecord
<1>9. ASSUME retry_dead_letters PROVE Orderly(p)'
  <2>1. ASSUME NEW i \in Ids, topic[i] = p PROVE rows'[i] = rows[i]
    <3>1. rows[i].status # "dead_letter"
      BY <1>n, <2>1 DEF Orderly
    <3> QED
      BY <1>9, <3>1 DEF retry_dead_letters, requeued
  <2> QED
    BY <1>9, <1>n, <1>t, <2>1, OrderlyKept DEF retry_dead_letters, workerVars
<1>10. ASSUME NEW w \in Workers, RecordingFails(w) \/ Disconnect(w) \/ Crash(w) PROVE FALSE
  BY <1>10, <1>n, <1>t DEF RecordingFails, Disconnect, Crash, Fault, TypeOK
<1>11. ASSUME rows' = rows, UNCHANGED <<todo, acked, failed, brokerVars>> PROVE Orderly(p)'
  BY <1>11, <1>n, <1>t, OrderlyKept
<1> QED
  BY <1>1, <1>2, <1>3, <1>4, <1>5, <1>6, <1>7, <1>8, <1>9, <1>10, <1>11, StepCases
     DEF SkipDisconnected, Connect, vars, workerVars

\* With one worker process, and as long as nothing has failed on a topic and no
\* row of it was committed after a later one had been claimed, the broker retains
\* the last row delivered on it, whatever fails or comes late elsewhere.
THEOREM DeliveredInOrder ==
  ASSUME OneWorker
  PROVE  Spec => []InOrderWithoutFailure
<1>1. OrderInv => InOrderWithoutFailure
  BY DEF OrderInv, HandsInv, ClaimInv, TypeOK, Orderly, InOrderWithoutFailure
<1> QED
  BY <1>1, OrderInit, OrderStep, PTL DEF Spec

=============================================================================
