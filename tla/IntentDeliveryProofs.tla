------------------------ MODULE IntentDeliveryProofs ------------------------
(***************************************************************************)
(* Theorems about the delivery of a room's intents, for every set of rows  *)
(* and topics and any number of faults, failures and lost connections.     *)
(***************************************************************************)
EXTENDS IntentDelivery, OutboxProofs

\* Whatever step is taken, the next state is one of these actions'.
LEMMA DeliveryCases ==
  ASSUME DeliveryNext
  PROVE  \/ \E w \in Workers, i \in Ids :
              DeliveryAcked(w, i) \/ DeliveryFailed(w, i) \/ LateDelivery(w, i)
         \/ /\ \/ \E i \in Ids : EnqueueNewer(i) \/ BackoffElapses(i) \/ ClaimAges(i)
               \/ \E w \in Workers :
                    \/ release_stale_publishing(w) \/ SkipDisconnected(w)
                    \/ claim_pending(w) \/ record_results(w) \/ RecordingFails(w)
                    \/ Disconnect(w) \/ Connect(w) \/ Crash(w)
            /\ UNCHANGED adapterVars
         \/ ApplyIntent \/ Subscribe \/ LoseConnection \/ Restart
BY DEF DeliveryNext, DeliveryWorkerStep, Silent

\* A step of the outbox, or one that leaves it alone.
LEMMA OutboxStep ==
  ASSUME [DeliveryNext]_allVars
  PROVE  [Next]_vars
<1>1. ASSUME NEW w \in Workers, NEW i \in Ids,
             DeliveryAcked(w, i) \/ DeliveryFailed(w, i) \/ LateDelivery(w, i)
      PROVE  Next
  BY <1>1 DEF DeliveryAcked, DeliveryFailed, LateDelivery, Next, WorkerStep
<1>2. ASSUME NEW i \in Ids, EnqueueNewer(i) \/ BackoffElapses(i) \/ ClaimAges(i) PROVE Next
  BY <1>2 DEF Next, EnqueueNewer
<1>3. ASSUME NEW w \in Workers,
             \/ release_stale_publishing(w) \/ SkipDisconnected(w)
             \/ claim_pending(w) \/ record_results(w) \/ RecordingFails(w)
             \/ Disconnect(w) \/ Connect(w) \/ Crash(w)
      PROVE  Next
  BY <1>3 DEF Next, WorkerStep
<1>4. ASSUME ApplyIntent \/ Subscribe \/ LoseConnection \/ Restart PROVE UNCHANGED vars
  BY <1>4 DEF ApplyIntent, Subscribe, LoseConnection, Restart
<1>5. ASSUME UNCHANGED allVars PROVE UNCHANGED vars
  BY <1>5 DEF allVars
<1> QED
  BY <1>1, <1>2, <1>3, <1>4, <1>5, DeliveryCases

-----------------------------------------------------------------------------
(* What the adapter has been told.                                         *)

AdapterTypes ==
  /\ subscribed \in BOOLEAN
  /\ inbox \in Seq(Ids)
  /\ seen \in Ids \cup {0}
  /\ missed \in BOOLEAN

\* The adapter has taken over version i or a newer one, or is about to.
Told(i) == i <= seen \/ \E k \in 1 .. Len(inbox) : i <= inbox[k]

RetainedDelivered ==
  \A p \in Topics : retained[p] # 0 => retained[p] \in delivered /\ topic[retained[p]] = p

\* While subscribed, the adapter is told what the broker retains; and as long as
\* it has missed nothing, everything the broker has received.
ToldInv ==
  /\ AdapterTypes /\ RetainedDelivered
  /\ subscribed => Told(retained[Room])
  /\ ~missed => \A i \in delivered : topic[i] = Room => Told(i)

\* Nothing is retained, received or seen at the start.
LEMMA ToldInit == DeliveryInit => ToldInv
<1> SUFFICES ASSUME DeliveryInit PROVE ToldInv
  OBVIOUS
<1>1. /\ subscribed = FALSE /\ inbox = <<>> /\ seen = 0 /\ missed = FALSE
      /\ delivered = {} /\ \A p \in Topics : retained[p] = 0
  BY DEF DeliveryInit, Init
<1>2. AdapterTypes
  <2>1. inbox \in Seq(Ids)
    BY <1>1
  <2>2. subscribed \in BOOLEAN /\ seen \in Ids \cup {0} /\ missed \in BOOLEAN
    BY <1>1, Zenon
  <2> QED
    BY <2>1, <2>2 DEF AdapterTypes
<1>3. RetainedDelivered
  BY <1>1 DEF RetainedDelivered
<1>4. ~subscribed /\ delivered = {}
  BY <1>1, Zenon
<1> QED
  BY <1>2, <1>3, <1>4 DEF ToldInv

\* What arrives is added to what the adapter is told.
LEMMA ToldAppend ==
  ASSUME AdapterTypes, Ids \subseteq Nat, NEW j \in Ids, seen' = seen, inbox' = Append(inbox, j)
  PROVE  /\ inbox' \in Seq(Ids)
         /\ Told(j)'
         /\ \A i \in Ids \cup {0} : Told(i) => Told(i)'
<1>1. /\ inbox' \in Seq(Ids) /\ Len(inbox') = Len(inbox) + 1 /\ Len(inbox) \in Nat
      /\ inbox'[Len(inbox')] = j
      /\ \A k \in 1 .. Len(inbox) : inbox'[k] = inbox[k]
  BY DEF AdapterTypes
<1>2. Told(j)'
  BY <1>1 DEF Told
<1>3. ASSUME NEW i \in Ids \cup {0}, Told(i) PROVE Told(i)'
  BY <1>1, <1>3 DEF Told
<1> QED
  BY <1>1, <1>2, <1>3

\* A message the broker receives is passed on, or counted as missed.
LEMMA ToldForward ==
  ASSUME TypeOK, ToldInv, NEW i \in Ids, Forward(i), Receive(i)
  PROVE  ToldInv'
<1>t. /\ Ids \subseteq Nat /\ delivered \subseteq Ids /\ topic \in [Ids -> Topics]
      /\ retained \in [Topics -> Ids \cup {0}] /\ Room \in Topics
      /\ AdapterTypes /\ RetainedDelivered
  BY OutboxAssumption, DeliveryAssumption DEF TypeOK, ToldInv
<1>1. /\ delivered' = delivered \cup {i}
      /\ retained' = [retained EXCEPT ![topic[i]] = i]
      /\ subscribed' = subscribed /\ seen' = seen /\ missed' = (missed \/ ~subscribed)
  BY DEF Forward, Receive
<1>2. RetainedDelivered'
  BY <1>1, <1>t DEF RetainedDelivered
<1>3. CASE subscribed /\ topic[i] = Room
  <2>1. inbox' = Append(inbox, i)
    BY <1>3 DEF Forward
  <2>2. /\ inbox' \in Seq(Ids) /\ Told(i)'
        /\ \A j \in Ids \cup {0} : Told(j) => Told(j)'
    BY <1>1, <1>t, <2>1, ToldAppend
  <2>3. retained'[Room] = i /\ missed' = missed
    BY <1>1, <1>3, <1>t DEF AdapterTypes
  <2> QED
    BY <1>1, <1>2, <1>t, <2>2, <2>3 DEF ToldInv, AdapterTypes
<1>4. CASE ~subscribed
  <2>1. inbox' = inbox /\ missed'
    BY <1>4, <1>1 DEF Forward
  <2> QED
    BY <1>1, <1>2, <1>4, <1>t, <2>1 DEF ToldInv, AdapterTypes
<1>5. CASE subscribed /\ topic[i] # Room
  <2>1. inbox' = inbox /\ missed' = missed /\ retained'[Room] = retained[Room]
    BY <1>5, <1>1, <1>t DEF Forward, AdapterTypes
  <2>2. \A j \in Ids \cup {0} : Told(j)' <=> Told(j)
    BY <1>1, <2>1 DEF Told
  <2> QED
    BY <1>1, <1>2, <1>5, <1>t, <2>1, <2>2 DEF ToldInv, AdapterTypes
<1> QED
  BY <1>3, <1>4, <1>5

\* The outbox changes neither what is retained nor what was received.
LEMMA ToldKept ==
  ASSUME ToldInv, UNCHANGED adapterVars, retained' = retained, delivered' = delivered
  PROVE  ToldInv'
BY DEF ToldInv, adapterVars, AdapterTypes, RetainedDelivered, Told

\* The adapter's own steps.
LEMMA ToldAdapter ==
  ASSUME TypeOK, ToldInv, ApplyIntent \/ Subscribe \/ LoseConnection \/ Restart
  PROVE  ToldInv'
<1>t. /\ Ids \subseteq Nat /\ delivered \subseteq Ids /\ Room \in Topics
      /\ retained \in [Topics -> Ids \cup {0}]
      /\ AdapterTypes /\ RetainedDelivered
  BY OutboxAssumption, DeliveryAssumption DEF TypeOK, ToldInv
<1>n. (\A i \in Ids \cup {0} : i \in Nat) /\ seen \in Ids \cup {0}
  BY <1>t DEF AdapterTypes
<1>1. retained' = retained /\ delivered' = delivered /\ RetainedDelivered'
  BY <1>t DEF ApplyIntent, Subscribe, LoseConnection, Restart, vars, brokerVars,
              RetainedDelivered
<1>2. ASSUME ApplyIntent PROVE ToldInv'
  <2>1. /\ inbox # <<>> /\ inbox \in Seq(Ids) /\ inbox' = Tail(inbox)
        /\ subscribed' = subscribed /\ missed' = missed
        /\ seen' = IF Head(inbox) < seen THEN seen ELSE Head(inbox)
    BY <1>2, <1>t DEF ApplyIntent, AdapterTypes
  <2>2. /\ Len(inbox) \in Nat /\ Len(inbox) > 0 /\ Len(inbox') = Len(inbox) - 1
        /\ Head(inbox) = inbox[1] /\ Head(inbox) \in Ids /\ inbox' \in Seq(Ids)
        /\ \A k \in 1 .. Len(inbox') : inbox'[k] = inbox[k + 1]
    BY <2>1
  <2>3. /\ seen' \in Ids \cup {0} /\ seen \in Nat /\ seen' \in Nat
        /\ seen <= seen' /\ Head(inbox) <= seen'
    <3>1. seen \in Ids \cup {0} /\ seen \in Nat /\ Head(inbox) \in Nat
      BY <2>2, <1>n
    <3> QED
      BY <2>1, <2>2, <3>1
  <2>4. ASSUME NEW i \in Ids \cup {0}, Told(i) PROVE Told(i)'
    <3>0. i \in Nat /\ Head(inbox) \in Nat
      BY <2>2, <2>4, <1>n
    <3>1. CASE i <= seen
      <4>1. i <= seen'
        BY <3>0, <3>1, <2>3
      <4> QED
        BY <4>1 DEF Told
    <3>2. CASE i <= inbox[1]
      <4>1. i <= seen'
        BY <3>0, <3>2, <2>2, <2>3
      <4> QED
        BY <4>1 DEF Told
    <3>3. ASSUME NEW k \in 1 .. Len(inbox), k # 1, i <= inbox[k] PROVE Told(i)'
      <4>1. k - 1 \in 1 .. Len(inbox') /\ inbox'[k - 1] = inbox[k]
        BY <3>3, <2>2
      <4> QED
        BY <3>3, <4>1 DEF Told
    <3> QED
      BY <2>4, <3>1, <3>2, <3>3 DEF Told
  <2> QED
    BY <1>1, <1>t, <2>1, <2>2, <2>3, <2>4 DEF ToldInv, AdapterTypes
<1>3. ASSUME Subscribe PROVE ToldInv'
  <2>1. subscribed' /\ subscribed' \in BOOLEAN /\ seen' = seen /\ missed' = missed
    BY <1>3 DEF Subscribe
  <2>2. CASE retained[Room] = 0
    <3>1. inbox' = inbox
      BY <1>3, <2>2 DEF Subscribe
    <3>2. Told(0)' /\ \A i \in Ids \cup {0} : Told(i) => Told(i)'
      BY <2>1, <3>1, <1>t DEF Told, AdapterTypes
    <3> QED
      BY <1>1, <1>t, <2>1, <2>2, <3>1, <3>2 DEF ToldInv, AdapterTypes
  <2>3. CASE retained[Room] # 0
    <3>1. inbox' = Append(inbox, retained[Room]) /\ retained[Room] \in Ids
      BY <1>3, <1>t, <2>3 DEF Subscribe
    <3>2. /\ inbox' \in Seq(Ids) /\ Told(retained[Room])'
          /\ \A i \in Ids \cup {0} : Told(i) => Told(i)'
      BY <1>1, <2>1, <1>t, <3>1, ToldAppend
    <3> QED
      BY <1>1, <1>t, <2>1, <3>2 DEF ToldInv, AdapterTypes
  <2> QED
    BY <2>2, <2>3
<1>4. ASSUME LoseConnection PROVE ToldInv'
  <2>1. PICK n \in 0 .. Len(inbox) :
          inbox' = SubSeq(inbox, 1, n) /\ missed' = (missed \/ n < Len(inbox))
    BY <1>4 DEF LoseConnection
  <2>2. ~subscribed' /\ subscribed' \in BOOLEAN /\ seen' = seen
    BY <1>4 DEF LoseConnection, Away
  <2>3. inbox' \in Seq(Ids) /\ (n = Len(inbox) => inbox' = inbox)
    <3>1. inbox \in Seq(Ids) /\ Len(inbox) \in Nat
      BY <1>t DEF AdapterTypes
    <3>2. /\ Len(inbox') = n /\ n \in Nat /\ \A k \in 1 .. n : inbox'[k] = inbox[k]
          /\ inbox' = [k \in 1 .. n |-> inbox[k]]
      BY <2>1, <3>1
    <3>3. inbox' \in Seq(Ids)
      BY <3>1, <3>2
    <3>4. ASSUME n = Len(inbox) PROVE inbox' = inbox
      BY <3>1, <3>2, <3>3, <3>4
    <3> QED
      BY <3>3, <3>4
  <2>4. ~missed' => ~missed /\ inbox' = inbox
    <3>1. ~missed' => ~missed /\ ~(n < Len(inbox))
      BY <2>1, Zenon
    <3>2. ~(n < Len(inbox)) => n = Len(inbox)
      BY <1>t DEF AdapterTypes
    <3> QED
      BY <2>3, <3>1, <3>2
  <2>5. ~missed' => \A i \in delivered : topic[i] = Room => Told(i)'
    BY <2>2, <2>4 DEF ToldInv, Told
  <2> QED
    BY <1>1, <1>t, <2>1, <2>2, <2>3, <2>5 DEF ToldInv, AdapterTypes
<1>5. ASSUME Restart PROVE ToldInv'
  <2>1. /\ ~subscribed' /\ subscribed' \in BOOLEAN /\ inbox' = <<>> /\ seen' = 0
        /\ missed' = (missed \/ seen # 0 \/ inbox # <<>>)
    BY <1>5 DEF Restart, Away
  <2>2. ~missed' => \A i \in delivered : topic[i] = Room => Told(i)'
    BY <2>1 DEF ToldInv, Told
  <2> QED
    BY <1>1, <1>t, <2>1, <2>2 DEF ToldInv, AdapterTypes
<1> QED
  BY <1>2, <1>3, <1>4, <1>5

\* Whatever fails between the two, the adapter has been told what it was sent.
LEMMA ToldStep == TypeOK /\ ToldInv /\ [DeliveryNext]_allVars => ToldInv'
<1> SUFFICES ASSUME TypeOK, ToldInv, [DeliveryNext]_allVars PROVE ToldInv'
  OBVIOUS
<1>1. ASSUME NEW w \in Workers, NEW i \in Ids, DeliveryAcked(w, i) \/ LateDelivery(w, i)
      PROVE  ToldInv'
  BY <1>1, ToldForward DEF DeliveryAcked, LateDelivery, PublishAcked, DeliverLate
<1>2. ASSUME NEW w \in Workers, NEW i \in Ids, DeliveryFailed(w, i) PROVE ToldInv'
  <2>t. topic[i] \in Topics /\ retained \in [Topics -> Ids \cup {0}] /\ Ids \subseteq Nat \ {0}
    BY OutboxAssumption DEF TypeOK
  <2>1. \/ Receive(i)
        \/ UNCHANGED <<delivered, retained>>
    BY <1>2 DEF DeliveryFailed, PublishFailed, brokerVars
  <2>2. CASE retained'[topic[i]] = i /\ Forward(i)
    <3>1. Receive(i)
      <4>1. ASSUME UNCHANGED <<delivered, retained>> PROVE Receive(i)
        <5>1. retained[topic[i]] = i /\ i # 0
          BY <2>2, <4>1, <2>t
        <5>2. i \in delivered
          BY <5>1, <2>t DEF ToldInv, RetainedDelivered
        <5>3. retained = [retained EXCEPT ![topic[i]] = i]
          BY <5>1, <2>t
        <5> QED
          BY <4>1, <5>2, <5>3 DEF Receive
      <4> QED
        BY <2>1, <4>1
    <3> QED
      BY <2>2, <3>1, ToldForward
  <2>3. CASE retained' = retained /\ UNCHANGED adapterVars
    <3>1. delivered' = delivered
      <4>1. ASSUME Receive(i) PROVE delivered' = delivered
        <5>1. retained[topic[i]] = i /\ i # 0
          BY <2>3, <4>1, <2>t DEF Receive
        <5>2. i \in delivered
          BY <5>1, <2>t DEF ToldInv, RetainedDelivered
        <5> QED
          BY <4>1, <5>2 DEF Receive
      <4> QED
        BY <2>1, <4>1
    <3> QED
      BY <2>3, <3>1, ToldKept
  <2> QED
    BY <1>2, <2>2, <2>3 DEF DeliveryFailed
<1>3. ASSUME NEW i \in Ids, EnqueueNewer(i) \/ BackoffElapses(i) \/ ClaimAges(i),
             UNCHANGED adapterVars
      PROVE  ToldInv'
  BY <1>3, ToldKept DEF EnqueueNewer, Enqueue, BackoffElapses, ClaimAges, brokerVars
<1>4. ASSUME NEW w \in Workers, UNCHANGED adapterVars,
             \/ release_stale_publishing(w) \/ SkipDisconnected(w)
             \/ claim_pending(w) \/ record_results(w) \/ RecordingFails(w)
             \/ Disconnect(w) \/ Connect(w) \/ Crash(w)
      PROVE  ToldInv'
  <2>1. retained' = retained /\ delivered' = delivered
    BY <1>4 DEF release_stale_publishing, SkipDisconnected, claim_pending, record_results,
       RecordingFails, EndOfBatch, Disconnect, Connect, Crash, brokerVars
  <2> QED
    BY <1>4, <2>1, ToldKept
<1>5. ASSUME ApplyIntent \/ Subscribe \/ LoseConnection \/ Restart PROVE ToldInv'
  BY <1>5, ToldAdapter
<1>6. ASSUME UNCHANGED allVars PROVE ToldInv'
  BY <1>6, ToldKept DEF allVars, vars, brokerVars
<1> QED
  BY <1>1, <1>2, <1>3, <1>4, <1>5, <1>6, DeliveryCases

\* The rows of the room are committed in the order of their versions, so none
\* comes after a later one that has been claimed.
LEMMA RoomInOrder ==
  ASSUME Room \notin overtaken, [DeliveryNext]_allVars
  PROVE  Room \notin overtaken'
<1>1. ASSUME NEW i \in Ids, EnqueueNewer(i) PROVE Room \notin overtaken'
  <2>1. topic[i] = Room => ~Overtakes(i)
    BY <1>1 DEF EnqueueNewer, Overtakes
  <2> QED
    BY <1>1, <2>1 DEF EnqueueNewer, Enqueue
<1>2. ASSUME NEW w \in Workers, NEW i \in Ids,
             DeliveryAcked(w, i) \/ DeliveryFailed(w, i) \/ LateDelivery(w, i)
      PROVE  overtaken' = overtaken
  BY <1>2 DEF DeliveryAcked, DeliveryFailed, LateDelivery, PublishAcked, PublishFailed, DeliverLate
<1> QED
  BY <1>1, <1>2, DeliveryCases DEF BackoffElapses, ClaimAges, release_stale_publishing,
     SkipDisconnected, claim_pending, record_results, RecordingFails, Disconnect, Connect,
     Crash, Fault, ApplyIntent, Subscribe, LoseConnection, Restart, allVars, vars

-----------------------------------------------------------------------------
\* With one outbox process: once every row of the room has been published and
\* the adapter is idle, it has taken over the newest intent, if nothing failed
\* on the topic or the adapter missed nothing.
THEOREM NewestTakenOver ==
  ASSUME OneWorker
  PROVE  DeliverySpec => []NewestDespiteReorder
<1> DEFINE Inv == PublishedInv /\ OrderInv /\ ToldInv /\ Room \notin overtaken
<1>1. DeliveryInit => Inv
  BY PublishedInit, OrderInit, ToldInit DEF DeliveryInit, Init
<1>2. Inv /\ [DeliveryNext]_allVars => Inv'
  BY OutboxStep, PublishedStep, OrderStep, ToldStep, RoomInOrder DEF PublishedInv
<1>3. Inv => NewestDespiteReorder
  <2> SUFFICES ASSUME Inv, AllPublished, subscribed, inbox = <<>>,
                      NoFailure(Room) \/ ~missed, NEW i \in Intents
               PROVE  i <= seen
    BY DEF NewestDespiteReorder, NewestSeen
  <2>1. /\ i \in Ids /\ topic[i] = Room /\ i \in delivered
        /\ Ids \subseteq Nat /\ seen \in Nat /\ Room \in Topics
        /\ retained[Room] \in Ids \cup {0}
    BY OutboxAssumption, DeliveryAssumption
       DEF Intents, AllPublished, PublishedInv, PublishedDelivered, ToldInv,
           AdapterTypes, TypeOK
  <2>2. ASSUME NEW j, Told(j) PROVE j <= seen
    BY <2>2 DEF Told
  <2>3. CASE ~missed
    BY <2>1, <2>2, <2>3 DEF ToldInv
  <2>4. CASE NoFailure(Room)
    <3>1. i <= retained[Room]
      BY <2>1, <2>4 DEF OrderInv, Orderly
    <3>2. retained[Room] <= seen
      BY <2>2 DEF ToldInv
    <3>3. i \in Nat /\ retained[Room] \in Nat /\ seen \in Nat
      <4> HIDE DEF Inv
      <4>1. \A k \in Ids \cup {0} : k \in Nat
        BY OutboxAssumption
      <4> QED
        BY <2>1, <4>1
    <3> QED
      BY <3>1, <3>2, <3>3
  <2> QED
    BY <2>3, <2>4
<1> QED
  BY <1>1, <1>2, <1>3, PTL DEF DeliverySpec

\* Every step of the delivery is a step of the outbox, or leaves it alone.
LEMMA DeliveryImplementsOutbox == DeliverySpec => Spec
<1>1. DeliveryInit => Init
  BY DEF DeliveryInit
<1> QED
  BY <1>1, OutboxStep, PTL DEF DeliverySpec, Spec

\* With one outbox process the delivery of a room's intents implements the
\* at-least-once queue.
THEOREM DeliveryImplementsQueue ==
  ASSUME OneWorker
  PROVE  DeliverySpec => ImplementsQueue
BY DeliveryImplementsOutbox, OutboxImplementsQueue, PTL

\* The adapter has nothing from elsewhere: what it has taken over, and what it is
\* about to, are intents of its room that the broker received.
FromBroker(i) == i \in delivered /\ topic[i] = Room

Provenance == (seen # 0 => FromBroker(seen)) /\ \A k \in 1 .. Len(inbox) : FromBroker(inbox[k])

\* What an adapter that has handled its inbox holds.  The version in its memory is
\* an intent of its room that the broker received.  While subscribed it is not
\* behind what the broker retains, whatever it has missed or forgotten; and as
\* long as it has missed nothing, it holds the newest the broker received, and
\* the newest there is once all are published.
NewestDelivered ==
  /\ seen # 0 => FromBroker(seen)
  /\ subscribed /\ inbox = <<>> => retained[Room] <= seen
  /\ inbox = <<>> /\ ~missed =>
       /\ \A i \in delivered : topic[i] = Room => i <= seen
       /\ AllPublished => NewestSeen

\* What is added to the inbox comes from the broker.
LEMMA ProvenanceAppend ==
  ASSUME AdapterTypes, Provenance, NEW i \in Ids, FromBroker(i)', delivered \subseteq delivered',
         seen' = seen, inbox' = Append(inbox, i)
  PROVE  Provenance'
<1>2. /\ Len(inbox') = Len(inbox) + 1 /\ Len(inbox) \in Nat /\ inbox'[Len(inbox) + 1] = i
      /\ \A k \in 1 .. Len(inbox) : inbox'[k] = inbox[k]
  BY DEF AdapterTypes
<1>3. \A k \in 1 .. Len(inbox') : k \in 1 .. Len(inbox) \/ k = Len(inbox) + 1
  BY <1>2
<1>4. \A k \in 1 .. Len(inbox') : FromBroker(inbox[k])'
  BY <1>2, <1>3 DEF Provenance, FromBroker
<1> QED
  BY <1>4 DEF Provenance, FromBroker

\* What the adapter takes out of its inbox, or loses, leaves the rest as it was.
LEMMA ProvenanceShrinks ==
  ASSUME AdapterTypes, Provenance, delivered \subseteq delivered',
         seen' \in {0, seen} \/ (inbox # <<>> /\ seen' = Head(inbox)),
         \A k \in 1 .. Len(inbox') : \E j \in 1 .. Len(inbox) : inbox'[k] = inbox[j]
  PROVE  Provenance'
<1>2. \A k \in 1 .. Len(inbox') : FromBroker(inbox[k])'
  BY DEF Provenance, FromBroker
<1>3. ASSUME inbox # <<>> PROVE Head(inbox) \in delivered' /\ topic[Head(inbox)] = Room
  <2>1. Head(inbox) = inbox[1] /\ 1 \in 1 .. Len(inbox)
    BY <1>3 DEF AdapterTypes
  <2> QED
    BY <2>1 DEF Provenance, FromBroker
<1>4. seen' # 0 => FromBroker(seen)'
  BY <1>3 DEF Provenance, FromBroker
<1> QED
  BY <1>2, <1>4 DEF Provenance

\* No step makes the adapter hold an intent from elsewhere.
LEMMA ProvenanceStep ==
  ASSUME TypeOK, ToldInv, Provenance, [DeliveryNext]_allVars
  PROVE  Provenance'
<1>t. /\ AdapterTypes /\ RetainedDelivered /\ Ids \subseteq Nat \ {0}
      /\ topic \in [Ids -> Topics] /\ Room \in Topics
      /\ retained \in [Topics -> Ids \cup {0}]
  BY OutboxAssumption, DeliveryAssumption DEF ToldInv, TypeOK
<1>k. ASSUME delivered \subseteq delivered', seen' = seen, inbox' = inbox PROVE Provenance'
  BY <1>k DEF Provenance, FromBroker
<1>f. ASSUME NEW i \in Ids, Forward(i), i \in delivered', delivered \subseteq delivered'
      PROVE  Provenance'
  <2>1. CASE subscribed /\ topic[i] = Room
    <3>1. inbox' = Append(inbox, i) /\ seen' = seen
      BY <1>f, <2>1 DEF Forward
    <3>2. FromBroker(i)'
      BY <1>f, <2>1 DEF FromBroker
    <3> QED
      BY <1>t, <1>f, <3>1, <3>2, ProvenanceAppend
  <2>2. CASE ~(subscribed /\ topic[i] = Room)
    BY <1>f, <1>k, <2>2 DEF Forward
  <2> QED
    BY <2>1, <2>2
<1>1. ASSUME NEW w \in Workers, NEW i \in Ids, DeliveryAcked(w, i) \/ LateDelivery(w, i)
      PROVE  Provenance'
  BY <1>1, <1>f DEF DeliveryAcked, LateDelivery, PublishAcked, DeliverLate, Receive
<1>2. ASSUME NEW w \in Workers, NEW i \in Ids, DeliveryFailed(w, i) PROVE Provenance'
  <2>1. delivered \subseteq delivered'
    BY <1>2 DEF DeliveryFailed, PublishFailed, Receive, brokerVars
  <2>2. CASE retained'[topic[i]] = i /\ Forward(i)
    <3>1. RetainedDelivered'
      BY <1>2, ToldStep DEF DeliveryNext, DeliveryWorkerStep, ToldInv
    <3>2. i \in delivered'
      BY <1>t, <2>2, <3>1 DEF RetainedDelivered
    <3> QED
      BY <1>f, <2>1, <2>2, <3>2
  <2>3. CASE UNCHANGED adapterVars
    BY <1>k, <2>1, <2>3 DEF adapterVars
  <2> QED
    BY <1>2, <2>2, <2>3 DEF DeliveryFailed
<1>3. ASSUME UNCHANGED adapterVars,
             \/ \E i \in Ids : EnqueueNewer(i) \/ BackoffElapses(i) \/ ClaimAges(i)
             \/ \E w \in Workers :
                  \/ release_stale_publishing(w) \/ SkipDisconnected(w)
                  \/ claim_pending(w) \/ record_results(w) \/ RecordingFails(w)
                  \/ Disconnect(w) \/ Connect(w) \/ Crash(w)
      PROVE  Provenance'
  <2>1. delivered' = delivered
    BY <1>3 DEF EnqueueNewer, Enqueue, BackoffElapses, ClaimAges, release_stale_publishing, SkipDisconnected,
       claim_pending, record_results, RecordingFails, EndOfBatch, Disconnect, Connect, Crash,
       brokerVars
  <2> QED
    BY <1>k, <1>3, <2>1 DEF adapterVars
<1>4. ASSUME ApplyIntent PROVE Provenance'
  <2>1. /\ inbox # <<>> /\ inbox' = Tail(inbox) /\ delivered' = delivered
        /\ seen' = seen \/ seen' = Head(inbox)
    BY <1>4 DEF ApplyIntent, vars, brokerVars
  <2>2. /\ Len(inbox') = Len(inbox) - 1 /\ Len(inbox) \in Nat
        /\ \A k \in 1 .. Len(inbox') : inbox'[k] = inbox[k + 1] /\ k + 1 \in 1 .. Len(inbox)
    BY <1>t, <2>1 DEF AdapterTypes
  <2> QED
    BY <1>t, <2>1, <2>2, ProvenanceShrinks
<1>5. ASSUME Subscribe PROVE Provenance'
  <2>1. /\ seen' = seen /\ delivered' = delivered
        /\ inbox' = IF retained[Room] = 0 THEN inbox ELSE Append(inbox, retained[Room])
    BY <1>5 DEF Subscribe, vars, brokerVars
  <2>2. retained[Room] # 0 =>
          retained[Room] \in Ids /\ retained[Room] \in delivered' /\ topic[retained[Room]] = Room
    BY <1>t, <2>1 DEF RetainedDelivered
  <2>3. CASE retained[Room] = 0
    BY <1>k, <2>1, <2>3
  <2>4. CASE retained[Room] # 0
    <3>1. PICK i \in Ids : i = retained[Room]
      BY <2>2, <2>4
    <3>2. inbox' = Append(inbox, i) /\ FromBroker(i)'
      BY <2>1, <2>2, <2>4, <3>1 DEF FromBroker
    <3> QED
      BY <1>t, <2>1, <3>2, ProvenanceAppend
  <2> QED
    BY <2>3, <2>4
<1>6. ASSUME LoseConnection PROVE Provenance'
  <2>1. PICK n \in 0 .. Len(inbox) : inbox' = SubSeq(inbox, 1, n)
    BY <1>6 DEF LoseConnection
  <2>2. seen' = seen /\ delivered' = delivered
    BY <1>6 DEF LoseConnection, vars, brokerVars
  <2>3. /\ Len(inbox') = n /\ n \in Nat /\ n <= Len(inbox) /\ Len(inbox) \in Nat
        /\ \A k \in 1 .. n : inbox'[k] = inbox[k]
    BY <1>t, <2>1 DEF AdapterTypes
  <2> QED
    BY <1>t, <2>2, <2>3, ProvenanceShrinks
<1>7. ASSUME Restart PROVE Provenance'
  BY <1>7 DEF Restart, Provenance
<1>8. ASSUME UNCHANGED allVars PROVE Provenance'
  BY <1>8, <1>k DEF allVars, adapterVars, vars, brokerVars
<1> QED
  BY <1>1, <1>2, <1>3, <1>4, <1>5, <1>6, <1>7, <1>8, DeliveryCases

\* With any number of outbox processes, and whatever restarts and lost
\* connections came before: a subscribed adapter that has handled its inbox is
\* not behind the intent the broker retains for its room, although it may have
\* missed or forgotten others; and if it has missed none, it holds the newest.
THEOREM NewestByMany == DeliverySpec => []NewestDelivered
<1> DEFINE Inv == PublishedInv /\ ToldInv /\ Provenance
<1>1. DeliveryInit => Inv
  <2>1. DeliveryInit => Provenance
    BY DEF DeliveryInit, Provenance
  <2> QED
    BY <2>1, PublishedInit, ToldInit DEF DeliveryInit
<1>2. Inv /\ [DeliveryNext]_allVars => Inv'
  BY OutboxStep, PublishedStep, ToldStep, ProvenanceStep DEF PublishedInv
<1>3. Inv => NewestDelivered
  <2>0. Inv /\ subscribed /\ inbox = <<>> => retained[Room] <= seen
    BY DEF ToldInv, Told
  <2> SUFFICES ASSUME Inv, inbox = <<>>, ~missed
               PROVE  /\ \A i \in delivered : topic[i] = Room => i <= seen
                      /\ AllPublished => NewestSeen
    BY <2>0 DEF NewestDelivered, Provenance
  <2>1. \A i \in delivered : topic[i] = Room => i <= seen
    BY DEF ToldInv, Told
  <2>2. \A i \in Intents : rows[i].status = "published" => i \in delivered /\ topic[i] = Room
    BY DEF PublishedInv, PublishedDelivered, Intents
  <2> QED
    BY <2>1, <2>2 DEF AllPublished, NewestSeen
<1> QED
  BY <1>1, <1>2, <1>3, PTL DEF DeliverySpec

=============================================================================
