--------------------------- MODULE IntentDelivery ---------------------------
(***************************************************************************)
(* One room's intents on their way from the outbox to the entrance adapter *)
(* that serves the room: Outbox, the broker's retained intent topic, and   *)
(* the version memory of G301EntranceWorker (g301_adapter/worker.py).      *)
(*                                                                         *)
(* The adapter's MQTT shell is not in the repository.  As                  *)
(* docs/future-adapter-contract.md has it, the shell subscribes to the     *)
(* room's intent topic and hands over what arrives.  What the broker       *)
(* forwards while the adapter is away is lost, and a new subscription      *)
(* brings the retained message.                                            *)
(*                                                                         *)
(* A row stands for the intent version it carries: the rows of a room are  *)
(* numbered as its versions are (OrderedVersions of RoomLedger), and they  *)
(* are committed in that order.  A room whose states were committed out of *)
(* the order of their timestamps (VersionReuse.cfg) is not modelled here.  *)
(***************************************************************************)
EXTENDS Outbox, Sequences

CONSTANTS
  Room,         \* the topic of the room's intents
  MaxDrops      \* bound: times the adapter loses its connection or restarts

ASSUME DeliveryAssumption == Room \in Topics /\ MaxDrops \in Nat

VARIABLES
  subscribed,   \* the adapter is connected and subscribed
  inbox,        \* forwarded by the broker, not yet handed to the worker
  seen,         \* last_seen_version, 0 for None
  drops,        \* times the adapter was away
  missed        \* history: an intent passed the adapter by, or was forgotten

adapterVars == <<subscribed, inbox, seen, drops, missed>>
allVars == <<vars, adapterVars>>

DeliveryInit ==
  /\ Init
  /\ subscribed = FALSE
  /\ inbox = <<>>
  /\ seen = 0
  /\ drops = 0
  /\ missed = FALSE

-----------------------------------------------------------------------------
(* The broker passes on what it receives.                                  *)

Forward(i) ==
  /\ inbox' = IF subscribed /\ topic[i] = Room THEN Append(inbox, i) ELSE inbox
  /\ missed' = (missed \/ ~subscribed)
  /\ UNCHANGED <<subscribed, seen, drops>>

DeliveryAcked(w, i) == PublishAcked(w, i) /\ Forward(i)

\* A failed publish may have reached the broker; a message equal to the
\* retained one may have, or not.
DeliveryFailed(w, i) ==
  /\ PublishFailed(w, i)
  /\ \/ inflight' = inflight /\ retained'[topic[i]] = i /\ Forward(i)
     \/ retained' = retained /\ UNCHANGED adapterVars

LateDelivery(w, i) == DeliverLate(w, i) /\ Forward(i)

\* A new intent of the room has a newer version than those before it.
EnqueueNewer(i) ==
  /\ topic[i] = Room => \A j \in Ids : i < j /\ topic[j] = Room => rows[j].status = "absent"
  /\ Enqueue(i)

\* The steps of the outbox that say nothing to the broker.
Silent(A) == A /\ UNCHANGED adapterVars

-----------------------------------------------------------------------------
(* The adapter.                                                            *)

\* Mutant: without the comparison with last_seen_version.
Receive_AnyVersion ==
  /\ inbox # <<>>
  /\ inbox' = Tail(inbox)
  /\ seen' = Head(inbox)
  /\ UNCHANGED <<vars, subscribed, drops, missed>>

\* _apply_intent_serialized: an older version is stale, an equal one repeats
\* or resumes, a newer one is taken over whatever came of the one before it.
ApplyIntent ==
  /\ inbox # <<>>
  /\ inbox' = Tail(inbox)
  /\ seen' = IF Head(inbox) < seen THEN seen ELSE Head(inbox)
  /\ UNCHANGED <<vars, subscribed, drops, missed>>

\* Mutant: the subscription asks for no retained message.
Subscribe_NoRetained ==
  /\ ~subscribed
  /\ subscribed' = TRUE
  /\ UNCHANGED <<vars, inbox, seen, drops, missed>>

Subscribe ==
  /\ ~subscribed
  /\ subscribed' = TRUE
  /\ inbox' = IF retained[Room] = 0 THEN inbox ELSE Append(inbox, retained[Room])
  /\ UNCHANGED <<vars, seen, drops, missed>>

Away ==
  /\ drops < MaxDrops
  /\ drops' = drops + 1
  /\ subscribed' = FALSE

\* The connection is lost, with what the broker had not got through.
LoseConnection ==
  /\ subscribed
  /\ Away
  /\ \E n \in 0..Len(inbox) :
       /\ inbox' = SubSeq(inbox, 1, n)
       /\ missed' = (missed \/ n < Len(inbox))
  /\ UNCHANGED <<vars, seen>>

\* The version memory is in process memory.
Restart ==
  /\ Away
  /\ inbox' = <<>>
  /\ seen' = 0
  /\ missed' = (missed \/ seen # 0 \/ inbox # <<>>)
  /\ UNCHANGED vars

-----------------------------------------------------------------------------
(* The operator's requeue of dead letters is left to Outbox.               *)

DeliveryWorkerStep(w) ==
  \/ Silent(release_stale_publishing(w) \/ SkipDisconnected(w) \/ claim_pending(w)
              \/ record_results(w))
  \/ \E i \in Ids : DeliveryAcked(w, i) \/ DeliveryFailed(w, i)

DeliveryNext ==
  \/ \E i \in Ids : Silent(EnqueueNewer(i) \/ BackoffElapses(i) \/ ClaimAges(i))
  \/ \E w \in Workers :
       \/ DeliveryWorkerStep(w)
       \/ Silent(RecordingFails(w) \/ Disconnect(w) \/ Connect(w) \/ Crash(w))
       \/ \E i \in Ids : LateDelivery(w, i)
  \/ ApplyIntent \/ Subscribe \/ LoseConnection \/ Restart

DeliverySpec == DeliveryInit /\ [][DeliveryNext]_allVars

\* The fairness of the outbox, and an adapter that subscribes again and
\* handles what it is given.
FairDeliverySpec ==
  /\ DeliverySpec
  /\ \A w \in Workers :
       WF_allVars(DeliveryWorkerStep(w)) /\ WF_allVars(Silent(Connect(w)))
  /\ \A i \in Ids :
       WF_allVars(Silent(BackoffElapses(i))) /\ WF_allVars(Silent(ClaimAges(i)))
  /\ WF_allVars(ApplyIntent) /\ WF_allVars(Subscribe)

-----------------------------------------------------------------------------
(* Properties.                                                             *)

Intents == {i \in Ids : topic[i] = Room /\ rows[i].status # "absent"}
AllPublished == \A i \in Intents : rows[i].status = "published"
NewestSeen == \A i \in Intents : i <= seen

\* Every row of the room has been published and the adapter is idle: then it
\* has taken over the newest intent, whatever retries, late deliveries and
\* reconnects put at the broker since.  The version memory makes up for the
\* outbox's reordering, or the order for what the adapter missed: one of the
\* two is enough.
NewestDespiteReorder ==
  /\ AllPublished /\ subscribed /\ inbox = <<>>
  /\ NoFailure(Room) \/ ~missed
  => NewestSeen

\* The same without the condition: an adapter that was away takes over the
\* older intent, when a retried row has replaced the newer one meanwhile.
NewestAfterAway ==
  AllPublished /\ subscribed /\ inbox = <<>> => NewestSeen

\* Once every row is published, and as long as no newer one follows, the
\* adapter comes to the newest, whatever connections are lost on either side.
EventuallyInformed ==
  AllPublished ~> NewestSeen \/ ~AllPublished \/ (missed /\ ~NoFailure(Room))

=============================================================================
