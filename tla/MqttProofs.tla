----------------------------- MODULE MqttProofs -----------------------------
(***************************************************************************)
(* Theorems about the MQTT session, for any command topics, executor       *)
(* threads, number of commits, commands and faults.                        *)
(***************************************************************************)
EXTENDS MqttSession, TLAPS

-----------------------------------------------------------------------------
(* Types.                                                                  *)

LEMMA Jobs ==
  /\ Idle \in Job /\ Announcement \in Job
  /\ \A n \in Nat : /\ Handling(n) \in Job
                    /\ [kind |-> "control", number |-> n] \in Job
  /\ Main \in Agents /\ Threads \subseteq Agents
  BY DEF Idle, Announcement, Handling, Job, Agents

LEMMA PublishType ==
  ASSUME TypeOK, NEW topic, NEW value, NEW by,
         [topic |-> topic, value |-> value, by |-> by] \in Message,
         Publish(topic, value, by)
  PROVE  outgoing' \in Seq(Message) /\ (~connected => outgoing' = outgoing)
  BY DEF Publish, TypeOK

LEMMA FaultType ==
  ASSUME TypeOK, Fault \/ UNCHANGED faults
  PROVE  faults' \in Nat
  BY SessionAssumption DEF Fault, TypeOK

LEMMA RowsType ==
  ASSUME TypeOK
  PROVE  /\ Versions \subseteq Nat
         /\ \A n \in Versions, status \in RowStatus :
              [rows EXCEPT ![n] = status] \in [Versions -> RowStatus]
         /\ \A from, to : to \in RowStatus => Turned(from, to) \in [Versions -> RowStatus]
         /\ \A n \in Versions : Newest(version, n) \in Nat /\ Newest(handed, n) \in Nat
  BY SessionAssumption DEF TypeOK, Versions, Turned, Newest

LEMMA LibraryType ==
  ASSUME TypeOK, LibraryStep \/ LinkLost \/ WillFires
  PROVE  TypeOK'
  <1>1. CASE Connect
    BY <1>1 DEF Connect, TypeOK, dbVars
  <1>2. CASE _on_connect
    <2>1. queue' \in Seq(Job) /\ subscribed' \in SUBSET Commands
      BY <1>2, Jobs DEF _on_connect, TypeOK
    <2> QED
      BY <1>2, <2>1 DEF _on_connect, TypeOK, NoCallback, dbVars
  <1>3. CASE _on_connect_Aborts
    BY <1>3 DEF _on_connect_Aborts, TypeOK, NoCallback, dbVars
  <1>4. CASE _on_disconnect
    BY <1>4 DEF _on_disconnect, TypeOK, brokerVars, dbVars
  <1>5. CASE Deliver
    <2>1. Head(outgoing) \in Message /\ outgoing' \in Seq(Message)
      BY <1>5 DEF Deliver, TypeOK
    <2>2. retained' \in [availability : {"online", "offline"}, control : Nat]
      BY <1>5, <2>1 DEF Deliver, Received, Message, TypeOK
    <2>3. main # "down"
      BY <1>5 DEF Deliver, TypeOK
    <2> QED
      BY <1>5, <2>1, <2>2, <2>3 DEF Deliver, TypeOK, clientVars, dbVars
  <1>6. CASE LinkLost
    BY <1>6, FaultType DEF LinkLost, TypeOK, clientVars, dbVars
  <1>7. CASE WillFires
    BY <1>7 DEF WillFires, TypeOK, clientVars, dbVars
  <1> QED
    BY <1>1, <1>2, <1>3, <1>4, <1>5, <1>6, <1>7 DEF LibraryStep

LEMMA ThreadType ==
  ASSUME TypeOK,
         \/ \E a \in Agents : JobStep(a) \/ ReadControlFails(a)
         \/ \E a \in Threads : TakeTask(a)
         \/ \E c \in Commands : HomeAssistantSends(c)
  PROVE  TypeOK'
  <1>1. ASSUME NEW a \in Agents, AnnounceOnline(a)
        PROVE  TypeOK'
    <2>1. outgoing' \in Seq(Message) /\ (~connected => outgoing' = outgoing)
      BY <1>1, PublishType DEF AnnounceOnline, Message
    <2>2. job' \in [Agents -> Job]
      BY <1>1 DEF AnnounceOnline, TypeOK, Job
    <2> QED
      BY <1>1, <2>1, <2>2 DEF AnnounceOnline, TypeOK, brokerVars, dbVars
  <1>2. ASSUME NEW a \in Agents, ReadControl(a)
        PROVE  TypeOK'
    <2>1. job' \in [Agents -> Job]
      BY <1>2, Jobs DEF ReadControl, TypeOK
    <2> QED
      BY <1>2, <2>1 DEF ReadControl, TypeOK, brokerVars, dbVars
  <1>3. ASSUME NEW a \in Agents, ReadControlFails(a)
        PROVE  TypeOK'
    BY <1>3, Jobs, FaultType DEF ReadControlFails, TypeOK, brokerVars, dbVars
  <1>4. ASSUME NEW a \in Agents, AnnounceControl(a)
        PROVE  TypeOK'
    <2>1. job[a].number \in Nat
      BY DEF TypeOK, Job
    <2>2. outgoing' \in Seq(Message) /\ (~connected => outgoing' = outgoing)
      BY <1>4, <2>1, PublishType DEF AnnounceControl, Message
    <2> QED
      BY <1>4, <2>2, Jobs DEF AnnounceControl, TypeOK, brokerVars, dbVars
  <1>5. ASSUME NEW a \in Agents, HandleCommand(a) \/ RejectCommand(a)
        PROVE  TypeOK'
    <2>1. job[a].number \in Nat
      BY DEF TypeOK, Job
    <2>2. /\ {version', handed', handled', sent', faults'} \subseteq Nat
          /\ rows' \in [Versions -> RowStatus]
      <3>1. CASE HandleCommand(a)
        <4>1. PICK n \in Versions : rows' = [rows EXCEPT ![n] = "due"]
                                    /\ version' = Newest(version, n)
          BY <3>1 DEF HandleCommand, Commit
        <4>2. UNCHANGED <<handed, sent, faults>> /\ handled' = job[a].number
          BY <3>1 DEF HandleCommand
        <4> QED
          BY <2>1, <4>1, <4>2, RowsType DEF TypeOK, RowStatus
      <3>2. CASE RejectCommand(a)
        BY <2>1, <3>2 DEF RejectCommand, TypeOK
      <3> QED
        BY <1>5, <3>1, <3>2
    <2>3. job' \in [Agents -> Job]
      BY <1>5, Jobs DEF HandleCommand, RejectCommand, TypeOK
    <2>4. UNCHANGED <<main, registering, handlers, connected, resubscribing, aborted, queue,
                      outgoing, brokerVars, late>>
      BY <1>5 DEF HandleCommand, RejectCommand
    <2> QED
      BY <2>2, <2>3, <2>4 DEF TypeOK, brokerVars
  <1>6. ASSUME NEW a \in Threads, TakeTask(a)
        PROVE  TypeOK'
    <2>1. Head(queue) \in Job /\ queue' \in Seq(Job)
      BY <1>6 DEF TakeTask, TypeOK
    <2> QED
      BY <1>6, <2>1, Jobs DEF TakeTask, TypeOK, brokerVars, dbVars
  <1>7. ASSUME NEW c \in Commands, HomeAssistantSends(c)
        PROVE  TypeOK'
    <2>1. sent' \in Nat
      BY <1>7 DEF HomeAssistantSends, TypeOK
    <2>2. queue' \in {queue, Append(queue, Handling(sent'))} /\ aborted' \in BOOLEAN
      BY <1>7 DEF HomeAssistantSends, TypeOK
    <2>3. queue' \in Seq(Job)
      <3>1. Handling(sent') \in Job /\ queue \in Seq(Job)
        BY <2>1, Jobs DEF TypeOK
      <3> QED
        BY <2>2, <3>1
    <2> QED
      BY <1>7, <2>1, <2>2, <2>3 DEF HomeAssistantSends, TypeOK, brokerVars, dbVars
  <1> QED
    BY <1>1, <1>2, <1>3, <1>4, <1>5, <1>6, <1>7 DEF JobStep

LEMMA MainType ==
  ASSUME TypeOK,
         \/ MainStep \/ PolicyEndsOverride \/ RowTimesOut \/ RecordingFails \/ Stop \/ Crash
  PROVE  TypeOK'
  <1>1. CASE StartProcess
    BY <1>1 DEF StartProcess, TypeOK, brokerVars, dbVars
  <1>2. CASE Connected
    BY <1>2 DEF Connected, TypeOK, clientVars, brokerVars, dbVars
  <1>3. CASE \E c \in Commands : EnterHandler(c)
    BY <1>3 DEF EnterHandler, TypeOK, brokerVars, dbVars
  <1>4. CASE Subscribe
    BY <1>4 DEF Subscribe, TypeOK, clientVars, dbVars
  <1>5. CASE Announce
    BY <1>5, Jobs DEF Announce, TypeOK, brokerVars, dbVars
  <1>6. CASE Started
    BY <1>6 DEF Started, TypeOK, clientVars, brokerVars, dbVars
  <1>7. ASSUME NEW n \in Versions, PublishRow(n)
        PROVE  TypeOK'
    <2>1. [topic |-> "control", value |-> n, by |-> "outbox"] \in Message
      BY RowsType DEF Message
    <2>2. outgoing' \in Seq(Message) /\ handed' \in Nat /\ rows' \in [Versions -> RowStatus]
      BY <1>7, <2>1, RowsType DEF PublishRow, TypeOK, RowStatus
    <2> QED
      BY <1>7, <2>2 DEF PublishRow, TypeOK, clientVars, brokerVars
  <1>8. CASE ClaimBatch \/ RowAcknowledged \/ RowTimesOut \/ EndBatch \/ RecordingFails
    <2>1. faults' \in Nat
      BY <1>8, FaultType
         DEF ClaimBatch, RowAcknowledged, RowTimesOut, EndBatch, RecordingFails
    <2>2. rows' \in [Versions -> RowStatus]
      <3>1. CASE ClaimBatch
        BY <3>1 DEF ClaimBatch, TypeOK, RowStatus
      <3>2. CASE RowAcknowledged \/ RowTimesOut \/ EndBatch \/ RecordingFails
        BY <3>2, RowsType
           DEF RowAcknowledged, RowTimesOut, EndBatch, RecordingFails, RowStatus
      <3> QED
        BY <1>8, <3>1, <3>2
    <2>3. /\ main \in {"running", "publishing", "awaiting"}
          /\ main' \in {"running", "publishing"}
          /\ UNCHANGED <<registering, clientVars, outgoing, brokerVars, version, handled, sent,
                         late, handed>>
      BY <1>8 DEF ClaimBatch, RowAcknowledged, RowTimesOut, EndBatch, RecordingFails, BatchDone
    <2> QED
      BY <2>1, <2>2, <2>3 DEF TypeOK, clientVars, brokerVars
  <1>9. CASE Disconnect
    <2>1. queue' \in Seq(Job) /\ outgoing' \in Seq(Message)
      BY <1>9 DEF Disconnect, ClientGone
    <2> QED
      BY <1>9, <2>1 DEF Disconnect, ClientGone, TypeOK, NoCallback, dbVars
  <1>10. CASE PolicyEndsOverride
    <2>1. version' \in Nat /\ rows' \in [Versions -> RowStatus]
      BY <1>10, RowsType DEF PolicyEndsOverride, Commit, RowStatus
    <2> QED
      BY <1>10, <2>1 DEF PolicyEndsOverride, TypeOK, clientVars, brokerVars
  <1>12. CASE Stop
    <2>1. outgoing' \in Seq(Message)
      BY <1>12, PublishType DEF Stop, Message
    <2> QED
      BY <1>12, <2>1 DEF Stop, TypeOK, clientVars, brokerVars, dbVars
  <1>13. CASE Crash
    <2>1. /\ faults' \in Nat
          /\ queue' \in Seq(Job) /\ outgoing' \in Seq(Message) /\ job' \in [Agents -> Job]
          /\ rows' \in [Versions -> RowStatus]
      BY <1>13, Jobs, FaultType, RowsType DEF Crash, ClientGone, RowStatus
    <2> QED
      BY <1>13, <2>1 DEF Crash, ClientGone, TypeOK, NoCallback
  <1> QED
    BY <1>1, <1>2, <1>3, <1>4, <1>5, <1>6, <1>7, <1>8, <1>9, <1>10, <1>12, <1>13
       DEF MainStep

\* The session is well typed, and a connection belongs to a running process.
THEOREM TypeCorrect == Spec => []TypeOK
  <1>1. Init => TypeOK
    <2> SUFFICES ASSUME Init PROVE TypeOK
      OBVIOUS
    <2>1. queue \in Seq(Job) /\ outgoing \in Seq(Message) /\ job \in [Agents -> Job]
      BY Jobs DEF Init
    <2>2. retained \in [availability : {"online", "offline"}, control : Nat]
      BY DEF Init
    <2>3. {version, handed, handled, sent, faults} \subseteq Nat
      BY DEF Init
    <2> QED
      BY <2>1, <2>2, <2>3 DEF Init, TypeOK, NoCallback, RowStatus
  <1>2. TypeOK /\ [Next]_vars => TypeOK'
    <2>1. CASE UNCHANGED vars
      BY <2>1 DEF vars, clientVars, brokerVars, dbVars, TypeOK
    <2> QED
      BY <2>1, LibraryType, ThreadType, MainType DEF Next
  <1> QED
    BY <1>1, <1>2, PTL DEF Spec

-----------------------------------------------------------------------------
(* Subscriptions.                                                          *)

\* While a connection is up and no callback raised, what is entered is
\* subscribed, but for the topic whose subscribe() is under way; after start()
\* every topic is entered.
SubscribedInv ==
  /\ main \in {"announcing", "running", "publishing", "awaiting", "stopping"} =>
       handlers = Commands /\ registering = Null
  /\ link /\ ~resubscribing.on /\ ~aborted =>
       \A c \in handlers : c = registering \/ c \in subscribed

LEMMA SubscribedStep ==
  ASSUME TypeOK, SubscribedInv, [Next]_vars
  PROVE  SubscribedInv'
  <1>1. CASE Connect \/ _on_connect \/ _on_connect_Aborts \/ _on_disconnect
    <2>1. CASE Connect
      BY <2>1 DEF Connect, SubscribedInv
    <2>2. CASE _on_connect
      BY <2>2 DEF _on_connect, SubscribedInv, NoCallback
    <2>3. CASE _on_connect_Aborts
      BY <2>3 DEF _on_connect_Aborts, SubscribedInv
    <2>4. CASE _on_disconnect
      BY <2>4 DEF _on_disconnect, SubscribedInv, brokerVars
    <2> QED
      BY <1>1, <2>1, <2>2, <2>3, <2>4
  <1>2. CASE LinkLost \/ WillFires
    BY <1>2 DEF LinkLost, WillFires, SubscribedInv, clientVars
  <1>3. CASE StartProcess \/ Connected \/ Announce \/ Started
    BY <1>3 DEF StartProcess, Connected, Announce, Started, SubscribedInv, TypeOK,
       clientVars, brokerVars
  <1>4. CASE \E c \in Commands : EnterHandler(c)
    BY <1>4, SessionAssumption DEF EnterHandler, SubscribedInv, TypeOK, brokerVars
  <1>5. CASE Subscribe
    BY <1>5 DEF Subscribe, SubscribedInv, TypeOK, clientVars
  <1>6. CASE \/ ClaimBatch \/ RowAcknowledged \/ RowTimesOut \/ EndBatch \/ RecordingFails
             \/ Stop \/ \E n \in Versions : PublishRow(n)
    <2>1. CASE ClaimBatch \/ Stop \/ \E n \in Versions : PublishRow(n)
      <3>1. /\ main \in {"running", "publishing"}
            /\ UNCHANGED <<registering, handlers, resubscribing, aborted, link, subscribed>>
        BY <2>1 DEF ClaimBatch, PublishRow, Stop, clientVars, brokerVars
      <3> QED
        BY <3>1 DEF SubscribedInv
    <2>2. CASE RowAcknowledged \/ RowTimesOut \/ EndBatch \/ RecordingFails
      BY <2>2 DEF RowAcknowledged, RowTimesOut, EndBatch, RecordingFails, BatchDone,
         SubscribedInv, clientVars, brokerVars
    <2> QED
      BY <1>6, <2>1, <2>2
  <1>7. CASE Disconnect \/ Crash
    <2>1. main' = "down" /\ link' = FALSE
      BY <1>7 DEF Disconnect, Crash, ClientGone
    <2> QED
      BY <2>1 DEF SubscribedInv
  <1>8. CASE \E c \in Commands : HomeAssistantSends(c)
    BY <1>8 DEF HomeAssistantSends, SubscribedInv, TypeOK, brokerVars
  <1>9. CASE UNCHANGED <<main, registering, handlers, resubscribing, aborted, link, subscribed>>
    BY <1>9 DEF SubscribedInv
  <1> QED
    BY <1>1, <1>2, <1>3, <1>4, <1>5, <1>6, <1>7, <1>8, <1>9
       DEF Next, LibraryStep, MainStep, JobStep, Deliver, TakeTask, AnnounceOnline,
           ReadControl, ReadControlFails, AnnounceControl, HandleCommand, RejectCommand,
           PolicyEndsOverride, vars, clientVars, brokerVars

\* Once nothing is under way, every command topic is subscribed in the present
\* session, unless a callback raised.
THEOREM TopicsReachable == Spec => []ReachableUnlessAborted
  <1>1. Init => SubscribedInv
    BY DEF Init, SubscribedInv
  <1>2. TypeOK /\ SubscribedInv /\ [Next]_vars => SubscribedInv'
    BY SubscribedStep
  <1>3. TypeOK /\ SubscribedInv => ReachableUnlessAborted
    BY SessionAssumption
       DEF TypeOK, SubscribedInv, ReachableUnlessAborted, CommandsReachable, Settled
  <1> QED
    BY <1>1, <1>2, <1>3, TypeCorrect, PTL DEF Spec

-----------------------------------------------------------------------------
(* Availability.                                                           *)

Says(k, value) == outgoing[k].topic = "availability" /\ outgoing[k].value = value

\* Before stop() nothing says "offline" but the will; while the connection is
\* up and no callback raised, "online" has been said or is on its way.
OnlineInv ==
  /\ main # "stopping" => \A k \in 1 .. Len(outgoing) : ~Says(k, "offline")
  /\ main # "stopping" /\ link /\ ~aborted =>
       \/ resubscribing.on
       \/ \E k \in 1 .. Len(queue) : queue[k].kind = "online"
       \/ \E a \in Agents : job[a].kind = "online"
       \/ \E k \in 1 .. Len(outgoing) : Says(k, "online")
       \/ retained.availability = "online"

LEMMA OnlineStep ==
  ASSUME TypeOK, TypeOK', OnlineInv, [Next]_vars
  PROVE  OnlineInv'
  <1>1. CASE Connect
    BY <1>1 DEF Connect, OnlineInv, Says
  <1>2. CASE _on_connect
    <2>1. queue' = Append(queue, Announcement) /\ queue \in Seq(Job)
      BY <1>2 DEF _on_connect, TypeOK
    <2>2. Len(queue') \in 1 .. Len(queue') /\ queue'[Len(queue')].kind = "online"
      BY <2>1, Jobs DEF Announcement
    <2> QED
      BY <1>2, <2>2 DEF _on_connect, OnlineInv, Says
  <1>3. CASE _on_connect_Aborts
    BY <1>3 DEF _on_connect_Aborts, OnlineInv, Says
  <1>4. CASE _on_disconnect
    BY <1>4 DEF _on_disconnect, OnlineInv, Says, TypeOK, brokerVars
  <1>5. CASE Deliver
    <2>1. /\ outgoing \in Seq(Message) /\ outgoing # <<>> /\ outgoing' = Tail(outgoing)
          /\ retained' = Received(outgoing[1])
          /\ UNCHANGED <<main, link, aborted, resubscribing, queue, job>>
      BY <1>5 DEF Deliver, TypeOK, clientVars
    <2>2. /\ Len(outgoing') = Len(outgoing) - 1 /\ Len(outgoing) \in Nat
          /\ \A k \in 1 .. Len(outgoing') : outgoing'[k] = outgoing[k + 1]
      BY <2>1
    <2>3. main # "stopping" => \A k \in 1 .. Len(outgoing') : ~Says(k, "offline")'
      BY <2>1, <2>2 DEF OnlineInv, Says
    <2>4. CASE Says(1, "online")
      <3>1. retained'.availability = "online"
        BY <2>1, <2>4 DEF Says, Received, TypeOK
      <3> QED
        BY <2>1, <2>3, <3>1 DEF OnlineInv, Says
    <2>5. CASE ~Says(1, "online") /\ main # "stopping"
      <3>1. outgoing[1] \in Message /\ 1 \in 1 .. Len(outgoing)
        BY <2>1
      <3>2. outgoing[1].topic = "control"
        BY <2>5, <3>1 DEF OnlineInv, Says, Message
      <3>3. retained'.availability = retained.availability
        BY <2>1, <3>2 DEF Received, TypeOK
      <3>4. (\E k \in 1 .. Len(outgoing) : Says(k, "online")) =>
              \E k \in 1 .. Len(outgoing') : Says(k, "online")'
        <4> SUFFICES ASSUME NEW k \in 1 .. Len(outgoing), Says(k, "online")
                     PROVE  \E j \in 1 .. Len(outgoing') : Says(j, "online")'
          OBVIOUS
        <4>1. k - 1 \in 1 .. Len(outgoing')
          BY <2>2, <2>5
        <4>2. Says(k - 1, "online")'
          BY <2>2, <4>1 DEF Says
        <4> QED
          BY <4>1, <4>2
      <3>5. ASSUME main # "stopping", link, ~aborted,
                   \E k \in 1 .. Len(outgoing) : Says(k, "online")
            PROVE  (\E k \in 1 .. Len(outgoing) : Says(k, "online"))'
        BY <3>4, <3>5
      <3>6. ASSUME main # "stopping", link, ~aborted,
                   ~ \E k \in 1 .. Len(outgoing) : Says(k, "online")
            PROVE  \/ resubscribing'.on
                   \/ \E k \in 1 .. Len(queue') : queue'[k].kind = "online"
                   \/ \E a \in Agents : job'[a].kind = "online"
                   \/ retained'.availability = "online"
        BY <2>1, <3>3, <3>6 DEF OnlineInv
      <3> QED
        BY <2>1, <2>3, <2>5, <3>5, <3>6 DEF OnlineInv
    <2>6. CASE main = "stopping"
      BY <2>1, <2>6 DEF OnlineInv
    <2> QED
      BY <2>4, <2>5, <2>6
  <1>6. CASE LinkLost \/ WillFires
    BY <1>6 DEF LinkLost, WillFires, OnlineInv, Says, clientVars
  <1>7. ASSUME NEW a \in Agents, AnnounceOnline(a)
        PROVE  OnlineInv'
    <2>1. CASE connected
      <3>1. /\ outgoing \in Seq(Message)
            /\ outgoing' = Append(outgoing, [topic |-> "availability", value |-> "online",
                                             by |-> "direct"])
            /\ UNCHANGED main
        BY <1>7, <2>1 DEF AnnounceOnline, Publish, TypeOK
      <3>2. /\ Len(outgoing') = Len(outgoing) + 1 /\ Len(outgoing) \in Nat
            /\ \A k \in 1 .. Len(outgoing) : outgoing'[k] = outgoing[k]
            /\ outgoing'[Len(outgoing')].topic = "availability"
            /\ outgoing'[Len(outgoing')].value = "online"
        BY <3>1
      <3>3. (\E k \in 1 .. Len(outgoing) : Says(k, "online"))'
        BY <3>2 DEF Says
      <3>4. main # "stopping" => \A k \in 1 .. Len(outgoing') : ~Says(k, "offline")'
        BY <3>2 DEF OnlineInv, Says
      <3> QED
        BY <3>1, <3>3, <3>4 DEF OnlineInv
    <2>2. CASE ~connected
      BY <1>7, <2>2 DEF AnnounceOnline, Publish, OnlineInv, Says, TypeOK, brokerVars
    <2> QED
      BY <2>1, <2>2
  <1>8. ASSUME NEW a \in Agents, AnnounceControl(a)
        PROVE  OnlineInv'
    <2>1. job[a].kind = "control" /\ \A b \in Agents : b # a => job'[b] = job[b]
      BY <1>8 DEF AnnounceControl, TypeOK
    <2>2. CASE connected
      <3>1. /\ outgoing \in Seq(Message)
            /\ outgoing' = Append(outgoing, [topic |-> "control", value |-> job[a].number,
                                             by |-> "direct"])
            /\ UNCHANGED <<main, link, aborted, resubscribing, queue, retained>>
        BY <1>8, <2>2 DEF AnnounceControl, Publish, TypeOK, brokerVars
      <3>2. /\ Len(outgoing') = Len(outgoing) + 1 /\ Len(outgoing) \in Nat
            /\ \A k \in 1 .. Len(outgoing) : outgoing'[k] = outgoing[k]
            /\ outgoing'[Len(outgoing')].topic = "control"
        BY <3>1
      <3> QED
        BY <2>1, <3>1, <3>2 DEF OnlineInv, Says
    <2>3. CASE ~connected
      BY <1>8, <2>3 DEF AnnounceControl, Publish, OnlineInv, Says, TypeOK, brokerVars
    <2> QED
      BY <2>2, <2>3
  <1>9. ASSUME NEW a \in Agents,
               ReadControl(a) \/ ReadControlFails(a) \/ HandleCommand(a) \/ RejectCommand(a)
        PROVE  OnlineInv'
    <2>1. /\ job[a].kind # "online" /\ \A b \in Agents : b # a => job'[b] = job[b]
          /\ UNCHANGED <<main, link, aborted, resubscribing, queue, outgoing, retained>>
      BY <1>9 DEF ReadControl, ReadControlFails, HandleCommand, RejectCommand, TypeOK, brokerVars
    <2> QED
      BY <2>1 DEF OnlineInv, Says
  <1>10. ASSUME NEW a \in Threads, TakeTask(a)
         PROVE  OnlineInv'
    <2>1. /\ queue \in Seq(Job) /\ queue # <<>> /\ queue' = Tail(queue) /\ a \in Agents
          /\ job'[a] = queue[1] /\ job[a] = Idle
          /\ \A b \in Agents : b # a => job'[b] = job[b]
          /\ UNCHANGED <<main, link, aborted, resubscribing, outgoing, retained>>
      BY <1>10, Jobs DEF TakeTask, TypeOK, brokerVars
    <2>2. /\ Len(queue') = Len(queue) - 1 /\ Len(queue) \in Nat
          /\ \A k \in 1 .. Len(queue') : queue'[k] = queue[k + 1]
      BY <2>1
    <2>3. (\E k \in 1 .. Len(queue) : queue[k].kind = "online") =>
            \/ \E k \in 1 .. Len(queue') : queue'[k].kind = "online"
            \/ job'[a].kind = "online"
      <3> SUFFICES ASSUME NEW k \in 1 .. Len(queue), queue[k].kind = "online", k # 1
                   PROVE  \E j \in 1 .. Len(queue') : queue'[j].kind = "online"
        BY <2>1
      <3>1. k - 1 \in 1 .. Len(queue') /\ queue'[k - 1] = queue[k]
        BY <2>2
      <3> QED
        BY <3>1
    <2>4. job[a].kind # "online"
      BY <2>1 DEF Idle
    <2> QED
      BY <2>1, <2>3, <2>4 DEF OnlineInv, Says
  <1>11. CASE \E c \in Commands : HomeAssistantSends(c)
    <2>1. /\ UNCHANGED <<main, link, resubscribing, job, outgoing, retained>>
          /\ queue' \in {queue, Append(queue, Handling(sent'))}
          /\ aborted' = aborted \/ aborted' = TRUE
      BY <1>11 DEF HomeAssistantSends, brokerVars
    <2>2. queue \in Seq(Job) /\ Handling(sent') \in Job
      BY Jobs DEF TypeOK
    <2>3. (\E k \in 1 .. Len(queue) : queue[k].kind = "online") =>
            \E k \in 1 .. Len(queue') : queue'[k].kind = "online"
      BY <2>1, <2>2
    <2> QED
      BY <2>1, <2>3 DEF OnlineInv, Says
  <1>12. CASE \/ StartProcess \/ Connected \/ Started \/ ClaimBatch \/ RowAcknowledged
              \/ RowTimesOut \/ EndBatch \/ RecordingFails
    BY <1>12 DEF StartProcess, Connected, Started, ClaimBatch, RowAcknowledged, RowTimesOut,
       EndBatch, RecordingFails, BatchDone, OnlineInv, Says, TypeOK, clientVars, brokerVars
  <1>13. CASE Announce
    BY <1>13, Jobs DEF Announce, OnlineInv, Says, Announcement, TypeOK, brokerVars
  <1>14. ASSUME NEW n \in Versions, PublishRow(n)
         PROVE  OnlineInv'
    <2>1. /\ outgoing \in Seq(Message) /\ main = "publishing"
          /\ outgoing' = Append(outgoing, [topic |-> "control", value |-> n, by |-> "outbox"])
          /\ UNCHANGED <<link, aborted, resubscribing, queue, job, retained>>
      BY <1>14 DEF PublishRow, TypeOK, clientVars, brokerVars
    <2>2. /\ Len(outgoing') = Len(outgoing) + 1 /\ Len(outgoing) \in Nat
          /\ \A k \in 1 .. Len(outgoing) : outgoing'[k] = outgoing[k]
          /\ outgoing'[Len(outgoing')].topic = "control"
      BY <2>1
    <2> QED
      BY <2>1, <2>2 DEF OnlineInv, Says
  <1>15. CASE Stop
    BY <1>15 DEF Stop, OnlineInv
  <1>16. CASE Disconnect \/ Crash
    BY <1>16 DEF Disconnect, Crash, ClientGone, OnlineInv
  <1>17. CASE UNCHANGED <<main, link, aborted, resubscribing, queue, job, outgoing, retained>>
    BY <1>17 DEF OnlineInv, Says
  <1> QED
    BY <1>1, <1>2, <1>3, <1>4, <1>5, <1>6, <1>7, <1>8, <1>9, <1>10, <1>11, <1>12, <1>13,
       <1>14, <1>15, <1>16, <1>17
       DEF Next, LibraryStep, MainStep, JobStep, EnterHandler, Subscribe, PolicyEndsOverride,
           vars, clientVars, brokerVars

\* Once nothing is under way, availability is online, unless a callback raised.
THEOREM OnlineWhenSettled == Spec => []SettledMeansOnline
  <1>1. Init => OnlineInv
    BY DEF Init, OnlineInv
  <1>2. TypeOK /\ TypeOK' /\ OnlineInv /\ [Next]_vars => OnlineInv'
    BY OnlineStep
  <1>3. TypeOK /\ OnlineInv => SettledMeansOnline
    BY DEF TypeOK, OnlineInv, SettledMeansOnline, Settled, Idle
  <1> QED
    BY <1>1, <1>2, <1>3, TypeCorrect, PTL DEF Spec

\* Unless a republication fell into stop(): without a session availability is
\* offline, and while stop() waits every "online" on its way is followed by an
\* "offline".
OfflineInv ==
  "online" \notin late =>
    /\ ~session => retained.availability = "offline"
    /\ main = "stopping" /\ link =>
         /\ \A k \in 1 .. Len(outgoing) : Says(k, "online") =>
              \E j \in 1 .. Len(outgoing) : j > k /\ Says(j, "offline")
         /\ \/ \E k \in 1 .. Len(outgoing) : Says(k, "offline")
            \/ retained.availability = "offline"

LEMMA OfflineStep ==
  ASSUME TypeOK, OfflineInv, [Next]_vars
  PROVE  OfflineInv'
  <1>1. CASE Connect
    BY <1>1 DEF Connect, OfflineInv
  <1>2. CASE Deliver
    <2>1. /\ outgoing \in Seq(Message) /\ outgoing # <<>> /\ outgoing' = Tail(outgoing)
          /\ retained' = Received(outgoing[1]) /\ session /\ link
          /\ UNCHANGED <<main, link, session, late>>
      BY <1>2 DEF Deliver, TypeOK
    <2>2. /\ Len(outgoing') = Len(outgoing) - 1 /\ Len(outgoing) \in Nat
          /\ \A k \in 1 .. Len(outgoing') : outgoing'[k] = outgoing[k + 1]
      BY <2>1
    <2> SUFFICES ASSUME "online" \notin late, main = "stopping"
                 PROVE  /\ \A k \in 1 .. Len(outgoing') : Says(k, "online")' =>
                             \E j \in 1 .. Len(outgoing') : j > k /\ Says(j, "offline")'
                        /\ \/ \E k \in 1 .. Len(outgoing') : Says(k, "offline")'
                           \/ retained'.availability = "offline"
      BY <2>1 DEF OfflineInv, Says
    <2>3. \A k \in 1 .. Len(outgoing) : k # 1 =>
            /\ k - 1 \in 1 .. Len(outgoing')
            /\ Says(k, "online") <=> Says(k - 1, "online")'
            /\ Says(k, "offline") <=> Says(k - 1, "offline")'
      BY <2>2 DEF Says
    <2>4. \A k \in 1 .. Len(outgoing') : Says(k, "online")' =>
            \E j \in 1 .. Len(outgoing') : j > k /\ Says(j, "offline")'
      <3> SUFFICES ASSUME NEW k \in 1 .. Len(outgoing'), Says(k, "online")'
                   PROVE  \E j \in 1 .. Len(outgoing') : j > k /\ Says(j, "offline")'
        OBVIOUS
      <3>1. k + 1 \in 1 .. Len(outgoing) /\ Says(k + 1, "online")
        BY <2>2 DEF Says
      <3>2. PICK j \in 1 .. Len(outgoing) : j > k + 1 /\ Says(j, "offline")
        BY <2>1, <3>1 DEF OfflineInv
      <3>3. j - 1 \in 1 .. Len(outgoing') /\ j - 1 > k /\ Says(j - 1, "offline")'
        BY <2>3, <3>2
      <3> QED
        BY <3>3
    <2>5. CASE Says(1, "offline")
      BY <2>1, <2>4, <2>5 DEF Says, Received, TypeOK
    <2>6. CASE Says(1, "online")
      <3>1. 1 \in 1 .. Len(outgoing)
        BY <2>1
      <3>2. PICK j \in 1 .. Len(outgoing) : j > 1 /\ Says(j, "offline")
        BY <2>1, <2>6, <3>1 DEF OfflineInv
      <3>3. j - 1 \in 1 .. Len(outgoing') /\ Says(j - 1, "offline")'
        BY <2>3, <3>2
      <3> QED
        BY <2>4, <3>3
    <2>7. CASE ~Says(1, "offline") /\ ~Says(1, "online")
      <3>1. outgoing[1] \in Message
        BY <2>1
      <3>2. outgoing[1].topic = "control"
        BY <2>7, <3>1 DEF Says, Message
      <3>3. retained'.availability = retained.availability
        BY <2>1, <3>2 DEF Received, TypeOK
      <3>4. (\E k \in 1 .. Len(outgoing) : Says(k, "offline")) =>
              \E j \in 1 .. Len(outgoing') : Says(j, "offline")'
        BY <2>3, <2>7
      <3> QED
        BY <2>1, <2>4, <3>3, <3>4 DEF OfflineInv
    <2> QED
      BY <2>5, <2>6, <2>7
  <1>3. CASE LinkLost \/ WillFires
    BY <1>3 DEF LinkLost, WillFires, OfflineInv, Says, TypeOK
  <1>4. ASSUME NEW a \in Agents, AnnounceOnline(a)
        PROVE  OfflineInv'
    <2>1. CASE connected
      BY <1>4, <2>1 DEF AnnounceOnline, OfflineInv, Says, brokerVars
    <2>2. CASE ~connected
      BY <1>4, <2>2 DEF AnnounceOnline, Publish, OfflineInv, Says, TypeOK, brokerVars
    <2> QED
      BY <2>1, <2>2
  <1>5. ASSUME NEW topic, NEW value, NEW by,
               [topic |-> topic, value |-> value, by |-> by] \in Message,
               topic = "control", Publish(topic, value, by), UNCHANGED <<main, brokerVars>>,
               "online" \in late => "online" \in late'
        PROVE  OfflineInv'
    <2>1. CASE connected
      <3>1. /\ outgoing \in Seq(Message)
            /\ outgoing' = Append(outgoing, [topic |-> topic, value |-> value, by |-> by])
        BY <1>5, <2>1 DEF Publish, TypeOK
      <3>2. /\ Len(outgoing') = Len(outgoing) + 1 /\ Len(outgoing) \in Nat
            /\ \A k \in 1 .. Len(outgoing) : outgoing'[k] = outgoing[k]
            /\ outgoing'[Len(outgoing')].topic = "control"
        BY <1>5, <3>1
      <3> QED
        BY <1>5, <3>2 DEF OfflineInv, Says, brokerVars
    <2>2. CASE ~connected
      BY <1>5, <2>2 DEF Publish, OfflineInv, Says, brokerVars
    <2> QED
      BY <2>1, <2>2
  <1>6. ASSUME NEW a \in Agents, AnnounceControl(a)
        PROVE  OfflineInv'
    <2>1. [topic |-> "control", value |-> job[a].number, by |-> "direct"] \in Message
      BY DEF TypeOK, Job, Message
    <2>2. /\ Publish("control", job[a].number, "direct")
          /\ UNCHANGED <<main, brokerVars>> /\ ("online" \in late => "online" \in late')
      BY <1>6 DEF AnnounceControl
    <2> QED
      BY <1>5, <2>1, <2>2
  <1>7. CASE \E n \in Versions : PublishRow(n)
    BY <1>7 DEF PublishRow, OfflineInv, brokerVars
  <1>8. CASE Stop
    <2>1. CASE link
      <3>1. /\ outgoing \in Seq(Message)
            /\ outgoing' = Append(outgoing, [topic |-> "availability", value |-> "offline",
                                             by |-> "direct"])
        BY <1>8, <2>1 DEF Stop, Publish, TypeOK
      <3>2. /\ Len(outgoing') = Len(outgoing) + 1 /\ Len(outgoing) \in Nat
            /\ outgoing'[Len(outgoing')].topic = "availability"
            /\ outgoing'[Len(outgoing')].value = "offline"
        BY <3>1
      <3> QED
        BY <1>8, <3>2 DEF Stop, OfflineInv, Says, brokerVars
    <2>2. CASE ~link
      BY <1>8, <2>2 DEF Stop, OfflineInv, brokerVars
    <2> QED
      BY <2>1, <2>2
  <1>9. CASE Disconnect
    <2>1. /\ main = "stopping" /\ main' = "down"
          /\ link => outgoing = <<>>
          /\ session' = (session /\ ~link) /\ UNCHANGED <<retained, late>>
      BY <1>9 DEF Disconnect, ClientGone
    <2>2. link /\ "online" \notin late => retained.availability = "offline"
      <3> SUFFICES ASSUME link, "online" \notin late
                   PROVE  retained.availability = "offline"
        OBVIOUS
      <3>1. ~ \E k \in 1 .. Len(outgoing) : Says(k, "offline")
        BY <2>1
      <3> QED
        BY <2>1, <3>1 DEF OfflineInv
    <2> QED
      BY <2>1, <2>2 DEF OfflineInv
  <1>10. CASE Crash
    BY <1>10 DEF Crash, ClientGone, OfflineInv
  <1>11. CASE /\ UNCHANGED <<session, retained, late>>
              /\ main' # "stopping"
    BY <1>11 DEF OfflineInv
  <1>12. CASE UNCHANGED <<main, link, session, outgoing, retained, late>>
    BY <1>12 DEF OfflineInv, Says
  <1>13. CASE \/ StartProcess \/ Connected \/ Announce \/ Started \/ ClaimBatch
              \/ RowAcknowledged \/ RowTimesOut \/ EndBatch \/ RecordingFails
    BY <1>13, <1>11 DEF StartProcess, Connected, Announce, Started, ClaimBatch,
       RowAcknowledged, RowTimesOut, EndBatch, RecordingFails, brokerVars
  <1>14. CASE \/ _on_connect \/ _on_connect_Aborts \/ _on_disconnect \/ Subscribe
              \/ PolicyEndsOverride \/ \E c \in Commands : EnterHandler(c)
              \/ \E c \in Commands : HomeAssistantSends(c)
              \/ \E a \in Threads : TakeTask(a)
              \/ \E a \in Agents : ReadControl(a) \/ ReadControlFails(a) \/ HandleCommand(a)
                                   \/ RejectCommand(a)
              \/ UNCHANGED vars
    BY <1>14, <1>12 DEF _on_connect, _on_connect_Aborts, _on_disconnect, Subscribe,
       PolicyEndsOverride, EnterHandler, HomeAssistantSends, TakeTask, ReadControl,
       ReadControlFails, HandleCommand, RejectCommand, vars, clientVars, brokerVars
  <1> QED
    BY <1>1, <1>2, <1>3, <1>4, <1>6, <1>7, <1>8, <1>9, <1>10, <1>13, <1>14
       DEF Next, LibraryStep, MainStep, JobStep

\* Once the process is gone and the broker knows, availability is offline,
\* unless a republication fell into stop().
THEOREM OfflineAfterStop == Spec => []OfflineUnlessOvertaken
  <1>1. Init => OfflineInv
    BY DEF Init, OfflineInv
  <1>2. TypeOK /\ OfflineInv /\ [Next]_vars => OfflineInv'
    BY OfflineStep
  <1>3. OfflineInv => OfflineUnlessOvertaken
    BY DEF OfflineInv, OfflineUnlessOvertaken, StoppedMeansOffline
  <1> QED
    BY <1>1, <1>2, <1>3, TypeCorrect, PTL DEF Spec

-----------------------------------------------------------------------------
(* The order of commands.                                                  *)

IsCommand(j) == j.kind = "command"

\* What is queued was sent later than what is handled, in the order of the queue.
OrderInv ==
  /\ handled <= sent
  /\ \A a \in Agents : IsCommand(job[a]) =>
       a \in Threads /\ handled <= job[a].number /\ job[a].number <= sent
  /\ \A k \in 1 .. Len(queue) : IsCommand(queue[k]) =>
       /\ handled <= queue[k].number /\ queue[k].number <= sent
       /\ \A a \in Agents : IsCommand(job[a]) => job[a].number <= queue[k].number
  /\ \A j, k \in 1 .. Len(queue) :
       j < k /\ IsCommand(queue[j]) /\ IsCommand(queue[k]) =>
         queue[j].number <= queue[k].number

OneThread == \A t, u \in Threads : t = u

LEMMA OrderStep ==
  ASSUME TypeOK, OneThread, OrderInv, [Next]_vars
  PROVE  OrderInv' /\ handled' >= handled
  <1>0. /\ handled \in Nat /\ sent \in Nat /\ queue \in Seq(Job) /\ job \in [Agents -> Job]
        /\ \A a \in Agents : job[a].number \in Nat
        /\ \A k \in 1 .. Len(queue) : queue[k].number \in Nat
    <2>1. handled \in Nat /\ sent \in Nat /\ queue \in Seq(Job) /\ job \in [Agents -> Job]
      BY DEF TypeOK
    <2>2. \A k \in 1 .. Len(queue) : queue[k] \in Job
      BY <2>1
    <2> QED
      BY <2>1, <2>2 DEF Job
  <1>1. CASE _on_connect
    <2>1. /\ queue' = Append(queue, Announcement) /\ UNCHANGED <<handled, sent, job>>
      BY <1>1 DEF _on_connect, dbVars
    <2>2. /\ Len(queue') = Len(queue) + 1 /\ Len(queue) \in Nat
          /\ \A k \in 1 .. Len(queue) : queue'[k] = queue[k]
          /\ ~IsCommand(queue'[Len(queue')])
      BY <1>0, <2>1, Jobs DEF IsCommand, Announcement
    <2>3. \A k \in 1 .. Len(queue') : IsCommand(queue'[k]) =>
            k \in 1 .. Len(queue) /\ queue'[k] = queue[k]
      BY <2>2
    <2> QED
      BY <1>0, <2>1, <2>3 DEF OrderInv, IsCommand
  <1>2. ASSUME NEW c \in Commands, HomeAssistantSends(c)
        PROVE  OrderInv' /\ handled' >= handled
    <2>1. /\ sent' = sent + 1 /\ UNCHANGED <<handled, job>>
          /\ queue' \in {queue, Append(queue, Handling(sent'))}
      BY <1>2 DEF HomeAssistantSends, dbVars
    <2>2. CASE queue' = queue
      BY <1>0, <2>1, <2>2 DEF OrderInv, IsCommand
    <2>3. CASE queue' = Append(queue, Handling(sent'))
      <3>1. /\ Len(queue') = Len(queue) + 1 /\ Len(queue) \in Nat
            /\ \A k \in 1 .. Len(queue) : queue'[k] = queue[k]
            /\ queue'[Len(queue')].number = sent + 1
        BY <1>0, <2>1, <2>3, Jobs DEF Handling
      <3>2. \A k \in 1 .. Len(queue') :
              \/ k \in 1 .. Len(queue) /\ queue'[k] = queue[k]
              \/ k = Len(queue) + 1 /\ queue'[k].number = sent + 1
        BY <3>1
      <3>3. \A a \in Agents : IsCommand(job[a]) => job[a].number <= sent
        BY DEF OrderInv
      <3>4. \A k \in 1 .. Len(queue) : IsCommand(queue[k]) => queue[k].number <= sent
        BY DEF OrderInv
      <3>5. \A k \in 1 .. Len(queue') : IsCommand(queue'[k]) =>
              /\ handled <= queue'[k].number /\ queue'[k].number <= sent + 1
              /\ \A a \in Agents : IsCommand(job[a]) => job[a].number <= queue'[k].number
        BY <1>0, <3>2, <3>3 DEF OrderInv
      <3>6. \A j, k \in 1 .. Len(queue') :
              j < k /\ IsCommand(queue'[j]) /\ IsCommand(queue'[k]) =>
                queue'[j].number <= queue'[k].number
        <4> SUFFICES ASSUME NEW j \in 1 .. Len(queue'), NEW k \in 1 .. Len(queue'), j < k,
                            IsCommand(queue'[j]), IsCommand(queue'[k])
                     PROVE  queue'[j].number <= queue'[k].number
          OBVIOUS
        <4>1. j \in 1 .. Len(queue) /\ queue'[j] = queue[j]
          BY <3>1, <3>2
        <4>2. CASE k \in 1 .. Len(queue) /\ queue'[k] = queue[k]
          BY <4>1, <4>2 DEF OrderInv
        <4>3. CASE queue'[k].number = sent + 1
          BY <1>0, <3>4, <4>1, <4>3
        <4> QED
          BY <3>2, <4>2, <4>3
      <3> QED
        BY <1>0, <2>1, <3>5, <3>6 DEF OrderInv
    <2> QED
      BY <2>1, <2>2, <2>3
  <1>3. ASSUME NEW a \in Threads, TakeTask(a)
        PROVE  OrderInv' /\ handled' >= handled
    <2>1. /\ queue # <<>> /\ queue' = Tail(queue) /\ a \in Agents /\ job'[a] = queue[1]
          /\ \A b \in Agents : b # a => job'[b] = job[b]
          /\ UNCHANGED <<handled, sent>>
      BY <1>0, <1>3, Jobs DEF TakeTask, dbVars
    <2>2. /\ Len(queue') = Len(queue) - 1 /\ Len(queue) \in Nat /\ 1 \in 1 .. Len(queue)
          /\ \A k \in 1 .. Len(queue') :
               queue'[k] = queue[k + 1] /\ k + 1 \in 1 .. Len(queue)
      BY <1>0, <2>1
    <2>3. \A b \in Agents : IsCommand(job'[b]) =>
            b \in Threads /\ handled <= job'[b].number /\ job'[b].number <= sent
      BY <2>1, <2>2 DEF OrderInv
    <2>4. \A k \in 1 .. Len(queue') : IsCommand(queue'[k]) =>
            /\ handled <= queue'[k].number /\ queue'[k].number <= sent
            /\ \A b \in Agents : IsCommand(job'[b]) => job'[b].number <= queue'[k].number
      BY <2>1, <2>2 DEF OrderInv
    <2>5. \A j, k \in 1 .. Len(queue') :
            j < k /\ IsCommand(queue'[j]) /\ IsCommand(queue'[k]) =>
              queue'[j].number <= queue'[k].number
      BY <2>2 DEF OrderInv
    <2>6. handled' <= sent' /\ handled' >= handled
      BY <1>0, <2>1 DEF OrderInv
    <2> QED
      BY <2>1, <2>3, <2>4, <2>5, <2>6 DEF OrderInv
  <1>4. ASSUME NEW a \in Agents, HandleCommand(a) \/ RejectCommand(a)
        PROVE  OrderInv' /\ handled' >= handled
    <2>1. /\ IsCommand(job[a]) /\ handled' = job[a].number /\ ~IsCommand(job'[a])
          /\ \A b \in Agents : b # a => job'[b] = job[b]
          /\ UNCHANGED <<queue, sent>>
      BY <1>0, <1>4 DEF HandleCommand, RejectCommand, IsCommand, Idle
    <2>2. \A b \in Agents : ~IsCommand(job'[b])
      BY <2>1 DEF OrderInv, OneThread
    <2> QED
      BY <1>0, <2>1, <2>2 DEF OrderInv, IsCommand
  <1>5. ASSUME UNCHANGED <<handled, sent>>, queue' = queue \/ queue' = <<>>,
               \A b \in Agents : job'[b] = job[b] \/ ~IsCommand(job'[b])
        PROVE  OrderInv' /\ handled' >= handled
    <2>1. CASE queue' = queue
      BY <1>0, <1>5, <2>1 DEF OrderInv, IsCommand
    <2>2. CASE queue' = <<>>
      BY <1>0, <1>5, <2>2 DEF OrderInv, IsCommand
    <2> QED
      BY <1>5, <2>1, <2>2
  <1>6. ASSUME NEW a \in Agents,
               AnnounceOnline(a) \/ ReadControl(a) \/ ReadControlFails(a) \/ AnnounceControl(a)
        PROVE  OrderInv' /\ handled' >= handled
    <2>1. UNCHANGED <<handled, sent, queue>>
      BY <1>6 DEF AnnounceOnline, ReadControl, ReadControlFails, AnnounceControl, dbVars
    <2>2. \A b \in Agents : job'[b] = job[b] \/ ~IsCommand(job'[b])
      <3>1. \A b \in Agents : b # a => job'[b] = job[b]
        BY <1>0, <1>6 DEF AnnounceOnline, ReadControl, ReadControlFails, AnnounceControl
      <3>2. job'[a].kind \in {"read", "control", "none"}
        <4>1. CASE AnnounceOnline(a)
          BY <1>0, <4>1 DEF AnnounceOnline, Job
        <4>2. CASE ReadControl(a) \/ ReadControlFails(a) \/ AnnounceControl(a)
          BY <1>0, <4>2 DEF ReadControl, ReadControlFails, AnnounceControl, Idle
        <4> QED
          BY <1>6, <4>1, <4>2
      <3> QED
        BY <3>1, <3>2 DEF IsCommand
    <2> QED
      BY <1>5, <2>1, <2>2
  <1>7. CASE Announce \/ Crash \/ Disconnect
    <2>1. \A b \in Agents : job'[b] = job[b] \/ ~IsCommand(job'[b])
      BY <1>0, <1>7 DEF Announce, Crash, Disconnect, IsCommand, Idle, Announcement
    <2> QED
      BY <1>5, <1>7, <2>1 DEF Announce, Crash, Disconnect, ClientGone, dbVars
  <1>8. CASE UNCHANGED <<handled, sent, queue, job>>
    BY <1>5, <1>8
  <1>9. CASE \/ Connect \/ _on_connect_Aborts \/ _on_disconnect \/ Deliver \/ LinkLost
             \/ WillFires \/ StartProcess \/ Connected \/ Subscribe \/ Started \/ ClaimBatch
             \/ RowAcknowledged \/ RowTimesOut \/ EndBatch \/ RecordingFails \/ Stop
             \/ PolicyEndsOverride \/ UNCHANGED vars
             \/ (\E n \in Versions : PublishRow(n)) \/ \E c \in Commands : EnterHandler(c)
    BY <1>8, <1>9 DEF Connect, _on_connect_Aborts, _on_disconnect, Deliver, LinkLost,
       WillFires, StartProcess, Connected, Subscribe, Started, ClaimBatch, RowAcknowledged,
       RowTimesOut, EndBatch, RecordingFails, Stop, PolicyEndsOverride, PublishRow,
       EnterHandler, vars, clientVars, dbVars
  <1> QED
    BY <1>1, <1>2, <1>3, <1>4, <1>6, <1>7, <1>9
       DEF Next, LibraryStep, MainStep, JobStep, _on_connect, dbVars

\* With one executor thread, as by default, commands are handled in the order
\* in which they were sent.
THEOREM CommandsOrdered ==
  ASSUME OneThread
  PROVE  Spec => CommandsInOrder
  <1>1. Init => OrderInv
    BY DEF Init, OrderInv, IsCommand, Idle
  <1>2. TypeOK /\ OrderInv /\ [Next]_vars => OrderInv' /\ [handled' >= handled]_vars
    BY OrderStep
  <1> QED
    BY <1>1, <1>2, TypeCorrect, PTL DEF Spec, CommandsInOrder

-----------------------------------------------------------------------------
(* The control state.                                                      *)

Shows(k) == outgoing[k].topic = "control"
FromOutbox(k) == outgoing[k].by = "outbox"

\* The rows.  The database shows the newest one committed; what was published
\* or is being published is not newer than the newest one handed over.
Given == {"awaited", "acked", "published"}
RowsInv ==
  /\ version = 0 \/ (version \in Versions /\ rows[version] # "absent")
  /\ handed = 0 \/ handed \in Versions
  /\ handed <= version
  /\ \A n \in Versions : /\ rows[n] # "absent" => n <= version
                         /\ rows[n] \in Given => n <= handed

\* No control state in the process or at the broker is newer than the database.
BoundedInv ==
  /\ retained.control <= version
  /\ \A a \in Agents : job[a].kind = "control" => job[a].number <= version
  /\ \A k \in 1 .. Len(outgoing) : Shows(k) => outgoing[k].value <= version

\* Unless something older was published last, the newest row handed over is at
\* the broker or on its way there, with nothing older behind it: when it is
\* acknowledged nothing older is left, and while it is awaited what is older is
\* followed by a copy of it.
FreshInv ==
  "control" \notin late =>
    /\ handed \in Versions /\ rows[handed] \in {"acked", "published"} =>
         /\ retained.control >= handed
         /\ \A k \in 1 .. Len(outgoing) : Shows(k) => outgoing[k].value >= handed
    /\ main = "awaiting" =>
         /\ handed \in Versions /\ rows[handed] = "awaited"
         /\ retained.control >= handed \/ Unsent
         /\ \A k \in 1 .. Len(outgoing) : Shows(k) =>
              \/ outgoing[k].value >= handed
              \/ \E j \in 1 .. Len(outgoing) : j > k /\ FromOutbox(j)

ControlInv == BoundedInv /\ FreshInv

LEMMA ControlTypes ==
  ASSUME TypeOK
  PROVE  /\ version \in Nat /\ handed \in Nat /\ retained.control \in Nat
         /\ outgoing \in Seq(Message) /\ job \in [Agents -> Job]
         /\ \A a \in Agents : job[a].number \in Nat
         /\ \A k \in 1 .. Len(outgoing) :
              /\ outgoing[k] \in Message
              /\ Shows(k) => outgoing[k].value \in Nat
              /\ FromOutbox(k) => Shows(k)
  <1>1. /\ version \in Nat /\ handed \in Nat /\ retained.control \in Nat
        /\ outgoing \in Seq(Message) /\ job \in [Agents -> Job]
    BY DEF TypeOK
  <1>2. \A k \in 1 .. Len(outgoing) : outgoing[k] \in Message
    BY <1>1
  <1>3. \A m \in Message : /\ m.topic = "control" => m.value \in Nat
                           /\ m.by = "outbox" => m.topic = "control"
    BY DEF Message
  <1> QED
    BY <1>1, <1>2, <1>3 DEF Job, Shows, FromOutbox

\* A message that is no control state is published, or nothing is.
LEMMA OtherPublished ==
  ASSUME TypeOK, ControlInv, NEW value, Publish("availability", value, "direct"),
         main' # "awaiting", main # "awaiting" \/ UNCHANGED main,
         UNCHANGED <<version, rows, handed, retained>>,
         \A a \in Agents : job'[a].kind = "control" => job'[a] = job[a],
         "control" \in late => "control" \in late'
  PROVE  ControlInv'
  <1>1. \A k \in 1 .. Len(outgoing') : Shows(k)' =>
          k \in 1 .. Len(outgoing) /\ outgoing'[k] = outgoing[k]
    <2>1. CASE connected
      <3>1. /\ outgoing' = Append(outgoing, [topic |-> "availability", value |-> value,
                                             by |-> "direct"])
            /\ outgoing \in Seq(Message)
        BY <2>1, ControlTypes DEF Publish
      <3>2. /\ Len(outgoing') = Len(outgoing) + 1 /\ Len(outgoing) \in Nat
            /\ \A k \in 1 .. Len(outgoing) : outgoing'[k] = outgoing[k]
            /\ outgoing'[Len(outgoing')].topic = "availability"
        BY <3>1
      <3> QED
        BY <3>2 DEF Shows
    <2>2. CASE ~connected
      BY <2>2 DEF Publish
    <2> QED
      BY <2>1, <2>2
  <1> QED
    BY <1>1 DEF ControlInv, BoundedInv, FreshInv, Shows

\* Only the republication and command handlers are submitted.
QueuedInv == \A k \in 1 .. Len(queue) : queue[k].kind # "control"

LEMMA QueuedStep ==
  ASSUME TypeOK, QueuedInv, [Next]_vars
  PROVE  QueuedInv'
  <1>1. CASE \E a \in Threads : TakeTask(a)
    <2>1. queue' = Tail(queue) /\ queue # <<>> /\ queue \in Seq(Job)
      BY <1>1 DEF TakeTask, TypeOK
    <2>2. /\ Len(queue') = Len(queue) - 1 /\ Len(queue) \in Nat
          /\ \A k \in 1 .. Len(queue') :
               queue'[k] = queue[k + 1] /\ k + 1 \in 1 .. Len(queue)
      BY <2>1
    <2> QED
      BY <2>2 DEF QueuedInv
  <1>2. ASSUME NEW j \in Job, j.kind # "control", queue' = Append(queue, j)
        PROVE  QueuedInv'
    <2>1. queue \in Seq(Job)
      BY DEF TypeOK
    <2>2. /\ Len(queue') = Len(queue) + 1 /\ Len(queue) \in Nat
          /\ \A k \in 1 .. Len(queue) : queue'[k] = queue[k]
          /\ queue'[Len(queue')] = j
      BY <1>2, <2>1
    <2> QED
      BY <1>2, <2>2 DEF QueuedInv
  <1>3. CASE _on_connect
    BY <1>2, <1>3, Jobs DEF _on_connect, Announcement
  <1>4. CASE queue' = queue \/ queue' = <<>>
    BY <1>4 DEF QueuedInv
  <1>5. CASE \E c \in Commands : HomeAssistantSends(c)
    <2>1. sent' \in Nat /\ queue' \in {queue, Append(queue, Handling(sent'))}
      BY <1>5 DEF HomeAssistantSends, TypeOK
    <2>2. Handling(sent') \in Job /\ Handling(sent').kind # "control"
      BY <2>1, Jobs DEF Handling
    <2> QED
      BY <1>2, <1>4, <2>1, <2>2
  <1>6. CASE Disconnect \/ Crash
    BY <1>4, <1>6 DEF Disconnect, Crash, ClientGone
  <1> QED
    BY <1>1, <1>3, <1>4, <1>5, <1>6
       DEF Next, LibraryStep, MainStep, JobStep, Connect, _on_connect_Aborts, _on_disconnect,
           Deliver, LinkLost, WillFires, AnnounceOnline, ReadControl, ReadControlFails,
           AnnounceControl, HandleCommand, RejectCommand, StartProcess, Connected,
           EnterHandler, Subscribe, Announce, Started, PolicyEndsOverride, ClaimBatch,
           PublishRow, RowAcknowledged, RowTimesOut, EndBatch, RecordingFails, Stop, vars,
           clientVars

\* No row becomes acknowledged or published, and one that is awaited stays so
\* while the batch waits.
KeepsGiven ==
  \A n \in Versions :
    /\ rows'[n] \in {"acked", "published"} => rows[n] \in {"acked", "published"}
    /\ rows[n] = "awaited" => rows'[n] = "awaited" \/ main' # "awaiting"

LEMMA RowsStep ==
  ASSUME TypeOK, RowsInv, [Next]_vars
  PROVE  RowsInv' /\ version <= version'
  <1>0. /\ version \in Nat /\ handed \in Nat /\ Versions \subseteq Nat
        /\ rows \in [Versions -> RowStatus]
    BY RowsType DEF TypeOK
  <1>1. ASSUME NEW n \in Versions, Commit(n), UNCHANGED handed
        PROVE  RowsInv' /\ version <= version'
    <2>1. /\ rows[n] = "absent" /\ rows'[n] = "due"
          /\ \A m \in Versions : m # n => rows'[m] = rows[m]
          /\ version' = Newest(version, n)
      BY <1>0, <1>1 DEF Commit
    <2>2. n \in Nat /\ version <= version' /\ n <= version' /\ version' \in {version, n}
      BY <1>0, <2>1 DEF Newest
    <2>3. version' = 0 \/ (version' \in Versions /\ rows'[version'] # "absent")
      <3>1. CASE version' = n
        BY <2>1, <3>1
      <3>2. CASE version' = version
        <4>1. CASE version = 0
          BY <3>2, <4>1
        <4>2. CASE version \in Versions /\ rows[version] # "absent"
          <5>1. rows'[version] # "absent"
            BY <2>1, <4>2
          <5> QED
            BY <3>2, <4>2, <5>1
        <4> QED
          BY <4>1, <4>2 DEF RowsInv
      <3> QED
        BY <2>2, <3>1, <3>2
    <2>4. \A m \in Versions : /\ rows'[m] # "absent" => m <= version'
                              /\ rows'[m] \in Given => m <= handed
      BY <1>0, <2>1, <2>2 DEF RowsInv, Given
    <2>5. handed <= version'
      BY <1>0, <2>2 DEF RowsInv
    <2>6. handed = 0 \/ handed \in Versions
      BY DEF RowsInv
    <2>7. handed' = 0 \/ handed' \in Versions
      BY <1>1, <2>6
    <2>8. handed' <= version'
      BY <1>1, <2>5
    <2>9. \A m \in Versions : /\ rows'[m] # "absent" => m <= version'
                              /\ rows'[m] \in Given => m <= handed'
      BY <1>1, <2>4
    <2>10. RowsInv'
      BY <2>3, <2>7, <2>8, <2>9 DEF RowsInv
    <2> QED
      BY <2>2, <2>10
  <1>2. ASSUME NEW n \in Versions, PublishRow(n)
        PROVE  RowsInv' /\ version <= version'
    <2>1. /\ rows[n] = "claimed" /\ rows'[n] = "awaited"
          /\ \A m \in Versions : m # n => rows'[m] = rows[m]
          /\ handed' = Newest(handed, n) /\ UNCHANGED version
      BY <1>0, <1>2 DEF PublishRow
    <2>2. n \in Nat /\ n <= version /\ handed <= handed' /\ n <= handed'
          /\ handed' \in {handed, n}
      BY <1>0, <2>1 DEF Newest, RowsInv
    <2>3. \A m \in Versions : /\ rows'[m] # "absent" => m <= version
                              /\ rows'[m] \in Given => m <= handed'
      BY <1>0, <2>1, <2>2 DEF RowsInv
    <2> QED
      BY <1>0, <2>1, <2>2, <2>3 DEF RowsInv
  <1>3. ASSUME UNCHANGED <<version, handed>>,
               \A n \in Versions : /\ rows'[n] = "absent" <=> rows[n] = "absent"
                                   /\ rows'[n] \in Given => rows[n] \in Given
        PROVE  RowsInv' /\ version <= version'
    <2>1. version = 0 \/ (version \in Versions /\ rows'[version] # "absent")
      BY <1>3 DEF RowsInv
    <2>2. \A n \in Versions : /\ rows'[n] # "absent" => n <= version
                              /\ rows'[n] \in Given => n <= handed
      BY <1>3 DEF RowsInv
    <2> QED
      BY <1>0, <1>3, <2>1, <2>2 DEF RowsInv
  <1>4. CASE ClaimBatch
    <2>1. \A n \in Versions : rows'[n] = rows[n] \/ (rows[n] = "due" /\ rows'[n] = "claimed")
      <3>1. PICK S \in SUBSET {n \in Versions : rows[n] = "due"} :
              rows' = [n \in Versions |-> IF n \in S THEN "claimed" ELSE rows[n]]
        BY <1>4 DEF ClaimBatch
      <3> QED
        BY <3>1
    <2> QED
      BY <1>3, <1>4, <2>1 DEF ClaimBatch, Given
  <1>5. CASE RowAcknowledged \/ RowTimesOut \/ EndBatch \/ RecordingFails \/ Crash
    BY <1>3, <1>5 DEF RowAcknowledged, RowTimesOut, EndBatch, RecordingFails, Crash, Turned,
       Given
  <1>6. CASE UNCHANGED <<version, rows, handed>>
    BY <1>0, <1>6 DEF RowsInv
  <1>7. CASE \/ LibraryStep \/ WillFires \/ LinkLost \/ Stop \/ StartProcess \/ Connected
             \/ (\E c \in Commands : EnterHandler(c)) \/ Subscribe \/ Announce \/ Started
             \/ Disconnect \/ UNCHANGED vars \/ \E c \in Commands : HomeAssistantSends(c)
    BY <1>6, <1>7 DEF LibraryStep, Connect, _on_connect, _on_connect_Aborts, _on_disconnect,
       Deliver, WillFires, LinkLost, Stop, StartProcess, Connected, EnterHandler, Subscribe,
       Announce, Started, Disconnect, HomeAssistantSends, vars, dbVars
  <1>8. CASE \E a \in Agents : \/ AnnounceOnline(a) \/ ReadControl(a) \/ ReadControlFails(a)
                               \/ AnnounceControl(a) \/ RejectCommand(a) \/ TakeTask(a)
    BY <1>6, <1>8 DEF AnnounceOnline, ReadControl, ReadControlFails, AnnounceControl,
       RejectCommand, TakeTask, dbVars
  <1>9. CASE (\E a \in Agents : HandleCommand(a)) \/ PolicyEndsOverride
    BY <1>1, <1>9 DEF HandleCommand, PolicyEndsOverride
  <1> QED
    BY <1>2, <1>4, <1>5, <1>7, <1>8, <1>9, Jobs DEF Next, MainStep, JobStep

LEMMA ControlStep ==
  ASSUME TypeOK, QueuedInv, RowsInv, ControlInv, [Next]_vars
  PROVE  ControlInv'
  <1>0. Versions \subseteq Nat /\ version' \in Nat /\ version <= version'
    BY RowsType, RowsStep DEF RowsInv
  <1>1. CASE Deliver
    <2>1. /\ outgoing # <<>> /\ outgoing' = Tail(outgoing)
          /\ retained' = Received(outgoing[1])
          /\ UNCHANGED <<main, version, rows, handed, job, late>>
      BY <1>1 DEF Deliver, clientVars, dbVars
    <2>2. /\ Len(outgoing') = Len(outgoing) - 1 /\ Len(outgoing) \in Nat
          /\ 1 \in 1 .. Len(outgoing)
          /\ \A k \in 1 .. Len(outgoing') :
               outgoing'[k] = outgoing[k + 1] /\ k + 1 \in 1 .. Len(outgoing)
      BY <2>1, ControlTypes
    <2>3. \A k \in 1 .. Len(outgoing) : k # 1 =>
            k - 1 \in 1 .. Len(outgoing') /\ outgoing'[k - 1] = outgoing[k]
      BY <2>2
    <2>4. /\ Shows(1) => retained'.control = outgoing[1].value
          /\ ~Shows(1) => retained'.control = retained.control
      BY <2>1, <2>2, ControlTypes DEF Received, Shows, Message, TypeOK
    <2>5. BoundedInv'
      BY <2>1, <2>2, <2>4 DEF ControlInv, BoundedInv, Shows
    <2>6. FreshInv'
      <3> SUFFICES ASSUME "control" \notin late
                   PROVE  FreshInv'
        BY <2>1 DEF FreshInv
      <3>1. handed \in Versions /\ rows[handed] \in {"acked", "published"} =>
              /\ retained'.control >= handed
              /\ \A k \in 1 .. Len(outgoing') : Shows(k)' => outgoing'[k].value >= handed
        BY <2>2, <2>4 DEF ControlInv, FreshInv, Shows
      <3>2. ASSUME main = "awaiting"
            PROVE  /\ handed \in Versions /\ rows[handed] = "awaited"
                   /\ (retained'.control >= handed \/ Unsent')
        <4>0. retained'.control >= handed \/ Unsent'
          <5>1. CASE Shows(1) /\ outgoing[1].value >= handed
            BY <2>4, <5>1
          <5>2. CASE Shows(1) /\ ~(outgoing[1].value >= handed)
            <6>1. PICK j \in 1 .. Len(outgoing) : j > 1 /\ FromOutbox(j)
              BY <2>2, <3>2, <5>2 DEF ControlInv, FreshInv
            <6> QED
              BY <2>3, <6>1 DEF Unsent, FromOutbox
          <5>3. CASE ~Shows(1)
            <6>1. ~FromOutbox(1)
              BY <2>2, <5>3, ControlTypes
            <6>2. Unsent => Unsent'
              BY <2>3, <6>1 DEF Unsent, FromOutbox
            <6> QED
              BY <2>4, <3>2, <5>3, <6>2 DEF ControlInv, FreshInv
          <5> QED
            BY <5>1, <5>2, <5>3
        <4> QED
          BY <3>2, <4>0 DEF ControlInv, FreshInv
      <3>3. ASSUME main = "awaiting", NEW k \in 1 .. Len(outgoing'), Shows(k)'
            PROVE  \/ outgoing'[k].value >= handed
                   \/ \E j \in 1 .. Len(outgoing') : j > k /\ FromOutbox(j)'
        <4>1. k + 1 \in 1 .. Len(outgoing) /\ outgoing'[k] = outgoing[k + 1] /\ Shows(k + 1)
          BY <2>2, <3>3 DEF Shows
        <4>2. CASE outgoing[k + 1].value >= handed
          BY <4>1, <4>2
        <4>3. CASE \E j \in 1 .. Len(outgoing) : j > k + 1 /\ FromOutbox(j)
          <5>1. PICK j \in 1 .. Len(outgoing) : j > k + 1 /\ FromOutbox(j)
            BY <4>3
          <5>2. j - 1 \in 1 .. Len(outgoing') /\ j - 1 > k /\ FromOutbox(j - 1)'
            BY <2>3, <5>1 DEF FromOutbox
          <5> QED
            BY <5>2
        <4> QED
          BY <3>3, <4>1, <4>2, <4>3 DEF ControlInv, FreshInv
      <3> QED
        BY <2>1, <3>1, <3>2, <3>3 DEF FreshInv
    <2> QED
      BY <2>5, <2>6 DEF ControlInv
  <1>2. ASSUME NEW a \in Agents, AnnounceOnline(a)
        PROVE  ControlInv'
    <2>1. \A b \in Agents : job'[b].kind = "control" => job'[b] = job[b]
      BY <1>2, ControlTypes DEF AnnounceOnline, Job
    <2>2. CASE main # "awaiting"
      BY <1>2, <2>1, <2>2, OtherPublished DEF AnnounceOnline, brokerVars, dbVars
    <2>3. CASE main = "awaiting"
      <3>1. /\ UNCHANGED <<main, version, rows, handed, retained>>
            /\ "control" \in late => "control" \in late'
        BY <1>2 DEF AnnounceOnline, brokerVars, dbVars
      <3>2. /\ \A k \in 1 .. Len(outgoing') : Shows(k)' =>
                 k \in 1 .. Len(outgoing) /\ outgoing'[k] = outgoing[k]
            /\ \A k \in 1 .. Len(outgoing) :
                 k \in 1 .. Len(outgoing') /\ outgoing'[k] = outgoing[k]
        <4>1. CASE connected
          <5>1. /\ outgoing' = Append(outgoing, [topic |-> "availability", value |-> "online",
                                                 by |-> "direct"])
                /\ outgoing \in Seq(Message)
            BY <1>2, <4>1, ControlTypes DEF AnnounceOnline, Publish
          <5>2. /\ Len(outgoing') = Len(outgoing) + 1 /\ Len(outgoing) \in Nat
                /\ \A k \in 1 .. Len(outgoing) : outgoing'[k] = outgoing[k]
                /\ outgoing'[Len(outgoing')].topic = "availability"
            BY <5>1
          <5> QED
            BY <5>2 DEF Shows
        <4>2. CASE ~connected
          BY <1>2, <4>2 DEF AnnounceOnline, Publish
        <4> QED
          BY <4>1, <4>2
      <3>3. BoundedInv'
        BY <2>1, <3>1, <3>2 DEF ControlInv, BoundedInv, Shows
      <3>4. Unsent => Unsent'
        BY <3>2 DEF Unsent
      <3>5. FreshInv'
        BY <3>1, <3>2, <3>4 DEF ControlInv, FreshInv, Shows, FromOutbox
      <3> QED
        BY <3>3, <3>5 DEF ControlInv
    <2> QED
      BY <2>2, <2>3
  <1>3. ASSUME NEW a \in Agents, AnnounceControl(a)
        PROVE  ControlInv'
    <2>1. /\ job[a].kind = "control" /\ UNCHANGED <<main, version, rows, handed, retained>>
          /\ "control" \in late => "control" \in late'
          /\ \A b \in Agents : job'[b].kind = "control" => job'[b] = job[b]
      BY <1>3, ControlTypes DEF AnnounceControl, brokerVars, dbVars, Idle
    <2>2. CASE connected
      <3>1. /\ outgoing' = Append(outgoing, [topic |-> "control", value |-> job[a].number,
                                             by |-> "direct"])
            /\ outgoing \in Seq(Message)
        BY <1>3, <2>2, ControlTypes DEF AnnounceControl, Publish
      <3>2. /\ Len(outgoing') = Len(outgoing) + 1 /\ Len(outgoing) \in Nat
            /\ \A k \in 1 .. Len(outgoing) :
                 k \in 1 .. Len(outgoing') /\ outgoing'[k] = outgoing[k]
            /\ outgoing'[Len(outgoing')].value = job[a].number
        BY <3>1
      <3>3. \A k \in 1 .. Len(outgoing') :
              \/ k \in 1 .. Len(outgoing) /\ outgoing'[k] = outgoing[k]
              \/ outgoing'[k].value = job[a].number
        BY <3>2
      <3>4. BoundedInv'
        BY <2>1, <3>3 DEF ControlInv, BoundedInv, Shows
      <3>5. ASSUME "control" \notin late'
            PROVE  job[a].number >= handed
        <4>1. ~(job[a].number < handed)
          BY <1>3, <2>2, <3>5 DEF AnnounceControl
        <4> QED
          BY <4>1, ControlTypes
      <3>6. Unsent => Unsent'
        BY <3>2 DEF Unsent
      <3>7. FreshInv'
        <4> SUFFICES ASSUME "control" \notin late'
                     PROVE  FreshInv'
          BY DEF FreshInv
        <4>1. handed' \in Versions /\ rows'[handed'] \in {"acked", "published"} =>
                /\ retained'.control >= handed'
                /\ \A k \in 1 .. Len(outgoing') : Shows(k)' => outgoing'[k].value >= handed'
          BY <2>1, <3>3, <3>5 DEF ControlInv, FreshInv, Shows
        <4>2. main = "awaiting" => /\ handed' \in Versions /\ rows'[handed'] = "awaited"
                                   /\ (retained'.control >= handed' \/ Unsent')
          BY <2>1, <3>5, <3>6 DEF ControlInv, FreshInv
        <4>3. ASSUME main = "awaiting", NEW k \in 1 .. Len(outgoing'), Shows(k)'
              PROVE  \/ outgoing'[k].value >= handed'
                     \/ \E j \in 1 .. Len(outgoing') : j > k /\ FromOutbox(j)'
          <5>1. CASE outgoing'[k].value = job[a].number
            BY <2>1, <3>5, <4>3, <5>1
          <5>2. CASE k \in 1 .. Len(outgoing) /\ outgoing'[k] = outgoing[k]
            BY <2>1, <3>2, <4>3, <5>2 DEF ControlInv, FreshInv, Shows, FromOutbox
          <5> QED
            BY <3>3, <5>1, <5>2
        <4> QED
          BY <2>1, <4>1, <4>2, <4>3 DEF FreshInv
      <3> QED
        BY <3>4, <3>7 DEF ControlInv
    <2>3. CASE ~connected
      BY <1>3, <2>1, <2>3 DEF AnnounceControl, Publish, ControlInv, BoundedInv, FreshInv,
         Shows, FromOutbox, Unsent
    <2> QED
      BY <2>2, <2>3
  <1>4. ASSUME NEW n \in Versions, PublishRow(n)
        PROVE  ControlInv'
    <2>1. /\ outgoing' = Append(outgoing, [topic |-> "control", value |-> n, by |-> "outbox"])
          /\ outgoing \in Seq(Message) /\ main' = "awaiting"
          /\ rows[n] = "claimed" /\ rows'[n] = "awaited"
          /\ handed' = Newest(handed, n)
          /\ late' = IF n < handed THEN late \cup {"control"} ELSE late \ {"control"}
          /\ UNCHANGED <<version, job, retained>>
      BY <1>4, ControlTypes DEF PublishRow, clientVars, brokerVars, TypeOK
    <2>2. /\ Len(outgoing') = Len(outgoing) + 1 /\ Len(outgoing) \in Nat
          /\ \A k \in 1 .. Len(outgoing) : outgoing'[k] = outgoing[k]
          /\ outgoing'[Len(outgoing')].value = n
          /\ outgoing'[Len(outgoing')].by = "outbox"
      BY <2>1
    <2>3. \A k \in 1 .. Len(outgoing') :
            \/ k \in 1 .. Len(outgoing) /\ outgoing'[k] = outgoing[k] /\ k < Len(outgoing')
            \/ outgoing'[k].value = n
      BY <2>2
    <2>4. n <= version
      BY <2>1 DEF RowsInv
    <2>5. BoundedInv'
      BY <2>1, <2>3, <2>4 DEF ControlInv, BoundedInv, Shows
    <2>6. Len(outgoing') \in 1 .. Len(outgoing')
      BY <2>2
    <2>7. Unsent'
      BY <2>2, <2>6 DEF Unsent
    <2>8. ASSUME "control" \notin late'
          PROVE  handed' = n
      BY <1>0, <2>1, <2>8, ControlTypes DEF Newest
    <2>9. \A k \in 1 .. Len(outgoing') :
            \/ outgoing'[k].value = n
            \/ \E j \in 1 .. Len(outgoing') : j > k /\ FromOutbox(j)'
      BY <2>2, <2>3, <2>6 DEF FromOutbox
    <2>10. n >= n
      BY <1>0
    <2>11. FreshInv'
      <3> SUFFICES ASSUME "control" \notin late'
                   PROVE  FreshInv'
        BY DEF FreshInv
      <3>1. rows'[handed'] = "awaited" /\ handed' \in Versions
        BY <2>1, <2>8
      <3> QED
        BY <2>7, <2>8, <2>9, <2>10, <3>1 DEF FreshInv
    <2> QED
      BY <2>5, <2>11 DEF ControlInv
  <1>5. CASE RowAcknowledged
    <2>1. /\ main = "awaiting" /\ ~Unsent /\ main' = "publishing"
          /\ rows' = Turned({"awaited"}, "acked")
          /\ UNCHANGED <<version, handed, job, outgoing, retained, late>>
      BY <1>5 DEF RowAcknowledged, clientVars, brokerVars
    <2>2. BoundedInv'
      BY <2>1 DEF ControlInv, BoundedInv, Shows
    <2>3. \A j \in 1 .. Len(outgoing) : ~FromOutbox(j)
      BY <2>1 DEF Unsent, FromOutbox
    <2>4. FreshInv'
      BY <2>1, <2>3 DEF ControlInv, FreshInv, Shows
    <2> QED
      BY <2>2, <2>4 DEF ControlInv
  <1>6. CASE Stop
    BY <1>6, OtherPublished DEF Stop, clientVars, brokerVars, dbVars
  <1>7. CASE Disconnect \/ Crash
    <2>1. /\ main' = "down" /\ outgoing' = <<>>
          /\ UNCHANGED <<version, handed, retained, late>>
          /\ \A a \in Agents : job'[a] = job[a] \/ job'[a].kind = "none"
      BY <1>7 DEF Disconnect, Crash, ClientGone, dbVars, Idle
    <2>2. \A n \in Versions : rows'[n] \in {"acked", "published"} =>
            rows[n] \in {"acked", "published"}
      BY <1>7 DEF Disconnect, Crash, Turned, dbVars
    <2> QED
      BY <2>1, <2>2 DEF ControlInv, BoundedInv, FreshInv, Shows
  <1>8. ASSUME UNCHANGED <<handed, outgoing>>, retained'.control = retained.control,
               KeepsGiven \/ UNCHANGED rows,
               "control" \in late => "control" \in late',
               main' = main \/ main' # "awaiting",
               \A a \in Agents : job'[a].kind = "control" =>
                 job'[a] = job[a] \/ job'[a].number = version
        PROVE  ControlInv'
    <2>1. BoundedInv'
      <3>1. \A m \in Nat : m <= version => m <= version'
        BY <1>0, ControlTypes
      <3> QED
        BY <1>8, <3>1, ControlTypes DEF ControlInv, BoundedInv, Shows
    <2>2. \A n \in Versions :
            /\ rows'[n] \in {"acked", "published"} => rows[n] \in {"acked", "published"}
            /\ rows[n] = "awaited" => rows'[n] = "awaited" \/ main' # "awaiting"
      BY <1>8 DEF KeepsGiven
    <2>3. FreshInv'
      BY <1>8, <2>2 DEF ControlInv, FreshInv, Shows, FromOutbox, Unsent
    <2> QED
      BY <2>1, <2>3 DEF ControlInv
  <1>9. ASSUME NEW a \in Agents,
               ReadControl(a) \/ ReadControlFails(a) \/ HandleCommand(a) \/ RejectCommand(a)
        PROVE  ControlInv'
    <2>1. \A b \in Agents : job'[b].kind = "control" =>
            job'[b] = job[b] \/ job'[b].number = version
      BY <1>9, ControlTypes DEF ReadControl, ReadControlFails, HandleCommand, RejectCommand, Idle
    <2>2. UNCHANGED <<handed, outgoing, retained, main, late>>
      BY <1>9 DEF ReadControl, ReadControlFails, HandleCommand, RejectCommand, brokerVars
    <2>3. KeepsGiven \/ UNCHANGED rows
      <3>1. CASE HandleCommand(a)
        BY <3>1 DEF HandleCommand, Commit, KeepsGiven
      <3>2. CASE ~HandleCommand(a)
        BY <1>9, <3>2 DEF ReadControl, ReadControlFails, RejectCommand, dbVars
      <3> QED
        BY <3>1, <3>2
    <2> QED
      BY <1>8, <2>1, <2>2, <2>3
  <1>10. ASSUME NEW a \in Threads, TakeTask(a)
         PROVE  ControlInv'
    <2>1. queue # <<>> /\ queue \in Seq(Job) /\ job' = [job EXCEPT ![a] = queue[1]]
      BY <1>10 DEF TakeTask, TypeOK
    <2>2. queue[1].kind # "control"
      BY <2>1 DEF QueuedInv
    <2>3. \A b \in Agents : job'[b].kind = "control" => job'[b] = job[b]
      BY <2>1, <2>2, ControlTypes
    <2> QED
      BY <1>8, <1>10, <2>3 DEF TakeTask, brokerVars, dbVars
  <1>11. CASE PolicyEndsOverride
    <2>1. KeepsGiven
      BY <1>11 DEF PolicyEndsOverride, Commit, KeepsGiven, TypeOK
    <2> QED
      BY <1>8, <1>11, <2>1 DEF PolicyEndsOverride, clientVars, brokerVars
  <1>12. CASE Announce
    <2>1. \A b \in Agents : job'[b].kind = "control" => job'[b] = job[b]
      BY <1>12, ControlTypes DEF Announce, Announcement
    <2> QED
      BY <1>8, <1>12, <2>1 DEF Announce, brokerVars, dbVars
  <1>13. CASE Connect \/ WillFires
    <2>1. retained'.control = retained.control
      BY <1>13 DEF Connect, WillFires, TypeOK
    <2> QED
      BY <1>8, <1>13, <2>1 DEF Connect, WillFires, clientVars, dbVars
  <1>14. CASE \/ _on_connect \/ _on_connect_Aborts \/ _on_disconnect \/ LinkLost
              \/ StartProcess \/ Connected \/ Subscribe \/ Started
              \/ UNCHANGED vars
              \/ \E c \in Commands : EnterHandler(c) \/ HomeAssistantSends(c)
    BY <1>8, <1>14 DEF _on_connect, _on_connect_Aborts, _on_disconnect, LinkLost,
       StartProcess, Connected, Subscribe, Started, EnterHandler,
       HomeAssistantSends, vars, clientVars, brokerVars, dbVars
  <1>15. CASE ClaimBatch \/ RowTimesOut \/ EndBatch \/ RecordingFails
    <2>1. /\ UNCHANGED <<handed, outgoing, retained, late, job>>
          /\ main' # "awaiting"
      BY <1>15 DEF ClaimBatch, RowTimesOut, EndBatch, RecordingFails, clientVars, brokerVars
    <2>2. \A n \in Versions : rows'[n] \in {"acked", "published"} =>
            rows[n] \in {"acked", "published"}
      <3>1. CASE ClaimBatch
        BY <3>1 DEF ClaimBatch
      <3>2. CASE RowTimesOut \/ EndBatch \/ RecordingFails
        BY <3>2 DEF RowTimesOut, EndBatch, RecordingFails, Turned
      <3> QED
        BY <1>15, <3>1, <3>2
    <2> QED
      BY <1>8, <2>1, <2>2 DEF KeepsGiven
  <1> QED
    BY <1>1, <1>2, <1>3, <1>4, <1>5, <1>6, <1>7, <1>9, <1>10, <1>11, <1>12, <1>13, <1>14, <1>15
       DEF Next, LibraryStep, MainStep, JobStep

\* Once nothing is under way and every row is marked published, Home Assistant
\* shows the control state of the database, unless what was published last was
\* older than a row published before: a republication that had read it earlier,
\* or a row that was tried again or committed late.
THEOREM FreshWhenSettled == Spec => []FreshUnlessOvertaken
  <1>1. Init => QueuedInv /\ RowsInv /\ ControlInv
    <2> SUFFICES ASSUME Init PROVE QueuedInv /\ RowsInv /\ ControlInv
      OBVIOUS
    <2>1. QueuedInv
      BY DEF Init, QueuedInv
    <2>2. RowsInv
      <3>1. \A n \in Versions : rows[n] = "absent" /\ rows[n] \notin Given
        BY DEF Init, Given
      <3> QED
        BY <3>1 DEF Init, RowsInv
    <2>3. ControlInv
      BY SessionAssumption DEF Init, ControlInv, BoundedInv, FreshInv, Versions, Idle
    <2> QED
      BY <2>1, <2>2, <2>3
  <1>2. TypeOK /\ QueuedInv /\ RowsInv /\ ControlInv /\ [Next]_vars =>
          (QueuedInv /\ RowsInv /\ ControlInv)'
    BY QueuedStep, RowsStep, ControlStep
  <1>3. TypeOK /\ RowsInv /\ ControlInv => FreshUnlessOvertaken
    <2> SUFFICES ASSUME TypeOK, RowsInv, ControlInv, "control" \notin late, Settled, Published
                 PROVE  retained.control = version
      BY DEF FreshUnlessOvertaken, ControlNotStale
    <2>1. /\ version \in Nat /\ handed \in Nat /\ retained.control \in Nat
          /\ retained.control <= version /\ handed <= version
      BY ControlTypes DEF ControlInv, BoundedInv, RowsInv
    <2>2. CASE version = 0
      BY <2>1, <2>2
    <2>3. CASE version # 0
      <3>1. version \in Versions /\ rows[version] = "published"
        BY <2>3 DEF RowsInv, Published
      <3>2. version <= handed
        BY <3>1 DEF RowsInv, Given
      <3>3. handed = version
        BY <2>1, <3>2
      <3> QED
        BY <2>1, <3>1, <3>3 DEF ControlInv, FreshInv
    <2> QED
      BY <2>2, <2>3
  <1> QED
    BY <1>1, <1>2, <1>3, TypeCorrect, PTL DEF Spec

=============================================================================
