----------------------------- MODULE MqttSession -----------------------------
(***************************************************************************)
(* The MQTT session of the orchestrator: app/mqtt/client.py with the parts *)
(* of app/runtime.py that use it, from start() to stop().                  *)
(*                                                                         *)
(* Three kinds of threads take part.  The main thread runs start(), the    *)
(* event loop's tasks and stop().  The MQTT library's thread runs          *)
(* _on_connect, _on_disconnect and _on_message.  The executor's threads    *)
(* run what those submit: the republication after a (re)connect, and the   *)
(* command handlers.                                                       *)
(*                                                                         *)
(* The library is external.  It sends what was published in order, keeps   *)
(* it over a lost connection, and connects again.  The broker publishes    *)
(* the will unless the session was closed by a DISCONNECT.                 *)
(*                                                                         *)
(* A room's control states are numbered in the order of their timestamps,  *)
(* and a retained control state is its number.  The database shows the one *)
(* with the latest timestamp; they are committed in any order, since a     *)
(* timestamp is taken before the lock.  The outbox is reduced to the rows  *)
(* of these states (Outbox has the rest), discovery and system state to    *)
(* nothing: the first never changes, the second is published anew by every *)
(* tick.                                                                   *)
(***************************************************************************)
EXTENDS Integers, Sequences, FiniteSets

CONSTANTS
  Commands,      \* command topics
  Threads,       \* executor threads: mqtt_callback_workers of them
  Main,          \* the main thread
  MaxVersion,    \* bound: control states
  MaxInputs,     \* bound: commands Home Assistant sends and control states committed
  MaxFaults,     \* bound: crashes, lost connections, timeouts, failed reads
  Null

ASSUME SessionAssumption ==
  /\ {MaxVersion, MaxInputs, MaxFaults} \subseteq Nat
  /\ Main \notin Threads
  /\ Null \notin Commands

VARIABLES
  main,          \* where the main thread is
  registering,   \* the topic whose subscribe() is under way, or Null
  handlers,      \* _handlers
  connected,     \* _connected
  resubscribing, \* whether _on_connect runs, and the handlers it began with
  aborted,       \* a callback raised, and no _on_connect got through since
  queue,         \* tasks submitted to the executor
  job,           \* thread -> what it runs
  outgoing,      \* messages in the library, not yet at the broker
  link,          \* the connection is up
  session,       \* the broker holds a session, with its will
  subscribed,    \* the session's subscriptions
  retained,      \* the broker's retained availability and control state
  version,       \* database: the control state with the latest timestamp
  rows,          \* database: control state -> what has become of its outbox row
  sent,          \* commands sent by Home Assistant
  handled,       \* the command whose handling ended last
  handed,        \* history: the newest row given to the library
  late,          \* history: what was last published after it was superseded
  faults

clientVars == <<handlers, connected, resubscribing, aborted, queue, job>>
brokerVars == <<link, session, subscribed, retained>>
dbVars == <<version, rows, handled>>
vars == <<main, registering, clientVars, outgoing, brokerVars, dbVars, sent, handed, late,
          faults>>

Agents == Threads \cup {Main}
Versions == 1..MaxVersion

Idle == [kind |-> "none", number |-> 0]
Announcement == [kind |-> "online", number |-> 0]
Handling(n) == [kind |-> "command", number |-> n]

Job == [kind : {"none", "online", "read", "control", "command"}, number : Nat]
Message ==
  [topic : {"availability"}, value : {"online", "offline"}, by : {"direct"}]
    \cup [topic : {"control"}, value : Nat, by : {"outbox", "direct"}]

\* A row in its batch is claimed, then awaited, then acked.  One whose result
\* was a failure, or was never recorded, is due again: its backoff, or the age
\* at which its claim is stale, is that it may be left out of the next batches.
RowStatus == {"absent", "due", "claimed", "awaited", "acked", "published"}

\* Type correctness; a connection that is up belongs to a session of a process
\* that runs, and only such a process has a client.
TypeOK ==
  /\ main \in {"down", "connecting", "registering", "announcing", "running",
               "publishing", "awaiting", "stopping"}
  /\ registering \in Commands \cup {Null}
  /\ handlers \in SUBSET Commands
  /\ connected \in BOOLEAN
  /\ resubscribing \in [on : BOOLEAN, over : SUBSET Commands]
  /\ aborted \in BOOLEAN
  /\ queue \in Seq(Job)
  /\ job \in [Agents -> Job]
  /\ outgoing \in Seq(Message)
  /\ link \in BOOLEAN /\ session \in BOOLEAN
  /\ subscribed \in SUBSET Commands
  /\ retained \in [availability : {"online", "offline"}, control : Nat]
  /\ rows \in [Versions -> RowStatus]
  /\ {version, handed, handled, sent, faults} \subseteq Nat
  /\ late \in SUBSET {"online", "control"}
  /\ link => session /\ connected
  /\ main = "down" => ~connected /\ outgoing = <<>>

NoCallback == [on |-> FALSE, over |-> {}]

Init ==
  /\ main = "down"
  /\ registering = Null
  /\ handlers = {}
  /\ connected = FALSE
  /\ resubscribing = NoCallback
  /\ aborted = FALSE
  /\ queue = <<>>
  /\ job = [a \in Agents |-> Idle]
  /\ outgoing = <<>>
  /\ link = FALSE /\ session = FALSE
  /\ subscribed = {}
  /\ retained = [availability |-> "offline", control |-> 0]
  /\ version = 0 /\ rows = [n \in Versions |-> "absent"]
  /\ handed = 0
  /\ sent = 0 /\ handled = 0
  /\ late = {}
  /\ faults = 0

Fault == faults < MaxFaults /\ faults' = faults + 1
Input == sent + Cardinality({n \in Versions : rows[n] # "absent"}) < MaxInputs

\* _publish_direct: nothing is published while _connected is off.
Publish(topic, value, by) ==
  outgoing' = IF connected
              THEN Append(outgoing, [topic |-> topic, value |-> value, by |-> by])
              ELSE outgoing

-----------------------------------------------------------------------------
(* The library's thread and the broker.                                    *)

\* Mutant: the flag is set after the subscriptions.
Connect_FlagLate ==
  /\ main # "down" /\ ~connected
  /\ link' = TRUE /\ session' = TRUE
  /\ subscribed' = {}
  /\ retained' = IF session THEN [retained EXCEPT !.availability = "offline"] ELSE retained
  /\ resubscribing' = [on |-> TRUE, over |-> handlers]
  /\ UNCHANGED <<main, registering, handlers, connected, aborted, queue, job, outgoing,
                 dbVars, sent, late, handed, faults>>

\* A CONNECT is accepted.  A session that is still open is taken over: its
\* will is published and its subscriptions are gone.  _on_connect sets the
\* flag and starts to iterate over the handlers.
Connect ==
  /\ main # "down" /\ ~connected
  /\ connected' = TRUE /\ link' = TRUE /\ session' = TRUE
  /\ subscribed' = {}
  /\ retained' = IF session THEN [retained EXCEPT !.availability = "offline"] ELSE retained
  /\ resubscribing' = [on |-> TRUE, over |-> handlers]
  /\ late' = IF main = "stopping" THEN late \cup {"online"} ELSE late \ {"online"}
  /\ UNCHANGED <<main, registering, handlers, aborted, queue, job, outgoing, dbVars,
                 sent, handed, faults>>

\* Mutant: only the first connect submits the republication.
_on_connect_FirstOnly ==
  /\ resubscribing = [on |-> TRUE, over |-> handlers]
  /\ resubscribing' = NoCallback
  /\ subscribed' = IF link THEN subscribed \cup handlers ELSE subscribed
  /\ aborted' = FALSE
  /\ queue' = IF main = "connecting" THEN Append(queue, Announcement) ELSE queue
  /\ UNCHANGED <<main, registering, handlers, connected, job, outgoing, link, session,
                 retained, dbVars, sent, late, handed, faults>>

\* Mutant: no subscriptions after a reconnect.
_on_connect_NoSubscribe ==
  /\ resubscribing = [on |-> TRUE, over |-> handlers]
  /\ resubscribing' = NoCallback
  /\ aborted' = FALSE
  /\ queue' = Append(queue, Announcement)
  /\ UNCHANGED <<main, registering, handlers, connected, job, outgoing, link, session,
                 subscribed, retained, dbVars, sent, late, handed, faults>>

\* The rest of _on_connect: subscriptions, and the republication is submitted.
_on_connect ==
  /\ resubscribing = [on |-> TRUE, over |-> handlers]
  /\ resubscribing' = NoCallback
  /\ subscribed' = IF link THEN subscribed \cup handlers ELSE subscribed
  /\ aborted' = FALSE
  /\ queue' = Append(queue, Announcement)
  /\ UNCHANGED <<main, registering, handlers, connected, job, outgoing, link, session,
                 retained, dbVars, sent, late, handed, faults>>

\* start() registered a handler meanwhile: iterating over the dictionary
\* raises, and what follows in _on_connect is not done.  The library may go on
\* or end its thread: nothing is assumed of it while `aborted` holds.
_on_connect_Aborts ==
  /\ resubscribing.on /\ resubscribing.over # handlers
  /\ \E S \in SUBSET resubscribing.over :
       subscribed' = IF link THEN subscribed \cup S ELSE subscribed
  /\ resubscribing' = NoCallback
  /\ aborted' = TRUE
  /\ UNCHANGED <<main, registering, handlers, connected, queue, job, outgoing, link,
                 session, retained, dbVars, sent, late, handed, faults>>

\* The library notices that the connection is gone.
_on_disconnect ==
  /\ connected /\ ~link /\ ~resubscribing.on
  /\ connected' = FALSE
  /\ UNCHANGED <<main, registering, handlers, resubscribing, aborted, queue, job, outgoing,
                 brokerVars, dbVars, sent, late, handed, faults>>

Received(m) == [retained EXCEPT ![m.topic] = m.value]

Deliver ==
  /\ link /\ outgoing # <<>>
  /\ retained' = Received(Head(outgoing))
  /\ outgoing' = Tail(outgoing)
  /\ UNCHANGED <<main, registering, clientVars, link, session, subscribed, dbVars, sent,
                 late, handed, faults>>

LinkLost ==
  /\ link
  /\ Fault
  /\ link' = FALSE
  /\ UNCHANGED <<main, registering, clientVars, outgoing, session, subscribed, retained,
                 dbVars, sent, late, handed>>

\* Mutant: no will_set.
WillFires_NoWill ==
  /\ session /\ ~link
  /\ session' = FALSE /\ subscribed' = {}
  /\ UNCHANGED <<main, registering, clientVars, outgoing, link, retained, dbVars, sent,
                 late, handed, faults>>

\* The broker notices it too.
WillFires ==
  /\ session /\ ~link
  /\ session' = FALSE /\ subscribed' = {}
  /\ retained' = [retained EXCEPT !.availability = "offline"]
  /\ UNCHANGED <<main, registering, clientVars, outgoing, link, dbVars, sent, late,
                 handed, faults>>

\* Home Assistant sends a command; commands are not retained.  It reaches
\* _on_message through a subscription, or is lost.  While start() changes the
\* dictionary _on_message iterates over, that raises, before or after the
\* handler is submitted.
HomeAssistantSends(c) ==
  /\ Input
  /\ sent' = sent + 1
  /\ \/ /\ ~link \/ c \notin subscribed
        /\ UNCHANGED <<queue, aborted>>
     \/ /\ link /\ c \in subscribed \cap handlers /\ ~resubscribing.on
        /\ \/ queue' = Append(queue, Handling(sent')) /\ UNCHANGED aborted
           \/ /\ registering # Null /\ aborted' = TRUE
              /\ queue' \in {queue, Append(queue, Handling(sent'))}
  /\ UNCHANGED <<main, registering, handlers, connected, resubscribing, job, outgoing,
                 brokerVars, dbVars, late, handed, faults>>

-----------------------------------------------------------------------------
(* The executor's threads, and the same calls made by start().             *)

\* Mutant: a thread takes the newest task.
TakeTask_Newest(a) ==
  /\ queue # <<>> /\ job[a] = Idle
  /\ job' = [job EXCEPT ![a] = queue[Len(queue)]]
  /\ queue' = SubSeq(queue, 1, Len(queue) - 1)
  /\ UNCHANGED <<main, registering, handlers, connected, resubscribing, aborted, outgoing,
                 brokerVars, dbVars, sent, late, handed, faults>>

TakeTask(a) ==
  /\ queue # <<>> /\ job[a] = Idle
  /\ job' = [job EXCEPT ![a] = Head(queue)]
  /\ queue' = Tail(queue)
  /\ UNCHANGED <<main, registering, handlers, connected, resubscribing, aborted, outgoing,
                 brokerVars, dbVars, sent, late, handed, faults>>

\* publish_availability("online").
AnnounceOnline(a) ==
  /\ job[a].kind = "online"
  /\ Publish("availability", "online", "direct")
  /\ late' = IF main = "stopping" /\ connected THEN late \cup {"online"} ELSE late
  /\ job' = [job EXCEPT ![a].kind = "read"]
  /\ UNCHANGED <<main, registering, handlers, connected, resubscribing, aborted, queue,
                 brokerVars, dbVars, sent, handed, faults>>

\* publish_control_states returns at once without a connection, and otherwise
\* reads the state to publish.
ReadControl(a) ==
  /\ job[a].kind = "read"
  /\ job' = [job EXCEPT ![a] = IF connected THEN [kind |-> "control", number |-> version]
                               ELSE Idle]
  /\ UNCHANGED <<main, registering, handlers, connected, resubscribing, aborted, queue,
                 outgoing, brokerVars, dbVars, sent, late, handed, faults>>

\* The read raises; _safe_call suppresses it.
ReadControlFails(a) ==
  /\ a \in Threads /\ job[a].kind = "read" /\ connected
  /\ Fault
  /\ job' = [job EXCEPT ![a] = Idle]
  /\ UNCHANGED <<main, registering, handlers, connected, resubscribing, aborted, queue,
                 outgoing, brokerVars, dbVars, sent, late, handed>>

\* What was read is published, however late.
AnnounceControl(a) ==
  /\ job[a].kind = "control"
  /\ Publish("control", job[a].number, "direct")
  /\ late' = IF connected /\ job[a].number < handed THEN late \cup {"control"} ELSE late
  /\ job' = [job EXCEPT ![a] = Idle]
  /\ UNCHANGED <<main, registering, handlers, connected, resubscribing, aborted, queue,
                 brokerVars, dbVars, sent, handed, faults>>

Newest(m, n) == IF m < n THEN n ELSE m

\* A control state is committed, with its outbox row.
Commit(n) ==
  /\ rows[n] = "absent" /\ Input
  /\ rows' = [rows EXCEPT ![n] = "due"]
  /\ version' = Newest(version, n)

\* Mutant: the override is committed without an outbox row.
HandleCommand_NoRow(a) ==
  /\ job[a].kind = "command"
  /\ \E n \in Versions :
       /\ rows[n] = "absent" /\ Input
       /\ rows' = [rows EXCEPT ![n] = "published"]
       /\ version' = Newest(version, n)
  /\ handled' = job[a].number
  /\ job' = [job EXCEPT ![a] = Idle]
  /\ UNCHANGED <<main, registering, handlers, connected, resubscribing, aborted, queue,
                 outgoing, brokerVars, sent, late, handed, faults>>

\* handle_control_message commits an override with its outbox row.
HandleCommand(a) ==
  /\ job[a].kind = "command"
  /\ \E n \in Versions : Commit(n)
  /\ handled' = job[a].number
  /\ job' = [job EXCEPT ![a] = Idle]
  /\ UNCHANGED <<main, registering, handlers, connected, resubscribing, aborted, queue,
                 outgoing, brokerVars, sent, late, handed, faults>>

\* The command is refused, or its transaction fails.
RejectCommand(a) ==
  /\ job[a].kind = "command"
  /\ handled' = job[a].number
  /\ job' = [job EXCEPT ![a] = Idle]
  /\ UNCHANGED <<main, registering, handlers, connected, resubscribing, aborted, queue,
                 outgoing, brokerVars, version, rows, sent, late, handed, faults>>

-----------------------------------------------------------------------------
(* start()                                                                 *)

\* The interpreter of the previous process waited for its threads.
StartProcess ==
  /\ main = "down" /\ \A a \in Agents : job[a] = Idle
  /\ main' = "connecting"
  /\ aborted' = FALSE
  /\ UNCHANGED <<registering, handlers, connected, resubscribing, queue, job, outgoing,
                 brokerVars, dbVars, sent, late, handed, faults>>

\* connect() returns once _on_connect has set the event.
Connected ==
  /\ main = "connecting" /\ connected /\ ~resubscribing.on
  /\ main' = "registering"
  /\ UNCHANGED <<registering, clientVars, outgoing, brokerVars, dbVars, sent, late,
                 handed, faults>>

\* subscribe(): the handler is entered ...
EnterHandler(c) ==
  /\ main = "registering" /\ registering = Null
  /\ c \notin handlers
  /\ handlers' = handlers \cup {c}
  /\ registering' = c
  /\ UNCHANGED <<main, connected, resubscribing, aborted, queue, job, outgoing, brokerVars,
                 dbVars, sent, late, handed, faults>>

\* Mutant: subscribe() leaves it to _on_connect.
Subscribe_Later ==
  /\ main = "registering" /\ registering # Null
  /\ registering' = Null
  /\ UNCHANGED <<main, clientVars, outgoing, brokerVars, dbVars, sent, late, handed,
                 faults>>

\* ... and the subscription made if the flag is on.
Subscribe ==
  /\ main = "registering" /\ registering # Null
  /\ subscribed' = IF connected /\ link THEN subscribed \cup {registering} ELSE subscribed
  /\ registering' = Null
  /\ UNCHANGED <<main, clientVars, outgoing, link, session, retained, dbVars, sent, late,
                 handed, faults>>

\* publish_availability, publish_control_states ...
Announce ==
  /\ main = "registering" /\ handlers = Commands /\ registering = Null
  /\ main' = "announcing"
  /\ job' = [job EXCEPT ![Main] = Announcement]
  /\ UNCHANGED <<registering, handlers, connected, resubscribing, aborted, queue, outgoing,
                 brokerVars, dbVars, sent, late, handed, faults>>

\* ... and _start_background_tasks.
Started ==
  /\ main = "announcing" /\ job[Main] = Idle
  /\ main' = "running"
  /\ UNCHANGED <<registering, clientVars, outgoing, brokerVars, dbVars, sent, late,
                 handed, faults>>

-----------------------------------------------------------------------------
(* The event loop.  A batch of the outbox blocks it until it is recorded.  *)

\* The policy tick ends an override, with its outbox row.
PolicyEndsOverride ==
  /\ main = "running"
  /\ \E n \in Versions : Commit(n)
  /\ UNCHANGED <<main, registering, clientVars, outgoing, brokerVars, handled, sent, late,
                 handed, faults>>

\* The rows with a status in `from` get the status `to`.
Turned(from, to) == [n \in Versions |-> IF rows[n] \in from THEN to ELSE rows[n]]

\* A batch begins while the connection is up.  It claims rows that are due: not
\* those that still wait for their next attempt, and no more than its limit.
ClaimBatch ==
  /\ main = "running" /\ connected
  /\ \E S \in SUBSET {n \in Versions : rows[n] = "due"} :
       /\ S # {}
       /\ rows' = [n \in Versions |-> IF n \in S THEN "claimed" ELSE rows[n]]
  /\ main' = "publishing"
  /\ UNCHANGED <<registering, clientVars, outgoing, brokerVars, version, handled, sent,
                 late, handed, faults>>

\* Rows of one batch with the same created_at are in any order, so any may be
\* next.  The library keeps it when the connection is gone meanwhile.
PublishRow(n) ==
  /\ main = "publishing" /\ rows[n] = "claimed"
  /\ rows' = [rows EXCEPT ![n] = "awaited"]
  /\ outgoing' = Append(outgoing, [topic |-> "control", value |-> n, by |-> "outbox"])
  /\ main' = "awaiting"
  /\ handed' = Newest(handed, n)
  /\ late' = IF n < handed THEN late \cup {"control"} ELSE late \ {"control"}
  /\ UNCHANGED <<registering, clientVars, brokerVars, version, handled, sent, faults>>

Unsent == \E i \in 1..Len(outgoing) : outgoing[i].by = "outbox"

RowAcknowledged ==
  /\ main = "awaiting" /\ ~Unsent
  /\ rows' = Turned({"awaited"}, "acked")
  /\ main' = "publishing"
  /\ UNCHANGED <<registering, clientVars, outgoing, brokerVars, version, handled, sent,
                 late, handed, faults>>

\* No answer in time, as after a lost connection: the batch goes on with newer
\* rows, and this one is tried again.  The library keeps the message of the first
\* attempt.
RowTimesOut ==
  /\ main = "awaiting"
  /\ IF connected THEN Fault ELSE UNCHANGED faults
  /\ rows' = Turned({"awaited"}, "due")
  /\ main' = "publishing"
  /\ UNCHANGED <<registering, clientVars, outgoing, brokerVars, version, handled, sent,
                 late, handed>>

BatchDone == main = "publishing" /\ \A n \in Versions : rows[n] # "claimed"

\* The results of the batch are recorded.
EndBatch ==
  /\ BatchDone
  /\ rows' = Turned({"acked"}, "published")
  /\ main' = "running"
  /\ UNCHANGED <<registering, clientVars, outgoing, brokerVars, version, handled, sent,
                 late, handed, faults>>

\* The transaction that records them fails: the claims become stale and are
\* released.
RecordingFails ==
  /\ BatchDone
  /\ Fault
  /\ rows' = Turned({"acked"}, "due")
  /\ main' = "running"
  /\ UNCHANGED <<registering, clientVars, outgoing, brokerVars, version, handled, sent,
                 late, handed>>

-----------------------------------------------------------------------------
(* stop(), and the end without it.                                         *)

\* Mutant: disconnect() relies on the will.
Stop_NoOffline ==
  /\ main = "running"
  /\ main' = "stopping"
  /\ UNCHANGED <<registering, clientVars, outgoing, brokerVars, dbVars, sent, late,
                 handed, faults>>

\* Tasks are cancelled, and disconnect() publishes "offline".
Stop ==
  /\ main = "running"
  /\ main' = "stopping"
  /\ Publish("availability", "offline", "direct")
  /\ UNCHANGED <<registering, clientVars, brokerVars, dbVars, sent, late, handed, faults>>

ClientGone ==
  /\ main' = "down"
  /\ registering' = Null
  /\ handlers' = {}
  /\ connected' = FALSE
  /\ resubscribing' = NoCallback
  /\ queue' = <<>>
  /\ outgoing' = <<>>
  /\ link' = FALSE

\* The receipt was waited for; the DISCONNECT follows what was published and
\* ends the session without its will.  Queued tasks are cancelled, running
\* ones are left to themselves.
Disconnect ==
  /\ main = "stopping" /\ ~resubscribing.on
  /\ link => outgoing = <<>>
  /\ ClientGone
  /\ session' = (session /\ ~link)
  /\ subscribed' = IF link THEN {} ELSE subscribed
  /\ UNCHANGED <<aborted, job, retained, dbVars, sent, late, handed, faults>>

\* The process dies, and what it had claimed stays so until the claim is stale.
\* An exception in start() ends it in the same way.
Crash ==
  /\ main # "down"
  /\ Fault
  /\ ClientGone
  /\ job' = [a \in Agents |-> Idle]
  /\ rows' = Turned({"claimed", "awaited", "acked"}, "due")
  /\ UNCHANGED <<aborted, session, subscribed, retained, version, handled, sent, late,
                 handed>>

-----------------------------------------------------------------------------
LibraryStep == Connect \/ _on_connect \/ _on_connect_Aborts \/ _on_disconnect \/ Deliver

JobStep(a) ==
  \/ AnnounceOnline(a) \/ ReadControl(a) \/ AnnounceControl(a)
  \/ HandleCommand(a) \/ RejectCommand(a)

MainStep ==
  \/ StartProcess \/ Connected \/ (\E c \in Commands : EnterHandler(c)) \/ Subscribe
  \/ Announce \/ Started \/ ClaimBatch \/ (\E n \in Versions : PublishRow(n))
  \/ RowAcknowledged \/ EndBatch \/ Disconnect

Next ==
  \/ LibraryStep \/ WillFires \/ MainStep
  \/ \E a \in Agents : JobStep(a) \/ ReadControlFails(a)
  \/ \E a \in Threads : TakeTask(a)
  \/ \E c \in Commands : HomeAssistantSends(c)
  \/ LinkLost \/ PolicyEndsOverride \/ RowTimesOut \/ RecordingFails \/ Stop \/ Crash

Spec == Init /\ [][Next]_vars

\* The library reconnects and sends, threads run what they have taken and take
\* what is queued, and the main thread goes on.
FairSpec ==
  /\ Spec
  /\ WF_vars(LibraryStep) /\ WF_vars(WillFires) /\ WF_vars(MainStep)
  /\ \A a \in Agents : WF_vars(JobStep(a))
  /\ \A a \in Threads : WF_vars(TakeTask(a))

-----------------------------------------------------------------------------
(* Properties.                                                             *)

\* Nothing is under way.
Settled ==
  /\ main = "running" /\ link /\ ~resubscribing.on
  /\ queue = <<>> /\ outgoing = <<>>
  /\ \A a \in Agents : job[a] = Idle

\* Once the process is gone and the broker knows, availability is offline: by
\* the will after a crash, by disconnect() after a stop.
StoppedMeansOffline ==
  main = "down" /\ ~session => retained.availability = "offline"

\* It holds unless a reconnect or its republication fell into stop().
OfflineUnlessOvertaken == "online" \in late \/ StoppedMeansOffline

\* When everything has settled, availability is online, whatever sequence of
\* lost connections, wills and takeovers came before.
SettledMeansOnline == Settled /\ ~aborted => retained.availability = "online"

\* ... and every command topic is subscribed in the present session.
CommandsReachable == Settled => subscribed = Commands

\* It holds unless the library's callback met start() while it registered
\* handlers and raised.
ReachableUnlessAborted == aborted \/ CommandsReachable

\* With one executor thread commands are handled in the order they were sent.
CommandsInOrder == [][handled' >= handled]_vars

Published == \A n \in Versions : rows[n] \in {"absent", "published"}

\* When everything has settled and every outbox row is published, Home Assistant
\* shows the control state of the database.
ControlNotStale == Settled /\ Published => retained.control = version

\* It holds unless something was published that was older than what the outbox
\* had published before, by a republication that had read it earlier or by the
\* outbox itself; and it holds again once the outbox publishes the newest row.
FreshUnlessOvertaken == "control" \in late \/ ControlNotStale

\* A lost connection is recovered from.
EventuallyRestored ==
  main = "running" /\ ~connected ~>
    \/ retained.availability = "online" /\ subscribed = Commands
    \/ aborted \/ main \in {"stopping", "down"}

=============================================================================
