----------------------------- MODULE MqttSession -----------------------------
(***************************************************************************)
(* mqtt_task of the test stand (mqtt/client.rs) with the outbound queue    *)
(* (mqtt/queue.rs) that the sequencer, the servo and the collection tasks  *)
(* fill, the broker, and the network between them.                         *)
(*                                                                         *)
(* Four topics are retained by the broker: what they say must be what the  *)
(* board does, however often the connection breaks.  Everything else that  *)
(* is sent (samples, temperatures, log lines) is Other: it takes room, and *)
(* like every message it must be encoded before it is sent (Payloads).     *)
(* The tasks run on one executor, so that what a task does between two     *)
(* awaits is one action.                                                   *)
(***************************************************************************)
EXTENDS Payloads

CONSTANTS
  Order,          \* the retained topics, in the order publish_state_on_connect takes
  Values,         \* what a retained topic may say
  Capacity,       \* of OUTBOUND_QUEUE
  BatchSize,      \* messages sensor_collection_task queues in one go
  MaxSensors,     \* temperature sensors on the chain, at most
  CommandTopics,  \* the topics subscribed to, in order
  MaxCommands     \* bound: commands the operator publishes

Topics == {Order[i] : i \in 1..Len(Order)}

ASSUME MqttAssumption ==
  /\ Order \in Seq(STRING)
  /\ \A i, j \in 1..Len(Order) : Order[i] = Order[j] => i = j
  /\ "state" \in Topics /\ "other" \notin Topics
  /\ "FIRE" \in Values
  /\ Capacity \in Nat \ {0}
  /\ {BatchSize, MaxSensors} \subseteq Nat \ {0}
  /\ CommandTopics \in Seq({"state", "servo", "shutdown"})
  /\ MaxCommands \in Nat

VARIABLES
  value,       \* CURRENT_STATE, CURRENT_SERVO_STATUS, ..., LAST_ARMED_VALUE
  queue,       \* OUTBOUND_QUEUE
  phase,       \* where mqtt_task is: offline, connecting (DNS and TCP), greeting (it
               \* awaits the CONNACK), subscribing, session, delay
  sending,     \* the message client.publish is writing
  subacks,     \* counted by subscribe_to_commands
  shutdown,    \* SHUTDOWN_SIGNAL
  reachable,   \* whether the network and the broker answer
  alive,       \* whether the connection is one the broker still knows
  subscribed,  \* SUBSCRIBE packets the broker has served on it
  inbox,       \* packets from the broker, not yet read
  partial,     \* the last of them has arrived in part only
  retained,    \* what the broker retains: a set of one value, or none
  delivered,   \* commands the operator has published
  lost         \* history: the newest value of the topic found the queue full

taskVars == <<phase, sending, subacks>>
linkVars == <<reachable, alive, subscribed, inbox, partial>>
vars == <<value, queue, taskVars, shutdown, linkVars, retained, delivered, lost>>

Status(t) == [topic |-> t, value |-> value[t]]

\* A message of a topic that is not retained.
Other == [topic |-> "other"]

Messages == [topic : Topics, value : Values] \cup {Other}

\* A message stands for all the kinds it may be of: those that are retained, or not.
Encodes(m) == IF m = Other THEN SamplesEncode ELSE StatusesEncode

Subscriptions == Len(CommandTopics)

(***************************************************************************)
(* The outbound queue: enqueue is a try_send, and a batch ends at the      *)
(* first message that finds the queue full.                                *)
(***************************************************************************)
Fits(q, n) == IF n < Capacity - Len(q) THEN n ELSE Capacity - Len(q)

\* A channel that makes room for the newest by forgetting the oldest.
OfferNewest(q, messages) ==
  LET all == q \o messages
  IN  IF Len(all) <= Capacity THEN all ELSE SubSeq(all, Len(all) - Capacity + 1, Len(all))

Offer(q, messages) == q \o SubSeq(messages, 1, Fits(q, Len(messages)))

Others(n) == [i \in 1..n |-> Other]

ForgetLast ==
  [i \in 1..Len(Order) |-> IF i = Len(Order) THEN Other ELSE Status(Order[i])]
  \o <<Other>>

\* What publish_state_on_connect queues: the values of the moment, and a log line.
Republication == [i \in 1..Len(Order) |-> Status(Order[i])] \o <<Other>>

Keep(q) == q

Rest(q) == Tail(q)

OneTooMany(n) == n > Subscriptions

AllAcked(n) == n = Subscriptions

Init ==
  /\ value \in [Topics -> Values \ {"FIRE"}]
  /\ queue = <<>>
  /\ phase = "offline"
  /\ sending = <<>>
  /\ subacks = 0
  /\ shutdown = FALSE
  /\ reachable \in BOOLEAN
  /\ alive = FALSE
  /\ subscribed = 0
  /\ inbox = <<>>
  /\ partial = FALSE
  /\ retained \in [Topics -> {{}} \cup {{v} : v \in Values}]
  /\ delivered = 0
  /\ lost = [t \in Topics |-> FALSE]

(***************************************************************************)
(* The other tasks.                                                        *)
(***************************************************************************)

\* A task stores a new value and queues it, with a log line for some topics.
Change(t) ==
  /\ \E v \in Values \ {value[t]}, logs \in 0..1 :
       /\ value' = [value EXCEPT ![t] = v]
       /\ queue' = Offer(queue, <<[topic |-> t, value |-> v]>> \o Others(logs))
  /\ lost' = [lost EXCEPT ![t] = Fits(queue, 1) = 0]
  /\ UNCHANGED <<taskVars, shutdown, linkVars, retained, delivered>>

\* Each task fills the queue as far as its samples go.
Collect(n) ==
  /\ queue' = Offer(queue, Others(n))
  /\ UNCHANGED <<value, taskVars, shutdown, linkVars, retained, delivered, lost>>

CollectSamples == Collect(BatchSize)

CollectTemperatures == \E n \in 1..MaxSensors : Collect(n)

(***************************************************************************)
(* The network, the broker and the operator.                               *)
(***************************************************************************)

\* The connection may outlive an outage, or end without the board being told.
NetworkDown ==
  /\ reachable
  /\ reachable' = FALSE
  /\ alive' \in {alive, FALSE}
  /\ UNCHANGED <<value, queue, taskVars, shutdown, subscribed, inbox, partial,
                 retained, delivered, lost>>

NetworkUp ==
  /\ ~reachable
  /\ reachable' = TRUE
  /\ UNCHANGED <<value, queue, taskVars, shutdown, alive, subscribed, inbox, partial,
                 retained, delivered, lost>>

Answers == alive /\ reachable

\* CONNACK, and a SUBACK for every SUBSCRIBE.  (One that has arrived in part keeps
\* the board waiting like one that has not come.)
BrokerAccepts ==
  /\ Answers
  /\ phase = "greeting"
  /\ inbox = <<>>
  /\ inbox' = <<"connack">>
  /\ UNCHANGED <<value, queue, taskVars, shutdown, reachable, alive, subscribed,
                 partial, retained, delivered, lost>>

BrokerAcks ==
  /\ Answers
  /\ phase # "greeting"
  /\ ~partial
  /\ subscribed < Subscriptions
  /\ subscribed' = subscribed + 1
  /\ inbox' = Append(inbox, "suback")
  /\ UNCHANGED <<value, queue, taskVars, shutdown, reachable, alive, partial, retained,
                 delivered, lost>>

\* A command reaches the board once its topic is subscribed to, whole or in parts.
Deliver ==
  /\ Answers
  /\ ~partial
  /\ delivered < MaxCommands
  /\ delivered' = delivered + 1
  /\ \E i \in 1..subscribed : inbox' = Append(inbox, CommandTopics[i])
  /\ partial' \in BOOLEAN
  /\ UNCHANGED <<value, queue, taskVars, shutdown, reachable, alive, subscribed,
                 retained, lost>>

RestArrives ==
  /\ Answers
  /\ partial
  /\ partial' = FALSE
  /\ UNCHANGED <<value, queue, taskVars, shutdown, reachable, alive, subscribed, inbox,
                 retained, delivered, lost>>

(***************************************************************************)
(* mqtt_task.                                                              *)
(***************************************************************************)

\* wait_link_up and wait_config_up return: the broker may be out of reach yet.
LinkUp ==
  /\ phase = "offline"
  /\ phase' = "connecting"
  /\ UNCHANGED <<value, queue, sending, subacks, shutdown, linkVars, retained,
                 delivered, lost>>

\* DNS and TCP succeed, and the CONNECT is on its way.
Connect ==
  /\ phase = "connecting"
  /\ reachable
  /\ phase' = "greeting"
  /\ alive' = TRUE
  /\ UNCHANGED <<value, queue, sending, subacks, shutdown, reachable, subscribed,
                 inbox, partial, retained, delivered, lost>>

\* The next packet has arrived in full: poll, and connect, wait until it has.
PacketArrived == inbox # <<>> /\ (partial => Len(inbox) > 1)

\* client.connect returns, and the SUBSCRIBEs are on their way.
ReadConnack ==
  /\ phase = "greeting"
  /\ PacketArrived
  /\ Head(inbox) = "connack"
  /\ phase' = "subscribing"
  /\ inbox' = Tail(inbox)
  /\ UNCHANGED <<value, queue, sending, subacks, shutdown, reachable, alive,
                 subscribed, partial, retained, delivered, lost>>

ReadSuback ==
  /\ phase = "subscribing"
  /\ ~AllAcked(subacks)
  /\ PacketArrived
  /\ Head(inbox) = "suback"
  /\ subacks' = subacks + 1
  /\ inbox' = Tail(inbox)
  /\ UNCHANGED <<value, queue, phase, sending, shutdown, reachable, alive,
                 subscribed, partial, retained, delivered, lost>>

\* A command before the last SUBACK is logged and forgotten.
DiscardCommand ==
  /\ phase = "subscribing"
  /\ ~AllAcked(subacks)
  /\ PacketArrived
  /\ Head(inbox) # "suback"
  /\ inbox' = Tail(inbox)
  /\ UNCHANGED <<value, queue, taskVars, shutdown, reachable, alive, subscribed,
                 partial, retained, delivered, lost>>

\* publish_state_on_connect, which ignores that the queue may be full.
StartSession ==
  /\ phase = "subscribing"
  /\ AllAcked(subacks)
  /\ phase' = "session"
  /\ queue' = Offer(queue, Republication)
  /\ lost' = [t \in Topics |->
                ~ \E i \in 1..Fits(queue, Len(Order)) : Order[i] = t]
  /\ UNCHANGED <<value, sending, subacks, shutdown, linkVars, retained, delivered>>

InSession == phase = "session" /\ sending = <<>>

Firing == value["state"] = "FIRE"

\* poll_header has returned, and poll_body waits for the rest of the packet: nothing
\* is sent meanwhile.
HalfRead == InSession /\ inbox # <<>> /\ ~PacketArrived

\* dispatch: a command for the sequencer or the servo goes to their channels; one
\* for the servo or the shutdown is answered with a log line in FIRE.  What is no
\* word of its topic is rejected.
HandleCommand ==
  /\ InSession
  /\ PacketArrived
  /\ inbox' = Tail(inbox)
  /\ \E word \in Words :
       LET topic == IF Decodes(Head(inbox), word) THEN Head(inbox) ELSE "none"
       IN  /\ queue' = IF (topic = "servo" /\ Firing) \/ topic = "shutdown"
                         THEN Offer(queue, <<Other>>)
                         ELSE queue
           /\ shutdown' = (shutdown \/ (topic = "shutdown" /\ ~Firing))
  /\ UNCHANGED <<value, taskVars, reachable, alive, subscribed, partial, retained,
                 delivered, lost>>

\* client.publish returns; on a connection the broker has forgotten, in vain.
Sent ==
  /\ sending # <<>>
  /\ alive => reachable
  /\ sending' = <<>>
  /\ retained' = IF alive /\ Head(sending) # Other
                   THEN [retained EXCEPT ![Head(sending).topic] = {Head(sending).value}]
                   ELSE retained
  /\ UNCHANGED <<value, queue, phase, subacks, shutdown, linkVars, delivered, lost>>

\* The connection is dropped, and with it what has been queued meanwhile.
EndSession ==
  /\ phase' = "delay"
  /\ queue' = <<>>
  /\ sending' = <<>>
  /\ subacks' = 0
  /\ alive' = FALSE
  /\ subscribed' = 0
  /\ inbox' = <<>>
  /\ partial' = FALSE
  /\ UNCHANGED <<value, shutdown, reachable, retained, delivered, lost>>

\* select polls the connection first, and a packet that has begun keeps the queue
\* waiting.  A message that cannot be encoded ends the
\* session.
TakeOutbound ==
  /\ InSession
  /\ inbox = <<>>
  /\ queue # <<>>
  /\ IF Encodes(Head(queue))
     THEN /\ sending' = <<Head(queue)>>
          /\ queue' = Rest(queue)
          /\ UNCHANGED <<value, phase, subacks, shutdown, linkVars, retained,
                         delivered, lost>>
     ELSE EndSession

\* DNS fails in time, and so may TCP; it may as well go on trying.
ConnectFails ==
  /\ phase = "connecting"
  /\ ~reachable
  /\ EndSession

\* The board is told that the connection has ended; if it is not, it waits on.
HandshakeFails ==
  /\ phase \in {"greeting", "subscribing"}
  /\ ~Answers
  /\ EndSession

SessionFails ==
  /\ phase = "session"
  /\ ~Answers
  /\ EndSession

Reconnect ==
  /\ phase = "delay"
  /\ phase' = "offline"
  /\ UNCHANGED <<value, queue, sending, subacks, shutdown, linkVars, retained,
                 delivered, lost>>

MqttTask ==
  \/ LinkUp
  \/ Connect
  \/ ReadConnack
  \/ ReadSuback
  \/ DiscardCommand
  \/ StartSession
  \/ HandleCommand
  \/ TakeOutbound
  \/ Sent
  \/ Reconnect

Broker == BrokerAccepts \/ BrokerAcks \/ RestArrives

Next ==
  \/ \E t \in Topics : Change(t)
  \/ CollectSamples
  \/ CollectTemperatures
  \/ NetworkDown
  \/ NetworkUp
  \/ Broker
  \/ Deliver
  \/ MqttTask
  \/ ConnectFails
  \/ HandshakeFails
  \/ SessionFails

(***************************************************************************)
(* A task that can go on does, the broker answers while it can be reached, *)
(* and a session whose connection the broker has forgotten is reset, since *)
(* the collection tasks keep it sending.  Nothing of the kind resets a     *)
(* task that only waits: for CONNACK, a SUBACK or the rest of a packet.    *)
(***************************************************************************)
Fairness ==
  /\ WF_vars(MqttTask)
  /\ WF_vars(Broker)
  /\ WF_vars(reachable /\ ~HalfRead /\ SessionFails)

Spec == Init /\ [][Next]_vars /\ Fairness

(***************************************************************************)
(* Properties.                                                             *)
(***************************************************************************)

\* Every variable keeps to its type and the queue to its capacity.
TypeOK ==
  /\ value \in [Topics -> Values]
  /\ queue \in Seq(Messages) /\ Len(queue) <= Capacity
  /\ phase \in {"offline", "connecting", "greeting", "subscribing", "session", "delay"}
  /\ sending \in Seq(Messages) /\ Len(sending) <= 1
  /\ subacks \in 0..Subscriptions
  /\ {shutdown, reachable, alive, partial} \subseteq BOOLEAN
  /\ subscribed \in 0..Subscriptions
  /\ inbox \in Seq({"connack", "suback", "state", "servo", "shutdown"})
  /\ retained \in [Topics -> {{}} \cup {{v} : v \in Values}]
  /\ delivered \in 0..MaxCommands
  /\ lost \in [Topics -> BOOLEAN]

Pipeline == sending \o queue

\* The last that the broker hears of a topic is m: on the line, or else kept.
Says(line, kept, m) ==
  \/ \E i \in 1..Len(line) :
       /\ line[i] = m
       /\ \A j \in (i + 1)..Len(line) : line[j].topic # m.topic
  \/ /\ \A i \in 1..Len(line) : line[i].topic # m.topic
     /\ kept = {m.value}

LastHeard(t) == Says(Pipeline, retained[t], Status(t))

\* Whatever a session sends, its reader can tell what was measured (Payloads).
SentCanBeRead == sending # <<>> => PayloadsAreLossless

\* In a session every retained topic will say what is so, whatever was lost with
\* earlier connections, unless its newest value found the queue full.
RetainedIsCurrent ==
  phase = "session" /\ alive => \A t \in Topics : lost[t] \/ LastHeard(t)

Outbound == INSTANCE OutboundDesign WITH line <- Pipeline

\* However connections break, the broker hears what was so, in the order in which it
\* was queued: no message overtakes another, and none says what was not so when it
\* was queued.
ImplementsOutbound == Outbound!Spec

\* A status that is queued reaches the broker while the session lasts.
StatusArrives ==
  \A t \in Topics, v \in Values :
    (/\ phase = "session"
     /\ \E i \in 1..Len(Pipeline) : Pipeline[i] = [topic |-> t, value |-> v])
    ~> (retained[t] = {v} \/ phase # "session" \/ ~Answers)

\* The connection has ended and nothing tells the task, which only waits: for the
\* CONNACK, for a SUBACK, or for the rest of a packet it has read in part.
Hung == ~alive /\ (phase \in {"greeting", "subscribing"} \/ HalfRead)

\* Once the broker stays within reach, there is a session on a living connection
\* again and it lasts, unless the task hangs: no timeout guards the wait for the
\* CONNACK, for a SUBACK or for the rest of a packet, and a connection that has
\* ended unnoticed during one of them is never given up.
Reconnects ==
  <>[]reachable => <>[]((phase = "session" /\ alive) \/ Hung)

\* "Published current state on connect": a new session makes the broker hear the
\* current state.  It does not when the queue has filled during the reconnect.
ConnectPublishesState ==
  [][phase = "subscribing" /\ phase' = "session"
       => \A t \in Topics : LastHeard(t)']_vars

\* It does if the queue has room for the values, whatever else is on the line.
RoomPublishesState ==
  [][phase = "subscribing" /\ phase' = "session" /\ Len(queue) + Len(Order) <= Capacity
       => \A t \in Topics : LastHeard(t)']_vars
=============================================================================
