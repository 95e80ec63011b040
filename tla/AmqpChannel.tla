----------------------------- MODULE AmqpChannel -----------------------------
(***************************************************************************)
(* The AMQP channel (amqp.go): a worker goroutine for every expectation,   *)
(* which connects, declares what it needs, consumes with auto-ack, and is  *)
(* meant to connect again; and publishToAMQP, which does the same on a     *)
(* connection of its own for every message.                                *)
(*                                                                         *)
(* RabbitMQ and the client library are external: exchanges, queues and     *)
(* bindings are durable, messages are not (they are published without a    *)
(* delivery mode); the broker forgets a message when it sends it to an     *)
(* auto-ack consumer; the library buffers what the worker has not received *)
(* and drops some of it when the connection ends.                          *)
(***************************************************************************)
EXTENDS Integers, Sequences, FiniteSets

CONSTANTS
    Workers,     \* the keys of om.repo.AMQPMocks
    Routes,      \* pairs of an exchange and a routing key
    Queues,
    Route,       \* [Workers -> Routes]: what a worker's expectation names,
    Queue,       \* [Workers -> Queues]: and its queue, or else the routing key
    KeyQueue,    \* [Routes -> Queues]: the queue named by the routing key
    Publishes,   \* [Workers -> Routes \cup {None}]: its mock's publish_amqp
    None,
    MaxMessages, \* bound: so many messages and no more come from outside
    MaxFaults    \* bound: failed calls, lost connections, deaths and restarts

ASSUME AmqpAssumption ==
    /\ Route \in [Workers -> Routes] /\ Queue \in [Workers -> Queues]
    /\ KeyQueue \in [Routes -> Queues]
    /\ Publishes \in [Workers -> Routes \cup {None}]
    /\ None \notin Routes
    /\ MaxMessages \in Nat /\ MaxFaults \in Nat

VARIABLES
    ready,       \* broker: the messages in each queue, numbered as they come
    bindings,    \* broker: pairs of a route and a queue
    count,       \* broker: how many messages came
    up,          \* the process runs
    pc,          \* the step of each worker
    consuming,   \* a worker's connection is alive and its consumer registered
    buffer,      \* deliveries that a worker has not received
    open,        \* connections a worker has dialled and not closed
    acted,       \* history: messages that each worker ran DoActions for
    faults

broker == <<ready, bindings, count>>
vars == <<ready, bindings, count, up, pc, consuming, buffer, open, acted, faults>>

Init ==
    /\ ready = [q \in Queues |-> <<>>]
    /\ bindings = {}
    /\ count = 0
    /\ up = FALSE
    /\ pc = [w \in Workers |-> "off"]
    /\ consuming = [w \in Workers |-> FALSE]
    /\ buffer = [w \in Workers |-> <<>>]
    /\ open = [w \in Workers |-> 0]
    /\ acted = [w \in Workers |-> <<>>]
    /\ faults = 0

GoTo(w, step) == pc' = [pc EXCEPT ![w] = step]

Fault == faults < MaxFaults /\ faults' = faults + 1

(***************************************************************************)
(* The process.                                                            *)
(***************************************************************************)

\* startAMQP.
StartAMQP ==
    /\ ~ up
    /\ up' = TRUE
    /\ pc' = [w \in Workers |-> "connect"]
    /\ UNCHANGED <<broker, consuming, buffer, open, acted, faults>>

\* Killed; or Fatalf in newAMQPChannel, because a worker or a publisher
\* cannot connect.
Die ==
    /\ up /\ Fault
    /\ up' = FALSE
    /\ pc' = [w \in Workers |-> "off"]
    /\ consuming' = [w \in Workers |-> FALSE]
    /\ buffer' = [w \in Workers |-> <<>>]
    /\ open' = [w \in Workers |-> 0]
    /\ UNCHANGED <<broker, acted>>

(***************************************************************************)
(* The broker and the client library, external.                            *)
(***************************************************************************)

\* A message for route r goes to every queue bound to it.
Arrive(r) ==
    /\ count' = count + 1
    /\ ready' = [q \in Queues |->
        IF <<r, q>> \in bindings THEN Append(ready[q], count + 1) ELSE ready[q]]

OthersPublish(r) ==
    /\ count < MaxMessages
    /\ Arrive(r)
    /\ UNCHANGED <<bindings, up, pc, consuming, buffer, open, acted, faults>>

\* To a consumer of its queue, which acknowledges by being there.
Deliver(w) ==
    LET q == Queue[w] IN
    /\ consuming[w] /\ ready[q] # <<>>
    /\ buffer' = [buffer EXCEPT ![w] = Append(@, Head(ready[q]))]
    /\ ready' = [ready EXCEPT ![q] = Tail(@)]
    /\ UNCHANGED <<bindings, count, up, pc, consuming, open, acted, faults>>

ConnectionLost(w) ==
    /\ consuming[w] /\ Fault
    /\ consuming' = [consuming EXCEPT ![w] = FALSE]
    /\ UNCHANGED <<broker, up, pc, buffer, open, acted>>

\* Every connection is lost, and every transient message.  Whoever is
\* between two calls finds its connection gone: a worker that is setting up
\* gives up, and a publisher drops its message.
BrokerRestarts ==
    /\ Fault
    /\ ready' = [q \in Queues |-> <<>>]
    /\ consuming' = [w \in Workers |-> FALSE]
    /\ pc' = [w \in Workers |->
        CASE pc[w] \in {"prepare", "consume"} -> "gone"
          [] pc[w] \in {"declare", "publish"} -> "receive"
          [] OTHER -> pc[w]]
    /\ open' = [w \in Workers |->
        IF pc[w] \in {"declare", "publish"} THEN open[w] - 1 ELSE open[w]]
    /\ UNCHANGED <<bindings, count, up, buffer, acted>>

(***************************************************************************)
(* startWorker.                                                            *)
(***************************************************************************)

\* newAMQPChannel.
Connect(w) ==
    /\ pc[w] = "connect"
    /\ GoTo(w, "prepare")
    /\ open' = [open EXCEPT ![w] = @ + 1]
    /\ UNCHANGED <<broker, up, consuming, buffer, acted, faults>>

\* prepareChannel declares the exchange and the queue and binds them.
PrepareChannel(w) ==
    /\ pc[w] = "prepare"
    /\ GoTo(w, "consume")
    /\ bindings' = bindings \cup {<<Route[w], Queue[w]>>}
    /\ UNCHANGED <<ready, count, up, consuming, buffer, open, acted, faults>>

Consume(w) ==
    /\ pc[w] = "consume"
    /\ GoTo(w, "receive")
    /\ consuming' = [consuming EXCEPT ![w] = TRUE]
    /\ UNCHANGED <<broker, up, buffer, open, acted, faults>>

\* prepareChannel or Consume fails: the worker returns, without cleanUp.
GiveUp(w) ==
    /\ pc[w] \in {"prepare", "consume"} /\ Fault
    /\ GoTo(w, "gone")
    /\ UNCHANGED <<broker, up, consuming, buffer, open, acted>>

\* The next delivery.  What the library has not dropped yet is received
\* even when the connection is gone.
Receive(w) ==
    /\ pc[w] = "receive" /\ buffer[w] # <<>>
    /\ acted' = [acted EXCEPT ![w] = Append(@, Head(buffer[w]))]
    /\ buffer' = [buffer EXCEPT ![w] = Tail(@)]
    /\ GoTo(w, IF Publishes[w] = None THEN "receive" ELSE "dial")
    /\ UNCHANGED <<broker, up, consuming, open, faults>>

\* Deviation: the connection is not closed before the next one is dialled.
ReconnectWithoutCleanUp(w) ==
    /\ pc[w] = "receive" /\ ~ consuming[w]
    /\ buffer' = [buffer EXCEPT ![w] = <<>>]
    /\ GoTo(w, "connect")
    /\ UNCHANGED <<broker, up, consuming, open, acted, faults>>

\* Deviation: what was delivered and not received is published again.
ReconnectRequeueing(w) ==
    /\ pc[w] = "receive" /\ ~ consuming[w]
    /\ ready' = [ready EXCEPT ![Queue[w]] = @ \o buffer[w]]
    /\ buffer' = [buffer EXCEPT ![w] = <<>>]
    /\ open' = [open EXCEPT ![w] = @ - 1]
    /\ GoTo(w, "connect")
    /\ UNCHANGED <<bindings, count, up, consuming, acted, faults>>

\* Deviation: the new connection is prepared but the old deliveries channel
\* is ranged over again.
ReconnectToOldChannel(w) ==
    /\ pc[w] = "receive" /\ ~ consuming[w]
    /\ buffer' = [buffer EXCEPT ![w] = <<>>]
    /\ UNCHANGED <<broker, up, pc, consuming, open, acted, faults>>

\* The deliveries channel is closed: cleanUp, and round the loop.
Reconnect(w) ==
    /\ pc[w] = "receive" /\ ~ consuming[w]
    /\ buffer' = [buffer EXCEPT ![w] = <<>>]
    /\ open' = [open EXCEPT ![w] = @ - 1]
    /\ GoTo(w, "connect")
    /\ UNCHANGED <<broker, up, consuming, acted, faults>>

(***************************************************************************)
(* publishToAMQP, of the mock that the worker of w is running.             *)
(***************************************************************************)

PublishDial(w) ==
    /\ pc[w] = "dial"
    /\ GoTo(w, "declare")
    /\ open' = [open EXCEPT ![w] = @ + 1]
    /\ UNCHANGED <<broker, up, consuming, buffer, acted, faults>>

\* Deviation: only consumers bind queues.
PublishWithoutBinding(w) ==
    /\ pc[w] = "declare"
    /\ GoTo(w, "publish")
    /\ UNCHANGED <<broker, up, consuming, buffer, open, acted, faults>>

\* prepareChannel with no queue: the routing key names one.
PublishPrepare(w) ==
    /\ pc[w] = "declare"
    /\ GoTo(w, "publish")
    /\ bindings' = bindings \cup {<<Publishes[w], KeyQueue[Publishes[w]]>>}
    /\ UNCHANGED <<ready, count, up, consuming, buffer, open, acted, faults>>

\* The message leaves, and the connection is closed.
Publish(w) ==
    /\ pc[w] = "publish"
    /\ Arrive(Publishes[w])
    /\ GoTo(w, "receive")
    /\ open' = [open EXCEPT ![w] = @ - 1]
    /\ UNCHANGED <<bindings, up, consuming, buffer, acted, faults>>

\* Deviation: the worker starts over after a failed publication.
PublishFailsAndReconnects(w) ==
    /\ pc[w] \in {"declare", "publish"} /\ Fault
    /\ GoTo(w, "connect")
    /\ open' = [open EXCEPT ![w] = @ - 2]
    /\ UNCHANGED <<broker, up, consuming, buffer, acted>>

\* prepareChannel or Publish fails: logged, and the message is dropped.
PublishFails(w) ==
    /\ pc[w] \in {"declare", "publish"} /\ Fault
    /\ GoTo(w, "receive")
    /\ open' = [open EXCEPT ![w] = @ - 1]
    /\ UNCHANGED <<broker, up, consuming, buffer, acted>>

StartWorker(w) ==
    \/ Connect(w) \/ PrepareChannel(w) \/ Consume(w)
    \/ Receive(w) \/ Reconnect(w)
    \/ PublishDial(w) \/ PublishPrepare(w) \/ Publish(w)

Next ==
    \/ StartAMQP \/ Die
    \/ \E r \in Routes : OthersPublish(r)
    \/ BrokerRestarts
    \/ \E w \in Workers :
        \/ StartWorker(w) \/ GiveUp(w) \/ PublishFails(w)
        \/ Deliver(w) \/ ConnectionLost(w)

(***************************************************************************)
(* Goroutines run, the supervisor starts the process again, and the broker *)
(* delivers to a consumer that is there.                                   *)
(***************************************************************************)
Fairness ==
    /\ WF_vars(StartAMQP)
    /\ \A w \in Workers : WF_vars(StartWorker(w)) /\ WF_vars(Deliver(w))

Spec == Init /\ [][Next]_vars

FairSpec == Spec /\ Fairness

-----------------------------------------------------------------------------

Steps == {"off", "connect", "prepare", "consume", "receive", "dial", "declare",
          "publish", "gone"}

\* Types; and only a worker past Consume has a consumer (startWorker).
TypeOK ==
    /\ ready \in [Queues -> Seq(Nat)]
    /\ bindings \subseteq Routes \X Queues
    /\ count \in Nat
    /\ up \in BOOLEAN
    /\ pc \in [Workers -> Steps]
    /\ \A w \in Workers : pc[w] = "off" <=> ~ up
    /\ consuming \in [Workers -> BOOLEAN]
    /\ \A w \in Workers :
        consuming[w] => pc[w] \in {"receive", "dial", "declare", "publish"}
    /\ buffer \in [Workers -> Seq(Nat)]
    /\ open \in [Workers -> Nat]
    /\ acted \in [Workers -> Seq(Nat)]
    /\ faults \in 0..MaxFaults

\* The messages of worker w's queue, from the first acted on to the last in.
Stream(w) == acted[w] \o buffer[w] \o ready[Queue[w]]

(***************************************************************************)
(* At most once, and in order: a worker acts on the messages of its queue  *)
(* in the order in which they came, and on none twice, whatever happens to *)
(* its connection, the process and the broker.  (startWorker consumes with *)
(* auto-ack, and DoActions runs in the receiving goroutine.)               *)
(***************************************************************************)
ActedInOrder ==
    \A w \in Workers : \A j, k \in 1..Len(Stream(w)) :
        j < k => Stream(w)[j] < Stream(w)[k]

(***************************************************************************)
(* No connection is leaked over reconnections and publications: a worker   *)
(* has one, and one more while it publishes; none when it dials.  (A worker*)
(* that gave up keeps its connection, but it dials no other.)              *)
(***************************************************************************)
ConnectionsAreClosed ==
    \A w \in Workers :
        open[w] = CASE pc[w] \in {"off", "connect"} -> 0
                    [] pc[w] \in {"declare", "publish"} -> 2
                    [] OTHER -> 1

(***************************************************************************)
(* A message that a mock publishes has a queue to go to, even if no worker *)
(* consumes on its route, and it goes to every worker that does.           *)
(* (publishToAMQP prepares the channel first, and so does startWorker;     *)
(* Publish is not mandatory, so the broker would drop the message in       *)
(* silence.)                                                               *)
(***************************************************************************)
PublishedIsRouted ==
    \A w \in Workers : pc[w] = "publish" =>
        /\ \E q \in Queues : <<Publishes[w], q>> \in bindings
        /\ \A v \in Workers : consuming[v] /\ Route[v] = Publishes[w] =>
            <<Publishes[w], Queue[v]>> \in bindings

(***************************************************************************)
(* A queue is drained: no message waits in it for ever, unless its worker  *)
(* gave up.                                                                *)
(***************************************************************************)
QueuesAreDrained ==
    \A w \in Workers : \A m \in 1..MaxMessages :
        (\E j \in 1..Len(ready[Queue[w]]) : ready[Queue[w]][j] = m)
        ~> (\/ \A j \in 1..Len(ready[Queue[w]]) : ready[Queue[w]][j] # m
            \/ pc[w] = "gone")

=============================================================================
