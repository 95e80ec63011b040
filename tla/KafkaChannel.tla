----------------------------- MODULE KafkaChannel -----------------------------
(***************************************************************************)
(* The Kafka channel (kafka.go): one goroutine per mocked topic, each with *)
(* a consumer of its own in the same consumer group, a producer that they  *)
(* share, and Stop, which admin.Setup defers and which therefore races     *)
(* with the start.  A topic has one partition.                             *)
(*                                                                         *)
(* The broker and the group protocol of sarama-cluster are external: a     *)
(* consumer starts where its group has committed, or behind the newest     *)
(* message if it has committed nothing; marked offsets are committed in    *)
(* the background; and a rebalance starts the reading over.                *)
(***************************************************************************)
EXTENDS Integers, Sequences, FiniteSets

CONSTANTS
    Topics,      \* topics that some mock expects
    Forward,     \* [Topics -> Topics \cup {None}]: where its mock publishes
    Open,        \* topics to which others publish, too
    None,        \* no topic; no offset
    MaxLog,      \* bound: a topic this long gets no more messages from outside
    MaxFaults    \* bound: failed calls, rebalances and deaths of the process

ASSUME KafkaAssumption ==
    /\ Forward \in [Topics -> Topics \cup {None}]
    /\ Open \subseteq Topics
    /\ None \notin Topics \cup Int
    /\ MaxLog \in Nat /\ MaxFaults \in Nat

VARIABLES
    log,         \* broker: a message is whether the pipeline can decode it
    committed,   \* broker: the group's next offset, or None
    phase,       \* "down", "starting", "up": om.startKafka has run
    producer,    \* "none", "open", "closed"
    worker,      \* the goroutine of a topic: its step and the offset in hand
    consumer,    \* the goroutine's consumer: "none", "open", "closed"
    next,        \* the consumer's position
    marked,      \* the consumer's marked offset
    consumers,   \* kafkaClient.consumers
    seen,        \* what a goroutine read there before its append writes
    stopDue,     \* Stop has still to be called in this life of the process
    handled,     \* history: offsets that DoActions ran for, without repeats
    first,       \* history: where a group without a commit last began
    faults

broker == <<log, committed>>
client == <<consumer, next, marked>>
list == <<consumers, seen>>
history == <<handled, first>>
vars == <<log, committed, phase, producer, worker, consumer, next, marked,
          consumers, seen, stopDue, handled, first, faults>>

NoWork == [pc |-> "off", at |-> None]

Init ==
    /\ log = [t \in Topics |-> <<>>]
    /\ committed = [t \in Topics |-> None]
    /\ phase = "down"
    /\ producer = "none"
    /\ worker = [t \in Topics |-> NoWork]
    /\ consumer = [t \in Topics |-> "none"]
    /\ next = [t \in Topics |-> 0]
    /\ marked = [t \in Topics |-> None]
    /\ consumers = {}
    /\ seen = [t \in Topics |-> {}]
    /\ stopDue = FALSE
    /\ handled = [t \in Topics |-> <<>>]
    /\ first = [t \in Topics |-> 0]
    /\ faults = 0

(***************************************************************************)
(* The process.                                                            *)
(***************************************************************************)

Launch ==
    /\ phase = "down"
    /\ phase' = "starting"
    /\ stopDue' = TRUE
    /\ UNCHANGED <<broker, producer, worker, client, list, history, faults>>

\* Everything the process holds is gone.
Ends ==
    /\ phase' = "down"
    /\ producer' = "none"
    /\ worker' = [t \in Topics |-> NoWork]
    /\ consumer' = [t \in Topics |-> "none"]
    /\ next' = [t \in Topics |-> 0]
    /\ marked' = [t \in Topics |-> None]
    /\ consumers' = {}
    /\ seen' = [t \in Topics |-> {}]
    /\ stopDue' = FALSE

\* Killed; replaced by the admin API's reload; or Fatal because the producer
\* or a consumer cannot be created.
Die ==
    /\ phase # "down"
    /\ faults < MaxFaults
    /\ Ends
    /\ faults' = faults + 1
    /\ UNCHANGED <<broker, history>>

\* configKafka, and the goroutines that startKafka spawns.
StartKafka ==
    /\ phase = "starting"
    /\ phase' = "up"
    /\ producer' = "open"
    /\ worker' = [t \in Topics |-> [NoWork EXCEPT !.pc = "new"]]
    /\ UNCHANGED <<broker, client, list, stopDue, history, faults>>

(***************************************************************************)
(* The group protocol, external.                                           *)
(***************************************************************************)

\* The position of topic t from a commit of offset c: without one, behind
\* the newest message (Consumer.Offsets.Initial is left at OffsetNewest).
Position(t, c) == IF c = None THEN Len(log[t]) ELSE c

\* The consumer of t joins its group, which has committed c.
Join(t, c) ==
    /\ next' = [next EXCEPT ![t] = Position(t, c)]
    /\ marked' = [marked EXCEPT ![t] = c]
    /\ first' = IF c = None THEN [first EXCEPT ![t] = Len(log[t])] ELSE first

Commit(t) ==
    /\ consumer[t] = "open"
    /\ committed[t] # marked[t]
    /\ committed' = [committed EXCEPT ![t] = marked[t]]
    /\ UNCHANGED <<log, phase, producer, worker, client, list, stopDue,
                   history, faults>>

\* Another member joins or leaves the group.  What is marked is committed
\* first, if that succeeds; a message in the goroutine's hands stays there.
Rebalance(t) ==
    /\ consumer[t] = "open"
    /\ faults < MaxFaults
    /\ \E c \in {committed[t], marked[t]} :
        /\ committed' = [committed EXCEPT ![t] = c]
        /\ Join(t, c)
    /\ faults' = faults + 1
    /\ UNCHANGED <<log, phase, producer, worker, consumer, list, stopDue, handled>>

Produce(t, decodable) ==
    /\ Len(log[t]) < MaxLog
    /\ log' = [log EXCEPT ![t] = Append(@, decodable)]
    /\ UNCHANGED <<committed, phase, producer, worker, client, list, stopDue,
                   history, faults>>

(***************************************************************************)
(* The goroutine of a topic.                                               *)
(***************************************************************************)

GoTo(t, pc) == worker' = [worker EXCEPT ![t].pc = pc]

\* Deviation: a consumer that cannot be created is logged, and used.
NewConsumerUnchecked(t) ==
    /\ worker[t].pc = "new"
    /\ GoTo(t, "created")
    /\ consumer' \in {consumer, [consumer EXCEPT ![t] = "open"]}
    /\ Join(t, committed[t])
    /\ UNCHANGED <<broker, phase, producer, list, stopDue, handled, faults>>

\* cluster.NewConsumer.
NewConsumer(t) ==
    /\ worker[t].pc = "new"
    /\ GoTo(t, "created")
    /\ consumer' = [consumer EXCEPT ![t] = "open"]
    /\ Join(t, committed[t])
    /\ UNCHANGED <<broker, phase, producer, list, stopDue, handled, faults>>

\* consumers = append(consumers, consumer), which no lock protects: read ...
ReadList(t) ==
    /\ worker[t].pc = "created"
    /\ GoTo(t, "append")
    /\ seen' = [seen EXCEPT ![t] = consumers]
    /\ UNCHANGED <<broker, phase, producer, client, consumers, stopDue,
                   history, faults>>

\* ... and write.
WriteList(t) ==
    /\ worker[t].pc = "append"
    /\ GoTo(t, "poll")
    /\ consumers' = seen[t] \cup {t}
    /\ UNCHANGED <<broker, phase, producer, client, seen, stopDue, history, faults>>

\* Deviation: a message that does not decode is skipped.
ReceiveSkipping(t) ==
    /\ worker[t].pc = "poll" /\ consumer[t] = "open"
    /\ next[t] < Len(log[t])
    /\ next' = [next EXCEPT ![t] = @ + 1]
    /\ worker' = [worker EXCEPT ![t] =
        IF log[t][next[t] + 1] THEN [pc |-> "act", at |-> next[t]] ELSE @]
    /\ UNCHANGED <<broker, phase, producer, consumer, marked, list, stopDue,
                   history, faults>>

\* A message arrives and goes through the pipeline.  One that does not
\* decode ends the goroutine; its consumer stays in the group and in the
\* list.  (From a closed consumer the loop receives nothing, without end.)
Receive(t) ==
    /\ worker[t].pc = "poll" /\ consumer[t] = "open"
    /\ next[t] < Len(log[t])
    /\ next' = [next EXCEPT ![t] = @ + 1]
    /\ worker' = [worker EXCEPT ![t] =
        [pc |-> IF log[t][next[t] + 1] THEN "act" ELSE "gone", at |-> next[t]]]
    /\ UNCHANGED <<broker, phase, producer, consumer, marked, list, stopDue,
                   history, faults>>

\* sendMessage, of the mock of topic t.
Published(t) ==
    IF Forward[t] = None THEN log ELSE [log EXCEPT ![Forward[t]] = Append(@, TRUE)]

ActedOn(t, o) == \E j \in 1..Len(handled[t]) : handled[t][j] = o

Handled(t) ==
    handled' = IF ActedOn(t, worker[t].at) THEN handled
               ELSE [handled EXCEPT ![t] = Append(@, worker[t].at)]

\* ms.DoActions: its failures are logged and have no other effect.
DoActions(t) ==
    /\ worker[t].pc = "act"
    /\ Forward[t] # None => producer = "open"
    /\ \/ log' = Published(t) /\ UNCHANGED faults
       \/ /\ Forward[t] # None /\ faults < MaxFaults
          /\ faults' = faults + 1
          /\ UNCHANGED log
    /\ Handled(t)
    /\ GoTo(t, "mark")
    /\ UNCHANGED <<committed, phase, producer, client, list, stopDue, first>>

\* Sending on the channel of a closed producer panics.
PublishPanics(t) ==
    /\ worker[t].pc = "act"
    /\ Forward[t] # None /\ producer = "closed"
    /\ Ends
    /\ UNCHANGED <<broker, history, faults>>

\* Deviation: the goroutine receives once instead of in a loop.
MarkAndReturn(t) ==
    /\ worker[t].pc = "mark"
    /\ worker' = [worker EXCEPT ![t] = [pc |-> "gone", at |-> None]]
    /\ marked' =
        IF consumer[t] = "open" /\ (marked[t] = None \/ marked[t] <= worker[t].at)
        THEN [marked EXCEPT ![t] = worker[t].at + 1] ELSE marked
    /\ UNCHANGED <<broker, phase, producer, consumer, next, list, stopDue,
                   history, faults>>

\* consumer.MarkOffset: it never goes back, and a closed consumer has no
\* subscription to mark.
MarkOffset(t) ==
    /\ worker[t].pc = "mark"
    /\ worker' = [worker EXCEPT ![t] = [pc |-> "poll", at |-> None]]
    /\ marked' =
        IF consumer[t] = "open" /\ (marked[t] = None \/ marked[t] <= worker[t].at)
        THEN [marked EXCEPT ![t] = worker[t].at + 1] ELSE marked
    /\ UNCHANGED <<broker, phase, producer, consumer, next, list, stopDue,
                   history, faults>>

(***************************************************************************)
(* OpenMock.Stop and kafkaClient.close.                                    *)
(***************************************************************************)

\* Before configKafka there is no client, and Stop does nothing.
StopTooEarly ==
    /\ stopDue /\ producer = "none"
    /\ stopDue' = FALSE
    /\ UNCHANGED <<broker, phase, producer, worker, client, list, history, faults>>

\* Closing a consumer commits what is marked, if that succeeds.  The first
\* consumer that fails to close leaves the ones after it open, and the
\* producer.
Stop ==
    /\ stopDue /\ producer = "open"
    /\ stopDue' = FALSE
    /\ \E closed \in SUBSET consumers, saved \in SUBSET consumers :
        /\ saved \subseteq closed
        /\ saved # consumers => faults < MaxFaults
        /\ consumer' = [t \in Topics |-> IF t \in closed THEN "closed" ELSE consumer[t]]
        /\ committed' = [t \in Topics |-> IF t \in saved THEN marked[t] ELSE committed[t]]
        /\ producer' = IF saved = consumers THEN "closed" ELSE producer
        /\ faults' = IF saved = consumers THEN faults ELSE faults + 1
    /\ UNCHANGED <<log, phase, worker, next, marked, list, history>>

Worker(t) ==
    \/ NewConsumer(t) \/ ReadList(t) \/ WriteList(t)
    \/ Receive(t) \/ DoActions(t) \/ PublishPanics(t) \/ MarkOffset(t)

Next ==
    \/ Launch \/ StartKafka \/ Die
    \/ StopTooEarly \/ Stop
    \/ \E t \in Topics :
        Worker(t) \/ Commit(t) \/ Rebalance(t)
    \/ \E t \in Open, decodable \in BOOLEAN : Produce(t, decodable)

\* Goroutines run and the supervisor restarts the process; nobody need
\* produce, and nothing need fail or be stopped.
Fairness ==
    /\ WF_vars(Launch) /\ WF_vars(StartKafka)
    /\ \A t \in Topics : WF_vars(Worker(t))

Spec == Init /\ [][Next]_vars

FairSpec == Spec /\ Fairness

-----------------------------------------------------------------------------

Offset == Nat \cup {None}

\* Types; and a goroutine past its start has a consumer (startKafka).
TypeOK ==
    /\ log \in [Topics -> Seq(BOOLEAN)]
    /\ committed \in [Topics -> Offset]
    /\ phase \in {"down", "starting", "up"}
    /\ producer \in {"none", "open", "closed"}
    /\ worker \in [Topics -> [pc : {"off", "new", "created", "append", "poll",
                                    "act", "mark", "gone"}, at : Offset]]
    /\ consumer \in [Topics -> {"none", "open", "closed"}]
    /\ \A t \in Topics :
        consumer[t] = "none" <=> worker[t].pc \in {"off", "new"}
    /\ next \in [Topics -> Nat] /\ marked \in [Topics -> Offset]
    /\ \A t \in Topics : next[t] <= Len(log[t])
    /\ consumers \subseteq Topics /\ seen \in [Topics -> SUBSET Topics]
    /\ stopDue \in BOOLEAN
    /\ handled \in [Topics -> Seq(Nat)] /\ first \in [Topics -> Nat]
    /\ faults \in 0..MaxFaults

\* Whatever its group has begun with is acted on, up to offset o.
ActedOnUpTo(t, o) == \A p \in first[t]..(o - 1) : ActedOn(t, p)

(***************************************************************************)
(* At least once, and in order.  Behind the offset at which its group      *)
(* began, a message of a topic is acted on only after the one before it,   *)
(* through rebalances, failed actions, restarts and a Stop; and the group  *)
(* never commits past one that was not acted on.  So nothing behind an     *)
(* undecodable message is ever acted on, in this life of the process or a  *)
(* later one.  (kafka.go: MarkOffset comes after DoActions, and a decoding *)
(* error returns.)                                                         *)
(***************************************************************************)
HandledInOrder ==
    \A t \in Topics :
        /\ \A j \in 1..Len(handled[t]) :
            handled[t][j] > first[t] =>
                \E i \in 1..(j - 1) : handled[t][i] = handled[t][j] - 1
        /\ committed[t] # None => ActedOnUpTo(t, committed[t])

Decodable(t, upto) == \A o \in 0..upto : log[t][o + 1]

(***************************************************************************)
(* Once a group has committed anything, every message is acted on sooner   *)
(* or later, unless an undecodable one is before it or Stop got hold of    *)
(* the client.  (Before the first commit a restart skips what it missed.)  *)
(***************************************************************************)
EveryMessageHandled ==
    \A t \in Topics : \A o \in 0..MaxLog :
        (/\ committed[t] # None
         /\ o \in first[t]..Len(log[t]) - 1
         /\ Decodable(t, o))
        ~> (\/ ActedOn(t, o)
            \/ consumer[t] = "closed" \/ producer = "closed")
=============================================================================
