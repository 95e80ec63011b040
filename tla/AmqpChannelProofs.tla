--------------------------- MODULE AmqpChannelProofs ---------------------------
(***************************************************************************)
(* Theorems about AmqpChannel, for any workers, routes, queues and mocks,  *)
(* and any bound on messages and faults.                                   *)
(***************************************************************************)
EXTENDS AmqpChannel, SequenceTheorems, TLAPS

USE AmqpAssumption

\* A worker that is ready to consume has bound its queue, one that is ready
\* to publish has bound the queue of its route, and only a worker whose mock
\* publishes ever does.
QueuesAreBound ==
    \A w \in Workers :
        /\ pc[w] \in {"consume", "receive", "dial", "declare", "publish"} =>
            <<Route[w], Queue[w]>> \in bindings
        /\ pc[w] = "publish" => <<Publishes[w], KeyQueue[Publishes[w]]>> \in bindings
        /\ pc[w] \in {"dial", "declare", "publish"} => Publishes[w] \in Routes

\* The inductive invariant.  TypeOK needs the count of connections, which
\* never falls below zero.
IInv == TypeOK /\ ConnectionsAreClosed /\ QueuesAreBound

\* A message that arrives is numbered, wherever it is put.
LEMMA ArriveType ==
    ASSUME TypeOK, NEW r \in Routes, Arrive(r)
    PROVE  ready' \in [Queues -> Seq(Nat)] /\ count' \in Nat
BY DEF TypeOK, Arrive

\* One more fault stays within the bound.
LEMMA FaultType ==
    ASSUME TypeOK, Fault
    PROVE  faults' \in 0..MaxFaults
BY DEF TypeOK, Fault

\* It holds before the process starts.
LEMMA InitIInv == Init => IInv
<1> SUFFICES ASSUME Init PROVE IInv
  OBVIOUS
<1>1. TypeOK
  <2>1. \A w \in Workers : pc[w] = "off" <=> ~ up
    BY DEF Init
  <2>2. /\ ready \in [Queues -> Seq(Nat)]
        /\ buffer \in [Workers -> Seq(Nat)] /\ acted \in [Workers -> Seq(Nat)]
    BY DEF Init
  <2>3. /\ pc \in [Workers -> Steps] /\ open \in [Workers -> Nat]
        /\ consuming \in [Workers -> BOOLEAN] /\ faults \in 0..MaxFaults
    BY DEF Init, Steps
  <2> QED BY <2>1, <2>2, <2>3 DEF Init, TypeOK
<1>2. ConnectionsAreClosed /\ QueuesAreBound
  BY DEF Init, ConnectionsAreClosed, QueuesAreBound
<1> QED BY <1>1, <1>2 DEF IInv

\* The steps of a worker, none of which touches another worker.
LEMMA WorkerIInv ==
    ASSUME IInv, NEW w \in Workers, StartWorker(w) \/ GiveUp(w) \/ PublishFails(w)
    PROVE  IInv'
<1> USE DEF IInv, TypeOK, Steps, ConnectionsAreClosed, QueuesAreBound, GoTo
<1>1. CASE Connect(w)
  <2>1. open[w] = 0
    BY <1>1 DEF Connect
  <2>2. TypeOK'
    <3>1. open' \in [Workers -> Nat] /\ pc' \in [Workers -> Steps]
      BY <1>1, <2>1 DEF Connect
    <3>2. \A v \in Workers : pc'[v] = "off" <=> ~ up'
      BY <1>1 DEF Connect
    <3>3. \A v \in Workers :
            consuming'[v] => pc'[v] \in {"receive", "dial", "declare", "publish"}
      BY <1>1 DEF Connect
    <3> QED BY <1>1, <3>1, <3>2, <3>3 DEF Connect, broker
  <2>3. ConnectionsAreClosed'
    BY <1>1, <2>1 DEF Connect, broker
  <2>4. QueuesAreBound'
    BY <1>1 DEF Connect, broker
  <2> QED BY <2>2, <2>3, <2>4
<1>2. CASE PrepareChannel(w)
  <2>1. TypeOK'
    BY SMTT(30), <1>2 DEF PrepareChannel, broker
  <2>2. ConnectionsAreClosed'
    BY <1>2 DEF PrepareChannel, broker
  <2>3. QueuesAreBound'
    BY <1>2 DEF PrepareChannel, broker
  <2> QED BY <2>1, <2>2, <2>3
<1>3. CASE Consume(w)
  BY <1>3 DEF Consume, broker
<1>4. CASE Receive(w)
  <2>1. TypeOK'
    BY SMTT(30), <1>4 DEF Receive, broker
  <2>2. ConnectionsAreClosed'
    BY <1>4 DEF Receive, broker
  <2>3. QueuesAreBound'
    BY <1>4 DEF Receive, broker
  <2> QED BY <2>1, <2>2, <2>3
<1>5. CASE Reconnect(w)
  <2>1. open[w] = 1
    BY <1>5 DEF Reconnect
  <2>2. TypeOK'
    <3>1. /\ open' \in [Workers -> Nat] /\ pc' \in [Workers -> Steps]
          /\ buffer' \in [Workers -> Seq(Nat)]
      BY <1>5, <2>1 DEF Reconnect
    <3>2. \A v \in Workers : pc'[v] = "off" <=> ~ up'
      BY <1>5 DEF Reconnect
    <3>3. \A v \in Workers :
            consuming'[v] => pc'[v] \in {"receive", "dial", "declare", "publish"}
      BY <1>5 DEF Reconnect
    <3> QED BY <1>5, <3>1, <3>2, <3>3 DEF Reconnect, broker
  <2>3. ConnectionsAreClosed'
    BY <1>5, <2>1 DEF Reconnect, broker
  <2>4. QueuesAreBound'
    BY <1>5 DEF Reconnect, broker
  <2> QED BY <2>2, <2>3, <2>4
<1>6. CASE PublishDial(w)
  BY SMTT(30), <1>6 DEF PublishDial, broker
<1>7. CASE PublishPrepare(w)
  <2>1. <<Publishes[w], KeyQueue[Publishes[w]]>> \in Routes \X Queues
    BY <1>7 DEF PublishPrepare
  <2>2. TypeOK'
    BY <1>7, <2>1 DEF PublishPrepare
  <2>3. ConnectionsAreClosed'
    BY <1>7 DEF PublishPrepare
  <2>4. QueuesAreBound'
    BY <1>7 DEF PublishPrepare
  <2> QED BY <2>2, <2>3, <2>4
<1>8. CASE Publish(w)
  <2>1. Arrive(Publishes[w]) /\ Publishes[w] \in Routes
    BY <1>8 DEF Publish
  <2>2. ready' \in [Queues -> Seq(Nat)] /\ count' \in Nat
    BY <2>1, ArriveType
  <2>3. TypeOK'
    BY SMTT(30), <1>8, <2>2 DEF Publish
  <2>4. ConnectionsAreClosed' /\ QueuesAreBound'
    BY SMTT(30), <1>8 DEF Publish
  <2> QED BY <2>3, <2>4
<1>9. CASE GiveUp(w)
  BY <1>9, FaultType DEF GiveUp, broker
<1>10. CASE PublishFails(w)
  <2>1. faults' \in 0..MaxFaults
    BY <1>10, FaultType DEF PublishFails
  <2>2. TypeOK'
    BY SMTT(30), <1>10, <2>1 DEF PublishFails, broker
  <2>3. ConnectionsAreClosed'
    BY SMTT(30), <1>10 DEF PublishFails, broker
  <2>4. QueuesAreBound'
    BY <1>10 DEF PublishFails, broker
  <2> QED BY <2>2, <2>3, <2>4
<1> QED
  BY <1>1, <1>2, <1>3, <1>4, <1>5, <1>6, <1>7, <1>8, <1>9, <1>10 DEF StartWorker

\* The steps of the process, the broker and the client library.
LEMMA OutsideIInv ==
    ASSUME IInv,
           \/ StartAMQP \/ Die \/ BrokerRestarts
           \/ \E r \in Routes : OthersPublish(r)
           \/ \E w \in Workers : Deliver(w) \/ ConnectionLost(w)
    PROVE  IInv'
<1> USE DEF IInv, TypeOK, Steps, ConnectionsAreClosed, QueuesAreBound
<1>1. CASE StartAMQP
  <2>1. TypeOK'
    BY <1>1 DEF StartAMQP, broker
  <2>2. ConnectionsAreClosed' /\ QueuesAreBound'
    BY <1>1 DEF StartAMQP, broker
  <2> QED BY <2>1, <2>2
<1>2. CASE Die
  <2>1. faults' \in 0..MaxFaults
    BY <1>2, FaultType DEF Die
  <2>2. /\ pc' \in [Workers -> Steps] /\ open' \in [Workers -> Nat]
        /\ buffer' \in [Workers -> Seq(Nat)] /\ consuming' \in [Workers -> BOOLEAN]
    BY <1>2 DEF Die
  <2>3. \A w \in Workers : (pc'[w] = "off" <=> ~ up') /\ ~ consuming'[w]
    BY <1>2 DEF Die
  <2>4. TypeOK'
    BY <1>2, <2>1, <2>2, <2>3 DEF Die, broker
  <2>5. ConnectionsAreClosed' /\ QueuesAreBound'
    BY <1>2 DEF Die, broker
  <2> QED BY <2>4, <2>5
<1>3. CASE BrokerRestarts
  <2>1. faults' \in 0..MaxFaults
    BY <1>3, FaultType DEF BrokerRestarts
  <2>2. \A w \in Workers :
          /\ pc[w] \in {"prepare", "consume"} => pc'[w] = "gone"
          /\ pc[w] \in {"declare", "publish"} => pc'[w] = "receive"
          /\ pc[w] \notin {"prepare", "consume", "declare", "publish"} => pc'[w] = pc[w]
    BY <1>3 DEF BrokerRestarts
  <2>3. \A w \in Workers :
          open'[w] = IF pc[w] \in {"declare", "publish"} THEN 1 ELSE open[w]
    BY <1>3 DEF BrokerRestarts
  <2>4. /\ pc' \in [Workers -> Steps] /\ open' \in [Workers -> Nat]
        /\ ready' \in [Queues -> Seq(Nat)] /\ consuming' \in [Workers -> BOOLEAN]
    BY <1>3, <2>2, <2>3 DEF BrokerRestarts
  <2>5. \A w \in Workers : (pc'[w] = "off" <=> ~ up') /\ ~ consuming'[w]
    BY <1>3, <2>2 DEF BrokerRestarts
  <2>6. TypeOK'
    BY <1>3, <2>1, <2>4, <2>5 DEF BrokerRestarts
  <2>7. ConnectionsAreClosed'
    BY <2>2, <2>3
  <2>8. QueuesAreBound'
    BY <1>3, <2>2 DEF BrokerRestarts
  <2> QED BY <2>6, <2>7, <2>8
<1>4. ASSUME NEW r \in Routes, OthersPublish(r) PROVE IInv'
  BY <1>4, ArriveType DEF OthersPublish
<1>5. ASSUME NEW w \in Workers, Deliver(w) PROVE IInv'
  <2>1. Head(ready[Queue[w]]) \in Nat /\ Tail(ready[Queue[w]]) \in Seq(Nat)
    BY SMTT(30), <1>5 DEF Deliver
  <2>2. ready' \in [Queues -> Seq(Nat)] /\ buffer' \in [Workers -> Seq(Nat)]
    BY SMTT(30), <1>5, <2>1 DEF Deliver
  <2> QED BY <1>5, <2>2 DEF Deliver
<1>6. ASSUME NEW w \in Workers, ConnectionLost(w) PROVE IInv'
  <2>1. faults' \in 0..MaxFaults
    BY <1>6, FaultType DEF ConnectionLost
  <2> QED BY <1>6, <2>1 DEF ConnectionLost, broker
<1> QED BY <1>1, <1>2, <1>3, <1>4, <1>5, <1>6

\* Every step keeps it.
LEMMA Inductive == IInv /\ [Next]_vars => IInv'
<1> SUFFICES ASSUME IInv, [Next]_vars PROVE IInv'
  OBVIOUS
<1>1. CASE Next
  BY <1>1, WorkerIInv, OutsideIInv DEF Next
<1>2. CASE UNCHANGED vars
  BY <1>2 DEF vars, IInv, TypeOK, ConnectionsAreClosed, QueuesAreBound
<1> QED BY <1>1, <1>2

-----------------------------------------------------------------------------

\* The variables keep their types, only a worker past Consume has a consumer,
\* and the count of its connections never falls below zero (amqp.go).
THEOREM TypeCorrect == Spec => []TypeOK
<1>1. IInv => TypeOK
  BY DEF IInv
<1> QED BY <1>1, InitIInv, Inductive, PTL DEF Spec

\* No worker ever has a connection besides the one it consumes on and the
\* one it is publishing on (startWorker and publishToAMQP call cleanUp).
THEOREM NoLeak == Spec => []ConnectionsAreClosed
<1>1. IInv => ConnectionsAreClosed
  BY DEF IInv
<1> QED BY <1>1, InitIInv, Inductive, PTL DEF Spec

\* A publication goes to a queue, and to the queue of every worker that
\* consumes on its route (prepareChannel runs before Publish and Consume).
THEOREM Routed == Spec => []PublishedIsRouted
<1>1. IInv => PublishedIsRouted
  <2> SUFFICES ASSUME IInv, NEW w \in Workers, pc[w] = "publish"
               PROVE  /\ \E q \in Queues : <<Publishes[w], q>> \in bindings
                      /\ \A v \in Workers : consuming[v] /\ Route[v] = Publishes[w] =>
                            <<Publishes[w], Queue[v]>> \in bindings
    BY DEF PublishedIsRouted
  <2>1. KeyQueue[Publishes[w]] \in Queues
        /\ <<Publishes[w], KeyQueue[Publishes[w]]>> \in bindings
    BY DEF IInv, QueuesAreBound
  <2>2. \A v \in Workers : consuming[v] => <<Route[v], Queue[v]>> \in bindings
    BY DEF IInv, TypeOK, QueuesAreBound
  <2> QED BY <2>1, <2>2
<1> QED BY <1>1, InitIInv, Inductive, PTL DEF Spec
-----------------------------------------------------------------------------

Ascends(s) == \A j, k \in 1..Len(s) : j < k => s[j] < s[k]

Precedes(s, t) == \A j \in 1..Len(s), k \in 1..Len(t) : s[j] < t[k]

UpTo(s, n) == \A j \in 1..Len(s) : s[j] <= n

\* A queue holds its messages as they came, and a worker has received, and
\* has been delivered, none but earlier ones.
AsTheyCame ==
    /\ \A q \in Queues : Ascends(ready[q]) /\ UpTo(ready[q], count)
    /\ \A w \in Workers :
        /\ Ascends(acted[w]) /\ UpTo(acted[w], count)
        /\ Ascends(buffer[w]) /\ UpTo(buffer[w], count)
        /\ Precedes(acted[w], buffer[w])
        /\ Precedes(acted[w], ready[Queue[w]])
        /\ Precedes(buffer[w], ready[Queue[w]])

\* A later message is appended.
LEMMA AppendLater ==
    ASSUME NEW s \in Seq(Nat), NEW m \in Nat, NEW n \in Nat, UpTo(s, m), m < n,
           Ascends(s)
    PROVE  /\ Ascends(Append(s, n)) /\ UpTo(Append(s, n), n) /\ UpTo(s, n)
           /\ \A t \in Seq(Nat) :
                Precedes(t, s) /\ UpTo(t, m) => Precedes(t, Append(s, n))
<1>1. /\ Len(Append(s, n)) = Len(s) + 1 /\ Len(s) \in Nat
      /\ \A j \in 1..Len(s) : Append(s, n)[j] = s[j] /\ s[j] \in Nat
      /\ Append(s, n)[Len(s) + 1] = n
  OBVIOUS
<1>2. Ascends(Append(s, n)) /\ UpTo(Append(s, n), n) /\ UpTo(s, n)
  <2>1. \A j \in 1..Len(s) : s[j] < n
    BY <1>1 DEF UpTo
  <2>2. UpTo(Append(s, n), n) /\ UpTo(s, n)
    BY <1>1, <2>1 DEF UpTo
  <2>3. ASSUME NEW j \in 1..Len(Append(s, n)), NEW k \in 1..Len(Append(s, n)), j < k
        PROVE  Append(s, n)[j] < Append(s, n)[k]
    <3>1. j \in 1..Len(s)
      BY <1>1, <2>3
    <3>2. CASE k \in 1..Len(s)
      BY <1>1, <2>3, <3>1, <3>2 DEF Ascends
    <3>3. CASE k = Len(s) + 1
      BY <1>1, <2>1, <3>1, <3>3
    <3> QED BY <1>1, <3>2, <3>3
  <2> QED BY <2>2, <2>3 DEF Ascends
<1>3. ASSUME NEW t \in Seq(Nat), Precedes(t, s), UpTo(t, m)
      PROVE  Precedes(t, Append(s, n))
  <2>1. \A j \in 1..Len(t) : t[j] \in Nat /\ t[j] < n
    BY <1>3 DEF UpTo
  <2>2. ASSUME NEW j \in 1..Len(t), NEW k \in 1..Len(Append(s, n))
        PROVE  t[j] < Append(s, n)[k]
    <3>1. CASE k \in 1..Len(s)
      BY <1>1, <1>3, <3>1 DEF Precedes
    <3>2. CASE k = Len(s) + 1
      BY <1>1, <2>1, <3>2
    <3>3. k \in 1..Len(s) \/ k = Len(s) + 1
      BY SMTT(30), <1>1, <2>2
    <3> QED BY <3>1, <3>2, <3>3
  <2> QED BY <2>2 DEF Precedes
<1> QED BY <1>2, <1>3

\* The head of a queue is taken away.
LEMMA TakeHead ==
    ASSUME NEW s \in Seq(Nat), s # <<>>, NEW n \in Nat, Ascends(s), UpTo(s, n)
    PROVE  /\ Head(s) \in Nat /\ Head(s) <= n /\ Tail(s) \in Seq(Nat)
           /\ Ascends(Tail(s)) /\ UpTo(Tail(s), n)
           /\ \A j \in 1..Len(Tail(s)) : Head(s) < Tail(s)[j]
           /\ \A t \in Seq(Nat) : Precedes(t, s) =>
                Precedes(t, Tail(s)) /\ \A j \in 1..Len(t) : t[j] < Head(s)
           /\ \A t \in Seq(Nat) : Precedes(s, t) =>
                Precedes(Tail(s), t) /\ \A j \in 1..Len(t) : Head(s) < t[j]
<1>1. /\ Head(s) = s[1] /\ Tail(s) \in Seq(Nat) /\ Len(Tail(s)) = Len(s) - 1
      /\ \A j \in 1..Len(Tail(s)) : Tail(s)[j] = s[j + 1]
  BY HeadTailProperties
<1>2. Len(s) \in Nat /\ 1 \in 1..Len(s) /\ \A j \in 1..Len(s) : s[j] \in Nat
  OBVIOUS
<1>3. \A j \in 1..Len(Tail(s)) : j + 1 \in 1..Len(s) /\ 1 < j + 1
  BY <1>1, <1>2
<1>4. Ascends(Tail(s))
  BY <1>1, <1>3 DEF Ascends
<1>5. UpTo(Tail(s), n) /\ Head(s) <= n
  BY <1>1, <1>2, <1>3 DEF UpTo
<1>6. \A j \in 1..Len(Tail(s)) : Head(s) < Tail(s)[j]
  BY <1>1, <1>2, <1>3 DEF Ascends
<1>7. ASSUME NEW t \in Seq(Nat), Precedes(t, s)
      PROVE  Precedes(t, Tail(s)) /\ \A j \in 1..Len(t) : t[j] < Head(s)
  BY <1>1, <1>2, <1>3, <1>7 DEF Precedes
<1>8. ASSUME NEW t \in Seq(Nat), Precedes(s, t)
      PROVE  Precedes(Tail(s), t) /\ \A j \in 1..Len(t) : Head(s) < t[j]
  BY <1>1, <1>2, <1>3, <1>8 DEF Precedes
<1> QED BY <1>1, <1>2, <1>4, <1>5, <1>6, <1>7, <1>8

\* What comes between two sequences may be appended to the first of them.
LEMMA AppendBetween ==
    ASSUME NEW s \in Seq(Nat), NEW n \in Nat, NEW m \in Nat, n <= m,
           Ascends(s), UpTo(s, m), \A j \in 1..Len(s) : s[j] < n
    PROVE  /\ Ascends(Append(s, n)) /\ UpTo(Append(s, n), m)
           /\ \A t \in Seq(Nat) :
                Precedes(s, t) /\ (\A j \in 1..Len(t) : n < t[j])
                => Precedes(Append(s, n), t)
           /\ \A t \in Seq(Nat) :
                Precedes(t, s) /\ (\A j \in 1..Len(t) : t[j] < n)
                => Precedes(t, Append(s, n))
<1>1. /\ Len(Append(s, n)) = Len(s) + 1 /\ Len(s) \in Nat
      /\ \A j \in 1..Len(s) : Append(s, n)[j] = s[j] /\ s[j] \in Nat
      /\ Append(s, n)[Len(s) + 1] = n
  OBVIOUS
<1>2. Ascends(Append(s, n))
  BY <1>1 DEF Ascends
<1>3. UpTo(Append(s, n), m)
  BY <1>1 DEF UpTo
<1>4. ASSUME NEW t \in Seq(Nat), Precedes(s, t), \A j \in 1..Len(t) : n < t[j]
      PROVE  Precedes(Append(s, n), t)
  BY <1>1, <1>4 DEF Precedes
<1>5. ASSUME NEW t \in Seq(Nat), Precedes(t, s), \A j \in 1..Len(t) : t[j] < n
      PROVE  Precedes(t, Append(s, n))
  <2>1. ASSUME NEW j \in 1..Len(t), NEW k \in 1..Len(Append(s, n))
        PROVE  t[j] < Append(s, n)[k]
    <3>1. CASE k \in 1..Len(s)
      BY <1>1, <1>5, <3>1 DEF Precedes
    <3>2. CASE k = Len(s) + 1
      BY <1>1, <1>5, <3>2
    <3> QED BY <1>1, <3>1, <3>2
  <2> QED BY <2>1 DEF Precedes
<1> QED BY <1>2, <1>3, <1>4, <1>5

\* Of the empty sequence there is nothing to say.
LEMMA NothingCame ==
    /\ Ascends(<<>>) /\ \A n \in Nat : UpTo(<<>>, n)
    /\ \A t \in Seq(Nat) : Precedes(<<>>, t) /\ Precedes(t, <<>>)
BY DEF Ascends, UpTo, Precedes

\* A message arrives at the ends of queues, behind all that came before it.
LEMMA ArriveInOrder ==
    ASSUME TypeOK, AsTheyCame, NEW r \in Routes, Arrive(r),
           UNCHANGED <<buffer, acted>>
    PROVE  AsTheyCame'
<1> USE DEF TypeOK, AsTheyCame
<1>1. count \in Nat /\ count' = count + 1
  BY DEF Arrive
<1>2. ASSUME NEW q \in Queues
      PROVE  /\ Ascends(ready'[q]) /\ UpTo(ready'[q], count')
             /\ \A t \in Seq(Nat) :
                  Precedes(t, ready[q]) /\ UpTo(t, count) => Precedes(t, ready'[q])
  <2>1. ready[q] \in Seq(Nat) /\ Ascends(ready[q]) /\ UpTo(ready[q], count)
    OBVIOUS
  <2>2. ready'[q] = ready[q] \/ ready'[q] = Append(ready[q], count')
    BY <1>1 DEF Arrive
  <2>3. UpTo(ready[q], count')
    BY <1>1, <2>1, AppendLater
  <2>4. /\ Ascends(Append(ready[q], count')) /\ UpTo(Append(ready[q], count'), count')
        /\ \A t \in Seq(Nat) :
             Precedes(t, ready[q]) /\ UpTo(t, count)
             => Precedes(t, Append(ready[q], count'))
    BY <1>1, <2>1, AppendLater
  <2> QED BY <2>1, <2>2, <2>3, <2>4
<1>3. ASSUME NEW w \in Workers
      PROVE  /\ UpTo(acted[w], count') /\ UpTo(buffer[w], count')
             /\ Precedes(acted[w], ready'[Queue[w]])
             /\ Precedes(buffer[w], ready'[Queue[w]])
  <2>1. acted[w] \in Seq(Nat) /\ buffer[w] \in Seq(Nat) /\ Queue[w] \in Queues
    OBVIOUS
  <2>2. UpTo(acted[w], count') /\ UpTo(buffer[w], count')
    BY <1>1, <2>1, AppendLater
  <2> QED BY <1>2, <2>1, <2>2
<1> QED BY <1>2, <1>3

\* Every step keeps the order.
LEMMA OrderInductive ==
    ASSUME IInv, AsTheyCame, [Next]_vars
    PROVE  AsTheyCame'
<1>1. CASE \E w \in Workers : Deliver(w)
  <2>1. PICK w \in Workers : Deliver(w)
    BY <1>1
  <2> DEFINE q == Queue[w]
  <2>2. ready[q] \in Seq(Nat) /\ ready[q] # <<>> /\ count \in Nat
    BY <2>1 DEF Deliver, IInv, TypeOK
  <2>3. /\ ready' = [ready EXCEPT ![q] = Tail(ready[q])]
        /\ buffer' = [buffer EXCEPT ![w] = Append(buffer[w], Head(ready[q]))]
        /\ acted' = acted /\ count' = count
    BY <2>1 DEF Deliver
  <2>4. /\ Head(ready[q]) \in Nat /\ Head(ready[q]) <= count
        /\ Tail(ready[q]) \in Seq(Nat)
        /\ Ascends(Tail(ready[q])) /\ UpTo(Tail(ready[q]), count)
        /\ \A j \in 1..Len(Tail(ready[q])) : Head(ready[q]) < Tail(ready[q])[j]
        /\ \A t \in Seq(Nat) : Precedes(t, ready[q]) =>
             Precedes(t, Tail(ready[q])) /\ \A j \in 1..Len(t) : t[j] < Head(ready[q])
    <3>1. Ascends(ready[q]) /\ UpTo(ready[q], count)
      BY DEF IInv, TypeOK, AsTheyCame
    <3> QED BY <2>2, <3>1, TakeHead
  <2>5. \A p \in Queues : Ascends(ready'[p]) /\ UpTo(ready'[p], count')
    BY <2>3, <2>4 DEF IInv, TypeOK, AsTheyCame
  <2>6. \A v \in Workers : /\ Precedes(acted[v], ready'[Queue[v]])
                           /\ Precedes(buffer[v], ready'[Queue[v]])
    BY <2>3, <2>4 DEF IInv, TypeOK, AsTheyCame
  <2>7. /\ Ascends(buffer'[w]) /\ UpTo(buffer'[w], count)
        /\ Precedes(acted[w], buffer'[w])
        /\ Precedes(buffer'[w], ready'[Queue[w]])
    <3>1. /\ buffer[w] \in Seq(Nat) /\ acted[w] \in Seq(Nat)
          /\ Ascends(buffer[w]) /\ UpTo(buffer[w], count)
          /\ \A j \in 1..Len(buffer[w]) : buffer[w][j] < Head(ready[q])
          /\ \A j \in 1..Len(acted[w]) : acted[w][j] < Head(ready[q])
          /\ Precedes(acted[w], buffer[w]) /\ Precedes(buffer[w], Tail(ready[q]))
      BY <2>4 DEF IInv, TypeOK, AsTheyCame
    <3>2. /\ buffer'[w] = Append(buffer[w], Head(ready[q]))
          /\ ready'[Queue[w]] = Tail(ready[q])
      BY <2>3 DEF IInv, TypeOK
    <3> DEFINE b == Append(buffer[w], Head(ready[q]))
    <3>3. Ascends(b) /\ UpTo(b, count)
      BY <2>2, <2>4, <3>1, AppendBetween
    <3>4. Precedes(acted[w], b)
      BY <2>2, <2>4, <3>1, AppendBetween
    <3>5. Precedes(buffer'[w], Tail(ready[q]))
      BY <2>2, <2>4, <3>1, <3>2, AppendBetween
    <3> QED BY <3>2, <3>3, <3>4, <3>5
  <2>8. \A v \in Workers : v # w => buffer'[v] = buffer[v]
    BY <2>3 DEF IInv, TypeOK
  <2> QED BY <2>3, <2>5, <2>6, <2>7, <2>8 DEF AsTheyCame
<1>2. CASE \E w \in Workers : Receive(w)
  <2>1. PICK w \in Workers : Receive(w)
    BY <1>2
  <2>2. /\ buffer[w] \in Seq(Nat) /\ buffer[w] # <<>> /\ count \in Nat
        /\ ready[Queue[w]] \in Seq(Nat) /\ acted[w] \in Seq(Nat)
    BY <2>1 DEF Receive, IInv, TypeOK
  <2>3. /\ acted' = [acted EXCEPT ![w] = Append(acted[w], Head(buffer[w]))]
        /\ buffer' = [buffer EXCEPT ![w] = Tail(buffer[w])]
        /\ ready' = ready /\ count' = count
    BY <2>1 DEF Receive, broker
  <2>4. /\ Head(buffer[w]) \in Nat /\ Head(buffer[w]) <= count
        /\ Tail(buffer[w]) \in Seq(Nat)
        /\ Ascends(Tail(buffer[w])) /\ UpTo(Tail(buffer[w]), count)
        /\ \A j \in 1..Len(Tail(buffer[w])) : Head(buffer[w]) < Tail(buffer[w])[j]
        /\ Precedes(acted[w], Tail(buffer[w]))
        /\ \A j \in 1..Len(acted[w]) : acted[w][j] < Head(buffer[w])
        /\ Precedes(Tail(buffer[w]), ready[Queue[w]])
        /\ \A j \in 1..Len(ready[Queue[w]]) : Head(buffer[w]) < ready[Queue[w]][j]
    <3>1. /\ Ascends(buffer[w]) /\ UpTo(buffer[w], count)
          /\ Precedes(acted[w], buffer[w]) /\ Precedes(buffer[w], ready[Queue[w]])
      BY DEF AsTheyCame
    <3> QED BY <2>2, <3>1, TakeHead
  <2>5. /\ Ascends(acted'[w]) /\ UpTo(acted'[w], count)
        /\ Precedes(acted'[w], buffer'[w])
        /\ Precedes(acted'[w], ready[Queue[w]])
    <3>1. /\ acted'[w] = Append(acted[w], Head(buffer[w]))
          /\ buffer'[w] = Tail(buffer[w])
      BY <2>3 DEF IInv, TypeOK
    <3>2. Ascends(acted[w]) /\ UpTo(acted[w], count)
      BY DEF AsTheyCame
    <3>3. Ascends(acted'[w]) /\ UpTo(acted'[w], count)
      <4>1. /\ Ascends(Append(acted[w], Head(buffer[w])))
            /\ UpTo(Append(acted[w], Head(buffer[w])), count)
        BY <2>2, <2>4, <3>2, AppendBetween
      <4> QED BY <3>1, <4>1
    <3>4. Precedes(acted'[w], Tail(buffer[w]))
      <4>1. \A t \in Seq(Nat) :
              Precedes(acted[w], t) /\ (\A j \in 1..Len(t) : Head(buffer[w]) < t[j])
              => Precedes(Append(acted[w], Head(buffer[w])), t)
        BY <2>2, <2>4, <3>2, AppendBetween
      <4>2. Precedes(Append(acted[w], Head(buffer[w])), Tail(buffer[w]))
        BY <2>4, <4>1
      <4> QED BY <3>1, <4>2
    <3>5. Precedes(acted[w], ready[Queue[w]])
      BY DEF AsTheyCame
    <3>6. Precedes(acted'[w], ready[Queue[w]])
      <4>1. \A t \in Seq(Nat) :
              Precedes(acted[w], t) /\ (\A j \in 1..Len(t) : Head(buffer[w]) < t[j])
              => Precedes(Append(acted[w], Head(buffer[w])), t)
        BY <2>2, <2>4, <3>2, AppendBetween
      <4>2. Precedes(Append(acted[w], Head(buffer[w])), ready[Queue[w]])
        BY <2>2, <2>4, <3>5, <4>1
      <4> QED BY <3>1, <4>2
    <3> QED BY <3>1, <3>3, <3>4, <3>6
  <2>6. \A v \in Workers : v # w => buffer'[v] = buffer[v] /\ acted'[v] = acted[v]
    BY <2>3 DEF IInv, TypeOK
  <2>7. buffer'[w] = Tail(buffer[w])
    BY <2>3 DEF IInv, TypeOK
  <2> QED BY <2>3, <2>4, <2>5, <2>6, <2>7 DEF AsTheyCame
<1> USE DEF IInv, TypeOK, AsTheyCame
<1>3. CASE (\E r \in Routes : OthersPublish(r)) \/ (\E w \in Workers : Publish(w))
  <2>1. \E r \in Routes : Arrive(r) /\ UNCHANGED <<buffer, acted>>
    <3>1. ASSUME NEW r \in Routes, OthersPublish(r) PROVE Arrive(r)
      BY <3>1 DEF OthersPublish
    <3>2. ASSUME NEW w \in Workers, Publish(w)
          PROVE  Publishes[w] \in Routes /\ Arrive(Publishes[w])
      BY <3>2 DEF Publish, QueuesAreBound
    <3> QED BY <1>3, <3>1, <3>2 DEF OthersPublish, Publish
  <2> QED BY <2>1, ArriveInOrder
<1>4. CASE \/ BrokerRestarts \/ Die \/ \E w \in Workers : Reconnect(w)
  <2>1. /\ acted' = acted /\ count' = count /\ count \in Nat
        /\ \A q \in Queues : ready'[q] = ready[q] \/ ready'[q] = <<>>
        /\ \A w \in Workers : buffer'[w] = buffer[w] \/ buffer'[w] = <<>>
    BY <1>4 DEF BrokerRestarts, Die, Reconnect, broker
  <2>2. ASSUME NEW q \in Queues PROVE Ascends(ready'[q]) /\ UpTo(ready'[q], count)
    BY <2>1, NothingCame
  <2>3. ASSUME NEW w \in Workers
        PROVE  /\ Ascends(buffer'[w]) /\ UpTo(buffer'[w], count)
               /\ Precedes(acted[w], buffer'[w])
               /\ Precedes(acted[w], ready'[Queue[w]])
               /\ Precedes(buffer'[w], ready'[Queue[w]])
    <3>1. /\ Queue[w] \in Queues /\ acted[w] \in Seq(Nat)
          /\ buffer[w] \in Seq(Nat) /\ ready[Queue[w]] \in Seq(Nat)
      OBVIOUS
    <3>2. buffer'[w] = buffer[w] \/ buffer'[w] = <<>>
      BY <2>1
    <3>9. buffer'[w] \in Seq(Nat)
      <4>1. CASE buffer'[w] = <<>>
        BY <4>1
      <4> QED BY <3>1, <3>2, <4>1
    <3>3. ready'[Queue[w]] = ready[Queue[w]] \/ ready'[Queue[w]] = <<>>
      BY <2>1, <3>1
    <3>4. Ascends(buffer'[w]) /\ UpTo(buffer'[w], count)
      BY <2>1, <3>2, NothingCame
    <3>5. Precedes(acted[w], buffer'[w])
      BY <3>1, <3>2, NothingCame
    <3>6. Precedes(acted[w], ready'[Queue[w]])
      BY <3>1, <3>3, NothingCame
    <3>7. Precedes(buffer'[w], ready[Queue[w]])
      BY <3>1, <3>2, NothingCame
    <3>8. Precedes(buffer'[w], ready'[Queue[w]])
      BY <3>3, <3>7, <3>9, NothingCame
    <3> QED BY <3>4, <3>5, <3>6, <3>8
  <2> QED BY <2>1, <2>2, <2>3
<1>5. CASE UNCHANGED <<ready, count, buffer, acted>>
  BY <1>5
<1>6. \/ UNCHANGED <<ready, count, buffer, acted>>
      \/ \E w \in Workers : Deliver(w) \/ Receive(w) \/ Publish(w) \/ Reconnect(w)
      \/ \E r \in Routes : OthersPublish(r)
      \/ BrokerRestarts \/ Die
  BY DEF Next, StartWorker, StartAMQP, Connect, PrepareChannel, Consume, GiveUp,
         PublishDial, PublishPrepare, PublishFails, ConnectionLost, broker, vars
<1> QED BY <1>1, <1>2, <1>3, <1>4, <1>5, <1>6

LEMMA InitInOrder == Init => AsTheyCame
<1> SUFFICES ASSUME Init PROVE AsTheyCame
  OBVIOUS
<1>1. /\ \A q \in Queues : ready[q] = <<>>
      /\ \A w \in Workers :
           acted[w] = <<>> /\ buffer[w] = <<>> /\ ready[Queue[w]] = <<>>
  BY DEF Init
<1>2. count \in Nat /\ <<>> \in Seq(Nat)
  BY DEF Init
<1>3. Ascends(<<>>) /\ UpTo(<<>>, count) /\ Precedes(<<>>, <<>>)
  BY <1>2, NothingCame
<1> QED BY <1>1, <1>3 DEF AsTheyCame

\* From the parts to the whole stream.
LEMMA StreamAscends ==
    ASSUME TypeOK, AsTheyCame
    PROVE  ActedInOrder
<1> SUFFICES ASSUME NEW w \in Workers PROVE Ascends(Stream(w))
  BY DEF ActedInOrder, Ascends
<1>1. ASSUME NEW s \in Seq(Nat), NEW t \in Seq(Nat), Ascends(s), Ascends(t),
             Precedes(s, t)
      PROVE  /\ s \o t \in Seq(Nat) /\ Ascends(s \o t)
             /\ \A u \in Seq(Nat) : Precedes(s, u) /\ Precedes(t, u)
                                     => Precedes(s \o t, u)
  <2>1. /\ s \o t \in Seq(Nat) /\ Len(s \o t) = Len(s) + Len(t)
        /\ \A i \in 1..(Len(s) + Len(t)) :
             (s \o t)[i] = IF i <= Len(s) THEN s[i] ELSE t[i - Len(s)]
    BY ConcatProperties
  <2>2. /\ Len(s) \in Nat /\ Len(t) \in Nat
        /\ \A i \in 1..Len(s) : s[i] \in Nat
        /\ \A i \in 1..Len(t) : t[i] \in Nat
    OBVIOUS
  <2>3. ASSUME NEW j \in 1..Len(s \o t), NEW k \in 1..Len(s \o t), j < k
        PROVE  (s \o t)[j] < (s \o t)[k]
    <3>1. CASE k <= Len(s)
      <4>1. j \in 1..Len(s) /\ k \in 1..Len(s)
        BY <2>2, <2>3, <3>1
      <4> QED BY <1>1, <2>1, <2>2, <2>3, <4>1 DEF Ascends
    <3>2. CASE j > Len(s)
      <4>1. j - Len(s) \in 1..Len(t) /\ k - Len(s) \in 1..Len(t)
        BY <2>1, <2>2, <2>3, <3>2
      <4>2. (s \o t)[j] = t[j - Len(s)] /\ (s \o t)[k] = t[k - Len(s)]
        BY <2>1, <2>2, <2>3, <3>2
      <4>3. j - Len(s) < k - Len(s)
        BY <2>2, <2>3
      <4> QED BY <1>1, <4>1, <4>2, <4>3 DEF Ascends
    <3>3. CASE j <= Len(s) /\ k > Len(s)
      <4>1. j \in 1..Len(s) /\ k - Len(s) \in 1..Len(t)
        BY <2>1, <2>2, <2>3, <3>3
      <4>2. (s \o t)[j] = s[j] /\ (s \o t)[k] = t[k - Len(s)]
        BY <2>1, <2>2, <2>3, <3>3
      <4> QED BY <1>1, <4>1, <4>2 DEF Precedes
    <3> QED BY SMTT(30), <2>1, <2>2, <3>1, <3>2, <3>3
  <2>4. ASSUME NEW u \in Seq(Nat), Precedes(s, u), Precedes(t, u)
        PROVE  Precedes(s \o t, u)
    <3>1. ASSUME NEW j \in 1..Len(s \o t), NEW k \in 1..Len(u)
          PROVE  (s \o t)[j] < u[k]
      <4>1. CASE j <= Len(s)
        BY <2>1, <2>2, <2>4, <4>1 DEF Precedes
      <4>2. CASE j > Len(s)
        <5>1. j - Len(s) \in 1..Len(t) /\ (s \o t)[j] = t[j - Len(s)]
          BY <2>1, <2>2, <4>2
        <5> QED BY <2>4, <5>1 DEF Precedes
      <4> QED BY <2>1, <2>2, <4>1, <4>2
    <3> QED BY <3>1 DEF Precedes
  <2> QED BY <2>1, <2>3, <2>4 DEF Ascends
<1>2. /\ acted[w] \in Seq(Nat) /\ buffer[w] \in Seq(Nat)
      /\ ready[Queue[w]] \in Seq(Nat) /\ Ascends(ready[Queue[w]])
  BY DEF TypeOK, AsTheyCame
<1>3. /\ acted[w] \o buffer[w] \in Seq(Nat) /\ Ascends(acted[w] \o buffer[w])
      /\ Precedes(acted[w] \o buffer[w], ready[Queue[w]])
  BY <1>1, <1>2 DEF AsTheyCame
<1> QED BY <1>1, <1>2, <1>3 DEF Stream

\* At most once and in order, for any workers, queues and faults (startWorker
\* consumes with auto-ack and acts in the receiving goroutine).
THEOREM InOrder == Spec => []ActedInOrder
<1>1. Init => IInv /\ AsTheyCame
  BY InitIInv, InitInOrder
<1>2. IInv /\ AsTheyCame /\ [Next]_vars => (IInv /\ AsTheyCame)'
  BY Inductive, OrderInductive
<1>3. IInv /\ AsTheyCame => ActedInOrder
  BY StreamAscends DEF IInv
<1> QED BY <1>1, <1>2, <1>3, PTL DEF Spec
=============================================================================
