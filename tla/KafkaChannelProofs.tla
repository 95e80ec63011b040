-------------------------- MODULE KafkaChannelProofs --------------------------
(***************************************************************************)
(* Theorems about KafkaChannel, for any topics, any forwarding between     *)
(* them, and any bounds on messages and faults.                            *)
(***************************************************************************)
EXTENDS KafkaChannel, TLAPS

USE KafkaAssumption

\* No offset is ahead of its topic's log.
Positions(t) ==
    /\ committed[t] # None => committed[t] <= Len(log[t])
    /\ marked[t] # None => marked[t] <= Len(log[t])
    /\ worker[t].pc \in {"act", "mark", "gone"} =>
        worker[t].at \in Nat /\ worker[t].at < Len(log[t])
    /\ \A j \in 1..Len(handled[t]) : handled[t][j] < Len(log[t])

\* What may be committed later is acted on, too; and behind the goroutine,
\* only the message in its hands is not.
Progress(t) ==
    /\ marked[t] # None => ActedOnUpTo(t, marked[t])
    /\ worker[t].pc \in {"created", "append", "poll"} => ActedOnUpTo(t, next[t])
    /\ worker[t].pc \in {"act", "mark"} =>
        /\ ActedOnUpTo(t, worker[t].at)
        /\ \A p \in first[t]..(next[t] - 1) : ActedOn(t, p) \/ p = worker[t].at
    /\ worker[t].pc = "mark" => ActedOn(t, worker[t].at)

\* HandledInOrder, of one topic.
Order(t) ==
    /\ \A j \in 1..Len(handled[t]) :
        handled[t][j] > first[t] =>
            \E i \in 1..(j - 1) : handled[t][i] = handled[t][j] - 1
    /\ committed[t] # None => ActedOnUpTo(t, committed[t])

TopicInv(t) == Positions(t) /\ Progress(t) /\ Order(t)

\* No goroutine runs before startKafka, and only one that has a consumer lists
\* it.
Started ==
    /\ phase # "up" => \A t \in Topics : worker[t].pc = "off"
    /\ \A t, u \in Topics :
        t \in consumers \cup seen[u] => worker[t].pc \notin {"off", "new"}

\* The inductive invariant.
IInv == TypeOK /\ Started /\ \A t \in Topics : TopicInv(t)

\* It holds before the process starts.
LEMMA InitIInv == Init => IInv
<1> SUFFICES ASSUME Init PROVE IInv
  OBVIOUS
<1>1. TypeOK
  <2>1. /\ log \in [Topics -> Seq(BOOLEAN)] /\ handled \in [Topics -> Seq(Nat)]
        /\ committed \in [Topics -> Offset] /\ marked \in [Topics -> Offset]
        /\ first \in [Topics -> Nat] /\ next \in [Topics -> Nat]
        /\ seen \in [Topics -> SUBSET Topics] /\ faults \in 0..MaxFaults
    BY DEF Init, Offset
  <2>2. /\ worker \in [Topics -> [pc : {"off", "new", "created", "append", "poll",
                                        "act", "mark", "gone"}, at : Offset]]
        /\ \A t \in Topics : worker[t].pc = "off"
    BY DEF Init, NoWork, Offset
  <2>3. consumer \in [Topics -> {"none", "open", "closed"}]
        /\ \A t \in Topics : consumer[t] = "none"
    BY DEF Init
  <2>4. \A t \in Topics : next[t] <= Len(log[t])
    BY DEF Init
  <2> QED BY <2>1, <2>2, <2>3, <2>4 DEF Init, TypeOK
<1>2. ASSUME NEW t \in Topics PROVE TopicInv(t)
  BY DEF Init, NoWork, TopicInv, Positions, Progress, Order
<1>3. Started
  BY DEF Init, NoWork, Started
<1> QED BY <1>1, <1>2, <1>3 DEF IInv

\* A topic's invariant survives whatever leaves the topic alone, or only
\* makes its log longer.
LEMMA Untouched ==
    ASSUME TypeOK, TypeOK', NEW t \in Topics, TopicInv(t),
           committed'[t] = committed[t], marked'[t] = marked[t],
           next'[t] = next[t], worker'[t] = worker[t],
           handled'[t] = handled[t], first'[t] = first[t],
           Len(log[t]) <= Len(log'[t])
    PROVE  TopicInv(t)'
<1>1. Positions(t)'
  <2>1. /\ Len(log[t]) \in Nat /\ Len(log'[t]) \in Nat
        /\ committed[t] \in Offset /\ marked[t] \in Offset
        /\ handled[t] \in Seq(Nat)
    BY DEF TypeOK
  <2>2. Positions(t)
    BY DEF TopicInv
  <2>3. \A n \in Nat : n < Len(log[t]) => n < Len(log'[t])
    BY <2>1
  <2>4. \A o \in Offset : o # None /\ o <= Len(log[t]) => o <= Len(log'[t])
    BY <2>1 DEF Offset
  <2>5. \A j \in 1..Len(handled[t]) : handled[t][j] \in Nat
    BY <2>1
  <2> QED BY <2>1, <2>2, <2>3, <2>4, <2>5 DEF Positions
<1>2. \A p : ActedOn(t, p)' <=> ActedOn(t, p)
  BY DEF ActedOn
<1>3. \A o : ActedOnUpTo(t, o)' <=> ActedOnUpTo(t, o)
  BY <1>2 DEF ActedOnUpTo
<1>4. Progress(t)'
  BY <1>2, <1>3 DEF TopicInv, Progress
<1>5. Order(t)'
  BY <1>3 DEF TopicInv, Order
<1> QED BY <1>1, <1>4, <1>5 DEF TopicInv

\* When the process ends, what the group has committed stays true.
LEMMA EndsIInv ==
    ASSUME IInv, Ends, UNCHANGED <<broker, history>>, faults' \in 0..MaxFaults
    PROVE  IInv'
<1> USE DEF Ends, broker, history, IInv
<1>1. TypeOK'
  <2>1. /\ next' \in [Topics -> Nat] /\ marked' \in [Topics -> Offset]
        /\ seen' \in [Topics -> SUBSET Topics]
        /\ consumer' \in [Topics -> {"none", "open", "closed"}]
    BY DEF Offset
  <2>2. /\ worker' \in [Topics -> [pc : {"off", "new", "created", "append", "poll",
                                         "act", "mark", "gone"}, at : Offset]]
        /\ \A t \in Topics : worker'[t].pc = "off" /\ consumer'[t] = "none"
    BY DEF NoWork, Offset
  <2>3. \A t \in Topics : next'[t] <= Len(log'[t])
    BY DEF TypeOK
  <2> QED BY <2>1, <2>2, <2>3 DEF TypeOK
<1>2. ASSUME NEW t \in Topics PROVE TopicInv(t)'
  <2>1. worker'[t].pc = "off" /\ marked'[t] = None
    BY DEF NoWork
  <2>2. Positions(t)'
    BY <2>1 DEF TopicInv, Positions
  <2>3. Progress(t)'
    BY <2>1 DEF TopicInv, Progress
  <2>4. Order(t)'
    BY SMTT(30) DEF TopicInv, Order, ActedOnUpTo, ActedOn
  <2> QED BY <2>2, <2>3, <2>4 DEF TopicInv
<1>3. Started'
  BY DEF Started, NoWork
<1> QED BY <1>1, <1>2, <1>3

\* The process: what it starts, and what befalls it.
LEMMA ProcessIInv ==
    ASSUME IInv, Launch \/ StartKafka \/ StopTooEarly \/ Die
    PROVE  IInv'
<1>1. CASE Launch \/ StopTooEarly
  <2> USE DEF Launch, StopTooEarly, broker, client, list, history
  <2>1. TypeOK'
    BY <1>1 DEF IInv, TypeOK
  <2>2. \A t \in Topics : TopicInv(t)'
    BY <1>1, <2>1, Untouched DEF IInv, TypeOK
  <2>3. Started'
    BY <1>1 DEF IInv, Started
  <2> QED BY <2>1, <2>2, <2>3 DEF IInv
<1>2. CASE StartKafka
  <2> USE <1>2 DEF StartKafka, broker, client, list, history, IInv
  <2>1. /\ worker' \in [Topics -> [pc : {"off", "new", "created", "append", "poll",
                                         "act", "mark", "gone"}, at : Offset]]
        /\ \A t \in Topics : worker'[t].pc = "new"
    BY DEF NoWork, Offset
  <2>2. \A t \in Topics : worker[t].pc = "off"
    BY DEF Started
  <2>3. TypeOK'
    BY <2>1, <2>2 DEF TypeOK
  <2>4. ASSUME NEW t \in Topics PROVE TopicInv(t)'
    <3>1. Positions(t)'
      BY <2>1 DEF TopicInv, Positions
    <3>2. Progress(t)'
      BY <2>1 DEF TopicInv, Progress, ActedOnUpTo, ActedOn
    <3>3. Order(t)'
      BY DEF TopicInv, Order, ActedOnUpTo, ActedOn
    <3> QED BY <3>1, <3>2, <3>3 DEF TopicInv
  <2>5. Started'
    BY DEF Started
  <2> QED BY <2>3, <2>4, <2>5
<1>3. CASE Die
  <2>1. faults' \in 0..MaxFaults
    BY <1>3 DEF Die, IInv, TypeOK
  <2> QED BY <1>3, <2>1, EndsIInv DEF Die
<1> QED BY <1>1, <1>2, <1>3

\* Joining the group begins at its commit, or behind everything.
LEMMA JoinTopic ==
    ASSUME IInv, NEW t \in Topics, NEW c \in Offset, Join(t, c),
           c # None => c <= Len(log[t]) /\ ActedOnUpTo(t, c),
           UNCHANGED <<log, handled>>
    PROVE  /\ next' \in [Topics -> Nat] /\ next'[t] <= Len(log[t])
           /\ marked' \in [Topics -> Offset] /\ first' \in [Topics -> Nat]
           /\ marked'[t] = c
           /\ ActedOnUpTo(t, next[t])'
           /\ c # None => ActedOnUpTo(t, c)'
           /\ \A o \in Nat : ActedOnUpTo(t, o) /\ o <= Len(log[t]) => ActedOnUpTo(t, o)'
           /\ first'[t] \in {first[t], Len(log[t])}
           /\ \A v \in Topics \ {t} :
                next'[v] = next[v] /\ marked'[v] = marked[v] /\ first'[v] = first[v]
<1> USE DEF IInv, TypeOK, Offset
<1>1. Position(t, c) \in Nat /\ Position(t, c) <= Len(log[t])
  BY DEF Position
<1>2. /\ next' \in [Topics -> Nat] /\ marked' \in [Topics -> Offset]
      /\ next'[t] = Position(t, c) /\ marked'[t] = c
      /\ \A v \in Topics \ {t} : next'[v] = next[v] /\ marked'[v] = marked[v]
  BY <1>1 DEF Join
<1>3. /\ first' \in [Topics -> Nat]
      /\ first'[t] = IF c = None THEN Len(log[t]) ELSE first[t]
      /\ \A v \in Topics \ {t} : first'[v] = first[v]
  BY DEF Join
<1>4. \A o \in Nat : ActedOnUpTo(t, o) /\ o <= Len(log[t]) => ActedOnUpTo(t, o)'
  BY <1>3 DEF ActedOnUpTo, ActedOn
<1>5. ActedOnUpTo(t, next[t])'
  <2>1. CASE c = None
    <3>1. first'[t] = Len(log[t]) /\ next'[t] = Len(log[t])
      BY <1>2, <1>3, <2>1 DEF Position
    <3> QED BY <3>1 DEF ActedOnUpTo
  <2>2. CASE c # None
    <3>1. next'[t] = c
      BY <1>2, <2>2 DEF Position
    <3> QED BY <1>4, <2>2, <3>1
  <2> QED BY <2>1, <2>2
<1> QED BY <1>1, <1>2, <1>3, <1>4, <1>5

\* The group: a new member, a commit in the background, a rebalance.
LEMMA GroupIInv ==
    ASSUME IInv, NEW t \in Topics, NewConsumer(t) \/ Commit(t) \/ Rebalance(t)
    PROVE  IInv'
<1> USE DEF IInv, broker, client, list, history
<1>1. CASE NewConsumer(t)
  <2> USE <1>1 DEF NewConsumer, GoTo
  <2> DEFINE c == committed[t]
  <2>1. c \in Offset /\ (c # None => c <= Len(log[t]) /\ ActedOnUpTo(t, c))
    BY DEF TypeOK, TopicInv, Positions, Order
  <2>2. Join(t, c) /\ UNCHANGED <<log, handled>>
    OBVIOUS
  <2>3. /\ next' \in [Topics -> Nat] /\ next'[t] <= Len(log[t])
        /\ marked' \in [Topics -> Offset] /\ first' \in [Topics -> Nat]
        /\ marked'[t] = c
        /\ ActedOnUpTo(t, next[t])'
        /\ c # None => ActedOnUpTo(t, c)'
        /\ \A v \in Topics \ {t} :
             next'[v] = next[v] /\ marked'[v] = marked[v] /\ first'[v] = first[v]
    BY <2>1, <2>2, JoinTopic
  <2>4. /\ worker' \in [Topics -> [pc : {"off", "new", "created", "append", "poll",
                                         "act", "mark", "gone"}, at : Offset]]
        /\ worker'[t].pc = "created"
        /\ \A v \in Topics \ {t} : worker'[v] = worker[v]
    <3>1. worker' = [worker EXCEPT ![t].pc = "created"]
      OBVIOUS
    <3>2. worker[t] \in [pc : {"off", "new", "created", "append", "poll", "act",
                              "mark", "gone"}, at : Offset]
      BY DEF TypeOK
    <3>3. [worker[t] EXCEPT !.pc = "created"] \in
            [pc : {"off", "new", "created", "append", "poll", "act", "mark",
                   "gone"}, at : Offset]
      BY <3>2
    <3>4. worker' = [worker EXCEPT ![t] = [worker[t] EXCEPT !.pc = "created"]]
      BY <3>1
    <3>5. worker'[t].pc = "created" /\ \A v \in Topics \ {t} : worker'[v] = worker[v]
      BY <3>1 DEF TypeOK
    <3> QED BY <3>3, <3>4, <3>5 DEF TypeOK
  <2>5. TypeOK'
    BY ZenonT(30), <2>3, <2>4 DEF TypeOK
  <2>6. Positions(t)'
    BY <2>1, <2>3, <2>4 DEF TopicInv, Positions
  <2>7. Progress(t)'
    BY <2>3, <2>4 DEF Progress
  <2>8. Order(t)'
    <3>1. c # None => ActedOnUpTo(t, c)'
      BY <2>3
    <3>2. \A j \in 1..Len(handled'[t]) :
            handled'[t][j] > first'[t] =>
                \E i \in 1..(j - 1) : handled'[t][i] = handled'[t][j] - 1
      BY DEF TopicInv, Order, Positions, Join, TypeOK
    <3> QED BY <3>1, <3>2 DEF Order
  <2>9. ASSUME NEW v \in Topics, v # t PROVE TopicInv(v)'
    <3>1. Len(log[v]) <= Len(log'[v])
      BY DEF TypeOK
    <3> QED BY <2>3, <2>4, <2>5, <2>9, <3>1, Untouched
  <2>10. Started'
    BY <2>4 DEF Started
  <2> QED BY <2>5, <2>6, <2>7, <2>8, <2>9, <2>10 DEF TopicInv
<1>2. CASE Commit(t)
  <2> USE <1>2 DEF Commit
  <2>1. marked[t] \in Offset /\ (marked[t] # None => ActedOnUpTo(t, marked[t]))
    BY DEF TypeOK, TopicInv, Progress
  <2>2. TypeOK'
    BY <2>1 DEF TypeOK
  <2>3. Positions(t)'
    BY DEF TypeOK, TopicInv, Positions
  <2>4. Progress(t)'
    BY DEF TopicInv, Progress, ActedOnUpTo, ActedOn
  <2>5. Order(t)'
    <3>1. committed'[t] = marked[t]
      BY DEF TypeOK
    <3>2. committed'[t] # None => ActedOnUpTo(t, committed[t])'
      BY <2>1, <3>1 DEF ActedOnUpTo, ActedOn
    <3> QED BY <3>2 DEF TopicInv, Order
  <2>6. ASSUME NEW v \in Topics, v # t PROVE TopicInv(v)'
    BY <2>2, <2>6, Untouched DEF TypeOK
  <2>7. Started'
    BY DEF Started
  <2> QED BY <2>2, <2>3, <2>4, <2>5, <2>6, <2>7 DEF TopicInv
<1>3. CASE Rebalance(t)
  <2> USE <1>3 DEF Rebalance
  <2>1. PICK c \in {committed[t], marked[t]} :
          committed' = [committed EXCEPT ![t] = c] /\ Join(t, c)
    OBVIOUS
  <2>2. c \in Offset /\ (c # None => c <= Len(log[t]) /\ ActedOnUpTo(t, c))
    BY DEF TypeOK, TopicInv, Positions, Progress, Order
  <2>3. UNCHANGED <<log, handled>>
    OBVIOUS
  <2>4. /\ next' \in [Topics -> Nat] /\ next'[t] <= Len(log[t])
        /\ marked' \in [Topics -> Offset] /\ first' \in [Topics -> Nat]
        /\ marked'[t] = c
        /\ ActedOnUpTo(t, next[t])'
        /\ c # None => ActedOnUpTo(t, c)'
        /\ \A o \in Nat : ActedOnUpTo(t, o) /\ o <= Len(log[t]) => ActedOnUpTo(t, o)'
        /\ first'[t] \in {first[t], Len(log[t])}
        /\ \A v \in Topics \ {t} :
             next'[v] = next[v] /\ marked'[v] = marked[v] /\ first'[v] = first[v]
    BY <2>1, <2>2, <2>3, JoinTopic
  <2>5. faults' \in 0..MaxFaults
    BY DEF TypeOK
  <2>6. TypeOK'
    BY <2>1, <2>2, <2>4, <2>5 DEF TypeOK
  <2>7. Positions(t)'
    BY <2>1, <2>2, <2>4 DEF TypeOK, TopicInv, Positions
  <2>8. Progress(t)'
    <3>1. worker'[t].pc \in {"act", "mark"} => ActedOnUpTo(t, worker[t].at)'
      BY <2>4 DEF TopicInv, Progress, Positions, TypeOK
    <3>2. worker'[t].pc = "mark" => ActedOn(t, worker[t].at)'
      BY DEF TopicInv, Progress, ActedOn
    <3>3. \A p \in first'[t]..(next'[t] - 1) : ActedOn(t, p)'
      BY <2>4 DEF ActedOnUpTo
    <3> QED BY <2>4, <3>1, <3>2, <3>3 DEF Progress
  <2>9. Order(t)'
    <3>1. committed'[t] = c
      BY <2>1 DEF TypeOK
    <3>2. \A j \in 1..Len(handled'[t]) :
            handled'[t][j] > first'[t] =>
                \E i \in 1..(j - 1) : handled'[t][i] = handled'[t][j] - 1
      <4>1. /\ first[t] \in Nat /\ Len(log[t]) \in Nat
            /\ \A j \in 1..Len(handled[t]) :
                 handled[t][j] \in Nat /\ handled[t][j] < Len(log[t])
        BY DEF TypeOK, TopicInv, Positions
      <4>2. handled'[t] = handled[t] /\ first'[t] \in {first[t], Len(log[t])}
        BY <2>3, <2>4
      <4>3. \A j \in 1..Len(handled[t]) :
              handled[t][j] > first[t] =>
                  \E i \in 1..(j - 1) : handled[t][i] = handled[t][j] - 1
        BY DEF TopicInv, Order
      <4>4. \A j \in 1..Len(handled[t]) :
              handled[t][j] > first'[t] => handled[t][j] > first[t]
        BY <4>1, <4>2
      <4> QED BY <4>2, <4>3, <4>4
    <3> QED BY <2>4, <3>1, <3>2 DEF Order
  <2>10. ASSUME NEW v \in Topics, v # t PROVE TopicInv(v)'
    <3>1. committed'[v] = committed[v] /\ worker'[v] = worker[v]
      BY <2>1, <2>10 DEF TypeOK
    <3> QED BY <2>4, <2>6, <2>10, <3>1, Untouched
  <2>11. Started'
    BY DEF Started
  <2> QED BY <2>6, <2>7, <2>8, <2>9, <2>10, <2>11 DEF TopicInv
<1> QED BY <1>1, <1>2, <1>3

\* A step of goroutine t that only moves its worker.
LEMMA ListIInv ==
    ASSUME IInv, NEW t \in Topics, ReadList(t) \/ WriteList(t)
    PROVE  IInv'
<1> USE DEF ReadList, WriteList, GoTo, IInv, broker, client, history
<1>1. /\ worker' \in [Topics -> [pc : {"off", "new", "created", "append", "poll",
                                       "act", "mark", "gone"}, at : Offset]]
      /\ worker[t].pc \in {"created", "append"} /\ worker'[t].pc \in {"append", "poll"}
      /\ \A v \in Topics \ {t} : worker'[v] = worker[v]
  <2>1. CASE ReadList(t)
    <3>1. worker' = [worker EXCEPT ![t].pc = "append"] /\ worker[t].pc = "created"
      BY <2>1
    <3>2. worker' \in [Topics -> [pc : {"off", "new", "created", "append", "poll",
                                        "act", "mark", "gone"}, at : Offset]]
      <4>1. worker[t] \in [pc : {"off", "new", "created", "append", "poll", "act",
                                "mark", "gone"}, at : Offset]
        BY DEF TypeOK
      <4>2. [worker[t] EXCEPT !.pc = "append"] \in
              [pc : {"off", "new", "created", "append", "poll", "act", "mark",
                     "gone"}, at : Offset]
        BY <4>1
      <4>3. worker' = [worker EXCEPT ![t] = [worker[t] EXCEPT !.pc = "append"]]
        BY <3>1
      <4> QED BY <4>2, <4>3 DEF TypeOK
    <3>3. worker'[t].pc = "append" /\ \A v \in Topics \ {t} : worker'[v] = worker[v]
      BY <3>1 DEF TypeOK
    <3> QED BY <3>1, <3>2, <3>3
  <2>2. CASE WriteList(t)
    <3>1. worker' = [worker EXCEPT ![t].pc = "poll"] /\ worker[t].pc = "append"
      BY <2>2
    <3>2. worker' \in [Topics -> [pc : {"off", "new", "created", "append", "poll",
                                        "act", "mark", "gone"}, at : Offset]]
      <4>1. worker[t] \in [pc : {"off", "new", "created", "append", "poll", "act",
                                "mark", "gone"}, at : Offset]
        BY DEF TypeOK
      <4>2. [worker[t] EXCEPT !.pc = "poll"] \in
              [pc : {"off", "new", "created", "append", "poll", "act", "mark",
                     "gone"}, at : Offset]
        BY <4>1
      <4>3. worker' = [worker EXCEPT ![t] = [worker[t] EXCEPT !.pc = "poll"]]
        BY <3>1
      <4> QED BY <4>2, <4>3 DEF TypeOK
    <3>3. worker'[t].pc = "poll" /\ \A v \in Topics \ {t} : worker'[v] = worker[v]
      BY <3>1 DEF TypeOK
    <3> QED BY <3>1, <3>2, <3>3
  <2> QED BY <2>1, <2>2
<1>2. consumers' \subseteq Topics /\ seen' \in [Topics -> SUBSET Topics]
  BY DEF TypeOK
<1>3. TypeOK'
  BY <1>1, <1>2 DEF TypeOK
<1>4. Positions(t)' /\ Order(t)'
  BY SMTT(30), <1>1 DEF TopicInv, Positions, Order, ActedOnUpTo, ActedOn
<1>5. Progress(t)'
  BY <1>1 DEF TopicInv, Progress, ActedOnUpTo, ActedOn
<1>6. ASSUME NEW v \in Topics, v # t PROVE TopicInv(v)'
  <2>1. Len(log[v]) <= Len(log'[v])
    BY DEF TypeOK
  <2> QED BY <1>1, <1>3, <1>6, <2>1, Untouched
<1>7. Started'
  <2>1. /\ \A v, u \in Topics : v \in consumers' \cup seen'[u] =>
             v = t \/ \E w \in Topics : v \in consumers \cup seen[w]
        /\ phase' = phase /\ \A v \in Topics : worker[v].pc = "off" <=> worker'[v].pc = "off"
    <3>1. CASE ReadList(t)
      BY <1>1, <3>1 DEF TypeOK
    <3>2. CASE WriteList(t)
      BY <1>1, <3>2 DEF TypeOK
    <3> QED BY <3>1, <3>2
  <2>2. \A v, u \in Topics :
          v \in consumers' \cup seen'[u] => worker'[v].pc \notin {"off", "new"}
    BY <1>1, <2>1 DEF Started
  <2> QED BY <1>1, <2>1, <2>2 DEF Started
<1> QED BY <1>3, <1>4, <1>5, <1>6, <1>7 DEF TopicInv

\* A message comes into the goroutine's hands.
LEMMA ReceiveIInv ==
    ASSUME IInv, NEW t \in Topics, Receive(t)
    PROVE  IInv'
<1> USE DEF Receive, IInv, broker, list, history
<1>1. /\ worker' \in [Topics -> [pc : {"off", "new", "created", "append", "poll",
                                       "act", "mark", "gone"}, at : Offset]]
      /\ worker[t].pc = "poll" /\ worker'[t].pc \in {"act", "gone"}
      /\ worker'[t].at = next[t]
      /\ \A v \in Topics \ {t} : worker'[v] = worker[v]
  BY DEF TypeOK, Offset
<1>2. /\ next' \in [Topics -> Nat] /\ next'[t] = next[t] + 1
      /\ next[t] \in Nat /\ next[t] < Len(log[t]) /\ Len(log[t]) \in Nat
      /\ \A v \in Topics \ {t} : next'[v] = next[v]
  BY DEF TypeOK
<1>3. TypeOK'
  BY <1>1, <1>2 DEF TypeOK
<1>4. Positions(t)'
  BY <1>1, <1>2 DEF TopicInv, Positions
<1>5. Order(t)'
  BY DEF TopicInv, Order, ActedOnUpTo, ActedOn
<1>6. Progress(t)'
  <2>1. ActedOnUpTo(t, next[t])
    BY <1>1 DEF TopicInv, Progress
  <2>2. marked'[t] # None => ActedOnUpTo(t, marked[t])'
    BY DEF TopicInv, Progress, ActedOnUpTo, ActedOn
  <2>3. ActedOnUpTo(t, worker[t].at)'
    BY <1>1, <2>1 DEF ActedOnUpTo, ActedOn
  <2>4. \A p \in first[t]..(next[t] - 1) : ActedOn(t, p)'
    BY <2>1 DEF ActedOnUpTo, ActedOn
  <2>5. \A p \in first'[t]..(next'[t] - 1) : ActedOn(t, p)' \/ p = worker'[t].at
    BY <1>1, <1>2, <2>4 DEF TypeOK
  <2> QED BY <1>1, <2>2, <2>3, <2>5 DEF Progress
<1>7. ASSUME NEW v \in Topics, v # t PROVE TopicInv(v)'
  <2>1. Len(log[v]) <= Len(log'[v])
    BY DEF TypeOK
  <2> QED BY <1>1, <1>2, <1>3, <1>7, <2>1, Untouched
<1>8. Started'
  BY <1>1 DEF Started
<1> QED BY <1>3, <1>4, <1>5, <1>6, <1>7, <1>8 DEF TopicInv

\* What the goroutine has acted on is noted, behind what it acted on before.
LEMMA HandledNotes ==
    ASSUME TypeOK, NEW t \in Topics, worker[t].at \in Nat, Handled(t)
    PROVE  /\ handled' \in [Topics -> Seq(Nat)]
           /\ \A v \in Topics \ {t} : handled'[v] = handled[v]
           /\ \/ handled'[t] = handled[t]
              \/ handled'[t] = Append(handled[t], worker[t].at)
           /\ \E j \in 1..Len(handled'[t]) : handled'[t][j] = worker[t].at
           /\ \A p \in Nat : ActedOn(t, p) =>
                \E j \in 1..Len(handled'[t]) : handled'[t][j] = p
<1> USE DEF Handled, TypeOK
<1>1. CASE ActedOn(t, worker[t].at)
  BY <1>1 DEF ActedOn
<1>2. CASE ~ ActedOn(t, worker[t].at)
  <2>1. /\ handled' \in [Topics -> Seq(Nat)]
        /\ handled'[t] = Append(handled[t], worker[t].at)
        /\ \A v \in Topics \ {t} : handled'[v] = handled[v]
    BY <1>2
  <2>2. Len(handled'[t]) = Len(handled[t]) + 1 /\ Len(handled[t]) \in Nat
    BY <2>1
  <2>3. handled'[t][Len(handled'[t])] = worker[t].at
    BY <2>1, <2>2
  <2>4. \A j \in 1..Len(handled[t]) :
          j \in 1..Len(handled'[t]) /\ handled'[t][j] = handled[t][j]
    BY <2>1, <2>2
  <2>5. \A p \in Nat : ActedOn(t, p) =>
          \E j \in 1..Len(handled'[t]) : handled'[t][j] = p
    BY <2>4 DEF ActedOn
  <2>6. \E j \in 1..Len(handled'[t]) : handled'[t][j] = worker[t].at
    <3>1. Len(handled'[t]) \in 1..Len(handled'[t])
      BY <2>2
    <3> QED BY <2>3, <3>1
  <2> QED BY <2>1, <2>5, <2>6
<1> QED BY <1>1, <1>2

\* Publishing only makes a log longer.
LEMMA PublishedGrows ==
    ASSUME TypeOK, NEW t \in Topics
    PROVE  /\ Published(t) \in [Topics -> Seq(BOOLEAN)]
           /\ \A v \in Topics : Len(log[v]) <= Len(Published(t)[v])
BY DEF TypeOK, Published

\* DoActions: the messages before this one are acted on already.
LEMMA DoActionsIInv ==
    ASSUME IInv, NEW t \in Topics, DoActions(t)
    PROVE  IInv'
<1> USE DEF DoActions, GoTo, IInv, client, list
<1> DEFINE at == worker[t].at
<1>1. /\ worker' \in [Topics -> [pc : {"off", "new", "created", "append", "poll",
                                       "act", "mark", "gone"}, at : Offset]]
      /\ worker[t].pc = "act" /\ worker'[t].pc = "mark" /\ worker'[t].at = at
      /\ \A v \in Topics \ {t} : worker'[v] = worker[v]
  <2>1. worker' = [worker EXCEPT ![t].pc = "mark"] /\ worker[t].pc = "act"
    OBVIOUS
  <2>2. worker[t] \in [pc : {"off", "new", "created", "append", "poll", "act",
                            "mark", "gone"}, at : Offset]
    BY DEF TypeOK
  <2>3. [worker[t] EXCEPT !.pc = "mark"] \in
          [pc : {"off", "new", "created", "append", "poll", "act", "mark",
                 "gone"}, at : Offset]
    BY <2>2
  <2>4. worker' = [worker EXCEPT ![t] = [worker[t] EXCEPT !.pc = "mark"]]
    BY <2>1
  <2>5. /\ worker'[t].pc = "mark" /\ worker'[t].at = at
        /\ \A v \in Topics \ {t} : worker'[v] = worker[v]
    BY <2>1 DEF TypeOK
  <2> QED BY <2>1, <2>3, <2>4, <2>5 DEF TypeOK
<1>2. at \in Nat /\ at < Len(log[t]) /\ ActedOnUpTo(t, at)
  BY <1>1 DEF TopicInv, Positions, Progress
<1>3. /\ handled' \in [Topics -> Seq(Nat)]
      /\ \A v \in Topics \ {t} : handled'[v] = handled[v]
      /\ handled'[t] = handled[t] \/ handled'[t] = Append(handled[t], at)
      /\ ActedOn(t, at)'
      /\ \A p \in Nat : ActedOn(t, p) => ActedOn(t, p)'
  <2>1. /\ handled' \in [Topics -> Seq(Nat)]
        /\ \A v \in Topics \ {t} : handled'[v] = handled[v]
        /\ handled'[t] = handled[t] \/ handled'[t] = Append(handled[t], at)
        /\ \E j \in 1..Len(handled'[t]) : handled'[t][j] = at
        /\ \A p \in Nat : ActedOn(t, p) =>
             \E j \in 1..Len(handled'[t]) : handled'[t][j] = p
    BY <1>2, HandledNotes
  <2> QED BY <1>1, <2>1 DEF ActedOn
<1>4. /\ log' \in [Topics -> Seq(BOOLEAN)]
      /\ \A v \in Topics : Len(log[v]) <= Len(log'[v])
  <2>1. CASE log' = Published(t)
    BY <2>1, PublishedGrows
  <2>2. CASE log' = log
    BY <2>2 DEF TypeOK
  <2> QED BY <2>1, <2>2
<1>5. TypeOK'
  <2>1. faults' \in 0..MaxFaults
    BY DEF TypeOK
  <2>2. \A v \in Topics : next'[v] <= Len(log'[v])
    BY SMTT(30), <1>4 DEF TypeOK
  <2> QED BY <1>1, <1>3, <1>4, <2>1, <2>2 DEF TypeOK
<1>6. \A o \in Nat : ActedOnUpTo(t, o) => ActedOnUpTo(t, o)'
  BY <1>3 DEF ActedOnUpTo, TypeOK
<1>7. Positions(t)'
  <2>1. Len(log[t]) <= Len(log'[t]) /\ Len(log[t]) \in Nat /\ Len(log'[t]) \in Nat
    BY <1>4 DEF TypeOK
  <2>2. \A j \in 1..Len(handled'[t]) : handled'[t][j] < Len(log'[t])
    <3>1. \A j \in 1..Len(handled[t]) :
            handled[t][j] \in Nat /\ handled[t][j] < Len(log[t])
      BY DEF TopicInv, Positions, TypeOK
    <3>2. CASE handled'[t] = handled[t]
      BY <2>1, <3>1, <3>2
    <3>3. CASE handled'[t] = Append(handled[t], at)
      <4>1. handled[t] \in Seq(Nat)
        BY DEF TypeOK
      <4>2. /\ Len(handled'[t]) = Len(handled[t]) + 1 /\ Len(handled[t]) \in Nat
            /\ \A j \in 1..Len(handled[t]) : handled'[t][j] = handled[t][j]
            /\ handled'[t][Len(handled[t]) + 1] = at
        BY <1>2, <3>3, <4>1
      <4>3. ASSUME NEW j \in 1..Len(handled'[t]) PROVE handled'[t][j] < Len(log'[t])
        <5>1. CASE j \in 1..Len(handled[t])
          BY <2>1, <3>1, <4>2, <5>1
        <5>2. CASE j = Len(handled[t]) + 1
          BY <1>2, <2>1, <4>2, <5>2
        <5> QED BY <4>2, <5>1, <5>2
      <4> QED BY <4>3
    <3> QED BY <1>3, <3>2, <3>3
  <2> QED BY <1>1, <1>2, <2>1, <2>2 DEF TopicInv, Positions, TypeOK, Offset
<1>8. Progress(t)'
  <2>1. marked'[t] # None => ActedOnUpTo(t, marked[t])'
    BY <1>6 DEF TopicInv, Progress, TypeOK, Offset
  <2>2. ActedOnUpTo(t, worker[t].at)'
    BY <1>1, <1>2, <1>6 DEF ActedOnUpTo
  <2>3. \A p \in first[t]..(next[t] - 1) : p \in Nat /\ (ActedOn(t, p) \/ p = at)
    BY <1>1 DEF TopicInv, Progress, TypeOK
  <2>4. \A p \in first'[t]..(next'[t] - 1) : ActedOn(t, p)' \/ p = worker'[t].at
    BY <1>1, <1>3, <2>3
  <2>5. ActedOn(t, worker[t].at)'
    BY <1>1, <1>3 DEF ActedOn
  <2> QED BY <1>1, <2>1, <2>2, <2>4, <2>5 DEF Progress
<1>9. Order(t)'
  <2>1. committed'[t] # None => ActedOnUpTo(t, committed[t])'
    BY <1>6 DEF TopicInv, Order, TypeOK, Offset
  <2>2. ASSUME NEW j \in 1..Len(handled'[t]), handled'[t][j] > first'[t]
        PROVE  \E i \in 1..(j - 1) : handled'[t][i] = handled'[t][j] - 1
    <3>1. CASE handled'[t] = handled[t]
      BY <2>2, <3>1 DEF TopicInv, Order
    <3>2. CASE handled'[t] = Append(handled[t], at)
      <4>1. Len(handled'[t]) = Len(handled[t]) + 1 /\ Len(handled[t]) \in Nat
        BY <3>2 DEF TypeOK
      <4>2. \A i \in 1..Len(handled[t]) : handled'[t][i] = handled[t][i]
        BY <3>2 DEF TypeOK
      <4>3. CASE j <= Len(handled[t])
        <5>1. j \in 1..Len(handled[t]) /\ handled[t][j] > first[t]
          BY <2>2, <4>1, <4>2, <4>3
        <5>2. PICK i \in 1..(j - 1) : handled[t][i] = handled[t][j] - 1
          BY <5>1 DEF TopicInv, Order
        <5>3. i \in 1..Len(handled[t])
          BY <5>1, <4>1
        <5> QED BY <5>1, <5>2, <5>3, <4>2
      <4>4. CASE j = Len(handled[t]) + 1
        <5>1. handled'[t][j] = at /\ at - 1 \in first[t]..(at - 1)
          BY <1>2, <2>2, <3>2, <4>4 DEF TypeOK
        <5>2. ActedOn(t, at - 1)
          BY <1>2, <5>1 DEF ActedOnUpTo
        <5> QED BY <4>1, <4>2, <4>4, <5>1, <5>2 DEF ActedOn
      <4> QED BY <4>1, <4>3, <4>4
    <3> QED BY <1>3, <3>1, <3>2
  <2> QED BY <2>1, <2>2 DEF Order
<1>10. ASSUME NEW v \in Topics, v # t PROVE TopicInv(v)'
  BY <1>1, <1>3, <1>4, <1>5, <1>10, Untouched
<1>11. Started'
  BY <1>1 DEF Started
<1> QED BY <1>5, <1>7, <1>8, <1>9, <1>10, <1>11 DEF TopicInv

\* MarkOffset: what is marked has been acted on.
LEMMA MarkOffsetIInv ==
    ASSUME IInv, NEW t \in Topics, MarkOffset(t)
    PROVE  IInv'
<1> USE DEF MarkOffset, IInv, broker, list, history
<1> DEFINE at == worker[t].at
<1>1. /\ worker' \in [Topics -> [pc : {"off", "new", "created", "append", "poll",
                                       "act", "mark", "gone"}, at : Offset]]
      /\ worker[t].pc = "mark" /\ worker'[t].pc = "poll"
      /\ \A v \in Topics \ {t} : worker'[v] = worker[v]
  BY DEF TypeOK, Offset
<1>2. at \in Nat /\ at < Len(log[t]) /\ ActedOnUpTo(t, at) /\ ActedOn(t, at)
  BY <1>1 DEF TopicInv, Positions, Progress
<1>3. /\ marked' \in [Topics -> Offset]
      /\ marked'[t] = marked[t] \/ marked'[t] = at + 1
      /\ \A v \in Topics \ {t} : marked'[v] = marked[v]
  BY <1>2 DEF TypeOK, Offset
<1>4. TypeOK'
  BY <1>1, <1>3 DEF TypeOK
<1>5. ActedOnUpTo(t, at + 1)
  BY <1>2 DEF ActedOnUpTo, TypeOK
<1>6. Positions(t)'
  BY <1>1, <1>2, <1>3 DEF TopicInv, Positions, TypeOK
<1>7. Progress(t)'
  <2>1. marked'[t] # None => ActedOnUpTo(t, marked'[t])
    BY <1>3, <1>5 DEF TopicInv, Progress
  <2>2. ActedOnUpTo(t, next[t])
    BY <1>1, <1>2 DEF TopicInv, Progress, ActedOnUpTo
  <2>3. marked'[t] # None => ActedOnUpTo(t, marked[t])'
    BY <2>1 DEF ActedOnUpTo, ActedOn
  <2>4. ActedOnUpTo(t, next[t])'
    BY <2>2 DEF ActedOnUpTo, ActedOn
  <2> QED BY <1>1, <2>3, <2>4 DEF Progress
<1>8. Order(t)'
  BY DEF TopicInv, Order, ActedOnUpTo, ActedOn
<1>9. ASSUME NEW v \in Topics, v # t PROVE TopicInv(v)'
  <2>1. Len(log[v]) <= Len(log'[v])
    BY DEF TypeOK
  <2> QED BY <1>1, <1>3, <1>4, <1>9, <2>1, Untouched
<1>10. Started'
  BY <1>1 DEF Started
<1> QED BY <1>4, <1>6, <1>7, <1>8, <1>9, <1>10 DEF TopicInv

\* Stop commits what is marked, and nothing else.
LEMMA StopIInv ==
    ASSUME IInv, Stop
    PROVE  IInv'
<1> USE DEF IInv, list, history
<1>1. PICK closed \in SUBSET consumers, saved \in SUBSET consumers :
        /\ saved # consumers => faults < MaxFaults
        /\ consumer' = [t \in Topics |-> IF t \in closed THEN "closed" ELSE consumer[t]]
        /\ committed' = [t \in Topics |-> IF t \in saved THEN marked[t] ELSE committed[t]]
        /\ producer' = IF saved = consumers THEN "closed" ELSE producer
        /\ faults' = IF saved = consumers THEN faults ELSE faults + 1
  BY DEF Stop
<1>2. UNCHANGED <<log, phase, worker, next, marked, list, history>> /\ stopDue' = FALSE
  BY DEF Stop
<1>3. \A t \in Topics : /\ committed'[t] \in {committed[t], marked[t]}
                       /\ committed[t] \in Offset /\ marked[t] \in Offset
  BY <1>1 DEF TypeOK
<1>4. TypeOK'
  <2>1. committed' \in [Topics -> Offset]
    BY <1>1, <1>3
  <2>2. /\ consumer' \in [Topics -> {"none", "open", "closed"}]
        /\ \A t \in Topics : consumer'[t] = "none" <=> worker'[t].pc \in {"off", "new"}
    BY <1>1, <1>2 DEF TypeOK, Started
  <2>3. producer' \in {"none", "open", "closed"} /\ faults' \in 0..MaxFaults
    BY <1>1 DEF TypeOK
  <2> QED BY <1>2, <2>1, <2>2, <2>3 DEF TypeOK
<1>5. ASSUME NEW t \in Topics PROVE TopicInv(t)'
  <2>1. Positions(t)'
    BY <1>2, <1>3 DEF TopicInv, Positions
  <2>2. Progress(t)'
    BY <1>2 DEF TopicInv, Progress, ActedOnUpTo, ActedOn
  <2>3. committed'[t] # None => ActedOnUpTo(t, committed'[t])
    BY <1>3 DEF TopicInv, Progress, Order
  <2>4. Order(t)'
    BY <1>2, <2>3 DEF TopicInv, Order, ActedOnUpTo, ActedOn
  <2> QED BY <2>1, <2>2, <2>4 DEF TopicInv
<1>6. Started'
  BY <1>2 DEF Started
<1> QED BY <1>4, <1>5, <1>6

\* Others publish.
LEMMA ProduceIInv ==
    ASSUME IInv, NEW t \in Open, NEW decodable \in BOOLEAN, Produce(t, decodable)
    PROVE  IInv'
<1> USE DEF Produce, IInv, client, list, history
<1>1. /\ log' \in [Topics -> Seq(BOOLEAN)]
      /\ \A v \in Topics : Len(log[v]) <= Len(log'[v])
  BY DEF TypeOK
<1>2. TypeOK'
  <2>1. \A v \in Topics : next'[v] <= Len(log'[v])
    BY <1>1 DEF TypeOK
  <2> QED BY <1>1, <2>1 DEF TypeOK
<1>3. \A v \in Topics : TopicInv(v)'
  BY <1>1, <1>2, Untouched
<1>4. Started'
  BY DEF Started
<1> QED BY <1>2, <1>3, <1>4

\* Every step keeps it.
LEMMA Inductive == IInv /\ [Next]_vars => IInv'
<1> SUFFICES ASSUME IInv, [Next]_vars PROVE IInv'
  OBVIOUS
<1>1. CASE Launch \/ StartKafka \/ Die \/ StopTooEarly
  BY <1>1, ProcessIInv
<1>2. CASE Stop
  BY <1>2, StopIInv
<1>3. ASSUME NEW t \in Topics, Worker(t) PROVE IInv'
  <2>1. ASSUME PublishPanics(t) PROVE IInv'
    <3>1. faults' \in 0..MaxFaults
      BY <2>1 DEF PublishPanics, IInv, TypeOK
    <3> QED BY <2>1, <3>1, EndsIInv DEF PublishPanics
  <2> QED BY <1>3, <2>1, GroupIInv, ListIInv, ReceiveIInv, DoActionsIInv,
             MarkOffsetIInv DEF Worker
<1>4. ASSUME NEW t \in Topics, Commit(t) \/ Rebalance(t) PROVE IInv'
  BY <1>4, GroupIInv
<1>5. ASSUME NEW t \in Open, NEW decodable \in BOOLEAN, Produce(t, decodable)
      PROVE  IInv'
  BY <1>5, ProduceIInv
<1>6. CASE UNCHANGED vars
  <2> USE <1>6 DEF vars, IInv
  <2>1. TypeOK' /\ Started'
    BY DEF TypeOK, Started
  <2>2. \A v \in Topics : TopicInv(v)'
    BY DEF TopicInv, Positions, Progress, Order, ActedOnUpTo, ActedOn
  <2> QED BY <2>1, <2>2
<1> QED BY <1>1, <1>2, <1>3, <1>4, <1>5, <1>6 DEF Next

-----------------------------------------------------------------------------

\* The variables keep their types, a goroutine past its start has a consumer,
\* and no consumer reads ahead of its log (kafka.go).
THEOREM TypeCorrect == Spec => []TypeOK
<1>1. IInv => TypeOK
  BY DEF IInv
<1> QED BY <1>1, InitIInv, Inductive, PTL DEF Spec

\* At least once and in order: a topic's messages are acted on without gaps,
\* and none is committed before it was acted on, through any number of
\* rebalances, failures, restarts and stops (startKafka).
THEOREM InOrder == Spec => []HandledInOrder
<1>1. IInv => HandledInOrder
  BY DEF IInv, TopicInv, Order, HandledInOrder
<1> QED BY <1>1, InitIInv, Inductive, PTL DEF Spec
=============================================================================
