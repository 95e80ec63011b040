------------------------------- MODULE AdminProofs -------------------------------
(***************************************************************************)
(* What the two sides of the admin API keep: AdminServer, the process that *)
(* listens, for any one to three listeners, any signals, requests and      *)
(* failures, and any number of reloads; and AdminApi, a request on its     *)
(* way, for any sets, keys, mocks and requests.                            *)
(***************************************************************************)
EXTENDS AdminServer, AdminApi, ListProofs, TLAPS

(***************************************************************************)
(* AdminServer.                                                            *)
(***************************************************************************)

\* The capacity of a slice with n elements that has grown one by one.
Capacity(n) == IF n = 3 THEN 4 ELSE n

\* Serve starts handleShutdown, and then one server after another.
StartsInOrder ==
    /\ handler = "none" <=> main \in {"configure", "off", "listen", "notify"}
    /\ handler = "none" => length = 0
    /\ array = IF main = "appending" THEN Capacity(length + 1) ELSE Capacity(length)
    /\ main \in {"append", "appending"} => length < LastServer
    /\ main = "wait" => length = LastServer
    /\ main = "launch" => length > 0
    /\ \A s \in Servers :
        serve[s] = "no" <=> s > length \/ (s = length /\ main = "launch")

\* A signal is noticed once Notify has been called; unless it came early, all
\* servers are there from then on.
SignalsAreLate ==
    /\ interrupt > 0 => notified
    /\ notified => main \notin {"configure", "listen", "notify"}
    /\ shutdown => handler # "none"
    /\ (interrupt > 0 \/ shutdown) /\ ~ early => main \in {"off", "wait"}

\* handleShutdown reads the slice when told to, and stops what it has read.
StopsWhatItHasSeen ==
    /\ seen.array # None \/ seen.length # None => shutdown
    /\ seen.length # None /\ ~ early => seen.length = LastServer
    /\ handler \in {"none", "wait"} =>
        ~ torndown /\ \A s \in Servers : stopping[s] = "no"
    /\ handler \in {"collect", "done"} =>
        /\ seen.length # None
        /\ \A s \in Servers : stopping[s] = "no" <=> s > seen.length

\* How far each server is with its shutdown, and what handleShutdown concludes.
Drains ==
    /\ \A s \in Servers :
        /\ closing[s] <=> stopping[s] \in {"drain", "ok", "failed"}
        /\ stopping[s] = "ok" => active[s] = 0
        /\ serve[s] = "returned" => closing[s]
    /\ torndown => handler = "done" /\ \A s \in Servers : stopping[s] \in {"no", "ok"}
    /\ handler = "done" => torndown \/ \E s \in Servers : stopping[s] = "failed"

\* main returns when the WaitGroup is down to zero.
EndsWhenDone == exit = "ok" => main = "wait" /\ waiting = 0

IInv ==
    /\ TypeOK /\ StartsInOrder /\ SignalsAreLate /\ StopsWhatItHasSeen
    /\ Drains /\ EndsWhenDone



LEMMA LastType == LastServer \in 1..3
BY ServerAssumption DEF LastServer

\* The set of servers is finite, and so are its subsets.
LEMMA UnendedIsFinite ==
    IsFiniteSet(Unended) /\ Cardinality(Unended) \in Nat
<1>1. IsFiniteSet(Servers)
  BY FS_Interval, LastType DEF Servers
<1>2. IsFiniteSet(Unended)
  BY <1>1, FS_Subset DEF Unended
<1> QED
  BY <1>2, FS_CardinalityType

\* It holds in a fresh process.
LEMMA InitIInv == Init => IInv
<1> SUFFICES ASSUME Init PROVE IInv
  OBVIOUS
<1> USE ServerAssumption, LastType DEF Init, Servers
<1>1. Unended = {}
  BY DEF Unended
<1>2. TypeOK
  <2>1. waiting = Cardinality(Unended)
                   + IF handler \in {"wait", "collect"} THEN 1 ELSE 0
    BY <1>1, FS_EmptySet
  <2>2. seen \in [array : {None, 0, 1, 2, 4},
                 length : {None} \cup 0..LastServer]
    OBVIOUS
  <2>3. /\ stopping \in [Servers -> {"no", "begin", "drain", "ok", "failed"}]
        /\ serve \in [Servers -> {"no", "launched", "serving", "returned"}]
        /\ closing \in [Servers -> BOOLEAN] /\ active \in [Servers -> 0..MaxConns]
    OBVIOUS
  <2>4. admin \in BOOLEAN
    OBVIOUS
  <2>5. length \in 0..LastServer /\ array \in {0, 1, 2, 4} /\ interrupt \in 0..1
    OBVIOUS
  <2> QED
    BY <2>1, <2>2, <2>3, <2>4, <2>5 DEF TypeOK
<1>3. StartsInOrder
  BY DEF StartsInOrder, Capacity
<1>4. SignalsAreLate /\ StopsWhatItHasSeen
  BY DEF SignalsAreLate, StopsWhatItHasSeen
<1>5. Drains /\ EndsWhenDone
  BY DEF Drains, EndsWhenDone
<1> QED
  BY <1>2, <1>3, <1>4, <1>5 DEF IInv

\* A slice with a full array grows to the next capacity.
LEMMA GrowCapacity ==
    ASSUME IInv, main = "append"
    PROVE  /\ length \in 0..2 /\ length < LastServer
           /\ array = Capacity(length)
           /\ (IF length < array THEN array
               ELSE IF array = 0 THEN 1 ELSE 2 * array) = Capacity(length + 1)
<1> USE ServerAssumption, LastType DEF IInv
<1>1. length \in 0..2 /\ length < LastServer
  BY DEF TypeOK, StartsInOrder
<1>2. array = Capacity(length)
  BY DEF StartsInOrder
<1>3. length = 0 \/ length = 1 \/ length = 2
  BY <1>1
<1> QED
  BY <1>1, <1>2, <1>3 DEF Capacity

LEMMA ConfigureIInv ==
    ASSUME IInv, Configure
    PROVE  IInv'
<1> USE ServerAssumption, LastType DEF IInv, Configure, Running, Exit, starting, stop, net, bounds
<1>1. TypeOK'
  BY DEF TypeOK, Unended, Servers
<1>2. StartsInOrder'
  BY DEF TypeOK, StartsInOrder, Capacity, Servers
<1>3. SignalsAreLate'
  BY DEF TypeOK, SignalsAreLate, Servers
<1>4. StopsWhatItHasSeen'
  BY DEF TypeOK, StopsWhatItHasSeen, Servers
<1>5. Drains'
  BY DEF TypeOK, Drains, Servers
<1>6. EndsWhenDone'
  BY DEF TypeOK, EndsWhenDone, Servers
<1> QED
  BY <1>1, <1>2, <1>3, <1>4, <1>5, <1>6

LEMMA TerminateIInv ==
    ASSUME IInv, Terminate
    PROVE  IInv'
<1> USE ServerAssumption, LastType DEF IInv, Terminate, Running, Exit, starting, stop, net, bounds
<1>1. TypeOK'
  BY DEF TypeOK, Unended, Servers
<1>2. StartsInOrder'
  BY DEF TypeOK, StartsInOrder, Capacity, Servers
<1>3. SignalsAreLate'
  BY DEF TypeOK, SignalsAreLate, Servers
<1>4. StopsWhatItHasSeen'
  BY DEF TypeOK, StopsWhatItHasSeen, Servers
<1>5. Drains'
  BY DEF TypeOK, Drains, Servers
<1>6. EndsWhenDone'
  BY DEF TypeOK, EndsWhenDone, Servers
<1> QED
  BY <1>1, <1>2, <1>3, <1>4, <1>5, <1>6

LEMMA ListenIInv ==
    ASSUME IInv, Listen
    PROVE  IInv'
<1> USE ServerAssumption, LastType DEF IInv, Listen, Running, Exit, starting, stop, net, bounds
<1>1. TypeOK'
  <2>1. HasUnix \in BOOLEAN
    BY DEF HasUnix
  <2>2. socket' \in BOOLEAN
    BY <2>1 DEF TypeOK
  <2> QED
    BY <2>2 DEF TypeOK, Unended
<1>2. StartsInOrder'
  BY DEF TypeOK, StartsInOrder, Capacity, Servers
<1>3. SignalsAreLate'
  BY DEF TypeOK, SignalsAreLate, Servers
<1>4. StopsWhatItHasSeen'
  BY DEF TypeOK, StopsWhatItHasSeen, Servers
<1>5. Drains'
  BY DEF TypeOK, Drains, Servers
<1>6. EndsWhenDone'
  BY DEF TypeOK, EndsWhenDone, Servers
<1> QED
  BY <1>1, <1>2, <1>3, <1>4, <1>5, <1>6

LEMMA NotifyIInv ==
    ASSUME IInv, Notify
    PROVE  IInv'
<1> USE ServerAssumption, LastType DEF IInv, Notify, Running, Exit, starting, stop, net, bounds
<1>1. TypeOK'
  <2>1. handler = "none"
    BY DEF StartsInOrder
  <2> QED
    BY <2>1, UnendedIsFinite DEF TypeOK, Unended
<1>2. StartsInOrder'
  <2>1. handler = "none" /\ length = 0 /\ array = 0
    BY DEF StartsInOrder, Capacity
  <2>2. \A s \in Servers : serve[s] = "no"
    BY <2>1 DEF StartsInOrder, Servers
  <2>3. handler' = "wait" /\ main' = "append" /\ length' = 0 /\ array' = 0
    BY <2>1
  <2>4. length' < LastServer /\ \A s \in Servers : serve'[s] = "no" /\ s > 0
    BY <2>2, <2>3 DEF Servers
  <2> QED
    BY <2>3, <2>4 DEF StartsInOrder, Capacity
<1>3. SignalsAreLate'
  BY DEF TypeOK, SignalsAreLate, Servers
<1>4. StopsWhatItHasSeen'
  BY DEF StartsInOrder, StopsWhatItHasSeen, Servers
<1>5. Drains'
  BY DEF StartsInOrder, StopsWhatItHasSeen, Drains, Servers
<1>6. EndsWhenDone'
  BY DEF TypeOK, EndsWhenDone, Servers
<1> QED
  BY <1>1, <1>2, <1>3, <1>4, <1>5, <1>6

LEMMA GrowIInv ==
    ASSUME IInv, Grow
    PROVE  IInv'
<1> USE ServerAssumption, LastType DEF IInv, Grow, Running, Exit, starting, stop, net, bounds
<1>1. TypeOK'
  <2>1. array' \in {0, 1, 2, 4}
    BY GrowCapacity DEF TypeOK, Capacity
  <2> QED
    BY <2>1 DEF TypeOK, Unended
<1>2. StartsInOrder'
  <2>1. CASE main' = "appending"
    BY <2>1, GrowCapacity DEF StartsInOrder, Servers
  <2>2. CASE main' = "append"
    BY <2>2 DEF StartsInOrder
  <2> QED
    BY <2>1, <2>2
<1>3. SignalsAreLate'
  BY DEF TypeOK, SignalsAreLate, Servers
<1>4. StopsWhatItHasSeen'
  BY DEF TypeOK, StopsWhatItHasSeen, Servers
<1>5. Drains'
  BY DEF TypeOK, Drains, Servers
<1>6. EndsWhenDone'
  BY DEF TypeOK, EndsWhenDone, Servers
<1> QED
  BY <1>1, <1>2, <1>3, <1>4, <1>5, <1>6

LEMMA LengthenIInv ==
    ASSUME IInv, Lengthen
    PROVE  IInv'
<1> USE ServerAssumption, LastType DEF IInv, Lengthen, Running, Exit, starting, stop, net, bounds
<1>1. TypeOK'
  BY DEF TypeOK, StartsInOrder, Unended
<1>2. StartsInOrder'
  <2>1. array' = Capacity(length') /\ length' = length + 1
    BY DEF StartsInOrder
  <2>2. length \in Nat
    BY DEF TypeOK
  <2>3. \A s \in Servers : serve[s] = "no" <=> s > length
    BY DEF StartsInOrder
  <2>4. \A s \in Servers : serve'[s] = "no" <=> s > length' \/ s = length'
    BY <2>1, <2>2, <2>3 DEF Servers
  <2>5. length' > 0 /\ handler' # "none"
    BY <2>1, <2>2 DEF StartsInOrder
  <2> QED
    BY <2>1, <2>4, <2>5 DEF StartsInOrder
<1>3. SignalsAreLate'
  BY DEF TypeOK, SignalsAreLate, Servers
<1>4. StopsWhatItHasSeen'
  BY DEF TypeOK, StopsWhatItHasSeen, Servers
<1>5. Drains'
  BY DEF TypeOK, Drains, Servers
<1>6. EndsWhenDone'
  BY DEF TypeOK, EndsWhenDone, Servers
<1> QED
  BY <1>1, <1>2, <1>3, <1>4, <1>5, <1>6

LEMMA LaunchIInv ==
    ASSUME IInv, Launch
    PROVE  IInv'
<1> USE ServerAssumption, LastType DEF IInv, Launch, Running, Exit, starting, stop, net, bounds
<1>1. TypeOK'
  <2>1. length \in Servers /\ length \notin Unended
    BY DEF TypeOK, StartsInOrder, Servers, Unended
  <2>2. Unended' = Unended \cup {length}
    BY <2>1 DEF TypeOK, Unended
  <2>3. Cardinality(Unended') = Cardinality(Unended) + 1
    BY <2>1, <2>2, UnendedIsFinite, FS_AddElement
  <2> QED
    BY SMTT(30), <2>1, <2>3, UnendedIsFinite DEF TypeOK
<1>2. StartsInOrder'
  BY DEF TypeOK, StartsInOrder, Capacity, Servers
<1>3. SignalsAreLate'
  BY DEF TypeOK, SignalsAreLate, Servers
<1>4. StopsWhatItHasSeen'
  BY DEF TypeOK, StopsWhatItHasSeen, Servers
<1>5. Drains'
  BY DEF TypeOK, Drains, Servers
<1>6. EndsWhenDone'
  BY DEF TypeOK, EndsWhenDone, Servers
<1> QED
  BY <1>1, <1>2, <1>3, <1>4, <1>5, <1>6

LEMMA ReturnIInv ==
    ASSUME IInv, Return
    PROVE  IInv'
<1> USE ServerAssumption, LastType DEF IInv, Return, Running, Exit, starting, stop, net, bounds
<1>1. TypeOK'
  BY DEF TypeOK, Unended, Servers
<1>2. StartsInOrder'
  BY DEF TypeOK, StartsInOrder, Capacity, Servers
<1>3. SignalsAreLate'
  BY DEF TypeOK, SignalsAreLate, Servers
<1>4. StopsWhatItHasSeen'
  BY DEF TypeOK, StopsWhatItHasSeen, Servers
<1>5. Drains'
  BY DEF TypeOK, Drains, Servers
<1>6. EndsWhenDone'
  BY DEF TypeOK, EndsWhenDone, Servers
<1> QED
  BY <1>1, <1>2, <1>3, <1>4, <1>5, <1>6

LEMMA ServeStartsIInv ==
    ASSUME IInv, NEW s \in Servers, ServeStarts(s)
    PROVE  IInv'
<1> USE ServerAssumption, LastType DEF IInv, ServeStarts, Running, Exit, starting, stop, net, bounds
<1>1. TypeOK'
  <2>1. Unended' = Unended
    BY DEF TypeOK, Unended
  <2>2. serve' \in [Servers -> {"no", "launched", "serving", "returned"}]
    BY DEF TypeOK
  <2> QED
    BY <2>1, <2>2 DEF TypeOK
<1>2. StartsInOrder'
  BY DEF TypeOK, StartsInOrder, Capacity, Servers
<1>3. SignalsAreLate'
  BY DEF TypeOK, SignalsAreLate, Servers
<1>4. StopsWhatItHasSeen'
  BY DEF TypeOK, StopsWhatItHasSeen, Servers
<1>5. Drains'
  BY DEF TypeOK, Drains, Servers
<1>6. EndsWhenDone'
  BY DEF TypeOK, EndsWhenDone, Servers
<1> QED
  BY <1>1, <1>2, <1>3, <1>4, <1>5, <1>6

LEMMA ServeReturnsIInv ==
    ASSUME IInv, NEW s \in Servers, ServeReturns(s)
    PROVE  IInv'
<1> USE ServerAssumption, LastType DEF IInv, ServeReturns, Running, Exit, starting, stop, net, bounds
<1>1. TypeOK'
  <2>1. s \in Unended
    BY DEF Unended
  <2>2. Unended' = Unended \ {s}
    BY DEF TypeOK, Unended
  <2>3. Cardinality(Unended') = Cardinality(Unended) - 1
    BY <2>1, <2>2, UnendedIsFinite, FS_RemoveElement
  <2> QED
    BY SMTT(30), <2>3, UnendedIsFinite DEF TypeOK
<1>2. StartsInOrder'
  BY DEF TypeOK, StartsInOrder, Capacity, Servers
<1>3. SignalsAreLate'
  BY DEF TypeOK, SignalsAreLate, Servers
<1>4. StopsWhatItHasSeen'
  BY DEF TypeOK, StopsWhatItHasSeen, Servers
<1>5. Drains'
  BY DEF TypeOK, Drains, Servers
<1>6. EndsWhenDone'
  BY DEF TypeOK, EndsWhenDone, Servers
<1> QED
  BY <1>1, <1>2, <1>3, <1>4, <1>5, <1>6

LEMMA ServeFailsIInv ==
    ASSUME IInv, NEW s \in Servers, ServeFails(s)
    PROVE  IInv'
<1> USE ServerAssumption, LastType DEF IInv, ServeFails, Running, Exit, starting, stop, net, bounds
<1>1. TypeOK'
  BY DEF TypeOK, Unended, Servers
<1>2. StartsInOrder'
  BY DEF TypeOK, StartsInOrder, Capacity, Servers
<1>3. SignalsAreLate'
  BY DEF TypeOK, SignalsAreLate, Servers
<1>4. StopsWhatItHasSeen'
  BY DEF TypeOK, StopsWhatItHasSeen, Servers
<1>5. Drains'
  BY DEF TypeOK, Drains, Servers
<1>6. EndsWhenDone'
  BY DEF TypeOK, EndsWhenDone, Servers
<1> QED
  BY <1>1, <1>2, <1>3, <1>4, <1>5, <1>6

LEMMA RequestIInv ==
    ASSUME IInv, NEW s \in Servers, Request(s)
    PROVE  IInv'
<1> USE ServerAssumption, LastType DEF IInv, Request, Running, Exit, starting, stop, net, bounds
<1>1. TypeOK'
  <2>1. active' \in [Servers -> 0..MaxConns]
    BY DEF TypeOK
  <2> QED
    BY <2>1 DEF TypeOK, Unended
<1>2. StartsInOrder'
  BY DEF TypeOK, StartsInOrder, Capacity, Servers
<1>3. SignalsAreLate'
  BY DEF TypeOK, SignalsAreLate, Servers
<1>4. StopsWhatItHasSeen'
  BY DEF TypeOK, StopsWhatItHasSeen, Servers
<1>5. Drains'
  BY DEF TypeOK, Drains, Servers
<1>6. EndsWhenDone'
  BY DEF TypeOK, EndsWhenDone, Servers
<1> QED
  BY <1>1, <1>2, <1>3, <1>4, <1>5, <1>6

LEMMA AnswerIInv ==
    ASSUME IInv, NEW s \in Servers, Answer(s)
    PROVE  IInv'
<1> USE ServerAssumption, LastType DEF IInv, Answer, Running, Exit, starting, stop, net, bounds
<1>1. TypeOK'
  <2>1. Unended' = Unended
    BY DEF Unended
  <2>2. active' \in [Servers -> 0..MaxConns]
    BY DEF TypeOK
  <2>3. reload' \in BOOLEAN
    BY Zenon DEF TypeOK
  <2> QED
    BY <2>1, <2>2, <2>3 DEF TypeOK
<1>2. StartsInOrder'
  BY DEF TypeOK, StartsInOrder, Capacity, Servers
<1>3. SignalsAreLate'
  BY DEF TypeOK, SignalsAreLate, Servers
<1>4. StopsWhatItHasSeen'
  BY DEF TypeOK, StopsWhatItHasSeen, Servers
<1>5. Drains'
  BY DEF TypeOK, Drains, Servers
<1>6. EndsWhenDone'
  BY DEF TypeOK, EndsWhenDone, Servers
<1> QED
  BY <1>1, <1>2, <1>3, <1>4, <1>5, <1>6

LEMMA ExecIInv ==
    ASSUME IInv, Exec
    PROVE  IInv'
<1> USE ServerAssumption, LastType DEF IInv, Exec, Running, Exit, starting, stop, net, bounds
<1>1. TypeOK'
  <2>1. Unended' = {}
    BY DEF Unended
  <2>2. waiting' = Cardinality(Unended')
                    + IF handler' \in {"wait", "collect"} THEN 1 ELSE 0
    BY <2>1, FS_EmptySet
  <2>3. seen' \in [array : {None, 0, 1, 2, 4},
                  length : {None} \cup 0..LastServer]
    OBVIOUS
  <2>4. /\ stopping' \in [Servers -> {"no", "begin", "drain", "ok", "failed"}]
        /\ serve' \in [Servers -> {"no", "launched", "serving", "returned"}]
        /\ closing' \in [Servers -> BOOLEAN] /\ active' \in [Servers -> 0..MaxConns]
    OBVIOUS
  <2>5. length' \in 0..LastServer /\ array' \in {0, 1, 2, 4} /\ interrupt' \in 0..1
    OBVIOUS
  <2>6. admin' \in BOOLEAN /\ socket' \in BOOLEAN /\ exit' = exit
    BY DEF TypeOK
  <2> QED
    BY <2>2, <2>3, <2>4, <2>5, <2>6 DEF TypeOK
<1>2. StartsInOrder'
  BY DEF TypeOK, StartsInOrder, Capacity, Servers
<1>3. SignalsAreLate'
  BY DEF TypeOK, SignalsAreLate, Servers
<1>4. StopsWhatItHasSeen'
  BY DEF TypeOK, StopsWhatItHasSeen, Servers
<1>5. Drains'
  BY DEF TypeOK, Drains, Servers
<1>6. EndsWhenDone'
  BY DEF TypeOK, EndsWhenDone, Servers
<1> QED
  BY <1>1, <1>2, <1>3, <1>4, <1>5, <1>6

LEMMA SignalIInv ==
    ASSUME IInv, Signal
    PROVE  IInv'
<1> USE ServerAssumption, LastType DEF IInv, Signal, Running, Exit, starting, stop, net, bounds
<1>1. TypeOK'
  BY DEF TypeOK, Unended, Servers
<1>2. StartsInOrder'
  BY DEF TypeOK, StartsInOrder, Capacity, Servers
<1>3. SignalsAreLate'
  BY DEF TypeOK, SignalsAreLate, Launching
<1>4. StopsWhatItHasSeen'
  BY DEF TypeOK, StopsWhatItHasSeen, Servers
<1>5. Drains'
  BY DEF TypeOK, Drains, Servers
<1>6. EndsWhenDone'
  BY DEF TypeOK, EndsWhenDone, Servers
<1> QED
  BY <1>1, <1>2, <1>3, <1>4, <1>5, <1>6

LEMMA HandleInterruptIInv ==
    ASSUME IInv, HandleInterrupt
    PROVE  IInv'
<1> USE ServerAssumption, LastType DEF IInv, HandleInterrupt, Running, Exit, starting, stop, net, bounds
<1>1. TypeOK'
  BY DEF TypeOK, Unended, Servers
<1>2. StartsInOrder'
  BY DEF TypeOK, StartsInOrder, Capacity, Servers
<1>3. SignalsAreLate'
  BY DEF TypeOK, SignalsAreLate, Servers
<1>4. StopsWhatItHasSeen'
  BY DEF TypeOK, StopsWhatItHasSeen, Servers
<1>5. Drains'
  BY DEF TypeOK, Drains, Servers
<1>6. EndsWhenDone'
  BY DEF TypeOK, EndsWhenDone, Servers
<1> QED
  BY <1>1, <1>2, <1>3, <1>4, <1>5, <1>6

LEMMA ReadServersIInv ==
    ASSUME IInv, NEW word \in {"array", "length"}, ReadServers(word)
    PROVE  IInv'
<1> USE ServerAssumption, LastType DEF IInv, ReadServers, Running, Exit, starting, stop, net, bounds
<1>a. /\ seen' \in [array : {None, 0, 1, 2, 4},
                   length : {None} \cup 0..LastServer]
      /\ word = "array" => seen'.array = array /\ seen'.length = seen.length
      /\ word = "length" => seen'.length = length /\ seen'.array = seen.array
      /\ handler = "wait" /\ shutdown
  BY DEF TypeOK, Awaited
<1>b. CASE UNCHANGED <<handler, stopping>>
  <2>1. TypeOK'
    BY <1>a, <1>b DEF TypeOK, Unended
  <2>2. StartsInOrder' /\ SignalsAreLate' /\ Drains'
    BY <1>b DEF StartsInOrder, SignalsAreLate, Drains
  <2>3. StopsWhatItHasSeen'
    BY <1>a, <1>b DEF TypeOK, StartsInOrder, SignalsAreLate, StopsWhatItHasSeen
  <2>4. EndsWhenDone'
    BY DEF EndsWhenDone
  <2> QED
    BY <2>1, <2>2, <2>3, <2>4
<1>c. CASE /\ handler' = "collect" /\ exit' = exit
           /\ seen'.array # None /\ seen'.length # None
           /\ stopping' = [s \in Servers |->
                            IF s <= seen'.length THEN "begin" ELSE "no"]
  <2>1. TypeOK'
    BY <1>a, <1>c DEF TypeOK, Unended
  <2>2. StartsInOrder' /\ SignalsAreLate'
    BY <1>a, <1>c DEF StartsInOrder, SignalsAreLate
  <2>3. StopsWhatItHasSeen'
    BY <1>a, <1>c DEF TypeOK, StartsInOrder, SignalsAreLate, StopsWhatItHasSeen,
                     Servers
  <2>4. Drains'
    BY <1>a, <1>c DEF TypeOK, StopsWhatItHasSeen, Drains
  <2>5. EndsWhenDone'
    BY <1>c DEF EndsWhenDone
  <2> QED
    BY <2>1, <2>2, <2>3, <2>4, <2>5
<1> QED
  BY <1>a, <1>b, <1>c

LEMMA ShutdownIInv ==
    ASSUME IInv, NEW s \in Servers, Shutdown(s)
    PROVE  IInv'
<1> USE ServerAssumption, LastType DEF IInv, Shutdown, Running, Exit, starting, stop, net, bounds
<1>1. TypeOK'
  BY DEF TypeOK, Unended, Servers
<1>2. StartsInOrder'
  BY DEF TypeOK, StartsInOrder, Capacity, Servers
<1>3. SignalsAreLate'
  BY DEF TypeOK, SignalsAreLate, Servers
<1>4. StopsWhatItHasSeen'
  BY DEF TypeOK, StopsWhatItHasSeen, Servers
<1>5. Drains'
  BY DEF TypeOK, Drains, Servers
<1>6. EndsWhenDone'
  BY DEF TypeOK, EndsWhenDone, Servers
<1> QED
  BY <1>1, <1>2, <1>3, <1>4, <1>5, <1>6

LEMMA DrainedIInv ==
    ASSUME IInv, NEW s \in Servers, Drained(s)
    PROVE  IInv'
<1> USE ServerAssumption, LastType DEF IInv, Drained, Running, Exit, starting, stop, net, bounds
<1>1. TypeOK'
  BY DEF TypeOK, Unended, Servers
<1>2. StartsInOrder'
  BY DEF TypeOK, StartsInOrder, Capacity, Servers
<1>3. SignalsAreLate'
  BY DEF TypeOK, SignalsAreLate, Servers
<1>4. StopsWhatItHasSeen'
  BY DEF TypeOK, StopsWhatItHasSeen, Servers
<1>5. Drains'
  BY ZenonT(30) DEF TypeOK, Drains, Servers
<1>6. EndsWhenDone'
  BY DEF TypeOK, EndsWhenDone, Servers
<1> QED
  BY <1>1, <1>2, <1>3, <1>4, <1>5, <1>6

LEMMA CollectFailureIInv ==
    ASSUME IInv, CollectFailure
    PROVE  IInv'
<1> USE ServerAssumption, LastType DEF IInv, CollectFailure, Running, Exit, starting, stop, net, bounds
<1>1. TypeOK'
  BY UnendedIsFinite DEF TypeOK, Unended
<1>2. StartsInOrder'
  BY DEF TypeOK, StartsInOrder, Capacity, Servers
<1>3. SignalsAreLate'
  BY DEF TypeOK, SignalsAreLate, Servers
<1>4. StopsWhatItHasSeen'
  BY DEF TypeOK, StopsWhatItHasSeen, Servers
<1>5. Drains'
  BY DEF StopsWhatItHasSeen, Drains, Stopped
<1>6. EndsWhenDone'
  BY DEF TypeOK, EndsWhenDone, Servers
<1> QED
  BY <1>1, <1>2, <1>3, <1>4, <1>5, <1>6

LEMMA CollectAllIInv ==
    ASSUME IInv, CollectAll
    PROVE  IInv'
<1> USE ServerAssumption, LastType DEF IInv, CollectAll, Running, Exit, starting, stop, net, bounds
<1>1. TypeOK'
  BY UnendedIsFinite DEF TypeOK, Unended
<1>2. StartsInOrder'
  BY DEF TypeOK, StartsInOrder, Capacity, Servers
<1>3. SignalsAreLate'
  BY DEF TypeOK, SignalsAreLate, Servers
<1>4. StopsWhatItHasSeen'
  BY DEF TypeOK, StopsWhatItHasSeen, Servers
<1>5. Drains'
  <2>1. \A s \in Servers : stopping[s] \in {"no", "ok"}
    BY DEF Stopped
  <2> QED
    BY <2>1 DEF Drains
<1>6. EndsWhenDone'
  BY DEF TypeOK, EndsWhenDone, Servers
<1> QED
  BY <1>1, <1>2, <1>3, <1>4, <1>5, <1>6

LEMMA ExpireIInv ==
    ASSUME IInv, Expire
    PROVE  IInv'
<1> USE ServerAssumption, LastType DEF IInv, Expire, Running, Exit, starting, stop, net, bounds
<1>1. TypeOK'
  BY DEF TypeOK, Unended, Servers
<1>2. StartsInOrder'
  BY DEF TypeOK, StartsInOrder, Capacity, Servers
<1>3. SignalsAreLate'
  BY DEF TypeOK, SignalsAreLate, Servers
<1>4. StopsWhatItHasSeen'
  BY DEF TypeOK, StopsWhatItHasSeen, Servers
<1>5. Drains'
  BY DEF TypeOK, Drains, Servers
<1>6. EndsWhenDone'
  BY DEF TypeOK, EndsWhenDone, Servers
<1> QED
  BY <1>1, <1>2, <1>3, <1>4, <1>5, <1>6

LEMMA NextIInv == IInv /\ [Next]_vars => IInv'
<1> SUFFICES ASSUME IInv, [Next]_vars PROVE IInv'
  OBVIOUS
<1>1. CASE Main
  BY <1>1, ConfigureIInv, TerminateIInv, ListenIInv, NotifyIInv, GrowIInv,
     LengthenIInv, LaunchIInv, ReturnIInv DEF Main
<1>2. CASE \E s \in Servers :
            Goroutine(s) \/ ServeFails(s) \/ Request(s) \/ Answer(s)
  BY <1>2, ServeStartsIInv, ServeReturnsIInv, ShutdownIInv, DrainedIInv,
     ServeFailsIInv, RequestIInv, AnswerIInv DEF Goroutine
<1>3. CASE Signal \/ HandleInterrupt \/ Expire \/ Exec
  BY <1>3, SignalIInv, HandleInterruptIInv, ExpireIInv, ExecIInv
<1>4. CASE HandleShutdown
  BY <1>4, ReadServersIInv, CollectFailureIInv, CollectAllIInv
     DEF HandleShutdown
<1>5. CASE UNCHANGED vars
  BY <1>5 DEF vars, IInv, TypeOK, Unended, StartsInOrder, SignalsAreLate,
              StopsWhatItHasSeen, Drains, EndsWhenDone
<1> QED
  BY <1>1, <1>2, <1>3, <1>4, <1>5 DEF Next, Over

LEMMA Invariance == Spec => []IInv
<1>1. Init => IInv
  BY InitIInv
<1>2. IInv /\ [Next]_vars => IInv'
  BY NextIInv
<1> QED
  BY <1>1, <1>2, PTL DEF Spec

(***************************************************************************)
(* Types, and the WaitGroup counts what has yet to end (Serve).            *)
(***************************************************************************)
THEOREM TypeCorrect == Spec => []TypeOK
<1>1. IInv => TypeOK
  BY DEF IInv
<1> QED
  BY <1>1, Invariance, PTL

(***************************************************************************)
(* A shutdown misses a server only if its signal came while Serve was      *)
(* starting servers (Serve, handleShutdown).                               *)
(***************************************************************************)
THEOREM OnlyEarlyMisses == Spec => []MissedOnlyEarly
<1>1. IInv => MissedOnlyEarly
  <2> SUFFICES ASSUME IInv, ~ early PROVE Missed = {}
    BY DEF MissedOnlyEarly
  <2>1. seen.length # None => seen.length = LastServer
    BY DEF IInv, StopsWhatItHasSeen
  <2> QED
    BY <2>1, LastType DEF Missed, Servers
<1> QED
  BY <1>1, Invariance, PTL

(***************************************************************************)
(* ServerShutdown is called when every server that the shutdown has seen   *)
(* accepts nothing any more and has nothing active (handleShutdown).       *)
(***************************************************************************)
THEOREM Graceful == Spec => []TornDownWhenDone
<1>1. IInv => TornDownWhenDone
  <2> SUFFICES ASSUME IInv, torndown, NEW s \in Servers \ Missed
               PROVE  active[s] = 0 /\ closing[s]
    BY DEF TornDownWhenDone
  <2>1. handler = "done" /\ stopping[s] \in {"no", "ok"}
    BY DEF IInv, Drains
  <2>2. stopping[s] # "no"
    BY <2>1 DEF IInv, StopsWhatItHasSeen, Missed
  <2> QED
    BY <2>1, <2>2 DEF IInv, Drains
<1> QED
  BY <1>1, Invariance, PTL

(***************************************************************************)
(* A process that ends of itself has answered every request, unless a      *)
(* grace period ran out (wg.Wait).                                         *)
(***************************************************************************)
THEOREM Answered == Spec => []RequestsAnswered
<1>1. IInv => RequestsAnswered
  <2> SUFFICES ASSUME IInv, exit = "ok",
                      \A s \in Servers : stopping[s] # "failed",
                      NEW s \in Servers
               PROVE  active[s] = 0
    BY DEF RequestsAnswered
  <2>1. main = "wait" /\ waiting = 0
    BY DEF IInv, EndsWhenDone
  <2>2. Cardinality(Unended) = 0 /\ handler \notin {"wait", "collect"}
    BY <2>1, UnendedIsFinite DEF IInv, TypeOK
  <2>3. Unended = {}
    BY <2>2, UnendedIsFinite, FS_EmptySet
  <2>4. handler = "done"
    BY <2>1, <2>2 DEF IInv, TypeOK, StartsInOrder
  <2>5. serve[s] = "returned"
    <3>1. serve[s] # "no"
      BY <2>1, LastType DEF IInv, StartsInOrder, Servers
    <3> QED
      BY <2>3, <3>1 DEF IInv, TypeOK, Unended
  <2>6. closing[s] /\ torndown
    BY <2>4, <2>5 DEF IInv, Drains
  <2> QED
    BY <2>6 DEF IInv, Drains
<1> QED
  BY <1>1, Invariance, PTL

-----------------------------------------------------------------------------
(***************************************************************************)
(* AdminApi: first what becomes of a mock and of lists of mocks in each of *)
(* their forms, then two invariants.  ApiInv is about a request: what it   *)
(* has passed where it is, and that nothing has changed before a handler   *)
(* answers.  Trip follows a listing: from the repository it was made of to *)
(* the set it was posted to, and through the reload that reads it.         *)
(***************************************************************************)

\* What the texts of mocks, and the bodies of requests, are made of.
MaybeAction == Action \cup {Null}
MaybeMock == Mock \cup {Null}

\* The fields of a mock.
LEMMA MockFields ==
    ASSUME NEW m \in Mock
    PROVE  /\ m.kind \in Kinds \cup {"", "Other"} /\ m.values \in Fields
           /\ m.actions \in Seq(MaybeAction) /\ Len(m.actions) \in Nat
           /\ \A j \in 1..Len(m.actions) : m.actions[j] \in MaybeAction
<1>1. /\ m.kind \in Kinds \cup {"", "Other"} /\ m.values \in Fields
      /\ m.actions \in Seq(MaybeAction)
  BY DEF Mock, MaybeAction
<1>2. PICK actions \in Seq(MaybeAction) : actions = m.actions
  BY <1>1
<1>3. /\ Len(actions) \in Nat
      /\ \A j \in 1..Len(actions) : actions[j] \in MaybeAction
  BY ONLY <1>2
<1> QED BY ONLY <1>1, <1>2, <1>3

\* A mock with other actions, values or kind is a mock.
LEMMA MockWith ==
    ASSUME NEW m \in Mock, NEW actions \in Seq(MaybeAction),
           NEW values \in Fields, NEW kind \in Kinds \cup {"", "Other"}
    PROVE  /\ [m EXCEPT !.actions = actions] \in Mock
           /\ [m EXCEPT !.actions = actions].actions = actions
           /\ [m EXCEPT !.values = values] \in Mock
           /\ [m EXCEPT !.kind = kind] \in Mock
BY DEF Mock, MaybeAction

LEMMA ActionModelType ==
    ASSUME NEW a \in MaybeAction
    PROVE  /\ ActionModel(a) \in MaybeAction
           /\ a # Null /\ a.body # "@binary" => ActionModel(a) = a
           /\ a = Null => ActionModel(a) = Null
<1>1. CASE a = Null
  BY <1>1 DEF ActionModel, MaybeAction
<1>2. CASE a # Null
  <2>1. [a EXCEPT !.body = ""] \in Action
    BY <1>2 DEF MaybeAction, Action
  <2> QED BY <1>2, <2>1 DEF ActionModel, MaybeAction
<1> QED BY <1>1, <1>2

LEMMA ActionReadType ==
    ASSUME NEW a \in MaybeAction
    PROVE  /\ ActionRead(a) \in Action
           /\ a # Null /\ a.field # "bad" => ActionRead(a) = a
           /\ a = Null => ActionRead(a) = ZeroAction
<1>1. CASE a = Null
  BY <1>1 DEF ActionRead, ZeroAction, Action, Fields
<1>2. CASE a # Null
  <2>1. a \in Action /\ a.field \in Fields
    BY <1>2 DEF MaybeAction, Action
  <2>2. FieldRead(a.field) \in Fields
    BY <2>1 DEF FieldRead, Fields
  <2>3. [a EXCEPT !.field = FieldRead(a.field)] \in Action
    BY <2>1, <2>2 DEF Action
  <2>4. a.field # "bad" => [a EXCEPT !.field = FieldRead(a.field)] = a
    BY <2>1 DEF FieldRead, Action
  <2> QED BY <1>2, <2>3, <2>4 DEF ActionRead
<1> QED BY <1>1, <1>2

LEMMA FileLoadedType ==
    ASSUME NEW a \in Action, NEW there
    PROVE  /\ FileLoaded(a, there) \in Action
           /\ FileLoaded(a, there).body # "@text"
           /\ FileLoaded(a, there).field = a.field
           /\ a.body # "@text" => FileLoaded(a, there) = a
<1> DEFINE text == IF there THEN "text" ELSE ""
           new == [a EXCEPT !.body = text]
<1>1. text \in {"text", ""}
  OBVIOUS
<1> HIDE DEF text
<1>2. new \in Action /\ new.body = text /\ new.field = a.field
  BY <1>1 DEF Action
<1>3. FileLoaded(a, there) = IF a.body = "@text" THEN new ELSE a
  BY DEF FileLoaded, text
<1> HIDE DEF new
<1> QED BY <1>1, <1>2, <1>3

LEMMA MockModelType ==
    ASSUME Null \notin Mock, NEW m \in MaybeMock
    PROVE  /\ MockModel(m) \in MaybeMock
           /\ MockModel(m) = Null <=> m = Null
           /\ m # Null => /\ MockModel(m).key = m.key
                          /\ MockModel(m) =
                               [m EXCEPT !.actions =
                                  [j \in 1..Len(m.actions) |->
                                    ActionModel(m.actions[j])]]
<1>1. CASE m = Null
  BY <1>1 DEF MockModel
<1>2. CASE m # Null
  <2> DEFINE actions == [j \in 1..Len(m.actions) |-> ActionModel(m.actions[j])]
  <2>1. m \in Mock
    BY <1>2 DEF MaybeMock
  <2>2. MockModel(m) = [m EXCEPT !.actions = actions]
    BY <1>2 DEF MockModel, EachAction
  <2>3. actions \in Seq(MaybeAction)
    <3>1. \A j \in 1..Len(m.actions) : ActionModel(m.actions[j]) \in MaybeAction
      BY <2>1, MockFields, ActionModelType
    <3>2. actions \in [1..Len(m.actions) -> MaybeAction] /\ Len(m.actions) \in Nat
      BY <2>1, <3>1, MockFields
    <3> QED BY <3>2, IsSeq
  <2> HIDE DEF actions
  <2>4. [m EXCEPT !.actions = actions] \in Mock
        /\ [m EXCEPT !.actions = actions].key = m.key
    BY <2>1, <2>3 DEF Mock, MaybeAction
  <2> QED BY <1>2, <2>2, <2>4 DEF MaybeMock, actions
<1> QED BY <1>1, <1>2

LEMMA ConvertedType ==
    ASSUME NEW m \in Mock
    PROVE  /\ Converted(m) \in Mock /\ Converted(m).key = m.key
           /\ Converted(m) =
                [m EXCEPT !.actions =
                            [j \in 1..Len(m.actions) |-> ActionRead(m.actions[j])],
                          !.values = FieldRead(m.values)]
<1> DEFINE actions == [j \in 1..Len(m.actions) |-> ActionRead(m.actions[j])]
           values == FieldRead(m.values)
<1>1. actions \in Seq(MaybeAction)
  <2>1. \A j \in 1..Len(m.actions) : ActionRead(m.actions[j]) \in MaybeAction
    BY MockFields, ActionReadType DEF MaybeAction
  <2>2. actions \in [1..Len(m.actions) -> MaybeAction] /\ Len(m.actions) \in Nat
    BY <2>1, MockFields
  <2> QED BY <2>2, IsSeq
<1>2. values \in Fields
  BY MockFields DEF FieldRead, Fields
<1> HIDE DEF actions, values
<1>3. Converted(m) =
        [[m EXCEPT !.actions = actions] EXCEPT
            !.values = FieldRead([m EXCEPT !.actions = actions].values)]
  BY DEF Converted, EachAction, actions
<1>4. [m EXCEPT !.actions = actions].values = m.values
  BY DEF Mock
<1>5. Converted(m) = [m EXCEPT !.actions = actions, !.values = values]
  BY <1>3, <1>4 DEF values
<1>6. /\ [m EXCEPT !.actions = actions, !.values = values] \in Mock
      /\ [m EXCEPT !.actions = actions, !.values = values].key = m.key
  BY <1>1, <1>2 DEF Mock, MaybeAction
<1> QED BY <1>5, <1>6 DEF actions, values

LEMMA LoadedType ==
    ASSUME NEW m \in Mock, NEW there
    PROVE  /\ Loaded(m, there) \in Mock /\ Loaded(m, there).key = m.key
           /\ Loaded(m, there) =
                [m EXCEPT !.actions =
                            [j \in 1..Len(m.actions) |->
                                FileLoaded(ActionRead(m.actions[j]), there)],
                          !.kind = KindOf(m)]
<1> DEFINE actions == [j \in 1..Len(m.actions) |->
                            FileLoaded(ActionRead(m.actions[j]), there)]
           kind == KindOf(m)
<1>1. actions \in Seq(MaybeAction)
  <2>1. \A j \in 1..Len(m.actions) :
            FileLoaded(ActionRead(m.actions[j]), there) \in MaybeAction
    BY MockFields, ActionReadType, FileLoadedType DEF MaybeAction
  <2>2. actions \in [1..Len(m.actions) -> MaybeAction] /\ Len(m.actions) \in Nat
    BY <2>1, MockFields
  <2> QED BY <2>2, IsSeq
<1>2. kind \in Kinds \cup {"", "Other"}
  BY MockFields DEF KindOf, Kinds
<1> HIDE DEF actions, kind
<1>3. Loaded(m, there) = [m EXCEPT !.actions = actions, !.kind = kind]
  BY DEF Loaded, EachAction, actions, kind
<1>4. /\ [m EXCEPT !.actions = actions, !.kind = kind] \in Mock
      /\ [m EXCEPT !.actions = actions, !.kind = kind].key = m.key
  BY <1>1, <1>2 DEF Mock, MaybeAction
<1> QED BY <1>3, <1>4 DEF actions, kind

-----------------------------------------------------------------------------
(* What a text of mocks makes of a key. *)

IsLast(text, k, j) ==
    /\ j \in 1..Len(text) /\ text[j].key = k
    /\ \A n \in j + 1..Len(text) : text[n].key # k

\* A key that a text defines has a last definition.
LEMMA LastIs ==
    ASSUME NEW X, NEW text \in Seq(X), NEW k, Defines(text, k)
    PROVE  \E j \in 1..Len(text) : IsLast(text, k, j) /\ LastOf(text, k) = text[j]
<1>1. PICK n \in Nat : n = Len(text)
  OBVIOUS
<1> DEFINE S == {d \in 0..n - 1 : text[n - d].key = k}
<1>2. S \in SUBSET Nat /\ S # {}
  <2>1. PICK j \in 1..n : text[j].key = k
    BY <1>1 DEF Defines
  <2>2. n - j \in 0..n - 1 /\ n - (n - j) = j
    BY <1>1
  <2>3. n - j \in S
    BY <2>1, <2>2
  <2> HIDE DEF S
  <2>4. S # {}
    BY <2>3
  <2> QED BY <2>4 DEF S
<1>3. PICK d \in S : \A e \in S : d <= e
  <2> HIDE DEF S
  <2> QED BY <1>2, LeastNat
<1>4. PICK j \in 1..n : j = n - d /\ text[j].key = k
  BY <1>1, <1>3
<1>5. ASSUME NEW x \in j + 1..n PROVE text[x].key # k
  <2>1. n - x \in 0..n - 1 /\ n - (n - x) = x /\ n - x < d
    BY <1>1, <1>3, <1>4
  <2>2. n - x \notin S
    <3>1. d \in Nat
      BY <1>3
    <3> HIDE DEF S
    <3> QED BY <1>3, <2>1, <3>1
  <2> QED BY <2>1, <2>2
<1> HIDE DEF S
<1>6. IsLast(text, k, j)
  BY <1>1, <1>4, <1>5 DEF IsLast
<1>7. \A x \in 1..Len(text) : IsLast(text, k, x) => x = j
  BY <1>1, <1>4, <1>5 DEF IsLast
<1>8. LastOf(text, k) = text[CHOOSE x \in 1..Len(text) : IsLast(text, k, x)]
  BY DEF LastOf, IsLast
<1> QED BY <1>1, <1>6, <1>7, <1>8

\* A mock of a key, or of all keys.
Keyed(m, k) == m \in Mock /\ m.key = k

IsHash(h) == IsFiniteSet(DOMAIN h) /\ \A k \in DOMAIN h : Keyed(h[k], k)

IsRepository(r) ==
    /\ r.templates \in Seq(Mock)
    /\ IsFiniteSet(DOMAIN r.behaviors)
    /\ \A k \in DOMAIN r.behaviors : Keyed(r.behaviors[k], k)

LEMMA PatchedType ==
    ASSUME NEW parent \in Mock, NEW child \in Mock
    PROVE  Keyed(PatchedWith(parent, child), child.key)
<1> DEFINE expects == IF child.on = {} THEN parent ELSE child
           values == IF child.values = "" THEN parent.values ELSE child.values
           template ==
             IF child.template = "" THEN parent.template ELSE child.template
           actions == parent.actions \o child.actions
<1>1. expects \in Mock
  OBVIOUS
<1>2. values \in Fields /\ template \in {"", "parses", "broken"}
  BY ZenonT(30) DEF Mock
<1>3. actions \in Seq(MaybeAction)
  <2>1. PICK p \in Seq(MaybeAction), c \in Seq(MaybeAction) :
          p = parent.actions /\ c = child.actions
    BY MockFields
  <2>2. p \o c \in Seq(MaybeAction)
    OBVIOUS
  <2> QED BY <2>1, <2>2
<1> HIDE DEF expects, values, template, actions
<1>4. PatchedWith(parent, child) =
        [child EXCEPT !.on = expects.on, !.method = expects.method,
                      !.values = values, !.template = template,
                      !.actions = actions]
  BY Zenon DEF PatchedWith, expects, values, template, actions
<1> QED BY ZenonT(30), <1>1, <1>2, <1>3, <1>4 DEF Mock, MaybeAction, Keyed

LEMMA ResolvedType ==
    ASSUME NEW text \in Seq(Mock), NEW k, Defines(text, k)
    PROVE  Keyed(Resolved(text, k), k)
<1>1. \A x : Defines(text, x) => LastOf(text, x) \in Mock /\ LastOf(text, x).key = x
  <2> SUFFICES ASSUME NEW x, Defines(text, x)
               PROVE  LastOf(text, x) \in Mock /\ LastOf(text, x).key = x
    OBVIOUS
  <2>1. PICK j \in 1..Len(text) : IsLast(text, x, j) /\ LastOf(text, x) = text[j]
    BY LastIs
  <2> QED BY <2>1 DEF IsLast
<1> DEFINE m == LastOf(text, k)
<1>2. m \in Mock /\ m.key = k
  BY <1>1
<1>3. CASE m.kind # "AbstractBehavior" /\ m.extend # "" /\ Defines(text, m.extend)
  <2>1. LastOf(text, m.extend) \in Mock
    BY <1>1, <1>3
  <2>2. Resolved(text, k) = PatchedWith(LastOf(text, m.extend), m)
    BY <1>3 DEF Resolved
  <2> HIDE DEF m
  <2> QED BY <1>2, <2>1, <2>2, PatchedType
<1>4. CASE ~ (m.kind # "AbstractBehavior" /\ m.extend # "" /\ Defines(text, m.extend))
  <2>1. Resolved(text, k) = m
    BY <1>4 DEF Resolved
  <2> QED BY <1>2, <2>1 DEF Keyed
<1> QED BY <1>3, <1>4

LEMMA LoadedTextType ==
    ASSUME NEW mocks \in Seq(Mock), NEW there
    PROVE  /\ LoadedText(mocks, there) \in Seq(Mock)
           /\ Len(LoadedText(mocks, there)) = Len(mocks) /\ Len(mocks) \in Nat
           /\ \A j \in 1..Len(mocks) :
                /\ LoadedText(mocks, there)[j] = Loaded(mocks[j], there)
                /\ LoadedText(mocks, there)[j].key = mocks[j].key
<1>1. \A j \in 1..Len(mocks) : mocks[j] \in Mock
  OBVIOUS
<1>2. \A j \in 1..Len(mocks) :
        Loaded(mocks[j], there) \in Mock /\ Loaded(mocks[j], there).key = mocks[j].key
  BY <1>1, LoadedType
<1>3. Len(mocks) \in Nat
  OBVIOUS
<1> DEFINE read == [j \in 1..Len(mocks) |-> Loaded(mocks[j], there)]
<1>4. read \in [1..Len(mocks) -> Mock]
  BY <1>2
<1>5. \A j \in 1..Len(mocks) : read[j] = Loaded(mocks[j], there)
  OBVIOUS
<1> HIDE DEF read
<1>6. PICK text \in Seq(Mock) : text = read /\ Len(text) = Len(mocks)
  BY <1>3, <1>4, IsSeq
<1>7. text \o <<>> = text
  OBVIOUS
<1>8. LoadedText(mocks, there) = text
  BY <1>6, <1>7 DEF LoadedText, read
<1> QED BY <1>2, <1>3, <1>5, <1>6, <1>8

LEMMA KeysAreFinite ==
    ASSUME NEW X, NEW text \in Seq(X)
    PROVE  IsFiniteSet({text[j].key : j \in 1..Len(text)})
<1> DEFINE keys == {text[j].key : j \in 1..Len(text)}
           f == [j \in 1..Len(text) |-> text[j].key]
<1>1. Len(text) \in Nat
  OBVIOUS
<1>2. IsFiniteSet(1..Len(text))
  BY <1>1, FS_Interval
<1>3. f \in [1..Len(text) -> keys]
  OBVIOUS
<1>4. \A y \in keys : \E j \in 1..Len(text) : f[j] = y
  OBVIOUS
<1> HIDE DEF f, keys
<1>5. f \in Surjection(1..Len(text), keys)
  BY <1>3, <1>4 DEF Surjection
<1>6. IsFiniteSet(keys)
  BY <1>2, <1>5, FS_Surjection
<1> QED BY <1>6 DEF keys

LEMMA RepositoryIs ==
    ASSUME NEW mocks \in Seq(Mock), NEW there
    PROVE  LET text == LoadedText(mocks, there)
               r == Repository(mocks, there)
           IN  /\ IsRepository(r)
               /\ DOMAIN r.behaviors = {text[j].key : j \in 1..Len(text)}
               /\ \A k \in DOMAIN r.behaviors :
                    Defines(text, k) /\ r.behaviors[k] = Resolved(text, k)
<1> DEFINE text == LoadedText(mocks, there)
           r == Repository(mocks, there)
           keys == {text[j].key : j \in 1..Len(text)}
           T == {m \in Mock : m.kind = "Template"}
<1>1. text \in Seq(Mock) /\ Len(text) \in Nat
  BY LoadedTextType
<1>2. /\ r.templates = Sublist(text, T)
      /\ r.behaviors = [k \in keys |-> Resolved(text, k)]
  BY DEF Repository
<1> HIDE DEF r, T
<1>3. Sublist(text, T) \in Seq(Mock)
  <2>1. Sublists(text, T)[Len(text)] \in Seq(Mock)
    BY <1>1, SublistsAreSequences
  <2> QED BY <2>1 DEF Sublist
<1> HIDE DEF text
<1>4. IsFiniteSet(keys)
  BY <1>1, KeysAreFinite
<1>5. \A k \in keys : Defines(text, k)
  BY DEF Defines
<1>6. \A k \in keys : Keyed(Resolved(text, k), k)
  BY <1>1, <1>5, ResolvedType
<1>7. DOMAIN r.behaviors = keys /\ \A k \in keys : r.behaviors[k] = Resolved(text, k)
  BY <1>2
<1>8. IsRepository(r)
  BY <1>2, <1>3, <1>4, <1>6, <1>7 DEF IsRepository
<1> QED BY <1>5, <1>7, <1>8 DEF text, r

\* A finite set, written down.
LEMMA SetToSeqIs ==
    ASSUME NEW S, IsFiniteSet(S)
    PROVE  /\ SetToSeq(S) \in Seq(S)
           /\ \A x \in S : \E j \in 1..Len(SetToSeq(S)) : SetToSeq(S)[j] = x
<1> DEFINE n == Cardinality(S)
           f == SetToSeq(S)
<1>1. n \in Nat /\ ExistsBijection(1..n, S)
  BY FS_CardinalityType
<1>2. \E g \in [1..n -> S] : IsInjective(g)
  BY <1>1 DEF ExistsBijection, Bijection, Injection
<1>3. f \in [1..n -> S] /\ IsInjective(f)
  BY <1>2 DEF SetToSeq
<1> HIDE DEF f
<1>4. f \in Injection(1..n, S)
  BY <1>3 DEF Injection
<1>5. IsFiniteSet(1..n) /\ Cardinality(1..n) = n
  BY <1>1, FS_Interval
<1>6. f \in Surjection(1..n, S)
  BY <1>4, <1>5, FS_Injection
<1>7. \A x \in S : \E j \in 1..n : f[j] = x
  BY <1>6 DEF Surjection
<1>8. f \in Seq(S) /\ Len(f) = n
  BY <1>1, <1>3, IsSeq
<1> QED BY <1>7, <1>8 DEF f

\* The list of a repository: templates, and then behaviors.
LEMMA AsArrayIs ==
    ASSUME NEW r, IsRepository(r)
    PROVE  LET list == AsArray(r)
               T == Len(r.templates)
           IN  /\ list \in Seq(Mock) /\ T \in Nat /\ T <= Len(list)
               /\ \A j \in T + 1..Len(list) : \E k \in Answering(r) :
                    list[j] = r.behaviors[k]
               /\ \A k \in Answering(r) : \E j \in T + 1..Len(list) :
                    list[j] = r.behaviors[k]
<1> DEFINE S == Answering(r)
           keys == SetToSeq(S)
           tail == [j \in 1..Len(keys) |-> r.behaviors[keys[j]]]
<1>1. IsFiniteSet(S) /\ S \subseteq DOMAIN r.behaviors
  BY FS_Subset DEF IsRepository, Answering
<1>2. /\ keys \in Seq(S) /\ Len(keys) \in Nat
      /\ \A j \in 1..Len(keys) : keys[j] \in S
      /\ \A x \in S : \E j \in 1..Len(keys) : keys[j] = x
  <2> HIDE DEF S
  <2>1. /\ keys \in Seq(S)
        /\ \A x \in S : \E j \in 1..Len(keys) : keys[j] = x
    BY <1>1, SetToSeqIs
  <2> HIDE DEF keys
  <2> QED BY <2>1
<1>3. PICK front \in Seq(Mock) : front = r.templates
  BY DEF IsRepository
<1> HIDE DEF S, keys
<1>4. tail \in Seq(Mock) /\ Len(tail) = Len(keys)
  <2>1. \A j \in 1..Len(keys) : r.behaviors[keys[j]] \in Mock
    BY <1>1, <1>2 DEF IsRepository, Keyed
  <2>2. tail \in [1..Len(keys) -> Mock]
    BY <2>1
  <2>3. PICK n \in Nat : n = Len(keys)
    BY <1>2
  <2> HIDE DEF tail
  <2> QED BY ONLY <2>2, <2>3, IsSeq
<1>5. \A j \in 1..Len(keys) : tail[j] = r.behaviors[keys[j]]
  OBVIOUS
<1>6. AsArray(r) = front \o tail
  BY <1>3 DEF AsArray, S, keys
<1> HIDE DEF tail
<1>7. PICK T \in Nat, n \in Nat : T = Len(front) /\ n = Len(keys)
  BY <1>2
<1>8. /\ front \o tail \in Seq(Mock) /\ Len(front \o tail) = T + n
      /\ \A j \in 1..n : (front \o tail)[T + j] = tail[j]
  <2>1. PICK u \in Seq(Mock) : u = tail /\ Len(u) = n
    BY <1>4, <1>7
  <2>2. /\ front \o u \in Seq(Mock) /\ Len(front \o u) = Len(front) + Len(u)
        /\ \A j \in 1..Len(u) : (front \o u)[Len(front) + j] = u[j]
    <3>1. front \o u \in Seq(Mock) /\ Len(front \o u) = Len(front) + Len(u)
      OBVIOUS
    <3>2. ASSUME NEW j \in 1..Len(u) PROVE (front \o u)[Len(front) + j] = u[j]
      OBVIOUS
    <3> QED BY ONLY <3>1, <3>2
  <2> QED BY ONLY <1>7, <2>1, <2>2
<1>9. ASSUME NEW j \in T + 1..T + n
      PROVE  \E k \in S : (front \o tail)[j] = r.behaviors[k]
  <2>1. j - T \in 1..n /\ j = T + (j - T)
    OBVIOUS
  <2>2. (front \o tail)[j] = tail[j - T]
    BY <1>8, <2>1
  <2> QED BY <1>2, <1>5, <1>7, <2>1, <2>2
<1>10. ASSUME NEW k \in S
       PROVE  \E j \in T + 1..T + n : (front \o tail)[j] = r.behaviors[k]
  <2>1. PICK j \in 1..n : keys[j] = k
    BY <1>2, <1>7
  <2>2. (front \o tail)[T + j] = r.behaviors[k] /\ T + j \in T + 1..T + n
    BY <1>5, <1>7, <1>8, <2>1
  <2> QED BY <2>2
<1>11. T <= T + n
  OBVIOUS
<1>12. PICK list : list = AsArray(r)
  OBVIOUS
<1>13. /\ list \in Seq(Mock) /\ Len(list) = T + n /\ T = Len(r.templates)
       /\ \A j \in T + 1..T + n : \E k \in S : list[j] = r.behaviors[k]
       /\ \A k \in S : \E j \in T + 1..T + n : list[j] = r.behaviors[k]
  <2>1. list = front \o tail /\ T = Len(r.templates)
    BY ONLY <1>3, <1>6, <1>7, <1>12
  <2> QED BY ONLY <1>8, <1>9, <1>10, <2>1
<1> QED BY ONLY <1>11, <1>12, <1>13 DEF S

LEMMA ListingType ==
    ASSUME NEW list \in Seq(Mock)
    PROVE  Listing(list) \in Seq(MaybeMock)
<1>1. \A j \in 1..Len(list) : list[j] \in MaybeMock
  BY DEF MaybeMock
<1>2. \A j \in 1..Len(list) : MockModel(list[j]) \in MaybeMock
  BY <1>1, MockModelType, ApiAssumption
<1>3. Listing(list) \in [1..Len(list) -> MaybeMock] /\ Len(list) \in Nat
  BY <1>2 DEF Listing
<1> QED BY <1>3, IsSeq

\* What the handlers convert.
LEMMA ConvertsType ==
    ASSUME NEW batch \in Seq(MaybeMock), ~ HasNull(batch)
    PROVE  /\ Converts(batch) \in Seq(Mock) /\ Len(Converts(batch)) = Len(batch)
           /\ \A j \in 1..Len(batch) : Converts(batch)[j] = Converted(batch[j])
<1>1. \A j \in 1..Len(batch) : batch[j] \in Mock
  BY DEF HasNull, MaybeMock
<1>2. \A j \in 1..Len(batch) : Converted(batch[j]) \in Mock
  BY <1>1, ConvertedType
<1>3. Converts(batch) \in [1..Len(batch) -> Mock] /\ Len(batch) \in Nat
  BY <1>2 DEF Converts
<1>4. Converts(batch) \in Seq(Mock) /\ Len(Converts(batch)) = Len(batch)
  BY <1>3, IsSeq
<1> QED BY <1>4 DEF Converts

LEMMA AddTemplatesType ==
    ASSUME NEW hash, IsHash(hash), NEW mocks \in Seq(Mock)
    PROVE  IsHash(AddTemplates(hash, mocks))
<1> DEFINE keys == {mocks[j].key : j \in 1..Len(mocks)}
           new == AddTemplates(hash, mocks)
<1>1. IsFiniteSet(keys)
  BY KeysAreFinite
<1>2. new = [k \in DOMAIN hash \cup keys |->
                IF Defines(mocks, k) THEN LastOf(mocks, k) ELSE hash[k]]
  BY DEF AddTemplates
<1> HIDE DEF new
<1>3. IsFiniteSet(DOMAIN new)
  <2>1. DOMAIN new = DOMAIN hash \cup keys
    BY <1>2
  <2> HIDE DEF keys
  <2> QED BY <1>1, <2>1, FS_Union DEF IsHash
<1>4. ASSUME NEW k \in DOMAIN new PROVE Keyed(new[k], k)
  <2>1. new[k] = IF Defines(mocks, k) THEN LastOf(mocks, k) ELSE hash[k]
    BY <1>2
  <2>2. CASE Defines(mocks, k)
    <3>1. PICK j \in 1..Len(mocks) :
            IsLast(mocks, k, j) /\ LastOf(mocks, k) = mocks[j]
      BY <2>2, LastIs
    <3>2. mocks[j] \in Mock
      OBVIOUS
    <3> QED BY <2>1, <2>2, <3>1, <3>2 DEF Keyed, IsLast
  <2>3. CASE ~ Defines(mocks, k)
    <3>1. k \in DOMAIN hash
      BY <1>2, <2>3 DEF Defines
    <3> QED BY <2>1, <2>3, <3>1 DEF IsHash
  <2> QED BY <2>2, <2>3
<1> QED BY <1>3, <1>4 DEF IsHash, new

LEMMA WithoutType ==
    ASSUME NEW hash, IsHash(hash), NEW keys
    PROVE  IsHash(Without(hash, keys))
<1>1. /\ DOMAIN Without(hash, keys) \subseteq DOMAIN hash
      /\ \A k \in DOMAIN Without(hash, keys) : Without(hash, keys)[k] = hash[k]
  BY DEF Without
<1> QED BY <1>1, FS_Subset DEF IsHash

\* What a load reads.
LEMMA ContentsIs ==
    ASSUME NEW hash, IsHash(hash)
    PROVE  /\ Contents(hash) \in Seq(Mock)
           /\ \A j \in 1..Len(Contents(hash)) : \E k \in DOMAIN hash :
                Contents(hash)[j] = hash[k]
           /\ \A k \in DOMAIN hash : \E j \in 1..Len(Contents(hash)) :
                Contents(hash)[j] = hash[k]
<1> DEFINE S == DOMAIN hash
<1>1. PICK keys \in Seq(S) :
        /\ keys = SetToSeq(S)
        /\ \A x \in S : \E j \in 1..Len(keys) : keys[j] = x
  BY SetToSeqIs DEF IsHash
<1>2. Len(keys) \in Nat /\ \A j \in 1..Len(keys) : keys[j] \in S
  OBVIOUS
<1>3. Contents(hash) = [j \in 1..Len(keys) |-> hash[keys[j]]]
  BY <1>1 DEF Contents
<1>4. Contents(hash) \in [1..Len(keys) -> Mock]
  BY <1>2, <1>3 DEF IsHash, Keyed
<1>5. Contents(hash) \in Seq(Mock) /\ Len(Contents(hash)) = Len(keys)
  BY <1>2, <1>4, IsSeq
<1>6. \A j \in 1..Len(keys) : Contents(hash)[j] = hash[keys[j]]
  BY <1>3
<1>7. ASSUME NEW k \in S
      PROVE  \E j \in 1..Len(keys) : Contents(hash)[j] = hash[k]
  <2>1. PICK j \in 1..Len(keys) : keys[j] = k
    BY <1>1
  <2> QED BY <1>6, <2>1
<1> QED BY ONLY <1>2, <1>5, <1>6, <1>7

\* The directory's mocks, and those of the sets behind them.
LEMMA TextIs ==
    ASSUME DOMAIN store = Sets, \A s \in Sets : IsHash(store[s]),
           NEW order \in SetToSeqs(Sets)
    PROVE  LET text == Text(order)
               D == Len(Disk)
           IN  /\ text \in Seq(Mock) /\ D \in Nat /\ D <= Len(text)
               /\ \A j \in 1..D : text[j] = Disk[j]
               /\ \A j \in D + 1..Len(text) : \E s \in Sets :
                    \E k \in DOMAIN store[s] : text[j] = store[s][k]
               /\ \A s \in Sets : \A k \in DOMAIN store[s] :
                    \E j \in D + 1..Len(text) : text[j] = store[s][k]
<1> DEFINE n == Cardinality(Sets)
           parts == [j \in 1..Len(order) |-> Contents(store[order[j]])]
           rest == Chain(parts)
<1>1. n \in Nat /\ IsFiniteSet(Sets)
  BY ApiAssumption, FS_CardinalityType
<1>2. /\ order \in [1..n -> Sets]
      /\ \A a, b \in 1..n : a # b => order[a] # order[b]
  BY DEF SetToSeqs
<1>3. order \in Seq(Sets) /\ Len(order) = n
  BY <1>1, <1>2, IsSeq
<1>4. \A s \in Sets : \E j \in 1..n : order[j] = s
  <2>1. order \in Injection(1..n, Sets)
    BY <1>2 DEF Injection, IsInjective
  <2>2. IsFiniteSet(1..n) /\ Cardinality(1..n) = n
    BY <1>1, FS_Interval
  <2>3. order \in Surjection(1..n, Sets)
    BY <1>1, <2>1, <2>2, FS_Injection
  <2> QED BY <2>3 DEF Surjection
<1>5. /\ parts \in Seq(Seq(Mock)) /\ Len(parts) = n
      /\ \A p \in 1..n : parts[p] = Contents(store[order[p]])
  <2>1. \A p \in 1..n : order[p] \in Sets
    BY <1>2
  <2>2. \A p \in 1..n : Contents(store[order[p]]) \in Seq(Mock)
    BY <2>1, ContentsIs
  <2>3. parts \in [1..n -> Seq(Mock)]
    BY <1>3, <2>2
  <2>4. parts \in Seq(Seq(Mock)) /\ Len(parts) = n
    BY <1>1, <2>3, IsSeq
  <2> QED BY <1>3, <2>4
<1>6. Text(order) = Disk \o rest
  BY DEF Text
<1> HIDE DEF parts, n
<1>7. /\ rest \in Seq(Mock)
      /\ \A q \in 1..Len(rest) : \E p \in 1..n :
           \E r \in 1..Len(parts[p]) : rest[q] = parts[p][r]
      /\ \A p \in 1..n : \A r \in 1..Len(parts[p]) :
           \E q \in 1..Len(rest) : rest[q] = parts[p][r]
  <2>1. parts \in Seq(Seq(Mock))
    BY <1>5
  <2>2. /\ Chain(parts) \in Seq(Mock)
        /\ \A q \in 1..Len(Chain(parts)) : \E p \in 1..Len(parts) :
             \E r \in 1..Len(parts[p]) : Chain(parts)[q] = parts[p][r]
        /\ \A p \in 1..Len(parts) : \A r \in 1..Len(parts[p]) :
             \E q \in 1..Len(Chain(parts)) : Chain(parts)[q] = parts[p][r]
    BY ONLY <2>1, ChainHasParts
  <2> QED BY <1>5, <2>2
<1> HIDE DEF rest
<1>8. ASSUME NEW q \in 1..Len(rest)
      PROVE  \E s \in Sets : \E k \in DOMAIN store[s] : rest[q] = store[s][k]
  <2>1. PICK p \in 1..n : \E r \in 1..Len(parts[p]) : rest[q] = parts[p][r]
    BY <1>7
  <2>2. PICK s \in Sets : s = order[p] /\ parts[p] = Contents(store[s])
    BY <1>2, <1>5
  <2>3. PICK k \in DOMAIN store[s] : rest[q] = store[s][k]
    BY <2>1, <2>2, ContentsIs
  <2> QED BY <2>3
<1>9. ASSUME NEW s \in Sets, NEW k \in DOMAIN store[s]
      PROVE  \E q \in 1..Len(rest) : rest[q] = store[s][k]
  <2>1. PICK p \in 1..n : order[p] = s
    BY <1>4
  <2>2. parts[p] = Contents(store[s])
    BY <1>5, <2>1
  <2>3. PICK r \in 1..Len(parts[p]) : parts[p][r] = store[s][k]
    <3>1. PICK hash : hash = store[s] /\ IsHash(hash)
      OBVIOUS
    <3>2. \E r \in 1..Len(Contents(hash)) : Contents(hash)[r] = hash[k]
      BY <3>1, ContentsIs
    <3> QED BY <2>2, <3>1, <3>2
  <2>4. \A r1 \in 1..Len(parts[p]) :
            \E q \in 1..Len(rest) : rest[q] = parts[p][r1]
    BY ONLY <1>7
  <2>5. \E q \in 1..Len(rest) : rest[q] = parts[p][r]
    BY ONLY <2>4
  <2> QED BY <2>3, <2>5
<1>10. PICK D \in Nat, R \in Nat : D = Len(Disk) /\ R = Len(rest)
  BY <1>7, ApiAssumption
<1>11. PICK disk \in Seq(Mock), tail \in Seq(Mock) : disk = Disk /\ tail = rest
  BY <1>7, ApiAssumption
<1>12. /\ disk \o tail \in Seq(Mock) /\ Len(disk \o tail) = D + R
       /\ \A j \in 1..D : (disk \o tail)[j] = disk[j]
       /\ \A q \in 1..R : (disk \o tail)[D + q] = tail[q]
  <2>1. disk \o tail \in Seq(Mock) /\ Len(disk \o tail) = Len(disk) + Len(tail)
    OBVIOUS
  <2>2. ASSUME NEW j \in 1..Len(disk) PROVE (disk \o tail)[j] = disk[j]
    OBVIOUS
  <2>3. ASSUME NEW q \in 1..Len(tail) PROVE (disk \o tail)[Len(disk) + q] = tail[q]
    OBVIOUS
  <2> QED BY ONLY <1>10, <1>11, <2>1, <2>2, <2>3
<1>13. PICK text : text = Text(order)
  OBVIOUS
<1>14. /\ text \in Seq(Mock) /\ Len(text) = D + R
       /\ \A j \in 1..D : text[j] = Disk[j]
       /\ \A q \in 1..R : text[D + q] = rest[q]
  BY ONLY <1>6, <1>11, <1>12, <1>13
<1>15. ASSUME NEW j \in D + 1..D + R
       PROVE  \E s \in Sets : \E k \in DOMAIN store[s] : text[j] = store[s][k]
  <2>1. j - D \in 1..R /\ j = D + (j - D)
    OBVIOUS
  <2>2. text[j] = rest[j - D]
    BY <1>14, <2>1
  <2> QED BY <1>8, <1>10, <2>1, <2>2
<1>16. ASSUME NEW s \in Sets, NEW k \in DOMAIN store[s]
       PROVE  \E j \in D + 1..D + R : text[j] = store[s][k]
  <2>1. PICK q \in 1..R : rest[q] = store[s][k]
    BY <1>9, <1>10
  <2>2. D + q \in D + 1..D + R
    OBVIOUS
  <2> QED BY <1>14, <2>1, <2>2
<1>17. D <= D + R
  OBVIOUS
<1> QED BY ONLY <1>10, <1>13, <1>14, <1>15, <1>16, <1>17

-----------------------------------------------------------------------------
(* The inductive invariant. *)

\* A request that is not yet answered.
Underway == step \in {"route", "check", "bind", "handle"}

Types ==
    /\ DOMAIN store = Sets /\ \A s \in Sets : IsHash(store[s])
    /\ IsRepository(repo)
    /\ {up, armed} \subseteq BOOLEAN /\ restored \in Sets \cup {Absent}
    /\ step \in {"idle", "route", "check", "bind", "handle", "answered"}
    /\ listed \in Seq(MaybeMock)
    /\ arrivals \in 0..MaxArrivals /\ failures \in 0..MaxFailures

\* The statuses that a request may be answered with.
Statuses(r) == Refusals \cup IF r.op \in Operations THEN Responses(r.op) ELSE {}

\* What a request has passed, where it is.
Passed ==
    /\ Underway => request \in ApiRequest /\ request.body # Listed
    /\ step \in {"check", "bind", "handle"} => request.op \in Operations
    /\ step = "handle" /\ request.op \in Posts =>
        request.body \in Seq(MaybeMock) /\ BatchValidates(request.body)
    /\ step = "answered" => request \in ApiRequest /\ status \in Statuses(request)

\* Nothing has changed since it came.
Untouched ==
    /\ Underway => before = <<store, armed>>
    /\ RefusedChangesNothing

ApiInv == Types /\ Passed /\ Untouched

LEMMA EmptyHash == IsHash(<<>>)
<1>1. DOMAIN <<>> = {}
  OBVIOUS
<1> QED BY <1>1, FS_EmptySet DEF IsHash

LEMMA InitApiInv == ApiInit => ApiInv
<1> SUFFICES ASSUME ApiInit PROVE ApiInv
  OBVIOUS
<1>1. IsRepository(repo)
  BY RepositoryIs, ApiAssumption DEF ApiInit
<1>2. DOMAIN store = Sets /\ \A s \in Sets : IsHash(store[s])
  <2>1. PICK hash : hash = <<>> /\ IsHash(hash)
    BY EmptyHash
  <2>2. store = [s \in Sets |-> hash]
    BY <2>1 DEF ApiInit
  <2> QED BY ONLY <2>1, <2>2
<1>3. /\ up = TRUE /\ armed = FALSE /\ restored = Absent /\ step = "idle"
      /\ listed = <<>> /\ arrivals = 0 /\ failures = 0
  BY DEF ApiInit
<1>4. /\ 0 \in 0..MaxArrivals /\ 0 \in 0..MaxFailures
      /\ <<>> \in Seq(MaybeMock) /\ {TRUE, FALSE} \subseteq BOOLEAN
  BY ApiAssumption
<1>5. Types
  BY <1>1, <1>2, <1>3, <1>4 DEF Types
<1> QED BY <1>5 DEF ApiInit, ApiInv, Passed, Untouched, RefusedChangesNothing, Underway

\* A request comes.
LEMMA ArriveApiInv ==
    ASSUME ApiInv, NEW r \in ApiRequest, r.body # Listed, Arrive(r),
           listed' \in Seq(MaybeMock)
    PROVE  ApiInv'
<1>1. /\ step' = "route" /\ request' = r /\ before' = <<store, armed>>
      /\ arrivals < MaxArrivals /\ arrivals' = arrivals + 1
      /\ restored' \in {Absent, restored}
      /\ UNCHANGED <<store, repo, up, armed, status, payload, failures>>
  BY DEF Arrive, service
<1>2. Types'
  <2>1. arrivals' \in 0..MaxArrivals
    BY <1>1, ApiAssumption DEF ApiInv, Types
  <2> QED BY <1>1, <2>1 DEF ApiInv, Types
<1>3. Passed' /\ Untouched'
  BY <1>1 DEF Passed, Untouched, RefusedChangesNothing, Underway
<1> QED BY <1>2, <1>3 DEF ApiInv

LEMMA ReceiveApiInv ==
    ASSUME ApiInv, Receive
    PROVE  ApiInv'
<1>1. PICK r \in Requests :
        /\ Arrive(IF r.body = Listed THEN [r EXCEPT !.body = listed] ELSE r)
        /\ UNCHANGED <<listed, backup>>
  BY DEF Receive
<1>2. r \in ApiRequest /\ listed \in Seq(MaybeMock) /\ Listed \notin Seq(MaybeMock)
  BY ApiAssumption DEF ApiInv, Types, MaybeMock
<1>3. CASE r.body = Listed
  <2> DEFINE new == [r EXCEPT !.body = listed]
  <2>1. new \in ApiRequest /\ new.body # Listed
    BY <1>2 DEF ApiRequest, MaybeMock
  <2> HIDE DEF new
  <2>2. Arrive(new)
    BY <1>1, <1>3 DEF new
  <2> QED BY <1>1, <1>2, <2>1, <2>2, ArriveApiInv
<1>4. CASE r.body # Listed
  BY <1>1, <1>2, <1>4, ArriveApiInv
<1> QED BY <1>3, <1>4

LEMMA SetRequestType ==
    ASSUME NEW op \in Routes, NEW s \in Sets,
           NEW batch \in {Absent} \cup Seq(MaybeMock)
    PROVE  /\ SetRequest(op, s, batch) \in ApiRequest
           /\ SetRequest(op, s, batch).op = op
           /\ SetRequest(op, s, batch).body = batch
BY DEF SetRequest, ApiRequest, MaybeMock

LEMMA OmctlApiInv ==
    ASSUME ApiInv, Omctl
    PROVE  ApiInv'
<1>1. CASE Push
  <2>1. PICK text \in Locals, s \in Sets :
          /\ backup' = Repository(text, TRUE)
          /\ listed' = Listing(AsArray(backup'))
          /\ Arrive(SetRequest(IF s = Base THEN "postTemplates"
                               ELSE "postTemplateSet", s, listed'))
    BY <1>1 DEF Push
  <2>2. IsRepository(backup')
    <3>1. text \in Seq(Mock)
      BY ApiAssumption
    <3> QED BY <2>1, <3>1, RepositoryIs
  <2>3. listed' \in Seq(MaybeMock)
    BY <2>1, <2>2, AsArrayIs, ListingType
  <2> DEFINE op == IF s = Base THEN "postTemplates" ELSE "postTemplateSet"
             r == SetRequest(op, s, listed')
  <2>4. op \in Routes
    BY DEF Routes, Operations, Posts
  <2> HIDE DEF op
  <2>5. r \in ApiRequest /\ r.body = listed'
    BY <2>3, <2>4, SetRequestType
  <2>6. r.body # Listed
    BY <2>3, <2>5, ApiAssumption DEF MaybeMock
  <2>7. Arrive(r)
    BY <2>1 DEF op
  <2> HIDE DEF r
  <2> QED BY <2>3, <2>5, <2>6, <2>7, ArriveApiInv
<1>2. CASE DeleteSet
  <2>1. PICK s \in Sets : /\ Arrive(SetRequest("deleteTemplateSet", s, Absent))
                          /\ UNCHANGED <<listed, backup>>
    BY <1>2 DEF DeleteSet
  <2> DEFINE r == SetRequest("deleteTemplateSet", s, Absent)
  <2>2. "deleteTemplateSet" \in Routes
    BY DEF Routes, Operations, WithoutBody
  <2>3. r \in ApiRequest /\ r.body = Absent
    BY <2>2, SetRequestType
  <2> HIDE DEF r
  <2>4. listed' \in Seq(MaybeMock)
    BY <2>1 DEF ApiInv, Types
  <2> QED BY <2>1, <2>3, <2>4, ArriveApiInv, ApiAssumption DEF r
<1> QED BY <1>1, <1>2 DEF Omctl

\* A request is refused, or a handler answers without a change.
LEMMA RefuseApiInv ==
    ASSUME ApiInv, Underway, NEW code, code \in Statuses(request), Refuse(code)
    PROVE  ApiInv'
<1>1. /\ step' = "answered" /\ status' = code
      /\ UNCHANGED <<store, repo, up, armed, request, before, listed, backup,
                     restored, arrivals, failures>>
  BY DEF Refuse, AnswerWith, service, history
<1>2. Types'
  BY <1>1 DEF ApiInv, Types
<1>3. Passed'
  BY <1>1 DEF ApiInv, Passed, Underway, Statuses
<1>4. Untouched'
  BY <1>1 DEF ApiInv, Untouched, Underway, RefusedChangesNothing
<1> QED BY <1>2, <1>3, <1>4 DEF ApiInv

LEMMA RouteApiInv ==
    ASSUME ApiInv, Route
    PROVE  ApiInv'
<1>1. step = "route" /\ Underway
  BY DEF Route, Underway
<1>2. CASE \E code \in {404, 405} : Refuse(code)
  BY <1>1, <1>2, RefuseApiInv DEF Statuses, Refusals
<1>3. CASE /\ request.op \in Operations /\ step' = "check"
           /\ UNCHANGED <<service, request, status, payload, before, history,
                          arrivals, failures>>
  <2> USE <1>3 DEF service, history
  <2>1. Types'
    BY DEF ApiInv, Types
  <2>2. Passed' /\ Untouched'
    BY <1>1 DEF ApiInv, Passed, Untouched, Underway, RefusedChangesNothing
  <2> QED BY <2>1, <2>2 DEF ApiInv
<1> QED BY <1>2, <1>3 DEF Route

LEMMA CheckMediaApiInv ==
    ASSUME ApiInv, CheckMedia
    PROVE  ApiInv'
<1>1. step = "check" /\ Underway /\ request.op \in Operations
  BY DEF CheckMedia, Underway, ApiInv, Passed
<1>2. CASE \E code \in {400, 415} : Refuse(code)
  BY <1>1, <1>2, RefuseApiInv DEF Statuses, Refusals
<1>3. CASE /\ step' = IF request.op \in WithoutBody THEN "handle" ELSE "bind"
           /\ UNCHANGED <<service, request, status, payload, before, history,
                          arrivals, failures>>
  <2> USE <1>3 DEF service, history
  <2>1. Types'
    BY DEF ApiInv, Types
  <2>2. Untouched'
    BY <1>1 DEF ApiInv, Untouched, Underway, RefusedChangesNothing
  <2>3. WithoutBody \cap Posts = {}
    BY DEF WithoutBody, Posts
  <2>4. Passed'
    BY <1>1, <2>3 DEF ApiInv, Passed, Underway
  <2> QED BY <2>1, <2>2, <2>4 DEF ApiInv
<1> QED BY <1>2, <1>3 DEF CheckMedia

\* What the consumers make of a body.
LEMMA BatchType ==
    ASSUME request.body \in Seq(MaybeMock)
    PROVE  /\ Batch \in Seq(MaybeMock) /\ Len(Batch) = Len(request.body)
           /\ \A j \in 1..Len(request.body) : Batch[j] = MockModel(request.body[j])
<1>1. \A j \in 1..Len(request.body) : MockModel(request.body[j]) \in MaybeMock
  BY MockModelType, ApiAssumption
<1>2. Batch \in [1..Len(request.body) -> MaybeMock] /\ Len(request.body) \in Nat
  BY <1>1 DEF Batch
<1>3. Batch \in Seq(MaybeMock) /\ Len(Batch) = Len(request.body)
  BY <1>2, IsSeq
<1> QED BY <1>3 DEF Batch

LEMMA BindApiInv ==
    ASSUME ApiInv, NEW op, NEW valid, Bind(op, valid),
           op \in Posts /\ valid => BatchValidates(Batch)
    PROVE  ApiInv'
<1>1. step = "bind" /\ Underway /\ request.op = op /\ request \in ApiRequest
      /\ request.body # Listed
  BY DEF Bind, Underway, ApiInv, Passed
<1>2. CASE \E code \in {400, 422} : Refuse(code)
  BY <1>1, <1>2, RefuseApiInv DEF Statuses, Refusals
<1>3. CASE /\ HasBody /\ request.body # Garbage /\ valid
           /\ request' = [request EXCEPT !.body = Batch] /\ step' = "handle"
           /\ UNCHANGED <<service, status, payload, before, history, arrivals,
                          failures>>
  <2> USE <1>3 DEF service, history
  <2>1. Types'
    BY DEF ApiInv, Types
  <2>2. Untouched'
    BY <1>1 DEF ApiInv, Untouched, Underway, RefusedChangesNothing
  <2>3. request.body \in Seq(MaybeMock)
    BY <1>1 DEF ApiRequest, HasBody, MaybeMock
  <2>4. Batch \in Seq(MaybeMock) /\ Batch # Listed
    BY <2>3, BatchType, ApiAssumption DEF MaybeMock
  <2>5. /\ request' \in ApiRequest /\ request'.op = op /\ request'.body = Batch
    <3>1. PICK batch \in Seq(MaybeMock) : batch = Batch
      BY <2>4
    <3>2. /\ [request EXCEPT !.body = batch] \in ApiRequest
          /\ [request EXCEPT !.body = batch].op = request.op
          /\ [request EXCEPT !.body = batch].body = batch
      BY <1>1 DEF ApiRequest, MaybeMock
    <3> QED BY <1>1, <3>1, <3>2
  <2>6. op \in Operations
    BY <1>1 DEF ApiInv, Passed
  <2>7. op \in Posts => BatchValidates(request'.body)
    BY <2>5
  <2>8. Passed'
    BY <2>4, <2>5, <2>6, <2>7 DEF Passed, Underway
  <2> QED BY <2>1, <2>2, <2>8 DEF ApiInv
<1> QED BY <1>2, <1>3 DEF Bind

LEMMA BindsApiInv ==
    ASSUME ApiInv, BindTemplates \/ BindTemplateSet \/ BindEvaluation
    PROVE  ApiInv'
<1>1. CASE BindTemplates \/ BindTemplateSet
  BY <1>1, BindApiInv DEF BindTemplates, BindTemplateSet
<1>2. CASE BindEvaluation
  BY <1>2, BindApiInv DEF BindEvaluation, Posts
<1> QED BY <1>1, <1>2

\* The statuses of the handlers.
LEMMA HandlerStatuses ==
    ASSUME NEW r \in ApiRequest
    PROVE  /\ r.op \in Posts => {200, 400} \subseteq Statuses(r)
           /\ r.op \in {"getHealth", "getTemplates", "evaluate"} =>
                {200, 500} \subseteq Statuses(r)
           /\ r.op \in {"deleteTemplates", "deleteTemplate", "deleteTemplateSet"} =>
                {204, 500} \subseteq Statuses(r)
           /\ 0 \in Statuses(r)
<1>1. /\ Responses("getHealth") = {200, 500}
      /\ Responses("getTemplates") = {200, 500}
      /\ Responses("evaluate") = {200, 500}
  BY DEF Responses, GetHealthResponses, GetTemplatesResponses, EvaluateResponses
<1>2. /\ Responses("postTemplates") = {200, 400, 500}
      /\ Responses("postTemplateSet") = {200, 400, 500}
  BY DEF Responses, PostTemplatesResponses, PostTemplateSetResponses
<1>3. /\ Responses("deleteTemplates") = {204, 500}
      /\ Responses("deleteTemplateSet") = {204, 500}
      /\ Responses("deleteTemplate") = {204, 400, 404, 500}
  BY DEF Responses, DeleteTemplatesResponses, DeleteTemplateSetResponses,
         DeleteTemplateResponses
<1>4. \A op \in {"getHealth", "getTemplates", "evaluate", "postTemplates",
                 "postTemplateSet", "deleteTemplates", "deleteTemplateSet",
                 "deleteTemplate"} : op \in Operations
  BY DEF Operations, Posts, WithoutBody
<1>5. r.op \in Operations => Responses(r.op) \subseteq Statuses(r)
  BY DEF Statuses
<1>6. r.op \in Posts => {200, 400} \subseteq Statuses(r)
  BY <1>2, <1>4, <1>5 DEF Posts
<1>7. r.op \in {"getHealth", "getTemplates", "evaluate"} =>
        {200, 500} \subseteq Statuses(r)
  BY <1>1, <1>4, <1>5
<1>8. r.op \in {"deleteTemplates", "deleteTemplate", "deleteTemplateSet"} =>
        {204, 500} \subseteq Statuses(r)
  BY <1>3, <1>4, <1>5
<1>9. 0 \in Statuses(r)
  BY DEF Statuses, Refusals
<1> QED BY <1>6, <1>7, <1>8, <1>9

\* A handler changes a hash.
LEMMA StoreApiInv ==
    ASSUME ApiInv, step = "handle", NEW set \in Sets, NEW hash, IsHash(hash),
           NEW code, AnswerWith(code, payload'), code \in Statuses(request) \ Unhandled,
           store' = [store EXCEPT ![set] = hash], armed' \in BOOLEAN,
           restored' \in Sets \cup {Absent}, failures' \in 0..MaxFailures,
           UNCHANGED <<repo, up, request, before, listed, arrivals>>
    PROVE  ApiInv'
<1>1. step' = "answered" /\ status' = code
  BY DEF AnswerWith
<1>2. DOMAIN store' = Sets /\ \A s \in Sets : IsHash(store'[s])
  BY DEF ApiInv, Types
<1>3. Types'
  BY <1>1, <1>2 DEF ApiInv, Types
<1>4. Passed'
  BY <1>1 DEF ApiInv, Passed, Underway, Statuses
<1>5. Untouched'
  BY <1>1 DEF Untouched, Underway, RefusedChangesNothing
<1> QED BY <1>3, <1>4, <1>5 DEF ApiInv

\* What a request that is being handled has passed.
LEMMA HandlingIs ==
    ASSUME ApiInv, NEW ops, Handling(ops)
    PROVE  /\ Underway /\ request \in ApiRequest /\ request.op \in ops
           /\ step = "handle" /\ before = <<store, armed>>
           /\ request.op \in Posts => request.body \in Seq(MaybeMock)
           /\ Target \in Sets /\ Base \in Sets /\ request.set \in Sets
           /\ \A s \in Sets : IsHash(store[s])
<1>1. request \in ApiRequest /\ request.set \in Sets /\ Base \in Sets
  BY ApiAssumption DEF ApiInv, Passed, Underway, Handling, ApiRequest
<1> QED BY <1>1 DEF ApiInv, Passed, Types, Untouched, Underway, Handling, Target

LEMMA PostTemplatesApiInv ==
    ASSUME ApiInv, PostTemplates
    PROVE  ApiInv'
<1>1. /\ Underway /\ request \in ApiRequest /\ request.op \in Posts /\ step = "handle"
      /\ request.body \in Seq(MaybeMock) /\ Target \in Sets
      /\ IsHash(store[Target]) /\ {0, 200, 400} \subseteq Statuses(request)
  BY HandlingIs, HandlerStatuses DEF PostTemplates
<1>2. 200 \notin Unhandled /\ 400 \notin Unhandled
  BY DEF Unhandled, Refusals
<1>3. CASE Refuse(0)
  BY <1>1, <1>3, RefuseApiInv
<1>4. CASE /\ ~ HasNull(request.body)
           /\ store' = [store EXCEPT ![Target] = AddTemplates(@, Converts(request.body))]
           /\ armed' = TRUE
           /\ AnswerWith(200, request.body)
           /\ restored' = IF backup # Absent /\ request.body = listed
                          THEN Target ELSE Absent
           /\ UNCHANGED <<repo, up, request, before, listed, arrivals, failures>>
  <2> DEFINE hash == AddTemplates(store[Target], Converts(request.body))
  <2>1. IsHash(hash)
    BY <1>1, <1>4, ConvertsType, AddTemplatesType
  <2>2. store' = [store EXCEPT ![Target] = hash]
    BY <1>4
  <2>3. AnswerWith(200, payload') /\ armed' \in BOOLEAN /\ restored' \in Sets \cup {Absent}
    BY <1>1, <1>4 DEF AnswerWith
  <2>4. failures' \in 0..MaxFailures
    BY <1>4 DEF ApiInv, Types
  <2> HIDE DEF hash
  <2> QED BY <1>1, <1>2, <1>4, <2>1, <2>2, <2>3, <2>4, StoreApiInv
<1>5. CASE /\ ~ HasNull(request.body) /\ failures < MaxFailures
           /\ \E n \in 0..Len(request.body) :
                store' = [store EXCEPT ![Target] =
                    AddTemplates(@, SubSeq(Converts(request.body), 1, n))]
           /\ failures' = failures + 1
           /\ AnswerWith(400, <<>>)
           /\ UNCHANGED <<repo, up, armed, request, before, listed, restored,
                          arrivals>>
  <2>1. PICK n \in 0..Len(request.body) :
          store' = [store EXCEPT ![Target] =
              AddTemplates(store[Target], SubSeq(Converts(request.body), 1, n))]
    BY <1>5
  <2>2. PICK mocks \in Seq(Mock) :
          mocks = Converts(request.body) /\ Len(mocks) = Len(request.body)
    BY <1>1, <1>5, ConvertsType
  <2>3. SubSeq(mocks, 1, n) \in Seq(Mock)
    BY <2>2
  <2> DEFINE hash == AddTemplates(store[Target], SubSeq(mocks, 1, n))
  <2>4. IsHash(hash)
    BY <1>1, <2>3, AddTemplatesType
  <2>5. store' = [store EXCEPT ![Target] = hash]
    BY <2>1, <2>2
  <2>6. AnswerWith(400, payload') /\ armed' \in BOOLEAN /\ restored' \in Sets \cup {Absent}
    BY <1>5 DEF AnswerWith, ApiInv, Types
  <2>7. failures' \in 0..MaxFailures
    BY <1>5, ApiAssumption DEF ApiInv, Types
  <2> HIDE DEF hash
  <2> QED BY ZenonT(30), <1>1, <1>2, <1>5, <2>4, <2>5, <2>6, <2>7, StoreApiInv
<1> QED BY <1>3, <1>4, <1>5 DEF PostTemplates

LEMMA DeleteApiInv ==
    ASSUME ApiInv, NEW set \in Sets, NEW keys, Delete(set, keys),
           Handling({"deleteTemplates", "deleteTemplate", "deleteTemplateSet"})
    PROVE  ApiInv'
<1>1. /\ step = "handle" /\ IsHash(store[set]) /\ 204 \in Statuses(request)
  BY HandlingIs, HandlerStatuses
<1>2. 204 \notin Unhandled
  BY DEF Unhandled, Refusals
<1> DEFINE hash == Without(store[set], keys)
<1>3. IsHash(hash)
  BY <1>1, WithoutType
<1>4. /\ store' = [store EXCEPT ![set] = hash] /\ AnswerWith(204, payload')
      /\ UNCHANGED <<repo, up, request, before, listed, arrivals>>
  BY DEF Delete, Removes, AnswerWith
<1>5. /\ armed' \in BOOLEAN /\ restored' \in Sets \cup {Absent}
      /\ failures' \in 0..MaxFailures
  BY DEF Delete, ApiInv, Types
<1> HIDE DEF hash
<1> QED BY <1>1, <1>2, <1>3, <1>4, <1>5, StoreApiInv

LEMMA DeletionsApiInv ==
    ASSUME ApiInv,
           DeleteTemplates \/ DeleteTemplateSet \/ DeleteTemplate \/ DeletionFails
    PROVE  ApiInv'
<1> DEFINE ops == {"deleteTemplates", "deleteTemplate", "deleteTemplateSet"}
<1>1. Handling(ops)
  BY DEF Handling, DeleteTemplates, DeleteTemplateSet, DeleteTemplate,
         DeletionFails
<1>2. /\ Underway /\ request \in ApiRequest /\ request.op \in ops /\ step = "handle"
      /\ before = <<store, armed>> /\ Base \in Sets /\ request.set \in Sets
      /\ 500 \in Statuses(request)
  BY <1>1, HandlingIs, HandlerStatuses
<1>3. CASE \E set \in Sets : \E keys : Delete(set, keys)
  <2>1. PICK set \in Sets : \E keys : Delete(set, keys)
    BY <1>3
  <2>2. PICK keys : Delete(set, keys)
    BY <2>1
  <2> QED BY ONLY ApiInv, <1>1, <2>1, <2>2, DeleteApiInv
<1>4. CASE Refuse(500)
  BY <1>2, <1>4, RefuseApiInv
<1>5. CASE DeletionFails
  <2>1. /\ AnswerWith(500, payload') /\ failures' \in 0..MaxFailures
        /\ armed' \in BOOLEAN /\ restored' \in Sets \cup {Absent}
        /\ UNCHANGED <<repo, up, request, before, listed, arrivals>>
    BY <1>5, ApiAssumption DEF DeletionFails, AnswerWith, ApiInv, Types
  <2>2. 500 \in Statuses(request) \ Unhandled
    BY <1>2 DEF Unhandled, Refusals
  <2>3. CASE store' = store
    <3>1. step' = "answered" /\ status' = 500
      BY <2>1 DEF AnswerWith
    <3>2. Types'
      BY <2>1, <2>3, <3>1 DEF ApiInv, Types
    <3>3. Passed'
      BY <1>2, <2>1, <3>1 DEF Passed, Underway, Statuses
    <3>4. Untouched'
      BY <2>2, <3>1 DEF Untouched, Underway, RefusedChangesNothing
    <3> QED BY <3>2, <3>3, <3>4 DEF ApiInv
  <2>4. CASE \E set \in Sets : \E keys : Removes(set, keys)
    <3>1. PICK set \in Sets : \E keys : Removes(set, keys)
      BY <2>4
    <3>2. PICK keys : Removes(set, keys)
      BY <3>1
    <3> DEFINE hash == Without(store[set], keys)
    <3>3. IsHash(hash)
      BY WithoutType DEF ApiInv, Types
    <3>4. store' = [store EXCEPT ![set] = hash]
      BY <3>2 DEF Removes
    <3> HIDE DEF hash
    <3> QED BY ZenonT(30), <1>2, <2>1, <2>2, <3>3, <3>4, StoreApiInv
  <2> QED BY ZenonT(30), <1>2, <1>5, <2>3, <2>4 DEF DeletionFails
<1> QED BY <1>2, <1>3, <1>4, <1>5 DEF DeleteTemplates, DeleteTemplateSet,
           DeleteTemplate

\* The handlers that change nothing.
LEMMA ReadersApiInv ==
    ASSUME ApiInv, GetHealth \/ GetTemplates \/ PostEvaluate
    PROVE  ApiInv'
<1> DEFINE ops == {"getHealth", "getTemplates", "evaluate"}
<1>1. Handling(ops)
  BY DEF Handling, GetHealth, GetTemplates, PostEvaluate
<1>2. /\ Underway /\ request \in ApiRequest /\ before = <<store, armed>>
      /\ {0, 200, 500} \subseteq Statuses(request)
  BY <1>1, HandlingIs, HandlerStatuses
<1>3. CASE \E code \in {0, 200, 500} : Refuse(code)
  BY <1>2, <1>3, RefuseApiInv
<1>4. CASE GetTemplates
  <2>1. /\ step' = "answered" /\ status' = 200 /\ restored' = Absent
        /\ listed' = Listing(AsArray(repo))
        /\ UNCHANGED <<store, repo, up, armed, request, before, arrivals, failures>>
    BY <1>4 DEF GetTemplates, AnswerWith, service
  <2>2. listed' \in Seq(MaybeMock)
    <3>1. IsRepository(repo)
      BY DEF ApiInv, Types
    <3> QED BY <2>1, <3>1, AsArrayIs, ListingType
  <2>3. Types'
    BY <2>1, <2>2 DEF ApiInv, Types
  <2>4. Passed' /\ Untouched'
    BY <1>2, <2>1 DEF Passed, Untouched, Underway, RefusedChangesNothing, Statuses
  <2> QED BY <2>3, <2>4 DEF ApiInv
<1> QED BY <1>3, <1>4 DEF GetHealth, PostEvaluate

LEMMA RespondApiInv ==
    ASSUME ApiInv, Respond
    PROVE  ApiInv'
<1>1. step' = "idle" /\ UNCHANGED <<store, repo, up, armed, listed, restored,
                                    arrivals, failures>>
  BY DEF Respond, service, history
<1>2. Types'
  BY <1>1 DEF ApiInv, Types
<1> QED BY <1>1, <1>2 DEF ApiInv, Passed, Untouched, Underway, RefusedChangesNothing

LEMMA ReloadApiInv ==
    ASSUME ApiInv, Reload
    PROVE  ApiInv'
<1>1. /\ step' = "idle" /\ armed' = FALSE
      /\ UNCHANGED <<store, listed, restored, arrivals, failures>>
  BY DEF Reload, history
<1>2. PICK order \in SetToSeqs(Sets) :
        \/ repo' = Repository(Text(order), Files) /\ UNCHANGED up
        \/ up' = FALSE /\ UNCHANGED repo
  BY DEF Reload
<1>3. Text(order) \in Seq(Mock)
  BY TextIs DEF ApiInv, Types
<1>4. IsRepository(repo') /\ up' \in BOOLEAN
  BY <1>2, <1>3, RepositoryIs DEF ApiInv, Types
<1>5. Types'
  BY <1>1, <1>4 DEF ApiInv, Types
<1> QED BY <1>1, <1>5 DEF ApiInv, Passed, Untouched, Underway, RefusedChangesNothing

LEMMA StepApiInv ==
    ASSUME ApiInv, [ApiNext]_apiVars
    PROVE  ApiInv'
<1>1. CASE Receive
  BY <1>1, ReceiveApiInv
<1>2. CASE Omctl
  BY <1>2, OmctlApiInv
<1>3. CASE Route
  BY <1>3, RouteApiInv
<1>4. CASE CheckMedia
  BY <1>4, CheckMediaApiInv
<1>5. CASE BindTemplates \/ BindTemplateSet \/ BindEvaluation
  BY <1>5, BindsApiInv
<1>6. CASE Handle
  BY <1>6, PostTemplatesApiInv, DeletionsApiInv, ReadersApiInv DEF Handle
<1>7. CASE Respond
  BY <1>7, RespondApiInv
<1>8. CASE Reload
  BY <1>8, ReloadApiInv
<1>9. CASE UNCHANGED apiVars
  BY <1>9 DEF apiVars, ApiInv, Types, Passed, Untouched, Underway,
              RefusedChangesNothing, Statuses
<1> QED BY <1>1, <1>2, <1>3, <1>4, <1>5, <1>6, <1>7, <1>8, <1>9 DEF ApiNext

LEMMA ApiInductive == ApiSpec => []ApiInv
<1>1. ApiInv /\ [ApiNext]_apiVars => ApiInv'
  BY StepApiInv
<1> QED BY <1>1, InitApiInv, PTL DEF ApiSpec

\* Types; only what has passed the models of the API reaches a handler, and
\* every answer is one that the operation has.
THEOREM ApiTypeCorrect == ApiSpec => []ApiTypeOK
<1>1. ApiInv => ApiTypeOK
  BY DEF ApiInv, Types, Passed, Statuses, ApiTypeOK, IsHash, Keyed
<1> QED BY <1>1, ApiInductive, PTL

\* A request that is refused before its handler, or whose handler panics, has
\* changed nothing and starts no reload.
THEOREM Refused == ApiSpec => []RefusedChangesNothing
<1>1. ApiInv => RefusedChangesNothing
  BY DEF ApiInv, Untouched
<1> QED BY <1>1, ApiInductive, PTL

-----------------------------------------------------------------------------
(* What is listed can be posted. *)

\* What a load has read and checked.
Clean(m) ==
    /\ m.kind \in Kinds /\ m.values # "bad"
    /\ \A j \in 1..Len(m.actions) :
        /\ m.actions[j] # Null /\ m.actions[j].field # "bad"
        /\ m.actions[j].body # "@text"

Cleaned(r) == \A k \in DOMAIN r.behaviors : Clean(r.behaviors[k])

LEMMA LoadedIsClean ==
    ASSUME NEW m \in Mock, Loads(m), NEW there
    PROVE  Clean(Loaded(m, there))
<1> DEFINE actions == [j \in 1..Len(m.actions) |->
                            FileLoaded(ActionRead(m.actions[j]), there)]
           new == Loaded(m, there)
<1>1. new = [m EXCEPT !.actions = actions, !.kind = KindOf(m)]
  BY LoadedType
<1>2. ASSUME NEW j \in 1..Len(m.actions)
      PROVE  /\ actions[j] # Null /\ actions[j].field # "bad"
             /\ actions[j].body # "@text"
  <2>1. PICK a \in MaybeAction : a = m.actions[j]
    BY MockFields
  <2>2. ActionRead(a) \in Action /\ ActionRead(a).field # "bad"
    <3>1. CASE a = Null
      <4>1. ActionRead(a) \in Action /\ ActionRead(a) = ZeroAction
        BY <3>1, ActionReadType
      <4>2. ZeroAction.field = ""
        BY DEF ZeroAction
      <4> QED BY <4>1, <4>2
    <3>2. CASE a # Null
      BY <2>1, <3>2, ActionReadType DEF Loads
    <3> QED BY <3>1, <3>2
  <2>3. PICK b : b = FileLoaded(ActionRead(a), there)
    OBVIOUS
  <2>4. b \in Action /\ b.body # "@text" /\ b.field # "bad"
    BY <2>2, <2>3, FileLoadedType
  <2>5. actions[j] = b
    BY <2>1, <2>3
  <2> QED BY <2>4, <2>5, ApiAssumption
<1>3. Len(m.actions) \in Nat /\ DOMAIN actions = 1..Len(m.actions)
  BY MockFields
<1> HIDE DEF actions, new
<1>4. /\ new.actions = actions /\ new.kind = KindOf(m) /\ new.values = m.values
  BY <1>1 DEF Mock
<1>5. Len(actions) = Len(m.actions)
  BY <1>3 DEF actions
<1> QED BY <1>2, <1>4, <1>5 DEF Clean, Loads, new

LEMMA PatchedIsClean ==
    ASSUME NEW parent \in Mock, NEW child \in Mock, Clean(parent), Clean(child)
    PROVE  Clean(PatchedWith(parent, child))
<1> DEFINE expects == IF child.on = {} THEN parent ELSE child
           values == IF child.values = "" THEN parent.values ELSE child.values
           template ==
             IF child.template = "" THEN parent.template ELSE child.template
           new == PatchedWith(parent, child)
<1>1. PICK p \in Seq(MaybeAction), c \in Seq(MaybeAction) :
        p = parent.actions /\ c = child.actions
  BY MockFields
<1>2. values # "bad"
  BY DEF Clean
<1> HIDE DEF expects, values, template
<1>3. new = [child EXCEPT !.on = expects.on, !.method = expects.method,
                          !.values = values, !.template = template,
                          !.actions = p \o c]
  BY Zenon, <1>1 DEF PatchedWith, expects, values, template, new
<1> HIDE DEF new
<1>4. new.kind = child.kind /\ new.values = values /\ new.actions = p \o c
  BY <1>3 DEF Mock
<1>5. ASSUME NEW j \in 1..Len(p \o c)
      PROVE  \/ \E i \in 1..Len(p) : (p \o c)[j] = p[i]
             \/ \E i \in 1..Len(c) : (p \o c)[j] = c[i]
  <2>1. Len(p \o c) = Len(p) + Len(c) /\ Len(p) \in Nat /\ Len(c) \in Nat
    OBVIOUS
  <2>2. CASE j <= Len(p)
    BY <2>1, <2>2
  <2>3. CASE ~ (j <= Len(p))
    <3>1. j - Len(p) \in 1..Len(c)
      BY <2>1, <2>3
    <3>2. (p \o c)[j] = c[j - Len(p)]
      BY <2>1, <2>3
    <3> QED BY <3>1, <3>2
  <2> QED BY <2>2, <2>3
<1> DEFINE IsClean(a) == a # Null /\ a.field # "bad" /\ a.body # "@text"
<1>6. /\ child.kind \in Kinds
      /\ \A j \in 1..Len(p) : IsClean(p[j])
      /\ \A j \in 1..Len(c) : IsClean(c[j])
  BY <1>1 DEF Clean
<1> HIDE DEF IsClean
<1>7. \A j \in 1..Len(p \o c) : IsClean((p \o c)[j])
  BY ONLY <1>5, <1>6
<1>8. /\ new.kind \in Kinds /\ new.values # "bad"
      /\ \A j \in 1..Len(new.actions) : IsClean(new.actions[j])
  BY ONLY <1>2, <1>4, <1>6, <1>7
<1> QED BY ONLY <1>8 DEF Clean, new, IsClean

LEMMA RepositoryIsClean ==
    ASSUME NEW mocks \in Seq(Mock), \A j \in 1..Len(mocks) : Loads(mocks[j]),
           NEW there
    PROVE  Cleaned(Repository(mocks, there))
<1> DEFINE text == LoadedText(mocks, there)
           r == Repository(mocks, there)
<1>1. text \in Seq(Mock) /\ Len(text) = Len(mocks)
  BY LoadedTextType
<1>2. \A j \in 1..Len(text) : Clean(text[j])
  <2> SUFFICES ASSUME NEW j \in 1..Len(mocks) PROVE Clean(text[j])
    BY <1>1
  <2>1. text[j] = Loaded(mocks[j], there)
    BY LoadedTextType
  <2>2. mocks[j] \in Mock
    OBVIOUS
  <2> QED BY <2>1, <2>2, LoadedIsClean
<1>3. \A k \in DOMAIN r.behaviors :
        Defines(text, k) /\ r.behaviors[k] = Resolved(text, k)
  BY RepositoryIs
<1> HIDE DEF text, r
<1>4. \A x : Defines(text, x) => LastOf(text, x) \in Mock /\ Clean(LastOf(text, x))
  <2> SUFFICES ASSUME NEW x, Defines(text, x)
               PROVE  LastOf(text, x) \in Mock /\ Clean(LastOf(text, x))
    OBVIOUS
  <2>1. PICK j \in 1..Len(text) : IsLast(text, x, j) /\ LastOf(text, x) = text[j]
    BY <1>1, LastIs
  <2> QED BY <1>1, <1>2, <2>1
<1>5. ASSUME NEW k \in DOMAIN r.behaviors PROVE Clean(r.behaviors[k])
  <2> DEFINE m == LastOf(text, k)
  <2>1. m \in Mock /\ Clean(m)
    BY <1>3, <1>4
  <2>2. CASE /\ m.kind # "AbstractBehavior" /\ m.extend # ""
             /\ Defines(text, m.extend)
    <3>1. PICK parent \in Mock : parent = LastOf(text, m.extend) /\ Clean(parent)
      BY <1>4, <2>2
    <3>2. r.behaviors[k] = PatchedWith(parent, m)
      BY <1>3, <2>2, <3>1 DEF Resolved
    <3> HIDE DEF m
    <3> QED BY <2>1, <3>1, <3>2, PatchedIsClean
  <2>3. CASE ~ (/\ m.kind # "AbstractBehavior" /\ m.extend # ""
                /\ Defines(text, m.extend))
    <3>1. r.behaviors[k] = m
      BY <1>3, <2>3 DEF Resolved
    <3> QED BY <2>1, <3>1
  <2> QED BY <2>2, <2>3
<1> QED BY <1>5 DEF Cleaned, r

\* A mock that is listed, posted and loaded again is what it was.
LEMMA TripKeeps ==
    ASSUME NEW m \in Mock, Clean(m), NEW there,
           \A j \in 1..Len(m.actions) : m.actions[j].body # "@binary"
    PROVE  Loaded(Converted(MockModel(m)), there) = m
<1>1. PICK n \in Nat, actions \in Seq(MaybeAction) :
        /\ n = Len(actions) /\ actions = m.actions
        /\ \A j \in 1..n : actions[j] \in MaybeAction
  BY MockFields
<1>2. m = [m EXCEPT !.actions = actions, !.values = m.values, !.kind = m.kind]
      /\ m = [m EXCEPT !.actions = actions]
      /\ m = [m EXCEPT !.actions = actions, !.values = m.values]
      /\ m = [m EXCEPT !.actions = actions, !.kind = m.kind]
  BY <1>1 DEF Mock
<1>3. \A j \in 1..n : /\ actions[j] \in Action /\ actions[j].field # "bad"
                      /\ actions[j] # Null /\ actions[j].body # "@binary"
                      /\ actions[j].body # "@text"
  BY <1>1 DEF Clean, MaybeAction
<1>4. actions = [j \in 1..n |-> actions[j]]
  BY <1>1
<1>5. MockModel(m) = m
  <2>1. MockModel(m) = [m EXCEPT !.actions =
                          [j \in 1..n |-> ActionModel(actions[j])]]
    BY <1>1, MockModelType, ApiAssumption DEF MaybeMock
  <2>2. \A j \in 1..n : ActionModel(actions[j]) = actions[j]
    BY <1>1, <1>3, ActionModelType
  <2>3. [j \in 1..n |-> ActionModel(actions[j])] = actions
    BY ONLY <1>4, <2>2
  <2> QED BY ONLY <1>2, <2>1, <2>3
<1>6. Converted(m) = m
  <2>1. Converted(m) = [m EXCEPT !.actions = [j \in 1..n |-> ActionRead(actions[j])],
                                 !.values = FieldRead(m.values)]
    BY <1>1, ConvertedType
  <2>2. \A j \in 1..n : ActionRead(actions[j]) = actions[j]
    BY <1>1, <1>3, ActionReadType
  <2>3. [j \in 1..n |-> ActionRead(actions[j])] = actions
    BY ONLY <1>4, <2>2
  <2>4. FieldRead(m.values) = m.values
    BY DEF FieldRead, Clean
  <2> QED BY ONLY <1>2, <2>1, <2>3, <2>4
<1>7. Loaded(m, there) = m
  <2>1. Loaded(m, there) =
          [m EXCEPT !.actions = [j \in 1..n |->
                                    FileLoaded(ActionRead(actions[j]), there)],
                    !.kind = KindOf(m)]
    <3>1. Loaded(m, there) =
            [m EXCEPT !.actions = [j \in 1..Len(m.actions) |->
                                    FileLoaded(ActionRead(m.actions[j]), there)],
                      !.kind = KindOf(m)]
      BY LoadedType
    <3> QED BY ONLY <1>1, <3>1
  <2>2. \A j \in 1..n : FileLoaded(ActionRead(actions[j]), there) = actions[j]
    BY <1>1, <1>3, ActionReadType, FileLoadedType
  <2>3. [j \in 1..n |-> FileLoaded(ActionRead(actions[j]), there)] = actions
    BY ONLY <1>4, <2>2
  <2>4. KindOf(m) = m.kind
    BY DEF KindOf, Clean, Kinds
  <2> QED BY ONLY <1>2, <2>1, <2>3, <2>4
<1> QED BY <1>5, <1>6, <1>7

\* The last listing is that of the repository in backup.
Listings ==
    backup # Absent =>
        /\ IsRepository(backup) /\ Cleaned(backup)
        /\ listed = Listing(AsArray(backup))

\* What was posted of it is in the set, until something else changes.
Restoring ==
    restored # Absent =>
        /\ backup # Absent
        /\ \A k \in Answering(backup) :
            /\ k \in DOMAIN store[restored]
            /\ store[restored][k] = Converted(MockModel(backup.behaviors[k]))

Unrestored == Underway /\ request.op \in Changing => restored = Absent

Reloaded ==
    restored # Absent /\ up /\ ~ armed =>
        \E order \in SetToSeqs(Sets) : repo = Repository(Text(order), Files)

Trip == Cleaned(repo) /\ Listings /\ Restoring /\ Unrestored /\ Reloaded

LEMMA ApiInitTrip == ApiInit => Trip
<1> SUFFICES ASSUME ApiInit PROVE Trip
  OBVIOUS
<1>1. Cleaned(repo)
  BY RepositoryIsClean, ApiAssumption DEF ApiInit
<1> QED BY <1>1 DEF ApiInit, Trip, Listings, Restoring, Unrestored, Reloaded

\* No listing is under way.
LEMMA DroppedTrip ==
    ASSUME restored' = Absent, Cleaned(repo)', Listings'
    PROVE  Trip'
BY DEF Trip, Restoring, Unrestored, Reloaded

\* Nothing that a listing depends on changes.
LEMMA QuietTrip ==
    ASSUME Trip, Underway' => Underway /\ request'.op = request.op,
           UNCHANGED <<store, repo, up, armed, listed, backup, restored>>
    PROVE  Trip'
<1>1. Cleaned(repo)' /\ Listings' /\ Restoring'
  BY DEF Trip, Cleaned, Listings, Restoring
<1>2. Unrestored'
  BY DEF Trip, Unrestored
<1>3. \A order : Text(order)' = Text(order)
  BY DEF Text
<1>4. Reloaded'
  BY <1>3 DEF Trip, Reloaded
<1> QED BY <1>1, <1>2, <1>4 DEF Trip

LEMMA ArriveTrip ==
    ASSUME Trip, NEW r, Arrive(r), Listings', restored' = Absent \/ UNCHANGED backup
    PROVE  Trip'
<1>1. /\ request' = r /\ restored' \in {Absent, restored}
      /\ r.op \in Changing => restored' = Absent
      /\ UNCHANGED <<store, repo, up, armed>>
  BY DEF Arrive, service
<1>2. Cleaned(repo)' /\ Restoring'
  BY <1>1 DEF Trip, Cleaned, Restoring
<1>3. Unrestored'
  BY <1>1 DEF Unrestored
<1>4. \A order : Text(order)' = Text(order)
  BY <1>1 DEF Text
<1>5. Reloaded'
  BY <1>1, <1>4 DEF Trip, Reloaded
<1> QED BY <1>2, <1>3, <1>5 DEF Trip

LEMMA ArrivalsTrip ==
    ASSUME Trip, Receive \/ Omctl
    PROVE  Trip'
<1>1. CASE (\E r : Arrive(r)) /\ UNCHANGED <<listed, backup>>
  <2>1. Listings'
    BY <1>1 DEF Trip, Listings
  <2> QED BY <1>1, <2>1, ArriveTrip
<1>2. CASE Push
  <2>1. PICK text \in Locals, s \in Sets :
          /\ \A j \in 1..Len(text) : Loads(text[j])
          /\ backup' = Repository(text, TRUE)
          /\ listed' = Listing(AsArray(backup'))
          /\ Arrive(SetRequest(IF s = Base THEN "postTemplates"
                               ELSE "postTemplateSet", s, listed'))
    BY <1>2 DEF Push
  <2>2. IsRepository(backup') /\ Cleaned(backup')
    <3>1. text \in Seq(Mock)
      BY ApiAssumption
    <3> QED BY <2>1, <3>1, RepositoryIs, RepositoryIsClean
  <2>3. Listings'
    BY <2>1, <2>2 DEF Listings, IsRepository, Cleaned
  <2> DEFINE op == IF s = Base THEN "postTemplates" ELSE "postTemplateSet"
             r == SetRequest(op, s, listed')
  <2>4. r.op \in Changing
    BY DEF SetRequest, Changing, Posts
  <2>5. Arrive(r)
    BY <2>1
  <2> HIDE DEF r
  <2>6. restored' = Absent
    BY <2>4, <2>5 DEF Arrive
  <2> QED BY <2>3, <2>5, <2>6, ArriveTrip
<1> QED BY <1>1, <1>2 DEF Receive, Omctl, DeleteSet

\* The steps of the middleware, and the answers without a change.
LEMMA RefuseTrip ==
    ASSUME Trip, NEW code, Refuse(code)
    PROVE  Trip'
<1>1. /\ ~ Underway'
      /\ UNCHANGED <<store, repo, up, armed, listed, backup, restored>>
  BY DEF Refuse, AnswerWith, Underway, service, history
<1> QED BY <1>1, QuietTrip

LEMMA MiddlewareTrip ==
    ASSUME ApiInv, Trip,
           Route \/ CheckMedia \/ BindTemplates \/ BindTemplateSet \/ BindEvaluation
    PROVE  Trip'
<1>1. Underway
  BY DEF Route, CheckMedia, BindTemplates, BindTemplateSet, BindEvaluation, Bind,
         Underway
<1>2. CASE \E code : Refuse(code)
  BY <1>2, RefuseTrip
<1>3. CASE /\ request' = request \/ request' = [request EXCEPT !.body = Batch]
           /\ UNCHANGED <<service, history>>
  <2>1. request'.op = request.op
    <3>1. request \in ApiRequest
      BY <1>1 DEF ApiInv, Passed
    <3>2. PICK batch : request' = request \/ request' = [request EXCEPT !.body = batch]
      BY <1>3
    <3> QED BY <3>1, <3>2 DEF ApiRequest
  <2>2. UNCHANGED <<store, repo, up, armed, listed, backup, restored>>
    BY <1>3 DEF service, history
  <2> QED BY <1>1, <2>1, <2>2, QuietTrip
<1> QED BY <1>2, <1>3 DEF Route, CheckMedia, BindTemplates, BindTemplateSet,
           BindEvaluation, Bind, service, history

LEMMA ReadersTrip ==
    ASSUME ApiInv, Trip, GetHealth \/ GetTemplates \/ PostEvaluate \/ Respond
    PROVE  Trip'
<1>1. CASE \E code : Refuse(code)
  BY <1>1, RefuseTrip
<1>2. CASE GetTemplates
  <2>1. /\ listed' = Listing(AsArray(repo)) /\ backup' = repo /\ restored' = Absent
        /\ UNCHANGED repo
    BY <1>2 DEF GetTemplates, service
  <2>2. Listings' /\ Cleaned(repo)'
    <3>1. IsRepository(repo) /\ Cleaned(repo)
      BY DEF ApiInv, Types, Trip
    <3> QED BY <2>1, <3>1 DEF Listings, Cleaned, IsRepository
  <2> QED BY <2>1, <2>2, DroppedTrip
<1>3. CASE Respond
  <2>1. /\ ~ Underway'
        /\ UNCHANGED <<store, repo, up, armed, listed, backup, restored>>
    BY <1>3 DEF Respond, Underway, service, history
  <2> QED BY <2>1, QuietTrip
<1> QED BY <1>1, <1>2, <1>3 DEF GetHealth, PostEvaluate

\* What changes a set in another way than a listing does.
LEMMA ChangersTrip ==
    ASSUME ApiInv, Trip,
           DeleteTemplates \/ DeleteTemplateSet \/ DeleteTemplate \/ DeletionFails
    PROVE  Trip'
<1>1. restored = Absent
  BY DEF DeleteTemplates, DeleteTemplateSet, DeleteTemplate, DeletionFails,
         Handling, Underway, Trip, Unrestored, Changing
<1>2. CASE \E code : Refuse(code)
  BY <1>2, RefuseTrip
<1>3. CASE \E set \in Sets : \E keys : Delete(set, keys)
  <2>1. backup' = Absent /\ UNCHANGED <<repo, restored>>
    BY <1>3 DEF Delete, Removes
  <2> QED BY <1>1, <2>1, DroppedTrip DEF Listings, Trip, Cleaned
<1>4. CASE DeletionFails
  <2>1. UNCHANGED <<repo, restored, listed>> /\ backup' \in {backup, Absent}
    BY <1>4 DEF DeletionFails, Removes
  <2> QED BY <1>1, <2>1, DroppedTrip DEF Listings, Trip, Cleaned
<1>5. Base \in Sets /\ (Underway => request.set \in Sets)
  BY ApiAssumption DEF ApiInv, Passed, ApiRequest
<1> QED BY <1>2, <1>3, <1>4, <1>5 DEF DeleteTemplates, DeleteTemplateSet,
           DeleteTemplate, Handling, Underway

\* The last mock of a key in a listing is the one that answers.
LEMMA ListingRestores ==
    ASSUME NEW r, IsRepository(r), NEW list, list = AsArray(r),
           ~ HasNull(Listing(list)), NEW hash, IsHash(hash),
           NEW k \in Answering(r)
    PROVE  LET new == AddTemplates(hash, Converts(Listing(list))) IN
           k \in DOMAIN new /\ new[k] = Converted(MockModel(r.behaviors[k]))
<1> DEFINE mocks == Converts(Listing(list))
           new == AddTemplates(hash, mocks)
<1>1. PICK T \in Nat :
        /\ list \in Seq(Mock) /\ T <= Len(list)
        /\ \A j \in T + 1..Len(list) : \E x \in Answering(r) :
             list[j] = r.behaviors[x]
        /\ \A x \in Answering(r) : \E j \in T + 1..Len(list) :
             list[j] = r.behaviors[x]
  BY AsArrayIs
<1>2. PICK n \in Nat : n = Len(list)
  BY <1>1
<1>3. Listing(list) \in Seq(MaybeMock) /\ Len(Listing(list)) = n
  <2>1. Listing(list) \in Seq(MaybeMock)
    BY <1>1, ListingType
  <2> QED BY <1>2, <2>1 DEF Listing
<1>4. /\ mocks \in Seq(Mock) /\ Len(mocks) = n
      /\ \A j \in 1..n : mocks[j] = Converted(MockModel(list[j]))
  <2>1. /\ mocks \in Seq(Mock) /\ Len(mocks) = n
        /\ \A j \in 1..n : mocks[j] = Converted(Listing(list)[j])
    BY <1>3, ConvertsType
  <2>2. \A j \in 1..n : Listing(list)[j] = MockModel(list[j])
    BY <1>2 DEF Listing
  <2> HIDE DEF mocks
  <2> QED BY <2>1, <2>2
<1>5. \A j \in 1..n : mocks[j].key = list[j].key
  <2> SUFFICES ASSUME NEW j \in 1..n PROVE mocks[j].key = list[j].key
    OBVIOUS
  <2>1. PICK m \in Mock : m = list[j]
    BY <1>1, <1>2
  <2>2. MockModel(m) \in Mock /\ MockModel(m).key = m.key
    BY <2>1, MockModelType, ApiAssumption DEF MaybeMock
  <2> HIDE DEF mocks
  <2> QED BY <1>4, <2>1, <2>2, ConvertedType
<1> HIDE DEF mocks
<1>6. \A x \in Answering(r) : r.behaviors[x].key = x
  BY DEF IsRepository, Keyed, Answering
<1>7. PICK j0 \in T + 1..n : mocks[j0].key = k
  <2>1. PICK j0 \in T + 1..n : list[j0] = r.behaviors[k]
    BY <1>1, <1>2
  <2> QED BY <1>2, <1>5, <1>6, <2>1
<1>8. Defines(mocks, k)
  BY <1>4, <1>7 DEF Defines
<1>9. PICK j \in 1..n : IsLast(mocks, k, j) /\ LastOf(mocks, k) = mocks[j]
  BY <1>4, <1>8, LastIs
<1>10. j \in T + 1..n
  BY <1>4, <1>7, <1>9 DEF IsLast
<1>11. list[j] = r.behaviors[k]
  <2>1. PICK x \in Answering(r) : list[j] = r.behaviors[x]
    BY <1>1, <1>2, <1>10
  <2>2. x = k
    BY <1>5, <1>6, <1>9, <2>1 DEF IsLast
  <2> QED BY <2>1, <2>2
<1>12. new = [x \in DOMAIN hash \cup {mocks[i].key : i \in 1..Len(mocks)} |->
                IF Defines(mocks, x) THEN LastOf(mocks, x) ELSE hash[x]]
  BY DEF AddTemplates
<1> HIDE DEF new
<1>13. k \in {mocks[i].key : i \in 1..Len(mocks)}
  BY <1>4, <1>7
<1>14. k \in DOMAIN new /\ new[k] = mocks[j]
  BY <1>8, <1>9, <1>12, <1>13
<1> QED BY <1>4, <1>11, <1>14 DEF new, mocks

LEMMA PostTemplatesTrip ==
    ASSUME ApiInv, Trip, PostTemplates
    PROVE  Trip'
<1>1. /\ restored = Absent /\ request.body \in Seq(MaybeMock) /\ Target \in Sets
      /\ IsHash(store[Target]) /\ DOMAIN store = Sets
  <2>1. restored = Absent
    BY DEF PostTemplates, Handling, Underway, Trip, Unrestored, Changing
  <2> QED BY <2>1, HandlingIs DEF PostTemplates, ApiInv, Types
<1>2. CASE Refuse(0)
  BY <1>2, RefuseTrip
<1>3. CASE /\ backup' = Absent /\ UNCHANGED <<repo, restored>>
  BY <1>1, <1>3, DroppedTrip DEF Listings, Trip, Cleaned
<1>4. CASE /\ ~ HasNull(request.body)
           /\ store' = [store EXCEPT ![Target] = AddTemplates(@, Converts(request.body))]
           /\ armed' = TRUE
           /\ restored' = IF backup # Absent /\ request.body = listed
                          THEN Target ELSE Absent
           /\ backup' = IF restored' = Absent THEN Absent ELSE backup
           /\ UNCHANGED <<repo, listed>>
  <2>1. Cleaned(repo)' /\ Listings'
    BY <1>4 DEF Trip, Cleaned, Listings
  <2>2. CASE restored' = Absent
    BY <2>1, <2>2, DroppedTrip
  <2>3. CASE restored' # Absent
    <3>1. /\ restored' = Target /\ backup' = backup /\ request.body = listed
          /\ backup # Absent
      BY <1>4, <2>3
    <3>2. IsRepository(backup) /\ listed = Listing(AsArray(backup))
      BY <3>1 DEF Trip, Listings
    <3>3. store'[Target] = AddTemplates(store[Target], Converts(listed))
      BY <1>1, <1>4, <3>1
    <3>4. ASSUME NEW k \in Answering(backup)
          PROVE  /\ k \in DOMAIN store'[Target]
                 /\ store'[Target][k] = Converted(MockModel(backup.behaviors[k]))
      <4>1. PICK list : list = AsArray(backup)
        OBVIOUS
      <4>2. PICK hash : hash = store[Target] /\ IsHash(hash)
        BY <1>1
      <4>3. ~ HasNull(Listing(list))
        BY <1>4, <3>1, <3>2, <4>1
      <4>4. LET new == AddTemplates(hash, Converts(Listing(list))) IN
            k \in DOMAIN new /\ new[k] = Converted(MockModel(backup.behaviors[k]))
        BY ONLY <3>2, <4>1, <4>2, <4>3, ListingRestores
      <4> QED BY <3>2, <3>3, <4>1, <4>2, <4>4
    <3>5. Restoring'
      BY <3>1, <3>4 DEF Restoring
    <3>6. Unrestored' /\ Reloaded'
      <4>1. step' = "answered" /\ armed' = TRUE
        BY <1>4, <2>3 DEF PostTemplates, Refuse, AnswerWith, service, history
      <4> QED BY <4>1 DEF Unrestored, Reloaded, Underway
    <3> QED BY <2>1, <3>5, <3>6 DEF Trip
  <2> QED BY <2>2, <2>3
<1> QED BY <1>2, <1>3, <1>4 DEF PostTemplates

LEMMA ReloadTrip ==
    ASSUME ApiInv, Trip, Reload
    PROVE  Trip'
<1>1. step' = "idle" /\ UNCHANGED <<store, listed, backup, restored>>
  BY DEF Reload, history
<1>2. PICK order \in SetToSeqs(Sets) :
        IF \A j \in 1..Len(Text(order)) : Loads(Text(order)[j])
        THEN repo' = Repository(Text(order), Files) /\ UNCHANGED up
        ELSE up' = FALSE /\ UNCHANGED repo
  BY DEF Reload
<1>3. PICK text : text = Text(order)
  OBVIOUS
<1>4. text \in Seq(Mock)
  BY <1>3, TextIs DEF ApiInv, Types
<1>5. Cleaned(repo')
  <2>1. CASE \A j \in 1..Len(text) : Loads(text[j])
    BY <1>2, <1>3, <1>4, <2>1, RepositoryIsClean
  <2>2. CASE ~ \A j \in 1..Len(text) : Loads(text[j])
    BY <1>2, <1>3, <2>2 DEF Trip, Cleaned
  <2> QED BY <2>1, <2>2
<1>6. Text(order)' = Text(order)
  BY <1>1 DEF Text
<1>7. Reloaded'
  BY <1>2, <1>6 DEF Reloaded
<1>8. Listings' /\ Restoring' /\ Unrestored'
  BY <1>1 DEF Trip, Listings, Restoring, Unrestored, Underway
<1> QED BY <1>5, <1>7, <1>8 DEF Trip, Cleaned

LEMMA StepTrip ==
    ASSUME ApiInv, Trip, [ApiNext]_apiVars
    PROVE  Trip'
<1>1. CASE Receive \/ Omctl
  BY <1>1, ArrivalsTrip
<1>2. CASE Route \/ CheckMedia \/ BindTemplates \/ BindTemplateSet \/ BindEvaluation
  BY <1>2, MiddlewareTrip
<1>3. CASE GetHealth \/ GetTemplates \/ PostEvaluate \/ Respond
  BY <1>3, ReadersTrip
<1>4. CASE DeleteTemplates \/ DeleteTemplateSet \/ DeleteTemplate \/ DeletionFails
  BY <1>4, ChangersTrip
<1>5. CASE PostTemplates
  BY <1>5, PostTemplatesTrip
<1>6. CASE Reload
  BY <1>6, ReloadTrip
<1>7. CASE UNCHANGED apiVars
  BY <1>7, QuietTrip DEF apiVars, Underway
<1> QED BY <1>1, <1>2, <1>3, <1>4, <1>5, <1>6, <1>7 DEF ApiNext, Handle

LEMMA TripKept == ApiSpec => []Trip
<1>1. ApiInv /\ Trip /\ [ApiNext]_apiVars => Trip'
  BY StepTrip
<1> QED BY <1>1, ApiInitTrip, ApiInductive, PTL DEF ApiSpec

LEMMA TripRestores ==
    ASSUME ApiInv, Trip
    PROVE  PostingBackKeeps
<1> SUFFICES ASSUME restored # Absent, up, ~ armed, NEW k \in Answering(backup),
                    SurvivesTheTrip(backup.behaviors[k]),
                    \A s \in Sets \ {restored} : k \notin DOMAIN store[s]
             PROVE  k \in Answering(repo) /\ repo.behaviors[k] = backup.behaviors[k]
  BY DEF PostingBackKeeps
<1>1. PICK r : r = backup
  OBVIOUS
<1>2. PICK set \in Sets : set = restored
  BY DEF ApiInv, Types
<1>3. /\ IsRepository(r) /\ Cleaned(r)
      /\ k \in DOMAIN store[set]
      /\ store[set][k] = Converted(MockModel(r.behaviors[k]))
  BY <1>1, <1>2 DEF Trip, Listings, Restoring
<1>4. PICK m \in Mock : /\ m = r.behaviors[k] /\ Clean(m)
                        /\ m.kind # "AbstractBehavior" /\ m.on # {}
  BY <1>1, <1>3 DEF IsRepository, Keyed, Cleaned, Answering
<1>5. PICK order \in SetToSeqs(Sets) : repo = Repository(Text(order), Files)
  BY DEF Trip, Reloaded
<1>6. PICK text : text = Text(order)
  OBVIOUS
<1>7. PICK D \in Nat :
        /\ text \in Seq(Mock) /\ D = Len(Disk) /\ D <= Len(text)
        /\ \A j \in 1..D : text[j] = Disk[j]
        /\ \A j \in D + 1..Len(text) : \E s \in Sets :
             \E x \in DOMAIN store[s] : text[j] = store[s][x]
        /\ \A s \in Sets : \A x \in DOMAIN store[s] :
             \E j \in D + 1..Len(text) : text[j] = store[s][x]
  <2>1. DOMAIN store = Sets /\ \A s \in Sets : IsHash(store[s])
    BY DEF ApiInv, Types
  <2>2. /\ text \in Seq(Mock) /\ Len(Disk) \in Nat /\ Len(Disk) <= Len(text)
        /\ \A j \in 1..Len(Disk) : text[j] = Disk[j]
        /\ \A j \in Len(Disk) + 1..Len(text) : \E s \in Sets :
             \E x \in DOMAIN store[s] : text[j] = store[s][x]
        /\ \A s \in Sets : \A x \in DOMAIN store[s] :
             \E j \in Len(Disk) + 1..Len(text) : text[j] = store[s][x]
    BY ONLY <1>5, <1>6, <2>1, TextIs
  <2>3. PICK D \in Nat : D = Len(Disk)
    BY ONLY <2>2
  <2> QED BY ONLY <2>2, <2>3
<1>8. PICK n \in Nat : n = Len(text)
  BY <1>7
<1>9. \A s \in Sets : \A x \in DOMAIN store[s] : store[s][x].key = x
  BY DEF ApiInv, Types, IsHash, Keyed
<1>10. PICK loaded \in Seq(Mock) :
        /\ loaded = LoadedText(text, Files) /\ Len(loaded) = n
        /\ \A j \in 1..n : /\ loaded[j] = Loaded(text[j], Files)
                           /\ loaded[j].key = text[j].key
  BY <1>7, <1>8, LoadedTextType
<1>11. PICK j0 \in D + 1..n : text[j0].key = k
  BY <1>3, <1>7, <1>8, <1>9
<1>12. Defines(loaded, k)
  BY <1>10, <1>11 DEF Defines
<1>13. PICK j \in 1..n : IsLast(loaded, k, j) /\ LastOf(loaded, k) = loaded[j]
  BY <1>10, <1>12, LastIs
<1>14. j \in D + 1..n /\ text[j].key = k
  BY <1>10, <1>11, <1>13 DEF IsLast
<1>15. text[j] = store[set][k]
  <2>1. PICK s \in Sets : \E x \in DOMAIN store[s] : text[j] = store[s][x]
    BY <1>7, <1>8, <1>14
  <2>2. text[j] = store[s][k] /\ k \in DOMAIN store[s]
    BY <1>9, <1>14, <2>1
  <2>3. s = set
    BY <1>2, <2>1, <2>2
  <2> QED BY <2>1, <2>2, <2>3
<1>16. LastOf(loaded, k) = m
  <2>1. \A i \in 1..Len(m.actions) : m.actions[i].body # "@binary"
    BY <1>1, <1>4 DEF SurvivesTheTrip
  <2>2. Loaded(Converted(MockModel(m)), Files) = m
    BY <1>4, <2>1, TripKeeps
  <2> QED BY <1>3, <1>4, <1>10, <1>13, <1>15, <2>2
<1>17. ~ Defines(loaded, m.extend)
  <2> SUFFICES ASSUME NEW i \in 1..n, text[i].key = m.extend PROVE FALSE
    BY <1>10 DEF Defines
  <2>1. CASE i <= D
    <3>1. i \in 1..D
      BY <2>1
    <3>2. Defines(Disk, m.extend)
      BY <1>7, <3>1 DEF Defines
    <3> QED BY <1>1, <1>4, <3>2 DEF SurvivesTheTrip
  <2>2. CASE ~ (i <= D)
    <3>1. i \in D + 1..n
      BY <2>2
    <3>2. PICK s \in Sets : \E x \in DOMAIN store[s] : text[i] = store[s][x]
      BY <1>7, <1>8, <3>1
    <3>3. m.extend \in DOMAIN store[s]
      BY <1>9, <3>2
    <3> QED BY <1>1, <1>4, <3>3 DEF SurvivesTheTrip
  <2> QED BY <2>1, <2>2
<1>18. Resolved(loaded, k) = m
  BY <1>16, <1>17 DEF Resolved
<1>19. k \in DOMAIN repo.behaviors /\ repo.behaviors[k] = m
  <2>1. /\ DOMAIN repo.behaviors = {loaded[i].key : i \in 1..Len(loaded)}
        /\ \A x \in DOMAIN repo.behaviors : repo.behaviors[x] = Resolved(loaded, x)
    <3> DEFINE read == LoadedText(text, Files)
               new == Repository(text, Files)
    <3>1. /\ DOMAIN new.behaviors = {read[i].key : i \in 1..Len(read)}
          /\ \A x \in DOMAIN new.behaviors :
                Defines(read, x) /\ new.behaviors[x] = Resolved(read, x)
      BY <1>7, RepositoryIs
    <3> HIDE DEF read, new
    <3>2. read = loaded /\ new = repo
      BY <1>5, <1>6, <1>10 DEF read, new
    <3> QED BY ONLY <3>1, <3>2
  <2>2. k \in {loaded[i].key : i \in 1..Len(loaded)}
    BY <1>10, <1>11
  <2> QED BY <1>18, <2>1, <2>2
<1> QED BY <1>1, <1>4, <1>19 DEF Answering

\* What an instance lists, or omctl a directory, can be posted: after the
\* reload a mock that extends nothing there and has no binary file answers as
\* it did where it was listed, if no other set has it.
THEOREM PostingBack == ApiSpec => []PostingBackKeeps
<1>1. ApiInv /\ Trip => PostingBackKeeps
  BY TripRestores
<1> QED BY <1>1, ApiInductive, TripKept, PTL
=============================================================================
