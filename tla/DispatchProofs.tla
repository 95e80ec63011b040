---------------------------- MODULE DispatchProofs ----------------------------
(***************************************************************************)
(* Theorems about Dispatch, for any connections, routes, mocks and         *)
(* payloads, and any bounds.                                               *)
(***************************************************************************)
EXTENDS Dispatch, ListProofs, TLAPS

USE DispatchAssumption

Steps == {"idle", "unmarshal", "marshal", "match", "act", "reply"}

Types ==
    /\ request \in Payloads \cup {None} /\ response \in Payloads \cup {None}
    /\ pc \in [Slots -> Steps] /\ mock \in [Slots -> Nat \ {0}]
    /\ body \in [Slots -> Payloads \cup {Garbage, None}]
    /\ payload \in [Slots -> Payloads \cup {None}]
    /\ answer \in [Slots -> Payloads \cup {None, "empty", "error"}]
    /\ possible \in [Slots -> SUBSET Nat] /\ certain \in [Slots -> SUBSET Nat]

\* While r looks for a mock, the histories frame those that match now; and
\* none that it has passed can have matched all the time.
Chosen(r) ==
    /\ pc[r] \in {"unmarshal", "marshal"} => mock[r] = 1
    /\ certain[r] \subseteq 1..Len(Behaviors[r])
    /\ pc[r] = "match" =>
        /\ Matching(r, payload[r], redis) \subseteq possible[r]
        /\ certain[r] \subseteq Matching(r, payload[r], redis)
    /\ pc[r] \in {"match", "act", "reply"} =>
        \A m \in 1..(mock[r] - 1) : m \notin certain[r]
    /\ pc[r] \in {"act", "reply"} => mock[r] \in possible[r]
    /\ pc[r] \in {"act", "reply"} => mock[r] <= Len(Behaviors[r])
    /\ pc[r] = "idle" /\ mock[r] > Len(Behaviors[r]) => certain[r] = {}

\* Whose payload a handler has in its hands.
Own(r) ==
    /\ pc[r] \in {"unmarshal", "marshal", "reply"} => r \in Grpc
    /\ pc[r] = "marshal" => request = body[r]
    /\ pc[r] \in {"match", "act", "reply"} => payload[r] = body[r]
    /\ pc[r] \in {"marshal", "match", "act", "reply"} => body[r] # Garbage
    /\ pc[r] = "reply" => response = body[r]
    /\ pc[r] \in {"unmarshal", "marshal"} => answer[r] = None
    /\ answer[r] \in {None, "empty", "error", body[r]}
    /\ body[r] = Garbage => answer[r] \in {None, "error"}

\* No two requests call the gRPC method at a time.
OneAtATime == \A r, q \in Grpc : r = q

LEMMA MatchingIsFinite ==
    ASSUME NEW r \in Slots, NEW p, NEW v
    PROVE  /\ Len(Behaviors[r]) \in Nat
           /\ Matching(r, p, v) \subseteq 1..Len(Behaviors[r])
           /\ Matching(r, p, v) \subseteq Nat
BY DEF Matching

LEMMA InitTypes == Init => Types
<1> SUFFICES ASSUME Init PROVE Types
  OBVIOUS
<1>1. mock \in [Slots -> Nat \ {0}] /\ pc \in [Slots -> Steps]
  BY DEF Init, Steps
<1> QED BY <1>1 DEF Init, Types

\* Every step keeps the types.
LEMMA TypesInductive ==
    ASSUME Types, [Next]_vars
    PROVE  Types'
<1> USE DEF Types, Steps, shared, progress, history, bounds
<1>1. ASSUME NEW r \in Slots, NEW p \in Payloads \cup {Garbage}, Arrive(r, p)
      PROVE  Types'
  <2>1. p = Garbage => r \in Grpc
    BY <1>1 DEF Arrive
  <2>2. possible' \in [Slots -> SUBSET Nat] /\ certain' \in [Slots -> SUBSET Nat]
    <3>1. Matching(r, p, redis) \in SUBSET Nat
      BY MatchingIsFinite
    <3>2. CASE r \in Grpc
      BY <1>1, <3>2 DEF Arrive
    <3>3. CASE r \notin Grpc
      <4>1. /\ possible' = [possible EXCEPT ![r] = Matching(r, p, redis)]
            /\ certain' = [certain EXCEPT ![r] = Matching(r, p, redis)]
        BY <1>1, <3>3 DEF Arrive, Observe
      <4> QED BY <3>1, <4>1
    <3> QED BY <3>2, <3>3
  <2>3. payload' \in [Slots -> Payloads \cup {None}]
    BY <1>1, <2>1 DEF Arrive
  <2>4. mock' \in [Slots -> Nat \ {0}] /\ pc' \in [Slots -> Steps]
    BY <1>1 DEF Arrive, GoTo
  <2> QED BY <1>1, <2>2, <2>3, <2>4 DEF Arrive
<1>2. ASSUME NEW r \in Slots, Unmarshal(r) PROVE Types'
  <2>1. request' \in Payloads \cup {None} /\ pc' \in [Slots -> Steps]
    <3>1. CASE body[r] = Garbage
      BY <1>2, <3>1 DEF Unmarshal, GoTo
    <3>2. CASE body[r] # Garbage
      <4>1. request' = body[r] /\ pc' = [pc EXCEPT ![r] = "marshal"]
        BY <1>2, <3>2 DEF Unmarshal, GoTo
      <4>2. body[r] \in Payloads \cup {None}
        BY <3>2
      <4> QED BY <4>1, <4>2
    <3> QED BY <3>1, <3>2
  <2>2. answer' \in [Slots -> Payloads \cup {None, "empty", "error"}]
    BY <1>2 DEF Unmarshal
  <2> QED BY <1>2, <2>1, <2>2 DEF Unmarshal
<1>3. ASSUME NEW r \in Slots, Marshal(r) PROVE Types'
  BY <1>3, MatchingIsFinite DEF Marshal, Observe, GoTo
<1>4. ASSUME NEW r \in Slots, MatchCondition(r) PROVE Types'
  <2>1. answer' \in [Slots -> Payloads \cup {None, "empty", "error"}]
    BY <1>4 DEF MatchCondition, Finish
  <2>2. mock' \in [Slots -> Nat \ {0}]
    BY <1>4 DEF MatchCondition
  <2>3. pc' \in [Slots -> Steps]
    BY ZenonT(30), <1>4 DEF MatchCondition, Finish, GoTo
  <2> QED BY <1>4, <2>1, <2>2, <2>3 DEF MatchCondition
<1>5. ASSUME NEW r \in Slots, Return(r) \/ CallFails(r) PROVE Types'
  BY <1>5 DEF Return, CallFails, Finish, GoTo
<1>6. ASSUME NEW r \in Slots, Perform(r) \/ RedisFails(r) \/ ReplyHTTP(r) PROVE Types'
  BY <1>6 DEF Perform, RedisFails, ReplyHTTP, Done
<1>7. ASSUME NEW r \in Slots, RedisDo(r) PROVE Types'
  <2>1. possible' \in [Slots -> SUBSET Nat] /\ certain' \in [Slots -> SUBSET Nat]
    <3>1. \A q \in Slots : Matching(q, payload[q], redis') \in SUBSET Nat
      BY MatchingIsFinite
    <3>2. CASE UNCHANGED history
      BY <3>2
    <3>3. CASE /\ possible' = [q \in Slots |-> IF pc[q] = "match"
                   THEN possible[q] \cup Matching(q, payload[q], redis')
                   ELSE possible[q]]
               /\ certain' = [q \in Slots |-> IF pc[q] = "match"
                   THEN certain[q] \cap Matching(q, payload[q], redis')
                   ELSE certain[q]]
      <4>1. \A q \in Slots : possible'[q] \in SUBSET Nat /\ certain'[q] \in SUBSET Nat
        BY <3>1, <3>3
      <4> QED BY <3>3, <4>1
    <3> QED BY <1>7, <3>2, <3>3 DEF RedisDo
  <2> QED BY <1>7, <2>1 DEF RedisDo
<1>8. ASSUME NEW r \in Slots, ReplyGRPC(r) \/ WriteGRPC(r) PROVE Types'
  <2>1. CASE ReplyGRPC(r)
    BY <2>1 DEF ReplyGRPC, GoTo
  <2>2. CASE WriteGRPC(r)
    BY <2>2 DEF WriteGRPC, GoTo, Done
  <2> QED BY <1>8, <2>1, <2>2
<1>9. CASE UNCHANGED vars
  BY <1>9 DEF vars
<1> QED BY <1>1, <1>2, <1>3, <1>4, <1>5, <1>6, <1>7, <1>8, <1>9 DEF Next, Handler

-----------------------------------------------------------------------------

LEMMA InitChosen == Init => \A r \in Slots : Chosen(r)
BY MatchingIsFinite DEF Init, Chosen

\* A handler's choice stands while nothing of its own changes.
LEMMA ChosenStays ==
    ASSUME NEW q \in Slots, Chosen(q), redis' = redis, payload'[q] = payload[q],
           pc'[q] = pc[q], mock'[q] = mock[q], possible'[q] = possible[q],
           certain'[q] = certain[q]
    PROVE  Chosen(q)'
BY DEF Chosen, Matching

\* A handler that begins to look observes what matches.
LEMMA ChosenBegins ==
    ASSUME NEW r \in Slots, NEW p, Types, Types', Observe(r, p), redis' = redis,
           payload'[r] = p, mock'[r] = 1, pc'[r] = "match"
    PROVE  Chosen(r)'
<1>1. possible'[r] = Matching(r, p, redis) /\ certain'[r] = Matching(r, p, redis)
  BY DEF Observe, Types
<1>2. Matching(r, payload[r], redis)' = Matching(r, p, redis)
  BY DEF Matching
<1> QED BY <1>1, <1>2, MatchingIsFinite DEF Chosen

\* When it has chosen, it only performs and returns.
LEMMA ChosenGoesOn ==
    ASSUME NEW r \in Slots, Types, Types', Chosen(r),
           pc[r] \in {"act", "reply"}, pc'[r] \in {"act", "reply", "idle"},
           mock'[r] = mock[r], possible'[r] = possible[r], certain'[r] = certain[r]
    PROVE  Chosen(r)'
BY MatchingIsFinite DEF Chosen, Types

\* Every step keeps every handler's choice.
LEMMA ChosenInductive ==
    ASSUME Types, Types', \A r \in Slots : Chosen(r), [Next]_vars,
           NEW q \in Slots
    PROVE  Chosen(q)'
<1> USE DEF Types, shared, progress, history, bounds
<1>1. ASSUME NEW r \in Slots, NEW p \in Payloads \cup {Garbage}, Arrive(r, p)
      PROVE  Chosen(q)'
  <2>1. CASE q # r
    BY <1>1, <2>1, ChosenStays DEF Arrive, Observe, GoTo
  <2>2. CASE q = r /\ r \notin Grpc
    BY <1>1, <2>2, ChosenBegins DEF Arrive, GoTo
  <2>3. CASE q = r /\ r \in Grpc
    <3>1. pc'[r] = "unmarshal" /\ mock'[r] = 1 /\ certain' = certain
      BY <1>1, <2>3 DEF Arrive, GoTo
    <3> QED BY <2>3, <3>1 DEF Chosen
  <2> QED BY <2>1, <2>2, <2>3
<1>2. ASSUME NEW r \in Slots, Unmarshal(r) PROVE Chosen(q)'
  <2>1. CASE q # r
    BY <1>2, <2>1, ChosenStays DEF Unmarshal, GoTo
  <2>2. CASE q = r
    <3>1. /\ pc'[r] \in {"idle", "marshal"} /\ mock[r] = 1 /\ mock' = mock
          /\ certain' = certain
      BY <1>2 DEF Unmarshal, GoTo, Chosen
    <3>2. mock'[r] > Len(Behaviors[r]) => certain'[r] = {}
      BY <3>1, MatchingIsFinite DEF Chosen
    <3> QED BY <2>2, <3>1, <3>2 DEF Chosen
  <2> QED BY <2>1, <2>2
<1>3. ASSUME NEW r \in Slots, Marshal(r) PROVE Chosen(q)'
  <2>1. CASE q # r
    BY <1>3, <2>1, ChosenStays DEF Marshal, Observe, GoTo
  <2>2. CASE q = r
    <3>1. mock'[r] = 1
      BY <1>3 DEF Marshal, Chosen
    <3> QED BY <1>3, <2>2, <3>1, ChosenBegins DEF Marshal, GoTo
  <2> QED BY <2>1, <2>2
<1>4. ASSUME NEW r \in Slots, MatchCondition(r) PROVE Chosen(q)'
  <2>1. CASE q # r
    BY <1>4, <2>1, ChosenStays DEF MatchCondition, Finish, GoTo
  <2>2. CASE q = r
    <3> DEFINE m == mock[r]
               n == Len(Behaviors[r])
    <3>1. /\ m \in Nat \ {0} /\ n \in Nat
          /\ Matching(r, payload[r], redis) \subseteq possible[r]
          /\ certain[r] \subseteq Matching(r, payload[r], redis)
          /\ certain[r] \subseteq 1..n
          /\ \A k \in 1..(m - 1) : k \notin certain[r]
      BY <1>4, MatchingIsFinite DEF MatchCondition, Chosen
    <3>2. redis' = redis /\ payload' = payload /\ possible' = possible /\ certain' = certain
      BY <1>4 DEF MatchCondition
    <3>3. Matching(r, payload[r], redis)' = Matching(r, payload[r], redis)
      BY <3>2 DEF Matching
    <3>4. CASE m > n
      <4>1. pc'[r] = "idle" /\ mock' = mock
        BY <1>4, <3>1, <3>4 DEF MatchCondition, Finish, GoTo
      <4>2. certain[r] = {}
        BY <3>1, <3>4
      <4> QED BY <2>2, <3>1, <3>2, <4>1, <4>2 DEF Chosen
    <3>5. CASE m <= n /\ <<payload[r], redis>> \in Behaviors[r][m].cond
      <4>1. pc'[r] = "act" /\ mock' = mock
        BY <1>4, <3>1, <3>5 DEF MatchCondition, GoTo
      <4>2. m \in Matching(r, payload[r], redis)
        BY <3>1, <3>5 DEF Matching
      <4> QED BY <2>2, <3>1, <3>2, <3>5, <4>1, <4>2 DEF Chosen
    <3>6. CASE m <= n /\ <<payload[r], redis>> \notin Behaviors[r][m].cond
      <4>1. pc' = pc /\ pc[r] = "match" /\ mock'[r] = m + 1
        BY <1>4, <3>1, <3>6 DEF MatchCondition, GoTo
      <4>2. m \notin certain[r]
        BY <3>1, <3>6 DEF Matching
      <4>3. \A k \in 1..(mock'[r] - 1) : k \notin certain[r]
        BY <3>1, <4>1, <4>2
      <4> QED BY <2>2, <3>1, <3>2, <3>3, <4>1, <4>3 DEF Chosen
    <3> QED BY <3>1, <3>4, <3>5, <3>6
  <2> QED BY <2>1, <2>2
<1>5. ASSUME NEW r \in Slots, Return(r) \/ CallFails(r) PROVE Chosen(q)'
  <2>1. CASE q # r
    BY <1>5, <2>1, ChosenStays DEF Return, CallFails, Finish, GoTo
  <2>2. CASE q = r
    BY <1>5, <2>2, ChosenGoesOn DEF Return, CallFails, Performing, Finish, GoTo
  <2> QED BY <2>1, <2>2
<1>6. ASSUME NEW r \in Slots, Perform(r) \/ RedisFails(r) \/ ReplyHTTP(r)
      PROVE  Chosen(q)'
  BY <1>6, ChosenStays DEF Perform, RedisFails, ReplyHTTP
<1>7. ASSUME NEW r \in Slots, RedisDo(r) PROVE Chosen(q)'
  <2>1. pc' = pc /\ mock' = mock /\ payload' = payload
    BY <1>7 DEF RedisDo
  <2>2. CASE redis' = redis /\ possible' = possible /\ certain' = certain
    BY <2>1, <2>2, ChosenStays
  <2>3. CASE pc[q] # "match" /\ possible'[q] = possible[q] /\ certain'[q] = certain[q]
    BY <2>1, <2>3 DEF Chosen
  <2>4. CASE /\ pc[q] = "match"
             /\ possible'[q] = possible[q] \cup Matching(q, payload[q], redis')
             /\ certain'[q] = certain[q] \cap Matching(q, payload[q], redis')
    <3>1. Matching(q, payload[q], redis)' = Matching(q, payload[q], redis')
      BY <2>1 DEF Matching
    <3> QED BY <2>1, <2>4, <3>1 DEF Chosen
  <2> QED BY <1>7, <2>2, <2>3, <2>4 DEF RedisDo
<1>8. ASSUME NEW r \in Slots, ReplyGRPC(r) \/ WriteGRPC(r) PROVE Chosen(q)'
  <2>1. CASE q # r
    BY <1>8, <2>1, ChosenStays DEF ReplyGRPC, WriteGRPC, GoTo
  <2>2. CASE q = r
    BY <1>8, <2>2, ChosenGoesOn DEF ReplyGRPC, WriteGRPC, Performing, GoTo
  <2> QED BY <2>1, <2>2
<1>9. CASE UNCHANGED vars
  BY <1>9, ChosenStays DEF vars
<1> QED BY <1>1, <1>2, <1>3, <1>4, <1>5, <1>6, <1>7, <1>8, <1>9 DEF Next, Handler

\* The mock that answers has matched at some time, and none ahead of it all
\* the time, however many requests change Redis meanwhile
\* (MocksArray.DoActions).
THEOREM FirstMatch == Spec => []AnsweredByAMatch
<1>1. Init => Types /\ \A r \in Slots : Chosen(r)
  BY InitTypes, InitChosen
<1>2. /\ Types /\ (\A r \in Slots : Chosen(r))
      /\ [Next]_vars
      => (Types /\ \A r \in Slots : Chosen(r))'
  BY TypesInductive, ChosenInductive
<1>3. (\A r \in Slots : Chosen(r)) => AnsweredByAMatch
  BY DEF Chosen, AnsweredByAMatch
<1> QED BY <1>1, <1>2, <1>3, PTL DEF Spec

-----------------------------------------------------------------------------

LEMMA InitOwn == Init => \A r \in Slots : Own(r)
BY DEF Init, Own

\* Whoever is not on the gRPC method meets nobody, and the one that is meets
\* nobody either.
LEMMA OwnStays ==
    ASSUME NEW q \in Slots, Own(q), payload'[q] = payload[q], pc'[q] = pc[q],
           body'[q] = body[q], answer'[q] = answer[q],
           q \in Grpc => UNCHANGED <<request, response>>
    PROVE  Own(q)'
BY DEF Own

\* Every step keeps what is in each handler's hands.
LEMMA OwnInductive ==
    ASSUME OneAtATime, Types, \A r \in Slots : Own(r), [Next]_vars,
           NEW q \in Slots
    PROVE  Own(q)'
<1> USE DEF Types, shared, progress, history, bounds
<1>1. ASSUME NEW r \in Slots, NEW p \in Payloads \cup {Garbage}, Arrive(r, p)
      PROVE  Own(q)'
  <2>1. CASE q # r
    BY <1>1, <2>1, OwnStays DEF Arrive, GoTo
  <2>2. CASE q = r
    <3>1. /\ body'[r] = p /\ answer'[r] = None
          /\ pc'[r] = IF r \in Grpc THEN "unmarshal" ELSE "match"
          /\ payload'[r] = IF r \in Grpc THEN None ELSE p
          /\ p = Garbage => r \in Grpc
      BY <1>1 DEF Arrive, GoTo
    <3> QED BY <2>2, <3>1 DEF Own
  <2> QED BY <2>1, <2>2
<1>2. ASSUME NEW r \in Slots, Unmarshal(r) PROVE Own(q)'
  <2>1. r \in Grpc
    BY <1>2 DEF Unmarshal, Own
  <2>2. CASE q # r
    BY <1>2, <2>1, <2>2, OwnStays DEF Unmarshal, GoTo, OneAtATime
  <2>3. CASE q = r
    <3>1. CASE body[r] = Garbage
      BY <1>2, <2>1, <2>3, <3>1 DEF Unmarshal, GoTo, Own
    <3>2. CASE body[r] # Garbage
      BY <1>2, <2>1, <2>3, <3>2 DEF Unmarshal, GoTo, Own
    <3> QED BY <3>1, <3>2
  <2> QED BY <2>2, <2>3
<1>3. ASSUME NEW r \in Slots, Marshal(r) PROVE Own(q)'
  <2>1. CASE q # r
    BY <1>3, <2>1, OwnStays DEF Marshal, GoTo
  <2>2. CASE q = r
    BY <1>3, <2>2 DEF Marshal, GoTo, Own
  <2> QED BY <2>1, <2>2
<1>4. ASSUME NEW r \in Slots, MatchCondition(r) \/ Return(r) \/ CallFails(r)
      PROVE  Own(q)'
  <2>1. /\ pc[r] \in {"match", "act"} /\ UNCHANGED <<body, payload, request, response>>
        /\ \/ pc'[r] = "idle" /\ answer'[r] \in {answer[r], "empty"}
           \/ pc'[r] \in {"match", "act"} /\ answer' = answer
        /\ \A s \in Slots \ {r} : pc'[s] = pc[s] /\ answer'[s] = answer[s]
    BY <1>4 DEF MatchCondition, Return, CallFails, Performing, Finish, GoTo
  <2>2. CASE q # r
    BY <2>1, <2>2, OwnStays
  <2>3. CASE q = r
    BY <2>1, <2>3 DEF Own
  <2> QED BY <2>2, <2>3
<1>5. ASSUME NEW r \in Slots, Perform(r) \/ RedisDo(r) \/ RedisFails(r)
      PROVE  Own(q)'
  BY <1>5, OwnStays DEF Perform, RedisDo, RedisFails
<1>6. ASSUME NEW r \in Slots, ReplyHTTP(r) PROVE Own(q)'
  <2>1. CASE q # r
    BY <1>6, <2>1, OwnStays DEF ReplyHTTP
  <2>2. CASE q = r
    BY <1>6, <2>2 DEF ReplyHTTP, Performing, Own
  <2> QED BY <2>1, <2>2
<1>7. ASSUME NEW r \in Slots, ReplyGRPC(r) PROVE Own(q)'
  <2>1. CASE q # r
    BY <1>7, <2>1, OwnStays DEF ReplyGRPC, GoTo, OneAtATime
  <2>2. CASE q = r
    BY <1>7, <2>2 DEF ReplyGRPC, Performing, GoTo, Own
  <2> QED BY <2>1, <2>2
<1>8. ASSUME NEW r \in Slots, WriteGRPC(r) PROVE Own(q)'
  <2>1. CASE q # r
    BY <1>8, <2>1, OwnStays DEF WriteGRPC, GoTo
  <2>2. CASE q = r
    BY <1>8, <2>2 DEF WriteGRPC, GoTo, Own
  <2> QED BY <2>1, <2>2
<1>9. CASE UNCHANGED vars
  BY <1>9, OwnStays DEF vars
<1> QED BY <1>1, <1>2, <1>3, <1>4, <1>5, <1>6, <1>7, <1>8, <1>9 DEF Next, Handler

\* Every client gets an answer made from its own payload, if no two requests
\* call the same gRPC method at a time, and however many use HTTP (http.go,
\* grpc.go).
THEOREM OwnAnswers ==
    ASSUME OneAtATime
    PROVE  Spec => []OwnAnswer
<1>1. Init => Types /\ \A r \in Slots : Own(r)
  BY InitTypes, InitOwn
<1>2. /\ Types /\ (\A r \in Slots : Own(r))
      /\ [Next]_vars
      => (Types /\ \A r \in Slots : Own(r))'
  BY TypesInductive, OwnInductive
<1>3. (\A r \in Slots : Own(r)) => OwnAnswer
  BY DEF Own, OwnAnswer
<1> QED BY <1>1, <1>2, <1>3, PTL DEF Spec

-----------------------------------------------------------------------------

\* What a handler has performed so far, of the actions of its mock.
Counters ==
    /\ redis \in Values
    /\ action \in [Slots -> Nat \ {0}] /\ cmd \in [Slots -> Nat \ {0}]
    /\ performed \in [Slots -> Seq(Nat)]
    /\ requests \in 0..MaxRequests /\ faults \in 0..MaxFaults

Performs(r) ==
    /\ pc[r] # "idle" => body[r] \in Payloads \cup {Garbage}
    /\ mock[r] <= Len(Behaviors[r]) + 1
    /\ pc[r] \in {"unmarshal", "marshal", "match"} =>
        action[r] = 1 /\ performed[r] = <<>>
    /\ pc[r] \in {"act", "reply"} =>
        /\ mock[r] <= Len(Behaviors[r])
        /\ action[r] <= Len(Actions(r)) + 1
        /\ performed[r] = [j \in 1..action[r] - 1 |-> j]
    /\ pc[r] = "reply" => action[r] <= Len(Actions(r))

\* The actions of a mock that a handler has chosen.
LEMMA CurrentIsAction ==
    ASSUME Types, NEW r \in Slots, mock[r] <= Len(Behaviors[r])
    PROVE  /\ Actions(r) \in Seq(Action) /\ Len(Actions(r)) \in Nat
           /\ \A j \in Nat \ {0} : j <= Len(Actions(r)) =>
                Actions(r)[j] \in Action
<1>1. Behaviors[r][mock[r]] \in Mock
  BY MatchingIsFinite DEF Types
<1>2. Actions(r) \in Seq(Action)
  BY <1>1 DEF Actions, Mock
<1> QED BY <1>2

\* Another action is performed.
LEMMA OneMore ==
    ASSUME NEW n \in Nat \ {0}
    PROVE  Append([j \in 1..n - 1 |-> j], n) = [j \in 1..(n + 1) - 1 |-> j]
<1> DEFINE s == [j \in 1..n - 1 |-> j]
<1>1. s \in Seq(Nat) /\ Len(s) = n - 1
  OBVIOUS
<1>2. Append(s, n) \in Seq(Nat) /\ Len(Append(s, n)) = n
  BY <1>1
<1>3. \A j \in 1..n : Append(s, n)[j] = j
  BY <1>1
<1> QED BY <1>2, <1>3

LEMMA InitPerforms == Init => Counters /\ \A r \in Slots : Performs(r)
<1> SUFFICES ASSUME Init PROVE Counters /\ \A r \in Slots : Performs(r)
  OBVIOUS
<1>1. Counters
  BY DEF Init, Counters
<1>2. \A r \in Slots : Performs(r)
  BY MatchingIsFinite DEF Init, Performs
<1> QED BY <1>1, <1>2

\* Commands are run of a list of values.
LEMMA CountersInductive ==
    ASSUME Types, Counters, \A r \in Slots : Performs(r), [Next]_vars
    PROVE  Counters'
<1> USE DEF Counters, shared, progress, history, bounds
<1>1. ASSUME NEW r \in Slots, NEW p \in Payloads \cup {Garbage}, Arrive(r, p)
      PROVE  Counters'
  BY <1>1 DEF Arrive
<1>2. ASSUME NEW r \in Slots, Unmarshal(r) \/ Marshal(r) PROVE Counters'
  BY <1>2 DEF Unmarshal, Marshal
<1>3. ASSUME NEW r \in Slots, MatchCondition(r) \/ Return(r) \/ ReplyGRPC(r)
      PROVE  Counters'
  BY <1>3 DEF MatchCondition, Return, ReplyGRPC
<1>4. ASSUME NEW r \in Slots, CallFails(r) \/ RedisFails(r) PROVE Counters'
  <2>1. faults' \in 0..MaxFaults
    BY <1>4 DEF CallFails, RedisFails
  <2>2. CASE CallFails(r)
    BY <2>1, <2>2 DEF CallFails
  <2>3. CASE RedisFails(r)
    BY <2>1, <2>3 DEF RedisFails
  <2> QED BY <1>4, <2>2, <2>3
<1>5. ASSUME NEW r \in Slots, Perform(r) \/ ReplyHTTP(r) \/ WriteGRPC(r)
      PROVE  Counters'
  <2>1. Done(r) /\ UNCHANGED <<redis, requests, faults>>
    BY <1>5 DEF Perform, ReplyHTTP, WriteGRPC
  <2> QED BY <2>1 DEF Done
<1>6. ASSUME NEW r \in Slots, RedisDo(r) PROVE Counters'
  <2>1. CASE Done(r) /\ UNCHANGED <<redis, requests, faults>>
    BY <2>1 DEF Done
  <2>2. CASE /\ ~ Commanded(r)
             /\ redis' = Current(r).cmds[cmd[r]]
             /\ cmd' = [cmd EXCEPT ![r] = @ + 1]
             /\ UNCHANGED <<performed, action, requests, faults>>
    <3>1. pc[r] = "act" /\ action[r] <= Len(Actions(r)) /\ mock[r] <= Len(Behaviors[r])
      BY <1>6 DEF RedisDo, Performing, Performs
    <3>2. Current(r) \in Action
      BY <3>1, CurrentIsAction DEF Current
    <3>3. Current(r).cmds \in Seq(Values)
      BY <3>2 DEF Action
    <3>4. cmd[r] \in 1..Len(Current(r).cmds)
      BY <2>2, <3>3 DEF Commanded
    <3>5. Current(r).cmds[cmd[r]] \in Values
      BY <3>3, <3>4
    <3> QED BY <2>2, <3>5
  <2> QED BY <1>6, <2>1, <2>2 DEF RedisDo
<1>7. CASE UNCHANGED vars
  BY <1>7 DEF vars
<1> QED BY <1>1, <1>2, <1>3, <1>4, <1>5, <1>6, <1>7 DEF Next, Handler

\* What a handler has performed stands while nothing of its own changes, and
\* when it returns.
LEMMA PerformsStays ==
    ASSUME NEW q \in Slots, Performs(q), pc'[q] \in {pc[q], "idle"},
           body'[q] = body[q], mock'[q] = mock[q], action'[q] = action[q],
           performed'[q] = performed[q]
    PROVE  Performs(q)'
BY DEF Performs, Actions

\* When it is done with an action.
LEMMA PerformsMore ==
    ASSUME NEW r \in Slots, Types, Counters, Performs(r), Done(r),
           pc[r] \in {"act", "reply"}, action[r] <= Len(Actions(r)),
           pc'[r] = "act", body' = body, mock' = mock
    PROVE  Performs(r)'
<1>1. action'[r] = action[r] + 1 /\ performed'[r] = Append(performed[r], action[r])
  BY DEF Done, Counters
<1>2. performed'[r] = [j \in 1..action'[r] - 1 |-> j]
  BY <1>1, OneMore DEF Performs, Counters
<1>3. Actions(r)' = Actions(r) /\ Len(Actions(r)) \in Nat
  BY CurrentIsAction DEF Actions, Performs
<1>4. action'[r] <= Len(Actions(r)) + 1
  BY <1>1, <1>3 DEF Counters
<1> QED BY <1>2, <1>3, <1>4 DEF Performs

\* Every step keeps what each handler has performed.
LEMMA PerformsInductive ==
    ASSUME Types, Counters, \A r \in Slots : Performs(r), [Next]_vars,
           NEW q \in Slots
    PROVE  Performs(q)'
<1> USE DEF Types, shared, progress, history, bounds
<1>1. ASSUME NEW r \in Slots, NEW p \in Payloads \cup {Garbage}, Arrive(r, p)
      PROVE  Performs(q)'
  <2>1. CASE q # r
    BY <1>1, <2>1, PerformsStays DEF Arrive, GoTo, Counters
  <2>2. CASE q = r
    <3>1. /\ pc'[r] \in {"unmarshal", "match"} /\ body'[r] = p /\ mock'[r] = 1
          /\ action'[r] = 1 /\ performed'[r] = <<>>
      BY <1>1 DEF Arrive, GoTo, Counters
    <3> QED BY <1>1, <2>2, <3>1, MatchingIsFinite DEF Performs
  <2> QED BY <2>1, <2>2
<1>2. ASSUME NEW r \in Slots, Unmarshal(r) \/ Marshal(r) PROVE Performs(q)'
  <2>1. /\ UNCHANGED <<body, mock, action, performed>>
        /\ \A s \in Slots \ {r} : pc'[s] = pc[s]
        /\ pc[r] \in {"unmarshal", "marshal"} /\ pc'[r] \in {"idle", "marshal", "match"}
    BY <1>2 DEF Unmarshal, Marshal, GoTo
  <2>2. CASE q # r
    BY <2>1, <2>2, PerformsStays
  <2>3. CASE q = r
    BY <2>1, <2>3 DEF Performs
  <2> QED BY <2>2, <2>3
<1>3. ASSUME NEW r \in Slots, MatchCondition(r) PROVE Performs(q)'
  <2>1. CASE q # r
    BY <1>3, <2>1, PerformsStays DEF MatchCondition, Finish, GoTo
  <2>2. CASE q = r
    <3>1. /\ pc[r] = "match" /\ UNCHANGED <<body, action, performed>>
          /\ action[r] = 1 /\ performed[r] = <<>>
          /\ body[r] \in Payloads \cup {Garbage}
          /\ mock[r] \in Nat \ {0} /\ mock[r] <= Len(Behaviors[r]) + 1
          /\ Len(Behaviors[r]) \in Nat
      BY <1>3, MatchingIsFinite DEF MatchCondition, Performs
    <3>2. CASE pc'[r] = "idle" /\ mock' = mock
      BY <2>2, <3>1, <3>2 DEF Performs
    <3>3. CASE /\ pc'[r] = "act" /\ mock' = mock
               /\ mock[r] <= Len(Behaviors[r])
      <4>1. Len(Actions(r)) \in Nat /\ Actions(r)' = Actions(r)
        BY <3>3, CurrentIsAction DEF Actions
      <4>2. performed[r] = [j \in 1..action[r] - 1 |-> j]
        BY <3>1
      <4> QED BY <2>2, <3>1, <3>3, <4>1, <4>2 DEF Performs
    <3>4. CASE /\ pc'[r] = "match" /\ mock'[r] = mock[r] + 1
               /\ mock[r] <= Len(Behaviors[r])
      BY <2>2, <3>1, <3>4 DEF Performs
    <3> QED BY <1>3, <3>1, <3>2, <3>3, <3>4 DEF MatchCondition, Finish, GoTo
  <2> QED BY <2>1, <2>2
<1>4. ASSUME NEW r \in Slots, Return(r) \/ CallFails(r) PROVE Performs(q)'
  BY <1>4, PerformsStays DEF Return, CallFails, Finish, GoTo
<1>5. ASSUME NEW r \in Slots, Perform(r) \/ ReplyHTTP(r) PROVE Performs(q)'
  <2>1. Done(r) /\ Performing(r) /\ UNCHANGED <<pc, body, mock>>
    BY <1>5 DEF Perform, ReplyHTTP
  <2>2. CASE q # r
    BY <2>1, <2>2, PerformsStays DEF Done, Counters
  <2>3. CASE q = r
    BY <2>1, <2>3, PerformsMore DEF Performing
  <2> QED BY <2>2, <2>3
<1>6. ASSUME NEW r \in Slots, RedisDo(r) \/ RedisFails(r) PROVE Performs(q)'
  <2>1. /\ Performing(r) /\ UNCHANGED <<pc, body, mock>>
        /\ Done(r) \/ UNCHANGED <<performed, action>>
    BY <1>6 DEF RedisDo, RedisFails
  <2>2. CASE q # r \/ UNCHANGED <<performed, action>>
    BY <2>1, <2>2, PerformsStays DEF Done, Counters
  <2>3. CASE q = r /\ Done(r)
    BY <2>1, <2>3, PerformsMore DEF Performing
  <2> QED BY <2>1, <2>2, <2>3
<1>7. ASSUME NEW r \in Slots, ReplyGRPC(r) PROVE Performs(q)'
  <2>1. /\ Performing(r) /\ UNCHANGED <<body, mock, action, performed>>
        /\ pc'[r] = "reply" /\ \A s \in Slots \ {r} : pc'[s] = pc[s]
    BY <1>7 DEF ReplyGRPC, GoTo
  <2>2. CASE q # r
    BY <2>1, <2>2, PerformsStays
  <2>3. CASE q = r
    BY <2>1, <2>3 DEF Performs, Performing, Actions
  <2> QED BY <2>2, <2>3
<1>8. ASSUME NEW r \in Slots, WriteGRPC(r) PROVE Performs(q)'
  <2>1. /\ Done(r) /\ UNCHANGED <<body, mock>> /\ pc[r] = "reply" /\ pc'[r] = "act"
        /\ \A s \in Slots \ {r} : pc'[s] = pc[s]
    BY <1>8 DEF WriteGRPC, GoTo
  <2>2. CASE q # r
    BY <2>1, <2>2, PerformsStays DEF Done, Counters
  <2>3. CASE q = r
    BY <2>1, <2>3, PerformsMore DEF Performs
  <2> QED BY <2>2, <2>3
<1>9. CASE UNCHANGED vars
  BY <1>9, PerformsStays DEF vars
<1> QED BY <1>1, <1>2, <1>3, <1>4, <1>5, <1>6, <1>7, <1>8, <1>9 DEF Next, Handler

\* Handlers keep their types, have something to look for a mock with, and
\* perform the actions of the mock they have chosen one after another
\* (Mock.DoActions), if no two requests call a gRPC method at a time.
THEOREM TypeCorrect ==
    ASSUME OneAtATime
    PROVE  Spec => []TypeOK
<1> DEFINE Inv == /\ Types /\ Counters
                  /\ \A r \in Slots : Own(r) /\ Performs(r)
<1>1. Init => Inv
  BY InitTypes, InitOwn, InitPerforms
<1>2. Inv /\ [Next]_vars => Inv'
  BY TypesInductive, OwnInductive, CountersInductive, PerformsInductive
<1>3. Inv => TypeOK
  <2> SUFFICES ASSUME Inv PROVE TypeOK
    OBVIOUS
  <2>1. ASSUME NEW r \in Slots
        PROVE  /\ pc[r] \in {"match", "act", "reply"} => payload[r] # None
               /\ mock[r] \in 1..Len(Behaviors[r]) +
                    (IF pc[r] \in {"act", "reply"} THEN 0 ELSE 1)
               /\ pc[r] = "act" => action[r] \in 1..Len(Actions(r)) + 1
               /\ pc[r] = "act" => performed[r] = [j \in 1..action[r] - 1 |-> j]
    <3>1. Own(r) /\ Performs(r) /\ Len(Behaviors[r]) \in Nat
          /\ mock[r] \in Nat \ {0} /\ action[r] \in Nat \ {0}
      BY <2>1, MatchingIsFinite DEF Types, Counters
    <3>2. pc[r] \in {"match", "act", "reply"} => payload[r] # None
      BY <3>1 DEF Own, Performs
    <3>3. pc[r] = "act" => Len(Actions(r)) \in Nat
      BY <3>1, CurrentIsAction DEF Performs
    <3> QED BY <3>1, <3>2, <3>3 DEF Performs
  <2> QED BY <2>1 DEF TypeOK, Types, Counters, Steps
<1> QED BY <1>1, <1>2, <1>3, PTL DEF Spec

-----------------------------------------------------------------------------

\* What can be told of a request over HTTP whose mock is performed: that its
\* condition passes in the evaluator, if it ignores Redis, and that what has
\* been performed has rendered, with what Redis held then.  Requests over HTTP
\* meet nobody's messages.
Told(r) ==
    /\ pc[r] \in {"idle", "match", "act"}
    /\ pc[r] # "idle" => payload[r] \in Payloads
    /\ pc[r] = "act" =>
        /\ Stateless(Behaviors[r][mock[r]]) =>
            ConditionPassed(Behaviors[r][mock[r]], payload[r])
        /\ \A j \in 1..action[r] - 1 :
            \E v \in Values : <<payload[r], v>> \in Actions(r)[j].renders

LEMMA InitTold == Init => \A r \in Slots : Told(r)
BY DEF Init, Told

\* It stands while nothing of the handler's own changes, and when it returns.
LEMMA ToldStays ==
    ASSUME NEW q \in Slots, Told(q), pc'[q] \in {pc[q], "idle"},
           payload'[q] = payload[q], mock'[q] = mock[q], action'[q] = action[q]
    PROVE  Told(q)'
BY DEF Told, Actions

\* When an action that renders is done.
LEMMA ToldMore ==
    ASSUME NEW r \in Slots, Types, Counters, Told(r), Done(r), pc[r] = "act",
           Renders(r), pc' = pc, mock' = mock, payload' = payload
    PROVE  Told(r)'
<1>1. action'[r] = action[r] + 1 /\ action[r] \in Nat \ {0}
  BY DEF Done, Counters
<1>2. Actions(r)' = Actions(r)
  BY DEF Actions
<1>3. \A j \in 1..action'[r] - 1 :
        \E v \in Values : <<payload[r], v>> \in Actions(r)[j].renders
  <2> TAKE j \in 1..action'[r] - 1
  <2>1. CASE j = action[r]
    <3>1. redis \in Values /\ <<payload[r], redis>> \in Actions(r)[j].renders
      BY <2>1 DEF Counters, Renders, Current
    <3> QED BY <3>1
  <2>2. CASE j \in 1..action[r] - 1
    BY <2>2 DEF Told
  <2> QED BY <1>1, <2>1, <2>2
<1> QED BY <1>2, <1>3 DEF Told

\* Every step keeps it.
LEMMA ToldInductive ==
    ASSUME Types, Counters, \A r \in Slots : Performs(r),
           \A r \in Slots \ Grpc : Told(r), [Next]_vars,
           NEW q \in Slots \ Grpc
    PROVE  Told(q)'
<1> USE DEF Types, shared, progress, history, bounds
<1>1. ASSUME NEW r \in Slots, NEW p \in Payloads \cup {Garbage}, Arrive(r, p)
      PROVE  Told(q)'
  <2>1. CASE q # r
    BY <1>1, <2>1, ToldStays DEF Arrive, GoTo, Counters
  <2>2. CASE q = r
    <3>1. /\ p # Garbage /\ pc'[r] = "match" /\ payload'[r] = p
      BY <1>1, <2>2 DEF Arrive, GoTo
    <3> QED BY <2>2, <3>1 DEF Told
  <2> QED BY <2>1, <2>2
<1>2. ASSUME NEW r \in Slots,
             Unmarshal(r) \/ Marshal(r) \/ ReplyGRPC(r) \/ WriteGRPC(r)
      PROVE  Told(q)'
  <2>1. pc[r] \in {"unmarshal", "marshal", "reply"} \/ r \in Grpc
    BY <1>2 DEF Unmarshal, Marshal, ReplyGRPC, WriteGRPC
  <2>2. q # r
    BY <2>1 DEF Told
  <2>3. /\ pc'[q] = pc[q] /\ payload'[q] = payload[q]
        /\ mock' = mock /\ action'[q] = action[q]
    BY <1>2, <2>2 DEF Unmarshal, Marshal, ReplyGRPC, WriteGRPC, GoTo, Done, Counters
  <2> QED BY <2>3, ToldStays
<1>3. ASSUME NEW r \in Slots, MatchCondition(r) PROVE Told(q)'
  <2>1. CASE q # r
    BY <1>3, <2>1, ToldStays DEF MatchCondition, Finish, GoTo
  <2>2. CASE q = r
    <3>1. /\ pc[r] = "match" /\ payload[r] \in Payloads
          /\ payload' = payload /\ action' = action
      BY <1>3, <2>2 DEF MatchCondition, Told
    <3>2. CASE pc'[r] \in {"idle", "match"}
      BY <2>2, <3>1, <3>2 DEF Told
    <3>3. CASE /\ pc'[r] = "act" /\ mock' = mock
               /\ <<payload[r], redis>> \in Behaviors[r][mock[r]].cond
      <4>1. Stateless(Behaviors[r][mock[r]]) =>
              ConditionPassed(Behaviors[r][mock[r]], payload[r])
        BY <3>1, <3>3 DEF Stateless, IgnoresRedis, ConditionPassed, Counters
      <4>2. action'[r] = 1
        BY <3>1 DEF Performs
      <4>3. 1..action'[r] - 1 = {}
        BY <4>2
      <4> QED BY <2>2, <3>1, <3>3, <4>1, <4>3 DEF Told
    <3> QED BY <1>3, <3>1, <3>2, <3>3 DEF MatchCondition, Finish, GoTo
  <2> QED BY <2>1, <2>2
<1>4. ASSUME NEW r \in Slots, Return(r) \/ CallFails(r) \/ RedisFails(r)
      PROVE  Told(q)'
  BY <1>4, ToldStays DEF Return, CallFails, RedisFails, Finish, GoTo
<1>5. ASSUME NEW r \in Slots, Perform(r) \/ ReplyHTTP(r) \/ RedisDo(r)
      PROVE  Told(q)'
  <2>1. /\ Performing(r) /\ UNCHANGED <<pc, payload, mock>>
        /\ (Done(r) /\ Renders(r)) \/ action' = action
    BY <1>5 DEF Perform, ReplyHTTP, RedisDo
  <2>2. CASE q # r \/ action' = action
    BY <2>1, <2>2, ToldStays DEF Done, Counters
  <2>3. CASE q = r /\ Done(r) /\ Renders(r)
    BY <2>1, <2>3, ToldMore DEF Performing
  <2> QED BY <2>1, <2>2, <2>3
<1>6. CASE UNCHANGED vars
  BY <1>6, ToldStays DEF vars
<1> QED BY <1>1, <1>2, <1>3, <1>4, <1>5, <1>6 DEF Next, Handler

\* What the evaluator lists of a mock begins with what it looks at of the
\* first n actions.
LEMMA ListedSoFar ==
    ASSUME NEW m \in Mock, NEW n \in 0..Len(m.actions)
    PROVE  LET seen == Sublist([j \in 1..n |-> j], ShownOf(m))
           IN  /\ Len(seen) <= Len(ActionsPerformed(m))
               /\ seen = SubSeq(ActionsPerformed(m), 1, Len(seen))
               /\ n = Len(m.actions) => seen = ActionsPerformed(m)
<1> DEFINE all == Len(m.actions)
           S == ShownOf(m)
           s == [j \in 1..n |-> j]
           t == [j \in 1..all |-> j]
<1>1. all \in Nat
  BY DEF Mock
<1>2. s \in Seq(Nat) /\ Len(s) = n /\ t \in Seq(Nat) /\ Len(t) = all
  BY <1>1
<1>3. \A i \in 1..n : s[i] = i /\ t[i] = i
  BY <1>1
<1>4. /\ Sublist(s, S) = Sublists(s, S)[Len(s)]
      /\ ActionsPerformed(m) = Sublists(t, S)[Len(t)]
  BY DEF Sublist, ActionsPerformed
<1> HIDE DEF s, t, S, all
<1>5. n \in 0..Len(s) /\ n <= Len(t) /\ n \in 0..Len(t) /\ Len(t) \in n..Len(t)
  BY <1>1, <1>2 DEF all
<1>6. Sublists(s, S)[n] = Sublists(t, S)[n]
  <2>1. \A i \in 1..n : s[i] = t[i] /\ (s[i] \in S <=> t[i] \in S)
    BY <1>3
  <2> QED BY ONLY SMTT(30), <1>2, <1>5, <2>1, SublistsAgree
<1>7. /\ Len(Sublists(t, S)[n]) <= Len(Sublists(t, S)[Len(t)])
      /\ Sublists(t, S)[n] =
           SubSeq(Sublists(t, S)[Len(t)], 1, Len(Sublists(t, S)[n]))
  BY <1>2, <1>5, SublistsGrow
<1> QED BY <1>2, <1>4, <1>6, <1>7 DEF s, S, all

\* What /evaluate answers about a mock whose condition ignores Redis is true,
\* whatever requests do to Redis at the same time: over HTTP the mock runs only
\* if it is said to, and performs what is listed, in that order; and there is
\* an answer about every mock whose replies and publications ignore Redis and
\* whose actions can all be performed (actionsPerformed, Mock.DoActions).
THEOREM Agrees == Spec => []EvaluatorAgrees
<1> DEFINE Inv == /\ Types /\ Counters
                  /\ \A r \in Slots : Performs(r)
                  /\ \A r \in Slots \ Grpc : Told(r)
<1>1. Init => Inv
  BY InitTypes, InitPerforms, InitTold
<1>2. Inv /\ [Next]_vars => Inv'
  BY TypesInductive, CountersInductive, PerformsInductive, ToldInductive
<1>3. Inv => EvaluatorAgrees
  <2> SUFFICES ASSUME Inv, NEW r \in Slots \ Grpc, pc[r] = "act",
                      Stateless(Behaviors[r][mock[r]])
               PROVE  /\ Said(r).code = 200 =>
                          /\ Said(r).condition
                          /\ Len(Seen(r)) <= Len(Said(r).actions)
                          /\ Seen(r) = SubSeq(Said(r).actions, 1, Len(Seen(r)))
                          /\ PerformedAll(r) => Seen(r) = Said(r).actions
                      /\ PerformedAll(r) /\ PlainBodies(Behaviors[r][mock[r]]) =>
                          Said(r).code = 200
    BY DEF EvaluatorAgrees
  <2> DEFINE m == Behaviors[r][mock[r]]
             n == action[r] - 1
             p == payload[r]
  <2>1. Performs(r) /\ Told(r) /\ mock[r] \in Nat \ {0} /\ action[r] \in Nat \ {0}
    BY DEF Types, Counters
  <2>2. mock[r] <= Len(Behaviors[r]) /\ action[r] <= Len(m.actions) + 1
        /\ performed[r] = [j \in 1..n |-> j]
    BY <2>1 DEF Performs, Actions
  <2>3. m \in Mock /\ Len(m.actions) \in Nat
    BY <2>1, <2>2, MatchingIsFinite, CurrentIsAction DEF Actions
  <2>4. /\ n \in 0..Len(m.actions) /\ Len(performed[r]) = n
        /\ PerformedAll(r) <=> n = Len(m.actions)
    BY <2>1, <2>2, <2>3 DEF PerformedAll, Actions
  <2>5. ConditionPassed(m, p) /\ p \in Payloads
    BY <2>1 DEF Told
  <2>6. Said(r).code = 200 =>
            Said(r).condition /\ Said(r).actions = ActionsPerformed(m)
    <3>1. CASE ActionFails(m, p)
      BY <2>5, <3>1 DEF Said, Evaluate
    <3>2. CASE ~ ActionFails(m, p)
      <4>1. Said(r) = [code |-> 200, condition |-> TRUE, actions |-> ActionsPerformed(m)]
        BY <2>5, <3>2 DEF Said, Evaluate
      <4> QED BY <4>1
    <3> QED BY <3>1, <3>2
  <2>7. Seen(r) = Sublist([j \in 1..n |-> j], ShownOf(m))
    BY <2>2 DEF Seen
  <2>8. /\ Len(Seen(r)) <= Len(ActionsPerformed(m))
        /\ Seen(r) = SubSeq(ActionsPerformed(m), 1, Len(Seen(r)))
        /\ n = Len(m.actions) => Seen(r) = ActionsPerformed(m)
    <3> HIDE DEF m, n
    <3> QED BY <2>3, <2>4, <2>7, ListedSoFar
  <2>9. ASSUME PerformedAll(r), PlainBodies(m)
        PROVE  Said(r).code = 200
    <3>1. ASSUME NEW j \in ShownOf(m)
          PROVE  <<p, Nil>> \in m.actions[j].renders
      <4>1. j \in 1..n
        BY <2>4, <2>9 DEF ShownOf
      <4>2. PICK v \in Values : <<p, v>> \in m.actions[j].renders
        BY <2>1, <4>1 DEF Told, Actions
      <4> QED BY <2>5, <2>9, <4>2 DEF PlainBodies, IgnoresRedis
    <3>2. ~ ActionFails(m, p)
      BY <3>1 DEF ActionFails
    <3> QED BY <3>2 DEF Said, Evaluate
  <2> HIDE DEF m, n
  <2> QED BY <2>4, <2>6, <2>8, <2>9 DEF m
<1> QED BY <1>1, <1>2, <1>3, PTL DEF Spec
=============================================================================
