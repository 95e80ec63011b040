------------------------------- MODULE Dispatch -------------------------------
(***************************************************************************)
(* How requests are answered: the HTTP and gRPC handlers (http.go,         *)
(* grpc.go), the choice of a mock and its actions (handle_actions.go,      *)
(* template.go), and what /evaluate says that a mock would do              *)
(* (pkg/evaluator).                                                        *)
(*                                                                         *)
(* Requests run concurrently, one goroutine each.  They meet in Redis,     *)
(* which conditions read and actions write, one command at a time; and     *)
(* those of one gRPC method meet in a single request message and a single  *)
(* response message, the ones in GRPCServiceMap.                           *)
(***************************************************************************)
EXTENDS Integers, Sequences, FiniteSets, Lists

CONSTANTS
    Slots,       \* connections, each with one request at a time
    Grpc,        \* those that call the gRPC method; the others use HTTP
    Behaviors,   \* [Slots -> Seq(Mock)]: the mocks of the slot's route
    Payloads,    \* what a request says
    Garbage,     \* a gRPC body that does not decode
    Values,      \* what the Redis key that the mocks use may hold
    Nil,         \* no value: what redisDo returns to the evaluator's templates
    None,
    Start,       \* the key's value at the start
    MaxRequests, \* bound
    MaxFaults    \* bound: calls to other systems that fail

Kinds == {"redis", "reply", "publish_kafka", "publish_amqp", "send_http", "sleep"}

\* What templates see: a payload, and what redisDo gives them of the key.
Views == Payloads \X (Values \cup {Nil})

\* renders: where every template of the action renders; cmds: the values that
\* a redis action's commands set, up to one that does not render.
Action == [kind : Kinds, renders : SUBSET Views, cmds : Seq(Values)]

\* cond: where the condition renders to "true".
Mock == [cond : SUBSET Views, actions : Seq(Action)]

ASSUME DispatchAssumption ==
    /\ Grpc \subseteq Slots
    /\ DOMAIN Behaviors = Slots
    /\ \A r \in Slots : \A m \in 1..Len(Behaviors[r]) : Behaviors[r][m] \in Mock
    /\ Garbage \notin Payloads /\ None \notin Payloads
    /\ Nil \notin Values /\ Start \in Values
    /\ MaxRequests \in Nat /\ MaxFaults \in Nat

VARIABLES
    redis,      \* the value of the key
    request,    \* the method's request message, shared
    response,   \* the method's response message, shared
    pc,         \* the step of each slot's handler
    body,       \* what its client sent
    payload,    \* Context.HTTPBody or Context.GRPCPayload
    mock,       \* the mock it tries, or has chosen
    action,     \* the action it performs next
    cmd,        \* the redis command it runs next
    performed,  \* the actions it has performed, by their place
    answer,     \* what its client got: whose payload, "empty" or "error"
    possible,   \* history: mocks that have matched at some time since Arrive
    certain,    \* history: mocks that have matched all the time
    requests, faults

shared == <<redis, request, response>>
progress == <<mock, action, cmd, performed>>
history == <<possible, certain>>
bounds == <<requests, faults>>
vars == <<redis, request, response, pc, body, payload, mock, action, cmd,
          performed, answer, possible, certain, requests, faults>>

Init ==
    /\ redis = Start
    /\ request = None /\ response = None
    /\ pc = [r \in Slots |-> "idle"]
    /\ body = [r \in Slots |-> None]
    /\ payload = [r \in Slots |-> None]
    /\ mock = [r \in Slots |-> 1]
    /\ action = [r \in Slots |-> 1]
    /\ cmd = [r \in Slots |-> 1]
    /\ performed = [r \in Slots |-> <<>>]
    /\ answer = [r \in Slots |-> None]
    /\ possible = [r \in Slots |-> {}]
    /\ certain = [r \in Slots |-> {}]
    /\ requests = 0
    /\ faults = 0

GoTo(r, step) == pc' = [pc EXCEPT ![r] = step]

\* The mocks of slot r's route that match payload p while Redis holds v.
Matching(r, p, v) == {m \in 1..Len(Behaviors[r]) : <<p, v>> \in Behaviors[r][m].cond}

(***************************************************************************)
(* The handlers.                                                           *)
(***************************************************************************)

Observe(r, p) ==
    /\ possible' = [possible EXCEPT ![r] = Matching(r, p, redis)]
    /\ certain' = [certain EXCEPT ![r] = Matching(r, p, redis)]

\* A request arrives.  An HTTP handler has its body; a gRPC handler decodes
\* it first.
Arrive(r, p) ==
    /\ pc[r] = "idle" /\ requests < MaxRequests
    /\ p = Garbage => r \in Grpc
    /\ requests' = requests + 1
    /\ body' = [body EXCEPT ![r] = p]
    /\ payload' = [payload EXCEPT ![r] = IF r \in Grpc THEN None ELSE p]
    /\ answer' = [answer EXCEPT ![r] = None]
    /\ mock' = [mock EXCEPT ![r] = 1]
    /\ action' = [action EXCEPT ![r] = 1]
    /\ cmd' = [cmd EXCEPT ![r] = 1]
    /\ performed' = [performed EXCEPT ![r] = <<>>]
    /\ GoTo(r, IF r \in Grpc THEN "unmarshal" ELSE "match")
    /\ IF r \in Grpc THEN UNCHANGED history ELSE Observe(r, p)
    /\ UNCHANGED <<shared, faults>>

\* Deviation: the shared message is merged into, not reset.
UnmarshalMerging(r) ==
    /\ pc[r] = "unmarshal"
    /\ IF body[r] = Garbage
       THEN /\ answer' = [answer EXCEPT ![r] = "error"]
            /\ GoTo(r, "idle")
            /\ UNCHANGED request
       ELSE /\ request' = IF request = None THEN body[r] ELSE request
            /\ GoTo(r, "marshal")
            /\ UNCHANGED answer
    /\ UNCHANGED <<redis, response, body, payload, progress, history, bounds>>

\* convertRequestBodyToJSON: proto.Unmarshal into the shared message, which
\* it resets first, unless the body is too short to be looked at; ...
Unmarshal(r) ==
    /\ pc[r] = "unmarshal"
    /\ IF body[r] = Garbage
       THEN /\ request' \in {None, request}
            /\ answer' = [answer EXCEPT ![r] = "error"]
            /\ GoTo(r, "idle")
       ELSE /\ request' = body[r]
            /\ GoTo(r, "marshal")
            /\ UNCHANGED answer
    /\ UNCHANGED <<redis, response, body, payload, progress, history, bounds>>

\* ... and protojson.Marshal of it.
Marshal(r) ==
    /\ pc[r] = "marshal"
    /\ payload' = [payload EXCEPT ![r] = request]
    /\ Observe(r, request)
    /\ GoTo(r, "match")
    /\ UNCHANGED <<shared, body, progress, answer, bounds>>

\* The handler returns; the server completes an answer that nobody began.
Finish(r) ==
    /\ GoTo(r, "idle")
    /\ answer' = IF answer[r] = None THEN [answer EXCEPT ![r] = "empty"] ELSE answer

(***************************************************************************)
(* MocksArray.DoActions: the first mock whose condition holds when it is   *)
(* looked at.                                                              *)
(***************************************************************************)

\* Deviation: the last mock is tried first.
MatchFromTheEnd(r) ==
    LET mocks == Behaviors[r]
        m == Len(mocks) + 1 - mock[r] IN
    /\ pc[r] = "match"
    /\ \/ /\ mock[r] > Len(mocks)
          /\ Finish(r)
          /\ UNCHANGED mock
       \/ /\ mock[r] <= Len(mocks)
          /\ IF <<payload[r], redis>> \in mocks[m].cond
             THEN GoTo(r, "act") /\ mock' = [mock EXCEPT ![r] = m]
             ELSE mock' = [mock EXCEPT ![r] = @ + 1] /\ UNCHANGED pc
          /\ UNCHANGED answer
    /\ UNCHANGED <<shared, body, payload, action, cmd, performed, history, bounds>>

MatchCondition(r) ==
    LET mocks == Behaviors[r] IN
    /\ pc[r] = "match"
    /\ \/ /\ mock[r] > Len(mocks)
          /\ Finish(r)
          /\ UNCHANGED mock
       \/ /\ mock[r] <= Len(mocks)
          /\ IF <<payload[r], redis>> \in mocks[mock[r]].cond
             THEN GoTo(r, "act") /\ UNCHANGED mock
             ELSE mock' = [mock EXCEPT ![r] = @ + 1] /\ UNCHANGED pc
          /\ UNCHANGED answer
    /\ UNCHANGED <<shared, body, payload, action, cmd, performed, history, bounds>>

(***************************************************************************)
(* Mock.DoActions: one action after another, until one fails.              *)
(***************************************************************************)

Actions(r) == Behaviors[r][mock[r]].actions

Performing(r) == pc[r] = "act" /\ action[r] <= Len(Actions(r))

Current(r) == Actions(r)[action[r]]

\* Whether the templates of r's current action render now.
Renders(r) == <<payload[r], redis>> \in Current(r).renders

\* Whether it has no command to run first.
Commanded(r) == Current(r).kind = "redis" => cmd[r] > Len(Current(r).cmds)

\* The current action of r has been performed.
Done(r) ==
    /\ performed' = [performed EXCEPT ![r] = Append(@, action[r])]
    /\ action' = [action EXCEPT ![r] = @ + 1]
    /\ cmd' = [cmd EXCEPT ![r] = 1]

\* All actions are done, or one has failed, which is logged.
Return(r) ==
    /\ pc[r] = "act"
    /\ \/ action[r] > Len(Actions(r))
       \/ Performing(r) /\ Commanded(r) /\ ~ Renders(r)
       \/ /\ Performing(r) /\ Current(r).kind = "reply"  \* already hijacked
          /\ answer[r] # None /\ r \notin Grpc
    /\ Finish(r)
    /\ UNCHANGED <<shared, body, payload, progress, history, bounds>>

\* What may fail in another system: Kafka, an HTTP server, or the client
\* that reads the reply.
MayFail == {"publish_kafka", "send_http", "reply"}

\* Deviation: a failed action is passed over.
CallFailsAndGoesOn(r) ==
    /\ Performing(r) /\ Renders(r) /\ Current(r).kind \in MayFail
    /\ faults < MaxFaults
    /\ faults' = faults + 1
    /\ action' = [action EXCEPT ![r] = @ + 1]
    /\ UNCHANGED <<shared, pc, body, payload, mock, cmd, performed, answer,
                   history, requests>>

CallFails(r) ==
    /\ Performing(r) /\ Renders(r) /\ Current(r).kind \in MayFail
    /\ faults < MaxFaults
    /\ faults' = faults + 1
    /\ Finish(r)
    /\ UNCHANGED <<shared, body, payload, progress, history, requests>>

\* publish_kafka, send_http, sleep; and publish_amqp, which hides failures.
Perform(r) ==
    /\ Performing(r) /\ Renders(r)
    /\ Current(r).kind \in {"publish_kafka", "send_http", "publish_amqp", "sleep"}
    /\ Done(r)
    /\ UNCHANGED <<shared, pc, body, payload, mock, answer, history, bounds>>

\* redis: a command of its own for every template in the list, ahead of one
\* that does not render, too.
RedisDo(r) ==
    /\ Performing(r) /\ Current(r).kind = "redis"
    /\ \/ Commanded(r) /\ Renders(r) /\ Done(r) /\ UNCHANGED <<redis, history>>
       \/ /\ ~ Commanded(r)
          /\ redis' = Current(r).cmds[cmd[r]]
          /\ cmd' = [cmd EXCEPT ![r] = @ + 1]
          /\ possible' = [q \in Slots |-> IF pc[q] = "match"
                THEN possible[q] \cup Matching(q, payload[q], redis') ELSE possible[q]]
          /\ certain' = [q \in Slots |-> IF pc[q] = "match"
                THEN certain[q] \cap Matching(q, payload[q], redis') ELSE certain[q]]
          /\ UNCHANGED <<performed, action>>
    /\ UNCHANGED <<request, response, pc, body, payload, mock, answer, bounds>>

\* A failed command is logged and renders as nothing.
RedisFails(r) ==
    /\ Performing(r) /\ Current(r).kind = "redis" /\ ~ Commanded(r)
    /\ faults < MaxFaults
    /\ faults' = faults + 1
    /\ cmd' = [cmd EXCEPT ![r] = @ + 1]
    /\ UNCHANGED <<shared, pc, body, payload, mock, action, performed, answer,
                   history, requests>>

\* reply_http: the connection is flushed, hijacked and closed, so the client
\* has its answer while the handler goes on.
ReplyHTTP(r) ==
    /\ Performing(r) /\ Renders(r) /\ Current(r).kind = "reply"
    /\ r \notin Grpc /\ answer[r] = None
    /\ answer' = [answer EXCEPT ![r] = payload[r]]
    /\ Done(r)
    /\ UNCHANGED <<shared, pc, body, payload, mock, history, bounds>>

\* reply_grpc: convertJSONToH2Response unmarshals the answer into the shared
\* message ...
ReplyGRPC(r) ==
    /\ Performing(r) /\ Renders(r) /\ Current(r).kind = "reply"
    /\ r \in Grpc
    /\ response' = payload[r]
    /\ GoTo(r, "reply")
    /\ UNCHANGED <<redis, request, body, payload, progress, answer, history, bounds>>

\* ... and marshals that.
WriteGRPC(r) ==
    /\ pc[r] = "reply"
    /\ answer' = [answer EXCEPT ![r] = response]
    /\ Done(r)
    /\ GoTo(r, "act")
    /\ UNCHANGED <<shared, body, payload, mock, history, bounds>>

Handler(r) ==
    \/ Unmarshal(r) \/ Marshal(r) \/ MatchCondition(r) \/ Return(r)
    \/ CallFails(r) \/ Perform(r) \/ RedisDo(r) \/ RedisFails(r)
    \/ ReplyHTTP(r) \/ ReplyGRPC(r) \/ WriteGRPC(r)

Next ==
    \E r \in Slots :
        \/ \E p \in Payloads \cup {Garbage} : Arrive(r, p)
        \/ Handler(r)

Spec == Init /\ [][Next]_vars

(***************************************************************************)
(* Evaluate, of a mock whose channel expectation the context meets.        *)
(***************************************************************************)

Shown == {"reply", "publish_kafka"}

\* The places of the actions that are looked at.
ShownOf(m) == {j \in 1..Len(m.actions) : m.actions[j].kind \in Shown}

\* Deviation: replies are listed ahead of publications.
ActionsPerformedGrouped(m) ==
    LET places == 1..Len(m.actions)
        Of(kind) == Sublist([j \in places |-> j], {j \in places : m.actions[j].kind = kind})
    IN  Of("reply") \o Of("publish_kafka")

\* actionsPerformed, of the actions that are looked at, replies over HTTP and
\* publications to Kafka.
ActionsPerformed(m) == Sublist([j \in 1..Len(m.actions) |-> j], ShownOf(m))

\* The evaluator renders without an OpenMock, for which redisDo is nil, ...
ConditionPassed(m, p) == <<p, Nil>> \in m.cond

\* ... bodies and payloads, too; one that does not render is an error.
ActionFails(m, p) ==
    \E j \in ShownOf(m) : <<p, Nil>> \notin m.actions[j].renders

\* What the client hears of it (PostEvaluate): of an error nothing else.  A
\* condition that does not render is Evaluator's.
Evaluate(m, p) ==
    LET passed == ConditionPassed(m, p)
        fails == passed /\ ActionFails(m, p)
    IN  [code |-> IF fails THEN 500 ELSE 200,
         condition |-> passed /\ ~ fails,
         actions |-> IF passed /\ ~ fails THEN ActionsPerformed(m) ELSE <<>>]

-----------------------------------------------------------------------------

\* Types; and where a handler can be in its mock and its actions (DoActions).
TypeOK ==
    /\ redis \in Values
    /\ request \in Payloads \cup {None} /\ response \in Payloads \cup {None}
    /\ pc \in [Slots -> {"idle", "unmarshal", "marshal", "match", "act", "reply"}]
    /\ body \in [Slots -> Payloads \cup {Garbage, None}]
    /\ payload \in [Slots -> Payloads \cup {None}]
    /\ \A r \in Slots :
        /\ pc[r] \in {"match", "act", "reply"} => payload[r] # None
        /\ mock[r] \in 1..Len(Behaviors[r]) + (IF pc[r] \in {"act", "reply"} THEN 0 ELSE 1)
        /\ pc[r] = "act" => action[r] \in 1..Len(Actions(r)) + 1
        /\ pc[r] = "act" => performed[r] = [j \in 1..action[r] - 1 |-> j]
    /\ answer \in [Slots -> Payloads \cup {None, "empty", "error"}]
    /\ requests \in 0..MaxRequests /\ faults \in 0..MaxFaults

(***************************************************************************)
(* Conditions that read Redis are not evaluated at one moment.  Still, the *)
(* mock that answers has matched at some time since the request came, no   *)
(* mock ahead of it has matched all the time, and a request is left        *)
(* without one only if none has (MocksArray.DoActions).                    *)
(***************************************************************************)
AnsweredByAMatch ==
    \A r \in Slots :
        /\ pc[r] \in {"act", "reply"} =>
            /\ mock[r] \in possible[r]
            /\ \A m \in 1..mock[r] - 1 : m \notin certain[r]
        /\ pc[r] = "match" =>
            \A m \in 1..mock[r] - 1 : m \notin certain[r]
        /\ pc[r] = "idle" /\ answer[r] = "empty" /\ mock[r] > Len(Behaviors[r]) =>
            certain[r] = {}

(***************************************************************************)
(* An answer is made from the payload of the request it answers, not from  *)
(* another's, or an earlier one's (convertRequestBodyToJSON "is how we     *)
(* support JSONPath to take values from GRPC requests and include them in  *)
(* responses", grpc.go:71).  It holds while no two requests call the same  *)
(* gRPC method at a time.                                                  *)
(***************************************************************************)
OwnAnswer ==
    \A r \in Slots :
        /\ answer[r] \in {None, "empty", "error", body[r]}
        /\ body[r] = Garbage => answer[r] \in {None, "error"}

\* Whether a template ignores Redis, in the evaluator, too.
IgnoresRedis(S) ==
    \A p \in Payloads, v \in Values : <<p, v>> \in S <=> <<p, Nil>> \in S

Stateless(m) == IgnoresRedis(m.cond)

PlainBodies(m) == \A j \in ShownOf(m) : IgnoresRedis(m.actions[j].renders)

\* What r has performed of the kinds that /evaluate lists.
Seen(r) == Sublist(performed[r], ShownOf(Behaviors[r][mock[r]]))

Said(r) == Evaluate(Behaviors[r][mock[r]], payload[r])

PerformedAll(r) == Len(performed[r]) = Len(Actions(r))

(***************************************************************************)
(* What /evaluate answers about a mock whose condition ignores Redis is    *)
(* true: a mock that runs is said to run, and of replies and publications  *)
(* to Kafka nothing is ever performed that it does not list, in its order; *)
(* everything it lists is performed when all actions are.  And it has an   *)
(* answer if all actions can be performed and those two kinds ignore       *)
(* Redis.  Of a mock whose body needs what redisDo returns it may answer   *)
(* with an error, since its contexts have no OpenMock and redisDo is nil   *)
(* there, while traffic performs the mock (README.md:545).                 *)
(***************************************************************************)
EvaluatorAgrees ==
    \A r \in Slots \ Grpc : pc[r] = "act" /\ Stateless(Behaviors[r][mock[r]]) =>
        /\ Said(r).code = 200 =>
            /\ Said(r).condition
            /\ Len(Seen(r)) <= Len(Said(r).actions)
            /\ Seen(r) = SubSeq(Said(r).actions, 1, Len(Seen(r)))
            /\ PerformedAll(r) => Seen(r) = Said(r).actions
        /\ PerformedAll(r) /\ PlainBodies(Behaviors[r][mock[r]]) => Said(r).code = 200
=============================================================================
