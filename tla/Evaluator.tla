------------------------------- MODULE Evaluator -------------------------------
(***************************************************************************)
(* POST /evaluate (pkg/evaluator): what a mock would do with a context     *)
(* that somebody describes.  The channel's expectation is tried on an echo *)
(* router of its own, the condition is rendered, and the actions are       *)
(* listed, not performed.                                                  *)
(*                                                                         *)
(* The properties compare the answer with what traffic meets: routes made  *)
(* from the same mock (populateBehaviors, startHTTP, startKafka), and      *)
(* Mock.DoActions.  A template renders for both or for none here; those    *)
(* that call redisDo, which is nil in an evaluation, are Dispatch's.       *)
(***************************************************************************)
EXTENDS Integers, Sequences, FiniteSets, SequencesExt, Lists

CONSTANTS
    Paths, Topics,
    Texts,     \* what a body or a payload says
    Bad,       \* a path that is no URL
    Null,      \* what is absent; also the blank condition
    Contexts,  \* those that are asked about
    Mocks

\* A real method, one that no route has, and one in lower case.
Methods == {"GET", "POST", "get"}

HTTPContext ==
    [method : Methods \cup {""}, path : Paths \cup {Bad, ""},
     headers : {"", "map", "other"}, body : Texts \cup {""}]

KafkaContext == [topic : Topics \cup {""}, payload : Texts \cup {""}]

EvalContext == [http : HTTPContext \cup {Null}, kafka : KafkaContext \cup {Null}]

\* What the condition compares with a text, and whether it renders at all.
Condition == [reads : {"http", "kafka"}, wants : Texts, renders : BOOLEAN]

Kinds == {"reply_http", "publish_kafka", "send_http", "publish_amqp", "redis",
          "sleep"}

Action == [order : Int, kind : Kinds, renders : BOOLEAN]

\* A template's path is a path here: echo matches both sides alike.
Mock ==
    [http : [method : {"GET", "POST", ""}, path : Paths \cup {""}],
     topic : Topics \cup {""}, condition : Condition \cup {Null},
     actions : Seq(Action)]

ASSUME EvaluatorAssumption ==
    /\ Bad \notin Paths /\ "" \notin Paths \cup Topics \cup Texts \cup {Bad}
    /\ Contexts \subseteq EvalContext \cup {Null}
    /\ Mocks \subseteq Mock
    /\ \A m \in Mocks : Len(m.actions) <= 12  \* GoSort is sort.Slice up to here

VARIABLES
    step,
    context,  \* EvalRequest.Context
    mock,     \* EvalRequest.Mock, converted
    om,       \* the context that templates see: texts of both channels
    place,    \* of the next action, after the sort
    answer    \* the response so far

vars == <<step, context, mock, om, place, answer>>

\* code: 200, 500, or 0 if the handler panics.
NoAnswer ==
    [code |-> 200, expect |-> FALSE, condition |-> FALSE, rendered |-> "",
     actions |-> <<>>]

\* PostEvaluate, for any request; it is not interrupted.
Init ==
    /\ step = "expect"
    /\ context \in Contexts /\ mock \in Mocks
    /\ om = Null /\ place = 1
    /\ answer = NoAnswer

Answered(a) == step' = "answered" /\ answer' = a

(***************************************************************************)
(* checkChannelCondition.                                                  *)
(***************************************************************************)

ZeroHTTP == [method |-> "", path |-> "", headers |-> "", body |-> ""]

ZeroKafka == [topic |-> "", payload |-> ""]

Upper(method) == IF method = "get" THEN "GET" ELSE method

\* Of a context and a mock that both have an HTTP part: the methods, in any
\* case.
MethodsMatch ==
    /\ context.http # Null /\ context.http # ZeroHTTP
    /\ mock.http # [method |-> "", path |-> ""]
    /\ Upper(context.http.method) = Upper(mock.http.method)

\* http.NewRequest returns no request, but an error, which is looked at too
\* late.
NewRequestPanics == MethodsMatch /\ context.http.path = Bad

\* The request, with the method in upper case, reaches the mini server's
\* route; "" is a GET, but no route's method.
CheckHTTPCondition ==
    /\ MethodsMatch
    /\ Upper(context.http.method) = mock.http.method /\ mock.http.method # ""
    /\ context.http.path = mock.http.path /\ mock.http.path # ""

CheckKafkaCondition ==
    /\ context.kafka # Null /\ context.kafka # ZeroKafka
    /\ mock.topic # "" /\ context.kafka.topic = mock.topic

\* Deviation: a context of two channels has to match on both.
CheckBothChannels ==
    /\ step = "expect"
    /\ IF context # Null /\ NewRequestPanics THEN Answered([answer EXCEPT !.code = 0])
       ELSE IF context # Null /\ CheckHTTPCondition /\ CheckKafkaCondition
            THEN /\ step' = "context"
                 /\ answer' = [answer EXCEPT !.expect = TRUE]
            ELSE Answered(answer)
    /\ UNCHANGED <<context, mock, om, place>>

CheckChannelCondition ==
    /\ step = "expect"
    /\ \/ context # Null /\ NewRequestPanics /\ Answered([answer EXCEPT !.code = 0])
       \/ /\ context # Null => ~ NewRequestPanics
          /\ IF context # Null /\ (CheckHTTPCondition \/ CheckKafkaCondition)
             THEN /\ step' = "context"
                  /\ answer' = [answer EXCEPT !.expect = TRUE]
             ELSE Answered(answer)
    /\ UNCHANGED <<context, mock, om, place>>

(***************************************************************************)
(* conditionContext and checkCondition.                                    *)
(***************************************************************************)

Failed == [answer EXCEPT !.code = 500]

Describes(part, zero) == part # Null /\ part # zero

\* Headers that are no map are an error; parts that are absent or blank leave
\* the fields of the merged context blank.
ConditionContext ==
    /\ step = "context"
    /\ \/ /\ Describes(context.http, ZeroHTTP) /\ context.http.headers = "other"
          /\ Answered(Failed)
          /\ UNCHANGED om
       \/ /\ Describes(context.http, ZeroHTTP) => context.http.headers # "other"
          /\ om' = [http |-> IF Describes(context.http, ZeroHTTP)
                             THEN context.http.body ELSE "",
                    kafka |-> IF Describes(context.kafka, ZeroKafka)
                              THEN context.kafka.payload ELSE ""]
          /\ step' = "condition"
          /\ UNCHANGED answer
    /\ UNCHANGED <<context, mock, place>>

Holds(condition) == om[condition.reads] = condition.wants

\* Deviation: the actions are listed although the condition has not passed.
CheckConditionAndGoOn ==
    /\ step = "condition"
    /\ step' = "actions"
    /\ answer' = IF mock.condition = Null
                 THEN [answer EXCEPT !.condition = TRUE] ELSE answer
    /\ UNCHANGED <<context, mock, om, place>>

CheckCondition ==
    /\ step = "condition"
    /\ \/ /\ mock.condition = Null
          /\ step' = "actions"
          /\ answer' = [answer EXCEPT !.condition = TRUE]
       \/ /\ mock.condition # Null /\ ~ mock.condition.renders
          /\ Answered(Failed)
       \/ /\ mock.condition # Null /\ mock.condition.renders
          /\ IF Holds(mock.condition)
             THEN /\ step' = "actions"
                  /\ answer' = [answer EXCEPT !.condition = TRUE, !.rendered = "true"]
             ELSE Answered([answer EXCEPT !.rendered = "other"])
    /\ UNCHANGED <<context, mock, om, place>>

(***************************************************************************)
(* actionsPerformed.                                                       *)
(***************************************************************************)

\* Deviation: the actions stay in the order of the request.
OrderedAsPosted == mock.actions

Ordered == GoSort(mock.actions)

Shown == {"reply_http", "publish_kafka"}

\* An action of a kind that is shown is rendered, and listed; others are
\* passed over, even if they would fail.
PerformAction ==
    /\ step = "actions" /\ place <= Len(mock.actions)
    /\ LET action == Ordered[place] IN
       IF action.kind \in Shown /\ ~ action.renders
       THEN Answered(Failed) /\ UNCHANGED place
       ELSE /\ answer' = IF action.kind \in Shown
                         THEN [answer EXCEPT !.actions = Append(@, action)]
                         ELSE answer
            /\ place' = place + 1
            /\ UNCHANGED step
    /\ UNCHANGED <<context, mock, om>>

Evaluated ==
    /\ step = "actions" /\ place > Len(mock.actions)
    /\ Answered(answer)
    /\ UNCHANGED <<context, mock, om, place>>

Next ==
    \/ CheckChannelCondition \/ ConditionContext \/ CheckCondition
    \/ PerformAction \/ Evaluated

Spec == Init /\ [][Next]_vars

(***************************************************************************)
(* What traffic meets.                                                     *)
(***************************************************************************)

\* Contexts that a request, or a message, could have.
IsRequest(c) ==
    /\ c.kafka = Null /\ c.http # Null
    /\ c.http.method \in {"GET", "POST"} /\ c.http.path \in Paths
    /\ c.http.headers = "map"

IsMessage(c) == c.http = Null /\ c.kafka # Null /\ c.kafka.topic \in Topics

\* The route, or the consumer, that populateBehaviors gives the mock.
Routed ==
    /\ context # Null
    /\ \/ /\ IsRequest(context)
          /\ [method |-> context.http.method, path |-> context.http.path] = mock.http
       \/ IsMessage(context) /\ context.kafka.topic = mock.topic

\* MatchCondition: a condition that does not render does not match.
TextOf(reads) ==
    CASE reads = "http" /\ IsRequest(context) -> context.http.body
      [] reads = "kafka" /\ IsMessage(context) -> context.kafka.payload
      [] OTHER -> ""

MatchCondition ==
    \/ mock.condition = Null
    \/ mock.condition.renders /\ TextOf(mock.condition.reads) = mock.condition.wants

\* Mock.DoActions: in order, up to one that does not render.
Performed ==
    LET actions == GoSort(mock.actions)
        Runs(j) == \A k \in 1..j : actions[k].renders
    IN  [j \in 1..Cardinality({j \in 1..Len(actions) : Runs(j)}) |-> actions[j]]

-----------------------------------------------------------------------------

\* Types; and an answer lists actions only under a condition that has passed,
\* and tells of a condition only if the expectation has (Evaluate).
TypeOK ==
    /\ step \in {"expect", "context", "condition", "actions", "answered"}
    /\ context \in Contexts /\ mock \in Mocks
    /\ om # Null => {om.http, om.kafka} \subseteq Texts \cup {""}
    /\ place \in 1..Len(mock.actions) + 1
    /\ answer.code \in {0, 200, 500}
    /\ answer.expect \in BOOLEAN /\ answer.condition \in BOOLEAN
    /\ answer.rendered \in {"", "true", "other"}
    /\ answer.actions # <<>> => answer.condition
    /\ answer.condition \/ answer.rendered # "" => answer.expect

(***************************************************************************)
(* Traffic that is routed to the mock is never said to be none of its      *)
(* business, and never to fail its condition if it does not, or the other  *)
(* way round (checkChannelCondition, conditionContext, checkCondition;     *)
(* startHTTP, MatchCondition).                                             *)
(***************************************************************************)
RoutedPasses ==
    step = "answered" /\ Routed =>
        /\ answer.expect
        /\ answer.code = 200 => (answer.condition <=> MatchCondition)

ShownActions == {a \in Action : a.kind \in Shown}

(***************************************************************************)
(* What is listed is in the order in which traffic meets it: the replies   *)
(* over HTTP and the publications to Kafka that traffic gets are the first *)
(* of the list; and they are all of it, unless an action of a kind that is *)
(* not listed fails (actionsPerformed, populateBehaviors, Mock.DoActions). *)
(***************************************************************************)
ListedInOrder ==
    step = "answered" /\ answer.code = 200 /\ answer.condition =>
        LET performed == Sublist(Performed, ShownActions)
        IN  /\ IsPrefix(performed, answer.actions)
            /\ \/ performed = answer.actions
               \/ \E j \in 1..Len(mock.actions) :
                    mock.actions[j].kind \notin Shown /\ ~ mock.actions[j].renders
=============================================================================
