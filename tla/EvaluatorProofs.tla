---------------------------- MODULE EvaluatorProofs ----------------------------
(***************************************************************************)
(* Theorems about Evaluator, for any paths, topics, texts, contexts and    *)
(* mocks.                                                                  *)
(***************************************************************************)
EXTENDS Evaluator, Rendering, ListProofs, SequenceTheorems, TLAPS

\* What conditionContext makes of the two parts of a context.
Merged ==
    [http |-> IF Describes(context.http, ZeroHTTP) THEN context.http.body ELSE "",
     kafka |-> IF Describes(context.kafka, ZeroKafka)
               THEN context.kafka.payload ELSE ""]

\* What is known before each step of Evaluate.
KnownSoFar ==
    /\ step = "expect" => answer = NoAnswer
    /\ step \in {"expect", "context"} => om = Null
    /\ step \in {"context", "condition", "actions"} =>
        context # Null /\ answer.expect /\ answer.code = 200
    /\ step \in {"context", "condition"} =>
        ~ answer.condition /\ answer.rendered = "" /\ answer.actions = <<>>
    /\ step \in {"condition", "actions"} => om = Merged
    /\ step = "actions" =>
        /\ answer.condition
        /\ mock.condition # Null => mock.condition.renders /\ Holds(mock.condition)

\* An answer is a record of five fields, all through, with any list of actions.
IsAnswer(a) ==
    a \in [code : {0, 200, 500}, expect : BOOLEAN, condition : BOOLEAN,
           rendered : {"", "true", "other"}, actions : {a.actions}]

AnswerType == IsAnswer(answer)

IInv == TypeOK /\ AnswerType /\ KnownSoFar /\ RoutedPasses

\* The parts of a mock and of a context.
LEMMA Parts ==
    ASSUME TypeOK
    PROVE  /\ mock \in Mock /\ Len(mock.actions) \in Nat
           /\ mock.actions \in Seq(Action)
           /\ context # Null =>
                /\ context.http # Null => context.http \in HTTPContext
                /\ context.kafka # Null => context.kafka \in KafkaContext
<1>1. mock \in Mock
  BY EvaluatorAssumption DEF TypeOK
<1>2. context # Null => context \in EvalContext
  BY ZenonT(30), EvaluatorAssumption DEF TypeOK
<1>3. mock.actions \in Seq(Action)
  BY <1>1 DEF Mock
<1>4. Len(mock.actions) \in Nat
  BY <1>3
<1>5. context # Null =>
        /\ context.http # Null => context.http \in HTTPContext
        /\ context.kafka # Null => context.kafka \in KafkaContext
  BY <1>2 DEF EvalContext
<1> QED BY <1>1, <1>3, <1>4, <1>5

\* The channel's expectation is met by whatever is routed to the mock, and
\* the echo request is made.
LEMMA RoutedIsExpected ==
    ASSUME TypeOK, Routed
    PROVE  /\ context # Null /\ ~ NewRequestPanics
           /\ CheckHTTPCondition \/ CheckKafkaCondition
<1>1. context # Null
  BY DEF Routed
<1>2. CASE IsRequest(context) /\ [method |-> context.http.method,
                                 path |-> context.http.path] = mock.http
  <2> DEFINE h == context.http
  <2>1. /\ h \in HTTPContext /\ h # Null
        /\ h.method \in {"GET", "POST"} /\ h.path \in Paths
    BY <1>1, <1>2, Parts DEF IsRequest
  <2>2. mock.http = [method |-> h.method, path |-> h.path]
    BY <1>2
  <2>3. mock.http.method = h.method /\ mock.http.path = h.path
    BY <2>2
  <2>4. h.method # "" /\ h.path # "" /\ h.path # Bad
    BY <2>1, EvaluatorAssumption
  <2>5. h # ZeroHTTP /\ mock.http # [method |-> "", path |-> ""]
    <3>1. ZeroHTTP.method = "" /\ [method |-> "", path |-> ""].method = ""
      BY DEF ZeroHTTP
    <3> QED BY <2>3, <2>4, <3>1
  <2>6. Upper(h.method) = h.method
    BY <2>1 DEF Upper
  <2> QED BY <1>1, <2>1, <2>3, <2>4, <2>5, <2>6
          DEF NewRequestPanics, CheckHTTPCondition, MethodsMatch
<1>3. CASE IsMessage(context) /\ context.kafka.topic = mock.topic
  <2> DEFINE k == context.kafka
  <2>1. k # Null /\ context.http = Null /\ k.topic \in Topics
    BY <1>3 DEF IsMessage
  <2>2. k.topic # "" /\ ZeroKafka.topic = ""
    BY <2>1, EvaluatorAssumption DEF ZeroKafka
  <2>3. k # ZeroKafka
    BY <2>2
  <2> QED BY <1>1, <1>3, <2>1, <2>2, <2>3
          DEF NewRequestPanics, CheckKafkaCondition, MethodsMatch
<1> QED BY <1>2, <1>3 DEF Routed

\* A condition reads the same text here as in traffic.
LEMMA SameText ==
    ASSUME TypeOK, Routed, om = Merged, mock.condition # Null
    PROVE  Holds(mock.condition) <=>
             TextOf(mock.condition.reads) = mock.condition.wants
<1>1. mock.condition \in Condition
  BY Parts DEF Mock
<1>2. CASE IsRequest(context)
  <2>1. context.http # ZeroHTTP /\ context.http # Null /\ context.kafka = Null
    <3>1. ZeroHTTP.method = "" /\ context.http.method # ""
      BY <1>2 DEF IsRequest, ZeroHTTP
    <3> QED BY <1>2, <3>1 DEF IsRequest
  <2>2. om.http = context.http.body /\ om.kafka = ""
    BY <2>1 DEF Merged, Describes
  <2>3. TextOf("http") = context.http.body /\ TextOf("kafka") = ""
    BY <1>2, <2>1 DEF TextOf, IsMessage
  <2> QED BY <1>1, <2>2, <2>3 DEF Condition, Holds
<1>3. CASE IsMessage(context)
  <2>1. context.kafka # ZeroKafka /\ context.kafka # Null /\ context.http = Null
    <3>1. ZeroKafka.topic = "" /\ context.kafka.topic # ""
      BY <1>3, EvaluatorAssumption DEF IsMessage, ZeroKafka
    <3> QED BY <1>3, <3>1 DEF IsMessage
  <2>2. om.kafka = context.kafka.payload /\ om.http = ""
    BY <2>1 DEF Merged, Describes
  <2>3. TextOf("kafka") = context.kafka.payload /\ TextOf("http") = ""
    BY <1>3, <2>1 DEF TextOf, IsRequest
  <2> QED BY <1>1, <2>2, <2>3 DEF Condition, Holds
<1> QED BY <1>2, <1>3 DEF Routed

\* An answer that fails, and one whose channel is expected.
LEMMA WithFailure ==
    ASSUME IsAnswer(answer)
    PROVE  /\ IsAnswer(Failed) /\ Failed.code = 500
           /\ Failed.expect = answer.expect /\ Failed.condition = answer.condition
           /\ Failed.rendered = answer.rendered /\ Failed.actions = answer.actions
BY ZenonT(60) DEF IsAnswer, Failed

LEMMA WithExpect ==
    ASSUME NEW a, IsAnswer(a), NEW b, b = [a EXCEPT !.expect = TRUE]
    PROVE  /\ IsAnswer(b) /\ b.code = a.code
           /\ b.expect = TRUE /\ b.condition = a.condition
           /\ b.rendered = a.rendered /\ b.actions = a.actions
BY ZenonT(30) DEF IsAnswer

\* A condition that passes without being rendered, and one that fails.
LEMMA WithHalf ==
    ASSUME NEW a, IsAnswer(a)
    PROVE  /\ [a EXCEPT !.condition = TRUE] =
                [a EXCEPT !.condition = TRUE, !.rendered = a.rendered]
           /\ [a EXCEPT !.rendered = "other"] =
                [a EXCEPT !.condition = a.condition, !.rendered = "other"]
BY DEF IsAnswer

LEMMA AnswerFields ==
    ASSUME NEW a, IsAnswer(a)
    PROVE  /\ a.code \in {0, 200, 500} /\ a.expect \in BOOLEAN
           /\ a.condition \in BOOLEAN /\ a.rendered \in {"", "true", "other"}
BY DEF IsAnswer

LEMMA InitIInv == Init => IInv
<1> SUFFICES ASSUME Init PROVE IInv
  OBVIOUS
<1>1. /\ step = "expect" /\ om = Null /\ place = 1 /\ answer = NoAnswer
      /\ context \in Contexts /\ mock \in Mocks
  BY DEF Init
<1>2. Len(mock.actions) \in Nat
  <2>1. mock \in Mock
    BY <1>1, EvaluatorAssumption
  <2>2. mock.actions \in Seq(Action)
    BY <2>1 DEF Mock
  <2> QED BY <2>2
<1>3. /\ answer.code = 200 /\ answer.expect = FALSE /\ answer.condition = FALSE
      /\ answer.rendered = "" /\ answer.actions = <<>>
  BY <1>1 DEF NoAnswer
<1>4. AnswerType
  <2>1. <<>> \in Seq(Action)
    OBVIOUS
  <2> QED BY <1>1, <2>1 DEF AnswerType, IsAnswer, NoAnswer
<1>5. TypeOK
  <2>1. place \in 1..Len(mock.actions) + 1
    BY <1>1, <1>2
  <2>2. om # Null => {om.http, om.kafka} \subseteq Texts \cup {""}
    BY <1>1
  <2> QED BY <1>1, <1>3, <2>1, <2>2 DEF TypeOK
<1>6. KnownSoFar /\ RoutedPasses
  BY <1>1 DEF KnownSoFar, RoutedPasses
<1> QED BY <1>4, <1>5, <1>6 DEF IInv

\* The request and the mock are never changed, nor what traffic meets.
LEMMA SameTraffic ==
    ASSUME UNCHANGED <<context, mock>>
    PROVE  /\ (Routed <=> Routed') /\ (MatchCondition <=> MatchCondition')
           /\ Merged' = Merged
BY DEF Routed, MatchCondition, TextOf, IsRequest, IsMessage, Merged, Describes

\* checkChannelCondition.
LEMMA CheckChannelConditionIInv ==
    ASSUME IInv, CheckChannelCondition
    PROVE  IInv'
<1>1. /\ step = "expect" /\ answer = NoAnswer /\ om = Null /\ om' = om /\ place' = place
      /\ UNCHANGED <<context, mock>> /\ TypeOK
  BY DEF IInv, KnownSoFar, CheckChannelCondition
<1>2. Routed <=> Routed'
  BY <1>1, SameTraffic
<1>3. /\ IsAnswer(answer) /\ answer.code = 200 /\ answer.condition = FALSE
      /\ answer.rendered = "" /\ answer.actions = <<>>
  BY <1>1 DEF IInv, AnswerType, NoAnswer
<1>4. \/ /\ step' = "answered" /\ ~ Routed
         /\ answer' = answer \/ answer' = [answer EXCEPT !.code = 0]
      \/ /\ step' = "context" /\ context # Null
         /\ answer' = [answer EXCEPT !.expect = TRUE]
  <2>1. CASE context # Null /\ NewRequestPanics
    <3>1. ~ Routed
      BY <1>1, <2>1, RoutedIsExpected
    <3>2. step' = "answered" /\ answer' = [answer EXCEPT !.code = 0]
      BY <2>1 DEF CheckChannelCondition, Answered
    <3> QED BY <3>1, <3>2
  <2>2. CASE /\ ~ (context # Null /\ NewRequestPanics)
             /\ context # Null /\ (CheckHTTPCondition \/ CheckKafkaCondition)
    <3>1. step' = "context" /\ answer' = [answer EXCEPT !.expect = TRUE]
      BY <2>2 DEF CheckChannelCondition
    <3> QED BY <2>2, <3>1
  <2>3. CASE /\ ~ (context # Null /\ NewRequestPanics)
             /\ ~ (context # Null /\ (CheckHTTPCondition \/ CheckKafkaCondition))
    <3>1. step' = "answered" /\ answer' = answer
      BY <2>3 DEF CheckChannelCondition, Answered
    <3>2. ~ Routed
      BY <1>1, <2>3, RoutedIsExpected
    <3> QED BY <3>1, <3>2
  <2> QED BY <2>1, <2>2, <2>3
<1>5. /\ IsAnswer(answer') /\ answer'.condition = FALSE
      /\ answer'.rendered = "" /\ answer'.actions = <<>>
      /\ step' = "context" => answer'.expect = TRUE /\ answer'.code = 200
      /\ step' \in {"context", "answered"}
  <2>1. CASE step' = "answered" /\ answer' = answer
    BY <1>3, <2>1
  <2>2. CASE step' = "answered" /\ answer' = [answer EXCEPT !.code = 0]
    <3>1. /\ IsAnswer(answer') /\ answer'.code = 0
          /\ answer'.expect = answer.expect /\ answer'.condition = answer.condition
          /\ answer'.rendered = answer.rendered /\ answer'.actions = answer.actions
      <4>1. IsAnswer(answer)
        BY <1>3
      <4> QED BY ZenonT(30), <2>2, <4>1 DEF IsAnswer
    <3> QED BY <1>3, <2>2, <3>1
  <2>3. CASE step' = "context" /\ answer' = [answer EXCEPT !.expect = TRUE]
    BY ZenonT(30), <1>3, <2>3, WithExpect DEF IsAnswer
  <2> QED BY <1>4, <2>1, <2>2, <2>3
<1>6. AnswerType'
  BY <1>5 DEF AnswerType
<1>7. TypeOK'
  BY ZenonT(30), <1>1, <1>5, AnswerFields DEF TypeOK
<1>8. KnownSoFar'
  BY <1>1, <1>4, <1>5 DEF KnownSoFar
<1>9. RoutedPasses'
  <2>1. step' = "answered" => ~ Routed
    BY <1>4
  <2> QED BY <1>2, <2>1 DEF RoutedPasses
<1> QED BY <1>6, <1>7, <1>8, <1>9 DEF IInv

\* conditionContext.
LEMMA ConditionContextIInv ==
    ASSUME IInv, ConditionContext
    PROVE  IInv'
<1>1. /\ step = "context" /\ context # Null /\ answer.expect /\ answer.code = 200
      /\ ~ answer.condition /\ answer.rendered = "" /\ answer.actions = <<>>
      /\ UNCHANGED <<context, mock>> /\ place' = place /\ TypeOK /\ IsAnswer(answer)
      /\ om = Null
  BY DEF IInv, KnownSoFar, ConditionContext, AnswerType
<1>2. (Routed <=> Routed') /\ Merged' = Merged
  BY <1>1, SameTraffic
<1>3. \/ /\ step' = "answered" /\ om' = om
         /\ answer' = Failed
      \/ step' = "condition" /\ om' = Merged /\ answer' = answer
  BY DEF ConditionContext, Answered, Merged
<1>4. answer.expect = TRUE /\ answer.condition = FALSE
  BY <1>1, AnswerFields
<1>5. /\ IsAnswer(answer') /\ answer'.expect = TRUE
      /\ answer'.condition = FALSE /\ answer'.rendered = ""
      /\ answer'.actions = <<>>
      /\ step' = "answered" => answer'.code = 500
      /\ step' = "condition" => answer'.code = 200
  <2>1. CASE step' = "answered" /\ answer' = Failed
    <3>1. /\ IsAnswer(answer') /\ answer'.code = 500
          /\ answer'.expect = answer.expect /\ answer'.condition = answer.condition
          /\ answer'.rendered = answer.rendered /\ answer'.actions = answer.actions
      <4>1. IsAnswer(answer)
        BY <1>1
      <4> QED BY <2>1, <4>1, WithFailure
    <3> QED BY ZenonT(30), <1>1, <1>4, <2>1, <3>1
  <2>2. CASE step' = "condition" /\ answer' = answer
    BY <1>1, <1>4, <2>2
  <2> QED BY <1>3, <2>1, <2>2
<1>6. Merged.http \in Texts \cup {""} /\ Merged.kafka \in Texts \cup {""}
  BY <1>1, Parts DEF Merged, Describes, HTTPContext, KafkaContext
<1>7. step' \in {"answered", "condition"} /\ (om' = Null \/ om' = Merged)
  BY <1>1, <1>3
<1>8. TypeOK'
  <2>1. om' # Null => {om'.http, om'.kafka} \subseteq Texts \cup {""}
    BY <1>6, <1>7
  <2> QED BY <1>1, <1>5, <1>7, <2>1, AnswerFields DEF TypeOK
<1>9. KnownSoFar'
  <2>1. step' = "condition" => om' = Merged
    BY <1>3
  <2> QED BY <1>1, <1>2, <1>5, <1>7, <2>1 DEF KnownSoFar
<1>10. RoutedPasses'
  <2> USE DEF RoutedPasses
  <2> HAVE step' = "answered" /\ Routed'
  <2>1. answer'.expect = TRUE /\ answer'.code = 500
    BY <1>5
  <2> QED BY <2>1
<1>11. AnswerType'
  BY <1>5 DEF AnswerType
<1> QED BY <1>8, <1>9, <1>10, <1>11 DEF IInv

\* checkCondition.
LEMMA CheckConditionIInv ==
    ASSUME IInv, CheckCondition
    PROVE  IInv'
<1> DEFINE c == mock.condition
<1>1. /\ step = "condition" /\ context # Null /\ answer.expect /\ answer.code = 200
      /\ ~ answer.condition /\ answer.rendered = "" /\ answer.actions = <<>>
      /\ om = Merged /\ om' = om /\ place' = place
      /\ UNCHANGED <<context, mock>> /\ TypeOK /\ IsAnswer(answer)
  BY DEF IInv, KnownSoFar, CheckCondition, AnswerType
<1>2. /\ Routed <=> Routed'
      /\ MatchCondition <=> MatchCondition'
      /\ Merged' = Merged
  BY <1>1, SameTraffic
<1>3. \/ /\ c = Null /\ step' = "actions"
         /\ answer' = [answer EXCEPT !.condition = TRUE]
      \/ /\ step' = "answered" /\ answer' = Failed
      \/ /\ c # Null /\ c.renders /\ Holds(c) /\ step' = "actions"
         /\ answer' = [answer EXCEPT !.condition = TRUE, !.rendered = "true"]
      \/ /\ c # Null /\ c.renders /\ ~ Holds(c) /\ step' = "answered"
         /\ answer' = [answer EXCEPT !.rendered = "other"]
  BY DEF CheckCondition, Answered
<1>4. /\ IsAnswer(answer') /\ answer'.expect = answer.expect
      /\ answer'.actions = answer.actions
      /\ step' = "actions" => answer'.condition = TRUE /\ answer'.code = 200
      /\ step' = "answered" => answer'.condition = answer.condition
      /\ step' = "answered" => \/ answer'.code = 500
                               \/ c # Null /\ c.renders /\ ~ Holds(c)
      /\ step' \in {"actions", "answered"}
  <2>1. CASE step' = "actions" /\ answer' = [answer EXCEPT !.condition = TRUE]
    <3>1. answer' = [answer EXCEPT !.condition = TRUE, !.rendered = answer.rendered]
      BY <1>1, <2>1, WithHalf, Zenon
    <3>2. /\ IsAnswer(answer') /\ answer'.code = answer.code
          /\ answer'.expect = answer.expect /\ answer'.condition = TRUE
          /\ answer'.rendered = answer.rendered /\ answer'.actions = answer.actions
      <4>1. IsAnswer(answer)
        BY <1>1
      <4> QED BY ZenonT(30), <3>1, <4>1 DEF IsAnswer
    <3> QED BY <1>1, <2>1, <3>2
  <2>2. CASE step' = "answered" /\ answer' = Failed
    <3>1. /\ IsAnswer(answer') /\ answer'.code = 500
          /\ answer'.expect = answer.expect /\ answer'.condition = answer.condition
          /\ answer'.rendered = answer.rendered /\ answer'.actions = answer.actions
      <4>1. IsAnswer(answer)
        BY <1>1
      <4> QED BY <2>2, <4>1, WithFailure
    <3> QED BY <1>1, <2>2, <3>1
  <2>3. CASE /\ step' = "actions"
             /\ answer' = [answer EXCEPT !.condition = TRUE, !.rendered = "true"]
    <3>1. /\ IsAnswer(answer') /\ answer'.code = answer.code
          /\ answer'.expect = answer.expect /\ answer'.condition = TRUE
          /\ answer'.rendered = "true" /\ answer'.actions = answer.actions
      <4>1. IsAnswer(answer)
        BY <1>1
      <4> QED BY ZenonT(30), <2>3, <4>1 DEF IsAnswer
    <3> QED BY <1>1, <2>3, <3>1
  <2>4. CASE /\ c # Null /\ c.renders /\ ~ Holds(c) /\ step' = "answered"
             /\ answer' = [answer EXCEPT !.rendered = "other"]
    <3>1. answer' = [answer EXCEPT !.condition = answer.condition, !.rendered = "other"]
      BY <1>1, <2>4, WithHalf, Zenon
    <3>2. /\ IsAnswer(answer') /\ answer'.code = answer.code
          /\ answer'.expect = answer.expect /\ answer'.condition = answer.condition
          /\ answer'.rendered = "other" /\ answer'.actions = answer.actions
      <4>1. IsAnswer(answer)
        BY <1>1
      <4> QED BY ZenonT(30), <3>1, <4>1 DEF IsAnswer
    <3> QED BY <1>1, <2>4, <3>2
  <2> QED BY <1>3, <2>1, <2>2, <2>3, <2>4
<1>5. TypeOK'
  <2>1. answer.expect = TRUE /\ answer.actions = <<>>
    BY <1>1, AnswerFields
  <2>2. answer'.expect = TRUE /\ answer'.actions = <<>>
    BY <1>4, <2>1
  <2>3. /\ answer'.code \in {0, 200, 500}
        /\ answer'.condition \in BOOLEAN
        /\ answer'.rendered \in {"", "true", "other"}
    BY ZenonT(30), <1>4, AnswerFields
  <2> QED BY <1>1, <1>4, <2>2, <2>3 DEF TypeOK
<1>6. KnownSoFar'
  <2>1. step' = "actions" => (c # Null => c.renders /\ Holds(c))
    BY <1>3
  <2>2. Holds(c)' <=> Holds(c)
    BY <1>1 DEF Holds
  <2> QED BY <1>1, <1>2, <1>4, <2>1, <2>2 DEF KnownSoFar
<1>7. RoutedPasses'
  <2> SUFFICES ASSUME step' = "answered", Routed, answer'.code = 200
               PROVE  ~ MatchCondition
    BY <1>1, <1>2, <1>4 DEF RoutedPasses
  <2>1. c # Null /\ c.renders /\ ~ Holds(c)
    BY <1>4
  <2> QED BY <1>1, <2>1, SameText DEF MatchCondition
<1>8. AnswerType'
  BY <1>4 DEF AnswerType
<1> QED BY <1>5, <1>6, <1>7, <1>8 DEF IInv

\* actionsPerformed: a listed action changes nothing that was said before.
LEMMA ActionsIInv ==
    ASSUME IInv, PerformAction \/ Evaluated
    PROVE  IInv'
<1> DEFINE c == mock.condition
           action == Ordered[place]
<1>1. /\ step = "actions" /\ context # Null /\ answer.expect /\ answer.code = 200
      /\ answer.condition /\ om = Merged /\ om' = om
      /\ c # Null => c.renders /\ Holds(c)
      /\ UNCHANGED <<context, mock>> /\ TypeOK /\ AnswerType
  BY DEF IInv, KnownSoFar, PerformAction, Evaluated
<1>2. /\ Routed <=> Routed'
      /\ MatchCondition <=> MatchCondition'
      /\ Merged' = Merged
  BY <1>1, SameTraffic
<1>3. place \in Nat /\ Len(mock.actions) \in Nat /\ place \in 1..Len(mock.actions) + 1
  <2>1. Len(mock.actions) \in Nat
    BY <1>1, Parts
  <2>2. place \in 1..Len(mock.actions) + 1
    BY <1>1 DEF TypeOK
  <2> QED BY <2>1, <2>2
<1>4. IsAnswer(answer)
  BY <1>1 DEF AnswerType
<1>5. \/ step' = "answered" /\ place' = place /\ answer' = Failed
      \/ step' = "answered" /\ place' = place /\ answer' = answer
      \/ step' = "actions" /\ place' \in 1..Len(mock.actions) + 1 /\ answer' = answer
      \/ /\ step' = "actions" /\ place' \in 1..Len(mock.actions) + 1
         /\ answer' = [answer EXCEPT !.actions = Append(@, action)]
  <2>1. CASE PerformAction
    <3>1. place <= Len(mock.actions)
      BY <2>1 DEF PerformAction
    <3>2. place + 1 \in 1..Len(mock.actions) + 1
      BY <1>3, <3>1
    <3> QED BY <1>1, <2>1, <3>2 DEF PerformAction, Answered
  <2>2. CASE Evaluated
    BY <2>2 DEF Evaluated, Answered
  <2> QED BY <2>1, <2>2
<1>6. /\ IsAnswer(answer') /\ answer'.expect = TRUE /\ answer'.condition = TRUE
      /\ step' = "actions" => answer'.code = 200
      /\ step' \in {"actions", "answered"} /\ place' \in 1..Len(mock.actions) + 1
  <2>1. answer.expect = TRUE /\ answer.condition = TRUE
    BY <1>1, <1>4, AnswerFields
  <2>2. CASE step' = "answered" /\ answer' = Failed
    <3>1. /\ IsAnswer(answer') /\ answer'.expect = answer.expect
          /\ answer'.condition = answer.condition
      BY <1>4, <2>2, WithFailure
    <3> QED BY <1>3, <1>5, <2>1, <2>2, <3>1
  <2>3. CASE step' \in {"actions", "answered"} /\ answer' = answer
    BY <1>1, <1>3, <1>4, <1>5, <2>1, <2>3
  <2>4. CASE /\ step' = "actions"
             /\ answer' = [answer EXCEPT !.actions = Append(@, action)]
    <3>1. /\ IsAnswer(answer') /\ answer'.expect = answer.expect
          /\ answer'.condition = answer.condition /\ answer'.code = answer.code
      BY ZenonT(30), <1>4, <2>4 DEF IsAnswer
    <3> QED BY <1>1, <1>3, <1>5, <2>1, <2>4, <3>1
  <2> QED BY <1>5, <2>2, <2>3, <2>4
<1>7. TypeOK'
  BY ZenonT(30), <1>1, <1>6, AnswerFields DEF TypeOK
<1>8. AnswerType'
  BY <1>6 DEF AnswerType
<1>9. KnownSoFar'
  BY <1>1, <1>2, <1>6 DEF KnownSoFar, Holds
<1>10. RoutedPasses'
  <2> SUFFICES ASSUME Routed PROVE MatchCondition
    BY <1>2, <1>6 DEF RoutedPasses
  <2> QED BY <1>1, SameText DEF MatchCondition
<1> QED BY <1>7, <1>8, <1>9, <1>10 DEF IInv

\* Every step keeps it.
LEMMA Inductive == IInv /\ [Next]_vars => IInv'
<1> SUFFICES ASSUME IInv, [Next]_vars PROVE IInv'
  OBVIOUS
<1>1. CASE Next
  BY <1>1, CheckChannelConditionIInv, ConditionContextIInv, CheckConditionIInv,
     ActionsIInv DEF Next
<1>2. CASE UNCHANGED vars
  <2>1. UNCHANGED <<context, mock>>
    BY <1>2 DEF vars
  <2>2. /\ Routed <=> Routed'
        /\ MatchCondition <=> MatchCondition'
        /\ Merged' = Merged
    BY <2>1, SameTraffic
  <2>3. TypeOK'
    <3>1. TypeOK
      BY DEF IInv
    <3>2. /\ step' = step /\ context' = context /\ mock' = mock
          /\ om' = om /\ place' = place /\ answer' = answer
      BY <1>2 DEF vars
    <3>3. (/\ answer.code \in {0, 200, 500}
           /\ answer.expect \in BOOLEAN /\ answer.condition \in BOOLEAN
           /\ answer.rendered \in {"", "true", "other"}
           /\ answer.actions # <<>> => answer.condition
           /\ answer.condition \/ answer.rendered # "" => answer.expect)'
      <4>1. /\ answer.code \in {0, 200, 500}
            /\ answer.expect \in BOOLEAN /\ answer.condition \in BOOLEAN
            /\ answer.rendered \in {"", "true", "other"}
            /\ answer.actions # <<>> => answer.condition
            /\ answer.condition \/ answer.rendered # "" => answer.expect
        BY <3>1 DEF TypeOK
      <4> QED BY <3>2, <4>1, Zenon
    <3>4. /\ step \in {"expect", "context", "condition", "actions", "answered"}
          /\ context \in Contexts /\ mock \in Mocks
          /\ om # Null => {om.http, om.kafka} \subseteq Texts \cup {""}
          /\ place \in 1..Len(mock.actions) + 1
      BY <3>1 DEF TypeOK
    <3>5. (/\ step \in {"expect", "context", "condition", "actions", "answered"}
           /\ context \in Contexts /\ mock \in Mocks
           /\ om # Null => {om.http, om.kafka} \subseteq Texts \cup {""}
           /\ place \in 1..Len(mock.actions) + 1)'
      BY <3>2, <3>4, Zenon
    <3> QED BY <3>3, <3>5 DEF TypeOK
  <2>5. AnswerType'
    <3>1. answer' = answer
      BY <1>2 DEF vars
    <3>2. IsAnswer(answer)
      BY DEF IInv, AnswerType
    <3> QED BY <3>1, <3>2, Zenon DEF AnswerType, IsAnswer
  <2>4. KnownSoFar' /\ RoutedPasses'
    BY <1>2, <2>2 DEF vars, IInv, KnownSoFar, RoutedPasses, Holds
  <2> QED BY <2>3, <2>4, <2>5 DEF IInv
<1> QED BY <1>1, <1>2

-----------------------------------------------------------------------------

\* The variables keep their types, and actions are only listed under a
\* condition that has passed (Evaluate).
THEOREM TypeCorrect == Spec => []TypeOK
<1>1. IInv => TypeOK
  BY DEF IInv
<1> QED BY <1>1, InitIInv, Inductive, PTL DEF Spec

\* Whatever a mock's channel routes to it is said to be expected, and its
\* condition is told as traffic meets it, for any mock and any context
\* (checkChannelCondition, conditionContext, checkCondition).
THEOREM TellsTheTruth == Spec => []RoutedPasses
<1>1. IInv => RoutedPasses
  BY DEF IInv
<1> QED BY <1>1, InitIInv, Inductive, PTL DEF Spec

-----------------------------------------------------------------------------
(* The list of actions. *)

\* What has been listed before each step is what the loop keeps of the
\* actions it has looked at, and all of that renders.
ListedSoFar ==
    /\ step \in {"expect", "context", "condition"} =>
        place = 1 /\ answer.actions = <<>> /\ answer.condition = FALSE
    /\ step = "actions" =>
        /\ answer.actions = Sublists(Ordered, ShownActions)[place - 1]
        /\ \A j \in 1..place - 1 : Ordered[j].kind \in Shown => Ordered[j].renders
    /\ step = "answered" /\ answer.code = 200 /\ answer.condition =>
        /\ answer.actions = Sublist(Ordered, ShownActions)
        /\ \A j \in 1..Len(mock.actions) :
            Ordered[j].kind \in Shown => Ordered[j].renders

LEMMA ActionsHaveOrders == HaveOrders(Action)
BY DEF HaveOrders, Action

\* The sorted list is as long, and has no other actions.
LEMMA OrderedActions ==
    ASSUME TypeOK
    PROVE  /\ Ordered \in Seq(Action) /\ Len(Ordered) = Len(mock.actions)
           /\ Len(Ordered) \in Nat
           /\ \A p \in 1..Len(Ordered) :
                \E q \in 1..Len(mock.actions) : Ordered[p] = mock.actions[q]
<1>1. mock.actions \in Seq(Action) /\ Len(mock.actions) \in Nat
  BY Parts
<1> QED BY <1>1, ActionsHaveOrders, GoSortTakes DEF Ordered

LEMMA InitListed == Init => ListedSoFar
<1> SUFFICES ASSUME Init PROVE ListedSoFar
  OBVIOUS
<1>1. step = "expect" /\ place = 1 /\ answer = NoAnswer
  BY DEF Init
<1>2. NoAnswer.actions = <<>> /\ NoAnswer.condition = FALSE
  BY DEF NoAnswer
<1> QED BY <1>1, <1>2 DEF ListedSoFar

\* Every step keeps it.
LEMMA ListedInductive ==
    ASSUME IInv, IInv', ListedSoFar, [Next]_vars
    PROVE  ListedSoFar'
<1>1. /\ TypeOK /\ KnownSoFar /\ IsAnswer(answer) /\ IsAnswer(answer')
      /\ TypeOK' /\ KnownSoFar'
  BY DEF IInv, AnswerType
<1>2. /\ Ordered \in Seq(Action) /\ Len(Ordered) = Len(mock.actions)
      /\ Len(Ordered) \in Nat
  BY <1>1, OrderedActions
<1>3. CASE CheckChannelCondition
  <2>1. /\ step = "expect" /\ place' = place /\ UNCHANGED mock
        /\ step' \in {"answered", "context"}
        /\ answer' \in {answer, [answer EXCEPT !.code = 0], [answer EXCEPT !.expect = TRUE]}
    BY <1>3 DEF CheckChannelCondition, Answered
  <2>2. answer'.actions = answer.actions /\ answer'.condition = answer.condition
    <3>1. CASE answer' = [answer EXCEPT !.code = 0]
      BY ZenonT(30), <1>1, <3>1 DEF IsAnswer
    <3>2. CASE answer' = [answer EXCEPT !.expect = TRUE]
      BY <1>1, <3>2, WithExpect
    <3> QED BY <2>1, <3>1, <3>2
  <2> QED BY <2>1, <2>2 DEF ListedSoFar
<1>4. CASE ConditionContext
  <2>1. /\ step = "context" /\ place' = place /\ UNCHANGED mock
        /\ step' \in {"answered", "condition"}
        /\ answer' \in {answer, Failed}
    BY <1>4 DEF ConditionContext, Answered
  <2>2. answer'.actions = answer.actions /\ answer'.condition = answer.condition
    BY <1>1, <2>1, WithFailure
  <2> QED BY <2>1, <2>2 DEF ListedSoFar
<1>5. CASE CheckCondition
  <2>1. /\ step = "condition" /\ place' = place /\ UNCHANGED mock
        /\ \/ step' = "actions"
           \/ step' = "answered" /\ answer' \in {Failed, [answer EXCEPT !.rendered = "other"]}
        /\ answer' \in {Failed, [answer EXCEPT !.rendered = "other"],
                        [answer EXCEPT !.condition = TRUE],
                        [answer EXCEPT !.condition = TRUE, !.rendered = "true"]}
    BY <1>5 DEF CheckCondition, Answered
  <2>2. /\ answer'.actions = answer.actions
        /\ step' = "answered" => answer'.condition = answer.condition
    <3>1. CASE answer' = Failed
      BY <1>1, <3>1, WithFailure
    <3>2. CASE answer' = [answer EXCEPT !.rendered = "other"]
      BY ZenonT(30), <1>1, <3>2 DEF IsAnswer
    <3>3. CASE answer' = [answer EXCEPT !.condition = TRUE]
      <4>1. answer'.actions = answer.actions
        BY ZenonT(30), <1>1, <3>3 DEF IsAnswer
      <4>2. step' # "answered" \/ answer' \in {Failed, [answer EXCEPT !.rendered = "other"]}
        BY <2>1
      <4> QED BY <3>1, <3>2, <4>1, <4>2
    <3>4. CASE answer' = [answer EXCEPT !.condition = TRUE, !.rendered = "true"]
      <4>1. answer'.actions = answer.actions
        BY ZenonT(30), <1>1, <3>4 DEF IsAnswer
      <4>2. step' # "answered" \/ answer' \in {Failed, [answer EXCEPT !.rendered = "other"]}
        BY <2>1
      <4> QED BY <3>1, <3>2, <4>1, <4>2
    <3> QED BY <2>1, <3>1, <3>2, <3>3, <3>4
  <2>3. /\ place' = 1 /\ answer'.actions = <<>>
        /\ step' = "answered" => answer'.condition = FALSE
    BY <2>1, <2>2 DEF ListedSoFar
  <2>4. Sublists(Ordered, ShownActions)[0] = <<>>
    BY <1>2, SublistsAreResults
  <2>5. Ordered' = Ordered /\ 1 - 1 = 0 /\ 1..0 = {}
    BY <2>1 DEF Ordered
  <2> QED BY <2>1, <2>3, <2>4, <2>5 DEF ListedSoFar
<1>6. CASE PerformAction
  <2> DEFINE action == Ordered[place]
  <2>1. /\ step = "actions" /\ UNCHANGED mock /\ place \in 1..Len(Ordered)
        /\ Ordered' = Ordered
    <3>1. place \in 1..Len(mock.actions) + 1
      BY <1>1 DEF TypeOK
    <3>2. step = "actions" /\ UNCHANGED mock /\ place <= Len(mock.actions)
      BY <1>6 DEF PerformAction
    <3> QED BY <1>2, <3>1, <3>2 DEF Ordered
  <2>2. CASE action.kind \in Shown /\ ~ action.renders
    <3>1. step' = "answered" /\ answer' = Failed
      BY <1>6, <2>2 DEF PerformAction, Answered
    <3>2. answer'.code = 500
      BY <1>1, <3>1, WithFailure
    <3> QED BY <3>1, <3>2 DEF ListedSoFar
  <2>3. CASE ~ (action.kind \in Shown /\ ~ action.renders)
    <3>1. /\ step' = "actions" /\ place' = place + 1
          /\ answer' = IF action.kind \in Shown
                       THEN [answer EXCEPT !.actions = Append(@, action)]
                       ELSE answer
      BY <1>6, <2>1, <2>3 DEF PerformAction
    <3>2. answer'.actions = IF action.kind \in Shown
                            THEN Append(answer.actions, action) ELSE answer.actions
      BY <1>1, <3>1 DEF IsAnswer
    <3>3. action \in Action /\ (action \in ShownActions <=> action.kind \in Shown)
      BY <1>2, <2>1 DEF ShownActions
    <3>4. answer.actions = Sublists(Ordered, ShownActions)[place - 1]
      BY <2>1 DEF ListedSoFar
    <3>5. answer'.actions = Sublists(Ordered, ShownActions)[place]
      BY <1>2, <2>1, <3>2, <3>3, <3>4, SublistsAreResults
    <3>6. place' - 1 = place
      BY <2>1, <3>1
    <3>7. \A j \in 1..place : Ordered[j].kind \in Shown => Ordered[j].renders
      <4> TAKE j \in 1..place
      <4>1. j = place \/ j \in 1..place - 1
        BY <2>1
      <4> QED BY <2>1, <2>3, <4>1 DEF ListedSoFar
    <3> QED BY <2>1, <3>1, <3>5, <3>6, <3>7 DEF ListedSoFar
  <2> QED BY <2>2, <2>3
<1>7. CASE Evaluated
  <2>1. /\ step = "actions" /\ step' = "answered" /\ UNCHANGED <<mock, place>>
        /\ answer' = answer /\ place > Len(mock.actions)
    BY <1>7 DEF Evaluated, Answered
  <2>2. place - 1 = Len(mock.actions) /\ Ordered' = Ordered
    <3>1. place \in 1..Len(mock.actions) + 1
      BY <1>1 DEF TypeOK
    <3> QED BY <1>2, <2>1, <3>1 DEF Ordered
  <2>3. answer.actions = Sublist(Ordered, ShownActions)
    BY <1>2, <2>1, <2>2 DEF ListedSoFar, Sublist
  <2> QED BY <2>1, <2>2, <2>3 DEF ListedSoFar
<1>8. CASE UNCHANGED vars
  BY <1>8 DEF vars, ListedSoFar, Ordered
<1> QED BY <1>3, <1>4, <1>5, <1>6, <1>7, <1>8 DEF Next

\* Traffic performs the actions ahead of the first that does not render.
LEMMA PerformedActions ==
    ASSUME TypeOK
    PROVE  \E n \in 0..Len(Ordered) :
             /\ Performed = [j \in 1..n |-> Ordered[j]]
             /\ \A j \in 1..n : Ordered[j].renders
             /\ n < Len(Ordered) => ~ Ordered[n + 1].renders
<1> DEFINE Runs(j) == \A k \in 1..j : Ordered[k].renders
           all == {j \in 1..Len(Ordered) : Runs(j)}
           rest == {j \in Nat : j + 1 \in 1..Len(Ordered) /\ ~ Ordered[j + 1].renders}
                     \cup {Len(Ordered)}
<1>1. Len(Ordered) \in Nat
  BY OrderedActions
<1>2. PICK n \in rest : \A m \in rest : n <= m
  <2>1. rest \in SUBSET Nat /\ rest # {}
    BY <1>1
  <2> HIDE DEF rest
  <2> QED BY <2>1, LeastNat
<1>3. n \in 0..Len(Ordered)
  <2>1. n \in Nat /\ n <= Len(Ordered)
    BY <1>1, <1>2
  <2> QED BY <1>1, <2>1
<1>4. \A j \in 1..n : Ordered[j].renders
  <2> SUFFICES ASSUME NEW j \in 1..n, ~ Ordered[j].renders PROVE FALSE
    OBVIOUS
  <2>1. j - 1 \in Nat /\ (j - 1) + 1 = j /\ j \in 1..Len(Ordered)
    BY <1>1, <1>3
  <2>2. j - 1 \in rest
    BY <2>1
  <2>3. n <= j - 1
    BY <1>2, <2>2
  <2> QED BY <1>3, <2>1, <2>3
<1>5. n < Len(Ordered) => ~ Ordered[n + 1].renders
  BY <1>1, <1>2
<1>6. all = 1..n
  <2>1. \A j \in 1..n : j \in all
    BY <1>1, <1>3, <1>4
  <2>2. \A j \in all : j \in 1..n
    <3> SUFFICES ASSUME NEW j \in all, j > n PROVE FALSE
      BY <1>1, <1>3
    <3>1. n + 1 \in 1..j /\ n < Len(Ordered)
      BY <1>1, <1>3
    <3> QED BY <1>5, <3>1
  <2> HIDE DEF all
  <2> QED BY <2>1, <2>2
<1>7. Cardinality(all) = n
  <2>1. n \in Int /\ 1 \in Int /\ (IF 1 > n THEN 0 ELSE n - 1 + 1) = n
    BY <1>3
  <2> QED BY <1>6, <2>1, FS_Interval
<1>8. Performed = [j \in 1..n |-> Ordered[j]]
  BY <1>7 DEF Performed, Ordered
<1> QED BY <1>3, <1>4, <1>5, <1>8

\* The list tells what traffic meets, in its order (actionsPerformed,
\* populateBehaviors, Mock.DoActions).
THEOREM ListTellsTheOrder == Spec => []ListedInOrder
<1>1. Init => IInv /\ ListedSoFar
  BY InitIInv, InitListed
<1>2. IInv /\ ListedSoFar /\ [Next]_vars => (IInv /\ ListedSoFar)'
  BY Inductive, ListedInductive
<1>3. IInv /\ ListedSoFar => ListedInOrder
  <2> SUFFICES ASSUME IInv, ListedSoFar, step = "answered", answer.code = 200,
                      answer.condition
               PROVE  LET performed == Sublist(Performed, ShownActions)
                      IN  /\ IsPrefix(performed, answer.actions)
                          /\ \/ performed = answer.actions
                             \/ \E j \in 1..Len(mock.actions) :
                                  /\ mock.actions[j].kind \notin Shown
                                  /\ ~ mock.actions[j].renders
    BY DEF ListedInOrder
  <2>1. TypeOK
    BY DEF IInv
  <2>2. /\ Ordered \in Seq(Action) /\ Len(Ordered) = Len(mock.actions)
        /\ Len(Ordered) \in Nat
        /\ \A p \in 1..Len(Ordered) :
             \E q \in 1..Len(mock.actions) : Ordered[p] = mock.actions[q]
    BY <2>1, OrderedActions
  <2>3. /\ answer.actions = Sublist(Ordered, ShownActions)
        /\ \A j \in 1..Len(mock.actions) :
             Ordered[j].kind \in Shown => Ordered[j].renders
    BY DEF ListedSoFar
  <2>4. PICK n \in 0..Len(Ordered) :
          /\ Performed = [j \in 1..n |-> Ordered[j]]
          /\ \A j \in 1..n : Ordered[j].renders
          /\ n < Len(Ordered) => ~ Ordered[n + 1].renders
    BY <2>1, PerformedActions
  <2>5. /\ Performed \in Seq(Action) /\ Len(Performed) = n
        /\ \A j \in 1..n : Performed[j] = Ordered[j]
    BY <2>2, <2>4
  <2> DEFINE f == Sublists(Ordered, ShownActions)
  <2>6. Sublist(Performed, ShownActions) = f[n]
    <3>1. Sublists(Performed, ShownActions)[n] = f[n]
      <4>1. /\ n \in 0..Len(Performed) /\ n <= Len(Ordered)
            /\ \A i \in 1..n :
                 /\ Performed[i] = Ordered[i]
                 /\ Performed[i] \in ShownActions <=> Ordered[i] \in ShownActions
        BY <2>2, <2>5
      <4> QED BY ONLY <2>2, <2>5, <4>1, SublistsAgree
    <3> QED BY <2>5, <3>1 DEF Sublist
  <2>7. /\ answer.actions = f[Len(Ordered)]
        /\ Len(f[n]) <= Len(f[Len(Ordered)])
        /\ f[n] = SubSeq(f[Len(Ordered)], 1, Len(f[n]))
    <3>1. n \in 0..Len(Ordered) /\ Len(Ordered) \in n..Len(Ordered)
      BY <2>2
    <3>2. answer.actions = f[Len(Ordered)]
      BY <2>3 DEF Sublist
    <3>3. /\ Len(f[n]) <= Len(f[Len(Ordered)])
          /\ f[n] = SubSeq(f[Len(Ordered)], 1, Len(f[n]))
      BY ONLY <2>2, <3>1, SublistsGrow
    <3> QED BY ONLY <3>2, <3>3
  <2>8. f[n] \in Seq(Action) /\ Len(f[n]) \in Nat
    BY <2>2, SublistsAreSequences
  <2> HIDE DEF f
  <2>9. IsPrefix(f[n], answer.actions)
    <3>1. SubSeq(f[n], 1, Len(f[n])) = f[n]
      BY <2>8
    <3> QED BY <2>7, <3>1 DEF IsPrefix
  <2>10. CASE n = Len(Ordered)
    BY <2>6, <2>7, <2>9, <2>10
  <2>11. CASE n # Len(Ordered)
    <3>1. n + 1 \in 1..Len(Ordered) /\ ~ Ordered[n + 1].renders
      BY <2>2, <2>4, <2>11
    <3>2. Ordered[n + 1].kind \notin Shown
      BY <2>2, <2>3, <3>1
    <3>3. PICK q \in 1..Len(mock.actions) : Ordered[n + 1] = mock.actions[q]
      BY <2>2, <3>1
    <3> QED BY <2>6, <2>9, <3>1, <3>2, <3>3
  <2> QED BY <2>10, <2>11
<1> QED BY <1>1, <1>2, <1>3, PTL DEF Spec

-----------------------------------------------------------------------------
(***************************************************************************)
(* What /evaluate and traffic share when they render: theorems about       *)
(* Rendering, for any renderers, texts and names of templates.             *)
(***************************************************************************)

\* Until it has called Funcs a rendering has called nothing else.
NothingGotYet == \A r \in Renderers : pc[r] = "funcs" => got[r] = <<>>

\* From its Funcs on a rendering finds its own redisDo in the table, unless one
\* of the other kind has begun since.
FindsItsOwn ==
    \A r \in Renderers : pc[r] \in {"parse", "store", "execute"} =>
        disturbed[r] \/ function = Kind(r)

RenderingInv == RenderTypeOK /\ NothingGotYet /\ FindsItsOwn /\ OnlyOthersDisturb

LEMMA InitRenderingInv == RenderInit => RenderingInv
<1> SUFFICES ASSUME RenderInit PROVE RenderingInv
  OBVIOUS
<1> USE RenderingAssumption DEF RenderInit, Renderers
<1>1. RenderTypeOK
  <2>1. \A r \in Renderers : Len(got[r]) <= Len(text[r].calls)
    BY DEF Text
  <2> QED
    BY <2>1 DEF RenderTypeOK
<1>2. NothingGotYet /\ FindsItsOwn
  BY DEF NothingGotYet, FindsItsOwn
<1>3. OnlyOthersDisturb
  BY DEF OnlyOthersDisturb, Misled
<1> QED
  BY <1>1, <1>2, <1>3 DEF RenderingInv

LEMMA NextRenderingInv ==
    RenderingInv /\ [RenderNext]_renderVars => RenderingInv'
<1> SUFFICES ASSUME RenderingInv, [RenderNext]_renderVars PROVE RenderingInv'
  OBVIOUS
<1> USE RenderingAssumption DEF RenderingInv
<1>1. ASSUME NEW r \in Renderers, NEW t \in Sources, Begin(r, t)
      PROVE  RenderingInv'
  <2> USE <1>1 DEF Begin, GoTo, tables
  <2>1. RenderTypeOK'
    <3>1. Len(<<>>) <= Len(t.calls)
      BY DEF Text
    <3> QED
      BY <3>1 DEF RenderTypeOK
  <2>2. NothingGotYet' /\ FindsItsOwn'
    BY DEF RenderTypeOK, NothingGotYet, FindsItsOwn, Renderers
  <2>3. OnlyOthersDisturb'
    BY DEF RenderTypeOK, OnlyOthersDisturb, Misled, Renderers
  <2> QED
    BY <2>1, <2>2, <2>3
<1>2. ASSUME NEW r \in Renderers, Funcs(r)
      PROVE  RenderingInv'
  <2> USE <1>2 DEF Funcs, Disturb, GoTo
  <2>1. RenderTypeOK'
    <3>1. function' \in {"channel", "evaluator"}
      BY DEF Kind
    <3>2. disturbed' \in [Renderers -> BOOLEAN]
      OBVIOUS
    <3> QED
      BY <3>1, <3>2 DEF RenderTypeOK
  <2>2. NothingGotYet'
    BY DEF RenderTypeOK, NothingGotYet
  <2>3. FindsItsOwn'
    BY DEF RenderTypeOK, FindsItsOwn, Renderers
  <2>4. OnlyOthersDisturb'
    BY DEF RenderTypeOK, OnlyOthersDisturb, NothingGotYet, Misled, Renderers
  <2> QED
    BY <2>1, <2>2, <2>3, <2>4
<1>3. ASSUME NEW r \in Renderers, Parse(r)
      PROVE  RenderingInv'
  <2> USE <1>3 DEF Parse, GoTo, tables
  <2>1. RenderTypeOK'
    BY DEF RenderTypeOK
  <2>2. NothingGotYet' /\ FindsItsOwn'
    BY DEF RenderTypeOK, NothingGotYet, FindsItsOwn, Renderers
  <2>3. OnlyOthersDisturb'
    BY DEF OnlyOthersDisturb, Misled
  <2> QED
    BY <2>1, <2>2, <2>3
<1>4. ASSUME NEW r \in Renderers, AddParseTree(r)
      PROVE  RenderingInv'
  <2> USE <1>4 DEF AddParseTree, GoTo
  <2>1. RenderTypeOK'
    BY DEF RenderTypeOK
  <2>2. NothingGotYet' /\ FindsItsOwn'
    BY DEF RenderTypeOK, NothingGotYet, FindsItsOwn, Renderers
  <2>3. OnlyOthersDisturb'
    BY DEF OnlyOthersDisturb, Misled
  <2> QED
    BY <2>1, <2>2, <2>3
<1>5. ASSUME NEW r \in Renderers, CallRedisDo(r)
      PROVE  RenderingInv'
  <2> USE <1>5 DEF CallRedisDo, Calling, tables
  <2>0. PICK v \in {Nil, "ran"} :
          /\ got' = [got EXCEPT ![r] = Append(@, v)]
          /\ v = Foreign(r) => function # Kind(r)
    BY DEF RenderTypeOK, Foreign, Kind
  <2>1. RenderTypeOK'
    <3>1. Append(got[r], v) \in Seq({Nil, "ran", "loaded", "redefined"})
      BY DEF RenderTypeOK
    <3>2. Len(Append(got[r], v)) <= Len(text[r].calls)
      BY DEF RenderTypeOK, Text
    <3>3. \A q \in Renderers : Len(got'[q]) <= Len(text[q].calls)
      BY <2>0, <3>2 DEF RenderTypeOK
    <3> QED
      BY <2>0, <3>1, <3>3 DEF RenderTypeOK
  <2>2. NothingGotYet' /\ FindsItsOwn'
    BY <2>0 DEF RenderTypeOK, NothingGotYet, FindsItsOwn
  <2>3. ASSUME NEW q \in Renderers, Misled(q)'
        PROVE  disturbed[q]
    <3>1. CASE q # r
      <4>1. got'[q] = got[q]
        BY <2>0, <3>1 DEF RenderTypeOK
      <4> QED
        BY <2>3, <4>1 DEF OnlyOthersDisturb, Misled, Foreign
    <3>2. CASE q = r /\ v = Foreign(r)
      BY <2>0, <3>2 DEF FindsItsOwn
    <3>3. CASE q = r /\ v # Foreign(r)
      <4>1. /\ got'[r] = Append(got[r], v)
            /\ got[r] \in Seq({Nil, "ran", "loaded", "redefined"})
        BY <2>0 DEF RenderTypeOK
      <4>2. PICK j \in 1..Len(got'[r]) : got'[r][j] = Foreign(r)
        BY <2>3, <3>3 DEF Misled, Foreign
      <4>3. j \in 1..Len(got[r]) /\ got[r][j] = Foreign(r)
        BY <3>3, <4>1, <4>2
      <4> QED
        BY <3>3, <4>3 DEF OnlyOthersDisturb, Misled
    <3> QED
      BY <3>1, <3>2, <3>3
  <2> QED
    BY <2>1, <2>2, <2>3 DEF OnlyOthersDisturb
<1>6. ASSUME NEW r \in Renderers, CallTemplate(r)
      PROVE  RenderingInv'
  <2> USE <1>6 DEF CallTemplate, Calling, tables
  <2>0. PICK v \in {"loaded", "redefined"} :
          got' = [got EXCEPT ![r] = Append(@, v)]
    BY DEF RenderTypeOK
  <2>1. RenderTypeOK'
    <3>1. Append(got[r], v) \in Seq({Nil, "ran", "loaded", "redefined"})
      BY DEF RenderTypeOK
    <3>2. Len(Append(got[r], v)) <= Len(text[r].calls)
      BY DEF RenderTypeOK, Text
    <3>3. \A q \in Renderers : Len(got'[q]) <= Len(text[q].calls)
      BY <2>0, <3>2 DEF RenderTypeOK
    <3> QED
      BY <2>0, <3>1, <3>3 DEF RenderTypeOK
  <2>2. NothingGotYet' /\ FindsItsOwn'
    BY <2>0 DEF RenderTypeOK, NothingGotYet, FindsItsOwn, Renderers
  <2>3. ASSUME NEW q \in Renderers, Misled(q)'
        PROVE  Misled(q)
    <3>1. PICK j \in 1..Len(got'[q]) : got'[q][j] = Foreign(q)
      BY <2>3 DEF Misled, Foreign
    <3>2. got[q] \in Seq({Nil, "ran", "loaded", "redefined"})
      BY DEF RenderTypeOK, Renderers
    <3>3. got'[q] = got[q] \/ got'[q] = Append(got[q], v)
      BY <2>0 DEF RenderTypeOK, Renderers
    <3>4. CASE got'[q] = got[q]
      BY <3>1, <3>4 DEF Misled
    <3>5. CASE got'[q] = Append(got[q], v)
      <4>1. v # Foreign(q)
        BY DEF Foreign
      <4>2. j \in 1..Len(got[q]) /\ got[q][j] = Foreign(q)
        BY <3>1, <3>2, <3>5, <4>1
      <4> QED
        BY <4>2 DEF Misled
    <3> QED
      BY <3>3, <3>4, <3>5
  <2>4. OnlyOthersDisturb'
    BY <2>3 DEF OnlyOthersDisturb
  <2> QED
    BY <2>1, <2>2, <2>4
<1>7. ASSUME NEW r \in Renderers, Rendered(r)
      PROVE  RenderingInv'
  <2> USE <1>7 DEF Rendered, GoTo, tables
  <2>1. RenderTypeOK'
    BY DEF RenderTypeOK
  <2>2. NothingGotYet' /\ FindsItsOwn'
    BY DEF RenderTypeOK, NothingGotYet, FindsItsOwn, Renderers
  <2>3. OnlyOthersDisturb'
    BY DEF OnlyOthersDisturb, Misled
  <2> QED
    BY <2>1, <2>2, <2>3
<1>8. ASSUME NEW r \in Renderers, ConcurrentMapAccess(r)
      PROVE  RenderingInv'
  BY <1>8 DEF ConcurrentMapAccess, tables, RenderTypeOK, NothingGotYet, FindsItsOwn,
              OnlyOthersDisturb, Misled
<1>9. CASE UNCHANGED renderVars
  BY <1>9 DEF renderVars, tables, RenderTypeOK, NothingGotYet, FindsItsOwn,
              OnlyOthersDisturb, Misled
<1> QED
  BY <1>1, <1>2, <1>3, <1>4, <1>5, <1>6, <1>7, <1>8, <1>9 DEF RenderNext, Render

LEMMA RenderingInvHolds == RenderSpec => []RenderingInv
<1>1. RenderingInv /\ UNCHANGED renderVars => RenderingInv'
  BY NextRenderingInv
<1> QED
  BY InitRenderingInv, NextRenderingInv, PTL DEF RenderSpec

\* Renderings keep their types, and make no call that their text has not.
THEOREM RenderingTypes == RenderSpec => []RenderTypeOK
<1>1. RenderingInv => RenderTypeOK
  BY DEF RenderingInv
<1> QED
  BY <1>1, RenderingInvHolds, PTL

\* A channel's rendering loses a command only if an evaluation has begun in its
\* middle, and an evaluation runs one only if a channel's rendering has
\* (Context.Render, redisDo), however many render at a time.
THEOREM Disturbances == RenderSpec => []OnlyOthersDisturb
<1>1. RenderingInv => OnlyOthersDisturb
  BY DEF RenderingInv
<1> QED
  BY <1>1, RenderingInvHolds, PTL

\* So where all renderers are of one kind channels run all their commands, and
\* evaluations none.
THEOREM AloneUndisturbed ==
    ASSUME Channels = {} \/ Evaluators = {}
    PROVE  RenderSpec => []NobodyIsMisled
<1>0. \A q, r \in Renderers : Kind(q) = Kind(r)
  BY RenderingAssumption DEF Renderers, Kind
<1> DEFINE Calm == RenderingInv /\ \A r \in Renderers : ~ disturbed[r]
<1>1. RenderInit => Calm
  BY InitRenderingInv DEF RenderInit
<1>2. Calm /\ [RenderNext]_renderVars => Calm'
  <2> SUFFICES ASSUME Calm, [RenderNext]_renderVars PROVE Calm'
    OBVIOUS
  <2>1. RenderingInv'
    BY NextRenderingInv
  <2>2. ASSUME NEW q \in Renderers PROVE ~ disturbed'[q]
    <3>1. ASSUME NEW r \in Renderers, Funcs(r) PROVE ~ disturbed'[q]
      BY <1>0, <3>1 DEF Funcs, Disturb
    <3>2. CASE UNCHANGED disturbed
      BY <3>2
    <3> QED
      BY <3>1, <3>2 DEF RenderNext, Render, Begin, Parse, AddParseTree, CallRedisDo,
                        CallTemplate, Rendered, ConcurrentMapAccess, renderVars
  <2> QED
    BY <2>1, <2>2
<1>3. Calm => NobodyIsMisled
  BY DEF RenderingInv, OnlyOthersDisturb, NobodyIsMisled
<1> QED
  BY <1>1, <1>2, <1>3, PTL DEF RenderSpec
=============================================================================
