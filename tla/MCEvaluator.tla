------------------------------ MODULE MCEvaluator ------------------------------
(* Small instances of Evaluator for TLC. *)
EXTENDS Evaluator

CONSTANTS text, other, path, elsewhere, topic

SomePaths == {path, elsewhere}
SomeTopics == {topic}
SomeTexts == {text, other}

Request(method, at, headers, body) ==
    [method |-> method, path |-> at, headers |-> headers, body |-> body]

Requests ==
    {Request(method, at, "map", body) :
        method \in {"GET", "get"}, at \in {path, Bad}, body \in {text, other}}
    \cup {Request("POST", path, "map", text), Request("GET", elsewhere, "map", text),
          Request("GET", path, "other", text), Request("", "", "", "")}

Messages == {[topic |-> topic, payload |-> p] : p \in {text, other}} \cup {ZeroKafka}

SomeContexts ==
    {Null} \cup
    {c \in [http : Requests \cup {Null}, kafka : Messages \cup {Null}] :
        c.http = Null \/ c.kafka = Null \/ c.http.body = text}

Do(order, kind, renders) == [order |-> order, kind |-> kind, renders |-> renders]

\* Seven actions are enough for sort.Slice to change the order of equals.
Seven ==
    [j \in 1..7 |-> Do(IF j = 1 THEN 1 ELSE 0,
                       IF j \in {2, 5} THEN "sleep" ELSE "publish_kafka", j # 4)]

ActionLists ==
    {<<>>, <<Do(0, "redis", TRUE), Do(0, "reply_http", TRUE)>>}
    \cup {<<Do(2, "publish_kafka", TRUE), Do(1, "reply_http", TRUE),
            Do(2, "publish_kafka", renders)>> : renders \in BOOLEAN}
    \cup {<<Do(1, "reply_http", TRUE), Do(0, "publish_amqp", FALSE)>>,
          Seven, [Seven EXCEPT ![4].renders = TRUE]}

Conditions ==
    {Null} \cup {[reads |-> r, wants |-> text, renders |-> TRUE] : r \in {"http", "kafka"}}
    \cup {[reads |-> "http", wants |-> text, renders |-> FALSE]}

Ways ==
    {<<[method |-> "GET", path |-> path], "">>, <<[method |-> "", path |-> ""], topic>>,
     <<[method |-> "GET", path |-> path], topic>>, <<[method |-> "", path |-> path], "">>}

SomeMocks ==
    {[http |-> way[1], topic |-> way[2], condition |-> c, actions |-> l] :
        way \in Ways, c \in Conditions, l \in ActionLists}
=============================================================================
