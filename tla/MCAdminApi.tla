------------------------------- MODULE MCAdminApi -------------------------------
(* Small instances of AdminApi for TLC. *)
EXTENDS AdminApi

CONSTANTS base, extra, parent, child, plain, solo, page, root

Do(part, method, code, field, body) ==
    [part |-> part, method |-> method, status |-> code, field |-> field,
     body |-> body]

Def(kind, key, extend, values, on, actions) ==
    [kind |-> kind, key |-> key, extend |-> extend, values |-> values,
     on |-> on, method |-> "", template |-> "", actions |-> actions]

Reply == Do("reply_http", "", 200, "good", "@text")

\* An abstract behavior, one that extends it, one of two channels with a
\* binary file, one that is nothing special, and a template.
SomeDisk ==
    <<Def("AbstractBehavior", parent, "", "good", {}, <<Reply>>),
      Def("Behavior", child, parent, "", {"http"}, <<>>),
      Def("", plain, "", "good", {"http", "kafka"},
          <<Do("send_http", "GET", 0, "", "@binary"), Null>>),
      Def("Behavior", solo, "", "good", {"amqp"}, <<Do("publish_kafka", "", 0, "", "@text")>>),
      [Def("Template", page, "", "", {}, <<>>) EXCEPT !.template = "parses"]>>

Mocks ==
    {Null,
     Def("", plain, "", "bad", {"amqp"}, <<Do("sleep", "", 0, "bad", ""), Null>>),
     Def("Behavior", plain, "", "good", {"http"}, <<Do("reply_http", "", 0, "", "text")>>),
     Def("Behavior", child, page, "good", {"grpc"}, <<Reply>>),
     Def("Other", plain, "", "", {}, <<>>),
     Def("", "///", "", "", {}, <<>>), Def("", "", "", "", {}, <<>>),
     [Def("", plain, "", "", {"http"}, <<>>) EXCEPT !.method = "get"],
     Def("", plain, "", "", {"http"}, <<Do("send_http", "get", 0, "", "")>>)}

Send(op, body) ==
    [op |-> op, set |-> extra, key |-> plain, media |-> "json",
     body |-> body]

Good == CHOOSE m \in Mocks : m # Null /\ m.key = child

SomeRequests ==
    {Send(op, Absent) : op \in Routes \ {"deleteTemplateSet"}}
    \cup {Send(op, <<m>>) : op \in Posts, m \in Mocks}
    \cup {Send("postTemplates", <<Good, m>>) : m \in Mocks}
    \cup {Send("postTemplates", body) : body \in {Listed, Garbage, <<>>}}
    \cup {Send("evaluate", body) : body \in {<<>>, <<Good>>}}
    \cup {[Send("postTemplates", <<Good>>) EXCEPT !.media = media] :
            media \in {"other", "broken"}}

\* A model with an abstract behavior of its own; one whose merged mock has two
\* replies, or a template, so that the remote ends; one that the models refuse;
\* one that does not load.
SomeLocals ==
    LET Abstract == Def("AbstractBehavior", root, "", "good", {"http", "grpc"}, <<Reply>>)
        Extending == Def("Behavior", child, root, "", {}, <<>>)
        Replying == [Extending EXCEPT !.actions = <<Reply>>]
    IN  {<<Abstract, Extending>>, <<Abstract, Replying>>,
         <<[Abstract EXCEPT !.template = "parses"], Extending>>,
         <<[Def("", plain, "", "", {"http"}, <<>>) EXCEPT !.method = "get"]>>,
         <<Def("", "", "", "", {}, <<>>)>>}
=============================================================================
