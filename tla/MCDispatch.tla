------------------------------ MODULE MCDispatch ------------------------------
(* Small instances of Dispatch for TLC. *)
EXTENDS Dispatch

CONSTANTS h1, h2, g1, g2, p1, p2, red, green

\* Templates that always render, or never; and a body that renders with what
\* redisDo returns, as long as that is not nil.
Do(kind) == [kind |-> kind, renders |-> Views, cmds |-> <<>>]
Broken(kind) == [kind |-> kind, renders |-> {}, cmds |-> <<>>]
Reading(kind) == [kind |-> kind, renders |-> Payloads \X Values, cmds |-> <<>>]
SetTo(values) == [kind |-> "redis", renders |-> Views, cmds |-> values]

\* The last of the commands does not render.
SetToAndFail(values) == [SetTo(values) EXCEPT !.renders = {}]

\* Conditions: the payload is p; Redis holds v.
Says(p) == {p} \X (Values \cup {Nil})
Holds(v) == Payloads \X {v}
Always == Views

Behavior(cond, actions) == [cond |-> cond, actions |-> actions]

\* One mock for either value, each of which flips it, and one for a payload
\* that sets it twice; then every kind of action.
Flips ==
    <<Behavior(Holds(red), <<Do("reply"), SetTo(<<green>>)>>),
      Behavior(Says(p2), <<SetTo(<<green, red>>), Do("send_http"), Do("reply")>>),
      Behavior(Holds(green), <<SetTo(<<red>>), Do("reply"), Do("publish_amqp")>>)>>

Relay ==
    <<Behavior(Says(p1), <<Do("publish_kafka"), Do("sleep"), Do("reply"),
                           Do("publish_kafka"), Broken("send_http"), Do("reply")>>),
      Behavior(Holds(red), <<Do("reply"), SetToAndFail(<<green>>), Do("reply")>>),
      Behavior(Always, <<Do("publish_kafka"), Reading("reply")>>)>>

Echo == <<Behavior(Always, <<Do("reply"), SetTo(<<green>>)>>)>>

Mixed == [r \in Slots |-> IF r \in Grpc THEN Echo ELSE IF r = h1 THEN Flips ELSE Relay]
=============================================================================
