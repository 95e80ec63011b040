---------------------------- MODULE MCAmqpChannel ----------------------------
(* Small instances of AmqpChannel for TLC. *)
EXTENDS AmqpChannel

CONSTANTS first, second, inRoute, outRoute, inQueue, ownQueue, keyQueue

\* The first worker's mock publishes to the route of the second, whose queue
\* has a name of its own.
PipeRoute == [w \in Workers |-> IF w = first THEN inRoute ELSE outRoute]
PipeQueue == [w \in Workers |-> IF w = first THEN inQueue ELSE ownQueue]
PipeKeyQueue == [r \in Routes |-> IF r = inRoute THEN inQueue ELSE keyQueue]
PipePublishes == [w \in Workers |-> IF w = first THEN outRoute ELSE None]
=============================================================================
