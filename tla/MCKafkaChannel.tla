---------------------------- MODULE MCKafkaChannel ----------------------------
(* Small instances of KafkaChannel for TLC. *)
EXTENDS KafkaChannel

CONSTANTS in, out

\* The mock of one topic publishes to the other, as in demo_templates.
Pipe == [t \in Topics |-> IF t = in THEN out ELSE None]
=============================================================================
