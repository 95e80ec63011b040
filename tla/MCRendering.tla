------------------------------ MODULE MCRendering ------------------------------
(* Small instances of Rendering for TLC. *)
EXTENDS Rendering

CONSTANTS c1, c2, e1, page

Calls(calls) == [parses |-> TRUE, defines |-> {}, calls |-> calls]

Broken == [parses |-> FALSE, defines |-> {}, calls |-> <<>>]

\* A text that runs two commands around a template, and one that defines it.
SomeTexts ==
    {Calls(<<"redisDo", page, "redisDo">>), Broken,
     [parses |-> TRUE, defines |-> {page}, calls |-> <<page>>]}
=============================================================================
