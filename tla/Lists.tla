--------------------------------- MODULE Lists ---------------------------------
(***************************************************************************)
(* What the code does with lists: it sorts actions by their order, and     *)
(* loops over lists to collect some elements, or all.                      *)
(***************************************************************************)
EXTENDS Integers, Sequences, FiniteSets

(***************************************************************************)
(* sort.Slice of the Go release the image is built with (1.14), for at     *)
(* most 12 elements: one pass that compares elements six apart, and an     *)
(* insertion sort.                                                         *)
(***************************************************************************)

GapPass(s) ==
    [p \in 1..Len(s) |->
        IF p + 6 <= Len(s) /\ s[p + 6].order < s[p].order THEN s[p + 6]
        ELSE IF p > 6 /\ s[p].order < s[p - 6].order THEN s[p - 6]
        ELSE s[p]]

\* Where an insertion sort puts element p: after the smaller ones and after
\* the equal ones that came before it.
Rank(s, p) ==
    1 + Cardinality({q \in 1..Len(s) :
            s[q].order < s[p].order \/ (s[q].order = s[p].order /\ q < p)})

StableSort(s) ==
    [p \in 1..Len(s) |-> s[CHOOSE q \in 1..Len(s) : Rank(s, q) = p]]

GoSort(s) == StableSort(GapPass(s))

(***************************************************************************)
(* The loop that collects: its body appends the element it looks at to the *)
(* result, or passes it over.                                              *)
(***************************************************************************)

\* The result after n turns of the loop over s that keeps what is in S.
Sublists(s, S) ==
    LET kept[n \in 0..Len(s)] ==
            IF n = 0 THEN <<>>
            ELSE IF s[n] \in S THEN Append(kept[n - 1], s[n]) ELSE kept[n - 1]
    IN  kept

\* The elements of s that are in S, in the order of s.
Sublist(s, S) == Sublists(s, S)[Len(s)]

\* The first n of the parts, one behind the other.
Chains(parts) ==
    LET chained[n \in 0..Len(parts)] ==
            IF n = 0 THEN <<>> ELSE chained[n - 1] \o parts[n]
    IN  chained

Chain(parts) == Chains(parts)[Len(parts)]
=============================================================================
