---------------------------- MODULE MCBehaviorRepo ----------------------------
(* Small instances of BehaviorRepo for TLC. *)
EXTENDS BehaviorRepo

CONSTANTS k1, k2, k3, ghost, r1, r2

\* The actions of the n-th mock, from their orders.
Acts(n, orders) ==
    [j \in 1..Len(orders) |-> [order |-> orders[j], reply |-> FALSE, id |-> <<n, j>>]]

Def(n, kind, key, extend, expect, orders) ==
    [kind |-> kind, key |-> key, extend |-> extend, expect |-> expect,
     template |-> None, actions |-> Acts(n, orders)]

Silent == [cond |-> None, routes |-> {}]
On(r) == [cond |-> None, routes |-> {r}]
When == [cond |-> "cond", routes |-> {}]

\* The n-th mock of a text, with key k.
Choices(n, k) ==
    {Def(n, kind, k, extend, expect, orders) :
        kind \in {"AbstractBehavior", "Behavior"},
        extend \in {None, k1, k2},
        expect \in {Silent, On(r1)},
        orders \in {<<>>, <<0>>, <<1, 0>>}}

\* Every text of three mocks, with three keys or with one defined twice.
ThreeMocks ==
    {<<a, b, c>> : a \in Choices(1, k1), b \in Choices(2, k2),
                   c \in Choices(3, k3) \cup Choices(3, k1)}

\* Texts that exercise the rest of Validate and populateTemplates.
Plain(n) == Def(n, "", k1, ghost, [cond |-> "cond", routes |-> {r1, r2}], <<0>>)
Tmpl(t) == [kind |-> "Template", key |-> k2, extend |-> k1, expect |-> Silent,
            template |-> t, actions |-> <<>>]

OddMocks ==
    {<<Plain(1), m>> : m \in
        {Tmpl("parses"), Tmpl("broken"),
         [Tmpl("parses") EXCEPT !.actions = Acts(2, <<0>>)],
         [Tmpl("parses") EXCEPT !.kind = ""],
         [Tmpl("parses") EXCEPT !.kind = "unknown"],
         [Plain(2) EXCEPT !.key = None],
         [Plain(2) EXCEPT !.key = k2, !.extend = k1, !.expect = When],
         [Plain(2) EXCEPT !.actions =
            <<[order |-> 0, reply |-> TRUE, id |-> <<2, 1>>],
              [order |-> 0, reply |-> TRUE, id |-> <<2, 2>>]>>]}}

SmallTexts == ThreeMocks \cup OddMocks

\* An abstract behavior with two actions, a behavior with one that extends
\* it, and a behavior that extends that one.
ThreeLevels ==
    {<<Def(1, "AbstractBehavior", k1, None, Silent, <<0, 0>>),
       Def(2, "Behavior", k2, k1, On(r1), <<0>>),
       Def(3, "Behavior", k3, k2, On(r2), <<first>>)>> : first \in {-1, 0}}
=============================================================================
