----------------------------- MODULE BehaviorRepo -----------------------------
(***************************************************************************)
(* How OpenMock.Load turns the mocks it has read into the repository that  *)
(* answers traffic: Validate (model.go), populateTemplates and             *)
(* populateBehaviors with patchedWith (load.go).                           *)
(*                                                                         *)
(* Load is sequential, and what makes it hard is memory: a mock's actions  *)
(* are a slice, `append' writes into the parent's backing array when that  *)
(* has room, and the actions are sorted in place.  The model therefore     *)
(* keeps the backing arrays: heap[a] is an array, with one cell for each   *)
(* element of its capacity, and a slice is the first len cells of one.     *)
(***************************************************************************)
EXTENDS Integers, Sequences, FiniteSets, Lists

CONSTANTS
    Inputs,    \* what Load may have read: nonempty sequences of mocks
    Names,     \* mock keys, and what extend may say
    Routes,    \* HTTP method and path, Kafka topic, AMQP queue, gRPC method
    None       \* an empty field

Kinds == {"Behavior", "AbstractBehavior", "Template"}

Action == [order : Int, reply : BOOLEAN, id : Nat \X Nat]

\* expect.cond is None or a condition; kind "" is what an absent kind reads as.
\* template is None, or whether it parses.
Mock ==
    [kind : Kinds \cup {"", "unknown"}, key : Names \cup {None},
     extend : Names \cup {None},
     expect : [cond : {None, "cond"}, routes : SUBSET Routes],
     template : {None, "parses", "broken"}, actions : Seq(Action)]

ASSUME RepoAssumption ==
    /\ None \notin Names
    /\ Inputs \subseteq Seq(Mock) \ {<<>>}

VARIABLES
    mocks,      \* the mocks read, in the order of their text
    phase,      \* the loop Load is in; "done", or "failed"
    i,          \* the loop's next mock
    heap,       \* the backing arrays of action slices
    order,      \* r.Behaviors: its keys, in order of first Put
    behaviors,  \* r.Behaviors: the mock under each key
    routes,     \* HTTPMocks, GRPCMocks, KafkaMocks and AMQPMocks
    templates   \* r.Templates

vars == <<mocks, phase, i, heap, order, behaviors, routes, templates>>

\* Deviation: the parser leaves room behind the last action.
InitWithRoom ==
    /\ mocks \in Inputs
    /\ phase = "validate"
    /\ i = 1
    /\ heap = [m \in 1..Len(mocks) |->
                Append(mocks[m].actions, [order |-> 0, reply |-> FALSE, id |-> <<0, 0>>])]
    /\ order = <<>>
    /\ behaviors = <<>>
    /\ routes = [r \in Routes |-> <<>>]
    /\ templates = <<>>

Init ==
    /\ mocks \in Inputs
    /\ phase = "validate"
    /\ i = 1
    /\ heap = [m \in 1..Len(mocks) |-> mocks[m].actions]
    /\ order = <<>>
    /\ behaviors = <<>>
    /\ routes = [r \in Routes |-> <<>>]
    /\ templates = <<>>

\* The end of an iteration of a loop over n elements.
Advance(n, next) ==
    /\ i' = IF i < n THEN i + 1 ELSE 1
    /\ phase' = IF i < n THEN phase ELSE next

(***************************************************************************)
(* Mock.Validate.                                                          *)
(***************************************************************************)

\* An absent kind means Behavior.
KindOf(m) == IF m.kind = "" THEN "Behavior" ELSE m.kind

NoExpect(e) == e.cond = None /\ e.routes = {}

Replies(actions) == {j \in 1..Len(actions) : actions[j].reply}

Valid(m) ==
    /\ m.key # None
    /\ KindOf(m) \in Kinds
    /\ KindOf(m) = "Template" => NoExpect(m.expect) /\ m.actions = <<>>
    /\ KindOf(m) = "Behavior" =>
        m.template = None /\ Cardinality(Replies(m.actions)) <= 1

ValidateMock ==
    /\ phase = "validate"
    /\ IF Valid(mocks[i])
       THEN /\ mocks' = [mocks EXCEPT ![i].kind = KindOf(mocks[i])]
            /\ Advance(Len(mocks), "templates")
       ELSE phase' = "failed" /\ UNCHANGED <<mocks, i>>
    /\ UNCHANGED <<heap, order, behaviors, routes, templates>>

\* populateTemplates: templates are defined globally before any behavior
\* is looked at; one that does not parse ends the load.
PopulateTemplate ==
    /\ phase = "templates"
    /\ LET m == mocks[i] IN
       IF m.kind = "Template" /\ m.template = "broken"
       THEN phase' = "failed" /\ UNCHANGED <<i, templates>>
       ELSE /\ templates' = IF m.kind = "Template" THEN Append(templates, m.key)
                            ELSE templates
            /\ Advance(Len(mocks), "put")
    /\ UNCHANGED <<mocks, heap, order, behaviors, routes>>

(***************************************************************************)
(* populateBehaviors, first loop: a later mock replaces an earlier one of  *)
(* the same key and keeps its place.                                       *)
(***************************************************************************)

Registered(m) == m.key \in DOMAIN behaviors

\* Deviation: a redefined key gets a second place.
PutBehaviorAgain ==
    /\ phase = "put"
    /\ LET m == mocks[i]
           b == [kind |-> m.kind, extend |-> m.extend, expect |-> m.expect,
                 actions |-> [arr |-> i, len |-> Len(m.actions)]]
       IN  /\ behaviors' = [k \in DOMAIN behaviors \cup {m.key} |->
                                IF k = m.key THEN b ELSE behaviors[k]]
           /\ order' = Append(order, m.key)
    /\ Advance(Len(mocks), "resolve")
    /\ UNCHANGED <<mocks, heap, routes, templates>>

\* Deviation: a redefined key moves to the end.
PutBehaviorLast ==
    /\ phase = "put"
    /\ LET m == mocks[i]
           Other(k) == k # m.key
           b == [kind |-> m.kind, extend |-> m.extend, expect |-> m.expect,
                 actions |-> [arr |-> i, len |-> Len(m.actions)]]
       IN  /\ behaviors' = [k \in DOMAIN behaviors \cup {m.key} |->
                                IF k = m.key THEN b ELSE behaviors[k]]
           /\ order' = Append(SelectSeq(order, Other), m.key)
    /\ Advance(Len(mocks), "resolve")
    /\ UNCHANGED <<mocks, heap, routes, templates>>

PutBehavior ==
    /\ phase = "put"
    /\ LET m == mocks[i]
           b == [kind |-> m.kind, extend |-> m.extend, expect |-> m.expect,
                 actions |-> [arr |-> i, len |-> Len(m.actions)]]
       IN  /\ behaviors' = [k \in DOMAIN behaviors \cup {m.key} |->
                                IF k = m.key THEN b ELSE behaviors[k]]
           /\ order' = IF Registered(m) THEN order ELSE Append(order, m.key)
    /\ Advance(Len(mocks), "resolve")
    /\ UNCHANGED <<mocks, heap, routes, templates>>

(***************************************************************************)
(* patchedWith: append.                                                    *)
(***************************************************************************)

View(h, s) == SubSeq(h[s.arr], 1, s.len)

ZeroAction == [order |-> 0, reply |-> FALSE, id |-> <<0, 0>>]

\* growslice: twice the old capacity, or what is needed if that is more.
NewCap(old, need) == IF need > 2 * old THEN need ELSE 2 * old

\* The slice that append(s, new...) returns, and the heap after it.
Appended(h, s, new) ==
    LET need == s.len + Len(new)
        old == Len(h[s.arr])
        cell(j) == IF j <= s.len THEN h[s.arr][j]
                   ELSE IF j <= need THEN new[j - s.len] ELSE ZeroAction
    IN  IF need <= old
        THEN [heap |-> [h EXCEPT ![s.arr] =
                        [j \in 1..old |-> IF j <= need THEN cell(j) ELSE @[j]]],
              slice |-> [arr |-> s.arr, len |-> need]]
        ELSE [heap |-> Append(h, [j \in 1..NewCap(old, need) |-> cell(j)]),
              slice |-> [arr |-> Len(h) + 1, len |-> need]]

SortedHeap(h, s) ==
    [h EXCEPT ![s.arr] =
        [j \in 1..Len(@) |-> IF j <= s.len THEN GoSort(View(h, s))[j] ELSE @[j]]]

(***************************************************************************)
(* populateBehaviors, second loop.                                         *)
(***************************************************************************)

Extends(b) == b.extend # None /\ b.extend \in DOMAIN behaviors

\* Every field that the child fills in replaces the parent's; only the
\* actions add up.
PatchedWith(parent, child, actions) ==
    [kind |-> child.kind, extend |-> child.extend,
     expect |-> IF NoExpect(child.expect) THEN parent.expect ELSE child.expect,
     actions |-> actions]

\* Deviation: the parent's actions are appended to the child's.
ResolvedOwnFirst(k) ==
    LET b == behaviors[k]
        parent == behaviors[b.extend]
        joined == Appended(heap, b.actions, View(heap, parent.actions))
    IN  IF Extends(b)
        THEN [mock |-> PatchedWith(parent, b, joined.slice), heap |-> joined.heap]
        ELSE [mock |-> b, heap |-> heap]

\* The mock under key k joined with what it extends, and the heap that this
\* leaves.  Extending an unknown key is logged and has no effect.
Resolved(k) ==
    LET b == behaviors[k]
        parent == behaviors[b.extend]
        joined == Appended(heap, parent.actions, View(heap, b.actions))
    IN  IF Extends(b)
        THEN [mock |-> PatchedWith(parent, b, joined.slice), heap |-> joined.heap]
        ELSE [mock |-> b, heap |-> heap]

\* One iteration: extend, register under every channel the expectation
\* names, sort.  The sort works on the slice the repository holds, so the
\* comparison with actionsEqual that follows it never finds a difference.
ResolveBehavior ==
    /\ phase = "resolve"
    /\ LET k == order[i]
           new == Resolved(k)
       IN  IF behaviors[k].kind = "AbstractBehavior"
           THEN UNCHANGED <<heap, behaviors, routes>>
           ELSE /\ behaviors' = [behaviors EXCEPT ![k] = new.mock]
                /\ routes' = [r \in Routes |->
                    IF r \in new.mock.expect.routes
                    THEN Append(routes[r], [key |-> k, mock |-> new.mock])
                    ELSE routes[r]]
                /\ heap' = SortedHeap(new.heap, new.mock.actions)
    /\ Advance(Len(order), "done")
    /\ UNCHANGED <<mocks, order, templates>>

Next ==
    \/ ValidateMock
    \/ PopulateTemplate
    \/ PutBehavior
    \/ ResolveBehavior

Spec == Init /\ [][Next]_vars

-----------------------------------------------------------------------------

SliceOK(s) ==
    /\ s.arr \in 1..Len(heap)
    /\ s.len \in 0..Len(heap[s.arr])

\* Types; every slice lies within its backing array; and the ordered map has
\* each key once (populateBehaviors).
TypeOK ==
    /\ mocks \in Seq(Mock) /\ Len(mocks) > 0
    /\ phase \in {"validate", "templates", "put", "resolve", "done", "failed"}
    /\ heap \in Seq(Seq(Action))
    /\ i \in Nat \ {0}
    /\ order \in Seq(Names) /\ templates \in Seq(Names)
    /\ DOMAIN behaviors = {order[j] : j \in 1..Len(order)}
    /\ Cardinality(DOMAIN behaviors) = Len(order)
    /\ \A k \in DOMAIN behaviors : SliceOK(behaviors[k].actions)
    /\ \A r \in Routes : \A j \in 1..Len(routes[r]) :
        SliceOK(routes[r][j].mock.actions)

(***************************************************************************)
(* What the text says, without memory: the reference for the properties.   *)
(***************************************************************************)

Defined == {mocks[m].key : m \in 1..Len(mocks)}

\* The last definition of a key.
Text(k) ==
    mocks[CHOOSE m \in 1..Len(mocks) :
            /\ mocks[m].key = k
            /\ \A n \in m + 1..Len(mocks) : mocks[n].key # k]

ParentText(k) == Text(Text(k).extend)

HasParent(k) == Text(k).extend \in Defined

\* A behavior that extends an abstract one, or nothing.
SingleLevel(k) ==
    /\ Text(k).kind # "AbstractBehavior"
    /\ HasParent(k) => ParentText(k).kind = "AbstractBehavior"

IsLeaf(k) == \A n \in Defined : Text(n).extend # k

AllActions(k) ==
    IF HasParent(k) THEN ParentText(k).actions \o Text(k).actions ELSE Text(k).actions

ExpectOf(k) ==
    IF HasParent(k) /\ NoExpect(Text(k).expect) THEN ParentText(k).expect
    ELSE Text(k).expect

\* The mocks that define a key for the first time.
Firsts == {m \in 1..Len(mocks) : \A n \in 1..m - 1 : mocks[n].key # mocks[m].key}

KeysOf(places) == [j \in 1..Len(places) |-> mocks[places[j]].key]

\* The keys in the order in which they are first defined.
KeysInOrder == KeysOf(Sublist([m \in 1..Len(mocks) |-> m], Firsts))

\* The behaviors whose own expectation, or whose parent's, names route r.
AnswersTo(r) == {k \in Defined : SingleLevel(k) /\ r \in ExpectOf(k).routes}

\* No behavior extends another that is not abstract.
AllSingleLevel ==
    \A k \in Defined : SingleLevel(k) \/ Text(k).kind = "AbstractBehavior"

SetOf(s) == {s[j] : j \in 1..Len(s)}

(***************************************************************************)
(* "Actions will run from lowest to highest value of the 'order' field; if *)
(* this is the same for two actions the action defined earlier in the      *)
(* abstract behavior runs first, followed by actions in the concrete       *)
(* behavior" (README.md:229), whatever else extends the same abstract      *)
(* behavior, and wherever in the text the definitions stand.  It holds of  *)
(* behaviors that nothing extends, with at most six actions.               *)
(***************************************************************************)
LeavesRunInOrder ==
    phase = "done" =>
        \A k \in Defined : SingleLevel(k) /\ IsLeaf(k) =>
            View(heap, behaviors[k].actions) = StableSort(AllActions(k))

(***************************************************************************)
(* "When an abstract behavior and a behavior extending it both have        *)
(* actions defined, all of them are run when the behavior matches"         *)
(* (README.md:229), of every behavior.                                     *)
(***************************************************************************)
AllActionsRun ==
    phase = "done" =>
        \A k \in Defined : SingleLevel(k) =>
            SetOf(View(heap, behaviors[k].actions)) = SetOf(AllActions(k))

(***************************************************************************)
(* A route is answered by exactly the behaviors whose own expectation, or  *)
(* whose abstract parent's, names it: each one once, in the order in which *)
(* their keys first appear, with its last definition, and never by an      *)
(* abstract behavior (populateBehaviors, second loop).                     *)
(***************************************************************************)
RoutesAnswerInOrder ==
    phase = "done" /\ AllSingleLevel =>
        \A r \in Routes :
            [j \in 1..Len(routes[r]) |-> routes[r][j].key]
                = Sublist(KeysInOrder, AnswersTo(r))

(***************************************************************************)
(* Children never disturb an abstract behavior: at any moment it has its   *)
(* own actions, at most in another order, so a child resolved late gets    *)
(* the same actions as one resolved early (patchedWith, sort.Slice).       *)
(***************************************************************************)
AbstractsKeepTheirActions ==
    phase \in {"resolve", "done"} =>
        \A k \in Defined : Text(k).kind = "AbstractBehavior" =>
            LET view == View(heap, behaviors[k].actions)
            IN  view \in {Text(k).actions, GoSort(Text(k).actions)}
=============================================================================
