------------------------------- MODULE MockForms -------------------------------
(***************************************************************************)
(* The forms a mock takes between a client of the admin API and the        *)
(* traffic it answers: what the generated models keep of a request and     *)
(* accept (swagger_gen/models), what becomes of it in Redis                *)
(* (pkg/admin/convert.go), what OpenMock.Load makes of it (load.go,        *)
(* model.go), and what it is listed as (MockRepo.AsArray).                 *)
(*                                                                         *)
(* How actions are ordered, and what slices do to mocks that extend one    *)
(* another, is BehaviorRepo's: here no behavior extends another behavior,  *)
(* and all actions have the same order.                                    *)
(***************************************************************************)
EXTENDS Integers, Sequences, FiniteSets, SequencesExt, Lists

CONSTANTS
    Keys,    \* keys of the pattern that the API asks for
    Null     \* the null of JSON and YAML

Channels == {"http", "kafka", "amqp", "grpc"}

Kinds == {"Behavior", "AbstractBehavior", "Template"}

\* A field that is absent, as it should be, or of another type: headers and
\* values that are no map, a duration that is none.
Fields == {"", "good", "bad"}

\* A body is absent, literal, or in a file; "@binary" is body_from_binary_file.
Action ==
    [part : {"reply_http", "send_http", "publish_kafka", "sleep"},
     method : {"", "GET", "get"}, status : {0, 200}, field : Fields,
     body : {"", "text", "@text", "@binary"}]

ZeroAction ==
    [part |-> "sleep", method |-> "", status |-> 0, field |-> "", body |-> ""]

\* "" is an absent field everywhere, and "///" a key without any word
\* character; on: the channels that expect names.
Mock ==
    [kind : Kinds \cup {"", "Other"}, key : Keys \cup {"", "///"},
     extend : Keys \cup {""}, values : Fields,
     on : SUBSET Channels, method : {"", "GET", "get"},
     template : {"", "parses", "broken"}, actions : Seq(Action \cup {Null})]

EachAction(m, Op(_)) ==
    [m EXCEPT !.actions = [j \in 1..Len(m.actions) |-> Op(m.actions[j])]]

(***************************************************************************)
(* The generated models.                                                   *)
(***************************************************************************)

\* They have no field for binary files, and the consumers drop what they do
\* not know.
ActionModel(a) ==
    IF a # Null /\ a.body = "@binary" THEN [a EXCEPT !.body = ""] ELSE a

MockModel(m) == IF m = Null THEN m ELSE EachAction(m, ActionModel)

\* Their enums, the empty string included, and the pattern of keys; nothing
\* else of an action or an expectation is validated.
SendHTTPValidates(a) == a.method \in {"", "GET"}

ActionValidates(a) == a # Null /\ a.part = "send_http" => SendHTTPValidates(a)

HTTPValidates(m) == m.method \in {"", "GET"}

ExpectValidates(m) == "http" \in m.on => HTTPValidates(m)

KeyValidates(m) == m.key \in Keys \cup {""}

KindValidates(m) == m.kind \in Kinds \cup {""}

ModelValidates(m) ==
    m # Null =>
       /\ \A j \in 1..Len(m.actions) : ActionValidates(m.actions[j])
       /\ ExpectValidates(m) /\ KeyValidates(m) /\ KindValidates(m)

\* Mocks.Validate.
BatchValidates(batch) == \A j \in 1..Len(batch) : ModelValidates(batch[j])

\* MockEvalRequest.Validate: a body's only mock; of a context everything
\* validates.
EvaluationValidates(batch) == batch # <<>> => ModelValidates(batch[1])

(***************************************************************************)
(* swaggerToOpenmockMock: JSON, YAML, and a strict unmarshalling whose     *)
(* error is logged: what does not fit is left out.                         *)
(***************************************************************************)

FieldRead(f) == IF f = "bad" THEN "" ELSE f

ActionRead(a) ==
    IF a = Null THEN ZeroAction ELSE [a EXCEPT !.field = FieldRead(@)]

\* Deviation: values are left out as well.
ConvertedWithoutValues(m) == [EachAction(m, ActionRead) EXCEPT !.values = ""]

Converted(m) == [EachAction(m, ActionRead) EXCEPT !.values = FieldRead(@)]

(***************************************************************************)
(* OpenMock.Load, of the mocks in a text.                                  *)
(***************************************************************************)

KindOf(m) == IF m.kind = "" THEN "Behavior" ELSE m.kind

IsZero(a) == [a EXCEPT !.part = "sleep"] = ZeroAction

Replies(m) ==
    {j \in 1..Len(m.actions) :
        /\ m.actions[j] # Null /\ m.actions[j].part = "reply_http"
        /\ ~ IsZero(m.actions[j])}

\* The strict unmarshalling, Mock.Validate of the model that is served, and
\* populateTemplates.
Loads(m) ==
    /\ m.values # "bad"
    /\ \A j \in 1..Len(m.actions) : m.actions[j] # Null => m.actions[j].field # "bad"
    /\ m.key # ""
    /\ KindOf(m) \in Kinds
    /\ KindOf(m) = "Template" => m.on = {} /\ m.actions = <<>> /\ m.template # "broken"
    /\ KindOf(m) = "Behavior" => m.template = "" /\ Cardinality(Replies(m)) <= 1

\* loadFile, readFile: the text of a file, or no text if it is not there.  A
\* binary file is read, too, but stays a file by name.
FileLoaded(a, there) ==
    IF a.body = "@text" THEN [a EXCEPT !.body = IF there THEN "text" ELSE ""] ELSE a

Loaded(m, there) ==
    LET Read(a) == FileLoaded(ActionRead(a), there)
    IN  [EachAction(m, Read) EXCEPT !.kind = KindOf(m)]

\* The last mock of a key.
LastOf(text, k) ==
    text[CHOOSE j \in 1..Len(text) :
            /\ text[j].key = k
            /\ \A n \in j + 1..Len(text) : text[n].key # k]

Defines(text, k) == \E j \in 1..Len(text) : text[j].key = k

\* patchedWith: the child's fields where it has them, the parent's where it has
\* not, and all actions.
PatchedWith(parent, child) ==
    LET expects == IF child.on = {} THEN parent ELSE child IN
    [child EXCEPT
        !.on = expects.on, !.method = expects.method,
        !.values = IF @ = "" THEN parent.values ELSE @,
        !.template = IF @ = "" THEN parent.template ELSE @,
        !.actions = parent.actions \o @]

Resolved(text, k) ==
    LET m == LastOf(text, k) IN
    IF m.kind # "AbstractBehavior" /\ m.extend # "" /\ Defines(text, m.extend)
    THEN PatchedWith(LastOf(text, m.extend), m)
    ELSE m

\* A text, when it is read (a list of its own, for TLC's sake).
LoadedText(mocks, there) ==
    [j \in 1..Len(mocks) |-> Loaded(mocks[j], there)] \o <<>>

\* The repository: every mock of kind Template, and one mock for each key.
Repository(mocks, there) ==
    LET text == LoadedText(mocks, there)
    IN  [templates |-> Sublist(text, {m \in Mock : m.kind = "Template"}),
         behaviors |-> [k \in {text[j].key : j \in 1..Len(text)} |->
                            Resolved(text, k)]]

\* The keys of behaviors that some channel looks at.
Answering(repo) ==
    {k \in DOMAIN repo.behaviors :
        repo.behaviors[k].kind # "AbstractBehavior" /\ repo.behaviors[k].on # {}}

(***************************************************************************)
(* AsArray: templates, and the mocks of every channel's table, in the      *)
(* order of Go's maps; a mock of two channels comes twice, which makes no  *)
(* difference to those who read it.                                        *)
(***************************************************************************)
AsArray(repo) ==
    LET keys == SetToSeq(Answering(repo))
    IN  repo.templates \o [j \in 1..Len(keys) |-> repo.behaviors[keys[j]]]
=============================================================================
