------------------------------- MODULE Rendering -------------------------------
(***************************************************************************)
(* How a text is rendered: Context.Render (template.go), with the          *)
(* functions of genLocalFuncMap and redisDo (template_helper.go,           *)
(* redis.go).                                                              *)
(*                                                                         *)
(* Every render makes a template of its own with globalTemplate.New, but   *)
(* what New makes shares three tables with globalTemplate, and so with     *)
(* every other render under way: the functions, which are looked up when   *)
(* they are called; the templates that {{template}} calls; and the table   *)
(* in which Parse stores what it has parsed.  The first has a lock, the    *)
(* other two (one Go map, in Go 1.14) have none.                           *)
(*                                                                         *)
(* The channels render with their OpenMock, /evaluate without one: its     *)
(* redisDo returns nil and runs nothing.                                   *)
(***************************************************************************)
EXTENDS Integers, Sequences

CONSTANTS
    Channels,    \* goroutines that render for traffic: their context has an om
    Evaluators,  \* goroutines of /evaluate: theirs has none
    Sources,     \* what they render
    Names,       \* the keys of Template mocks
    Nil,         \* the nil that redisDo returns without an OpenMock
    MaxRenders   \* bound

\* What a text does: the templates it defines, with {{define}}, and its
\* calls, of redisDo or with {{template}}, in order.
Text ==
    [parses : BOOLEAN, defines : SUBSET Names, calls : Seq({"redisDo"} \cup Names)]

ASSUME RenderingAssumption ==
    /\ Channels \cap Evaluators = {}
    /\ Sources \subseteq Text
    /\ "redisDo" \notin Names
    /\ Nil \notin {"ran", "loaded", "redefined"}
    /\ MaxRenders \in Nat

Renderers == Channels \cup Evaluators

VARIABLES
    up,        \* the process runs
    function,  \* whose redisDo is in the table: a "channel"'s, an "evaluator"'s
    template,  \* the table of templates: "loaded", or "redefined" since
    commands,  \* what runs in Redis: how many commands
    pc,        \* the step of each renderer
    text,      \* what it renders
    got,       \* what its calls have returned
    disturbed, \* history: one of the other kind began since its own Funcs
    renders

tables == <<function, template>>
renderVars == <<up, function, template, commands, pc, text, got, disturbed, renders>>

\* After populateTemplates, which renders templates without an OpenMock.
RenderInit ==
    /\ up = TRUE
    /\ function = "evaluator"
    /\ template = [n \in Names |-> "loaded"]
    /\ commands = 0
    /\ pc = [r \in Renderers |-> "idle"]
    /\ text \in [Renderers -> Sources]
    /\ got = [r \in Renderers |-> <<>>]
    /\ disturbed = [r \in Renderers |-> FALSE]
    /\ renders = 0

GoTo(r, step) == pc' = [pc EXCEPT ![r] = step]

\* The kind of a renderer: the two differ in their redisDo.
Kind(r) == IF r \in Channels THEN "channel" ELSE "evaluator"

\* Rendering r calls Funcs: from now on its own functions are the last.
Disturb(r) ==
    disturbed' =
        [q \in Renderers |-> q # r /\ (disturbed[q] \/ Kind(q) # Kind(r))]

\* Deviation: what an earlier rendering has returned is kept.
BeginAppending(r, t) ==
    /\ up /\ pc[r] = "idle" /\ renders < MaxRenders
    /\ renders' = renders + 1
    /\ text' = [text EXCEPT ![r] = t]
    /\ GoTo(r, "funcs")
    /\ UNCHANGED <<up, tables, commands, got, disturbed>>

\* A condition, a body, a header or a command is to be rendered.
Begin(r, t) ==
    /\ up /\ pc[r] = "idle" /\ renders < MaxRenders
    /\ renders' = renders + 1
    /\ text' = [text EXCEPT ![r] = t]
    /\ got' = [got EXCEPT ![r] = <<>>]
    /\ GoTo(r, "funcs")
    /\ UNCHANGED <<up, tables, commands, disturbed>>

\* Deviation: the functions are installed once, when templates are loaded.
FuncsOnce(r) ==
    /\ up /\ pc[r] = "funcs"
    /\ Disturb(r)
    /\ GoTo(r, "parse")
    /\ UNCHANGED <<up, tables, commands, text, got, renders>>

\* New("").Funcs(...).Funcs(genLocalFuncMap(c.om)): writes the shared table.
Funcs(r) ==
    /\ up /\ pc[r] = "funcs"
    /\ function' = Kind(r)
    /\ Disturb(r)
    /\ GoTo(r, "parse")
    /\ UNCHANGED <<up, template, commands, text, got, renders>>

\* Parse: a bad text is an error; a good one is put into the map.
Parse(r) ==
    /\ up /\ pc[r] = "parse"
    /\ GoTo(r, IF text[r].parses THEN "store" ELSE "idle")
    /\ UNCHANGED <<up, tables, commands, text, got, disturbed, renders>>

Storing == {r \in Renderers : pc[r] = "store"}

\* What the write of the map leaves of what the text defines: of two writes
\* at a time either may be lost.
Kept(r) ==
    IF Storing = {r} THEN {text[r].defines} ELSE SUBSET text[r].defines

AddParseTree(r) ==
    /\ up /\ pc[r] = "store"
    /\ \E kept \in Kept(r) :
        template' = [n \in Names |->
            IF n \in kept THEN "redefined" ELSE template[n]]
    /\ GoTo(r, "execute")
    /\ UNCHANGED <<up, function, commands, text, got, disturbed, renders>>

Calling(r) == pc[r] = "execute" /\ Len(got[r]) < Len(text[r].calls)

NextCall(r) == text[r].calls[Len(got[r]) + 1]

\* Execute: redisDo as the table has it now; ...
CallRedisDo(r) ==
    /\ up /\ Calling(r) /\ NextCall(r) = "redisDo"
    /\ \/ /\ function = "channel"
          /\ commands' = commands + 1
          /\ got' = [got EXCEPT ![r] = Append(@, "ran")]
       \/ /\ function = "evaluator"
          /\ got' = [got EXCEPT ![r] = Append(@, Nil)]
          /\ UNCHANGED commands
    /\ UNCHANGED <<up, tables, pc, text, disturbed, renders>>

\* ... a template as it is defined now; ...
CallTemplate(r) ==
    /\ up /\ Calling(r) /\ NextCall(r) \in Names
    /\ got' = [got EXCEPT ![r] = Append(@, template[NextCall(r)])]
    /\ UNCHANGED <<up, tables, commands, pc, text, disturbed, renders>>

\* ... and the text is rendered.
Rendered(r) ==
    /\ up /\ pc[r] = "execute" /\ ~ Calling(r)
    /\ GoTo(r, "idle")
    /\ UNCHANGED <<up, tables, commands, text, got, disturbed, renders>>

\* The Go runtime ends the process when it sees a map written by two at a
\* time, or read and written.
ConcurrentMapAccess(r) ==
    /\ up /\ pc[r] = "store"
    /\ \E q \in Renderers \ {r} :
        pc[q] = "store" \/ (Calling(q) /\ NextCall(q) \in Names)
    /\ up' = FALSE
    /\ UNCHANGED <<tables, commands, pc, text, got, disturbed, renders>>

Render(r) ==
    \/ Funcs(r) \/ Parse(r) \/ AddParseTree(r)
    \/ CallRedisDo(r) \/ CallTemplate(r) \/ Rendered(r)

RenderNext ==
    \E r \in Renderers :
        \/ \E t \in Sources : Begin(r, t)
        \/ Render(r)
        \/ ConcurrentMapAccess(r)

RenderSpec == RenderInit /\ [][RenderNext]_renderVars

-----------------------------------------------------------------------------

\* Types; and a rendering has made no more calls than its text has.
RenderTypeOK ==
    /\ up \in BOOLEAN
    /\ function \in {"channel", "evaluator"}
    /\ template \in [Names -> {"loaded", "redefined"}]
    /\ commands \in Nat
    /\ pc \in [Renderers -> {"idle", "funcs", "parse", "store", "execute"}]
    /\ text \in [Renderers -> Sources]
    /\ got \in [Renderers -> Seq({Nil, "ran", "loaded", "redefined"})]
    /\ \A r \in Renderers : Len(got[r]) <= Len(text[r].calls)
    /\ disturbed \in [Renderers -> BOOLEAN]
    /\ renders \in 0..MaxRenders

\* What the other kind's redisDo returns.
Foreign(r) == IF Kind(r) = "channel" THEN Nil ELSE "ran"

Misled(r) == \E j \in 1..Len(got[r]) : got[r][j] = Foreign(r)

(***************************************************************************)
(* redisDo is there to "run redis commands" (README.md:312), and an        *)
(* evaluation is "for debugging / development purposes" (bundle.yaml:178)  *)
(* and runs none.  A channel's rendering that loses a command is one       *)
(* during which an evaluation has begun, and an evaluation that runs a     *)
(* command one during which a channel has; what populateTemplates or an    *)
(* earlier rendering has left in the table harms nobody (Render calls      *)
(* Funcs every time).                                                      *)
(***************************************************************************)
OnlyOthersDisturb == \A r \in Renderers : Misled(r) => disturbed[r]

\* Channels run all their commands, and evaluations none.
NobodyIsMisled == \A r \in Renderers : ~ Misled(r)
=============================================================================
