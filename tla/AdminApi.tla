-------------------------------- MODULE AdminApi --------------------------------
(***************************************************************************)
(* A request to the admin API from its arrival to its answer: routing, the *)
(* checks of go-openapi's middleware, the binding and validation of the    *)
(* generated operations (swagger_gen/restapi), the handlers and their      *)
(* conversions (pkg/admin); and what a reload makes of the outcome.  Some  *)
(* of the requests are omctl's (cmd/omctl), which pushes the contents of a *)
(* local directory.                                                        *)
(*                                                                         *)
(* Requests come one at a time here, and their Redis commands are not      *)
(* interrupted: AdminReload is about that.  Here mocks are more than       *)
(* model values, and all the ways to refuse a request are kept.            *)
(***************************************************************************)
EXTENDS MockForms

CONSTANTS
    Sets,       \* the Redis hashes
    Base,       \* the one without a set key
    Disk,       \* the mocks of the templates directory
    Files,      \* whether the files that mocks name are there
    Requests,   \* what clients may send
    Locals,     \* the mocks of the directories that omctl pushes
    Absent,     \* no request, body, repository or set
    Garbage,    \* a body that does not parse
    Listed,     \* a body: what getTemplates answered last
    MaxArrivals,  \* bound
    MaxFailures   \* bound: Redis commands that fail

Posts == {"postTemplates", "postTemplateSet"}

WithoutBody ==
    {"getTemplates", "deleteTemplates", "deleteTemplate", "deleteTemplateSet",
     "getHealth"}

Operations == Posts \cup WithoutBody \cup {"evaluate"}

\* The path of an operation with another method, and an unknown path.
Routes == Operations \cup {"otherMethod", "otherPath"}

\* media: what the Content-Type header says of the body, or "broken" if it
\* cannot be read.  What a client accepts makes no difference: the request's
\* own media type is the default offer, and the default producer the last
\* resort.  The body of an evaluation is a batch of one mock, or of none if
\* it has no mock.
ApiRequest ==
    [op : Routes, set : Sets, key : Keys \cup {""},
     media : {"json", "yaml", "other", "broken"},
     body : {Absent, Garbage, Listed} \cup Seq(Mock \cup {Null})]

ASSUME ApiAssumption ==
    /\ Base \in Sets /\ IsFiniteSet(Sets)
    /\ Null \notin Mock /\ Null \notin Action
    /\ Disk \in Seq(Mock) /\ \A j \in 1..Len(Disk) : Loads(Disk[j])
    /\ Files \in BOOLEAN
    /\ Requests \subseteq ApiRequest
    /\ Locals \subseteq Seq(Mock)
    /\ Absent \notin ApiRequest /\ Absent # Listed
    /\ {Absent, Garbage, Listed} \cap Seq(Mock \cup {Null}) = {}
    /\ MaxArrivals \in Nat /\ MaxFailures \in Nat

VARIABLES
    store,    \* the hashes: of each set, the mock under each key
    repo,     \* OpenMock.repo
    up,       \* the process runs; a Load that fails ends it
    armed,    \* a reload timer runs
    request,  \* the one being handled, or Absent
    step,     \* where it is
    status,   \* its answer: a status, 0 if the handler panics
    payload,  \* of a 200: the mocks in it
    listed,   \* the last listing: getTemplates' answer, or what omctl sent
    before,   \* history: store and armed when the request came
    backup,   \* history: the repository it lists, Absent when outdated
    restored, \* history: the set to which the listing was posted, or Absent
    arrivals, failures

service == <<store, repo, up, armed>>
history == <<listed, backup, restored>>
apiVars == <<store, repo, up, armed, request, step, status, payload, listed,
             before, backup, restored, arrivals, failures>>

ApiInit ==
    /\ store = [s \in Sets |-> <<>>]
    /\ repo = Repository(Disk, Files)
    /\ up = TRUE /\ armed = FALSE
    /\ request = Absent /\ step = "idle"
    /\ status = 0 /\ payload = <<>>
    /\ listed = <<>> /\ before = <<store, armed>>
    /\ backup = Absent /\ restored = Absent
    /\ arrivals = 0 /\ failures = 0

Changing == Posts \cup {"deleteTemplates", "deleteTemplate", "deleteTemplateSet"}

Arrive(r) ==
    /\ up /\ step = "idle" /\ arrivals < MaxArrivals
    /\ arrivals' = arrivals + 1
    /\ request' = r
    /\ step' = "route"
    /\ before' = <<store, armed>>
    /\ restored' = IF r.op \in Changing THEN Absent ELSE restored
    /\ UNCHANGED <<service, status, payload, failures>>

Receive ==
    \E r \in Requests :
        /\ r.body = Listed => backup # Absent
        /\ Arrive(IF r.body = Listed THEN [r EXCEPT !.body = listed] ELSE r)
        /\ UNCHANGED <<listed, backup>>

\* A request to a set, as omctl sends it.
SetRequest(op, s, batch) ==
    [op |-> op, set |-> s, key |-> "", media |-> "yaml", body |-> batch]

\* A listing, as it is sent and received.
Listing(array) == [j \in 1..Len(array) |-> MockModel(array[j])]

\* omctl push: when the remote answers, the local directory loads as it would
\* in an instance, and what that would list is posted.  The answer's status
\* is not looked at.
Push ==
    \E text \in Locals, s \in Sets :
        /\ \A j \in 1..Len(text) : Loads(text[j])
        /\ backup' = Repository(text, TRUE)
        /\ listed' = Listing(AsArray(backup'))
        /\ Arrive(SetRequest(IF s = Base THEN "postTemplates" ELSE "postTemplateSet",
                             s, listed'))

\* omctl delete: never of the set without a key.
DeleteSet ==
    \E s \in Sets \ {Base} :
        /\ Arrive(SetRequest("deleteTemplateSet", s, Absent))
        /\ UNCHANGED <<listed, backup>>

Omctl == Push \/ DeleteSet

\* The statuses of the generated responders: every operation has a default
\* response, for which the handlers choose a status, here always 500.
GetHealthResponses == {200, 500}

GetTemplatesResponses == {200, 500}

PostTemplatesResponses == {200, 400, 500}

PostTemplateSetResponses == {200, 400, 500}

DeleteTemplateResponses == {204, 400, 404, 500}

DeleteTemplatesResponses == {204, 500}

DeleteTemplateSetResponses == {204, 500}

EvaluateResponses == {200, 500}

Responses(op) ==
    CASE op = "getHealth" -> GetHealthResponses
      [] op = "getTemplates" -> GetTemplatesResponses
      [] op = "postTemplates" -> PostTemplatesResponses
      [] op = "postTemplateSet" -> PostTemplateSetResponses
      [] op = "deleteTemplate" -> DeleteTemplateResponses
      [] op = "deleteTemplates" -> DeleteTemplatesResponses
      [] op = "deleteTemplateSet" -> DeleteTemplateSetResponses
      [] op = "evaluate" -> EvaluateResponses

AnswerWith(code, mocks) ==
    /\ step' = "answered"
    /\ status' = code
    /\ payload' = mocks

Refuse(code) ==
    /\ AnswerWith(code, <<>>)
    /\ UNCHANGED <<service, request, before, history, arrivals, failures>>

(***************************************************************************)
(* The middleware.                                                         *)
(***************************************************************************)

\* The router, made from the embedded specification, and initHandlerCache.
Route ==
    /\ step = "route"
    /\ \/ request.op = "otherPath" /\ Refuse(404)
       \/ request.op = "otherMethod" /\ Refuse(405)
       \/ /\ request.op \in Operations
          /\ step' = "check"
          /\ UNCHANGED <<service, request, status, payload, before, history,
                         arrivals, failures>>

HasBody == request.body # Absent

ConsumersFor == {"json", "yaml"}

\* BindValidRequest: a request with a body, of whatever operation, needs a
\* media type that has a consumer.
CheckMedia ==
    /\ step = "check"
    /\ \/ HasBody /\ request.media = "broken" /\ Refuse(400)
       \/ /\ HasBody /\ request.media \notin ConsumersFor \cup {"broken"}
          /\ Refuse(415)
       \/ /\ HasBody => request.media \in ConsumersFor
          /\ step' = IF request.op \in WithoutBody THEN "handle" ELSE "bind"
          /\ UNCHANGED <<service, request, status, payload, before, history,
                         arrivals, failures>>

\* What the consumers, of either format, make of the body.
Batch == [j \in 1..Len(request.body) |-> MockModel(request.body[j])]

\* The body is required, must parse, and has to be valid.
Bind(op, valid) ==
    /\ step = "bind" /\ request.op = op
    /\ \/ ~ HasBody /\ Refuse(422)
       \/ request.body = Garbage /\ Refuse(400)
       \/ HasBody /\ request.body # Garbage /\ ~ valid /\ Refuse(422)
       \/ /\ HasBody /\ request.body # Garbage /\ valid
          /\ request' = [request EXCEPT !.body = Batch]
          /\ step' = "handle"
          /\ UNCHANGED <<service, status, payload, before, history, arrivals,
                         failures>>

\* Deviation: the mocks are not validated.
BindTemplatesUnvalidated == Bind("postTemplates", TRUE)

\* BindRequest of the operations that have a body.
BindTemplates == Bind("postTemplates", BatchValidates(Batch))

BindTemplateSet == Bind("postTemplateSet", BatchValidates(Batch))

BindEvaluation == Bind("evaluate", EvaluationValidates(Batch))

(***************************************************************************)
(* The handlers.                                                           *)
(***************************************************************************)

Handling(ops) == step = "handle" /\ request.op \in ops

Target == IF request.op = "postTemplateSet" THEN request.set ELSE Base

GetHealth ==
    /\ Handling({"getHealth"})
    /\ Refuse(200)

\* The repository that is served, whatever the hashes hold.
GetTemplates ==
    /\ Handling({"getTemplates"})
    /\ listed' = Listing(AsArray(repo))
    /\ AnswerWith(200, listed')
    /\ backup' = repo
    /\ restored' = Absent
    /\ UNCHANGED <<service, request, before, arrivals, failures>>

HasNull(batch) == \E j \in 1..Len(batch) : batch[j] = Null

Converts(batch) == [j \in 1..Len(batch) |-> Converted(batch[j])]

\* addTemplates: a hash after HSET of these mocks, in order.
AddTemplates(hash, mocks) ==
    [k \in DOMAIN hash \cup {mocks[j].key : j \in 1..Len(mocks)} |->
        IF Defines(mocks, k) THEN LastOf(mocks, k) ELSE hash[k]]

\* Deviation: each mock is converted when it is its turn to be stored.
PostTemplatesOneByOne ==
    /\ Handling(Posts)
    /\ \E n \in 0..Len(request.body) :
        LET mocks == Converts(SubSeq(request.body, 1, n)) IN
        /\ ~ HasNull(SubSeq(request.body, 1, n))
        /\ n < Len(request.body) => request.body[n + 1] = Null
        /\ store' = [store EXCEPT ![Target] = AddTemplates(@, mocks)]
        /\ armed' = (armed \/ n = Len(request.body))
        /\ IF n < Len(request.body) THEN AnswerWith(0, <<>>)
           ELSE AnswerWith(200, request.body)
    /\ UNCHANGED <<repo, up, request, before, history, arrivals, failures>>

\* PostTemplates, PostTemplateSet: the whole batch is converted (which a null
\* among the mocks turns into a panic), then one HSET follows another until
\* one fails.
PostTemplates ==
    /\ Handling(Posts)
    /\ \/ HasNull(request.body) /\ Refuse(0)
       \/ /\ ~ HasNull(request.body)
          /\ store' = [store EXCEPT ![Target] = AddTemplates(@, Converts(request.body))]
          /\ armed' = TRUE
          /\ AnswerWith(200, request.body)
          /\ restored' = IF backup # Absent /\ request.body = listed
                         THEN Target ELSE Absent
          /\ backup' = IF restored' = Absent THEN Absent ELSE backup
          /\ UNCHANGED <<repo, up, request, before, listed, arrivals, failures>>
       \/ /\ ~ HasNull(request.body) /\ request.body # <<>>
          /\ failures < MaxFailures
          /\ \E n \in 0..Len(request.body) :
                store' = [store EXCEPT ![Target] =
                    AddTemplates(@, SubSeq(Converts(request.body), 1, n))]
          /\ failures' = failures + 1
          /\ AnswerWith(400, <<>>)
          /\ backup' = Absent
          /\ UNCHANGED <<repo, up, armed, request, before, listed, restored,
                         arrivals>>

Without(hash, keys) == [k \in DOMAIN hash \ keys |-> hash[k]]

\* The effect of a DEL or a HDEL.
Removes(set, keys) ==
    /\ store' = [store EXCEPT ![set] = Without(@, keys)]
    /\ backup' = Absent

Delete(set, keys) ==
    /\ Removes(set, keys)
    /\ armed' = TRUE
    /\ AnswerWith(204, <<>>)
    /\ UNCHANGED <<repo, up, request, before, listed, restored, arrivals,
                   failures>>

DeleteTemplates ==
    /\ Handling({"deleteTemplates"})
    /\ Delete(Base, DOMAIN store[Base])

DeleteTemplateSet ==
    /\ Handling({"deleteTemplateSet"})
    /\ Delete(request.set, DOMAIN store[request.set])

\* A key that is not there is an error like any other: ErrNil.
DeleteTemplate ==
    /\ Handling({"deleteTemplate"})
    /\ \/ request.key \notin DOMAIN store[Base] /\ Refuse(500)
       \/ request.key \in DOMAIN store[Base] /\ Delete(Base, {request.key})

\* DEL, HGET or HDEL fails; a deletion whose reply is lost has its effect, but
\* no reload follows.
DeletionFails ==
    /\ Handling({"deleteTemplates", "deleteTemplate", "deleteTemplateSet"})
    /\ failures < MaxFailures
    /\ failures' = failures + 1
    /\ AnswerWith(500, <<>>)
    /\ \/ UNCHANGED <<store, backup>>
       \/ request.op = "deleteTemplate" /\ Removes(Base, {request.key})
       \/ request.op = "deleteTemplates" /\ Removes(Base, DOMAIN store[Base])
       \/ /\ request.op = "deleteTemplateSet"
          /\ Removes(request.set, DOMAIN store[request.set])
    /\ UNCHANGED <<repo, up, armed, request, before, listed, restored, arrivals>>

\* PostEvaluate: without a mock it panics; Evaluator is about the rest.
PostEvaluate ==
    /\ Handling({"evaluate"})
    /\ IF request.body = <<>> THEN Refuse(0)
       ELSE \E code \in {200, 500} : Refuse(code)

\* The answer is sent; of a panic net/http closes the connection.
Respond ==
    /\ step = "answered"
    /\ step' = "idle" /\ request' = Absent
    /\ UNCHANGED <<service, status, payload, before, history, arrivals, failures>>

(***************************************************************************)
(* The reload.                                                             *)
(***************************************************************************)

Contents(hash) ==
    LET keys == SetToSeq(DOMAIN hash)
    IN  [j \in 1..Len(keys) |-> hash[keys[j]]]

\* The text of a load: KEYS lists the sets in any order.
Text(order) ==
    Disk \o Chain([j \in 1..Len(order) |-> Contents(store[order[j]])])

\* exec, and Load: between two requests, or in the middle of one.
Reload ==
    /\ up /\ armed
    /\ armed' = FALSE
    /\ \E order \in SetToSeqs(Sets) :
        LET text == Text(order) IN
        IF \A j \in 1..Len(text) : Loads(text[j])
        THEN repo' = Repository(text, Files) /\ UNCHANGED up
        ELSE up' = FALSE /\ UNCHANGED repo
    /\ step' = "idle" /\ request' = Absent
    /\ UNCHANGED <<store, status, payload, before, history, arrivals, failures>>

Handle ==
    \/ GetHealth \/ GetTemplates \/ PostTemplates
    \/ DeleteTemplates \/ DeleteTemplateSet \/ DeleteTemplate \/ DeletionFails
    \/ PostEvaluate

ApiNext ==
    \/ Receive \/ Omctl \/ Route \/ CheckMedia
    \/ BindTemplates \/ BindTemplateSet \/ BindEvaluation
    \/ Handle \/ Respond \/ Reload

ApiSpec == ApiInit /\ [][ApiNext]_apiVars

-----------------------------------------------------------------------------

\* The statuses of the middleware; 0 is a handler's panic.
Refusals == {0, 400, 404, 405, 415, 422}

\* Types; only what has passed the models of the API reaches a handler
\* (BindValidRequest), and every answer is one that the operation has.
ApiTypeOK ==
    /\ DOMAIN store = Sets
    /\ \A s \in Sets : \A k \in DOMAIN store[s] :
        store[s][k] \in Mock /\ store[s][k].key = k
    /\ {up, armed} \subseteq BOOLEAN /\ restored \in Sets \cup {Absent}
    /\ step \in {"idle", "route", "check", "bind", "handle", "answered"}
    /\ step = "answered" =>
        status \in Refusals \cup
            IF request.op \in Operations THEN Responses(request.op) ELSE {}
    /\ step = "handle" /\ request.op \in Posts => BatchValidates(request.body)
    /\ arrivals \in 0..MaxArrivals /\ failures \in 0..MaxFailures

\* Those that no handler answers with.
Unhandled == Refusals \ {400}

(***************************************************************************)
(* A request that is refused before its handler, or whose handler panics,  *)
(* has changed nothing and starts no reload, however many of its mocks are *)
(* in order (BindValidRequest, swaggerToOpenmockMockArray).                *)
(***************************************************************************)
RefusedChangesNothing ==
    step = "answered" /\ status \in Unhandled => before = <<store, armed>>

\* What a mock goes through without loss on its way from the repository and
\* back: it has no binary file, and nothing is merged into it again.
SurvivesTheTrip(m) ==
    /\ ~ Defines(Disk, m.extend)
    /\ \A s \in Sets : m.extend \notin DOMAIN store[s]
    /\ \A j \in 1..Len(m.actions) : m.actions[j].body # "@binary"

(***************************************************************************)
(* What an instance lists can be posted, back to it or, by omctl, from a   *)
(* local directory: after the reload a mock that extends nothing there and *)
(* has no binary file answers as it did where it was listed, if no other   *)
(* set has it, whatever it was made from (ToYAML, GetTemplates,            *)
(* PostTemplates, openmockToSwaggerMock, Load).  An instance that merges a *)
(* second reply, or a template, into a behavior lists what no instance     *)
(* loads (Validate): there is nothing to say then, as the remote ends.     *)
(***************************************************************************)
PostingBackKeeps ==
    restored # Absent /\ up /\ ~ armed =>
        \A k \in Answering(backup) :
            /\ SurvivesTheTrip(backup.behaviors[k])
            /\ \A s \in Sets \ {restored} : k \notin DOMAIN store[s]
            => /\ k \in Answering(repo)
               /\ repo.behaviors[k] = backup.behaviors[k]
=============================================================================
