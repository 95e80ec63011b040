# OpenMock in TLA+

A verification development for OpenMock, the Go service that mocks HTTP, gRPC, Kafka and
AMQP. It models what the service's own code decides: which mocks an instance serves and
when, how mocks inherit from each other, which of them answers a request or a message,
what the admin API accepts and what becomes of it, how the process stops, and what happens
to messages when connections, processes and brokers fail. Line numbers are those of the
repository.

## 1. The system

An instance is one process. `Start` (`openmock.go:112`) loads mocks from a
templates directory and from Redis into a repository, which does not change any
more, and starts one goroutine for each enabled channel. An admin API
(`pkg/admin`) edits the mocks in Redis, and makes an edit effective by replacing
the whole process.

| component | state | operations | what makes it correct |
|---|---|---|---|
| admin API (`crud.go`, `handler.go`) | Redis hashes ("template sets"), a reload timer | POST and DELETE of templates and sets, evaluate | what it stores is served sooner or later; nothing stale is served without a reload on its way |
| load (`load.go:27-54`, `155-207`) | text read so far | read the directory; `KEYS`; `HGETALL` for each set; validate | the repository is a consistent reading although the reads are not one transaction |
| behavior repository (`load.go:56-147`, `275-304`; `model.go`) | ordered map of behaviors, slices of actions, a table per channel | validate, define templates, extend, register, sort | every behavior runs its own and its parent's actions, in order, whatever else is defined |
| HTTP and gRPC (`http.go`, `grpc.go`) | per request; per gRPC method one request and one response message | decode, dispatch, reply | an answer is made from the request it answers |
| action dispatch (`handle_actions.go`, `template.go`) | Redis keys that templates use | choose the first mock whose condition holds, run its actions until one fails | the mock that answers did match; nothing is answered by luck |
| Kafka (`kafka.go`) | consumers, producer, marked offsets | one goroutine per topic: receive, decode, act, mark; `Stop` | at least once and in order |
| AMQP (`amqp.go`) | a connection per worker and per publication | connect, declare, consume with auto-ack, act, connect again; publish | at most once and in order; connections are closed; queues are drained |
| rendering (`template.go`, `template_helper.go`) | tables of functions and templates, shared by all renders | install functions, parse, execute | a render runs the functions of its own context |
| evaluator (`pkg/evaluator`) | none | what would this mock do with this context: try its route, its condition, list its actions | it says what dispatch does |
| admin requests (`swagger_gen/restapi`, `swagger_gen/models`, `convert.go`) | the request | route, check media types, bind, validate, convert, handle, respond | a refusal changes nothing; what is listed can be posted back |
| `omctl` (`cmd/omctl`) | a local directory | push what it would list, delete a set | what is pushed is served |
| process (`swagger_gen/restapi/server.go`, `configure_open_mock.go`, `main.go`) | listeners, servers, a channel of signals, a WaitGroup | listen, serve, handle signals, drain, exit | it stops gracefully, and it stops |
| hot reload (`vendor/github.com/teamwork/reload`) | a directory watch | exec when a file is written | edits are followed by a reload |
| template functions, payload files, logging | none of their own | | |

Components meet in three places: Redis (the admin API's template sets, and the
keys that templates read and write with `redisDo`), the repository (written by
the load, read by every channel), and the process itself (a reload, a `Fatalf`
in any goroutine, or a panic ends everything at once).

What is hard here: handlers of the admin API interleave with each other and with the timer
that ends the process; stored mocks outlive the process that accepted them; a signal comes
while servers start, or while a reload is due; concurrent renders overwrite each other's
functions; a mock is converted several times on its way in and out; Go slices share
memory; consumers act on a message before or after the broker forgets it; goroutines share
lists and protobuf messages without locks; and a mock's conditions are evaluated one after
another while other requests change what they read. `PROJECT.json` lists each of these
hazards at its line.

## 2. Modules

| module | models | runs |
|---|---|---|
| `Templates` | vocabulary of mocks, sets, winners; shared | |
| `TemplateService` | abstract: what an instance promises about the mocks it serves | `admin_api` |
| `AdminReload` | admin API, Redis, directory, timer, watcher, load, restarts; implements `TemplateService` | `admin_*` |
| `AdminReloadProofs` | theorems about `AdminReload` | |
| `BehaviorRepo` | `Validate`, `populateTemplates`, `populateBehaviors`, `patchedWith`, with backing arrays | `behavior_*` |
| `KafkaChannel` | `kafka.go` and `Stop` | `kafka` |
| `AmqpChannel` | `amqp.go` | `amqp` |
| `AmqpChannelProofs` | theorems about `AmqpChannel` | |
| `Dispatch` | `http.go`, `grpc.go`, `handle_actions.go`, `redisDo`, `Evaluate` | `dispatch`, `grpc_shared` |
| `Rendering` | `template.go`, `genLocalFuncMap`, `redisDo`: renders that share their tables | `rendering` |
| `Lists` | what the code does with lists: Go's sort, the loop that collects, the loop that joins | |
| `ListProofs` | what they return, for lists of any length: the lemmas the other proofs share | |
| `BehaviorRepoProofs`, `KafkaChannelProofs`, `DispatchProofs` | theorems about the modules they are named for | |
| `EvaluatorProofs` | theorems about `Evaluator` and `Rendering` | |
| `AdminProofs` | theorems about `AdminServer` and `AdminApi` | |
| `Evaluator` | `pkg/evaluator`, against the routes and actions of the same mock | `evaluator` |
| `MockForms` | the generated models and their validation, both conversions, payload files, `Load`, `AsArray`: operators | `api` |
| `AdminApi` | a request from the router to its answer, the reload after it, and `omctl`; composes `MockForms` | `api` |
| `AdminServer` | `main`, the generated server, signals, graceful shutdown, reload | `server` |
| `MC*` | small instances | |

Definitions introduced by "Deviation:" are variants of the definition that
follows them, each with a plausible mistake. They are part of no
specification; substituting one shows that a property notices the mistake.

### AdminReload

`store` is the Redis hashes, `disk` the directory, `served` the repository
(`om.repo`), `load` a load in progress, `conn` the handler of each admin client.
A handler takes one step per Redis command: `Begin`, then `AddTemplate` for each
mock of a batch, or `FindTemplate` and `DeleteTemplates`, then `ReloadModel`
(which arms the timer) and `Respond`. `CommandFails` is any command that
returns an error, applied by Redis or not. `Exec` is the timer's function or the
watcher's callback; `Die` a crash or a `Fatalf`; `Restart` the supervisor
(`docker-compose.yml` restarts on failure). `LoadYAML`, `ListSets`, `LoadSet`, `Serve` and
`LoadFails` are the load. `EditFile` and `ForeignWrite` are changes from
outside. Timers are one flag because the first to fire ends the process and with
it the others. A mock is a model value; `Valid` are those that `Load` accepts.

`orphans` is a history variable: keys changed by a request that then failed, or
from outside. Nobody schedules a reload for them, so a property about staleness
has to except them; it is emptied when a new load begins.

### BehaviorRepo

The loops of `Load` run one iteration per step. `heap` holds the backing arrays of
the action slices; `Appended` is Go's `append` with its growth rule, and `GoSort` (in
`Lists`) is `sort.Slice` of the Go release in the Dockerfile (1.14) up to 12 elements, one
pass over elements six apart and an insertion sort. All other fields of a mock
are values. Only which mock extends which, which channel tables it is put in,
and its actions matter to the properties.

### KafkaChannel

Each topic has a goroutine (`worker`) that creates a consumer, appends it to the
list without a lock (`ReadList`, `WriteList`), and then receives, acts and
marks. `Position`, `Join`, `Commit` and `Rebalance` are sarama-cluster, from its
vendored source: a group without a commit begins behind the newest message.
A message is just whether the pipeline function decodes it. `Stop` is called by
`admin.Setup` right after the start (a deferred call), so it finds no client
(`StopTooEarly`) or any part of one. `handled` records offsets that were acted
on; `first` where a group without a commit last began.

### AmqpChannel

A worker goes through `Connect`, `PrepareChannel`, `Consume`, then `Receive` for
each delivery; `Reconnect` is the end of the range over deliveries. When its
mock publishes, the worker's own goroutine runs `PublishDial`,
`PublishPrepare` and `Publish` before the next delivery. The broker forgets a
message in `Deliver`; what the client library had buffered when a connection
ends may or may not be received. Messages are transient, so `BrokerRestarts`
empties the queues. `open` counts connections that a worker has dialled and not
closed.

### Dispatch

Each slot is a client with one request at a time. HTTP and gRPC handlers share
`MatchCondition` and the actions. A condition is the set of pairs of a payload and a
Redis value for which it renders to "true", and an action has the set of those for which
its templates render at all (`renders`); a redis action also has the values that its
commands set, up to one that does not render. `request` and `response` are the
protobuf messages that all requests to a gRPC method share. `possible` and
`certain` record which mocks have matched at some time, or all the time, since
the handler had its payload. `Evaluate` is what a client of `/evaluate` gets. The
evaluator renders conditions, bodies and payloads without an OpenMock, for which
`redisDo` returns nil (`redis.go:84`, `pkg/evaluator/http.go:31`, `kafka.go:20`), so they
are looked up with the value `Nil`. A body that renders in traffic may not render there:
the answer is then a 500, and no list. A render is one
step here, with the functions of its own context. That is `Rendering`'s subject,
and its theorem `AloneUndisturbed` is what allows it: as long as nothing is
evaluated, a channel's render never finds functions other than a channel's. What
`dispatch` says of traffic that meets evaluations holds for renders that these do
not disturb.

### Rendering

Each renderer is a goroutine of a channel or of `/evaluate` that renders one text
after another. `Funcs` writes the table of functions that all templates made from
`globalTemplate` share, `Parse` and `AddParseTree` the set of templates,
and `CallRedisDo` and `CallTemplate` look up what is there when they execute.
The set is a Go map without a lock: of two writes either may be lost, or the
runtime ends the process (`ConcurrentMapAccess`). A text is its definitions and
its calls. `disturbed` is a history variable: since this renderer's `Funcs` one
of the other kind has called its own.

### Evaluator

One request goes through `CheckChannelCondition`, `ConditionContext`,
`CheckCondition`, and `PerformAction` for each action. Paths, topics and bodies
are model values; what `echo` and `http.NewRequest` do is modelled as far as the
code depends on it (a path that does not parse gives no request). A template renders for
traffic and for the evaluator alike, or for neither: none of them calls `redisDo` here,
which `Dispatch` is about. The last section of
the module says what traffic does with the same mock: whether it is routed to it,
matches, and performs its actions.

### MockForms and AdminApi

`MockForms` has no state. A mock is a record with the fields that some step
treats in a way of its own: its kind, key, parent, channels, method, values,
template and actions; and each field has a value for each such way (absent, good,
of a wrong type; literal, in a file, in a binary file). `MockModel` and
`ModelValidates` are the generated models, `Converted` is `swaggerToOpenmockMock`, `Loads` and
`Repository` are `Load`, `AsArray` the listing. Ordering and shared arrays are left to
`BehaviorRepo`, and here only abstract behaviors are extended.

`AdminApi` takes a request through `Route`, `CheckMedia`, `Bind*`, a handler and
`Respond`. `CheckMedia` is `BindValidRequest` of the vendored go-openapi: it asks for a
Content-Type that has a consumer, and an `Accept` header decides nothing, since the
request's own type is the default offer (`context.go:295`, `negotiate.go:46`); so there is
no 406. A deletion that fails may have had its effect, if only the reply of Redis was
lost (`DeletionFails`), as may a post's commands. `status` 0 is a panic, of which
`net/http` closes the connection.
`store` is Redis with contents, `repo` what is served, and `Reload` may come between any
two steps. One request is handled at a time, since interleavings are
`AdminReload`'s. `Push` and `DeleteSet` are `omctl`: the local directory is loaded
as by an instance, and its listing posted. `backup` and `restored` are history
variables: the repository that the last listing was made from, and where
the listing was posted.

### AdminServer

`Main` is the sequence of `configureAPI`, `Listen` and `Serve`. An `append` to the slice
of servers is two steps, since `handleShutdown` reads the slice without a lock and may
find a new array with an old length; a read of it is two steps as well (`ReadServers`).
Each server has a goroutine that serves and, in a shutdown, one that drains it
(`Shutdown`, `Drained`); `Expire` is the grace period, `Exec` the reload timer of
`crud.go:206`. `waiting` is the WaitGroup. `early` is a history variable: a signal came
while `Serve` was appending.

## 3. Runs

Passing runs:

| run | instance | properties |
|---|---|---|
| `admin_api` | two clients, two keys, two sets, a rejected mock, two faults, durable Redis, no outside edits | `TypeOK`, `StaleIsExplained`, `PoisonKeepsDown`, `ServesSnapshots` |
| `admin_outside` | one client, hot reload, one file in a subdirectory, another writer of Redis, two edits, one fault | `StaleIsExplained`, `LoadIsConsistent`, `Converges` |
| `behavior_repo` | every text of three mocks over three keys (or a key defined twice), abstract or not, extending or not, with zero to two actions; and texts that are rejected | `TypeOK`, `LeavesRunInOrder`, `RoutesAnswerInOrder`, `AbstractsKeepTheirActions` |
| `kafka` | two topics, one forwarding to the other, two messages from outside, decodable or not, two faults | `TypeOK`, `HandledInOrder`, `EveryMessageHandled` |
| `amqp` | two workers, one publishing to the other's route, three messages, three faults | `TypeOK`, `ActedInOrder`, `ConnectionsAreClosed`, `PublishedIsRouted`, `QueuesAreDrained` |
| `rendering` | two channels, an evaluation, a text that runs commands around a template, one that redefines it, one that does not parse, four renders | `RenderTypeOK`, `OnlyOthersDisturb` |
| `evaluator` | contexts of HTTP, Kafka, both or none, headers of a wrong type and a path that is none; mocks of either channel or both, seven lists of up to seven actions (enough for the sort to change the order of equals), some of which fail | `TypeOK`, `RoutedPasses`, `ListedInOrder` |
| `api` | every operation, unknown paths and methods, wrong media types, bodies that do not parse, eight mocks of which six are refused or lose something, nulls in a batch; five local directories, of which two list what does not load; three requests, one fault | `ApiTypeOK`, `RefusedChangesNothing`, `PostingBackKeeps` |
| `server` | listeners for unix, HTTP and HTTPS, two signals at any time, two requests, one failure | `TypeOK`, `MissedOnlyEarly`, `TornDownWhenDone`, `RequestsAnswered`, `StopsOrReloads` |
| `dispatch` | two HTTP clients and one gRPC client, mocks that read and flip a Redis key, every kind of action, one that does not render, a redis action whose second command does not, a body that needs Redis, four requests, one fault | `TypeOK`, `AnsweredByAMatch`, `OwnAnswer`, `EvaluatorAgrees` |

* `StaleIsExplained`: whenever an instance is up, each key is served as the
  directory and Redis have it now, or the timer is armed, or a handler that
  changed the key has still to arm it. The exceptions are in `orphans`.
* `LoadIsConsistent`: a load in progress is, key by key, a reading of what has
  been read so far, and knows of exactly the rejected mocks it met.
* `PoisonKeepsDown`: with a rejected mock stored, no step brings a stopped
  instance up.
* `ServesSnapshots`: the instance implements `TemplateService`, in which coming
  up is a single step that reads all templates at once.
* `Converges`: again and again the instance is up and up to date, unless a
  rejected mock stays for ever.
* `LeavesRunInOrder`, `RoutesAnswerInOrder`, `AbstractsKeepTheirActions`: what the
  README of the repository says about inheritance and order (`README.md:229`),
  for behaviors that nothing extends; which behaviors answer a route and in which
  order; and that resolving a child leaves an abstract parent's actions alone.
* `HandledInOrder`, `EveryMessageHandled`: at least once, in order, never past an
  undecodable message; from the offset on where a group without a commit last began.
  What came before it, while the service was down, is lost as the default offset
  (`OffsetNewest`) has it, and no property denies it.
* `ActedInOrder`, `ConnectionsAreClosed`, `PublishedIsRouted`,
  `QueuesAreDrained`: at most once and in order; no leaked connection; a
  publication reaches a queue, and the queue of each worker that consumes on its
  route; no message is left waiting.
* `AnsweredByAMatch`, `OwnAnswer`, `EvaluatorAgrees`: the mock that answers has
  matched since the request came and no earlier one has matched all the time; an
  answer carries its own request's payload. For a mock whose condition ignores Redis,
  an answer 200 of `/evaluate` lists what dispatch does, and there is one if all actions
  are performed and the bodies of replies and Kafka payloads ignore Redis, too. Of bodies
  that read it the second part would be false, which section 3 tells of.
* `OnlyOthersDisturb`: a channel's render finds an evaluation's `redisDo`, or an
  evaluation a channel's, only if one of the other kind has begun in its middle.
* `RoutedPasses`, `ListedInOrder`: traffic that is routed to a mock is never said not to
  pass its expectation, or its condition if it does; and what traffic performs is
  the beginning of the list, or all of it if no hidden action fails.
* `RefusedChangesNothing`: a request that is refused, or whose handler panics, has
  stored nothing and armed no timer, however much of it was in order.
* `PostingBackKeeps`: what an instance lists, or `omctl` pushes, answers after the
  reload as it did where it was listed, unless it is merged with a parent again or has a
  binary file. Nothing is said (`up`) of listings that no instance loads: those of a
  behavior into which a second reply, or a template, was merged (`load.go:286`,
  `model.go:51`).
* `MissedOnlyEarly`, `TornDownWhenDone`, `RequestsAnswered`: a shutdown stops every server
  unless the signal came while `Serve` was still starting them;
  `ServerShutdown` is called when all that it stops are done; a process that ends of
  itself has answered everything, unless a grace period ran out.
* `StopsOrReloads`: after a signal the process ends, unless it misses a server or a
  reload replaces it.

Runs that show a disagreement between the code and what is said of it (details
under "findings" in `PROJECT.json`):

| run | shows |
|---|---|
| `behavior_alias` | with three levels of behaviors a parent loses an action, because `append` writes into a shared array |
| `grpc_shared` | of two requests to one gRPC method at a time one gets the other's values |

Seen while modelling, and not made into runs:

* `/evaluate` renders without an OpenMock (`pkg/evaluator/http.go:31`, `kafka.go:20`), for
  which `redisDo` returns nil (`redis.go:84`). A mock whose reply needs what `redisDo`
  returns, such as `hello_redis` (`README.md:545`, which splits it), replies to its
  clients, and `/evaluate` answers with an error and lists nothing. `embedded_spec.go:657`
  says that the answer indicates what the mock would be expected to do. `Dispatch` has
  both sides (`Renders`, `ActionFails`), and `EvaluatorAgrees` leaves the case out.
* With the default in-memory Redis an accepted post never takes effect: the exec it
  schedules discards it (`redis.go:58`, `crud.go:206`).
* A post of a mock that `Load` rejects is answered 200 (`crud.go:191`), against
  `docs/api_docs/bundle.yaml`, and the instance cannot start any more; `PoisonKeepsDown` is
  what follows. `DeleteTemplate` answers 500 for an unknown key, its 404 branch is
  dead (`crud.go:107`).
* POST to a set adds to it, although `bundle.yaml:128` says that it overrides it
  (`crud.go:191`). What the conversion drops is answered as posted
  (`convert.go:81`, `bundle.yaml:85`). `status_code` does not default to 200
  (`bundle.yaml:483`, `handle_actions.go:129`). The listing leaves out abstract behaviors
  (`bundle.yaml:47`, `model.go:208`). A null mock, and an evaluation without
  a mock, make the handler panic (`convert.go:25`, `crud.go:163`).
* A pushed behavior has its parent's actions and still its `extend` field
  (`model.go:238`): where the parent exists it is merged twice, and two replies make
  the remote unable to start. `omctl push` does not look at the answer's status
  (`update.go:57`).
* With seven actions those of equal order do not keep their order (`load.go:136`,
  Go 1.14). A behavior that inherits a second `reply_http` is not validated, and
  its second reply drops the actions behind it.
* An evaluation that begins during a channel's render takes its `redisDo` away
  (`template.go:63`); a `{{define}}` in an evaluated mock stays (`template.go:65`).
* `/evaluate` uses the result of `http.NewRequest` before it looks at the error
  (`pkg/evaluator/http.go:115`), and lists replies behind an action that fails but is of a
  kind that is not listed (`evaluate.go:132`).
* A signal that comes while `Serve` starts its servers stops only some of them
  (`server.go:424`); a reload undoes a shutdown under way (`crud.go:206`); after an exec a unix
  listener finds its own file and the process ends with an error (`server.go:368`).
* An AMQP worker whose channel cannot be prepared never comes back (`amqp.go:79`,
  against the comment in line 71), and its templates do not get what `README.md:296`
  lists (`amqp.go:103`). `Stop` may close the producer under running goroutines,
  which then panic (`kafka.go:53`); consumers appended at the same time may be lost from the
  list, so that `Stop` leaves them open (`kafka.go:193`), and a goroutine whose consumer
  is closed runs in a busy loop (`kafka.go:197`); a Kafka group that never committed
  skips what came while it was down. `publishToAMQP` hides its errors: the actions behind
  it run as if the message had left (`handle_actions.go:223`).

### Bounds

Every bound is a constant: `MaxFaults` (failed commands, deaths, lost
connections), `MaxEdits`, `MaxLog`, `MaxMessages`, `MaxRequests`. Two keys and two
sets make overriding, clearing and partial batches possible; the two clients and
two faults let a batch fail half-way while another client's timer fires, and the
restart fail once more. Three mocks make an abstract behavior with two children,
in each textual order. Two Kafka messages with two faults let a message be acted
on, the process die before the mark, and the message come again ahead of the
second. Three faults in `amqp` let a connection be lost in each of its stages
twice. In `dispatch` four requests over three slots let a slot be reused while
the others are in the middle of their mocks. In `rendering` four renders let
a renderer be disturbed, undisturbed again and disturbed a second time. In `api` three
requests suffice to list, post back (or push) and change something in between. In
`server` three listeners make the slice grow twice, and the second signal comes during
the shutdown or after a reload. Deadlock is not checked where all messages
are consumed, requests are bounded, or the load ends.

### Fairness

`FairSpec` assumes weak fairness of what runs without anybody's help: goroutines
(handlers, workers), timers (`Exec`), the supervisor (`Restart`, `Launch`, `StartAMQP`),
the load, and the broker's delivery to a consumer that is there. Requests, edits,
publications from outside, faults and `Stop` are not fair: they may never happen.
`AdminServer`'s `Fairness` is of the same kind: its goroutines, the grace period and the
reload timer; not of signals, nor of clients' requests, which may take for ever (that is
what the grace period is for). Weak fairness is enough because no step waits for a lock
that others take in turns. `Converges` needs no bound on requests: whatever clients do,
`Exec` stays enabled once armed.

## 4. Proofs

`AdminReloadProofs` proves, for every number of clients, keys and sets, every set of
requests, and every bound:

| theorem | says |
|---|---|
| `TypeCorrect` | `Spec => []TypeOK` |
| `LoadConsistent` | `Spec => []LoadIsConsistent` |
| `Explained` | `Spec => []StaleIsExplained` |
| `PoisonIsFatal` | `Spec => PoisonKeepsDown` |
| `ImplementsService` | `MaxEdits = 0 /\ Spec => ServesSnapshots` |

They rest on the modules' assumptions alone (`TemplatesAssumption`,
`AdminAssumption`). The inductive invariant is
`TypeOK /\ LoadIsConsistent /\ StaleIsExplained`. Staleness alone is not
inductive: the step that ends a load (`Serve`) makes the repository what was read,
and only `LoadIsConsistent` says that this is still what the directory and the
sets hold. That in turn needs the part of `TypeOK` that says that handlers,
timers and watchers exist only while the instance is up, so nobody writes during a load
but outsiders, who leave the key in `orphans`. `TypeOK` also fixes which command of its
batch a handler is at, which `Owed` is computed from. The refinement maps
`serving` to `served` while the instance is up and to `Down` otherwise: `Serve` maps
to `ComeUp`, commands to `EditSet`, every end of the process to `Stop`, and
all else to stuttering. It is stated for instances whose templates nobody
else edits, since `TemplateService` has no such step.

`AmqpChannelProofs` proves, for any workers, routes, queues and mocks
(`AmqpAssumption`) and any bound:

| theorem | says |
|---|---|
| `TypeCorrect` | `Spec => []TypeOK` |
| `NoLeak` | `Spec => []ConnectionsAreClosed` |
| `Routed` | `Spec => []PublishedIsRouted` |

The inductive invariant is `TypeOK /\ ConnectionsAreClosed /\ QueuesAreBound`.
`TypeOK` alone is not inductive, because closing a connection subtracts from a count
that only `ConnectionsAreClosed` keeps above zero. `QueuesAreBound` remembers what
`prepareChannel` has bound: bindings are durable and never removed, so whoever is
past that call, a consumer or a publisher, has its binding, even after a restart
of the broker.

`AmqpChannelProofs` goes on to prove `ActedInOrder` (theorem `InOrder`) with the
further invariant `AsTheyCame`: messages are numbered as they come, each queue
ascends, and what a worker has acted on, what its connection has buffered and what its
queue holds ascend and stand behind one another.

`KafkaChannelProofs`, for any topics (`KafkaAssumption`) and any bound:

| theorem | says |
|---|---|
| `TypeCorrect` | `Spec => []TypeOK` |
| `InOrder` | `Spec => []HandledInOrder` |

The inductive invariant adds `Started` (no goroutine runs before `startKafka`, and only one
that has a consumer lists it) and, for each topic, `Positions` (no offset lies beyond
the log), `Progress` (everything below what is marked has been acted on, and everything
below what will be read next but the message in the goroutine's hands) and `Order`, the
property itself. The property says nothing of what is marked and not yet committed,
so `Progress` has to.

`DispatchProofs`, for any clients, mocks, payloads and Redis values
(`DispatchAssumption`) and any bound:

| theorem | says |
|---|---|
| `FirstMatch` | `Spec => []AnsweredByAMatch` |
| `OwnAnswers` | `OneAtATime => (Spec => []OwnAnswer)` |
| `TypeCorrect` | `OneAtATime => (Spec => []TypeOK)` |
| `Agrees` | `Spec => []EvaluatorAgrees` |

`Chosen(r)`, `Own(r)` and `Performs(r)` are the invariants of a request; each action
changes one request, or Redis, and the lemmas ending in `Stays` say that the others keep
theirs. `FirstMatch` needs no restriction, because a match is judged by the payload that
the handler has, whoever's it is. `OwnAnswers` and `TypeCorrect` need `OneAtATime`: at
most one client uses gRPC. Without it they are false, which `grpc_shared` shows. `Agrees`
needs an invariant (`Told`) of the slots that HTTP uses, which share nothing but Redis:
the condition of the mock being performed passes for the request as it came, unless it
reads Redis, and every action performed so far has rendered with some value of Redis.
`EvaluatorAgrees` says less of bodies that read Redis than of others, because there the
evaluator and traffic do disagree (section 3).

`EvaluatorProofs`, for any contexts and mocks (`EvaluatorAssumption`: of at most twelve
actions, since `GoSort` is `sort.Slice` up to there):

| theorem | says |
|---|---|
| `TypeCorrect` | `Spec => []TypeOK` |
| `TellsTheTruth` | `Spec => []RoutedPasses` |
| `ListTellsTheOrder` | `Spec => []ListedInOrder` |

The inductive invariant adds `AnswerType` and `KnownSoFar`: what each step has found out,
compared with what traffic does with the same mock. `ListTellsTheOrder` adds that the list
so far is the `Sublist` of the actions gone through, in the order of the sort, that render
and are of a kind that is listed. What traffic performs is a beginning of the same sorted
list, and the sublist of a beginning is a beginning of the sublist. If nothing that is
hidden fails, traffic goes through all of it. Both sort the same list with the same
algorithm, so the theorem does not depend on the sort being stable, which it is not.

The same module proves of `Rendering`, for any renderers, texts and templates
(`RenderingAssumption`) and any bound:

| theorem | says |
|---|---|
| `RenderingTypes` | `RenderSpec => []RenderTypeOK` |
| `Disturbances` | `RenderSpec => []OnlyOthersDisturb` |
| `AloneUndisturbed` | without evaluations, or without channels, `RenderSpec => []NobodyIsMisled` |

The inductive invariant adds `NothingGotYet` (before its `Funcs` a rendering has
called nothing) and `FindsItsOwn` (after it, the table has its own kind's
function unless it has been disturbed). What a rendering was given is kept in
`got`, while the table changes, so the property about the past needs the one about the
table.

`AdminProofs`, of `AdminServer`, for any listeners, signals, requests and failures
(`ServerAssumption`):

| theorem | says |
|---|---|
| `TypeCorrect` | `Spec => []TypeOK` |
| `OnlyEarlyMisses` | `Spec => []MissedOnlyEarly` |
| `Graceful` | `Spec => []TornDownWhenDone` |
| `Answered` | `Spec => []RequestsAnswered` |

The inductive invariant is `TypeOK` with `StartsInOrder` (the slice's array, its length
and what has been started agree at each step of an append), `SignalsAreLate` (a signal is
noticed after `Notify`, and unless it came early all servers are there),
`StopsWhatItHasSeen`, `Drains` and `EndsWhenDone`. `TypeOK` has the count that matters:
`waiting` is the number of goroutines that have yet to call `Done`.

`AdminProofs`, of `AdminApi`, for any sets, keys, directories, requests and local
directories (`ApiAssumption`) and any bound:

| theorem | says |
|---|---|
| `ApiTypeCorrect` | `ApiSpec => []ApiTypeOK` |
| `Refused` | `ApiSpec => []RefusedChangesNothing` |
| `PostingBack` | `ApiSpec => []PostingBackKeeps` |

`Refused` is about 404, 405, 415, 422 and panics; a 400 may come from a handler that has
stored a part of the batch.

The inductive invariant `ApiInv` of the first two is `Types` with `Passed` (what a request
has passed where it is: it is bound before it is handled, and the batch that a handler
gets is what has validated) and `Untouched` (until a handler answers, sets and timer are
what they were when it came). `PostingBack` follows a listing with a second invariant,
`Trip`: what is served and what was listed has been through a load (`Cleaned`), which the
conversions leave alone; the listing is that of `backup` (`Listings`); the set it was
posted to has, under each key that answers, its last mock in the listing, converted
(`Restoring`); no other request that changes something is under way meanwhile
(`Unrestored`); and once the timer has fired, what is served was loaded from the sets as
they are (`Reloaded`). A listing may have a template under the same key ahead of the mock
that answers, and a set's text may stand anywhere behind the directory's, which is why the
argument is about last definitions (`LastIs`, `ListingRestores`, `TextIs`). `TripKeeps` is
the equation of the forms: `Loaded(Converted(MockModel(m)), there) = m`.

`BehaviorRepoProofs`, for any texts, keys and routes (`RepoAssumption`):

| theorem | says |
|---|---|
| `TypeCorrect` | `Spec => []TypeOK` |
| `AbstractsAreKept` | `Spec => []AbstractsKeepTheirActions` |
| `LeavesAreInOrder` | `FewActions => (Spec => []LeavesRunInOrder)` |
| `RoutesAreInOrder` | `Spec => []RoutesAnswerInOrder` |

The argument is about memory. The inductive invariant `IInv` says that a mock's parsed
array holds its actions, or those sorted (`Arrays`), and that no slice leaves room in such
an array (`Slices`), so that an append to it always allocates; and that a key stands for
its last definition, with its actions untouched until the second loop comes to it
(`Texts`, `Keyed`, `Once`). Then an abstract behavior's list can only be sorted. For
leaves `Leaves` adds that a list which is ready lies in a parsed array, that sorting again
does not change, or in one that no other behavior has (`Alone`): an array with room is
only ever appended to through the behavior that owns it, and nothing extends a leaf. Three
levels break exactly this, which `behavior_alias` shows. That it does not matter whether a
parent's part had been sorted before (`SortOfSortedParts`) follows from counting: ranks
are unique, every place is taken, and a rearrangement that keeps the order of any two
elements keeps all ranks. `FewActions` says that lists, and a parent's list with a
child's, have at most six actions, beyond which Go's sort is not stable.
`RoutesAreInOrder` adds to `IInv` that the ordered map has the keys in the order of their
first definitions (`Placed`), and that each route's table is the `Sublist` of the keys
that the second loop has passed (`Listed`). A behavior is registered with what it expects
at that moment, and the property is about texts in which every behavior that is not
abstract extends an abstract one or nothing (`AllSingleLevel`): there, what it expects at
that moment is what the texts say. The other theorems need no limit on actions; above
twelve actions, where `sort.Slice` is another algorithm, they are about `GoSort` as
defined and not about Go.

`ListProofs` has what these share. Functions defined by recursion on the length of a list
(`Sublists`, `Chains`) are handled by well-founded induction on sets of numbers (`LeastNat`,
`SetInduction`): the least length at which a statement fails is not zero, and its
predecessor's case gives it. From this follow what a sublist has and in which order, that
it grows with the list, and what a chain of lists has; by counting, that Go's sort gives a
rearrangement, ascending, and for at most six elements a stable one.

Only model-checked: everything with fairness (`Converges`, `EveryMessageHandled`,
`QueuesAreDrained`, `StopsOrReloads`), which is beyond the prover. Every other property of
a passing run is the statement of a theorem, under the conditions named above. The runs
still show what the theorems do not: that the cases they speak of happen.

## 5. Not modelled

What the template functions compute (`template_helper.go`: JSON and XML paths, regular
expressions, UUIDs), which have no state, and so the text that a template renders to; the
contents of payload files; TLS and SASL settings; echo's routing, CORS, recovery and
HTTP/2 framing; URL builders and the models of responses, which the program does not use
or which decide nothing; logging; the containers and demo templates. Exchanges and
mandatory publishing, which the code does not use, and several partitions for each Kafka
topic. Interleavings of the admin API's requests are in `AdminReload`, the contents of
mocks in `AdminApi`: the two are not composed. External and modelled from how the code
uses them: Redis, Kafka with sarama-cluster, RabbitMQ, `net/http`, `text/template`, the
supervisor, the Go runtime's `append` and `sort.Slice`.

## 6. Plan

Done, in this order: admin API with its abstract service and proofs; behavior
repository; Kafka; AMQP; dispatch with HTTP, gRPC and the evaluator; rendering with
proofs; the evaluator's own matching; mocks with contents from request to listing, and
`omctl`; the process and its shutdown.

The proofs followed in the order of section 4, each after its runs.

Left: a composition of `AdminApi` with `AdminReload`, so that contents and
interleavings meet, is the next step that would add behavior; several partitions for a
Kafka topic the one after it.
