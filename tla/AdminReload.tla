----------------------------- MODULE AdminReload -----------------------------
(***************************************************************************)
(* One OpenMock instance, its templates directory and its Redis: the admin *)
(* API's handlers (pkg/admin/crud.go), the restart they schedule, the hot  *)
(* reload of the templates directory, and the load at start (openmock.go,  *)
(* load.go, redis.go).                                                     *)
(*                                                                         *)
(* Handlers run concurrently, one per client connection, and each talks to *)
(* Redis one command at a time.  A handler never changes the repository    *)
(* that is being served: it changes Redis and arms a timer, and the timer  *)
(* replaces the process, which forgets every request and every timer that  *)
(* is under way and loads everything again.                                *)
(***************************************************************************)
EXTENDS Templates, Naturals, Sequences

CONSTANTS
    Clients,     \* connections to the admin API, one request each at a time
    Calls,       \* the requests they may send
    Durable,     \* OPENMOCK_REDIS_TYPE: TRUE "redis", FALSE "memory"
    HotReload,   \* OPENMOCK_TEMPLATES_DIR_HOT_RELOAD
    Nested,      \* keys whose file lies in a subdirectory of the directory
    Shared,      \* somebody else may write the same Redis hashes
    Seeds,       \* what the sets may hold before the instance first starts
    Files,       \* what the directory may hold before it first starts
    MaxFaults,   \* bound: failed commands and deaths of the process
    MaxEdits,    \* bound: changes made from outside the admin API
    NoCall,      \* a connection without a request
    Down         \* see TemplateService

\* A request: a batch to store, a set to drop, or one key to remove, which
\* the API offers for the base set alone.
PostCalls == [op : {"post"}, set : Sets, batch : Seq([key : Keys, body : Bodies])]
ClearCalls == [op : {"clear"}, set : Sets, batch : {<<>>}]
RemoveCalls ==
    {[op |-> "remove", set |-> Base, batch |-> <<[key |-> k, body |-> None]>>]
        : k \in Keys}

ASSUME AdminAssumption ==
    /\ \A call \in Calls :
        call \in PostCalls \/ call \in ClearCalls \/ call \in RemoveCalls
    /\ NoCall \notin Calls
    /\ Down \notin Snapshot
    /\ Durable \in BOOLEAN /\ HotReload \in BOOLEAN /\ Shared \in BOOLEAN
    /\ Nested \subseteq Keys
    /\ Seeds \subseteq [Sets -> Snapshot]
    /\ ~ Durable => Seeds \subseteq {NoSets}
    /\ Files \subseteq Snapshot
    /\ MaxFaults \in Nat /\ MaxEdits \in Nat

VARIABLES
    store,      \* the Redis hashes, [Sets -> Snapshot]
    disk,       \* the templates directory
    phase,      \* "disk", "keys", "sets": loading; "up"; "dead"
    load,       \* the load under way: sets still to read, text read so far
    served,     \* om.repo, the repository that answers mock traffic
    armed,      \* a reload timer runs, or a watcher event is being slept on
    watching,   \* the directory watcher of reload.Do is installed
    conn,       \* per client: the handler's step, its request, its command
    orphans,    \* history: keys changed with no reload to follow
    faults, edits

vars == <<store, disk, phase, load, served, armed, watching, conn, orphans,
          faults, edits>>

process == <<phase, load, served, watching>>

Idle == [pc |-> "idle", call |-> NoCall, pos |-> 1]
AllIdle == [c \in Clients |-> Idle]
NoLoad == [left |-> {}, mocks |-> Nothing, bad |-> FALSE]

Init ==
    /\ store \in Seeds
    /\ disk \in Files
    /\ phase = "disk"
    /\ load = NoLoad
    /\ served = Nothing
    /\ armed = FALSE
    /\ watching = FALSE
    /\ conn = AllIdle
    /\ orphans = {}
    /\ faults = 0
    /\ edits = 0

(***************************************************************************)
(* The admin API.                                                          *)
(***************************************************************************)

\* The keys that the first n commands of a request change.
ChangedBy(call, n) ==
    IF call.op = "clear" THEN {k \in Keys : n > 0}
    ELSE {call.batch[i].key : i \in 1..n}

\* A request arrives.  DeleteTemplate looks before it deletes; a post of no
\* mocks has no command to send.
Begin(c) ==
    /\ phase = "up"
    /\ conn[c].pc = "idle"
    /\ \E call \in Calls :
        conn' = [conn EXCEPT ![c] =
            [pc |-> CASE call.op = "remove" -> "find"
                      [] call.op = "clear" -> "write"
                      [] OTHER -> IF call.batch = <<>> THEN "schedule" ELSE "write",
             call |-> call, pos |-> 1]]
    /\ UNCHANGED <<store, disk, process, armed, orphans, faults, edits>>

\* The sets after the next command of connection c.
Effect(c) ==
    LET call == conn[c].call
        entry == call.batch[conn[c].pos]
    IN  IF call.op = "clear"
        THEN [store EXCEPT ![call.set] = Nothing]
        ELSE [store EXCEPT ![call.set][entry.key] = entry.body]

\* Deviation: the loop leaves the batch's last mock out.
AddTemplateShort(c) ==
    /\ conn[c].pc = "write" /\ conn[c].call.op = "post"
    /\ store' = Effect(c)
    /\ conn' = [conn EXCEPT
        ![c].pos = @ + 1,
        ![c].pc = IF conn[c].pos + 1 >= Len(conn[c].call.batch) THEN "schedule" ELSE @]
    /\ UNCHANGED <<disk, process, armed, orphans, faults, edits>>

\* addTemplates: one HSET per mock, in order, without looking at the mock.
AddTemplate(c) ==
    /\ conn[c].pc = "write" /\ conn[c].call.op = "post"
    /\ store' = Effect(c)
    /\ conn' = [conn EXCEPT
        ![c].pos = @ + 1,
        ![c].pc = IF conn[c].pos = Len(conn[c].call.batch) THEN "schedule" ELSE @]
    /\ UNCHANGED <<disk, process, armed, orphans, faults, edits>>

\* DeleteTemplate, first command: HGET.  A key that is not there is ErrNil
\* and answered like a failed command; the 404 branch is never reached.
FindTemplate(c) ==
    /\ conn[c].pc = "find"
    /\ conn' = [conn EXCEPT ![c].pc =
        IF store[Base][conn[c].call.batch[1].key] = None THEN "refused" ELSE "write"]
    /\ UNCHANGED <<store, disk, process, armed, orphans, faults, edits>>

\* Deviation: a deletion answers without reloading.
DeleteWithoutReload(c) ==
    /\ conn[c].pc = "write" /\ conn[c].call.op \in {"clear", "remove"}
    /\ store' = Effect(c)
    /\ conn' = [conn EXCEPT ![c].pc = "accepted", ![c].pos = @ + 1]
    /\ UNCHANGED <<disk, process, armed, orphans, faults, edits>>

\* DeleteTemplates, DeleteTemplateSet (DEL) and DeleteTemplate (HDEL).
DeleteTemplates(c) ==
    /\ conn[c].pc = "write" /\ conn[c].call.op \in {"clear", "remove"}
    /\ store' = Effect(c)
    /\ conn' = [conn EXCEPT ![c].pc = "schedule", ![c].pos = @ + 1]
    /\ UNCHANGED <<disk, process, armed, orphans, faults, edits>>

\* A command fails, before or after Redis carried it out.  The handler
\* answers 400 or 500 and schedules nothing: what it already changed waits
\* for somebody else's reload.
CommandFails(c) ==
    /\ conn[c].pc \in {"find", "write"}
    /\ faults < MaxFaults
    /\ \E applied \in BOOLEAN :
        LET n == IF applied THEN conn[c].pos ELSE conn[c].pos - 1 IN
        /\ applied => conn[c].pc = "write"
        /\ store' = IF applied THEN Effect(c) ELSE store
        /\ orphans' = orphans \cup ChangedBy(conn[c].call, n)
    /\ conn' = [conn EXCEPT ![c].pc = "refused"]
    /\ faults' = faults + 1
    /\ UNCHANGED <<disk, process, armed, edits>>

\* Deviation: shouldRestart is ignored.
ReloadModelSkipped(c) ==
    /\ conn[c].pc = "schedule"
    /\ conn' = [conn EXCEPT ![c].pc = "accepted"]
    /\ UNCHANGED <<store, disk, process, armed, orphans, faults, edits>>

\* reloadModel: arm the timer.  Timers are not counted: the first to fire
\* ends the process and the others with it.
ReloadModel(c) ==
    /\ conn[c].pc = "schedule"
    /\ armed' = TRUE
    /\ conn' = [conn EXCEPT ![c].pc = "accepted"]
    /\ UNCHANGED <<store, disk, process, orphans, faults, edits>>

\* The response leaves: 200 or 204, or 400 or 500.
Respond(c) ==
    /\ conn[c].pc \in {"accepted", "refused"}
    /\ conn' = [conn EXCEPT ![c] = Idle]
    /\ UNCHANGED <<store, disk, process, armed, orphans, faults, edits>>

(***************************************************************************)
(* The process.                                                            *)
(***************************************************************************)

\* The process ends here: requests and timers under way are forgotten, and
\* so is an in-memory Redis.
Ends(next) ==
    /\ phase' = next
    /\ load' = NoLoad
    /\ served' = Nothing
    /\ armed' = FALSE
    /\ watching' = FALSE
    /\ conn' = AllIdle
    /\ store' = IF Durable THEN store ELSE NoSets

\* Deviation: a graceful restart that waits for a moment without requests.
ExecWhenIdle ==
    /\ phase = "up" /\ armed /\ conn = AllIdle
    /\ Ends("disk")
    /\ UNCHANGED <<disk, orphans, faults, edits>>

\* The timer's function, or the watcher's callback: exec replaces the
\* process by a fresh one.
Exec ==
    /\ phase = "up" /\ armed
    /\ Ends("disk")
    /\ UNCHANGED <<disk, orphans, faults, edits>>

\* Killed; or Fatalf because the directory, KEYS or HGETALL cannot be read
\* or the watcher cannot be installed; or a panic because exec failed.
Die ==
    /\ phase # "dead"
    /\ faults < MaxFaults
    /\ Ends("dead")
    /\ faults' = faults + 1
    /\ UNCHANGED <<disk, orphans, edits>>

\* The supervisor (restart: on-failure) starts the program again.
Restart ==
    /\ phase = "dead"
    /\ phase' = "disk"
    /\ UNCHANGED <<store, disk, load, served, watching, armed, conn, orphans,
                   faults, edits>>

(***************************************************************************)
(* OpenMock.Load.                                                          *)
(***************************************************************************)

\* loadYAML.
LoadYAML ==
    /\ phase = "disk"
    /\ phase' = "keys"
    /\ load' = [left |-> {}, mocks |-> disk,
                bad |-> \E k \in Keys : disk[k] \notin Valid \cup {None}]
    /\ orphans' = {}
    /\ UNCHANGED <<store, disk, served, armed, watching, conn, faults, edits>>

\* Deviation: KEYS without the trailing star.
ListBaseOnly ==
    /\ phase = "keys"
    /\ phase' = "sets"
    /\ load' = [load EXCEPT !.left = {s \in {Base} : store[s] # Nothing}]
    /\ UNCHANGED <<store, disk, served, armed, watching, conn, orphans,
                   faults, edits>>

\* loadRedis: KEYS.
ListSets ==
    /\ phase = "keys"
    /\ phase' = "sets"
    /\ load' = [load EXCEPT !.left = {s \in Sets : store[s] # Nothing}]
    /\ UNCHANGED <<store, disk, served, armed, watching, conn, orphans,
                   faults, edits>>

\* Deviation: mocks from Redis are not validated.
LoadSetUnchecked(s) ==
    /\ phase = "sets" /\ s \in load.left
    /\ load' = [load EXCEPT
        !.left = @ \ {s},
        !.mocks = [k \in Keys |-> IF store[s][k] = None THEN @[k] ELSE store[s][k]]]
    /\ UNCHANGED <<store, disk, phase, served, armed, watching, conn, orphans,
                   faults, edits>>

\* Deviation: the directory wins over Redis.
LoadSetBeneath(s) ==
    /\ phase = "sets" /\ s \in load.left
    /\ load' =
        [left |-> load.left \ {s},
         mocks |-> [k \in Keys |->
            IF load.mocks[k] # None THEN load.mocks[k] ELSE store[s][k]],
         bad |-> load.bad \/ \E k \in Keys : store[s][k] \notin Valid \cup {None}]
    /\ UNCHANGED <<store, disk, phase, served, armed, watching, conn, orphans,
                   faults, edits>>

\* loadRedis: HGETALL of one of the sets still to read.  Its mocks override
\* the ones read so far.
LoadSet(s) ==
    /\ phase = "sets" /\ s \in load.left
    /\ load' =
        [left |-> load.left \ {s},
         mocks |-> [k \in Keys |->
            IF store[s][k] = None THEN load.mocks[k] ELSE store[s][k]],
         bad |-> load.bad \/ \E k \in Keys : store[s][k] \notin Valid \cup {None}]
    /\ UNCHANGED <<store, disk, phase, served, armed, watching, conn, orphans,
                   faults, edits>>

\* Every mock that was read is accepted: Start enables the channels and the
\* admin API begins to listen.
Serve ==
    /\ phase = "sets" /\ load.left = {} /\ ~ load.bad
    /\ phase' = "up"
    /\ served' = load.mocks
    /\ load' = NoLoad
    /\ UNCHANGED <<store, disk, armed, watching, conn, orphans, faults, edits>>

\* Some mock is rejected: Start calls Fatalf.
LoadFails ==
    /\ phase = "sets" /\ load.left = {} /\ load.bad
    /\ Ends("dead")
    /\ UNCHANGED <<disk, orphans, faults, edits>>

(***************************************************************************)
(* The templates directory and other writers.                              *)
(***************************************************************************)

\* reload.Do, in a goroutine that Start does not wait for.
StartWatch ==
    /\ phase = "up" /\ HotReload /\ ~ watching
    /\ watching' = TRUE
    /\ UNCHANGED <<store, disk, phase, load, served, armed, conn, orphans,
                   faults, edits>>

\* Only a write to a file of the directory itself is a reason to reload: a
\* rename, a removal or a write one level down is not.
Noticed(k, body, inPlace) ==
    watching /\ k \notin Nested /\ body # None /\ inPlace

\* Somebody edits, replaces or removes the file that defines k.
EditFile(k) ==
    /\ edits < MaxEdits
    /\ \E body \in Bodies \cup {None}, inPlace \in BOOLEAN :
        /\ disk' = [disk EXCEPT ![k] = body]
        /\ armed' = (armed \/ Noticed(k, body, inPlace))
        /\ orphans' = IF Noticed(k, body, inPlace) THEN orphans
                      ELSE orphans \cup {k}
    /\ edits' = edits + 1
    /\ UNCHANGED <<store, process, conn, faults>>

\* Another instance that uses the same Redis, or a straggling command of
\* the process before this one.
ForeignWrite(s, k) ==
    /\ Shared /\ Durable
    /\ edits < MaxEdits
    /\ \E body \in Bodies \cup {None} : store' = [store EXCEPT ![s][k] = body]
    /\ orphans' = orphans \cup {k}
    /\ edits' = edits + 1
    /\ UNCHANGED <<disk, process, armed, conn, faults>>

Handler(c) ==
    \/ AddTemplate(c) \/ FindTemplate(c) \/ DeleteTemplates(c)
    \/ ReloadModel(c) \/ Respond(c)

LoadStep ==
    \/ LoadYAML \/ ListSets \/ (\E s \in Sets : LoadSet(s))
    \/ Serve \/ LoadFails

Outside ==
    \/ \E k \in Keys : EditFile(k)
    \/ \E s \in Sets, k \in Keys : ForeignWrite(s, k)

Next ==
    \/ \E c \in Clients : Begin(c) \/ Handler(c) \/ CommandFails(c)
    \/ Exec \/ Die \/ Restart
    \/ LoadStep
    \/ StartWatch
    \/ Outside

(***************************************************************************)
(* Goroutines, the timer, the supervisor and the watcher keep running; a   *)
(* client need not send a request, and nothing need fail or be edited.     *)
(***************************************************************************)
Fairness ==
    /\ \A c \in Clients : WF_vars(Handler(c))
    /\ WF_vars(Exec) /\ WF_vars(Restart) /\ WF_vars(LoadStep)
    /\ WF_vars(StartWatch)

Spec == Init /\ [][Next]_vars

FairSpec == Spec /\ Fairness

-----------------------------------------------------------------------------

Handlers ==
    [pc : {"idle", "find", "write", "schedule", "accepted", "refused"},
     call : Calls \cup {NoCall}, pos : Nat \ {0}]

\* What a handler can be in the middle of: only a live process has handlers,
\* and a handler's next command is one of its request's.
HandlerOK(h) ==
    /\ h.pc # "idle" => h.call \in Calls /\ phase = "up"
    /\ h.pc = "find" => h.call.op = "remove" /\ h.pos = 1
    /\ h.pc = "write" /\ h.call.op # "clear" => h.pos \in 1..Len(h.call.batch)
    /\ h.pc = "schedule" /\ h.call.op # "clear" => h.pos = Len(h.call.batch) + 1

\* Types, the step each handler can be at, and that timers and watchers
\* belong to a live process (crud.go's handlers, reload.Do).
TypeOK ==
    /\ store \in [Sets -> Snapshot]
    /\ disk \in Snapshot
    /\ phase \in {"disk", "keys", "sets", "up", "dead"}
    /\ load \in [left : SUBSET Sets, mocks : Snapshot, bad : BOOLEAN]
    /\ served \in Snapshot
    /\ armed \in BOOLEAN /\ watching \in BOOLEAN
    /\ armed \/ watching => phase = "up"
    /\ conn \in [Clients -> Handlers]
    /\ \A c \in Clients : HandlerOK(conn[c])
    /\ orphans \subseteq Keys
    /\ faults \in 0..MaxFaults /\ edits \in 0..MaxEdits

\* The keys that connection c has changed and still owes a reload.
Owed(c) ==
    IF conn[c].pc \in {"write", "schedule"}
    THEN ChangedBy(conn[c].call, conn[c].pos - 1) ELSE {}

(***************************************************************************)
(* An instance in service serves, for every key, a mock that the directory *)
(* and Redis hold at this moment, unless a reload is on its way: the timer *)
(* is armed, or a handler that changed the key has still to arm it.  The   *)
(* only exceptions are keys whose change nobody follows up: a request that *)
(* failed half-way, an unnoticed file edit, another writer.                *)
(* (crud.go: every handler's reloadModel comes after its last command.)    *)
(***************************************************************************)
StaleIsExplained ==
    phase = "up" =>
        \A k \in Keys :
            \/ served[k] \in Winners(store, disk, k)
            \/ armed
            \/ \E c \in Clients : k \in Owed(c)
            \/ k \in orphans

\* What the load under way has read for key k: nothing but the directory's
\* mock so far, or the mock of one of the sets read.
ReadFor(k) ==
    \/ /\ load.mocks[k] = disk[k]
       /\ \A s \in Sets \ load.left : store[s][k] = None
    \/ \E s \in Sets \ load.left :
        load.mocks[k] = store[s][k] /\ store[s][k] # None

(***************************************************************************)
(* A load in progress is consistent with the directory and the sets as     *)
(* they are now, key by key, except where somebody changed them behind its *)
(* back; and without such a change it has noticed exactly the rejected     *)
(* mocks among those it has read.  (load.go, Load and loadRedis: the       *)
(* commands are not one transaction.)                                      *)
(***************************************************************************)
LoadIsConsistent ==
    /\ phase = "keys" =>
        \A k \in Keys \ orphans : load.mocks[k] = disk[k]
    /\ phase = "sets" =>
        \A k \in Keys \ orphans : ReadFor(k)
    /\ edits = 0 /\ phase \in {"keys", "sets"} =>
        /\ orphans = {}
        /\ load.bad <=>
            \/ \E k \in Keys : disk[k] \notin Valid \cup {None}
            \/ /\ phase = "sets"
               /\ \E s \in Sets \ load.left, k \in Keys :
                    store[s][k] \notin Valid \cup {None}

(***************************************************************************)
(* A mock that Load rejects takes the instance down for good: it was       *)
(* stored, so it is read again at every restart, and the admin API that    *)
(* could delete it never comes up (until somebody repairs the directory or *)
(* Redis from outside).                                                    *)
(***************************************************************************)
PoisonKeepsDown ==
    [][ Poisoned(store, disk) /\ phase # "up" /\ edits = 0 => phase' # "up" ]_vars

\* With edits out of the way, the instance is an atomic TemplateService.
Service == INSTANCE TemplateService
    WITH serving <- IF phase = "up" THEN served ELSE Down

ServesSnapshots == Service!ServiceSpec

(***************************************************************************)
(* The instance converges: again and again it is in service with every key *)
(* up to date, unless an invalid mock stays among the templates for ever.  *)
(* (The restart loop of reloadModel and the supervisor makes progress.)    *)
(***************************************************************************)
UpToDate ==
    phase = "up" /\ \A k \in Keys \ orphans : served[k] \in Winners(store, disk, k)

Converges == []<>UpToDate \/ <>[]Poisoned(store, disk)

=============================================================================
