------------------------------ MODULE AdminServer ------------------------------
(***************************************************************************)
(* The process around the admin API: main (cmd/open-mock-server), the      *)
(* generated server with its listeners, signals and graceful shutdown      *)
(* (swagger_gen/restapi/server.go), and its configuration                  *)
(* (configure_open_mock.go).                                               *)
(*                                                                         *)
(* Several goroutines take part: main, which starts one server after       *)
(* another and then waits for a WaitGroup; handleInterrupt; handleShutdown *)
(* with one goroutine for each server it stops; and each server's own.     *)
(* They share the slice of servers, without a lock.                        *)
(***************************************************************************)
EXTENDS Integers, Sequences, FiniteSets

CONSTANTS
    Schemes,       \* the enabled listeners, in the order Serve starts them
    AdminEnabled,  \* what OPENMOCK_ADMIN_HTTP_ENABLED may say
    None,
    MaxConns,      \* bound: active connections of a server
    MaxSignals,    \* bound
    MaxRequests,   \* bound
    MaxFaults      \* bound: listeners, certificates and servers that fail

ASSUME ServerAssumption ==
    /\ Schemes \in Seq({"unix", "http", "https"}) /\ Len(Schemes) \in 1..3
    /\ AdminEnabled \subseteq BOOLEAN
    /\ None \notin Int
    /\ {MaxConns, MaxSignals, MaxRequests, MaxFaults} \subseteq Nat

\* How many servers Serve starts.
LastServer == Len(Schemes)

Servers == 1..LastServer

VARIABLES
    main,        \* the step of main, ConfigureAPI and Serve
    exit,        \* "running", or how the process has ended
    notified,    \* signal.Notify has been called
    interrupt,   \* s.interrupt: a channel with room for one signal
    shutdown,    \* s.shutdown is closed
    array,       \* servers: the capacity of its backing array ...
    length,      \* ... and its length, the two words a reader reads
    handler,     \* the step of handleShutdown
    seen,        \* what it has read of servers
    stopping,    \* of each server: its Shutdown call and what that returned
    expired,     \* the context of the Shutdown calls is done
    torndown,    \* ServerShutdown has been called
    waiting,     \* the WaitGroup's counter
    serve,       \* of each server: the goroutine that calls its Serve
    closing,     \* of each server: it is shutting down and does not accept
    active,      \* of each server: connections with a request
    reload,      \* a reload timer is running
    socket,      \* the file of the unix listener exists
    admin,       \* OpenMock.AdminHTTPEnabled
    early,       \* history: a signal came while Serve started its servers
    signals, requests, faults

starting == <<main, notified, array, length>>
stop == <<handler, seen, stopping, expired, torndown>>
net == <<serve, closing, active, reload>>
bounds == <<signals, requests, faults>>
vars == <<main, exit, notified, interrupt, shutdown, array, length, handler,
          seen, stopping, expired, torndown, waiting, serve, closing, active,
          reload, socket, admin, early, signals, requests, faults>>

\* NewServer.
Init ==
    /\ main = "configure" /\ notified = FALSE
    /\ interrupt = 0 /\ shutdown = FALSE
    /\ array = 0 /\ length = 0
    /\ handler = "none" /\ seen = [array |-> None, length |-> None]
    /\ stopping = [s \in Servers |-> "no"]
    /\ expired = FALSE /\ torndown = FALSE /\ waiting = 0
    /\ serve = [s \in Servers |-> "no"] /\ closing = [s \in Servers |-> FALSE]
    /\ active = [s \in Servers |-> 0] /\ reload = FALSE
    /\ exit = "running" /\ socket = FALSE
    /\ admin \in AdminEnabled /\ early = FALSE
    /\ signals = 0 /\ requests = 0 /\ faults = 0

HasUnix == \E s \in Servers : Schemes[s] = "unix"

Running == exit = "running"

Exit(status) == exit' = status

(***************************************************************************)
(* main, ConfigureAPI and Serve.                                           *)
(***************************************************************************)

\* configureAPI: admin.Setup starts OpenMock and says whether to go on.
Configure ==
    /\ Running /\ main = "configure"
    /\ main' = IF admin THEN "listen" ELSE "off"
    /\ notified' = ~ admin      \* waitForSignal
    /\ UNCHANGED <<exit, interrupt, shutdown, array, length, stop, waiting,
                   net, socket, admin, early, bounds>>

\* Without the admin API, a signal makes configureAPI panic.
Terminate ==
    /\ Running /\ main = "off" /\ interrupt > 0
    /\ Exit("panic")
    /\ UNCHANGED <<starting, interrupt, shutdown, stop, waiting, net, socket,
                   admin, early, bounds>>

\* Listen: one listener after another; if one fails main ends with its error.
\* A unix listener fails when its file exists.
Listen ==
    /\ Running /\ main = "listen"
    /\ \/ /\ ~ (HasUnix /\ socket)
          /\ main' = "notify" /\ socket' = HasUnix
          /\ UNCHANGED <<exit, faults>>
       \/ /\ HasUnix /\ socket
          /\ Exit("error")
          /\ UNCHANGED <<main, socket, faults>>
       \/ /\ faults < MaxFaults
          /\ faults' = faults + 1
          /\ Exit("error") /\ UNCHANGED <<main, socket>>
    /\ UNCHANGED <<notified, array, length, interrupt, shutdown, stop, waiting,
                   net, admin, early, signals, requests>>

\* Deviation: the WaitGroup does not count handleShutdown.
NotifyUncounted ==
    /\ Running /\ main = "notify"
    /\ notified' = TRUE
    /\ handler' = "wait"
    /\ main' = "append"
    /\ UNCHANGED <<exit, interrupt, shutdown, array, length, seen, stopping,
                   expired, torndown, waiting, net, socket, admin, early,
                   bounds>>

\* signalNotify, and the two goroutines that a signal concerns.
Notify ==
    /\ Running /\ main = "notify"
    /\ notified' = TRUE
    /\ handler' = "wait"
    /\ waiting' = waiting + 1
    /\ main' = "append"
    /\ UNCHANGED <<exit, interrupt, shutdown, array, length, seen, stopping,
                   expired, torndown, net, socket, admin, early, bounds>>

\* The first half of servers = append(servers, server): a slice that is full
\* (and this one always is) gets an array of twice its capacity.  An https
\* server without certificates ends the process instead.
Grow ==
    /\ Running /\ main = "append"
    /\ \/ /\ array' = IF length < array THEN array
                     ELSE IF array = 0 THEN 1 ELSE 2 * array
          /\ main' = "appending" /\ UNCHANGED <<exit, faults>>
       \/ /\ Schemes[length + 1] = "https" /\ faults < MaxFaults
          /\ faults' = faults + 1
          /\ Exit("error") /\ UNCHANGED <<main, array>>
    /\ UNCHANGED <<notified, length, interrupt, shutdown, stop, waiting, net,
                   admin, socket, early, signals, requests>>

\* The second half: its length.
Lengthen ==
    /\ Running /\ main = "appending"
    /\ length' = length + 1
    /\ main' = "launch"
    /\ UNCHANGED <<exit, notified, array, interrupt, shutdown, stop, waiting,
                   net, socket, admin, early, bounds>>

\* Deviation: the WaitGroup does not count the server.
LaunchUncounted ==
    /\ Running /\ main = "launch"
    /\ serve' = [serve EXCEPT ![length] = "launched"]
    /\ main' = IF length = LastServer THEN "wait" ELSE "append"
    /\ UNCHANGED <<exit, notified, array, length, interrupt, shutdown, stop,
                   waiting, closing, active, reload, socket, admin, early,
                   bounds>>

\* wg.Add(1), and the goroutine of the server just appended.
Launch ==
    /\ Running /\ main = "launch"
    /\ waiting' = waiting + 1
    /\ serve' = [serve EXCEPT ![length] = "launched"]
    /\ main' = IF length = LastServer THEN "wait" ELSE "append"
    /\ UNCHANGED <<exit, notified, array, length, interrupt, shutdown, stop,
                   closing, active, reload, socket, admin, early, bounds>>

\* wg.Wait returns, and so does main.
Return ==
    /\ Running /\ main = "wait" /\ waiting = 0
    /\ Exit("ok")
    /\ UNCHANGED <<starting, interrupt, shutdown, stop, waiting, net, socket,
                   admin, early, bounds>>

Main ==
    \/ Configure \/ Terminate \/ Listen \/ Notify \/ Grow \/ Lengthen
    \/ Launch \/ Return

(***************************************************************************)
(* A server's goroutine, and net/http's server.                            *)
(***************************************************************************)

\* http.Server.Serve begins to accept, unless Shutdown came first.
ServeStarts(s) ==
    /\ Running /\ serve[s] = "launched" /\ ~ closing[s]
    /\ serve' = [serve EXCEPT ![s] = "serving"]
    /\ UNCHANGED <<exit, starting, interrupt, shutdown, stop, waiting, closing,
                   active, reload, socket, admin, early, bounds>>

\* It returns ErrServerClosed at once when Shutdown is called, whatever is
\* still active, and the goroutine ends.
ServeReturns(s) ==
    /\ Running /\ serve[s] \in {"launched", "serving"} /\ closing[s]
    /\ serve' = [serve EXCEPT ![s] = "returned"]
    /\ waiting' = waiting - 1
    /\ UNCHANGED <<exit, starting, interrupt, shutdown, stop, closing, active,
                   reload, socket, admin, early, bounds>>

\* Any other error of Serve is fatal.
ServeFails(s) ==
    /\ Running /\ serve[s] = "serving" /\ ~ closing[s]
    /\ faults < MaxFaults
    /\ faults' = faults + 1
    /\ Exit("error")
    /\ UNCHANGED <<starting, interrupt, shutdown, stop, waiting, net, socket,
                   admin, early, signals, requests>>

\* The environment: a request comes in ...
Request(s) ==
    /\ Running /\ serve[s] = "serving" /\ ~ closing[s]
    /\ active[s] < MaxConns /\ requests < MaxRequests
    /\ active' = [active EXCEPT ![s] = @ + 1]
    /\ requests' = requests + 1
    /\ UNCHANGED <<exit, starting, interrupt, shutdown, stop, waiting, serve,
                   closing, reload, socket, admin, early, signals, faults>>

\* ... and is answered; a POST or DELETE has started a reload timer.
Answer(s) ==
    /\ Running /\ active[s] > 0
    /\ active' = [active EXCEPT ![s] = @ - 1]
    /\ reload' \in {reload, TRUE}
    /\ UNCHANGED <<exit, starting, interrupt, shutdown, stop, waiting, serve,
                   closing, socket, admin, early, bounds>>

\* The timer runs out: the process becomes a fresh one.  Its listeners go
\* with it, but not the file.
Exec ==
    /\ Running /\ reload
    /\ main' = "configure" /\ notified' = FALSE
    /\ interrupt' = 0 /\ shutdown' = FALSE
    /\ array' = 0 /\ length' = 0
    /\ handler' = "none" /\ seen' = [array |-> None, length |-> None]
    /\ stopping' = [s \in Servers |-> "no"]
    /\ expired' = FALSE /\ torndown' = FALSE /\ waiting' = 0
    /\ serve' = [s \in Servers |-> "no"] /\ closing' = [s \in Servers |-> FALSE]
    /\ active' = [s \in Servers |-> 0] /\ reload' = FALSE /\ early' = FALSE
    /\ UNCHANGED <<exit, socket, admin, bounds>>

(***************************************************************************)
(* Signals and the graceful shutdown.                                      *)
(***************************************************************************)

\* Serve is starting its servers.
Launching == main \in {"append", "appending", "launch"}

\* SIGINT or SIGTERM: unless the process has asked for it, it is killed; the
\* channel holds one, and others are dropped.
Signal ==
    /\ Running /\ signals < MaxSignals
    /\ signals' = signals + 1
    /\ early' = (early \/ Launching)
    /\ IF notified THEN interrupt' = 1 /\ UNCHANGED exit
       ELSE Exit("killed") /\ UNCHANGED interrupt
    /\ UNCHANGED <<starting, shutdown, stop, waiting, net, socket, admin,
                   requests, faults>>

\* handleInterrupt: the first signal calls Shutdown, which closes the
\* channel; later ones are received and logged.
HandleInterrupt ==
    /\ Running /\ handler # "none" /\ interrupt > 0
    /\ interrupt' = 0
    /\ shutdown' = TRUE
    /\ UNCHANGED <<exit, starting, stop, waiting, net, socket, admin, early,
                   bounds>>

\* Deviation: handleShutdown does not wait.
AwaitedNothing == handler = "wait"

\* <-s.shutdown.
Awaited == handler = "wait" /\ shutdown

\* handleShutdown: servers := *serversPtr, word by word, in the order the
\* compiler chose.  A length that belongs to a later array leads beyond this
\* one, to something that is no server.
ReadServers(word) ==
    LET words == [array |-> array, length |-> length]
        now == [seen EXCEPT ![word] = words[word]] IN
    /\ Running /\ Awaited
    /\ seen[word] = None
    /\ seen' = now
    /\ IF None \in {now.array, now.length}
       THEN UNCHANGED <<exit, handler, stopping>>
       ELSE IF now.length > now.array
       THEN Exit("panic") /\ UNCHANGED <<handler, stopping>>
       ELSE /\ handler' = "collect"
            /\ stopping' = [s \in Servers |->
                            IF s <= now.length THEN "begin" ELSE "no"]
            /\ UNCHANGED exit
    /\ UNCHANGED <<starting, interrupt, shutdown, expired, torndown, waiting,
                   net, socket, admin, early, bounds>>

\* http.Server.Shutdown: listeners are closed (a unix listener removes its
\* file) ...
Shutdown(s) ==
    /\ Running /\ stopping[s] = "begin"
    /\ stopping' = [stopping EXCEPT ![s] = "drain"]
    /\ closing' = [closing EXCEPT ![s] = TRUE]
    /\ socket' = (socket /\ Schemes[s] # "unix")
    /\ UNCHANGED <<exit, starting, interrupt, shutdown, handler, seen, expired,
                   torndown, waiting, serve, active, reload, admin, early,
                   bounds>>

\* Deviation: Shutdown has no deadline.
DrainedWithoutDeadline(s) ==
    /\ Running /\ stopping[s] = "drain"
    /\ active[s] = 0 /\ stopping' = [stopping EXCEPT ![s] = "ok"]
    /\ UNCHANGED <<exit, starting, interrupt, shutdown, handler, seen, expired,
                   torndown, waiting, net, socket, admin, early, bounds>>

\* ... and it returns when no connection is active, or time is up.
Drained(s) ==
    /\ Running /\ stopping[s] = "drain"
    /\ \/ active[s] = 0 /\ stopping' = [stopping EXCEPT ![s] = "ok"]
       \/ expired /\ stopping' = [stopping EXCEPT ![s] = "failed"]
    /\ UNCHANGED <<exit, starting, interrupt, shutdown, handler, seen, expired,
                   torndown, waiting, net, socket, admin, early, bounds>>

Stopped == {s \in Servers : stopping[s] # "no"}

\* Deviation: the results are not looked at.
CollectAnything ==
    /\ Running /\ handler = "collect"
    /\ \E s \in Stopped : stopping[s] = "failed"
    /\ torndown' = TRUE
    /\ handler' = "done"
    /\ expired' = TRUE
    /\ waiting' = waiting - 1
    /\ UNCHANGED <<exit, starting, interrupt, shutdown, seen, stopping, net,
                   socket, admin, early, bounds>>

\* success = success && <-shutdownChan: the first failure ends the wait, and
\* returning cancels the context of those still draining; ...
CollectFailure ==
    /\ Running /\ handler = "collect"
    /\ \E s \in Stopped : stopping[s] = "failed"
    /\ handler' = "done"
    /\ expired' = TRUE
    /\ waiting' = waiting - 1
    /\ UNCHANGED <<exit, starting, interrupt, shutdown, seen, stopping,
                   torndown, net, socket, admin, early, bounds>>

\* ... if all succeed ServerShutdown is called.
CollectAll ==
    /\ Running /\ handler = "collect"
    /\ \A s \in Stopped : stopping[s] = "ok"
    /\ torndown' = TRUE
    /\ handler' = "done"
    /\ expired' = TRUE
    /\ waiting' = waiting - 1
    /\ UNCHANGED <<exit, starting, interrupt, shutdown, seen, stopping, net,
                   socket, admin, early, bounds>>

\* GracefulTimeout has passed.
Expire ==
    /\ Running /\ handler = "collect" /\ ~ expired
    /\ expired' = TRUE
    /\ UNCHANGED <<exit, starting, interrupt, shutdown, handler, seen,
                   stopping, torndown, waiting, net, socket, admin, early,
                   bounds>>

HandleShutdown ==
    \/ ReadServers("array") \/ ReadServers("length")
    \/ CollectFailure \/ CollectAll

Goroutine(s) == ServeStarts(s) \/ ServeReturns(s) \/ Shutdown(s) \/ Drained(s)

\* The process has ended.
Over == exit # "running" /\ UNCHANGED vars

Next ==
    \/ Main \/ Signal \/ HandleInterrupt \/ HandleShutdown \/ Expire \/ Exec
    \/ \E s \in Servers :
        Goroutine(s) \/ ServeFails(s) \/ Request(s) \/ Answer(s)
    \/ Over

\* Goroutines run, and time passes.  Clients owe nothing: a request may take
\* for ever.
Fairness ==
    /\ WF_vars(Main) /\ WF_vars(HandleInterrupt) /\ WF_vars(HandleShutdown)
    /\ WF_vars(Expire) /\ WF_vars(Exec)
    /\ \A s \in Servers : WF_vars(Goroutine(s))

Spec == Init /\ [][Next]_vars /\ Fairness

-----------------------------------------------------------------------------

\* The servers whose goroutines have yet to end.
Unended == {s \in Servers : serve[s] \in {"launched", "serving"}}

\* Types; and the WaitGroup counts the goroutines that have yet to end:
\* handleShutdown, and the servers' (Serve).
TypeOK ==
    /\ main \in {"configure", "off", "listen", "notify", "append", "appending",
                 "launch", "wait"}
    /\ exit \in {"running", "ok", "error", "panic", "killed"}
    /\ interrupt \in 0..1
    /\ notified \in BOOLEAN /\ shutdown \in BOOLEAN /\ expired \in BOOLEAN
    /\ torndown \in BOOLEAN /\ reload \in BOOLEAN /\ socket \in BOOLEAN
    /\ admin \in BOOLEAN /\ early \in BOOLEAN
    /\ length \in 0..LastServer /\ array \in {0, 1, 2, 4}
    /\ handler \in {"none", "wait", "collect", "done"}
    /\ seen \in [array : {None, 0, 1, 2, 4},
                 length : {None} \cup 0..LastServer]
    /\ stopping \in [Servers -> {"no", "begin", "drain", "ok", "failed"}]
    /\ serve \in [Servers -> {"no", "launched", "serving", "returned"}]
    /\ closing \in [Servers -> BOOLEAN] /\ active \in [Servers -> 0..MaxConns]
    /\ waiting = Cardinality(Unended)
                  + IF handler \in {"wait", "collect"} THEN 1 ELSE 0

\* Servers that were not there yet when handleShutdown read the slice: it
\* never stops them.
Missed == {s \in Servers : seen.length # None /\ s > seen.length}

(***************************************************************************)
(* Serve fills the slice that handleShutdown reads, without a lock, after  *)
(* it has started handleShutdown.  A server is missed only if a signal     *)
(* came in just that time, however the process was started, reloaded or    *)
(* signalled before and after.                                             *)
(***************************************************************************)
MissedOnlyEarly == Missed # {} => early

(***************************************************************************)
(* "ServerShutdown is called when the HTTP(S) server is shut down and done *)
(* handling all active connections and does not accept connections any     *)
(* more" (open_mock_api.go:140): of all servers but the missed.            *)
(***************************************************************************)
TornDownWhenDone ==
    torndown => \A s \in Servers \ Missed : active[s] = 0 /\ closing[s]

(***************************************************************************)
(* A process that ends of itself has answered every request that it had    *)
(* accepted, unless the grace period is over for one of its servers        *)
(* (wg.Wait in Serve, handleShutdown).                                     *)
(***************************************************************************)
RequestsAnswered ==
    exit = "ok" =>
        \/ \A s \in Servers : active[s] = 0
        \/ \E s \in Servers : stopping[s] = "failed"

(***************************************************************************)
(* --graceful-timeout is the "grace period for which to wait before        *)
(* shutting down the server" (server.go:74): the process that has a signal *)
(* to handle ends, however long its requests take, unless it misses a      *)
(* server, which goes on, or a reload replaces it by a fresh one before    *)
(* (handleInterrupt, handleShutdown, wg.Wait).                             *)
(***************************************************************************)
StopsOrReloads ==
    interrupt > 0 ~> exit # "running" \/ main = "configure" \/ Missed # {}
=============================================================================
