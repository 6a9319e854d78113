------------------------------ MODULE Shutdown ------------------------------
(***************************************************************************)
(* How the process stops (cmd/stacklab, internal/lifecycle, and the parts  *)
(* of the handler, the sessions and the terminals that take part): worker  *)
(* admission closes first, requests are drained, WebSockets and sessions   *)
(* are closed and waited for, terminals end, workers are waited for, and   *)
(* the store is closed if none of the waits failed.  One deadline covers   *)
(* all of it; a wait that ends when the deadline has passed may find       *)
(* either, as select does.                                                 *)
(***************************************************************************)
EXTENDS Naturals, FiniteSets

CONSTANTS Jobs, Loops, Sockets, Timers, Terms

VARIABLES
  main,      \* the step of run and shutdownApplication
  expired,   \* the 25 seconds are over
  errors,    \* the waits that failed
  store,     \* whether the store is open
  stopping,  \* of the lifecycle manager
  closing,   \* of the WebSockets and of the session hub
  loops,     \* background workers that run
  work,      \* where the work of a job is: in its request, a worker, or back
  notice,    \* its notification: not due, in a worker, in the job's goroutine, sent
  sock,      \* WebSocket connections
  timer,     \* expiry timers of sessions
  term       \* terminals

shutdownVars == <<main, expired, errors, store, stopping, closing, loops, work, notice, sock, timer, term>>
serving == <<loops, work, notice, sock, timer, term>>

ShutdownInit ==
  /\ main = "start" /\ expired = FALSE /\ errors = {} /\ store = "open" /\ stopping = FALSE /\ closing = {}
  /\ loops = {} /\ work = [j \in Jobs |-> "none"] /\ notice = [j \in Jobs |-> "none"]
  /\ sock = [s \in Sockets |-> "none"] /\ timer = [t \in Timers |-> "armed"] /\ term = [t \in Terms |-> "none"]

(* A connection accepted before the listener closed may still bring its request. *)
Accepting == main \in {"serving", "begun", "http"}
Alive == main # "exited"
(* What each wait waits for: the connections of the server, wsWG, expirationWG and the wait group
   of the manager. *)
OpenRequests == {j \in Jobs : work[j] \in {"request", "inline"}} \cup {s \in Sockets : sock[s] = "upgrading"}
Registered == {s \in Sockets : sock[s] \in {"open", "closed"}}
Expiring == {t \in Timers : timer[t] = "expiring"}
Admitted ==
  {<<"loop", l>> : l \in loops} \cup {<<"job", j>> : j \in {i \in Jobs : work[i] = "worker"}}
    \cup {<<"notice", j>> : j \in {i \in Jobs : notice[i] = "worker"}}
-----------------------------------------------------------------------------
Go == ~stopping

Start == main = "start" /\ main' = "serving" /\ loops' = Loops
         /\ UNCHANGED <<expired, errors, store, stopping, closing, work, notice, sock, timer, term>>
(* A background worker returns when its context is cancelled. *)
LoopReturns(l) ==
  /\ Alive /\ stopping /\ l \in loops /\ loops' = loops \ {l}
  /\ UNCHANGED <<main, expired, errors, store, stopping, closing, work, notice, sock, timer, term>>
Job(j, at) == work' = [work EXCEPT ![j] = at]
QuietJob == UNCHANGED <<main, expired, errors, store, stopping, closing, loops, sock, timer, term>>
(* A request has created a job. *)
Request(j) == Accepting /\ work[j] = "none" /\ Job(j, "request") /\ UNCHANGED notice /\ QuietJob
(* The work goes to a worker, or stays in the request when shutdown was first. *)
startWorker(j) ==
  Alive /\ work[j] = "request" /\ Job(j, IF Go THEN "worker" ELSE "inline") /\ UNCHANGED notice /\ QuietJob
(* The job has a terminal row; its notification is admitted, or sent before the goroutine goes on. *)
terminalHook(j) ==
  /\ Alive /\ work[j] \in {"worker", "inline"} /\ notice[j] = "none"
  /\ IF Go THEN Job(j, "back") /\ notice' = [notice EXCEPT ![j] = "worker"]
           ELSE notice' = [notice EXCEPT ![j] = "here"] /\ UNCHANGED work
  /\ QuietJob
dispatch(j) ==
  /\ Alive /\ notice[j] \in {"worker", "here"} /\ notice' = [notice EXCEPT ![j] = "sent"]
  /\ Job(j, "back") /\ QuietJob
-----------------------------------------------------------------------------
QuietSock == UNCHANGED <<main, expired, errors, store, stopping, closing, loops, work, notice>>
Sock(s, at) == sock' = [sock EXCEPT ![s] = at]
handleWebSocket(s) == Accepting /\ sock[s] = "none" /\ Sock(s, "upgrading") /\ UNCHANGED <<timer, term>> /\ QuietSock
(* The connection is taken from the server, and registered nowhere yet. *)
Upgrade(s) ==
  Alive /\ sock[s] = "upgrading" /\ Sock(s, "hijacked") /\ UNCHANGED <<timer, term>> /\ QuietSock
registerWebSocket(s) ==
  /\ Alive /\ sock[s] = "hijacked" /\ Sock(s, IF "sockets" \in closing THEN "gone" ELSE "open")
  /\ UNCHANGED <<timer, term>> /\ QuietSock
(* The client leaves, or the handler notices that its connection was closed; its workers have ended. *)
unregisterWebSocket(s) == Alive /\ s \in Registered /\ Sock(s, "gone") /\ UNCHANGED <<timer, term>> /\ QuietSock
(* Also a frame that was read before its connection was closed. *)
OpenTerminal(s, t) ==
  Alive /\ s \in Registered /\ term[t] = "none" /\ term' = [term EXCEPT ![t] = "open"] /\ UNCHANGED <<sock, timer>> /\ QuietSock
(* A terminal ends by itself: it is taken off the table, and its end recorded by its own goroutine. *)
endSession(t) ==
  /\ Alive /\ \/ term[t] = "open" /\ term' = [term EXCEPT ![t] = "ending"]
              \/ term[t] = "ending" /\ term' = [term EXCEPT ![t] = "ended"]
  /\ UNCHANGED <<sock, timer>> /\ QuietSock
(* A timer fires; its session is ended, or the timer set again because the session was used. *)
runExpiration(t) ==
  /\ Alive /\ UNCHANGED <<sock, term>> /\ QuietSock
  /\ \/ timer[t] = "armed" /\ timer' = [timer EXCEPT ![t] = IF "sessions" \in closing THEN "done" ELSE "expiring"]
     \/ timer[t] = "expiring" /\ timer' = [timer EXCEPT ![t] = "done"]
     \/ timer[t] = "expiring" /\ "sessions" \notin closing /\ timer' = [timer EXCEPT ![t] = "armed"]
-----------------------------------------------------------------------------
(* A signal, or the server fails; worker admission is closed and the workers' context cancelled. *)
BeginShutdown ==
  /\ main = "serving" /\ main' = "begun" /\ stopping' = TRUE
  /\ UNCHANGED <<expired, errors, store, closing, serving>>
Waits(step, busy, next) ==
  /\ main = step /\ main' = next
  /\ \/ busy = {} /\ UNCHANGED errors
     \/ expired /\ errors' = errors \cup {step}
(* The server stops listening, and waits for the requests. *)
StopAccepting ==
  main = "begun" /\ main' = "http" /\ UNCHANGED <<expired, errors, store, stopping, closing, serving>>
DrainHTTP == Waits("http", OpenRequests, "close") /\ UNCHANGED <<expired, store, stopping, closing, serving>>
closeWebSockets ==
  /\ main = "close" /\ main' = "sockets" /\ closing' = closing \cup {"sockets"}
  /\ sock' = [s \in Sockets |-> IF sock[s] = "open" THEN "closed" ELSE sock[s]]
  /\ UNCHANGED <<expired, errors, store, stopping, loops, work, notice, timer, term>>
waitForWebSockets == Waits("sockets", Registered, "hub") /\ UNCHANGED <<expired, store, stopping, closing, serving>>
(* The hub stops its timers; one that has fired already finds closing set. *)
CloseSessions ==
  /\ main = "hub" /\ main' = "sessions" /\ closing' = closing \cup {"sessions"}
  /\ \E late \in SUBSET {t \in Timers : timer[t] = "armed"} :
       timer' = [t \in Timers |-> IF timer[t] = "armed" /\ t \notin late THEN "done" ELSE timer[t]]
  /\ UNCHANGED <<expired, errors, store, stopping, loops, work, notice, sock, term>>
WaitSessions == Waits("sessions", Expiring, "terminals") /\ UNCHANGED <<expired, store, stopping, closing, serving>>
CloseAll ==
  /\ main = "terminals" /\ main' = "workers"
  /\ term' = [t \in Terms |-> IF term[t] = "open" THEN "ended" ELSE term[t]]
  /\ UNCHANGED <<expired, errors, store, stopping, closing, loops, work, notice, sock, timer>>
Wait == Waits("workers", Admitted, "store") /\ UNCHANGED <<expired, store, stopping, closing, serving>>
(* Mutation: the store is closed although a wait has failed. *)
CloseAnyway ==
  /\ main = "store" /\ main' = "returned" /\ store' = "closed"
  /\ UNCHANGED <<expired, errors, stopping, closing, serving>>
(* The failure of the server's own drain is not among the errors that keep the store open. *)
CloseStore ==
  /\ main = "store" /\ main' = "returned" /\ store' = IF errors \ {"http"} = {} THEN "closed" ELSE "open"
  /\ UNCHANGED <<expired, errors, stopping, closing, serving>>
Exit == main = "returned" /\ main' = "exited" /\ UNCHANGED <<expired, errors, store, stopping, closing, serving>>
Deadline ==
  /\ main \notin {"start", "serving", "exited"} /\ ~expired /\ expired' = TRUE
  /\ UNCHANGED <<main, errors, store, stopping, closing, serving>>

Stepping ==
  \/ BeginShutdown \/ StopAccepting \/ DrainHTTP \/ closeWebSockets \/ waitForWebSockets
  \/ CloseSessions \/ WaitSessions \/ CloseAll \/ Wait \/ CloseStore \/ Exit
ShutdownNext ==
  \/ Start \/ Stepping \/ Deadline
  \/ \E l \in Loops : LoopReturns(l)
  \/ \E j \in Jobs : Request(j) \/ startWorker(j) \/ terminalHook(j) \/ dispatch(j)
  \/ \E s \in Sockets :
       \/ handleWebSocket(s) \/ Upgrade(s) \/ registerWebSocket(s) \/ unregisterWebSocket(s)
       \/ \E t \in Terms : OpenTerminal(s, t)
  \/ \E t \in Terms : endSession(t)
  \/ \E t \in Timers : runExpiration(t)
ShutdownSpec == ShutdownInit /\ [][ShutdownNext]_shutdownVars
-----------------------------------------------------------------------------
(* When the store is closed nothing that was waited for uses it: no worker or background loop, no
   WebSocket, no expiry of a session, no open terminal, and no request either unless the drain of
   the server itself has run into the deadline. *)
StoreOutlivesWork ==
  store = "closed" =>
    /\ Admitted = {} /\ Registered = {} /\ Expiring = {}
    /\ \A t \in Terms : term[t] # "open"
    /\ "http" \notin errors => OpenRequests = {}

(* A shutdown without errors has lost no job: each one that was created has come to its terminal
   row, in a worker or in its request, and its notification was sent before the store was closed. *)
CleanExitIsComplete ==
  main = "exited" /\ errors = {} =>
    store = "closed" /\ \A j \in Jobs : work[j] # "none" => work[j] = "back" /\ notice[j] = "sent"

(* Nothing joins a group that is being waited for: workers after Stop, WebSockets after
   closeWebSockets, expiries after the hub has closed. *)
NothingJoinsAWait ==
  /\ stopping => Admitted' \subseteq Admitted
  /\ "sockets" \in closing => Registered' \subseteq Registered
  /\ "sessions" \in closing => Expiring' \subseteq Expiring

(* Shutdown releases the store last, a clean exit has left nothing undone, and nothing joins a
   group that is being waited for. *)
ShutdownIsOrderly == [](StoreOutlivesWork /\ CleanExitIsComplete) /\ [][NothingJoinsAWait]_shutdownVars
=============================================================================
