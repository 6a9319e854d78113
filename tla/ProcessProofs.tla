--------------------------- MODULE ProcessProofs ---------------------------
(***************************************************************************)
(* Two sequences of steps that anything may interrupt: the process that is *)
(* told to stop, and the job that changes the settings of the Docker       *)
(* daemon through its helper.                                              *)
(*                                                                         *)
(* The shutdown of the process is safe for any number of jobs, loops,      *)
(* connections, timers and terminals: one inductive invariant, kept by     *)
(* every step, and the three properties that follow from it.               *)
(*                                                                         *)
(* The result of a change of the daemon's settings is exact for any        *)
(* contents, requests and number of jobs: step by step, what the file is   *)
(* for a job that nobody has disturbed, and that every job finds a free    *)
(* name for its backup.                                                    *)
(***************************************************************************)
EXTENDS Shutdown, DaemonConfig, TLAPS

(* The inductive invariant: what a wait that did not fail has found stays true, because the flag
   that was set before it lets nothing join. *)
Served == {"begun", "http", "close", "sockets", "hub", "sessions", "terminals", "workers", "store", "returned", "exited"}
Drained == Served \ {"begun", "http"}
Typed ==
  /\ main \in Served \cup {"start", "serving"} /\ store \in {"open", "closed"}
  /\ work \in [Jobs -> {"none", "request", "worker", "inline", "back"}]
  /\ notice \in [Jobs -> {"none", "worker", "here", "sent"}]
  /\ sock \in [Sockets -> {"none", "upgrading", "hijacked", "open", "closed", "gone"}]
  /\ timer \in [Timers -> {"armed", "expiring", "done"}]
  /\ term \in [Terms -> {"none", "open", "ending", "ended"}]
Flags ==
  /\ stopping <=> main \in Served
  /\ "sockets" \in closing <=> main \in Drained \ {"close"}
  /\ "sessions" \in closing <=> main \in Drained \ {"close", "sockets", "hub"}
Notified ==
  \A j \in Jobs :
    /\ work[j] \in {"none", "request"} => notice[j] = "none"
    /\ work[j] \in {"worker", "inline"} => notice[j] \in {"none", "here"}
    /\ work[j] = "back" => notice[j] \in {"worker", "sent"}
Waited ==
  /\ main \in Drained /\ "http" \notin errors => OpenRequests = {}
  /\ main \in Drained \ {"close", "sockets"} /\ "sockets" \notin errors => Registered = {}
  /\ main \in Drained \ {"close", "sockets", "hub", "sessions"} /\ "sessions" \notin errors => Expiring = {}
  /\ main \in {"workers", "store", "returned", "exited"} /\ "sockets" \notin errors => \A t \in Terms : term[t] # "open"
  /\ main \in {"store", "returned", "exited"} /\ "workers" \notin errors => Admitted = {}
Closed ==
  /\ store = "closed" => main \in {"returned", "exited"} /\ errors \subseteq {"http"}
  /\ main \in {"returned", "exited"} /\ errors = {} => store = "closed"
ShutdownInv == Typed /\ Flags /\ Notified /\ Waited /\ Closed

(* Before anything starts the invariant holds. *)
LEMMA ShutdownInvInit == ShutdownInit => ShutdownInv
  BY DEF ShutdownInit, ShutdownInv, Typed, Flags, Notified, Waited, Closed, Served, Drained

(* The work of jobs keeps the invariant: what is not admitted any more stays in its request. *)
LEMMA JobsKeepInv ==
  ASSUME ShutdownInv, NEW j \in Jobs, Request(j) \/ startWorker(j) \/ terminalHook(j) \/ dispatch(j)
  PROVE  ShutdownInv'
<1>1. CASE Request(j)
  <2>1. Typed'  BY <1>1 DEF ShutdownInv, Typed, Request, Job, QuietJob, Accepting
  <2>2. Flags'  BY <1>1 DEF ShutdownInv, Flags, Served, Drained, Request, Job, QuietJob, Accepting
  <2>3. Notified'  BY <1>1 DEF ShutdownInv, Typed, Notified, Request, Job, QuietJob, Accepting
  <2>4. Waited'
      BY <1>1 DEF ShutdownInv, Typed, Flags, Waited, OpenRequests, Registered, Expiring, Admitted, Drained,
             Served, Request, Job, QuietJob, Accepting
  <2>5. Closed'  BY <1>1 DEF ShutdownInv, Closed, Request, Job, QuietJob, Accepting
  <2> QED  BY <2>1, <2>2, <2>3, <2>4, <2>5 DEF ShutdownInv
<1>2. CASE startWorker(j)
  <2>1. Typed'  BY <1>2 DEF ShutdownInv, Typed, startWorker, Job, QuietJob, Go
  <2>2. Flags'  BY <1>2 DEF ShutdownInv, Flags, Served, Drained, startWorker, Job, QuietJob, Go
  <2>3. Notified'  BY <1>2 DEF ShutdownInv, Typed, Notified, startWorker, Job, QuietJob, Go
  <2>4. Waited'
      BY <1>2 DEF ShutdownInv, Typed, Flags, Waited, OpenRequests, Registered, Expiring, Admitted, Drained,
             Served, startWorker, Job, QuietJob, Go
  <2>5. Closed'  BY <1>2 DEF ShutdownInv, Closed, startWorker, Job, QuietJob, Go
  <2> QED  BY <2>1, <2>2, <2>3, <2>4, <2>5 DEF ShutdownInv
<1>3. CASE terminalHook(j)
  <2>1. Typed'  BY <1>3 DEF ShutdownInv, Typed, terminalHook, Job, QuietJob, Go
  <2>2. Flags'  BY <1>3 DEF ShutdownInv, Flags, Served, Drained, terminalHook, Job, QuietJob, Go
  <2>3. Notified'  BY <1>3 DEF ShutdownInv, Typed, Notified, terminalHook, Job, QuietJob, Go
  <2>4. Waited'
      BY <1>3 DEF ShutdownInv, Typed, Flags, Waited, OpenRequests, Registered, Expiring, Admitted, Drained,
             Served, terminalHook, Job, QuietJob, Go
  <2>5. Closed'  BY <1>3 DEF ShutdownInv, Closed, terminalHook, Job, QuietJob, Go
  <2> QED  BY <2>1, <2>2, <2>3, <2>4, <2>5 DEF ShutdownInv
<1>4. CASE dispatch(j)
  <2>1. Typed'  BY <1>4 DEF ShutdownInv, Typed, dispatch, Job, QuietJob
  <2>2. Flags'  BY <1>4 DEF ShutdownInv, Flags, Served, Drained, dispatch, Job, QuietJob
  <2>3. Notified'  BY <1>4 DEF ShutdownInv, Typed, Notified, dispatch, Job, QuietJob
  <2>4. Waited'
      BY <1>4 DEF ShutdownInv, Typed, Flags, Waited, OpenRequests, Registered, Expiring, Admitted, Drained,
             Served, dispatch, Job, QuietJob
  <2>5. Closed'  BY <1>4 DEF ShutdownInv, Closed, dispatch, Job, QuietJob
  <2> QED  BY <2>1, <2>2, <2>3, <2>4, <2>5 DEF ShutdownInv
<1> QED  BY <1>1, <1>2, <1>3, <1>4

(* Connections keep the invariant: one that comes too late is not registered. *)
LEMMA SocketsKeepInv ==
  ASSUME ShutdownInv, NEW s \in Sockets,
         handleWebSocket(s) \/ Upgrade(s) \/ registerWebSocket(s) \/ unregisterWebSocket(s)
  PROVE  ShutdownInv'
<1>1. CASE handleWebSocket(s)
  <2>1. Typed'  BY <1>1 DEF ShutdownInv, Typed, handleWebSocket, Sock, QuietSock, Accepting
  <2>2. Flags'  BY <1>1 DEF ShutdownInv, Flags, Served, Drained, handleWebSocket, Sock, QuietSock, Accepting
  <2>3. Notified'  BY <1>1 DEF ShutdownInv, Typed, Notified, handleWebSocket, Sock, QuietSock, Accepting
  <2>4. Waited'
      BY <1>1 DEF ShutdownInv, Typed, Flags, Waited, OpenRequests, Registered, Expiring, Admitted, Drained,
             Served, handleWebSocket, Sock, QuietSock, Accepting
  <2>5. Closed'  BY <1>1 DEF ShutdownInv, Closed, handleWebSocket, Sock, QuietSock, Accepting
  <2> QED  BY <2>1, <2>2, <2>3, <2>4, <2>5 DEF ShutdownInv
<1>2. CASE Upgrade(s)
  <2>1. Typed'  BY <1>2 DEF ShutdownInv, Typed, Upgrade, Sock, QuietSock
  <2>2. Flags'  BY <1>2 DEF ShutdownInv, Flags, Served, Drained, Upgrade, Sock, QuietSock
  <2>3. Notified'  BY <1>2 DEF ShutdownInv, Typed, Notified, Upgrade, Sock, QuietSock
  <2>4. Waited'
      BY <1>2 DEF ShutdownInv, Typed, Flags, Waited, OpenRequests, Registered, Expiring, Admitted, Drained,
             Served, Upgrade, Sock, QuietSock
  <2>5. Closed'  BY <1>2 DEF ShutdownInv, Closed, Upgrade, Sock, QuietSock
  <2> QED  BY <2>1, <2>2, <2>3, <2>4, <2>5 DEF ShutdownInv
<1>3. CASE registerWebSocket(s)
  <2>1. Typed'  BY <1>3 DEF ShutdownInv, Typed, registerWebSocket, Sock, QuietSock
  <2>2. Flags'  BY <1>3 DEF ShutdownInv, Flags, Served, Drained, registerWebSocket, Sock, QuietSock
  <2>3. Notified'  BY <1>3 DEF ShutdownInv, Typed, Notified, registerWebSocket, Sock, QuietSock
  <2>4. Waited'
      BY <1>3 DEF ShutdownInv, Typed, Flags, Waited, OpenRequests, Registered, Expiring, Admitted, Drained,
             Served, registerWebSocket, Sock, QuietSock
  <2>5. Closed'  BY <1>3 DEF ShutdownInv, Closed, registerWebSocket, Sock, QuietSock
  <2> QED  BY <2>1, <2>2, <2>3, <2>4, <2>5 DEF ShutdownInv
<1>4. CASE unregisterWebSocket(s)
  <2>1. Typed'  BY <1>4 DEF ShutdownInv, Typed, unregisterWebSocket, Sock, QuietSock
  <2>2. Flags'  BY <1>4 DEF ShutdownInv, Flags, Served, Drained, unregisterWebSocket, Sock, QuietSock
  <2>3. Notified'  BY <1>4 DEF ShutdownInv, Typed, Notified, unregisterWebSocket, Sock, QuietSock
  <2>4. Waited'
      BY <1>4 DEF ShutdownInv, Typed, Flags, Waited, OpenRequests, Registered, Expiring, Admitted, Drained,
             Served, unregisterWebSocket, Sock, QuietSock
  <2>5. Closed'  BY <1>4 DEF ShutdownInv, Closed, unregisterWebSocket, Sock, QuietSock
  <2> QED  BY <2>1, <2>2, <2>3, <2>4, <2>5 DEF ShutdownInv
<1> QED  BY <1>1, <1>2, <1>3, <1>4

(* Only a registered connection opens a terminal, and a terminal may end at any time. *)
LEMMA TerminalsKeepInv ==
  ASSUME ShutdownInv, NEW s \in Sockets, NEW t \in Terms,
         OpenTerminal(s, t)
  PROVE  ShutdownInv'
<1>1. Typed'  BY DEF ShutdownInv, Typed, OpenTerminal, Registered, QuietSock
<1>2. Flags'  BY DEF ShutdownInv, Flags, Served, Drained, OpenTerminal, QuietSock
<1>3. Notified'  BY DEF ShutdownInv, Typed, Notified, OpenTerminal, QuietSock
<1>4. Waited'
    BY DEF ShutdownInv, Typed, Flags, Waited, OpenRequests, Registered, Expiring, Admitted, Drained, Served,
           OpenTerminal, QuietSock
<1>5. Closed'  BY DEF ShutdownInv, Closed, OpenTerminal, QuietSock
<1> QED  BY <1>1, <1>2, <1>3, <1>4, <1>5 DEF ShutdownInv

(* A terminal that ends keeps the invariant. *)
LEMMA EndsKeepInv ==
  ASSUME ShutdownInv, NEW t \in Terms,
         endSession(t)
  PROVE  ShutdownInv'
<1>1. Typed'  BY DEF ShutdownInv, Typed, endSession, QuietSock
<1>2. Flags'  BY DEF ShutdownInv, Flags, Served, Drained, endSession, QuietSock
<1>3. Notified'  BY DEF ShutdownInv, Typed, Notified, endSession, QuietSock
<1>4. Waited'
    BY DEF ShutdownInv, Typed, Flags, Waited, OpenRequests, Registered, Expiring, Admitted, Drained, Served,
           endSession, QuietSock
<1>5. Closed'  BY DEF ShutdownInv, Closed, endSession, QuietSock
<1> QED  BY <1>1, <1>2, <1>3, <1>4, <1>5 DEF ShutdownInv

(* A timer that fires after the hub has closed does nothing. *)
LEMMA TimersKeepInv ==
  ASSUME ShutdownInv, NEW t \in Timers,
         runExpiration(t)
  PROVE  ShutdownInv'
<1>1. Typed'  BY DEF ShutdownInv, Typed, runExpiration, QuietSock
<1>2. Flags'  BY DEF ShutdownInv, Flags, Served, Drained, runExpiration, QuietSock
<1>3. Notified'  BY DEF ShutdownInv, Typed, Notified, runExpiration, QuietSock
<1>4. Waited'
    BY DEF ShutdownInv, Typed, Flags, Waited, OpenRequests, Registered, Expiring, Admitted, Drained, Served,
           runExpiration, QuietSock
<1>5. Closed'  BY DEF ShutdownInv, Closed, runExpiration, QuietSock
<1> QED  BY <1>1, <1>2, <1>3, <1>4, <1>5 DEF ShutdownInv

(* A background worker that returns keeps the invariant. *)
LEMMA LoopsKeepInv ==
  ASSUME ShutdownInv, NEW l \in Loops,
         LoopReturns(l)
  PROVE  ShutdownInv'
<1>1. Typed'  BY DEF ShutdownInv, Typed, LoopReturns
<1>2. Flags'  BY DEF ShutdownInv, Flags, Served, Drained, LoopReturns
<1>3. Notified'  BY DEF ShutdownInv, Typed, Notified, LoopReturns
<1>4. Waited'
    BY DEF ShutdownInv, Typed, Flags, Waited, OpenRequests, Registered, Expiring, Admitted, Drained, Served,
           LoopReturns
<1>5. Closed'  BY DEF ShutdownInv, Closed, LoopReturns
<1> QED  BY <1>1, <1>2, <1>3, <1>4, <1>5 DEF ShutdownInv

(* Every step of the main goroutine, and the deadline, keep the invariant: a wait is left with its
   group empty or with an error. *)
LEMMA MainKeepsInv ==
  ASSUME ShutdownInv, Start \/ Stepping \/ Deadline
  PROVE  ShutdownInv'
<1>1. CASE Start
  <2>1. Typed'  BY <1>1 DEF ShutdownInv, Typed, Start
  <2>2. Flags'  BY <1>1 DEF ShutdownInv, Flags, Served, Drained, Start
  <2>3. Notified'  BY <1>1, Zenon DEF ShutdownInv, Typed, Notified, Start
  <2>4. Waited'
      BY <1>1 DEF ShutdownInv, Typed, Flags, Waited, OpenRequests, Registered, Expiring, Admitted, Drained,
             Served, Start
  <2>5. Closed'  BY <1>1 DEF ShutdownInv, Closed, Start
  <2> QED  BY <2>1, <2>2, <2>3, <2>4, <2>5 DEF ShutdownInv
<1>2. CASE Deadline
  <2>1. Typed'  BY <1>2 DEF ShutdownInv, Typed, Deadline, serving
  <2>2. Flags'  BY <1>2 DEF ShutdownInv, Flags, Served, Drained, Deadline, serving
  <2>3. Notified'  BY <1>2, Zenon DEF ShutdownInv, Typed, Notified, Deadline, serving
  <2>4. Waited'
      BY <1>2 DEF ShutdownInv, Typed, Flags, Waited, OpenRequests, Registered, Expiring, Admitted, Drained,
             Served, Deadline, serving
  <2>5. Closed'  BY <1>2 DEF ShutdownInv, Closed, Deadline, serving
  <2> QED  BY <2>1, <2>2, <2>3, <2>4, <2>5 DEF ShutdownInv
<1>3. CASE BeginShutdown
  <2>1. Typed'  BY <1>3 DEF ShutdownInv, Typed, Served, BeginShutdown, serving
  <2>2. Flags'  BY <1>3 DEF ShutdownInv, Flags, Served, Drained, BeginShutdown, serving
  <2>3. Notified'  BY <1>3, Zenon DEF ShutdownInv, Typed, Notified, BeginShutdown, serving
  <2>4. Waited'
      BY <1>3 DEF ShutdownInv, Typed, Flags, Waited, OpenRequests, Registered, Expiring, Admitted, Drained,
             Served, BeginShutdown, serving
  <2>5. Closed'  BY <1>3 DEF ShutdownInv, Closed, BeginShutdown, serving
  <2> QED  BY <2>1, <2>2, <2>3, <2>4, <2>5 DEF ShutdownInv
<1>4. CASE StopAccepting
  <2>1. Typed'  BY <1>4 DEF ShutdownInv, Typed, Served, StopAccepting, serving
  <2>2. Flags'  BY <1>4 DEF ShutdownInv, Flags, Served, Drained, StopAccepting, serving
  <2>3. Notified'  BY <1>4, Zenon DEF ShutdownInv, Typed, Notified, StopAccepting, serving
  <2>4. Waited'
      BY <1>4 DEF ShutdownInv, Typed, Flags, Waited, OpenRequests, Registered, Expiring, Admitted, Drained,
             Served, StopAccepting, serving
  <2>5. Closed'  BY <1>4 DEF ShutdownInv, Closed, StopAccepting, serving
  <2> QED  BY <2>1, <2>2, <2>3, <2>4, <2>5 DEF ShutdownInv
<1>5. CASE DrainHTTP
  <2>1. Typed'  BY <1>5 DEF ShutdownInv, Typed, Served, DrainHTTP, Waits, serving
  <2>2. Flags'  BY <1>5 DEF ShutdownInv, Flags, Served, Drained, DrainHTTP, Waits, serving
  <2>3. Notified'  BY <1>5, Zenon DEF ShutdownInv, Typed, Notified, DrainHTTP, Waits, serving
  <2>4. Waited'
      BY <1>5 DEF ShutdownInv, Typed, Flags, Waited, OpenRequests, Registered, Expiring, Admitted, Drained,
             Served, DrainHTTP, Waits, serving
  <2>5. Closed'  BY <1>5 DEF ShutdownInv, Closed, DrainHTTP, Waits, serving
  <2> QED  BY <2>1, <2>2, <2>3, <2>4, <2>5 DEF ShutdownInv
<1>6. CASE closeWebSockets
  <2>1. Typed'  BY <1>6 DEF ShutdownInv, Typed, Served, closeWebSockets
  <2>2. Flags'  BY <1>6 DEF ShutdownInv, Flags, Served, Drained, closeWebSockets
  <2>3. Notified'  BY <1>6, Zenon DEF ShutdownInv, Typed, Notified, closeWebSockets
  <2>4. Waited'
      BY <1>6 DEF ShutdownInv, Typed, Flags, Waited, OpenRequests, Registered, Expiring, Admitted, Drained,
             Served, closeWebSockets
  <2>5. Closed'  BY <1>6 DEF ShutdownInv, Closed, closeWebSockets
  <2> QED  BY <2>1, <2>2, <2>3, <2>4, <2>5 DEF ShutdownInv
<1>7. CASE waitForWebSockets
  <2>1. Typed'  BY <1>7 DEF ShutdownInv, Typed, Served, waitForWebSockets, Waits, serving
  <2>2. Flags'  BY <1>7 DEF ShutdownInv, Flags, Served, Drained, waitForWebSockets, Waits, serving
  <2>3. Notified'  BY <1>7, Zenon DEF ShutdownInv, Typed, Notified, waitForWebSockets, Waits, serving
  <2>4. Waited'
      BY <1>7 DEF ShutdownInv, Typed, Flags, Waited, OpenRequests, Registered, Expiring, Admitted, Drained,
             Served, waitForWebSockets, Waits, serving
  <2>5. Closed'  BY <1>7 DEF ShutdownInv, Closed, waitForWebSockets, Waits, serving
  <2> QED  BY <2>1, <2>2, <2>3, <2>4, <2>5 DEF ShutdownInv
<1>8. CASE CloseSessions
  <2>1. Typed'  BY <1>8 DEF ShutdownInv, Typed, Served, CloseSessions
  <2>2. Flags'  BY <1>8 DEF ShutdownInv, Flags, Served, Drained, CloseSessions
  <2>3. Notified'  BY <1>8, Zenon DEF ShutdownInv, Typed, Notified, CloseSessions
  <2>4. Waited'
      BY <1>8 DEF ShutdownInv, Typed, Flags, Waited, OpenRequests, Registered, Expiring, Admitted, Drained,
             Served, CloseSessions
  <2>5. Closed'  BY <1>8 DEF ShutdownInv, Closed, CloseSessions
  <2> QED  BY <2>1, <2>2, <2>3, <2>4, <2>5 DEF ShutdownInv
<1>9. CASE WaitSessions
  <2>1. Typed'  BY <1>9 DEF ShutdownInv, Typed, Served, WaitSessions, Waits, serving
  <2>2. Flags'  BY <1>9 DEF ShutdownInv, Flags, Served, Drained, WaitSessions, Waits, serving
  <2>3. Notified'  BY <1>9, Zenon DEF ShutdownInv, Typed, Notified, WaitSessions, Waits, serving
  <2>4. Waited'
      BY <1>9 DEF ShutdownInv, Typed, Flags, Waited, OpenRequests, Registered, Expiring, Admitted, Drained,
             Served, WaitSessions, Waits, serving
  <2>5. Closed'  BY <1>9 DEF ShutdownInv, Closed, WaitSessions, Waits, serving
  <2> QED  BY <2>1, <2>2, <2>3, <2>4, <2>5 DEF ShutdownInv
<1>10. CASE CloseAll
  <2>1. Typed'  BY <1>10 DEF ShutdownInv, Typed, Served, CloseAll
  <2>2. Flags'  BY <1>10 DEF ShutdownInv, Flags, Served, Drained, CloseAll
  <2>3. Notified'  BY <1>10, Zenon DEF ShutdownInv, Typed, Notified, CloseAll
  <2>4. Waited'
      BY <1>10 DEF ShutdownInv, Typed, Flags, Waited, OpenRequests, Registered, Expiring, Admitted, Drained,
             Served, CloseAll
  <2>5. Closed'  BY <1>10 DEF ShutdownInv, Closed, CloseAll
  <2> QED  BY <2>1, <2>2, <2>3, <2>4, <2>5 DEF ShutdownInv
<1>11. CASE Wait
  <2>1. Typed'  BY <1>11 DEF ShutdownInv, Typed, Served, Wait, Waits, serving
  <2>2. Flags'  BY <1>11 DEF ShutdownInv, Flags, Served, Drained, Wait, Waits, serving
  <2>3. Notified'  BY <1>11, Zenon DEF ShutdownInv, Typed, Notified, Wait, Waits, serving
  <2>4. Waited'
      BY <1>11 DEF ShutdownInv, Typed, Flags, Waited, OpenRequests, Registered, Expiring, Admitted, Drained,
             Served, Wait, Waits, serving
  <2>5. Closed'  BY <1>11 DEF ShutdownInv, Closed, Wait, Waits, serving
  <2> QED  BY <2>1, <2>2, <2>3, <2>4, <2>5 DEF ShutdownInv
<1>12. CASE CloseStore
  <2>1. Typed'  BY <1>12 DEF ShutdownInv, Typed, Served, CloseStore, serving
  <2>2. Flags'  BY <1>12 DEF ShutdownInv, Flags, Served, Drained, CloseStore, serving
  <2>3. Notified'  BY <1>12, Zenon DEF ShutdownInv, Typed, Notified, CloseStore, serving
  <2>4. Waited'
      BY <1>12 DEF ShutdownInv, Typed, Flags, Waited, OpenRequests, Registered, Expiring, Admitted, Drained,
             Served, CloseStore, serving
  <2>5. Closed'  BY <1>12 DEF ShutdownInv, Closed, CloseStore, serving
  <2> QED  BY <2>1, <2>2, <2>3, <2>4, <2>5 DEF ShutdownInv
<1>13. CASE Exit
  <2>1. Typed'  BY <1>13 DEF ShutdownInv, Typed, Served, Exit, serving
  <2>2. Flags'  BY <1>13 DEF ShutdownInv, Flags, Served, Drained, Exit, serving
  <2>3. Notified'  BY <1>13, Zenon DEF ShutdownInv, Typed, Notified, Exit, serving
  <2>4. Waited'
      BY <1>13 DEF ShutdownInv, Typed, Flags, Waited, OpenRequests, Registered, Expiring, Admitted, Drained,
             Served, Exit, serving
  <2>5. Closed'  BY <1>13 DEF ShutdownInv, Closed, Exit, serving
  <2> QED  BY <2>1, <2>2, <2>3, <2>4, <2>5 DEF ShutdownInv
<1> QED
    BY <1>1, <1>2, <1>3, <1>4, <1>5, <1>6, <1>7, <1>8, <1>9, <1>10, <1>11, <1>12, <1>13 DEF Stepping

(* The invariant is inductive: every step of the process, and doing nothing, keeps it. *)
LEMMA ShutdownInvNext == ShutdownInv /\ [ShutdownNext]_shutdownVars => ShutdownInv'
<1> SUFFICES ASSUME ShutdownInv, [ShutdownNext]_shutdownVars PROVE ShutdownInv'
  OBVIOUS
<1>1. CASE Start \/ Stepping \/ Deadline  BY <1>1, MainKeepsInv
<1>2. CASE \E l \in Loops : LoopReturns(l)  BY <1>2, LoopsKeepInv
<1>3. CASE \E j \in Jobs : Request(j) \/ startWorker(j) \/ terminalHook(j) \/ dispatch(j)
    BY <1>3, JobsKeepInv
<1>4. ASSUME NEW s \in Sockets,
             \/ handleWebSocket(s) \/ Upgrade(s) \/ registerWebSocket(s) \/ unregisterWebSocket(s)
             \/ \E t \in Terms : OpenTerminal(s, t)
      PROVE  ShutdownInv'
  <2>1. CASE \E t \in Terms : OpenTerminal(s, t)  BY <2>1, TerminalsKeepInv, Zenon
  <2> QED  BY <1>4, <2>1, SocketsKeepInv
<1>5. CASE \E t \in Terms : endSession(t)  BY <1>5, EndsKeepInv
<1>6. CASE \E t \in Timers : runExpiration(t)  BY <1>6, TimersKeepInv
<1>7. CASE UNCHANGED shutdownVars

     BY <1>7 DEF shutdownVars, ShutdownInv, Typed, Flags, Notified, Waited, Closed, OpenRequests, Registered, Expiring,
            Admitted
<1> QED  BY <1>1, <1>2, <1>3, <1>4, <1>5, <1>6, <1>7 DEF ShutdownNext

(* Whatever the numbers of jobs, connections and timers: when the store is closed, nothing that
   was waited for uses it, also where a wait has run into the deadline (application.Shutdown). *)
THEOREM StoreIsReleasedLast == ShutdownSpec => []StoreOutlivesWork
<1>1. ShutdownInv => StoreOutlivesWork
  BY DEF ShutdownInv, Closed, Waited, Served, Drained, StoreOutlivesWork
<1> QED  BY <1>1, ShutdownInvInit, ShutdownInvNext, PTL DEF ShutdownSpec

(* Whatever their number: after a shutdown without errors every job that was created has its
   terminal row and its notification was sent (startWorker, configureJobNotificationDispatch). *)
THEOREM CleanExitLosesNothing == ShutdownSpec => []CleanExitIsComplete
<1>1. ShutdownInv => CleanExitIsComplete
  <2> SUFFICES ASSUME ShutdownInv, main = "exited", errors = {}
               PROVE  store = "closed" /\ \A j \in Jobs : work[j] # "none" => work[j] = "back" /\ notice[j] = "sent"
    BY DEF CleanExitIsComplete
  <2>1. store = "closed"  BY DEF ShutdownInv, Closed
  <2>2. OpenRequests = {} /\ Admitted = {}  BY DEF ShutdownInv, Waited, Drained, Served
  <2>3. ASSUME NEW j \in Jobs, work[j] # "none" PROVE work[j] = "back" /\ notice[j] = "sent"
    <3>1. work[j] \notin {"request", "inline"}  BY <2>2, <2>3 DEF OpenRequests
    <3>2. work[j] # "worker" /\ notice[j] # "worker"  BY <2>2, <2>3, Zenon DEF Admitted
    <3> QED  BY <2>3, <3>1, <3>2 DEF ShutdownInv, Typed, Notified
  <2> QED  BY <2>1, <2>3
<1> QED  BY <1>1, ShutdownInvInit, ShutdownInvNext, PTL DEF ShutdownSpec

(* No group grows once it is closed (Manager.Go, registerWebSocket, runExpiration): the use of the
   wait groups is the one their documentation allows. *)
THEOREM ClosedGroupsShrink == ShutdownSpec => [][NothingJoinsAWait]_shutdownVars
<1>1. ShutdownInv /\ [ShutdownNext]_shutdownVars => [NothingJoinsAWait]_shutdownVars
  <2> SUFFICES ASSUME ShutdownInv, ShutdownNext PROVE NothingJoinsAWait
    OBVIOUS
  <2> USE DEF NothingJoinsAWait
  <2>1. CASE Start  BY <2>1, Zenon DEF ShutdownInv, Flags, Served, Start, Registered, Expiring
  <2>2. CASE Stepping \/ Deadline

       BY <2>2, SMTT(30) DEF ShutdownInv, Typed, Stepping, Deadline, BeginShutdown, StopAccepting, DrainHTTP,
              closeWebSockets,
            waitForWebSockets, CloseSessions, WaitSessions, CloseAll, Wait, CloseStore, Exit, Waits, serving,
            Admitted, Registered, Expiring
  <2>3. CASE \E l \in Loops : LoopReturns(l)  BY <2>3, Zenon DEF LoopReturns, Admitted, Registered, Expiring
  <2>4. ASSUME NEW j \in Jobs, Request(j) \/ startWorker(j) \/ terminalHook(j) \/ dispatch(j)
        PROVE  NothingJoinsAWait

       BY <2>4 DEF ShutdownInv, Typed, Request, startWorker, terminalHook, dispatch, Go, Job, QuietJob,
              Admitted, Registered, Expiring
  <2>5. ASSUME NEW s \in Sockets,
               \/ handleWebSocket(s) \/ Upgrade(s) \/ registerWebSocket(s) \/ unregisterWebSocket(s)
               \/ \E t \in Terms : OpenTerminal(s, t)
        PROVE  NothingJoinsAWait

       BY <2>5, SMTT(30) DEF ShutdownInv, Typed, handleWebSocket, Upgrade, registerWebSocket, unregisterWebSocket,
              OpenTerminal, Sock,
            QuietSock, Admitted, Registered, Expiring
  <2>6. CASE \E t \in Terms : endSession(t)
      BY <2>6, Zenon DEF endSession, QuietSock, Admitted, Registered, Expiring
  <2>7. CASE \E t \in Timers : runExpiration(t)
    BY <2>7 DEF ShutdownInv, Typed, runExpiration, QuietSock, Admitted, Registered, Expiring
  <2> QED  BY <2>1, <2>2, <2>3, <2>4, <2>5, <2>6, <2>7 DEF ShutdownNext
<1> QED  BY <1>1, ShutdownInvInit, ShutdownInvNext, PTL DEF ShutdownSpec

(* All together: whatever runs when the process is told to stop, the store is released last, a
   shutdown without errors has left nothing undone, and no group grows that is being waited for. *)
THEOREM ShutdownOrderly == ShutdownSpec => ShutdownIsOrderly
BY StoreIsReleasedLast, CleanExitLosesNothing, ClosedGroupsShrink, PTL DEF ShutdownIsOrderly

-----------------------------------------------------------------------------
(* The settings of the Docker daemon. *)

Before == {"apply", "backup"}
Writing == {"write", "restart", "overview", "rollback", "restart again"}
Fields == {"pc", "request", "input", "base", "prev", "rollback", "active", "cancelled", "state"}
IsJob(j) == j = [x \in Fields |-> j[x]]
TypeOK ==
  /\ IsJob(job)
  /\ job.pc \in {"idle"} \cup Before \cup Writing /\ job.cancelled \in BOOLEAN
  /\ docker = [up |-> docker.up, with |-> docker.with] /\ docker.up \in BOOLEAN
  /\ touched \in BOOLEAN /\ jobs \in 0..MaxJobs
  /\ job.pc # "idle" => jobs > 0

(* The backups of one time are numbered from 0, and each job has made at most one. *)
Numbered ==
  \A t \in Stamps : \E k \in 0..(IF job.pc \in Before THEN jobs - 1 ELSE jobs) :
    \A n \in Nat : <<t, n>> \in DOMAIN backups <=> n < k

(* What was overwritten is in a backup; so is what the running job has found, once it has saved it. *)
Kept ==
  /\ saved \subseteq Range(backups)
  /\ job.pc \in Writing /\ job.prev.kind # "absent" => job.prev \in Range(backups)

(* What the file is at each step of a job that nobody has disturbed. *)
Undisturbed ==
  ~touched =>
    /\ job.pc \in Writing => job.prev = job.base
    /\ job.pc \in {"backup", "write"} => file = job.base
    /\ job.pc \in Writing \cup {"backup"} => job.input = Conf(applyManaged(job.base.keys, job.request))
    /\ job.pc \in {"restart", "overview", "rollback"} => file = job.input
    /\ job.pc = "restart again" => file = job.base
    /\ job.pc = "overview" => docker.with = file

(* A job says that it took its change back only after it has. *)
Claimed ==
  job.pc # "idle" => ~job.active /\ job.rollback = IF job.pc = "restart again" THEN "succeeded" ELSE "no"
Inv == TypeOK /\ Numbered /\ Kept /\ Undisturbed /\ Claimed
-----------------------------------------------------------------------------
(* A backup under a new name keeps the others. *)
LEMMA BackupAdded ==
  ASSUME NEW f, NEW name, NEW v, name \notin DOMAIN f
  PROVE  /\ DOMAIN Put(f, name, v) = DOMAIN f \cup {name}
         /\ Range(f) \subseteq Range(Put(f, name, v))
         /\ v \in Range(Put(f, name, v))
<1> DEFINE g == Put(f, name, v)
<1>1. DOMAIN g = DOMAIN f \cup {name} /\ g[name] = v /\ \A x \in DOMAIN f : g[x] = f[x]
  BY DEF Put
<1> HIDE DEF g
<1>2. Range(f) \subseteq Range(g) /\ v \in Range(g)  BY <1>1 DEF Range
<1> QED  BY <1>1, <1>2 DEF g

(* writeUniqueBackup finds the first number that is free, whatever the time of the backup. *)
LEMMA NameIsFree ==
  ASSUME DaemonConfigAssumption, TypeOK, Numbered, job.pc = "backup", NEW t \in Stamps
  PROVE  \E k \in 0..(jobs - 1) : /\ writeUniqueBackup(t) = <<t, k>>
                                  /\ \A n \in Nat : <<t, n>> \in DOMAIN backups <=> n < k
<1>1. PICK k \in 0..(jobs - 1) : \A n \in Nat : <<t, n>> \in DOMAIN backups <=> n < k
  BY DEF Numbered, Before
<1> DEFINE Fits(n) == <<t, n>> \notin DOMAIN backups /\ \A m \in 0..(n - 1) : <<t, m>> \in DOMAIN backups
<1>2. k \in 0..MaxJobs /\ MaxJobs \in Nat  BY DEF TypeOK, DaemonConfigAssumption
<1>3. Fits(k)  BY <1>1
<1>4. \A n \in 0..MaxJobs : Fits(n) => n = k
  <2> SUFFICES ASSUME NEW n \in 0..MaxJobs, Fits(n), n # k PROVE FALSE  OBVIOUS
  <2>1. ~(n < k)  BY <1>1
  <2>2. k \in 0..(n - 1)  BY <1>2, <2>1
  <2>3. <<t, k>> \in DOMAIN backups  BY <2>2
  <2> QED  BY <1>1, <1>2, <2>3
<1> HIDE DEF Fits
<1>5. (CHOOSE n \in 0..MaxJobs : Fits(n)) = k  BY <1>2, <1>3, <1>4
<1>6. writeUniqueBackup(t) = <<t, k>>  BY <1>5, Zenon DEF writeUniqueBackup, Fits
<1> QED  BY <1>1, <1>6

(* When the program starts no job has run and nothing is saved. *)
LEMMA InvInit == ASSUME DaemonConfigAssumption, Init PROVE Inv
<1>1. TypeOK
  <2>1. IsJob(NoJob) /\ NoJob.pc = "idle" /\ NoJob.cancelled = FALSE  BY ZenonT(30) DEF NoJob, IsJob, Fields
  <2>2. docker = [up |-> docker.up, with |-> docker.with] /\ docker.up \in BOOLEAN  BY DEF Init
  <2>3. jobs \in 0..MaxJobs  BY DEF Init, DaemonConfigAssumption
  <2> QED  BY <2>1, <2>2, <2>3, Zenon DEF Init, TypeOK
<1>2. Numbered
  <2>1. DOMAIN backups = {} /\ jobs = 0 /\ job.pc \notin Before  BY DEF Init, NoJob, Before
  <2> QED  BY <2>1 DEF Numbered
<1>3. job.pc = "idle"  BY Zenon DEF Init, NoJob
<1>4. Kept  BY <1>3, Zenon DEF Init, Kept, Writing
<1> QED  BY <1>1, <1>2, <1>3, <1>4 DEF Inv, Undisturbed, Claimed, Writing

(* A job that ends leaves nothing to show but what it has saved. *)
LEMMA EndKeepsInv ==
  ASSUME DaemonConfigAssumption, Inv, job'.pc = "idle", TypeOK', UNCHANGED <<backups, saved, jobs>>
  PROVE  Inv'
<1>1. Numbered'
  <2>1. jobs \in Nat  BY DEF Inv, TypeOK, DaemonConfigAssumption
  <2> SUFFICES ASSUME NEW t \in Stamps
               PROVE  \E k \in 0..jobs : \A n \in Nat : <<t, n>> \in DOMAIN backups <=> n < k
    BY DEF Numbered, Before
  <2>2. PICK k \in 0..(IF job.pc \in Before THEN jobs - 1 ELSE jobs) : \A n \in Nat : <<t, n>> \in DOMAIN backups <=> n < k
    BY DEF Inv, Numbered
  <2> QED  BY <2>1, <2>2
<1> QED  BY <1>1, Zenon DEF Inv, Kept, Undisturbed, Claimed, Writing

(* The shapes of the job that an end leaves. *)
LEMMA EndIsTyped ==
  ASSUME DaemonConfigAssumption, TypeOK, NEW state, NEW j, UNCHANGED jobs, touched' \in BOOLEAN,
         docker' = [up |-> docker'.up, with |-> docker'.with], docker'.up \in BOOLEAN,
         \/ j = End(state)
         \/ \E s : j = [End(state) EXCEPT !.state = s, !.rollback = "no"]
         \/ j = [End(state) EXCEPT !.rollback = "failed"]
         \/ j = [End(state) EXCEPT !.active = TRUE]
         \/ j = [job EXCEPT !.pc = "idle", !.state = state],
         job' = j
  PROVE  TypeOK' /\ job'.pc = "idle"
<1>1. IsJob(End(state)) /\ End(state).pc = "idle" /\ End(state).cancelled = job.cancelled
  BY ZenonT(30) DEF End, TypeOK, IsJob, Fields
<1>2. IsJob(job') /\ job'.pc = "idle" /\ job'.cancelled = job.cancelled
  <2>1. CASE j = End(state)  BY <1>1, <2>1, SMTT(30)
  <2>2. CASE \E s : j = [End(state) EXCEPT !.state = s, !.rollback = "no"]  BY <1>1, <2>2, Zenon DEF IsJob, Fields
  <2>3. CASE j = [End(state) EXCEPT !.rollback = "failed"]  BY <1>1, <2>3 DEF IsJob, Fields
  <2>4. CASE j = [End(state) EXCEPT !.active = TRUE]  BY <1>1, <2>4, Zenon DEF IsJob, Fields
  <2>5. CASE j = [job EXCEPT !.pc = "idle", !.state = state]  BY <2>5, Zenon DEF TypeOK, IsJob, Fields
  <2> QED  BY <2>1, <2>2, <2>3, <2>4, <2>5, Zenon
<1> QED  BY <1>2, Zenon DEF TypeOK
-----------------------------------------------------------------------------
(* A job that is created has yet to look at the file. *)
LEMMA HandleKeepsInv ==
  ASSUME DaemonConfigAssumption, Inv, NEW r \in Requests, handleApply(r)
  PROVE  Inv'
<1>1. /\ job.pc = "idle" /\ jobs < MaxJobs /\ jobs' = jobs + 1 /\ UNCHANGED <<file, backups, docker, touched, saved>>
      /\ job' = [NoJob EXCEPT !.pc = "apply", !.request = r, !.input = Preview(r), !.state = "running"]
  BY DEF handleApply
<1>2. IsJob(job') /\ job'.pc = "apply" /\ job'.cancelled = FALSE /\ job'.active = FALSE /\ job'.rollback = "no"
  <2>1. /\ DOMAIN NoJob = Fields /\ NoJob.cancelled = FALSE /\ NoJob.active = FALSE /\ NoJob.rollback = "no"
        /\ NoJob = [x \in DOMAIN NoJob |-> NoJob[x]]
    BY Zenon DEF NoJob, Fields
  <2>2. IsJob(NoJob)  BY <2>1 DEF IsJob
  <2> HIDE DEF NoJob
  <2>3. /\ IsJob(job') /\ job'.pc = "apply" /\ job'.cancelled = NoJob.cancelled /\ job'.active = NoJob.active
        /\ job'.rollback = NoJob.rollback
    BY <1>1, <2>2, Zenon DEF IsJob, Fields
  <2>4. job'.cancelled = FALSE /\ job'.active = FALSE  BY <2>1, <2>3, Zenon
  <2> QED  BY <2>1, <2>3, <2>4, Zenon
<1>3. TypeOK'
  <2>1. jobs' \in 0..MaxJobs /\ jobs' > 0  BY <1>1 DEF Inv, TypeOK, DaemonConfigAssumption
  <2>2. job'.cancelled \in BOOLEAN  BY <1>2, Zenon
  <2>3. docker' = [up |-> docker'.up, with |-> docker'.with] /\ docker'.up \in BOOLEAN /\ touched' \in BOOLEAN
    BY <1>1 DEF Inv, TypeOK
  <2> QED  BY <1>2, <2>1, <2>2, <2>3 DEF TypeOK, Before
<1>4. Numbered'
  <2> SUFFICES ASSUME NEW t \in Stamps
               PROVE  \E k \in 0..(jobs' - 1) : \A n \in Nat : <<t, n>> \in DOMAIN backups <=> n < k
    BY <1>1, <1>2 DEF Numbered, Before
  <2>1. jobs' - 1 = jobs  BY <1>1 DEF Inv, TypeOK
  <2>2. job.pc \notin Before  BY <1>1 DEF Before
  <2> QED  BY <2>1, <2>2 DEF Inv, Numbered
<1>5. Kept'  BY <1>1, <1>2, Zenon DEF Inv, Kept, Writing
<1>6. Undisturbed'  BY <1>2 DEF Undisturbed, Writing
<1>7. Claimed'  BY <1>2 DEF Claimed
<1> QED  BY <1>3, <1>4, <1>5, <1>6, <1>7 DEF Inv

(* The job's own look at the file is what it is held to. *)
LEMMA ApplyKeepsInv == ASSUME DaemonConfigAssumption, Inv, ApplyManagedConfig PROVE Inv'
<1>1. job.pc = "apply" /\ UNCHANGED <<file, backups, docker, saved, jobs, edits>>  BY DEF ApplyManagedConfig
<1>2. CASE job' = End("failed") /\ touched' = touched
  <2>1. TypeOK' /\ job'.pc = "idle"  BY <1>1, <1>2, EndIsTyped, Zenon DEF Inv, TypeOK
  <2> QED  BY <1>1, <2>1, EndKeepsInv
<1>3. CASE touched' = FALSE /\ job' = [job EXCEPT !.pc = "backup", !.input = Preview(job.request), !.base = file]
  <2>1. /\ IsJob(job') /\ job'.pc = "backup" /\ job'.request = job.request /\ job'.input = Preview(job.request) /\ job'.base = file
        /\ job'.cancelled = job.cancelled /\ job'.active = job.active /\ job'.rollback = job.rollback
    BY <1>3, Zenon DEF Inv, TypeOK, IsJob, Fields
  <2>2. TypeOK'  BY <1>1, <1>3, <2>1, Zenon DEF Inv, TypeOK, Before
  <2>3. Numbered'  BY <1>1, <2>1, Zenon DEF Inv, Numbered, Before
  <2>4. Kept'  BY <1>1, <2>1, Zenon DEF Inv, Kept, Writing
  <2>5. Undisturbed'  BY <1>1, <2>1, Zenon DEF Undisturbed, Writing, Preview
  <2>6. Claimed'  BY <1>1, <2>1 DEF Inv, Claimed
  <2> QED  BY <2>2, <2>3, <2>4, <2>5, <2>6 DEF Inv
<1> QED  BY <1>2, <1>3, Zenon DEF ApplyManagedConfig, Fails

(* The file that is found is saved under a name of its own before anything is written. *)
LEMMA BackupKeepsInv == ASSUME DaemonConfigAssumption, Inv, backupExistingConfig PROVE Inv'
<1>1. job.pc = "backup" /\ UNCHANGED <<file, docker, touched, saved, jobs, edits>>  BY DEF backupExistingConfig
<1>2. CASE job' = End("failed") /\ backups' = backups
  <2>1. TypeOK' /\ job'.pc = "idle"  BY <1>1, <1>2, EndIsTyped, Zenon DEF Inv, TypeOK
  <2> QED  BY <1>1, <1>2, <2>1, EndKeepsInv, SMTT(30)
<1>3. CASE /\ job' = [job EXCEPT !.pc = "write", !.prev = file]
           /\ IF file.kind = "absent" THEN UNCHANGED backups
              ELSE \E t \in Stamps : backups' = Put(backups, writeUniqueBackup(t), file)
  <2>1. /\ IsJob(job') /\ job'.pc = "write" /\ job'.prev = file /\ job'.request = job.request /\ job'.input = job.input
        /\ job'.base = job.base /\ job'.cancelled = job.cancelled /\ job'.active = job.active /\ job'.rollback = job.rollback
    BY <1>3, Zenon DEF Inv, TypeOK, IsJob, Fields
  <2>2. TypeOK'  BY <1>1, <2>1, Zenon DEF Inv, TypeOK, Writing
  <2>3. Undisturbed'  BY <1>1, <2>1, Zenon DEF Inv, Undisturbed, Writing
  <2>4. Claimed'  BY <1>1, <2>1 DEF Inv, Claimed
  <2>5. CASE file.kind = "absent"
    <3>1. backups' = backups  BY <1>3, <2>5, Zenon
    <3>2. Kept'  BY <1>1, <2>1, <2>5, <3>1, Zenon DEF Inv, Kept
    <3>3. Numbered'
      <4> SUFFICES ASSUME NEW t \in Stamps
                   PROVE  \E k \in 0..jobs : \A n \in Nat : <<t, n>> \in DOMAIN backups <=> n < k
        BY <1>1, <2>1, <3>1, Zenon DEF Numbered, Before
      <4>1. PICK k \in 0..(jobs - 1) : \A n \in Nat : <<t, n>> \in DOMAIN backups <=> n < k
        BY <1>1, Zenon DEF Inv, Numbered, Before
      <4>2. k \in 0..jobs  BY DEF Inv, TypeOK, DaemonConfigAssumption
      <4> QED  BY <4>1, <4>2, Zenon
    <3> QED  BY <2>2, <2>3, <2>4, <3>2, <3>3 DEF Inv
  <2>6. CASE file.kind # "absent"
    <3>1. PICK t \in Stamps : backups' = Put(backups, writeUniqueBackup(t), file)  BY <1>3, <2>6, Zenon
    <3>2. PICK k \in 0..(jobs - 1) : /\ writeUniqueBackup(t) = <<t, k>>
                                     /\ \A n \in Nat : <<t, n>> \in DOMAIN backups <=> n < k
      BY <1>1, NameIsFree, Zenon DEF Inv
    <3>3. jobs \in Nat /\ k \in Nat /\ k + 1 \in 0..jobs  BY DEF Inv, TypeOK, DaemonConfigAssumption
    <3>4. <<t, k>> \notin DOMAIN backups  BY <3>2, <3>3
    <3>5. /\ DOMAIN backups' = DOMAIN backups \cup {<<t, k>>} /\ Range(backups) \subseteq Range(backups')
          /\ file \in Range(backups')
      BY <3>1, <3>2, <3>4, BackupAdded, Zenon
    <3>6. Kept'  BY <1>1, <2>1, <3>5 DEF Inv, Kept
    <3>7. Numbered'
      <4> SUFFICES ASSUME NEW s \in Stamps
                   PROVE  \E l \in 0..jobs : \A n \in Nat : <<s, n>> \in DOMAIN backups' <=> n < l
        BY <1>1, <2>1 DEF Numbered, Before
      <4>1. CASE s = t
        <5>1. \A n \in Nat : <<s, n>> \in DOMAIN backups' <=> n < k + 1  BY <3>2, <3>3, <3>5, <4>1
        <5> QED  BY <3>3, <5>1, SMTT(30)
      <4>2. CASE s # t
        <5>1. PICK l \in 0..(jobs - 1) : \A n \in Nat : <<s, n>> \in DOMAIN backups <=> n < l
          BY <1>1 DEF Inv, Numbered, Before
        <5>2. \A n \in Nat : <<s, n>> \in DOMAIN backups' <=> n < l  BY <3>5, <4>2, <5>1
        <5>3. l \in 0..jobs  BY <3>3
        <5> QED  BY <5>2, <5>3
      <4> QED  BY <4>1, <4>2, Zenon
    <3> QED  BY <2>2, <2>3, <2>4, <3>6, <3>7 DEF Inv
  <2> QED  BY <2>5, <2>6
<1> QED  BY <1>2, <1>3 DEF backupExistingConfig, Fails

(* What the job overwrites is what it has saved, unless someone has edited the file meanwhile. *)
LEMMA WriteKeepsInv == ASSUME DaemonConfigAssumption, Inv, atomicWrite PROVE Inv'
<1>1. job.pc = "write" /\ UNCHANGED <<backups, docker, touched, jobs, edits>>  BY DEF atomicWrite
<1>2. CASE job' = End("failed") /\ UNCHANGED <<file, saved>>
  <2>1. TypeOK' /\ job'.pc = "idle"  BY <1>1, EndIsTyped, <1>2, Zenon DEF Inv, TypeOK
  <2> QED  BY <1>1, <1>2, <2>1, EndKeepsInv
<1>3. CASE /\ file' = job.input /\ job' = [job EXCEPT !.pc = "restart"]
           /\ saved' = IF touched \/ file.kind = "absent" THEN saved ELSE saved \cup {file}
  <2>1. /\ IsJob(job') /\ job'.pc = "restart" /\ job'.prev = job.prev /\ job'.request = job.request /\ job'.input = job.input
        /\ job'.base = job.base /\ job'.cancelled = job.cancelled /\ job'.active = job.active /\ job'.rollback = job.rollback
    BY <1>3, Zenon DEF Inv, TypeOK, IsJob, Fields
  <2>2. TypeOK'  BY <1>1, <2>1, Zenon DEF Inv, TypeOK, Writing
  <2>3. Numbered'  BY <1>1, <2>1, Zenon DEF Inv, Numbered, Before
  <2>4. ~touched /\ file.kind # "absent" => file \in Range(backups)
    <3>1. ~touched => file = job.prev  BY <1>1 DEF Inv, Undisturbed, Writing
    <3> QED  BY <1>1, <3>1, Zenon DEF Inv, Kept, Writing
  <2>5. saved' \subseteq Range(backups)  BY <1>3, <2>4, Zenon DEF Inv, Kept
  <2>6. Kept'  BY <1>1, <2>1, <2>5 DEF Inv, Kept, Writing
  <2>7. Undisturbed'  BY <1>1, <1>3, <2>1, Zenon DEF Inv, Undisturbed, Writing
  <2>8. Claimed'  BY <1>1, <2>1, Zenon DEF Inv, Claimed
  <2> QED  BY <2>2, <2>3, <2>6, <2>7, <2>8 DEF Inv
<1> QED  BY <1>2, <1>3 DEF atomicWrite, Fails

(* A restart of Docker leaves a record of whether it runs and with what. *)
LEMMA RestartIsTyped ==
  ASSUME TypeOK, NEW good, NEW bad, restartAndVerify(good, bad)
  PROVE  /\ docker' = [up |-> docker'.up, with |-> docker'.with] /\ docker'.up \in BOOLEAN
         /\ job' = bad \/ (job' = good /\ docker' = [up |-> TRUE, with |-> file])
<1>1. CASE docker' = [up |-> TRUE, with |-> file] /\ job' = good  BY <1>1, Zenon
<1>2. CASE \E up \in BOOLEAN : docker' = [up |-> up, with |-> file] /\ job' = bad
  <2>1. PICK up \in BOOLEAN : docker' = [up |-> up, with |-> file] /\ job' = bad  BY <1>2, Zenon
  <2> QED  BY <2>1
<1>3. CASE UNCHANGED docker /\ job' = bad  BY <1>3 DEF TypeOK
<1> QED  BY <1>1, <1>2, <1>3, Zenon DEF restartAndVerify

(* Docker comes up with the new file, or the job turns back. *)
LEMMA RestartKeepsInv == ASSUME DaemonConfigAssumption, Inv, Restart PROVE Inv'
<1> DEFINE good == IF job.cancelled THEN End("cancelled") ELSE [job EXCEPT !.pc = "overview"]
           bad == [job EXCEPT !.pc = "rollback"]
<1>1. /\ job.pc = "restart" /\ UNCHANGED <<file, backups, touched, saved, jobs, edits>>
      /\ restartAndVerify(good, bad)
  BY DEF Restart
<1>2. /\ docker' = [up |-> docker'.up, with |-> docker'.with] /\ docker'.up \in BOOLEAN
      /\ job' = bad \/ (job' = good /\ docker' = [up |-> TRUE, with |-> file])
  BY <1>1, RestartIsTyped DEF Inv
<1>3. CASE job' = End("cancelled")
  <2>1. TypeOK' /\ job'.pc = "idle"  BY <1>1, <1>2, <1>3, EndIsTyped, Zenon DEF Inv, TypeOK
  <2> QED  BY <1>1, <2>1, EndKeepsInv, SMTT(30)
<1>4. ASSUME NEW pc \in {"overview", "rollback"}, job' = [job EXCEPT !.pc = pc], pc = "overview" => docker'.with = file
      PROVE  Inv'
  <2>1. /\ IsJob(job') /\ job'.pc = pc /\ job'.prev = job.prev /\ job'.request = job.request /\ job'.input = job.input
        /\ job'.base = job.base /\ job'.cancelled = job.cancelled /\ job'.active = job.active /\ job'.rollback = job.rollback
    BY <1>4 DEF Inv, TypeOK, IsJob, Fields
  <2>2. TypeOK'  BY <1>1, <1>2, <2>1, Zenon DEF Inv, TypeOK, Writing
  <2>3. Numbered'  BY <1>1, <2>1 DEF Inv, Numbered, Before
  <2>4. Kept'  BY <1>1, <2>1, Zenon DEF Inv, Kept, Writing
  <2>5. Undisturbed'  BY <1>1, <1>4, <2>1, Zenon DEF Inv, Undisturbed, Writing
  <2>6. Claimed'  BY <1>1, <2>1, Zenon DEF Inv, Claimed
  <2> QED  BY <2>2, <2>3, <2>4, <2>5, <2>6 DEF Inv
<1>5. \/ job' = End("cancelled") \/ job' = [job EXCEPT !.pc = "rollback"]
      \/ job' = [job EXCEPT !.pc = "overview"] /\ docker'.with = file
  <2>1. CASE job' = bad  BY <2>1
  <2>2. CASE job' = good /\ docker' = [up |-> TRUE, with |-> file]
    <3>1. docker'.with = file  BY <2>2
    <3> QED  BY <2>2, <3>1
  <2> QED  BY <1>2, <2>1, <2>2
<1> QED  BY <1>3, <1>4, <1>5

(* The file that was found comes back. *)
LEMMA RollbackKeepsInv == ASSUME DaemonConfigAssumption, Inv, rollbackConfig PROVE Inv'
<1>1. job.pc = "rollback" /\ UNCHANGED <<backups, docker, touched, saved, jobs, edits>>  BY DEF rollbackConfig
<1>2. CASE job' = [End("failed") EXCEPT !.rollback = "failed"] /\ file' = file
  <2>1. TypeOK' /\ job'.pc = "idle"  BY <1>1, <1>2, EndIsTyped, Zenon DEF Inv, TypeOK
  <2> QED  BY <1>1, <2>1, EndKeepsInv, SMTT(30)
<1>3. CASE file' = job.prev /\ job' = [job EXCEPT !.pc = "restart again", !.rollback = "succeeded"]
  <2>1. /\ IsJob(job') /\ job'.pc = "restart again" /\ job'.prev = job.prev /\ job'.request = job.request /\ job'.input = job.input
        /\ job'.base = job.base /\ job'.cancelled = job.cancelled /\ job'.active = job.active /\ job'.rollback = "succeeded"
    BY <1>3, Zenon DEF Inv, TypeOK, IsJob, Fields
  <2>2. TypeOK'  BY <1>1, <2>1, Zenon DEF Inv, TypeOK, Writing
  <2>3. Numbered'  BY <1>1, <2>1, Zenon DEF Inv, Numbered, Before
  <2>4. Kept'  BY <1>1, <2>1, Zenon DEF Inv, Kept, Writing
  <2>5. Undisturbed'  BY <1>1, <1>3, <2>1, Zenon DEF Inv, Undisturbed, Writing
  <2>6. Claimed'  BY <1>1, <2>1, Zenon DEF Inv, Claimed
  <2> QED  BY <2>2, <2>3, <2>4, <2>5, <2>6 DEF Inv
<1> QED  BY <1>2, <1>3 DEF rollbackConfig

(* The job ends after the second restart, after its last look at Docker, or because it was killed. *)
LEMMA EndingKeepsInv ==
  ASSUME DaemonConfigAssumption, Inv, RestartAgain \/ Overview \/ (Cancel /\ job'.pc = "idle")
  PROVE  Inv'
<1>1. CASE RestartAgain
  <2>1. /\ UNCHANGED <<file, backups, touched, saved, jobs, edits>>
        /\ restartAndVerify([End("failed") EXCEPT !.active = TRUE], End("failed"))
    BY <1>1, Zenon DEF RestartAgain
  <2>2. /\ docker' = [up |-> docker'.up, with |-> docker'.with] /\ docker'.up \in BOOLEAN
        /\ job' = End("failed") \/ job' = [End("failed") EXCEPT !.active = TRUE]
    BY <2>1, RestartIsTyped DEF Inv
  <2>3. TypeOK' /\ job'.pc = "idle"  BY <2>1, <2>2, EndIsTyped, Zenon DEF Inv, TypeOK
  <2> QED  BY <2>1, <2>3, EndKeepsInv
<1>2. CASE Overview
  <2>1. PICK state \in {"failed", "succeeded"} : job' = [job EXCEPT !.pc = "idle", !.state = state]
    BY <1>2, Zenon DEF Overview
  <2>2. UNCHANGED <<file, backups, docker, touched, saved, jobs, edits>>  BY <1>2, ZenonT(30) DEF Overview
  <2>3. TypeOK' /\ job'.pc = "idle"  BY <2>1, <2>2, EndIsTyped, Zenon DEF Inv, TypeOK
  <2> QED  BY <2>2, <2>3, EndKeepsInv, Zenon
<1>3. CASE Cancel /\ job'.pc = "idle"
  <2>1. UNCHANGED <<file, backups, docker, touched, saved, jobs, edits>> /\ job.pc # "idle"  BY <1>3 DEF Cancel
  <2>2. CASE job' = [End("cancelled") EXCEPT !.state = "cancelled", !.rollback = "no"]
    <3>1. TypeOK' /\ job'.pc = "idle"  BY <2>1, <2>2, EndIsTyped, ZenonT(30) DEF Inv, TypeOK
    <3> QED  BY <2>1, <3>1, EndKeepsInv, SMTT(30)
  <2>3. CASE job' = [job EXCEPT !.cancelled = TRUE]
    <3>1. job'.pc = job.pc  BY <2>3 DEF Inv, TypeOK, IsJob, Fields
    <3> QED  BY <1>3, <2>1, <3>1
  <2> QED  BY <1>3, <2>2, <2>3 DEF Cancel
<1> QED  BY <1>1, <1>2, <1>3

(* A cancellation that the helper survives is only noted. *)
LEMMA NotedKeepsInv ==
  ASSUME DaemonConfigAssumption, Inv, Cancel, job'.pc # "idle"
  PROVE  Inv'
<1>1. job' = [job EXCEPT !.cancelled = TRUE] /\ UNCHANGED <<file, backups, docker, touched, saved, jobs, edits>>
  <2>1. IsJob(End("cancelled")) /\ End("cancelled").pc = "idle"  BY Zenon DEF End, Inv, TypeOK, IsJob, Fields
  <2>2. [End("cancelled") EXCEPT !.state = "cancelled", !.rollback = "no"].pc = "idle"  BY <2>1 DEF IsJob, Fields
  <2> QED  BY <2>2, Zenon DEF Cancel
<1>2. /\ IsJob(job') /\ job'.pc = job.pc /\ job'.prev = job.prev /\ job'.request = job.request /\ job'.input = job.input
      /\ job'.base = job.base /\ job'.cancelled = TRUE /\ job'.active = job.active /\ job'.rollback = job.rollback
  BY <1>1, Zenon DEF Inv, TypeOK, IsJob, Fields
<1>3. TypeOK'  BY <1>1, <1>2 DEF Inv, TypeOK
<1> QED  BY <1>1, <1>2, <1>3, Zenon DEF Inv, Numbered, Kept, Undisturbed, Claimed

(* An administrator edits the file, or Docker stops or starts, beside the job. *)
LEMMA OthersKeepInv ==
  ASSUME DaemonConfigAssumption, Inv, (\E c \in Contents : Edit(c)) \/ DockerChanges
  PROVE  Inv'
<1>1. CASE \E c \in Contents : Edit(c)
  <2>1. touched' = TRUE /\ UNCHANGED <<backups, docker, job, saved, jobs>>  BY <1>1 DEF Edit
  <2> QED  BY <2>1, Zenon DEF Inv, TypeOK, Numbered, Kept, Undisturbed, Claimed
<1>2. CASE DockerChanges
  <2>1. /\ docker' \in {[docker EXCEPT !.up = FALSE], [up |-> TRUE, with |-> file]}
        /\ UNCHANGED <<file, backups, job, touched, saved, jobs, edits>>
    BY <1>2 DEF DockerChanges
  <2>2. /\ docker' = [up |-> docker'.up, with |-> docker'.with] /\ docker'.up \in BOOLEAN
        /\ docker'.with \in {docker.with, file}
    <3>1. CASE docker' = [docker EXCEPT !.up = FALSE]
      <4>1. docker = [up |-> docker.up, with |-> docker.with]  BY DEF Inv, TypeOK
      <4>2. docker' = [up |-> FALSE, with |-> docker.with]  BY <3>1, <4>1, Zenon
      <4> QED  BY <4>2
    <3>2. CASE docker' = [up |-> TRUE, with |-> file]  BY <3>2
    <3> QED  BY <2>1, <3>1, <3>2
  <2>3. TypeOK'  BY <2>1, <2>2 DEF Inv, TypeOK
  <2>4. Undisturbed'  BY <2>1, <2>2, Zenon DEF Inv, Undisturbed
  <2> QED  BY <2>1, <2>3, <2>4, Zenon DEF Inv, Numbered, Kept, Claimed
<1> QED  BY <1>1, <1>2, Zenon
-----------------------------------------------------------------------------
(* Every step of the request, the job, its helper and the administrator keeps the invariant. *)
LEMMA InvNext == ASSUME DaemonConfigAssumption, Inv, [Next]_vars PROVE Inv'
<1>1. ASSUME NEW r \in Requests, handleApply(r) PROVE Inv'  BY <1>1, HandleKeepsInv
<1>2. CASE ApplyManagedConfig  BY <1>2, ApplyKeepsInv
<1>3. CASE backupExistingConfig  BY <1>3, BackupKeepsInv
<1>4. CASE atomicWrite  BY <1>4, WriteKeepsInv
<1>5. CASE Restart  BY <1>5, RestartKeepsInv
<1>6. CASE rollbackConfig  BY <1>6, RollbackKeepsInv
<1>7. CASE RestartAgain \/ Overview  BY <1>7, EndingKeepsInv
<1>8. CASE Cancel  BY <1>8, EndingKeepsInv, NotedKeepsInv
<1>9. CASE DockerChanges \/ \E c \in Contents : Edit(c)  BY <1>9, OthersKeepInv
<1>10. CASE UNCHANGED vars  BY <1>10, ZenonT(30) DEF vars, Inv, TypeOK, Numbered, Kept, Undisturbed, Claimed
<1> QED  BY <1>1, <1>2, <1>3, <1>4, <1>5, <1>6, <1>7, <1>8, <1>9, <1>10, Zenon DEF Next

(* A job ends at one of the last steps, or because a step of it fails or it is killed. *)
LEMMA InvIsExact == ASSUME DaemonConfigAssumption, Inv, [Next]_vars PROVE SuccessIsExact /\ RollbackIsExact
<1> SUFFICES ASSUME job.pc # "idle", job'.pc = "idle", ~touched
             PROVE  /\ job'.state = "succeeded" => /\ file = Conf(applyManaged(job.base.keys, job.request))
                                                   /\ docker = [up |-> TRUE, with |-> file]
                    /\ job'.rollback = "succeeded" =>
                         file = job.base /\ (job'.active => docker' = [up |-> TRUE, with |-> job.base])
  BY DEF SuccessIsExact, RollbackIsExact, Ends
<1>0. IsJob(job)  BY DEF Inv, TypeOK
<1>1. ASSUME NEW state \in {"failed", "cancelled"}, job' = End(state), job.pc # "restart again"
      PROVE  job'.state # "succeeded" /\ job'.rollback # "succeeded"
  <2>1. job'.state \in {state, "cancelled"} /\ job'.rollback = job.rollback  BY <1>0, <1>1, Zenon DEF End, IsJob, Fields
  <2> QED  BY <1>1, <2>1, Zenon DEF Inv, Claimed
<1>2. ASSUME NEW pc, job' = [job EXCEPT !.pc = pc], pc # "idle" PROVE FALSE
  BY <1>0, <1>2 DEF IsJob, Fields
<1>3. ASSUME NEW r \in Requests, handleApply(r) PROVE FALSE  BY <1>3 DEF handleApply
<1>4. CASE ApplyManagedConfig
  <2>1. CASE job' = [job EXCEPT !.pc = "backup", !.input = Preview(job.request), !.base = file]
    BY <1>0, <2>1 DEF IsJob, Fields
  <2>2. CASE job' = End("failed")  BY <1>1, <1>4, <2>2 DEF ApplyManagedConfig
  <2> QED  BY <1>4, <2>1, <2>2 DEF ApplyManagedConfig, Fails
<1>5. CASE backupExistingConfig
  <2>1. CASE job' = [job EXCEPT !.pc = "write", !.prev = file]  BY <1>0, <2>1 DEF IsJob, Fields
  <2>2. CASE job' = End("failed")  BY <1>1, <1>5, <2>2 DEF backupExistingConfig
  <2> QED  BY <1>5, <2>1, <2>2 DEF backupExistingConfig, Fails
<1>6. CASE atomicWrite
  <2>1. CASE job' = [job EXCEPT !.pc = "restart"]  BY <1>2, <2>1
  <2>2. CASE job' = End("failed")  BY <1>1, <1>6, <2>2 DEF atomicWrite
  <2> QED  BY <1>6, <2>1, <2>2 DEF atomicWrite, Fails
<1>7. CASE Restart
  <2>1. job.pc = "restart" /\ (job' = [job EXCEPT !.pc = "rollback"] \/ job' = [job EXCEPT !.pc = "overview"] \/ job' = End("cancelled"))
    BY <1>7 DEF Restart, restartAndVerify
  <2> QED  BY <1>1, <1>2, <2>1
<1>8. CASE rollbackConfig
  <2>1. CASE job' = [job EXCEPT !.pc = "restart again", !.rollback = "succeeded"]  BY <1>0, <2>1, Zenon DEF IsJob, Fields
  <2>2. CASE job' = [End("failed") EXCEPT !.rollback = "failed"]
    <3>1. IsJob(End("failed")) /\ End("failed").state \in {"failed", "cancelled"}  BY <1>0, Zenon DEF End, IsJob, Fields
    <3>2. job'.state \in {"failed", "cancelled"} /\ job'.rollback = "failed"  BY <2>2, <3>1 DEF IsJob, Fields
    <3> QED  BY <3>2
  <2> QED  BY <1>8, <2>1, <2>2 DEF rollbackConfig
<1>9. CASE RestartAgain
  <2>1. job.pc = "restart again" /\ restartAndVerify([End("failed") EXCEPT !.active = TRUE], End("failed"))
    BY <1>9, Zenon DEF RestartAgain
  <2>2. file = job.base  BY <2>1, Zenon DEF Inv, Undisturbed
  <2>3. IsJob(End("failed")) /\ End("failed").state \in {"failed", "cancelled"} /\ End("failed").active = job.active
    BY <1>0, Zenon DEF End, IsJob, Fields
  <2>4. CASE job' = End("failed")
    <3>1. ~job'.active  BY <2>1, <2>3, <2>4, Zenon DEF Inv, Claimed
    <3> QED  BY <2>2, <2>3, <2>4, <3>1
  <2>5. CASE job' = [End("failed") EXCEPT !.active = TRUE] /\ docker' = [up |-> TRUE, with |-> file]
    <3>1. job'.state = End("failed").state  BY <2>3, <2>5, Zenon DEF IsJob, Fields
    <3> QED  BY <2>2, <2>3, <2>5, <3>1
  <2> QED  BY <2>1, <2>4, <2>5, Zenon DEF restartAndVerify
<1>10. CASE Overview
  <2>1. PICK state \in {"failed"} \cup (IF docker.up THEN {"succeeded"} ELSE {}) :
          job' = [job EXCEPT !.pc = "idle", !.state = state]
    BY <1>10, Zenon DEF Overview
  <2>2. job'.state = state /\ job'.rollback = job.rollback /\ job.pc = "overview"
    BY <1>0, <1>10, <2>1, Zenon DEF Overview, IsJob, Fields
  <2>3. job'.rollback = "no"  BY <2>2, Zenon DEF Inv, Claimed
  <2>4. file = Conf(applyManaged(job.base.keys, job.request)) /\ docker.with = file
    BY <2>2 DEF Inv, Undisturbed, Writing
  <2>5. state = "succeeded" => docker.up  BY <2>1, Zenon
  <2>6. state = "succeeded" => docker = [up |-> TRUE, with |-> file]
    <3>1. docker = [up |-> docker.up, with |-> docker.with] /\ docker.up \in BOOLEAN  BY DEF Inv, TypeOK
    <3> QED  BY <2>4, <2>5, <3>1, Zenon
  <2> QED  BY <2>2, <2>3, <2>4, <2>6, Zenon
<1>11. CASE Cancel
  <2>1. CASE job' = [job EXCEPT !.cancelled = TRUE]  BY <1>0, <2>1, Zenon DEF IsJob, Fields
  <2>2. CASE job' = [End("cancelled") EXCEPT !.state = "cancelled", !.rollback = "no"]
    <3>1. IsJob(End("cancelled"))  BY <1>0, Zenon DEF End, IsJob, Fields
    <3>2. job'.state = "cancelled" /\ job'.rollback = "no"  BY <2>2, <3>1 DEF IsJob, Fields
    <3> QED  BY <3>2
  <2> QED  BY <1>11, <2>1, <2>2 DEF Cancel
<1>12. CASE DockerChanges \/ (\E c \in Contents : Edit(c)) \/ UNCHANGED vars
  BY <1>12 DEF DockerChanges, Edit, vars
<1> QED  BY <1>3, <1>4, <1>5, <1>6, <1>7, <1>8, <1>9, <1>10, <1>11, <1>12, Zenon DEF Next
-----------------------------------------------------------------------------
(* No run of jobs, failures and cancellations loses a file that a job wrote over
   (backupExistingConfig before atomicWrite, writeUniqueBackup never over an older backup). *)
THEOREM OverwrittenSaved == ASSUME DaemonConfigAssumption PROVE Spec => []OverwrittenIsSaved
<1>1. Init => Inv  BY InvInit
<1>2. Inv /\ [Next]_vars => Inv'  BY InvNext, Zenon
<1>3. Inv => OverwrittenIsSaved  BY DEF Inv, Kept, OverwrittenIsSaved
<1> QED  BY <1>1, <1>2, <1>3, PTL DEF Spec

(* The steps of every job are what its result says (runApply, parseHelperApplyOutput): a success
   is the file it has found with the request applied, and Docker runs with it; a rollback is the
   file it has found; and what it wrote over is kept. *)
THEOREM ResultExact == ASSUME DaemonConfigAssumption PROVE Spec => ResultIsExact
<1>1. Init => Inv  BY InvInit
<1>2. Inv /\ [Next]_vars => Inv'  BY InvNext
<1>3. Inv /\ [Next]_vars => SuccessIsExact /\ RollbackIsExact  BY InvIsExact
<1>4. Spec => [][SuccessIsExact /\ RollbackIsExact]_vars  BY <1>1, <1>2, <1>3, PTL DEF Spec
<1> QED  BY <1>4, OverwrittenSaved, PTL DEF ResultIsExact
=============================================================================
