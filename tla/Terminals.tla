------------------------------ MODULE Terminals ------------------------------
(***************************************************************************)
(* Terminal sessions (internal/terminal/service.go) and the WebSocket       *)
(* handlers that open and attach to them (websocket_terminal.go), together  *)
(* with the revocation of the application session that owns them.           *)
(*                                                                         *)
(* A terminal is reserved, started, listed and then watched, in four steps; *)
(* it ends in three: its attachment is told, the PTY is hung up, it leaves  *)
(* the maps.  Output is abstracted to a count of buffered chunks.  A        *)
(* connection has one terminal stream; another frame for it replaces it.    *)
(***************************************************************************)
EXTENDS Naturals, FiniteSets

CONSTANTS
    Terms, Atts, Conns, Owners, None,
    MaxSessionsPerOwner,
    Buffer              \* capacity of an attachment's channel

TerminalsAssumption ==
    /\ {MaxSessionsPerOwner, Buffer} \subseteq Nat \ {0}
    /\ None \notin Terms \cup Atts \cup Conns \cup Owners

VARIABLES
    term,      \* sessions: owner, maps, current attachment, timers, process
    att,       \* attachments: terminal, buffered output, exited queued, closed
    conn,      \* connections: owner, the frame being handled, the stream
    revoked,   \* owners whose application session was terminated
    sweep      \* terminals that CloseOwner or CloseAll has yet to end

vars == <<term, att, conn, revoked, sweep>>

Unused == [owner |-> None, reserved |-> FALSE, listed |-> FALSE, current |-> None, grace |-> FALSE,
           ending |-> "no", process |-> "none", waiter |-> "none"]
NoAtt == [term |-> None, out |-> 0, exited |-> FALSE, closed |-> FALSE, used |-> FALSE]
Gone == [owner |-> None, phase |-> "gone", term |-> None, stream |-> None, told |-> FALSE]

Init ==
    /\ term = [t \in Terms |-> Unused]
    /\ att = [a \in Atts |-> NoAtt]
    /\ conn = [c \in Conns |-> Gone]
    /\ revoked = {} /\ sweep = {}

Owned(o) == {t \in Terms : term[t].owner = o /\ term[t].reserved}
FreshAtt(a, t) == [NoAtt EXCEPT !.term = t, !.used = TRUE]
Idle(c) == [conn EXCEPT ![c] = [@ EXCEPT !.phase = "idle", !.term = None]]

(* The exit event takes the place of the oldest output when there is no     *)
(* room, and the channel is closed behind it.                               *)
sendAndCloseAttachmentLocked(b) ==
    [b EXCEPT !.out = IF b.out = Buffer THEN Buffer - 1 ELSE b.out, !.exited = TRUE, !.closed = TRUE]

-----------------------------------------------------------------------------
(* A frame is admitted while the application session is; what it asks for   *)
(* happens later.                                                           *)

Connect(c, o) ==
    /\ conn[c] = Gone /\ o \notin revoked
    /\ conn' = [conn EXCEPT ![c] = [Gone EXCEPT !.owner = o, !.phase = "idle"]]
    /\ UNCHANGED <<term, att, revoked, sweep>>

ReadFrame(c, t) ==
    /\ conn[c].phase = "idle" /\ conn[c].owner \notin revoked
    /\ \E kind \in {"open", "attach"} :
        /\ IF kind = "open" THEN term[t] = Unused
           ELSE term[t].waiter \in {"waiting", "skipped", "reaped"}
        /\ kind = "open" => \A d \in Conns : ~(conn[d].phase = "open" /\ conn[d].term = t)
        /\ conn' = [conn EXCEPT ![c] = [@ EXCEPT !.phase = kind, !.term = t]]
    /\ UNCHANGED <<term, att, revoked, sweep>>

(* Mutation: the stream detaches whatever is attached by now. *)
DetachAny(c) ==
    LET a == conn[c].stream
        t == att[a].term
        b == term[t].current
    IN  IF a # None /\ term[t].listed /\ b # None
        THEN /\ term' = [term EXCEPT ![t] = [@ EXCEPT !.current = None, !.grace = TRUE]]
             /\ att' = [att EXCEPT ![b].closed = TRUE]
        ELSE UNCHANGED <<term, att>>

(* Closing a stream detaches its own attachment and starts the grace timer. *)
Detach(c) ==
    LET a == conn[c].stream
        t == att[a].term
    IN  IF a # None /\ term[t].listed /\ term[t].current = a
        THEN /\ term' = [term EXCEPT ![t] = [@ EXCEPT !.current = None, !.grace = TRUE]]
             /\ att' = [att EXCEPT ![a].closed = TRUE]
        ELSE UNCHANGED <<term, att>>

(* The stream that the frame replaces is closed before anything is opened. *)
ReplaceStream(c) ==
    /\ conn[c].phase \in {"open", "attach"} /\ conn[c].stream # None
    /\ Detach(c)
    /\ conn' = [conn EXCEPT ![c] = [@ EXCEPT !.stream = None, !.told = FALSE]]
    /\ UNCHANGED <<revoked, sweep>>

(* Open takes a slot of the owner under the service's mutex... *)
Reserve(c) ==
    LET t == conn[c].term
        o == conn[c].owner
    IN  /\ conn[c].phase = "open" /\ conn[c].stream = None
        /\ IF Cardinality(Owned(o)) >= MaxSessionsPerOwner
           THEN conn' = Idle(c) /\ UNCHANGED term
           ELSE /\ term' = [term EXCEPT ![t] = [@ EXCEPT !.owner = o, !.reserved = TRUE]]
                /\ conn' = [conn EXCEPT ![c].phase = "reserved"]
        /\ UNCHANGED <<att, revoked, sweep>>

(* ...starts docker exec on a PTY without it, giving the slot back when     *)
(* that fails...                                                            *)
StartTerminal(c) ==
    LET t == conn[c].term
    IN  /\ conn[c].phase = "reserved"
        /\ \/ /\ term' = [term EXCEPT ![t].process = "running"]
              /\ conn' = [conn EXCEPT ![c].phase = "started"]
           \/ /\ term' = [term EXCEPT ![t] = [@ EXCEPT !.reserved = FALSE, !.waiter = "failed"]]
              /\ conn' = Idle(c)
        /\ UNCHANGED <<att, revoked, sweep>>

(* ...lists it with its first attachment, and records the opening... *)
List(c, a) ==
    LET t == conn[c].term
    IN  /\ conn[c].phase = "started" /\ ~att[a].used
        /\ term' = [term EXCEPT ![t] = [@ EXCEPT !.listed = TRUE, !.current = a]]
        /\ att' = [att EXCEPT ![a] = FreshAtt(a, t)]
        /\ conn' = [conn EXCEPT ![c] = [@ EXCEPT !.phase = "listed", !.stream = a]]
        /\ UNCHANGED <<revoked, sweep>>

(* ...and only then starts the goroutines; the one that reaps the process   *)
(* looks the terminal up first.                                             *)
waitForExit(c) ==
    LET t == conn[c].term
    IN  /\ conn[c].phase = "listed"
        /\ term' = [term EXCEPT ![t].waiter = IF term[t].listed THEN "waiting" ELSE "skipped"]
        /\ conn' = Idle(c)
        /\ UNCHANGED <<att, revoked, sweep>>

(* Attach looks the terminal up under the service's mutex... *)
LookupSession(c) ==
    LET t == conn[c].term
    IN  /\ conn[c].phase = "attach" /\ conn[c].stream = None
        /\ conn' = IF term[t].listed /\ term[t].owner = conn[c].owner
                   THEN [conn EXCEPT ![c].phase = "found"] ELSE Idle(c)
        /\ UNCHANGED <<term, att, revoked, sweep>>

(* ...and replaces the attachment under the terminal's; the size cannot be  *)
(* set on a PTY that was hung up.                                           *)
Attach(c, a) ==
    LET t == conn[c].term
        old == term[t].current
        replaced == [b \in Atts |->
                       IF b = old /\ ~att[b].closed THEN sendAndCloseAttachmentLocked(att[b])
                       ELSE IF b = a THEN FreshAtt(a, t) ELSE att[b]]
    IN  /\ conn[c].phase = "found" /\ ~att[a].used
        /\ IF term[t].ending \in {"no", "told"}
           THEN /\ term' = [term EXCEPT ![t] = [@ EXCEPT !.current = a, !.grace = FALSE]]
                /\ att' = replaced
                /\ conn' = [Idle(c) EXCEPT ![c].stream = a]
           ELSE /\ term' = [term EXCEPT ![t] = [@ EXCEPT !.current = None, !.grace = FALSE]]
                /\ att' = [replaced EXCEPT ![a].closed = TRUE]
                /\ conn' = Idle(c)
        /\ UNCHANGED <<revoked, sweep>>

(* The handler returns: subscriptions are closed, which detaches. *)
Disconnect(c) ==
    /\ conn[c].phase = "idle"
    /\ Detach(c)
    /\ conn' = [conn EXCEPT ![c] = Gone]
    /\ UNCHANGED <<revoked, sweep>>

-----------------------------------------------------------------------------

(* A chunk that finds the channel full is dropped, which changes nothing. *)
forwardOutput(t) ==
    LET a == term[t].current
    IN  /\ term[t].waiter = "waiting" /\ term[t].process = "running" /\ a # None
        /\ ~att[a].closed /\ att[a].out < Buffer
        /\ att' = [att EXCEPT ![a].out = @ + 1]
        /\ UNCHANGED <<term, conn, revoked, sweep>>

forwardTerminalEvents(c) ==
    LET a == conn[c].stream
    IN  /\ a # None /\ conn[c].phase # "listed" /\ ~conn[c].told
        /\ \/ /\ att[a].out > 0
              /\ att' = [att EXCEPT ![a].out = @ - 1] /\ UNCHANGED conn
           \/ /\ att[a].out = 0 /\ att[a].exited
              /\ conn' = [conn EXCEPT ![c].told = TRUE] /\ UNCHANGED att
        /\ UNCHANGED <<term, revoked, sweep>>

-----------------------------------------------------------------------------
(* endSessionWithCode: whoever comes first runs it, once. *)
endSession(t) ==
    LET a == term[t].current
    IN  /\ term[t].listed /\ term[t].ending = "no"
        /\ term' = [term EXCEPT ![t] = [@ EXCEPT !.ending = "told", !.current = None, !.grace = FALSE]]
        /\ att' = IF a = None \/ att[a].closed THEN att
                  ELSE [att EXCEPT ![a] = sendAndCloseAttachmentLocked(@)]

Signal(process) == IF process = "running" THEN "signalled" ELSE process
terminateTerminalProcess(t) ==
    /\ term[t].ending = "told"
    /\ term' = [term EXCEPT ![t] = [@ EXCEPT !.ending = "hungup", !.process = Signal(term[t].process)]]
    /\ UNCHANGED <<att, conn, revoked, sweep>>

releaseOwnerSession(t) ==
    /\ term[t].ending = "hungup"
    /\ term' = [term EXCEPT ![t] = [@ EXCEPT !.ending = "done", !.listed = FALSE, !.reserved = FALSE]]
    /\ UNCHANGED <<att, conn, revoked, sweep>>

(* The process exits by itself, or after SIGTERM and SIGKILL. *)
ProcessExits(t) ==
    /\ term[t].process \in {"running", "signalled"}
    /\ term' = [term EXCEPT ![t].process = "dead"]
    /\ UNCHANGED <<att, conn, revoked, sweep>>

(* Wait returns, and ends the session unless something else did. *)
Reap(t) ==
    /\ term[t].process = "dead" /\ term[t].waiter = "waiting"
    /\ \/ /\ term[t].ending # "no"
          /\ term' = [term EXCEPT ![t].waiter = "reaped"] /\ UNCHANGED att
       \/ /\ term[t].ending = "no"
          /\ endSession(t)
    /\ UNCHANGED <<conn, revoked, sweep>>

(* The grace period or the idle time is over, or the client closes it. *)
GraceOver(t) == term[t].grace /\ endSession(t) /\ UNCHANGED <<conn, revoked, sweep>>

IdleOver(t) == endSession(t) /\ UNCHANGED <<conn, revoked, sweep>>

Close(c, t) ==
    /\ conn[c].phase = "idle" /\ conn[c].owner = term[t].owner /\ conn[c].owner \notin revoked
    /\ endSession(t)
    /\ UNCHANGED <<conn, revoked, sweep>>

(* The application session ends; the hook takes a list of the owner's       *)
(* terminals, reserved ones included.                                       *)
CloseOwner(o) ==
    /\ o \notin revoked
    /\ revoked' = revoked \cup {o}
    /\ sweep' = sweep \cup Owned(o)
    /\ UNCHANGED <<term, att, conn>>

(* A password change ends every application session; the hook lists what    *)
(* is in sessions.                                                          *)
CloseAll ==
    /\ revoked # Owners
    /\ revoked' = Owners
    /\ sweep' = sweep \cup {t \in Terms : term[t].listed}
    /\ UNCHANGED <<term, att, conn>>

(* One element of the list; not in sessions: nothing to end. *)
Sweep(t) ==
    /\ t \in sweep
    /\ sweep' = sweep \ {t}
    /\ IF term[t].listed /\ term[t].ending = "no" THEN endSession(t) ELSE UNCHANGED <<term, att>>
    /\ UNCHANGED <<conn, revoked>>

-----------------------------------------------------------------------------
Opening(c) ==
    \/ ReplaceStream(c) \/ Reserve(c) \/ StartTerminal(c) \/ waitForExit(c)
    \/ \E a \in Atts : List(c, a)

Attaching(c) == LookupSession(c) \/ \E a \in Atts : Attach(c, a)

Handling(c) == Opening(c) \/ Attaching(c)

Ending(t) == terminateTerminalProcess(t) \/ releaseOwnerSession(t)

Next ==
    \/ \E c \in Conns :
        \/ \E o \in Owners : Connect(c, o)
        \/ \E t \in Terms : ReadFrame(c, t) \/ Close(c, t)
        \/ Handling(c) \/ Disconnect(c) \/ forwardTerminalEvents(c)
    \/ \E t \in Terms :
        \/ forwardOutput(t) \/ Ending(t) \/ ProcessExits(t) \/ Reap(t)
        \/ GraceOver(t) \/ IdleOver(t) \/ Sweep(t)
    \/ \E o \in Owners : CloseOwner(o)
    \/ CloseAll

Spec == Init /\ [][Next]_vars

-----------------------------------------------------------------------------

(* A slot of an owner belongs to a terminal that is listed or being opened, *)
(* so that neither a failed start nor a race of two ends loses one.         *)
SlotsBelong ==
    /\ \A o \in Owners : Cardinality(Owned(o)) <= MaxSessionsPerOwner
    /\ \A t \in Terms :
        term[t].reserved <=>
            \/ term[t].listed
            \/ \E c \in Conns : conn[c].phase \in {"reserved", "started"} /\ conn[c].term = t

(* A connection whose stream was closed under it finds the exit event in    *)
(* the channel, however much output was waiting: its terminal ended, or     *)
(* another connection replaced it.                                          *)
StreamHearsExit ==
    \A c \in Conns : conn[c].stream # None /\ att[conn[c].stream].closed => att[conn[c].stream].exited

(* A terminal nobody is attached to has its grace timer running. *)
UnattachedHasTimer ==
    \A t \in Terms : term[t].listed /\ term[t].ending = "no" => term[t].current # None \/ term[t].grace

(* The terminal service loses no slot, no exit and no timer, whatever attach, detach,
   replacement, failed start or end of a process comes together. *)
TerminalsAreSound == SlotsBelong /\ StreamHearsExit /\ UnattachedHasTimer
=============================================================================
