------------------------------ MODULE Sessions ------------------------------
(***************************************************************************)
(* Authenticated sessions: rows in the database, the in-memory hub that    *)
(* holds the leases of established WebSockets, and password versions       *)
(* (internal/auth/service.go, internal/auth/session_lifecycle.go).         *)
(*                                                                         *)
(* sessionTransitionMu serialises the operations that touch both; the hub  *)
(* has a mutex of its own, which frames and timers take without the first. *)
(* lock is what the holder of sessionTransitionMu has yet to do.  Logins   *)
(* insert rows without it.                                                 *)
(***************************************************************************)
EXTENDS Naturals, FiniteSets

CONSTANTS
    Ids, Conns, None,
    IdleTimeout, AbsoluteLifetime,
    MaxTime, MaxVersion,   \* bounds on the clock and on password changes
    MaxErrors              \* bound on failed database writes

(* Why a session was terminated. *)
Reasons == {"logout", "password_changed", "revoked", "absolute_expired", "idle_expired"}

SessionsAssumption ==
    /\ {IdleTimeout, AbsoluteLifetime} \subseteq Nat \ {0}
    /\ {MaxTime, MaxVersion, MaxErrors} \subseteq Nat
    /\ None \notin Ids /\ None \notin Conns /\ None \notin Reasons

VARIABLES
    now,       \* the clock
    version,   \* password_version
    row,       \* auth_sessions
    hub,       \* trackedSession of each id; no subscribers: not tracked
    closing,   \* the hub is shut down
    conn,      \* WebSockets: their session, phase, pending touch, termination
    lock,      \* the rest of the operation that holds sessionTransitionMu
    login,     \* logins that verified a password: its version, and when
    change,    \* password changes that verified the current one
    expiring,  \* <<id, reason>> terminated in the hub, not yet in the database
    errors     \* failed database writes so far

vars == <<now, version, row, hub, closing, conn, lock, login, change, expiring, errors>>

NoRow == [state |-> "none", created |-> 0, seen |-> 0, expires |-> 0, version |-> 0]
Untracked == [subs |-> {}, idle |-> 0, absolute |-> 0, persisted |-> 0]
NoTouch == [at |-> 0, expires |-> 0, expected |-> 0]
Closed == [session |-> None, phase |-> "closed", touch |-> NoTouch, told |-> None]
Free == [op |-> "free"]

Init ==
    /\ now = 0 /\ version = 1 /\ errors = 0 /\ closing = FALSE
    /\ row = [i \in Ids |-> NoRow]
    /\ hub = [i \in Ids |-> Untracked]
    /\ conn = [c \in Conns |-> Closed]
    /\ lock = Free /\ login = {} /\ change = {} /\ expiring = {}

MinTime(a, b) == IF a < b THEN a ELSE b
MaxOf(a, b) == IF a < b THEN b ELSE a
sessionTouchInterval == MaxOf(IdleTimeout \div 2, 1)

(* Activity moves the idle deadline, up to the absolute one. *)
NextDeadline(absolute) == MinTime(now + IdleTimeout, absolute)

-----------------------------------------------------------------------------
(* The hub.  Each operator is one critical section of its mutex.           *)

expirationReason(t) ==
    IF t.absolute <= now THEN "absolute_expired"
    ELSE IF t.idle <= now THEN "idle_expired"
    ELSE None

(* Mutation: the session is forgotten, and its subscribers are not told. *)
terminateLockedSilent(ids, reason) ==
    /\ hub' = [i \in Ids |-> IF i \in ids THEN Untracked ELSE hub[i]]
    /\ UNCHANGED conn

(* Every subscriber's channel of one element gets the reason. *)
terminateLocked(ids, reason) ==
    /\ hub' = [i \in Ids |-> IF i \in ids THEN Untracked ELSE hub[i]]
    /\ conn' = [c \in Conns |->
                  IF \E i \in ids : c \in hub[i].subs THEN [conn[c] EXCEPT !.told = reason]
                  ELSE conn[c]]

(* The lease in memory never ends before what the database was told. *)
TouchPersisted(i, seen, expires) ==
    hub' = IF hub[i].subs = {} THEN hub
           ELSE [hub EXCEPT ![i].idle = MaxOf(@, MinTime(expires, hub[i].absolute)),
                            ![i].persisted = MaxOf(@, seen)]

TouchLease(i, expires) ==
    hub' = IF hub[i].subs = {} THEN hub
           ELSE [hub EXCEPT ![i].idle = MaxOf(@, MinTime(expires, hub[i].absolute))]

(* A session that ran out meanwhile is terminated at once; a closing hub   *)
(* gives a closed channel.                                                 *)
Subscribe(c, s) ==
    LET absolute == s.created + AbsoluteLifetime
        idle == MinTime(s.expires, absolute)
        old == hub[s.id]
    IN  hub' = IF closing \/ idle <= now THEN hub
               ELSE [hub EXCEPT ![s.id] =
                       [subs |-> old.subs \cup {c},
                        idle |-> IF old.subs = {} THEN idle ELSE MaxOf(idle, old.idle),
                        absolute |-> IF old.subs = {} THEN absolute ELSE old.absolute,
                        persisted |-> MaxOf(s.seen, old.persisted)]]

-----------------------------------------------------------------------------
(* The database.                                                           *)

Live(i) == row[i].state = "live"
SessionAtCurrentPasswordVersion(i) == row[i].state # "none" /\ row[i].version = version

invalidSessionReason(i) ==
    IF ~Live(i) THEN "revoked"
    ELSE IF row[i].created + AbsoluteLifetime <= now THEN "absolute_expired"
    ELSE IF row[i].expires <= now THEN "idle_expired"
    ELSE None

RevokeSession(i) ==
    IF Live(i) THEN row' = [row EXCEPT ![i].state = "revoked"] ELSE UNCHANGED row

(* The guard of the compare-and-swap on last_seen_at. *)
TouchSessionGuard(i, expected) == Live(i) /\ row[i].seen = expected /\ row[i].version = version

TouchSession(i, seen, expires) == row' = [row EXCEPT ![i].seen = seen, ![i].expires = expires]

-----------------------------------------------------------------------------
Tick == /\ now < MaxTime
        /\ now' = now + 1
        /\ UNCHANGED <<version, row, hub, closing, conn, lock, login, change, expiring, errors>>

(* The password is verified against the version read with it... *)
Login ==
    /\ login = {}
    /\ login' = {[version |-> version, at |-> now]}
    /\ UNCHANGED <<now, version, row, hub, closing, conn, lock, change, expiring, errors>>

(* ...and the row is inserted only while that version is current. *)
CreateSessionAtPasswordVersion(i) ==
    \E l \in login :
        /\ row[i] = NoRow
        /\ row' = IF l.version # version THEN row
                  ELSE [row EXCEPT ![i] = [state |-> "live", created |-> l.at, seen |-> l.at,
                          expires |-> l.at + MinTime(IdleTimeout, AbsoluteLifetime), version |-> l.version]]
        /\ login' = login \ {l}
        /\ UNCHANGED <<now, version, hub, closing, conn, lock, change, expiring, errors>>

-----------------------------------------------------------------------------
(* Operations under sessionTransitionMu: the database first, then the hub. *)

Terminating(ids, reason) == [op |-> "terminate", ids |-> ids, reason |-> reason]

(* Mutation: logging out leaves established connections alone. *)
LogoutRowOnly(i) ==
    /\ lock = Free /\ Live(i)
    /\ RevokeSession(i)
    /\ UNCHANGED <<now, version, hub, closing, conn, lock, login, change, expiring, errors>>

Logout(i) ==
    /\ lock = Free /\ Live(i)
    /\ RevokeSession(i)
    /\ lock' = Terminating({i}, "logout")
    /\ UNCHANGED <<now, version, hub, closing, conn, login, change, expiring, errors>>

terminateSession ==
    /\ lock.op = "terminate"
    /\ terminateLocked(lock.ids, lock.reason)
    /\ lock' = Free
    /\ UNCHANGED <<now, version, row, closing, login, change, expiring, errors>>

VerifyCurrentPassword ==
    /\ change = {} /\ version < MaxVersion
    /\ change' = {version}
    /\ UNCHANGED <<now, version, row, hub, closing, conn, lock, login, expiring, errors>>

(* One transaction moves the version and revokes every session. *)
UpdatePasswordAndRevokeSessions ==
    \E v \in change :
        /\ lock = Free
        /\ change' = {}
        /\ IF v # version THEN UNCHANGED <<version, row, lock>>
           ELSE /\ version' = version + 1
                /\ row' = [i \in Ids |-> IF Live(i) THEN [row[i] EXCEPT !.state = "revoked"] ELSE row[i]]
                /\ lock' = Terminating(Ids, "password_changed")
        /\ UNCHANGED <<now, hub, closing, conn, login, expiring, errors>>

(* authenticateRequest, for a REST request (c = None) or an upgrade. *)
authenticateRequest(i, c) ==
    /\ lock = Free /\ row[i] # NoRow
    /\ c # None => conn[c] = Closed
    /\ LET reason == invalidSessionReason(i)
           expires == NextDeadline(row[i].created + AbsoluteLifetime)
           persist == now - row[i].seen >= sessionTouchInterval
       IN  \/ /\ ~SessionAtCurrentPasswordVersion(i)
              /\ lock' = Terminating({i}, "revoked")
              /\ UNCHANGED row
           \/ /\ SessionAtCurrentPasswordVersion(i) /\ reason # None
              /\ RevokeSession(i)
              /\ lock' = Terminating({i}, reason)
           \/ /\ SessionAtCurrentPasswordVersion(i) /\ reason = None
              /\ IF persist THEN TouchSession(i, now, expires) ELSE UNCHANGED row
              /\ lock' = [op |-> "lease", id |-> i, conn |-> c, created |-> row[i].created,
                          seen |-> IF persist THEN now ELSE row[i].seen,
                          expires |-> expires, persisted |-> persist]
    /\ UNCHANGED <<now, version, hub, closing, conn, login, change, expiring, errors>>

ApplyLease ==
    /\ lock.op = "lease"
    /\ IF lock.persisted THEN TouchPersisted(lock.id, lock.seen, lock.expires)
       ELSE TouchLease(lock.id, lock.expires)
    /\ lock' = IF lock.conn = None THEN Free ELSE [lock EXCEPT !.op = "subscribe"]
    /\ UNCHANGED <<now, version, row, closing, conn, login, change, expiring, errors>>

(* The upgrade subscribes before it gives the mutex back. *)
AuthenticateWebSocket ==
    /\ lock.op = "subscribe"
    /\ Subscribe(lock.conn, lock)
    /\ conn' = [conn EXCEPT ![lock.conn] =
                  [session |-> lock.id, phase |-> "open", touch |-> NoTouch,
                   told |-> IF closing THEN None
                            ELSE expirationReason([absolute |-> lock.created + AbsoluteLifetime,
                                                   idle |-> lock.expires])]]
    /\ lock' = Free
    /\ UNCHANGED <<now, version, row, closing, login, change, expiring, errors>>

-----------------------------------------------------------------------------
(* A frame extends the lease in memory without sessionTransitionMu.        *)

Touch(c) ==
    LET i == conn[c].session
        t == hub[i]
        idle == NextDeadline(t.absolute)
    IN  /\ conn[c].phase = "open"
        /\ \/ /\ t.subs = {} \/ closing
              /\ conn' = [conn EXCEPT ![c].phase = "leaving"]
              /\ UNCHANGED <<hub, expiring>>
           \/ /\ t.subs # {} /\ ~closing /\ expirationReason(t) # None
              /\ hub' = [hub EXCEPT ![i] = Untracked]
              /\ conn' = [d \in Conns |->
                            IF d \in t.subs
                            THEN [conn[d] EXCEPT !.told = expirationReason(t),
                                                 !.phase = IF d = c THEN "leaving" ELSE @]
                            ELSE conn[d]]
              /\ expiring' = expiring \cup {<<i, expirationReason(t)>>}
           \/ /\ t.subs # {} /\ ~closing /\ expirationReason(t) = None
              /\ hub' = [hub EXCEPT ![i].idle = idle]
              /\ conn' = IF now - t.persisted < sessionTouchInterval THEN conn
                         ELSE [conn EXCEPT ![c].phase = "touched",
                                 ![c].touch = [at |-> now, expires |-> idle, expected |-> t.persisted]]
              /\ UNCHANGED expiring
        /\ UNCHANGED <<now, version, row, closing, lock, login, change, errors>>

(* The throttled write.  When the row moved on, it is read again, so that  *)
(* activity of another connection is not taken for a revocation.           *)
TouchSessionActivity(c) ==
    LET i == conn[c].session
        touch == conn[c].touch
        leased(seen, expires) == [op |-> "lease", id |-> i, conn |-> None, created |-> row[i].created,
                                  seen |-> seen, expires |-> expires, persisted |-> TRUE]
        proceed == conn' = [conn EXCEPT ![c].phase = "open"]
        leave == conn' = [conn EXCEPT ![c].phase = "leaving"]
        reason == IF SessionAtCurrentPasswordVersion(i) THEN invalidSessionReason(i) ELSE "revoked"
    IN  /\ conn[c].phase = "touched" /\ lock = Free
        /\ \/ /\ TouchSessionGuard(i, touch.expected)
              /\ TouchSession(i, touch.at, touch.expires)
              /\ lock' = leased(touch.at, touch.expires)
              /\ proceed /\ UNCHANGED errors
           \/ /\ ~TouchSessionGuard(i, touch.expected) /\ reason = None
              /\ lock' = leased(row[i].seen, row[i].expires)
              /\ proceed /\ UNCHANGED <<row, errors>>
           \/ /\ ~TouchSessionGuard(i, touch.expected) /\ reason # None
              /\ lock' = Terminating({i}, reason)
              /\ leave /\ UNCHANGED <<row, errors>>
           \/ /\ errors < MaxErrors
              /\ errors' = errors + 1
              /\ leave /\ UNCHANGED <<row, lock>>
        /\ UNCHANGED <<now, version, hub, closing, login, change, expiring>>

(* The handler returns: it was told, it failed, or the client went away. *)
unsubscribe(c) ==
    /\ conn[c].phase # "closed"
    /\ hub' = [i \in Ids |-> IF hub[i].subs = {c} THEN Untracked
                             ELSE [hub[i] EXCEPT !.subs = @ \ {c}]]
    /\ conn' = [conn EXCEPT ![c] = Closed]
    /\ UNCHANGED <<now, version, row, closing, lock, login, change, expiring, errors>>

-----------------------------------------------------------------------------
(* A timer fires; the deadline is checked again under the hub's mutex. *)
expire(i) ==
    /\ hub[i].subs # {} /\ ~closing
    /\ expirationReason(hub[i]) # None
    /\ terminateLocked({i}, expirationReason(hub[i]))
    /\ expiring' = expiring \cup {<<i, expirationReason(hub[i])>>}
    /\ UNCHANGED <<now, version, row, closing, lock, login, change, errors>>

(* Then the row is revoked, which may fail, and the session is terminated  *)
(* again, for an upgrade that came in between.                             *)
expireSession(i) ==
    \E e \in expiring :
        /\ lock = Free /\ e[1] = i
        /\ \/ RevokeSession(i) /\ UNCHANGED errors
           \/ errors < MaxErrors /\ errors' = errors + 1 /\ UNCHANGED row
        /\ lock' = Terminating({i}, e[2])
        /\ expiring' = expiring \ {e}
        /\ UNCHANGED <<now, version, hub, closing, conn, login, change>>

(* Channels are closed without a reason. *)
Shutdown ==
    /\ ~closing
    /\ closing' = TRUE
    /\ hub' = [i \in Ids |-> Untracked]
    /\ UNCHANGED <<now, version, row, conn, lock, login, change, expiring, errors>>

-----------------------------------------------------------------------------
Locked == terminateSession \/ ApplyLease \/ AuthenticateWebSocket
Told(c) == conn[c].told # None \/ conn[c].phase = "leaving"

Next ==
    \/ Tick \/ Login \/ VerifyCurrentPassword \/ UpdatePasswordAndRevokeSessions
    \/ Locked \/ Shutdown
    \/ \E i \in Ids :
        \/ CreateSessionAtPasswordVersion(i) \/ Logout(i)
        \/ expire(i) \/ expireSession(i)
        \/ \E c \in Conns \cup {None} : authenticateRequest(i, c)
    \/ \E c \in Conns : Touch(c) \/ TouchSessionActivity(c) \/ unsubscribe(c)

Spec == Init /\ [][Next]_vars

-----------------------------------------------------------------------------
(* A session obtained with an old password is never live: verification and *)
(* insertion are apart, and a password change may come in between.         *)
LiveAtCurrentVersion == \A i \in Ids : Live(i) => row[i].version = version

(* Whenever sessionTransitionMu is free, what the hub lets through without *)
(* asking the database is a session the database has not revoked.          *)
TrackedIsLive == lock = Free => \A i \in Ids : hub[i].subs # {} => Live(i)

(* The hub never ends a session before the database would: its lease       *)
(* covers the one persisted, through two connections, REST requests and    *)
(* throttled writes.                                                       *)
LeaseCoversRow ==
    lock = Free => \A i \in Ids : hub[i].subs # {} => hub[i].idle >= row[i].expires

(* Concurrent activity is not mistaken for revocation: a connection told   *)
(* "revoked" belongs to a session that is.                                 *)
RevokedIsRevoked == \A c \in Conns : conn[c].told = "revoked" => ~Live(conn[c].session)

(* A connection whose session is revoked or ran out of time, and one that  *)
(* is closed, by itself or with the whole hub.                             *)
Doomed(c) == conn[c].phase # "closed" /\ ~closing /\ ~Live(conn[c].session)
Gone(c) == conn[c].phase = "closed" \/ closing

(* The hub and the session table agree: only sessions of the current password live, the hub
   lets through only what the table has not revoked, ends nothing before the table would, and
   calls only revoked sessions revoked (session_lifecycle.go, service.go). *)
SessionsAreSound == LiveAtCurrentVersion /\ TrackedIsLive /\ LeaseCoversRow /\ RevokedIsRevoked
=============================================================================
