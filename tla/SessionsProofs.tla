--------------------------- MODULE SessionsProofs ---------------------------
(***************************************************************************)
(* The hub and the session table agree for any number of sessions and      *)
(* connections, any timeouts and any clock: what sessionTransitionMu       *)
(* protects is stated for the states in which it is held, by what its      *)
(* holder has yet to do.                                                   *)
(***************************************************************************)
EXTENDS Sessions, TLAPS

Rows == [state : {"none", "live", "revoked"}, created : Nat, seen : Nat, expires : Nat, version : Nat]
Tracks == [subs : SUBSET Conns, idle : Nat, absolute : Nat, persisted : Nat]
Touches == [at : Nat, expires : Nat, expected : Nat]
Phases == {"closed", "open", "touched", "leaving"}
Sockets == [session : Ids \cup {None}, phase : Phases, touch : Touches, told : Reasons \cup {None}]
Terminations == [op : {"terminate"}, ids : SUBSET Ids, reason : Reasons]
Leases == [op : {"lease", "subscribe"}, id : Ids, conn : Conns \cup {None}, created : Nat, seen : Nat,
           expires : Nat, persisted : BOOLEAN]
TypeOK ==
    /\ now \in Nat /\ version \in Nat /\ errors \in Nat /\ closing \in BOOLEAN
    /\ row \in [Ids -> Rows] /\ hub \in [Ids -> Tracks] /\ conn \in [Conns -> Sockets]
    /\ lock \in {Free} \cup Terminations \cup Leases
    /\ login \subseteq [version : Nat, at : Nat] /\ change \subseteq Nat
    /\ expiring \subseteq Ids \X {"absolute_expired", "idle_expired"}

(* A row ends within the idle timeout from now and within its absolute lifetime, and is live only
   under the current password. *)
RowsSound ==
    /\ \A l \in login : l.at <= now
    /\ \A i \in Ids :
        /\ row[i].state = "none" => row[i] = NoRow
        /\ Live(i) => row[i].version = version
        /\ row[i].expires <= now + IdleTimeout
        /\ row[i].expires <= row[i].created + AbsoluteLifetime

(* A tracked session is live or about to be terminated, its lease covers the row or is about to
   be extended, and its subscribers are connections of that session. *)
HubSound ==
    \A i \in Ids : hub[i].subs # {} =>
        /\ row[i].state # "none"
        /\ hub[i].absolute = row[i].created + AbsoluteLifetime
        /\ Live(i) \/ (lock.op = "terminate" /\ i \in lock.ids)
        /\ hub[i].idle >= row[i].expires \/ (lock.op = "lease" /\ lock.id = i)
        /\ \A c \in hub[i].subs : conn[c].session = i /\ conn[c].phase # "closed"

(* The holder of sessionTransitionMu leases what the row says, to a connection that is not there
   yet, and calls nothing revoked that is not. *)
LockSound ==
    /\ lock.op \in {"lease", "subscribe"} =>
        /\ Live(lock.id) /\ lock.created = row[lock.id].created /\ lock.expires >= row[lock.id].expires
        /\ lock.conn # None => conn[lock.conn] = Closed
    /\ lock.op = "subscribe" => lock.conn # None
    /\ lock.op = "terminate" /\ lock.reason = "revoked" => \A i \in lock.ids : row[i].state = "revoked"

(* A connection belongs to a session of the table, and a touch it carries is bounded like a row. *)
ConnsSound ==
    \A c \in Conns :
        /\ conn[c].told = "revoked" => conn[c].session \in Ids /\ row[conn[c].session].state = "revoked"
        /\ conn[c].phase # "closed" => conn[c].session \in Ids /\ row[conn[c].session].state # "none"
        /\ conn[c].phase = "touched" =>
            /\ conn[c].touch.expires <= now + IdleTimeout
            /\ conn[c].touch.expires <= row[conn[c].session].created + AbsoluteLifetime
Inv == TypeOK /\ RowsSound /\ HubSound /\ LockSound /\ ConnsSound
-----------------------------------------------------------------------------
(* What nothing looks like has its type. *)
LEMMA NothingIsTyped ==
    ASSUME SessionsAssumption
    PROVE  /\ NoRow \in Rows /\ Untracked \in Tracks /\ NoTouch \in Touches /\ Closed \in Sockets
           /\ Untracked.subs = {} /\ Closed.phase = "closed" /\ Closed.told # "revoked"
           /\ Free.op = "free" /\ NoRow.state = "none" /\ NoRow.expires = 0 /\ NoRow.created = 0
<1>1. NoTouch \in Touches  BY DEF NoTouch, Touches
<1>2. Closed \in Sockets /\ Closed.phase = "closed" /\ Closed.told = None  BY <1>1 DEF Closed, Sockets, Phases
<1>3. None # "revoked"  BY DEF SessionsAssumption, Reasons
<1> QED  BY <1>1, <1>2, <1>3 DEF NoRow, Rows, Untracked, Tracks, Free

(* What the operation is tells what is left of it. *)
LEMMA LockIsOne ==
    ASSUME TypeOK
    PROVE  /\ lock.op \in {"free", "terminate", "lease", "subscribe"}
           /\ lock.op = "free" <=> lock = Free
           /\ lock.op = "terminate" => lock \in Terminations
           /\ lock.op \in {"lease", "subscribe"} => lock \in Leases
<1>1. CASE lock = Free  BY <1>1 DEF Free
<1>2. CASE lock \in Terminations  BY <1>2 DEF Terminations, Free
<1>3. CASE lock \in Leases  BY <1>3 DEF Leases, Free
<1> QED  BY <1>1, <1>2, <1>3 DEF TypeOK

(* RevokeSession changes the state of a live row and nothing else. *)
LEMMA RevokedRow ==
    ASSUME TypeOK, NEW i \in Ids, RevokeSession(i)
    PROVE  /\ row' \in [Ids -> Rows]
           /\ \A k \in Ids : /\ row'[k].created = row[k].created /\ row'[k].seen = row[k].seen
                             /\ row'[k].expires = row[k].expires /\ row'[k].version = row[k].version
                             /\ row'[k].state = IF k = i /\ Live(k) THEN "revoked" ELSE row[k].state
                             /\ k # i \/ ~Live(i) => row'[k] = row[k]
<1>1. CASE ~Live(i)  BY <1>1 DEF RevokeSession, TypeOK
<1>2. CASE Live(i)
  <2> DEFINE revoked == [row[i] EXCEPT !.state = "revoked"]
  <2>1. row[i] \in Rows  BY DEF TypeOK
  <2>2. /\ revoked \in Rows /\ revoked.state = "revoked" /\ revoked.created = row[i].created
        /\ revoked.seen = row[i].seen /\ revoked.expires = row[i].expires /\ revoked.version = row[i].version
    BY <2>1 DEF Rows
  <2>3. row' = [row EXCEPT ![i] = revoked]  BY <1>2 DEF RevokeSession
  <2> HIDE DEF revoked
  <2>4. row' \in [Ids -> Rows] /\ row'[i] = revoked /\ \A k \in Ids \ {i} : row'[k] = row[k]  BY <2>2, <2>3 DEF TypeOK
  <2> QED  BY <1>2, <2>2, <2>4
<1> QED  BY <1>1, <1>2

(* TouchSession changes when a row was seen and when it ends. *)
LEMMA TouchedRow ==
    ASSUME TypeOK, NEW i \in Ids, NEW seen \in Nat, NEW expires \in Nat, TouchSession(i, seen, expires)
    PROVE  /\ row' \in [Ids -> Rows]
           /\ row'[i].expires = expires /\ row'[i].created = row[i].created
           /\ row'[i].state = row[i].state /\ row'[i].version = row[i].version
           /\ \A k \in Ids \ {i} : row'[k] = row[k]
<1> DEFINE touched == [row[i] EXCEPT !.seen = seen, !.expires = expires]
<1>1. row[i] \in Rows  BY DEF TypeOK
<1>2. /\ touched \in Rows /\ touched.expires = expires /\ touched.created = row[i].created
      /\ touched.state = row[i].state /\ touched.version = row[i].version
  BY <1>1, Zenon DEF Rows
<1>3. row' = [row EXCEPT ![i] = touched]  BY Zenon DEF TouchSession, TypeOK
<1> HIDE DEF touched
<1> QED  BY <1>2, <1>3 DEF TypeOK

(* terminateLocked forgets the sessions and tells those that were subscribed. *)
LEMMA TerminatedHub ==
    ASSUME TypeOK, SessionsAssumption, NEW ids \in SUBSET Ids, NEW reason \in Reasons \cup {None}, terminateLocked(ids, reason)
    PROVE  /\ hub' \in [Ids -> Tracks] /\ conn' \in [Conns -> Sockets]
           /\ \A i \in ids : hub'[i].subs = {}
           /\ \A i \in Ids \ ids : hub'[i] = hub[i]
           /\ \A c \in Conns : /\ conn'[c].session = conn[c].session /\ conn'[c].phase = conn[c].phase
                               /\ conn'[c].touch = conn[c].touch
                               /\ conn'[c] = conn[c] \/ (conn'[c].told = reason /\ \E i \in ids : c \in hub[i].subs)
<1>1. \A i \in Ids : hub'[i] = IF i \in ids THEN Untracked ELSE hub[i]  BY DEF terminateLocked
<1>2. hub' \in [Ids -> Tracks]  BY NothingIsTyped DEF terminateLocked, TypeOK
<1>3. ASSUME NEW c \in Conns
      PROVE  /\ [conn[c] EXCEPT !.told = reason] \in Sockets
             /\ [conn[c] EXCEPT !.told = reason].session = conn[c].session
             /\ [conn[c] EXCEPT !.told = reason].phase = conn[c].phase
             /\ [conn[c] EXCEPT !.told = reason].touch = conn[c].touch
             /\ [conn[c] EXCEPT !.told = reason].told = reason
  <2>1. conn[c] \in Sockets  BY DEF TypeOK
  <2> QED  BY <2>1 DEF Sockets
<1>4. conn' \in [Conns -> Sockets]  BY <1>3 DEF terminateLocked, TypeOK
<1>5. \A c \in Conns : conn'[c] = IF \E i \in ids : c \in hub[i].subs THEN [conn[c] EXCEPT !.told = reason] ELSE conn[c]
  BY DEF terminateLocked
<1> QED  BY <1>1, <1>2, <1>3, <1>4, <1>5, NothingIsTyped, Zenon

(* There are no sessions and no connections when the program starts. *)
LEMMA InvInit == ASSUME SessionsAssumption, Init PROVE Inv
<1>1. TypeOK  BY NothingIsTyped, Zenon DEF Init, TypeOK
<1>2. RowsSound  BY NothingIsTyped DEF Init, RowsSound, Live, SessionsAssumption
<1>3. HubSound  BY NothingIsTyped DEF Init, HubSound
<1>4. LockSound  BY NothingIsTyped DEF Init, LockSound
<1>5. ConnsSound  BY NothingIsTyped DEF Init, ConnsSound
<1> QED  BY <1>1, <1>2, <1>3, <1>4, <1>5 DEF Inv

(* Time only relaxes the bounds. *)
LEMMA TickKeepsInv == ASSUME SessionsAssumption, Inv, Tick PROVE Inv'
<1>1. TypeOK'  BY DEF Inv, TypeOK, Tick
<1>2. RowsSound'  BY DEF Inv, TypeOK, RowsSound, Tick, Live, Rows, SessionsAssumption
<1>3. HubSound'  BY DEF Inv, HubSound, Tick, Live
<1>4. LockSound'  BY DEF Inv, LockSound, Tick, Live
<1>5. ConnsSound'
  <2>1. now' = now + 1 /\ row' = row /\ conn' = conn  BY DEF Tick
  <2>2. \A c \in Conns : conn[c].touch.expires \in Nat  BY DEF Inv, TypeOK, Sockets, Touches
  <2> QED  BY <2>1, <2>2 DEF Inv, TypeOK, ConnsSound, SessionsAssumption
<1> QED  BY <1>1, <1>2, <1>3, <1>4, <1>5 DEF Inv

(* Verifying a password, for a login or for a change, touches no session. *)
LEMMA VerifyKeepsInv == ASSUME SessionsAssumption, Inv, Login \/ VerifyCurrentPassword PROVE Inv'
<1>1. row' = row /\ hub' = hub /\ conn' = conn /\ lock' = lock /\ now' = now /\ version' = version
  BY DEF Login, VerifyCurrentPassword
<1>2. TypeOK'
  <2>1. CASE Login
    <3>1. [version |-> version, at |-> now] \in [version : Nat, at : Nat]  BY DEF Inv, TypeOK
    <3> QED  BY <2>1, <3>1 DEF Inv, TypeOK, Login
  <2>2. CASE VerifyCurrentPassword  BY <2>2 DEF Inv, TypeOK, VerifyCurrentPassword
  <2> QED  BY <2>1, <2>2
<1>3. RowsSound'
  <2>1. \A l \in login' : l.at <= now
    <3>1. CASE Login  BY <3>1 DEF Login, Inv, TypeOK
    <3>2. CASE VerifyCurrentPassword  BY <3>2 DEF VerifyCurrentPassword, Inv, RowsSound
    <3> QED  BY <3>1, <3>2
  <2> QED  BY <1>1, <2>1 DEF Inv, RowsSound, Live
<1>4. HubSound'  BY <1>1 DEF Inv, HubSound, Live
<1>5. LockSound'  BY <1>1 DEF Inv, LockSound, Live
<1>6. ConnsSound'  BY <1>1 DEF Inv, ConnsSound
<1> QED  BY <1>2, <1>3, <1>4, <1>5, <1>6 DEF Inv

(* A new row takes the place of none: nothing refers to it yet. *)
LEMMA CreateKeepsInv ==
    ASSUME SessionsAssumption, Inv, NEW i \in Ids, CreateSessionAtPasswordVersion(i)
    PROVE  Inv'
<1>1. PICK l \in login :
        /\ row[i] = NoRow
        /\ row' = IF l.version # version THEN row
                  ELSE [row EXCEPT ![i] = [state |-> "live", created |-> l.at, seen |-> l.at,
                          expires |-> l.at + MinTime(IdleTimeout, AbsoluteLifetime), version |-> l.version]]
        /\ login' = login \ {l}
  BY Zenon DEF CreateSessionAtPasswordVersion
<1>2. /\ now' = now /\ version' = version /\ hub' = hub /\ closing' = closing /\ conn' = conn /\ lock' = lock
      /\ change' = change /\ expiring' = expiring /\ errors' = errors
  BY DEF CreateSessionAtPasswordVersion
<1>3. l.at \in Nat /\ l.version \in Nat /\ l.at <= now  BY DEF Inv, TypeOK, RowsSound
<1> DEFINE new == [state |-> "live", created |-> l.at, seen |-> l.at,
                   expires |-> l.at + MinTime(IdleTimeout, AbsoluteLifetime), version |-> l.version]
<1>4. /\ new \in Rows /\ new.state = "live" /\ new.version = l.version
      /\ new.expires <= now + IdleTimeout /\ new.expires <= new.created + AbsoluteLifetime
  BY <1>3 DEF Rows, MinTime, SessionsAssumption, Inv, TypeOK
<1>5. row' = row \/ (l.version = version /\ row' = [row EXCEPT ![i] = new])  BY <1>1
<1> HIDE DEF new
<1>6. row' = row \/ (l.version = version /\ row'[i] = new)  BY <1>5 DEF Inv, TypeOK
<1>7. row' \in [Ids -> Rows] /\ \A k \in Ids \ {i} : row'[k] = row[k]  BY <1>4, <1>5 DEF Inv, TypeOK
<1>8. row[i].state = "none"  BY <1>1, NothingIsTyped
<1>9. TypeOK'  BY <1>1, <1>2, <1>7 DEF Inv, TypeOK
<1>10. RowsSound'  BY <1>1, <1>2, <1>4, <1>6, <1>7 DEF Inv, RowsSound, Live
<1>11. hub[i].subs = {}  BY <1>8 DEF Inv, HubSound
<1>12. HubSound'  BY <1>2, <1>7, <1>11 DEF Inv, HubSound, Live
<1>13. LockSound'
  <2>1. lock.op \in {"lease", "subscribe"} => lock.id \in Ids /\ lock.id # i
    BY <1>8, LockIsOne DEF Inv, LockSound, Live, Leases
  <2>2. lock.op = "terminate" /\ lock.reason = "revoked" => lock.ids \subseteq Ids \ {i}
    BY <1>8, LockIsOne DEF Inv, LockSound, Terminations
  <2> QED  BY <1>2, <1>7, <2>1, <2>2 DEF Inv, LockSound, Live
<1>14. ConnsSound'  BY <1>2, <1>7, <1>8 DEF Inv, ConnsSound
<1> QED  BY <1>9, <1>10, <1>12, <1>13, <1>14 DEF Inv

(* A row that is revoked, and what then terminates its session, by a logout, a request or a timer. *)
LEMMA RevokeKeepsInv ==
    ASSUME SessionsAssumption, Inv, NEW i \in Ids, NEW reason \in Reasons, lock = Free,
           RevokeSession(i) \/ UNCHANGED row, lock' = Terminating({i}, reason),
           reason = "revoked" => row[i].state = "revoked", TypeOK',
           UNCHANGED <<now, version, hub, login>>,
           \A c \in Conns : /\ conn'[c].session = conn[c].session /\ conn'[c].told = conn[c].told
                            /\ conn'[c].touch = conn[c].touch
                            /\ conn'[c].phase # "closed" <=> conn[c].phase # "closed"
                            /\ conn'[c].phase = "touched" => conn[c].phase = "touched"
    PROVE  Inv'
<1>1. /\ lock.op = "free" /\ lock'.op = "terminate" /\ lock'.ids = {i} /\ lock'.reason = reason
  BY DEF Terminating, Free
<1>2. \A k \in Ids : /\ row'[k].created = row[k].created /\ row'[k].expires = row[k].expires
                     /\ row'[k].version = row[k].version
                     /\ row'[k].state = row[k].state \/ (k = i /\ row[k].state = "live" /\ row'[k].state = "revoked")
                     /\ row[k].state = "none" => row'[k] = row[k]
  BY RevokedRow DEF Inv, Live
<1>3. RowsSound'  BY <1>2 DEF Inv, RowsSound, Live
<1>4. HubSound'
  <2> SUFFICES ASSUME NEW k \in Ids, hub[k].subs # {}
               PROVE  /\ row'[k].state # "none"
                      /\ hub[k].absolute = row'[k].created + AbsoluteLifetime
                      /\ row'[k].state = "live" \/ k = i
                      /\ hub[k].idle >= row'[k].expires
                      /\ \A c \in hub[k].subs : conn'[c].session = k /\ conn'[c].phase # "closed"
    BY <1>1, Zenon DEF HubSound, Live
  <2>1. hub[k].subs \subseteq Conns  BY DEF Inv, TypeOK, Tracks
  <2> QED  BY <1>1, <1>2, <2>1 DEF Inv, HubSound, Live
<1>5. LockSound'
  BY <1>1, <1>2, SMTT(30) DEF LockSound
<1>6. ConnsSound'
  <2> SUFFICES ASSUME NEW c \in Conns
               PROVE  /\ conn'[c].told = "revoked" => conn'[c].session \in Ids /\ row'[conn'[c].session].state = "revoked"
                      /\ conn'[c].phase # "closed" => conn'[c].session \in Ids /\ row'[conn'[c].session].state # "none"
                      /\ conn'[c].phase = "touched" =>
                          /\ conn'[c].touch.expires <= now + IdleTimeout
                          /\ conn'[c].touch.expires <= row'[conn'[c].session].created + AbsoluteLifetime
    BY DEF ConnsSound
  <2> QED  BY <1>2 DEF Inv, ConnsSound
<1> QED  BY <1>3, <1>4, <1>5, <1>6 DEF Inv

(* A termination is an operation of its kind. *)
LEMMA TerminatingIsTyped ==
    ASSUME NEW ids \in SUBSET Ids, NEW reason \in Reasons
    PROVE  Terminating(ids, reason) \in Terminations
    BY DEF Terminating, Terminations

(* A logout revokes the row before its session is terminated. *)
LEMMA LogoutKeepsInv == ASSUME SessionsAssumption, Inv, NEW i \in Ids, Logout(i) PROVE Inv'
<1>1. lock = Free /\ RevokeSession(i) /\ lock' = Terminating({i}, "logout") /\ UNCHANGED <<now, version, hub, conn, login>>
  BY DEF Logout
<1>2. "logout" \in Reasons /\ "logout" # "revoked"  BY DEF Reasons
<1>3. TypeOK'  BY <1>1, <1>2, RevokedRow, TerminatingIsTyped, SMTT(30) DEF Inv, TypeOK, Logout
<1> QED  BY <1>1, <1>2, <1>3, RevokeKeepsInv

(* The row of an expired session is revoked, or the write fails, and its session is terminated. *)
LEMMA ExpireSessionKeepsInv == ASSUME SessionsAssumption, Inv, NEW i \in Ids, expireSession(i) PROVE Inv'
<1>1. PICK e \in expiring :
        /\ lock = Free /\ e[1] = i
        /\ \/ RevokeSession(i) /\ UNCHANGED errors
           \/ errors < MaxErrors /\ errors' = errors + 1 /\ UNCHANGED row
        /\ lock' = Terminating({i}, e[2])
        /\ expiring' = expiring \ {e}
        /\ UNCHANGED <<now, version, hub, closing, conn, login, change>>
  BY DEF expireSession
<1>2. e[2] \in Reasons /\ e[2] # "revoked"  BY DEF Inv, TypeOK, Reasons
<1>3. row' \in [Ids -> Rows]  BY <1>1, RevokedRow DEF Inv, TypeOK
<1>4. TypeOK'  BY <1>1, <1>2, <1>3, TerminatingIsTyped DEF Inv, TypeOK
<1> QED  BY <1>1, <1>2, <1>4, RevokeKeepsInv

(* A session that is terminated, by the holder of the mutex or by a timer, is not tracked any more. *)
LEMMA TerminateKeepsInv ==
    ASSUME SessionsAssumption, Inv, NEW ids \in SUBSET Ids, NEW reason \in Reasons, terminateLocked(ids, reason),
           reason = "revoked" => \A i \in ids : row[i].state = "revoked", TypeOK',
           lock' = lock \/ (lock.op = "terminate" /\ lock.ids = ids /\ lock' = Free),
           UNCHANGED <<now, version, row, login>>
    PROVE  Inv'
<1>1. /\ \A i \in ids : hub'[i].subs = {}
      /\ \A i \in Ids \ ids : hub'[i] = hub[i]
      /\ \A c \in Conns : /\ conn'[c].session = conn[c].session /\ conn'[c].phase = conn[c].phase
                          /\ conn'[c].touch = conn[c].touch
                          /\ conn'[c] = conn[c] \/ (conn'[c].told = reason /\ \E i \in ids : c \in hub[i].subs)
  BY TerminatedHub, Zenon DEF Inv
<1>2. lock' = lock \/ lock'.op = "free"  BY NothingIsTyped
<1>3. RowsSound'  BY DEF Inv, RowsSound, Live
<1>4. HubSound'
  <2> SUFFICES ASSUME NEW k \in Ids \ ids, hub[k].subs # {}
               PROVE  /\ row[k].state # "none"
                      /\ hub[k].absolute = row[k].created + AbsoluteLifetime
                      /\ Live(k) \/ (lock'.op = "terminate" /\ k \in lock'.ids)
                      /\ hub[k].idle >= row[k].expires \/ (lock'.op = "lease" /\ lock'.id = k)
                      /\ \A c \in hub[k].subs : conn'[c].session = k /\ conn'[c].phase # "closed"
    BY <1>1 DEF HubSound, Live
  <2>1. hub[k].subs \subseteq Conns  BY DEF Inv, TypeOK, Tracks
  <2>2. \A c \in hub[k].subs : conn'[c].session = k /\ conn'[c].phase # "closed"  BY <1>1, <2>1 DEF Inv, HubSound
  <2>3. Live(k) \/ (lock'.op = "terminate" /\ k \in lock'.ids)  BY DEF Inv, HubSound
  <2>4. hub[k].idle >= row[k].expires \/ (lock'.op = "lease" /\ lock'.id = k)  BY DEF Inv, HubSound
  <2> QED  BY <2>2, <2>3, <2>4 DEF Inv, HubSound
<1>5. LockSound'
  <2>1. CASE lock' = lock
    <3>1. ASSUME lock.op \in {"lease", "subscribe"}, lock.conn # None PROVE conn'[lock.conn] = Closed
      <4>1. lock.conn \in Conns /\ conn[lock.conn] = Closed
        BY <3>1, LockIsOne DEF Inv, LockSound, Leases
      <4>2. \A i \in ids : lock.conn \notin hub[i].subs  BY <4>1, NothingIsTyped DEF Inv, HubSound
      <4> QED  BY <1>1, <4>1, <4>2
    <3> QED  BY <2>1, <3>1 DEF Inv, LockSound, Live
  <2>2. CASE lock'.op = "free"  BY <2>2 DEF LockSound
  <2> QED  BY <1>2, <2>1, <2>2
<1>6. ConnsSound'
  <2> SUFFICES ASSUME NEW c \in Conns
               PROVE  /\ conn'[c].told = "revoked" => conn'[c].session \in Ids /\ row[conn'[c].session].state = "revoked"
                      /\ conn'[c].phase # "closed" => conn'[c].session \in Ids /\ row[conn'[c].session].state # "none"
                      /\ conn'[c].phase = "touched" =>
                          /\ conn'[c].touch.expires <= now + IdleTimeout
                          /\ conn'[c].touch.expires <= row[conn'[c].session].created + AbsoluteLifetime
    BY DEF ConnsSound
  <2>1. CASE conn'[c] = conn[c]  BY <2>1 DEF Inv, ConnsSound
  <2>2. CASE conn'[c].told = reason /\ \E i \in ids : c \in hub[i].subs
    <3>1. PICK i \in ids : c \in hub[i].subs  BY <2>2
    <3>2. conn[c].session = i  BY <3>1 DEF Inv, HubSound
    <3> QED  BY <1>1, <2>2, <3>2 DEF Inv, ConnsSound
  <2> QED  BY <1>1, <2>1, <2>2
<1> QED  BY <1>3, <1>4, <1>5, <1>6 DEF Inv

(* The holder of the mutex terminates what it has revoked, and gives the mutex back. *)
LEMMA TerminateSessionKeepsInv == ASSUME SessionsAssumption, Inv, terminateSession PROVE Inv'
<1>1. /\ lock.op = "terminate" /\ terminateLocked(lock.ids, lock.reason) /\ lock' = Free
      /\ UNCHANGED <<now, version, row, closing, login, change, expiring, errors>>
  BY DEF terminateSession
<1>2. lock.ids \in SUBSET Ids /\ lock.reason \in Reasons  BY <1>1, LockIsOne DEF Inv, Terminations
<1>3. lock.reason = "revoked" => \A i \in lock.ids : row[i].state = "revoked"  BY <1>1 DEF Inv, LockSound
<1>4. hub' \in [Ids -> Tracks] /\ conn' \in [Conns -> Sockets]  BY <1>1, <1>2, TerminatedHub, Zenon DEF Inv
<1>5. TypeOK'  BY <1>1, <1>4 DEF Inv, TypeOK
<1> QED  BY <1>1, <1>2, <1>3, <1>5, TerminateKeepsInv

(* A deadline has one of two reasons. *)
LEMMA ExpirationIsNoRevocation ==
    ASSUME SessionsAssumption, NEW t, expirationReason(t) # None
    PROVE  expirationReason(t) \in {"absolute_expired", "idle_expired"} /\ expirationReason(t) \in Reasons
    BY DEF expirationReason, Reasons

(* A timer terminates a session in the hub alone. *)
LEMMA ExpireKeepsInv == ASSUME SessionsAssumption, Inv, NEW i \in Ids, expire(i) PROVE Inv'
<1> DEFINE reason == expirationReason(hub[i])
<1>1. /\ reason # None /\ terminateLocked({i}, reason) /\ expiring' = expiring \cup {<<i, reason>>}
      /\ UNCHANGED <<now, version, row, closing, lock, login, change, errors>>
  BY DEF expire
<1>2. reason \in {"absolute_expired", "idle_expired"} /\ reason \in Reasons  BY <1>1, ExpirationIsNoRevocation
<1> HIDE DEF reason
<1>3. hub' \in [Ids -> Tracks] /\ conn' \in [Conns -> Sockets]  BY <1>1, <1>2, TerminatedHub, Zenon DEF Inv
<1>4. TypeOK'  BY <1>1, <1>2, <1>3 DEF Inv, TypeOK
<1> QED  BY <1>1, <1>2, <1>4, TerminateKeepsInv

(* A password change revokes every session and terminates all of them. *)
LEMMA UpdatePasswordKeepsInv == ASSUME SessionsAssumption, Inv, UpdatePasswordAndRevokeSessions PROVE Inv'
<1>1. PICK v \in change :
        /\ lock = Free
        /\ change' = {}
        /\ IF v # version THEN UNCHANGED <<version, row, lock>>
           ELSE /\ version' = version + 1
                /\ row' = [i \in Ids |-> IF Live(i) THEN [row[i] EXCEPT !.state = "revoked"] ELSE row[i]]
                /\ lock' = Terminating(Ids, "password_changed")
        /\ UNCHANGED <<now, hub, closing, conn, login, expiring, errors>>
  BY DEF UpdatePasswordAndRevokeSessions
<1>2. CASE v # version
  <2>1. version' = version /\ row' = row /\ lock' = lock  BY <1>1, <1>2
  <2>2. TypeOK'  BY <1>1, <2>1 DEF Inv, TypeOK
  <2> QED  BY <1>1, <2>1, <2>2 DEF Inv, RowsSound, HubSound, LockSound, ConnsSound, Live
<1>3. CASE v = version
  <2>1. \A i \in Ids : LET r == [row[i] EXCEPT !.state = "revoked"] IN
          /\ r \in Rows /\ r.state = "revoked" /\ r.created = row[i].created /\ r.expires = row[i].expires
    BY DEF Inv, TypeOK, Rows
  <2>2. \A i \in Ids : row'[i] = IF Live(i) THEN [row[i] EXCEPT !.state = "revoked"] ELSE row[i]  BY <1>1, <1>3
  <2>3. row' \in [Ids -> Rows]  BY <1>1, <1>3, <2>1 DEF Inv, TypeOK
  <2>4. \A i \in Ids : /\ row'[i].created = row[i].created /\ row'[i].expires = row[i].expires
                       /\ row'[i].state # "live" /\ (row'[i].state = "none" <=> row[i].state = "none")
                       /\ row[i].state # "live" => row'[i] = row[i]
    BY <2>1, <2>2, Zenon DEF Live
  <2>5. version' = version + 1 /\ lock' = Terminating(Ids, "password_changed")  BY <1>1, <1>3
  <2>6. lock'.op = "terminate" /\ lock'.ids = Ids /\ lock'.reason = "password_changed" /\ lock.op = "free"
    BY <1>1, <2>5 DEF Terminating, Free
  <2>7. lock' \in Terminations  BY <2>5, TerminatingIsTyped DEF Reasons
  <2>8. TypeOK'  BY <1>1, <2>3, <2>5, <2>7 DEF Inv, TypeOK
  <2>9. RowsSound'  BY <1>1, <2>4 DEF Inv, RowsSound, Live
  <2>10. HubSound'  BY <1>1, <2>4, <2>6 DEF Inv, HubSound, Live
  <2>11. LockSound'  BY <2>6 DEF LockSound
  <2>12. ConnsSound'  BY <1>1, <2>4 DEF Inv, ConnsSound
  <2> QED  BY <2>8, <2>9, <2>10, <2>11, <2>12 DEF Inv
<1> QED  BY <1>2, <1>3

(* The shutdown of the hub leaves no session tracked. *)
LEMMA ShutdownKeepsInv == ASSUME SessionsAssumption, Inv, Shutdown PROVE Inv'
<1>1. TypeOK'  BY NothingIsTyped DEF Inv, TypeOK, Shutdown
<1>2. HubSound'  BY NothingIsTyped DEF Shutdown, HubSound
<1> QED  BY <1>1, <1>2 DEF Inv, RowsSound, LockSound, ConnsSound, Live, Shutdown

(* A connection that goes is a subscriber of nothing. *)
LEMMA UnsubscribeKeepsInv == ASSUME SessionsAssumption, Inv, NEW c \in Conns, unsubscribe(c) PROVE Inv'
<1>1. /\ UNCHANGED <<now, version, row, closing, lock, login, change, expiring, errors>>
      /\ hub' = [i \in Ids |-> IF hub[i].subs = {c} THEN Untracked ELSE [hub[i] EXCEPT !.subs = @ \ {c}]]
      /\ conn' = [conn EXCEPT ![c] = Closed] /\ conn[c].phase # "closed"
  BY DEF unsubscribe
<1>2. \A i \in Ids : LET h == [hub[i] EXCEPT !.subs = @ \ {c}] IN
        h \in Tracks /\ h.subs = hub[i].subs \ {c} /\ h.idle = hub[i].idle /\ h.absolute = hub[i].absolute
  BY DEF Inv, TypeOK, Tracks
<1>3. hub' \in [Ids -> Tracks]  BY <1>1, <1>2, NothingIsTyped
<1>4. \A i \in Ids : hub'[i] = IF hub[i].subs = {c} THEN Untracked ELSE [hub[i] EXCEPT !.subs = @ \ {c}]  BY <1>1
<1>5. \A i \in Ids : hub'[i].subs # {} => /\ hub'[i].subs = hub[i].subs \ {c} /\ hub[i].subs # {}
                                          /\ hub'[i].idle = hub[i].idle /\ hub'[i].absolute = hub[i].absolute
  BY <1>2, <1>4, NothingIsTyped, Zenon
<1>6. conn'[c] = Closed /\ conn' \in [Conns -> Sockets] /\ \A d \in Conns \ {c} : conn'[d] = conn[d]
  BY <1>1, NothingIsTyped DEF Inv, TypeOK
<1>7. TypeOK'  BY <1>1, <1>3, <1>6 DEF Inv, TypeOK
<1>8. RowsSound'  BY <1>1 DEF Inv, RowsSound, Live
<1>9. HubSound'
  <2>1. \A i \in Ids : hub[i].subs \subseteq Conns  BY DEF Inv, TypeOK, Tracks
  <2> QED  BY <1>1, <1>5, <1>6, <2>1 DEF Inv, HubSound, Live
<1>10. LockSound'
  <2>1. lock.op \in {"lease", "subscribe"} /\ lock.conn # None => lock.conn \in Conns  BY LockIsOne DEF Inv, Leases
  <2> QED  BY <1>1, <1>6, <2>1 DEF Inv, LockSound, Live
<1>11. ConnsSound'  BY <1>1, <1>6, NothingIsTyped, SMTT(30) DEF Inv, ConnsSound
<1> QED  BY <1>7, <1>8, <1>9, <1>10, <1>11 DEF Inv

(* A live session is leased: by a request, by an upgrade, or by the activity of a connection. *)
LEMMA LeaseKeepsInv ==
    ASSUME SessionsAssumption, Inv, NEW i \in Ids, lock = Free, Live(i), TypeOK',
           lock' \in Leases, lock'.op = "lease", lock'.id = i, lock'.created = row[i].created,
           lock'.conn # None => conn'[lock'.conn] = Closed,
           row'[i].state = "live", row'[i].created = row[i].created, row'[i].version = row[i].version,
           row'[i].expires <= lock'.expires, row'[i].expires <= now + IdleTimeout,
           row'[i].expires <= row[i].created + AbsoluteLifetime,
           \A k \in Ids \ {i} : row'[k] = row[k],
           UNCHANGED <<now, version, hub, login>>,
           \A c \in Conns : /\ conn'[c].session = conn[c].session /\ conn'[c].told = conn[c].told
                            /\ conn'[c].touch = conn[c].touch
                            /\ conn'[c].phase # "closed" <=> conn[c].phase # "closed"
                            /\ conn'[c].phase = "touched" => conn[c].phase = "touched"
    PROVE  Inv'
<1>1. lock.op = "free"  BY DEF Free
<1>2. RowsSound'  BY DEF Inv, RowsSound, Live
<1>3. HubSound'
  <2> SUFFICES ASSUME NEW k \in Ids, hub[k].subs # {}
               PROVE  /\ row'[k].state # "none"
                      /\ hub[k].absolute = row'[k].created + AbsoluteLifetime
                      /\ row'[k].state = "live"
                      /\ hub[k].idle >= row'[k].expires \/ k = i
                      /\ \A c \in hub[k].subs : conn'[c].session = k /\ conn'[c].phase # "closed"
    BY DEF HubSound, Live
  <2>1. hub[k].subs \subseteq Conns  BY DEF Inv, TypeOK, Tracks
  <2>2. CASE k = i  BY <1>1, <2>1, <2>2 DEF Inv, HubSound, Live
  <2>3. CASE k # i  BY <1>1, <2>1, <2>3 DEF Inv, HubSound, Live
  <2> QED  BY <2>2, <2>3
<1>4. LockSound'
  <2>1. row'[i].expires \in Nat /\ lock'.expires \in Nat  BY SMTT(30) DEF TypeOK, Rows, Leases
  <2> QED  BY <2>1 DEF LockSound, Live
<1>5. ConnsSound'
  <2> SUFFICES ASSUME NEW c \in Conns
               PROVE  /\ conn'[c].told = "revoked" => conn'[c].session \in Ids /\ row'[conn'[c].session].state = "revoked"
                      /\ conn'[c].phase # "closed" => conn'[c].session \in Ids /\ row'[conn'[c].session].state # "none"
                      /\ conn'[c].phase = "touched" =>
                          /\ conn'[c].touch.expires <= now + IdleTimeout
                          /\ conn'[c].touch.expires <= row'[conn'[c].session].created + AbsoluteLifetime
    BY SMTT(30) DEF ConnsSound
  <2> QED  BY DEF Inv, ConnsSound, Live
<1> QED  BY <1>2, <1>3, <1>4, <1>5, SMTT(30) DEF Inv

(* A request finds its session revoked, expired or live, and acts on the row first. *)
LEMMA AuthenticateKeepsInv ==
    ASSUME SessionsAssumption, Inv, NEW i \in Ids, NEW c \in Conns \cup {None}, authenticateRequest(i, c)
    PROVE  Inv'
<1> DEFINE reason == invalidSessionReason(i)
           deadline == NextDeadline(row[i].created + AbsoluteLifetime)
           persist == now - row[i].seen >= sessionTouchInterval
           seen == IF persist THEN now ELSE row[i].seen
<1>1. /\ lock = Free /\ row[i] # NoRow /\ (c # None => conn[c] = Closed)
      /\ UNCHANGED <<now, version, hub, closing, conn, login, change, expiring, errors>>
  BY DEF authenticateRequest
<1>2. row[i].state \in {"live", "revoked"} /\ (Live(i) => row[i].version = version)
  BY <1>1 DEF Inv, TypeOK, Rows, RowsSound
<1>3. CASE ~SessionAtCurrentPasswordVersion(i) /\ lock' = Terminating({i}, "revoked") /\ row' = row
  <2>1. row[i].state = "revoked"  BY <1>2, <1>3 DEF SessionAtCurrentPasswordVersion, Live
  <2>2. "revoked" \in Reasons  BY DEF Reasons
  <2>3. TypeOK'  BY <1>1, <1>3, <2>2, TerminatingIsTyped, SMTT(30) DEF Inv, TypeOK
  <2> QED  BY <1>1, <1>3, <2>1, <2>2, <2>3, RevokeKeepsInv
<1>4. CASE reason # None /\ RevokeSession(i) /\ lock' = Terminating({i}, reason)
  <2>1. reason \in Reasons /\ (reason = "revoked" => ~Live(i))  BY <1>4 DEF invalidSessionReason, Reasons
  <2>2. reason = "revoked" => row[i].state = "revoked"  BY <1>2, <2>1 DEF Live
  <2> HIDE DEF reason
  <2>3. TypeOK'  BY <1>1, <1>4, <2>1, RevokedRow, TerminatingIsTyped, SMTT(30) DEF Inv, TypeOK
  <2> QED  BY <1>1, <1>4, <2>1, <2>2, <2>3, RevokeKeepsInv, SMTT(30)
<1>5. CASE /\ reason = None
           /\ IF persist THEN TouchSession(i, now, deadline) ELSE UNCHANGED row
           /\ lock' = [op |-> "lease", id |-> i, conn |-> c, created |-> row[i].created, seen |-> seen,
                       expires |-> deadline, persisted |-> persist]
  <2>1. Live(i)  BY <1>5 DEF invalidSessionReason, SessionsAssumption, Reasons
  <2>2. row[i].created \in Nat /\ row[i].seen \in Nat /\ row[i].expires \in Nat /\ now \in Nat  BY SMTT(30) DEF Inv, TypeOK, Rows
  <2>3. /\ deadline \in Nat /\ deadline <= now + IdleTimeout /\ deadline <= row[i].created + AbsoluteLifetime
        /\ row[i].expires <= deadline
    BY <2>2, SMTT(30) DEF NextDeadline, MinTime, SessionsAssumption, Inv, RowsSound
  <2>4. seen \in Nat /\ persist \in BOOLEAN  BY <2>2
  <2> HIDE DEF deadline, seen, persist
  <2>5. /\ lock' \in Leases /\ lock'.op = "lease" /\ lock'.id = i /\ lock'.created = row[i].created
        /\ lock'.conn = c /\ lock'.expires = deadline
    BY <1>5, <2>2, <2>3, <2>4 DEF Leases
  <2>6. /\ row' \in [Ids -> Rows] /\ row'[i].state = row[i].state /\ row'[i].created = row[i].created
        /\ row'[i].version = row[i].version
        /\ row'[i].expires \in {row[i].expires, deadline} /\ \A k \in Ids \ {i} : row'[k] = row[k]
    <3>1. CASE persist  BY <1>5, <2>2, <2>3, <3>1, TouchedRow DEF Inv
    <3>2. CASE ~persist  BY <1>5, <3>2, SMTT(30) DEF Inv, TypeOK
    <3> QED  BY <3>1, <3>2
  <2>7. TypeOK'  BY <1>1, <2>5, <2>6, SMTT(30) DEF Inv, TypeOK
  <2>8. /\ row'[i].expires <= lock'.expires /\ row'[i].expires <= now + IdleTimeout
        /\ row'[i].expires <= row[i].created + AbsoluteLifetime
    BY <2>2, <2>3, <2>5, <2>6 DEF Inv, RowsSound
  <2>9. lock'.conn # None => conn'[lock'.conn] = Closed  BY <1>1, <2>5
  <2>10. row'[i].state = "live"  BY <2>1, <2>6 DEF Live
  <2> QED  BY <1>1, <2>1, <2>5, <2>6, <2>7, <2>8, <2>9, <2>10, LeaseKeepsInv, SMTT(30)
<1> QED  BY <1>3, <1>4, <1>5, SMTT(30) DEF authenticateRequest

(* What the hub makes of an extended lease: the same session, for no shorter time. *)
LEMMA LeasedHub ==
    ASSUME TypeOK, NEW i \in Ids, NEW seen \in Nat, NEW expires \in Nat,
           TouchPersisted(i, seen, expires) \/ TouchLease(i, expires)
    PROVE  /\ hub' \in [Ids -> Tracks]
           /\ \A k \in Ids : hub'[k].subs = hub[k].subs /\ hub'[k].absolute = hub[k].absolute
           /\ \A k \in Ids \ {i} : hub'[k] = hub[k]
           /\ hub'[i].idle >= hub[i].idle
           /\ hub[i].subs # {} => hub'[i].idle >= MinTime(expires, hub[i].absolute)
<1>1. hub[i] \in Tracks  BY DEF TypeOK
<1>2. CASE hub[i].subs = {}
  <2>1. hub' = hub  BY <1>2, SMTT(30) DEF TouchPersisted, TouchLease
  <2> QED  BY <1>1, <1>2, <2>1 DEF TypeOK, Tracks
<1>3. CASE hub[i].subs # {}
  <2> DEFINE idle == MaxOf(hub[i].idle, MinTime(expires, hub[i].absolute))
  <2>1. idle \in Nat /\ idle >= hub[i].idle /\ idle >= MinTime(expires, hub[i].absolute)
    BY <1>1, SMTT(30) DEF Tracks, MaxOf, MinTime
  <2>2. PICK persisted \in Nat : hub' = [hub EXCEPT ![i] = [hub[i] EXCEPT !.idle = idle, !.persisted = persisted]]
    <3>1. MaxOf(hub[i].persisted, seen) \in Nat /\ hub[i].persisted \in Nat  BY <1>1 DEF Tracks, MaxOf
    <3>2. CASE TouchPersisted(i, seen, expires)
      <4>1. hub' = [hub EXCEPT ![i] = [hub[i] EXCEPT !.idle = idle, !.persisted = MaxOf(hub[i].persisted, seen)]]
        BY <1>1, <1>3, <3>2, Zenon DEF TouchPersisted, TypeOK, Tracks
      <4> QED  BY <3>1, <4>1
    <3>3. CASE TouchLease(i, expires)
      <4>1. hub' = [hub EXCEPT ![i] = [hub[i] EXCEPT !.idle = idle]]  BY <1>3, <3>3 DEF TouchLease
      <4>2. [hub[i] EXCEPT !.idle = idle] = [hub[i] EXCEPT !.idle = idle, !.persisted = hub[i].persisted]  BY <1>1, Zenon DEF Tracks
      <4> QED  BY <3>1, <4>1, <4>2
    <3> QED  BY <3>2, <3>3, Zenon
  <2> HIDE DEF idle
  <2> DEFINE leased == [hub[i] EXCEPT !.idle = idle, !.persisted = persisted]
  <2>3. leased \in Tracks /\ leased.subs = hub[i].subs /\ leased.absolute = hub[i].absolute /\ leased.idle = idle
    BY <1>1, <2>1, ZenonT(30) DEF Tracks
  <2> HIDE DEF leased
  <2>4. hub' \in [Ids -> Tracks] /\ hub'[i] = leased /\ \A k \in Ids \ {i} : hub'[k] = hub[k]
    BY <2>2, <2>3 DEF TypeOK, leased
  <2> QED  BY <1>3, <2>1, <2>3, <2>4, SMTT(30)
<1> QED  BY <1>2, <1>3

(* The lease in memory is extended to cover the row. *)
LEMMA ApplyLeaseKeepsInv == ASSUME SessionsAssumption, Inv, ApplyLease PROVE Inv'
<1> DEFINE i == lock.id
<1>1. /\ lock.op = "lease"
      /\ TouchPersisted(i, lock.seen, lock.expires) \/ TouchLease(i, lock.expires)
      /\ lock' = IF lock.conn = None THEN Free ELSE [lock EXCEPT !.op = "subscribe"]
      /\ UNCHANGED <<now, version, row, closing, conn, login, change, expiring, errors>>
  BY DEF ApplyLease
<1>2. lock \in Leases /\ i \in Ids /\ lock.seen \in Nat /\ lock.expires \in Nat  BY <1>1, LockIsOne DEF Inv, Leases
<1>3. Live(i) /\ lock.created = row[i].created /\ lock.expires >= row[i].expires /\ (lock.conn # None => conn[lock.conn] = Closed)
  BY <1>1 DEF Inv, LockSound
<1>4. /\ hub' \in [Ids -> Tracks]
      /\ \A k \in Ids : hub'[k].subs = hub[k].subs /\ hub'[k].absolute = hub[k].absolute
      /\ \A k \in Ids \ {i} : hub'[k] = hub[k]
      /\ hub[i].subs # {} => hub'[i].idle >= MinTime(lock.expires, hub[i].absolute)
  BY <1>1, <1>2, LeasedHub DEF Inv
<1>5. \/ lock' = Free /\ lock'.op = "free"
      \/ /\ lock' \in Leases /\ lock'.op = "subscribe" /\ lock'.id = i /\ lock'.created = lock.created
         /\ lock'.expires = lock.expires /\ lock'.conn = lock.conn /\ lock.conn # None
  <2>1. CASE lock.conn = None  BY <1>1, <2>1, NothingIsTyped
  <2>2. CASE lock.conn # None  BY <1>1, <1>2, <2>2 DEF Leases
  <2> QED  BY <2>1, <2>2
<1> HIDE DEF i
<1>6. TypeOK'  BY <1>1, <1>4, <1>5 DEF Inv, TypeOK
<1>7. RowsSound'  BY <1>1 DEF Inv, RowsSound, Live
<1>8. HubSound'
  <2> SUFFICES ASSUME NEW k \in Ids, hub[k].subs # {}
               PROVE  /\ row[k].state # "none"
                      /\ hub'[k].absolute = row[k].created + AbsoluteLifetime
                      /\ Live(k)
                      /\ hub'[k].idle >= row[k].expires
                      /\ \A c \in hub[k].subs : conn[c].session = k /\ conn[c].phase # "closed"
    BY <1>1, <1>4 DEF HubSound, Live
  <2>1. Live(k) /\ row[k].state # "none" /\ hub[k].absolute = row[k].created + AbsoluteLifetime
        /\ \A c \in hub[k].subs : conn[c].session = k /\ conn[c].phase # "closed"
    BY <1>1 DEF Inv, HubSound
  <2>2. hub'[k].idle >= row[k].expires
    <3>1. CASE k = i
      <4>1. row[i].expires <= hub[i].absolute /\ row[i].expires \in Nat /\ hub[i].absolute \in Nat /\ hub'[i].idle \in Nat
        BY <1>2, <1>4, <2>1, <3>1 DEF Inv, RowsSound, TypeOK, Rows, Tracks
      <4>2. MinTime(lock.expires, hub[i].absolute) >= row[i].expires /\ MinTime(lock.expires, hub[i].absolute) \in Nat
        BY <1>2, <1>3, <4>1 DEF MinTime
      <4> QED  BY <1>4, <3>1, <4>1, <4>2
    <3>2. CASE k # i  BY <1>1, <1>4, <3>2 DEF Inv, HubSound, i
    <3> QED  BY <3>1, <3>2
  <2> QED  BY <1>4, <2>1, <2>2
<1>9. LockSound'  BY <1>1, <1>3, <1>5 DEF LockSound, Live
<1>10. ConnsSound'  BY <1>1 DEF Inv, ConnsSound
<1> QED  BY <1>6, <1>7, <1>8, <1>9, <1>10 DEF Inv

(* An upgrade subscribes to a session that is live, with a lease that covers its row. *)
LEMMA SubscribeKeepsInv == ASSUME SessionsAssumption, Inv, AuthenticateWebSocket PROVE Inv'
<1> DEFINE i == lock.id
           c == lock.conn
           told == IF closing THEN None
                   ELSE expirationReason([absolute |-> lock.created + AbsoluteLifetime, idle |-> lock.expires])
           socket == [session |-> i, phase |-> "open", touch |-> NoTouch, told |-> told]
<1>1. /\ lock.op = "subscribe" /\ Subscribe(c, lock) /\ conn' = [conn EXCEPT ![c] = socket] /\ lock' = Free
      /\ UNCHANGED <<now, version, row, closing, login, change, expiring, errors>>
  BY DEF AuthenticateWebSocket
<1>2. /\ i \in Ids /\ c \in Conns /\ conn[c] = Closed /\ Live(i) /\ lock.created = row[i].created
      /\ lock.created \in Nat /\ lock.seen \in Nat /\ lock.expires \in Nat /\ lock.expires >= row[i].expires
  BY <1>1, LockIsOne DEF Inv, LockSound, Leases
<1>3. told \in Reasons \cup {None} /\ told # "revoked"
  BY ExpirationIsNoRevocation DEF SessionsAssumption, Reasons
<1> HIDE DEF told
<1>4. socket \in Sockets /\ socket.session = i /\ socket.phase = "open" /\ socket.told # "revoked"
  BY <1>2, <1>3, NothingIsTyped DEF Sockets, Phases
<1> HIDE DEF socket
<1>5. conn' \in [Conns -> Sockets] /\ conn'[c] = socket /\ \A d \in Conns \ {c} : conn'[d] = conn[d]
  BY <1>1, <1>2, <1>4, SMTT(30) DEF Inv, TypeOK
<1>6. \A k \in Ids : c \notin hub[k].subs  BY <1>2, NothingIsTyped DEF Inv, HubSound
<1>7. /\ hub' \in [Ids -> Tracks] /\ \A k \in Ids \ {i} : hub'[k] = hub[k]
      /\ \/ hub'[i] = hub[i]
         \/ /\ hub'[i].subs = hub[i].subs \cup {c}
            /\ hub'[i].absolute = row[i].created + AbsoluteLifetime
            /\ hub'[i].idle >= row[i].expires
  <2> DEFINE absolute == lock.created + AbsoluteLifetime
             idle == MinTime(lock.expires, absolute)
             old == hub[i]
             lease == IF old.subs = {} THEN idle ELSE MaxOf(idle, old.idle)
             lifetime == IF old.subs = {} THEN absolute ELSE old.absolute
             persisted == MaxOf(lock.seen, old.persisted)
             track == [subs |-> old.subs \cup {c}, idle |-> lease, absolute |-> lifetime, persisted |-> persisted]
  <2>1. old \in Tracks /\ row[i] \in Rows  BY <1>2 DEF Inv, TypeOK
  <2>2. absolute \in Nat /\ absolute = row[i].created + AbsoluteLifetime /\ row[i].expires <= absolute /\ row[i].expires \in Nat
    BY <1>2, <2>1, SMTT(30) DEF SessionsAssumption, Inv, RowsSound, Rows
  <2>3. idle \in Nat /\ idle >= row[i].expires  BY <1>2, <2>2 DEF MinTime
  <2>4. lease \in Nat /\ lease >= row[i].expires  BY <2>1, <2>2, <2>3, SMTT(30) DEF MaxOf, Tracks
  <2>5. lifetime \in Nat /\ lifetime = row[i].created + AbsoluteLifetime  BY <1>2, <2>1, <2>2 DEF Inv, HubSound, Tracks
  <2>6. persisted \in Nat  BY <1>2, <2>1 DEF MaxOf, Tracks
  <2>7. hub' = hub \/ hub' = [hub EXCEPT ![i] = track]  BY <1>1 DEF Subscribe
  <2> HIDE DEF lease, lifetime, persisted, absolute, idle
  <2>8. track \in Tracks /\ track.subs = hub[i].subs \cup {c} /\ track.idle = lease /\ track.absolute = lifetime
    BY <1>2, <2>1, <2>4, <2>5, <2>6, SMTT(30) DEF Tracks
  <2> HIDE DEF track, old
  <2>9. hub' \in [Ids -> Tracks] /\ (\A k \in Ids \ {i} : hub'[k] = hub[k]) /\ hub'[i] \in {hub[i], track}
    BY <1>2, <2>7, <2>8, SMTT(30) DEF Inv, TypeOK
  <2> QED  BY <2>4, <2>5, <2>8, <2>9
<1>8. lock.op # "free" /\ lock'.op = "free"  BY <1>1, NothingIsTyped
<1> HIDE DEF i, c
<1>9. TypeOK'  BY <1>1, <1>5, <1>7 DEF Inv, TypeOK
<1>10. RowsSound'  BY <1>1 DEF Inv, RowsSound, Live
<1>11. HubSound'
  <2> SUFFICES ASSUME NEW k \in Ids, hub'[k].subs # {}
               PROVE  /\ row[k].state # "none"
                      /\ hub'[k].absolute = row[k].created + AbsoluteLifetime
                      /\ Live(k)
                      /\ hub'[k].idle >= row[k].expires
                      /\ \A d \in hub'[k].subs : conn'[d].session = k /\ conn'[d].phase # "closed"
    BY <1>1 DEF HubSound, Live
  <2>1. hub'[k].subs \subseteq Conns  BY <1>7 DEF Tracks
  <2>2. CASE hub'[k] = hub[k]  BY <1>1, <1>5, <1>6, <2>1, <2>2, SMTT(30) DEF Inv, HubSound
  <2>3. CASE hub'[k] # hub[k]
    <3>1. k = i /\ hub'[i].subs = hub[i].subs \cup {c}  BY <1>7, <2>3
    <3>2. \A d \in hub[i].subs : d # c /\ conn[d].session = i /\ conn[d].phase # "closed"
      BY <1>2, <1>6 DEF Inv, HubSound
    <3>3. \A d \in hub'[i].subs : conn'[d].session = i /\ conn'[d].phase # "closed"
      BY <1>4, <1>5, <2>1, <3>1, <3>2
    <3> QED  BY <1>2, <1>7, <2>3, <3>1, <3>3, SMTT(30) DEF Live
  <2> QED  BY <2>2, <2>3
<1>12. LockSound'  BY <1>8, SMTT(30) DEF LockSound
<1>13. ConnsSound'
  <2>1. conn'[c].phase = "open" /\ conn'[c].session = i /\ conn'[c].told # "revoked" /\ row[i].state # "none"
    BY <1>2, <1>4, <1>5 DEF Live
  <2> QED  BY <1>1, <1>2, <1>5, <2>1 DEF Inv, ConnsSound
<1> QED  BY <1>9, <1>10, <1>11, <1>12, <1>13 DEF Inv

(* A connection whose phase moves on is the same connection. *)
LEMMA MovedOn ==
    ASSUME TypeOK, NEW c \in Conns, NEW phase \in Phases, conn' = [conn EXCEPT ![c].phase = phase]
    PROVE  /\ conn' \in [Conns -> Sockets]
           /\ conn'[c].session = conn[c].session /\ conn'[c].told = conn[c].told
           /\ conn'[c].touch = conn[c].touch /\ conn'[c].phase = phase
           /\ \A d \in Conns \ {c} : conn'[d] = conn[d]
<1> DEFINE moved == [conn[c] EXCEPT !.phase = phase]
<1>1. conn[c] \in Sockets  BY DEF TypeOK
<1>2. /\ moved \in Sockets /\ moved.session = conn[c].session /\ moved.told = conn[c].told
      /\ moved.touch = conn[c].touch /\ moved.phase = phase
  BY <1>1 DEF Sockets
<1>3. conn' = [conn EXCEPT ![c] = moved]  OBVIOUS
<1> HIDE DEF moved
<1> QED  BY <1>2, <1>3 DEF TypeOK

(* A connection that has nothing to touch leaves. *)
LEMMA LeaveKeepsInv ==
    ASSUME SessionsAssumption, Inv, NEW c \in Conns, conn[c].phase # "closed",
           conn' = [conn EXCEPT ![c].phase = "leaving"], TypeOK', UNCHANGED <<now, version, row, hub, lock, login>>
    PROVE  Inv'
<1>1. /\ conn'[c].session = conn[c].session /\ conn'[c].told = conn[c].told /\ conn'[c].phase = "leaving"
      /\ \A d \in Conns \ {c} : conn'[d] = conn[d]
  BY MovedOn, ZenonT(30) DEF Inv, Phases
<1>2. RowsSound'  BY DEF Inv, RowsSound, Live
<1>3. HubSound'
  <2>1. \A i \in Ids : hub[i].subs \subseteq Conns  BY DEF Inv, TypeOK, Tracks
  <2>2. \A d \in Conns : conn'[d].session = conn[d].session /\ (conn[d].phase # "closed" => conn'[d].phase # "closed")
    BY <1>1
  <2> QED  BY <2>1, <2>2 DEF Inv, HubSound, Live
<1>4. LockSound'
  <2>1. lock.op \in {"lease", "subscribe"} /\ lock.conn # None => lock.conn \in Conns /\ lock.conn # c
    BY LockIsOne, NothingIsTyped DEF Inv, LockSound, Leases
  <2> QED  BY <1>1, <2>1 DEF Inv, LockSound, Live
<1>5. ConnsSound'  BY <1>1 DEF Inv, ConnsSound
<1> QED  BY <1>2, <1>3, <1>4, <1>5 DEF Inv

(* A frame finds its session gone, expired, or live and then extends its lease. *)
LEMMA TouchKeepsInv == ASSUME SessionsAssumption, Inv, NEW c \in Conns, Touch(c) PROVE Inv'
<1> DEFINE i == conn[c].session
           t == hub[i]
           idle == NextDeadline(t.absolute)
           reason == expirationReason(t)
<1>1. conn[c].phase = "open" /\ UNCHANGED <<now, version, row, closing, lock, login, change, errors>>  BY Zenon DEF Touch
<1>2. i \in Ids /\ row[i].state # "none"  BY <1>1 DEF Inv, ConnsSound
<1>3. t \in Tracks /\ row[i] \in Rows /\ now \in Nat  BY <1>2 DEF Inv, TypeOK
<1>4. CASE conn' = [conn EXCEPT ![c].phase = "leaving"] /\ hub' = hub /\ expiring' = expiring
  <2>1. TypeOK'  BY <1>1, <1>4, MovedOn, Zenon DEF Inv, TypeOK, Phases
  <2> QED  BY <1>1, <1>4, <2>1, LeaveKeepsInv, Zenon
<1>5. CASE /\ reason # None
           /\ hub' = [hub EXCEPT ![i] = Untracked]
           /\ conn' = [d \in Conns |-> IF d \in t.subs THEN [conn[d] EXCEPT !.told = reason, !.phase = IF d = c THEN "leaving" ELSE @]
                                       ELSE conn[d]]
           /\ expiring' = expiring \cup {<<i, reason>>}
  <2>1. reason \in {"absolute_expired", "idle_expired"} /\ reason \in Reasons  BY <1>5, ExpirationIsNoRevocation, Zenon
  <2> HIDE DEF reason
  <2>2. \A d \in Conns : LET n == [conn[d] EXCEPT !.told = reason, !.phase = IF d = c THEN "leaving" ELSE @] IN
          /\ n \in Sockets /\ n.session = conn[d].session /\ n.told = reason /\ n.touch = conn[d].touch
          /\ n.phase = IF d = c THEN "leaving" ELSE conn[d].phase
    BY <2>1, ZenonT(30) DEF Inv, TypeOK, Sockets, Phases
  <2>3. conn' \in [Conns -> Sockets]  BY <1>5, <2>2, Zenon DEF Inv, TypeOK
  <2>4. \A d \in Conns : conn'[d] = IF d \in t.subs THEN [conn[d] EXCEPT !.told = reason, !.phase = IF d = c THEN "leaving" ELSE @]
                                    ELSE conn[d]
    BY <1>5, Zenon
  <2>5. \A d \in Conns : /\ conn'[d].session = conn[d].session /\ conn'[d].touch = conn[d].touch
                         /\ conn[d].phase # "closed" => conn'[d].phase # "closed"
                         /\ conn'[d].phase = "touched" => conn[d].phase = "touched"
                         /\ conn'[d].phase # "closed" => conn[d].phase # "closed"
                         /\ conn'[d].told = "revoked" => conn[d].told = "revoked"
                         /\ d \notin t.subs => conn'[d] = conn[d]
    <3> TAKE d \in Conns
    <3> HIDE DEF t
    <3>1. CASE d \notin t.subs  BY <2>4, <3>1, Zenon
    <3>2. CASE d \in t.subs
      <4> DEFINE n == [conn[d] EXCEPT !.told = reason, !.phase = IF d = c THEN "leaving" ELSE @]
      <4>1. conn'[d] = n  BY <2>4, <3>2, ZenonT(30)
      <4>2. n.session = conn[d].session /\ n.told = reason /\ n.touch = conn[d].touch /\ n.phase = IF d = c THEN "leaving" ELSE conn[d].phase
        BY <2>2, ZenonT(30)
      <4> HIDE DEF n
      <4> QED  BY <1>1, <2>1, <3>2, <4>1, <4>2, SMTT(30)
    <3> QED  BY <3>1, <3>2, SMTT(30)
  <2>6. hub' \in [Ids -> Tracks] /\ hub'[i] = Untracked /\ \A k \in Ids \ {i} : hub'[k] = hub[k]
    BY <1>2, <1>5, NothingIsTyped, Zenon DEF Inv, TypeOK
  <2>7. TypeOK'
    <3>1. <<i, reason>> \in Ids \X {"absolute_expired", "idle_expired"}  BY <1>2, <2>1, SMTT(30)
    <3>2. expiring' = expiring \cup {<<i, reason>>}  BY <1>5, Zenon
    <3> HIDE DEF i
    <3>3. expiring' \subseteq Ids \X {"absolute_expired", "idle_expired"}  BY <3>1, <3>2, SMTT(30) DEF Inv, TypeOK
    <3> QED  BY <1>1, <2>3, <2>6, <3>3 DEF Inv, TypeOK
  <2>8. RowsSound'  BY <1>1, SMTT(30) DEF Inv, RowsSound, Live
  <2>9. HubSound'
    <3>1. \A k \in Ids : hub[k].subs \subseteq Conns  BY DEF Inv, TypeOK, Tracks
    <3>2. hub'[i].subs = {}  BY <2>6, NothingIsTyped, SMTT(30)
    <3> HIDE DEF i, t
    <3> QED  BY <1>1, <2>5, <2>6, <3>1, <3>2, SMTT(30) DEF Inv, HubSound, Live
  <2>10. LockSound'
    <3>1. ASSUME lock.op \in {"lease", "subscribe"}, lock.conn # None PROVE conn'[lock.conn] = Closed
      <4>1. lock.conn \in Conns /\ conn[lock.conn] = Closed  BY <3>1, LockIsOne, SMTT(30) DEF Inv, LockSound, Leases
      <4>2. lock.conn \notin t.subs  BY <1>2, <4>1, NothingIsTyped, SMTT(30) DEF Inv, HubSound
      <4> QED  BY <2>5, <4>1, <4>2
    <3> QED  BY <1>1, <3>1, SMTT(30) DEF Inv, LockSound, Live
  <2>11. ConnsSound'  BY <1>1, <2>5, SMTT(30) DEF Inv, ConnsSound
  <2> QED  BY <2>7, <2>8, <2>9, <2>10, <2>11 DEF Inv
<1>6. CASE /\ t.subs # {} /\ expiring' = expiring
           /\ hub' = [hub EXCEPT ![i].idle = idle]
           /\ conn' = IF now - t.persisted < sessionTouchInterval THEN conn
                      ELSE [conn EXCEPT ![c].phase = "touched", ![c].touch = [at |-> now, expires |-> idle, expected |-> t.persisted]]
  <2>1. /\ t.absolute = row[i].created + AbsoluteLifetime /\ t.absolute \in Nat /\ t.persisted \in Nat
        /\ row[i].expires <= now + IdleTimeout /\ row[i].expires <= t.absolute /\ row[i].expires \in Nat
    BY <1>2, <1>3, <1>6, SMTT(30) DEF Inv, HubSound, RowsSound, Tracks, Rows
  <2>2. idle \in Nat /\ idle >= row[i].expires /\ idle <= now + IdleTimeout /\ idle <= t.absolute
    BY <1>3, <2>1 DEF NextDeadline, MinTime, SessionsAssumption
  <2> HIDE DEF idle
  <2> DEFINE track == [t EXCEPT !.idle = idle]
  <2>3. track \in Tracks /\ track.subs = t.subs /\ track.absolute = t.absolute /\ track.idle = idle
    BY <1>3, <2>2 DEF Tracks
  <2>4. hub' = [hub EXCEPT ![i] = track]  BY <1>6
  <2> HIDE DEF track
  <2>5. hub' \in [Ids -> Tracks] /\ hub'[i] = track /\ \A k \in Ids \ {i} : hub'[k] = hub[k]
    BY <1>2, <2>3, <2>4, SMTT(30) DEF Inv, TypeOK
  <2> DEFINE touch == [at |-> now, expires |-> idle, expected |-> t.persisted]
             socket == [conn[c] EXCEPT !.phase = "touched", !.touch = touch]
  <2>6. touch \in Touches /\ touch.expires = idle  BY <1>3, <2>1, <2>2 DEF Touches
  <2>7. conn' = conn \/ conn' = [conn EXCEPT ![c] = socket]  BY <1>6, Zenon DEF Inv, TypeOK, Sockets
  <2> HIDE DEF touch
  <2>8. /\ socket \in Sockets /\ socket.session = i /\ socket.phase = "touched" /\ socket.touch = touch
        /\ socket.told = conn[c].told
    BY <2>6, Zenon DEF Inv, TypeOK, Sockets, Phases
  <2> HIDE DEF socket
  <2>9. conn' \in [Conns -> Sockets] /\ conn'[c] \in {conn[c], socket} /\ \A d \in Conns \ {c} : conn'[d] = conn[d]
    BY <2>7, <2>8 DEF Inv, TypeOK
  <2>10. TypeOK'  BY <1>1, <1>6, <2>5, <2>9 DEF Inv, TypeOK
  <2>11. RowsSound'  BY <1>1 DEF Inv, RowsSound, Live
  <2>12. \A d \in Conns : conn'[d].session = conn[d].session /\ (conn[d].phase # "closed" => conn'[d].phase # "closed")
    BY <2>8, <2>9, SMTT(30)
  <2>13. HubSound'
    <3> SUFFICES ASSUME NEW k \in Ids, hub'[k].subs # {}
                 PROVE  /\ row[k].state # "none"
                        /\ hub'[k].absolute = row[k].created + AbsoluteLifetime
                        /\ Live(k) \/ (lock.op = "terminate" /\ k \in lock.ids)
                        /\ hub'[k].idle >= row[k].expires \/ (lock.op = "lease" /\ lock.id = k)
                        /\ \A d \in hub'[k].subs : conn'[d].session = k /\ conn'[d].phase # "closed"
      BY <1>1, SMTT(30) DEF HubSound, Live
    <3>1. hub'[k].subs \subseteq Conns /\ hub'[k].subs = hub[k].subs /\ hub'[k].absolute = hub[k].absolute
      BY <2>3, <2>5, SMTT(30) DEF Tracks
    <3>2. CASE k = i
      <4>1. hub'[k].idle >= row[k].expires  BY <2>2, <2>3, <2>5, <3>2, SMTT(30)
      <4> QED  BY <2>12, <3>1, <4>1, SMTT(30) DEF Inv, HubSound
    <3>3. CASE k # i
      <4>1. hub'[k] = hub[k]  BY <2>5, <3>3, SMTT(30)
      <4> QED  BY <2>12, <3>1, <4>1 DEF Inv, HubSound
    <3> QED  BY <3>2, <3>3, SMTT(30)
  <2>14. LockSound'
    <3>1. lock.op \in {"lease", "subscribe"} /\ lock.conn # None => lock.conn \in Conns /\ lock.conn # c
      BY <1>1, LockIsOne, NothingIsTyped, SMTT(30) DEF Inv, LockSound, Leases
    <3> QED  BY <1>1, <2>9, <3>1, SMTT(30) DEF Inv, LockSound, Live
  <2>15. ConnsSound'
    <3> SUFFICES ASSUME NEW d \in Conns
                 PROVE  /\ conn'[d].told = "revoked" => conn'[d].session \in Ids /\ row[conn'[d].session].state = "revoked"
                        /\ conn'[d].phase # "closed" => conn'[d].session \in Ids /\ row[conn'[d].session].state # "none"
                        /\ conn'[d].phase = "touched" =>
                            /\ conn'[d].touch.expires <= now + IdleTimeout
                            /\ conn'[d].touch.expires <= row[conn'[d].session].created + AbsoluteLifetime
      BY <1>1, SMTT(30) DEF ConnsSound
    <3>1. CASE conn'[d] = conn[d]  BY <3>1, SMTT(30) DEF Inv, ConnsSound
    <3>2. CASE d = c /\ conn'[d] = socket  BY <1>2, <2>1, <2>2, <2>6, <2>8, <3>2 DEF Inv, ConnsSound
    <3> QED  BY <2>9, <3>1, <3>2, SMTT(30)
  <2> QED  BY <2>10, <2>11, <2>13, <2>14, <2>15 DEF Inv
<1> QED  BY <1>4, <1>5, <1>6, Zenon DEF Touch

(* The throttled write takes the row as its own activity or that of another connection left it,
   or finds it revoked or expired. *)
LEMMA TouchActivityKeepsInv == ASSUME SessionsAssumption, Inv, NEW c \in Conns, TouchSessionActivity(c) PROVE Inv'
<1> DEFINE i == conn[c].session
           touch == conn[c].touch
           leased(seen, expires) == [op |-> "lease", id |-> i, conn |-> None, created |-> row[i].created,
                                     seen |-> seen, expires |-> expires, persisted |-> TRUE]
           reason == IF SessionAtCurrentPasswordVersion(i) THEN invalidSessionReason(i) ELSE "revoked"
<1>1. conn[c].phase = "touched" /\ lock = Free /\ UNCHANGED <<now, version, hub, closing, login, change, expiring>>
  BY SMTT(30) DEF TouchSessionActivity
<1>2. /\ i \in Ids /\ row[i].state \in {"live", "revoked"}
      /\ touch.expires <= now + IdleTimeout /\ touch.expires <= row[i].created + AbsoluteLifetime
  BY <1>1 DEF Inv, ConnsSound, TypeOK, Rows
<1>3. touch.at \in Nat /\ touch.expires \in Nat  BY SMTT(30) DEF Inv, TypeOK, Sockets, Touches
<1>4. row[i].created \in Nat /\ row[i].seen \in Nat /\ row[i].expires \in Nat  BY <1>2, SMTT(30) DEF Inv, TypeOK, Rows
<1>5. ASSUME NEW seen \in Nat, NEW expires \in Nat
      PROVE  /\ leased(seen, expires) \in Leases /\ leased(seen, expires).op = "lease" /\ leased(seen, expires).id = i
             /\ leased(seen, expires).created = row[i].created /\ leased(seen, expires).conn = None
             /\ leased(seen, expires).expires = expires
  BY <1>2, <1>4 DEF Leases
<1>6. ASSUME NEW phase \in {"open", "leaving"}, conn' = [conn EXCEPT ![c].phase = phase]
      PROVE  /\ conn' \in [Conns -> Sockets]
             /\ \A d \in Conns : /\ conn'[d].session = conn[d].session /\ conn'[d].told = conn[d].told
                                 /\ conn'[d].touch = conn[d].touch
                                 /\ conn'[d].phase # "closed" <=> conn[d].phase # "closed"
                                 /\ conn'[d].phase = "touched" => conn[d].phase = "touched"
  BY <1>1, <1>6, MovedOn, Zenon DEF Inv, Phases
<1>7. CASE /\ TouchSessionGuard(i, touch.expected)
           /\ TouchSession(i, touch.at, touch.expires)
           /\ lock' = leased(touch.at, touch.expires)
           /\ conn' = [conn EXCEPT ![c].phase = "open"] /\ UNCHANGED errors
  <2>1. Live(i)  BY <1>7 DEF TouchSessionGuard
  <2>2. /\ row' \in [Ids -> Rows] /\ row'[i].expires = touch.expires /\ row'[i].created = row[i].created
        /\ row'[i].state = row[i].state /\ row'[i].version = row[i].version /\ \A k \in Ids \ {i} : row'[k] = row[k]
    BY <1>2, <1>3, <1>7, TouchedRow DEF Inv
  <2>3. lock' \in Leases /\ lock'.op = "lease" /\ lock'.id = i /\ lock'.created = row[i].created /\ lock'.conn = None /\ lock'.expires = touch.expires
    BY <1>3, <1>5, <1>7
  <2>4. TypeOK'  BY <1>1, <1>6, <1>7, <2>2, <2>3, SMTT(30) DEF Inv, TypeOK
  <2>5. row'[i].state = "live" /\ row'[i].expires <= lock'.expires  BY <1>3, <2>1, <2>2, <2>3 DEF Live
  <2> QED  BY <1>1, <1>2, <1>6, <1>7, <2>1, <2>2, <2>3, <2>4, <2>5, LeaseKeepsInv, Zenon
<1>8. CASE /\ reason = None /\ lock' = leased(row[i].seen, row[i].expires)
           /\ conn' = [conn EXCEPT ![c].phase = "open"] /\ UNCHANGED <<row, errors>>
  <2>1. Live(i)  BY <1>8 DEF invalidSessionReason, SessionsAssumption, Reasons
  <2>2. lock' \in Leases /\ lock'.op = "lease" /\ lock'.id = i /\ lock'.created = row[i].created /\ lock'.conn = None /\ lock'.expires = row[i].expires
    BY <1>4, <1>5, <1>8
  <2>3. TypeOK'  BY <1>1, <1>6, <1>8, <2>2 DEF Inv, TypeOK
  <2>4. /\ row'[i].state = "live" /\ row'[i].expires <= lock'.expires /\ row'[i].expires <= now + IdleTimeout
        /\ row'[i].expires <= row[i].created + AbsoluteLifetime
    BY <1>2, <1>4, <1>8, <2>1, <2>2 DEF Live, Inv, RowsSound
  <2>5. row' = row  BY <1>8
  <2> HIDE DEF i, leased, reason
  <2> QED  BY <1>1, <1>2, <1>6, <1>8, <2>1, <2>2, <2>3, <2>4, <2>5, LeaseKeepsInv
<1>9. CASE /\ reason # None /\ lock' = Terminating({i}, reason)
           /\ conn' = [conn EXCEPT ![c].phase = "leaving"] /\ UNCHANGED <<row, errors>>
  <2>1. reason \in Reasons  BY <1>9 DEF invalidSessionReason, Reasons
  <2>2. reason = "revoked" => ~Live(i)
    <3>1. CASE SessionAtCurrentPasswordVersion(i)  BY <1>9, <3>1, SMTT(30) DEF invalidSessionReason
    <3>2. CASE ~SessionAtCurrentPasswordVersion(i)  BY <1>2, <3>2 DEF SessionAtCurrentPasswordVersion, Inv, RowsSound, Live
    <3> QED  BY <3>1, <3>2
  <2> HIDE DEF reason
  <2>3. reason = "revoked" => row[i].state = "revoked"  BY <1>2, <2>2 DEF Live
  <2>4. TypeOK'  BY <1>1, <1>2, <1>6, <1>9, <2>1, TerminatingIsTyped DEF Inv, TypeOK
  <2> HIDE DEF i
  <2> QED  BY <1>1, <1>2, <1>6, <1>9, <2>1, <2>3, <2>4, RevokeKeepsInv
<1>10. CASE errors' = errors + 1 /\ conn' = [conn EXCEPT ![c].phase = "leaving"] /\ UNCHANGED <<row, lock>>
  <2>1. TypeOK'  BY <1>1, <1>6, <1>10 DEF Inv, TypeOK
  <2> QED  BY <1>1, <1>10, <2>1, LeaveKeepsInv, Zenon
<1> QED  BY <1>7, <1>8, <1>9, <1>10 DEF TouchSessionActivity
-----------------------------------------------------------------------------
(* Every operation, frame and timer keeps the invariant. *)
LEMMA InvNext == ASSUME SessionsAssumption, Inv, [Next]_vars PROVE Inv'
<1>1. CASE Next
  BY <1>1, TickKeepsInv, VerifyKeepsInv, UpdatePasswordKeepsInv, TerminateSessionKeepsInv, ApplyLeaseKeepsInv, SubscribeKeepsInv,
     ShutdownKeepsInv, CreateKeepsInv, LogoutKeepsInv, ExpireKeepsInv, ExpireSessionKeepsInv, AuthenticateKeepsInv, TouchKeepsInv,
     TouchActivityKeepsInv, UnsubscribeKeepsInv, SMTT(30) DEF Next, Locked
<1>2. CASE UNCHANGED vars
  BY <1>2 DEF vars, Inv, TypeOK, RowsSound, HubSound, LockSound, ConnsSound, Live
<1> QED  BY <1>1, <1>2

(* For any number of sessions and connections, any timeouts and any clock: only sessions of the
   current password live; whenever sessionTransitionMu is free the hub lets through only what the
   table has not revoked, and ends nothing before the table would; a connection that is told
   "revoked" belongs to a session that is. *)
THEOREM SessionsSound ==
    ASSUME SessionsAssumption
    PROVE  Spec => []SessionsAreSound
<1>1. Init => Inv  BY InvInit
<1>2. Inv /\ [Next]_vars => Inv'  BY InvNext
<1>3. Inv => SessionsAreSound
  <2> SUFFICES ASSUME Inv PROVE SessionsAreSound  OBVIOUS
  <2>1. LiveAtCurrentVersion  BY SMTT(30) DEF Inv, RowsSound, LiveAtCurrentVersion
  <2>2. TrackedIsLive /\ LeaseCoversRow  BY NothingIsTyped, Zenon DEF Inv, HubSound, TrackedIsLive, LeaseCoversRow
  <2>3. RevokedIsRevoked  BY DEF Inv, ConnsSound, RevokedIsRevoked, Live
  <2> QED  BY <2>1, <2>2, <2>3 DEF SessionsAreSound
<1> QED  BY <1>1, <1>2, <1>3, PTL DEF Spec
=============================================================================
