-------------------------- MODULE TerminalsProofs --------------------------
(***************************************************************************)
(* Slots, exits and timers of the terminal service for any number of       *)
(* terminals, attachments, connections and owners.  A slot is explained by *)
(* who is opening the terminal; an exit is heard because an attachment is  *)
(* the stream of one connection only.                                      *)
(***************************************************************************)
EXTENDS Terminals, FiniteSetTheorems, TLAPS

Sessions == [owner : Owners \cup {None}, reserved : BOOLEAN, listed : BOOLEAN, current : Atts \cup {None},
             grace : BOOLEAN, ending : {"no", "told", "hungup", "done"},
             process : {"none", "running", "signalled", "dead"},
             waiter : {"none", "waiting", "skipped", "reaped", "failed"}]
Channels == [term : Terms \cup {None}, out : Nat, exited : BOOLEAN, closed : BOOLEAN, used : BOOLEAN]
Busy == {"open", "reserved", "started", "listed", "attach", "found"}
Sockets == [owner : Owners \cup {None}, phase : Busy \cup {"gone", "idle"}, term : Terms \cup {None},
            stream : Atts \cup {None}, told : BOOLEAN]

TypeOK ==
    /\ term \in [Terms -> Sessions] /\ att \in [Atts -> Channels] /\ conn \in [Conns -> Sockets]
    /\ revoked \subseteq Owners /\ sweep \subseteq Terms

(* Who handles a frame has an owner and a terminal, which is untouched before its slot is taken and
   not listed before it has started. *)
FramesSound ==
    \A c \in Conns : LET t == conn[c].term IN
        /\ conn[c].phase # "gone" => conn[c].owner \in Owners
        /\ conn[c].phase \in Busy => t \in Terms
        /\ conn[c].phase = "open" => term[t] = Unused
        /\ conn[c].phase \in {"reserved", "started"} =>
            term[t].reserved /\ ~term[t].listed /\ term[t].ending = "no"
        /\ conn[c].phase \in {"reserved", "started", "listed", "found"} => term[t].owner \in Owners

(* A terminal is opened by one connection. *)
Openers == {"open", "reserved", "started"}
OneOpener ==
    \A c, d \in Conns :
        conn[c].phase \in Openers /\ conn[d].phase \in Openers /\ conn[c].term = conn[d].term => c = d

SlotsExplained ==
    \A t \in Terms :
        term[t].reserved <=>
            \/ term[t].listed
            \/ \E c \in Conns : conn[c].phase \in {"reserved", "started"} /\ conn[c].term = t

(* A reservation adds one slot below the limit, so the slots of an owner stay finitely many. *)
Limited == \A o \in Owners : IsFiniteSet(Owned(o)) /\ Cardinality(Owned(o)) <= MaxSessionsPerOwner

(* An attachment is made once, and is the stream of one connection. *)
StreamsApart ==
    /\ \A t \in Terms : term[t].current # None => att[term[t].current].used
    /\ \A c \in Conns : conn[c].stream # None => att[conn[c].stream].used /\ att[conn[c].stream].term \in Terms
    /\ \A c, d \in Conns : conn[c].stream # None /\ conn[c].stream = conn[d].stream => c = d

Inv ==
    /\ TypeOK /\ FramesSound /\ OneOpener /\ SlotsExplained /\ Limited
    /\ StreamsApart /\ StreamHearsExit /\ UnattachedHasTimer
-----------------------------------------------------------------------------
(* What nothing looks like has its type. *)
LEMMA NothingIsTyped ==
    ASSUME TerminalsAssumption
    PROVE  Unused \in Sessions /\ NoAtt \in Channels /\ Gone \in Sockets
BY DEF Unused, Sessions, NoAtt, Channels, Gone, Sockets, Busy

(* Slots that are given back keep the limit of every owner. *)
LEMMA FewerSlotsAreLimited ==
    ASSUME TerminalsAssumption, Limited, \A o \in Owners : Owned(o)' \subseteq Owned(o)
    PROVE  Limited'
<1> SUFFICES ASSUME NEW o \in Owners
             PROVE  IsFiniteSet(Owned(o)') /\ Cardinality(Owned(o)') <= MaxSessionsPerOwner
  BY DEF Limited
<1>1. IsFiniteSet(Owned(o)) /\ Cardinality(Owned(o)) <= MaxSessionsPerOwner  BY DEF Limited
<1>2. IsFiniteSet(Owned(o)') /\ Cardinality(Owned(o)') <= Cardinality(Owned(o))  BY <1>1, FS_Subset
<1>3. Cardinality(Owned(o)) \in Nat /\ Cardinality(Owned(o)') \in Nat  BY <1>1, <1>2, FS_CardinalityType
<1> QED  BY <1>1, <1>2, <1>3 DEF TerminalsAssumption

(* A step that takes and gives back no slot... *)
SameSlots ==
    \A t \in Terms :
        /\ term'[t].owner = term[t].owner /\ term'[t].reserved = term[t].reserved
        /\ term'[t].listed = term[t].listed
        /\ term'[t].ending = term[t].ending \/ term[t].listed \/ term[t].ending # "no"
        /\ term[t] = Unused => term'[t] = Unused
(* ...while a connection goes on with its frame or is done with it, unless it holds a slot... *)
FramesGoOn ==
    \A c \in Conns :
        \/ /\ conn'[c].phase = conn[c].phase /\ conn'[c].term = conn[c].term
           /\ conn'[c].owner = conn[c].owner
        \/ /\ conn[c].phase \notin {"reserved", "started"}
           /\ \/ conn'[c].phase = "gone"
              \/ conn'[c].phase = "idle" /\ conn[c].phase # "gone" /\ conn'[c].owner = conn[c].owner

(* ...keeps what is known about slots and frames: output, exits, attaching and detaching. *)
LEMMA SlotsUndisturbed ==
    ASSUME TerminalsAssumption, Inv, SameSlots, FramesGoOn
    PROVE  FramesSound' /\ OneOpener' /\ SlotsExplained' /\ Limited'
<1> USE DEF Inv
<1>1. FramesSound'  BY DEF FramesSound, SameSlots, FramesGoOn, Busy
<1>2. OneOpener'  BY DEF OneOpener, FramesGoOn, Openers
<1>3. SlotsExplained'
  <2> SUFFICES ASSUME NEW t \in Terms
               PROVE  term'[t].reserved <=>
                        \/ term'[t].listed
                        \/ \E c \in Conns : conn'[c].phase \in {"reserved", "started"} /\ conn'[c].term = t
    BY DEF SlotsExplained
  <2>1. \A c \in Conns : (conn'[c].phase \in {"reserved", "started"} /\ conn'[c].term = t)
                           <=> (conn[c].phase \in {"reserved", "started"} /\ conn[c].term = t)
    BY DEF FramesGoOn
  <2> QED  BY <2>1 DEF SlotsExplained, SameSlots
<1>4. Limited'
  <2>1. \A o \in Owners : Owned(o)' \subseteq Owned(o)  BY DEF Owned, SameSlots
  <2> QED  BY <2>1, FewerSlotsAreLimited
<1> QED  BY <1>1, <1>2, <1>3, <1>4
-----------------------------------------------------------------------------
(* What the steps of an end make of a terminal, and of the attachment that is told. *)
Told(r) == [r EXCEPT !.ending = "told", !.current = None, !.grace = FALSE]
HungUp(r) == [r EXCEPT !.ending = "hungup", !.process = Signal(r.process)]
Released(r) == [r EXCEPT !.ending = "done", !.listed = FALSE, !.reserved = FALSE]

(* Each of these updates keeps the type of a terminal and touches only what it names. *)
LEMMA EndOfARecord ==
    ASSUME TerminalsAssumption, NEW r \in Sessions
    PROVE  /\ Told(r) \in Sessions /\ Told(r).ending = "told" /\ Told(r).owner = r.owner
           /\ Told(r).reserved = r.reserved /\ Told(r).listed = r.listed /\ Told(r).current = None
           /\ HungUp(r) \in Sessions /\ HungUp(r).ending = "hungup" /\ HungUp(r).owner = r.owner
           /\ HungUp(r).reserved = r.reserved /\ HungUp(r).listed = r.listed /\ HungUp(r).current = r.current
           /\ Released(r) \in Sessions /\ Released(r).ending = "done" /\ Released(r).owner = r.owner
           /\ ~Released(r).reserved /\ ~Released(r).listed /\ Released(r).current = r.current
<1>1. Told(r) \in Sessions  BY Zenon DEF Told, Sessions
<1>2. HungUp(r) \in Sessions  BY Zenon DEF HungUp, Signal, Sessions
<1>3. Released(r) \in Sessions  BY Zenon DEF Released, Sessions
<1> QED  BY <1>1, <1>2, <1>3 DEF Told, HungUp, Released, Sessions

(* The exit event finds room in the channel, which stays that of its terminal. *)
LEMMA ExitOfAChannel ==
    ASSUME TerminalsAssumption, NEW b \in Channels
    PROVE  LET e == sendAndCloseAttachmentLocked(b) IN
           e \in Channels /\ e.exited /\ e.used = b.used /\ e.term = b.term
<1>1. (IF b.out = Buffer THEN Buffer - 1 ELSE b.out) \in Nat  BY DEF Channels, TerminalsAssumption
<1> QED  BY <1>1, Zenon DEF sendAndCloseAttachmentLocked, Channels

(* One entry of a table is replaced. *)
LEMMA OneTerminal ==
    ASSUME TypeOK, NEW t \in Terms, NEW r \in Sessions, term' = [term EXCEPT ![t] = r]
    PROVE  term' \in [Terms -> Sessions] /\ term'[t] = r /\ \A u \in Terms : u # t => term'[u] = term[u]
BY DEF TypeOK

(* endSessionWithCode, whoever runs it: the attachment is told, and no slot changes. *)
LEMMA EndKeepsInv ==
    ASSUME TerminalsAssumption, Inv, NEW t \in Terms, endSession(t), UNCHANGED conn,
           revoked' \subseteq Owners, sweep' \subseteq Terms
    PROVE  Inv'
<1>i. TypeOK /\ StreamsApart /\ StreamHearsExit /\ UnattachedHasTimer  BY DEF Inv
<1>r. term[t] \in Sessions /\ term[t].current \in Atts \cup {None} /\ term[t].listed
  BY <1>i DEF TypeOK, Sessions, endSession
<1>a. term' = [term EXCEPT ![t] = Told(term[t])]  BY DEF endSession, Told
<1>b. /\ term' \in [Terms -> Sessions] /\ term'[t] = Told(term[t])
      /\ \A u \in Terms : u # t => term'[u] = term[u]
  BY <1>i, <1>r, <1>a, OneTerminal, EndOfARecord, ZenonT(30)
<1>c. \A a \in Atts :
        /\ att'[a] \in Channels /\ att'[a].used = att[a].used /\ att'[a].term = att[a].term
        /\ att'[a] = att[a] \/ att'[a].exited
  <2>1. \A a \in Atts : att[a] \in Channels  BY <1>i DEF TypeOK
  <2>2. \A a \in Atts : att'[a] = att[a] \/ att'[a] = sendAndCloseAttachmentLocked(att[a])
    BY <1>i, <1>r DEF endSession, TypeOK
  <2> QED  BY <2>1, <2>2, ExitOfAChannel
<1>d. att' \in [Atts -> Channels]
  <2>1. att' = [a \in Atts |-> att'[a]]  BY <1>i, <1>r, Zenon DEF endSession, TypeOK
  <2> QED  BY <2>1, <1>c
<1>t. TypeOK'  BY <1>b, <1>d, <1>i DEF TypeOK
<1>1. SameSlots
  <2>1. term[t] # Unused  BY <1>r DEF Unused
  <2> QED  BY <1>b, <1>r, <2>1, EndOfARecord DEF SameSlots
<1>2. FramesGoOn  BY DEF FramesGoOn
<1>3. StreamsApart'
  <2>1. \A u \in Terms : term'[u].current = None \/ term'[u].current = term[u].current
    BY <1>b, <1>r, EndOfARecord
  <2> QED  BY <1>c, <1>i, <2>1 DEF StreamsApart, TypeOK, Sockets, Sessions
<1>4. StreamHearsExit'  BY <1>c, <1>i DEF StreamHearsExit, TypeOK, Sockets
<1>5. UnattachedHasTimer'  BY <1>b, <1>i, <1>r, EndOfARecord DEF UnattachedHasTimer
<1> QED  BY <1>t, <1>1, <1>2, <1>3, <1>4, <1>5, SlotsUndisturbed DEF Inv

(* The signals, the exit of the process and its reaping change neither slots nor attachments. *)
LEMMA ProcessKeepsInv ==
    ASSUME TerminalsAssumption, Inv, NEW t \in Terms,
           \/ terminateTerminalProcess(t) \/ ProcessExits(t)
           \/ Reap(t) /\ term[t].ending # "no"
    PROVE  Inv'
<1>i. TypeOK /\ StreamsApart /\ StreamHearsExit /\ UnattachedHasTimer  BY DEF Inv
<1>r. term[t] \in Sessions  BY <1>i DEF TypeOK
<1>u. UNCHANGED <<att, conn, revoked, sweep>>
  BY DEF terminateTerminalProcess, ProcessExits, Reap
<1>a. \E r \in Sessions :
        /\ term' = [term EXCEPT ![t] = r]
        /\ r.owner = term[t].owner /\ r.reserved = term[t].reserved /\ r.listed = term[t].listed
        /\ r.ending = term[t].ending \/ (term[t].ending # "no" /\ r.ending # "no")
        /\ r.current = term[t].current /\ (r.ending = "no" => r.grace = term[t].grace)
  <2>1. CASE terminateTerminalProcess(t)
    <3>1. term' = [term EXCEPT ![t] = HungUp(term[t])]
      BY <2>1 DEF terminateTerminalProcess, HungUp
    <3>3. term[t].ending = "told"  BY <2>1 DEF terminateTerminalProcess
    <3>2. /\ HungUp(term[t]) \in Sessions /\ HungUp(term[t]).ending = "hungup"
          /\ HungUp(term[t]).owner = term[t].owner /\ HungUp(term[t]).reserved = term[t].reserved
          /\ HungUp(term[t]).listed = term[t].listed /\ HungUp(term[t]).current = term[t].current
      BY <1>r, EndOfARecord
    <3> QED  BY <3>1, <3>2, <3>3, Zenon
  <2>2. CASE ProcessExits(t)
    <3> DEFINE r == [term[t] EXCEPT !.process = "dead"]
    <3>1. r \in Sessions  BY <1>r DEF Sessions
    <3>2. /\ r.owner = term[t].owner /\ r.reserved = term[t].reserved /\ r.listed = term[t].listed
          /\ r.ending = term[t].ending /\ r.current = term[t].current /\ r.grace = term[t].grace
      BY <1>r DEF Sessions
    <3>3. term' = [term EXCEPT ![t] = r]  BY <2>2 DEF ProcessExits
    <3> QED  BY <3>1, <3>2, <3>3, Zenon
  <2>3. CASE Reap(t) /\ term[t].ending # "no"
    <3> DEFINE r == [term[t] EXCEPT !.waiter = "reaped"]
    <3>1. r \in Sessions  BY <1>r DEF Sessions
    <3>2. /\ r.owner = term[t].owner /\ r.reserved = term[t].reserved /\ r.listed = term[t].listed
          /\ r.ending = term[t].ending /\ r.current = term[t].current /\ r.grace = term[t].grace
      BY <1>r DEF Sessions
    <3>3. term' = [term EXCEPT ![t] = r]  BY <2>3 DEF Reap
    <3> QED  BY <3>1, <3>2, <3>3, Zenon
  <2> QED  BY <2>1, <2>2, <2>3
<1>b. PICK r \in Sessions :
        /\ term' = [term EXCEPT ![t] = r]
        /\ r.owner = term[t].owner /\ r.reserved = term[t].reserved /\ r.listed = term[t].listed
        /\ r.ending = term[t].ending \/ (term[t].ending # "no" /\ r.ending # "no")
        /\ r.current = term[t].current /\ (r.ending = "no" => r.grace = term[t].grace)
  BY <1>a, Zenon
<1>c. /\ term' \in [Terms -> Sessions] /\ term'[t] = r
      /\ \A u \in Terms : u # t => term'[u] = term[u]
  BY <1>i, <1>b, OneTerminal, Zenon
<1>t. TypeOK'  BY <1>c, <1>u, <1>i DEF TypeOK
<1>1. SameSlots
  <2>1. term[t] # Unused  BY DEF Unused, terminateTerminalProcess, ProcessExits, Reap
  <2> QED  BY <1>b, <1>c, <2>1 DEF SameSlots
<1>2. FramesGoOn  BY <1>u, SMTT(30) DEF FramesGoOn
<1>3. StreamsApart' /\ StreamHearsExit'  BY <1>b, <1>c, <1>u, <1>i DEF StreamsApart, StreamHearsExit
<1>4. UnattachedHasTimer'  BY <1>b, <1>c, <1>i DEF UnattachedHasTimer
<1> QED  BY <1>t, <1>1, <1>2, <1>3, <1>4, SlotsUndisturbed DEF Inv

(* The last step of an end gives the slot back; nobody is opening a terminal that ends. *)
LEMMA ReleaseKeepsInv ==
    ASSUME TerminalsAssumption, Inv, NEW t \in Terms, releaseOwnerSession(t)
    PROVE  Inv'
<1>i. /\ TypeOK /\ FramesSound /\ OneOpener /\ SlotsExplained /\ Limited
      /\ StreamsApart /\ StreamHearsExit /\ UnattachedHasTimer
  BY DEF Inv
<1>u. UNCHANGED <<att, conn, revoked, sweep>>  BY DEF releaseOwnerSession
<1>r. term[t] \in Sessions /\ term[t].ending = "hungup"  BY <1>i DEF TypeOK, releaseOwnerSession
<1>a. term' = [term EXCEPT ![t] = Released(term[t])]  BY DEF releaseOwnerSession, Released
<1>b. /\ term' \in [Terms -> Sessions] /\ term'[t] = Released(term[t])
      /\ \A u \in Terms : u # t => term'[u] = term[u]
  BY <1>i, <1>r, <1>a, OneTerminal, EndOfARecord, Zenon
<1>c. /\ term'[t].owner = term[t].owner /\ ~term'[t].reserved /\ ~term'[t].listed /\ term'[t].ending = "done"
      /\ term'[t].current = term[t].current
  BY <1>b, <1>r, EndOfARecord
<1>d. \A c \in Conns : conn[c].term = t => conn[c].phase \notin Openers
  BY <1>i, <1>r DEF FramesSound, Openers, Unused
<1>t. TypeOK'  BY <1>b, <1>u, <1>i DEF TypeOK
<1>1. FramesSound'  BY <1>i, <1>u, <1>b, <1>c, <1>d DEF FramesSound, Openers, Busy
<1>2. OneOpener'  BY <1>i, <1>u DEF OneOpener
<1>3. SlotsExplained'  BY <1>i, <1>u, <1>b, <1>c, <1>d DEF SlotsExplained, Openers
<1>4. Limited'
  <2>1. \A o \in Owners : Owned(o)' \subseteq Owned(o)  BY <1>b, <1>c DEF Owned
  <2> QED  BY <1>i, <2>1, FewerSlotsAreLimited
<1>5. StreamsApart' /\ StreamHearsExit'  BY <1>b, <1>c, <1>u, <1>i DEF StreamsApart, StreamHearsExit
<1>6. UnattachedHasTimer'  BY <1>b, <1>c, <1>i DEF UnattachedHasTimer
<1> QED  BY <1>t, <1>1, <1>2, <1>3, <1>4, <1>5, <1>6 DEF Inv
-----------------------------------------------------------------------------
(* One connection changes. *)
LEMMA OneConnection ==
    ASSUME TypeOK, NEW c \in Conns, NEW q \in Sockets, conn' = [conn EXCEPT ![c] = q]
    PROVE  conn' \in [Conns -> Sockets] /\ conn'[c] = q /\ \A d \in Conns : d # c => conn'[d] = conn[d]
BY DEF TypeOK

(* The channel of an attachment changes, or no channel does. *)
LEMMA OneChannel ==
    ASSUME TypeOK, NEW a \in Atts, NEW b \in Channels, att' = [att EXCEPT ![a] = b]
    PROVE  att' \in [Atts -> Channels] /\ att'[a] = b /\ \A e \in Atts : e # a => att'[e] = att[e]
BY DEF TypeOK

(* What the frames of a connection make of its record. *)
Finished(q) == [q EXCEPT !.phase = "idle", !.term = None]
Cleared(q) == [q EXCEPT !.stream = None, !.told = FALSE]

(* Each of these updates keeps the type of a connection and touches only what it names. *)
LEMMA FrameOfARecord ==
    ASSUME TerminalsAssumption, NEW q \in Sockets
    PROVE  /\ Finished(q) \in Sockets /\ Finished(q).phase = "idle" /\ Finished(q).owner = q.owner
           /\ Finished(q).stream = q.stream
           /\ Cleared(q) \in Sockets /\ Cleared(q).stream = None /\ Cleared(q).phase = q.phase
           /\ Cleared(q).term = q.term /\ Cleared(q).owner = q.owner
<1>1. Finished(q) \in Sockets  BY Zenon DEF Finished, Sockets
<1>2. Cleared(q) \in Sockets  BY Zenon DEF Cleared, Sockets
<1> QED  BY <1>1, <1>2 DEF Finished, Cleared, Sockets

(* Detach: the attachment is closed without an exit only by the connection whose stream it was, which
   has no stream afterwards; the grace timer starts. *)
LEMMA DetachKeepsInv ==
    ASSUME TerminalsAssumption, Inv, NEW c \in Conns, Detach(c), FramesGoOn, NEW q \in Sockets,
           conn' = [conn EXCEPT ![c] = q], q.stream = None, UNCHANGED <<revoked, sweep>>
    PROVE  Inv'
<1>i. TypeOK /\ StreamsApart /\ StreamHearsExit /\ UnattachedHasTimer  BY DEF Inv
<1>q. conn' \in [Conns -> Sockets] /\ conn'[c] = q /\ \A d \in Conns : d # c => conn'[d] = conn[d]
  BY <1>i, OneConnection, Zenon
<1> DEFINE a == conn[c].stream
           t == att[a].term
<1>1. CASE a # None /\ term[t].listed /\ term[t].current = a
  <2> DEFINE r == [term[t] EXCEPT !.current = None, !.grace = TRUE]
             b == [att[a] EXCEPT !.closed = TRUE]
  <2>a. a \in Atts /\ t \in Terms  BY <1>1, <1>i DEF TypeOK, Sockets, StreamsApart
  <2>b. term[t] \in Sessions /\ att[a] \in Channels  BY <2>a, <1>i DEF TypeOK
  <2>c. r \in Sessions  BY <2>b, Zenon DEF Sessions
  <2>d. /\ r.owner = term[t].owner /\ r.reserved = term[t].reserved /\ r.listed = term[t].listed
        /\ r.ending = term[t].ending /\ r.grace /\ r.current = None
    BY <2>b DEF Sessions
  <2>e. b \in Channels /\ b.used = att[a].used /\ b.term = att[a].term  BY <2>b, ZenonT(30) DEF Channels
  <2>f. term' = [term EXCEPT ![t] = r] /\ att' = [att EXCEPT ![a] = b]  BY <1>1 DEF Detach
  <2> HIDE DEF r, b
  <2>g. /\ term' \in [Terms -> Sessions] /\ term'[t] = r
        /\ \A u \in Terms : u # t => term'[u] = term[u]
    BY <1>i, <2>a, <2>c, <2>f, OneTerminal, Zenon
  <2>h. /\ att' \in [Atts -> Channels] /\ att'[a] = b
        /\ \A e \in Atts : e # a => att'[e] = att[e]
    BY <1>i, <2>a, <2>e, <2>f, OneChannel, Zenon
  <2>t. TypeOK'  BY <2>g, <2>h, <1>q, <1>i, SMTT(30) DEF TypeOK
  <2>1. SameSlots
    <3>1. term[t] # Unused  BY <1>1, SMTT(30) DEF Unused
    <3> QED  BY <2>d, <2>g, <3>1, SMTT(30) DEF SameSlots
  <2>2. \A d \in Conns : conn'[d].stream # None =>
          d # c /\ conn'[d].stream = conn[d].stream /\ conn[d].stream \in Atts \ {a}
    BY <1>q, <1>i, <1>1 DEF StreamsApart, TypeOK, Sockets
  <2>3. StreamsApart'
    <3>1. \A u \in Terms : term'[u].current = None \/ term'[u].current = term[u].current  BY <2>d, <2>g
    <3>2. \A e \in Atts : att'[e].used = att[e].used /\ att'[e].term = att[e].term  BY <2>e, <2>h
    <3> QED  BY <2>2, <3>1, <3>2, <1>i, SMTT(30) DEF StreamsApart, TypeOK, Sessions
  <2>4. StreamHearsExit'  BY <2>2, <2>h, <1>i, SMTT(30) DEF StreamHearsExit
  <2>5. UnattachedHasTimer'  BY <2>d, <2>g, <1>i DEF UnattachedHasTimer
  <2> QED  BY <2>t, <2>1, <2>3, <2>4, <2>5, SlotsUndisturbed, SMTT(30) DEF Inv
<1>2. CASE ~(a # None /\ term[t].listed /\ term[t].current = a)
  <2>1. UNCHANGED <<term, att>>  BY <1>2 DEF Detach
  <2>2. SameSlots  BY <2>1 DEF SameSlots
  <2>t. TypeOK'  BY <2>1, <1>q, <1>i DEF TypeOK
  <2>3. \A d \in Conns : conn'[d].stream # None => conn'[d].stream = conn[d].stream  BY <1>q
  <2>4. StreamsApart' /\ StreamHearsExit'  BY <2>1, <2>3, <1>i DEF StreamsApart, StreamHearsExit
  <2>5. UnattachedHasTimer'  BY <2>1, <1>i DEF UnattachedHasTimer
  <2> QED  BY <2>t, <2>2, <2>4, <2>5, SlotsUndisturbed, SMTT(30) DEF Inv
<1> QED  BY <1>1, <1>2

(* A frame that replaces the stream, and the end of a connection. *)
LEMMA StreamClosesKeepsInv ==
    ASSUME TerminalsAssumption, Inv, NEW c \in Conns, ReplaceStream(c) \/ Disconnect(c)
    PROVE  Inv'
<1>i. TypeOK /\ conn[c] \in Sockets  BY DEF Inv, TypeOK
<1>1. CASE ReplaceStream(c)
  <2>1. conn' = [conn EXCEPT ![c] = Cleared(conn[c])]  BY <1>1 DEF ReplaceStream, Cleared
  <2>2. Cleared(conn[c]) \in Sockets /\ Cleared(conn[c]).stream = None  BY <1>i, FrameOfARecord
  <2>3. FramesGoOn
    <3>1. conn'[c] = Cleared(conn[c]) /\ \A d \in Conns : d # c => conn'[d] = conn[d]
      BY <1>i, <2>1, <2>2, OneConnection, Zenon
    <3> QED  BY <3>1, <1>i, FrameOfARecord DEF FramesGoOn
  <2> QED  BY <1>1, <2>1, <2>2, <2>3, DetachKeepsInv, Zenon DEF ReplaceStream
<1>2. CASE Disconnect(c)
  <2>1. conn' = [conn EXCEPT ![c] = Gone] /\ Gone \in Sockets /\ Gone.stream = None /\ Gone.phase = "gone"
    BY <1>2, NothingIsTyped DEF Disconnect, Gone
  <2>2. conn[c].phase = "idle"  BY <1>2 DEF Disconnect
  <2>3. FramesGoOn
    <3>1. conn'[c] = Gone /\ \A d \in Conns : d # c => conn'[d] = conn[d]
      BY <1>i, <2>1, OneConnection, Zenon
    <3> QED  BY <3>1, <2>1, <2>2 DEF FramesGoOn
  <2> QED  BY <1>2, <2>1, <2>3, DetachKeepsInv, Zenon DEF Disconnect
<1> QED  BY <1>1, <1>2
-----------------------------------------------------------------------------
(* A connection that takes no slot of its own in this step: it connects, reads a frame, looks a
   terminal up, or is refused. *)
LEMMA FrameKeepsInv ==
    ASSUME TerminalsAssumption, Inv, NEW c \in Conns, NEW q \in Sockets, conn' = [conn EXCEPT ![c] = q],
           q.stream = conn[c].stream \/ q.stream = None, UNCHANGED <<term, att, revoked, sweep>>,
           conn[c].phase \notin {"reserved", "started"}, q.phase \notin {"reserved", "started"},
           q.phase # "gone" => q.owner \in Owners,
           q.phase \in Busy => q.term \in Terms,
           q.phase = "open" => /\ term[q.term] = Unused
                               /\ \A d \in Conns : d # c => ~(conn[d].phase = "open" /\ conn[d].term = q.term),
           q.phase \in {"listed", "found"} => term[q.term].owner \in Owners
    PROVE  Inv'
<1>i. /\ TypeOK /\ FramesSound /\ OneOpener /\ SlotsExplained /\ Limited
      /\ StreamsApart /\ StreamHearsExit /\ UnattachedHasTimer
  BY DEF Inv
<1>q. conn' \in [Conns -> Sockets] /\ conn'[c] = q /\ \A d \in Conns : d # c => conn'[d] = conn[d]
  BY <1>i, OneConnection, Zenon
<1>t. TypeOK'  BY <1>q, <1>i DEF TypeOK
<1>1. FramesSound'  BY <1>q, <1>i DEF FramesSound
<1>2. OneOpener'
  <2>1. \A d \in Conns : d # c /\ q.phase \in Openers /\ conn[d].phase \in Openers => conn[d].term # q.term
    BY <1>i DEF FramesSound, Openers, Unused
  <2> QED  BY <2>1, <1>q, <1>i DEF OneOpener
<1>3. SlotsExplained'
  <2>1. \A d \in Conns, t \in Terms : (conn'[d].phase \in {"reserved", "started"} /\ conn'[d].term = t)
                                        <=> (conn[d].phase \in {"reserved", "started"} /\ conn[d].term = t)
    BY <1>q
  <2> QED  BY <2>1, <1>i DEF SlotsExplained
<1>4. Limited'
  <2>1. \A o \in Owners : Owned(o)' \subseteq Owned(o)  BY DEF Owned
  <2> QED  BY <1>i, <2>1, FewerSlotsAreLimited
<1>5. \A d \in Conns : conn'[d].stream # None => conn'[d].stream = conn[d].stream  BY <1>q, SMTT(30)
<1>6. StreamsApart' /\ StreamHearsExit' /\ UnattachedHasTimer'
  BY <1>5, <1>i DEF StreamsApart, StreamHearsExit, UnattachedHasTimer
<1> QED  BY <1>t, <1>1, <1>2, <1>3, <1>4, <1>6 DEF Inv

(* A connection is made. *)
LEMMA ConnectKeepsInv ==
    ASSUME TerminalsAssumption, Inv, NEW c \in Conns, NEW o \in Owners, Connect(c, o)
    PROVE  Inv'
<1> DEFINE q == [Gone EXCEPT !.owner = o, !.phase = "idle"]
<1>1. q \in Sockets /\ q.stream = None /\ q.phase = "idle" /\ q.owner = o
  BY NothingIsTyped, Zenon DEF Gone, Sockets, Busy
<1>2. conn' = [conn EXCEPT ![c] = q] /\ conn[c].phase = "gone" /\ UNCHANGED <<term, att, revoked, sweep>>
  BY DEF Connect, Gone
<1> HIDE DEF q
<1> QED  BY <1>1, <1>2, FrameKeepsInv, Zenon DEF Busy

(* A frame is read: a terminal is opened only when nothing is known of it and nobody else opens it. *)
LEMMA ReadFrameKeepsInv ==
    ASSUME TerminalsAssumption, Inv, NEW c \in Conns, NEW t \in Terms, ReadFrame(c, t)
    PROVE  Inv'
<1>i. conn[c] \in Sockets /\ conn[c].phase = "idle" /\ conn[c].owner \in Owners
  BY DEF Inv, TypeOK, ReadFrame, FramesSound
<1>1. PICK kind \in {"open", "attach"} :
        /\ kind = "open" => term[t] = Unused
        /\ kind = "open" => \A d \in Conns : ~(conn[d].phase = "open" /\ conn[d].term = t)
        /\ conn' = [conn EXCEPT ![c] = [conn[c] EXCEPT !.phase = kind, !.term = t]]
  BY Zenon DEF ReadFrame
<1> DEFINE q == [conn[c] EXCEPT !.phase = kind, !.term = t]
<1>2. q \in Sockets  BY <1>i, Zenon DEF Sockets, Busy
<1>3. q.stream = conn[c].stream /\ q.phase = kind /\ q.owner = conn[c].owner /\ q.term = t
  BY <1>i DEF Sockets
<1>4. conn' = [conn EXCEPT ![c] = q] /\ UNCHANGED <<term, att, revoked, sweep>>  BY <1>1, Zenon DEF ReadFrame
<1> HIDE DEF q
<1> QED  BY <1>i, <1>1, <1>2, <1>3, <1>4, FrameKeepsInv, ZenonT(30)

(* Attach looks up a terminal of its own owner. *)
LEMMA LookupKeepsInv ==
    ASSUME TerminalsAssumption, Inv, NEW c \in Conns, LookupSession(c)
    PROVE  Inv'
<1>i. /\ conn[c] \in Sockets /\ conn[c].phase = "attach" /\ conn[c].owner \in Owners /\ conn[c].term \in Terms
      /\ UNCHANGED <<term, att, revoked, sweep>>
  BY DEF Inv, TypeOK, LookupSession, FramesSound, Busy
<1>1. CASE term[conn[c].term].listed /\ term[conn[c].term].owner = conn[c].owner
  <2> DEFINE q == [conn[c] EXCEPT !.phase = "found"]
  <2>1. q \in Sockets  BY <1>i DEF Sockets, Busy
  <2>2. q.stream = conn[c].stream /\ q.phase = "found" /\ q.owner = conn[c].owner /\ q.term = conn[c].term
    BY <1>i DEF Sockets
  <2>3. conn' = [conn EXCEPT ![c] = q]  BY <1>1 DEF LookupSession
  <2> HIDE DEF q
  <2> QED  BY <1>i, <1>1, <2>1, <2>2, <2>3, FrameKeepsInv, Zenon
<1>2. CASE ~(term[conn[c].term].listed /\ term[conn[c].term].owner = conn[c].owner)
  <2>1. conn' = [conn EXCEPT ![c] = Finished(conn[c])]  BY <1>2 DEF LookupSession, Idle, Finished
  <2>2. /\ Finished(conn[c]) \in Sockets /\ Finished(conn[c]).phase = "idle"
        /\ Finished(conn[c]).owner = conn[c].owner /\ Finished(conn[c]).stream = conn[c].stream
    BY <1>i, FrameOfARecord
  <2> QED  BY <1>i, <2>1, <2>2, FrameKeepsInv, Zenon DEF Busy
<1> QED  BY <1>1, <1>2

(* Sweeps only remember terminals. *)
LEMMA SweepsKeepInv ==
    ASSUME TerminalsAssumption, Inv, UNCHANGED <<term, att, conn>>, revoked' \subseteq Owners, sweep' \subseteq Terms
    PROVE  Inv'
<1>1. SameSlots /\ FramesGoOn  BY DEF SameSlots, FramesGoOn
<1>2. TypeOK'  BY DEF Inv, TypeOK
<1>3. StreamsApart' /\ StreamHearsExit' /\ UnattachedHasTimer'
  BY DEF Inv, StreamsApart, StreamHearsExit, UnattachedHasTimer
<1> QED  BY <1>1, <1>2, <1>3, SlotsUndisturbed DEF Inv
-----------------------------------------------------------------------------
(* Open takes a slot below the limit, for a terminal nobody else is opening. *)
LEMMA ReserveKeepsInv ==
    ASSUME TerminalsAssumption, Inv, NEW c \in Conns, Reserve(c)
    PROVE  Inv'
<1>i. /\ TypeOK /\ FramesSound /\ OneOpener /\ SlotsExplained /\ Limited
      /\ StreamsApart /\ StreamHearsExit /\ UnattachedHasTimer
  BY DEF Inv
<1> DEFINE t == conn[c].term
           o == conn[c].owner
<1>r. /\ conn[c] \in Sockets /\ conn[c].phase = "open" /\ t \in Terms /\ o \in Owners /\ term[t] = Unused
      /\ UNCHANGED <<att, revoked, sweep>>
  BY <1>i DEF TypeOK, FramesSound, Reserve, Busy
<1>1. CASE Cardinality(Owned(o)) >= MaxSessionsPerOwner
  <2>1. conn' = [conn EXCEPT ![c] = Finished(conn[c])] /\ UNCHANGED term  BY <1>1 DEF Reserve, Idle, Finished
  <2>2. /\ Finished(conn[c]) \in Sockets /\ Finished(conn[c]).phase = "idle"
        /\ Finished(conn[c]).owner = conn[c].owner /\ Finished(conn[c]).stream = conn[c].stream
    BY <1>r, FrameOfARecord
  <2> QED  BY <1>r, <2>1, <2>2, FrameKeepsInv, Zenon DEF Busy
<1>2. CASE ~(Cardinality(Owned(o)) >= MaxSessionsPerOwner)
  <2> DEFINE r == [term[t] EXCEPT !.owner = o, !.reserved = TRUE]
             q == [conn[c] EXCEPT !.phase = "reserved"]
  <2>a. r \in Sessions /\ r.owner = o /\ r.reserved /\ ~r.listed /\ r.ending = "no" /\ r.current = None
    <3>1. term[t] \in Sessions /\ ~term[t].listed /\ term[t].ending = "no" /\ term[t].current = None
      BY <1>r, NothingIsTyped DEF Unused
    <3>2. r \in Sessions  BY <1>r, <3>1, Zenon DEF Sessions
    <3>3. /\ r.owner = o /\ r.reserved /\ r.listed = term[t].listed /\ r.ending = term[t].ending
          /\ r.current = term[t].current
      BY <3>1 DEF Sessions
    <3> QED  BY <3>1, <3>2, <3>3
  <2>b. q \in Sockets  BY <1>r DEF Sockets, Busy
  <2>c. q.phase = "reserved" /\ q.owner = o /\ q.term = t /\ q.stream = conn[c].stream
    BY <1>r DEF Sockets
  <2>d. term' = [term EXCEPT ![t] = r] /\ conn' = [conn EXCEPT ![c] = q]  BY <1>2 DEF Reserve
  <2> HIDE DEF r, q
  <2>e. /\ term' \in [Terms -> Sessions] /\ term'[t] = r
        /\ \A u \in Terms : u # t => term'[u] = term[u]
    BY <1>i, <1>r, <2>a, <2>d, OneTerminal, Zenon
  <2>f. conn' \in [Conns -> Sockets] /\ conn'[c] = q /\ \A d \in Conns : d # c => conn'[d] = conn[d]
    BY <1>i, <2>b, <2>d, OneConnection, Zenon
  <2>g. \A d \in Conns : d # c /\ conn[d].term = t => conn[d].phase \notin Openers \cup {"listed", "found"}
    <3>1. \A d \in Conns : d # c /\ conn[d].term = t => conn[d].phase \notin Openers
      BY <1>i, <1>r DEF OneOpener, Openers
    <3>2. \A d \in Conns : conn[d].term = t => conn[d].phase \notin {"listed", "found"}
      BY <1>i, <1>r DEF FramesSound, Unused, TerminalsAssumption
    <3> QED  BY <3>1, <3>2
  <2>t. TypeOK'  BY <1>r, <1>i, <2>e, <2>f, SMTT(30) DEF TypeOK
  <2>1. FramesSound'
    <3>1. \A d \in Conns : d # c => (conn[d].phase \in Openers \cup {"listed", "found"} /\ conn[d].term \in Terms =>
                                       term'[conn[d].term] = term[conn[d].term])
      BY <2>e, <2>g
    <3> QED  BY <1>i, <1>r, <2>a, <2>c, <2>e, <2>f, <3>1 DEF FramesSound, Openers, Busy
  <2>2. OneOpener'  BY <1>i, <2>c, <2>f, <2>g DEF OneOpener
  <2>3. SlotsExplained'
    <3>1. \A d \in Conns, u \in Terms : u # t =>
            ((conn'[d].phase \in {"reserved", "started"} /\ conn'[d].term = u)
               <=> (conn[d].phase \in {"reserved", "started"} /\ conn[d].term = u))
      BY <1>r, <2>c, <2>f
    <3> QED  BY <1>i, <2>a, <2>c, <2>e, <2>f, <3>1 DEF SlotsExplained
  <2>4. Limited'
    <3> SUFFICES ASSUME NEW p \in Owners
                 PROVE  IsFiniteSet(Owned(p)') /\ Cardinality(Owned(p)') <= MaxSessionsPerOwner
      BY DEF Limited
    <3>1. IsFiniteSet(Owned(p)) /\ Cardinality(Owned(p)) <= MaxSessionsPerOwner  BY <1>i DEF Limited
    <3>2. Cardinality(Owned(p)) \in Nat  BY <3>1, FS_CardinalityType
    <3>3. t \notin Owned(p)  BY <1>r DEF Owned, Unused
    <3>4. CASE p = o
      <4>1. Owned(p)' = Owned(p) \cup {t}  BY <1>r, <2>a, <2>e, <3>4, SMTT(30) DEF Owned
      <4>2. Cardinality(Owned(p)') = Cardinality(Owned(p)) + 1 /\ IsFiniteSet(Owned(p)')
        BY <3>1, <3>3, <4>1, FS_AddElement, SMTT(30)
      <4> QED  BY <1>2, <3>2, <3>4, <4>2, SMTT(30) DEF TerminalsAssumption
    <3>5. CASE p # o
      <4>1. Owned(p)' = Owned(p)  BY <1>r, <2>a, <2>e, <3>3, <3>5 DEF Owned
      <4> QED  BY <3>1, <4>1
    <3> QED  BY <3>4, <3>5
  <2>5. \A d \in Conns : conn'[d].stream = conn[d].stream  BY <2>c, <2>f, SMTT(30)
  <2>6. StreamsApart' /\ StreamHearsExit'  BY <1>i, <1>r, <2>a, <2>e, <2>5 DEF StreamsApart, StreamHearsExit
  <2>7. UnattachedHasTimer'  BY <1>i, <2>a, <2>e, SMTT(30) DEF UnattachedHasTimer
  <2> QED  BY <2>t, <2>1, <2>2, <2>3, <2>4, <2>6, <2>7 DEF Inv
<1> QED  BY <1>1, <1>2
-----------------------------------------------------------------------------
(* The steps of Open behind the reservation: the terminal starts, is listed, or gives its slot back. *)
LEMMA OpenerKeepsSlots ==
    ASSUME TerminalsAssumption, Inv, NEW c \in Conns, conn[c].phase \in {"reserved", "started"},
           NEW r \in Sessions, term' = [term EXCEPT ![conn[c].term] = r],
           NEW q \in Sockets, conn' = [conn EXCEPT ![c] = q],
           r.owner = term[conn[c].term].owner, r.ending = "no", q.owner = conn[c].owner,
           \/ /\ q.phase = "started" /\ q.term = conn[c].term /\ r.reserved /\ ~r.listed
           \/ /\ q.phase = "listed" /\ q.term = conn[c].term /\ r.reserved /\ r.listed
           \/ /\ q.phase = "idle" /\ ~r.reserved /\ ~r.listed
    PROVE  /\ FramesSound' /\ OneOpener' /\ SlotsExplained' /\ Limited'
           /\ term' \in [Terms -> Sessions] /\ conn' \in [Conns -> Sockets]
           /\ conn[c].term \in Terms /\ term'[conn[c].term] = r
           /\ \A u \in Terms : u # conn[c].term => term'[u] = term[u]
           /\ conn'[c] = q /\ \A d \in Conns : d # c => conn'[d] = conn[d]
<1>i. TypeOK /\ FramesSound /\ OneOpener /\ SlotsExplained /\ Limited  BY SMTT(30) DEF Inv
<1> DEFINE t == conn[c].term
<1>r. /\ t \in Terms /\ term[t].reserved /\ ~term[t].listed /\ term[t].owner \in Owners
      /\ term[t].ending = "no" /\ conn[c].owner \in Owners
  BY <1>i, SMTT(30) DEF FramesSound, Busy
<1>e. /\ term' \in [Terms -> Sessions] /\ term'[t] = r
      /\ \A u \in Terms : u # t => term'[u] = term[u]
  BY <1>i, <1>r, OneTerminal, Zenon
<1>f. conn' \in [Conns -> Sockets] /\ conn'[c] = q /\ \A d \in Conns : d # c => conn'[d] = conn[d]
  BY <1>i, OneConnection, ZenonT(30)
<1>g. \A d \in Conns : d # c /\ conn[d].term = t => conn[d].phase \notin Openers
  BY <1>i DEF OneOpener, Openers
<1>1. FramesSound'
  <2>1. \A d \in Conns : d # c /\ conn[d].phase \in Openers /\ conn[d].term \in Terms =>
          term'[conn[d].term] = term[conn[d].term]
    BY <1>e, <1>g
  <2>2. \A u \in Terms : term'[u].owner = term[u].owner  BY <1>e, SMTT(30)
  <2>3. \A d \in Conns : d # c =>
          LET u == conn'[d].term IN
          /\ conn'[d].phase # "gone" => conn'[d].owner \in Owners
          /\ conn'[d].phase \in Busy => u \in Terms
          /\ conn'[d].phase = "open" => term'[u] = Unused
          /\ conn'[d].phase \in {"reserved", "started"} =>
              term'[u].reserved /\ ~term'[u].listed /\ term'[u].ending = "no"
          /\ conn'[d].phase \in {"reserved", "started", "listed", "found"} => term'[u].owner \in Owners
    BY <1>i, <1>f, <2>1, <2>2 DEF FramesSound, Openers, Busy
  <2> QED  BY <1>e, <1>f, <1>r, <2>3 DEF FramesSound, Busy
<1>2. OneOpener'  BY <1>i, <1>f, <1>g, SMTT(30) DEF OneOpener, Openers
<1>3. SlotsExplained'
  <2>1. \A d \in Conns, u \in Terms : u # t =>
          ((conn'[d].phase \in {"reserved", "started"} /\ conn'[d].term = u)
             <=> (conn[d].phase \in {"reserved", "started"} /\ conn[d].term = u))
    BY <1>f
  <2>2. \A d \in Conns : d # c => ~(conn'[d].phase \in {"reserved", "started"} /\ conn'[d].term = t)
    BY <1>f, <1>g DEF Openers
  <2> QED  BY <1>i, <1>e, <1>f, <1>r, <2>1, <2>2 DEF SlotsExplained
<1>4. Limited'
  <2>1. \A o \in Owners : Owned(o)' \subseteq Owned(o)  BY <1>e, <1>r, SMTT(30) DEF Owned
  <2> QED  BY <1>i, <2>1, FewerSlotsAreLimited, SMTT(30)
<1> QED  BY <1>1, <1>2, <1>3, <1>4, <1>e, <1>f, <1>r

(* docker exec starts or fails. *)
LEMMA StartKeepsInv ==
    ASSUME TerminalsAssumption, Inv, NEW c \in Conns, StartTerminal(c)
    PROVE  Inv'
<1>i. TypeOK /\ FramesSound /\ StreamsApart /\ StreamHearsExit /\ UnattachedHasTimer  BY DEF Inv
<1> DEFINE t == conn[c].term
<1>r. /\ conn[c] \in Sockets /\ conn[c].phase = "reserved" /\ t \in Terms /\ term[t] \in Sessions
      /\ term[t].reserved /\ ~term[t].listed /\ term[t].ending = "no" /\ UNCHANGED <<att, revoked, sweep>>
  BY <1>i, SMTT(30) DEF TypeOK, FramesSound, StartTerminal, Busy
<1>a. \E r \in Sessions, q \in Sockets :
        /\ term' = [term EXCEPT ![t] = r] /\ conn' = [conn EXCEPT ![c] = q]
        /\ r.owner = term[t].owner /\ r.ending = "no" /\ ~r.listed /\ r.current = term[t].current
        /\ q.owner = conn[c].owner /\ q.stream = conn[c].stream
        /\ (q.phase = "started" /\ q.term = t /\ r.reserved) \/ (q.phase = "idle" /\ ~r.reserved)
  <2>1. CASE /\ term' = [term EXCEPT ![t].process = "running"]
             /\ conn' = [conn EXCEPT ![c].phase = "started"]
    <3> DEFINE r == [term[t] EXCEPT !.process = "running"]
               q == [conn[c] EXCEPT !.phase = "started"]
    <3>1. r \in Sessions /\ q \in Sockets  BY <1>r DEF Sessions, Sockets, Busy
    <3>2. r.owner = term[t].owner /\ r.ending = term[t].ending /\ r.listed = term[t].listed
          /\ r.reserved = term[t].reserved /\ r.current = term[t].current
      BY <1>r, Zenon DEF Sessions
    <3>3. q.owner = conn[c].owner /\ q.stream = conn[c].stream /\ q.phase = "started" /\ q.term = t
      BY <1>r DEF Sockets
    <3>4. term' = [term EXCEPT ![t] = r] /\ conn' = [conn EXCEPT ![c] = q]  BY <2>1
    <3> HIDE DEF r, q
    <3> QED  BY <1>r, <3>1, <3>2, <3>3, <3>4, Zenon
  <2>2. CASE /\ term' = [term EXCEPT ![t] = [@ EXCEPT !.reserved = FALSE, !.waiter = "failed"]]
             /\ conn' = Idle(c)
    <3> DEFINE r == [term[t] EXCEPT !.reserved = FALSE, !.waiter = "failed"]
    <3>1. r \in Sessions  BY <1>r, Zenon DEF Sessions
    <3>2. /\ r.owner = term[t].owner /\ r.ending = term[t].ending /\ r.listed = term[t].listed /\ ~r.reserved
          /\ r.current = term[t].current
      BY <1>r DEF Sessions
    <3>3. /\ Finished(conn[c]) \in Sockets /\ Finished(conn[c]).phase = "idle"
          /\ Finished(conn[c]).owner = conn[c].owner /\ Finished(conn[c]).stream = conn[c].stream
      BY <1>r, FrameOfARecord
    <3>4. term' = [term EXCEPT ![t] = r] /\ conn' = [conn EXCEPT ![c] = Finished(conn[c])]
      BY <2>2 DEF Idle, Finished
    <3> HIDE DEF r
    <3> QED  BY <1>r, <3>1, <3>2, <3>3, <3>4, Zenon
  <2> QED  BY <2>1, <2>2, SMTT(30) DEF StartTerminal
<1>b. PICK r \in Sessions, q \in Sockets :
        /\ term' = [term EXCEPT ![t] = r] /\ conn' = [conn EXCEPT ![c] = q]
        /\ r.owner = term[t].owner /\ r.ending = "no" /\ ~r.listed /\ r.current = term[t].current
        /\ q.owner = conn[c].owner /\ q.stream = conn[c].stream
        /\ (q.phase = "started" /\ q.term = t /\ r.reserved) \/ (q.phase = "idle" /\ ~r.reserved)
  BY <1>a, Zenon
<1>c. /\ FramesSound' /\ OneOpener' /\ SlotsExplained' /\ Limited'
      /\ term' \in [Terms -> Sessions] /\ conn' \in [Conns -> Sockets] /\ term'[t] = r
      /\ \A u \in Terms : u # t => term'[u] = term[u]
      /\ conn'[c] = q /\ \A d \in Conns : d # c => conn'[d] = conn[d]
  BY <1>b, <1>r, OpenerKeepsSlots, ZenonT(30)
<1>t. TypeOK'  BY <1>c, <1>r, <1>i DEF TypeOK
<1>1. \A d \in Conns : conn'[d].stream = conn[d].stream  BY <1>b, <1>c
<1>2. StreamsApart' /\ StreamHearsExit'  BY <1>1, <1>b, <1>c, <1>i, <1>r, SMTT(30) DEF StreamsApart, StreamHearsExit
<1>3. UnattachedHasTimer'  BY <1>b, <1>c, <1>i DEF UnattachedHasTimer
<1> QED  BY <1>c, <1>t, <1>2, <1>3 DEF Inv

(* The terminal is listed with an attachment that is nobody else's. *)
LEMMA ListKeepsInv ==
    ASSUME TerminalsAssumption, Inv, NEW c \in Conns, NEW a \in Atts, List(c, a)
    PROVE  Inv'
<1>i. TypeOK /\ FramesSound /\ StreamsApart /\ StreamHearsExit /\ UnattachedHasTimer  BY DEF Inv
<1> DEFINE t == conn[c].term
           r == [term[t] EXCEPT !.listed = TRUE, !.current = a]
           q == [conn[c] EXCEPT !.phase = "listed", !.stream = a]
<1>r. /\ conn[c] \in Sockets /\ conn[c].phase = "started" /\ t \in Terms /\ term[t] \in Sessions
      /\ term[t].reserved /\ ~term[t].listed /\ term[t].ending = "no" /\ ~att[a].used
      /\ UNCHANGED <<revoked, sweep>>
  BY <1>i DEF TypeOK, FramesSound, List, Busy
<1>a. r \in Sessions  BY <1>r, Zenon DEF Sessions
<1>b. r.owner = term[t].owner /\ r.ending = term[t].ending /\ r.listed /\ r.reserved = term[t].reserved /\ r.current = a
  BY <1>r, Zenon DEF Sessions
<1>c. q \in Sockets  BY <1>r, Zenon DEF Sockets, Busy
<1>d. q.owner = conn[c].owner /\ q.stream = a /\ q.phase = "listed" /\ q.term = t  BY <1>r DEF Sockets
<1>e. /\ term' = [term EXCEPT ![t] = r] /\ conn' = [conn EXCEPT ![c] = q]
      /\ att' = [att EXCEPT ![a] = FreshAtt(a, t)]
  BY DEF List
<1>f. FreshAtt(a, t) \in Channels /\ FreshAtt(a, t).used /\ ~FreshAtt(a, t).closed /\ FreshAtt(a, t).term = t
  BY <1>r, Zenon DEF FreshAtt, NoAtt, Channels
<1> HIDE DEF r, q
<1>g. /\ FramesSound' /\ OneOpener' /\ SlotsExplained' /\ Limited'
      /\ term' \in [Terms -> Sessions] /\ conn' \in [Conns -> Sockets] /\ term'[t] = r
      /\ \A u \in Terms : u # t => term'[u] = term[u]
      /\ conn'[c] = q /\ \A d \in Conns : d # c => conn'[d] = conn[d]
  BY <1>a, <1>b, <1>c, <1>d, <1>e, <1>r, OpenerKeepsSlots, ZenonT(30)
<1>h. /\ att' \in [Atts -> Channels] /\ att'[a] = FreshAtt(a, t)
      /\ \A e \in Atts : e # a => att'[e] = att[e]
  BY <1>i, <1>e, <1>f, OneChannel, Zenon
<1>t. TypeOK'  BY <1>g, <1>h, <1>r, <1>i DEF TypeOK
<1>1. \A d \in Conns : d # c /\ conn[d].stream # None =>
        conn'[d].stream = conn[d].stream /\ conn[d].stream \in Atts \ {a}
  BY <1>g, <1>i, <1>r DEF StreamsApart, TypeOK, Sockets
<1>2. StreamsApart'
  <2>1. \A u \in Terms : term'[u].current # None => att'[term'[u].current].used
    BY <1>b, <1>f, <1>g, <1>h, <1>i, SMTT(30) DEF StreamsApart, TypeOK, Sessions
  <2>2. \A d \in Conns : conn'[d].stream # None => att'[conn'[d].stream].used /\ att'[conn'[d].stream].term \in Terms
    BY <1>d, <1>f, <1>g, <1>h, <1>i, <1>r, <1>1, SMTT(30) DEF StreamsApart
  <2>3. \A d, e \in Conns : conn'[d].stream # None /\ conn'[d].stream = conn'[e].stream => d = e
    BY <1>d, <1>g, <1>i, <1>1, SMTT(30) DEF StreamsApart
  <2> QED  BY <2>1, <2>2, <2>3, SMTT(30) DEF StreamsApart
<1>3. StreamHearsExit'  BY <1>d, <1>f, <1>g, <1>h, <1>i, <1>1, SMTT(30) DEF StreamHearsExit
<1>4. UnattachedHasTimer'
  <2>1. a # None  BY DEF TerminalsAssumption
  <2> QED  BY <1>b, <1>g, <1>i, <2>1 DEF UnattachedHasTimer
<1> QED  BY <1>t, <1>g, <1>2, <1>3, <1>4 DEF Inv

(* The goroutine that reaps the process starts, whether the terminal is still listed or not. *)
LEMMA WaitKeepsInv ==
    ASSUME TerminalsAssumption, Inv, NEW c \in Conns, waitForExit(c)
    PROVE  Inv'
<1>i. TypeOK /\ FramesSound /\ StreamsApart /\ StreamHearsExit /\ UnattachedHasTimer  BY DEF Inv
<1> DEFINE t == conn[c].term
           w == IF term[t].listed THEN "waiting" ELSE "skipped"
           r == [term[t] EXCEPT !.waiter = w]
<1>r. /\ conn[c] \in Sockets /\ conn[c].phase = "listed" /\ t \in Terms /\ term[t] \in Sessions
      /\ term[t].owner \in Owners /\ UNCHANGED <<att, revoked, sweep>>
  BY <1>i DEF TypeOK, FramesSound, waitForExit, Busy
<1>w. w \in {"waiting", "skipped"}  OBVIOUS
<1>e. term' = [term EXCEPT ![t] = r] /\ conn' = [conn EXCEPT ![c] = Finished(conn[c])]
  BY DEF waitForExit, Idle, Finished
<1> HIDE DEF w
<1>a. r \in Sessions  BY <1>r, <1>w DEF Sessions
<1>b. /\ r.owner = term[t].owner /\ r.ending = term[t].ending /\ r.listed = term[t].listed
      /\ r.reserved = term[t].reserved /\ r.current = term[t].current /\ r.grace = term[t].grace
  BY <1>r DEF Sessions
<1> HIDE DEF r
<1>c. /\ Finished(conn[c]) \in Sockets /\ Finished(conn[c]).phase = "idle"
      /\ Finished(conn[c]).owner = conn[c].owner /\ Finished(conn[c]).stream = conn[c].stream
  BY <1>r, FrameOfARecord
<1>f. term' \in [Terms -> Sessions] /\ term'[t] = r /\ \A u \in Terms : u # t => term'[u] = term[u]
  BY <1>i, <1>r, <1>a, <1>e, OneTerminal, Zenon
<1>g. conn' \in [Conns -> Sockets] /\ conn'[c] = Finished(conn[c]) /\ \A d \in Conns : d # c => conn'[d] = conn[d]
  BY <1>i, <1>c, <1>e, OneConnection, ZenonT(30)
<1>t. TypeOK'  BY <1>f, <1>g, <1>r, <1>i DEF TypeOK
<1>1. SameSlots
  <2>1. term[t] # Unused  BY <1>r, SMTT(30) DEF Unused, TerminalsAssumption
  <2> QED  BY <1>b, <1>f, <2>1, SMTT(30) DEF SameSlots
<1>2. FramesGoOn  BY <1>c, <1>g, <1>r DEF FramesGoOn
<1>3. \A d \in Conns : conn'[d].stream = conn[d].stream  BY <1>c, <1>g, SMTT(30)
<1>4. StreamsApart' /\ StreamHearsExit'  BY <1>3, <1>b, <1>f, <1>i, <1>r, SMTT(30) DEF StreamsApart, StreamHearsExit
<1>5. UnattachedHasTimer'  BY <1>b, <1>f, <1>i, SMTT(30) DEF UnattachedHasTimer
<1> QED  BY <1>t, <1>1, <1>2, <1>4, <1>5, SlotsUndisturbed DEF Inv

(* Attach: the attachment that is replaced hears an exit; a PTY that was hung up gives no stream, and
   its terminal is ending. *)
LEMMA AttachKeepsInv ==
    ASSUME TerminalsAssumption, Inv, NEW c \in Conns, NEW a \in Atts, Attach(c, a)
    PROVE  Inv'
<1>i. TypeOK /\ FramesSound /\ StreamsApart /\ StreamHearsExit /\ UnattachedHasTimer  BY DEF Inv
<1> DEFINE t == conn[c].term
           old == term[t].current
           replaced == [b \in Atts |->
                          IF b = old /\ ~att[b].closed THEN sendAndCloseAttachmentLocked(att[b])
                          ELSE IF b = a THEN FreshAtt(a, t) ELSE att[b]]
           hung == [FreshAtt(a, t) EXCEPT !.closed = TRUE]
<1>r. /\ conn[c] \in Sockets /\ conn[c].phase = "found" /\ t \in Terms /\ term[t] \in Sessions
      /\ term[t].owner \in Owners /\ ~att[a].used /\ UNCHANGED <<revoked, sweep>>
  BY <1>i DEF TypeOK, FramesSound, Attach, Busy
<1>n. a # None /\ old # a  BY <1>i, <1>r DEF StreamsApart, TerminalsAssumption
<1>f. /\ FreshAtt(a, t) \in Channels /\ FreshAtt(a, t).used /\ ~FreshAtt(a, t).closed /\ FreshAtt(a, t).term = t
      /\ hung \in Channels /\ hung.used
  BY <1>r, Zenon DEF FreshAtt, NoAtt, Channels
<1>p. /\ replaced[a] = FreshAtt(a, t)
      /\ \A b \in Atts : b # a => replaced[b] = att[b] \/ replaced[b] = sendAndCloseAttachmentLocked(att[b])
  BY <1>n
<1>q. \A b \in Atts : b # a =>
        /\ replaced[b] \in Channels /\ replaced[b].used = att[b].used /\ replaced[b].term = att[b].term
        /\ replaced[b] = att[b] \/ replaced[b].exited
  <2>1. \A b \in Atts : att[b] \in Channels  BY <1>i DEF TypeOK
  <2> QED  BY <1>p, <2>1, ExitOfAChannel
<1>s. replaced \in [Atts -> Channels]
  <2>1. \A b \in Atts : replaced[b] \in Channels  BY <1>p, <1>q, <1>f
  <2> HIDE DEF replaced
  <2>2. replaced = [b \in Atts |-> replaced[b]]  BY SMTT(30) DEF replaced
  <2> QED  BY <2>1, <2>2
<1>z. /\ Finished(conn[c]) \in Sockets /\ Finished(conn[c]).phase = "idle"
      /\ Finished(conn[c]).owner = conn[c].owner /\ Finished(conn[c]).stream = conn[c].stream
  BY <1>r, FrameOfARecord, SMTT(30)
<1>u. term[t] # Unused  BY <1>r DEF Unused, TerminalsAssumption
<1>1. CASE term[t].ending \in {"no", "told"}
  <2> DEFINE r == [term[t] EXCEPT !.current = a, !.grace = FALSE]
             q == [Finished(conn[c]) EXCEPT !.stream = a]
  <2>a. r \in Sessions  BY <1>r, Zenon DEF Sessions
  <2>b. /\ r.owner = term[t].owner /\ r.ending = term[t].ending /\ r.listed = term[t].listed
        /\ r.reserved = term[t].reserved /\ r.current = a
    BY <1>r DEF Sessions
  <2>c. q \in Sockets /\ q.owner = conn[c].owner /\ q.stream = a /\ q.phase = "idle"
    BY <1>z DEF Sockets
  <2>d. term' = [term EXCEPT ![t] = r] /\ att' = replaced  BY <1>1 DEF Attach
  <2>e. conn' = [conn EXCEPT ![c] = q]
    <3>1. conn' = [Idle(c) EXCEPT ![c].stream = a]  BY <1>1 DEF Attach
    <3>2. Idle(c) = [conn EXCEPT ![c] = Finished(conn[c])]  BY DEF Idle, Finished
    <3> QED  BY <3>1, <3>2, <1>i, Zenon DEF TypeOK
  <2> HIDE DEF r, q, replaced
  <2>f. term' \in [Terms -> Sessions] /\ term'[t] = r /\ \A u \in Terms : u # t => term'[u] = term[u]
    BY <1>i, <1>r, <2>a, <2>d, OneTerminal, Zenon
  <2>g. conn' \in [Conns -> Sockets] /\ conn'[c] = q /\ \A d \in Conns : d # c => conn'[d] = conn[d]
    BY <1>i, <2>c, <2>e, OneConnection, ZenonT(30)
  <2>t. TypeOK'  BY <1>s, <2>d, <2>f, <2>g, <1>r, <1>i DEF TypeOK
  <2>1. SameSlots  BY <1>u, <2>b, <2>f, SMTT(30) DEF SameSlots
  <2>2. FramesGoOn  BY <1>r, <2>c, <2>g, SMTT(30) DEF FramesGoOn
  <2>3. \A d \in Conns : d # c /\ conn[d].stream # None =>
          conn'[d].stream = conn[d].stream /\ conn[d].stream \in Atts \ {a}
    BY <2>g, <1>i, <1>r, SMTT(30) DEF StreamsApart, TypeOK, Sockets
  <2>4. StreamsApart'
    <3>1. \A u \in Terms : term'[u].current # None => att'[term'[u].current].used
      BY <1>f, <1>p, <1>q, <2>b, <2>d, <2>f, <1>i, SMTT(30) DEF StreamsApart, TypeOK, Sessions
    <3>2. \A d \in Conns : conn'[d].stream # None =>
            att'[conn'[d].stream].used /\ att'[conn'[d].stream].term \in Terms
      BY <1>f, <1>p, <1>q, <1>r, <2>c, <2>d, <2>g, <2>3, <1>i, SMTT(30) DEF StreamsApart
    <3>3. \A d, e \in Conns : conn'[d].stream # None /\ conn'[d].stream = conn'[e].stream => d = e
      BY <2>c, <2>g, <2>3, <1>i DEF StreamsApart
    <3> QED  BY <3>1, <3>2, <3>3 DEF StreamsApart
  <2>5. StreamHearsExit'
    BY <1>f, <1>p, <1>q, <2>c, <2>d, <2>g, <2>3, <1>i, SMTT(30) DEF StreamHearsExit
  <2>6. UnattachedHasTimer'  BY <1>n, <2>b, <2>f, <1>i, SMTT(30) DEF UnattachedHasTimer
  <2> QED  BY <2>t, <2>1, <2>2, <2>4, <2>5, <2>6, SlotsUndisturbed, SMTT(30) DEF Inv
<1>2. CASE term[t].ending \notin {"no", "told"}
  <2> DEFINE r == [term[t] EXCEPT !.current = None, !.grace = FALSE]
  <2>a. r \in Sessions  BY <1>r, Zenon DEF Sessions
  <2>b. /\ r.owner = term[t].owner /\ r.ending = term[t].ending /\ r.listed = term[t].listed
        /\ r.reserved = term[t].reserved /\ r.current = None
    BY <1>r DEF Sessions
  <2>d. /\ term' = [term EXCEPT ![t] = r] /\ conn' = [conn EXCEPT ![c] = Finished(conn[c])]
        /\ att' = [replaced EXCEPT ![a].closed = TRUE]
    BY <1>2 DEF Attach, Idle, Finished
  <2> HIDE DEF r, replaced
  <2>e. att' = [replaced EXCEPT ![a] = hung]  BY <2>d, <1>p
  <2> HIDE DEF hung
  <2>f. term' \in [Terms -> Sessions] /\ term'[t] = r /\ \A u \in Terms : u # t => term'[u] = term[u]
    BY <1>i, <1>r, <2>a, <2>d, OneTerminal, Zenon
  <2>g. conn' \in [Conns -> Sockets] /\ conn'[c] = Finished(conn[c]) /\ \A d \in Conns : d # c => conn'[d] = conn[d]
    BY <1>i, <1>z, <2>d, OneConnection, ZenonT(30)
  <2>h. att' \in [Atts -> Channels] /\ att'[a] = hung /\ \A b \in Atts : b # a => att'[b] = replaced[b]
    BY <1>s, <1>f, <2>e
  <2>t. TypeOK'  BY <2>f, <2>g, <2>h, <1>r, <1>i DEF TypeOK
  <2>1. SameSlots  BY <1>u, <2>b, <2>f DEF SameSlots
  <2>2. FramesGoOn  BY <1>r, <1>z, <2>g, SMTT(30) DEF FramesGoOn
  <2>3. \A d \in Conns : conn'[d].stream = conn[d].stream /\ (conn[d].stream # None => conn[d].stream \in Atts \ {a})
    BY <1>z, <2>g, <1>i, <1>r, SMTT(30) DEF StreamsApart, TypeOK, Sockets
  <2>4. StreamsApart'
    <3>1. \A u \in Terms : term'[u].current = None \/ term'[u].current = term[u].current  BY <2>b, <2>f, SMTT(30)
    <3>2. \A b \in Atts : att[b].used => att'[b].used /\ att'[b].term = att[b].term
      BY <1>q, <1>r, <2>h, SMTT(30)
    <3> QED  BY <2>3, <3>1, <3>2, <1>i, SMTT(30) DEF StreamsApart, TypeOK, Sessions
  <2>5. StreamHearsExit'  BY <1>q, <2>h, <2>3, <1>i, SMTT(30) DEF StreamHearsExit
  <2>6. UnattachedHasTimer'  BY <1>2, <2>b, <2>f, <1>i, SMTT(30) DEF UnattachedHasTimer
  <2> QED  BY <2>t, <2>1, <2>2, <2>4, <2>5, <2>6, SlotsUndisturbed DEF Inv
<1> QED  BY <1>1, <1>2, SMTT(30)

(* Output that is buffered or taken leaves the exit event and the end of a channel alone. *)
LEMMA ChannelKeepsInv ==
    ASSUME TerminalsAssumption, Inv, UNCHANGED <<term, revoked, sweep>>, att' \in [Atts -> Channels],
           conn' \in [Conns -> Sockets],
           \A a \in Atts : /\ att'[a].used = att[a].used /\ att'[a].term = att[a].term
                           /\ att'[a].closed = att[a].closed /\ att'[a].exited = att[a].exited,
           \A d \in Conns : /\ conn'[d].stream = conn[d].stream /\ conn'[d].phase = conn[d].phase
                            /\ conn'[d].term = conn[d].term /\ conn'[d].owner = conn[d].owner
    PROVE  Inv'
<1>i. TypeOK /\ StreamsApart /\ StreamHearsExit /\ UnattachedHasTimer  BY DEF Inv
<1>t. TypeOK'  BY <1>i DEF TypeOK
<1>1. SameSlots  BY DEF SameSlots
<1>2. FramesGoOn  BY DEF FramesGoOn
<1>3. \A d \in Conns : conn[d].stream # None => conn[d].stream \in Atts  BY <1>i DEF TypeOK, Sockets
<1>4. \A u \in Terms : term[u].current # None => term[u].current \in Atts  BY <1>i, SMTT(30) DEF TypeOK, Sessions
<1>5. StreamsApart'  BY <1>i, <1>3, <1>4, SMTT(30) DEF StreamsApart
<1>6. StreamHearsExit'  BY <1>i, <1>3 DEF StreamHearsExit
<1>7. UnattachedHasTimer'  BY <1>i, SMTT(30) DEF UnattachedHasTimer
<1> QED  BY <1>t, <1>1, <1>2, <1>5, <1>6, <1>7, SlotsUndisturbed, SMTT(30) DEF Inv

(* A chunk of output (forwardOutput). *)
LEMMA OutputKeepsInv ==
    ASSUME TerminalsAssumption, Inv, NEW t \in Terms, forwardOutput(t)
    PROVE  Inv'
<1>i. TypeOK  BY DEF Inv
<1> DEFINE a == term[t].current
           b == [att[a] EXCEPT !.out = att[a].out + 1]
<1>1. a \in Atts /\ att[a] \in Channels  BY <1>i DEF TypeOK, Sessions, forwardOutput
<1>2. b \in Channels  BY <1>1 DEF Channels
<1>3. b.used = att[a].used /\ b.term = att[a].term /\ b.closed = att[a].closed /\ b.exited = att[a].exited
  BY <1>1 DEF Channels
<1>4. att' = [att EXCEPT ![a] = b] /\ UNCHANGED <<term, conn, revoked, sweep>>  BY DEF forwardOutput
<1> HIDE DEF b
<1>5. att' \in [Atts -> Channels] /\ att'[a] = b /\ \A e \in Atts : e # a => att'[e] = att[e]
  BY <1>i, <1>1, <1>2, <1>4, OneChannel, Zenon
<1>6. conn' \in [Conns -> Sockets]  BY <1>i, <1>4 DEF TypeOK
<1> QED  BY <1>3, <1>4, <1>5, <1>6, ChannelKeepsInv

(* A chunk or the exit event reaches the client (forwardTerminalEvents). *)
LEMMA EventsKeepInv ==
    ASSUME TerminalsAssumption, Inv, NEW c \in Conns, forwardTerminalEvents(c)
    PROVE  Inv'
<1>i. TypeOK  BY DEF Inv
<1> DEFINE a == conn[c].stream
<1>1. a \in Atts /\ att[a] \in Channels /\ conn[c] \in Sockets /\ UNCHANGED <<term, revoked, sweep>>
  BY <1>i DEF TypeOK, Sockets, forwardTerminalEvents
<1>2. CASE att[a].out > 0 /\ att' = [att EXCEPT ![a].out = @ - 1] /\ UNCHANGED conn
  <2> DEFINE b == [att[a] EXCEPT !.out = att[a].out - 1]
  <2>1. b \in Channels
    <3>1. att[a].out - 1 \in Nat  BY <1>1, <1>2 DEF Channels
    <3> QED  BY <1>1, <3>1 DEF Channels
  <2>2. b.used = att[a].used /\ b.term = att[a].term /\ b.closed = att[a].closed /\ b.exited = att[a].exited
    BY <1>1 DEF Channels
  <2>3. att' = [att EXCEPT ![a] = b]  BY <1>2
  <2> HIDE DEF b
  <2>4. att' \in [Atts -> Channels] /\ att'[a] = b /\ \A e \in Atts : e # a => att'[e] = att[e]
    BY <1>i, <1>1, <2>1, <2>3, OneChannel, Zenon
  <2>5. conn' \in [Conns -> Sockets]  BY <1>i, <1>2 DEF TypeOK
  <2> QED  BY <1>1, <1>2, <2>2, <2>4, <2>5, ChannelKeepsInv
<1>3. CASE conn' = [conn EXCEPT ![c].told = TRUE] /\ UNCHANGED att
  <2> DEFINE q == [conn[c] EXCEPT !.told = TRUE]
  <2>1. q \in Sockets  BY <1>1, Zenon DEF Sockets
  <2>2. q.stream = conn[c].stream /\ q.phase = conn[c].phase /\ q.term = conn[c].term /\ q.owner = conn[c].owner
    BY <1>1 DEF Sockets
  <2>3. conn' = [conn EXCEPT ![c] = q]  BY <1>3
  <2> HIDE DEF q
  <2>4. conn' \in [Conns -> Sockets] /\ conn'[c] = q /\ \A d \in Conns : d # c => conn'[d] = conn[d]
    BY <1>i, <2>1, <2>3, OneConnection, Zenon
  <2>5. att' \in [Atts -> Channels]  BY <1>i, <1>3 DEF TypeOK
  <2> QED  BY <1>1, <1>3, <2>2, <2>4, <2>5, ChannelKeepsInv
<1> QED  BY <1>2, <1>3 DEF forwardTerminalEvents
-----------------------------------------------------------------------------
(* The service starts without terminals, attachments and connections. *)
LEMMA InitInv == ASSUME TerminalsAssumption, Init PROVE Inv
<1>1. TypeOK  BY NothingIsTyped DEF Init, TypeOK
<1>2. \A c \in Conns : conn[c].phase = "gone" /\ conn[c].stream = None  BY DEF Init, Gone
<1>3. \A t \in Terms : ~term[t].reserved /\ ~term[t].listed /\ term[t].current = None  BY DEF Init, Unused
<1>4. FramesSound /\ OneOpener /\ SlotsExplained
  BY <1>2, <1>3 DEF FramesSound, OneOpener, SlotsExplained, Busy, Openers
<1>5. Limited
  <2>1. \A o \in Owners : Owned(o) = {}  BY <1>3 DEF Owned
  <2> QED  BY <2>1, FS_EmptySet DEF Limited, TerminalsAssumption
<1>6. StreamsApart /\ StreamHearsExit /\ UnattachedHasTimer
  BY <1>2, <1>3 DEF StreamsApart, StreamHearsExit, UnattachedHasTimer
<1> QED  BY <1>1, <1>4, <1>5, <1>6 DEF Inv

(* Every step of every goroutine keeps the invariant. *)
LEMMA NextKeepsInv == ASSUME TerminalsAssumption, Inv, [Next]_vars PROVE Inv'
<1>i. TypeOK /\ revoked \subseteq Owners /\ sweep \subseteq Terms  BY DEF Inv, TypeOK
<1>1. ASSUME NEW c \in Conns, NEW o \in Owners, Connect(c, o) PROVE Inv'  BY <1>1, ConnectKeepsInv
<1>2. ASSUME NEW c \in Conns, NEW t \in Terms, ReadFrame(c, t) PROVE Inv'  BY <1>2, ReadFrameKeepsInv
<1>3. ASSUME NEW c \in Conns, NEW t \in Terms, Close(c, t) PROVE Inv'
  BY <1>3, <1>i, EndKeepsInv DEF Close
<1>4. ASSUME NEW c \in Conns, Handling(c) PROVE Inv'
  <2>1. CASE ReplaceStream(c)  BY <2>1, StreamClosesKeepsInv
  <2>2. CASE Reserve(c)  BY <2>2, ReserveKeepsInv
  <2>3. CASE StartTerminal(c)  BY <2>3, StartKeepsInv
  <2>4. CASE waitForExit(c)  BY <2>4, WaitKeepsInv
  <2>5. CASE \E a \in Atts : List(c, a)  BY <2>5, ListKeepsInv
  <2>6. CASE LookupSession(c)  BY <2>6, LookupKeepsInv
  <2>7. CASE \E a \in Atts : Attach(c, a)  BY <2>7, AttachKeepsInv
  <2> QED  BY <1>4, <2>1, <2>2, <2>3, <2>4, <2>5, <2>6, <2>7 DEF Handling, Opening, Attaching
<1>5. ASSUME NEW c \in Conns, Disconnect(c) PROVE Inv'  BY <1>5, StreamClosesKeepsInv, SMTT(30)
<1>6. ASSUME NEW c \in Conns, forwardTerminalEvents(c) PROVE Inv'  BY <1>6, EventsKeepInv
<1>7. ASSUME NEW t \in Terms, forwardOutput(t) PROVE Inv'  BY <1>7, OutputKeepsInv
<1>8. ASSUME NEW t \in Terms, Ending(t) PROVE Inv'  BY <1>8, ProcessKeepsInv, ReleaseKeepsInv, SMTT(30) DEF Ending
<1>9. ASSUME NEW t \in Terms, ProcessExits(t) PROVE Inv'  BY <1>9, ProcessKeepsInv
<1>10. ASSUME NEW t \in Terms, Reap(t) PROVE Inv'
  <2>1. CASE term[t].ending # "no"  BY <1>10, <2>1, ProcessKeepsInv
  <2>2. CASE term[t].ending = "no"
    <3>1. endSession(t) /\ UNCHANGED <<conn, revoked, sweep>>  BY <1>10, <2>2 DEF Reap
    <3> QED  BY <3>1, <1>i, EndKeepsInv
  <2> QED  BY <2>1, <2>2
<1>11. ASSUME NEW t \in Terms, GraceOver(t) \/ IdleOver(t) PROVE Inv'
  BY <1>11, <1>i, EndKeepsInv DEF GraceOver, IdleOver
<1>12. ASSUME NEW t \in Terms, Sweep(t) PROVE Inv'
  <2>1. UNCHANGED <<conn, revoked>> /\ sweep' \subseteq Terms  BY <1>12, <1>i DEF Sweep
  <2>2. endSession(t) \/ UNCHANGED <<term, att>>  BY <1>12 DEF Sweep
  <2> QED  BY <2>1, <2>2, <1>i, EndKeepsInv, SweepsKeepInv
<1>13. ASSUME NEW o \in Owners, CloseOwner(o) PROVE Inv'
  <2>1. revoked' \subseteq Owners /\ sweep' \subseteq Terms /\ UNCHANGED <<term, att, conn>>
    BY <1>13, <1>i DEF CloseOwner, Owned
  <2> QED  BY <2>1, SweepsKeepInv
<1>14. CASE CloseAll
  <2>1. revoked' \subseteq Owners /\ sweep' \subseteq Terms /\ UNCHANGED <<term, att, conn>>
    BY <1>14, <1>i DEF CloseAll
  <2> QED  BY <2>1, SweepsKeepInv
<1>15. CASE UNCHANGED vars  BY <1>15, <1>i, SweepsKeepInv DEF vars
<1> QED
  BY <1>1, <1>2, <1>3, <1>4, <1>5, <1>6, <1>7, <1>8, <1>9, <1>10, <1>11, <1>12, <1>13, <1>14, <1>15, SMTT(30) DEF Next

(* The terminal service loses no slot, no exit and no timer: an owner never has more terminals than
   MaxSessionsPerOwner, and each taken slot is that of a terminal that is listed or being opened
   (Open, releaseOwnerSession); a stream that was closed under its connection holds the exit event
   (sendAndCloseAttachmentLocked); a terminal nobody is attached to has its grace timer (Detach). *)
THEOREM TerminalsSound == ASSUME TerminalsAssumption PROVE Spec => []TerminalsAreSound
<1>1. Init => Inv  BY InitInv
<1>2. Inv /\ [Next]_vars => Inv'  BY NextKeepsInv
<1>3. Inv => TerminalsAreSound
  BY DEF Inv, TerminalsAreSound, SlotsBelong, SlotsExplained, Limited
<1> QED  BY <1>1, <1>2, <1>3, PTL DEF Spec
=============================================================================
