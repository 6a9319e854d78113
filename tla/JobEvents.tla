------------------------------ MODULE JobEvents ------------------------------
(***************************************************************************)
(* The events of one job: their sequence numbers in the database, the live *)
(* channels of the job service, a WebSocket stream that subscribes, replays*)
(* and forwards, and the browser hook that keeps what it is shown.         *)
(*                                                                         *)
(* An event is its sequence number; log[e] is the state it carries.  A     *)
(* transaction, a section under the mutex of the service and a frame that  *)
(* is written and received are each one step.                              *)
(***************************************************************************)
EXTENDS Naturals, Sequences, FiniteSets

CONSTANTS
    Publishers,      \* goroutines that publish events of the job
    NoPublisher,     \* no publisher
    Streams,         \* streams of browsers that watch the job
    Cap,             \* capacity of a live channel (64 in the code)
    MaxEvents,       \* bound on the events of the job
    MaxReplayErrors, \* bound on failed replays
    MaxReconnects,   \* bound on lost connections
    MaxPolls         \* bound on REST polls while disconnected

ASSUME EventsAssumption ==
    /\ NoPublisher \notin Publishers
    /\ Cap \in Nat \ {0}
    /\ {MaxEvents, MaxReplayErrors, MaxReconnects, MaxPolls} \subseteq Nat

VARIABLES
    rowState,      \* jobs.state
    log,           \* job_events ordered by sequence: the state of each
    eventLock,     \* the publisher that holds the event lock of the job
    outbox,        \* committed events each publisher still has to publish
    channels,      \* the streams its publishLive copied, <<>> before it did
    registered,    \* streams in subsByJob
    buffer,        \* events in the channel of each stream
    stream,        \* how far the handler of each stream has come
    replay,        \* replayed events it still has to write
    shown,         \* events the browser has, in the order it shows them
    jobState,      \* the state the browser shows
    poll,          \* the REST answers of a poll under way
    lost,          \* streams that lost an event to a full channel (history)
    replayErrors, reconnects, polls

job == <<rowState, log>>
publisher == <<eventLock, outbox, channels>>
server == <<registered, buffer, stream, replay>>
browser == <<shown, jobState, poll>>
bounds == <<replayErrors, reconnects, polls>>
eventsVars == <<job, publisher, server, browser, lost, bounds>>

Active == {"running", "cancel_requested"}
Terminal == {"succeeded", "failed"}
Connected(c) == stream[c] # "idle"
NoPoll == [job |-> "unread", events |-> <<>>]
Numbers(n) == [i \in 1..n |-> i]
Elements(s) == {s[i] : i \in DOMAIN s}

EventsInit ==
    /\ rowState = "absent" /\ log = <<>>
    /\ eventLock = NoPublisher
    /\ outbox = [p \in Publishers |-> <<>>] /\ channels = [p \in Publishers |-> <<>>]
    /\ registered = {}
    /\ buffer = [c \in Streams |-> <<>>]
    /\ stream = [c \in Streams |-> "idle"]
    /\ replay = [c \in Streams |-> <<>>]
    /\ shown = [c \in Streams |-> <<>>]
    /\ jobState = [c \in Streams |-> "unknown"]
    /\ poll = [c \in Streams |-> NoPoll]
    /\ lost = {}
    /\ replayErrors = 0 /\ reconnects = 0 /\ polls = 0

-----------------------------------------------------------------------------
(* Committing events.  The event lock of the job is held from before the    *)
(* transaction until the events are published.  The transaction numbers     *)
(* the events from the counter in the row.                                  *)

createJobEvents(p, state, n) ==
    /\ Len(log) + n <= MaxEvents
    /\ log' = log \o [i \in 1..n |-> state]
    /\ outbox' = [outbox EXCEPT ![p] = [i \in 1..n |-> Len(log) + i]]
    /\ UNCHANGED <<channels, server, browser, lost, bounds>>

CreateJobWithInitialEvent(p) ==
    /\ rowState' = "running"
    /\ createJobEvents(p, "running", 1)

TransitionJobWithEvents(p, allowed, state, n) ==
    /\ rowState \in allowed
    /\ rowState' = state
    /\ createJobEvents(p, state, n)

(* An appended event takes the state of the row. *)
AppendJobEvent(p) ==
    /\ createJobEvents(p, rowState, 1)
    /\ UNCHANGED rowState

lockJobEvents(p) == eventLock = NoPublisher /\ eventLock' = p

start(p) == rowState = "absent" /\ lockJobEvents(p) /\ CreateJobWithInitialEvent(p)

(* Callers publish while their job is active. *)
PublishEvent(p) == rowState \in Active /\ lockJobEvents(p) /\ AppendJobEvent(p)

Cancel(p) ==
    lockJobEvents(p) /\ TransitionJobWithEvents(p, {"running"}, "cancel_requested", 1)

FinishSucceeded(p) ==
    lockJobEvents(p) /\ TransitionJobWithEvents(p, Active, "succeeded", 1)

(* A failure is described by two events, job_error and job_finished. *)
finishTerminal(p) ==
    lockJobEvents(p) /\ TransitionJobWithEvents(p, Active, "failed", 2)

(* publishLive copies the channels under the mutex and sends after it. *)
CopyChannels(p) ==
    /\ outbox[p] # <<>> /\ channels[p] = <<>>
    /\ channels' = [channels EXCEPT ![p] = <<registered>>]
    /\ UNCHANGED <<job, eventLock, outbox, server, browser, lost, bounds>>

SendLive(p) ==
    /\ channels[p] # <<>>
    /\ buffer' = [c \in Streams |-> IF c \in channels[p][1] /\ Len(buffer[c]) < Cap
                                    THEN Append(buffer[c], Head(outbox[p])) ELSE buffer[c]]
    /\ lost' = lost \cup {c \in channels[p][1] : Len(buffer[c]) >= Cap}
    /\ outbox' = [outbox EXCEPT ![p] = Tail(@)]
    /\ channels' = [channels EXCEPT ![p] = <<>>]
    /\ UNCHANGED <<job, eventLock, registered, stream, replay, browser, bounds>>

unlockEvents(p) ==
    /\ eventLock = p /\ outbox[p] = <<>>
    /\ eventLock' = NoPublisher
    /\ UNCHANGED <<job, outbox, channels, server, browser, lost, bounds>>

-----------------------------------------------------------------------------
(* jobs.subscribe: register the channel, acknowledge, replay what is        *)
(* stored, then forward.  A failed replay answers with an error frame and   *)
(* leaves the channel registered with nobody reading it.                    *)

(* Mutation: the stored events are read before the channel is registered. *)
SubscribeJobLate(c) ==
    /\ stream[c] = "idle" /\ rowState # "absent"
    /\ stream' = [stream EXCEPT ![c] = "subscribed"]
    /\ poll' = [poll EXCEPT ![c] = NoPoll]
    /\ UNCHANGED <<job, publisher, registered, buffer, replay, shown, jobState, lost, bounds>>

SubscribeJob(c) ==
    /\ stream[c] = "idle" /\ rowState # "absent"
    /\ registered' = registered \cup {c}
    /\ stream' = [stream EXCEPT ![c] = "subscribed"]
    /\ poll' = [poll EXCEPT ![c] = NoPoll]
    /\ UNCHANGED <<job, publisher, buffer, replay, shown, jobState, lost, bounds>>

ReplayEvents(c) ==
    /\ stream[c] = "subscribed"
    /\ replay' = [replay EXCEPT ![c] = Numbers(Len(log))]
    /\ stream' = [stream EXCEPT ![c] = "replaying"]
    /\ UNCHANGED <<job, publisher, registered, buffer, browser, lost, bounds>>

ReplayError(c) ==
    /\ stream[c] = "subscribed"
    /\ replayErrors < MaxReplayErrors
    /\ replayErrors' = replayErrors + 1
    /\ stream' = [stream EXCEPT ![c] = "orphaned"]
    /\ UNCHANGED <<job, publisher, registered, buffer, replay, browser, lost, reconnects, polls>>

(* The hook drops an event it has seen. *)
Receive(c, e) ==
    IF e \in Elements(shown[c])
    THEN UNCHANGED <<shown, jobState>>
    ELSE /\ shown' = [shown EXCEPT ![c] = Append(@, e)]
         /\ jobState' = [jobState EXCEPT ![c] = log[e]]

WriteReplayed(c) ==
    /\ stream[c] = "replaying" /\ replay[c] # <<>>
    /\ Receive(c, Head(replay[c]))
    /\ replay' = [replay EXCEPT ![c] = Tail(@)]
    /\ UNCHANGED <<job, publisher, registered, buffer, stream, poll, lost, bounds>>

StartForwarding(c) ==
    /\ stream[c] = "replaying" /\ replay[c] = <<>>
    /\ stream' = [stream EXCEPT ![c] = "live"]
    /\ UNCHANGED <<job, publisher, registered, buffer, replay, browser, lost, bounds>>

forwardJobEvents(c) ==
    /\ stream[c] = "live" /\ buffer[c] # <<>>
    /\ Receive(c, Head(buffer[c]))
    /\ buffer' = [buffer EXCEPT ![c] = Tail(@)]
    /\ UNCHANGED <<job, publisher, registered, stream, replay, poll, lost, bounds>>

(* The connection ends.  The channel is unregistered and forgotten; a copy  *)
(* publishLive made of it is sent to nobody.                                *)
Disconnect(c) ==
    /\ Connected(c)
    /\ reconnects < MaxReconnects
    /\ reconnects' = reconnects + 1
    /\ registered' = registered \ {c}
    /\ channels' = [p \in Publishers |-> IF channels[p] = <<>> THEN <<>> ELSE <<channels[p][1] \ {c}>>]
    /\ buffer' = [buffer EXCEPT ![c] = <<>>]
    /\ replay' = [replay EXCEPT ![c] = <<>>]
    /\ stream' = [stream EXCEPT ![c] = "idle"]
    /\ UNCHANGED <<job, eventLock, outbox, browser, lost, replayErrors, polls>>

-----------------------------------------------------------------------------
(* While disconnected, the hook asks for the job and for its events at once *)
(* and merges the answers when both are there.  The events may fail, which  *)
(* merges none.                                                             *)

PollJob(c) ==
    /\ ~Connected(c) /\ rowState # "absent" /\ poll[c].job = "unread"
    /\ polls < MaxPolls
    /\ polls' = polls + 1
    /\ poll' = [poll EXCEPT ![c].job = rowState]
    /\ UNCHANGED <<job, publisher, server, shown, jobState, lost, replayErrors, reconnects>>

PollEvents(c) ==
    /\ ~Connected(c) /\ rowState # "absent" /\ poll[c].events = <<>>
    /\ MaxPolls > 0
    /\ \E answer \in {0, Len(log)} : poll' = [poll EXCEPT ![c].events = <<answer>>]
    /\ UNCHANGED <<job, publisher, server, shown, jobState, lost, bounds>>

(* The numbers of the set S in their order. *)
Nth(S, i) == CHOOSE e \in S : Cardinality({x \in S : x <= e}) = i
InOrder(S) == [i \in 1..Cardinality(S) |-> Nth(S, i)]

(* The answer lists the events in their order; those the browser has stay where they are. *)
mergeEvents(existing, incoming) == existing \o InOrder(Elements(incoming) \ Elements(existing))

ApplyPoll(c) ==
    /\ poll[c].job # "unread" /\ poll[c].events # <<>>
    /\ shown' = [shown EXCEPT ![c] = mergeEvents(@, Numbers(poll[c].events[1]))]
    /\ jobState' = [jobState EXCEPT ![c] = poll[c].job]
    /\ poll' = [poll EXCEPT ![c] = NoPoll]
    /\ UNCHANGED <<job, publisher, server, lost, bounds>>

-----------------------------------------------------------------------------
PublisherStep(p) == CopyChannels(p) \/ SendLive(p) \/ unlockEvents(p)

HandlerStep(c) ==
    \/ ReplayEvents(c) \/ WriteReplayed(c) \/ StartForwarding(c) \/ forwardJobEvents(c)

EventsNext ==
    \/ \E p \in Publishers :
          \/ start(p) \/ PublishEvent(p) \/ Cancel(p)
          \/ FinishSucceeded(p) \/ finishTerminal(p)
          \/ PublisherStep(p)
    \/ \E c \in Streams :
          \/ SubscribeJob(c) \/ HandlerStep(c) \/ ReplayError(c) \/ Disconnect(c)
          \/ PollJob(c) \/ PollEvents(c) \/ ApplyPoll(c)

EventsSpec == EventsInit /\ [][EventsNext]_eventsVars

-----------------------------------------------------------------------------
(* Properties. *)

(* Every variable keeps its type, and a live channel its capacity. *)
EventsTypeOK ==
    /\ rowState \in {"absent"} \cup Active \cup Terminal
    /\ log \in Seq(Active \cup Terminal) /\ Len(log) <= MaxEvents
    /\ eventLock \in Publishers \cup {NoPublisher}
    /\ registered \subseteq Streams
    /\ \A c \in Streams :
          /\ Elements(buffer[c]) \cup Elements(replay[c]) \cup Elements(shown[c]) \subseteq 1..Len(log)
          /\ Len(buffer[c]) <= Cap
          /\ stream[c] \in {"idle", "subscribed", "replaying", "orphaned", "live"}
          /\ jobState[c] \in {"unknown"} \cup Active \cup Terminal

(* The states of a job's events, in sequence order, never move backwards:   *)
(* AppendJobEvent takes the state from the row, so an event after a         *)
(* cancellation or a finish does not claim that the job is running.         *)
Rank(state) == CASE state = "running" -> 0 [] state = "cancel_requested" -> 1 [] OTHER -> 2
EventStatesForward ==
    \A i, j \in 1..Len(log) : i < j => Rank(log[i]) <= Rank(log[j])

(* Subscribing before the replay leaves no gap: while a stream is connected *)
(* and served, every event of the job has been shown, waits in the replay   *)
(* or in the channel, is still to be published, or was dropped because the  *)
(* channel was full.                                                        *)
NothingMissed ==
    \A c \in Streams : stream[c] \in {"replaying", "live"} /\ c \notin lost =>
        1..Len(log) \subseteq
            Elements(shown[c]) \cup Elements(replay[c]) \cup Elements(buffer[c])
                \cup UNION {Elements(outbox[p]) : p \in Publishers}

(* As long as nothing was dropped, the browser lists the events of the job  *)
(* in their order and once, through duplicates of replay and channel,       *)
(* reconnects and polls: it relies on the event lock (channels are filled   *)
(* in commit order) and on the hook's own deduplication.                    *)
ShownInOrder ==
    \A c \in Streams \ lost : \A i \in 1..Len(shown[c]) : shown[c][i] = i

(* A stream that lost nothing shows every event of its job, in order and once: what subscribing
   before the replay, the event lock and the hook's deduplication are for; and the events never
   tell of a state that was left. *)
StreamIsFaithful == NothingMissed /\ ShownInOrder /\ EventStatesForward
=============================================================================
