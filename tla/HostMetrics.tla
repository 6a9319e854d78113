---------------------------- MODULE HostMetrics ----------------------------
(***************************************************************************)
(* The host metrics collector: a loop that samples every ActiveInterval    *)
(* while a dashboard polls and every BackgroundInterval otherwise, and     *)
(* requests that wake it, sample themselves when the newest sample is old, *)
(* and read the history.  A sample has the bytes one device moved since    *)
(* the previous reading of its counter.                                    *)
(***************************************************************************)
EXTENDS Integers, Sequences, FiniteSets

CONSTANTS
  Clients, Loop,              \* the dashboards; the collector's goroutine
  ActiveInterval, BackgroundInterval, ActiveTTL,
  HistoryWindow, MaxSamples, ProcessSampleInterval,
  MaxTime, MaxBytes           \* bounds of the instance

HostMetricsAssumption ==
  /\ Loop \notin Clients
  /\ {ActiveInterval, BackgroundInterval, ActiveTTL, HistoryWindow, MaxSamples} \subseteq Nat \ {0}
  /\ ProcessSampleInterval \in Nat /\ ActiveInterval <= BackgroundInterval

VARIABLES
  now,
  collector,  \* what c.mu guards, and the channel that wakes the loop
  reading,    \* what c.sampleMu guards: its holder, the last counters
  proc,       \* the loop and the requests: the step each is at
  device      \* the kernel's counter; what moved, and whether it went back, since it was read

vars == <<now, collector, reading, proc, device>>

Samplers == Clients \cup {Loop}
None == 0
At(pc) == [pc |-> pc, at |-> None, since |-> None, asked |-> None, have |-> {}]

Init ==
  /\ now = 1
  /\ collector = [samples |-> <<>>, activeUntil |-> None, wake |-> FALSE]
  /\ reading = [holder |-> {}, sample |-> {}, at |-> None, counter |-> 0, processesAt |-> None]
  /\ proc = [p \in Samplers |-> IF p = Loop THEN At("meta") ELSE At("idle")]
  /\ device = [counter |-> 0, moved |-> 0, reset |-> FALSE]

Newest(s) == s[Len(s)].at
Goto(p, pc) == proc' = [proc EXCEPT ![p].pc = pc]

currentIntervalLocked == IF now < collector.activeUntil THEN ActiveInterval ELSE BackgroundInterval

(* activeUntil never goes back: the clock does not; the channel holds one wake-up. *)
markActive(c) ==
  collector' = [collector EXCEPT !.activeUntil = now + ActiveTTL, !.wake = TRUE]

shouldSample == collector.samples = <<>> \/ now - Newest(collector.samples) >= ActiveInterval

(* Snapshot: a request; then the decision to sample, on a clock read later. *)
Snapshot(c) ==
  /\ proc[c].pc = "idle"
  /\ markActive(c)
  /\ proc' = [proc EXCEPT ![c].pc = "check", ![c].asked = now]
  /\ UNCHANGED <<now, reading, device>>

Check(c) ==
  /\ proc[c].pc = "check"
  /\ Goto(c, IF shouldSample THEN "meta" ELSE "reply")
  /\ UNCHANGED <<now, collector, reading, device>>

(* Mutation: the filter takes samples one interval after `since`. *)
filterMetricHistorySkips(s, since) == {s[i].at : i \in {j \in DOMAIN s : s[j].at > since + ActiveInterval}}
filterMetricHistorySince(s, since) == {s[i].at : i \in {j \in DOMAIN s : s[j].at > since}}

(* The answer: the newest sample, and the history after the one the client had last. *)
Reply(c) ==
  /\ proc[c].pc = "reply"
  /\ LET history == filterMetricHistorySince(collector.samples, proc[c].since)
     IN  proc' = [proc EXCEPT ![c].pc = "idle", ![c].asked = None, ![c].since = Newest(collector.samples), ![c].have = @ \cup history]
  /\ UNCHANGED <<now, collector, reading, device>>

(* sampleAndStore: the container names come first, outside the lock. *)
processContainerMetadata(p) ==
  /\ proc[p].pc = "meta"
  /\ proc' = [proc EXCEPT ![p].pc = "lock", ![p].at = now]
  /\ UNCHANGED <<now, collector, reading, device>>

(* Two clock readings under the lock differ: the clock counts nanoseconds. *)
readSample(p) ==
  /\ proc[p].pc = "lock" /\ reading.holder = {} /\ now > reading.at
  /\ reading' = [reading EXCEPT !.holder = {p}, !.at = now]
  /\ Goto(p, "read")
  /\ UNCHANGED <<now, collector, device>>

CounterDelta(counter, previous) == IF counter >= previous THEN counter - previous ELSE 0

readProcessUsageForSample ==
  IF reading.processesAt # None /\ reading.at - reading.processesAt < ProcessSampleInterval THEN reading.processesAt ELSE reading.at

(* readDiskIOUsage and readNetworkUsage: later than the sample's time, the reads before may wait. *)
readDiskIOUsage(p) ==
  /\ proc[p].pc = "read"
  /\ LET first == reading.processesAt = None
         bytes == IF first THEN 0 ELSE CounterDelta(device.counter, reading.counter)
     IN  reading' = [reading EXCEPT !.counter = device.counter, !.processesAt = readProcessUsageForSample,
                       !.sample = {[at |-> reading.at, bytes |-> bytes, real |-> IF first THEN 0 ELSE device.moved, exact |-> ~device.reset]}]
  /\ device' = [device EXCEPT !.moved = 0, !.reset = FALSE]
  /\ Goto(p, "store")
  /\ UNCHANGED <<now, collector>>

pruneSamplesLocked(s) == SelectSeq(s, LAMBDA x : x.at >= Newest(s) - HistoryWindow)

LimitSamples(s) == IF Len(s) > MaxSamples THEN SubSeq(s, Len(s) - MaxSamples + 1, Len(s)) ELSE s

sampleAndStore(p) ==
  /\ proc[p].pc = "store"
  /\ \E s \in reading.sample :
       collector' = [collector EXCEPT !.samples = LimitSamples(pruneSamplesLocked(Append(@, s)))]
  /\ reading' = [reading EXCEPT !.holder = {}, !.sample = {}]
  /\ proc' = [proc EXCEPT ![p].pc = IF p = Loop THEN "arm" ELSE "reply", ![p].at = None]
  /\ UNCHANGED <<now, device>>

(* Start: arm the timer, then wait for it, for a wake-up, or for the shutdown. *)
Arm ==
  /\ \/ proc[Loop].pc = "arm" /\ proc' = [proc EXCEPT ![Loop].pc = "armed", ![Loop].at = now + currentIntervalLocked]
     \/ proc[Loop].pc = "armed" /\ Goto(Loop, "wait")
  /\ UNCHANGED <<now, collector, reading, device>>

Start ==
  /\ proc[Loop].pc = "wait"
  /\ \/ now >= proc[Loop].at /\ proc' = [proc EXCEPT ![Loop].pc = "meta", ![Loop].at = None] /\ UNCHANGED collector
     \/ /\ collector.wake /\ collector' = [collector EXCEPT !.wake = FALSE]
        /\ proc' = [proc EXCEPT ![Loop].pc = "arm", ![Loop].at = None]
     \/ proc' = [proc EXCEPT ![Loop] = At("stopped")] /\ UNCHANGED collector
  /\ UNCHANGED <<now, reading, device>>

Tick == now < MaxTime /\ now' = now + 1 /\ UNCHANGED <<collector, reading, proc, device>>

(* The kernel: bytes are moved; the device goes and comes back with its counter at zero. *)
Transfer ==
  /\ device.counter < MaxBytes /\ device.moved < MaxBytes
  /\ device' = [device EXCEPT !.counter = @ + 1, !.moved = @ + 1]
  /\ UNCHANGED <<now, collector, reading, proc>>

Replug ==
  /\ device.counter > 0
  /\ device' = [device EXCEPT !.counter = 0, !.reset = TRUE]
  /\ UNCHANGED <<now, collector, reading, proc>>

Sampling(p) == processContainerMetadata(p) \/ readSample(p) \/ readDiskIOUsage(p) \/ sampleAndStore(p)
Next ==
  \/ Tick \/ Transfer \/ Replug \/ Arm \/ Start
  \/ \E c \in Clients : Snapshot(c) \/ Check(c) \/ Reply(c)
  \/ \E p \in Samplers : Sampling(p)

Spec == Init /\ [][Next]_vars

(* The history is in the order of its sample times, although the loop and requests sample
   concurrently, and it spans at most the window: what filtering by `since` and pruning rely on. *)
HistoryInOrder ==
  LET s == collector.samples
  IN  /\ \A i, j \in DOMAIN s : i < j => s[i].at < s[j].at
      /\ s # <<>> => Newest(s) - s[1].at <= HistoryWindow

(* A client that asks with `since` has every sample the collector still holds up to the one
   it was given last: none is stored behind its back. *)
PollerMissesNothing ==
  \A c \in Clients : \A i \in DOMAIN collector.samples :
    collector.samples[i].at <= proc[c].since => collector.samples[i].at \in proc[c].have

(* What a request is given was sampled less than one active interval before it asked. *)
CurrentIsFresh ==
  \A c \in Clients : proc[c].pc = "reply" => Newest(collector.samples) > proc[c].asked - ActiveInterval

(* A dashboard that polls never waits for a background timer: when the loop sleeps and no
   wake-up is pending, it sleeps no longer than the active interval. *)
ActivePollIsNotSlept ==
  (proc[Loop].pc = "wait" /\ now < collector.activeUntil /\ ~collector.wake) => proc[Loop].at <= now + ActiveInterval

(* The bytes of a sample are those the device moved since the reading before; when its
   counter went back they are never more. *)
ThroughputIsReal ==
  \A i \in DOMAIN collector.samples :
    LET s == collector.samples[i] IN s.bytes <= s.real /\ (s.exact => s.bytes = s.real)

(* Samples taken by the loop and by requests together form one ordered history from which a
   polling client misses nothing, and each is fresh and real. *)
SamplesAreSound ==
  HistoryInOrder /\ PollerMissesNothing /\ CurrentIsFresh /\ ActivePollIsNotSlept /\
  ThroughputIsReal
=============================================================================
