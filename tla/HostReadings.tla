---------------------------- MODULE HostReadings ----------------------------
(***************************************************************************)
(* What a sample makes of the host's tables: the filesystems of the mount  *)
(* table with the one that holds the data directory marked primary, the    *)
(* busiest processes, the temperature of the CPU.  The host changes the    *)
(* tables; the operators are the functions of the collector.               *)
(***************************************************************************)
EXTENDS Integers, Sequences, FiniteSets

CONSTANTS
  MountTables,    \* sequences of mounts, in the order of mountinfo
  rootDir,        \* the data directory, as a sequence of path elements
  SensorTables,   \* sets of temperature sensors
  ProcessTables,  \* sets of processes
  PerMetricLimit, MaxItems, MaxSensors

VARIABLES mounts, sensors, processes

vars == <<mounts, sensors, processes>>

Init == mounts = <<>> /\ sensors = {} /\ processes = {}

Remount == mounts' \in (IF mounts = <<>> THEN MountTables ELSE {<<>>}) /\ UNCHANGED <<sensors, processes>>
Heat == sensors' \in (IF sensors = {} THEN SensorTables ELSE {{}}) /\ UNCHANGED <<mounts, processes>>
Work == processes' \in (IF processes = {} THEN ProcessTables ELSE {{}}) /\ UNCHANGED <<mounts, sensors>>
Next == Remount \/ Heat \/ Work
Spec == Init /\ [][Next]_vars

pathHasPrefix(path, prefix) == Len(prefix) <= Len(path) /\ SubSeq(path, 1, Len(prefix)) = prefix

(* Virtual and network filesystems are left out; of two mounts on one point the first counts. *)
Candidates ==
  {mounts[i] : i \in {j \in DOMAIN mounts : /\ mounts[j].kind = "local"
                                           /\ ~\E k \in 1..(j - 1) : mounts[k].kind = "local" /\ mounts[k].point = mounts[j].point}}

Covers(m) == pathHasPrefix(rootDir, m.point)

(* Mutation: a mount is not preferred for covering the data directory. *)
betterIgnoresRoot(m, n) ==
  IF m.whole # n.whole THEN m.whole ELSE Len(m.point) < Len(n.point)
(* Mount points of one length are told apart by their names, which the instance has in a chain. *)
betterFilesystemCandidate(m, n) ==
  IF Covers(m) # Covers(n) THEN Covers(m)
  ELSE IF m.whole # n.whole THEN m.whole ELSE Len(m.point) < Len(n.point)

filesystemIdentityKey(m) == m.device
dedupeFilesystemCandidates ==
  {m \in Candidates : \A n \in Candidates \ {m} : filesystemIdentityKey(n) = filesystemIdentityKey(m) => betterFilesystemCandidate(m, n)}

rootCoveredByNetworkMount == \E i \in DOMAIN mounts : mounts[i].kind = "network" /\ Covers(mounts[i])

Primary(fs) == {m \in fs : Covers(m) /\ \A n \in fs : Covers(n) => Len(m.point) >= Len(n.point)}
(* The filesystems listed, the primary ones, and whether the data directory is asked for itself. *)
readFilesystems ==
  LET fs == dedupeFilesystemCandidates
  IN  [listed |-> fs, primary |-> Primary(fs), asked |-> Primary(fs) = {} /\ ~rootCoveredByNetworkMount]

(* sortProcessInfos: by CPU or by memory, then the other, then the name, here the pid. *)
Ahead(p, q, by) ==
  LET a == IF by = "cpu" THEN <<p.cpu, p.memory>> ELSE <<p.memory, p.cpu>>
      b == IF by = "cpu" THEN <<q.cpu, q.memory>> ELSE <<q.memory, q.cpu>>
  IN  a[1] > b[1] \/ (a[1] = b[1] /\ (a[2] > b[2] \/ (a[2] = b[2] /\ p.pid < q.pid)))
First(ps, by, limit) == {p \in ps : Cardinality({q \in ps : Ahead(q, p, by)}) < limit}
selectTopProcesses(ps) == First(First(ps, "cpu", PerMetricLimit) \cup First(ps, "memory", PerMetricLimit), "cpu", MaxItems)

(* A sensor's class stands for its name and label. *)
cpuTemperatureSensorScore(s) == CASE s.class = "tctl" -> 0 [] s.class = "package" -> 1 [] OTHER -> 4
isCPUTemperatureSensor(s) == s.class \in {"tctl", "package", "core"}

SensorBefore(s, t) ==
  IF isCPUTemperatureSensor(s) # isCPUTemperatureSensor(t) THEN isCPUTemperatureSensor(s)
  ELSE s.celsius > t.celsius \/ (s.celsius = t.celsius /\ s.key < t.key)
sortAndLimitTemperatureSensors(ss) == {s \in ss : Cardinality({t \in ss : SensorBefore(t, s)}) < MaxSensors}

selectCPUTemperatureSensor(ss) ==
  LET score(s) == cpuTemperatureSensorScore(s)
      cpu == {s \in ss : isCPUTemperatureSensor(s)}
  IN  {s \in cpu : \A t \in cpu \ {s} :
         score(s) < score(t) \/ (score(s) = score(t) /\ (s.celsius > t.celsius \/ (s.celsius = t.celsius /\ s.key < t.key)))}
readTemperatureUsage == selectCPUTemperatureSensor(sortAndLimitTemperatureSensors(sensors))

(* Every local filesystem is listed once however often it is bind mounted, and the mount that
   stands for it covers the data directory if one of its mounts does. *)
ListedOnce ==
  \A m \in Candidates :
    /\ Cardinality({n \in readFilesystems.listed : n.device = m.device}) = 1
    /\ Covers(m) => \E n \in readFilesystems.listed : n.device = m.device /\ Covers(n)

(* A sample has one primary filesystem unless the data directory is on a network mount only; when
   no filesystem is mounted twice it is the local one the directory lies in most deeply. *)
OnePrimary ==
  LET r == readFilesystems
      deepest == {m \in Candidates : Covers(m) /\ \A n \in Candidates : Covers(n) => Len(n.point) <= Len(m.point)}
      twice == \E m, n \in Candidates : m # n /\ m.device = n.device
  IN  /\ Cardinality(r.primary) <= 1
      /\ r.primary = {} => r.asked \/ rootCoveredByNetworkMount
      /\ ~twice => r.primary = deepest

(* No process that is left out is ahead of the last one listed for its CPU, or for its memory:
   the cut at MaxItems takes nothing away. *)
BusiestAreListed ==
  \A by \in {"cpu", "memory"} : \A p \in First(processes, by, PerMetricLimit) : p \in selectTopProcesses(processes)

(* A CPU temperature is reported exactly when the host has a sensor of its CPU, however many
   and however hot the other sensors are. *)
CPUTemperatureFound ==
  Cardinality(readTemperatureUsage) = IF \E s \in sensors : isCPUTemperatureSensor(s) THEN 1 ELSE 0

(* The readings of a sample are those of the tables: each filesystem once with one primary, the
   busiest processes, and the temperature of the CPU. *)
ReadingsMatchHost == ListedOnce /\ OnePrimary /\ BusiestAreListed /\ CPUTemperatureFound
=============================================================================
