------------------------------ MODULE MCWatch -------------------------------
(***************************************************************************)
(* What watches the host and the stacks, for model checking: the alerts of *)
(* the journal and of the running stacks, notices of jobs, the metrics of  *)
(* the host, the readings of a sample, and the settings of the Docker      *)
(* daemon. The first state picks a part and only that part moves, so the   *)
(* run explores the sum of the parts and not their product. DaemonConfig   *)
(* is extended and keeps its own variables; another part keeps its         *)
(* variables, in the order in which its module declares them, in v1, v2    *)
(* and so on.                                                              *)
(***************************************************************************)
EXTENDS Integers, SequencesExt, DaemonConfig

VARIABLES part, v1, v2, v3, v4, v5, v6, v7, v8, v9, v10, v11, v12, v13

suiteVars == <<part, vars, v1, v2, v3, v4, v5, v6, v7, v8, v9, v10, v11, v12, v13>>
Rest1 == <<v1, v2, v3, v4, v5, v6, v7, v8, v9, v10, v11, v12, v13>>
Idle1 == v1 = 0 /\ v2 = 0 /\ v3 = 0 /\ v4 = 0 /\ v5 = 0 /\ v6 = 0 /\ v7 = 0 /\ v8 = 0 /\ v9 = 0 /\ v10 = 0 /\ v11 = 0 /\ v12 = 0 /\ v13 = 0
Rest4 == <<v4, v5, v6, v7, v8, v9, v10, v11, v12, v13>>
Idle4 == v4 = 0 /\ v5 = 0 /\ v6 = 0 /\ v7 = 0 /\ v8 = 0 /\ v9 = 0 /\ v10 = 0 /\ v11 = 0 /\ v12 = 0 /\ v13 = 0
Rest5 == <<v5, v6, v7, v8, v9, v10, v11, v12, v13>>
Idle5 == v5 = 0 /\ v6 = 0 /\ v7 = 0 /\ v8 = 0 /\ v9 = 0 /\ v10 = 0 /\ v11 = 0 /\ v12 = 0 /\ v13 = 0
Rest6 == <<v6, v7, v8, v9, v10, v11, v12, v13>>
Idle6 == v6 = 0 /\ v7 = 0 /\ v8 = 0 /\ v9 = 0 /\ v10 = 0 /\ v11 = 0 /\ v12 = 0 /\ v13 = 0
Rest10 == <<v10, v11, v12, v13>>
Idle10 == v10 = 0 /\ v11 = 0 /\ v12 = 0 /\ v13 = 0

(* Settings of the two channels. *)
Hook(on, url) == [enabled |-> on, url |-> url]
Tele(on, token, chat) == [enabled |-> on, token |-> token, chat |-> chat]
Setting(events) == [events |-> events, webhook |-> Hook(TRUE, "https"), telegram |-> Tele(TRUE, "t", "c")]
On == Setting({"stacklab_service_error", "runtime_health_degraded", "runtime_log_error_burst"})
Muted == Setting({})

Legacy == [webhook |-> Hook(TRUE, "https"), events |-> {"job_failed"}]
Bodies ==
  {[events |-> {"job_failed", "post_update_recovery_failed", "maintenance_succeeded"}, webhook |-> w, telegram |-> t] :
     w \in {{}, {Hook(TRUE, "https")}, {Hook(TRUE, "ftp")}, {Hook(FALSE, "")}},
     t \in {{}, {Tele(TRUE, "t", "c")}, {Tele(TRUE, "t", "")}}}
Jobs ==
  {[action |-> "update_stacks", state |-> "succeeded", warned |-> FALSE],
   [action |-> "backup_run", state |-> "timed_out", warned |-> FALSE],
   [action |-> "up", state |-> "succeeded", warned |-> TRUE]}

(* Three mounts on the path to the data directory and beside it, three processes, four sensors. *)
Points == {<<>>, <<"srv">>, <<"srv", "stacklab">>}
Mount(p, d, w, k) == [point |-> p, device |-> d, whole |-> w, kind |-> k]
MountSet == {Mount(p, d, w, "local") : p \in Points, d \in {1, 2}, w \in BOOLEAN} \cup
            {Mount(<<"boot">>, 1, w, "local") : w \in BOOLEAN} \cup
            {Mount(p, 3, TRUE, k) : p \in Points, k \in {"virtual", "network"}}
Processes ==
  {{[pid |-> 1, cpu |-> a, memory |-> b], [pid |-> 2, cpu |-> c, memory |-> d], [pid |-> 3, cpu |-> e, memory |-> f]} :
     a, b, c, d, e, f \in 0..2}
Sensor(k, c, t) == [key |-> k, class |-> c, celsius |-> t]
Sensors ==
  {{Sensor(1, "core", a), Sensor(2, "core", b), Sensor(3, c, d), Sensor(4, "disk", e)} :
     a, b, d, e \in {40, 60, 80}, c \in {"package", "tctl", "disk"}} \cup
  {{Sensor(1, "disk", 80), Sensor(2, "disk", 80)}}

(* Files of the Docker daemon: none, one that is no JSON, and two with a managed and another key. *)
Json(keys) == [kind |-> "conf", keys |-> keys]
DaemonFiles ==
  {[kind |-> "absent", keys |-> <<>>], [kind |-> "junk", keys |-> <<>>],
   Json([dns |-> 1, log |-> 1]), Json([log |-> 2])}
DaemonRequests ==
  {[set |-> s, remove |-> r] : s \in {<<>>, [dns |-> 2], [dns |-> 3, live |-> 1]}, r \in {{}, {"dns"}}}

Jou == INSTANCE JournalAlerts WITH
  Kinds <- {"access", "e", "f"}, MaxLog <- 4, PollLimit <- 2, ScanFactor <- 1, MaxBatch <- 2,
  Cooldown <- 2, MaxTime <- 2, MaxFaults <- 2, SettingsChoices <- {On, Muted},
  journal <- v1, state <- v2, settings <- v3, now <- v4, faults <- v5, poll <- v6, inspected <- v7,
  pending <- v8, sent <- v9
Hea == INSTANCE RuntimeAlerts WITH
  Stacks <- 1..2, Threshold <- 2, Second <- 1, Cooldown <- 2, MaxTime <- 2, MaxChanges <- 3,
  MaxFaults <- 1, MaxAlerts <- 4, Polls <- {"health"}, Unreadable <- SUBSET (1..2),
  SettingsChoices <- {On, Muted},
  sick <- v1, lines <- v2, now <- v3, changes <- v4, faults <- v5, settings <- v6, hstate <- v7,
  lstate <- v8, poll <- v9, read <- v10, looks <- v11, calm <- v12, sent <- v13
Logs == INSTANCE RuntimeAlerts WITH
  Stacks <- {1}, Threshold <- 2, Second <- 2, Cooldown <- 2, MaxTime <- 4, MaxChanges <- 4,
  MaxFaults <- 1, MaxAlerts <- 9, Polls <- {"logs"}, Unreadable <- {{}},
  SettingsChoices <- {On, Muted},
  sick <- v1, lines <- v2, now <- v3, changes <- v4, faults <- v5, settings <- v6, hstate <- v7,
  lstate <- v8, poll <- v9, read <- v10, looks <- v11, calm <- v12, sent <- v13
Not == INSTANCE Notices WITH
  Requests <- 1..2, LegacySettings <- Legacy,
  raw <- v1, req <- v2, ended <- v3, notices <- v4
Host == INSTANCE HostMetrics WITH
  Clients <- {1}, Loop <- 0, ActiveInterval <- 1, BackgroundInterval <- 3, ActiveTTL <- 2,
  HistoryWindow <- 3, MaxSamples <- 3, ProcessSampleInterval <- 2, MaxTime <- 6, MaxBytes <- 0,
  now <- v1, collector <- v2, reading <- v3, proc <- v4, device <- v5
Byte == INSTANCE HostMetrics WITH
  Clients <- {1}, Loop <- 0, ActiveInterval <- 1, BackgroundInterval <- 3, ActiveTTL <- 2,
  HistoryWindow <- 3, MaxSamples <- 3, ProcessSampleInterval <- 2, MaxTime <- 3, MaxBytes <- 2,
  now <- v1, collector <- v2, reading <- v3, proc <- v4, device <- v5
Mou == INSTANCE HostReadings WITH
  MountTables <- BoundedSeq(MountSet, 3), rootDir <- <<"srv", "stacklab", "data">>,
  SensorTables <- {}, ProcessTables <- {}, PerMetricLimit <- 1, MaxItems <- 2, MaxSensors <- 2,
  mounts <- v1, sensors <- v2, processes <- v3
Top == INSTANCE HostReadings WITH
  MountTables <- {<<>>}, rootDir <- <<"srv", "stacklab", "data">>, SensorTables <- Sensors,
  ProcessTables <- Processes, PerMetricLimit <- 1, MaxItems <- 2, MaxSensors <- 2,
  mounts <- v1, sensors <- v2, processes <- v3

(* The bounds and sets of each instance satisfy what its module expects of them. *)
ASSUME Assumptions ==
  Jou!JournalAssumption /\ Hea!RuntimeAssumption /\ Logs!RuntimeAssumption /\
  Host!HostMetricsAssumption /\ Byte!HostMetricsAssumption /\ DaemonConfigAssumption

(* One initial state of the part that the suite extends, for as long as another part moves. *)
AtRest == Init /\ file = Absent

SuiteInit ==
  \/ part = "journal" /\ Jou!Init /\ Idle10 /\ AtRest
  \/ part = "health" /\ Hea!Init /\ AtRest
  \/ part = "logs" /\ Logs!Init /\ AtRest
  \/ part = "notices" /\ Not!Init /\ Idle5 /\ AtRest
  \/ part = "host" /\ Host!Init /\ Idle6 /\ AtRest
  \/ part = "bytes" /\ Byte!Init /\ Idle6 /\ AtRest
  \/ part = "mounts" /\ Mou!Init /\ Idle4 /\ AtRest
  \/ part = "top" /\ Top!Init /\ Idle4 /\ AtRest
  \/ part = "daemon" /\ Init /\ Idle1
SuiteNext ==
  \/ part = "journal" /\ Jou!Next /\ UNCHANGED <<part, vars, Rest10>>
  \/ part = "health" /\ Hea!Next /\ UNCHANGED <<part, vars>>
  \/ part = "logs" /\ Logs!Next /\ UNCHANGED <<part, vars>>
  \/ part = "notices" /\ Not!Next /\ UNCHANGED <<part, vars, Rest5>>
  \/ part = "host" /\ Host!Next /\ UNCHANGED <<part, vars, Rest6>>
  \/ part = "bytes" /\ Byte!Next /\ UNCHANGED <<part, vars, Rest6>>
  \/ part = "mounts" /\ Mou!Next /\ UNCHANGED <<part, vars, Rest4>>
  \/ part = "top" /\ Top!Next /\ UNCHANGED <<part, vars, Rest4>>
  \/ part = "daemon" /\ Next /\ UNCHANGED <<part, Rest1>>
SuiteSpec == SuiteInit /\ [][SuiteNext]_suiteVars
-----------------------------------------------------------------------------
(* An error in the journal is neither passed over before every channel has it nor repeated within
   the cooldown for no reason. *)
JournalAlertsAreSound == part = "journal" => Jou!JournalAlertsAreSound

(* Alerts of the running stacks need two looks, are repeated within the cooldown only for a
   cause, and no log line falls between two polls. *)
RuntimeAlertsAreSound ==
  (part = "health" => Hea!RuntimeAlertsAreSound) /\ (part = "logs" => Logs!RuntimeAlertsAreSound)

(* A notice reaches every channel that is enabled and up, an enabled channel is usable, and no
   failed recovery is announced as a success.  settingsFromUpdateRequest: a request leaves a
   channel that it does not mention as it is in force, migrated from the first version or not,
   unless another request was saved between its load and its save. *)
NoticesAreSound ==
  /\ [](part = "notices" => Not!NoticesAreSound)
  /\ [][part = "notices" => Not!UnmentionedIsKept]_suiteVars

(* Samples taken by the loop and by requests together form one ordered history from which a
   polling client misses nothing, and each is fresh and real. *)
SamplesAreSound ==
  (part = "host" => Host!SamplesAreSound) /\ (part = "bytes" => Byte!SamplesAreSound)

(* The readings of a sample are those of the tables: each filesystem once with one primary, the
   busiest processes, and the temperature of the CPU. *)
ReadingsMatchHost ==
  (part = "mounts" => Mou!ReadingsMatchHost) /\ (part = "top" => Top!ReadingsMatchHost)
=============================================================================
