------------------------------ MODULE Schedules ------------------------------
(***************************************************************************)
(* The maintenance scheduler (internal/scheduler/service.go): one update   *)
(* and one prune policy, a poll that looks for a due slot, a worker per    *)
(* policy, and the settings handler that saves a policy and then seeds its *)
(* runtime state in a second write. Time is counted in hours of UTC; the   *)
(* host zone has one transition. A value that may be absent is {} or {x}.  *)
(***************************************************************************)
EXTENDS Integers, FiniteSets, FiniteSetsExt

CONSTANTS
  Keys,           \* "update", "prune"
  Configs,        \* [on, daily, hour, days]: days is a set of weekdays 0..6
  Zones,          \* [at, before, after]: UTC offsets before and from the instant at
  catchUpWindow,  \* hours
  ClockSteps,     \* by how much the clock may advance at once
  Horizon,        \* bound: the last instant
  MaxSaves,       \* bound: settings requests
  MaxRestarts     \* bound: restarts

SchedulesAssumption == catchUpWindow \in Nat \ {0}

VARIABLES
  zone, now,
  settings,   \* key -> config, stored
  runtime,    \* key -> [slot, result], stored
  poll,       \* the polling goroutine: pc and what it has read
  running,    \* the in-memory guard per key
  worker,     \* key -> {} or {slot of the run in progress}
  saving,     \* {} or {settings saved whose runtime is not seeded yet}
  fired,      \* history: [key, slot, at, seed] of every run started
  seeds,      \* history: how often the runtime state was seeded
  saves, restarts

vars == <<zone, now, settings, runtime, poll, running, worker, saving, fired, seeds, saves, restarts>>

-----------------------------------------------------------------------------
(* Go's calendar: local time of an instant, and time.Date, which guesses the offset and looks it up again. *)
Offset(z, u) == IF u < z.at THEN z.before ELSE z.after
Local(z, u) == u + Offset(z, u)
Day(z, u) == Local(z, u) \div 24
Hour(z, u) == Local(z, u) % 24

Date(z, d, h) ==
  LET wall == 24 * d + h
      utc == wall - Offset(z, wall)
  IN wall - (IF (utc < z.at) # (wall < z.at) THEN Offset(z, utc) ELSE Offset(z, wall))

AddDate(z, u, k) == Date(z, Day(z, u) + k, Hour(z, u))

(* The first candidate of the last eight days that is not in the future; {} when there is none. *)
mostRecentScheduledAt(c, t, z) ==
  IF c.daily
  THEN LET today == Date(z, Day(z, t), c.hour) IN {IF today > t THEN AddDate(z, today, -1) ELSE today}
  ELSE LET day(k) == Day(z, AddDate(z, t, -k))
           at(k) == Date(z, day(k), c.hour)
           good == {k \in 0..7 : day(k) % 7 \in c.days /\ at(k) <= t}
       IN IF good = {} THEN {} ELSE {at(Min(good))}

nextScheduledAt(c, t, z) ==
  IF c.daily
  THEN LET today == Date(z, Day(z, t), c.hour) IN {IF today > t THEN today ELSE AddDate(z, today, 1)}
  ELSE LET day(k) == Day(z, AddDate(z, t, k))
           at(k) == Date(z, day(k), c.hour)
           good == {k \in 0..7 : day(k) % 7 \in c.days /\ at(k) > t}
       IN IF good = {} THEN {} ELSE {at(Min(good))}

(* Mutation: however old the slot is, it is caught up. *)
dueWhenever(c, last, t, z) ==
  IF ~c.on THEN {} ELSE {u \in mostRecentScheduledAt(c, t, z) : u \notin last}

dueSchedule(c, last, t, z) ==
  IF ~c.on THEN {} ELSE {u \in mostRecentScheduledAt(c, t, z) : u \notin last /\ t - u <= catchUpWindow}

seededScheduleRuntimeState(c, t, z) ==
  [slot |-> IF c.on THEN mostRecentScheduledAt(c, t, z) ELSE {}, result |-> "none"]

-----------------------------------------------------------------------------
Idle == [pc |-> "idle", settings |-> <<>>, runtime |-> <<>>, at |-> 0, left |-> {}]
defaultSettings == [on |-> FALSE, daily |-> FALSE, hour |-> 3, days |-> {6}]

Init ==
  /\ zone \in Zones /\ now = 0
  /\ settings = [k \in Keys |-> defaultSettings]
  /\ runtime = [k \in Keys |-> [slot |-> {}, result |-> "none"]]
  /\ poll = Idle
  /\ running = [k \in Keys |-> FALSE] /\ worker = [k \in Keys |-> {}]
  /\ saving = {} /\ fired = {} /\ seeds = 0 /\ saves = 0 /\ restarts = 0

Tick ==
  /\ \E d \in ClockSteps : now + d <= Horizon /\ now' = now + d
  /\ UNCHANGED <<zone, settings, runtime, poll, running, worker, saving, fired, seeds, saves, restarts>>

validateBaseSchedule(c) == c.daily \/ c.days # {}

(* UpdateSettings: valid settings are stored first; the runtime state is seeded by a second write. *)
UpdateSettings ==
  /\ saving = {} /\ saves < MaxSaves
  /\ \E c \in [Keys -> {d \in Configs : validateBaseSchedule(d)}] : settings' = c /\ saving' = {c}
  /\ saves' = saves + 1
  /\ UNCHANGED <<zone, now, runtime, poll, running, worker, fired, seeds, restarts>>

resetRuntimeState ==
  /\ \E c \in saving : runtime' = [k \in Keys |-> seededScheduleRuntimeState(c[k], now, zone)]
  /\ saving' = {} /\ seeds' = seeds + 1
  /\ UNCHANGED <<zone, now, settings, poll, running, worker, fired, saves, restarts>>

(* runDueSchedules reads the settings, then the runtime state and the clock, and evaluates the keys in order. *)
LoadSettings ==
  /\ poll.pc = "idle"
  /\ poll' = [poll EXCEPT !.pc = "settings", !.settings = settings]
  /\ UNCHANGED <<zone, now, settings, runtime, running, worker, saving, fired, seeds, saves, restarts>>

LoadRuntime ==
  /\ poll.pc = "settings"
  /\ poll' = [poll EXCEPT !.pc = "evaluate", !.runtime = runtime, !.at = now, !.left = Keys]
  /\ UNCHANGED <<zone, now, settings, runtime, running, worker, saving, fired, seeds, saves, restarts>>

(* The guard is set before the runtime state is stored, and cleared again when that fails. *)
tryStart(k, stored) == running' = [running EXCEPT ![k] = stored]

(* Mutation: the trigger is stored without its slot. *)
updateRuntimeResultOnly(k, due) == runtime' = [runtime EXCEPT ![k].result = "running"]

(* updateRuntime under persistMu reads the stored state again and replaces the entry of its key. *)
updateRuntime(k, due) == runtime' = [runtime EXCEPT ![k] = [slot |-> due, result |-> "running"]]

Evaluated(k) == poll' = IF poll.left = {k} THEN Idle ELSE [poll EXCEPT !.left = @ \ {k}]

evaluate(k) ==
  LET due == dueSchedule(poll.settings[k], poll.runtime[k].slot, poll.at, zone)
      ready == due # {} /\ ~running[k]
  IN /\ poll.pc = "evaluate" /\ k \in poll.left
     /\ k = "prune" => "update" \notin poll.left
     /\ Evaluated(k)
     /\ \/ ~ready /\ UNCHANGED <<running, runtime, worker, fired>>
        \/ ready /\ tryStart(k, FALSE) /\ UNCHANGED <<runtime, worker, fired>>
        \/ /\ ready /\ tryStart(k, TRUE) /\ updateRuntime(k, due)
           /\ worker' = [worker EXCEPT ![k] = due]
           /\ fired' = fired \cup {[key |-> k, slot |-> u, at |-> poll.at, n |-> Cardinality(fired), seed |-> seeds] : u \in due}
     /\ UNCHANGED <<zone, now, settings, saving, seeds, saves, restarts>>

(* A run ends under persistMu: the slot is left as it is stored now. Storing the result may fail. *)
EndRun(k, results) ==
  /\ worker[k] # {}
  /\ \E r \in results, stored \in BOOLEAN :
       runtime' = IF stored THEN [runtime EXCEPT ![k].result = r] ELSE runtime
  /\ worker' = [worker EXCEPT ![k] = {}]
  /\ running' = [running EXCEPT ![k] = FALSE]
  /\ UNCHANGED <<zone, now, settings, poll, saving, fired, seeds, saves, restarts>>

(* The state of the job; no job and a conflict is skipped, no job and another error is failed. *)
finalizeScheduledRun(k) == EndRun(k, {"succeeded", "failed", "skipped"})

(* The prune run that could not list the stacks. *)
recordScheduleFailure(k) == k = "prune" /\ EndRun(k, {"failed"})

(* The process ends at any point and starts again. *)
Restart ==
  /\ restarts < MaxRestarts /\ restarts' = restarts + 1
  /\ poll' = Idle /\ saving' = {}
  /\ running' = [k \in Keys |-> FALSE] /\ worker' = [k \in Keys |-> {}]
  /\ UNCHANGED <<zone, now, settings, runtime, fired, seeds, saves>>

Next ==
  \/ Tick \/ UpdateSettings \/ resetRuntimeState \/ Restart
  \/ LoadSettings \/ LoadRuntime
  \/ \E k \in Keys : evaluate(k) \/ finalizeScheduledRun(k) \/ recordScheduleFailure(k)

Spec == Init /\ [][Next]_vars

-----------------------------------------------------------------------------
(* The poll deduplicates by the slot it stored: a slot runs once, through ticks, polls and restarts, unless a settings
   request seeded the runtime state in between. *)
SlotRunsOnce == \A f, g \in fired : f.key = g.key /\ f.slot = g.slot /\ f.seed = g.seed => f = g

(* A run is for a slot of the calendar that has come and is at most catchUpWindow old, whatever downtime, zone
   transition or settings request fell in between. *)
RunsAreDue == \A f \in fired : f.at - f.slot \in 0..catchUpWindow /\ Hour(zone, f.slot) \in {c.hour : c \in Configs}

(* What a policy means: the instants of its local time on its days. *)
Occurrences(c) == {Date(zone, d, c.hour) : d \in {e \in -8..(Horizon \div 24 + 10) : c.daily \/ e % 7 \in c.days}}

(* Within the catch-up window a poll finds exactly the latest occurrence that has come, for every policy, at every
   instant and across the transition of the zone. *)
DueIsLatest ==
  \A c \in Configs : c.on =>
    dueSchedule(c, {}, now, zone) = {o \in Occurrences(c) : o \in (now - catchUpWindow)..now}

(* next_run_at is the first occurrence after the present instant, at every hour of every day, unless the zone skips the
   wall-clock time of the policy on that day. *)
NextRunIsFirst ==
  \A c \in Configs : Hour(zone, Date(zone, Day(zone, now), c.hour)) = c.hour =>
    nextScheduledAt(c, now, zone) = {Min({o \in Occurrences(c) : o > now})}

(* A scheduled policy runs each slot once and only when it is due, through restarts, settings
   requests and transitions of the zone. *)
SlotsRunWhenDue == SlotRunsOnce /\ RunsAreDue

(* The occurrence a poll acts on and the one shown as next are the latest that has come and the
   first that will, for every policy and across the transition of the zone. *)
OccurrencesAreExact == DueIsLatest /\ NextRunIsFirst
=============================================================================
