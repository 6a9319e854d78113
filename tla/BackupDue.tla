------------------------------ MODULE BackupDue ------------------------------
(***************************************************************************)
(* The automatic work of the backup service: the calendar, the scheduler   *)
(* goroutine with its pools of workers, the occurrence markers, saved      *)
(* plans, clock corrections, restarts and the shutdown.  A plan starts its *)
(* due destinations together; a repository check stands alone.  Time is in *)
(* hours of a small calendar.                                              *)
(***************************************************************************)
EXTENDS Integers, FiniteSets, FiniteSetsExt

CONSTANTS
  Tasks,       \* assignments of plans and maintenance actions
  Groups,      \* what is started as one job
  Members,     \* Members[g]: the tasks of g
  Pool,        \* Pool[g]: the pool of workers g runs in
  Slots,       \* Slots[p]: workers of pool p
  Schedules,   \* schedules an operator may choose
  Day, Week,   \* hours of a day, days of a week
  Lookback,    \* days latestDue looks back
  Skipped,     \* days on which the wall-clock times of the calendar do not exist
  Tolerance,   \* clockSkewTolerance
  Start0, MaxTicks, MaxBack, MaxSaves, MaxRefusals, MaxCrashes, MaxStoreFailures  \* bounds of the instance

VARIABLES
  now, task, saved, enabled, paused,
  scan,      \* the pass of the scheduler over one group
  jobs,      \* jobs[g]: workers that execute a job of g
  slots,     \* slots[p]: taken slots
  life,      \* "on", "stopping" (context cancelled), "joined" (RunBackground has returned)
  seen,      \* seen[t]: occurrences started that nothing entitles to a repetition
  bound      \* what the instance has used of its bounds

vars == <<now, task, saved, enabled, paused, scan, jobs, slots, life, seen, bound>>
-----------------------------------------------------------------------------
(* The wall-clock time of a schedule on a day, unless the day skips it or is another weekday. *)
calendarOccurrence(s, day) ==
  IF day < 0 \/ day \in Skipped \/ (s.freq = "weekly" /\ day % Week # s.weekday) THEN {} ELSE {day * Day + s.at}

latestDue(s, t) ==
  IF s.freq = "manual" THEN {}
  ELSE IF s.freq = "interval" THEN {(t \div s.hours) * s.hours}
  ELSE LET days == {t \div Day - k : k \in 0..(Lookback - 1)}
           past == {o \in UNION {calendarOccurrence(s, d) : d \in days} : o <= t}
       IN  IF past = {} THEN {} ELSE {Max(past)}

(* The next occurrence, as the preview shows it. *)
PreviewSchedule(s, t) ==
  IF s.freq = "manual" THEN {}
  ELSE IF s.freq = "interval" THEN {o + s.hours : o \in latestDue(s, t)}
  ELSE LET next == {o \in UNION {calendarOccurrence(s, t \div Day + k) : k \in 0..(Lookback - 1)} : o > t}
       IN  IF next = {} THEN {} ELSE {Min(next)}

(* Mutation: a marker in the future is trusted. *)
occurrencePendingTrusting(last, due, t) == last = {} \/ \E l \in last : l < due
(* Mutation: an occurrence that was started is still due. *)
occurrencePendingAgain(last, due, t) == last = {} \/ \E l \in last : l > t + Tolerance \/ l <= due
(* A marker beyond the tolerance comes from a clock that was wrong. *)
occurrencePending(last, due, t) == last = {} \/ \E l \in last : l > t + Tolerance \/ l < due
-----------------------------------------------------------------------------
Idle == [pc |-> "idle", g |-> CHOOSE g \in Groups : TRUE, copy |-> [t \in {} |-> 0], due |-> [t \in {} |-> 0]]

Init ==
  /\ now = Start0
  /\ \E s \in Schedules : task = [t \in Tasks |-> [schedule |-> s, last |-> latestDue(s, Start0)]]
  /\ saved = task /\ enabled = TRUE /\ paused = FALSE
  /\ scan = Idle /\ jobs = [g \in Groups |-> 0] /\ slots = [p \in {Pool[g] : g \in Groups} |-> 0]
  /\ life = "on" /\ seen = [t \in Tasks |-> {}]
  /\ bound = [ticks |-> 0, back |-> 0, saves |-> 0, refusals |-> 0, crashes |-> 0, store |-> 0]

Use(b, max) == bound[b] < max /\ bound' = [bound EXCEPT ![b] = @ + 1]

(* The pass takes a copy of the configuration and reads it without the lock from here on. *)
Copy(g) ==
  /\ scan.pc = "idle" /\ life = "on" /\ ~paused
  /\ enabled \/ Pool[g] # "runs"
  /\ scan' = [Idle EXCEPT !.pc = "copied", !.g = g, !.copy = [t \in Members[g] |-> task[t]]]
  /\ UNCHANGED <<now, task, saved, enabled, paused, jobs, slots, life, seen, bound>>

DueOf(copy) == {t \in DOMAIN copy : \E d \in latestDue(copy[t].schedule, now) : occurrencePending(copy[t].last, d, now)}
reserve(g) == life = "on" /\ slots[Pool[g]] < Slots[Pool[g]]

(* Nothing is due, work was paused or every worker is taken: the pass is over. *)
Skip ==
  /\ scan.pc = "copied" /\ (paused \/ DueOf(scan.copy) = {} \/ ~reserve(scan.g))
  /\ scan' = Idle
  /\ UNCHANGED <<now, task, saved, enabled, paused, jobs, slots, life, seen, bound>>
Reserve ==
  /\ scan.pc = "copied" /\ ~paused /\ DueOf(scan.copy) # {} /\ reserve(scan.g)
  /\ slots' = [slots EXCEPT ![Pool[scan.g]] = @ + 1]
  /\ scan' = [scan EXCEPT !.pc = "reserved",
                !.due = [t \in DueOf(scan.copy) |-> CHOOSE d \in latestDue(scan.copy[t].schedule, now) : TRUE]]
  /\ UNCHANGED <<now, task, saved, enabled, paused, jobs, life, seen, bound>>

Refused == slots' = [slots EXCEPT ![Pool[scan.g]] = @ - 1]
(* StartRun or StartRepositoryJob: refused while another job holds what it needs. *)
StartRefused ==
  /\ scan.pc = "reserved" /\ Refused /\ scan' = Idle
  /\ IF jobs[scan.g] > 0 THEN UNCHANGED bound ELSE Use("refusals", MaxRefusals)
  /\ UNCHANGED <<now, task, saved, enabled, paused, jobs, life, seen>>
StartJob ==
  /\ scan.pc = "reserved" /\ jobs[scan.g] = 0
  /\ scan' = [scan EXCEPT !.pc = "started"]
  /\ UNCHANGED <<now, task, saved, enabled, paused, jobs, slots, life, seen, bound>>

(* The occurrence is recorded; the job goes on only when the record is in the database. *)
Record ==
  LET begun == DOMAIN scan.due
      marked == [t \in Tasks |-> IF t \in begun THEN [task[t] EXCEPT !.last = {scan.due[t]}] ELSE task[t]]
  IN  /\ scan.pc = "started" /\ scan' = Idle
      /\ task' = marked
      /\ seen' = [t \in Tasks |-> IF t \in begun THEN seen[t] \cup {scan.due[t]} ELSE seen[t]]
      /\ \/ saved' = marked /\ UNCHANGED <<slots, bound>> /\ jobs' = [jobs EXCEPT ![scan.g] = @ + 1]
         \/ UNCHANGED <<saved, jobs>> /\ Refused /\ Use("store", MaxStoreFailures)
      /\ UNCHANGED <<now, enabled, paused, life>>

(* The worker has executed its job and gives its slot back. *)
JobEnds(g) ==
  /\ jobs[g] > 0
  /\ jobs' = [jobs EXCEPT ![g] = @ - 1] /\ slots' = [slots EXCEPT ![Pool[g]] = @ - 1]
  /\ UNCHANGED <<now, task, saved, enabled, paused, scan, life, seen, bound>>
-----------------------------------------------------------------------------
Preserved(t, s) == task[t].schedule = s
(* SavePlan, SaveDestination: a schedule that changes waits for its next occurrence. *)
SavePlan(g) ==
  /\ \A h \in Groups : jobs[h] = 0 /\ scan.pc # "started" /\ Use("saves", MaxSaves)
  /\ \E t \in Members[g], s \in Schedules :
       /\ task' = [task EXCEPT ![t] = IF Preserved(t, s) THEN @ ELSE [schedule |-> s, last |-> latestDue(s, now)]]
       /\ saved' = [saved EXCEPT ![t] = task'[t]]
       /\ seen' = IF task[t].schedule = s THEN seen ELSE [seen EXCEPT ![t] = {}]
  /\ UNCHANGED <<now, enabled, paused, scan, jobs, slots, life>>
EnablePlan ==
  /\ \A h \in Groups : jobs[h] = 0 /\ scan.pc # "started" /\ Use("saves", MaxSaves) /\ enabled' = ~enabled
  /\ UNCHANGED <<now, task, saved, paused, scan, jobs, slots, life, seen>>
SavePolicy ==
  /\ Use("saves", MaxSaves) /\ paused' = ~paused
  /\ UNCHANGED <<now, task, saved, enabled, scan, jobs, slots, life, seen>>
Tick ==
  /\ Use("ticks", MaxTicks) /\ now' = now + 1
  /\ UNCHANGED <<task, saved, enabled, paused, scan, jobs, slots, life, seen>>
(* The clock of the host is corrected; work of the corrected hours may be repeated. *)
ClockBack ==
  /\ Use("back", MaxBack)
  /\ \E t \in {now - 1, now - Day} : t > 0 /\ now' = t /\ seen' = [u \in Tasks |-> {o \in seen[u] : o <= t}]
  /\ UNCHANGED <<task, saved, enabled, paused, scan, jobs, slots, life>>
-----------------------------------------------------------------------------
Stop ==
  /\ life = "on" /\ life' = "stopping" /\ Use("crashes", MaxCrashes)
  /\ UNCHANGED <<now, task, saved, enabled, paused, scan, jobs, slots, seen>>
Join == \A p \in DOMAIN slots : slots[p] = 0
RunBackgroundReturns ==
  /\ life = "stopping" /\ scan.pc = "idle" /\ Join /\ life' = "joined"
  /\ UNCHANGED <<now, task, saved, enabled, paused, scan, jobs, slots, seen, bound>>
(* The next process starts from the database, after a shutdown or a crash. *)
Restart ==
  /\ IF life = "joined" THEN UNCHANGED bound ELSE Use("crashes", MaxCrashes)
  /\ task' = saved /\ scan' = Idle /\ jobs' = [g \in Groups |-> 0] /\ slots' = [p \in DOMAIN slots |-> 0]
  /\ life' = "on" /\ seen' = [t \in Tasks |-> IF saved[t] = task[t] THEN seen[t] ELSE {}]
  /\ UNCHANGED <<now, saved, enabled, paused>>

Pass == (\E g \in Groups : Copy(g)) \/ Skip \/ Reserve \/ StartRefused \/ StartJob \/ Record
Next ==
  \/ Pass \/ \E g \in Groups : JobEnds(g) \/ SavePlan(g)
  \/ EnablePlan \/ SavePolicy \/ Tick \/ ClockBack \/ Stop \/ RunBackgroundReturns \/ Restart

Spec == Init /\ [][Next]_vars
-----------------------------------------------------------------------------
Occurrences(s) ==
  {o \in 0..(Start0 + MaxTicks + 2 * Week * Day) :
     IF s.freq = "interval" THEN o % s.hours = 0 ELSE s.freq # "manual" /\ o \in calendarOccurrence(s, o \div Day)}
(* The scheduler acts on the latest occurrence that has come and the preview shows the next
   one, across days that skip their wall-clock time. *)
CalendarIsExact ==
  \A s \in Schedules :
    LET past == {o \in Occurrences(s) : o <= now} next == {o \in Occurrences(s) : o > now} IN
    /\ latestDue(s, now) = IF past = {} THEN {} ELSE {Max(past)}
    /\ PreviewSchedule(s, now) = IF next = {} THEN {} ELSE {Min(next)}

(* No occurrence is started a second time, unless the clock was set back behind it or the
   process ended before the start was recorded. *)
StartedOnce == scan.pc = "reserved" /\ scan'.pc = "started" => \A t \in DOMAIN scan.due : scan.due[t] \notin seen[t]

(* A taken slot belongs to a worker or to the job that is being admitted. *)
SlotsAreWorkers ==
  \A p \in DOMAIN slots :
    slots[p] = Cardinality({g \in Groups : Pool[g] = p /\ jobs[g] > 0}) + (IF scan.pc \in {"reserved", "started"} /\ Pool[scan.g] = p THEN 1 ELSE 0)

(* RunBackground returns when no worker of any pool is left. *)
WorkersAreJoined == life = "joined" => \A g \in Groups : jobs[g] = 0

(* Scheduled work is not held back; every marker is at the latest occurrence, and none in the future. *)
Allowed == ~paused /\ enabled
UpToDate == \A t \in Tasks : \A d \in latestDue(task[t].schedule, now) : \E l \in task[t].last : l >= d /\ l <= now + Tolerance
Stopped == life = "joined"

(* The slots of the pools are those of workers, the loop ends after all of them, and the
   calendar it acts on is exact. *)
DueIsSound == SlotsAreWorkers /\ WorkersAreJoined /\ CalendarIsExact
=============================================================================
