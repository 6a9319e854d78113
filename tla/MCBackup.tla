------------------------------ MODULE MCBackup ------------------------------
(***************************************************************************)
(* Backups, for model checking: runs with their copies and retention, the  *)
(* work that is due, and protection alerts and heartbeats.  The first      *)
(* state picks a part and only that part moves, so the run explores the    *)
(* sum of the parts and not their product.  BackupRuns is extended and     *)
(* keeps its own variables; another part keeps its variables, in the order *)
(* in which its module declares them, in v1, v2 and so on.                 *)
(***************************************************************************)
EXTENDS Integers, BackupRuns

VARIABLES part, v1, v2, v3, v4, v5, v6, v7, v8, v9, v10, v11

suiteVars == <<part, vars, v1, v2, v3, v4, v5, v6, v7, v8, v9, v10, v11>>
Rest1 == <<v1, v2, v3, v4, v5, v6, v7, v8, v9, v10, v11>>
Idle1 == v1 = 0 /\ v2 = 0 /\ v3 = 0 /\ v4 = 0 /\ v5 = 0 /\ v6 = 0 /\ v7 = 0 /\ v8 = 0 /\ v9 = 0 /\ v10 = 0 /\ v11 = 0

(* Two parts of the backup runs: one run and its retry at two destinations, with readers, and two
   runs that follow each other at one destination, where retention deletes. *)
OneRun ==
  /\ runs[2] = NoRun /\ work[3] = NoWork
  /\ "d1" \in plan /\ reads["d2"] = 0
OneDestination ==
  /\ \A r \in Runs : runs[r].copies["d2"] = NoCopy
  /\ \A d \in Dests : reads[d] = 0
  /\ plan = Dests

(* A plan with two destinations and a repository check, in a calendar of four-hour days and two-day
   weeks; the wall-clock time of day 4 is skipped. *)
Daily == [freq |-> "daily", at |-> 1, weekday |-> 0, hours |-> 0]
Weekly == [freq |-> "weekly", at |-> 2, weekday |-> 0, hours |-> 0]
Interval == [freq |-> "interval", at |-> 0, weekday |-> 0, hours |-> 3]
Manual == [freq |-> "manual", at |-> 0, weekday |-> 0, hours |-> 0]

Due == INSTANCE BackupDue WITH
  Tasks <- {"a", "b", "c"}, Groups <- {"plan", "check"},
  Members <- [plan |-> {"a", "b"}, check |-> {"c"}],
  Pool <- [plan |-> "runs", check |-> "maintenance"], Slots <- [runs |-> 1, maintenance |-> 1],
  Schedules <- {Daily, Interval}, Day <- 4, Week <- 2, Lookback <- 5, Skipped <- {4},
  Tolerance <- 1, Start0 <- 14, MaxTicks <- 4, MaxBack <- 1, MaxSaves <- 1, MaxRefusals <- 0,
  MaxCrashes <- 1, MaxStoreFailures <- 1,
  now <- v1, task <- v2, saved <- v3, enabled <- v4, paused <- v5, scan <- v6, jobs <- v7,
  slots <- v8, life <- v9, seen <- v10, bound <- v11
Cal == INSTANCE BackupDue WITH
  Tasks <- {"a", "b", "c"}, Groups <- {"plan", "check"},
  Members <- [plan |-> {"a", "b"}, check |-> {"c"}],
  Pool <- [plan |-> "runs", check |-> "maintenance"], Slots <- [runs |-> 1, maintenance |-> 1],
  Schedules <- {Daily, Weekly, Interval, Manual}, Day <- 4, Week <- 2, Lookback <- 5,
  Skipped <- {4}, Tolerance <- 1, Start0 <- 1, MaxTicks <- 40, MaxBack <- 0, MaxSaves <- 0,
  MaxRefusals <- 0, MaxCrashes <- 0, MaxStoreFailures <- 0,
  now <- v1, task <- v2, saved <- v3, enabled <- v4, paused <- v5, scan <- v6, jobs <- v7,
  slots <- v8, life <- v9, seen <- v10, bound <- v11
Prot == INSTANCE ProtectionAlerts WITH
  Copies <- 1..2, Broken <- {}, Period <- 2, Grace <- 1, Tolerance <- 1, PerPass <- 2,
  URLs <- {"u", "v"}, PauseReasons <- {1}, Start0 <- 4, MaxTicks <- 4, MaxBack <- 0, MaxEdits <- 2,
  MaxCrashes <- 1,
  now <- v1, copy <- v2, reasons <- v3, url <- v4, beat <- v5, notified <- v6, cursor <- v7,
  disk <- v8, pass <- v9, bound <- v10
Clk == INSTANCE ProtectionAlerts WITH
  Copies <- {1}, Broken <- {}, Period <- 2, Grace <- 1, Tolerance <- 1, PerPass <- 2,
  URLs <- {"u", "v"}, PauseReasons <- {1}, Start0 <- 4, MaxTicks <- 4, MaxBack <- 1, MaxEdits <- 2,
  MaxCrashes <- 1,
  now <- v1, copy <- v2, reasons <- v3, url <- v4, beat <- v5, notified <- v6, cursor <- v7,
  disk <- v8, pass <- v9, bound <- v10

SuiteInit ==
  \/ part \in {"runs", "retention"} /\ Init /\ Idle1
  \/ part = "due" /\ Due!Init /\ Init
  \/ part = "calendar" /\ Cal!Init /\ Init
  \/ part = "protection" /\ Prot!Init /\ v11 = 0 /\ Init
  \/ part = "clock" /\ Clk!Init /\ v11 = 0 /\ Init
SuiteNext ==
  \/ part = "runs" /\ Next /\ OneRun' /\ UNCHANGED <<part, Rest1>>
  \/ part = "retention" /\ Next /\ OneDestination' /\ UNCHANGED <<part, Rest1>>
  \/ part = "due" /\ Due!Next /\ UNCHANGED <<part, vars>>
  \/ part = "calendar" /\ Cal!Tick /\ UNCHANGED <<part, vars>>
  \/ part = "protection" /\ Prot!Next /\ UNCHANGED <<part, vars, v11>>
  \/ part = "clock" /\ Clk!Next /\ UNCHANGED <<part, vars, v11>>
SuiteSpec == SuiteInit /\ [][SuiteNext]_suiteVars
-----------------------------------------------------------------------------
(* The slots of the pools are those of workers, the loop ends after all of them, and the calendar
   it acts on is exact.  No occurrence is started a second time, unless the clock was set back
   behind it or the process ended before the start was recorded. *)
DueIsSound ==
  /\ []((part = "due" => Due!DueIsSound) /\ (part = "calendar" => Cal!DueIsSound))
  /\ [][part = "due" => Due!StartedOnce]_suiteVars

(* A heartbeat stands for protection that was observed, and the one recorded is of the address
   that is configured.  A resolved alert had a copy captured at or after the deadline it was
   raised for.  Later occurrences do not renew the grace: an overdue copy stays overdue until it
   is captured again or its assignment changes, as long as the clock is not corrected. *)
ProtectionIsTruthful ==
  /\ []((part = "protection" => Prot!ProtectionIsTruthful) /\ (part = "clock" => Clk!ProtectionIsTruthful))
  /\ [][(part = "protection" => Prot!ResolvedByCapture) /\ (part = "clock" => Clk!OverdueIsStable)]_suiteVars
=============================================================================
