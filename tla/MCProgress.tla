----------------------------- MODULE MCProgress -----------------------------
(***************************************************************************)
(* Progress, for model checking: what the sessions and the scheduler of    *)
(* backups bring to an end, under the fairness its code justifies.  The    *)
(* first state picks a part and only that part moves, so the run explores  *)
(* the sum of the parts and not their product.  A part keeps its           *)
(* variables, in the order in which its module declares them, in v1, v2    *)
(* and so on.                                                              *)
(***************************************************************************)
EXTENDS Integers

CONSTANTS None

VARIABLES part, v1, v2, v3, v4, v5, v6, v7, v8, v9, v10, v11

vars == <<part, v1, v2, v3, v4, v5, v6, v7, v8, v9, v10, v11>>

EveryDay == [freq |-> "daily", at |-> 1, weekday |-> 0, hours |-> 0]

Sess == INSTANCE Sessions WITH
  Ids <- {1}, Conns <- {1}, IdleTimeout <- 1, AbsoluteLifetime <- 2, MaxTime <- 3, MaxVersion <- 2,
  MaxErrors <- 0,
  now <- v1, version <- v2, row <- v3, hub <- v4, closing <- v5, conn <- v6, lock <- v7,
  login <- v8, change <- v9, expiring <- v10, errors <- v11
Due == INSTANCE BackupDue WITH
  Tasks <- {"a", "b"}, Groups <- {"plan", "check"}, Members <- [plan |-> {"a"}, check |-> {"b"}],
  Pool <- [plan |-> "runs", check |-> "maintenance"], Slots <- [runs |-> 1, maintenance |-> 1],
  Schedules <- {EveryDay}, Day <- 4, Week <- 2, Lookback <- 5, Skipped <- {4}, Tolerance <- 1,
  Start0 <- 14, MaxTicks <- 4, MaxBack <- 1, MaxSaves <- 1, MaxRefusals <- 1, MaxCrashes <- 1,
  MaxStoreFailures <- 0,
  now <- v1, task <- v2, saved <- v3, enabled <- v4, paused <- v5, scan <- v6, jobs <- v7,
  slots <- v8, life <- v9, seen <- v10, bound <- v11

(* The bounds and sets of each instance satisfy what its module expects of them. *)
ASSUME Assumptions ==
  Sess!SessionsAssumption

Init ==
  \/ part = "sessions" /\ Sess!Init
  \/ part = "due" /\ Due!Init
Next ==
  \/ part = "sessions" /\ Sess!Next /\ UNCHANGED part
  \/ part = "due" /\ Due!Next /\ UNCHANGED part

Fairness ==
  (* Time passes, locks are given back and timers fire. *)
  /\ WF_(Sess!vars)(part = "sessions" /\ Sess!Tick)
  /\ WF_(Sess!vars)(part = "sessions" /\ Sess!Locked)
  /\ WF_(Sess!vars)(part = "sessions" /\ Sess!expire(1))
  /\ WF_(Sess!vars)(part = "sessions" /\ (Sess!Told(1) /\ Sess!unsubscribe(1)))
  (* The scheduler goes round its groups every five seconds, workers end, a stopped process is
     started again, and a job that is not refused any more starts. *)
  /\ WF_(Due!vars)(part = "due" /\ (Due!Skip \/ Due!Reserve \/ Due!StartJob \/ Due!Record))
  /\ WF_(Due!vars)(part = "due" /\ (Due!Stopped /\ Due!Restart))
  /\ WF_(Due!vars)(part = "due" /\ Due!RunBackgroundReturns)
  /\ \A g \in {"plan", "check"} : SF_(Due!vars)(part = "due" /\ Due!Copy(g))
  /\ \A g \in {"plan", "check"} : WF_(Due!vars)(part = "due" /\ Due!JobEnds(g))
Spec == Init /\ [][Next]_vars /\ Fairness

-----------------------------------------------------------------------------
(* The connection of a session that has ended, by logout, password change or time, is closed
   (terminateSession, expire). *)
RevokedIsClosed == (part = "sessions" /\ Sess!Doomed(1)) ~> (part = "sessions" => Sess!Gone(1))

(* Missed backups are caught up: when nothing changes any more, every marker is at the latest
   occurrence, also after a clock that was ahead. *)
CaughtUp == <>[](part = "due" /\ Due!Allowed) => <>[](part = "due" /\ Due!UpToDate)
=============================================================================
