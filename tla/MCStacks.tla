------------------------------ MODULE MCStacks ------------------------------
(***************************************************************************)
(* Stacks and what is done to them, for model checking: the view of a      *)
(* stack, its jobs, the maintenance schedules, updates, Docker objects,    *)
(* the Git workspace and the terminals in its containers. The first state  *)
(* picks a part and only that part moves, so the run explores the sum of   *)
(* the parts and not their product. Terminals is extended and keeps its    *)
(* own variables; another part keeps its variables, in the order in which  *)
(* its module declares them, in v1, v2 and so on.                          *)
(***************************************************************************)
EXTENDS Integers, TLC, Terminals

CONSTANTS x1, x2, y1, y2, NoJob

VARIABLES part, v1, v2, v3, v4, v5, v6, v7, v8, v9, v10, v11, v12

suiteVars == <<part, vars, v1, v2, v3, v4, v5, v6, v7, v8, v9, v10, v11, v12>>
Rest1 == <<v1, v2, v3, v4, v5, v6, v7, v8, v9, v10, v11, v12>>
Idle1 == v1 = 0 /\ v2 = 0 /\ v3 = 0 /\ v4 = 0 /\ v5 = 0 /\ v6 = 0 /\ v7 = 0 /\ v8 = 0 /\ v9 = 0 /\ v10 = 0 /\ v11 = 0 /\ v12 = 0
Rest6 == <<v6, v7, v8, v9, v10, v11, v12>>
Idle6 == v6 = 0 /\ v7 = 0 /\ v8 = 0 /\ v9 = 0 /\ v10 = 0 /\ v11 = 0 /\ v12 = 0
Rest7 == <<v7, v8, v9, v10, v11, v12>>
Idle7 == v7 = 0 /\ v8 = 0 /\ v9 = 0 /\ v10 = 0 /\ v11 = 0 /\ v12 = 0
Rest10 == <<v10, v11, v12>>
Idle10 == v10 = 0 /\ v11 = 0 /\ v12 = 0

Daily(h) == [on |-> TRUE, daily |-> TRUE, hour |-> h, days |-> {}]
Weekly(h, ds) == [on |-> TRUE, daily |-> FALSE, hour |-> h, days |-> ds]
Off == [on |-> FALSE, daily |-> TRUE, hour |-> 3, days |-> {}]
Steady == [at |-> 0, before |-> 0, after |-> 0]

(* Transitions at 02:00 or 03:00 local time of the third day: forward and back, east and west of
   Greenwich. *)
Usual == {[at |-> 49, before |-> 1, after |-> 2], [at |-> 49, before |-> 2, after |-> 1],
          [at |-> 55, before |-> -5, after |-> -4], [at |-> 55, before |-> -4, after |-> -5]}

NoneExcluded == [a |-> {}, b |-> {}]
UpdateRequest(mode, ids, excluded, prune, volumes, keep, orphans, scheduled) ==
  [mode |-> mode, ids |-> ids, excluded |-> excluded, pull |-> TRUE, build |-> TRUE, prune |-> prune,
   volumes |-> volumes, keep |-> keep, orphans |-> orphans, scheduled |-> scheduled]
UpdateRequests == {
  UpdateRequest("all", {}, NoneExcluded, TRUE, FALSE, FALSE, TRUE, FALSE),
  UpdateRequest("selected", {"a", "b"}, [a |-> {"db"}, b |-> {"app"}], TRUE, TRUE, FALSE, FALSE, FALSE),
  UpdateRequest("selected", {"a"}, NoneExcluded, FALSE, FALSE, FALSE, TRUE, TRUE),
  UpdateRequest("selected", {"b"}, NoneExcluded, FALSE, FALSE, TRUE, TRUE, FALSE),
  UpdateRequest("selected", {"a"}, [a |-> {"db"}, b |-> {}], FALSE, TRUE, FALSE, TRUE, FALSE)}

Owner == [n \in {"a_data", "cache", "a_net", "bridge"} |-> IF n \in {"a_data", "a_net"} THEN {1} ELSE {}]

(* Requests are named after what they do; each names one of two paths. *)
OpOf(rs) == [r \in rs |-> IF r \in {"commit1", "commit2"} THEN "commit" ELSE r]
PathsOf(rs) == [r \in rs |-> IF r = "push" THEN {} ELSE IF r = "commit2" THEN {"b"} ELSE {"a"}]
Commits == {"commit1", "commit2", "push"}
Reviews == {"restore", "delete"}

Symmetry == Permutations({x1, x2}) \cup Permutations({y1, y2})

View == INSTANCE StackView WITH
  Names <- {x1, x2}, Ids <- {y1, y2},
  compose <- v1, containers <- v2, docker <- v3, baseline <- v4, reading <- v5
SJ == INSTANCE StackJobs WITH
  Jobs <- {x1, x2}, Contents <- {{"a"}, {"b"}}, Actions <- {"up", "down"},
  Removals <- {<<"down", "remove_stack_definition", "remove_data">>}, Deploys <- BOOLEAN,
  Faults <- {"leave", "cancel", "deadline", "stop", "restart", "docker"},
  disk <- v1, containers <- v2, baseline <- v3, job <- v4, lock <- v5, stopping <- v6
Sch == INSTANCE Schedules WITH
  Keys <- {"update"}, Configs <- {Daily(3), Daily(5), Off, Weekly(3, {})}, Zones <- {Steady},
  catchUpWindow <- 6, ClockSteps <- {4, 24}, Horizon <- 32, MaxSaves <- 2, MaxRestarts <- 1,
  zone <- v1, now <- v2, settings <- v3, runtime <- v4, poll <- v5, running <- v6, worker <- v7,
  saving <- v8, fired <- v9, seeds <- v10, saves <- v11, restarts <- v12
Cal == INSTANCE Schedules WITH
  Keys <- {"update"},
  Configs <- {Daily(h) : h \in {0, 1, 2, 3, 23}} \cup {Weekly(h, ds) : h \in {0, 2, 23}, ds \in {{0}, {2}, {5, 6}}},
  Zones <- Usual, catchUpWindow <- 6, ClockSteps <- {1}, Horizon <- 250, MaxSaves <- 0,
  MaxRestarts <- 0,
  zone <- v1, now <- v2, settings <- v3, runtime <- v4, poll <- v5, running <- v6, worker <- v7,
  saving <- v8, fired <- v9, seeds <- v10, saves <- v11, restarts <- v12
Upd == INSTANCE Updates WITH
  StackOrder <- <<"a", "b">>, Services <- [a |-> {"web", "db"}, b |-> {"app"}],
  PruneScopes <- {<<"prune_images", "prune_volumes">>}, maxAttempts <- 3, MaxChanges <- 2,
  stack <- v1, changes <- v2, job <- v3, row <- v4, ctx <- v5, deployed <- v6, baseline <- v7,
  pruned <- v8, started <- v9
Obj == INSTANCE DockerObjects WITH
  Stacks <- {1}, VolumeNames <- {"a_data", "cache"}, NetworkNames <- {"a_net", "bridge"},
  Protected <- {"bridge"}, Requests <- {x1, x2},
  managed <- v1, exists <- v2, mounts <- v3, req <- v4, lost <- v5
Com == INSTANCE GitWorkspace WITH
  Paths <- {"a", "b"}, Requests <- Commits, Op <- OpOf(Commits), Selected <- PathsOf(Commits),
  MaxWrites <- 2, MaxCommits <- 2,
  head <- v1, index <- v2, tree <- v3, lock <- v4, merging <- v5, mu <- v6, writes <- v7,
  ahead <- v8, req <- v9
Rev == INSTANCE GitWorkspace WITH
  Paths <- {"a", "b"}, Requests <- Reviews, Op <- OpOf(Reviews), Selected <- PathsOf(Reviews),
  MaxWrites <- 3, MaxCommits <- 1,
  head <- v1, index <- v2, tree <- v3, lock <- v4, merging <- v5, mu <- v6, writes <- v7,
  ahead <- v8, req <- v9

(* The bounds and sets of each instance satisfy what its module expects of them. *)
ASSUME Assumptions ==
  SJ!StackJobsAssumption /\ Sch!SchedulesAssumption /\ Cal!SchedulesAssumption /\
  Upd!UpdatesAssumption /\ Com!GitWorkspaceAssumption /\ Rev!GitWorkspaceAssumption /\
  TerminalsAssumption

SuiteInit ==
  \/ part = "view" /\ View!Init /\ Idle6 /\ Init
  \/ part = "jobs" /\ SJ!Init /\ Idle7 /\ Init
  \/ part = "schedules" /\ Sch!Init /\ Init
  \/ part = "calendar" /\ Cal!Init /\ Init
  \/ part = "updates" /\ Upd!Init /\ Idle10 /\ Init
  \/ part = "objects" /\ Obj!Init /\ Idle6 /\ Init
  \/ part = "commits" /\ Com!Init /\ Idle10 /\ Init
  \/ part = "reviews" /\ Rev!Init /\ Idle10 /\ Init
  \/ part = "terminals" /\ Init /\ Idle1
SuiteNext ==
  \/ part = "view" /\ View!Next /\ UNCHANGED <<part, vars, Rest6>>
  \/ part = "jobs" /\ SJ!Next /\ UNCHANGED <<part, vars, Rest7>>
  \/ part = "schedules" /\ Sch!Next /\ UNCHANGED <<part, vars>>
  \/ part = "calendar" /\ Cal!Tick /\ UNCHANGED <<part, vars>>
  \/ part = "updates" /\ Upd!Next /\ UNCHANGED <<part, vars, Rest10>>
  \/ part = "objects" /\ Obj!Next /\ UNCHANGED <<part, vars, Rest6>>
  \/ part = "commits" /\ Com!Next /\ UNCHANGED <<part, vars, Rest10>>
  \/ part = "reviews" /\ Rev!Next /\ UNCHANGED <<part, vars, Rest10>>
  \/ part = "terminals" /\ Next /\ UNCHANGED <<part, Rest1>>
SuiteSpec == SuiteInit /\ [][SuiteNext]_suiteVars
-----------------------------------------------------------------------------
(* What is shown of a stack and offered for it follows from its files and its containers, also
   when the files change during the read. *)
ViewIsTruthful == part = "view" => View!ViewIsTruthful

(* The audit log, the row and the steps of a finished job tell one story, whatever cancellation
   or second finish came late.  A creation that fails removes only what it made: a directory that
   somebody else made meanwhile stays (createdPaths). *)
RecordIsTruthful ==
  /\ [](part = "jobs" => SJ!RecordIsTruthful)
  /\ [][part = "jobs" => SJ!CreationRemovesItsOwn]_suiteVars

(* A scheduled policy runs each slot once and only when it is due, through restarts, settings
   requests and transitions of the zone. *)
SlotsRunWhenDue == part = "schedules" => Sch!SlotsRunWhenDue

(* The occurrence a poll acts on and the one shown as next are the latest that has come and the
   first that will, for every policy and across the transition of the zone. *)
OccurrencesAreExact == part = "calendar" => Cal!OccurrencesAreExact

(* An update isolates the failures of its stacks, prunes only after success, and leaves alone
   what was excluded or inactive (ExecuteUpdate). *)
UpdateIsSound == part = "updates" => Upd!UpdateIsSound

(* No removal takes an object of a managed stack that nothing disturbs, or one of Docker's own
   networks. *)
RemovalsAreSafe == part = "objects" => Obj!RemovalsAreSafe

(* index.lock belongs to a request only while it runs: no way of failing leaves it behind.  A
   commit takes the selected files and no other, and leaves what the operator has staged as it
   was. *)
CommitIsExact ==
  /\ [](part = "commits" => Com!NoLeakedLock)
  /\ [][part = "commits" => Com!CommitIsExact]_suiteVars

(* index.lock belongs to a request only while it runs: no way of failing leaves it behind.  A
   restore or a deletion destroys the version that was reviewed, or one written after the last
   look at it, never one that was there to be seen. *)
ReviewedIsDestroyed ==
  /\ [](part = "reviews" => Rev!NoLeakedLock)
  /\ [][part = "reviews" => Rev!ReviewedIsDestroyed]_suiteVars
=============================================================================
