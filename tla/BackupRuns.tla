----------------------------- MODULE BackupRuns -----------------------------
(***************************************************************************)
(* Backup runs: one capture per run, a copy of it to every destination,    *)
(* retention there, explicit retries, and what a restart makes of it.  A   *)
(* job holds its repositories twice: in the map of the backup service and  *)
(* as resources of the job service.  Runs are numbered in the order of     *)
(* their captures, which the global resource serializes.                   *)
(***************************************************************************)
EXTENDS Integers, FiniteSets

CONSTANTS
  Runs,         \* 1..n
  Dests,        \* destinations; each has a repository of its own
  Jobs,         \* 1..n, the jobs that can be started
  Slots,        \* transfers a job runs at a time
  Keep,         \* complete snapshots the retention policy keeps
  MaxCrashes, MaxStoreFailures, MaxPartial, Reads   \* bounds of the instance

ASSUME BackupRunsAssumption == Runs \subseteq Nat \ {0} /\ Jobs \subseteq Nat /\ Slots \in Nat \ {0} /\ Keep \in Nat \ {0}

VARIABLES
  runs,       \* state.Runs
  points,     \* points[d]: the newest capture with a verified copy at d, 0 if none (CopyCheckpoints)
  saved,      \* both as they are in the database
  plan,       \* destinations the plan assigns
  staging,    \* runs whose recovery set is on disk
  expired,    \* runs whose retry window is over
  snaps,      \* snaps[d][r]: snapshots tagged with r, partial and complete
  work,       \* work[j]: the goroutine of ExecuteRun
  copier,     \* copier[j][d]: where the transfer of j to d is
  reserved,   \* repositoryJobs
  leases,     \* leases[j]: resources of the running job
  reads,      \* repositoryReads
  paused,     \* the operator paused automatic work
  bad         \* [crashes, store]: faults so far

state == <<runs, points, saved>>
outside == <<plan, expired, paused>>
vars == <<state, staging, outside, snaps, work, copier, reserved, leases, reads, bad>>

Global == "global"
NoCopy == [st |-> "none", snap |-> FALSE, ver |-> FALSE, ret |-> "pending", err |-> FALSE]
NoRun == [state |-> "none", capture |-> "pending", copies |-> [d \in Dests |-> NoCopy]]
NoWork == [pc |-> "none", run |-> 0, ok |-> TRUE]

Init ==
  /\ runs = [r \in Runs |-> NoRun] /\ points = [d \in Dests |-> 0]
  /\ saved = [runs |-> runs, points |-> points]
  /\ plan = Dests /\ staging = {} /\ expired = {}
  /\ snaps = [d \in Dests |-> [r \in Runs |-> [partial |-> 0, complete |-> 0]]]
  /\ work = [j \in Jobs |-> NoWork]
  /\ copier = [j \in Jobs |-> [d \in Dests |-> "none"]]
  /\ reserved = [d \in Dests |-> {}] /\ leases = [j \in Jobs |-> {}]
  /\ reads = [d \in Dests |-> 0]
  /\ paused = FALSE /\ bad = [crashes |-> 0, store |-> 0]

verifiedCopy(c) == c.st = "succeeded" /\ c.ver /\ c.snap
copyWorkPending(c) == c.st = "pending" \/ (verifiedCopy(c) /\ c.ret = "pending")
runNeedsStaging(run) == \E d \in Dests : run.copies[d].st \notin {"none", "succeeded"}
Pending(run) == {d \in Dests : copyWorkPending(run.copies[d])}
Running(r) == runs[r].state = "running"

(* The state is one row of the database, written as a whole or not at all. *)
persist(ok) ==
  IF ok THEN saved' = [runs |-> runs', points |-> points'] /\ UNCHANGED bad
  ELSE bad.store < MaxStoreFailures /\ bad' = [bad EXCEPT !.store = @ + 1] /\ UNCHANGED saved

(* The checkpoint of a destination moves to a verified copy of a later capture, never back. *)
recordCheckpointsLocked(r, run) ==
  [d \in Dests |-> IF run.copies[d].snap /\ run.copies[d].ver /\ r > points[d] THEN r ELSE points[d]]
(* saveRun: the run, the checkpoints of its verified copies, then the database. *)
saveRun(r, run, ok) ==
  /\ runs' = [runs EXCEPT ![r] = run]
  /\ points' = recordCheckpointsLocked(r, run)
  /\ persist(ok)

repositoryResourcesLocked(targets) == \A d \in targets : reserved[d] = {} /\ reads[d] = 0

NewJob(j) == work[j].pc = "none" /\ \A i \in Jobs : i < j => work[i].pc # "none"
(* StartWithResources: the job service refuses what another job holds. *)
Conflict(resources) == \E i \in Jobs : leases[i] \cap resources # {}

(* Reservations, the job and the run are undone together when the run cannot be saved. *)
Admit(j, r, run, resources, pc) ==
  /\ NewJob(j) /\ ~Conflict(resources)
  /\ UNCHANGED points
  /\ \/ /\ runs' = [runs EXCEPT ![r] = run] /\ persist(TRUE)
        /\ work' = [work EXCEPT ![j] = [pc |-> pc, run |-> r, ok |-> TRUE]]
        /\ leases' = [leases EXCEPT ![j] = resources]
        /\ reserved' = [d \in Dests |-> IF d \in Pending(run) THEN {j} ELSE reserved[d]]
     \/ /\ UNCHANGED <<runs, leases, reserved>> /\ persist(FALSE)
        /\ work' = [work EXCEPT ![j] = [pc |-> "over", run |-> r, ok |-> FALSE]]
  /\ UNCHANGED <<staging, outside, snaps, copier, reads>>

StartRun(j, r) ==
  \E targets \in (SUBSET plan) \ {{}} :
    /\ runs[r].state = "none" /\ \A q \in Runs : q < r => runs[q].state # "none"
    /\ repositoryResourcesLocked(targets)
    /\ Admit(j, r, [NoRun EXCEPT !.state = "running",
                      !.copies = [d \in Dests |-> IF d \in targets THEN [NoCopy EXCEPT !.st = "pending"] ELSE NoCopy]],
             targets \cup {Global}, "begin")

(* A verified copy keeps its evidence: only its retention is repeated. *)
RetryOf(c) == IF verifiedCopy(c) THEN [c EXCEPT !.ret = "pending", !.err = TRUE] ELSE [c EXCEPT !.st = "pending"]

StartRetry(j, r) ==
  \E targets \in (SUBSET Dests) \ {{}} :
    LET old == runs[r].copies
        run == [runs[r] EXCEPT !.state = "running",
                  !.copies = [d \in Dests |-> IF d \in targets THEN RetryOf(old[d]) ELSE old[d]]]
        transfers == {d \in targets : ~verifiedCopy(old[d])}
    IN  /\ runs[r].state \in {"failed", "succeeded"} /\ runs[r].capture = "succeeded"
        /\ \A d \in targets : old[d].st # "none" /\ (old[d].st # "succeeded" \/ old[d].ret = "failed")
        /\ targets \ transfers \subseteq plan
        /\ transfers # {} => r \in staging /\ r \notin expired
        /\ repositoryResourcesLocked(Pending(run))
        /\ Admit(j, r, run, Pending(run), "replace")

(* The capture is announced and made under the global resource; a failed one may leave a directory. *)
BeginCapture(j) ==
  /\ work[j].pc = "begin"
  /\ \E stored \in BOOLEAN :
       /\ saveRun(work[j].run, [runs[work[j].run] EXCEPT !.capture = "running"], stored)
       /\ work' = [work EXCEPT ![j] = [@ EXCEPT !.pc = IF stored THEN "capture" ELSE "save", !.ok = stored]]
  /\ UNCHANGED <<staging, outside, snaps, copier, reserved, leases, reads>>
Capture(j) ==
  /\ work[j].pc = "capture"
  /\ \E stored \in BOOLEAN :
       /\ saveRun(work[j].run, [runs[work[j].run] EXCEPT !.capture = "succeeded"], stored)
       /\ work' = [work EXCEPT ![j] = [@ EXCEPT !.pc = IF stored THEN "replace" ELSE "save", !.ok = stored]]
  /\ staging' = staging \cup {work[j].run}
  /\ UNCHANGED <<outside, snaps, copier, reserved, leases, reads>>
CaptureFails(j) ==
  /\ work[j].pc = "capture"
  /\ runs' = [runs EXCEPT ![work[j].run].capture = "failed"]
  /\ work' = [work EXCEPT ![j] = [@ EXCEPT !.pc = "save", !.ok = FALSE]]
  /\ staging' = staging \cup {work[j].run}
  /\ UNCHANGED <<points, saved, outside, snaps, copier, reserved, leases, reads, bad>>

(* Only the repositories are held from here on; one transfer per pending copy is started. *)
ReplaceResources(j) ==
  /\ work[j].pc = "replace"
  /\ leases' = [leases EXCEPT ![j] = Pending(runs[work[j].run])]
  /\ copier' = [copier EXCEPT ![j] = [d \in Dests |-> IF d \in Pending(runs[work[j].run]) THEN "queued" ELSE "none"]]
  /\ work' = [work EXCEPT ![j].pc = "transfers"]
  /\ UNCHANGED <<state, staging, outside, snaps, reserved, reads, bad>>

Active == {"upload", "verify", "fail", "retention", "forget", "retained", "unretained"}
Copy(j, d) == runs[work[j].run].copies[d]
(* The update callback: the copy is put into its run and saved; the transfer goes on at pc. *)
update(j, d, copy, ok, pc) ==
  /\ saveRun(work[j].run, [runs[work[j].run] EXCEPT !.copies[d] = copy], ok)
  /\ copier' = [copier EXCEPT ![j][d] = pc]
  /\ UNCHANGED <<staging, outside, work, reserved, leases, reads>>

(* executeCopy takes a slot; a verified copy needs its retention only. *)
BeginCopy(j, d) ==
  /\ copier[j][d] = "queued" /\ UNCHANGED snaps
  /\ Cardinality({e \in Dests : copier[j][e] \in Active}) < Slots
  /\ \/ /\ verifiedCopy(Copy(j, d))
        /\ copier' = [copier EXCEPT ![j][d] = "retention"]
        /\ UNCHANGED <<state, staging, outside, work, reserved, leases, reads, bad>>
     \/ /\ ~verifiedCopy(Copy(j, d))
        /\ \E ok \in BOOLEAN :
             update(j, d, [Copy(j, d) EXCEPT !.st = "running"], ok,
                    IF ~ok THEN "fail" ELSE IF Copy(j, d).snap THEN "verify" ELSE "upload")

(* Mutation: no look for a snapshot that an interrupted run has left. *)
PriorSnapshotNone(d, r) == FALSE
PriorSnapshot(d, r) == snaps[d][r].complete > 0

(* upload: a complete snapshot with the tag of the run is taken over, else restic makes one,
   whose completion may be lost on the way back. *)
upload(j, d) ==
  LET r == work[j].run IN
  /\ copier[j][d] = "upload"
  /\ \E made \in {"complete", "partial", "nothing"}, reported \in BOOLEAN, ok \in BOOLEAN :
       /\ snaps' = IF made = "nothing" THEN snaps ELSE [snaps EXCEPT ![d][r][made] = @ + 1]
       /\ PriorSnapshot(d, r) => made = "nothing"
       /\ made = "partial" => snaps[d][r].partial < MaxPartial
       /\ reported => (made = "complete" \/ PriorSnapshot(d, r))
       /\ IF reported THEN update(j, d, [Copy(j, d) EXCEPT !.snap = TRUE], ok, IF ok THEN "verify" ELSE "fail")
          ELSE /\ ok /\ copier' = [copier EXCEPT ![j][d] = "fail"]
               /\ UNCHANGED <<state, staging, outside, work, reserved, leases, reads, bad>>

(* verifyRecoveryObjects, and the evidence is saved with the result of the transfer. *)
verifyRecoveryObjects(j, d) ==
  /\ copier[j][d] = "verify" /\ snaps[d][work[j].run].complete > 0 /\ UNCHANGED snaps
  /\ \E ok \in BOOLEAN :
       LET c == [Copy(j, d) EXCEPT !.st = "succeeded", !.ver = TRUE] IN
       IF ok THEN update(j, d, c, TRUE, "retention")
       ELSE /\ saveRun(work[j].run, [runs[work[j].run] EXCEPT !.copies[d] = [c EXCEPT !.st = "failed"]], FALSE)
            /\ copier' = [copier EXCEPT ![j][d] = "done"]
            /\ UNCHANGED <<staging, outside, work, reserved, leases, reads>>
(* The check is unavailable: the snapshot is kept for the next attempt. *)
VerifyFails(j, d) ==
  /\ copier[j][d] = "verify"
  /\ runs' = [runs EXCEPT ![work[j].run].copies[d].ver = FALSE]
  /\ copier' = [copier EXCEPT ![j][d] = "fail"]
  /\ UNCHANGED <<points, saved, staging, outside, snaps, work, reserved, leases, reads, bad>>
FailCopy(j, d) ==
  /\ copier[j][d] = "fail" /\ UNCHANGED snaps
  /\ \E ok \in BOOLEAN : update(j, d, [Copy(j, d) EXCEPT !.st = "failed"], ok, "done")

(* executeRetention: skipped while paused, and then an earlier failure stays one. *)
executeRetention(j, d) ==
  /\ copier[j][d] = "retention" /\ UNCHANGED snaps
  /\ \E ok \in BOOLEAN :
       IF paused
       THEN update(j, d, [Copy(j, d) EXCEPT !.ret = IF ~ok \/ Copy(j, d).err THEN "failed" ELSE "skipped", !.err = @ \/ ~ok], ok, "done")
       ELSE update(j, d, [Copy(j, d) EXCEPT !.ret = "running", !.err = FALSE], ok, IF ok THEN "forget" ELSE "unretained")

Complete(d) == {r \in Runs : snaps[d][r].complete > 0}
Newest(S, n) == {r \in S : Cardinality({q \in S : q > r}) < n}
(* Mutation: the recovery point of the checkpoint competes like any other. *)
RetainedByPolicy(d) == Newest(Complete(d), Keep)
(* retain: what the policy keeps of the complete snapshots, and the checkpoint. *)
Retained(d) == Newest(Complete(d), Keep) \cup {points[d]}
retain(j, d) ==
  /\ copier[j][d] = "forget"
  /\ \/ /\ d \in plan
        /\ snaps' = [snaps EXCEPT ![d] = [q \in Runs |-> IF q \in Retained(d) THEN @[q] ELSE [@[q] EXCEPT !.complete = 0]]]
        /\ copier' = [copier EXCEPT ![j][d] = "retained"]
     \/ UNCHANGED snaps /\ copier' = [copier EXCEPT ![j][d] = "unretained"]
  /\ UNCHANGED <<state, staging, outside, work, reserved, leases, reads, bad>>
RecordRetention(j, d) ==
  /\ copier[j][d] \in {"retained", "unretained"} /\ UNCHANGED snaps
  /\ \E ok \in BOOLEAN :
       LET failed == ~ok \/ copier[j][d] = "unretained" IN
       update(j, d, [Copy(j, d) EXCEPT !.ret = IF failed THEN "failed" ELSE "succeeded", !.err = failed], ok, "done")

(* A finished destination is given back while its siblings go on; the last one is kept. *)
releaseCompletedRepository(j, d) ==
  LET others == {e \in Dests \ {d} : reserved[e] = {j}} IN
  /\ copier[j][d] = "done" /\ copier' = [copier EXCEPT ![j][d] = "none"]
  /\ IF reserved[d] = {j} /\ others # {}
     THEN leases' = [leases EXCEPT ![j] = others] /\ reserved' = [reserved EXCEPT ![d] = {}]
     ELSE UNCHANGED <<leases, reserved>>
  /\ UNCHANGED <<state, staging, outside, snaps, work, reads, bad>>

Failed(run) ==
  \E d \in Dests : run.copies[d].st \notin {"none", "succeeded"} \/ (run.copies[d].st = "succeeded" /\ run.copies[d].ret = "failed")
EndTransfers(j) ==
  /\ work[j].pc = "transfers" /\ \A d \in Dests : copier[j][d] = "none"
  /\ \E cancelled \in BOOLEAN :
       work' = [work EXCEPT ![j] = [@ EXCEPT !.pc = "save", !.ok = ~cancelled /\ ~Failed(runs[work[j].run])]]
  /\ UNCHANGED <<state, staging, outside, snaps, copier, reserved, leases, reads, bad>>

Interrupted(c) == IF verifiedCopy(c) /\ c.ret \in {"pending", "running"} THEN [c EXCEPT !.ret = "failed", !.err = TRUE] ELSE c
(* The deferred end of ExecuteRun: the run is saved, then staging, the job and the reservations go. *)
SaveRun(j) ==
  LET run == runs[work[j].run] IN
  /\ work[j].pc = "save"
  /\ \E ok \in BOOLEAN :
       /\ saveRun(work[j].run,
                  [run EXCEPT !.state = IF work[j].ok THEN "succeeded" ELSE "failed",
                     !.copies = [d \in Dests |-> IF work[j].ok THEN @[d] ELSE Interrupted(@[d])]], ok)
       /\ work' = [work EXCEPT ![j] = [@ EXCEPT !.ok = work[j].ok /\ ok,
                     !.pc = IF runNeedsStaging(run) /\ run.capture = "succeeded" THEN "finish" ELSE "stage"]]
  /\ UNCHANGED <<staging, outside, snaps, copier, reserved, leases, reads>>
RemoveStage(j) ==
  /\ work[j].pc = "stage"
  /\ staging' = staging \ {work[j].run}
  /\ work' = [work EXCEPT ![j].pc = "finish"]
  /\ UNCHANGED <<state, outside, snaps, copier, reserved, leases, reads, bad>>
finish(j) ==
  /\ work[j].pc = "finish"
  /\ leases' = [leases EXCEPT ![j] = {}] /\ work' = [work EXCEPT ![j].pc = "release"]
  /\ UNCHANGED <<state, staging, outside, snaps, copier, reserved, reads, bad>>
releaseRepositories(j) ==
  /\ work[j].pc = "release"
  /\ reserved' = [d \in Dests |-> reserved[d] \ {j}] /\ work' = [work EXCEPT ![j].pc = "over"]
  /\ UNCHANGED <<state, staging, outside, snaps, copier, leases, reads, bad>>

(* A browser reads a repository. *)
beginRepositoryRead(d) ==
  /\ reserved[d] = {} /\ reads[d] < Reads /\ reads' = [reads EXCEPT ![d] = @ + 1]
  /\ UNCHANGED <<state, staging, outside, snaps, work, copier, reserved, leases, bad>>
EndRead(d) ==
  /\ reads[d] > 0 /\ reads' = [reads EXCEPT ![d] = @ - 1]
  /\ UNCHANGED <<state, staging, outside, snaps, work, copier, reserved, leases, bad>>

configurationBusyLocked == (\E d \in Dests : reserved[d] # {} \/ reads[d] > 0) \/ \E r \in Runs : Running(r)
(* The operator assigns the destinations of the plan anew, or takes one away. *)
SavePlan ==
  /\ ~configurationBusyLocked
  /\ \E d \in Dests : plan' \in {plan \cup {d}, plan \ {d}} /\ plan' # plan
  /\ UNCHANGED <<state, staging, expired, paused, snaps, work, copier, reserved, leases, reads, bad>>
SavePolicy == paused' = ~paused /\ UNCHANGED <<state, staging, plan, expired, snaps, work, copier, reserved, leases, reads, bad>>
Expire(r) ==
  /\ runs[r].state # "none" /\ r \notin expired /\ expired' = expired \cup {r}
  /\ UNCHANGED <<state, staging, plan, paused, snaps, work, copier, reserved, leases, reads, bad>>
Cleanable(r) == r \in expired /\ ~Running(r)
cleanupExpired ==
  /\ \E r \in staging : Cleanable(r)
  /\ staging' = {r \in staging : ~Cleanable(r)}
  /\ UNCHANGED <<state, outside, snaps, work, copier, reserved, leases, reads, bad>>

(* Reconcile: interrupted work is marked for an explicit retry, successful copies are kept. *)
Reconciled(run) ==
  IF run.state # "running" THEN run
  ELSE [run EXCEPT !.state = "failed", !.capture = IF @ = "succeeded" THEN @ ELSE "failed",
          !.copies = [d \in Dests |-> LET c == Interrupted(@[d]) IN
                        IF c.st \in {"running", "pending"} THEN [c EXCEPT !.st = "failed"] ELSE c]]

(* The process ends anywhere and comes back with what was saved. *)
Restart ==
  /\ bad.crashes < MaxCrashes /\ bad' = [bad EXCEPT !.crashes = @ + 1]
  /\ runs' = [r \in Runs |-> Reconciled(saved.runs[r])] /\ points' = saved.points
  /\ saved' = [runs |-> runs', points |-> points']
  /\ work' = [j \in Jobs |-> IF work[j].pc = "none" THEN NoWork ELSE [work[j] EXCEPT !.pc = "over"]]
  /\ copier' = [j \in Jobs |-> [d \in Dests |-> "none"]]
  /\ reserved' = [d \in Dests |-> {}] /\ leases' = [j \in Jobs |-> {}] /\ reads' = [d \in Dests |-> 0]
  /\ UNCHANGED <<staging, outside, snaps>>

CopyStep(j, d) ==
  \/ BeginCopy(j, d) \/ upload(j, d) \/ verifyRecoveryObjects(j, d) \/ VerifyFails(j, d) \/ FailCopy(j, d)
  \/ executeRetention(j, d) \/ retain(j, d) \/ RecordRetention(j, d) \/ releaseCompletedRepository(j, d)
JobStep(j) ==
  \/ BeginCapture(j) \/ Capture(j) \/ CaptureFails(j) \/ ReplaceResources(j)
  \/ EndTransfers(j) \/ SaveRun(j) \/ RemoveStage(j) \/ finish(j) \/ releaseRepositories(j)
  \/ \E d \in Dests : CopyStep(j, d)
Next ==
  \/ \E j \in Jobs : JobStep(j) \/ \E r \in Runs : StartRun(j, r) \/ StartRetry(j, r)
  \/ \E d \in Dests : beginRepositoryRead(d) \/ EndRead(d)
  \/ \E r \in Runs : Expire(r)
  \/ SavePlan \/ SavePolicy \/ cleanupExpired \/ Restart

Spec == Init /\ [][Next]_vars

(* A repository is worked on by one job at a time and never while it is being read,
   although a job gives its repositories back one by one. *)
RepositoryIsExclusive ==
  \A d \in Dests :
    LET users == {j \in Jobs : copier[j][d] \in Active} IN
    Cardinality(users) <= 1 /\ (users # {} => reads[d] = 0)

(* A transfer finds its recovery set until it is done, whatever expires, is cleaned up or
   ends beside it. *)
StagingIsThere ==
  \A j \in Jobs, d \in Dests : copier[j][d] \in {"upload", "verify"} => work[j].run \in staging

(* Evidence of a verified copy, once in the database, survives retries, failures and restarts. *)
VerifiedIsKept ==
  \A r \in Runs, d \in Dests : verifiedCopy(saved.runs[r].copies[d]) => verifiedCopy(saved'.runs[r].copies[d])

(* The snapshot that the newest verified capture stands for is in the repository: no newer
   snapshot that nobody has recorded pushes it out. *)
CheckpointIsRetained ==
  \A d \in Dests : points[d] # 0 => snaps[d][points[d]].complete > 0

(* An interrupted upload is taken over: a run has one complete snapshot in a repository. *)
NoDuplicateSnapshot ==
  \A d \in Dests, r \in Runs : snaps[d][r].complete <= 1

(* A run that is running has a job that works for it, also after a restart. *)
RunHasJob ==
  \A r \in Runs : Running(r) => \E j \in Jobs : work[j].run = r /\ work[j].pc \in {"begin", "capture", "replace", "transfers", "save"}

(* A job that ends well has left a run in the database whose copies are all verified, none of
   them with retention that failed. *)
SuccessIsDurable ==
  \A j \in Jobs : work[j].pc = "finish" /\ work[j].ok =>
    \A d \in Dests : LET c == saved.runs[work[j].run].copies[d] IN c.st = "none" \/ (verifiedCopy(c) /\ c.ret \in {"succeeded", "skipped"})

(* The assignments stay as they are while a job works, cleans up or reports, and while a
   repository is read. *)
ConfigurationIsPinned ==
  plan' # plan => (\A j \in Jobs : work[j].pc \in {"none", "over"}) /\ \A d \in Dests : reads[d] = 0

(* A backup run has its repository to itself, its recovery set until it is done, one snapshot
   in each repository and a job that works for it, and a success is in the database; evidence of
   a verified copy, once in the database, survives retries, failures and restarts; and the
   assignments stay as they are while a job works, cleans up or reports, and while a repository
   is read. *)
BackupIsSound ==
  /\ [](RepositoryIsExclusive /\ StagingIsThere /\ NoDuplicateSnapshot /\ RunHasJob /\ SuccessIsDurable)
  /\ [][VerifiedIsKept /\ ConfigurationIsPinned]_vars
=============================================================================
