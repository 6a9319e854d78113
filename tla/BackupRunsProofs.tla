-------------------------- MODULE BackupRunsProofs --------------------------
(***************************************************************************)
(* Proofs about backup runs, for any set of runs, destinations and jobs,   *)
(* any number of transfer slots and kept snapshots, and any number of      *)
(* crashes, refused writes and interrupted uploads.                        *)
(***************************************************************************)
EXTENDS BackupRuns, FiniteSetTheorems, TLAPS

-----------------------------------------------------------------------------
(* Types. *)
CopyStates == {"none", "pending", "running", "succeeded", "failed"}
RetentionStates == {"pending", "running", "succeeded", "failed", "skipped"}
CopyType == [st : CopyStates, snap : BOOLEAN, ver : BOOLEAN, ret : RetentionStates, err : BOOLEAN]
RunType == [state : {"none", "running", "failed", "succeeded"},
            capture : {"pending", "running", "succeeded", "failed"}, copies : [Dests -> CopyType]]
PointsType == [Dests -> Runs \cup {0}]
SnapsType == [Dests -> [Runs -> [partial : Nat, complete : Nat]]]

(* A job works for its run until that is saved, and holds repositories until it gives them back. *)
Busy == {"begin", "capture", "replace", "transfers", "save"}
Holding == Busy \cup {"stage", "finish", "release"}
WorkType == [pc : Holding \cup {"none", "over"}, run : Runs \cup {0}, ok : BOOLEAN]
CopierType == Active \cup {"none", "queued", "done"}

StateType ==
  /\ runs \in [Runs -> RunType] /\ points \in PointsType
  /\ saved \in [runs : [Runs -> RunType], points : PointsType]
WorldType ==
  /\ plan \in SUBSET Dests /\ staging \in SUBSET Runs /\ expired \in SUBSET Runs
  /\ snaps \in SnapsType
  /\ work \in [Jobs -> WorkType] /\ copier \in [Jobs -> [Dests -> CopierType]]
  /\ reserved \in [Dests -> SUBSET Jobs] /\ leases \in [Jobs -> SUBSET (Dests \cup {Global})]
  /\ reads \in [Dests -> Nat] /\ paused \in BOOLEAN /\ bad \in [crashes : Nat, store : Nat]

(* Every variable of the backup service keeps its type. *)
TypeOK == StateType /\ WorldType

-----------------------------------------------------------------------------
(* The inductive invariant: what a copy, a run and the checkpoints can be. *)

(* A copy succeeds with its evidence, and retention looks at verified copies only. *)
CopyOK(c) == (c.st = "succeeded" => c.ver) /\ (c.ver => c.snap) /\ (~verifiedCopy(c) => c.ret = "pending")

(* A copy that nothing has begun, that nobody works on any more, and that has ended well. *)
Untouched(c) == c.st \in {"none", "pending"}
Quiet(c) == c.st \in {"none", "succeeded", "failed"} /\ (verifiedCopy(c) => c.ret \notin {"pending", "running"})
Good(c) == c.st = "none" \/ (verifiedCopy(c) /\ c.ret \in {"succeeded", "skipped"})

(* A run at rest has failed before its transfers began, or has ended all of them. *)
RunAtRest(run) == (\A d \in Dests : Untouched(run.copies[d])) \/ (\A d \in Dests : Quiet(run.copies[d]))
RunOK(run) ==
  /\ \A d \in Dests : CopyOK(run.copies[d])
  /\ run.state = "none" => \A d \in Dests : run.copies[d].st = "none"
  /\ run.state \in {"failed", "succeeded"} => RunAtRest(run)

(* What has evidence is not newer than the checkpoint, in memory and in the database, and both
   checkpoints have their snapshot. *)
PointOK(p) == \A d \in Dests : p[d] # 0 => snaps[d][p[d]].complete > 0
EvidenceOK(rs, p) == \A r \in Runs, d \in Dests : rs[r].copies[d].ver => r <= p[d]
KeptOK == \A r \in Runs, d \in Dests : verifiedCopy(saved.runs[r].copies[d]) => verifiedCopy(runs[r].copies[d])
StateInv ==
  /\ \A r \in Runs : RunOK(runs[r]) /\ RunOK(saved.runs[r])
  /\ KeptOK
  /\ EvidenceOK(runs, points) /\ EvidenceOK(saved.runs, saved.points)
  /\ PointOK(points) /\ PointOK(saved.points)
  /\ NoDuplicateSnapshot

(* Reservations: nobody reads what is reserved, a transfer has its repository, and a job that has
   not ended holds at least one. *)
ReservedInv ==
  /\ \A d \in Dests : reserved[d] # {} => reads[d] = 0
  /\ \A j \in Jobs, d \in Dests : copier[j][d] # "none" => work[j].pc = "transfers" /\ reserved[d] = {j}
  /\ \A j \in Jobs : work[j].pc \in Holding => \E d \in Dests : reserved[d] = {j}

(* What a transfer at k says of its copy. *)
CopierOK(k, c) ==
  /\ k \in {"none", "done"} => Quiet(c)
  /\ k = "queued" => copyWorkPending(c)
  /\ k \in {"upload", "fail", "verify"} => c.st = "running"
  /\ k = "verify" => c.snap
  /\ k \in {"retention", "forget", "retained", "unretained"} => verifiedCopy(c)

(* What the progress of a job says of its run, in memory and in the database. *)
JobOK(j) ==
  LET w == work[j] run == runs[work[j].run] IN
  /\ w.pc \in Holding => w.run \in Runs /\ run.state # "none"
  /\ w.pc \in Busy => run.state = "running"
  /\ w.pc \in {"begin", "capture"} => run.capture # "succeeded" /\ \A d \in Dests : Untouched(run.copies[d])
  /\ w.pc \in {"begin", "capture", "replace"} =>
       \A d \in Dests : IF copyWorkPending(run.copies[d]) THEN reserved[d] = {j} ELSE Quiet(run.copies[d])
  /\ w.pc = "transfers" => \A d \in Dests : CopierOK(copier[j][d], run.copies[d])
  /\ w.pc \in {"replace", "transfers"} =>
       \A d \in Dests : run.copies[d].st \in {"pending", "running"} => w.run \in staging
  /\ w.pc = "save" => RunAtRest(run)
  /\ w.pc = "stage" =>
       IF run.capture = "succeeded" THEN \A d \in Dests : run.copies[d].st \in {"none", "succeeded"} ELSE run.state # "running"
  /\ w.pc \in {"save", "stage", "finish"} /\ w.ok => \A d \in Dests : Good(run.copies[d])
  /\ w.pc \in {"stage", "finish"} /\ w.ok =>
       run.state = "succeeded" /\ \A d \in Dests : Good(saved.runs[w.run].copies[d])

OneJobPerRun ==
  \A i, j \in Jobs : work[i].pc \in Busy /\ work[j].pc \in Busy /\ work[i].run = work[j].run => i = j
JobInv == (\A j \in Jobs : JobOK(j)) /\ OneJobPerRun /\ RunHasJob

(* Retention deletes by a checkpoint that is in the database. *)
ForgetInv == \A j \in Jobs, d \in Dests : copier[j][d] = "forget" => saved.points[d] = points[d]

Inv == TypeOK /\ StateInv /\ ReservedInv /\ JobInv /\ ForgetInv

-----------------------------------------------------------------------------
(* Copies and runs as values. *)

(* The fields of a copy. *)
LEMMA CopyFields ==
  ASSUME NEW c \in CopyType
  PROVE  /\ c.st \in CopyStates /\ c.ret \in RetentionStates
         /\ c.snap \in BOOLEAN /\ c.ver \in BOOLEAN /\ c.err \in BOOLEAN
BY DEF CopyType

(* The fields of a run, as ExecuteRun and its transfers change them. *)
LEMMA RunFields ==
  ASSUME NEW run \in RunType
  PROVE  /\ run.state \in {"none", "running", "failed", "succeeded"}
         /\ run.capture \in {"pending", "running", "succeeded", "failed"}
         /\ run.copies \in [Dests -> CopyType]
         /\ \A d \in Dests : run.copies[d] \in CopyType
BY DEF RunType

(* The update callback changes one copy of a run. *)
LEMMA CopyReplaced ==
  ASSUME NEW run \in RunType, NEW d \in Dests, NEW c \in CopyType
  PROVE  LET new == [run EXCEPT !.copies[d] = c] IN
         /\ new \in RunType /\ new.state = run.state /\ new.capture = run.capture
         /\ new.copies[d] = c /\ \A e \in Dests : e # d => new.copies[e] = run.copies[e]
BY DEF RunType

(* The values of a run and a copy before anything is started. *)
LEMMA NothingStarted ==
  /\ NoCopy \in CopyType /\ NoRun \in RunType
  /\ NoRun.state = "none" /\ NoRun.capture = "pending" /\ \A d \in Dests : NoRun.copies[d] = NoCopy
  /\ NoCopy.st = "none" /\ ~NoCopy.snap /\ ~NoCopy.ver /\ NoCopy.ret = "pending" /\ ~NoCopy.err
BY DEF NoCopy, NoRun, CopyType, RunType, CopyStates, RetentionStates

(* The row of the database holds the runs and the checkpoints. *)
LEMMA RowFields ==
  ASSUME NEW rs, NEW ps
  PROVE  [runs |-> rs, points |-> ps].runs = rs /\ [runs |-> rs, points |-> ps].points = ps
OBVIOUS

(* A run replaces its row, the checkpoints move to it only with its snapshot, and the database takes
   all of it or nothing: what saveRun and the admission of a job have in common. *)
LEMMA StateKept ==
  ASSUME StateType, StateInv, snaps \in SnapsType, snaps' \in SnapsType,
         NEW r \in Runs, NEW run \in RunType, RunOK(run),
         runs' = [runs EXCEPT ![r] = run],
         points' \in PointsType,
         \A d \in Dests : points'[d] = points[d] \/ (points'[d] = r /\ r > points[d] /\ snaps'[d][r].complete > 0),
         \A d \in Dests : run.copies[d].ver => r <= points'[d],
         \A d \in Dests : verifiedCopy(runs[r].copies[d]) => verifiedCopy(run.copies[d]),
         saved' = saved \/ saved' = [runs |-> runs', points |-> points'],
         \A d \in Dests, q \in Runs : snaps'[d][q].complete >= snaps[d][q].complete,
         NoDuplicateSnapshot'
  PROVE  StateType' /\ StateInv' /\ VerifiedIsKept
<1>0. /\ r \in Nat /\ r # 0 /\ Runs \subseteq Nat
      /\ \A q \in Runs : runs[q] \in RunType /\ saved.runs[q] \in RunType
      /\ saved.runs \in [Runs -> RunType] /\ saved.points \in PointsType
      /\ \A d \in Dests : points[d] \in Nat /\ points'[d] \in Nat /\ points[d] \in Runs \cup {0} /\ saved.points[d] \in Runs \cup {0}
  <2>1. r \in Nat /\ r # 0 /\ Runs \subseteq Nat
    BY ONLY BackupRunsAssumption, r \in Runs
  <2>2. saved.runs \in [Runs -> RunType] /\ saved.points \in PointsType /\ runs \in [Runs -> RunType] /\ points \in PointsType
    BY ONLY StateType DEF StateType
  <2>3. \A q \in Runs : runs[q] \in RunType /\ saved.runs[q] \in RunType
    BY ONLY <2>2
  <2>4. \A d \in Dests : points[d] \in Runs \cup {0} /\ points'[d] \in Runs \cup {0} /\ saved.points[d] \in Runs \cup {0}
    BY ONLY <2>2, points' \in PointsType DEF PointsType
  <2>5. \A d \in Dests : points[d] \in Nat /\ points'[d] \in Nat
    <3>1. 0 \in Nat
      OBVIOUS
    <3> QED
      BY <3>1, <2>1, <2>4, Zenon
  <2> QED
    BY <2>1, <2>2, <2>3, <2>4, <2>5, Zenon
<1>1. /\ runs' \in [Runs -> RunType] /\ runs'[r] = run /\ \A q \in Runs : q # r => runs'[q] = runs[q]
  BY <1>0 DEF StateType
<1>2. saved' \in [runs : [Runs -> RunType], points : PointsType]
  BY <1>1 DEF StateType
<1>3. /\ saved'.runs = saved.runs \/ saved'.runs = runs'
      /\ saved'.points = saved.points \/ saved'.points = points'
      /\ saved' = saved \/ (saved'.runs = runs' /\ saved'.points = points')
  <2>1. [runs |-> runs', points |-> points'].runs = runs' /\ [runs |-> runs', points |-> points'].points = points'
    BY RowFields
  <2> QED
    BY <2>1, Zenon
<1>4. \A q \in Runs : RunOK(runs'[q])
  BY <1>1 DEF StateInv
<1>5. \A q \in Runs, d \in Dests : verifiedCopy(runs[q].copies[d]) => verifiedCopy(runs'[q].copies[d])
  BY <1>1
<1>6. KeptOK' /\ VerifiedIsKept
  BY <1>3, <1>5, Zenon DEF StateInv, KeptOK, VerifiedIsKept
<1>7. \A d \in Dests : points'[d] >= points[d]
  BY <1>0
<1>8. EvidenceOK(runs', points')
  <2> SUFFICES ASSUME NEW q \in Runs, NEW d \in Dests, runs'[q].copies[d].ver PROVE q <= points'[d]
    BY DEF EvidenceOK
  <2>1. CASE q = r
    BY <2>1, <1>1
  <2>2. CASE q # r
    <3>1. q <= points[d]
      BY <2>2, <1>1, Zenon DEF StateInv, EvidenceOK
    <3> QED
      BY <3>1, <1>7, <1>0
  <2> QED
    BY <2>1, <2>2
<1>9. PointOK(points)' /\ PointOK(saved.points)'
  <2>1. \A d \in Dests, q \in Runs : snaps[d][q].complete \in Nat /\ snaps'[d][q].complete \in Nat
    BY DEF SnapsType
  <2>2. \A d \in Dests : points'[d] # 0 => snaps'[d][points'[d]].complete > 0
    <3> TAKE d \in Dests
    <3> HAVE points'[d] # 0
    <3>1. CASE points'[d] = points[d]
      <4>1. points[d] \in Runs /\ snaps[d][points[d]].complete > 0
        BY <3>1, <1>0 DEF StateInv, PointOK
      <4> QED
        BY <4>1, <3>1, <2>1
    <3>2. CASE points'[d] # points[d]
      BY <3>2, Zenon
    <3> QED
      BY <3>1, <3>2
  <2>3. \A d \in Dests : saved.points[d] # 0 => snaps'[d][saved.points[d]].complete > 0
    <3> TAKE d \in Dests
    <3> HAVE saved.points[d] # 0
    <3>1. saved.points[d] \in Runs /\ snaps[d][saved.points[d]].complete > 0
      BY <1>0 DEF StateInv, PointOK
    <3> QED
      BY <3>1, <2>1
  <2> QED
    BY <2>2, <2>3, <1>3, Zenon DEF PointOK
<1>10. EvidenceOK(runs, points)' /\ EvidenceOK(saved.runs, saved.points)'
  BY <1>8, <1>3, ZenonT(30) DEF StateInv, EvidenceOK
<1>11. \A q \in Runs : RunOK(runs[q])' /\ RunOK(saved.runs[q])'
  <2>1. \A q \in Runs : RunOK(saved'.runs[q])
    BY <1>4, <1>3, Zenon DEF StateInv
  <2> QED
    BY <2>1, <1>4 DEF RunOK, RunAtRest, CopyOK, Quiet, Untouched, verifiedCopy
<1> QED
  BY <1>1, <1>2, <1>6, <1>9, <1>10, <1>11, Zenon DEF StateType, StateInv

(* saveRun: the run is well formed, loses no evidence and gains none without its snapshot. *)
LEMMA SaveRunKeeps ==
  ASSUME StateType, StateInv, snaps \in SnapsType, snaps' \in SnapsType, bad \in [crashes : Nat, store : Nat],
         NEW r \in Runs, NEW run \in RunType, RunOK(run), NEW ok \in BOOLEAN, saveRun(r, run, ok),
         \A d \in Dests : run.copies[d].ver => r <= points[d] \/ snaps'[d][r].complete > 0,
         \A d \in Dests : verifiedCopy(runs[r].copies[d]) => verifiedCopy(run.copies[d]),
         \A d \in Dests, q \in Runs : snaps'[d][q].complete >= snaps[d][q].complete,
         NoDuplicateSnapshot'
  PROVE  /\ StateType' /\ StateInv' /\ VerifiedIsKept /\ bad' \in [crashes : Nat, store : Nat]
         /\ runs' = [runs EXCEPT ![r] = run] /\ runs'[r] = run /\ \A q \in Runs : q # r => runs'[q] = runs[q]
         /\ saved'.runs = saved.runs \/ saved'.runs = runs'
         /\ saved'.points = saved.points \/ saved'.points = points'
         /\ ok => saved'.points = points' /\ saved'.runs = runs'
         /\ \A d \in Dests : (run.copies[d].ver => r <= points[d]) => points'[d] = points[d]
<1>0. r \in Nat /\ \A d \in Dests : points[d] \in Nat /\ points[d] \in Runs \cup {0} /\ run.copies[d].ver \in BOOLEAN /\ run.copies[d] \in CopyType
  BY BackupRunsAssumption, RunFields, CopyFields DEF StateType, PointsType
<1>1. runs' = [runs EXCEPT ![r] = run] /\ points' = recordCheckpointsLocked(r, run) /\ persist(ok)
  BY DEF saveRun
<1>2. runs'[r] = run /\ \A q \in Runs : q # r => runs'[q] = runs[q]
  BY <1>1, Zenon DEF StateType
<1>3. points' \in PointsType /\ \A d \in Dests : points'[d] = IF run.copies[d].snap /\ run.copies[d].ver /\ r > points[d] THEN r ELSE points[d]
  BY <1>0, <1>1, Zenon DEF recordCheckpointsLocked, PointsType
<1>4. \A d \in Dests : points'[d] = points[d] \/ (points'[d] = r /\ r > points[d] /\ snaps'[d][r].complete > 0)
  BY <1>3, <1>0
<1>5. \A d \in Dests : run.copies[d].ver => r <= points'[d]
  <2> TAKE d \in Dests
  <2>1. run.copies[d].ver => run.copies[d].snap
    BY DEF RunOK, CopyOK
  <2> QED
    BY <2>1, <1>3, <1>0
<1>6. /\ saved' = saved \/ saved' = [runs |-> runs', points |-> points']
      /\ ok => saved' = [runs |-> runs', points |-> points']
      /\ bad' \in [crashes : Nat, store : Nat]
  BY <1>1, SMTT(30) DEF persist
<1>7. [runs |-> runs', points |-> points'].runs = runs' /\ [runs |-> runs', points |-> points'].points = points'
  BY RowFields
<1>8. /\ saved'.runs = saved.runs \/ saved'.runs = runs'
      /\ saved'.points = saved.points \/ saved'.points = points'
      /\ ok => saved'.points = points' /\ saved'.runs = runs'
  BY <1>6, <1>7, Zenon
<1>9. StateType' /\ StateInv' /\ VerifiedIsKept
  BY <1>1, <1>3, <1>4, <1>5, <1>6, StateKept, Zenon
<1>10. \A d \in Dests : (run.copies[d].ver => r <= points[d]) => points'[d] = points[d]
  BY <1>3, <1>0
<1> QED
  BY <1>1, <1>2, <1>6, <1>8, <1>9, <1>10, Zenon

(* A step that leaves the state and the repositories alone. *)
LEMMA StateUntouched ==
  ASSUME StateType, StateInv, UNCHANGED <<runs, points, saved, snaps>>
  PROVE  StateType' /\ StateInv' /\ VerifiedIsKept
BY DEF StateType, StateInv, VerifiedIsKept, KeptOK, EvidenceOK, PointOK, RunOK, RunAtRest, CopyOK, Quiet, Untouched,
       verifiedCopy, NoDuplicateSnapshot

(* A job that works for a run changes nothing that another job has to know: jobs of other runs
   do not look at it, and the run of a job that has ended is at most retried. *)
LEMMA OthersKept ==
  ASSUME StateType, WorldType, JobInv, NEW j \in Jobs, work[j].pc \in Busy, work[j].run \in Runs,
         \A q \in Runs : q # work[j].run => runs'[q] = runs[q],
         runs'[work[j].run].state # "none",
         runs[work[j].run].capture = "succeeded" => runs'[work[j].run].capture = "succeeded",
         \A d \in Dests : runs[work[j].run].copies[d].st \in {"none", "succeeded"} =>
                          runs'[work[j].run].copies[d].st \in {"none", "succeeded"},
         saved'.runs = saved.runs \/ saved'.runs = runs',
         \A i \in Jobs : i # j => work'[i] = work[i] /\ copier'[i] = copier[i],
         \A i \in Jobs, d \in Dests : i # j /\ reserved[d] = {i} => reserved'[d] = {i},
         staging \subseteq staging'
  PROVE  \A i \in Jobs : i # j => JobOK(i)'
<1> SUFFICES ASSUME NEW i \in Jobs, i # j PROVE JobOK(i)'
  BY Zenon
<1> DEFINE r == work[j].run
           run == runs'[r]
<1>1. work'[i] = work[i] /\ copier'[i] = copier[i] /\ \A d \in Dests : reserved[d] = {i} => reserved'[d] = {i}
  OBVIOUS
<1>2. JobOK(i) /\ JobOK(j)
  BY Zenon DEF JobInv
<1>3. CASE work[i].pc \notin Holding
  BY <1>1, <1>3, Zenon DEF JobOK, Holding, Busy
<1>4. CASE work[i].pc \in Holding /\ work[i].run # r
  <2>1. work[i].run \in Runs
    BY <1>2, <1>4, Zenon DEF JobOK
  <2>2. runs'[work[i].run] = runs[work[i].run]
    BY <2>1, <1>4, Zenon
  <2>3. saved'.runs[work[i].run] = saved.runs[work[i].run] \/ saved'.runs[work[i].run] = runs[work[i].run]
    BY <2>2, Zenon
  <2> HIDE DEF Holding, Busy
  <2> QED
    BY <2>1, <2>2, <2>3, <1>1, <1>2, ZenonT(30) DEF JobOK
<1>5. CASE work[i].pc \in Holding /\ work[i].run = r
  <2>1. work[i].pc \notin Busy
    BY <1>5, Zenon DEF JobInv, OneJobPerRun
  <2>2. runs[r].state = "running"
    BY <1>2 DEF JobOK
  <2>3. work[i].pc \in {"stage", "finish", "release"}
    BY <1>5, <2>1, Zenon DEF Holding
  <2>4. work[i].pc \in {"stage", "finish"} => ~work[i].ok
    BY <1>2, <1>5, <2>2, Zenon DEF JobOK
  <2>5. work[i].pc = "stage" => run.capture = "succeeded" /\ \A d \in Dests : run.copies[d].st \in {"none", "succeeded"}
    BY <1>2, <1>5, <2>2, Zenon DEF JobOK
  <2> QED
    BY <1>1, <1>5, <2>3, <2>4, <2>5, ZenonT(30) DEF JobOK, Holding, Busy
<1> QED
  BY <1>3, <1>4, <1>5, Zenon

(* A job goes on, or from working to cleaning up when its run is at rest. *)
LEMMA WorkKept ==
  ASSUME WorldType, ReservedInv, JobInv, NEW j \in Jobs, NEW w \in WorkType, work' = [work EXCEPT ![j] = w],
         w.run = work[j].run, work[j].pc \in Holding, w.pc \in Holding, w.pc \in Busy => work[j].pc \in Busy,
         \A d \in Dests : copier[j][d] = "none", UNCHANGED <<copier, reserved, reads>>,
         \A r \in Runs : Running(r)' => Running(r),
         work[j].run \in Runs /\ Running(work[j].run)' /\ work[j].pc \in Busy => w.pc \in Busy
  PROVE  /\ ReservedInv' /\ OneJobPerRun' /\ RunHasJob' /\ work' \in [Jobs -> WorkType] /\ work'[j] = w
         /\ \A i \in Jobs : i # j => work'[i] = work[i]
<1>1. work' \in [Jobs -> WorkType] /\ work'[j] = w /\ \A i \in Jobs : i # j => work'[i] = work[i]
  BY DEF WorldType
<1>2. ReservedInv'
  BY <1>1, Zenon DEF ReservedInv
<1>3. OneJobPerRun'
  BY <1>1, ZenonT(30) DEF JobInv, OneJobPerRun
<1>4. RunHasJob'
  <2> SUFFICES ASSUME NEW r \in Runs, Running(r)' PROVE \E i \in Jobs : work'[i].run = r /\ work'[i].pc \in Busy
    BY DEF RunHasJob, Busy
  <2>1. Running(r)
    BY Zenon
  <2>2. PICK i \in Jobs : work[i].run = r /\ work[i].pc \in Busy
    BY <2>1, Zenon DEF JobInv, RunHasJob, Busy
  <2>3. CASE i = j
    BY <2>2, <2>3, <1>1, Zenon
  <2>4. CASE i # j
    BY <2>2, <2>4, <1>1, Zenon
  <2> QED
    BY <2>3, <2>4, Zenon
<1> QED
  BY <1>1, <1>2, <1>3, <1>4, Zenon

(* The capture of a run is announced, made, or fails. *)
LEMMA CaptureSet ==
  ASSUME StateType, StateInv, NEW r \in Runs, NEW c \in {"pending", "running", "succeeded", "failed"}, runs[r].state = "running",
         NEW run, run = [runs[r] EXCEPT !.capture = c]
  PROVE  /\ run \in RunType /\ RunOK(run) /\ run.state = "running" /\ run.capture = c /\ run.copies = runs[r].copies
         /\ \A d \in Dests : run.copies[d].ver => r <= points[d]
<1>1. runs[r] \in RunType /\ RunOK(runs[r]) /\ \A d \in Dests : runs[r].copies[d].ver => r <= points[d]
  BY DEF StateType, StateInv, EvidenceOK
<1>2. run \in RunType /\ run.state = "running" /\ run.capture = c /\ run.copies = runs[r].copies
  BY <1>1 DEF RunType
<1> QED
  BY <1>1, <1>2 DEF RunOK

(* Before its transfers a job has none of them. *)
LEMMA NoTransfersYet ==
  ASSUME ReservedInv, WorldType, NEW j \in Jobs, work[j].pc # "transfers"
  PROVE  \A d \in Dests : copier[j][d] = "none"
BY Zenon DEF ReservedInv

(* BeginCapture, Capture and CaptureFails, for a job whose run is running. *)
LEMMA CaptureKeepsInv ==
  ASSUME Inv, NEW j \in Jobs, BeginCapture(j) \/ Capture(j) \/ CaptureFails(j)
  PROVE  Inv' /\ VerifiedIsKept
<1> DEFINE r == work[j].run
<1>1. work[j].pc \in {"begin", "capture"} /\ UNCHANGED <<plan, expired, paused, snaps, copier, reserved, leases, reads>>
  BY Zenon DEF BeginCapture, Capture, CaptureFails, outside
<1>2. /\ StateType /\ WorldType /\ StateInv /\ ReservedInv /\ JobInv /\ ForgetInv /\ JobOK(j)
      /\ snaps \in SnapsType /\ snaps' \in SnapsType /\ bad \in [crashes : Nat, store : Nat] /\ work[j] \in WorkType
      /\ NoDuplicateSnapshot /\ NoDuplicateSnapshot'
  BY <1>1, Zenon DEF Inv, TypeOK, WorldType, JobInv, StateInv, NoDuplicateSnapshot
<1>3. /\ r \in Runs /\ runs[r].state = "running" /\ runs[r].capture # "succeeded" /\ work[j].pc \in Busy
      /\ \A d \in Dests : Untouched(runs[r].copies[d]) /\ copier[j][d] = "none"
      /\ \A d \in Dests : IF copyWorkPending(runs[r].copies[d]) THEN reserved[d] = {j} ELSE Quiet(runs[r].copies[d])
  BY <1>1, <1>2, NoTransfersYet, Zenon DEF JobOK, Holding, Busy
<1>4. \A d \in Dests, q \in Runs : snaps'[d][q].complete >= snaps[d][q].complete
  BY <1>1, <1>2 DEF SnapsType
<1>5. PICK c \in {"running", "succeeded", "failed"}, pc \in {"capture", "replace", "save"}, ok \in BOOLEAN :
        /\ work' = [work EXCEPT ![j] = [@ EXCEPT !.pc = pc, !.ok = ok]]
        /\ pc = "capture" => c = "running"
        /\ pc = "replace" => c = "succeeded"
        /\ pc = "save" => ~ok
        /\ staging \subseteq staging' /\ staging' \subseteq staging \cup {r}
        /\ pc = "replace" => r \in staging'
        /\ \/ \E stored \in BOOLEAN : saveRun(r, [runs[r] EXCEPT !.capture = c], stored)
           \/ runs' = [runs EXCEPT ![r].capture = c] /\ UNCHANGED <<points, saved, bad>>
  <2>1. CASE BeginCapture(j)
    BY <2>1, Zenon DEF BeginCapture
  <2>2. CASE Capture(j)
    BY <2>2, Zenon DEF Capture
  <2>3. CASE CaptureFails(j)
    BY <2>3, Zenon DEF CaptureFails
  <2> QED
    BY <2>1, <2>2, <2>3, Zenon
<1> DEFINE run == [runs[r] EXCEPT !.capture = c]
<1>6. /\ run \in RunType /\ RunOK(run) /\ run.state = "running" /\ run.capture = c /\ run.copies = runs[r].copies
      /\ \A d \in Dests : run.copies[d].ver => r <= points[d]
  BY <1>2, <1>3, CaptureSet
<1> HIDE DEF run
<1>7. /\ StateType' /\ StateInv' /\ VerifiedIsKept /\ bad' \in [crashes : Nat, store : Nat]
      /\ runs'[r] = run /\ \A q \in Runs : q # r => runs'[q] = runs[q]
      /\ saved'.runs = saved.runs \/ saved'.runs = runs'
      /\ saved'.points = saved.points \/ saved'.points = points'
      /\ \A d \in Dests : points'[d] = points[d]
  <2>1. CASE \E stored \in BOOLEAN : saveRun(r, run, stored)
    <3>1. PICK stored \in BOOLEAN : saveRun(r, run, stored)
      BY <2>1
    <3> QED
      BY <3>1, <1>2, <1>3, <1>4, <1>6, SaveRunKeeps
  <2>2. CASE runs' = [runs EXCEPT ![r].capture = c] /\ UNCHANGED <<points, saved, bad>>
    <3>1. runs' = [runs EXCEPT ![r] = run]
      BY <2>2, <1>2, <1>3, Zenon DEF run, StateType
    <3>2. StateType' /\ StateInv' /\ VerifiedIsKept
      <4>1. points' \in PointsType
        BY <2>2, <1>2, Zenon DEF StateType
      <4> QED
        BY <3>1, <4>1, <2>2, <1>2, <1>3, <1>4, <1>6, StateKept, Zenon
    <3>3. runs'[r] = run /\ \A q \in Runs : q # r => runs'[q] = runs[q]
      BY <3>1, <1>2, <1>3, Zenon DEF StateType
    <3> QED
      BY <3>2, <3>3, <2>2, <1>2, Zenon
  <2> QED
    BY <1>5, <2>1, <2>2, Zenon DEF run
<1> DEFINE w == [work[j] EXCEPT !.pc = pc, !.ok = ok]
<1>8. w \in WorkType /\ w.pc = pc /\ w.ok = ok /\ w.run = r /\ work' = [work EXCEPT ![j] = w]
  BY <1>2, <1>5, Zenon DEF WorkType, Holding, Busy, WorldType
<1> HIDE DEF w
<1>9. \A q \in Runs : Running(q)' => Running(q)
  BY <1>3, <1>6, <1>7, Zenon DEF Running
<1>10. /\ ReservedInv' /\ OneJobPerRun' /\ RunHasJob' /\ work' \in [Jobs -> WorkType] /\ work'[j] = w
       /\ \A i \in Jobs : i # j => work'[i] = work[i]
  <2>1. work[j].pc \in Holding /\ w.pc \in Holding /\ w.pc \in Busy
    BY <1>1, <1>8 DEF Holding, Busy
  <2> QED
    BY <2>1, <1>1, <1>2, <1>3, <1>8, <1>9, WorkKept, Zenon
<1>11. \A i \in Jobs : i # j => JobOK(i)'
  <2>1. /\ runs'[r].state # "none" /\ (runs[r].capture = "succeeded" => runs'[r].capture = "succeeded")
        /\ \A d \in Dests : runs[r].copies[d].st \in {"none", "succeeded"} => runs'[r].copies[d].st \in {"none", "succeeded"}
    BY <1>3, <1>6, <1>7, Zenon
  <2>2. /\ \A i \in Jobs : i # j => work'[i] = work[i] /\ copier'[i] = copier[i]
        /\ \A i \in Jobs, d \in Dests : i # j /\ reserved[d] = {i} => reserved'[d] = {i}
    BY <1>1, <1>10
  <2> QED
    BY <2>1, <2>2, <1>2, <1>3, <1>5, <1>7, OthersKept, Zenon
<1>12. JobOK(j)'
  <2>1. work'[j].pc = pc /\ work'[j].run = r /\ work'[j].ok = ok /\ runs'[work'[j].run] = run
    BY <1>7, <1>8, <1>10, Zenon
  <2> QED
    <3> DEFINE copies == runs[r].copies
    <3>1. run.copies = copies /\ run.state = "running" /\ run.capture = c
      BY <1>6, Zenon
    <3>2. \A d \in Dests : Untouched(copies[d])
      BY <1>3, Zenon
    <3>3. \A d \in Dests : IF copyWorkPending(copies[d]) THEN reserved'[d] = {j} ELSE Quiet(copies[d])
      BY <1>1, <1>3, Zenon
    <3> HIDE DEF copies
    <3>4. RunAtRest(run)
      BY <3>1, <3>2, Zenon DEF RunAtRest
    <3>5. /\ r \in Runs /\ (pc = "capture" => c = "running") /\ (pc = "replace" => r \in staging') /\ (pc = "save" => ~ok)
          /\ pc \in {"capture", "replace", "save"}
      BY <1>3, <1>5
    <3> QED
      BY ONLY <2>1, <3>1, <3>2, <3>3, <3>4, <3>5, Zenon DEF JobOK, Holding, Busy
<1>13. ForgetInv'
  BY <1>1, <1>2, <1>7, Zenon DEF ForgetInv
<1>14. WorldType'
  BY <1>1, <1>2, <1>3, <1>5, <1>7, <1>10, Zenon DEF WorldType
<1> QED
  BY <1>7, <1>10, <1>11, <1>12, <1>13, <1>14, Zenon DEF Inv, TypeOK, JobInv

(* The transfer of j to d moves; the others stay where they are. *)
LEMMA CopierMoved ==
  ASSUME copier \in [Jobs -> [Dests -> CopierType]], NEW j \in Jobs, NEW d \in Dests, NEW pc \in CopierType,
         copier' = [copier EXCEPT ![j][d] = pc]
  PROVE  /\ copier' \in [Jobs -> [Dests -> CopierType]] /\ copier'[j][d] = pc
         /\ \A e \in Dests : e # d => copier'[j][e] = copier[j][e]
         /\ \A i \in Jobs : i # j => copier'[i] = copier[i]
BY Zenon

(* What a transfer knows of its job. *)
LEMMA TransferOf ==
  ASSUME Inv, NEW j \in Jobs, NEW d \in Dests, copier[j][d] # "none"
  PROVE  /\ work[j].pc = "transfers" /\ reserved[d] = {j} /\ work[j].run \in Runs /\ runs[work[j].run].state = "running"
         /\ runs[work[j].run] \in RunType /\ Copy(j, d) = runs[work[j].run].copies[d] /\ Copy(j, d) \in CopyType
         /\ RunOK(runs[work[j].run]) /\ CopyOK(Copy(j, d))
         /\ \A e \in Dests : CopierOK(copier[j][e], runs[work[j].run].copies[e])
         /\ CopierOK(copier[j][d], Copy(j, d))
         /\ \A e \in Dests : runs[work[j].run].copies[e].st \in {"pending", "running"} => work[j].run \in staging
<1>1. work[j].pc = "transfers" /\ reserved[d] = {j}
  BY DEF Inv, ReservedInv
<1>2. JobOK(j)
  BY Zenon DEF Inv, JobInv
<1>3. /\ work[j].run \in Runs /\ runs[work[j].run].state = "running"
      /\ \A e \in Dests : CopierOK(copier[j][e], runs[work[j].run].copies[e])
      /\ \A e \in Dests : runs[work[j].run].copies[e].st \in {"pending", "running"} => work[j].run \in staging
  BY <1>1, <1>2, Zenon DEF JobOK, Holding, Busy
<1>4. runs[work[j].run] \in RunType /\ RunOK(runs[work[j].run])
  BY <1>3 DEF Inv, TypeOK, StateType, StateInv
<1>5. Copy(j, d) = runs[work[j].run].copies[d] /\ Copy(j, d) \in CopyType
  BY <1>4, RunFields, Zenon DEF Copy
<1>6. CopyOK(Copy(j, d))
  BY <1>4, <1>5 DEF RunOK
<1> QED
  BY <1>1, <1>3, <1>4, <1>5, <1>6, Zenon

(* A job that keeps working: reservations and the jobs of the runs stay as they are. *)
LEMMA StillWorking ==
  ASSUME ReservedInv, JobInv, NEW j \in Jobs, NEW d \in Dests, copier[j][d] # "none",
         \A e \in Dests : e # d => copier'[j][e] = copier[j][e],
         \A i \in Jobs : i # j => copier'[i] = copier[i],
         UNCHANGED <<work, reserved, reads>>, \A r \in Runs : Running(r)' => Running(r)
  PROVE  ReservedInv' /\ OneJobPerRun' /\ RunHasJob'
<1>1. ReservedInv'
  <2>1. work[j].pc = "transfers" /\ reserved[d] = {j}
    BY DEF ReservedInv
  <2>2. ASSUME NEW i \in Jobs, NEW e \in Dests, copier'[i][e] # "none" PROVE work[i].pc = "transfers" /\ reserved[e] = {i}
    <3>1. CASE i = j /\ e = d
      BY <2>1, <3>1, Zenon
    <3>2. CASE ~(i = j /\ e = d)
      BY <2>2, <3>2 DEF ReservedInv
    <3> QED
      BY <3>1, <3>2, Zenon
  <2> QED
    BY <2>2, Zenon DEF ReservedInv
<1>2. OneJobPerRun' /\ RunHasJob'
  BY Zenon DEF JobInv, OneJobPerRun, RunHasJob
<1> QED
  BY <1>1, <1>2, Zenon

(* A transfer goes on at pc with the copy c, which fits where it goes: the rest of the job, the other
   jobs and the reservations stay as they are. *)
LEMMA TransferKeepsInv ==
  ASSUME Inv, NEW j \in Jobs, NEW d \in Dests, copier[j][d] # "none",
         NEW c \in CopyType, NEW pc \in CopierType, pc # "none", CopierOK(pc, c),
         copier' = [copier EXCEPT ![j][d] = pc], UNCHANGED <<plan, expired, paused, staging, work, reserved, leases, reads>>,
         StateType', StateInv', snaps' \in SnapsType, bad' \in [crashes : Nat, store : Nat],
         runs'[work[j].run].state = "running", runs'[work[j].run].capture = runs[work[j].run].capture,
         runs'[work[j].run].copies[d] = c,
         \A e \in Dests : e # d => runs'[work[j].run].copies[e] = runs[work[j].run].copies[e],
         \A q \in Runs : q # work[j].run => runs'[q] = runs[q],
         saved'.runs = saved.runs \/ saved'.runs = runs',
         c.st \in {"pending", "running"} => Copy(j, d).st \in {"pending", "running"},
         Copy(j, d).st \in {"none", "succeeded"} => c.st \in {"none", "succeeded"},
         ForgetInv'
  PROVE  Inv'
<1> DEFINE r == work[j].run
           run == runs'[r]
<1>1. /\ work[j].pc = "transfers" /\ reserved[d] = {j} /\ r \in Runs /\ runs[r].state = "running"
      /\ Copy(j, d) = runs[r].copies[d]
      /\ \A e \in Dests : CopierOK(copier[j][e], runs[r].copies[e])
      /\ \A e \in Dests : runs[r].copies[e].st \in {"pending", "running"} => r \in staging
  BY TransferOf, Zenon
<1>2. StateType /\ WorldType /\ ReservedInv /\ JobInv
  BY Zenon DEF Inv, TypeOK
<1>3. /\ copier' \in [Jobs -> [Dests -> CopierType]] /\ copier'[j][d] = pc
      /\ \A e \in Dests : e # d => copier'[j][e] = copier[j][e]
      /\ \A i \in Jobs : i # j => copier'[i] = copier[i]
  BY <1>2, CopierMoved, Zenon DEF WorldType
<1>4. WorldType'
  BY <1>2, <1>3, Zenon DEF WorldType
<1>5. ReservedInv' /\ OneJobPerRun' /\ RunHasJob'
  <2>1. \A q \in Runs : Running(q)' => Running(q)
    BY <1>1, Zenon DEF Running
  <2> QED
    BY <2>1, <1>2, <1>3, StillWorking
<1>6. \A i \in Jobs : i # j => JobOK(i)'
  <2>1. /\ runs'[r].state # "none" /\ (runs[r].capture = "succeeded" => runs'[r].capture = "succeeded")
        /\ \A e \in Dests : runs[r].copies[e].st \in {"none", "succeeded"} => runs'[r].copies[e].st \in {"none", "succeeded"}
    BY <1>1, Zenon
  <2>2. /\ \A i \in Jobs : i # j => work'[i] = work[i] /\ copier'[i] = copier[i]
        /\ \A i \in Jobs, e \in Dests : i # j /\ reserved[e] = {i} => reserved'[e] = {i}
        /\ staging \subseteq staging' /\ work[j].pc \in Busy
    BY <1>1, <1>3, Zenon DEF Busy
  <2> QED
    BY <2>1, <2>2, <1>1, <1>2, OthersKept, Zenon
<1>7. JobOK(j)'
  <2>1. work'[j].pc = "transfers" /\ work'[j].run = r /\ runs'[work'[j].run] = run /\ run.state = "running"
    BY <1>1, Zenon
  <2>2. \A e \in Dests : CopierOK(copier'[j][e], run.copies[e])
    BY <1>1, <1>3, Zenon
  <2>3. \A e \in Dests : run.copies[e].st \in {"pending", "running"} => r \in staging'
    BY <1>1, Zenon
  <2> HIDE DEF run
  <2> QED
    BY ONLY <2>1, <2>2, <2>3, <1>1, Zenon DEF JobOK, Holding, Busy, CopierOK, Quiet, copyWorkPending, verifiedCopy
<1> QED
  BY <1>4, <1>5, <1>6, <1>7, Zenon DEF Inv, TypeOK, JobInv

(* The update callback keeps the invariant when the copy fits where the transfer goes. *)
LEMMA UpdateKeepsInv ==
  ASSUME Inv, NEW j \in Jobs, NEW d \in Dests, copier[j][d] # "none",
         NEW c \in CopyType, NEW ok \in BOOLEAN, NEW pc \in CopierType, pc # "none", update(j, d, c, ok, pc),
         CopyOK(c), CopierOK(pc, c),
         verifiedCopy(Copy(j, d)) => verifiedCopy(c),
         c.st \in {"pending", "running"} => Copy(j, d).st \in {"pending", "running"},
         Copy(j, d).st \in {"none", "succeeded"} => c.st \in {"none", "succeeded"},
         c.ver => work[j].run <= points[d] \/ snaps'[d][work[j].run].complete > 0,
         pc = "forget" => ok,
         snaps' \in SnapsType, NoDuplicateSnapshot',
         \A e \in Dests, q \in Runs : snaps'[e][q].complete >= snaps[e][q].complete
  PROVE  Inv' /\ VerifiedIsKept
<1> DEFINE r == work[j].run
           run == [runs[r] EXCEPT !.copies[d] = c]
<1>1. /\ saveRun(r, run, ok) /\ copier' = [copier EXCEPT ![j][d] = pc]
      /\ UNCHANGED <<plan, expired, paused, staging, work, reserved, leases, reads>>
  BY Zenon DEF update, outside
<1>2. /\ work[j].pc = "transfers" /\ reserved[d] = {j} /\ r \in Runs /\ runs[r].state = "running" /\ runs[r] \in RunType
      /\ Copy(j, d) = runs[r].copies[d] /\ RunOK(runs[r])
      /\ \A e \in Dests : CopierOK(copier[j][e], runs[r].copies[e])
      /\ \A e \in Dests : runs[r].copies[e].st \in {"pending", "running"} => r \in staging
  BY TransferOf, Zenon
<1>3. /\ run \in RunType /\ run.state = "running" /\ run.capture = runs[r].capture /\ run.copies[d] = c
      /\ \A e \in Dests : e # d => run.copies[e] = runs[r].copies[e]
  <2>1. runs[r] \in RunType /\ runs[r].state = "running"
    BY <1>2, Zenon
  <2> QED
    BY <2>1, CopyReplaced, SMTT(20)
<1> HIDE DEF run
<1>4. RunOK(run)
  BY <1>2, <1>3, Zenon DEF RunOK
<1>5. /\ StateType /\ WorldType /\ StateInv /\ ReservedInv /\ JobInv /\ ForgetInv
      /\ snaps \in SnapsType /\ bad \in [crashes : Nat, store : Nat]
      /\ \A e \in Dests : runs[r].copies[e].ver => r <= points[e]
  BY <1>2, Zenon DEF Inv, TypeOK, WorldType, StateInv, EvidenceOK
<1>6. /\ \A e \in Dests : run.copies[e].ver => r <= points[e] \/ snaps'[e][r].complete > 0
      /\ \A e \in Dests : verifiedCopy(runs[r].copies[e]) => verifiedCopy(run.copies[e])
  BY <1>2, <1>3, <1>5, ZenonT(30)
<1>7. /\ StateType' /\ StateInv' /\ VerifiedIsKept /\ bad' \in [crashes : Nat, store : Nat]
      /\ runs'[r] = run /\ \A q \in Runs : q # r => runs'[q] = runs[q]
      /\ saved'.runs = saved.runs \/ saved'.runs = runs'
      /\ saved'.points = saved.points \/ saved'.points = points'
      /\ ok => saved'.points = points'
      /\ \A e \in Dests : (run.copies[e].ver => r <= points[e]) => points'[e] = points[e]
  BY <1>1, <1>2, <1>3, <1>4, <1>5, <1>6, SaveRunKeeps
<1>8. /\ copier' \in [Jobs -> [Dests -> CopierType]] /\ copier'[j][d] = pc
      /\ \A e \in Dests : e # d => copier'[j][e] = copier[j][e]
      /\ \A i \in Jobs : i # j => copier'[i] = copier[i]
  BY <1>1, <1>5, CopierMoved, Zenon DEF WorldType
<1>9. ForgetInv'
  <2> SUFFICES ASSUME NEW i \in Jobs, NEW e \in Dests, copier'[i][e] = "forget" PROVE saved'.points[e] = points'[e]
    BY Zenon DEF ForgetInv
  <2>1. CASE i = j /\ e = d
    BY <2>1, <1>7, <1>8, Zenon
  <2>2. CASE ~(i = j /\ e = d)
    <3>1. copier[i][e] = "forget"
      BY <2>2, <1>8, Zenon
    <3>2. e # d
      <4>1. reserved[e] = {i} /\ reserved[d] = {j}
        BY <3>1, <1>2, <1>5, Zenon DEF ReservedInv
      <4> QED
        BY ONLY <4>1, <2>2, Zenon
    <3>3. points'[e] = points[e] /\ saved.points[e] = points[e]
      BY <3>1, <3>2, <1>3, <1>5, <1>7, Zenon DEF ForgetInv
    <3> QED
      BY <3>3, <1>7, Zenon
  <2> QED
    BY <2>1, <2>2, Zenon
<1> QED
  <2>1. /\ runs'[r].state = "running" /\ runs'[r].capture = runs[r].capture /\ runs'[r].copies[d] = c
        /\ \A e \in Dests : e # d => runs'[r].copies[e] = runs[r].copies[e]
    BY <1>3, <1>7, Zenon
  <2> QED
    BY <2>1, <1>1, <1>7, <1>9, TransferKeepsInv, Zenon

(* A repository changes beside the state: the checkpoints keep their snapshots. *)
LEMMA RepositoryChanged ==
  ASSUME StateType, StateInv, UNCHANGED <<runs, points, saved>>, PointOK(points)', PointOK(saved.points)', NoDuplicateSnapshot'
  PROVE  StateType' /\ StateInv' /\ VerifiedIsKept
<1>1. runs' = runs /\ points' = points /\ saved' = saved
  OBVIOUS
<1>2. StateType'
  BY <1>1, Zenon DEF StateType
<1>3. KeptOK' /\ VerifiedIsKept
  BY <1>1, Zenon DEF StateInv, KeptOK, VerifiedIsKept
<1>4. \A r \in Runs : RunOK(runs[r])' /\ RunOK(saved.runs[r])'
  BY <1>1 DEF StateInv
<1>5. EvidenceOK(runs, points)' /\ EvidenceOK(saved.runs, saved.points)'
  BY <1>1, Zenon DEF StateInv, EvidenceOK
<1> QED
  BY <1>2, <1>3, <1>4, <1>5, Zenon DEF StateInv

(* Snapshots are added. *)
LEMMA SnapshotAdded ==
  ASSUME StateType, StateInv, UNCHANGED <<runs, points, saved>>, snaps \in SnapsType, snaps' \in SnapsType, NoDuplicateSnapshot',
         \A e \in Dests, q \in Runs : snaps'[e][q].complete >= snaps[e][q].complete
  PROVE  StateType' /\ StateInv' /\ VerifiedIsKept
<1>1. \A e \in Dests, q \in Runs : snaps[e][q].complete \in Nat /\ snaps'[e][q].complete \in Nat
  BY DEF SnapsType
<1>2. \A e \in Dests : points[e] \in Runs \cup {0} /\ saved.points[e] \in Runs \cup {0}
  BY Zenon DEF StateType, PointsType
<1>3. PointOK(points)' /\ PointOK(saved.points)'
  BY <1>1, <1>2 DEF StateInv, PointOK
<1> QED
  BY <1>3, RepositoryChanged, Zenon

(* A transfer goes on without telling its run. *)
LEMMA TransferMoves ==
  ASSUME Inv, NEW j \in Jobs, NEW d \in Dests, copier[j][d] # "none", NEW pc \in CopierType, pc \notin {"none", "forget"},
         copier' = [copier EXCEPT ![j][d] = pc], CopierOK(pc, Copy(j, d)), snaps' \in SnapsType, StateInv', VerifiedIsKept,
         UNCHANGED <<runs, points, saved, plan, expired, paused, staging, work, reserved, leases, reads, bad>>
  PROVE  Inv'
<1>1. /\ work[j].run \in Runs /\ runs[work[j].run].state = "running"
      /\ Copy(j, d) = runs[work[j].run].copies[d] /\ Copy(j, d) \in CopyType
  BY TransferOf, Zenon
<1>2. StateType' /\ bad' \in [crashes : Nat, store : Nat]
  BY DEF Inv, TypeOK, StateType, WorldType
<1>3. ForgetInv'
  <2>1. \A i \in Jobs, e \in Dests : copier'[i][e] = "forget" => copier[i][e] = "forget"
    BY CopierMoved DEF Inv, TypeOK, WorldType
  <2> QED
    BY <2>1, Zenon DEF Inv, ForgetInv
<1> QED
  BY <1>1, <1>2, <1>3, TransferKeepsInv, Zenon

(* BeginCopy: the slot, then the transfer, the verification or the retention alone. *)
LEMMA BeginCopyKeepsInv ==
  ASSUME Inv, NEW j \in Jobs, NEW d \in Dests, BeginCopy(j, d)
  PROVE  Inv' /\ VerifiedIsKept
<1> DEFINE old == Copy(j, d)
<1>1. copier[j][d] = "queued" /\ snaps' = snaps
  BY Zenon DEF BeginCopy
<1>2. /\ old \in CopyType /\ CopyOK(old) /\ copyWorkPending(old) /\ old = runs[work[j].run].copies[d] /\ work[j].run \in Runs
  BY <1>1, TransferOf, Zenon DEF CopierOK
<1>3. /\ StateType /\ StateInv /\ snaps' \in SnapsType /\ NoDuplicateSnapshot'
      /\ \A e \in Dests, q \in Runs : snaps'[e][q].complete >= snaps[e][q].complete
      /\ old.ver => work[j].run <= points[d]
  BY <1>1, <1>2 DEF Inv, TypeOK, WorldType, StateInv, NoDuplicateSnapshot, EvidenceOK, SnapsType
<1>4. CASE verifiedCopy(old)
  <2>1. copier' = [copier EXCEPT ![j][d] = "retention"] /\ UNCHANGED <<runs, points, saved, plan, expired, paused, staging, work, reserved, leases, reads, bad>>
    BY <1>4, Zenon DEF BeginCopy, state, outside
  <2>2. StateInv' /\ VerifiedIsKept
    BY <1>1, <1>3, <2>1, StateUntouched, Zenon
  <2>3. "retention" \in CopierType /\ CopierOK("retention", old)
    BY <1>4 DEF CopierType, Active, CopierOK
  <2> QED
    BY <1>1, <1>3, <2>1, <2>2, <2>3, TransferMoves, Zenon
<1>5. CASE ~verifiedCopy(old)
  <2> DEFINE c == [old EXCEPT !.st = "running"]
  <2>1. PICK ok \in BOOLEAN : update(j, d, c, ok, IF ~ok THEN "fail" ELSE IF old.snap THEN "verify" ELSE "upload")
    BY <1>5, Zenon DEF BeginCopy
  <2> DEFINE pc == IF ~ok THEN "fail" ELSE IF old.snap THEN "verify" ELSE "upload"
  <2>2. c \in CopyType /\ c.st = "running" /\ c.snap = old.snap /\ c.ver = old.ver /\ c.ret = old.ret
    BY <1>2, Zenon DEF CopyType, CopyStates
  <2>3. old.st = "pending"
    BY <1>2, <1>5, Zenon DEF copyWorkPending
  <2> HIDE DEF c
  <2>4. CopyOK(c) /\ CopierOK(pc, c)
    BY <1>2, <1>5, <2>2, Zenon DEF CopyOK, CopierOK, verifiedCopy
  <2>5. pc \in CopierType /\ pc \notin {"none", "forget"}
    BY Zenon DEF CopierType, Active
  <2>6. c.ver => work[j].run <= points[d]
    BY <2>2, <1>3
  <2> HIDE DEF pc
  <2>7. update(j, d, c, ok, pc)
    BY <2>1 DEF c, pc
  <2>8. copier[j][d] # "none"
    BY <1>1, Zenon
  <2> QED
    BY <1>3, <1>5, <2>2, <2>3, <2>4, <2>5, <2>6, <2>7, <2>8, UpdateKeepsInv, Zenon
<1> QED
  BY <1>4, <1>5

(* A step that leaves the repositories alone keeps what they hold. *)
LEMMA RepositoriesKept ==
  ASSUME Inv, snaps' = snaps
  PROVE  /\ snaps' \in SnapsType /\ NoDuplicateSnapshot'
         /\ \A e \in Dests, q \in Runs : snaps'[e][q].complete >= snaps[e][q].complete
BY DEF Inv, TypeOK, WorldType, StateInv, NoDuplicateSnapshot, SnapsType

(* restic makes a snapshot of a run, complete or partial, or none. *)
LEMMA SnapshotMade ==
  ASSUME snaps \in SnapsType, NoDuplicateSnapshot, NEW d \in Dests, NEW r \in Runs,
         NEW made \in {"complete", "partial", "nothing"},
         snaps' = IF made = "nothing" THEN snaps ELSE [snaps EXCEPT ![d][r][made] = @ + 1],
         PriorSnapshot(d, r) => made = "nothing"
  PROVE  /\ snaps' \in SnapsType /\ NoDuplicateSnapshot'
         /\ \A e \in Dests, q \in Runs : snaps'[e][q].complete >= snaps[e][q].complete
         /\ made = "complete" \/ PriorSnapshot(d, r) => snaps'[d][r].complete > 0
<1>1. \A e \in Dests, q \in Runs : snaps[e][q] \in [partial : Nat, complete : Nat]
                                   /\ snaps[e][q].complete \in Nat /\ snaps[e][q].complete <= 1
  BY Zenon DEF SnapsType, NoDuplicateSnapshot
<1>2. CASE made = "nothing"
  BY <1>1, <1>2 DEF NoDuplicateSnapshot, PriorSnapshot
<1>3. CASE made = "partial"
  <2>1. snaps' = [snaps EXCEPT ![d][r].partial = @ + 1]
    BY <1>3, Zenon
  <2>2. snaps' \in SnapsType
    BY <2>1, <1>1 DEF SnapsType
  <2>3. \A e \in Dests, q \in Runs : snaps'[e][q].complete = snaps[e][q].complete
    BY <2>1, <1>1 DEF SnapsType
  <2> QED
    BY <1>1, <1>3, <2>2, <2>3 DEF NoDuplicateSnapshot, PriorSnapshot
<1>4. CASE made = "complete"
  <2>1. snaps' = [snaps EXCEPT ![d][r].complete = @ + 1]
    BY <1>4, Zenon
  <2>2. snaps' \in SnapsType
    BY <2>1, <1>1 DEF SnapsType
  <2>3. /\ snaps'[d][r].complete = snaps[d][r].complete + 1
        /\ \A e \in Dests, q \in Runs : ~(e = d /\ q = r) => snaps'[e][q].complete = snaps[e][q].complete
    BY <2>1, <1>1 DEF SnapsType
  <2>4. snaps[d][r].complete = 0
    BY <1>1, <1>4 DEF PriorSnapshot
  <2> QED
    BY <1>1, <2>2, <2>3, <2>4 DEF NoDuplicateSnapshot
<1> QED
  BY <1>2, <1>3, <1>4, Zenon

(* upload takes over a complete snapshot or makes one. *)
LEMMA UploadKeepsInv ==
  ASSUME Inv, NEW j \in Jobs, NEW d \in Dests, upload(j, d)
  PROVE  Inv' /\ VerifiedIsKept
<1> DEFINE old == Copy(j, d)
           r == work[j].run
           c == [old EXCEPT !.snap = TRUE]
<1>1. copier[j][d] = "upload" /\ copier[j][d] # "none"
  BY DEF upload
<1>2. /\ old \in CopyType /\ CopyOK(old) /\ old.st = "running" /\ old = runs[r].copies[d] /\ r \in Runs
  BY <1>1, TransferOf, Zenon DEF CopierOK
<1>3. /\ StateType /\ StateInv /\ snaps \in SnapsType /\ NoDuplicateSnapshot
      /\ old.ver => r <= points[d]
  BY <1>1, <1>2, Zenon DEF Inv, TypeOK, WorldType, StateInv, EvidenceOK
<1>4. PICK made \in {"complete", "partial", "nothing"}, reported \in BOOLEAN, ok \in BOOLEAN :
        /\ snaps' = IF made = "nothing" THEN snaps ELSE [snaps EXCEPT ![d][r][made] = @ + 1]
        /\ PriorSnapshot(d, r) => made = "nothing"
        /\ reported => (made = "complete" \/ PriorSnapshot(d, r))
        /\ IF reported THEN update(j, d, c, ok, IF ok THEN "verify" ELSE "fail")
           ELSE /\ ok /\ copier' = [copier EXCEPT ![j][d] = "fail"]
                /\ UNCHANGED <<state, staging, outside, work, reserved, leases, reads, bad>>
  BY Zenon DEF upload
<1>5. /\ snaps' \in SnapsType /\ NoDuplicateSnapshot'
      /\ \A e \in Dests, q \in Runs : snaps'[e][q].complete >= snaps[e][q].complete
      /\ reported => snaps'[d][r].complete > 0
  BY <1>2, <1>3, <1>4, SnapshotMade, Zenon
<1>6. CASE reported
  <2>1. c \in CopyType /\ c.st = "running" /\ c.snap /\ c.ver = old.ver /\ c.ret = old.ret
    BY <1>2, Zenon DEF CopyType
  <2> DEFINE pc == IF ok THEN "verify" ELSE "fail"
  <2>2. update(j, d, c, ok, pc)
    BY <1>4, <1>6, Zenon
  <2>3. pc \in CopierType /\ pc \in {"verify", "fail"}
    BY Zenon DEF CopierType, Active
  <2> HIDE DEF c, pc
  <2>4. CopyOK(c) /\ CopierOK(pc, c)
    BY <1>2, <2>1, <2>3, Zenon DEF CopyOK, CopierOK, verifiedCopy
  <2>5. ~verifiedCopy(old) /\ old.st \notin {"none", "succeeded"}
    BY <1>2, Zenon DEF verifiedCopy
  <2> QED
    BY <1>1, <1>2, <1>3, <1>5, <1>6, <2>1, <2>2, <2>3, <2>4, <2>5, UpdateKeepsInv, Zenon
<1>7. CASE ~reported
  <2>1. copier' = [copier EXCEPT ![j][d] = "fail"] /\ UNCHANGED <<runs, points, saved, plan, expired, paused, staging, work, reserved, leases, reads, bad>>
    BY <1>4, <1>7, Zenon DEF state, outside
  <2>2. StateInv' /\ VerifiedIsKept
    BY <1>3, <1>5, <2>1, SnapshotAdded, Zenon
  <2>3. "fail" \in CopierType /\ CopierOK("fail", old)
    BY <1>2 DEF CopierType, Active, CopierOK
  <2> QED
    BY <1>1, <1>5, <2>1, <2>2, <2>3, TransferMoves, Zenon
<1> QED
  BY <1>6, <1>7, Zenon

(* verifyRecoveryObjects saves the evidence; when that fails the copy is failed in memory. *)
LEMMA VerifyKeepsInv ==
  ASSUME Inv, NEW j \in Jobs, NEW d \in Dests, verifyRecoveryObjects(j, d)
  PROVE  Inv' /\ VerifiedIsKept
<1> DEFINE old == Copy(j, d)
           r == work[j].run
           good == [old EXCEPT !.st = "succeeded", !.ver = TRUE]
           lost == [good EXCEPT !.st = "failed"]
<1>1. copier[j][d] = "verify" /\ copier[j][d] # "none" /\ snaps' = snaps /\ snaps[d][r].complete > 0
  BY Zenon DEF verifyRecoveryObjects
<1>2. /\ old \in CopyType /\ CopyOK(old) /\ old.st = "running" /\ old.snap /\ r \in Runs
  BY <1>1, TransferOf, Zenon DEF CopierOK
<1>3. /\ snaps' \in SnapsType /\ NoDuplicateSnapshot'
      /\ \A e \in Dests, q \in Runs : snaps'[e][q].complete >= snaps[e][q].complete
  BY <1>1, RepositoriesKept
<1>4. update(j, d, good, TRUE, "retention") \/ update(j, d, lost, FALSE, "done")
  BY Zenon DEF verifyRecoveryObjects, update
<1>5. /\ good \in CopyType /\ good.st = "succeeded" /\ good.snap /\ good.ver /\ good.ret = old.ret
      /\ lost \in CopyType /\ lost.st = "failed" /\ lost.snap /\ lost.ver /\ lost.ret = old.ret
  BY <1>2, Zenon DEF CopyType, CopyStates
<1> HIDE DEF good, lost
<1>6. ~verifiedCopy(old) /\ old.st \notin {"none", "succeeded"} /\ old.ret = "pending"
  BY <1>2 DEF verifiedCopy, CopyOK
<1>7. /\ CopyOK(good) /\ CopierOK("retention", good) /\ CopyOK(lost) /\ CopierOK("done", lost)
      /\ "retention" \in CopierType /\ "done" \in CopierType
  BY <1>5, <1>6, Zenon DEF CopyOK, CopierOK, verifiedCopy, Quiet, CopierType, Active
<1>8. CASE update(j, d, good, TRUE, "retention")
  BY <1>1, <1>3, <1>5, <1>6, <1>7, <1>8, UpdateKeepsInv, Zenon
<1>9. CASE update(j, d, lost, FALSE, "done")
  BY <1>1, <1>3, <1>5, <1>6, <1>7, <1>9, UpdateKeepsInv, Zenon
<1> QED
  BY <1>4, <1>8, <1>9, Zenon

(* A copy that has not succeeded fails, and what it had is kept for the next attempt. *)
LEMMA FailCopyKeepsInv ==
  ASSUME Inv, NEW j \in Jobs, NEW d \in Dests, FailCopy(j, d)
  PROVE  Inv' /\ VerifiedIsKept
<1> DEFINE old == Copy(j, d)
           c == [old EXCEPT !.st = "failed"]
<1>1. copier[j][d] = "fail" /\ copier[j][d] # "none" /\ snaps' = snaps
  BY Zenon DEF FailCopy
<1>2. /\ old \in CopyType /\ CopyOK(old) /\ old.st = "running" /\ work[j].run \in Runs /\ old = runs[work[j].run].copies[d]
  BY <1>1, TransferOf, Zenon DEF CopierOK
<1>3. old.ver => work[j].run <= points[d]
  BY <1>2, Zenon DEF Inv, StateInv, EvidenceOK
<1>4. /\ snaps' \in SnapsType /\ NoDuplicateSnapshot'
      /\ \A e \in Dests, q \in Runs : snaps'[e][q].complete >= snaps[e][q].complete
  BY <1>1, RepositoriesKept, Zenon
<1>5. PICK ok \in BOOLEAN : update(j, d, c, ok, "done")
  BY Zenon DEF FailCopy
<1>6. c \in CopyType /\ c.st = "failed" /\ c.snap = old.snap /\ c.ver = old.ver /\ c.ret = old.ret
  BY <1>2, Zenon DEF CopyType, CopyStates
<1> HIDE DEF c
<1>7. ~verifiedCopy(old) /\ old.st \notin {"none", "succeeded"}
  BY <1>2, Zenon DEF verifiedCopy
<1>8. CopyOK(c) /\ CopierOK("done", c) /\ "done" \in CopierType
  BY <1>2, <1>6, <1>7, Zenon DEF CopyOK, CopierOK, verifiedCopy, Quiet, CopierType
<1> QED
  BY <1>1, <1>3, <1>4, <1>5, <1>6, <1>7, <1>8, UpdateKeepsInv, Zenon

(* The check of a snapshot is unavailable: nothing is saved. *)
LEMMA VerifyFailsKeepsInv ==
  ASSUME Inv, NEW j \in Jobs, NEW d \in Dests, VerifyFails(j, d)
  PROVE  Inv' /\ VerifiedIsKept
<1> DEFINE old == Copy(j, d)
           r == work[j].run
           c == [old EXCEPT !.ver = FALSE]
           run == [runs[r] EXCEPT !.copies[d] = c]
<1>1. /\ copier[j][d] = "verify" /\ copier[j][d] # "none" /\ snaps' = snaps
      /\ copier' = [copier EXCEPT ![j][d] = "fail"]
      /\ UNCHANGED <<points, saved, plan, expired, paused, staging, work, reserved, leases, reads, bad>>
  BY Zenon DEF VerifyFails, outside
<1>2. /\ old \in CopyType /\ CopyOK(old) /\ old.st = "running" /\ r \in Runs /\ old = runs[r].copies[d]
      /\ runs[r] \in RunType /\ RunOK(runs[r]) /\ runs[r].state = "running"
  BY <1>1, TransferOf, Zenon DEF CopierOK
<1>3. /\ StateType /\ StateInv /\ snaps \in SnapsType /\ bad' \in [crashes : Nat, store : Nat] /\ points' \in PointsType /\ ForgetInv
      /\ \A e \in Dests : runs[r].copies[e].ver => r <= points[e]
  BY <1>1, <1>2, Zenon DEF Inv, TypeOK, WorldType, StateType, StateInv, EvidenceOK
<1>4. /\ snaps' \in SnapsType /\ NoDuplicateSnapshot'
      /\ \A e \in Dests, q \in Runs : snaps'[e][q].complete >= snaps[e][q].complete
  BY <1>1, RepositoriesKept, Zenon
<1>5. c \in CopyType /\ c.st = "running" /\ ~c.ver /\ c.ret = old.ret
  BY <1>2, Zenon DEF CopyType
<1>6. runs' = [runs EXCEPT ![r] = run]
  BY <1>2, <1>3, Zenon DEF VerifyFails, Copy, StateType, RunType
<1> HIDE DEF c
<1>7. /\ run \in RunType /\ run.state = "running" /\ run.capture = runs[r].capture /\ run.copies[d] = c
      /\ \A e \in Dests : e # d => run.copies[e] = runs[r].copies[e]
  <2>1. runs[r] \in RunType /\ runs[r].state = "running" /\ c \in CopyType
    BY <1>2, <1>5
  <2> QED
    BY <2>1, CopyReplaced, SMTT(20)
<1> HIDE DEF run
<1>8. ~verifiedCopy(old) /\ ~verifiedCopy(c) /\ CopyOK(c) /\ CopierOK("fail", c) /\ "fail" \in CopierType
  BY <1>2, <1>5, Zenon DEF verifiedCopy, CopyOK, CopierOK, CopierType, Active
<1>9. RunOK(run)
  BY <1>2, <1>7, <1>8, Zenon DEF RunOK
<1>10. /\ \A e \in Dests : run.copies[e].ver => r <= points'[e]
       /\ \A e \in Dests : verifiedCopy(runs[r].copies[e]) => verifiedCopy(run.copies[e])
  BY <1>1, <1>2, <1>3, <1>5, <1>7, <1>8, Zenon
<1>11. StateType' /\ StateInv' /\ VerifiedIsKept
  BY <1>1, <1>2, <1>3, <1>4, <1>6, <1>7, <1>9, <1>10, StateKept, Zenon
<1>12. runs'[r] = run /\ \A q \in Runs : q # r => runs'[q] = runs[q]
  BY <1>2, <1>3, <1>6, Zenon DEF StateType
<1>13. ForgetInv'
  <2>1. \A i \in Jobs, e \in Dests : copier'[i][e] = "forget" => copier[i][e] = "forget"
    BY <1>1, <1>8, CopierMoved DEF Inv, TypeOK, WorldType
  <2> QED
    BY <2>1, <1>1, <1>3, Zenon DEF ForgetInv
<1> QED
  BY <1>1, <1>2, <1>3, <1>4, <1>5, <1>7, <1>8, <1>11, <1>12, <1>13, TransferKeepsInv, Zenon

(* A verified copy records how its retention goes. *)
LEMMA RetentionKeepsInv ==
  ASSUME Inv, NEW j \in Jobs, NEW d \in Dests, copier[j][d] \in {"retention", "retained", "unretained"}, snaps' = snaps,
         NEW ret \in RetentionStates, NEW err \in BOOLEAN, NEW ok \in BOOLEAN, NEW pc \in {"done", "forget", "unretained"},
         update(j, d, [Copy(j, d) EXCEPT !.ret = ret, !.err = err], ok, pc),
         pc = "done" => ret \notin {"pending", "running"}, pc = "forget" => ok
  PROVE  Inv' /\ VerifiedIsKept
<1> DEFINE old == Copy(j, d)
           c == [old EXCEPT !.ret = ret, !.err = err]
<1>1. copier[j][d] # "none"
  BY Zenon
<1>2. /\ old \in CopyType /\ CopyOK(old) /\ verifiedCopy(old) /\ work[j].run \in Runs /\ old = runs[work[j].run].copies[d]
  BY <1>1, TransferOf, Zenon DEF CopierOK
<1>3. old.ver => work[j].run <= points[d]
  BY <1>2 DEF Inv, StateInv, EvidenceOK
<1>4. /\ snaps' \in SnapsType /\ NoDuplicateSnapshot'
      /\ \A e \in Dests, q \in Runs : snaps'[e][q].complete >= snaps[e][q].complete
  BY RepositoriesKept
<1>5. update(j, d, c, ok, pc)
  BY Zenon
<1>6. c \in CopyType /\ c.st = old.st /\ c.snap = old.snap /\ c.ver = old.ver /\ c.ret = ret
  BY <1>2, Zenon DEF CopyType
<1> HIDE DEF c
<1>7. verifiedCopy(c) /\ c.st = "succeeded"
  BY <1>2, <1>6, Zenon DEF verifiedCopy
<1>8. CopyOK(c) /\ CopierOK(pc, c) /\ pc \in CopierType /\ pc # "none"
  BY <1>2, <1>6, <1>7, Zenon DEF CopyOK, CopierOK, verifiedCopy, Quiet, CopierType, Active
<1> QED
  BY <1>1, <1>3, <1>4, <1>5, <1>6, <1>7, <1>8, UpdateKeepsInv, Zenon

(* executeRetention and the record of its result. *)
LEMMA ExecuteRetentionKeepsInv ==
  ASSUME Inv, NEW j \in Jobs, NEW d \in Dests, executeRetention(j, d) \/ RecordRetention(j, d)
  PROVE  Inv' /\ VerifiedIsKept
<1> DEFINE old == Copy(j, d)
<1>1. copier[j][d] \in {"retention", "retained", "unretained"} /\ snaps' = snaps
  BY Zenon DEF executeRetention, RecordRetention
<1>2. old \in CopyType /\ old.err \in BOOLEAN
  BY <1>1, TransferOf, CopyFields, Zenon
<1>3. \E ret \in RetentionStates, err \in BOOLEAN, ok \in BOOLEAN, pc \in {"done", "forget", "unretained"} :
        /\ update(j, d, [old EXCEPT !.ret = ret, !.err = err], ok, pc)
        /\ pc = "done" => ret \notin {"pending", "running"}
        /\ pc = "forget" => ok
  <2>1. CASE executeRetention(j, d) /\ paused
    <3>1. PICK ok \in BOOLEAN :
            update(j, d, [old EXCEPT !.ret = IF ~ok \/ old.err THEN "failed" ELSE "skipped", !.err = @ \/ ~ok], ok, "done")
      BY <2>1, Zenon DEF executeRetention
    <3> DEFINE ret == IF ~ok \/ old.err THEN "failed" ELSE "skipped"
               err == old.err \/ ~ok
    <3>2. ret \in RetentionStates /\ err \in BOOLEAN /\ ret \notin {"pending", "running"}
      BY DEF RetentionStates
    <3>3. update(j, d, [old EXCEPT !.ret = ret, !.err = err], ok, "done")
      BY <3>1, <1>2, Zenon
    <3> HIDE DEF ret, err
    <3> QED
      BY <3>2, <3>3, Zenon
  <2>2. CASE executeRetention(j, d) /\ ~paused
    <3>1. PICK ok \in BOOLEAN :
            update(j, d, [old EXCEPT !.ret = "running", !.err = FALSE], ok, IF ok THEN "forget" ELSE "unretained")
      BY <2>2, Zenon DEF executeRetention
    <3> DEFINE pc == IF ok THEN "forget" ELSE "unretained"
    <3>2. pc \in {"done", "forget", "unretained"} /\ pc # "done" /\ (pc = "forget" => ok) /\ "running" \in RetentionStates /\ FALSE \in BOOLEAN
      BY DEF RetentionStates
    <3>3. update(j, d, [old EXCEPT !.ret = "running", !.err = FALSE], ok, pc)
      BY <3>1, Zenon
    <3> HIDE DEF pc
    <3> QED
      BY <3>2, <3>3, Zenon
  <2>3. CASE RecordRetention(j, d)
    <3>1. PICK ok \in BOOLEAN :
            LET failed == ~ok \/ copier[j][d] = "unretained" IN
            update(j, d, [old EXCEPT !.ret = IF failed THEN "failed" ELSE "succeeded", !.err = failed], ok, "done")
      BY <2>3, Zenon DEF RecordRetention
    <3> DEFINE err == ~ok \/ copier[j][d] = "unretained"
               ret == IF err THEN "failed" ELSE "succeeded"
    <3>2. ret \in RetentionStates /\ err \in BOOLEAN /\ ret \notin {"pending", "running"}
      BY DEF RetentionStates
    <3>3. update(j, d, [old EXCEPT !.ret = ret, !.err = err], ok, "done")
      BY <3>1, Zenon
    <3> HIDE DEF ret, err
    <3> QED
      BY <3>2, <3>3, Zenon
  <2> QED
    BY <2>1, <2>2, <2>3, Zenon
<1> QED
  BY <1>1, <1>3, RetentionKeepsInv, Zenon

(* retain deletes by the policy, and never the snapshot of the checkpoint. *)
LEMMA RetainKeepsInv ==
  ASSUME Inv, NEW j \in Jobs, NEW d \in Dests, retain(j, d)
  PROVE  Inv' /\ VerifiedIsKept
<1>1. /\ copier[j][d] = "forget" /\ copier[j][d] # "none"
      /\ UNCHANGED <<runs, points, saved, plan, expired, paused, staging, work, reserved, leases, reads, bad>>
  BY DEF retain, state, outside
<1>2. PICK pc \in {"retained", "unretained"} : copier' = [copier EXCEPT ![j][d] = pc]
  BY Zenon DEF retain
<1>3. /\ StateType /\ StateInv /\ snaps \in SnapsType /\ saved.points[d] = points[d]
  BY <1>1, Zenon DEF Inv, TypeOK, WorldType, ForgetInv
<1>4. /\ snaps' \in SnapsType /\ \A e \in Dests, q \in Runs : snaps'[e][q].complete \in {0, snaps[e][q].complete}
      /\ \A e \in Dests, q \in Runs : e # d \/ q = points[d] => snaps'[e][q].complete = snaps[e][q].complete
  <2>1. \A e \in Dests, q \in Runs : snaps[e][q] \in [partial : Nat, complete : Nat]
    BY <1>3, Zenon DEF SnapsType
  <2>2. CASE snaps' = snaps
    BY <2>2, <1>3, Zenon
  <2>3. CASE snaps' # snaps
    <3>1. snaps' = [snaps EXCEPT ![d] = [q \in Runs |-> IF q \in Retained(d) THEN @[q] ELSE [@[q] EXCEPT !.complete = 0]]]
      BY <2>3 DEF retain
    <3>2. \A e \in Dests : e # d => snaps'[e] = snaps[e]
      BY <3>1, <1>3, Zenon DEF SnapsType
    <3>3. snaps'[d] = [q \in Runs |-> IF q \in Retained(d) THEN snaps[d][q] ELSE [snaps[d][q] EXCEPT !.complete = 0]]
      BY <3>1, <1>3, Zenon DEF SnapsType
    <3>4. points[d] \in Retained(d)
      BY DEF Retained
    <3> HIDE DEF Retained
    <3>5. \A q \in Runs : /\ snaps'[d][q] \in [partial : Nat, complete : Nat] /\ snaps'[d][q].complete \in {0, snaps[d][q].complete}
                          /\ q = points[d] => snaps'[d][q] = snaps[d][q]
      BY <3>3, <3>4, <2>1
    <3>6. snaps' \in SnapsType
      <4>1. snaps'[d] \in [Runs -> [partial : Nat, complete : Nat]]
        BY <3>3, <2>1
      <4> QED
        BY <3>1, <4>1, <3>3, <1>3, Zenon DEF SnapsType
    <3> QED
      BY <3>2, <3>5, <3>6, Zenon
  <2> QED
    BY <2>2, <2>3
<1>5. PointOK(points)' /\ PointOK(saved.points)' /\ NoDuplicateSnapshot'
  <2>1. \A e \in Dests : points[e] \in Runs \cup {0} /\ saved.points[e] \in Runs \cup {0}
    BY <1>3, Zenon DEF StateType, PointsType
  <2>2. \A e \in Dests, q \in Runs : snaps'[e][q].complete <= 1
    <3>1. \A e \in Dests, q \in Runs : snaps[e][q].complete <= 1
      BY <1>3, Zenon DEF StateInv, NoDuplicateSnapshot
    <3> QED
      BY <3>1, <1>4
  <2> QED
    BY <2>1, <2>2, <1>1, <1>3, <1>4 DEF StateInv, PointOK, NoDuplicateSnapshot
<1>6. StateInv' /\ VerifiedIsKept
  BY <1>1, <1>3, <1>5, RepositoryChanged, Zenon
<1>7. pc \in CopierType /\ pc \notin {"none", "forget"} /\ CopierOK(pc, Copy(j, d))
  BY <1>1, <1>2, TransferOf, Zenon DEF CopierType, Active, CopierOK
<1> QED
  BY <1>1, <1>2, <1>4, <1>6, <1>7, TransferMoves, Zenon

(* A step of a job that does not touch the state: another job does not notice it as long as its
   recovery set and its repositories stay. *)
LEMMA OthersUntouched ==
  ASSUME JobInv, UNCHANGED <<runs, saved>>, NEW j \in Jobs,
         \A i \in Jobs : i # j => work'[i] = work[i] /\ copier'[i] = copier[i],
         \A i \in Jobs, e \in Dests : i # j /\ reserved[e] = {i} => reserved'[e] = {i},
         \A i \in Jobs, e \in Dests :
            i # j /\ work[i].pc \in {"replace", "transfers"} /\ runs[work[i].run].copies[e].st \in {"pending", "running"}
              /\ work[i].run \in staging => work[i].run \in staging'
  PROVE  \A i \in Jobs : i # j => JobOK(i)'
<1> SUFFICES ASSUME NEW i \in Jobs, i # j PROVE JobOK(i)'
  BY Zenon
<1>1. work'[i] = work[i] /\ copier'[i] = copier[i] /\ \A e \in Dests : reserved[e] = {i} => reserved'[e] = {i}
  BY Zenon
<1>2. JobOK(i)
  BY Zenon DEF JobInv
<1>3. /\ runs' = runs /\ saved' = saved
      /\ \A e \in Dests : work[i].pc \in {"replace", "transfers"} /\ runs[work[i].run].copies[e].st \in {"pending", "running"}
            /\ work[i].run \in staging => work[i].run \in staging'
  OBVIOUS
<1> QED
  BY ONLY <1>1, <1>2, <1>3, Zenon DEF JobOK

(* A finished destination is given back while its siblings go on. *)
LEMMA ReleaseCompletedKeepsInv ==
  ASSUME Inv, NEW j \in Jobs, NEW d \in Dests, releaseCompletedRepository(j, d)
  PROVE  Inv' /\ VerifiedIsKept
<1> DEFINE r == work[j].run
           others == {e \in Dests \ {d} : reserved[e] = {j}}
<1>1. /\ copier[j][d] = "done" /\ copier[j][d] # "none" /\ copier' = [copier EXCEPT ![j][d] = "none"]
      /\ UNCHANGED <<runs, points, saved, snaps, plan, expired, paused, staging, work, reads, bad>>
  BY DEF releaseCompletedRepository, state, outside
<1>2. StateType /\ WorldType /\ StateInv /\ ReservedInv /\ JobInv /\ ForgetInv
  BY Zenon DEF Inv, TypeOK
<1>3. /\ work[j].pc = "transfers" /\ reserved[d] = {j} /\ r \in Runs /\ runs[r].state = "running"
      /\ \A e \in Dests : CopierOK(copier[j][e], runs[r].copies[e])
      /\ \A e \in Dests : runs[r].copies[e].st \in {"pending", "running"} => r \in staging
  BY <1>1, TransferOf, Zenon
<1>4. /\ copier' \in [Jobs -> [Dests -> CopierType]] /\ copier'[j][d] = "none"
      /\ \A e \in Dests : e # d => copier'[j][e] = copier[j][e]
      /\ \A i \in Jobs : i # j => copier'[i] = copier[i]
  BY <1>1, <1>2, CopierMoved, Zenon DEF WorldType, CopierType
<1>5. /\ reserved' \in [Dests -> SUBSET Jobs] /\ leases' \in [Jobs -> SUBSET (Dests \cup {Global})]
      /\ \A e \in Dests : e # d => reserved'[e] = reserved[e]
      /\ reserved'[d] = {j} \/ (reserved'[d] = {} /\ \E e \in Dests : e # d /\ reserved[e] = {j})
  <2>1. CASE others # {}
    <3>1. leases' = [leases EXCEPT ![j] = others] /\ reserved' = [reserved EXCEPT ![d] = {}]
      BY <2>1, <1>3, Zenon DEF releaseCompletedRepository
    <3>2. others \in SUBSET (Dests \cup {Global}) /\ \E e \in Dests : e # d /\ reserved[e] = {j}
      BY <2>1, Zenon
    <3> HIDE DEF others
    <3> QED
      BY <3>1, <3>2, <1>2, Zenon DEF WorldType
  <2>2. CASE others = {}
    BY <2>2, <1>2, <1>3, Zenon DEF releaseCompletedRepository, WorldType
  <2> QED
    BY <2>1, <2>2, Zenon
<1>6. StateType' /\ StateInv' /\ VerifiedIsKept
  BY <1>1, <1>2, StateUntouched, Zenon
<1>7. WorldType'
  BY <1>1, <1>2, <1>4, <1>5, Zenon DEF WorldType
<1>8. \A i \in Jobs : i # j => {i} # {j}
  BY Zenon
<1>9. \A i \in Jobs, e \in Dests : i # j /\ reserved[e] = {i} => reserved'[e] = {i}
  BY <1>3, <1>5, <1>8, Zenon
<1>10. ReservedInv'
  <2>1. \A e \in Dests : reserved'[e] # {} => reads'[e] = 0
    BY <1>1, <1>2, <1>3, <1>5, Zenon DEF ReservedInv
  <2>2. \A i \in Jobs, e \in Dests : copier'[i][e] # "none" => work'[i].pc = "transfers" /\ reserved'[e] = {i}
    <3> SUFFICES ASSUME NEW i \in Jobs, NEW e \in Dests, copier'[i][e] # "none" PROVE work'[i].pc = "transfers" /\ reserved'[e] = {i}
      OBVIOUS
    <3>1. copier[i][e] # "none" /\ (i = j => e # d)
      BY <1>1, <1>4, Zenon
    <3>2. work[i].pc = "transfers" /\ reserved[e] = {i}
      BY <3>1, <1>2, Zenon DEF ReservedInv
    <3> QED
      BY <3>1, <3>2, <1>1, <1>5, <1>9, Zenon
  <2>3. \A i \in Jobs : work'[i].pc \in Holding => \E e \in Dests : reserved'[e] = {i}
    <3> SUFFICES ASSUME NEW i \in Jobs, work[i].pc \in Holding PROVE \E e \in Dests : reserved'[e] = {i}
      BY <1>1, Zenon
    <3>1. CASE i = j
      BY <3>1, <1>5, Zenon
    <3>2. CASE i # j
      BY <3>2, <1>2, <1>9, Zenon DEF ReservedInv
    <3> QED
      BY <3>1, <3>2, Zenon
  <2> QED
    BY <2>1, <2>2, <2>3, Zenon DEF ReservedInv
<1>11. OneJobPerRun' /\ RunHasJob'
  BY <1>1, <1>2, Zenon DEF JobInv, OneJobPerRun, RunHasJob, Running
<1>12. \A i \in Jobs : i # j => JobOK(i)'
  BY <1>1, <1>2, <1>4, <1>9, OthersUntouched, Zenon
<1>13. JobOK(j)'
  <2>1. work'[j].pc = "transfers" /\ work'[j].run = r /\ runs'[work'[j].run] = runs[r] /\ staging' = staging
    BY <1>1, <1>3, Zenon
  <2>2. \A e \in Dests : CopierOK(copier'[j][e], runs[r].copies[e])
    <3>1. CopierOK("none", runs[r].copies[d])
      BY <1>1, <1>3, Zenon DEF CopierOK
    <3> QED
      BY <3>1, <1>3, <1>4, Zenon
  <2> QED
    BY ONLY <2>1, <2>2, <1>3, Zenon DEF JobOK, Holding, Busy, CopierOK, Quiet, copyWorkPending, verifiedCopy
<1>14. ForgetInv'
  BY <1>1, <1>2, <1>4, Zenon DEF ForgetInv
<1> QED
  BY <1>6, <1>7, <1>10, <1>11, <1>12, <1>13, <1>14, Zenon DEF Inv, TypeOK, JobInv

(* Every step of a transfer. *)
LEMMA CopyStepKeepsInv ==
  ASSUME Inv, NEW j \in Jobs, NEW d \in Dests, CopyStep(j, d)
  PROVE  Inv' /\ VerifiedIsKept
BY BeginCopyKeepsInv, UploadKeepsInv, VerifyKeepsInv, VerifyFailsKeepsInv, FailCopyKeepsInv, ExecuteRetentionKeepsInv,
   RetainKeepsInv, ReleaseCompletedKeepsInv, Zenon DEF CopyStep

(* The transfers are started under the repositories alone. *)
LEMMA ReplaceResourcesKeepsInv ==
  ASSUME Inv, NEW j \in Jobs, ReplaceResources(j)
  PROVE  Inv' /\ VerifiedIsKept
<1> DEFINE r == work[j].run
           w == [work[j] EXCEPT !.pc = "transfers"]
<1>1. /\ work[j].pc = "replace"
      /\ UNCHANGED <<runs, points, saved, snaps, plan, expired, paused, staging, reserved, reads, bad>>
  BY DEF ReplaceResources, state, outside
<1>2. StateType /\ WorldType /\ StateInv /\ ReservedInv /\ JobInv /\ ForgetInv /\ JobOK(j) /\ work[j] \in WorkType
  BY Zenon DEF Inv, TypeOK, JobInv, WorldType
<1>3. /\ r \in Runs /\ runs[r].state = "running"
      /\ \A e \in Dests : IF copyWorkPending(runs[r].copies[e]) THEN reserved[e] = {j} ELSE Quiet(runs[r].copies[e])
      /\ \A e \in Dests : runs[r].copies[e].st \in {"pending", "running"} => r \in staging
  BY <1>1, <1>2, Zenon DEF JobOK, Holding, Busy
<1>4. /\ copier' \in [Jobs -> [Dests -> CopierType]]
      /\ \A e \in Dests : copier'[j][e] = IF copyWorkPending(runs[r].copies[e]) THEN "queued" ELSE "none"
      /\ \A i \in Jobs : i # j => copier'[i] = copier[i]
  BY <1>2 DEF ReplaceResources, Pending, WorldType, CopierType
<1>5. w \in WorkType /\ w.pc = "transfers" /\ w.run = r /\ work' = [work EXCEPT ![j] = w]
  BY <1>2, Zenon DEF ReplaceResources, WorkType, Holding, Busy, WorldType
<1> HIDE DEF w
<1>6. work' \in [Jobs -> WorkType] /\ work'[j] = w /\ \A i \in Jobs : i # j => work'[i] = work[i]
  BY <1>2, <1>5, Zenon DEF WorldType
<1>7. leases' \in [Jobs -> SUBSET (Dests \cup {Global})]
  BY <1>2 DEF ReplaceResources, Pending, WorldType
<1>8. StateType' /\ StateInv' /\ VerifiedIsKept
  BY <1>1, <1>2, StateUntouched, Zenon
<1>9. WorldType'
  BY <1>1, <1>2, <1>4, <1>6, <1>7, Zenon DEF WorldType
<1>10. ReservedInv'
  <2>1. \A i \in Jobs, e \in Dests : copier'[i][e] # "none" => work'[i].pc = "transfers" /\ reserved'[e] = {i}
    <3> SUFFICES ASSUME NEW i \in Jobs, NEW e \in Dests, copier'[i][e] # "none" PROVE work'[i].pc = "transfers" /\ reserved[e] = {i}
      BY <1>1, Zenon
    <3>1. CASE i = j
      BY <3>1, <1>3, <1>4, <1>5, <1>6, Zenon
    <3>2. CASE i # j
      BY <3>2, <1>2, <1>4, <1>6 DEF ReservedInv
    <3> QED
      BY <3>1, <3>2, Zenon
  <2>2. \A i \in Jobs : work'[i].pc \in Holding => work[i].pc \in Holding
    BY <1>1, <1>6, Zenon DEF Holding, Busy
  <2> QED
    BY <2>1, <2>2, <1>1, <1>2, Zenon DEF ReservedInv
<1>11. OneJobPerRun' /\ RunHasJob'
  <2>1. \A i \in Jobs : work'[i].run = work[i].run /\ (work'[i].pc \in Busy <=> work[i].pc \in Busy)
    BY <1>1, <1>5, <1>6, Zenon DEF Busy
  <2>2. \A q \in Runs : Running(q)' <=> Running(q)
    BY <1>1, Zenon DEF Running
  <2> QED
    BY <2>1, <2>2, <1>2 DEF JobInv, OneJobPerRun, RunHasJob, Busy
<1>12. \A i \in Jobs : i # j => JobOK(i)'
  BY <1>1, <1>2, <1>4, <1>6, OthersUntouched, Zenon
<1>13. JobOK(j)'
  <2>1. work'[j].pc = "transfers" /\ work'[j].run = r /\ runs'[work'[j].run] = runs[r] /\ staging' = staging
    BY <1>1, <1>5, <1>6, Zenon
  <2>2. \A e \in Dests : CopierOK(copier'[j][e], runs[r].copies[e])
    BY <1>3, <1>4, Zenon DEF CopierOK
  <2> QED
    BY ONLY <2>1, <2>2, <1>3, Zenon DEF JobOK, Holding, Busy, CopierOK, Quiet, copyWorkPending, verifiedCopy
<1>14. ForgetInv'
  <2>1. \A i \in Jobs, e \in Dests : copier'[i][e] = "forget" => copier[i][e] = "forget"
    BY <1>4, Zenon
  <2> QED
    BY <2>1, <1>1, <1>2, Zenon DEF ForgetInv
<1> QED
  BY <1>8, <1>9, <1>10, <1>11, <1>12, <1>13, <1>14, Zenon DEF Inv, TypeOK, JobInv

(* A job goes on without touching the state. *)
LEMMA JobGoesOn ==
  ASSUME Inv, NEW j \in Jobs, NEW w \in WorkType, work' = [work EXCEPT ![j] = w], w.run = work[j].run,
         work[j].pc \in Holding, w.pc \in Holding, w.pc \in Busy <=> work[j].pc \in Busy,
         \A d \in Dests : copier[j][d] = "none",
         UNCHANGED <<runs, points, saved, snaps, plan, expired, paused, copier, reserved, reads, bad>>,
         leases' \in [Jobs -> SUBSET (Dests \cup {Global})], staging' \in SUBSET Runs,
         \A i \in Jobs, e \in Dests :
            i # j /\ work[i].pc \in {"replace", "transfers"} /\ runs[work[i].run].copies[e].st \in {"pending", "running"}
              /\ work[i].run \in staging => work[i].run \in staging',
         work'[j] = w => JobOK(j)'
  PROVE  Inv' /\ VerifiedIsKept
<1>1. StateType /\ WorldType /\ StateInv /\ ReservedInv /\ JobInv /\ ForgetInv
  BY Zenon DEF Inv, TypeOK
<1>2. StateType' /\ StateInv' /\ VerifiedIsKept
  BY <1>1, StateUntouched, Zenon
<1>3. \A r \in Runs : Running(r)' => Running(r)
  BY DEF Running
<1>4. /\ ReservedInv' /\ OneJobPerRun' /\ RunHasJob' /\ work' \in [Jobs -> WorkType] /\ work'[j] = w
      /\ \A i \in Jobs : i # j => work'[i] = work[i]
  BY <1>1, <1>3, WorkKept, Zenon
<1>5. WorldType'
  BY <1>1, <1>4, Zenon DEF WorldType
<1>6. \A i \in Jobs : i # j => JobOK(i)'
  BY <1>1, <1>4, OthersUntouched, Zenon
<1>7. ForgetInv'
  BY <1>1 DEF ForgetInv
<1> QED
  BY <1>2, <1>4, <1>5, <1>6, <1>7, Zenon DEF Inv, TypeOK, JobInv

(* All transfers are over: the run is at rest, and good unless the job says so. *)
LEMMA EndTransfersKeepsInv ==
  ASSUME Inv, NEW j \in Jobs, EndTransfers(j)
  PROVE  Inv' /\ VerifiedIsKept
<1> DEFINE r == work[j].run
<1>1. /\ work[j].pc = "transfers" /\ \A d \in Dests : copier[j][d] = "none"
      /\ UNCHANGED <<runs, points, saved, snaps, plan, expired, paused, staging, copier, reserved, leases, reads, bad>>
  BY DEF EndTransfers, state, outside
<1>2. PICK ok \in BOOLEAN : work' = [work EXCEPT ![j] = [@ EXCEPT !.pc = "save", !.ok = ok]] /\ (ok => ~Failed(runs[r]))
  <2>1. PICK cancelled \in BOOLEAN :
          work' = [work EXCEPT ![j] = [@ EXCEPT !.pc = "save", !.ok = ~cancelled /\ ~Failed(runs[r])]]
    BY Zenon DEF EndTransfers
  <2> DEFINE ok == ~cancelled /\ ~Failed(runs[r])
  <2>2. ok \in BOOLEAN /\ (ok => ~Failed(runs[r])) /\ work' = [work EXCEPT ![j] = [@ EXCEPT !.pc = "save", !.ok = ok]]
    BY <2>1, Zenon
  <2> HIDE DEF ok
  <2> QED
    BY <2>2, Zenon
<1>3. /\ StateType /\ StateInv /\ WorldType /\ JobOK(j) /\ work[j] \in WorkType
      /\ leases' \in [Jobs -> SUBSET (Dests \cup {Global})] /\ staging' \in SUBSET Runs
  BY <1>1, Zenon DEF Inv, TypeOK, JobInv, WorldType
<1>4. r \in Runs /\ runs[r].state = "running" /\ \A d \in Dests : Quiet(runs[r].copies[d])
  BY <1>1, <1>3, Zenon DEF JobOK, Holding, Busy, CopierOK
<1>5. \A d \in Dests : CopyOK(runs[r].copies[d]) /\ runs[r].copies[d] \in CopyType
  BY <1>3, <1>4, RunFields, Zenon DEF StateType, StateInv, RunOK
<1>6. ok => \A d \in Dests : Good(runs[r].copies[d])
  <2> SUFFICES ASSUME ok, NEW d \in Dests PROVE Good(runs[r].copies[d])
    BY SMTT(30)
  <2> DEFINE c == runs[r].copies[d]
  <2>1. c.st \in {"none", "succeeded"} /\ (c.st = "succeeded" => c.ret # "failed")
    BY <1>2, Zenon DEF Failed
  <2>2. c.ret \in RetentionStates /\ CopyOK(c) /\ Quiet(c)
    BY <1>4, <1>5, CopyFields, Zenon
  <2> HIDE DEF c
  <2>3. Good(c)
    BY <2>1, <2>2, Zenon DEF Good, CopyOK, Quiet, verifiedCopy, RetentionStates
  <2> QED
    BY <2>3, Zenon DEF c
<1> DEFINE w == [work[j] EXCEPT !.pc = "save", !.ok = ok]
<1>7. w \in WorkType /\ w.pc = "save" /\ w.ok = ok /\ w.run = r /\ work' = [work EXCEPT ![j] = w]
  BY <1>2, <1>3, Zenon DEF WorkType, Holding, Busy, WorldType
<1> HIDE DEF w
<1>8. work'[j] = w => JobOK(j)'
  <2>1. RunAtRest(runs[r])
    BY <1>4, Zenon DEF RunAtRest
  <2>2. runs' = runs /\ saved' = saved
    BY <1>1, Zenon
  <2> QED
    BY ONLY <2>1, <2>2, <1>4, <1>6, <1>7, ZenonT(30) DEF JobOK, Holding, Busy, RunAtRest, Quiet, Untouched, Good, verifiedCopy
<1>9. /\ work[j].pc \in Holding /\ w.pc \in Holding /\ w.pc \in Busy /\ work[j].pc \in Busy
  BY <1>1, <1>7 DEF Holding, Busy
<1> QED
  BY <1>1, <1>3, <1>7, <1>8, <1>9, JobGoesOn, ZenonT(30)

(* The recovery set goes when no transfer needs it. *)
LEMMA RemoveStageKeepsInv ==
  ASSUME Inv, NEW j \in Jobs, RemoveStage(j)
  PROVE  Inv' /\ VerifiedIsKept
<1> DEFINE r == work[j].run
           w == [work[j] EXCEPT !.pc = "finish"]
<1>1. /\ work[j].pc = "stage" /\ staging' = staging \ {r}
      /\ UNCHANGED <<runs, points, saved, snaps, plan, expired, paused, copier, reserved, leases, reads, bad>>
  BY Zenon DEF RemoveStage, state, outside
<1>2. /\ StateType /\ WorldType /\ JobInv /\ ReservedInv /\ JobOK(j) /\ work[j] \in WorkType
      /\ leases' \in [Jobs -> SUBSET (Dests \cup {Global})] /\ staging' \in SUBSET Runs
  BY <1>1, Zenon DEF Inv, TypeOK, JobInv, WorldType
<1>3. \A d \in Dests : copier[j][d] = "none"
  BY <1>1, <1>2, NoTransfersYet, Zenon
<1>4. w \in WorkType /\ w.pc = "finish" /\ w.ok = work[j].ok /\ w.run = r /\ work' = [work EXCEPT ![j] = w]
  BY <1>2, Zenon DEF RemoveStage, WorkType, Holding, Busy, WorldType
<1> HIDE DEF w
<1>5. /\ r \in Runs /\ runs[r].state # "none"
      /\ runs[r].state = "running" => \A d \in Dests : runs[r].copies[d].st \in {"none", "succeeded"}
  BY <1>1, <1>2, Zenon DEF JobOK, Holding
<1>6. \A i \in Jobs, e \in Dests :
         i # j /\ work[i].pc \in {"replace", "transfers"} /\ runs[work[i].run].copies[e].st \in {"pending", "running"}
           /\ work[i].run \in staging => work[i].run \in staging'
  <2> SUFFICES ASSUME NEW i \in Jobs, NEW e \in Dests, work[i].pc \in {"replace", "transfers"},
                      runs[work[i].run].copies[e].st \in {"pending", "running"}, work[i].run = r
               PROVE  FALSE
    BY <1>1, SMTT(30)
  <2>1. JobOK(i)
    BY <1>2, Zenon DEF JobInv
  <2>2. work[i].pc \in Busy
    BY Zenon DEF Busy
  <2>3. runs[r].state = "running"
    BY <2>1, <2>2, Zenon DEF JobOK
  <2> QED
    BY <2>3, <1>5, Zenon
<1>7. work'[j] = w => JobOK(j)'
  <2>1. runs' = runs /\ saved' = saved
    BY <1>1, Zenon
  <2>2. work[j].ok => /\ runs[r].state = "succeeded" /\ \A d \in Dests : Good(runs[r].copies[d])
                      /\ \A d \in Dests : Good(saved.runs[r].copies[d])
    BY <1>1, <1>2, Zenon DEF JobOK
  <2> QED
    BY ONLY <2>1, <2>2, <1>4, <1>5, Zenon DEF JobOK, Holding, Busy
<1>8. work[j].pc \in Holding /\ w.pc \in Holding /\ w.pc \notin Busy /\ work[j].pc \notin Busy
  BY <1>1, <1>4, Zenon DEF Holding, Busy
<1> QED
  BY <1>1, <1>2, <1>3, <1>4, <1>6, <1>7, <1>8, JobGoesOn, ZenonT(30)

(* The job ends in the job service. *)
LEMMA FinishKeepsInv ==
  ASSUME Inv, NEW j \in Jobs, finish(j)
  PROVE  Inv' /\ VerifiedIsKept
<1> DEFINE w == [work[j] EXCEPT !.pc = "release"]
<1>1. /\ work[j].pc = "finish"
      /\ UNCHANGED <<runs, points, saved, snaps, plan, expired, paused, staging, copier, reserved, reads, bad>>
  BY DEF finish, state, outside
<1>2. /\ StateType /\ WorldType /\ JobInv /\ ReservedInv /\ JobOK(j) /\ work[j] \in WorkType
      /\ leases' \in [Jobs -> SUBSET (Dests \cup {Global})] /\ staging' \in SUBSET Runs
  BY <1>1, Zenon DEF Inv, TypeOK, JobInv, WorldType, finish
<1>3. \A d \in Dests : copier[j][d] = "none"
  BY <1>1, <1>2, NoTransfersYet, Zenon
<1>4. w \in WorkType /\ w.pc = "release" /\ w.run = work[j].run /\ work' = [work EXCEPT ![j] = w]
  BY <1>2, Zenon DEF finish, WorkType, Holding, Busy, WorldType
<1> HIDE DEF w
<1>5. work'[j] = w => JobOK(j)'
  <2>1. runs' = runs /\ saved' = saved
    BY <1>1
  <2> QED
    BY ONLY <2>1, <1>1, <1>2, <1>4, Zenon DEF JobOK, Holding, Busy
<1>6. work[j].pc \in Holding /\ w.pc \in Holding /\ w.pc \notin Busy /\ work[j].pc \notin Busy
  BY <1>1, <1>4, Zenon DEF Holding, Busy
<1> QED
  BY <1>1, <1>2, <1>3, <1>4, <1>5, <1>6, JobGoesOn, Zenon

(* The reservations go last. *)
LEMMA ReleaseKeepsInv ==
  ASSUME Inv, NEW j \in Jobs, releaseRepositories(j)
  PROVE  Inv' /\ VerifiedIsKept
<1> DEFINE w == [work[j] EXCEPT !.pc = "over"]
<1>1. /\ work[j].pc = "release" /\ reserved' = [d \in Dests |-> reserved[d] \ {j}]
      /\ UNCHANGED <<runs, points, saved, snaps, plan, expired, paused, staging, copier, leases, reads, bad>>
  BY Zenon DEF releaseRepositories, state, outside
<1>2. /\ StateType /\ StateInv /\ WorldType /\ JobInv /\ ReservedInv /\ ForgetInv /\ work[j] \in WorkType
  BY DEF Inv, TypeOK, JobInv, WorldType
<1>3. w \in WorkType /\ w.pc = "over" /\ work' = [work EXCEPT ![j] = w]
  BY <1>2, Zenon DEF releaseRepositories, WorkType, Holding, Busy, WorldType
<1> HIDE DEF w
<1>4. work' \in [Jobs -> WorkType] /\ work'[j] = w /\ \A i \in Jobs : i # j => work'[i] = work[i]
  BY <1>2, <1>3, Zenon DEF WorldType
<1>5. /\ reserved' \in [Dests -> SUBSET Jobs] /\ \A d \in Dests : reserved'[d] # {} => reserved[d] # {}
      /\ \A i \in Jobs, d \in Dests : i # j /\ reserved[d] = {i} => reserved'[d] = {i}
  BY <1>1, <1>2, Zenon DEF WorldType
<1>6. ReservedInv'
  <2>1. \A i \in Jobs, e \in Dests : copier[i][e] # "none" => i # j
    BY <1>1, <1>2, NoTransfersYet
  <2>2. "over" \notin Holding
    BY DEF Holding, Busy
  <2> QED
    BY <2>1, <2>2, <1>1, <1>2, <1>3, <1>4, <1>5, ZenonT(30) DEF ReservedInv
<1>7. OneJobPerRun' /\ RunHasJob'
  <2>1. \A q \in Runs : Running(q)' <=> Running(q)
    BY <1>1, Zenon DEF Running
  <2>2. \A i \in Jobs : (work'[i].pc \in Busy <=> work[i].pc \in Busy) /\ (work[i].pc \in Busy => work'[i] = work[i])
    BY <1>1, <1>3, <1>4, Zenon DEF Busy
  <2> QED
    BY <2>1, <2>2, <1>2 DEF JobInv, OneJobPerRun, RunHasJob, Busy
<1>8. \A i \in Jobs : i # j => JobOK(i)'
  BY <1>1, <1>2, <1>4, <1>5, OthersUntouched, Zenon
<1>9. JobOK(j)'
  BY <1>3, <1>4, Zenon DEF JobOK, Holding, Busy
<1>10. StateType' /\ StateInv' /\ VerifiedIsKept
  BY <1>1, <1>2, StateUntouched, Zenon
<1>11. WorldType' /\ ForgetInv'
  BY <1>1, <1>2, <1>4, <1>5, Zenon DEF WorldType, ForgetInv
<1> QED
  BY <1>6, <1>7, <1>8, <1>9, <1>10, <1>11, Zenon DEF Inv, TypeOK, JobInv

(* A run at rest has no copy whose retention is interrupted. *)
LEMMA NothingInterrupted ==
  ASSUME NEW run \in RunType, RunAtRest(run)
  PROVE  \A d \in Dests : Interrupted(run.copies[d]) = run.copies[d]
BY DEF RunAtRest, Untouched, Quiet, Interrupted, verifiedCopy

(* The deferred end of ExecuteRun gives the run its result. *)
LEMMA RunEnded ==
  ASSUME NEW run \in RunType, RunOK(run), RunAtRest(run), NEW good \in BOOLEAN
  PROVE  LET new == [run EXCEPT !.state = IF good THEN "succeeded" ELSE "failed",
                       !.copies = [d \in Dests |-> IF good THEN @[d] ELSE Interrupted(@[d])]] IN
         /\ new \in RunType /\ new.state = (IF good THEN "succeeded" ELSE "failed") /\ new.capture = run.capture
         /\ new.copies = run.copies /\ RunOK(new) /\ RunAtRest(new)
<1> DEFINE copies == [d \in Dests |-> IF good THEN run.copies[d] ELSE Interrupted(run.copies[d])]
           s == IF good THEN "succeeded" ELSE "failed"
           new == [run EXCEPT !.state = s, !.copies = copies]
<1>1. copies = run.copies /\ run.copies \in [Dests -> CopyType]
  BY RunFields, NothingInterrupted, Zenon
<1>2. s \in {"succeeded", "failed"}
  OBVIOUS
<1> HIDE DEF copies, s
<1>3. new \in RunType /\ new.state = s /\ new.capture = run.capture /\ new.copies = run.copies
  BY <1>1, <1>2, Zenon DEF RunType
<1>4. new = [run EXCEPT !.state = IF good THEN "succeeded" ELSE "failed",
               !.copies = [d \in Dests |-> IF good THEN @[d] ELSE Interrupted(@[d])]]
  BY Zenon DEF new, copies, s
<1> HIDE DEF new
<1>5. RunOK(new) /\ RunAtRest(new)
  BY <1>2, <1>3, Zenon DEF RunOK, RunAtRest
<1> QED
  BY <1>3, <1>4, <1>5, Zenon DEF s

(* SaveRun: the run is saved with its result, and only then may its recovery set go. *)
LEMMA SaveRunStepKeepsInv ==
  ASSUME Inv, NEW j \in Jobs, SaveRun(j)
  PROVE  Inv' /\ VerifiedIsKept
<1> DEFINE r == work[j].run
           old == runs[r]
           good == work[j].ok
           run == [old EXCEPT !.state = IF good THEN "succeeded" ELSE "failed",
                     !.copies = [d \in Dests |-> IF good THEN @[d] ELSE Interrupted(@[d])]]
           pc == IF runNeedsStaging(old) /\ old.capture = "succeeded" THEN "finish" ELSE "stage"
<1>1. /\ work[j].pc = "save" /\ work[j].pc \in Holding /\ work[j].pc \in Busy
      /\ UNCHANGED <<snaps, plan, expired, paused, staging, copier, reserved, leases, reads>>
  BY Zenon DEF SaveRun, outside, Holding, Busy
<1>2. /\ StateType /\ WorldType /\ StateInv /\ ReservedInv /\ JobInv /\ ForgetInv /\ JobOK(j) /\ work[j] \in WorkType
      /\ snaps \in SnapsType /\ bad \in [crashes : Nat, store : Nat]
  BY DEF Inv, TypeOK, JobInv, WorldType
<1>3. /\ r \in Runs /\ old.state = "running" /\ RunAtRest(old) /\ good \in BOOLEAN
      /\ good => \A d \in Dests : Good(old.copies[d])
  BY <1>1, <1>2, Zenon DEF JobOK, WorkType
<1>4. /\ old \in RunType /\ RunOK(old) /\ \A d \in Dests : old.copies[d].ver => r <= points[d]
  BY <1>2, <1>3, Zenon DEF StateType, StateInv, EvidenceOK
<1>5. PICK ok \in BOOLEAN : saveRun(r, run, ok) /\ work' = [work EXCEPT ![j] = [@ EXCEPT !.ok = good /\ ok, !.pc = pc]]
  BY Zenon DEF SaveRun
<1>6. /\ run \in RunType /\ run.state = (IF good THEN "succeeded" ELSE "failed") /\ run.capture = old.capture
      /\ run.copies = old.copies /\ RunOK(run) /\ RunAtRest(run)
  BY <1>3, <1>4, RunEnded, Zenon
<1> HIDE DEF run
<1>7. /\ snaps' \in SnapsType /\ NoDuplicateSnapshot'
      /\ \A e \in Dests, q \in Runs : snaps'[e][q].complete >= snaps[e][q].complete
  BY <1>1, RepositoriesKept, Zenon
<1>8. /\ StateType' /\ StateInv' /\ VerifiedIsKept /\ bad' \in [crashes : Nat, store : Nat]
      /\ runs'[r] = run /\ \A q \in Runs : q # r => runs'[q] = runs[q]
      /\ saved'.runs = saved.runs \/ saved'.runs = runs'
      /\ saved'.points = saved.points \/ saved'.points = points'
      /\ ok => saved'.runs = runs'
      /\ \A e \in Dests : points'[e] = points[e]
  BY <1>2, <1>3, <1>4, <1>5, <1>6, <1>7, SaveRunKeeps
<1> DEFINE w == [work[j] EXCEPT !.ok = good /\ ok, !.pc = pc]
<1>9. pc \in {"finish", "stage"} /\ pc \in Holding /\ pc \notin Busy /\ (good /\ ok) \in BOOLEAN
  BY Zenon DEF Holding, Busy
<1>10. pc = "stage" => IF old.capture = "succeeded" THEN \A d \in Dests : old.copies[d].st \in {"none", "succeeded"} ELSE TRUE
  BY DEF runNeedsStaging
<1> HIDE DEF pc
<1>11. w \in WorkType /\ w.pc = pc /\ w.ok = (good /\ ok) /\ w.run = r /\ work' = [work EXCEPT ![j] = w]
  BY <1>2, <1>5, <1>9, Zenon DEF WorkType, WorldType
<1> HIDE DEF w
<1>12. \A q \in Runs : Running(q)' => Running(q) /\ q # r
  BY <1>3, <1>6, <1>8, Zenon DEF Running
<1>13. \A d \in Dests : copier[j][d] = "none"
  BY <1>1, <1>2, NoTransfersYet, Zenon
<1>14. /\ ReservedInv' /\ OneJobPerRun' /\ RunHasJob' /\ work' \in [Jobs -> WorkType] /\ work'[j] = w
       /\ \A i \in Jobs : i # j => work'[i] = work[i]
  BY <1>1, <1>2, <1>9, <1>11, <1>12, <1>13, WorkKept, Zenon
<1>15. \A i \in Jobs : i # j => JobOK(i)'
  <2>1. /\ runs'[r].state # "none" /\ (runs[r].capture = "succeeded" => runs'[r].capture = "succeeded")
        /\ \A d \in Dests : runs[r].copies[d].st \in {"none", "succeeded"} => runs'[r].copies[d].st \in {"none", "succeeded"}
    BY <1>6, <1>8, Zenon
  <2>2. /\ \A i \in Jobs : i # j => work'[i] = work[i] /\ copier'[i] = copier[i]
        /\ \A i \in Jobs, d \in Dests : i # j /\ reserved[d] = {i} => reserved'[d] = {i}
        /\ staging \subseteq staging'
    BY <1>1, <1>14, Zenon
  <2> QED
    BY <2>1, <2>2, <1>1, <1>2, <1>3, <1>8, OthersKept, Zenon
<1>16. JobOK(j)'
  <2>1. work'[j].pc = pc /\ work'[j].run = r /\ work'[j].ok = (good /\ ok) /\ runs'[work'[j].run] = run
    BY <1>8, <1>11, <1>14, Zenon
  <2>2. /\ run.state \in {"succeeded", "failed"} /\ run.capture = old.capture /\ run.copies = old.copies
        /\ good => run.state = "succeeded" /\ \A d \in Dests : Good(run.copies[d])
    BY <1>3, <1>6, Zenon
  <2>3. good /\ ok => \A d \in Dests : Good(saved'.runs[r].copies[d])
    BY <2>2, <1>8, Zenon
  <2>4. pc \in {"finish", "stage"} /\ r \in Runs
    BY <1>3, <1>9, Zenon
  <2> HIDE DEF good, old
  <2> QED
    BY ONLY <2>1, <2>2, <2>3, <2>4, <1>10, Zenon DEF JobOK, Holding, Busy
<1>17. WorldType' /\ ForgetInv'
  BY <1>1, <1>2, <1>8, <1>14, Zenon DEF WorldType, ForgetInv
<1> QED
  BY <1>8, <1>14, <1>15, <1>16, <1>17, Zenon DEF Inv, TypeOK, JobInv

(* Every step of a job that has been admitted. *)
LEMMA JobStepKeepsInv ==
  ASSUME Inv, NEW j \in Jobs, JobStep(j)
  PROVE  Inv' /\ VerifiedIsKept
BY CaptureKeepsInv, ReplaceResourcesKeepsInv, EndTransfersKeepsInv, SaveRunStepKeepsInv, RemoveStageKeepsInv, FinishKeepsInv,
   ReleaseKeepsInv, CopyStepKeepsInv, Zenon DEF JobStep

(* A job that cannot save its run is over before it began. *)
LEMMA AdmissionUndone ==
  ASSUME Inv, NEW j \in Jobs, NEW r \in Runs, work[j].pc = "none",
         UNCHANGED <<runs, points, saved, snaps, plan, expired, paused, staging, copier, reserved, leases, reads>>,
         bad' \in [crashes : Nat, store : Nat],
         work' = [work EXCEPT ![j] = [pc |-> "over", run |-> r, ok |-> FALSE]]
  PROVE  Inv' /\ VerifiedIsKept
<1>1. StateType /\ StateInv /\ WorldType /\ JobInv /\ ReservedInv /\ ForgetInv
  BY Zenon DEF Inv, TypeOK
<1>2. /\ work' \in [Jobs -> WorkType] /\ work'[j].pc = "over" /\ \A i \in Jobs : i # j => work'[i] = work[i]
  BY <1>1, Zenon DEF WorldType, WorkType
<1>3. "over" \notin Holding /\ "over" \notin Busy /\ "none" \notin Busy
  BY DEF Holding, Busy
<1>4. ReservedInv'
  <2>1. \A i \in Jobs, e \in Dests : copier[i][e] # "none" => i # j
    BY <1>1, NoTransfersYet, Zenon
  <2> QED
    BY <2>1, <1>1, <1>2, <1>3, Zenon DEF ReservedInv
<1>5. OneJobPerRun' /\ RunHasJob'
  <2>1. \A q \in Runs : Running(q)' <=> Running(q)
    BY Zenon DEF Running
  <2>2. \A i \in Jobs : (work'[i].pc \in Busy <=> work[i].pc \in Busy) /\ (work[i].pc \in Busy => work'[i] = work[i])
    BY <1>2, <1>3, Zenon
  <2> QED
    BY <2>1, <2>2, <1>1 DEF JobInv, OneJobPerRun, RunHasJob, Busy
<1>6. \A i \in Jobs : i # j => JobOK(i)'
  BY <1>1, <1>2, OthersUntouched, Zenon
<1>7. JobOK(j)'
  BY <1>2, Zenon DEF JobOK, Holding, Busy
<1>8. StateType' /\ StateInv' /\ VerifiedIsKept
  BY <1>1, StateUntouched, Zenon
<1>9. WorldType' /\ ForgetInv'
  BY <1>1, <1>2, Zenon DEF WorldType, ForgetInv
<1> QED
  BY <1>4, <1>5, <1>6, <1>7, <1>8, <1>9, Zenon DEF Inv, TypeOK, JobInv

(* A job is admitted for a run that nobody works for: with its reservations, and only when those are
   free.  A job that still cleans up after the run has ended has not ended well. *)
LEMMA AdmitKeepsInv ==
  ASSUME Inv, NEW j \in Jobs, NEW r \in Runs, NEW run \in RunType, RunOK(run), run.state = "running", ~Running(r),
         NEW resources \in SUBSET (Dests \cup {Global}), NEW pc \in {"begin", "replace"},
         Admit(j, r, run, resources, pc),
         Pending(run) # {}, \A d \in Pending(run) : reserved[d] = {} /\ reads[d] = 0,
         \A d \in Dests : copyWorkPending(run.copies[d]) \/ Quiet(run.copies[d]),
         pc = "begin" => run.capture # "succeeded" /\ \A d \in Dests : Untouched(run.copies[d]),
         pc = "replace" => \A d \in Dests : run.copies[d].st \in {"pending", "running"} => r \in staging,
         \A d \in Dests : run.copies[d].ver => r <= points[d],
         \A d \in Dests : verifiedCopy(runs[r].copies[d]) => verifiedCopy(run.copies[d]),
         runs[r].state = "none" \/
           (/\ run.capture = "succeeded" /\ \E d \in Dests : ~Good(runs[r].copies[d])
            /\ runs[r].capture = "succeeded"
            /\ \A d \in Dests : runs[r].copies[d].st \in {"none", "succeeded"} => run.copies[d].st \in {"none", "succeeded"})
  PROVE  Inv' /\ VerifiedIsKept
<1>1. /\ StateType /\ StateInv /\ WorldType /\ JobInv /\ ReservedInv /\ ForgetInv
      /\ snaps \in SnapsType /\ bad \in [crashes : Nat, store : Nat]
  BY Zenon DEF Inv, TypeOK, WorldType
<1>2. /\ work[j].pc = "none" /\ UNCHANGED <<points, snaps, plan, expired, paused, staging, copier, reads>>
  BY Zenon DEF Admit, NewJob, outside
<1>3. CASE /\ UNCHANGED <<runs, leases, reserved>> /\ persist(FALSE)
           /\ work' = [work EXCEPT ![j] = [pc |-> "over", run |-> r, ok |-> FALSE]]
  <2>1. saved' = saved /\ bad' \in [crashes : Nat, store : Nat]
    BY <1>1, <1>3 DEF persist
  <2> QED
    BY <2>1, <1>2, <1>3, AdmissionUndone, Zenon
<1>4. CASE /\ runs' = [runs EXCEPT ![r] = run] /\ persist(TRUE)
           /\ work' = [work EXCEPT ![j] = [pc |-> pc, run |-> r, ok |-> TRUE]]
           /\ leases' = [leases EXCEPT ![j] = resources]
           /\ reserved' = [d \in Dests |-> IF d \in Pending(run) THEN {j} ELSE reserved[d]]
  <2>1. saved' = [runs |-> runs', points |-> points'] /\ bad' = bad
    BY <1>4, Zenon DEF persist
  <2>2. /\ snaps' \in SnapsType /\ NoDuplicateSnapshot' /\ points' \in PointsType
        /\ \A e \in Dests, q \in Runs : snaps'[e][q].complete >= snaps[e][q].complete
    BY <1>1, <1>2, RepositoriesKept, Zenon DEF StateType
  <2>3. \A d \in Dests : run.copies[d].ver => r <= points'[d]
    BY <1>2, Zenon
  <2>4. StateType' /\ StateInv' /\ VerifiedIsKept
    BY <2>1, <2>2, <2>3, <1>1, <1>2, <1>4, StateKept, ZenonT(30)
  <2>5. runs'[r] = run /\ (\A q \in Runs : q # r => runs'[q] = runs[q]) /\ saved'.runs = runs' /\ saved'.points = points'
    BY <2>1, <1>1, <1>4, RowFields, Zenon DEF StateType
  <2>6. /\ work' \in [Jobs -> WorkType] /\ work'[j].pc = pc /\ work'[j].run = r /\ work'[j].ok = TRUE
        /\ \A i \in Jobs : i # j => work'[i] = work[i]
    BY <1>1, <1>4, Zenon DEF WorldType, WorkType, Holding, Busy
  <2>7. /\ reserved' \in [Dests -> SUBSET Jobs]
        /\ \A d \in Dests : reserved'[d] = IF copyWorkPending(run.copies[d]) THEN {j} ELSE reserved[d]
        /\ \A d \in Dests : copyWorkPending(run.copies[d]) => reserved[d] = {} /\ reads[d] = 0
        /\ \E d \in Dests : copyWorkPending(run.copies[d])
    BY <1>1, <1>4, Zenon DEF WorldType, Pending
  <2>8. \A i \in Jobs, d \in Dests : reserved[d] = {i} => reserved'[d] = {i}
    BY <2>7, ZenonT(30)
  <2>9. leases' \in [Jobs -> SUBSET (Dests \cup {Global})]
    BY <1>1, <1>4, SMTT(30) DEF WorldType
  <2>10. \A i \in Jobs : work[i].pc \in Busy => work[i].run \in Runs /\ work[i].run # r /\ i # j
    BY <1>1, <1>2, Zenon DEF JobInv, JobOK, Running, Holding, Busy
  <2>11. ReservedInv'
    <3>1. \A i \in Jobs, e \in Dests : copier[i][e] # "none" => i # j
      BY <1>1, <1>2, NoTransfersYet, Zenon
    <3>2. \A e \in Dests : reserved'[e] # {} => reads'[e] = 0
      BY <2>7, <1>1, <1>2, Zenon DEF ReservedInv
    <3>3. \A i \in Jobs, e \in Dests : copier'[i][e] # "none" => work'[i].pc = "transfers" /\ reserved'[e] = {i}
      <4>1. ASSUME NEW i \in Jobs, NEW e \in Dests, copier[i][e] # "none" PROVE work'[i].pc = "transfers" /\ reserved'[e] = {i}
        <5>1. i # j /\ work[i].pc = "transfers" /\ reserved[e] = {i}
          BY <4>1, <3>1, <1>1, Zenon DEF ReservedInv
        <5> QED
          BY <5>1, <2>6, <2>8, Zenon
      <4> QED
        BY <4>1, <1>2, Zenon
    <3>4. \A i \in Jobs : work'[i].pc \in Holding => \E e \in Dests : reserved'[e] = {i}
      <4>1. \E e \in Dests : reserved'[e] = {j}
        BY <2>7, Zenon
      <4>2. ASSUME NEW i \in Jobs, i # j, work'[i].pc \in Holding PROVE \E e \in Dests : reserved'[e] = {i}
        <5>1. work[i].pc \in Holding
          BY <4>2, <2>6, Zenon
        <5> QED
          BY <5>1, <2>8, <1>1, Zenon DEF ReservedInv
      <4> QED
        BY <4>1, <4>2, Zenon
    <3> QED
      BY ONLY <3>2, <3>3, <3>4, Zenon DEF ReservedInv
  <2>12. OneJobPerRun'
    <3>1. OneJobPerRun
      BY <1>1, Zenon DEF JobInv
    <3> QED
      BY ONLY <3>1, <2>6, <2>10, Zenon DEF OneJobPerRun
  <2>13. RunHasJob'
    <3> SUFFICES ASSUME NEW q \in Runs, runs'[q].state = "running" PROVE \E i \in Jobs : work'[i].run = q /\ work'[i].pc \in Busy
      BY Zenon DEF RunHasJob, Running, Busy
    <3>1. CASE q = r
      BY <3>1, <2>6, Zenon DEF Busy
    <3>2. CASE q # r
      <4>1. PICK i \in Jobs : work[i].run = q /\ work[i].pc \in Busy
        BY <3>2, <2>5, <1>1, ZenonT(30) DEF JobInv, RunHasJob, Running, Busy
      <4> QED
        BY <4>1, <2>6, <2>10, Zenon
    <3> QED
      BY <3>1, <3>2, Zenon
  <2>14. ASSUME NEW i \in Jobs, i # j PROVE JobOK(i)'
    <3>1. /\ work'[i] = work[i] /\ copier'[i] = copier[i] /\ staging' = staging
          /\ \A d \in Dests : reserved[d] = {i} => reserved'[d] = {i}
      BY <2>6, <2>8, <2>14, <1>2, Zenon
    <3>2. JobOK(i)
      BY <1>1, Zenon DEF JobInv
    <3>3. CASE work[i].pc \notin Holding
      BY <3>1, <3>3, ZenonT(30) DEF JobOK, Holding, Busy
    <3>4. CASE work[i].pc \in Holding /\ work[i].run # r
      <4>1. work[i].run \in Runs
        BY <3>2, <3>4, ZenonT(30) DEF JobOK
      <4>2. runs'[work[i].run] = runs[work[i].run] /\ saved'.runs[work[i].run] = runs[work[i].run]
        BY <4>1, <3>4, <2>5, Zenon
      <4> QED
        BY ONLY <3>1, <3>2, <4>1, <4>2, ZenonT(30) DEF JobOK
    <3>5. CASE work[i].pc \in Holding /\ work[i].run = r
      <4>1. work[i].pc \in {"stage", "finish", "release"}
        BY <3>5, <2>10, Zenon DEF Holding, Busy
      <4>2. runs[r].state # "none"
        BY <3>2, <3>5, Zenon DEF JobOK
      <4>3. work[i].pc \in {"stage", "finish"} => ~work[i].ok
        BY <4>2, <3>2, <3>5, Zenon DEF JobOK
      <4>4. run.capture = "succeeded" /\ (work[i].pc = "stage" => \A d \in Dests : run.copies[d].st \in {"none", "succeeded"})
        BY <4>2, <3>2, <3>5, Zenon DEF JobOK
      <4>5. work'[i].run = r /\ runs'[r] = run /\ run.state = "running"
        BY <3>1, <3>5, <2>5, Zenon
      <4> QED
        BY ONLY <3>1, <4>1, <4>3, <4>4, <4>5, Zenon DEF JobOK, Holding, Busy
    <3> QED
      BY <3>3, <3>4, <3>5, Zenon
  <2>15. JobOK(j)'
    <3>1. \A d \in Dests : IF copyWorkPending(run.copies[d]) THEN reserved'[d] = {j} ELSE Quiet(run.copies[d])
      BY <2>7, Zenon
    <3>2. /\ pc = "begin" => run.capture # "succeeded" /\ \A d \in Dests : Untouched(run.copies[d])
          /\ pc = "replace" => \A d \in Dests : run.copies[d].st \in {"pending", "running"} => r \in staging'
          /\ pc \in {"begin", "replace"} /\ run.state = "running"
      BY <1>2, Zenon
    <3> QED
      BY ONLY <3>1, <3>2, <2>5, <2>6, Zenon DEF JobOK, Holding, Busy
  <2>16. WorldType' /\ ForgetInv'
    BY <2>1, <2>5, <2>6, <2>7, <2>9, <1>1, <1>2, Zenon DEF WorldType, ForgetInv
  <2> QED
    BY <2>4, <2>11, <2>12, <2>13, <2>14, <2>15, <2>16, Zenon DEF Inv, TypeOK, JobInv
<1> QED
  BY <1>3, <1>4, Zenon DEF Admit

(* StartRun: a new run with a pending copy for every target. *)
LEMMA StartRunKeepsInv ==
  ASSUME Inv, NEW j \in Jobs, NEW r \in Runs, StartRun(j, r)
  PROVE  Inv' /\ VerifiedIsKept
<1> DEFINE c0 == [NoCopy EXCEPT !.st = "pending"]
           Copies(T) == [d \in Dests |-> IF d \in T THEN c0 ELSE NoCopy]
           Run(T) == [NoRun EXCEPT !.state = "running", !.copies = Copies(T)]
<1>1. PICK targets \in (SUBSET plan) \ {{}} :
        /\ runs[r].state = "none" /\ repositoryResourcesLocked(targets)
        /\ Admit(j, r, Run(targets), targets \cup {Global}, "begin")
  BY Zenon DEF StartRun
<1> DEFINE run == Run(targets)
<1>2. targets # {} /\ targets \subseteq Dests
  <2>1. plan \subseteq Dests
    BY DEF Inv, TypeOK, WorldType
  <2> QED
    BY <1>1, <2>1, Zenon
<1>3. c0 \in CopyType /\ c0.st = "pending" /\ c0.snap = FALSE /\ c0.ver = FALSE /\ c0.ret = "pending"
  BY NothingStarted, Zenon DEF CopyType, CopyStates
<1> HIDE DEF c0
<1>4. Copies(targets) \in [Dests -> CopyType]
  BY <1>3, NothingStarted, Zenon
<1>5. \A d \in Dests : Copies(targets)[d] = IF d \in targets THEN c0 ELSE NoCopy
  OBVIOUS
<1> HIDE DEF Copies
<1>6. run \in RunType /\ run.state = "running" /\ run.capture = "pending" /\ run.copies = Copies(targets)
  BY <1>4, NothingStarted, Zenon DEF RunType, NoRun
<1>7. Admit(j, r, run, targets \cup {Global}, "begin")
  BY <1>1, Zenon
<1> HIDE DEF run, Run
<1>8. \A d \in Dests : /\ run.copies[d].st = (IF d \in targets THEN "pending" ELSE "none")
                       /\ run.copies[d].ver = FALSE /\ run.copies[d].snap = FALSE /\ run.copies[d].ret = "pending"
  BY <1>3, <1>5, <1>6, NothingStarted
<1>9. \A d \in Dests : /\ CopyOK(run.copies[d]) /\ Untouched(run.copies[d]) /\ ~verifiedCopy(run.copies[d])
                       /\ copyWorkPending(run.copies[d]) <=> d \in targets
                       /\ copyWorkPending(run.copies[d]) \/ Quiet(run.copies[d])
  BY <1>8, Zenon DEF CopyOK, Untouched, verifiedCopy, copyWorkPending, Quiet
<1>10. RunOK(run)
  BY <1>6, <1>9, Zenon DEF RunOK
<1>11. Pending(run) = targets
  BY <1>2, <1>9, Zenon DEF Pending
<1>12. \A d \in Dests : ~verifiedCopy(runs[r].copies[d])
  BY <1>1, Zenon DEF Inv, StateInv, RunOK, verifiedCopy
<1>13. \A d \in Pending(run) : reserved[d] = {} /\ reads[d] = 0
  BY <1>1, <1>11, Zenon DEF repositoryResourcesLocked
<1>14. ~Running(r) /\ targets \cup {Global} \in SUBSET (Dests \cup {Global}) /\ "begin" \in {"begin", "replace"}
       /\ Pending(run) # {} /\ run.capture # "succeeded"
  BY <1>1, <1>2, <1>6, <1>11, Zenon DEF Running
<1>15. \A d \in Dests : ~run.copies[d].ver
  BY <1>8, Zenon
<1> QED
  BY <1>1, <1>6, <1>7, <1>9, <1>10, <1>12, <1>13, <1>14, <1>15, AdmitKeepsInv, ZenonT(30)

(* What the retry of a copy keeps and begins. *)
LEMMA RetryOfCopy ==
  ASSUME NEW c \in CopyType, CopyOK(c)
  PROVE  /\ RetryOf(c) \in CopyType /\ RetryOf(c).ver = c.ver /\ CopyOK(RetryOf(c)) /\ copyWorkPending(RetryOf(c))
         /\ verifiedCopy(c) => verifiedCopy(RetryOf(c)) /\ RetryOf(c).st = "succeeded"
         /\ c.st = "succeeded" => verifiedCopy(c)
<1>1. c.st = "succeeded" => verifiedCopy(c)
  BY DEF CopyOK, verifiedCopy
<1>2. CASE verifiedCopy(c)
  <2> DEFINE new == [c EXCEPT !.ret = "pending", !.err = TRUE]
  <2>1. new \in CopyType /\ new.st = c.st /\ new.snap = c.snap /\ new.ver = c.ver /\ new.ret = "pending"
    BY ZenonT(30) DEF CopyType, RetentionStates
  <2>2. RetryOf(c) = new
    BY <1>2, Zenon DEF RetryOf
  <2> HIDE DEF new
  <2> QED
    BY <2>1, <2>2, <1>1, <1>2, Zenon DEF CopyOK, verifiedCopy, copyWorkPending
<1>3. CASE ~verifiedCopy(c)
  <2> DEFINE new == [c EXCEPT !.st = "pending"]
  <2>1. new \in CopyType /\ new.st = "pending" /\ new.snap = c.snap /\ new.ver = c.ver /\ new.ret = c.ret
    BY DEF CopyType, CopyStates
  <2>2. RetryOf(c) = new
    BY <1>3, Zenon DEF RetryOf
  <2> HIDE DEF new
  <2> QED
    BY <2>1, <2>2, <1>1, <1>3, Zenon DEF CopyOK, verifiedCopy, copyWorkPending
<1> QED
  BY <1>2, <1>3, Zenon

(* StartRetry: an ended run, for the copies that did not end well. *)
LEMMA StartRetryKeepsInv ==
  ASSUME Inv, NEW j \in Jobs, NEW r \in Runs, StartRetry(j, r)
  PROVE  Inv' /\ VerifiedIsKept
<1> DEFINE old == runs[r].copies
           Copies(T) == [d \in Dests |-> IF d \in T THEN RetryOf(old[d]) ELSE old[d]]
           Run(T) == [runs[r] EXCEPT !.state = "running", !.copies = Copies(T)]
<1>1. PICK targets \in (SUBSET Dests) \ {{}} :
        /\ runs[r].state \in {"failed", "succeeded"} /\ runs[r].capture = "succeeded"
        /\ \A d \in targets : old[d].st # "none" /\ (old[d].st # "succeeded" \/ old[d].ret = "failed")
        /\ {d \in targets : ~verifiedCopy(old[d])} # {} => r \in staging
        /\ repositoryResourcesLocked(Pending(Run(targets)))
        /\ Admit(j, r, Run(targets), Pending(Run(targets)), "replace")
  BY Zenon DEF StartRetry
<1> DEFINE run == Run(targets)
<1>2. /\ runs[r] \in RunType /\ RunOK(runs[r]) /\ \A d \in Dests : old[d].ver => r <= points[d]
  BY Zenon DEF Inv, TypeOK, StateType, StateInv, EvidenceOK
<1>3. /\ old \in [Dests -> CopyType] /\ RunAtRest(runs[r])
      /\ \A d \in Dests : old[d] \in CopyType /\ CopyOK(old[d])
  BY <1>1, <1>2, RunFields, Zenon DEF RunOK
<1>4. Copies(targets) \in [Dests -> CopyType] /\ \A d \in Dests : Copies(targets)[d] = IF d \in targets THEN RetryOf(old[d]) ELSE old[d]
  BY <1>3, RetryOfCopy, Zenon
<1> HIDE DEF Copies
<1>5. run \in RunType /\ run.state = "running" /\ run.capture = "succeeded" /\ run.copies = Copies(targets)
  BY <1>1, <1>2, <1>4, ZenonT(30) DEF RunType
<1>6. /\ Admit(j, r, run, Pending(run), "replace") /\ repositoryResourcesLocked(Pending(run))
  BY <1>1, Zenon
<1> HIDE DEF run, Run
<1>7. \A d \in Dests : run.copies[d] = IF d \in targets THEN RetryOf(old[d]) ELSE old[d]
  BY <1>4, <1>5, Zenon
<1>8. \A d \in Dests : run.copies[d].ver => r <= points[d]
  BY <1>2, <1>3, <1>7, RetryOfCopy, Zenon
<1>9. \A d \in Dests : verifiedCopy(old[d]) => verifiedCopy(run.copies[d])
  BY <1>3, <1>7, RetryOfCopy, Zenon
<1>10. \A d \in Dests : CopyOK(run.copies[d]) /\ (d \in targets => copyWorkPending(run.copies[d]))
  BY <1>3, <1>7, RetryOfCopy, Zenon
<1>11. RunOK(run)
  BY <1>5, <1>10, Zenon DEF RunOK
<1>12. \A d \in Dests : copyWorkPending(old[d]) \/ Quiet(old[d])
  BY <1>3, Zenon DEF RunAtRest, Untouched, Quiet, copyWorkPending, verifiedCopy
<1>13. \A d \in Dests : copyWorkPending(run.copies[d]) \/ Quiet(run.copies[d])
  BY <1>7, <1>10, <1>12, Zenon
<1>14. Pending(run) # {} /\ Pending(run) \in SUBSET (Dests \cup {Global})
  BY <1>1, <1>10, Zenon DEF Pending
<1>15. \A d \in Pending(run) : reserved[d] = {} /\ reads[d] = 0
  BY <1>6, Zenon DEF repositoryResourcesLocked
<1>16. PICK t \in Dests : t \in targets
  BY <1>1, Zenon
<1>17. ~Good(old[t])
  <2>1. old[t].st # "none" /\ (old[t].st # "succeeded" \/ old[t].ret = "failed")
    BY <1>1, <1>16, Zenon
  <2> HIDE DEF old
  <2> QED
    BY ONLY <2>1, Zenon DEF Good, verifiedCopy
<1>18. \A d \in Dests : old[d].st \in {"none", "succeeded"} => run.copies[d].st \in {"none", "succeeded"}
  <2> SUFFICES ASSUME NEW d \in Dests, old[d].st \in {"none", "succeeded"}, d \in targets PROVE run.copies[d].st = "succeeded"
    BY <1>7, Zenon
  <2>1. old[d].st = "succeeded"
    BY <1>1, Zenon
  <2>2. RetryOf(old[d]).st = "succeeded"
    BY <2>1, <1>3, RetryOfCopy, Zenon
  <2> QED
    BY <2>2, <1>7, Zenon
<1>19. \A d \in Dests : run.copies[d].st \in {"pending", "running"} => r \in staging
  <2> SUFFICES ASSUME NEW d \in Dests, run.copies[d].st \in {"pending", "running"}, r \notin staging PROVE FALSE
    BY Zenon
  <2>1. \A e \in targets : verifiedCopy(old[e])
    BY <1>1, Zenon
  <2>2. d \notin targets
    BY <2>1, <1>3, <1>7, RetryOfCopy, Zenon
  <2>3. old[d].st \in {"pending", "running"}
    BY <2>2, <1>7, Zenon
  <2>4. \A e \in Dests : Untouched(old[e])
    BY <2>3, <1>3, Zenon DEF RunAtRest, Quiet
  <2> QED
    BY <2>1, <2>4, <1>16, Zenon DEF Untouched, verifiedCopy
<1>20. ~Running(r) /\ "replace" \in {"begin", "replace"} /\ runs[r].capture = "succeeded"
  BY <1>1, Zenon DEF Running
<1> QED
  BY <1>5, <1>6, <1>8, <1>9, <1>11, <1>13, <1>14, <1>15, <1>17, <1>18, <1>19, <1>20, AdmitKeepsInv, Zenon

(* Reads, the operator and the clock: no step of theirs touches a run, a job or a reservation. *)
LEMMA OutsideKeepsInv ==
  ASSUME Inv, UNCHANGED <<runs, points, saved, snaps, work, copier, reserved, leases, bad>>,
         plan' \in SUBSET Dests, expired' \in SUBSET Runs, paused' \in BOOLEAN, staging' \in SUBSET Runs,
         reads' \in [Dests -> Nat], \A d \in Dests : reserved[d] # {} => reads'[d] = 0,
         \A r \in Runs : Running(r) /\ r \in staging => r \in staging'
  PROVE  Inv' /\ VerifiedIsKept
<1>1. StateType /\ StateInv /\ WorldType /\ JobInv /\ ReservedInv /\ ForgetInv
  BY DEF Inv, TypeOK
<1>2. StateType' /\ StateInv' /\ VerifiedIsKept
  BY <1>1, StateUntouched, Zenon
<1>3. WorldType' /\ ReservedInv' /\ ForgetInv'
  BY <1>1, Zenon DEF WorldType, ReservedInv, ForgetInv
<1>4. OneJobPerRun' /\ RunHasJob'
  BY <1>1, Zenon DEF JobInv, OneJobPerRun, RunHasJob, Running
<1>5. ASSUME NEW j \in Jobs PROVE JobOK(j)'
  <2>1. JobOK(j)
    BY <1>1, Zenon DEF JobInv
  <2>2. work[j].pc \in {"replace", "transfers"} => work[j].run \in Runs /\ Running(work[j].run)
    BY <2>1, Zenon DEF JobOK, Running, Holding, Busy
  <2>3. work[j].pc \in {"replace", "transfers"} /\ work[j].run \in staging => work[j].run \in staging'
    BY <2>2, Zenon
  <2>4. runs' = runs /\ saved' = saved /\ work' = work /\ copier' = copier /\ reserved' = reserved
    OBVIOUS
  <2> QED
    BY ONLY <2>1, <2>3, <2>4, Zenon DEF JobOK
<1> QED
  BY <1>2, <1>3, <1>4, <1>5, Zenon DEF Inv, TypeOK, JobInv

(* Every step of a reader, the operator, the clock and the clean-up. *)
LEMMA OutsideStepKeepsInv ==
  ASSUME Inv, (\E d \in Dests : beginRepositoryRead(d) \/ EndRead(d)) \/ (\E r \in Runs : Expire(r))
              \/ SavePlan \/ SavePolicy \/ cleanupExpired
  PROVE  Inv' /\ VerifiedIsKept
<1>1. /\ plan \in SUBSET Dests /\ expired \in SUBSET Runs /\ paused \in BOOLEAN /\ staging \in SUBSET Runs
      /\ reads \in [Dests -> Nat] /\ \A d \in Dests : reserved[d] # {} => reads[d] = 0
  BY Zenon DEF Inv, TypeOK, WorldType, ReservedInv
<1>2. ASSUME NEW d \in Dests, beginRepositoryRead(d) \/ EndRead(d) PROVE Inv' /\ VerifiedIsKept
  <2>1. UNCHANGED <<runs, points, saved, snaps, work, copier, reserved, leases, bad, plan, expired, paused, staging>>
    BY <1>2, Zenon DEF beginRepositoryRead, EndRead, state, outside
  <2>2. reads' \in [Dests -> Nat] /\ \A e \in Dests : reserved[e] # {} => reads'[e] = 0
    BY <1>1, <1>2 DEF beginRepositoryRead, EndRead
  <2> QED
    BY <2>1, <2>2, <1>1, OutsideKeepsInv, Zenon
<1>3. ASSUME NEW r \in Runs, Expire(r) PROVE Inv' /\ VerifiedIsKept
  <2>1. UNCHANGED <<runs, points, saved, snaps, work, copier, reserved, leases, bad, plan, paused, staging, reads>> /\ expired' \in SUBSET Runs
    BY <1>1, <1>3, Zenon DEF Expire, state
  <2> QED
    BY <2>1, <1>1, OutsideKeepsInv, Zenon
<1>4. CASE SavePlan \/ SavePolicy
  <2>1. /\ UNCHANGED <<runs, points, saved, snaps, work, copier, reserved, leases, bad, expired, staging, reads>>
        /\ plan' \in SUBSET Dests /\ paused' \in BOOLEAN
    BY <1>1, <1>4, Zenon DEF SavePlan, SavePolicy, state
  <2> QED
    BY <2>1, <1>1, OutsideKeepsInv, Zenon
<1>5. CASE cleanupExpired
  <2>1. /\ UNCHANGED <<runs, points, saved, snaps, work, copier, reserved, leases, bad, plan, expired, paused, reads>>
        /\ staging' \in SUBSET Runs /\ \A r \in Runs : Running(r) /\ r \in staging => r \in staging'
    BY <1>1, <1>5, Zenon DEF cleanupExpired, state, outside, Cleanable
  <2> QED
    BY <2>1, <1>1, OutsideKeepsInv, Zenon
<1> QED
  BY <1>2, <1>3, <1>4, <1>5, Zenon

(* Reconcile keeps the evidence of a copy and ends what was interrupted. *)
LEMMA CopyReconciled ==
  ASSUME NEW c \in CopyType, CopyOK(c)
  PROVE  LET i == Interrupted(c)
             new == IF i.st \in {"running", "pending"} THEN [i EXCEPT !.st = "failed"] ELSE i IN
         new \in CopyType /\ CopyOK(new) /\ Quiet(new) /\ new.ver = c.ver /\ (verifiedCopy(c) => verifiedCopy(new))
<1> DEFINE i == Interrupted(c)
           new == IF i.st \in {"running", "pending"} THEN [i EXCEPT !.st = "failed"] ELSE i
<1>1. CASE verifiedCopy(c) /\ c.ret \in {"pending", "running"}
  <2>1. i = [c EXCEPT !.ret = "failed", !.err = TRUE]
    BY <1>1 DEF Interrupted
  <2>2. i \in CopyType /\ i.st = c.st /\ i.snap = c.snap /\ i.ver = c.ver /\ i.ret = "failed"
    BY <2>1, Zenon DEF CopyType, RetentionStates
  <2> HIDE DEF i
  <2>3. c.st = "succeeded"
    BY <1>1, Zenon DEF verifiedCopy
  <2>4. new = i
    BY <2>2, <2>3, Zenon
  <2> HIDE DEF new
  <2> QED
    BY <2>2, <2>3, <2>4, <1>1, Zenon DEF CopyOK, Quiet, verifiedCopy, i, new
<1>2. CASE ~(verifiedCopy(c) /\ c.ret \in {"pending", "running"}) /\ c.st \notin {"running", "pending"}
  <2>1. new = c
    BY <1>2, Zenon DEF Interrupted
  <2>2. c.st \in CopyStates
    BY CopyFields, Zenon
  <2> HIDE DEF new
  <2> QED
    BY <2>1, <2>2, <1>2, Zenon DEF CopyOK, Quiet, verifiedCopy, CopyStates, new
<1>3. CASE c.st \in {"running", "pending"}
  <2>1. i = c /\ ~verifiedCopy(c)
    BY <1>3, Zenon DEF Interrupted, verifiedCopy
  <2>2. new = [c EXCEPT !.st = "failed"]
    BY <2>1, <1>3, Zenon
  <2>3. new \in CopyType /\ new.st = "failed" /\ new.snap = c.snap /\ new.ver = c.ver /\ new.ret = c.ret
    BY <2>2, Zenon DEF CopyType, CopyStates
  <2> HIDE DEF new
  <2> QED
    BY <2>1, <2>3, Zenon DEF CopyOK, Quiet, verifiedCopy, new
<1> QED
  BY <1>1, <1>2, <1>3, Zenon

(* Reconcile leaves no run running. *)
LEMMA RunReconciled ==
  ASSUME NEW run \in RunType, RunOK(run)
  PROVE  /\ Reconciled(run) \in RunType /\ RunOK(Reconciled(run)) /\ Reconciled(run).state # "running"
         /\ \A d \in Dests : /\ Reconciled(run).copies[d].ver = run.copies[d].ver
                             /\ verifiedCopy(run.copies[d]) => verifiedCopy(Reconciled(run).copies[d])
<1> DEFINE Of(c) == LET i == Interrupted(c) IN IF i.st \in {"running", "pending"} THEN [i EXCEPT !.st = "failed"] ELSE i
           copies == [d \in Dests |-> Of(run.copies[d])]
           capture == IF run.capture = "succeeded" THEN run.capture ELSE "failed"
           new == [run EXCEPT !.state = "failed", !.capture = capture, !.copies = copies]
<1>1. CASE run.state # "running"
  BY <1>1, Zenon DEF Reconciled
<1>2. CASE run.state = "running"
  <2>1. Reconciled(run) = new
    BY <1>2, Zenon DEF Reconciled
  <2>2. \A d \in Dests : run.copies[d] \in CopyType /\ CopyOK(run.copies[d])
    BY RunFields, Zenon DEF RunOK
  <2>3. \A d \in Dests : /\ Of(run.copies[d]) \in CopyType /\ CopyOK(Of(run.copies[d])) /\ Quiet(Of(run.copies[d]))
                         /\ Of(run.copies[d]).ver = run.copies[d].ver
                         /\ verifiedCopy(run.copies[d]) => verifiedCopy(Of(run.copies[d]))
    BY <2>2, CopyReconciled, Zenon
  <2> HIDE DEF Of
  <2>4. copies \in [Dests -> CopyType] /\ \A d \in Dests : copies[d] = Of(run.copies[d])
    BY <2>3, Zenon
  <2>5. capture \in {"pending", "running", "succeeded", "failed"}
    OBVIOUS
  <2> HIDE DEF copies, capture
  <2>6. new \in RunType /\ new.state = "failed" /\ new.copies = copies
    BY <2>4, <2>5, Zenon DEF RunType
  <2> HIDE DEF new
  <2>7. \A d \in Dests : /\ CopyOK(new.copies[d]) /\ Quiet(new.copies[d]) /\ new.copies[d].ver = run.copies[d].ver
                         /\ verifiedCopy(run.copies[d]) => verifiedCopy(new.copies[d])
    BY <2>3, <2>4, <2>6, Zenon
  <2>8. RunOK(new)
    BY <2>6, <2>7, Zenon DEF RunOK, RunAtRest
  <2> QED
    BY <2>1, <2>6, <2>7, <2>8, Zenon
<1> QED
  BY <1>1, <1>2, Zenon

(* A restart at any point: the process comes back with what the database has, reconciled. *)
LEMMA RestartKeepsInv ==
  ASSUME Inv, Restart
  PROVE  Inv' /\ VerifiedIsKept
<1>1. /\ StateType /\ StateInv /\ WorldType
      /\ runs' = [r \in Runs |-> Reconciled(saved.runs[r])] /\ points' = saved.points
      /\ saved' = [runs |-> runs', points |-> points'] /\ UNCHANGED <<staging, plan, expired, paused, snaps>>
      /\ copier' = [j \in Jobs |-> [d \in Dests |-> "none"]]
      /\ reserved' = [d \in Dests |-> {}] /\ leases' = [j \in Jobs |-> {}] /\ reads' = [d \in Dests |-> 0]
  BY Zenon DEF Inv, TypeOK, Restart, outside
<1>2. /\ saved.runs \in [Runs -> RunType] /\ saved.points \in PointsType
      /\ \A r \in Runs : saved.runs[r] \in RunType /\ RunOK(saved.runs[r])
  BY <1>1, Zenon DEF StateType, StateInv
<1>3. \A r \in Runs : /\ runs'[r] \in RunType /\ RunOK(runs'[r]) /\ runs'[r].state # "running"
                      /\ \A d \in Dests : /\ runs'[r].copies[d].ver = saved.runs[r].copies[d].ver
                                          /\ verifiedCopy(saved.runs[r].copies[d]) => verifiedCopy(runs'[r].copies[d])
  BY <1>1, <1>2, RunReconciled, Zenon
<1>4. runs' \in [Runs -> RunType] /\ points' \in PointsType
  BY <1>1, <1>2, <1>3, Zenon
<1>5. saved'.runs = runs' /\ saved'.points = points'
  BY <1>1, RowFields, Zenon
<1>6. StateType'
  BY <1>1, <1>4, Zenon DEF StateType
<1>7. StateInv' /\ VerifiedIsKept
  <2>1. \A r \in Runs : RunOK(runs'[r]) /\ RunOK(saved'.runs[r])
    BY <1>3, <1>5, Zenon
  <2>2. \A r \in Runs, d \in Dests : runs'[r].copies[d].ver => r <= points'[d]
    BY <1>1, <1>3, Zenon DEF StateInv, EvidenceOK
  <2>3. \A d \in Dests : points'[d] # 0 => snaps'[d][points'[d]].complete > 0
    BY <1>1, Zenon DEF StateInv, PointOK
  <2>4. NoDuplicateSnapshot' /\ KeptOK' /\ VerifiedIsKept
    BY <1>1, <1>3, <1>5, Zenon DEF StateInv, NoDuplicateSnapshot, KeptOK, VerifiedIsKept
  <2>5. PointOK(points)' /\ PointOK(saved.points)' /\ EvidenceOK(runs, points)' /\ EvidenceOK(saved.runs, saved.points)'
    BY <2>2, <2>3, <1>5, Zenon DEF PointOK, EvidenceOK
  <2>6. (\A r \in Runs : RunOK(runs[r]) /\ RunOK(saved.runs[r]))'
    BY <2>1, Zenon DEF RunOK, RunAtRest, CopyOK, Quiet, Untouched, verifiedCopy
  <2> QED
    BY <2>4, <2>5, <2>6, Zenon DEF StateInv
<1>8. work' \in [Jobs -> WorkType] /\ \A j \in Jobs : work'[j].pc \in {"none", "over"}
  <2>1. work' = [j \in Jobs |-> IF work[j].pc = "none" THEN NoWork ELSE [work[j] EXCEPT !.pc = "over"]]
    BY Zenon DEF Restart
  <2>2. \A j \in Jobs : work[j] \in WorkType
    BY <1>1, Zenon DEF WorldType
  <2>3. NoWork \in WorkType /\ NoWork.pc = "none"
    BY DEF NoWork, WorkType
  <2>4. \A j \in Jobs : [work[j] EXCEPT !.pc = "over"] \in WorkType /\ [work[j] EXCEPT !.pc = "over"].pc = "over"
    BY <2>2, Zenon DEF WorkType
  <2> QED
    BY <2>1, <2>3, <2>4, Zenon
<1>9. bad' \in [crashes : Nat, store : Nat]
  BY <1>1 DEF Restart, WorldType
<1>10. WorldType'
  BY <1>1, <1>8, <1>9, Zenon DEF WorldType, CopierType
<1>11. ReservedInv' /\ ForgetInv'
  BY <1>1, <1>8, Zenon DEF ReservedInv, ForgetInv, Holding, Busy
<1>12. JobInv'
  <2>1. RunHasJob'
    BY <1>3, Zenon DEF RunHasJob, Running
  <2>2. OneJobPerRun'
    BY <1>8, Zenon DEF OneJobPerRun, Busy
  <2>3. \A j \in Jobs : JobOK(j)'
    BY ONLY <1>8, Zenon DEF JobOK, Holding, Busy
  <2> QED
    BY <2>1, <2>2, <2>3, Zenon DEF JobInv
<1> QED
  BY <1>6, <1>7, <1>10, <1>11, <1>12, Zenon DEF Inv, TypeOK

(* Nothing has been started. *)
LEMMA InvInit == Init => Inv
<1> SUFFICES ASSUME Init PROVE Inv
  BY Zenon
<1>1. /\ \A r \in Runs : runs[r] = NoRun
      /\ \A d \in Dests : points[d] = 0 /\ reserved[d] = {} /\ reads[d] = 0
      /\ \A j \in Jobs : work[j] = NoWork /\ \A d \in Dests : copier[j][d] = "none"
      /\ \A d \in Dests, r \in Runs : snaps[d][r] = [partial |-> 0, complete |-> 0]
      /\ saved = [runs |-> runs, points |-> points]
      /\ runs = [r \in Runs |-> NoRun] /\ points = [d \in Dests |-> 0]
  BY Zenon DEF Init
<1>2. saved.runs = runs /\ saved.points = points
  BY <1>1, RowFields, Zenon
<1>3. StateType
  BY <1>1, NothingStarted, Zenon DEF StateType, PointsType
<1>4. WorldType
  BY ZenonT(30) DEF Init, WorldType, SnapsType, NoWork, WorkType, CopierType
<1>5. StateInv
  <2>1. \A d \in Dests : NoRun.copies[d] = NoCopy /\ CopyOK(NoCopy) /\ ~NoCopy.ver /\ ~verifiedCopy(NoCopy) /\ NoCopy.st = "none"
    BY NothingStarted, Zenon DEF CopyOK, verifiedCopy
  <2>2. RunOK(NoRun)
    BY <2>1, NothingStarted, Zenon DEF RunOK
  <2>3. NoDuplicateSnapshot
    BY <1>1 DEF NoDuplicateSnapshot
  <2> QED
    BY <2>1, <2>2, <2>3, <1>1, <1>2, Zenon DEF StateInv, KeptOK, EvidenceOK, PointOK
<1>6. ReservedInv /\ ForgetInv
  BY <1>1 DEF ReservedInv, ForgetInv, NoWork, Holding, Busy
<1>7. JobInv
  <2>1. \A j \in Jobs : work[j].pc = "none"
    BY <1>1 DEF NoWork
  <2>2. \A j \in Jobs : JobOK(j)
    BY ONLY <2>1, Zenon DEF JobOK, Holding, Busy
  <2>3. OneJobPerRun
    BY <2>1, Zenon DEF OneJobPerRun, Busy
  <2>4. RunHasJob
    BY <1>1, NothingStarted, Zenon DEF RunHasJob, Running
  <2> QED
    BY <2>2, <2>3, <2>4, Zenon DEF JobInv
<1> QED
  BY <1>3, <1>4, <1>5, <1>6, <1>7, Zenon DEF Inv, TypeOK

(* Every step of the backup service, a stuttering one included, keeps the invariant and the evidence. *)
LEMMA InvNext == Inv /\ [Next]_vars => Inv' /\ VerifiedIsKept
<1> SUFFICES ASSUME Inv, [Next]_vars PROVE Inv' /\ VerifiedIsKept
  OBVIOUS
<1>1. CASE Next
  <2>1. ASSUME NEW j \in Jobs, JobStep(j) \/ \E r \in Runs : StartRun(j, r) \/ StartRetry(j, r) PROVE Inv' /\ VerifiedIsKept
    BY <2>1, JobStepKeepsInv, StartRunKeepsInv, StartRetryKeepsInv, Zenon
  <2>2. CASE (\E d \in Dests : beginRepositoryRead(d) \/ EndRead(d)) \/ (\E r \in Runs : Expire(r))
             \/ SavePlan \/ SavePolicy \/ cleanupExpired
    BY <2>2, OutsideStepKeepsInv, Zenon
  <2>3. CASE Restart
    BY <2>3, RestartKeepsInv, Zenon
  <2> QED
    BY <1>1, <2>1, <2>2, <2>3, Zenon DEF Next
<1>2. CASE UNCHANGED vars
  <2>1. /\ UNCHANGED <<runs, points, saved, snaps, work, copier, reserved, leases, bad>>
        /\ UNCHANGED <<plan, expired, paused, staging, reads>>
    BY <1>2, Zenon DEF vars, state, outside
  <2>2. /\ plan \in SUBSET Dests /\ expired \in SUBSET Runs /\ paused \in BOOLEAN /\ staging \in SUBSET Runs
        /\ reads \in [Dests -> Nat] /\ \A d \in Dests : reserved[d] # {} => reads[d] = 0
    BY DEF Inv, TypeOK, WorldType, ReservedInv
  <2> QED
    BY <2>1, <2>2, OutsideKeepsInv, Zenon
<1> QED
  BY <1>1, <1>2, Zenon

-----------------------------------------------------------------------------
(* What the invariant says. *)

(* A backup run has its repository to itself, its recovery set until it is done, one snapshot
   in each repository and a job that works for it, and a success is in the database. *)
RunsAreSound ==
  RepositoryIsExclusive /\ StagingIsThere /\ NoDuplicateSnapshot /\ RunHasJob /\ SuccessIsDurable

(* The properties of a state of the backup service follow. *)
LEMMA InvIsSound == Inv => RunsAreSound /\ CheckpointIsRetained
<1> SUFFICES ASSUME Inv PROVE RunsAreSound /\ CheckpointIsRetained
  BY Zenon
<1>1. RepositoryIsExclusive
  <2> SUFFICES ASSUME NEW d \in Dests
               PROVE  LET users == {j \in Jobs : copier[j][d] \in Active} IN
                      Cardinality(users) <= 1 /\ (users # {} => reads[d] = 0)
    BY Zenon DEF RepositoryIsExclusive
  <2> DEFINE users == {j \in Jobs : copier[j][d] \in Active}
  <2>1. \A j \in users : reserved[d] = {j}
    BY Zenon DEF Inv, ReservedInv, Active
  <2>2. users = {} \/ \E j \in Jobs : users = {j}
    BY <2>1
  <2>3. users # {} => reads[d] = 0
    BY <2>1, Zenon DEF Inv, ReservedInv
  <2> HIDE DEF users
  <2>4. Cardinality(users) <= 1
    BY <2>2, FS_EmptySet, FS_Singleton
  <2> QED
    BY <2>3, <2>4, Zenon DEF users
<1>2. StagingIsThere
  <2> SUFFICES ASSUME NEW j \in Jobs, NEW d \in Dests, copier[j][d] \in {"upload", "verify"} PROVE work[j].run \in staging
    BY Zenon DEF StagingIsThere
  <2> QED
    BY TransferOf, Zenon DEF CopierOK
<1>3. NoDuplicateSnapshot /\ RunHasJob /\ CheckpointIsRetained
  BY Zenon DEF Inv, StateInv, JobInv, PointOK, CheckpointIsRetained
<1>4. SuccessIsDurable
  <2> SUFFICES ASSUME NEW j \in Jobs, work[j].pc = "finish", work[j].ok, NEW d \in Dests
               PROVE  LET c == saved.runs[work[j].run].copies[d] IN
                      c.st = "none" \/ (verifiedCopy(c) /\ c.ret \in {"succeeded", "skipped"})
    BY Zenon DEF SuccessIsDurable
  <2>1. Good(saved.runs[work[j].run].copies[d])
    BY Zenon DEF Inv, JobInv, JobOK
  <2> QED
    BY <2>1, Zenon DEF Good
<1> QED
  BY <1>1, <1>2, <1>3, <1>4, Zenon DEF RunsAreSound

(* Only SavePlan touches the assignments, and it refuses while anything is reserved or read. *)
LEMMA PlanIsPinned == Inv /\ [Next]_vars => ConfigurationIsPinned
<1> SUFFICES ASSUME Inv, [Next]_vars, plan' # plan
             PROVE  (\A j \in Jobs : work[j].pc \in {"none", "over"}) /\ \A d \in Dests : reads[d] = 0
  BY DEF ConfigurationIsPinned
<1>1. SavePlan
  <2>1. ASSUME NEW j \in Jobs, JobStep(j) \/ \E r \in Runs : StartRun(j, r) \/ StartRetry(j, r) PROVE plan' = plan
    <3>1. ASSUME NEW d \in Dests, CopyStep(j, d) PROVE plan' = plan
      BY <3>1, ZenonT(30) DEF CopyStep, BeginCopy, upload, verifyRecoveryObjects, VerifyFails, FailCopy, executeRetention, retain,
         RecordRetention, releaseCompletedRepository, update, outside
    <3>2. ASSUME NEW r \in Runs, StartRun(j, r) \/ StartRetry(j, r) PROVE plan' = plan
      BY <3>2, Zenon DEF StartRun, StartRetry, Admit, outside
    <3> QED
      BY <2>1, <3>1, <3>2, ZenonT(30) DEF JobStep, BeginCapture, Capture, CaptureFails, ReplaceResources, EndTransfers, SaveRun, RemoveStage,
         finish, releaseRepositories, outside
  <2>2. (\E d \in Dests : beginRepositoryRead(d) \/ EndRead(d)) \/ (\E r \in Runs : Expire(r))
        \/ SavePolicy \/ cleanupExpired \/ Restart \/ UNCHANGED vars => plan' = plan
    BY Zenon DEF beginRepositoryRead, EndRead, Expire, SavePolicy, cleanupExpired, Restart, vars, outside
  <2> QED
    BY <2>1, <2>2, Zenon DEF Next
<1>2. \A d \in Dests : reserved[d] = {} /\ reads[d] = 0
  BY <1>1 DEF SavePlan, configurationBusyLocked, Inv, TypeOK, WorldType
<1>3. \A j \in Jobs : work[j].pc \notin Holding
  BY <1>2, Zenon DEF Inv, ReservedInv
<1>4. \A j \in Jobs : work[j].pc \in Holding \cup {"none", "over"}
  BY DEF Inv, TypeOK, WorldType, WorkType
<1> QED
  BY <1>2, <1>3, <1>4, Zenon

(* Every variable of the backup service keeps its type. *)
THEOREM TypeCorrect == Spec => []TypeOK
<1>1. Inv => TypeOK
  BY DEF Inv
<1> QED
  BY InvInit, InvNext, <1>1, PTL DEF Spec

(* However runs, retries, failures, interrupted uploads, retention and restarts interleave, the
   snapshot that the checkpoint of a destination stands for is in its repository: retain never
   deletes it, and a restart never goes back to one that has been deleted. *)
THEOREM CheckpointRetained == Spec => []CheckpointIsRetained
BY InvInit, InvNext, InvIsSound, PTL DEF Spec

(* For any runs, jobs and destinations: a repository has one user, a transfer its recovery set, a run
   one snapshot and a job, a success is in the database, evidence is never lost and the assignments
   are pinned. *)
THEOREM BackupSound == Spec => BackupIsSound
<1>1. Spec => []RunsAreSound
  BY InvInit, InvNext, InvIsSound, PTL DEF Spec
<1>2. Spec => [][VerifiedIsKept /\ ConfigurationIsPinned]_vars
  BY InvInit, InvNext, PlanIsPinned, PTL DEF Spec
<1> QED
  BY <1>1, <1>2, PTL DEF BackupIsSound, RunsAreSound
=============================================================================
