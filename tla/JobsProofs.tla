----------------------------- MODULE JobsProofs -----------------------------
(***************************************************************************)
(* Proofs about the job service, for any set of jobs, stacks and           *)
(* repositories, any requests and any number of failures: of the service   *)
(* alone first, then together with the self-update helper, a second        *)
(* process that writes its rows.                                           *)
(***************************************************************************)
EXTENDS SelfUpdate, TLAPS

-----------------------------------------------------------------------------
(* Resources. *)

(* The conflict matrix reads the same from both sides, as ResourcesConflict *)
(* means it to.                                                             *)
LEMMA ConflictSymmetric ==
    ASSUME NEW r, NEW s, ResourcesConflict(r, s)
    PROVE  ResourcesConflict(s, r)
BY DEF ResourcesConflict

(* normalizeResources yields resources.                                     *)
LEMMA NormalizeType ==
    ASSUME NEW stackID \in Stacks \cup {NoID}, NEW requested \in SUBSET Resource
    PROVE  normalizeResources(stackID, requested) \in SUBSET Resource
<1>1. stackID # NoID => StackResource(stackID) \in Resource
  BY DEF StackResource, Resource
<1>2. QED
  BY <1>1 DEF normalizeResources

(* A request for something is never normalised to nothing: the global       *)
(* resource survives the pruning it causes.                                 *)
LEMMA NormalizeNonEmpty ==
    ASSUME NEW requested \in SUBSET Resource, requested # {}
    PROVE  normalizeResources(NoID, requested) # {}
BY DEF normalizeResources

(* A job started for a stack owns that stack unless it owns the host.       *)
LEMMA NormalizeKeepsStack ==
    ASSUME NEW stackID \in Stacks \cup {NoID}, stackID # NoID, NEW requested \in SUBSET Resource
    PROVE  {StackResource(stackID), GlobalResource} \cap normalizeResources(stackID, requested) # {}
BY DEF normalizeResources

-----------------------------------------------------------------------------
(* The locks.  LockInv is the part of the invariant the three operations on *)
(* the maps keep.                                                           *)

LockType ==
    /\ lockedByResource \in [Resource -> Jobs \cup {NoJob}]
    /\ resourcesByJob \in [Jobs -> SUBSET Resource]
    /\ drainingJobID \in Jobs \cup {NoJob}

LockInv == LockType /\ LocksAgree /\ NoConflictingHolders /\ BarrierExclusive

(* lockMany, called for a job without a lease.                              *)
LEMMA LockManyKeepsLockInv ==
    ASSUME LockInv, NEW j \in Jobs, resourcesByJob[j] = {},
           NEW R \in SUBSET Resource, R # {}, NEW d \in BOOLEAN,
           lockMany(j, R, d)
    PROVE  LockInv' /\ (drainingJobID = NoJob)
<1> USE JobsAssumption DEF LockInv, LockType
<1>0. drainingJobID = NoJob
  BY DEF lockMany, BarrierExclusive
<1>1. LockType'
  BY DEF lockMany
<1>2. \A k \in Jobs \ {j} : resourcesByJob'[k] = resourcesByJob[k]
  BY DEF lockMany
<1>3. resourcesByJob'[j] = R
  BY DEF lockMany
<1>4. \A r \in R : lockedByResource[r] \in {NoJob, j}
  <2> SUFFICES ASSUME NEW r \in R, lockedByResource[r] \notin {NoJob, j} PROVE FALSE
    OBVIOUS
  <2>1. ~ResourcesConflict(r, r)
    BY DEF lockMany, NoOtherConflict
  <2> QED
    BY <2>1 DEF ResourcesConflict
<1>5. LocksAgree'
  BY <1>2, <1>3, <1>4 DEF lockMany, LocksAgree
<1>6. \A k \in Jobs \ {j} : \A r \in R, s \in resourcesByJob[k] : ~ResourcesConflict(r, s)
  BY DEF lockMany, NoOtherConflict, LocksAgree
<1>7. NoConflictingHolders'
  BY <1>2, <1>3, <1>6, ConflictSymmetric DEF NoConflictingHolders
<1>8. BarrierExclusive'
  BY <1>0, <1>2, <1>3 DEF lockMany, BarrierExclusive, LocksAgree
<1> QED
  BY <1>0, <1>1, <1>5, <1>7, <1>8

(* unlockAll, called for any job.                                           *)
LEMMA UnlockAllKeepsLockInv ==
    ASSUME LockInv, NEW j \in Jobs, unlockAll(j)
    PROVE  LockInv'
<1> USE JobsAssumption DEF LockInv, LockType
<1>1. LockType'
  BY DEF unlockAll
<1>2. \A k \in Jobs : resourcesByJob'[k] = IF k = j THEN {} ELSE resourcesByJob[k]
  BY DEF unlockAll
<1>3. LocksAgree'
  BY <1>2 DEF unlockAll, LocksAgree
<1>4. NoConflictingHolders'
  BY <1>2 DEF NoConflictingHolders
<1>5. BarrierExclusive'
  BY <1>2 DEF unlockAll, BarrierExclusive
<1> QED
  BY <1>1, <1>3, <1>4, <1>5

(* ReplaceResources, which swaps one lease for another.                     *)
LEMMA ReplaceKeepsLockInv ==
    ASSUME LockInv, NEW j \in Jobs, NEW requested \in SUBSET Resource, requested # {},
           ReplaceResources(j, requested)
    PROVE  LockInv'
<1> USE JobsAssumption DEF LockInv, LockType
<1> DEFINE R == normalizeResources(NoID, requested)
<1>0. R \in SUBSET Resource /\ R # {}
  BY NormalizeType, NormalizeNonEmpty
<1> HIDE DEF R
<1>1. /\ resourcesByJob[j] # {}
      /\ drainingJobID \in {NoJob, j}
      /\ NoOtherConflict(j, R)
      /\ lockedByResource' =
              [r \in Resource |-> IF r \in R THEN j
                                  ELSE IF r \in resourcesByJob[j] /\ lockedByResource[r] = j THEN NoJob
                                  ELSE lockedByResource[r]]
      /\ resourcesByJob' = [resourcesByJob EXCEPT ![j] = R]
      /\ drainingJobID' = IF drainingJobID = j THEN NoJob ELSE drainingJobID
  BY DEF ReplaceResources, R
<1>2. LockType'
  BY <1>0, <1>1
<1>3. \A k \in Jobs : resourcesByJob'[k] = IF k = j THEN R ELSE resourcesByJob[k]
  BY <1>1
<1>4. \A r \in R : lockedByResource[r] \in {NoJob, j}
  <2> SUFFICES ASSUME NEW r \in R, lockedByResource[r] \notin {NoJob, j} PROVE FALSE
    OBVIOUS
  <2>1. ~ResourcesConflict(r, r)
    BY <1>0, <1>1 DEF NoOtherConflict
  <2> QED
    BY <2>1 DEF ResourcesConflict
<1>5. LocksAgree'
  BY <1>0, <1>1, <1>3, <1>4 DEF LocksAgree
<1>6. \A k \in Jobs \ {j} : \A r \in R, s \in resourcesByJob[k] : ~ResourcesConflict(r, s)
  BY <1>0, <1>1 DEF NoOtherConflict, LocksAgree
<1>7. NoConflictingHolders'
  BY <1>3, <1>6, ConflictSymmetric DEF NoConflictingHolders
<1>8. BarrierExclusive'
  BY <1>0, <1>1, <1>3 DEF BarrierExclusive
<1> QED
  BY <1>2, <1>5, <1>7, <1>8

-----------------------------------------------------------------------------
(* The inductive invariant.  Beside the types and the locks it says which   *)
(* phases of a worker come with a lease, which rows may be active without   *)
(* one, that a committed cancellation has left "running" behind, and that   *)
(* only a self-update drains.                                               *)

Leased(j) ==
    /\ resourcesByJob[j] # {}
    /\ jobStack[j] # NoID =>
          {StackResource(jobStack[j]), GlobalResource} \cap resourcesByJob[j] # {}

WorkerInv ==
    \A j \in Jobs :
        /\ worker[j] \in {"none", "locked"} => jobState[j] = "absent"
        /\ worker[j] = "none" => resourcesByJob[j] = {} /\ jobStack[j] = NoID
        /\ worker[j] \in {"locked", "running", "external"} => Leased(j)
        /\ worker[j] = "finishing" => ~Active(j)

StartupInv ==
    /\ Serving => pending = {}
    /\ ~Serving => \A j \in Jobs : worker[j] \in {"none", "done"}
    /\ process # "down" => \A j \in Jobs : Active(j) => Leased(j) \/ j \in pending \cup abandoned

CancelInv ==
    \A j \in Jobs : j \in interrupted \/ cancelCall[j] = "committed" =>
        jobState[j] \notin {"absent", "running"}

BarrierInv == drainingJobID \in selfUpdate \cup {NoJob}

Inv == TypeOK /\ LockInv /\ WorkerInv /\ StartupInv /\ CancelInv /\ BarrierInv

(* Initial states satisfy the invariant.                                    *)
LEMMA InvInit == Init => Inv
<1> SUFFICES ASSUME Init PROVE Inv
  OBVIOUS
<1> USE JobsAssumption DEF Init
<1>1. TypeOK
  BY DEF TypeOK, WorkerPhases
<1>2. LockInv
  BY DEF LockInv, LockType, LocksAgree, NoConflictingHolders, BarrierExclusive
<1>3. WorkerInv /\ StartupInv /\ CancelInv /\ BarrierInv
  BY DEF WorkerInv, StartupInv, CancelInv, BarrierInv, Serving, Active, ActiveStates
<1> QED
  BY <1>1, <1>2, <1>3 DEF Inv

(* A step that leaves the maps alone keeps LockInv.                         *)
LEMMA UnchangedKeepsLockInv == LockInv /\ UNCHANGED locks => LockInv'
BY Zenon DEF LockInv, LockType, LocksAgree, NoConflictingHolders, BarrierExclusive, locks

(* Every step of every goroutine, of startup and of the process keeps the   *)
(* invariant.                                                               *)
LEMMA InvNext == Inv /\ [Next]_vars => Inv'
<1> SUFFICES ASSUME Inv, [Next]_vars PROVE Inv'
  OBVIOUS
<1> USE JobsAssumption
<1> USE DEF Inv, locks, tasks, rows, startup, faults
<1>1. ASSUME NEW j \in Jobs, NEW q \in Requests, Start(j, q) PROVE Inv'
  <2> DEFINE R == normalizeResources(q.stackID, q.resources)
  <2>0. /\ R \in SUBSET Resource /\ R # {}
        /\ q.stackID \in Stacks \cup {NoID}
        /\ q.stackID # NoID => {StackResource(q.stackID), GlobalResource} \cap R # {}
    BY NormalizeType, NormalizeKeepsStack DEF Request
  <2>2. lockMany(j, R, FALSE)
    BY <1>1, Zenon DEF Start
  <2> HIDE DEF R
  <2>1. LockInv'
    BY <1>1, <2>0, <2>2, LockManyKeepsLockInv, Zenon DEF Start, WorkerInv
  <2>3. TypeOK'
    BY <1>1, <2>0, <2>2 DEF Start, lockMany, TypeOK, WorkerPhases, ActiveStates, TerminalStates
  <2>4. WorkerInv'
    BY <1>1, <2>0, <2>2 DEF Start, lockMany, WorkerInv, StartupInv, CancelInv, Leased, Active, Serving, ActiveStates, TerminalStates, TypeOK
  <2>5. StartupInv'
    BY <1>1, <2>0, <2>2 DEF Start, lockMany, WorkerInv, StartupInv, CancelInv, Leased, Active, Serving, ActiveStates, TerminalStates, TypeOK
  <2>6. CancelInv'
    BY <1>1, <2>0, <2>2 DEF Start, lockMany, WorkerInv, StartupInv, CancelInv, Leased, Active, Serving, ActiveStates, TerminalStates, TypeOK
  <2>7. BarrierInv'
    BY <1>1, <2>0, <2>2 DEF Start, lockMany, BarrierInv
  <2> QED
    BY <2>1, <2>3, <2>4, <2>5, <2>6, <2>7
<1>2. ASSUME NEW j \in Jobs, StartDraining(j) PROVE Inv'
  <2> DEFINE R == normalizeResources(NoID, {SelfUpdateResource})
  <2>00. SelfUpdateResource \in Resource
    BY DEF Resource, SelfUpdateResource, HostKinds
  <2>01. {SelfUpdateResource} \in SUBSET Resource /\ NoID \in Stacks \cup {NoID}
    BY <2>00
  <2>0. R \in SUBSET Resource /\ R # {}
    BY <2>01, NormalizeType, NormalizeNonEmpty
  <2>2. lockMany(j, R, TRUE)
    BY <1>2, Zenon DEF StartDraining
  <2> HIDE DEF R
  <2>1. LockInv'
    BY <1>2, <2>0, <2>2, LockManyKeepsLockInv, Zenon DEF StartDraining, WorkerInv
  <2>3. TypeOK'
    BY <1>2, <2>0, <2>2, <2>1, Zenon DEF StartDraining, lockMany, TypeOK, WorkerPhases, ActiveStates, TerminalStates, LockInv, LockType
  <2>4. WorkerInv'
    BY <1>2, <2>0, <2>2, SMTT(30) DEF StartDraining, lockMany, WorkerInv, StartupInv, CancelInv, Leased, Active, Serving, ActiveStates, TerminalStates, TypeOK
  <2>5. StartupInv'
    BY <1>2, <2>0, <2>2 DEF StartDraining, lockMany, WorkerInv, StartupInv, CancelInv, Leased, Active, Serving, ActiveStates, TerminalStates, TypeOK
  <2>6. CancelInv'
    BY <1>2, <2>0, <2>2, SMTT(30) DEF StartDraining, lockMany, WorkerInv, StartupInv, CancelInv, Leased, Active, Serving, ActiveStates, TerminalStates, TypeOK
  <2>7. BarrierInv'
    BY <1>2, <2>0, <2>2 DEF StartDraining, lockMany, BarrierInv
  <2> QED
    BY <2>1, <2>3, <2>4, <2>5, <2>6, <2>7, Zenon
<1>3. ASSUME NEW j \in Jobs, HandOff(j) PROVE Inv'
  <2>1. LockInv'
    BY <1>3, UnchangedKeepsLockInv DEF HandOff
  <2>3. TypeOK'
    BY <1>3, Zenon DEF HandOff, TypeOK, WorkerPhases, ActiveStates, TerminalStates
  <2>4. WorkerInv'
    BY <1>3, Zenon DEF HandOff, WorkerInv, StartupInv, CancelInv, Leased, Active, Serving, ActiveStates, TerminalStates, TypeOK
  <2>5. StartupInv'
    BY <1>3, Zenon DEF HandOff, WorkerInv, StartupInv, CancelInv, Leased, Active, Serving, ActiveStates, TerminalStates, TypeOK
  <2>6. CancelInv'
    BY <1>3 DEF HandOff, WorkerInv, StartupInv, CancelInv, Leased, Active, Serving, ActiveStates, TerminalStates, TypeOK
  <2>7. BarrierInv'
    BY <1>3 DEF HandOff, BarrierInv
  <2> QED
    BY <2>1, <2>3, <2>4, <2>5, <2>6, <2>7
<1>4. ASSUME NEW j \in Jobs, RegisterCancel(j) PROVE Inv'
  <2>1. LockInv'
    BY <1>4, UnchangedKeepsLockInv DEF RegisterCancel
  <2>3. TypeOK'
    BY <1>4, Zenon DEF RegisterCancel, TypeOK, WorkerPhases, ActiveStates, TerminalStates
  <2>4. WorkerInv'
    BY <1>4, Zenon DEF RegisterCancel, WorkerInv, StartupInv, CancelInv, Leased, Active, Serving, ActiveStates, TerminalStates, TypeOK
  <2>5. StartupInv'
    BY <1>4, Zenon DEF RegisterCancel, WorkerInv, StartupInv, CancelInv, Leased, Active, Serving, ActiveStates, TerminalStates, TypeOK
  <2>6. CancelInv'
    BY <1>4, Zenon DEF RegisterCancel, WorkerInv, StartupInv, CancelInv, Leased, Active, Serving, ActiveStates, TerminalStates, TypeOK
  <2>7. BarrierInv'
    BY <1>4 DEF RegisterCancel, BarrierInv
  <2> QED
    BY <2>1, <2>3, <2>4, <2>5, <2>6, <2>7
<1>5. ASSUME NEW j \in Jobs, NEW requested \in Replacements, ReplaceResources(j, requested) PROVE Inv'
  <2>0. requested \in SUBSET Resource /\ requested # {}
    OBVIOUS
  <2>1. LockInv'
    BY <1>5, <2>0, ReplaceKeepsLockInv
  <2>2. normalizeResources(NoID, requested) \in SUBSET Resource /\ normalizeResources(NoID, requested) # {}
    BY <2>0, NormalizeType, NormalizeNonEmpty, SMTT(30)
  <2>3. TypeOK'
    BY <1>5, <2>2, SMTT(30) DEF ReplaceResources, TypeOK, WorkerPhases, ActiveStates, TerminalStates
  <2>4. WorkerInv'
    BY <1>5, <2>2, SMTT(30) DEF ReplaceResources, WorkerInv, StartupInv, CancelInv, Leased, Active, Serving, ActiveStates, TerminalStates, TypeOK
  <2>5. StartupInv'
    BY <1>5, <2>2, SMTT(30) DEF ReplaceResources, WorkerInv, StartupInv, CancelInv, Leased, Active, Serving, ActiveStates, TerminalStates, TypeOK
  <2>6. CancelInv'
    BY <1>5, <2>2, SMTT(30) DEF ReplaceResources, WorkerInv, StartupInv, CancelInv, Leased, Active, Serving, ActiveStates, TerminalStates, TypeOK
  <2>7. BarrierInv'
    BY <1>5, <2>2 DEF ReplaceResources, BarrierInv
  <2> QED
    BY <2>1, <2>3, <2>4, <2>5, <2>6, <2>7
<1>6. ASSUME NEW j \in Jobs, CancelRead(j) PROVE Inv'
  <2>1. LockInv'
    BY <1>6, UnchangedKeepsLockInv, Zenon DEF CancelRead
  <2>3. TypeOK'
    BY <1>6, Zenon DEF CancelRead, TypeOK, WorkerPhases, ActiveStates, TerminalStates
  <2>4. WorkerInv'
    BY <1>6, Zenon DEF CancelRead, WorkerInv, StartupInv, CancelInv, Leased, Active, Serving, ActiveStates, TerminalStates, TypeOK
  <2>5. StartupInv'
    BY <1>6, Zenon DEF CancelRead, WorkerInv, StartupInv, CancelInv, Leased, Active, Serving, ActiveStates, TerminalStates, TypeOK
  <2>6. CancelInv'
    BY <1>6, Zenon DEF CancelRead, WorkerInv, StartupInv, CancelInv, Leased, Active, Serving, ActiveStates, TerminalStates, TypeOK
  <2>7. BarrierInv'
    BY <1>6 DEF CancelRead, BarrierInv
  <2> QED
    BY <2>1, <2>3, <2>4, <2>5, <2>6, <2>7
<1>7. ASSUME NEW j \in Jobs, CancelCommit(j) PROVE Inv'
  <2>1. LockInv'
    BY <1>7, UnchangedKeepsLockInv, Zenon DEF CancelCommit
  <2>3. TypeOK'
    BY <1>7, Zenon DEF CancelCommit, TypeOK, WorkerPhases, ActiveStates, TerminalStates
  <2>4. WorkerInv'
    BY <1>7, Zenon DEF CancelCommit, WorkerInv, StartupInv, CancelInv, Leased, Active, Serving, ActiveStates, TerminalStates, TypeOK
  <2>5. StartupInv'
    BY <1>7, Zenon DEF CancelCommit, WorkerInv, StartupInv, CancelInv, Leased, Active, Serving, ActiveStates, TerminalStates, TypeOK
  <2>6. CancelInv'
    BY <1>7, SMTT(30) DEF CancelCommit, WorkerInv, StartupInv, CancelInv, Leased, Active, Serving, ActiveStates, TerminalStates, TypeOK
  <2>7. BarrierInv'
    BY <1>7 DEF CancelCommit, BarrierInv
  <2> QED
    BY <2>1, <2>3, <2>4, <2>5, <2>6, <2>7
<1>8. ASSUME NEW j \in Jobs, CancelCommitError(j) PROVE Inv'
  <2>1. LockInv'
    BY <1>8, UnchangedKeepsLockInv, Zenon DEF CancelCommitError
  <2>3. TypeOK'
    BY <1>8 DEF CancelCommitError, TypeOK, WorkerPhases, ActiveStates, TerminalStates
  <2>4. WorkerInv'
    BY <1>8, Zenon DEF CancelCommitError, WorkerInv, StartupInv, CancelInv, Leased, Active, Serving, ActiveStates, TerminalStates, TypeOK
  <2>5. StartupInv'
    BY <1>8, Zenon DEF CancelCommitError, WorkerInv, StartupInv, CancelInv, Leased, Active, Serving, ActiveStates, TerminalStates, TypeOK
  <2>6. CancelInv'
    BY <1>8, SMTT(30) DEF CancelCommitError, WorkerInv, StartupInv, CancelInv, Leased, Active, Serving, ActiveStates, TerminalStates, TypeOK
  <2>7. BarrierInv'
    BY <1>8 DEF CancelCommitError, BarrierInv
  <2> QED
    BY <2>1, <2>3, <2>4, <2>5, <2>6, <2>7
<1>9. ASSUME NEW j \in Jobs, CancelFire(j) PROVE Inv'
  <2>1. LockInv'
    BY <1>9, UnchangedKeepsLockInv, Zenon DEF CancelFire
  <2>3. TypeOK'
    BY <1>9, Zenon DEF CancelFire, TypeOK, WorkerPhases, ActiveStates, TerminalStates
  <2>4. WorkerInv'
    BY <1>9, Zenon DEF CancelFire, WorkerInv, StartupInv, CancelInv, Leased, Active, Serving, ActiveStates, TerminalStates, TypeOK
  <2>5. StartupInv'
    BY <1>9 DEF CancelFire, WorkerInv, StartupInv, CancelInv, Leased, Active, Serving, ActiveStates, TerminalStates, TypeOK
  <2>6. CancelInv'
    BY <1>9, Zenon DEF CancelFire, WorkerInv, StartupInv, CancelInv, Leased, Active, Serving, ActiveStates, TerminalStates, TypeOK
  <2>7. BarrierInv'
    BY <1>9 DEF CancelFire, BarrierInv
  <2> QED
    BY <2>1, <2>3, <2>4, <2>5, <2>6, <2>7
<1>10. ASSUME NEW j \in Jobs, CreateJobWithInitialEvent(j) PROVE Inv'
  <2>1. LockInv'
    BY <1>10, UnchangedKeepsLockInv, Zenon DEF CreateJobWithInitialEvent
  <2>3. TypeOK'
    BY <1>10, Zenon DEF CreateJobWithInitialEvent, TypeOK, WorkerPhases, ActiveStates, TerminalStates
  <2>4. WorkerInv'
    BY <1>10, Zenon DEF CreateJobWithInitialEvent, WorkerInv, StartupInv, CancelInv, Leased, Active, Serving, ActiveStates, TerminalStates, TypeOK
  <2>5. StartupInv'
    BY <1>10, Zenon DEF CreateJobWithInitialEvent, WorkerInv, StartupInv, CancelInv, Leased, Active, Serving, ActiveStates, TerminalStates, TypeOK
  <2>6. CancelInv'
    BY <1>10, SMTT(30) DEF CreateJobWithInitialEvent, WorkerInv, StartupInv, CancelInv, Leased, Active, Serving, ActiveStates, TerminalStates, TypeOK
  <2>7. BarrierInv'
    BY <1>10 DEF CreateJobWithInitialEvent, BarrierInv
  <2> QED
    BY <2>1, <2>3, <2>4, <2>5, <2>6, <2>7
<1>11. ASSUME NEW j \in Jobs, CreateJobError(j) PROVE Inv'
  <2>1. LockInv'
    BY <1>11, UnlockAllKeepsLockInv, Zenon DEF CreateJobError
  <2>3. TypeOK'
    BY <1>11 DEF CreateJobError, unlockAll, TypeOK, WorkerPhases, ActiveStates, TerminalStates
  <2>4. WorkerInv'
    BY <1>11, Zenon DEF CreateJobError, unlockAll, WorkerInv, StartupInv, CancelInv, Leased, Active, Serving, ActiveStates, TerminalStates, TypeOK
  <2>5. StartupInv'
    BY <1>11, Zenon DEF CreateJobError, unlockAll, WorkerInv, StartupInv, CancelInv, Leased, Active, Serving, ActiveStates, TerminalStates, TypeOK
  <2>6. CancelInv'
    BY <1>11, SMTT(30) DEF CreateJobError, unlockAll, WorkerInv, StartupInv, CancelInv, Leased, Active, Serving, ActiveStates, TerminalStates, TypeOK
  <2>7. BarrierInv'
    BY <1>11 DEF CreateJobError, unlockAll, BarrierInv
  <2> QED
    BY <2>1, <2>3, <2>4, <2>5, <2>6, <2>7
<1>12. ASSUME NEW j \in Jobs, NEW outcome \in TerminalStates, Finish(j, outcome) PROVE Inv'
  <2>1. LockInv'
    BY <1>12, UnchangedKeepsLockInv, Zenon DEF Finish
  <2>3. TypeOK'
    BY <1>12, Zenon DEF Finish, TypeOK, WorkerPhases, ActiveStates, TerminalStates
  <2>4. WorkerInv'
    BY <1>12, Zenon DEF Finish, WorkerInv, StartupInv, CancelInv, Leased, Active, Serving, ActiveStates, TerminalStates, TypeOK
  <2>5. StartupInv'
    BY <1>12, Zenon DEF Finish, WorkerInv, StartupInv, CancelInv, Leased, Active, Serving, ActiveStates, TerminalStates, TypeOK
  <2>6. CancelInv'
    BY <1>12 DEF Finish, WorkerInv, StartupInv, CancelInv, Leased, Active, Serving, ActiveStates, TerminalStates, TypeOK
  <2>7. BarrierInv'
    BY <1>12 DEF Finish, BarrierInv
  <2> QED
    BY <2>1, <2>3, <2>4, <2>5, <2>6, <2>7
<1>13. ASSUME NEW j \in Jobs, FinishError(j) PROVE Inv'
  <2>1. LockInv'
    BY <1>13, UnchangedKeepsLockInv, Zenon DEF FinishError
  <2>3. TypeOK'
    BY <1>13 DEF FinishError, TypeOK, WorkerPhases, ActiveStates, TerminalStates
  <2>4. WorkerInv'
    BY <1>13, Zenon DEF FinishError, WorkerInv, StartupInv, CancelInv, Leased, Active, Serving, ActiveStates, TerminalStates, TypeOK
  <2>5. StartupInv'
    BY <1>13, Zenon DEF FinishError, WorkerInv, StartupInv, CancelInv, Leased, Active, Serving, ActiveStates, TerminalStates, TypeOK
  <2>6. CancelInv'
    BY <1>13, SMTT(30) DEF FinishError, WorkerInv, StartupInv, CancelInv, Leased, Active, Serving, ActiveStates, TerminalStates, TypeOK
  <2>7. BarrierInv'
    BY <1>13 DEF FinishError, BarrierInv
  <2> QED
    BY <2>1, <2>3, <2>4, <2>5, <2>6, <2>7
<1>14. ASSUME NEW j \in Jobs, Release(j) PROVE Inv'
  <2>1. LockInv'
    BY <1>14, UnlockAllKeepsLockInv, Zenon DEF Release
  <2>3. TypeOK'
    BY <1>14, Zenon DEF Release, unlockAll, TypeOK, WorkerPhases, ActiveStates, TerminalStates
  <2>4. WorkerInv'
    BY <1>14, Zenon DEF Release, unlockAll, WorkerInv, StartupInv, CancelInv, Leased, Active, Serving, ActiveStates, TerminalStates, TypeOK
  <2>5. StartupInv'
    BY <1>14, Zenon DEF Release, unlockAll, WorkerInv, StartupInv, CancelInv, Leased, Active, Serving, ActiveStates, TerminalStates, TypeOK
  <2>6. CancelInv'
    BY <1>14, SMTT(30) DEF Release, unlockAll, WorkerInv, StartupInv, CancelInv, Leased, Active, Serving, ActiveStates, TerminalStates, TypeOK
  <2>7. BarrierInv'
    BY <1>14, Zenon DEF Release, unlockAll, BarrierInv
  <2> QED
    BY <2>1, <2>3, <2>4, <2>5, <2>6, <2>7
<1>15. ASSUME NEW j \in Jobs, UnregisterCancel(j) PROVE Inv'
  <2>1. LockInv'
    BY <1>15, UnchangedKeepsLockInv, Zenon DEF UnregisterCancel
  <2>3. TypeOK'
    BY <1>15, Zenon DEF UnregisterCancel, TypeOK, WorkerPhases, ActiveStates, TerminalStates
  <2>4. WorkerInv'
    BY <1>15, Zenon DEF UnregisterCancel, WorkerInv, StartupInv, CancelInv, Leased, Active, Serving, ActiveStates, TerminalStates, TypeOK
  <2>5. StartupInv'
    BY <1>15, Zenon DEF UnregisterCancel, WorkerInv, StartupInv, CancelInv, Leased, Active, Serving, ActiveStates, TerminalStates, TypeOK
  <2>6. CancelInv'
    BY <1>15, SMTT(30) DEF UnregisterCancel, WorkerInv, StartupInv, CancelInv, Leased, Active, Serving, ActiveStates, TerminalStates, TypeOK
  <2>7. BarrierInv'
    BY <1>15 DEF UnregisterCancel, BarrierInv
  <2> QED
    BY <2>1, <2>3, <2>4, <2>5, <2>6, <2>7
<1>16. ASSUME NEW skipped \in SUBSET selfUpdate, ListInterrupted(skipped) PROVE Inv'
  <2>1. LockInv'
    BY <1>16, UnchangedKeepsLockInv, Zenon DEF ListInterrupted
  <2>3. TypeOK'
    BY <1>16, Zenon DEF ListInterrupted, TypeOK, WorkerPhases, ActiveStates, TerminalStates
  <2>4. WorkerInv'
    BY <1>16, Zenon DEF ListInterrupted, WorkerInv, StartupInv, CancelInv, Leased, Active, Serving, ActiveStates, TerminalStates, TypeOK
  <2>5. StartupInv'
    BY <1>16, Zenon DEF ListInterrupted, WorkerInv, StartupInv, CancelInv, Leased, Active, Serving, ActiveStates, TerminalStates, TypeOK
  <2>6. CancelInv'
    BY <1>16 DEF ListInterrupted, WorkerInv, StartupInv, CancelInv, Leased, Active, Serving, ActiveStates, TerminalStates, TypeOK
  <2>7. BarrierInv'
    BY <1>16 DEF ListInterrupted, BarrierInv
  <2> QED
    BY <2>1, <2>3, <2>4, <2>5, <2>6, <2>7
<1>17. ASSUME NEW j \in Jobs, reconcileInterruptedJob(j) PROVE Inv'
  <2>1. LockInv'
    BY <1>17, UnlockAllKeepsLockInv, Zenon DEF reconcileInterruptedJob
  <2>3. TypeOK'
    BY <1>17, SMTT(30) DEF reconcileInterruptedJob, unlockAll, TypeOK, WorkerPhases, ActiveStates, TerminalStates
  <2>4. WorkerInv'
    BY <1>17, SMTT(30) DEF reconcileInterruptedJob, unlockAll, WorkerInv, StartupInv, CancelInv, Leased, Active, Serving, ActiveStates, TerminalStates, TypeOK
  <2>5. StartupInv'
    BY <1>17, Zenon DEF reconcileInterruptedJob, unlockAll, WorkerInv, StartupInv, CancelInv, Leased, Active, Serving, ActiveStates, TerminalStates, TypeOK
  <2>6. CancelInv'
    BY <1>17, SMTT(30) DEF reconcileInterruptedJob, unlockAll, WorkerInv, StartupInv, CancelInv, Leased, Active, Serving, ActiveStates, TerminalStates, TypeOK
  <2>7. BarrierInv'
    BY <1>17 DEF reconcileInterruptedJob, unlockAll, BarrierInv
  <2> QED
    BY <2>1, <2>3, <2>4, <2>5, <2>6, <2>7
<1>18. ASSUME ReconcileError PROVE Inv'
  <2>1. LockInv'
    BY <1>18, UnchangedKeepsLockInv, Zenon DEF ReconcileError
  <2>3. TypeOK'
    BY <1>18 DEF ReconcileError, TypeOK, WorkerPhases, ActiveStates, TerminalStates
  <2>4. WorkerInv'
    BY <1>18, Zenon DEF ReconcileError, WorkerInv, StartupInv, CancelInv, Leased, Active, Serving, ActiveStates, TerminalStates, TypeOK
  <2>5. StartupInv'
    BY <1>18, Zenon DEF ReconcileError, WorkerInv, StartupInv, CancelInv, Leased, Active, Serving, ActiveStates, TerminalStates, TypeOK
  <2>6. CancelInv'
    BY <1>18 DEF ReconcileError, WorkerInv, StartupInv, CancelInv, Leased, Active, Serving, ActiveStates, TerminalStates, TypeOK
  <2>7. BarrierInv'
    BY <1>18 DEF ReconcileError, BarrierInv
  <2> QED
    BY <2>1, <2>3, <2>4, <2>5, <2>6, <2>7
<1>19. ASSUME Serve PROVE Inv'
  <2>1. LockInv'
    BY <1>19, UnchangedKeepsLockInv, Zenon DEF Serve
  <2>3. TypeOK'
    BY <1>19, Zenon DEF Serve, TypeOK, WorkerPhases, ActiveStates, TerminalStates
  <2>4. WorkerInv'
    BY <1>19, Zenon DEF Serve, WorkerInv, StartupInv, CancelInv, Leased, Active, Serving, ActiveStates, TerminalStates, TypeOK
  <2>5. StartupInv'
    BY <1>19, Zenon DEF Serve, WorkerInv, StartupInv, CancelInv, Leased, Active, Serving, ActiveStates, TerminalStates, TypeOK
  <2>6. CancelInv'
    BY <1>19 DEF Serve, WorkerInv, StartupInv, CancelInv, Leased, Active, Serving, ActiveStates, TerminalStates, TypeOK
  <2>7. BarrierInv'
    BY <1>19 DEF Serve, BarrierInv
  <2> QED
    BY <2>1, <2>3, <2>4, <2>5, <2>6, <2>7
<1>20. ASSUME BeginShutdown PROVE Inv'
  <2>1. LockInv'
    BY <1>20, UnchangedKeepsLockInv, Zenon DEF BeginShutdown
  <2>3. TypeOK'
    BY <1>20, SMTT(30) DEF BeginShutdown, TypeOK, WorkerPhases, ActiveStates, TerminalStates
  <2>4. WorkerInv'
    BY <1>20, SMTT(30) DEF BeginShutdown, WorkerInv, StartupInv, CancelInv, Leased, Active, Serving, ActiveStates, TerminalStates, TypeOK
  <2>5. StartupInv'
    BY <1>20, Zenon DEF BeginShutdown, WorkerInv, StartupInv, CancelInv, Leased, Active, Serving, ActiveStates, TerminalStates, TypeOK
  <2>6. CancelInv'
    BY <1>20 DEF BeginShutdown, WorkerInv, StartupInv, CancelInv, Leased, Active, Serving, ActiveStates, TerminalStates, TypeOK
  <2>7. BarrierInv'
    BY <1>20, SMTT(30) DEF BeginShutdown, BarrierInv
  <2> QED
    BY <2>1, <2>3, <2>4, <2>5, <2>6, <2>7
<1>21. ASSUME Exit PROVE Inv'
  <2>1. LockInv'
    BY <1>21, Zenon DEF Exit, LockInv, LockType, LocksAgree, NoConflictingHolders, BarrierExclusive
  <2>3. TypeOK'
    BY <1>21, SMTT(30) DEF Exit, TypeOK, WorkerPhases, ActiveStates, TerminalStates
  <2>4. WorkerInv'
    BY <1>21, SMTT(30) DEF Exit, WorkerInv, StartupInv, CancelInv, Leased, Active, Serving, ActiveStates, TerminalStates, TypeOK
  <2>5. StartupInv'
    BY <1>21, SMTT(30) DEF Exit, WorkerInv, StartupInv, CancelInv, Leased, Active, Serving, ActiveStates, TerminalStates, TypeOK
  <2>6. CancelInv'
    BY <1>21, Zenon DEF Exit, WorkerInv, StartupInv, CancelInv, Leased, Active, Serving, ActiveStates, TerminalStates, TypeOK
  <2>7. BarrierInv'
    BY <1>21, SMTT(30) DEF Exit, BarrierInv
  <2> QED
    BY <2>1, <2>3, <2>4, <2>5, <2>6, <2>7, Zenon
<1>22. CASE UNCHANGED vars
  <2>1. LockInv'
    BY <1>22, UnchangedKeepsLockInv, SMTT(30) DEF vars
  <2> QED
    BY <1>22, <2>1, Zenon DEF vars, WorkerInv, StartupInv, CancelInv, Leased, Active, Serving, ActiveStates, TerminalStates, TypeOK, BarrierInv
<1> QED
  BY <1>1, <1>2, <1>3, <1>4, <1>5, <1>6, <1>7, <1>8, <1>9, <1>10, <1>11, <1>12, <1>13, <1>14, <1>15, <1>16, <1>17, <1>18, <1>19, <1>20, <1>21, <1>22 DEF Next, JobStep, WorkerStep, CancelStep, StartupStep

(* Two active rows of one stack would need conflicting leases.              *)
LEMMA LeasesExclude == ASSUME Inv PROVE OneActiveJobPerStack
<1> SUFFICES ASSUME Serving, NEW j \in Jobs \ abandoned, NEW k \in Jobs \ abandoned,
                    Active(j), Active(k), jobStack[j] = jobStack[k], jobStack[j] # NoID, j # k
             PROVE  FALSE
  BY Zenon DEF OneActiveJobPerStack
<1>1. Leased(j) /\ Leased(k)
  BY Zenon DEF Inv, StartupInv, Serving
<1>2. PICK r \in {StackResource(jobStack[j]), GlobalResource} : r \in resourcesByJob[j]
  BY <1>1, Zenon DEF Leased
<1>3. PICK s \in {StackResource(jobStack[j]), GlobalResource} : s \in resourcesByJob[k]
  BY <1>1 DEF Leased
<1>4. ResourcesConflict(r, s)
  BY <1>2, <1>3 DEF ResourcesConflict, StackResource, GlobalResource, ExcludedBy, HostKinds
<1> QED
  BY <1>1, <1>2, <1>3, <1>4 DEF Inv, LockInv, NoConflictingHolders

(* The invariant implies what the service guarantees.                       *)
LEMMA InvSafe == Inv => ServiceIsSound
BY LeasesExclude DEF ServiceIsSound, Inv, LockInv, StartupInv, ActiveRowsHoldLeases, Leased, Serving, CancelInv, CancelDurableFirst, TypeOK

(* The types hold in every behaviour of the job service.                    *)
THEOREM TypeCorrect == Spec => []TypeOK
<1>1. Inv => TypeOK
  BY DEF Inv
<1> QED
  BY <1>1, InvInit, InvNext, PTL DEF Spec

(* The two maps of the service never disagree.                              *)
THEOREM MapsAgree == Spec => []LocksAgree
<1>1. Inv => LocksAgree
  BY DEF Inv, LockInv
<1> QED
  BY <1>1, InvInit, InvNext, PTL DEF Spec

(* Jobs that run at the same time never own conflicting resources.          *)
THEOREM MutualExclusion == Spec => []NoConflictingHolders
<1>1. Inv => NoConflictingHolders
  BY DEF Inv, LockInv
<1> QED
  BY <1>1, InvInit, InvNext, PTL DEF Spec

(* A standing drain barrier means no other job owns anything.               *)
THEOREM DrainExclusion == Spec => []BarrierExclusive
<1>1. Inv => BarrierExclusive
  BY SMTT(30) DEF Inv, LockInv
<1> QED
  BY <1>1, InvInit, InvNext, PTL DEF Spec

(* An active row is backed by a lease while requests are served, however    *)
(* many database calls fail and however often the process dies.             *)
THEOREM RowsAreLeased == Spec => []ActiveRowsHoldLeases
<1>1. Inv => ActiveRowsHoldLeases
  BY DEF Inv, StartupInv, ActiveRowsHoldLeases, Leased, Serving
<1> QED
  BY <1>1, InvInit, InvNext, PTL DEF Spec

(* Two active rows of one stack would need conflicting leases.              *)
THEOREM OneJobPerStack == Spec => []OneActiveJobPerStack
<1>1. Inv => OneActiveJobPerStack
  BY LeasesExclude
<1> QED
  BY <1>1, InvInit, InvNext, PTL DEF Spec

(* Cancel commits cancel_requested before it cancels the context.           *)
THEOREM CancelIsDurableFirst == Spec => []CancelDurableFirst
<1>1. Inv => CancelDurableFirst
  BY DEF Inv, CancelInv, CancelDurableFirst, TypeOK
<1> QED
  BY <1>1, InvInit, InvNext, PTL DEF Spec

(* All of it together, for any number of jobs, stacks and repositories.     *)
THEOREM ServiceHolds == Spec => []ServiceIsSound
BY InvSafe, InvInit, InvNext, PTL DEF Spec

(* What a step may do to a row's state.                                     *)
Forward(j) ==
    jobState'[j] # jobState[j] =>
        \/ jobState[j] = "absent" /\ jobState'[j] = "running"
        \/ jobState[j] = "running" /\ jobState'[j] = "cancel_requested"
        \/ jobState[j] \in ActiveStates /\ jobState'[j] \in TerminalStates

(* No step of the service reopens a finished job or takes a cancellation    *)
(* back.                                                                    *)
LEMMA StepMovesForward ==
    ASSUME Inv, [Next]_vars, NEW i \in Jobs
    PROVE  Forward(i)
<1> USE DEF Inv, Forward
<1>1. CASE UNCHANGED jobState
  BY <1>1, Zenon
<1>2. ASSUME NEW j \in Jobs, CreateJobWithInitialEvent(j) PROVE Forward(i)
  BY <1>2, Zenon DEF CreateJobWithInitialEvent, WorkerInv, TypeOK
<1>3. ASSUME NEW j \in Jobs, CancelCommit(j) PROVE Forward(i)
  BY <1>3, Zenon DEF CancelCommit, TypeOK
<1>4. ASSUME NEW j \in Jobs, NEW outcome \in TerminalStates, Finish(j, outcome) PROVE Forward(i)
  BY <1>4, Zenon DEF Finish, Active, TypeOK
<1>5. ASSUME NEW j \in Jobs, reconcileInterruptedJob(j) PROVE Forward(i)
  BY <1>5, SMTT(30) DEF reconcileInterruptedJob, Active, TypeOK, TerminalStates
<1>6. \/ UNCHANGED jobState
      \/ \E j \in Jobs :
            \/ CreateJobWithInitialEvent(j) \/ CancelCommit(j) \/ reconcileInterruptedJob(j)
            \/ \E outcome \in TerminalStates : Finish(j, outcome)
  BY ZenonT(30) DEF vars, rows, Next, JobStep, WorkerStep, CancelStep, StartupStep, Start, StartDraining, HandOff,
         RegisterCancel, ReplaceResources, CancelRead, CancelCommitError, CancelFire, CreateJobError,
         FinishError, Release, UnregisterCancel, ListInterrupted, ReconcileError, Serve, BeginShutdown, Exit
<1> QED
  BY <1>1, <1>2, <1>3, <1>4, <1>5, <1>6

(* No step reopens a finished job or takes a cancellation back.             *)
THEOREM RowsMoveForward == Spec => StateMovesForward
<1>1. Inv /\ [Next]_vars =>
        [\A j \in Jobs : jobState'[j] # jobState[j] =>
          \/ jobState[j] = "absent" /\ jobState'[j] = "running"
          \/ jobState[j] = "running" /\ jobState'[j] = "cancel_requested"
          \/ jobState[j] \in ActiveStates /\ jobState'[j] \in TerminalStates]_vars
  BY StepMovesForward, Zenon DEF Forward
<1> QED
  BY <1>1, InvInit, InvNext, PTL DEF Spec, StateMovesForward

(* Every step of the service is a step of Lease or changes no lease.        *)
LEMMA StepImplementsLease ==
    ASSUME Inv, [Next]_vars
    PROVE  [L!Next]_(L!vars)
<1> USE JobsAssumption DEF Inv, LockInv, LockType
<1>1. ASSUME NEW j \in Jobs, NEW q \in Requests, Start(j, q) PROVE L!Next
  <2> DEFINE R == normalizeResources(q.stackID, q.resources)
  <2>1. R \in (SUBSET Resource) \ {{}}
    BY NormalizeType, SMTT(30) DEF Request
  <2>2. lockMany(j, R, FALSE) /\ resourcesByJob[j] = {}
    BY <1>1, Zenon DEF Start, WorkerInv
  <2> HIDE DEF R
  <2>3. drainingJobID = NoJob
    BY <2>1, <2>2, LockManyKeepsLockInv, Zenon
  <2>4. L!Compatible(j, R)
    BY <2>1, <2>2 DEF lockMany, NoOtherConflict, LocksAgree, L!Compatible
  <2>5. L!Acquire(j, R)
    BY <2>2, <2>3, <2>4, Zenon DEF lockMany, L!Acquire
  <2> QED
    BY <2>1, <2>5, Zenon DEF L!Next
<1>2. ASSUME NEW j \in Jobs, StartDraining(j) PROVE L!Next
  <2> DEFINE R == normalizeResources(NoID, {SelfUpdateResource})
  <2>1. {SelfUpdateResource} \in SUBSET Resource
    BY DEF Resource, SelfUpdateResource, HostKinds
  <2>2. R \in (SUBSET Resource) \ {{}}
    BY <2>1, NormalizeType, NormalizeNonEmpty, SMTT(30)
  <2>3. lockMany(j, R, TRUE) /\ resourcesByJob[j] = {}
    BY <1>2, Zenon DEF StartDraining, WorkerInv
  <2> HIDE DEF R
  <2>4. drainingJobID = NoJob
    BY <2>2, <2>3, LockManyKeepsLockInv, Zenon
  <2>5. \A k \in Jobs : resourcesByJob[k] = {}
    BY <2>3 DEF lockMany, LocksAgree
  <2>6. L!AcquireBarrier(j, R)
    BY <2>3, <2>4, <2>5, Zenon DEF lockMany, L!AcquireBarrier
  <2> QED
    BY <2>2, <2>6, SMTT(30) DEF L!Next
<1>3. ASSUME NEW j \in Jobs, NEW requested \in Replacements, ReplaceResources(j, requested) PROVE L!Next
  <2> DEFINE R == normalizeResources(NoID, requested)
  <2>1. R \in (SUBSET Resource) \ {{}}
    BY NormalizeType, NormalizeNonEmpty, SMTT(30)
  <2>2. /\ resourcesByJob[j] # {}
        /\ drainingJobID \in {NoJob, j}
        /\ NoOtherConflict(j, R)
        /\ resourcesByJob' = [resourcesByJob EXCEPT ![j] = R]
        /\ drainingJobID' = IF drainingJobID = j THEN NoJob ELSE drainingJobID
        /\ j \notin selfUpdate
    BY <1>3, Zenon DEF ReplaceResources
  <2> HIDE DEF R
  <2>3. drainingJobID = NoJob
    BY <2>2, Zenon DEF BarrierInv
  <2>4. L!Compatible(j, R)
    BY <2>1, <2>2 DEF NoOtherConflict, LocksAgree, L!Compatible
  <2>5. L!Swap(j, R)
    BY <2>2, <2>3, <2>4, Zenon DEF L!Swap
  <2> QED
    BY <2>1, <2>5, Zenon DEF L!Next
<1>4. ASSUME NEW j \in Jobs, unlockAll(j) PROVE [L!Next]_(L!vars)
  <2>1. CASE resourcesByJob[j] # {}
    BY <1>4, <2>1, ZenonT(30) DEF unlockAll, L!Release, L!Next
  <2>2. CASE resourcesByJob[j] = {}
    BY <1>4, <2>2 DEF unlockAll, BarrierExclusive, L!vars
  <2> QED
    BY <2>1, <2>2
<1>5. CASE Exit
  BY <1>5, Zenon DEF Exit, L!Lose, L!Next
<1>6. \/ UNCHANGED <<resourcesByJob, drainingJobID>>
      \/ \E j \in Jobs :
            \/ \E q \in Requests : Start(j, q)
            \/ StartDraining(j)
            \/ \E requested \in Replacements : ReplaceResources(j, requested)
            \/ unlockAll(j)
      \/ Exit
  BY DEF vars, locks, Next, JobStep, WorkerStep, CancelStep, StartupStep, HandOff,
         RegisterCancel, CancelRead, CancelCommit, CancelCommitError, CancelFire, CreateJobWithInitialEvent,
         CreateJobError, Finish, FinishError, Release, UnregisterCancel, ListInterrupted,
         reconcileInterruptedJob, ReconcileError, Serve, BeginShutdown
<1> QED
  BY <1>1, <1>2, <1>3, <1>4, <1>5, <1>6, Zenon DEF L!vars

(* The maps implement the lease discipline: every step of the service is a  *)
(* step of Lease or changes no lease.                                       *)
THEOREM JobsImplementLease == Spec => ImplementsLease
<1>1. Init => L!Init
  BY Zenon DEF Init, L!Init
<1> QED
  BY <1>1, StepImplementsLease, InvInit, InvNext, PTL DEF Spec, ImplementsLease, L!Spec
-----------------------------------------------------------------------------
(* The service beside the helper: the inductive invariant. *)

(* A self-update keeps the barrier it was started with, and cannot be       *)
(* cancelled.                                                               *)
DrainInv ==
    \A j \in Jobs :
        /\ worker[j] = "none" => j \notin cancelByJob /\ cancelCall[j] = "none"
        /\ j \in selfUpdate => worker[j] # "none" /\ j \notin cancelByJob /\ cancelCall[j] = "none"
        /\ j \in selfUpdate /\ worker[j] \in {"locked", "running", "external"} => drainingJobID = j
        /\ j \in selfUpdate /\ worker[j] = "running" => jobState[j] = "running"
        /\ worker[j] = "external" => j \in selfUpdate

(* Until it writes the terminal row, the helper is the only writer of that  *)
(* row.                                                                     *)
HelperInv ==
    \A j \in Jobs :
        /\ helper[j] # "none" => j \in selfUpdate /\ worker[j] \in {"external", "done"}
        /\ HelperAlive(j) => j \notin pending
        /\ helper[j] \in {"started", "running"} => jobState[j] = "running"
        /\ helper[j] \in {"row", "event"} => jobState[j] \in TerminalStates
        /\ helper[j] = "event" => j \in finalEvents

(* A record with the flag is of a self-update that is complete.             *)
ReportInv ==
    runtime.pendingFinalize =>
        runtime.job \in Jobs /\ jobState[runtime.job] \in TerminalStates /\ runtime.job \in finalEvents

SUInv == Inv /\ SUTypeOK /\ DrainInv /\ HelperInv /\ ReportInv /\ FinalizedIsComplete

-----------------------------------------------------------------------------
(* What the steps of the job service leave to a self-update. *)

(* Initial states satisfy the invariant.                                    *)
LEMMA SUInvInit == SUInit => SUInv
<1> SUFFICES ASSUME SUInit PROVE SUInv
  OBVIOUS
<1>1. Inv
  BY InvInit, SMTT(30) DEF SUInit
<1> QED
  BY <1>1 DEF SUInit, Init, SUInv, SUTypeOK, DrainInv, HelperInv, ReportInv, FinalizedIsComplete,
        HelperPhases, HelperAlive, Record, Empty

(* No step of the service takes the barrier from a self-update, cancels it  *)
(* or finishes it behind its helper.                                        *)
LEMMA ServiceKeepsDrain ==
    ASSUME Inv, DrainInv, Next, \A j \in Jobs : worker'[j] = "external" => j \in selfUpdate
    PROVE  DrainInv'
<1> USE JobsAssumption
<1> USE DEF Inv, DrainInv, TypeOK, LockInv, LockType, BarrierExclusive, WorkerInv, StartupInv, locks, tasks, rows, startup, faults
<1>1. ASSUME NEW j \in Jobs, NEW q \in Requests, Start(j, q) PROVE DrainInv'
  BY <1>1, Zenon DEF Start, lockMany
<1>2. ASSUME NEW j \in Jobs, StartDraining(j) PROVE DrainInv'
  BY <1>2 DEF StartDraining, lockMany
<1>3. ASSUME NEW j \in Jobs, HandOff(j) PROVE DrainInv'
  BY <1>3, Zenon DEF HandOff
<1>4. ASSUME NEW j \in Jobs, RegisterCancel(j) PROVE DrainInv'
  BY <1>4, Zenon DEF RegisterCancel
<1>5. ASSUME NEW j \in Jobs, NEW requested \in Replacements, ReplaceResources(j, requested) PROVE DrainInv'
  BY <1>5, Zenon DEF ReplaceResources
<1>6. ASSUME NEW j \in Jobs, CancelRead(j) PROVE DrainInv'
  BY <1>6, Zenon DEF CancelRead
<1>7. ASSUME NEW j \in Jobs, CancelCommit(j) PROVE DrainInv'
  BY <1>7, ZenonT(30) DEF CancelCommit
<1>8. ASSUME NEW j \in Jobs, CancelCommitError(j) PROVE DrainInv'
  BY <1>8, Zenon DEF CancelCommitError
<1>9. ASSUME NEW j \in Jobs, CancelFire(j) PROVE DrainInv'
  BY <1>9, Zenon DEF CancelFire
<1>10. ASSUME NEW j \in Jobs, CreateJobWithInitialEvent(j) PROVE DrainInv'
  BY <1>10, Zenon DEF CreateJobWithInitialEvent
<1>11. ASSUME NEW j \in Jobs, CreateJobError(j) PROVE DrainInv'
  BY <1>11, Zenon DEF CreateJobError, unlockAll
<1>12. ASSUME NEW j \in Jobs, NEW outcome \in TerminalStates, Finish(j, outcome) PROVE DrainInv'
  BY <1>12, Zenon DEF Finish
<1>13. ASSUME NEW j \in Jobs, FinishError(j) PROVE DrainInv'
  BY <1>13, Zenon DEF FinishError
<1>14. ASSUME NEW j \in Jobs, Release(j) PROVE DrainInv'
  BY <1>14, Zenon DEF Release, unlockAll
<1>15. ASSUME NEW j \in Jobs, UnregisterCancel(j) PROVE DrainInv'
  BY <1>15, Zenon DEF UnregisterCancel
<1>16. ASSUME NEW j \in Jobs, reconcileInterruptedJob(j) PROVE DrainInv'
  BY <1>16, Zenon DEF reconcileInterruptedJob, unlockAll, Serving
<1>17. ASSUME NEW skipped \in SUBSET selfUpdate, ListInterrupted(skipped) PROVE DrainInv'
  BY <1>17, Zenon DEF ListInterrupted
<1>18. CASE ReconcileError \/ Serve \/ BeginShutdown
  BY <1>18, Zenon DEF ReconcileError, Serve, BeginShutdown
<1>19. CASE Exit
  BY <1>19, SMTT(30) DEF Exit
<1> QED
  BY <1>1, <1>2, <1>3, <1>4, <1>5, <1>6, <1>7, <1>8, <1>9, <1>10, <1>11, <1>12, <1>13, <1>14, <1>15, <1>16, <1>17, <1>18, <1>19, ZenonT(30) DEF Next, JobStep, WorkerStep, CancelStep, StartupStep

(* A step of the service leaves a worker that is gone or has handed over    *)
(* where it is, forgets no self-update, and writes the row of such a worker *)
(* only when it reconciles or cancels the job.                              *)
LEMMA ServiceSparesHelpers ==
    ASSUME Inv, Next, NEW j \in Jobs
    PROVE  /\ selfUpdate \subseteq selfUpdate'
           /\ worker[j] \in {"external", "done"} => worker'[j] \in {worker[j], "done"}
           /\ jobState'[j] # jobState[j] =>
                \/ worker[j] \in {"locked", "running"} \/ j \in pending \/ cancelCall[j] = "armed"
BY ZenonT(30) DEF Inv, TypeOK, locks, tasks, rows, startup, faults, Next, JobStep, WorkerStep, CancelStep, StartupStep, Start, StartDraining,
       HandOff, RegisterCancel, ReplaceResources, CancelRead, CancelCommit, CancelCommitError, CancelFire,
       CreateJobWithInitialEvent, CreateJobError, Finish, FinishError, Release, UnregisterCancel,
       ListInterrupted, reconcileInterruptedJob, ReconcileError, Serve, BeginShutdown, Exit

-----------------------------------------------------------------------------
(* Every step keeps the invariant. *)

(* A step of the job service keeps the invariant: a live helper's row is    *)
(* not the service's to write, and a terminal row comes with its event.     *)
LEMMA ServiceKeepsSUInv == ASSUME SUInv, Within(Next) PROVE SUInv'
<1> USE DEF SUInv
<1>1. Inv' /\ TypeOK
  BY InvNext, Zenon DEF Within, Inv
<1>2. DrainInv'
  BY ServiceKeepsDrain, Zenon DEF Within, DrainInv
<1>3. \A j \in Jobs : Forward(j)
  BY StepMovesForward, Zenon DEF Within
<1>4. /\ selfUpdate \subseteq selfUpdate'
      /\ \A j \in Jobs : worker[j] \in {"external", "done"} => worker'[j] \in {worker[j], "done"}
      /\ \A j \in Jobs : jobState'[j] # jobState[j] =>
            worker[j] \in {"locked", "running"} \/ j \in pending \/ cancelCall[j] = "armed"
  <2>1. CASE Jobs = {}
    BY <2>1, <1>1, Zenon DEF Inv, TypeOK
  <2>2. CASE Jobs # {}
    BY <2>2, ServiceSparesHelpers, Zenon DEF Within
  <2> QED
    BY <2>1, <2>2, Zenon
<1>5. SUTypeOK'
  BY <1>4, Zenon DEF Within, SUTypeOK, Record, Empty
<1>6. \A j \in Jobs : jobState[j] \in TerminalStates => jobState'[j] = jobState[j]
  BY <1>3, Zenon DEF Forward, TerminalStates, ActiveStates
<1>7. HelperInv'
  BY <1>4, <1>6, Zenon DEF Within, HelperInv, HelperAlive, DrainInv, SUTypeOK
<1>8. ReportInv' /\ FinalizedIsComplete'
  BY <1>6, Zenon DEF Within, ReportInv, FinalizedIsComplete, SUTypeOK, Record
<1> QED
  BY <1>1, <1>2, <1>5, <1>7, <1>8

(* A step outside the service that leaves its state alone keeps the         *)
(* invariant of the service.                                                *)
LEMMA ServiceUntouched ==
    ASSUME Inv, DrainInv, UNCHANGED vars
    PROVE  Inv' /\ DrainInv'
<1>1. Inv'
  BY InvNext
<1> QED
  BY <1>1 DEF DrainInv, vars, locks, tasks, rows, startup

(* Apply saves the record and hands the job to the helper while the job     *)
(* holds the barrier.                                                       *)
LEMMA ApplyKeepsSUInv == ASSUME SUInv, NEW j \in Jobs, ApplyStep(j) PROVE SUInv'
<1> USE DEF SUInv
<1>1. CASE SaveRuntime(j)
  <2>1. Inv' /\ DrainInv'
    BY <1>1, ServiceUntouched, Zenon DEF SaveRuntime
  <2> QED
    BY <1>1, <2>1, Zenon DEF SaveRuntime, vars, locks, tasks, rows, startup, SUTypeOK, HelperInv, HelperAlive,
                      ReportInv, FinalizedIsComplete, Record
<1>2. CASE StartHelper(j)
  <2>1. HandOff(j) /\ worker[j] = "running" /\ worker' = [worker EXCEPT ![j] = "external"] /\ UNCHANGED <<jobState, selfUpdate, pending>>
    BY <1>2 DEF StartHelper, HandOff, rows, startup
  <2>2. Next
    BY <2>1 DEF Next, JobStep
  <2>3. Inv'
    BY <2>2, InvNext
  <2>4. j \in selfUpdate
    BY <1>2, Zenon DEF StartHelper, SUTypeOK
  <2>5. DrainInv'
    BY <2>1, <2>2, <2>4, ServiceKeepsDrain, Zenon DEF DrainInv, Inv, TypeOK
  <2>6. pending = {} /\ jobState[j] = "running"
    BY <2>1, <2>4, SMTT(30) DEF Inv, StartupInv, DrainInv
  <2> QED
    <3>1. SUTypeOK'
      BY <1>2, <2>1, Zenon DEF StartHelper, SUTypeOK, HelperPhases
    <3>2. \A k \in Jobs : worker'[k] = (IF k = j THEN "external" ELSE worker[k]) /\ helper'[k] = (IF k = j THEN "started" ELSE helper[k])
      BY <1>2, <2>1, Zenon DEF StartHelper, SUTypeOK, Inv, TypeOK
    <3>3. HelperInv'
      <4>1. HelperInv /\ UNCHANGED <<jobState, selfUpdate, pending, finalEvents>>
        BY <1>2, <2>1, Zenon DEF StartHelper
      <4> QED
        BY ONLY <4>1, <3>2, <2>4, <2>6 DEF HelperInv, HelperAlive
    <3>4. ReportInv' /\ FinalizedIsComplete'
      BY <1>2, <2>1, Zenon DEF StartHelper, ReportInv, FinalizedIsComplete
    <3> QED
      BY <3>1, <3>3, <3>4, <2>3, <2>5, Zenon
<1>3. CASE ClearRuntime(j)
  <2>1. Inv' /\ DrainInv'
    BY <1>3, ServiceUntouched, Zenon DEF ClearRuntime
  <2> QED
    BY <1>3, <2>1, Zenon DEF ClearRuntime, vars, locks, tasks, rows, startup, SUTypeOK, HelperInv, HelperAlive,
                      ReportInv, FinalizedIsComplete, Record, Empty
<1> QED
  BY <1>1, <1>2, <1>3, Zenon DEF ApplyStep

(* The helper ends a row that is still running, and reports it last.        *)
LEMMA HelperKeepsSUInv == ASSUME SUInv, NEW j \in Jobs, HelperStep(j) \/ HelperDies(j) PROVE SUInv'
<1> USE DEF SUInv
<1>1. CASE HelperLoad(j) \/ HelperPublishEvent(j) \/ HelperSaveRuntime(j) \/ HelperDies(j)
  <2>1. UNCHANGED vars
    BY <1>1 DEF HelperLoad, HelperPublishEvent, HelperSaveRuntime, HelperDies
  <2>2. Inv' /\ DrainInv'
    BY <2>1, ServiceUntouched
  <2>3. SUTypeOK'
    <3>1. UNCHANGED <<applying, selfUpdate, poll, finalized>> /\ finalEvents' \subseteq Jobs
      BY <1>1, <2>1, Zenon DEF vars, rows, HelperLoad, HelperPublishEvent, HelperSaveRuntime, HelperDies, SUTypeOK
    <3>2. helper' \in [Jobs -> HelperPhases]
      BY <1>1, Zenon DEF HelperLoad, HelperPublishEvent, HelperSaveRuntime, HelperDies, SUTypeOK, HelperPhases
    <3>3. runtime' \in {runtime, [job |-> j, pendingFinalize |-> FALSE], [job |-> j, pendingFinalize |-> TRUE]}
      BY <1>1 DEF HelperLoad, HelperPublishEvent, HelperSaveRuntime, HelperDies
    <3>4. [job |-> j, pendingFinalize |-> FALSE] \in Record /\ [job |-> j, pendingFinalize |-> TRUE] \in Record
      BY SMTT(30) DEF Record
    <3> QED
      BY <3>1, <3>2, <3>3, <3>4, Zenon DEF SUTypeOK
  <2>4. HelperInv'
    BY <1>1, <2>1, Zenon DEF vars, locks, tasks, rows, startup, HelperLoad, HelperPublishEvent, HelperSaveRuntime, HelperDies, SUTypeOK, HelperInv, HelperAlive
  <2>5. ReportInv' /\ FinalizedIsComplete'
    BY <1>1, <2>1, SMTT(30) DEF vars, rows, HelperLoad, HelperPublishEvent, HelperSaveRuntime, HelperDies, SUTypeOK, HelperInv, ReportInv, FinalizedIsComplete
  <2> QED
    BY <2>2, <2>3, <2>4, <2>5, Zenon
<1>2. ASSUME NEW outcome \in {"succeeded", "failed"}, HelperUpdateJob(j, outcome) PROVE SUInv'
  <2> USE <1>2 DEF HelperUpdateJob, locks, tasks, startup, faults
  <2>1. outcome \in TerminalStates /\ outcome \notin ActiveStates /\ outcome \notin {"absent", "running"}
    BY Zenon DEF TerminalStates, ActiveStates
  <2>2. j \in selfUpdate /\ worker[j] \in {"external", "done"} /\ jobState[j] = "running"
    BY Zenon DEF HelperInv
  <2>3. TypeOK'
    BY <2>1, Zenon DEF Inv, TypeOK
  <2>4. LockInv'
    BY UnchangedKeepsLockInv DEF Inv
  <2>5. \A k \in Jobs : jobState'[k] = IF k = j THEN outcome ELSE jobState[k]
    BY ZenonT(30) DEF Inv, TypeOK
  <2>6. WorkerInv'
    BY <2>1, <2>2, <2>5, SMTT(30) DEF Inv, WorkerInv, Leased, Active
  <2>7. StartupInv'
    BY <2>1, <2>5, Zenon DEF Inv, StartupInv, Serving, Leased, Active
  <2>8. CancelInv' /\ BarrierInv'
    BY <2>1, <2>5, SMTT(30) DEF Inv, CancelInv, BarrierInv
  <2>9. DrainInv'
    BY <2>2, <2>5, ZenonT(30) DEF DrainInv
  <2>10. SUTypeOK' /\ HelperInv'
    BY <2>1, <2>5, Zenon DEF SUTypeOK, HelperPhases, HelperInv, HelperAlive
  <2>11. ReportInv' /\ FinalizedIsComplete'
    BY <2>1, <2>5, Zenon DEF ReportInv, FinalizedIsComplete, SUTypeOK
  <2> QED
    BY <2>3, <2>4, <2>6, <2>7, <2>8, <2>9, <2>10, <2>11 DEF Inv
<1> QED
  BY <1>1, <1>2 DEF HelperStep

(* The poll finalizes what the record says is complete, and writes a record *)
(* without the flag.                                                        *)
LEMMA PollKeepsSUInv == ASSUME SUInv, PollStep PROVE SUInv'
<1> USE DEF SUInv
<1>1. UNCHANGED vars
  BY DEF PollStep, PollFinalize, PollSave
<1>2. Inv' /\ DrainInv'
  BY <1>1, ServiceUntouched
<1>3. UNCHANGED <<applying, helper, finalEvents, selfUpdate, worker, pending, jobState>>
  BY <1>1 DEF PollStep, PollFinalize, PollSave, vars, tasks, rows, startup
<1>4. HelperInv'
  BY <1>3, Zenon DEF HelperInv, HelperAlive
<1>5. CASE PollFinalize
  BY <1>2, <1>3, <1>4, <1>5, Zenon DEF PollFinalize, SUTypeOK, ReportInv, FinalizedIsComplete
<1>6. CASE PollSave
  <2>1. runtime' = [job |-> poll.job, pendingFinalize |-> FALSE] /\ runtime' \in Record
    BY <1>6, Zenon DEF PollSave, SUTypeOK, Record
  <2>2. poll' \in Record /\ UNCHANGED finalized
    BY <1>6 DEF PollSave, Empty, Record
  <2> QED
    BY <1>2, <1>3, <1>4, <2>1, <2>2 DEF SUTypeOK, ReportInv, FinalizedIsComplete
<1> QED
  BY <1>5, <1>6 DEF PollStep

(* Every step of the service, of the helper and of the poll keeps the       *)
(* invariant.                                                               *)
LEMMA SUInvNext == SUInv /\ [SUNext]_allVars => SUInv'
<1> SUFFICES ASSUME SUInv, [SUNext]_allVars PROVE SUInv'
  BY Zenon
<1>1. CASE UNCHANGED allVars
  <2>1. Inv' /\ DrainInv'
    BY <1>1, ServiceUntouched DEF allVars, SUInv
  <2> QED
    BY <1>1, <2>1 DEF allVars, suVars, vars, locks, tasks, rows, startup, SUInv, SUTypeOK, HelperInv, HelperAlive, ReportInv,
                      FinalizedIsComplete
<1> QED
  BY <1>1, ServiceKeepsSUInv, ApplyKeepsSUInv, HelperKeepsSUInv, PollKeepsSUInv DEF SUNext

-----------------------------------------------------------------------------
(* The theorems. *)

(* Every variable of the job service and of the self-update keeps its type, *)
(* whichever process dies where.                                            *)
THEOREM SelfUpdateTypeCorrect == SUSpec => [](TypeOK /\ SUTypeOK)
<1>1. SUInv => TypeOK /\ SUTypeOK
  BY DEF SUInv, Inv
<1> QED
  BY <1>1, SUInvInit, SUInvNext, PTL DEF SUSpec

(* What the service guarantees by itself it guarantees beside the helper:   *)
(* its maps agree, concurrent jobs do not conflict, the barrier excludes,   *)
(* active rows are leased, one per stack, and a cancellation is durable     *)
(* before it takes effect.                                                  *)
THEOREM ServiceHoldsBesideHelper == SUSpec => []ServiceIsSound
<1>1. SUInv => ServiceIsSound
  BY InvSafe DEF SUInv
<1> QED
  BY <1>1, SUInvInit, SUInvNext, PTL DEF SUSpec

(* Apply keeps the barrier of its job until the helper is done or Stacklab  *)
(* restarts: a live helper upgrades the package with no other job running.  *)
THEOREM HelperIsAlone == SUSpec => []HelperRunsAlone
<1>1. SUInv => HelperRunsAlone
  BY JobsAssumption DEF SUInv, Inv, LockInv, BarrierExclusive, DrainInv, HelperRunsAlone
<1> QED
  BY <1>1, SUInvInit, SUInvNext, PTL DEF SUSpec

(* reconcilePendingResult announces only a result whose row and last event  *)
(* are stored, although three processes' writes interleave with it.         *)
THEOREM AnnouncedIsComplete == SUSpec => []FinalizedIsComplete
<1>1. SUInv => FinalizedIsComplete
  BY Zenon DEF SUInv
<1> QED
  BY <1>1, SUInvInit, SUInvNext, PTL DEF SUSpec

(* What a step of the system is to the job service: one of its own steps,   *)
(* or one that changes no lease and at most ends the helper's row.          *)
LEMMA SUStepCases ==
    ASSUME SUInv, [SUNext]_allVars
    PROVE  \/ [Next]_vars
           \/ /\ UNCHANGED locks
              /\ \A i \in Jobs : Forward(i)
<1>1. CASE UNCHANGED allVars \/ Within(Next) \/ PollStep
  BY <1>1, Zenon DEF allVars, Within, PollStep, PollFinalize, PollSave
<1>2. ASSUME NEW j \in Jobs, ApplyStep(j) PROVE [Next]_vars
  BY <1>2 DEF ApplyStep, SaveRuntime, StartHelper, ClearRuntime, Next, JobStep
<1>3. ASSUME NEW j \in Jobs, HelperLoad(j) \/ HelperPublishEvent(j) \/ HelperSaveRuntime(j) \/ HelperDies(j)
      PROVE  [Next]_vars
  BY <1>3, Zenon DEF HelperLoad, HelperPublishEvent, HelperSaveRuntime, HelperDies
<1>4. ASSUME NEW j \in Jobs, NEW outcome \in {"succeeded", "failed"}, HelperUpdateJob(j, outcome)
      PROVE  UNCHANGED locks /\ \A i \in Jobs : Forward(i)
  BY <1>4 DEF HelperUpdateJob, SUInv, HelperInv, Inv, TypeOK, Forward, ActiveStates, TerminalStates
<1> QED
  BY <1>1, <1>2, <1>3, <1>4 DEF SUNext, HelperStep

(* No step reopens a finished job or takes a cancellation back, the         *)
(* helper's unconditional UpdateJob included.                               *)
THEOREM RowsMoveForwardBesideHelper == SUSpec => StateMovesForward
<1>1. SUInv /\ [SUNext]_allVars =>
        [\A j \in Jobs : jobState'[j] # jobState[j] =>
          \/ jobState[j] = "absent" /\ jobState'[j] = "running"
          \/ jobState[j] = "running" /\ jobState'[j] = "cancel_requested"
          \/ jobState[j] \in ActiveStates /\ jobState'[j] \in TerminalStates]_vars
  BY SUStepCases, StepMovesForward DEF SUInv, Forward
<1> QED
  BY <1>1, SUInvInit, SUInvNext, PTL DEF SUSpec, StateMovesForward

(* The service together with the helper implements the lease discipline.    *)
THEOREM SelfUpdateImplementsLease == SUSpec => ImplementsLease
<1>1. SUInit => L!Init
  BY DEF SUInit, Init, L!Init
<1>2. SUInv /\ [SUNext]_allVars => [L!Next]_(L!vars)
  BY SUStepCases, StepImplementsLease DEF SUInv, locks, L!vars
<1> QED
  BY <1>1, <1>2, SUInvInit, SUInvNext, PTL DEF SUSpec, ImplementsLease, L!Spec
=============================================================================
