-------------------------------- MODULE Jobs --------------------------------
(***************************************************************************)
(* The job service (internal/jobs/service.go) over the jobs table          *)
(* (internal/store/store.go): admission of mutating jobs by typed          *)
(* resources, the drain barrier, cancellation, terminal transitions, and   *)
(* the reconciliation of interrupted rows when the process restarts.       *)
(*                                                                         *)
(* A mutex-protected section and a SQLite transaction are each one step;   *)
(* between them any other goroutine may run.  A job id is used once.  Job  *)
(* events and workflow steps do not influence admission and are left out.  *)
(***************************************************************************)
EXTENDS Naturals

CONSTANTS
    Stacks,           \* ids of Compose stacks
    Repositories,     \* keys of backup repositories
    NoID,             \* the empty id of the host-wide kinds
    Jobs,             \* job ids
    NoJob,            \* the empty job id
    Requests,         \* what callers pass to Start*: [stackID, resources]
    Replacements,     \* what callers pass to ReplaceResources
    MaxStoreErrors,   \* bound on failed database calls
    MaxCrashes        \* bound on process deaths

-----------------------------------------------------------------------------
(* The typed resources a mutating job owns (internal/jobs/resource.go).  A *)
(* request that Resource.validate would refuse (a host kind with an id, a  *)
(* stack without one) has no value here.                                   *)

HostKinds == {"global", "docker-daemon", "docker-registry", "self-update", "image-updates"}

Resource ==
    [kind : HostKinds, id : {NoID}]
        \cup [kind : {"stack"}, id : Stacks]
        \cup [kind : {"backup-repository"}, id : Repositories]

GlobalResource == [kind |-> "global", id |-> NoID]

DockerDaemonResource == [kind |-> "docker-daemon", id |-> NoID]

DockerRegistryResource == [kind |-> "docker-registry", id |-> NoID]

SelfUpdateResource == [kind |-> "self-update", id |-> NoID]

ImageUpdatesResource == [kind |-> "image-updates", id |-> NoID]

StackResource(stackID) == [kind |-> "stack", id |-> stackID]

BackupRepositoryResource(key) == [kind |-> "backup-repository", id |-> key]

(* The kinds a resource of each kind shuts out besides its own value.  The *)
(* source asks about "either side"; the relation is read both ways below.  *)

ExcludedBy(kind) ==
    CASE kind = "global" -> HostKinds \cup {"stack"}
      [] kind = "docker-daemon" -> {"stack", "docker-registry"}
      [] kind = "docker-registry" -> {"stack"}
      [] OTHER -> {}

ResourcesConflict(left, right) ==
    \/ left = right
    \/ right.kind \in ExcludedBy(left.kind)
    \/ left.kind \in ExcludedBy(right.kind)

(* A request owns its stack and the resources it names.  Holding the host   *)
(* subsumes every other resource except repositories, whose I/O is          *)
(* independent of it.                                                       *)
normalizeResources(stackID, requested) ==
    LET unique == requested \cup (IF stackID = NoID THEN {} ELSE {StackResource(stackID)})
    IN  IF GlobalResource \in unique
        THEN {r \in unique : r = GlobalResource \/ r.kind = "backup-repository"}
        ELSE unique
-----------------------------------------------------------------------------

Request == [stackID : Stacks \cup {NoID}, resources : SUBSET Resource]

ASSUME IDAssumption == NoID \notin Stacks \cup Repositories

ASSUME JobsAssumption ==
    /\ NoJob \notin Jobs
    /\ Requests \subseteq Request
    /\ \A q \in Requests : normalizeResources(q.stackID, q.resources) # {}
    /\ Replacements \subseteq (SUBSET Resource) \ {{}}
    /\ MaxStoreErrors \in Nat
    /\ MaxCrashes \in Nat

VARIABLES
    lockedByResource,  \* the job owning each resource
    resourcesByJob,    \* the resources each job owns, {} without a lease
    drainingJobID,     \* the job holding the drain barrier
    cancelByJob,       \* jobs with a registered cancel function
    worker,            \* how far the goroutine that owns the job has come
    cancelCall,        \* how far a Cancel request for the job has come
    interrupted,       \* jobs whose context Cancel has cancelled
    jobState,          \* jobs.state, "absent" before the row exists
    jobStack,          \* jobs.stack_id
    selfUpdate,        \* jobs whose action is self_update_stacklab
    process,           \* the Stacklab process
    pending,           \* interrupted rows startup has yet to reconcile
    abandoned,         \* active rows startup left behind
    storeErrors,       \* failed database calls so far
    crashes            \* process deaths so far

locks == <<lockedByResource, resourcesByJob, drainingJobID>>
tasks == <<worker, cancelCall, interrupted, cancelByJob>>
rows == <<jobState, jobStack, selfUpdate>>
startup == <<process, pending, abandoned>>
faults == <<storeErrors, crashes>>
vars == <<locks, tasks, rows, startup, faults>>

ActiveStates == {"running", "cancel_requested"}
TerminalStates == {"succeeded", "failed", "cancelled", "timed_out"}
WorkerPhases == {"none", "locked", "running", "external", "finishing", "exiting", "done"}

Active(j) == jobState[j] \in ActiveStates
Serving == process \in {"up", "stopping"}

Init ==
    /\ lockedByResource = [r \in Resource |-> NoJob]
    /\ resourcesByJob = [j \in Jobs |-> {}]
    /\ drainingJobID = NoJob
    /\ cancelByJob = {}
    /\ worker = [j \in Jobs |-> "none"]
    /\ cancelCall = [j \in Jobs |-> "none"]
    /\ interrupted = {}
    /\ jobState = [j \in Jobs |-> "absent"]
    /\ jobStack = [j \in Jobs |-> NoID]
    /\ selfUpdate = {}
    /\ process = "up"
    /\ pending = {}
    /\ abandoned = {}
    /\ storeErrors = 0
    /\ crashes = 0

-----------------------------------------------------------------------------
(* Locks. *)

NoOtherConflict(j, resources) ==
    \A r \in resources, c \in Resource :
        lockedByResource[c] \notin {NoJob, j} => ~ResourcesConflict(r, c)

lockMany(j, resources, draining) ==
    /\ drainingJobID \in {NoJob, j}
    /\ draining => \A r \in Resource : lockedByResource[r] = NoJob
    /\ NoOtherConflict(j, resources)
    /\ lockedByResource' = [r \in Resource |-> IF r \in resources THEN j ELSE lockedByResource[r]]
    /\ resourcesByJob' = [resourcesByJob EXCEPT ![j] = resources]
    /\ drainingJobID' = IF draining THEN j ELSE drainingJobID

(* Mutation: the barrier outlives its job. *)
unlockAllKeepBarrier(j) ==
    /\ UNCHANGED drainingJobID
    /\ lockedByResource' =
          [r \in Resource |-> IF lockedByResource[r] = j THEN NoJob ELSE lockedByResource[r]]
    /\ resourcesByJob' = [resourcesByJob EXCEPT ![j] = {}]

unlockAll(j) ==
    /\ drainingJobID' = IF drainingJobID = j THEN NoJob ELSE drainingJobID
    /\ lockedByResource' =
          [r \in Resource |-> IF r \in resourcesByJob[j] /\ lockedByResource[r] = j
                              THEN NoJob ELSE lockedByResource[r]]
    /\ resourcesByJob' = [resourcesByJob EXCEPT ![j] = {}]

(* ReplaceResources: only backup jobs call it, and they belong to no stack  *)
(* and never drain.                                                         *)
ReplaceResources(j, requested) ==
    LET resources == normalizeResources(NoID, requested)
        old == resourcesByJob[j]
    IN  /\ worker[j] = "running" /\ jobStack[j] = NoID /\ j \notin selfUpdate
        /\ old # {}
        /\ drainingJobID \in {NoJob, j}
        /\ NoOtherConflict(j, resources)
        /\ lockedByResource' =
              [r \in Resource |-> IF r \in resources THEN j
                                  ELSE IF r \in old /\ lockedByResource[r] = j THEN NoJob
                                  ELSE lockedByResource[r]]
        /\ resourcesByJob' = [resourcesByJob EXCEPT ![j] = resources]
        /\ drainingJobID' = IF drainingJobID = j THEN NoJob ELSE drainingJobID
        /\ UNCHANGED <<tasks, rows, startup, faults>>

-----------------------------------------------------------------------------
(* Starting a job: start() takes the locks, then creates the row and its    *)
(* first event in one transaction, or gives the locks back.                 *)

Start(j, q) ==
    /\ Serving /\ worker[j] = "none"
    /\ lockMany(j, normalizeResources(q.stackID, q.resources), FALSE)
    /\ worker' = [worker EXCEPT ![j] = "locked"]
    /\ jobStack' = [jobStack EXCEPT ![j] = q.stackID]
    /\ UNCHANGED <<cancelCall, interrupted, cancelByJob, jobState, selfUpdate, startup, faults>>

(* Mutation: the barrier is not installed. *)
StartDrainingNoBarrier(j) ==
    /\ Serving /\ worker[j] = "none"
    /\ lockMany(j, normalizeResources(NoID, {SelfUpdateResource}), FALSE)
    /\ worker' = [worker EXCEPT ![j] = "locked"]
    /\ selfUpdate' = selfUpdate \cup {j}
    /\ UNCHANGED <<cancelCall, interrupted, cancelByJob, jobState, jobStack, startup, faults>>

StartDraining(j) ==
    /\ Serving /\ worker[j] = "none"
    /\ lockMany(j, normalizeResources(NoID, {SelfUpdateResource}), TRUE)
    /\ worker' = [worker EXCEPT ![j] = "locked"]
    /\ selfUpdate' = selfUpdate \cup {j}
    /\ UNCHANGED <<cancelCall, interrupted, cancelByJob, jobState, jobStack, startup, faults>>

CreateJobWithInitialEvent(j) ==
    /\ worker[j] = "locked"
    /\ jobState' = [jobState EXCEPT ![j] = "running"]
    /\ worker' = [worker EXCEPT ![j] = "running"]
    /\ UNCHANGED <<locks, cancelCall, interrupted, cancelByJob, jobStack, selfUpdate, startup, faults>>

CreateJobError(j) ==
    /\ worker[j] = "locked"
    /\ storeErrors < MaxStoreErrors
    /\ storeErrors' = storeErrors + 1
    /\ unlockAll(j)
    /\ worker' = [worker EXCEPT ![j] = "done"]
    /\ UNCHANGED <<cancelCall, interrupted, cancelByJob, rows, startup, crashes>>

(* The self-update job is started and then left to the helper process.  The *)
(* request that started it returns without finishing it.                    *)
HandOff(j) ==
    /\ worker[j] = "running" /\ j \in selfUpdate
    /\ worker' = [worker EXCEPT ![j] = "external"]
    /\ UNCHANGED <<locks, cancelCall, interrupted, cancelByJob, rows, startup, faults>>

-----------------------------------------------------------------------------
(* Cancelling a job.  Cancel reads the row and the registered function,     *)
(* commits cancel_requested, and calls the function only then.  The row may *)
(* have moved on in between.                                                *)

RegisterCancel(j) ==
    /\ worker[j] = "running" /\ j \notin selfUpdate \cup cancelByJob
    /\ cancelByJob' = cancelByJob \cup {j}
    /\ UNCHANGED <<locks, worker, cancelCall, interrupted, rows, startup, faults>>

CancelRead(j) ==
    /\ Serving /\ cancelCall[j] = "none"
    /\ jobState[j] = "running" /\ j \in cancelByJob
    /\ cancelCall' = [cancelCall EXCEPT ![j] = "armed"]
    /\ UNCHANGED <<locks, worker, interrupted, cancelByJob, rows, startup, faults>>

(* Mutation: the transition does not ask for the state it read. *)
CancelCommitBlind(j) ==
    /\ cancelCall[j] = "armed"
    /\ jobState' = [jobState EXCEPT ![j] = "cancel_requested"]
    /\ cancelCall' = [cancelCall EXCEPT ![j] = "committed"]
    /\ UNCHANGED <<locks, worker, interrupted, cancelByJob, jobStack, selfUpdate, startup, faults>>

CancelCommit(j) ==
    /\ cancelCall[j] = "armed"
    /\ IF jobState[j] = "running"
       THEN /\ jobState' = [jobState EXCEPT ![j] = "cancel_requested"]
            /\ cancelCall' = [cancelCall EXCEPT ![j] = "committed"]
       ELSE /\ cancelCall' = [cancelCall EXCEPT ![j] = "none"]
            /\ UNCHANGED jobState
    /\ UNCHANGED <<locks, worker, interrupted, cancelByJob, jobStack, selfUpdate, startup, faults>>

CancelCommitError(j) ==
    /\ cancelCall[j] = "armed"
    /\ storeErrors < MaxStoreErrors
    /\ storeErrors' = storeErrors + 1
    /\ cancelCall' = [cancelCall EXCEPT ![j] = "none"]
    /\ UNCHANGED <<locks, worker, interrupted, cancelByJob, rows, startup, crashes>>

CancelFire(j) ==
    /\ cancelCall[j] = "committed"
    /\ interrupted' = interrupted \cup {j}
    /\ cancelCall' = [cancelCall EXCEPT ![j] = "none"]
    /\ UNCHANGED <<locks, worker, cancelByJob, rows, startup, faults>>

-----------------------------------------------------------------------------
(* Finishing a job: commitTerminalTransition commits the terminal row, then *)
(* publishes and unlocks.  A failed commit returns without unlocking, and   *)
(* every caller only logs it.  The worker unregisters its cancel function   *)
(* last.  A worker reports "cancelled" only for a cancelled context: Cancel *)
(* or the shutdown of the application cancelled it.  The request that       *)
(* starts a self-update only ever fails it, when the helper does not start. *)

Finish(j, outcome) ==
    /\ worker[j] = "running"
    /\ outcome = "cancelled" => j \in interrupted \/ process = "stopping"
    /\ j \in selfUpdate => outcome = "failed"
    /\ jobState' = [jobState EXCEPT ![j] = IF Active(j) THEN outcome ELSE jobState[j]]
    /\ worker' = [worker EXCEPT ![j] = "finishing"]
    /\ UNCHANGED <<locks, cancelCall, interrupted, cancelByJob, jobStack, selfUpdate, startup, faults>>

(* Mutation: a transition that was not stored releases the resources. *)
FinishErrorUnlocks(j) ==
    /\ worker[j] = "running"
    /\ storeErrors < MaxStoreErrors
    /\ storeErrors' = storeErrors + 1
    /\ unlockAll(j)
    /\ worker' = [worker EXCEPT ![j] = "exiting"]
    /\ UNCHANGED <<cancelCall, interrupted, cancelByJob, rows, startup, crashes>>

FinishError(j) ==
    /\ worker[j] = "running"
    /\ storeErrors < MaxStoreErrors
    /\ storeErrors' = storeErrors + 1
    /\ worker' = [worker EXCEPT ![j] = "exiting"]
    /\ UNCHANGED <<locks, cancelCall, interrupted, cancelByJob, rows, startup, crashes>>

(* Mutation: the terminal path forgets to unlock. *)
ReleaseNothing(j) ==
    /\ worker[j] = "finishing"
    /\ worker' = [worker EXCEPT ![j] = "exiting"]
    /\ UNCHANGED <<locks, cancelCall, interrupted, cancelByJob, rows, startup, faults>>

Release(j) ==
    /\ worker[j] = "finishing"
    /\ unlockAll(j)
    /\ worker' = [worker EXCEPT ![j] = "exiting"]
    /\ UNCHANGED <<cancelCall, interrupted, cancelByJob, rows, startup, faults>>

UnregisterCancel(j) ==
    /\ worker[j] = "exiting"
    /\ cancelByJob' = cancelByJob \ {j}
    /\ worker' = [worker EXCEPT ![j] = "done"]
    /\ UNCHANGED <<locks, cancelCall, interrupted, rows, startup, faults>>

-----------------------------------------------------------------------------
(* The process.  Locks, goroutines and cancel functions die with it; rows   *)
(* stay.  Startup lists the active rows and fails each of them before it    *)
(* serves requests, except a self-update younger than its grace period.     *)
(* When the store fails, startup logs the error and serves anyway.          *)

BeginShutdown ==
    /\ process = "up"
    /\ process' = "stopping"
    /\ UNCHANGED <<locks, tasks, rows, pending, abandoned, faults>>

Exit ==
    /\ process # "down"
    /\ crashes < MaxCrashes
    /\ crashes' = crashes + 1
    /\ process' = "down"
    /\ pending' = {}
    /\ abandoned' = {}
    /\ lockedByResource' = [r \in Resource |-> NoJob]
    /\ resourcesByJob' = [j \in Jobs |-> {}]
    /\ drainingJobID' = NoJob
    /\ cancelByJob' = {}
    /\ worker' = [j \in Jobs |-> IF worker[j] = "none" THEN "none" ELSE "done"]
    /\ cancelCall' = [j \in Jobs |-> "none"]
    /\ interrupted' = {}
    /\ UNCHANGED <<rows, storeErrors>>

ListInterrupted(skipped) ==
    /\ process = "down"
    /\ process' = "starting"
    /\ pending' = {j \in Jobs : Active(j)} \ skipped
    /\ abandoned' = {j \in Jobs : Active(j)} \cap skipped
    /\ UNCHANGED <<locks, tasks, rows, faults>>

reconcileInterruptedJob(j) ==
    /\ j \in pending
    /\ jobState' = [jobState EXCEPT ![j] = IF Active(j) THEN "failed" ELSE jobState[j]]
    /\ unlockAll(j)
    /\ pending' = pending \ {j}
    /\ UNCHANGED <<tasks, jobStack, selfUpdate, process, abandoned, faults>>

ReconcileError ==
    /\ pending # {}
    /\ storeErrors < MaxStoreErrors
    /\ storeErrors' = storeErrors + 1
    /\ abandoned' = abandoned \cup pending
    /\ pending' = {}
    /\ UNCHANGED <<locks, tasks, rows, process, crashes>>

Serve ==
    /\ process = "starting" /\ pending = {}
    /\ process' = "up"
    /\ UNCHANGED <<locks, tasks, rows, pending, abandoned, faults>>

-----------------------------------------------------------------------------
WorkerStep(j) ==
    \/ CreateJobWithInitialEvent(j) \/ CreateJobError(j)
    \/ \E outcome \in TerminalStates : Finish(j, outcome)
    \/ FinishError(j)
    \/ Release(j)
    \/ UnregisterCancel(j)

CancelStep(j) == CancelCommit(j) \/ CancelCommitError(j) \/ CancelFire(j)

StartupStep ==
    \/ \E skipped \in SUBSET selfUpdate : ListInterrupted(skipped)
    \/ \E j \in Jobs : reconcileInterruptedJob(j)
    \/ ReconcileError
    \/ Serve

JobStep(j) ==
    \/ \E q \in Requests : Start(j, q)
    \/ StartDraining(j)
    \/ HandOff(j)
    \/ RegisterCancel(j)
    \/ \E requested \in Replacements : ReplaceResources(j, requested)
    \/ CancelRead(j)
    \/ CancelStep(j)
    \/ WorkerStep(j)

Next ==
    \/ \E j \in Jobs : JobStep(j)
    \/ StartupStep
    \/ BeginShutdown
    \/ Exit

Spec == Init /\ [][Next]_vars

-----------------------------------------------------------------------------
(* Properties. *)

(* Every variable keeps its type. *)
TypeOK ==
    /\ lockedByResource \in [Resource -> Jobs \cup {NoJob}]
    /\ resourcesByJob \in [Jobs -> SUBSET Resource]
    /\ drainingJobID \in Jobs \cup {NoJob}
    /\ cancelByJob \subseteq Jobs
    /\ worker \in [Jobs -> WorkerPhases]
    /\ cancelCall \in [Jobs -> {"none", "armed", "committed"}]
    /\ interrupted \subseteq Jobs
    /\ jobState \in [Jobs -> {"absent"} \cup ActiveStates \cup TerminalStates]
    /\ jobStack \in [Jobs -> Stacks \cup {NoID}]
    /\ selfUpdate \subseteq Jobs
    /\ process \in {"down", "starting", "up", "stopping"}
    /\ pending \subseteq Jobs
    /\ abandoned \subseteq Jobs
    /\ storeErrors \in 0..MaxStoreErrors
    /\ crashes \in 0..MaxCrashes

(* lockedByResource and resourcesByJob are two views of one relation: a     *)
(* resource is locked for a job exactly when the job's lease lists it, so   *)
(* unlockAll, which follows the lease, frees every lock the job has.        *)
LocksAgree ==
    \A j \in Jobs, r \in Resource : lockedByResource[r] = j <=> r \in resourcesByJob[j]

(* No two jobs hold resources the conflict matrix keeps apart, through      *)
(* starts, phase changes of backup jobs, finishes and restarts.             *)
NoConflictingHolders ==
    \A j, k \in Jobs : j # k =>
        \A r \in resourcesByJob[j], s \in resourcesByJob[k] : ~ResourcesConflict(r, s)

(* While the drain barrier stands, its job holds resources and no other     *)
(* job holds any, repositories included.                                    *)
BarrierExclusive ==
    drainingJobID # NoJob =>
        /\ resourcesByJob[drainingJobID] # {}
        /\ \A j \in Jobs \ {drainingJobID} : resourcesByJob[j] = {}

(* Once the process serves requests, a row that says a job is active is     *)
(* backed by that job's lease on its stack or the host, whatever failed in  *)
(* between: a terminal transition that could not be stored keeps the        *)
(* resources, and startup leaves no active row behind except those it gave  *)
(* up on or handed over.                                                    *)
ActiveRowsHoldLeases ==
    Serving => \A j \in Jobs : Active(j) /\ j \notin abandoned =>
        /\ resourcesByJob[j] # {}
        /\ jobStack[j] # NoID =>
              {StackResource(jobStack[j]), GlobalResource} \cap resourcesByJob[j] # {}

(* At most one job of a stack is active in the table while requests are     *)
(* served, across restarts.                                                 *)
OneActiveJobPerStack ==
    Serving => \A j, k \in Jobs \ abandoned :
        Active(j) /\ Active(k) /\ jobStack[j] = jobStack[k] /\ jobStack[j] # NoID => j = k

(* A worker finds its context cancelled by Cancel only after the row says   *)
(* cancel_requested (or already more), so reading the row tells a user's    *)
(* cancellation from a shutdown.                                            *)
CancelDurableFirst ==
    \A j \in interrupted : jobState[j] # "running"

(* What the service promises of its leases: the two maps agree, conflicting *)
(* resources have one owner, a drain is exclusive, an active row has its    *)
(* lease, a stack has one active job, and a cancellation is stored before   *)
(* it is felt.                                                              *)
ServiceIsSound ==
    /\ LocksAgree /\ NoConflictingHolders /\ BarrierExclusive
    /\ ActiveRowsHoldLeases /\ OneActiveJobPerStack /\ CancelDurableFirst

(* The row's state only moves forward: a cancellation that lost the race    *)
(* with the worker, or a reconciliation, never reopens a finished job or    *)
(* takes cancel_requested back to running.                                  *)
StateMovesForward ==
    [][\A j \in Jobs : jobState'[j] # jobState[j] =>
          \/ jobState[j] = "absent" /\ jobState'[j] = "running"
          \/ jobState[j] = "running" /\ jobState'[j] = "cancel_requested"
          \/ jobState[j] \in ActiveStates /\ jobState'[j] \in TerminalStates]_vars

(* The maps of the service implement the lease discipline. *)
L == INSTANCE Lease WITH held <- resourcesByJob, barrier <- drainingJobID, Conflict <- ResourcesConflict
ImplementsLease == L!Spec

(* Every job that is not handed to the helper gives its resources back,     *)
(* when the store does not fail.                                            *)
LeasesReturned ==
    \A j \in Jobs : (resourcesByJob[j] # {} /\ j \notin selfUpdate) ~> (resourcesByJob[j] = {})

=============================================================================
