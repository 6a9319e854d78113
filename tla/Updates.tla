------------------------------- MODULE Updates -------------------------------
(***************************************************************************)
(* The update_stacks and prune jobs (internal/maintenancejobs/service.go): *)
(* targets and workflow are resolved before the lease is taken, the steps  *)
(* run in order with retries, a failed stack blocks only its own steps,    *)
(* and cancellation or shutdown ends the job. Other jobs start and stop    *)
(* stacks that this job does not hold. A name list that may be nil is {}   *)
(* or {set of names}.                                                      *)
(***************************************************************************)
EXTENDS Integers, Sequences, SequencesExt, FiniteSets

CONSTANTS
  StackOrder,     \* the stacks in alphabetical order
  Services,       \* stack -> its services
  UpdateRequests, \* [mode, ids, excluded, pull, build, prune, volumes, keep, orphans, scheduled]
  PruneScopes,    \* non-empty sequences of prune steps
  maxAttempts,    \* 1 + the number of retry delays
  MaxChanges      \* bound: starts and stops by other jobs

Stacks == Range(StackOrder)

UpdatesAssumption == maxAttempts \in Nat \ {0}

VARIABLES
  stack,     \* stack -> [active, builds, updatable]
  changes,
  job,       \* the job and the worker's copy of its workflow
  row,       \* [state, wf]: what is stored
  ctx,       \* "ok" or "canceled"
  deployed,  \* history: stack -> services that this job brought up
  baseline,  \* history: stacks whose deploy baseline this job recorded
  pruned,    \* history: the prune step removed something
  started    \* history: stacks that were inactive when this job brought them up

vars == <<stack, changes, job, row, ctx, deployed, baseline, pruned, started>>
env == <<stack, changes>>
history == <<deployed, baseline, pruned, started>>

NoRequest == [mode |-> "none"]
NewJob == [pc |-> "new", kind |-> "none", req |-> NoRequest, targets |-> <<>>, locks |-> {}, wf |-> <<>>,
           at |-> 1, tries |-> 0, failed |-> {}, out |-> "none", disturbed |-> {}]
Terminal == {"succeeded", "failed", "cancelled"}

Init ==
  /\ stack \in [Stacks -> [active : BOOLEAN, builds : BOOLEAN, updatable : BOOLEAN]]
  /\ changes = 0
  /\ job = NewJob /\ row = [state |-> "none", wf |-> <<>>] /\ ctx = "ok"
  /\ deployed = [s \in Stacks |-> {}] /\ baseline = {} /\ pruned = FALSE /\ started = {}

-----------------------------------------------------------------------------
(* Starting. Step records carry the action, the stack and the services. *)
StepOf(action, s, names) == [action |-> action, stack |-> s, names |-> names, state |-> "queued"]

hasServiceExclusions(req) == \E s \in Stacks : req.excluded[s] # {}

ResolveTargetStacks(req) ==
  SelectSeq(StackOrder, LAMBDA s : stack[s].updatable /\ (req.mode = "all" \/ s \in req.ids))

TargetsAreValid(req) ==
  /\ req.mode = "selected" => req.ids # {} /\ \A s \in req.ids : stack[s].updatable
  /\ ResolveTargetStacks(req) # <<>>

(* nil for a stack without exclusions, else the services that remain, perhaps none. *)
resolveUpdateServiceTargets(req, s) ==
  IF req.excluded[s] = {} THEN {} ELSE {Services[s] \ req.excluded[s]}

maintenanceNeedsBuild(s, names) == stack[s].builds /\ (names = {} \/ \E n \in names : n # {})

(* Mutation: a scheduled update of selected stacks brings stopped ones up. *)
preserveOnlyAll(req) == req.mode = "all" \/ req.keep

preserveInactive(req) == req.mode = "all" \/ req.scheduled \/ req.keep

stackSteps(req, s) ==
  LET names == resolveUpdateServiceTargets(req, s)
      pull == IF req.pull THEN <<StepOf("pull", s, names)>> ELSE <<>>
      build == IF req.build /\ maintenanceNeedsBuild(s, names) THEN <<StepOf("build", s, names)>> ELSE <<>>
      keep == preserveInactive(req) /\ ~stack[s].active
  IN IF names = {{}} THEN <<StepOf("skip", s, {})>>
     ELSE pull \o build \o <<IF keep THEN StepOf("preserve_inactive", s, {}) ELSE StepOf("up", s, names)>>

buildUpdateWorkflow(req, targets) ==
  FlattenSeq([i \in DOMAIN targets |-> stackSteps(req, targets[i])])
    \o (IF req.prune THEN <<StepOf("prune", "workspace", {})>> ELSE <<>>)

RequestUpdate ==
  /\ job.pc = "new"
  /\ \E req \in UpdateRequests :
       /\ req.volumes => req.prune
       /\ ~(req.orphans /\ hasServiceExclusions(req))
       /\ TargetsAreValid(req)
       /\ \A s \in Stacks : req.excluded[s] # {} => s \in Range(ResolveTargetStacks(req)) /\ req.excluded[s] \subseteq Services[s]
       /\ LET targets == ResolveTargetStacks(req) IN
          job' = [NewJob EXCEPT !.pc = "lease", !.kind = "update", !.req = req, !.targets = targets,
                                !.locks = IF req.prune /\ req.volumes THEN Stacks ELSE Range(targets),
                                !.wf = buildUpdateWorkflow(req, targets)]
  /\ UNCHANGED <<env, row, ctx, history>>

StartPrune ==
  /\ job.pc = "new"
  /\ \E scope \in PruneScopes :
       job' = [NewJob EXCEPT !.pc = "lease", !.kind = "prune", !.locks = Stacks,
                             !.wf = [i \in DOMAIN scope |-> StepOf(scope[i], "workspace", {})]]
  /\ UNCHANGED <<env, row, ctx, history>>

Mark(wf, i, state) == [wf EXCEPT ![i].state = state]

(* jobs.StartWithResourcesAndWorkflow: the lease and the row; a conflict ends the request. *)
StartUpdate ==
  /\ job.pc = "lease"
  /\ \/ /\ job' = [job EXCEPT !.pc = "step", !.wf = Mark(@, 1, "running")]
        /\ row' = [state |-> "running", wf |-> job'.wf]
     \/ job' = [job EXCEPT !.pc = "refused"] /\ row' = row
  /\ UNCHANGED <<env, ctx, history>>

-----------------------------------------------------------------------------
(* UpdateWorkflow stores the worker's copy; it fails once the context is done, and that ends the job. *)
Cur == job.wf[job.at]

maintenanceFailure == IF row.state = "cancel_requested" /\ ctx = "canceled" THEN "cancelled" ELSE "failed"

(* finishUpdateFailure, finishPruneFailure: the step at the worker's index gets the state of the job. *)
finishFailure(wf) ==
  /\ job' = [job EXCEPT !.pc = "finish", !.wf = Mark(wf, job.at, maintenanceFailure), !.out = maintenanceFailure]
  /\ row' = [row EXCEPT !.wf = job'.wf]

UpdateWorkflow(next) ==
  IF ctx = "ok" THEN job' = next /\ row' = [row EXCEPT !.wf = next.wf] ELSE finishFailure(next.wf)

NextStep(state, failed) == [job EXCEPT !.wf = Mark(@, job.at, state), !.at = @ + 1, !.failed = failed, !.tries = 0]

updateStepSkipReason ==
  \/ Cur.action = "prune" /\ job.failed # {}
  \/ \E i \in job.failed : job.wf[i].stack = Cur.stack

BeginStep ==
  /\ job.pc = "step" /\ job.at <= Len(job.wf)
  /\ CASE job.kind = "update" /\ updateStepSkipReason -> UpdateWorkflow(NextStep("skipped", job.failed))
       [] job.kind = "update" /\ ~updateStepSkipReason /\ Cur.state # "running" ->
            UpdateWorkflow([job EXCEPT !.pc = "run", !.wf = Mark(@, job.at, "running"), !.tries = 1])
       [] OTHER -> job' = [job EXCEPT !.pc = "run", !.tries = 1] /\ row' = row
  /\ UNCHANGED <<env, ctx, history>>

(* Only pulls and builds, only while attempts remain and only after a transient error. *)
isRetryableUpdateStepError(kind) ==
  Cur.action \in {"pull", "build"} /\ job.tries < maxAttempts /\ kind = "transient" /\ ctx = "ok"

RecordsBaseline(s, names) == names = {}

(* What a step that succeeds has done. *)
runUpdateWorkflowStep ==
  LET s == Cur.stack
      names == IF Cur.names = {} THEN Services[s] ELSE UNION Cur.names
  IN CASE Cur.action = "up" ->
            /\ deployed' = [deployed EXCEPT ![s] = names]
            /\ started' = IF stack[s].active THEN started ELSE started \cup {s}
            /\ stack' = [stack EXCEPT ![s].active = TRUE]
            /\ baseline' = IF ctx = "ok" /\ RecordsBaseline(s, Cur.names) THEN baseline \cup {s} ELSE baseline
            /\ UNCHANGED pruned
       [] Cur.action = "prune" -> pruned' = TRUE /\ UNCHANGED <<stack, deployed, baseline, started>>
       [] OTHER -> UNCHANGED <<stack, deployed, baseline, pruned, started>>

(* An attempt fails and is tried again after a delay that the context may end. *)
RetryStep ==
  /\ job.pc = "run"
  /\ \E kind \in {"transient", "permanent"} : isRetryableUpdateStepError(kind)
  /\ job' = [job EXCEPT !.tries = @ + 1]
  /\ UNCHANGED <<env, row, ctx, history>>

FailStep ==
  /\ job.pc = "run"
  /\ \E kind \in {"transient", "permanent"} : ~isRetryableUpdateStepError(kind)
  /\ IF ctx = "canceled" \/ job.kind = "prune" THEN finishFailure(job.wf)
     ELSE UpdateWorkflow([NextStep("failed", job.failed \cup {job.at}) EXCEPT !.pc = "step"])
  /\ UNCHANGED <<env, ctx, history>>

(* A command that ends just before the context does has had its effect; what is stored afterwards fails. *)
FinishStep ==
  /\ job.pc = "run" /\ runUpdateWorkflowStep
  /\ UpdateWorkflow([NextStep("succeeded", job.failed) EXCEPT !.pc = "step",
        !.wf = IF job.kind = "prune" /\ job.at < Len(job.wf) THEN Mark(@, job.at + 1, "running") ELSE @])
  /\ UNCHANGED <<changes, ctx>>

Finish ==
  /\ \/ job.pc = "finish" /\ row' = [row EXCEPT !.state = job.out]
     \/ /\ job.pc = "step" /\ job.at > Len(job.wf)
        /\ row' = [row EXCEPT !.state = IF job.failed = {} THEN "succeeded" ELSE "failed"]
  /\ job' = [job EXCEPT !.pc = "done"]
  /\ UNCHANGED <<env, ctx, history>>

-----------------------------------------------------------------------------
Cancel ==
  /\ row.state = "running" /\ row' = [row EXCEPT !.state = "cancel_requested"] /\ ctx' = "canceled"
  /\ UNCHANGED <<env, job, history>>

BeginShutdown == ctx = "ok" /\ ctx' = "canceled" /\ UNCHANGED <<env, job, row, history>>

Held(s) == row.state \in {"running", "cancel_requested"} /\ s \in job.locks

(* Another job starts or stops a stack that this one does not hold. *)
OtherJob(s) ==
  /\ ~Held(s) /\ changes < MaxChanges /\ changes' = changes + 1
  /\ stack' = [stack EXCEPT ![s].active = ~@]
  /\ job' = [job EXCEPT !.disturbed = IF job.pc = "lease" THEN @ \cup {s} ELSE @]
  /\ UNCHANGED <<row, ctx, history>>

Next ==
  \/ RequestUpdate \/ StartPrune \/ Cancel \/ BeginShutdown \/ \E s \in Stacks : OtherJob(s)
  \/ StartUpdate \/ BeginStep \/ RetryStep \/ FailStep \/ FinishStep \/ Finish

Spec == Init /\ [][Next]_vars

-----------------------------------------------------------------------------
StepsOf(s) == {i \in DOMAIN row.wf : row.wf[i].stack = s}

(* Failures stay within their stack: when the job ended by itself, a stack has all its steps done, or one failed step
   after steps that succeeded and before steps that were skipped; the job succeeded if and only if every step did. *)
StackFailuresAreIsolated ==
  row.state \in Terminal /\ ctx = "ok" /\ job.kind = "update" =>
    /\ row.state = "succeeded" <=> \A i \in DOMAIN row.wf : row.wf[i].state = "succeeded"
    /\ \A s \in Stacks :
         \/ \A i \in StepsOf(s) : row.wf[i].state = "succeeded"
         \/ \E f \in StepsOf(s) : \A i \in StepsOf(s) :
              row.wf[i].state = (IF i < f THEN "succeeded" ELSE IF i = f THEN "failed" ELSE "skipped")

NoneRunning == \A i \in DOMAIN row.wf : row.wf[i].state # "running"

(* An update job that has ended shows no running step, however it ended. *)
UpdateStepsSettle == row.state \in Terminal /\ job.kind = "update" => NoneRunning

(* Prune after an update happens only when every step before it succeeded. *)
PruneNeedsSuccess == pruned => \A i \in 1..(Len(job.wf) - 1) : job.wf[i].state = "succeeded"

(* Services that the request excludes are never brought up, also when nothing of a stack is left. *)
ExcludedStayUntouched == job.kind = "update" => \A s \in Stacks : deployed[s] \cap job.req.excluded[s] = {}

(* The deploy baseline of drift detection is recorded only where the whole stack was deployed. *)
BaselineIsWholeStack == \A s \in baseline : deployed[s] = Services[s]

Preserving == job.kind = "update" /\ (job.req.mode = "all" \/ job.req.scheduled \/ job.req.keep)

(* An update of all stacks, a scheduled one or one that asks for it starts no stack that nobody touched after the
   workflow was planned. *)
UndisturbedStayInactive == Preserving => started \subseteq job.disturbed

(* An update isolates the failures of its stacks, prunes only after success, and leaves alone
   what was excluded or inactive (ExecuteUpdate). *)
UpdateIsSound ==
  StackFailuresAreIsolated /\ UpdateStepsSettle /\ PruneNeedsSuccess /\ ExcludedStayUntouched
  /\ BaselineIsWholeStack /\ UndisturbedStayInactive
=============================================================================
