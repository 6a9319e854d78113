---------------------------- MODULE DockerObjects ----------------------------
(***************************************************************************)
(* Docker volumes and networks in the maintenance inventory                *)
(* (internal/maintenance/service.go): creating and deleting one by name,   *)
(* and pruning the unused external volumes. A request reads the managed    *)
(* stacks, the objects with their labels and the containers one after the  *)
(* other, decides, and asks Docker to remove, while stacks come and go.    *)
(***************************************************************************)
EXTENDS Integers, FiniteSets

CONSTANTS
  Stacks, VolumeNames, NetworkNames,
  Owner,       \* object name -> {} or {stack in its com.docker.compose.project label}
  Protected,   \* networks of Docker itself
  Requests     \* request slots

Names == VolumeNames \cup NetworkNames

VARIABLES
  managed,   \* stacks that Stacklab lists
  exists,    \* objects that Docker has
  mounts,    \* stack -> objects that its containers use; {} when it has no containers
  req,       \* request slot -> its progress
  lost       \* history: [name, managed, disturbed] of each removed object

vars == <<managed, exists, mounts, req, lost>>

NewRequest == [kind |-> "none", name |-> {}, pc |-> "new", managed |-> {}, rows |-> {}, used |-> {}, todo |-> {}, disturbed |-> FALSE]

(* What is left of a request that has been answered. *)
Answered == [NewRequest EXCEPT !.pc = "done"]

Init ==
  /\ managed \in SUBSET Stacks
  /\ exists = Protected
  /\ mounts = [s \in Stacks |-> {}]
  /\ req = [r \in Requests |-> NewRequest]
  /\ lost = {}

Pruning == \E r \in Requests : req[r].kind = "prune" /\ req[r].pc \in {"leased", "rows", "known", "removing"}

-----------------------------------------------------------------------------
(* Stacks as other jobs change them. A prune job holds the global lease. *)
Disturb == req' = [r \in Requests |-> [req[r] EXCEPT !.disturbed = @ \/ req[r].pc \notin {"new", "done"}]]

Own(s) == {n \in Names : Owner[n] = {s}}

CreateStack(s) ==
  /\ ~Pruning /\ s \notin managed
  /\ managed' = managed \cup {s} /\ Disturb /\ UNCHANGED <<exists, mounts, lost>>

Up(s) ==
  /\ ~Pruning /\ s \in managed
  /\ \E ext \in SUBSET {n \in exists \cap VolumeNames : Owner[n] = {}} :
       mounts' = [mounts EXCEPT ![s] = Own(s) \cup ext]
  /\ exists' = exists \cup Own(s) /\ Disturb /\ UNCHANGED <<managed, lost>>

(* docker compose down: the containers and the networks of the project go, its volumes stay. *)
Down(s) ==
  /\ ~Pruning /\ mounts[s] # {}
  /\ mounts' = [mounts EXCEPT ![s] = {}]
  /\ exists' = exists \ (Own(s) \cap NetworkNames) /\ Disturb /\ UNCHANGED <<managed, lost>>

DeleteStack(s) ==
  /\ ~Pruning /\ s \in managed /\ mounts[s] = {}
  /\ managed' = managed \ {s} /\ Disturb /\ UNCHANGED <<exists, mounts, lost>>

-----------------------------------------------------------------------------
(* Inventory operators on what a request has read. *)
Step(r, to) == req' = [req EXCEPT ![r] = to]

(* Containers using an object, and the managed stacks among their projects. *)
objectUsage(q, n) == {u \in q.used : u.name = n}

(* Mutation: the label of the object is ignored. *)
labelsIgnored(q, n) == {}

labelsToStackUsage(q, n) == Owner[n] \cap q.managed

mergeStackServiceUsage(q, n) == ({u.stack : u \in objectUsage(q, n)} \cap q.managed) \cup labelsToStackUsage(q, n)

Item(q, n) == [name |-> n, unused |-> objectUsage(q, n) = {},
               source |-> IF mergeStackServiceUsage(q, n) = {} THEN "external" ELSE "stack_managed"]

matchesUsageOrigin(item) == item.unused /\ item.source = "external"

Volumes(q) == {Item(q, n) : n \in q.rows \cap VolumeNames}
Networks(q) == {Item(q, n) : n \in q.rows \cap NetworkNames}

-----------------------------------------------------------------------------
listManagedStackIDs(r, kind, name) ==
  /\ req[r].pc = "new"
  /\ Step(r, [NewRequest EXCEPT !.kind = kind, !.name = name, !.pc = "listed", !.managed = managed])
  /\ UNCHANGED <<managed, exists, mounts, lost>>

handleDeleteMaintenanceVolume(r) == \E n \in VolumeNames : listManagedStackIDs(r, "delete", {n})

(* DeleteNetwork refuses the protected names before it reads anything. *)
handleDeleteMaintenanceNetwork(r) == \E n \in NetworkNames \ Protected : listManagedStackIDs(r, "delete", {n})

handleMaintenancePrune(r) == listManagedStackIDs(r, "prune", {})

(* StartPrune takes the global lease; a request of another kind goes on without one. *)
StartPrune(r) ==
  /\ req[r].kind = "prune" /\ req[r].pc = "listed"
  /\ Step(r, IF Pruning THEN Answered ELSE [req[r] EXCEPT !.pc = "leased"])
  /\ UNCHANGED <<managed, exists, mounts, lost>>

(* docker volume ls or network ls, and inspect: an object that is gone meanwhile fails the request. *)
listObjects(r) ==
  /\ req[r].pc = IF req[r].kind = "prune" THEN "leased" ELSE "listed"
  /\ Step(r, [req[r] EXCEPT !.pc = "rows", !.rows = exists])
  /\ UNCHANGED <<managed, exists, mounts, lost>>

inspectAllContainers(r) ==
  /\ req[r].pc = "rows"
  /\ Step(r, [req[r] EXCEPT !.pc = "known", !.used = UNION {{[name |-> n, stack |-> s] : n \in mounts[s]} : s \in Stacks}])
  /\ UNCHANGED <<managed, exists, mounts, lost>>

Unavailable(r) ==
  /\ req[r].pc \in {"listed", "leased", "rows"} /\ Step(r, Answered)
  /\ UNCHANGED <<managed, exists, mounts, lost>>

(* DeleteVolume, DeleteNetwork: the object by name, external and unused. *)
DeleteObject(r) ==
  LET q == req[r]
      found == {i \in Volumes(q) \cup Networks(q) : i.name \in q.name}
  IN /\ q.kind = "delete" /\ q.pc = "known"
     /\ Step(r, IF found # {} /\ \A i \in found : matchesUsageOrigin(i)
                THEN [q EXCEPT !.pc = "removing", !.rows = {}, !.used = {}, !.todo = q.name] ELSE Answered)
     /\ UNCHANGED <<managed, exists, mounts, lost>>

pruneExternalVolumes(r) ==
  LET q == req[r] IN
  /\ q.kind = "prune" /\ q.pc = "known"
  /\ Step(r, [q EXCEPT !.pc = "removing", !.rows = {}, !.used = {},
                       !.todo = {i.name : i \in {j \in Volumes(q) : matchesUsageOrigin(j)}}])
  /\ UNCHANGED <<managed, exists, mounts, lost>>

(* docker volume rm, docker network rm: refused while a container uses the object; the first failure ends the prune. *)
InUse(n) == \E s \in Stacks : n \in mounts[s]

dockerRemove(r) ==
  LET q == req[r] IN
  /\ q.pc = "removing" /\ q.todo # {}
  /\ \E n \in q.todo :
       IF n \in exists /\ ~InUse(n)
       THEN /\ exists' = exists \ {n}
            /\ lost' = lost \cup {[name |-> n, managed |-> Owner[n] \cap managed # {}, disturbed |-> q.disturbed]}
            /\ Step(r, [q EXCEPT !.todo = @ \ {n}])
       ELSE Step(r, Answered) /\ UNCHANGED <<exists, lost>>
  /\ UNCHANGED <<managed, mounts>>

Finish(r) ==
  /\ req[r].pc = "removing" /\ req[r].todo = {}
  /\ Step(r, Answered) /\ UNCHANGED <<managed, exists, mounts, lost>>

(* CreateVolume and CreateNetwork: a name that Docker lists is refused. *)
CreateObject(n) ==
  /\ n \notin exists /\ Owner[n] = {} /\ exists' = exists \cup {n} /\ UNCHANGED <<managed, mounts, req, lost>>

Next ==
  \/ \E s \in Stacks : CreateStack(s) \/ Up(s) \/ Down(s) \/ DeleteStack(s)
  \/ \E n \in Names : CreateObject(n)
  \/ \E r \in Requests :
       \/ handleDeleteMaintenanceVolume(r) \/ handleDeleteMaintenanceNetwork(r) \/ handleMaintenancePrune(r)
       \/ StartPrune(r) \/ listObjects(r) \/ inspectAllContainers(r) \/ Unavailable(r)
       \/ DeleteObject(r) \/ pruneExternalVolumes(r) \/ dockerRemove(r) \/ Finish(r)

Spec == Init /\ [][Next]_vars

-----------------------------------------------------------------------------
(* A request that no stack operation disturbs never removes an object that belongs to a managed stack, not even
   the volumes of a stack without containers. *)
UndisturbedIsSafe == \A x \in lost : x.managed => x.disturbed

(* Docker's own networks survive every sequence of requests. *)
ProtectedStay == Protected \subseteq exists

(* No removal takes an object of a managed stack that nothing disturbs, or one of Docker's own
   networks. *)
RemovalsAreSafe == UndisturbedIsSafe /\ ProtectedStay
=============================================================================
