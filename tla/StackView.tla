------------------------------ MODULE StackView ------------------------------
(***************************************************************************)
(* Reading one stack while its files, its containers and its baseline      *)
(* change: readStacks scans the definitions, then loads the baselines,     *)
(* then asks Docker and hashes the files again.                            *)
(***************************************************************************)
EXTENDS StackStates

CONSTANTS
  Names,      \* service names
  Ids         \* containers of the stack

VARIABLES
  compose,    \* the compose file on disk
  containers, \* the containers that carry the stack's label
  docker,     \* Docker answers
  baseline,   \* {} or {hash of the definition deployed last}
  reading     \* the read in progress: its phase and what it has read

vars == <<compose, containers, docker, baseline, reading>>

Idle == [phase |-> "idle", scan |-> scanDefinition(AbsentFile), base |-> {}]

Files == {AbsentFile, UnreadableFile, MalformedFile} \cup {ComposeFile(s, c) : s \in SUBSET Names, c \in BOOLEAN}

Init ==
  /\ compose = AbsentFile /\ containers = {} /\ docker = TRUE /\ baseline = {}
  /\ reading = Idle

(* The operator or another tool replaces the compose file. *)
Write(file) ==
  /\ compose' = file
  /\ UNCHANGED <<containers, docker, baseline, reading>>

(* Docker: a container appears or changes, or goes. *)
Container(id, svc, status) ==
  /\ containers' = {c \in containers : c.id # id} \cup {[id |-> id, svc |-> svc, status |-> status]}
  /\ UNCHANGED <<compose, docker, baseline, reading>>

Gone(id) ==
  /\ \E c \in containers : c.id = id
  /\ containers' = {c \in containers : c.id # id}
  /\ UNCHANGED <<compose, docker, baseline, reading>>

Outage ==
  /\ docker' = ~docker
  /\ UNCHANGED <<compose, containers, baseline, reading>>

(* RecordDeployBaseline after a deployment, DeleteStackDeployBaseline with the definition. *)
RecordDeployBaseline ==
  /\ compose.kind \notin {"absent", "unreadable"}
  /\ baseline' = {contentSHA256(compose)}
  /\ UNCHANGED <<compose, containers, docker, reading>>

RemoveDefinition ==
  /\ compose' = AbsentFile /\ baseline' = {}
  /\ UNCHANGED <<containers, docker, reading>>

scanDefinitions ==
  /\ reading.phase = "idle"
  /\ reading' = [phase |-> "scanned", scan |-> scanDefinition(compose), base |-> {}]
  /\ UNCHANGED <<compose, containers, docker, baseline>>

loadDeployBaselines ==
  /\ reading.phase = "scanned"
  /\ reading' = [reading EXCEPT !.phase = "loaded", !.base = baseline]
  /\ UNCHANGED <<compose, containers, docker, baseline>>

(* A Docker that does not answer is read as no containers. *)
scanRuntime == IF docker THEN containers ELSE {}

(* What the read returns if it ends now. *)
view == discoveredStack(reading.scan, reading.base, scanRuntime, compose)

readStacks ==
  /\ reading.phase = "loaded"
  /\ reading' = Idle
  /\ UNCHANGED <<compose, containers, docker, baseline>>

Next ==
  \/ \E f \in Files : Write(f)
  \/ \E id \in Ids, s \in Names, st \in Statuses : Container(id, s, st)
  \/ \E id \in Ids : Gone(id)
  \/ Outage
  \/ RecordDeployBaseline
  \/ RemoveDefinition
  \/ scanDefinitions
  \/ loadDeployBaselines
  \/ readStacks

Spec == Init /\ [][Next]_vars

-----------------------------------------------------------------------------
returned == reading.phase = "loaded"

(* A definition that was invalid when it was read is offered neither for deployment nor for restarting: only for
   validation, editing and taking its containers down (availableActions). *)
InvalidIsNotDeployed ==
  returned /\ view.config = "invalid" => view.actions \cap {"up", "pull", "build", "recreate", "restart"} = {}

(* A stack shown as running or partial has no failing container, and one shown in error has one, even when the failing
   container is a replica of a service that also runs (deriveRuntimeState). *)
FailureIsShown ==
  returned /\ view.found /\ view.runtime # "orphaned" =>
    ((\E c \in view.containers : c.status \in {"restarting", "dead"}) <=> view.runtime = "error")

(* A stack is in sync only with the files as they are when the read ends: an edit during the read is seen
   (readStacks hashes the files after the scan). *)
SyncIsCurrent ==
  returned /\ view.config = "in_sync" => {contentSHA256(compose)} = reading.base

(* What is shown of a stack and offered for it follows from its files and its containers, also
   when the files change during the read. *)
ViewIsTruthful == InvalidIsNotDeployed /\ FailureIsShown /\ SyncIsCurrent
===============================================================================
