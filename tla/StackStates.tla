----------------------------- MODULE StackStates -----------------------------
(***************************************************************************)
(* The states that the stack reader derives for one stack from its files,  *)
(* its containers and its deploy baseline (internal/stacks/service.go).    *)
(* A compose file is a record [kind, services, crlf]: kind tells whether it *)
(* is there, readable and parseable, services are the names it declares    *)
(* and stand for its content, crlf is its line ending.  A container is a   *)
(* record [id, svc, status].                                               *)
(***************************************************************************)
EXTENDS Naturals, FiniteSets

Statuses == {"created", "running", "restarting", "paused", "exited", "dead"}

AbsentFile == [kind |-> "absent", services |-> {}, crlf |-> FALSE]
UnreadableFile == [kind |-> "unreadable", services |-> {}, crlf |-> FALSE]
MalformedFile == [kind |-> "malformed", services |-> {}, crlf |-> FALSE]
ComposeFile(services, crlf) == [kind |-> "valid", services |-> services, crlf |-> crlf]

(* The hash of a file: line endings are normalised first. *)
contentSHA256(file) == [file EXCEPT !.crlf = FALSE]

serviceStatusPriority(status) ==
  CASE status \in {"restarting", "dead"} -> 5
    [] status = "running" -> 4
    [] status = "paused" -> 3
    [] status = "created" -> 2
    [] status = "exited" -> 1
    [] OTHER -> 0

(* The status that speaks for a service: the highest among its replicas. *)
statusOf(svc, containers) ==
  LET mine == {c.status : c \in {k \in containers : k.svc = svc}} IN
  CHOOSE s \in mine : \A t \in mine : serviceStatusPriority(t) <= serviceStatusPriority(s)

deriveRuntimeState(defined, services, containers) ==
  LET seen == {c.svc : c \in containers}
      running == {s \in seen : statusOf(s, containers) = "running"}
      failing == {s \in seen : statusOf(s, containers) \in {"restarting", "dead"}}
      expected == IF services = {} THEN seen ELSE services
  IN IF ~defined /\ containers # {} THEN "orphaned"
     ELSE IF containers = {} THEN "defined"
     ELSE IF failing # {} THEN "error"
     ELSE IF running = {} THEN "stopped"
     ELSE IF Cardinality(running) < Cardinality(expected) THEN "partial"
     ELSE "running"

(* What scanDefinitions keeps of a stack directory whose compose file exists. *)
scanDefinition(compose) ==
  [exists |-> compose.kind # "absent",
   services |-> compose.services,
   config |-> IF compose.kind = "valid" THEN "unknown" ELSE "invalid",
   hash |-> contentSHA256(compose)]

(* Mutation: the comparison uses the hash of the first read. *)
configStateOfScan(scan, base, compose) ==
  IF ~scan.exists THEN "unknown"
  ELSE IF scan.config = "invalid" \/ base = {} THEN scan.config
  ELSE IF base = {scan.hash} THEN "in_sync" ELSE "drifted"

(* base is the set with the baseline's hash, or {}; compose is the file as currentDefinitionHashes reads it, after the scan. *)
configState(scan, base, compose) ==
  IF ~scan.exists THEN "unknown"
  ELSE IF scan.config = "invalid" \/ base = {} THEN scan.config
  ELSE IF compose.kind \notin {"absent", "unreadable"} /\ base = {contentSHA256(compose)} THEN "in_sync"
  ELSE "drifted"

availableActions(runtime, config, containers) ==
  IF runtime = "orphaned" THEN {"down"}
  ELSE IF config = "invalid" THEN {"validate", "save_definition"} \cup (IF containers # {} THEN {"stop", "down"} ELSE {})
  ELSE IF runtime = "defined" THEN {"validate", "up", "pull", "build", "save_definition", "remove_stack_definition"}
  ELSE {"validate", "up", "down", "pull", "build", "recreate", "save_definition", "remove_stack_definition"}
       \cup (IF runtime = "stopped" THEN {} ELSE {"restart", "stop"})

(* The stack as readStacks assembles it from its three reads; an orphan has no configuration to compare. *)
discoveredStack(scan, base, containers, compose) ==
  LET runtime == deriveRuntimeState(scan.exists, scan.services, containers)
      config == IF runtime = "orphaned" THEN "unknown" ELSE configState(scan, base, compose)
  IN [found |-> scan.exists \/ containers # {}, services |-> scan.services, containers |-> containers,
      runtime |-> runtime, config |-> config, deployed |-> base # {},
      actions |-> availableActions(runtime, config, containers)]

===============================================================================
