---------------------------- MODULE DaemonConfig ----------------------------
(***************************************************************************)
(* The managed settings of the Docker daemon (internal/dockeradmin, the    *)
(* docker admin helper and the job around them): the settings are merged   *)
(* into daemon.json, the helper saves the file it finds, writes the new    *)
(* one, restarts Docker, and takes the file back and restarts again when   *)
(* Docker does not come up.  An administrator edits the file at any time,  *)
(* the job may be cancelled, and every call may fail.  One job at a time   *)
(* holds the lease of the daemon.                                          *)
(***************************************************************************)
EXTENDS Integers, Functions

CONSTANTS
  Contents,   \* contents of daemon.json that an administrator may leave: [kind, keys]
  Requests,   \* managed settings to set and managed keys to remove: [set, remove]
  Stamps,     \* times of backups, as their names tell them apart
  MaxJobs, MaxEdits

DaemonConfigAssumption ==
  {MaxJobs, MaxEdits} \subseteq Nat /\ \A c \in Contents : c.kind \in {"absent", "junk", "conf"}

VARIABLES
  file,      \* daemon.json
  backups,   \* [name -> content]
  docker,    \* whether the daemon runs, and the file it was started with
  job,       \* the running or last job and its helper
  touched,   \* an administrator has edited the file since the job has read it
  saved,     \* contents the helper has overwritten, that nobody else was editing
  jobs, edits

vars == <<file, backups, docker, job, touched, saved, jobs, edits>>
Put(f, n, v) == [x \in DOMAIN f \cup {n} |-> IF x = n THEN v ELSE f[x]]
Conf(keys) == [kind |-> "conf", keys |-> keys]
Absent == [kind |-> "absent", keys |-> <<>>]
NoJob == [pc |-> "idle", request |-> [set |-> <<>>, remove |-> {}], input |-> Absent, base |-> Absent,
          prev |-> Absent, rollback |-> "no", active |-> FALSE, cancelled |-> FALSE, state |-> "none"]

Init ==
  /\ file \in Contents /\ backups = <<>> /\ docker = [up |-> TRUE, with |-> file] /\ job = NoJob
  /\ touched = FALSE /\ saved = {} /\ jobs = 0 /\ edits = 0
-----------------------------------------------------------------------------
(* Settings first, then removals: a key that is both set and removed goes. *)
applyManaged(keys, r) ==
  [k \in (DOMAIN r.set \cup DOMAIN keys) \ r.remove |-> IF k \in DOMAIN r.set THEN r.set[k] ELSE keys[k]]
(* A missing or empty file counts as one without keys. *)
Preview(r) == Conf(applyManaged(file.keys, r))
ValidateManagedConfig(r) == (DOMAIN r.set # {} \/ r.remove # {}) /\ file.kind # "junk"

(* The request is validated against the file before the job exists. *)
handleApply(r) ==
  /\ job.pc = "idle" /\ jobs < MaxJobs /\ ValidateManagedConfig(r)
  /\ job' = [NoJob EXCEPT !.pc = "apply", !.request = r, !.input = Preview(r), !.state = "running"]
  /\ jobs' = jobs + 1 /\ UNCHANGED <<file, backups, docker, touched, saved, edits>>
End(state) == [job EXCEPT !.pc = "idle", !.state = IF job.cancelled THEN "cancelled" ELSE state]
Fails == job' = End("failed")
(* The job validates again, against the file as it is now, and writes the input of the helper. *)
ApplyManagedConfig ==
  /\ job.pc = "apply"
  /\ \/ ValidateManagedConfig(job.request) /\ touched' = FALSE
        /\ job' = [job EXCEPT !.pc = "backup", !.input = Preview(job.request), !.base = file]
     \/ Fails /\ UNCHANGED touched
  /\ UNCHANGED <<file, backups, docker, saved, jobs, edits>>
-----------------------------------------------------------------------------
writeUniqueBackup(stamp) == <<stamp, CHOOSE n \in 0..MaxJobs : <<stamp, n>> \notin DOMAIN backups
                                       /\ \A m \in 0..(n - 1) : <<stamp, m>> \in DOMAIN backups>>
backupExistingConfig ==
  /\ job.pc = "backup" /\ UNCHANGED <<file, docker, touched, saved, jobs, edits>>
  /\ \/ /\ job' = [job EXCEPT !.pc = "write", !.prev = file]
        /\ IF file.kind = "absent" THEN UNCHANGED backups
           ELSE \E t \in Stamps : backups' = Put(backups, writeUniqueBackup(t), file)
     \/ Fails /\ UNCHANGED backups
atomicWrite ==
  /\ job.pc = "write" /\ UNCHANGED <<backups, docker, touched, jobs, edits>>
  /\ \/ /\ file' = job.input /\ job' = [job EXCEPT !.pc = "restart"]
        /\ saved' = IF touched \/ file.kind = "absent" THEN saved ELSE saved \cup {file}
     \/ Fails /\ UNCHANGED <<file, saved>>
(* systemctl restarts the daemon and shows it active, or either goes wrong. *)
restartAndVerify(good, bad) ==
  \/ docker' = [up |-> TRUE, with |-> file] /\ job' = good
  \/ \E up \in BOOLEAN : docker' = [up |-> up, with |-> file] /\ job' = bad
  \/ UNCHANGED docker /\ job' = bad
Restart ==
  /\ job.pc = "restart" /\ UNCHANGED <<file, backups, touched, saved, jobs, edits>>
  /\ restartAndVerify(IF job.cancelled THEN End("cancelled") ELSE [job EXCEPT !.pc = "overview"],
                      [job EXCEPT !.pc = "rollback"])
(* Mutation: a file that was not there before is left in place. *)
RollbackOrKeep ==
  /\ job.pc = "rollback" /\ UNCHANGED <<backups, docker, touched, saved, jobs, edits>>
  /\ file' = (IF job.prev.kind = "absent" THEN file ELSE job.prev)
  /\ job' = [job EXCEPT !.pc = "restart again", !.rollback = "succeeded"]
rollbackConfig ==
  /\ job.pc = "rollback" /\ UNCHANGED <<backups, docker, touched, saved, jobs, edits>>
  /\ \/ file' = job.prev /\ job' = [job EXCEPT !.pc = "restart again", !.rollback = "succeeded"]
     \/ job' = [End("failed") EXCEPT !.rollback = "failed"] /\ UNCHANGED file
RestartAgain ==
  /\ job.pc = "restart again" /\ UNCHANGED <<file, backups, touched, saved, jobs, edits>>
  /\ restartAndVerify([End("failed") EXCEPT !.active = TRUE], End("failed"))
(* The helper has succeeded; Docker is asked once more.  A cancellation that comes now makes the
   look fail or comes too late. *)
Overview ==
  /\ job.pc = "overview" /\ UNCHANGED <<file, backups, docker, touched, saved, jobs, edits>>
  /\ \E state \in {"failed"} \cup (IF docker.up THEN {"succeeded"} ELSE {}) :
       job' = [job EXCEPT !.pc = "idle", !.state = state]
-----------------------------------------------------------------------------
(* A cancellation kills the helper, and its result is lost; one that runs under sudo goes on, the
   job waits for it and is cancelled whatever the helper did. *)
Cancel ==
  /\ job.pc # "idle" /\ ~job.cancelled
  /\ \/ job.pc # "overview" /\ job' = [End("cancelled") EXCEPT !.state = "cancelled", !.rollback = "no"]
     \/ job' = [job EXCEPT !.cancelled = TRUE]
  /\ UNCHANGED <<file, backups, docker, touched, saved, jobs, edits>>
Edit(c) ==
  /\ edits < MaxEdits /\ file # c /\ file' = c /\ touched' = TRUE /\ edits' = edits + 1
  /\ UNCHANGED <<backups, docker, job, saved, jobs>>
(* The daemon stops or is started by someone else. *)
DockerChanges ==
  /\ docker' \in {[docker EXCEPT !.up = FALSE], [up |-> TRUE, with |-> file]} /\ docker' # docker
  /\ UNCHANGED <<file, backups, job, touched, saved, jobs, edits>>

Next ==
  \/ \E r \in Requests : handleApply(r)
  \/ ApplyManagedConfig \/ backupExistingConfig \/ atomicWrite \/ Restart \/ rollbackConfig
  \/ RestartAgain \/ Overview \/ Cancel \/ DockerChanges
  \/ \E c \in Contents : Edit(c)
Spec == Init /\ [][Next]_vars
-----------------------------------------------------------------------------
(* What the helper wrote over can still be found, however many jobs came after it, in whichever
   state they ended: it is the file or in a backup.  An edit made while the job was at work is
   excepted, as it may have come after the backup. *)
OverwrittenIsSaved == \A c \in saved : c = file \/ c \in Range(backups)

Ends == job.pc # "idle" /\ job'.pc = "idle"
(* A job that succeeds has changed what it was asked to and nothing else: the file is the one the
   job has found, with the managed keys of the request set or removed, and Docker runs with it.
   An edit made before the job's own look at the file is kept. *)
SuccessIsExact ==
  Ends /\ job'.state = "succeeded" /\ ~touched =>
    /\ file = Conf(applyManaged(job.base.keys, job.request))
    /\ docker = [up |-> TRUE, with |-> file]

(* A failed restart is taken back: where the result says that the rollback has succeeded, the file
   is as the job has found it, also when there was none, and Docker runs with it if the result
   says that it is active. *)
RollbackIsExact ==
  Ends /\ job'.rollback = "succeeded" /\ ~touched =>
    file = job.base /\ (job'.active => docker' = [up |-> TRUE, with |-> job.base])

(* The result of a job tells what became of the file and of Docker: a success is exactly the
   change asked for, a rollback exactly what was there before (parseHelperApplyOutput,
   rollbackConfig), and what a job wrote over is never lost. *)
ResultIsExact == []OverwrittenIsSaved /\ [][SuccessIsExact /\ RollbackIsExact]_vars
=============================================================================
