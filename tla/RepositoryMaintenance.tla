------------------------ MODULE RepositoryMaintenance ------------------------
(***************************************************************************)
(* The evidence that repository checks leave on a destination, and what it *)
(* holds: retention, scheduled pruning, and pruning that an operator asks  *)
(* for with the token of the conditions they have reviewed.  Evidence of   *)
(* older versions is normalised at the start.  The time of a check is its  *)
(* number.                                                                 *)
(***************************************************************************)
EXTENDS Integers, FiniteSets

CONSTANTS
  Policies,                              \* what checks read: the metadata, a subset of the data, all
  MaxChecks, MaxCrashes, MaxStoreFailures   \* bounds of the instance
ASSUME PoliciesAssumption == Policies \subseteq {"metadata", "subset", "all"}

VARIABLES
  dest, disk, \* the destination in memory and in the database, with the unresolved findings
  found,      \* findings that no later check has resolved
  view,       \* the token an operator has read, and what was unresolved then
  job, bound

maintenanceVars == <<dest, disk, found, view, job, bound>>
Unknown == [st |-> "unknown", id |-> 0]
NoJob == [action |-> "none", by |-> "", policy |-> "", token |-> {}, seen |-> {}]
Finding(kind, policy, id) == [kind |-> kind, policy |-> policy, id |-> id]
Use(b, max) == bound[b] < max /\ bound' = [bound EXCEPT ![b] = @ + 1]

requiredCheckScope(policy) == IF policy = "metadata" THEN "metadata" ELSE "all"
laterCheckResolves(c, scope) == c.later /\ (c.ok = {"all"} \/ scope = "metadata")
knownNonIntegrityFailure(err) == err = "transport"
Failed(e) == e.st = "failed"

(* What an old version has stored: status and error of the last check, the scope of the last
   success, and whether that came later. *)
normalizeCheckEvidence(c) ==
  LET known == knownNonIntegrityFailure(c.err)
      ambiguous == c.status = "failed" /\ ~Failed(c.meta) /\ ~Failed(c.data) /\ ~known
      data == IF ambiguous THEN [st |-> "failed", id |-> 0] ELSE c.data
      good == c.status = "verified" \/ (c.status = "failed" /\ known /\ c.ok # {})
      inconclusive == c.hold = {} /\ c.err = "inconclusive" /\ ~laterCheckResolves(c, requiredCheckScope(c.policy))
  IN [meta |-> IF good /\ c.meta.st = "unknown" THEN [st |-> "verified", id |-> 0] ELSE c.meta,
      data |-> IF good /\ data.st = "unknown" /\ c.ok = {"all"} THEN [st |-> "verified", id |-> 0]
               ELSE IF good /\ data.st = "unknown" /\ c.ok = {"subset"} THEN [st |-> "sampled", id |-> 0] ELSE data,
      hold |-> IF inconclusive THEN {[scope |-> requiredCheckScope(c.policy), id |-> 0]} ELSE c.hold,
      status |-> "current", err |-> "", ok |-> {}, later |-> FALSE, policy |-> ""]
repositoryMaintenanceBlocked(c) == c.hold # {} \/ Failed(c.meta) \/ Failed(c.data) \/ c.status = "failed"
(* The unresolved conditions; their digest is the review token. *)
repositoryReviewFingerprint(c) ==
  {[scope |-> "metadata", id |-> e.id, hold |-> FALSE] : e \in {x \in {c.meta} : Failed(x)}}
  \cup {[scope |-> "data", id |-> e.id, hold |-> FALSE] : e \in {x \in {c.data} : Failed(x)}}
  \cup {[scope |-> h.scope, id |-> h.id, hold |-> TRUE] : h \in c.hold}

(* Mutation: a metadata check replaces the hold of a full read. *)
HoldReplaced(old, new) == {new}
(* A metadata check does not replace a hold that only a full read may resolve. *)
Hold(old, new) == IF old = {} \/ (\E h \in old : h.scope = "metadata") \/ new.scope = "all" THEN {new} ELSE old
Resolved(hold, policy) == {h \in hold : policy # "all" /\ h.scope # "metadata"}
(* A failed connection is an attempt only. *)
Attempted(c, id) == c
recordCheckAttempt(c, policy, id, outcome) ==
  LET n == normalizeCheckEvidence(c)
      failed == [st |-> "failed", id |-> id] IN
  CASE outcome = "integrity" -> IF policy = "metadata" THEN [n EXCEPT !.meta = failed] ELSE [n EXCEPT !.data = failed]
    [] outcome = "inconclusive" -> [n EXCEPT !.hold = Hold(@, [scope |-> requiredCheckScope(policy), id |-> id])]
    [] outcome = "transport" -> Attempted(n, id)
    [] OTHER -> [n EXCEPT !.hold = Resolved(@, policy), !.meta = [st |-> "verified", id |-> id],
                   !.data = IF policy = "all" THEN [st |-> "verified", id |-> id]
                            ELSE IF policy = "subset" /\ @.st \notin {"failed", "verified"} THEN [st |-> "sampled", id |-> id] ELSE @]

(* Findings that a good check resolves: a full read everything, others what a metadata check found. *)
Covered(policy) == {f \in found : policy = "all" \/ f.policy = "metadata"}
FindingsAfter(policy, id, outcome) ==
  IF outcome \in {"integrity", "inconclusive"} THEN found \cup {Finding(outcome, policy, id)}
  ELSE IF outcome = "ok" THEN found \ Covered(policy) ELSE found
LegacyFindings(c) ==
  {f \in {Finding("integrity", "all", 0), Finding("inconclusive", c.policy, 0)} :
     IF f.kind = "integrity" THEN c.status = "failed" /\ c.err # "transport"
     ELSE c.err = "inconclusive" /\ ~(c.later /\ (c.ok = {"all"} \/ c.policy = "metadata"))}

MaintenanceInit ==
  /\ \E s \in {"unknown", "verified", "failed"}, e \in {"", "transport", "ambiguous", "inconclusive"},
       ok \in {{}} \cup {{q} : q \in Policies}, p \in Policies, later \in BOOLEAN :
       /\ s = "failed" => e # "" /\ ~later
       /\ s = "unknown" => ok = {} /\ e # "ambiguous"
       /\ s = "verified" => ok # {} /\ e # "ambiguous"
       /\ later => ok # {}
       /\ dest = normalizeCheckEvidence([meta |-> Unknown, data |-> Unknown, hold |-> {}, status |-> s, err |-> e, ok |-> ok, later |-> later, policy |-> p])
       /\ found = LegacyFindings([status |-> s, err |-> e, ok |-> ok, later |-> later, policy |-> p])
  /\ disk = [d |-> dest, found |-> found] /\ view = [token |-> {}, seen |-> {}]
  /\ job = NoJob /\ bound = [checks |-> 0, crashes |-> 0, store |-> 0]
-----------------------------------------------------------------------------
(* An operator reads the destination with its review token. *)
Overview ==
  /\ view' = [token |-> repositoryReviewFingerprint(dest), seen |-> found] /\ UNCHANGED <<dest, disk, found, job, bound>>
validatePruneAcknowledgement(by, token) ==
  repositoryMaintenanceBlocked(dest) => by # "scheduler" /\ token # {} /\ token = repositoryReviewFingerprint(dest)
(* The reservation of the repository lets one job or run work at a time. *)
StartRepositoryJob(action, by, policy) ==
  /\ job = NoJob /\ (action = "prune" => validatePruneAcknowledgement(by, view.token))
  /\ job' = [action |-> action, by |-> by, policy |-> policy, token |-> view.token, seen |-> view.seen]
  /\ UNCHANGED <<dest, disk, found, view, bound>>
(* The end of ExecuteRepositoryJob writes the destination back; the database may refuse it. *)
ExecuteCheck ==
  /\ job.action = "check" /\ bound.checks < MaxChecks
  /\ \E outcome \in {"ok", "integrity", "inconclusive", "transport"}, saved \in BOOLEAN :
       /\ dest' = recordCheckAttempt(dest, job.policy, bound.checks + 1, outcome)
       /\ found' = FindingsAfter(job.policy, bound.checks + 1, outcome)
       /\ saved \/ bound.store < MaxStoreFailures
       /\ disk' = IF saved THEN [d |-> dest', found |-> found'] ELSE disk
       /\ bound' = [bound EXCEPT !.checks = @ + 1, !.store = IF saved THEN @ ELSE @ + 1]
  /\ job' = NoJob /\ UNCHANGED view
(* Pruning validates again before it deletes. *)
ExecutePrune ==
  /\ job.action = "prune"
  /\ job' = IF validatePruneAcknowledgement(job.by, job.token) THEN [job EXCEPT !.action = "deleted"] ELSE NoJob
  /\ UNCHANGED <<dest, disk, found, view, bound>>
retentionBlockedError == repositoryMaintenanceBlocked(dest)
(* executeRetention of a run: currentRetentionLocked decides with the current evidence. *)
executeRetention ==
  /\ job = NoJob /\ ~retentionBlockedError
  /\ job' = [NoJob EXCEPT !.action = "deleted", !.by = "retention"] /\ UNCHANGED <<dest, disk, found, view, bound>>
(* Whatever was deleted, the destination is written back. *)
FinishMaintenance ==
  /\ job.action = "deleted" /\ job' = NoJob /\ disk' \in {disk, [d |-> dest, found |-> found]} /\ UNCHANGED <<dest, found, view, bound>>
(* SaveDestination normalises and keeps the evidence of an idle destination. *)
SaveDestination ==
  /\ job = NoJob /\ dest' = normalizeCheckEvidence(dest) /\ disk' = [d |-> dest', found |-> found] /\ disk'.d # disk.d
  /\ UNCHANGED <<found, view, job, bound>>
Restart ==
  /\ Use("crashes", MaxCrashes) /\ dest' = normalizeCheckEvidence(disk.d) /\ found' = disk.found /\ job' = NoJob
  /\ UNCHANGED <<disk, view>>

MaintenanceNext ==
  \/ Overview
  \/ \E p \in Policies : StartRepositoryJob("check", "local", p)
  \/ \E by \in {"scheduler", "local"} : StartRepositoryJob("prune", by, "")
  \/ ExecuteCheck \/ ExecutePrune \/ executeRetention \/ FinishMaintenance \/ SaveDestination \/ Restart
MaintenanceSpec == MaintenanceInit /\ [][MaintenanceNext]_maintenanceVars
-----------------------------------------------------------------------------
(* Destructive maintenance is held exactly while a finding is unresolved: transport failures,
   samples and metadata checks neither create nor resolve what only a full read can. *)
BlockedIsUnresolved == repositoryMaintenanceBlocked(dest) <=> found # {}

(* Nothing is deleted while findings are unresolved, except by an operator who has seen them all, a
   metadata check under the hold of a full read aside. *)
DeletionIsReviewed ==
  job.action = "deleted" /\ found # {} =>
    /\ job.by = "local"
    /\ \A f \in found \ job.seen :
         f.kind = "inconclusive" /\ f.policy = "metadata" /\ \E g \in job.seen : g.kind = "inconclusive" /\ g.policy # "metadata"

(* A check that learns nothing about the repository does not invalidate a review. *)
TokenIsStable ==
  found' = found /\ bound'.checks > bound.checks => repositoryReviewFingerprint(dest)' = repositoryReviewFingerprint(dest)

(* Destructive maintenance is held exactly while a finding is unresolved and goes ahead only past
   findings that its operator has seen.  A check that learns nothing about the repository does
   not invalidate a review. *)
MaintenanceIsReviewed ==
  /\ [](BlockedIsUnresolved /\ DeletionIsReviewed)
  /\ [][TokenIsStable]_maintenanceVars
=============================================================================
