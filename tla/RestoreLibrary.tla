--------------------------- MODULE RestoreLibrary ---------------------------
(***************************************************************************)
(* Isolated restores and their registrations: a restore makes a new        *)
(* directory, fills it and registers it, or removes it again when it is    *)
(* one of Stacklab's own; a result is deleted outside the lock; a review   *)
(* of a result is applied by a later job.  The result of a job has the     *)
(* name of the job, and every destination holds one snapshot.              *)
(***************************************************************************)
EXTENDS Integers, FiniteSets, Functions

CONSTANTS
  Jobs, Destinations,
  Custom,     \* directories that operators choose
  Limit,      \* results of a full library (200)
  MaxReviews, \* outstanding reviews (64)
  MaxTokens, MaxCrashes, MaxStoreFailures, MaxOperator, MaxFailedRemovals   \* bounds of the instance

VARIABLES
  lib, disk,   \* registrations in memory and in the database, by directory
  dirs,        \* the directories that exist: the job that made one, and what it holds
  job,         \* the jobs, each of which runs once
  deletes,     \* restoreDeletes, with the result that was asked for and whether its files are gone
  preview,     \* the review that is being prepared
  reviews,
  applied,     \* every apply: its token, the data reviewed, the data read and the result they stand for
  orphans,     \* directories that a crash or a failed removal has left
  bound

files == <<lib, disk, dirs, deletes, orphans>>
recovery == <<preview, reviews, applied>>
vars == <<files, job, recovery, bound>>
Managed == Jobs
Whole == {"manifest", "archives", "files"}
Idle == [pc |-> "new", dest |-> 0, target |-> "", token |-> 0]
Use(b, max) == bound[b] < max /\ bound' = [bound EXCEPT ![b] = @ + 1]
Removed(f, t) == Restrict(f, DOMAIN f \ {t})
With(f, t, v) == [x \in DOMAIN f \cup {t} |-> IF x = t THEN v ELSE f[x]]

Active == {j \in Jobs : job[j].pc \notin {"new", "done"}}
Global == \E j \in Active : job[j].pc \in {"upgraded", "resolved", "accepted"}
At(j, pc) == job[j].pc = pc
Done == [Idle EXCEPT !.pc = "done"]
Go(j, pc) == job' = [job EXCEPT ![j] = IF pc = "done" THEN Done ELSE [@ EXCEPT !.pc = pc]]

Init ==
  /\ lib = <<>> /\ disk = <<>> /\ dirs = <<>> /\ deletes = {} /\ orphans = {}
  /\ job = [j \in Jobs |-> Idle] /\ preview = {} /\ reviews = {} /\ applied = {}
  /\ bound = [tokens |-> 0, crashes |-> 0, store |-> 0, operator |-> 0, removals |-> 0]

(* persist: the database may refuse what is already in memory. *)
Persisted(l) == disk' = l /\ UNCHANGED bound
NotPersisted == disk' = disk /\ Use("store", MaxStoreFailures)
-----------------------------------------------------------------------------
(* StartRepositoryJob of a restore or an apply reserves the repository of its destination. *)
StartRepositoryJob(j, d, pc, target, token) ==
  /\ At(j, "new") /\ ~Global /\ \A i \in Active : job[i].dest # d
  /\ \A i \in Jobs : At(i, "new") => j <= i
  /\ job' = [job EXCEPT ![j] = [pc |-> pc, dest |-> d, target |-> target, token |-> token]]
  /\ UNCHANGED <<files, recovery, bound>>
(* restore: the selection, the space and the repository are checked before the directory is made. *)
libraryFull == Cardinality(DOMAIN lib) >= Limit
MakeDirectory(j) ==
  /\ At(j, "restore") /\ UNCHANGED <<lib, disk, deletes, orphans, recovery, bound>>
  /\ \/ Go(j, "done") /\ UNCHANGED dirs
     \/ /\ ~libraryFull /\ job[j].target \notin DOMAIN dirs
        /\ dirs' = With(dirs, job[j].target, [by |-> j, parts |-> {}]) /\ Go(j, "fill")
(* restic, then the extraction of the archives; each of them may fail half way. *)
Fill(j) ==
  /\ At(j, "fill") /\ job[j].target \in DOMAIN dirs
  /\ \E parts \in {Whole, {"manifest"}, {"manifest", "archives"}} :
       dirs' = [dirs EXCEPT ![job[j].target].parts = parts] /\ Go(j, IF parts = Whole THEN "register" ELSE "failed")
  /\ UNCHANGED <<lib, disk, deletes, orphans, recovery, bound>>
(* An operator has removed the directory meanwhile. *)
FillGone(j) ==
  /\ At(j, "fill") /\ job[j].target \notin DOMAIN dirs /\ Go(j, "failed") /\ UNCHANGED <<files, recovery, bound>>
Deleting(t) == \E e \in deletes : e.target = t
admitsResult(j) == ~Deleting(job[j].target) /\ (job[j].target \in DOMAIN lib \/ ~libraryFull)
registerRestoreResult(j) ==
  /\ At(j, "register") /\ UNCHANGED <<dirs, deletes, orphans, recovery>>
  /\ IF ~admitsResult(j) THEN Go(j, "failed") /\ UNCHANGED <<lib, disk, bound>>
     ELSE /\ lib' = With(lib, job[j].target, [id |-> j, dest |-> job[j].dest])
          /\ \/ Persisted(lib') /\ Go(j, "done")
             \/ NotPersisted /\ Go(j, "failed")
Owned(j) == job[j].target \in Managed /\ job[j].target \in DOMAIN dirs
(* The deferred removal of a failed restore; a directory of the operator stays. *)
CleanUp(j) ==
  /\ At(j, "failed") /\ Go(j, "done") /\ UNCHANGED <<lib, disk, deletes, recovery>>
  /\ IF ~Owned(j) THEN UNCHANGED <<dirs, orphans, bound>>
     ELSE \/ dirs' = Removed(dirs, job[j].target) /\ UNCHANGED <<orphans, bound>>
          \/ Use("removals", MaxFailedRemovals) /\ orphans' = orphans \cup {job[j].target} /\ UNCHANGED dirs
-----------------------------------------------------------------------------
configurationBusyLocked == Active # {} \/ deletes # {}
DeleteRestore(t) ==
  /\ t \in DOMAIN lib /\ ~configurationBusyLocked
  /\ deletes' = {[target |-> t, id |-> lib[t].id, pc |-> "begun"]}
  /\ UNCHANGED <<lib, disk, dirs, orphans, job, recovery, bound>>
(* Only Stacklab's own directories are removed; a removal that fails has removed some of it. *)
deleteManagedRestore ==
  \E e \in deletes :
    /\ e.pc = "begun" /\ UNCHANGED <<lib, disk, orphans, job, recovery>>
    /\ \/ e.target \notin Managed \cap DOMAIN dirs /\ deletes' = {[e EXCEPT !.pc = "removed"]} /\ UNCHANGED <<dirs, bound>>
       \/ e.target \in Managed /\ dirs' = Removed(dirs, e.target) /\ e.target \in DOMAIN dirs
          /\ deletes' = {[e EXCEPT !.pc = "removed"]} /\ UNCHANGED bound
       \/ e.target \in Managed \cap DOMAIN dirs /\ Use("removals", MaxFailedRemovals)
          /\ (\E parts \in SUBSET dirs[e.target].parts : dirs' = [dirs EXCEPT ![e.target].parts = parts])
          /\ deletes' = {[e EXCEPT !.pc = "failed"]}
FinishDelete ==
  \E e \in deletes :
    /\ e.pc \in {"removed", "failed"} /\ deletes' = {} /\ UNCHANGED <<dirs, job, recovery, orphans>>
    /\ IF e.pc = "failed" THEN UNCHANGED <<lib, disk, bound>>
       ELSE lib' = Removed(lib, e.target) /\ (Persisted(lib') \/ NotPersisted)
-----------------------------------------------------------------------------
ResolveRestore(t) == t \in DOMAIN lib /\ ~Deleting(t)
Readable(t) == t \in DOMAIN dirs /\ {"manifest", "archives"} \subseteq dirs[t].parts
(* normalizeRecoveryRequest, then the manifest and the digest of the archives. *)
PreviewRestore(t) ==
  /\ preview = {} /\ ResolveRestore(t) /\ preview' = {t} /\ UNCHANGED <<files, job, reviews, applied, bound>>
recoveryFingerprint(t) == dirs[t]
EndPreview ==
  \E t \in preview :
    /\ preview' = {} /\ UNCHANGED <<files, job, applied>>
    /\ IF t \in DOMAIN lib /\ Readable(t) /\ Cardinality(reviews) < MaxReviews
       THEN Use("tokens", MaxTokens) /\ reviews' = reviews \cup {[token |-> bound.tokens + 1, target |-> t, data |-> recoveryFingerprint(t), id |-> lib[t].id]}
       ELSE UNCHANGED <<reviews, bound>>
Expire == \E r \in reviews : reviews' = reviews \ {r} /\ UNCHANGED <<files, job, preview, applied, bound>>

StartApply(j) ==
  \E token \in 1..bound.tokens, t \in DOMAIN lib : StartRepositoryJob(j, lib[t].dest, "apply", t, token)
(* ReplaceResources to the global resource fails beside another job. *)
Upgrade(j) ==
  /\ At(j, "apply") /\ Go(j, IF Active = {j} THEN "upgraded" ELSE "done") /\ UNCHANGED <<files, recovery, bound>>
normalizeRecoveryRequest(j) ==
  /\ At(j, "upgraded") /\ UNCHANGED <<files, recovery, bound>>
  /\ Go(j, IF ResolveRestore(job[j].target) /\ lib[job[j].target].dest = job[j].dest THEN "resolved" ELSE "done")
Consumed(token) == {r \in reviews : r.token # token}
(* Mutation: a result is accepted for its name. *)
AcceptsResult(r, t) == r.id = lib[t].id
Accepts(r, t) == r.id = lib[t].id /\ r.data = recoveryFingerprint(t)
(* applyReviewedRestore: the token is used up before it is compared. *)
applyReviewedRestore(j) ==
  LET t == job[j].target IN
  /\ At(j, "resolved") /\ UNCHANGED <<files, preview, bound>>
  /\ IF ~(t \in DOMAIN lib /\ Readable(t)) THEN Go(j, "done") /\ UNCHANGED <<reviews, applied>>
     ELSE /\ reviews' = Consumed(job[j].token)
          /\ IF \E r \in reviews : r.token = job[j].token /\ r.target = t /\ Accepts(r, t)
             THEN /\ Go(j, "accepted")
                  /\ \E r \in reviews : r.token = job[j].token
                       /\ applied' = applied \cup {[token |-> r.token, by |-> j, reviewed |-> r.data, read |-> {}]}
             ELSE Go(j, "done") /\ UNCHANGED applied
(* ApplyRestore copies the archives to the helper. *)
ApplyRestore(j) ==
  /\ At(j, "accepted") /\ Go(j, "done") /\ UNCHANGED <<files, preview, reviews, bound>>
  /\ applied' = IF job[j].target \notin DOMAIN dirs THEN applied
                ELSE {IF a.by = j THEN [a EXCEPT !.read = {dirs[job[j].target]}] ELSE a : a \in applied}
-----------------------------------------------------------------------------
(* An operator removes a directory of their own. *)
RemoveCustom(t) ==
  /\ t \in Custom \cap DOMAIN dirs /\ Use("operator", MaxOperator) /\ dirs' = Removed(dirs, t)
  /\ UNCHANGED <<lib, disk, deletes, orphans, job, recovery>>
Restart ==
  /\ Use("crashes", MaxCrashes) /\ lib' = disk /\ deletes' = {} /\ preview' = {} /\ reviews' = {}
  /\ job' = [j \in Jobs |-> IF At(j, "new") THEN job[j] ELSE Done]
  /\ orphans' = orphans \cup ((Managed \cap DOMAIN dirs) \ DOMAIN disk)
  /\ UNCHANGED <<disk, dirs, applied>>

Step(j) ==
  \/ \E d \in Destinations, t \in Custom \cup {j} : StartRepositoryJob(j, d, "restore", t, 0)
  \/ StartApply(j) \/ MakeDirectory(j) \/ Fill(j) \/ FillGone(j) \/ registerRestoreResult(j) \/ CleanUp(j)
  \/ Upgrade(j) \/ normalizeRecoveryRequest(j) \/ applyReviewedRestore(j) \/ ApplyRestore(j)
Next ==
  \/ \E j \in Jobs : Step(j)
  \/ \E t \in Custom \cup Managed : DeleteRestore(t) \/ PreviewRestore(t) \/ RemoveCustom(t)
  \/ deleteManagedRestore \/ FinishDelete \/ EndPreview \/ Expire \/ Restart
Spec == Init /\ [][Next]_vars
-----------------------------------------------------------------------------
(* What an apply reads is what its operator has reviewed, whatever deletions were begun, failed or
   finished since; edits of the operator in a directory of theirs are not considered. *)
AppliedIsReviewed == \A a \in applied : a.read \subseteq {a.reviewed}

(* A review is applied once, also when the apply fails. *)
ReviewIsUsedOnce == \A a, b \in applied : a.token = b.token => a.by = b.by

(* A directory of Stacklab's own is registered, or a job or a deletion is at it; only a crash and a
   removal that failed leave others. *)
ManagedIsAccounted ==
  \A t \in Managed \cap DOMAIN dirs : t \in DOMAIN lib \cup orphans \/ Deleting(t) \/ \E j \in Active : job[j].target = t

(* The library never exceeds its limit, also when several restores have found room in it. *)
LibraryIsBounded == Cardinality(DOMAIN lib) <= Limit

(* A deletion removes the registration that was asked for, never one that was made meanwhile. *)
DeletesWhatWasAsked ==
  \A e \in deletes : e.target \in DOMAIN lib /\ e.target \notin DOMAIN lib' => lib[e.target].id = e.id

(* An apply reads what was reviewed, a review is used once, and the library neither loses a
   directory of its own nor outgrows its limit. *)
LibraryIsSound == AppliedIsReviewed /\ ReviewIsUsedOnce /\ ManagedIsAccounted /\ LibraryIsBounded
=============================================================================
