---------------------------- MODULE GitWorkspace ----------------------------
(***************************************************************************)
(* Commits, restores and deletions of single files in the Git workspace.   *)
(* A request prepares its work in a private index, holds index.lock while  *)
(* it does, and installs the result; the operator edits files and runs git *)
(* in the same working tree.  Content 0 is an absent file; a write gives a *)
(* file a new time stamp.                                                  *)
(***************************************************************************)
EXTENDS Integers, FiniteSets

CONSTANTS
  Paths,
  Requests, Op, Selected,   \* Op[r], and the paths it names
  MaxWrites, MaxCommits     \* bounds of the instance

GitWorkspaceAssumption ==
  /\ Op \in [Requests -> {"commit", "restore", "delete", "push"}]
  /\ Selected \in [Requests -> SUBSET Paths]

VARIABLES
  head,       \* the last commit: its number and its files
  index,      \* the real index
  tree,       \* the working copy
  lock,       \* index.lock: {} or who created the file
  merging,    \* MERGE_HEAD and the like exist
  mu,         \* mutationMu: {} or its holder
  writes,     \* time stamps given so far
  ahead,      \* commits the upstream does not have
  req         \* req[r]: the request

vars == <<head, index, tree, lock, merging, mu, writes, ahead, req>>

Git == "git"
Dead == "dead"
Nothing == [p \in Paths |-> 0]
Fresh == [pc |-> "new", seen |-> {}, built |-> Nothing, checked |-> 0]

Init ==
  /\ head = [rev |-> 0, files |-> [p \in Paths |-> 1]]
  /\ index = head.files
  /\ tree = [p \in Paths |-> [content |-> 1, at |-> 0]]
  /\ lock = {} /\ merging = FALSE /\ mu = {} /\ writes = 0 /\ ahead = 0
  /\ req = [r \in Requests |-> Fresh]

(* The porcelain letters of a tracked path: a missing side is a deletion, an old absence an addition. *)
mapStatus(h, i, w) ==
  IF (i = 0 /\ h # 0) \/ (w = 0 /\ i # 0) THEN "deleted" ELSE IF h = 0 THEN "added" ELSE "modified"

(* statusItems: a path may have two records, a staged deletion and an untracked file. *)
Statuses(p) ==
  LET h == head.files[p] i == index[p] w == tree[p].content
  IN  (IF i = 0 /\ w # 0 THEN {"untracked"} ELSE {}) \cup
      (IF h # i \/ (i # 0 /\ i # w) THEN {mapStatus(h, i, w)} ELSE {})

hasOperationInProgress == merging

canRestore(status) == status \in {"modified", "deleted"}

(* The file itself, by content and time stamp. *)
restoreFileState(p) == tree[p]
restoreReview(p) == [rev |-> head.rev, entry |-> index[p], file |-> restoreFileState(p)]
deletionTarget(p) == IF tree[p].content # 0 THEN {tree[p]} ELSE {}

Path(r) == CHOOSE p \in Selected[r] : TRUE
To(r, pc) == req' = [req EXCEPT ![r].pc = pc]
Repo == <<head, index, tree, merging, writes, ahead>>

(* Diff: what the operator reviews before a restore or a deletion. *)
Diff(r) ==
  /\ req[r].pc = "new" /\ Op[r] \in {"restore", "delete"}
  /\ Statuses(Path(r)) # {}
  /\ IF Op[r] = "restore"
     THEN head.files[Path(r)] # 0 /\ req' = [req EXCEPT ![r].pc = "reviewed", ![r].seen = {restoreReview(Path(r))}]
     ELSE deletionTarget(Path(r)) # {} /\ req' = [req EXCEPT ![r].pc = "reviewed", ![r].seen = deletionTarget(Path(r))]
  /\ UNCHANGED <<Repo, lock, mu>>

(* A commit or push waits for mutationMu; a restore or a deletion gives up. *)
Begin(r) ==
  /\ req[r].pc = IF Op[r] \in {"restore", "delete"} THEN "reviewed" ELSE "new"
  /\ \/ mu = {} /\ mu' = {r} /\ To(r, IF Op[r] \in {"delete", "push"} THEN Op[r] ELSE "status")
     \/ mu # {} /\ Op[r] \in {"restore", "delete"} /\ To(r, "error") /\ UNCHANGED mu
  /\ UNCHANGED <<Repo, lock>>

(* Before the lock: no other git operation, and for a restore the status of the file. *)
Preflight(r) ==
  /\ req[r].pc = "status"
  /\ To(r, IF hasOperationInProgress \/ (Op[r] = "restore" /\ ~\E s \in Statuses(Path(r)) : canRestore(s))
           THEN "unlock" ELSE "acquire")
  /\ UNCHANGED <<Repo, lock, mu>>

(* O_CREATE|O_EXCL: whoever holds index.lock, and however old it is, the request fails. *)
acquireIndexLock(r) ==
  /\ req[r].pc = "acquire"
  /\ IF lock # {} THEN To(r, "unlock") /\ UNCHANGED lock
     ELSE To(r, "select") /\ lock' = {r}
  /\ UNCHANGED <<Repo, mu>>

(* Mutation: the status under the lock is not followed by a second look at MERGE_HEAD. *)
selectedItemsOnly(r) == \A p \in Selected[r] : Statuses(p) # {}
selectedItems(r) == (\A p \in Selected[r] : Statuses(p) # {}) /\ ~hasOperationInProgress

(* Commit: HEAD is read into a private index, the selected files are added to it. *)
initializeCommitIndex(r) ==
  /\ req[r].pc = "select" /\ Op[r] = "commit"
  /\ IF selectedItems(r) THEN req' = [req EXCEPT ![r].pc = "add", ![r].built = head.files] ELSE To(r, "release")
  /\ UNCHANGED <<Repo, lock, mu>>

Add(r) ==
  /\ req[r].pc = "add"
  /\ LET built == [p \in Paths |-> IF p \in Selected[r] THEN tree[p].content ELSE req[r].built[p]]
     IN  req' = [req EXCEPT ![r].built = built, ![r].pc = IF built = req[r].built THEN "release" ELSE "owned"]
  /\ UNCHANGED <<Repo, lock, mu>>

(* ensureOwned, before a step that publishes. *)
ensureOwned(r) ==
  /\ req[r].pc = "owned"
  /\ To(r, IF lock = {r} THEN Op[r] ELSE "release")
  /\ UNCHANGED <<Repo, lock, mu>>

(* git commit with the private index; a hook or a cancelled request may stop it. *)
Commit(r) ==
  /\ req[r].pc = "commit" /\ head.rev < MaxCommits
  /\ \/ To(r, "release") /\ UNCHANGED <<head, ahead>>
     \/ /\ head' = [rev |-> head.rev + 1, files |-> req[r].built] /\ ahead' = ahead + 1
        /\ To(r, "reconcile")
  /\ UNCHANGED <<index, tree, lock, merging, mu, writes>>

(* reset of the selected paths in a copy of the real index. *)
reconcileIndex(r) == [p \in Paths |-> IF p \in Selected[r] THEN head.files[p] ELSE index[p]]

Reconcile(r) ==
  /\ req[r].pc = "reconcile"
  /\ IF lock = {r} THEN req' = [req EXCEPT ![r].built = reconcileIndex(r), ![r].pc = "install"] ELSE To(r, "release")
  /\ UNCHANGED <<Repo, lock, mu>>

(* Restore: the review is compared, and the new index and file are prepared from the commit. *)
PrepareRestore(r) ==
  /\ req[r].pc = "select" /\ Op[r] = "restore"
  /\ IF req[r].seen = {restoreReview(Path(r))}
     THEN req' = [req EXCEPT ![r].pc = "recheck", ![r].built = reconcileIndex(r)] ELSE To(r, "release")
  /\ UNCHANGED <<Repo, lock, mu>>

(* Mutation: the review is not compared again. *)
RecheckNothing(r) ==
  /\ req[r].pc = "recheck"
  /\ req' = [req EXCEPT ![r].pc = "owned", ![r].checked = writes]
  /\ UNCHANGED <<Repo, lock, mu>>
Recheck(r) ==
  /\ req[r].pc = "recheck"
  /\ IF req[r].seen = {restoreReview(Path(r))}
     THEN req' = [req EXCEPT ![r].pc = "owned", ![r].checked = writes] ELSE To(r, "release")
  /\ UNCHANGED <<Repo, lock, mu>>

(* The rename that replaces the file; then the index, whatever becomes of the request. *)
ReplaceFile(r) ==
  /\ req[r].pc = "restore" /\ writes < MaxWrites
  /\ tree' = [tree EXCEPT ![Path(r)] = [content |-> req[r].built[Path(r)], at |-> writes + 1]]
  /\ writes' = writes + 1
  /\ To(r, "install")
  /\ UNCHANGED <<head, index, lock, merging, mu, ahead>>

(* install: the lock file is filled, its identity checked again, and renamed over the index. *)
install(r) ==
  /\ req[r].pc \in {"install", "rename"}
  /\ IF req[r].pc = "install"
     THEN To(r, IF lock = {r} THEN "rename" ELSE "release") /\ UNCHANGED <<index, lock>>
     ELSE IF lock = {} THEN To(r, "release") /\ UNCHANGED <<index, lock>>
     ELSE lock' = {} /\ index' = (IF lock = {r} THEN req[r].built ELSE Nothing) /\ To(r, "done")
  /\ UNCHANGED <<head, tree, merging, mu, writes, ahead>>

(* release of a request that failed: the identity is checked, then the name is removed. *)
release(r) ==
  /\ req[r].pc \in {"release", "remove"}
  /\ IF req[r].pc = "release"
     THEN To(r, IF lock = {r} THEN "remove" ELSE "unlock") /\ UNCHANGED lock
     ELSE lock' = {} /\ To(r, "unlock")
  /\ UNCHANGED <<Repo, mu>>

Answer(r) ==
  /\ req[r].pc \in {"unlock", "done"}
  /\ mu' = {}
  /\ req' = [req EXCEPT ![r] = [Fresh EXCEPT !.pc = IF req[r].pc = "done" THEN "ok" ELSE "error"]]
  /\ UNCHANGED <<Repo, lock>>

(* DeleteFile: the time stamp, the status, the time stamp again, then the removal. *)
DeleteFile(r) ==
  \/ /\ req[r].pc = "delete"
     /\ To(r, IF deletionTarget(Path(r)) = req[r].seen THEN "inspect" ELSE "unlock")
     /\ UNCHANGED <<Repo, lock, mu>>
  \/ /\ req[r].pc = "inspect"
     /\ To(r, IF Statuses(Path(r)) \ {"deleted"} # {} THEN "lstat" ELSE "unlock")
     /\ UNCHANGED <<Repo, lock, mu>>
  \/ /\ req[r].pc = "lstat"
     /\ req' = [req EXCEPT ![r].checked = writes,
                  ![r].pc = IF deletionTarget(Path(r)) = req[r].seen THEN "unlink" ELSE "unlock"]
     /\ UNCHANGED <<Repo, lock, mu>>
  \/ /\ req[r].pc = "unlink"
     /\ tree[Path(r)].content # 0 /\ writes < MaxWrites
     /\ tree' = [tree EXCEPT ![Path(r)] = [content |-> 0, at |-> writes + 1]]
     /\ writes' = writes + 1 /\ To(r, "done")
     /\ UNCHANGED <<head, index, lock, merging, mu, ahead>>
  \/ /\ req[r].pc = "unlink" /\ tree[Path(r)].content = 0
     /\ To(r, "unlock") /\ UNCHANGED <<Repo, lock, mu>>

Push(r) ==
  /\ req[r].pc = "push"
  /\ \/ ahead = 0 /\ To(r, "done") /\ UNCHANGED ahead
     \/ ahead > 0 /\ To(r, "unlock") /\ UNCHANGED ahead
     \/ ahead > 0 /\ To(r, "done") /\ ahead' = 0
  /\ UNCHANGED <<head, index, tree, lock, merging, mu, writes>>

(* A git command fails, is cancelled with its request, or, after the commit, takes too long. *)
GitFails(r) ==
  /\ req[r].pc \in {"select", "add", "recheck", "reconcile"} /\ To(r, "release")
  /\ UNCHANGED <<Repo, lock, mu>>

(* The operator: an edit; git add, commit or merge, each under index.lock; rm index.lock. *)
Edit(p) ==
  /\ writes < MaxWrites
  /\ \E c \in 0..2 : c # tree[p].content /\ tree' = [tree EXCEPT ![p] = [content |-> c, at |-> writes + 1]]
  /\ writes' = writes + 1
  /\ UNCHANGED <<head, index, lock, merging, mu, ahead, req>>

GitLock == lock = {} /\ lock' = {Git} /\ UNCHANGED <<Repo, mu, req>>
GitWork ==
  /\ lock = {Git} /\ lock' = {}
  /\ \/ \E p \in Paths : index' = [index EXCEPT ![p] = tree[p].content] /\ UNCHANGED <<head, merging, ahead>>
     \/ /\ head.rev < MaxCommits /\ index # head.files
        /\ head' = [rev |-> head.rev + 1, files |-> index] /\ merging' = FALSE /\ ahead' = ahead + 1
        /\ UNCHANGED index
     \/ merging' = ~merging /\ UNCHANGED <<head, index, ahead>>
  /\ UNCHANGED <<tree, mu, writes, req>>

RemoveLock ==
  /\ lock = {Dead}
  /\ lock' = {}
  /\ UNCHANGED <<Repo, mu, req>>

(* The process ends: mutationMu and the requests are gone, a lock file stays. *)
Crash ==
  /\ \E r \in Requests : req[r].pc \notin {"new", "reviewed", "ok", "error", "gone"}
  /\ lock' = IF lock \cap Requests # {} THEN {Dead} ELSE lock
  /\ mu' = {}
  /\ req' = [r \in Requests |-> IF req[r].pc \in {"new", "ok", "error"} THEN req[r] ELSE [Fresh EXCEPT !.pc = "gone"]]
  /\ UNCHANGED Repo

Step(r) ==
  \/ Begin(r) \/ Preflight(r) \/ acquireIndexLock(r) \/ initializeCommitIndex(r) \/ Add(r) \/ ensureOwned(r)
  \/ Commit(r) \/ Reconcile(r) \/ PrepareRestore(r) \/ Recheck(r) \/ ReplaceFile(r) \/ install(r)
  \/ release(r) \/ Answer(r) \/ DeleteFile(r) \/ Push(r) \/ GitFails(r)
Next ==
  \/ \E r \in Requests : Diff(r) \/ Step(r)
  \/ \E p \in Paths : Edit(p)
  \/ GitLock \/ GitWork \/ RemoveLock \/ Crash

Spec == Init /\ [][Next]_vars

(* A commit of Stacklab changes the selected files and no other, whatever the operator
   commits while it is prepared, and never happens in the middle of a merge. *)
CommitIsSelected ==
  \A r \in Requests : (req[r].pc = "commit" /\ head' # head) =>
    /\ \A p \in Paths \ Selected[r] : head'.files[p] = head.files[p]
    /\ ~merging

(* An index that is installed differs from the one before only in the selected paths, which
   are clean: what the operator has staged stays staged. *)
StagedIsKept ==
  \A r \in Requests : (req[r].pc = "rename" /\ req'[r].pc = "done") =>
    \A p \in Paths : index'[p] = IF p \in Selected[r] THEN head.files[p] ELSE index[p]

(* index.lock belongs to a request only while it runs: no way of failing leaves it behind. *)
NoLeakedLock ==
  \A r \in Requests : lock = {r} => req[r].pc \notin {"new", "unlock", "done", "ok", "error", "gone"}

(* A restore or a deletion destroys the version that was reviewed, or one written after the
   last look at it, never one that was there to be seen. *)
ReviewedIsDestroyed ==
  \A r \in Requests :
    LET p == Path(r) IN
    (req[r].pc \in {"restore", "unlink"} /\ tree'[p] # tree[p] /\ req' # req) =>
      \/ tree[p].at > req[r].checked
      \/ \E s \in req[r].seen : (IF Op[r] = "restore" THEN s.file ELSE s) = tree[p]

(* A commit takes the selected files and no other, and leaves what the operator has staged as
   it was. *)
CommitIsExact == CommitIsSelected /\ StagedIsKept
=============================================================================
