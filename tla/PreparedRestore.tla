--------------------------- MODULE PreparedRestore ---------------------------
(***************************************************************************)
(* The prepared restores of the backup helper: an archive is copied to the *)
(* private spool, and later replaces or is merged into its target.  A      *)
(* replacement moves what is there into a rollback directory inside the    *)
(* target first, and moves it back when the extraction fails.  The helper  *)
(* may die, and any of its calls fail, between two steps.  An entry is     *)
(* known by its origin: a token, or 0 for what was there before.           *)
(***************************************************************************)
EXTENDS Integers, FiniteSets, Functions

CONSTANTS Names, Tokens, Archives   \* entries of the target, prepared restores, sets of entries of an archive

PreparedRestoreAssumption == Archives \subseteq SUBSET Names

VARIABLES
  target,   \* the entries of the target and the metadata of the directory itself
  rb,       \* rollback directories in the target: [token |-> entries]
  spool,    \* the spool: mode, archive and durable phase of each token
  helper,   \* the step of the running helper, its token, and the entries it still has to treat
  before    \* the target as each replacement has found it

vars == <<target, rb, spool, helper, before>>
Gone == [phase |-> "none", mode |-> "", archive |-> {}]
NoHelper == [pc |-> "idle", token |-> 0, rest |-> {}]
Put(f, n, v) == [x \in DOMAIN f \cup {n} |-> IF x = n THEN v ELSE f[x]]
Drop(f, n) == Restrict(f, DOMAIN f \ {n})
NoEntries == [n \in {} |-> 0]
Nothing == [entries |-> NoEntries, root |-> 0]
NoRollback == {}
Has(t) == rb[t] # NoRollback
Held(t) == CHOOSE entries \in rb[t] : TRUE
Releasable == {"partial", "prepared", "completed", "rolled_back"}

Init ==
  /\ \E there \in SUBSET Names : target = [entries |-> [n \in there |-> 0], root |-> 0]
  /\ rb = [t \in Tokens |-> NoRollback] /\ spool = [t \in Tokens |-> Gone]
  /\ helper = NoHelper /\ before = [t \in Tokens |-> Nothing]
-----------------------------------------------------------------------------
At(pc) == helper.pc = pc
t0 == helper.token
Replacing == spool[t0].mode = "replace"
Goto(pc, rest) == helper' = [helper EXCEPT !.pc = pc, !.rest = rest]
savePrepared(phase) == spool' = [spool EXCEPT ![t0].phase = phase]

(* The archive is copied to a new directory of the spool; its state is written last. *)
prepareRestore(t) ==
  /\ At("idle") /\ spool[t].phase = "none"
  /\ \E mode \in {"replace", "merge"}, archive \in Archives, phase \in {"partial", "prepared"} :
       spool' = [spool EXCEPT ![t] = [phase |-> phase, mode |-> mode, archive |-> archive]]
  /\ UNCHANGED <<target, rb, helper, before>>
validatePreparedTarget(mode) == mode = "replace" => \A t \in Tokens : ~Has(t)
(* The intent of a replacement, with the entries it will move, is durable before the first of them. *)
applyPreparedRestore(t) ==
  /\ At("idle") /\ spool[t].phase = "prepared" /\ validatePreparedTarget(spool[t].mode)
  /\ before' = [before EXCEPT ![t] = target]
  /\ IF spool[t].mode = "replace"
     THEN /\ helper' = [pc |-> "mkdir", token |-> t, rest |-> DOMAIN target.entries]
          /\ spool' = [spool EXCEPT ![t].phase = "moving"]
     ELSE /\ helper' = [pc |-> "extract", token |-> t, rest |-> spool[t].archive]
          /\ spool' = [spool EXCEPT ![t].phase = "writing"]
  /\ UNCHANGED <<target, rb>>
(* Other rollback directories in the target would be moved like any entry. *)
MakeRollback ==
  /\ At("mkdir") /\ Goto("move", helper.rest)
  /\ rb' = [t \in Tokens |-> IF t = t0 THEN {NoEntries} ELSE NoRollback] /\ UNCHANGED <<target, spool, before>>
MoveAway ==
  /\ At("move") /\ \E n \in helper.rest :
       /\ rb' = [rb EXCEPT ![t0] = {Put(Held(t0), n, target.entries[n])}]
       /\ target' = [target EXCEPT !.entries = Drop(@, n)] /\ Goto("move", helper.rest \ {n})
  /\ UNCHANGED <<spool, before>>
StartWriting ==
  /\ At("move") /\ helper.rest = {} /\ savePrepared("writing") /\ Goto("extract", spool[t0].archive)
  /\ UNCHANGED <<target, rb, before>>
extractPinned ==
  /\ At("extract") /\ \E n \in helper.rest :
       target' = [target EXCEPT !.entries = Put(@, n, t0)] /\ Goto("extract", helper.rest \ {n})
  /\ UNCHANGED <<rb, spool, before>>
(* Mutation: the extracted entries are not removed before the others come back. *)
ExtractionFailsInPlace ==
  /\ At("extract") /\ Replacing /\ Goto("back", DOMAIN Held(t0)) /\ UNCHANGED <<target, rb, spool, before>>
ExtractionFails ==
  /\ At("extract") /\ Replacing /\ Goto("clear", DOMAIN target.entries) /\ UNCHANGED <<target, rb, spool, before>>
-----------------------------------------------------------------------------
(* rollbackPrepared: what was extracted goes, what was moved comes back, the metadata are restored. *)
ClearExtracted ==
  /\ At("clear") /\ UNCHANGED <<rb, spool, before>>
  /\ IF helper.rest = {} THEN Goto("back", DOMAIN Held(t0)) /\ UNCHANGED target
     ELSE \E n \in helper.rest : target' = [target EXCEPT !.entries = Drop(@, n)] /\ Goto("clear", helper.rest \ {n})
MoveBack ==
  /\ At("back") /\ helper.rest # {} /\ \E n \in helper.rest :
       /\ target' = [target EXCEPT !.entries = Put(@, n, Held(t0)[n])]
       /\ rb' = [rb EXCEPT ![t0] = {Drop(Held(t0), n)}] /\ Goto("back", helper.rest \ {n})
  /\ UNCHANGED <<spool, before>>
rollbackPrepared ==
  /\ At("back") /\ helper.rest = {} /\ rb' = [rb EXCEPT ![t0] = NoRollback] /\ Goto("rootback", {})
  /\ UNCHANGED <<target, spool, before>>
RolledBack ==
  /\ At("rootback") /\ target' = [target EXCEPT !.root = before[t0].root] /\ savePrepared("rolled_back")
  /\ helper' = NoHelper /\ UNCHANGED <<rb, before>>
-----------------------------------------------------------------------------
restoreArchiveRootMetadata ==
  /\ At("extract") /\ helper.rest = {} /\ UNCHANGED <<rb, spool, before>>
  /\ target' = [target EXCEPT !.root = IF Replacing THEN t0 ELSE @] /\ Goto(IF Replacing THEN "drop" ELSE "save", {})
(* Mutation: the rollback directory is removed before the data are complete. *)
DropEarly ==
  /\ (At("drop") \/ At("extract")) /\ Replacing /\ Has(t0) /\ UNCHANGED <<target, spool, before>>
  /\ IF At("drop") THEN rb' = [rb EXCEPT ![t0] = NoRollback] /\ Goto("save", {})
     ELSE \E n \in DOMAIN Held(t0) : rb' = [rb EXCEPT ![t0] = {Drop(Held(t0), n)}] /\ UNCHANGED helper
(* RemoveAll of the rollback directory, one entry after the other. *)
DropRollback ==
  /\ At("drop") /\ UNCHANGED <<target, spool, before>>
  /\ IF Held(t0) = NoEntries THEN rb' = [rb EXCEPT ![t0] = NoRollback] /\ Goto("save", {})
     ELSE \E n \in DOMAIN Held(t0) : rb' = [rb EXCEPT ![t0] = {Drop(Held(t0), n)}] /\ UNCHANGED helper
Complete ==
  /\ At("save") /\ savePrepared("completed") /\ helper' = NoHelper /\ UNCHANGED <<target, rb, before>>
-----------------------------------------------------------------------------
(* The helper dies or one of its calls fails; what is durable stays. *)
Die == ~At("idle") /\ helper' = NoHelper /\ UNCHANGED <<target, rb, spool, before>>
Released(t) == spool[t].phase \in Releasable
(* release-restore, and the expiry of privateRestoreSpool a day after the last change. *)
ReleaseRestore(t) ==
  /\ At("idle") /\ Released(t) /\ spool' = [spool EXCEPT ![t] = Gone]
  /\ before' = [before EXCEPT ![t] = Nothing] /\ UNCHANGED <<target, rb, helper>>
(* An operator inspects the records and puts back what was moved. *)
Resolve(t) ==
  /\ At("idle") /\ spool[t].phase \notin Releasable \cup {"none"}
  /\ target' = IF ~Has(t) THEN target
               ELSE [entries |-> [n \in DOMAIN target.entries \cup DOMAIN Held(t) |->
                       IF n \in DOMAIN Held(t) THEN Held(t)[n] ELSE target.entries[n]], root |-> before[t].root]
  /\ rb' = [rb EXCEPT ![t] = NoRollback] /\ spool' = [spool EXCEPT ![t] = Gone]
  /\ before' = [before EXCEPT ![t] = Nothing] /\ UNCHANGED helper

Next ==
  \/ \E t \in Tokens : prepareRestore(t) \/ applyPreparedRestore(t) \/ ReleaseRestore(t) \/ Resolve(t)
  \/ MakeRollback \/ MoveAway \/ StartWriting \/ extractPinned \/ ExtractionFails
  \/ ClearExtracted \/ MoveBack \/ rollbackPrepared \/ RolledBack
  \/ restoreArchiveRootMetadata \/ DropRollback \/ Complete \/ Die
Spec == Init /\ [][Next]_vars
-----------------------------------------------------------------------------
Found(t, n, v) == (n \in DOMAIN target.entries /\ target.entries[n] = v) \/ (Has(t) /\ n \in DOMAIN Held(t) /\ Held(t)[n] = v)
OldIsFound(t) == \A n \in DOMAIN before[t].entries : Found(t, n, before[t].entries[n])
NewIsWhole(t) == DOMAIN target.entries = spool[t].archive /\ \A n \in spool[t].archive : target.entries[n] = t
(* At every step of a replacement, wherever the helper dies, every entry that was in the target is in
   the target or in the rollback directory, or the whole archive is in the target. *)
OldOrNewIsWhole ==
  ~At("idle") /\ Replacing => OldIsFound(t0) \/ NewIsWhole(t0)

(* A rollback directory has a record in the spool that cannot be released. *)
RollbackIsRecorded == \A t \in Tokens : Has(t) => spool[t].phase \in {"moving", "writing"}

(* Only the restore that has made it, or an operator, removes an entry of a rollback directory. *)
RollbackIsKept ==
  \A t \in Tokens : Has(t) /\ ~At("idle") /\ t # t0 => rb'[t] = rb[t]

(* A restore that says it was rolled back has left the target as it was, and a completed replacement
   has left the archive and nothing else. *)
OutcomeIsExact ==
  \A t \in Tokens :
    /\ spool[t].phase # "rolled_back" /\ spool'[t].phase = "rolled_back" => target' = before[t]
    /\ spool[t].phase # "completed" /\ spool'[t].phase = "completed" /\ spool[t].mode = "replace" =>
         target' = [entries |-> [n \in spool[t].archive |-> t], root |-> t]

(* Wherever a replacement is interrupted, the old entries or the whole archive are there, and a
   rollback directory is on record. *)
ReplacementIsSafe == OldOrNewIsWhole /\ RollbackIsRecorded

(* A restore does what its outcome says and takes nothing from the rollback directory of
   another. *)
ReplacementIsExact == [][OutcomeIsExact /\ RollbackIsKept]_vars
=============================================================================
