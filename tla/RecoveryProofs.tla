--------------------------- MODULE RecoveryProofs ---------------------------
(***************************************************************************)
(* A prepared replacement is safe and exact for any target, any number of  *)
(* prepared restores and any archives: an inductive invariant says, step   *)
(* by step of the helper, which entries are in the target and which are    *)
(* in the rollback directory.                                              *)
(*                                                                         *)
(* Maintenance of a repository is held exactly by what is unresolved, for  *)
(* any number of checks, restarts and refused writes: the evidence stands  *)
(* for the newest finding of each sort, and two sets of unresolved         *)
(* findings, of whatever time, agree up to any finding that they share.    *)
(***************************************************************************)
EXTENDS PreparedRestore, RepositoryMaintenance, TLAPS

Origins == Tokens \cup {0}
Entries == UNION {[there -> Origins] : there \in SUBSET Names}
Phases == Releasable \cup {"none", "moving", "writing"}
Records == [phase : Phases, mode : {"", "replace", "merge"}, archive : SUBSET Names]
Steps == {"idle", "mkdir", "move", "extract", "drop", "save", "clear", "back", "rootback"}
TypeOK ==
  /\ target \in [entries : Entries, root : Origins]
  /\ rb \in [Tokens -> SUBSET Entries]
  /\ spool \in [Tokens -> Records]
  /\ helper \in [pc : Steps, token : Origins, rest : SUBSET Names]
  /\ before \in [Tokens -> [entries : Entries, root : Origins]]

(* A rollback directory is one set of entries, and belongs to a replacement that cannot be released. *)
Rollbacks ==
  \A t \in Tokens : Has(t) =>
    /\ \E f \in Entries : rb[t] = {f}
    /\ spool[t].phase \in {"moving", "writing"} /\ spool[t].mode = "replace"

(* The running helper has a token, the durable phase goes with its step, and a replacement is
   alone with its rollback directory. *)
Running ==
  ~At("idle") =>
    /\ t0 \in Tokens
    /\ spool[t0].phase = IF helper.pc \in {"mkdir", "move"} THEN "moving" ELSE "writing"
    /\ helper.pc \notin {"extract", "save"} => Replacing
    /\ Replacing => /\ \A t \in Tokens \ {t0} : ~Has(t)
                    /\ Has(t0) <=> helper.pc \notin {"mkdir", "rootback", "save"}

(* The entries f and g are disjoint and are together those of h. *)
Split(f, g, h) ==
  /\ DOMAIN f \cup DOMAIN g = DOMAIN h /\ DOMAIN f \cap DOMAIN g = {}
  /\ \A n \in DOMAIN f : f[n] = h[n]
  /\ \A n \in DOMAIN g : g[n] = h[n]
Old == before[t0].entries

(* Where the old and the new entries are at each step of a replacement. *)
Progress ==
  ~At("idle") /\ Replacing =>
    /\ helper.pc \notin {"drop", "save"} => target.root = before[t0].root
    /\ At("mkdir") => target.entries = Old /\ helper.rest = DOMAIN target.entries
    /\ At("move") => Split(target.entries, Held(t0), Old) /\ helper.rest = DOMAIN target.entries
    /\ At("extract") => /\ Held(t0) = Old
                        /\ helper.rest \subseteq spool[t0].archive /\ DOMAIN target.entries = spool[t0].archive \ helper.rest
                        /\ \A n \in DOMAIN target.entries : target.entries[n] = t0
    /\ At("clear") => Held(t0) = Old /\ helper.rest = DOMAIN target.entries
    /\ At("back") => Split(target.entries, Held(t0), Old) /\ helper.rest = DOMAIN Held(t0)
    /\ At("rootback") => target.entries = Old
    /\ helper.pc \in {"drop", "save"} => NewIsWhole(t0) /\ target.root = t0
Inv == TypeOK /\ Rollbacks /\ Running /\ Progress
-----------------------------------------------------------------------------
(* What extracting or moving one entry makes of a set of entries. *)
LEMMA PutEntry ==
  ASSUME NEW f \in Entries, NEW n \in Names, NEW v \in Origins
  PROVE  /\ Put(f, n, v) \in Entries
         /\ DOMAIN Put(f, n, v) = DOMAIN f \cup {n}
         /\ Put(f, n, v)[n] = v
         /\ \A x \in DOMAIN f : x # n => Put(f, n, v)[x] = f[x]
<1>1. PICK there \in SUBSET Names : f \in [there -> Origins]  BY DEF Entries
<1>2. Put(f, n, v) \in [there \cup {n} -> Origins]  BY <1>1 DEF Put
<1>3. there \cup {n} \in SUBSET Names  OBVIOUS
<1> QED  BY <1>1, <1>2, <1>3, Zenon DEF Entries, Put

(* What removing or moving away one entry makes of a set of entries. *)
LEMMA DropEntry ==
  ASSUME NEW f \in Entries, NEW n
  PROVE  /\ Drop(f, n) \in Entries
         /\ DOMAIN Drop(f, n) = DOMAIN f \ {n}
         /\ \A x \in DOMAIN f : x # n => Drop(f, n)[x] = f[x]
<1>1. PICK there \in SUBSET Names : f \in [there -> Origins]  BY DEF Entries
<1>2. Drop(f, n) \in [there \ {n} -> Origins]  BY <1>1 DEF Drop, Restrict
<1>3. there \ {n} \in SUBSET Names  OBVIOUS
<1> QED  BY <1>1, <1>2, <1>3, Zenon DEF Entries, Drop, Restrict

(* Entries are known names with an origin, and two sets with the same entries are the same. *)
LEMMA EntriesAreFunctions ==
  ASSUME NEW f \in Entries
  PROVE  /\ DOMAIN f \subseteq Names
         /\ \A n \in DOMAIN f : f[n] \in Origins
         /\ \A g \in Entries : DOMAIN f = DOMAIN g /\ (\A n \in DOMAIN f : f[n] = g[n]) => f = g
<1>1. PICK there \in SUBSET Names : f \in [there -> Origins]  BY DEF Entries
<1>2. ASSUME NEW g \in Entries, DOMAIN f = DOMAIN g, \A n \in DOMAIN f : f[n] = g[n]
      PROVE  f = g
  <2>1. PICK other \in SUBSET Names : g \in [other -> Origins]  BY DEF Entries
  <2> QED  BY <1>1, <1>2, <2>1
<1> QED  BY <1>1, <1>2

(* The rollback directory of a token is the one set of entries recorded for it. *)
LEMMA HeldIsIt ==
  ASSUME NEW f
  PROVE  (CHOOSE entries \in {f} : TRUE) = f
  OBVIOUS

(* No entries, and nothing found, are entries too. *)
LEMMA NothingIsTyped == NoEntries \in Entries /\ DOMAIN NoEntries = {} /\ Nothing \in [entries : Entries, root : Origins]
<1>1. NoEntries \in [{} -> Origins]  BY DEF NoEntries
<1>2. {} \in SUBSET Names  OBVIOUS
<1>3. NoEntries \in Entries  BY <1>1, <1>2, Zenon DEF Entries
<1> QED  BY <1>1, <1>3 DEF Nothing, Origins

(* Saving a phase changes nothing else of the spool. *)
LEMMA SavedPhase ==
  ASSUME TypeOK, NEW t \in Tokens, NEW phase \in Phases, spool' = [spool EXCEPT ![t].phase = phase]
  PROVE  /\ spool' \in [Tokens -> Records]
         /\ spool'[t].phase = phase
         /\ \A s \in Tokens : spool'[s].mode = spool[s].mode /\ spool'[s].archive = spool[s].archive
         /\ \A s \in Tokens \ {t} : spool'[s] = spool[s]
<1>1. spool[t] \in Records  BY DEF TypeOK
<1> DEFINE saved == [spool[t] EXCEPT !.phase = phase]
<1>2. saved \in Records /\ saved.phase = phase /\ saved.mode = spool[t].mode /\ saved.archive = spool[t].archive
  BY <1>1, Zenon DEF Records
<1>3. spool' = [spool EXCEPT ![t] = saved]  OBVIOUS
<1> HIDE DEF saved
<1>4. spool'[t] = saved /\ \A s \in Tokens \ {t} : spool'[s] = spool[s]  BY <1>3 DEF TypeOK
<1>5. spool' \in [Tokens -> Records]  BY <1>2, <1>3 DEF TypeOK
<1> QED  BY <1>2, <1>4, <1>5

(* The spool is empty and no helper runs when the program starts. *)
LEMMA InvInit == Init => Inv
<1> SUFFICES ASSUME Init PROVE Inv  OBVIOUS
<1>1. TypeOK
  <2>1. target \in [entries : Entries, root : Origins]
    <3>1. PICK there \in SUBSET Names : target = [entries |-> [n \in there |-> 0], root |-> 0]  BY DEF Init
    <3>2. [n \in there |-> 0] \in [there -> Origins]  BY DEF Origins
    <3>3. [n \in there |-> 0] \in Entries  BY <3>2 DEF Entries
    <3> QED  BY <3>1, <3>3 DEF Origins
  <2>2. helper \in [pc : Steps, token : Origins, rest : SUBSET Names]  BY DEF Init, NoHelper, Origins, Steps
  <2>3. Gone \in Records  BY DEF Gone, Records, Phases
  <2> QED  BY <2>1, <2>2, <2>3, NothingIsTyped DEF Init, TypeOK, NoRollback
<1>2. Rollbacks  BY DEF Init, Rollbacks, Has
<1>3. At("idle")  BY DEF Init, NoHelper, At
<1> QED  BY <1>1, <1>2, <1>3 DEF Inv, Running, Progress
-----------------------------------------------------------------------------
(* Preparing a restore touches a token that has no rollback directory. *)
LEMMA PrepareKeepsInv ==
  ASSUME PreparedRestoreAssumption, Inv, NEW t \in Tokens, prepareRestore(t)
  PROVE  Inv'
<1>1. TypeOK'
  <2>1. PICK mode \in {"replace", "merge"}, archive \in Archives, phase \in {"partial", "prepared"} :
          spool' = [spool EXCEPT ![t] = [phase |-> phase, mode |-> mode, archive |-> archive]]
    BY Zenon DEF prepareRestore
  <2>2. [phase |-> phase, mode |-> mode, archive |-> archive] \in Records
    BY Zenon DEF PreparedRestoreAssumption, Records, Phases, Releasable
  <2> QED  BY <2>1, <2>2 DEF Inv, TypeOK, prepareRestore
<1>2. ~Has(t)  BY DEF Inv, Rollbacks, prepareRestore
<1>3. Rollbacks'  BY <1>2 DEF Inv, TypeOK, Rollbacks, prepareRestore, Has
<1>4. At("idle")'  BY DEF prepareRestore, At
<1> QED  BY <1>1, <1>3, <1>4 DEF Inv, Running, Progress

(* A replacement starts only where no rollback data are retained, and records the target first. *)
LEMMA ApplyKeepsInv ==
  ASSUME Inv, NEW t \in Tokens, applyPreparedRestore(t)
  PROVE  Inv'
<1> DEFINE phase == IF spool[t].mode = "replace" THEN "moving" ELSE "writing"
<1>1. spool' = [spool EXCEPT ![t].phase = phase]  BY DEF applyPreparedRestore
<1>2. phase \in Phases  BY DEF Phases
<1>3. /\ spool' \in [Tokens -> Records] /\ spool'[t].phase = phase
      /\ \A s \in Tokens : spool'[s].mode = spool[s].mode /\ spool'[s].archive = spool[s].archive
      /\ \A s \in Tokens \ {t} : spool'[s] = spool[s]
  BY <1>1, <1>2, SavedPhase, Zenon DEF Inv
<1>4. DOMAIN target.entries \subseteq Names  BY EntriesAreFunctions DEF Inv, TypeOK
<1>5. spool[t].archive \subseteq Names  BY Zenon DEF Inv, TypeOK, Records
<1>6. ~Has(t)  BY DEF Inv, Rollbacks, applyPreparedRestore
<1>7. TypeOK'  BY <1>3, <1>4, <1>5 DEF Inv, TypeOK, applyPreparedRestore, Origins, Steps
<1>8. Rollbacks'  BY <1>3, <1>6 DEF Inv, TypeOK, Rollbacks, applyPreparedRestore, Has
<1>9. before'[t] = target  BY DEF Inv, TypeOK, applyPreparedRestore
<1>10. CASE spool[t].mode = "replace"
  <2>1. helper' = [pc |-> "mkdir", token |-> t, rest |-> DOMAIN target.entries] /\ target' = target /\ rb' = rb
    BY <1>10 DEF applyPreparedRestore
  <2>2. \A s \in Tokens : ~Has(s)  BY <1>10 DEF applyPreparedRestore, validatePreparedTarget
  <2>3. Running'  BY <1>3, <1>10, <2>1, <2>2 DEF Running, Has, At, t0, Replacing
  <2>4. Progress'  BY <1>9, <2>1 DEF Progress, At, t0, Old
  <2> QED  BY <1>7, <1>8, <2>3, <2>4 DEF Inv
<1>11. CASE spool[t].mode # "replace"
  <2>1. helper' = [pc |-> "extract", token |-> t, rest |-> spool[t].archive]  BY <1>11 DEF applyPreparedRestore
  <2>2. Running'  BY <1>3, <1>11, <2>1 DEF Running, At, t0, Replacing
  <2>3. Progress'  BY <1>3, <1>11, <2>1, Zenon DEF Progress, t0, Replacing
  <2> QED  BY <1>7, <1>8, <2>2, <2>3 DEF Inv
<1> QED  BY <1>10, <1>11

(* A released restore has no rollback directory. *)
LEMMA ReleaseKeepsInv ==
  ASSUME Inv, NEW t \in Tokens, ReleaseRestore(t)
  PROVE  Inv'
<1>1. TypeOK'  BY NothingIsTyped, Zenon DEF Inv, TypeOK, ReleaseRestore, Gone, Records, Phases
<1>2. ~Has(t)  BY DEF Inv, Rollbacks, ReleaseRestore, Released, Releasable
<1>3. Rollbacks'  BY <1>2 DEF Inv, TypeOK, Rollbacks, ReleaseRestore, Has
<1>4. At("idle")'  BY DEF ReleaseRestore, At
<1> QED  BY <1>1, <1>3, <1>4 DEF Inv, Running, Progress

(* An operator who puts the moved entries back removes the rollback directory with its record. *)
LEMMA ResolveKeepsInv ==
  ASSUME Inv, NEW t \in Tokens, Resolve(t)
  PROVE  Inv'
<1>1. target' \in [entries : Entries, root : Origins]
  <2>1. CASE ~Has(t)  BY <2>1 DEF Inv, TypeOK, Resolve
  <2>2. CASE Has(t)
    <3>1. PICK f \in Entries : rb[t] = {f}  BY <2>2 DEF Inv, Rollbacks
    <3>2. Held(t) = f  BY <3>1, HeldIsIt DEF Held
    <3> DEFINE both == [n \in DOMAIN target.entries \cup DOMAIN f |-> IF n \in DOMAIN f THEN f[n] ELSE target.entries[n]]
    <3>3. DOMAIN target.entries \cup DOMAIN f \in SUBSET Names  BY EntriesAreFunctions DEF Inv, TypeOK
    <3>4. both \in [DOMAIN target.entries \cup DOMAIN f -> Origins]  BY EntriesAreFunctions DEF Inv, TypeOK
    <3>5. both \in Entries  BY <3>3, <3>4, Zenon DEF Entries
    <3>6. target' = [entries |-> both, root |-> before[t].root]  BY <2>2, <3>2 DEF Resolve
    <3> QED  BY <3>5, <3>6 DEF Inv, TypeOK
  <2> QED  BY <2>1, <2>2
<1>2. TypeOK'  BY <1>1, NothingIsTyped, Zenon DEF Inv, TypeOK, Resolve, Gone, NoRollback, Records, Phases
<1>3. Rollbacks'  BY DEF Inv, TypeOK, Rollbacks, Resolve, Has
<1>4. At("idle")'  BY DEF Resolve, At
<1> QED  BY <1>2, <1>3, <1>4 DEF Inv, Running, Progress
-----------------------------------------------------------------------------
(* A step of the helper leaves its token. *)
LEMMA GotoStep ==
  ASSUME TypeOK, NEW pc \in Steps, NEW rest \in SUBSET Names, Goto(pc, rest)
  PROVE  /\ helper' \in [pc : Steps, token : Origins, rest : SUBSET Names]
         /\ helper'.pc = pc /\ helper'.token = helper.token /\ helper'.rest = rest
  BY Zenon DEF TypeOK, Goto

(* The rollback directory is made where there is none. *)
LEMMA MakeRollbackKeepsInv ==
  ASSUME Inv, MakeRollback
  PROVE  Inv'
<1>1. At("mkdir") /\ Goto("move", helper.rest)  BY DEF MakeRollback
<1>2. t0 \in Tokens /\ Replacing  BY <1>1 DEF Inv, Running, At
<1>3. /\ helper' \in [pc : Steps, token : Origins, rest : SUBSET Names]
      /\ helper'.pc = "move" /\ helper'.token = helper.token /\ helper'.rest = helper.rest
  BY <1>1, GotoStep DEF Inv, TypeOK, Steps
<1>4. rb'[t0] = {NoEntries} /\ (\A t \in Tokens \ {t0} : rb'[t] = {})  BY <1>2 DEF MakeRollback, NoRollback
<1>5. TypeOK'  BY <1>3, NothingIsTyped, Zenon DEF Inv, TypeOK, MakeRollback, NoRollback
<1>6. Rollbacks'  BY <1>1, <1>2, <1>4, NothingIsTyped DEF Inv, Running, Rollbacks, MakeRollback, Has, At, Replacing, NoRollback
<1>7. Running'
  BY <1>1, <1>2, <1>3, <1>4 DEF Inv, Running, MakeRollback, Has, At, t0, Replacing, NoRollback
<1>8. Held(t0)' = NoEntries  BY <1>3, <1>4, HeldIsIt DEF Held, t0
<1>9. Progress'
  <2>1. target.entries = Old /\ helper.rest = DOMAIN target.entries /\ target.root = before[t0].root
    BY <1>1, <1>2, Zenon DEF Inv, Progress, At
  <2>2. Split(target.entries, NoEntries, Old)  BY <2>1, NothingIsTyped DEF Split
  <2>3. (target' = target) /\ (before' = before)  BY DEF MakeRollback
  <2> QED  BY <1>3, <1>8, <2>1, <2>2, <2>3, Zenon DEF Progress, At, t0, Old, Split
<1> QED  BY <1>5, <1>6, <1>7, <1>9 DEF Inv

(* An entry that is moved away is in the rollback directory and no longer in the target. *)
LEMMA MoveAwayKeepsInv ==
  ASSUME Inv, MoveAway
  PROVE  Inv'
<1>1. PICK n \in helper.rest :
        /\ rb' = [rb EXCEPT ![t0] = {Put(Held(t0), n, target.entries[n])}]
        /\ target' = [target EXCEPT !.entries = Drop(@, n)] /\ Goto("move", helper.rest \ {n})
  BY Zenon DEF MoveAway
<1>2. At("move") /\ spool' = spool /\ before' = before  BY DEF MoveAway
<1>3. t0 \in Tokens /\ Replacing /\ Has(t0) /\ spool[t0].phase = "moving" /\ \A t \in Tokens \ {t0} : ~Has(t)
  BY <1>2 DEF Inv, Running, At
<1>4. PICK f \in Entries : rb[t0] = {f}  BY <1>3 DEF Inv, Rollbacks
<1>5. Held(t0) = f  BY <1>4, HeldIsIt DEF Held
<1>6. Split(target.entries, f, Old) /\ helper.rest = DOMAIN target.entries /\ target.root = before[t0].root
  BY <1>2, <1>3, <1>5 DEF Inv, Progress, At
<1>7. n \in Names /\ target.entries \in Entries /\ target.entries[n] \in Origins
  BY <1>6, EntriesAreFunctions DEF Inv, TypeOK
<1> DEFINE left == Drop(target.entries, n)
<1> DEFINE held == Put(f, n, target.entries[n])
<1>8. left \in Entries /\ DOMAIN left = DOMAIN target.entries \ {n} /\ \A x \in DOMAIN target.entries : x # n => left[x] = target.entries[x]
  BY <1>7, DropEntry, Zenon
<1>9. /\ held \in Entries /\ DOMAIN held = DOMAIN f \cup {n} /\ held[n] = target.entries[n]
      /\ \A x \in DOMAIN f : x # n => held[x] = f[x]
  BY <1>7, PutEntry, ZenonT(30)
<1>10. rb' = [rb EXCEPT ![t0] = {held}] /\ target' = [target EXCEPT !.entries = left]  BY <1>1, <1>5
<1> HIDE DEF left, held
<1>11. /\ helper' \in [pc : Steps, token : Origins, rest : SUBSET Names]
       /\ helper'.pc = "move" /\ helper'.token = helper.token /\ helper'.rest = helper.rest \ {n}
  <2>1. helper.rest \ {n} \in SUBSET Names /\ "move" \in Steps  BY DEF Inv, TypeOK, Steps
  <2> QED  BY <1>1, <2>1, GotoStep DEF Inv
<1>12. target' \in [entries : Entries, root : Origins] /\ target'.entries = left /\ target'.root = target.root
  BY <1>8, <1>10 DEF Inv, TypeOK
<1>13. rb' \in [Tokens -> SUBSET Entries] /\ rb'[t0] = {held} /\ \A t \in Tokens \ {t0} : rb'[t] = rb[t]
  BY <1>3, <1>9, <1>10 DEF Inv, TypeOK
<1>14. TypeOK'  BY <1>2, <1>11, <1>12, <1>13 DEF Inv, TypeOK
<1>15. Rollbacks'  BY <1>2, <1>3, <1>9, <1>13 DEF Rollbacks, Has, Replacing, NoRollback
<1>16. Running'  BY <1>2, <1>3, <1>11, <1>13 DEF Running, Has, At, t0, Replacing, NoRollback
<1>17. Held(t0)' = held  BY <1>11, <1>13, HeldIsIt DEF Held, t0
<1>18. Split(left, held, Old)  BY <1>6, <1>8, <1>9, Zenon DEF Split
<1>19. Progress'
  BY <1>2, <1>6, <1>8, <1>11, <1>12, <1>17, <1>18 DEF Progress, At, t0, Old, Split
<1> QED  BY <1>14, <1>15, <1>16, <1>19 DEF Inv

(* The extraction begins when all the old entries are in the rollback directory. *)
LEMMA StartWritingKeepsInv ==
  ASSUME Inv, StartWriting
  PROVE  Inv'
<1>1. At("move") /\ helper.rest = {} /\ target' = target /\ rb' = rb /\ before' = before  BY DEF StartWriting
<1>2. t0 \in Tokens /\ Replacing /\ Has(t0) /\ \A t \in Tokens \ {t0} : ~Has(t)  BY <1>1 DEF Inv, Running, At
<1>3. PICK f \in Entries : rb[t0] = {f}  BY <1>2 DEF Inv, Rollbacks
<1>4. Held(t0) = f  BY <1>3, HeldIsIt, Zenon DEF Held
<1>5. Split(target.entries, f, Old) /\ DOMAIN target.entries = {} /\ target.root = before[t0].root
  BY <1>1, <1>2, <1>4 DEF Inv, Progress, At
<1>6. f = Old
  <2>1. Old \in Entries  BY <1>2 DEF Inv, TypeOK, Old
  <2>2. DOMAIN f = DOMAIN Old /\ \A n \in DOMAIN f : f[n] = Old[n]  BY <1>5 DEF Split
  <2> QED  BY <2>1, <2>2, EntriesAreFunctions
<1>7. /\ spool' \in [Tokens -> Records] /\ spool'[t0].phase = "writing"
      /\ \A s \in Tokens : spool'[s].mode = spool[s].mode /\ spool'[s].archive = spool[s].archive
      /\ \A s \in Tokens \ {t0} : spool'[s] = spool[s]
  <2>1. spool' = [spool EXCEPT ![t0].phase = "writing"] /\ "writing" \in Phases  BY DEF StartWriting, savePrepared, Phases
  <2> QED  BY <1>2, <2>1, SavedPhase, Zenon DEF Inv
<1>8. /\ helper' \in [pc : Steps, token : Origins, rest : SUBSET Names]
      /\ helper'.pc = "extract" /\ helper'.token = helper.token /\ helper'.rest = spool[t0].archive
  <2>1. spool[t0].archive \in SUBSET Names /\ "extract" \in Steps  BY <1>2, Zenon DEF Inv, TypeOK, Records, Steps
  <2> QED  BY <2>1, GotoStep DEF Inv, StartWriting
<1>9. TypeOK'  BY <1>1, <1>7, <1>8 DEF Inv, TypeOK
<1>10. Rollbacks'  BY <1>1, <1>2, <1>3, <1>7, Zenon DEF Rollbacks, Has, Replacing
<1>11. Running'  BY <1>1, <1>2, <1>7, <1>8 DEF Running, Has, At, t0, Replacing
<1>12. Held(t0)' = f  BY <1>1, <1>4, <1>8, Zenon DEF Held, t0
<1>13. Progress'
  <2>1. helper'.rest = spool'[t0].archive  BY <1>2, <1>7, <1>8
  <2> QED  BY <1>1, <1>5, <1>6, <1>8, <1>12, <2>1, Zenon DEF Progress, At, t0, Old
<1> QED  BY <1>9, <1>10, <1>11, <1>13 DEF Inv

(* What is extracted is an entry of the archive; the rollback directory stays. *)
LEMMA ExtractKeepsInv ==
  ASSUME Inv, extractPinned
  PROVE  Inv'
<1>1. PICK n \in helper.rest : target' = [target EXCEPT !.entries = Put(@, n, t0)] /\ Goto("extract", helper.rest \ {n})
  BY DEF extractPinned
<1>2. At("extract") /\ rb' = rb /\ spool' = spool /\ before' = before  BY DEF extractPinned
<1>3. t0 \in Tokens /\ n \in Names /\ target.entries \in Entries  BY <1>2 DEF Inv, Running, At, TypeOK
<1> DEFINE more == Put(target.entries, n, t0)
<1>4. /\ more \in Entries /\ DOMAIN more = DOMAIN target.entries \cup {n} /\ more[n] = t0
      /\ \A x \in DOMAIN target.entries : x # n => more[x] = target.entries[x]
  <2>1. t0 \in Origins  BY <1>3 DEF Origins
  <2> QED  BY <1>3, <2>1, PutEntry
<1>5. target' = [target EXCEPT !.entries = more]  BY <1>1
<1> HIDE DEF more
<1>6. target' \in [entries : Entries, root : Origins] /\ target'.entries = more /\ target'.root = target.root
  BY <1>4, <1>5 DEF Inv, TypeOK
<1>7. /\ helper' \in [pc : Steps, token : Origins, rest : SUBSET Names]
      /\ helper'.pc = "extract" /\ helper'.token = helper.token /\ helper'.rest = helper.rest \ {n}
  <2>1. helper.rest \ {n} \in SUBSET Names /\ "extract" \in Steps  BY DEF Inv, TypeOK, Steps
  <2> QED  BY <1>1, <2>1, GotoStep DEF Inv
<1>8. TypeOK'  BY <1>2, <1>6, <1>7 DEF Inv, TypeOK
<1>9. Rollbacks'  BY <1>2 DEF Inv, Rollbacks, Has
<1>10. Running'  BY <1>2, <1>7, Zenon DEF Inv, Running, Has, At, t0, Replacing
<1>11. Progress'
  BY <1>2, <1>4, <1>6, <1>7 DEF Inv, Progress, At, t0, Old, Replacing, Held
<1> QED  BY <1>8, <1>9, <1>10, <1>11 DEF Inv

(* A failed extraction turns to what it has to remove. *)
LEMMA ExtractionFailsKeepsInv ==
  ASSUME Inv, ExtractionFails
  PROVE  Inv'
<1>1. At("extract") /\ Replacing /\ target' = target /\ rb' = rb /\ spool' = spool /\ before' = before
  BY DEF ExtractionFails
<1>2. /\ helper' \in [pc : Steps, token : Origins, rest : SUBSET Names]
      /\ helper'.pc = "clear" /\ helper'.token = helper.token /\ helper'.rest = DOMAIN target.entries
  <2>1. DOMAIN target.entries \in SUBSET Names /\ "clear" \in Steps  BY EntriesAreFunctions DEF Inv, TypeOK, Steps
  <2> QED  BY <2>1, GotoStep DEF Inv, ExtractionFails
<1>3. TypeOK'  BY <1>1, <1>2 DEF Inv, TypeOK
<1>4. Rollbacks'  BY <1>1 DEF Inv, Rollbacks, Has
<1>5. Running'  BY <1>1, <1>2, Zenon DEF Inv, Running, Has, At, t0, Replacing
<1>6. Progress'  BY <1>1, <1>2 DEF Inv, Progress, At, t0, Old, Replacing, Held
<1> QED  BY <1>3, <1>4, <1>5, <1>6 DEF Inv

(* The extracted entries are removed; nothing comes back before the last of them is gone. *)
LEMMA ClearKeepsInv ==
  ASSUME Inv, ClearExtracted
  PROVE  Inv'
<1>1. At("clear") /\ rb' = rb /\ spool' = spool /\ before' = before  BY DEF ClearExtracted
<1>2. t0 \in Tokens /\ Replacing /\ Has(t0)  BY <1>1 DEF Inv, Running, At
<1>3. PICK f \in Entries : rb[t0] = {f}  BY <1>2, Zenon DEF Inv, Rollbacks
<1>4. Held(t0) = f  BY <1>3, HeldIsIt DEF Held
<1>5. f = Old /\ helper.rest = DOMAIN target.entries /\ target.root = before[t0].root
  BY <1>1, <1>2, <1>4, Zenon DEF Inv, Progress, At
<1>6. Rollbacks'  BY <1>1 DEF Inv, Rollbacks, Has
<1>7. CASE helper.rest = {}
  <2>1. target' = target /\ Goto("back", DOMAIN f)  BY <1>4, <1>7 DEF ClearExtracted
  <2>2. /\ helper' \in [pc : Steps, token : Origins, rest : SUBSET Names]
        /\ helper'.pc = "back" /\ helper'.token = helper.token /\ helper'.rest = DOMAIN f
    <3>1. DOMAIN f \in SUBSET Names /\ "back" \in Steps  BY EntriesAreFunctions DEF Steps
    <3> QED  BY <2>1, <3>1, GotoStep DEF Inv
  <2>3. TypeOK'  BY <1>1, <2>1, <2>2, Zenon DEF Inv, TypeOK
  <2>4. Running'  BY <1>1, <2>2 DEF Inv, Running, Has, At, t0, Replacing
  <2>5. Split(target.entries, f, Old)  BY <1>5, <1>7 DEF Split
  <2>6. Held(t0)' = f  BY <1>1, <1>4, <2>2, Zenon DEF Held, t0
  <2>7. Progress'  BY <1>1, <1>5, <2>1, <2>2, <2>5, <2>6 DEF Progress, At, t0, Old, Split
  <2> QED  BY <1>6, <2>3, <2>4, <2>7 DEF Inv
<1>8. CASE helper.rest # {}
  <2>1. PICK n \in helper.rest : target' = [target EXCEPT !.entries = Drop(@, n)] /\ Goto("clear", helper.rest \ {n})
    BY <1>8 DEF ClearExtracted
  <2>2. target.entries \in Entries  BY DEF Inv, TypeOK
  <2>3. Drop(target.entries, n) \in Entries /\ DOMAIN Drop(target.entries, n) = DOMAIN target.entries \ {n}
    BY <2>2, DropEntry, Zenon
  <2>4. /\ target' \in [entries : Entries, root : Origins]
        /\ target'.entries = Drop(target.entries, n) /\ target'.root = target.root
    BY <2>1, <2>3 DEF Inv, TypeOK
  <2>5. /\ helper' \in [pc : Steps, token : Origins, rest : SUBSET Names]
        /\ helper'.pc = "clear" /\ helper'.token = helper.token /\ helper'.rest = helper.rest \ {n}
    <3>1. helper.rest \ {n} \in SUBSET Names /\ "clear" \in Steps  BY DEF Inv, TypeOK, Steps
    <3> QED  BY <2>1, <3>1, GotoStep DEF Inv
  <2>6. TypeOK'  BY <1>1, <2>4, <2>5, Zenon DEF Inv, TypeOK
  <2>7. Running'  BY <1>1, <2>5 DEF Inv, Running, Has, At, t0, Replacing
  <2>8. Held(t0)' = f  BY <1>1, <1>4, <2>5, Zenon DEF Held, t0
  <2>9. Progress'  BY <1>1, <1>5, <2>3, <2>4, <2>5, <2>8 DEF Progress, At, t0, Old
  <2> QED  BY <1>6, <2>6, <2>7, <2>9 DEF Inv
<1> QED  BY <1>7, <1>8

(* An entry that comes back is in the target and no longer in the rollback directory. *)
LEMMA MoveBackKeepsInv ==
  ASSUME Inv, MoveBack
  PROVE  Inv'
<1>1. PICK n \in helper.rest :
        /\ target' = [target EXCEPT !.entries = Put(@, n, Held(t0)[n])]
        /\ rb' = [rb EXCEPT ![t0] = {Drop(Held(t0), n)}] /\ Goto("back", helper.rest \ {n})
  BY Zenon DEF MoveBack
<1>2. At("back") /\ spool' = spool /\ before' = before  BY DEF MoveBack
<1>3. t0 \in Tokens /\ Replacing /\ Has(t0) /\ spool[t0].phase = "writing" /\ \A t \in Tokens \ {t0} : ~Has(t)
  BY <1>2 DEF Inv, Running, At
<1>4. PICK f \in Entries : rb[t0] = {f}  BY <1>3, Zenon DEF Inv, Rollbacks
<1>5. Held(t0) = f  BY <1>4, HeldIsIt DEF Held
<1>6. Split(target.entries, f, Old) /\ helper.rest = DOMAIN f /\ target.root = before[t0].root
  BY <1>2, <1>3, <1>5 DEF Inv, Progress, At
<1>7. n \in Names /\ target.entries \in Entries /\ f[n] \in Origins
  BY <1>6, EntriesAreFunctions DEF Inv, TypeOK
<1> DEFINE back == Put(target.entries, n, f[n])
<1> DEFINE held == Drop(f, n)
<1>8. /\ back \in Entries /\ DOMAIN back = DOMAIN target.entries \cup {n} /\ back[n] = f[n]
      /\ \A x \in DOMAIN target.entries : x # n => back[x] = target.entries[x]
  BY <1>7, PutEntry, ZenonT(30)
<1>9. held \in Entries /\ DOMAIN held = DOMAIN f \ {n} /\ \A x \in DOMAIN f : x # n => held[x] = f[x]
  BY <1>7, DropEntry, SMTT(30)
<1>10. rb' = [rb EXCEPT ![t0] = {held}] /\ target' = [target EXCEPT !.entries = back]  BY <1>1, <1>5
<1> HIDE DEF back, held
<1>11. /\ helper' \in [pc : Steps, token : Origins, rest : SUBSET Names]
       /\ helper'.pc = "back" /\ helper'.token = helper.token /\ helper'.rest = helper.rest \ {n}
  <2>1. helper.rest \ {n} \in SUBSET Names /\ "back" \in Steps  BY DEF Inv, TypeOK, Steps
  <2> QED  BY <1>1, <2>1, GotoStep DEF Inv
<1>12. target' \in [entries : Entries, root : Origins] /\ target'.entries = back /\ target'.root = target.root
  BY <1>8, <1>10 DEF Inv, TypeOK
<1>13. rb' \in [Tokens -> SUBSET Entries] /\ rb'[t0] = {held} /\ \A t \in Tokens \ {t0} : rb'[t] = rb[t]
  BY <1>3, <1>9, <1>10 DEF Inv, TypeOK
<1>14. TypeOK'  BY <1>2, <1>11, <1>12, <1>13 DEF Inv, TypeOK
<1>15. Rollbacks'  BY <1>2, <1>3, <1>9, <1>13, Zenon DEF Rollbacks, Has, Replacing, NoRollback
<1>16. Running'  BY <1>2, <1>3, <1>11, <1>13 DEF Running, Has, At, t0, Replacing, NoRollback
<1>17. Held(t0)' = held  BY <1>11, <1>13, HeldIsIt, Zenon DEF Held, t0
<1>18. Split(back, held, Old)  BY <1>6, <1>8, <1>9, SMTT(30) DEF Split
<1>19. Progress'
  BY <1>2, <1>6, <1>9, <1>11, <1>12, <1>17, <1>18, Zenon DEF Progress, At, t0, Old, Split
<1> QED  BY <1>14, <1>15, <1>16, <1>19 DEF Inv

(* The rollback directory is removed when it is empty, and the target has its old entries. *)
LEMMA RollbackKeepsInv ==
  ASSUME Inv, rollbackPrepared
  PROVE  Inv'
<1>1. At("back") /\ helper.rest = {} /\ target' = target /\ spool' = spool /\ before' = before
  BY Zenon DEF rollbackPrepared
<1>2. t0 \in Tokens /\ Replacing /\ Has(t0) /\ spool[t0].phase = "writing" /\ \A t \in Tokens \ {t0} : ~Has(t)
  BY <1>1, Zenon DEF Inv, Running, At
<1>3. PICK f \in Entries : rb[t0] = {f}  BY <1>2, SMTT(30) DEF Inv, Rollbacks
<1>4. Held(t0) = f  BY <1>3, HeldIsIt DEF Held
<1>5. Split(target.entries, f, Old) /\ DOMAIN f = {} /\ target.root = before[t0].root
  BY <1>1, <1>2, <1>4 DEF Inv, Progress, At
<1>6. target.entries = Old
  <2>1. Old \in Entries /\ target.entries \in Entries  BY <1>2 DEF Inv, TypeOK, Old
  <2>2. DOMAIN target.entries = DOMAIN Old /\ \A n \in DOMAIN target.entries : target.entries[n] = Old[n]  BY <1>5, Zenon DEF Split
  <2> QED  BY <2>1, <2>2, EntriesAreFunctions
<1>7. /\ helper' \in [pc : Steps, token : Origins, rest : SUBSET Names]
      /\ helper'.pc = "rootback" /\ helper'.token = helper.token
  BY GotoStep DEF Inv, rollbackPrepared, Steps
<1>8. rb' \in [Tokens -> SUBSET Entries] /\ rb'[t0] = {} /\ \A t \in Tokens \ {t0} : rb'[t] = rb[t]
  BY <1>2 DEF Inv, TypeOK, rollbackPrepared, NoRollback
<1>9. TypeOK'  BY <1>1, <1>7, <1>8 DEF Inv, TypeOK
<1>10. Rollbacks'  BY <1>1, <1>8, Zenon DEF Inv, Rollbacks, Has, NoRollback
<1>11. Running'  BY <1>1, <1>2, <1>7, <1>8, ZenonT(30) DEF Running, Has, At, t0, Replacing, NoRollback
<1>12. Progress'  BY <1>1, <1>5, <1>6, <1>7, SMTT(30) DEF Progress, At, t0, Old
<1> QED  BY <1>9, <1>10, <1>11, <1>12 DEF Inv

(* A restore is recorded as rolled back when it has no rollback directory left. *)
LEMMA RolledBackKeepsInv ==
  ASSUME Inv, RolledBack
  PROVE  Inv'
<1>1. At("rootback") /\ rb' = rb /\ before' = before /\ helper' = NoHelper  BY DEF RolledBack
<1>2. t0 \in Tokens /\ ~Has(t0)  BY <1>1 DEF Inv, Running, At
<1>3. /\ spool' \in [Tokens -> Records]
      /\ \A s \in Tokens \ {t0} : spool'[s] = spool[s]
  <2>1. spool' = [spool EXCEPT ![t0].phase = "rolled_back"] /\ "rolled_back" \in Phases
    BY DEF RolledBack, savePrepared, Phases, Releasable
  <2> QED  BY <1>2, <2>1, SavedPhase, Zenon DEF Inv
<1>4. helper' \in [pc : Steps, token : Origins, rest : SUBSET Names] /\ helper'.pc = "idle"
  BY <1>1 DEF NoHelper, Steps, Origins
<1>5. target' \in [entries : Entries, root : Origins]
  <2>1. target' = [target EXCEPT !.root = before[t0].root] /\ before[t0].root \in Origins
    BY <1>2 DEF RolledBack, Inv, TypeOK
  <2> QED  BY <2>1 DEF Inv, TypeOK
<1>6. TypeOK'  BY <1>1, <1>3, <1>4, <1>5 DEF Inv, TypeOK
<1>7. Rollbacks'  BY <1>1, <1>2, <1>3 DEF Inv, Rollbacks, Has
<1> QED  BY <1>4, <1>6, <1>7 DEF Inv, Running, Progress, At

(* When the archive is extracted to its last entry it is whole in the target. *)
LEMMA RootMetadataKeepsInv ==
  ASSUME Inv, restoreArchiveRootMetadata
  PROVE  Inv'
<1>1. At("extract") /\ helper.rest = {} /\ rb' = rb /\ spool' = spool /\ before' = before
  BY DEF restoreArchiveRootMetadata
<1>2. t0 \in Tokens  BY <1>1 DEF Inv, Running, At
<1>3. /\ target' \in [entries : Entries, root : Origins] /\ target'.entries = target.entries
      /\ Replacing => target'.root = t0
  <2>1. PICK root \in Origins : target' = [target EXCEPT !.root = root] /\ (Replacing => root = t0)
    BY <1>2, Zenon DEF restoreArchiveRootMetadata, Inv, TypeOK, Origins
  <2> QED  BY <2>1 DEF Inv, TypeOK
<1>4. /\ helper' \in [pc : Steps, token : Origins, rest : SUBSET Names]
      /\ helper'.pc = IF Replacing THEN "drop" ELSE "save"
      /\ helper'.token = helper.token
  BY GotoStep DEF Inv, restoreArchiveRootMetadata, Steps
<1>5. TypeOK'  BY <1>1, <1>3, <1>4 DEF Inv, TypeOK
<1>6. Rollbacks'  BY <1>1, Zenon DEF Inv, Rollbacks, Has
<1>7. Running'  BY <1>1, <1>4, Zenon DEF Inv, Running, Has, At, t0, Replacing
<1>8. Progress'
  <2>1. Replacing => DOMAIN target.entries = spool[t0].archive /\ \A n \in DOMAIN target.entries : target.entries[n] = t0
    BY <1>1 DEF Inv, Progress, At
  <2> QED  BY <1>1, <1>3, <1>4, <2>1, Zenon DEF Progress, At, t0, Replacing, NewIsWhole
<1> QED  BY <1>5, <1>6, <1>7, <1>8 DEF Inv

(* Removing the rollback directory leaves the archive whole. *)
LEMMA DropRollbackKeepsInv ==
  ASSUME Inv, DropRollback
  PROVE  Inv'
<1>1. At("drop") /\ target' = target /\ spool' = spool /\ before' = before  BY DEF DropRollback
<1>2. t0 \in Tokens /\ Replacing /\ Has(t0) /\ spool[t0].phase = "writing" /\ \A t \in Tokens \ {t0} : ~Has(t)
  BY <1>1, Zenon DEF Inv, Running, At
<1>3. NewIsWhole(t0) /\ target.root = t0  BY <1>1, <1>2, Zenon DEF Inv, Progress, At
<1>4. PICK f \in Entries : rb[t0] = {f}  BY <1>2 DEF Inv, Rollbacks
<1>5. Held(t0) = f  BY <1>4, HeldIsIt DEF Held
<1>6. CASE Held(t0) = NoEntries
  <2>1. rb' = [rb EXCEPT ![t0] = {}] /\ Goto("save", {})  BY <1>6 DEF DropRollback, NoRollback
  <2>2. helper' \in [pc : Steps, token : Origins, rest : SUBSET Names] /\ helper'.pc = "save" /\ helper'.token = helper.token
    BY <2>1, GotoStep DEF Inv, Steps
  <2>3. rb' \in [Tokens -> SUBSET Entries] /\ rb'[t0] = {} /\ \A t \in Tokens \ {t0} : rb'[t] = rb[t]
    BY <1>2, <2>1 DEF Inv, TypeOK
  <2>4. TypeOK'  BY <1>1, <2>2, <2>3, Zenon DEF Inv, TypeOK
  <2>5. Rollbacks'  BY <1>1, <2>3, Zenon DEF Inv, Rollbacks, Has, NoRollback
  <2>6. Running'  BY <1>1, <1>2, <2>2, <2>3, Zenon DEF Running, Has, At, t0, Replacing, NoRollback
  <2>7. Progress'  BY <1>1, <1>3, <2>2 DEF Progress, At, t0, NewIsWhole
  <2> QED  BY <2>4, <2>5, <2>6, <2>7 DEF Inv
<1>7. CASE Held(t0) # NoEntries
  <2>1. PICK n \in DOMAIN f : rb' = [rb EXCEPT ![t0] = {Drop(f, n)}] /\ helper' = helper
    BY <1>5, <1>7 DEF DropRollback
  <2>2. Drop(f, n) \in Entries  BY DropEntry, Zenon
  <2>3. rb' \in [Tokens -> SUBSET Entries] /\ rb'[t0] = {Drop(f, n)} /\ \A t \in Tokens \ {t0} : rb'[t] = rb[t]
    BY <1>2, <2>1, <2>2, Zenon DEF Inv, TypeOK
  <2>4. TypeOK'  BY <1>1, <2>1, <2>3, Zenon DEF Inv, TypeOK
  <2>5. Rollbacks'  BY <1>1, <1>2, <2>2, <2>3, Zenon DEF Rollbacks, Has, Replacing, NoRollback
  <2>6. Running'  BY <1>1, <1>2, <2>1, <2>3, Zenon DEF Running, Has, At, t0, Replacing, NoRollback
  <2>7. Progress'  BY <1>1, <1>3, <2>1 DEF Progress, At, t0, NewIsWhole
  <2> QED  BY <2>4, <2>5, <2>6, <2>7 DEF Inv
<1> QED  BY <1>6, <1>7

(* A restore is recorded as completed when it has no rollback directory. *)
LEMMA CompleteKeepsInv ==
  ASSUME Inv, Complete
  PROVE  Inv'
<1>1. At("save") /\ target' = target /\ rb' = rb /\ before' = before /\ helper' = NoHelper  BY Zenon DEF Complete
<1>2. t0 \in Tokens /\ ~Has(t0)  BY <1>1 DEF Inv, Running, At, Rollbacks, Replacing
<1>3. /\ spool' \in [Tokens -> Records]
      /\ \A s \in Tokens \ {t0} : spool'[s] = spool[s]
  <2>1. spool' = [spool EXCEPT ![t0].phase = "completed"] /\ "completed" \in Phases
    BY DEF Complete, savePrepared, Phases, Releasable
  <2> QED  BY <1>2, <2>1, SavedPhase, ZenonT(30) DEF Inv
<1>4. helper' \in [pc : Steps, token : Origins, rest : SUBSET Names] /\ helper'.pc = "idle"
  BY <1>1 DEF NoHelper, Steps, Origins
<1>5. TypeOK'  BY <1>1, <1>3, <1>4, Zenon DEF Inv, TypeOK
<1>6. Rollbacks'  BY <1>1, <1>2, <1>3, Zenon DEF Inv, Rollbacks, Has
<1> QED  BY <1>4, <1>5, <1>6 DEF Inv, Running, Progress, At

(* The death of the helper changes nothing that is durable. *)
LEMMA DieKeepsInv ==
  ASSUME Inv, Die
  PROVE  Inv'
<1>1. target' = target /\ rb' = rb /\ spool' = spool /\ before' = before /\ helper' = NoHelper  BY DEF Die
<1>2. helper' \in [pc : Steps, token : Origins, rest : SUBSET Names] /\ helper'.pc = "idle"
  BY <1>1 DEF NoHelper, Steps, Origins
<1> QED  BY <1>1, <1>2 DEF Inv, TypeOK, Rollbacks, Has, Running, Progress, At
-----------------------------------------------------------------------------
(* Every step of the helper, of the spool and of an operator keeps the invariant. *)
LEMMA InvNext ==
  ASSUME PreparedRestoreAssumption, Inv, [Next]_vars
  PROVE  Inv'
<1>1. CASE Next
  BY <1>1, PrepareKeepsInv, ApplyKeepsInv, ReleaseKeepsInv, ResolveKeepsInv, MakeRollbackKeepsInv, MoveAwayKeepsInv,
     StartWritingKeepsInv, ExtractKeepsInv, ExtractionFailsKeepsInv, ClearKeepsInv, MoveBackKeepsInv, RollbackKeepsInv,
     RolledBackKeepsInv, RootMetadataKeepsInv, DropRollbackKeepsInv, CompleteKeepsInv, DieKeepsInv, SMTT(30) DEF Next
<1>2. CASE UNCHANGED vars
  BY <1>2 DEF vars, Inv, TypeOK, Rollbacks, Running, Progress, Has, Held, At, t0, Replacing, Old, Split, NewIsWhole
<1> QED  BY <1>1, <1>2

(* The invariant implies that a replacement is safe wherever it is interrupted. *)
LEMMA InvSafe == Inv => ReplacementIsSafe
<1> SUFFICES ASSUME Inv PROVE ReplacementIsSafe  OBVIOUS
<1>1. RollbackIsRecorded  BY DEF Inv, Rollbacks, RollbackIsRecorded
<1>2. ASSUME ~At("idle"), Replacing PROVE OldIsFound(t0) \/ NewIsWhole(t0)
  <2>1. t0 \in Tokens /\ helper.pc \in Steps  BY <1>2, Zenon DEF Inv, Running, TypeOK
  <2>2. CASE helper.pc \in {"drop", "save"}  BY <1>2, <2>2, Zenon DEF Inv, Progress
  <2>3. CASE helper.pc \in {"mkdir", "rootback"}
    BY <1>2, <2>3, Zenon DEF Inv, Progress, At, Old, OldIsFound, Found
  <2>4. CASE helper.pc \in {"move", "extract", "clear", "back"}
    <3>1. Has(t0)  BY <1>2, <2>4, Zenon DEF Inv, Running
    <3>2. Split(target.entries, Held(t0), Old) \/ Held(t0) = Old  BY <1>2, <2>4 DEF Inv, Progress, At
    <3> QED  BY <3>1, <3>2, Zenon DEF OldIsFound, Found, Split, Old
  <2> QED  BY <1>2, <2>1, <2>2, <2>3, <2>4 DEF Steps, At
<1> QED  BY <1>1, <1>2 DEF ReplacementIsSafe, OldOrNewIsWhole

(* A step takes nothing from the rollback directory of another restore. *)
LEMMA StepKeepsRollbacks ==
  ASSUME Inv, [Next]_vars
  PROVE  RollbackIsKept
<1> SUFFICES ASSUME NEW t \in Tokens, Has(t), ~At("idle"), t # t0 PROVE rb'[t] = rb[t]  BY DEF RollbackIsKept
<1>1. ~Replacing /\ t0 \in Tokens  BY DEF Inv, Running
<1>2. helper.pc \in {"extract", "save"}  BY <1>1, Zenon DEF Inv, Running
<1> QED
  BY <1>1, <1>2, Zenon DEF Inv, TypeOK, Next, vars, prepareRestore, applyPreparedRestore, ReleaseRestore, Resolve, MakeRollback, MoveAway,
     StartWriting, extractPinned, ExtractionFails, ClearExtracted, MoveBack, rollbackPrepared, RolledBack,
     restoreArchiveRootMetadata, DropRollback, Complete, Die, At

(* A step that records an outcome leaves the target as the outcome says. *)
LEMMA StepIsExact ==
  ASSUME PreparedRestoreAssumption, Inv, [Next]_vars
  PROVE  OutcomeIsExact
<1> SUFFICES ASSUME NEW t \in Tokens
             PROVE  /\ spool[t].phase # "rolled_back" /\ spool'[t].phase = "rolled_back" => target' = before[t]
                    /\ spool[t].phase # "completed" /\ spool'[t].phase = "completed" /\ spool[t].mode = "replace" =>
                         target' = [entries |-> [n \in spool[t].archive |-> t], root |-> t]
  BY Zenon DEF OutcomeIsExact
<1> DEFINE Same == spool'[t].phase = spool[t].phase \/ spool'[t].phase \notin {"rolled_back", "completed"}
<1>1. CASE RolledBack
  <2>1. t0 \in Tokens /\ Replacing /\ target.entries = Old  BY <1>1 DEF RolledBack, Inv, Running, Progress, At
  <2>2. target' = before[t0]
    <3>1. before[t0] \in [entries : Entries, root : Origins] /\ target \in [entries : Entries, root : Origins]
      BY <2>1 DEF Inv, TypeOK
    <3>2. target' = [target EXCEPT !.root = before[t0].root]  BY <1>1 DEF RolledBack
    <3> QED  BY <2>1, <3>1, <3>2 DEF Old
  <2>3. spool'[t0].phase = "rolled_back" /\ \A s \in Tokens \ {t0} : spool'[s] = spool[s]
    <3>1. spool' = [spool EXCEPT ![t0].phase = "rolled_back"] /\ "rolled_back" \in Phases
      BY <1>1, Zenon DEF RolledBack, savePrepared, Phases, Releasable
    <3> QED  BY <2>1, <3>1, SavedPhase, Zenon DEF Inv
  <2> QED  BY <2>2, <2>3
<1>2. CASE Complete
  <2>1. t0 \in Tokens /\ At("save") /\ target' = target  BY <1>2 DEF Complete, Inv, Running, At
  <2>2. spool'[t0].phase = "completed" /\ \A s \in Tokens \ {t0} : spool'[s] = spool[s]
    <3>1. spool' = [spool EXCEPT ![t0].phase = "completed"] /\ "completed" \in Phases
      BY <1>2, Zenon DEF Complete, savePrepared, Phases, Releasable
    <3> QED  BY <2>1, <3>1, SavedPhase, Zenon DEF Inv
  <2>3. ASSUME Replacing
        PROVE  target = [entries |-> [n \in spool[t0].archive |-> t0], root |-> t0]
    <3> DEFINE whole == [n \in spool[t0].archive |-> t0]
    <3>1. NewIsWhole(t0) /\ target.root = t0  BY <2>1, <2>3, Zenon DEF Inv, Progress, At
    <3>2. spool[t0].archive \in SUBSET Names /\ whole \in [spool[t0].archive -> Origins]
      BY <2>1, Zenon DEF Inv, TypeOK, Records, Origins
    <3>3. whole \in Entries  BY <3>2, Zenon DEF Entries
    <3>4. target.entries = whole
      <4>1. target.entries \in Entries  BY Zenon DEF Inv, TypeOK
      <4> QED  BY <3>1, <3>3, <4>1, EntriesAreFunctions DEF NewIsWhole
    <3> QED  BY <3>1, <3>4, Zenon DEF Inv, TypeOK
  <2> QED  BY <2>1, <2>2, <2>3, Zenon DEF Replacing
<1>3. ASSUME NEW s \in Tokens, prepareRestore(s) \/ applyPreparedRestore(s) \/ ReleaseRestore(s) \/ Resolve(s)
      PROVE  Same
  <2>1. CASE prepareRestore(s)
    <3>1. PICK mode \in {"replace", "merge"}, archive \in Archives, phase \in {"partial", "prepared"} :
            spool' = [spool EXCEPT ![s] = [phase |-> phase, mode |-> mode, archive |-> archive]]
      BY <2>1, Zenon DEF prepareRestore
    <3> QED  BY <3>1 DEF Inv, TypeOK
  <2>2. CASE applyPreparedRestore(s)
    <3>1. PICK phase \in {"moving", "writing"} : spool' = [spool EXCEPT ![s].phase = phase]
      BY <2>2 DEF applyPreparedRestore
    <3>2. phase \in Phases  BY DEF Phases
    <3> QED  BY <3>1, <3>2, SavedPhase DEF Inv
  <2>3. CASE ReleaseRestore(s) \/ Resolve(s)
    <3>1. spool' = [spool EXCEPT ![s] = Gone]  BY <2>3 DEF ReleaseRestore, Resolve
    <3>2. spool'[t] = spool[t] \/ spool'[t] = Gone  BY <3>1 DEF Inv, TypeOK
    <3>3. Gone.phase = "none"  BY Zenon DEF Gone
    <3> QED  BY <3>2, <3>3, Zenon
  <2> QED  BY <1>3, <2>1, <2>2, <2>3, Zenon
<1>4. CASE StartWriting
  <2>1. t0 \in Tokens  BY <1>4 DEF StartWriting, Inv, Running, At
  <2>2. spool' = [spool EXCEPT ![t0].phase = "writing"] /\ "writing" \in Phases  BY <1>4 DEF StartWriting, savePrepared, Phases
  <2>3. Same  BY <2>1, <2>2, SavedPhase DEF Inv
  <2> QED  BY <2>3, Zenon
<1>5. CASE \/ MakeRollback \/ MoveAway \/ extractPinned \/ ExtractionFails \/ ClearExtracted \/ MoveBack \/ rollbackPrepared
           \/ restoreArchiveRootMetadata \/ DropRollback \/ Die \/ UNCHANGED vars
  BY <1>5 DEF MakeRollback, MoveAway, extractPinned, ExtractionFails, ClearExtracted, MoveBack, rollbackPrepared,
     restoreArchiveRootMetadata, DropRollback, Die, vars
<1> QED  BY <1>1, <1>2, <1>3, <1>4, <1>5, Zenon DEF Next

(* For every target, every number of prepared restores and all archives, however often the helper
   dies: a replacement that is interrupted by its own death or by a failed call has lost no old
   entry unless the archive is whole, and its rollback directory is on record. *)
THEOREM ReplacementSafe ==
  ASSUME PreparedRestoreAssumption
  PROVE  Spec => []ReplacementIsSafe
<1>1. Init => Inv  BY InvInit
<1>2. Inv /\ [Next]_vars => Inv'  BY InvNext
<1>3. Inv => ReplacementIsSafe  BY InvSafe
<1> QED  BY <1>1, <1>2, <1>3, PTL DEF Spec

(* A restore that is recorded as rolled back has left the target as it found it, one recorded as
   completed has left the archive alone, and neither takes an entry of another's rollback directory. *)
THEOREM ReplacementExact ==
  ASSUME PreparedRestoreAssumption
  PROVE  Spec => ReplacementIsExact
<1>1. Init => Inv  BY InvInit
<1>2. Inv /\ [Next]_vars => Inv'  BY InvNext
<1>3. Inv /\ [Next]_vars => OutcomeIsExact /\ RollbackIsKept  BY StepKeepsRollbacks, StepIsExact, Zenon
<1> QED  BY <1>1, <1>2, <1>3, PTL DEF Spec, ReplacementIsExact
-----------------------------------------------------------------------------
(* The evidence on a destination after normalisation. *)
Verdicts == [st : {"unknown", "verified", "sampled", "failed"}, id : Nat]
Evidence == [meta : Verdicts, data : Verdicts, hold : SUBSET [scope : {"metadata", "all"}, id : Nat],
             status : {"current"}, err : {""}, ok : {{}}, later : {FALSE}, policy : {""}]
Findings == [kind : {"integrity", "inconclusive"}, policy : {"metadata", "subset", "all"}, id : Nat]
Conditions == [scope : {"metadata", "data", "all"}, id : Nat, hold : BOOLEAN]

(* Findings that the same checks resolve, and the newest of them. *)
Alike(f, g) == f.kind = g.kind /\ (f.policy = "metadata" <=> g.policy = "metadata")
Some(F, kind, meta) == \E f \in F : f.kind = kind /\ (f.policy = "metadata" <=> meta)
Newest(F, kind, meta, id) ==
  /\ \E f \in F : f.kind = kind /\ (f.policy = "metadata" <=> meta) /\ f.id = id
  /\ \A f \in F : f.kind = kind /\ (f.policy = "metadata" <=> meta) => f.id <= id

(* The evidence c stands for the findings F: it holds the newest of each sort. *)
StandsFor(c, F) ==
  /\ IF Failed(c.meta) THEN Newest(F, "integrity", TRUE, c.meta.id) ELSE ~Some(F, "integrity", TRUE)
  /\ IF Failed(c.data) THEN Newest(F, "integrity", FALSE, c.data.id) ELSE ~Some(F, "integrity", FALSE)
  /\ \A h \in c.hold : /\ Newest(F, "inconclusive", h.scope = "metadata", h.id)
                       /\ h.scope = "metadata" => ~Some(F, "inconclusive", FALSE)
  /\ \A g, h \in c.hold : g = h
  /\ c.hold = {} => \A f \in F : f.kind # "inconclusive"

(* Two sets of unresolved findings, of whatever time, agree up to any finding they share. *)
Agree(X, Y) ==
  /\ \A f \in X, g \in Y : f.kind = g.kind /\ f.id = g.id => f = g
  /\ \A m \in X \cap Y, k \in X \cup Y : Alike(k, m) /\ k.id <= m.id => k \in X /\ k \in Y
FindingSets == {found, disk.found, view.seen, job.seen}

(* Every condition of a review token is a finding that was seen with it. *)
Reviewed(v) ==
  \A t \in v.token : \E f \in v.seen :
    f.id = t.id /\ f.kind = (IF t.hold THEN "inconclusive" ELSE "integrity") /\ (f.policy = "metadata" <=> t.scope = "metadata")

MaintenanceTypeOK ==
  /\ dest \in Evidence /\ disk \in [d : Evidence, found : SUBSET Findings] /\ found \in SUBSET Findings
  /\ view \in [token : SUBSET Conditions, seen : SUBSET Findings]
  /\ job \in [action : {"none", "check", "prune", "deleted"}, by : {"", "scheduler", "local", "retention"},
              policy : Policies \cup {""}, token : SUBSET Conditions, seen : SUBSET Findings]
  /\ bound \in [checks : Nat, crashes : Nat, store : Nat]
MaintenanceInv ==
  /\ MaintenanceTypeOK
  /\ StandsFor(dest, found) /\ StandsFor(disk.d, disk.found)
  /\ \A X, Y \in FindingSets : Agree(X, Y)
  /\ \A X \in FindingSets : \A f \in X : f.id <= bound.checks
  /\ Reviewed(view) /\ Reviewed(job)
  /\ job.action = "check" => job.policy \in Policies
  /\ job.action = "prune" => job.by \in {"scheduler", "local"}
  /\ DeletionIsReviewed
(* Normalised evidence is left as it is by a second normalisation, at a start or a save. *)
LEMMA NormalIsKept ==
  ASSUME NEW c \in Evidence
  PROVE  normalizeCheckEvidence(c) = c
<1>1. /\ c.status = "current" /\ c.err = "" /\ c.ok = {} /\ c.later = FALSE /\ c.policy = ""
      /\ c = [meta |-> c.meta, data |-> c.data, hold |-> c.hold, status |-> "current", err |-> "", ok |-> {},
              later |-> FALSE, policy |-> ""]
  BY Zenon DEF Evidence
<1> QED
  BY <1>1, Zenon DEF normalizeCheckEvidence, knownNonIntegrityFailure

(* Evidence holds maintenance back exactly while there is a finding it stands for. *)
LEMMA BlockedByFindings ==
  ASSUME NEW c \in Evidence, NEW F \in SUBSET Findings, StandsFor(c, F)
  PROVE  repositoryMaintenanceBlocked(c) <=> F # {}
<1>1. c.status # "failed"
  BY Zenon DEF Evidence
<1>2. F # {} => \E f \in F : f.kind \in {"integrity", "inconclusive"}
  BY DEF Findings
<1>3. ASSUME NEW f \in F PROVE c.hold # {} \/ Failed(c.meta) \/ Failed(c.data)
  <2>1. CASE f.kind = "inconclusive"
    BY <2>1, Zenon DEF StandsFor
  <2>2. CASE f.kind = "integrity"
    BY <2>2, Zenon DEF StandsFor, Some
  <2> QED
    BY <2>1, <2>2, Zenon DEF Findings
<1>4. ASSUME c.hold # {} \/ Failed(c.meta) \/ Failed(c.data) PROVE F # {}
  BY <1>4, Zenon DEF StandsFor, Newest
<1> QED
  BY <1>1, <1>3, <1>4 DEF repositoryMaintenanceBlocked

(* Who has seen the newest finding of each sort has seen them all, a metadata check under the hold
   of a full read aside. *)
LEMMA ReviewIsCurrent ==
  ASSUME NEW c \in Evidence, NEW F \in SUBSET Findings, NEW v, v.seen \in SUBSET Findings,
         StandsFor(c, F), Agree(F, v.seen), Reviewed(v), v.token = repositoryReviewFingerprint(c),
         NEW f \in F, f \notin v.seen
  PROVE  f.kind = "inconclusive" /\ f.policy = "metadata" /\ \E g \in v.seen : g.kind = "inconclusive" /\ g.policy # "metadata"
<1>1. ASSUME NEW kind, NEW meta \in BOOLEAN, NEW id, Newest(F, kind, meta, id),
             f.kind = kind, f.policy = "metadata" <=> meta,
             NEW g \in v.seen, g.kind = kind, g.policy = "metadata" <=> meta, g.id = id
      PROVE  FALSE
  <2>1. PICK m \in F : m.kind = kind /\ (m.policy = "metadata" <=> meta) /\ m.id = id
    BY <1>1, Zenon DEF Newest
  <2>2. m = g
    BY <2>1, <1>1, ZenonT(30) DEF Agree
  <2>3. f.id <= m.id
    BY <2>1, <1>1, Zenon DEF Newest
  <2>4. m \in F \cap v.seen /\ f \in F \cup v.seen /\ Alike(f, m)
    BY <2>1, <2>2, <1>1, Zenon DEF Alike
  <2> QED
    BY <2>3, <2>4, Zenon DEF Agree
<1>2. CASE f.kind = "integrity" /\ f.policy = "metadata"
  <2>1. Failed(c.meta) /\ Newest(F, "integrity", TRUE, c.meta.id)
    BY <1>2, Zenon DEF StandsFor, Some
  <2>2. [scope |-> "metadata", id |-> c.meta.id, hold |-> FALSE] \in v.token
    BY <2>1, Zenon DEF repositoryReviewFingerprint
  <2>3. PICK g \in v.seen : g.id = c.meta.id /\ g.kind = "integrity" /\ g.policy = "metadata"
    BY <2>2 DEF Reviewed
  <2> QED
    BY <2>1, <2>3, <1>1, <1>2, Zenon
<1>3. CASE f.kind = "integrity" /\ f.policy # "metadata"
  <2>1. Failed(c.data) /\ Newest(F, "integrity", FALSE, c.data.id)
    BY <1>3, Zenon DEF StandsFor, Some
  <2>2. [scope |-> "data", id |-> c.data.id, hold |-> FALSE] \in v.token
    BY <2>1, Zenon DEF repositoryReviewFingerprint
  <2>3. PICK g \in v.seen : g.id = c.data.id /\ g.kind = "integrity" /\ g.policy # "metadata"
    BY <2>2 DEF Reviewed
  <2> QED
    BY <2>1, <2>3, <1>1, <1>3, Zenon
<1>4. CASE f.kind = "inconclusive"
  <2>1. PICK h \in c.hold : /\ Newest(F, "inconclusive", h.scope = "metadata", h.id)
                            /\ h.scope = "metadata" => ~Some(F, "inconclusive", FALSE)
    BY <1>4, Zenon DEF StandsFor
  <2>2. [scope |-> h.scope, id |-> h.id, hold |-> TRUE] \in v.token
    BY <2>1, Zenon DEF repositoryReviewFingerprint
  <2>3. PICK g \in v.seen : g.id = h.id /\ g.kind = "inconclusive" /\ (g.policy = "metadata" <=> h.scope = "metadata")
    BY <2>2 DEF Reviewed
  <2>4. CASE (f.policy = "metadata") <=> (h.scope = "metadata")
    BY <2>1, <2>3, <2>4, <1>1, <1>4, Zenon
  <2>5. CASE f.policy = "metadata" /\ h.scope # "metadata"
    BY <2>3, <2>5, <1>4
  <2>6. CASE f.policy # "metadata" /\ h.scope = "metadata"
    BY <2>1, <2>6, <1>4 DEF Some
  <2> QED
    BY <2>4, <2>5, <2>6
<1> QED
  BY <1>2, <1>3, <1>4 DEF Findings

(* Two sets of findings agree in either order. *)
LEMMA AgreeSymmetric ==
  ASSUME NEW X, NEW Y, Agree(X, Y)
  PROVE  Agree(Y, X)
BY DEF Agree

(* A finding of a new check, and the resolution of everything of a sort, leave agreement as it is. *)
LEMMA AgreeAfterCheck ==
  ASSUME NEW X \in SUBSET Findings, NEW Y \in SUBSET Findings, Agree(X, Y), NEW n \in Nat,
         \A f \in X \cup Y : f.id <= n, NEW X1 \in SUBSET Findings,
         \/ \E new \in Findings : new.id = n + 1 /\ X1 = X \cup {new}
         \/ \E p \in {"metadata", "subset", "all"} : X1 = X \ {f \in X : p = "all" \/ f.policy = "metadata"}
  PROVE  Agree(X1, Y)
<1>1. ASSUME NEW new \in Findings, new.id = n + 1, X1 = X \cup {new} PROVE Agree(X1, Y)
  <2>1. new \notin Y /\ \A f \in X \cup Y : f.id \in Nat /\ f.id # n + 1 /\ ~(n + 1 <= f.id)
    BY <1>1 DEF Findings
  <2> QED
    BY <2>1, <1>1 DEF Agree
<1>2. ASSUME NEW p, X1 = X \ {f \in X : p = "all" \/ f.policy = "metadata"} PROVE Agree(X1, Y)
  BY <1>2 DEF Agree, Alike
<1> QED
  BY <1>1, <1>2

(* What a check leaves on the destination stands for the findings that are then unresolved: an
   attempt that learns nothing changes neither, and a good check resolves what it covers. *)
LEMMA CheckStandsFor ==
  ASSUME NEW c \in Evidence, found \in SUBSET Findings, StandsFor(c, found), NEW n \in Nat,
         \A f \in found : f.id <= n, NEW policy \in {"metadata", "subset", "all"},
         NEW outcome \in {"ok", "integrity", "inconclusive", "transport"}
  PROVE  /\ recordCheckAttempt(c, policy, n + 1, outcome) \in Evidence
         /\ FindingsAfter(policy, n + 1, outcome) \in SUBSET Findings
         /\ StandsFor(recordCheckAttempt(c, policy, n + 1, outcome), FindingsAfter(policy, n + 1, outcome))
<1> DEFINE e == recordCheckAttempt(c, policy, n + 1, outcome)
           F == FindingsAfter(policy, n + 1, outcome)
           new == Finding(outcome, policy, n + 1)
<1>1. normalizeCheckEvidence(c) = c
  BY NormalIsKept
<1>2. \A f \in found : f.id \in Nat /\ f.id <= n /\ f.id <= n + 1
  BY DEF Findings
<1> DEFINE failed == [st |-> "failed", id |-> n + 1]
<1>0. failed \in Verdicts /\ Failed(failed) /\ failed.id = n + 1
  BY DEF Verdicts, Failed
<1> HIDE DEF failed
<1>3. CASE outcome = "integrity"
  <2>1. new \in Findings /\ new.kind = "integrity" /\ new.policy = policy /\ new.id = n + 1 /\ F = found \cup {new}
    BY <1>3 DEF Findings, Finding, FindingsAfter
  <2> HIDE DEF new, F
  <2>2. CASE policy = "metadata"
    <3>1. e = [c EXCEPT !.meta = failed]
      BY <1>1, <1>3, <2>2 DEF recordCheckAttempt, failed
    <3>2. /\ e \in Evidence /\ Failed(e.meta) /\ e.meta.id = n + 1 /\ e.data = c.data /\ e.hold = c.hold
      BY <3>1, <1>0, Zenon DEF Evidence
    <3> HIDE DEF e
    <3>3. Newest(F, "integrity", TRUE, n + 1)
      BY <2>1, <2>2, <1>2 DEF Newest
    <3>4. StandsFor(e, F)
      BY <3>2, <3>3, <2>1, <2>2 DEF StandsFor, Newest, Some
    <3> QED
      BY <3>2, <3>4, <2>1 DEF e, F
  <2>3. CASE policy # "metadata"
    <3>1. e = [c EXCEPT !.data = failed]
      BY <1>1, <1>3, <2>3 DEF recordCheckAttempt, failed
    <3>2. /\ e \in Evidence /\ Failed(e.data) /\ e.data.id = n + 1 /\ e.meta = c.meta /\ e.hold = c.hold
      BY <3>1, <1>0, Zenon DEF Evidence
    <3> HIDE DEF e
    <3>3. Newest(F, "integrity", FALSE, n + 1)
      BY <2>1, <2>3, <1>2 DEF Newest
    <3>4. StandsFor(e, F)
      BY <3>2, <3>3, <2>1, <2>3 DEF StandsFor, Newest, Some
    <3> QED
      BY <3>2, <3>4, <2>1 DEF e, F
  <2> QED
    BY <2>2, <2>3, Zenon
<1>4. CASE outcome = "inconclusive"
  <2> DEFINE h == [scope |-> requiredCheckScope(policy), id |-> n + 1]
  <2>1. new \in Findings /\ new.kind = "inconclusive" /\ new.policy = policy /\ new.id = n + 1 /\ F = found \cup {new}
    BY <1>4 DEF Findings, Finding, FindingsAfter
  <2> HIDE DEF new, F
  <2>2. e = [c EXCEPT !.hold = Hold(c.hold, h)]
    BY <1>1, <1>4, Zenon DEF recordCheckAttempt
  <2>3. h \in [scope : {"metadata", "all"}, id : Nat] /\ h.id = n + 1 /\ (h.scope = "metadata" <=> policy = "metadata")
    BY DEF requiredCheckScope
  <2> HIDE DEF h
  <2>4. Hold(c.hold, h) \in SUBSET [scope : {"metadata", "all"}, id : Nat]
    BY <2>3, Zenon DEF Hold, Evidence
  <2>5. e \in Evidence /\ e.hold = Hold(c.hold, h) /\ e.meta = c.meta /\ e.data = c.data
    BY <2>2, <2>4, Zenon DEF Evidence
  <2> HIDE DEF e
  <2>6. CASE e.hold = {h}
    <3>1. Newest(F, "inconclusive", h.scope = "metadata", h.id)
      BY <2>1, <2>3, <1>2 DEF Newest
    <3>2. h.scope = "metadata" => ~Some(F, "inconclusive", FALSE)
      <4>1. h.scope = "metadata" => c.hold = {} \/ \E g \in c.hold : g.scope = "metadata"
        BY <2>6, <2>5, Zenon DEF Hold
      <4>2. h.scope = "metadata" => ~Some(found, "inconclusive", FALSE)
        BY <4>1, Zenon DEF StandsFor, Some
      <4> QED
        BY <4>2, <2>1, <2>3, Zenon DEF Some
    <3> QED
      BY <3>1, <3>2, <2>6, <2>5, <2>1 DEF StandsFor, Newest, Some, e, F
  <2>7. CASE e.hold # {h}
    <3>1. e.hold = c.hold /\ c.hold # {} /\ policy = "metadata" /\ \A g \in c.hold : g.scope # "metadata"
      BY <2>7, <2>5, <2>3, Zenon DEF Hold, Evidence
    <3> QED
      BY <3>1, <2>5, <2>1, ZenonT(30) DEF StandsFor, Newest, Some, e, F
  <2> QED
    BY <2>6, <2>7, Zenon
<1>5. CASE outcome = "transport"
  BY <1>1, <1>5, Zenon DEF recordCheckAttempt, Attempted, FindingsAfter
<1>6. CASE outcome = "ok"
  <2> DEFINE data == IF policy = "all" THEN [st |-> "verified", id |-> n + 1]
                     ELSE IF policy = "subset" /\ c.data.st \notin {"failed", "verified"} THEN [st |-> "sampled", id |-> n + 1]
                     ELSE c.data
  <2>1. e = [c EXCEPT !.hold = Resolved(c.hold, policy), !.meta = [st |-> "verified", id |-> n + 1], !.data = data]
    BY <1>1, <1>6 DEF recordCheckAttempt
  <2>2. c.data \in Verdicts
    BY Zenon DEF Evidence
  <2>3. data \in Verdicts /\ (Failed(data) <=> policy # "all" /\ Failed(c.data)) /\ (Failed(data) => data = c.data)
    BY <2>2 DEF Verdicts, Failed
  <2> HIDE DEF data
  <2>4. Resolved(c.hold, policy) \in SUBSET [scope : {"metadata", "all"}, id : Nat]
    BY Zenon DEF Resolved, Evidence
  <2>5. [st |-> "verified", id |-> n + 1] \in Verdicts /\ ~Failed([st |-> "verified", id |-> n + 1])
    BY DEF Verdicts, Failed
  <2>6. /\ e \in Evidence /\ ~Failed(e.meta) /\ e.data = data
        /\ e.hold = {g \in c.hold : policy # "all" /\ g.scope # "metadata"}
    BY <2>1, <2>3, <2>4, <2>5, Zenon DEF Evidence, Resolved
  <2>7. F = found \ {f \in found : policy = "all" \/ f.policy = "metadata"}
    BY <1>6 DEF FindingsAfter, Covered
  <2> HIDE DEF e, F
  <2>8. CASE policy = "all"
    BY <2>8, <2>3, <2>6, <2>7, Zenon DEF StandsFor, Some, e, F
  <2>9. CASE policy # "all"
    <3>1. F = {f \in found : f.policy # "metadata"} /\ e.hold = {g \in c.hold : g.scope # "metadata"}
      BY <2>6, <2>7, <2>9
    <3>2. IF Failed(e.data) THEN Newest(F, "integrity", FALSE, e.data.id) ELSE ~Some(F, "integrity", FALSE)
      BY <3>1, <2>9, <2>3, <2>6, Zenon DEF StandsFor, Newest, Some
    <3>3. \A g \in e.hold : Newest(F, "inconclusive", g.scope = "metadata", g.id) /\ g.scope # "metadata"
      BY <3>1, Zenon DEF StandsFor, Newest
    <3>4. e.hold = {} => \A f \in F : f.kind # "inconclusive"
      BY <3>1 DEF StandsFor, Some
    <3>5. \A g, g2 \in e.hold : g = g2
      BY <3>1 DEF StandsFor
    <3>6. ~Failed(e.meta) /\ ~Some(F, "integrity", TRUE)
      BY <3>1, <2>6 DEF Some
    <3>7. StandsFor(e, F)
      BY <3>2, <3>3, <3>4, <3>5, <3>6, Zenon DEF StandsFor
    <3> QED
      BY <3>1, <3>7, <2>6 DEF e, F
  <2> QED
    BY <2>8, <2>9
<1> QED
  BY <1>3, <1>4, <1>5, <1>6

(* The token that an operator reads names findings that are unresolved then. *)
LEMMA TokenOfFindings ==
  ASSUME NEW c \in Evidence, StandsFor(c, found)
  PROVE  Reviewed([token |-> repositoryReviewFingerprint(c), seen |-> found]) /\ repositoryReviewFingerprint(c) \in SUBSET Conditions
<1>1. repositoryReviewFingerprint(c) \in SUBSET Conditions
  <2>1. c.meta.id \in Nat /\ c.data.id \in Nat /\ \A h \in c.hold : h.scope \in {"metadata", "all"} /\ h.id \in Nat
    BY Zenon DEF Evidence, Verdicts
  <2>2. /\ [scope |-> "metadata", id |-> c.meta.id, hold |-> FALSE] \in Conditions
        /\ [scope |-> "data", id |-> c.data.id, hold |-> FALSE] \in Conditions
        /\ \A h \in c.hold : [scope |-> h.scope, id |-> h.id, hold |-> TRUE] \in Conditions
    BY <2>1 DEF Conditions
  <2> QED
    BY <2>2, Zenon DEF repositoryReviewFingerprint
<1>2. ASSUME NEW t \in repositoryReviewFingerprint(c)
      PROVE  \E f \in found : f.id = t.id /\ f.kind = (IF t.hold THEN "inconclusive" ELSE "integrity")
                              /\ (f.policy = "metadata" <=> t.scope = "metadata")
  <2>1. CASE Failed(c.meta) /\ t = [scope |-> "metadata", id |-> c.meta.id, hold |-> FALSE]
    BY <2>1 DEF StandsFor, Newest
  <2>2. CASE Failed(c.data) /\ t = [scope |-> "data", id |-> c.data.id, hold |-> FALSE]
    BY <2>2, Zenon DEF StandsFor, Newest
  <2>3. ASSUME NEW h \in c.hold, t = [scope |-> h.scope, id |-> h.id, hold |-> TRUE]
        PROVE  \E f \in found : f.id = t.id /\ f.kind = (IF t.hold THEN "inconclusive" ELSE "integrity")
                                /\ (f.policy = "metadata" <=> t.scope = "metadata")
    BY <2>3, Zenon DEF StandsFor, Newest
  <2> QED
    BY <2>1, <2>2, <2>3 DEF repositoryReviewFingerprint
<1> QED
  BY <1>1, <1>2 DEF Reviewed

(* What an older version has stored stands, once normalised, for the findings it knew of. *)
LEMMA LegacyStandsFor ==
  ASSUME NEW s, NEW e, NEW ok, NEW p \in {"metadata", "subset", "all"}, NEW later \in BOOLEAN, NEW c, NEW F,
         c = normalizeCheckEvidence([meta |-> Unknown, data |-> Unknown, hold |-> {}, status |-> s, err |-> e, ok |-> ok, later |-> later, policy |-> p]),
         F = LegacyFindings([status |-> s, err |-> e, ok |-> ok, later |-> later, policy |-> p])
  PROVE  c \in Evidence /\ F \in SUBSET Findings /\ StandsFor(c, F) /\ Agree(F, F) /\ \A f \in F : f.id = 0
<1> DEFINE integrity == s = "failed" /\ e # "transport"
           inconclusive == e = "inconclusive" /\ ~(later /\ (ok = {"all"} \/ p = "metadata"))
           hold == [scope |-> requiredCheckScope(p), id |-> 0]
           f1 == Finding("integrity", "all", 0)
           f2 == Finding("inconclusive", p, 0)
<1>1. integrity \in BOOLEAN /\ inconclusive \in BOOLEAN
  OBVIOUS
<1>2. F = {f \in {f1, f2} : IF f.kind = "integrity" THEN integrity ELSE inconclusive}
  BY DEF LegacyFindings
<1>3. /\ c.meta \in Verdicts /\ c.data \in Verdicts /\ c.hold = (IF inconclusive THEN {hold} ELSE {})
      /\ ~Failed(c.meta) /\ (Failed(c.data) <=> integrity) /\ (integrity => c.data.id = 0)
  BY Zenon DEF normalizeCheckEvidence, knownNonIntegrityFailure, requiredCheckScope, laterCheckResolves, Unknown, Failed, Verdicts
<1>4. c = [meta |-> c.meta, data |-> c.data, hold |-> c.hold, status |-> "current", err |-> "", ok |-> {}, later |-> FALSE, policy |-> ""]
  BY Zenon DEF normalizeCheckEvidence
<1>5. hold \in [scope : {"metadata", "all"}, id : Nat] /\ hold.id = 0 /\ (hold.scope = "metadata" <=> p = "metadata")
  BY Zenon DEF requiredCheckScope
<1>6. /\ f1 \in Findings /\ f1.kind = "integrity" /\ f1.policy = "all" /\ f1.id = 0
      /\ f2 \in Findings /\ f2.kind = "inconclusive" /\ f2.policy = p /\ f2.id = 0
  BY Zenon DEF Finding, Findings
<1> HIDE DEF integrity, inconclusive, hold, f1, f2
<1>7. /\ F \in SUBSET Findings /\ F \subseteq {f1, f2} /\ (f1 \in F <=> integrity) /\ (f2 \in F <=> inconclusive)
      /\ \A f \in F : f.id = 0
  BY <1>1, <1>2, <1>6
<1>8. c \in Evidence
  <2>1. c.hold \in SUBSET [scope : {"metadata", "all"}, id : Nat]
    BY <1>3, <1>5, Zenon
  <2>2. \A m, x \in Verdicts, h \in SUBSET [scope : {"metadata", "all"}, id : Nat] :
          [meta |-> m, data |-> x, hold |-> h, status |-> "current", err |-> "", ok |-> {}, later |-> FALSE, policy |-> ""] \in Evidence
    BY Zenon DEF Evidence
  <2> QED
    BY ONLY <2>1, <2>2, <1>3, <1>4, Zenon
<1>9. StandsFor(c, F)
  <2>1. IF Failed(c.data) THEN Newest(F, "integrity", FALSE, c.data.id) ELSE ~Some(F, "integrity", FALSE)
    BY ONLY <1>1, <1>3, <1>6, <1>7 DEF Newest, Some
  <2>2. ~Failed(c.meta) /\ ~Some(F, "integrity", TRUE)
    BY ONLY <1>3, <1>6, <1>7 DEF Some
  <2>3. \A h \in c.hold : /\ Newest(F, "inconclusive", h.scope = "metadata", h.id)
                          /\ h.scope = "metadata" => ~Some(F, "inconclusive", FALSE)
    BY ONLY <1>1, <1>3, <1>5, <1>6, <1>7 DEF Newest, Some
  <2>4. (\A g, h \in c.hold : g = h) /\ (c.hold = {} => \A f \in F : f.kind # "inconclusive")
    BY ONLY <1>1, <1>3, <1>6, <1>7
  <2> QED
    BY ONLY <2>1, <2>2, <2>3, <2>4, Zenon DEF StandsFor
<1>10. Agree(F, F)
  BY ONLY <1>6, <1>7 DEF Agree
<1> QED
  BY <1>7, <1>8, <1>9, <1>10

(* The first state satisfies the invariant, whatever was stored. *)
LEMMA MaintenanceInvInit == ASSUME MaintenanceInit PROVE MaintenanceInv
<1>1. dest \in Evidence /\ found \in SUBSET Findings /\ StandsFor(dest, found) /\ Agree(found, found) /\ \A f \in found : f.id = 0
  <2>1. PICK s \in {"unknown", "verified", "failed"}, e \in {"", "transport", "ambiguous", "inconclusive"},
             ok \in {{}} \cup {{q} : q \in Policies}, p \in Policies, later \in BOOLEAN :
          /\ s = "failed" => e # "" /\ ~later
          /\ s = "unknown" => ok = {} /\ e # "ambiguous"
          /\ s = "verified" => ok # {} /\ e # "ambiguous"
          /\ later => ok # {}
          /\ dest = normalizeCheckEvidence([meta |-> Unknown, data |-> Unknown, hold |-> {}, status |-> s, err |-> e, ok |-> ok, later |-> later, policy |-> p])
          /\ found = LegacyFindings([status |-> s, err |-> e, ok |-> ok, later |-> later, policy |-> p])
    BY Zenon DEF MaintenanceInit
  <2>2. p \in {"metadata", "subset", "all"}
    BY PoliciesAssumption, Zenon
  <2> DEFINE c == normalizeCheckEvidence([meta |-> Unknown, data |-> Unknown, hold |-> {}, status |-> s, err |-> e, ok |-> ok, later |-> later, policy |-> p])
             F == LegacyFindings([status |-> s, err |-> e, ok |-> ok, later |-> later, policy |-> p])
  <2>3. \A x, Y : x = c /\ Y = F => x \in Evidence /\ Y \in SUBSET Findings /\ StandsFor(x, Y) /\ Agree(Y, Y) /\ \A f \in Y : f.id = 0
    BY <2>2, LegacyStandsFor, ZenonT(30)
  <2>4. dest = c /\ found = F
    BY <2>1, Zenon
  <2> HIDE DEF c, F
  <2> QED
    BY <2>3, <2>4, Zenon
<1>2. /\ disk = [d |-> dest, found |-> found] /\ view = [token |-> {}, seen |-> {}]
      /\ job = NoJob /\ bound = [checks |-> 0, crashes |-> 0, store |-> 0]
  BY Zenon DEF MaintenanceInit
<1>3. MaintenanceTypeOK
  BY <1>1, <1>2, Zenon DEF MaintenanceTypeOK, NoJob
<1>4. FindingSets = {found, {}}
  BY <1>2, Zenon DEF FindingSets, NoJob
<1>5. \A X, Y \in FindingSets : Agree(X, Y)
  BY <1>1, <1>4, Zenon DEF Agree
<1>6. \A X \in FindingSets : \A f \in X : f.id <= bound.checks
  BY <1>1, <1>2, <1>4
<1> QED
  BY <1>1, <1>2, <1>3, <1>5, <1>6, Zenon DEF MaintenanceInv, Reviewed, NoJob, DeletionIsReviewed

(* A step that copies what is known, or forgets it, keeps agreement. *)
LEMMA CopiesAgree ==
  ASSUME MaintenanceInv, FindingSets' \subseteq FindingSets \cup {{}}
  PROVE  \A X, Y \in FindingSets' : Agree(X, Y)
<1>1. ASSUME NEW X PROVE Agree(X, {}) /\ Agree({}, X)
  BY DEF Agree
<1> QED
  BY <1>1, Zenon DEF MaintenanceInv

(* A check that has ended, whatever its outcome and whether or not it could be stored. *)
LEMMA CheckKeepsMaintenanceInv ==
  ASSUME MaintenanceInv, ExecuteCheck
  PROVE  MaintenanceInv' /\ TokenIsStable
<1> DEFINE n == bound.checks
<1>1. PICK outcome \in {"ok", "integrity", "inconclusive", "transport"}, saved \in BOOLEAN :
        /\ dest' = recordCheckAttempt(dest, job.policy, n + 1, outcome)
        /\ found' = FindingsAfter(job.policy, n + 1, outcome)
        /\ disk' = IF saved THEN [d |-> dest', found |-> found'] ELSE disk
        /\ bound' = [bound EXCEPT !.checks = @ + 1, !.store = IF saved THEN @ ELSE @ + 1]
  BY Zenon DEF ExecuteCheck
<1>2. /\ job.action = "check" /\ job' = NoJob /\ view' = view
  BY Zenon DEF ExecuteCheck
<1>3. /\ MaintenanceTypeOK /\ StandsFor(dest, found) /\ StandsFor(disk.d, disk.found) /\ Reviewed(view) /\ Reviewed(job)
      /\ dest \in Evidence /\ found \in SUBSET Findings /\ n \in Nat /\ disk.found \in SUBSET Findings
      /\ view.seen \in SUBSET Findings /\ job.seen \in SUBSET Findings
      /\ \A X \in FindingSets : \A f \in X : f.id <= n
      /\ \A X, Y \in FindingSets : Agree(X, Y)
  BY Zenon DEF MaintenanceInv, MaintenanceTypeOK
<1>4. job.policy \in {"metadata", "subset", "all"}
  BY <1>2, PoliciesAssumption, Zenon DEF MaintenanceInv
<1>5. \A f \in found : f.id <= n
  BY <1>3 DEF FindingSets
<1>6. dest' \in Evidence /\ found' \in SUBSET Findings /\ StandsFor(dest', found')
  BY <1>1, <1>3, <1>4, <1>5, CheckStandsFor
<1>7. bound'.checks = n + 1 /\ bound' \in [checks : Nat, crashes : Nat, store : Nat]
  <2>1. bound \in [checks : Nat, crashes : Nat, store : Nat]
    BY <1>3, Zenon DEF MaintenanceTypeOK
  <2> DEFINE store == IF saved THEN bound.store ELSE bound.store + 1
  <2>2. bound' = [bound EXCEPT !.checks = n + 1, !.store = store]
    BY <1>1, Zenon
  <2>3. store \in Nat
    BY <2>1
  <2>4. \A b \in [checks : Nat, crashes : Nat, store : Nat], x, y \in Nat :
          LET b1 == [b EXCEPT !.checks = x, !.store = y] IN b1.checks = x /\ b1 \in [checks : Nat, crashes : Nat, store : Nat]
    BY Zenon
  <2>5. n + 1 \in Nat
    BY <1>3
  <2> HIDE DEF store
  <2> QED
    BY ONLY <2>1, <2>2, <2>3, <2>4, <2>5, Zenon
<1>8. \/ \E new \in Findings : new.id = n + 1 /\ found' = found \cup {new}
      \/ \E p \in {"metadata", "subset", "all"} : found' = found \ {f \in found : p = "all" \/ f.policy = "metadata"}
      \/ found' = found
  <2>1. CASE outcome \in {"integrity", "inconclusive"}
    <3>1. Finding(outcome, job.policy, n + 1) \in Findings /\ Finding(outcome, job.policy, n + 1).id = n + 1
      BY <2>1, <1>3, <1>4 DEF Finding, Findings
    <3> QED
      BY <3>1, <2>1, <1>1 DEF FindingsAfter
  <2>2. CASE outcome = "ok"
    BY <2>2, <1>1, <1>4 DEF FindingsAfter, Covered
  <2>3. CASE outcome = "transport"
    BY <2>3, <1>1 DEF FindingsAfter
  <2> QED
    BY <2>1, <2>2, <2>3
<1>9. ASSUME NEW Y \in FindingSets PROVE Agree(found', Y) /\ Agree(Y, found')
  <2>1. found \in FindingSets /\ Agree(found, Y) /\ Y \in SUBSET Findings /\ \A f \in found \cup Y : f.id <= n
    BY <1>3, <1>9, Zenon DEF FindingSets
  <2>2. Agree(found', Y)
    BY <2>1, <1>3, <1>6, <1>8, AgreeAfterCheck, Zenon
  <2> QED
    BY <2>2, AgreeSymmetric
<1>10. Agree(found', found')
  BY <1>6, <1>8, <1>9, <1>3 DEF Agree, FindingSets
<1>11. FindingSets' \subseteq FindingSets \cup {{}, found'}
  BY <1>1, <1>2, Zenon DEF FindingSets, NoJob
<1>12. \A X, Y \in FindingSets' : Agree(X, Y)
  <2>1. \A X : Agree(X, {}) /\ Agree({}, X)
    BY DEF Agree
  <2> QED
    BY <2>1, <1>3, <1>9, <1>10, <1>11, Zenon
<1>13. \A X \in FindingSets' : \A f \in X : f.id <= bound'.checks
  <2>1. \A f \in found' : f.id <= n + 1
    BY <1>3, <1>5, <1>8 DEF Findings
  <2>2. ASSUME NEW X \in FindingSets, NEW f \in X PROVE f.id <= n + 1
    <3>1. f.id <= n /\ f.id \in Nat
      BY <2>2, <1>3 DEF FindingSets, Findings
    <3> QED
      BY <3>1, <1>3
  <2> QED
    BY <2>1, <2>2, <1>7, <1>11
<1>14. MaintenanceTypeOK'
  BY <1>1, <1>2, <1>3, <1>6, <1>7, Zenon DEF MaintenanceTypeOK, NoJob
<1>15. StandsFor(disk.d, disk.found)'
  BY <1>1, <1>3, <1>6
<1>16. MaintenanceInv'
  BY <1>2, <1>3, <1>6, <1>12, <1>13, <1>14, <1>15, Zenon DEF MaintenanceInv, Reviewed, NoJob, DeletionIsReviewed
<1>17. ASSUME found' = found PROVE repositoryReviewFingerprint(dest') = repositoryReviewFingerprint(dest)
  <2>1. normalizeCheckEvidence(dest) = dest
    BY <1>3, NormalIsKept, Zenon
  <2>2. CASE outcome \in {"integrity", "inconclusive"}
    <3>1. Finding(outcome, job.policy, n + 1) \in found
      BY <2>2, <1>1, <1>17 DEF FindingsAfter
    <3> QED
      BY <3>1, <1>3, <1>5 DEF Finding
  <2>3. CASE outcome = "transport"
    BY <2>1, <2>3, <1>1 DEF recordCheckAttempt, Attempted
  <2>4. CASE outcome = "ok"
    <3>1. \A f \in found : ~(job.policy = "all" \/ f.policy = "metadata")
      BY <2>4, <1>1, <1>17, Zenon DEF FindingsAfter, Covered
    <3>2. ~Failed(dest.meta)
      BY <3>1, <1>3, Zenon DEF StandsFor, Newest
    <3>3. job.policy = "all" => ~Failed(dest.data) /\ dest.hold = {}
      BY <3>1, <1>3, Zenon DEF StandsFor, Newest
    <3>4. \A h \in dest.hold : h.scope # "metadata" /\ job.policy # "all"
      BY <3>1, <1>3, Zenon DEF StandsFor, Newest
    <3>5. /\ ~Failed(dest'.meta) /\ dest'.hold = dest.hold
          /\ Failed(dest'.data) <=> Failed(dest.data)
          /\ Failed(dest.data) => dest'.data = dest.data
      <4> DEFINE data == IF job.policy = "all" THEN [st |-> "verified", id |-> n + 1]
                         ELSE IF job.policy = "subset" /\ dest.data.st \notin {"failed", "verified"} THEN [st |-> "sampled", id |-> n + 1]
                         ELSE dest.data
      <4>1. dest' = [dest EXCEPT !.hold = Resolved(dest.hold, job.policy), !.meta = [st |-> "verified", id |-> n + 1], !.data = data]
        BY <2>1, <2>4, <1>1 DEF recordCheckAttempt
      <4>2. (Failed(data) <=> Failed(dest.data)) /\ (Failed(dest.data) => data = dest.data)
        BY <3>3 DEF Failed
      <4> HIDE DEF data
      <4>3. Resolved(dest.hold, job.policy) = dest.hold
        BY <3>4 DEF Resolved
      <4> QED
        BY <4>1, <4>2, <4>3, <1>3, Zenon DEF Failed, Evidence
    <3>6. {x \in {dest'.meta} : Failed(x)} = {} /\ {x \in {dest.meta} : Failed(x)} = {}
      BY <3>2, <3>5
    <3>7. {x \in {dest'.data} : Failed(x)} = {x \in {dest.data} : Failed(x)}
      <4>1. CASE Failed(dest.data)
        <5>1. dest'.data = dest.data
          BY <4>1, <3>5
        <5> QED
          BY <5>1, Zenon
      <4>2. CASE ~Failed(dest.data)
        BY <4>2, <3>5, Zenon
      <4> QED
        BY <4>1, <4>2
    <3> QED
      BY <3>5, <3>6, <3>7, Zenon DEF repositoryReviewFingerprint
  <2> QED
    BY <2>2, <2>3, <2>4, Zenon
<1> QED
  BY <1>16, <1>17 DEF TokenIsStable

(* A prune that is started or carried out past findings was asked for by an operator who has seen
   the newest of each sort. *)
LEMMA AcknowledgedIsReviewed ==
  ASSUME MaintenanceInv, NEW by \in {"scheduler", "local"}, validatePruneAcknowledgement(by, job.token), found # {}
  PROVE  /\ by = "local"
         /\ \A f \in found \ job.seen :
              f.kind = "inconclusive" /\ f.policy = "metadata" /\ \E g \in job.seen : g.kind = "inconclusive" /\ g.policy # "metadata"
<1>1. /\ dest \in Evidence /\ found \in SUBSET Findings /\ StandsFor(dest, found) /\ Reviewed(job)
      /\ job.seen \in SUBSET Findings /\ Agree(found, job.seen)
  BY Zenon DEF MaintenanceInv, MaintenanceTypeOK, FindingSets
<1>2. repositoryMaintenanceBlocked(dest)
  BY <1>1, BlockedByFindings
<1>3. by # "scheduler" /\ job.token = repositoryReviewFingerprint(dest)
  BY <1>2, Zenon DEF validatePruneAcknowledgement
<1> QED
  BY <1>1, <1>3, ReviewIsCurrent

(* What is written of the evidence is the evidence and its findings. *)
LEMMA WrittenEvidence ==
  ASSUME NEW c \in Evidence, NEW F \in SUBSET Findings, StandsFor(c, F), NEW r, r = [d |-> c, found |-> F]
  PROVE  r \in [d : Evidence, found : SUBSET Findings] /\ r.d = c /\ r.found = F /\ StandsFor(r.d, r.found)
<1>1. r \in [d : Evidence, found : SUBSET Findings] /\ r.d = c /\ r.found = F
  BY Zenon
<1> QED
  BY <1>1, Zenon

(* A job that is over holds nothing. *)
LEMMA NoJobHoldsNothing ==
  /\ NoJob.seen = {} /\ NoJob.token = {} /\ NoJob.action = "none" /\ Reviewed(NoJob)
  /\ NoJob \in [action : {"none", "check", "prune", "deleted"}, by : {"", "scheduler", "local", "retention"},
                policy : Policies \cup {""}, token : SUBSET Conditions, seen : SUBSET Findings]
BY DEF NoJob, Reviewed

(* A step that leaves the evidence alone and moves copies of what is known of it keeps the invariant. *)
LEMMA CopiesKeepMaintenanceInv ==
  ASSUME MaintenanceInv, dest' = dest, found' = found, bound' = bound,
         FindingSets' \subseteq FindingSets \cup {{}}, MaintenanceTypeOK',
         StandsFor(disk'.d, disk'.found), Reviewed(view'), Reviewed(job'),
         job'.action = "check" => job'.policy \in Policies,
         job'.action = "prune" => job'.by \in {"scheduler", "local"}, DeletionIsReviewed'
  PROVE  MaintenanceInv'
<1>1. \A X, Y \in FindingSets' : Agree(X, Y)
  BY CopiesAgree
<1>2. \A X \in FindingSets : \A f \in X : f.id <= bound.checks
  BY Zenon DEF MaintenanceInv
<1>3. \A X \in FindingSets' : \A f \in X : f.id <= bound'.checks
  BY <1>2
<1>4. StandsFor(dest', found')
  BY Zenon DEF MaintenanceInv
<1> QED
  BY <1>1, <1>3, <1>4, Zenon DEF MaintenanceInv, Reviewed

(* Steps that leave the evidence alone. *)
LEMMA JobKeepsMaintenanceInv ==
  ASSUME MaintenanceInv,
         \/ Overview \/ ExecutePrune \/ executeRetention \/ FinishMaintenance
         \/ \E p \in Policies : StartRepositoryJob("check", "local", p)
         \/ \E by \in {"scheduler", "local"} : StartRepositoryJob("prune", by, "")
  PROVE  MaintenanceInv' /\ TokenIsStable
<1>1. dest' = dest /\ found' = found /\ bound' = bound
  BY Zenon DEF Overview, StartRepositoryJob, ExecutePrune, executeRetention, FinishMaintenance
<1>2. /\ MaintenanceTypeOK /\ StandsFor(dest, found) /\ StandsFor(disk.d, disk.found) /\ Reviewed(view) /\ Reviewed(job)
      /\ dest \in Evidence /\ found \in SUBSET Findings /\ disk \in [d : Evidence, found : SUBSET Findings]
      /\ view \in [token : SUBSET Conditions, seen : SUBSET Findings] /\ bound.checks \in Nat
      /\ \A X \in FindingSets : \A f \in X : f.id <= bound.checks
  BY Zenon DEF MaintenanceInv, MaintenanceTypeOK
<1>3. TokenIsStable
  BY <1>1, <1>2, Zenon DEF TokenIsStable
<1>5. CASE Overview
  <2>1. view' = [token |-> repositoryReviewFingerprint(dest), seen |-> found] /\ UNCHANGED <<dest, disk, found, job, bound>>
    BY <1>5, Zenon DEF Overview
  <2>2. Reviewed(view') /\ repositoryReviewFingerprint(dest) \in SUBSET Conditions
    BY <2>1, <1>2, TokenOfFindings, Zenon
  <2>3. FindingSets' \subseteq FindingSets \cup {{}}
    BY <2>1, Zenon DEF FindingSets
  <2>4. MaintenanceTypeOK'
    BY <2>1, <2>2, <1>2, Zenon DEF MaintenanceTypeOK
  <2> QED
    <3>1. DeletionIsReviewed' /\ Reviewed(job')
      BY <2>1, <1>2, Zenon DEF MaintenanceInv, DeletionIsReviewed
    <3>2. /\ job'.action = "check" => job'.policy \in Policies
          /\ job'.action = "prune" => job'.by \in {"scheduler", "local"}
      BY <2>1, Zenon DEF MaintenanceInv
    <3>3. StandsFor(disk'.d, disk'.found)
      BY <2>1, <1>2, Zenon
    <3> QED
      BY <3>1, <3>2, <3>3, <2>2, <2>3, <2>4, <1>1, <1>3, CopiesKeepMaintenanceInv, Zenon
<1>6. ASSUME NEW action \in {"check", "prune"}, NEW by \in {"scheduler", "local"}, NEW policy \in Policies \cup {""},
             StartRepositoryJob(action, by, policy), action = "check" => policy \in Policies
      PROVE  MaintenanceInv'
  <2>1. /\ job' = [action |-> action, by |-> by, policy |-> policy, token |-> view.token, seen |-> view.seen]
        /\ UNCHANGED <<dest, disk, found, view, bound>>
    BY <1>6, Zenon DEF StartRepositoryJob
  <2>2. FindingSets' \subseteq FindingSets \cup {{}}
    BY <2>1, Zenon DEF FindingSets
  <2>3. MaintenanceTypeOK'
    BY <2>1, <1>2, <1>6, Zenon DEF MaintenanceTypeOK
  <2>4. Reviewed(job') /\ Reviewed(view')
    BY <2>1, <1>2, Zenon DEF Reviewed
  <2>5. DeletionIsReviewed'
    BY <2>1, <1>6, Zenon DEF DeletionIsReviewed
  <2> QED
    <3>1. /\ job'.action = "check" => job'.policy \in Policies
          /\ job'.action = "prune" => job'.by \in {"scheduler", "local"}
      BY <2>1, <1>6, Zenon
    <3>2. StandsFor(disk'.d, disk'.found)
      BY <2>1, <1>2, Zenon
    <3> QED
      BY <3>1, <3>2, <2>2, <2>3, <2>4, <2>5, <1>1, CopiesKeepMaintenanceInv, Zenon
<1>7. ASSUME job' = NoJob, view' = view, disk' = disk \/ disk' = [d |-> dest, found |-> found]
      PROVE  MaintenanceInv'
  <2>1. job'.seen = {} /\ job'.action = "none" /\ Reviewed(job')
    BY <1>7, NoJobHoldsNothing, Zenon
  <2>2. disk' \in [d : Evidence, found : SUBSET Findings] /\ StandsFor(disk'.d, disk'.found)
        /\ (disk'.found = disk.found \/ disk'.found = found)
    <3>1. CASE disk' = disk
      BY <3>1, <1>2, Zenon
    <3>2. CASE disk' = [d |-> dest, found |-> found]
      BY <3>2, <1>2, WrittenEvidence, Zenon
    <3> QED
      BY <3>1, <3>2, <1>7, Zenon
  <2>3. FindingSets' \subseteq FindingSets \cup {{}}
    BY ONLY <2>1, <2>2, <1>1, <1>7 DEF FindingSets
  <2>4. MaintenanceTypeOK'
    BY <2>2, <1>1, <1>2, <1>7, NoJobHoldsNothing, Zenon DEF MaintenanceTypeOK
  <2>5. Reviewed(view') /\ DeletionIsReviewed'
    BY ONLY <2>1, <1>2, <1>7, Zenon DEF Reviewed, DeletionIsReviewed
  <2>6. job'.action # "check" /\ job'.action # "prune"
    BY ONLY <2>1, Zenon
  <2> QED
    BY <2>1, <2>2, <2>3, <2>4, <2>5, <2>6, <1>1, CopiesKeepMaintenanceInv, Zenon
<1>8. CASE ExecutePrune
  <2>1. job.action = "prune" /\ job.by \in {"scheduler", "local"} /\ UNCHANGED <<dest, disk, found, view, bound>>
    BY <1>8 DEF ExecutePrune, MaintenanceInv
  <2>2. CASE validatePruneAcknowledgement(job.by, job.token)
    <3>1. job' = [job EXCEPT !.action = "deleted"]
      BY <1>8, <2>2 DEF ExecutePrune
    <3>2. MaintenanceTypeOK' /\ job'.action = "deleted" /\ job'.seen = job.seen /\ job'.token = job.token /\ job'.by = job.by
      BY <3>1, <2>1, <1>2, Zenon DEF MaintenanceTypeOK
    <3>3. DeletionIsReviewed'
      BY <3>2, <2>1, <2>2, AcknowledgedIsReviewed, Zenon DEF DeletionIsReviewed
    <3>4. FindingSets' \subseteq FindingSets \cup {{}}
      BY <3>2, <2>1, Zenon DEF FindingSets
    <3>5. Reviewed(job') /\ Reviewed(view') /\ StandsFor(disk'.d, disk'.found)
      BY <3>2, <2>1, <1>2, Zenon DEF Reviewed
    <3> QED
      <4>1. job'.action # "check" /\ job'.action # "prune"
        BY ONLY <3>2
      <4> QED
        BY <4>1, <3>2, <3>3, <3>4, <3>5, <1>1, CopiesKeepMaintenanceInv, <1>3, Zenon
  <2>3. CASE ~validatePruneAcknowledgement(job.by, job.token)
    <3>1. job' = NoJob
      BY <1>8, <2>3 DEF ExecutePrune
    <3> QED
      BY <3>1, <2>1, <1>7, <1>3, Zenon
  <2> QED
    BY <2>2, <2>3, Zenon
<1>9. CASE executeRetention
  <2>1. job' = [NoJob EXCEPT !.action = "deleted", !.by = "retention"] /\ ~repositoryMaintenanceBlocked(dest)
        /\ UNCHANGED <<dest, disk, found, view, bound>>
    BY <1>9, Zenon DEF executeRetention, retentionBlockedError
  <2>2. found = {}
    BY <2>1, <1>2, BlockedByFindings, Zenon
  <2>3. /\ job' \in [action : {"deleted"}, by : {"retention"}, policy : {""}, token : {{}}, seen : {{}}]
    BY <2>1, Zenon DEF NoJob
  <2>4. MaintenanceTypeOK' /\ FindingSets' \subseteq FindingSets \cup {{}}
    BY <2>1, <2>3, <1>2, Zenon DEF MaintenanceTypeOK, FindingSets
  <2>5. Reviewed(job') /\ DeletionIsReviewed'
    BY <2>1, <2>2, <2>3, Zenon DEF Reviewed, DeletionIsReviewed
  <2>6. job'.action = "deleted" /\ Reviewed(view') /\ StandsFor(disk'.d, disk'.found)
    BY <2>1, <2>3, <1>2, Zenon
  <2> QED
    <3>1. job'.action # "check" /\ job'.action # "prune"
      BY ONLY <2>6
    <3> QED
      BY <3>1, <2>4, <2>5, <2>6, <1>1, CopiesKeepMaintenanceInv, <1>3, Zenon
<1>10. CASE FinishMaintenance
  <2>1. job' = NoJob /\ view' = view /\ (disk' = disk \/ disk' = [d |-> dest, found |-> found])
    BY <1>10, Zenon DEF FinishMaintenance
  <2> QED
    BY <2>1, <1>7, <1>3, Zenon
<1> QED
  BY <1>3, <1>5, <1>6, <1>8, <1>9, <1>10, Zenon

(* SaveDestination writes what is in memory; a restart takes up what was written. *)
LEMMA StoreKeepsMaintenanceInv ==
  ASSUME MaintenanceInv, SaveDestination \/ Restart
  PROVE  MaintenanceInv' /\ TokenIsStable
<1>1. /\ MaintenanceTypeOK /\ StandsFor(dest, found) /\ StandsFor(disk.d, disk.found) /\ Reviewed(view) /\ Reviewed(job)
      /\ dest \in Evidence /\ found \in SUBSET Findings /\ disk.d \in Evidence /\ disk.found \in SUBSET Findings
      /\ bound \in [checks : Nat, crashes : Nat, store : Nat]
      /\ \A X \in FindingSets : \A f \in X : f.id <= bound.checks
  BY Zenon DEF MaintenanceInv, MaintenanceTypeOK
<1>2. normalizeCheckEvidence(dest) = dest /\ normalizeCheckEvidence(disk.d) = disk.d
  BY <1>1, NormalIsKept, Zenon
<1>3. /\ job' = NoJob /\ view' = view /\ bound'.checks = bound.checks /\ bound' \in [checks : Nat, crashes : Nat, store : Nat]
      /\ \/ dest' = dest /\ found' = found /\ disk' = [d |-> dest, found |-> found]
         \/ dest' = disk.d /\ found' = disk.found /\ disk' = disk
  BY <1>1, <1>2 DEF SaveDestination, Restart, Use
<1>4. FindingSets' \subseteq FindingSets \cup {{}}
  <2>1. job'.seen = {} /\ (disk'.found = disk.found \/ disk'.found = found)
    <3>1. CASE disk' = [d |-> dest, found |-> found]
      BY <3>1, <1>1, <1>3, WrittenEvidence, NoJobHoldsNothing, Zenon
    <3>2. CASE disk' = disk
      BY <3>2, <1>3, NoJobHoldsNothing, Zenon
    <3> QED
      BY <3>1, <3>2, <1>3, Zenon
  <2>2. found' = found \/ found' = disk.found
    BY <1>3, Zenon
  <2>3. view' = view
    BY <1>3, Zenon
  <2> QED
    BY ONLY <2>1, <2>2, <2>3 DEF FindingSets
<1>5. MaintenanceTypeOK'
  <2>1. disk' \in [d : Evidence, found : SUBSET Findings] /\ dest' \in Evidence /\ found' \in SUBSET Findings
    <3>1. CASE dest' = dest /\ found' = found /\ disk' = [d |-> dest, found |-> found]
      BY <3>1, <1>1, WrittenEvidence, Zenon
    <3>2. CASE dest' = disk.d /\ found' = disk.found /\ disk' = disk
      BY <3>2, <1>1, Zenon DEF MaintenanceTypeOK
    <3> QED
      BY <3>1, <3>2, <1>3, Zenon
  <2> QED
    BY <2>1, <1>1, <1>3, NoJobHoldsNothing, Zenon DEF MaintenanceTypeOK
<1>6. (\A X, Y \in FindingSets' : Agree(X, Y)) /\ \A X \in FindingSets' : \A f \in X : f.id <= bound'.checks
  BY <1>1, <1>3, <1>4, CopiesAgree, Zenon
<1>7. StandsFor(dest', found') /\ StandsFor(disk'.d, disk'.found)
  BY <1>1, <1>3
<1>8. Reviewed(view') /\ Reviewed(job') /\ DeletionIsReviewed' /\ job'.action = "none"
  BY <1>1, <1>3, Zenon DEF Reviewed, NoJob, DeletionIsReviewed
<1> QED
  BY <1>1, <1>3, <1>5, <1>6, <1>7, <1>8 DEF MaintenanceInv, TokenIsStable

(* Every step keeps the invariant, and the review token when nothing was learnt. *)
LEMMA MaintenanceInvNext ==
  ASSUME MaintenanceInv, [MaintenanceNext]_maintenanceVars
  PROVE  MaintenanceInv' /\ [TokenIsStable]_maintenanceVars
<1>1. CASE MaintenanceNext
  BY <1>1, CheckKeepsMaintenanceInv, JobKeepsMaintenanceInv, StoreKeepsMaintenanceInv, Zenon DEF MaintenanceNext
<1>2. CASE UNCHANGED maintenanceVars
  <2>1. dest' = dest /\ disk' = disk /\ found' = found /\ view' = view /\ job' = job /\ bound' = bound
    BY <1>2 DEF maintenanceVars
  <2> QED
    BY <2>1, <1>2, Zenon DEF MaintenanceInv, MaintenanceTypeOK, FindingSets, Reviewed, DeletionIsReviewed
<1> QED
  BY <1>1, <1>2

(* Destructive maintenance of a repository is held exactly while a finding is unresolved, it goes
   ahead only past findings that its operator has seen, and a check that learns nothing leaves a
   review valid: for every sequence of checks, prunes, failed writes and restarts. *)
THEOREM MaintenanceReviewed == MaintenanceSpec => MaintenanceIsReviewed
<1>1. MaintenanceInv => BlockedIsUnresolved /\ DeletionIsReviewed
  BY BlockedByFindings, Zenon DEF MaintenanceInv, MaintenanceTypeOK, BlockedIsUnresolved
<1> QED
  BY <1>1, MaintenanceInvInit, MaintenanceInvNext, PTL DEF MaintenanceSpec, MaintenanceIsReviewed
=============================================================================
