----------------------------- MODULE MCRecovery -----------------------------
(***************************************************************************)
(* Repositories and restores, for model checking: checks and destructive   *)
(* maintenance of a repository, the library of restores and their reviewed *)
(* application, and the replacement of a directory by a prepared restore.  *)
(* The first state picks a part and only that part moves, so the run       *)
(* explores the sum of the parts and not their product. PreparedRestore *)
(* and RepositoryMaintenance are extended and keep their own variables;    *)
(* another part keeps its variables, in the order in which its module      *)
(* declares them, in v1, v2 and so on.                                     *)
(***************************************************************************)
EXTENDS Integers, PreparedRestore, RepositoryMaintenance

VARIABLES part, v1, v2, v3, v4, v5, v6, v7, v8, v9, v10

suiteVars == <<part, vars, maintenanceVars, v1, v2, v3, v4, v5, v6, v7, v8, v9, v10>>
Rest1 == <<v1, v2, v3, v4, v5, v6, v7, v8, v9, v10>>
Idle1 == v1 = 0 /\ v2 = 0 /\ v3 = 0 /\ v4 = 0 /\ v5 = 0 /\ v6 = 0 /\ v7 = 0 /\ v8 = 0 /\ v9 = 0 /\ v10 = 0

Lib == INSTANCE RestoreLibrary WITH
  Jobs <- 1..3, Destinations <- 1..2, Custom <- {9}, Limit <- 2, MaxReviews <- 1, MaxTokens <- 1,
  MaxCrashes <- 0, MaxStoreFailures <- 1, MaxOperator <- 1, MaxFailedRemovals <- 1,
  lib <- v1, disk <- v2, dirs <- v3, job <- v4, deletes <- v5, preview <- v6, reviews <- v7,
  applied <- v8, orphans <- v9, bound <- v10
Cra == INSTANCE RestoreLibrary WITH
  Jobs <- 1..2, Destinations <- 1..2, Custom <- {9}, Limit <- 2, MaxReviews <- 1, MaxTokens <- 1,
  MaxCrashes <- 2, MaxStoreFailures <- 1, MaxOperator <- 1, MaxFailedRemovals <- 1,
  lib <- v1, disk <- v2, dirs <- v3, job <- v4, deletes <- v5, preview <- v6, reviews <- v7,
  applied <- v8, orphans <- v9, bound <- v10

(* The bounds and sets of each instance satisfy what its module expects of them. *)
ASSUME Assumptions ==
  PreparedRestoreAssumption /\ PoliciesAssumption

(* One initial state of a part that the suite extends, for as long as another part moves. *)
PreparedAtRest == Init /\ target = Nothing
MaintenanceAtRest ==
  /\ MaintenanceInit /\ found = {} /\ dest.meta.st = "unknown" /\ dest.data.st = "unknown"

SuiteInit ==
  \/ part = "maintenance" /\ MaintenanceInit /\ Idle1 /\ PreparedAtRest
  \/ part = "library" /\ Lib!Init /\ PreparedAtRest /\ MaintenanceAtRest
  \/ part = "crash" /\ Cra!Init /\ PreparedAtRest /\ MaintenanceAtRest
  \/ part = "prepared" /\ Init /\ Idle1 /\ MaintenanceAtRest
SuiteNext ==
  \/ part = "maintenance" /\ MaintenanceNext /\ UNCHANGED <<part, vars, Rest1>>
  \/ part = "library" /\ Lib!Next /\ UNCHANGED <<part, vars, maintenanceVars>>
  \/ part = "crash" /\ Cra!Next /\ UNCHANGED <<part, vars, maintenanceVars>>
  \/ part = "prepared" /\ Next /\ UNCHANGED <<part, maintenanceVars, Rest1>>
SuiteSpec == SuiteInit /\ [][SuiteNext]_suiteVars
-----------------------------------------------------------------------------
(* An apply reads what was reviewed, a review is used once, and the library neither loses a
   directory of its own nor outgrows its limit.  A deletion removes the registration that was
   asked for, never one that was made meanwhile. *)
LibraryIsSound ==
  /\ []((part = "library" => Lib!LibraryIsSound) /\ (part = "crash" => Cra!LibraryIsSound))
  /\ [][part = "library" => Lib!DeletesWhatWasAsked]_suiteVars
=============================================================================
