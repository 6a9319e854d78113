------------------------------ MODULE MCAccess ------------------------------
(***************************************************************************)
(* Job events and sessions, for model checking. The first state picks a    *)
(* part and only that part moves, so the run explores the sum of the parts *)
(* and not their product. Both modules are extended and keep their own     *)
(* variables.                                                              *)
(***************************************************************************)
EXTENDS Naturals, Sessions, JobEvents

VARIABLE part

suiteVars == <<part, vars, eventsVars>>

(* The bounds and sets of the instance satisfy what the modules expect of them. *)
ASSUME Assumptions ==
  EventsAssumption /\ SessionsAssumption

SuiteInit == part \in {"events", "sessions"} /\ Init /\ EventsInit
SuiteNext ==
  \/ part = "events" /\ EventsNext /\ UNCHANGED <<part, vars>>
  \/ part = "sessions" /\ Next /\ UNCHANGED <<part, eventsVars>>
SuiteSpec == SuiteInit /\ [][SuiteNext]_suiteVars
=============================================================================
