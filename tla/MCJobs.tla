------------------------------- MODULE MCJobs -------------------------------
(***************************************************************************)
(* The requests the callers of the job service make, for model checking    *)
(* of the jobs together with the self-update.                              *)
(***************************************************************************)
EXTENDS SelfUpdate, TLC

Unscoped(resources) == [stackID |-> NoID, resources |-> resources]

(* Stack actions; maintenance of a set of stacks; prune and service         *)
(* recovery; daemon and registry configuration; image checks; backup runs   *)
(* and repository jobs.                                                     *)
MCRequests ==
    {[stackID |-> s, resources |-> {}] : s \in Stacks}
        \cup {Unscoped({GlobalResource}), Unscoped({DockerDaemonResource}),
              Unscoped({DockerRegistryResource}), Unscoped({ImageUpdatesResource}),
              Unscoped({StackResource(s) : s \in Stacks})}
        \cup {Unscoped({BackupRepositoryResource(k)}) : k \in Repositories}
        \cup {Unscoped({GlobalResource} \cup {BackupRepositoryResource(k) : k \in Repositories})}

(* A backup run drops the host, then one repository after another; a        *)
(* restore test takes the host besides its repository.                      *)
MCReplacements ==
    LET repositories == {BackupRepositoryResource(k) : k \in Repositories}
    IN  {repositories} \cup {{r} : r \in repositories}
            \cup {{GlobalResource, r} : r \in repositories}

(* One request of each sort the liveness argument tells apart. *)
MCFewRequests ==
    {[stackID |-> s, resources |-> {}] : s \in Stacks} \cup {Unscoped({GlobalResource})}

JobSymmetry == Permutations(Jobs)
=============================================================================
