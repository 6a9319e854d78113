------------------------------- MODULE Lease --------------------------------
(***************************************************************************)
(* What the job service promises about resources, without its maps: a job  *)
(* acquires a set of resources in one step, may swap it for another in one *)
(* step, and gives all of it back in one step.  No two jobs ever hold      *)
(* conflicting resources, and a job that acquired the barrier is alone.    *)
(***************************************************************************)
CONSTANTS Jobs, Resource, NoJob, Conflict(_, _)

VARIABLES
    held,     \* [Jobs -> SUBSET Resource], {} when the job has no lease
    barrier   \* the job that excludes every other lease, or NoJob

vars == <<held, barrier>>

Init ==
    /\ held = [j \in Jobs |-> {}]
    /\ barrier = NoJob

Compatible(j, R) ==
    \A k \in Jobs \ {j} : \A r \in R, s \in held[k] : ~Conflict(r, s)

Acquire(j, R) ==
    /\ held[j] = {}
    /\ barrier = NoJob
    /\ held' = [held EXCEPT ![j] = R]
    /\ UNCHANGED barrier
    /\ Compatible(j, R)

AcquireBarrier(j, R) ==
    /\ \A k \in Jobs : held[k] = {}
    /\ barrier = NoJob
    /\ held' = [held EXCEPT ![j] = R]
    /\ barrier' = j

Swap(j, R) ==
    /\ held[j] # {}
    /\ barrier = NoJob
    /\ held' = [held EXCEPT ![j] = R]
    /\ UNCHANGED barrier
    /\ Compatible(j, R)

Release(j) ==
    /\ held[j] # {}
    /\ held' = [held EXCEPT ![j] = {}]
    /\ barrier' = IF barrier = j THEN NoJob ELSE barrier

(* The process dies: leases live in its memory only. *)
Lose ==
    /\ held' = [j \in Jobs |-> {}]
    /\ barrier' = NoJob

Next ==
    \/ \E j \in Jobs :
          \/ Release(j)
          \/ \E R \in (SUBSET Resource) \ {{}} : Acquire(j, R) \/ AcquireBarrier(j, R) \/ Swap(j, R)
    \/ Lose

Spec == Init /\ [][Next]_vars
=============================================================================
