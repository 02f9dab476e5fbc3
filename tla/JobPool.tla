------------------------------- MODULE JobPool -------------------------------
(***************************************************************************)
(* What the job queue promises to the code that enqueues work, with no     *)
(* worker, lock, batch or process in sight: an accepted job is started     *)
(* again and again until one run of it succeeds or it has been given the   *)
(* agreed number of tries, and a settled job is never touched again.       *)
(* JobQueue.tla implements this specification.                             *)
(***************************************************************************)
EXTENDS Naturals

CONSTANTS
    Jobs,         \* identities a job may be given
    MaxAttempts   \* tries a job is given before it is buried

VARIABLES
    pool,         \* where each job is in its life
    tries,        \* how often each job was started
    known         \* whether the job's type has a handler

poolVars == <<pool, tries, known>>

PoolInit ==
    /\ pool = [j \in Jobs |-> "NONE"]
    /\ tries = [j \in Jobs |-> 0]
    /\ known \in [Jobs -> BOOLEAN]

\* The job moves from one stage to another; nothing else in the pool moves.
Move(j, from, to) ==
    /\ pool[j] = from
    /\ pool' = [pool EXCEPT ![j] = to]

Submit(j) ==
    /\ Move(j, "NONE", "PENDING")
    /\ UNCHANGED <<tries, known>>

Start(j) ==
    /\ Move(j, "PENDING", "RUNNING")
    /\ tries' = [tries EXCEPT ![j] = @ + 1]
    /\ UNCHANGED known

Succeed(j) ==
    /\ Move(j, "RUNNING", "DONE")
    /\ known[j]
    /\ UNCHANGED <<tries, known>>

\* A job is buried only when its tries are used up, or when nobody can run it.
Bury(j) ==
    /\ Move(j, "RUNNING", "DEAD")
    /\ tries[j] >= MaxAttempts \/ ~known[j]
    /\ UNCHANGED <<tries, known>>

\* Runs that failed, or that nobody is left to finish, go back to waiting.
Retry(S) ==
    /\ \A j \in S : pool[j] = "RUNNING"
    /\ pool' = [j \in Jobs |-> IF j \in S THEN "PENDING" ELSE pool[j]]
    /\ UNCHANGED <<tries, known>>

\* Only work that has not started can be withdrawn.
Withdraw(S) ==
    /\ \A j \in S : pool[j] = "PENDING"
    /\ pool' = [j \in Jobs |-> IF j \in S THEN "DELETED" ELSE pool[j]]
    /\ UNCHANGED <<tries, known>>

PoolNext ==
    \/ \E j \in Jobs : Submit(j) \/ Start(j) \/ Succeed(j) \/ Bury(j)
    \/ \E S \in SUBSET Jobs : Retry(S) \/ Withdraw(S)

PoolSpec == PoolInit /\ [][PoolNext]_poolVars
=============================================================================
