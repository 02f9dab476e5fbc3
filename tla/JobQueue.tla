------------------------------ MODULE JobQueue ------------------------------
(***************************************************************************)
(* The background job queue: the `jobs` table, the functions that put rows *)
(* in it and take them out (jobs/queue.ts) and the worker processes that   *)
(* run them (jobs/worker.ts).  Every database statement of a worker is an  *)
(* action of its own, so the workers interleave between them.              *)
(*                                                                         *)
(* Time is abstracted to two bits of a row, due and stale.  lockedBy is    *)
(* left out: no code reads it.                                             *)
(***************************************************************************)
EXTENDS Naturals, FiniteSets

CONSTANTS
    Workers,       \* processes that run the worker loop
    Jobs,          \* ids the table may hand out
    Keys,          \* unique keys callers use
    NoKey,         \* a row enqueued without one
    NoJob,         \* a worker with no job in hand
    MaxAttempts,   \* Job.maxAttempts
    BatchSize,     \* env.JOB_BATCH_SIZE
    MaxDowns,      \* bound: how many times a process may go down
    LongHandlers   \* may a handler run for more than fifteen minutes?

ASSUME MaxAttemptsAssumption == MaxAttempts \in Nat \ {0}
ASSUME BatchSizeAssumption == BatchSize \in Nat \ {0}
ASSUME MaxDownsAssumption == MaxDowns \in Nat
ASSUME LongHandlersAssumption == LongHandlers \in BOOLEAN
ASSUME NullAssumption == NoKey \notin Keys /\ NoJob \notin Jobs

VARIABLES
    status,     \* the jobs table, column by column: Job.status ("NONE" is a
                \* row still to be created)
    key,        \* Job.uniqueKey
    attempts,   \* Job.attempts
    due,        \* Job.runAt has passed
    stale,      \* Job.lockedAt is more than fifteen minutes old
    known,      \* known[j]: getHandler(job.type) finds a handler
    mode,       \* mode[w]: is the process down, up, or stopping
    batch,      \* batch[w]: the ids of `due` the loop has not come to
    cur,        \* cur[w]: the job between claim and its final update
    pc,         \* pc[w]: which statement of runOnce is next
    seen,       \* seen[w]: job.attempts as findUnique returned it
    downs,      \* bound: processes gone down so far
    orphaned    \* history: workers that died holding the job

queueVars  == <<status, key, attempts, due, stale, known>>
workerVars == <<mode, batch, cur, pc, seen>>
history    == <<downs, orphaned>>
vars == <<queueVars, workerVars, history>>

JobStatus == {"NONE", "PENDING", "RUNNING", "DONE", "DEAD", "DELETED"}
WorkerPC  == {"idle", "claimed", "unknown", "handling", "succeeded", "failed"}

\* The row is in the table: neither still to be created nor deleted.
InTable(j) == status[j] \notin {"NONE", "DELETED"}

Busy(w) == cur[w] # NoJob

Init ==
    /\ status = [j \in Jobs |-> "NONE"]
    /\ key = [j \in Jobs |-> NoKey]
    /\ attempts = [j \in Jobs |-> 0]
    /\ due = [j \in Jobs |-> FALSE]
    /\ stale = [j \in Jobs |-> FALSE]
    /\ known \in [Jobs -> BOOLEAN]
    /\ mode = [w \in Workers |-> "down"]
    /\ batch = [w \in Workers |-> {}]
    /\ cur = [w \in Workers |-> NoJob]
    /\ pc = [w \in Workers |-> "idle"]
    /\ seen = [w \in Workers |-> 0]
    /\ downs = 0
    /\ orphaned = [j \in Jobs |-> 0]
-----------------------------------------------------------------------------
(* The callers: enqueue and cancelJobs *)

\* A row with the same key makes the insert fail with P2002, which is swallowed
\* whatever the status of that row.
KeyTaken(k) == k # NoKey /\ \E j \in Jobs : InTable(j) /\ key[j] = k

Enqueue(k) ==
    /\ \/ KeyTaken(k) /\ UNCHANGED <<status, key, due>>
       \/ /\ ~KeyTaken(k)
          /\ \E j \in Jobs, now \in BOOLEAN :
                /\ status[j] = "NONE"
                /\ status' = [status EXCEPT ![j] = "PENDING"]
                /\ key' = [key EXCEPT ![j] = k]
                /\ due' = [due EXCEPT ![j] = now]
    /\ UNCHANGED <<attempts, stale, known, workerVars, downs, orphaned>>

\* deleteMany on a key prefix; K is the set of keys the prefix covers.
CancelJobs(K) ==
    /\ status' = [j \in Jobs |-> IF status[j] = "PENDING" /\ key[j] \in K
                                  THEN "DELETED" ELSE status[j]]
    /\ UNCHANGED <<key, attempts, due, stale, known, workerVars, downs, orphaned>>
-----------------------------------------------------------------------------
(* Time *)

BecomeDue(j) ==
    /\ status[j] = "PENDING" /\ ~due[j]
    /\ due' = [due EXCEPT ![j] = TRUE]
    /\ UNCHANGED <<status, key, attempts, stale, known, workerVars, history>>

\* Fifteen minutes after the claim.  Unless handlers may run that long, only a
\* row whose worker is gone lives to see it.
GoStale(j) ==
    /\ status[j] = "RUNNING" /\ ~stale[j]
    /\ LongHandlers \/ \A w \in Workers : cur[w] # j
    /\ stale' = [stale EXCEPT ![j] = TRUE]
    /\ UNCHANGED <<status, key, attempts, due, known, workerVars, history>>
-----------------------------------------------------------------------------
(* A process starting and going down *)

\* reclaimStuckJobs, then startWorker.
StartProcess(w) ==
    /\ mode[w] = "down"
    /\ mode' = [mode EXCEPT ![w] = "up"]
    /\ status' = [j \in Jobs |-> IF status[j] = "RUNNING" /\ stale[j]
                                  THEN "PENDING" ELSE status[j]]
    /\ stale' = [j \in Jobs |-> stale[j] /\ status[j] # "RUNNING"]
    /\ UNCHANGED <<key, attempts, due, known, batch, cur, pc, seen, history>>

\* SIGTERM: the loop stops before its next claim.
Stop(w) ==
    /\ mode[w] = "up" /\ downs < MaxDowns
    /\ mode' = [mode EXCEPT ![w] = "stopping"]
    /\ downs' = downs + 1
    /\ UNCHANGED <<queueVars, batch, cur, pc, seen, orphaned>>

\* The process is gone, and with it everything it had in memory.
Vanish(w) ==
    /\ mode' = [mode EXCEPT ![w] = "down"]
    /\ batch' = [batch EXCEPT ![w] = {}]
    /\ cur' = [cur EXCEPT ![w] = NoJob]
    /\ pc' = [pc EXCEPT ![w] = "idle"]
    /\ orphaned' = [j \in Jobs |-> IF cur[w] = j THEN orphaned[j] + 1
                                                 ELSE orphaned[j]]
    /\ UNCHANGED <<queueVars, seen>>

\* stopWorker returns when nothing is in flight or after five seconds, and the
\* process exits: a job that takes longer is abandoned.
Exit(w) ==
    /\ mode[w] = "stopping"
    /\ Vanish(w)
    /\ UNCHANGED downs

Crash(w) ==
    /\ mode[w] = "up" /\ downs < MaxDowns
    /\ Vanish(w)
    /\ downs' = downs + 1
-----------------------------------------------------------------------------
(* runOnce *)

DueJobs == {j \in Jobs : status[j] = "PENDING" /\ due[j]}

\* `take: JOB_BATCH_SIZE` of the due rows; which ones, when there are more, is
\* decided by runAt and left open here.
Poll(w) ==
    /\ mode[w] = "up" /\ pc[w] = "idle" /\ batch[w] = {}
    /\ \E S \in SUBSET DueJobs :
          /\ S # {}
          /\ Cardinality(S) <= BatchSize
          /\ Cardinality(S) = BatchSize \/ S = DueJobs
          /\ batch' = [batch EXCEPT ![w] = S]
    /\ UNCHANGED <<queueVars, mode, cur, pc, seen, history>>

\* Faulty variant: the claim is an update by id, without WHERE status = PENDING.
ClaimById(w, j) ==
    /\ mode[w] = "up" /\ pc[w] = "idle" /\ j \in batch[w]
    /\ batch' = [batch EXCEPT ![w] = @ \ {j}]
    /\ status' = [status EXCEPT ![j] = "RUNNING"]
    /\ attempts' = [attempts EXCEPT ![j] = @ + 1]
    /\ stale' = [stale EXCEPT ![j] = FALSE]
    /\ cur' = [cur EXCEPT ![w] = j]
    /\ pc' = [pc EXCEPT ![w] = "claimed"]
    /\ UNCHANGED <<key, due, known, mode, seen, history>>

\* updateMany WHERE status = PENDING: the row count says who won the row.
Claim(w, j) ==
    /\ mode[w] = "up" /\ pc[w] = "idle" /\ j \in batch[w]
    /\ batch' = [batch EXCEPT ![w] = @ \ {j}]
    /\ \/ /\ status[j] = "PENDING"
          /\ status' = [status EXCEPT ![j] = "RUNNING"]
          /\ attempts' = [attempts EXCEPT ![j] = @ + 1]
          /\ stale' = [stale EXCEPT ![j] = FALSE]
          /\ cur' = [cur EXCEPT ![w] = j]
          /\ pc' = [pc EXCEPT ![w] = "claimed"]
       \/ /\ status[j] # "PENDING"
          /\ UNCHANGED <<status, attempts, stale, cur, pc>>
    /\ UNCHANGED <<key, due, known, mode, seen, history>>

\* A stopping worker leaves the rest of its batch alone.
BreakOff(w) ==
    /\ mode[w] = "stopping" /\ pc[w] = "idle" /\ batch[w] # {}
    /\ batch' = [batch EXCEPT ![w] = {}]
    /\ UNCHANGED <<queueVars, mode, cur, pc, seen, history>>

LetGo(w) ==
    /\ cur' = [cur EXCEPT ![w] = NoJob]
    /\ pc' = [pc EXCEPT ![w] = "idle"]

\* findUnique and the handler lookup.  The handler starts here.
Load(w) ==
    /\ pc[w] = "claimed"
    /\ \/ /\ InTable(cur[w])
          /\ seen' = [seen EXCEPT ![w] = attempts[cur[w]]]
          /\ pc' = [pc EXCEPT ![w] = IF known[cur[w]] THEN "handling" ELSE "unknown"]
          /\ UNCHANGED cur
       \/ /\ ~InTable(cur[w])
          /\ LetGo(w)
          /\ UNCHANGED seen
    /\ UNCHANGED <<queueVars, mode, batch, downs, orphaned>>

HandlerReturns(w) ==
    /\ pc[w] = "handling"
    /\ pc' = [pc EXCEPT ![w] = "succeeded"]
    /\ UNCHANGED <<queueVars, mode, batch, cur, seen, history>>

\* The handler throws, or the statement that would record its success does: both
\* are inside the same try.
HandlerThrows(w) ==
    /\ pc[w] \in {"handling", "succeeded"}
    /\ pc' = [pc EXCEPT ![w] = "failed"]
    /\ UNCHANGED <<queueVars, mode, batch, cur, seen, history>>

\* The final update is by id alone: it overwrites whatever status the row has.
\* A failed run goes back with runAt after the backoff.  On a row that is gone the
\* update throws, and the loop drops the rest of its batch.
Settle(w, outcome) ==
    /\ LetGo(w)
    /\ \/ /\ InTable(cur[w])
          /\ status' = [status EXCEPT ![cur[w]] = outcome]
          /\ due' = [due EXCEPT ![cur[w]] = outcome # "PENDING"]
          /\ stale' = [stale EXCEPT ![cur[w]] = FALSE]
          /\ UNCHANGED batch
       \/ /\ ~InTable(cur[w])
          /\ batch' = [batch EXCEPT ![w] = {}]
          /\ UNCHANGED <<status, due, stale>>
    /\ UNCHANGED <<key, attempts, known, mode, seen, history>>

RecordDone(w) == pc[w] = "succeeded" /\ Settle(w, "DONE")

RecordUnknown(w) == pc[w] = "unknown" /\ Settle(w, "DEAD")

\* Faulty variant: off by one.
ExhaustedTooEarly(w) == seen[w] + 1 >= MaxAttempts

Exhausted(w) == seen[w] >= MaxAttempts

\* Faulty variant: the failure is not written back to the row.
DropFailure(w) ==
    /\ pc[w] = "failed"
    /\ LetGo(w)
    /\ UNCHANGED <<queueVars, mode, batch, seen, history>>

\* Another try after a backoff, unless the tries are used up.
RecordFailure(w) ==
    /\ pc[w] = "failed"
    /\ Settle(w, IF Exhausted(w) THEN "DEAD" ELSE "PENDING")
-----------------------------------------------------------------------------
WorkerStep(w) ==
    \/ Poll(w) \/ (\E j \in Jobs : Claim(w, j)) \/ BreakOff(w) \/ Load(w)
    \/ HandlerReturns(w) \/ HandlerThrows(w)
    \/ RecordDone(w) \/ RecordUnknown(w) \/ RecordFailure(w)

Lifecycle(w) == StartProcess(w) \/ Stop(w) \/ Exit(w) \/ Crash(w)

Next ==
    \/ \E k \in Keys \cup {NoKey} : Enqueue(k)
    \/ \E K \in SUBSET Keys : CancelJobs(K)
    \/ \E j \in Jobs : BecomeDue(j) \/ GoStale(j)
    \/ \E w \in Workers : Lifecycle(w) \/ WorkerStep(w)

Spec == Init /\ [][Next]_vars

\* A process that is up keeps looping, a supervisor restarts one that is down,
\* and the clock does not stop.
FairSpec ==
    /\ Spec
    /\ \A w \in Workers : WF_vars(WorkerStep(w)) /\ WF_vars(StartProcess(w))
                                                 /\ WF_vars(Exit(w))
    /\ \A j \in Jobs : WF_vars(BecomeDue(j)) /\ WF_vars(GoStale(j))
-----------------------------------------------------------------------------
TypeOK ==
    /\ status \in [Jobs -> JobStatus]
    /\ key \in [Jobs -> Keys \cup {NoKey}]
    /\ attempts \in [Jobs -> Nat]
    /\ due \in [Jobs -> BOOLEAN]
    /\ stale \in [Jobs -> BOOLEAN]
    /\ known \in [Jobs -> BOOLEAN]
    /\ mode \in [Workers -> {"down", "up", "stopping"}]
    /\ batch \in [Workers -> SUBSET Jobs]
    /\ cur \in [Workers -> Jobs \cup {NoJob}]
    /\ pc \in [Workers -> WorkerPC]
    /\ seen \in [Workers -> Nat]
    /\ downs \in Nat
    /\ orphaned \in [Jobs -> Nat]

\* No two workers ever have the same job in hand ("only one worker can win the
\* row, so several workers can share the queue without a distributed lock").
OneRunner ==
    \A w1, w2 \in Workers : w1 # w2 /\ Busy(w1) => cur[w1] # cur[w2]

\* A job is claimed at most maxAttempts times, plus once for every worker that
\* died holding it: reclaiming a row does not give the try back, and does not
\* take the job away either when its tries are used up.
AttemptsBounded ==
    \A j \in Jobs : attempts[j] <= MaxAttempts + orphaned[j]

\* A job that is done, dead or cancelled is never queued or run again, although
\* the update that ends a run does not look at the status it overwrites.
FinishedIsFinal ==
    [][\A j \in Jobs : status[j] \in {"DONE", "DEAD", "DELETED"}
                          => status'[j] = status[j]]_vars

\* The queue with its workers implements the promise of JobPool.
Pool == INSTANCE JobPool WITH
            pool <- status, tries <- attempts
PoolPromise == Pool!PoolSpec

\* While no process goes down, a job that was accepted is run to success, given
\* up after its tries, or cancelled: none is starved by the others or lost in a
\* batch, whatever is taken back from a slow handler meanwhile.
EveryJobSettles ==
    \A j \in Jobs : status[j] = "PENDING" ~> status[j] \in {"DONE", "DEAD", "DELETED"}
-----------------------------------------------------------------------------
(* The inductive invariant behind OneRunner, AttemptsBounded and PoolPromise. *)
(* It holds as long as no handler outlives its lock (~LongHandlers).         *)

\* A worker is between jobs exactly when it has none in hand.
HandMatchesPC == \A w \in Workers : pc[w] = "idle" <=> cur[w] = NoJob

\* The row of a job in hand is RUNNING, so the unconditional update that ends
\* the run overwrites nothing else.
HeldIsRunning == \A w \in Workers : Busy(w) => status[cur[w]] = "RUNNING"

\* What findUnique returned is still what the row says.
SeenIsCurrent ==
    \A w \in Workers : pc[w] \notin {"idle", "claimed"} =>
        /\ seen[w] = attempts[cur[w]]
        /\ (pc[w] = "unknown") <=> ~known[cur[w]]

\* A lock grows old only when nobody holds it any more.
StaleIsAbandoned ==
    \A j \in Jobs : stale[j] =>
        status[j] = "RUNNING" /\ \A w \in Workers : cur[w] # j

\* A row that may still be claimed has a try left, or was abandoned before.
TriesLeft ==
    \A j \in Jobs :
        \/ status[j] \in {"NONE", "PENDING"}
        \/ status[j] = "RUNNING" /\ \A w \in Workers : cur[w] # j
        => attempts[j] < MaxAttempts + orphaned[j]

IInv ==
    /\ TypeOK /\ HandMatchesPC /\ HeldIsRunning /\ OneRunner
    /\ SeenIsCurrent /\ StaleIsAbandoned /\ TriesLeft /\ AttemptsBounded
=============================================================================
