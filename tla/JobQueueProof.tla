---------------------------- MODULE JobQueueProof ----------------------------
(***************************************************************************)
(* Proofs about JobQueue for any workers, jobs, keys and bounds.           *)
(*                                                                         *)
(* IInv is shown inductive, one lemma per action, under the hypothesis     *)
(* ~LongHandlers: no handler outlives the fifteen minutes after which its  *)
(* row is taken from it.  OneRunner and AttemptsBounded are conjuncts of   *)
(* IInv; FinishedIsFinal and the refinement of JobPool follow from it,     *)
(* because it says that the row of a job in hand is RUNNING.               *)
(***************************************************************************)
EXTENDS JobQueue, TLAPS

\* The initial states satisfy the inductive invariant.
LEMMA InitIInv == Init => IInv
<1> SUFFICES ASSUME Init PROVE IInv
  OBVIOUS
<1> USE NullAssumption DEF Init
<1>1. TypeOK
  BY DEF TypeOK, JobStatus, WorkerPC
<1>2. HandMatchesPC /\ HeldIsRunning /\ OneRunner /\ SeenIsCurrent
  BY DEF HandMatchesPC, HeldIsRunning, OneRunner, SeenIsCurrent, Busy
<1>3. StaleIsAbandoned /\ TriesLeft /\ AttemptsBounded
  BY MaxAttemptsAssumption DEF StaleIsAbandoned, TriesLeft, AttemptsBounded
<1> QED
  BY <1>1, <1>2, <1>3 DEF IInv
-----------------------------------------------------------------------------
(* Every action preserves the inductive invariant *)

\* A new row has all its tries left, and a swallowed clash changes no row.
LEMMA EnqueueKeeps ==
  ASSUME IInv, NEW k \in Keys \cup {NoKey}, Enqueue(k)
  PROVE  IInv'
<1> USE NullAssumption DEF IInv, TypeOK, JobStatus, WorkerPC, InTable, Busy,
                           queueVars, workerVars, history, Enqueue
<1>1. TypeOK'
  OBVIOUS
<1>2. HandMatchesPC' /\ HeldIsRunning' /\ OneRunner'
  BY DEF HandMatchesPC, HeldIsRunning, OneRunner
<1>3. SeenIsCurrent'
  BY DEF HandMatchesPC, HeldIsRunning, OneRunner, SeenIsCurrent
<1>4. StaleIsAbandoned'
  BY DEF HandMatchesPC, HeldIsRunning, OneRunner, StaleIsAbandoned
<1>5. TriesLeft' /\ AttemptsBounded'
  BY MaxAttemptsAssumption DEF HandMatchesPC, HeldIsRunning, OneRunner, SeenIsCurrent,
         StaleIsAbandoned, TriesLeft, AttemptsBounded
<1> QED
  BY <1>1, <1>2, <1>3, <1>4, <1>5

\* Only PENDING rows are deleted, and none of those is in a hand.
LEMMA CancelJobsKeeps ==
  ASSUME IInv, NEW K \in SUBSET Keys, CancelJobs(K)
  PROVE  IInv'
<1> USE NullAssumption DEF IInv, TypeOK, JobStatus, WorkerPC, InTable, Busy,
                           queueVars, workerVars, history, CancelJobs
<1>1. TypeOK'
  OBVIOUS
<1>2. HandMatchesPC' /\ HeldIsRunning' /\ OneRunner'
  BY DEF HandMatchesPC, HeldIsRunning, OneRunner
<1>3. SeenIsCurrent'
  BY DEF HandMatchesPC, HeldIsRunning, OneRunner, SeenIsCurrent
<1>4. StaleIsAbandoned'
  BY DEF HandMatchesPC, HeldIsRunning, OneRunner, StaleIsAbandoned
<1>5. TriesLeft' /\ AttemptsBounded'
  BY DEF HandMatchesPC, HeldIsRunning, OneRunner, SeenIsCurrent,
         StaleIsAbandoned, TriesLeft, AttemptsBounded
<1> QED
  BY <1>1, <1>2, <1>3, <1>4, <1>5

\* The passing of runAt touches no status.
LEMMA BecomeDueKeeps ==
  ASSUME IInv, NEW j \in Jobs, BecomeDue(j)
  PROVE  IInv'
<1> USE NullAssumption DEF IInv, TypeOK, JobStatus, WorkerPC, InTable, Busy,
                           queueVars, workerVars, history, BecomeDue
<1>1. TypeOK'
  OBVIOUS
<1>2. HandMatchesPC' /\ HeldIsRunning' /\ OneRunner'
  BY DEF HandMatchesPC, HeldIsRunning, OneRunner
<1>3. SeenIsCurrent'
  BY DEF HandMatchesPC, HeldIsRunning, OneRunner, SeenIsCurrent
<1>4. StaleIsAbandoned'
  BY DEF HandMatchesPC, HeldIsRunning, OneRunner, StaleIsAbandoned
<1>5. TriesLeft' /\ AttemptsBounded'
  BY DEF HandMatchesPC, HeldIsRunning, OneRunner, SeenIsCurrent,
         StaleIsAbandoned, TriesLeft, AttemptsBounded
<1> QED
  BY <1>1, <1>2, <1>3, <1>4, <1>5

\* Without long handlers a lock goes stale only when nobody holds it.
LEMMA GoStaleKeeps ==
  ASSUME IInv, ~LongHandlers, NEW j \in Jobs, GoStale(j)
  PROVE  IInv'
<1> USE NullAssumption DEF IInv, TypeOK, JobStatus, WorkerPC, InTable, Busy,
                           queueVars, workerVars, history, GoStale
<1>1. TypeOK'
  OBVIOUS
<1>2. HandMatchesPC' /\ HeldIsRunning' /\ OneRunner'
  BY DEF HandMatchesPC, HeldIsRunning, OneRunner
<1>3. SeenIsCurrent'
  BY DEF HandMatchesPC, HeldIsRunning, OneRunner, SeenIsCurrent
<1>4. StaleIsAbandoned'
  BY DEF HandMatchesPC, HeldIsRunning, OneRunner, StaleIsAbandoned
<1>5. TriesLeft' /\ AttemptsBounded'
  BY DEF HandMatchesPC, HeldIsRunning, OneRunner, SeenIsCurrent,
         StaleIsAbandoned, TriesLeft, AttemptsBounded
<1> QED
  BY <1>1, <1>2, <1>3, <1>4, <1>5

\* Reclaiming takes only rows nobody holds.
LEMMA StartProcessKeeps ==
  ASSUME IInv, NEW w \in Workers, StartProcess(w)
  PROVE  IInv'
<1> USE NullAssumption DEF IInv, TypeOK, JobStatus, WorkerPC, InTable, Busy,
                           queueVars, workerVars, history, StartProcess
<1>1. TypeOK'
  OBVIOUS
<1>2. HandMatchesPC' /\ HeldIsRunning' /\ OneRunner'
  BY DEF HandMatchesPC, HeldIsRunning, OneRunner, StaleIsAbandoned
<1>3. SeenIsCurrent'
  BY DEF HandMatchesPC, HeldIsRunning, OneRunner, SeenIsCurrent
<1>4. StaleIsAbandoned'
  BY DEF HandMatchesPC, HeldIsRunning, OneRunner, StaleIsAbandoned
<1>5. TriesLeft' /\ AttemptsBounded'
  BY DEF HandMatchesPC, HeldIsRunning, OneRunner, SeenIsCurrent,
         StaleIsAbandoned, TriesLeft, AttemptsBounded
<1> QED
  BY <1>1, <1>2, <1>3, <1>4, <1>5

\* A stopping process keeps its job.
LEMMA StopKeeps ==
  ASSUME IInv, NEW w \in Workers, Stop(w)
  PROVE  IInv'
<1> USE NullAssumption DEF IInv, TypeOK, JobStatus, WorkerPC, InTable, Busy,
                           queueVars, workerVars, history, Stop
<1>1. TypeOK'
  OBVIOUS
<1>2. HandMatchesPC' /\ HeldIsRunning' /\ OneRunner'
  BY DEF HandMatchesPC, HeldIsRunning, OneRunner
<1>3. SeenIsCurrent'
  BY DEF HandMatchesPC, HeldIsRunning, OneRunner, SeenIsCurrent
<1>4. StaleIsAbandoned'
  BY DEF HandMatchesPC, HeldIsRunning, OneRunner, StaleIsAbandoned
<1>5. TriesLeft' /\ AttemptsBounded'
  BY DEF HandMatchesPC, HeldIsRunning, OneRunner, SeenIsCurrent,
         StaleIsAbandoned, TriesLeft, AttemptsBounded
<1> QED
  BY <1>1, <1>2, <1>3, <1>4, <1>5

\* A job let go by a process that exits is counted as orphaned.
LEMMA ExitKeeps ==
  ASSUME IInv, NEW w \in Workers, Exit(w)
  PROVE  IInv'
<1> USE NullAssumption DEF IInv, TypeOK, JobStatus, WorkerPC, InTable, Busy,
                           queueVars, workerVars, history, Exit, Vanish
<1>1. TypeOK'
  OBVIOUS
<1>2. HandMatchesPC' /\ HeldIsRunning' /\ OneRunner'
  BY DEF HandMatchesPC, HeldIsRunning, OneRunner
<1>3. SeenIsCurrent'
  BY DEF HandMatchesPC, HeldIsRunning, OneRunner, SeenIsCurrent
<1>4. StaleIsAbandoned'
  BY DEF HandMatchesPC, HeldIsRunning, OneRunner, StaleIsAbandoned
<1>5. TriesLeft' /\ AttemptsBounded'
  BY MaxAttemptsAssumption DEF HandMatchesPC, HeldIsRunning, OneRunner, SeenIsCurrent,
         StaleIsAbandoned, TriesLeft, AttemptsBounded
<1> QED
  BY <1>1, <1>2, <1>3, <1>4, <1>5

\* A job let go by a process that dies is counted as orphaned.
LEMMA CrashKeeps ==
  ASSUME IInv, NEW w \in Workers, Crash(w)
  PROVE  IInv'
<1> USE NullAssumption DEF IInv, TypeOK, JobStatus, WorkerPC, InTable, Busy,
                           queueVars, workerVars, history, Crash, Vanish
<1>1. TypeOK'
  OBVIOUS
<1>2. HandMatchesPC' /\ HeldIsRunning' /\ OneRunner'
  BY DEF HandMatchesPC, HeldIsRunning, OneRunner
<1>3. SeenIsCurrent'
  BY DEF HandMatchesPC, HeldIsRunning, OneRunner, SeenIsCurrent
<1>4. StaleIsAbandoned'
  BY DEF HandMatchesPC, HeldIsRunning, OneRunner, StaleIsAbandoned
<1>5. TriesLeft' /\ AttemptsBounded'
  BY MaxAttemptsAssumption DEF HandMatchesPC, HeldIsRunning, OneRunner, SeenIsCurrent,
         StaleIsAbandoned, TriesLeft, AttemptsBounded
<1> QED
  BY <1>1, <1>2, <1>3, <1>4, <1>5

\* The due list is a snapshot and changes no row.
LEMMA PollKeeps ==
  ASSUME IInv, NEW w \in Workers, Poll(w)
  PROVE  IInv'
<1> USE NullAssumption DEF IInv, TypeOK, JobStatus, WorkerPC, InTable, Busy,
                           queueVars, workerVars, history, Poll, DueJobs
<1>1. TypeOK'
  OBVIOUS
<1>2. HandMatchesPC' /\ HeldIsRunning' /\ OneRunner'
  BY DEF HandMatchesPC, HeldIsRunning, OneRunner
<1>3. SeenIsCurrent'
  BY DEF HandMatchesPC, HeldIsRunning, OneRunner, SeenIsCurrent
<1>4. StaleIsAbandoned'
  BY DEF HandMatchesPC, HeldIsRunning, OneRunner, StaleIsAbandoned
<1>5. TriesLeft' /\ AttemptsBounded'
  BY DEF HandMatchesPC, HeldIsRunning, OneRunner, SeenIsCurrent,
         StaleIsAbandoned, TriesLeft, AttemptsBounded
<1> QED
  BY <1>1, <1>2, <1>3, <1>4, <1>5

\* The conditional update hands a PENDING row to one worker.
LEMMA ClaimKeeps ==
  ASSUME IInv, NEW w \in Workers, NEW j \in Jobs, Claim(w, j)
  PROVE  IInv'
<1> USE NullAssumption DEF IInv, TypeOK, JobStatus, WorkerPC, InTable, Busy,
                           queueVars, workerVars, history, Claim
<1>1. TypeOK'
  <2>1. batch' \in [Workers -> SUBSET Jobs]
    BY DEF TypeOK, Claim
  <2>2. status' \in [Jobs -> JobStatus]
    BY DEF TypeOK, Claim, JobStatus
  <2>3. attempts' \in [Jobs -> Nat]
    BY DEF TypeOK, Claim
  <2>4. stale' \in [Jobs -> BOOLEAN]
    BY DEF TypeOK, Claim
  <2>5. cur' \in [Workers -> Jobs \cup {NoJob}] /\ pc' \in [Workers -> WorkerPC]
    BY DEF TypeOK, Claim, WorkerPC
  <2> QED
    BY <2>1, <2>2, <2>3, <2>4, <2>5
<1>2. HandMatchesPC' /\ HeldIsRunning' /\ OneRunner'
  <2>1. CASE status[j] = "PENDING"
    <3>1. /\ pc[w] = "idle" /\ pc'[w] = "claimed" /\ cur'[w] = j /\ j # NoJob
          /\ status'[j] = "RUNNING"
      BY <2>1
    <3>2. /\ \A i \in Jobs \ {j} : status'[i] = status[i]
          /\ \A v \in Workers \ {w} : pc'[v] = pc[v] /\ cur'[v] = cur[v]
      BY <2>1
    <3>3. HandMatchesPC'
      BY <3>1, <3>2 DEF HandMatchesPC
    <3>4. HeldIsRunning'
      BY <3>1, <3>2 DEF HandMatchesPC, HeldIsRunning
    <3>5. OneRunner'
      BY <2>1, <3>1, <3>2 DEF HandMatchesPC, HeldIsRunning, OneRunner
    <3> QED
      BY <3>3, <3>4, <3>5
  <2>2. CASE status[j] # "PENDING"
    <3>1. HandMatchesPC'
      BY <2>2 DEF HandMatchesPC
    <3>2. HeldIsRunning'
      BY <2>2 DEF HandMatchesPC, HeldIsRunning
    <3>3. OneRunner'
      BY <2>2 DEF HandMatchesPC, OneRunner
    <3> QED
      BY <3>1, <3>2, <3>3
  <2> QED
    BY <2>1, <2>2
<1>3. SeenIsCurrent'
  BY DEF HandMatchesPC, HeldIsRunning, OneRunner, SeenIsCurrent
<1>4. StaleIsAbandoned'
  BY DEF HandMatchesPC, HeldIsRunning, OneRunner, StaleIsAbandoned
<1>5. TriesLeft' /\ AttemptsBounded'
  BY MaxAttemptsAssumption DEF HandMatchesPC, HeldIsRunning, OneRunner, SeenIsCurrent,
         StaleIsAbandoned, TriesLeft, AttemptsBounded
<1> QED
  BY <1>1, <1>2, <1>3, <1>4, <1>5

\* Dropping the due list changes no row.
LEMMA BreakOffKeeps ==
  ASSUME IInv, NEW w \in Workers, BreakOff(w)
  PROVE  IInv'
<1> USE NullAssumption DEF IInv, TypeOK, JobStatus, WorkerPC, InTable, Busy,
                           queueVars, workerVars, history, BreakOff
<1>1. TypeOK'
  OBVIOUS
<1>2. HandMatchesPC' /\ HeldIsRunning' /\ OneRunner'
  BY DEF HandMatchesPC, HeldIsRunning, OneRunner
<1>3. SeenIsCurrent'
  BY DEF HandMatchesPC, HeldIsRunning, OneRunner, SeenIsCurrent
<1>4. StaleIsAbandoned'
  BY DEF HandMatchesPC, HeldIsRunning, OneRunner, StaleIsAbandoned
<1>5. TriesLeft' /\ AttemptsBounded'
  BY DEF HandMatchesPC, HeldIsRunning, OneRunner, SeenIsCurrent,
         StaleIsAbandoned, TriesLeft, AttemptsBounded
<1> QED
  BY <1>1, <1>2, <1>3, <1>4, <1>5

\* The row read is the row claimed.
LEMMA LoadKeeps ==
  ASSUME IInv, NEW w \in Workers, Load(w)
  PROVE  IInv'
<1> USE NullAssumption DEF IInv, TypeOK, JobStatus, WorkerPC, InTable, Busy,
                           queueVars, workerVars, history, Load, LetGo
<1>1. TypeOK'
  <2>1. cur[w] \in Jobs
    BY DEF HandMatchesPC
  <2>2. seen' \in [Workers -> Nat] /\ pc' \in [Workers -> WorkerPC]
    BY <2>1
  <2>3. cur' \in [Workers -> Jobs \cup {NoJob}]
    BY <2>1
  <2> QED
    BY <2>2, <2>3
<1>2. HandMatchesPC' /\ HeldIsRunning' /\ OneRunner'
  BY DEF HandMatchesPC, HeldIsRunning, OneRunner
<1>3. SeenIsCurrent'
  BY DEF HandMatchesPC, HeldIsRunning, OneRunner, SeenIsCurrent
<1>4. StaleIsAbandoned'
  BY DEF HandMatchesPC, HeldIsRunning, OneRunner, StaleIsAbandoned
<1>5. TriesLeft' /\ AttemptsBounded'
  BY MaxAttemptsAssumption DEF HandMatchesPC, HeldIsRunning, OneRunner, SeenIsCurrent,
         StaleIsAbandoned, TriesLeft, AttemptsBounded
<1> QED
  BY <1>1, <1>2, <1>3, <1>4, <1>5

\* A handler that returns changes no row of the queue.
LEMMA HandlerReturnsKeeps ==
  ASSUME IInv, NEW w \in Workers, HandlerReturns(w)
  PROVE  IInv'
<1> USE NullAssumption DEF IInv, TypeOK, JobStatus, WorkerPC, InTable, Busy,
                           queueVars, workerVars, history, HandlerReturns
<1>1. TypeOK'
  OBVIOUS
<1>2. HandMatchesPC' /\ HeldIsRunning' /\ OneRunner'
  BY DEF HandMatchesPC, HeldIsRunning, OneRunner
<1>3. SeenIsCurrent'
  BY DEF HandMatchesPC, HeldIsRunning, OneRunner, SeenIsCurrent
<1>4. StaleIsAbandoned'
  BY DEF HandMatchesPC, HeldIsRunning, OneRunner, StaleIsAbandoned
<1>5. TriesLeft' /\ AttemptsBounded'
  BY DEF HandMatchesPC, HeldIsRunning, OneRunner, SeenIsCurrent,
         StaleIsAbandoned, TriesLeft, AttemptsBounded
<1> QED
  BY <1>1, <1>2, <1>3, <1>4, <1>5

\* A handler that throws changes no row of the queue.
LEMMA HandlerThrowsKeeps ==
  ASSUME IInv, NEW w \in Workers, HandlerThrows(w)
  PROVE  IInv'
<1> USE NullAssumption DEF IInv, TypeOK, JobStatus, WorkerPC, InTable, Busy,
                           queueVars, workerVars, history, HandlerThrows
<1>1. TypeOK'
  OBVIOUS
<1>2. HandMatchesPC' /\ HeldIsRunning' /\ OneRunner'
  BY DEF HandMatchesPC, HeldIsRunning, OneRunner
<1>3. SeenIsCurrent'
  BY DEF HandMatchesPC, HeldIsRunning, OneRunner, SeenIsCurrent
<1>4. StaleIsAbandoned'
  BY DEF HandMatchesPC, HeldIsRunning, OneRunner, StaleIsAbandoned
<1>5. TriesLeft' /\ AttemptsBounded'
  BY DEF HandMatchesPC, HeldIsRunning, OneRunner, SeenIsCurrent,
         StaleIsAbandoned, TriesLeft, AttemptsBounded
<1> QED
  BY <1>1, <1>2, <1>3, <1>4, <1>5

\* The final update settles the row in hand.
LEMMA RecordDoneKeeps ==
  ASSUME IInv, NEW w \in Workers, RecordDone(w)
  PROVE  IInv'
<1> USE NullAssumption DEF IInv, TypeOK, JobStatus, WorkerPC, InTable, Busy,
                           queueVars, workerVars, history, RecordDone, Settle, LetGo
<1>1. TypeOK'
  <2>1. cur[w] \in Jobs
    BY DEF HandMatchesPC
  <2>2. status' \in [Jobs -> JobStatus]
    BY <2>1
  <2>3. due' \in [Jobs -> BOOLEAN]
    BY <2>1 DEF TypeOK, RecordDone, Settle, LetGo
  <2>4. stale' \in [Jobs -> BOOLEAN]
    BY <2>1 DEF TypeOK, RecordDone, Settle, LetGo
  <2>5. batch' \in [Workers -> SUBSET Jobs] /\ pc' \in [Workers -> WorkerPC]
    BY <2>1
  <2>6. cur' \in [Workers -> Jobs \cup {NoJob}]
    BY <2>1
  <2> QED
    BY <2>2, <2>3, <2>4, <2>5, <2>6
<1>2. HandMatchesPC' /\ HeldIsRunning' /\ OneRunner'
  BY DEF HandMatchesPC, HeldIsRunning, OneRunner
<1>3. SeenIsCurrent'
  BY DEF HandMatchesPC, HeldIsRunning, OneRunner, SeenIsCurrent
<1>4. StaleIsAbandoned'
  BY DEF HandMatchesPC, HeldIsRunning, OneRunner, StaleIsAbandoned
<1>5. TriesLeft' /\ AttemptsBounded'
  BY DEF HandMatchesPC, HeldIsRunning, OneRunner, SeenIsCurrent,
         StaleIsAbandoned, TriesLeft, AttemptsBounded
<1> QED
  BY <1>1, <1>2, <1>3, <1>4, <1>5

\* The row of an unknown type is settled.
LEMMA RecordUnknownKeeps ==
  ASSUME IInv, NEW w \in Workers, RecordUnknown(w)
  PROVE  IInv'
<1> USE NullAssumption DEF IInv, TypeOK, JobStatus, WorkerPC, InTable, Busy,
                           queueVars, workerVars, history, RecordUnknown, Settle, LetGo
<1>1. TypeOK'
  <2>1. cur[w] \in Jobs
    BY DEF HandMatchesPC
  <2>2. status' \in [Jobs -> JobStatus]
    BY <2>1
  <2>3. due' \in [Jobs -> BOOLEAN]
    BY <2>1 DEF TypeOK, RecordUnknown, Settle, LetGo
  <2>4. stale' \in [Jobs -> BOOLEAN]
    BY <2>1 DEF TypeOK, RecordUnknown, Settle, LetGo
  <2>5. batch' \in [Workers -> SUBSET Jobs] /\ pc' \in [Workers -> WorkerPC]
    BY <2>1
  <2>6. cur' \in [Workers -> Jobs \cup {NoJob}]
    BY <2>1
  <2> QED
    BY <2>2, <2>3, <2>4, <2>5, <2>6
<1>2. HandMatchesPC' /\ HeldIsRunning' /\ OneRunner'
  BY DEF HandMatchesPC, HeldIsRunning, OneRunner
<1>3. SeenIsCurrent'
  BY DEF HandMatchesPC, HeldIsRunning, OneRunner, SeenIsCurrent
<1>4. StaleIsAbandoned'
  BY DEF HandMatchesPC, HeldIsRunning, OneRunner, StaleIsAbandoned
<1>5. TriesLeft' /\ AttemptsBounded'
  BY DEF HandMatchesPC, HeldIsRunning, OneRunner, SeenIsCurrent,
         StaleIsAbandoned, TriesLeft, AttemptsBounded
<1> QED
  BY <1>1, <1>2, <1>3, <1>4, <1>5

\* A failed row goes back only with a try left.
LEMMA RecordFailureKeeps ==
  ASSUME IInv, NEW w \in Workers, RecordFailure(w)
  PROVE  IInv'
<1> USE NullAssumption DEF IInv, TypeOK, JobStatus, WorkerPC, InTable, Busy,
                           queueVars, workerVars, history, RecordFailure, Settle, LetGo, Exhausted
<1>1. TypeOK'
  <2>1. cur[w] \in Jobs
    BY DEF HandMatchesPC
  <2>2. status' \in [Jobs -> JobStatus]
    BY <2>1
  <2>3. due' \in [Jobs -> BOOLEAN]
    BY <2>1 DEF TypeOK, RecordFailure, Settle, LetGo, Exhausted
  <2>4. stale' \in [Jobs -> BOOLEAN]
    BY <2>1 DEF TypeOK, RecordFailure, Settle, LetGo, Exhausted
  <2>5. batch' \in [Workers -> SUBSET Jobs] /\ pc' \in [Workers -> WorkerPC]
    BY <2>1
  <2>6. cur' \in [Workers -> Jobs \cup {NoJob}]
    BY <2>1
  <2> QED
    BY <2>2, <2>3, <2>4, <2>5, <2>6
<1>2. HandMatchesPC' /\ HeldIsRunning' /\ OneRunner'
  BY DEF HandMatchesPC, HeldIsRunning, OneRunner
<1>3. SeenIsCurrent'
  BY DEF HandMatchesPC, HeldIsRunning, OneRunner, SeenIsCurrent
<1>4. StaleIsAbandoned'
  BY DEF HandMatchesPC, HeldIsRunning, OneRunner, StaleIsAbandoned
<1>5. TriesLeft' /\ AttemptsBounded'
  BY MaxAttemptsAssumption DEF HandMatchesPC, HeldIsRunning, OneRunner, SeenIsCurrent,
         StaleIsAbandoned, TriesLeft, AttemptsBounded
<1> QED
  BY <1>1, <1>2, <1>3, <1>4, <1>5

-----------------------------------------------------------------------------
\* Without long handlers IInv is inductive.
LEMMA NextKeepsIInv ==
  ASSUME ~LongHandlers, IInv, [Next]_vars
  PROVE  IInv'
<1>1. ASSUME NEW k \in Keys \cup {NoKey}, Enqueue(k) PROVE IInv'
  BY <1>1, EnqueueKeeps
<1>2. ASSUME NEW K \in SUBSET Keys, CancelJobs(K) PROVE IInv'
  BY <1>2, CancelJobsKeeps
<1>3. ASSUME NEW j \in Jobs, BecomeDue(j) \/ GoStale(j) PROVE IInv'
  BY <1>3, BecomeDueKeeps, GoStaleKeeps
<1>4. ASSUME NEW w \in Workers, Lifecycle(w) PROVE IInv'
  BY <1>4, StartProcessKeeps, StopKeeps, ExitKeeps, CrashKeeps DEF Lifecycle
<1>5. ASSUME NEW w \in Workers, WorkerStep(w) PROVE IInv'
  BY <1>5, PollKeeps, ClaimKeeps, BreakOffKeeps, LoadKeeps, HandlerReturnsKeeps,
     HandlerThrowsKeeps, RecordDoneKeeps, RecordUnknownKeeps, RecordFailureKeeps
     DEF WorkerStep
<1>6. CASE UNCHANGED vars
  BY <1>6 DEF vars, queueVars, workerVars, history, IInv, TypeOK, HandMatchesPC,
              HeldIsRunning, OneRunner, SeenIsCurrent, StaleIsAbandoned, TriesLeft,
              AttemptsBounded, Busy
<1> QED
  BY <1>1, <1>2, <1>3, <1>4, <1>5, <1>6 DEF Next

\* The inductive invariant holds in every reachable state of every instance in
\* which no handler outlives its lock.
THEOREM QueueInvariant ==
  ASSUME ~LongHandlers
  PROVE  Spec => []IInv
<1>1. Init => IInv
  BY InitIInv
<1>2. IInv /\ [Next]_vars => IInv'
  BY NextKeepsIInv
<1> QED
  BY <1>1, <1>2, PTL DEF Spec

\* Two workers never run the same job at once: the claim by row count is a
\* lock, as the comment on claim() says, while no handler outlives it.
THEOREM OneRunnerAlways ==
  ASSUME ~LongHandlers
  PROVE  Spec => []OneRunner
<1>1. IInv => OneRunner
  BY DEF IInv
<1> QED
  BY <1>1, QueueInvariant, PTL

\* No job is claimed more often than maxAttempts, plus once for every worker
\* that died holding it.
THEOREM AttemptsBoundedAlways ==
  ASSUME ~LongHandlers
  PROVE  Spec => []AttemptsBounded
<1>1. IInv => AttemptsBounded
  BY DEF IInv
<1> QED
  BY <1>1, QueueInvariant, PTL
-----------------------------------------------------------------------------
(* The refinement of JobPool *)

\* Statuses move only along the arrows of JobPool.
LEMMA StepSimulation ==
  ASSUME IInv, [Next]_vars
  PROVE  [Pool!PoolNext]_Pool!poolVars
<1> DEFINE Same == UNCHANGED <<status, attempts, known>>
<1> USE DEF Pool!poolVars
<1>1. ASSUME NEW k \in Keys \cup {NoKey}, Enqueue(k) PROVE Same \/ Pool!PoolNext
  <2>1. CASE KeyTaken(k)
    BY <1>1, <2>1 DEF Enqueue
  <2>2. CASE ~KeyTaken(k)
    <3>1. PICK j \in Jobs : status[j] = "NONE" /\ status' = [status EXCEPT ![j] = "PENDING"]
      BY <1>1, <2>2 DEF Enqueue
    <3>2. Pool!Submit(j)
      BY <1>1, <3>1 DEF Enqueue, Pool!Submit, Pool!Move
    <3> QED
      BY <3>2 DEF Pool!PoolNext
  <2> QED
    BY <2>1, <2>2
<1>2. ASSUME NEW K \in SUBSET Keys, CancelJobs(K) PROVE Pool!PoolNext
  <2> DEFINE S == {j \in Jobs : status[j] = "PENDING" /\ key[j] \in K}
  <2>1. Pool!Withdraw(S)
    BY <1>2 DEF CancelJobs, Pool!Withdraw
  <2> QED
    BY <2>1 DEF Pool!PoolNext
<1>3. ASSUME NEW j \in Jobs, BecomeDue(j) \/ GoStale(j) PROVE Same
  BY <1>3 DEF BecomeDue, GoStale
<1>4. ASSUME NEW w \in Workers, StartProcess(w) PROVE Pool!PoolNext
  <2> DEFINE S == {j \in Jobs : status[j] = "RUNNING" /\ stale[j]}
  <2>1. Pool!Retry(S)
    BY <1>4 DEF StartProcess, Pool!Retry
  <2> QED
    BY <2>1 DEF Pool!PoolNext
<1>5. ASSUME NEW w \in Workers, Stop(w) \/ Exit(w) \/ Crash(w) PROVE Same
  BY <1>5 DEF Stop, Exit, Crash, Vanish, queueVars
<1>6. ASSUME NEW w \in Workers, NEW j \in Jobs, Claim(w, j) PROVE Same \/ Pool!PoolNext
  <2>1. CASE status[j] # "PENDING"
    BY <1>6, <2>1 DEF Claim
  <2>2. CASE status[j] = "PENDING"
    <3>1. Pool!Start(j)
      BY <1>6, <2>2 DEF Claim, Pool!Start, Pool!Move
    <3> QED
      BY <3>1 DEF Pool!PoolNext
  <2> QED
    BY <2>1, <2>2
<1>7. ASSUME NEW w \in Workers, Poll(w) \/ BreakOff(w) \/ Load(w) \/ HandlerReturns(w)
                                \/ HandlerThrows(w)
      PROVE  Same
  BY <1>7 DEF Poll, BreakOff, Load, HandlerReturns, HandlerThrows, queueVars
<1>8. ASSUME NEW w \in Workers, RecordDone(w) \/ RecordUnknown(w) \/ RecordFailure(w)
      PROVE  Pool!PoolNext
  <2> DEFINE j == cur[w]
  <2>1. /\ j \in Jobs
        /\ status[j] = "RUNNING"
        /\ seen[w] = attempts[j]
        /\ (pc[w] = "unknown") <=> ~known[j]
    BY <1>8 DEF RecordDone, RecordUnknown, RecordFailure, IInv, TypeOK, HandMatchesPC,
                HeldIsRunning, SeenIsCurrent, Busy
  <2>2. UNCHANGED <<attempts, known>>
    BY <1>8 DEF RecordDone, RecordUnknown, RecordFailure, Settle
  <2>3. CASE RecordDone(w)
    <3>1. Pool!Succeed(j)
      BY <2>1, <2>2, <2>3 DEF RecordDone, Settle, InTable, Pool!Succeed, Pool!Move
    <3> QED
      BY <2>1, <3>1 DEF Pool!PoolNext
  <2>4. CASE RecordUnknown(w)
    <3>1. Pool!Bury(j)
      BY <2>1, <2>2, <2>4 DEF RecordUnknown, Settle, InTable, Pool!Bury, Pool!Move
    <3> QED
      BY <2>1, <3>1 DEF Pool!PoolNext
  <2>5. CASE RecordFailure(w) /\ Exhausted(w)
    <3>1. Pool!Bury(j)
      BY <2>1, <2>2, <2>5 DEF RecordFailure, Exhausted, Settle, InTable, Pool!Bury, Pool!Move
    <3> QED
      BY <2>1, <3>1 DEF Pool!PoolNext
  <2>6. CASE RecordFailure(w) /\ ~Exhausted(w)
    <3>1. status' = [status EXCEPT ![j] = "PENDING"]
      BY <2>1, <2>6 DEF RecordFailure, Settle, InTable
    <3>2. status' = [i \in Jobs |-> IF i \in {j} THEN "PENDING" ELSE status[i]]
      BY <3>1 DEF IInv, TypeOK
    <3>3. Pool!Retry({j})
      BY <2>1, <2>2, <3>2 DEF Pool!Retry
    <3> QED
      BY <2>1, <3>3 DEF Pool!PoolNext
  <2> QED
    BY <1>8, <2>3, <2>4, <2>5, <2>6
<1>9. CASE UNCHANGED vars
  BY <1>9 DEF vars, queueVars
<1> QED
  BY <1>1, <1>2, <1>3, <1>4, <1>5, <1>6, <1>7, <1>8, <1>9 DEF Next, Lifecycle, WorkerStep

\* The table with its workers, batches, crashes and reclaims implements the
\* plain promise of JobPool.
THEOREM QueueImplementsPool ==
  ASSUME ~LongHandlers
  PROVE  Spec => PoolPromise
<1>1. Init => Pool!PoolInit
  BY DEF Init, Pool!PoolInit
<1>2. IInv /\ [Next]_vars => [Pool!PoolNext]_Pool!poolVars
  BY StepSimulation
<1> QED
  BY <1>1, <1>2, QueueInvariant, PTL DEF Spec, PoolPromise, Pool!PoolSpec

\* A job that is done, dead or cancelled never moves again.
THEOREM FinishedIsFinalAlways ==
  ASSUME ~LongHandlers
  PROVE  Spec => FinishedIsFinal
<1>1. ASSUME IInv, [Next]_vars
      PROVE  [\A j \in Jobs : status[j] \in {"DONE", "DEAD", "DELETED"}
                                 => status'[j] = status[j]]_vars
  <2>1. [Pool!PoolNext]_Pool!poolVars
    BY <1>1, StepSimulation
  <2>2. status \in [Jobs -> JobStatus]
    BY <1>1 DEF IInv, TypeOK
  <2> QED
    BY <2>1, <2>2 DEF Pool!PoolNext, Pool!poolVars, Pool!Submit, Pool!Start,
       Pool!Succeed, Pool!Bury, Pool!Retry, Pool!Withdraw, Pool!Move, JobStatus
<1> QED
  BY <1>1, QueueInvariant, PTL DEF Spec, FinishedIsFinal
=============================================================================
