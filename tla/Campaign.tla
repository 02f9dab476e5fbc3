------------------------------ MODULE Campaign ------------------------------
(***************************************************************************)
(* One campaign from its creation to the end of its fan-out                *)
(* (modules/marketing/campaign.service.ts).  The API calls read the status *)
(* and write it back in statements of their own; the fan-out is a handler  *)
(* of the job queue, run again from the top when it throws or its process  *)
(* dies.                                                                   *)
(*                                                                         *)
(* The campaign.dispatch row is the one JobQueue models, reduced to what   *)
(* its unique key, retries and reclaim do to a fan-out; queueMessage() is  *)
(* Outbox reduced to its outcome: a row and a job, a refusal, or nothing.  *)
(***************************************************************************)
EXTENDS Naturals, FiniteSets

CONSTANTS
    Members,       \* customers the segment or follow-up resolves to
    Callers,       \* API requests at work on the campaign
    Runners,       \* worker processes
    MaxAttempts,   \* Job.maxAttempts
    MaxCalls,      \* bound: API calls
    MaxCrashes,    \* bound: processes that die
    SlowFanOut     \* may a fan-out run for more than fifteen minutes?

VARIABLES
    status,      \* Campaign.status
    typed,       \* history: an edit wrote the status it has
    job,         \* status of the row with key campaign:<id>; "NONE" before it
    tries,       \* Job.attempts of that row
    rows,        \* rows[m]: MessageLog rows of the campaign for the member
    queued,      \* queued[m]: how many of them have status QUEUED
    sends,       \* sends[m]: message.send jobs enqueued for the member
    attribution, \* the campaign.attribute job exists
    gone,        \* history: members that turned out to have no address any more
    api,         \* api[a]: the next step of the API call
    pc,          \* pc[r]: the next step of the fan-out the process runs
    left,        \* left[r]: members the loop has not come to
    messaged,    \* messaged[r]: the set it read before the loop
    at,          \* at[r]: the members (none or one) whose row has no job yet
    calls, crashes    \* bounds

row    == <<status, typed, job, tries>>
log    == <<rows, queued, sends, attribution, gone>>
fanOut == <<pc, left, messaged, at>>
vars   == <<row, log, api, fanOut, calls, crashes>>

\* Faulty variant: a retry finds the campaign it started itself not to be sendable.
ClaimableOnce == {"DRAFT", "SCHEDULED"}

\* Statuses from which a fan-out may take the campaign.
Claimable == {"DRAFT", "SCHEDULED", "RUNNING"}

Statuses == {"DRAFT", "SCHEDULED", "RUNNING", "PAUSED", "COMPLETED", "CANCELLED"}

\* What the code itself makes of the status.
SetStatus(to) == status' = to /\ typed' = FALSE

\* createCampaign: a campaign created with a date is SCHEDULED from the start.
Init ==
    /\ status \in {"DRAFT", "SCHEDULED"} /\ typed = FALSE
    /\ job = "NONE" /\ tries = 0
    /\ rows = [m \in Members |-> 0]
    /\ queued = [m \in Members |-> 0]
    /\ sends = [m \in Members |-> 0]
    /\ attribution = FALSE /\ gone = {}
    /\ api = [a \in Callers |-> "idle"]
    /\ pc = [r \in Runners |-> "idle"]
    /\ left = [r \in Runners |-> {}]
    /\ messaged = [r \in Runners |-> {}]
    /\ at = [r \in Runners |-> {}]
    /\ calls = 0 /\ crashes = 0
-----------------------------------------------------------------------------
(* The API *)

Call(a, step) ==
    /\ api[a] = "idle" /\ calls < MaxCalls
    /\ calls' = calls + 1
    /\ api' = [api EXCEPT ![a] = step]

\* launchCampaign: the status, then the plan, the template and the allowance.
LaunchReads(a) ==
    /\ status \notin {"RUNNING", "COMPLETED"}
    /\ Call(a, "schedule")
    /\ UNCHANGED <<row, log, fanOut, crashes>>

\* The update goes by id, whatever the status has become.
LaunchSchedules(a) ==
    /\ api[a] = "schedule"
    /\ SetStatus("SCHEDULED")
    /\ api' = [api EXCEPT ![a] = "enqueue"]
    /\ UNCHANGED <<job, tries, log, fanOut, calls, crashes>>

\* Any row with the key, finished or not, makes the insert a no-op.
LaunchEnqueues(a) ==
    /\ api[a] = "enqueue"
    /\ job' = IF job = "NONE" THEN "PENDING" ELSE job
    /\ api' = [api EXCEPT ![a] = "idle"]
    /\ UNCHANGED <<status, typed, tries, log, fanOut, calls, crashes>>

Pause(a) ==
    /\ api[a] = "idle" /\ calls < MaxCalls
    /\ calls' = calls + 1
    /\ SetStatus("PAUSED")
    /\ UNCHANGED <<job, tries, log, api, fanOut, crashes>>

\* updateCampaign with a status in the body, cancelling mostly: the route lets any of
\* them pass.
EditReads(a) ==
    /\ status \notin {"RUNNING", "COMPLETED"}
    /\ Call(a, "edit")
    /\ UNCHANGED <<row, log, fanOut, crashes>>

EditWrites(a) ==
    /\ api[a] = "edit"
    /\ status' \in Statuses /\ typed' = TRUE
    /\ api' = [api EXCEPT ![a] = "idle"]
    /\ UNCHANGED <<job, tries, log, fanOut, calls, crashes>>
-----------------------------------------------------------------------------
(* dispatchCampaign, as the job queue runs it *)

Goto(r, step) == pc' = [pc EXCEPT ![r] = step]

Fanning(r) == pc[r] # "idle"

StartRun(r) ==
    /\ job = "PENDING" /\ pc[r] = "idle"
    /\ job' = "RUNNING" /\ tries' = tries + 1
    /\ Goto(r, "claim")
    /\ UNCHANGED <<status, typed, log, api, left, messaged, at, calls, crashes>>

\* updateMany WHERE status IN (DRAFT, SCHEDULED, RUNNING).
ClaimCampaign(r) ==
    /\ pc[r] = "claim"
    /\ \/ /\ status \in Claimable
          /\ SetStatus("RUNNING")
          /\ Goto(r, "audience")
       \/ /\ status \notin Claimable
          /\ Goto(r, "done")
          /\ UNCHANGED <<status, typed>>
    /\ UNCHANGED <<job, tries, log, api, left, messaged, at, calls, crashes>>

\* Faulty variant: a refusal on record does not count.
AlreadyQueued == {m \in Members : queued[m] > 0}

\* Everybody the message log of the campaign already names.
AlreadyMessaged == {m \in Members : rows[m] > 0}

\* The members, and who among them is in the message log already.
ReadAudience(r) ==
    /\ pc[r] = "audience"
    /\ left' = [left EXCEPT ![r] = Members]
    /\ messaged' = [messaged EXCEPT ![r] = AlreadyMessaged]
    /\ Goto(r, "loop")
    /\ UNCHANGED <<row, log, api, at, calls, crashes>>

SkipMember(r, m) ==
    /\ pc[r] = "loop" /\ m \in left[r] \cap messaged[r]
    /\ left' = [left EXCEPT ![r] = @ \ {m}]
    /\ UNCHANGED <<row, log, api, pc, messaged, at, calls, crashes>>

\* queueMessage up to its row: QUEUED or SKIPPED.
WriteRow(r, m) ==
    /\ pc[r] = "loop" /\ m \in left[r] \ messaged[r]
    /\ left' = [left EXCEPT ![r] = @ \ {m}]
    /\ rows' = [rows EXCEPT ![m] = @ + 1]
    /\ \/ /\ queued' = [queued EXCEPT ![m] = @ + 1]
          /\ at' = [at EXCEPT ![r] = {m}]
          /\ Goto(r, "enqueue")
       \/ UNCHANGED <<queued, at, pc>>
    /\ UNCHANGED <<row, sends, attribution, gone, api, messaged, calls, crashes>>

\* queueMessage writes nothing: the member's address was removed since the list
\* was read.
DropMember(r, m) ==
    /\ pc[r] = "loop" /\ m \in left[r] \ messaged[r]
    /\ left' = [left EXCEPT ![r] = @ \ {m}]
    /\ gone' = gone \cup {m}
    /\ UNCHANGED <<row, rows, queued, sends, attribution, api, pc, messaged, at, calls,
                   crashes>>

\* queueMessage's last statement: the job that sends the row.
EnqueueSend(r) ==
    /\ pc[r] = "enqueue"
    /\ sends' = [m \in Members |-> IF m \in at[r] THEN sends[m] + 1 ELSE sends[m]]
    /\ at' = [at EXCEPT ![r] = {}]
    /\ Goto(r, "loop")
    /\ UNCHANGED <<row, rows, queued, attribution, gone, api, left, messaged, calls, crashes>>

Complete(r) ==
    /\ pc[r] = "loop" /\ left[r] = {}
    /\ SetStatus("COMPLETED")
    /\ Goto(r, "attribute")
    /\ UNCHANGED <<job, tries, log, api, left, messaged, at, calls, crashes>>

EnqueueAttribution(r) ==
    /\ pc[r] = "attribute"
    /\ attribution' = TRUE
    /\ Goto(r, "done")
    /\ UNCHANGED <<row, rows, queued, sends, gone, api, left, messaged, at, calls, crashes>>

Forget(r) ==
    /\ Goto(r, "idle")
    /\ left' = [left EXCEPT ![r] = {}]
    /\ messaged' = [messaged EXCEPT ![r] = {}]
    /\ at' = [at EXCEPT ![r] = {}]

\* The worker records that the handler returned.
RunReturns(r) ==
    /\ pc[r] = "done"
    /\ job' = "DONE"
    /\ Forget(r)
    /\ UNCHANGED <<status, typed, tries, log, api, calls, crashes>>

\* Any statement of the handler may throw: the job is retried, or dead.
RunThrows(r) ==
    /\ pc[r] \notin {"idle", "done"}
    /\ job' = IF tries >= MaxAttempts THEN "DEAD" ELSE "PENDING"
    /\ Forget(r)
    /\ UNCHANGED <<status, typed, tries, log, api, calls, crashes>>

Crash(r) ==
    /\ Fanning(r) /\ crashes < MaxCrashes
    /\ crashes' = crashes + 1
    /\ Forget(r)
    /\ UNCHANGED <<row, log, api, calls>>

\* A process starts and takes back a lock older than fifteen minutes.
Reclaim ==
    /\ job = "RUNNING"
    /\ SlowFanOut \/ \A r \in Runners : ~Fanning(r)
    /\ job' = "PENDING"
    /\ UNCHANGED <<status, typed, tries, log, api, fanOut, calls, crashes>>
-----------------------------------------------------------------------------
CarryOn(a) == LaunchSchedules(a) \/ LaunchEnqueues(a) \/ EditWrites(a)

Api(a) ==
    \/ LaunchReads(a) \/ Pause(a) \/ EditReads(a)
    \/ CarryOn(a)

Dispatch(r) ==
    \/ StartRun(r) \/ ClaimCampaign(r) \/ ReadAudience(r)
    \/ \E m \in Members : SkipMember(r, m) \/ WriteRow(r, m) \/ DropMember(r, m)
    \/ EnqueueSend(r) \/ Complete(r) \/ EnqueueAttribution(r)
    \/ RunReturns(r) \/ RunThrows(r)

Next ==
    \/ \E a \in Callers : Api(a)
    \/ \E r \in Runners : Dispatch(r) \/ Crash(r)
    \/ Reclaim

Spec == Init /\ [][Next]_vars

\* A worker keeps working and a request is carried to its end.
FairSpec ==
    /\ Spec
    /\ \A r \in Runners : WF_vars(Dispatch(r))
    /\ \A a \in Callers : WF_vars(CarryOn(a))
-----------------------------------------------------------------------------

\* "The retry resumes instead of restarting": however often the fan-out is retried,
\* resumed after a crash, paused and launched again, no customer gets a second message
\* from the campaign, and one that the fan-out marked COMPLETED has come to every member
\* that still had an address (an edit may write the word without sending anything).
\* "Two workers racing, or a retry arriving late, find zero rows updated and stop"
\* (campaign.service.ts:504-505): one process at a time fans out, as long as no fan-out
\* runs for more than fifteen minutes.
EverybodyOnce ==
    /\ \A m \in Members : rows[m] <= 1 /\ sends[m] <= queued[m]
    /\ status = "COMPLETED" /\ ~typed => \A m \in Members \ gone : rows[m] > 0
    /\ \A r1, r2 \in Runners : r1 # r2 => ~(pc[r1] = "loop" /\ pc[r2] = "loop")

\* The job died with its worker and nobody has taken it back.
Abandoned == job = "RUNNING" /\ \A r \in Runners : pc[r] = "idle"

\* A campaign that a fan-out has set RUNNING finishes, is stopped or rewritten by
\* somebody, or its job is dead or died with its worker: "a genuinely interrupted campaign
\* can finish".  RUNNING written by an edit starts nothing, and may stay for ever.
StartedFinishes ==
    status = "RUNNING" ~> status # "RUNNING" \/ typed \/ job = "DEAD" \/ Abandoned

\* "Queues the campaign for the worker to fan out" (campaign.service.ts:386):
\* when a launch returns with the campaign SCHEDULED, there is a job to run it.
LaunchedIsQueued ==
    [][\A a \in Callers :
            api[a] = "enqueue" /\ api'[a] = "idle" /\ status = "SCHEDULED"
                => job' \in {"PENDING", "RUNNING"}]_vars
=============================================================================
