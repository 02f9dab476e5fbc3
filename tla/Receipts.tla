------------------------------ MODULE Receipts -------------------------------
(***************************************************************************)
(* The life of a message log row after it was queued: deliver(), run by    *)
(* the message.send job, and applyStatusUpdate(), run for every callback   *)
(* of a provider and every tap on a tracked link (messaging/dispatcher.ts, *)
(* webhooks/webhook.routes.ts, app.ts).  Both read the row, do something   *)
(* slow and write it back, so they overlap freely.                         *)
(*                                                                         *)
(* All the messages belong to one campaign, whose counters they move.      *)
(* The job queue is reduced to what JobQueue guarantees while no handler   *)
(* outlives its lock: a job has one runner at a time, and may be run again *)
(* once the lock of a runner that died is taken back.                      *)
(***************************************************************************)
EXTENDS Naturals, FiniteSets

CONSTANTS
    Messages,      \* rows of MessageLog, all of one campaign
    Handlers,      \* callbacks being handled at the same time
    MaxCopies,     \* bound: times the provider accepts one message
    MaxCallbacks,  \* bound: callbacks handled
    MaxCrashes     \* bound: processes that die

VARIABLES
    status,      \* status[m]: MessageLog.status
    stamps,      \* stamps[m]: which of deliveredAt, readAt, clickedAt are set
    sentAt,      \* sentAt[m]: MessageLog.sentAt is set
    provId,      \* provId[m]: providerMessageId, the number of the copy (0: null)
    count,       \* the campaign's counters
    job,         \* job[m]: the message.send job
    dpc,         \* dpc[m]: the next step of the deliver() that runs for m
    result,      \* result[m]: what provider.send() returned, a copy or 0
    copies,      \* copies[m]: copies the provider has accepted
    hpc,         \* hpc[h]: the next step of callback handler h
    event,       \* event[h]: the callback: message, status, copy
    log,         \* log[h]: the row as the handler read it
    callbacks, crashes,   \* bounds
    deaths,      \* history: deaths[m]: runners that died between send and record
    overlapped   \* history: messages of which two callbacks were handled at once

rows      == <<status, stamps, sentAt, provId>>
delivery  == <<job, dpc, result, copies>>
handling  == <<hpc, event, log>>
history   == <<deaths, overlapped>>
vars == <<rows, count, delivery, handling, callbacks, crashes, history>>

\* How far along the happy path each status is, and the endings beside it.
PROGRESS == [QUEUED |-> 0, SENT |-> 1, DELAYED |-> 2, DELIVERED |-> 3,
             READ |-> 4, CLICKED |-> 5]
TERMINAL == {"BOUNCED", "COMPLAINED", "FAILED"}

Callbacks == {"DELAYED", "DELIVERED", "READ", "CLICKED"} \cup TERMINAL

Counters == {"sent", "delivered", "read", "clicked", "failed"}

Stamped == {"DELIVERED", "READ", "CLICKED"}

NoEvent(m) == [msg |-> m, status |-> "DELAYED", copy |-> 0]

Init ==
    /\ status = [m \in Messages |-> "QUEUED"]
    /\ stamps = [m \in Messages |-> {}]
    /\ sentAt = [m \in Messages |-> FALSE]
    /\ provId = [m \in Messages |-> 0]
    /\ count = [c \in Counters |-> 0]
    /\ job = [m \in Messages |-> "waiting"]
    /\ dpc = [m \in Messages |-> "read"]
    /\ result = [m \in Messages |-> 0]
    /\ copies = [m \in Messages |-> 0]
    /\ hpc = [h \in Handlers |-> "idle"]
    /\ event = [h \in Handlers |-> NoEvent(CHOOSE m \in Messages : TRUE)]
    /\ log = [h \in Handlers |-> [status |-> "QUEUED", stamps |-> {}]]
    /\ callbacks = 0 /\ crashes = 0
    /\ deaths = [m \in Messages |-> 0] /\ overlapped = {}
-----------------------------------------------------------------------------
(* deliver() *)

Run(m) ==
    /\ job[m] = "waiting"
    /\ job' = [job EXCEPT ![m] = "running"]
    /\ dpc' = [dpc EXCEPT ![m] = "read"]
    /\ UNCHANGED <<rows, count, result, copies, handling, callbacks, crashes, history>>

Over(m) == job' = [job EXCEPT ![m] = "over"]

\* Only a row still QUEUED is sent.
ReadLog(m) ==
    /\ job[m] = "running" /\ dpc[m] = "read"
    /\ \/ status[m] = "QUEUED" /\ dpc' = [dpc EXCEPT ![m] = "send"] /\ UNCHANGED job
       \/ status[m] # "QUEUED" /\ Over(m) /\ UNCHANGED dpc
    /\ UNCHANGED <<rows, count, result, copies, handling, callbacks, crashes, history>>

\* provider.send().  An answer that never comes back is reported as a failure,
\* whether or not the provider took the message.
Send(m) ==
    /\ job[m] = "running" /\ dpc[m] = "send"
    /\ dpc' = [dpc EXCEPT ![m] = "record"]
    /\ \/ /\ copies[m] < MaxCopies
          /\ copies' = [copies EXCEPT ![m] = @ + 1]
          /\ result' = [result EXCEPT ![m] = copies'[m]]
       \/ /\ copies[m] < MaxCopies
          /\ copies' = [copies EXCEPT ![m] = @ + 1]
          /\ result' = [result EXCEPT ![m] = 0]
       \/ /\ result' = [result EXCEPT ![m] = 0]
          /\ UNCHANGED copies
    /\ UNCHANGED <<rows, count, job, handling, callbacks, crashes, history>>

\* Faulty variant: a failed send leaves the row QUEUED, for a retry nobody makes.
RecordSuccessOnly(m) ==
    /\ job[m] = "running" /\ dpc[m] = "record"
    /\ dpc' = [dpc EXCEPT ![m] = "count"]
    /\ \/ /\ result[m] # 0
          /\ status' = [status EXCEPT ![m] = "SENT"]
          /\ sentAt' = [sentAt EXCEPT ![m] = TRUE]
          /\ provId' = [provId EXCEPT ![m] = result[m]]
       \/ result[m] = 0 /\ UNCHANGED <<status, sentAt, provId>>
    /\ UNCHANGED <<stamps, count, job, result, copies, handling, callbacks, crashes,
                   history>>

\* The row is written by id alone, whatever has happened to it meanwhile.
RecordSend(m) ==
    /\ job[m] = "running" /\ dpc[m] = "record"
    /\ dpc' = [dpc EXCEPT ![m] = "count"]
    /\ \/ /\ result[m] # 0
          /\ status' = [status EXCEPT ![m] = "SENT"]
          /\ sentAt' = [sentAt EXCEPT ![m] = TRUE]
          /\ provId' = [provId EXCEPT ![m] = result[m]]
       \/ /\ result[m] = 0
          /\ status' = [status EXCEPT ![m] = "FAILED"]
          /\ UNCHANGED <<sentAt, provId>>
    /\ UNCHANGED <<stamps, count, job, result, copies, handling, callbacks, crashes,
                   history>>

Bump(fields) == count' = [c \in Counters |-> IF c \in fields THEN count[c] + 1 ELSE count[c]]

CountSend(m) ==
    /\ job[m] = "running" /\ dpc[m] = "count"
    /\ Bump(IF result[m] # 0 THEN {"sent"} ELSE {"failed"})
    /\ Over(m)
    /\ UNCHANGED <<rows, dpc, result, copies, handling, callbacks, crashes, history>>

\* The worker dies, and the row of the job keeps its lock.
CrashDeliver(m) ==
    /\ job[m] = "running" /\ crashes < MaxCrashes
    /\ crashes' = crashes + 1
    /\ job' = [job EXCEPT ![m] = "locked"]
    /\ deaths' = [deaths EXCEPT ![m] = IF dpc[m] = "record" THEN @ + 1 ELSE @]
    /\ UNCHANGED <<rows, count, dpc, result, copies, handling, callbacks, overlapped>>

\* reclaimStuckJobs(): a worker starts and finds the lock older than a quarter of an hour.
Reclaim(m) ==
    /\ job[m] = "locked"
    /\ job' = [job EXCEPT ![m] = "waiting"]
    /\ UNCHANGED <<rows, count, dpc, result, copies, handling, callbacks, crashes, history>>

\* A worker that is up goes on with its job, and a job that waits is taken.
Working(m) == Run(m) \/ ReadLog(m) \/ Send(m) \/ RecordSend(m) \/ CountSend(m)

Deliver(m) == Working(m) \/ CrashDeliver(m) \/ Reclaim(m)
-----------------------------------------------------------------------------
(* applyStatusUpdate(): callbacks come in any order, any number of times *)

Handle(h, m, s, c) ==
    /\ hpc[h] = "idle" /\ callbacks < MaxCallbacks
    /\ callbacks' = callbacks + 1
    /\ event' = [event EXCEPT ![h] = [msg |-> m, status |-> s, copy |-> c]]
    /\ log' = [log EXCEPT ![h] = [status |-> status[m], stamps |-> stamps[m]]]
    /\ hpc' = [hpc EXCEPT ![h] = "update"]
    /\ overlapped' = overlapped \cup
           {event[g].msg : g \in {f \in Handlers : hpc[f] # "idle" /\ event[f].msg = m}}
    /\ UNCHANGED <<rows, count, delivery, crashes, deaths>>

\* A provider's callback about copy c finds the row by the id stored in it.
Callback(h, m, s) ==
    \E c \in 1..copies[m] :
        \/ provId[m] = c /\ Handle(h, m, s, c)
        \/ /\ provId[m] # c
           /\ hpc[h] = "idle" /\ callbacks < MaxCallbacks
           /\ callbacks' = callbacks + 1
           /\ UNCHANGED <<rows, count, delivery, handling, crashes, history>>

\* A tap on a tracked link carries the id of the row itself.
Tap(h, m) == copies[m] > 0 /\ Handle(h, m, "CLICKED", 0)

NewStamps(ev, old) ==
    {s \in Stamped : \/ s = ev
                     \/ s = "DELIVERED" /\ ev \in {"READ", "CLICKED"} /\ s \notin old}

\* Faulty variant: whatever comes last is written.
ClimbsAnyhow(ev, old) == old \notin TERMINAL

Climbs(ev, old) == old \notin TERMINAL /\ PROGRESS[ev] > PROGRESS[old]

\* What was read decides what is written.
UpdateLog(h) ==
    LET m == event[h].msg
        ev == event[h].status
    IN  /\ hpc[h] = "update"
        /\ status' = IF ev \in TERMINAL \/ (ev \notin TERMINAL /\ Climbs(ev, log[h].status))
                     THEN [status EXCEPT ![m] = ev] ELSE status
        /\ stamps' = [stamps EXCEPT ![m] = @ \cup NewStamps(ev, log[h].stamps)]
        /\ hpc' = [hpc EXCEPT ![h] = "count"]
        /\ UNCHANGED <<sentAt, provId, count, delivery, event, log, callbacks, crashes,
                       history>>

CounterOf == [DELIVERED |-> "delivered", READ |-> "read", CLICKED |-> "clicked",
              BOUNCED |-> "failed", COMPLAINED |-> "failed", FAILED |-> "failed"]

\* Faulty variant: the status, and not the stamps, says what was counted.
AlreadyCountedByStatus(ev, old) == old.status = ev

\* "The timestamps on the row before this update are the record of what has
\* already been counted."
AlreadyCounted(ev, old) ==
    IF ev \in Stamped THEN ev \in old.stamps ELSE old.status \in TERMINAL

CountCallback(h) ==
    LET ev == event[h].status
        old == log[h]
        implied == ev \in {"READ", "CLICKED"} /\ "DELIVERED" \notin old.stamps
    IN  /\ hpc[h] = "count"
        /\ IF ev = "DELAYED" \/ AlreadyCounted(ev, old)
           THEN UNCHANGED count
           ELSE Bump({CounterOf[ev]} \cup IF implied THEN {"delivered"} ELSE {})
        /\ hpc' = [hpc EXCEPT ![h] = "idle"]
        /\ UNCHANGED <<rows, delivery, event, log, callbacks, crashes, history>>

\* The server dies: the callback was acknowledged before it was handled.
CrashHandler(h) ==
    /\ hpc[h] # "idle" /\ crashes < MaxCrashes
    /\ crashes' = crashes + 1
    /\ hpc' = [hpc EXCEPT ![h] = "idle"]
    /\ UNCHANGED <<rows, count, delivery, event, log, callbacks, history>>

Receive(h) ==
    \/ \E m \in Messages, s \in Callbacks : Callback(h, m, s)
    \/ \E m \in Messages : Tap(h, m)
    \/ UpdateLog(h) \/ CountCallback(h) \/ CrashHandler(h)
-----------------------------------------------------------------------------
Next ==
    \/ \E m \in Messages : Deliver(m)
    \/ \E h \in Handlers : Receive(h)

Spec == Init /\ [][Next]_vars
-----------------------------------------------------------------------------
\* Runners that have recorded a send and not counted it yet.
Counting == {m \in Messages : job[m] = "running" /\ dpc[m] = "count" /\ result[m] # 0}

\* "You cannot click a link in a message that never arrived": whatever order the
\* callbacks come in and however they overlap, read or clicked implies delivered.
FunnelNarrows == \A m \in Messages : stamps[m] # {} => "DELIVERED" \in stamps[m]

\* A customer gets a message a second time only when a worker died after the provider
\* took it and before the row said so; a retry never sends a row that has moved on.  The
\* funnel narrows.  The campaign's sentCount is the number of its messages that left, and
\* a crash can only make it smaller.  As long as no two callbacks about one message were
\* handled at once, every other counter is the number of messages that reached its
\* stage, in whatever order the callbacks came.
SentAndCountedOnce ==
    LET sent == Cardinality({m \in Messages : sentAt[m]})
        counted == count["sent"] + Cardinality(Counting)
        reached(stage) == Cardinality({m \in Messages : stage \in stamps[m]})
    IN
    /\ \A m \in Messages : copies[m] <= 1 + deaths[m]
    /\ FunnelNarrows
    /\ counted <= sent
    /\ crashes = 0 => counted = sent
    /\ crashes = 0 /\ overlapped = {} /\ (\A h \in Handlers : hpc[h] = "idle") =>
         \A stage \in Stamped : count[CounterOf[stage]] = reached(stage)

\* "So progress only ever climbs" and "An ending. Always wins, whatever the row
\* said before" (dispatcher.ts:1346, 1359): from the moment the send is recorded,
\* as long as callbacks about it are handled one at a time, even for the one that was
\* read before the record and is written after it.
ProgressClimbs ==
    [][\A m \in Messages \ overlapped : sentAt[m] =>
          IF status[m] \in TERMINAL
          THEN status'[m] \in TERMINAL
          ELSE status'[m] \notin TERMINAL => PROGRESS[status'[m]] >= PROGRESS[status[m]]]_vars

\* Every queued message is sent or given up, whatever worker dies meanwhile, unless its job
\* stays locked: a lock is taken back only when a worker starts, and nothing starts one
\* because a quarter of an hour has gone by.
EveryMessageLeaves ==
    \A m \in Messages : <>(status[m] # "QUEUED") \/ <>[](job[m] = "locked")
=============================================================================
