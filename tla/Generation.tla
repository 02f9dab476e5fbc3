----------------------------- MODULE Generation -----------------------------
(***************************************************************************)
(* Pictures drawn by a provider that is paid by the picture                *)
(* (modules/hair-studio/hair-generation.service.ts).  A request leaves a   *)
(* PENDING row and a job; the job submits the row; a chain of poll jobs,   *)
(* each booking the next, waits for the answer; a sweep looks for rows     *)
(* whose job went missing.  Whether the day has room for the request is    *)
(* DailyCap's.                                                             *)
(*                                                                         *)
(* Every call to the provider and every statement after it is an action.   *)
(* The rows of the job queue are those of JobQueue, reduced to their unique*)
(* key, their tries and what a death does to them.                         *)
(***************************************************************************)
EXTENDS Naturals

CONSTANTS
    Pictures,      \* HairGeneration rows
    Nothing,       \* no picture in hand
    Workers,
    MaxPolls,      \* BFL_MAX_POLLS
    MaxAttempts,   \* Job.maxAttempts of a submission; a poll has one
    MaxHours,      \* bound: hours in which the sweep books a submission again
    MaxDeaths      \* bound: handlers that throw or die with their process

VARIABLES
    status,    \* HairGeneration.status; "NONE" before the row
    polls,     \* HairGeneration.polls
    givenUp,   \* stalled pictures the sweep has read and is about to fail
    submits,   \* submits[g][h]: the job of the request (0) or of the hour h's sweep
    checks,    \* checks[g][n]: status of the poll job hair.generate.poll:<g>:<n>
    pc,        \* pc[w]: the next step of the handler the worker runs
    hand,      \* hand[w]: the picture in hand
    key,       \* key[w]: the hour or the number of the job in hand
    paid,      \* history: how often the provider accepted the picture, up to twice
    doubt,     \* history: pictures whose payment nobody could know of
    threw,     \* history: pictures with a poll that threw before it was counted
    rewound,   \* history: pictures whose count of polls went back
    overlapped,\* history: pictures that two handlers worked on at once
    deaths

row     == <<status, polls, givenUp>>
jobs    == <<submits, checks>>
worker  == <<pc, hand, key>>
history == <<paid, doubt, threw, rewound, overlapped>>
vars    == <<row, jobs, worker, history, deaths>>

Finished == {"READY", "REFUSED", "FAILED"}
Hours == 0 .. MaxHours
PollNumbers == 0 .. MaxPolls - 1

NoJob == [status |-> "NONE", tries |-> 0]
Queued == [status |-> "PENDING", tries |-> 0]

\* An insert whose key is taken, by a job of any status, does nothing.
Booked(job) == IF job = NoJob THEN Queued ELSE job
Scheduled(poll) == IF poll = "NONE" THEN "PENDING" ELSE poll

Init ==
    /\ status = [g \in Pictures |-> "NONE"] /\ polls = [g \in Pictures |-> 0] /\ givenUp = {}
    /\ submits = [g \in Pictures |-> [h \in Hours |-> NoJob]]
    /\ checks = [g \in Pictures |-> [n \in PollNumbers |-> "NONE"]]
    /\ pc = [w \in Workers |-> "idle"] /\ hand = [w \in Workers |-> Nothing]
    /\ key = [w \in Workers |-> 0]
    /\ paid = [g \in Pictures |-> 0]
    /\ doubt = {} /\ threw = {} /\ rewound = {} /\ overlapped = {} /\ deaths = 0

Goto(w, step) == pc' = [pc EXCEPT ![w] = step]
-----------------------------------------------------------------------------
(* requestGeneration and requestCatalogReference *)

Die == deaths < MaxDeaths /\ deaths' = deaths + 1

\* The row, then its job, unless the request dies in between.
Request(g) ==
    /\ status[g] = "NONE"
    /\ status' = [status EXCEPT ![g] = "PENDING"]
    /\ \/ submits' = [submits EXCEPT ![g][0] = Booked(@)] /\ UNCHANGED deaths
       \/ Die /\ UNCHANGED submits
    /\ UNCHANGED <<polls, givenUp, checks, worker, history>>
-----------------------------------------------------------------------------
(* submitGeneration *)

Running(job) == [status |-> "RUNNING", tries |-> job.tries + 1]

AtWork(g) == \E w \in Workers : hand[w] = g /\ pc[w] \notin {"handed", "checked"}

Take(w, g, k) ==
    /\ pc[w] = "idle"
    /\ hand' = [hand EXCEPT ![w] = g]
    /\ key' = [key EXCEPT ![w] = k]
    /\ overlapped' = IF AtWork(g) \/ g \in givenUp THEN overlapped \cup {g} ELSE overlapped

\* Faulty variant: a duplicate job pays twice.
SubmittableAlways(g) == status[g] # "NONE"

\* "A duplicate job must not pay twice."
Submittable(g) == status[g] = "PENDING"

ReadForSubmit(w, g, h) ==
    /\ Take(w, g, h)
    /\ submits[g][h].status = "PENDING"
    /\ submits' = [submits EXCEPT ![g][h] = Running(@)]
    /\ Goto(w, IF Submittable(g) THEN "submit" ELSE "handed")
    /\ UNCHANGED <<row, checks, paid, doubt, threw, rewound, deaths>>

OnceMore(times) == IF times < 2 THEN times + 1 ELSE 2

Accept(w) ==
    /\ pc[w] = "submit"
    /\ paid' = [paid EXCEPT ![hand[w]] = OnceMore(@)]
    /\ Goto(w, "record")
    /\ UNCHANGED <<row, jobs, hand, key, doubt, threw, rewound, overlapped,
                   deaths>>

\* The picture it is based on cannot be read, a setting is wrong, or the address
\* that came back, with the bill, is not to be trusted.
Decline(w) ==
    /\ pc[w] = "submit"
    /\ status' = [status EXCEPT ![hand[w]] = "FAILED"]
    /\ \/ UNCHANGED paid
       \/ paid' = [paid EXCEPT ![hand[w]] = OnceMore(@)]
    /\ Goto(w, "handed")
    /\ UNCHANGED <<polls, givenUp, jobs, hand, key, doubt,
                   threw, rewound, overlapped, deaths>>

AfterFailure(job) ==
    [job EXCEPT !.status = IF job.tries >= MaxAttempts THEN "DEAD" ELSE "PENDING"]

LetGo(w) ==
    /\ hand' = [hand EXCEPT ![w] = Nothing]
    /\ key' = [key EXCEPT ![w] = 0]
    /\ Goto(w, "idle")

\* A bad minute: no answer came back, though the provider may have accepted.
NoAnswer(w) ==
    LET g == hand[w] IN
    /\ pc[w] = "submit"
    /\ submits' = [submits EXCEPT ![g][key[w]] = AfterFailure(@)]
    /\ \/ UNCHANGED <<paid, doubt>>
       \/ paid' = [paid EXCEPT ![g] = OnceMore(@)] /\ doubt' = doubt \cup {g}
    /\ LetGo(w)
    /\ UNCHANGED <<row, checks, threw, rewound, overlapped, deaths>>

RecordSubmission(w) ==
    /\ pc[w] = "record"
    /\ status' = [status EXCEPT ![hand[w]] = "SUBMITTED"]
    /\ Goto(w, "schedule")
    /\ UNCHANGED <<polls, givenUp, jobs, hand, key, history, deaths>>

\* Any poll with the key, finished or not, makes the insert a no-op.
ScheduleFirstPoll(w) ==
    /\ pc[w] = "schedule"
    /\ checks' = [checks EXCEPT ![hand[w]][0] = Scheduled(@)]
    /\ Goto(w, "handed")
    /\ UNCHANGED <<row, submits, hand, key, history, deaths>>

SubmitReturns(w) ==
    /\ pc[w] = "handed"
    /\ submits' = [submits EXCEPT ![hand[w]][key[w]].status = "DONE"]
    /\ LetGo(w)
    /\ UNCHANGED <<row, checks, history, deaths>>

\* Thrown by the database and tried again, or dead with its process and taken back.
SubmitDies(w) ==
    LET g == hand[w] IN
    /\ pc[w] \in {"submit", "record", "schedule", "handed"}
    /\ Die
    /\ \E job \in {AfterFailure(submits[g][key[w]]),
                   [submits[g][key[w]] EXCEPT !.status = "PENDING"]} :
        submits' = [submits EXCEPT ![g][key[w]] = job]
    /\ doubt' = IF pc[w] = "record" THEN doubt \cup {g} ELSE doubt
    /\ LetGo(w)
    /\ UNCHANGED <<row, checks, paid, threw, rewound, overlapped>>
-----------------------------------------------------------------------------
(* pollGeneration *)

Pollable(g) == status[g] = "SUBMITTED"

ReadForPoll(w, g, n) ==
    /\ Take(w, g, n)
    /\ checks[g][n] = "PENDING"
    /\ checks' = [checks EXCEPT ![g][n] = "RUNNING"]
    /\ Goto(w, IF Pollable(g) THEN "ask" ELSE "checked")
    /\ UNCHANGED <<row, submits, paid, doubt, threw, rewound, deaths>>

\* Faulty variant: the poll is not counted.
AskUncounted(w) ==
    /\ pc[w] = "ask"
    /\ \E answer \in {"pending", "ready", "refused", "failed"} : Goto(w, answer)
    /\ UNCHANGED <<row, jobs, hand, key, history, deaths>>

\* The provider answers and the poll is counted, by the number of its job: one that is
\* taken back late puts the count back.  Every answer but a lost connection is one of
\* these.
Ask(w) ==
    /\ pc[w] = "ask"
    /\ polls' = [polls EXCEPT ![hand[w]] = key[w] + 1]
    /\ rewound' = IF key[w] + 1 < polls[hand[w]] THEN rewound \cup {hand[w]} ELSE rewound
    /\ \E answer \in {"pending", "ready", "refused", "failed"} : Goto(w, answer)
    /\ UNCHANGED <<status, givenUp, jobs, hand, key, paid, doubt, threw, overlapped, deaths>>

StillPending(w) ==
    /\ pc[w] = "pending"
    /\ \/ /\ key[w] + 1 >= MaxPolls
          /\ status' = [status EXCEPT ![hand[w]] = "FAILED"]
          /\ UNCHANGED checks
       \/ /\ key[w] + 1 < MaxPolls
          /\ checks' = [checks EXCEPT ![hand[w]][key[w] + 1] = Scheduled(@)]
          /\ UNCHANGED status
    /\ Goto(w, "checked")
    /\ UNCHANGED <<polls, givenUp, submits, hand, key, history,
                   deaths>>

\* Refused and failed for good; a picture that is ready is stored, or is not.
Settle(w) ==
    /\ \/ pc[w] = "refused" /\ status' = [status EXCEPT ![hand[w]] = "REFUSED"]
       \/ pc[w] = "failed" /\ status' = [status EXCEPT ![hand[w]] = "FAILED"]
       \/ pc[w] = "ready" /\ \E s \in {"READY", "FAILED"} : status' = [status EXCEPT ![hand[w]] = s]
    /\ Goto(w, "checked")
    /\ UNCHANGED <<polls, givenUp, jobs, hand, key, history, deaths>>

PollReturns(w) ==
    /\ pc[w] = "checked"
    /\ checks' = [checks EXCEPT ![hand[w]][key[w]] = "DONE"]
    /\ LetGo(w)
    /\ UNCHANGED <<row, submits, history, deaths>>

\* A poll has one attempt: thrown, its job is dead and keeps the key.
PollDies(w) ==
    LET g == hand[w] IN
    /\ pc[w] \in {"ask", "pending", "ready", "refused", "failed", "checked"}
    /\ Die
    /\ \/ /\ checks' = [checks EXCEPT ![g][key[w]] = "DEAD"]
          /\ threw' = IF pc[w] = "ask" THEN threw \cup {g} ELSE threw
       \/ /\ checks' = [checks EXCEPT ![g][key[w]] = "PENDING"]
          /\ UNCHANGED threw
    /\ LetGo(w)
    /\ UNCHANGED <<row, submits, paid, doubt, rewound, overlapped>>
-----------------------------------------------------------------------------
(* sweepStalledGenerations.  The five minutes a row must have waited may have *)
(* passed at any moment, so they are no part of the guards.                   *)

\* One more poll, numbered by the polls that were counted.
SweepBooksPoll(g) ==
    /\ status[g] = "SUBMITTED" /\ polls[g] < MaxPolls
    /\ checks' = [checks EXCEPT ![g][polls[g]] = Scheduled(@)]
    /\ UNCHANGED <<row, submits, worker, history, deaths>>

\* The stalled rows are read first and failed afterwards, by id.
SweepReads(g) ==
    /\ g \notin givenUp /\ status[g] = "SUBMITTED" /\ polls[g] >= MaxPolls
    /\ givenUp' = givenUp \cup {g}
    /\ overlapped' = IF AtWork(g) THEN overlapped \cup {g} ELSE overlapped
    /\ UNCHANGED <<status, polls, jobs, worker, paid, doubt,
                   threw, rewound, deaths>>

SweepGivesUp(g) ==
    /\ g \in givenUp
    /\ givenUp' = givenUp \ {g}
    /\ status' = [status EXCEPT ![g] = "FAILED"]
    /\ UNCHANGED <<polls, jobs, worker, history, deaths>>

\* "PENDING rows are the same problem one step earlier: accepted, never sent."
\* The hour is part of the key.
SweepSubmits(g, h) ==
    /\ status[g] = "PENDING" /\ h > 0
    /\ submits' = [submits EXCEPT ![g][h] = Booked(@)]
    /\ UNCHANGED <<row, checks, worker, history, deaths>>
-----------------------------------------------------------------------------
Submit(w) ==
    \/ \E g \in Pictures, h \in Hours : ReadForSubmit(w, g, h)
    \/ Accept(w) \/ Decline(w) \/ NoAnswer(w)
    \/ RecordSubmission(w) \/ ScheduleFirstPoll(w) \/ SubmitReturns(w)

Poll(w) ==
    \/ \E g \in Pictures, n \in PollNumbers : ReadForPoll(w, g, n)
    \/ Ask(w) \/ StillPending(w) \/ Settle(w) \/ PollReturns(w)

Sweep ==
    \E g \in Pictures :
        \/ SweepBooksPoll(g) \/ SweepReads(g) \/ SweepGivesUp(g)
        \/ \E h \in Hours : SweepSubmits(g, h)

Next ==
    \/ \E g \in Pictures : Request(g)
    \/ \E w \in Workers : Submit(w) \/ Poll(w) \/ SubmitDies(w) \/ PollDies(w)
    \/ Sweep

Spec == Init /\ [][Next]_vars
-----------------------------------------------------------------------------

\* A picture is paid for once, whatever is retried and booked again, unless the
\* answer of the provider was lost or two jobs submitted it at the same moment.
PaidOnce == \A g \in Pictures : paid[g] > 1 => g \in doubt \cup overlapped

\* A picture that was submitted and is not finished has a poll on its way, or the
\* sweep can book one or give it up: unless a poll threw before it was counted, whose
\* dead job holds the key the sweep would use, or one that was taken back late put the
\* count back to such a key, or another job submitted it a second time after its polls
\* were over.
NoPictureIsStranded ==
    \A g \in Pictures : status[g] = "SUBMITTED" =>
        \/ g \in threw \cup rewound \cup overlapped
        \/ polls[g] >= MaxPolls
        \/ checks[g][polls[g]] = "NONE"
        \/ \E n \in PollNumbers : checks[g][n] \in {"PENDING", "RUNNING"}
=============================================================================
