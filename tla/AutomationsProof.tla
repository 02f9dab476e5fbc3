-------------------------- MODULE AutomationsProof --------------------------
(***************************************************************************)
(* Proofs about Automations, for any workers, pictures, plans and bounds.  *)
(*                                                                         *)
(* A picture (Generation): as long as no two handlers were at work on it,  *)
(* whoever is about to submit it finds it PENDING and unpaid (Unpaid); and *)
(* as long as the count of its polls never went back, the poll with the    *)
(* next number has not been asked and lost (NextPollOpen).                 *)
(*                                                                         *)
(* The day's pictures (DailyCap): those drawn, those admitted and those    *)
(* asking are together less than the limit and the crowd of callers.       *)
(*                                                                         *)
(* A run (Journey): the steps behind it were carried out (Behind); a run   *)
(* that goes on has a job waiting or a worker at the step it has come to   *)
(* (Going); while no job of it was run again, one of them is on its way    *)
(* and no other (Once).  Each action keeps these for every run: the one in *)
(* the worker's hand, and by RunFrame all those it has nothing to do with. *)
(***************************************************************************)
EXTENDS Automations, FiniteSetTheorems, TLAPS

(* A picture *)

Waiting == {"NONE", "PENDING"}

JobStatus == {"NONE", "PENDING", "RUNNING", "DONE", "DEAD"}

Asked == {"pending", "ready", "refused", "failed", "checked"}

PictureSteps == {"idle", "submit", "record", "schedule", "handed", "ask"} \cup Asked

PictureTyped ==
    /\ status \in [Pictures -> Waiting \cup {"SUBMITTED"} \cup G!Finished]
    /\ polls \in [Pictures -> Nat]
    /\ checks \in [Pictures -> [G!PollNumbers -> JobStatus]]
    /\ task \in [Workers -> PictureSteps]
    /\ picture \in [Workers -> Pictures \cup {Nothing}]
    /\ key \in [Workers -> Nat]
    /\ paid \in [Pictures -> 0 .. 2]
    /\ \A w \in Workers : task[w] # "idle" => picture[w] \in Pictures
    /\ \A w \in Workers : task[w] \in {"ask"} \cup Asked => key[w] \in G!PollNumbers

\* A handler that may still change the picture.
Working(w, g) == picture[w] = g /\ task[w] \notin {"idle", "handed", "checked"}

\* Nothing leaves a picture PENDING again, and no poll is booked before.
Begun ==
    /\ \A w \in Workers :
          task[w] \in {"schedule", "ask"} \cup Asked => status[picture[w]] \notin Waiting
    /\ \A g \in Pictures : status[g] \in Waiting => \A n \in G!PollNumbers : checks[g][n] = "NONE"

\* One handler at a time, which finds what it read.
Alone(g) ==
    /\ \A w, v \in Workers : Working(w, g) /\ Working(v, g) => w = v
    /\ \A w \in Workers : Working(w, g) => g \notin givenUp
    /\ \A w \in Workers : picture[w] = g /\ task[w] \in {"submit", "record"} => status[g] = "PENDING"

\* What was paid for is recorded, or about to be.
Unpaid(g) ==
    /\ paid[g] <= 1
    /\ status[g] \in Waiting /\ paid[g] > 0 =>
          \E w \in Workers : picture[w] = g /\ task[w] = "record"

\* The poll with the next number is still to be booked, or to be asked.
NextPollOpen(g) ==
    status[g] = "SUBMITTED" =>
        /\ \A n \in G!PollNumbers : n >= polls[g] => checks[g][n] \in {"NONE", "PENDING", "RUNNING"}
        /\ \A w \in Workers : picture[w] = g /\ task[w] \in Asked => key[w] < polls[g]

PictureInv ==
    /\ PictureTyped
    /\ Begun
    /\ \A g \in Pictures \ overlapped : Alone(g)
    /\ \A g \in Pictures \ (doubt \cup overlapped) : Unpaid(g)
    /\ \A g \in Pictures \ (threw \cup rewound \cup overlapped) : NextPollOpen(g)

LEMMA PictureInit == G!Init => PictureInv
<1> SUFFICES ASSUME G!Init PROVE PictureInv
  OBVIOUS
<1>1. \A w \in Workers : task[w] = "idle"
  BY DEF G!Init
<1>2. PictureTyped
  <2>1. checks \in [Pictures -> [G!PollNumbers -> JobStatus]]
    BY DEF G!Init, JobStatus
  <2>2. status \in [Pictures -> Waiting \cup {"SUBMITTED"} \cup G!Finished]
    BY DEF G!Init, Waiting
  <2> QED
    BY <1>1, <2>1, <2>2 DEF G!Init, PictureTyped, PictureSteps, Asked
<1>4. Begun /\ \A g \in Pictures : Alone(g)
  BY <1>1 DEF G!Init, Begun, Alone, Working, Asked
<1>5. \A g \in Pictures : NextPollOpen(g)
  BY DEF G!Init, NextPollOpen
<1>3. \A g \in Pictures : Unpaid(g)
  BY DEF G!Init, Unpaid
<1> QED
  BY <1>2, <1>3, <1>4, <1>5 DEF PictureInv
-----------------------------------------------------------------------------
\* What a step of a worker does to its place, and to nobody else's.
Steps(w, from, to) ==
    /\ task[w] \in from /\ to \subseteq PictureSteps
    /\ \E step \in to : task' = [task EXCEPT ![w] = step]

\* The worker has the picture in hand and keeps it.
Keeps(w, from, to) == Steps(w, from, to) /\ UNCHANGED <<picture, key, givenUp, overlapped>>

\* It lets the picture go.
Drops(w, from) ==
    /\ Steps(w, from, {"idle"})
    /\ picture' = [picture EXCEPT ![w] = Nothing] /\ key' = [key EXCEPT ![w] = 0]
    /\ UNCHANGED <<givenUp, overlapped>>

Takes(w, g, k, to) ==
    /\ Steps(w, {"idle"}, to)
    /\ picture' = [picture EXCEPT ![w] = g] /\ key' = [key EXCEPT ![w] = k]
    /\ givenUp' = givenUp
    /\ overlapped' = IF G!AtWork(g) \/ g \in givenUp THEN overlapped \cup {g} ELSE overlapped

\* What each action of a worker is to the picture.
LEMMA SubmitSteps ==
  ASSUME NEW w \in Workers
  PROVE  /\ G!Accept(w) => Keeps(w, {"submit"}, {"record"}) /\ UNCHANGED <<status, polls, checks>>
         /\ G!Decline(w) => Keeps(w, {"submit"}, {"handed"}) /\ UNCHANGED <<polls, checks>>
         /\ G!NoAnswer(w) => Drops(w, {"submit"}) /\ UNCHANGED <<status, polls, checks>>
         /\ G!RecordSubmission(w) => Keeps(w, {"record"}, {"schedule"}) /\ UNCHANGED <<polls, checks>>
         /\ G!ScheduleFirstPoll(w) => Keeps(w, {"schedule"}, {"handed"}) /\ UNCHANGED <<status, polls>>
         /\ G!SubmitReturns(w) => Drops(w, {"handed"}) /\ UNCHANGED <<status, polls, checks>>
         /\ G!SubmitDies(w) => /\ Drops(w, {"submit", "record", "schedule", "handed"})
                               /\ UNCHANGED <<status, polls, checks>>
BY DEF G!Accept, G!Decline, G!NoAnswer, G!RecordSubmission, G!ScheduleFirstPoll, G!SubmitReturns,
       G!SubmitDies, G!LetGo, G!Goto, G!Die, Keeps, Drops, Steps, PictureSteps, Asked, G!row,
       G!jobs, G!history

LEMMA PollSteps ==
  ASSUME NEW w \in Workers
  PROVE  /\ G!StillPending(w) => Keeps(w, {"pending"}, {"checked"}) /\ UNCHANGED polls
         /\ G!Settle(w) => Keeps(w, {"refused", "failed", "ready"}, {"checked"})
                           /\ UNCHANGED <<polls, checks>>
         /\ G!PollReturns(w) => Drops(w, {"checked"}) /\ UNCHANGED <<status, polls>>
         /\ G!PollDies(w) => Drops(w, {"ask"} \cup Asked) /\ UNCHANGED <<status, polls>>
<1>1. G!StillPending(w) => Keeps(w, {"pending"}, {"checked"}) /\ UNCHANGED polls
  BY DEF G!StillPending, G!Goto, Keeps, Steps, PictureSteps, Asked, G!history
<1>2. G!Settle(w) => Keeps(w, {"refused", "failed", "ready"}, {"checked"})
                     /\ UNCHANGED <<polls, checks>>
  BY DEF G!Settle, G!Goto, Keeps, Steps, PictureSteps, Asked, G!history, G!jobs
<1>3. G!PollReturns(w) => Drops(w, {"checked"}) /\ UNCHANGED <<status, polls>>
  BY DEF G!PollReturns, G!LetGo, G!Goto, Drops, Steps, PictureSteps, Asked, G!history, G!row
<1>4. G!PollDies(w) => Drops(w, {"ask"} \cup Asked) /\ UNCHANGED <<status, polls>>
  BY DEF G!PollDies, G!LetGo, G!Goto, Drops, Steps, PictureSteps, Asked, G!row
<1> QED
  BY <1>1, <1>2, <1>3, <1>4

LEMMA TakeToSubmit ==
  ASSUME NEW w \in Workers, NEW g \in Pictures, NEW h \in G!Hours, PictureTyped,
         G!ReadForSubmit(w, g, h)
  PROVE  /\ Takes(w, g, h, {"submit", "handed"}) /\ UNCHANGED <<status, polls, checks, paid>>
         /\ UNCHANGED <<doubt, threw, rewound>>
         /\ task'[w] = "submit" => status[g] = "PENDING"
<1>1. /\ task[w] = "idle" /\ UNCHANGED <<status, polls, checks, givenUp, paid, doubt, threw, rewound>>
      /\ picture' = [picture EXCEPT ![w] = g] /\ key' = [key EXCEPT ![w] = h]
      /\ overlapped' = IF G!AtWork(g) \/ g \in givenUp THEN overlapped \cup {g} ELSE overlapped
      /\ task' = [task EXCEPT ![w] = IF status[g] = "PENDING" THEN "submit" ELSE "handed"]
  BY DEF G!ReadForSubmit, G!Take, G!Goto, G!Submittable, G!row
<1> QED
  BY <1>1 DEF Takes, Steps, PictureSteps, PictureTyped

LEMMA TakeToPoll ==
  ASSUME NEW w \in Workers, NEW g \in Pictures, NEW n \in G!PollNumbers, PictureTyped,
         G!ReadForPoll(w, g, n)
  PROVE  /\ Takes(w, g, n, {"ask", "checked"}) /\ UNCHANGED <<status, polls, paid>>
         /\ UNCHANGED <<doubt, threw, rewound>>
         /\ checks[g][n] = "PENDING" /\ checks' = [checks EXCEPT ![g][n] = "RUNNING"]
         /\ task'[w] = "ask" <=> status[g] = "SUBMITTED"
<1>1. /\ task[w] = "idle" /\ UNCHANGED <<status, polls, givenUp, paid, doubt, threw, rewound>>
      /\ checks[g][n] = "PENDING" /\ checks' = [checks EXCEPT ![g][n] = "RUNNING"]
      /\ picture' = [picture EXCEPT ![w] = g] /\ key' = [key EXCEPT ![w] = n]
      /\ overlapped' = IF G!AtWork(g) \/ g \in givenUp THEN overlapped \cup {g} ELSE overlapped
      /\ task' = [task EXCEPT ![w] = IF status[g] = "SUBMITTED" THEN "ask" ELSE "checked"]
  BY DEF G!ReadForPoll, G!Take, G!Goto, G!Pollable, G!row
<1> QED
  BY <1>1 DEF Takes, Steps, PictureSteps, PictureTyped, Asked
-----------------------------------------------------------------------------
(* The picture is typed *)

\* The worker's own columns.
WorkerTyped ==
    /\ task \in [Workers -> PictureSteps]
    /\ picture \in [Workers -> Pictures \cup {Nothing}]
    /\ key \in [Workers -> Nat]
    /\ \A w \in Workers : task[w] # "idle" => picture[w] \in Pictures
    /\ \A w \in Workers : task[w] \in {"ask"} \cup Asked => key[w] \in G!PollNumbers

LEMMA WorkerKept ==
  ASSUME PictureTyped, NEW w \in Workers
  PROVE  /\ \A from, to : Keeps(w, from, to) /\ "idle" \notin from
                 /\ (to \cap ({"ask"} \cup Asked) # {} => from \subseteq {"ask"} \cup Asked)
              => WorkerTyped'
         /\ \A from : Drops(w, from) => WorkerTyped'
         /\ \A g \in Pictures, h \in Nat : Takes(w, g, h, {"submit", "handed"}) => WorkerTyped'
         /\ \A g \in Pictures, n \in G!PollNumbers : Takes(w, g, n, {"ask", "checked"}) => WorkerTyped'
<1>1. ASSUME NEW from, NEW to, Keeps(w, from, to), "idle" \notin from,
             to \cap ({"ask"} \cup Asked) # {} => from \subseteq {"ask"} \cup Asked
      PROVE  WorkerTyped'
  BY <1>1 DEF Keeps, Steps, WorkerTyped, PictureTyped
<1>2. ASSUME NEW from, Drops(w, from) PROVE WorkerTyped'
  BY <1>2 DEF Drops, Steps, WorkerTyped, PictureTyped, Asked
<1>3. ASSUME NEW g \in Pictures, NEW h \in Nat, Takes(w, g, h, {"submit", "handed"})
      PROVE  WorkerTyped'
  BY <1>3 DEF Takes, Steps, WorkerTyped, PictureTyped, Asked
<1>4. ASSUME NEW g \in Pictures, NEW n \in G!PollNumbers, Takes(w, g, n, {"ask", "checked"})
      PROVE  WorkerTyped'
  <2>1. n \in Nat
    BY BoundsAssumption DEF G!PollNumbers
  <2> QED
    BY <1>4, <2>1 DEF Takes, Steps, WorkerTyped, PictureTyped
<1> QED
  BY <1>1, <1>2, <1>3, <1>4

Row == /\ status \in [Pictures -> Waiting \cup {"SUBMITTED"} \cup G!Finished]
       /\ polls \in [Pictures -> Nat] /\ paid \in [Pictures -> 0 .. 2]
       /\ checks \in [Pictures -> [G!PollNumbers -> JobStatus]]

\* The columns of the picture after each step.
LEMMA RowTyped == PictureTyped /\ G!Next => Row'
<1> SUFFICES ASSUME PictureTyped, G!Next PROVE Row'
  OBVIOUS
<1> USE DEF Waiting, G!Finished
<1>1. Row /\ \A w \in Workers : task[w] # "idle" => picture[w] \in Pictures
  BY DEF PictureTyped, Row
<1>2. ASSUME NEW g \in Pictures, G!Request(g) PROVE Row'
  BY <1>1, <1>2 DEF G!Request, Row, G!history
<1>3. ASSUME NEW w \in Workers, G!Submit(w) \/ G!SubmitDies(w) PROVE Row'
  <2>1. CASE \/ \E g \in Pictures, h \in G!Hours : G!ReadForSubmit(w, g, h)
             \/ G!SubmitReturns(w) \/ G!SubmitDies(w)
    BY <1>1, <2>1 DEF G!ReadForSubmit, G!SubmitReturns, G!SubmitDies, G!row, G!history, Row
  <2>2. CASE G!Accept(w) \/ G!Decline(w) \/ G!NoAnswer(w) \/ G!RecordSubmission(w)
    <3>1. polls' = polls /\ checks' = checks /\ picture[w] \in Pictures
      BY <1>1, <2>2 DEF G!Accept, G!Decline, G!NoAnswer, G!RecordSubmission, G!row, G!jobs
    <3>2. \A x \in 0 .. 2 : G!OnceMore(x) \in 0 .. 2
      BY DEF G!OnceMore
    <3>3. paid' = paid \/ paid' = [paid EXCEPT ![picture[w]] = G!OnceMore(@)]
      BY <2>2 DEF G!Accept, G!Decline, G!NoAnswer, G!RecordSubmission, G!history
    <3>4. paid' \in [Pictures -> 0 .. 2]
      BY <1>1, <3>1, <3>2, <3>3 DEF Row
    <3>5. status' = status \/ \E s \in {"SUBMITTED", "FAILED"} : status' = [status EXCEPT ![picture[w]] = s]
      BY <2>2 DEF G!Accept, G!Decline, G!NoAnswer, G!RecordSubmission, G!row
    <3> QED
      BY <1>1, <3>1, <3>4, <3>5 DEF Row
  <2>3. CASE G!ScheduleFirstPoll(w)
    <3>1. checks' = [checks EXCEPT ![picture[w]][0] = G!Scheduled(@)] /\ picture[w] \in Pictures
          /\ UNCHANGED <<status, polls, paid>>
      BY <1>1, <2>3 DEF G!ScheduleFirstPoll, G!row, G!history
    <3>2. \A x \in JobStatus : G!Scheduled(x) \in JobStatus
      BY DEF G!Scheduled, JobStatus
    <3>3. 0 \in G!PollNumbers
      BY BoundsAssumption DEF G!PollNumbers
    <3> QED
      BY <1>1, <3>1, <3>2, <3>3 DEF Row
  <2> QED
    BY <1>3, <2>1, <2>2, <2>3 DEF G!Submit
<1>4. ASSUME NEW w \in Workers, G!Poll(w) \/ G!PollDies(w) PROVE Row'
  <2>1. ASSUME NEW g \in Pictures, NEW n \in G!PollNumbers, G!ReadForPoll(w, g, n) PROVE Row'
    BY <1>1, <2>1 DEF G!ReadForPoll, G!row, Row, JobStatus
  <2>2. CASE G!Ask(w) \/ G!Settle(w)
    <3>1. checks' = checks /\ paid' = paid /\ picture[w] \in Pictures /\ key[w] + 1 \in Nat
      BY <1>1, <2>2 DEF G!Ask, G!Settle, G!jobs, G!history, PictureTyped
    <3>2. polls' = polls \/ polls' = [polls EXCEPT ![picture[w]] = key[w] + 1]
      BY <2>2 DEF G!Ask, G!Settle
    <3>3. status' = status \/ \E s \in G!Finished : status' = [status EXCEPT ![picture[w]] = s]
      BY <2>2 DEF G!Ask, G!Settle
    <3> QED
      BY <1>1, <3>1, <3>2, <3>3 DEF Row
  <2>3. CASE G!StillPending(w)
    <3>1. task[w] = "pending" /\ picture[w] \in Pictures /\ key[w] \in G!PollNumbers
          /\ polls' = polls /\ paid' = paid
      BY <1>1, <2>3 DEF G!StillPending, G!history, PictureTyped, Asked
    <3>2. \A x \in JobStatus : G!Scheduled(x) \in JobStatus
      BY DEF G!Scheduled, JobStatus
    <3>3. CASE status' = [status EXCEPT ![picture[w]] = "FAILED"] /\ checks' = checks
      BY <1>1, <3>1, <3>3 DEF Row
    <3>4. CASE /\ key[w] + 1 < MaxPolls /\ status' = status
               /\ checks' = [checks EXCEPT ![picture[w]][key[w] + 1] = G!Scheduled(@)]
      <4>1. key[w] + 1 \in G!PollNumbers
        BY <3>1, <3>4, BoundsAssumption DEF G!PollNumbers
      <4> QED
        BY <1>1, <3>1, <3>2, <3>4, <4>1 DEF Row
    <3> QED
      BY <2>3, <3>3, <3>4 DEF G!StillPending
  <2>4. CASE G!PollReturns(w) \/ G!PollDies(w)
    <3>1. UNCHANGED <<status, polls, paid>>
      BY <2>4 DEF G!PollReturns, G!PollDies, G!row, G!history
    <3>2. \E s \in {"DONE", "DEAD", "PENDING"} : checks' = [checks EXCEPT ![picture[w]][key[w]] = s]
      BY <2>4 DEF G!PollReturns, G!PollDies
    <3>3. picture[w] \in Pictures /\ key[w] \in G!PollNumbers
      BY <1>1, <2>4 DEF G!PollReturns, G!PollDies, PictureTyped, Asked
    <3> QED
      BY <1>1, <3>1, <3>2, <3>3 DEF Row, JobStatus
  <2> QED
    BY <1>4, <2>1, <2>2, <2>3, <2>4 DEF G!Poll
<1>5. ASSUME NEW g \in Pictures, G!SweepBooksPoll(g) PROVE Row'
  <2>1. checks' = [checks EXCEPT ![g][polls[g]] = G!Scheduled(@)] /\ polls[g] < MaxPolls
        /\ UNCHANGED <<status, polls, paid>>
    BY <1>5 DEF G!SweepBooksPoll, G!row, G!history
  <2>2. \A x \in JobStatus : G!Scheduled(x) \in JobStatus
    BY DEF G!Scheduled, JobStatus
  <2>3. polls[g] \in G!PollNumbers
    BY <1>1, <2>1, BoundsAssumption DEF G!PollNumbers, Row
  <2> QED
    BY <1>1, <2>1, <2>2, <2>3 DEF Row
<1>6. ASSUME NEW g \in Pictures, NEW h \in G!Hours, G!SweepSubmits(g, h) PROVE Row'
  BY <1>1, <1>6 DEF G!SweepSubmits, G!row, G!history, Row
<1>7. ASSUME NEW g \in Pictures, G!SweepReads(g) \/ G!SweepGivesUp(g) PROVE Row'
  BY <1>1, <1>7 DEF G!SweepReads, G!SweepGivesUp, G!row, G!jobs, G!history, Row
<1> QED
  BY <1>2, <1>3, <1>4, <1>5, <1>6, <1>7 DEF G!Next, G!Sweep

LEMMA PictureTypedKept == PictureTyped /\ G!Next => PictureTyped'
<1> SUFFICES ASSUME PictureTyped, G!Next PROVE PictureTyped'
  OBVIOUS
<1>1. ASSUME NEW w \in Workers, G!Submit(w) \/ G!SubmitDies(w) \/ G!Poll(w) \/ G!PollDies(w)
      PROVE  WorkerTyped'
  <2>1. ASSUME NEW g \in Pictures, NEW h \in G!Hours, G!ReadForSubmit(w, g, h) PROVE WorkerTyped'
    <3>1. h \in Nat
      BY BoundsAssumption DEF G!Hours
    <3> QED
      BY <2>1, <3>1, TakeToSubmit, WorkerKept
  <2>2. ASSUME NEW g \in Pictures, NEW n \in G!PollNumbers, G!ReadForPoll(w, g, n)
        PROVE  WorkerTyped'
    BY <2>2, TakeToPoll, WorkerKept
  <2>3. CASE G!Accept(w) \/ G!Decline(w) \/ G!RecordSubmission(w) \/ G!ScheduleFirstPoll(w)
    BY <2>3, SubmitSteps, WorkerKept DEF Asked
  <2>4. CASE G!NoAnswer(w) \/ G!SubmitReturns(w) \/ G!SubmitDies(w) \/ G!PollReturns(w) \/ G!PollDies(w)
    BY <2>4, SubmitSteps, PollSteps, WorkerKept
  <2>5. CASE G!StillPending(w) \/ G!Settle(w)
    BY <2>5, PollSteps, WorkerKept DEF Asked
  <2>6. CASE G!Ask(w)
    BY <2>6 DEF G!Ask, G!Goto, WorkerTyped, PictureTyped, PictureSteps, Asked
  <2> QED
    BY <1>1, <2>1, <2>2, <2>3, <2>4, <2>5, <2>6 DEF G!Submit, G!Poll
<1>2. ASSUME (\E g \in Pictures : G!Request(g)) \/ G!Sweep PROVE WorkerTyped'
  <2>1. UNCHANGED <<task, picture, key>>
    BY <1>2 DEF G!Request, G!Sweep, G!SweepBooksPoll, G!SweepReads, G!SweepGivesUp, G!SweepSubmits,
                G!worker
  <2> QED
    BY <2>1 DEF WorkerTyped, PictureTyped
<1> QED
  BY <1>1, <1>2, RowTyped DEF G!Next, Row, WorkerTyped, PictureTyped
-----------------------------------------------------------------------------
\* Where the status of a picture moves: at its request, by the handler that has it in
\* hand, or by the sweep that gives it up.
LEMMA StatusMoves ==
  ASSUME PictureTyped, G!Next, NEW g \in Pictures, status'[g] # status[g]
  PROVE  \/ status[g] = "NONE" /\ status'[g] = "PENDING" /\ UNCHANGED <<task, picture>>
         \/ \E w \in Workers :
               /\ Working(w, g) /\ task'[w] # task[w] /\ status'[g] \notin Waiting
               /\ status'[g] = "SUBMITTED" => task[w] = "record" /\ task'[w] = "schedule"
         \/ g \in givenUp /\ status'[g] = "FAILED" /\ UNCHANGED <<task, picture>>
<1>1. \A w \in Workers : task[w] # "idle" => picture[w] \in Pictures
  BY DEF PictureTyped
<1>2. ASSUME NEW x \in Pictures, G!Request(x)
      PROVE  status[g] = "NONE" /\ status'[g] = "PENDING" /\ UNCHANGED <<task, picture>>
  BY <1>2 DEF G!Request, G!worker, PictureTyped
<1>3. ASSUME NEW w \in Workers, G!Submit(w) \/ G!SubmitDies(w) \/ G!Poll(w) \/ G!PollDies(w)
      PROVE  /\ Working(w, g) /\ task'[w] # task[w] /\ status'[g] \notin Waiting
             /\ status'[g] = "SUBMITTED" => task[w] = "record" /\ task'[w] = "schedule"
  <2>1. G!Decline(w) \/ G!RecordSubmission(w) \/ G!StillPending(w) \/ G!Settle(w)
    BY <1>3 DEF G!Submit, G!SubmitDies, G!Poll, G!PollDies, G!ReadForSubmit, G!ReadForPoll, G!Accept,
                G!NoAnswer, G!ScheduleFirstPoll, G!SubmitReturns, G!Ask, G!PollReturns, G!row
  <2>2. /\ task[w] \in {"submit", "record", "pending", "refused", "failed", "ready"}
        /\ \E s \in {"FAILED", "SUBMITTED", "REFUSED", "READY"} :
              status' = [status EXCEPT ![picture[w]] = s] /\ (s = "SUBMITTED" => G!RecordSubmission(w))
    BY <2>1 DEF G!Decline, G!RecordSubmission, G!StillPending, G!Settle
  <2>3. picture[w] = g /\ (status'[g] = "SUBMITTED" => G!RecordSubmission(w)) /\ status'[g] \notin Waiting
    BY <1>1, <2>2 DEF PictureTyped, Waiting
  <2>4. G!RecordSubmission(w) => task[w] = "record" /\ task'[w] = "schedule"
    BY DEF G!RecordSubmission, G!Goto, PictureTyped
  <2>5. task'[w] # task[w]
    BY <2>1 DEF G!Decline, G!RecordSubmission, G!StillPending, G!Settle, G!Goto, PictureTyped
  <2> QED
    BY <2>2, <2>3, <2>4, <2>5 DEF Working
<1>4. CASE G!Sweep
  BY <1>4 DEF G!Sweep, G!SweepBooksPoll, G!SweepReads, G!SweepGivesUp, G!SweepSubmits, G!row, G!worker,
              PictureTyped
<1> QED
  BY <1>2, <1>3, <1>4 DEF G!Next

\* A step is one worker's, or nobody's.
Others(v) ==
    /\ \A w \in Workers : w # v => task'[w] = task[w] /\ picture'[w] = picture[w] /\ key'[w] = key[w]
    /\ givenUp' = givenUp

LEMMA OneHandMoves ==
  ASSUME PictureTyped, NEW v \in Workers, G!Submit(v) \/ G!SubmitDies(v) \/ G!Poll(v) \/ G!PollDies(v)
  PROVE  Others(v)
<1>1. \A from, to : Keeps(v, from, to) => Others(v)
  BY DEF Keeps, Steps, PictureTyped, Others
<1>2. \A from : Drops(v, from) => Others(v)
  BY DEF Drops, Steps, PictureTyped, Others
<1>3. \A g, k, to : Takes(v, g, k, to) => Others(v)
  BY DEF Takes, Steps, PictureTyped, Others
<1>4. CASE \/ \E g \in Pictures, h \in G!Hours : G!ReadForSubmit(v, g, h)
           \/ \E g \in Pictures, n \in G!PollNumbers : G!ReadForPoll(v, g, n)
  BY <1>3, <1>4, TakeToSubmit, TakeToPoll
<1>5. CASE G!Ask(v)
  BY <1>5 DEF G!Ask, G!Goto, PictureTyped, Others
<1> QED
  BY <1>1, <1>2, <1>4, <1>5, SubmitSteps, PollSteps DEF G!Submit, G!Poll

LEMMA NoHandMoves ==
  (\E x \in Pictures : G!Request(x)) \/ G!Sweep => UNCHANGED <<task, picture, key>>
BY DEF G!Request, G!Sweep, G!SweepBooksPoll, G!SweepReads, G!SweepGivesUp, G!SweepSubmits, G!worker

\* How a handler comes to where it has to do with a picture that was submitted.
LEMMA SubmitLeads ==
  ASSUME PictureTyped, NEW w \in Workers, G!Submit(w) \/ G!SubmitDies(w),
         task'[w] \in {"schedule", "ask"} \cup Asked
  PROVE  G!RecordSubmission(w)
<1>1. ASSUME NEW from, NEW to, Keeps(w, from, to) PROVE task'[w] \in to
  BY <1>1 DEF Keeps, Steps, PictureTyped
<1>2. ASSUME NEW from, Drops(w, from) PROVE task'[w] = "idle"
  BY <1>2 DEF Drops, Steps, PictureTyped
<1>3. ASSUME NEW g \in Pictures, NEW h \in G!Hours, G!ReadForSubmit(w, g, h)
      PROVE  task'[w] \in {"submit", "handed"}
  BY <1>3, TakeToSubmit DEF Takes, Steps, PictureTyped
<1> QED
  BY <1>1, <1>2, <1>3, SubmitSteps DEF G!Submit, Asked

LEMMA PollLeads ==
  ASSUME PictureTyped, NEW w \in Workers, G!Poll(w) \/ G!PollDies(w),
         task'[w] \in {"schedule", "ask"} \cup Asked
  PROVE  \/ task[w] \in {"ask"} \cup Asked /\ picture'[w] = picture[w]
         \/ \E x \in Pictures, n \in G!PollNumbers : G!ReadForPoll(w, x, n)
<1>1. CASE G!Ask(w) \/ G!StillPending(w) \/ G!Settle(w)
  BY <1>1 DEF G!Ask, G!StillPending, G!Settle, Asked
<1>2. ASSUME NEW from, Drops(w, from) PROVE task'[w] = "idle"
  BY <1>2 DEF Drops, Steps, PictureTyped
<1> QED
  BY <1>1, <1>2, PollSteps DEF G!Poll, Asked

LEMMA BegunKept == PictureTyped /\ PictureTyped' /\ Begun /\ G!Next => Begun'
<1> SUFFICES ASSUME PictureTyped, PictureTyped', Begun, G!Next PROVE Begun'
  OBVIOUS
<1>1. \A g \in Pictures : status[g] \notin Waiting => status'[g] \notin Waiting
  BY StatusMoves DEF Waiting
<1>2. ASSUME NEW g \in Pictures, status'[g] \in Waiting PROVE checks'[g] = checks[g]
  <2>1. status[g] \in Waiting
    BY <1>1, <1>2
  <2>2. \A n \in G!PollNumbers : checks[g][n] = "NONE"
    BY <2>1 DEF Begun
  <2>3. \A w \in Workers : task[w] \in {"schedule", "ask"} \cup Asked => picture[w] # g
    BY <2>1 DEF Begun
  <2>4. CASE \E w \in Workers : G!ScheduleFirstPoll(w) \/ G!StillPending(w) \/ G!PollReturns(w) \/ G!PollDies(w)
    BY <2>3, <2>4 DEF G!ScheduleFirstPoll, G!StillPending, G!PollReturns, G!PollDies, PictureTyped, Asked
  <2>5. ASSUME NEW w \in Workers, NEW x \in Pictures, NEW n \in G!PollNumbers, G!ReadForPoll(w, x, n)
        PROVE  checks'[g] = checks[g]
    <3>1. checks[x][n] = "PENDING" /\ checks' = [checks EXCEPT ![x][n] = "RUNNING"]
      BY <2>5, TakeToPoll
    <3> QED
      BY <2>2, <3>1 DEF PictureTyped
  <2>6. ASSUME NEW x \in Pictures, G!SweepBooksPoll(x) PROVE checks'[g] = checks[g]
    BY <2>1, <2>6 DEF G!SweepBooksPoll, PictureTyped, Waiting
  <2>7. CASE checks' = checks
    BY <2>7
  <2>8. ASSUME NEW w \in Workers,
               \/ \E x \in Pictures, h \in G!Hours : G!ReadForSubmit(w, x, h)
               \/ G!Accept(w) \/ G!Decline(w) \/ G!NoAnswer(w) \/ G!RecordSubmission(w)
               \/ G!SubmitReturns(w) \/ G!SubmitDies(w) \/ G!Ask(w) \/ G!Settle(w)
        PROVE  checks' = checks
    BY <2>8 DEF G!ReadForSubmit, G!Accept, G!Decline, G!NoAnswer, G!RecordSubmission, G!SubmitReturns,
                G!SubmitDies, G!Ask, G!Settle, G!jobs
  <2>9. ASSUME NEW x \in Pictures,
               \/ G!Request(x) \/ G!SweepReads(x) \/ G!SweepGivesUp(x)
               \/ \E h \in G!Hours : G!SweepSubmits(x, h)
        PROVE  checks' = checks
    BY <2>9 DEF G!Request, G!SweepReads, G!SweepGivesUp, G!SweepSubmits, G!jobs
  <2> QED
    BY <2>4, <2>5, <2>6, <2>7, <2>8, <2>9 DEF G!Next, G!Submit, G!Poll, G!Sweep
<1>3. ASSUME NEW g \in Pictures, status'[g] \in Waiting, NEW n \in G!PollNumbers
      PROVE  checks'[g][n] = "NONE"
  BY <1>1, <1>2, <1>3 DEF Begun
<1>4. ASSUME NEW w \in Workers, task'[w] \in {"schedule", "ask"} \cup Asked
      PROVE  status'[picture'[w]] \notin Waiting
  <2>1. picture'[w] \in Pictures
    BY <1>4 DEF PictureTyped, Asked
  <2>2. CASE task[w] \in {"schedule", "ask"} \cup Asked /\ picture'[w] = picture[w]
    BY <1>1, <2>1, <2>2 DEF Begun
  <2>3. CASE \E v \in Workers : G!RecordSubmission(v) /\ v = w
    BY <2>3 DEF G!RecordSubmission, PictureTyped, Waiting
  <2>4. ASSUME NEW x \in Pictures, NEW n \in G!PollNumbers, G!ReadForPoll(w, x, n)
        PROVE  status'[picture'[w]] \notin Waiting
    <3>1. checks[x][n] = "PENDING" /\ picture' = [picture EXCEPT ![w] = x]
      BY <2>4 DEF G!ReadForPoll, G!Take
    <3>2. status[x] \notin Waiting
      BY <3>1 DEF Begun
    <3>3. picture'[w] = x
      BY <3>1 DEF PictureTyped
    <3> QED
      BY <1>1, <3>2, <3>3
  <2>5. \/ task[w] \in {"schedule", "ask"} \cup Asked /\ picture'[w] = picture[w]
        \/ G!RecordSubmission(w)
        \/ \E x \in Pictures, n \in G!PollNumbers : G!ReadForPoll(w, x, n)
    <3>1. ASSUME NEW v \in Workers, v # w, G!Submit(v) \/ G!SubmitDies(v) \/ G!Poll(v) \/ G!PollDies(v)
          PROVE  task'[w] = task[w] /\ picture'[w] = picture[w]
      BY <3>1, OneHandMoves DEF Others
    <3>2. CASE \/ G!Submit(w) \/ G!SubmitDies(w) \/ G!Poll(w) \/ G!PollDies(w)
      BY <1>4, <3>2, SubmitLeads, PollLeads
    <3>3. CASE (\E x \in Pictures : G!Request(x)) \/ G!Sweep
      BY <1>4, <3>3, NoHandMoves
    <3> QED
      BY <1>4, <3>1, <3>2, <3>3 DEF G!Next
  <2> QED
    BY <2>2, <2>3, <2>4, <2>5
<1> QED
  BY <1>3, <1>4 DEF Begun
-----------------------------------------------------------------------------
(* One handler at a time *)

LEMMA HistoryGrows ==
  ASSUME G!Next
  PROVE  /\ overlapped \subseteq overlapped' /\ doubt \subseteq doubt'
         /\ threw \subseteq threw' /\ rewound \subseteq rewound'
<1>1. ASSUME NEW w \in Workers, G!Submit(w) \/ G!SubmitDies(w)
      PROVE  /\ overlapped \subseteq overlapped' /\ doubt \subseteq doubt'
             /\ threw \subseteq threw' /\ rewound \subseteq rewound'
  BY <1>1 DEF G!Submit, G!SubmitDies, G!ReadForSubmit, G!Take, G!Accept, G!Decline, G!NoAnswer,
              G!RecordSubmission, G!ScheduleFirstPoll, G!SubmitReturns, G!history
<1>2. ASSUME NEW w \in Workers, G!Poll(w) \/ G!PollDies(w)
      PROVE  /\ overlapped \subseteq overlapped' /\ doubt \subseteq doubt'
             /\ threw \subseteq threw' /\ rewound \subseteq rewound'
  BY <1>2 DEF G!Poll, G!PollDies, G!ReadForPoll, G!Take, G!Ask, G!StillPending, G!Settle,
              G!PollReturns, G!history
<1>3. CASE (\E g \in Pictures : G!Request(g)) \/ G!Sweep
  BY <1>3 DEF G!Request, G!Sweep, G!SweepBooksPoll, G!SweepReads, G!SweepGivesUp, G!SweepSubmits,
              G!history
<1> QED
  BY <1>1, <1>2, <1>3 DEF G!Next

\* A handler at work on a picture was so before, or has found nobody at it.
LEMMA WorkLeads ==
  ASSUME PictureTyped, NEW v \in Workers, NEW g \in Pictures,
         G!Submit(v) \/ G!SubmitDies(v) \/ G!Poll(v) \/ G!PollDies(v),
         Working(v, g)', g \notin overlapped'
  PROVE  \/ /\ Working(v, g)
            /\ task'[v] \in {"submit", "record"} => task[v] = "submit" /\ status' = status
         \/ /\ ~G!AtWork(g) /\ g \notin givenUp
            /\ task'[v] \in {"submit", "record"} => status[g] = "PENDING" /\ status' = status
<1>1. ASSUME NEW from, NEW to, Keeps(v, from, to), from \cap {"idle", "handed", "checked"} = {}
      PROVE  Working(v, g) /\ task'[v] \in to
  BY <1>1 DEF Keeps, Steps, Working, PictureTyped
<1>2. ASSUME NEW from, Drops(v, from) PROVE FALSE
  BY <1>2 DEF Drops, Steps, Working, PictureTyped
<1>3. ASSUME NEW x \in Pictures, NEW h \in G!Hours, G!ReadForSubmit(v, x, h)
      PROVE  /\ ~G!AtWork(g) /\ g \notin givenUp
             /\ task'[v] \in {"submit", "record"} => status[g] = "PENDING" /\ status' = status
  <2>1. Takes(v, x, h, {"submit", "handed"}) /\ status' = status
        /\ (task'[v] = "submit" => status[x] = "PENDING")
    BY <1>3, TakeToSubmit
  <2>2. x = g /\ task'[v] \in {"submit", "handed"}
    BY <2>1 DEF Takes, Steps, Working, PictureTyped
  <2> QED
    BY <2>1, <2>2 DEF Takes
<1>4. ASSUME NEW x \in Pictures, NEW n \in G!PollNumbers, G!ReadForPoll(v, x, n)
      PROVE  /\ ~G!AtWork(g) /\ g \notin givenUp
             /\ task'[v] \in {"submit", "record"} => status[g] = "PENDING" /\ status' = status
  <2>1. Takes(v, x, n, {"ask", "checked"})
    BY <1>4, TakeToPoll
  <2>2. x = g /\ task'[v] \in {"ask", "checked"}
    BY <2>1 DEF Takes, Steps, Working, PictureTyped
  <2> QED
    BY <2>1, <2>2 DEF Takes
<1>5. CASE G!Accept(v)
  BY <1>1, <1>5, SubmitSteps DEF G!Accept
<1>6. CASE G!Decline(v) \/ G!RecordSubmission(v) \/ G!ScheduleFirstPoll(v)
  BY <1>1, <1>6, SubmitSteps
<1>7. CASE G!StillPending(v) \/ G!Settle(v)
  BY <1>1, <1>7, PollSteps
<1>8. CASE G!Ask(v)
  BY <1>8 DEF G!Ask, G!Goto, Working, PictureTyped
<1> QED
  BY <1>2, <1>3, <1>4, <1>5, <1>6, <1>7, <1>8, SubmitSteps, PollSteps DEF G!Submit, G!Poll

LEMMA AloneKept ==
  ASSUME PictureTyped, G!Next, NEW g \in Pictures, Alone(g), g \notin overlapped'
  PROVE  Alone(g)'
<1>1. \A w \in Workers : Working(w, g) => G!AtWork(g)
  BY DEF Working, G!AtWork
<1>2. ASSUME NEW v \in Workers, G!Submit(v) \/ G!SubmitDies(v) \/ G!Poll(v) \/ G!PollDies(v)
      PROVE  Alone(g)'
  <2>1. Others(v) /\ \A w \in Workers : w # v => (Working(w, g)' <=> Working(w, g))
    BY <1>2, OneHandMoves DEF Others, Working
  <2>2. \A w \in Workers : w # v /\ Working(w, g) => ~Working(v, g)'
    BY <1>1, <1>2, WorkLeads DEF Alone
  <2>3. \A w, u \in Workers : Working(w, g)' /\ Working(u, g)' => w = u
    BY <2>1, <2>2 DEF Alone
  <2>4. \A w \in Workers : Working(w, g)' => g \notin givenUp'
    BY <1>2, <2>1, WorkLeads DEF Alone, Others
  <2>5. ASSUME NEW w \in Workers, picture'[w] = g, task'[w] \in {"submit", "record"}
        PROVE  status'[g] = "PENDING"
    <3>1. Working(w, g)'
      BY <2>5 DEF Working
    <3>2. CASE w = v
      BY <1>2, <2>5, <3>1, <3>2, WorkLeads DEF Alone, Working
    <3>3. CASE w # v
      <4>1. Working(w, g) /\ status[g] = "PENDING" /\ g \notin givenUp
        BY <2>1, <2>5, <3>1, <3>3 DEF Alone, Others
      <4>2. \A u \in Workers : Working(u, g) => u = w
        BY <4>1 DEF Alone
      <4>3. task'[w] = task[w]
        BY <2>1, <3>3 DEF Others
      <4> QED
        BY <4>1, <4>2, <4>3, StatusMoves
    <3> QED
      BY <3>2, <3>3
  <2> QED
    BY <2>3, <2>4, <2>5 DEF Alone
<1>3. CASE (\E x \in Pictures : G!Request(x)) \/ G!Sweep
  <2>1. UNCHANGED <<task, picture>> /\ \A w \in Workers : Working(w, g)' <=> Working(w, g)
    BY <1>3, NoHandMoves DEF Working
  <2>2. g \in givenUp' => g \in givenUp \/ ~G!AtWork(g)
    BY <1>3 DEF G!Request, G!Sweep, G!SweepBooksPoll, G!SweepReads, G!SweepGivesUp, G!SweepSubmits,
                G!row
  <2>3. \A w \in Workers : Working(w, g)' => g \notin givenUp'
    BY <1>1, <2>1, <2>2 DEF Alone
  <2>4. ASSUME NEW w \in Workers, picture'[w] = g, task'[w] \in {"submit", "record"}
        PROVE  status'[g] = "PENDING"
    <3>1. Working(w, g) /\ status[g] = "PENDING" /\ g \notin givenUp
      BY <2>1, <2>4 DEF Alone, Working
    <3> QED
      BY <2>1, <3>1, StatusMoves
  <2> QED
    BY <2>1, <2>3, <2>4 DEF Alone
<1> QED
  BY <1>2, <1>3 DEF G!Next
-----------------------------------------------------------------------------
(* Paid once *)

LEMMA UnpaidKept ==
  ASSUME PictureTyped, G!Next, NEW g \in Pictures, Alone(g), Unpaid(g), g \notin doubt'
  PROVE  Unpaid(g)'
<1>0. \A w \in Workers : task[w] # "idle" => picture[w] \in Pictures
  BY DEF PictureTyped
<1>1. ASSUME NEW w \in Workers, G!Accept(w) \/ G!Decline(w), picture[w] = g
      PROVE  Unpaid(g)'
  <2>1. task[w] = "submit" /\ status[g] = "PENDING"
    BY <1>1 DEF G!Accept, G!Decline, Alone
  <2>2. ~(paid[g] > 0)
    BY <1>1, <2>1 DEF Unpaid, Alone, Working, Waiting
  <2>3. paid[g] = 0
    BY <2>2 DEF PictureTyped
  <2>4. G!OnceMore(0) = 1
    BY DEF G!OnceMore
  <2>5. CASE G!Accept(w)
    <3>1. paid'[g] = 1 /\ picture'[w] = g /\ task'[w] = "record"
      BY <1>1, <2>3, <2>4, <2>5 DEF G!Accept, G!Goto, PictureTyped
    <3> QED
      BY <3>1 DEF Unpaid
  <2>6. CASE G!Decline(w)
    <3>1. paid'[g] \in {0, 1} /\ status'[g] = "FAILED"
      BY <1>1, <2>3, <2>4, <2>6 DEF G!Decline, PictureTyped
    <3> QED
      BY <3>1 DEF Unpaid, Waiting
  <2> QED
    BY <1>1, <2>5, <2>6
<1>2. ASSUME paid'[g] = paid[g] PROVE Unpaid(g)'
  <2> SUFFICES ASSUME status'[g] \in Waiting, paid[g] > 0
               PROVE  \E w \in Workers : picture'[w] = g /\ task'[w] = "record"
    BY <1>2 DEF Unpaid
  <2>1. status[g] \in Waiting
    BY StatusMoves DEF Waiting
  <2>2. PICK w \in Workers : picture[w] = g /\ task[w] = "record"
    BY <2>1 DEF Unpaid
  <2>3. ~G!RecordSubmission(w) /\ ~G!SubmitDies(w)
    <3>1. G!RecordSubmission(w) => status'[g] = "SUBMITTED"
      BY <2>2 DEF G!RecordSubmission, PictureTyped
    <3>2. G!SubmitDies(w) => g \in doubt'
      BY <2>2 DEF G!SubmitDies
    <3> QED
      BY <3>1, <3>2 DEF Waiting
  <2>4. ~(G!Submit(w) \/ G!SubmitDies(w) \/ G!Poll(w) \/ G!PollDies(w))
    BY <2>2, <2>3 DEF G!Submit, G!Poll, G!PollDies, G!ReadForSubmit, G!ReadForPoll, G!Take, G!Accept,
                      G!Decline, G!NoAnswer, G!ScheduleFirstPoll, G!SubmitReturns, G!Ask,
                      G!StillPending, G!Settle, G!PollReturns, Asked
  <2>5. task'[w] = task[w] /\ picture'[w] = picture[w]
    BY <2>4, OneHandMoves, NoHandMoves DEF G!Next, Others
  <2> QED
    BY <2>2, <2>5
<1>3. \/ paid'[g] = paid[g]
      \/ \E w \in Workers : (G!Accept(w) \/ G!Decline(w)) /\ picture[w] = g
  <2>1. ASSUME NEW w \in Workers, G!Accept(w) \/ G!Decline(w)
        PROVE  paid'[g] = paid[g] \/ picture[w] = g
    BY <2>1 DEF G!Accept, G!Decline, PictureTyped
  <2>2. ASSUME NEW w \in Workers, G!NoAnswer(w) PROVE paid'[g] = paid[g]
    BY <2>2 DEF G!NoAnswer, PictureTyped
  <2>3. ASSUME NEW w \in Workers,
               \/ \E x \in Pictures, h \in G!Hours : G!ReadForSubmit(w, x, h)
               \/ G!RecordSubmission(w) \/ G!ScheduleFirstPoll(w) \/ G!SubmitReturns(w)
               \/ G!SubmitDies(w) \/ G!Poll(w) \/ G!PollDies(w)
        PROVE  paid' = paid
    BY <2>3 DEF G!ReadForSubmit, G!RecordSubmission, G!ScheduleFirstPoll, G!SubmitReturns, G!SubmitDies,
                G!Poll, G!PollDies, G!ReadForPoll, G!Ask, G!StillPending, G!Settle, G!PollReturns,
                G!history
  <2>4. CASE (\E x \in Pictures : G!Request(x)) \/ G!Sweep
    BY <2>4 DEF G!Request, G!Sweep, G!SweepBooksPoll, G!SweepReads, G!SweepGivesUp, G!SweepSubmits,
                G!history
  <2> QED
    BY <2>1, <2>2, <2>3, <2>4 DEF G!Next, G!Submit
<1> QED
  BY <1>1, <1>2, <1>3
-----------------------------------------------------------------------------
(* The next poll *)

\* What happens to the jobs of the polls of a picture.
LEMMA ChecksMove ==
  ASSUME PictureTyped, G!Next, NEW g \in Pictures, NEW n \in G!PollNumbers,
         checks[g][n] \in {"NONE", "PENDING", "RUNNING"},
         checks'[g][n] \notin {"NONE", "PENDING", "RUNNING"}
  PROVE  \E w \in Workers :
            /\ picture[w] = g /\ key[w] = n
            /\ task[w] \in Asked \/ (task[w] = "ask" /\ g \in threw')
            /\ UNCHANGED polls
<1>0. \A w \in Workers : task[w] # "idle" => picture[w] \in Pictures
  BY DEF PictureTyped
<1>1. ASSUME NEW w \in Workers, G!PollReturns(w) \/ G!PollDies(w)
      PROVE  /\ picture[w] = g /\ key[w] = n
             /\ task[w] \in Asked \/ (task[w] = "ask" /\ g \in threw')
             /\ UNCHANGED polls
  <2>1. \E s \in {"DONE", "DEAD", "PENDING"} : checks' = [checks EXCEPT ![picture[w]][key[w]] = s]
    BY <1>1 DEF G!PollReturns, G!PollDies
  <2>2. picture[w] = g /\ key[w] = n
    BY <2>1 DEF PictureTyped
  <2>3. CASE G!PollReturns(w)
    BY <2>2, <2>3 DEF G!PollReturns, Asked, G!row
  <2>4. CASE G!PollDies(w)
    <3>1. ~(checks' = [checks EXCEPT ![picture[w]][key[w]] = "PENDING"])
      BY <2>2 DEF PictureTyped
    <3> QED
      BY <2>2, <2>4, <3>1 DEF G!PollDies, Asked, G!row
  <2> QED
    BY <1>1, <2>3, <2>4
<1>2. \A x : G!Scheduled(x) = x \/ G!Scheduled(x) = "PENDING"
  BY DEF G!Scheduled
<1>3. ASSUME NEW w \in Workers, G!ScheduleFirstPoll(w) \/ G!StillPending(w) PROVE FALSE
  <2>1. \E x \in Pictures, k \in Nat : checks' = [checks EXCEPT ![x][k] = G!Scheduled(@)] \/ checks' = checks
    <3>1. picture[w] \in Pictures /\ key[w] + 1 \in Nat /\ 0 \in Nat
      BY <1>3 DEF G!ScheduleFirstPoll, G!StillPending, PictureTyped, PictureSteps, Asked
    <3> QED
      BY <1>3, <3>1 DEF G!ScheduleFirstPoll, G!StillPending
  <2> QED
    BY <1>2, <2>1 DEF PictureTyped
<1>4. ASSUME NEW w \in Workers, NEW x \in Pictures, NEW k \in G!PollNumbers, G!ReadForPoll(w, x, k)
      PROVE  FALSE
  <2>1. checks' = [checks EXCEPT ![x][k] = "RUNNING"]
    BY <1>4, TakeToPoll
  <2> QED
    BY <2>1 DEF PictureTyped
<1>5. ASSUME NEW x \in Pictures, G!SweepBooksPoll(x) PROVE FALSE
  BY <1>2, <1>5 DEF G!SweepBooksPoll, PictureTyped
<1>6. ASSUME NEW w \in Workers,
             \/ \E x \in Pictures, h \in G!Hours : G!ReadForSubmit(w, x, h)
             \/ G!Accept(w) \/ G!Decline(w) \/ G!NoAnswer(w) \/ G!RecordSubmission(w)
             \/ G!SubmitReturns(w) \/ G!SubmitDies(w) \/ G!Ask(w) \/ G!Settle(w)
      PROVE  FALSE
  BY <1>6 DEF G!ReadForSubmit, G!Accept, G!Decline, G!NoAnswer, G!RecordSubmission, G!SubmitReturns,
              G!SubmitDies, G!Ask, G!Settle, G!jobs
<1>7. ASSUME NEW x \in Pictures,
             \/ G!Request(x) \/ G!SweepReads(x) \/ G!SweepGivesUp(x)
             \/ \E h \in G!Hours : G!SweepSubmits(x, h)
      PROVE  FALSE
  BY <1>7 DEF G!Request, G!SweepReads, G!SweepGivesUp, G!SweepSubmits, G!jobs
<1> QED
  BY <1>1, <1>3, <1>4, <1>5, <1>6, <1>7 DEF G!Next, G!Submit, G!Poll, G!Sweep

\* The count of the polls moves when one is asked.
LEMMA PollsMove ==
  ASSUME PictureTyped, G!Next, NEW g \in Pictures, g \notin rewound'
  PROVE  /\ polls'[g] >= polls[g]
         /\ polls'[g] # polls[g] => status'[g] = status[g]
<1>1. ASSUME NEW w \in Workers, G!Ask(w) PROVE polls'[g] >= polls[g] /\ status'[g] = status[g]
  BY <1>1 DEF G!Ask, PictureTyped
<1>2. (\E w \in Workers : G!Ask(w)) \/ polls' = polls
  <2>1. ASSUME NEW w \in Workers, G!Submit(w) \/ G!SubmitDies(w) \/ G!PollDies(w)
        PROVE  polls' = polls
    BY <2>1 DEF G!Submit, G!SubmitDies, G!PollDies, G!ReadForSubmit, G!Accept, G!Decline, G!NoAnswer,
                G!RecordSubmission, G!ScheduleFirstPoll, G!SubmitReturns, G!row
  <2>2. ASSUME NEW w \in Workers, G!Poll(w) PROVE G!Ask(w) \/ polls' = polls
    BY <2>2 DEF G!Poll, G!ReadForPoll, G!StillPending, G!Settle, G!PollReturns, G!row
  <2>3. CASE (\E x \in Pictures : G!Request(x)) \/ G!Sweep
    BY <2>3 DEF G!Request, G!Sweep, G!SweepBooksPoll, G!SweepReads, G!SweepGivesUp, G!SweepSubmits, G!row
  <2> QED
    BY <2>1, <2>2, <2>3 DEF G!Next
<1> QED
  BY <1>1, <1>2 DEF PictureTyped

\* Where a handler that has an answer comes from.
LEMMA AnswerLeads ==
  ASSUME PictureTyped, G!Next, NEW w \in Workers, task'[w] \in Asked, status[picture'[w]] = "SUBMITTED"
  PROVE  \/ task[w] \in Asked /\ picture'[w] = picture[w] /\ key'[w] = key[w]
         \/ G!Ask(w)
<1>1. ASSUME NEW v \in Workers, v # w, G!Submit(v) \/ G!SubmitDies(v) \/ G!Poll(v) \/ G!PollDies(v)
      PROVE  task[w] \in Asked /\ picture'[w] = picture[w] /\ key'[w] = key[w]
  BY <1>1, OneHandMoves DEF Others
<1>2. CASE (\E x \in Pictures : G!Request(x)) \/ G!Sweep
  BY <1>2, NoHandMoves
<1>3. CASE G!Submit(w) \/ G!SubmitDies(w)
  <2>1. G!RecordSubmission(w)
    BY <1>3, SubmitLeads
  <2> QED
    BY <2>1 DEF G!RecordSubmission, G!Goto, PictureTyped, Asked
<1>4. CASE G!StillPending(w) \/ G!Settle(w)
  BY <1>4 DEF G!StillPending, G!Settle, Asked
<1>5. ASSUME NEW from, Drops(w, from) PROVE FALSE
  BY <1>5 DEF Drops, Steps, PictureTyped, Asked
<1>6. ASSUME NEW x \in Pictures, NEW n \in G!PollNumbers, G!ReadForPoll(w, x, n) PROVE FALSE
  <2>1. Takes(w, x, n, {"ask", "checked"}) /\ (task'[w] = "ask" <=> status[x] = "SUBMITTED")
    BY <1>6, TakeToPoll
  <2>2. picture'[w] = x
    BY <2>1 DEF Takes, PictureTyped
  <2>3. task'[w] = "ask"
    BY <2>1, <2>2
  <2> QED
    BY <2>3 DEF Asked
<1> QED
  BY <1>1, <1>2, <1>3, <1>4, <1>5, <1>6, PollSteps DEF G!Next, G!Poll

LEMMA NextPollKept ==
  ASSUME PictureTyped, Begun, G!Next, NEW g \in Pictures, Alone(g), NextPollOpen(g),
         PictureTyped', g \notin threw', g \notin rewound'
  PROVE  NextPollOpen(g)'
<1> DEFINE Open == {"NONE", "PENDING", "RUNNING"}
<1> SUFFICES ASSUME status'[g] = "SUBMITTED"
             PROVE  /\ \A n \in G!PollNumbers : n >= polls'[g] => checks'[g][n] \in Open
                    /\ \A w \in Workers : picture'[w] = g /\ task'[w] \in Asked => key'[w] < polls'[g]
  BY DEF NextPollOpen
<1>1. CASE status[g] # "SUBMITTED"
  <2>1. PICK w \in Workers : Working(w, g) /\ task[w] = "record" /\ task'[w] = "schedule"
    BY <1>1, StatusMoves
  <2>2. status[g] \in Waiting
    BY <2>1 DEF Working, Alone, Waiting
  <2>3. \A v \in Workers : picture[v] = g => task[v] \notin {"ask"} \cup Asked
    BY <2>2 DEF Begun
  <2>4. ASSUME NEW n \in G!PollNumbers PROVE checks'[g][n] \in Open
    <3>1. checks[g][n] = "NONE"
      BY <2>2 DEF Begun
    <3> QED
      BY <2>3, <3>1, ChecksMove
  <2>5. Others(w)
    <3>1. ASSUME NEW v \in Workers, v # w, G!Submit(v) \/ G!SubmitDies(v) \/ G!Poll(v) \/ G!PollDies(v)
          PROVE  FALSE
      BY <2>1, <3>1, OneHandMoves DEF Others
    <3>2. ~((\E x \in Pictures : G!Request(x)) \/ G!Sweep)
      BY <2>1, NoHandMoves
    <3> QED
      BY <3>1, <3>2, OneHandMoves DEF G!Next
  <2>6. \A v \in Workers : picture'[v] = g => task'[v] \notin Asked
    BY <2>1, <2>3, <2>5 DEF Others, Asked
  <2> QED
    BY <2>4, <2>6
<1>2. CASE status[g] = "SUBMITTED"
  <2>1. polls'[g] >= polls[g] /\ polls[g] \in Nat /\ polls'[g] \in Nat
    BY PollsMove DEF PictureTyped
  <2>2. ASSUME NEW n \in G!PollNumbers, n >= polls'[g] PROVE checks'[g][n] \in Open
    <3>1. n \in Nat
      BY BoundsAssumption DEF G!PollNumbers
    <3>2. n >= polls[g] /\ ~(n < polls[g])
      BY <2>1, <2>2, <3>1
    <3>3. checks[g][n] \in Open
      BY <1>2, <3>2 DEF NextPollOpen
    <3>4. \A w \in Workers : picture[w] = g /\ task[w] \in Asked => key[w] # n
      BY <1>2, <3>2 DEF NextPollOpen
    <3> QED
      BY <3>3, <3>4, ChecksMove
  <2>3. ASSUME NEW w \in Workers, picture'[w] = g, task'[w] \in Asked PROVE key'[w] < polls'[g]
    <3>1. CASE task[w] \in Asked /\ picture'[w] = picture[w] /\ key'[w] = key[w]
      <4>1. key[w] < polls[g] /\ key[w] \in Nat
        BY <1>2, <2>3, <3>1 DEF NextPollOpen, PictureTyped
      <4> QED
        BY <2>1, <3>1, <4>1
    <3>2. CASE G!Ask(w)
      <4>1. picture[w] = g /\ key'[w] = key[w] /\ key[w] \in Nat
        BY <2>3, <3>2 DEF G!Ask, PictureTyped
      <4>2. polls'[g] = key[w] + 1
        BY <3>2, <4>1 DEF G!Ask, PictureTyped
      <4> QED
        BY <4>1, <4>2
    <3> QED
      BY <1>2, <2>3, <3>1, <3>2, AnswerLeads
  <2> QED
    BY <2>2, <2>3
<1> QED
  BY <1>1, <1>2

LEMMA PictureNext == PictureInv /\ [G!Next]_G!vars => PictureInv'
<1> SUFFICES ASSUME PictureInv, [G!Next]_G!vars PROVE PictureInv'
  OBVIOUS
<1>1. CASE UNCHANGED G!vars
  BY <1>1 DEF G!vars, G!row, G!jobs, G!worker, G!history, PictureInv, PictureTyped, Begun, Alone, Unpaid,
              NextPollOpen, Working
<1>2. CASE G!Next
  <2>1. PictureTyped' /\ Begun'
    BY <1>2, PictureTypedKept, BegunKept DEF PictureInv
  <2>2. /\ overlapped \subseteq overlapped' /\ doubt \subseteq doubt'
        /\ threw \subseteq threw' /\ rewound \subseteq rewound'
    BY <1>2, HistoryGrows
  <2>3. \A g \in Pictures \ overlapped' : Alone(g) /\ Alone(g)'
    BY <1>2, <2>2, AloneKept DEF PictureInv
  <2>4. ASSUME NEW g \in Pictures \ (doubt' \cup overlapped') PROVE Unpaid(g)'
    <3>1. Unpaid(g) /\ Alone(g)
      BY <2>2, <2>3 DEF PictureInv
    <3> QED
      BY <1>2, <3>1, UnpaidKept DEF PictureInv
  <2>5. ASSUME NEW g \in Pictures \ (threw' \cup rewound' \cup overlapped') PROVE NextPollOpen(g)'
    <3>1. NextPollOpen(g) /\ Alone(g)
      BY <2>2, <2>3 DEF PictureInv
    <3> QED
      BY <1>2, <2>1, <3>1, NextPollKept DEF PictureInv
  <2> QED
    BY <2>1, <2>3, <2>4, <2>5 DEF PictureInv
<1> QED
  BY <1>1, <1>2

LEMMA PaidOnceHolds == PictureInv => PaidOnce
<1> SUFFICES ASSUME PictureInv, NEW g \in Pictures, paid[g] > 1, g \notin doubt \cup overlapped
             PROVE  FALSE
  BY DEF PaidOnce, G!PaidOnce
<1>1. paid[g] <= 1 /\ paid[g] \in 0 .. 2
  BY DEF PictureInv, Unpaid, PictureTyped
<1> QED
  BY <1>1

LEMMA NotStrandedHolds == PictureInv => NoPictureIsStranded
<1> SUFFICES ASSUME PictureInv, NEW g \in Pictures, status[g] = "SUBMITTED",
                    g \notin threw \cup rewound \cup overlapped, ~(polls[g] >= MaxPolls),
                    checks[g][polls[g]] # "NONE"
             PROVE  \E n \in G!PollNumbers : checks[g][n] \in {"PENDING", "RUNNING"}
  BY DEF NoPictureIsStranded, G!NoPictureIsStranded
<1>1. NextPollOpen(g)
  BY DEF PictureInv
<1>2. polls[g] \in Nat
  BY DEF PictureInv, PictureTyped
<1>3. polls[g] \in G!PollNumbers /\ polls[g] >= polls[g]
  BY <1>2, BoundsAssumption DEF G!PollNumbers
<1>4. checks[g][polls[g]] \in {"NONE", "PENDING", "RUNNING"}
  BY <1>1, <1>3 DEF NextPollOpen
<1> QED
  BY <1>3, <1>4
-----------------------------------------------------------------------------
(* The day's pictures *)

DayTyped ==
    /\ limit \in Nat /\ peak \in Nat
    /\ kind \in [DayPictures -> D!Kinds]
    /\ state \in [DayPictures -> {"NONE", "PENDING", "SUBMITTED"} \cup G!Finished]
    /\ api \in [Callers -> {"idle", "library", "create"}]
    /\ wanted \in [Callers -> D!Kinds]
    /\ used \in [Callers -> Nat]

LookBook == {"CATALOG_REFERENCE"}

Asking == {c \in Callers : api[c] # "idle"}

Pending(kinds) == {g \in DayPictures : state[g] = "PENDING" /\ kind[g] \in kinds}

Drawn(kinds) == {g \in DayPictures : state[g] \notin {"NONE", "PENDING"} /\ kind[g] \in kinds}

\* The requests that will have their picture, and those for the look-book among them.
Admitted == {c \in Callers : api[c] = "create" \/ (api[c] = "library" /\ used[c] < limit)}

AdmittedToBook == {c \in Callers : api[c] = "create" /\ wanted[c] \in LookBook}

Crowd == IF peak > 0 THEN peak ELSE 1

\* What is drawn, and what is bound to be, stays within the cap and the crowd.
DayInv ==
    /\ DayTyped
    /\ Cardinality(Asking) + Cardinality(Pending(D!Kinds)) <= peak
    /\ limit # 0 =>
        /\ Cardinality(Drawn(D!Kinds)) + Cardinality(Pending(D!Kinds)) + Cardinality(Admitted)
              < limit + Crowd
        /\ Cardinality(Drawn(LookBook)) + Cardinality(Pending(LookBook)) + Cardinality(AdmittedToBook)
              < D!libraryAllowance + Crowd

LEMMA OneMore ==
  ASSUME NEW A, NEW B, NEW x, IsFiniteSet(A), x \notin A, B = A \cup {x}
  PROVE  Cardinality(B) = Cardinality(A) + 1
BY FS_AddElement

LEMMA OneLess ==
  ASSUME NEW A, NEW B, NEW x, IsFiniteSet(A), x \in A, B = A \ {x}
  PROVE  Cardinality(B) = Cardinality(A) - 1
BY FS_RemoveElement

LEMMA DaySizes ==
  ASSUME NEW kinds
  PROVE  /\ \A S : S \subseteq DayPictures \/ S \subseteq Callers =>
                      IsFiniteSet(S) /\ Cardinality(S) \in Nat
         /\ \A S, T : S \subseteq T /\ (T \subseteq DayPictures \/ T \subseteq Callers) =>
                         Cardinality(S) <= Cardinality(T)
         /\ Asking \subseteq Callers /\ Admitted \subseteq Asking /\ AdmittedToBook \subseteq Asking
         /\ Pending(kinds) \subseteq DayPictures /\ Drawn(kinds) \subseteq DayPictures
         /\ Pending(LookBook) \subseteq Pending(D!Kinds)
<1>1. ASSUME NEW S, S \subseteq DayPictures \/ S \subseteq Callers PROVE IsFiniteSet(S)
  BY <1>1, FS_Subset, DayAssumption
<1>2. ASSUME NEW S, NEW T, S \subseteq T, T \subseteq DayPictures \/ T \subseteq Callers
      PROVE  Cardinality(S) <= Cardinality(T)
  <2>1. IsFiniteSet(T)
    BY <1>1, <1>2
  <2> QED
    BY <1>2, <2>1, FS_Subset
<1>3. \A S : IsFiniteSet(S) => Cardinality(S) \in Nat
  BY FS_CardinalityType
<1>4. Asking \subseteq Callers /\ Admitted \subseteq Asking /\ AdmittedToBook \subseteq Asking
  BY DEF Asking, Admitted, AdmittedToBook
<1>5. /\ Pending(kinds) \subseteq DayPictures /\ Drawn(kinds) \subseteq DayPictures
      /\ Pending(LookBook) \subseteq Pending(D!Kinds)
  BY DEF Pending, Drawn, LookBook, D!Kinds
<1> QED
  BY <1>1, <1>2, <1>3, <1>4, <1>5

LEMMA DayNumbers ==
  ASSUME DayTyped
  PROVE  /\ D!libraryAllowance \in Nat /\ Crowd \in Nat /\ Crowd >= peak /\ Crowd >= 1
         /\ D!Counted(D!Kinds) = Cardinality(Drawn(D!Kinds))
         /\ D!Counted(LookBook) = Cardinality(Drawn(LookBook))
         /\ D!OnTheirWay = Cardinality(Asking) + Cardinality(Pending(D!Kinds))
<1>1. D!libraryAllowance \in Nat /\ Crowd \in Nat /\ Crowd >= peak /\ Crowd >= 1
  BY DEF DayTyped, D!libraryAllowance, Crowd
<1>2. {g \in DayPictures : state[g] = "PENDING"} = Pending(D!Kinds)
  BY DEF DayTyped, Pending
<1>3. D!OnTheirWay = Cardinality(Asking) + Cardinality(Pending(D!Kinds))
  BY <1>2 DEF D!OnTheirWay, Asking, D!Cardinality, Cardinality
<1>4. \A kinds : D!Counted(kinds) = Cardinality(Drawn(kinds))
  BY DEF D!Counted, Drawn, D!Cardinality, Cardinality
<1> QED
  BY <1>1, <1>3, <1>4

LEMMA DayInit == D!Init => DayInv
<1> SUFFICES ASSUME D!Init PROVE DayInv
  OBVIOUS
<1>1. DayTyped /\ peak = 0
  BY BoundsAssumption DEF D!Init, DayTyped, D!Kinds
<1>2. /\ Asking = {} /\ Pending(D!Kinds) = {} /\ Pending(LookBook) = {} /\ Admitted = {}
      /\ AdmittedToBook = {} /\ Drawn(D!Kinds) = {} /\ Drawn(LookBook) = {}
  BY DEF D!Init, Asking, Pending, Admitted, AdmittedToBook, Drawn
<1>3. Cardinality({}) = 0
  BY FS_EmptySet
<1>4. D!libraryAllowance \in Nat /\ Crowd \in Nat /\ Crowd >= 1
  BY <1>1, DayNumbers
<1>5. limit \in Nat
  BY <1>1 DEF DayTyped
<1>6. Cardinality(Asking) + Cardinality(Pending(D!Kinds)) <= peak
  BY <1>1, <1>2, <1>3
<1> QED
  BY <1>1, <1>2, <1>3, <1>4, <1>5, <1>6 DEF DayInv

\* The caller counts, and is admitted if there was room.
LEMMA DayCounts ==
  ASSUME DayInv, NEW c \in Callers, NEW k \in D!Kinds, D!CountUsed(c, k)
  PROVE  DayInv'
<1> USE DaySizes
<1>1. /\ api[c] = "idle" /\ api' = [api EXCEPT ![c] = "library"] /\ wanted' = [wanted EXCEPT ![c] = k]
      /\ used' = [used EXCEPT ![c] = Cardinality(Drawn(D!Kinds))]
      /\ UNCHANGED <<limit, kind, state>>
  BY DayNumbers DEF D!CountUsed, DayInv
<1>2. Cardinality(Asking') = Cardinality(Asking) + 1
  <2>1. c \notin Asking /\ Asking' = Asking \cup {c}
    BY <1>1 DEF Asking, DayInv, DayTyped
  <2> QED
    BY <2>1, OneMore
<1>3. /\ \A kinds : Pending(kinds)' = Pending(kinds) /\ Drawn(kinds)' = Drawn(kinds)
      /\ D!libraryAllowance' = D!libraryAllowance /\ AdmittedToBook' = AdmittedToBook
  BY <1>1 DEF Pending, Drawn, D!libraryAllowance, AdmittedToBook, DayInv, DayTyped
<1>4. peak' \in Nat /\ peak' >= peak /\ peak' >= Cardinality(Asking') + Cardinality(Pending(D!Kinds))
  <2>1. D!OnTheirWay = Cardinality(Asking) + Cardinality(Pending(D!Kinds))
    BY DayNumbers DEF DayInv
  <2>2. peak' = IF D!OnTheirWay + 1 > peak THEN D!OnTheirWay + 1 ELSE peak
    BY DEF D!CountUsed
  <2>3. peak \in Nat /\ Cardinality(Asking) \in Nat /\ Cardinality(Pending(D!Kinds)) \in Nat
    BY DEF DayInv, DayTyped
  <2> QED
    BY <1>2, <2>1, <2>2, <2>3
<1>5. DayTyped'
  <2>1. Cardinality(Drawn(D!Kinds)) \in Nat
    OBVIOUS
  <2> QED
    BY <1>1, <1>4, <2>1 DEF DayInv, DayTyped
<1>6. Crowd \in Nat /\ Crowd' \in Nat /\ Crowd' >= Crowd /\ Crowd' >= peak'
  BY <1>4 DEF Crowd, DayInv, DayTyped
<1> DEFINE drawn == Cardinality(Drawn(D!Kinds))
           pending == Cardinality(Pending(D!Kinds))
<1>7. ASSUME limit' # 0
      PROVE  drawn + pending + Cardinality(Admitted') < limit + Crowd'
  <2>1. limit \in Nat /\ drawn \in Nat /\ pending \in Nat /\ Cardinality(Admitted) \in Nat
        /\ Cardinality(Asking) \in Nat
    BY DEF DayInv, DayTyped
  <2>2. CASE drawn < limit
    <3>1. Admitted' \subseteq Asking' /\ Asking' \subseteq Callers
      BY DEF Admitted, Asking
    <3>2. Cardinality(Admitted') <= Cardinality(Asking') /\ Cardinality(Admitted') \in Nat
      BY <3>1
    <3> QED
      BY <1>2, <1>4, <1>6, <2>1, <2>2, <3>2
  <2>3. CASE ~(drawn < limit)
    <3>1. Admitted' = Admitted
      BY <1>1, <2>3 DEF Admitted, DayInv, DayTyped
    <3>2. drawn + pending + Cardinality(Admitted) < limit + Crowd
      BY <1>1, <1>7 DEF DayInv
    <3> QED
      BY <1>6, <2>1, <3>1, <3>2
  <2> QED
    BY <2>2, <2>3
<1>8. ASSUME limit' # 0
      PROVE  Cardinality(Drawn(LookBook)) + Cardinality(Pending(LookBook)) + Cardinality(AdmittedToBook)
                < D!libraryAllowance + Crowd'
  <2>1. Cardinality(Drawn(LookBook)) + Cardinality(Pending(LookBook)) + Cardinality(AdmittedToBook)
          < D!libraryAllowance + Crowd
    BY <1>1, <1>8 DEF DayInv
  <2>2. /\ Cardinality(Drawn(LookBook)) \in Nat /\ Cardinality(Pending(LookBook)) \in Nat
        /\ Cardinality(AdmittedToBook) \in Nat
    OBVIOUS
  <2>3. D!libraryAllowance \in Nat
    BY DayNumbers DEF DayInv
  <2> QED
    BY <1>6, <2>1, <2>2, <2>3
<1> QED
  BY <1>1, <1>3, <1>4, <1>5, <1>7, <1>8 DEF DayInv

\* The caller is let in or refused.
LEMMA DayDecides ==
  ASSUME DayInv, NEW c \in Callers, D!AssertUnderDailyCap(c)
  PROVE  DayInv'
<1> USE DaySizes
<1>1. /\ api[c] = "library" /\ used' = [used EXCEPT ![c] = 0]
      /\ UNCHANGED <<limit, kind, state, wanted, peak>>
      /\ \/ api' = [api EXCEPT ![c] = "idle"]
         \/ /\ api' = [api EXCEPT ![c] = "create"]
            /\ limit # 0 => used[c] < limit
            /\ limit # 0 /\ wanted[c] \in LookBook =>
                  Cardinality(Drawn(LookBook)) < D!libraryAllowance
  BY DayNumbers DEF D!AssertUnderDailyCap, DayInv, LookBook
<1>2. DayTyped'
  BY <1>1 DEF DayInv, DayTyped
<1>3. /\ \A kinds : Pending(kinds)' = Pending(kinds) /\ Drawn(kinds)' = Drawn(kinds)
      /\ D!libraryAllowance' = D!libraryAllowance /\ Crowd' = Crowd
  BY <1>1 DEF Pending, Drawn, D!libraryAllowance, Crowd
<1>4. /\ limit \in Nat /\ peak \in Nat /\ D!libraryAllowance \in Nat /\ Crowd \in Nat /\ Crowd >= peak
      /\ Cardinality(Drawn(D!Kinds)) \in Nat /\ Cardinality(Pending(D!Kinds)) \in Nat
      /\ Cardinality(Drawn(LookBook)) \in Nat /\ Cardinality(Pending(LookBook)) \in Nat
      /\ Cardinality(Asking) \in Nat /\ Cardinality(Admitted) \in Nat
      /\ Cardinality(AdmittedToBook) \in Nat
      /\ Cardinality(Pending(LookBook)) <= Cardinality(Pending(D!Kinds))
  BY DayNumbers DEF DayInv, DayTyped
<1>5. Cardinality(Asking') <= Cardinality(Asking) /\ Cardinality(Asking') \in Nat
  <2>1. Asking' \subseteq Asking
    BY <1>1 DEF Asking, DayInv, DayTyped
  <2> QED
    BY <2>1
<1>6. limit # 0 => Cardinality(Admitted') <= Cardinality(Admitted) /\ Cardinality(Admitted') \in Nat
  <2>1. limit # 0 => Admitted' \subseteq Admitted
    BY <1>1 DEF Admitted, DayInv, DayTyped
  <2> QED
    BY <2>1
<1>7. AdmittedToBook' \subseteq Asking' /\ Asking' \subseteq Callers
  BY DEF AdmittedToBook, Asking
<1>8. ASSUME limit # 0
      PROVE  Cardinality(Drawn(LookBook)) + Cardinality(Pending(LookBook)) + Cardinality(AdmittedToBook')
                < D!libraryAllowance + Crowd
  <2>1. CASE Cardinality(Drawn(LookBook)) < D!libraryAllowance
    <3>1. Cardinality(AdmittedToBook') <= Cardinality(Asking') /\ Cardinality(AdmittedToBook') \in Nat
      BY <1>7
    <3>2. Cardinality(Asking) + Cardinality(Pending(D!Kinds)) <= peak
      BY DEF DayInv
    <3> QED
      BY <1>4, <1>5, <2>1, <3>1, <3>2
  <2>2. CASE ~(Cardinality(Drawn(LookBook)) < D!libraryAllowance)
    <3>1. AdmittedToBook' \subseteq AdmittedToBook
      BY <1>1, <1>8, <2>2 DEF AdmittedToBook, DayInv, DayTyped
    <3>2. Cardinality(AdmittedToBook') <= Cardinality(AdmittedToBook)
          /\ Cardinality(AdmittedToBook') \in Nat
      BY <3>1
    <3>3. Cardinality(Drawn(LookBook)) + Cardinality(Pending(LookBook)) + Cardinality(AdmittedToBook)
            < D!libraryAllowance + Crowd
      BY <1>8 DEF DayInv
    <3> QED
      BY <1>4, <3>2, <3>3
  <2> QED
    BY <2>1, <2>2
<1>9. ASSUME limit # 0
      PROVE  Cardinality(Drawn(D!Kinds)) + Cardinality(Pending(D!Kinds)) + Cardinality(Admitted')
                < limit + Crowd
  <2>1. Cardinality(Drawn(D!Kinds)) + Cardinality(Pending(D!Kinds)) + Cardinality(Admitted)
          < limit + Crowd
    BY <1>9 DEF DayInv
  <2> QED
    BY <1>4, <1>6, <1>9, <2>1
<1>10. Cardinality(Asking') + Cardinality(Pending(D!Kinds)) <= peak
  BY <1>4, <1>5 DEF DayInv
<1> QED
  BY <1>1, <1>2, <1>3, <1>8, <1>9, <1>10 DEF DayInv

\* The row: whoever was admitted leaves a picture behind.
LEMMA DayCreates ==
  ASSUME DayInv, NEW c \in Callers, D!CreateRow(c)
  PROVE  DayInv'
<1> USE DaySizes
<1>1. PICK g \in DayPictures :
         /\ state[g] = "NONE" /\ state' = [state EXCEPT ![g] = "PENDING"]
         /\ kind' = [kind EXCEPT ![g] = wanted[c]]
  BY DEF D!CreateRow
<1>2. /\ api[c] = "create" /\ api' = [api EXCEPT ![c] = "idle"]
      /\ wanted' = [wanted EXCEPT ![c] = "CUSTOMER_PREVIEW"]
      /\ UNCHANGED <<limit, used, peak>>
  BY DEF D!CreateRow
<1>3. DayTyped'
  BY <1>1, <1>2 DEF DayInv, DayTyped, D!Kinds
<1>4. /\ \A kinds : Drawn(kinds)' = Drawn(kinds)
      /\ D!libraryAllowance' = D!libraryAllowance /\ Crowd' = Crowd
  BY <1>1, <1>2 DEF Drawn, D!libraryAllowance, Crowd, DayInv, DayTyped
<1>5. \A kinds : IF wanted[c] \in kinds
                 THEN g \notin Pending(kinds) /\ Pending(kinds)' = Pending(kinds) \cup {g}
                 ELSE Pending(kinds)' = Pending(kinds)
  BY <1>1 DEF Pending, DayInv, DayTyped
<1>6. \A kinds : IsFiniteSet(Pending(kinds)) /\ Cardinality(Pending(kinds)) \in Nat
  BY DEF Pending
<1>7. \A kinds : Cardinality(Pending(kinds)') =
                    IF wanted[c] \in kinds THEN Cardinality(Pending(kinds)) + 1
                                           ELSE Cardinality(Pending(kinds))
  BY <1>5, <1>6, OneMore
<1>8. Cardinality(Asking') = Cardinality(Asking) - 1 /\ Cardinality(Asking) \in Nat
  <2>1. c \in Asking /\ Asking' = Asking \ {c}
    BY <1>2 DEF Asking, DayInv, DayTyped
  <2> QED
    BY <2>1, OneLess
<1>9. Cardinality(Admitted') = Cardinality(Admitted) - 1 /\ Cardinality(Admitted) \in Nat
  <2>1. c \in Admitted /\ Admitted' = Admitted \ {c}
    BY <1>2 DEF Admitted, DayInv, DayTyped
  <2> QED
    BY <2>1, OneLess
<1>10. /\ Cardinality(AdmittedToBook') =
             IF wanted[c] \in LookBook THEN Cardinality(AdmittedToBook) - 1
                                       ELSE Cardinality(AdmittedToBook)
       /\ Cardinality(AdmittedToBook) \in Nat
  <2>1. CASE wanted[c] \in LookBook
    <3>1. c \in AdmittedToBook /\ AdmittedToBook' = AdmittedToBook \ {c}
      BY <1>2, <2>1 DEF AdmittedToBook, DayInv, DayTyped, LookBook
    <3> QED
      BY <2>1, <3>1, OneLess
  <2>2. CASE wanted[c] \notin LookBook
    <3>1. AdmittedToBook' = AdmittedToBook
      BY <1>2, <2>2 DEF AdmittedToBook, DayInv, DayTyped, LookBook
    <3> QED
      BY <2>2, <3>1
  <2> QED
    BY <2>1, <2>2
<1>11. wanted[c] \in D!Kinds
  BY DEF DayInv, DayTyped
<1>12. /\ Cardinality(Drawn(D!Kinds)) \in Nat /\ Cardinality(Drawn(LookBook)) \in Nat
       /\ limit \in Nat /\ D!libraryAllowance \in Nat /\ Crowd \in Nat /\ peak \in Nat
  BY DayNumbers DEF DayInv, DayTyped
<1>13. Cardinality(Asking') + Cardinality(Pending(D!Kinds)') <= peak
  <2>1. Cardinality(Asking) + Cardinality(Pending(D!Kinds)) <= peak
    BY DEF DayInv
  <2> QED
    BY <1>6, <1>7, <1>8, <1>11, <1>12, <2>1
<1>14. ASSUME limit # 0
       PROVE  Cardinality(Drawn(D!Kinds)) + Cardinality(Pending(D!Kinds)') + Cardinality(Admitted')
                 < limit + Crowd
  <2>1. Cardinality(Drawn(D!Kinds)) + Cardinality(Pending(D!Kinds)) + Cardinality(Admitted)
          < limit + Crowd
    BY <1>14 DEF DayInv
  <2> QED
    BY <1>6, <1>7, <1>9, <1>11, <1>12, <2>1
<1>15. ASSUME limit # 0
       PROVE  Cardinality(Drawn(LookBook)) + Cardinality(Pending(LookBook)') + Cardinality(AdmittedToBook')
                 < D!libraryAllowance + Crowd
  <2>1. Cardinality(Drawn(LookBook)) + Cardinality(Pending(LookBook)) + Cardinality(AdmittedToBook)
          < D!libraryAllowance + Crowd
    BY <1>15 DEF DayInv
  <2>2. Cardinality(Pending(LookBook)') + Cardinality(AdmittedToBook')
          = Cardinality(Pending(LookBook)) + Cardinality(AdmittedToBook)
    BY <1>6, <1>7, <1>10
  <2>3. Cardinality(Pending(LookBook)') \in Nat /\ Cardinality(AdmittedToBook') \in Nat
    <3>1. Pending(LookBook)' \subseteq DayPictures /\ AdmittedToBook' \subseteq Callers
      BY DEF Pending, AdmittedToBook
    <3> QED
      BY <3>1
  <2> QED
    BY <1>6, <1>10, <1>12, <2>1, <2>2, <2>3
<1> QED
  BY <1>2, <1>3, <1>4, <1>13, <1>14, <1>15 DEF DayInv

\* A picture leaves PENDING and counts from then on, or it counted already.
LEMMA DayDraws ==
  ASSUME DayInv, NEW g \in DayPictures, D!Submit(g) \/ D!Finish(g)
  PROVE  DayInv'
<1> USE DaySizes
<1>1. UNCHANGED <<limit, kind, api, wanted, used, peak>>
  BY DEF D!Submit, D!Finish
<1>2. PICK s \in {"SUBMITTED"} \cup G!Finished :
         state' = [state EXCEPT ![g] = s] /\ state[g] \in {"PENDING", "SUBMITTED"}
  BY DEF D!Submit, D!Finish, G!Finished
<1>3. DayTyped' /\ s \notin {"NONE", "PENDING"}
  BY <1>1, <1>2 DEF DayInv, DayTyped, G!Finished
<1>4. /\ Asking' = Asking /\ Admitted' = Admitted /\ AdmittedToBook' = AdmittedToBook
      /\ D!libraryAllowance' = D!libraryAllowance /\ Crowd' = Crowd
  BY <1>1 DEF Asking, Admitted, AdmittedToBook, D!libraryAllowance, Crowd
<1>5. /\ limit \in Nat /\ D!libraryAllowance \in Nat /\ Crowd \in Nat /\ peak \in Nat
      /\ Cardinality(Asking) \in Nat /\ Cardinality(Admitted) \in Nat
      /\ Cardinality(AdmittedToBook) \in Nat
  BY DayNumbers DEF DayInv, DayTyped
<1>6. ASSUME NEW kinds
      PROVE  /\ Cardinality(Pending(kinds)') <= Cardinality(Pending(kinds))
             /\ Cardinality(Drawn(kinds)') + Cardinality(Pending(kinds)')
                  = Cardinality(Drawn(kinds)) + Cardinality(Pending(kinds))
             /\ Cardinality(Pending(kinds)') \in Nat /\ Cardinality(Drawn(kinds)') \in Nat
             /\ Cardinality(Pending(kinds)) \in Nat /\ Cardinality(Drawn(kinds)) \in Nat
  <2>1. Pending(kinds)' \subseteq DayPictures /\ Drawn(kinds)' \subseteq DayPictures
    BY DEF Pending, Drawn
  <2>2. /\ Cardinality(Pending(kinds)') \in Nat /\ Cardinality(Drawn(kinds)') \in Nat
        /\ Cardinality(Pending(kinds)) \in Nat /\ Cardinality(Drawn(kinds)) \in Nat
        /\ IsFiniteSet(Pending(kinds)) /\ IsFiniteSet(Drawn(kinds))
    BY <2>1
  <2>3. CASE state[g] = "PENDING" /\ kind[g] \in kinds
    <3>1. g \in Pending(kinds) /\ Pending(kinds)' = Pending(kinds) \ {g}
      BY <1>1, <1>2, <1>3, <2>3 DEF Pending, DayInv, DayTyped
    <3>2. g \notin Drawn(kinds) /\ Drawn(kinds)' = Drawn(kinds) \cup {g}
      BY <1>1, <1>2, <1>3, <2>3 DEF Drawn, DayInv, DayTyped
    <3>3. Cardinality(Pending(kinds)') = Cardinality(Pending(kinds)) - 1
      BY <2>2, <3>1, OneLess
    <3>4. Cardinality(Drawn(kinds)') = Cardinality(Drawn(kinds)) + 1
      BY <2>2, <3>2, OneMore
    <3> QED
      BY <2>2, <3>3, <3>4
  <2>4. CASE ~(state[g] = "PENDING" /\ kind[g] \in kinds)
    <3>1. Pending(kinds)' = Pending(kinds) /\ Drawn(kinds)' = Drawn(kinds)
      BY <1>1, <1>2, <1>3, <2>4 DEF Pending, Drawn, DayInv, DayTyped
    <3> QED
      BY <2>2, <3>1
  <2> QED
    BY <2>3, <2>4
<1>7. Cardinality(Asking) + Cardinality(Pending(D!Kinds)') <= peak
  <2>1. Cardinality(Asking) + Cardinality(Pending(D!Kinds)) <= peak
    BY DEF DayInv
  <2> QED
    BY <1>5, <1>6, <2>1
<1>8. ASSUME limit # 0
      PROVE  Cardinality(Drawn(D!Kinds)') + Cardinality(Pending(D!Kinds)') + Cardinality(Admitted)
                < limit + Crowd
  <2>1. Cardinality(Drawn(D!Kinds)) + Cardinality(Pending(D!Kinds)) + Cardinality(Admitted)
          < limit + Crowd
    BY <1>8 DEF DayInv
  <2> QED
    BY <1>5, <1>6, <2>1
<1>9. ASSUME limit # 0
      PROVE  Cardinality(Drawn(LookBook)') + Cardinality(Pending(LookBook)') + Cardinality(AdmittedToBook)
                < D!libraryAllowance + Crowd
  <2>1. Cardinality(Drawn(LookBook)) + Cardinality(Pending(LookBook)) + Cardinality(AdmittedToBook)
          < D!libraryAllowance + Crowd
    BY <1>9 DEF DayInv
  <2> QED
    BY <1>5, <1>6, <2>1
<1> QED
  BY <1>1, <1>3, <1>4, <1>7, <1>8, <1>9 DEF DayInv

LEMMA DayNext == DayInv /\ [D!Next]_D!vars => DayInv'
<1> SUFFICES ASSUME DayInv, [D!Next]_D!vars PROVE DayInv'
  OBVIOUS
<1>1. CASE UNCHANGED D!vars
  <2>1. \A kinds : Pending(kinds)' = Pending(kinds) /\ Drawn(kinds)' = Drawn(kinds)
    BY <1>1 DEF D!vars, Pending, Drawn
  <2>2. /\ Asking' = Asking /\ Admitted' = Admitted /\ AdmittedToBook' = AdmittedToBook
        /\ D!libraryAllowance' = D!libraryAllowance /\ Crowd' = Crowd /\ UNCHANGED <<limit, peak>>
    BY <1>1 DEF D!vars, Asking, Admitted, AdmittedToBook, D!libraryAllowance, Crowd
  <2>3. DayTyped'
    BY <1>1 DEF D!vars, DayInv, DayTyped
  <2> QED
    BY <2>1, <2>2, <2>3 DEF DayInv
<1>2. CASE D!Next
  BY <1>2, DayCounts, DayDecides, DayCreates, DayDraws DEF D!Next
<1> QED
  BY <1>1, <1>2

LEMMA OvershootHolds == DayInv => OvershootIsTheCrowd
<1> SUFFICES ASSUME DayInv, limit # 0
             PROVE  /\ D!Counted(D!Kinds) < limit + Crowd
                    /\ D!Counted(LookBook) < D!libraryAllowance + Crowd
  BY DEF OvershootIsTheCrowd, D!OvershootIsTheCrowd, Crowd, LookBook
<1>1. /\ limit \in Nat /\ D!libraryAllowance \in Nat /\ Crowd \in Nat
      /\ Cardinality(Drawn(D!Kinds)) \in Nat /\ Cardinality(Pending(D!Kinds)) \in Nat
      /\ Cardinality(Drawn(LookBook)) \in Nat /\ Cardinality(Pending(LookBook)) \in Nat
      /\ Cardinality(Admitted) \in Nat /\ Cardinality(AdmittedToBook) \in Nat
      /\ D!Counted(D!Kinds) = Cardinality(Drawn(D!Kinds))
      /\ D!Counted(LookBook) = Cardinality(Drawn(LookBook))
  BY DaySizes, DayNumbers DEF DayInv, DayTyped
<1>2. /\ Cardinality(Drawn(D!Kinds)) + Cardinality(Pending(D!Kinds)) + Cardinality(Admitted)
           < limit + Crowd
      /\ Cardinality(Drawn(LookBook)) + Cardinality(Pending(LookBook)) + Cardinality(AdmittedToBook)
           < D!libraryAllowance + Crowd
  BY DEF DayInv
<1> QED
  BY <1>1, <1>2
-----------------------------------------------------------------------------
(* A run of a journey *)

BusySteps == {"act", "refresh", "complete", "move", "next"}

RunStatus == {"NONE", "ACTIVE", "CANCELLED", "EXITED", "COMPLETED"}

JobRow == [status : {"NONE", "PENDING", "RUNNING", "DONE", "DEAD"}, tries : Nat]

\* What a worker has in hand at each query.
InPlace(w) ==
    /\ pc[w] = "idle" => event[w] = Nobody /\ hand[w] = Nobody
    /\ pc[w] = "create" => event[w] \in Events /\ hand[w] = Nobody
    /\ pc[w] = "first" => event[w] \in Events /\ hand[w] \in J!Runs
    /\ pc[w] = "return" => \/ event[w] \in Events /\ hand[w] = Nobody
                           \/ event[w] = Nobody /\ hand[w] \in J!Runs
    /\ pc[w] \in BusySteps => event[w] = Nobody /\ hand[w] \in J!Runs
    /\ pc[w] \in {"act", "refresh"} => read[w].at < Len(read[w].steps)
    /\ pc[w] \in {"move", "next"} => read[w].at + 1 < Len(read[w].steps)

WorkersTyped ==
    /\ pc \in [Workers -> {"idle", "create", "first", "return"} \cup BusySteps]
    /\ event \in [Workers -> Events \cup {Nobody}]
    /\ hand \in [Workers -> J!Runs \cup {Nobody}]
    /\ job \in [Workers -> J!Indices]
    /\ read \in [Workers -> [at : J!Indices, steps : Plans \cup {<<>>}]]
    /\ \A w \in Workers : InPlace(w)

RowsTyped ==
    /\ steps \in Plans
    /\ run \in [J!Runs -> [status : RunStatus, at : J!Indices, event : Events \cup {Nobody}]]
    /\ advance \in [J!Runs -> [J!Indices -> JobRow]]
    /\ tried \in [J!Runs -> [J!Indices -> Nat]]

JourneyTyped == WorkersTyped /\ RowsTyped

LEMMA PlansFacts ==
  /\ J!Longest \in Nat /\ 0 \in J!Indices /\ J!Runs \subseteq Nat /\ Nobody \notin J!Runs
  /\ \A p \in Plans \cup {<<>>} : Len(p) \in Nat /\ Len(p) <= J!Longest
  /\ \A i \in J!Indices : i \in Nat
  /\ \A i \in J!Indices, p \in Plans \cup {<<>>} : i < Len(p) => i + 1 \in J!Indices
<1>1. \A p \in Plans : Len(p) \in Nat
  BY PlansAssumption
<1>2. \E n \in {Len(p) : p \in Plans} : \A p \in Plans : Len(p) <= n
  BY PlansAssumption
<1>3. J!Longest \in {Len(p) : p \in Plans} /\ \A p \in Plans : Len(p) <= J!Longest
  BY <1>2 DEF J!Longest
<1>4. J!Longest \in Nat /\ \A p \in Plans \cup {<<>>} : Len(p) \in Nat /\ Len(p) <= J!Longest
  BY <1>1, <1>3
<1>5. J!Runs \subseteq Nat /\ Nobody \notin J!Runs
  BY BoundsAssumption, NobodyAssumption DEF J!Runs
<1> QED
  BY <1>4, <1>5 DEF J!Indices

LEMMA JourneyTypedInit == J!Init => JourneyTyped
<1> SUFFICES ASSUME J!Init PROVE JourneyTyped
  OBVIOUS
<1>1. RowsTyped
  BY PlansFacts DEF J!Init, RowsTyped, RunStatus, JobRow, J!NoJob
<1>2. WorkersTyped
  BY PlansFacts DEF J!Init, WorkersTyped, InPlace, BusySteps, J!NothingRead
<1> QED
  BY <1>1, <1>2 DEF JourneyTyped

\* The other workers, and a worker's next place.
Same(v) ==
    /\ pc'[v] = pc[v] /\ event'[v] = event[v] /\ hand'[v] = hand[v]
    /\ job'[v] = job[v] /\ read'[v] = read[v]

OnlyMoves(w) == \A v \in Workers : v # w => Same(v)

Place(w, q, e, r, i, seen) ==
    /\ OnlyMoves(w)
    /\ pc'[w] = q /\ event'[w] = e /\ hand'[w] = r /\ job'[w] = i /\ read'[w] = seen

Columns == pc' \in [Workers -> {"idle", "create", "first", "return"} \cup BusySteps]
           /\ event' \in [Workers -> Events \cup {Nobody}] /\ hand' \in [Workers -> J!Runs \cup {Nobody}]
           /\ job' \in [Workers -> J!Indices]
           /\ read' \in [Workers -> [at : J!Indices, steps : Plans \cup {<<>>}]]

LEMMA PlacesKept ==
  ASSUME JourneyTyped, NEW w \in Workers, Columns, OnlyMoves(w), InPlace(w)'
  PROVE  WorkersTyped'
BY DEF JourneyTyped, WorkersTyped, Columns, OnlyMoves, Same, InPlace

\* A job of the run gets this status, and no other job changes.
Puts(r, i, s) ==
    \E row \in JobRow : row.status = s /\ advance' = [advance EXCEPT ![r][i] = row]

\* Where each query leads, and what it does to the run in hand.
LEMMA StatusPut ==
  ASSUME advance \in [J!Runs -> [J!Indices -> JobRow]], NEW r \in J!Runs, NEW i \in J!Indices,
         NEW s \in {"NONE", "PENDING", "RUNNING", "DONE", "DEAD"},
         advance' = [advance EXCEPT ![r][i].status = s]
  PROVE  Puts(r, i, s)
<1>1. advance[r][i] \in JobRow
  OBVIOUS
<1>2. [advance[r][i] EXCEPT !.status = s] \in JobRow /\ [advance[r][i] EXCEPT !.status = s].status = s
  BY <1>1 DEF JobRow
<1>3. advance' = [advance EXCEPT ![r][i] = [advance[r][i] EXCEPT !.status = s]]
  OBVIOUS
<1> QED
  BY <1>2, <1>3 DEF Puts

LEMMA TriggerSteps ==
  ASSUME JourneyTyped, NEW w \in Workers
  PROVE  /\ \A e \in Events : J!LookForRun(w, e) =>
               /\ pc[w] = "idle" /\ Columns
               /\ \E q \in {"create", "return"} : Place(w, q, e, Nobody, job[w], read[w])
               /\ UNCHANGED <<steps, run, advance, tried, again, early, lost>>
         /\ J!CreateRun(w) => pc[w] = "create" /\ Columns /\ \E r \in J!Runs :
               /\ Place(w, "first", event[w], r, job[w], read[w])
               /\ run[r].status = "NONE"
               /\ run' = [run EXCEPT ![r] = [status |-> "ACTIVE", at |-> 0, event |-> event[w]]]
               /\ UNCHANGED <<steps, advance, tried, again, early, lost>>
         /\ J!EnqueueFirst(w) =>
               /\ pc[w] = "first" /\ Columns /\ Place(w, "return", event[w], Nobody, job[w], read[w])
               /\ Puts(hand[w], 0, "PENDING") /\ UNCHANGED <<steps, run, tried, again, early, lost>>
         /\ J!TriggerReturns(w) =>
               /\ pc[w] = "return" /\ event[w] # Nobody /\ Columns
               /\ Place(w, "idle", Nobody, hand[w], job[w], read[w])
               /\ UNCHANGED <<steps, run, advance, tried, again, early, lost>>
         /\ J!TriggerDies(w) =>
               /\ pc[w] # "idle" /\ event[w] # Nobody /\ Columns
               /\ Place(w, "idle", Nobody, Nobody, 0, J!NothingRead)
               /\ lost' = IF pc[w] = "first" THEN lost \cup {hand[w]} ELSE lost
               /\ UNCHANGED <<steps, run, advance, tried, again, early>>
<1> USE DEF J!journey, J!rows, J!local, J!history, J!bounds, J!Goto, JourneyTyped, WorkersTyped, Columns,
            Place, OnlyMoves, Same, BusySteps
<1>1. ASSUME NEW e \in Events, J!LookForRun(w, e)
      PROVE  /\ pc[w] = "idle" /\ Columns
             /\ \E q \in {"create", "return"} : Place(w, q, e, Nobody, job[w], read[w])
             /\ UNCHANGED <<steps, run, advance, tried, again, early, lost>>
  <2>1. /\ pc[w] = "idle" /\ UNCHANGED <<steps, run, advance, tried, again, early, lost, hand, job, read>>
        /\ event' = [event EXCEPT ![w] = e]
        /\ \E q \in {"create", "return"} : pc' = [pc EXCEPT ![w] = q]
    BY <1>1 DEF J!LookForRun
  <2> QED
    BY <2>1 DEF InPlace
<1>2. ASSUME J!CreateRun(w)
      PROVE  pc[w] = "create" /\ Columns /\ \E r \in J!Runs :
               /\ Place(w, "first", event[w], r, job[w], read[w])
               /\ run[r].status = "NONE"
               /\ run' = [run EXCEPT ![r] = [status |-> "ACTIVE", at |-> 0, event |-> event[w]]]
               /\ UNCHANGED <<steps, advance, tried, again, early, lost>>
  <2>1. PICK r \in J!Runs :
          /\ run[r].status = "NONE" /\ hand' = [hand EXCEPT ![w] = r]
          /\ run' = [run EXCEPT ![r] = [status |-> "ACTIVE", at |-> 0, event |-> event[w]]]
    BY <1>2 DEF J!CreateRun
  <2>2. /\ pc[w] = "create" /\ pc' = [pc EXCEPT ![w] = "first"]
        /\ UNCHANGED <<steps, advance, tried, again, early, lost, event, job, read>>
    BY <1>2 DEF J!CreateRun
  <2> QED
    BY <2>1, <2>2
<1>3. ASSUME J!EnqueueFirst(w)
      PROVE  /\ pc[w] = "first" /\ Columns /\ Place(w, "return", event[w], Nobody, job[w], read[w])
             /\ Puts(hand[w], 0, "PENDING") /\ UNCHANGED <<steps, run, tried, again, early, lost>>
  <2>1. pc[w] = "first" /\ Columns /\ Place(w, "return", event[w], Nobody, job[w], read[w])
    BY <1>3 DEF J!EnqueueFirst
  <2>2. UNCHANGED <<steps, run, tried, again, early, lost>>
        /\ advance' = [advance EXCEPT ![hand[w]][0].status = "PENDING"]
    BY <1>3 DEF J!EnqueueFirst
  <2>3. hand[w] \in J!Runs
    BY <2>1 DEF InPlace
  <2>4. Puts(hand[w], 0, "PENDING")
    BY <2>2, <2>3, StatusPut, PlansFacts DEF RowsTyped
  <2> QED
    BY <2>1, <2>2, <2>4
<1>4. ASSUME J!TriggerReturns(w)
      PROVE  /\ pc[w] = "return" /\ event[w] # Nobody /\ Columns
             /\ Place(w, "idle", Nobody, hand[w], job[w], read[w])
             /\ UNCHANGED <<steps, run, advance, tried, again, early, lost>>
  BY <1>4 DEF J!TriggerReturns
<1>5. ASSUME J!TriggerDies(w)
      PROVE  /\ pc[w] # "idle" /\ event[w] # Nobody /\ Columns
             /\ Place(w, "idle", Nobody, Nobody, 0, J!NothingRead)
             /\ lost' = IF pc[w] = "first" THEN lost \cup {hand[w]} ELSE lost
             /\ UNCHANGED <<steps, run, advance, tried, again, early>>
  <2>1. /\ pc[w] # "idle" /\ event[w] # Nobody
        /\ lost' = IF pc[w] = "first" THEN lost \cup {hand[w]} ELSE lost
        /\ UNCHANGED <<steps, run, advance, tried, again, early>>
    BY <1>5 DEF J!TriggerDies
  <2>2. J!Forget(w)
    BY <1>5 DEF J!TriggerDies
  <2>3. Columns /\ Place(w, "idle", Nobody, Nobody, 0, J!NothingRead)
    BY <2>2, PlansFacts DEF J!Forget, J!NothingRead
  <2> QED
    BY <2>1, <2>3
<1> QED
  BY <1>1, <1>2, <1>3, <1>4, <1>5

LEMMA AdvanceSteps ==
  ASSUME JourneyTyped, NEW w \in Workers
  PROVE  /\ \A r \in J!Runs, i \in J!Indices : J!ReadRun(w, r, i) =>
               /\ pc[w] = "idle" /\ Columns /\ advance[r][i].status = "PENDING"
               /\ \E q \in {"act", "complete", "return"} :
                     /\ Place(w, q, Nobody, r, i, [at |-> run[r].at, steps |-> steps])
                     /\ q = "act" => run[r].at < Len(steps)
                     /\ q = "complete" => run[r].at >= Len(steps)
                     /\ q = "return" <=> run[r].status # "ACTIVE"
               /\ Puts(r, i, "RUNNING") /\ UNCHANGED <<steps, run, tried, again, early, lost>>
         /\ J!Act(w) =>
               /\ pc[w] = "act" /\ Columns /\ Place(w, "refresh", event[w], hand[w], job[w], read[w])
               /\ tried' = [tried EXCEPT ![hand[w]][read[w].at] = @ + 1]
               /\ early' = IF read[w].at = job[w] THEN early ELSE early \cup {hand[w]}
               /\ run' = run \/ run' = [run EXCEPT ![hand[w]].status = "EXITED"]
               /\ UNCHANGED <<steps, advance, again, lost>>
         /\ J!Refresh(w) =>
               /\ pc[w] = "refresh" /\ Columns
               /\ \E q \in {"return", "move", "complete"} :
                     /\ Place(w, q, event[w], hand[w], job[w], read[w])
                     /\ q = "return" <=> run[hand[w]].status # "ACTIVE"
                     /\ q = "move" => read[w].at + 1 < Len(read[w].steps)
               /\ UNCHANGED <<steps, run, advance, tried, again, early, lost>>
         /\ J!Complete(w) =>
               /\ pc[w] = "complete" /\ Columns
               /\ Place(w, "return", event[w], hand[w], job[w], read[w])
               /\ \E i \in J!Indices :
                     /\ i = IF read[w].at < Len(read[w].steps) THEN read[w].at + 1 ELSE run[hand[w]].at
                     /\ run' = [run EXCEPT ![hand[w]].status = "COMPLETED", ![hand[w]].at = i]
               /\ UNCHANGED <<steps, advance, tried, again, early, lost>>
         /\ J!Move(w) =>
               /\ pc[w] = "move" /\ Columns /\ Place(w, "next", event[w], hand[w], job[w], read[w])
               /\ run' = [run EXCEPT ![hand[w]].at = read[w].at + 1]
               /\ lost' = IF read[w].at + 1 < run[hand[w]].at THEN lost \cup {hand[w]} ELSE lost
               /\ UNCHANGED <<steps, advance, tried, again, early>>
         /\ J!EnqueueNext(w) =>
               /\ pc[w] = "next" /\ Columns /\ Place(w, "return", event[w], hand[w], job[w], read[w])
               /\ \/ /\ advance[hand[w]][read[w].at + 1].status = "NONE"
                     /\ Puts(hand[w], read[w].at + 1, "PENDING")
                  \/ advance[hand[w]][read[w].at + 1].status # "NONE" /\ advance' = advance
               /\ UNCHANGED <<steps, run, tried, again, early, lost>>
         /\ J!AdvanceReturns(w) =>
               /\ pc[w] = "return" /\ hand[w] # Nobody /\ Columns
               /\ Place(w, "idle", Nobody, Nobody, 0, J!NothingRead)
               /\ Puts(hand[w], job[w], "DONE")
               /\ UNCHANGED <<steps, run, tried, again, early, lost>>
         /\ J!AdvanceDies(w) =>
               /\ pc[w] # "idle" /\ event[w] = Nobody /\ Columns
               /\ Place(w, "idle", Nobody, Nobody, 0, J!NothingRead)
               /\ \/ Puts(hand[w], job[w], "DEAD") /\ lost' = lost \cup {hand[w]}
                  \/ Puts(hand[w], job[w], "PENDING") /\ lost' = lost
               /\ again' = again \cup {hand[w]}
               /\ UNCHANGED <<steps, run, tried, early>>
<1> USE DEF J!journey, J!rows, J!local, J!history, J!bounds, J!Goto, JourneyTyped, WorkersTyped, Columns,
            Place, OnlyMoves, Same, BusySteps
<1>1. ASSUME NEW r \in J!Runs, NEW i \in J!Indices, J!ReadRun(w, r, i)
      PROVE  /\ pc[w] = "idle" /\ Columns /\ advance[r][i].status = "PENDING"
             /\ \E q \in {"act", "complete", "return"} :
                   /\ Place(w, q, Nobody, r, i, [at |-> run[r].at, steps |-> steps])
                   /\ q = "act" => run[r].at < Len(steps)
                   /\ q = "complete" => run[r].at >= Len(steps)
                   /\ q = "return" <=> run[r].status # "ACTIVE"
             /\ Puts(r, i, "RUNNING") /\ UNCHANGED <<steps, run, tried, again, early, lost>>
  <2>1. /\ pc[w] = "idle" /\ UNCHANGED <<steps, run, tried, again, early, lost, event>>
        /\ hand' = [hand EXCEPT ![w] = r] /\ job' = [job EXCEPT ![w] = i]
        /\ read' = [read EXCEPT ![w] = [at |-> run[r].at, steps |-> steps]]
        /\ advance[r][i].status = "PENDING"
        /\ advance' = [advance EXCEPT ![r][i] = [status |-> "RUNNING", tries |-> advance[r][i].tries + 1]]
    BY <1>1 DEF J!ReadRun
  <2>2. PICK q \in {"act", "complete", "return"} :
          /\ pc' = [pc EXCEPT ![w] = q]
          /\ q = "act" => run[r].at < Len(steps)
          /\ q = "complete" => run[r].at >= Len(steps)
          /\ q = "return" <=> run[r].status # "ACTIVE"
    BY <1>1 DEF J!ReadRun, J!Startable
  <2>3. event[w] = Nobody
    BY <2>1 DEF InPlace
  <2>4. [at |-> run[r].at, steps |-> steps] \in [at : J!Indices, steps : Plans \cup {<<>>}]
    BY DEF RowsTyped
  <2>5. Columns /\ Place(w, q, Nobody, r, i, [at |-> run[r].at, steps |-> steps])
    BY <2>1, <2>2, <2>3, <2>4
  <2>6. [status |-> "RUNNING", tries |-> advance[r][i].tries + 1] \in JobRow
    BY DEF RowsTyped, JobRow
  <2>7. Puts(r, i, "RUNNING")
    BY <2>1, <2>6 DEF Puts
  <2> QED
    BY <2>1, <2>2, <2>5, <2>7
<1>2. ASSUME J!Act(w)
      PROVE  /\ pc[w] = "act" /\ Columns /\ Place(w, "refresh", event[w], hand[w], job[w], read[w])
             /\ tried' = [tried EXCEPT ![hand[w]][read[w].at] = @ + 1]
             /\ early' = IF read[w].at = job[w] THEN early ELSE early \cup {hand[w]}
             /\ run' = run \/ run' = [run EXCEPT ![hand[w]].status = "EXITED"]
             /\ UNCHANGED <<steps, advance, again, lost>>
  BY <1>2 DEF J!Act
<1>3. ASSUME J!Refresh(w)
      PROVE  /\ pc[w] = "refresh" /\ Columns
             /\ \E q \in {"return", "move", "complete"} :
                   /\ Place(w, q, event[w], hand[w], job[w], read[w])
                   /\ q = "return" <=> run[hand[w]].status # "ACTIVE"
                   /\ q = "move" => read[w].at + 1 < Len(read[w].steps)
             /\ UNCHANGED <<steps, run, advance, tried, again, early, lost>>
  BY <1>3 DEF J!Refresh
<1>4. ASSUME J!Complete(w)
      PROVE  /\ pc[w] = "complete" /\ Columns
             /\ Place(w, "return", event[w], hand[w], job[w], read[w])
             /\ \E i \in J!Indices :
                   /\ i = IF read[w].at < Len(read[w].steps) THEN read[w].at + 1 ELSE run[hand[w]].at
                   /\ run' = [run EXCEPT ![hand[w]].status = "COMPLETED", ![hand[w]].at = i]
             /\ UNCHANGED <<steps, advance, tried, again, early, lost>>
  <2>1. pc[w] = "complete" /\ Columns /\ UNCHANGED <<steps, advance, tried, again, early, lost>>
        /\ Place(w, "return", event[w], hand[w], job[w], read[w])
    BY <1>4 DEF J!Complete
  <2> DEFINE i == IF read[w].at < Len(read[w].steps) THEN read[w].at + 1 ELSE run[hand[w]].at
  <2>2. i \in J!Indices
    <3>1. hand[w] \in J!Runs
      BY <2>1 DEF InPlace
    <3> QED
      BY <3>1, PlansFacts DEF RowsTyped
  <2>3. run' = [run EXCEPT ![hand[w]].status = "COMPLETED", ![hand[w]].at = i]
    <3>1. hand[w] \in J!Runs
      BY <2>1 DEF InPlace
    <3>2. run' = [run EXCEPT ![hand[w]].status = "COMPLETED",
                             ![hand[w]].at = IF read[w].at < Len(read[w].steps)
                                             THEN read[w].at + 1 ELSE @]
      BY <1>4 DEF J!Complete
    <3> QED
      BY <3>1, <3>2 DEF RowsTyped
  <2> QED
    BY <2>1, <2>2, <2>3
<1>5. ASSUME J!Move(w)
      PROVE  /\ pc[w] = "move" /\ Columns /\ Place(w, "next", event[w], hand[w], job[w], read[w])
             /\ run' = [run EXCEPT ![hand[w]].at = read[w].at + 1]
             /\ lost' = IF read[w].at + 1 < run[hand[w]].at THEN lost \cup {hand[w]} ELSE lost
             /\ UNCHANGED <<steps, advance, tried, again, early>>
  BY <1>5 DEF J!Move
<1>6. ASSUME J!EnqueueNext(w)
      PROVE  /\ pc[w] = "next" /\ Columns /\ Place(w, "return", event[w], hand[w], job[w], read[w])
             /\ \/ /\ advance[hand[w]][read[w].at + 1].status = "NONE"
                   /\ Puts(hand[w], read[w].at + 1, "PENDING")
                \/ advance[hand[w]][read[w].at + 1].status # "NONE" /\ advance' = advance
             /\ UNCHANGED <<steps, run, tried, again, early, lost>>
  <2>1. /\ pc[w] = "next" /\ Columns /\ Place(w, "return", event[w], hand[w], job[w], read[w])
        /\ UNCHANGED <<steps, run, tried, again, early, lost>>
    BY <1>6 DEF J!EnqueueNext
  <2>2. \/ /\ advance[hand[w]][read[w].at + 1].status = "NONE"
           /\ advance' = [advance EXCEPT ![hand[w]][read[w].at + 1].status = "PENDING"]
        \/ advance[hand[w]][read[w].at + 1].status # "NONE" /\ advance' = advance
    BY <1>6 DEF J!EnqueueNext
  <2>3. hand[w] \in J!Runs /\ read[w].at + 1 < Len(read[w].steps)
    BY <2>1 DEF InPlace
  <2>4. read[w].at + 1 \in J!Indices
    BY <2>3, PlansFacts
  <2> QED
    BY <2>1, <2>2, <2>3, <2>4, StatusPut DEF RowsTyped
<1>7. ASSUME J!AdvanceReturns(w)
      PROVE  /\ pc[w] = "return" /\ hand[w] # Nobody /\ Columns
             /\ Place(w, "idle", Nobody, Nobody, 0, J!NothingRead)
             /\ Puts(hand[w], job[w], "DONE")
             /\ UNCHANGED <<steps, run, tried, again, early, lost>>
  <2>1. /\ pc[w] = "return" /\ hand[w] # Nobody /\ J!Forget(w)
        /\ UNCHANGED <<steps, run, tried, again, early, lost>>
        /\ advance' = [advance EXCEPT ![hand[w]][job[w]].status = "DONE"]
    BY <1>7 DEF J!AdvanceReturns
  <2>2. Columns /\ Place(w, "idle", Nobody, Nobody, 0, J!NothingRead)
    BY <2>1, PlansFacts DEF J!Forget, J!NothingRead
  <2>3. Puts(hand[w], job[w], "DONE")
    BY <2>1, StatusPut DEF RowsTyped
  <2> QED
    BY <2>1, <2>2, <2>3
<1>8. ASSUME J!AdvanceDies(w)
      PROVE  /\ pc[w] # "idle" /\ event[w] = Nobody /\ Columns
             /\ Place(w, "idle", Nobody, Nobody, 0, J!NothingRead)
             /\ \/ Puts(hand[w], job[w], "DEAD") /\ lost' = lost \cup {hand[w]}
                \/ Puts(hand[w], job[w], "PENDING") /\ lost' = lost
             /\ again' = again \cup {hand[w]}
             /\ UNCHANGED <<steps, run, tried, early>>
  <2>1. /\ pc[w] # "idle" /\ event[w] = Nobody /\ J!Forget(w)
        /\ again' = again \cup {hand[w]} /\ UNCHANGED <<steps, run, tried, early>>
    BY <1>8 DEF J!AdvanceDies
  <2>2. PICK row \in {J!AfterFailure(advance[hand[w]][job[w]]), J!TakenBack(advance[hand[w]][job[w]])} :
           /\ advance' = [advance EXCEPT ![hand[w]][job[w]] = row]
           /\ lost' = IF row.status = "DEAD" THEN lost \cup {hand[w]} ELSE lost
    BY <1>8 DEF J!AdvanceDies
  <2>3. Columns /\ Place(w, "idle", Nobody, Nobody, 0, J!NothingRead)
    BY <2>1, PlansFacts DEF J!Forget, J!NothingRead
  <2>4. hand[w] \in J!Runs
    BY <2>1, NobodyAssumption DEF InPlace
  <2>5. advance[hand[w]][job[w]] \in JobRow
    BY <2>4 DEF RowsTyped
  <2>6. row \in JobRow /\ row.status \in {"PENDING", "DEAD"}
    BY <2>2, <2>5 DEF J!AfterFailure, J!TakenBack, JobRow
  <2> QED
    BY <2>1, <2>2, <2>3, <2>6 DEF Puts
<1> QED
  BY <1>1, <1>2, <1>3, <1>4, <1>5, <1>6, <1>7, <1>8

LEMMA OwnerSteps ==
  ASSUME J!Next, ~\E w \in Workers : J!Work(w) \/ J!TriggerDies(w) \/ J!AdvanceDies(w)
  PROVE  /\ UNCHANGED <<pc, event, hand, job, read, advance, tried, again, early, lost>>
         /\ steps' \in Plans \cup {steps}
         /\ run' = run \/ \E r \in J!Runs :
                             run[r].status # "NONE" /\ run' = [run EXCEPT ![r].status = "CANCELLED"]
BY DEF J!Next, J!SetJourneyActive, J!UpdateJourney, J!CancelRun, J!DelayPasses, J!journey, J!rows, J!local,
       J!history

LEMMA PutsTyped ==
  ASSUME RowsTyped, NEW r \in J!Runs, NEW i \in J!Indices, NEW s, Puts(r, i, s)
  PROVE  /\ advance' \in [J!Runs -> [J!Indices -> JobRow]]
         /\ advance'[r][i].status = s
         /\ \A q \in J!Runs, n \in J!Indices : q # r \/ n # i => advance'[q][n] = advance[q][n]
         /\ \A q \in J!Runs : q # r => advance'[q] = advance[q]
BY DEF RowsTyped, Puts

LEMMA JourneyTypedKept == JourneyTyped /\ J!Next => JourneyTyped'
<1> SUFFICES ASSUME JourneyTyped, J!Next PROVE JourneyTyped'
  OBVIOUS
<1>1. ASSUME NEW w \in Workers, J!Work(w) \/ J!TriggerDies(w) \/ J!AdvanceDies(w)
      PROVE  WorkersTyped'
  <2>1. InPlace(w)
    BY DEF JourneyTyped, WorkersTyped
  <2>2. ASSUME NEW e \in Events, J!LookForRun(w, e) PROVE Columns /\ OnlyMoves(w) /\ InPlace(w)'
    <3>1. hand[w] = Nobody
      BY <2>1, <2>2, TriggerSteps DEF InPlace
    <3>2. PICK q \in {"create", "return"} : Place(w, q, e, Nobody, job[w], read[w])
      BY <2>2, TriggerSteps
    <3>3. q = "create" \/ q = "return"
      BY <3>2
    <3>4. InPlace(w)'
      BY <2>2, <3>2, <3>3 DEF Place, InPlace, BusySteps
    <3> QED
      BY <2>2, <3>2, <3>4, TriggerSteps DEF Place
  <2>3. CASE J!CreateRun(w)
    <3>1. event[w] \in Events
      BY <2>1, <2>3, TriggerSteps DEF InPlace
    <3>2. Columns /\ OnlyMoves(w) /\ InPlace(w)'
      BY <2>3, <3>1, TriggerSteps DEF Place, InPlace, BusySteps
    <3> QED
      BY <3>2, PlacesKept
  <2>4. CASE J!EnqueueFirst(w) \/ J!TriggerReturns(w) \/ J!TriggerDies(w)
    <3>1. CASE J!EnqueueFirst(w)
      <4>1. event[w] \in Events
        BY <2>1, <3>1, TriggerSteps DEF InPlace
      <4>2. InPlace(w)' /\ Columns /\ OnlyMoves(w)
        BY <3>1, <4>1, TriggerSteps DEF Place, InPlace, BusySteps
      <4> QED
        BY <4>2, PlacesKept
    <3>2. CASE J!TriggerReturns(w)
      <4>1. hand[w] = Nobody
        BY <2>1, <3>2, TriggerSteps DEF InPlace
      <4>2. InPlace(w)' /\ Columns /\ OnlyMoves(w)
        BY <3>2, <4>1, TriggerSteps DEF Place, InPlace, BusySteps
      <4> QED
        BY <4>2, PlacesKept
    <3>3. CASE J!TriggerDies(w)
      BY <3>3, PlacesKept, TriggerSteps DEF Place, InPlace, BusySteps
    <3> QED
      BY <2>4, <3>1, <3>2, <3>3
  <2>5. ASSUME NEW r \in J!Runs, NEW i \in J!Indices, J!ReadRun(w, r, i) PROVE WorkersTyped'
    <3>1. PICK q \in {"act", "complete", "return"} :
             /\ Place(w, q, Nobody, r, i, [at |-> run[r].at, steps |-> steps])
             /\ q = "act" => run[r].at < Len(steps)
             /\ q = "complete" => run[r].at >= Len(steps)
             /\ q = "return" <=> run[r].status # "ACTIVE"
      BY <2>5, AdvanceSteps
    <3>2. InPlace(w)'
      BY <3>1 DEF Place, InPlace, BusySteps
    <3> QED
      BY <2>5, <3>1, <3>2, PlacesKept, AdvanceSteps DEF Place
  <2>6. CASE J!Act(w) \/ J!Refresh(w) \/ J!Complete(w) \/ J!Move(w) \/ J!EnqueueNext(w)
    <3>1. pc[w] \in BusySteps /\ event[w] = Nobody /\ hand[w] \in J!Runs
      BY <2>1, <2>6, AdvanceSteps DEF InPlace, BusySteps
    <3>2. CASE J!Act(w)
      <4>1. read[w].at < Len(read[w].steps)
        BY <2>1, <3>2, AdvanceSteps DEF InPlace
      <4>2. InPlace(w)' /\ Columns /\ OnlyMoves(w)
        BY <3>1, <3>2, <4>1, AdvanceSteps DEF Place, InPlace, BusySteps
      <4> QED
        BY <4>2, PlacesKept
    <3>3. CASE J!Refresh(w)
      <4>1. PICK q \in {"return", "move", "complete"} :
               /\ Place(w, q, event[w], hand[w], job[w], read[w])
               /\ q = "move" => read[w].at + 1 < Len(read[w].steps)
        BY <3>3, AdvanceSteps
      <4>2. InPlace(w)'
        BY <3>1, <4>1 DEF Place, InPlace, BusySteps
      <4> QED
        BY <3>3, <4>1, <4>2, PlacesKept, AdvanceSteps DEF Place
    <3>4. CASE J!Complete(w) \/ J!EnqueueNext(w)
      <4>1. InPlace(w)' /\ Columns /\ OnlyMoves(w)
        BY <3>1, <3>4, AdvanceSteps DEF Place, InPlace, BusySteps
      <4> QED
        BY <4>1, PlacesKept
    <3>5. CASE J!Move(w)
      <4>1. read[w].at + 1 < Len(read[w].steps)
        BY <2>1, <3>5, AdvanceSteps DEF InPlace
      <4>2. InPlace(w)' /\ Columns /\ OnlyMoves(w)
        BY <3>1, <3>5, <4>1, AdvanceSteps DEF Place, InPlace, BusySteps
      <4> QED
        BY <4>2, PlacesKept
    <3> QED
      BY <2>6, <3>2, <3>3, <3>4, <3>5
  <2>7. CASE J!AdvanceReturns(w) \/ J!AdvanceDies(w)
    <3>1. InPlace(w)' /\ Columns /\ OnlyMoves(w)
      BY <2>7, AdvanceSteps DEF Place, InPlace, BusySteps
    <3> QED
      BY <3>1, PlacesKept
  <2> QED
    BY <1>1, <2>2, <2>3, <2>4, <2>5, <2>6, <2>7, PlacesKept DEF J!Work
<1>2. ASSUME NEW w \in Workers, J!Work(w) \/ J!TriggerDies(w) \/ J!AdvanceDies(w)
      PROVE  RowsTyped'
  <2>1. RowsTyped /\ InPlace(w)
    BY DEF JourneyTyped, WorkersTyped
  <2>2. CASE \/ \E e \in Events : J!LookForRun(w, e)
             \/ J!TriggerReturns(w) \/ J!TriggerDies(w) \/ J!Refresh(w)
    <3>1. UNCHANGED <<steps, run, advance, tried>>
      BY <2>2, TriggerSteps, AdvanceSteps
    <3> QED
      BY <2>1, <3>1 DEF RowsTyped
  <2>3. CASE J!CreateRun(w)
    <3>1. event[w] \in Events
      BY <2>1, <2>3, TriggerSteps DEF InPlace
    <3>2. PICK r \in J!Runs : run' = [run EXCEPT ![r] = [status |-> "ACTIVE", at |-> 0, event |-> event[w]]]
      BY <2>3, TriggerSteps
    <3>3. UNCHANGED <<steps, advance, tried>>
      BY <2>3, TriggerSteps
    <3> QED
      BY <2>1, <3>1, <3>2, <3>3, PlansFacts DEF RowsTyped, RunStatus
  <2>4. ASSUME NEW r \in J!Runs, NEW i \in J!Indices, NEW s, Puts(r, i, s), UNCHANGED <<steps, run, tried>>
        PROVE  RowsTyped'
    BY <2>1, <2>4, PutsTyped DEF RowsTyped
  <2>5. ASSUME NEW r \in J!Runs, NEW i \in J!Indices, J!ReadRun(w, r, i) PROVE RowsTyped'
    BY <2>4, <2>5, AdvanceSteps
  <2>6. CASE J!EnqueueFirst(w) \/ J!EnqueueNext(w) \/ J!AdvanceReturns(w) \/ J!AdvanceDies(w)
    <3>1. hand[w] \in J!Runs /\ job[w] \in J!Indices
      BY <2>1, <2>6, TriggerSteps, AdvanceSteps, NobodyAssumption
         DEF InPlace, BusySteps, JourneyTyped, WorkersTyped
    <3>2. pc[w] = "next" => read[w].at + 1 \in J!Indices
      BY <2>1, PlansFacts DEF InPlace, JourneyTyped, WorkersTyped
    <3>3. CASE J!EnqueueFirst(w) \/ J!AdvanceReturns(w) \/ J!AdvanceDies(w)
      BY <2>4, <3>1, <3>3, PlansFacts, TriggerSteps, AdvanceSteps
    <3>4. CASE J!EnqueueNext(w)
      <4>1. CASE advance' = advance /\ UNCHANGED <<steps, run, tried>>
        BY <2>1, <4>1 DEF RowsTyped
      <4> QED
        BY <2>4, <3>1, <3>2, <3>4, <4>1, AdvanceSteps
    <3> QED
      BY <2>6, <3>3, <3>4
  <2>7. CASE J!Act(w) \/ J!Complete(w) \/ J!Move(w)
    <3>1. hand[w] \in J!Runs /\ read[w].at \in J!Indices /\ steps' = steps /\ advance' = advance
      BY <2>1, <2>7, AdvanceSteps DEF InPlace, BusySteps, JourneyTyped, WorkersTyped
    <3>2. pc[w] = "move" => read[w].at + 1 \in J!Indices
      BY <2>1, PlansFacts DEF InPlace, JourneyTyped, WorkersTyped
    <3>3. tried' \in [J!Runs -> [J!Indices -> Nat]]
      <4>1. tried' = tried \/ tried' = [tried EXCEPT ![hand[w]][read[w].at] = @ + 1]
        BY <2>7, AdvanceSteps
      <4>2. tried[hand[w]][read[w].at] + 1 \in Nat
        BY <2>1, <3>1 DEF RowsTyped
      <4>3. CASE tried' = [tried EXCEPT ![hand[w]][read[w].at] = tried[hand[w]][read[w].at] + 1]
        BY <2>1, <3>1, <4>2, <4>3 DEF RowsTyped
      <4>4. CASE tried' = tried
        BY <2>1, <4>4 DEF RowsTyped
      <4> QED
        BY <4>1, <4>3, <4>4
    <3>4. \/ run' = run \/ run' = [run EXCEPT ![hand[w]].status = "EXITED"]
          \/ \E i \in J!Indices : \/ run' = [run EXCEPT ![hand[w]].at = i]
                                  \/ run' = [run EXCEPT ![hand[w]].status = "COMPLETED", ![hand[w]].at = i]
      BY <2>7, <3>2, AdvanceSteps
    <3>5. run' \in [J!Runs -> [status : RunStatus, at : J!Indices, event : Events \cup {Nobody}]]
      <4>0. CASE run' = run
        BY <2>1, <4>0 DEF RowsTyped
      <4>1. CASE run' = [run EXCEPT ![hand[w]].status = "EXITED"]
        BY <2>1, <3>1, <4>1 DEF RowsTyped, RunStatus
      <4>2. ASSUME NEW i \in J!Indices, run' = [run EXCEPT ![hand[w]].at = i]
            PROVE  run' \in [J!Runs -> [status : RunStatus, at : J!Indices, event : Events \cup {Nobody}]]
        BY <2>1, <3>1, <4>2 DEF RowsTyped
      <4>3. ASSUME NEW i \in J!Indices,
                   run' = [run EXCEPT ![hand[w]].status = "COMPLETED", ![hand[w]].at = i]
            PROVE  run' \in [J!Runs -> [status : RunStatus, at : J!Indices, event : Events \cup {Nobody}]]
        BY <2>1, <3>1, <4>3 DEF RowsTyped, RunStatus
      <4> QED
        BY <3>4, <4>0, <4>1, <4>2, <4>3
    <3> QED
      BY <2>1, <3>1, <3>3, <3>5 DEF RowsTyped
  <2>8. \/ \E e \in Events : J!LookForRun(w, e)
        \/ \E r \in J!Runs, i \in J!Indices : J!ReadRun(w, r, i)
        \/ J!TriggerReturns(w) \/ J!TriggerDies(w) \/ J!Refresh(w) \/ J!CreateRun(w)
        \/ J!EnqueueFirst(w) \/ J!EnqueueNext(w) \/ J!AdvanceReturns(w) \/ J!AdvanceDies(w)
        \/ J!Act(w) \/ J!Complete(w) \/ J!Move(w)
    BY <1>2 DEF J!Work
  <2>9. CASE \E r \in J!Runs, i \in J!Indices : J!ReadRun(w, r, i)
    BY <2>5, <2>9
  <2> QED
    BY <2>2, <2>3, <2>6, <2>7, <2>8, <2>9
<1>3. CASE ~\E w \in Workers : J!Work(w) \/ J!TriggerDies(w) \/ J!AdvanceDies(w)
  <2>1. WorkersTyped'
    BY <1>3, OwnerSteps DEF JourneyTyped, WorkersTyped, InPlace
  <2>2. RowsTyped'
    <3>1. /\ RowsTyped /\ UNCHANGED <<advance, tried>> /\ steps' \in Plans \cup {steps}
          /\ \/ run' = run
             \/ \E r \in J!Runs : run' = [run EXCEPT ![r].status = "CANCELLED"]
      BY <1>3, OwnerSteps DEF JourneyTyped
    <3> DEFINE Rows == [J!Runs -> [status : RunStatus, at : J!Indices, event : Events \cup {Nobody}]]
    <3>2. run \in Rows
      BY DEF JourneyTyped, RowsTyped
    <3>3. ASSUME NEW r \in J!Runs, run' = [run EXCEPT ![r].status = "CANCELLED"]
          PROVE  run' \in Rows
      <4>1. "CANCELLED" \in RunStatus
        BY DEF RunStatus
      <4> QED
        BY <3>2, <3>3, <4>1
    <3>4. run' \in Rows
      BY <3>1, <3>2, <3>3
    <3> QED
      BY <3>1, <3>4 DEF RowsTyped
  <2> QED
    BY <2>1, <2>2 DEF JourneyTyped
<1> QED
  BY <1>1, <1>2, <1>3 DEF JourneyTyped
-----------------------------------------------------------------------------
Holding(w, r) == hand[w] = r /\ event[w] = Nobody

Busy(w, r) == hand[w] = r /\ pc[w] \in BusySteps

Opening(w, r) == hand[w] = r /\ pc[w] = "first"

Job(r, i) == advance[r][i].status

\* Nothing knows of a run that was not created.
Unborn(r) ==
    run[r].status = "NONE" =>
        /\ run[r].at = 0 /\ \A w \in Workers : hand[w] # r
        /\ \A i \in J!Indices : Job(r, i) = "NONE" /\ tried[r][i] = 0

\* Whoever created it has it to itself until its first job is booked.
Fresh(r) ==
    \A w \in Workers : Opening(w, r) =>
        /\ run[r].at = 0 /\ \A v \in Workers : hand[v] = r => v = w
        /\ \A i \in J!Indices : Job(r, i) = "NONE" /\ tried[r][i] = 0

\* A job is run by one worker.
Claimed(r) ==
    \A w \in Workers : Holding(w, r) =>
        /\ Job(r, job[w]) = "RUNNING"
        /\ \A v \in Workers : Holding(v, r) /\ job[v] = job[w] => v = w

\* The steps behind the run, or behind a worker that has it in hand, were carried out.
Behind(r) ==
    /\ \A i \in J!Indices : i < run[r].at => tried[r][i] > 0
    /\ \A w \in Workers : Busy(w, r) =>
        /\ \A i \in J!Indices : i < read[w].at => tried[r][i] > 0
        /\ pc[w] \in {"refresh", "move", "next"} => tried[r][read[w].at] > 0
        /\ pc[w] = "complete" /\ read[w].at < Len(read[w].steps) => tried[r][read[w].at] > 0

\* Somebody has, or will take, the run at the step it has come to.
Carried(r) ==
    \/ \E w \in Workers : Opening(w, r)
    \/ \E i \in J!Indices : Job(r, i) = "PENDING"
    \/ \E w \in Workers : Busy(w, r) /\ pc[w] # "next" /\ read[w].at = run[r].at
    \/ \E w \in Workers : /\ Busy(w, r) /\ pc[w] = "next" /\ read[w].at + 1 = run[r].at
                          /\ Job(r, run[r].at) = "NONE"

\* A run that goes on only goes forward.
Going(r) ==
    run[r].status = "ACTIVE" /\ r \notin lost =>
        /\ \A i \in J!Indices : Job(r, i) # "NONE" => i <= run[r].at
        /\ \A w \in Workers : Busy(w, r) =>
              read[w].at <= run[r].at /\ (pc[w] = "next" => read[w].at < run[r].at)
        /\ Carried(r)

\* Of a run none of whose jobs was run again, one job or one worker is on its way.
Once(r) ==
    r \notin again =>
        /\ r \notin early
        /\ \A i \in J!Indices : tried[r][i] <= IF i <= run[r].at THEN 1 ELSE 0
        /\ \A i \in J!Indices : Job(r, i) # "NONE" => i <= run[r].at
        /\ \A i \in J!Indices : Job(r, i) = "PENDING" =>
              i = run[r].at /\ tried[r][i] = 0 /\ \A w \in Workers : ~Busy(w, r)
        /\ \A w, v \in Workers : Busy(w, r) /\ Busy(v, r) => w = v
        /\ \A w \in Workers : Busy(w, r) =>
              /\ job[w] = read[w].at
              /\ pc[w] # "next" => run[r].at = read[w].at
              /\ pc[w] = "next" => /\ run[r].at = read[w].at + 1
                                   /\ Job(r, run[r].at) = "NONE" /\ tried[r][run[r].at] = 0
              /\ pc[w] = "act" => tried[r][run[r].at] = 0

RunInv(r) == Unborn(r) /\ Fresh(r) /\ Claimed(r) /\ Behind(r) /\ Going(r) /\ Once(r)

\* Between the check and the run, nobody starts one for the same thing unseen.
Checked ==
    \A w \in Workers : pc[w] = "create" =>
        \A r \in J!Runs :
            run[r].status = "ACTIVE" /\ about[run[r].event] = about[event[w]] /\ about[event[w]] # Lead
                => <<r, event[w]>> \in met

OneAtATime ==
    \A r1, r2 \in J!Runs :
        /\ r1 # r2 /\ run[r1].status = "ACTIVE" /\ run[r2].status = "ACTIVE"
        /\ about[run[r1].event] = about[run[r2].event] /\ about[run[r1].event] # Lead
        => <<r1, run[r2].event>> \in met \/ <<r2, run[r1].event>> \in met

JourneyInv == JourneyTyped /\ Checked /\ OneAtATime /\ \A r \in J!Runs : RunInv(r)
-----------------------------------------------------------------------------
Untouched(r) ==
    /\ run'[r] = run[r] /\ advance'[r] = advance[r] /\ tried'[r] = tried[r]
    /\ (r \in again' <=> r \in again) /\ (r \in early' <=> r \in early) /\ (r \in lost' <=> r \in lost)

\* A step that has nothing to do with the run.
LEMMA RunFrame ==
  ASSUME NEW r \in J!Runs, RunInv(r), Untouched(r),
         \A v \in Workers : Same(v) \/ (hand[v] # r /\ hand'[v] # r)
  PROVE  RunInv(r)'
<1> USE DEF Untouched, Same, Job
<1>1. \A v \in Workers : /\ Holding(v, r)' <=> Holding(v, r)
                         /\ Busy(v, r)' <=> Busy(v, r)
                         /\ Opening(v, r)' <=> Opening(v, r)
                         /\ (hand'[v] = r) <=> (hand[v] = r)
                         /\ hand[v] = r => pc'[v] = pc[v] /\ job'[v] = job[v] /\ read'[v] = read[v]
  BY DEF Holding, Busy, Opening
<1>2. Unborn(r)' /\ Fresh(r)'
  BY <1>1 DEF RunInv, Unborn, Fresh
<1>3. Claimed(r)'
  BY <1>1 DEF RunInv, Claimed, Holding
<1>4. Behind(r)'
  BY <1>1 DEF RunInv, Behind, Busy
<1>5. Carried(r) => Carried(r)'
  BY <1>1 DEF Carried, Busy
<1>6. Going(r)'
  BY <1>1, <1>5 DEF RunInv, Going, Busy
<1>7. Once(r)'
  BY <1>1 DEF RunInv, Once, Busy
<1> QED
  BY <1>2, <1>3, <1>4, <1>6, <1>7 DEF RunInv

LEMMA Elsewhere ==
  ASSUME NEW w \in Workers, OnlyMoves(w), NEW r \in J!Runs, hand[w] # r, hand'[w] # r,
         RunInv(r), Untouched(r)
  PROVE  RunInv(r)'
BY RunFrame DEF OnlyMoves

\* What a step of one worker leaves as it was.
LEMMA Bystanders ==
  ASSUME NEW w \in Workers, OnlyMoves(w), NEW r
  PROVE  \A v \in Workers : v # w =>
            /\ Holding(v, r)' <=> Holding(v, r)
            /\ Busy(v, r)' <=> Busy(v, r)
            /\ Opening(v, r)' <=> Opening(v, r)
            /\ hand'[v] = hand[v] /\ pc'[v] = pc[v] /\ job'[v] = job[v] /\ read'[v] = read[v]
BY DEF OnlyMoves, Same, Holding, Busy, Opening

LEMMA CreateKeeps ==
  ASSUME JourneyTyped, NEW w \in Workers, J!CreateRun(w), NEW r \in J!Runs, RunInv(r)
  PROVE  RunInv(r)'
<1>1. PICK q \in J!Runs :
         /\ Place(w, "first", event[w], q, job[w], read[w]) /\ run[q].status = "NONE"
         /\ run' = [run EXCEPT ![q] = [status |-> "ACTIVE", at |-> 0, event |-> event[w]]]
         /\ UNCHANGED <<advance, tried, again, early, lost>>
  BY TriggerSteps
<1>2. pc[w] = "create" /\ event[w] \in Events /\ hand[w] = Nobody /\ Nobody # r /\ event[w] # Nobody
  BY TriggerSteps, PlansFacts, NobodyAssumption DEF JourneyTyped, WorkersTyped, InPlace
<1>3. CASE r # q
  <2>1. Untouched(r)
    BY <1>1, <1>3 DEF Untouched, JourneyTyped, RowsTyped
  <2> QED
    BY <1>1, <1>2, <1>3, <2>1, Elsewhere DEF Place
<1>4. CASE r = q
  <2>1. /\ run[r].at = 0 /\ \A v \in Workers : hand[v] # r
        /\ \A i \in J!Indices : Job(r, i) = "NONE" /\ tried[r][i] = 0
    BY <1>1, <1>4 DEF RunInv, Unborn
  <2>2. run'[r].at = 0 /\ run'[r].status = "ACTIVE" /\ \A i \in J!Indices : Job(r, i)' = Job(r, i)
    BY <1>1, <1>4 DEF JourneyTyped, RowsTyped, Job
  <2>3. /\ Opening(w, r)' /\ ~Holding(w, r)' /\ ~Busy(w, r)'
        /\ \A v \in Workers : hand'[v] = r => v = w
    BY <1>1, <1>2, <1>4, <2>1 DEF Place, OnlyMoves, Same, Opening, Holding, Busy, BusySteps
  <2>4. \A v \in Workers : ~Holding(v, r)' /\ ~Busy(v, r)'
    BY <2>3 DEF Holding, Busy
  <2>5. Unborn(r)' /\ Fresh(r)' /\ Claimed(r)'
    <3>1. Unborn(r)' /\ Claimed(r)'
      BY <2>2, <2>4 DEF Unborn, Claimed
    <3>2. Fresh(r)'
      BY <1>1, <2>1, <2>2, <2>3 DEF Fresh, Opening
    <3> QED
      BY <3>1, <3>2
  <2>6. Behind(r)'
    BY <2>2, <2>4, PlansFacts DEF Behind
  <2>7. Going(r)'
    BY <2>1, <2>2, <2>3, <2>4 DEF Going, Carried
  <2>8. Once(r)'
    BY <1>1, <2>1, <2>2, <2>4, PlansFacts DEF RunInv, Once
  <2> QED
    BY <2>5, <2>6, <2>7, <2>8 DEF RunInv
<1> QED
  BY <1>3, <1>4

LEMMA FirstKeeps ==
  ASSUME JourneyTyped, NEW w \in Workers, J!EnqueueFirst(w), NEW r \in J!Runs, RunInv(r)
  PROVE  RunInv(r)'
<1> DEFINE q == hand[w]
<1>1. /\ pc[w] = "first" /\ Place(w, "return", event[w], Nobody, job[w], read[w])
      /\ Puts(q, 0, "PENDING") /\ UNCHANGED <<run, tried, again, early, lost>>
  BY TriggerSteps
<1>2. q \in J!Runs /\ event[w] # Nobody /\ Nobody # r
  BY <1>1, PlansFacts, NobodyAssumption DEF JourneyTyped, WorkersTyped, InPlace
<1>3. /\ advance'[q][0].status = "PENDING"
      /\ \A i \in J!Indices : i # 0 => advance'[q][i] = advance[q][i]
      /\ r # q => advance'[r] = advance[r]
  BY <1>1, <1>2, PutsTyped, PlansFacts DEF JourneyTyped
<1>4. CASE r # q
  BY <1>1, <1>2, <1>3, <1>4, Elsewhere DEF Place, Untouched
<1>5. CASE r = q
  <2>1. Opening(w, r)
    BY <1>1, <1>5 DEF Opening
  <2>2. /\ run[r].at = 0 /\ \A v \in Workers : hand[v] = r => v = w
        /\ \A i \in J!Indices : Job(r, i) = "NONE" /\ tried[r][i] = 0
    BY <2>1 DEF RunInv, Fresh
  <2>3. Job(r, 0)' = "PENDING" /\ \A i \in J!Indices : i # 0 => Job(r, i)' = "NONE"
    BY <1>3, <1>5, <2>2 DEF Job
  <2>4. \A v \in Workers : hand'[v] # r
    BY <1>1, <1>2, <2>2 DEF Place, OnlyMoves, Same
  <2>5. run[r].status # "NONE"
    BY <1>5 DEF RunInv, Unborn
  <2>6. Unborn(r)' /\ Fresh(r)' /\ Claimed(r)' /\ Behind(r)'
    BY <1>1, <2>2, <2>4, <2>5, PlansFacts DEF Unborn, Fresh, Claimed, Behind, Opening, Holding, Busy
  <2>7. Going(r)'
    BY <1>1, <2>2, <2>3, <2>4, PlansFacts DEF Going, Carried, Busy
  <2>8. Once(r)'
    BY <1>1, <2>2, <2>3, <2>4, PlansFacts DEF RunInv, Once, Busy
  <2> QED
    BY <2>6, <2>7, <2>8 DEF RunInv
<1> QED
  BY <1>4, <1>5

LEMMA ReadKeeps ==
  ASSUME JourneyTyped, NEW w \in Workers, NEW q \in J!Runs, NEW k \in J!Indices, J!ReadRun(w, q, k),
         NEW r \in J!Runs, RunInv(r)
  PROVE  RunInv(r)'
<1>1. PICK p \in {"act", "complete", "return"} :
         /\ Place(w, p, Nobody, q, k, [at |-> run[q].at, steps |-> steps])
         /\ p = "act" => run[q].at < Len(steps)
         /\ p = "complete" => run[q].at >= Len(steps)
         /\ p = "return" <=> run[q].status # "ACTIVE"
  BY AdvanceSteps
<1>2. /\ pc[w] = "idle" /\ advance[q][k].status = "PENDING" /\ Puts(q, k, "RUNNING")
      /\ UNCHANGED <<run, tried, again, early, lost>>
  BY AdvanceSteps
<1>3. hand[w] = Nobody /\ Nobody # r
  BY <1>2, PlansFacts DEF JourneyTyped, WorkersTyped, InPlace
<1>4. /\ advance'[q][k].status = "RUNNING"
      /\ \A i \in J!Indices : i # k => advance'[q][i] = advance[q][i]
      /\ r # q => advance'[r] = advance[r]
  BY <1>2, PutsTyped DEF JourneyTyped
<1>5. CASE r # q
  BY <1>1, <1>2, <1>3, <1>4, <1>5, Elsewhere DEF Place, Untouched
<1>6. CASE r = q
  <2>1. Job(r, k) = "PENDING" /\ Job(r, k)' = "RUNNING"
        /\ \A i \in J!Indices : i # k => Job(r, i)' = Job(r, i)
    BY <1>2, <1>4, <1>6 DEF Job
  <2>2. /\ pc'[w] = p /\ event'[w] = Nobody /\ hand'[w] = r /\ job'[w] = k
        /\ read'[w].at = run[r].at /\ hand[w] # r
    BY <1>1, <1>3, <1>6 DEF Place
  <2>3. \A v \in Workers : v # w =>
            /\ Holding(v, r)' <=> Holding(v, r)
            /\ Busy(v, r)' <=> Busy(v, r)
            /\ Opening(v, r)' <=> Opening(v, r)
            /\ hand'[v] = hand[v] /\ pc'[v] = pc[v] /\ job'[v] = job[v] /\ read'[v] = read[v]
    BY <1>1, Bystanders DEF Place
  <2>4. /\ ~Opening(w, r)' /\ Holding(w, r)' /\ (Busy(w, r)' <=> p # "return")
        /\ ~Busy(w, r) /\ ~Holding(w, r) /\ ~Opening(w, r)
    BY <1>1, <2>2 DEF Opening, Holding, Busy, BusySteps
  <2>5. Unborn(r)'
    BY <1>2, <2>1 DEF RunInv, Unborn
  <2>6. Fresh(r)'
    BY <1>2, <2>1, <2>3, <2>4 DEF RunInv, Fresh
  <2>7. Claimed(r)'
    <3>1. \A v \in Workers : job[v] \in J!Indices
      BY DEF JourneyTyped, WorkersTyped
    <3> QED
      BY <1>2, <2>1, <2>2, <2>3, <2>4, <3>1 DEF RunInv, Claimed
  <2>8. Behind(r)'
    <3>1. Behind(r) /\ UNCHANGED <<run, tried>>
      BY <1>2 DEF RunInv
    <3>2. pc'[w] = "complete" => ~(read'[w].at < Len(read'[w].steps))
      <4>1. run[r].at \in Nat /\ Len(steps) \in Nat /\ read'[w] = [at |-> run[r].at, steps |-> steps]
        BY <1>1, <1>6, PlansFacts DEF JourneyTyped, RowsTyped, Place
      <4> QED
        BY <1>1, <1>6, <2>2, <4>1
    <3>3. pc'[w] \notin {"refresh", "move", "next"}
      BY <2>2
    <3> QED
      BY <2>2, <2>3, <2>4, <3>1, <3>2, <3>3 DEF Behind
  <2>9. Going(r)'
    <3>1. ASSUME run[r].status = "ACTIVE" PROVE Carried(r)'
      BY <1>1, <1>2, <1>6, <2>2, <2>4, <3>1 DEF Carried
    <3>2. run[r].at \in Nat
      BY PlansFacts DEF JourneyTyped, RowsTyped
    <3> QED
      BY <1>1, <1>2, <2>1, <2>2, <2>3, <2>4, <3>1, <3>2 DEF RunInv, Going
  <2>10. Once(r)'
    BY <1>1, <1>2, <2>1, <2>2, <2>3, <2>4 DEF RunInv, Once
  <2> QED
    BY <2>5, <2>6, <2>7, <2>8, <2>9, <2>10 DEF RunInv
<1> QED
  BY <1>5, <1>6

\* A worker that goes on with its run.
LEMMA BusyFacts ==
  ASSUME JourneyTyped, NEW w \in Workers, pc[w] \in BusySteps
  PROVE  /\ hand[w] \in J!Runs /\ event[w] = Nobody /\ job[w] \in J!Indices
         /\ read[w].at \in J!Indices /\ read[w].at \in Nat /\ Len(read[w].steps) \in Nat
         /\ run[hand[w]].at \in Nat /\ run[hand[w]].at \in J!Indices
         /\ \A v \in Workers : job[v] \in J!Indices /\ read[v].at \in J!Indices /\ read[v].at \in Nat
         /\ Holding(w, hand[w]) /\ Busy(w, hand[w])
<1>1. /\ hand[w] \in J!Runs /\ event[w] = Nobody
      /\ \A v \in Workers : job[v] \in J!Indices /\ read[v].at \in J!Indices /\ read[v].at \in Nat
  BY PlansFacts DEF JourneyTyped, WorkersTyped, InPlace
<1>2. run[hand[w]].at \in J!Indices
  BY <1>1 DEF JourneyTyped, RowsTyped
<1>3. Len(read[w].steps) \in Nat
  BY PlansFacts DEF JourneyTyped, WorkersTyped
<1> QED
  BY <1>1, <1>2, <1>3, PlansFacts DEF Holding, Busy

LEMMA ActKeeps ==
  ASSUME JourneyTyped, NEW w \in Workers, J!Act(w), NEW r \in J!Runs, RunInv(r)
  PROVE  RunInv(r)'
<1> DEFINE k == read[w].at
<1>1. /\ pc[w] = "act" /\ Place(w, "refresh", event[w], hand[w], job[w], read[w])
      /\ tried' = [tried EXCEPT ![hand[w]][k] = @ + 1]
      /\ early' = IF k = job[w] THEN early ELSE early \cup {hand[w]}
      /\ run' = run \/ run' = [run EXCEPT ![hand[w]].status = "EXITED"]
      /\ UNCHANGED <<advance, again, lost>>
  BY AdvanceSteps
<1>2. pc[w] \in BusySteps
  BY <1>1 DEF BusySteps
<1>3. CASE r # hand[w]
  <2>1. Untouched(r)
    BY <1>1, <1>2, <1>3, BusyFacts DEF Untouched, JourneyTyped, RowsTyped
  <2> QED
    BY <1>1, <1>3, <2>1, Elsewhere DEF Place
<1>4. CASE r = hand[w]
  <2>1. /\ tried'[r][k] = tried[r][k] + 1 /\ \A i \in J!Indices : i # k => tried'[r][i] = tried[r][i]
        /\ \A i \in J!Indices : tried[r][i] \in Nat
    BY <1>1, <1>2, <1>4, BusyFacts DEF JourneyTyped, RowsTyped
  <2>2. /\ run'[r].at = run[r].at /\ run'[r].status \in {run[r].status, "EXITED"}
        /\ \A i \in J!Indices : Job(r, i)' = Job(r, i)
    BY <1>1, <1>4 DEF JourneyTyped, RowsTyped, Job
  <2>3. /\ pc'[w] = "refresh" /\ job'[w] = job[w] /\ read'[w] = read[w]
        /\ Holding(w, r)' /\ Holding(w, r) /\ Busy(w, r)' /\ Busy(w, r)
        /\ ~Opening(w, r)' /\ ~Opening(w, r) /\ hand[w] = r /\ hand'[w] = r
    BY <1>1, <1>2, <1>4, BusyFacts DEF Place, Holding, Busy, Opening, BusySteps
  <2>4. \A v \in Workers : v # w =>
            /\ Holding(v, r)' <=> Holding(v, r)
            /\ Busy(v, r)' <=> Busy(v, r)
            /\ Opening(v, r)' <=> Opening(v, r)
            /\ hand'[v] = hand[v] /\ pc'[v] = pc[v] /\ job'[v] = job[v] /\ read'[v] = read[v]
    BY <1>1, Bystanders DEF Place
  <2>5. Unborn(r)' /\ \A v \in Workers : ~Opening(v, r)
    <3>1. run[r].status # "NONE"
      BY <2>3 DEF RunInv, Unborn
    <3>2. \A v \in Workers : Opening(v, r) => FALSE
      BY <2>3 DEF RunInv, Fresh
    <3> QED
      BY <2>2, <3>1, <3>2 DEF Unborn
  <2>6. Fresh(r)'
    BY <2>3, <2>4, <2>5 DEF Fresh
  <2>7. Claimed(r)'
    BY <1>2, <2>2, <2>3, <2>4, BusyFacts DEF RunInv, Claimed
  <2>8. Behind(r)'
    <3>1. Behind(r) /\ \A i \in J!Indices : tried[r][i] > 0 => tried'[r][i] > 0
      BY <2>1 DEF RunInv
    <3>2. tried'[r][k] > 0
      BY <1>2, <2>1, BusyFacts
    <3> QED
      BY <1>1, <1>2, <2>2, <2>3, <2>4, <3>1, <3>2, BusyFacts DEF Behind
  <2>9. Going(r)'
    <3>1. Carried(r) => Carried(r)'
      BY <1>1, <1>2, <2>2, <2>3, <2>4, BusyFacts DEF Carried
    <3>2. run'[r].status = "ACTIVE" => run[r].status = "ACTIVE"
      BY <2>2
    <3>3. \A v \in Workers : Busy(v, r)' => /\ Busy(v, r) /\ read'[v] = read[v]
                                            /\ pc'[v] = "next" => pc[v] = "next"
      BY <1>1, <2>3, <2>4
    <3> QED
      BY <1>1, <2>2, <3>1, <3>2, <3>3 DEF RunInv, Going
  <2>10. Once(r)'
    <3> SUFFICES ASSUME r \notin again PROVE Once(r)'
      BY <1>1 DEF Once
    <3>1. job[w] = k /\ run[r].at = k /\ tried[r][k] = 0 /\ \A v \in Workers : Busy(v, r) => v = w
      BY <1>1, <2>3 DEF RunInv, Once
    <3>2. r \notin early'
      BY <1>1, <1>4, <3>1 DEF RunInv, Once
    <3>3. \A i \in J!Indices : tried'[r][i] <= IF i <= run'[r].at THEN 1 ELSE 0
      BY <2>1, <2>2, <3>1, PlansFacts DEF RunInv, Once
    <3>4. \A i \in J!Indices : Job(r, i) # "PENDING"
      BY <2>3 DEF RunInv, Once
    <3> QED
      BY <1>1, <2>2, <2>3, <2>4, <3>1, <3>2, <3>3, <3>4 DEF RunInv, Once
  <2> QED
    BY <2>5, <2>6, <2>7, <2>8, <2>9, <2>10 DEF RunInv
<1> QED
  BY <1>3, <1>4

LEMMA RefreshKeeps ==
  ASSUME JourneyTyped, NEW w \in Workers, J!Refresh(w), NEW r \in J!Runs, RunInv(r)
  PROVE  RunInv(r)'
<1>1. PICK q \in {"return", "move", "complete"} :
         /\ Place(w, q, event[w], hand[w], job[w], read[w])
         /\ q = "return" <=> run[hand[w]].status # "ACTIVE"
         /\ q = "move" => read[w].at + 1 < Len(read[w].steps)
  BY AdvanceSteps
<1>2. /\ pc[w] = "refresh" /\ pc[w] \in BusySteps
      /\ UNCHANGED <<run, advance, tried, again, early, lost>>
  BY AdvanceSteps DEF BusySteps
<1>3. CASE r # hand[w]
  BY <1>1, <1>2, <1>3, Elsewhere DEF Place, Untouched
<1>4. CASE r = hand[w]
  <2>1. \A i \in J!Indices : Job(r, i)' = Job(r, i)
    BY <1>2 DEF Job
  <2>2. /\ pc'[w] = q /\ job'[w] = job[w] /\ read'[w] = read[w] /\ Holding(w, r)' /\ Holding(w, r)
        /\ Busy(w, r) /\ (Busy(w, r)' <=> q # "return") /\ ~Opening(w, r)' /\ ~Opening(w, r)
        /\ hand[w] = r /\ hand'[w] = r
    BY <1>1, <1>2, <1>4, BusyFacts DEF Place, Holding, Busy, Opening, BusySteps
  <2>3. \A v \in Workers : v # w =>
            /\ Holding(v, r)' <=> Holding(v, r)
            /\ Busy(v, r)' <=> Busy(v, r)
            /\ Opening(v, r)' <=> Opening(v, r)
            /\ hand'[v] = hand[v] /\ pc'[v] = pc[v] /\ job'[v] = job[v] /\ read'[v] = read[v]
    BY <1>1, Bystanders DEF Place
  <2>4. Unborn(r)' /\ Fresh(r)'
    <3>1. run[r].status # "NONE"
      BY <2>2 DEF RunInv, Unborn
    <3>2. \A v \in Workers : Opening(v, r) => FALSE
      BY <2>2 DEF RunInv, Fresh
    <3> QED
      BY <1>2, <2>2, <2>3, <3>1, <3>2 DEF Unborn, Fresh
  <2>5. Claimed(r)'
    BY <1>2, <2>1, <2>2, <2>3, BusyFacts DEF RunInv, Claimed
  <2>6. Behind(r)'
    BY <1>1, <1>2, <2>2, <2>3 DEF RunInv, Behind
  <2>7. Going(r)'
    <3>1. ASSUME run[r].status = "ACTIVE", Carried(r) PROVE Carried(r)'
      BY <1>1, <1>2, <1>4, <2>1, <2>2, <2>3, <3>1, BusyFacts DEF Carried
    <3> QED
      BY <1>1, <1>2, <2>1, <2>2, <2>3, <3>1 DEF RunInv, Going
  <2>8. Once(r)'
    BY <1>1, <1>2, <2>1, <2>2, <2>3 DEF RunInv, Once
  <2> QED
    BY <2>4, <2>5, <2>6, <2>7, <2>8 DEF RunInv
<1> QED
  BY <1>3, <1>4

LEMMA CompleteKeeps ==
  ASSUME JourneyTyped, NEW w \in Workers, J!Complete(w), NEW r \in J!Runs, RunInv(r)
  PROVE  RunInv(r)'
<1>1. /\ pc[w] = "complete" /\ pc[w] \in BusySteps
      /\ Place(w, "return", event[w], hand[w], job[w], read[w])
      /\ UNCHANGED <<advance, tried, again, early, lost>>
  BY AdvanceSteps DEF BusySteps
<1>2. PICK k \in J!Indices :
         /\ k = IF read[w].at < Len(read[w].steps) THEN read[w].at + 1 ELSE run[hand[w]].at
         /\ run' = [run EXCEPT ![hand[w]].status = "COMPLETED", ![hand[w]].at = k]
  BY AdvanceSteps
<1>3. CASE r # hand[w]
  <2>1. Untouched(r)
    BY <1>1, <1>2, <1>3, BusyFacts DEF Untouched, JourneyTyped, RowsTyped
  <2> QED
    BY <1>1, <1>3, <2>1, Elsewhere DEF Place
<1>4. CASE r = hand[w]
  <2>1. /\ run'[r].at = k /\ run'[r].status = "COMPLETED"
        /\ \A i \in J!Indices : Job(r, i)' = Job(r, i)
    BY <1>1, <1>2, <1>4, BusyFacts DEF JourneyTyped, RowsTyped, Job
  <2>2. /\ pc'[w] = "return" /\ job'[w] = job[w] /\ read'[w] = read[w]
        /\ Holding(w, r)' /\ Holding(w, r) /\ Busy(w, r) /\ ~Busy(w, r)'
        /\ ~Opening(w, r)' /\ ~Opening(w, r) /\ hand[w] = r /\ hand'[w] = r
    BY <1>1, <1>4, BusyFacts DEF Place, Holding, Busy, Opening, BusySteps
  <2>3. \A v \in Workers : v # w =>
            /\ Holding(v, r)' <=> Holding(v, r)
            /\ Busy(v, r)' <=> Busy(v, r)
            /\ Opening(v, r)' <=> Opening(v, r)
            /\ hand'[v] = hand[v] /\ pc'[v] = pc[v] /\ job'[v] = job[v] /\ read'[v] = read[v]
    BY <1>1, Bystanders DEF Place
  <2>4. Unborn(r)' /\ Fresh(r)' /\ Going(r)'
    <3>1. \A v \in Workers : Opening(v, r) => FALSE
      BY <2>2 DEF RunInv, Fresh
    <3> QED
      BY <2>1, <2>2, <2>3, <3>1 DEF Unborn, Fresh, Going
  <2>5. Claimed(r)'
    BY <1>1, <2>1, <2>2, <2>3, BusyFacts DEF RunInv, Claimed
  <2>6. Behind(r)'
    <3>1. Behind(r) /\ UNCHANGED tried
      BY <1>1 DEF RunInv
    <3>2. ASSUME NEW i \in J!Indices, i < k PROVE tried[r][i] > 0
      <4>1. CASE read[w].at < Len(read[w].steps)
        <5>1. i <= read[w].at
          BY <1>1, <1>2, <3>2, <4>1, BusyFacts, PlansFacts
        <5>2. i < read[w].at \/ i = read[w].at
          BY <1>1, <5>1, BusyFacts, PlansFacts
        <5> QED
          BY <1>1, <2>2, <3>1, <4>1, <5>2 DEF Behind
      <4>2. CASE ~(read[w].at < Len(read[w].steps))
        BY <1>2, <1>4, <3>1, <3>2, <4>2 DEF Behind
      <4> QED
        BY <4>1, <4>2
    <3> QED
      BY <2>1, <2>2, <2>3, <3>1, <3>2 DEF Behind
  <2>7. Once(r)'
    <3> SUFFICES ASSUME r \notin again PROVE Once(r)'
      BY <1>1 DEF Once
    <3>1. run[r].at = read[w].at /\ \A v \in Workers : Busy(v, r) => v = w
      BY <1>1, <2>2 DEF RunInv, Once
    <3>2. k >= run[r].at /\ run[r].at \in Nat /\ k \in Nat
      BY <1>1, <1>2, <1>4, <3>1, BusyFacts
    <3>3. \A i \in J!Indices : tried[r][i] <= IF i <= k THEN 1 ELSE 0
      <4>1. \A i \in J!Indices : tried[r][i] <= IF i <= run[r].at THEN 1 ELSE 0
        BY DEF RunInv, Once
      <4>2. \A i \in J!Indices : tried[r][i] \in Nat /\ i \in Nat
        BY PlansFacts DEF JourneyTyped, RowsTyped
      <4> QED
        BY <3>2, <4>1, <4>2
    <3>4. \A i \in J!Indices : Job(r, i) # "NONE" => i <= k
      BY <3>2, PlansFacts DEF RunInv, Once
    <3>5. \A i \in J!Indices : Job(r, i) # "PENDING"
      BY <2>2 DEF RunInv, Once
    <3>6. \A v \in Workers : ~Busy(v, r)'
      BY <2>2, <2>3, <3>1
    <3> QED
      BY <1>1, <2>1, <3>3, <3>4, <3>5, <3>6 DEF RunInv, Once
  <2> QED
    BY <2>4, <2>5, <2>6, <2>7 DEF RunInv
<1> QED
  BY <1>3, <1>4

LEMMA MoveKeeps ==
  ASSUME JourneyTyped, NEW w \in Workers, J!Move(w), NEW r \in J!Runs, RunInv(r)
  PROVE  RunInv(r)'
<1>0. pc[w] = "move"
  BY AdvanceSteps
<1>2. PICK k \in J!Indices : k = read[w].at + 1 /\ k \in Nat
  BY <1>0, PlansFacts DEF JourneyTyped, WorkersTyped, InPlace
<1>1. /\ pc[w] = "move" /\ pc[w] \in BusySteps /\ Place(w, "next", event[w], hand[w], job[w], read[w])
      /\ run' = [run EXCEPT ![hand[w]].at = k]
      /\ lost' = IF k < run[hand[w]].at THEN lost \cup {hand[w]} ELSE lost
      /\ UNCHANGED <<advance, tried, again, early>>
  BY <1>2, AdvanceSteps DEF BusySteps
<1>3. CASE r # hand[w]
  <2>1. Untouched(r)
    BY <1>1, <1>3, BusyFacts DEF Untouched, JourneyTyped, RowsTyped
  <2> QED
    BY <1>1, <1>3, <2>1, Elsewhere DEF Place
<1>4. CASE r = hand[w]
  <2>1. /\ run'[r].at = k /\ run'[r].status = run[r].status
        /\ \A i \in J!Indices : Job(r, i)' = Job(r, i)
    BY <1>1, <1>2, <1>4, BusyFacts DEF JourneyTyped, RowsTyped, Job
  <2>2. /\ pc'[w] = "next" /\ job'[w] = job[w] /\ read'[w] = read[w]
        /\ Holding(w, r)' /\ Holding(w, r) /\ Busy(w, r) /\ Busy(w, r)'
        /\ ~Opening(w, r)' /\ ~Opening(w, r) /\ hand[w] = r /\ hand'[w] = r
    BY <1>1, <1>4, BusyFacts DEF Place, Holding, Busy, Opening, BusySteps
  <2>3. \A v \in Workers : v # w =>
            /\ Holding(v, r)' <=> Holding(v, r)
            /\ Busy(v, r)' <=> Busy(v, r)
            /\ Opening(v, r)' <=> Opening(v, r)
            /\ hand'[v] = hand[v] /\ pc'[v] = pc[v] /\ job'[v] = job[v] /\ read'[v] = read[v]
    BY <1>1, Bystanders DEF Place
  <2>4. Unborn(r)' /\ Fresh(r)'
    <3>1. run[r].status # "NONE"
      BY <2>2 DEF RunInv, Unborn
    <3>2. \A v \in Workers : Opening(v, r) => FALSE
      BY <2>2 DEF RunInv, Fresh
    <3> QED
      BY <2>1, <2>2, <2>3, <3>1, <3>2 DEF Unborn, Fresh
  <2>5. Claimed(r)'
    BY <1>1, <2>1, <2>2, <2>3, BusyFacts DEF RunInv, Claimed
  <2>6. Behind(r)'
    <3>1. Behind(r) /\ UNCHANGED tried
      BY <1>1 DEF RunInv
    <3>2. ASSUME NEW i \in J!Indices, i < k PROVE tried[r][i] > 0
      <4>1. i < read[w].at \/ i = read[w].at
        BY <1>1, <1>2, <3>2, BusyFacts, PlansFacts
      <4> QED
        BY <1>1, <2>2, <3>1, <4>1 DEF Behind
    <3>3. tried[r][read[w].at] > 0
      BY <1>1, <2>2, <3>1 DEF Behind
    <3> QED
      BY <2>1, <2>2, <2>3, <3>1, <3>2, <3>3 DEF Behind
  <2>7. Going(r)'
    <3> SUFFICES ASSUME run[r].status = "ACTIVE", r \notin lost'
                 PROVE  /\ \A i \in J!Indices : Job(r, i) # "NONE" => i <= k
                        /\ \A v \in Workers : Busy(v, r)' =>
                              read[v].at <= k /\ (pc'[v] = "next" => read[v].at < k)
                        /\ Carried(r)'
      BY <2>1, <2>2, <2>3 DEF Going
    <3>1. ~(k < run[r].at) /\ r \notin lost
      BY <1>1, <1>4
    <3>2. /\ \A i \in J!Indices : Job(r, i) # "NONE" => i <= run[r].at
          /\ \A v \in Workers : Busy(v, r) =>
                read[v].at <= run[r].at /\ (pc[v] = "next" => read[v].at < run[r].at)
          /\ Carried(r)
      BY <3>1 DEF RunInv, Going
    <3>3. run[r].at \in Nat /\ (k = run[r].at \/ k = run[r].at + 1)
      BY <1>1, <1>2, <1>4, <2>2, <3>1, <3>2, BusyFacts
    <3>4. \A i \in J!Indices : Job(r, i) # "NONE" => i <= k
      BY <1>2, <3>2, <3>3, PlansFacts
    <3>5. \A v \in Workers : Busy(v, r)' => read[v].at <= k /\ (pc'[v] = "next" => read[v].at < k)
      BY <1>1, <1>2, <2>2, <2>3, <3>2, <3>3, BusyFacts
    <3>6. Carried(r)'
      <4>1. CASE k = run[r].at
        <5>1. read[w].at # run[r].at
          BY <1>1, <1>2, <4>1, BusyFacts
        <5> QED
          BY <1>1, <2>1, <2>2, <2>3, <3>2, <4>1, <5>1 DEF Carried
      <4>2. CASE k = run[r].at + 1
        <5>1. Job(r, k) = "NONE"
          BY <1>2, <3>2, <3>3, <4>2
        <5> QED
          BY <1>2, <2>1, <2>2, <5>1 DEF Carried, Job
      <4> QED
        BY <3>3, <4>1, <4>2
    <3> QED
      BY <3>4, <3>5, <3>6
  <2>8. Once(r)'
    <3> SUFFICES ASSUME r \notin again PROVE Once(r)'
      BY <1>1 DEF Once
    <3>1. run[r].at = read[w].at /\ job[w] = read[w].at /\ \A v \in Workers : Busy(v, r) => v = w
      BY <1>1, <2>2 DEF RunInv, Once
    <3>2. k = run[r].at + 1 /\ run[r].at \in Nat
      BY <1>1, <1>2, <3>1, BusyFacts
    <3>3. /\ \A i \in J!Indices : tried[r][i] \in Nat /\ i \in Nat
          /\ \A i \in J!Indices : tried[r][i] <= IF i <= run[r].at THEN 1 ELSE 0
          /\ \A i \in J!Indices : Job(r, i) # "NONE" => i <= run[r].at
      BY PlansFacts DEF RunInv, Once, JourneyTyped, RowsTyped
    <3>4. \A i \in J!Indices : tried[r][i] <= IF i <= k THEN 1 ELSE 0
      BY <3>2, <3>3
    <3>5. Job(r, k) = "NONE" /\ tried[r][k] = 0 /\ \A i \in J!Indices : Job(r, i) # "NONE" => i <= k
      BY <1>2, <3>2, <3>3
    <3>6. \A i \in J!Indices : Job(r, i) # "PENDING"
      BY <2>2 DEF RunInv, Once
    <3>7. \A v \in Workers : Busy(v, r)' => v = w
      BY <2>3, <3>1
    <3>8. r \notin early'
      BY <1>1 DEF RunInv, Once
    <3> QED
      BY <1>1, <1>2, <2>1, <2>2, <3>1, <3>4, <3>5, <3>6, <3>7, <3>8 DEF Once
  <2> QED
    BY <2>4, <2>5, <2>6, <2>7, <2>8 DEF RunInv
<1> QED
  BY <1>3, <1>4

LEMMA NextKeeps ==
  ASSUME JourneyTyped, NEW w \in Workers, J!EnqueueNext(w), NEW r \in J!Runs, RunInv(r)
  PROVE  RunInv(r)'
<1> DEFINE q == hand[w]
<1>0. pc[w] = "next"
  BY AdvanceSteps
<1>2. PICK k \in J!Indices : k = read[w].at + 1 /\ k \in Nat
  BY <1>0, PlansFacts DEF JourneyTyped, WorkersTyped, InPlace
<1>1. /\ pc[w] = "next" /\ pc[w] \in BusySteps /\ Place(w, "return", event[w], q, job[w], read[w])
      /\ \/ advance[q][k].status = "NONE" /\ Puts(q, k, "PENDING")
         \/ advance[q][k].status # "NONE" /\ advance' = advance
      /\ UNCHANGED <<run, tried, again, early, lost>>
  BY <1>2, AdvanceSteps DEF BusySteps
<1>3. /\ \A i \in J!Indices : i # k => advance'[q][i] = advance[q][i]
      /\ r # q => advance'[r] = advance[r]
      /\ IF advance[q][k].status = "NONE" THEN advance'[q][k].status = "PENDING"
                                          ELSE advance'[q][k] = advance[q][k]
  BY <1>1, <1>2, PutsTyped, BusyFacts DEF JourneyTyped
<1>4. CASE r # q
  BY <1>1, <1>3, <1>4, Elsewhere DEF Place, Untouched
<1>5. CASE r = q
  <2>1. /\ \A i \in J!Indices : i # k => Job(r, i)' = Job(r, i)
        /\ Job(r, k)' = IF Job(r, k) = "NONE" THEN "PENDING" ELSE Job(r, k)
    BY <1>2, <1>3, <1>5 DEF Job
  <2>2. /\ pc'[w] = "return" /\ job'[w] = job[w] /\ read'[w] = read[w]
        /\ Holding(w, r)' /\ Holding(w, r) /\ Busy(w, r) /\ ~Busy(w, r)'
        /\ ~Opening(w, r)' /\ ~Opening(w, r) /\ hand[w] = r /\ hand'[w] = r
    BY <1>1, <1>5, BusyFacts DEF Place, Holding, Busy, Opening, BusySteps
  <2>3. \A v \in Workers : v # w =>
            /\ Holding(v, r)' <=> Holding(v, r)
            /\ Busy(v, r)' <=> Busy(v, r)
            /\ Opening(v, r)' <=> Opening(v, r)
            /\ hand'[v] = hand[v] /\ pc'[v] = pc[v] /\ job'[v] = job[v] /\ read'[v] = read[v]
    BY <1>1, Bystanders DEF Place
  <2>4. Unborn(r)' /\ Fresh(r)'
    <3>1. run[r].status # "NONE"
      BY <2>2 DEF RunInv, Unborn
    <3>2. \A v \in Workers : Opening(v, r) => FALSE
      BY <2>2 DEF RunInv, Fresh
    <3> QED
      BY <1>1, <2>2, <2>3, <3>1, <3>2 DEF Unborn, Fresh
  <2>5. Claimed(r)'
    <3>1. \A i \in J!Indices : Job(r, i) = "RUNNING" => Job(r, i)' = "RUNNING"
      BY <2>1
    <3> QED
      BY <1>1, <2>2, <2>3, <3>1, BusyFacts DEF RunInv, Claimed
  <2>6. Behind(r)'
    BY <1>1, <2>2, <2>3 DEF RunInv, Behind
  <2>7. Going(r)'
    <3> SUFFICES ASSUME run[r].status = "ACTIVE", r \notin lost
                 PROVE  /\ \A i \in J!Indices : Job(r, i)' # "NONE" => i <= run[r].at
                        /\ \A v \in Workers : Busy(v, r)' =>
                              read[v].at <= run[r].at /\ (pc'[v] = "next" => read[v].at < run[r].at)
                        /\ Carried(r)'
      BY <1>1, <2>2, <2>3 DEF Going
    <3>1. /\ \A i \in J!Indices : Job(r, i) # "NONE" => i <= run[r].at
          /\ \A v \in Workers : Busy(v, r) =>
                read[v].at <= run[r].at /\ (pc[v] = "next" => read[v].at < run[r].at)
          /\ Carried(r)
      BY DEF RunInv, Going
    <3>2. k <= run[r].at
      BY <1>1, <1>2, <1>5, <2>2, <3>1, BusyFacts
    <3>3. Carried(r)'
      <4>1. CASE Job(r, k) = "NONE"
        BY <1>2, <2>1, <4>1 DEF Carried
      <4>2. CASE Job(r, k) # "NONE"
        <5>1. \A i \in J!Indices : Job(r, i)' = Job(r, i)
          BY <2>1, <4>2
        <5>2. run[r].at \in J!Indices /\ run'[r] = run[r]
          BY <1>1, <1>5, BusyFacts
        <5> QED
          BY <1>1, <1>2, <2>2, <2>3, <3>1, <4>2, <5>1, <5>2 DEF Carried
      <4> QED
        BY <4>1, <4>2
    <3> QED
      BY <2>1, <2>2, <2>3, <3>1, <3>2, <3>3
  <2>8. Once(r)'
    <3> SUFFICES ASSUME r \notin again PROVE Once(r)'
      BY <1>1 DEF Once
    <3>1. /\ run[r].at = k /\ Job(r, k) = "NONE" /\ tried[r][k] = 0
          /\ \A v \in Workers : Busy(v, r) => v = w
      BY <1>1, <1>2, <2>2 DEF RunInv, Once
    <3>2. \A v \in Workers : ~Busy(v, r)'
      BY <2>2, <2>3, <3>1
    <3>3. \A i \in J!Indices : Job(r, i) # "PENDING"
      BY <2>2 DEF RunInv, Once
    <3> QED
      BY <1>1, <1>2, <2>1, <3>1, <3>2, <3>3 DEF RunInv, Once
  <2> QED
    BY <2>4, <2>5, <2>6, <2>7, <2>8 DEF RunInv
<1> QED
  BY <1>4, <1>5

\* A worker lets a job of its run go: done, dead, or to be run again.
LEMMA LetGoKeeps ==
  ASSUME JourneyTyped, NEW w \in Workers, J!AdvanceReturns(w) \/ J!AdvanceDies(w),
         NEW r \in J!Runs, RunInv(r)
  PROVE  RunInv(r)'
<1> DEFINE q == hand[w]
<1>0. PICK k \in J!Indices : k = job[w]
  BY DEF JourneyTyped, WorkersTyped
<1>1. /\ pc[w] # "idle" /\ Place(w, "idle", Nobody, Nobody, 0, J!NothingRead) /\ UNCHANGED <<run, tried, early>>
      /\ \/ pc[w] = "return" /\ q # Nobody /\ Puts(q, k, "DONE") /\ UNCHANGED <<again, lost>>
         \/ /\ event[w] = Nobody /\ again' = again \cup {q}
            /\ \/ Puts(q, k, "DEAD") /\ lost' = lost \cup {q}
               \/ Puts(q, k, "PENDING") /\ lost' = lost
  BY <1>0, AdvanceSteps
<1>2. /\ q \in J!Runs /\ k \in J!Indices /\ event[w] = Nobody /\ Nobody # r
      /\ pc[w] \notin {"first", "create"} /\ run[r].at \in J!Indices /\ run[r].at \in Nat
  BY <1>1, PlansFacts, NobodyAssumption DEF JourneyTyped, WorkersTyped, RowsTyped, InPlace
<1>3. /\ \A i \in J!Indices : i # k => advance'[q][i] = advance[q][i]
      /\ r # q => advance'[r] = advance[r]
      /\ \/ advance'[q][k].status = "DONE" /\ pc[w] = "return" /\ UNCHANGED <<again, lost>>
         \/ advance'[q][k].status = "DEAD" /\ q \in lost' /\ q \in again'
         \/ advance'[q][k].status = "PENDING" /\ q \in again' /\ lost' = lost
  BY <1>1, <1>2, PutsTyped DEF JourneyTyped
<1>4. CASE r # q
  BY <1>1, <1>2, <1>3, <1>4, Elsewhere DEF Place, Untouched
<1>5. CASE r = q
  <2>1. /\ \A i \in J!Indices : i # k => Job(r, i)' = Job(r, i)
        /\ \/ Job(r, k)' = "DONE" /\ pc[w] = "return" /\ UNCHANGED <<again, lost>>
           \/ Job(r, k)' = "DEAD" /\ r \in lost' /\ r \in again'
           \/ Job(r, k)' = "PENDING" /\ r \in again' /\ lost' = lost
    BY <1>2, <1>3, <1>5 DEF Job
  <2>2. /\ Holding(w, r) /\ hand'[w] # r /\ ~Holding(w, r)' /\ ~Busy(w, r)' /\ ~Opening(w, r)'
        /\ hand[w] = r /\ ~Opening(w, r) /\ Job(r, k) = "RUNNING"
    <3>1. Holding(w, r) /\ hand[w] = r /\ ~Opening(w, r)
      BY <1>2, <1>5 DEF Holding, Opening
    <3>2. hand'[w] # r /\ ~Holding(w, r)' /\ ~Busy(w, r)' /\ ~Opening(w, r)'
      BY <1>1, <1>2 DEF Place, Holding, Busy, Opening
    <3> QED
      BY <1>0, <3>1, <3>2 DEF RunInv, Claimed
  <2>3. \A v \in Workers : v # w =>
            /\ Holding(v, r)' <=> Holding(v, r)
            /\ Busy(v, r)' <=> Busy(v, r)
            /\ Opening(v, r)' <=> Opening(v, r)
            /\ hand'[v] = hand[v] /\ pc'[v] = pc[v] /\ job'[v] = job[v] /\ read'[v] = read[v]
    BY <1>1, Bystanders DEF Place
  <2>4. Unborn(r)' /\ Fresh(r)'
    <3>1. run[r].status # "NONE"
      BY <2>2 DEF RunInv, Unborn
    <3>2. \A v \in Workers : Opening(v, r) => FALSE
      BY <2>2 DEF RunInv, Fresh
    <3> QED
      BY <1>1, <2>2, <2>3, <3>1, <3>2 DEF Unborn, Fresh
  <2>5. Claimed(r)'
    <3>1. \A v \in Workers : job[v] \in J!Indices
      BY DEF JourneyTyped, WorkersTyped
    <3>2. \A v \in Workers : Holding(v, r) /\ v # w => job[v] # k
      BY <1>0, <2>2 DEF RunInv, Claimed
    <3> QED
      BY <2>1, <2>2, <2>3, <3>1, <3>2 DEF RunInv, Claimed
  <2>6. Behind(r)'
    BY <1>1, <2>2, <2>3 DEF RunInv, Behind
  <2>7. Going(r)'
    <3> SUFFICES ASSUME run[r].status = "ACTIVE", r \notin lost'
                 PROVE  /\ \A i \in J!Indices : Job(r, i)' # "NONE" => i <= run[r].at
                        /\ \A v \in Workers : Busy(v, r)' =>
                              read[v].at <= run[r].at /\ (pc'[v] = "next" => read[v].at < run[r].at)
                        /\ Carried(r)'
      BY <1>1, <2>2, <2>3 DEF Going
    <3>0. r \notin lost
      BY <2>1
    <3>1. /\ \A i \in J!Indices : Job(r, i) # "NONE" => i <= run[r].at
          /\ \A v \in Workers : Busy(v, r) =>
                read[v].at <= run[r].at /\ (pc[v] = "next" => read[v].at < run[r].at)
          /\ Carried(r)
      BY <3>0 DEF RunInv, Going
    <3>2. \A i \in J!Indices : Job(r, i)' # "NONE" => i <= run[r].at
      BY <1>2, <2>1, <2>2, <3>1
    <3>3. Carried(r)'
      <4>1. CASE Job(r, k)' = "PENDING"
        BY <1>2, <4>1 DEF Carried
      <4>2. CASE Job(r, k)' = "DONE" /\ pc[w] = "return"
        <5>1. ~Busy(w, r)
          BY <4>2 DEF Busy, BusySteps
        <5>2. \A i \in J!Indices : Job(r, i) \in {"NONE", "PENDING"} => Job(r, i)' = Job(r, i)
          BY <2>1, <2>2
        <5>3. run'[r] = run[r]
          BY <1>1
        <5> QED
          BY <1>2, <2>2, <2>3, <3>1, <5>1, <5>2, <5>3 DEF Carried
      <4> QED
        BY <2>1, <4>1, <4>2
    <3> QED
      BY <2>2, <2>3, <3>1, <3>2, <3>3
  <2>8. Once(r)'
    <3> SUFFICES ASSUME r \notin again', r \notin again PROVE Once(r)'
      BY <2>1 DEF Once
    <3>1. Job(r, k)' = "DONE"
      BY <2>1
    <3>2. \A i \in J!Indices : Job(r, i)' # "NONE" => Job(r, i) # "NONE"
      BY <2>1, <2>2
    <3>3. \A i \in J!Indices : /\ Job(r, i)' = "PENDING" => Job(r, i) = "PENDING"
                               /\ Job(r, i) = "NONE" => Job(r, i)' = "NONE"
      BY <2>1, <2>2, <3>1
    <3>4. UNCHANGED <<run, tried, early>> /\ \A v \in Workers : Busy(v, r)' => Busy(v, r) /\ v # w
      BY <1>1, <2>2, <2>3
    <3> QED
      BY <1>2, <2>3, <3>2, <3>3, <3>4 DEF RunInv, Once
  <2> QED
    BY <2>4, <2>5, <2>6, <2>7, <2>8 DEF RunInv
<1> QED
  BY <1>4, <1>5

LEMMA TriggerDiesKeeps ==
  ASSUME JourneyTyped, NEW w \in Workers, J!TriggerDies(w), NEW r \in J!Runs, RunInv(r)
  PROVE  RunInv(r)'
<1>1. /\ event[w] # Nobody /\ Place(w, "idle", Nobody, Nobody, 0, J!NothingRead)
      /\ lost' = IF pc[w] = "first" THEN lost \cup {hand[w]} ELSE lost
      /\ UNCHANGED <<run, advance, tried, again, early>>
  BY TriggerSteps
<1>2. Nobody # r /\ (pc[w] # "first" => hand[w] = Nobody)
  BY <1>1, PlansFacts, NobodyAssumption DEF JourneyTyped, WorkersTyped, InPlace, BusySteps
<1>3. CASE hand[w] # r
  BY <1>1, <1>2, <1>3, Elsewhere DEF Place, Untouched
<1>4. CASE hand[w] = r
  <2>1. pc[w] = "first" /\ r \in lost' /\ Opening(w, r)
    BY <1>1, <1>2, <1>4 DEF Opening
  <2>2. /\ run[r].at = 0 /\ \A v \in Workers : hand[v] = r => v = w
        /\ \A i \in J!Indices : Job(r, i) = "NONE" /\ tried[r][i] = 0
    BY <2>1 DEF RunInv, Fresh
  <2>3. \A v \in Workers : hand'[v] # r
    BY <1>1, <1>2, <2>2 DEF Place, OnlyMoves, Same
  <2>4. run[r].status # "NONE"
    BY <1>4 DEF RunInv, Unborn
  <2>5. \A i \in J!Indices : Job(r, i)' = Job(r, i)
    BY <1>1 DEF Job
  <2>6. Unborn(r)' /\ Fresh(r)' /\ Claimed(r)' /\ Behind(r)' /\ Going(r)'
    BY <1>1, <2>1, <2>2, <2>3, <2>4, PlansFacts
       DEF Unborn, Fresh, Claimed, Behind, Going, Opening, Holding, Busy
  <2>7. Once(r)'
    BY <1>1, <2>2, <2>3, <2>5, PlansFacts DEF RunInv, Once, Busy
  <2> QED
    BY <2>6, <2>7 DEF RunInv
<1> QED
  BY <1>3, <1>4

\* A worker that looks for work, or reports a trigger done, has no run in hand.
LEMMA IdleKeeps ==
  ASSUME JourneyTyped, NEW w \in Workers,
         (\E e \in Events : J!LookForRun(w, e)) \/ J!TriggerReturns(w), NEW r \in J!Runs, RunInv(r)
  PROVE  RunInv(r)'
<1>1. /\ UNCHANGED <<run, advance, tried, again, early, lost>> /\ OnlyMoves(w)
      /\ hand[w] = Nobody /\ hand'[w] = Nobody /\ Nobody # r
  <2>1. ASSUME NEW e \in Events, J!LookForRun(w, e)
        PROVE  /\ UNCHANGED <<run, advance, tried, again, early, lost>> /\ OnlyMoves(w)
               /\ pc[w] = "idle" /\ hand'[w] = Nobody
    BY <2>1, TriggerSteps DEF Place
  <2>2. CASE J!TriggerReturns(w)
    <3>1. /\ UNCHANGED <<run, advance, tried, again, early, lost>> /\ OnlyMoves(w)
          /\ pc[w] = "return" /\ event[w] # Nobody /\ hand'[w] = hand[w]
      BY <2>2, TriggerSteps DEF Place
    <3> QED
      BY <3>1, PlansFacts DEF JourneyTyped, WorkersTyped, InPlace
  <2> QED
    BY <2>1, <2>2, PlansFacts DEF JourneyTyped, WorkersTyped, InPlace
<1> QED
  BY <1>1, Elsewhere DEF Untouched

\* The owner edits the journey, cancels a run, or time passes.
LEMMA OwnerKeeps ==
  ASSUME JourneyTyped, J!Next, ~\E w \in Workers : J!Work(w) \/ J!TriggerDies(w) \/ J!AdvanceDies(w),
         NEW r \in J!Runs, RunInv(r)
  PROVE  RunInv(r)'
<1>1. UNCHANGED <<pc, event, hand, job, read, advance, tried, again, early, lost>>
  BY OwnerSteps
<1>2. run' = run \/ \E q \in J!Runs :
                       run[q].status # "NONE" /\ run' = [run EXCEPT ![q].status = "CANCELLED"]
  BY OwnerSteps
<1>3. /\ run'[r].at = run[r].at
      /\ run'[r].status = run[r].status
         \/ (run[r].status # "NONE" /\ run'[r].status = "CANCELLED")
  <2>1. ASSUME NEW q \in J!Runs, run[q].status # "NONE", run' = [run EXCEPT ![q].status = "CANCELLED"]
        PROVE  /\ run'[r].at = run[r].at
               /\ q # r => run'[r].status = run[r].status
               /\ q = r => run[r].status # "NONE" /\ run'[r].status = "CANCELLED"
    BY <2>1 DEF JourneyTyped, RowsTyped
  <2> QED
    BY <1>2, <2>1
<1>4. \A v \in Workers : /\ Holding(v, r)' <=> Holding(v, r)
                         /\ Busy(v, r)' <=> Busy(v, r)
                         /\ Opening(v, r)' <=> Opening(v, r)
  BY <1>1 DEF Holding, Busy, Opening
<1>5. \A i \in J!Indices : Job(r, i)' = Job(r, i)
  BY <1>1 DEF Job
<1>6. Unborn(r)' /\ Fresh(r)' /\ Claimed(r)' /\ Behind(r)'
  <2>1. Unborn(r)' /\ Fresh(r)'
    BY <1>1, <1>3, <1>4, <1>5 DEF RunInv, Unborn, Fresh
  <2>2. Claimed(r)'
    BY <1>1, <1>4, <1>5 DEF RunInv, Claimed, Job
  <2>3. Behind(r)'
    BY <1>1, <1>3, <1>4 DEF RunInv, Behind
  <2> QED
    BY <2>1, <2>2, <2>3
<1>7. Going(r)'
  <2>1. Carried(r) => Carried(r)'
    BY <1>1, <1>3, <1>4 DEF Carried, Job
  <2> QED
    BY <1>1, <1>3, <1>4, <1>5, <2>1 DEF RunInv, Going
<1>8. Once(r)'
  <2>1. Job(r, run[r].at)' = Job(r, run[r].at)
    BY <1>1, <1>3 DEF Job
  <2> QED
    BY <1>1, <1>3, <1>4, <1>5, <2>1 DEF RunInv, Once, Job
<1> QED
  BY <1>6, <1>7, <1>8 DEF RunInv

LEMMA RunKept ==
  ASSUME JourneyTyped, J!Next, NEW r \in J!Runs, RunInv(r)
  PROVE  RunInv(r)'
<1>1. ASSUME NEW w \in Workers, J!Work(w) PROVE RunInv(r)'
  <2>1. CASE (\E e \in Events : J!LookForRun(w, e)) \/ J!TriggerReturns(w)
    BY <2>1, IdleKeeps
  <2>2. CASE \E q \in J!Runs, i \in J!Indices : J!ReadRun(w, q, i)
    BY <2>2, ReadKeeps
  <2> QED
    BY <1>1, <2>1, <2>2, CreateKeeps, FirstKeeps, ActKeeps, RefreshKeeps, CompleteKeeps, MoveKeeps,
       NextKeeps, LetGoKeeps DEF J!Work
<1>2. ASSUME NEW w \in Workers, J!TriggerDies(w) \/ J!AdvanceDies(w) PROVE RunInv(r)'
  BY <1>2, TriggerDiesKeeps, LetGoKeeps
<1> QED
  BY <1>1, <1>2, OwnerKeeps
-----------------------------------------------------------------------------
(* Two runs about the same thing *)

\* What the duplicate check looks at, in every step but the creation of a run.
Unstarted(q) ==
    /\ run'[q].status = "ACTIVE" => run[q].status = "ACTIVE"
    /\ run[q].status = "ACTIVE" => run'[q].event = run[q].event

LEMMA MetSteps ==
  ASSUME JourneyTyped, J!Next
  PROVE  /\ about' = about /\ met \subseteq met'
         /\ (\A w \in Workers : ~J!CreateRun(w)) => \A q \in J!Runs : Unstarted(q)
<1>1. about' = about /\ met \subseteq met'
  <2>1. ASSUME NEW w \in Workers, J!Work(w)
        PROVE  about' = about /\ met \subseteq met'
    <3>1. CASE \/ \E e \in Events : J!LookForRun(w, e)
               \/ J!CreateRun(w) \/ J!EnqueueFirst(w) \/ J!TriggerReturns(w)
      BY <3>1 DEF J!LookForRun, J!CreateRun, J!EnqueueFirst, J!TriggerReturns, J!history
    <3>2. CASE \/ \E r \in J!Runs, i \in J!Indices : J!ReadRun(w, r, i)
               \/ J!Act(w) \/ J!Refresh(w) \/ J!Complete(w) \/ J!Move(w)
      BY <3>2 DEF J!ReadRun, J!Act, J!Refresh, J!Complete, J!Move, J!history
    <3>3. CASE J!EnqueueNext(w) \/ J!AdvanceReturns(w)
      BY <3>3 DEF J!EnqueueNext, J!AdvanceReturns, J!history
    <3> QED
      BY <2>1, <3>1, <3>2, <3>3 DEF J!Work
  <2>2. ASSUME NEW w \in Workers, J!TriggerDies(w) \/ J!AdvanceDies(w)
        PROVE  about' = about /\ met \subseteq met'
    BY <2>2 DEF J!TriggerDies, J!AdvanceDies
  <2>3. CASE \/ J!SetJourneyActive \/ J!UpdateJourney
             \/ \E r \in J!Runs : J!CancelRun(r) \/ \E i \in J!Indices : J!DelayPasses(r, i)
    BY <2>3 DEF J!SetJourneyActive, J!UpdateJourney, J!CancelRun, J!DelayPasses, J!history
  <2> QED
    BY <2>1, <2>2, <2>3 DEF J!Next
<1>3. ASSUME \A w \in Workers : ~J!CreateRun(w), NEW q \in J!Runs PROVE Unstarted(q)
  <2>1. \/ run' = run
        \/ \E r \in J!Runs : \/ run' = [run EXCEPT ![r].status = "CANCELLED"]
                             \/ run' = [run EXCEPT ![r].status = "EXITED"]
                             \/ \E i \in Nat : \/ run' = [run EXCEPT ![r].at = i]
                                               \/ run' = [run EXCEPT ![r].status = "COMPLETED", ![r].at = i]
    <3>1. ASSUME NEW w \in Workers, J!Work(w) \/ J!TriggerDies(w) \/ J!AdvanceDies(w)
          PROVE  \/ run' = run
                 \/ \E r \in J!Runs : \/ run' = [run EXCEPT ![r].status = "EXITED"]
                                      \/ \E i \in Nat :
                                            \/ run' = [run EXCEPT ![r].at = i]
                                            \/ run' = [run EXCEPT ![r].status = "COMPLETED", ![r].at = i]
      <4>1. CASE J!Act(w) \/ J!Complete(w) \/ J!Move(w)
        <5>1. pc[w] \in BusySteps
          BY <4>1, AdvanceSteps DEF BusySteps
        <5>2. hand[w] \in J!Runs /\ read[w].at + 1 \in Nat
          BY <5>1, BusyFacts
        <5>3. CASE J!Complete(w)
          <6>1. PICK i \in J!Indices :
                   run' = [run EXCEPT ![hand[w]].status = "COMPLETED", ![hand[w]].at = i]
            BY <5>3, AdvanceSteps
          <6> QED
            BY <5>2, <6>1, PlansFacts
        <5> QED
          BY <4>1, <5>2, <5>3, AdvanceSteps
      <4>2. CASE ~(J!Act(w) \/ J!Complete(w) \/ J!Move(w))
        BY <1>3, <3>1, <4>2, TriggerSteps, AdvanceSteps DEF J!Work
      <4> QED
        BY <4>1, <4>2
    <3> QED
      BY <3>1, OwnerSteps
  <2>2. ASSUME NEW r \in J!Runs, NEW s \in {"CANCELLED", "EXITED"}, run' = [run EXCEPT ![r].status = s]
        PROVE  Unstarted(q)
    <3>1. CASE q = r
      <4>1. run'[q].status = s
        BY <2>2, <3>1 DEF JourneyTyped, RowsTyped
      <4> QED
        BY <2>2, <3>1, <4>1 DEF Unstarted, JourneyTyped, RowsTyped
    <3>2. CASE q # r
      BY <2>2, <3>2 DEF Unstarted, JourneyTyped, RowsTyped
    <3> QED
      BY <3>1, <3>2
  <2>3. ASSUME NEW r \in J!Runs, NEW i \in Nat, run' = [run EXCEPT ![r].at = i]
        PROVE  Unstarted(q)
    BY <2>3 DEF Unstarted, JourneyTyped, RowsTyped
  <2>4. ASSUME NEW r \in J!Runs, NEW i \in Nat,
               run' = [run EXCEPT ![r].status = "COMPLETED", ![r].at = i]
        PROVE  Unstarted(q)
    BY <2>4 DEF Unstarted, JourneyTyped, RowsTyped
  <2>5. CASE run' = run
    BY <2>5 DEF Unstarted
  <2>6. CASE run' # run
    <3>1. PICK r \in J!Runs :
             \/ run' = [run EXCEPT ![r].status = "CANCELLED"]
             \/ run' = [run EXCEPT ![r].status = "EXITED"]
             \/ \E i \in Nat : \/ run' = [run EXCEPT ![r].at = i]
                               \/ run' = [run EXCEPT ![r].status = "COMPLETED", ![r].at = i]
      BY <2>1, <2>6
    <3>2. CASE \E i \in Nat : \/ run' = [run EXCEPT ![r].at = i]
                             \/ run' = [run EXCEPT ![r].status = "COMPLETED", ![r].at = i]
      <4>1. PICK i \in Nat : \/ run' = [run EXCEPT ![r].at = i]
                            \/ run' = [run EXCEPT ![r].status = "COMPLETED", ![r].at = i]
        BY <3>2
      <4>2. CASE run' = [run EXCEPT ![r].at = i]
        BY <2>3, <4>2
      <4>3. CASE run' = [run EXCEPT ![r].status = "COMPLETED", ![r].at = i]
        BY <2>4, <4>3
      <4> QED
        BY <4>1, <4>2, <4>3
    <3>3. CASE run' = [run EXCEPT ![r].status = "CANCELLED"] \/ run' = [run EXCEPT ![r].status = "EXITED"]
      BY <2>2, <3>3
    <3> QED
      BY <3>1, <3>2, <3>3
  <2> QED
    BY <2>5, <2>6
<1> QED
  BY <1>1, <1>3

\* The step that creates a run.
LEMMA MetByCreate ==
  ASSUME JourneyTyped, NEW w \in Workers, J!CreateRun(w)
  PROVE  \E r \in J!Runs :
            /\ pc[w] = "create" /\ Place(w, "first", event[w], r, job[w], read[w])
            /\ run[r].status = "NONE"
            /\ run' = [run EXCEPT ![r] = [status |-> "ACTIVE", at |-> 0, event |-> event[w]]]
            /\ \A v \in Workers : v # w /\ pc[v] = "create" => <<r, event[v]>> \in met'
<1>1. PICK r \in J!Runs :
         /\ run[r].status = "NONE" /\ hand' = [hand EXCEPT ![w] = r]
         /\ run' = [run EXCEPT ![r] = [status |-> "ACTIVE", at |-> 0, event |-> event[w]]]
         /\ met' = met \cup {<<r, event[v]>> : v \in {x \in Workers \ {w} : pc[x] = "create"}}
  BY DEF J!CreateRun
<1>2. /\ pc[w] = "create" /\ pc' = [pc EXCEPT ![w] = "first"]
      /\ UNCHANGED <<event, job, read>>
  BY DEF J!CreateRun, J!Goto
<1>3. Place(w, "first", event[w], r, job[w], read[w])
  BY <1>1, <1>2 DEF Place, OnlyMoves, Same, JourneyTyped, WorkersTyped
<1> QED
  BY <1>1, <1>2, <1>3

\* A worker about to create a run has just seen none, or was at it already.
LEMMA CreatorsSteps ==
  ASSUME JourneyTyped, J!Next, NEW v \in Workers, pc'[v] = "create"
  PROVE  \/ pc[v] = "create" /\ event'[v] = event[v]
         \/ \E e \in Events : /\ event'[v] = e /\ run' = run /\ about' = about /\ met \subseteq met'
                              /\ ~J!Duplicate(e) /\ \A w \in Workers : ~J!CreateRun(w)
<1>1. CASE \E w \in Workers : J!Work(w) \/ J!TriggerDies(w) \/ J!AdvanceDies(w)
  <2>1. PICK w \in Workers : J!Work(w) \/ J!TriggerDies(w) \/ J!AdvanceDies(w)
    BY <1>1
  <2>2. CASE v # w
    <3>1. OnlyMoves(w)
      BY <2>1, TriggerSteps, AdvanceSteps DEF J!Work, Place
    <3> QED
      BY <2>2, <3>1 DEF OnlyMoves, Same
  <2>3. CASE v = w
    <3>1. PICK e \in Events : J!LookForRun(w, e)
      BY <2>1, <2>3, TriggerSteps, AdvanceSteps DEF J!Work, Place
    <3>2. /\ event' = [event EXCEPT ![w] = e] /\ run' = run /\ about' = about /\ met \subseteq met'
          /\ pc[w] = "idle"
          /\ \/ ~J!Duplicate(e) /\ pc' = [pc EXCEPT ![w] = "create"]
             \/ pc' = [pc EXCEPT ![w] = "return"]
      BY <3>1 DEF J!LookForRun, J!Goto, J!rows, J!history
    <3>3. ~J!Duplicate(e) /\ event'[w] = e
      BY <2>3, <3>2 DEF JourneyTyped, WorkersTyped
    <3>4. \A x \in Workers : ~J!CreateRun(x)
      <4>1. ASSUME NEW x \in Workers, J!CreateRun(x) PROVE FALSE
        <5>1. pc[x] = "create" /\ pc'[x] = "first" /\ pc'[x] = (IF x = w THEN "create" ELSE pc[x])
          BY <2>3, <3>2, <4>1, MetByCreate DEF Place, JourneyTyped, WorkersTyped
        <5> QED
          BY <5>1
      <4> QED
        BY <4>1
    <3> QED
      BY <2>3, <3>2, <3>3, <3>4
  <2> QED
    BY <2>2, <2>3
<1>2. CASE ~\E w \in Workers : J!Work(w) \/ J!TriggerDies(w) \/ J!AdvanceDies(w)
  BY <1>2, OwnerSteps
<1> QED
  BY <1>1, <1>2

LEMMA MetKept ==
  ASSUME JourneyTyped, J!Next, Checked, OneAtATime
  PROVE  Checked' /\ OneAtATime'
<1>0. about' = about /\ met \subseteq met'
  BY MetSteps
<1>1. CASE \E w \in Workers : J!CreateRun(w)
  <2>1. PICK w \in Workers : J!CreateRun(w)
    BY <1>1
  <2>2. PICK r \in J!Runs :
            /\ pc[w] = "create" /\ Place(w, "first", event[w], r, job[w], read[w])
            /\ run[r].status = "NONE"
            /\ run' = [run EXCEPT ![r] = [status |-> "ACTIVE", at |-> 0, event |-> event[w]]]
            /\ \A v \in Workers : v # w /\ pc[v] = "create" => <<r, event[v]>> \in met'
    BY <2>1, MetByCreate
  <2>3. \A q \in J!Runs : q # r => run'[q] = run[q]
    BY <2>2 DEF JourneyTyped, RowsTyped
  <2>4. run'[r].status = "ACTIVE" /\ run'[r].event = event[w]
    BY <2>2 DEF JourneyTyped, RowsTyped
  <2>5. Checked'
    <3> SUFFICES ASSUME NEW v \in Workers, pc'[v] = "create", NEW q \in J!Runs, run'[q].status = "ACTIVE",
                        about[run'[q].event] = about[event'[v]], about[event'[v]] # Lead
                 PROVE  <<q, event'[v]>> \in met'
      BY <1>0 DEF Checked
    <3>1. v # w /\ pc[v] = "create" /\ event'[v] = event[v]
      BY <2>2 DEF Place, OnlyMoves, Same
    <3>2. CASE q = r
      BY <2>2, <3>1, <3>2
    <3>3. CASE q # r
      BY <1>0, <2>3, <3>1, <3>3 DEF Checked
    <3> QED
      BY <3>2, <3>3
  <2>6. OneAtATime'
    <3> SUFFICES ASSUME NEW r1 \in J!Runs, NEW r2 \in J!Runs, r1 # r2, run'[r1].status = "ACTIVE",
                        run'[r2].status = "ACTIVE", about[run'[r1].event] = about[run'[r2].event],
                        about[run'[r1].event] # Lead
                 PROVE  <<r1, run'[r2].event>> \in met' \/ <<r2, run'[r1].event>> \in met'
      BY <1>0 DEF OneAtATime
    <3>1. CASE r1 # r /\ r2 # r
      BY <1>0, <2>3, <3>1 DEF OneAtATime
    <3>2. CASE r1 = r
      <4>1. run'[r2] = run[r2]
        BY <2>3, <3>2
      <4> QED
        BY <1>0, <2>2, <2>4, <3>2, <4>1 DEF Checked
    <3>3. CASE r2 = r
      <4>1. run'[r1] = run[r1]
        BY <2>3, <3>3
      <4> QED
        BY <1>0, <2>2, <2>4, <3>3, <4>1 DEF Checked
    <3> QED
      BY <3>1, <3>2, <3>3
  <2> QED
    BY <2>5, <2>6
<1>2. CASE \A w \in Workers : ~J!CreateRun(w)
  <2>1. \A q \in J!Runs : Unstarted(q)
    BY <1>2, MetSteps
  <2>2. OneAtATime'
    BY <1>0, <2>1 DEF OneAtATime, Unstarted
  <2>3. Checked'
    <3> SUFFICES ASSUME NEW v \in Workers, pc'[v] = "create", NEW q \in J!Runs, run'[q].status = "ACTIVE",
                        about[run'[q].event] = about[event'[v]], about[event'[v]] # Lead
                 PROVE  <<q, event'[v]>> \in met'
      BY <1>0 DEF Checked
    <3>1. run[q].status = "ACTIVE" /\ run'[q].event = run[q].event
      BY <2>1 DEF Unstarted
    <3>2. CASE pc[v] = "create" /\ event'[v] = event[v]
      BY <1>0, <3>1, <3>2 DEF Checked
    <3>3. ASSUME NEW e \in Events, event'[v] = e, ~J!Duplicate(e) PROVE FALSE
      BY <3>1, <3>3 DEF J!Duplicate
    <3> QED
      BY <3>2, <3>3, CreatorsSteps
  <2> QED
    BY <2>2, <2>3
<1> QED
  BY <1>1, <1>2
-----------------------------------------------------------------------------
LEMMA JourneyInit == J!Init => JourneyInv
<1> SUFFICES ASSUME J!Init PROVE JourneyInv
  OBVIOUS
<1>1. JourneyTyped
  BY JourneyTypedInit
<1>2. Checked /\ OneAtATime
  BY DEF J!Init, Checked, OneAtATime
<1>3. ASSUME NEW r \in J!Runs PROVE RunInv(r)
  <2>1. /\ run[r].status = "NONE" /\ run[r].at = 0 /\ r \notin again /\ r \notin early
        /\ \A i \in J!Indices : Job(r, i) = "NONE" /\ tried[r][i] = 0
        /\ \A w \in Workers : hand[w] # r
    BY PlansFacts DEF J!Init, J!NoJob, Job
  <2>2. \A w \in Workers : ~Holding(w, r) /\ ~Busy(w, r) /\ ~Opening(w, r)
    BY <2>1 DEF Holding, Busy, Opening
  <2>3. Unborn(r) /\ Fresh(r) /\ Claimed(r) /\ Behind(r) /\ Going(r)
    BY <2>1, <2>2, PlansFacts DEF Unborn, Fresh, Claimed, Behind, Going
  <2>4. Once(r)
    BY <2>1, <2>2, PlansFacts DEF Once
  <2> QED
    BY <2>3, <2>4 DEF RunInv
<1> QED
  BY <1>1, <1>2, <1>3 DEF JourneyInv

LEMMA JourneyNext == JourneyInv /\ [J!Next]_J!vars => JourneyInv'
<1> SUFFICES ASSUME JourneyInv, [J!Next]_J!vars PROVE JourneyInv'
  OBVIOUS
<1>1. CASE J!Next
  BY <1>1, JourneyTypedKept, MetKept, RunKept DEF JourneyInv, J!Runs
<1>2. CASE UNCHANGED J!vars
  <2>1. UNCHANGED <<steps, about, run, advance, pc, event, hand, job, read, tried, again, early, met, lost>>
    BY <1>2 DEF J!vars, J!journey, J!rows, J!local, J!history, J!bounds
  <2>2. JourneyTyped' /\ Checked' /\ OneAtATime'
    BY <2>1 DEF JourneyInv, JourneyTyped, WorkersTyped, InPlace, RowsTyped, Checked, OneAtATime
  <2>3. \A r \in J!Runs : RunInv(r)'
    BY <2>1, RunFrame DEF JourneyInv, Untouched, Same
  <2> QED
    BY <2>2, <2>3 DEF JourneyInv, J!Runs
<1> QED
  BY <1>1, <1>2

LEMMA StepsInTurnHolds == JourneyInv => J!StepsInTurn
<1> SUFFICES ASSUME JourneyInv PROVE J!StepsInTurn
  OBVIOUS
<1>1. ASSUME NEW r \in J!Runs, NEW i \in 0 .. run[r].at - 1 PROVE tried[r][i] > 0
  <2>1. run[r].at \in J!Indices /\ run[r].at \in Nat /\ J!Longest \in Nat
    BY PlansFacts DEF JourneyInv, JourneyTyped, RowsTyped
  <2>2. i \in J!Indices /\ i < run[r].at
    BY <2>1 DEF J!Indices
  <2> QED
    BY <2>2 DEF JourneyInv, RunInv, Behind
<1>2. ASSUME NEW r \in J!Runs, r \notin again
      PROVE  r \notin early /\ \A i \in J!Indices : tried[r][i] <= IF i <= run[r].at THEN 1 ELSE 0
  BY <1>2 DEF JourneyInv, RunInv, Once
<1> QED
  BY <1>1, <1>2 DEF JourneyInv, OneAtATime, J!StepsInTurn

LEMMA NobodyStranded == JourneyInv => J!NoRunIsStranded
<1> SUFFICES ASSUME JourneyInv, NEW r \in J!Runs, run[r].status = "ACTIVE", r \notin lost
             PROVE  \/ \E i \in J!Indices : advance[r][i].status \in {"PENDING", "RUNNING"}
                    \/ \E w \in Workers : pc[w] = "first" /\ hand[w] = r
  BY DEF J!NoRunIsStranded
<1>1. Carried(r) /\ Claimed(r)
  BY DEF JourneyInv, RunInv, Going
<1>2. ASSUME NEW w \in Workers, Busy(w, r)
      PROVE  job[w] \in J!Indices /\ advance[r][job[w]].status = "RUNNING"
  <2>1. Holding(w, r) /\ job[w] \in J!Indices
    BY <1>2, BusyFacts DEF JourneyInv, Busy
  <2> QED
    BY <1>1, <2>1 DEF Claimed, Job
<1> QED
  BY <1>1, <1>2 DEF Carried, Opening, Job
-----------------------------------------------------------------------------
(* All three *)

\* What the handlers of journeys and of pictures rely on between their queries, and
\* what the day's count leaves room for, in every state of the three.
THEOREM AutomationsInvariant == Spec => [](JourneyInv /\ PictureInv /\ DayInv)
<1>1. Init => JourneyInv /\ PictureInv /\ DayInv
  BY JourneyInit, PictureInit, DayInit DEF Init
<1>2. JourneyInv /\ PictureInv /\ DayInv /\ [Next]_vars => (JourneyInv /\ PictureInv /\ DayInv)'
  <2> SUFFICES ASSUME JourneyInv, PictureInv, DayInv, [Next]_vars
               PROVE  JourneyInv' /\ PictureInv' /\ DayInv'
    OBVIOUS
  <2>1. [J!Next]_J!vars
    BY DEF Next, vars, journey, J!vars, J!journey, J!rows, J!local, J!history, J!bounds
  <2>2. [G!Next]_G!vars
    BY DEF Next, vars, drawing, G!vars, G!row, G!jobs, G!worker, G!history
  <2>3. [D!Next]_D!vars
    BY DEF Next, vars, day, D!vars
  <2> QED
    BY <2>1, <2>2, <2>3, JourneyNext, PictureNext, DayNext
<1> QED
  BY <1>1, <1>2, PTL DEF Spec

\* Two runs about the same thing are two only if both checks came before both runs; no
\* step is passed over, and without a job run again none is carried out twice or early
\* (journey.service.ts, triggerJourney and advanceRun).
THEOREM StepsAreTakenInTurn == Spec => []StepsInTurn
<1>1. JourneyInv => StepsInTurn
  BY StepsInTurnHolds DEF StepsInTurn
<1> QED
  BY <1>1, AutomationsInvariant, PTL

\* A run that goes on has a job to carry it on, whatever dies on the way, unless it was
\* given up on the record (journey.service.ts:272-448).
THEOREM NoRunIsLeft == Spec => []NoRunIsStranded
<1>1. JourneyInv => NoRunIsStranded
  BY NobodyStranded DEF NoRunIsStranded
<1> QED
  BY <1>1, AutomationsInvariant, PTL

\* A picture is paid for once, unless the provider's answer was lost or two jobs submitted
\* it together (hair-generation.service.ts, submitGeneration).
THEOREM PicturesPaidOnce == Spec => []PaidOnce
<1> QED
  BY PaidOnceHolds, AutomationsInvariant, PTL

\* A picture handed over has a poll to come or can be swept, with the three exceptions the
\* property names (hair-generation.service.ts, pollGeneration and the sweep).
THEOREM NoPictureIsLeft == Spec => []NoPictureIsStranded
<1> QED
  BY NotStrandedHolds, AutomationsInvariant, PTL

\* However many callers pass the day's check together, the day is overshot by fewer than
\* were ever at it at one time (generation-limits.ts).
THEOREM DayOvershotByTheCrowd == Spec => []OvershootIsTheCrowd
<1> QED
  BY OvershootHolds, AutomationsInvariant, PTL
=============================================================================
