------------------------------ MODULE Journey ------------------------------
(***************************************************************************)
(* One automation of a salon and the runs customers make through it        *)
(* (modules/marketing/journey.service.ts).  A trigger job starts a run; an *)
(* advance job carries out one step of it and books the job of the next.   *)
(* Every query of the two handlers is an action of its own: other workers, *)
(* the owner's edits and cancellations, and deaths fall between them.      *)
(*                                                                         *)
(* The journey.trigger and journey.advance rows are those of JobQueue,     *)
(* reduced to their unique key, their tries and what a death does to them. *)
(* What a step does to the customer is reduced to the fact that it did it. *)
(***************************************************************************)
EXTENDS Naturals, Sequences

CONSTANTS
    Events,       \* things that happen to the customer and trigger the journey
    NoReference,  \* the event is about the customer alone
    Lead,         \* the event is about a lead, who is no customer yet
    Subjects,     \* what the events may be about: a reference, the customer, or a lead
    MaxRuns,      \* bound: JourneyRun rows the table may come to hold
    Nobody,       \* a worker has no run or event in hand
    Workers,
    Plans,        \* sequences of step kinds the owner may give the journey
    MaxAttempts,  \* Job.maxAttempts
    MaxDeaths,    \* bound: handlers that throw or die with their process
    MaxTouches    \* bound: edits of the journey and runs cancelled by hand

StepKinds == {"SEND_MESSAGE", "EXIT_IF_BOOKED"}

VARIABLES
    active,       \* Journey.isActive
    steps,        \* Journey.steps, in their sort order
    about,        \* about[e]: the appointment, invoice or membership of an event
    trigger,      \* trigger[e]: the job of the event, [status, tries]
    run,          \* run[r]: the row, [status, at, event]
    advance,      \* advance[r][i]: the job with key journey:<r>:<i>
    waiting,      \* advance jobs whose runAt lies ahead
    pc,           \* pc[w]: the next query of the handler the worker runs
    event,        \* event[w]: the event of the trigger job in hand
    hand,         \* hand[w]: the run it has in hand
    job,          \* job[w]: index of the advance job in hand
    read,         \* read[w]: the currentStep and the steps it read
    tried,        \* history: tried[r][i], how often step i was carried out
    again,        \* history: runs a job of which was run again
    early,        \* history: runs with a step carried out before its time
    met,          \* history: runs created between another event's check and its run
    lost,         \* history: runs a death or a race left without a job
    deaths, edits, cancels    \* bounds

journey == <<active, steps>>
rows    == <<run, advance, waiting>>
local   == <<event, hand, job, read>>
history == <<tried, again, early, met, lost>>
bounds  == <<deaths, edits, cancels>>
vars    == <<journey, about, trigger, rows, pc, local, history, bounds>>

\* A plan has at most Longest steps; a run ends at the index after the last.
Longest == CHOOSE n \in {Len(p) : p \in Plans} : \A p \in Plans : Len(p) <= n
Indices == 0 .. Longest
Runs == 1 .. MaxRuns

Queued == [status |-> "PENDING", tries |-> 0]
NoJob == [status |-> "NONE", tries |-> 0]
NothingRead == [at |-> 0, steps |-> <<>>]

\* The owner has switched the journey on.
Init ==
    /\ active = TRUE /\ steps \in Plans
    /\ about \in Subjects
    /\ trigger = [e \in Events |-> Queued]
    /\ run = [r \in Runs |-> [status |-> "NONE", at |-> 0, event |-> Nobody]]
    /\ advance = [r \in Runs |-> [i \in Indices |-> NoJob]]
    /\ waiting = {}
    /\ pc = [w \in Workers |-> "idle"]
    /\ event = [w \in Workers |-> Nobody] /\ hand = [w \in Workers |-> Nobody]
    /\ job = [w \in Workers |-> 0] /\ read = [w \in Workers |-> NothingRead]
    /\ tried = [r \in Runs |-> [i \in Indices |-> 0]]
    /\ again = {} /\ early = {} /\ met = {} /\ lost = {}
    /\ deaths = 0 /\ edits = 0 /\ cancels = 0

Goto(w, query) == pc' = [pc EXCEPT ![w] = query]
-----------------------------------------------------------------------------
(* The owner's hand, and time *)

\* setJourneyActive: a journey has steps, so it can always be switched on.
SetJourneyActive ==
    /\ edits + cancels < MaxTouches /\ edits' = edits + 1
    /\ active' = ~active
    /\ UNCHANGED <<steps, about, trigger, rows, pc, local, history, deaths, cancels>>

\* updateJourney replaces the steps under the runs that are on their way.
UpdateJourney ==
    /\ edits + cancels < MaxTouches /\ edits' = edits + 1
    /\ steps' \in Plans \ {steps}
    /\ UNCHANGED <<active, about, trigger, rows, pc, local, history, deaths, cancels>>

\* cancelRun looks at nothing.
CancelRun(r) ==
    /\ run[r].status # "NONE"
    /\ edits + cancels < MaxTouches /\ cancels' = cancels + 1
    /\ run' = [run EXCEPT ![r].status = "CANCELLED"]
    /\ UNCHANGED <<journey, about, trigger, advance, waiting, pc, local, history, deaths, edits>>

DelayPasses(r, i) ==
    /\ <<r, i>> \in waiting
    /\ waiting' = waiting \ {<<r, i>>}
    /\ UNCHANGED <<journey, about, trigger, run, advance, pc, local, history, bounds>>
-----------------------------------------------------------------------------
(* triggerJourney *)

\* Faulty variant: two runs are two runs.
NoDuplicate(e) == FALSE

\* An ACTIVE run of the customer, about the same thing if the event is about
\* one.  A lead's run is found by nobody.
Duplicate(e) ==
    /\ about[e] # Lead
    /\ \E r \in Runs :
        /\ run[r].status = "ACTIVE" /\ about[run[r].event] # Lead
        /\ about[e] # NoReference => about[run[r].event] = about[e]

\* The worker claims the job; the active journeys with their audience filter,
\* then the duplicate check.
LookForRun(w, e) ==
    /\ pc[w] = "idle" /\ trigger[e].status = "PENDING"
    /\ trigger' = [trigger EXCEPT ![e] = [status |-> "RUNNING", tries |-> @.tries + 1]]
    /\ event' = [event EXCEPT ![w] = e]
    /\ \/ active /\ ~Duplicate(e) /\ Goto(w, "create")
       \/ Goto(w, "return") /\ (~active \/ Duplicate(e) \/ about[e] # Lead)
    /\ UNCHANGED <<journey, about, rows, hand, job, read, history, bounds>>

CreateRun(w) ==
    /\ pc[w] = "create"
    /\ \E r \in Runs :
        /\ run[r].status = "NONE" /\ \A q \in Runs : q < r => run[q].status # "NONE"
        /\ run' = [run EXCEPT ![r] = [status |-> "ACTIVE", at |-> 0, event |-> event[w]]]
        /\ hand' = [hand EXCEPT ![w] = r]
        /\ met' = met \cup {<<r, event[v]>> : v \in {x \in Workers \ {w} : pc[x] = "create"}}
    /\ Goto(w, "first")
    /\ UNCHANGED <<journey, about, trigger, advance, waiting, event, job, read, tried, again,
                   early, lost, bounds>>

\* The run waits for its first step; the key has the run's id, so it is free.
EnqueueFirst(w) ==
    /\ pc[w] = "first"
    /\ advance' = [advance EXCEPT ![hand[w]][0].status = "PENDING"]
    /\ waiting' = waiting \cup {<<hand[w], 0>>}
    /\ hand' = [hand EXCEPT ![w] = Nobody]
    /\ Goto(w, "return")
    /\ UNCHANGED <<journey, about, trigger, run, event, job, read, history, bounds>>

TriggerReturns(w) ==
    /\ pc[w] = "return" /\ event[w] # Nobody
    /\ trigger' = [trigger EXCEPT ![event[w]].status = "DONE"]
    /\ event' = [event EXCEPT ![w] = Nobody]
    /\ Goto(w, "idle")
    /\ UNCHANGED <<journey, about, rows, hand, job, read, history, bounds>>
-----------------------------------------------------------------------------
(* advanceRun *)

\* A run that was cancelled or has ended is left alone.
Startable(r) == run[r].status = "ACTIVE"

\* The worker claims a job that is due and the handler reads the run, with the
\* steps of its journey.
ReadRun(w, r, i) ==
    /\ pc[w] = "idle"
    /\ advance[r][i].status = "PENDING" /\ <<r, i>> \notin waiting
    /\ advance' = [advance EXCEPT ![r][i] = [status |-> "RUNNING", tries |-> @.tries + 1]]
    /\ hand' = [hand EXCEPT ![w] = r]
    /\ job' = [job EXCEPT ![w] = i]
    /\ read' = [read EXCEPT ![w] = [at |-> run[r].at, steps |-> steps]]
    /\ \/ ~Startable(r) /\ Goto(w, "return")
       \/ Startable(r) /\ run[r].at < Len(steps) /\ Goto(w, "act")
       \/ Startable(r) /\ run[r].at >= Len(steps) /\ Goto(w, "complete")
    /\ UNCHANGED <<journey, about, trigger, run, waiting, event, history, bounds>>

\* A step that throws is written down as lastError and passed over, so it was
\* carried out as far as the run is concerned.
Act(w) ==
    LET r == hand[w]
        i == read[w].at
    IN
    /\ pc[w] = "act"
    /\ tried' = [tried EXCEPT ![r][i] = @ + 1]
    /\ early' = IF i = job[w] THEN early ELSE early \cup {r}
    /\ \/ UNCHANGED run
       \/ \* The customer has booked: the update goes by id.
          /\ read[w].steps[i + 1] = "EXIT_IF_BOOKED"
          /\ run' = [run EXCEPT ![r].status = "EXITED"]
    /\ Goto(w, "refresh")
    /\ UNCHANGED <<journey, about, trigger, advance, waiting, local, again, met, lost, bounds>>

\* The run is read again; the steps are still those of the first read.
Refresh(w) ==
    /\ pc[w] = "refresh"
    /\ \/ run[hand[w]].status # "ACTIVE" /\ Goto(w, "return")
       \/ /\ run[hand[w]].status = "ACTIVE"
          /\ Goto(w, IF read[w].at + 1 < Len(read[w].steps) THEN "move" ELSE "complete")
    /\ UNCHANGED <<journey, about, trigger, rows, local, history, bounds>>

\* By id, whatever has become of the run since.
Complete(w) ==
    /\ pc[w] = "complete"
    /\ run' = [run EXCEPT ![hand[w]].status = "COMPLETED",
                          ![hand[w]].at = IF read[w].at < Len(read[w].steps)
                                          THEN read[w].at + 1 ELSE @]
    /\ Goto(w, "return")
    /\ UNCHANGED <<journey, about, trigger, advance, waiting, local, history, bounds>>

\* The index follows from the first read, and may step back behind another worker.
Move(w) ==
    /\ pc[w] = "move"
    /\ run' = [run EXCEPT ![hand[w]].at = read[w].at + 1]
    /\ lost' = IF read[w].at + 1 < run[hand[w]].at THEN lost \cup {hand[w]} ELSE lost
    /\ Goto(w, "next")
    /\ UNCHANGED <<journey, about, trigger, advance, waiting, local, tried, again, early,
                   met, bounds>>

\* Faulty variant: the key of the job does not name the step.
EnqueueUnderOneKey(w) ==
    /\ pc[w] = "next" /\ advance[hand[w]][0].status # "NONE"
    /\ Goto(w, "return")
    /\ UNCHANGED <<journey, about, trigger, rows, local, history, bounds>>

\* Any job with the key, finished or not, makes the insert a no-op.
EnqueueNext(w) ==
    LET r == hand[w]
        i == read[w].at + 1
    IN
    /\ pc[w] = "next"
    /\ \/ /\ advance[r][i].status = "NONE"
          /\ advance' = [advance EXCEPT ![r][i].status = "PENDING"]
          /\ waiting' = waiting \cup {<<r, i>>}
       \/ advance[r][i].status # "NONE" /\ UNCHANGED <<advance, waiting>>
    /\ Goto(w, "return")
    /\ UNCHANGED <<journey, about, trigger, run, local, history, bounds>>

Forget(w) ==
    /\ event' = [event EXCEPT ![w] = Nobody]
    /\ hand' = [hand EXCEPT ![w] = Nobody]
    /\ job' = [job EXCEPT ![w] = 0]
    /\ read' = [read EXCEPT ![w] = NothingRead]
    /\ Goto(w, "idle")

AdvanceReturns(w) ==
    /\ pc[w] = "return" /\ hand[w] # Nobody
    /\ advance' = [advance EXCEPT ![hand[w]][job[w]].status = "DONE"]
    /\ Forget(w)
    /\ UNCHANGED <<journey, about, trigger, run, waiting, history, bounds>>
-----------------------------------------------------------------------------
(* Handlers that throw, or die with their process and are taken back later.  *)
(* A job taken back keeps its tries and is run even when they are used up.   *)

AfterFailure(row) ==
    [row EXCEPT !.status = IF row.tries >= MaxAttempts THEN "DEAD" ELSE "PENDING"]

TakenBack(row) == [row EXCEPT !.status = "PENDING"]

Die == deaths < MaxDeaths /\ deaths' = deaths + 1

TriggerDies(w) ==
    LET e == event[w] IN
    /\ pc[w] # "idle" /\ e # Nobody
    /\ Die
    /\ \E row \in {AfterFailure(trigger[e]), TakenBack(trigger[e])} :
        trigger' = [trigger EXCEPT ![e] = row]
    /\ lost' = IF pc[w] = "first" THEN lost \cup {hand[w]} ELSE lost
    /\ Forget(w)
    /\ UNCHANGED <<journey, about, rows, tried, again, early, met, edits, cancels>>

AdvanceDies(w) ==
    LET r == hand[w]
        i == job[w]
    IN
    /\ pc[w] # "idle" /\ event[w] = Nobody
    /\ Die
    /\ \E row \in {AfterFailure(advance[r][i]), TakenBack(advance[r][i])} :
        /\ advance' = [advance EXCEPT ![r][i] = row]
        /\ lost' = IF row.status = "DEAD" THEN lost \cup {r} ELSE lost
    /\ again' = again \cup {r}
    /\ Forget(w)
    /\ UNCHANGED <<journey, about, trigger, run, waiting, tried, early, met, edits, cancels>>
-----------------------------------------------------------------------------
Work(w) ==
    \/ \E e \in Events : LookForRun(w, e)
    \/ CreateRun(w) \/ EnqueueFirst(w) \/ TriggerReturns(w)
    \/ \E r \in Runs, i \in Indices : ReadRun(w, r, i)
    \/ Act(w) \/ Refresh(w) \/ Complete(w) \/ Move(w) \/ EnqueueNext(w) \/ AdvanceReturns(w)

Next ==
    \/ SetJourneyActive \/ UpdateJourney
    \/ \E r \in Runs : CancelRun(r) \/ \E i \in Indices : DelayPasses(r, i)
    \/ \E w \in Workers : Work(w) \/ TriggerDies(w) \/ AdvanceDies(w)

Spec == Init /\ [][Next]_vars
-----------------------------------------------------------------------------
\* A customer makes one run at a time through a journey about the same thing, unless
\* two checks for it were made before either run was there.  The steps of a run are
\* carried out in turn: while the owner leaves the plan alone none is passed over,
\* whatever dies, and as long as no job of the run was run again each is carried out
\* once, by the job that waited for it.
StepsInTurn ==
    /\ \A r1, r2 \in Runs :
        /\ r1 # r2 /\ run[r1].status = "ACTIVE" /\ run[r2].status = "ACTIVE"
        /\ about[run[r1].event] = about[run[r2].event] /\ about[run[r1].event] # Lead
        => <<r1, run[r2].event>> \in met \/ <<r2, run[r1].event>> \in met
    /\ \A r \in Runs :
        /\ edits = 0 => \A i \in 0 .. run[r].at - 1 : tried[r][i] > 0
        /\ r \notin again =>
            /\ r \notin early
            /\ \A i \in Indices : tried[r][i] <= IF i <= run[r].at THEN 1 ELSE 0

\* Whatever dies on the way, a run that is going on has a job to carry it on,
\* unless its first job was never booked, a job of it is out of tries, or two of
\* its jobs ran into each other after one was run again.
NoRunIsStranded ==
    \A r \in Runs : run[r].status = "ACTIVE" =>
        \/ r \in lost
        \/ \E i \in Indices : advance[r][i].status \in {"PENDING", "RUNNING"}
        \/ \E w \in Workers : pc[w] = "first" /\ hand[w] = r
=============================================================================
