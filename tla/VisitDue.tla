------------------------------ MODULE VisitDue ------------------------------
(***************************************************************************)
(* The nightly sweep that moves customers along their own visit cycle and  *)
(* turns each crossing into entries of the VISIT_DUE journeys              *)
(* (customers/lifecycle-sweep.ts, visit-due.ts, visit-due.dispatch.ts),    *)
(* beside the rollup that writes the same stage (customer.service.ts) and  *)
(* the job that starts the journeys (marketing/journey.service.ts).        *)
(*                                                                         *)
(* Stages are numbers: 0 is NEVER_VISITED, 1 the stage of somebody who has *)
(* just been in, and the rest of LIFECYCLE_ORDER follows.  A sweep reads   *)
(* the book as one page.  Which of the customers are most overdue is left  *)
(* open: the cap may keep any of them.                                     *)
(***************************************************************************)
EXTENDS Integers, FiniteSets

CONSTANTS
    Customers,
    Journeys,     \* active VISIT_DUE journeys
    Wants,        \* Wants[j]: the stages of its triggerConfig
    Earned,       \* Earned[j]: customers with its minVisits and minBasis
    MaxPerRun,    \* triggerConfig.maxPerRun
    MaxHeld,      \* MAX_CROSSINGS_HELD
    Sweeps,       \* processes: each queues the nightly job, without a key
    Top,          \* the last stage
    MaxVisits, MaxRollups, MaxFaults   \* bounds

VARIABLES
    stage,      \* Customer.lifecycleStage
    clock,      \* what stageFor() says of the customer today, asked as the sweep does
    pc,         \* pc[s]: the next step of a sweep
    rows,       \* rows[s]: rows it read whose stage is not the stored one, still to write
    held,       \* held[s]: crossings it keeps
    asks,       \* journey.trigger jobs of VISIT_DUE that wait: customer and stage
    roll,       \* roll[c]: the stage a rollup has computed and not yet written; -1: none
    sameDay,    \* customers whose bills, several of them, are all of one day
    visits, rollups, faults,   \* bounds
    due,        \* history: due[j][c], times time carried her into a wanted stage, less the
                \* times the journey was asked to take her; not counted once muddled
    stray,      \* history: a journey was started by a crossing it does not want
    muddled     \* history: customers whose stage two have written at once, or one failed
                \* to, or a rollup wrote that takes her two bills for one visit

book  == <<stage, clock, roll, sameDay, visits, rollups>>
tale  == <<due, stray, muddled>>
vars  == <<book, pc, rows, held, asks, faults, tale>>

Stages == 0..Top

Init ==
    /\ clock \in [Customers -> {0, 1}]
    /\ sameDay \in SUBSET {c \in Customers : clock[c] = 1}
    /\ stage = [c \in Customers |-> 0]
    /\ pc = [s \in Sweeps |-> "idle"]
    /\ rows = [s \in Sweeps |-> {}] /\ held = [s \in Sweeps |-> {}]
    /\ asks = {}
    /\ roll = [c \in Customers |-> -1]
    /\ visits = 0 /\ rollups = 0 /\ faults = 0
    /\ due = [j \in Journeys |-> [c \in Customers |-> 0]]
    /\ stray = FALSE /\ muddled = {}
-----------------------------------------------------------------------------
(* The customers *)

\* A billed visit brings the customer to the foot of the ladder; the bill does not write
\* the stage.  The first one may be billed in two bills.
Visit(c) ==
    /\ clock[c] # 1 /\ visits < MaxVisits
    /\ visits' = visits + 1
    /\ clock' = [clock EXCEPT ![c] = 1]
    /\ \/ sameDay' = sameDay \ {c}
       \/ clock[c] = 0 /\ sameDay' = sameDay \cup {c}
    /\ UNCHANGED <<stage, roll, rollups, pc, rows, held, asks, faults, tale>>

\* "Time simply passes."
Pass(c) ==
    /\ clock[c] \in 1..(Top - 1)
    /\ clock' = [clock EXCEPT ![c] = @ + 1]
    /\ due' = [j \in Journeys |->
          IF clock[c] + 1 \in Wants[j] THEN [due[j] EXCEPT ![c] = @ + 1] ELSE due[j]]
    /\ UNCHANGED <<stage, roll, sameDay, visits, rollups, pc, rows, held, asks, faults, stray,
                   muddled>>

\* Customers whose stage somebody has worked out and not yet written.
Pending == {c \in Customers : roll[c] # -1 \/ \E s \in Sweeps : \E r \in rows[s] : r.customer = c}

\* visitRhythm(): the rollup counts from the first hour of the last day, where the sweep
\* counts from the bill, so it may be a day and a stage or more ahead; and it counts days,
\* where the sweep counts bills, so that two bills of one day are one visit to it.
Reckoned(c) ==
    IF c \in sameDay THEN 1..Top ELSE IF clock[c] = 0 THEN {0} ELSE clock[c]..Top

\* recalculateCustomerRollups, of a merge, of a button or of the sweep's own backfill,
\* which comes again every night for those it cannot find a rhythm for.
AskRollup(c) ==
    /\ roll[c] = -1
    /\ \/ rollups < MaxRollups /\ rollups' = rollups + 1
       \/ c \in sameDay /\ UNCHANGED rollups
    /\ \E to \in Reckoned(c) : roll' = [roll EXCEPT ![c] = to]
    /\ muddled' = IF c \in Pending \cup sameDay THEN muddled \cup {c} ELSE muddled
    /\ UNCHANGED <<stage, clock, sameDay, visits, pc, rows, held, asks, faults, due, stray>>

CommitRollup(c) ==
    /\ roll[c] # -1
    /\ stage' = [stage EXCEPT ![c] = roll[c]]
    /\ roll' = [roll EXCEPT ![c] = -1]
    /\ UNCHANGED <<clock, sameDay, visits, rollups, pc, rows, held, asks, faults, tale>>
-----------------------------------------------------------------------------
(* The sweep *)

Moved(c) == stage[c] # clock[c]

\* A crossing, and whether it is one to chase: "only a move UP the ladder", and not that
\* of a row whose stage was never computed.
Crossing(c) ==
    [customer |-> c, to |-> clock[c], up |-> clock[c] > stage[c] /\ stage[c] # 0]

\* Faulty variant: somebody who came in is not written back.
ReadRowsClimbing(s) ==
    LET read == {c \in Customers : stage[c] < clock[c]} IN
    /\ pc[s] = "idle" /\ read # {}
    /\ rows' = [rows EXCEPT ![s] = {Crossing(c) : c \in read}]
    /\ pc' = [pc EXCEPT ![s] = "write"]
    /\ muddled' = muddled \cup (read \cap Pending)
    /\ UNCHANGED <<book, held, asks, faults, due, stray>>

\* The page: rows whose stage is not the stored one any more.
ReadRows(s) ==
    LET read == {c \in Customers : Moved(c)} IN
    /\ pc[s] = "idle" /\ read # {}
    /\ rows' = [rows EXCEPT ![s] = {Crossing(c) : c \in read}]
    /\ pc' = [pc EXCEPT ![s] = "write"]
    /\ muddled' = muddled \cup (read \cap Pending)
    /\ UNCHANGED <<book, held, asks, faults, due, stray>>

Took(s, r) ==
    /\ pc[s] = "write" /\ r \in rows[s]
    /\ rows' = [rows EXCEPT ![s] = @ \ {r}]
    /\ held' = IF Cardinality(held[s]) < MaxHeld THEN [held EXCEPT ![s] = @ \cup {r}] ELSE held
    /\ UNCHANGED <<clock, roll, sameDay, visits, rollups, pc, asks, due, stray>>

\* Faulty variant: a crossing that is kept is not written.
WriteStageOnlyQuietly(s, r) ==
    /\ Took(s, r)
    /\ stage' = IF held' = held THEN [stage EXCEPT ![r.customer] = r.to] ELSE stage
    /\ UNCHANGED <<faults, muddled>>

\* "The crossing, recorded before the write."
WriteStage(s, r) ==
    /\ Took(s, r)
    /\ stage' = [stage EXCEPT ![r.customer] = r.to]
    /\ UNCHANGED <<faults, muddled>>

\* The update throws: "lifecycle stage update failed", and the loop goes on.
WriteFails(s, r) ==
    /\ faults < MaxFaults
    /\ Took(s, r)
    /\ faults' = faults + 1
    /\ muddled' = muddled \cup {r.customer}
    /\ UNCHANGED stage

\* selectCrossings: a wanted stage, further up the ladder, of a customer known well enough.
Eligible(s, j) == {r \in held[s] : r.to \in Wants[j] /\ r.up /\ r.customer \in Earned[j]}

\* "Most overdue first", and no more than the cap.
Chosen(s, j) ==
    LET all == Eligible(s, j)
        n == IF Cardinality(all) < MaxPerRun THEN Cardinality(all) ELSE MaxPerRun
    IN  {some \in SUBSET all : Cardinality(some) = n}

\* dispatchVisitDue, after the stages are written.
DispatchVisitDue(s) ==
    /\ pc[s] = "write" /\ rows[s] = {}
    /\ \E pick \in [Journeys -> SUBSET held[s]] :
          /\ \A j \in Journeys : pick[j] \in Chosen(s, j)
          /\ asks' = asks \cup {<<r.customer, r.to>> : r \in UNION {pick[j] : j \in Journeys}}
          /\ due' = [j \in Journeys |-> [c \in Customers |->
                 IF c \in muddled THEN 0
                 ELSE due[j][c] - Cardinality({r \in pick[j] : r.customer = c})]]
    /\ held' = [held EXCEPT ![s] = {}]
    /\ pc' = [pc EXCEPT ![s] = "idle"]
    /\ UNCHANGED <<book, rows, faults, stray, muddled>>

\* The process dies, or a query throws: the job is retried from the top, and what was
\* kept in memory is gone.
Crash(s) ==
    /\ pc[s] = "write" /\ faults < MaxFaults
    /\ faults' = faults + 1
    /\ rows' = [rows EXCEPT ![s] = {}] /\ held' = [held EXCEPT ![s] = {}]
    /\ pc' = [pc EXCEPT ![s] = "idle"]
    /\ UNCHANGED <<book, asks, tale>>
-----------------------------------------------------------------------------
(* The journeys *)

\* triggerJourney: every active journey of the trigger, but where an earlier run of the
\* customer is still ACTIVE.  The job carries the stage and not the journey that asked.
TriggerJourney(ask) ==
    /\ ask \in asks
    /\ asks' = asks \ {ask}
    /\ \E begin \in SUBSET Journeys : stray' = (stray \/ \E j \in begin : ask[2] \notin Wants[j])
    /\ UNCHANGED <<book, pc, rows, held, faults, due, muddled>>
-----------------------------------------------------------------------------
Sweep(s) ==
    \/ ReadRows(s) \/ DispatchVisitDue(s) \/ Crash(s)
    \/ \E r \in rows[s] : WriteStage(s, r) \/ WriteFails(s, r)

Next ==
    \/ \E s \in Sweeps : Sweep(s)
    \/ \E c \in Customers : Visit(c) \/ Pass(c) \/ AskRollup(c) \/ CommitRollup(c)
    \/ \E ask \in asks : TriggerJourney(ask)

Spec == Init /\ [][Next]_vars

\* The sweep comes every night, and a request that has begun goes on.
FairSpec ==
    /\ Spec
    /\ \A s \in Sweeps : WF_vars(Sweep(s))
    /\ \A c \in Customers : WF_vars(CommitRollup(c))
-----------------------------------------------------------------------------
\* "CROSSING, NOT SITTING": a journey is asked to take a customer no more often than
\* time has carried her into a stage it wants, however often the sweep looks at her,
\* unless two wrote her stage at once, a write of it failed, or all her bills are of one
\* day and a rollup takes them for a single visit.
ChasedPerCrossing == \A j \in Journeys, c \in Customers \ muddled : due[j][c] >= 0

\* "The stages move with the calendar": once a customer stays where she is, so does her
\* stage, and it is the one the sweep makes of her, whatever failed or overlapped before;
\* except where the backfill of every night undoes it again, for several bills of one day.
StagesCatchUp == \A c \in Customers : <>[](stage[c] = clock[c] \/ c \in sameDay)

\* "Which crossings this journey wants" (visit-due.ts:52): what starts a journey is a
\* crossing into one of its stages.
JourneyGetsItsCrossings == ~stray
=============================================================================
