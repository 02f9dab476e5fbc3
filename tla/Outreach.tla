------------------------------ MODULE Outreach ------------------------------
(***************************************************************************)
(* The two ways in which the salon reaches out to many customers at once:  *)
(* the fan-out of a campaign (Campaign) and the nightly sweep that chases  *)
(* who is due (VisitDue).  Both are handlers of the job queue that hand    *)
(* their messages on as jobs.  They share no column, so a behaviour here   *)
(* is a behaviour of the one that is watched.                              *)
(***************************************************************************)
EXTENDS Naturals, FiniteSets

CONSTANTS
    Runners,      \* worker processes: each may fan out, or sweep
    Members, Callers, MaxAttempts, MaxCalls, MaxCrashes, SlowFanOut,
    Customers, Journeys, Wants, Earned, MaxPerRun, MaxHeld, Top, MaxVisits, MaxRollups, MaxFaults

ASSUME MembersAssumption == IsFiniteSet(Members)
ASSUME RunnersAssumption == IsFiniteSet(Runners)
ASSUME CountsAssumption ==
    /\ {MaxAttempts, MaxPerRun, MaxHeld, Top} \subseteq Nat \ {0}
    /\ {MaxCrashes, MaxCalls, MaxVisits, MaxRollups, MaxFaults} \subseteq Nat
    /\ SlowFanOut \in BOOLEAN

\* CHASEABLE_STAGES: nobody is chased to a stage at the foot of the ladder.
ASSUME JourneysAssumption ==
    /\ Wants \in [Journeys -> SUBSET (2..Top)]
    /\ Earned \in [Journeys -> SUBSET Customers]

VARIABLES
    watched,      \* "campaign" or "cycle"
    status, typed, job, tries, rows, queued, sends, attribution, gone, api, pc, left, messaged,
    at, calls, crashes,
    stage, clock, night, crossings, held, asks, roll, sameDay, visits, rollups, faults, due,
    stray, muddled

K == INSTANCE Campaign
V == INSTANCE VisitDue WITH pc <- night, rows <- crossings, Sweeps <- Runners

fanOut == <<status, typed, job, tries, rows, queued, sends, attribution, gone, api, pc, left,
            messaged, at, calls, crashes>>
cycle  == <<stage, clock, night, crossings, held, asks, roll, sameDay, visits, rollups,
            faults, due, stray, muddled>>
vars   == <<watched, fanOut, cycle>>

Init ==
    /\ watched \in {"campaign", "cycle"}
    /\ K!Init /\ V!Init
    /\ watched = "cycle" => status = "DRAFT"
    /\ watched = "campaign" => clock = [c \in Customers |-> 0] /\ sameDay = {}

Next ==
    /\ UNCHANGED watched
    /\ \/ watched = "campaign" /\ K!Next /\ UNCHANGED cycle
       \/ watched = "cycle" /\ V!Next /\ UNCHANGED fanOut

Spec == Init /\ [][Next]_vars

\* Steps of the part that is watched, the other standing still.
InCampaign(step) == watched = "campaign" /\ step /\ UNCHANGED <<watched, cycle>>
InCycle(step) == watched = "cycle" /\ step /\ UNCHANGED <<watched, fanOut>>

\* A worker goes on with its job, and the night's job comes every night; a request that
\* has begun goes on.  Only one part moves: one condition of fairness serves both.
FairSpec ==
    /\ Spec
    /\ \A r \in Runners : WF_vars(InCampaign(K!Dispatch(r)) \/ InCycle(V!Sweep(r)))
    /\ \A a \in Callers : WF_vars(InCampaign(K!CarryOn(a)))
    /\ \A c \in Customers : WF_vars(InCycle(V!CommitRollup(c)))
-----------------------------------------------------------------------------
\* The properties of each, which its module explains.

EverybodyOnce == K!EverybodyOnce
StartedFinishes == watched = "campaign" => K!StartedFinishes

ChasedPerCrossing == V!ChasedPerCrossing
StagesCatchUp == watched = "cycle" => V!StagesCatchUp

\* "Which crossings this journey wants." (visit-due.ts:52): no journey is started by a
\* crossing that only another one asked for.
JourneyGetsItsCrossings == V!JourneyGetsItsCrossings
=============================================================================
