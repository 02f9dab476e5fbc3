---------------------------- MODULE Automations ----------------------------
(***************************************************************************)
(* Three things the salon's machine does on its own, in jobs: a customer's *)
(* way through a journey, a picture, and the day's pictures.  They share   *)
(* no row, and a worker that is busy with one is to the others a worker    *)
(* that has not come by; so what can happen to any one of them is what     *)
(* can happen to it alone.  A behaviour here is a behaviour of one of the  *)
(* three, the one that is watched.                                         *)
(***************************************************************************)
EXTENDS Naturals, Sequences, FiniteSets

CONSTANTS
    Workers, MaxDeaths, MaxStops,
    Events, NoReference, Lead, Subjects, MaxRuns, Nobody, Plans, StepTries, MaxTouches,
    Pictures, Nothing, MaxPolls, SubmitTries, MaxHours,
    DayPictures, Callers, Limits

ASSUME PlansAssumption ==
    /\ Plans \subseteq Seq({"SEND_MESSAGE", "EXIT_IF_BOOKED"}) /\ <<>> \notin Plans
    /\ \E p \in Plans : \A q \in Plans : Len(q) <= Len(p)
ASSUME NobodyAssumption == Nobody \notin Events \cup Nat
ASSUME BoundsAssumption ==
    /\ {StepTries, SubmitTries, MaxPolls} \subseteq Nat \ {0}
    /\ {MaxRuns, MaxDeaths, MaxStops, MaxTouches, MaxHours} \subseteq Nat /\ Limits \subseteq Nat
ASSUME DayAssumption == IsFiniteSet(DayPictures) /\ IsFiniteSet(Callers)

VARIABLES
    watched,      \* "journey", "picture" or "day"
    active, steps, about, trigger, run, advance, waiting, pc, event, hand, job, read, tried,
    again, early, met, lost, deaths, edits, cancels,
    status, polls, givenUp, submits, checks, task, picture, key, paid, doubt, threw, rewound,
    overlapped, stops,
    limit, kind, state, api, wanted, used, peak

J == INSTANCE Journey WITH MaxAttempts <- StepTries
G == INSTANCE Generation WITH pc <- task, hand <- picture, deaths <- stops,
                              MaxDeaths <- MaxStops, MaxAttempts <- SubmitTries
D == INSTANCE DailyCap WITH status <- state, Pictures <- DayPictures

journey == <<active, steps, about, trigger, run, advance, waiting, pc, event, hand, job, read,
             tried, again, early, met, lost, deaths, edits, cancels>>
drawing == <<status, polls, givenUp, submits, checks, task, picture, key, paid, doubt, threw,
             rewound, overlapped, stops>>
day     == <<limit, kind, state, api, wanted, used, peak>>
vars    == <<watched, journey, drawing, day>>

Init ==
    /\ watched \in {"journey", "picture", "day"}
    /\ J!Init /\ G!Init /\ D!Init
    /\ watched # "journey" => steps = CHOOSE p \in Plans : TRUE
    /\ watched # "day" => limit = CHOOSE l \in Limits : TRUE

Next ==
    /\ UNCHANGED watched
    /\ \/ watched = "journey" /\ J!Next /\ UNCHANGED <<drawing, day>>
       \/ watched = "picture" /\ G!Next /\ UNCHANGED <<journey, day>>
       \/ watched = "day" /\ D!Next /\ UNCHANGED <<journey, drawing>>

Spec == Init /\ [][Next]_vars
-----------------------------------------------------------------------------
\* The properties of each, which its module explains.

StepsInTurn == J!StepsInTurn
NoRunIsStranded == J!NoRunIsStranded

PaidOnce == G!PaidOnce
NoPictureIsStranded == G!NoPictureIsStranded
OvershootIsTheCrowd == D!OvershootIsTheCrowd
=============================================================================
