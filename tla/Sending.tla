------------------------------- MODULE Sending -------------------------------
(***************************************************************************)
(* What decides about one message before it is handed to the provider: the *)
(* meter (Quota), the gates and the log of queueMessage() (Outbox) and the *)
(* template it goes out under (Templates).  Outbox knows what the meter    *)
(* and the template answer and nothing else of them, so a behaviour here   *)
(* is a behaviour of the one that is watched.                              *)
(***************************************************************************)
EXTENDS Quota

CONSTANTS
    Calls, Allowance, MaxChanges,
    Requests, Wordings, MaxAsks, MaxEdits, MaxMoves, MaxFaults

ASSUME CallsAssumption == IsFiniteSet(Calls)
ASSUME NumbersAssumption == Allowance \in Nat /\ MaxChanges \in Nat
ASSUME WordingsAssumption == 0 \notin Wordings   \* 0 is no wording at all

VARIABLES
    watched,      \* "meter", "gates" or "template"
    consent, refusedFor, marketing, wroteToday, allowance, step, channel, content, customer,
    log, job, deaths, changes, paid, allowed, sold, died,
    template, meta, ids, stage, mine, theirs, asks, edits, moves, faults, strayed, crossed

O == INSTANCE Outbox WITH pc <- step, row <- log, crashes <- deaths
T == INSTANCE Templates WITH pc <- stage, row <- template

gates   == <<consent, refusedFor, marketing, wroteToday, allowance, step, channel, content,
             customer, log, job, deaths, changes, paid, allowed, sold, died>>
wording == <<template, meta, ids, stage, mine, theirs, asks, edits, moves, faults, strayed,
             crossed>>

\* The parts that are not watched stand still where they are; one such place is enough.
SendingInit ==
    /\ watched \in {"meter", "gates", "template"}
    /\ Init /\ O!Init /\ T!Init
    /\ watched # "meter" => ~hasConfig
    /\ watched # "gates" =>
          consent = [ch \in O!Channels |-> "UNKNOWN"] /\ ~marketing /\ ~wroteToday
    /\ watched # "template" => template.wording = CHOOSE w \in Wordings : TRUE

SendingNext ==
    /\ UNCHANGED watched
    /\ \/ watched = "meter" /\ Next /\ UNCHANGED <<gates, wording>>
       \/ watched = "gates" /\ O!Next /\ UNCHANGED <<vars, wording>>
       \/ watched = "template" /\ T!Next /\ UNCHANGED <<vars, gates>>

SendingSpec == SendingInit /\ [][SendingNext]_<<watched, vars, gates, wording>>
-----------------------------------------------------------------------------
\* The properties of each, which its module explains; those of Quota are here as they are.

PaidIffQueued == O!PaidIffQueued
AllowedAtSomeMoment == O!AllowedAtSomeMoment
ValuesInMetasOrder == T!ValuesInMetasOrder
=============================================================================
