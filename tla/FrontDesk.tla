----------------------------- MODULE FrontDesk ------------------------------
(***************************************************************************)
(* What people and jobs do about one customer at the same time, away from  *)
(* the till: her WhatsApp thread (Conversation), what she says of a visit  *)
(* (Feedback), the words she is offered for a review (Suggestions) and the *)
(* row of her own (CustomerBook).  They share no column; a behaviour here  *)
(* is a behaviour of the one that is watched.                              *)
(***************************************************************************)
EXTENDS Naturals, FiniteSets

CONSTANTS
    Messages, Stops, Nothing, Handlers, Slots, Parked, Ceilings, MaxDeliveries, MaxTrouble,
    Requests,     \* whoever is at work at the same time, in the other parts
    MaxFaults,
    Links, Strangers,
    Processes, MaxWritten, MaxQuestions,
    Numbers, Limit, MaxAsks

ASSUME CountsAssumption ==
    /\ Ceilings \subseteq Nat \ {0} /\ Stops \subseteq Messages
    /\ Numbers \subseteq Nat \ {0} /\ IsFiniteSet(Numbers)
    /\ {MaxDeliveries, MaxTrouble, MaxFaults, MaxWritten, MaxQuestions, Limit, MaxAsks}
           \subseteq Nat
ASSUME NothingAssumption == Nothing \notin Slots \cup Links

VARIABLES
    watched,      \* "thread", "rating", "words" or "book"
    mode, attention, desk, consent, offer, stored, ceiling, replies, diary, pc, msg,
    hand, answers, told, meant, bookings, wronged, contested, orphaned, promised, excused,
    silenced, tripped, deliveries, trouble,
    stars, complaints, score, alerted, todays, invited, form, link, given, seen, slips, rushed,
    behind, cut,
    drafts, line, analysis, work, bare, draft, screen, written, questions, losses, shown, apart,
    book, lead, statement, way, about, mine, counted, asks, drops, asked, mixed, respelt,
    short, husks

C == INSTANCE Conversation
F == INSTANCE Feedback WITH pc <- form, faults <- slips, crossed <- rushed
S == INSTANCE Suggestions WITH hand <- draft, asks <- questions, faults <- losses,
                               MaxAsks <- MaxQuestions
B == INSTANCE CustomerBook WITH pc <- statement, faults <- drops, crossed <- mixed

thread  == <<mode, attention, desk, consent, offer, stored, ceiling, replies, diary, pc,
             msg, hand, answers, told, meant, bookings, wronged, contested, orphaned, promised,
             excused, silenced, tripped, deliveries, trouble>>
rating  == <<stars, complaints, score, alerted, todays, invited, form, link, given, seen, slips,
             rushed, behind, cut>>
words   == <<drafts, line, analysis, work, bare, draft, screen, written, questions, losses,
             shown, apart>>
people  == <<book, lead, statement, way, about, mine, counted, asks, drops, asked, mixed,
             respelt, short, husks>>
vars    == <<watched, thread, rating, words, people>>

\* The parts that are not watched stand still where they are; one such place is enough.
Init ==
    /\ watched \in {"thread", "rating", "words", "book"}
    /\ C!Init /\ F!Init /\ S!Init /\ B!Init
    /\ watched # "thread" => ceiling = CHOOSE n \in Ceilings : TRUE
    /\ watched # "words" =>
          analysis = "none" /\ work[CHOOSE p \in Processes : TRUE] = "read"

Next ==
    /\ UNCHANGED watched
    /\ \/ watched = "thread" /\ C!Next /\ UNCHANGED <<rating, words, people>>
       \/ watched = "rating" /\ F!Next /\ UNCHANGED <<thread, words, people>>
       \/ watched = "words" /\ S!Next /\ UNCHANGED <<thread, rating, people>>
       \/ watched = "book" /\ B!Next /\ UNCHANGED <<thread, rating, words>>

Spec == Init /\ [][Next]_vars
-----------------------------------------------------------------------------
\* The properties of each, which its module explains.

AnsweredOnce == C!AnsweredOnce
YesBooksTheOffer == C!YesBooksTheOffer
PromiseIsFlagged == C!PromiseIsFlagged
RatingIsFollowedUp == F!RatingIsFollowedUp
SuggestionsStay == S!SuggestionsStay
BookIsInOrder == B!BookIsInOrder
=============================================================================
