-------------------------------- MODULE Diary --------------------------------
(***************************************************************************)
(* The diary of one branch seen from its two ends: requests that read it   *)
(* and write it later, with statuses, reminders and the sweep (Booking);   *)
(* and one day of it in every detail that decides whether a time is        *)
(* offered and let in (Slots).  Both have the appointments, each in the    *)
(* grain its questions need; a behaviour here is a behaviour of the one    *)
(* that is watched.                                                        *)
(***************************************************************************)
EXTENDS Booking

CONSTANTS Staff, Windows, Shifts, TimeOff, Midnight, Caps, Wanted, MaxBooked, MaxNow

\* Times are those of one day (core/validators.ts:52), services take time (catalog.schema.ts:19).
Hours == [from : 0..Midnight, until : 0..Midnight]

ASSUME DayAssumption ==
    /\ Midnight \in Nat \ {0} /\ Caps \subseteq Nat /\ Nobody \notin Staff
    /\ Wanted \subseteq Seq([length : Nat \ {0}, buffer : Nat]) \ {<<>>}
    /\ Windows \subseteq Hours
    /\ \A s \in Staff : Shifts[s] \subseteq Hours /\ TimeOff[s] \subseteq Hours

VARIABLES
    watched,           \* "requests" or "times"
    taken, cap, clock

D == INSTANCE Slots WITH Menu <- Wanted, diary <- taken, now <- clock

times == <<taken, cap, clock>>

DiaryInit ==
    /\ watched \in {"requests", "times"}
    /\ Init /\ D!Init
    /\ watched # "times" => cap = CHOOSE c \in Caps : TRUE

DiaryNext ==
    /\ UNCHANGED watched
    /\ \/ watched = "requests" /\ Next /\ UNCHANGED times
       \/ watched = "times" /\ D!Next /\ UNCHANGED vars

everything == <<watched, vars, times>>

InRequests(step) == watched = "requests" /\ step /\ UNCHANGED <<watched, times>>

\* The clock goes on, requests are carried to their end, the sweep keeps running.
DiarySpec ==
    /\ DiaryInit /\ [][DiaryNext]_everything
    /\ WF_everything(InRequests(Tick)) /\ WF_everything(InRequests(Sweep))
    /\ \A d \in Desks : WF_everything(InRequests(Writing(d)))
-----------------------------------------------------------------------------
\* What its module explains, for the part that is watched; the other properties of
\* Booking are here as they are.

OverdueIsMarked == watched = "requests" => NoShowsAreMarked
OfferedIsBookable == watched = "times" => D!OfferedIsBookable
=============================================================================
