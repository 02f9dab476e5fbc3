-------------------------------- MODULE Till ---------------------------------
(***************************************************************************)
(* Money, and what is counted beside it: the bills (Billing), the          *)
(* commission their lines earn until the payroll pays it (Commission), the *)
(* stock that is bought and adjusted away from the till (StockRoom), the   *)
(* memberships whose sessions bills use (Memberships) and the points of    *)
(* the customer (Points).  The last four take of a bill what concerns      *)
(* them; a behaviour here is a behaviour of the one that is watched.       *)
(***************************************************************************)
EXTENDS Billing

CONSTANTS
    Lines, MaxEntryStarts,
    Products, Ordered, MaxOrders, MaxFaults,
    Plans, Duration, Quantity, MaxDays, MaxSold, MaxUses,
    Lots, Worth, MaxPointStarts, MaxDeaths

ASSUME WorthAssumption == Worth \in Nat \ {0}

ASSUME FiniteAssumption == IsFiniteSet(Desks) /\ IsFiniteSet(Lots)

\* An order is for something, and for more than none of it.
ASSUME OrderAssumption == Products # {} /\ Ordered \in Nat \ {0}

ASSUME PlanAssumption == Plans # {} /\ Duration \in Nat \ {0} /\ Quantity \in Nat \ {0}

VARIABLES
    watched,      \* "bills", "month", "shelf", "plan" or "points"
    bill, unpaid, paid, payroll, slip, marked, statement, line, first, waiting, changes, moved,
    drifted, overtaken,
    balance, ledger, bought, status, received, at, amount, order, seen, orders, faults, crossed,
    unlogged, torn,
    today, subs, lines, pc, plan, found, named, losses, mixed, overused,
    loyalty, entries, lots, voided, challenge, next, read, sum, batch, undoing, starts, deaths,
    raced, outrun, missed, taken, rewards, ripped

E == INSTANCE Commission WITH Requests <- Desks, MaxStarts <- MaxEntryStarts,
                              pc <- statement, starts <- changes, crossed <- overtaken
R == INSTANCE StockRoom WITH Clerks <- Desks, MaxRequests <- MaxOrders,
                             stock <- balance, pc <- at, requests <- orders
P == INSTANCE Points WITH Requests <- Desks, MaxStarts <- MaxPointStarts, points <- loyalty,
                          ledger <- entries, pc <- next, seen <- read, amount <- sum, invoice <- undoing,
                          crossed <- raced, unlogged <- missed, torn <- ripped
M == INSTANCE Memberships WITH Clerks <- Desks, faults <- losses, crossed <- mixed

month == <<bill, unpaid, paid, payroll, slip, marked, statement, line, first, waiting, changes,
           moved, drifted, overtaken>>
shelf == <<balance, ledger, bought, status, received, at, amount, order, seen, orders, faults,
           crossed, unlogged, torn>>
sold  == <<today, subs, lines, pc, plan, found, named, losses, mixed, overused>>
account == <<loyalty, entries, lots, voided, challenge, next, read, sum, batch, undoing, starts,
             deaths, raced, outrun, missed, taken, rewards, ripped>>

TillInit ==
    /\ watched \in {"bills", "month", "shelf", "plan", "points"}
    /\ Init /\ E!Init /\ R!Init /\ M!Init /\ P!Init

TillNext ==
    /\ UNCHANGED watched
    /\ \/ watched = "bills" /\ Next /\ UNCHANGED <<month, shelf, sold, account>>
       \/ watched = "month" /\ E!Next /\ UNCHANGED <<vars, shelf, sold, account>>
       \/ watched = "shelf" /\ R!Next /\ UNCHANGED <<vars, month, sold, account>>
       \/ watched = "plan" /\ M!Next /\ UNCHANGED <<vars, month, shelf, account>>
       \/ watched = "points" /\ P!Next /\ UNCHANGED <<vars, month, shelf, sold>>

TillSpec == TillInit /\ [][TillNext]_<<watched, vars, month, shelf, sold, account>>
-----------------------------------------------------------------------------
\* The properties of each, which its module explains; those of Billing are here as they are.

SlipPaysWhatItMarks == E!SlipPaysWhatItMarks
StockIsExplained == R!StockIsExplained
MembershipAddsUp == M!MembershipAddsUp
PointsAddUp == P!PointsAddUp
=============================================================================
