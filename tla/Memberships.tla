----------------------------- MODULE Memberships ----------------------------
(***************************************************************************)
(* The memberships of one customer: selling and renewing them, using their *)
(* free sessions on bills, voiding those bills, cancelling, and the sweep  *)
(* (memberships/membership.service.ts, billing/billing.service.ts).        *)
(*                                                                         *)
(* A bill sells a membership inside its transaction, the counter without   *)
(* one.  Both look for the customer's membership first, and nothing but    *)
(* that look keeps her from having two.  Time is counted in days.          *)
(***************************************************************************)
EXTENDS Naturals, Sequences, FiniteSets

CONSTANTS
    Clerks,      \* requests at work at the same time
    Plans,       \* membership plans, all of the same length
    Duration,    \* MembershipPlan.durationDays
    Quantity,    \* MembershipPlanBenefit.quantity, of the one free service
    MaxDays, MaxSold, MaxUses, MaxFaults   \* bounds

VARIABLES
    today,
    subs,      \* the MembershipSubscriptions, in the order of their sale
    lines,     \* lines of bills that used a free session
    pc,        \* pc[c]: the next statement of a request
    plan,      \* plan[c]: what it sells
    found,     \* found[c]: the subscription it has read, 0 for none
    named,     \* named[c]: the till names the subscription on the line
    faults,    \* bound
    crossed,   \* history: two sales at once, one that was cut short, or a merge
    overused   \* history: subscriptions that two bills used at once

rows    == <<today, subs, lines>>
request == <<pc, plan, found, named>>
vars    == <<rows, request, faults, crossed, overused>>

\* Of a request that sells nothing.
AnyPlan == CHOOSE p \in Plans : TRUE

Init ==
    /\ today = 0 /\ subs = <<>> /\ lines = <<>>
    /\ pc = [c \in Clerks |-> "idle"]
    /\ plan = [c \in Clerks |-> AnyPlan]
    /\ found = [c \in Clerks |-> 0] /\ named = [c \in Clerks |-> FALSE]
    /\ faults = 0 /\ crossed = FALSE /\ overused = {}

Goto(c, statement) == pc' = [pc EXCEPT ![c] = statement]

\* The request is over, and what it has read is gone.
End(c) ==
    /\ Goto(c, "idle")
    /\ plan' = [plan EXCEPT ![c] = AnyPlan]
    /\ found' = [found EXCEPT ![c] = 0]
    /\ named' = [named EXCEPT ![c] = FALSE]

\* ACTIVE, and its end has not come.
Live == {i \in DOMAIN subs : subs[i].status = "ACTIVE" /\ subs[i].end >= today}

Selling(c) == pc[c] \in {"bill", "expire", "create"}
-----------------------------------------------------------------------------
(* Selling *)

\* subscribe: the first live one that comes, if there is any.
AskSell(c, p, statement) ==
    /\ pc[c] = "idle"
    /\ Len(subs) + Cardinality({d \in Clerks : Selling(d)}) < MaxSold
    /\ plan' = [plan EXCEPT ![c] = p]
    /\ \E i \in Live \cup {0} : (i = 0 <=> Live = {}) /\ found' = [found EXCEPT ![c] = i]
    /\ Goto(c, IF statement = "expire" /\ Live = {} THEN "create" ELSE statement)
    /\ crossed' = (crossed \/ \E d \in Clerks : Selling(d))
    /\ UNCHANGED <<rows, named, faults, overused>>

\* Faulty variant: a renewal counts from today.
StartsToday(c) == today

\* "Renewals extend from the current expiry rather than from today."
Starts(c) ==
    IF found[c] # 0 /\ subs[found[c]].plan = plan[c] THEN subs[found[c]].end ELSE today

New(c) ==
    [plan |-> plan[c], start |-> Starts(c), end |-> Starts(c) + Duration, status |-> "ACTIVE",
     used |-> 0]

Expired(i) == IF i = 0 THEN subs ELSE [subs EXCEPT ![i].status = "EXPIRED"]

\* On a bill the old one ends with the transaction that starts the new one.
SellOnBill(c) ==
    /\ pc[c] = "bill"
    /\ subs' = Append(Expired(found[c]), New(c))
    /\ End(c)
    /\ UNCHANGED <<today, lines, faults, crossed, overused>>

\* At the counter it ends first.
Expire(c) ==
    /\ pc[c] = "expire"
    /\ subs' = Expired(found[c])
    /\ Goto(c, "create")
    /\ UNCHANGED <<today, lines, plan, found, named, faults, crossed, overused>>

Create(c) ==
    /\ pc[c] = "create"
    /\ subs' = Append(subs, New(c))
    /\ End(c)
    /\ UNCHANGED <<today, lines, faults, crossed, overused>>

\* mergeCustomers: a duplicate of hers brings the membership it was sold, and whatever
\* she has goes on beside it.  (One that has not been used; what it is is kept.)
Merge(p, start) ==
    /\ Len(subs) + Cardinality({c \in Clerks : Selling(c)}) < MaxSold
    /\ subs' = Append(subs, [plan |-> p, start |-> start, end |-> start + Duration,
                             status |-> "ACTIVE", used |-> 0])
    /\ crossed' = TRUE
    /\ UNCHANGED <<today, lines, request, faults, overused>>
-----------------------------------------------------------------------------
(* Using *)

Using(c) == pc[c] \in {"usage", "use"}

\* createInvoice: activeMembership takes the one that ends last; the line may name
\* another, which nobody asks whether it is active.
AskUse(c, i, names) ==
    /\ pc[c] = "idle" /\ Len(lines) + Cardinality({d \in Clerks : Using(d)}) < MaxUses
    /\ names \/ (i \in Live /\ \A j \in Live : subs[j].end <= subs[i].end)
    /\ found' = [found EXCEPT ![c] = i]
    /\ named' = [named EXCEPT ![c] = names]
    /\ Goto(c, "usage")
    /\ UNCHANGED <<rows, plan, faults, crossed, overused>>

\* consumeBenefit, in the transaction of the bill.
ReadUsage(c) ==
    /\ pc[c] = "usage"
    /\ IF subs[found[c]].used + 1 > Quantity
       THEN End(c)
       ELSE Goto(c, "use") /\ UNCHANGED <<plan, found, named>>
    /\ UNCHANGED <<rows, faults, crossed, overused>>

Use(c) ==
    LET i == found[c] IN
    /\ pc[c] = "use"
    /\ subs' = [subs EXCEPT ![i].used = @ + 1]
    /\ lines' = Append(lines, [sub |-> i, named |-> named[c], void |-> FALSE])
    /\ overused' = IF \E d \in Clerks \ {c} : pc[d] = "use" /\ found[d] = i
                   THEN overused \cup {i} ELSE overused
    /\ End(c)
    /\ UNCHANGED <<today, faults, crossed>>

\* voidInvoice: what the line names gets its session back, and a line that names nothing
\* gives none back.  (Two voids of one bill at once are in Billing.)
Void(l) ==
    /\ ~lines[l].void
    /\ lines' = [lines EXCEPT ![l].void = TRUE]
    /\ subs' = IF lines[l].named THEN [subs EXCEPT ![lines[l].sub].used = @ - 1] ELSE subs
    /\ UNCHANGED <<today, request, faults, crossed, overused>>
-----------------------------------------------------------------------------
(* The end of a membership *)

\* cancelSubscription, whatever its status.
Cancel(i) ==
    /\ subs' = [subs EXCEPT ![i].status = "CANCELLED"]
    /\ UNCHANGED <<today, lines, request, faults, crossed, overused>>

\* expireMemberships, every night.
ExpireMemberships ==
    /\ subs' = [i \in DOMAIN subs |->
          IF subs[i].status = "ACTIVE" /\ subs[i].end < today
          THEN [subs[i] EXCEPT !.status = "EXPIRED"] ELSE subs[i]]
    /\ UNCHANGED <<today, lines, request, faults, crossed, overused>>

NextDay ==
    /\ today < MaxDays /\ today' = today + 1
    /\ UNCHANGED <<subs, lines, request, faults, crossed, overused>>

\* A statement throws or the process dies: a transaction leaves nothing behind.
Fail(c) ==
    /\ pc[c] # "idle" /\ faults < MaxFaults
    /\ faults' = faults + 1
    /\ crossed' = (crossed \/ pc[c] = "create")
    /\ End(c)
    /\ UNCHANGED <<rows, overused>>
-----------------------------------------------------------------------------
Sell(c) ==
    \/ \E p \in Plans, statement \in {"bill", "expire"} : AskSell(c, p, statement)
    \/ SellOnBill(c) \/ Expire(c) \/ Create(c)
Spend(c) ==
    \/ \E i \in DOMAIN subs, names \in BOOLEAN : AskUse(c, i, names)
    \/ ReadUsage(c) \/ Use(c)

Next ==
    \/ \E c \in Clerks : Sell(c) \/ Spend(c) \/ Fail(c)
    \/ \E l \in DOMAIN lines : Void(l)
    \/ \E i \in DOMAIN subs : Cancel(i)
    \/ \E p \in Plans, start \in 0..today : Merge(p, start)
    \/ ExpireMemberships \/ NextDay

Spec == Init /\ [][Next]_vars
-----------------------------------------------------------------------------
\* Lines that used a session of i and have not given it back: those of bills that stand,
\* and those of voided bills that name no subscription.  (The void means to "give back any
\* package sessions and membership benefits that were used"; of the latter it cannot, for
\* the line does not say what it used.)
Spent(i) ==
    Cardinality({l \in DOMAIN lines : lines[l].sub = i /\ (lines[l].void => ~lines[l].named)})

\* A customer has one membership, and renewing it early costs her no day of it: two of
\* one plan, sold one after the other and not cancelled, do not overlap - unless two
\* sales crossed, one stopped between the end of the old and the start of the new, or a
\* duplicate with a membership was merged into her.  No more sessions are used than the
\* plan includes, unless two bills took the last one at once; and none is lost or given
\* twice but by the void of a line that does not name what it used, which loses it.
MembershipAddsUp ==
    /\ ~crossed =>
          /\ Cardinality(Live) <= 1
          /\ \A i \in 1..Len(subs) - 1 :
                subs[i].plan = subs[i + 1].plan /\ subs[i].status # "CANCELLED" =>
                    subs[i].end <= subs[i + 1].start
    /\ \A i \in DOMAIN subs :
          /\ subs[i].used = Spent(i)
          /\ i \notin overused => subs[i].used <= Quantity
=============================================================================
