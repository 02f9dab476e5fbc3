------------------------------- MODULE Points -------------------------------
(***************************************************************************)
(* The points of one customer: requests and jobs that read                 *)
(* Customer.loyaltyPoints and write it back changed (adjustPoints,         *)
(* redeemReward, the referral, feedback, journey and challenge bonuses,    *)
(* the void of a bill), the points that bills earn and use, which are an   *)
(* increment and a decrement, and the nightly sweep that expires them      *)
(* (loyalty/loyalty.service.ts).  Every process registers the nightly      *)
(* schedules and queues its jobs without a key, so two of them may run     *)
(* the same sweep.                                                         *)
(***************************************************************************)
EXTENDS Integers, FiniteSets

CONSTANTS
    Requests,   \* requests and jobs at work at the same time
    Lots,       \* bills, with the EARN or the REDEEM transaction of each
    Worth,      \* points a bill earns
    MaxStarts,  \* bound: requests and jobs started
    MaxDeaths   \* bound: processes that die, statements that throw

VARIABLES
    points,     \* Customer.loyaltyPoints
    ledger,     \* the sum of the customer's LoyaltyTransactions
    lots,       \* lots[l]: no bill yet; its points fresh, due, or with expiresAt cleared;
                \* or a bill that used points
    voided,     \* bills that are VOID
    challenge,  \* ChallengeEnrollment.status
    pc,         \* pc[p]: the next statement of a request or job
    seen,       \* seen[p]: the balance it read
    amount,     \* amount[p]: the points it will add
    batch,      \* batch[p]: the due lots a sweep has found
    invoice,    \* invoice[p]: the bill it voids
    starts, deaths, \* bounds
    crossed,    \* history: the balance was written between a read and the write for it
    outrun,     \* history: the balance was written between a redemption's check and its
                \* decrement
    unlogged,   \* history: points of no entry: given and never logged, or kept since a void
                \* found them spent; less the entries of a customer merged into this one
    taken,      \* history: taken[l], times the lot was in what a sweep took
    rewards,    \* history: times the challenge paid
    torn        \* history: lots, or the challenge, met by two at once or left half done

bills == <<lots, voided, invoice>>
vars == <<points, ledger, bills, challenge, pc, seen, amount, batch, starts, deaths, crossed,
          outrun, unlogged, taken, rewards, torn>>

Init ==
    /\ points = 0 /\ ledger = 0
    /\ lots = [l \in Lots |-> "none"] /\ voided = {} /\ challenge = "ACTIVE"
    /\ pc = [p \in Requests |-> "idle"] /\ seen = [p \in Requests |-> 0]
    /\ amount = [p \in Requests |-> 0] /\ batch = [p \in Requests |-> {}]
    /\ invoice = [p \in Requests |-> {}]
    /\ starts = 0 /\ deaths = 0
    /\ crossed = FALSE /\ outrun = FALSE /\ unlogged = 0
    /\ taken = [l \in Lots |-> 0] /\ rewards = 0 /\ torn = {}

Start(p) == pc[p] = "idle" /\ starts < MaxStarts /\ starts' = starts + 1

Goto(p, statement) == pc' = [pc EXCEPT ![p] = statement]

End(p) ==
    /\ Goto(p, "idle")
    /\ seen' = [seen EXCEPT ![p] = 0] /\ amount' = [amount EXCEPT ![p] = 0]

\* Balances that somebody has read and is about to write.
Read == {p \in Requests : pc[p] \in {"write", "raise", "raise reward", "take", "void"}}

\* Redemptions that have checked the balance.
Checked == {p \in Requests : pc[p] = "redeem"}

WriteBalance(p, n) ==
    /\ points' = n
    /\ crossed' = (crossed \/ Read \ {p} # {})
    /\ outrun' = (outrun \/ Checked \ {p} # {})
-----------------------------------------------------------------------------
(* Read, then write both the balance and the ledger in one transaction *)

\* adjustPoints, redeemReward and awardReferral: a balance that would be negative is
\* refused.
Ask(p, n) ==
    /\ Start(p)
    /\ points + n >= 0
    /\ seen' = [seen EXCEPT ![p] = points]
    /\ amount' = [amount EXCEPT ![p] = n]
    /\ Goto(p, "write")
    /\ UNCHANGED bills
    /\ UNCHANGED <<points, ledger, challenge, batch, deaths, crossed, outrun, unlogged,
                   taken, rewards, torn>>

Commit(p) ==
    /\ pc[p] = "write"
    /\ WriteBalance(p, seen[p] + amount[p])
    /\ ledger' = ledger + amount[p]
    /\ End(p)
    /\ UNCHANGED bills
    /\ UNCHANGED <<challenge, batch, starts, deaths, unlogged, taken,
                   rewards, torn>>
-----------------------------------------------------------------------------
(* Bonuses: the balance and the ledger are two statements *)

\* Feedback that was given, a journey step, and a challenge found complete.
ReadForBonus(p, statement) ==
    /\ seen' = [seen EXCEPT ![p] = points]
    /\ amount' = [amount EXCEPT ![p] = 1]
    /\ Goto(p, statement)
    /\ UNCHANGED bills
    /\ UNCHANGED <<points, ledger, challenge, batch, deaths, crossed, outrun, unlogged,
                   taken, rewards, torn>>

AskBonus(p) == Start(p) /\ ReadForBonus(p, "raise")

AskReward(p) == pc[p] = "reward" /\ ReadForBonus(p, "raise reward") /\ UNCHANGED starts

Raise(p) ==
    /\ pc[p] \in {"raise", "raise reward"}
    /\ WriteBalance(p, seen[p] + amount[p])
    /\ rewards' = IF pc[p] = "raise reward" THEN rewards + 1 ELSE rewards
    /\ Goto(p, "log")
    /\ UNCHANGED bills
    /\ UNCHANGED <<ledger, challenge, seen, amount, batch, starts, deaths, unlogged, taken,
                   torn>>

Log(p) ==
    /\ pc[p] = "log"
    /\ ledger' = ledger + amount[p]
    /\ End(p)
    /\ UNCHANGED bills
    /\ UNCHANGED <<points, challenge, batch, starts, deaths, crossed,
                   outrun, unlogged, taken, rewards, torn>>

\* updateProgress looks for ACTIVE enrolments; one whose target is reached is marked
\* by id, whoever marked it before.
Progress(p) ==
    /\ Start(p) /\ challenge = "ACTIVE"
    /\ torn' = IF \E q \in Requests : pc[q] = "complete" THEN torn \cup {"challenge"} ELSE torn
    /\ Goto(p, "complete")
    /\ UNCHANGED bills
    /\ UNCHANGED <<points, ledger, challenge, seen, amount, batch, deaths, crossed,
                   outrun, unlogged, taken, rewards>>

Complete(p) ==
    /\ pc[p] = "complete"
    /\ challenge' = "COMPLETED"
    /\ Goto(p, "reward")
    /\ UNCHANGED bills
    /\ UNCHANGED <<points, ledger, seen, amount, batch, starts, deaths, crossed, outrun,
                   unlogged, taken, rewards, torn>>
-----------------------------------------------------------------------------
(* Bills *)

\* redeemPoints, in the transaction of a bill: no more than the customer is found to have.
Check(p) ==
    /\ Start(p)
    /\ points >= 1
    /\ amount' = [amount EXCEPT ![p] = -1]
    /\ Goto(p, "redeem")
    /\ UNCHANGED bills
    /\ UNCHANGED <<points, ledger, challenge, seen, batch, deaths, crossed, outrun,
                   unlogged, taken, rewards, torn>>

\* A decrement, and the rest of the bill, which is too small to earn any.
Redeem(p, l) ==
    /\ pc[p] = "redeem" /\ lots[l] = "none"
    /\ lots' = [lots EXCEPT ![l] = "used"]
    /\ WriteBalance(p, points + amount[p])
    /\ ledger' = ledger + amount[p]
    /\ End(p)
    /\ UNCHANGED <<voided, invoice, challenge, batch, starts, deaths, unlogged,
                   taken, rewards, torn>>

\* voidInvoice: what the bill earned is to be taken back, what it used to be returned.
AskVoid(p, l) ==
    /\ Start(p)
    /\ lots[l] # "none" /\ l \notin voided
    /\ invoice' = [invoice EXCEPT ![p] = {l}]
    /\ seen' = [seen EXCEPT ![p] = points]
    /\ amount' = [amount EXCEPT ![p] = IF lots[l] = "used" THEN 1 ELSE -Worth]
    /\ Goto(p, "void")
    /\ UNCHANGED <<points, ledger, lots, voided, challenge, batch, deaths, crossed, outrun,
                   unlogged, taken, rewards, torn>>

\* The balance stops at zero; the entry says all of it.
Void(p) ==
    LET left == IF seen[p] + amount[p] >= 0 THEN seen[p] + amount[p] ELSE 0
    IN  /\ pc[p] = "void"
        /\ WriteBalance(p, left)
        /\ ledger' = ledger + amount[p]
        /\ unlogged' = unlogged + left - (seen[p] + amount[p])
        /\ voided' = voided \cup invoice[p]
        /\ invoice' = [invoice EXCEPT ![p] = {}]
        /\ End(p)
        /\ UNCHANGED <<lots, challenge, batch, starts, deaths, taken, rewards, torn>>

\* mergeCustomers: the entries of the other customer come, and not the points.
Merge(l) ==
    /\ lots[l] = "none"
    /\ lots' = [lots EXCEPT ![l] = "fresh"]
    /\ ledger' = ledger + Worth
    /\ unlogged' = unlogged - Worth
    /\ UNCHANGED <<points, voided, invoice, challenge, pc, seen, amount, batch, starts, deaths,
                   crossed, outrun, taken, rewards, torn>>
-----------------------------------------------------------------------------
(* Points with a date *)

\* earnPoints, in the transaction of the bill: an increment.
Earn(l) ==
    /\ lots[l] = "none"
    /\ lots' = [lots EXCEPT ![l] = "fresh"]
    /\ points' = points + Worth
    /\ crossed' = (crossed \/ Read # {})
    /\ ledger' = ledger + Worth
    /\ UNCHANGED <<voided, invoice, challenge, pc, seen, amount, batch, starts, deaths, outrun,
                   unlogged, taken, rewards, torn>>

Age(l) ==
    /\ lots[l] = "fresh"
    /\ lots' = [lots EXCEPT ![l] = "due"]
    /\ UNCHANGED <<points, ledger, voided, invoice, challenge, pc, seen, amount, batch, starts,
                   deaths, crossed, outrun, unlogged, taken, rewards, torn>>

Due == {l \in Lots : lots[l] = "due"}

\* expireStalePoints: the rows, then the customer, then both writes, then the rows.
FindDue(p) ==
    /\ Start(p) /\ Due # {}
    /\ batch' = [batch EXCEPT ![p] = Due]
    /\ torn' = torn \cup (Due \cap UNION {batch[q] : q \in Requests})
    /\ Goto(p, "balance")
    /\ UNCHANGED bills
    /\ UNCHANGED <<points, ledger, challenge, seen, amount, deaths, crossed, outrun,
                   unlogged, taken, rewards>>

\* No more than the customer has; nothing of nothing.
ReadBalance(p) ==
    LET due == Worth * Cardinality(batch[p])
        toExpire == IF due <= points THEN due ELSE points
    IN  /\ pc[p] = "balance"
        /\ seen' = [seen EXCEPT ![p] = points]
        /\ amount' = [amount EXCEPT ![p] = -toExpire]
        /\ Goto(p, IF toExpire > 0 THEN "take" ELSE "clear")
        /\ UNCHANGED bills
        /\ UNCHANGED <<points, ledger, challenge, batch, starts, deaths, crossed, outrun,
                       unlogged, taken, rewards, torn>>

TakeFromBalance(p, logged) ==
    /\ pc[p] = "take"
    /\ WriteBalance(p, seen[p] + amount[p])
    /\ ledger' = ledger + logged
    /\ taken' = [l \in Lots |-> IF l \in batch[p] THEN taken[l] + 1 ELSE taken[l]]
    /\ Goto(p, "clear")
    /\ UNCHANGED bills
    /\ UNCHANGED <<challenge, seen, amount, batch, starts, deaths, unlogged, rewards, torn>>

\* Faulty variant: the ledger says what was due, and not what there was.
TakeUncapped(p) == TakeFromBalance(p, -(Worth * Cardinality(batch[p])))

Take(p) == TakeFromBalance(p, amount[p])

\* "Clear the expiry marker so the same rows are not processed twice."
Clear(p) ==
    /\ pc[p] = "clear"
    /\ lots' = [l \in Lots |-> IF l \in batch[p] THEN "cleared" ELSE lots[l]]
    /\ batch' = [batch EXCEPT ![p] = {}]
    /\ End(p)
    /\ UNCHANGED <<points, ledger, voided, invoice, challenge, starts, deaths,
                   crossed, outrun, unlogged, taken, rewards, torn>>

\* A process dies or a statement throws; the sweep may fail at another customer.  A
\* transaction under way leaves nothing.
Fail(p) ==
    /\ pc[p] # "idle" /\ deaths < MaxDeaths
    /\ deaths' = deaths + 1
    /\ unlogged' = IF pc[p] = "log" THEN unlogged + amount[p] ELSE unlogged
    /\ torn' = IF pc[p] = "clear" THEN torn \cup batch[p] ELSE torn
    /\ batch' = [batch EXCEPT ![p] = {}] /\ invoice' = [invoice EXCEPT ![p] = {}]
    /\ End(p)
    /\ UNCHANGED <<points, ledger, lots, voided, challenge, starts, crossed, outrun,
                   taken, rewards>>
-----------------------------------------------------------------------------
Bonus(p) == AskBonus(p) \/ AskReward(p) \/ Raise(p) \/ Log(p) \/ Progress(p) \/ Complete(p)
Bill(p) == Check(p) \/ Void(p) \/ \E l \in Lots : Redeem(p, l) \/ AskVoid(p, l)
Sweep(p) == FindDue(p) \/ ReadBalance(p) \/ Take(p) \/ Clear(p)

Next ==
    \/ \E p \in Requests :
          \/ (\E n \in {-1, 1} : Ask(p, n)) \/ Commit(p)
          \/ Bonus(p) \/ Bill(p) \/ Sweep(p) \/ Fail(p)
    \/ \E l \in Lots : Earn(l) \/ Merge(l) \/ Age(l)

Spec == Init /\ [][Next]_vars
-----------------------------------------------------------------------------
\* Points given whose entry is still to be written.
Logging == Cardinality({p \in Requests : pc[p] = "log"})

\* The ledger explains the balance, once the entries under way are written, unless a
\* write fell between a read and a write; what it cannot explain is counted: an entry
\* lost with its process, points a void found spent, a merged customer's entries.  The
\* balance is not negative, unless it was written between the check of a redemption and
\* its decrement, whatever else overlaps.  "So the same rows are not processed twice":
\* no lot is in what two sweeps took, and no challenge pays twice, unless two were at it
\* at once or one was cut short between taking the points and clearing the dates.
PointsAddUp ==
    /\ ~crossed => points = ledger + Logging + unlogged
    /\ ~outrun => points >= 0
    /\ \A l \in Lots \ torn : taken[l] <= 1
    /\ "challenge" \notin torn => rewards <= 1
=============================================================================
