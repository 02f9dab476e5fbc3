-------------------------------- MODULE Quota --------------------------------
(***************************************************************************)
(* Metering one tenant's messages on one meter: consume(), the sending     *)
(* block, grants of credits and the operator who lifts the block           *)
(* (modules/quotas/quota.service.ts).                                      *)
(*                                                                         *)
(* consume() is a sequence of database statements with no transaction      *)
(* around them.  Each is an action here, so that senders (requests, worker *)
(* processes, campaigns and journeys) interleave between any two of them,  *)
(* and a sender may die between any two of them.  The quantity is 1, which *)
(* is what queueMessage() always asks for.                                 *)
(***************************************************************************)
EXTENDS Integers, FiniteSets

CONSTANTS
    Senders,         \* concurrent callers of consume()
    Included,        \* MessageUsage.included: the plan's monthly allowance
    OverdraftLimit,  \* Plan.overdraftLimit
    Months,          \* bound: billing periods 1..Months
    MaxGrants,       \* bound: grants of credits
    MaxSends,        \* bound: calls of consume()
    MaxCrashes       \* bound: senders that die in the middle of a call

ASSUME SendersAssumption == IsFiniteSet(Senders) /\ Senders # {}
ASSUME IncludedAssumption == Included \in Nat
ASSUME OverdraftAssumption == OverdraftLimit \in Nat
ASSUME MonthsAssumption == Months \in Nat \ {0}
ASSUME BoundsAssumption == MaxGrants \in Nat /\ MaxSends \in Nat /\ MaxCrashes \in Nat

VARIABLES
    month,        \* the current billing period
    used,         \* used[m]: MessageUsage.used
    refused,      \* refused[m]: MessageUsage.blocked
    hasBalance,   \* the CreditBalance row exists
    credits,      \* CreditBalance.balance
    ledger,       \* the sum of CreditLedger.delta
    hasConfig,    \* the TenantMessagingConfig row exists
    blocked,      \* TenantMessagingConfig.sendingBlocked
    owed,         \* TenantMessagingConfig.owedMessages
    pc,           \* pc[s]: the next statement of sender s
    kind,         \* kind[s]: what the send is for
    row,          \* row[s]: the usage row as usageRow() returned it
    config,       \* config[s]: the messaging config as blockSending() read it
    debt,         \* debt[s]: the `owed` argument of the blockSending() in progress
    grants, sends, crashes,   \* bounds
    fromAllowance,   \* history: messages let through, by period and source
    fromCredits,
    drawn,
    drawnEver,       \* history: the sum of drawn
    sinceUnblock,    \* history: overdraft messages since the block was last lifted
    clamped          \* history: what the opening balance was raised by

sending == <<hasConfig, blocked, owed>>
tables  == <<month, used, refused, hasBalance, credits, ledger, sending>>
locals  == <<pc, kind, row, config, debt>>
bounds  == <<grants, sends, crashes>>
history == <<fromAllowance, fromCredits, drawn, sinceUnblock, clamped, drawnEver>>
vars == <<tables, locals, bounds, history>>

Periods == 1..Months

Kinds == {"manual", "campaign", "journey"}

\* committed: Boolean(campaignId || journeyRunId)
Committed(s) == kind[s] # "manual"

PCs == {"idle", "gate", "row", "claim", "credits", "count", "ledger",
        "ceiling", "draw", "refuse", "look", "block"}

Init ==
    /\ month = 1
    /\ used = [m \in Periods |-> 0] /\ refused = [m \in Periods |-> 0]
    /\ hasBalance = FALSE /\ credits = 0 /\ ledger = 0
    /\ hasConfig \in BOOLEAN /\ blocked = FALSE /\ owed = 0
    /\ pc = [s \in Senders |-> "idle"]
    /\ kind = [s \in Senders |-> "manual"]
    /\ row = [s \in Senders |-> [month |-> 1, used |-> 0]]
    /\ config = [s \in Senders |-> [exists |-> FALSE, blocked |-> FALSE, owed |-> 0]]
    /\ debt = [s \in Senders |-> 0]
    /\ grants = 0 /\ sends = 0 /\ crashes = 0
    /\ fromAllowance = [m \in Periods |-> 0]
    /\ fromCredits = [m \in Periods |-> 0]
    /\ drawn = [m \in Periods |-> 0]
    /\ sinceUnblock = 0 /\ clamped = 0 /\ drawnEver = 0
-----------------------------------------------------------------------------
(* consume(), statement by statement *)

Goto(s, where) == pc' = [pc EXCEPT ![s] = where]

At(s, where) == pc[s] = where

\* A call for a metered message; only new work looks at the block.
Begin(s, k) ==
    /\ At(s, "idle") /\ sends < MaxSends
    /\ sends' = sends + 1
    /\ kind' = [kind EXCEPT ![s] = k]
    /\ Goto(s, IF k = "manual" THEN "gate" ELSE "row")
    /\ UNCHANGED <<tables, row, config, debt, grants, crashes, fromAllowance,
                   fromCredits, drawn, sinceUnblock, clamped, drawnEver>>

\* sendingStatus(): a blocked salon sends nothing new.
CheckBlock(s) ==
    /\ At(s, "gate")
    /\ Goto(s, IF blocked THEN "idle" ELSE "row")
    /\ UNCHANGED <<tables, kind, row, config, debt, bounds, history>>

\* usageRow(): the row of the current period, opened when there is none yet.
ReadRow(s) ==
    /\ At(s, "row")
    /\ row' = [row EXCEPT ![s] = [month |-> month, used |-> used[month]]]
    /\ Goto(s, "claim")
    /\ UNCHANGED <<tables, kind, config, debt, bounds, history>>

UseOne(m) == used' = [used EXCEPT ![m] = @ + 1]

\* Faulty variant: the allowance is checked on the row read a statement earlier.
ClaimOnOldRow(s) ==
    LET m == row[s].month IN
    /\ At(s, "claim")
    /\ \/ /\ row[s].used <= Included - 1
          /\ UseOne(m)
          /\ fromAllowance' = [fromAllowance EXCEPT ![m] = @ + 1]
          /\ Goto(s, "idle")
       \/ /\ row[s].used > Included - 1
          /\ Goto(s, "credits")
          /\ UNCHANGED <<used, fromAllowance>>
    /\ UNCHANGED <<month, refused, hasBalance, credits, ledger, sending, kind, row,
                   config, debt, bounds, fromCredits, drawn, sinceUnblock, clamped, drawnEver>>

\* updateMany WHERE used <= included - 1: the allowance, in one statement.
ClaimAllowance(s) ==
    LET m == row[s].month IN
    /\ At(s, "claim")
    /\ \/ /\ used[m] <= Included - 1
          /\ UseOne(m)
          /\ fromAllowance' = [fromAllowance EXCEPT ![m] = @ + 1]
          /\ Goto(s, "idle")
       \/ /\ used[m] > Included - 1
          /\ Goto(s, "credits")
          /\ UNCHANGED <<used, fromAllowance>>
    /\ UNCHANGED <<month, refused, hasBalance, credits, ledger, sending, kind, row,
                   config, debt, bounds, fromCredits, drawn, sinceUnblock, clamped, drawnEver>>

\* updateMany WHERE balance >= 1: purchased credits, in one statement.
SpendCredit(s) ==
    /\ At(s, "credits")
    /\ \/ /\ hasBalance /\ credits >= 1
          /\ credits' = credits - 1
          /\ fromCredits' = [fromCredits EXCEPT ![row[s].month] = @ + 1]
          /\ Goto(s, "count")
       \/ /\ ~(hasBalance /\ credits >= 1)
          /\ Goto(s, IF Committed(s) THEN "ceiling" ELSE "refuse")
          /\ UNCHANGED <<credits, fromCredits>>
    /\ UNCHANGED <<month, used, refused, hasBalance, ledger, sending, kind, row,
                   config, debt, bounds, fromAllowance, drawn, sinceUnblock, clamped, drawnEver>>

\* Faulty variant: a message paid with a credit is not counted in the month.
LeaveUncounted(s) ==
    /\ At(s, "count")
    /\ Goto(s, "ledger")
    /\ UNCHANGED <<tables, kind, row, config, debt, bounds, history>>

\* "The allowance is still counted up so the salon can see it went over."
CountCredit(s) ==
    /\ At(s, "count")
    /\ UseOne(row[s].month)
    /\ Goto(s, "ledger")
    /\ UNCHANGED <<month, refused, hasBalance, credits, ledger, sending, kind, row,
                   config, debt, bounds, history>>

WriteLedger(s) ==
    /\ At(s, "ledger")
    /\ ledger' = ledger - 1
    /\ Goto(s, "idle")
    /\ UNCHANGED <<month, used, refused, hasBalance, credits, sending, kind, row,
                   config, debt, bounds, history>>

\* How far the row was overdrawn when this call read it.
Overdrawn(s) == IF row[s].used > Included THEN row[s].used - Included ELSE 0

MayOverdraw(s) == Overdrawn(s) + 1 <= OverdraftLimit

CheckCeiling(s) ==
    /\ At(s, "ceiling")
    /\ Goto(s, IF MayOverdraw(s) THEN "draw" ELSE "refuse")
    /\ UNCHANGED <<tables, kind, row, config, debt, bounds, history>>

DrawOverdraft(s) ==
    LET m == row[s].month IN
    /\ At(s, "draw")
    /\ UseOne(m)
    /\ drawn' = [drawn EXCEPT ![m] = @ + 1]
    /\ sinceUnblock' = sinceUnblock + 1
    /\ drawnEver' = drawnEver + 1
    /\ debt' = [debt EXCEPT ![s] = 1]
    /\ Goto(s, "look")
    /\ UNCHANGED <<month, refused, hasBalance, credits, ledger, sending, kind, row,
                   config, bounds, fromAllowance, fromCredits, clamped>>

Refuse(s) ==
    /\ At(s, "refuse")
    /\ refused' = [refused EXCEPT ![row[s].month] = @ + 1]
    /\ debt' = [debt EXCEPT ![s] = 0]
    /\ Goto(s, "look")
    /\ UNCHANGED <<month, used, hasBalance, credits, ledger, sending, kind, row,
                   config, bounds, history>>
-----------------------------------------------------------------------------
(* blockSending(): a read, then a write that depends on it *)

LookAtConfig(s) ==
    /\ At(s, "look")
    /\ config' = [config EXCEPT ![s] =
                        [exists |-> hasConfig, blocked |-> blocked, owed |-> owed]]
    /\ Goto(s, "block")
    /\ UNCHANGED <<tables, kind, row, debt, bounds, history>>

\* Without a row to update, one is created: somebody else may have done so since, and
\* then the insert throws out of consume().
BlockSending(s) ==
    /\ At(s, "block")
    /\ \/ /\ config[s].blocked
          /\ owed' = owed + debt[s]
          /\ UNCHANGED <<hasConfig, blocked>>
       \/ /\ ~config[s].blocked /\ (config[s].exists \/ ~hasConfig)
          /\ hasConfig' = TRUE
          /\ blocked' = TRUE
          /\ owed' = config[s].owed + debt[s]
       \/ /\ ~config[s].exists /\ hasConfig
          /\ UNCHANGED sending
    /\ Goto(s, "idle")
    /\ UNCHANGED <<month, used, refused, hasBalance, credits, ledger, kind, row, config,
                   debt, bounds, history>>

\* The process dies between two statements: nothing is rolled back.
Crash(s) ==
    /\ ~At(s, "idle") /\ crashes < MaxCrashes
    /\ crashes' = crashes + 1
    /\ Goto(s, "idle")
    /\ UNCHANGED <<tables, kind, row, config, debt, grants, sends, history>>
-----------------------------------------------------------------------------
(* The platform operator, the shop and the calendar *)

UnblockSending(forgiveOwed) ==
    /\ hasConfig' = TRUE /\ blocked' = FALSE
    /\ owed' = IF forgiveOwed THEN 0 ELSE owed
    /\ sinceUnblock' = 0
    /\ UNCHANGED <<month, used, refused, hasBalance, credits, ledger, locals, bounds,
                   fromAllowance, fromCredits, drawn, clamped, drawnEver>>

\* A purchase (positive) or a correction (negative), balance and ledger in one
\* transaction.  Only the opening balance is kept from going below zero.
GrantCredits(quantity) ==
    /\ grants < MaxGrants
    /\ grants' = grants + 1
    /\ hasBalance' = TRUE
    /\ ledger' = ledger + quantity
    /\ IF ~hasBalance /\ quantity < 0
       THEN credits' = 0 /\ clamped' = clamped - quantity
       ELSE credits' = credits + quantity /\ UNCHANGED clamped
    /\ UNCHANGED <<month, used, refused, sending, locals, sends, crashes,
                   fromAllowance, fromCredits, drawn, sinceUnblock, drawnEver>>

\* The 1st of the month in the salon's timezone: the next usageRow() opens a new row.
NewMonth ==
    /\ month < Months
    /\ month' = month + 1
    /\ UNCHANGED <<used, refused, hasBalance, credits, ledger, sending, locals,
                   bounds, history>>
-----------------------------------------------------------------------------
Consume(s) ==
    \/ \E k \in Kinds : Begin(s, k)
    \/ CheckBlock(s) \/ ReadRow(s) \/ ClaimAllowance(s) \/ SpendCredit(s)
    \/ CountCredit(s) \/ WriteLedger(s) \/ CheckCeiling(s) \/ DrawOverdraft(s)
    \/ Refuse(s) \/ LookAtConfig(s) \/ BlockSending(s) \/ Crash(s)

Next ==
    \/ \E s \in Senders : Consume(s)
    \/ \E f \in BOOLEAN : UnblockSending(f)
    \/ \E q \in {-1, 1} : GrantCredits(q)
    \/ NewMonth

Spec == Init /\ [][Next]_vars
-----------------------------------------------------------------------------
TypeOK ==
    /\ month \in Periods
    /\ used \in [Periods -> Nat] /\ refused \in [Periods -> Nat]
    /\ hasBalance \in BOOLEAN /\ hasConfig \in BOOLEAN /\ credits \in Int /\ ledger \in Int
    /\ blocked \in BOOLEAN /\ owed \in Nat
    /\ pc \in [Senders -> PCs]
    /\ kind \in [Senders -> Kinds]
    /\ row \in [Senders -> [month : Periods, used : Nat]]
    /\ config \in [Senders -> [exists : BOOLEAN, blocked : BOOLEAN, owed : Nat]]
    /\ debt \in [Senders -> {0, 1}]
    /\ grants \in Nat /\ sends \in Nat /\ crashes \in Nat
    /\ fromAllowance \in [Periods -> Nat]
    /\ fromCredits \in [Periods -> Nat]
    /\ drawn \in [Periods -> Nat]
    /\ sinceUnblock \in Nat /\ clamped \in Nat /\ drawnEver \in Nat

\* "Two concurrent sends on the last remaining message cannot both succeed": no
\* interleaving lets more messages through on the allowance than it holds.
AllowanceNotOversold == \A m \in Periods : fromAllowance[m] <= Included

\* "Spend order: monthly allowance, purchased credits, overdraft": nobody pays
\* with credits, or overdraws, while messages of that month's allowance are left.
SpendOrder ==
    \A m \in Periods : fromCredits[m] > 0 \/ drawn[m] > 0 => used[m] >= Included

\* Senders that took a credit and have not counted the message yet.
Uncounted(m) == {s \in Senders : At(s, "count") /\ row[s].month = m}

\* Senders that took a credit and have not written it in the ledger.
Unlogged == {s \in Senders : At(s, "count") \/ At(s, "ledger")}

\* Senders that have drawn and have not yet blocked.
Blocking == {s \in Senders : pc[s] \in {"look", "block"} /\ debt[s] = 1}

\* Every message let through is counted in its month exactly once, from whatever
\* source it was paid, and a crash can only leave one uncounted; the ledger explains
\* the balance, once the senders at work have written their entry, but for an opening
\* correction that was clamped at zero.  "Crossing into overdraft stops everything
\* new": when the overdraft has been used since the operator last lifted the block,
\* sending is blocked again as soon as the senders that used it are done; and however
\* two blocks, a forgiven debt and the sends between them overwrite each other, no
\* message is owed twice and no refused one at all.
BooksAgree ==
    /\ \A m \in Periods :
          LET let == fromAllowance[m] + fromCredits[m] + drawn[m]
              counted == used[m] + Cardinality(Uncounted(m))
          IN  counted <= let /\ let <= counted + crashes
    /\ crashes = 0 => credits = ledger - Cardinality(Unlogged) + clamped
    /\ crashes = 0 /\ sinceUnblock > 0 /\ Blocking = {} => blocked
    /\ owed <= drawnEver

\* The overdraft overshoots its limit by no more than the senders that read the
\* usage row before it was reached.
OverdraftNearLimit ==
    \A m \in Periods :
        drawn[m] <= OverdraftLimit + Cardinality(Senders) - 1

\* The three together: what each source of messages gives, and in which order, however
\* the senders' reads and writes interleave.
WithinTheMeter == AllowanceNotOversold /\ SpendOrder /\ OverdraftNearLimit
-----------------------------------------------------------------------------
(* The inductive invariant behind AllowanceNotOversold, SpendOrder and        *)
(* OverdraftNearLimit                                                         *)

\* A sender that has gone past the allowance found it used up, and it stays so.
AllowanceGone ==
    \A s \in Senders :
        pc[s] \in {"credits", "count", "ledger", "ceiling", "draw", "refuse"}
            => used[row[s].month] >= Included

\* usage only grows: what a sender read is a lower bound for ever after.
RowIsLowerBound == \A s \in Senders : row[s].used <= used[row[s].month]

UsedCoversAllowance == \A m \in Periods : fromAllowance[m] <= used[m]

UsedCoversOverdraft ==
    \A m \in Periods : drawn[m] > 0 => used[m] >= Included + drawn[m]

\* Senders whose copy of the row still lets them overdraw.
MayDraw(m) ==
    {s \in Senders : /\ pc[s] \in {"claim", "credits", "ceiling", "draw"}
                     /\ row[s].month = m
                     /\ MayOverdraw(s)}

DrawIsAllowed == \A s \in Senders : At(s, "draw") => MayOverdraw(s)

\* What was drawn and what may still be drawn on old copies of the row.
DrawsLeft ==
    \A m \in Periods :
        drawn[m] + Cardinality(MayDraw(m)) <= OverdraftLimit + Cardinality(Senders) - 1

IInv ==
    /\ TypeOK /\ AllowanceGone /\ RowIsLowerBound /\ UsedCoversAllowance
    /\ UsedCoversOverdraft /\ DrawIsAllowed /\ DrawsLeft
    /\ AllowanceNotOversold /\ SpendOrder
=============================================================================
