# A TLA+ model of the Parlon backend

Parlon (`backend-salon`) is a multi-tenant backend for salons: Node, TypeScript,
Express, Prisma and PostgreSQL, one codebase and one database for every salon.
Any number of server processes serve requests, run the job loop and tick the
nightly jobs; the database is the only thing they share. There is no message
broker and no lock service: what keeps two processes apart is a condition in an
`UPDATE`, a unique key, or nothing at all.

This directory models the parts of it where that matters: which statements are
atomic, what is read before and used after, what a crash leaves behind. Paths
below are relative to the repository; the application's own code is `src/src/`.

## 1. Inventory

Status: **M** modelled, **P** partly modelled, **-** not modelled.

| Component | State it keeps | Operations | What makes it correct | |
|---|---|---|---|---|
| Background job queue (`jobs/queue.ts`, `jobs/worker.ts`) | `jobs` table: status, attempts, runAt, lockedAt, uniqueKey; in a process: the batch, the job in hand | enqueue, cancelJobs, poll, claim, load, run, record, reclaim, stop | one runner per job, bounded tries, settled jobs stay settled, nothing is starved | M |
| Job handlers (`jobs/handlers`) | none of their own | one per job type | repeating one after a crash is harmless | P |
| Quotas, credits, sending block (`quotas/quota.service.ts`) | MessageUsage, CreditBalance, CreditLedger, TenantMessagingConfig | consume, blockSending, unblockSending, grantCredits | the allowance is sold once, spend order, overdraft bounded, books agree | M |
| Plan limits (`quotas/limits.ts`) | none; counts rows | a count before an insert | the limit is asked everywhere | P |
| Outgoing messages (`messaging/dispatcher.ts`, queueMessage) | MessageLog rows, the send job | gates, meter, row, enqueue | paid iff queued, consent, plan | P |
| Templates (`marketing/template-meta.service.ts`) | MessageTemplate, the copy at Meta | submit, adopt, sync, import, edit, delete | values go out in the order of the copy Meta holds | P |
| Delivery and callbacks (`dispatcher.ts`, deliver and applyStatusUpdate) | MessageLog status and timestamps, campaign counters | send, record, count; callback: read, write, count | a message leaves once, the status climbs, the counters are the rows | M |
| Reachability (`messaging/reachability.ts`) | the customer's verdict per channel | classify, record, suppress, reset | a dead address is learned | M |
| Message providers (`messaging/providers`) | none | HTTP requests | outside the system | P |
| Campaigns (`marketing/campaign.service.ts`) | Campaign.status, its job, its rows in the log | create, launch, pause, edit, dispatch | each member once, a launched one runs, an interrupted one finishes | P |
| Journeys (`marketing/journey.service.ts`) | JourneyRun: step index, status | trigger, advance, cancel, edit | a step acts once and in turn, a running run has a job | M |
| Customers (`modules/customers`) | Customer, visit cycle | create, import, renumber, merge, recount; the nightly sweep | one row per number, visits counted, a crossing chased once | P |
| Leads (`leads/lead.service.ts`) | Lead | convert | becomes one customer | P |
| Appointments (`modules/appointments`) | Appointment, AppointmentService, the reminder job | book, edit, move, change status, sweep no-shows, remind, list free times | no double booking, capacity, reminders match and are there, what is offered can be booked | P |
| Billing (`modules/billing`) | Invoice, Payment, wallet, outstanding, visit totals | create, pay, unpay, refund, void, delete | paid and due agree with the payments; wallet not overspent | P |
| Invoice series, GST (`billing/tax-settings.service.ts`, `gst.ts`) | InvoiceSeries.nextNumber | issue a number, apportion a discount | numbers unique and gapless | P |
| Commission and payroll (`staff/hr.service.ts`) | Commission entries, Payroll | earn, correct, withdraw, draft, approve, mark as paid | a slip pays what it marks | P |
| Loyalty, packages, memberships | balances and session counts, ledgers | earn, redeem, adjust, expire, sell, use, give back, merge | the ledger explains the balance, no session spent twice | P |
| Gamification | challenges | reward | a challenge pays once | P |
| Stock (`inventory/*.service.ts`) | Product.stock, StockMovement, PurchaseOrder | movement, reversal, receive, cancel, adjust | the balance is the sum of its movements | P |
| Conversations, assistant (`messaging/conversation.service.ts`, `auto-reply.service.ts`) | thread owner, flag, held offer, inbound rows | receive, answer, offer, book, hand over, take back | answered once, a yes books the offer, a promise is flagged | P |
| Feedback (`modules/feedback`) | Feedback rows, keys, drafts | rate, follow up, recount, draft, analyse | one rating per visit, followed up once, score right, drafts stay | P |
| Hair studio: generation (`hair-generation.service.ts`) | HairGeneration rows, the daily cap | request, submit, poll, store, sweep | paid once, never stranded, cap held | P |
| Webhooks (`modules/webhooks`) | none | acknowledge first, handle after | a repeated callback is harmless | P |
| Sessions, passwords | RefreshToken, PasswordResetToken | refresh, request, approve, reset | a token is used once | - |
| Hair studio: catalogue; segments | catalogue; rules | recommend; translate into queries | pure computation | - |
| Tenants, isolation, catalogue, branches, users, expenses, gallery, analytics, audit, HTTP layer | rows edited by one form, reports, plumbing | | nothing that moves on its own | - |

`PROJECT.json` lists the components with their sources and, under `hazards`,
what is hard to test in each, line by line.

### How the parts interact

* A request or a job calls **queueMessage** (Outbox); it asks **consume** (Quota), takes a
  template (Templates), writes a message-log row and **enqueues** `message.send` (JobQueue).
* A worker runs `message.send`, which is **deliver** (Receipts); the provider
  calls back, and **applyStatusUpdate** writes the row, the campaign's counters
  (Receipts) and the customer's reachability (Reachability), which the next
  queueMessage looks at.
* Launching a campaign **enqueues** `campaign.dispatch`; its fan-out (Campaign)
  calls queueMessage once per member. The nightly sweep (VisitDue) moves customers along
  their visit cycle and **enqueues** `journey.trigger`; a run of a journey (Journey) takes
  a step per job and books the next.
* Booking **enqueues** and cancels reminders; the no-show sweep is a job. The booking page
  asks the slot list (Slots) what to offer; the assistant (Conversation) does too, holds
  the offer in a column, and books on a yes.
* A bill completes its appointment, and its void checks it in again (Booking, Billing); it
  moves numbers, packages, points, stock and the customer's totals in one transaction
  (Billing). Its lines earn commission (Commission), sell or use memberships (Memberships);
  orders and adjustments move the same stock (StockRoom), sweeps and bonuses the same points
  (Points).
* A visit is rated through a link (Feedback); the submission starts the drafts of a review
  and the analysis of the comment (Suggestions).

The modules are connected by contracts: each replaces its neighbour by what the
neighbour's module shows, and says so in its header. Receipts and Campaign rely
on a job having one runner and being run again after a death (JobQueue: OneRunner,
EveryJobSettles); Outbox treats the meter as one atomic step because Quota shows
that the allowance is sold once; Campaign takes queueMessage as a row, a refusal
or nothing.

### What is hard

* Outside of billing and receipts of stock hardly any transaction spans a service call: every
  `await` is a place where another process may act and where this one may die.
* Values are read, compared in JavaScript and written back as absolute values.
* The queue delivers at least once: each handler must survive being run again.
* A unique key stays taken by a finished row.
* A transaction makes its writes appear at once; it does not protect what it, or
  the request before it, has read.
* Callbacks are acknowledged before they are handled, and come in any order, any
  number of times, two at once.
* The lock of a job is judged by its age (15 minutes), not by its owner; rows are taken back
  only when a process starts. Every process registers the nightly schedules.

## 2. Modules

| Module | Models | Composed with |
|---|---|---|
| `JobPool` | the promise of the queue: submit, start, succeed, retry, bury, withdraw | abstract specification |
| `JobQueue` | `jobs/queue.ts`, `jobs/worker.ts` statement by statement | implements `JobPool` (`PoolPromise`, refinement `pool <- status, tries <- attempts`) |
| `Sending` = `Quota` + `Outbox` + `Templates` | `consume()` and all that moves its rows; `queueMessage()`; a template and Meta's copy, with what Meta and an edit may make of either | Outbox abstracts Quota, JobQueue and Templates |
| `Callbacks` = `Receipts` + `Reachability` | `deliver()`, `applyStatusUpdate()`, taps, counters; verdicts on addresses | abstracts JobQueue |
| `Outreach` = `Campaign` + `VisitDue` | create, launch, pause, edit, `dispatchCampaign`; the sweep of the visit cycle, rollups, the journeys it starts | abstracts JobQueue and Outbox |
| `Diary` = `Booking` + `Slots` | requests that read the diary and write it later, bills and voids as far as they move an appointment, reminders, sweep; one day with hours, shifts, time off and capacity, as it is offered and as it is let in | abstracts JobQueue |
| `Till` = `Billing` + `Commission` + `StockRoom` + `Memberships` + `Points` | the writing half of `billing.service.ts`; the month of the payroll; orders and adjustments; memberships; points | Billing abstracts Booking to the appointment's status, which the desk moves as well |
| `Automations` = `Journey` + `Generation` + `DailyCap` | runs of journeys; pictures; the cap of the day | abstracts JobQueue to keys, tries and deaths |
| `FrontDesk` = `Conversation` + `Feedback` + `Suggestions` + `CustomerBook` | a WhatsApp thread; ratings; drafts; the book of customers | abstracts Slots to a set that moves |
| `JobQueueProof`, `SendingProof`, `CallbacksProof`, `OutreachProof`, `DiaryProof`, `TillProof`, `AutomationsProof`, `FrontDeskProof` | the theorems, one module per system | |
| `MC*` | small instances and their symmetry | |

A composite groups parts that belong together and are checked together. Where the parts
share no column (their headers say so), a behaviour of the composite is a behaviour of one
of them: the variable `watched` says which, and the others stand still at one place. This
loses nothing a property of one part speaks of. What a part needs of a neighbour it does
share columns with, it models itself: Outbox has the meter's answers, Commission,
StockRoom, Memberships and Points each have the bill as far as it moves their rows.

### How the models read the code

One database statement is one action. A function that reads, decides and writes
is several actions, linked by a program counter and by variables holding what was
read: `seen[w]` in JobQueue is `job.attempts` as `findUnique` returned it, `row[s]`
in Quota is the usage row before the increment, `log[h]` in Receipts the message
as the callback handler read it, `request[d]` in Booking the outcome of the
conflict check, `request[d].seen` in Billing the rows of package, stock and customer. A
transaction of Billing is one action at its commit, preceded by one action per
read; the lock on a counter is taken where the code takes it. An `updateMany` with a `WHERE`
is one action with a guard and, beside it, a disjunct for "no row matched". An early return
is a disjunct that ends the call. Crashes happen between any two statements and take
memory, never rows.

Comments mark as *faulty variant* a few operators no action uses. Each is an
action or helper as a plausible slip would have written it (a dropped condition,
an off-by-one, a missing reset); substituting it for the real one breaks a
property, which is how the properties were tested. They are listed under
`mutants` in `PROJECT.json`.

Where the code lets two requests overlap at a row and lose something, the model does too, and a
history variable records it (`overlapped`, `crossedBills`, `crossedRows`, `crossed`, `muddled`,
`torn`, `strayed`, `outrun`, `husks` and the like). The property then speaks of the rows not
named there: it says exactly what the code keeps, and under which condition. What the code does
prevent is never recorded: a lock, a unique key or a conditional update taken away breaks the
property.

### Abstractions, and why they lose nothing the properties speak of

* **Time.** JobQueue keeps two bits of a row, `due` and `stale`; Booking and Slots count
  slots (in Booking a service lasts one); Quota counts months, Memberships days,
  Generation the hours of a poll's key.
* **Identity.** One tenant, one meter of one unit per message (queueMessage always
  asks for 1), one customer, one campaign, one branch, where the property is about one. A
  filter on the tenant is added to every query by the database client and is not modelled.
* **Contents.** A message is its template flag and two categories; a wording is a number,
  since two wordings differ in the order of their variables. That a value was missing is a
  nondeterministic choice. What the language model makes of a message is any of the
  answers it may give.
* **Refusals that depend on nothing modelled** (blacklist, a plan without the feature) are
  requests that are not made.
* **Statement failures** are modelled where they matter to the control (the handler's
  `try` in JobQueue, the fan-out that throws in Campaign, the swallowed updates of the
  assistant, the insert that clashes); elsewhere a call either goes on or dies with its process.
* **Leads** pass queueMessage as customers do but keep no consent per channel; they
  are left out of Outbox.
* **Unused code**: `refund()` of the quota service is called by nobody and is left out.

## 3. What the runs check

Every run is TLC on an `MC` module (or the module itself) and one configuration. Bounds are
constants whose comment starts with `bound:`; the others are parameters of the code.
`CHECK_DEADLOCK FALSE` appears where the calls are bounded and the system may simply have
nothing left to do; JobQueue always has a step and is checked for deadlock.

| Run | Instance | Shows |
|---|---|---|
| `jobqueue_safety` | 2 workers, 2 rows, 1 key, batches of 2, 2 tries, 2 processes going down, no handler over 15 min | `OneRunner`; the refinement `PoolPromise` |
| `jobqueue_liveness` | the same with batches of 1, handlers of any length, nobody goes down | `EveryJobSettles` |
| `sending_safety` | 2 senders, allowance 1, overdraft 1, 2 months, 1 grant, 3 sends, 1 crash; 1 change of consent, plan or address; 2 wordings, 3 requests at Meta, 1 edit, 1 fault | `WithinTheMeter`, `BooksAgree`, `PaidIffQueued`, `AllowedAtSomeMoment`, `ValuesInMetasOrder` |
| `callbacks_safety` | 1 message, 2 handlers at once, 3 callbacks, 2 copies, 1 crash whose lock may or may not be taken back; 2 messages in flight to 2 addresses, 2 flips | `SentAndCountedOnce`, `ProgressClimbs`, `EveryMessageLeaves`, `DeadAddressIsLearned` |
| `outreach_safety` | 2 members, 2 API calls by 2 callers, 2 workers, 2 tries, 1 crash, edits that write any of the six statuses; 1 customer on 4 stages, with one bill or two of a day, 1 journey | `EverybodyOnce`, `StartedFinishes`, `ChasedPerCrossing`, `StagesCatchUp` |
| `campaign_relaunch` | one caller, one worker, 5 tries (the default) | **violated**: `LaunchedIsQueued` |
| `visits_journeys` | 2 customers, the 2 journeys that are shipped | **violated**: `JourneyGetsItsCrossings` |
| `diary_safety` | 3 appointments on 2 places, 1 desk, one service or a chain of three with two at once, a buffer, 3 slots, forced and checked requests, 3 requests (bills and voids among them), 1 crash; a day of 7 intervals with 2 windows, 2 stylists, an errand, capacity 1 or 2 | `CheckedNeverClash`, `ReminderMatches`, `ComingIsReminded`, `OverdueIsMarked`, `OfferedIsBookable` |
| `till_safety` | 2 tills, 2 series, 5 baskets, 3 bills, 4 requests (moves of the appointment among them), a package of 2 sessions; 2 lines in a month; 2 products, an order of 2; 2 plans, sold or merged; 2 lots of points, earned or redeemed, 3 requests and a merge | `NumbersConsecutive`, `AppointmentMatchesBill`, `MoneyAddsUp`, `UsedIsBilled`, `SlipPaysWhatItMarks`, `StockIsExplained`, `MembershipAddsUp`, `PointsAddUp` |
| `billing_exhausted` | 1 till | **violated**: `ExhaustedIsUsedUp` |
| `automations_safety` | 2 workers, 2 triggers, 2 runs of plans of one and two steps, 1 death; 1 picture, 2 polls; 3 pictures of a day by 2 callers, limits 1 and 2 | `StepsInTurn`, `NoRunIsStranded`, `PaidOnce`, `NoPictureIsStranded`, `OvershootIsTheCrowd` |
| `frontdesk_safety` | 3 messages of which one a STOP, 2 handlers, 2 slots, ceilings of 1 and 3, 3 deliveries, 1 fault, refused send or touch of the staff; 2 submissions, 2 links of one branch, one of a bill without a customer; 2 processes that write drafts; 2 numbers, a limit of 2, 4 requests | `AnsweredOnce`, `YesBooksTheOffer`, `PromiseIsFlagged`, `RatingIsFollowedUp`, `SuggestionsStay`, `BookIsInOrder` |

The bounds are the smallest at which what a property is about happens: two actors for every
race (the update that decides names no third), one unit of allowance and one of overdraft so
that the second send is the one too many and a third shows the overshoot, two tries so that the
last one differs from the first, one crash between any two statements, a limit of one picture
so that the second caller is over it. Four requests at the till are what the longest of its
stories takes (bill, spend, void, a fourth that crosses). `MaxTrouble` of Conversation bounds
faults, sends refused to somebody who has not opted out, and touches of the staff together: one
of them, at any point. `MaxStops` of Automations is how many handlers of a picture die,
`MaxDeaths` how many of a journey. In the diary there is one request at a time: two that check
before either writes both get the last place, which the code does not prevent (see below); the
sweep, the reminders and the clock do interleave with the request.

Symmetry is used only in runs without liveness, over sets whose elements nothing
in the model tells apart.

### Fairness

* *JobQueue*: a process that is up keeps looping (`setInterval` in `worker.ts`), one that is
  down is started again by its supervisor, a stopping one exits (`stopWorker` gives up
  after five seconds), and time passes: jobs become due, locks grow old. No fairness is given
  to callers, crashes or to handlers that succeed.
* *Callbacks*: a worker that is up takes a job that waits and goes on with it (weak). A worker
  that dies leaves its job locked, and that the lock is taken back is not assumed
  (`reclaimStuckJobs` runs when a worker starts, and looks for locks older than fifteen
  minutes): `EveryMessageLeaves` makes an exception for a job that stays locked for ever. The
  salon keeps sending to the customer, providers answer (weak), and not every answer is a
  temporary one (strong: a provider that always says "try later" never lets anybody learn
  anything).
* *Outreach*: a worker goes on with its run or its sweep, a request with its statements, a
  recount commits. Reclaiming is not fair - it happens only when a process starts - which is
  why `StartedFinishes` makes an exception for a job that died with its worker.
* *Diary*: the clock, the nightly sweep, and the statements of a request under way.

### The three violations

* `campaign_relaunch`. The job of a campaign has the key `campaign:<id>`
  (`campaign.service.ts:462`), and `enqueue` swallows a clash with a row of any status. Launch,
  pause before the worker comes, let the job end (it finds the campaign not claimable), launch
  again: the campaign is SCHEDULED, the call reports success, and no job exists.
  `campaign.service.ts:386` says launching "queues the campaign for the worker to fan out".
* `visits_journeys`. Each VISIT_DUE journey selects its crossings by stage, visits and basis,
  but the job that is queued for them names only the trigger (`visit-due.dispatch.ts:58`), and
  `triggerJourney` (`journey.service.ts:176`) starts every active journey of that trigger.
  `visit-due.ts:52` says "Which crossings this journey wants."; `defaults.ts:1159-1192` ships
  two such journeys, and a customer who is due soon gets the words for one at risk as well.
  The NO_VISIT_DAYS sweep has the same shape.
* `billing_exhausted`. `redeemPackageSession` increments `usedQty`, reads the rows of the
  package again in the same transaction, and adds the quantity once more before it compares
  (`package.service.ts:204-216`). A package of two sessions is EXHAUSTED by the first, and
  line 195 refuses the second; the comment at 214 says the package is marked "once every line
  is used up".

### Noted while modelling, not stated as properties

The code allows these, the models reproduce those that fall in their scope, and the
properties above are stated so that they do not promise otherwise.

*Jobs and sending*

* a handler that runs for more than fifteen minutes loses its row to a second
  worker (`LongHandlers`), and a job that is younger than that when a process
  restarts stays RUNNING until the next restart;
* committed senders that read the usage row together overshoot the overdraft
  limit, by fewer than there are of them; the first two blocks of a salon may
  overwrite each other, and a message then goes unowed;
* work already in flight (journeys, campaigns) keeps sending while the salon is
  blocked; a message paid with a credit is counted against the month as well;
* an opt-out after queueMessage has read the customer does not stop that message;
* the record of a send may overwrite a tap that came before it, and a tap a
  failure; overlapping copies of a callback are counted twice; a callback
  that comes before the id is stored is dropped; a failed send is not retried;
* a refusal that comes in after the address was corrected marks the new one, and
  as nothing is sent to it any more, nothing clears it;
* a template that says DISABLED is let go of as one "Meta has DELETED"
  (`template-meta.service.ts:117-121`), though Meta still lists a copy it has disabled:
  submitted again it is refused, and once the copy is reinstated it is adopted, with the order
  of the wording as it is by then; an edit may write status, name and wording
  (`marketing.routes.ts:744`);
* a template submitted without being recorded ("unsaved") and found by the sync never gets
  the order of its values (`schema.prisma:2465-2470` says otherwise); an adoption records the
  order of our wording, not of Meta's; two syncs around a resubmission may call a live copy
  DISABLED;
* the lock of a worker that died is taken back when some worker starts, fifteen minutes later or
  more, and not because the time has come: until then its message stays QUEUED.

*Campaigns, visits and journeys*

* a completed campaign may be SCHEDULED again by a launch that read it earlier;
  a member whose row was written and whose job was not is skipped for good; a
  campaign created with a date is SCHEDULED without a job; an edit may write any status
  (`marketing.routes.ts:300` takes any body), and RUNNING or COMPLETED so written sends nothing;
* several bills of one day are one visit to a recount (`visit-rhythm.ts:108`) and several to the
  sweep (`lifecycle-sweep.ts:93`), and the backfill of every night recounts whoever has no
  rhythm: such a customer's stage goes back and forth every night, and her journeys are asked for
  again each time, although `visit-due.ts:19` says "CROSSING, NOT SITTING";
* crossings beyond the cap of a run, or lost in a crash after the stage was written, are
  never picked up again, although `visit-due.dispatch.ts:52` logs "the rest are picked up on
  later sweeps"; a recount writes the stage as well and swallows the crossing; two sweeps
  that overlap ask for one crossing twice; `customer.rollup` is enqueued by nothing;
* two triggers of one journey that check together start two runs; a step repeated
  after a death is sent twice.

*Diary*

* the capacity and the conflicts are looked for before, and outside of, the transaction that
  writes (`availability.service.ts:432`): two requests that check before either writes both get
  the last place, although the comment at 418-419 says the check is there so that this cannot
  happen, and `auto-reply.service.ts:582-585` takes it to be inside the transaction;
* a no-show put back on the books is not checked against the diary, nor reminded again; the void
  of a bill checks its appointment in again, whatever became of its time
  (`billing.service.ts:1524-1526`), and a bill completes one of any status, a cancelled one too;
  a reminder that has run keeps its key, so an appointment moved after it is not reminded again;
* a booking may
  start inside the buffer after another; the pause between two lines of an
  appointment counts as a free place; a move, or the sweep, may overwrite a
  cancellation that came after it had read the appointment;
* the slot list leaves the buffers between services out of the length it looks for, while the
  booking chains with them, so a slot of several services may be offered and refused, or run
  past the shift; the buffer at the end is that of an arbitrary service; an end past midnight
  wraps and passes the check of the hours, and a buffer past midnight meets nobody.

*Till*

* two requests at one bill: two payments pay one due twice, two voids give stock, points
  and session back twice, and a payment, removal or refund that read the bill before it
  was voided brings it back to life;
* two bills at once that had both read the wallet overdraw it, and one of the two visits
  is lost; two bills of different series, or a bill and a void, lose a movement of stock
  or redeem the last session twice;
* `paidAmount` of an overpaid bill is capped, so taking a payment back leaves a due that
  the rest covers; a refund followed by the removal of the payment leaves more refunded
  than paid; removing a payment made from the wallet or with points returns neither;
* a voided bill with a payment can be neither refunded nor unpaid (it is VOID), so it
  cannot be deleted although the refusal says "refund or remove them first", and its
  appointment cannot be billed again; a void leaves an EXHAUSTED package as it is;
* a bill refunded whole still counts as a visit until the rollup repair runs;
* `stock.service.ts:22-25` says ledger and balance "can never disagree"; an adjustment has no
  transaction, and two movements of one product lose one; a receipt reads its order outside
  the transaction;
* a void gives a session back only to a line that names its subscription, while a bill uses one
  by default without naming it (`billing.service.ts:692` and 675; the comment at 1501 says
  "Give back any package sessions and membership benefits that were used"); a merge of two
  customers leaves her two memberships side by side (`customer.service.ts:885`); voiding the
  bill that sold a membership leaves it ACTIVE; switching plans drops what was left of the old
  one; the sweep may write over a cancellation;
* the expiry of points repeated after a crash takes newer ones; a redemption checks the balance
  and takes from it later (`loyalty.service.ts:93` and 111), so that points written in between
  may leave it below zero; a void takes back no more points than are left but logs all of them,
  and a merge moves the entries without the points;
* approving a payroll marks entries that were earned after its draft, and a draft that had looked
  at the payroll before an approval replaces the items of one that is paid;
* an order takes more than was ordered (`inventory.service.ts:522` and 555-557 refuse no
  quantity);
* somebody at the desk who had read an appointment before its bill writes over what the bill
  wrote.

*Machine and front desk*

* the submission of a picture whose answer is lost is paid twice; a poll that throws leaves a
  DEAD job that holds the key the sweep would use, and a counted poll that is taken back late
  sets the count back (`pollGeneration` writes the number its job carried plus one), with the
  same end, against `hair-generation.service.ts:512` and 906-917; a second submission resets a
  finished picture; requests that come together are all below the cap of the day
  (`generation-limits.ts:25-27` says the cap holds);
* two messages of a customer answered at once each hold an offer: the column keeps the one
  written last, which need not be the one she was told of last (`auto-reply.service.ts:1045`);
  an offer is held before its words are queued, and a refusal (`dispatcher.ts:593-599`,
  679-705) is not looked at (`auto-reply.service.ts:1082`), so a yes to an earlier offer books
  the held one;
* of the unhappy ratings of a day at a branch only the first raises an alert: the others clash
  with `schema.prisma:3477`, and the clash is swallowed (`feedback.service.ts:265`);
* drafts of a second process overwrite the first set; one visit can be rated through the
  appointment's link and through the bill's; a review link is offered to all and then
  refused to whoever gave three stars or fewer;
* a customer's code is the count plus one without a unique key; a lead, a walk-in and an online
  booking never ask the limit of the plan; an import counts rows the database skipped; a merge
  leaves wallet and points behind, and bills in flight land on the row that is gone; that row
  may be given a number again (`customer.service.ts:386-393`), with the visits of bills it no
  longer has.

## 4. What is proved

TLC settles the instances above; TLAPS the following for all values of the
constants, which are constrained only by the named assumptions of the modules: bounds are
natural numbers, sets of actors whose number matters are finite, special values (`Nobody`,
`NoKey`, `Idle`) are no members of the sets they stand outside of, plans and baskets are
well-formed, limits are what the code's validation admits. Each inductive invariant was
first checked by TLC on the instance of the run.

| Module | Inductive invariant | Theorems about checked properties | Hypothesis |
|---|---|---|---|
| `JobQueueProof` | `IInv` | `OneRunnerAlways`, `QueueImplementsPool` (and `AttemptsBoundedAlways`, `FinishedIsFinalAlways`) | `~LongHandlers` |
| `SendingProof` | `IInv`, `BooksInv` (meter), `GatesInv`, `WordingInv` | `MeterHolds`, `BooksAlwaysAgree`, `MeterInSending`, `QueuedIsPaid`, `QueuedIsAllowed`, `ValuesAreInMetasOrder` | |
| `CallbacksProof` | `RowInv` | `CountedAsItWent`, `StatusClimbs` | |
| `OutreachProof` | `FanOutInv`, `CycleInv` | `EverybodyGetsOne`, `NobodyIsChasedTwice` | `~SlowFanOut` for the fan-out |
| `DiaryProof` | `BookInv` (diary), `DayInv` (offers) | `NoDoubleBooking`, `RemindersFollowMoves`, `ComingAreReminded`; `OffersCanBeBooked` | `OneDesk`; `ClosesInTime` |
| `TillProof` | `TillInv`, six parts | `NumbersStayConsecutive`, `AppointmentsMatchBills`, `MoneyAlwaysAddsUp`, `UsedStaysBilled`, `SlipsPayWhatTheyMark`, `StockStaysExplained`, `MembershipsAddUp`, `PointsAlwaysAddUp` | |
| `AutomationsProof` | `JourneyInv`, `PictureInv`, `DayInv` | `StepsAreTakenInTurn`, `NoRunIsLeft`, `PicturesPaidOnce`, `NoPictureIsLeft`, `DayOvershotByTheCrowd` | |
| `FrontDeskProof` | `FrontDeskInv`, four parts | `EachAnsweredOnce`, `YesMeansTheOffer`, `PromisesAreFlagged`, `RatingsAreFollowedUp`, `ShownIsStored`, `BookStaysInOrder` | |

The hypotheses are those of the code. No handler, and no fan-out, outlives the fifteen
minutes after which its row is taken back: the code does not enforce it, and without it
two workers do run one job. The diary has one desk: the theorems about it say what the
conflict check guarantees to requests that do not overlap, with the sweep, the clock,
the jobs and crashes at any moment. For the offers, the doors close early enough that the
time a service needs after it ends by midnight: the code enforces no such thing, and only
the part about the turnaround needs it.

The assumptions on data are those of the request schemas: amounts of money and points are
not negative (`BasketsAssumption`, `PriceAssumption`; `core/validators.ts:17`), the times of a
day lie within it and a service takes time (`DayAssumption`; `core/validators.ts:52`,
`catalog.schema.ts:19`). No points are earned where a point costs nothing, as in `earnPoints`.

Why none of the properties is inductive as it stands, and what is added:

* **JobQueue.** That a job has one runner survives the claim only if the row of every job in
  hand is RUNNING (`HeldIsRunning`), which survives a reclaim only if an old lock
  belongs to nobody (`StaleIsAbandoned`); the bound on attempts needs that a row which may be
  claimed again has a try left or was abandoned before (`TriesLeft`), and that the number the
  worker compares is still the one in the row (`SeenIsCurrent`). `HeldIsRunning` also makes
  the unconditional final update map to Succeed, Retry or Bury of JobPool and not to a
  resurrection (`StepSimulation`).
* **Sending.** A sender past the allowance found it used up, and usage never shrinks
  (`AllowanceGone`). The overdraft is an argument by counting: in each month, the messages drawn
  plus the senders whose copy of the row would still let them draw never exceed the limit by
  the number of senders or more (`DrawsLeft`). The books agree up to what each sender between
  two statements still has to write. What a call may send is told by the customer it read: the
  channels open to her then are remembered, and history only adds to them (`Permitted`). A row
  linked to the copy of Meta has that copy's order, whatever status, name or text was typed into
  it; a submission that forgets an id is what takes the link away (`WordingInv`).
* **Callbacks.** Copies beyond the first are accounted for by deaths (`Tries`); what a handler
  alone with its message has read is what the row says, so what it has to count is what the
  rows have gained and the counters have not (`StagesMatch`).
* **Outreach.** Whom a fan-out has still to come to has no row (`Ahead`), whom it has come to
  has one (`Behind`), and one process fans out (`OneFans`). Each crossing kept by a sweep
  answers to one time the calendar carried the customer into a wanted stage (`Credit`), for
  customers whose stage nobody muddles; a recount takes two bills of one day for one visit, and
  those customers are among the muddled from its read on.
* **Diary.** What a request is about to write still fits the diary, since only the sweep moves
  meanwhile and it takes appointments away (`Asked`, `ConflictsShrink`). A change of status may
  bring back what was swept after it was read; so the live appointments and the one about to
  come back must fit together (`Present`, `Fitting`). A bill takes its appointment off the
  books, and its void puts it back among the unchecked (`PaperKeeps`). An appointment to come
  has its reminder, or the request that will schedule it is still at work (`Waits`). The lemmas
  underneath say what `buildLines` and `findConflicts` do for every list of services:
  `LinesLaid` (each line ends after it starts), `SpanCovers`, `FitsOthers` and `FitsPlaces`.
* **Slots.** An offered start leaves its stylist and its place free for the whole of what
  was asked, which `availableSlots` adds up in one sum and `buildLines` line by line;
  without buffers in between the two end together (`RunsAgree`). A booking from an offer
  keeps off the turnaround of those before it (`Turned`). Whoever was not forced in had a place,
  whoever else was there, so a minute never holds more of them than the branch takes
  (`Roomy`), which says what the property says once nobody is forced in.
* **Till.** Whoever is past the number of a bill holds the lock of its series and has the number
  after the last (`NumberFits`), so two creations of a series never rely on the same package or
  stock; the rows a request has read are as they were when it writes, while nobody crossed it
  (`BillFits`, `SessionFits`, `StockFits`). A balance is what its ledger says plus what the
  requests under way still owe it (`Explained`, `Accounted`). The lines a draft has still to add
  up are told apart from those whose entries may have moved under it.
* **The money of the till.** A live bill says what its payments say (`RowAddsUp`), and a request
  that holds it has read what it says (`AmountFits`). Nobody is about to spend more of the
  wallet, or of the points, than is there (`WalletFits`, `PointsFit`). The debt, the visits and
  the spending are sums over the bills that count, and a repair under way has added up what
  is still so (`DebtFits`, `VisitsFit`). Sums are folds over finite sets; that they can be
  taken one element at a time (`OneByOne`) is what every step of this argument rests on.
* **Automations.** A run that goes on has a job waiting or a worker at its step (`Going`), and
  while no job was run again exactly one (`Once`); the steps behind it were carried out
  (`Behind`). Whoever is about to submit a picture alone finds it unpaid (`Unpaid`); the poll
  with the next number has not been asked and lost (`NextPollOpen`); those drawn, admitted and
  asking are together less than the limit and the crowd.
* **FrontDesk.** Handlers past the unique row hold different messages, none answered
  (`Answered`). The flag covers the promises made and those about to be worded (`Flagged`). A
  slot no two handlers had is in one hand (`Held`), in the column as the words say (`Offered`),
  or hers (`Hers`), unless its words were refused. An unhappy rating has its alert or stands
  behind that of another one (`Alerts`). The attempt to prove this showed that
  `YesBooksTheOffer` had held in an earlier version only because the run had one slot; with
  two, offers that cross are a case of their own, which the property now names.

The recursive definition in `BuildLines` (a function, not a RECURSIVE operator) and facts
about rows of numbers are proved by taking the least counterexample (`Least` in
DiaryProof, from the well-founded order of the naturals): the library's induction theorems
have an operator parameter the provers cannot instantiate, but their set form
(`WFMin`) can be used.

**Only model-checked.**

* Liveness, which needs fairness and ENABLED: `EveryJobSettles`, `EveryMessageLeaves`,
  `DeadAddressIsLearned`, `StartedFinishes`, `StagesCatchUp`, `OverdueIsMarked`.
* The three violated properties, which TLC refutes.

Every other property of the passing runs, 32 invariants and two action or refinement
properties, is stated by a theorem.

## 5. Plan

Done: all modules of the table above, and the theorems listed there. Open, most important
first:

1. Theorems about the diary with several desks, for what still holds then: the reminders of
   appointments that no two requests were at.
2. An abstract account (billed, paid, due) that Billing implements where nothing crosses.
3. Sessions and password resets; coupons and the sale of packages; attendance and leave.

The set of runs is kept small, one per system: a new module joins the composite it
belongs to.

## 6. Not modelled, and why

Message providers, the provider of pictures and the language model are I/O; only what they may
answer is modelled. Sessions and passwords are tokens checked and used up. Analytics, alerts,
audit, segments and recommendation compute from rows and change none that anybody decides on
(in segments, the extra filter is applied to "any" rules and to hand-picked lists in the count
of reach but not in the list itself). Catalogue, branches, users, layouts, expenses and the
gallery are forms over single rows. Tenants are set up once by an operator; tenant isolation is
a filter in the database client. The arithmetic of tax and apportioned discounts is covered by
the unit tests of `gst.ts` and `commission.ts`. `PROJECT.json` says for each component what is
left out.

## 7. Running it

    tlc -config MCSending_safety.cfg MCSending
    tlapm DiaryProof.tla

All configurations finish within four minutes with two workers; `frontdesk_safety` is the largest
(2.4 million states). The proof modules take between one and twenty minutes each from nothing.
