------------------------------ MODULE Billing ------------------------------
(***************************************************************************)
(* The till: src/src/modules/billing/billing.service.ts with the services  *)
(* it calls for numbers, packages, points and stock.  One branch, one      *)
(* customer, one appointment, one package of Sessions sessions, one        *)
(* product.  A bill has one line, and is numbered in the series of its     *)
(* kind (tax invoice or not).                                              *)
(*                                                                         *)
(* Every request reads first and writes in a transaction: the writes of a  *)
(* transaction appear at once, when it commits, or never (Abandon).  Its   *)
(* reads are actions of their own, because nothing locks what they return; *)
(* `request[d].seen` is what request d read.  The one row that is locked   *)
(* early is the counter of a series: from the UPDATE that takes the number *)
(* to the commit nobody else gets past it (`issuing`).                     *)
(*                                                                         *)
(* Commission, memberships and the stock away from the till have modules   *)
(* of their own.  Left out: bills without a customer, coupons, tax,        *)
(* payments flagged as advances (they cannot be removed), the merge of     *)
(* another customer into this one.                                         *)
(***************************************************************************)
EXTENDS Integers, Sequences, FiniteSets, FiniteSetsExt, Functions

CONSTANTS
  Desks,         \* requests that may be in progress at the same time
  Kinds,         \* the series of the branch: GST, NON_GST
  Baskets,       \* what createInvoice is asked for
  Price,         \* what a service or a product costs
  AmountPerPoint,\* LoyaltyProgram.amountPerPoint
  Sessions,      \* PackagePurchaseItem.totalQty
  NoRow,         \* a series that has no counter yet
  Idle,          \* a desk without a request
  Nobody,        \* a counter that is not locked
  MaxBills,      \* bound: invoices created
  MaxRequests    \* bound: requests made

ASSUME BasketsAssumption ==
  \A basket \in Baskets :
    /\ basket.kind \in Kinds /\ basket.line \in {"service", "product", "session"}
    /\ basket.appointment \in BOOLEAN
    /\ basket.points \in Nat /\ basket.wallet \in Nat /\ basket.payments \in Seq(Nat)

ASSUME PriceAssumption == Price \in Nat /\ AmountPerPoint \in Nat

ASSUME SeriesAssumption == NoRow \notin Nat /\ Nobody \notin Desks

ASSUME BoundsAssumption == MaxBills \in Nat /\ Sessions \in Nat

VARIABLES
  invoice,       \* Invoice rows; a deleted one keeps its number, as DELETED
  payments,      \* the amounts paid on each, 0 for a payment deleted or never made
  customer,      \* wallet, outstanding, visits, spent, points
  package,       \* PackagePurchaseItem.usedQty; PackagePurchase.status is ACTIVE
  stock,         \* Stock.quantity, counted from the opening balance
  movements,     \* the sum of the stock_movements
  transactions,  \* the sum of the loyalty_transactions
  appointment,   \* Appointment.status: COMPLETED, or CHECKED_IN for any other
  moving,        \* the status that somebody who has read the appointment will write
  finished,      \* history: it was completed last without a bill
  series,        \* InvoiceSeries.lastNumber of each kind
  issuing,       \* the request that holds the lock on the counter
  request,       \* what each desk is in the middle of
  asked,         \* requests made (bound)
  crossedBills,  \* history: bills changed between another's read and write
  crossedRows,   \* history: the same of the customer, the package, the stock
  overpaid,      \* history: bills created with more money than they cost
  strayed        \* history: it was billed while somebody was about to write its status

visit == <<appointment, moving, finished, strayed>>
data == <<invoice, payments, customer, package, stock, movements, transactions, visit>>
history == <<crossedBills, crossedRows, overpaid>>
vars == <<data, series, issuing, request, asked, history>>

Bills == 1..MaxBills

\* An invoice that does not exist yet.
NoBill == [status |-> "NONE"]

Least(a, b) == IF a < b THEN a ELSE b

AtLeastZero(n) == IF n < 0 THEN 0 ELSE n
SumOf(s) == FoldFunction(+, 0, s)

Exists(b) == invoice[b] # NoBill /\ invoice[b].status # "DELETED"
Live(b) == Exists(b) /\ invoice[b].status # "VOID"
LiveBills == {b \in Bills : Live(b)}
SumOver(bills, Amount(_)) == MapThenSumSet(Amount, bills)
Made == {b \in Bills : invoice[b] # NoBill}

\* A session from a package is free; everything else has its price.
Total(line) == IF line = "session" THEN 0 ELSE Price

\* The row a line is taken from, beside the bill: the package or the stock.
RowOf(line) == {line} \ {"service"}

\* What the points asked for are worth (one each), at most half the bill.
PointsValue(points, total) == Least(points, total \div 2)
PointsEarned(total) == IF AmountPerPoint = 0 THEN 0 ELSE total \div AmountPerPoint

StatusFor(paid, due) == IF due = 0 THEN "PAID" ELSE IF paid > 0 THEN "PARTIALLY_PAID" ELSE "ISSUED"

Init ==
  /\ invoice = [b \in Bills |-> NoBill]
  /\ payments = [b \in Bills |-> <<>>]
  /\ customer = [wallet |-> 0, outstanding |-> 0, visits |-> 0, spent |-> 0, points |-> 0]
  /\ package = [used |-> 0, active |-> TRUE]
  /\ stock = 0
  /\ movements = 0 /\ transactions = 0
  /\ appointment = "CHECKED_IN" /\ moving = Idle /\ finished = FALSE /\ strayed = FALSE
  /\ series = [k \in Kinds |-> NoRow]
  /\ issuing = [k \in Kinds |-> Nobody]
  /\ request = [d \in Desks |-> Idle]
  /\ asked = 0
  /\ crossedBills = {} /\ crossedRows = {} /\ overpaid = {}

----------------------------------------------------------------------------
\* Who is in the middle of what.

Doing(d, op) == request[d] # Idle /\ request[d].op = op
At(d, op, step) == Doing(d, op) /\ request[d].step = step

\* The bill a request has read and will write.
BillHeld(d) == IF request[d] = Idle \/ request[d].op \in {"create", "adjust", "rollup"} THEN {} ELSE {request[d].bill}

\* The other rows it has read and relies on when it writes.
RowsHeld(d) ==
  LET r == request[d]
      creating(steps) == Doing(d, "create") /\ r.step \in steps
      voiding(steps) == Doing(d, "void") /\ r.step \in steps
  IN {row \in {"visits", "wallet", "points", "owed", "session", "product"} :
        \/ row = "visits" /\ (Doing(d, "create") \/ voiding({"commit"}) \/ Doing(d, "rollup"))
        \/ row = "wallet" /\ Doing(d, "create") /\ r.basket.wallet > 0
        \/ row = "points" /\ creating({"commit"}) /\ r.basket.points > 0
        \/ row = "points" /\ (voiding({"commit"}) \/ Doing(d, "adjust"))
        \/ row = "owed" /\ Doing(d, "rollup")
        \/ creating({"points", "commit"}) /\ row \in RowOf(r.basket.line)
        \/ voiding({"customer", "commit"}) /\ row \in RowOf(invoice[r.bill].line)}

\* Two bills of one series: the counter keeps them apart, from the number on.
SameSeries(d, e) ==
  Doing(d, "create") /\ Doing(e, "create") /\ request[d].basket.kind = request[e].basket.kind

\* The write of d falls between the read and the write of another request.  What
\* two bills of one series read under the lock of the counter does not count.
Crossing(d, bills, rows) ==
  /\ crossedBills' = crossedBills \cup {b \in bills : \E e \in Desks \ {d} : b \in BillHeld(e)}
  /\ crossedRows' = crossedRows \cup {r \in rows : \E e \in Desks \ {d} :
                       r \in RowsHeld(e) /\ (SameSeries(d, e) => r \in {"visits", "wallet"})}

Begin(d, r) ==
  /\ request[d] = Idle /\ asked < MaxRequests
  /\ request' = [request EXCEPT ![d] = r]
  /\ asked' = asked + 1
  /\ UNCHANGED <<data, series, issuing, history>>

Goto(d, step) == request' = [request EXCEPT ![d].step = step]

Done(d) ==
  /\ request' = [request EXCEPT ![d] = Idle]
  /\ issuing' = [k \in Kinds |-> IF issuing[k] = d THEN Nobody ELSE issuing[k]]
  /\ UNCHANGED asked

\* A refusal inside the transaction, its timeout, a deadlock, a constraint, or
\* the death of the process: nothing was written, the number goes back.
Abandon(d) ==
  /\ request[d] # Idle
  /\ Done(d)
  /\ UNCHANGED <<data, series, history>>

----------------------------------------------------------------------------
\* createInvoice.

Billed == \E b \in Bills : Exists(b) /\ invoice[b].appointment

\* Before the transaction: the appointment must not be billed, and the customer
\* is read.
AskCreate(d, basket) ==
  /\ Cardinality(Made) + Cardinality({e \in Desks : Doing(e, "create")}) < MaxBills
  /\ basket.appointment => ~Billed
  /\ Begin(d, [op |-> "create", step |-> "series", basket |-> basket, number |-> 0,
                seen |-> [wallet |-> IF basket.wallet > 0 THEN customer.wallet ELSE 0,
                          visits |-> customer.visits, spent |-> customer.spent, stock |-> 0]])

\* Faulty variant: the upsert starts an existing counter again.
EnsureSeriesAfresh(d) ==
  /\ At(d, "create", "series")
  /\ series' = [series EXCEPT ![request[d].basket.kind] = 0]
  /\ Goto(d, "number")
  /\ UNCHANGED <<data, issuing, asked, history>>

\* ensureSeries: an upsert that leaves an existing counter as it is.
EnsureSeries(d) ==
  /\ At(d, "create", "series")
  /\ LET k == request[d].basket.kind IN
       series' = [series EXCEPT ![k] = IF @ = NoRow THEN 0 ELSE @]
  /\ Goto(d, "number")
  /\ UNCHANGED <<data, issuing, asked, history>>

\* Faulty variant: a counter that is read without its lock.
IssueNumberUnlocked(d) ==
  LET k == request[d].basket.kind IN
  /\ At(d, "create", "number")
  /\ issuing' = [issuing EXCEPT ![k] = d]
  /\ request' = [request EXCEPT ![d].number = series[k] + 1, ![d].step = "line"]
  /\ UNCHANGED <<data, series, asked, history>>

\* issueInvoiceNumber: increment and keep the row locked.
IssueNumber(d) ==
  LET k == request[d].basket.kind IN
  /\ At(d, "create", "number")
  /\ issuing[k] = Nobody
  /\ issuing' = [issuing EXCEPT ![k] = d]
  /\ request' = [request EXCEPT ![d].number = series[k] + 1, ![d].step = "line"]
  /\ UNCHANGED <<data, series, asked, history>>

\* redeemPackageSession looks at the package, recordMovement at the stock.
ReadLine(d) ==
  /\ At(d, "create", "line")
  /\ request[d].basket.line = "session" => package.active /\ package.used + 1 =< Sessions
  /\ request' = [request EXCEPT ![d].step = "points",
                    ![d].seen.stock = IF request[d].basket.line = "product" THEN stock ELSE 0]
  /\ UNCHANGED <<data, series, issuing, asked, history>>

\* redeemPoints compares what is asked with what the customer has.
ReadPoints(d) ==
  /\ At(d, "create", "points")
  /\ request[d].basket.points =< customer.points
  /\ Goto(d, "commit")
  /\ UNCHANGED <<data, series, issuing, asked, history>>

\* The package is marked exhausted on the sibling rows as they are after the
\* update, plus the quantity once more.
RedeemSession ==
  package' = [used |-> package.used + 1, active |-> package.active /\ package.used + 1 + 1 < Sessions]

\* recordMovement writes the balance it computed from its read.
MoveStock(seen, quantity) ==
  /\ stock' = seen + quantity
  /\ movements' = movements + quantity

\* Wallet money: no more than asked, than there was, than is left to pay.
FromWallet(r, left) == AtLeastZero(Least(r.basket.wallet, Least(r.seen.wallet, left)))

\* Faulty variant of AppointmentKeyFree: no unique key.
NoAppointmentKey(basket) == TRUE

\* Invoice.appointmentId is unique.
AppointmentKeyFree(basket) == basket.appointment => ~Billed

\* The bill completes the appointment, whatever its status was.
CompleteVisit(booked) ==
  /\ appointment' = IF booked THEN "COMPLETED" ELSE appointment
  /\ finished' = (finished /\ ~booked)
  /\ strayed' = (strayed \/ (booked /\ moving # Idle))
  /\ UNCHANGED moving

\* The transaction of createInvoice, from the number on.
CommitCreate(d) ==
  LET r == request[d]
      basket == r.basket
      total == Total(basket.line)
      points == PointsValue(basket.points, total)
      wallet == FromWallet(r, total - points)
      given == basket.payments \o <<points, wallet>>
      money == SumOf(given)
      due == AtLeastZero(total - money)
      earned == PointsEarned(total)
      b == Cardinality(Made) + 1
  IN
  /\ At(d, "create", "commit")
  /\ AppointmentKeyFree(basket)
  /\ invoice' = [invoice EXCEPT ![b] =
        [status |-> StatusFor(money, due), kind |-> basket.kind, number |-> r.number,
         line |-> basket.line, appointment |-> basket.appointment, total |-> total,
         paid |-> Least(money, total), due |-> due, refunded |-> 0,
         earned |-> earned, redeemed |-> points]]
  /\ payments' = [payments EXCEPT ![b] = given]
  /\ series' = [series EXCEPT ![basket.kind] = r.number]
  /\ IF basket.line = "session" THEN RedeemSession ELSE UNCHANGED package
  /\ IF basket.line = "product" THEN MoveStock(r.seen.stock, -1) ELSE UNCHANGED <<stock, movements>>
  /\ transactions' = transactions - points + earned
  /\ customer' = [wallet |-> customer.wallet - wallet, outstanding |-> customer.outstanding + due,
                  visits |-> r.seen.visits + 1, spent |-> r.seen.spent + total,
                  points |-> customer.points - points + earned]
  /\ CompleteVisit(basket.appointment)
  /\ overpaid' = IF money > total THEN overpaid \cup {b} ELSE overpaid
  /\ Crossing(d, {}, {"visits", "owed"} \cup (IF wallet > 0 THEN {"wallet"} ELSE {})
                   \cup (IF points + earned > 0 THEN {"points"} ELSE {}) \cup RowOf(basket.line))
  /\ Done(d)

----------------------------------------------------------------------------
\* addPayment.
AskPay(d, b, n) ==
  /\ Exists(b) /\ invoice[b].status # "VOID"
  /\ n =< invoice[b].due
  /\ Begin(d, [op |-> "pay", bill |-> b, amount |-> n, paid |-> invoice[b].paid])

\* Faulty variant: what is due stays as it was.
SettlePaidOnly(b, paid) ==
  invoice' = [invoice EXCEPT ![b].paid = paid, ![b].status = StatusFor(paid, invoice[b].total - paid)]

\* What the bill says after a payment came or went.
Settle(b, paid) ==
  LET due == AtLeastZero(invoice[b].total - paid) IN
  invoice' = [invoice EXCEPT ![b] = [@ EXCEPT !.paid = paid, !.due = due, !.status = StatusFor(paid, due)]]

Owe(amount) == customer' = [customer EXCEPT !.outstanding = @ + amount]

CommitPay(d) ==
  LET r == request[d] IN
  /\ Doing(d, "pay") /\ Exists(r.bill)
  /\ payments' = [payments EXCEPT ![r.bill] = Append(@, r.amount)]
  /\ Settle(r.bill, r.paid + r.amount)
  /\ Owe(-r.amount)
  /\ Crossing(d, {r.bill}, {"owed"})
  /\ Done(d)
  /\ UNCHANGED <<package, stock, movements, transactions, visit, series, overpaid>>

\* removePayment.
AskUnpay(d, b, i) ==
  /\ Exists(b) /\ invoice[b].status \notin {"VOID", "REFUNDED"}
  /\ i \in DOMAIN payments[b] /\ payments[b][i] > 0
  /\ Begin(d, [op |-> "unpay", bill |-> b, index |-> i, paid |-> invoice[b].paid])

CommitUnpay(d) ==
  LET r == request[d]
      amount == payments[r.bill][r.index]
  IN
  /\ Doing(d, "unpay") /\ Exists(r.bill) /\ amount > 0
  /\ payments' = [payments EXCEPT ![r.bill][r.index] = 0]
  /\ Settle(r.bill, AtLeastZero(r.paid - amount))
  /\ Owe(amount)
  /\ Crossing(d, {r.bill}, {"owed"})
  /\ Done(d)
  /\ UNCHANGED <<package, stock, movements, transactions, visit, series, overpaid>>

\* refundInvoice, in cash or into the wallet.  It writes the status it read.
AskRefund(d, b, n, toWallet) ==
  /\ Exists(b) /\ invoice[b].status # "VOID"
  /\ n =< invoice[b].paid - invoice[b].refunded
  /\ Begin(d, [op |-> "refund", bill |-> b, amount |-> n, toWallet |-> toWallet,
                refunded |-> invoice[b].refunded, status |-> invoice[b].status])

CommitRefund(d) ==
  LET r == request[d]
      refunded == r.refunded + r.amount
  IN
  /\ Doing(d, "refund") /\ Exists(r.bill)
  /\ invoice' = [invoice EXCEPT ![r.bill] = [@ EXCEPT !.refunded = refunded,
                    !.status = IF refunded >= invoice[r.bill].total THEN "REFUNDED" ELSE r.status]]
  /\ customer' = [customer EXCEPT !.wallet = @ + (IF r.toWallet THEN r.amount ELSE 0)]
  /\ Crossing(d, {r.bill}, {})
  /\ Done(d)
  /\ UNCHANGED <<payments, package, stock, movements, transactions, visit, series, overpaid>>

----------------------------------------------------------------------------
\* voidInvoice: the bill is read first; then, in the transaction, the stock and
\* the customer.
AskVoid(d, b) ==
  /\ Exists(b) /\ invoice[b].status # "VOID"
  /\ Begin(d, [op |-> "void", bill |-> b, step |-> "stock", due |-> invoice[b].due,
                seen |-> [stock |-> 0, visits |-> 0, spent |-> 0, points |-> 0]])

\* reverseInvoiceMovements, for the product of the bill.
ReadStockToReverse(d) ==
  /\ At(d, "void", "stock")
  /\ request' = [request EXCEPT ![d].step = "customer",
                    ![d].seen.stock = IF invoice[request[d].bill].line = "product" THEN stock ELSE 0]
  /\ UNCHANGED <<data, series, issuing, asked, history>>

ReadCustomer(d) ==
  /\ At(d, "void", "customer")
  /\ request' = [request EXCEPT ![d].step = "commit",
                    ![d].seen = [@ EXCEPT !.visits = customer.visits, !.spent = customer.spent,
                                          !.points = customer.points]]
  /\ UNCHANGED <<data, series, issuing, asked, history>>

\* Points and rollups are computed from the read; what is owed is a decrement.
CustomerAfterVoid(r, row) ==
  [customer EXCEPT !.points = AtLeastZero(r.seen.points + row.redeemed - row.earned),
                   !.visits = AtLeastZero(r.seen.visits - 1),
                   !.spent = AtLeastZero(r.seen.spent - row.total),
                   !.outstanding = @ - r.due]

\* The session goes back; the status of the package stays what it was.
GiveBackSession(row) ==
  package' = IF row.line = "session" THEN [package EXCEPT !.used = @ - 1] ELSE package

\* "CHECKED_IN", also of an appointment that was completed, cancelled or moved since.
ReopenVisit(booked) ==
  /\ appointment' = IF booked THEN "CHECKED_IN" ELSE appointment
  /\ finished' = (finished /\ ~booked)
  /\ UNCHANGED <<moving, strayed>>

CommitVoid(d) ==
  LET r == request[d]
      row == invoice[r.bill]
  IN
  /\ At(d, "void", "commit") /\ Exists(r.bill)
  /\ IF row.line = "product" THEN MoveStock(r.seen.stock, 1) ELSE UNCHANGED <<stock, movements>>
  /\ customer' = CustomerAfterVoid(r, row)
  /\ transactions' = transactions + row.redeemed - row.earned
  /\ GiveBackSession(row)
  /\ ReopenVisit(row.appointment)
  /\ invoice' = [invoice EXCEPT ![r.bill] = [@ EXCEPT !.status = "VOID", !.due = 0]]
  /\ Crossing(d, {r.bill}, {"visits", "owed", "points"} \cup RowOf(row.line))
  /\ Done(d)
  /\ UNCHANGED <<payments, series, overpaid>>

\* deleteInvoice: only a voided bill without payments.  Its items and payments
\* go with it.
AskDelete(d, b) ==
  /\ Exists(b) /\ invoice[b].status = "VOID"
  /\ \A i \in DOMAIN payments[b] : payments[b][i] = 0
  /\ Begin(d, [op |-> "delete", bill |-> b])

CommitDelete(d) ==
  LET b == request[d].bill IN
  /\ Doing(d, "delete") /\ Exists(b)
  /\ invoice' = [invoice EXCEPT ![b].status = "DELETED"]
  /\ payments' = [payments EXCEPT ![b] = <<>>]
  /\ Crossing(d, {b}, {})
  /\ Done(d)
  /\ UNCHANGED <<customer, package, stock, movements, transactions, visit, series, overpaid>>

----------------------------------------------------------------------------
\* addAdvance: one increment.
AddAdvance ==
  /\ asked < MaxRequests /\ asked' = asked + 1
  /\ customer' = [customer EXCEPT !.wallet = @ + 1]
  /\ UNCHANGED <<invoice, payments, package, stock, movements, transactions, visit,
                 series, issuing, request, history>>

\* adjustPoints: the balance is computed from the read.
AskAdjust(d, n) ==
  /\ customer.points + n >= 0
  /\ Begin(d, [op |-> "adjust", amount |-> n, balance |-> customer.points + n])

CommitAdjust(d) ==
  LET r == request[d] IN
  /\ Doing(d, "adjust")
  /\ customer' = [customer EXCEPT !.points = r.balance]
  /\ transactions' = transactions + r.amount
  /\ Crossing(d, {}, {"points"})
  /\ Done(d)
  /\ UNCHANGED <<invoice, payments, package, stock, movements, visit, series, overpaid>>

\* recalculateCustomerRollups, the repair; its queries are taken as one read.
\* It counts no refunded bill, which billing goes on counting.
AskRollup(d) ==
  LET with(statuses) == {b \in Made : invoice[b].status \in statuses}
      counted == with({"ISSUED", "PARTIALLY_PAID", "PAID"})
  IN
  Begin(d, [op |-> "rollup", visits |-> Cardinality(counted),
            spent |-> SumOver(counted, LAMBDA b : invoice[b].total),
            outstanding |-> SumOver(with({"ISSUED", "PARTIALLY_PAID"}), LAMBDA b : invoice[b].due)])

CommitRollup(d) ==
  LET r == request[d] IN
  /\ Doing(d, "rollup")
  /\ customer' = [customer EXCEPT !.visits = r.visits, !.spent = r.spent, !.outstanding = r.outstanding]
  /\ Crossing(d, {}, {"visits", "owed"})
  /\ Done(d)
  /\ UNCHANGED <<invoice, payments, package, stock, movements, transactions, visit, series, overpaid>>

----------------------------------------------------------------------------
\* The appointment away from the till (Booking has the diary): changeStatus, a move
\* and the sweep read one that is not completed, and write its status by id.
AskMove(s) ==
  /\ asked < MaxRequests /\ asked' = asked + 1
  /\ moving = Idle /\ appointment # "COMPLETED"
  /\ moving' = s
  /\ UNCHANGED <<invoice, payments, customer, package, stock, movements, transactions, appointment,
                 finished, strayed, series, issuing, request, history>>

CommitMove ==
  /\ moving # Idle
  /\ appointment' = moving
  /\ finished' = (moving = "COMPLETED")
  /\ moving' = Idle
  /\ UNCHANGED <<invoice, payments, customer, package, stock, movements, transactions, strayed,
                 series, issuing, request, asked, history>>

----------------------------------------------------------------------------
Ask(d) ==
  \/ \E basket \in Baskets : AskCreate(d, basket)
  \/ \E b \in Bills :
       \/ \E n \in 1..Price : AskPay(d, b, n) \/ \E toWallet \in BOOLEAN : AskRefund(d, b, n, toWallet)
       \/ \E i \in DOMAIN payments[b] : AskUnpay(d, b, i)
       \/ AskVoid(d, b)
       \/ AskDelete(d, b)
  \/ \E n \in {-1, 1} : AskAdjust(d, n)
  \/ AskRollup(d)

Read(d) ==
  EnsureSeries(d) \/ IssueNumber(d) \/ ReadLine(d) \/ ReadPoints(d)
    \/ ReadStockToReverse(d) \/ ReadCustomer(d)

Commit(d) ==
  CommitCreate(d) \/ CommitPay(d) \/ CommitUnpay(d) \/ CommitRefund(d)
    \/ CommitVoid(d) \/ CommitDelete(d) \/ CommitAdjust(d) \/ CommitRollup(d)

MoveVisit == CommitMove \/ \E s \in {"CHECKED_IN", "COMPLETED"} : AskMove(s)

Next == AddAdvance \/ MoveVisit \/ \E d \in Desks : Ask(d) \/ Read(d) \/ Commit(d) \/ Abandon(d)

Spec == Init /\ [][Next]_vars

----------------------------------------------------------------------------
\* Properties.

\* Whatever overlaps, aborts or is deleted later, the numbers handed out in a
\* series are 1, 2, 3 and so on, each to one bill (issueInvoiceNumber: "two tills
\* billing in the same millisecond serialise on that row").
NumbersConsecutive ==
  \A k \in Kinds :
    LET numbered == {b \in Made : invoice[b].kind = k}
        last == IF series[k] = NoRow THEN 0 ELSE series[k]
    IN Cardinality(numbered) = last /\ {invoice[b].number : b \in numbered} = 1..last

\* An appointment is billed once, whatever overlaps.  While its bill counts it is
\* COMPLETED, whatever the desk does, unless somebody who had read it before the bill
\* wrote its status after; and COMPLETED without a bill that counts it is only when
\* that was written since, and not by a bill: a void never leaves it so.  (Two requests
\* at one bill are not promised that: a payment or a refund that read it before a void
\* brings it back to life.)
AppointmentMatchesBill ==
  LET bills == {b \in Made : Exists(b) /\ invoice[b].appointment} IN
  /\ Cardinality(bills) =< 1
  /\ crossedBills = {} =>
       /\ ~strayed /\ bills \cap LiveBills # {} => appointment = "COMPLETED"
       /\ appointment = "COMPLETED" => finished \/ bills \cap LiveBills # {}

\* A bill that no two requests changed at once says what was paid, what is due and
\* where that leaves it (removePayment: "whatever the remaining payments say"); a bill
\* that was overpaid at the till is not promised that.  And what the customer owes is
\* what the bills that count have due, through payments, removals, refunds and voids of
\* different bills in any order, and the repair says the same; visits and spending are
\* those bills, and billing and the repair agree on them until a bill is refunded whole;
\* the wallet is spent once, and points are never fewer than the loyalty ledger explains
\* (a void that claws back points already spent stops at zero).  Unless two requests had
\* both read the customer.
MoneyAddsUp ==
  /\ \A b \in LiveBills \ (crossedBills \cup overpaid) :
       /\ invoice[b].paid = SumOf(payments[b])
       /\ invoice[b].due = invoice[b].total - invoice[b].paid
       /\ invoice[b].status \in {StatusFor(invoice[b].paid, invoice[b].due), "REFUNDED"}
       /\ invoice[b].status = "REFUNDED" => invoice[b].refunded >= invoice[b].total
  /\ "wallet" \notin crossedRows => customer.wallet >= 0
  /\ crossedBills = {} =>
       /\ "points" \notin crossedRows => customer.points >= AtLeastZero(transactions)
       /\ overpaid = {} /\ "owed" \notin crossedRows =>
            customer.outstanding = SumOver(LiveBills, LAMBDA b : invoice[b].due)
       /\ /\ "visits" \notin crossedRows
          /\ \A b \in Made : invoice[b].refunded < invoice[b].total \/ invoice[b].total = 0
          =>
            /\ customer.visits = Cardinality(LiveBills)
            /\ customer.spent = SumOver(LiveBills, LAMBDA b : invoice[b].total)

\* Sessions used are the bills that used one, as long as no bill was changed while
\* another request was at it, and no more than the package had, when no bill of
\* another series read the package at the same time; and the balance of the stock is
\* the sum of its movements: bills of one series never lose each other's, and others
\* only by reading it at the same time.
UsedIsBilled ==
  /\ crossedBills = {} =>
       /\ package.used = Cardinality({b \in LiveBills : invoice[b].line = "session"})
       /\ "session" \notin crossedRows => package.used =< Sessions
  /\ "product" \notin crossedRows => stock = movements

\* "Mark the whole package exhausted once every line is used up"
\* (package.service.ts:214).
ExhaustedIsUsedUp == package.active \/ package.used = Sessions
=============================================================================
