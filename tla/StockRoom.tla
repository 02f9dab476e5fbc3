------------------------------ MODULE StockRoom -----------------------------
(***************************************************************************)
(* A purchase order and the stock of its products away from the till       *)
(* (inventory/inventory.service.ts, inventory/stock.service.ts): receiving *)
(* it in parts, cancelling it, and adjustments and wastage by hand.        *)
(*                                                                         *)
(* Every movement reads the balance and writes it back changed, with a row *)
(* of the ledger.  A receipt does so in one transaction, after reading the *)
(* order outside of it; an adjustment in statements of their own.          *)
(***************************************************************************)
EXTENDS Integers, FiniteSets

CONSTANTS
    Clerks,        \* requests at work at the same time
    Products,      \* each is on one line of the order
    Ordered,       \* PurchaseOrderItem.quantity
    MaxRequests, MaxFaults   \* bounds

VARIABLES
    stock,      \* Stock.quantity
    ledger,     \* the sum of the product's StockMovements
    bought,     \* the part of it that is PURCHASE
    status,     \* PurchaseOrder.status
    received,   \* PurchaseOrderItem.receivedQty
    pc,         \* pc[c]: the next statement of a request
    amount,     \* amount[c]: what it adds to each product
    order,      \* order[c]: the receivedQty it has read
    seen,       \* seen[c]: the balances it has read
    requests, faults,   \* bounds
    crossed,    \* history: products whose balance was written between a read and its write
    unlogged,   \* history: what was added and has no movement
    torn        \* history: two requests were at the order at once

shelf == <<stock, ledger, bought>>
paper == <<status, received>>
mind  == <<amount, order, seen>>
vars  == <<shelf, paper, pc, mind, requests, faults, crossed, unlogged, torn>>

Nothing == [p \in Products |-> 0]

Init ==
    /\ stock = Nothing /\ ledger = Nothing /\ bought = Nothing
    /\ status = "ORDERED" /\ received = Nothing
    /\ pc = [c \in Clerks |-> "idle"]
    /\ amount = [c \in Clerks |-> Nothing] /\ order = [c \in Clerks |-> Nothing]
    /\ seen = [c \in Clerks |-> Nothing]
    /\ requests = 0 /\ faults = 0 /\ crossed = {} /\ unlogged = Nothing /\ torn = FALSE

Start(c) == pc[c] = "idle" /\ requests < MaxRequests /\ requests' = requests + 1

Goto(c, statement) == pc' = [pc EXCEPT ![c] = statement]

\* Products whose balance the request has read and is about to write.
AboutToWrite(c) ==
    {p \in Products : \/ pc[c] = "receive" /\ amount[c][p] > 0
                      \/ pc[c] = "write" /\ amount[c][p] # 0}

ReadByOthers(c) == UNION {AboutToWrite(d) : d \in Clerks \ {c}}

AtOrder(c) == pc[c] \in {"read stock", "receive", "cancel"}
-----------------------------------------------------------------------------
(* The order *)

\* receivePurchaseOrder, outside of its transaction.  What came may be named line by
\* line, more or less than was ordered; a line not named came in full.
ReadOrder(c) ==
    /\ Start(c)
    /\ status \notin {"RECEIVED", "CANCELLED"}
    /\ order' = [order EXCEPT ![c] = received]
    /\ \E named \in SUBSET Products, count \in 0..Ordered :
          amount' = [amount EXCEPT ![c] = [p \in Products |->
              IF p \in named THEN count ELSE Ordered - received[p]]]
    /\ torn' = (torn \/ \E d \in Clerks : AtOrder(d))
    /\ Goto(c, "read stock")
    /\ UNCHANGED <<shelf, paper, seen, faults, crossed, unlogged>>

\* The transaction: the balances, line by line, and then everything at once.
ReadStock(c) ==
    /\ pc[c] = "read stock"
    /\ seen' = [seen EXCEPT ![c] = stock]
    /\ Goto(c, "receive")
    /\ UNCHANGED <<shelf, paper, amount, order, requests, faults, crossed, unlogged, torn>>

\* What the lines have received with this delivery: a line of nothing is passed over.
NowReceived(c) ==
    [p \in Products |-> IF amount[c][p] > 0 THEN order[c][p] + amount[c][p] ELSE order[c][p]]

\* Faulty variant: a line that is passed over is not asked about.
CompleteIfDelivered(c) ==
    \A p \in Products : amount[c][p] > 0 => NowReceived(c)[p] >= Ordered

FullyReceived(c) == \A p \in Products : NowReceived(c)[p] >= Ordered

Receive(c) ==
    LET came == AboutToWrite(c) IN
    /\ pc[c] = "receive"
    /\ stock' = [p \in Products |-> IF p \in came THEN seen[c][p] + amount[c][p] ELSE stock[p]]
    /\ ledger' = [p \in Products |-> IF p \in came THEN ledger[p] + amount[c][p] ELSE ledger[p]]
    /\ bought' = [p \in Products |-> IF p \in came THEN bought[p] + amount[c][p] ELSE bought[p]]
    /\ received' = [p \in Products |-> IF p \in came THEN NowReceived(c)[p] ELSE received[p]]
    /\ status' = IF FullyReceived(c) THEN "RECEIVED" ELSE "PARTIALLY_RECEIVED"
    /\ crossed' = crossed \cup (came \cap ReadByOthers(c))
    /\ Goto(c, "idle")
    /\ UNCHANGED <<mind, requests, faults, unlogged, torn>>

AskCancel(c) ==
    /\ Start(c)
    /\ status # "RECEIVED"
    /\ torn' = (torn \/ \E d \in Clerks : AtOrder(d))
    /\ Goto(c, "cancel")
    /\ UNCHANGED <<shelf, paper, mind, faults, crossed, unlogged>>

Cancel(c) ==
    /\ pc[c] = "cancel"
    /\ status' = "CANCELLED"
    /\ Goto(c, "idle")
    /\ UNCHANGED <<shelf, received, mind, requests, faults, crossed, unlogged, torn>>
-----------------------------------------------------------------------------
(* Adjustments and wastage: no transaction *)

AskAdjust(c, p, n) ==
    /\ Start(c)
    /\ amount' = [amount EXCEPT ![c] = [Nothing EXCEPT ![p] = n]]
    /\ seen' = [seen EXCEPT ![c] = stock]
    /\ Goto(c, "write")
    /\ UNCHANGED <<shelf, paper, order, faults, crossed, unlogged, torn>>

WriteStock(c) ==
    /\ pc[c] = "write"
    /\ stock' = [p \in Products |->
          IF p \in AboutToWrite(c) THEN seen[c][p] + amount[c][p] ELSE stock[p]]
    /\ crossed' = crossed \cup (AboutToWrite(c) \cap ReadByOthers(c))
    /\ Goto(c, "log")
    /\ UNCHANGED <<ledger, bought, paper, mind, requests, faults, unlogged, torn>>

Plus(sums, c) == [p \in Products |-> sums[p] + amount[c][p]]

WriteMovement(c) ==
    /\ pc[c] = "log"
    /\ ledger' = Plus(ledger, c)
    /\ Goto(c, "idle")
    /\ UNCHANGED <<stock, bought, paper, mind, requests, faults, crossed, unlogged, torn>>

\* A statement throws or the process dies: a transaction leaves nothing behind.
Fail(c) ==
    /\ pc[c] # "idle" /\ faults < MaxFaults
    /\ faults' = faults + 1
    /\ unlogged' = IF pc[c] = "log" THEN Plus(unlogged, c) ELSE unlogged
    /\ Goto(c, "idle")
    /\ UNCHANGED <<shelf, paper, mind, requests, crossed, torn>>
-----------------------------------------------------------------------------
Order(c) == ReadOrder(c) \/ ReadStock(c) \/ Receive(c) \/ AskCancel(c) \/ Cancel(c)
Adjust(c) ==
    \/ \E p \in Products, n \in {-1, 1} : AskAdjust(c, p, n)
    \/ WriteStock(c) \/ WriteMovement(c)

Next == \E c \in Clerks : Order(c) \/ Adjust(c) \/ Fail(c)

Spec == Init /\ [][Next]_vars
-----------------------------------------------------------------------------
\* Movements of the product whose balance is written and whose row is not.
Logging(p, n) == Cardinality({c \in Clerks : pc[c] = "log" /\ amount[c][p] = n})

\* "The ledger and the running balance can never disagree" (stock.service.ts:23): but for
\* the movement a statement still has to write, or was kept from writing, and unless two
\* requests were at one balance at once.  What the order says it has received was bought,
\* and an order is RECEIVED when nothing of it is missing, in however many parts it came
\* and whatever was adjusted meanwhile, as long as one request at a time is at the order.
StockIsExplained ==
    /\ \A p \in Products \ crossed :
          stock[p] = ledger[p] + unlogged[p] + Logging(p, 1) - Logging(p, -1)
    /\ ~torn =>
          /\ received = bought
          /\ status \in {"ORDERED", "PARTIALLY_RECEIVED"} =>
                \E p \in Products : received[p] < Ordered
          /\ status = "RECEIVED" => \A p \in Products : received[p] >= Ordered
=============================================================================
