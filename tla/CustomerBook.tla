---------------------------- MODULE CustomerBook ----------------------------
(***************************************************************************)
(* The customers of a salon, by their phone number: the ways in which one  *)
(* is created (customers/customer.service.ts, leads/lead.service.ts,       *)
(* public/public.routes.ts, appointments/appointment.service.ts), a        *)
(* corrected number, an import, and the merge of two into one.             *)
(*                                                                         *)
(* Each counts, looks and writes in statements of its own.  The unique key *)
(* is that of tenant and phone, as it is stored; the code, C-00017, has    *)
(* none.  A number may be stored as normalizePhone leaves it, or as it was *)
(* typed, which updateCustomer does to a number that is her own.           *)
(***************************************************************************)
EXTENDS Naturals, Sequences, FiniteSets

CONSTANTS
    Numbers,     \* phone numbers, naturals: a file lists them in their order
    Requests,    \* requests at work at the same time
    Limit,       \* Plan.maxCustomers
    MaxAsks, MaxFaults   \* bounds

VARIABLES
    book,     \* the Customer rows: [phone, code, bills, visits]
    lead,     \* lead[n]: convertedCustomerId of the lead with the number, 0 when open
    pc,       \* pc[r]: the next statement of a request
    way,      \* way[r]: "create", "convert", "walk in", "import", "update", "merge", "bill"
    about,    \* about[r]: the numbers it is about
    mine,     \* mine[r]: the customers it has read
    counted,  \* counted[r]: the customers it has counted
    asks, faults,   \* bounds
    asked,    \* history: customers the plan was asked about
    crossed,  \* history: two requests were at the book at once
    respelt,  \* history: numbers stored as they were typed
    short,    \* history: an import created fewer than it reported
    husks     \* history: customers merged into another whose visits nobody has told again

rows    == <<book, lead>>
request == <<pc, way, about, mine, counted>>
history == <<asked, crossed, respelt, short, husks>>
vars    == <<rows, request, asks, faults, history>>

\* The number of a customer that was merged: "merged:98...:1710".
Merged == [number |-> 0, typed |-> FALSE]
Stored(n) == [number |-> n, typed |-> FALSE]
Typed(n)  == [number |-> n, typed |-> TRUE]

Init ==
    /\ book = <<>> /\ lead = [n \in Numbers |-> 0]
    /\ pc = [r \in Requests |-> "idle"] /\ way = [r \in Requests |-> "create"]
    /\ about = [r \in Requests |-> {}] /\ mine = [r \in Requests |-> <<0, 0>>]
    /\ counted = [r \in Requests |-> 0]
    /\ asks = 0 /\ faults = 0
    /\ asked = {} /\ crossed = FALSE /\ respelt = {} /\ short = FALSE /\ husks = {}

Customers == DOMAIN book

\* The customer whose row has the phone, 0 for none: the key allows one.
Holder(phone) ==
    IF \E c \in Customers : book[c].phone = phone
    THEN CHOOSE c \in Customers : book[c].phone = phone ELSE 0

KeyFree(phone) == Holder(phone) = 0

Row(n, code) == [phone |-> Stored(n), code |-> code, bills |-> 0, visits |-> 0]

Goto(r, statement) == pc' = [pc EXCEPT ![r] = statement]

\* The request is over, and what it has read is gone.
End(r) ==
    /\ Goto(r, "idle")
    /\ way' = [way EXCEPT ![r] = "create"]
    /\ about' = [about EXCEPT ![r] = {}]
    /\ mine' = [mine EXCEPT ![r] = <<0, 0>>]
    /\ counted' = [counted EXCEPT ![r] = 0]

Begin(r, w, numbers, customers, statement) ==
    /\ pc[r] = "idle" /\ asks < MaxAsks
    /\ asks' = asks + 1
    /\ way' = [way EXCEPT ![r] = w]
    /\ about' = [about EXCEPT ![r] = numbers]
    /\ mine' = [mine EXCEPT ![r] = customers]
    /\ crossed' = (crossed \/ \E q \in Requests \ {r} : pc[q] # "idle")
    /\ Goto(r, statement)
    /\ UNCHANGED <<rows, counted, faults, asked, respelt, short, husks>>
-----------------------------------------------------------------------------
(* One new customer *)

\* The plan, "checked here, on the way in".
Allows(adding) == Len(book) + adding <= Limit

\* createCustomer asks it first.  A lead, a walk-in and an online booking do not.
AskCreate(r, n) == Allows(1) /\ Begin(r, "create", {n}, <<0, 0>>, "find")
AskWalkIn(r, n) == Begin(r, "walk in", {n}, <<0, 0>>, "find")

\* "This lead has already been converted."
AskConvert(r, n) == lead[n] = 0 /\ Begin(r, "convert", {n}, <<0, 0>>, "find")

Number(r) == CHOOSE n \in about[r] : TRUE

\* The customer with this number, who is there already: refused, linked or taken as
\* she is.  Without one they are counted, for the code.
Find(r) ==
    LET existing == Holder(Stored(Number(r))) IN
    /\ pc[r] = "find"
    /\ \/ /\ existing = 0
          /\ Goto(r, "count")
          /\ UNCHANGED <<way, about, mine, counted>>
       \/ /\ existing # 0 /\ way[r] = "convert"
          /\ mine' = [mine EXCEPT ![r] = <<existing, 0>>]
          /\ Goto(r, "link")
          /\ UNCHANGED <<way, about, counted>>
       \/ existing # 0 /\ way[r] # "convert" /\ End(r)
    /\ UNCHANGED <<rows, asks, faults, history>>

Count(r) ==
    /\ pc[r] = "count"
    /\ counted' = [counted EXCEPT ![r] = Len(book)]
    /\ Goto(r, "insert")
    /\ UNCHANGED <<rows, way, about, mine, asks, faults, history>>

\* Faulty variant: the next code is the last one again.
LastCode(r) == counted[r]

NextCode(r) == counted[r] + 1

\* The insert fails when the number has come meanwhile.
Insert(r) ==
    LET id == Len(book) + 1 IN
    /\ pc[r] = "insert"
    /\ IF KeyFree(Stored(Number(r)))
       THEN /\ book' = Append(book, Row(Number(r), NextCode(r)))
            /\ asked' = IF way[r] = "create" THEN asked \cup {id} ELSE asked
            /\ IF way[r] = "convert"
               THEN /\ mine' = [mine EXCEPT ![r] = <<id, 0>>]
                    /\ Goto(r, "link")
                    /\ UNCHANGED <<way, about, counted>>
               ELSE End(r)
       ELSE End(r) /\ UNCHANGED <<book, asked>>
    /\ UNCHANGED <<lead, asks, faults, crossed, respelt, short, husks>>

\* The lead is CONVERTED after the customer is there.
Link(r) ==
    /\ pc[r] = "link"
    /\ lead' = [lead EXCEPT ![Number(r)] = mine[r][1]]
    /\ End(r)
    /\ UNCHANGED <<book, asks, faults, history>>
-----------------------------------------------------------------------------
(* importCustomers *)

\* The file against the numbers there are, and their count.
ReadFile(r, file) ==
    /\ pc[r] = "idle" /\ asks < MaxAsks
    /\ LET fresh == {n \in file : KeyFree(Stored(n))} IN
          /\ fresh # {}
          /\ about' = [about EXCEPT ![r] = fresh]
    /\ asks' = asks + 1
    /\ way' = [way EXCEPT ![r] = "import"]
    /\ counted' = [counted EXCEPT ![r] = Len(book)]
    /\ crossed' = (crossed \/ \E q \in Requests \ {r} : pc[q] # "idle")
    /\ Goto(r, "limit")
    /\ UNCHANGED <<rows, mine, faults, asked, respelt, short, husks>>

\* "Checked once for the whole batch."
AskPlan(r) ==
    /\ pc[r] = "limit"
    /\ IF Allows(Cardinality(about[r]))
       THEN Goto(r, "create many") /\ UNCHANGED <<way, about, mine, counted>>
       ELSE End(r)
    /\ UNCHANGED <<rows, asks, faults, history>>

\* createMany with skipDuplicates: "imported" is what the file had, not what came in.
CreateMany(r) ==
    LET place(n) == Cardinality({m \in about[r] : m <= n})
        new == {n \in about[r] : KeyFree(Stored(n))}
        nth(i) == CHOOSE n \in new : Cardinality({m \in new : m <= n}) = i
    IN
    /\ pc[r] = "create many"
    /\ book' = book \o [i \in 1..Cardinality(new) |->
                           Row(nth(i), counted[r] + place(nth(i)))]
    /\ asked' = asked \cup (Len(book) + 1 .. Len(book'))
    /\ short' = (short \/ new # about[r])
    /\ End(r)
    /\ UNCHANGED <<lead, asks, faults, crossed, respelt, husks>>
-----------------------------------------------------------------------------
(* Changing who is there *)

\* updateCustomer: another's number is refused; a new one is stored as normalizePhone
\* leaves it; her own, spelt differently, as it was typed.  One who was merged is
\* given a number like any other.
AskUpdate(r, c, n) ==
    /\ Stored(n) # book[c].phone => Holder(Stored(n)) \in {0, c}
    /\ Begin(r, "update", {n}, <<c, 0>>,
             IF Stored(n) # book[c].phone THEN "write number" ELSE "write as typed")

WriteNumber(r) ==
    LET c == mine[r][1]
        phone == IF pc[r] = "write number" THEN Stored(Number(r)) ELSE Typed(Number(r))
    IN
    /\ pc[r] \in {"write number", "write as typed"}
    /\ IF Holder(phone) \in {0, c}
       THEN /\ book' = [book EXCEPT ![c].phone = phone]
            /\ respelt' = IF phone.typed THEN respelt \cup {phone.number} ELSE respelt
       ELSE UNCHANGED <<book, respelt>>
    /\ End(r)
    /\ UNCHANGED <<lead, asks, faults, asked, crossed, short, husks>>

\* createInvoice, for a customer it has read.  Billing has the rest.
AskBill(r, c) == Begin(r, "bill", {}, <<c, 0>>, "bill")

Bill(r) ==
    LET c == mine[r][1] IN
    /\ pc[r] = "bill"
    /\ book' = [book EXCEPT ![c].bills = @ + 1, ![c].visits = @ + 1]
    /\ End(r)
    /\ UNCHANGED <<lead, asks, faults, history>>

\* mergeCustomers: the source's history goes to the target in one transaction, and the
\* source keeps a number of nobody, and the visits it had.
AskMerge(r, source, target) ==
    source # target /\ Begin(r, "merge", {}, <<source, target>>, "merge")

Merge(r) ==
    LET source == mine[r][1]  target == mine[r][2] IN
    /\ pc[r] = "merge"
    /\ book' = [book EXCEPT ![target].bills = @ + book[source].bills, ![source].bills = 0,
                            ![source].phone = Merged]
    /\ husks' = husks \cup {source}
    /\ Goto(r, "tally")
    /\ UNCHANGED <<lead, way, about, mine, counted, asks, faults, asked, crossed, respelt, short>>

\* recalculateCustomerRollups, of the target, after it.
Tally(r) ==
    LET target == mine[r][2] IN
    /\ pc[r] = "tally"
    /\ book' = [book EXCEPT ![target].visits = book[target].bills]
    /\ husks' = husks \ {target}
    /\ End(r)
    /\ UNCHANGED <<lead, asks, faults, asked, crossed, respelt, short>>

\* A statement throws or the process dies.
Fail(r) ==
    /\ pc[r] # "idle" /\ faults < MaxFaults
    /\ faults' = faults + 1
    /\ End(r)
    /\ UNCHANGED <<rows, asks, history>>
-----------------------------------------------------------------------------
Enter(r) ==
    \/ \E n \in Numbers : AskCreate(r, n) \/ AskWalkIn(r, n) \/ AskConvert(r, n)
    \/ Find(r) \/ Count(r) \/ Insert(r) \/ Link(r)
    \/ (\E file \in SUBSET Numbers : ReadFile(r, file)) \/ AskPlan(r) \/ CreateMany(r)

Change(r) ==
    \/ \E c \in Customers, n \in Numbers : AskUpdate(r, c, n)
    \/ WriteNumber(r)
    \/ \E c \in Customers : AskBill(r, c) \/ \E d \in Customers : AskMerge(r, c, d)
    \/ Bill(r) \/ Merge(r) \/ Tally(r)

Next == \E r \in Requests : Enter(r) \/ Change(r) \/ Fail(r)

Spec == Init /\ [][Next]_vars
-----------------------------------------------------------------------------
Quiet == \A r \in Requests : pc[r] = "idle"

Phones == {book[c].phone.number : c \in Customers} \ {0}

\* However two requests cross, a number is one customer's, unless hers was stored as it
\* was typed; and as long as they take turns, no two customers have one code, an import
\* creates what it reports, a customer the plan was asked about is within its limit, and
\* a customer's visits are her bills, also when the same two are merged back and forth:
\* but for one who was merged into another, and who keeps the visits of the bills that
\* were taken from her even when she is given a number and bills of her own again.
BookIsInOrder ==
    /\ \A n \in Phones \ respelt : Cardinality({c \in Customers : book[c].phone.number = n}) = 1
    /\ ~crossed =>
          /\ \A c, d \in Customers : book[c].code = book[d].code => c = d
          /\ ~short
          /\ \A c \in asked : c <= Limit
    /\ ~crossed /\ faults = 0 /\ Quiet =>
          \A c \in Customers \ husks : book[c].visits = book[c].bills
=============================================================================
