----------------------------- MODULE Commission -----------------------------
(***************************************************************************)
(* The commission on the lines of a month's bills, from the bill that      *)
(* earns it to the payroll that pays it: billing.service.ts writes,        *)
(* corrects and withdraws the entries, staff/hr.service.ts adds the unpaid *)
(* ones up in a draft, approves it and marks entries as paid.              *)
(*                                                                         *)
(* Entries are counted by line: who of the staff has one is left out.      *)
(***************************************************************************)
EXTENDS Naturals

CONSTANTS
    Lines,      \* service lines of the month's bills
    Requests,   \* requests at work at the same time
    MaxStarts   \* bound: requests that change something

VARIABLES
    bill,       \* bill[l]: "none", "open" or "void"
    unpaid,     \* unpaid[l]: the line has a CommissionEntry with isPaid = false
    paid,       \* paid[l]: entries of the line with isPaid = true
    payroll,    \* Payroll.status, "NONE" before the row
    slip,       \* lines whose commission is in the payroll's items
    marked,     \* marked[l]: entries of the line paid by the payroll
    pc,         \* pc[p]: the next statement of a request
    line,       \* line[p]: the lines it is about
    first,      \* first[p]: the generator found no payroll
    waiting,    \* waiting[p]: the lines it has not added up yet
    starts,     \* bound
    moved,      \* history: moved[p], lines whose entries changed since p added them up,
                \* or that the payroll was paid before
    drifted,    \* history: lines whose entries changed since the slip's were read
    crossed     \* history: lines that were paid or voided under a correction

vars == <<bill, unpaid, paid, payroll, slip, marked, pc, line, first, waiting, starts, moved,
          drifted, crossed>>

Init ==
    /\ bill = [l \in Lines |-> "none"]
    /\ unpaid = [l \in Lines |-> FALSE] /\ paid = [l \in Lines |-> 0]
    /\ payroll = "NONE" /\ slip = {} /\ marked = [l \in Lines |-> 0]
    /\ pc = [p \in Requests |-> "idle"] /\ line = [p \in Requests |-> {}]
    /\ first = [p \in Requests |-> FALSE] /\ waiting = [p \in Requests |-> {}]
    /\ starts = 0
    /\ moved = [p \in Requests |-> {}] /\ drifted = {} /\ crossed = {}

Once == starts < MaxStarts /\ starts' = starts + 1

Goto(p, statement) == pc' = [pc EXCEPT ![p] = statement]

\* The entries of some lines are no longer what others have read.
Disturb(S) ==
    /\ moved' = [p \in Requests |-> moved[p] \cup (S \ waiting[p])]
    /\ drifted' = drifted \cup S

\* A correction of the line is under way.
Corrected(l) == \E p \in Requests : pc[p] = "rewrite" /\ l \in line[p]
-----------------------------------------------------------------------------
(* The till *)

\* createInvoice: a performer whose arrangement pays nothing gets no entry.
Bill(l) ==
    /\ bill[l] = "none"
    /\ bill' = [bill EXCEPT ![l] = "open"]
    /\ \E pays \in BOOLEAN : unpaid' = [unpaid EXCEPT ![l] = pays]
    /\ Disturb({l})
    /\ UNCHANGED <<paid, payroll, slip, marked, pc, line, first, waiting, starts, crossed>>

\* setInvoiceItemStaff: not on a void bill, and not once the commission was paid.
ReadLine(p, l) ==
    /\ pc[p] = "idle" /\ Once
    /\ bill[l] = "open" /\ paid[l] = 0
    /\ line' = [line EXCEPT ![p] = {l}]
    /\ Goto(p, "rewrite")
    /\ UNCHANGED <<bill, unpaid, paid, payroll, slip, marked, first, waiting, moved, drifted, crossed>>

\* The unpaid entries go and those of the new performers come, in one transaction
\* that does not look again.
Rewrite(p) ==
    /\ pc[p] = "rewrite"
    /\ \E pays \in BOOLEAN :
          unpaid' = [l \in Lines |-> IF l \in line[p] THEN pays ELSE unpaid[l]]
    /\ Disturb(line[p])
    /\ line' = [line EXCEPT ![p] = {}]
    /\ Goto(p, "idle")
    /\ UNCHANGED <<bill, paid, payroll, slip, marked, first, waiting, starts, crossed>>

\* voidInvoice, of which Billing has the rest; deleteInvoice takes only bills that are void
\* already, whose unpaid entries are gone.
Void(l) ==
    /\ bill[l] = "open" /\ Once
    /\ bill' = [bill EXCEPT ![l] = "void"]
    /\ unpaid' = [unpaid EXCEPT ![l] = FALSE]
    /\ Disturb({l})
    /\ crossed' = IF Corrected(l) THEN crossed \cup {l} ELSE crossed
    /\ UNCHANGED <<paid, payroll, slip, marked, pc, line, first, waiting>>
-----------------------------------------------------------------------------
(* The payroll *)

Unpaid == {l \in Lines : unpaid[l]}

\* The lines that become paid, each with one entry more.
Pay(S) ==
    /\ unpaid' = [l \in Lines |-> unpaid[l] /\ l \notin S]
    /\ paid' = [l \in Lines |-> IF l \in S THEN paid[l] + 1 ELSE paid[l]]
    /\ crossed' = crossed \cup {l \in S : Corrected(l)}

\* markCommissionsPaid: those of the chosen entries that are not.
MarkPaid(l) ==
    /\ Once /\ l \in Unpaid
    /\ Pay({l})
    /\ Disturb({l})
    /\ UNCHANGED <<bill, payroll, slip, marked, pc, line, first, waiting>>

\* Faulty variant: what was paid by hand is added up again.
InDraftEverything == {l \in Lines : unpaid[l] \/ paid[l] > 0}

\* `isPaid: false`, of the period.
InDraft == Unpaid

\* generatePayroll: a payroll that was approved is refused.
ReadPayroll(p) ==
    /\ pc[p] = "idle" /\ Once
    /\ payroll \in {"NONE", "DRAFT"}
    /\ first' = [first EXCEPT ![p] = payroll = "NONE"]
    /\ line' = [line EXCEPT ![p] = {}] /\ waiting' = [waiting EXCEPT ![p] = Lines]
    /\ moved' = [moved EXCEPT ![p] = {}]
    /\ Goto(p, "entries")
    /\ UNCHANGED <<bill, unpaid, paid, payroll, slip, marked, drifted, crossed>>

\* The payroll was paid since: the draft under way goes on all the same.
PaidBefore(l) == payroll = "PAID" \/ marked[l] > 0

\* The unpaid entries are added up, those of each of the staff in a query of its own.
AddUp(p, l) ==
    /\ pc[p] = "entries" /\ l \in waiting[p]
    /\ line' = [line EXCEPT ![p] = @ \cup ({l} \cap InDraft)]
    /\ waiting' = [waiting EXCEPT ![p] = @ \ {l}]
    /\ moved' = [moved EXCEPT ![p] = IF PaidBefore(l) THEN @ \cup {l} ELSE @]
    /\ Goto(p, IF waiting[p] = {l} THEN "draft" ELSE "entries")
    /\ UNCHANGED <<bill, unpaid, paid, payroll, slip, marked, first, starts, drifted, crossed>>

\* The items are replaced whatever became of the payroll; a second first draft meets
\* the unique key of branch and month.
WriteDraft(p) ==
    /\ pc[p] = "draft"
    /\ \/ /\ first[p] => payroll = "NONE"
          /\ slip' = line[p]
          /\ drifted' = moved[p]
          /\ payroll' = IF payroll = "NONE" THEN "DRAFT" ELSE payroll
       \/ /\ first[p] /\ payroll # "NONE"
          /\ UNCHANGED <<slip, drifted, payroll>>
    /\ line' = [line EXCEPT ![p] = {}]
    /\ Goto(p, "idle")
    /\ UNCHANGED <<bill, unpaid, paid, marked, first, waiting, starts, moved, crossed>>

\* approvePayroll, from any status to either, as often as it is called.  With the
\* payment every entry of the period that is not paid is marked, in the draft or not.
Approve ==
    /\ payroll # "NONE" /\ payroll' = "APPROVED" /\ Once
    /\ UNCHANGED <<bill, unpaid, paid, slip, marked, pc, line, first, waiting, moved, drifted,
                   crossed>>

ApproveAndPay ==
    /\ payroll # "NONE" /\ payroll' = "PAID" /\ Once
    /\ Pay(Unpaid)
    /\ marked' = [l \in Lines |-> IF l \in Unpaid THEN marked[l] + 1 ELSE marked[l]]
    /\ UNCHANGED <<bill, slip, pc, line, first, waiting, moved, drifted>>
-----------------------------------------------------------------------------
Next ==
    \/ \E l \in Lines : Bill(l) \/ Void(l) \/ MarkPaid(l)
    \/ \E p \in Requests :
          \/ \E l \in Lines : ReadLine(p, l) \/ AddUp(p, l)
          \/ Rewrite(p) \/ ReadPayroll(p) \/ WriteDraft(p)
    \/ Approve \/ ApproveAndPay

Spec == Init /\ [][Next]_vars
-----------------------------------------------------------------------------
\* What the payroll marks as paid is what its slip pays, for every line whose entries
\* have not moved since they were added up, unless they were added up when the payroll
\* had been paid already (a draft that read it before replaces the items of a payroll
\* that is paid); no line is paid twice, and a void bill keeps no commission to pay,
\* unless the line was paid or voided while a correction of it was under way.
SlipPaysWhatItMarks ==
    /\ payroll = "PAID" => \A l \in Lines \ drifted : marked[l] = IF l \in slip THEN 1 ELSE 0
    /\ \A l \in Lines \ crossed : paid[l] <= 1 /\ (bill[l] = "void" => ~unpaid[l])
=============================================================================
