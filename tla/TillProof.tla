------------------------------ MODULE TillProof ------------------------------
(***************************************************************************)
(* Proofs about Till, for any lines, products, plans, lots, requests and   *)
(* bounds.  Each part has an inductive invariant; the components share no  *)
(* column, and the money is read off the same rows as the bills, so        *)
(* together they are one.  All six say what a request may rely on between  *)
(* what it read and what it writes, as long as nobody crossed it, and what *)
(* the rows then add up to.                                                *)
(*                                                                         *)
(* The bills (Billing): whoever is past the number of a bill holds the     *)
(* lock on its series and has the number after the last (NumberFits), so   *)
(* two creations of one series never rely on the same package or stock;    *)
(* the bill, the package and the balance a request has read are still so   *)
(* when it writes (BillFits, SessionFits, StockFits).                      *)
(*                                                                         *)
(* The money (Billing): the row of a bill is its payments and what they    *)
(* leave of its total (RowAddsUp); the amount, the wallet and the points a *)
(* request has read are still there when it takes them (AmountFits,        *)
(* WalletFits, PointsFit), and a repair that writes sums writes those of   *)
(* the bills as they are (DebtFits, VisitsFit).  The sums over bills are   *)
(* folds: what a change of one bill does to one is proved on sets, one     *)
(* element at a time (OneByOne).                                           *)
(*                                                                         *)
(* The month (Commission): the lines a payroll or a draft added up have    *)
(* their entries still, or were marked by it once, all but those reported  *)
(* since (Explains); a line no request overtook is paid at most once and   *)
(* loses its entry with its bill (LinePaid).                               *)
(*                                                                         *)
(* The shelf (StockRoom): the balance is what the ledger says plus what    *)
(* its requests still owe it, the rows about to be logged (Explained); a   *)
(* balance about to be written is still the one that was read (SeenIs-     *)
(* Balance), and whoever receives an order has it alone (OrderAlone).      *)
(*                                                                         *)
(* The points (Points): the same sum for points (Accounted), a number that *)
(* is not negative when written (Solvent), and one sweep for a lot and one *)
(* request for a challenge while nobody met it twice (Sweeping,            *)
(* Challenged).                                                            *)
(*                                                                         *)
(* The memberships: only the last one sold may run, and a sale that ended  *)
(* it starts the next where it ended (OneSale, InTurn); the sessions used  *)
(* are those of the lines that no void gave back, and there is room for    *)
(* the one about to be used (Spending).                                    *)
(***************************************************************************)
EXTENDS Till, FiniteSetTheorems, SequenceTheorems, WellFoundedInduction, TLAPS

(* The month's commission *)

MonthTyped ==
    /\ bill \in [Lines -> {"none", "open", "void"}]
    /\ unpaid \in [Lines -> BOOLEAN]
    /\ paid \in [Lines -> Nat]
    /\ payroll \in {"NONE", "DRAFT", "APPROVED", "PAID"}
    /\ slip \in SUBSET Lines
    /\ marked \in [Lines -> Nat]
    /\ statement \in [Desks -> {"idle", "rewrite", "entries", "draft"}]
    /\ line \in [Desks -> SUBSET Lines]
    /\ first \in [Desks -> BOOLEAN]
    /\ waiting \in [Desks -> SUBSET Lines]
    /\ moved \in [Desks -> SUBSET Lines]
    /\ drifted \in SUBSET Lines /\ overtaken \in SUBSET Lines

\* Lines added up, all but those that have moved since: each has its entry still, or
\* the payroll has marked it, once.
Explains(set, gone) ==
    \A l \in Lines \ gone :
        /\ l \in set <=> unpaid[l] \/ marked[l] = 1
        /\ marked[l] <= 1
        /\ unpaid[l] => marked[l] = 0 /\ payroll # "PAID"

\* A draft is of lines that have been added up, and stays explained.
DraftFits(d) ==
    /\ statement[d] \in {"entries", "draft"} => Explains(line[d], moved[d] \cup waiting[d])
    /\ statement[d] = "entries" => line[d] \cap waiting[d] = {}
    /\ statement[d] # "entries" => waiting[d] = {}

Drafts ==
    /\ payroll # "NONE" => Explains(slip, drifted)
    /\ payroll \in {"NONE", "DRAFT"} => \A l \in Lines : marked[l] = 0
    /\ \A d \in Desks : DraftFits(d)

LinePaid(l) ==
    /\ bill[l] = "none" => ~unpaid[l] /\ paid[l] = 0 /\ ~E!Corrected(l)
    /\ l \notin overtaken =>
         /\ paid[l] <= 1
         /\ unpaid[l] => paid[l] = 0 /\ bill[l] # "void"
         /\ E!Corrected(l) => bill[l] = "open" /\ paid[l] = 0

MonthInv == MonthTyped /\ Drafts /\ \A l \in Lines : LinePaid(l)

LEMMA MonthTypedKept == MonthTyped /\ E!Next => MonthTyped'
<1> SUFFICES ASSUME MonthTyped, E!Next PROVE MonthTyped'
  OBVIOUS
<1> USE DEF MonthTyped, E!Once, E!Goto, E!Disturb
<1>1. ASSUME NEW l \in Lines, E!Bill(l) \/ E!Void(l) PROVE MonthTyped'
  <2>1. CASE E!Bill(l)
    BY <2>1 DEF E!Bill
  <2>2. CASE E!Void(l)
    <3>1. overtaken' \in SUBSET Lines
      BY <2>2 DEF E!Void
    <3>2. bill' \in [Lines -> {"none", "open", "void"}] /\ unpaid' \in [Lines -> BOOLEAN]
      BY <2>2 DEF E!Void
    <3> QED
      BY <2>2, <3>1, <3>2 DEF E!Void
  <2> QED
    BY <1>1, <2>1, <2>2
<1>2. ASSUME NEW S \in SUBSET Lines, E!Pay(S)
      PROVE  unpaid' \in [Lines -> BOOLEAN] /\ paid' \in [Lines -> Nat] /\ overtaken' \in SUBSET Lines
  BY <1>2 DEF E!Pay
<1>3. E!Unpaid \in SUBSET Lines
  BY DEF E!Unpaid
<1>4. ASSUME NEW l \in Lines, E!MarkPaid(l) PROVE MonthTyped'
  <2>1. PICK S \in SUBSET Lines : E!Pay(S)
    BY <1>4 DEF E!MarkPaid
  <2> QED
    BY <1>2, <1>4, <2>1 DEF E!MarkPaid
<1>5. CASE E!ApproveAndPay
  <2>1. unpaid' \in [Lines -> BOOLEAN] /\ paid' \in [Lines -> Nat] /\ overtaken' \in SUBSET Lines
    BY <1>2, <1>3, <1>5 DEF E!ApproveAndPay
  <2> QED
    BY <1>5, <2>1 DEF E!ApproveAndPay
<1>6. CASE E!Approve
  BY <1>6 DEF E!Approve
<1>7. ASSUME NEW d \in Desks, NEW l \in Lines, E!ReadLine(d, l) PROVE MonthTyped'
  BY <1>7 DEF E!ReadLine
<1>8. ASSUME NEW d \in Desks, E!Rewrite(d) \/ E!WriteDraft(d) PROVE MonthTyped'
  BY <1>8 DEF E!Rewrite, E!WriteDraft
<1>9. ASSUME NEW d \in Desks, E!ReadPayroll(d) PROVE MonthTyped'
  <2>1. (payroll = "NONE") \in BOOLEAN /\ Lines \in SUBSET Lines
    OBVIOUS
  <2> QED
    BY <1>9, <2>1 DEF E!ReadPayroll
<1>10. ASSUME NEW d \in Desks, NEW l \in Lines, E!AddUp(d, l) PROVE MonthTyped'
  BY <1>10 DEF E!AddUp
<1> QED
  BY <1>1, <1>4, <1>5, <1>6, <1>7, <1>8, <1>9, <1>10 DEF E!Next

\* What was added up stays explained when only lines that are reported move.
LEMMA Reported ==
  ASSUME MonthTyped, NEW gone, NEW set, Explains(set, gone), NEW S, UNCHANGED <<marked, payroll>>,
         \A l \in Lines \ S : unpaid'[l] = unpaid[l]
  PROVE  Explains(set, gone \cup S)'
BY DEF Explains, MonthTyped

LEMMA DraftsKept == MonthInv /\ E!Next => Drafts'
<1> SUFFICES ASSUME MonthInv, E!Next PROVE Drafts'
  OBVIOUS
<1>0. MonthTyped /\ Drafts
  BY DEF MonthInv
\* The till moves some lines, and says so.
<1>1. ASSUME NEW S \in SUBSET Lines, E!Disturb(S), UNCHANGED <<payroll, slip, marked>>,
             \A l \in Lines \ S : unpaid'[l] = unpaid[l], waiting' = waiting,
             \A d \in Desks : \/ statement'[d] = statement[d] /\ line'[d] = line[d]
                              \/ statement[d] # "entries" /\ statement'[d] = "idle"
      PROVE  Drafts'
  <2>1. drifted' = drifted \cup S /\ \A d \in Desks : moved'[d] = moved[d] \cup (S \ waiting[d])
    BY <1>1 DEF E!Disturb
  <2>2. payroll # "NONE" => Explains(slip, drifted)'
    <3> SUFFICES ASSUME payroll # "NONE" PROVE Explains(slip, drifted)'
      OBVIOUS
    <3>1. Explains(slip, drifted)
      BY <1>0 DEF Drafts
    <3> QED
      BY <1>0, <1>1, <2>1, <3>1 DEF Explains, MonthTyped
  <2>3. ASSUME NEW d \in Desks PROVE DraftFits(d)'
    <3>1. ASSUME statement'[d] \in {"entries", "draft"}
          PROVE  Explains(line[d], moved[d] \cup waiting[d])'
      <4>1. /\ Explains(line[d], moved[d] \cup waiting[d])
            /\ line'[d] = line[d] /\ moved'[d] \cup waiting'[d] = moved[d] \cup waiting[d] \cup S
        BY <1>0, <1>1, <2>1, <3>1 DEF Drafts, DraftFits
      <4> QED
        BY <1>0, <1>1, <4>1 DEF Explains, MonthTyped
    <3> QED
      BY <1>0, <1>1, <3>1 DEF Drafts, DraftFits
  <2> QED
    BY <1>0, <1>1, <2>2, <2>3 DEF Drafts
<1> USE DEF E!Once, E!Goto
<1>2. ASSUME NEW l \in Lines, E!Bill(l) \/ E!Void(l) \/ E!MarkPaid(l) PROVE Drafts'
  <2>1. PICK S \in SUBSET Lines : S = {l}
    OBVIOUS
  <2>2. /\ E!Disturb(S) /\ UNCHANGED <<payroll, slip, marked, statement, line, waiting>>
        /\ \A m \in Lines \ S : unpaid'[m] = unpaid[m]
    BY <1>0, <1>2, <2>1 DEF E!Bill, E!Void, E!MarkPaid, E!Pay, MonthTyped
  <2> QED
    BY <1>1, <2>2
<1>3. ASSUME NEW d \in Desks, E!Rewrite(d) PROVE Drafts'
  <2>1. PICK S \in SUBSET Lines : S = line[d]
    BY <1>0 DEF MonthTyped
  <2>2. /\ E!Disturb(S) /\ UNCHANGED <<payroll, slip, marked, waiting>>
        /\ \A m \in Lines \ S : unpaid'[m] = unpaid[m]
    BY <1>0, <1>3, <2>1 DEF E!Rewrite, MonthTyped
  <2>3. \A e \in Desks : \/ statement'[e] = statement[e] /\ line'[e] = line[e]
                         \/ statement[e] # "entries" /\ statement'[e] = "idle"
    BY <1>0, <1>3 DEF E!Rewrite, MonthTyped
  <2> QED
    BY <1>1, <2>2, <2>3
<1>4. ASSUME NEW d \in Desks, NEW l \in Lines, E!ReadLine(d, l) PROVE Drafts'
  <2>1. /\ UNCHANGED <<payroll, slip, marked, unpaid, drifted, moved, waiting>>
        /\ \A e \in Desks : \/ statement'[e] = statement[e] /\ line'[e] = line[e]
                            \/ statement[e] = "idle" /\ statement'[e] = "rewrite"
    BY <1>0, <1>4 DEF E!ReadLine, MonthTyped
  <2>2. \A e \in Desks : DraftFits(e)'
    BY <1>0, <2>1 DEF Drafts, DraftFits, Explains
  <2> QED
    BY <1>0, <2>1, <2>2 DEF Drafts, Explains
<1>5. ASSUME NEW d \in Desks, E!ReadPayroll(d) PROVE Drafts'
  <2>1. /\ UNCHANGED <<payroll, slip, marked, unpaid, drifted>>
        /\ line'[d] = {} /\ waiting'[d] = Lines /\ moved'[d] = {} /\ statement'[d] = "entries"
        /\ \A e \in Desks \ {d} : /\ statement'[e] = statement[e] /\ line'[e] = line[e]
                                  /\ waiting'[e] = waiting[e] /\ moved'[e] = moved[e]
    BY <1>0, <1>5 DEF E!ReadPayroll, MonthTyped
  <2>2. DraftFits(d)'
    BY <1>0, <2>1 DEF DraftFits, Explains
  <2>3. \A e \in Desks \ {d} : DraftFits(e)'
    BY <1>0, <2>1 DEF Drafts, DraftFits, Explains
  <2>4. payroll' # "NONE" => Explains(slip, drifted)'
    BY <1>0, <2>1 DEF Drafts, Explains
  <2> QED
    BY <1>0, <2>1, <2>2, <2>3, <2>4 DEF Drafts
<1>9. ASSUME NEW d \in Desks, NEW m \in Lines, E!AddUp(d, m) PROVE Drafts'
  <2>1. /\ UNCHANGED <<payroll, slip, marked, unpaid, drifted>>
        /\ statement[d] = "entries" /\ m \in waiting[d]
        /\ line'[d] = line[d] \cup ({m} \cap E!Unpaid) /\ waiting'[d] = waiting[d] \ {m}
        /\ moved'[d] = IF E!PaidBefore(m) THEN moved[d] \cup {m} ELSE moved[d]
        /\ statement'[d] = IF waiting[d] = {m} THEN "draft" ELSE "entries"
        /\ \A e \in Desks \ {d} : /\ statement'[e] = statement[e] /\ line'[e] = line[e]
                                  /\ waiting'[e] = waiting[e] /\ moved'[e] = moved[e]
    BY <1>0, <1>9 DEF E!AddUp, E!InDraft, MonthTyped
  <2>2. Explains(line[d], moved[d] \cup waiting[d]) /\ line[d] \cap waiting[d] = {}
    BY <1>0, <2>1 DEF Drafts, DraftFits
  <2>3. DraftFits(d)'
    <3>1. line'[d] \cap waiting'[d] = {} /\ (statement'[d] # "entries" => waiting'[d] = {})
      BY <2>1, <2>2 DEF E!Unpaid
    <3>2. ASSUME NEW l \in Lines, l \notin moved'[d] \cup waiting'[d]
          PROVE  /\ l \in line'[d] <=> unpaid[l] \/ marked[l] = 1
                 /\ marked[l] <= 1
                 /\ unpaid[l] => marked[l] = 0 /\ payroll # "PAID"
      <4>1. CASE l = m
        <5>1. ~E!PaidBefore(m) /\ l \notin line[d]
          BY <2>1, <2>2, <3>2, <4>1
        <5>2. payroll # "PAID" /\ marked[l] = 0
          BY <1>0, <4>1, <5>1 DEF E!PaidBefore, MonthTyped
        <5> QED
          BY <2>1, <4>1, <5>1, <5>2 DEF E!Unpaid
      <4>2. CASE l # m
        <5>1. l \notin moved[d] \cup waiting[d] /\ (l \in line'[d] <=> l \in line[d])
          BY <2>1, <3>2, <4>2
        <5> QED
          BY <2>2, <5>1 DEF Explains
      <4> QED
        BY <4>1, <4>2
    <3>3. Explains(line[d], moved[d] \cup waiting[d])'
      BY <2>1, <3>2 DEF Explains
    <3> QED
      BY <3>1, <3>3 DEF DraftFits
  <2>4. \A e \in Desks \ {d} : DraftFits(e)'
    BY <1>0, <2>1 DEF Drafts, DraftFits, Explains
  <2>5. payroll' # "NONE" => Explains(slip, drifted)'
    BY <1>0, <2>1 DEF Drafts, Explains
  <2> QED
    BY <1>0, <2>1, <2>3, <2>4, <2>5 DEF Drafts
<1>6. ASSUME NEW d \in Desks, E!WriteDraft(d) PROVE Drafts'
  <2>1. /\ UNCHANGED <<marked, unpaid, moved, waiting>> /\ statement[d] = "draft"
        /\ \A e \in Desks : \/ statement'[e] = statement[e] /\ line'[e] = line[e]
                            \/ statement[e] = "draft" /\ statement'[e] = "idle"
        /\ payroll' = IF payroll = "NONE" THEN "DRAFT" ELSE payroll
        /\ (slip' = line[d] /\ drifted' = moved[d]) \/ UNCHANGED <<slip, drifted, payroll>>
    BY <1>0, <1>6 DEF E!WriteDraft, MonthTyped
  <2>2. \A e \in Desks : DraftFits(e)'
    BY <1>0, <2>1 DEF Drafts, DraftFits, Explains
  <2>5. Explains(line[d], moved[d])
    <3>1. waiting[d] = {} /\ Explains(line[d], moved[d] \cup waiting[d])
      BY <1>0, <2>1 DEF Drafts, DraftFits
    <3> QED
      BY <3>1 DEF Explains
  <2>3. payroll' # "NONE" => Explains(slip, drifted)'
    BY <1>0, <2>1, <2>5 DEF Drafts, Explains
  <2>4. payroll' \in {"NONE", "DRAFT"} => \A l \in Lines : marked'[l] = 0
    BY <1>0, <2>1 DEF Drafts
  <2> QED
    BY <2>2, <2>3, <2>4 DEF Drafts
<1>7. CASE E!Approve
  <2>1. /\ UNCHANGED <<slip, marked, unpaid, drifted, moved, statement, line, waiting>>
        /\ payroll # "NONE" /\ payroll' = "APPROVED"
    BY <1>7 DEF E!Approve
  <2>2. \A e \in Desks : DraftFits(e)'
    BY <1>0, <2>1 DEF Drafts, DraftFits, Explains
  <2> QED
    BY <1>0, <2>1, <2>2 DEF Drafts, Explains
<1>8. CASE E!ApproveAndPay
  <2>1. /\ UNCHANGED <<slip, drifted, moved, statement, line, waiting>>
        /\ payroll # "NONE" /\ payroll' = "PAID"
    BY <1>8 DEF E!ApproveAndPay
  <2>2. \A l \in Lines : ~unpaid'[l] /\ marked'[l] = IF unpaid[l] THEN marked[l] + 1 ELSE marked[l]
    BY <1>8 DEF E!ApproveAndPay, E!Pay, E!Unpaid
  <2>3. ASSUME NEW set, NEW gone, Explains(set, gone)
        PROVE  \A l \in Lines \ gone : /\ l \in set <=> marked'[l] = 1
                                       /\ marked'[l] <= 1 /\ ~unpaid'[l]
    BY <1>0, <2>2, <2>3 DEF Explains, MonthTyped
  <2>4. Explains(slip, drifted)'
    BY <1>0, <2>1, <2>3 DEF Drafts, Explains
  <2>5. ASSUME NEW e \in Desks PROVE DraftFits(e)'
    <3>1. PICK gone : gone = moved[e] \cup waiting[e]
      OBVIOUS
    <3>2. DraftFits(e) /\ (statement[e] \in {"entries", "draft"} => Explains(line[e], gone))
      BY <1>0, <3>1 DEF Drafts, DraftFits
    <3>3. statement[e] \in {"entries", "draft"} => Explains(line[e], gone)'
      BY <2>1, <2>3, <3>2 DEF Explains
    <3> QED
      BY <2>1, <3>1, <3>2, <3>3 DEF DraftFits, Explains
  <2> QED
    BY <2>1, <2>4, <2>5 DEF Drafts
<1> QED
  BY <1>2, <1>3, <1>4, <1>5, <1>6, <1>7, <1>8, <1>9 DEF E!Next

LEMMA LinesKept == MonthInv /\ E!Next => \A l \in Lines : LinePaid(l)'
<1> SUFFICES ASSUME MonthInv, E!Next, NEW l \in Lines PROVE LinePaid(l)'
  OBVIOUS
<1>0. MonthTyped /\ LinePaid(l) /\ bill[l] \in {"none", "open", "void"} /\ paid[l] \in Nat
  BY DEF MonthInv, MonthTyped
<1> USE DEF E!Once, E!Goto, E!Disturb
<1>1. ASSUME UNCHANGED <<statement, line>> PROVE E!Corrected(l)' <=> E!Corrected(l)
  BY <1>1 DEF E!Corrected
<1>2. ASSUME NEW m \in Lines, E!Bill(m) PROVE LinePaid(l)'
  <2>1. /\ UNCHANGED <<statement, line, paid, overtaken>> /\ bill[m] = "none"
        /\ bill'[l] = IF l = m THEN "open" ELSE bill[l]
        /\ l # m => unpaid'[l] = unpaid[l]
    BY <1>0, <1>2 DEF E!Bill, MonthTyped
  <2> QED
    BY <1>0, <1>1, <2>1 DEF LinePaid
<1>3. ASSUME NEW m \in Lines, E!Void(m) PROVE LinePaid(l)'
  <2>1. /\ UNCHANGED <<statement, line, paid>> /\ bill[m] = "open"
        /\ bill'[l] = IF l = m THEN "void" ELSE bill[l]
        /\ unpaid'[l] = IF l = m THEN FALSE ELSE unpaid[l]
        /\ overtaken \subseteq overtaken' /\ (l = m /\ E!Corrected(m) => l \in overtaken')
    BY <1>0, <1>3 DEF E!Void, MonthTyped
  <2> QED
    BY <1>0, <1>1, <2>1 DEF LinePaid
<1>4. ASSUME NEW S \in SUBSET E!Unpaid, E!Pay(S), UNCHANGED <<bill, statement, line>> PROVE LinePaid(l)'
  <2>1. /\ unpaid'[l] <=> unpaid[l] /\ l \notin S
        /\ paid'[l] = IF l \in S THEN paid[l] + 1 ELSE paid[l]
        /\ overtaken \subseteq overtaken' /\ (l \in S /\ E!Corrected(l) => l \in overtaken')
        /\ l \in S => unpaid[l]
    BY <1>0, <1>4 DEF E!Pay, E!Unpaid
  <2> QED
    BY <1>0, <1>1, <1>4, <2>1 DEF LinePaid
<1>5. ASSUME NEW m \in Lines, E!MarkPaid(m) PROVE LinePaid(l)'
  <2>1. PICK S \in SUBSET E!Unpaid : E!Pay(S)
    BY <1>5 DEF E!MarkPaid
  <2> QED
    BY <1>4, <1>5, <2>1 DEF E!MarkPaid
<1>6. CASE E!ApproveAndPay
  <2>1. PICK S \in SUBSET E!Unpaid : S = E!Unpaid
    OBVIOUS
  <2> QED
    BY <1>4, <1>6, <2>1 DEF E!ApproveAndPay
<1>7. ASSUME NEW d \in Desks, NEW m \in Lines, E!ReadLine(d, m) PROVE LinePaid(l)'
  <2>1. /\ UNCHANGED <<bill, unpaid, paid, overtaken>> /\ bill[m] = "open" /\ paid[m] = 0
        /\ E!Corrected(l)' => E!Corrected(l) \/ l = m
    BY <1>0, <1>7 DEF E!ReadLine, E!Corrected, MonthTyped
  <2> QED
    BY <1>0, <2>1 DEF LinePaid
<1>8. ASSUME NEW d \in Desks, E!Rewrite(d) PROVE LinePaid(l)'
  <2>1. /\ UNCHANGED <<bill, paid, overtaken>>
        /\ E!Corrected(l)' => E!Corrected(l)
        /\ unpaid'[l] = unpaid[l] \/ E!Corrected(l)
    BY <1>0, <1>8 DEF E!Rewrite, E!Corrected, MonthTyped
  <2> QED
    BY <1>0, <2>1 DEF LinePaid
<1>9. ASSUME NEW d \in Desks, E!ReadPayroll(d) \/ E!WriteDraft(d) \/ \E m \in Lines : E!AddUp(d, m)
      PROVE  LinePaid(l)'
  <2>1. /\ UNCHANGED <<bill, unpaid, paid, overtaken>>
        /\ \A e \in Desks : statement'[e] = "rewrite" => statement[e] = "rewrite" /\ line'[e] = line[e]
    BY <1>0, <1>9 DEF E!ReadPayroll, E!AddUp, E!WriteDraft, MonthTyped
  <2>2. E!Corrected(l)' => E!Corrected(l)
    BY <2>1 DEF E!Corrected
  <2> QED
    BY <1>0, <2>1, <2>2 DEF LinePaid
<1>10. CASE E!Approve
  BY <1>0, <1>1, <1>10 DEF E!Approve, LinePaid
<1> QED
  BY <1>2, <1>3, <1>5, <1>6, <1>7, <1>8, <1>9, <1>10 DEF E!Next

LEMMA MonthInit == E!Init => MonthInv
BY DEF E!Init, MonthInv, MonthTyped, Drafts, DraftFits, Explains, LinePaid, E!Corrected

LEMMA MonthNext == MonthInv /\ [E!Next]_E!vars => MonthInv'
<1> SUFFICES ASSUME MonthInv, [E!Next]_E!vars PROVE MonthInv'
  OBVIOUS
<1>1. CASE E!Next
  BY <1>1, MonthTypedKept, DraftsKept, LinesKept DEF MonthInv
<1>2. CASE UNCHANGED E!vars
  BY <1>2 DEF E!vars, MonthInv, MonthTyped, Drafts, DraftFits, Explains, LinePaid, E!Corrected
<1> QED
  BY <1>1, <1>2

LEMMA SlipHolds == MonthInv => E!SlipPaysWhatItMarks
BY DEF MonthInv, MonthTyped, Drafts, Explains, LinePaid, E!SlipPaysWhatItMarks
-----------------------------------------------------------------------------
(* The shelf and the order *)

Amounts == [Products -> Int]

ShelfTyped ==
    /\ balance \in Amounts /\ ledger \in Amounts /\ bought \in Amounts
    /\ received \in Amounts /\ unlogged \in Amounts
    /\ status \in {"ORDERED", "PARTIALLY_RECEIVED", "RECEIVED", "CANCELLED"}
    /\ at \in [Desks -> {"idle", "read stock", "receive", "cancel", "write", "log"}]
    /\ amount \in [Desks -> Amounts] /\ order \in [Desks -> Amounts] /\ seen \in [Desks -> Amounts]
    /\ crossed \in SUBSET Products /\ torn \in BOOLEAN

\* An adjustment is of one piece of one product.
OnePiece == \A d \in Desks : at[d] \in {"write", "log"} => \A p \in Products : amount[d][p] \in {-1, 0, 1}

\* A balance about to be written is still what was read.
SeenIsBalance ==
    \A d \in Desks : \A p \in R!AboutToWrite(d) \ crossed : seen[d][p] = balance[p]

\* The rows still to be written, as one sum.
Awaiting(p, n) == {d \in Desks : at[d] = "log" /\ amount[d][p] = n}
Owed(p) == Cardinality(Awaiting(p, 1)) - Cardinality(Awaiting(p, -1))

Explained == \A p \in Products \ crossed : balance[p] = ledger[p] + unlogged[p] + Owed(p)

\* Nobody else is at the order, and what was read of it is what it says.
OrderAlone ==
    ~torn =>
        /\ \A c, d \in Desks : R!AtOrder(c) /\ R!AtOrder(d) => c = d
        /\ \A d \in Desks : at[d] \in {"read stock", "receive"} =>
              order[d] = received /\ status \notin {"RECEIVED", "CANCELLED"}

OrderAddsUp ==
    ~torn =>
        /\ received = bought
        /\ status \in {"ORDERED", "PARTIALLY_RECEIVED"} => \E p \in Products : received[p] < Ordered
        /\ status = "RECEIVED" => \A p \in Products : received[p] >= Ordered

ShelfInv == ShelfTyped /\ OnePiece /\ SeenIsBalance /\ Explained /\ OrderAlone /\ OrderAddsUp

LEMMA AwaitingFinite == \A p, n : IsFiniteSet(Awaiting(p, n)) /\ Cardinality(Awaiting(p, n)) \in Nat
<1> TAKE p, n
<1>1. Awaiting(p, n) \subseteq Desks
  BY DEF Awaiting
<1> QED
  BY <1>1, FiniteAssumption, FS_Subset, FS_CardinalityType

LEMMA OneMore ==
  ASSUME NEW S, IsFiniteSet(S), NEW x, x \notin S
  PROVE  /\ Cardinality(S \cup {x}) = Cardinality(S) + 1 /\ Cardinality(S) \in Nat
BY FS_AddElement, FS_CardinalityType

LEMMA OneLess ==
  ASSUME NEW S, IsFiniteSet(S), NEW x \in S
  PROVE  /\ Cardinality(S) = Cardinality(S \ {x}) + 1 /\ Cardinality(S \ {x}) \in Nat
<1>1. Cardinality(S \ {x}) = Cardinality(S) - 1 /\ Cardinality(S) \in Nat /\ IsFiniteSet(S \ {x})
  BY FS_RemoveElement, FS_CardinalityType
<1> QED
  BY <1>1, FS_CardinalityType

\* A request comes to owe its row, writes it, or neither.
LEMMA OwedMore ==
  ASSUME ShelfTyped, NEW c \in Desks, NEW p \in Products, amount[c][p] \in {-1, 0, 1}, UNCHANGED amount,
         at[c] # "log", at'[c] = "log", \A d \in Desks \ {c} : at'[d] = at[d]
  PROVE  Owed(p)' = Owed(p) + amount[c][p]
<1>1. /\ IsFiniteSet(Awaiting(p, 1)) /\ IsFiniteSet(Awaiting(p, -1))
      /\ Cardinality(Awaiting(p, 1)) \in Nat /\ Cardinality(Awaiting(p, -1)) \in Nat
  BY AwaitingFinite
<1>2. c \notin Awaiting(p, 1) /\ c \notin Awaiting(p, -1)
  BY DEF Awaiting
<1>3. CASE amount[c][p] = 1
  <2>1. Awaiting(p, 1)' = Awaiting(p, 1) \cup {c} /\ Awaiting(p, -1)' = Awaiting(p, -1)
    BY <1>3 DEF Awaiting
  <2>2. Cardinality(Awaiting(p, 1)') = Cardinality(Awaiting(p, 1)) + 1
    BY <1>1, <1>2, <2>1, OneMore
  <2> QED
    BY <1>1, <1>3, <2>1, <2>2 DEF Owed
<1>4. CASE amount[c][p] = -1
  <2>1. Awaiting(p, -1)' = Awaiting(p, -1) \cup {c} /\ Awaiting(p, 1)' = Awaiting(p, 1)
    BY <1>4 DEF Awaiting
  <2>2. Cardinality(Awaiting(p, -1)') = Cardinality(Awaiting(p, -1)) + 1
    BY <1>1, <1>2, <2>1, OneMore
  <2> QED
    BY <1>1, <1>4, <2>1, <2>2 DEF Owed
<1>5. CASE amount[c][p] = 0
  <2>1. Awaiting(p, -1)' = Awaiting(p, -1) /\ Awaiting(p, 1)' = Awaiting(p, 1)
    BY <1>5 DEF Awaiting
  <2> QED
    BY <1>1, <1>5, <2>1 DEF Owed
<1> QED
  BY <1>3, <1>4, <1>5

LEMMA OwedLess ==
  ASSUME ShelfTyped, NEW c \in Desks, NEW p \in Products, amount[c][p] \in {-1, 0, 1}, UNCHANGED amount,
         at[c] = "log", at'[c] # "log", \A d \in Desks \ {c} : at'[d] = at[d]
  PROVE  Owed(p)' = Owed(p) - amount[c][p]
<1>1. /\ IsFiniteSet(Awaiting(p, 1)) /\ IsFiniteSet(Awaiting(p, -1))
      /\ Cardinality(Awaiting(p, 1)) \in Nat /\ Cardinality(Awaiting(p, -1)) \in Nat
  BY AwaitingFinite
<1>3. CASE amount[c][p] = 1
  <2>1. Awaiting(p, 1)' = Awaiting(p, 1) \ {c} /\ Awaiting(p, -1)' = Awaiting(p, -1) /\ c \in Awaiting(p, 1)
    BY <1>3 DEF Awaiting
  <2>2. Cardinality(Awaiting(p, 1)) = Cardinality(Awaiting(p, 1)') + 1 /\ Cardinality(Awaiting(p, 1)') \in Nat
    BY <1>1, <2>1, OneLess
  <2> QED
    BY <1>1, <1>3, <2>1, <2>2 DEF Owed
<1>4. CASE amount[c][p] = -1
  <2>1. Awaiting(p, -1)' = Awaiting(p, -1) \ {c} /\ Awaiting(p, 1)' = Awaiting(p, 1) /\ c \in Awaiting(p, -1)
    BY <1>4 DEF Awaiting
  <2>2. Cardinality(Awaiting(p, -1)) = Cardinality(Awaiting(p, -1)') + 1 /\ Cardinality(Awaiting(p, -1)') \in Nat
    BY <1>1, <2>1, OneLess
  <2> QED
    BY <1>1, <1>4, <2>1, <2>2 DEF Owed
<1>5. CASE amount[c][p] = 0
  <2>1. Awaiting(p, -1)' = Awaiting(p, -1) /\ Awaiting(p, 1)' = Awaiting(p, 1)
    BY <1>5 DEF Awaiting
  <2> QED
    BY <1>1, <1>5, <2>1 DEF Owed
<1> QED
  BY <1>3, <1>4, <1>5

LEMMA OwedSame ==
  ASSUME NEW p,
         \A d \in Desks : at'[d] = "log" <=> at[d] = "log",
         \A d \in Desks : at[d] = "log" => amount'[d] = amount[d]
  PROVE  Owed(p)' = Owed(p)
<1>1. Awaiting(p, 1)' = Awaiting(p, 1) /\ Awaiting(p, -1)' = Awaiting(p, -1)
  BY DEF Awaiting
<1> QED
  BY <1>1 DEF Owed

LEMMA ShelfNumbers ==
  ASSUME ShelfTyped
  PROVE  /\ \A d \in Desks, p \in Products : amount[d][p] \in Int /\ order[d][p] \in Int /\ seen[d][p] \in Int
         /\ \A p \in Products :
                               /\ balance[p] \in Int /\ ledger[p] \in Int /\ bought[p] \in Int
                               /\ received[p] \in Int /\ unlogged[p] \in Int
         /\ Ordered \in Int
<1>1. \A d \in Desks : amount[d] \in Amounts /\ order[d] \in Amounts /\ seen[d] \in Amounts
  BY DEF ShelfTyped
<1>2. ASSUME NEW f \in Amounts, NEW p \in Products PROVE f[p] \in Int
  BY DEF Amounts
<1>3. Ordered \in Int
  BY OrderAssumption
<1>4. ASSUME NEW p \in Products
      PROVE  /\ balance[p] \in Int /\ ledger[p] \in Int /\ bought[p] \in Int
             /\ received[p] \in Int /\ unlogged[p] \in Int
  BY <1>2 DEF ShelfTyped
<1> QED
  BY <1>1, <1>2, <1>3, <1>4

LEMMA ShelfTypedKept == ShelfTyped /\ R!Next => ShelfTyped'
<1> SUFFICES ASSUME ShelfTyped, NEW c \in Desks, R!Order(c) \/ R!Adjust(c) \/ R!Fail(c) PROVE ShelfTyped'
  BY DEF R!Next
<1>0. /\ \A d \in Desks, p \in Products : amount[d][p] \in Int /\ order[d][p] \in Int /\ seen[d][p] \in Int
      /\ \A p \in Products :
                            /\ balance[p] \in Int /\ ledger[p] \in Int /\ bought[p] \in Int
                            /\ received[p] \in Int /\ unlogged[p] \in Int
      /\ Ordered \in Int
  BY ShelfNumbers
<1> USE DEF R!Start, R!Goto, R!shelf, R!paper, R!mind
<1>1. CASE R!ReadOrder(c)
  <2>1. PICK told \in SUBSET Products, n \in 0..Ordered :
           amount' = [amount EXCEPT ![c] = [p \in Products |-> IF p \in told THEN n ELSE Ordered - received[p]]]
    BY <1>1 DEF R!ReadOrder
  <2>2. [p \in Products |-> IF p \in told THEN n ELSE Ordered - received[p]] \in Amounts
    BY <1>0 DEF Amounts
  <2>3. amount' \in [Desks -> Amounts]
    BY <2>1, <2>2 DEF ShelfTyped
  <2>4. order' \in [Desks -> Amounts] /\ torn' \in BOOLEAN
    BY <1>1 DEF R!ReadOrder, ShelfTyped
  <2> QED
    BY <1>1, <2>3, <2>4 DEF R!ReadOrder, ShelfTyped
<1>2. CASE R!ReadStock(c)
  BY <1>2 DEF R!ReadStock, ShelfTyped
<1>3. CASE R!Receive(c)
  <2>1. \A p \in Products : R!NowReceived(c)[p] \in Int
    BY <1>0 DEF R!NowReceived
  <2>2. balance' \in Amounts /\ ledger' \in Amounts /\ bought' \in Amounts
    BY <1>0, <1>3 DEF R!Receive, Amounts
  <2>3. received' \in Amounts
    BY <1>0, <1>3, <2>1 DEF R!Receive, Amounts
  <2>4. status' \in {"RECEIVED", "PARTIALLY_RECEIVED"} /\ crossed' \in SUBSET Products
    BY <1>3 DEF R!Receive, R!AboutToWrite, ShelfTyped
  <2> QED
    BY <1>3, <2>2, <2>3, <2>4 DEF R!Receive, ShelfTyped
<1>4. CASE R!AskCancel(c) \/ R!Cancel(c)
  BY <1>4 DEF R!AskCancel, R!Cancel, ShelfTyped
<1>5. ASSUME NEW p \in Products, NEW n \in {-1, 1}, R!AskAdjust(c, p, n) PROVE ShelfTyped'
  <2>1. R!Nothing \in Amounts /\ n \in Int
    BY DEF R!Nothing, Amounts
  <2>2. [R!Nothing EXCEPT ![p] = n] \in Amounts
    BY <2>1 DEF Amounts
  <2> QED
    BY <1>5, <2>2 DEF R!AskAdjust, ShelfTyped
<1>6. CASE R!WriteStock(c)
  <2>1. balance' \in Amounts
    BY <1>0, <1>6 DEF R!WriteStock, Amounts
  <2>2. crossed' \in SUBSET Products
    BY <1>6 DEF R!WriteStock, R!AboutToWrite, ShelfTyped
  <2> QED
    BY <1>6, <2>1, <2>2 DEF R!WriteStock, ShelfTyped
<1>7. CASE R!WriteMovement(c)
  <2>1. ledger' \in Amounts
    BY <1>0, <1>7 DEF R!WriteMovement, R!Plus, Amounts
  <2> QED
    BY <1>7, <2>1 DEF R!WriteMovement, ShelfTyped
<1>8. CASE R!Fail(c)
  <2>1. unlogged' \in Amounts
    <3>1. R!Plus(unlogged, c) \in Amounts
      BY <1>0 DEF R!Plus, Amounts
    <3> QED
      BY <1>8, <3>1 DEF R!Fail, ShelfTyped
  <2> QED
    BY <1>8, <2>1 DEF R!Fail, ShelfTyped
<1> QED
  BY <1>1, <1>2, <1>3, <1>4, <1>5, <1>6, <1>7, <1>8 DEF R!Order, R!Adjust

\* A request leaves the others alone, and what crossed stays crossed.
LEMMA ShelfOthers ==
  ASSUME ShelfTyped, NEW c \in Desks, R!Order(c) \/ R!Adjust(c) \/ R!Fail(c)
  PROVE  /\ \A d \in Desks \ {c} : /\ at'[d] = at[d] /\ amount'[d] = amount[d]
                                   /\ order'[d] = order[d] /\ seen'[d] = seen[d]
                                   /\ R!AboutToWrite(d)' = R!AboutToWrite(d)
         /\ crossed \subseteq crossed' /\ crossed' \in SUBSET Products
         /\ torn => torn'
<1> USE DEF R!Start, R!Goto, R!shelf, R!paper, R!mind, ShelfTyped
<1>1. CASE R!ReadOrder(c)
  BY <1>1 DEF R!ReadOrder, R!AboutToWrite
<1>2. CASE R!ReadStock(c)
  BY <1>2 DEF R!ReadStock, R!AboutToWrite
<1>3. CASE R!Receive(c)
  <2>1. crossed \subseteq crossed' /\ crossed' \in SUBSET Products
    BY <1>3 DEF R!Receive, R!AboutToWrite
  <2>2. UNCHANGED <<amount, order, seen, torn>> /\ \A d \in Desks \ {c} : at'[d] = at[d]
    BY <1>3 DEF R!Receive
  <2> QED
    BY <2>1, <2>2 DEF R!AboutToWrite
<1>4. CASE R!AskCancel(c) \/ R!Cancel(c)
  BY <1>4 DEF R!AskCancel, R!Cancel, R!AboutToWrite
<1>5. ASSUME NEW p \in Products, NEW n \in {-1, 1}, R!AskAdjust(c, p, n)
      PROVE  /\ \A d \in Desks \ {c} : at'[d] = at[d] /\ amount'[d] = amount[d] /\ order'[d] = order[d] /\ seen'[d] = seen[d]
             /\ UNCHANGED <<crossed, torn>>
  BY <1>5 DEF R!AskAdjust
<1>6. CASE R!WriteStock(c)
  <2>1. crossed \subseteq crossed' /\ crossed' \in SUBSET Products
    BY <1>6 DEF R!WriteStock, R!AboutToWrite
  <2>2. UNCHANGED <<amount, order, seen, torn>> /\ \A d \in Desks \ {c} : at'[d] = at[d]
    BY <1>6 DEF R!WriteStock
  <2> QED
    BY <2>1, <2>2 DEF R!AboutToWrite
<1>7. CASE R!WriteMovement(c) \/ R!Fail(c)
  <2>1. UNCHANGED <<amount, order, seen, torn, crossed>> /\ \A d \in Desks \ {c} : at'[d] = at[d]
    BY <1>7 DEF R!WriteMovement, R!Fail
  <2> QED
    BY <2>1 DEF R!AboutToWrite
<1>8. CASE \E p \in Products, n \in {-1, 1} : R!AskAdjust(c, p, n)
  <2>1. /\ \A d \in Desks \ {c} : at'[d] = at[d] /\ amount'[d] = amount[d] /\ order'[d] = order[d] /\ seen'[d] = seen[d]
        /\ UNCHANGED <<crossed, torn>>
    BY <1>5, <1>8
  <2> QED
    BY <2>1 DEF R!AboutToWrite
<1> QED
  BY <1>1, <1>2, <1>3, <1>4, <1>6, <1>7, <1>8 DEF R!Order, R!Adjust

LEMMA OnePieceKept == ShelfInv /\ R!Next => OnePiece'
<1> SUFFICES ASSUME ShelfInv, NEW c \in Desks, R!Order(c) \/ R!Adjust(c) \/ R!Fail(c) PROVE OnePiece'
  BY DEF R!Next
<1>1. \A d \in Desks \ {c} : at'[d] = at[d] /\ amount'[d] = amount[d]
  BY ShelfOthers DEF ShelfInv
<1>2. ASSUME at'[c] \in {"write", "log"}, NEW q \in Products PROVE amount'[c][q] \in {-1, 0, 1}
  <2> USE DEF R!Start, R!Goto, R!shelf, R!paper, R!mind
  <2>1. ASSUME NEW p \in Products, NEW n \in {-1, 1}, R!AskAdjust(c, p, n) PROVE amount'[c][q] \in {-1, 0, 1}
    <3>1. amount'[c] = [R!Nothing EXCEPT ![p] = n]
      BY <2>1 DEF R!AskAdjust, ShelfInv, ShelfTyped
    <3> QED
      BY <3>1, <2>1 DEF R!Nothing
  <2>2. CASE R!WriteStock(c)
    <3>1. at[c] = "write" /\ amount' = amount
      BY <2>2 DEF R!WriteStock
    <3> QED
      BY <3>1 DEF ShelfInv, OnePiece
  <2>3. CASE R!Order(c) \/ R!WriteMovement(c) \/ R!Fail(c)
    <3>1. at'[c] \in {"read stock", "receive", "idle", "cancel"}
      BY <2>3 DEF R!Order, R!ReadOrder, R!ReadStock, R!Receive, R!AskCancel, R!Cancel,
                  R!WriteMovement, R!Fail, ShelfInv, ShelfTyped
    <3> QED
      BY <1>2, <3>1
  <2> QED
    BY <2>1, <2>2, <2>3 DEF R!Adjust
<1> QED
  BY <1>1, <1>2 DEF ShelfInv, OnePiece

LEMMA SeenKept == ShelfInv /\ R!Next => SeenIsBalance'
<1> SUFFICES ASSUME ShelfInv, NEW c \in Desks, R!Order(c) \/ R!Adjust(c) \/ R!Fail(c),
                    NEW d \in Desks, NEW p \in R!AboutToWrite(d)' \ crossed'
             PROVE  seen'[d][p] = balance'[p]
  BY DEF R!Next, SeenIsBalance
<1>0. ShelfTyped /\ p \in Products /\ p \notin crossed
  BY ShelfOthers DEF ShelfInv, R!AboutToWrite
<1> USE DEF R!Start, R!Goto, R!shelf, R!paper, R!mind
<1>1. CASE d # c
  <2>1. p \in R!AboutToWrite(d) /\ seen'[d] = seen[d]
    BY <1>0, <1>1, ShelfOthers
  <2>2. seen[d][p] = balance[p]
    BY <1>0, <2>1 DEF ShelfInv, SeenIsBalance
  <2>3. CASE R!Receive(c) \/ R!WriteStock(c)
    <3>1. p \in R!ReadByOthers(c)
      BY <1>1, <2>1 DEF R!ReadByOthers
    <3>2. p \notin R!AboutToWrite(c)
      BY <2>3, <3>1 DEF R!Receive, R!WriteStock
    <3>3. balance'[p] = balance[p]
      BY <1>0, <2>3, <3>2 DEF R!Receive, R!WriteStock
    <3> QED
      BY <2>1, <2>2, <3>3
  <2>4. CASE ~(R!Receive(c) \/ R!WriteStock(c))
    <3>1. balance' = balance
      BY <2>4 DEF R!Order, R!Adjust, R!ReadOrder, R!ReadStock, R!AskCancel, R!Cancel, R!AskAdjust,
                  R!WriteMovement, R!Fail
    <3> QED
      BY <2>1, <2>2, <3>1
  <2> QED
    BY <2>3, <2>4
<1>2. CASE d = c
  <2>1. at'[c] \in {"receive", "write"}
    BY <1>2 DEF R!AboutToWrite
  <2>2. CASE R!ReadStock(c)
    BY <1>0, <1>2, <2>2 DEF R!ReadStock, ShelfTyped
  <2>3. CASE \E q \in Products, n \in {-1, 1} : R!AskAdjust(c, q, n)
    BY <1>0, <1>2, <2>3 DEF R!AskAdjust, ShelfTyped
  <2>4. CASE R!ReadOrder(c) \/ R!Receive(c) \/ R!AskCancel(c) \/ R!Cancel(c) \/ R!WriteStock(c) \/ R!WriteMovement(c) \/ R!Fail(c)
    BY <1>0, <2>1, <2>4 DEF R!ReadOrder, R!Receive, R!AskCancel, R!Cancel, R!WriteStock, R!WriteMovement, R!Fail,
          ShelfTyped
  <2> QED
    BY <2>2, <2>3, <2>4 DEF R!Order, R!Adjust
<1> QED
  BY <1>1, <1>2

LEMMA ExplainedKept == ShelfInv /\ R!Next => Explained'
<1> SUFFICES ASSUME ShelfInv, NEW c \in Desks, R!Order(c) \/ R!Adjust(c) \/ R!Fail(c),
                    NEW p \in Products \ crossed'
             PROVE  balance'[p] = ledger'[p] + unlogged'[p] + Owed(p)'
  BY DEF R!Next, Explained
<1>0. /\ ShelfTyped /\ p \in Products /\ p \notin crossed /\ OnePiece
      /\ balance[p] = ledger[p] + unlogged[p] + Owed(p)
      /\ \A d \in Desks \ {c} : at'[d] = at[d] /\ amount'[d] = amount[d]
      /\ p \in R!AboutToWrite(c) => seen[c][p] = balance[p]
  BY ShelfOthers DEF ShelfInv, Explained, SeenIsBalance
<1>00. /\ amount[c][p] \in Int /\ balance[p] \in Int /\ ledger[p] \in Int /\ unlogged[p] \in Int
       /\ Owed(p) \in Int
  <2>1. Cardinality(Awaiting(p, 1)) \in Nat /\ Cardinality(Awaiting(p, -1)) \in Nat
    BY AwaitingFinite
  <2> QED
    BY <1>0, <2>1, ShelfNumbers DEF Owed
<1> USE DEF R!Start, R!Goto, R!shelf, R!paper, R!mind
<1>1. CASE R!ReadOrder(c) \/ R!ReadStock(c) \/ R!AskCancel(c) \/ R!Cancel(c)
           \/ \E q \in Products, n \in {-1, 1} : R!AskAdjust(c, q, n)
  <2>1. UNCHANGED <<balance, ledger, unlogged>> /\ at[c] # "log" /\ at'[c] # "log"
    BY <1>0, <1>1 DEF R!ReadOrder, R!ReadStock, R!AskCancel, R!Cancel, R!AskAdjust, ShelfTyped
  <2>2. Owed(p)' = Owed(p)
    BY <1>0, <2>1, OwedSame
  <2> QED
    BY <1>0, <2>1, <2>2
<1>2. CASE R!Receive(c)
  <2>1. /\ UNCHANGED unlogged /\ at[c] # "log" /\ at'[c] # "log"
        /\ p \in R!AboutToWrite(c) => balance'[p] = seen[c][p] + amount[c][p] /\ ledger'[p] = ledger[p] + amount[c][p]
        /\ p \notin R!AboutToWrite(c) => balance'[p] = balance[p] /\ ledger'[p] = ledger[p]
    BY <1>0, <1>2 DEF R!Receive, ShelfTyped
  <2>2. Owed(p)' = Owed(p)
    BY <1>0, <2>1, OwedSame
  <2> QED
    BY <1>0, <1>00, <2>1, <2>2
<1>3. CASE R!WriteStock(c)
  <2>1. /\ UNCHANGED <<ledger, unlogged, amount>> /\ at[c] = "write" /\ at'[c] = "log"
        /\ p \in R!AboutToWrite(c) => balance'[p] = seen[c][p] + amount[c][p]
        /\ p \notin R!AboutToWrite(c) => balance'[p] = balance[p]
    BY <1>0, <1>3 DEF R!WriteStock, ShelfTyped
  <2>2. amount[c][p] \in {-1, 0, 1} /\ (p \notin R!AboutToWrite(c) => amount[c][p] = 0)
    BY <1>0, <2>1 DEF OnePiece, R!AboutToWrite
  <2>3. Owed(p)' = Owed(p) + amount[c][p]
    BY <1>0, <2>1, <2>2, OwedMore
  <2> QED
    BY <1>0, <1>00, <2>1, <2>2, <2>3
<1>4. CASE R!WriteMovement(c)
  <2>1. /\ UNCHANGED <<balance, unlogged, amount>> /\ at[c] = "log" /\ at'[c] = "idle"
        /\ ledger'[p] = ledger[p] + amount[c][p]
    BY <1>0, <1>4 DEF R!WriteMovement, R!Plus, ShelfTyped
  <2>2. amount[c][p] \in {-1, 0, 1}
    BY <1>0, <2>1 DEF OnePiece
  <2>3. Owed(p)' = Owed(p) - amount[c][p]
    BY <1>0, <2>1, <2>2, OwedLess
  <2> QED
    BY <1>0, <1>00, <2>1, <2>3
<1>5. CASE R!Fail(c) /\ at[c] = "log"
  <2>1. /\ UNCHANGED <<balance, ledger, amount>> /\ at'[c] = "idle"
        /\ unlogged'[p] = unlogged[p] + amount[c][p]
    BY <1>0, <1>5 DEF R!Fail, R!Plus, ShelfTyped
  <2>2. amount[c][p] \in {-1, 0, 1}
    BY <1>0, <1>5 DEF OnePiece
  <2>3. Owed(p)' = Owed(p) - amount[c][p]
    BY <1>0, <1>5, <2>1, <2>2, OwedLess
  <2> QED
    BY <1>0, <1>00, <2>1, <2>3
<1>6. CASE R!Fail(c) /\ at[c] # "log"
  <2>1. UNCHANGED <<balance, ledger, unlogged>> /\ at'[c] = "idle"
    BY <1>0, <1>6 DEF R!Fail, ShelfTyped
  <2>2. Owed(p)' = Owed(p)
    BY <1>0, <1>6, <2>1, OwedSame
  <2> QED
    BY <1>0, <2>1, <2>2
<1> QED
  BY <1>1, <1>2, <1>3, <1>4, <1>5, <1>6 DEF R!Order, R!Adjust

LEMMA OrderAloneKept == ShelfInv /\ R!Next => OrderAlone'
<1> SUFFICES ASSUME ShelfInv, NEW c \in Desks, R!Order(c) \/ R!Adjust(c) \/ R!Fail(c), ~torn' PROVE OrderAlone'
  BY DEF R!Next, OrderAlone
<1>0. /\ ShelfTyped /\ ~torn
      /\ \A b, d \in Desks : R!AtOrder(b) /\ R!AtOrder(d) => b = d
      /\ \A d \in Desks : at[d] \in {"read stock", "receive"} =>
              order[d] = received /\ status \notin {"RECEIVED", "CANCELLED"}
      /\ \A d \in Desks \ {c} : at'[d] = at[d] /\ order'[d] = order[d]
  BY ShelfOthers DEF ShelfInv, OrderAlone
<1> USE DEF R!Start, R!Goto, R!shelf, R!paper, R!mind
\* One that comes to the order finds nobody there.
<1>1. CASE R!ReadOrder(c)
  <2>1. /\ at'[c] = "read stock" /\ order'[c] = received /\ UNCHANGED <<received, status>>
        /\ status \notin {"RECEIVED", "CANCELLED"} /\ \A d \in Desks : ~R!AtOrder(d)
    BY <1>0, <1>1 DEF R!ReadOrder, ShelfTyped
  <2> QED
    BY <1>0, <2>1 DEF OrderAlone, R!AtOrder
<1>2. CASE R!AskCancel(c)
  <2>1. /\ at'[c] = "cancel" /\ UNCHANGED <<received, status>> /\ \A d \in Desks : ~R!AtOrder(d)
    BY <1>0, <1>2 DEF R!AskCancel, ShelfTyped
  <2> QED
    BY <1>0, <2>1 DEF OrderAlone, R!AtOrder
<1>3. CASE R!ReadStock(c)
  <2>1. /\ at[c] = "read stock" /\ at'[c] = "receive" /\ UNCHANGED <<received, status, order>>
    BY <1>0, <1>3 DEF R!ReadStock, ShelfTyped
  <2> QED
    BY <1>0, <2>1 DEF OrderAlone, R!AtOrder
\* One that writes the order was alone with it, and leaves.
<1>4. CASE R!Receive(c) \/ R!Cancel(c)
  <2>1. R!AtOrder(c) /\ at'[c] = "idle"
    BY <1>0, <1>4 DEF R!Receive, R!Cancel, ShelfTyped, R!AtOrder
  <2>2. \A d \in Desks : ~R!AtOrder(d)'
    BY <1>0, <2>1 DEF R!AtOrder
  <2> QED
    BY <2>2 DEF OrderAlone, R!AtOrder
<1>5. CASE R!Adjust(c) \/ R!Fail(c)
  <2>1. at'[c] \in {"write", "log", "idle"} /\ UNCHANGED <<received, status>>
    BY <1>0, <1>5 DEF R!Adjust, R!AskAdjust, R!WriteStock, R!WriteMovement, R!Fail, ShelfTyped
  <2> QED
    BY <1>0, <2>1 DEF OrderAlone, R!AtOrder
<1> QED
  BY <1>1, <1>2, <1>3, <1>4, <1>5 DEF R!Order

LEMMA OrderAddsUpKept == ShelfInv /\ R!Next => OrderAddsUp'
<1> SUFFICES ASSUME ShelfInv, NEW c \in Desks, R!Order(c) \/ R!Adjust(c) \/ R!Fail(c), ~torn' PROVE OrderAddsUp'
  BY DEF R!Next, OrderAddsUp
<1>0. ShelfTyped /\ ~torn /\ received = bought
  BY ShelfOthers DEF ShelfInv, OrderAddsUp
<1> USE DEF R!Start, R!Goto, R!shelf, R!paper, R!mind
<1>1. CASE R!Receive(c)
  <2>1. /\ at[c] = "receive"
        /\ received' = [p \in Products |-> IF p \in R!AboutToWrite(c) THEN R!NowReceived(c)[p] ELSE received[p]]
        /\ bought' = [p \in Products |-> IF p \in R!AboutToWrite(c) THEN bought[p] + amount[c][p] ELSE bought[p]]
        /\ status' = IF R!FullyReceived(c) THEN "RECEIVED" ELSE "PARTIALLY_RECEIVED"
    BY <1>1 DEF R!Receive
  <2>2. order[c] = received
    BY <1>0, <2>1 DEF ShelfInv, OrderAlone
  <2>3. \A p \in Products : p \in R!AboutToWrite(c) <=> amount[c][p] > 0
    BY <2>1 DEF R!AboutToWrite
  <2>4. \A p \in Products : received'[p] = R!NowReceived(c)[p] /\ received'[p] = bought'[p]
    BY <1>0, <2>1, <2>2, <2>3 DEF R!NowReceived
  <2>5. received' = bought'
    BY <2>1, <2>4
  <2>6. \A p \in Products : R!NowReceived(c)[p] \in Int /\ Ordered \in Int
    BY <1>0, ShelfNumbers DEF R!NowReceived
  <2> QED
    BY <2>1, <2>4, <2>5, <2>6 DEF OrderAddsUp, R!FullyReceived
<1>2. CASE R!Cancel(c)
  BY <1>0, <1>2 DEF R!Cancel, OrderAddsUp
<1>3. CASE ~R!Receive(c) /\ ~R!Cancel(c)
  <2>1. UNCHANGED <<received, bought, status>>
    BY <1>3 DEF R!Order, R!Adjust, R!ReadOrder, R!ReadStock, R!AskCancel, R!AskAdjust, R!WriteStock,
                R!WriteMovement, R!Fail
  <2> QED
    BY <1>0, <2>1 DEF ShelfInv, OrderAddsUp
<1> QED
  BY <1>1, <1>2, <1>3

LEMMA ShelfInit == R!Init => ShelfInv
<1> SUFFICES ASSUME R!Init PROVE ShelfInv
  OBVIOUS
<1> USE DEF R!Init
<1>1. R!Nothing \in Amounts /\ \A p \in Products : R!Nothing[p] = 0
  BY DEF R!Nothing, Amounts
<1>2. ShelfTyped
  BY <1>1 DEF ShelfTyped
<1>3. \A d \in Desks : at[d] = "idle"
  OBVIOUS
<1>4. OnePiece /\ SeenIsBalance /\ OrderAlone
  BY <1>3 DEF OnePiece, SeenIsBalance, OrderAlone, R!AboutToWrite, R!AtOrder
<1>5. ASSUME NEW p \in Products PROVE Owed(p) = 0
  <2>1. Awaiting(p, 1) = {} /\ Awaiting(p, -1) = {}
    BY <1>3 DEF Awaiting
  <2> QED
    BY <2>1, FS_EmptySet DEF Owed
<1>6. Explained
  BY <1>1, <1>5 DEF Explained
<1>7. OrderAddsUp
  BY <1>1, OrderAssumption DEF OrderAddsUp
<1> QED
  BY <1>2, <1>4, <1>6, <1>7 DEF ShelfInv

LEMMA ShelfNext == ShelfInv /\ [R!Next]_R!vars => ShelfInv'
<1> SUFFICES ASSUME ShelfInv, [R!Next]_R!vars PROVE ShelfInv'
  OBVIOUS
<1>1. CASE R!Next
  BY <1>1, ShelfTypedKept, OnePieceKept, SeenKept, ExplainedKept, OrderAloneKept, OrderAddsUpKept DEF ShelfInv
<1>2. CASE UNCHANGED R!vars
  <2>1. UNCHANGED <<balance, ledger, bought, status, received, at, amount, order, seen, crossed, unlogged, torn>>
    BY <1>2 DEF R!vars, R!shelf, R!paper, R!mind
  <2>2. ShelfTyped' /\ OnePiece' /\ OrderAlone' /\ OrderAddsUp'
    BY <2>1 DEF ShelfInv, ShelfTyped, OnePiece, OrderAlone, OrderAddsUp, R!AtOrder
  <2>3. SeenIsBalance'
    BY <2>1 DEF ShelfInv, SeenIsBalance, R!AboutToWrite
  <2>4. Explained'
    BY <2>1 DEF ShelfInv, Explained, Owed, Awaiting
  <2> QED
    BY <2>2, <2>3, <2>4 DEF ShelfInv
<1> QED
  BY <1>1, <1>2

LEMMA StockHolds == ShelfInv => R!StockIsExplained
<1> SUFFICES ASSUME ShelfInv PROVE R!StockIsExplained
  OBVIOUS
<1>1. ASSUME NEW p \in Products \ crossed
      PROVE  balance[p] = ledger[p] + unlogged[p] + R!Logging(p, 1) - R!Logging(p, -1)
  <2>1. R!Logging(p, 1) = Cardinality(Awaiting(p, 1)) /\ R!Logging(p, -1) = Cardinality(Awaiting(p, -1))
    BY DEF R!Logging, Awaiting, R!Cardinality, Cardinality
  <2>2. /\ Cardinality(Awaiting(p, 1)) \in Nat /\ Cardinality(Awaiting(p, -1)) \in Nat
        /\ balance[p] \in Int /\ ledger[p] \in Int /\ unlogged[p] \in Int
    BY AwaitingFinite, ShelfNumbers DEF ShelfInv
  <2> HIDE DEF R!Logging
  <2> QED
    BY <1>1, <2>1, <2>2 DEF ShelfInv, Explained, Owed
<1> QED
  BY <1>1 DEF ShelfInv, OrderAddsUp, R!StockIsExplained
-----------------------------------------------------------------------------
(* The points *)

NumbersTyped ==
    /\ loyalty \in Int /\ entries \in Int /\ missed \in Int /\ rewards \in Nat
    /\ read \in [Desks -> Int] /\ sum \in [Desks -> Int]

PlacesTyped ==
    /\ next \in [Desks -> {"idle", "write", "raise", "raise reward", "reward", "log", "complete",
                           "balance", "take", "clear", "redeem", "void"}]
    /\ challenge \in {"ACTIVE", "COMPLETED"}
    /\ raced \in BOOLEAN /\ outrun \in BOOLEAN

LotsTyped ==
    /\ lots \in [Lots -> {"none", "fresh", "due", "cleared", "used"}]
    /\ batch \in [Desks -> SUBSET Lots]
    /\ taken \in [Lots -> Nat]

PointsTyped == NumbersTyped /\ PlacesTyped /\ LotsTyped

\* What a request is about to write or to take is never negative nor more than there
\* is, while nothing outran a redemption; what it read is what there is, while nothing
\* raced.
Solvent ==
    /\ ~outrun =>
          /\ loyalty >= 0
          /\ \A d \in P!Read : next[d] # "void" => read[d] + sum[d] >= 0
          /\ \A d \in P!Checked : loyalty + sum[d] >= 0
    /\ \A d \in P!Read : ~raced => read[d] = loyalty
    /\ \A d \in Desks : next[d] = "log" => sum[d] = 1
    /\ \A d \in Desks : next[d] \in {"raise", "raise reward"} => sum[d] = 1

Unwritten == {d \in Desks : next[d] = "log"}

Accounted == ~raced => loyalty = entries + Cardinality(Unwritten) + missed

\* A lot that was not met twice is in one sweep, which takes it once.
Swept(l) ==
    /\ taken[l] <= 1
    /\ lots[l] \in {"none", "fresh"} => taken[l] = 0
    /\ \A d \in Desks : l \in batch[d] =>
          /\ lots[l] = "due"
          /\ next[d] \in {"balance", "take"} => taken[l] = 0
          /\ \A e \in Desks : l \in batch[e] => e = d
    /\ lots[l] = "due" /\ (\A d \in Desks : l \notin batch[d]) => taken[l] = 0

Sweeping ==
    /\ \A d \in Desks : batch[d] # {} => next[d] \in {"balance", "take", "clear"}
    /\ \A l \in Lots \ ripped : Swept(l)

\* A challenge not met twice has one request that completes it and pays.
Paying(d) == next[d] \in {"complete", "reward", "raise reward"}

Challenged ==
    "challenge" \notin ripped =>
        /\ rewards <= 1
        /\ challenge = "ACTIVE" => rewards = 0
        /\ \A d \in Desks : Paying(d) =>
              /\ rewards = 0
              /\ next[d] = "complete" <=> challenge = "ACTIVE"
              /\ \A e \in Desks : Paying(e) => e = d

PointsInv == PointsTyped /\ Solvent /\ Accounted /\ Sweeping /\ Challenged

\* The steps of one request.
Moves(d) ==
    \/ \E n \in {-1, 1} : P!Ask(d, n)
    \/ P!Commit(d) \/ P!AskBonus(d) \/ P!AskReward(d) \/ P!Raise(d) \/ P!Log(d) \/ P!Progress(d)
    \/ P!Complete(d) \/ P!FindDue(d) \/ P!ReadBalance(d) \/ P!Take(d) \/ P!Clear(d) \/ P!Fail(d)
    \/ P!Check(d) \/ P!Void(d) \/ \E l \in Lots : P!Redeem(d, l) \/ P!AskVoid(d, l)

LEMMA PointsCases ==
  P!Next => (\E d \in Desks : Moves(d)) \/ \E l \in Lots : P!Earn(l) \/ P!Merge(l) \/ P!Age(l)
BY DEF P!Next, P!Bonus, P!Bill, P!Sweep, Moves

LEMMA DueIsNumber ==
  ASSUME PointsTyped, NEW d \in Desks
  PROVE  \E due \in Int : due = Worth * P!Cardinality(batch[d])
<1>1. batch[d] \subseteq Lots
  BY DEF PointsTyped, LotsTyped
<1>2. Cardinality(batch[d]) \in Nat
  BY <1>1, FiniteAssumption, FS_Subset, FS_CardinalityType
<1>3. Worth * P!Cardinality(batch[d]) \in Int
  BY <1>2, WorthAssumption DEF P!Cardinality, Cardinality
<1> QED
  BY <1>3

LEMMA NumbersKept ==
  ASSUME PointsTyped, NEW d \in Desks, Moves(d)
  PROVE  NumbersTyped' /\ \A e \in Desks \ {d} : read'[e] = read[e] /\ sum'[e] = sum[e]
<1>1. NumbersTyped /\ read[d] \in Int /\ sum[d] \in Int
  BY DEF PointsTyped, NumbersTyped
<1>2. read[d] + sum[d] \in Int /\ entries + sum[d] \in Int /\ missed + sum[d] \in Int /\ rewards + 1 \in Nat
  BY <1>1 DEF NumbersTyped
<1> USE DEF P!bills, P!Start, P!Goto, P!End, P!WriteBalance, P!ReadForBonus
<1>3. CASE \E n \in {-1, 1} : P!Ask(d, n)
  BY <1>1, <1>3 DEF P!Ask, NumbersTyped
<1>4. CASE P!Commit(d)
  BY <1>1, <1>2, <1>4 DEF P!Commit, NumbersTyped
<1>10. CASE P!Raise(d)
  BY <1>1, <1>2, <1>10 DEF P!Raise, NumbersTyped
<1>11. CASE P!Log(d)
  BY <1>1, <1>2, <1>11 DEF P!Log, NumbersTyped
<1>5. CASE P!AskBonus(d)
  BY <1>1, <1>5 DEF P!AskBonus, NumbersTyped
<1>12. CASE P!AskReward(d)
  <2>1. /\ UNCHANGED <<loyalty, entries, missed, rewards>>
        /\ read' = [read EXCEPT ![d] = loyalty] /\ sum' = [sum EXCEPT ![d] = 1]
    BY <1>12 DEF P!AskReward
  <2> QED
    BY <1>1, <2>1 DEF NumbersTyped
<1>6. CASE P!Progress(d) \/ P!Complete(d) \/ P!FindDue(d) \/ P!Clear(d)
  BY <1>1, <1>6 DEF P!Progress, P!Complete, P!FindDue, P!Clear, NumbersTyped
<1>7. CASE P!ReadBalance(d)
  <2>1. PICK n \in Int : sum' = [sum EXCEPT ![d] = n]
    <3>4. PICK due \in Int : due = Worth * P!Cardinality(batch[d])
      BY DueIsNumber
    <3>5. sum' = [sum EXCEPT ![d] = -(IF due <= loyalty THEN due ELSE loyalty)]
      BY <1>7, <3>4 DEF P!ReadBalance
    <3>6. -(IF due <= loyalty THEN due ELSE loyalty) \in Int
      BY <1>1, <3>4 DEF NumbersTyped
    <3> QED
      BY <3>5, <3>6
  <2>2. UNCHANGED <<loyalty, entries, missed, rewards>> /\ read' = [read EXCEPT ![d] = loyalty]
    BY <1>7 DEF P!ReadBalance
  <2> QED
    BY <1>1, <2>1, <2>2 DEF NumbersTyped
<1>8. CASE P!Take(d)
  BY <1>1, <1>2, <1>8 DEF P!Take, P!TakeFromBalance, NumbersTyped
<1>9. CASE P!Fail(d)
  BY <1>1, <1>2, <1>9 DEF P!Fail, NumbersTyped
<1>13. CASE P!Check(d)
  BY <1>1, <1>13 DEF P!Check, NumbersTyped
<1>14. CASE \E l \in Lots : P!Redeem(d, l)
  <2>1. /\ loyalty' = loyalty + sum[d] /\ entries' = entries + sum[d]
        /\ UNCHANGED <<missed, rewards>>
        /\ read' = [read EXCEPT ![d] = 0] /\ sum' = [sum EXCEPT ![d] = 0]
    BY <1>14 DEF P!Redeem
  <2> QED
    BY <1>1, <2>1 DEF NumbersTyped
<1>15. CASE \E l \in Lots : P!AskVoid(d, l)
  <2>1. \E n \in Int : sum' = [sum EXCEPT ![d] = n]
    <3>1. PICK n : n = -Worth
      OBVIOUS
    <3>2. n \in Int /\ 1 \in Int
      BY <3>1, WorthAssumption
    <3>3. sum' = [sum EXCEPT ![d] = 1] \/ sum' = [sum EXCEPT ![d] = n]
      BY <1>15, <3>1 DEF P!AskVoid
    <3> QED
      BY <3>2, <3>3
  <2>2. UNCHANGED <<loyalty, entries, missed, rewards>> /\ read' = [read EXCEPT ![d] = loyalty]
    BY <1>15 DEF P!AskVoid
  <2> QED
    BY <1>1, <2>1, <2>2 DEF NumbersTyped
<1>16. CASE P!Void(d)
  <2>1. PICK left \in Int :
           /\ loyalty' = left /\ entries' = entries + sum[d]
           /\ missed' = missed + left - (read[d] + sum[d])
    BY <1>1, <1>2, <1>16 DEF P!Void
  <2>2. rewards' = rewards /\ read' = [read EXCEPT ![d] = 0] /\ sum' = [sum EXCEPT ![d] = 0]
    BY <1>16 DEF P!Void
  <2> QED
    BY <1>1, <2>1, <2>2 DEF NumbersTyped
<1> QED
  BY <1>3, <1>4, <1>5, <1>6, <1>7, <1>8, <1>9, <1>10, <1>11, <1>12, <1>13, <1>14, <1>15, <1>16 DEF Moves

LEMMA PlacesKept ==
  ASSUME PointsTyped, NEW d \in Desks, Moves(d)
  PROVE  PlacesTyped' /\ (raced => raced') /\ (outrun => outrun') /\ \A e \in Desks \ {d} : next'[e] = next[e]
<1>1. PlacesTyped
  BY DEF PointsTyped
<1> USE DEF P!bills, P!Start, P!Goto, P!End, P!WriteBalance, P!ReadForBonus, PlacesTyped
<1>2. ASSUME NEW n \in {-1, 1}, P!Ask(d, n) PROVE PlacesTyped' /\ next' = [next EXCEPT ![d] = "write"] /\ UNCHANGED <<raced, outrun>>
  BY <1>1, <1>2 DEF P!Ask
<1>3. CASE P!Commit(d)
  BY <1>1, <1>3 DEF P!Commit
<1>9. CASE P!Raise(d)
  BY <1>1, <1>9 DEF P!Raise
<1>4. CASE P!Log(d) \/ P!AskBonus(d) \/ P!AskReward(d)
  BY <1>1, <1>4 DEF P!Log, P!AskBonus, P!AskReward
<1>5. CASE P!Progress(d) \/ P!Complete(d) \/ P!FindDue(d) \/ P!Clear(d)
  BY <1>1, <1>5 DEF P!Progress, P!Complete, P!FindDue, P!Clear
<1>6. CASE P!ReadBalance(d)
  <2>1. (\E s \in {"take", "clear"} : next' = [next EXCEPT ![d] = s]) /\ UNCHANGED <<challenge, raced, outrun>>
    BY <1>6 DEF P!ReadBalance
  <2> QED
    BY <1>1, <2>1
<1>7. CASE P!Take(d)
  BY <1>1, <1>7 DEF P!Take, P!TakeFromBalance
<1>8. CASE P!Fail(d)
  BY <1>1, <1>8 DEF P!Fail
<1>10. CASE P!Check(d)
  BY <1>1, <1>10 DEF P!Check
<1>11. CASE P!Void(d)
  BY <1>1, <1>11 DEF P!Void
<1>12. CASE \E l \in Lots : P!Redeem(d, l)
  BY <1>1, <1>12 DEF P!Redeem
<1>13. CASE \E l \in Lots : P!AskVoid(d, l)
  <2>1. next' = [next EXCEPT ![d] = "void"] /\ UNCHANGED <<challenge, raced, outrun>>
    BY <1>13 DEF P!AskVoid
  <2> QED
    BY <1>1, <2>1
<1> QED
  BY <1>2, <1>3, <1>4, <1>5, <1>6, <1>7, <1>8, <1>9, <1>10, <1>11, <1>12, <1>13 DEF Moves

LEMMA LotsKept ==
  ASSUME PointsTyped, NEW d \in Desks, Moves(d)
  PROVE  LotsTyped' /\ ripped \subseteq ripped' /\ \A e \in Desks \ {d} : batch'[e] = batch[e]
<1>1. LotsTyped
  BY DEF PointsTyped
<1> USE DEF P!ReadForBonus, P!bills, P!End, LotsTyped
<1>2. CASE \E n \in {-1, 1} : P!Ask(d, n)
  BY <1>1, <1>2 DEF P!Ask
<1>3. CASE P!Commit(d) \/ P!Raise(d) \/ P!Log(d) \/ P!AskBonus(d) \/ P!AskReward(d)
  BY <1>1, <1>3 DEF P!Commit, P!Raise, P!Log, P!AskBonus, P!AskReward
<1>4. CASE P!Progress(d) \/ P!Complete(d) \/ P!ReadBalance(d)
  BY <1>1, <1>4 DEF P!Progress, P!Complete, P!ReadBalance
<1>5. CASE P!FindDue(d)
  BY <1>1, <1>5 DEF P!FindDue, P!Due
<1>6. CASE P!Clear(d)
  <2>1. lots' \in [Lots -> {"none", "fresh", "due", "cleared", "used"}]
    BY <1>1, <1>6 DEF P!Clear
  <2> QED
    BY <1>1, <1>6, <2>1 DEF P!Clear
<1>7. CASE P!Take(d)
  <2>1. taken' \in [Lots -> Nat]
    BY <1>1, <1>7 DEF P!Take, P!TakeFromBalance
  <2> QED
    BY <1>1, <1>7, <2>1 DEF P!Take, P!TakeFromBalance
<1>8. CASE P!Fail(d)
  BY <1>1, <1>8 DEF P!Fail
<1>9. CASE P!Check(d) \/ P!Void(d)
  BY <1>1, <1>9 DEF P!Check, P!Void
<1>10. CASE \E l \in Lots : P!Redeem(d, l) \/ P!AskVoid(d, l)
  BY <1>1, <1>10 DEF P!Redeem, P!AskVoid
<1> QED
  BY <1>2, <1>3, <1>4, <1>5, <1>6, <1>7, <1>8, <1>9, <1>10 DEF Moves

LEMMA PointsTypedKept == PointsTyped /\ P!Next => PointsTyped'
<1> SUFFICES ASSUME PointsTyped, P!Next PROVE PointsTyped'
  OBVIOUS
<1>1. ASSUME NEW l \in Lots, P!Earn(l) \/ P!Merge(l) \/ P!Age(l) PROVE PointsTyped'
  <2>1. NumbersTyped'
    BY <1>1, WorthAssumption DEF P!Earn, P!Merge, P!Age, PointsTyped, NumbersTyped
  <2>2. PlacesTyped' /\ LotsTyped'
    BY <1>1 DEF P!Earn, P!Merge, P!Age, PointsTyped, PlacesTyped, LotsTyped
  <2> QED
    BY <2>1, <2>2 DEF PointsTyped
<1> QED
  BY <1>1, PointsCases, NumbersKept, PlacesKept, LotsKept DEF PointsTyped

\* A request that writes no balance leaves it solvent, if it reads what there is.
LEMMA Quietly ==
  ASSUME Solvent, PointsTyped, NEW d \in Desks, UNCHANGED <<loyalty, raced, outrun>>,
         \A e \in Desks \ {d} : next'[e] = next[e] /\ read'[e] = read[e] /\ sum'[e] = sum[e],
         next'[d] \in {"write", "raise", "raise reward", "take", "void"} => read'[d] = loyalty,
         ~outrun =>
             /\ next'[d] \in {"write", "raise", "raise reward", "take"} => read'[d] + sum'[d] >= 0
             /\ next'[d] = "redeem" => loyalty + sum'[d] >= 0,
         next'[d] \in {"log", "raise", "raise reward"} => sum'[d] = 1
  PROVE  Solvent'
BY DEF Solvent, P!Read, P!Checked

\* One that writes the balance, and is then done with it.
LEMMA Loudly ==
  ASSUME Solvent, PointsTyped, NEW d \in Desks, ~outrun => loyalty' >= 0,
         ~raced' => ~raced /\ P!Read \subseteq {d},
         ~outrun' => ~outrun /\ P!Checked \subseteq {d},
         \A e \in Desks \ {d} : next'[e] = next[e] /\ read'[e] = read[e] /\ sum'[e] = sum[e],
         next'[d] \in {"idle", "log", "clear"}, next'[d] = "log" => sum'[d] = 1
  PROVE  Solvent'
<1>1. \A e \in P!Read' : e \in P!Read \ {d} /\ next'[e] = next[e]
  BY DEF P!Read
<1>2. \A e \in P!Checked' : e \in P!Checked \ {d}
  BY DEF P!Checked
<1>3. ~raced' => P!Read' = {}
  BY <1>1
<1>4. ~outrun' => P!Checked' = {}
  BY <1>2
<1>5. /\ \A e \in Desks : next'[e] = "log" => sum'[e] = 1
      /\ \A e \in Desks : next'[e] \in {"raise", "raise reward"} => sum'[e] = 1
  BY DEF Solvent
<1>6. \A e \in P!Read' : read'[e] = read[e] /\ sum'[e] = sum[e]
  BY <1>1 DEF P!Read
<1> QED
  BY <1>1, <1>3, <1>4, <1>5, <1>6 DEF Solvent

LEMMA SolventKept ==
  ASSUME Solvent, PointsTyped, NEW d \in Desks, Moves(d)
  PROVE  Solvent'
<1>0. /\ loyalty \in Int /\ read \in [Desks -> Int] /\ sum \in [Desks -> Int]
      /\ DOMAIN next = Desks /\ (~outrun => loyalty >= 0)
  BY DEF PointsTyped, NumbersTyped, PlacesTyped, Solvent
<1>1. \A e \in Desks \ {d} : next'[e] = next[e] /\ read'[e] = read[e] /\ sum'[e] = sum[e]
  BY NumbersKept, PlacesKept
<1> USE DEF P!bills, P!Start, P!Goto, P!End
<1>2. ASSUME NEW n \in {-1, 1}, P!Ask(d, n) PROVE Solvent'
  <2>1. UNCHANGED <<loyalty, raced, outrun>> /\ next'[d] = "write" /\ read'[d] = loyalty /\ sum'[d] = n
    BY <1>0, <1>2 DEF P!Ask
  <2>2. loyalty + n >= 0
    BY <1>2 DEF P!Ask
  <2> QED
    BY <1>1, <2>1, <2>2, Quietly
<1>3. CASE P!Commit(d)
  <2>1. ~outrun => read[d] + sum[d] >= 0
    BY <1>3 DEF P!Commit, P!Read, Solvent
  <2>2. /\ loyalty' = read[d] + sum[d] /\ (~raced' => ~raced /\ P!Read \subseteq {d})
        /\ ~outrun' => ~outrun /\ P!Checked \subseteq {d}
        /\ next'[d] = "idle"
    BY <1>0, <1>3 DEF P!Commit, P!WriteBalance
  <2> QED
    BY <1>1, <2>1, <2>2, Loudly
<1>8. CASE P!Raise(d)
  <2>1. (~outrun => read[d] + sum[d] >= 0) /\ sum[d] = 1
    BY <1>8 DEF P!Raise, P!Read, Solvent
  <2>2. /\ loyalty' = read[d] + sum[d] /\ (~raced' => ~raced /\ P!Read \subseteq {d})
        /\ ~outrun' => ~outrun /\ P!Checked \subseteq {d}
        /\ read' = read /\ sum' = sum /\ next'[d] = "log"
    BY <1>0, <1>8 DEF P!Raise, P!WriteBalance
  <2> QED
    BY <1>1, <2>1, <2>2, Loudly
<1>4. CASE P!AskBonus(d) \/ P!AskReward(d)
  <2>1. UNCHANGED <<loyalty, raced, outrun>> /\ read'[d] = loyalty /\ sum'[d] = 1
    BY <1>0, <1>4 DEF P!AskBonus, P!AskReward, P!ReadForBonus
  <2>3. next'[d] \in {"raise", "raise reward"}
    BY <1>0, <1>4 DEF P!AskBonus, P!AskReward, P!ReadForBonus
  <2>2. ~outrun => read'[d] + sum'[d] >= 0
    BY <1>0, <2>1
  <2> QED
    BY <1>1, <2>1, <2>2, <2>3, Quietly
<1>5. CASE P!Log(d) \/ P!Progress(d) \/ P!Complete(d) \/ P!FindDue(d) \/ P!Clear(d) \/ P!Fail(d)
  <2>1. UNCHANGED <<loyalty, raced, outrun>>
    BY <1>5 DEF P!Log, P!Progress, P!Complete, P!FindDue, P!Clear, P!Fail
  <2>2. next'[d] \in {"idle", "complete", "reward", "balance"}
    BY <1>0, <1>5 DEF P!Log, P!Progress, P!Complete, P!FindDue, P!Clear, P!Fail
  <2> QED
    BY <1>1, <2>1, <2>2, Quietly
<1>6. CASE P!ReadBalance(d)
  <2>1. UNCHANGED <<loyalty, raced, outrun>> /\ read'[d] = loyalty
    BY <1>0, <1>6 DEF P!ReadBalance
  <2>2. loyalty + sum'[d] >= 0
    <3>1. PICK due \in Int : due = Worth * P!Cardinality(batch[d])
      BY DueIsNumber
    <3>2. sum'[d] = -(IF due <= loyalty THEN due ELSE loyalty)
      BY <1>0, <1>6, <3>1 DEF P!ReadBalance
    <3> QED
      BY <1>0, <3>1, <3>2
  <2>3. next'[d] \in {"take", "clear"}
    BY <1>0, <1>6 DEF P!ReadBalance
  <2> QED
    BY <1>1, <2>1, <2>2, <2>3, Quietly
<1>7. CASE P!Take(d)
  <2>1. ~outrun => read[d] + sum[d] >= 0
    BY <1>7 DEF P!Take, P!TakeFromBalance, P!Read, Solvent
  <2>2. /\ loyalty' = read[d] + sum[d] /\ (~raced' => ~raced /\ P!Read \subseteq {d})
        /\ ~outrun' => ~outrun /\ P!Checked \subseteq {d}
        /\ next'[d] = "clear"
    BY <1>0, <1>7 DEF P!Take, P!TakeFromBalance, P!WriteBalance
  <2> QED
    BY <1>1, <2>1, <2>2, Loudly
<1>9. CASE P!Check(d)
  <2>1. UNCHANGED <<loyalty, raced, outrun>> /\ next'[d] = "redeem" /\ sum'[d] = -1 /\ loyalty >= 1
    BY <1>0, <1>9 DEF P!Check
  <2>2. loyalty + sum'[d] >= 0
    BY <1>0, <2>1
  <2> QED
    BY <1>1, <2>1, <2>2, Quietly
<1>10. CASE \E l \in Lots : P!Redeem(d, l)
  <2>1. ~outrun => loyalty + sum[d] >= 0
    BY <1>10 DEF P!Redeem, P!Checked, Solvent
  <2>3. d \notin P!Read
    BY <1>10 DEF P!Redeem, P!Read
  <2>2. /\ loyalty' = loyalty + sum[d] /\ (~raced' => ~raced /\ P!Read \subseteq {d})
        /\ ~outrun' => ~outrun /\ P!Checked \subseteq {d}
        /\ next'[d] = "idle"
    BY <1>0, <1>10 DEF P!Redeem, P!WriteBalance
  <2> QED
    BY <1>1, <2>1, <2>2, Loudly
<1>11. CASE \E l \in Lots : P!AskVoid(d, l)
  <2>1. UNCHANGED <<loyalty, raced, outrun>> /\ next'[d] = "void" /\ read'[d] = loyalty
    BY <1>0, <1>11 DEF P!AskVoid
  <2> QED
    BY <1>1, <2>1, Quietly
<1>12. CASE P!Void(d)
  <2>1. read[d] + sum[d] \in Int
    BY <1>0
  <2>2. loyalty' >= 0
    BY <1>12, <2>1 DEF P!Void, P!WriteBalance
  <2>3. /\ ~raced' => ~raced /\ P!Read \subseteq {d}
        /\ ~outrun' => ~outrun /\ P!Checked \subseteq {d}
        /\ next'[d] = "idle"
    BY <1>0, <1>12 DEF P!Void, P!WriteBalance
  <2> QED
    BY <1>1, <2>2, <2>3, Loudly
<1> QED
  BY <1>2, <1>3, <1>4, <1>5, <1>6, <1>7, <1>8, <1>9, <1>10, <1>11, <1>12 DEF Moves

LEMMA UnwrittenFinite == IsFiniteSet(Unwritten) /\ Cardinality(Unwritten) \in Nat
<1>1. Unwritten \subseteq Desks
  BY DEF Unwritten
<1> QED
  BY <1>1, FiniteAssumption, FS_Subset, FS_CardinalityType

LEMMA UnwrittenSame ==
  ASSUME NEW d \in Desks, \A e \in Desks \ {d} : next'[e] = next[e],
         next'[d] = "log" <=> next[d] = "log"
  PROVE  Cardinality(Unwritten)' = Cardinality(Unwritten)
<1>1. Unwritten' = Unwritten
  BY DEF Unwritten
<1> QED
  BY <1>1

LEMMA UnwrittenMore ==
  ASSUME NEW d \in Desks, \A e \in Desks \ {d} : next'[e] = next[e],
         next[d] # "log", next'[d] = "log"
  PROVE  Cardinality(Unwritten)' = Cardinality(Unwritten) + 1
<1>1. Unwritten' = Unwritten \cup {d} /\ d \notin Unwritten
  BY DEF Unwritten
<1>2. Cardinality(Unwritten \cup {d}) = Cardinality(Unwritten) + 1
  BY <1>1, UnwrittenFinite, FS_AddElement
<1> QED
  BY <1>1, <1>2

LEMMA UnwrittenLess ==
  ASSUME NEW d \in Desks, \A e \in Desks \ {d} : next'[e] = next[e],
         next[d] = "log", next'[d] # "log"
  PROVE  Cardinality(Unwritten)' = Cardinality(Unwritten) - 1
<1>1. Unwritten' = Unwritten \ {d} /\ d \in Unwritten
  BY DEF Unwritten
<1>2. Cardinality(Unwritten \ {d}) = Cardinality(Unwritten) - 1
  BY <1>1, UnwrittenFinite, FS_RemoveElement
<1> QED
  BY <1>1, <1>2

LEMMA AccountedKept ==
  ASSUME Solvent, Accounted, PointsTyped, NEW d \in Desks, Moves(d)
  PROVE  Accounted'
<1>0. /\ loyalty \in Int /\ entries \in Int /\ missed \in Int /\ DOMAIN next = Desks
      /\ read[d] \in Int /\ sum[d] \in Int /\ Cardinality(Unwritten) \in Nat
  BY UnwrittenFinite DEF PointsTyped, NumbersTyped, PlacesTyped
<1>1. (\A e \in Desks \ {d} : next'[e] = next[e]) /\ (raced => raced')
  BY PlacesKept
<1> USE DEF P!bills, P!Start, P!Goto, P!End
<1>2. CASE P!Commit(d) \/ P!Take(d)
  <2>1. loyalty' = read[d] + sum[d] /\ entries' = entries + sum[d] /\ missed' = missed
    BY <1>2 DEF P!Commit, P!Take, P!TakeFromBalance, P!WriteBalance
  <2>2. ~raced => read[d] = loyalty
    BY <1>2 DEF P!Commit, P!Take, P!TakeFromBalance, P!Read, Solvent
  <2>3. next[d] # "log" /\ next'[d] # "log"
    BY <1>0, <1>2 DEF P!Commit, P!Take, P!TakeFromBalance
  <2>4. Cardinality(Unwritten)' = Cardinality(Unwritten)
    BY <1>1, <2>3, UnwrittenSame
  <2> QED
    BY <1>0, <1>1, <2>1, <2>2, <2>4 DEF Accounted
<1>3. CASE P!Raise(d)
  <2>1. loyalty' = read[d] + sum[d] /\ entries' = entries /\ missed' = missed
    BY <1>3 DEF P!Raise, P!WriteBalance
  <2>2. sum[d] = 1 /\ (~raced => read[d] = loyalty)
    BY <1>3 DEF P!Raise, P!Read, Solvent
  <2>3. next[d] # "log" /\ next'[d] = "log"
    BY <1>0, <1>3 DEF P!Raise
  <2>4. Cardinality(Unwritten)' = Cardinality(Unwritten) + 1
    BY <1>1, <2>3, UnwrittenMore
  <2> QED
    BY <1>0, <1>1, <2>1, <2>2, <2>4 DEF Accounted
<1>4. CASE P!Log(d)
  <2>1. loyalty' = loyalty /\ entries' = entries + 1 /\ missed' = missed
    BY <1>4 DEF P!Log, Solvent
  <2>2. next[d] = "log" /\ next'[d] # "log"
    BY <1>0, <1>4 DEF P!Log
  <2>3. Cardinality(Unwritten)' = Cardinality(Unwritten) - 1
    BY <1>1, <2>2, UnwrittenLess
  <2> QED
    BY <1>0, <1>1, <2>1, <2>3 DEF Accounted
<1>5. CASE P!Fail(d) /\ next[d] = "log"
  <2>1. loyalty' = loyalty /\ entries' = entries /\ missed' = missed + 1
    BY <1>5 DEF P!Fail, Solvent
  <2>2. next[d] = "log" /\ next'[d] # "log"
    BY <1>0, <1>5 DEF P!Fail
  <2>3. Cardinality(Unwritten)' = Cardinality(Unwritten) - 1
    BY <1>1, <2>2, UnwrittenLess
  <2> QED
    BY <1>0, <1>1, <2>1, <2>3 DEF Accounted
<1>6. ASSUME UNCHANGED <<loyalty, entries, missed>>, next[d] # "log", next'[d] # "log" PROVE Accounted'
  <2>1. Cardinality(Unwritten)' = Cardinality(Unwritten)
    BY <1>1, <1>6, UnwrittenSame
  <2> QED
    BY <1>1, <1>6, <2>1 DEF Accounted
<1>7. CASE P!Fail(d) /\ next[d] # "log"
  BY <1>0, <1>6, <1>7 DEF P!Fail
<1>8. CASE (\E n \in {-1, 1} : P!Ask(d, n)) \/ P!AskBonus(d) \/ P!AskReward(d)
  BY <1>0, <1>6, <1>8 DEF P!Ask, P!AskBonus, P!AskReward, P!ReadForBonus
<1>9. CASE P!Progress(d) \/ P!Complete(d) \/ P!FindDue(d) \/ P!Clear(d)
  BY <1>0, <1>6, <1>9 DEF P!Progress, P!Complete, P!FindDue, P!Clear
<1>10. CASE P!ReadBalance(d)
  <2>1. next[d] = "balance" /\ next'[d] \in {"take", "clear"}
    BY <1>0, <1>10 DEF P!ReadBalance
  <2>2. UNCHANGED <<loyalty, entries, missed>>
    BY <1>10 DEF P!ReadBalance
  <2> QED
    BY <1>6, <2>1, <2>2
<1>11. CASE P!Check(d) \/ \E l \in Lots : P!AskVoid(d, l)
  BY <1>0, <1>6, <1>11 DEF P!Check, P!AskVoid
<1>12. CASE \E l \in Lots : P!Redeem(d, l)
  <2>1. loyalty' = loyalty + sum[d] /\ entries' = entries + sum[d] /\ missed' = missed
    BY <1>12 DEF P!Redeem, P!WriteBalance
  <2>2. next[d] # "log" /\ next'[d] # "log"
    BY <1>0, <1>12 DEF P!Redeem
  <2>3. Cardinality(Unwritten)' = Cardinality(Unwritten)
    BY <1>1, <2>2, UnwrittenSame
  <2> QED
    BY <1>0, <1>1, <2>1, <2>3 DEF Accounted
<1>13. CASE P!Void(d)
  <2>1. /\ loyalty' \in Int /\ entries' = entries + sum[d]
        /\ missed' = missed + loyalty' - (read[d] + sum[d])
    BY <1>0, <1>13 DEF P!Void, P!WriteBalance
  <2>2. ~raced => read[d] = loyalty
    BY <1>13 DEF P!Void, P!Read, Solvent
  <2>3. next[d] # "log" /\ next'[d] # "log"
    BY <1>0, <1>13 DEF P!Void
  <2>4. Cardinality(Unwritten)' = Cardinality(Unwritten)
    BY <1>1, <2>3, UnwrittenSame
  <2> QED
    BY <1>0, <1>1, <2>1, <2>2, <2>4 DEF Accounted
<1> QED
  BY <1>2, <1>3, <1>4, <1>5, <1>7, <1>8, <1>9, <1>10, <1>11, <1>12, <1>13 DEF Moves

\* A request that takes up no challenge and pays for none.
LEMMA NotPaying ==
  ASSUME Challenged, PointsTyped, NEW d \in Desks, \A e \in Desks \ {d} : next'[e] = next[e],
         UNCHANGED <<challenge, rewards>>, ripped \subseteq ripped', ~Paying(d)'
  PROVE  Challenged'
BY DEF Challenged, Paying

LEMMA ChallengedKept ==
  ASSUME Challenged, PointsTyped, NEW d \in Desks, Moves(d)
  PROVE  Challenged'
<1>0. DOMAIN next = Desks /\ rewards \in Nat /\ challenge \in {"ACTIVE", "COMPLETED"}
  BY DEF PointsTyped, PlacesTyped, NumbersTyped
<1>1. (\A e \in Desks \ {d} : next'[e] = next[e]) /\ ripped \subseteq ripped'
  BY PlacesKept, LotsKept
<1> USE DEF P!bills, P!Start, P!Goto, P!End
<1>2. CASE (\E n \in {-1, 1} : P!Ask(d, n)) \/ P!AskBonus(d) \/ P!Commit(d) \/ P!Log(d) \/ P!Take(d)
  <2>1. UNCHANGED <<challenge, rewards>>
    BY <1>2 DEF P!Ask, P!AskBonus, P!ReadForBonus, P!Commit, P!Log, P!Take, P!TakeFromBalance
  <2>2. next'[d] \in {"write", "raise", "idle", "clear"}
    BY <1>0, <1>2 DEF P!Ask, P!AskBonus, P!ReadForBonus, P!Commit, P!Log, P!Take, P!TakeFromBalance
  <2>3. ~Paying(d)'
    BY <2>2 DEF Paying
  <2> QED
    BY <1>1, <2>1, <2>3, NotPaying
<1>3. CASE P!FindDue(d) \/ P!ReadBalance(d) \/ P!Clear(d) \/ P!Fail(d)
  <2>1. UNCHANGED <<challenge, rewards>>
    BY <1>3 DEF P!FindDue, P!ReadBalance, P!Clear, P!Fail
  <2>2. next'[d] \in {"balance", "take", "clear", "idle"}
    BY <1>0, <1>3 DEF P!FindDue, P!ReadBalance, P!Clear, P!Fail
  <2>3. ~Paying(d)'
    BY <2>2 DEF Paying
  <2> QED
    BY <1>1, <2>1, <2>3, NotPaying
<1>4. CASE P!AskReward(d)
  <2>1. UNCHANGED <<challenge, rewards, ripped>> /\ next[d] = "reward" /\ next'[d] = "raise reward"
    BY <1>0, <1>4 DEF P!AskReward, P!ReadForBonus
  <2> QED
    BY <1>1, <2>1 DEF Challenged, Paying
<1>5. CASE P!Raise(d)
  <2>1. /\ UNCHANGED <<challenge, ripped>> /\ next'[d] = "log"
        /\ rewards' = IF next[d] = "raise reward" THEN rewards + 1 ELSE rewards
    BY <1>0, <1>5 DEF P!Raise
  <2>2. CASE next[d] = "raise reward"
    <3>1. CASE "challenge" \in ripped
      BY <1>1, <3>1 DEF Challenged
    <3>2. CASE "challenge" \notin ripped
      <4>1. rewards = 0 /\ challenge # "ACTIVE" /\ \A e \in Desks : Paying(e) => e = d
        BY <2>2, <3>2 DEF Challenged, Paying
      <4>2. rewards' = rewards + 1
        BY <2>1, <2>2
      <4>3. rewards' = 1
        BY <4>1, <4>2
      <4>4. \A e \in Desks : ~Paying(e)'
        BY <1>1, <2>1, <4>1 DEF Paying
      <4>5. challenge' # "ACTIVE"
        BY <2>1, <4>1
      <4>6. rewards' <= 1
        BY <4>3
      <4> QED
        BY <4>4, <4>5, <4>6 DEF Challenged
    <3> QED
      BY <3>1, <3>2
  <2>3. CASE next[d] # "raise reward"
    <3>1. rewards' = rewards /\ ~Paying(d)'
      BY <2>1, <2>3 DEF Paying
    <3> QED
      BY <1>1, <2>1, <3>1, NotPaying
  <2> QED
    BY <2>2, <2>3
<1>6. CASE P!Progress(d)
  <2>1. /\ challenge = "ACTIVE" /\ UNCHANGED <<challenge, rewards>>
        /\ next[d] = "idle" /\ next'[d] = "complete"
        /\ "challenge" \notin ripped' =>
              "challenge" \notin ripped /\ \A e \in Desks : next[e] # "complete"
    BY <1>0, <1>6 DEF P!Progress
  <2> QED
    BY <1>1, <2>1 DEF Challenged, Paying
<1>7. CASE P!Complete(d)
  <2>1. /\ challenge' = "COMPLETED" /\ UNCHANGED <<rewards, ripped>>
        /\ next[d] = "complete" /\ next'[d] = "reward"
    BY <1>0, <1>7 DEF P!Complete
  <2> QED
    BY <1>1, <2>1 DEF Challenged, Paying
<1>8. CASE P!Check(d) \/ P!Void(d) \/ \E l \in Lots : P!Redeem(d, l) \/ P!AskVoid(d, l)
  <2>1. UNCHANGED <<challenge, rewards>>
    BY <1>8 DEF P!Check, P!Void, P!Redeem, P!AskVoid
  <2>2. next'[d] \in {"redeem", "void", "idle"}
    BY <1>0, <1>8 DEF P!Check, P!Void, P!Redeem, P!AskVoid
  <2>3. ~Paying(d)'
    BY <2>2 DEF Paying
  <2> QED
    BY <1>1, <2>1, <2>3, NotPaying
<1> QED
  BY <1>2, <1>3, <1>4, <1>5, <1>6, <1>7, <1>8 DEF Moves

LEMMA SweepingKept ==
  ASSUME Sweeping, PointsTyped, NEW d \in Desks, Moves(d)
  PROVE  Sweeping'
<1>0. DOMAIN next = Desks /\ LotsTyped
  BY DEF PointsTyped, PlacesTyped
<1>1. /\ \A e \in Desks \ {d} : next'[e] = next[e] /\ batch'[e] = batch[e]
      /\ ripped \subseteq ripped'
  BY PlacesKept, LotsKept
<1> USE DEF P!bills, P!Start, P!Goto, P!End
<1>2. ASSUME UNCHANGED <<lots, batch, taken>>, next[d] \notin {"balance", "take", "clear"},
             next'[d] \notin {"balance", "take", "clear"}
      PROVE  Sweeping'
  BY <1>1, <1>2 DEF Sweeping, Swept
<1>3. CASE (\E n \in {-1, 1} : P!Ask(d, n)) \/ P!AskBonus(d) \/ P!AskReward(d)
  BY <1>0, <1>2, <1>3 DEF P!Ask, P!AskBonus, P!AskReward, P!ReadForBonus
<1>4. CASE P!Commit(d) \/ P!Raise(d) \/ P!Log(d)
  BY <1>0, <1>2, <1>4 DEF P!Commit, P!Raise, P!Log
<1>5. CASE P!Progress(d) \/ P!Complete(d)
  BY <1>0, <1>2, <1>5 DEF P!Progress, P!Complete
<1>6. CASE P!FindDue(d)
  <2>1. /\ next[d] = "idle" /\ next'[d] = "balance" /\ UNCHANGED <<lots, taken>>
        /\ batch'[d] = P!Due
        /\ ripped' = ripped \cup (P!Due \cap UNION {batch[e] : e \in Desks})
    BY <1>0, <1>6 DEF P!FindDue, LotsTyped
  <2>2. \A l \in Lots \ ripped' : l \in P!Due => \A e \in Desks : l \notin batch[e]
    BY <2>1
  <2>3. \A l \in Lots : l \in P!Due <=> lots[l] = "due"
    BY DEF P!Due
  <2>4. \A e \in Desks : batch'[e] # {} => next'[e] \in {"balance", "take", "clear"}
    BY <1>1, <2>1 DEF Sweeping
  <2>5. ASSUME NEW l \in Lots \ ripped' PROVE Swept(l)'
    BY <1>1, <2>1, <2>2, <2>3, <2>5 DEF Sweeping, Swept
  <2> QED
    BY <2>4, <2>5 DEF Sweeping
<1>7. CASE P!ReadBalance(d)
  <2>1. UNCHANGED <<lots, batch, taken, ripped>> /\ next[d] = "balance" /\ next'[d] \in {"take", "clear"}
    BY <1>0, <1>7 DEF P!ReadBalance
  <2> QED
    BY <1>1, <2>1 DEF Sweeping, Swept
<1>8. CASE P!Take(d)
  <2>1. /\ UNCHANGED <<lots, batch, ripped>> /\ next[d] = "take" /\ next'[d] = "clear"
        /\ \A l \in Lots : taken'[l] = IF l \in batch[d] THEN taken[l] + 1 ELSE taken[l]
    BY <1>0, <1>8 DEF P!Take, P!TakeFromBalance
  <2>2. \A l \in Lots : taken[l] \in Nat
    BY <1>0 DEF LotsTyped
  <2> QED
    BY <1>1, <2>1, <2>2 DEF Sweeping, Swept
<1>9. CASE P!Clear(d)
  <2>1. /\ UNCHANGED <<taken, ripped>> /\ next'[d] = "idle" /\ batch'[d] = {}
        /\ \A l \in Lots : lots'[l] = IF l \in batch[d] THEN "cleared" ELSE lots[l]
    BY <1>0, <1>9 DEF P!Clear, LotsTyped
  <2> QED
    BY <1>1, <2>1 DEF Sweeping, Swept
<1>10. CASE P!Fail(d)
  <2>1. /\ UNCHANGED <<lots, taken>> /\ next'[d] = "idle" /\ batch'[d] = {}
        /\ next[d] = "clear" => batch[d] \subseteq ripped'
    BY <1>0, <1>10 DEF P!Fail, LotsTyped
  <2> QED
    BY <1>1, <2>1 DEF Sweeping, Swept
<1>11. CASE P!Check(d) \/ P!Void(d) \/ \E l \in Lots : P!AskVoid(d, l)
  BY <1>0, <1>2, <1>11 DEF P!Check, P!Void, P!AskVoid
<1>12. ASSUME NEW l \in Lots, P!Redeem(d, l) PROVE Sweeping'
  <2>1. /\ UNCHANGED <<batch, taken, ripped>> /\ next[d] = "redeem" /\ next'[d] = "idle"
        /\ lots[l] = "none" /\ lots' = [lots EXCEPT ![l] = "used"]
    BY <1>0, <1>12 DEF P!Redeem
  <2> QED
    BY <1>0, <1>1, <2>1 DEF Sweeping, Swept, LotsTyped
<1> QED
  BY <1>3, <1>4, <1>5, <1>6, <1>7, <1>8, <1>9, <1>10, <1>11, <1>12 DEF Moves

LEMMA PointsNext == PointsInv /\ [P!Next]_P!vars => PointsInv'
<1> SUFFICES ASSUME PointsInv, [P!Next]_P!vars PROVE PointsInv'
  OBVIOUS
<1>0. PointsTyped /\ Solvent /\ Accounted /\ Sweeping /\ Challenged
  BY DEF PointsInv
<1>1. ASSUME NEW d \in Desks, Moves(d) PROVE PointsInv'
  <2>1. PointsTyped'
    BY <1>0, <1>1, NumbersKept, PlacesKept, LotsKept DEF PointsTyped
  <2>2. Solvent' /\ Accounted'
    BY <1>0, <1>1, SolventKept, AccountedKept
  <2>3. Sweeping' /\ Challenged'
    BY <1>0, <1>1, SweepingKept, ChallengedKept
  <2> QED
    BY <2>1, <2>2, <2>3 DEF PointsInv
<1>2. ASSUME NEW l \in Lots, P!Earn(l) PROVE PointsInv'
  <2>0. loyalty \in Int /\ entries \in Int /\ missed \in Int /\ Cardinality(Unwritten) \in Nat
    BY <1>0, UnwrittenFinite DEF PointsTyped, NumbersTyped
  <2>1. PointsTyped'
    BY <1>0, <1>2, PointsTypedKept DEF P!Next
  <2>2. /\ loyalty' = loyalty + Worth /\ entries' = entries + Worth
        /\ raced' = (raced \/ P!Read # {})
        /\ UNCHANGED <<challenge, next, read, sum, batch, outrun, missed, taken, rewards, ripped>>
    BY <1>2 DEF P!Earn
  <2>3. P!Read' = P!Read /\ P!Checked' = P!Checked /\ Unwritten' = Unwritten
    BY <2>2 DEF P!Read, P!Checked, Unwritten
  <2>9. Worth \in Nat /\ (~raced' => ~raced /\ P!Read' = {})
    BY <2>2, <2>3, WorthAssumption
  <2>10. ASSUME ~outrun' PROVE loyalty' >= 0 /\ \A d \in P!Checked' : loyalty' + sum'[d] >= 0
    <3>1. loyalty >= 0 /\ \A d \in P!Checked : loyalty + sum[d] >= 0 /\ sum[d] \in Int
      BY <1>0, <2>2, <2>10 DEF Solvent, PointsTyped, NumbersTyped, P!Checked
    <3>2. loyalty + Worth >= 0 /\ \A d \in P!Checked : loyalty + Worth + sum[d] >= 0
      BY <2>0, <2>9, <3>1
    <3> QED
      BY <2>2, <2>3, <3>2
  <2>11. ~outrun' => \A d \in P!Read' : next'[d] # "void" => read'[d] + sum'[d] >= 0
    BY <1>0, <2>2, <2>3 DEF Solvent
  <2>4. Solvent'
    BY <1>0, <2>2, <2>9, <2>10, <2>11 DEF Solvent
  <2>12. Cardinality(Unwritten)' = Cardinality(Unwritten)
    BY <2>3
  <2>5. Accounted'
    BY <1>0, <2>0, <2>2, <2>9, <2>12 DEF Accounted
  <2>6. lots[l] = "none" /\ lots' = [lots EXCEPT ![l] = "fresh"]
    BY <1>2 DEF P!Earn
  <2>7. Sweeping'
    BY <1>0, <2>2, <2>6 DEF Sweeping, Swept, PointsTyped, LotsTyped
  <2>8. Challenged'
    BY <1>0, <2>2 DEF Challenged, Paying
  <2> QED
    BY <2>1, <2>4, <2>5, <2>7, <2>8 DEF PointsInv
<1>3. ASSUME NEW l \in Lots, P!Age(l) PROVE PointsInv'
  <2>1. PointsTyped'
    BY <1>0, <1>3, PointsTypedKept DEF P!Next
  <2>2. UNCHANGED <<loyalty, entries, raced, outrun, challenge, next, read, sum, batch, missed, taken, rewards,
                    ripped>>
    BY <1>3 DEF P!Age
  <2>3. lots[l] = "fresh" /\ lots' = [lots EXCEPT ![l] = "due"]
    BY <1>3 DEF P!Age
  <2>4. Sweeping'
    BY <1>0, <2>2, <2>3 DEF Sweeping, Swept, PointsTyped, LotsTyped
  <2>5. Solvent' /\ Challenged'
    BY <1>0, <2>2 DEF Solvent, P!Read, P!Checked, Challenged, Paying
  <2>6. Accounted'
    BY <1>0, <2>2 DEF Accounted, Unwritten
  <2> QED
    BY <2>1, <2>4, <2>5, <2>6 DEF PointsInv
<1>5. ASSUME NEW l \in Lots, P!Merge(l) PROVE PointsInv'
  <2>0. loyalty \in Int /\ entries \in Int /\ missed \in Int /\ Cardinality(Unwritten) \in Nat
    BY <1>0, UnwrittenFinite DEF PointsTyped, NumbersTyped
  <2>1. PointsTyped'
    BY <1>0, <1>5, PointsTypedKept DEF P!Next
  <2>2. /\ UNCHANGED <<loyalty, raced, outrun, challenge, next, read, sum, batch, taken, rewards, ripped>>
        /\ entries' = entries + Worth /\ missed' = missed - Worth
    BY <1>5 DEF P!Merge
  <2>3. lots[l] = "none" /\ lots' = [lots EXCEPT ![l] = "fresh"]
    BY <1>5 DEF P!Merge
  <2>4. Sweeping'
    BY <1>0, <2>2, <2>3 DEF Sweeping, Swept, PointsTyped, LotsTyped
  <2>5. Solvent' /\ Challenged'
    BY <1>0, <2>2 DEF Solvent, P!Read, P!Checked, Challenged, Paying
  <2>6. Cardinality(Unwritten)' = Cardinality(Unwritten)
    BY <2>2 DEF Unwritten
  <2>7. Accounted'
    BY <1>0, <2>0, <2>2, <2>6, WorthAssumption DEF Accounted
  <2> QED
    BY <2>1, <2>4, <2>5, <2>7 DEF PointsInv
<1>4. CASE UNCHANGED P!vars
  <2>1. UNCHANGED <<loyalty, entries, lots, challenge, next, read, sum, batch, raced, outrun, missed,
                    taken, rewards, ripped>>
    BY <1>4 DEF P!vars, P!bills
  <2>2. PointsTyped'
    BY <1>0, <2>1 DEF PointsTyped, NumbersTyped, PlacesTyped, LotsTyped
  <2>3. Solvent' /\ Challenged'
    BY <1>0, <2>1 DEF Solvent, P!Read, P!Checked, Challenged, Paying
  <2>4. Accounted' /\ Sweeping'
    BY <1>0, <2>1 DEF Accounted, Unwritten, Sweeping, Swept
  <2> QED
    BY <2>2, <2>3, <2>4 DEF PointsInv
<1> QED
  BY <1>1, <1>2, <1>3, <1>4, <1>5, PointsCases

LEMMA PointsInit == P!Init => PointsInv
<1> SUFFICES ASSUME P!Init PROVE PointsInv
  OBVIOUS
<1>1. PointsTyped
  <2>1. NumbersTyped
    BY DEF P!Init, NumbersTyped
  <2>2. PlacesTyped
    BY DEF P!Init, PlacesTyped
  <2>3. LotsTyped
    BY DEF P!Init, LotsTyped
  <2> QED
    BY <2>1, <2>2, <2>3 DEF PointsTyped
<1>7. \A d \in Desks : next[d] = "idle" /\ batch[d] = {}
  BY DEF P!Init
<1>2. Solvent
  BY <1>1, <1>7 DEF P!Init, Solvent, P!Read, P!Checked
<1>3. Unwritten = {}
  BY <1>1, <1>7 DEF Unwritten
<1>4. Accounted
  BY <1>3, FS_EmptySet DEF P!Init, Accounted
<1>5. Sweeping
  BY <1>1, <1>7 DEF P!Init, Sweeping, Swept
<1>6. Challenged
  BY <1>1, <1>7 DEF P!Init, Challenged, Paying
<1> QED
  BY <1>1, <1>2, <1>4, <1>5, <1>6 DEF PointsInv

LEMMA PointsHold == PointsInv => P!PointsAddUp
<1> SUFFICES ASSUME PointsInv PROVE P!PointsAddUp
  OBVIOUS
<1>1. P!Logging = Cardinality(Unwritten)
  BY DEF P!Logging, Unwritten, P!Cardinality, Cardinality
<1>2. ~raced => loyalty = entries + P!Logging + missed
  <2> HIDE DEF P!Logging
  <2> QED
    BY <1>1 DEF PointsInv, Accounted
<1>3. \A l \in Lots \ ripped : taken[l] <= 1
  BY DEF PointsInv, Sweeping, Swept
<1> QED
  BY <1>2, <1>3 DEF PointsInv, Solvent, Challenged, P!PointsAddUp
-----------------------------------------------------------------------------
(* The memberships *)

Statuses == {"ACTIVE", "EXPIRED", "CANCELLED"}
Sold == [plan : Plans, start : Nat, end : Nat, status : Statuses, used : Int]
Usage == [sub : Nat, named : BOOLEAN, void : BOOLEAN]

SubsTyped == today \in Nat /\ subs \in Seq(Sold)

UsesTyped == lines \in Seq(Usage) /\ \A l \in 1..Len(lines) : lines[l].sub \in 1..Len(subs)

AsksTyped ==
    /\ pc \in [Desks -> {"idle", "bill", "expire", "create", "usage", "use"}]
    /\ plan \in [Desks -> Plans] /\ named \in [Desks -> BOOLEAN]
    /\ found \in [Desks -> Nat] /\ mixed \in BOOLEAN
    /\ \A c \in Desks :
          /\ found[c] \in 0..Len(subs)
          /\ pc[c] \in {"expire", "usage", "use"} => found[c] # 0

\* One sale at a time, and only the last membership sold may run; a sale that has
\* ended it will start the next where it ended.
OneSale ==
    /\ M!Live \subseteq {Len(subs)}
    /\ \A c \in Desks : M!Selling(c) =>
          /\ found[c] \in {0, Len(subs)} /\ M!Live \subseteq {found[c]}
          /\ pc[c] = "create" => M!Live = {}
          /\ \A d \in Desks : M!Selling(d) => d = c

LastEnded ==
    subs # <<>> /\ subs[Len(subs)].status = "EXPIRED" =>
        \/ subs[Len(subs)].end < today
        \/ \E c \in Desks : pc[c] = "create" /\ found[c] = Len(subs)

InTurn ==
    \A i \in 1..Len(subs) - 1 :
        subs[i].plan = subs[i + 1].plan /\ subs[i].status # "CANCELLED" =>
            subs[i].end <= subs[i + 1].start

Standing(i) == {l \in 1..Len(lines) : lines[l].sub = i /\ (lines[l].void => ~lines[l].named)}

Spending ==
    \A i \in 1..Len(subs) :
        /\ subs[i].used = Cardinality(Standing(i))
        /\ i \notin overused =>
              /\ subs[i].used <= Quantity
              /\ \A c \in Desks : pc[c] = "use" /\ found[c] = i => subs[i].used + 1 <= Quantity


\* What no statement changes of the memberships sold so far.
SameTerms(s, t) ==
    /\ t \in Seq(Sold) /\ Len(t) = Len(s)
    /\ \A i \in 1..Len(s) : t[i].plan = s[i].plan /\ t[i].start = s[i].start /\ t[i].end = s[i].end

LEMMA SoldFacts ==
  ASSUME NEW s \in Seq(Sold)
  PROVE  /\ Len(s) \in Nat /\ DOMAIN s = 1..Len(s)
         /\ \A i \in 1..Len(s) :
               s[i] \in Sold /\ s[i].end \in Nat /\ s[i].start \in Nat /\ s[i].used \in Int
               /\ s[i].status \in Statuses
<1>1. Len(s) \in Nat /\ DOMAIN s = 1..Len(s) /\ \A i \in 1..Len(s) : s[i] \in Sold
  BY LenProperties, ElementOfSeq
<1> QED
  BY <1>1 DEF Sold

WithStatus(s, i, v) == [s EXCEPT ![i].status = v]
WithUsed(s, i, n) == [s EXCEPT ![i].used = n]

LEMMA SetStatus ==
  ASSUME NEW s \in Seq(Sold), NEW i \in 1..Len(s), NEW v \in Statuses,
         NEW t, t = WithStatus(s, i, v)
  PROVE  SameTerms(s, t) /\ \A j \in 1..Len(s) : t[j].used = s[j].used
                                              /\ t[j].status = IF j = i THEN v ELSE s[j].status
<1>0. s[i] \in Sold /\ Len(s) \in Nat /\ DOMAIN s = 1..Len(s)
  BY SoldFacts
<1>1. PICK r : r = [s[i] EXCEPT !.status = v]
  OBVIOUS
<1>2. /\ r \in Sold /\ r.status = v /\ r.used = s[i].used /\ r.plan = s[i].plan
      /\ r.start = s[i].start /\ r.end = s[i].end
  BY <1>0, <1>1 DEF Sold
<1>3. t = [s EXCEPT ![i] = r]
  BY <1>1 DEF WithStatus
<1>4. t \in Seq(Sold) /\ Len(t) = Len(s) /\ \A j \in 1..Len(s) : t[j] = IF j = i THEN r ELSE s[j]
  BY <1>2, <1>3, ExceptSeq
<1> QED
  BY <1>2, <1>4 DEF SameTerms

LEMMA SetUsed ==
  ASSUME NEW s \in Seq(Sold), NEW i \in 1..Len(s), NEW n \in Int,
         NEW t, t = WithUsed(s, i, n)
  PROVE  SameTerms(s, t) /\ \A j \in 1..Len(s) : t[j].status = s[j].status
                                              /\ t[j].used = IF j = i THEN n ELSE s[j].used
<1>0. s[i] \in Sold /\ Len(s) \in Nat /\ DOMAIN s = 1..Len(s)
  BY SoldFacts
<1>1. PICK r : r = [s[i] EXCEPT !.used = n]
  OBVIOUS
<1>2. /\ r \in Sold /\ r.status = s[i].status /\ r.used = n /\ r.plan = s[i].plan
      /\ r.start = s[i].start /\ r.end = s[i].end
  BY <1>0, <1>1 DEF Sold
<1>3. t = [s EXCEPT ![i] = r]
  BY <1>1 DEF WithUsed
<1>4. t \in Seq(Sold) /\ Len(t) = Len(s) /\ \A j \in 1..Len(s) : t[j] = IF j = i THEN r ELSE s[j]
  BY <1>2, <1>3, ExceptSeq
<1> QED
  BY <1>2, <1>4 DEF SameTerms

LEMMA OneAppended ==
  ASSUME NEW S, NEW s \in Seq(S), NEW e \in S, NEW t, t = Append(s, e)
  PROVE  /\ t \in Seq(S) /\ Len(t) = Len(s) + 1 /\ t[Len(s) + 1] = e
         /\ \A j \in 1..Len(s) : t[j] = s[j]
BY LenProperties, AppendProperties

\* The rows that stay as they are, while requests come and go.
LEMMA TermsKept ==
  ASSUME SubsTyped, UsesTyped, SameTerms(subs, subs'), lines' = lines, today' \in Nat
  PROVE  SubsTyped' /\ UsesTyped'
BY DEF SubsTyped, UsesTyped, SameTerms

LEMMA NewIsSold ==
  ASSUME SubsTyped, AsksTyped, NEW c \in Desks
  PROVE  /\ M!New(c) \in Sold /\ M!Starts(c) \in Nat
         /\ M!New(c).start = M!Starts(c) /\ M!New(c).status = "ACTIVE" /\ M!New(c).used = 0
         /\ M!New(c).plan = plan[c]
<1>1. found[c] \in 0..Len(subs) /\ plan[c] \in Plans /\ today \in Nat /\ Len(subs) \in Nat
  BY SoldFacts DEF AsksTyped, SubsTyped
<1>2. found[c] # 0 => subs[found[c]].end \in Nat
  BY <1>1, SoldFacts DEF SubsTyped
<1>3. M!Starts(c) \in Nat
  BY <1>1, <1>2 DEF M!Starts
<1>4. M!Starts(c) + Duration \in Nat
  BY <1>3, PlanAssumption
<1> HIDE DEF M!Starts
<1> QED
  BY <1>1, <1>3, <1>4 DEF M!New, Sold, Statuses

LEMMA PlanChosen == M!AnyPlan \in Plans
BY PlanAssumption DEF M!AnyPlan

LEMMA LiveIs ==
  ASSUME SubsTyped
  PROVE  \A j : j \in M!Live <=> j \in 1..Len(subs) /\ subs[j].status = "ACTIVE" /\ subs[j].end >= today
BY SoldFacts DEF M!Live, SubsTyped

\* Statement by statement, what becomes of the memberships.
LEMMA Appends ==
  ASSUME SubsTyped, AsksTyped, NEW c \in Desks, M!SellOnBill(c) \/ M!Create(c)
  PROVE  /\ subs' \in Seq(Sold) /\ Len(subs') = Len(subs) + 1 /\ subs'[Len(subs) + 1] = M!New(c)
         /\ \A j \in 1..Len(subs) :
               /\ subs'[j].plan = subs[j].plan /\ subs'[j].start = subs[j].start
               /\ subs'[j].end = subs[j].end /\ subs'[j].used = subs[j].used
               /\ subs'[j].status = IF pc[c] = "bill" /\ j = found[c] THEN "EXPIRED" ELSE subs[j].status
<1>1. subs \in Seq(Sold) /\ found[c] \in 0..Len(subs) /\ M!New(c) \in Sold /\ Len(subs) \in Nat
  BY NewIsSold, SoldFacts DEF SubsTyped, AsksTyped
<1>2. PICK s : s = IF pc[c] = "bill" THEN M!Expired(found[c]) ELSE subs
  OBVIOUS
<1>3. /\ SameTerms(subs, s)
      /\ \A j \in 1..Len(subs) :
            /\ s[j].used = subs[j].used
            /\ s[j].status = IF pc[c] = "bill" /\ j = found[c] THEN "EXPIRED" ELSE subs[j].status
  <2>1. CASE pc[c] = "bill" /\ found[c] # 0
    <3>1. PICK i \in 1..Len(subs) : i = found[c]
      BY <1>1, <2>1
    <3>2. s = WithStatus(subs, i, "EXPIRED")
      BY <1>2, <2>1, <3>1 DEF M!Expired, WithStatus
    <3>3. "EXPIRED" \in Statuses
      BY DEF Statuses
    <3> QED
      BY <1>1, <2>1, <3>1, <3>2, <3>3, SetStatus
  <2>2. CASE pc[c] # "bill" \/ found[c] = 0
    <3>1. s = subs
      BY <1>2, <2>2 DEF M!Expired
    <3> QED
      BY <1>1, <2>2, <3>1 DEF SameTerms
  <2> QED
    BY <2>1, <2>2
<1>4. subs' = Append(s, M!New(c))
  BY <1>2 DEF M!SellOnBill, M!Create
<1>5. s \in Seq(Sold) /\ Len(s) = Len(subs)
  BY <1>3 DEF SameTerms
<1>6. /\ subs' \in Seq(Sold) /\ Len(subs') = Len(s) + 1 /\ subs'[Len(s) + 1] = M!New(c)
      /\ \A j \in 1..Len(s) : subs'[j] = s[j]
  BY <1>1, <1>4, <1>5, OneAppended
<1> QED
  BY <1>3, <1>5, <1>6 DEF SameTerms

LEMMA Expires ==
  ASSUME SubsTyped, AsksTyped, NEW c \in Desks, M!Expire(c)
  PROVE  /\ SameTerms(subs, subs') /\ found[c] \in 1..Len(subs)
         /\ \A j \in 1..Len(subs) :
               /\ subs'[j].used = subs[j].used
               /\ subs'[j].status = IF j = found[c] THEN "EXPIRED" ELSE subs[j].status
<1>1. pc[c] = "expire" /\ subs' = M!Expired(found[c])
  BY DEF M!Expire
<1>2. found[c] \in 1..Len(subs)
  BY <1>1, SoldFacts DEF AsksTyped, SubsTyped
<1>3. subs' = WithStatus(subs, found[c], "EXPIRED")
  BY <1>1, <1>2 DEF M!Expired, WithStatus
<1>4. "EXPIRED" \in Statuses
  BY DEF Statuses
<1>5. PICK i \in 1..Len(subs) : i = found[c]
  BY <1>2
<1> QED
  BY <1>2, <1>3, <1>4, <1>5, SetStatus DEF SubsTyped

LEMMA Cancels ==
  ASSUME SubsTyped, NEW i \in DOMAIN subs, M!Cancel(i)
  PROVE  /\ SameTerms(subs, subs')
         /\ \A j \in 1..Len(subs) :
               /\ subs'[j].used = subs[j].used
               /\ subs'[j].status = IF j = i THEN "CANCELLED" ELSE subs[j].status
<1>1. i \in 1..Len(subs) /\ "CANCELLED" \in Statuses
  BY SoldFacts DEF SubsTyped, Statuses
<1>2. subs' = WithStatus(subs, i, "CANCELLED")
  BY DEF M!Cancel, WithStatus
<1> QED
  BY <1>1, <1>2, SetStatus DEF SubsTyped

LEMMA Sweeps ==
  ASSUME SubsTyped, M!ExpireMemberships
  PROVE  /\ SameTerms(subs, subs')
         /\ \A j \in 1..Len(subs) :
               /\ subs'[j].used = subs[j].used
               /\ subs'[j].status = IF subs[j].status = "ACTIVE" /\ subs[j].end < today
                                    THEN "EXPIRED" ELSE subs[j].status
<1>1. /\ Len(subs) \in Nat /\ DOMAIN subs = 1..Len(subs)
      /\ \A j \in 1..Len(subs) : subs[j] \in Sold
  BY SoldFacts DEF SubsTyped
<1>2. \A j \in 1..Len(subs) :
        subs'[j] = IF subs[j].status = "ACTIVE" /\ subs[j].end < today
                   THEN [subs[j] EXCEPT !.status = "EXPIRED"] ELSE subs[j]
  BY <1>1 DEF M!ExpireMemberships
<1>3. \A j \in 1..Len(subs) :
        /\ subs'[j] \in Sold /\ subs'[j].plan = subs[j].plan /\ subs'[j].start = subs[j].start
        /\ subs'[j].end = subs[j].end /\ subs'[j].used = subs[j].used
        /\ subs'[j].status = IF subs[j].status = "ACTIVE" /\ subs[j].end < today
                             THEN "EXPIRED" ELSE subs[j].status
  BY <1>1, <1>2 DEF Sold, Statuses
<1>4. \A j \in 1..Len(subs) : subs'[j] \in Sold
  BY <1>3
<1>5. subs' \in [1..Len(subs) -> Sold]
  BY <1>1, <1>4 DEF M!ExpireMemberships
<1>6. subs' \in Seq(Sold) /\ Len(subs') = Len(subs)
  BY <1>1, <1>5
<1> QED
  BY <1>3, <1>6 DEF SameTerms

LEMMA LineFacts ==
  ASSUME UsesTyped
  PROVE  /\ Len(lines) \in Nat /\ DOMAIN lines = 1..Len(lines)
         /\ \A l \in 1..Len(lines) : lines[l] \in Usage /\ lines[l].sub \in 1..Len(subs)
                                 /\ lines[l].named \in BOOLEAN /\ lines[l].void \in BOOLEAN
<1>1. Len(lines) \in Nat /\ DOMAIN lines = 1..Len(lines) /\ \A l \in 1..Len(lines) : lines[l] \in Usage
  BY LenProperties, ElementOfSeq DEF UsesTyped
<1> QED
  BY <1>1 DEF UsesTyped, Usage

LEMMA Uses ==
  ASSUME SubsTyped, UsesTyped, AsksTyped, NEW c \in Desks, M!Use(c)
  PROVE  /\ SameTerms(subs, subs') /\ found[c] \in 1..Len(subs)
         /\ \A j \in 1..Len(subs) :
               /\ subs'[j].status = subs[j].status
               /\ subs'[j].used = IF j = found[c] THEN subs[j].used + 1 ELSE subs[j].used
         /\ lines' \in Seq(Usage) /\ Len(lines') = Len(lines) + 1
         /\ lines'[Len(lines) + 1].sub = found[c] /\ ~lines'[Len(lines) + 1].void
         /\ \A l \in 1..Len(lines) : lines'[l] = lines[l]
<1>1. pc[c] = "use" /\ found[c] \in 1..Len(subs) /\ named[c] \in BOOLEAN /\ found[c] \in Nat
  BY SoldFacts DEF AsksTyped, SubsTyped, M!Use
<1>2. PICK i \in 1..Len(subs) : i = found[c]
  BY <1>1
<1>3. PICK n \in Int : n = subs[i].used + 1
  BY SoldFacts DEF SubsTyped
<1>4. subs' = WithUsed(subs, i, n)
  BY <1>1, <1>2, <1>3 DEF M!Use, WithUsed
<1>5. /\ SameTerms(subs, subs')
      /\ \A j \in 1..Len(subs) :
            /\ subs'[j].status = subs[j].status
            /\ subs'[j].used = IF j = i THEN n ELSE subs[j].used
  BY <1>4, SetUsed DEF SubsTyped
<1>6. PICK r : r = [sub |-> found[c], named |-> named[c], void |-> FALSE]
  OBVIOUS
<1>7. r \in Usage /\ r.sub = found[c] /\ ~r.void
  BY <1>1, <1>6 DEF Usage
<1>8. lines' = Append(lines, r) /\ lines \in Seq(Usage)
  BY <1>6 DEF M!Use, UsesTyped
<1>9. /\ lines' \in Seq(Usage) /\ Len(lines') = Len(lines) + 1 /\ lines'[Len(lines) + 1] = r
      /\ \A l \in 1..Len(lines) : lines'[l] = lines[l]
  BY <1>7, <1>8, OneAppended
<1> QED
  BY <1>1, <1>2, <1>3, <1>5, <1>7, <1>9

LEMMA Voids ==
  ASSUME SubsTyped, UsesTyped, NEW l \in DOMAIN lines, M!Void(l)
  PROVE  /\ l \in 1..Len(lines) /\ ~lines[l].void
         /\ SameTerms(subs, subs')
         /\ \A j \in 1..Len(subs) :
               /\ subs'[j].status = subs[j].status
               /\ subs'[j].used = IF lines[l].named /\ j = lines[l].sub
                                  THEN subs[j].used - 1 ELSE subs[j].used
         /\ lines' \in Seq(Usage) /\ Len(lines') = Len(lines)
         /\ \A k \in 1..Len(lines) :
                                  /\ lines'[k].sub = lines[k].sub /\ lines'[k].named = lines[k].named
                                  /\ (lines'[k].void <=> (k = l \/ lines[k].void))
<1>1. l \in 1..Len(lines) /\ ~lines[l].void /\ lines[l] \in Usage /\ lines[l].sub \in 1..Len(subs)
  BY LineFacts DEF M!Void
<1>2. PICK r : r = [lines[l] EXCEPT !.void = TRUE]
  OBVIOUS
<1>3. r \in Usage /\ r.sub = lines[l].sub /\ r.named = lines[l].named /\ r.void
  BY <1>1, <1>2 DEF Usage
<1>4. lines' = [lines EXCEPT ![l] = r] /\ lines \in Seq(Usage)
  BY <1>2 DEF M!Void, UsesTyped
<1>5. /\ lines' \in Seq(Usage) /\ Len(lines') = Len(lines)
      /\ \A k \in 1..Len(lines) : lines'[k] = IF k = l THEN r ELSE lines[k]
  BY <1>1, <1>3, <1>4, ExceptSeq
<1>6. /\ SameTerms(subs, subs')
      /\ \A j \in 1..Len(subs) :
            /\ subs'[j].status = subs[j].status
            /\ subs'[j].used = IF lines[l].named /\ j = lines[l].sub
                               THEN subs[j].used - 1 ELSE subs[j].used
  <2>1. CASE lines[l].named
    <3>1. PICK i \in 1..Len(subs) : i = lines[l].sub
      BY <1>1
    <3>2. PICK n \in Int : n = subs[i].used - 1
      BY SoldFacts DEF SubsTyped
    <3>3. subs' = WithUsed(subs, i, n)
      BY <2>1, <3>1, <3>2 DEF M!Void, WithUsed
    <3>4. SameTerms(subs, subs') /\ \A j \in 1..Len(subs) :
                             /\ subs'[j].status = subs[j].status
                             /\ subs'[j].used = IF j = i THEN n ELSE subs[j].used
      BY <3>3, SetUsed DEF SubsTyped
    <3> QED
      BY <2>1, <3>1, <3>2, <3>4
  <2>2. CASE ~lines[l].named
    BY <2>2 DEF M!Void, SameTerms, SubsTyped
  <2> QED
    BY <2>1, <2>2
<1> QED
  BY <1>1, <1>3, <1>5, <1>6

\* A request's columns, whatever it does.
LEMMA AsksKept ==
  ASSUME AsksTyped, NEW c \in Desks, Len(subs) \in Nat, Len(subs') \in Nat, Len(subs') >= Len(subs),
         M!Sell(c) \/ M!Spend(c) \/ M!Fail(c), DOMAIN subs = 1..Len(subs)
  PROVE  AsksTyped' /\ (mixed => mixed')
                    /\ \A d \in Desks \ {c} : pc'[d] = pc[d] /\ found'[d] = found[d]
<1>1. ASSUME NEW q \in {"idle", "bill", "expire", "create", "usage", "use"}, NEW p \in Plans,
             NEW f \in 0..Len(subs), NEW b \in BOOLEAN,
             pc' = [pc EXCEPT ![c] = q], plan' = [plan EXCEPT ![c] = p],
             found' = [found EXCEPT ![c] = f], named' = [named EXCEPT ![c] = b],
             q \in {"expire", "usage", "use"} => f # 0, mixed' \in BOOLEAN, mixed => mixed'
      PROVE  AsksTyped' /\ (mixed => mixed')
                        /\ \A d \in Desks \ {c} : pc'[d] = pc[d] /\ found'[d] = found[d]
  <2>1. f \in Nat
    BY <1>1
  <2>2. /\ pc' \in [Desks -> {"idle", "bill", "expire", "create", "usage", "use"}]
        /\ plan' \in [Desks -> Plans] /\ named' \in [Desks -> BOOLEAN] /\ found' \in [Desks -> Nat]
    BY <1>1, <2>1 DEF AsksTyped
  <2>3. \A d \in Desks \ {c} : pc'[d] = pc[d] /\ found'[d] = found[d]
    BY <1>1 DEF AsksTyped
  <2>4. pc'[c] = q /\ found'[c] = f
    BY <1>1 DEF AsksTyped
  <2>5. ASSUME NEW d \in Desks
        PROVE  found'[d] \in 0..Len(subs') /\ (pc'[d] \in {"expire", "usage", "use"} => found'[d] # 0)
    BY <1>1, <2>3, <2>4 DEF AsksTyped
  <2> QED
    BY <1>1, <2>2, <2>3, <2>5 DEF AsksTyped
<1>2. /\ pc[c] \in {"idle", "bill", "expire", "create", "usage", "use"} /\ plan[c] \in Plans
      /\ found[c] \in 0..Len(subs) /\ named[c] \in BOOLEAN
      /\ pc[c] \in {"expire", "usage", "use"} => found[c] # 0
      /\ plan = [plan EXCEPT ![c] = plan[c]] /\ found = [found EXCEPT ![c] = found[c]]
      /\ named = [named EXCEPT ![c] = named[c]] /\ mixed \in BOOLEAN
      /\ pc = [pc EXCEPT ![c] = pc[c]]
  BY DEF AsksTyped
<1>3. 0 \in 0..Len(subs) /\ FALSE \in BOOLEAN
  OBVIOUS
<1> USE DEF M!Goto
<1>4. CASE M!SellOnBill(c) \/ M!Create(c) \/ M!Use(c) \/ M!Fail(c)
  <2>1. M!End(c)
    BY <1>4 DEF M!SellOnBill, M!Create, M!Use, M!Fail
  <2>2. /\ pc' = [pc EXCEPT ![c] = "idle"] /\ plan' = [plan EXCEPT ![c] = M!AnyPlan]
        /\ found' = [found EXCEPT ![c] = 0] /\ named' = [named EXCEPT ![c] = FALSE]
    BY <2>1 DEF M!End
  <2>3. mixed' \in BOOLEAN /\ (mixed => mixed')
    <3>1. CASE M!SellOnBill(c) \/ M!Create(c) \/ M!Use(c)
      BY <1>2, <3>1 DEF M!SellOnBill, M!Create, M!Use
    <3>2. CASE M!Fail(c)
      BY <1>2, <3>2 DEF M!Fail
    <3> QED
      BY <1>4, <3>1, <3>2
  <2> QED
    BY <1>1, <1>3, <2>2, <2>3, PlanChosen
<1>5. ASSUME NEW p \in Plans, NEW st \in {"bill", "expire"}, M!AskSell(c, p, st)
      PROVE  AsksTyped' /\ (mixed => mixed')
                        /\ \A d \in Desks \ {c} : pc'[d] = pc[d] /\ found'[d] = found[d]
  <2>1. PICK i \in M!Live \cup {0} : (i = 0 <=> M!Live = {}) /\ found' = [found EXCEPT ![c] = i]
    BY <1>5 DEF M!AskSell
  <2>2. i \in 0..Len(subs)
    BY <2>1 DEF M!Live
  <2>3. PICK q \in {"bill", "expire", "create"} :
           q = (IF st = "expire" /\ M!Live = {} THEN "create" ELSE st)
    BY <1>5
  <2>4. pc' = [pc EXCEPT ![c] = q] /\ plan' = [plan EXCEPT ![c] = p] /\ named' = named
    BY <1>5, <2>3 DEF M!AskSell
  <2>5. q = "expire" => i # 0
    BY <2>1, <2>3
  <2>6. mixed' \in BOOLEAN /\ (mixed => mixed')
    BY <1>2, <1>5 DEF M!AskSell
  <2> QED
    BY <1>1, <1>2, <2>1, <2>2, <2>3, <2>4, <2>5, <2>6
<1>6. CASE M!Expire(c)
  <2>1. pc' = [pc EXCEPT ![c] = "create"] /\ UNCHANGED <<plan, found, named, mixed>>
    BY <1>6 DEF M!Expire
  <2> QED
    BY <1>1, <1>2, <2>1
<1>7. ASSUME NEW i \in DOMAIN subs, NEW names \in BOOLEAN, M!AskUse(c, i, names)
      PROVE  AsksTyped' /\ (mixed => mixed')
                        /\ \A d \in Desks \ {c} : pc'[d] = pc[d] /\ found'[d] = found[d]
  <2>1. /\ pc' = [pc EXCEPT ![c] = "usage"] /\ found' = [found EXCEPT ![c] = i]
        /\ named' = [named EXCEPT ![c] = names] /\ plan' = plan /\ mixed' = mixed
    BY <1>7 DEF M!AskUse
  <2>2. i \in 0..Len(subs) /\ i # 0
    BY <1>7
  <2> QED
    BY <1>1, <1>2, <1>7, <2>1, <2>2
<1>8. CASE M!ReadUsage(c)
  <2>1. mixed' = mixed
    BY <1>8 DEF M!ReadUsage
  <2>2. CASE M!End(c)
    <3>1. /\ pc' = [pc EXCEPT ![c] = "idle"] /\ plan' = [plan EXCEPT ![c] = M!AnyPlan]
          /\ found' = [found EXCEPT ![c] = 0] /\ named' = [named EXCEPT ![c] = FALSE]
      BY <2>2 DEF M!End
    <3> QED
      BY <1>1, <1>2, <1>3, <2>1, <3>1, PlanChosen
  <2>3. CASE M!Goto(c, "use") /\ UNCHANGED <<plan, found, named>>
    <3>1. pc[c] = "usage" /\ pc' = [pc EXCEPT ![c] = "use"]
      BY <1>8, <2>3 DEF M!ReadUsage
    <3> QED
      BY <1>1, <1>2, <2>1, <2>3, <3>1
  <2> QED
    BY <1>8, <2>2, <2>3 DEF M!ReadUsage
<1> QED
  BY <1>4, <1>5, <1>6, <1>7, <1>8 DEF M!Sell, M!Spend

MemberTyped == SubsTyped /\ UsesTyped /\ AsksTyped

\* The steps of one request that leave the rows as they are, and the others.
Asking(c) ==
    \/ \E p \in Plans, st \in {"bill", "expire"} : M!AskSell(c, p, st)
    \/ \E i \in DOMAIN subs, names \in BOOLEAN : M!AskUse(c, i, names)
    \/ M!ReadUsage(c) \/ M!Fail(c)

Nightly ==
    \/ \E l \in DOMAIN lines : M!Void(l)
    \/ \E i \in DOMAIN subs : M!Cancel(i)
    \/ M!ExpireMemberships \/ M!NextDay

Merged == \E p \in Plans, start \in 0..today : M!Merge(p, start)

LEMMA MemberCases ==
  M!Next => Nightly \/ Merged \/ \E c \in Desks :
               Asking(c) \/ M!SellOnBill(c) \/ M!Create(c) \/ M!Expire(c) \/ M!Use(c)
BY DEF M!Next, M!Sell, M!Spend, Asking, Nightly, Merged

LEMMA Merges ==
  ASSUME MemberTyped, Merged
  PROVE  /\ subs' \in Seq(Sold) /\ Len(subs') = Len(subs) + 1 /\ subs'[Len(subs) + 1].used = 0
         /\ \A j \in 1..Len(subs) : subs'[j].used = subs[j].used
         /\ UNCHANGED <<lines, today, pc, plan, found, named, overused>> /\ mixed'
<1>1. PICK p \in Plans, start \in 0..today : M!Merge(p, start)
  BY DEF Merged
<1>2. subs \in Seq(Sold) /\ today \in Nat
  BY DEF MemberTyped, SubsTyped
<1>3. PICK r : r = [plan |-> p, start |-> start, end |-> start + Duration, status |-> "ACTIVE", used |-> 0]
  OBVIOUS
<1>4. start \in Nat /\ start + Duration \in Nat /\ 0 \in Int
  BY <1>2, PlanAssumption
<1>5. r \in Sold /\ r.used = 0
  BY <1>3, <1>4 DEF Sold, Statuses
<1>6. subs' = Append(subs, r) /\ mixed' = TRUE /\ UNCHANGED <<today, lines, overused>>
  BY <1>1, <1>3 DEF M!Merge
<1>7. UNCHANGED <<pc, plan, found, named>>
  BY <1>1 DEF M!Merge, M!request
<1> QED
  BY <1>2, <1>5, <1>6, <1>7, OneAppended

LEMMA RowsSame ==
  ASSUME NEW c \in Desks, Asking(c)
  PROVE  subs' = subs /\ lines' = lines /\ today' = today
BY DEF Asking, M!AskSell, M!AskUse, M!ReadUsage, M!Fail, M!rows

LEMMA AsksSame ==
  ASSUME Nightly
  PROVE  UNCHANGED <<pc, plan, found, named, mixed, overused>>
BY DEF Nightly, M!Void, M!Cancel, M!ExpireMemberships, M!NextDay, M!request

LEMMA SaleStep ==
  ASSUME NEW c \in Desks, M!SellOnBill(c) \/ M!Create(c) \/ M!Expire(c)
  PROVE  UNCHANGED <<lines, today, mixed, overused>>
BY DEF M!SellOnBill, M!Create, M!Expire

\* The night changes a status, a day, or a line and what it used.
LEMMA NightSteps ==
  ASSUME MemberTyped, Nightly
  PROVE  /\ SameTerms(subs, subs') /\ today' \in Nat /\ today' >= today
         /\ Len(lines') = Len(lines) /\ lines' \in Seq(Usage)
         /\ \A l \in 1..Len(lines) : lines'[l].sub = lines[l].sub
         /\ \A j \in 1..Len(subs) :
               /\ subs'[j].status # "CANCELLED" => subs[j].status # "CANCELLED"
               /\ subs'[j].status = "ACTIVE" => subs[j].status = "ACTIVE"
               /\ subs'[j].status = "EXPIRED" => subs[j].status = "EXPIRED" \/ subs[j].end < today
<1>0. today \in Nat /\ subs \in Seq(Sold) /\ lines \in Seq(Usage)
  BY DEF MemberTyped, SubsTyped, UsesTyped
<1>1. ASSUME NEW l \in DOMAIN lines, M!Void(l)
      PROVE  /\ SameTerms(subs, subs') /\ today' = today /\ Len(lines') = Len(lines)
             /\ lines' \in Seq(Usage) /\ \A k \in 1..Len(lines) : lines'[k].sub = lines[k].sub
             /\ \A j \in 1..Len(subs) : subs'[j].status = subs[j].status
  <2>1. today' = today
    BY <1>1 DEF M!Void
  <2>2. SubsTyped /\ UsesTyped
    BY DEF MemberTyped
  <2>3. /\ SameTerms(subs, subs') /\ Len(lines') = Len(lines) /\ lines' \in Seq(Usage)
        /\ \A j \in 1..Len(subs) : subs'[j].status = subs[j].status
    BY <1>1, <2>2, Voids
  <2>4. \A k \in 1..Len(lines) : lines'[k].sub = lines[k].sub
    <3>1. \A k \in 1..Len(lines) :
                              /\ lines'[k].sub = lines[k].sub /\ lines'[k].named = lines[k].named
                              /\ (lines'[k].void <=> (k = l \/ lines[k].void))
      BY <1>1, <2>2, Voids
    <3> QED
      BY <3>1
  <2> QED
    BY <2>1, <2>3, <2>4
<1>2. ASSUME NEW i \in DOMAIN subs, M!Cancel(i)
      PROVE  /\ SameTerms(subs, subs') /\ UNCHANGED <<today, lines>>
             /\ \A j \in 1..Len(subs) : subs'[j].status \in {subs[j].status, "CANCELLED"}
  <2>1. UNCHANGED <<today, lines>>
    BY <1>2 DEF M!Cancel
  <2> QED
    BY <1>2, <2>1, Cancels DEF MemberTyped
<1>3. CASE M!ExpireMemberships
  <2>1. UNCHANGED <<today, lines>>
    BY <1>3 DEF M!ExpireMemberships
  <2> QED
    BY <1>0, <1>3, <2>1, Sweeps DEF MemberTyped
<1>4. CASE M!NextDay
  <2>1. subs' = subs /\ lines' = lines /\ today' = today + 1
    BY <1>4 DEF M!NextDay
  <2> QED
    BY <1>0, <2>1 DEF SameTerms
<1> QED
  BY <1>0, <1>1, <1>2, <1>3, <1>4 DEF Nightly

LEMMA MemberTypedKept ==
  MemberTyped /\ M!Next => MemberTyped' /\ (mixed => mixed')
<1> SUFFICES ASSUME MemberTyped, M!Next PROVE MemberTyped' /\ (mixed => mixed')
  OBVIOUS
<1>0. /\ SubsTyped /\ UsesTyped /\ AsksTyped /\ Len(subs) \in Nat /\ DOMAIN subs = 1..Len(subs)
      /\ today \in Nat /\ subs \in Seq(Sold) /\ lines \in Seq(Usage)
  BY SoldFacts DEF MemberTyped, SubsTyped, UsesTyped
<1>1. ASSUME NEW c \in Desks, Asking(c) PROVE MemberTyped' /\ (mixed => mixed')
  <2>1. SubsTyped' /\ UsesTyped' /\ subs' = subs
    BY <1>0, <1>1, RowsSame DEF SubsTyped, UsesTyped
  <2>2. M!Sell(c) \/ M!Spend(c) \/ M!Fail(c)
    BY <1>1 DEF Asking, M!Sell, M!Spend
  <2>3. Len(subs') = Len(subs) /\ Len(subs') >= Len(subs)
    BY <1>0, <2>1
  <2>4. AsksTyped' /\ (mixed => mixed')
    BY <1>0, <2>2, <2>3, AsksKept
  <2> QED
    BY <2>1, <2>4 DEF MemberTyped
<1>2. ASSUME NEW c \in Desks, M!SellOnBill(c) \/ M!Create(c) PROVE MemberTyped' /\ (mixed => mixed')
  <2>1. subs' \in Seq(Sold) /\ Len(subs') = Len(subs) + 1
    BY <1>0, <1>2, Appends
  <2>2. UNCHANGED <<lines, today>>
    BY <1>2, SaleStep
  <2>3. Len(subs') \in Nat /\ Len(subs') >= Len(subs)
    BY <1>0, <2>1
  <2>4. SubsTyped' /\ UsesTyped'
    BY <1>0, <2>1, <2>2, <2>3 DEF SubsTyped, UsesTyped
  <2>5. M!Sell(c)
    BY <1>2 DEF M!Sell
  <2>6. AsksTyped' /\ (mixed => mixed')
    BY <1>0, <2>3, <2>5, AsksKept
  <2> QED
    BY <2>4, <2>6 DEF MemberTyped
<1>3. ASSUME NEW c \in Desks, M!Expire(c) PROVE MemberTyped' /\ (mixed => mixed')
  <2>1. SameTerms(subs, subs')
    BY <1>0, <1>3, Expires
  <2>2. lines' = lines /\ today' \in Nat
    BY <1>0, <1>3, SaleStep
  <2>3. SubsTyped' /\ UsesTyped'
    BY <1>0, <2>1, <2>2, TermsKept
  <2>4. Len(subs') \in Nat /\ Len(subs') >= Len(subs)
    BY <1>0, <2>1 DEF SameTerms
  <2>5. M!Sell(c)
    BY <1>3 DEF M!Sell
  <2>6. AsksTyped' /\ (mixed => mixed')
    BY <1>0, <2>4, <2>5, AsksKept
  <2> QED
    BY <2>3, <2>6 DEF MemberTyped
<1>4. ASSUME NEW c \in Desks, M!Use(c) PROVE MemberTyped' /\ (mixed => mixed')
  <2>1. /\ SameTerms(subs, subs') /\ found[c] \in 1..Len(subs)
        /\ lines' \in Seq(Usage) /\ Len(lines') = Len(lines) + 1
        /\ lines'[Len(lines) + 1].sub = found[c] /\ \A l \in 1..Len(lines) : lines'[l] = lines[l]
    BY <1>0, <1>4, Uses
  <2>2. today' = today
    BY <1>4 DEF M!Use
  <2>3. Len(subs') = Len(subs) /\ Len(subs') \in Nat /\ Len(subs') >= Len(subs) /\ subs' \in Seq(Sold)
    BY <1>0, <2>1 DEF SameTerms
  <2>4. \A l \in 1..Len(lines') : lines'[l].sub \in 1..Len(subs')
    BY <1>0, <2>1, <2>3, LineFacts
  <2>5. SubsTyped' /\ UsesTyped'
    BY <1>0, <2>1, <2>2, <2>3, <2>4 DEF SubsTyped, UsesTyped
  <2>6. M!Spend(c)
    BY <1>4 DEF M!Spend
  <2>7. AsksTyped' /\ (mixed => mixed')
    BY <1>0, <2>3, <2>6, AsksKept
  <2> QED
    BY <2>5, <2>7 DEF MemberTyped
<1>5. CASE Nightly
  <2>1. /\ SameTerms(subs, subs') /\ today' \in Nat /\ Len(lines') = Len(lines)
        /\ lines' \in Seq(Usage) /\ \A l \in 1..Len(lines) : lines'[l].sub = lines[l].sub
    BY <1>5, NightSteps
  <2>2. SubsTyped' /\ UsesTyped' /\ Len(subs') = Len(subs)
    BY <1>0, <2>1 DEF SubsTyped, UsesTyped, SameTerms
  <2>3. UNCHANGED <<pc, plan, found, named, mixed>>
    BY <1>5, AsksSame
  <2>4. AsksTyped' /\ (mixed => mixed')
    BY <1>0, <2>2, <2>3 DEF AsksTyped
  <2> QED
    BY <2>2, <2>4 DEF MemberTyped
<1>6. CASE Merged
  <2>1. /\ subs' \in Seq(Sold) /\ Len(subs') = Len(subs) + 1
        /\ UNCHANGED <<lines, today, pc, plan, found, named>> /\ mixed'
    BY <1>6, Merges
  <2>2. Len(subs') \in Nat /\ Len(subs') >= Len(subs)
    BY <1>0, <2>1
  <2>3. SubsTyped' /\ UsesTyped'
    BY <1>0, <2>1, <2>2 DEF SubsTyped, UsesTyped
  <2>4. mixed' \in BOOLEAN
    BY <1>6 DEF Merged, M!Merge
  <2>5. AsksTyped'
    BY <1>0, <2>1, <2>2, <2>4 DEF AsksTyped
  <2> QED
    BY <2>1, <2>3, <2>5 DEF MemberTyped
<1> QED
  BY <1>1, <1>2, <1>3, <1>4, <1>5, <1>6, MemberCases

\* A night, or a step of a request that sells nothing: what ran out or was ended stays so.
LEMMA NothingRevives ==
  ASSUME MemberTyped, MemberTyped', OneSale, LastEnded, InTurn,
         SameTerms(subs, subs'), today' >= today,
         \A j \in 1..Len(subs) :
               /\ subs'[j].status # "CANCELLED" => subs[j].status # "CANCELLED"
               /\ subs'[j].status = "ACTIVE" => subs[j].status = "ACTIVE"
               /\ subs'[j].status = "EXPIRED" => subs[j].status = "EXPIRED" \/ subs[j].end < today,
         \A d \in Desks :
               /\ M!Selling(d)' => M!Selling(d) /\ found'[d] = found[d] /\ pc'[d] = pc[d]
               /\ pc[d] = "create" => pc'[d] = "create" /\ found'[d] = found[d]
  PROVE  OneSale' /\ LastEnded' /\ InTurn'
<1>0. /\ Len(subs') = Len(subs) /\ Len(subs) \in Nat /\ today \in Nat /\ today' \in Nat
      /\ \A j \in 1..Len(subs) :
                               /\ subs'[j].plan = subs[j].plan /\ subs'[j].start = subs[j].start
                               /\ subs'[j].end = subs[j].end /\ subs[j].end \in Nat
  BY SoldFacts DEF SameTerms, MemberTyped, SubsTyped
<1>1. (\A j : j \in M!Live <=> j \in 1..Len(subs) /\ subs[j].status = "ACTIVE" /\ subs[j].end >= today)
  BY LiveIs DEF MemberTyped
<1>2. (\A j : j \in M!Live' <=> j \in 1..Len(subs') /\ subs'[j].status = "ACTIVE" /\ subs'[j].end >= today')
  BY SoldFacts DEF M!Live, MemberTyped, SubsTyped
<1>3. M!Live' \subseteq M!Live
  BY <1>0, <1>1, <1>2
<1>4. OneSale'
  <2>1. M!Live' \subseteq {Len(subs')}
    BY <1>0, <1>3 DEF OneSale
  <2>2. ASSUME NEW d \in Desks, M!Selling(d)'
        PROVE  /\ found'[d] \in {0, Len(subs')} /\ M!Live' \subseteq {found'[d]}
               /\ pc'[d] = "create" => M!Live' = {}
               /\ \A e \in Desks : M!Selling(e)' => e = d
    <3>1. M!Selling(d) /\ found'[d] = found[d] /\ pc'[d] = pc[d]
      BY <2>2
    <3>2. /\ found[d] \in {0, Len(subs)} /\ M!Live \subseteq {found[d]}
          /\ pc[d] = "create" => M!Live = {}
          /\ \A e \in Desks : M!Selling(e) => e = d
      BY <3>1 DEF OneSale
    <3> QED
      BY <1>0, <1>3, <3>1, <3>2
  <2> QED
    BY <2>1, <2>2 DEF OneSale
<1>5. InTurn'
  <2>1. ASSUME NEW i \in 1..Len(subs') - 1, subs'[i].plan = subs'[i + 1].plan,
               subs'[i].status # "CANCELLED"
        PROVE  subs'[i].end <= subs'[i + 1].start
    <3>1. i \in 1..Len(subs) /\ i + 1 \in 1..Len(subs) /\ i \in 1..Len(subs) - 1
      BY <1>0
    <3>2. subs[i].plan = subs[i + 1].plan /\ subs[i].status # "CANCELLED"
      BY <1>0, <2>1, <3>1
    <3> QED
      BY <1>0, <3>1, <3>2 DEF InTurn
  <2> QED
    BY <2>1 DEF InTurn
<1>6. ASSUME Len(subs) # 0, subs'[Len(subs)].status = "EXPIRED"
      PROVE  subs'[Len(subs)].end < today' \/ \E d \in Desks : pc'[d] = "create" /\ found'[d] = Len(subs)
  <2>1. Len(subs) \in 1..Len(subs)
    BY <1>0, <1>6
  <2>2. CASE subs[Len(subs)].end < today
    BY <1>0, <2>1, <2>2
  <2>3. CASE subs[Len(subs)].status = "EXPIRED" /\ ~(subs[Len(subs)].end < today)
    <3>1. PICK d \in Desks : pc[d] = "create" /\ found[d] = Len(subs)
      BY <1>6, <2>3, EmptySeq DEF LastEnded, MemberTyped, SubsTyped
    <3>2. pc'[d] = "create" /\ found'[d] = Len(subs)
      BY <3>1
    <3> QED
      BY <3>2
  <2> QED
    BY <1>6, <2>1, <2>2, <2>3
<1>7. LastEnded'
  <2>1. subs' # <<>> => Len(subs) # 0
    BY <1>0, EmptySeq DEF MemberTyped, SubsTyped
  <2> QED
    BY <1>0, <1>6, <2>1 DEF LastEnded
<1> QED
  BY <1>4, <1>5, <1>7

LEMMA SaleKept ==
  ASSUME MemberTyped, MemberTyped', ~mixed => OneSale /\ LastEnded /\ InTurn, M!Next, ~mixed'
  PROVE  OneSale' /\ LastEnded' /\ InTurn'
<1>0. /\ SubsTyped /\ UsesTyped /\ AsksTyped /\ Len(subs) \in Nat /\ today \in Nat
      /\ \A j \in 1..Len(subs) : subs[j].end \in Nat /\ subs[j].status \in Statuses
      /\ subs \in Seq(Sold) /\ DOMAIN subs = 1..Len(subs)
  BY SoldFacts DEF MemberTyped, SubsTyped
<1>1. ~mixed /\ OneSale /\ LastEnded /\ InTurn
  BY MemberTypedKept
<1>2. \A j : j \in M!Live <=> j \in 1..Len(subs) /\ subs[j].status = "ACTIVE" /\ subs[j].end >= today
  BY <1>0, LiveIs
<1>3. \A j : j \in M!Live' <=> j \in 1..Len(subs') /\ subs'[j].status = "ACTIVE" /\ subs'[j].end >= today'
  BY SoldFacts DEF M!Live, MemberTyped, SubsTyped
<1>4. CASE Nightly
  <2>1. UNCHANGED <<pc, found>>
    BY <1>4, AsksSame
  <2>2. \A d \in Desks :
            /\ M!Selling(d)' => M!Selling(d) /\ found'[d] = found[d] /\ pc'[d] = pc[d]
            /\ pc[d] = "create" => pc'[d] = "create" /\ found'[d] = found[d]
    BY <2>1 DEF M!Selling
  <2> QED
    BY <1>1, <1>4, <2>2, NightSteps, NothingRevives
<1>5. ASSUME NEW c \in Desks, SameTerms(subs, subs'), today' = today,
             \A j \in 1..Len(subs) : subs'[j].status = subs[j].status,
             \A d \in Desks \ {c} : pc'[d] = pc[d] /\ found'[d] = found[d],
             pc[c] # "create", ~M!Selling(c)'
      PROVE  OneSale' /\ LastEnded' /\ InTurn'
  <2>1. \A d \in Desks :
            /\ M!Selling(d)' => M!Selling(d) /\ found'[d] = found[d] /\ pc'[d] = pc[d]
            /\ pc[d] = "create" => pc'[d] = "create" /\ found'[d] = found[d]
    BY <1>5 DEF M!Selling
  <2>2. today' >= today
    BY <1>0, <1>5
  <2>3. \A j \in 1..Len(subs) :
               /\ subs'[j].status # "CANCELLED" => subs[j].status # "CANCELLED"
               /\ subs'[j].status = "ACTIVE" => subs[j].status = "ACTIVE"
               /\ subs'[j].status = "EXPIRED" => subs[j].status = "EXPIRED" \/ subs[j].end < today
    BY <1>5
  <2> QED
    BY <1>1, <1>5, <2>1, <2>2, <2>3, NothingRevives
<1>6. ASSUME NEW c \in Desks, Asking(c) PROVE OneSale' /\ LastEnded' /\ InTurn'
  <2>1. subs' = subs /\ lines' = lines /\ today' = today
    BY <1>6, RowsSame
  <2>2. SameTerms(subs, subs') /\ \A j \in 1..Len(subs) : subs'[j].status = subs[j].status
    BY <1>0, <2>1 DEF SameTerms
  <2>3. M!Sell(c) \/ M!Spend(c) \/ M!Fail(c)
    BY <1>6 DEF Asking, M!Sell, M!Spend
  <2>4. Len(subs') \in Nat /\ Len(subs') >= Len(subs)
    BY <1>0, <2>1
  <2>5. \A d \in Desks \ {c} : pc'[d] = pc[d] /\ found'[d] = found[d]
    BY <1>0, <2>3, <2>4, AsksKept
  <2>6. DOMAIN pc = Desks /\ DOMAIN found = Desks
    BY <1>0 DEF AsksTyped
  <2>7. ASSUME NEW p \in Plans, NEW st \in {"bill", "expire"}, M!AskSell(c, p, st)
        PROVE  OneSale' /\ LastEnded' /\ InTurn'
    <3>1. \A d \in Desks : ~M!Selling(d)
      BY <2>7 DEF M!AskSell
    <3>2. PICK i \in M!Live \cup {0} : (i = 0 <=> M!Live = {}) /\ found' = [found EXCEPT ![c] = i]
      BY <2>7 DEF M!AskSell
    <3>3. pc' = [pc EXCEPT ![c] = IF st = "expire" /\ M!Live = {} THEN "create" ELSE st]
      BY <2>7 DEF M!AskSell, M!Goto
    <3>4. M!Live' = M!Live
      BY <1>2, <1>3, <2>1
    <3>5. i \in {0, Len(subs)} /\ M!Live \subseteq {i}
      BY <1>1, <3>2 DEF OneSale
    <3>6. found'[c] = i /\ (pc'[c] = "create" => M!Live = {})
      BY <2>6, <2>7, <3>2, <3>3
    <3>7. \A d \in Desks : M!Selling(d)' => d = c
      BY <2>5, <3>1 DEF M!Selling
    <3>8. OneSale'
      BY <1>1, <2>1, <3>4, <3>5, <3>6, <3>7 DEF OneSale
    <3>9. InTurn'
      BY <1>1, <2>1 DEF InTurn
    <3>10. LastEnded'
      BY <1>1, <2>1, <3>1 DEF LastEnded, M!Selling
    <3> QED
      BY <3>8, <3>9, <3>10
  <2>8. CASE M!Fail(c)
    <3>1. pc[c] # "create" /\ pc'[c] = "idle"
      BY <2>6, <2>8 DEF M!Fail, M!End, M!Goto
    <3>2. ~M!Selling(c)'
      BY <3>1 DEF M!Selling
    <3> QED
      BY <1>5, <2>1, <2>2, <2>5, <3>1, <3>2
  <2>9. ASSUME NEW i \in DOMAIN subs, NEW names \in BOOLEAN, M!AskUse(c, i, names)
        PROVE  OneSale' /\ LastEnded' /\ InTurn'
    <3>1. pc[c] # "create" /\ pc'[c] = "usage"
      BY <2>6, <2>9 DEF M!AskUse, M!Goto
    <3>2. ~M!Selling(c)'
      BY <3>1 DEF M!Selling
    <3> QED
      BY <1>5, <2>1, <2>2, <2>5, <3>1, <3>2
  <2>10. CASE M!ReadUsage(c)
    <3>1. pc[c] # "create" /\ pc'[c] \in {"idle", "use"}
      BY <2>6, <2>10 DEF M!ReadUsage, M!End, M!Goto
    <3>2. ~M!Selling(c)'
      BY <3>1 DEF M!Selling
    <3> QED
      BY <1>5, <2>1, <2>2, <2>5, <3>1, <3>2
  <2> QED
    BY <1>6, <2>7, <2>8, <2>9, <2>10 DEF Asking
<1>7. ASSUME NEW c \in Desks, M!Use(c) PROVE OneSale' /\ LastEnded' /\ InTurn'
  <2>1. SameTerms(subs, subs') /\ \A j \in 1..Len(subs) : subs'[j].status = subs[j].status
    BY <1>0, <1>7, Uses
  <2>2. M!Spend(c) /\ today' = today
    BY <1>7 DEF M!Spend, M!Use
  <2>3. Len(subs') \in Nat /\ Len(subs') >= Len(subs)
    BY <1>0, <2>1 DEF SameTerms
  <2>4. \A d \in Desks \ {c} : pc'[d] = pc[d] /\ found'[d] = found[d]
    BY <1>0, <2>2, <2>3, AsksKept
  <2>5. pc[c] # "create" /\ pc'[c] = "idle"
    BY <1>0, <1>7 DEF M!Use, M!End, M!Goto, AsksTyped
  <2>6. ~M!Selling(c)'
    BY <2>5 DEF M!Selling
  <2> QED
    BY <1>5, <2>1, <2>2, <2>4, <2>5, <2>6
<1>8. ASSUME NEW c \in Desks, M!Expire(c) PROVE OneSale' /\ LastEnded' /\ InTurn'
  <2>1. /\ SameTerms(subs, subs') /\ found[c] \in 1..Len(subs)
        /\ \A j \in 1..Len(subs) :
               subs'[j].status = IF j = found[c] THEN "EXPIRED" ELSE subs[j].status
    BY <1>0, <1>8, Expires
  <2>2. today' = today /\ found' = found /\ pc[c] = "expire" /\ pc' = [pc EXCEPT ![c] = "create"]
    BY <1>8 DEF M!Expire, M!Goto
  <2>3. M!Selling(c) /\ pc'[c] = "create" /\ \A d \in Desks \ {c} : pc'[d] = pc[d]
    BY <1>0, <2>2 DEF M!Selling, AsksTyped
  <2>4. found[c] = Len(subs) /\ M!Live \subseteq {found[c]} /\ \A d \in Desks : M!Selling(d) => d = c
    BY <1>0, <1>1, <2>1, <2>3 DEF OneSale
  <2>5. /\ Len(subs') = Len(subs)
        /\ \A j \in 1..Len(subs) :
                                 /\ subs'[j].plan = subs[j].plan /\ subs'[j].start = subs[j].start
                                 /\ subs'[j].end = subs[j].end
    BY <2>1 DEF SameTerms
  <2>6. M!Live' = {}
    BY <1>2, <1>3, <2>1, <2>2, <2>4, <2>5
  <2>7. \A d \in Desks : M!Selling(d)' => d = c
    BY <2>3, <2>4 DEF M!Selling
  <2>8. OneSale'
    BY <2>2, <2>4, <2>5, <2>6, <2>7 DEF OneSale
  <2>9. LastEnded'
    BY <2>2, <2>3, <2>4, <2>5 DEF LastEnded
  <2>10. InTurn'
    <3>1. ASSUME NEW i \in 1..Len(subs') - 1, subs'[i].plan = subs'[i + 1].plan,
                 subs'[i].status # "CANCELLED"
          PROVE  subs'[i].end <= subs'[i + 1].start
      <4>0. Len(subs) \in Nat /\ i \in 1..Len(subs) - 1
        BY <1>0, <2>5
      <4>1. i \in 1..Len(subs) /\ i + 1 \in 1..Len(subs) /\ i \in 1..Len(subs) - 1 /\ i # Len(subs)
        BY <4>0
      <4>2. subs[i].plan = subs[i + 1].plan /\ subs[i].status # "CANCELLED"
        BY <2>1, <2>4, <2>5, <3>1, <4>1
      <4> QED
        BY <1>1, <2>5, <4>1, <4>2 DEF InTurn
    <3> QED
      BY <3>1 DEF InTurn
  <2> QED
    BY <2>8, <2>9, <2>10
<1>9. ASSUME NEW c \in Desks, M!SellOnBill(c) \/ M!Create(c) PROVE OneSale' /\ LastEnded' /\ InTurn'
  <2>1. /\ Len(subs') = Len(subs) + 1 /\ subs'[Len(subs) + 1] = M!New(c)
        /\ \A j \in 1..Len(subs) :
              /\ subs'[j].plan = subs[j].plan /\ subs'[j].start = subs[j].start
              /\ subs'[j].end = subs[j].end
              /\ subs'[j].status = IF pc[c] = "bill" /\ j = found[c] THEN "EXPIRED" ELSE subs[j].status
    BY <1>0, <1>9, Appends
  <2>2. /\ M!New(c).start = M!Starts(c) /\ M!New(c).status = "ACTIVE" /\ M!New(c).plan = plan[c]
        /\ M!Starts(c) \in Nat
    BY <1>0, NewIsSold
  <2>3. today' = today /\ pc[c] \in {"bill", "create"} /\ pc' = [pc EXCEPT ![c] = "idle"]
    BY <1>9 DEF M!SellOnBill, M!Create, M!End, M!Goto
  <2>4. M!Selling(c) /\ pc'[c] = "idle" /\ \A d \in Desks \ {c} : pc'[d] = pc[d]
    BY <1>0, <2>3 DEF M!Selling, AsksTyped
  <2>5. /\ found[c] \in {0, Len(subs)} /\ M!Live \subseteq {found[c]}
        /\ pc[c] = "create" => M!Live = {}
        /\ \A d \in Desks : M!Selling(d) => d = c
    BY <1>1, <2>4 DEF OneSale
  <2>6. M!Live' \subseteq {Len(subs')}
    <3>1. ASSUME NEW j \in M!Live', j # Len(subs') PROVE FALSE
      <4>1. j \in 1..Len(subs) /\ subs'[j].status = "ACTIVE" /\ subs'[j].end >= today'
        BY <1>0, <1>3, <2>1, <3>1
      <4>2. subs[j].status = "ACTIVE" /\ subs[j].end >= today /\ ~(pc[c] = "bill" /\ j = found[c])
        BY <2>1, <2>3, <4>1
      <4>3. j \in M!Live
        BY <1>2, <4>1, <4>2
      <4> QED
        BY <2>3, <2>5, <4>2, <4>3
    <3> QED
      BY <3>1
  <2>7. \A d \in Desks : ~M!Selling(d)'
    BY <2>4, <2>5 DEF M!Selling
  <2>8. OneSale'
    BY <2>6, <2>7 DEF OneSale
  <2>9. LastEnded'
    BY <2>1, <2>2 DEF LastEnded
  <2>10. ASSUME Len(subs) # 0, subs[Len(subs)].plan = plan[c], subs'[Len(subs)].status # "CANCELLED"
         PROVE  subs[Len(subs)].end <= M!Starts(c)
    <3>1. Len(subs) \in 1..Len(subs) /\ subs # <<>>
      BY <1>0, <2>10, EmptySeq
    <3>2. CASE found[c] = Len(subs)
      BY <1>0, <2>10, <3>1, <3>2 DEF M!Starts
    <3>3. CASE found[c] = 0
      <4>1. M!Starts(c) = today /\ M!Live = {}
        <5>1. 0 \notin M!Live
          BY <1>2
        <5> QED
          BY <2>5, <3>3, <5>1 DEF M!Starts
      <4>2. subs'[Len(subs)].status = subs[Len(subs)].status
        BY <2>1, <2>10, <3>1, <3>3
      <4>3. CASE subs[Len(subs)].status = "ACTIVE"
        BY <1>0, <1>2, <3>1, <4>1, <4>3
      <4>4. CASE subs[Len(subs)].status = "EXPIRED"
        <5>1. ~\E d \in Desks : pc[d] = "create" /\ found[d] = Len(subs)
          BY <2>5, <2>10, <3>3 DEF M!Selling
        <5>2. subs[Len(subs)].end < today
          BY <1>1, <3>1, <4>4, <5>1 DEF LastEnded
        <5> QED
          BY <1>0, <3>1, <4>1, <5>2
      <4> QED
        BY <1>0, <2>10, <3>1, <4>2, <4>3, <4>4 DEF Statuses
    <3> QED
      BY <2>5, <3>2, <3>3
  <2>11. InTurn'
    <3>1. ASSUME NEW i \in 1..Len(subs') - 1, subs'[i].plan = subs'[i + 1].plan,
                 subs'[i].status # "CANCELLED"
          PROVE  subs'[i].end <= subs'[i + 1].start
      <4>1. i \in 1..Len(subs)
        BY <1>0, <2>1
      <4>2. CASE i = Len(subs)
        BY <1>0, <2>1, <2>2, <2>10, <3>1, <4>1, <4>2
      <4>3. CASE i # Len(subs)
        <5>0. Len(subs) \in Nat
          BY <1>0
        <5>1. i + 1 \in 1..Len(subs) /\ i \in 1..Len(subs) - 1
          BY <4>1, <4>3, <5>0
        <5>2. i # found[c]
          BY <2>5, <4>1, <4>3, <5>0
        <5>3. subs'[i].status = subs[i].status
          BY <2>1, <4>1, <5>2
        <5>4. subs[i].plan = subs[i + 1].plan /\ subs[i].status # "CANCELLED"
          BY <2>1, <3>1, <4>1, <5>1, <5>3
        <5> QED
          BY <1>1, <2>1, <4>1, <5>1, <5>4 DEF InTurn
      <4> QED
        BY <4>2, <4>3
    <3> QED
      BY <3>1 DEF InTurn
  <2> QED
    BY <2>8, <2>9, <2>11
<1>10. ~Merged
  BY Merges
<1> QED
  BY <1>4, <1>6, <1>7, <1>8, <1>9, <1>10, MemberCases

(* The sessions *)

LEMMA StandingFinite ==
  ASSUME UsesTyped, NEW i
  PROVE  IsFiniteSet(Standing(i)) /\ Cardinality(Standing(i)) \in Nat
<1>1. Standing(i) \subseteq 1..Len(lines) /\ IsFiniteSet(1..Len(lines))
  BY LineFacts, FS_Interval DEF Standing
<1> QED
  BY <1>1, FS_Subset, FS_CardinalityType

LEMMA SpentIsStanding ==
  ASSUME UsesTyped, NEW i
  PROVE  M!Spent(i) = Cardinality(Standing(i))
BY LineFacts DEF M!Spent, Standing, M!Cardinality, Cardinality

\* Sessions that neither a bill nor a void touches.
LEMMA UntouchedSpending ==
  ASSUME MemberTyped, Spending, overused' = overused, UNCHANGED lines,
         Len(subs') = Len(subs), \A j \in 1..Len(subs) : subs'[j].used = subs[j].used,
         \A d \in Desks : pc'[d] = "use" =>
             \/ pc[d] = "use" /\ found'[d] = found[d]
             \/ subs[found'[d]].used + 1 <= Quantity
  PROVE  Spending'
<1>1. \A i : Standing(i)' = Standing(i)
  BY DEF Standing
<1>2. ASSUME NEW i \in 1..Len(subs')
      PROVE  /\ subs'[i].used = Cardinality(Standing(i)')
             /\ i \notin overused' =>
                  /\ subs'[i].used <= Quantity
                  /\ \A d \in Desks : pc'[d] = "use" /\ found'[d] = i => subs'[i].used + 1 <= Quantity
  BY <1>1 DEF Spending
<1> QED
  BY <1>2 DEF Spending

\* A membership more, which has used nothing.
LEMMA OneMoreSpending ==
  ASSUME MemberTyped, Spending, UNCHANGED <<lines, overused>>, Len(subs') = Len(subs) + 1,
         subs'[Len(subs) + 1].used = 0, \A j \in 1..Len(subs) : subs'[j].used = subs[j].used,
         \A d \in Desks : pc'[d] = "use" => pc[d] = "use" /\ found'[d] = found[d]
  PROVE  Spending'
<1>0. SubsTyped /\ UsesTyped /\ AsksTyped /\ Len(subs) \in Nat /\ Len(lines) \in Nat
  BY SoldFacts, LineFacts DEF MemberTyped, SubsTyped
<1>4. \A i : Standing(i)' = Standing(i)
  BY DEF Standing
<1>5. PICK n \in Nat : n = Len(subs) + 1
  BY <1>0
<1>11. Standing(n) = {}
  BY <1>0, <1>5, LineFacts DEF Standing
<1>6. ASSUME NEW i \in 1..Len(subs)
      PROVE  /\ subs'[i].used = Cardinality(Standing(i)')
             /\ i \notin overused' =>
                  /\ subs'[i].used <= Quantity
                  /\ \A d \in Desks : pc'[d] = "use" /\ found'[d] = i => subs'[i].used + 1 <= Quantity
  BY <1>4 DEF Spending
<1>7. \A d \in Desks : found[d] # Len(subs) + 1
  BY <1>0 DEF AsksTyped
<1>8. subs'[n].used = 0
  BY <1>5
<1>9. Cardinality(Standing(n)') = 0
  BY <1>4, <1>11, FS_EmptySet
<1>10. /\ subs'[n].used <= Quantity
       /\ \A d \in Desks : ~(pc'[d] = "use" /\ found'[d] = n)
  <2>1. 0 <= Quantity
    BY PlanAssumption
  <2> QED
    BY <1>5, <1>7, <1>8, <2>1
<1>12. \A i \in 1..Len(subs') : i \in 1..Len(subs) \/ i = n
  BY <1>0, <1>5
<1>13. ASSUME NEW i \in 1..Len(subs')
       PROVE  /\ subs'[i].used = Cardinality(Standing(i)')
              /\ i \notin overused' =>
                   /\ subs'[i].used <= Quantity
                   /\ \A d \in Desks : pc'[d] = "use" /\ found'[d] = i => subs'[i].used + 1 <= Quantity
  <2>1. CASE i \in 1..Len(subs)
    BY <1>6, <2>1
  <2>2. CASE i = n
    BY <1>8, <1>9, <1>10, <2>2
  <2> QED
    BY <1>12, <2>1, <2>2
<1> QED
  BY <1>13 DEF Spending

LEMMA SpendingKept ==
  ASSUME MemberTyped, Spending, M!Next
  PROVE  Spending'
<1>0. /\ SubsTyped /\ UsesTyped /\ AsksTyped /\ Len(subs) \in Nat /\ Len(lines) \in Nat
      /\ \A j \in 1..Len(subs) : subs[j].used \in Int
      /\ DOMAIN subs = 1..Len(subs) /\ DOMAIN pc = Desks /\ DOMAIN found = Desks
  BY SoldFacts, LineFacts DEF MemberTyped, SubsTyped, AsksTyped
<1>1. ASSUME NEW c \in Desks, Asking(c) PROVE Spending'
  <2>1. subs' = subs /\ lines' = lines
    BY <1>1, RowsSame
  <2>2. M!Sell(c) \/ M!Spend(c) \/ M!Fail(c)
    BY <1>1 DEF Asking, M!Sell, M!Spend
  <2>3. Len(subs') \in Nat /\ Len(subs') >= Len(subs)
    BY <1>0, <2>1
  <2>4. \A d \in Desks \ {c} : pc'[d] = pc[d] /\ found'[d] = found[d]
    BY <1>0, <2>2, <2>3, AsksKept
  <2>5. pc'[c] = "use" => subs[found'[c]].used + 1 <= Quantity
    <3>1. ASSUME NEW p \in Plans, NEW st \in {"bill", "expire"}, M!AskSell(c, p, st) PROVE pc'[c] # "use"
      BY <1>0, <3>1 DEF M!AskSell, M!Goto
    <3>2. ASSUME NEW i \in DOMAIN subs, NEW names \in BOOLEAN, M!AskUse(c, i, names) PROVE pc'[c] # "use"
      BY <1>0, <3>2 DEF M!AskUse, M!Goto
    <3>3. ASSUME M!Fail(c) PROVE pc'[c] # "use"
      BY <1>0, <3>3 DEF M!Fail, M!End, M!Goto
    <3>4. ASSUME M!ReadUsage(c), pc'[c] = "use" PROVE subs[found'[c]].used + 1 <= Quantity
      <4>1. ~(subs[found[c]].used + 1 > Quantity) /\ found' = found
        BY <1>0, <3>4 DEF M!ReadUsage, M!End, M!Goto
      <4>2. found[c] \in 1..Len(subs)
        BY <1>0, <3>4 DEF M!ReadUsage, AsksTyped
      <4> QED
        BY <1>0, <4>1, <4>2, PlanAssumption
    <3> QED
      BY <1>1, <3>1, <3>2, <3>3, <3>4 DEF Asking
  <2>6. overused' = overused
    BY <1>1 DEF Asking, M!AskSell, M!AskUse, M!ReadUsage, M!Fail
  <2> QED
    BY <2>1, <2>4, <2>5, <2>6, UntouchedSpending
<1>2. ASSUME NEW c \in Desks, M!Expire(c) PROVE Spending'
  <2>1. SameTerms(subs, subs') /\ \A j \in 1..Len(subs) : subs'[j].used = subs[j].used
    BY <1>0, <1>2, Expires
  <2>2. Len(subs') = Len(subs) /\ UNCHANGED <<lines, overused>>
    BY <1>2, <2>1, SaleStep DEF SameTerms
  <2>3. \A d \in Desks : pc'[d] = "use" => pc[d] = "use" /\ found'[d] = found[d]
    BY <1>0, <1>2 DEF M!Expire, M!Goto
  <2> QED
    BY <2>1, <2>2, <2>3, UntouchedSpending
<1>3. CASE M!ExpireMemberships \/ M!NextDay
  <2>1. Len(subs') = Len(subs) /\ \A j \in 1..Len(subs) : subs'[j].used = subs[j].used
    <3>1. CASE M!ExpireMemberships
      BY <1>0, <3>1, Sweeps DEF SameTerms
    <3>2. CASE M!NextDay
      BY <3>2 DEF M!NextDay
    <3> QED
      BY <1>3, <3>1, <3>2
  <2>2. UNCHANGED <<lines, overused, pc, found>>
    BY <1>3 DEF M!ExpireMemberships, M!NextDay, M!request
  <2> QED
    BY <2>1, <2>2, UntouchedSpending
<1>4. ASSUME NEW i \in DOMAIN subs, M!Cancel(i) PROVE Spending'
  <2>1. SameTerms(subs, subs') /\ \A j \in 1..Len(subs) : subs'[j].used = subs[j].used
    BY <1>0, <1>4, Cancels
  <2>2. Len(subs') = Len(subs) /\ UNCHANGED <<lines, overused, pc, found>>
    BY <1>4, <2>1 DEF M!Cancel, M!request, SameTerms
  <2> QED
    BY <2>1, <2>2, UntouchedSpending
<1>8. CASE Merged
  <2>1. /\ Len(subs') = Len(subs) + 1 /\ subs'[Len(subs) + 1].used = 0
        /\ \A j \in 1..Len(subs) : subs'[j].used = subs[j].used
        /\ UNCHANGED <<lines, overused, pc, found>>
    BY <1>8, Merges
  <2> QED
    BY <2>1, OneMoreSpending
<1>5. ASSUME NEW c \in Desks, M!SellOnBill(c) \/ M!Create(c) PROVE Spending'
  <2>1. /\ Len(subs') = Len(subs) + 1 /\ subs'[Len(subs) + 1] = M!New(c)
        /\ \A j \in 1..Len(subs) : subs'[j].used = subs[j].used
    BY <1>0, <1>5, Appends
  <2>2. UNCHANGED <<lines, overused>> /\ M!New(c).used = 0
    BY <1>0, <1>5, SaleStep, NewIsSold
  <2>3. \A d \in Desks : pc'[d] = "use" => pc[d] = "use" /\ found'[d] = found[d]
    BY <1>0, <1>5 DEF M!SellOnBill, M!Create, M!End, M!Goto
  <2> QED
    BY <1>0, <2>1, <2>2, <2>3, OneMoreSpending
<1>6. ASSUME NEW c \in Desks, M!Use(c) PROVE Spending'
  <2>1. /\ SameTerms(subs, subs') /\ found[c] \in 1..Len(subs)
        /\ \A j \in 1..Len(subs) :
              subs'[j].used = IF j = found[c] THEN subs[j].used + 1 ELSE subs[j].used
        /\ Len(lines') = Len(lines) + 1
        /\ lines'[Len(lines) + 1].sub = found[c] /\ ~lines'[Len(lines) + 1].void
        /\ \A l \in 1..Len(lines) : lines'[l] = lines[l]
    BY <1>0, <1>6, Uses
  <2>2. /\ pc[c] = "use" /\ pc' = [pc EXCEPT ![c] = "idle"] /\ found' = [found EXCEPT ![c] = 0]
        /\ overused' = IF \E d \in Desks \ {c} : pc[d] = "use" /\ found[d] = found[c]
                       THEN overused \cup {found[c]} ELSE overused
    BY <1>6 DEF M!Use, M!End, M!Goto
  <2>3. Len(subs') = Len(subs)
    BY <2>1 DEF SameTerms
  <2>4. \A d \in Desks : pc'[d] = "use" => d # c /\ pc[d] = "use" /\ found'[d] = found[d]
    BY <1>0, <2>2
  <2>5. ASSUME NEW i \in 1..Len(subs), i # found[c]
        PROVE  /\ subs'[i].used = Cardinality(Standing(i)')
               /\ i \notin overused' =>
                    /\ subs'[i].used <= Quantity
                    /\ \A d \in Desks : pc'[d] = "use" /\ found'[d] = i => subs'[i].used + 1 <= Quantity
    <3>1. Standing(i)' = Standing(i)
      BY <1>0, <2>1, <2>5 DEF Standing
    <3>2. subs'[i].used = subs[i].used /\ (i \notin overused' => i \notin overused)
      BY <2>1, <2>2, <2>5
    <3> QED
      BY <2>4, <3>1, <3>2 DEF Spending
  <2>6. PICK i \in 1..Len(subs) : i = found[c]
    BY <2>1
  <2>7. Standing(i)' = Standing(i) \cup {Len(lines) + 1} /\ Len(lines) + 1 \notin Standing(i)
    BY <1>0, <2>1, <2>6 DEF Standing
  <2>8. Cardinality(Standing(i) \cup {Len(lines) + 1}) = Cardinality(Standing(i)) + 1
    BY <1>0, <2>7, StandingFinite, FS_AddElement
  <2>9. subs'[i].used = subs[i].used + 1 /\ subs[i].used = Cardinality(Standing(i))
    BY <2>1, <2>6 DEF Spending
  <2>10. subs'[i].used = Cardinality(Standing(i)')
    BY <2>7, <2>8, <2>9
  <2>11. i \notin overused' =>
            /\ subs'[i].used <= Quantity
            /\ \A d \in Desks : ~(pc'[d] = "use" /\ found'[d] = i)
    <3>1. ASSUME i \notin overused'
          PROVE  i \notin overused /\ ~\E d \in Desks \ {c} : pc[d] = "use" /\ found[d] = i
      BY <2>2, <2>6, <3>1
    <3>2. i \notin overused => subs[i].used + 1 <= Quantity
      BY <2>2, <2>6 DEF Spending
    <3> QED
      BY <2>4, <2>9, <3>1, <3>2
  <2> QED
    BY <2>3, <2>5, <2>6, <2>10, <2>11 DEF Spending
<1>7. ASSUME NEW l \in DOMAIN lines, M!Void(l) PROVE Spending'
  <2>1. /\ l \in 1..Len(lines) /\ ~lines[l].void
        /\ SameTerms(subs, subs')
        /\ \A j \in 1..Len(subs) : subs'[j].used = IF lines[l].named /\ j = lines[l].sub
                                                  THEN subs[j].used - 1 ELSE subs[j].used
        /\ Len(lines') = Len(lines)
    BY <1>0, <1>7, Voids
  <2>2. \A k \in 1..Len(lines) :
           /\ lines'[k].sub = lines[k].sub /\ lines'[k].named = lines[k].named
           /\ lines'[k].void <=> (k = l \/ lines[k].void)
    BY <1>0, <1>7, Voids
  <2>3. Len(subs') = Len(subs) /\ UNCHANGED <<pc, found, overused>>
    BY <1>7, <2>1 DEF SameTerms, M!Void, M!request
  <2>4. ASSUME NEW i \in 1..Len(subs), ~(lines[l].named /\ i = lines[l].sub)
        PROVE  subs'[i].used = Cardinality(Standing(i)') /\ subs'[i].used = subs[i].used
    <3>1. Standing(i)' = Standing(i)
      BY <2>1, <2>2, <2>4 DEF Standing
    <3>2. subs'[i].used = subs[i].used
      BY <2>1, <2>4
    <3> QED
      BY <3>1, <3>2 DEF Spending
  <2>5. ASSUME NEW i \in 1..Len(subs), lines[l].named /\ i = lines[l].sub
        PROVE  subs'[i].used = Cardinality(Standing(i)') /\ subs'[i].used = subs[i].used - 1
    <3>1. Standing(i)' = Standing(i) \ {l} /\ l \in Standing(i)
      BY <2>1, <2>2, <2>5 DEF Standing
    <3>2. Cardinality(Standing(i) \ {l}) = Cardinality(Standing(i)) - 1
      BY <1>0, <3>1, StandingFinite, FS_RemoveElement
    <3>3. subs'[i].used = subs[i].used - 1 /\ subs[i].used = Cardinality(Standing(i))
      BY <2>1, <2>5 DEF Spending
    <3> QED
      BY <3>1, <3>2, <3>3
  <2>6. ASSUME NEW i \in 1..Len(subs), i \notin overused
        PROVE  /\ subs'[i].used <= Quantity
               /\ \A d \in Desks : pc[d] = "use" /\ found[d] = i => subs'[i].used + 1 <= Quantity
    <3>1. /\ subs[i].used \in Int /\ subs[i].used <= Quantity
          /\ \A d \in Desks : pc[d] = "use" /\ found[d] = i => subs[i].used + 1 <= Quantity
      BY <1>0, <2>6 DEF Spending
    <3>2. subs'[i].used \in {subs[i].used, subs[i].used - 1}
      BY <2>4, <2>5
    <3> QED
      BY <3>1, <3>2, PlanAssumption
  <2> QED
    BY <2>3, <2>4, <2>5, <2>6 DEF Spending
<1> QED
  BY <1>1, <1>2, <1>3, <1>4, <1>5, <1>6, <1>7, <1>8, MemberCases DEF Nightly

SoldInv == MemberTyped /\ (~mixed => OneSale /\ LastEnded /\ InTurn) /\ Spending

LEMMA SoldInit == M!Init => SoldInv
<1> SUFFICES ASSUME M!Init PROVE SoldInv
  OBVIOUS
<1>0. subs = <<>> /\ lines = <<>> /\ today = 0 /\ \A c \in Desks : pc[c] = "idle"
  BY DEF M!Init
<1>1. subs \in Seq(Sold) /\ Len(subs) = 0 /\ lines \in Seq(Usage) /\ Len(lines) = 0
  BY <1>0, EmptySeq
<1>2. MemberTyped
  <2>1. SubsTyped /\ UsesTyped
    BY <1>0, <1>1 DEF SubsTyped, UsesTyped
  <2>2. AsksTyped
    <3>1. PICK p \in Plans : p = M!AnyPlan
      BY PlanChosen
    <3>2. /\ pc = [c \in Desks |-> "idle"] /\ plan = [c \in Desks |-> p] /\ mixed = FALSE
          /\ found = [c \in Desks |-> 0] /\ named = [c \in Desks |-> FALSE]
      BY <3>1 DEF M!Init
    <3>3. /\ pc \in [Desks -> {"idle", "bill", "expire", "create", "usage", "use"}]
          /\ plan \in [Desks -> Plans] /\ named \in [Desks -> BOOLEAN] /\ found \in [Desks -> Nat]
      BY <3>2
    <3>4. \A c \in Desks : found[c] \in 0..Len(subs) /\ pc[c] = "idle"
      BY <1>1, <3>2
    <3> QED
      BY <3>2, <3>3, <3>4 DEF AsksTyped
  <2> QED
    BY <2>1, <2>2 DEF MemberTyped
<1>3. M!Live = {}
  BY <1>1, <1>2, SoldFacts DEF M!Live, MemberTyped, SubsTyped
<1>4. OneSale /\ LastEnded /\ InTurn
  BY <1>0, <1>1, <1>3 DEF OneSale, LastEnded, InTurn, M!Selling
<1>5. Spending
  BY <1>1 DEF Spending
<1> QED
  BY <1>2, <1>4, <1>5 DEF SoldInv

LEMMA SoldNext == SoldInv /\ [M!Next]_M!vars => SoldInv'
<1> SUFFICES ASSUME SoldInv, [M!Next]_M!vars PROVE SoldInv'
  OBVIOUS
<1>0. MemberTyped /\ (~mixed => OneSale /\ LastEnded /\ InTurn) /\ Spending
  BY DEF SoldInv
<1>1. CASE M!Next
  <2>1. MemberTyped'
    BY <1>0, <1>1, MemberTypedKept
  <2>2. ~mixed' => OneSale' /\ LastEnded' /\ InTurn'
    BY <1>0, <1>1, <2>1, SaleKept
  <2>3. Spending'
    BY <1>0, <1>1, SpendingKept
  <2> QED
    BY <2>1, <2>2, <2>3 DEF SoldInv
<1>2. CASE UNCHANGED M!vars
  <2>1. UNCHANGED <<today, subs, lines, pc, plan, found, named, mixed, overused>>
    BY <1>2 DEF M!vars, M!rows, M!request
  <2>2. MemberTyped'
    BY <1>0, <2>1 DEF MemberTyped, SubsTyped, UsesTyped, AsksTyped
  <2>3. ~mixed' => OneSale' /\ LastEnded' /\ InTurn'
    BY <1>0, <2>1 DEF OneSale, LastEnded, InTurn, M!Live, M!Selling
  <2>4. Spending'
    BY <1>0, <2>1 DEF Spending, Standing
  <2> QED
    BY <2>2, <2>3, <2>4 DEF SoldInv
<1> QED
  BY <1>1, <1>2

LEMMA SoldHold == SoldInv => M!MembershipAddsUp
<1> SUFFICES ASSUME SoldInv PROVE M!MembershipAddsUp
  OBVIOUS
<1>0. MemberTyped /\ (~mixed => OneSale /\ LastEnded /\ InTurn) /\ Spending /\ SubsTyped /\ UsesTyped
  BY DEF SoldInv, MemberTyped
<1>1. DOMAIN subs = 1..Len(subs)
  BY <1>0, SoldFacts DEF SubsTyped
<1>2. ~mixed => M!Cardinality(M!Live) <= 1
  <2>1. ASSUME OneSale PROVE Cardinality(M!Live) <= 1
    <3>1. M!Live \subseteq {Len(subs)}
      BY <2>1 DEF OneSale
    <3>2. IsFiniteSet({Len(subs)}) /\ Cardinality({Len(subs)}) = 1
      BY FS_Singleton
    <3>3. Cardinality(M!Live) <= Cardinality({Len(subs)})
      BY <3>1, <3>2, FS_Subset
    <3> QED
      BY <3>2, <3>3
  <2> QED
    BY <1>0, <2>1 DEF M!Cardinality, Cardinality
<1>3. \A i \in DOMAIN subs :
        /\ subs[i].used = M!Spent(i)
        /\ i \notin overused => subs[i].used <= Quantity
  BY <1>0, <1>1, SpentIsStanding DEF Spending
<1>4. ~mixed => \A i \in 1..Len(subs) - 1 :
                   subs[i].plan = subs[i + 1].plan /\ subs[i].status # "CANCELLED" =>
                       subs[i].end <= subs[i + 1].start
  BY <1>0 DEF InTurn
<1> HIDE DEF M!Cardinality, M!Spent, M!Live
<1> QED
  BY <1>2, <1>3, <1>4 DEF M!MembershipAddsUp
-----------------------------------------------------------------------------
(* The bills *)

Items == {"service", "product", "session"}
Standings == {"ISSUED", "PARTIALLY_PAID", "PAID", "REFUNDED"}

IsRow(r) ==
    r = [status |-> r.status, kind |-> r.kind, number |-> r.number, line |-> r.line,
         appointment |-> r.appointment, total |-> r.total, paid |-> r.paid, due |-> r.due,
         refunded |-> r.refunded, earned |-> r.earned, redeemed |-> r.redeemed]

IsInvoice(r) ==
    /\ IsRow(r) /\ r.status \in Standings \cup {"VOID", "DELETED"}
    /\ r.kind \in Kinds /\ r.line \in Items /\ r.appointment \in BOOLEAN

IsCreation(r) ==
    /\ r = [op |-> "create", step |-> r.step, basket |-> r.basket, number |-> r.number,
            seen |-> r.seen]
    /\ r.step \in {"series", "number", "line", "points", "commit"}
    /\ r.basket \in Baskets
    /\ r.seen = [wallet |-> r.seen.wallet, visits |-> r.seen.visits, spent |-> r.seen.spent,
                 stock |-> r.seen.stock]
    /\ r.seen.stock \in Int

IsVoiding(r) ==
    /\ r = [op |-> "void", bill |-> r.bill, step |-> r.step, due |-> r.due, seen |-> r.seen]
    /\ r.step \in {"stock", "customer", "commit"}
    /\ r.seen = [stock |-> r.seen.stock, visits |-> r.seen.visits, spent |-> r.seen.spent,
                 points |-> r.seen.points]
    /\ r.seen.stock \in Int

InvoicesTyped ==
    /\ invoice = [b \in Bills |-> invoice[b]]
    /\ \A b \in Made : IsInvoice(invoice[b])

RequestTyped(d) ==
    /\ Doing(d, "create") => IsCreation(request[d])
    /\ Doing(d, "void") => IsVoiding(request[d])
    /\ Doing(d, "refund") => request[d].status \in Standings
    /\ BillHeld(d) \subseteq Made

RequestsTyped ==
    /\ request = [d \in Desks |-> request[d]]
    /\ \A d \in Desks : RequestTyped(d)

CountsTyped ==
    /\ series \in [Kinds -> Nat \cup {NoRow}] /\ issuing \in [Kinds -> Desks \cup {Nobody}]
    /\ package = [used |-> package.used, active |-> package.active] /\ package.used \in Int
    /\ stock \in Int /\ movements \in Int

BillsTyped == InvoicesTyped /\ RequestsTyped /\ CountsTyped

\* What a step does to the request of its desk, and to what it read.

OthersWait(d) ==
    /\ request' = [e \in Desks |-> request'[e]]
    /\ \A e \in Desks \ {d} : request'[e] = request[e]

Ends(d) ==
    /\ OthersWait(d) /\ request'[d] = Idle
    /\ issuing' = [k \in Kinds |-> IF issuing[k] = d THEN Nobody ELSE issuing[k]]

Still == UNCHANGED <<invoice, package, stock, movements, visit>>

Grows == crossedBills \subseteq crossedBills' /\ crossedRows \subseteq crossedRows'

\* A request that ends without a trace on what the properties are about.
Passes(d) == Ends(d) /\ Still /\ UNCHANGED series /\ Grows

\* A request is made of a bill as it is.
Starts(d) ==
    LET r == request'[d] IN
    /\ OthersWait(d) /\ Still /\ UNCHANGED <<series, issuing, crossedBills, crossedRows>>
    /\ request[d] = Idle
    /\ r.op = "create" =>
          /\ IsCreation(r) /\ r.step = "series"
          /\ Cardinality(Made) + Cardinality({e \in Desks : Doing(e, "create")}) < MaxBills
    /\ r.op = "void" => IsVoiding(r) /\ r.step = "stock"
    /\ r.op = "refund" => r.status \in Standings
    /\ r.op \notin {"create", "adjust", "rollup"} =>
          /\ r.bill \in Made
          /\ IF r.op = "delete" THEN invoice[r.bill].status = "VOID" ELSE Live(r.bill)

Keeps(row, r) ==
    /\ IsRow(row) /\ row.kind = r.kind /\ row.number = r.number /\ row.line = r.line
    /\ row.appointment = r.appointment

\* One bill is written anew, with the same number in the same series.
Rewrites(b, statuses) ==
    \E row : Keeps(row, invoice[b]) /\ row.status \in statuses /\ invoice' = [invoice EXCEPT ![b] = row]

\* Whoever else is at the bill is reported.
Meets(d, b) == \A e \in Desks \ {d} : b \in BillHeld(e) => b \in crossedBills'

LEMMA EndFacts ==
  ASSUME RequestsTyped, NEW d \in Desks, Done(d)
  PROVE  Ends(d)
BY DEF Done, Ends, OthersWait, RequestsTyped, RequestTyped

LEMMA PassSteps ==
  ASSUME RequestsTyped, NEW d \in Desks, Abandon(d) \/ CommitAdjust(d) \/ CommitRollup(d)
  PROVE  Passes(d)
<1>1. Done(d) /\ Still /\ UNCHANGED series
  BY DEF Abandon, CommitAdjust, CommitRollup, Still, data
<1>2. Grows
  BY DEF Abandon, CommitAdjust, CommitRollup, Grows, history, Crossing
<1> QED
  BY <1>1, <1>2, EndFacts DEF Passes

LEMMA BeginFacts ==
  ASSUME RequestsTyped, NEW d \in Desks, NEW r, Begin(d, r)
  PROVE  /\ OthersWait(d) /\ Still /\ UNCHANGED <<series, issuing, crossedBills, crossedRows>>
         /\ request[d] = Idle /\ request'[d] = r
BY DEF Begin, OthersWait, Still, RequestsTyped, RequestTyped, data, history

LEMMA LiveFacts ==
  ASSUME InvoicesTyped, NEW b \in Bills, Exists(b)
  PROVE  /\ b \in Made /\ IsInvoice(invoice[b])
         /\ invoice[b].status # "VOID" => Live(b) /\ invoice[b].status \in Standings
BY DEF InvoicesTyped, Made, Exists, Live, IsInvoice

LEMMA AskSteps ==
  ASSUME BillsTyped, NEW d \in Desks, Ask(d)
  PROVE  Starts(d)
<1>0. RequestsTyped /\ InvoicesTyped /\ stock \in Int
  BY DEF BillsTyped, CountsTyped
<1>1. ASSUME NEW basket \in Baskets, AskCreate(d, basket)
      PROVE  Starts(d)
  <2> DEFINE w == IF basket.wallet > 0 THEN customer.wallet ELSE 0
             looked == [wallet |-> w, visits |-> customer.visits, spent |-> customer.spent, stock |-> 0]
             r == [op |-> "create", step |-> "series", basket |-> basket, number |-> 0, seen |-> looked]
  <2>1. /\ Begin(d, r)
        /\ Cardinality(Made) + Cardinality({e \in Desks : Doing(e, "create")}) < MaxBills
    BY <1>1 DEF AskCreate
  <2>2. IsCreation(r)
    BY DEF IsCreation
  <2>3. r.op = "create" /\ r.step = "series"
    OBVIOUS
  <2> HIDE DEF r
  <2> QED
    BY <1>0, <2>1, <2>2, <2>3, BeginFacts DEF Starts
<1>2. ASSUME NEW b \in Bills, NEW n \in 1..Price, AskPay(d, b, n)
      PROVE  Starts(d)
  <2> DEFINE r == [op |-> "pay", bill |-> b, amount |-> n, paid |-> invoice[b].paid]
  <2>1. Begin(d, r) /\ Exists(b) /\ invoice[b].status # "VOID"
    BY <1>2 DEF AskPay
  <2>2. r.op = "pay" /\ r.bill = b
    OBVIOUS
  <2> HIDE DEF r
  <2> QED
    BY <1>0, <2>1, <2>2, BeginFacts, LiveFacts DEF Starts
<1>3. ASSUME NEW b \in Bills, NEW n \in 1..Price, NEW toWallet \in BOOLEAN, AskRefund(d, b, n, toWallet)
      PROVE  Starts(d)
  <2> DEFINE r == [op |-> "refund", bill |-> b, amount |-> n, toWallet |-> toWallet,
                   refunded |-> invoice[b].refunded, status |-> invoice[b].status]
  <2>1. Begin(d, r) /\ Exists(b) /\ invoice[b].status # "VOID"
    BY <1>3 DEF AskRefund
  <2>2. r.op = "refund" /\ r.bill = b /\ r.status = invoice[b].status
    OBVIOUS
  <2> HIDE DEF r
  <2> QED
    BY <1>0, <2>1, <2>2, BeginFacts, LiveFacts DEF Starts
<1>4. ASSUME NEW b \in Bills, NEW i \in DOMAIN payments[b], AskUnpay(d, b, i)
      PROVE  Starts(d)
  <2> DEFINE r == [op |-> "unpay", bill |-> b, index |-> i, paid |-> invoice[b].paid]
  <2>1. Begin(d, r) /\ Exists(b) /\ invoice[b].status # "VOID"
    BY <1>4 DEF AskUnpay
  <2>2. r.op = "unpay" /\ r.bill = b
    OBVIOUS
  <2> HIDE DEF r
  <2> QED
    BY <1>0, <2>1, <2>2, BeginFacts, LiveFacts DEF Starts
<1>5. ASSUME NEW b \in Bills, AskVoid(d, b)
      PROVE  Starts(d)
  <2> DEFINE looked == [stock |-> 0, visits |-> 0, spent |-> 0, points |-> 0]
             r == [op |-> "void", bill |-> b, step |-> "stock", due |-> invoice[b].due, seen |-> looked]
  <2>1. Begin(d, r) /\ Exists(b) /\ invoice[b].status # "VOID"
    BY <1>5 DEF AskVoid
  <2>2. r.op = "void" /\ r.bill = b /\ r.step = "stock"
    OBVIOUS
  <2>3. IsVoiding(r)
    BY DEF IsVoiding
  <2> HIDE DEF r
  <2> QED
    BY <1>0, <2>1, <2>2, <2>3, BeginFacts, LiveFacts DEF Starts
<1>6. ASSUME NEW b \in Bills, AskDelete(d, b)
      PROVE  Starts(d)
  <2> DEFINE r == [op |-> "delete", bill |-> b]
  <2>1. Begin(d, r) /\ Exists(b) /\ invoice[b].status = "VOID"
    BY <1>6 DEF AskDelete
  <2>2. r.op = "delete" /\ r.bill = b
    OBVIOUS
  <2> HIDE DEF r
  <2> QED
    BY <1>0, <2>1, <2>2, BeginFacts, LiveFacts DEF Starts
<1>7. ASSUME NEW n \in {-1, 1}, AskAdjust(d, n)
      PROVE  Starts(d)
  <2> DEFINE r == [op |-> "adjust", amount |-> n, balance |-> customer.points + n]
  <2>1. Begin(d, r)
    BY <1>7 DEF AskAdjust
  <2>2. r.op = "adjust"
    OBVIOUS
  <2> HIDE DEF r
  <2> QED
    BY <1>0, <2>1, <2>2, BeginFacts DEF Starts
<1>8. ASSUME AskRollup(d)
      PROVE  Starts(d)
  <2>1. PICK x, y, z : Begin(d, [op |-> "rollup", visits |-> x, spent |-> y, outstanding |-> z])
    BY <1>8 DEF AskRollup
  <2> DEFINE r == [op |-> "rollup", visits |-> x, spent |-> y, outstanding |-> z]
  <2>2. Begin(d, r) /\ r.op = "rollup"
    BY <2>1
  <2> HIDE DEF r
  <2> QED
    BY <1>0, <2>2, BeginFacts DEF Starts
<1> QED
  BY <1>1, <1>2, <1>3, <1>4, <1>5, <1>6, <1>7, <1>8 DEF Ask

\* A bill on its way to its commit.
Proceeds(d, from, to) ==
    /\ OthersWait(d) /\ Still /\ UNCHANGED <<crossedBills, crossedRows>>
    /\ Doing(d, "create") /\ IsCreation(request[d]) /\ IsCreation(request'[d])
    /\ request[d].step = from /\ request'[d].step = to
    /\ request'[d].basket = request[d].basket

\* A void on its way to its commit.
Reverses(d, from, to) ==
    /\ OthersWait(d) /\ Still /\ UNCHANGED <<series, issuing, crossedBills, crossedRows>>
    /\ Doing(d, "void") /\ IsVoiding(request[d]) /\ IsVoiding(request'[d])
    /\ request[d].step = from /\ request'[d].step = to
    /\ request'[d].bill = request[d].bill

LEMMA CreationFields ==
  ASSUME NEW r, IsCreation(r)
  PROVE  \E a, b, c, w, v, m, x :
            /\ r = [op |-> "create", step |-> a, basket |-> b, number |-> c,
                    seen |-> [wallet |-> w, visits |-> v, spent |-> m, stock |-> x]]
            /\ b \in Baskets /\ x \in Int
BY DEF IsCreation

LEMMA CreationBuilt ==
  ASSUME NEW a \in {"series", "number", "line", "points", "commit"}, NEW b \in Baskets, NEW c,
         NEW w, NEW v, NEW m, NEW x \in Int, NEW s,
         s = [op |-> "create", step |-> a, basket |-> b, number |-> c,
              seen |-> [wallet |-> w, visits |-> v, spent |-> m, stock |-> x]]
  PROVE  IsCreation(s) /\ s.step = a /\ s.basket = b /\ s.number = c /\ s.seen.stock = x
BY DEF IsCreation

LEMMA VoidingFields ==
  ASSUME NEW r, IsVoiding(r)
  PROVE  \E a, b, c, v, m, p, x :
            /\ r = [op |-> "void", bill |-> b, step |-> a, due |-> c,
                    seen |-> [stock |-> x, visits |-> v, spent |-> m, points |-> p]]
            /\ x \in Int
BY DEF IsVoiding

LEMMA VoidingBuilt ==
  ASSUME NEW a \in {"stock", "customer", "commit"}, NEW b, NEW c,
         NEW p, NEW v, NEW m, NEW x \in Int, NEW s,
         s = [op |-> "void", bill |-> b, step |-> a, due |-> c,
              seen |-> [stock |-> x, visits |-> v, spent |-> m, points |-> p]]
  PROVE  IsVoiding(s) /\ s.step = a /\ s.bill = b /\ s.seen.stock = x
BY DEF IsVoiding

LEMMA EnsureSeriesFacts ==
  ASSUME BillsTyped, NEW d \in Desks, EnsureSeries(d)
  PROVE  /\ Proceeds(d, "series", "number") /\ UNCHANGED issuing
         /\ LET k == request[d].basket.kind IN
              series' = [series EXCEPT ![k] = IF @ = NoRow THEN 0 ELSE @]
<1>1. Doing(d, "create") /\ IsCreation(request[d]) /\ request[d].step = "series"
  BY DEF EnsureSeries, At, BillsTyped, RequestsTyped, RequestTyped
<1>2. /\ OthersWait(d) /\ Still /\ UNCHANGED <<crossedBills, crossedRows, issuing>>
      /\ request'[d] = [request[d] EXCEPT !.step = "number"]
      /\ series' = [series EXCEPT ![request[d].basket.kind] = IF @ = NoRow THEN 0 ELSE @]
  BY DEF EnsureSeries, Goto, OthersWait, Still, data, history, BillsTyped, RequestsTyped, RequestTyped
<1> DEFINE r == request[d]
<1>7. IsCreation(r)
  BY <1>1
<1> HIDE DEF r
<1>8. PICK a, b, c, w, v, m, y :
            /\ r = [op |-> "create", step |-> a, basket |-> b, number |-> c,
                    seen |-> [wallet |-> w, visits |-> v, spent |-> m, stock |-> y]]
            /\ b \in Baskets /\ y \in Int
  BY <1>7, CreationFields
<1>3. /\ request[d] = [op |-> "create", step |-> a, basket |-> b, number |-> c,
                       seen |-> [wallet |-> w, visits |-> v, spent |-> m, stock |-> y]]
      /\ b \in Baskets /\ y \in Int
  BY <1>8 DEF r
<1>4. request'[d] = [op |-> "create", step |-> "number", basket |-> b, number |-> c,
                     seen |-> [wallet |-> w, visits |-> v, spent |-> m, stock |-> y]]
  BY <1>2, <1>3
<1>5. IsCreation(request'[d]) /\ request'[d].step = "number" /\ request'[d].basket = b
  BY <1>3, <1>4, CreationBuilt
<1>6. request[d].basket = b
  BY <1>3
<1> QED
  BY <1>1, <1>2, <1>5, <1>6 DEF Proceeds

LEMMA IssueNumberFacts ==
  ASSUME BillsTyped, NEW d \in Desks, IssueNumber(d)
  PROVE  LET k == request[d].basket.kind IN
         /\ Proceeds(d, "number", "line") /\ UNCHANGED series
         /\ issuing[k] = Nobody /\ issuing' = [issuing EXCEPT ![k] = d]
         /\ request'[d].number = series[k] + 1
<1> DEFINE k == request[d].basket.kind
           r == request[d]
           n == series[k] + 1
<1>1. Doing(d, "create") /\ IsCreation(r) /\ r.step = "number"
  BY DEF IssueNumber, At, BillsTyped, RequestsTyped, RequestTyped
<1>2. /\ OthersWait(d) /\ Still /\ UNCHANGED <<crossedBills, crossedRows, series>>
      /\ issuing[k] = Nobody /\ issuing' = [issuing EXCEPT ![k] = d]
  BY DEF IssueNumber, OthersWait, Still, data, history, BillsTyped, RequestsTyped, RequestTyped
<1>3. request'[d] = [r EXCEPT !.number = n, !.step = "line"]
  BY DEF IssueNumber, BillsTyped, RequestsTyped, RequestTyped
<1>4. /\ IsCreation(request'[d]) /\ request'[d].step = "line" /\ request'[d].basket = r.basket
      /\ request'[d].number = n
  <2> HIDE DEF n, r
  <2>1. PICK a, b, c, w, v, m, y :
            /\ r = [op |-> "create", step |-> a, basket |-> b, number |-> c,
                    seen |-> [wallet |-> w, visits |-> v, spent |-> m, stock |-> y]]
            /\ b \in Baskets /\ y \in Int
    BY <1>1, CreationFields
  <2>2. request'[d] = [op |-> "create", step |-> "line", basket |-> b, number |-> n,
                       seen |-> [wallet |-> w, visits |-> v, spent |-> m, stock |-> y]]
    BY <1>3, <2>1
  <2>3. r.basket = b
    BY <2>1
  <2> QED
    BY <2>1, <2>2, <2>3, CreationBuilt
<1> QED
  BY <1>1, <1>2, <1>4 DEF Proceeds

LEMMA ReadLineFacts ==
  ASSUME BillsTyped, NEW d \in Desks, ReadLine(d)
  PROVE  /\ Proceeds(d, "line", "points") /\ UNCHANGED <<series, issuing>>
         /\ request'[d].number = request[d].number
         /\ request[d].basket.line = "session" => package.used + 1 =< Sessions
         /\ request[d].basket.line = "product" => request'[d].seen.stock = stock
<1> DEFINE r == request[d]
           x == IF r.basket.line = "product" THEN stock ELSE 0
<1>1. Doing(d, "create") /\ IsCreation(r) /\ r.step = "line"
  BY DEF ReadLine, At, BillsTyped, RequestsTyped, RequestTyped
<1>2. /\ OthersWait(d) /\ Still /\ UNCHANGED <<crossedBills, crossedRows, series, issuing>>
      /\ r.basket.line = "session" => package.used + 1 =< Sessions
  BY DEF ReadLine, OthersWait, Still, data, history, BillsTyped, RequestsTyped, RequestTyped
<1>3. request'[d] = [r EXCEPT !.step = "points", !.seen.stock = x]
  BY DEF ReadLine, BillsTyped, RequestsTyped, RequestTyped
<1>4. x \in Int
  BY DEF BillsTyped, CountsTyped
<1>5. /\ IsCreation(request'[d]) /\ request'[d].step = "points"
      /\ request'[d].basket = r.basket /\ request'[d].number = r.number
      /\ request'[d].seen.stock = x
  <2> HIDE DEF x, r
  <2>1. PICK a, b, c, w, v, m, y :
            /\ r = [op |-> "create", step |-> a, basket |-> b, number |-> c,
                    seen |-> [wallet |-> w, visits |-> v, spent |-> m, stock |-> y]]
            /\ b \in Baskets /\ y \in Int
    BY <1>1, CreationFields
  <2>2. request'[d] = [op |-> "create", step |-> "points", basket |-> b, number |-> c,
                       seen |-> [wallet |-> w, visits |-> v, spent |-> m, stock |-> x]]
    BY <1>3, <2>1
  <2>3. r.basket = b /\ r.number = c
    BY <2>1
  <2> QED
    BY <1>4, <2>1, <2>2, <2>3, CreationBuilt
<1> QED
  BY <1>1, <1>2, <1>5 DEF Proceeds

LEMMA ReadPointsFacts ==
  ASSUME BillsTyped, NEW d \in Desks, ReadPoints(d)
  PROVE  /\ Proceeds(d, "points", "commit") /\ UNCHANGED <<series, issuing>>
         /\ request'[d].number = request[d].number
         /\ request'[d].seen.stock = request[d].seen.stock
<1>1. Doing(d, "create") /\ IsCreation(request[d]) /\ request[d].step = "points"
  BY DEF ReadPoints, At, BillsTyped, RequestsTyped, RequestTyped
<1>2. /\ OthersWait(d) /\ Still /\ UNCHANGED <<crossedBills, crossedRows, series, issuing>>
      /\ request'[d] = [request[d] EXCEPT !.step = "commit"]
  BY DEF ReadPoints, Goto, OthersWait, Still, data, history, BillsTyped, RequestsTyped, RequestTyped
<1> DEFINE r == request[d]
<1>7. IsCreation(r)
  BY <1>1
<1> HIDE DEF r
<1>8. PICK a, b, c, w, v, m, y :
            /\ r = [op |-> "create", step |-> a, basket |-> b, number |-> c,
                    seen |-> [wallet |-> w, visits |-> v, spent |-> m, stock |-> y]]
            /\ b \in Baskets /\ y \in Int
  BY <1>7, CreationFields
<1>3. /\ request[d] = [op |-> "create", step |-> a, basket |-> b, number |-> c,
                       seen |-> [wallet |-> w, visits |-> v, spent |-> m, stock |-> y]]
      /\ b \in Baskets /\ y \in Int
  BY <1>8 DEF r
<1>4. request'[d] = [op |-> "create", step |-> "commit", basket |-> b, number |-> c,
                     seen |-> [wallet |-> w, visits |-> v, spent |-> m, stock |-> y]]
  BY <1>2, <1>3
<1>5. /\ IsCreation(request'[d]) /\ request'[d].step = "commit" /\ request'[d].basket = b
      /\ request'[d].number = c /\ request'[d].seen.stock = y
  BY <1>3, <1>4, CreationBuilt
<1>6. request[d].basket = b /\ request[d].number = c /\ request[d].seen.stock = y
  BY <1>3
<1> QED
  BY <1>1, <1>2, <1>5, <1>6 DEF Proceeds

LEMMA ReadStockFacts ==
  ASSUME BillsTyped, NEW d \in Desks, ReadStockToReverse(d)
  PROVE  /\ Reverses(d, "stock", "customer")
         /\ invoice[request[d].bill].line = "product" => request'[d].seen.stock = stock
<1> DEFINE r == request[d]
           x == IF invoice[r.bill].line = "product" THEN stock ELSE 0
<1>1. Doing(d, "void") /\ IsVoiding(r) /\ r.step = "stock"
  BY DEF ReadStockToReverse, At, BillsTyped, RequestsTyped, RequestTyped
<1>2. /\ OthersWait(d) /\ Still /\ UNCHANGED <<crossedBills, crossedRows, series, issuing>>
  BY DEF ReadStockToReverse, OthersWait, Still, data, history, BillsTyped, RequestsTyped, RequestTyped
<1>3. request'[d] = [r EXCEPT !.step = "customer", !.seen.stock = x]
  BY DEF ReadStockToReverse, BillsTyped, RequestsTyped, RequestTyped
<1>4. x \in Int
  BY DEF BillsTyped, CountsTyped
<1>5. /\ IsVoiding(request'[d]) /\ request'[d].step = "customer"
      /\ request'[d].bill = r.bill /\ request'[d].seen.stock = x
  <2> HIDE DEF x, r
  <2>1. PICK a, b, c, v, m, p, y :
            r = [op |-> "void", bill |-> b, step |-> a, due |-> c,
                 seen |-> [stock |-> y, visits |-> v, spent |-> m, points |-> p]]
    BY <1>1, VoidingFields
  <2>2. request'[d] = [op |-> "void", bill |-> b, step |-> "customer", due |-> c,
                       seen |-> [stock |-> x, visits |-> v, spent |-> m, points |-> p]]
    BY <1>3, <2>1
  <2>3. r.bill = b
    BY <2>1
  <2> QED
    BY <1>4, <2>2, <2>3, VoidingBuilt
<1> QED
  BY <1>1, <1>2, <1>5 DEF Reverses

LEMMA ReadCustomerFacts ==
  ASSUME BillsTyped, NEW d \in Desks, ReadCustomer(d)
  PROVE  /\ Reverses(d, "customer", "commit")
         /\ request'[d].seen.stock = request[d].seen.stock
<1> DEFINE r == request[d]
<1>1. Doing(d, "void") /\ IsVoiding(r) /\ r.step = "customer"
  BY DEF ReadCustomer, At, BillsTyped, RequestsTyped, RequestTyped
<1>2. /\ OthersWait(d) /\ Still /\ UNCHANGED <<crossedBills, crossedRows, series, issuing>>
  BY DEF ReadCustomer, OthersWait, Still, data, history, BillsTyped, RequestsTyped, RequestTyped
<1> DEFINE looked == [r.seen EXCEPT !.visits = customer.visits, !.spent = customer.spent,
                                 !.points = customer.points]
<1>3. request'[d] = [r EXCEPT !.step = "commit", !.seen = looked]
  BY DEF ReadCustomer, BillsTyped, RequestsTyped, RequestTyped
<1>4. /\ IsVoiding(request'[d]) /\ request'[d].step = "commit"
      /\ request'[d].bill = r.bill /\ request'[d].seen.stock = r.seen.stock
  <2> HIDE DEF r
  <2>1. PICK a, b, c, v, m, p, y :
            /\ r = [op |-> "void", bill |-> b, step |-> a, due |-> c,
                    seen |-> [stock |-> y, visits |-> v, spent |-> m, points |-> p]]
            /\ y \in Int
    BY <1>1, VoidingFields
  <2>4. looked = [stock |-> y, visits |-> customer.visits, spent |-> customer.spent,
                points |-> customer.points]
    <3>1. PICK q, e, f, g :
              q = r.seen /\ e = customer.visits /\ f = customer.spent /\ g = customer.points
      OBVIOUS
    <3>2. q = [stock |-> y, visits |-> v, spent |-> m, points |-> p]
      BY <2>1, <3>1
    <3>3. [q EXCEPT !.visits = e, !.spent = f, !.points = g]
            = [stock |-> y, visits |-> e, spent |-> f, points |-> g]
      <4> DEFINE h == [q EXCEPT !.visits = e]
                 i == [h EXCEPT !.spent = f]
                 j == [i EXCEPT !.points = g]
      <4>1. h = [stock |-> y, visits |-> e, spent |-> m, points |-> p]
        BY <3>2
      <4>2. [q EXCEPT !.visits = e, !.spent = f, !.points = g] = j
        OBVIOUS
      <4> HIDE DEF h
      <4>3. i = [stock |-> y, visits |-> e, spent |-> f, points |-> p]
        BY <4>1
      <4> HIDE DEF i
      <4>4. j = [stock |-> y, visits |-> e, spent |-> f, points |-> g]
        BY <4>3
      <4> QED
        BY <4>2, <4>4
    <3> QED
      BY <3>1, <3>3
  <2> HIDE DEF looked
  <2>2. request'[d] = [op |-> "void", bill |-> b, step |-> "commit", due |-> c,
                       seen |-> [stock |-> y, visits |-> customer.visits, spent |-> customer.spent,
                                 points |-> customer.points]]
    BY <1>3, <2>1, <2>4
  <2>3. r.bill = b /\ r.seen.stock = y
    BY <2>1
  <2> QED
    BY <2>1, <2>2, <2>3, VoidingBuilt
<1> QED
  BY <1>1, <1>2, <1>4 DEF Reverses

LEMMA StatusSet ==
  ASSUME NEW r, IsRow(r), NEW z
  PROVE  LET s == [r EXCEPT !.status = z] IN Keeps(s, r) /\ s.status = z
BY DEF IsRow, Keeps

LEMMA PaidSet ==
  ASSUME NEW r, IsRow(r), NEW x
  PROVE  Keeps([r EXCEPT !.paid = x], r)
BY DEF IsRow, Keeps

LEMMA RefundedSet ==
  ASSUME NEW r, IsRow(r), NEW x
  PROVE  Keeps([r EXCEPT !.refunded = x], r)
BY DEF IsRow, Keeps

LEMMA DueSet ==
  ASSUME NEW r, IsRow(r), NEW y
  PROVE  LET s == [r EXCEPT !.due = y] IN Keeps(s, r) /\ s.status = r.status
BY DEF IsRow, Keeps

Settled(r, x, y, z) == [r EXCEPT !.paid = x, !.due = y, !.status = z]

LEMMA RowSettled ==
  ASSUME NEW r, IsRow(r), NEW x, NEW y, NEW z
  PROVE  Keeps(Settled(r, x, y, z), r) /\ Settled(r, x, y, z).status = z
<1> DEFINE a == [r EXCEPT !.paid = x]
           b == [a EXCEPT !.due = y]
           c == [b EXCEPT !.status = z]
<1>1. Settled(r, x, y, z) = c
  BY DEF Settled
<1>2. Keeps(a, r)
  BY PaidSet
<1> HIDE DEF a
<1>3. Keeps(b, a)
  BY <1>2, DueSet DEF Keeps
<1> HIDE DEF b
<1>4. Keeps(c, b) /\ c.status = z
  BY <1>3, StatusSet DEF Keeps
<1> HIDE DEF c
<1> QED
  BY <1>1, <1>2, <1>3, <1>4 DEF Keeps

LEMMA RowRefunded ==
  ASSUME NEW r, IsRow(r), NEW x, NEW z
  PROVE  LET s == [r EXCEPT !.refunded = x, !.status = z] IN Keeps(s, r) /\ s.status = z
<1> DEFINE a == [r EXCEPT !.refunded = x]
           b == [a EXCEPT !.status = z]
<1>1. [r EXCEPT !.refunded = x, !.status = z] = b
  OBVIOUS
<1>2. Keeps(a, r)
  BY RefundedSet
<1> HIDE DEF a
<1>3. Keeps(b, a) /\ b.status = z
  BY <1>2, StatusSet DEF Keeps
<1> HIDE DEF b
<1> QED
  BY <1>1, <1>2, <1>3 DEF Keeps

LEMMA RowVoided ==
  ASSUME NEW r, IsRow(r), NEW y, NEW z
  PROVE  LET s == [r EXCEPT !.status = z, !.due = y] IN Keeps(s, r) /\ s.status = z
<1> DEFINE a == [r EXCEPT !.status = z]
           b == [a EXCEPT !.due = y]
<1>1. [r EXCEPT !.status = z, !.due = y] = b
  OBVIOUS
<1>2. Keeps(a, r) /\ a.status = z
  BY StatusSet
<1> HIDE DEF a
<1>3. Keeps(b, a) /\ b.status = a.status
  BY <1>2, DueSet DEF Keeps
<1> HIDE DEF b
<1> QED
  BY <1>1, <1>2, <1>3 DEF Keeps

\* What the commits do.

LEMMA SettleFacts ==
  ASSUME BillsTyped, NEW b \in Made, NEW n, Settle(b, n)
  PROVE  Rewrites(b, Standings)
<1> DEFINE due == AtLeastZero(invoice[b].total - n)
           standing == StatusFor(n, due)
           row == Settled(invoice[b], n, due, standing)
<1>1. invoice' = [invoice EXCEPT ![b] = row]
  BY DEF Settle, Settled
<1>2. standing \in Standings
  BY DEF StatusFor, Standings
<1>3. IsRow(invoice[b])
  BY DEF BillsTyped, InvoicesTyped, IsInvoice
<1>4. Keeps(row, invoice[b]) /\ row.status = standing
  <2> HIDE DEF due, standing
  <2> QED
    BY <1>3, RowSettled
<1> HIDE DEF row
<1> QED
  BY <1>1, <1>2, <1>4 DEF Rewrites

\* A payment, a removal, a refund and a deletion touch their bill and nothing else.
LEMMA SettlingFacts ==
  ASSUME BillsTyped, NEW d \in Desks, CommitPay(d) \/ CommitUnpay(d) \/ CommitRefund(d)
  PROVE  LET b == request[d].bill IN
         /\ b \in BillHeld(d) /\ Exists(b) /\ Ends(d) /\ Grows /\ Meets(d, b)
         /\ UNCHANGED <<series, package, stock, movements, visit>>
         /\ request[d].op # "delete" /\ Rewrites(b, Standings)
<1> DEFINE b == request[d].bill
<1>1. /\ b \in BillHeld(d) /\ Exists(b) /\ request[d].op # "delete"
  BY DEF CommitPay, CommitUnpay, CommitRefund, BillHeld, Doing
<1>2. b \in Made
  BY <1>1 DEF BillsTyped, RequestsTyped, RequestTyped
<1>3. Ends(d)
  BY EndFacts DEF CommitPay, CommitUnpay, CommitRefund, BillsTyped
<1>4. Grows /\ Meets(d, b)
  BY DEF CommitPay, CommitUnpay, CommitRefund, Crossing, Grows, Meets
<1>5. UNCHANGED <<series, package, stock, movements, visit>>
  BY DEF CommitPay, CommitUnpay, CommitRefund
<1>6. Rewrites(b, Standings)
  <2>1. CASE CommitPay(d) \/ CommitUnpay(d)
    <3>1. \E n : Settle(b, n)
      BY <2>1 DEF CommitPay, CommitUnpay
    <3> QED
      BY <1>2, <3>1, SettleFacts
  <2>2. CASE CommitRefund(d)
    <3> DEFINE n == request[d].refunded + request[d].amount
               standing == IF n >= invoice[b].total THEN "REFUNDED" ELSE request[d].status
               row == [invoice[b] EXCEPT !.refunded = n, !.status = standing]
    <3>1. invoice' = [invoice EXCEPT ![b] = row]
      BY <2>2 DEF CommitRefund
    <3>2. standing \in Standings
      BY <2>2 DEF CommitRefund, BillsTyped, RequestsTyped, RequestTyped, Standings
    <3>3. Keeps(row, invoice[b]) /\ row.status = standing
      <4> HIDE DEF n, standing, b
      <4>1. PICK r, x, z : r = invoice[b] /\ x = n /\ z = standing
        OBVIOUS
      <4>2. IsRow(r)
        BY <1>2, <4>1 DEF BillsTyped, InvoicesTyped, IsInvoice
      <4>3. LET s == [r EXCEPT !.refunded = x, !.status = z] IN Keeps(s, r) /\ s.status = z
        BY <4>2, RowRefunded
      <4> QED
        BY <4>1, <4>3
    <3> HIDE DEF row
    <3> QED
      BY <3>1, <3>2, <3>3 DEF Rewrites
  <2> QED
    BY <2>1, <2>2
<1> QED
  BY <1>1, <1>3, <1>4, <1>5, <1>6

LEMMA DeleteFacts ==
  ASSUME BillsTyped, NEW d \in Desks, CommitDelete(d)
  PROVE  LET b == request[d].bill IN
         /\ b \in BillHeld(d) /\ Exists(b) /\ Ends(d) /\ Grows /\ Meets(d, b)
         /\ UNCHANGED <<series, package, stock, movements, visit>>
         /\ request[d].op = "delete" /\ Rewrites(b, {"DELETED"})
<1> DEFINE b == request[d].bill
           row == [invoice[b] EXCEPT !.status = "DELETED"]
<1>1. /\ b \in BillHeld(d) /\ Exists(b) /\ request[d].op = "delete"
  BY DEF CommitDelete, BillHeld, Doing
<1>2. b \in Made
  BY <1>1 DEF BillsTyped, RequestsTyped, RequestTyped
<1>3. Ends(d)
  BY EndFacts DEF CommitDelete, BillsTyped
<1>4. Grows /\ Meets(d, b)
  BY DEF CommitDelete, Crossing, Grows, Meets
<1>5. UNCHANGED <<series, package, stock, movements, visit>>
  BY DEF CommitDelete
<1>6. invoice' = [invoice EXCEPT ![b] = row]
  BY DEF CommitDelete
<1>7. Keeps(row, invoice[b]) /\ row.status = "DELETED"
  <2>1. PICK r : r = invoice[b]
    OBVIOUS
  <2>2. IsRow(r)
    BY <1>2, <2>1 DEF BillsTyped, InvoicesTyped, IsInvoice
  <2>3. LET s == [r EXCEPT !.status = "DELETED"] IN Keeps(s, r) /\ s.status = "DELETED"
    BY <2>2, StatusSet
  <2> QED
    BY <2>1, <2>3
<1>8. Rewrites(b, {"DELETED"})
  <2> HIDE DEF row
  <2> QED
    BY <1>6, <1>7 DEF Rewrites
<1> QED
  BY <1>1, <1>3, <1>4, <1>5, <1>8

LEMMA VoidFacts ==
  ASSUME BillsTyped, NEW d \in Desks, CommitVoid(d)
  PROVE  LET b == request[d].bill
             item == invoice[b].line
         IN
         /\ b \in BillHeld(d) /\ Exists(b) /\ Ends(d) /\ Grows /\ Meets(d, b)
         /\ At(d, "void", "commit") /\ UNCHANGED series /\ Rewrites(b, {"VOID"})
         /\ ReopenVisit(invoice[b].appointment)
         /\ package' = [used |-> package.used - (IF item = "session" THEN 1 ELSE 0),
                        active |-> package.active]
         /\ stock' = (IF item = "product" THEN request[d].seen.stock + 1 ELSE stock)
         /\ movements' = (IF item = "product" THEN movements + 1 ELSE movements)
         /\ item = "product" => \A e \in Desks \ {d} :
                "product" \in RowsHeld(e) => "product" \in crossedRows'
<1> DEFINE b == request[d].bill
           row == [invoice[b] EXCEPT !.status = "VOID", !.due = 0]
           item == invoice[b].line
<1>1. At(d, "void", "commit") /\ b \in BillHeld(d) /\ Exists(b)
  BY DEF CommitVoid, BillHeld, Doing, At
<1>2. b \in Made
  BY <1>1 DEF BillsTyped, RequestsTyped, RequestTyped
<1>3. Ends(d)
  BY EndFacts DEF CommitVoid, BillsTyped
<1>4. Grows /\ Meets(d, b)
  BY DEF CommitVoid, Crossing, Grows, Meets
<1>5. /\ UNCHANGED series
      /\ ReopenVisit(invoice[b].appointment)
      /\ stock' = (IF item = "product" THEN request[d].seen.stock + 1 ELSE stock)
      /\ movements' = (IF item = "product" THEN movements + 1 ELSE movements)
  BY DEF CommitVoid, MoveStock
<1>6. package' = [used |-> package.used - (IF item = "session" THEN 1 ELSE 0),
                  active |-> package.active]
  BY DEF CommitVoid, GiveBackSession, BillsTyped, CountsTyped
<1>7. item = "product" => \A e \in Desks \ {d} :
         "product" \in RowsHeld(e) => "product" \in crossedRows'
  BY <1>1 DEF CommitVoid, Crossing, RowOf, SameSeries, At, Doing
<1>8. invoice' = [invoice EXCEPT ![b] = row]
  BY DEF CommitVoid
<1>9. Keeps(row, invoice[b]) /\ row.status = "VOID"
  <2>1. PICK r : r = invoice[b]
    OBVIOUS
  <2>2. IsRow(r)
    BY <1>2, <2>1 DEF BillsTyped, InvoicesTyped, IsInvoice
  <2>3. LET s == [r EXCEPT !.status = "VOID", !.due = 0] IN Keeps(s, r) /\ s.status = "VOID"
    BY <2>2, RowVoided
  <2> QED
    BY <2>1, <2>3
<1>10. Rewrites(b, {"VOID"})
  <2> HIDE DEF row
  <2> QED
    BY <1>8, <1>9 DEF Rewrites
<1> QED
  BY <1>1, <1>3, <1>4, <1>5, <1>6, <1>7, <1>10

\* A new bill is of the basket, and has the number its request holds.
New(row, r) ==
    /\ IsRow(row) /\ row.status \in {"PAID", "PARTIALLY_PAID", "ISSUED"}
    /\ row.kind = r.basket.kind /\ row.number = r.number /\ row.line = r.basket.line
    /\ row.appointment = r.basket.appointment

LEMMA NewRow ==
  ASSUME NEW r, NEW s \in {"PAID", "PARTIALLY_PAID", "ISSUED"}, NEW t, NEW p, NEW u, NEW e, NEW x,
         NEW k, k = r.basket.kind, NEW n, n = r.number, NEW i, i = r.basket.line,
         NEW a, a = r.basket.appointment
  PROVE  New([status |-> s, kind |-> k, number |-> n, line |-> i, appointment |-> a, total |-> t,
              paid |-> p, due |-> u, refunded |-> 0, earned |-> e, redeemed |-> x], r)
BY DEF New, IsRow

LEMMA CreateFacts ==
  ASSUME BillsTyped, NEW d \in Desks, CommitCreate(d)
  PROVE  LET r == request[d]
             item == r.basket.line
             k == r.basket.kind
             b == Cardinality(Made) + 1
         IN
         /\ At(d, "create", "commit") /\ Ends(d) /\ Grows /\ UNCHANGED crossedBills
         /\ \E row : New(row, r) /\ invoice' = [invoice EXCEPT ![b] = row]
         /\ series' = [series EXCEPT ![k] = r.number]
         /\ package' = [used |-> package.used + (IF item = "session" THEN 1 ELSE 0),
                        active |-> package'.active]
         /\ stock' = (IF item = "product" THEN r.seen.stock - 1 ELSE stock)
         /\ movements' = (IF item = "product" THEN movements - 1 ELSE movements)
         /\ CompleteVisit(r.basket.appointment)
         /\ r.basket.appointment => ~Billed
         /\ \A e \in Desks \ {d} : \A x \in {"session", "product"} :
               item = x /\ x \in RowsHeld(e) => x \in crossedRows' \/ SameSeries(d, e)
<1> DEFINE r == request[d]
           item == r.basket.line
           k == r.basket.kind
           b == Cardinality(Made) + 1
           total == Total(item)
           points == PointsValue(r.basket.points, total)
           wallet == FromWallet(r, total - points)
           given == r.basket.payments \o <<points, wallet>>
           money == SumOf(given)
           due == AtLeastZero(total - money)
           earned == PointsEarned(total)
           row == [status |-> StatusFor(money, due), kind |-> k, number |-> r.number,
                   line |-> item, appointment |-> r.basket.appointment, total |-> total,
                   paid |-> Least(money, total), due |-> due, refunded |-> 0,
                   earned |-> earned, redeemed |-> points]
<1>1. At(d, "create", "commit")
  BY DEF CommitCreate
<1>2. Ends(d)
  BY EndFacts DEF CommitCreate, BillsTyped
<1>3. /\ series' = [series EXCEPT ![k] = r.number]
      /\ stock' = (IF item = "product" THEN r.seen.stock - 1 ELSE stock)
      /\ movements' = (IF item = "product" THEN movements - 1 ELSE movements)
      /\ CompleteVisit(r.basket.appointment)
      /\ r.basket.appointment => ~Billed
  <2>1. /\ IF item = "product" THEN MoveStock(r.seen.stock, -1) ELSE UNCHANGED <<stock, movements>>
        /\ series' = [series EXCEPT ![k] = r.number]
        /\ CompleteVisit(r.basket.appointment)
        /\ AppointmentKeyFree(r.basket)
    BY DEF CommitCreate
  <2>2. IsCreation(r) /\ movements \in Int
    BY <1>1 DEF BillsTyped, RequestsTyped, RequestTyped, CountsTyped, At
  <2>3. r.seen.stock \in Int
    BY <2>2 DEF IsCreation
  <2> HIDE DEF r, item, k
  <2> QED
    BY <2>1, <2>2, <2>3 DEF MoveStock, AppointmentKeyFree
<1>4. package' = [used |-> package.used + (IF item = "session" THEN 1 ELSE 0),
                  active |-> package'.active]
  <2>1. IF item = "session" THEN RedeemSession ELSE UNCHANGED package
    BY DEF CommitCreate
  <2>2. package = [used |-> package.used, active |-> package.active] /\ package.used \in Int
    BY DEF BillsTyped, CountsTyped
  <2> HIDE DEF item
  <2> QED
    BY <2>1, <2>2 DEF RedeemSession
<1>5. invoice' = [invoice EXCEPT ![b] = row]
  BY DEF CommitCreate
<1>6. New(row, r)
  <2>1. StatusFor(money, due) \in {"PAID", "PARTIALLY_PAID", "ISSUED"}
    BY DEF StatusFor
  <2> HIDE DEF money, due, r, total, points, earned
  <2> DEFINE standing == StatusFor(money, due)
             settled == Least(money, total)
             number == r.number
             with == r.basket.appointment
  <2>2. standing \in {"PAID", "PARTIALLY_PAID", "ISSUED"}
    BY <2>1
  <2>3. k = r.basket.kind /\ number = r.number /\ item = r.basket.line /\ with = r.basket.appointment
    OBVIOUS
  <2>4. row = [status |-> standing, kind |-> k, number |-> number, line |-> item,
               appointment |-> with, total |-> total, paid |-> settled, due |-> due,
               refunded |-> 0, earned |-> earned, redeemed |-> points]
    OBVIOUS
  <2> HIDE DEF row, standing, settled, number, with, k, item
  <2> QED
    BY <2>2, <2>3, <2>4, NewRow
<1>7. Grows /\ UNCHANGED crossedBills
  <2>1. PICK rows : Crossing(d, {}, rows)
    BY DEF CommitCreate
  <2> QED
    BY <2>1 DEF Crossing, Grows
<1>8. \A e \in Desks \ {d} : \A x \in {"session", "product"} :
         item = x /\ x \in RowsHeld(e) => x \in crossedRows' \/ SameSeries(d, e)
  <2>1. PICK rows : Crossing(d, {}, rows) /\ RowOf(item) \subseteq rows
    BY DEF CommitCreate
  <2> HIDE DEF item
  <2> QED
    BY <2>1 DEF Crossing, RowOf
<1>9. \E x : New(x, r) /\ invoice' = [invoice EXCEPT ![b] = x]
  BY <1>5, <1>6
<1> QED
  BY <1>1, <1>2, <1>3, <1>4, <1>7, <1>8, <1>9

\* The inductive invariant.

Numbered(k) == {b \in Made : invoice[b].kind = k}
Numbers(k) == {invoice[b].number : b \in Numbered(k)}
LastNumber(k) == IF series[k] = NoRow THEN 0 ELSE series[k]

Creating == {d \in Desks : Doing(d, "create")}

\* A bill past its number holds the lock of its series, and has the next number.
NumberFits(d) ==
    Doing(d, "create") =>
      LET k == request[d].basket.kind IN
      /\ request[d].step # "series" => series[k] # NoRow
      /\ request[d].step \in {"line", "points", "commit"} =>
            issuing[k] = d /\ request[d].number = series[k] + 1

Numbering ==
    /\ Made = 1..Cardinality(Made)
    /\ Cardinality(Made) + Cardinality(Creating) =< MaxBills
    /\ \A d \in Desks : NumberFits(d)
    /\ \A k \in Kinds : Cardinality(Numbered(k)) = LastNumber(k) /\ Numbers(k) = 1..LastNumber(k)

Booked == {b \in Made : Exists(b) /\ invoice[b].appointment}

\* The bill a request is about to write still is what it was when it was read.
BillFits(d) ==
    \A b \in BillHeld(d) :
       IF request[d].op = "delete" THEN invoice[b].status = "VOID" ELSE Live(b)

VisitBilled == \E b \in Booked : Live(b)

\* Nobody is about to write the status of an appointment whose bill counts, unless it
\* strayed.
VisitFits ==
    /\ ~strayed /\ VisitBilled => appointment = "COMPLETED" /\ moving = Idle
    /\ appointment = "COMPLETED" => finished \/ VisitBilled

InStep ==
    /\ finished \in BOOLEAN /\ strayed \in BOOLEAN
    /\ \A b, c \in Booked : b = c
    /\ crossedBills = {} => VisitFits /\ \A d \in Desks : BillFits(d)

Redeemed == {b \in LiveBills : invoice[b].line = "session"}

\* A bill that has looked at the row its line is taken from.
Taking(d, item) ==
    /\ Doing(d, "create") /\ request[d].step \in {"points", "commit"}
    /\ request[d].basket.line = item

Returning(d) ==
    /\ Doing(d, "void") /\ request[d].step \in {"customer", "commit"}
    /\ invoice[request[d].bill].line = "product"

SessionFits(d) == Taking(d, "session") => package.used + 1 =< Sessions

SessionsKept ==
    /\ crossedBills = {} => package.used = Cardinality(Redeemed)
    /\ "session" \notin crossedRows => package.used =< Sessions /\ \A d \in Desks : SessionFits(d)

StockFits(d) == Taking(d, "product") \/ Returning(d) => request[d].seen.stock = stock

StockKept ==
    "product" \notin crossedRows => stock = movements /\ \A d \in Desks : StockFits(d)

BillsInv == BillsTyped /\ Numbering /\ InStep /\ SessionsKept /\ StockKept

\* Who is not the one who moves keeps its series, and who moves fits again.

SeriesKept(d) ==
    /\ series' \in [Kinds -> Nat \cup {NoRow}] /\ issuing' \in [Kinds -> Desks \cup {Nobody}]
    /\ \A k \in Kinds : LastNumber(k)' = LastNumber(k)
    /\ \A e \in Desks : NumberFits(e)'
    /\ Cardinality(Made) + Cardinality(Creating)' =< MaxBills

FitsAgain(d) ==
    /\ RequestTyped(d)'
    /\ crossedBills = {} => BillFits(d)'
    /\ "session" \notin crossedRows => SessionFits(d)'
    /\ "product" \notin crossedRows => StockFits(d)'

\* A step that writes no row but the counter.
LEMMA QuietStep ==
  ASSUME BillsInv, NEW d \in Desks, OthersWait(d), Still, Grows, SeriesKept(d), FitsAgain(d)
  PROVE  BillsInv'
<1>1. BillsTyped /\ invoice' = invoice /\ Made' = Made
  BY DEF BillsInv, Still, Made
<1>2. InvoicesTyped'
  BY <1>1 DEF BillsTyped, InvoicesTyped
<1>3. RequestsTyped'
  <2>1. ASSUME NEW e \in Desks, e # d
        PROVE  RequestTyped(e)'
    BY <1>1, <2>1 DEF OthersWait, BillsTyped, RequestsTyped, RequestTyped, Doing, BillHeld
  <2> QED
    BY <2>1 DEF FitsAgain, RequestsTyped, OthersWait
<1>4. CountsTyped'
  BY <1>1 DEF BillsTyped, CountsTyped, SeriesKept, Still
<1>5. Numbering'
  <2>1. \A k \in Kinds : Numbered(k)' = Numbered(k) /\ Numbers(k)' = Numbers(k)
    BY <1>1 DEF Numbered, Numbers
  <2>2. \A k \in Kinds : LastNumber(k)' = LastNumber(k)
    BY DEF SeriesKept
  <2> QED
    BY <1>1, <2>1, <2>2 DEF BillsInv, Numbering, SeriesKept
<1>6. InStep'
  <2>1. Booked' = Booked /\ \A b \in Bills : Live(b)' = Live(b)
    BY <1>1 DEF Booked, Live, Exists
  <2>2. UNCHANGED <<appointment, moving, finished, strayed>> /\ (VisitFits => VisitFits')
    BY <2>1 DEF Still, visit, VisitFits, VisitBilled, Booked, Made
  <2>3. crossedBills' = {} => crossedBills = {}
    BY DEF Grows
  <2>4. ASSUME NEW e \in Desks, e # d, crossedBills = {}
        PROVE  BillFits(e)'
    BY <1>1, <2>4 DEF OthersWait, BillsInv, InStep, BillFits, BillHeld, Live, Exists
  <2> QED
    BY <2>1, <2>2, <2>3, <2>4 DEF BillsInv, InStep, FitsAgain, Booked, Made
<1>7. SessionsKept'
  <2>1. Redeemed' = Redeemed /\ package' = package
    BY <1>1 DEF Redeemed, LiveBills, Live, Exists, Still
  <2>2. /\ crossedBills' = {} => crossedBills = {}
        /\ "session" \notin crossedRows' => "session" \notin crossedRows
    BY DEF Grows
  <2>3. ASSUME NEW e \in Desks, e # d, "session" \notin crossedRows
        PROVE  SessionFits(e)'
    BY <2>1, <2>3 DEF OthersWait, BillsInv, SessionsKept, SessionFits, Taking, Doing
  <2> QED
    BY <2>1, <2>2, <2>3 DEF BillsInv, SessionsKept, FitsAgain
<1>8. StockKept'
  <2>1. stock' = stock /\ movements' = movements
    BY DEF Still
  <2>2. "product" \notin crossedRows' => "product" \notin crossedRows
    BY DEF Grows
  <2>3. ASSUME NEW e \in Desks, e # d, "product" \notin crossedRows
        PROVE  StockFits(e)'
    BY <1>1, <2>1, <2>3 DEF OthersWait, BillsInv, StockKept, StockFits, Taking, Returning, Doing
  <2> QED
    BY <2>1, <2>2, <2>3 DEF BillsInv, StockKept, FitsAgain
<1> QED
  BY <1>2, <1>3, <1>4, <1>5, <1>6, <1>7, <1>8 DEF BillsInv, BillsTyped

\* What is not touched at all.
LEMMA BillsStill ==
  ASSUME BillsInv, Still, UNCHANGED <<series, issuing, request>>, Grows
  PROVE  BillsInv'
<1>1. BillsTyped /\ invoice' = invoice /\ Made' = Made
  BY DEF BillsInv, Still, Made
<1>2. BillsTyped'
  BY <1>1 DEF BillsTyped, InvoicesTyped, RequestsTyped, RequestTyped, CountsTyped, Doing, BillHeld, Still
<1>3. Numbering'
  BY <1>1 DEF BillsInv, Numbering, NumberFits, Numbered, Numbers, LastNumber, Creating, Doing
<1>4. InStep'
  BY <1>1 DEF BillsInv, InStep, VisitFits, VisitBilled, visit, Booked, BillFits, BillHeld, Live, Exists, Still, Grows
<1>5. SessionsKept'
  BY <1>1 DEF BillsInv, SessionsKept, Redeemed, LiveBills, Live, Exists, SessionFits, Taking, Doing, Still, Grows
<1>6. StockKept'
  BY <1>1 DEF BillsInv, StockKept, StockFits, Taking, Returning, Doing, Still, Grows
<1> QED
  BY <1>2, <1>3, <1>4, <1>5, <1>6 DEF BillsInv

LEMMA BillsFinite ==
  /\ IsFiniteSet(Bills) /\ IsFiniteSet(Made) /\ Cardinality(Made) \in Nat
  /\ IsFiniteSet(Creating) /\ Cardinality(Creating) \in Nat
<1>1. IsFiniteSet(Bills)
  BY BoundsAssumption, FS_Interval DEF Bills
<1>2. Made \subseteq Bills /\ Creating \subseteq Desks
  BY DEF Made, Creating
<1> QED
  BY <1>1, <1>2, FiniteAssumption, FS_Subset, FS_CardinalityType

\* Nobody moves in a series but its desk: what its desk no longer is, it is not.
LEMMA OthersCreating ==
  ASSUME NEW d \in Desks, OthersWait(d)
  PROVE  /\ \A e \in Desks \ {d} : e \in Creating' <=> e \in Creating
         /\ Doing(d, "create")' => Creating' = Creating \cup {d}
         /\ ~Doing(d, "create")' => Creating' = Creating \ {d}
BY DEF OthersWait, Creating, Doing

LEMMA FewerCreating ==
  ASSUME NEW d \in Desks, OthersWait(d), Doing(d, "create")' => Doing(d, "create")
  PROVE  Cardinality(Creating)' =< Cardinality(Creating) /\ Cardinality(Creating)' \in Nat
<1>1. Creating' \subseteq Creating
  BY OthersCreating DEF Creating
<1> QED
  BY <1>1, BillsFinite, FS_Subset, FS_CardinalityType

LEMMA OneMoreCreating ==
  ASSUME NEW d \in Desks, OthersWait(d)
  PROVE  Cardinality(Creating)' =< Cardinality(Creating) + 1 /\ Cardinality(Creating)' \in Nat
<1> DEFINE C == Creating
           U == C \cup {d}
<1>1. Creating' \subseteq U
  BY OthersCreating
<1>2. IsFiniteSet(C) /\ Cardinality(C) \in Nat
  BY BillsFinite
<1> HIDE DEF C
<1>3. IsFiniteSet(U) /\ Cardinality(U) = IF d \in C THEN Cardinality(C) ELSE Cardinality(C) + 1
  BY <1>2, FS_AddElement
<1> HIDE DEF U
<1>4. IsFiniteSet(Creating') /\ Cardinality(Creating') =< Cardinality(U)
  BY <1>1, <1>3, FS_Subset
<1>5. Cardinality(Creating') \in Nat
  BY <1>4, FS_CardinalityType
<1>6. Cardinality(Creating') =< Cardinality(C) + 1
  BY <1>2, <1>3, <1>4, <1>5
<1> QED
  BY <1>5, <1>6 DEF C

LEMMA StartStep ==
  ASSUME BillsInv, NEW d \in Desks, Starts(d)
  PROVE  BillsInv'
<1> DEFINE r == request'[d]
<1>1. /\ OthersWait(d) /\ Still /\ UNCHANGED <<series, issuing, crossedBills, crossedRows>>
      /\ request[d] = Idle
  BY DEF Starts
<1>2. Made' = Made /\ BillsTyped
  BY <1>1 DEF Still, Made, BillsInv
<1>3. SeriesKept(d)
  <2>1. NumberFits(d)'
    BY DEF Starts, NumberFits, Doing
  <2>2. ASSUME NEW e \in Desks, e # d
        PROVE  NumberFits(e)'
    BY <1>1, <2>2 DEF BillsInv, Numbering, NumberFits, Doing, OthersWait
  <2>3. Cardinality(Made) + Cardinality(Creating)' =< MaxBills
    <3>1. CASE Doing(d, "create")'
      <4>1. Cardinality(Made) + Cardinality(Creating) < MaxBills
        BY <3>1 DEF Starts, Doing, Creating
      <4>2. Cardinality(Creating)' =< Cardinality(Creating) + 1 /\ Cardinality(Creating)' \in Nat
        BY <1>1, OneMoreCreating
      <4> QED
        BY <4>1, <4>2, BillsFinite, BoundsAssumption
    <3>2. CASE ~Doing(d, "create")'
      <4>1. Cardinality(Creating)' =< Cardinality(Creating) /\ Cardinality(Creating)' \in Nat
        BY <1>1, <3>2, FewerCreating
      <4> QED
        BY <4>1, BillsFinite, BoundsAssumption DEF BillsInv, Numbering
    <3> QED
      BY <3>1, <3>2
  <2>4. \A k \in Kinds : LastNumber(k)' = LastNumber(k)
    BY <1>1 DEF LastNumber
  <2>5. series' \in [Kinds -> Nat \cup {NoRow}] /\ issuing' \in [Kinds -> Desks \cup {Nobody}]
    BY <1>1, <1>2 DEF BillsTyped, CountsTyped
  <2> QED
    BY <2>1, <2>2, <2>3, <2>4, <2>5 DEF SeriesKept
<1>4. FitsAgain(d)
  <2>1. RequestTyped(d)'
    BY <1>2 DEF Starts, RequestTyped, Doing, BillHeld
  <2>2. BillFits(d)'
    BY <1>1 DEF Starts, BillFits, BillHeld, Still, Live, Exists
  <2>3. SessionFits(d)' /\ StockFits(d)'
    BY DEF Starts, SessionFits, StockFits, Taking, Returning, Doing
  <2> QED
    BY <2>1, <2>2, <2>3 DEF FitsAgain
<1>5. Grows
  BY <1>1 DEF Grows
<1> QED
  BY <1>1, <1>3, <1>4, <1>5, QuietStep

LEMMA PassStep ==
  ASSUME BillsInv, NEW d \in Desks, Passes(d)
  PROVE  BillsInv'
<1>1. /\ OthersWait(d) /\ Still /\ UNCHANGED series /\ Grows /\ request'[d] = Idle
      /\ issuing' = [k \in Kinds |-> IF issuing[k] = d THEN Nobody ELSE issuing[k]]
  BY DEF Passes, Ends
<1>2. BillsTyped
  BY DEF BillsInv
<1>3. SeriesKept(d)
  <2>1. NumberFits(d)' /\ ~Doing(d, "create")'
    BY <1>1 DEF NumberFits, Doing
  <2>2. ASSUME NEW e \in Desks, e # d
        PROVE  NumberFits(e)'
    <3>1. NumberFits(e) /\ request'[e] = request[e]
      BY <1>1, <2>2 DEF BillsInv, Numbering, OthersWait
    <3>2. Doing(e, "create") => request[e].basket.kind \in Kinds
      BY <1>2, BasketsAssumption DEF BillsTyped, RequestsTyped, RequestTyped, IsCreation
    <3> QED
      BY <1>1, <2>2, <3>1, <3>2 DEF NumberFits, Doing
  <2>3. Cardinality(Made) + Cardinality(Creating)' =< MaxBills
    <3>1. Cardinality(Creating)' =< Cardinality(Creating) /\ Cardinality(Creating)' \in Nat
      BY <1>1, <2>1, FewerCreating
    <3> QED
      BY <3>1, BillsFinite, BoundsAssumption DEF BillsInv, Numbering
  <2>4. \A k \in Kinds : LastNumber(k)' = LastNumber(k)
    BY <1>1 DEF LastNumber
  <2>5. series' \in [Kinds -> Nat \cup {NoRow}] /\ issuing' \in [Kinds -> Desks \cup {Nobody}]
    BY <1>1, <1>2 DEF BillsTyped, CountsTyped
  <2> QED
    BY <2>1, <2>2, <2>3, <2>4, <2>5 DEF SeriesKept
<1>4. FitsAgain(d)
  BY <1>1 DEF FitsAgain, RequestTyped, BillFits, BillHeld, SessionFits, StockFits, Taking, Returning, Doing
<1> QED
  BY <1>1, <1>3, <1>4, QuietStep

LEMMA ProceedFacts ==
  ASSUME BillsInv, NEW d \in Desks, NEW from, NEW to, Proceeds(d, from, to)
  PROVE  LET k == request[d].basket.kind IN
         /\ RequestTyped(d)' /\ BillFits(d)' /\ ~Returning(d)'
         /\ \A item : Taking(d, item)' =>
               to \in {"points", "commit"} /\ request[d].basket.line = item
         /\ k \in Kinds /\ (from # "series" => series[k] # NoRow)
         /\ from \in {"line", "points"} =>
               issuing[k] = d /\ request[d].number = series[k] + 1
         /\ Cardinality(Made) + Cardinality(Creating)' =< MaxBills
         /\ \A e \in Desks \ {d} : request'[e] = request[e] /\ NumberFits(e)
<1>1. /\ OthersWait(d) /\ Doing(d, "create") /\ request'[d].op = "create"
      /\ IsCreation(request[d]) /\ IsCreation(request'[d])
      /\ request[d].step = from /\ request'[d].step = to
      /\ request'[d].basket = request[d].basket
  BY DEF Proceeds, IsCreation
<1>2. RequestTyped(d)' /\ BillFits(d)' /\ ~Returning(d)'
  BY <1>1 DEF RequestTyped, BillFits, BillHeld, Returning, Doing
<1>3. \A item : Taking(d, item)' =>
         to \in {"points", "commit"} /\ request[d].basket.line = item
  BY <1>1 DEF Taking
<1>4. request[d].basket.kind \in Kinds
  BY <1>1, BasketsAssumption DEF IsCreation
<1>5. /\ NumberFits(d)
      /\ \A e \in Desks \ {d} : request'[e] = request[e] /\ NumberFits(e)
  BY <1>1 DEF BillsInv, Numbering, OthersWait
<1>6. Cardinality(Made) + Cardinality(Creating)' =< MaxBills
  <2>1. Cardinality(Creating)' =< Cardinality(Creating) /\ Cardinality(Creating)' \in Nat
    BY <1>1, FewerCreating
  <2> QED
    BY <2>1, BillsFinite, BoundsAssumption DEF BillsInv, Numbering
<1> QED
  BY <1>1, <1>2, <1>3, <1>4, <1>5, <1>6 DEF NumberFits

LEMMA CreationStep ==
  ASSUME BillsInv, NEW d \in Desks,
         EnsureSeries(d) \/ IssueNumber(d) \/ ReadLine(d) \/ ReadPoints(d)
  PROVE  BillsInv'
<1> DEFINE k == request[d].basket.kind
<1>1. BillsTyped /\ series \in [Kinds -> Nat \cup {NoRow}] /\ issuing \in [Kinds -> Desks \cup {Nobody}]
  BY DEF BillsInv, BillsTyped, CountsTyped
<1>2. CASE EnsureSeries(d)
  <2>1. /\ Proceeds(d, "series", "number") /\ UNCHANGED issuing
        /\ series' = [series EXCEPT ![k] = IF @ = NoRow THEN 0 ELSE @]
    BY <1>1, <1>2, EnsureSeriesFacts
  <2>2. ASSUME NEW j \in Kinds
        PROVE  series'[j] = (IF j = k /\ series[j] = NoRow THEN 0 ELSE series[j])
    BY <1>1, <2>1
  <2>3. SeriesKept(d)
    <3>1. /\ series' \in [Kinds -> Nat \cup {NoRow}] /\ issuing' \in [Kinds -> Desks \cup {Nobody}]
          /\ k \in Kinds /\ Cardinality(Made) + Cardinality(Creating)' =< MaxBills
      BY <1>1, <2>1, ProceedFacts
    <3>2. \A j \in Kinds : LastNumber(j)' = LastNumber(j)
      BY <2>2, SeriesAssumption DEF LastNumber
    <3>3. NumberFits(d)'
      BY <1>1, <2>1, <2>2, <3>1, SeriesAssumption DEF NumberFits, Proceeds
    <3>4. ASSUME NEW e \in Desks, e # d
          PROVE  NumberFits(e)'
      <4>1. request'[e] = request[e] /\ NumberFits(e)
        BY <2>1, <3>4, ProceedFacts
      <4>2. Doing(e, "create") => request[e].basket.kind \in Kinds
        BY <1>1, BasketsAssumption DEF BillsTyped, RequestsTyped, RequestTyped, IsCreation
      <4> QED
        BY <1>1, <2>1, <2>2, <4>1, <4>2, SeriesAssumption DEF NumberFits, Doing
    <3> QED
      BY <3>1, <3>2, <3>3, <3>4 DEF SeriesKept
  <2>4. FitsAgain(d)
    BY <2>1, ProceedFacts DEF FitsAgain, SessionFits, StockFits
  <2> QED
    BY <2>1, <2>3, <2>4, QuietStep DEF Proceeds, Grows
<1>3. CASE IssueNumber(d)
  <2>1. /\ Proceeds(d, "number", "line") /\ UNCHANGED series
        /\ issuing[k] = Nobody /\ issuing' = [issuing EXCEPT ![k] = d]
        /\ request'[d].number = series[k] + 1
    BY <1>1, <1>3, IssueNumberFacts
  <2>2. SeriesKept(d)
    <3>1. /\ series' \in [Kinds -> Nat \cup {NoRow}] /\ issuing' \in [Kinds -> Desks \cup {Nobody}]
          /\ k \in Kinds /\ Cardinality(Made) + Cardinality(Creating)' =< MaxBills
          /\ series[k] # NoRow
      BY <1>1, <2>1, ProceedFacts
    <3>2. \A j \in Kinds : LastNumber(j)' = LastNumber(j)
      BY <2>1 DEF LastNumber
    <3>3. NumberFits(d)'
      BY <1>1, <2>1, <3>1 DEF NumberFits, Proceeds
    <3>4. ASSUME NEW e \in Desks, e # d
          PROVE  NumberFits(e)'
      <4>1. request'[e] = request[e] /\ NumberFits(e)
        BY <2>1, <3>4, ProceedFacts
      <4>2. Doing(e, "create") => request[e].basket.kind \in Kinds
        BY <1>1, BasketsAssumption DEF BillsTyped, RequestsTyped, RequestTyped, IsCreation
      <4> QED
        BY <1>1, <2>1, <4>1, <4>2, SeriesAssumption DEF NumberFits, Doing
    <3> QED
      BY <3>1, <3>2, <3>3, <3>4 DEF SeriesKept
  <2>3. FitsAgain(d)
    BY <2>1, ProceedFacts DEF FitsAgain, SessionFits, StockFits
  <2> QED
    BY <2>1, <2>2, <2>3, QuietStep DEF Proceeds, Grows
<1>4. ASSUME NEW from \in {"line", "points"}, NEW to, Proceeds(d, from, to),
             UNCHANGED <<series, issuing>>, request'[d].number = request[d].number
      PROVE  SeriesKept(d)
  <2>1. /\ k \in Kinds /\ Cardinality(Made) + Cardinality(Creating)' =< MaxBills
        /\ series[k] # NoRow /\ issuing[k] = d /\ request[d].number = series[k] + 1
        /\ \A e \in Desks \ {d} : request'[e] = request[e] /\ NumberFits(e)
    BY <1>4, ProceedFacts
  <2>2. NumberFits(d)'
    BY <1>4, <2>1 DEF NumberFits, Proceeds
  <2>3. ASSUME NEW e \in Desks, e # d
        PROVE  NumberFits(e)'
    BY <1>4, <2>1, <2>3 DEF NumberFits, Doing
  <2>4. \A j \in Kinds : LastNumber(j)' = LastNumber(j)
    BY <1>4 DEF LastNumber
  <2> QED
    BY <1>1, <1>4, <2>1, <2>2, <2>3, <2>4 DEF SeriesKept
<1>5. CASE ReadLine(d)
  <2>1. /\ Proceeds(d, "line", "points") /\ UNCHANGED <<series, issuing>>
        /\ request'[d].number = request[d].number
        /\ request[d].basket.line = "session" => package.used + 1 =< Sessions
        /\ request[d].basket.line = "product" => request'[d].seen.stock = stock
    BY <1>1, <1>5, ReadLineFacts
  <2>2. SeriesKept(d)
    BY <1>4, <2>1
  <2>3. FitsAgain(d)
    <3>1. UNCHANGED <<package, stock>>
      BY <2>1 DEF Proceeds, Still
    <3> QED
      BY <2>1, <3>1, ProceedFacts DEF FitsAgain, SessionFits, StockFits
  <2> QED
    BY <2>1, <2>2, <2>3, QuietStep DEF Proceeds, Grows
<1>6. CASE ReadPoints(d)
  <2>1. /\ Proceeds(d, "points", "commit") /\ UNCHANGED <<series, issuing>>
        /\ request'[d].number = request[d].number
        /\ request'[d].seen.stock = request[d].seen.stock
    BY <1>1, <1>6, ReadPointsFacts
  <2>2. SeriesKept(d)
    BY <1>4, <2>1
  <2>3. FitsAgain(d)
    <3>1. UNCHANGED <<package, stock>>
      BY <2>1 DEF Proceeds, Still
    <3>2. ASSUME NEW item, Taking(d, item)'
          PROVE  Taking(d, item)
      BY <2>1, <3>2 DEF Proceeds, Taking
    <3>3. /\ "session" \notin crossedRows => SessionFits(d)
          /\ "product" \notin crossedRows => StockFits(d)
      BY DEF BillsInv, SessionsKept, StockKept
    <3>4. RequestTyped(d)' /\ BillFits(d)' /\ ~Returning(d)'
      BY <2>1, ProceedFacts
    <3> QED
      BY <2>1, <3>1, <3>2, <3>3, <3>4 DEF FitsAgain, SessionFits, StockFits
  <2> QED
    BY <2>1, <2>2, <2>3, QuietStep DEF Proceeds, Grows
<1> QED
  BY <1>2, <1>3, <1>5, <1>6

LEMMA VoidingStep ==
  ASSUME BillsInv, NEW d \in Desks, ReadStockToReverse(d) \/ ReadCustomer(d)
  PROVE  BillsInv'
<1>1. BillsTyped /\ series \in [Kinds -> Nat \cup {NoRow}] /\ issuing \in [Kinds -> Desks \cup {Nobody}]
  BY DEF BillsInv, BillsTyped, CountsTyped
<1>2. ASSUME NEW from, NEW to, Reverses(d, from, to),
             Returning(d)' => request'[d].seen.stock = stock \/ "product" \in crossedRows
      PROVE  BillsInv'
  <2>1. /\ OthersWait(d) /\ Still /\ UNCHANGED <<series, issuing, crossedBills, crossedRows>>
        /\ Doing(d, "void") /\ request[d].op = "void" /\ request'[d].op = "void"
        /\ IsVoiding(request'[d]) /\ request'[d].bill = request[d].bill
    BY <1>2 DEF Reverses, IsVoiding
  <2>2. UNCHANGED <<invoice, stock>> /\ Made' = Made /\ \A b \in Bills : Live(b)' = Live(b)
    BY <2>1 DEF Still, Made, Live, Exists
  <2>3. BillHeld(d) = {request[d].bill} /\ BillHeld(d)' \subseteq BillHeld(d)
    BY <2>1 DEF BillHeld, Doing
  <2>4. BillHeld(d) \subseteq Made
    BY <1>1 DEF BillsTyped, RequestsTyped, RequestTyped
  <2>5. RequestTyped(d)'
    BY <2>1, <2>2, <2>3, <2>4 DEF RequestTyped, Doing
  <2>6. crossedBills = {} => BillFits(d)'
    BY <2>1, <2>2, <2>3, <2>4 DEF BillsInv, InStep, BillFits, Made
  <2>7. SessionFits(d)' /\ ("product" \notin crossedRows => StockFits(d)')
    BY <1>2, <2>1, <2>2 DEF SessionFits, StockFits, Taking, Doing
  <2>8. FitsAgain(d)
    BY <2>5, <2>6, <2>7 DEF FitsAgain
  <2>9. SeriesKept(d)
    <3>1. NumberFits(d)' /\ ~Doing(d, "create")'
      BY <2>1 DEF NumberFits, Doing
    <3>2. ASSUME NEW e \in Desks, e # d
          PROVE  NumberFits(e)'
      BY <2>1, <3>2 DEF BillsInv, Numbering, NumberFits, Doing, OthersWait
    <3>3. Cardinality(Creating)' =< Cardinality(Creating) /\ Cardinality(Creating)' \in Nat
      BY <2>1, <3>1, FewerCreating
    <3>4. Cardinality(Made) + Cardinality(Creating)' =< MaxBills
      BY <3>3, BillsFinite, BoundsAssumption DEF BillsInv, Numbering
    <3>5. \A k \in Kinds : LastNumber(k)' = LastNumber(k)
      BY <2>1 DEF LastNumber
    <3> QED
      BY <1>1, <2>1, <3>1, <3>2, <3>4, <3>5 DEF SeriesKept
  <2> QED
    BY <2>1, <2>8, <2>9, QuietStep DEF Grows
<1>3. CASE ReadStockToReverse(d)
  <2>1. /\ Reverses(d, "stock", "customer")
        /\ invoice[request[d].bill].line = "product" => request'[d].seen.stock = stock
    BY <1>1, <1>3, ReadStockFacts
  <2>2. Returning(d)' => request'[d].seen.stock = stock
    BY <2>1 DEF Returning, Reverses, Still
  <2> QED
    BY <1>2, <2>1, <2>2
<1>4. CASE ReadCustomer(d)
  <2>1. /\ Reverses(d, "customer", "commit")
        /\ request'[d].seen.stock = request[d].seen.stock
    BY <1>1, <1>4, ReadCustomerFacts
  <2>2. Returning(d)' => Returning(d)
    BY <2>1 DEF Returning, Reverses, Still
  <2>3. "product" \notin crossedRows => StockFits(d)
    BY DEF BillsInv, StockKept
  <2> QED
    BY <1>2, <2>1, <2>2, <2>3 DEF StockFits
<1> QED
  BY <1>3, <1>4

LEMMA LeaveFacts ==
  ASSUME BillsInv, NEW d \in Desks, Ends(d)
  PROVE  /\ issuing' \in [Kinds -> Desks \cup {Nobody}]
         /\ Cardinality(Creating)' =< Cardinality(Creating) /\ Cardinality(Creating)' \in Nat
         /\ Creating' = Creating \ {d}
         /\ request' = [e \in Desks |-> request'[e]] /\ request'[d] = Idle
         /\ \A e \in Desks \ {d} : request'[e] = request[e] /\ NumberFits(e)
         /\ \A e \in Desks \ {d} : Doing(e, "create") => request[e].basket.kind \in Kinds
         /\ \A e \in Desks \ {d} : \A k \in Kinds : issuing[k] = e => issuing'[k] = e
<1>1. /\ OthersWait(d) /\ request'[d] = Idle
      /\ issuing' = [k \in Kinds |-> IF issuing[k] = d THEN Nobody ELSE issuing[k]]
  BY DEF Ends
<1>2. ~Doing(d, "create")'
  BY <1>1 DEF Doing
<1>3. Cardinality(Creating)' =< Cardinality(Creating) /\ Cardinality(Creating)' \in Nat
  BY <1>1, <1>2, FewerCreating
<1>4. Creating' = Creating \ {d}
  BY <1>1, <1>2, OthersCreating
<1>5. \A e \in Desks : Doing(e, "create") => request[e].basket.kind \in Kinds
  BY BasketsAssumption DEF BillsInv, BillsTyped, RequestsTyped, RequestTyped, IsCreation
<1>6. issuing \in [Kinds -> Desks \cup {Nobody}]
  BY DEF BillsInv, BillsTyped, CountsTyped
<1> QED
  BY <1>1, <1>3, <1>4, <1>5, <1>6 DEF OthersWait, BillsInv, Numbering

LEMMA HeldRows ==
  ASSUME NEW d \in Desks
  PROVE  /\ \A item \in {"session", "product"} : Taking(d, item) => item \in RowsHeld(d)
         /\ Returning(d) => "product" \in RowsHeld(d)
BY DEF Taking, Returning, RowsHeld, RowOf, Doing

LEMMA RewriteFacts ==
  ASSUME InvoicesTyped, NEW b \in Made, NEW S, S \subseteq Standings \cup {"VOID", "DELETED"},
         Rewrites(b, S)
  PROVE  /\ InvoicesTyped' /\ Made' = Made
         /\ \A c \in Bills \ {b} : invoice'[c] = invoice[c]
         /\ invoice'[b].status \in S
         /\ \A c \in Made :
               /\ invoice'[c].kind = invoice[c].kind /\ invoice'[c].number = invoice[c].number
               /\ invoice'[c].line = invoice[c].line
               /\ invoice'[c].appointment = invoice[c].appointment
<1>1. PICK row : Keeps(row, invoice[b]) /\ row.status \in S /\ invoice' = [invoice EXCEPT ![b] = row]
  BY DEF Rewrites
<1>2. b \in Bills /\ IsInvoice(invoice[b])
  BY DEF InvoicesTyped, Made
<1>3. /\ invoice' = [c \in Bills |-> invoice'[c]] /\ invoice'[b] = row
      /\ \A c \in Bills \ {b} : invoice'[c] = invoice[c]
  BY <1>1, <1>2 DEF InvoicesTyped
<1>4. row # NoBill
  BY <1>1 DEF NoBill, Standings
<1>5. Made' = Made
  BY <1>3, <1>4 DEF Made
<1>6. IsInvoice(row)
  BY <1>1, <1>2 DEF IsInvoice, Keeps
<1>7. InvoicesTyped'
  BY <1>3, <1>5, <1>6 DEF InvoicesTyped, Made
<1> QED
  BY <1>1, <1>3, <1>5, <1>7 DEF Keeps, Made

\* What holds after any write to a bill that the desk was at.
LEMMA TouchFacts ==
  ASSUME BillsInv, NEW d \in Desks, NEW b \in BillHeld(d), Exists(b), Ends(d), Grows,
         Meets(d, b), UNCHANGED series, NEW S, S \subseteq Standings \cup {"VOID", "DELETED"}, Rewrites(b, S)
  PROVE  /\ InvoicesTyped' /\ RequestsTyped' /\ Numbering'
         /\ issuing' \in [Kinds -> Desks \cup {Nobody}]
         /\ \A x, y \in Booked' : x = y
         /\ crossedBills' = {} => /\ crossedBills = {} /\ BillFits(d)
                                  /\ \A e \in Desks : BillFits(e)'
         /\ \A item : ~Taking(d, item)'
         /\ ~Returning(d)'
         /\ \A e \in Desks \ {d} : /\ \A item : Taking(e, item)' <=> Taking(e, item)
                                   /\ Returning(e)' <=> Returning(e)
                                   /\ request'[e] = request[e]
<1>1. /\ InvoicesTyped /\ RequestsTyped /\ b \in Made
      /\ \A e \in Desks : BillHeld(e) \subseteq Made
  BY DEF BillsInv, BillsTyped, RequestsTyped, RequestTyped
<1>2. /\ InvoicesTyped' /\ Made' = Made
      /\ \A c \in Bills \ {b} : invoice'[c] = invoice[c]
      /\ \A c \in Made :
            /\ invoice'[c].kind = invoice[c].kind /\ invoice'[c].number = invoice[c].number
            /\ invoice'[c].line = invoice[c].line
            /\ invoice'[c].appointment = invoice[c].appointment
  BY <1>1, RewriteFacts
<1>3. /\ issuing' \in [Kinds -> Desks \cup {Nobody}]
      /\ Cardinality(Creating)' =< Cardinality(Creating) /\ Cardinality(Creating)' \in Nat
      /\ request' = [e \in Desks |-> request'[e]] /\ request'[d] = Idle
      /\ \A e \in Desks \ {d} : request'[e] = request[e] /\ NumberFits(e)
      /\ \A e \in Desks \ {d} : Doing(e, "create") => request[e].basket.kind \in Kinds
      /\ \A e \in Desks \ {d} : \A k \in Kinds : issuing[k] = e => issuing'[k] = e
  BY LeaveFacts
<1>4. \A e \in Desks \ {d} : BillHeld(e)' = BillHeld(e)
  BY <1>3 DEF BillHeld
<1>5. RequestsTyped'
  <2>1. RequestTyped(d)'
    BY <1>3 DEF RequestTyped, Doing, BillHeld
  <2>2. ASSUME NEW e \in Desks, e # d
        PROVE  RequestTyped(e)'
    BY <1>1, <1>2, <1>3, <1>4, <2>2 DEF RequestsTyped, RequestTyped, Doing
  <2> QED
    BY <1>3, <2>1, <2>2 DEF RequestsTyped
<1>6. Numbering'
  <2>1. \A e \in Desks : NumberFits(e)'
    BY <1>3 DEF NumberFits, Doing
  <2>2. Cardinality(Made)' + Cardinality(Creating)' =< MaxBills
    BY <1>2, <1>3, BillsFinite, BoundsAssumption DEF BillsInv, Numbering
  <2>3. ASSUME NEW k \in Kinds
        PROVE  Cardinality(Numbered(k))' = LastNumber(k)' /\ Numbers(k)' = 1..LastNumber(k)'
    <3>1. Numbered(k)' = Numbered(k) /\ LastNumber(k)' = LastNumber(k)
      BY <1>2 DEF Numbered, LastNumber
    <3>2. Numbers(k)' = Numbers(k)
      BY <1>2, <3>1 DEF Numbers, Numbered
    <3> QED
      BY <3>1, <3>2 DEF BillsInv, Numbering
  <2> QED
    BY <1>2, <2>1, <2>2, <2>3 DEF Numbering, BillsInv
<1>7. \A x, y \in Booked' : x = y
  <2>1. \A x \in Booked' : x \in Booked \/ x = b
    BY <1>2 DEF Booked, Exists, Made
  <2>2. b \in Booked' => b \in Booked
    BY <1>1, <1>2 DEF Booked
  <2> QED
    BY <2>1, <2>2 DEF BillsInv, InStep
<1>8. ASSUME crossedBills' = {}
      PROVE  /\ crossedBills = {} /\ BillFits(d)
             /\ \A e \in Desks : BillFits(e)'
  <2>1. crossedBills = {} /\ \A e \in Desks : BillFits(e)
    BY <1>8 DEF Grows, BillsInv, InStep
  <2>2. BillFits(d)'
    BY <1>3 DEF BillFits, BillHeld
  <2>3. ASSUME NEW e \in Desks, e # d
        PROVE  BillFits(e)'
    <3>1. b \notin BillHeld(e)
      BY <1>8, <2>3 DEF Meets
    <3>2. \A c \in BillHeld(e) : c \in Bills /\ c # b
      BY <1>1, <3>1 DEF Made
    <3> QED
      BY <1>2, <1>3, <1>4, <2>1, <2>3, <3>2 DEF BillFits, Live, Exists
  <2> QED
    BY <2>1, <2>2, <2>3
<1>9. (\A item : ~Taking(d, item)') /\ ~Returning(d)'
  BY <1>3 DEF Taking, Returning, Doing
<1>10. ASSUME NEW e \in Desks, e # d
       PROVE  /\ \A item : Taking(e, item)' <=> Taking(e, item)
              /\ Returning(e)' <=> Returning(e)
  <2>1. request'[e] = request[e]
    BY <1>3, <1>10
  <2>2. Doing(e, "void") => invoice'[request[e].bill].line = invoice[request[e].bill].line
    BY <1>1, <1>2 DEF BillHeld, Doing
  <2> QED
    BY <2>1, <2>2 DEF Taking, Returning, Doing
<1> QED
  BY <1>2, <1>3, <1>5, <1>6, <1>7, <1>8, <1>9, <1>10

LEMMA SettlingStep ==
  ASSUME BillsInv, NEW d \in Desks,
         CommitPay(d) \/ CommitUnpay(d) \/ CommitRefund(d) \/ CommitDelete(d)
  PROVE  BillsInv'
<1> DEFINE b == request[d].bill
           S == IF request[d].op = "delete" THEN {"DELETED"} ELSE Standings
<1>1. /\ b \in BillHeld(d) /\ Exists(b) /\ Ends(d) /\ Grows /\ Meets(d, b)
      /\ UNCHANGED <<series, package, stock, movements, visit>>
      /\ Rewrites(b, S)
  BY SettlingFacts, DeleteFacts DEF BillsInv
<1>2. /\ InvoicesTyped /\ b \in Made /\ S \subseteq Standings \cup {"VOID", "DELETED"}
  BY <1>1 DEF BillsInv, BillsTyped, RequestsTyped, RequestTyped
<1> HIDE DEF b
<1>3. /\ Made' = Made /\ invoice'[b].status \in S
      /\ \A c \in Bills \ {b} : invoice'[c] = invoice[c]
      /\ \A c \in Made :
            /\ invoice'[c].line = invoice[c].line
            /\ invoice'[c].appointment = invoice[c].appointment
  <2> HIDE DEF S
  <2> QED
    BY <1>1, <1>2, RewriteFacts
<1>4. /\ InvoicesTyped' /\ RequestsTyped' /\ Numbering'
      /\ issuing' \in [Kinds -> Desks \cup {Nobody}]
      /\ \A x, y \in Booked' : x = y
      /\ crossedBills' = {} => /\ crossedBills = {} /\ BillFits(d)
                               /\ \A e \in Desks : BillFits(e)'
      /\ \A item : ~Taking(d, item)'
      /\ ~Returning(d)'
      /\ \A e \in Desks \ {d} : /\ \A item : Taking(e, item)' <=> Taking(e, item)
                                /\ Returning(e)' <=> Returning(e)
                                /\ request'[e] = request[e]
  <2> HIDE DEF S
  <2> QED
    BY <1>1, <1>2, TouchFacts
<1>5. CountsTyped'
  BY <1>1, <1>4 DEF BillsInv, BillsTyped, CountsTyped
<1>6. ASSUME crossedBills' = {}, NEW c \in Bills
      PROVE  Live(c)' <=> Live(c)
  <2>1. BillFits(d)
    BY <1>4, <1>6
  <2>2. CASE c = b
    BY <1>1, <1>2, <1>3, <2>1, <2>2 DEF BillFits, Live, Exists, Made, Standings, NoBill
  <2>3. CASE c # b
    BY <1>3, <2>3 DEF Live, Exists
  <2> QED
    BY <2>2, <2>3
<1>7. InStep'
  <2>1. ASSUME crossedBills' = {}
        PROVE  VisitBilled' <=> VisitBilled
    <3>1. \A c \in Made : Live(c)' => (c \in Booked' <=> c \in Booked)
      BY <1>3, <1>6, <2>1 DEF Booked, Live, Made
    <3> QED
      BY <1>3, <1>6, <2>1, <3>1 DEF Booked, Made, VisitBilled
  <2>2. UNCHANGED <<appointment, moving, finished, strayed>>
    BY <1>1 DEF visit
  <2> QED
    BY <1>4, <2>1, <2>2 DEF BillsInv, InStep, VisitFits
<1>8. SessionsKept'
  <2>1. crossedBills' = {} => Redeemed' = Redeemed
    <3>1. \A c \in Bills : Live(c) => c \in Made
      BY DEF Live, Exists, Made
    <3> QED
      BY <1>3, <1>6, <3>1 DEF Redeemed, LiveBills
  <2>2. \A e \in Desks \ {d} : SessionFits(e) => SessionFits(e)'
    BY <1>1, <1>4 DEF SessionFits
  <2>3. SessionFits(d)'
    BY <1>4 DEF SessionFits
  <2> QED
    BY <1>1, <1>4, <2>1, <2>2, <2>3 DEF BillsInv, SessionsKept, Grows
<1>9. StockKept'
  <2>1. \A e \in Desks \ {d} : StockFits(e) => StockFits(e)'
    BY <1>1, <1>4 DEF StockFits
  <2>2. StockFits(d)'
    BY <1>4 DEF StockFits
  <2> QED
    BY <1>1, <2>1, <2>2 DEF BillsInv, StockKept, Grows
<1> QED
  BY <1>4, <1>5, <1>7, <1>8, <1>9 DEF BillsInv, BillsTyped

LEMMA VoidStep ==
  ASSUME BillsInv, NEW d \in Desks, CommitVoid(d)
  PROVE  BillsInv'
<1>0. PICK b : b = request[d].bill
  OBVIOUS
<1> DEFINE item == invoice[b].line
           S == {"VOID"}
<1>1. /\ b \in BillHeld(d) /\ Exists(b) /\ Ends(d) /\ Grows /\ Meets(d, b)
      /\ At(d, "void", "commit") /\ UNCHANGED series /\ Rewrites(b, S)
      /\ ReopenVisit(invoice[b].appointment)
      /\ package' = [used |-> package.used - (IF item = "session" THEN 1 ELSE 0),
                     active |-> package.active]
      /\ stock' = (IF item = "product" THEN request[d].seen.stock + 1 ELSE stock)
      /\ movements' = (IF item = "product" THEN movements + 1 ELSE movements)
      /\ item = "product" => \A e \in Desks \ {d} :
             "product" \in RowsHeld(e) => "product" \in crossedRows'
  BY <1>0, VoidFacts DEF BillsInv
<1>2. /\ InvoicesTyped /\ b \in Made /\ S \subseteq Standings \cup {"VOID", "DELETED"}
  BY <1>1 DEF BillsInv, BillsTyped, RequestsTyped, RequestTyped
<1>3. /\ Made' = Made /\ invoice'[b].status = "VOID"
      /\ \A c \in Bills \ {b} : invoice'[c] = invoice[c]
      /\ \A c \in Made :
            /\ invoice'[c].line = invoice[c].line
            /\ invoice'[c].appointment = invoice[c].appointment
  BY <1>1, <1>2, RewriteFacts
<1>4. /\ InvoicesTyped' /\ RequestsTyped' /\ Numbering'
      /\ issuing' \in [Kinds -> Desks \cup {Nobody}]
      /\ \A x, y \in Booked' : x = y
      /\ crossedBills' = {} => /\ crossedBills = {} /\ BillFits(d)
                               /\ \A e \in Desks : BillFits(e)'
      /\ \A x : ~Taking(d, x)'
      /\ ~Returning(d)'
      /\ \A e \in Desks \ {d} : /\ \A x : Taking(e, x)' <=> Taking(e, x)
                                /\ Returning(e)' <=> Returning(e)
                                /\ request'[e] = request[e]
  <2> HIDE DEF S
  <2> QED
    BY <1>1, <1>2, TouchFacts
<1>5. package.used \in Int /\ stock \in Int /\ movements \in Int /\ request[d].seen.stock \in Int
  BY <1>1 DEF BillsInv, BillsTyped, CountsTyped, RequestsTyped, RequestTyped, At, IsVoiding
<1>6. CountsTyped'
  <2>1. series' \in [Kinds -> Nat \cup {NoRow}]
    BY <1>1 DEF BillsInv, BillsTyped, CountsTyped
  <2>2. stock' \in Int /\ movements' \in Int
    BY <1>1, <1>5
  <2>3. package' = [used |-> package'.used, active |-> package'.active] /\ package'.used \in Int
    BY <1>1, <1>5
  <2> QED
    BY <1>4, <2>1, <2>2, <2>3 DEF CountsTyped
<1>7. ~Live(b)' /\ \A c \in Bills \ {b} : Live(c)' <=> Live(c)
  BY <1>3 DEF Live, Exists
<1>8. crossedBills' = {} => Live(b)
  BY <1>0, <1>1, <1>4 DEF BillFits, At, Doing
<1>9. InStep'
  <2>1. /\ finished' \in BOOLEAN /\ strayed' = strayed /\ strayed' \in BOOLEAN /\ moving' = moving
        /\ invoice[b].appointment => appointment' = "CHECKED_IN"
        /\ ~invoice[b].appointment => appointment' = appointment /\ finished' = finished
    BY <1>1 DEF ReopenVisit, BillsInv, InStep
  <2>2. ASSUME crossedBills' = {}
        PROVE  VisitFits'
    <3>1. VisitFits
      BY <1>4, <2>2 DEF BillsInv, InStep
    <3>2. CASE invoice[b].appointment
      <4>1. b \in Booked'
        BY <1>2, <1>3, <3>2 DEF Booked, Exists, NoBill
      <4>2. ~VisitBilled'
        BY <1>4, <1>7, <4>1 DEF VisitBilled
      <4> QED
        BY <2>1, <3>2, <4>2 DEF VisitFits
    <3>3. CASE ~invoice[b].appointment
      <4>1. b \notin Booked /\ b \notin Booked'
        BY <1>2, <1>3, <3>3 DEF Booked
      <4>2. \A c \in Bills \ {b} : c \in Booked' <=> c \in Booked
        BY <1>3 DEF Booked, Exists, Made
      <4>3. Booked \subseteq Bills /\ Booked' \subseteq Bills
        BY DEF Booked, Made
      <4>4. VisitBilled' <=> VisitBilled
        BY <1>7, <4>1, <4>2, <4>3 DEF VisitBilled
      <4> QED
        BY <2>1, <3>1, <3>3, <4>4 DEF VisitFits
    <3> QED
      BY <3>2, <3>3
  <2> QED
    BY <1>4, <2>1, <2>2 DEF InStep
<1>10. SessionsKept'
  <2>1. ASSUME crossedBills' = {}
        PROVE  package'.used = Cardinality(Redeemed')
    <3>1. crossedBills = {} /\ package.used = Cardinality(Redeemed)
      BY <1>4, <2>1 DEF BillsInv, SessionsKept
    <3>2. Redeemed' = IF item = "session" THEN Redeemed \ {b} ELSE Redeemed
      <4>1. \A c \in Bills : Live(c) \/ Live(c)' => c \in Made
        BY <1>3 DEF Live, Exists, Made
      <4>2. \A c \in Redeemed' : c \in Redeemed /\ c # b
        BY <1>3, <1>7, <4>1 DEF Redeemed, LiveBills
      <4>3. \A c \in Redeemed : c # b => c \in Redeemed'
        BY <1>3, <1>7, <4>1 DEF Redeemed, LiveBills
      <4>4. item # "session" => b \notin Redeemed
        BY DEF Redeemed
      <4> QED
        BY <4>2, <4>3, <4>4
    <3>3. item = "session" => b \in Redeemed
      BY <1>2, <1>8, <2>1 DEF Redeemed, LiveBills, Made
    <3>4. IsFiniteSet(Redeemed)
      BY BillsFinite, FS_Subset DEF Redeemed, LiveBills
    <3>5. Cardinality(Redeemed \ {b}) = IF b \in Redeemed THEN Cardinality(Redeemed) - 1
                                                        ELSE Cardinality(Redeemed)
      BY <3>4, FS_RemoveElement
    <3>6. package'.used = package.used - (IF item = "session" THEN 1 ELSE 0)
      BY <1>1
    <3> HIDE DEF item
    <3> QED
      BY <1>5, <3>1, <3>2, <3>3, <3>5, <3>6
  <2>2. package'.used \in Int /\ package'.used =< package.used
    BY <1>1, <1>5
  <2>3. ASSUME "session" \notin crossedRows'
        PROVE  package'.used =< Sessions /\ \A e \in Desks : SessionFits(e)'
    <3>1. package.used =< Sessions /\ \A e \in Desks : SessionFits(e)
      BY <1>1, <2>3 DEF Grows, BillsInv, SessionsKept
    <3>2. \A e \in Desks \ {d} : SessionFits(e)'
      BY <1>4, <1>5, <2>2, <3>1, BoundsAssumption DEF SessionFits
    <3>3. SessionFits(d)'
      BY <1>4 DEF SessionFits
    <3> QED
      BY <1>5, <2>2, <3>1, <3>2, <3>3, BoundsAssumption
  <2> QED
    BY <2>1, <2>3 DEF SessionsKept
<1>11. StockKept'
  <2>1. ASSUME "product" \notin crossedRows'
        PROVE  stock' = movements' /\ \A e \in Desks : StockFits(e)'
    <3>1. stock = movements /\ \A e \in Desks : StockFits(e)
      BY <1>1, <2>1 DEF Grows, BillsInv, StockKept
    <3>2. item = "product" => Returning(d)
      BY <1>0, <1>1 DEF Returning, At
    <3>3. stock' = movements'
      BY <1>1, <1>5, <3>1, <3>2 DEF StockFits
    <3>4. ASSUME NEW e \in Desks, e # d
          PROVE  StockFits(e)'
      <4>1. CASE item = "product"
        <5>1. ~Taking(e, "product") /\ ~Returning(e)
          BY <1>1, <2>1, <3>4, <4>1, HeldRows
        <5> QED
          BY <1>4, <3>4, <5>1 DEF StockFits
      <4>2. CASE item # "product"
        BY <1>1, <1>4, <3>1, <3>4, <4>2 DEF StockFits
      <4> QED
        BY <4>1, <4>2
    <3>5. StockFits(d)'
      BY <1>4 DEF StockFits
    <3> QED
      BY <3>3, <3>4, <3>5
  <2> QED
    BY <2>1 DEF StockKept
<1> QED
  BY <1>4, <1>6, <1>9, <1>10, <1>11 DEF BillsInv, BillsTyped

\* The bill that is made takes the next place and the next number.
LEMMA MakingFacts ==
  ASSUME BillsInv, NEW d \in Desks, CommitCreate(d)
  PROVE  \E b, row :
            /\ b \in Bills /\ b \notin Made /\ New(row, request[d]) /\ invoice' = [invoice EXCEPT ![b] = row]
            /\ b = Cardinality(Made) + 1 /\ Cardinality(Made)' = b /\ Made' = 1..b
            /\ Made' = Made \cup {b} /\ InvoicesTyped'
            /\ invoice'[b] = row /\ \A c \in Made : invoice'[c] = invoice[c]
            /\ Cardinality(Made)' + Cardinality(Creating)' =< MaxBills
<1> DEFINE n == Cardinality(Made)
           b == n + 1
<1>1. /\ At(d, "create", "commit") /\ Ends(d)
      /\ \E row : New(row, request[d]) /\ invoice' = [invoice EXCEPT ![b] = row]
  BY CreateFacts DEF BillsInv
<1>2. PICK row : New(row, request[d]) /\ invoice' = [invoice EXCEPT ![b] = row]
  BY <1>1
<1>3. Creating' = Creating \ {d} /\ d \in Creating
  BY <1>1, LeaveFacts DEF At, Creating
<1>4. Cardinality(Creating)' = Cardinality(Creating) - 1 /\ Cardinality(Creating)' \in Nat
  <2>1. Cardinality(Creating \ {d}) = Cardinality(Creating) - 1
    BY <1>3, BillsFinite, FS_RemoveElement
  <2>2. Cardinality(Creating)' \in Nat
    BY <1>1, LeaveFacts
  <2> QED
    BY <1>3, <2>1, <2>2
<1>5. n \in Nat /\ Made = 1..n /\ n + Cardinality(Creating) =< MaxBills
  BY BillsFinite DEF BillsInv, Numbering
<1> HIDE DEF n
<1>6. b \in Bills /\ b \notin Made /\ b + Cardinality(Creating)' =< MaxBills
  BY <1>4, <1>5, BillsFinite, BoundsAssumption DEF Bills
<1>7. /\ invoice = [c \in Bills |-> invoice[c]] /\ \A c \in Made : IsInvoice(invoice[c])
      /\ IsCreation(request[d])
  BY <1>1 DEF BillsInv, BillsTyped, InvoicesTyped, RequestsTyped, RequestTyped, At
<1>8. /\ invoice'[b] = row /\ \A c \in Bills \ {b} : invoice'[c] = invoice[c]
      /\ invoice' = [c \in Bills |-> invoice'[c]]
  BY <1>2, <1>6, <1>7
<1>9. row # NoBill /\ IsInvoice(row)
  BY <1>2, <1>7, BasketsAssumption DEF New, IsInvoice, NoBill, IsCreation, Items, Standings
<1>10. Made' = Made \cup {b} /\ Made' = 1..b
  <2>1. Made' = Made \cup {b}
    BY <1>6, <1>8, <1>9 DEF Made
  <2> QED
    BY <1>5, <2>1
<1>11. Cardinality(Made') = b
  <2>1. b \in Int /\ b >= 1
    BY <1>5
  <2> HIDE DEF b
  <2>2. Cardinality(1..b) = IF 1 > b THEN 0 ELSE b - 1 + 1
    BY <2>1, FS_Interval
  <2>3. Cardinality(1..b) = b
    BY <2>1, <2>2
  <2>4. Made' = 1..b
    BY <1>10
  <2> QED
    BY <2>3, <2>4
<1>12. InvoicesTyped'
  BY <1>6, <1>7, <1>8, <1>9, <1>10 DEF InvoicesTyped, Made
<1>13. \A c \in Made : invoice'[c] = invoice[c]
  BY <1>6, <1>8 DEF Made
<1> QED
  BY <1>2, <1>6, <1>8, <1>10, <1>11, <1>12, <1>13 DEF n

LEMMA CreateStep ==
  ASSUME BillsInv, NEW d \in Desks, CommitCreate(d)
  PROVE  BillsInv'
<1>1. PICK b, row :
         /\ b \in Bills /\ b \notin Made /\ New(row, request[d]) /\ invoice' = [invoice EXCEPT ![b] = row]
         /\ b = Cardinality(Made) + 1 /\ Cardinality(Made)' = b /\ Made' = 1..b
         /\ Made' = Made \cup {b} /\ InvoicesTyped'
         /\ invoice'[b] = row /\ \A c \in Made : invoice'[c] = invoice[c]
         /\ Cardinality(Made)' + Cardinality(Creating)' =< MaxBills
  BY MakingFacts
<1>2. PICK r, item, k : r = request[d] /\ item = r.basket.line /\ k = r.basket.kind
  OBVIOUS
<1>3. /\ At(d, "create", "commit") /\ Ends(d) /\ Grows /\ UNCHANGED crossedBills
      /\ series' = [series EXCEPT ![k] = r.number]
      /\ package' = [used |-> package.used + (IF item = "session" THEN 1 ELSE 0),
                     active |-> package'.active]
      /\ stock' = (IF item = "product" THEN r.seen.stock - 1 ELSE stock)
      /\ movements' = (IF item = "product" THEN movements - 1 ELSE movements)
      /\ CompleteVisit(r.basket.appointment)
      /\ r.basket.appointment => ~Billed
      /\ \A e \in Desks \ {d} : \A x \in {"session", "product"} :
            item = x /\ x \in RowsHeld(e) => x \in crossedRows' \/ SameSeries(d, e)
  BY <1>2, CreateFacts DEF BillsInv
<1>4. /\ issuing' \in [Kinds -> Desks \cup {Nobody}]
      /\ request' = [e \in Desks |-> request'[e]] /\ request'[d] = Idle
      /\ \A e \in Desks \ {d} : request'[e] = request[e] /\ NumberFits(e)
      /\ \A e \in Desks \ {d} : Doing(e, "create") => request[e].basket.kind \in Kinds
      /\ \A e \in Desks \ {d} : \A j \in Kinds : issuing[j] = e => issuing'[j] = e
  BY <1>3, LeaveFacts
<1>5. /\ Doing(d, "create") /\ r.step = "commit" /\ r.seen.stock \in Int
      /\ k \in Kinds /\ series[k] # NoRow /\ issuing[k] = d /\ r.number = series[k] + 1
  <2>1. Doing(d, "create") /\ r.step = "commit" /\ IsCreation(r) /\ NumberFits(d)
    BY <1>2, <1>3 DEF At, BillsInv, BillsTyped, RequestsTyped, RequestTyped, Numbering
  <2>2. r.seen.stock \in Int /\ k \in Kinds
    BY <1>2, <2>1, BasketsAssumption DEF IsCreation
  <2> QED
    BY <1>2, <2>1, <2>2 DEF NumberFits
<1>6. /\ series \in [Kinds -> Nat \cup {NoRow}] /\ package.used \in Int
      /\ stock \in Int /\ movements \in Int
  BY DEF BillsInv, BillsTyped, CountsTyped
<1>7. \A e \in Desks : BillHeld(e) \subseteq Made
  BY DEF BillsInv, BillsTyped, RequestsTyped, RequestTyped
<1>8. /\ series[k] \in Nat /\ r.number \in Nat /\ series' \in [Kinds -> Nat \cup {NoRow}]
      /\ series'[k] = r.number /\ \A j \in Kinds \ {k} : series'[j] = series[j]
  <2>1. series[k] \in Nat
    BY <1>5, <1>6
  <2>2. r.number \in Nat
    BY <1>5, <2>1
  <2> QED
    BY <1>3, <1>5, <1>6, <2>1, <2>2
<1>9. CountsTyped'
  <2>1. stock' \in Int /\ movements' \in Int
    BY <1>3, <1>5, <1>6
  <2>2. package' = [used |-> package'.used, active |-> package'.active] /\ package'.used \in Int
    BY <1>3, <1>6
  <2> QED
    BY <1>4, <1>8, <2>1, <2>2 DEF CountsTyped
<1>10. RequestsTyped'
  <2>1. RequestTyped(d)'
    BY <1>4 DEF RequestTyped, Doing, BillHeld
  <2>2. ASSUME NEW e \in Desks, e # d
        PROVE  RequestTyped(e)'
    <3>1. RequestTyped(e) /\ request'[e] = request[e]
      BY <1>4, <2>2 DEF BillsInv, BillsTyped, RequestsTyped
    <3> QED
      BY <1>1, <3>1 DEF RequestTyped, Doing, BillHeld
  <2> QED
    BY <1>4, <2>1, <2>2 DEF RequestsTyped
<1>11. New(row, r)
  BY <1>1, <1>2
\* The others of the series have not got their number yet.
<1>12. ASSUME NEW e \in Desks, e # d, Doing(e, "create"), request[e].basket.kind = k
       PROVE  request[e].step \notin {"line", "points", "commit"}
  BY <1>4, <1>5, <1>12 DEF NumberFits
<1>13. Numbering'
  <2>1. ASSUME NEW e \in Desks
        PROVE  NumberFits(e)'
    <3>1. CASE e = d
      BY <1>4, <3>1 DEF NumberFits, Doing
    <3>2. CASE e # d
      <4>1. request'[e] = request[e] /\ NumberFits(e)
        BY <1>4, <3>2
      <4>2. Doing(e, "create") => request[e].basket.kind \in Kinds
        BY <1>4, <3>2
      <4>3. CASE Doing(e, "create") /\ request[e].basket.kind = k
        BY <1>8, <1>12, <3>2, <4>1, <4>3, SeriesAssumption DEF NumberFits, Doing
      <4>4. CASE Doing(e, "create") /\ request[e].basket.kind # k
        BY <1>4, <1>8, <3>2, <4>1, <4>2, <4>4 DEF NumberFits, Doing
      <4>5. CASE ~Doing(e, "create")
        BY <4>1, <4>5 DEF NumberFits, Doing
      <4> QED
        BY <4>3, <4>4, <4>5
    <3> QED
      BY <3>1, <3>2
  <2>2. ASSUME NEW j \in Kinds
        PROVE  Cardinality(Numbered(j))' = LastNumber(j)' /\ Numbers(j)' = 1..LastNumber(j)'
    <3>1. Cardinality(Numbered(j)) = LastNumber(j) /\ Numbers(j) = 1..LastNumber(j)
      BY DEF BillsInv, Numbering
    <3>2. row.kind = k /\ row.number = r.number
      BY <1>2, <1>11 DEF New
    <3>3. CASE j = k
      <4>1. Numbered(j)' = Numbered(j) \cup {b} /\ b \notin Numbered(j)
        BY <1>1, <3>2, <3>3 DEF Numbered
      <4>2. Numbers(j)' = Numbers(j) \cup {r.number}
        <5>1. \A c \in Numbered(j) : invoice'[c].number = invoice[c].number
          BY <1>1 DEF Numbered
        <5> QED
          BY <1>1, <3>2, <4>1, <5>1 DEF Numbers
      <4>3. IsFiniteSet(Numbered(j))
        BY BillsFinite, FS_Subset DEF Numbered
      <4>4. Cardinality(Numbered(j) \cup {b}) = Cardinality(Numbered(j)) + 1
        BY <4>1, <4>3, FS_AddElement
      <4>5. LastNumber(j) = series[k] /\ LastNumber(j)' = series[k] + 1
        BY <1>5, <1>8, <3>3, SeriesAssumption DEF LastNumber
      <4> QED
        BY <1>5, <1>8, <3>1, <4>1, <4>2, <4>4, <4>5
    <3>4. CASE j # k
      <4>1. Numbered(j)' = Numbered(j)
        BY <1>1, <3>2, <3>4 DEF Numbered
      <4>2. Numbers(j)' = Numbers(j)
        BY <1>1, <4>1 DEF Numbers, Numbered
      <4>3. LastNumber(j)' = LastNumber(j)
        BY <1>8, <3>4 DEF LastNumber
      <4> QED
        BY <3>1, <4>1, <4>2, <4>3
    <3> QED
      BY <3>3, <3>4
  <2> QED
    BY <1>1, <2>1, <2>2 DEF Numbering
<1>14. /\ Live(b)' /\ ~Live(b) /\ \A c \in Made : Live(c)' <=> Live(c)
       /\ \A c \in Bills : Live(c)' => c \in Made \/ c = b
  <2>1. Live(b)'
    BY <1>1, <1>11 DEF Live, Exists, New, NoBill
  <2>2. \A c \in Made : Live(c)' <=> Live(c)
    BY <1>1 DEF Live, Exists
  <2>3. \A c \in Bills : Live(c)' => c \in Made'
    BY DEF Live, Exists, Made
  <2> QED
    BY <1>1, <2>1, <2>2, <2>3 DEF Live, Exists, Made
<1>15. InStep'
  <2>1. row.appointment = r.basket.appointment
    BY <1>11 DEF New
  <2>2. r.basket.appointment => Booked = {}
    BY <1>3 DEF Billed, Booked, Made
  <2>3. Booked' = IF r.basket.appointment THEN Booked \cup {b} ELSE Booked
    <3>1. \A c \in Made : c \in Booked' <=> c \in Booked
      BY <1>1 DEF Booked, Exists
    <3>2. b \in Booked' <=> row.appointment
      BY <1>1, <1>14 DEF Booked, Live
    <3>3. b \notin Booked /\ Booked \subseteq Made /\ Booked' \subseteq Made \cup {b}
      BY <1>1 DEF Booked
    <3> QED
      BY <2>1, <3>1, <3>2, <3>3
  <2>4. \A x, y \in Booked' : x = y
    BY <2>2, <2>3 DEF BillsInv, InStep
  <2>5. /\ finished' \in BOOLEAN /\ strayed' \in BOOLEAN /\ moving' = moving
        /\ r.basket.appointment => appointment' = "COMPLETED" /\ (~strayed' => moving = Idle)
        /\ ~r.basket.appointment => UNCHANGED <<appointment, finished, strayed>>
    BY <1>3 DEF CompleteVisit, BillsInv, InStep
  <2>7. ASSUME crossedBills' = {}
        PROVE  VisitFits'
    <3>1. VisitFits
      BY <1>3, <2>7 DEF BillsInv, InStep
    <3>2. Booked \subseteq Made
      BY DEF Booked
    <3>3. CASE r.basket.appointment
      <4>1. VisitBilled'
        BY <1>14, <2>3, <3>3 DEF VisitBilled
      <4> QED
        BY <2>5, <3>3, <4>1 DEF VisitFits
    <3>4. CASE ~r.basket.appointment
      <4>1. VisitBilled' <=> VisitBilled
        BY <1>14, <2>3, <3>2, <3>4 DEF VisitBilled
      <4> QED
        BY <2>5, <3>1, <3>4, <4>1 DEF VisitFits
    <3> QED
      BY <3>3, <3>4
  <2>6. ASSUME crossedBills' = {}, NEW e \in Desks
        PROVE  BillFits(e)'
    <3>1. CASE e = d
      BY <1>4, <3>1 DEF BillFits, BillHeld
    <3>2. CASE e # d
      <4>1. BillFits(e) /\ request'[e] = request[e]
        BY <1>3, <1>4, <2>6, <3>2 DEF BillsInv, InStep
      <4>2. BillHeld(e)' = BillHeld(e) /\ BillHeld(e) \subseteq Made
        BY <1>7, <4>1 DEF BillHeld
      <4> QED
        BY <1>1, <1>14, <4>1, <4>2 DEF BillFits
    <3> QED
      BY <3>1, <3>2
  <2> QED
    BY <2>4, <2>5, <2>6, <2>7 DEF InStep
<1>16. row.line = item
  BY <1>2, <1>11 DEF New
\* Whoever has looked at the same row is of another series, and is reported.
<1>17. ASSUME NEW x \in {"session", "product"}, item = x, x \notin crossedRows',
              NEW e \in Desks, e # d
       PROVE  ~Taking(e, x) /\ (x = "product" => ~Returning(e))
  <2>1. x \in RowsHeld(e) => SameSeries(d, e)
    BY <1>3, <1>17
  <2>2. Taking(e, x) => ~SameSeries(d, e)
    BY <1>2, <1>12, <1>17 DEF Taking, SameSeries
  <2>3. Returning(e) => ~SameSeries(d, e)
    BY DEF Returning, SameSeries, Doing
  <2> QED
    BY <2>1, <2>2, <2>3, HeldRows
<1>18. ASSUME NEW e \in Desks
       PROVE  /\ \A x : Taking(e, x)' => e # d /\ Taking(e, x)
              /\ Returning(e)' => e # d /\ Returning(e)
              /\ e # d => request'[e] = request[e]
  <2>1. CASE e = d
    BY <1>4, <2>1 DEF Taking, Returning, Doing
  <2>2. CASE e # d
    <3>1. request'[e] = request[e]
      BY <1>4, <2>2
    <3>2. Doing(e, "void") => invoice'[request[e].bill].line = invoice[request[e].bill].line
      BY <1>1, <1>7 DEF BillHeld, Doing
    <3> QED
      BY <2>2, <3>1, <3>2 DEF Taking, Returning, Doing
  <2> QED
    BY <2>1, <2>2
<1>19. SessionsKept'
  <2>1. ASSUME crossedBills' = {}
        PROVE  package'.used = Cardinality(Redeemed')
    <3>1. package.used = Cardinality(Redeemed)
      BY <1>3, <2>1 DEF BillsInv, SessionsKept
    <3>2. Redeemed' = IF item = "session" THEN Redeemed \cup {b} ELSE Redeemed
      <4>1. \A c \in Bills : Live(c) => c \in Made
        BY DEF Live, Exists, Made
      <4>2. \A c \in Made : c \in Redeemed' <=> c \in Redeemed
        BY <1>1, <1>14 DEF Redeemed, LiveBills
      <4>3. b \in Redeemed' <=> item = "session"
        BY <1>1, <1>14, <1>16 DEF Redeemed, LiveBills
      <4>4. Redeemed \subseteq Made /\ Redeemed' \subseteq Made \cup {b}
        BY <1>14, <4>1 DEF Redeemed, LiveBills
      <4> QED
        BY <4>2, <4>3, <4>4
    <3>3. b \notin Redeemed
      BY <1>14 DEF Redeemed, LiveBills
    <3>4. IsFiniteSet(Redeemed)
      BY BillsFinite, FS_Subset DEF Redeemed, LiveBills
    <3>5. Cardinality(Redeemed \cup {b}) = Cardinality(Redeemed) + 1
      BY <3>3, <3>4, FS_AddElement
    <3>6. package'.used = package.used + (IF item = "session" THEN 1 ELSE 0)
      BY <1>3
    <3> QED
      BY <1>6, <3>1, <3>2, <3>5, <3>6
  <2>2. ASSUME "session" \notin crossedRows'
        PROVE  package'.used =< Sessions /\ \A e \in Desks : SessionFits(e)'
    <3>1. package.used =< Sessions /\ \A e \in Desks : SessionFits(e)
      BY <1>3, <2>2 DEF Grows, BillsInv, SessionsKept
    <3>2. CASE item = "session"
      <4>1. Taking(d, "session")
        BY <1>2, <1>5, <3>2 DEF Taking
      <4>2. package.used + 1 =< Sessions
        BY <3>1, <4>1 DEF SessionFits
      <4>3. package'.used = package.used + 1
        BY <1>3, <3>2
      <4>4. ASSUME NEW e \in Desks
            PROVE  ~Taking(e, "session")'
        BY <1>17, <1>18, <2>2, <3>2
      <4> QED
        BY <4>2, <4>3, <4>4 DEF SessionFits
    <3>3. CASE item # "session"
      <4>1. package'.used = package.used
        BY <1>3, <1>6, <3>3
      <4> QED
        BY <1>18, <3>1, <4>1 DEF SessionFits
    <3> QED
      BY <3>2, <3>3
  <2> QED
    BY <2>1, <2>2 DEF SessionsKept
<1>20. StockKept'
  <2>1. ASSUME "product" \notin crossedRows'
        PROVE  stock' = movements' /\ \A e \in Desks : StockFits(e)'
    <3>1. stock = movements /\ \A e \in Desks : StockFits(e)
      BY <1>3, <2>1 DEF Grows, BillsInv, StockKept
    <3>2. CASE item = "product"
      <4>1. Taking(d, "product")
        BY <1>2, <1>5, <3>2 DEF Taking
      <4>2. r.seen.stock = stock
        BY <1>2, <3>1, <4>1 DEF StockFits
      <4>3. ASSUME NEW e \in Desks
            PROVE  ~Taking(e, "product")' /\ ~Returning(e)'
        BY <1>17, <1>18, <2>1, <3>2
      <4> QED
        BY <1>3, <3>1, <3>2, <4>2, <4>3 DEF StockFits
    <3>3. CASE item # "product"
      <4>1. stock' = stock /\ movements' = movements
        BY <1>3, <3>3
      <4> QED
        BY <1>18, <3>1, <4>1 DEF StockFits
    <3> QED
      BY <3>2, <3>3
  <2> QED
    BY <2>1 DEF StockKept
<1> QED
  BY <1>1, <1>9, <1>10, <1>13, <1>15, <1>19, <1>20 DEF BillsInv, BillsTyped

\* The desk and the sweep move the appointment, and nothing of the bills.
LEMMA MoveStep ==
  ASSUME BillsInv, MoveVisit
  PROVE  BillsInv'
<1>1. /\ UNCHANGED <<invoice, package, stock, movements, series, issuing, request>>
      /\ UNCHANGED <<crossedBills, crossedRows, strayed>>
  BY DEF MoveVisit, AskMove, CommitMove, history
<1>2. BillsTyped /\ Made' = Made
  BY <1>1 DEF BillsInv, Made
<1>3. BillsTyped'
  BY <1>1, <1>2 DEF BillsTyped, InvoicesTyped, RequestsTyped, RequestTyped, CountsTyped, Doing, BillHeld
<1>4. Numbering'
  BY <1>1, <1>2 DEF BillsInv, Numbering, NumberFits, Numbered, Numbers, LastNumber, Creating, Doing
<1>5. Booked' = Booked /\ (VisitBilled' <=> VisitBilled) /\ \A d \in Desks : BillFits(d)' <=> BillFits(d)
  BY <1>1, <1>2 DEF Booked, VisitBilled, BillFits, BillHeld, Live, Exists
<1>6. finished' \in BOOLEAN
  BY DEF MoveVisit, AskMove, CommitMove, BillsInv, InStep
<1>7. VisitFits => VisitFits'
  BY <1>1, <1>5 DEF MoveVisit, AskMove, CommitMove, VisitFits
<1>8. InStep'
  BY <1>1, <1>5, <1>6, <1>7 DEF BillsInv, InStep
<1>9. SessionsKept'
  BY <1>1, <1>2 DEF BillsInv, SessionsKept, Redeemed, LiveBills, Live, Exists, SessionFits, Taking, Doing
<1>10. StockKept'
  BY <1>1, <1>2 DEF BillsInv, StockKept, StockFits, Taking, Returning, Doing
<1> QED
  BY <1>3, <1>4, <1>8, <1>9, <1>10 DEF BillsInv

LEMMA BillsInit == Init => BillsInv
<1> SUFFICES ASSUME Init PROVE BillsInv
  OBVIOUS
<1>1. Made = {} /\ Cardinality(Made) = 0 /\ \A b \in Bills : ~Exists(b) /\ ~Live(b)
  BY FS_EmptySet DEF Init, Made, Exists, Live
<1>2. Creating = {} /\ Cardinality(Creating) = 0 /\ \A d \in Desks : request[d] = Idle
  BY FS_EmptySet DEF Init, Creating, Doing
<1>3. BillsTyped
  <2>1. InvoicesTyped
    BY <1>1 DEF Init, InvoicesTyped
  <2>2. RequestsTyped
    BY <1>2 DEF Init, RequestsTyped, RequestTyped, Doing, BillHeld
  <2>3. CountsTyped
    BY DEF Init, CountsTyped
  <2> QED
    BY <2>1, <2>2, <2>3 DEF BillsTyped
<1>4. Numbering
  <2>1. \A k \in Kinds : Numbered(k) = {} /\ Numbers(k) = {} /\ LastNumber(k) = 0
    BY <1>1 DEF Init, Numbered, Numbers, LastNumber
  <2>2. \A d \in Desks : NumberFits(d)
    BY <1>2 DEF NumberFits, Doing
  <2>3. 1..0 = {} /\ Cardinality({}) = 0
    BY FS_EmptySet
  <2>4. Made = 1..Cardinality(Made)
    BY <1>1, <2>3
  <2>5. Cardinality(Made) + Cardinality(Creating) =< MaxBills
    BY <1>1, <1>2, BoundsAssumption
  <2>6. \A k \in Kinds : Cardinality(Numbered(k)) = LastNumber(k) /\ Numbers(k) = 1..LastNumber(k)
    BY <2>1, <2>3
  <2> QED
    BY <2>2, <2>4, <2>5, <2>6 DEF Numbering
<1>5. InStep
  BY <1>1, <1>2 DEF Init, InStep, VisitFits, VisitBilled, Booked, BillFits, BillHeld
<1>6. SessionsKept
  <2>1. Redeemed = {}
    BY <1>1 DEF Redeemed, LiveBills
  <2> QED
    BY <1>2, <2>1, BoundsAssumption, FS_EmptySet DEF Init, SessionsKept, SessionFits, Taking, Doing
<1>7. StockKept
  BY <1>2 DEF Init, StockKept, StockFits, Taking, Returning, Doing
<1> QED
  BY <1>3, <1>4, <1>5, <1>6, <1>7 DEF BillsInv

LEMMA BillsStep == BillsInv /\ [Next]_vars => BillsInv'
<1> SUFFICES ASSUME BillsInv, [Next]_vars PROVE BillsInv'
  OBVIOUS
<1>0. CASE MoveVisit
  BY <1>0, MoveStep
<1>1. CASE AddAdvance \/ UNCHANGED vars
  <2>1. Still /\ UNCHANGED <<series, issuing, request>> /\ Grows
    BY <1>1 DEF AddAdvance, vars, data, history, Still, Grows
  <2> QED
    BY <2>1, BillsStill
<1>2. ASSUME NEW d \in Desks, Ask(d)
      PROVE  BillsInv'
  BY <1>2, AskSteps, StartStep DEF BillsInv
<1>3. ASSUME NEW d \in Desks, Read(d)
      PROVE  BillsInv'
  BY <1>3, CreationStep, VoidingStep DEF Read
<1>4. ASSUME NEW d \in Desks, Abandon(d) \/ CommitAdjust(d) \/ CommitRollup(d)
      PROVE  BillsInv'
  BY <1>4, PassSteps, PassStep DEF BillsInv, BillsTyped
<1>5. ASSUME NEW d \in Desks, Commit(d)
      PROVE  BillsInv'
  BY <1>4, <1>5, CreateStep, SettlingStep, VoidStep DEF Commit
<1> QED
  BY <1>0, <1>1, <1>2, <1>3, <1>4, <1>5 DEF Next

LEMMA BillsMeaning == BillsInv => NumbersConsecutive /\ AppointmentMatchesBill /\ UsedIsBilled
<1> SUFFICES ASSUME BillsInv PROVE NumbersConsecutive /\ AppointmentMatchesBill /\ UsedIsBilled
  OBVIOUS
<1>1. NumbersConsecutive
  BY DEF BillsInv, Numbering, NumbersConsecutive, Numbered, Numbers, LastNumber
<1>2. AppointmentMatchesBill
  <2>1. Cardinality(Booked) =< 1
    <3>1. CASE Booked = {}
      BY <3>1, FS_EmptySet
    <3>2. ASSUME NEW b \in Booked
          PROVE  Cardinality(Booked) =< 1
      <4>1. Booked = {b}
        BY <3>2 DEF BillsInv, InStep
      <4> QED
        BY <4>1, FS_Singleton
    <3> QED
      BY <3>1, <3>2
  <2>2. Booked \cap LiveBills # {} <=> VisitBilled
    BY DEF LiveBills, Booked, Made, VisitBilled
  <2> QED
    BY <2>1, <2>2 DEF BillsInv, InStep, VisitFits, AppointmentMatchesBill, Booked
<1>3. UsedIsBilled
  BY DEF BillsInv, SessionsKept, StockKept, UsedIsBilled, Redeemed
<1> QED
  BY <1>1, <1>2, <1>3

-----------------------------------------------------------------------------
(* The sums *)

LEMMA LeastIn ==
  ASSUME NEW S \in SUBSET Nat, S # {}
  PROVE  \E n \in S : \A m \in S : n <= m
<1> DEFINE Below == {ss \in Nat \X Nat : ss[1] < ss[2]}
<1>1. IsWellFoundedOn(Below, Nat)
  BY NatLessThanWellFounded DEF OpToRel
<1>2. \E n \in S : \A m \in S : <<m, n>> \notin Below
  <2> HIDE DEF Below
  <2> QED
    BY <1>1, WFMin
<1>3. PICK n \in S : \A m \in S : <<m, n>> \notin Below
  BY <1>2
<1>4. ASSUME NEW m \in S PROVE n <= m
  <2>1. <<m, n>> \notin Below
    BY <1>3
  <2>2. m \in Nat /\ n \in Nat
    OBVIOUS
  <2>3. ~(m < n)
    BY <2>1, <2>2
  <2> QED
    BY <2>2, <2>3
<1> QED
  BY <1>4

\* Finite sets, one element at a time: what holds of a set as soon as it holds of the
\* set less any one element holds of all.
LEMMA OneByOne ==
  ASSUME NEW T, IsFiniteSet(T), NEW G,
         \A s \in SUBSET T : (\A x \in s : s \ {x} \in G) => s \in G
  PROVE  \A s \in SUBSET T : s \in G
<1> DEFINE bad == {Cardinality(s) : s \in {u \in SUBSET T : u \notin G}}
<1> SUFFICES ASSUME bad # {} PROVE FALSE
  OBVIOUS
<1>0. \A s \in SUBSET T : IsFiniteSet(s) /\ Cardinality(s) \in Nat
  BY FS_Subset, FS_CardinalityType
<1>1. bad \in SUBSET Nat
  BY <1>0
<1>2. PICK n \in bad : \A m \in bad : n <= m
  <2> HIDE DEF bad
  <2> QED
    BY <1>1, LeastIn
<1>3. PICK s \in SUBSET T : s \notin G /\ Cardinality(s) = n
  BY <1>2
<1>4. PICK x \in s : s \ {x} \notin G
  BY <1>3
<1>5. s \ {x} \in SUBSET T
  BY <1>4
<1>6. Cardinality(s \ {x}) \in bad
  BY <1>4, <1>5
<1>7. Cardinality(s \ {x}) = Cardinality(s) - 1
  BY <1>0, <1>4, FS_RemoveElement
<1>8. n <= n - 1
  BY <1>2, <1>3, <1>6, <1>7
<1>9. n \in Nat
  BY <1>1
<1> QED
  BY <1>8, <1>9

\* The sums of the model, over any function.
Sum(f, S) == SumOver(S, LAMBDA x : f[x])

Adds(g, f, s) == IF s = {} THEN 0 ELSE f[CHOOSE x \in s : TRUE] + g[s \ {CHOOSE x \in s : TRUE}]

IsSum(g, f, S) == g = [s \in SUBSET S |-> Adds(g, f, s)]

LEMMA SumExists ==
  ASSUME NEW f, NEW S, IsFiniteSet(S)
  PROVE  \E g : IsSum(g, f, S)
<1> DEFINE n == Cardinality(S)
           small(m) == {s \in SUBSET S : Cardinality(s) <= m}
           upTo(m) == \E g : g = [s \in small(m) |-> Adds(g, f, s)]
           bad == {m \in Nat : ~upTo(m)}
<1>0. \A s \in SUBSET S : IsFiniteSet(s) /\ Cardinality(s) \in Nat /\ Cardinality(s) <= n
  BY FS_Subset, FS_CardinalityType
<1>00. n \in Nat
  BY FS_CardinalityType
<1> HIDE DEF n
<1>1. ASSUME bad # {} PROVE FALSE
  <2>1. PICK m \in bad : \A j \in bad : m <= j
    <3>1. bad \in SUBSET Nat
      OBVIOUS
    <3> HIDE DEF bad
    <3> QED
      BY <1>1, <3>1, LeastIn
  <2>2. m # 0
    <3>1. \A s \in small(0) : s = {}
      BY <1>0, FS_EmptySet
    <3> DEFINE g == [s \in small(0) |-> 0]
    <3>2. \A s \in small(0) : g[s] = Adds(g, f, s)
      BY <3>1 DEF Adds
    <3>3. g = [s \in small(0) |-> Adds(g, f, s)]
      BY <3>2
    <3>4. upTo(0)
      <4> HIDE DEF g, small
      <4> QED
        BY <3>3
    <3> QED
      BY <3>4
  <2>3. m - 1 \in Nat /\ m \in Nat
    BY <2>2
  <2>4. upTo(m - 1)
    <3>1. m - 1 \notin bad
      <4> HIDE DEF bad
      <4> QED
        BY <2>1, <2>3
    <3> HIDE DEF upTo
    <3> QED
      BY <2>3, <3>1
  <2>5. PICK g : g = [s \in small(m - 1) |-> Adds(g, f, s)]
    BY <2>4
  <2> DEFINE h == [s \in small(m) |-> Adds(g, f, s)]
  <2>6. \A s \in small(m) : s # {} => s \ {CHOOSE x \in s : TRUE} \in small(m - 1) \cap small(m)
    <3> SUFFICES ASSUME NEW s \in small(m), s # {} PROVE s \ {CHOOSE x \in s : TRUE} \in small(m - 1) \cap small(m)
      OBVIOUS
    <3>1. PICK x \in s : x = CHOOSE y \in s : TRUE
      OBVIOUS
    <3>2. s \in SUBSET S /\ Cardinality(s) <= m
      OBVIOUS
    <3>3. Cardinality(s \ {x}) = Cardinality(s) - 1
      BY <1>0, <3>1, <3>2, FS_RemoveElement
    <3>4. s \ {x} \in SUBSET S
      BY <3>2
    <3>5. Cardinality(s \ {x}) <= m - 1 /\ Cardinality(s \ {x}) <= m
      BY <1>0, <2>3, <3>2, <3>3
    <3> QED
      BY <3>1, <3>4, <3>5
  <2>7. \A s \in small(m - 1) : s \in small(m)
    BY <1>0, <2>3
  <2>8. \A s \in small(m - 1) : h[s] = g[s]
    <3> SUFFICES ASSUME NEW s \in small(m - 1) PROVE h[s] = g[s]
      OBVIOUS
    <3>1. g[s] = Adds(g, f, s)
      <4> HIDE DEF small
      <4> QED
        BY <2>5
    <3>2. h[s] = Adds(g, f, s)
      <4>1. s \in small(m)
        BY <2>7
      <4> HIDE DEF small
      <4> QED
        BY <4>1
    <3> QED
      BY <3>1, <3>2
  <2>9. \A s \in small(m) : h[s] = Adds(h, f, s)
    <3> SUFFICES ASSUME NEW s \in small(m) PROVE h[s] = Adds(h, f, s)
      OBVIOUS
    <3>1. h[s] = Adds(g, f, s)
      <4> HIDE DEF small
      <4> QED
        OBVIOUS
    <3>2. s # {} => h[s \ {CHOOSE x \in s : TRUE}] = g[s \ {CHOOSE x \in s : TRUE}]
      <4>1. s # {} => s \ {CHOOSE x \in s : TRUE} \in small(m - 1)
        BY <2>6
      <4> HIDE DEF h, small
      <4> QED
        BY <2>8, <4>1
    <3> HIDE DEF h
    <3> QED
      BY <3>1, <3>2 DEF Adds
  <2>10. h = [s \in small(m) |-> Adds(h, f, s)]
    <3>1. DOMAIN h = small(m)
      OBVIOUS
    <3>2. \E S1 : h = [s \in S1 |-> h[s]]
      OBVIOUS
    <3> HIDE DEF h, small
    <3> QED
      BY <2>9, <3>1, <3>2
  <2>11. upTo(m)
    <3> HIDE DEF h, small
    <3> QED
      BY <2>10
  <2> QED
    BY <2>1, <2>11
<1>2. upTo(n)
  BY <1>1, <1>00
<1>3. small(n) = SUBSET S
  BY <1>0
<1> QED
  BY <1>2, <1>3 DEF IsSum

LEMMA SumIs ==
  ASSUME NEW f, NEW S, IsFiniteSet(S)
  PROVE  \E g : IsSum(g, f, S) /\ Sum(f, S) = g[S]
<1>1. PICK g : IsSum(g, f, S)
  BY SumExists
<1>2. g = [s \in SUBSET S |-> Adds(g, f, s)]
  BY <1>1 DEF IsSum
<1>3. \E h : h = [s \in SUBSET S |-> Adds(h, f, s)] /\ Sum(f, S) = h[S]
  BY <1>2 DEF Sum, SumOver, MapThenSumSet, MapThenFoldSet, Adds
<1> QED
  BY <1>3 DEF IsSum

LEMMA SumOfIs ==
  ASSUME NEW f, IsFiniteSet(DOMAIN f)
  PROVE  \E g : IsSum(g, f, DOMAIN f) /\ SumOf(f) = g[DOMAIN f]
<1>1. PICK g : IsSum(g, f, DOMAIN f)
  BY SumExists
<1>2. g = [s \in SUBSET (DOMAIN f) |-> Adds(g, f, s)]
  BY <1>1 DEF IsSum
<1>3. \E h : h = [s \in SUBSET (DOMAIN f) |-> Adds(h, f, s)] /\ SumOf(f) = h[DOMAIN f]
  BY <1>2 DEF SumOf, FoldFunction, FoldFunctionOnSet, MapThenFoldSet, Adds
<1> QED
  BY <1>3 DEF IsSum

LEMMA SumStep ==
  ASSUME NEW f, NEW S, NEW g, IsSum(g, f, S), NEW s \in SUBSET S, s # {}
  PROVE  \E x \in s : x = (CHOOSE y \in s : TRUE) /\ g[s] = f[x] + g[s \ {x}]
<1>1. g[s] = Adds(g, f, s)
  BY DEF IsSum
<1> QED
  BY <1>1 DEF Adds

LEMMA SumOfNone ==
  ASSUME NEW f, NEW S, NEW g, IsSum(g, f, S)
  PROVE  g[{}] = 0
<1>1. g[{}] = Adds(g, f, {})
  BY DEF IsSum
<1> QED
  BY <1>1 DEF Adds

\* Two functions that agree on a set have one sum over it.
LEMMA SumAgrees ==
  ASSUME NEW f, NEW S, NEW g, IsSum(g, f, S), NEW e, NEW T, NEW h, IsSum(h, e, T),
         IsFiniteSet(S), \A x \in S \cap T : f[x] = e[x]
  PROVE  \A s \in SUBSET (S \cap T) : g[s] = h[s]
<1> DEFINE B == S \cap T
           G == {s \in SUBSET B : g[s] = h[s]}
<1>1. IsFiniteSet(B)
  BY FS_Subset
<1>2. ASSUME NEW s \in SUBSET B, \A x \in s : s \ {x} \in G PROVE s \in G
  <2>1. CASE s = {}
    BY <2>1, SumOfNone
  <2>2. CASE s # {}
    <3>1. s \in SUBSET S /\ s \in SUBSET T
      OBVIOUS
    <3>2. PICK x \in s : x = (CHOOSE y \in s : TRUE) /\ g[s] = f[x] + g[s \ {x}]
      BY <2>2, <3>1, SumStep
    <3>3. PICK z \in s : z = (CHOOSE y \in s : TRUE) /\ h[s] = e[z] + h[s \ {z}]
      BY <2>2, <3>1, SumStep
    <3>4. x = z
      BY <3>2, <3>3
    <3>5. g[s \ {x}] = h[s \ {x}]
      BY <1>2, <3>2
    <3> QED
      BY <3>2, <3>3, <3>4, <3>5
  <2> QED
    BY <2>1, <2>2
<1>3. \A s \in SUBSET B : s \in G
  <2> HIDE DEF G, B
  <2> QED
    BY <1>1, <1>2, OneByOne
<1> QED
  BY <1>3

LEMMA SumTyped ==
  ASSUME NEW f, NEW S, NEW g, IsSum(g, f, S), IsFiniteSet(S), \A x \in S : f[x] \in Int
  PROVE  \A s \in SUBSET S : g[s] \in Int /\ ((\A x \in s : f[x] \in Nat) => g[s] \in Nat)
<1> DEFINE G == {s \in SUBSET S : g[s] \in Int /\ ((\A x \in s : f[x] \in Nat) => g[s] \in Nat)}
<1>2. ASSUME NEW s \in SUBSET S, \A x \in s : s \ {x} \in G PROVE s \in G
  <2>1. CASE s = {}
    BY <2>1, SumOfNone
  <2>2. CASE s # {}
    <3>1. PICK x \in s : g[s] = f[x] + g[s \ {x}]
      BY <2>2, SumStep
    <3>2. s \ {x} \in G /\ f[x] \in Int
      BY <1>2
    <3>3. g[s \ {x}] \in Int /\ ((\A y \in s : f[y] \in Nat) => g[s \ {x}] \in Nat /\ f[x] \in Nat)
      BY <3>2
    <3>4. g[s] \in Int /\ ((\A y \in s : f[y] \in Nat) => g[s] \in Nat)
      BY <3>1, <3>2, <3>3
    <3> QED
      BY <3>4
  <2> QED
    BY <2>1, <2>2
<1>3. \A s \in SUBSET S : s \in G
  <2> HIDE DEF G
  <2> QED
    BY <1>2, OneByOne
<1> QED
  BY <1>3

\* The order does not matter: any element may be the one added last.
LEMMA SumOrder ==
  ASSUME NEW f, NEW S, NEW g, IsSum(g, f, S), IsFiniteSet(S), \A x \in S : f[x] \in Int
  PROVE  \A s \in SUBSET S : \A a \in s : g[s] = f[a] + g[s \ {a}]
<1> DEFINE G == {s \in SUBSET S : \A a \in s : g[s] = f[a] + g[s \ {a}]}
<1>1. \A s \in SUBSET S : g[s] \in Int
  BY SumTyped
<1>2. ASSUME NEW s \in SUBSET S, \A x \in s : s \ {x} \in G PROVE s \in G
  <2> SUFFICES ASSUME NEW a \in s PROVE g[s] = f[a] + g[s \ {a}]
    OBVIOUS
  <2>1. PICK x \in s : g[s] = f[x] + g[s \ {x}]
    BY SumStep
  <2>2. CASE x = a
    BY <2>1, <2>2
  <2>3. CASE x # a
    <3>1. g[s \ {x}] = f[a] + g[(s \ {x}) \ {a}]
      BY <1>2, <2>3
    <3>2. g[s \ {a}] = f[x] + g[(s \ {a}) \ {x}]
      BY <1>2, <2>3
    <3>3. (s \ {a}) \ {x} = (s \ {x}) \ {a} /\ (s \ {x}) \ {a} \in SUBSET S
      OBVIOUS
    <3> DEFINE p == g[(s \ {x}) \ {a}]
    <3>4. p \in Int /\ f[a] \in Int /\ f[x] \in Int
      BY <1>1, <3>3
    <3>5. g[s \ {x}] = f[a] + p /\ g[s \ {a}] = f[x] + p
      BY <3>1, <3>2, <3>3
    <3> HIDE DEF p
    <3> QED
      BY <2>1, <3>4, <3>5
  <2> QED
    BY <2>2, <2>3
<1>3. \A s \in SUBSET S : s \in G
  <2> HIDE DEF G
  <2> QED
    BY <1>2, OneByOne
<1> QED
  BY <1>3

LEMMA SumEmpty ==
  ASSUME NEW f
  PROVE  Sum(f, {}) = 0
<1>1. PICK g : IsSum(g, f, {}) /\ Sum(f, {}) = g[{}]
  BY SumIs, FS_EmptySet
<1> QED
  BY <1>1, SumOfNone

LEMMA SumSame ==
  ASSUME NEW f, NEW e, NEW S, IsFiniteSet(S), \A x \in S : f[x] = e[x]
  PROVE  Sum(f, S) = Sum(e, S)
<1>1. PICK g : IsSum(g, f, S) /\ Sum(f, S) = g[S]
  BY SumIs
<1>2. PICK h : IsSum(h, e, S) /\ Sum(e, S) = h[S]
  BY SumIs
<1>3. \A s \in SUBSET (S \cap S) : g[s] = h[s]
  BY <1>1, <1>2, SumAgrees
<1> QED
  BY <1>1, <1>2, <1>3

LEMMA SumType ==
  ASSUME NEW f, NEW S, IsFiniteSet(S), \A x \in S : f[x] \in Int
  PROVE  Sum(f, S) \in Int /\ ((\A x \in S : f[x] \in Nat) => Sum(f, S) \in Nat)
<1>1. PICK g : IsSum(g, f, S) /\ Sum(f, S) = g[S]
  BY SumIs
<1>2. S \in SUBSET S
  OBVIOUS
<1> QED
  BY <1>1, <1>2, SumTyped

LEMMA SumSplit ==
  ASSUME NEW f, NEW S, IsFiniteSet(S), \A x \in S : f[x] \in Int, NEW a \in S
  PROVE  Sum(f, S) = f[a] + Sum(f, S \ {a})
<1>1. PICK g : IsSum(g, f, S) /\ Sum(f, S) = g[S]
  BY SumIs
<1> DEFINE T == S \ {a}
<1>2. IsFiniteSet(T)
  BY FS_Subset
<1>3. PICK h : IsSum(h, f, T) /\ Sum(f, T) = h[T]
  BY <1>2, SumIs
<1>4. \A s \in SUBSET (S \cap T) : g[s] = h[s]
  BY <1>1, <1>3, SumAgrees
<1>5. g[T] = h[T]
  BY <1>4
<1>6. g[S] = f[a] + g[S \ {a}]
  <2>1. S \in SUBSET S
    OBVIOUS
  <2> QED
    BY <1>1, <2>1, SumOrder
<1> QED
  BY <1>1, <1>3, <1>5, <1>6

\* What adds nothing may be left out.
LEMMA SumPart ==
  ASSUME NEW f, NEW T, IsFiniteSet(T), \A x \in T : f[x] \in Int,
         NEW S \in SUBSET T, \A x \in T \ S : f[x] = 0
  PROVE  Sum(f, T) = Sum(f, S)
<1> DEFINE D == T \ S
           G == {u \in SUBSET D : Sum(f, S \cup u) = Sum(f, S)}
<1>1. IsFiniteSet(D)
  BY FS_Subset
<1>2. ASSUME NEW u \in SUBSET D, \A x \in u : u \ {x} \in G PROVE u \in G
  <2>1. CASE u = {}
    <3>1. S \cup u = S
      BY <2>1
    <3> QED
      BY <3>1
  <2>2. CASE u # {}
    <3>1. PICK x \in u : TRUE
      BY <2>2
    <3> DEFINE W == S \cup u
    <3>2. W \in SUBSET T /\ x \in W /\ W \ {x} = S \cup (u \ {x}) /\ f[x] = 0
      OBVIOUS
    <3>3. Sum(f, S \cup (u \ {x})) = Sum(f, S)
      BY <1>2, <3>1
    <3>4. IsFiniteSet(W) /\ IsFiniteSet(S)
      BY <3>2, FS_Subset
    <3>5. Sum(f, W) = f[x] + Sum(f, W \ {x})
      <4> HIDE DEF W
      <4> QED
        BY <3>2, <3>4, SumSplit
    <3>6. Sum(f, S) \in Int
      BY <3>4, SumType
    <3>7. Sum(f, W) = Sum(f, S)
      <4>1. Sum(f, W \ {x}) = Sum(f, S)
        BY <3>2, <3>3
      <4>2. Sum(f, W) = 0 + Sum(f, S)
        <5> HIDE DEF W
        <5> QED
          BY <3>2, <3>5, <4>1
      <4> HIDE DEF W
      <4> QED
        BY <3>6, <4>2
    <3> QED
      BY <3>7
  <2> QED
    BY <2>1, <2>2
<1>3. \A u \in SUBSET D : u \in G
  <2> HIDE DEF G, D
  <2> QED
    BY <1>1, <1>2, OneByOne
<1>4. S \cup D = T
  OBVIOUS
<1>5. D \in G
  <2> HIDE DEF G
  <2> QED
    BY <1>3
<1>6. Sum(f, S \cup D) = Sum(f, S)
  <2> HIDE DEF D
  <2> QED
    BY <1>5
<1> QED
  BY <1>4, <1>6

-----------------------------------------------------------------------------
(* The money *)

\* What bills and customer say is in numbers.
AmountsTyped ==
    \A b \in Made :
        LET row == invoice[b] IN
        /\ row.total \in Nat /\ row.paid \in Nat /\ row.due \in Nat
        /\ row.refunded \in Nat /\ row.earned \in Nat /\ row.redeemed \in Nat

MoneyTyped ==
    /\ AmountsTyped
    /\ payments \in [Bills -> Seq(Nat)]
    /\ customer \in [wallet : Int, outstanding : Int, visits : Int, spent : Int, points : Int]
    /\ transactions \in Int
    /\ overpaid \in SUBSET Bills

AskedTyped(d) ==
    LET r == request[d] IN
    /\ Doing(d, "create") => r.seen.wallet \in Int /\ r.seen.visits \in Int /\ r.seen.spent \in Int
    /\ Doing(d, "pay") => r.paid \in Nat /\ r.amount \in Nat \ {0}
    /\ Doing(d, "unpay") => r.paid \in Nat /\ (Exists(r.bill) => r.index \in DOMAIN payments[r.bill])
    /\ Doing(d, "refund") => r.refunded \in Nat /\ r.amount \in Nat \ {0}
    /\ Doing(d, "void") =>
          r.due \in Nat /\ r.seen.visits \in Int /\ r.seen.spent \in Int /\ r.seen.points \in Int
    /\ Doing(d, "adjust") => r.amount \in Int /\ r.balance \in Int
    /\ Doing(d, "rollup") => r.visits \in Int /\ r.spent \in Int /\ r.outstanding \in Int

\* A live bill that was changed by one request at a time.
RowAddsUp(b) ==
    LET row == invoice[b] IN
    /\ row.total = 0 => row.paid = 0 /\ row.due = 0 /\ row.status # "REFUNDED"
    /\ row.status = "REFUNDED" => row.refunded >= row.total
    /\ b \notin overpaid =>
         /\ row.paid = SumOf(payments[b]) /\ row.due = row.total - row.paid
         /\ IF row.status = "REFUNDED" THEN row.due = 0 ELSE row.status = StatusFor(row.paid, row.due)

BillsAddUp == \A b \in LiveBills \ crossedBills : RowAddsUp(b)

\* What a request has read of its bill is so still.
AmountFits(d) ==
    LET r == request[d]
        row == invoice[r.bill]
    IN  BillHeld(d) \subseteq crossedBills \/
        /\ IF Doing(d, "delete") THEN ~Live(r.bill) ELSE Live(r.bill)
        /\ Doing(d, "pay") => r.paid = row.paid /\ r.amount <= row.due
        /\ Doing(d, "unpay") => r.paid = row.paid /\ row.status # "REFUNDED"
        /\ Doing(d, "refund") =>
              r.refunded = row.refunded /\ r.status = row.status /\ r.amount <= row.paid - row.refunded
        /\ Doing(d, "void") => r.due = row.due

\* Nobody spends more of the wallet than is in it, or points that are not there.
WalletFits(d) ==
    Doing(d, "create") /\ request[d].basket.wallet > 0 => request[d].seen.wallet <= customer.wallet

PointsFit(d) ==
    LET r == request[d] IN
    /\ At(d, "create", "commit") /\ r.basket.points > 0 => r.basket.points <= customer.points
    /\ At(d, "void", "commit") => r.seen.points = customer.points
    /\ Doing(d, "adjust") => r.balance = customer.points + r.amount /\ r.balance >= 0

\* What the bills that count have due, and what they cost.
Dues == [b \in Bills |-> invoice[b].due]
Totals == [b \in Bills |-> invoice[b].total]
Outstanding == Sum(Dues, LiveBills)
Spent == Sum(Totals, LiveBills)

DebtKnown == crossedBills = {} /\ overpaid = {} /\ "owed" \notin crossedRows
DebtFits(d) == Doing(d, "rollup") => request[d].outstanding = Outstanding

NoneReturned == \A b \in Made : invoice[b].refunded < invoice[b].total \/ invoice[b].total = 0
VisitsKnown == crossedBills = {} /\ "visits" \notin crossedRows /\ NoneReturned

VisitsFit(d) ==
    LET r == request[d] IN
    /\ Doing(d, "create") \/ At(d, "void", "commit") =>
          r.seen.visits = customer.visits /\ r.seen.spent = customer.spent
    /\ Doing(d, "rollup") => r.visits = Cardinality(LiveBills) /\ r.spent = Spent

WalletKept == "wallet" \notin crossedRows => customer.wallet >= 0 /\ \A d \in Desks : WalletFits(d)

PointsCovered ==
    "points" \notin crossedRows =>
        customer.points >= AtLeastZero(transactions) /\ \A d \in Desks : PointsFit(d)

DebtKept == DebtKnown => customer.outstanding = Outstanding /\ \A d \in Desks : DebtFits(d)

VisitsKept ==
    VisitsKnown =>
        /\ customer.visits = Cardinality(LiveBills) /\ customer.spent = Spent
        /\ \A d \in Desks : VisitsFit(d)

MoneyInv ==
    /\ MoneyTyped /\ BillsAddUp
    /\ \A d \in Desks : AskedTyped(d) /\ AmountFits(d)
    /\ WalletKept /\ PointsCovered /\ DebtKept /\ VisitsKept

\* Rows, one amount at a time.

RowHas(s, r, x, y, f, z) ==
    /\ IsRow(s) /\ s.total = r.total /\ s.earned = r.earned /\ s.redeemed = r.redeemed
    /\ s.paid = x /\ s.due = y /\ s.refunded = f /\ s.status = z

LEMMA PaidAlone ==
  ASSUME NEW r, IsRow(r), NEW x, NEW s, s = [r EXCEPT !.paid = x]
  PROVE  RowHas(s, r, x, r.due, r.refunded, r.status)
BY DEF IsRow, RowHas

LEMMA DueAlone ==
  ASSUME NEW r, IsRow(r), NEW x, NEW s, s = [r EXCEPT !.due = x]
  PROVE  RowHas(s, r, r.paid, x, r.refunded, r.status)
BY DEF IsRow, RowHas

LEMMA RefundedAlone ==
  ASSUME NEW r, IsRow(r), NEW x, NEW s, s = [r EXCEPT !.refunded = x]
  PROVE  RowHas(s, r, r.paid, r.due, x, r.status)
BY DEF IsRow, RowHas

LEMMA StatusAlone ==
  ASSUME NEW r, IsRow(r), NEW x, NEW s, s = [r EXCEPT !.status = x]
  PROVE  RowHas(s, r, r.paid, r.due, r.refunded, x)
BY DEF IsRow, RowHas

LEMMA SettledAmounts ==
  ASSUME NEW r, IsRow(r), NEW x, NEW y, NEW z, NEW s, s = Settled(r, x, y, z)
  PROVE  RowHas(s, r, x, y, r.refunded, z)
<1>1. PICK a : a = [r EXCEPT !.paid = x]
  OBVIOUS
<1>2. PICK c : c = [a EXCEPT !.due = y]
  OBVIOUS
<1>3. s = [c EXCEPT !.status = z]
  BY <1>1, <1>2 DEF Settled
<1>4. RowHas(a, r, x, r.due, r.refunded, r.status)
  BY <1>1, PaidAlone
<1>5. RowHas(c, a, a.paid, y, a.refunded, a.status)
  BY <1>2, <1>4, DueAlone DEF RowHas
<1>6. RowHas(s, c, c.paid, c.due, c.refunded, z)
  BY <1>3, <1>5, StatusAlone DEF RowHas
<1> QED
  BY <1>4, <1>5, <1>6 DEF RowHas

LEMMA RefundedAmounts ==
  ASSUME NEW r, IsRow(r), NEW x, NEW z, NEW s, s = [r EXCEPT !.refunded = x, !.status = z]
  PROVE  RowHas(s, r, r.paid, r.due, x, z)
<1>1. PICK a : a = [r EXCEPT !.refunded = x]
  OBVIOUS
<1>2. s = [a EXCEPT !.status = z]
  BY <1>1
<1>3. RowHas(a, r, r.paid, r.due, x, r.status)
  BY <1>1, RefundedAlone
<1>4. IsRow(a)
  BY <1>3 DEF RowHas
<1>5. RowHas(s, a, a.paid, a.due, a.refunded, z)
  BY <1>2, <1>4, StatusAlone
<1> QED
  BY <1>3, <1>5 DEF RowHas

LEMMA VoidedAmounts ==
  ASSUME NEW r, IsRow(r), NEW y, NEW z, NEW s, s = [r EXCEPT !.status = z, !.due = y]
  PROVE  RowHas(s, r, r.paid, y, r.refunded, z)
<1>1. PICK a : a = [r EXCEPT !.status = z]
  OBVIOUS
<1>2. s = [a EXCEPT !.due = y]
  BY <1>1
<1>3. RowHas(a, r, r.paid, r.due, r.refunded, z)
  BY <1>1, StatusAlone
<1>4. IsRow(a)
  BY <1>3 DEF RowHas
<1>5. RowHas(s, a, a.paid, y, a.refunded, a.status)
  BY <1>2, <1>4, DueAlone
<1> QED
  BY <1>3, <1>5 DEF RowHas

\* One bill has these amounts now.
RowBecomes(b, x, y, f, z) ==
    \E row : RowHas(row, invoice[b], x, y, f, z) /\ invoice' = [invoice EXCEPT ![b] = row]

LEMMA AmountsFacts ==
  ASSUME InvoicesTyped, NEW b \in Made, NEW x, NEW y, NEW f, NEW z, RowBecomes(b, x, y, f, z)
  PROVE  /\ invoice'[b].total = invoice[b].total
         /\ invoice'[b].earned = invoice[b].earned /\ invoice'[b].redeemed = invoice[b].redeemed
         /\ invoice'[b].paid = x /\ invoice'[b].due = y /\ invoice'[b].refunded = f
         /\ invoice'[b].status = z
         /\ \A c \in Bills \ {b} : invoice'[c] = invoice[c]
<1>1. PICK row : RowHas(row, invoice[b], x, y, f, z) /\ invoice' = [invoice EXCEPT ![b] = row]
  BY DEF RowBecomes
<1>2. b \in Bills
  BY DEF Made
<1>3. invoice'[b] = row /\ \A c \in Bills \ {b} : invoice'[c] = invoice[c]
  BY <1>1, <1>2 DEF InvoicesTyped
<1> QED
  BY <1>1, <1>3 DEF RowHas

\* What a request that changes a bill does to bills and payments, and to whom.
Changes(d, b, rows) ==
    /\ b = request[d].bill /\ b \in BillHeld(d) /\ Exists(b) /\ b \in Made
    /\ Ends(d) /\ Crossing(d, {b}, rows)

LEMMA PayFacts ==
  ASSUME BillsTyped, NEW d \in Desks, CommitPay(d)
  PROVE  LET r == request[d]
             b == r.bill
             n == r.paid + r.amount
             due == AtLeastZero(invoice[b].total - n)
         IN  /\ Doing(d, "pay") /\ Changes(d, b, {"owed"})
             /\ RowBecomes(b, n, due, invoice[b].refunded, StatusFor(n, due))
             /\ payments' = [payments EXCEPT ![b] = Append(@, r.amount)]
             /\ customer' = [customer EXCEPT !.outstanding = @ + -r.amount]
             /\ UNCHANGED <<transactions, overpaid>>
<1> DEFINE r == request[d]
           b == r.bill
           n == r.paid + r.amount
           due == AtLeastZero(invoice[b].total - n)
           standing == StatusFor(n, due)
<1>1. /\ Doing(d, "pay") /\ b \in BillHeld(d) /\ Exists(b) /\ b \in Made
  BY SettlingFacts DEF CommitPay, Doing, BillHeld, BillsTyped, RequestsTyped, RequestTyped
<1>2. Changes(d, b, {"owed"})
  BY <1>1, EndFacts DEF CommitPay, Changes, BillsTyped
<1>3. /\ payments' = [payments EXCEPT ![b] = Append(@, r.amount)]
      /\ customer' = [customer EXCEPT !.outstanding = @ + -r.amount]
      /\ UNCHANGED <<transactions, overpaid>>
  BY DEF CommitPay, Owe
<1>4. invoice' = [invoice EXCEPT ![b] = Settled(invoice[b], n, due, standing)]
  BY DEF CommitPay, Settle, Settled
<1>5. IsRow(invoice[b])
  BY <1>1 DEF BillsTyped, InvoicesTyped, IsInvoice
<1>6. RowBecomes(b, n, due, invoice[b].refunded, standing)
  <2> HIDE DEF n, due, standing, b
  <2>1. PICK row : row = Settled(invoice[b], n, due, standing)
    OBVIOUS
  <2>2. RowHas(row, invoice[b], n, due, invoice[b].refunded, standing)
    BY <1>5, <2>1, SettledAmounts
  <2> QED
    BY <1>4, <2>1, <2>2 DEF RowBecomes
<1> QED
  BY <1>1, <1>2, <1>3, <1>6

LEMMA UnpayFacts ==
  ASSUME BillsTyped, NEW d \in Desks, CommitUnpay(d)
  PROVE  LET r == request[d]
             b == r.bill
             money == payments[b][r.index]
             n == AtLeastZero(r.paid - money)
             due == AtLeastZero(invoice[b].total - n)
         IN  /\ Doing(d, "unpay") /\ Changes(d, b, {"owed"})
             /\ RowBecomes(b, n, due, invoice[b].refunded, StatusFor(n, due))
             /\ payments' = [payments EXCEPT ![b][r.index] = 0] /\ money > 0
             /\ customer' = [customer EXCEPT !.outstanding = @ + money]
             /\ UNCHANGED <<transactions, overpaid>>
<1> DEFINE r == request[d]
           b == r.bill
           money == payments[b][r.index]
           n == AtLeastZero(r.paid - money)
           due == AtLeastZero(invoice[b].total - n)
           standing == StatusFor(n, due)
<1>1. /\ Doing(d, "unpay") /\ b \in BillHeld(d) /\ Exists(b) /\ b \in Made
  BY DEF CommitUnpay, Doing, BillHeld, BillsTyped, RequestsTyped, RequestTyped
<1>2. Changes(d, b, {"owed"})
  BY <1>1, EndFacts DEF CommitUnpay, Changes, BillsTyped
<1>3. /\ payments' = [payments EXCEPT ![b][r.index] = 0] /\ money > 0
      /\ customer' = [customer EXCEPT !.outstanding = @ + money]
      /\ UNCHANGED <<transactions, overpaid>>
  BY DEF CommitUnpay, Owe
<1>4. invoice' = [invoice EXCEPT ![b] = Settled(invoice[b], n, due, standing)]
  BY DEF CommitUnpay, Settle, Settled
<1>5. IsRow(invoice[b])
  BY <1>1 DEF BillsTyped, InvoicesTyped, IsInvoice
<1>6. RowBecomes(b, n, due, invoice[b].refunded, standing)
  <2> HIDE DEF n, due, standing, b
  <2>1. PICK row : row = Settled(invoice[b], n, due, standing)
    OBVIOUS
  <2>2. RowHas(row, invoice[b], n, due, invoice[b].refunded, standing)
    BY <1>5, <2>1, SettledAmounts
  <2> QED
    BY <1>4, <2>1, <2>2 DEF RowBecomes
<1> QED
  BY <1>1, <1>2, <1>3, <1>6

LEMMA RefundFacts ==
  ASSUME BillsTyped, NEW d \in Desks, CommitRefund(d)
  PROVE  LET r == request[d]
             b == r.bill
             n == r.refunded + r.amount
         IN  /\ Doing(d, "refund") /\ Changes(d, b, {})
             /\ RowBecomes(b, invoice[b].paid, invoice[b].due, n,
                        IF n >= invoice[b].total THEN "REFUNDED" ELSE r.status)
             /\ customer' = [customer EXCEPT !.wallet = @ + (IF r.toWallet THEN r.amount ELSE 0)]
             /\ UNCHANGED <<payments, transactions, overpaid>>
<1> DEFINE r == request[d]
           b == r.bill
           n == r.refunded + r.amount
           standing == IF n >= invoice[b].total THEN "REFUNDED" ELSE r.status
<1>1. /\ Doing(d, "refund") /\ b \in BillHeld(d) /\ Exists(b) /\ b \in Made
  BY DEF CommitRefund, Doing, BillHeld, BillsTyped, RequestsTyped, RequestTyped
<1>2. Changes(d, b, {})
  BY <1>1, EndFacts DEF CommitRefund, Changes, BillsTyped
<1>3. /\ customer' = [customer EXCEPT !.wallet = @ + (IF r.toWallet THEN r.amount ELSE 0)]
      /\ UNCHANGED <<payments, transactions, overpaid>>
  BY DEF CommitRefund
<1>4. invoice' = [invoice EXCEPT ![b] = [invoice[b] EXCEPT !.refunded = n, !.status = standing]]
  BY DEF CommitRefund
<1>5. IsRow(invoice[b])
  BY <1>1 DEF BillsTyped, InvoicesTyped, IsInvoice
<1>6. RowBecomes(b, invoice[b].paid, invoice[b].due, n, standing)
  <2> HIDE DEF n, standing, b
  <2>1. PICK row : row = [invoice[b] EXCEPT !.refunded = n, !.status = standing]
    OBVIOUS
  <2>2. RowHas(row, invoice[b], invoice[b].paid, invoice[b].due, n, standing)
    BY <1>5, <2>1, RefundedAmounts
  <2> QED
    BY <1>4, <2>1, <2>2 DEF RowBecomes
<1> QED
  BY <1>1, <1>2, <1>3, <1>6

LEMMA VoidAmounts ==
  ASSUME BillsTyped, NEW d \in Desks, CommitVoid(d)
  PROVE  LET r == request[d]
             b == r.bill
         IN  /\ At(d, "void", "commit")
             /\ Changes(d, b, {"visits", "owed", "points"} \cup RowOf(invoice[b].line))
             /\ RowBecomes(b, invoice[b].paid, 0, invoice[b].refunded, "VOID")
             /\ customer' = CustomerAfterVoid(r, invoice[b])
             /\ transactions' = transactions + invoice[b].redeemed - invoice[b].earned
             /\ UNCHANGED <<payments, overpaid>>
<1> DEFINE r == request[d]
           b == r.bill
<1>1. /\ At(d, "void", "commit") /\ b \in BillHeld(d) /\ Exists(b) /\ b \in Made
  BY DEF CommitVoid, Doing, At, BillHeld, BillsTyped, RequestsTyped, RequestTyped
<1>2. Changes(d, b, {"visits", "owed", "points"} \cup RowOf(invoice[b].line))
  BY <1>1, EndFacts DEF CommitVoid, Changes, BillsTyped
<1>3. /\ customer' = CustomerAfterVoid(r, invoice[b])
      /\ transactions' = transactions + invoice[b].redeemed - invoice[b].earned
      /\ UNCHANGED <<payments, overpaid>>
  BY DEF CommitVoid
<1>4. invoice' = [invoice EXCEPT ![b] = [invoice[b] EXCEPT !.status = "VOID", !.due = 0]]
  BY DEF CommitVoid
<1>5. IsRow(invoice[b])
  BY <1>1 DEF BillsTyped, InvoicesTyped, IsInvoice
<1>6. RowBecomes(b, invoice[b].paid, 0, invoice[b].refunded, "VOID")
  <2> HIDE DEF b
  <2>1. PICK row : row = [invoice[b] EXCEPT !.status = "VOID", !.due = 0]
    OBVIOUS
  <2>2. RowHas(row, invoice[b], invoice[b].paid, 0, invoice[b].refunded, "VOID")
    BY <1>5, <2>1, VoidedAmounts
  <2> QED
    BY <1>4, <2>1, <2>2 DEF RowBecomes
<1> QED
  BY <1>1, <1>2, <1>3, <1>6

LEMMA DeleteAmounts ==
  ASSUME BillsTyped, NEW d \in Desks, CommitDelete(d)
  PROVE  LET b == request[d].bill
         IN  /\ Doing(d, "delete") /\ Changes(d, b, {})
             /\ RowBecomes(b, invoice[b].paid, invoice[b].due, invoice[b].refunded, "DELETED")
             /\ payments' = [payments EXCEPT ![b] = <<>>]
             /\ UNCHANGED <<customer, transactions, overpaid>>
<1> DEFINE r == request[d]
           b == r.bill
<1>1. /\ Doing(d, "delete") /\ b \in BillHeld(d) /\ Exists(b) /\ b \in Made
  BY DEF CommitDelete, Doing, BillHeld, BillsTyped, RequestsTyped, RequestTyped
<1>2. Changes(d, b, {})
  BY <1>1, EndFacts DEF CommitDelete, Changes, BillsTyped
<1>3. /\ payments' = [payments EXCEPT ![b] = <<>>]
      /\ UNCHANGED <<customer, transactions, overpaid>>
  BY DEF CommitDelete
<1>4. invoice' = [invoice EXCEPT ![b] = [invoice[b] EXCEPT !.status = "DELETED"]]
  BY DEF CommitDelete
<1>5. IsRow(invoice[b])
  BY <1>1 DEF BillsTyped, InvoicesTyped, IsInvoice
<1>6. RowBecomes(b, invoice[b].paid, invoice[b].due, invoice[b].refunded, "DELETED")
  <2> HIDE DEF b
  <2>1. PICK row : row = [invoice[b] EXCEPT !.status = "DELETED"]
    OBVIOUS
  <2>2. RowHas(row, invoice[b], invoice[b].paid, invoice[b].due, invoice[b].refunded, "DELETED")
    BY <1>5, <2>1, StatusAlone
  <2> QED
    BY <1>4, <2>1, <2>2 DEF RowBecomes
<1> QED
  BY <1>1, <1>2, <1>3, <1>6

\* The sums of the till.

LEMMA SumOfSum ==
  ASSUME NEW s, IsFiniteSet(DOMAIN s)
  PROVE  SumOf(s) = Sum(s, DOMAIN s)
<1>1. PICK g : IsSum(g, s, DOMAIN s) /\ SumOf(s) = g[DOMAIN s]
  BY SumOfIs
<1>2. PICK h : IsSum(h, s, DOMAIN s) /\ Sum(s, DOMAIN s) = h[DOMAIN s]
  BY SumIs
<1> DEFINE D == DOMAIN s
<1>3. \A u \in SUBSET (D \cap D) : g[u] = h[u]
  BY <1>1, <1>2, SumAgrees
<1> QED
  BY <1>1, <1>2, <1>3

LEMMA SeqFinite ==
  ASSUME NEW s \in Seq(Nat)
  PROVE  IsFiniteSet(DOMAIN s) /\ \A i \in DOMAIN s : s[i] \in Nat /\ s[i] \in Int
<1>1. DOMAIN s = 1..Len(s) /\ Len(s) \in Nat
  OBVIOUS
<1>2. IsFiniteSet(1..Len(s))
  BY <1>1, FS_Interval
<1> QED
  BY <1>1, <1>2

LEMMA PaymentsSum ==
  ASSUME NEW s \in Seq(Nat)
  PROVE  SumOf(s) \in Nat
<1>1. Sum(s, DOMAIN s) \in Nat
  BY SeqFinite, SumType
<1> QED
  BY <1>1, SeqFinite, SumOfSum

LEMMA PaymentAdded ==
  ASSUME NEW s \in Seq(Nat), NEW n \in Nat
  PROVE  Append(s, n) \in Seq(Nat) /\ SumOf(Append(s, n)) = SumOf(s) + n
<1>1. PICK t : t = Append(s, n)
  OBVIOUS
<1>2. PICK k : k = Len(s) + 1
  OBVIOUS
<1>3. /\ t \in Seq(Nat) /\ k \in DOMAIN t /\ t[k] = n /\ DOMAIN t \ {k} = DOMAIN s
      /\ \A i \in DOMAIN s : t[i] = s[i]
  <2>1. t \in Seq(Nat) /\ Len(t) = k /\ k \in Nat /\ Len(s) = k - 1
    BY <1>1, <1>2
  <2>2. DOMAIN t = 1..k /\ DOMAIN s = 1..(k - 1)
    BY <2>1
  <2>3. DOMAIN t \ {k} = DOMAIN s /\ k \in DOMAIN t
    BY <1>2, <2>1, <2>2
  <2>4. t[k] = n
    BY <1>1, <1>2
  <2>5. \A i \in DOMAIN s : t[i] = s[i]
    BY <1>1
  <2> QED
    BY <2>1, <2>3, <2>4, <2>5
<1>4. Sum(t, DOMAIN t) = t[k] + Sum(t, DOMAIN t \ {k})
  <2>1. IsFiniteSet(DOMAIN t) /\ k \in DOMAIN t /\ \A j \in DOMAIN t : t[j] \in Int
    BY <1>3, SeqFinite
  <2> QED
    BY <2>1, SumSplit
<1>5. Sum(t, DOMAIN s) = Sum(s, DOMAIN s)
  BY <1>3, SeqFinite, SumSame
<1>6. SumOf(t) = Sum(t, DOMAIN t) /\ SumOf(s) = Sum(s, DOMAIN s) /\ SumOf(s) \in Nat
  BY <1>3, SeqFinite, SumOfSum, PaymentsSum
<1>7. SumOf(t) = n + SumOf(s)
  BY <1>3, <1>4, <1>5, <1>6
<1>8. SumOf(t) = SumOf(s) + n
  BY <1>6, <1>7
<1> QED
  BY <1>1, <1>3, <1>8

LEMMA PaymentErased ==
  ASSUME NEW s \in Seq(Nat), NEW i \in DOMAIN s, NEW t, t = [s EXCEPT ![i] = 0]
  PROVE  t \in Seq(Nat) /\ SumOf(s) = SumOf(t) + s[i] /\ SumOf(t) \in Nat
<1>1. /\ t \in Seq(Nat) /\ DOMAIN t = DOMAIN s /\ t[i] = 0
      /\ \A j \in DOMAIN s \ {i} : t[j] = s[j]
  OBVIOUS
<1> DEFINE D == DOMAIN s
           B == D \ {i}
<1>0. IsFiniteSet(D) /\ \A j \in D : s[j] \in Int /\ t[j] \in Int
  <2>1. IsFiniteSet(D)
    BY SeqFinite
  <2>2. \A j \in D : s[j] \in Int
    OBVIOUS
  <2>3. \A j \in D : t[j] \in Int
    BY <1>1
  <2> QED
    BY <2>1, <2>2, <2>3
<1> HIDE DEF D
<1>2. Sum(t, D) = t[i] + Sum(t, B)
  <2>1. \A j \in D : t[j] \in Int
    BY <1>0
  <2>2. i \in D
    BY DEF D
  <2> QED
    BY <1>0, <2>1, <2>2, SumSplit
<1>3. Sum(s, D) = s[i] + Sum(s, B)
  <2>1. \A j \in D : s[j] \in Int
    BY <1>0
  <2>2. i \in D
    BY DEF D
  <2> QED
    BY <1>0, <2>1, <2>2, SumSplit
<1> USE DEF D
<1>4. IsFiniteSet(B)
  BY SeqFinite, FS_Subset
<1>5. Sum(t, B) = Sum(s, B)
  <2>1. \A j \in B : t[j] = s[j] /\ t[j] \in Int
    BY <1>0, <1>1
  <2> HIDE DEF B
  <2> QED
    BY <1>4, <2>1, SumSame
<1>6. SumOf(t) = Sum(t, D) /\ SumOf(s) = Sum(s, D) /\ SumOf(t) \in Nat /\ SumOf(s) \in Nat
  BY <1>1, SeqFinite, SumOfSum, PaymentsSum
<1>7. Sum(t, B) \in Int
  BY <1>1, <1>4, SeqFinite, SumType
<1>8. s[i] \in Nat
  BY SeqFinite
<1> HIDE DEF B, D
<1>9. SumOf(s) = SumOf(t) + s[i]
  BY <1>1, <1>2, <1>3, <1>5, <1>6, <1>7, <1>8
<1> QED
  BY <1>1, <1>6, <1>9

\* The sums over bills are sums of columns.

LEMMA DuesSum ==
  ASSUME NEW S \in SUBSET Bills
  PROVE  SumOver(S, LAMBDA b : invoice[b].due) = Sum(Dues, S)
<1> DEFINE one(s) == CHOOSE x \in s : TRUE
<1>0. IsFiniteSet(S)
  BY BillsFinite, FS_Subset
<1>1. \A s \in SUBSET S : s # {} => Dues[one(s)] = invoice[one(s)].due
  <2> SUFFICES ASSUME NEW s \in SUBSET S, s # {} PROVE Dues[one(s)] = invoice[one(s)].due
    OBVIOUS
  <2>1. one(s) \in s
    OBVIOUS
  <2> HIDE DEF one
  <2> QED
    BY <2>1 DEF Dues
<1>2. PICK g : IsSum(g, Dues, S)
  BY <1>0, SumExists
<1>3. g = [s \in SUBSET S |-> IF s = {} THEN 0 ELSE invoice[one(s)].due + g[s \ {one(s)}]]
  BY <1>1, <1>2 DEF IsSum, Adds
<1>4. \E h : /\ h = [s \in SUBSET S |-> IF s = {} THEN 0 ELSE invoice[one(s)].due + h[s \ {one(s)}]]
             /\ SumOver(S, LAMBDA b : invoice[b].due) = h[S]
  BY <1>3 DEF SumOver, MapThenSumSet, MapThenFoldSet
<1>5. PICK h : /\ h = [s \in SUBSET S |-> IF s = {} THEN 0 ELSE invoice[one(s)].due + h[s \ {one(s)}]]
               /\ SumOver(S, LAMBDA b : invoice[b].due) = h[S]
  BY <1>4
<1>6. IsSum(h, Dues, S)
  <2>1. ASSUME NEW s \in SUBSET S
        PROVE  (IF s = {} THEN 0 ELSE invoice[one(s)].due + h[s \ {one(s)}]) = Adds(h, Dues, s)
    BY <1>1 DEF Adds
  <2> HIDE DEF one
  <2> QED
    BY <1>5, <2>1 DEF IsSum
<1>7. PICK u : IsSum(u, Dues, S) /\ Sum(Dues, S) = u[S]
  BY <1>0, SumIs
<1>8. \A s \in SUBSET (S \cap S) : h[s] = u[s]
  BY <1>0, <1>6, <1>7, SumAgrees
<1> QED
  BY <1>5, <1>7, <1>8

LEMMA TotalsSum ==
  ASSUME NEW S \in SUBSET Bills
  PROVE  SumOver(S, LAMBDA b : invoice[b].total) = Sum(Totals, S)
<1> DEFINE one(s) == CHOOSE x \in s : TRUE
<1>0. IsFiniteSet(S)
  BY BillsFinite, FS_Subset
<1>1. \A s \in SUBSET S : s # {} => Totals[one(s)] = invoice[one(s)].total
  <2> SUFFICES ASSUME NEW s \in SUBSET S, s # {} PROVE Totals[one(s)] = invoice[one(s)].total
    OBVIOUS
  <2>1. one(s) \in s
    OBVIOUS
  <2> HIDE DEF one
  <2> QED
    BY <2>1 DEF Totals
<1>2. PICK g : IsSum(g, Totals, S)
  BY <1>0, SumExists
<1>3. g = [s \in SUBSET S |-> IF s = {} THEN 0 ELSE invoice[one(s)].total + g[s \ {one(s)}]]
  BY <1>1, <1>2 DEF IsSum, Adds
<1>4. \E h : /\ h = [s \in SUBSET S |-> IF s = {} THEN 0 ELSE invoice[one(s)].total + h[s \ {one(s)}]]
             /\ SumOver(S, LAMBDA b : invoice[b].total) = h[S]
  BY <1>3 DEF SumOver, MapThenSumSet, MapThenFoldSet
<1>5. PICK h : /\ h = [s \in SUBSET S |-> IF s = {} THEN 0 ELSE invoice[one(s)].total + h[s \ {one(s)}]]
               /\ SumOver(S, LAMBDA b : invoice[b].total) = h[S]
  BY <1>4
<1>6. IsSum(h, Totals, S)
  <2>1. ASSUME NEW s \in SUBSET S
        PROVE  (IF s = {} THEN 0 ELSE invoice[one(s)].total + h[s \ {one(s)}]) = Adds(h, Totals, s)
    BY <1>1 DEF Adds
  <2> HIDE DEF one
  <2> QED
    BY <1>5, <2>1 DEF IsSum
<1>7. PICK u : IsSum(u, Totals, S) /\ Sum(Totals, S) = u[S]
  BY <1>0, SumIs
<1>8. \A s \in SUBSET (S \cap S) : h[s] = u[s]
  BY <1>0, <1>6, <1>7, SumAgrees
<1> QED
  BY <1>5, <1>7, <1>8

\* One element changes its amount, comes or goes.
LEMMA SumChanged ==
  ASSUME NEW f, NEW e, NEW S, IsFiniteSet(S), NEW b \in S,
         \A x \in S : f[x] \in Int /\ e[x] \in Int, \A x \in S \ {b} : f[x] = e[x]
  PROVE  Sum(e, S) = Sum(f, S) - f[b] + e[b]
<1> DEFINE B == S \ {b}
<1>1. IsFiniteSet(B)
  BY FS_Subset
<1>2. Sum(f, S) = f[b] + Sum(f, B) /\ Sum(e, S) = e[b] + Sum(e, B)
  BY SumSplit
<1>3. Sum(f, B) = Sum(e, B) /\ Sum(f, B) \in Int
  BY <1>1, SumSame, SumType
<1> HIDE DEF B
<1> QED
  BY <1>2, <1>3

LEMMA SumLeft ==
  ASSUME NEW f, NEW e, NEW S, IsFiniteSet(S), NEW b \in S,
         \A x \in S : f[x] \in Int, NEW T, T = S \ {b}, \A x \in T : f[x] = e[x]
  PROVE  Sum(e, T) = Sum(f, S) - f[b]
<1> DEFINE B == S \ {b}
<1>1. IsFiniteSet(B)
  BY FS_Subset
<1>2. Sum(f, S) = f[b] + Sum(f, B)
  BY SumSplit
<1>3. Sum(f, B) = Sum(e, B)
  BY <1>1, SumSame
<1>4. Sum(f, B) \in Int
  BY <1>1, SumType
<1>5. f[b] \in Int
  OBVIOUS
<1>6. Sum(e, B) = Sum(f, S) - f[b]
  <2> HIDE DEF B
  <2> QED
    BY <1>2, <1>3, <1>4, <1>5
<1> QED
  BY <1>6

LEMMA SumJoined ==
  ASSUME NEW f, NEW e, NEW S, IsFiniteSet(S), NEW b, b \notin S, e[b] \in Int,
         \A x \in S : f[x] \in Int, \A x \in S : f[x] = e[x]
  PROVE  Sum(e, S \cup {b}) = Sum(f, S) + e[b]
<1> DEFINE B == S \cup {b}
<1>1. IsFiniteSet(B) /\ B \ {b} = S /\ b \in B /\ \A x \in B : e[x] \in Int
  BY FS_AddElement
<1>2. Sum(e, B) = e[b] + Sum(e, B \ {b})
  <2> HIDE DEF B
  <2> QED
    BY <1>1, SumSplit
<1>3. Sum(f, S) = Sum(e, S) /\ Sum(f, S) \in Int
  BY SumSame, SumType
<1> HIDE DEF B
<1>4. Sum(e, B) = e[b] + Sum(f, S)
  BY <1>1, <1>2, <1>3
<1>5. Sum(e, B) = Sum(f, S) + e[b]
  BY <1>3, <1>4
<1> QED
  BY <1>5 DEF B

LEMMA NatQuotient ==
  ASSUME NEW a \in Nat, NEW b \in Nat \ {0}
  PROVE  a \div b \in Nat
OBVIOUS

\* A new bill, the customer and the payments it comes with.
Creates(d, b, total, points, wallet, given, due, earned) ==
    LET r == request[d]
        row == invoice'[b]
    IN
    /\ At(d, "create", "commit") /\ Ends(d)
    /\ b \in Bills /\ b \notin Made /\ Made' = Made \cup {b}
    /\ \A c \in Bills \ {b} : invoice'[c] = invoice[c]
    /\ total \in Nat /\ due \in Nat /\ earned \in Nat
    /\ points \in Nat /\ points <= r.basket.points
    /\ wallet \in Nat /\ (wallet > 0 => r.basket.wallet > 0 /\ wallet <= r.seen.wallet)
    /\ given \in Seq(Nat) /\ due = AtLeastZero(total - SumOf(given))
    /\ row.total = total /\ row.paid = Least(SumOf(given), total) /\ row.due = due
    /\ row.refunded = 0 /\ row.earned = earned /\ row.redeemed = points
    /\ row.status = StatusFor(SumOf(given), due)
    /\ payments' = [payments EXCEPT ![b] = given]
    /\ customer' = [wallet |-> customer.wallet - wallet, outstanding |-> customer.outstanding + due,
                    visits |-> r.seen.visits + 1, spent |-> r.seen.spent + total,
                    points |-> customer.points - points + earned]
    /\ transactions' = transactions - points + earned
    /\ overpaid' = IF SumOf(given) > total THEN overpaid \cup {b} ELSE overpaid
    /\ Crossing(d, {}, {"visits", "owed"} \cup (IF wallet > 0 THEN {"wallet"} ELSE {})
                         \cup (IF points + earned > 0 THEN {"points"} ELSE {})
                         \cup RowOf(r.basket.line))

LEMMA CreateAmounts ==
  ASSUME BillsInv, NEW d \in Desks, AskedTyped(d), CommitCreate(d)
  PROVE  \E b, total, points, wallet, given, due, earned :
            Creates(d, b, total, points, wallet, given, due, earned)
<1>1. PICK r : r = request[d]
  OBVIOUS
<1>2. /\ IsCreation(r) /\ Doing(d, "create") /\ r.seen.wallet \in Int /\ r.basket \in Baskets
      /\ At(d, "create", "commit")
  BY <1>1 DEF CommitCreate, At, AskedTyped, BillsInv, BillsTyped, RequestsTyped, RequestTyped, IsCreation
<1>3. r.basket.points \in Nat /\ r.basket.wallet \in Nat /\ r.basket.payments \in Seq(Nat)
  BY <1>2, BasketsAssumption
<1>4. PICK total : total = Total(r.basket.line)
  OBVIOUS
<1>5. PICK points : points = PointsValue(r.basket.points, total)
  OBVIOUS
<1>6. PICK wallet : wallet = FromWallet(r, total - points)
  OBVIOUS
<1>7. PICK given : given = r.basket.payments \o <<points, wallet>>
  OBVIOUS
<1>8. PICK due : due = AtLeastZero(total - SumOf(given))
  OBVIOUS
<1>9. PICK earned : earned = PointsEarned(total)
  OBVIOUS
<1>10. total \in Nat
  BY <1>4, PriceAssumption DEF Total
<1>11. points \in Nat /\ points <= r.basket.points /\ points <= total
  <2>1. total \div 2 \in Nat /\ total \div 2 <= total
    BY <1>10
  <2> QED
    BY <1>3, <1>5, <1>10, <2>1 DEF PointsValue, Least
<1>12. wallet \in Nat /\ (wallet > 0 => r.basket.wallet > 0 /\ wallet <= r.seen.wallet)
  <2>1. total - points \in Int
    BY <1>10, <1>11
  <2>2. PICK w, v, left : w = r.basket.wallet /\ v = r.seen.wallet /\ left = total - points
    OBVIOUS
  <2>3. wallet = AtLeastZero(Least(w, Least(v, left)))
    BY <1>6, <2>2 DEF FromWallet
  <2>4. w \in Nat /\ v \in Int /\ left \in Int
    BY <1>2, <1>3, <2>1, <2>2
  <2>5. wallet \in Nat /\ (wallet > 0 => w > 0 /\ wallet <= v)
    BY <2>3, <2>4 DEF AtLeastZero, Least
  <2> QED
    BY <2>2, <2>5
<1>13. given \in Seq(Nat) /\ SumOf(given) \in Nat
  <2>1. given \in Seq(Nat)
    BY <1>3, <1>7, <1>11, <1>12
  <2> QED
    BY <2>1, PaymentsSum
<1>14. due \in Nat
  BY <1>8, <1>10, <1>13 DEF AtLeastZero
<1>15. earned \in Nat
  <2>1. CASE AmountPerPoint = 0
    BY <1>9, <2>1 DEF PointsEarned
  <2>2. CASE AmountPerPoint # 0
    BY <1>9, <1>10, <2>2, PriceAssumption, NatQuotient DEF PointsEarned
  <2> QED
    BY <2>1, <2>2
<1>16. PICK b : b = Cardinality(Made) + 1
  OBVIOUS
<1>17. b \in Bills /\ b \notin Made /\ Made' = Made \cup {b} /\ InvoicesTyped
  BY <1>16, MakingFacts DEF BillsInv, BillsTyped
<1>18. PICK row :
         /\ row = [status |-> StatusFor(SumOf(given), due), kind |-> r.basket.kind,
                   number |-> r.number, line |-> r.basket.line,
                   appointment |-> r.basket.appointment, total |-> total,
                   paid |-> Least(SumOf(given), total), due |-> due, refunded |-> 0,
                   earned |-> earned, redeemed |-> points]
         /\ invoice' = [invoice EXCEPT ![b] = row]
  BY <1>1, <1>4, <1>5, <1>6, <1>7, <1>8, <1>9, <1>16 DEF CommitCreate
<1>19. invoice'[b] = row /\ \A c \in Bills \ {b} : invoice'[c] = invoice[c]
  BY <1>17, <1>18 DEF InvoicesTyped
<1>20. /\ row.total = total /\ row.paid = Least(SumOf(given), total) /\ row.due = due
       /\ row.refunded = 0 /\ row.earned = earned /\ row.redeemed = points
       /\ row.status = StatusFor(SumOf(given), due)
  BY <1>18
<1>21. /\ payments' = [payments EXCEPT ![b] = given]
       /\ customer' = [wallet |-> customer.wallet - wallet,
                       outstanding |-> customer.outstanding + due,
                       visits |-> r.seen.visits + 1, spent |-> r.seen.spent + total,
                       points |-> customer.points - points + earned]
       /\ transactions' = transactions - points + earned
       /\ overpaid' = (IF SumOf(given) > total THEN overpaid \cup {b} ELSE overpaid)
  BY <1>1, <1>4, <1>5, <1>6, <1>7, <1>8, <1>9, <1>16 DEF CommitCreate
<1>22. Crossing(d, {}, {"visits", "owed"} \cup (IF wallet > 0 THEN {"wallet"} ELSE {})
                         \cup (IF points + earned > 0 THEN {"points"} ELSE {})
                         \cup RowOf(r.basket.line))
  BY <1>1, <1>4, <1>5, <1>6, <1>9 DEF CommitCreate
<1>23. Ends(d)
  BY EndFacts DEF CommitCreate, BillsInv, BillsTyped
<1>24. Creates(d, b, total, points, wallet, given, due, earned)
  BY <1>1, <1>2, <1>8, <1>10, <1>11, <1>12, <1>13, <1>14, <1>15, <1>17, <1>19, <1>20, <1>21, <1>22, <1>23
     DEF Creates
<1> QED
  BY <1>24

\* Nothing of the money moves, and one request goes on.
Idles == UNCHANGED <<invoice, payments, customer, transactions, crossedBills, crossedRows, overpaid>>

RequestFits(d) ==
    /\ AskedTyped(d) /\ AmountFits(d)
    /\ "wallet" \notin crossedRows => WalletFits(d)
    /\ "points" \notin crossedRows => PointsFit(d)
    /\ DebtKnown => DebtFits(d)
    /\ VisitsKnown => VisitsFit(d)

RowsFit ==
    /\ MoneyTyped /\ BillsAddUp
    /\ "wallet" \notin crossedRows => customer.wallet >= 0
    /\ "points" \notin crossedRows => customer.points >= AtLeastZero(transactions)
    /\ DebtKnown => customer.outstanding = Outstanding
    /\ VisitsKnown => customer.visits = Cardinality(LiveBills) /\ customer.spent = Spent

LEMMA MoneyParts ==
  MoneyInv <=> RowsFit /\ \A d \in Desks : RequestFits(d)
BY DEF MoneyInv, RowsFit, RequestFits, WalletKept, PointsCovered, DebtKept, VisitsKept

LEMMA MoneyPartsNext ==
  ASSUME RowsFit', \A d \in Desks : RequestFits(d)'
  PROVE  MoneyInv'
BY DEF MoneyInv, RowsFit, RequestFits, WalletKept, PointsCovered, DebtKept, VisitsKept

LEMMA RowsIdle ==
  ASSUME RowsFit, Idles
  PROVE  RowsFit'
<1>1. Made' = Made /\ LiveBills' = LiveBills
  BY DEF Idles, Made, LiveBills, Live, Exists
<1>2. MoneyTyped'
  BY <1>1 DEF RowsFit, Idles, MoneyTyped, AmountsTyped
<1>3. BillsAddUp'
  BY <1>1 DEF RowsFit, Idles, BillsAddUp, RowAddsUp
<1>4. Outstanding' = Outstanding /\ Spent' = Spent
  BY <1>1 DEF Idles, Outstanding, Spent, Dues, Totals
<1>5. /\ DebtKnown' => DebtKnown
      /\ VisitsKnown' => VisitsKnown
  BY <1>1 DEF Idles, DebtKnown, VisitsKnown, NoneReturned
<1> QED
  BY <1>1, <1>2, <1>3, <1>4, <1>5 DEF RowsFit, Idles

LEMMA OtherIdle ==
  ASSUME NEW e \in Desks, RequestFits(e), Idles, request'[e] = request[e]
  PROVE  RequestFits(e)'
<1>1. Made' = Made /\ LiveBills' = LiveBills
  BY DEF Idles, Made, LiveBills, Live, Exists
<1>2. AskedTyped(e)'
  BY DEF RequestFits, Idles, AskedTyped, Doing, Exists
<1>3. AmountFits(e)'
  BY DEF RequestFits, Idles, AmountFits, BillHeld, Doing, Live, Exists
<1>4. Outstanding' = Outstanding /\ Spent' = Spent
  BY <1>1 DEF Idles, Outstanding, Spent, Dues, Totals
<1>5. /\ DebtKnown' => DebtKnown
      /\ VisitsKnown' => VisitsKnown
  BY <1>1 DEF Idles, DebtKnown, VisitsKnown, NoneReturned
<1>6. /\ "wallet" \notin crossedRows' => WalletFits(e)'
      /\ "points" \notin crossedRows' => PointsFit(e)'
  BY DEF RequestFits, Idles, WalletFits, PointsFit, At, Doing
<1>7. DebtKnown' => DebtFits(e)'
  BY <1>4, <1>5 DEF RequestFits, DebtFits, Doing
<1>8. VisitsKnown' => VisitsFit(e)'
  BY <1>1, <1>4, <1>5 DEF RequestFits, Idles, VisitsFit, At, Doing
<1> QED
  BY <1>2, <1>3, <1>6, <1>7, <1>8 DEF RequestFits

LEMMA DeskIdle ==
  ASSUME NEW d \in Desks, request'[d] = Idle
  PROVE  RequestFits(d)'
BY DEF RequestFits, AskedTyped, AmountFits, WalletFits, PointsFit, DebtFits, VisitsFit, At, Doing, BillHeld

LEMMA IdleStep ==
  ASSUME MoneyInv, NEW d \in Desks, OthersWait(d), Idles, RequestFits(d)'
  PROVE  MoneyInv'
<1>1. RowsFit /\ \A e \in Desks : RequestFits(e)
  BY MoneyParts
<1>2. RowsFit'
  BY <1>1, RowsIdle
<1>3. \A e \in Desks : RequestFits(e)'
  BY <1>1, OtherIdle DEF OthersWait
<1> QED
  BY <1>2, <1>3, MoneyPartsNext

\* Requests that are made, and go on.

LEMMA BeginIdles ==
  ASSUME RequestsTyped, NEW d \in Desks, NEW r, Begin(d, r)
  PROVE  OthersWait(d) /\ Idles /\ request'[d] = r
BY BeginFacts DEF Begin, Idles, data, history

LEMMA IdleFacts ==
  ASSUME Idles
  PROVE  /\ \A b : Live(b)' = Live(b) /\ Exists(b)' = Exists(b)
         /\ Made' = Made /\ LiveBills' = LiveBills
         /\ Outstanding' = Outstanding /\ Spent' = Spent
         /\ DebtKnown' = DebtKnown /\ VisitsKnown' = VisitsKnown
<1>1. Made' = Made /\ LiveBills' = LiveBills /\ \A b : Live(b)' = Live(b) /\ Exists(b)' = Exists(b)
  BY DEF Idles, Made, LiveBills, Live, Exists
<1>2. Outstanding' = Outstanding /\ Spent' = Spent
  BY <1>1 DEF Idles, Outstanding, Spent, Dues, Totals
<1>3. DebtKnown' = DebtKnown /\ VisitsKnown' = VisitsKnown
  BY <1>1 DEF Idles, DebtKnown, VisitsKnown, NoneReturned
<1> QED
  BY <1>1, <1>2, <1>3

\* A request for a bill that was looked at just now.
LEMMA AskedOfBill ==
  ASSUME Idles, NEW d \in Desks, NEW r, request'[d] = r, NEW b \in Bills, r.bill = b,
         r.op \in {"pay", "unpay", "refund", "void", "delete"},
         r.op = "pay" => r.paid \in Nat /\ r.amount \in Nat \ {0},
         r.op = "unpay" => r.paid \in Nat /\ r.index \in DOMAIN payments[b],
         r.op = "refund" => r.refunded \in Nat /\ r.amount \in Nat \ {0},
         r.op = "void" => /\ r.step = "stock" /\ r.due \in Nat
                          /\ r.seen.visits \in Int /\ r.seen.spent \in Int /\ r.seen.points \in Int,
         IF r.op = "delete" THEN ~Live(b) ELSE Live(b),
         r.op = "pay" => r.paid = invoice[b].paid /\ r.amount <= invoice[b].due,
         r.op = "unpay" => r.paid = invoice[b].paid /\ invoice[b].status # "REFUNDED",
         r.op = "refund" => /\ r.refunded = invoice[b].refunded /\ r.status = invoice[b].status
                            /\ r.amount <= invoice[b].paid - invoice[b].refunded,
         r.op = "void" => r.due = invoice[b].due
  PROVE  RequestFits(d)'
<1>1. \A c : Live(c)' = Live(c) /\ Exists(c)' = Exists(c)
  BY IdleFacts
<1>2. AskedTyped(d)'
  BY <1>1 DEF AskedTyped, Doing, Idles
<1>3. AmountFits(d)'
  <2>1. UNCHANGED invoice
    BY DEF Idles
  <2>2. CASE r = Idle
    BY <2>2 DEF AmountFits, BillHeld
  <2>3. CASE r # Idle
    <3>1. Doing(d, "delete")' <=> r.op = "delete"
      BY <2>3 DEF Doing
    <3>2. IF Doing(d, "delete")' THEN ~Live(b)' ELSE Live(b)'
      BY <1>1, <3>1
    <3> QED
      BY <2>1, <3>2 DEF AmountFits, Doing
  <2> QED
    BY <2>2, <2>3
<1>4. WalletFits(d)' /\ PointsFit(d)' /\ DebtFits(d)' /\ VisitsFit(d)'
  BY DEF WalletFits, PointsFit, DebtFits, VisitsFit, At, Doing
<1> QED
  BY <1>2, <1>3, <1>4 DEF RequestFits

LEMMA RowKnown ==
  ASSUME BillsInv, MoneyInv, NEW b \in Bills, Exists(b)
  PROVE  /\ b \in Made /\ (invoice[b].status # "VOID" => Live(b))
         /\ invoice[b].total \in Nat /\ invoice[b].paid \in Nat /\ invoice[b].due \in Nat
         /\ invoice[b].refunded \in Nat /\ payments[b] \in Seq(Nat)
<1>1. b \in Made /\ (invoice[b].status # "VOID" => Live(b))
  BY DEF Made, Exists, Live
<1> QED
  BY <1>1 DEF MoneyInv, MoneyTyped, AmountsTyped

LEMMA AskPayFits ==
  ASSUME BillsInv, MoneyInv, NEW d \in Desks, NEW b \in Bills, NEW n \in 1..Price, AskPay(d, b, n)
  PROVE  OthersWait(d) /\ Idles /\ RequestFits(d)'
<1>1. PICK r : r = [op |-> "pay", bill |-> b, amount |-> n, paid |-> invoice[b].paid]
  OBVIOUS
<1>2. Begin(d, r) /\ Exists(b) /\ invoice[b].status # "VOID" /\ n =< invoice[b].due
  BY <1>1 DEF AskPay
<1>3. OthersWait(d) /\ Idles /\ request'[d] = r
  BY <1>2, BeginIdles DEF BillsInv, BillsTyped
<1>4. /\ r.op = "pay" /\ r.bill = b /\ r.amount = n /\ r.paid = invoice[b].paid
      /\ n \in Nat \ {0}
  BY <1>1, PriceAssumption
<1>5. Live(b) /\ invoice[b].paid \in Nat
  BY <1>2, RowKnown
<1>6. RequestFits(d)'
  BY <1>2, <1>3, <1>4, <1>5, AskedOfBill
<1> QED
  BY <1>3, <1>6

LEMMA AskUnpayFits ==
  ASSUME BillsInv, MoneyInv, NEW d \in Desks, NEW b \in Bills, NEW i \in DOMAIN payments[b], AskUnpay(d, b, i)
  PROVE  OthersWait(d) /\ Idles /\ RequestFits(d)'
<1>1. PICK r : r = [op |-> "unpay", bill |-> b, index |-> i, paid |-> invoice[b].paid]
  OBVIOUS
<1>2. Begin(d, r) /\ Exists(b) /\ invoice[b].status \notin {"VOID", "REFUNDED"}
  BY <1>1 DEF AskUnpay
<1>3. OthersWait(d) /\ Idles /\ request'[d] = r
  BY <1>2, BeginIdles DEF BillsInv, BillsTyped
<1>4. r.op = "unpay" /\ r.bill = b /\ r.index = i /\ r.paid = invoice[b].paid
  BY <1>1
<1>5. Live(b) /\ invoice[b].paid \in Nat
  BY <1>2, RowKnown
<1>6. RequestFits(d)'
  BY <1>2, <1>3, <1>4, <1>5, AskedOfBill
<1> QED
  BY <1>3, <1>6

LEMMA AskRefundFits ==
  ASSUME BillsInv, MoneyInv, NEW d \in Desks, NEW b \in Bills, NEW n \in 1..Price,
         NEW toWallet \in BOOLEAN, AskRefund(d, b, n, toWallet)
  PROVE  OthersWait(d) /\ Idles /\ RequestFits(d)'
<1>1. PICK r : r = [op |-> "refund", bill |-> b, amount |-> n, toWallet |-> toWallet,
                    refunded |-> invoice[b].refunded, status |-> invoice[b].status]
  OBVIOUS
<1>2. /\ Begin(d, r) /\ Exists(b) /\ invoice[b].status # "VOID"
      /\ n =< invoice[b].paid - invoice[b].refunded
  BY <1>1 DEF AskRefund
<1>3. OthersWait(d) /\ Idles /\ request'[d] = r
  BY <1>2, BeginIdles DEF BillsInv, BillsTyped
<1>4. /\ r.op = "refund" /\ r.bill = b /\ r.amount = n /\ r.refunded = invoice[b].refunded
      /\ r.status = invoice[b].status /\ n \in Nat \ {0}
  BY <1>1, PriceAssumption
<1>5. Live(b) /\ invoice[b].refunded \in Nat
  BY <1>2, RowKnown
<1>6. RequestFits(d)'
  BY <1>2, <1>3, <1>4, <1>5, AskedOfBill
<1> QED
  BY <1>3, <1>6

LEMMA AskVoidFits ==
  ASSUME BillsInv, MoneyInv, NEW d \in Desks, NEW b \in Bills, AskVoid(d, b)
  PROVE  OthersWait(d) /\ Idles /\ RequestFits(d)'
<1>1. PICK r : r = [op |-> "void", bill |-> b, step |-> "stock", due |-> invoice[b].due,
                    seen |-> [stock |-> 0, visits |-> 0, spent |-> 0, points |-> 0]]
  OBVIOUS
<1>2. Begin(d, r) /\ Exists(b) /\ invoice[b].status # "VOID"
  BY <1>1 DEF AskVoid
<1>3. OthersWait(d) /\ Idles /\ request'[d] = r
  BY <1>2, BeginIdles DEF BillsInv, BillsTyped
<1>4. /\ r.op = "void" /\ r.bill = b /\ r.step = "stock" /\ r.due = invoice[b].due
      /\ r.seen.visits = 0 /\ r.seen.spent = 0 /\ r.seen.points = 0
  BY <1>1
<1>5. Live(b) /\ invoice[b].due \in Nat
  BY <1>2, RowKnown
<1>6. RequestFits(d)'
  BY <1>3, <1>4, <1>5, AskedOfBill
<1> QED
  BY <1>3, <1>6

LEMMA AskDeleteFits ==
  ASSUME BillsInv, MoneyInv, NEW d \in Desks, NEW b \in Bills, AskDelete(d, b)
  PROVE  OthersWait(d) /\ Idles /\ RequestFits(d)'
<1>1. PICK r : r = [op |-> "delete", bill |-> b]
  OBVIOUS
<1>2. Begin(d, r) /\ Exists(b) /\ invoice[b].status = "VOID"
  BY <1>1 DEF AskDelete
<1>3. OthersWait(d) /\ Idles /\ request'[d] = r
  BY <1>2, BeginIdles DEF BillsInv, BillsTyped
<1>4. r.op = "delete" /\ r.bill = b
  BY <1>1
<1>5. ~Live(b)
  BY <1>2 DEF Live
<1>6. RequestFits(d)'
  BY <1>3, <1>4, <1>5, AskedOfBill
<1> QED
  BY <1>3, <1>6

LEMMA AskAdjustFits ==
  ASSUME BillsInv, MoneyInv, NEW d \in Desks, NEW n \in {-1, 1}, AskAdjust(d, n)
  PROVE  OthersWait(d) /\ Idles /\ RequestFits(d)'
<1>1. PICK r : r = [op |-> "adjust", amount |-> n, balance |-> customer.points + n]
  OBVIOUS
<1>2. Begin(d, r) /\ customer.points + n >= 0
  BY <1>1 DEF AskAdjust
<1>3. OthersWait(d) /\ Idles /\ request'[d] = r
  BY <1>2, BeginIdles DEF BillsInv, BillsTyped
<1>4. r.op = "adjust" /\ r.amount = n /\ r.balance = customer.points + n
  BY <1>1
<1>5. customer.points \in Int
  BY DEF MoneyInv, MoneyTyped
<1>6. AskedTyped(d)'
  BY <1>3, <1>4, <1>5 DEF AskedTyped, Doing
<1>7. AmountFits(d)' /\ WalletFits(d)' /\ DebtFits(d)' /\ VisitsFit(d)'
  BY <1>3, <1>4 DEF AmountFits, BillHeld, WalletFits, DebtFits, VisitsFit, At, Doing
<1>8. PointsFit(d)'
  BY <1>2, <1>3, <1>4 DEF PointsFit, At, Doing, Idles
<1> QED
  BY <1>3, <1>6, <1>7, <1>8 DEF RequestFits

LEMMA AskCreateFits ==
  ASSUME BillsInv, MoneyInv, NEW d \in Desks, NEW basket \in Baskets, AskCreate(d, basket)
  PROVE  OthersWait(d) /\ Idles /\ RequestFits(d)'
<1>1. PICK w : w = IF basket.wallet > 0 THEN customer.wallet ELSE 0
  OBVIOUS
<1>2. PICK r : r = [op |-> "create", step |-> "series", basket |-> basket, number |-> 0,
                    seen |-> [wallet |-> w, visits |-> customer.visits, spent |-> customer.spent,
                              stock |-> 0]]
  OBVIOUS
<1>3. Begin(d, r)
  BY <1>1, <1>2 DEF AskCreate
<1>4. OthersWait(d) /\ Idles /\ request'[d] = r
  BY <1>3, BeginIdles DEF BillsInv, BillsTyped
<1>5. /\ r.op = "create" /\ r.step = "series" /\ r.basket = basket
      /\ r.seen.wallet = w /\ r.seen.visits = customer.visits /\ r.seen.spent = customer.spent
  BY <1>2
<1>6. customer.wallet \in Int /\ customer.visits \in Int /\ customer.spent \in Int
  BY DEF MoneyInv, MoneyTyped
<1>7. AskedTyped(d)'
  BY <1>1, <1>4, <1>5, <1>6 DEF AskedTyped, Doing
<1>8. AmountFits(d)' /\ DebtFits(d)' /\ PointsFit(d)'
  BY <1>4, <1>5 DEF AmountFits, BillHeld, DebtFits, PointsFit, At, Doing
<1>9. WalletFits(d)'
  BY <1>1, <1>4, <1>5, <1>6 DEF WalletFits, Doing, Idles
<1>10. VisitsFit(d)'
  BY <1>4, <1>5 DEF VisitsFit, At, Doing, Idles
<1> QED
  BY <1>4, <1>7, <1>8, <1>9, <1>10 DEF RequestFits

Counted == {b \in Made : invoice[b].status \in {"ISSUED", "PARTIALLY_PAID", "PAID"}}
Open == {b \in Made : invoice[b].status \in {"ISSUED", "PARTIALLY_PAID"}}

LEMMA ColumnsTyped ==
  ASSUME MoneyTyped
  PROVE  /\ LiveBills \subseteq Made /\ Made \subseteq Bills
         /\ IsFiniteSet(LiveBills) /\ Cardinality(LiveBills) \in Nat
         /\ \A b \in Made : Dues[b] \in Nat /\ Totals[b] \in Nat /\ Dues[b] \in Int /\ Totals[b] \in Int
         /\ \A b \in Made : Dues[b] = invoice[b].due /\ Totals[b] = invoice[b].total
         /\ Outstanding \in Nat /\ Spent \in Nat
<1>1. LiveBills \subseteq Made /\ Made \subseteq Bills
  BY DEF LiveBills, Made, Live, Exists
<1>2. IsFiniteSet(LiveBills) /\ Cardinality(LiveBills) \in Nat
  BY <1>1, BillsFinite, FS_Subset, FS_CardinalityType
<1>3. \A b \in Made : Dues[b] = invoice[b].due /\ Totals[b] = invoice[b].total
  BY <1>1 DEF Dues, Totals
<1>4. \A b \in Made : Dues[b] \in Nat /\ Totals[b] \in Nat /\ Dues[b] \in Int /\ Totals[b] \in Int
  BY <1>3 DEF MoneyTyped, AmountsTyped
<1>5. Outstanding \in Nat
  BY <1>1, <1>2, <1>4, SumType DEF Outstanding
<1>6. Spent \in Nat
  BY <1>1, <1>2, <1>4, SumType DEF Spent
<1> QED
  BY <1>1, <1>2, <1>3, <1>4, <1>5, <1>6

LEMMA LiveStanding ==
  ASSUME BillsTyped, NEW b \in LiveBills
  PROVE  b \in Made /\ b \in Bills /\ invoice[b].status \in Standings
BY LiveFacts DEF BillsTyped, LiveBills, Live, Exists

LEMMA OpenIsOwed ==
  ASSUME BillsTyped, MoneyTyped, BillsAddUp, crossedBills = {}, overpaid = {}
  PROVE  Sum(Dues, Open) = Outstanding
<1>1. Open \in SUBSET LiveBills
  BY DEF Open, LiveBills, Live, Exists, Made
<1>2. ASSUME NEW b \in LiveBills \ Open PROVE Dues[b] = 0
  <2>1. b \in Made /\ b \in Bills /\ invoice[b].status \in {"PAID", "REFUNDED"}
    BY LiveStanding DEF Open, Standings
  <2>2. RowAddsUp(b) /\ b \notin overpaid
    BY DEF BillsAddUp
  <2>3. invoice[b].due = 0
    BY <2>1, <2>2 DEF RowAddsUp, StatusFor
  <2> QED
    BY <2>1, <2>3 DEF Dues
<1>3. Sum(Dues, LiveBills) = Sum(Dues, Open)
  BY <1>1, <1>2, ColumnsTyped, SumPart
<1> QED
  BY <1>3 DEF Outstanding

LEMMA CountedIsLive ==
  ASSUME BillsTyped, BillsAddUp, MoneyTyped, crossedBills = {}, NoneReturned
  PROVE  Counted = LiveBills
<1>1. Counted \subseteq LiveBills
  BY DEF Counted, LiveBills, Live, Exists, Made
<1>2. ASSUME NEW b \in LiveBills PROVE b \in Counted
  <2>1. b \in Made /\ b \in Bills /\ invoice[b].status \in Standings
    BY LiveStanding
  <2>2. RowAddsUp(b)
    BY <1>2 DEF BillsAddUp
  <2>3. invoice[b].total \in Nat /\ invoice[b].refunded \in Nat
    BY <2>1 DEF MoneyTyped, AmountsTyped
  <2>4. invoice[b].status # "REFUNDED"
    BY <2>1, <2>2, <2>3 DEF RowAddsUp, NoneReturned
  <2> QED
    BY <2>1, <2>4 DEF Counted, Standings
<1> QED
  BY <1>1, <1>2

LEMMA AskRollupFits ==
  ASSUME BillsInv, MoneyInv, NEW d \in Desks, AskRollup(d)
  PROVE  OthersWait(d) /\ Idles /\ RequestFits(d)'
<1>0. BillsTyped /\ MoneyTyped /\ BillsAddUp
  BY DEF BillsInv, MoneyInv
<1>1. PICK x : x = Cardinality(Counted)
  OBVIOUS
<1>2. PICK y : y = SumOver(Counted, LAMBDA b : invoice[b].total)
  OBVIOUS
<1>3. PICK z : z = SumOver(Open, LAMBDA b : invoice[b].due)
  OBVIOUS
<1>4. Counted \in SUBSET Bills /\ Open \in SUBSET Bills /\ Counted \subseteq Made /\ Open \subseteq Made
  BY DEF Counted, Open, Made
<1>5. y = Sum(Totals, Counted)
  <2>1. SumOver(Counted, LAMBDA b : invoice[b].total) = Sum(Totals, Counted)
    BY <1>4, TotalsSum
  <2> QED
    BY <1>2, <2>1
<1>6. z = Sum(Dues, Open)
  <2>1. SumOver(Open, LAMBDA b : invoice[b].due) = Sum(Dues, Open)
    BY <1>4, DuesSum
  <2> QED
    BY <1>3, <2>1
<1>7. IsFiniteSet(Counted) /\ IsFiniteSet(Open)
  BY <1>4, BillsFinite, FS_Subset
<1>8. x \in Int /\ y \in Int /\ z \in Int
  <2>1. x \in Int
    BY <1>1, <1>7, FS_CardinalityType
  <2>2. y \in Int
    BY <1>0, <1>4, <1>5, <1>7, ColumnsTyped, SumType
  <2>3. z \in Int
    BY <1>0, <1>4, <1>6, <1>7, ColumnsTyped, SumType
  <2> QED
    BY <2>1, <2>2, <2>3
<1>9. PICK r : r = [op |-> "rollup", visits |-> x, spent |-> y, outstanding |-> z]
  OBVIOUS
<1>10. Begin(d, r)
  <2>1. Begin(d, [op |-> "rollup", visits |-> Cardinality(Counted),
                  spent |-> SumOver(Counted, LAMBDA b : invoice[b].total),
                  outstanding |-> SumOver(Open, LAMBDA b : invoice[b].due)])
    BY DEF AskRollup, Counted, Open
  <2> QED
    BY <1>1, <1>2, <1>3, <1>9, <2>1
<1>11. OthersWait(d) /\ Idles /\ request'[d] = r
  BY <1>0, <1>10, BeginIdles DEF BillsTyped
<1>12. r.op = "rollup" /\ r.visits = x /\ r.spent = y /\ r.outstanding = z
  BY <1>9
<1>13. /\ Outstanding' = Outstanding /\ Spent' = Spent /\ LiveBills' = LiveBills
       /\ DebtKnown' = DebtKnown /\ VisitsKnown' = VisitsKnown
  BY <1>11, IdleFacts
<1>14. AskedTyped(d)'
  BY <1>8, <1>11, <1>12 DEF AskedTyped, Doing
<1>15. AmountFits(d)' /\ WalletFits(d)' /\ PointsFit(d)'
  BY <1>11, <1>12 DEF AmountFits, BillHeld, WalletFits, PointsFit, At, Doing
<1>16. DebtKnown' => DebtFits(d)'
  BY <1>0, <1>6, <1>11, <1>12, <1>13, OpenIsOwed DEF DebtFits, DebtKnown
<1>17. VisitsKnown => Counted = LiveBills
  BY <1>0, CountedIsLive DEF VisitsKnown
<1>18. VisitsKnown' => VisitsFit(d)'
  BY <1>1, <1>5, <1>11, <1>12, <1>13, <1>17 DEF VisitsFit, Spent, At, Doing
<1> QED
  BY <1>11, <1>14, <1>15, <1>16, <1>18 DEF RequestFits

LEMMA AskFits ==
  ASSUME BillsInv, MoneyInv, NEW d \in Desks, Ask(d)
  PROVE  MoneyInv'
<1>1. OthersWait(d) /\ Idles /\ RequestFits(d)'
  BY AskCreateFits, AskPayFits, AskRefundFits, AskUnpayFits, AskVoidFits, AskDeleteFits,
     AskAdjustFits, AskRollupFits DEF Ask
<1> QED
  BY <1>1, IdleStep

\* Requests that read on.

\* What a creation carries from step to step.
Carries(s, r, a) ==
    /\ s.op = "create" /\ s.step = a /\ s.basket = r.basket
    /\ s.seen.wallet = r.seen.wallet /\ s.seen.visits = r.seen.visits /\ s.seen.spent = r.seen.spent

LEMMA StepCarries ==
  ASSUME NEW r, IsCreation(r), NEW a, NEW s, s = [r EXCEPT !.step = a]
  PROVE  Carries(s, r, a)
<1>1. PICK c, b, m, w, v, p, y :
        r = [op |-> "create", step |-> c, basket |-> b, number |-> m,
             seen |-> [wallet |-> w, visits |-> v, spent |-> p, stock |-> y]]
  BY CreationFields
<1>2. s = [op |-> "create", step |-> a, basket |-> b, number |-> m,
           seen |-> [wallet |-> w, visits |-> v, spent |-> p, stock |-> y]]
  BY <1>1
<1> QED
  BY <1>1, <1>2 DEF Carries

LEMMA NumberCarries ==
  ASSUME NEW r, IsCreation(r), NEW a, NEW n, NEW s, s = [r EXCEPT !.number = n, !.step = a]
  PROVE  Carries(s, r, a)
<1>1. PICK c, b, m, w, v, p, y :
        r = [op |-> "create", step |-> c, basket |-> b, number |-> m,
             seen |-> [wallet |-> w, visits |-> v, spent |-> p, stock |-> y]]
  BY CreationFields
<1>2. s = [op |-> "create", step |-> a, basket |-> b, number |-> n,
           seen |-> [wallet |-> w, visits |-> v, spent |-> p, stock |-> y]]
  BY <1>1
<1> QED
  BY <1>1, <1>2 DEF Carries

LEMMA LineCarries ==
  ASSUME NEW r, IsCreation(r), NEW a, NEW x, NEW s, s = [r EXCEPT !.step = a, !.seen.stock = x]
  PROVE  Carries(s, r, a)
<1>1. PICK c, b, m, w, v, p, y :
        r = [op |-> "create", step |-> c, basket |-> b, number |-> m,
             seen |-> [wallet |-> w, visits |-> v, spent |-> p, stock |-> y]]
  BY CreationFields
<1>2. s = [op |-> "create", step |-> a, basket |-> b, number |-> m,
           seen |-> [wallet |-> w, visits |-> v, spent |-> p, stock |-> x]]
  BY <1>1
<1> QED
  BY <1>1, <1>2 DEF Carries

LEMMA CreationGoesOn ==
  ASSUME MoneyInv, NEW d \in Desks, Doing(d, "create"), OthersWait(d), Idles,
         NEW r, r = request[d], NEW s, s = request'[d],
         s.op = "create", s.basket = r.basket, s.seen.wallet = r.seen.wallet,
         s.seen.visits = r.seen.visits, s.seen.spent = r.seen.spent,
         s.step = "commit" => r.basket.points <= customer.points
  PROVE  MoneyInv'
<1>1. RequestFits(d)
  BY MoneyParts
<1>2. VisitsKnown' = VisitsKnown
  BY IdleFacts
<1>3. AskedTyped(d)'
  BY <1>1 DEF RequestFits, AskedTyped, Doing
<1>4. AmountFits(d)' /\ DebtFits(d)'
  BY DEF AmountFits, BillHeld, DebtFits, Doing
<1>5. "wallet" \notin crossedRows' => WalletFits(d)'
  BY <1>1 DEF RequestFits, WalletFits, Doing, Idles
<1>6. PointsFit(d)'
  BY DEF PointsFit, At, Doing, Idles
<1>7. VisitsKnown' => VisitsFit(d)'
  BY <1>1, <1>2 DEF RequestFits, VisitsFit, At, Doing, Idles
<1>8. RequestFits(d)'
  BY <1>3, <1>4, <1>5, <1>6, <1>7 DEF RequestFits
<1> QED
  BY <1>8, IdleStep

LEMMA CreationReads ==
  ASSUME BillsInv, MoneyInv, NEW d \in Desks,
         EnsureSeries(d) \/ IssueNumber(d) \/ ReadLine(d) \/ ReadPoints(d)
  PROVE  MoneyInv'
<1>1. PICK r, s : r = request[d] /\ s = request'[d]
  OBVIOUS
<1>2. Doing(d, "create") /\ IsCreation(r) /\ OthersWait(d)
  <2>1. Doing(d, "create") /\ RequestTyped(d)
    BY DEF EnsureSeries, IssueNumber, ReadLine, ReadPoints, At, BillsInv, BillsTyped, RequestsTyped
  <2>2. OthersWait(d)
    BY EnsureSeriesFacts, IssueNumberFacts, ReadLineFacts, ReadPointsFacts DEF BillsInv, Proceeds
  <2> QED
    BY <1>1, <2>1, <2>2 DEF RequestTyped
<1>3. Idles
  BY DEF EnsureSeries, IssueNumber, ReadLine, ReadPoints, Idles, data, history
<1>4. \E a : Carries(s, r, a) /\ (a = "commit" => r.basket.points <= customer.points)
  <2>1. request = [e \in Desks |-> request[e]]
    BY DEF BillsInv, BillsTyped, RequestsTyped
  <2>2. CASE EnsureSeries(d)
    <3>1. s = [r EXCEPT !.step = "number"]
      BY <1>1, <2>1, <2>2 DEF EnsureSeries, Goto
    <3>2. Carries(s, r, "number")
      BY <1>2, <3>1, StepCarries
    <3> QED
      BY <3>2
  <2>3. CASE IssueNumber(d)
    <3>1. PICK n : n = series[r.basket.kind] + 1
      OBVIOUS
    <3>2. s = [r EXCEPT !.number = n, !.step = "line"]
      BY <1>1, <2>1, <2>3, <3>1 DEF IssueNumber
    <3>3. Carries(s, r, "line")
      BY <1>2, <3>2, NumberCarries
    <3> QED
      BY <3>3
  <2>4. CASE ReadLine(d)
    <3>1. PICK x : x = IF r.basket.line = "product" THEN stock ELSE 0
      OBVIOUS
    <3>2. s = [r EXCEPT !.step = "points", !.seen.stock = x]
      BY <1>1, <2>1, <2>4, <3>1 DEF ReadLine
    <3>3. Carries(s, r, "points")
      BY <1>2, <3>2, LineCarries
    <3> QED
      BY <3>3
  <2>5. CASE ReadPoints(d)
    <3>1. s = [r EXCEPT !.step = "commit"] /\ r.basket.points =< customer.points
      BY <1>1, <2>1, <2>5 DEF ReadPoints, Goto
    <3>2. Carries(s, r, "commit")
      BY <1>2, <3>1, StepCarries
    <3> QED
      BY <3>1, <3>2
  <2> QED
    BY <2>2, <2>3, <2>4, <2>5
<1>5. PICK a : Carries(s, r, a) /\ (a = "commit" => r.basket.points <= customer.points)
  BY <1>4
<1>6. /\ s.op = "create" /\ s.step = a /\ s.basket = r.basket
      /\ s.seen.wallet = r.seen.wallet /\ s.seen.visits = r.seen.visits /\ s.seen.spent = r.seen.spent
  BY <1>5 DEF Carries
<1> QED
  BY <1>1, <1>2, <1>3, <1>5, <1>6, CreationGoesOn

LEMMA VoidReads ==
  ASSUME BillsInv, MoneyInv, NEW d \in Desks, ReadStockToReverse(d) \/ ReadCustomer(d)
  PROVE  MoneyInv'
<1>1. PICK r, s : r = request[d] /\ s = request'[d]
  OBVIOUS
<1>2. /\ Doing(d, "void") /\ IsVoiding(r) /\ r.op = "void" /\ OthersWait(d)
      /\ request = [e \in Desks |-> request[e]]
  <2>1. Doing(d, "void") /\ RequestTyped(d) /\ request = [e \in Desks |-> request[e]]
    BY DEF ReadStockToReverse, ReadCustomer, At, BillsInv, BillsTyped, RequestsTyped
  <2>2. OthersWait(d)
    BY ReadStockFacts, ReadCustomerFacts DEF BillsInv, Reverses
  <2> QED
    BY <1>1, <2>1, <2>2 DEF RequestTyped, Doing
<1>3. Idles
  BY DEF ReadStockToReverse, ReadCustomer, Idles, data, history
<1>4. PICK a, b, c, v, m, p, x :
         r = [op |-> "void", bill |-> b, step |-> a, due |-> c,
              seen |-> [stock |-> x, visits |-> v, spent |-> m, points |-> p]]
  BY <1>2, VoidingFields
<1>5. /\ s.op = "void" /\ s.bill = r.bill /\ s.due = r.due
      /\ \/ /\ s.step = "customer" /\ s.seen.visits = v /\ s.seen.spent = m /\ s.seen.points = p
         \/ /\ s.step = "commit" /\ s.seen.visits = customer.visits
            /\ s.seen.spent = customer.spent /\ s.seen.points = customer.points
  <2>1. CASE ReadStockToReverse(d)
    <3>1. PICK y : s = [r EXCEPT !.step = "customer", !.seen.stock = y]
      BY <1>1, <1>2, <2>1 DEF ReadStockToReverse
    <3>2. s = [op |-> "void", bill |-> b, step |-> "customer", due |-> c,
               seen |-> [stock |-> y, visits |-> v, spent |-> m, points |-> p]]
      BY <1>4, <3>1
    <3> QED
      BY <1>4, <3>2
  <2>2. CASE ReadCustomer(d)
    <3>1. s = [r EXCEPT !.step = "commit",
                        !.seen = [r.seen EXCEPT !.visits = customer.visits, !.spent = customer.spent,
                                                !.points = customer.points]]
      BY <1>1, <1>2, <2>2 DEF ReadCustomer
    <3>2. [r.seen EXCEPT !.visits = customer.visits, !.spent = customer.spent, !.points = customer.points]
            = [stock |-> x, visits |-> customer.visits, spent |-> customer.spent,
               points |-> customer.points]
      <4>1. PICK q : q = [stock |-> x, visits |-> v, spent |-> m, points |-> p]
        OBVIOUS
      <4>2. r.seen = q
        BY <1>4, <4>1
      <4>3. PICK q1 : q1 = [q EXCEPT !.visits = customer.visits]
        OBVIOUS
      <4>4. q1 = [stock |-> x, visits |-> customer.visits, spent |-> m, points |-> p]
        BY <4>1, <4>3
      <4>5. PICK q2 : q2 = [q1 EXCEPT !.spent = customer.spent]
        OBVIOUS
      <4>6. q2 = [stock |-> x, visits |-> customer.visits, spent |-> customer.spent, points |-> p]
        BY <4>4, <4>5
      <4>7. [q2 EXCEPT !.points = customer.points]
              = [stock |-> x, visits |-> customer.visits, spent |-> customer.spent,
                 points |-> customer.points]
        BY <4>6
      <4> QED
        BY <4>2, <4>3, <4>5, <4>7
    <3>3. s = [op |-> "void", bill |-> b, step |-> "commit", due |-> c,
               seen |-> [stock |-> x, visits |-> customer.visits, spent |-> customer.spent,
                         points |-> customer.points]]
      BY <1>4, <3>1, <3>2
    <3> QED
      BY <1>4, <3>3
  <2> QED
    BY <2>1, <2>2
<1>6. RequestFits(d)
  BY MoneyParts
<1>7. v \in Int /\ m \in Int /\ p \in Int /\ r.due \in Nat
  BY <1>1, <1>2, <1>4, <1>6 DEF RequestFits, AskedTyped
<1>8. customer.visits \in Int /\ customer.spent \in Int /\ customer.points \in Int
  BY DEF MoneyInv, MoneyTyped
<1>9. AskedTyped(d)'
  BY <1>1, <1>5, <1>7, <1>8 DEF AskedTyped, Doing
<1>10. AmountFits(d)'
  <2>1. \A e : Live(e)' = Live(e)
    BY <1>3, IdleFacts
  <2>2. AmountFits(d) /\ BillHeld(d) = {r.bill}
    BY <1>1, <1>2, <1>6 DEF RequestFits, BillHeld, Doing
  <2>3. r.bill \in crossedBills \/ (Live(r.bill) /\ r.due = invoice[r.bill].due)
    BY <1>1, <1>2, <2>2 DEF AmountFits, Doing
  <2>4. BillHeld(d)' \subseteq {s.bill} /\ crossedBills' = crossedBills /\ invoice' = invoice
    BY <1>1, <1>3 DEF BillHeld, Idles
  <2>5. Live(r.bill)' = Live(r.bill)
    BY <2>1
  <2> QED
    BY <1>1, <1>5, <2>3, <2>4, <2>5 DEF AmountFits, Doing
<1>11. WalletFits(d)' /\ DebtFits(d)'
  BY <1>1, <1>5 DEF WalletFits, DebtFits, Doing
<1>12. PointsFit(d)'
  BY <1>1, <1>3, <1>5 DEF PointsFit, At, Doing, Idles
<1>13. VisitsFit(d)'
  BY <1>1, <1>3, <1>5 DEF VisitsFit, At, Doing, Idles
<1>14. RequestFits(d)'
  BY <1>9, <1>10, <1>11, <1>12, <1>13 DEF RequestFits
<1> QED
  BY <1>2, <1>3, <1>14, IdleStep

\* Requests that write.

Purse == [wallet : Int, outstanding : Int, visits : Int, spent : Int, points : Int]

\* A customer with these amounts.
Has(c, w, o, v, m, p) ==
    /\ c \in Purse /\ c.wallet = w /\ c.outstanding = o
    /\ c.visits = v /\ c.spent = m /\ c.points = p

LEMMA PurseTyped ==
  ASSUME NEW c \in Purse
  PROVE  /\ c.wallet \in Int /\ c.outstanding \in Int /\ c.visits \in Int
         /\ c.spent \in Int /\ c.points \in Int
         /\ Has(c, c.wallet, c.outstanding, c.visits, c.spent, c.points)
BY DEF Purse, Has

LEMMA WalletSet ==
  ASSUME NEW c \in Purse, NEW n \in Int, NEW e, e = [c EXCEPT !.wallet = n]
  PROVE  Has(e, n, c.outstanding, c.visits, c.spent, c.points)
BY DEF Purse, Has

LEMMA OwedSet ==
  ASSUME NEW c \in Purse, NEW n \in Int, NEW e, e = [c EXCEPT !.outstanding = n]
  PROVE  Has(e, c.wallet, n, c.visits, c.spent, c.points)
BY DEF Purse, Has

LEMMA VisitsSet ==
  ASSUME NEW c \in Purse, NEW n \in Int, NEW e, e = [c EXCEPT !.visits = n]
  PROVE  Has(e, c.wallet, c.outstanding, n, c.spent, c.points)
BY DEF Purse, Has

LEMMA SpentSet ==
  ASSUME NEW c \in Purse, NEW n \in Int, NEW e, e = [c EXCEPT !.spent = n]
  PROVE  Has(e, c.wallet, c.outstanding, c.visits, n, c.points)
BY DEF Purse, Has

LEMMA PointsSet ==
  ASSUME NEW c \in Purse, NEW n \in Int, NEW e, e = [c EXCEPT !.points = n]
  PROVE  Has(e, c.wallet, c.outstanding, c.visits, c.spent, n)
BY DEF Purse, Has

\* A void writes four amounts.
LEMMA FourSet ==
  ASSUME NEW c \in Purse, NEW p \in Int, NEW v \in Int, NEW m \in Int, NEW o \in Int, NEW e,
         e = [c EXCEPT !.points = p, !.visits = v, !.spent = m, !.outstanding = o]
  PROVE  Has(e, c.wallet, o, v, m, p)
<1>1. PICK c1 : c1 = [c EXCEPT !.points = p]
  OBVIOUS
<1>2. PICK c2 : c2 = [c1 EXCEPT !.visits = v]
  OBVIOUS
<1>3. PICK c3 : c3 = [c2 EXCEPT !.spent = m]
  OBVIOUS
<1>4. e = [c3 EXCEPT !.outstanding = o]
  BY <1>1, <1>2, <1>3
<1>5. Has(c1, c.wallet, c.outstanding, c.visits, c.spent, p)
  BY <1>1, PointsSet
<1>6. Has(c2, c1.wallet, c1.outstanding, v, c1.spent, c1.points)
  BY <1>2, <1>5, VisitsSet DEF Has
<1>7. Has(c3, c2.wallet, c2.outstanding, c2.visits, m, c2.points)
  BY <1>3, <1>6, SpentSet DEF Has
<1>8. Has(e, c3.wallet, o, c3.visits, c3.spent, c3.points)
  <2>1. c3 \in Purse
    BY <1>7 DEF Has
  <2> QED
    BY <1>4, <2>1, OwedSet
<1> QED
  BY <1>5, <1>6, <1>7, <1>8 DEF Has

\* The repair writes three.
LEMMA ThreeSet ==
  ASSUME NEW c \in Purse, NEW v \in Int, NEW m \in Int, NEW o \in Int, NEW e,
         e = [c EXCEPT !.visits = v, !.spent = m, !.outstanding = o]
  PROVE  Has(e, c.wallet, o, v, m, c.points)
<1>1. PICK c1 : c1 = [c EXCEPT !.visits = v]
  OBVIOUS
<1>2. PICK c2 : c2 = [c1 EXCEPT !.spent = m]
  OBVIOUS
<1>3. e = [c2 EXCEPT !.outstanding = o]
  BY <1>1, <1>2
<1>4. Has(c1, c.wallet, c.outstanding, v, c.spent, c.points)
  BY <1>1, VisitsSet
<1>5. Has(c2, c1.wallet, c1.outstanding, c1.visits, m, c1.points)
  BY <1>2, <1>4, SpentSet DEF Has
<1>6. Has(e, c2.wallet, o, c2.visits, c2.spent, c2.points)
  <2>1. c2 \in Purse
    BY <1>5 DEF Has
  <2> QED
    BY <1>3, <2>1, OwedSet
<1> QED
  BY <1>4, <1>5, <1>6 DEF Has

\* What a request relies on is held, and is reported when another writes it.
LEMMA Relies ==
  ASSUME NEW e \in Desks
  PROVE  /\ Doing(e, "create") => "visits" \in RowsHeld(e)
         /\ At(e, "void", "commit") => "visits" \in RowsHeld(e) /\ "points" \in RowsHeld(e)
         /\ Doing(e, "rollup") => "visits" \in RowsHeld(e) /\ "owed" \in RowsHeld(e)
         /\ Doing(e, "create") /\ request[e].basket.wallet > 0 => "wallet" \in RowsHeld(e)
         /\ At(e, "create", "commit") /\ request[e].basket.points > 0 => "points" \in RowsHeld(e)
         /\ Doing(e, "adjust") => "points" \in RowsHeld(e)
BY DEF RowsHeld, At, Doing

LEMMA CrossingGrows ==
  ASSUME NEW d \in Desks, NEW bills, NEW rows, Crossing(d, bills, rows)
  PROVE  /\ crossedBills \subseteq crossedBills' /\ crossedRows \subseteq crossedRows'
         /\ \A b \in bills : \A e \in Desks \ {d} : b \in BillHeld(e) => b \in crossedBills'
         /\ \A x \in rows : \A e \in Desks \ {d} :
               x \in RowsHeld(e) => x \in crossedRows' \/ (SameSeries(d, e) /\ x \notin {"visits", "wallet"})
         /\ crossedBills' \subseteq crossedBills \cup bills
BY DEF Crossing

\* The requests of the others, when a write is over.
LEMMA OtherFits ==
  ASSUME NEW e \in Desks, request'[e] = request[e], RequestFits(e), AskedTyped(e)', AmountFits(e)',
         customer \in Purse, customer' \in Purse,
         crossedRows \subseteq crossedRows',
         "wallet" \in RowsHeld(e) /\ "wallet" \notin crossedRows' => customer'.wallet >= customer.wallet,
         "points" \in RowsHeld(e) /\ "points" \notin crossedRows' => customer'.points = customer.points,
         DebtKnown' /\ "owed" \in RowsHeld(e) => DebtKnown /\ Outstanding' = Outstanding,
         VisitsKnown' /\ "visits" \in RowsHeld(e) =>
            /\ VisitsKnown
            /\ customer'.visits = customer.visits /\ customer'.spent = customer.spent
            /\ Cardinality(LiveBills)' = Cardinality(LiveBills) /\ Spent' = Spent
  PROVE  RequestFits(e)'
<1>1. \A op, step : Doing(e, op)' = Doing(e, op) /\ At(e, op, step)' = At(e, op, step)
  BY DEF Doing, At
<1>2. "wallet" \notin crossedRows' => WalletFits(e)'
  <2>1. SUFFICES ASSUME "wallet" \notin crossedRows', Doing(e, "create"), request[e].basket.wallet > 0
                 PROVE  request[e].seen.wallet <= customer'.wallet
    BY <1>1 DEF WalletFits
  <2>2. request[e].seen.wallet <= customer.wallet /\ request[e].seen.wallet \in Int
    BY <2>1 DEF RequestFits, WalletFits, AskedTyped
  <2>3. customer'.wallet >= customer.wallet /\ customer.wallet \in Int /\ customer'.wallet \in Int
    BY <2>1, Relies, PurseTyped
  <2> QED
    BY <2>2, <2>3
<1>3. "points" \notin crossedRows' => PointsFit(e)'
  <2>1. ASSUME "points" \notin crossedRows' PROVE PointsFit(e)
    BY <2>1 DEF RequestFits
  <2> QED
    BY <1>1, <2>1, Relies DEF PointsFit
<1>4. DebtKnown' => DebtFits(e)'
  BY <1>1, Relies DEF RequestFits, DebtFits
<1>5. VisitsKnown' => VisitsFit(e)'
  BY <1>1, Relies DEF RequestFits, VisitsFit
<1> QED
  BY <1>2, <1>3, <1>4, <1>5 DEF RequestFits

LEMMA AbandonKeeps ==
  ASSUME BillsInv, MoneyInv, NEW d \in Desks, Abandon(d)
  PROVE  MoneyInv'
<1>1. Ends(d) /\ Idles
  BY EndFacts DEF Abandon, BillsInv, BillsTyped, Idles, data, history
<1> QED
  BY <1>1, DeskIdle, IdleStep DEF Ends

\* What holds after any write to a bill that the desk was at.
LEMMA BillTouched ==
  ASSUME BillsInv, MoneyInv, NEW d \in Desks, NEW b, NEW rows, Changes(d, b, rows),
         NEW x \in Nat, NEW y \in Nat, NEW f \in Nat,
         NEW z \in Standings \cup {"VOID", "DELETED"}, RowBecomes(b, x, y, f, z)
  PROVE  /\ Made' = Made /\ \A c \in Bills \ {b} : Live(c)' = Live(c) /\ Exists(c)' = Exists(c)
         /\ Live(b)' <=> z \notin {"VOID", "DELETED"}
         /\ Exists(b)' <=> z # "DELETED"
         /\ AmountsTyped'
         /\ \A c \in Made : invoice'[c].total = invoice[c].total
         /\ crossedBills \subseteq crossedBills' /\ crossedRows \subseteq crossedRows'
         /\ b \notin crossedBills => ~(BillHeld(d) \subseteq crossedBills)
         /\ b \in Made /\ b \in Bills /\ Exists(b)
<1>1. InvoicesTyped /\ b \in Made /\ b \in Bills /\ Exists(b)
  BY DEF Changes, BillsInv, BillsTyped, Made
<1>2. /\ invoice'[b].total = invoice[b].total
      /\ invoice'[b].earned = invoice[b].earned /\ invoice'[b].redeemed = invoice[b].redeemed
      /\ invoice'[b].paid = x /\ invoice'[b].due = y /\ invoice'[b].refunded = f
      /\ invoice'[b].status = z
      /\ \A c \in Bills \ {b} : invoice'[c] = invoice[c]
  BY <1>1, AmountsFacts
<1>3. z # "NONE"
  BY DEF Standings
<1>4. invoice'[b] # NoBill /\ invoice[b] # NoBill
  BY <1>1, <1>2, <1>3 DEF NoBill, Made
<1>5. Made' = Made
  BY <1>1, <1>2, <1>4 DEF Made
<1>6. \A c \in Bills \ {b} : Live(c)' = Live(c) /\ Exists(c)' = Exists(c)
  BY <1>2 DEF Live, Exists
<1>7. (Live(b)' <=> z \notin {"VOID", "DELETED"}) /\ (Exists(b)' <=> z # "DELETED")
  BY <1>2, <1>4 DEF Live, Exists
<1>8. AmountsTyped'
  BY <1>1, <1>2, <1>5 DEF MoneyInv, MoneyTyped, AmountsTyped, Made
<1>9. \A c \in Made : invoice'[c].total = invoice[c].total
  BY <1>2 DEF Made
<1>10. crossedBills \subseteq crossedBills' /\ crossedRows \subseteq crossedRows'
  BY CrossingGrows DEF Changes
<1>11. b \notin crossedBills => ~(BillHeld(d) \subseteq crossedBills)
  BY DEF Changes
<1> QED
  BY <1>1, <1>5, <1>6, <1>7, <1>8, <1>9, <1>10, <1>11

\* The others have read other bills, or are reported.
LEMMA OthersRead ==
  ASSUME BillsInv, MoneyInv, NEW d \in Desks, NEW b, NEW rows, Changes(d, b, rows),
         NEW x \in Nat, NEW y \in Nat, NEW f \in Nat,
         NEW z \in Standings \cup {"VOID", "DELETED"}, RowBecomes(b, x, y, f, z),
         \A c \in Bills \ {b} : payments'[c] = payments[c],
         z # "DELETED" => DOMAIN payments[b] \subseteq DOMAIN payments'[b],
         NEW e \in Desks \ {d}
  PROVE  request'[e] = request[e] /\ AskedTyped(e)' /\ AmountFits(e)'
<1>1. request'[e] = request[e]
  BY DEF Changes, Ends, OthersWait
<1>2. RequestFits(e) /\ BillHeld(e) \subseteq Made
  BY MoneyParts DEF BillsInv, BillsTyped, RequestsTyped, RequestTyped
<1>3. /\ \A c \in Bills \ {b} : Live(c)' = Live(c) /\ Exists(c)' = Exists(c)
      /\ (Exists(b)' <=> z # "DELETED") /\ crossedBills \subseteq crossedBills' /\ Exists(b)
  BY BillTouched
<1>4. \A c \in Bills \ {b} : invoice'[c] = invoice[c]
  BY AmountsFacts DEF Changes, BillsInv, BillsTyped
<1>5. \A op : Doing(e, op)' = Doing(e, op)
  BY <1>1 DEF Doing
<1>6. BillHeld(e)' = BillHeld(e)
  BY <1>1 DEF BillHeld
<1>7. PICK c : c = request[e].bill
  OBVIOUS
<1>8. AskedTyped(e)'
  <2>1. Doing(e, "unpay") => c \in Bills
    BY <1>2, <1>7 DEF Doing, BillHeld, Made
  <2>2. Doing(e, "unpay") /\ Exists(c)' => request[e].index \in DOMAIN payments'[c]
    <3>1. Doing(e, "unpay") /\ Exists(c) => request[e].index \in DOMAIN payments[c]
      BY <1>2, <1>7 DEF RequestFits, AskedTyped
    <3>2. CASE c = b
      BY <1>3, <3>1, <3>2
    <3>3. CASE c # b
      BY <1>3, <2>1, <3>1, <3>3
    <3> QED
      BY <3>2, <3>3
  <2>3. AskedTyped(e)
    BY <1>2 DEF RequestFits
  <2>4. request'[e].bill = c
    BY <1>1, <1>7
  <2>5. Doing(e, "unpay")' /\ Exists(c)' => request'[e].index \in DOMAIN payments'[c]
    BY <1>1, <1>5, <2>2
  <2> QED
    BY <1>1, <1>5, <2>3, <2>4, <2>5 DEF AskedTyped
<1>9. AmountFits(e)'
  <2>1. CASE BillHeld(e) = {}
    BY <1>6, <2>1 DEF AmountFits
  <2>2. CASE BillHeld(e) = {c} /\ c = b
    <3>1. b \in crossedBills'
      BY <2>2, CrossingGrows DEF Changes
    <3> QED
      BY <1>6, <2>2, <3>1 DEF AmountFits
  <2>3. CASE BillHeld(e) = {c} /\ c # b
    <3>1. c \in Bills \ {b}
      BY <1>2, <2>3 DEF Made
    <3>2. invoice'[c] = invoice[c] /\ Live(c)' = Live(c)
      BY <1>3, <1>4, <3>1
    <3>3. AmountFits(e)
      BY <1>2 DEF RequestFits
    <3>4. request'[e].bill = c
      BY <1>1, <1>7
    <3> QED
      BY <1>1, <1>3, <1>5, <1>6, <1>7, <3>2, <3>3, <3>4 DEF AmountFits
  <2> QED
    BY <1>7, <2>1, <2>2, <2>3 DEF BillHeld
<1> QED
  BY <1>1, <1>8, <1>9

\* A write to a bill, once what it does to the bill and to the customer is known.
LEMMA BillWritten ==
  ASSUME BillsInv, MoneyInv, NEW d \in Desks, NEW b, NEW rows, Changes(d, b, rows),
         NEW x \in Nat, NEW y \in Nat, NEW f \in Nat,
         NEW z \in Standings \cup {"VOID", "DELETED"}, RowBecomes(b, x, y, f, z),
         payments' \in [Bills -> Seq(Nat)], \A c \in Bills \ {b} : payments'[c] = payments[c],
         z # "DELETED" => DOMAIN payments[b] \subseteq DOMAIN payments'[b],
         overpaid' = overpaid, transactions' \in Int, customer' \in Purse,
         z \notin {"VOID", "DELETED"} /\ b \notin crossedBills' => RowAddsUp(b)',
         customer'.wallet >= customer.wallet,
         "points" \notin crossedRows' =>
            /\ customer'.points >= AtLeastZero(transactions')
            /\ "points" \in rows \/ customer'.points = customer.points,
         DebtKnown' =>
            /\ customer'.outstanding = Outstanding'
            /\ "owed" \in rows \/ Outstanding' = Outstanding,
         VisitsKnown' =>
            /\ VisitsKnown /\ customer'.visits = Cardinality(LiveBills)' /\ customer'.spent = Spent'
            /\ \/ "visits" \in rows
               \/ Cardinality(LiveBills)' = Cardinality(LiveBills) /\ Spent' = Spent
  PROVE  MoneyInv'
<1>1. RowsFit /\ \A e \in Desks : RequestFits(e)
  BY MoneyParts
<1>2. /\ Made' = Made /\ AmountsTyped'
      /\ \A c \in Bills \ {b} : Live(c)' = Live(c)
      /\ Live(b)' <=> z \notin {"VOID", "DELETED"}
      /\ crossedBills \subseteq crossedBills' /\ crossedRows \subseteq crossedRows'
      /\ b \in Bills
  BY BillTouched
<1>3. \A c \in Bills \ {b} : invoice'[c] = invoice[c]
  BY AmountsFacts DEF Changes, BillsInv, BillsTyped
<1>4. customer \in Purse
  BY DEF MoneyInv, MoneyTyped, Purse
<1>5. MoneyTyped'
  BY <1>2 DEF MoneyInv, MoneyTyped, Purse
<1>6. BillsAddUp'
  <2>1. ASSUME NEW c \in Bills, Live(c)', c \notin crossedBills' PROVE RowAddsUp(c)'
    <3>1. CASE c = b
      BY <1>2, <2>1, <3>1
    <3>2. CASE c # b
      <4>1. c \in LiveBills \ crossedBills
        BY <1>2, <2>1, <3>2 DEF LiveBills
      <4>2. RowAddsUp(c)
        BY <1>1, <4>1 DEF RowsFit, BillsAddUp
      <4> QED
        BY <1>3, <2>1, <3>2, <4>2 DEF RowAddsUp
    <3> QED
      BY <3>1, <3>2
  <2> QED
    BY <2>1 DEF BillsAddUp, LiveBills
<1>7. DebtKnown' => DebtKnown
  BY <1>2 DEF DebtKnown
<1>8. "wallet" \notin crossedRows' => customer'.wallet >= 0
  BY <1>1, <1>2, <1>4, PurseTyped DEF RowsFit
<1>9. RowsFit'
  BY <1>5, <1>6, <1>8 DEF RowsFit
<1>10. ASSUME NEW e \in Desks \ {d} PROVE RequestFits(e)'
  <2>1. request'[e] = request[e] /\ AskedTyped(e)' /\ AmountFits(e)'
    BY OthersRead
  <2>2. \A row \in rows \cap {"points", "owed"} :
          row \in RowsHeld(e) => row \in crossedRows'
    <3>1. ~SameSeries(d, e)
      <4>1. BillHeld(d) # {}
        BY DEF Changes
      <4> QED
        BY <4>1 DEF SameSeries, BillHeld, Doing
    <3> QED
      BY <3>1, CrossingGrows DEF Changes
  <2>3. "visits" \in rows /\ "visits" \in RowsHeld(e) => "visits" \in crossedRows'
    BY CrossingGrows DEF Changes
  <2>4. "points" \in RowsHeld(e) /\ "points" \notin crossedRows' => customer'.points = customer.points
    BY <2>2
  <2>5. DebtKnown' /\ "owed" \in RowsHeld(e) => DebtKnown /\ Outstanding' = Outstanding
    BY <1>7, <2>2 DEF DebtKnown
  <2>6. VisitsKnown' /\ "visits" \in RowsHeld(e) =>
          /\ VisitsKnown
          /\ customer'.visits = customer.visits /\ customer'.spent = customer.spent
          /\ Cardinality(LiveBills)' = Cardinality(LiveBills) /\ Spent' = Spent
    <3>1. SUFFICES ASSUME VisitsKnown', "visits" \in RowsHeld(e)
                   PROVE  /\ VisitsKnown
                          /\ customer'.visits = customer.visits /\ customer'.spent = customer.spent
                          /\ Cardinality(LiveBills)' = Cardinality(LiveBills) /\ Spent' = Spent
      OBVIOUS
    <3>2. "visits" \notin crossedRows'
      BY <3>1 DEF VisitsKnown
    <3>3. Cardinality(LiveBills)' = Cardinality(LiveBills) /\ Spent' = Spent
      BY <2>3, <3>1, <3>2
    <3>4. VisitsKnown /\ customer'.visits = Cardinality(LiveBills)' /\ customer'.spent = Spent'
      BY <3>1
    <3>5. customer.visits = Cardinality(LiveBills) /\ customer.spent = Spent
      BY <1>1, <3>4 DEF RowsFit
    <3> QED
      BY <3>3, <3>4, <3>5
  <2>7. RequestFits(e)
    BY <1>1
  <2>8. "wallet" \in RowsHeld(e) /\ "wallet" \notin crossedRows' => customer'.wallet >= customer.wallet
    OBVIOUS
  <2> QED
    BY <1>2, <1>4, <2>1, <2>4, <2>5, <2>6, <2>7, <2>8, OtherFits
<1>11. RequestFits(d)'
  BY DeskIdle DEF Changes, Ends
<1> QED
  BY <1>9, <1>10, <1>11, MoneyPartsNext

\* What is known when no two requests were at one bill.
LEMMA Uncrossed ==
  ASSUME BillsInv, MoneyInv, NEW d \in Desks, NEW b, NEW rows, Changes(d, b, rows),
         NEW x \in Nat, NEW y \in Nat, NEW f \in Nat,
         NEW z \in Standings \cup {"VOID", "DELETED"}, RowBecomes(b, x, y, f, z),
         overpaid' = overpaid
  PROVE  /\ DebtKnown' => DebtKnown /\ b \notin crossedBills' /\ customer.outstanding = Outstanding
         /\ VisitsKnown' => b \notin crossedBills' /\ crossedBills = {} /\ "visits" \notin crossedRows
         /\ crossedBills' = {} => b \notin crossedBills'
         /\ b \notin crossedBills' => b \notin crossedBills
         /\ b \notin crossedBills /\ Live(b) => RowAddsUp(b)
         /\ b \notin crossedBills =>
              /\ AmountFits(d) /\ ~(BillHeld(d) \subseteq crossedBills)
              /\ Doing(d, "pay") \/ Doing(d, "unpay") \/ Doing(d, "refund") \/ Doing(d, "void") => Live(b)
              /\ Doing(d, "delete") => ~Live(b)
<1>1. RowsFit /\ RequestFits(d)
  BY MoneyParts
<1>2. /\ crossedBills \subseteq crossedBills' /\ crossedRows \subseteq crossedRows'
      /\ b \notin crossedBills => ~(BillHeld(d) \subseteq crossedBills)
      /\ b \in Bills
  BY BillTouched
<1>3. b \notin crossedBills =>
              /\ AmountFits(d) /\ ~(BillHeld(d) \subseteq crossedBills)
              /\ Doing(d, "pay") \/ Doing(d, "unpay") \/ Doing(d, "refund") \/ Doing(d, "void") => Live(b)
              /\ Doing(d, "delete") => ~Live(b)
  BY <1>1, <1>2 DEF RequestFits, AmountFits, Changes, Doing
<1>4. b \notin crossedBills /\ Live(b) => RowAddsUp(b)
  BY <1>1, <1>2 DEF RowsFit, BillsAddUp, LiveBills
<1>5. DebtKnown' => DebtKnown
  BY <1>2 DEF DebtKnown
<1>6. DebtKnown' => b \notin crossedBills'
  BY DEF DebtKnown
<1>7. VisitsKnown' => b \notin crossedBills' /\ crossedBills = {} /\ "visits" \notin crossedRows
  BY <1>2 DEF VisitsKnown
<1>8. DebtKnown => customer.outstanding = Outstanding
  BY <1>1 DEF RowsFit
<1>9. b \notin crossedBills' => b \notin crossedBills
  BY <1>2
<1> QED
  BY <1>3, <1>4, <1>5, <1>6, <1>7, <1>8, <1>9

\* Visits and what was spent, when the bill counts as before.
LEMMA VisitsStay ==
  ASSUME BillsInv, MoneyInv, NEW d \in Desks, NEW b, NEW rows, Changes(d, b, rows),
         NEW x \in Nat, NEW y \in Nat, NEW f \in Nat,
         NEW z \in Standings \cup {"VOID", "DELETED"}, RowBecomes(b, x, y, f, z),
         crossedBills = {} => (Live(b) <=> z \notin {"VOID", "DELETED"}),
         crossedBills = {} => f >= invoice[b].refunded,
         customer'.visits = customer.visits, customer'.spent = customer.spent
  PROVE  /\ crossedBills' = {} => LiveBills' = LiveBills
         /\ VisitsKnown' =>
              /\ VisitsKnown /\ customer'.visits = Cardinality(LiveBills)' /\ customer'.spent = Spent'
              /\ Cardinality(LiveBills)' = Cardinality(LiveBills) /\ Spent' = Spent
<1>1. /\ Made' = Made /\ \A c \in Bills \ {b} : Live(c)' = Live(c)
      /\ Live(b)' <=> z \notin {"VOID", "DELETED"}
      /\ \A c \in Made : invoice'[c].total = invoice[c].total
      /\ crossedBills \subseteq crossedBills' /\ crossedRows \subseteq crossedRows' /\ b \in Made /\ b \in Bills
  BY BillTouched
<1>2. RowsFit
  BY MoneyParts
<1>3. MoneyTyped
  BY DEF MoneyInv
<1>4. crossedBills' = {} => LiveBills' = LiveBills
  BY <1>1 DEF LiveBills
<1>5. PICK g : g = Totals'
  OBVIOUS
<1>6. \A c \in Made : g[c] = Totals[c]
  BY <1>1, <1>5 DEF Totals, Made
<1>7. Spent' = Sum(g, LiveBills')
  BY <1>5 DEF Spent
<1>8. Sum(Totals, LiveBills) = Sum(g, LiveBills)
  BY <1>3, <1>6, ColumnsTyped, SumSame
<1>9. crossedBills' = {} => Spent' = Spent
  BY <1>4, <1>7, <1>8 DEF Spent
<1>10. ASSUME VisitsKnown' PROVE VisitsKnown
  <2>1. crossedBills = {} /\ "visits" \notin crossedRows
    BY <1>1, <1>10 DEF VisitsKnown
  <2>2. f >= invoice[b].refunded /\ invoice'[b].refunded = f
    BY <2>1, AmountsFacts DEF Changes, BillsInv, BillsTyped
  <2>3. \A c \in Bills \ {b} : invoice'[c] = invoice[c]
    BY AmountsFacts DEF Changes, BillsInv, BillsTyped
  <2>4. \A c \in Made : /\ invoice[c].refunded \in Nat /\ invoice[c].total \in Nat
                        /\ invoice'[c].refunded \in Nat /\ invoice'[c].refunded >= invoice[c].refunded
    <3>1. ASSUME NEW c \in Made
          PROVE  /\ invoice[c].refunded \in Nat /\ invoice[c].total \in Nat
                 /\ invoice'[c].refunded \in Nat /\ invoice'[c].refunded >= invoice[c].refunded
      <4>1. invoice[c].refunded \in Nat /\ invoice[c].total \in Nat
        BY <1>3 DEF MoneyTyped, AmountsTyped
      <4>2. CASE c = b
        BY <2>2, <4>1, <4>2
      <4>3. CASE c # b
        <5>1. invoice'[c] = invoice[c]
          BY <2>3, <4>3 DEF Made
        <5> QED
          BY <4>1, <5>1
      <4> QED
        BY <4>2, <4>3
    <3> QED
      BY <3>1
  <2>5. NoneReturned'
    BY <1>10 DEF VisitsKnown
  <2>6. ASSUME NEW c \in Made PROVE invoice[c].refunded < invoice[c].total \/ invoice[c].total = 0
    <3>1. invoice'[c].refunded < invoice'[c].total \/ invoice'[c].total = 0
      BY <1>1, <2>5 DEF NoneReturned
    <3> QED
      BY <1>1, <2>4, <3>1
  <2> QED
    BY <2>1, <2>6 DEF VisitsKnown, NoneReturned
<1>11. VisitsKnown' => crossedBills' = {}
  BY DEF VisitsKnown
<1>12. VisitsKnown => customer.visits = Cardinality(LiveBills) /\ customer.spent = Spent
  BY <1>2 DEF RowsFit
<1>13. Cardinality(LiveBills)' = Cardinality(LiveBills')
  OBVIOUS
<1> QED
  BY <1>4, <1>9, <1>10, <1>11, <1>12, <1>13

\* What is owed, when one bill comes to have y due.
LEMMA OwedMoves ==
  ASSUME BillsInv, MoneyInv, NEW d \in Desks, NEW b, NEW rows, Changes(d, b, rows),
         NEW x \in Nat, NEW y \in Nat, NEW f \in Nat,
         NEW z \in Standings \cup {"VOID", "DELETED"}, RowBecomes(b, x, y, f, z),
         crossedBills' = {}
  PROVE  /\ Live(b) /\ z \notin {"VOID", "DELETED"} => Outstanding' = Outstanding - invoice[b].due + y
         /\ Live(b) /\ z = "VOID" => Outstanding' = Outstanding - invoice[b].due
         /\ ~Live(b) /\ z = "DELETED" => Outstanding' = Outstanding
         /\ Outstanding \in Nat /\ invoice[b].due \in Nat
<1>1. /\ Made' = Made /\ \A c \in Bills \ {b} : Live(c)' = Live(c)
      /\ Live(b)' <=> z \notin {"VOID", "DELETED"}
      /\ b \in Made /\ b \in Bills
  BY BillTouched
<1>2. MoneyTyped
  BY DEF MoneyInv
<1>3. PICK g : g = Dues'
  OBVIOUS
<1>4. PICK L : L = LiveBills'
  OBVIOUS
<1>5. Outstanding' = Sum(g, L)
  BY <1>3, <1>4 DEF Outstanding
<1>6. invoice'[b].due = y /\ \A c \in Bills \ {b} : invoice'[c] = invoice[c]
  BY AmountsFacts DEF Changes, BillsInv, BillsTyped
<1>7. g[b] = y /\ \A c \in Bills \ {b} : g[c] = Dues[c]
  BY <1>1, <1>3, <1>6 DEF Dues
<1>8. /\ IsFiniteSet(LiveBills) /\ LiveBills \subseteq Made /\ Made \subseteq Bills /\ Outstanding \in Nat
      /\ \A c \in LiveBills : Dues[c] \in Int
      /\ Dues[b] = invoice[b].due /\ invoice[b].due \in Nat
  BY <1>1, <1>2, ColumnsTyped
<1>9. \A c \in LiveBills : g[c] \in Int
  BY <1>7, <1>8
<1>10. \A c \in LiveBills \ {b} : Dues[c] = g[c]
  BY <1>7, <1>8
<1>11. ASSUME Live(b), z \notin {"VOID", "DELETED"} PROVE Outstanding' = Outstanding - invoice[b].due + y
  <2>1. b \in LiveBills /\ L = LiveBills
    BY <1>1, <1>4, <1>11 DEF LiveBills
  <2>2. Sum(g, LiveBills) = Sum(Dues, LiveBills) - Dues[b] + g[b]
    BY <1>8, <1>9, <1>10, <2>1, SumChanged
  <2> QED
    BY <1>5, <1>7, <1>8, <2>1, <2>2 DEF Outstanding
<1>12. ASSUME Live(b), z = "VOID" PROVE Outstanding' = Outstanding - invoice[b].due
  <2>1. b \in LiveBills /\ L = LiveBills \ {b}
    BY <1>1, <1>4, <1>12 DEF LiveBills
  <2>2. Sum(g, L) = Sum(Dues, LiveBills) - Dues[b]
    BY <1>8, <1>10, <2>1, SumLeft
  <2> QED
    BY <1>5, <1>8, <2>1, <2>2 DEF Outstanding
<1>13. ASSUME ~Live(b), z = "DELETED" PROVE Outstanding' = Outstanding
  <2>1. b \notin LiveBills /\ L = LiveBills
    BY <1>1, <1>4, <1>13 DEF LiveBills
  <2>2. Sum(Dues, LiveBills) = Sum(g, LiveBills)
    BY <1>8, <1>10, <2>1, SumSame
  <2> QED
    BY <1>5, <2>1, <2>2 DEF Outstanding
<1> QED
  BY <1>8, <1>11, <1>12, <1>13

LEMMA StatusIs ==
  ASSUME NEW x, NEW y
  PROVE  StatusFor(x, y) \in {"ISSUED", "PARTIALLY_PAID", "PAID"}
BY DEF StatusFor

LEMMA PayKeeps ==
  ASSUME BillsInv, MoneyInv, NEW d \in Desks, CommitPay(d)
  PROVE  MoneyInv'
<1>1. PICK r, b : r = request[d] /\ b = r.bill
  OBVIOUS
<1>2. PICK n : n = r.paid + r.amount
  OBVIOUS
<1>3. PICK left : left = AtLeastZero(invoice[b].total - n)
  OBVIOUS
<1>4. PICK z : z = StatusFor(n, left)
  OBVIOUS
<1>5. /\ Doing(d, "pay") /\ Changes(d, b, {"owed"})
      /\ RowBecomes(b, n, left, invoice[b].refunded, z)
      /\ payments' = [payments EXCEPT ![b] = Append(@, r.amount)]
      /\ customer' = [customer EXCEPT !.outstanding = @ + -r.amount]
      /\ UNCHANGED <<transactions, overpaid>>
  BY <1>1, <1>2, <1>3, <1>4, PayFacts DEF BillsInv
<1>6. r.paid \in Nat /\ r.amount \in Nat \ {0} /\ RequestFits(d)
  BY <1>1, <1>5, MoneyParts DEF RequestFits, AskedTyped
<1>7. b \in Made /\ b \in Bills
  BY <1>5 DEF Changes, Made
<1>8. /\ invoice[b].total \in Nat /\ invoice[b].paid \in Nat /\ invoice[b].due \in Nat
      /\ invoice[b].refunded \in Nat /\ payments \in [Bills -> Seq(Nat)] /\ payments[b] \in Seq(Nat)
      /\ customer \in Purse /\ transactions \in Int
  BY <1>7 DEF MoneyInv, MoneyTyped, AmountsTyped, Purse
<1>9. n \in Nat /\ left \in Nat
  BY <1>2, <1>3, <1>6, <1>8 DEF AtLeastZero
<1>10. z \in {"ISSUED", "PARTIALLY_PAID", "PAID"}
  BY <1>4, StatusIs
<1>11. z \in Standings \cup {"VOID", "DELETED"} /\ z \notin {"VOID", "DELETED"}
  BY <1>10 DEF Standings
<1>12. PICK paying : paying = Append(payments[b], r.amount)
  OBVIOUS
<1>13. paying \in Seq(Nat) /\ SumOf(paying) = SumOf(payments[b]) + r.amount /\ SumOf(payments[b]) \in Nat
  BY <1>6, <1>8, <1>12, PaymentAdded, PaymentsSum
<1>14. /\ payments' \in [Bills -> Seq(Nat)] /\ \A c \in Bills \ {b} : payments'[c] = payments[c]
       /\ payments'[b] = paying /\ DOMAIN payments[b] \subseteq DOMAIN payments'[b]
  <2>1. payments' = [payments EXCEPT ![b] = paying]
    BY <1>5, <1>12
  <2>2. DOMAIN payments[b] \subseteq DOMAIN paying
    BY <1>6, <1>8, <1>12
  <2> QED
    BY <1>7, <1>8, <1>13, <2>1, <2>2
<1>15. /\ customer' \in Purse /\ customer'.outstanding = customer.outstanding - r.amount
       /\ customer'.wallet = customer.wallet /\ customer'.visits = customer.visits
       /\ customer'.spent = customer.spent /\ customer'.points = customer.points
       /\ customer.outstanding \in Int /\ customer.wallet \in Int
  <2>1. customer.outstanding \in Int /\ customer.wallet \in Int
    BY <1>8, PurseTyped
  <2>2. PICK o : o = customer.outstanding - r.amount
    OBVIOUS
  <2>3. o \in Int /\ customer' = [customer EXCEPT !.outstanding = o]
    BY <1>5, <1>6, <2>1, <2>2
  <2>4. Has(customer', customer.wallet, o, customer.visits, customer.spent, customer.points)
    BY <1>8, <2>3, OwedSet
  <2> QED
    BY <2>1, <2>2, <2>4 DEF Has
<1>16. /\ DebtKnown' => DebtKnown /\ b \notin crossedBills' /\ customer.outstanding = Outstanding
       /\ b \notin crossedBills' => b \notin crossedBills
       /\ b \notin crossedBills /\ Live(b) => RowAddsUp(b)
       /\ b \notin crossedBills =>
            /\ AmountFits(d) /\ ~(BillHeld(d) \subseteq crossedBills)
            /\ Live(b)
  BY <1>5, <1>8, <1>9, <1>11, Uncrossed
<1>17. b \notin crossedBills => r.paid = invoice[b].paid /\ r.amount <= invoice[b].due /\ RowAddsUp(b)
  BY <1>1, <1>5, <1>16 DEF AmountFits
<1>18. b \notin crossedBills' => RowAddsUp(b)'
  <2>1. SUFFICES ASSUME b \notin crossedBills' PROVE RowAddsUp(b)'
    OBVIOUS
  <2>2. r.paid = invoice[b].paid /\ r.amount <= invoice[b].due /\ RowAddsUp(b)
    BY <1>16, <1>17, <2>1
  <2>3. /\ invoice'[b].total = invoice[b].total /\ invoice'[b].paid = n /\ invoice'[b].due = left
        /\ invoice'[b].status = z
    BY <1>5, <1>7, AmountsFacts DEF BillsInv, BillsTyped
  <2>4. invoice[b].total # 0
    BY <1>6, <1>8, <2>2 DEF RowAddsUp
  <2>5. b \notin overpaid => n = SumOf(paying) /\ left = invoice[b].total - n
    <3>1. b \notin overpaid =>
            invoice[b].paid = SumOf(payments[b]) /\ invoice[b].due = invoice[b].total - invoice[b].paid
      BY <2>2 DEF RowAddsUp
    <3> QED
      BY <1>2, <1>3, <1>6, <1>8, <1>13, <2>2, <3>1 DEF AtLeastZero
  <2> QED
    BY <1>4, <1>5, <1>10, <1>14, <2>3, <2>4, <2>5 DEF RowAddsUp
<1>19. DebtKnown' => customer'.outstanding = Outstanding'
  <2>1. SUFFICES ASSUME DebtKnown' PROVE customer'.outstanding = Outstanding'
    OBVIOUS
  <2>2. crossedBills' = {} /\ overpaid = {}
    BY <1>5, <2>1 DEF DebtKnown
  <2>3. Live(b) /\ Outstanding' = Outstanding - invoice[b].due + left /\ Outstanding \in Nat
    BY <1>5, <1>8, <1>9, <1>11, <1>16, <2>2, OwedMoves
  <2>4. r.paid = invoice[b].paid /\ r.amount <= invoice[b].due
        /\ invoice[b].due = invoice[b].total - invoice[b].paid
    BY <1>16, <1>17, <2>2 DEF RowAddsUp
  <2>5. left = invoice[b].due - r.amount
    BY <1>2, <1>3, <1>6, <1>8, <2>4 DEF AtLeastZero
  <2> QED
    BY <1>6, <1>8, <1>9, <1>15, <1>16, <2>1, <2>3, <2>5
<1>20. VisitsKnown' =>
         /\ VisitsKnown /\ customer'.visits = Cardinality(LiveBills)' /\ customer'.spent = Spent'
         /\ Cardinality(LiveBills)' = Cardinality(LiveBills) /\ Spent' = Spent
  <2>1. crossedBills = {} => (Live(b) <=> z \notin {"VOID", "DELETED"})
    BY <1>11, <1>16
  <2>2. invoice[b].refunded >= invoice[b].refunded
    BY <1>8
  <2> QED
    BY <1>5, <1>8, <1>9, <1>11, <1>15, <2>1, <2>2, VisitsStay
<1>21. "points" \notin crossedRows' =>
          customer'.points >= AtLeastZero(transactions') /\ customer'.points = customer.points
  BY <1>5, <1>15, MoneyParts, CrossingGrows DEF RowsFit, Changes
<1>22. customer'.wallet >= customer.wallet /\ transactions' \in Int
  BY <1>5, <1>8, <1>15
<1> QED
  BY <1>5, <1>8, <1>9, <1>11, <1>14, <1>15, <1>18, <1>19, <1>20, <1>21, <1>22, BillWritten

LEMMA UnpayKeeps ==
  ASSUME BillsInv, MoneyInv, NEW d \in Desks, CommitUnpay(d)
  PROVE  MoneyInv'
<1>1. PICK r, b : r = request[d] /\ b = r.bill
  OBVIOUS
<1>2. PICK money : money = payments[b][r.index]
  OBVIOUS
<1>3. PICK n : n = AtLeastZero(r.paid - money)
  OBVIOUS
<1>4. PICK left : left = AtLeastZero(invoice[b].total - n)
  OBVIOUS
<1>5. PICK z : z = StatusFor(n, left)
  OBVIOUS
<1>6. /\ Doing(d, "unpay") /\ Changes(d, b, {"owed"})
      /\ RowBecomes(b, n, left, invoice[b].refunded, z)
      /\ payments' = [payments EXCEPT ![b][r.index] = 0] /\ money > 0
      /\ customer' = [customer EXCEPT !.outstanding = @ + money]
      /\ UNCHANGED <<transactions, overpaid>>
  BY <1>1, <1>2, <1>3, <1>4, <1>5, UnpayFacts DEF BillsInv
<1>7. b \in Made /\ b \in Bills /\ Exists(b)
  BY <1>6 DEF Changes, Made
<1>8. r.paid \in Nat /\ r.index \in DOMAIN payments[b] /\ RequestFits(d)
  BY <1>1, <1>6, <1>7, MoneyParts DEF RequestFits, AskedTyped
<1>9. /\ invoice[b].total \in Nat /\ invoice[b].paid \in Nat /\ invoice[b].due \in Nat
      /\ invoice[b].refunded \in Nat /\ payments \in [Bills -> Seq(Nat)] /\ payments[b] \in Seq(Nat)
      /\ customer \in Purse /\ transactions \in Int
  BY <1>7 DEF MoneyInv, MoneyTyped, AmountsTyped, Purse
<1>10. money \in Nat
  BY <1>2, <1>8, <1>9
<1>11. n \in Nat /\ left \in Nat
  <2>1. n \in Nat
    BY <1>3, <1>8, <1>10 DEF AtLeastZero
  <2> QED
    BY <1>4, <1>9, <2>1 DEF AtLeastZero
<1>12. z \in {"ISSUED", "PARTIALLY_PAID", "PAID"}
  BY <1>5, StatusIs
<1>13. z \in Standings \cup {"VOID", "DELETED"} /\ z \notin {"VOID", "DELETED"}
  BY <1>12 DEF Standings
<1>14. PICK left0 : left0 = [payments[b] EXCEPT ![r.index] = 0]
  OBVIOUS
<1>15. left0 \in Seq(Nat) /\ SumOf(payments[b]) = SumOf(left0) + money /\ SumOf(left0) \in Nat
  BY <1>2, <1>8, <1>9, <1>14, PaymentErased
<1>16. /\ payments' \in [Bills -> Seq(Nat)] /\ \A c \in Bills \ {b} : payments'[c] = payments[c]
       /\ payments'[b] = left0
  <2>1. payments' = [payments EXCEPT ![b] = left0]
    BY <1>6, <1>14
  <2> QED
    BY <1>7, <1>9, <1>15, <2>1
<1>17. DOMAIN payments[b] \subseteq DOMAIN payments'[b]
  BY <1>14, <1>16
<1>18. /\ customer' \in Purse /\ customer'.outstanding = customer.outstanding + money
       /\ customer'.wallet = customer.wallet /\ customer'.visits = customer.visits
       /\ customer'.spent = customer.spent /\ customer'.points = customer.points
       /\ customer.outstanding \in Int /\ customer.wallet \in Int
  <2>1. customer.outstanding \in Int /\ customer.wallet \in Int
    BY <1>9, PurseTyped
  <2>2. PICK o : o = customer.outstanding + money
    OBVIOUS
  <2>3. o \in Int /\ customer' = [customer EXCEPT !.outstanding = o]
    BY <1>6, <1>10, <2>1, <2>2
  <2>4. Has(customer', customer.wallet, o, customer.visits, customer.spent, customer.points)
    BY <1>9, <2>3, OwedSet
  <2> QED
    BY <2>1, <2>2, <2>4 DEF Has
<1>19. /\ DebtKnown' => DebtKnown /\ b \notin crossedBills' /\ customer.outstanding = Outstanding
       /\ b \notin crossedBills' => b \notin crossedBills
       /\ b \notin crossedBills /\ Live(b) => RowAddsUp(b)
       /\ b \notin crossedBills =>
            /\ AmountFits(d) /\ ~(BillHeld(d) \subseteq crossedBills)
            /\ Live(b)
  BY <1>6, <1>9, <1>11, <1>13, Uncrossed
<1>20. b \notin crossedBills => r.paid = invoice[b].paid /\ RowAddsUp(b)
  BY <1>1, <1>6, <1>19 DEF AmountFits
<1>21. b \notin crossedBills /\ b \notin overpaid =>
          n = SumOf(left0) /\ left = invoice[b].total - n /\ left = invoice[b].due + money
  <2>1. SUFFICES ASSUME b \notin crossedBills, b \notin overpaid
                 PROVE  n = SumOf(left0) /\ left = invoice[b].total - n /\ left = invoice[b].due + money
    OBVIOUS
  <2>2. /\ r.paid = invoice[b].paid /\ invoice[b].paid = SumOf(payments[b])
        /\ invoice[b].due = invoice[b].total - invoice[b].paid
    BY <1>20, <2>1 DEF RowAddsUp
  <2>3. r.paid - money = SumOf(left0)
    BY <1>8, <1>10, <1>15, <2>2
  <2>4. n = SumOf(left0)
    BY <1>3, <1>15, <2>3 DEF AtLeastZero
  <2>5. invoice[b].total - n = invoice[b].due + money
    <3>1. PICK total, due, sum0, sum1 : /\ total = invoice[b].total /\ due = invoice[b].due
                                        /\ sum0 = SumOf(left0) /\ sum1 = SumOf(payments[b])
      OBVIOUS
    <3>2. total \in Nat /\ due \in Nat /\ sum0 \in Nat /\ money \in Nat
      BY <1>9, <1>10, <1>15, <3>1
    <3>3. due = total - sum1 /\ sum1 = sum0 + money /\ n = sum0
      BY <1>15, <2>2, <2>4, <3>1
    <3>4. total - n = due + money
      BY <3>2, <3>3
    <3> QED
      BY <3>1, <3>4
  <2>6. left = invoice[b].due + money
    BY <1>4, <1>9, <1>10, <2>5 DEF AtLeastZero
  <2> QED
    BY <2>4, <2>5, <2>6
<1>22. b \notin crossedBills' => RowAddsUp(b)'
  <2>1. SUFFICES ASSUME b \notin crossedBills' PROVE RowAddsUp(b)'
    OBVIOUS
  <2>2. r.paid = invoice[b].paid /\ RowAddsUp(b)
    BY <1>19, <1>20, <2>1
  <2>3. /\ invoice'[b].total = invoice[b].total /\ invoice'[b].paid = n /\ invoice'[b].due = left
        /\ invoice'[b].status = z
    BY <1>6, <1>7, AmountsFacts DEF BillsInv, BillsTyped
  <2>4. invoice[b].total = 0 => n = 0 /\ left = 0
    <3>1. invoice[b].total = 0 => r.paid = 0
      BY <2>2 DEF RowAddsUp
    <3> QED
      BY <1>3, <1>4, <1>6, <1>8, <1>9, <1>10, <3>1 DEF AtLeastZero
  <2>5. b \notin overpaid => n = SumOf(left0) /\ left = invoice[b].total - n
    BY <1>19, <1>21, <2>1
  <2> QED
    BY <1>5, <1>6, <1>12, <1>16, <2>3, <2>4, <2>5 DEF RowAddsUp
<1>23. DebtKnown' => customer'.outstanding = Outstanding'
  <2>1. SUFFICES ASSUME DebtKnown' PROVE customer'.outstanding = Outstanding'
    OBVIOUS
  <2>2. crossedBills' = {} /\ overpaid = {}
    BY <1>6, <2>1 DEF DebtKnown
  <2>3. Live(b) /\ Outstanding' = Outstanding - invoice[b].due + left /\ Outstanding \in Nat
    BY <1>6, <1>9, <1>11, <1>13, <1>19, <2>2, OwedMoves
  <2>4. left = invoice[b].due + money
    BY <1>19, <1>21, <2>2
  <2> QED
    BY <1>9, <1>10, <1>11, <1>18, <1>19, <2>1, <2>3, <2>4
<1>24. VisitsKnown' =>
         /\ VisitsKnown /\ customer'.visits = Cardinality(LiveBills)' /\ customer'.spent = Spent'
         /\ Cardinality(LiveBills)' = Cardinality(LiveBills) /\ Spent' = Spent
  <2>1. crossedBills = {} => (Live(b) <=> z \notin {"VOID", "DELETED"})
    BY <1>13, <1>19
  <2>2. invoice[b].refunded >= invoice[b].refunded
    BY <1>9
  <2> QED
    BY <1>6, <1>9, <1>11, <1>13, <1>18, <2>1, <2>2, VisitsStay
<1>25. "points" \notin crossedRows' =>
          customer'.points >= AtLeastZero(transactions') /\ customer'.points = customer.points
  BY <1>6, <1>18, MoneyParts, CrossingGrows DEF RowsFit, Changes
<1>26. customer'.wallet >= customer.wallet /\ transactions' \in Int
  BY <1>6, <1>9, <1>18
<1> QED
  BY <1>6, <1>9, <1>11, <1>13, <1>16, <1>17, <1>18, <1>22, <1>23, <1>24, <1>25, <1>26, BillWritten

LEMMA RefundKeeps ==
  ASSUME BillsInv, MoneyInv, NEW d \in Desks, CommitRefund(d)
  PROVE  MoneyInv'
<1>1. PICK r, b : r = request[d] /\ b = r.bill
  OBVIOUS
<1>2. PICK n : n = r.refunded + r.amount
  OBVIOUS
<1>3. PICK z : z = IF n >= invoice[b].total THEN "REFUNDED" ELSE r.status
  OBVIOUS
<1>4. /\ Doing(d, "refund") /\ Changes(d, b, {})
      /\ RowBecomes(b, invoice[b].paid, invoice[b].due, n, z)
      /\ customer' = [customer EXCEPT !.wallet = @ + (IF r.toWallet THEN r.amount ELSE 0)]
      /\ UNCHANGED <<payments, transactions, overpaid>>
  BY <1>1, <1>2, <1>3, RefundFacts DEF BillsInv
<1>5. b \in Made /\ b \in Bills
  BY <1>4 DEF Changes, Made
<1>6. r.refunded \in Nat /\ r.amount \in Nat \ {0} /\ r.status \in Standings
  BY <1>1, <1>4, MoneyParts DEF RequestFits, AskedTyped, BillsInv, BillsTyped, RequestsTyped, RequestTyped
<1>7. /\ invoice[b].total \in Nat /\ invoice[b].paid \in Nat /\ invoice[b].due \in Nat
      /\ invoice[b].refunded \in Nat /\ payments \in [Bills -> Seq(Nat)]
      /\ customer \in Purse /\ transactions \in Int
  BY <1>5 DEF MoneyInv, MoneyTyped, AmountsTyped, Purse
<1>8. n \in Nat /\ z \in Standings \cup {"VOID", "DELETED"} /\ z \notin {"VOID", "DELETED"}
  BY <1>2, <1>3, <1>6 DEF Standings
<1>9. /\ customer' \in Purse /\ customer'.outstanding = customer.outstanding
      /\ customer'.wallet >= customer.wallet /\ customer'.visits = customer.visits
      /\ customer'.spent = customer.spent /\ customer'.points = customer.points
  <2>1. customer.wallet \in Int
    BY <1>7, PurseTyped
  <2>2. PICK w : w = customer.wallet + (IF r.toWallet THEN r.amount ELSE 0)
    OBVIOUS
  <2>3. w \in Int /\ w >= customer.wallet
    <3>1. PICK more : more = IF r.toWallet THEN r.amount ELSE 0
      OBVIOUS
    <3>2. more \in Nat
      BY <1>6, <3>1
    <3> QED
      BY <2>1, <2>2, <3>1, <3>2
  <2>4. customer' = [customer EXCEPT !.wallet = w]
    BY <1>4, <2>2
  <2>5. Has(customer', w, customer.outstanding, customer.visits, customer.spent, customer.points)
    BY <1>7, <2>3, <2>4, WalletSet
  <2> QED
    BY <2>3, <2>5 DEF Has
<1>10. /\ DebtKnown' => DebtKnown /\ b \notin crossedBills' /\ customer.outstanding = Outstanding
       /\ crossedBills' = {} => b \notin crossedBills'
       /\ b \notin crossedBills' => b \notin crossedBills
       /\ b \notin crossedBills /\ Live(b) => RowAddsUp(b)
       /\ b \notin crossedBills =>
            /\ AmountFits(d) /\ ~(BillHeld(d) \subseteq crossedBills)
            /\ Live(b)
  BY <1>4, <1>7, <1>8, Uncrossed
<1>11. b \notin crossedBills =>
          /\ r.refunded = invoice[b].refunded /\ r.status = invoice[b].status
          /\ r.amount <= invoice[b].paid - invoice[b].refunded /\ RowAddsUp(b)
  BY <1>1, <1>4, <1>10 DEF AmountFits
<1>12. b \notin crossedBills' => RowAddsUp(b)'
  <2>1. SUFFICES ASSUME b \notin crossedBills' PROVE RowAddsUp(b)'
    OBVIOUS
  <2>2. /\ r.refunded = invoice[b].refunded /\ r.status = invoice[b].status
        /\ r.amount <= invoice[b].paid - invoice[b].refunded /\ RowAddsUp(b)
    BY <1>10, <1>11, <2>1
  <2>3. /\ invoice'[b].total = invoice[b].total /\ invoice'[b].paid = invoice[b].paid
        /\ invoice'[b].due = invoice[b].due /\ invoice'[b].refunded = n /\ invoice'[b].status = z
    BY <1>4, <1>5, AmountsFacts DEF BillsInv, BillsTyped
  <2>4. invoice[b].total # 0 /\ n <= invoice[b].paid /\ n >= invoice[b].refunded
    BY <1>2, <1>6, <1>7, <2>2 DEF RowAddsUp
  <2>5. z = "REFUNDED" => n >= invoice[b].total
    <3>1. r.status = "REFUNDED" => invoice[b].refunded >= invoice[b].total
      BY <2>2 DEF RowAddsUp
    <3> QED
      BY <1>3, <1>7, <1>8, <2>4, <3>1
  <2>6. b \notin overpaid =>
          IF z = "REFUNDED" THEN invoice[b].due = 0 ELSE z = StatusFor(invoice[b].paid, invoice[b].due)
    <3>1. SUFFICES ASSUME b \notin overpaid
                   PROVE  IF z = "REFUNDED" THEN invoice[b].due = 0
                          ELSE z = StatusFor(invoice[b].paid, invoice[b].due)
      OBVIOUS
    <3>2. CASE z = "REFUNDED"
      <4>1. invoice[b].due = invoice[b].total - invoice[b].paid
        BY <2>2, <3>1 DEF RowAddsUp
      <4>2. invoice[b].due = 0
        BY <1>7, <1>8, <2>4, <2>5, <3>2, <4>1
      <4> QED
        BY <3>2, <4>2
    <3>3. CASE z # "REFUNDED"
      <4>1. z = invoice[b].status
        BY <1>3, <2>2, <3>3
      <4> QED
        BY <2>2, <3>1, <3>3, <4>1 DEF RowAddsUp
    <3> QED
      BY <3>2, <3>3
  <2>7. b \notin overpaid =>
          invoice[b].paid = SumOf(payments[b]) /\ invoice[b].due = invoice[b].total - invoice[b].paid
    BY <2>2 DEF RowAddsUp
  <2> QED
    BY <1>4, <2>3, <2>4, <2>5, <2>6, <2>7 DEF RowAddsUp
<1>13. DebtKnown' => customer'.outstanding = Outstanding' /\ Outstanding' = Outstanding
  <2>1. SUFFICES ASSUME DebtKnown' PROVE customer'.outstanding = Outstanding' /\ Outstanding' = Outstanding
    OBVIOUS
  <2>2. crossedBills' = {}
    BY <2>1 DEF DebtKnown
  <2>3. Live(b) /\ Outstanding' = Outstanding - invoice[b].due + invoice[b].due /\ Outstanding \in Nat
    BY <1>4, <1>7, <1>8, <1>10, <2>2, OwedMoves
  <2> QED
    BY <1>7, <1>9, <1>10, <2>1, <2>3
<1>14. VisitsKnown' =>
         /\ VisitsKnown /\ customer'.visits = Cardinality(LiveBills)' /\ customer'.spent = Spent'
         /\ Cardinality(LiveBills)' = Cardinality(LiveBills) /\ Spent' = Spent
  <2>1. crossedBills = {} => (Live(b) <=> z \notin {"VOID", "DELETED"})
    BY <1>8, <1>10
  <2>2. crossedBills = {} => n >= invoice[b].refunded
    BY <1>2, <1>6, <1>7, <1>11
  <2> QED
    BY <1>4, <1>7, <1>8, <1>9, <2>1, <2>2, VisitsStay
<1>15. "points" \notin crossedRows' =>
          customer'.points >= AtLeastZero(transactions') /\ customer'.points = customer.points
  BY <1>4, <1>9, MoneyParts, CrossingGrows DEF RowsFit, Changes
<1>16. transactions' \in Int /\ payments' \in [Bills -> Seq(Nat)]
  BY <1>4, <1>7
<1>17. (\A c \in Bills \ {b} : payments'[c] = payments[c]) /\ DOMAIN payments[b] \subseteq DOMAIN payments'[b]
  BY <1>4
<1> QED
  BY <1>4, <1>7, <1>8, <1>9, <1>12, <1>13, <1>14, <1>15, <1>16, <1>17, BillWritten

LEMMA DeleteKeeps ==
  ASSUME BillsInv, MoneyInv, NEW d \in Desks, CommitDelete(d)
  PROVE  MoneyInv'
<1>1. PICK r, b : r = request[d] /\ b = r.bill
  OBVIOUS
<1>2. PICK x, y, f : x = invoice[b].paid /\ y = invoice[b].due /\ f = invoice[b].refunded
  OBVIOUS
<1>3. /\ Doing(d, "delete") /\ Changes(d, b, {})
      /\ RowBecomes(b, x, y, f, "DELETED")
      /\ payments' = [payments EXCEPT ![b] = <<>>]
      /\ UNCHANGED <<customer, transactions, overpaid>>
  BY <1>1, <1>2, DeleteAmounts DEF BillsInv
<1>4. b \in Made /\ b \in Bills
  BY <1>3 DEF Changes, Made
<1>5. /\ x \in Nat /\ y \in Nat /\ f \in Nat /\ payments \in [Bills -> Seq(Nat)]
      /\ customer \in Purse /\ transactions \in Int /\ customer.wallet \in Int
  BY <1>2, <1>4, PurseTyped DEF MoneyInv, MoneyTyped, AmountsTyped, Purse
<1>6. /\ payments' \in [Bills -> Seq(Nat)] /\ \A c \in Bills \ {b} : payments'[c] = payments[c]
  <2>1. <<>> \in Seq(Nat)
    OBVIOUS
  <2> QED
    BY <1>3, <1>4, <1>5, <2>1
<1>7. /\ DebtKnown' => DebtKnown /\ b \notin crossedBills' /\ customer.outstanding = Outstanding
      /\ crossedBills' = {} => b \notin crossedBills'
      /\ b \notin crossedBills' => b \notin crossedBills
      /\ b \notin crossedBills => ~Live(b)
  BY <1>3, <1>5, Uncrossed
<1>8. DebtKnown' => customer'.outstanding = Outstanding' /\ Outstanding' = Outstanding
  <2>1. SUFFICES ASSUME DebtKnown' PROVE customer'.outstanding = Outstanding' /\ Outstanding' = Outstanding
    OBVIOUS
  <2>2. crossedBills' = {}
    BY <2>1 DEF DebtKnown
  <2>3. Outstanding' = Outstanding
    BY <1>3, <1>5, <1>7, <2>2, OwedMoves
  <2> QED
    BY <1>3, <1>7, <2>1, <2>3
<1>9. VisitsKnown' =>
         /\ VisitsKnown /\ customer'.visits = Cardinality(LiveBills)' /\ customer'.spent = Spent'
         /\ Cardinality(LiveBills)' = Cardinality(LiveBills) /\ Spent' = Spent
  <2>1. crossedBills = {} => (Live(b) <=> "DELETED" \notin {"VOID", "DELETED"})
    BY <1>7
  <2>2. f >= invoice[b].refunded
    BY <1>2, <1>5
  <2> QED
    BY <1>3, <1>5, <2>1, <2>2, VisitsStay
<1>10. "points" \notin crossedRows' =>
          customer'.points >= AtLeastZero(transactions') /\ customer'.points = customer.points
  BY <1>3, MoneyParts, CrossingGrows DEF RowsFit, Changes
<1>11. customer'.wallet >= customer.wallet /\ transactions' \in Int /\ customer' \in Purse
  BY <1>3, <1>5
<1> QED
  BY <1>3, <1>5, <1>6, <1>8, <1>9, <1>10, <1>11, BillWritten

LEMMA PointsBack ==
  ASSUME NEW c \in Int, NEW t \in Int, NEW u \in Nat, NEW e \in Nat, c >= AtLeastZero(t)
  PROVE  AtLeastZero(c + u - e) >= AtLeastZero(t + u - e)
BY DEF AtLeastZero

\* A bill that does not count any more.
LEMMA VisitsFall ==
  ASSUME BillsInv, MoneyInv, NEW d \in Desks, NEW b, NEW rows, Changes(d, b, rows),
         NEW x \in Nat, NEW y \in Nat, RowBecomes(b, x, y, invoice[b].refunded, "VOID"),
         VisitsKnown', Live(b)
  PROVE  /\ VisitsKnown
         /\ Cardinality(LiveBills)' = Cardinality(LiveBills) - 1 /\ Cardinality(LiveBills)' \in Nat
         /\ Spent' = Spent - invoice[b].total /\ Spent' \in Nat
<1>1. b \in Made /\ invoice[b].refunded \in Nat
  BY DEF Changes, MoneyInv, MoneyTyped, AmountsTyped
<1>2. /\ Made' = Made /\ \A c \in Bills \ {b} : Live(c)' = Live(c)
      /\ ~Live(b)'
      /\ \A c \in Made : invoice'[c].total = invoice[c].total
      /\ crossedBills \subseteq crossedBills' /\ crossedRows \subseteq crossedRows' /\ b \in Bills
      /\ AmountsTyped'
  BY <1>1, BillTouched
<1>3. MoneyTyped
  BY DEF MoneyInv
<1>4. PICK L : L = LiveBills'
  OBVIOUS
<1>5. b \in LiveBills /\ L = LiveBills \ {b}
  BY <1>2, <1>4 DEF LiveBills
<1>6. /\ IsFiniteSet(LiveBills) /\ LiveBills \subseteq Made /\ Made \subseteq Bills /\ Spent \in Nat
      /\ \A c \in Made : Totals[c] \in Int /\ Totals[c] = invoice[c].total
  BY <1>3, ColumnsTyped
<1>7. Cardinality(LiveBills) = Cardinality(L) + 1 /\ Cardinality(L) \in Nat
  BY <1>5, <1>6, OneLess
<1>8. PICK g : g = Totals'
  OBVIOUS
<1>9. \A c \in Made : g[c] = Totals[c]
  BY <1>2, <1>6, <1>8 DEF Totals
<1>10. Spent' = Sum(g, L)
  BY <1>4, <1>8 DEF Spent
<1>11. Sum(g, L) = Sum(Totals, LiveBills) - Totals[b]
  <2>1. \A c \in LiveBills : Totals[c] \in Int
    BY <1>6
  <2>2. \A c \in L : Totals[c] = g[c]
    BY <1>5, <1>6, <1>9
  <2> QED
    BY <1>5, <1>6, <2>1, <2>2, SumLeft
<1>12. Spent' = Spent - invoice[b].total
  BY <1>5, <1>6, <1>10, <1>11 DEF Spent
<1>13. Sum(g, L) \in Nat
  <2>1. IsFiniteSet(L)
    BY <1>5, <1>6, FS_Subset
  <2>2. \A c \in L : g[c] \in Nat /\ g[c] \in Int
    BY <1>3, <1>5, <1>6, <1>9 DEF MoneyTyped, AmountsTyped
  <2> QED
    BY <2>1, <2>2, SumType
<1>14. VisitsKnown
  <2>1. crossedBills = {} /\ "visits" \notin crossedRows
    BY <1>2 DEF VisitsKnown
  <2>2. \A c \in Made : invoice'[c].refunded = invoice[c].refunded
    BY <1>1, AmountsFacts DEF Changes, BillsInv, BillsTyped, Made
  <2>3. NoneReturned'
    BY DEF VisitsKnown
  <2>4. NoneReturned
    BY <1>2, <2>2, <2>3 DEF NoneReturned
  <2> QED
    BY <2>1, <2>4 DEF VisitsKnown
<1>15. Cardinality(LiveBills)' = Cardinality(L)
  BY <1>4
<1> QED
  BY <1>6, <1>7, <1>10, <1>12, <1>13, <1>14, <1>15, FS_CardinalityType

LEMMA VoidKeeps ==
  ASSUME BillsInv, MoneyInv, NEW d \in Desks, CommitVoid(d)
  PROVE  MoneyInv'
<1>1. PICK r, b, row : r = request[d] /\ b = r.bill /\ row = invoice[b]
  OBVIOUS
<1>2. PICK x, f : x = row.paid /\ f = row.refunded
  OBVIOUS
<1>3. PICK rows : rows = {"visits", "owed", "points"} \cup RowOf(row.line)
  OBVIOUS
<1>4. /\ At(d, "void", "commit") /\ Doing(d, "void") /\ Changes(d, b, rows)
      /\ RowBecomes(b, x, 0, f, "VOID")
      /\ customer' = CustomerAfterVoid(r, row)
      /\ transactions' = transactions + row.redeemed - row.earned
      /\ UNCHANGED <<payments, overpaid>>
  BY <1>1, <1>2, <1>3, VoidAmounts DEF BillsInv, At
<1>5. b \in Made /\ b \in Bills
  BY <1>4 DEF Changes, Made
<1>6. /\ r.due \in Nat /\ r.seen.visits \in Int /\ r.seen.spent \in Int /\ r.seen.points \in Int
      /\ RequestFits(d) /\ RowsFit
  BY <1>1, <1>4, MoneyParts DEF RequestFits, AskedTyped
<1>7. /\ row.total \in Nat /\ row.paid \in Nat /\ row.due \in Nat /\ row.refunded \in Nat
      /\ row.earned \in Nat /\ row.redeemed \in Nat /\ x \in Nat /\ f \in Nat
      /\ payments \in [Bills -> Seq(Nat)] /\ customer \in Purse /\ transactions \in Int
  BY <1>1, <1>2, <1>5 DEF MoneyInv, MoneyTyped, AmountsTyped, Purse
<1>8. PICK p, v, m, o :
        /\ p = AtLeastZero(r.seen.points + row.redeemed - row.earned)
        /\ v = AtLeastZero(r.seen.visits - 1)
        /\ m = AtLeastZero(r.seen.spent - row.total)
        /\ o = customer.outstanding - r.due
  OBVIOUS
<1>9. /\ customer' \in Purse /\ customer'.outstanding = o /\ customer'.wallet = customer.wallet
      /\ customer'.visits = v /\ customer'.spent = m /\ customer'.points = p
      /\ customer.wallet \in Int /\ customer.outstanding \in Int
  <2>1. /\ customer.wallet \in Int /\ customer.outstanding \in Int
    BY <1>7, PurseTyped
  <2>2. p \in Int /\ v \in Int /\ m \in Int /\ o \in Int
    <3>1. PICK points \in Int, visits \in Int, spent \in Int, total \in Nat, due \in Nat :
             /\ points = r.seen.points /\ visits = r.seen.visits /\ spent = r.seen.spent
             /\ total = row.total /\ due = r.due
      BY <1>6, <1>7
    <3>2. PICK redeemed \in Nat, earned \in Nat :
             redeemed = row.redeemed /\ earned = row.earned
      BY <1>7
    <3>3. p = AtLeastZero(points + redeemed - earned) /\ v = AtLeastZero(visits - 1)
          /\ m = AtLeastZero(spent - total) /\ o = customer.outstanding - due
      BY <1>8, <3>1, <3>2
    <3>4. p \in Int
      BY <3>3 DEF AtLeastZero
    <3>5. v \in Int /\ m \in Int
      BY <3>3 DEF AtLeastZero
    <3>6. o \in Int
      BY <2>1, <3>3
    <3> QED
      BY <3>4, <3>5, <3>6
  <2>3. customer' = [customer EXCEPT !.points = p, !.visits = v, !.spent = m, !.outstanding = o]
    BY <1>4, <1>8 DEF CustomerAfterVoid
  <2>4. PICK c, e : c = customer /\ e = customer'
    OBVIOUS
  <2>5. c \in Purse /\ e = [c EXCEPT !.points = p, !.visits = v, !.spent = m, !.outstanding = o]
    BY <1>7, <2>3, <2>4
  <2>6. Has(e, c.wallet, o, v, m, p)
    <3>1. c \in Purse
      BY <2>5
    <3>2. e = [c EXCEPT !.points = p, !.visits = v, !.spent = m, !.outstanding = o]
      BY <2>5
    <3> QED
      BY <2>2, <3>1, <3>2, FourSet
  <2> QED
    BY <2>1, <2>4, <2>6 DEF Has
<1>10. "VOID" \in Standings \cup {"VOID", "DELETED"} /\ 0 \in Nat
  OBVIOUS
<1>11. /\ DebtKnown' => DebtKnown /\ b \notin crossedBills' /\ customer.outstanding = Outstanding
       /\ VisitsKnown' => b \notin crossedBills' /\ crossedBills = {}
       /\ crossedBills' = {} => b \notin crossedBills'
       /\ b \notin crossedBills' => b \notin crossedBills
       /\ b \notin crossedBills =>
            /\ AmountFits(d) /\ ~(BillHeld(d) \subseteq crossedBills)
            /\ Live(b)
  BY <1>4, <1>7, <1>10, Uncrossed
<1>12. b \notin crossedBills => r.due = row.due
  BY <1>1, <1>4, <1>11 DEF AmountFits
<1>13. DebtKnown' => customer'.outstanding = Outstanding'
  <2>1. SUFFICES ASSUME DebtKnown' PROVE customer'.outstanding = Outstanding'
    OBVIOUS
  <2>2. crossedBills' = {}
    BY <2>1 DEF DebtKnown
  <2>3. Outstanding' = Outstanding - invoice[b].due
    BY <1>4, <1>7, <1>10, <1>11, <2>2, OwedMoves
  <2> QED
    BY <1>1, <1>8, <1>9, <1>11, <1>12, <2>1, <2>2, <2>3
<1>14. VisitsKnown' =>
          VisitsKnown /\ customer'.visits = Cardinality(LiveBills)' /\ customer'.spent = Spent'
  <2>1. SUFFICES ASSUME VisitsKnown'
                 PROVE  VisitsKnown /\ customer'.visits = Cardinality(LiveBills)' /\ customer'.spent = Spent'
    OBVIOUS
  <2>2. /\ VisitsKnown
        /\ Cardinality(LiveBills)' = Cardinality(LiveBills) - 1 /\ Cardinality(LiveBills)' \in Nat
        /\ Spent' = Spent - invoice[b].total /\ Spent' \in Nat
    BY <1>1, <1>2, <1>4, <1>7, <1>10, <1>11, <2>1, VisitsFall
  <2>3. /\ customer.visits = Cardinality(LiveBills) /\ customer.spent = Spent
        /\ r.seen.visits = customer.visits /\ r.seen.spent = customer.spent
    BY <1>1, <1>4, <1>6, <2>2 DEF RowsFit, RequestFits, VisitsFit
  <2>4. v = Cardinality(LiveBills)'
    BY <1>8, <2>2, <2>3 DEF AtLeastZero
  <2>5. m = Spent'
    BY <1>1, <1>8, <2>2, <2>3 DEF AtLeastZero
  <2> QED
    BY <1>9, <2>2, <2>4, <2>5
<1>15. "points" \notin crossedRows' => customer'.points >= AtLeastZero(transactions')
  <2>1. SUFFICES ASSUME "points" \notin crossedRows'
                 PROVE  customer'.points >= AtLeastZero(transactions')
    OBVIOUS
  <2>2. "points" \notin crossedRows
    BY <1>4, <2>1, CrossingGrows DEF Changes
  <2>3. customer.points >= AtLeastZero(transactions) /\ r.seen.points = customer.points
    BY <1>1, <1>4, <1>6, <2>2 DEF RowsFit, RequestFits, PointsFit
  <2>4. p >= AtLeastZero(transactions')
    <3>1. customer.points \in Int
      BY <1>7, PurseTyped
    <3>2. p = AtLeastZero(customer.points + row.redeemed - row.earned)
      BY <1>8, <2>3
    <3> QED
      BY <1>4, <1>7, <2>3, <3>1, <3>2, PointsBack
  <2> QED
    BY <1>9, <2>4
<1>16. customer'.wallet >= customer.wallet /\ transactions' \in Int
  <2>1. customer'.wallet >= customer.wallet
    BY <1>9
  <2>2. transactions \in Int /\ row.redeemed \in Nat /\ row.earned \in Nat
    BY <1>7
  <2> QED
    BY <1>4, <2>1, <2>2
<1>17. "visits" \in rows /\ "owed" \in rows /\ "points" \in rows
  BY <1>3
<1>18. /\ payments' \in [Bills -> Seq(Nat)] /\ \A c \in Bills \ {b} : payments'[c] = payments[c]
       /\ DOMAIN payments[b] \subseteq DOMAIN payments'[b]
  BY <1>4, <1>7
<1>19. overpaid' = overpaid
  BY <1>4
<1>20. "VOID" \in {"VOID", "DELETED"}
  OBVIOUS
<1> QED
  BY <1>4, <1>7, <1>9, <1>10, <1>13, <1>14, <1>15, <1>16, <1>17, <1>18, <1>19, <1>20, BillWritten

\* Writes that leave the bills alone.
BillsRest ==
    /\ UNCHANGED <<invoice, payments, overpaid, crossedBills>> /\ crossedRows \subseteq crossedRows'

LEMMA RestFacts ==
  ASSUME MoneyInv, BillsRest, customer' \in Purse, transactions' \in Int
  PROVE  /\ MoneyTyped' /\ BillsAddUp'
         /\ Outstanding' = Outstanding /\ Spent' = Spent /\ Cardinality(LiveBills)' = Cardinality(LiveBills)
         /\ (DebtKnown' => DebtKnown) /\ (VisitsKnown' => VisitsKnown)
<1>1. Made' = Made /\ LiveBills' = LiveBills
  BY DEF BillsRest, Made, LiveBills, Live, Exists
<1>2. MoneyTyped'
  BY <1>1 DEF BillsRest, MoneyInv, MoneyTyped, AmountsTyped, Purse
<1>3. BillsAddUp'
  BY <1>1 DEF BillsRest, MoneyInv, BillsAddUp, RowAddsUp
<1>4. Outstanding' = Outstanding /\ Spent' = Spent
  BY <1>1 DEF BillsRest, Outstanding, Spent, Dues, Totals
<1>5. (DebtKnown' => DebtKnown) /\ (VisitsKnown' => VisitsKnown)
  BY <1>1 DEF BillsRest, DebtKnown, VisitsKnown, NoneReturned
<1>6. Cardinality(LiveBills)' = Cardinality(LiveBills)
  BY <1>1
<1> QED
  BY <1>2, <1>3, <1>4, <1>5, <1>6

LEMMA RestRead ==
  ASSUME BillsRest, NEW e \in Desks, request'[e] = request[e], RequestFits(e)
  PROVE  AskedTyped(e)' /\ AmountFits(e)'
<1>1. AskedTyped(e)'
  BY DEF BillsRest, RequestFits, AskedTyped, Doing, Exists
<1>2. AmountFits(e)'
  BY DEF BillsRest, RequestFits, AmountFits, BillHeld, Doing, Live, Exists
<1> QED
  BY <1>1, <1>2

LEMMA AdvanceKeeps ==
  ASSUME BillsInv, MoneyInv, AddAdvance
  PROVE  MoneyInv'
<1>1. RowsFit /\ \A e \in Desks : RequestFits(e)
  BY MoneyParts
<1>2. BillsRest /\ UNCHANGED <<transactions, request, crossedRows>>
  BY DEF AddAdvance, BillsRest, history
<1>3. customer \in Purse /\ transactions \in Int
  BY DEF MoneyInv, MoneyTyped, Purse
<1>4. PICK w : w = customer.wallet + 1
  OBVIOUS
<1>5. customer.wallet \in Int /\ w \in Int /\ w >= customer.wallet
  BY <1>3, <1>4, PurseTyped
<1>6. customer' = [customer EXCEPT !.wallet = w]
  BY <1>4 DEF AddAdvance
<1>7. /\ customer' \in Purse /\ customer'.wallet = w /\ customer'.outstanding = customer.outstanding
      /\ customer'.visits = customer.visits /\ customer'.spent = customer.spent
      /\ customer'.points = customer.points
  BY <1>3, <1>5, <1>6, WalletSet DEF Has
<1>8. /\ MoneyTyped' /\ BillsAddUp'
      /\ Outstanding' = Outstanding /\ Spent' = Spent /\ Cardinality(LiveBills)' = Cardinality(LiveBills)
      /\ (DebtKnown' => DebtKnown) /\ (VisitsKnown' => VisitsKnown)
  BY <1>2, <1>3, <1>7, RestFacts
<1>9. RowsFit'
  BY <1>1, <1>2, <1>4, <1>5, <1>7, <1>8 DEF RowsFit
<1>10. ASSUME NEW e \in Desks PROVE RequestFits(e)'
  <2>1. RequestFits(e) /\ request'[e] = request[e] /\ AskedTyped(e)' /\ AmountFits(e)'
    BY <1>1, <1>2, RestRead
  <2> QED
    BY <1>2, <1>3, <1>5, <1>7, <1>8, <2>1, OtherFits
<1> QED
  BY <1>9, <1>10, MoneyPartsNext

LEMMA AdjustKeeps ==
  ASSUME BillsInv, MoneyInv, NEW d \in Desks, CommitAdjust(d)
  PROVE  MoneyInv'
<1>1. RowsFit /\ \A e \in Desks : RequestFits(e)
  BY MoneyParts
<1>2. PICK r : r = request[d]
  OBVIOUS
<1>3. /\ Doing(d, "adjust") /\ Ends(d) /\ Crossing(d, {}, {"points"})
      /\ customer' = [customer EXCEPT !.points = r.balance]
      /\ transactions' = transactions + r.amount
      /\ UNCHANGED <<invoice, payments, overpaid>>
  BY <1>2, EndFacts DEF CommitAdjust, BillsInv, BillsTyped
<1>4. BillsRest
  BY <1>3 DEF BillsRest, Crossing
<1>5. customer \in Purse /\ transactions \in Int /\ customer.wallet \in Int /\ customer.points \in Int
  BY PurseTyped DEF MoneyInv, MoneyTyped, Purse
<1>6. r.amount \in Int /\ r.balance \in Int
  BY <1>1, <1>2, <1>3 DEF RequestFits, AskedTyped
<1>7. /\ customer' \in Purse /\ customer'.wallet = customer.wallet
      /\ customer'.outstanding = customer.outstanding
      /\ customer'.visits = customer.visits /\ customer'.spent = customer.spent
      /\ customer'.points = r.balance
  BY <1>3, <1>5, <1>6, PointsSet DEF Has
<1>8. transactions' \in Int
  BY <1>3, <1>5, <1>6
<1>9. /\ MoneyTyped' /\ BillsAddUp'
      /\ Outstanding' = Outstanding /\ Spent' = Spent /\ Cardinality(LiveBills)' = Cardinality(LiveBills)
      /\ (DebtKnown' => DebtKnown) /\ (VisitsKnown' => VisitsKnown)
  BY <1>4, <1>7, <1>8, RestFacts
<1>10. "points" \notin crossedRows' => customer'.points >= AtLeastZero(transactions')
  <2>1. SUFFICES ASSUME "points" \notin crossedRows' PROVE customer'.points >= AtLeastZero(transactions')
    OBVIOUS
  <2>2. "points" \notin crossedRows
    BY <1>4, <2>1 DEF BillsRest
  <2>3. /\ customer.points >= AtLeastZero(transactions)
        /\ r.balance = customer.points + r.amount /\ r.balance >= 0
    BY <1>1, <1>2, <1>3, <2>2 DEF RowsFit, RequestFits, PointsFit
  <2> QED
    BY <1>3, <1>5, <1>6, <1>7, <2>3 DEF AtLeastZero
<1>11. RowsFit'
  BY <1>1, <1>4, <1>7, <1>9, <1>10 DEF RowsFit, BillsRest
<1>12. ASSUME NEW e \in Desks \ {d} PROVE RequestFits(e)'
  <2>1. RequestFits(e) /\ request'[e] = request[e]
    BY <1>1, <1>3 DEF Ends, OthersWait
  <2>2. AskedTyped(e)' /\ AmountFits(e)'
    BY <1>4, <2>1, RestRead
  <2>3. ~SameSeries(d, e)
    BY <1>3 DEF SameSeries, Doing
  <2>4. "points" \in RowsHeld(e) => "points" \in crossedRows'
    BY <1>3, <2>3, CrossingGrows
  <2>5. crossedRows \subseteq crossedRows' /\ customer'.wallet >= customer.wallet
    BY <1>4, <1>5, <1>7 DEF BillsRest
  <2> QED
    BY <1>5, <1>7, <1>9, <2>1, <2>2, <2>4, <2>5, OtherFits
<1>13. RequestFits(d)'
  BY <1>3, DeskIdle DEF Ends
<1> QED
  BY <1>11, <1>12, <1>13, MoneyPartsNext

LEMMA RollupKeeps ==
  ASSUME BillsInv, MoneyInv, NEW d \in Desks, CommitRollup(d)
  PROVE  MoneyInv'
<1>1. RowsFit /\ \A e \in Desks : RequestFits(e)
  BY MoneyParts
<1>2. PICK r : r = request[d]
  OBVIOUS
<1>3. /\ Doing(d, "rollup") /\ Ends(d) /\ Crossing(d, {}, {"visits", "owed"})
      /\ customer' = [customer EXCEPT !.visits = r.visits, !.spent = r.spent, !.outstanding = r.outstanding]
      /\ UNCHANGED <<invoice, payments, transactions, overpaid>>
  BY <1>2, EndFacts DEF CommitRollup, BillsInv, BillsTyped
<1>4. BillsRest
  BY <1>3 DEF BillsRest, Crossing
<1>5. customer \in Purse /\ transactions \in Int /\ customer.wallet \in Int /\ customer.points \in Int
  BY PurseTyped DEF MoneyInv, MoneyTyped, Purse
<1>6. r.visits \in Int /\ r.spent \in Int /\ r.outstanding \in Int
  BY <1>1, <1>2, <1>3 DEF RequestFits, AskedTyped
<1>7. /\ customer' \in Purse /\ customer'.wallet = customer.wallet
      /\ customer'.outstanding = r.outstanding
      /\ customer'.visits = r.visits /\ customer'.spent = r.spent
      /\ customer'.points = customer.points
  <2>1. Has(customer', customer.wallet, r.outstanding, r.visits, r.spent, customer.points)
    BY <1>3, <1>5, <1>6, ThreeSet
  <2> QED
    BY <2>1 DEF Has
<1>8. transactions' \in Int
  BY <1>3, <1>5
<1>9. /\ MoneyTyped' /\ BillsAddUp'
      /\ Outstanding' = Outstanding /\ Spent' = Spent /\ Cardinality(LiveBills)' = Cardinality(LiveBills)
      /\ (DebtKnown' => DebtKnown) /\ (VisitsKnown' => VisitsKnown)
  BY <1>4, <1>7, <1>8, RestFacts
<1>10. DebtKnown' => customer'.outstanding = Outstanding'
  BY <1>1, <1>2, <1>3, <1>7, <1>9 DEF RequestFits, DebtFits
<1>11. VisitsKnown' => customer'.visits = Cardinality(LiveBills)' /\ customer'.spent = Spent'
  BY <1>1, <1>2, <1>3, <1>7, <1>9 DEF RequestFits, VisitsFit
<1>12. RowsFit'
  BY <1>1, <1>3, <1>4, <1>7, <1>9, <1>10, <1>11 DEF RowsFit, BillsRest
<1>13. ASSUME NEW e \in Desks \ {d} PROVE RequestFits(e)'
  <2>1. RequestFits(e) /\ request'[e] = request[e]
    BY <1>1, <1>3 DEF Ends, OthersWait
  <2>2. AskedTyped(e)' /\ AmountFits(e)'
    BY <1>4, <2>1, RestRead
  <2>3. ~SameSeries(d, e)
    BY <1>3 DEF SameSeries, Doing
  <2>4. /\ "visits" \in RowsHeld(e) => "visits" \in crossedRows'
        /\ "owed" \in RowsHeld(e) => "owed" \in crossedRows'
    BY <1>3, <2>3, CrossingGrows
  <2>5. crossedRows \subseteq crossedRows' /\ customer'.wallet >= customer.wallet
    BY <1>4, <1>5, <1>7 DEF BillsRest
  <2>6. /\ DebtKnown' => "owed" \notin RowsHeld(e)
        /\ VisitsKnown' => "visits" \notin RowsHeld(e)
    BY <2>4 DEF DebtKnown, VisitsKnown
  <2> QED
    BY <1>5, <1>7, <1>9, <2>1, <2>2, <2>5, <2>6, OtherFits
<1>14. RequestFits(d)'
  BY <1>3, DeskIdle DEF Ends
<1> QED
  BY <1>12, <1>13, <1>14, MoneyPartsNext

\* The sums with a bill more.
LEMMA SumsGrow ==
  ASSUME MoneyTyped, NEW b \in Bills, b \notin Made, Made' = Made \cup {b},
         \A c \in Bills \ {b} : invoice'[c] = invoice[c],
         NEW due \in Nat, invoice'[b].due = due, NEW total \in Nat, invoice'[b].total = total,
         invoice'[b].status \in {"ISSUED", "PARTIALLY_PAID", "PAID"}
  PROVE  /\ LiveBills' = LiveBills \cup {b} /\ b \notin LiveBills
         /\ \A c \in Bills \ {b} : Live(c)' = Live(c)
         /\ Outstanding' = Outstanding + due /\ Spent' = Spent + total
         /\ Cardinality(LiveBills)' = Cardinality(LiveBills) + 1
<1>1. \A c \in Bills \ {b} : Live(c)' = Live(c)
  BY DEF Live, Exists
<1>2. Live(b)'
  BY DEF Made, Live, Exists
<1>3. b \notin LiveBills
  BY DEF LiveBills, Live, Exists, Made
<1>4. LiveBills' = LiveBills \cup {b}
  BY <1>1, <1>2 DEF LiveBills
<1>5. PICK g, h : g = Dues' /\ h = Totals'
  OBVIOUS
<1>6. g[b] = due /\ h[b] = total
  BY <1>5 DEF Dues, Totals
<1>7. \A c \in Bills \ {b} : g[c] = Dues[c] /\ h[c] = Totals[c]
  BY <1>5 DEF Dues, Totals
<1>8. /\ IsFiniteSet(LiveBills) /\ LiveBills \subseteq Made /\ Made \subseteq Bills
      /\ \A c \in LiveBills : Dues[c] \in Int /\ Totals[c] \in Int
  BY ColumnsTyped
<1>9. PICK L : L = LiveBills'
  OBVIOUS
<1>10. \A c \in LiveBills : Dues[c] = g[c] /\ Totals[c] = h[c]
  BY <1>3, <1>7, <1>8
<1>11. Sum(g, LiveBills \cup {b}) = Sum(Dues, LiveBills) + g[b]
  BY <1>3, <1>6, <1>8, <1>10, SumJoined
<1>12. Sum(h, LiveBills \cup {b}) = Sum(Totals, LiveBills) + h[b]
  BY <1>3, <1>6, <1>8, <1>10, SumJoined
<1>13. Outstanding' = Sum(g, L) /\ Spent' = Sum(h, L)
  BY <1>5, <1>9 DEF Outstanding, Spent
<1>14. Outstanding' = Outstanding + due /\ Spent' = Spent + total
  BY <1>4, <1>6, <1>9, <1>11, <1>12, <1>13 DEF Outstanding, Spent
<1>15. Cardinality(L) = Cardinality(LiveBills) + 1
  BY <1>3, <1>4, <1>8, <1>9, OneMore
<1>16. Cardinality(LiveBills)' = Cardinality(L)
  BY <1>9
<1> QED
  BY <1>1, <1>3, <1>4, <1>14, <1>15, <1>16

\* The purse after a bill, and what it says of the one before.
LEMMA PurseBuilt ==
  ASSUME NEW w \in Int, NEW o \in Int, NEW v \in Int, NEW m \in Int, NEW p \in Int, NEW e,
         e = [wallet |-> w, outstanding |-> o, visits |-> v, spent |-> m, points |-> p]
  PROVE  Has(e, w, o, v, m, p)
BY DEF Has, Purse

LEMMA PointsSpent ==
  ASSUME NEW c \in Int, NEW t \in Int, NEW points \in Nat, NEW earned \in Nat,
         c >= AtLeastZero(t), points > 0 => points <= c
  PROVE  c - points + earned >= AtLeastZero(t - points + earned)
BY DEF AtLeastZero

LEMMA NewRowAddsUp ==
  ASSUME NEW b \in Bills, NEW total \in Nat, NEW money \in Nat, NEW due, due = AtLeastZero(total - money),
         invoice'[b].total = total, invoice'[b].paid = Least(money, total), invoice'[b].due = due,
         invoice'[b].status = StatusFor(money, due), SumOf(payments'[b]) = money,
         b \notin overpaid' => ~(money > total)
  PROVE  RowAddsUp(b)'
<1>1. StatusFor(money, due) \in {"ISSUED", "PARTIALLY_PAID", "PAID"}
  BY StatusIs
<1>2. total = 0 => Least(money, total) = 0 /\ due = 0
  BY DEF Least, AtLeastZero
<1>3. b \notin overpaid' => Least(money, total) = money /\ due = total - money
  BY DEF Least, AtLeastZero
<1> QED
  BY <1>1, <1>2, <1>3 DEF RowAddsUp

LEMMA CreateKeeps ==
  ASSUME BillsInv, MoneyInv, NEW d \in Desks, CommitCreate(d)
  PROVE  MoneyInv'
<1>1. RowsFit /\ \A e \in Desks : RequestFits(e)
  BY MoneyParts
<1>2. AskedTyped(d)
  BY <1>1 DEF RequestFits
<1>3. PICK b, total, points, wallet, given, due, earned :
         Creates(d, b, total, points, wallet, given, due, earned)
  BY <1>2, CreateAmounts
<1>4. PICK r, row : r = request[d] /\ row = invoice'[b]
  OBVIOUS
<1>5. PICK rows : rows = {"visits", "owed"} \cup (IF wallet > 0 THEN {"wallet"} ELSE {})
                         \cup (IF points + earned > 0 THEN {"points"} ELSE {}) \cup RowOf(r.basket.line)
  OBVIOUS
<1>6. /\ At(d, "create", "commit") /\ Ends(d) /\ Doing(d, "create")
      /\ b \in Bills /\ b \notin Made /\ Made' = Made \cup {b}
      /\ \A c \in Bills \ {b} : invoice'[c] = invoice[c]
      /\ total \in Nat /\ due \in Nat /\ earned \in Nat
      /\ points \in Nat /\ points <= r.basket.points
      /\ wallet \in Nat /\ (wallet > 0 => r.basket.wallet > 0 /\ wallet <= r.seen.wallet)
      /\ given \in Seq(Nat) /\ due = AtLeastZero(total - SumOf(given))
  BY <1>3, <1>4 DEF Creates, At
<1>7. /\ row.total = total /\ row.paid = Least(SumOf(given), total) /\ row.due = due
      /\ row.refunded = 0 /\ row.earned = earned /\ row.redeemed = points
      /\ row.status = StatusFor(SumOf(given), due)
  BY <1>3, <1>4 DEF Creates
<1>8. /\ payments' = [payments EXCEPT ![b] = given]
      /\ customer' = [wallet |-> customer.wallet - wallet, outstanding |-> customer.outstanding + due,
                      visits |-> r.seen.visits + 1, spent |-> r.seen.spent + total,
                      points |-> customer.points - points + earned]
      /\ transactions' = transactions - points + earned
      /\ overpaid' = (IF SumOf(given) > total THEN overpaid \cup {b} ELSE overpaid)
  BY <1>3, <1>4 DEF Creates
<1>9. Crossing(d, {}, rows)
  BY <1>3, <1>4, <1>5 DEF Creates
<1>10. /\ customer \in Purse /\ transactions \in Int
       /\ customer.wallet \in Int /\ customer.outstanding \in Int /\ customer.points \in Int
       /\ r.seen.wallet \in Int /\ r.seen.visits \in Int /\ r.seen.spent \in Int
       /\ payments \in [Bills -> Seq(Nat)] /\ overpaid \in SUBSET Bills
  BY <1>2, <1>4, <1>6, PurseTyped DEF AskedTyped, MoneyInv, MoneyTyped, Purse
<1>11. SumOf(given) \in Nat
  BY <1>6, PaymentsSum
<1>12. /\ customer' \in Purse /\ customer'.wallet = customer.wallet - wallet
       /\ customer'.outstanding = customer.outstanding + due
       /\ customer'.visits = r.seen.visits + 1 /\ customer'.spent = r.seen.spent + total
       /\ customer'.points = customer.points - points + earned
  <2>1. /\ customer.wallet - wallet \in Int /\ customer.outstanding + due \in Int
        /\ r.seen.visits + 1 \in Int /\ r.seen.spent + total \in Int
        /\ customer.points - points + earned \in Int
    <3>1. customer.wallet - wallet \in Int /\ customer.outstanding + due \in Int
      BY <1>6, <1>10
    <3>2. r.seen.visits + 1 \in Int /\ r.seen.spent + total \in Int
      <4>1. r.seen.visits \in Int /\ r.seen.spent \in Int /\ total \in Nat
        BY <1>6, <1>10
      <4> QED
        BY <4>1
    <3>3. customer.points - points + earned \in Int
      BY <1>6, <1>10
    <3> QED
      BY <3>1, <3>2, <3>3
  <2>2. Has(customer', customer.wallet - wallet, customer.outstanding + due, r.seen.visits + 1,
            r.seen.spent + total, customer.points - points + earned)
    BY <1>8, <2>1, PurseBuilt
  <2> QED
    BY <2>2 DEF Has
<1>13. /\ LiveBills' = LiveBills \cup {b} /\ b \notin LiveBills
       /\ \A c \in Bills \ {b} : Live(c)' = Live(c)
       /\ Outstanding' = Outstanding + due /\ Spent' = Spent + total
       /\ Cardinality(LiveBills)' = Cardinality(LiveBills) + 1
  <2>1. invoice'[b].status \in {"ISSUED", "PARTIALLY_PAID", "PAID"}
    BY <1>4, <1>7, StatusIs
  <2>2. MoneyTyped
    BY DEF MoneyInv
  <2>3. invoice'[b].due = due /\ invoice'[b].total = total
    BY <1>4, <1>7
  <2> QED
    BY <1>6, <2>1, <2>2, <2>3, SumsGrow
<1>14. payments'[b] = given /\ \A c \in Bills \ {b} : payments'[c] = payments[c]
  BY <1>6, <1>8, <1>10
<1>15. MoneyTyped'
  <2>1. AmountsTyped'
    <3>1. ASSUME NEW c \in Made'
          PROVE  /\ invoice'[c].total \in Nat /\ invoice'[c].paid \in Nat /\ invoice'[c].due \in Nat
                 /\ invoice'[c].refunded \in Nat /\ invoice'[c].earned \in Nat /\ invoice'[c].redeemed \in Nat
      <4>1. CASE c = b
        <5>1. Least(SumOf(given), total) \in Nat
          BY <1>6, <1>11 DEF Least
        <5> QED
          BY <1>4, <1>6, <1>7, <4>1, <5>1
      <4>2. CASE c # b
        <5>1. c \in Made /\ invoice'[c] = invoice[c]
          BY <1>6, <4>2 DEF Made
        <5> QED
          BY <5>1 DEF MoneyInv, MoneyTyped, AmountsTyped
      <4> QED
        BY <4>1, <4>2
    <3> QED
      BY <3>1 DEF AmountsTyped
  <2>2. payments' \in [Bills -> Seq(Nat)] /\ overpaid' \in SUBSET Bills
    BY <1>6, <1>8, <1>10
  <2>3. transactions' \in Int
    BY <1>6, <1>8, <1>10
  <2> QED
    BY <1>12, <2>1, <2>2, <2>3 DEF MoneyTyped, Purse
<1>16. crossedBills' = crossedBills /\ crossedRows \subseteq crossedRows'
  BY <1>9 DEF Crossing
<1>17. BillsAddUp'
  <2>1. ASSUME NEW c \in LiveBills', c \notin crossedBills' PROVE RowAddsUp(c)'
    <3>1. CASE c = b
      <4>1. b \notin overpaid' => ~(SumOf(given) > total)
        BY <1>8
      <4>2. RowAddsUp(b)'
        BY <1>4, <1>6, <1>7, <1>11, <1>14, <4>1, NewRowAddsUp
      <4> QED
        BY <3>1, <4>2
    <3>2. CASE c # b
      <4>1. c \in LiveBills \ crossedBills /\ c \in Bills \ {b}
        BY <1>13, <1>16, <2>1, <3>2 DEF LiveBills
      <4>2. RowAddsUp(c)
        BY <1>1, <4>1 DEF RowsFit, BillsAddUp
      <4>3. invoice'[c] = invoice[c] /\ payments'[c] = payments[c] /\ (c \in overpaid' <=> c \in overpaid)
        BY <1>6, <1>8, <1>14, <4>1
      <4> QED
        BY <4>2, <4>3 DEF RowAddsUp
    <3> QED
      BY <3>1, <3>2
  <2> QED
    BY <2>1 DEF BillsAddUp
<1>18. RequestFits(d)
  BY <1>1
<1>19. "wallet" \notin crossedRows' => customer'.wallet >= 0
  <2>1. SUFFICES ASSUME "wallet" \notin crossedRows' PROVE customer'.wallet >= 0
    OBVIOUS
  <2>2. "wallet" \notin crossedRows
    BY <1>16, <2>1
  <2>3. customer.wallet >= 0 /\ (r.basket.wallet > 0 => r.seen.wallet <= customer.wallet)
    BY <1>1, <1>4, <1>6, <1>18, <2>2 DEF RowsFit, RequestFits, WalletFits
  <2> QED
    BY <1>6, <1>10, <1>12, <2>3
<1>20. "points" \notin crossedRows' => customer'.points >= AtLeastZero(transactions')
  <2>1. SUFFICES ASSUME "points" \notin crossedRows' PROVE customer'.points >= AtLeastZero(transactions')
    OBVIOUS
  <2>2. "points" \notin crossedRows
    BY <1>16, <2>1
  <2>3. /\ customer.points >= AtLeastZero(transactions)
        /\ (r.basket.points > 0 => r.basket.points <= customer.points)
    BY <1>1, <1>4, <1>6, <1>18, <2>2 DEF RowsFit, RequestFits, PointsFit
  <2>4. r.basket.points \in Nat
    <3>1. IsCreation(r)
      BY <1>4, <1>6 DEF BillsInv, BillsTyped, RequestsTyped, RequestTyped
    <3> QED
      BY <3>1, BasketsAssumption DEF IsCreation
  <2>5. points > 0 => points <= customer.points
    BY <1>6, <1>10, <2>3, <2>4
  <2> QED
    BY <1>6, <1>8, <1>10, <1>12, <2>3, <2>5, PointsSpent
<1>21. DebtKnown' => DebtKnown
  BY <1>8, <1>16 DEF DebtKnown
<1>22. VisitsKnown' => VisitsKnown
  <2>1. SUFFICES ASSUME VisitsKnown' PROVE VisitsKnown
    OBVIOUS
  <2>2. crossedBills = {} /\ "visits" \notin crossedRows /\ NoneReturned'
    BY <1>16, <2>1 DEF VisitsKnown
  <2>3. \A c \in Made : c \in Made' /\ invoice'[c] = invoice[c]
    BY <1>6 DEF Made
  <2> QED
    BY <2>2, <2>3 DEF VisitsKnown, NoneReturned
<1>23. DebtKnown' => customer'.outstanding = Outstanding'
  BY <1>1, <1>12, <1>13, <1>21 DEF RowsFit
<1>24. VisitsKnown' => customer'.visits = Cardinality(LiveBills)' /\ customer'.spent = Spent'
  <2>1. VisitsKnown => /\ customer.visits = Cardinality(LiveBills) /\ customer.spent = Spent
                       /\ r.seen.visits = customer.visits /\ r.seen.spent = customer.spent
    BY <1>1, <1>4, <1>6, <1>18 DEF RowsFit, RequestFits, VisitsFit
  <2> QED
    BY <1>12, <1>13, <1>22, <2>1
<1>25. RowsFit'
  BY <1>15, <1>17, <1>19, <1>20, <1>23, <1>24 DEF RowsFit
<1>26. ASSUME NEW e \in Desks \ {d} PROVE RequestFits(e)'
  <2>1. RequestFits(e) /\ request'[e] = request[e]
    BY <1>1, <1>6 DEF Ends, OthersWait
  <2>2. BillHeld(e) \subseteq Made
    BY DEF BillsInv, BillsTyped, RequestsTyped, RequestTyped
  <2>3. PICK c : c = request[e].bill
    OBVIOUS
  <2>4. \A op : Doing(e, op)' = Doing(e, op)
    BY <2>1 DEF Doing
  <2>5. BillHeld(e)' = BillHeld(e)
    BY <2>1 DEF BillHeld
  <2>6. BillHeld(e) = {} \/ (BillHeld(e) = {c} /\ c \in Bills \ {b})
    BY <1>6, <2>2, <2>3 DEF BillHeld, Made
  <2>7. c \in Bills \ {b} => /\ invoice'[c] = invoice[c] /\ payments'[c] = payments[c]
                             /\ Live(c)' = Live(c) /\ Exists(c)' = Exists(c)
    BY <1>6, <1>13, <1>14 DEF Exists
  <2>8. request'[e].bill = c
    BY <2>1, <2>3
  <2>9. AskedTyped(e)'
    <3>1. Doing(e, "unpay") => c \in Bills \ {b}
      BY <2>3, <2>6 DEF BillHeld, Doing
    <3>2. Doing(e, "unpay") /\ Exists(c)' => request[e].index \in DOMAIN payments'[c]
      BY <2>1, <2>3, <2>7, <3>1 DEF RequestFits, AskedTyped
    <3>3. AskedTyped(e)
      BY <2>1 DEF RequestFits
    <3> QED
      BY <2>1, <2>3, <2>4, <3>2, <3>3 DEF AskedTyped
  <2>10. AmountFits(e)'
    <3>1. CASE BillHeld(e) = {}
      BY <2>5, <3>1 DEF AmountFits
    <3>2. CASE c \in Bills \ {b}
      <4>1. AmountFits(e)
        BY <2>1 DEF RequestFits
      <4> QED
        BY <1>16, <2>1, <2>3, <2>4, <2>5, <2>7, <2>8, <3>2, <4>1 DEF AmountFits
    <3> QED
      BY <2>6, <3>1, <3>2
  <2>0. Doing(e, "create") => request[e].basket.line \in {"service", "product", "session"}
    <3>1. Doing(e, "create") => IsCreation(request[e])
      BY DEF BillsInv, BillsTyped, RequestsTyped, RequestTyped
    <3> QED
      BY <3>1, BasketsAssumption DEF IsCreation
  <2>11. "wallet" \in RowsHeld(e) /\ "wallet" \notin crossedRows' => customer'.wallet >= customer.wallet
    <3>1. "wallet" \in RowsHeld(e) /\ "wallet" \notin crossedRows' => "wallet" \notin rows
      BY <1>9, CrossingGrows
    <3>2. "wallet" \notin rows => wallet = 0
      BY <1>5, <1>6
    <3> QED
      BY <1>10, <1>12, <3>1, <3>2
  <2>12. "points" \in RowsHeld(e) /\ "points" \notin crossedRows' => customer'.points = customer.points
    <3>1. SUFFICES ASSUME "points" \in RowsHeld(e), "points" \notin crossedRows'
                   PROVE  customer'.points = customer.points
      OBVIOUS
    <3>2. ~SameSeries(d, e)
      <4>1. SUFFICES ASSUME SameSeries(d, e) PROVE FALSE
        OBVIOUS
      <4>2. At(e, "create", "commit")
        BY <2>0, <3>1, <4>1 DEF SameSeries, RowsHeld, Doing, At, RowOf
      <4>3. NumberFits(d) /\ NumberFits(e)
        BY DEF BillsInv, Numbering
      <4>4. issuing[request[d].basket.kind] = d /\ issuing[request[e].basket.kind] = e
        BY <1>6, <4>2, <4>3 DEF NumberFits, At
      <4> QED
        BY <4>1, <4>4 DEF SameSeries
    <3>3. "points" \notin rows
      BY <1>9, <3>1, <3>2, CrossingGrows
    <3>4. points = 0 /\ earned = 0
      BY <1>5, <1>6, <3>3
    <3> QED
      BY <1>10, <1>12, <3>4
  <2>13. DebtKnown' => "owed" \notin RowsHeld(e)
    <3>1. "owed" \in RowsHeld(e) => ~SameSeries(d, e)
      BY <2>0 DEF SameSeries, RowsHeld, Doing, RowOf
    <3>2. "owed" \in rows
      BY <1>5
    <3> QED
      BY <1>9, <3>1, <3>2, CrossingGrows DEF DebtKnown
  <2>14. VisitsKnown' => "visits" \notin RowsHeld(e)
    <3>1. "visits" \in rows
      BY <1>5
    <3> QED
      BY <1>9, <3>1, CrossingGrows DEF VisitsKnown
  <2> QED
    BY <1>10, <1>12, <1>16, <2>1, <2>9, <2>10, <2>11, <2>12, <2>13, <2>14, OtherFits
<1>27. RequestFits(d)'
  BY <1>6, DeskIdle DEF Ends
<1> QED
  BY <1>25, <1>26, <1>27, MoneyPartsNext

LEMMA MoneyInit == Init => MoneyInv
<1> SUFFICES ASSUME Init PROVE MoneyInv
  OBVIOUS
<1>1. \A b \in Bills : invoice[b] = NoBill
  BY DEF Init
<1>2. Made = {} /\ LiveBills = {}
  BY <1>1 DEF Made, LiveBills, Live, Exists
<1>3. customer = [wallet |-> 0, outstanding |-> 0, visits |-> 0, spent |-> 0, points |-> 0]
  BY DEF Init
<1>4. /\ customer.wallet = 0 /\ customer.outstanding = 0 /\ customer.visits = 0
      /\ customer.spent = 0 /\ customer.points = 0
  BY <1>3
<1>5. customer \in [wallet : Int, outstanding : Int, visits : Int, spent : Int, points : Int]
  BY <1>3
<1>6. MoneyTyped
  BY <1>2, <1>5 DEF Init, MoneyTyped, AmountsTyped
<1>7. Outstanding = 0 /\ Spent = 0 /\ Cardinality(LiveBills) = 0
  BY <1>2, SumEmpty, FS_EmptySet DEF Outstanding, Spent
<1>8. RowsFit
  BY <1>2, <1>4, <1>6, <1>7 DEF Init, RowsFit, BillsAddUp, AtLeastZero
<1>9. ASSUME NEW d \in Desks PROVE RequestFits(d)
  <2>1. request[d] = Idle
    BY DEF Init
  <2> QED
    BY <2>1 DEF RequestFits, AskedTyped, AmountFits, WalletFits, PointsFit, DebtFits, VisitsFit,
                At, Doing, BillHeld
<1> QED
  BY <1>8, <1>9, MoneyParts

LEMMA MoneyStep == BillsInv /\ MoneyInv /\ [Next]_vars => MoneyInv'
<1> SUFFICES ASSUME BillsInv, MoneyInv, [Next]_vars PROVE MoneyInv'
  OBVIOUS
<1>1. CASE AddAdvance
  BY <1>1, AdvanceKeeps
<1>2. ASSUME NEW d \in Desks, Ask(d) PROVE MoneyInv'
  BY <1>2, AskFits
<1>3. ASSUME NEW d \in Desks, Read(d) PROVE MoneyInv'
  BY <1>3, CreationReads, VoidReads DEF Read
<1>4. ASSUME NEW d \in Desks, Commit(d) PROVE MoneyInv'
  BY <1>4, CreateKeeps, PayKeeps, UnpayKeeps, RefundKeeps, VoidKeeps, DeleteKeeps, AdjustKeeps,
     RollupKeeps DEF Commit
<1>5. ASSUME NEW d \in Desks, Abandon(d) PROVE MoneyInv'
  BY <1>5, AbandonKeeps
<1>6. CASE MoveVisit \/ UNCHANGED vars
  <2>1. Idles /\ request' = request
    BY <1>6 DEF MoveVisit, AskMove, CommitMove, vars, data, history, Idles
  <2>2. RowsFit /\ \A e \in Desks : RequestFits(e)
    BY MoneyParts
  <2>3. RowsFit'
    BY <2>1, <2>2, RowsIdle
  <2>4. \A e \in Desks : RequestFits(e)'
    BY <2>1, <2>2, OtherIdle
  <2> QED
    BY <2>3, <2>4, MoneyPartsNext
<1> QED
  BY <1>1, <1>2, <1>3, <1>4, <1>5, <1>6 DEF Next

LEMMA MoneyMeaning == BillsInv /\ MoneyInv => MoneyAddsUp
<1> SUFFICES ASSUME BillsInv, MoneyInv PROVE MoneyAddsUp
  OBVIOUS
<1>1. RowsFit
  BY MoneyParts
<1>2. LiveBills \in SUBSET Bills
  BY DEF LiveBills
<1>3. SumOver(LiveBills, LAMBDA b : invoice[b].due) = Sum(Dues, LiveBills)
  BY <1>2, DuesSum
<1>4. SumOver(LiveBills, LAMBDA b : invoice[b].total) = Sum(Totals, LiveBills)
  BY <1>2, TotalsSum
<1>5. ASSUME NEW b \in LiveBills \ (crossedBills \cup overpaid)
      PROVE  /\ invoice[b].paid = SumOf(payments[b])
             /\ invoice[b].due = invoice[b].total - invoice[b].paid
             /\ invoice[b].status \in {StatusFor(invoice[b].paid, invoice[b].due), "REFUNDED"}
             /\ invoice[b].status = "REFUNDED" => invoice[b].refunded >= invoice[b].total
  BY <1>1 DEF RowsFit, BillsAddUp, RowAddsUp
<1>6. "wallet" \notin crossedRows => customer.wallet >= 0
  BY <1>1 DEF RowsFit
<1>7. "points" \notin crossedRows => customer.points >= AtLeastZero(transactions)
  BY <1>1 DEF RowsFit
<1>8. crossedBills = {} /\ overpaid = {} /\ "owed" \notin crossedRows =>
         customer.outstanding = SumOver(LiveBills, LAMBDA b : invoice[b].due)
  BY <1>1, <1>3 DEF RowsFit, DebtKnown, Outstanding
<1>9. /\ crossedBills = {} /\ "visits" \notin crossedRows
      /\ \A b \in Made : invoice[b].refunded < invoice[b].total \/ invoice[b].total = 0
      =>
        /\ customer.visits = Cardinality(LiveBills)
        /\ customer.spent = SumOver(LiveBills, LAMBDA b : invoice[b].total)
  BY <1>1, <1>4 DEF RowsFit, VisitsKnown, NoneReturned, Spent
<1> QED
  BY <1>5, <1>6, <1>7, <1>8, <1>9 DEF MoneyAddsUp

-----------------------------------------------------------------------------
(* Till *)

TillInv == BillsInv /\ MoneyInv /\ MonthInv /\ ShelfInv /\ SoldInv /\ PointsInv

LEMMA TillStep ==
  ASSUME [TillNext]_<<watched, vars, month, shelf, sold, account>>
  PROVE  [Next]_vars /\ [E!Next]_E!vars /\ [R!Next]_R!vars /\ [M!Next]_M!vars /\ [P!Next]_P!vars
<1>0. [Next]_vars
  BY DEF TillNext
<1>1. [E!Next]_E!vars
  BY DEF TillNext, month, E!vars
<1>2. [R!Next]_R!vars
  BY DEF TillNext, shelf, R!vars, R!shelf, R!paper, R!mind
<1>3. [M!Next]_M!vars
  BY DEF TillNext, sold, M!vars, M!rows, M!request
<1>4. [P!Next]_P!vars
  BY DEF TillNext, account, P!vars, P!bills
<1> QED
  BY <1>0, <1>1, <1>2, <1>3, <1>4

\* What the services rely on between a read and the write that follows it.
THEOREM TillInvariant == TillSpec => []TillInv
<1>1. TillInit => TillInv
  BY BillsInit, MoneyInit, MonthInit, ShelfInit, SoldInit, PointsInit DEF TillInit, TillInv
<1>2. TillInv /\ [TillNext]_<<watched, vars, month, shelf, sold, account>> => TillInv'
  BY TillStep, BillsStep, MoneyStep, MonthNext, ShelfNext, SoldNext, PointsNext DEF TillInv
<1> QED
  BY <1>1, <1>2, PTL DEF TillSpec

\* The numbers of a series have no gap and no double, whatever overlaps, aborts or is
\* deleted (invoice-series.service.ts, issueInvoiceNumber).
THEOREM NumbersStayConsecutive == TillSpec => []NumbersConsecutive
<1>1. TillInv => NumbersConsecutive
  BY BillsMeaning DEF TillInv
<1> QED
  BY <1>1, TillInvariant, PTL

\* An appointment has one bill at most, and is COMPLETED while that bill counts unless two
\* requests were at one bill (billing.service.ts, createInvoice and voidInvoice).
THEOREM AppointmentsMatchBills == TillSpec => []AppointmentMatchesBill
<1>1. TillInv => AppointmentMatchesBill
  BY BillsMeaning DEF TillInv
<1> QED
  BY <1>1, TillInvariant, PTL

\* Sessions used are the bills that used one, and the stock is its movements, unless two
\* requests were at one bill or one row (redeemPackageSession, recordMovement).
THEOREM UsedStaysBilled == TillSpec => []UsedIsBilled
<1>1. TillInv => UsedIsBilled
  BY BillsMeaning DEF TillInv
<1> QED
  BY <1>1, TillInvariant, PTL

\* The paid and the due of a bill are its payments and what they leave of its total, the
\* wallet and the points never fall below zero, and what the customer owes, has spent and
\* how often they came are the sums over the bills that count, of everything two requests
\* were not at together (billing.service.ts, createInvoice, addPayment, removePayment,
\* refundInvoice, voidInvoice, deleteInvoice, recalculateCustomerRollups).
THEOREM MoneyAlwaysAddsUp == TillSpec => []MoneyAddsUp
<1>1. TillInv => MoneyAddsUp
  BY MoneyMeaning DEF TillInv
<1> QED
  BY <1>1, TillInvariant, PTL

\* A payroll pays what it marks as paid, each line once, unless a request had overtaken it
\* (payroll.service.ts, commission.service.ts).
THEOREM SlipsPayWhatTheyMark == TillSpec => []SlipPaysWhatItMarks
<1>1. TillInv => SlipPaysWhatItMarks
  BY SlipHolds DEF TillInv, SlipPaysWhatItMarks
<1> QED
  BY <1>1, TillInvariant, PTL

\* The ledger explains the stock, and an order brings no more than was ordered, unless two
\* requests were at the same product or order (stock.service.ts, purchasing).
THEOREM StockStaysExplained == TillSpec => []StockIsExplained
<1>1. TillInv => StockIsExplained
  BY StockHolds DEF TillInv, StockIsExplained
<1> QED
  BY <1>1, TillInvariant, PTL

\* One membership at a time, the next from where the last ended, and no more sessions than
\* it includes (membership.service.ts).
THEOREM MembershipsAddUp == TillSpec => []MembershipAddsUp
<1>1. TillInv => MembershipAddsUp
  BY SoldHold DEF TillInv, MembershipAddsUp
<1> QED
  BY <1>1, TillInvariant, PTL

\* The ledger explains the points, which never go below zero; a lot expires once and a
\* challenge pays once (loyalty.service.ts).
THEOREM PointsAlwaysAddUp == TillSpec => []PointsAddUp
<1>1. TillInv => PointsAddUp
  BY PointsHold DEF TillInv, PointsAddUp
<1> QED
  BY <1>1, TillInvariant, PTL

=============================================================================
