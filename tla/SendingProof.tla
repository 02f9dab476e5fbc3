---------------------------- MODULE SendingProof -----------------------------
(***************************************************************************)
(* Proofs about Sending, for any senders, allowance, overdraft limit,      *)
(* calls, requests, wordings and bounds: the meter (Quota), the gates and  *)
(* the log of a message (Outbox) and the template it goes out under        *)
(* (Templates).                                                            *)
(*                                                                         *)
(* The argument for the overdraft counts, in every period, the messages    *)
(* already drawn together with the senders whose copy of the usage row     *)
(* would still let them draw.  A fresh copy allows a draw only while the   *)
(* overdraft is below its limit; after that the sum can only shrink.       *)
(*                                                                         *)
(* A call is charged between two of its steps and never goes back, so what *)
(* the meter holds against it is told by where it stands (Charged).  What  *)
(* it may send is told by the customer it read: the channels open to that  *)
(* customer were open when the call read her, and history only adds to     *)
(* them (Permitted).                                                       *)
(***************************************************************************)
EXTENDS Sending, FiniteSetTheorems, TLAPS

(* The meter *)

\* The senders that may still draw are finitely many, at most all of them.
LEMMA MayDrawIsFinite ==
  ASSUME NEW m
  PROVE  /\ IsFiniteSet(MayDraw(m))
         /\ Cardinality(MayDraw(m)) \in Nat
         /\ Cardinality(MayDraw(m)) <= Cardinality(Senders)
<1>1. MayDraw(m) \subseteq Senders
  BY DEF MayDraw
<1> QED
  BY <1>1, SendersAssumption, FS_Subset, FS_CardinalityType

LEMMA MayDrawIsFiniteAfter ==
  ASSUME NEW m
  PROVE  /\ IsFiniteSet(MayDraw(m)')
         /\ Cardinality(MayDraw(m)') \in Nat
         /\ Cardinality(MayDraw(m)') <= Cardinality(Senders)
<1>1. MayDraw(m)' \subseteq Senders
  BY DEF MayDraw
<1> QED
  BY <1>1, SendersAssumption, FS_Subset, FS_CardinalityType

\* There is at least one sender.
LEMMA SendersCounted == Cardinality(Senders) \in Nat /\ Cardinality(Senders) >= 1
<1>1. PICK s \in Senders : TRUE
  BY SendersAssumption
<1>2. IsFiniteSet({s}) /\ Cardinality({s}) = 1
  BY FS_Singleton
<1> QED
  BY <1>1, <1>2, SendersAssumption, FS_Subset, FS_CardinalityType

\* DrawsLeft survives a step that draws nothing and gives no sender a new right
\* to draw.
LEMMA DrawsLeftShrinks ==
  ASSUME DrawsLeft, TypeOK, drawn' = drawn,
         \A m \in Periods : MayDraw(m)' \subseteq MayDraw(m)
  PROVE  DrawsLeft'
<1> SUFFICES ASSUME NEW m \in Periods
             PROVE  drawn'[m] + Cardinality(MayDraw(m)')
                       <= OverdraftLimit + Cardinality(Senders) - 1
  BY DEF DrawsLeft
<1>1. Cardinality(MayDraw(m)') <= Cardinality(MayDraw(m))
  BY MayDrawIsFinite, FS_Subset
<1>2. drawn[m] + Cardinality(MayDraw(m)) <= OverdraftLimit + Cardinality(Senders) - 1
  BY DEF DrawsLeft
<1> QED
  BY <1>1, <1>2, MayDrawIsFinite, MayDrawIsFiniteAfter, SendersCounted, OverdraftAssumption
     DEF TypeOK

\* The initial states satisfy the inductive invariant.
LEMMA InitIInv == Init => IInv
<1> SUFFICES ASSUME Init PROVE IInv
  OBVIOUS
<1> USE DEF Init
<1>1. TypeOK
  <2>1. 1 \in Periods
    BY MonthsAssumption DEF Periods
  <2>2. row \in [Senders -> [month : Periods, used : Nat]]
    BY <2>1
  <2>3. config \in [Senders -> [exists : BOOLEAN, blocked : BOOLEAN, owed : Nat]]
    OBVIOUS
  <2>4. used \in [Periods -> Nat] /\ refused \in [Periods -> Nat]
    OBVIOUS
  <2>5. pc \in [Senders -> PCs] /\ kind \in [Senders -> Kinds] /\ debt \in [Senders -> {0, 1}]
    BY DEF PCs, Kinds
  <2>6. /\ fromAllowance \in [Periods -> Nat]
        /\ fromCredits \in [Periods -> Nat]
        /\ drawn \in [Periods -> Nat]
    OBVIOUS
  <2>7. month \in Periods
    BY <2>1
  <2>8. hasBalance \in BOOLEAN /\ hasConfig \in BOOLEAN /\ blocked \in BOOLEAN
    BY Zenon
  <2>9. /\ credits \in Int /\ ledger \in Int /\ owed \in Nat
        /\ grants \in Nat /\ sends \in Nat /\ crashes \in Nat
        /\ sinceUnblock \in Nat /\ clamped \in Nat /\ drawnEver \in Nat
    OBVIOUS
  <2> HIDE DEF Init
  <2> QED
    BY <2>2, <2>3, <2>4, <2>5, <2>6, <2>7, <2>8, <2>9 DEF TypeOK
<1>2. AllowanceGone /\ RowIsLowerBound /\ DrawIsAllowed
  BY MonthsAssumption DEF AllowanceGone, RowIsLowerBound, DrawIsAllowed, At, Periods
<1>3. UsedCoversAllowance /\ UsedCoversOverdraft /\ AllowanceNotOversold /\ SpendOrder
  BY IncludedAssumption DEF UsedCoversAllowance, UsedCoversOverdraft,
                            AllowanceNotOversold, SpendOrder
<1>4. DrawsLeft
  <2>1. \A m : MayDraw(m) = {}
    BY DEF MayDraw
  <2>2. Cardinality({}) = 0
    BY FS_EmptySet
  <2>3. \A m \in Periods : drawn[m] + Cardinality(MayDraw(m)) = 0
    BY <2>1, <2>2
  <2> QED
    BY <2>3, SendersCounted, OverdraftAssumption DEF DrawsLeft
<1> QED
  BY <1>1, <1>2, <1>3, <1>4 DEF IInv
-----------------------------------------------------------------------------
(* Every action preserves the inductive invariant *)

\* A step that leaves the counters of the usage row alone, gives no sender a new
\* copy of it and moves no sender past the allowance.
Aside(s, from, to) ==
    /\ pc[s] = from /\ pc' = [pc EXCEPT ![s] = to]
    /\ UNCHANGED <<used, fromAllowance, fromCredits, drawn, row>>

LEMMA AsideKeeps ==
  ASSUME IInv, TypeOK', NEW s \in Senders, NEW from, NEW to, Aside(s, from, to),
         to \in {"idle", "gate", "row", "look", "block"}
  PROVE  IInv'
<1> USE DEF IInv, Aside, TypeOK
<1>1. AllowanceGone' /\ RowIsLowerBound' /\ DrawIsAllowed'
  BY DEF AllowanceGone, RowIsLowerBound, DrawIsAllowed, At, MayOverdraw, Overdrawn
<1>2. UsedCoversAllowance' /\ UsedCoversOverdraft' /\ AllowanceNotOversold' /\ SpendOrder'
  BY DEF UsedCoversAllowance, UsedCoversOverdraft, AllowanceNotOversold, SpendOrder
<1>3. \A m \in Periods : MayDraw(m)' \subseteq MayDraw(m)
  BY DEF MayDraw, MayOverdraw, Overdrawn
<1>4. DrawsLeft'
  BY <1>3, DrawsLeftShrinks
<1> QED
  BY <1>1, <1>2, <1>4

LEMMA BeginKeeps == 
  ASSUME IInv, NEW s \in Senders, NEW k \in Kinds, Begin(s, k)
  PROVE  IInv'
<1>1. TypeOK'
  BY DEF Begin, IInv, TypeOK, Goto, At, tables, sending, PCs, Kinds
<1>2. PICK to \in {"gate", "row"} : Aside(s, "idle", to)
  BY DEF Begin, Aside, Goto, At, tables, sending
<1> QED
  BY <1>1, <1>2, AsideKeeps

LEMMA CheckBlockKeeps == 
  ASSUME IInv, NEW s \in Senders, CheckBlock(s)
  PROVE  IInv'
<1>1. TypeOK'
  BY DEF CheckBlock, IInv, TypeOK, Goto, At, tables, sending, bounds, history, PCs
<1>2. PICK to \in {"idle", "row"} : Aside(s, "gate", to)
  BY DEF CheckBlock, Aside, Goto, At, tables, sending, history
<1> QED
  BY <1>1, <1>2, AsideKeeps

LEMMA WriteLedgerKeeps ==
  ASSUME IInv, NEW s \in Senders, WriteLedger(s)
  PROVE  IInv'
<1>1. TypeOK'
  BY DEF WriteLedger, IInv, TypeOK, Goto, At, tables, sending, bounds, history, PCs
<1>2. Aside(s, "ledger", "idle")
  BY DEF WriteLedger, Aside, Goto, At, tables, sending, history
<1> QED
  BY <1>1, <1>2, AsideKeeps

LEMMA RefuseKeeps ==
  ASSUME IInv, NEW s \in Senders, Refuse(s)
  PROVE  IInv'
<1>1. TypeOK'
  BY DEF Refuse, IInv, TypeOK, Goto, At, tables, sending, bounds, history, PCs
<1>2. Aside(s, "refuse", "look")
  BY DEF Refuse, Aside, Goto, At, tables, sending, history
<1> QED
  BY <1>1, <1>2, AsideKeeps

LEMMA LookAtConfigKeeps ==
  ASSUME IInv, NEW s \in Senders, LookAtConfig(s)
  PROVE  IInv'
<1>1. TypeOK'
  BY DEF LookAtConfig, IInv, TypeOK, Goto, At, tables, sending, bounds, history, PCs
<1>2. Aside(s, "look", "block")
  BY DEF LookAtConfig, Aside, Goto, At, tables, sending, history
<1> QED
  BY <1>1, <1>2, AsideKeeps

LEMMA BlockSendingKeeps ==
  ASSUME IInv, NEW s \in Senders, BlockSending(s)
  PROVE  IInv'
<1>1. TypeOK'
  <2>1. owed' \in Nat
    <3>1. config[s].owed \in Nat /\ debt[s] \in {0, 1} /\ owed \in Nat
      BY DEF IInv, TypeOK
    <3>2. owed' \in {owed, owed + debt[s], config[s].owed + debt[s]}
      BY DEF BlockSending, sending
    <3> QED
      BY <3>1, <3>2
  <2>2. pc' \in [Senders -> PCs] /\ blocked' \in BOOLEAN /\ hasConfig' \in BOOLEAN
    BY DEF BlockSending, IInv, TypeOK, Goto, PCs, sending
  <2> QED
    BY <2>1, <2>2 DEF BlockSending, IInv, TypeOK, bounds, history
<1>2. Aside(s, "block", "idle")
  BY DEF BlockSending, Aside, Goto, At, tables, sending, history
<1> QED
  BY <1>1, <1>2, AsideKeeps

LEMMA CrashKeeps ==
  ASSUME IInv, NEW s \in Senders, Crash(s)
  PROVE  IInv'
<1>1. TypeOK'
  BY DEF Crash, IInv, TypeOK, Goto, At, tables, sending, bounds, history, PCs
<1>2. Aside(s, pc[s], "idle")
  BY DEF Crash, Aside, Goto, At, tables, sending, history
<1> QED
  BY <1>1, <1>2, AsideKeeps

\* The operator, the shop and the calendar touch no counter of a usage row.
LEMMA BystandersKeep ==
  ASSUME IInv, TypeOK', UNCHANGED <<pc, used, fromAllowance, fromCredits, drawn, row>>
  PROVE  IInv'
<1> USE DEF IInv
<1>1. AllowanceGone' /\ RowIsLowerBound' /\ DrawIsAllowed'
  BY DEF AllowanceGone, RowIsLowerBound, DrawIsAllowed, At, MayOverdraw, Overdrawn
<1>2. UsedCoversAllowance' /\ UsedCoversOverdraft' /\ AllowanceNotOversold' /\ SpendOrder'
  BY DEF UsedCoversAllowance, UsedCoversOverdraft, AllowanceNotOversold, SpendOrder
<1>3. \A m \in Periods : MayDraw(m)' \subseteq MayDraw(m)
  BY DEF MayDraw, MayOverdraw, Overdrawn
<1>4. DrawsLeft'
  BY <1>3, DrawsLeftShrinks
<1> QED
  BY <1>1, <1>2, <1>4

LEMMA UnblockSendingKeeps ==
  ASSUME IInv, NEW f \in BOOLEAN, UnblockSending(f)
  PROVE  IInv'
<1>1. TypeOK'
  BY DEF UnblockSending, IInv, TypeOK, locals, bounds
<1> QED
  BY <1>1, BystandersKeep DEF UnblockSending, locals

LEMMA GrantCreditsKeeps ==
  ASSUME IInv, NEW q \in {-1, 1}, GrantCredits(q)
  PROVE  IInv'
<1>1. credits' \in Int /\ ledger' \in Int /\ clamped' \in Nat
  BY DEF GrantCredits, IInv, TypeOK
<1>2. TypeOK'
  BY <1>1 DEF GrantCredits, IInv, TypeOK, locals, sending
<1> QED
  BY <1>2, BystandersKeep DEF GrantCredits, locals

LEMMA NewMonthKeeps ==
  ASSUME IInv, NewMonth
  PROVE  IInv'
<1>1. month' \in Periods
  BY MonthsAssumption DEF NewMonth, IInv, TypeOK, Periods
<1>2. TypeOK'
  BY <1>1 DEF NewMonth, IInv, TypeOK, locals, sending, bounds, history
<1> QED
  BY <1>2, BystandersKeep DEF NewMonth, locals, history

LEMMA ReadRowKeeps ==
  ASSUME IInv, NEW s \in Senders, ReadRow(s)
  PROVE  IInv'
<1> USE DEF IInv, ReadRow, Goto, At, tables, sending, history
<1>1. TypeOK'
  BY DEF TypeOK, bounds, PCs
<1>2. AllowanceGone' /\ RowIsLowerBound' /\ DrawIsAllowed'
  BY DEF TypeOK, AllowanceGone, RowIsLowerBound, DrawIsAllowed, MayOverdraw, Overdrawn
<1>3. UsedCoversAllowance' /\ UsedCoversOverdraft' /\ AllowanceNotOversold' /\ SpendOrder'
  BY DEF UsedCoversAllowance, UsedCoversOverdraft, AllowanceNotOversold, SpendOrder
<1>4. DrawsLeft'
  <2> SUFFICES ASSUME NEW m \in Periods
               PROVE  drawn[m] + Cardinality(MayDraw(m)')
                         <= OverdraftLimit + Cardinality(Senders) - 1
    BY DEF DrawsLeft
  <2>1. CASE s \in MayDraw(m)'
    <3>1. m = month /\ row'[s] = [month |-> month, used |-> used[month]]
      BY <2>1 DEF MayDraw, TypeOK
    <3>2. Overdrawn(s)' + 1 <= OverdraftLimit
      BY <2>1 DEF MayDraw, MayOverdraw
    <3>3. drawn[m] + 1 <= OverdraftLimit
      BY <3>1, <3>2, IncludedAssumption, OverdraftAssumption
         DEF Overdrawn, UsedCoversOverdraft, TypeOK
    <3> QED
      BY <3>3, MayDrawIsFiniteAfter, SendersCounted, OverdraftAssumption DEF TypeOK
  <2>2. CASE s \notin MayDraw(m)'
    <3>1. MayDraw(m)' \subseteq MayDraw(m)
      BY <2>2 DEF MayDraw, MayOverdraw, Overdrawn, TypeOK
    <3>2. Cardinality(MayDraw(m)') <= Cardinality(MayDraw(m))
      BY <3>1, MayDrawIsFinite, FS_Subset
    <3>3. drawn[m] + Cardinality(MayDraw(m)) <= OverdraftLimit + Cardinality(Senders) - 1
      BY DEF DrawsLeft
    <3> QED
      BY <3>2, <3>3, MayDrawIsFinite, MayDrawIsFiniteAfter, SendersCounted,
         OverdraftAssumption DEF TypeOK
  <2> QED
    BY <2>1, <2>2
<1> QED
  BY <1>1, <1>2, <1>3, <1>4

LEMMA ClaimAllowanceKeeps ==
  ASSUME IInv, NEW s \in Senders, ClaimAllowance(s)
  PROVE  IInv'
<1> USE IncludedAssumption DEF IInv, ClaimAllowance, Goto, At, UseOne
<1>1. TypeOK'
  <2>1. row[s].month \in Periods
    BY DEF TypeOK
  <2>2. used' \in [Periods -> Nat] /\ fromAllowance' \in [Periods -> Nat]
    <3>1. CASE UNCHANGED <<used, fromAllowance>>
      BY <3>1 DEF TypeOK
    <3>2. CASE /\ used' = [used EXCEPT ![row[s].month] = @ + 1]
               /\ fromAllowance' = [fromAllowance EXCEPT ![row[s].month] = @ + 1]
      BY <2>1, <3>2 DEF TypeOK
    <3> QED
      BY <3>1, <3>2
  <2>3. pc' \in [Senders -> PCs]
    BY DEF TypeOK, PCs
  <2>4. UNCHANGED <<month, refused, hasBalance, hasConfig, credits, ledger, blocked, owed>>
    BY DEF sending
  <2>5. UNCHANGED <<kind, row, config, debt, grants, sends, crashes>>
    BY DEF bounds
  <2>6. UNCHANGED <<fromCredits, drawn, sinceUnblock, clamped>>
    OBVIOUS
  <2> QED
    BY <2>2, <2>3, <2>4, <2>5, <2>6 DEF TypeOK
<1>2. PICK to \in {"idle", "credits"} : pc[s] = "claim" /\ pc' = [pc EXCEPT ![s] = to]
  OBVIOUS
<1>3. to = "credits" => used[row[s].month] >= Included
  BY <1>2 DEF TypeOK
<1>4. /\ UNCHANGED <<fromCredits, drawn, row>>
      /\ \A m \in Periods : /\ used'[m] \in Nat /\ used'[m] >= used[m]
                            /\ \/ used'[m] = used[m] /\ fromAllowance'[m] = fromAllowance[m]
                               \/ /\ used[m] < Included /\ used'[m] = used[m] + 1
                                  /\ fromAllowance'[m] = fromAllowance[m] + 1
  BY DEF TypeOK
<1>5. \A t \in Senders : row[t].month \in Periods /\ row[t].used \in Nat
  BY DEF TypeOK
<1> HIDE DEF ClaimAllowance, UseOne
<1>6. AllowanceGone'
  BY <1>2, <1>3, <1>4, <1>5 DEF TypeOK, AllowanceGone
<1>7. RowIsLowerBound' /\ DrawIsAllowed'
  BY <1>2, <1>4, <1>5 DEF TypeOK, RowIsLowerBound, DrawIsAllowed, MayOverdraw, Overdrawn
<1>8. UsedCoversAllowance' /\ AllowanceNotOversold'
  <2> SUFFICES ASSUME NEW m \in Periods
               PROVE  fromAllowance'[m] <= used'[m] /\ fromAllowance'[m] <= Included
    BY DEF UsedCoversAllowance, AllowanceNotOversold
  <2>1. /\ fromAllowance[m] \in Nat /\ used[m] \in Nat
        /\ fromAllowance[m] <= used[m] /\ fromAllowance[m] <= Included
    BY DEF TypeOK, UsedCoversAllowance, AllowanceNotOversold
  <2> QED
    BY <1>4, <2>1
<1>9. UsedCoversOverdraft' /\ SpendOrder'
  BY <1>4 DEF TypeOK, UsedCoversOverdraft, SpendOrder
<1>10. DrawsLeft'
  <2>1. \A m \in Periods : MayDraw(m)' \subseteq MayDraw(m)
    BY <1>2, <1>4 DEF MayDraw, MayOverdraw, Overdrawn, TypeOK
  <2> QED
    BY <2>1, <1>4, DrawsLeftShrinks
<1> QED
  BY <1>1, <1>6, <1>7, <1>8, <1>9, <1>10

LEMMA SpendCreditKeeps ==
  ASSUME IInv, NEW s \in Senders, SpendCredit(s)
  PROVE  IInv'
<1> USE DEF IInv, SpendCredit, Goto, At
<1>1. TypeOK'
  <2>1. credits' \in Int /\ fromCredits' \in [Periods -> Nat]
    BY DEF TypeOK
  <2>2. pc' \in [Senders -> PCs]
    BY DEF TypeOK, PCs
  <2> QED
    BY <2>1, <2>2 DEF TypeOK, bounds, sending
<1>0. PICK to \in {"count", "ceiling", "refuse"} :
        pc[s] = "credits" /\ pc' = [pc EXCEPT ![s] = to]
  OBVIOUS
<1>a. /\ UNCHANGED <<used, fromAllowance, drawn, row>>
      /\ \A m \in Periods : m # row[s].month => fromCredits'[m] = fromCredits[m]
  BY DEF TypeOK
<1> HIDE DEF SpendCredit
<1>2. AllowanceGone' /\ RowIsLowerBound' /\ DrawIsAllowed'
  BY <1>0, <1>a DEF TypeOK, AllowanceGone, RowIsLowerBound, DrawIsAllowed, MayOverdraw, Overdrawn
<1>3. UsedCoversAllowance' /\ AllowanceNotOversold' /\ UsedCoversOverdraft'
  BY <1>0, <1>a DEF TypeOK, UsedCoversAllowance, AllowanceNotOversold, UsedCoversOverdraft
<1>4. SpendOrder'
  BY <1>0, <1>a DEF TypeOK, AllowanceGone, SpendOrder
<1>5. DrawsLeft'
  <2>1. \A m \in Periods : MayDraw(m)' \subseteq MayDraw(m)
    BY <1>0, <1>a DEF MayDraw, MayOverdraw, Overdrawn, TypeOK
  <2> QED
    BY <1>a, <2>1, DrawsLeftShrinks
<1> QED
  BY <1>1, <1>2, <1>3, <1>4, <1>5

LEMMA CountCreditKeeps ==
  ASSUME IInv, NEW s \in Senders, CountCredit(s)
  PROVE  IInv'
<1> USE IncludedAssumption DEF IInv, CountCredit, Goto, At, UseOne, history
<1>1. TypeOK'
  <2>1. used' \in [Periods -> Nat]
    BY DEF TypeOK
  <2>2. pc' \in [Senders -> PCs]
    BY DEF TypeOK, PCs
  <2> QED
    BY <2>1, <2>2 DEF TypeOK, bounds, sending
<1>0. /\ UNCHANGED <<fromAllowance, fromCredits, drawn, row>>
      /\ \A m \in Periods : used'[m] \in Nat /\ used'[m] >= used[m]
      /\ \A t \in Senders : row[t].month \in Periods /\ row[t].used \in Nat
  BY DEF TypeOK
<1> HIDE DEF UseOne
<1>2. AllowanceGone' /\ RowIsLowerBound' /\ DrawIsAllowed'
  BY <1>0 DEF TypeOK, AllowanceGone, RowIsLowerBound, DrawIsAllowed, MayOverdraw, Overdrawn
<1>3. UsedCoversAllowance' /\ AllowanceNotOversold'
  BY <1>0 DEF TypeOK, UsedCoversAllowance, AllowanceNotOversold
<1>4. UsedCoversOverdraft' /\ SpendOrder'
  BY <1>0 DEF TypeOK, UsedCoversOverdraft, SpendOrder
<1>5. DrawsLeft'
  <2>1. \A m \in Periods : MayDraw(m)' \subseteq MayDraw(m)
    BY DEF MayDraw, MayOverdraw, Overdrawn, TypeOK
  <2> QED
    BY <2>1, DrawsLeftShrinks
<1> QED
  BY <1>1, <1>2, <1>3, <1>4, <1>5

LEMMA CheckCeilingKeeps ==
  ASSUME IInv, NEW s \in Senders, CheckCeiling(s)
  PROVE  IInv'
<1> USE DEF IInv, CheckCeiling, Goto, At, tables, sending, history
<1>1. TypeOK'
  BY DEF TypeOK, PCs, bounds
<1>2. AllowanceGone' /\ RowIsLowerBound' /\ DrawIsAllowed'
  BY DEF TypeOK, AllowanceGone, RowIsLowerBound, DrawIsAllowed, MayOverdraw, Overdrawn
<1>3. UsedCoversAllowance' /\ UsedCoversOverdraft' /\ AllowanceNotOversold' /\ SpendOrder'
  BY DEF UsedCoversAllowance, UsedCoversOverdraft, AllowanceNotOversold, SpendOrder
<1>4. DrawsLeft'
  <2>1. \A m \in Periods : MayDraw(m)' \subseteq MayDraw(m)
    BY DEF MayDraw, MayOverdraw, Overdrawn, TypeOK
  <2> QED
    BY <2>1, DrawsLeftShrinks
<1> QED
  BY <1>1, <1>2, <1>3, <1>4

LEMMA DrawOverdraftKeeps ==
  ASSUME IInv, NEW s \in Senders, DrawOverdraft(s)
  PROVE  IInv'
<1> USE IncludedAssumption DEF IInv, DrawOverdraft, Goto, At, UseOne
<1>1. TypeOK'
  <2>1. used' \in [Periods -> Nat] /\ drawn' \in [Periods -> Nat]
    BY DEF TypeOK
  <2>2. pc' \in [Senders -> PCs] /\ debt' \in [Senders -> {0, 1}]
    BY DEF TypeOK, PCs
  <2> QED
    BY <2>1, <2>2 DEF TypeOK, bounds, sending
<1>2. AllowanceGone' /\ RowIsLowerBound' /\ DrawIsAllowed'
  BY DEF TypeOK, AllowanceGone, RowIsLowerBound, DrawIsAllowed, MayOverdraw, Overdrawn
<1>3. UsedCoversAllowance' /\ AllowanceNotOversold'
  BY DEF TypeOK, UsedCoversAllowance, AllowanceNotOversold
<1>4. UsedCoversOverdraft' /\ SpendOrder'
  BY DEF TypeOK, AllowanceGone, UsedCoversOverdraft, SpendOrder
<1>5. DrawsLeft'
  <2> SUFFICES ASSUME NEW m \in Periods
               PROVE  drawn'[m] + Cardinality(MayDraw(m)')
                         <= OverdraftLimit + Cardinality(Senders) - 1
    BY DEF DrawsLeft
  <2>1. drawn[m] + Cardinality(MayDraw(m)) <= OverdraftLimit + Cardinality(Senders) - 1
    BY DEF DrawsLeft
  <2>2. CASE m = row[s].month
    <3>1. s \in MayDraw(m) /\ MayDraw(m)' = MayDraw(m) \ {s}
      BY <2>2 DEF MayDraw, DrawIsAllowed, MayOverdraw, Overdrawn, TypeOK
    <3>2. Cardinality(MayDraw(m)') = Cardinality(MayDraw(m)) - 1
      BY <3>1, MayDrawIsFinite, FS_RemoveElement
    <3>3. drawn'[m] = drawn[m] + 1
      BY <2>2 DEF TypeOK
    <3> QED
      BY <2>1, <3>2, <3>3, MayDrawIsFinite, SendersCounted, OverdraftAssumption DEF TypeOK
  <2>3. CASE m # row[s].month
    <3>1. MayDraw(m)' = MayDraw(m) /\ drawn'[m] = drawn[m]
      BY <2>3 DEF MayDraw, MayOverdraw, Overdrawn, TypeOK
    <3> QED
      BY <2>1, <3>1
  <2> QED
    BY <2>2, <2>3
<1> QED
  BY <1>1, <1>2, <1>3, <1>4, <1>5
-----------------------------------------------------------------------------
\* IInv is inductive.
LEMMA NextKeepsIInv ==
  ASSUME IInv, [Next]_vars
  PROVE  IInv'
<1>1. ASSUME NEW s \in Senders, Consume(s) PROVE IInv'
  BY <1>1, BeginKeeps, CheckBlockKeeps, ReadRowKeeps, ClaimAllowanceKeeps,
     SpendCreditKeeps, CountCreditKeeps, WriteLedgerKeeps, CheckCeilingKeeps,
     DrawOverdraftKeeps, RefuseKeeps, LookAtConfigKeeps, BlockSendingKeeps, CrashKeeps
     DEF Consume
<1>2. ASSUME NEW f \in BOOLEAN, UnblockSending(f) PROVE IInv'
  BY <1>2, UnblockSendingKeeps
<1>3. ASSUME NEW q \in {-1, 1}, GrantCredits(q) PROVE IInv'
  BY <1>3, GrantCreditsKeeps
<1>4. CASE NewMonth
  BY <1>4, NewMonthKeeps
<1>5. CASE UNCHANGED vars
  <2>1. TypeOK'
    BY <1>5 DEF vars, tables, sending, locals, bounds, history, IInv, TypeOK
  <2> QED
    BY <1>5, <2>1, BystandersKeep DEF vars, tables, sending, locals, bounds, history
<1> QED
  BY <1>1, <1>2, <1>3, <1>4, <1>5 DEF Next

\* The inductive invariant holds in every reachable state of every instance.
THEOREM QuotaInvariant == Spec => []IInv
<1>1. IInv /\ [Next]_vars => IInv'
  BY NextKeepsIInv
<1> QED
  BY <1>1, InitIInv, PTL DEF Spec

\* The conditional update never lets more messages through on the allowance
\* than the plan includes, however many senders race for the last one.
THEOREM AllowanceNeverOversold == Spec => []AllowanceNotOversold
<1>1. IInv => AllowanceNotOversold
  BY DEF IInv
<1> QED
  BY <1>1, QuotaInvariant, PTL

\* Credits and overdraft are touched only when the month's allowance is gone.
THEOREM SpendOrderKept == Spec => []SpendOrder
<1>1. IInv => SpendOrder
  BY DEF IInv
<1> QED
  BY <1>1, QuotaInvariant, PTL

\* The overdraft check on a stale row overshoots the limit by at most one
\* message per other concurrent sender.
THEOREM OverdraftStaysNearLimit == Spec => []OverdraftNearLimit
<1>1. ASSUME IInv PROVE OverdraftNearLimit
  <2> SUFFICES ASSUME NEW m \in Periods
               PROVE  drawn[m] <= OverdraftLimit + Cardinality(Senders) - 1
    BY DEF OverdraftNearLimit
  <2>1. drawn[m] + Cardinality(MayDraw(m)) <= OverdraftLimit + Cardinality(Senders) - 1
    BY <1>1 DEF IInv, DrawsLeft
  <2> QED
    BY <2>1, <1>1, MayDrawIsFinite, SendersCounted, OverdraftAssumption DEF IInv, TypeOK
<1> QED
  BY <1>1, QuotaInvariant, PTL

\* What a month's allowance, the credits and the overdraft let through, in every
\* instance.
THEOREM MeterHolds == Spec => []WithinTheMeter
<1>1. AllowanceNotOversold /\ SpendOrder /\ OverdraftNearLimit => WithinTheMeter
  BY DEF WithinTheMeter
<1> QED
  BY <1>1, AllowanceNeverOversold, SpendOrderKept, OverdraftStaysNearLimit, PTL
-----------------------------------------------------------------------------
(* The books: usage rows against what was let through, the ledger against the *)
(* balance, the block, and the debt.                                           *)

\* What is let through and not counted yet is at a sender's next statement.
Counted ==
    \A m \in Periods :
        LET let == fromAllowance[m] + fromCredits[m] + drawn[m]
            counted == used[m] + Cardinality(Uncounted(m))
        IN  counted <= let /\ let <= counted + crashes

Explained ==
    /\ ~hasBalance => credits = 0
    /\ crashes = 0 => credits = ledger - Cardinality(Unlogged) + clamped

\* The sender will block: it has not looked yet, or what it saw makes it write.
WillBlock(s) ==
    /\ debt[s] = 1
    /\ \/ pc[s] = "look"
       \/ pc[s] = "block" /\ ~config[s].blocked /\ (config[s].exists \/ ~hasConfig)

BlockComes ==
    crashes = 0 /\ sinceUnblock > 0 => blocked \/ \E s \in Senders : WillBlock(s)

\* Neither the debt nor an old copy of it, with what is still to be added, exceeds the
\* messages drawn.
OwedWasDrawn ==
    /\ owed + Cardinality(Blocking) <= drawnEver
    /\ \A s \in Senders :
          pc[s] = "block" => config[s].owed + Cardinality(Blocking) <= drawnEver

BooksInv == TypeOK /\ Counted /\ Explained /\ BlockComes /\ OwedWasDrawn

LEMMA SomeSenders ==
  /\ \A m : IsFiniteSet(Uncounted(m)) /\ Cardinality(Uncounted(m)) \in Nat
  /\ IsFiniteSet(Unlogged) /\ Cardinality(Unlogged) \in Nat
  /\ IsFiniteSet(Blocking) /\ Cardinality(Blocking) \in Nat
<1>1. (\A m : Uncounted(m) \subseteq Senders) /\ Unlogged \subseteq Senders
      /\ Blocking \subseteq Senders
  BY DEF Uncounted, Unlogged, Blocking
<1> QED
  BY <1>1, SendersAssumption, FS_Subset, FS_CardinalityType

LEMMA OneMore ==
  ASSUME NEW A, NEW B, NEW s, IsFiniteSet(A), s \notin A, B = A \cup {s}
  PROVE  Cardinality(B) = Cardinality(A) + 1
BY FS_AddElement

LEMMA OneLess ==
  ASSUME NEW A, NEW B, NEW s, IsFiniteSet(A), s \in A, B = A \ {s}
  PROVE  Cardinality(B) = Cardinality(A) - 1
BY FS_RemoveElement

LEMMA BooksInit == Init => BooksInv
<1> SUFFICES ASSUME Init PROVE BooksInv
  OBVIOUS
<1>1. TypeOK
  BY InitIInv DEF IInv
<1>2. (\A m : Uncounted(m) = {}) /\ Unlogged = {} /\ Blocking = {}
  BY DEF Init, Uncounted, Unlogged, Blocking, At
<1>3. Cardinality({}) = 0
  BY FS_EmptySet
<1>4. Counted
  BY <1>2, <1>3 DEF Init, Counted
<1>5. Explained /\ BlockComes /\ OwedWasDrawn
  BY <1>2, <1>3 DEF Init, Explained, BlockComes, OwedWasDrawn
<1> QED
  BY <1>1, <1>4, <1>5 DEF BooksInv
-----------------------------------------------------------------------------
(* The usage rows *)

LEMMA CountedElsewhere ==
  ASSUME Counted, UNCHANGED <<used, fromAllowance, fromCredits, drawn, crashes>>,
         \A m \in Periods : Uncounted(m)' = Uncounted(m)
  PROVE  Counted'
BY DEF Counted

\* One message more is let through and counted at once.
LEMMA CountedAtOnce ==
  ASSUME TypeOK, Counted, NEW p \in Periods, used' = [used EXCEPT ![p] = @ + 1],
         crashes' = crashes, fromCredits' = fromCredits,
         \A m \in Periods : Uncounted(m)' = Uncounted(m),
         \/ fromAllowance' = [fromAllowance EXCEPT ![p] = @ + 1] /\ drawn' = drawn
         \/ drawn' = [drawn EXCEPT ![p] = @ + 1] /\ fromAllowance' = fromAllowance
  PROVE  Counted'
<1> SUFFICES ASSUME NEW m \in Periods
             PROVE  /\ used'[m] + Cardinality(Uncounted(m)')
                          <= fromAllowance'[m] + fromCredits'[m] + drawn'[m]
                    /\ fromAllowance'[m] + fromCredits'[m] + drawn'[m]
                          <= used'[m] + Cardinality(Uncounted(m)') + crashes'
  BY DEF Counted
<1>1. /\ used[m] + Cardinality(Uncounted(m)) <= fromAllowance[m] + fromCredits[m] + drawn[m]
      /\ fromAllowance[m] + fromCredits[m] + drawn[m]
            <= used[m] + Cardinality(Uncounted(m)) + crashes
  BY DEF Counted
<1>2. /\ used[m] \in Nat /\ fromAllowance[m] \in Nat /\ fromCredits[m] \in Nat
      /\ drawn[m] \in Nat /\ crashes \in Nat /\ Cardinality(Uncounted(m)) \in Nat
  BY SomeSenders DEF TypeOK
<1>3. CASE m = p
  <2>1. used'[m] = used[m] + 1
        /\ fromAllowance'[m] + drawn'[m] = fromAllowance[m] + drawn[m] + 1
    BY <1>2, <1>3 DEF TypeOK
  <2>2. fromAllowance'[m] \in Nat /\ drawn'[m] \in Nat
    BY <1>2, <1>3 DEF TypeOK
  <2> QED
    BY <1>1, <1>2, <2>1, <2>2
<1>4. CASE m # p
  BY <1>1, <1>2, <1>4 DEF TypeOK
<1> QED
  BY <1>3, <1>4

LEMMA SpendCreditCounts ==
  ASSUME TypeOK, Counted, NEW s \in Senders, SpendCredit(s)
  PROVE  Counted'
<1>1. /\ pc[s] = "credits" /\ UNCHANGED <<used, row, fromAllowance, drawn, crashes>>
      /\ row[s].month \in Periods
  BY DEF SpendCredit, At, bounds, TypeOK
<1>2. CASE /\ pc' = [pc EXCEPT ![s] = "count"]
           /\ fromCredits' = [fromCredits EXCEPT ![row[s].month] = @ + 1]
  <2> SUFFICES ASSUME NEW m \in Periods
               PROVE  /\ used'[m] + Cardinality(Uncounted(m)')
                            <= fromAllowance'[m] + fromCredits'[m] + drawn'[m]
                      /\ fromAllowance'[m] + fromCredits'[m] + drawn'[m]
                            <= used'[m] + Cardinality(Uncounted(m)') + crashes'
    BY DEF Counted
  <2>1. /\ used[m] + Cardinality(Uncounted(m)) <= fromAllowance[m] + fromCredits[m] + drawn[m]
        /\ fromAllowance[m] + fromCredits[m] + drawn[m]
              <= used[m] + Cardinality(Uncounted(m)) + crashes
    BY DEF Counted
  <2>2. /\ used[m] \in Nat /\ fromAllowance[m] \in Nat /\ fromCredits[m] \in Nat
        /\ drawn[m] \in Nat /\ crashes \in Nat /\ Cardinality(Uncounted(m)) \in Nat
    BY SomeSenders DEF TypeOK
  <2>3. CASE m = row[s].month
    <3>1. s \notin Uncounted(m) /\ Uncounted(m)' = Uncounted(m) \cup {s}
      BY <1>1, <1>2, <2>3 DEF Uncounted, At, TypeOK
    <3>2. Cardinality(Uncounted(m)') = Cardinality(Uncounted(m)) + 1
      BY <3>1, SomeSenders, OneMore
    <3>3. fromCredits'[m] = fromCredits[m] + 1
      BY <1>2, <2>3 DEF TypeOK
    <3> QED
      BY <1>1, <2>1, <2>2, <3>2, <3>3
  <2>4. CASE m # row[s].month
    <3>1. Uncounted(m)' = Uncounted(m)
      BY <1>1, <1>2, <2>4 DEF Uncounted, At, TypeOK
    <3>2. fromCredits'[m] = fromCredits[m]
      BY <1>2, <2>4 DEF TypeOK
    <3> QED
      BY <1>1, <2>1, <3>1, <3>2
  <2> QED
    BY <2>3, <2>4
<1>3. CASE /\ \E to \in {"ceiling", "refuse"} : pc' = [pc EXCEPT ![s] = to]
           /\ fromCredits' = fromCredits
  <2>1. \A m \in Periods : Uncounted(m)' = Uncounted(m)
    BY <1>1, <1>3 DEF Uncounted, At, TypeOK
  <2> QED
    BY <1>1, <1>3, <2>1, CountedElsewhere
<1> QED
  BY <1>2, <1>3 DEF SpendCredit, Goto

LEMMA CountCreditCounts ==
  ASSUME TypeOK, Counted, NEW s \in Senders, CountCredit(s)
  PROVE  Counted'
<1>1. /\ pc[s] = "count" /\ UNCHANGED <<row, fromAllowance, fromCredits, drawn, crashes>>
      /\ row[s].month \in Periods /\ pc' = [pc EXCEPT ![s] = "ledger"]
      /\ used' = [used EXCEPT ![row[s].month] = @ + 1]
  BY DEF CountCredit, UseOne, Goto, At, bounds, history, TypeOK
<1> SUFFICES ASSUME NEW m \in Periods
             PROVE  /\ used'[m] + Cardinality(Uncounted(m)')
                          <= fromAllowance'[m] + fromCredits'[m] + drawn'[m]
                    /\ fromAllowance'[m] + fromCredits'[m] + drawn'[m]
                          <= used'[m] + Cardinality(Uncounted(m)') + crashes'
  BY DEF Counted
<1>2. /\ used[m] + Cardinality(Uncounted(m)) <= fromAllowance[m] + fromCredits[m] + drawn[m]
      /\ fromAllowance[m] + fromCredits[m] + drawn[m]
            <= used[m] + Cardinality(Uncounted(m)) + crashes
  BY DEF Counted
<1>3. used[m] \in Nat /\ Cardinality(Uncounted(m)) \in Nat
  BY SomeSenders DEF TypeOK
<1>4. CASE m = row[s].month
  <2>1. s \in Uncounted(m) /\ Uncounted(m)' = Uncounted(m) \ {s}
    BY <1>1, <1>4 DEF Uncounted, At, TypeOK
  <2>2. Cardinality(Uncounted(m)') = Cardinality(Uncounted(m)) - 1
    BY <2>1, SomeSenders, OneLess
  <2>3. used'[m] = used[m] + 1
    BY <1>1, <1>4 DEF TypeOK
  <2>4. used'[m] + Cardinality(Uncounted(m)') = used[m] + Cardinality(Uncounted(m))
    BY <1>3, <2>2, <2>3
  <2> QED
    BY <1>1, <1>2, <2>4
<1>5. CASE m # row[s].month
  <2>1. Uncounted(m)' = Uncounted(m)
    BY <1>1, <1>5 DEF Uncounted, At, TypeOK
  <2>2. used'[m] = used[m]
    BY <1>1, <1>5 DEF TypeOK
  <2> QED
    BY <1>1, <1>2, <2>1, <2>2
<1> QED
  BY <1>4, <1>5

LEMMA CrashCounts ==
  ASSUME TypeOK, Counted, NEW s \in Senders, Crash(s)
  PROVE  Counted'
<1>1. /\ UNCHANGED <<row, used, fromAllowance, fromCredits, drawn>>
      /\ pc' = [pc EXCEPT ![s] = "idle"] /\ crashes' = crashes + 1
  BY DEF Crash, Goto, tables, history
<1> SUFFICES ASSUME NEW m \in Periods
             PROVE  /\ used[m] + Cardinality(Uncounted(m)')
                          <= fromAllowance[m] + fromCredits[m] + drawn[m]
                    /\ fromAllowance[m] + fromCredits[m] + drawn[m]
                          <= used[m] + Cardinality(Uncounted(m)') + (crashes + 1)
  BY <1>1 DEF Counted
<1>2. /\ used[m] + Cardinality(Uncounted(m)) <= fromAllowance[m] + fromCredits[m] + drawn[m]
      /\ fromAllowance[m] + fromCredits[m] + drawn[m]
            <= used[m] + Cardinality(Uncounted(m)) + crashes
  BY DEF Counted
<1>3. /\ used[m] \in Nat /\ Cardinality(Uncounted(m)) \in Nat /\ crashes \in Nat
      /\ fromAllowance[m] \in Nat /\ fromCredits[m] \in Nat /\ drawn[m] \in Nat
  BY SomeSenders DEF TypeOK
<1>4. CASE s \in Uncounted(m)
  <2>1. Uncounted(m)' = Uncounted(m) \ {s}
    BY <1>1, <1>4 DEF Uncounted, At, TypeOK
  <2>2. Cardinality(Uncounted(m)') = Cardinality(Uncounted(m)) - 1
    BY <1>4, <2>1, SomeSenders, OneLess
  <2> QED
    BY <1>2, <1>3, <2>2
<1>5. CASE s \notin Uncounted(m)
  <2>1. Uncounted(m)' = Uncounted(m)
    BY <1>1, <1>5 DEF Uncounted, At, TypeOK
  <2> QED
    BY <1>2, <1>3, <2>1
<1> QED
  BY <1>4, <1>5

LEMMA ConsumeCounts ==
  ASSUME TypeOK, Counted, NEW s \in Senders, Consume(s)
  PROVE  Counted'
<1>1. CASE \/ \E k \in Kinds : Begin(s, k)
           \/ CheckBlock(s) \/ ReadRow(s) \/ WriteLedger(s) \/ CheckCeiling(s)
           \/ Refuse(s) \/ LookAtConfig(s) \/ BlockSending(s)
  <2>1. /\ pc[s] # "count" /\ UNCHANGED <<used, fromAllowance, fromCredits, drawn, crashes>>
        /\ \E to \in PCs : to # "count" /\ pc' = [pc EXCEPT ![s] = to]
        /\ \A q \in Senders : q # s => row'[q] = row[q]
    BY <1>1 DEF Begin, CheckBlock, ReadRow, WriteLedger, CheckCeiling, Refuse, LookAtConfig,
                BlockSending, Goto, At, tables, bounds, history, PCs, TypeOK
  <2>2. \A m \in Periods : Uncounted(m)' = Uncounted(m)
    BY <2>1 DEF Uncounted, At, TypeOK
  <2> QED
    BY <2>1, <2>2, CountedElsewhere
<1>2. CASE ClaimAllowance(s)
  <2>1. /\ pc[s] = "claim" /\ UNCHANGED <<row, fromCredits, drawn, crashes>>
        /\ row[s].month \in Periods
        /\ \E to \in {"idle", "credits"} : pc' = [pc EXCEPT ![s] = to]
    BY <1>2 DEF ClaimAllowance, Goto, At, bounds, TypeOK
  <2>2. \A m \in Periods : Uncounted(m)' = Uncounted(m)
    BY <2>1 DEF Uncounted, At, TypeOK
  <2>3. CASE UNCHANGED <<used, fromAllowance>>
    BY <2>1, <2>2, <2>3, CountedElsewhere
  <2>4. CASE /\ used' = [used EXCEPT ![row[s].month] = @ + 1]
             /\ fromAllowance' = [fromAllowance EXCEPT ![row[s].month] = @ + 1]
    BY <2>1, <2>2, <2>4, CountedAtOnce
  <2> QED
    BY <1>2, <2>3, <2>4 DEF ClaimAllowance, UseOne
<1>3. CASE DrawOverdraft(s)
  <2>1. /\ pc[s] = "draw" /\ UNCHANGED <<row, fromAllowance, fromCredits, crashes>>
        /\ row[s].month \in Periods /\ pc' = [pc EXCEPT ![s] = "look"]
        /\ used' = [used EXCEPT ![row[s].month] = @ + 1]
        /\ drawn' = [drawn EXCEPT ![row[s].month] = @ + 1]
    BY <1>3 DEF DrawOverdraft, UseOne, Goto, At, bounds, TypeOK
  <2>2. \A m \in Periods : Uncounted(m)' = Uncounted(m)
    BY <2>1 DEF Uncounted, At, TypeOK
  <2> QED
    BY <2>1, <2>2, CountedAtOnce
<1> QED
  BY <1>1, <1>2, <1>3, SpendCreditCounts, CountCreditCounts, CrashCounts DEF Consume

LEMMA CountedKept == TypeOK /\ Counted /\ [Next]_vars => Counted'
<1> SUFFICES ASSUME TypeOK, Counted, [Next]_vars PROVE Counted'
  OBVIOUS
<1>1. CASE \/ \E f \in BOOLEAN : UnblockSending(f)
           \/ \E q \in {-1, 1} : GrantCredits(q)
           \/ NewMonth \/ UNCHANGED vars
  <2>1. UNCHANGED <<pc, row, used, fromAllowance, fromCredits, drawn, crashes>>
    BY <1>1 DEF UnblockSending, GrantCredits, NewMonth, vars, tables, locals, bounds, history
  <2>2. \A m \in Periods : Uncounted(m)' = Uncounted(m)
    BY <2>1 DEF Uncounted, At
  <2> QED
    BY <2>1, <2>2, CountedElsewhere
<1> QED
  BY <1>1, ConsumeCounts DEF Next
-----------------------------------------------------------------------------
(* The ledger *)

LEMMA LedgerStep ==
  ASSUME TypeOK, Explained, NEW s \in Senders, SpendCredit(s) \/ WriteLedger(s)
  PROVE  Explained'
<1>1. /\ Cardinality(Unlogged) \in Nat /\ IsFiniteSet(Unlogged)
      /\ credits \in Int /\ ledger \in Int /\ clamped \in Nat
  BY SomeSenders DEF TypeOK
<1>2. CASE SpendCredit(s)
  <2>1. pc[s] = "credits" /\ UNCHANGED <<hasBalance, ledger, clamped, crashes>>
    BY <1>2 DEF SpendCredit, At, bounds
  <2>2. CASE /\ hasBalance /\ credits' = credits - 1 /\ pc' = [pc EXCEPT ![s] = "count"]
    <3>1. s \notin Unlogged /\ Unlogged' = Unlogged \cup {s}
      BY <2>1, <2>2 DEF Unlogged, At, TypeOK
    <3>2. Cardinality(Unlogged') = Cardinality(Unlogged) + 1
      BY <1>1, <3>1, OneMore
    <3> QED
      BY <1>1, <2>1, <2>2, <3>2 DEF Explained
  <2>3. CASE credits' = credits /\ \E to \in {"ceiling", "refuse"} : pc' = [pc EXCEPT ![s] = to]
    <3>1. Unlogged' = Unlogged
      BY <2>1, <2>3 DEF Unlogged, At, TypeOK
    <3> QED
      BY <2>1, <2>3, <3>1 DEF Explained
  <2> QED
    BY <1>2, <2>2, <2>3 DEF SpendCredit, Goto
<1>3. CASE WriteLedger(s)
  <2>1. /\ pc[s] = "ledger" /\ pc' = [pc EXCEPT ![s] = "idle"] /\ ledger' = ledger - 1
        /\ UNCHANGED <<hasBalance, credits, clamped, crashes>>
    BY <1>3 DEF WriteLedger, Goto, At, bounds, history
  <2>2. s \in Unlogged /\ Unlogged' = Unlogged \ {s}
    BY <2>1 DEF Unlogged, At, TypeOK
  <2>3. Cardinality(Unlogged') = Cardinality(Unlogged) - 1
    BY <1>1, <2>2, OneLess
  <2> QED
    BY <1>1, <2>1, <2>3 DEF Explained
<1> QED
  BY <1>2, <1>3

LEMMA GrantExplained ==
  ASSUME TypeOK, Explained, NEW q \in {-1, 1}, GrantCredits(q)
  PROVE  Explained'
<1>1. /\ Cardinality(Unlogged) \in Nat /\ credits \in Int /\ ledger \in Int /\ clamped \in Nat
  BY SomeSenders DEF TypeOK
<1>2. pc' = pc /\ crashes' = crashes /\ hasBalance' = TRUE /\ ledger' = ledger + q
  BY DEF GrantCredits, locals
<1>3. Unlogged' = Unlogged
  BY <1>2 DEF Unlogged, At
<1>4. crashes = 0 => credits = ledger - Cardinality(Unlogged) + clamped
  BY DEF Explained
<1>5. CASE ~hasBalance /\ q < 0
  <2>1. credits' = 0 /\ clamped' = clamped - q /\ credits = 0
    BY <1>5 DEF GrantCredits, Explained
  <2> QED
    BY <1>1, <1>2, <1>3, <1>4, <2>1 DEF Explained
<1>6. CASE ~(~hasBalance /\ q < 0)
  <2>1. credits' = credits + q /\ clamped' = clamped
    BY <1>6 DEF GrantCredits
  <2> QED
    BY <1>1, <1>2, <1>3, <1>4, <2>1 DEF Explained
<1> QED
  BY <1>5, <1>6

LEMMA ExplainedElsewhere ==
  ASSUME Explained, UNCHANGED <<hasBalance, credits, ledger, clamped, crashes>>,
         Unlogged' = Unlogged
  PROVE  Explained'
BY DEF Explained

LEMMA ExplainedKept == TypeOK /\ TypeOK' /\ Explained /\ [Next]_vars => Explained'
<1> SUFFICES ASSUME TypeOK, TypeOK', Explained, [Next]_vars PROVE Explained'
  OBVIOUS
<1>1. ASSUME NEW s \in Senders,
             \/ \E k \in Kinds : Begin(s, k)
             \/ CheckBlock(s) \/ ReadRow(s) \/ CheckCeiling(s) \/ ClaimAllowance(s)
             \/ DrawOverdraft(s) \/ Refuse(s) \/ LookAtConfig(s) \/ BlockSending(s)
      PROVE  Explained'
  <2>1. /\ pc[s] \notin {"count", "ledger"}
        /\ UNCHANGED <<hasBalance, credits, ledger, clamped, crashes>>
        /\ \E to \in PCs \ {"count", "ledger"} : pc' = [pc EXCEPT ![s] = to]
    BY <1>1 DEF Begin, CheckBlock, ReadRow, CheckCeiling, ClaimAllowance, DrawOverdraft, Refuse,
                LookAtConfig, BlockSending, Goto, At, tables, bounds, history, PCs
  <2>2. Unlogged' = Unlogged
    BY <2>1 DEF Unlogged, At, TypeOK
  <2> QED
    BY <2>1, <2>2, ExplainedElsewhere
<1>2. ASSUME NEW s \in Senders, CountCredit(s) PROVE Explained'
  <2>1. /\ pc[s] = "count" /\ pc' = [pc EXCEPT ![s] = "ledger"]
        /\ UNCHANGED <<hasBalance, credits, ledger, clamped, crashes>>
    BY <1>2 DEF CountCredit, Goto, At, bounds, history
  <2>2. Unlogged' = Unlogged
    BY <2>1 DEF Unlogged, At, TypeOK
  <2> QED
    BY <2>1, <2>2, ExplainedElsewhere
<1>3. ASSUME NEW s \in Senders, Crash(s) PROVE Explained'
  <2>1. crashes' = crashes + 1 /\ UNCHANGED <<hasBalance, credits>>
    BY <1>3 DEF Crash, tables
  <2> QED
    BY <2>1 DEF Explained, TypeOK
<1>4. CASE (\E f \in BOOLEAN : UnblockSending(f)) \/ NewMonth \/ UNCHANGED vars
  <2>1. UNCHANGED <<pc, hasBalance, credits, ledger, clamped, crashes>>
    BY <1>4 DEF UnblockSending, NewMonth, vars, tables, locals, bounds, history
  <2>2. Unlogged' = Unlogged
    BY <2>1 DEF Unlogged, At
  <2> QED
    BY <2>1, <2>2, ExplainedElsewhere
<1> QED
  BY <1>1, <1>2, <1>3, <1>4, LedgerStep, GrantExplained DEF Next, Consume
-----------------------------------------------------------------------------
(* The block *)

\* A sender that will block still will, unless this step is its own.
LEMMA StillWillBlock ==
  ASSUME TypeOK, NEW s \in Senders, NEW q \in Senders, q # s, WillBlock(q),
         pc'[q] = pc[q], debt'[q] = debt[q], config'[q] = config[q], hasConfig' = hasConfig
  PROVE  WillBlock(q)'
BY DEF WillBlock

LEMMA BlockComesKept == TypeOK /\ TypeOK' /\ BlockComes /\ [Next]_vars => BlockComes'
<1> SUFFICES ASSUME TypeOK, TypeOK', BlockComes, [Next]_vars,
                    crashes' = 0, sinceUnblock' > 0, ~blocked'
             PROVE  \E q \in Senders : WillBlock(q)'
  BY DEF BlockComes
<1>1. ASSUME NEW s \in Senders,
             \/ \E k \in Kinds : Begin(s, k)
             \/ CheckBlock(s) \/ ReadRow(s) \/ CheckCeiling(s) \/ ClaimAllowance(s)
             \/ SpendCredit(s) \/ CountCredit(s) \/ WriteLedger(s) \/ Refuse(s)
      PROVE  \E q \in Senders : WillBlock(q)'
  <2>1. /\ UNCHANGED <<hasConfig, blocked, config, sinceUnblock, crashes>>
        /\ pc[s] \notin {"look", "block"}
        /\ \A q \in Senders : q # s => pc'[q] = pc[q] /\ debt'[q] = debt[q]
    BY <1>1 DEF Begin, CheckBlock, ReadRow, CheckCeiling, ClaimAllowance, SpendCredit,
                CountCredit, WriteLedger, Refuse, Goto, At, tables, sending, bounds, history,
                TypeOK
  <2>2. PICK q \in Senders : WillBlock(q)
    BY <2>1 DEF BlockComes
  <2>3. q # s
    BY <2>1, <2>2 DEF WillBlock
  <2> QED
    BY <2>1, <2>2, <2>3 DEF WillBlock
<1>2. ASSUME NEW s \in Senders, DrawOverdraft(s) PROVE \E q \in Senders : WillBlock(q)'
  <2>1. pc'[s] = "look" /\ debt'[s] = 1
    BY <1>2 DEF DrawOverdraft, Goto, TypeOK
  <2> QED
    BY <2>1 DEF WillBlock
<1>3. ASSUME NEW s \in Senders, LookAtConfig(s) PROVE \E q \in Senders : WillBlock(q)'
  <2>1. /\ UNCHANGED <<hasConfig, blocked, debt, sinceUnblock, crashes>> /\ pc[s] = "look"
        /\ pc'[s] = "block" /\ config'[s].exists = hasConfig /\ config'[s].blocked = blocked
        /\ \A q \in Senders : q # s => pc'[q] = pc[q] /\ config'[q] = config[q]
    BY <1>3 DEF LookAtConfig, Goto, At, tables, sending, bounds, history, TypeOK
  <2>2. PICK q \in Senders : WillBlock(q)
    BY <2>1 DEF BlockComes
  <2>3. CASE q = s
    BY <2>1, <2>2, <2>3 DEF WillBlock
  <2>4. CASE q # s
    BY <2>1, <2>2, <2>4 DEF WillBlock
  <2> QED
    BY <2>3, <2>4
<1>4. ASSUME NEW s \in Senders, BlockSending(s) PROVE \E q \in Senders : WillBlock(q)'
  <2>1. /\ UNCHANGED <<debt, config, sinceUnblock, crashes>> /\ pc[s] = "block"
        /\ \A q \in Senders : q # s => pc'[q] = pc[q]
    BY <1>4 DEF BlockSending, Goto, At, bounds, history, TypeOK
  <2>2. /\ UNCHANGED <<hasConfig, blocked>>
        /\ config[s].blocked \/ (~config[s].exists /\ hasConfig)
    BY <1>4 DEF BlockSending, sending
  <2>3. PICK q \in Senders : WillBlock(q)
    BY <2>1, <2>2 DEF BlockComes
  <2>4. q # s
    BY <2>1, <2>2, <2>3 DEF WillBlock
  <2> QED
    BY <2>1, <2>2, <2>3, <2>4 DEF WillBlock
<1>5. ASSUME NEW s \in Senders, Crash(s) PROVE FALSE
  BY <1>5 DEF Crash, TypeOK
<1>6. CASE (\E k \in {-1, 1} : GrantCredits(k)) \/ NewMonth \/ UNCHANGED vars
  <2>1. UNCHANGED <<hasConfig, blocked, config, sinceUnblock, crashes, pc, debt>>
    BY <1>6 DEF GrantCredits, NewMonth, vars, tables, sending, locals, bounds, history
  <2>2. PICK q \in Senders : WillBlock(q)
    BY <2>1 DEF BlockComes
  <2> QED
    BY <2>1, <2>2 DEF WillBlock
<1>7. ASSUME NEW f \in BOOLEAN, UnblockSending(f) PROVE FALSE
  BY <1>7 DEF UnblockSending
<1> QED
  BY <1>1, <1>2, <1>3, <1>4, <1>5, <1>6, <1>7 DEF Next, Consume
-----------------------------------------------------------------------------
(* The debt *)

\* No new draw and no new copy: what was owed was drawn, and still is.
LEMMA OwedElsewhere ==
  ASSUME TypeOK, TypeOK', OwedWasDrawn, UNCHANGED drawnEver, owed' <= owed,
         Blocking' \subseteq Blocking,
         \A q \in Senders : pc'[q] = "block" => pc[q] = "block" /\ config'[q] = config[q]
  PROVE  OwedWasDrawn'
<1>1. Cardinality(Blocking') <= Cardinality(Blocking) /\ Cardinality(Blocking') \in Nat
      /\ Cardinality(Blocking) \in Nat
  <2>1. IsFiniteSet(Blocking) /\ Cardinality(Blocking) \in Nat
    BY SomeSenders
  <2>2. IsFiniteSet(Blocking') /\ Cardinality(Blocking') <= Cardinality(Blocking)
    BY <2>1, FS_Subset
  <2> QED
    BY <2>1, <2>2, FS_CardinalityType
<1>2. owed' + Cardinality(Blocking') <= drawnEver
  BY <1>1 DEF OwedWasDrawn, TypeOK
<1>3. ASSUME NEW q \in Senders, pc'[q] = "block"
      PROVE  config'[q].owed + Cardinality(Blocking') <= drawnEver
  <2>1. config[q].owed + Cardinality(Blocking) <= drawnEver /\ config[q].owed \in Nat
    BY <1>3 DEF OwedWasDrawn, TypeOK
  <2> QED
    BY <1>1, <1>3, <2>1 DEF TypeOK
<1> QED
  BY <1>2, <1>3 DEF OwedWasDrawn

LEMMA DrawIsOwed ==
  ASSUME TypeOK, OwedWasDrawn, NEW s \in Senders, DrawOverdraft(s)
  PROVE  OwedWasDrawn'
<1>1. /\ pc[s] = "draw" /\ pc' = [pc EXCEPT ![s] = "look"] /\ debt' = [debt EXCEPT ![s] = 1]
      /\ drawnEver' = drawnEver + 1 /\ UNCHANGED <<owed, config>>
  BY DEF DrawOverdraft, Goto, At, sending
<1>2. s \notin Blocking /\ Blocking' = Blocking \cup {s}
  BY <1>1 DEF Blocking, TypeOK
<1>3. Cardinality(Blocking') = Cardinality(Blocking) + 1 /\ Cardinality(Blocking) \in Nat
  BY <1>2, SomeSenders, OneMore
<1>4. owed' + Cardinality(Blocking') <= drawnEver'
  BY <1>1, <1>3 DEF OwedWasDrawn, TypeOK
<1>5. ASSUME NEW q \in Senders, pc'[q] = "block"
      PROVE  config'[q].owed + Cardinality(Blocking') <= drawnEver'
  <2>1. pc[q] = "block" /\ config[q].owed \in Nat
    BY <1>1, <1>5 DEF TypeOK
  <2>2. config[q].owed + Cardinality(Blocking) <= drawnEver
    BY <2>1 DEF OwedWasDrawn
  <2> QED
    BY <1>1, <1>3, <2>1, <2>2 DEF TypeOK
<1> QED
  BY <1>4, <1>5 DEF OwedWasDrawn

LEMMA LookIsOwed ==
  ASSUME TypeOK, OwedWasDrawn, NEW s \in Senders, LookAtConfig(s)
  PROVE  OwedWasDrawn'
<1>1. /\ pc[s] = "look" /\ pc' = [pc EXCEPT ![s] = "block"]
      /\ UNCHANGED <<owed, debt, drawnEver>>
      /\ config' = [config EXCEPT ![s] =
                       [exists |-> hasConfig, blocked |-> blocked, owed |-> owed]]
  BY DEF LookAtConfig, Goto, At, tables, sending, history
<1>2. Blocking' = Blocking
  BY <1>1 DEF Blocking, TypeOK
<1>3. config'[s].owed = owed /\ \A q \in Senders : q # s => config'[q] = config[q] /\ pc'[q] = pc[q]
  BY <1>1 DEF TypeOK
<1>4. ASSUME NEW q \in Senders, pc'[q] = "block"
      PROVE  config'[q].owed + Cardinality(Blocking) <= drawnEver
  BY <1>3, <1>4 DEF OwedWasDrawn
<1> QED
  BY <1>1, <1>2, <1>4 DEF OwedWasDrawn

LEMMA BlockIsOwed ==
  ASSUME TypeOK, OwedWasDrawn, NEW s \in Senders, BlockSending(s)
  PROVE  OwedWasDrawn'
<1>1. /\ pc[s] = "block" /\ pc' = [pc EXCEPT ![s] = "idle"] /\ UNCHANGED <<debt, config, drawnEver>>
      /\ owed' = owed + debt[s] \/ owed' = config[s].owed + debt[s] \/ owed' = owed
  BY DEF BlockSending, Goto, At, sending, history
<1>2. /\ Cardinality(Blocking) \in Nat /\ owed \in Nat /\ config[s].owed \in Nat
      /\ drawnEver \in Nat /\ debt[s] \in {0, 1}
      /\ owed + Cardinality(Blocking) <= drawnEver
      /\ config[s].owed + Cardinality(Blocking) <= drawnEver
  BY <1>1, SomeSenders DEF TypeOK, OwedWasDrawn
<1>3. Cardinality(Blocking') = Cardinality(Blocking) - debt[s]
  <2>1. CASE debt[s] = 1
    <3>1. s \in Blocking /\ Blocking' = Blocking \ {s}
      BY <1>1, <2>1 DEF Blocking, TypeOK
    <3> QED
      BY <2>1, <3>1, SomeSenders, OneLess
  <2>2. CASE debt[s] = 0
    <3>1. Blocking' = Blocking
      BY <1>1, <2>2 DEF Blocking, TypeOK
    <3> QED
      BY <1>2, <2>2, <3>1
  <2> QED
    BY <1>2, <2>1, <2>2
<1>4. owed' + Cardinality(Blocking') <= drawnEver
  BY <1>1, <1>2, <1>3
<1>5. ASSUME NEW q \in Senders, pc'[q] = "block"
      PROVE  config'[q].owed + Cardinality(Blocking') <= drawnEver
  <2>1. pc[q] = "block" /\ config[q].owed \in Nat
    BY <1>1, <1>5 DEF TypeOK
  <2>2. config[q].owed + Cardinality(Blocking) <= drawnEver
    BY <2>1 DEF OwedWasDrawn
  <2> QED
    BY <1>1, <1>2, <1>3, <2>1, <2>2
<1> QED
  BY <1>1, <1>4, <1>5 DEF OwedWasDrawn

LEMMA OwedKept == TypeOK /\ TypeOK' /\ OwedWasDrawn /\ [Next]_vars => OwedWasDrawn'
<1> SUFFICES ASSUME TypeOK, TypeOK', OwedWasDrawn, [Next]_vars PROVE OwedWasDrawn'
  OBVIOUS
<1>1. ASSUME NEW s \in Senders,
             \/ \E k \in Kinds : Begin(s, k)
             \/ CheckBlock(s) \/ ReadRow(s) \/ CheckCeiling(s) \/ ClaimAllowance(s)
             \/ SpendCredit(s) \/ CountCredit(s) \/ WriteLedger(s)
      PROVE  OwedWasDrawn'
  <2>1. /\ UNCHANGED <<owed, config, debt, drawnEver>>
        /\ \E to \in PCs \ {"look", "block"} : pc' = [pc EXCEPT ![s] = to]
    BY <1>1 DEF Begin, CheckBlock, ReadRow, CheckCeiling, ClaimAllowance, SpendCredit,
                CountCredit, WriteLedger, Goto, At, tables, sending, bounds, history, PCs
  <2>2. Blocking' \subseteq Blocking
    BY <2>1 DEF Blocking, TypeOK
  <2>3. owed' <= owed
    BY <2>1 DEF TypeOK
  <2>4. \A q \in Senders : pc'[q] = "block" => pc[q] = "block" /\ config'[q] = config[q]
    BY <2>1 DEF TypeOK
  <2> QED
    BY <2>1, <2>2, <2>3, <2>4, OwedElsewhere
<1>2. ASSUME NEW s \in Senders, Refuse(s) PROVE OwedWasDrawn'
  <2>1. /\ UNCHANGED <<owed, config, drawnEver>> /\ pc' = [pc EXCEPT ![s] = "look"]
        /\ debt' = [debt EXCEPT ![s] = 0]
    BY <1>2 DEF Refuse, Goto, sending, history
  <2>2. Blocking' \subseteq Blocking
    BY <2>1 DEF Blocking, TypeOK
  <2>3. owed' <= owed
    BY <2>1 DEF TypeOK
  <2>4. \A q \in Senders : pc'[q] = "block" => pc[q] = "block" /\ config'[q] = config[q]
    BY <2>1 DEF TypeOK
  <2> QED
    BY <2>1, <2>2, <2>3, <2>4, OwedElsewhere
<1>3. ASSUME NEW s \in Senders, Crash(s) PROVE OwedWasDrawn'
  <2>1. UNCHANGED <<owed, config, debt, drawnEver>> /\ pc' = [pc EXCEPT ![s] = "idle"]
    BY <1>3 DEF Crash, Goto, tables, sending, history
  <2>2. Blocking' \subseteq Blocking
    BY <2>1 DEF Blocking, TypeOK
  <2>3. owed' <= owed
    BY <2>1 DEF TypeOK
  <2>4. \A q \in Senders : pc'[q] = "block" => pc[q] = "block" /\ config'[q] = config[q]
    BY <2>1 DEF TypeOK
  <2> QED
    BY <2>1, <2>2, <2>3, <2>4, OwedElsewhere
<1>4. CASE \/ \E f \in BOOLEAN : UnblockSending(f)
           \/ \E k \in {-1, 1} : GrantCredits(k)
           \/ NewMonth \/ UNCHANGED vars
  <2>1. UNCHANGED <<pc, config, debt, drawnEver>> /\ (owed' = owed \/ owed' = 0)
    BY <1>4 DEF UnblockSending, GrantCredits, NewMonth, vars, tables, sending, locals, bounds,
                history
  <2>2. Blocking' \subseteq Blocking
    BY <2>1 DEF Blocking
  <2>3. owed' <= owed
    BY <2>1 DEF TypeOK
  <2> QED
    BY <2>1, <2>2, <2>3, OwedElsewhere
<1> QED
  BY <1>1, <1>2, <1>3, <1>4, DrawIsOwed, LookIsOwed, BlockIsOwed DEF Next, Consume
-----------------------------------------------------------------------------
\* Every message let through is counted once, the ledger explains the balance, overdraft
\* used is followed by a block, and nothing is owed that was not drawn (quota.service.ts,
\* consume and blockSending).
THEOREM BooksAlwaysAgree == Spec => []BooksAgree
<1>1. Init => IInv /\ BooksInv
  BY InitIInv, BooksInit
<1>2. IInv /\ BooksInv /\ [Next]_vars => (IInv /\ BooksInv)'
  <2> SUFFICES ASSUME IInv, BooksInv, [Next]_vars PROVE IInv' /\ BooksInv'
    OBVIOUS
  <2>1. IInv' /\ TypeOK'
    BY NextKeepsIInv DEF IInv
  <2> QED
    BY <2>1, CountedKept, ExplainedKept, BlockComesKept, OwedKept DEF BooksInv
<1>3. BooksInv => BooksAgree
  <2> SUFFICES ASSUME BooksInv PROVE BooksAgree
    OBVIOUS
  <2>1. crashes = 0 /\ sinceUnblock > 0 /\ Blocking = {} => blocked
    BY DEF BooksInv, BlockComes, WillBlock, Blocking
  <2>2. owed <= drawnEver
    BY SomeSenders DEF BooksInv, OwedWasDrawn, TypeOK
  <2> QED
    BY <2>1, <2>2 DEF BooksInv, Counted, Explained, BooksAgree
<1> QED
  BY <1>1, <1>2, <1>3, PTL DEF Spec
-----------------------------------------------------------------------------
(* The gates *)

Customers == [consent : [O!Channels -> O!Consent], refusedFor : [O!Channels -> BOOLEAN]]

Codes == {"PLAN_NO_MARKETING", "NO_CONSENT", "UNDELIVERABLE", "MISSING_VARIABLES",
          "TEMPLATE_NOT_LIVE", "OUTSIDE_SERVICE_WINDOW", "QUOTA_EXCEEDED"}

LogRows == {O!NoRow, O!Queued} \cup {O!Skip(code) : code \in Codes}

GatesTyped ==
    /\ consent \in [O!Channels -> O!Consent]
    /\ refusedFor \in [O!Channels -> BOOLEAN]
    /\ marketing \in BOOLEAN
    /\ step \in [Calls -> O!PCs]
    /\ channel \in [Calls -> O!Channels]
    /\ content \in [Calls -> O!Contents]
    /\ customer \in [Calls -> Customers]
    /\ log \in [Calls -> LogRows]
    /\ job \in [Calls -> BOOLEAN]
    /\ paid \in [Calls -> Nat]
    /\ allowed \in [Calls -> SUBSET O!Channels]
    /\ sold \in [Calls -> BOOLEAN]
    /\ died \in [Calls -> BOOLEAN]

\* Where a call stands says what it has been charged and what it has written.
Charged(c) ==
    /\ step[c] \in {"start", "gates", "window", "charge"} => paid[c] = 0 /\ log[c] = O!NoRow
    /\ step[c] = "log" => paid[c] = 1 /\ log[c] = O!NoRow
    /\ step[c] = "enqueue" => paid[c] = 1 /\ log[c] = O!Queued
    /\ log[c].status = "QUEUED" => paid[c] = 1
    /\ log[c].status = "SKIPPED" => paid[c] = 0
    /\ step[c] = "end" /\ paid[c] > 0 /\ ~died[c] => job[c]

\* The call may send this, and the plan was there for it, at some moment since it
\* began.
MaySend(c) ==
    /\ channel[c] \in allowed[c]
    /\ content[c].template /\ content[c].ours = "MARKETING" => sold[c]

\* What the call read was open to it, and past the gates it may send.
Permitted(c) ==
    /\ step[c] # "start" => (marketing => sold[c])
    /\ step[c] = "gates" => O!OpenTo(content[c], customer[c].consent) \subseteq allowed[c]
    /\ step[c] \in {"window", "charge", "log", "enqueue"} => MaySend(c)
    /\ log[c].status = "QUEUED" => MaySend(c)

GatesInv ==
    /\ GatesTyped
    /\ \A c \in Calls : Charged(c)
    /\ \A c \in Calls : Permitted(c)

-----------------------------------------------------------------------------
\* The rows a call may write.
LEMMA RowsWritten ==
  /\ O!NoRow \in LogRows /\ O!Queued \in LogRows
  /\ \A code \in Codes : O!Skip(code) \in LogRows
  /\ O!NoRow.status = "NONE" /\ O!Queued.status = "QUEUED"
  /\ \A code \in Codes : O!Skip(code).status = "SKIPPED"
BY DEF O!NoRow, O!Queued, O!Skip, LogRows

\* A refusal has a code of its own, and a call that passes the gates may send.
LEMMA Gates ==
  ASSUME NEW c \in Calls, GatesTyped
  PROVE  /\ O!Refusal(c) \in Codes \cup {""}
         /\ O!Refusal(c) = "" /\ Permitted(c) /\ step[c] = "gates" => MaySend(c)
<1>1. O!Refusal(c) \in Codes \cup {""}
  BY DEF O!Refusal, Codes
<1>2. ASSUME O!Refusal(c) = "", Permitted(c), step[c] = "gates"
      PROVE  MaySend(c)
  <2>1. O!ConsentAllows(content[c].category, customer[c].consent[channel[c]])
    BY <1>2 DEF O!Refusal
  <2>2. channel[c] \in O!OpenTo(content[c], customer[c].consent)
    BY <2>1 DEF O!OpenTo, GatesTyped
  <2>3. channel[c] \in allowed[c]
    BY <1>2, <2>2 DEF Permitted
  <2>4. content[c].template /\ content[c].ours = "MARKETING" => marketing
    BY <1>2 DEF O!Refusal
  <2> QED
    BY <1>2, <2>3, <2>4 DEF MaySend, Permitted
<1> QED
  BY <1>1, <1>2

LEMMA OpenToChannels == \A t, cons : O!OpenTo(t, cons) \subseteq O!Channels
BY DEF O!OpenTo

LEMMA GatesInit == O!Init => GatesInv
<1> SUFFICES ASSUME O!Init PROVE GatesInv
  OBVIOUS
<1>1. O!PlainText \in O!Contents
  BY DEF O!Contents
<1>2. GatesTyped
  BY <1>1, RowsWritten DEF O!Init, GatesTyped, O!PCs, O!Channels, Customers
<1>3. \A c \in Calls : Charged(c)
  BY RowsWritten DEF O!Init, Charged
<1>4. \A c \in Calls : Permitted(c)
  BY RowsWritten DEF O!Init, Permitted
<1> QED
  BY <1>2, <1>3, <1>4 DEF GatesInv
-----------------------------------------------------------------------------
(* A step of one call leaves the others alone, and the salon *)

\* The columns of every other call keep their values.
OthersRest(c) ==
    \A d \in Calls \ {c} :
        /\ step'[d] = step[d] /\ channel'[d] = channel[d] /\ content'[d] = content[d]
        /\ customer'[d] = customer[d] /\ log'[d] = log[d] /\ job'[d] = job[d]
        /\ paid'[d] = paid[d] /\ allowed'[d] = allowed[d] /\ sold'[d] = sold[d]
        /\ died'[d] = died[d]

LEMMA OneCall ==
  ASSUME NEW c \in Calls, GatesInv, OthersRest(c), marketing' = marketing, GatesTyped',
         Charged(c)', Permitted(c)'
  PROVE  GatesInv'
<1>1. ASSUME NEW d \in Calls \ {c} PROVE Charged(d)'
  <2>1. Charged(d) /\ UNCHANGED <<step[d], log[d], job[d], paid[d], died[d]>>
    BY DEF GatesInv, OthersRest
  <2> QED
    BY <2>1 DEF Charged, O!NoRow, O!Queued
<1>2. \A d \in Calls \ {c} : Permitted(d)'
  <2> SUFFICES ASSUME NEW d \in Calls \ {c} PROVE Permitted(d)'
    OBVIOUS
  <2>1. O!OpenTo(content[d], customer[d].consent)' = O!OpenTo(content[d], customer[d].consent)
    BY DEF OthersRest, O!OpenTo, O!ConsentAllows, O!Channels
  <2> QED
    BY <2>1 DEF GatesInv, OthersRest, Permitted, MaySend
<1> QED
  BY <1>1, <1>2 DEF GatesInv

LEMMA StartStep ==
  ASSUME NEW c \in Calls, NEW ch \in O!Channels, NEW t \in O!Contents, GatesInv, O!Start(c, ch, t)
  PROVE  GatesInv'
<1> USE DEF GatesInv, O!Start, O!Goto, O!salon
<1>1. [consent |-> consent, refusedFor |-> refusedFor] \in Customers
  BY DEF GatesTyped, Customers
<1>2. GatesTyped'
  BY <1>1, OpenToChannels DEF GatesTyped, O!PCs
<1>3. Charged(c)'
  BY DEF GatesTyped, Charged
<1>4. Permitted(c)'
  <2>1. content'[c] = t /\ customer'[c].consent = consent /\ allowed'[c] = O!OpenTo(t, consent)
    BY DEF GatesTyped
  <2>2. O!OpenTo(content[c], customer[c].consent)' = O!OpenTo(t, consent)
    BY <2>1 DEF O!OpenTo, O!ConsentAllows, O!Channels
  <2>3. log'[c] = O!NoRow /\ step'[c] = "gates" /\ sold'[c] = marketing /\ marketing' = marketing
    BY DEF GatesTyped, Charged
  <2> QED
    BY <2>1, <2>2, <2>3, RowsWritten DEF Permitted
<1>5. OthersRest(c)
  BY DEF GatesTyped, OthersRest
<1> QED
  BY <1>2, <1>3, <1>4, <1>5, OneCall

\* Every way a call ends without having been charged.
LEMMA EndStep ==
  ASSUME NEW c \in Calls, GatesInv,
         \/ O!RefuseAtGate(c) \/ O!DropSilently(c) \/ O!RefuseTemplate(c)
  PROVE  GatesInv'
<1> USE DEF GatesInv, O!Goto, O!salon
<1>1. /\ step[c] = "gates" /\ step' = [step EXCEPT ![c] = "end"]
      /\ \/ log' = log
         \/ \E code \in Codes : log' = [log EXCEPT ![c] = O!Skip(code)]
      /\ UNCHANGED <<consent, refusedFor, marketing, channel, content, customer, job, paid,
                     allowed, sold, died>>
  <2>1. CASE O!RefuseAtGate(c)
    <3>1. O!Refusal(c) \in Codes
      BY <2>1, Gates DEF O!RefuseAtGate
    <3> QED
      BY <2>1, <3>1 DEF O!RefuseAtGate, O!Write
  <2>2. CASE O!DropSilently(c)
    BY <2>2 DEF O!DropSilently
  <2>3. CASE O!RefuseTemplate(c)
    BY <2>3 DEF O!RefuseTemplate, O!Write, Codes
  <2> QED
    BY <2>1, <2>2, <2>3
<1>2. GatesTyped'
  BY <1>1, RowsWritten DEF GatesTyped, O!PCs
<1>3. log'[c].status # "QUEUED" /\ paid'[c] = 0 /\ step'[c] = "end" /\ (marketing' => sold'[c])
  BY <1>1, RowsWritten DEF GatesTyped, Charged, Permitted
<1>4. Charged(c)' /\ Permitted(c)'
  BY <1>3 DEF Charged, Permitted
<1>5. OthersRest(c)
  BY <1>1 DEF GatesTyped, OthersRest
<1> QED
  BY <1>1, <1>2, <1>4, <1>5, OneCall

LEMMA SwitchStep ==
  ASSUME NEW c \in Calls, GatesInv, O!SwitchToEmail(c)
  PROVE  GatesInv'
<1>1. PICK twin \in O!Contents : /\ content' = [content EXCEPT ![c] = twin]
                               /\ allowed' = [allowed EXCEPT ![c] = O!OpenTo(twin, consent)]
  BY DEF O!SwitchToEmail
<1>2. [consent |-> consent, refusedFor |-> refusedFor] \in Customers
  BY DEF GatesInv, GatesTyped, Customers
<1>3. GatesTyped'
  BY <1>1, <1>2, OpenToChannels DEF GatesInv, O!SwitchToEmail, O!salon, GatesTyped, O!Channels
<1>4. Charged(c)'
  BY DEF GatesInv, O!SwitchToEmail, GatesTyped, Charged, O!NoRow
<1>5. Permitted(c)'
  <2>1. content'[c] = twin /\ customer'[c].consent = consent /\ allowed'[c] = O!OpenTo(twin, consent)
    BY <1>1 DEF GatesInv, O!SwitchToEmail, GatesTyped
  <2>2. O!OpenTo(content[c], customer[c].consent)' = O!OpenTo(twin, consent)
    BY <2>1 DEF O!OpenTo, O!ConsentAllows, O!Channels
  <2>3. log'[c] = O!NoRow /\ step'[c] = "gates" /\ sold'[c] = marketing /\ marketing' = marketing
    BY DEF GatesInv, O!SwitchToEmail, O!salon, GatesTyped, Charged
  <2> QED
    BY <2>1, <2>2, <2>3, RowsWritten DEF Permitted
<1>6. OthersRest(c)
  BY <1>1 DEF GatesInv, O!SwitchToEmail, GatesTyped, OthersRest
<1> QED
  BY <1>3, <1>4, <1>5, <1>6, OneCall DEF O!SwitchToEmail, O!salon

LEMMA PassStep ==
  ASSUME NEW c \in Calls, GatesInv, O!PassGates(c)
  PROVE  GatesInv'
<1> USE DEF GatesInv, O!PassGates, O!Goto, O!salon
<1>1. MaySend(c)
  BY Gates
<1>2. step'[c] \in {"window", "charge"}
  BY DEF GatesTyped
<1>3. GatesTyped'
  BY DEF GatesTyped, O!PCs
<1>4. Charged(c)'
  BY <1>2 DEF GatesTyped, Charged, O!NoRow, O!Queued
<1>5. Permitted(c)'
  BY <1>1, <1>2 DEF Permitted, MaySend
<1>6. OthersRest(c)
  BY DEF GatesTyped, OthersRest
<1> QED
  BY <1>3, <1>4, <1>5, <1>6, OneCall

LEMMA WindowStep ==
  ASSUME NEW c \in Calls, GatesInv, O!CheckWindow(c)
  PROVE  GatesInv'
<1> USE DEF GatesInv, O!CheckWindow, O!Goto, O!Write, O!salon
<1>1. CASE step'[c] = "charge"
  <2>1. log' = log
    BY <1>1 DEF GatesTyped
  <2>2. GatesTyped'
    BY <2>1 DEF GatesTyped, O!PCs
  <2>3. Charged(c)' /\ Permitted(c)'
    BY <1>1, <2>1 DEF Charged, Permitted, MaySend, O!NoRow, O!Queued
  <2>4. OthersRest(c)
    BY <2>1 DEF GatesTyped, OthersRest
  <2> QED
    BY <2>2, <2>3, <2>4, OneCall
<1>2. CASE step'[c] # "charge"
  <2>1. /\ step' = [step EXCEPT ![c] = "end"]
        /\ log' = [log EXCEPT ![c] = O!Skip("OUTSIDE_SERVICE_WINDOW")]
    BY <1>2 DEF GatesTyped
  <2>2. GatesTyped'
    BY <2>1, RowsWritten DEF Codes, GatesTyped, O!PCs
  <2>3. log'[c].status = "SKIPPED" /\ paid'[c] = 0 /\ step'[c] = "end" /\ (marketing' => sold'[c])
    BY <2>1, RowsWritten DEF Codes, GatesTyped, Charged, Permitted
  <2>4. Charged(c)' /\ Permitted(c)'
    BY <2>3 DEF Charged, Permitted
  <2>5. OthersRest(c)
    BY <2>1 DEF GatesTyped, OthersRest
  <2> QED
    BY <2>2, <2>4, <2>5, OneCall
<1> QED
  BY <1>1, <1>2

LEMMA ChargeStep ==
  ASSUME NEW c \in Calls, GatesInv, O!Charge(c)
  PROVE  GatesInv'
<1> USE DEF GatesInv, O!Charge, O!Goto, O!Write, O!salon
<1>1. CASE step' = [step EXCEPT ![c] = "log"] /\ paid' = [paid EXCEPT ![c] = @ + 1] /\ log' = log
  <2>1. GatesTyped'
    BY <1>1 DEF GatesTyped, O!PCs
  <2>2. step'[c] = "log" /\ paid'[c] = 1 /\ log'[c] = O!NoRow
    BY <1>1 DEF GatesTyped, Charged
  <2>3. Charged(c)'
    BY <2>2, RowsWritten DEF Charged
  <2>4. Permitted(c)'
    BY <2>2 DEF Permitted, MaySend
  <2>5. OthersRest(c)
    BY <1>1 DEF GatesTyped, OthersRest
  <2> QED
    BY <2>1, <2>3, <2>4, <2>5, OneCall
<1>2. CASE /\ step' = [step EXCEPT ![c] = "end"] /\ paid' = paid
           /\ log' = [log EXCEPT ![c] = O!Skip("QUOTA_EXCEEDED")]
  <2>1. GatesTyped'
    BY <1>2, RowsWritten DEF Codes, GatesTyped, O!PCs
  <2>2. log'[c].status = "SKIPPED" /\ paid'[c] = 0 /\ step'[c] = "end" /\ (marketing' => sold'[c])
    BY <1>2, RowsWritten DEF Codes, GatesTyped, Charged, Permitted
  <2>3. Charged(c)' /\ Permitted(c)'
    BY <2>2 DEF Charged, Permitted
  <2>4. OthersRest(c)
    BY <1>2 DEF GatesTyped, OthersRest
  <2> QED
    BY <2>1, <2>3, <2>4, OneCall
<1> QED
  BY <1>1, <1>2

LEMMA WriteLogStep ==
  ASSUME NEW c \in Calls, GatesInv, O!WriteLog(c)
  PROVE  GatesInv'
<1> USE DEF GatesInv, O!WriteLog, O!Goto, O!Write, O!salon
<1>1. GatesTyped'
  BY RowsWritten DEF GatesTyped, O!PCs
<1>2. step'[c] = "enqueue" /\ log'[c] = O!Queued /\ paid'[c] = 1
  BY DEF GatesTyped, Charged
<1>3. Charged(c)'
  BY <1>2, RowsWritten DEF Charged
<1>4. Permitted(c)'
  BY <1>2 DEF Permitted, MaySend
<1>5. OthersRest(c)
  BY DEF GatesTyped, OthersRest
<1> QED
  BY <1>1, <1>3, <1>4, <1>5, OneCall

LEMMA EnqueueStep ==
  ASSUME NEW c \in Calls, GatesInv, O!EnqueueSend(c)
  PROVE  GatesInv'
<1> USE DEF GatesInv, O!EnqueueSend, O!Goto, O!salon
<1>1. GatesTyped'
  BY DEF GatesTyped, O!PCs
<1>2. step'[c] = "end" /\ job'[c] /\ log'[c] = O!Queued /\ paid'[c] = 1
  BY DEF GatesTyped, Charged
<1>3. Charged(c)'
  BY <1>2, RowsWritten DEF Charged
<1>4. Permitted(c)'
  BY <1>2 DEF Permitted, MaySend
<1>5. OthersRest(c)
  BY DEF GatesTyped, OthersRest
<1> QED
  BY <1>1, <1>3, <1>4, <1>5, OneCall

LEMMA CrashStep ==
  ASSUME NEW c \in Calls, GatesInv, O!Crash(c)
  PROVE  GatesInv'
<1> USE DEF GatesInv, O!Crash, O!Goto, O!salon
<1>1. GatesTyped'
  BY DEF GatesTyped, O!PCs
<1>2. step'[c] = "end" /\ died'[c] /\ log' = log /\ paid' = paid
  BY DEF GatesTyped
<1>3. Charged(c)'
  BY <1>2 DEF Charged
<1>4. Permitted(c)'
  BY <1>2 DEF Permitted, MaySend
<1>5. OthersRest(c)
  BY DEF GatesTyped, OthersRest
<1> QED
  BY <1>1, <1>3, <1>4, <1>5, OneCall
-----------------------------------------------------------------------------
(* What happens meanwhile adds to history, and moves no call *)

LEMMA MeanwhileStep ==
  ASSUME GatesInv, GatesTyped', UNCHANGED <<step, channel, content, customer, log, job, paid, died>>,
         \A c \in Calls : /\ allowed[c] \subseteq allowed'[c]
                          /\ sold[c] => sold'[c]
                          /\ step[c] # "start" /\ marketing' => sold'[c]
  PROVE  GatesInv'
<1>1. \A c \in Calls : Charged(c)'
  BY DEF GatesInv, Charged, O!NoRow, O!Queued
<1>2. ASSUME NEW c \in Calls PROVE Permitted(c)'
  <2>1. O!OpenTo(content[c], customer[c].consent)' = O!OpenTo(content[c], customer[c].consent)
    BY DEF O!OpenTo, O!ConsentAllows, O!Channels
  <2> QED
    BY <2>1 DEF GatesInv, Permitted, MaySend
<1> QED
  BY <1>1, <1>2 DEF GatesInv

LEMMA ConsentStep ==
  ASSUME NEW ch \in O!Channels, NEW v \in O!Consent, GatesInv, O!SetConsent(ch, v)
  PROVE  GatesInv'
<1> USE DEF GatesInv, O!SetConsent, O!call
<1>1. GatesTyped'
  BY OpenToChannels DEF GatesTyped
<1>2. \A c \in Calls : allowed[c] \subseteq allowed'[c]
  BY DEF GatesTyped
<1>3. UNCHANGED <<marketing, sold>> /\ \A c \in Calls : step[c] # "start" => (marketing => sold[c])
  BY DEF Permitted
<1> QED
  BY <1>1, <1>2, <1>3, MeanwhileStep

LEMMA SalonStep ==
  ASSUME GatesInv, O!SetPlan \/ O!SetWindow \/ \E ch \in O!Channels : O!SetVerdict(ch)
  PROVE  GatesInv'
<1> USE DEF GatesInv, O!call
<1>1. CASE O!SetPlan
  <2>1. GatesTyped'
    BY <1>1 DEF O!SetPlan, GatesTyped
  <2>2. \A c \in Calls : /\ allowed[c] \subseteq allowed'[c] /\ (sold[c] => sold'[c])
                         /\ (step[c] # "start" /\ marketing' => sold'[c])
    BY <1>1 DEF O!SetPlan, GatesTyped
  <2> QED
    BY <1>1, <2>1, <2>2, MeanwhileStep DEF O!SetPlan
<1>2. CASE O!SetWindow \/ \E ch \in O!Channels : O!SetVerdict(ch)
  <2>1. UNCHANGED <<marketing, allowed, sold>>
        /\ UNCHANGED <<step, channel, content, customer, log, job, paid, died>>
    BY <1>2 DEF O!SetWindow, O!SetVerdict
  <2>2. GatesTyped'
    BY <1>2 DEF O!SetWindow, O!SetVerdict, GatesTyped
  <2>3. \A c \in Calls : step[c] # "start" => (marketing => sold[c])
    BY DEF Permitted
  <2> QED
    BY <2>1, <2>2, <2>3, MeanwhileStep
<1> QED
  BY <1>1, <1>2

LEMMA GatesNext == GatesInv /\ [O!Next]_O!vars => GatesInv'
<1> SUFFICES ASSUME GatesInv, [O!Next]_O!vars PROVE GatesInv'
  OBVIOUS
<1>1. ASSUME NEW c \in Calls, O!QueueMessage(c) PROVE GatesInv'
  BY <1>1, StartStep, EndStep, SwitchStep, PassStep, WindowStep, ChargeStep, WriteLogStep,
     EnqueueStep, CrashStep DEF O!QueueMessage
<1>2. CASE UNCHANGED O!vars
  <2>1. \A c \in Calls : step[c] # "start" => (marketing => sold[c])
    BY DEF GatesInv, Permitted
  <2>2. GatesTyped'
    BY <1>2 DEF GatesInv, GatesTyped, O!vars, O!salon, O!call
  <2> QED
    BY <1>2, <2>1, <2>2, MeanwhileStep DEF O!vars, O!salon, O!call
<1> QED
  BY <1>1, <1>2, ConsentStep, SalonStep DEF O!Next
-----------------------------------------------------------------------------
(* The template *)

Copies ==
    {T!NoCopy} \cup [id : Nat \ {0}, status : T!Statuses, wording : Wordings]

Rows ==
    [there : BOOLEAN, id : Nat, name : T!Names, status : T!Statuses,
     wording : Wordings \cup {0}, order : Wordings \cup {0}]

Stages == {"idle", "mark", "ask", "record", "list", "adopt", "sync", "write", "import"}

WordingTyped ==
    /\ template \in Rows /\ meta \in Copies /\ ids \in Nat
    /\ template.there => template.wording \in Wordings
    /\ stage \in [Requests -> Stages]
    /\ mine \in [Requests -> Rows]
    /\ theirs \in [Requests -> Copies]
    /\ strayed \in BOOLEAN /\ crossed \in BOOLEAN
    /\ \A r \in Requests :
          /\ stage[r] \in {"mark", "ask"} => mine[r].wording \in Wordings
          /\ stage[r] = "import" => theirs[r] # T!NoCopy

\* Meta gives no id twice.
IdsGrow ==
    /\ template.id <= ids /\ meta.id <= ids
    /\ \A r \in Requests : theirs[r].id <= ids

\* The row is linked to the copy.
LinkedTo(copy) == template.there /\ template.id = copy.id

\* The row of a submission is not linked, or about to be let go of.
Submits(r) ==
    /\ stage[r] = "mark" /\ template.there => template.id = 0 \/ mine[r].status = "DISABLED"
    /\ stage[r] = "ask" /\ template.there => template.id = 0
    /\ stage[r] = "record" => /\ theirs[r] # T!NoCopy /\ theirs[r].wording = mine[r].wording
                              /\ meta # T!NoCopy => meta.id = theirs[r].id

\* A sync has seen the copy the row is linked to, or none where there is none; nothing
\* is left to adopt or to import.
Syncs(r) ==
    /\ stage[r] \in {"sync", "write"} /\ theirs[r] = T!NoCopy => meta = T!NoCopy
    /\ stage[r] \in {"sync", "write"} /\ theirs[r] # T!NoCopy /\ template.there =>
          template.id = theirs[r].id
    /\ stage[r] \notin {"list", "adopt", "import"}

\* What the request holds is the copy Meta has, unless Meta has lost it since.
StillTheirs(r) ==
    stage[r] \in {"record", "sync", "write"} /\ meta.id = theirs[r].id =>
        meta.wording = theirs[r].wording

\* One request at the row at a time, and every copy of Meta's recorded: the row is linked
\* to the copy in its order, or the submission that made the copy is about to record it.
InStep ==
    /\ \A r, q \in Requests : stage[r] # "idle" /\ stage[q] # "idle" => r = q
    /\ \A r \in Requests : Submits(r) /\ Syncs(r) /\ StillTheirs(r)
    /\ meta # T!NoCopy => LinkedTo(meta) \/ \E r \in Requests : stage[r] = "record"
    /\ template.there /\ template.id # 0 => template.order # 0
    /\ template.there /\ template.id # 0 /\ template.id = meta.id => template.order = meta.wording

WordingInv == WordingTyped /\ IdsGrow /\ (~strayed /\ ~crossed => InStep)
-----------------------------------------------------------------------------
LEMMA CopyFields ==
  /\ T!NoCopy.id = 0 /\ T!NoCopy.wording = 0 /\ T!NoCopy.status = "DRAFT"
  /\ \A c \in Copies : c.id \in Nat /\ (c # T!NoCopy => /\ c.id # 0 /\ c.wording \in Wordings
                                                       /\ c.wording # 0 /\ c.status \in T!Statuses)
  /\ T!NoCopy \in Copies /\ T!Forgotten \in Rows
  /\ \A c \in Copies : c.status \in T!Statuses /\ c.wording \in Wordings \cup {0}
<1>1. T!NoCopy.id = 0 /\ T!NoCopy.wording = 0 /\ T!NoCopy.status = "DRAFT"
  BY DEF T!NoCopy
<1>2. T!Forgotten \in Rows
  BY DEF T!Forgotten, T!Fresh, Rows, T!Statuses, T!Names
<1> QED
  BY <1>1, <1>2, WordingsAssumption DEF Copies, T!Statuses

LEMMA WordingInit == T!Init => WordingInv
<1> SUFFICES ASSUME T!Init PROVE WordingInv
  OBVIOUS
<1>1. PICK w \in Wordings : template = T!Fresh(w)
  BY DEF T!Init
<1>2. /\ template \in Rows /\ template.wording \in Wordings
      /\ template.id = 0 /\ template.status = "DRAFT"
  BY <1>1 DEF T!Fresh, Rows, T!Statuses, T!Names
<1>3. WordingTyped
  BY <1>2, CopyFields DEF T!Init, WordingTyped, Stages
<1>4. IdsGrow
  BY <1>2, CopyFields DEF T!Init, IdsGrow
<1>5. \A r \in Requests : stage[r] = "idle"
  BY DEF T!Init
<1>6. InStep
  BY <1>2, <1>5 DEF InStep, Submits, Syncs, StillTheirs, T!Init
<1> QED
  BY <1>3, <1>4, <1>6 DEF WordingInv

\* What has to be shown of a step of one request while no other is at work.
LEMMA OneAtWork ==
  ASSUME NEW r \in Requests, \A q \in Requests : q # r => stage'[q] = "idle",
         Submits(r)', Syncs(r)', StillTheirs(r)',
         meta' # T!NoCopy => LinkedTo(meta)' \/ stage'[r] = "record",
         template'.there /\ template'.id # 0 => template'.order # 0,
         template'.there /\ template'.id # 0 /\ template'.id = meta'.id
            => template'.order = meta'.wording
  PROVE  InStep'
<1>1. \A q \in Requests : q # r => Submits(q)' /\ Syncs(q)' /\ StillTheirs(q)'
  BY DEF Submits, Syncs, StillTheirs
<1> QED
  BY <1>1 DEF InStep

\* In step, the others are idle while one is at work.
LEMMA OthersIdle ==
  ASSUME InStep, NEW r \in Requests, stage[r] # "idle"
  PROVE  \A q \in Requests : q # r => stage[q] = "idle"
BY DEF InStep

\* A request begins: it has read the row, or Meta's copy.
LEMMA BeginStep ==
  ASSUME WordingInv, NEW r \in Requests,
         T!SubmitReads(r) \/ T!SyncLists(r) \/ T!ImportReads(r)
  PROVE  WordingInv'
<1> USE CopyFields
<1>1. /\ stage[r] = "idle" /\ UNCHANGED <<template, meta, ids, strayed>>
      /\ crossed' = (crossed \/ \E q \in Requests \ {r} : stage[q] # "idle")
      /\ \E to \in {"mark", "sync", "import"} : stage' = [stage EXCEPT ![r] = to]
  BY DEF T!SubmitReads, T!SyncLists, T!ImportReads, T!Begin, T!Goto
<1>2. WordingTyped' /\ IdsGrow'
  <2>1. mine' \in [Requests -> Rows]
    BY DEF WordingInv, WordingTyped, T!SubmitReads, T!SyncLists, T!ImportReads
  <2>2. theirs' \in [Requests -> Copies] /\ \A q \in Requests : theirs'[q].id <= ids
    BY DEF WordingInv, WordingTyped, IdsGrow, T!SubmitReads, T!SyncLists, T!ImportReads
  <2>3. stage' \in [Requests -> Stages] /\ crossed' \in BOOLEAN
    BY <1>1 DEF WordingInv, WordingTyped, Stages
  <2>4. \A q \in Requests : /\ stage'[q] \in {"mark", "ask"} => mine'[q].wording \in Wordings
                            /\ stage'[q] = "import" => theirs'[q] # T!NoCopy
    <3>1. CASE T!SubmitReads(r)
      <4>1. /\ stage' = [stage EXCEPT ![r] = "mark"] /\ theirs' = theirs
            /\ mine' = [mine EXCEPT ![r] = template] /\ template.there
        BY <3>1 DEF T!SubmitReads, T!Begin, T!Goto
      <4> QED
        BY <4>1 DEF WordingInv, WordingTyped
    <3>2. CASE T!SyncLists(r)
      <4>1. /\ stage' = [stage EXCEPT ![r] = "sync"] /\ mine' = mine
            /\ theirs' = [theirs EXCEPT ![r] = meta]
        BY <3>2 DEF T!SyncLists, T!Begin, T!Goto
      <4> QED
        BY <4>1 DEF WordingInv, WordingTyped
    <3>3. CASE T!ImportReads(r)
      <4>1. /\ stage' = [stage EXCEPT ![r] = "import"] /\ mine' = mine
            /\ theirs' = [theirs EXCEPT ![r] = meta] /\ meta # T!NoCopy
        BY <3>3 DEF T!ImportReads, T!Begin, T!Goto
      <4> QED
        BY <4>1 DEF WordingInv, WordingTyped
    <3> QED
      BY <3>1, <3>2, <3>3
  <2> QED
    BY <1>1, <2>1, <2>2, <2>3, <2>4 DEF WordingInv, WordingTyped, IdsGrow
<1>3. ASSUME ~strayed', ~crossed' PROVE InStep'
  <2>1. InStep /\ \A q \in Requests : stage[q] = "idle"
    BY <1>1, <1>3 DEF WordingInv
  <2>2. \A q \in Requests : q # r => stage'[q] = "idle"
    BY <1>1, <2>1 DEF WordingInv, WordingTyped
  <2>3. meta # T!NoCopy => LinkedTo(meta)
    BY <2>1 DEF InStep
  <2>4. Submits(r)' /\ Syncs(r)' /\ StillTheirs(r)'
    <3>1. CASE T!SubmitReads(r)
      <4>1. stage'[r] = "mark" /\ mine'[r] = template /\ template.there
            /\ (template.id = 0 \/ template.status = "DISABLED")
        BY <3>1 DEF T!SubmitReads, T!Begin, T!Goto, WordingInv, WordingTyped
      <4> QED
        BY <1>1, <4>1 DEF Submits, Syncs, StillTheirs, WordingInv, WordingTyped
    <3>2. CASE T!SyncLists(r)
      <4>1. stage'[r] = "sync" /\ theirs'[r] = meta
        BY <3>2 DEF T!SyncLists, T!Begin, T!Goto, WordingInv, WordingTyped
      <4>2. template' = template
        BY <1>1
      <4>3. (theirs[r] # T!NoCopy /\ template.there => template.id = theirs[r].id)'
        BY <4>1, <4>2, <2>3 DEF LinkedTo
      <4> QED
        BY <1>1, <4>1, <4>3 DEF Submits, Syncs, StillTheirs
    <3>3. CASE T!ImportReads(r)
      BY <3>3, <2>3 DEF T!ImportReads, LinkedTo
    <3> QED
      BY <3>1, <3>2, <3>3
  <2>5. meta' # T!NoCopy => LinkedTo(meta)'
    BY <1>1, <2>3 DEF LinkedTo
  <2> QED
    BY <1>1, <2>1, <2>2, <2>4, <2>5, OneAtWork DEF InStep
<1> QED
  BY <1>2, <1>3 DEF WordingInv

\* A request ends, and has changed neither the row nor the copy.
LEMMA GiveUpStep ==
  ASSUME WordingInv, NEW r \in Requests, stage[r] # "idle", T!End(r),
         UNCHANGED <<template, meta, ids, crossed>>,
         strayed' \in BOOLEAN, strayed => strayed', stage[r] = "record" => strayed'
  PROVE  WordingInv'
<1> USE CopyFields
<1>1. /\ stage' = [stage EXCEPT ![r] = "idle"]
      /\ mine' = [mine EXCEPT ![r] = T!Forgotten]
      /\ theirs' = [theirs EXCEPT ![r] = T!NoCopy]
  BY DEF T!End, T!Goto
<1>2. WordingTyped' /\ IdsGrow'
  BY <1>1 DEF WordingInv, WordingTyped, IdsGrow, Stages
<1>3. ASSUME ~strayed', ~crossed' PROVE InStep'
  <2>1. InStep /\ stage[r] # "record"
    BY <1>3 DEF WordingInv
  <2>2. \A q \in Requests : stage'[q] = "idle"
    BY <1>1, <2>1, OthersIdle DEF WordingInv, WordingTyped
  <2>3. meta # T!NoCopy => LinkedTo(meta)
    BY <2>1, OthersIdle DEF InStep
  <2>4. Submits(r)' /\ Syncs(r)' /\ StillTheirs(r)'
    BY <2>2 DEF Submits, Syncs, StillTheirs
  <2> QED
    BY <2>1, <2>2, <2>3, <2>4, OneAtWork DEF InStep, LinkedTo
<1> QED
  BY <1>2, <1>3 DEF WordingInv

\* The row written by a request that ends with it.
LEMMA WriteStep ==
  ASSUME WordingInv, NEW r \in Requests, stage[r] # "idle", T!End(r),
         UNCHANGED <<meta, ids, strayed, crossed>>,
         template' \in Rows, template'.there => template'.wording \in Wordings,
         template'.id <= ids,
         InStep => /\ meta # T!NoCopy => LinkedTo(meta)'
                   /\ template'.there /\ template'.id # 0 => template'.order # 0
                   /\ template'.there /\ template'.id # 0 /\ template'.id = meta.id
                        => template'.order = meta.wording
  PROVE  WordingInv'
<1> USE CopyFields
<1>1. /\ stage' = [stage EXCEPT ![r] = "idle"]
      /\ mine' = [mine EXCEPT ![r] = T!Forgotten]
      /\ theirs' = [theirs EXCEPT ![r] = T!NoCopy]
  BY DEF T!End, T!Goto
<1>2. WordingTyped' /\ IdsGrow'
  BY <1>1 DEF WordingInv, WordingTyped, IdsGrow, Stages
<1>3. ASSUME ~strayed', ~crossed' PROVE InStep'
  <2>1. InStep
    BY <1>3 DEF WordingInv
  <2>2. \A q \in Requests : stage'[q] = "idle"
    BY <1>1, <2>1, OthersIdle DEF WordingInv, WordingTyped
  <2>3. Submits(r)' /\ Syncs(r)' /\ StillTheirs(r)'
    BY <2>2 DEF Submits, Syncs, StillTheirs
  <2> QED
    BY <2>1, <2>2, <2>3, OneAtWork
<1> QED
  BY <1>2, <1>3 DEF WordingInv

\* A request goes on, and has changed neither the row nor the copy.
LEMMA GoOnStep ==
  ASSUME WordingInv, NEW r \in Requests, NEW to \in Stages, stage[r] # "idle",
         stage[r] # "record", stage' = [stage EXCEPT ![r] = to],
         UNCHANGED <<template, meta, ids, strayed, crossed>>,
         mine' \in [Requests -> Rows], theirs' \in [Requests -> Copies],
         \A q \in Requests : theirs'[q].id <= ids,
         \A q \in Requests : /\ stage'[q] \in {"mark", "ask"} => mine'[q].wording \in Wordings
                             /\ stage'[q] = "import" => theirs'[q] # T!NoCopy,
         InStep => Submits(r)' /\ Syncs(r)' /\ StillTheirs(r)'
  PROVE  WordingInv'
<1>1. WordingTyped' /\ IdsGrow'
  BY DEF WordingInv, WordingTyped, IdsGrow
<1>2. ASSUME ~strayed', ~crossed' PROVE InStep'
  <2>1. InStep
    BY <1>2 DEF WordingInv
  <2>2. \A q \in Requests : q # r => stage'[q] = "idle"
    BY <2>1, OthersIdle DEF WordingInv, WordingTyped
  <2>3. meta # T!NoCopy => LinkedTo(meta)
    BY <2>1, OthersIdle DEF InStep
  <2>4. meta' # T!NoCopy => LinkedTo(meta)'
    BY <2>3 DEF LinkedTo
  <2> QED
    BY <2>1, <2>2, <2>4, OneAtWork DEF InStep
<1> QED
  BY <1>1, <1>2 DEF WordingInv

LEMMA MarkStep ==
  ASSUME WordingInv, NEW r \in Requests, T!Mark(r)
  PROVE  WordingInv'
<1> USE CopyFields
<1>1. /\ stage[r] = "mark" /\ UNCHANGED <<meta, ids, crossed>>
      /\ template' = IF template.there /\ mine[r].status = "DISABLED"
                     THEN [template EXCEPT !.id = 0] ELSE template
      /\ strayed' = (strayed \/ (template.there /\ mine[r].status = "DISABLED" /\ meta # T!NoCopy))
  BY DEF T!Mark
<1>2. CASE ~template.there
  BY <1>1, <1>2, GiveUpStep DEF T!Mark, WordingInv, WordingTyped
<1>3. CASE template.there
  <2>1. stage' = [stage EXCEPT ![r] = "ask"] /\ mine' = mine /\ theirs' = theirs
    BY <1>3 DEF T!Mark, T!Goto
  <2>2. /\ template' \in Rows /\ template'.there /\ template'.id <= ids
        /\ template'.wording = template.wording
        /\ template'.id = template.id \/ template'.id = 0
        /\ mine[r].status = "DISABLED" => template'.id = 0
        /\ template'.order = template.order
    BY <1>1, <1>3 DEF WordingInv, WordingTyped, IdsGrow, Rows
  <2>3. WordingTyped' /\ IdsGrow'
    BY <1>1, <2>1, <2>2 DEF WordingInv, WordingTyped, IdsGrow, Stages
  <2>4. ASSUME ~strayed', ~crossed' PROVE InStep'
    <3>1. InStep
      BY <1>1, <2>4 DEF WordingInv
    <3>2. \A q \in Requests : q # r => stage'[q] = "idle"
      BY <1>1, <2>1, <3>1, OthersIdle DEF WordingInv, WordingTyped
    <3>3. template.id = 0 \/ mine[r].status = "DISABLED"
      BY <1>1, <1>3, <3>1 DEF InStep, Submits
    <3>4. template'.id = 0
      BY <2>2, <3>3
    <3>5. meta = T!NoCopy
      <4>1. meta # T!NoCopy => LinkedTo(meta)
        BY <1>1, <3>1, OthersIdle DEF InStep
      <4> QED
        BY <1>1, <1>3, <2>4, <4>1, <3>3 DEF LinkedTo, WordingInv, WordingTyped
    <3>6. Submits(r)' /\ Syncs(r)' /\ StillTheirs(r)'
      BY <2>1, <3>4 DEF Submits, Syncs, StillTheirs, WordingInv, WordingTyped
    <3> QED
      BY <1>1, <3>2, <3>4, <3>5, <3>6, OneAtWork
  <2> QED
    BY <2>3, <2>4 DEF WordingInv
<1> QED
  BY <1>2, <1>3

LEMMA MetaAcceptsStep ==
  ASSUME WordingInv, NEW r \in Requests, T!MetaAccepts(r)
  PROVE  WordingInv'
<1> USE CopyFields
<1>1. /\ stage[r] = "ask" /\ meta = T!NoCopy /\ ids' = ids + 1
      /\ UNCHANGED <<template, crossed>>
  BY DEF T!MetaAccepts
<1>2. /\ meta' \in Copies /\ meta' # T!NoCopy /\ meta'.id = ids + 1
      /\ meta'.wording = mine[r].wording
  <2>1. PICK s \in {"PENDING", "APPROVED"} :
           meta' = [id |-> ids + 1, status |-> s, wording |-> mine[r].wording]
    BY DEF T!MetaAccepts
  <2>2. mine[r].wording \in Wordings /\ ids + 1 \in Nat \ {0} /\ s \in T!Statuses
    BY <1>1 DEF WordingInv, WordingTyped, T!Statuses
  <2>3. meta' \in Copies
    BY <2>1, <2>2 DEF Copies
  <2> QED
    BY <2>1, <2>2, <2>3
<1>3. CASE strayed'
  <2>1. /\ stage' \in [Requests -> Stages] /\ mine' \in [Requests -> Rows]
        /\ theirs' \in [Requests -> Copies] /\ strayed' \in BOOLEAN
        /\ \A q \in Requests : theirs'[q].id <= ids + 1
    <3>1. CASE T!End(r) /\ strayed' = TRUE
      BY <3>1 DEF T!End, T!Goto, WordingInv, WordingTyped, IdsGrow, Stages
    <3>2. CASE theirs' = [theirs EXCEPT ![r] = meta'] /\ T!Goto(r, "record")
               /\ UNCHANGED <<mine, faults, strayed>>
      BY <1>2, <3>2 DEF T!Goto, WordingInv, WordingTyped, IdsGrow, Stages
    <3> QED
      BY <3>1, <3>2 DEF T!MetaAccepts
  <2>2. \A q \in Requests : /\ stage'[q] \in {"mark", "ask"} => mine'[q].wording \in Wordings
                            /\ stage'[q] = "import" => theirs'[q] # T!NoCopy
    <3>1. CASE T!End(r)
      BY <3>1 DEF T!End, T!Goto, WordingInv, WordingTyped
    <3>2. CASE theirs' = [theirs EXCEPT ![r] = meta'] /\ T!Goto(r, "record") /\ mine' = mine
      BY <3>2 DEF T!Goto, WordingInv, WordingTyped
    <3> QED
      BY <3>1, <3>2 DEF T!MetaAccepts
  <2>3. WordingTyped' /\ IdsGrow'
    BY <1>1, <1>2, <2>1, <2>2 DEF WordingInv, WordingTyped, IdsGrow, Rows
  <2> QED
    BY <1>3, <2>3 DEF WordingInv
<1>4. CASE ~strayed'
  <2>1. /\ stage' = [stage EXCEPT ![r] = "record"] /\ theirs' = [theirs EXCEPT ![r] = meta']
        /\ mine' = mine /\ strayed' = strayed
    BY <1>4 DEF T!MetaAccepts, T!End, T!Goto
  <2>2. WordingTyped' /\ IdsGrow'
    BY <1>1, <1>2, <2>1 DEF WordingInv, WordingTyped, IdsGrow, Rows, Stages
  <2>3. ASSUME ~crossed' PROVE InStep'
    <3>1. InStep
      BY <1>1, <1>4, <2>1, <2>3 DEF WordingInv
    <3>2. \A q \in Requests : q # r => stage'[q] = "idle"
      BY <1>1, <2>1, <3>1, OthersIdle DEF WordingInv, WordingTyped
    <3>3. template.id <= ids
      BY DEF WordingInv, IdsGrow
    <3>4. ~(template'.id = meta'.id)
      BY <1>1, <1>2, <3>3 DEF WordingInv, WordingTyped, Rows
    <3>5. Submits(r)' /\ Syncs(r)' /\ StillTheirs(r)' /\ stage'[r] = "record"
      BY <1>2, <2>1 DEF Submits, Syncs, StillTheirs, WordingInv, WordingTyped
    <3> QED
      BY <1>1, <3>1, <3>2, <3>4, <3>5, OneAtWork DEF InStep
  <2> QED
    BY <2>2, <2>3 DEF WordingInv
<1> QED
  BY <1>3, <1>4

LEMMA MetaRefusesStep ==
  ASSUME WordingInv, NEW r \in Requests, T!MetaRefuses(r)
  PROVE  WordingInv'
<1>1. stage[r] = "ask" /\ UNCHANGED <<template, meta, ids, strayed, crossed>>
  BY DEF T!MetaRefuses
<1>2. CASE T!End(r)
  BY <1>1, <1>2, GiveUpStep DEF WordingInv, WordingTyped
<1>3. CASE meta # T!NoCopy /\ T!Goto(r, "list") /\ UNCHANGED <<mine, theirs>>
  <2>1. ~InStep
    <3> SUFFICES ASSUME InStep PROVE FALSE
      OBVIOUS
    <3>1. meta # T!NoCopy => LinkedTo(meta)
      BY <1>1, OthersIdle DEF InStep
    <3>2. template.there => template.id = 0
      BY <1>1 DEF InStep, Submits
    <3> QED
      BY <1>3, <3>1, <3>2, CopyFields DEF LinkedTo, WordingInv, WordingTyped
  <2> QED
    BY <1>1, <1>3, <2>1, GoOnStep
       DEF T!Goto, WordingInv, WordingTyped, IdsGrow, Stages
<1> QED
  BY <1>2, <1>3 DEF T!MetaRefuses

LEMMA RecordStep ==
  ASSUME WordingInv, NEW r \in Requests, T!Record(r) \/ T!Adopt(r)
  PROVE  WordingInv'
<1> USE CopyFields
<1>1. /\ stage[r] \in {"record", "adopt"} /\ template.there /\ template' = T!Linked(r)
      /\ T!End(r) /\ UNCHANGED <<meta, ids, strayed, crossed>>
  BY DEF T!Record, T!Adopt
<1>2. /\ theirs[r] \in Copies /\ mine[r] \in Rows /\ theirs[r].id <= ids
      /\ template \in Rows /\ template.wording \in Wordings
  BY <1>1 DEF WordingInv, WordingTyped, IdsGrow
<1>3. /\ template' \in Rows /\ template'.wording \in Wordings /\ template'.there
      /\ template'.id = theirs[r].id /\ template'.order = mine[r].wording
      /\ template'.status = theirs[r].status
  BY <1>1, <1>2 DEF T!Linked, Rows, T!Names
<1>4. ASSUME InStep
      PROVE  /\ meta # T!NoCopy => LinkedTo(meta)'
             /\ template'.there /\ template'.id # 0 => template'.order # 0
             /\ template'.there /\ template'.id # 0 /\ template'.id = meta.id
                  => template'.order = meta.wording
  <2>1. stage[r] = "record"
    BY <1>1, <1>4 DEF InStep, Syncs
  <2>2. /\ theirs[r] # T!NoCopy /\ theirs[r].wording = mine[r].wording
        /\ meta # T!NoCopy => meta.id = theirs[r].id
        /\ meta.id = theirs[r].id => meta.wording = theirs[r].wording
    BY <2>1, <1>4 DEF InStep, Submits, StillTheirs
  <2>3. meta # T!NoCopy => LinkedTo(meta)'
    BY <1>1, <1>2, <1>3, <2>2 DEF LinkedTo
  <2> QED
    BY <1>2, <1>3, <2>2, <2>3
<1>5. template'.id <= ids
  BY <1>2, <1>3
<1> QED
  BY <1>1, <1>3, <1>4, <1>5, WriteStep

LEMMA ListCopiesStep ==
  ASSUME WordingInv, NEW r \in Requests, T!ListCopies(r)
  PROVE  WordingInv'
<1>1. stage[r] = "list" /\ UNCHANGED <<template, meta, ids, strayed, crossed>>
  BY DEF T!ListCopies
<1>2. CASE meta = T!NoCopy /\ T!End(r)
  BY <1>1, <1>2, GiveUpStep DEF WordingInv, WordingTyped
<1>3. CASE /\ theirs' = [theirs EXCEPT ![r] = meta] /\ T!Goto(r, "adopt") /\ UNCHANGED mine
  <2>1. ~InStep
    BY <1>1 DEF InStep, Syncs
  <2> QED
    BY <1>1, <1>3, <2>1, GoOnStep
       DEF T!Goto, WordingInv, WordingTyped, IdsGrow, Stages
<1> QED
  BY <1>2, <1>3 DEF T!ListCopies

LEMMA CutShortStep ==
  ASSUME WordingInv, NEW r \in Requests, T!CutShort(r)
  PROVE  WordingInv'
<1>1. stage[r] # "idle" /\ T!End(r) /\ UNCHANGED <<template, meta, ids, crossed>>
      /\ strayed' = (strayed \/ stage[r] = "record")
  BY DEF T!CutShort
<1> QED
  BY <1>1, GiveUpStep DEF WordingInv, WordingTyped

LEMMA SyncReadsStep ==
  ASSUME WordingInv, NEW r \in Requests, T!SyncReads(r)
  PROVE  WordingInv'
<1>1. stage[r] = "sync" /\ UNCHANGED <<template, meta, ids, strayed, crossed>>
  BY DEF T!SyncReads
<1>2. CASE T!End(r)
  BY <1>1, <1>2, GiveUpStep DEF WordingInv, WordingTyped
<1>3. CASE /\ template.there /\ mine' = [mine EXCEPT ![r] = template] /\ T!Goto(r, "write")
           /\ UNCHANGED theirs
  <2>1. stage' = [stage EXCEPT ![r] = "write"]
    BY <1>3 DEF T!Goto
  <2>2. stage'[r] = "write" /\ theirs' = theirs
    BY <1>3, <2>1 DEF WordingInv, WordingTyped
  <2>3. InStep => Submits(r)'
    BY <2>2 DEF Submits
  <2>4. InStep => Syncs(r)'
    <3> SUFFICES ASSUME InStep PROVE Syncs(r)'
      OBVIOUS
    <3>1. /\ theirs[r] = T!NoCopy => meta = T!NoCopy
          /\ theirs[r] # T!NoCopy /\ template.there => template.id = theirs[r].id
      BY <1>1 DEF InStep, Syncs
    <3> QED
      BY <1>1, <2>2, <3>1 DEF Syncs
  <2>5. InStep => StillTheirs(r)'
    BY <1>1, <2>2 DEF InStep, StillTheirs
  <2> QED
    <3>1. "write" \in Stages
      BY DEF Stages
    <3>2. /\ mine' \in [Requests -> Rows] /\ theirs' \in [Requests -> Copies]
          /\ \A q \in Requests : theirs'[q].id <= ids
      BY <1>3 DEF WordingInv, WordingTyped, IdsGrow
    <3>3. \A q \in Requests : /\ stage'[q] \in {"mark", "ask"} => mine'[q].wording \in Wordings
                              /\ stage'[q] = "import" => theirs'[q] # T!NoCopy
      BY <1>3, <2>1 DEF WordingInv, WordingTyped
    <3> QED
      BY <1>1, <2>1, <2>3, <2>4, <2>5, <3>1, <3>2, <3>3, GoOnStep
<1> QED
  BY <1>2, <1>3 DEF T!SyncReads

LEMMA SyncWritesStep ==
  ASSUME WordingInv, NEW r \in Requests, T!SyncWrites(r)
  PROVE  WordingInv'
<1> USE CopyFields
<1>1. stage[r] = "write" /\ T!End(r) /\ UNCHANGED <<meta, ids, strayed, crossed>>
  BY DEF T!SyncWrites
<1>2. CASE UNCHANGED template
  BY <1>1, <1>2, GiveUpStep DEF WordingInv, WordingTyped
<1>3. CASE template.there /\ template' = [template EXCEPT !.status = "DISABLED"]
  <2>1. /\ template' \in Rows /\ template'.id = template.id /\ template'.wording = template.wording
        /\ template'.order = template.order /\ template'.there
    BY <1>3 DEF WordingInv, WordingTyped, Rows, T!Statuses
  <2>2. InStep => (meta # T!NoCopy => LinkedTo(meta)')
    <3>1. InStep => (meta # T!NoCopy => LinkedTo(meta))
      BY <1>1, OthersIdle DEF InStep
    <3> QED
      BY <1>1, <2>1, <3>1 DEF LinkedTo
  <2> QED
    BY <1>1, <1>3, <2>1, <2>2, WriteStep DEF InStep, WordingInv, WordingTyped, IdsGrow
<1>4. CASE template.there /\ theirs[r] # T!NoCopy
           /\ template' = [template EXCEPT !.status = theirs[r].status, !.id = theirs[r].id,
                                           !.name = "own"]
  <2>1. theirs[r] \in Copies /\ theirs[r].id <= ids /\ template \in Rows
    BY DEF WordingInv, WordingTyped, IdsGrow
  <2>2. /\ template' \in Rows /\ template'.id = theirs[r].id /\ template'.there
        /\ template'.wording = template.wording /\ template'.order = template.order
    BY <1>4, <2>1 DEF Rows, T!Names
  <2>3. ASSUME InStep
        PROVE  /\ meta # T!NoCopy => LinkedTo(meta)'
               /\ template'.there /\ template'.id # 0 => template'.order # 0
               /\ template'.there /\ template'.id # 0 /\ template'.id = meta.id
                    => template'.order = meta.wording
    <3>1. template.id = theirs[r].id
      BY <1>1, <1>4, <2>3 DEF InStep, Syncs
    <3>2. meta # T!NoCopy => LinkedTo(meta)
      BY <1>1, <2>3, OthersIdle DEF InStep
    <3>3. meta # T!NoCopy => LinkedTo(meta)'
      BY <1>1, <1>4, <2>1, <2>2, <3>1, <3>2 DEF LinkedTo
    <3> QED
      BY <1>4, <2>1, <2>2, <2>3, <3>1, <3>3 DEF InStep
  <2>4. template'.id <= ids /\ template'.wording \in Wordings
    BY <1>4, <2>1, <2>2 DEF WordingInv, WordingTyped
  <2> QED
    BY <1>1, <2>2, <2>3, <2>4, WriteStep
<1> QED
  BY <1>2, <1>3, <1>4 DEF T!SyncWrites

LEMMA ImportStep ==
  ASSUME WordingInv, NEW r \in Requests, T!Import(r)
  PROVE  WordingInv'
<1> USE CopyFields
<1>1. stage[r] = "import" /\ T!End(r) /\ UNCHANGED <<meta, ids, strayed, crossed>>
  BY DEF T!Import
<1>2. ~InStep
  BY <1>1 DEF InStep, Syncs
<1>3. theirs[r] \in Copies /\ theirs[r] # T!NoCopy /\ theirs[r].id <= ids /\ template \in Rows
  BY <1>1 DEF WordingInv, WordingTyped, IdsGrow
<1>4. CASE template.there
  BY <1>1, <1>4, GiveUpStep DEF T!Import, WordingInv, WordingTyped
<1>5. CASE ~template.there
  <2>1. template' = [there |-> TRUE, id |-> theirs[r].id, name |-> "own",
                     status |-> theirs[r].status, wording |-> theirs[r].wording,
                     order |-> theirs[r].wording]
    BY <1>5 DEF T!Import
  <2>2. /\ template' \in Rows /\ template'.wording \in Wordings /\ template'.id <= ids
    BY <1>3, <2>1 DEF Rows, T!Names
  <2> QED
    BY <1>1, <1>2, <2>2, WriteStep
<1> QED
  BY <1>4, <1>5

\* The salon edits the row, or deletes one that is not linked or says DISABLED.
LEMMA OwnStep ==
  ASSUME WordingInv, T!Delete \/ \E w \in Wordings : T!Edit(w)
  PROVE  WordingInv'
<1>1. /\ UNCHANGED <<meta, ids, stage, mine, theirs, crossed>>
      /\ template.there /\ strayed' \in BOOLEAN /\ (strayed => strayed')
  BY DEF T!Delete, T!Edit, WordingInv, WordingTyped
<1>2. /\ template' \in Rows /\ template'.id = template.id /\ template'.order = template.order
      /\ template'.there => template'.wording \in Wordings
      /\ ~template'.there => strayed' \/ template.id = 0 \/ meta.id # template.id
  <2>1. CASE T!Delete
    BY <2>1 DEF T!Delete, WordingInv, WordingTyped, Rows
  <2>2. ASSUME NEW w \in Wordings, T!Edit(w)
        PROVE  /\ template' \in Rows /\ template'.id = template.id /\ template'.there
               /\ template'.order = template.order /\ template'.wording \in Wordings
    <3>1. PICK status \in T!Statuses, name \in T!Names :
             template' = [template EXCEPT !.wording = w, !.status = status, !.name = name]
      BY <2>2 DEF T!Edit
    <3> QED
      BY <1>1, <3>1 DEF WordingInv, WordingTyped, Rows
  <2> QED
    BY <2>1, <2>2
<1>3. WordingTyped' /\ IdsGrow'
  BY <1>1, <1>2 DEF WordingInv, WordingTyped, IdsGrow
<1>4. ASSUME ~strayed', ~crossed' PROVE InStep'
  <2>1. InStep
    BY <1>1, <1>4 DEF WordingInv
  <2>2. meta # T!NoCopy /\ LinkedTo(meta) => template'.there
    BY <1>2, <1>4, CopyFields DEF LinkedTo, WordingInv, WordingTyped
  <2>3. \A r \in Requests : Submits(r)'
    BY <1>1, <1>2, <2>1 DEF InStep, Submits
  <2>4. \A r \in Requests : Syncs(r)'
    BY <1>1, <1>2, <2>1 DEF InStep, Syncs
  <2>5. \A r \in Requests : StillTheirs(r)'
    BY <1>1, <2>1 DEF InStep, StillTheirs
  <2>6. meta' # T!NoCopy => LinkedTo(meta)' \/ \E r \in Requests : stage'[r] = "record"
    BY <1>1, <1>2, <2>1, <2>2 DEF InStep, LinkedTo
  <2> QED
    BY <1>1, <1>2, <2>1, <2>3, <2>4, <2>5, <2>6 DEF InStep
<1> QED
  BY <1>3, <1>4 DEF WordingInv

LEMMA MetaMovesStep == WordingInv /\ T!MetaMoves => WordingInv'
<1> USE CopyFields
<1> SUFFICES ASSUME WordingInv, T!MetaMoves PROVE WordingInv'
  OBVIOUS
<1>1. meta # T!NoCopy /\ UNCHANGED <<template, ids, stage, mine, theirs, strayed, crossed>>
  BY DEF T!MetaMoves
<1>2. /\ meta' \in Copies
      /\ meta' # T!NoCopy => meta'.id = meta.id /\ meta'.wording = meta.wording
  <2>1. meta \in [id : Nat \ {0}, status : T!Statuses, wording : Wordings]
    BY <1>1 DEF WordingInv, WordingTyped, Copies
  <2>2. \A s \in T!Statuses \ {"DRAFT"} :
           /\ [meta EXCEPT !.status = s] \in Copies
           /\ [meta EXCEPT !.status = s].id = meta.id
           /\ [meta EXCEPT !.status = s].wording = meta.wording
    BY <2>1 DEF Copies
  <2> QED
    BY <2>2 DEF T!MetaMoves
<1>3. WordingTyped' /\ IdsGrow'
  BY <1>1, <1>2 DEF WordingInv, WordingTyped, IdsGrow
<1>4. ASSUME ~strayed', ~crossed' PROVE InStep'
  <2>1. InStep
    BY <1>1, <1>4 DEF WordingInv
  <2>2. \A r \in Requests : Submits(r)' /\ Syncs(r)'
    BY <1>1, <1>2, <2>1 DEF InStep, Submits, Syncs, LinkedTo
  <2>3. \A r \in Requests : StillTheirs(r)'
    <3> SUFFICES ASSUME NEW r \in Requests, stage[r] \in {"record", "sync", "write"},
                        meta'.id = theirs[r].id
                 PROVE  meta'.wording = theirs[r].wording
      BY <1>1 DEF StillTheirs
    <3>1. CASE meta' = T!NoCopy
      BY <3>1 DEF WordingInv, WordingTyped
    <3>2. CASE meta' # T!NoCopy
      BY <1>2, <2>1, <3>2 DEF InStep, StillTheirs
    <3> QED
      BY <3>1, <3>2
  <2>4. meta' # T!NoCopy => LinkedTo(meta)' \/ \E r \in Requests : stage'[r] = "record"
    BY <1>1, <1>2, <2>1 DEF InStep, LinkedTo
  <2>5. template.id # 0 /\ template.id = meta'.id => meta' # T!NoCopy
    OBVIOUS
  <2> QED
    BY <1>1, <1>2, <2>1, <2>2, <2>3, <2>4, <2>5 DEF InStep
<1> QED
  BY <1>3, <1>4 DEF WordingInv

LEMMA MadeByHandStep == WordingInv /\ T!MadeByHand => WordingInv'
<1> USE CopyFields
<1> SUFFICES ASSUME WordingInv, T!MadeByHand PROVE WordingInv'
  OBVIOUS
<1>1. UNCHANGED <<template, stage, mine, theirs, crossed>> /\ strayed' = TRUE /\ ids' = ids + 1
  BY DEF T!MadeByHand
<1>2. PICK w \in Wordings : meta' = [id |-> ids + 1, status |-> "APPROVED", wording |-> w]
  BY DEF T!MadeByHand
<1>3. meta' \in Copies /\ meta'.id = ids + 1
  BY <1>2 DEF WordingInv, WordingTyped, Copies, T!Statuses
<1>4. WordingTyped' /\ IdsGrow'
  BY <1>1, <1>3 DEF WordingInv, WordingTyped, IdsGrow, Rows
<1> QED
  BY <1>1, <1>4 DEF WordingInv

LEMMA WordingNext == WordingInv /\ [T!Next]_T!vars => WordingInv'
<1> SUFFICES ASSUME WordingInv, [T!Next]_T!vars PROVE WordingInv'
  OBVIOUS
<1>1. ASSUME NEW r \in Requests, T!Submit(r) PROVE WordingInv'
  BY <1>1, BeginStep, MarkStep, MetaAcceptsStep, MetaRefusesStep, RecordStep, ListCopiesStep,
     CutShortStep DEF T!Submit
<1>2. ASSUME NEW r \in Requests,
             \/ T!SyncLists(r) \/ T!SyncReads(r) \/ T!SyncWrites(r)
             \/ T!ImportReads(r) \/ T!Import(r)
      PROVE  WordingInv'
  BY <1>2, BeginStep, SyncReadsStep, SyncWritesStep, ImportStep
<1>3. CASE UNCHANGED T!vars
  <2>1. UNCHANGED <<template, meta, ids, stage, mine, theirs, strayed, crossed>>
    BY <1>3 DEF T!vars
  <2>2. WordingTyped' /\ IdsGrow'
    BY <2>1 DEF WordingInv, WordingTyped, IdsGrow
  <2>3. InStep => InStep'
    BY <2>1 DEF InStep, Submits, Syncs, StillTheirs, LinkedTo
  <2> QED
    BY <2>1, <2>2, <2>3 DEF WordingInv
<1> QED
  BY <1>1, <1>2, <1>3, OwnStep, MetaMovesStep, MadeByHandStep DEF T!Next
-----------------------------------------------------------------------------
\* Where a call stands tells what it was charged and may send, and the row, its requests
\* and Meta's copy stay in step, in every state of queueMessage() and of
\* template-meta.service.ts.
THEOREM SendingInvariant == SendingSpec => [](GatesInv /\ WordingInv)
<1>1. SendingInit => GatesInv /\ WordingInv
  BY GatesInit, WordingInit DEF SendingInit
<1>2. GatesInv /\ WordingInv /\ [SendingNext]_<<watched, vars, gates, wording>>
        => (GatesInv /\ WordingInv)'
  <2> SUFFICES ASSUME GatesInv, WordingInv, [SendingNext]_<<watched, vars, gates, wording>>
               PROVE  GatesInv' /\ WordingInv'
    OBVIOUS
  <2>1. [O!Next]_O!vars
    BY DEF SendingNext, gates, O!vars, O!salon, O!call
  <2>2. [T!Next]_T!vars
    BY DEF SendingNext, wording, T!vars
  <2> QED
    BY <2>1, <2>2, GatesNext, WordingNext
<1> QED
  BY <1>1, <1>2, PTL DEF SendingSpec

\* A message is paid for exactly when it is queued, and what is paid for is sent
\* unless the process died on the spot (dispatcher.ts:1037-1109).
THEOREM QueuedIsPaid == SendingSpec => []PaidIffQueued
<1>1. GatesInv => PaidIffQueued
  BY DEF GatesInv, GatesTyped, Charged, PaidIffQueued, O!PaidIffQueued
<1> QED
  BY <1>1, SendingInvariant, PTL

\* What is queued was open to its content, and in the plan, at some moment of the
\* call, on the channel it leaves by (dispatcher.ts:600-896).
THEOREM QueuedIsAllowed == SendingSpec => []AllowedAtSomeMoment
<1>1. GatesInv => AllowedAtSomeMoment
  BY DEF GatesInv, Permitted, MaySend, AllowedAtSomeMoment, O!AllowedAtSomeMoment
<1> QED
  BY <1>1, SendingInvariant, PTL

\* What goes out under the name of a copy Meta holds is in that copy's order, whatever is
\* edited, deleted and submitted again (template-meta.service.ts, submitTemplateToMeta).
THEOREM ValuesAreInMetasOrder == SendingSpec => []ValuesInMetasOrder
<1>1. WordingInv => ValuesInMetasOrder
  <2> SUFFICES ASSUME WordingInv, ~strayed, ~crossed
               PROVE  /\ T!Sendable /\ template.id # 0 /\ meta.id = template.id =>
                            T!SentOrder = meta.wording
                      /\ template.there /\ template.id # 0 => template.order # 0
    BY DEF ValuesInMetasOrder, T!ValuesInMetasOrder
  <2>1. InStep
    BY DEF WordingInv
  <2> QED
    BY <2>1 DEF InStep, T!Sendable, T!SentOrder
<1> QED
  BY <1>1, SendingInvariant, PTL

\* The meter here is Quota, step by step.
LEMMA MeterOfSending == SendingSpec => Spec
<1>1. SendingInit => Init
  BY DEF SendingInit
<1>2. [SendingNext]_<<watched, vars, gates, wording>> => [Next]_vars
  BY DEF SendingNext
<1> QED
  BY <1>1, <1>2, PTL DEF SendingSpec, Spec

\* The meter stays within the plan, the credits and the overdraft, and its books agree, in
\* the system of meter, gates and templates as well (quota.service.ts, consume).
THEOREM MeterInSending == SendingSpec => [](WithinTheMeter /\ BooksAgree)
BY MeterOfSending, MeterHolds, BooksAlwaysAgree, PTL
=============================================================================
