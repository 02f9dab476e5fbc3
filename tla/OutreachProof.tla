---------------------------- MODULE OutreachProof ----------------------------
(***************************************************************************)
(* Proofs about Outreach, for any members, customers, processes and        *)
(* bounds.                                                                 *)
(*                                                                         *)
(* The fan-out of a campaign.  As long as none runs for more than fifteen  *)
(* minutes, a process that fans out is the only one (OneFans).  What it    *)
(* has still to come to has no row (Ahead), and whoever it has come to has *)
(* one, or had no address any more (Behind); a row without its job is the  *)
(* one in hand (InHand).                                                   *)
(*                                                                         *)
(* The sweep.  A stage that is out of date is known to one process at a    *)
(* time, or the customer is muddled (OneKnows), and whether a crossing is  *)
(* one to chase stays true until it is written (UpStays).  Each crossing a *)
(* process keeps answers to one of the times the calendar carried the      *)
(* customer into a wanted stage, and one more such time is left as long as *)
(* the stage she is in is still to be found (Credit).                      *)
(***************************************************************************)
EXTENDS Outreach, FiniteSetTheorems, TLAPS

(* The fan-out *)

Typed ==
    /\ rows \in [Members -> Nat] /\ queued \in [Members -> Nat]
    /\ sends \in [Members -> Nat]
    /\ pc \in [Runners -> {"idle", "claim", "audience", "loop", "enqueue", "attribute", "done"}]
    /\ left \in [Runners -> SUBSET Members]
    /\ messaged \in [Runners -> SUBSET Members]
    /\ at \in [Runners -> SUBSET Members]

OneFans ==
    /\ \A r \in Runners : K!Fanning(r) => job = "RUNNING"
    /\ \A r1, r2 \in Runners : K!Fanning(r1) /\ K!Fanning(r2) => r1 = r2

Looping(r) == pc[r] \in {"loop", "enqueue"}

Ahead == \A r \in Runners : Looping(r) =>
            \A m \in Members : m \in left[r] \ messaged[r] => rows[m] = 0

Behind == \A r \in Runners : Looping(r) =>
            \A m \in Members : /\ m \in messaged[r] => rows[m] > 0
                               /\ m \in left[r] \/ m \in gone \/ rows[m] > 0

InHand == \A r \in Runners : \A m \in at[r] : pc[r] = "enqueue" /\ sends[m] < queued[m]

Reached ==
    /\ \A m \in Members : rows[m] <= 1 /\ sends[m] <= queued[m]
    /\ status = "COMPLETED" /\ ~typed => \A m \in Members : m \in gone \/ rows[m] > 0

FanOutInv == Typed /\ OneFans /\ Ahead /\ Behind /\ InHand /\ Reached
-----------------------------------------------------------------------------
(* The sweep *)

Rows == [customer : Customers, to : 0..Top, up : BOOLEAN]

BookTyped ==
    /\ stage \in [Customers -> 0..Top] /\ clock \in [Customers -> 0..Top]
    /\ roll \in [Customers -> -1..Top]
    /\ due \in [Journeys -> [Customers -> Int]]

NightTyped ==
    /\ night \in [Runners -> {"idle", "write"}]
    /\ crossings \in [Runners -> SUBSET Rows]
    /\ held \in [Runners -> SUBSET Rows]

\* A process has each customer on its list once.
Listed ==
    \A s \in Runners :
        /\ night[s] = "idle" => crossings[s] = {} /\ held[s] = {}
        /\ \A a, b \in crossings[s] \cup held[s] : a.customer = b.customer => a = b

\* Who is to be written by whom.
OneKnows(c) ==
    /\ \A s \in Runners : \A r \in crossings[s] : r.customer = c => roll[c] = -1
    /\ \A s, z \in Runners : \A a \in crossings[s], b \in crossings[z] :
          a.customer = c /\ b.customer = c => s = z

UpStays(c) ==
    \A s \in Runners : \A r \in crossings[s] :
        r.customer = c => (r.up <=> r.to > stage[c] /\ stage[c] # 0)

\* Processes with a crossing of the customer that the journey may take.
Chasing(j, c) ==
    {s \in Runners : \E r \in crossings[s] \cup held[s] :
        r.customer = c /\ r.up /\ r.to \in Wants[j]}

\* The stage she is in is a wanted one, and nobody has found it yet.
Unseen(j, c) ==
    /\ clock[c] \in Wants[j] /\ clock[c] > roll[c]
    /\ \A s \in Runners : \A r \in crossings[s] : r.customer = c => clock[c] # r.to
    /\ c \notin V!Pending => clock[c] > stage[c] /\ stage[c] # 0

Credit(j, c) ==
    /\ Cardinality(Chasing(j, c)) <= due[j][c]
    /\ Unseen(j, c) => Cardinality(Chasing(j, c)) + 1 <= due[j][c]

Told(c) == OneKnows(c) /\ UpStays(c) /\ \A j \in Journeys : Credit(j, c)

CycleInv ==
    /\ BookTyped /\ NightTyped /\ Listed
    /\ \A c \in Customers \ muddled : Told(c)
-----------------------------------------------------------------------------
(* The fan-out, step by step *)

LEMMA FanOutInit == K!Init => FanOutInv
<1> SUFFICES ASSUME K!Init PROVE FanOutInv
  OBVIOUS
<1> USE DEF K!Init
<1>1. Typed
  BY DEF Typed
<1>2. \A r \in Runners : ~K!Fanning(r) /\ ~Looping(r) /\ at[r] = {}
  BY DEF K!Fanning, Looping
<1>3. Reached
  BY DEF Reached
<1> QED
  BY <1>1, <1>2, <1>3 DEF FanOutInv, OneFans, Ahead, Behind, InHand

\* What a request does, or a process that takes the job back, is nothing to a fan-out.
Outside ==
    /\ UNCHANGED <<rows, queued, sends, gone, pc, left, messaged, at>>
    /\ status' = "COMPLETED" /\ ~typed' => status = "COMPLETED" /\ ~typed

\* The run of r is over, one way or another.
Over(r) ==
    /\ UNCHANGED <<status, typed, rows, queued, sends, gone>>
    /\ K!Forget(r)

LEMMA OutsideKeeps == FanOutInv /\ Outside => Typed' /\ Ahead' /\ Behind' /\ InHand' /\ Reached'
BY DEF FanOutInv, Outside, Typed, Ahead, Behind, InHand, Reached, Looping

LEMMA OverKeeps ==
    ASSUME FanOutInv, NEW r \in Runners, Over(r)
    PROVE  Typed' /\ Ahead' /\ Behind' /\ InHand' /\ Reached'
<1> USE DEF Over, K!Forget, K!Goto
<1>1. Typed'
  BY DEF FanOutInv, Typed
<1>2. \A z \in Runners : z # r =>
          pc'[z] = pc[z] /\ left'[z] = left[z] /\ messaged'[z] = messaged[z] /\ at'[z] = at[z]
  BY DEF FanOutInv, Typed
<1>3. pc'[r] = "idle" /\ at'[r] = {}
  BY DEF FanOutInv, Typed
<1>4. Ahead' /\ Behind'
  BY <1>2, <1>3 DEF FanOutInv, Ahead, Behind, Looping
<1>5. InHand' /\ Reached'
  BY <1>2, <1>3 DEF FanOutInv, InHand, Reached
<1> QED
  BY <1>1, <1>4, <1>5

LEMMA ApiOutside == ASSUME NEW a \in Callers, K!Api(a) PROVE Outside
<1> USE DEF K!row, K!log, K!fanOut, K!Call, K!SetStatus, Outside
<1>1. ASSUME K!LaunchReads(a) \/ K!Pause(a) \/ K!EditReads(a) PROVE Outside
  BY <1>1 DEF K!LaunchReads, K!Pause, K!EditReads
<1>2. ASSUME K!CarryOn(a) PROVE Outside
  BY <1>2 DEF K!CarryOn, K!LaunchSchedules, K!LaunchEnqueues, K!EditWrites
<1> QED
  BY <1>1, <1>2 DEF K!Api

LEMMA ReclaimOutside == K!Reclaim => Outside
BY DEF K!Reclaim, K!log, K!fanOut, Outside

LEMMA ReturnOver ==
    ASSUME NEW r \in Runners, K!RunReturns(r) \/ K!RunThrows(r) \/ K!Crash(r)
    PROVE  Over(r)
BY DEF K!RunReturns, K!RunThrows, K!Crash, K!row, K!log, Over

\* The steps of a run, each with what it reads of the log.
LEMMA StartKeeps ==
    ASSUME FanOutInv, NEW r \in Runners,
           K!StartRun(r) \/ K!ClaimCampaign(r) \/ K!EnqueueAttribution(r)
    PROVE  Typed' /\ Ahead' /\ Behind' /\ InHand' /\ Reached'
<1>1. /\ UNCHANGED <<rows, queued, sends, gone, left, messaged, at>>
      /\ status' = "COMPLETED" /\ ~typed' => status = "COMPLETED" /\ ~typed
      /\ pc[r] \notin {"loop", "enqueue"}
      /\ \E step \in {"claim", "audience", "done"} : pc' = [pc EXCEPT ![r] = step]
  BY DEF K!StartRun, K!ClaimCampaign, K!EnqueueAttribution, K!row, K!log, K!Goto, K!SetStatus
<1>2. PICK step \in {"claim", "audience", "done"} : pc' = [pc EXCEPT ![r] = step]
  BY <1>1
<1>3. Typed'
  BY <1>1, <1>2 DEF FanOutInv, Typed
<1>4. \A z \in Runners : Looping(z)' => Looping(z)
  BY <1>2 DEF FanOutInv, Typed, Looping
<1>5. Ahead' /\ Behind' /\ Reached'
  BY <1>1, <1>4 DEF FanOutInv, Ahead, Behind, Reached
<1>6. InHand'
  BY <1>1, <1>2 DEF FanOutInv, Typed, InHand
<1> QED
  BY <1>3, <1>5, <1>6

LEMMA ReadKeeps ==
    ASSUME FanOutInv, NEW r \in Runners, K!ReadAudience(r)
    PROVE  Typed' /\ Ahead' /\ Behind' /\ InHand' /\ Reached'
<1>1. /\ UNCHANGED <<status, typed, rows, queued, sends, gone, at>>
      /\ pc[r] = "audience"
      /\ pc' = [pc EXCEPT ![r] = "loop"]
      /\ left' = [left EXCEPT ![r] = Members]
      /\ messaged' = [messaged EXCEPT ![r] = K!AlreadyMessaged]
  BY DEF K!ReadAudience, K!row, K!log, K!Goto
<1>2. K!AlreadyMessaged = {m \in Members : rows[m] > 0}
  BY DEF K!AlreadyMessaged
<1>3. Typed'
  BY <1>1, <1>2 DEF FanOutInv, Typed
<1>4. \A z \in Runners : z # r =>
          (Looping(z)' <=> Looping(z)) /\ left'[z] = left[z] /\ messaged'[z] = messaged[z]
  BY <1>1 DEF FanOutInv, Typed, Looping
<1>5. left'[r] = Members /\ messaged'[r] = {m \in Members : rows[m] > 0}
  BY <1>1, <1>2 DEF FanOutInv, Typed
<1>6. \A m \in Members : rows[m] = 0 \/ rows[m] > 0
  BY DEF FanOutInv, Typed
<1>7. Ahead' /\ Behind'
  BY <1>1, <1>4, <1>5, <1>6 DEF FanOutInv, Ahead, Behind
<1>8. InHand' /\ Reached'
  BY <1>1 DEF FanOutInv, Typed, InHand, Reached
<1> QED
  BY <1>3, <1>7, <1>8

LEMMA SkipKeeps ==
    ASSUME FanOutInv, NEW r \in Runners, NEW m \in Members, K!SkipMember(r, m)
    PROVE  Typed' /\ Ahead' /\ Behind' /\ InHand' /\ Reached'
<1>1. /\ UNCHANGED <<status, typed, rows, queued, sends, gone, pc, messaged, at>>
      /\ pc[r] = "loop" /\ m \in left[r] \cap messaged[r]
      /\ left' = [left EXCEPT ![r] = left[r] \ {m}]
  BY DEF K!SkipMember, K!row, K!log
<1>2. Typed'
  BY <1>1 DEF FanOutInv, Typed
<1>3. /\ \A z \in Runners : z # r => left'[z] = left[z]
      /\ left'[r] = left[r] \ {m}
  BY <1>1 DEF FanOutInv, Typed
<1>4. Ahead' /\ Behind'
  BY <1>1, <1>3 DEF FanOutInv, Ahead, Behind, Looping
<1>5. InHand' /\ Reached'
  BY <1>1 DEF FanOutInv, InHand, Reached
<1> QED
  BY <1>2, <1>4, <1>5

LEMMA DropKeeps ==
    ASSUME FanOutInv, NEW r \in Runners, NEW m \in Members, K!DropMember(r, m)
    PROVE  Typed' /\ Ahead' /\ Behind' /\ InHand' /\ Reached'
<1>1. /\ UNCHANGED <<status, typed, rows, queued, sends, pc, messaged, at>>
      /\ pc[r] = "loop" /\ m \in left[r] \ messaged[r]
      /\ left' = [left EXCEPT ![r] = left[r] \ {m}]
      /\ gone' = gone \cup {m}
  BY DEF K!DropMember, K!row
<1>2. Typed'
  BY <1>1 DEF FanOutInv, Typed
<1>3. /\ \A z \in Runners : z # r => left'[z] = left[z]
      /\ left'[r] = left[r] \ {m}
  BY <1>1 DEF FanOutInv, Typed
<1>4. Ahead' /\ Behind'
  BY <1>1, <1>3 DEF FanOutInv, Ahead, Behind, Looping
<1>5. InHand' /\ Reached'
  BY <1>1 DEF FanOutInv, InHand, Reached
<1> QED
  BY <1>2, <1>4, <1>5

\* No second row: whoever is ahead has none, and nobody else is looping.
LEMMA WriteKeeps ==
    ASSUME FanOutInv, NEW r \in Runners, NEW m \in Members, K!WriteRow(r, m)
    PROVE  Typed' /\ Ahead' /\ Behind' /\ InHand' /\ Reached'
<1>1. /\ UNCHANGED <<status, typed, sends, gone, messaged>>
      /\ pc[r] = "loop" /\ m \in left[r] \ messaged[r]
      /\ left' = [left EXCEPT ![r] = left[r] \ {m}]
      /\ rows' = [rows EXCEPT ![m] = rows[m] + 1]
      /\ \/ /\ queued' = [queued EXCEPT ![m] = queued[m] + 1]
            /\ at' = [at EXCEPT ![r] = {m}]
            /\ pc' = [pc EXCEPT ![r] = "enqueue"]
         \/ UNCHANGED <<queued, at, pc>>
  BY DEF K!WriteRow, K!row, K!Goto
<1>2. rows[m] = 0 /\ rows[m] + 1 \in Nat /\ queued[m] + 1 \in Nat
  BY <1>1 DEF FanOutInv, Typed, Ahead, Looping
<1>3. Typed'
  BY <1>1, <1>2 DEF FanOutInv, Typed
<1>4. \A z \in Runners : z # r => ~Looping(z) /\ pc'[z] = pc[z] /\ at[z] = {} /\ at'[z] = {}
  <2>1. K!Fanning(r)
    BY <1>1 DEF K!Fanning
  <2>2. \A z \in Runners : z # r => pc[z] = "idle"
    BY <2>1 DEF FanOutInv, OneFans, K!Fanning
  <2> QED
    BY <1>1, <2>2 DEF FanOutInv, Typed, Looping, InHand
<1>5. /\ left'[r] = left[r] \ {m} /\ messaged'[r] = messaged[r]
      /\ rows'[m] = 1 /\ \A n \in Members : n # m => rows'[n] = rows[n]
  BY <1>1, <1>2 DEF FanOutInv, Typed
<1>6. \A n \in Members : rows'[n] > 0 \/ rows'[n] = rows[n]
  BY <1>5
<1>7. Ahead'
  BY <1>1, <1>4, <1>5 DEF FanOutInv, Ahead, Looping
<1>8. Behind'
  <2>1. \A z \in Runners : Looping(z)' => z = r
    BY <1>4 DEF Looping
  <2>2. Looping(r)
    BY <1>1 DEF Looping
  <2> QED
    BY <1>1, <1>5, <1>6, <2>1, <2>2 DEF FanOutInv, Behind
<1>9. \A n \in Members : sends'[n] <= queued'[n]
  BY <1>1, <1>2 DEF FanOutInv, Typed, Reached
<1>10. Reached'
  BY <1>1, <1>5, <1>6, <1>9 DEF FanOutInv, Reached
<1>11. InHand'
  <2>1. CASE queued' = [queued EXCEPT ![m] = queued[m] + 1] /\ at' = [at EXCEPT ![r] = {m}]
               /\ pc' = [pc EXCEPT ![r] = "enqueue"]
    <3>1. sends'[m] < queued'[m]
      BY <1>1, <1>2, <2>1 DEF FanOutInv, Typed, Reached
    <3>2. at'[r] = {m} /\ pc'[r] = "enqueue"
      BY <2>1 DEF FanOutInv, Typed
    <3> QED
      BY <1>4, <3>1, <3>2 DEF InHand
  <2>2. CASE UNCHANGED <<queued, at, pc>>
    BY <1>1, <2>2 DEF FanOutInv, InHand
  <2> QED
    BY <1>1, <2>1, <2>2
<1> QED
  BY <1>3, <1>7, <1>8, <1>10, <1>11

LEMMA EnqueueKeeps ==
    ASSUME FanOutInv, NEW r \in Runners, K!EnqueueSend(r)
    PROVE  Typed' /\ Ahead' /\ Behind' /\ InHand' /\ Reached'
<1>1. /\ UNCHANGED <<status, typed, rows, queued, gone, left, messaged>>
      /\ pc[r] = "enqueue"
      /\ sends' = [m \in Members |-> IF m \in at[r] THEN sends[m] + 1 ELSE sends[m]]
      /\ at' = [at EXCEPT ![r] = {}]
      /\ pc' = [pc EXCEPT ![r] = "loop"]
  BY DEF K!EnqueueSend, K!row, K!Goto
<1>2. Typed'
  <2>1. sends' \in [Members -> Nat]
    BY <1>1 DEF FanOutInv, Typed
  <2> QED
    BY <1>1, <2>1 DEF FanOutInv, Typed
<1>3. \A z \in Runners : Looping(z)' <=> Looping(z)
  BY <1>1 DEF FanOutInv, Typed, Looping
<1>4. Ahead' /\ Behind'
  BY <1>1, <1>3 DEF FanOutInv, Ahead, Behind
<1>5. \A m \in Members : sends'[m] <= queued[m]
  <2> TAKE m \in Members
  <2>1. sends[m] \in Nat /\ queued[m] \in Nat /\ sends[m] <= queued[m]
    BY DEF FanOutInv, Typed, Reached
  <2>2. m \in at[r] => sends[m] < queued[m]
    BY DEF FanOutInv, InHand
  <2> QED
    BY <1>1, <2>1, <2>2
<1>6. Reached'
  BY <1>1, <1>5 DEF FanOutInv, Reached
<1>7. \A z \in Runners : at'[z] = {}
  BY <1>1 DEF FanOutInv, Typed, OneFans, InHand, K!Fanning
<1>8. InHand'
  BY <1>7 DEF InHand
<1> QED
  BY <1>2, <1>4, <1>6, <1>8

LEMMA CompleteKeeps ==
    ASSUME FanOutInv, NEW r \in Runners, K!Complete(r)
    PROVE  Typed' /\ Ahead' /\ Behind' /\ InHand' /\ Reached'
<1>1. /\ UNCHANGED <<rows, queued, sends, gone, left, messaged, at>>
      /\ pc[r] = "loop" /\ left[r] = {}
      /\ pc' = [pc EXCEPT ![r] = "attribute"]
  BY DEF K!Complete, K!log, K!Goto
<1>2. Typed'
  BY <1>1 DEF FanOutInv, Typed
<1>3. \A z \in Runners : Looping(z)' => Looping(z)
  BY <1>1 DEF FanOutInv, Typed, Looping
<1>4. Ahead' /\ Behind'
  BY <1>1, <1>3 DEF FanOutInv, Ahead, Behind
<1>5. \A m \in Members : m \in gone \/ rows[m] > 0
  BY <1>1 DEF FanOutInv, Behind, Looping
<1>6. Reached'
  BY <1>1, <1>5 DEF FanOutInv, Reached
<1>7. InHand'
  BY <1>1 DEF FanOutInv, Typed, InHand
<1> QED
  BY <1>2, <1>4, <1>6, <1>7

\* One process at a time: the job is claimed while it waits, and taken back only from
\* nobody.
LEMMA OneFansKept ==
    ASSUME ~SlowFanOut, Typed, OneFans, K!Next
    PROVE  OneFans'
<1> USE DEF K!Fanning
<1>1. ASSUME NEW a \in Callers, K!Api(a) PROVE OneFans'
  <2>1. pc' = pc
    BY <1>1, ApiOutside DEF Outside
  <2>2. job = "RUNNING" => job' = "RUNNING"
    BY <1>1 DEF K!Api, K!CarryOn, K!LaunchReads, K!Pause, K!EditReads, K!LaunchSchedules,
                K!LaunchEnqueues, K!EditWrites, K!row
  <2> QED
    BY <2>1, <2>2 DEF OneFans
<1>2. ASSUME NEW r \in Runners, K!StartRun(r) PROVE OneFans'
  <2>1. job = "PENDING" /\ job' = "RUNNING" /\ pc' = [pc EXCEPT ![r] = "claim"]
    BY <1>2 DEF K!StartRun, K!Goto
  <2>2. \A z \in Runners : pc[z] = "idle"
    BY <2>1 DEF OneFans
  <2> QED
    BY <2>1, <2>2 DEF OneFans, Typed
<1>3. ASSUME NEW r \in Runners, NEW step, pc[r] # "idle", pc' = [pc EXCEPT ![r] = step], job' = job
      PROVE  OneFans'
  BY <1>3 DEF OneFans, Typed
<1>4. ASSUME NEW r \in Runners, pc[r] # "idle", pc' = [pc EXCEPT ![r] = "idle"] PROVE OneFans'
  BY <1>4 DEF OneFans, Typed
<1>5. ASSUME NEW r \in Runners, K!ClaimCampaign(r) \/ K!ReadAudience(r) \/ K!EnqueueSend(r)
                                \/ K!Complete(r) \/ K!EnqueueAttribution(r)
      PROVE  OneFans'
  <2>1. /\ pc[r] # "idle" /\ job' = job
        /\ \E step \in {"audience", "loop", "attribute", "done"} : pc' = [pc EXCEPT ![r] = step]
    BY <1>5 DEF K!ClaimCampaign, K!ReadAudience, K!EnqueueSend, K!Complete,
                K!EnqueueAttribution, K!Goto, K!row
  <2> QED
    BY <1>3, <2>1
<1>6. ASSUME NEW r \in Runners, NEW m \in Members,
             K!SkipMember(r, m) \/ K!WriteRow(r, m) \/ K!DropMember(r, m)
      PROVE  OneFans'
  <2>1. /\ pc[r] # "idle" /\ job' = job
        /\ pc' = pc \/ pc' = [pc EXCEPT ![r] = "enqueue"]
    BY <1>6 DEF K!SkipMember, K!WriteRow, K!DropMember, K!Goto, K!row
  <2>2. CASE pc' = pc
    BY <2>1, <2>2 DEF OneFans
  <2>3. CASE pc' = [pc EXCEPT ![r] = "enqueue"]
    BY <1>3, <2>1, <2>3
  <2> QED
    BY <2>1, <2>2, <2>3
<1>7. ASSUME NEW r \in Runners, K!RunReturns(r) \/ K!RunThrows(r) \/ K!Crash(r) PROVE OneFans'
  <2>1. pc[r] # "idle" /\ pc' = [pc EXCEPT ![r] = "idle"]
    BY <1>7 DEF K!RunReturns, K!RunThrows, K!Crash, K!Forget, K!Goto
  <2> QED
    BY <1>4, <2>1
<1>8. ASSUME K!Reclaim PROVE OneFans'
  <2>1. pc' = pc /\ \A r \in Runners : pc[r] = "idle"
    BY <1>8 DEF K!Reclaim, K!fanOut
  <2> QED
    BY <2>1 DEF OneFans
<1> QED
  BY <1>1, <1>2, <1>5, <1>6, <1>7, <1>8 DEF K!Next, K!Dispatch

LEMMA FanOutNext ==
    ASSUME ~SlowFanOut, FanOutInv, K!Next \/ UNCHANGED K!vars
    PROVE  FanOutInv'
<1>1. CASE UNCHANGED K!vars
  BY <1>1 DEF FanOutInv, Typed, OneFans, Ahead, Behind, InHand, Reached, Looping, K!Fanning,
              K!vars, K!row, K!log, K!fanOut
<1>2. CASE K!Next
  <2>1. OneFans'
    BY <1>2, OneFansKept DEF FanOutInv
  <2> DEFINE Kept == Typed' /\ Ahead' /\ Behind' /\ InHand' /\ Reached'
  <2>2. ASSUME NEW a \in Callers, K!Api(a) PROVE Kept
    BY <2>2, ApiOutside, OutsideKeeps
  <2>3. ASSUME NEW r \in Runners, K!Dispatch(r) \/ K!Crash(r) PROVE Kept
    BY <2>3, StartKeeps, ReadKeeps, SkipKeeps, DropKeeps, WriteKeeps, EnqueueKeeps,
       CompleteKeeps, ReturnOver, OverKeeps DEF K!Dispatch
  <2>4. ASSUME K!Reclaim PROVE Kept
    BY <2>4, ReclaimOutside, OutsideKeeps
  <2> HIDE DEF Kept
  <2>5. Kept
    BY <1>2, <2>2, <2>3, <2>4 DEF K!Next
  <2> QED
    BY <2>1, <2>5 DEF Kept, FanOutInv
<1> QED
  BY <1>1, <1>2
-----------------------------------------------------------------------------
(* Counting processes and rows *)

LEMMA RunnersCount ==
    ASSUME NEW S \in SUBSET Runners
    PROVE  IsFiniteSet(S) /\ Cardinality(S) \in Nat
BY RunnersAssumption, FS_Subset, FS_CardinalityType

LEMMA FewerRunners ==
    ASSUME NEW T \in SUBSET Runners, NEW S \in SUBSET T
    PROVE  Cardinality(S) <= Cardinality(T)
BY RunnersCount, FS_Subset

LEMMA RunnerLess ==
    ASSUME NEW T \in SUBSET Runners, NEW s \in T, NEW S \in SUBSET (T \ {s})
    PROVE  Cardinality(S) + 1 <= Cardinality(T)
<1>1. Cardinality(T \ {s}) = Cardinality(T) - 1
  BY RunnersCount, FS_RemoveElement
<1>2. Cardinality(S) <= Cardinality(T \ {s})
  BY FewerRunners
<1>3. Cardinality(S) \in Nat /\ Cardinality(T) \in Nat
  BY RunnersCount
<1> QED
  BY <1>1, <1>2, <1>3

LEMMA RunnerMore ==
    ASSUME NEW T \in SUBSET Runners, NEW s \in Runners, NEW S \in SUBSET (T \cup {s})
    PROVE  Cardinality(S) <= Cardinality(T) + 1
<1>1. Cardinality(T \cup {s}) <= Cardinality(T) + 1 /\ IsFiniteSet(T \cup {s})
  BY RunnersCount, FS_AddElement
<1>2. T \cup {s} \in SUBSET Runners
  OBVIOUS
<1>3. Cardinality(S) <= Cardinality(T \cup {s})
  BY <1>2, FewerRunners
<1>4. Cardinality(S) \in Nat /\ Cardinality(T) \in Nat /\ Cardinality(T \cup {s}) \in Nat
  BY <1>2, RunnersCount
<1> QED
  BY <1>1, <1>3, <1>4

LEMMA OneOrNone ==
    ASSUME NEW S, \A a, b \in S : a = b
    PROVE  Cardinality(S) \in {0, 1} /\ (Cardinality(S) = 1 => S # {})
<1>1. CASE S = {}
  BY <1>1, FS_EmptySet
<1>2. CASE S # {}
  <2>1. PICK x \in S : TRUE
    BY <1>2
  <2>2. S = {x}
    BY <2>1
  <2> QED
    BY <1>2, <2>2, FS_Singleton
<1> QED
  BY <1>1, <1>2
-----------------------------------------------------------------------------
(* The sweep, step by step *)

\* Nobody touches the customer.
Same(c) ==
    /\ stage'[c] = stage[c] /\ clock'[c] = clock[c] /\ roll'[c] = roll[c]
    /\ \A s \in Runners : \A r \in Rows : r.customer = c =>
          (r \in crossings'[s] <=> r \in crossings[s]) /\ (r \in held'[s] <=> r \in held[s])
    /\ \A j \in Journeys : due'[j][c] = due[j][c]

LEMMA SameKeeps ==
    ASSUME NightTyped, NightTyped', NEW c \in Customers, Told(c), Same(c)
    PROVE  Told(c)'
<1>1. \A s \in Runners : crossings[s] \subseteq Rows /\ held[s] \subseteq Rows
  BY DEF NightTyped
<1>2. \A s \in Runners : crossings'[s] \subseteq Rows /\ held'[s] \subseteq Rows
  BY DEF NightTyped
<1>3. OneKnows(c)'
  BY <1>2 DEF Told, OneKnows, Same
<1>4. UpStays(c)'
  BY <1>2 DEF Told, UpStays, Same
<1>5. ASSUME NEW j \in Journeys PROVE Credit(j, c)'
  <2>1. Chasing(j, c)' = Chasing(j, c)
    BY <1>1, <1>2 DEF Chasing, Same
  <2>2. Unseen(j, c)' => Unseen(j, c)
    BY <1>1, <1>2 DEF Unseen, V!Pending, Same
  <2> QED
    BY <2>1, <2>2 DEF Told, Credit, Same
<1> QED
  BY <1>3, <1>4, <1>5 DEF Told

LEMMA ToldApart ==
    ASSUME NEW c \in Customers, CycleInv, c \notin muddled
    PROVE  OneKnows(c) /\ UpStays(c) /\ \A j \in Journeys : Credit(j, c)
BY DEF CycleInv, Told

LEMMA ChasingRunners == \A j \in Journeys, c \in Customers : Chasing(j, c) \in SUBSET Runners
BY DEF Chasing

\* The calendar, and a visit.
LEMMA VisitTold ==
    ASSUME CycleInv, NEW d \in Customers, V!Visit(d), NightTyped',
           NEW c \in Customers, c \notin muddled'
    PROVE  Told(c)'
<1>1. /\ UNCHANGED <<stage, roll, crossings, held, due, muddled>>
      /\ clock' = [clock EXCEPT ![d] = 1]
  BY DEF V!Visit, V!tale
<1>2. Told(c)
  BY <1>1 DEF CycleInv
<1>3. CASE c # d
  <2>1. Same(c)
    BY <1>1, <1>3 DEF Same, CycleInv, BookTyped
  <2> QED
    BY <1>2, <2>1, SameKeeps DEF CycleInv
<1>4. CASE c = d
  <2>1. clock'[c] = 1
    BY <1>1, <1>4 DEF CycleInv, BookTyped
  <2>2. OneKnows(c)' /\ UpStays(c)'
    BY <1>1, <1>2 DEF Told, OneKnows, UpStays
  <2>3. \A j \in Journeys : 1 \notin Wants[j]
    BY JourneysAssumption
  <2>4. \A j \in Journeys : ~Unseen(j, c)'
    BY <2>1, <2>3 DEF Unseen
  <2>5. \A j \in Journeys : Chasing(j, c)' = Chasing(j, c)
    BY <1>1 DEF Chasing
  <2> QED
    BY <1>1, <1>2, <2>2, <2>4, <2>5 DEF Told, Credit
<1> QED
  BY <1>3, <1>4

LEMMA PassTold ==
    ASSUME CycleInv, NEW d \in Customers, V!Pass(d), NightTyped',
           NEW c \in Customers, c \notin muddled'
    PROVE  Told(c)'
<1>1. /\ UNCHANGED <<stage, roll, crossings, held, muddled>>
      /\ clock' = [clock EXCEPT ![d] = clock[d] + 1]
      /\ due' = [j \in Journeys |->
            IF clock[d] + 1 \in Wants[j] THEN [due[j] EXCEPT ![d] = due[j][d] + 1] ELSE due[j]]
  BY DEF V!Pass
<1>2. Told(c)
  BY <1>1 DEF CycleInv
<1>3. CASE c # d
  <2>1. \A j \in Journeys : due'[j][c] = due[j][c]
    BY <1>1, <1>3 DEF CycleInv, BookTyped
  <2>2. Same(c)
    BY <1>1, <1>3, <2>1 DEF Same, CycleInv, BookTyped
  <2> QED
    BY <1>2, <2>2, SameKeeps DEF CycleInv
<1>4. CASE c = d
  <2>1. clock'[c] = clock[c] + 1
    BY <1>1, <1>4 DEF CycleInv, BookTyped
  <2>2. OneKnows(c)' /\ UpStays(c)'
    BY <1>1, <1>2 DEF Told, OneKnows, UpStays
  <2>3. ASSUME NEW j \in Journeys PROVE Credit(j, c)'
    <3>1. Chasing(j, c)' = Chasing(j, c)
      BY <1>1 DEF Chasing
    <3>2. due[j][c] \in Int /\ Cardinality(Chasing(j, c)) \in Nat
      BY ChasingRunners, RunnersCount DEF CycleInv, BookTyped
    <3>3. Cardinality(Chasing(j, c)) <= due[j][c]
      BY <1>2 DEF Told, Credit
    <3>4. CASE clock[c] + 1 \in Wants[j]
      <4>1. due'[j][c] = due[j][c] + 1
        BY <1>1, <1>4, <3>4 DEF CycleInv, BookTyped
      <4> QED
        BY <3>1, <3>2, <3>3, <4>1 DEF Credit
    <3>5. CASE clock[c] + 1 \notin Wants[j]
      <4>1. due'[j] = due[j] /\ ~Unseen(j, c)'
        BY <1>1, <1>4, <2>1, <3>5 DEF Unseen
      <4> QED
        BY <3>1, <3>3, <4>1 DEF Credit
    <3> QED
      BY <3>4, <3>5
  <2> QED
    BY <2>2, <2>3 DEF Told
<1> QED
  BY <1>3, <1>4

\* A rollup that is computed has seen the stage; written, it says so.
LEMMA AskTold ==
    ASSUME CycleInv, NEW d \in Customers, V!AskRollup(d), NightTyped',
           NEW c \in Customers, c \notin muddled'
    PROVE  Told(c)'
<1>1. /\ UNCHANGED <<stage, clock, crossings, held, due>>
      /\ \E to \in V!Reckoned(d) : roll' = [roll EXCEPT ![d] = to]
      /\ muddled' = IF d \in V!Pending \cup sameDay THEN muddled \cup {d} ELSE muddled
  BY DEF V!AskRollup
<1>2. Told(c) /\ (c = d => d \notin V!Pending /\ d \notin sameDay)
  BY <1>1 DEF CycleInv
<1>3. CASE c # d
  <2>1. Same(c)
    BY <1>1, <1>3 DEF Same, CycleInv, BookTyped
  <2> QED
    BY <1>2, <2>1, SameKeeps DEF CycleInv
<1>4. CASE c = d
  <2>1. clock[c] \in Int /\ roll'[c] \in Int /\ clock[c] <= roll'[c]
    BY <1>1, <1>2, <1>4, CountsAssumption DEF CycleInv, BookTyped, V!Reckoned
  <2>2. \A s \in Runners : \A r \in crossings[s] : r.customer # c
    BY <1>2, <1>4 DEF V!Pending
  <2>3. OneKnows(c)' /\ UpStays(c)'
    BY <1>1, <2>2 DEF OneKnows, UpStays
  <2>4. \A j \in Journeys : ~Unseen(j, c)'
    BY <1>1, <2>1 DEF Unseen
  <2>5. \A j \in Journeys : Chasing(j, c)' = Chasing(j, c)
    BY <1>1 DEF Chasing
  <2> QED
    BY <1>1, <1>2, <2>3, <2>4, <2>5 DEF Told, Credit
<1> QED
  BY <1>3, <1>4

LEMMA CommitTold ==
    ASSUME CycleInv, NEW d \in Customers, V!CommitRollup(d), NightTyped',
           NEW c \in Customers, c \notin muddled'
    PROVE  Told(c)'
<1>1. /\ UNCHANGED <<clock, crossings, held, due, muddled>>
      /\ roll[d] # -1
      /\ stage' = [stage EXCEPT ![d] = roll[d]]
      /\ roll' = [roll EXCEPT ![d] = -1]
  BY DEF V!CommitRollup, V!tale
<1>2. Told(c)
  BY <1>1 DEF CycleInv
<1>3. CASE c # d
  <2>1. Same(c)
    BY <1>1, <1>3 DEF Same, CycleInv, BookTyped
  <2> QED
    BY <1>2, <2>1, SameKeeps DEF CycleInv
<1>4. CASE c = d
  <2>1. stage'[c] = roll[c] /\ roll'[c] = -1 /\ clock'[c] = clock[c]
    BY <1>1, <1>4 DEF CycleInv, BookTyped
  <2>2. \A s \in Runners : \A r \in crossings[s] : r.customer # c
    BY <1>1, <1>2, <1>4 DEF Told, OneKnows
  <2>3. OneKnows(c)' /\ UpStays(c)'
    BY <1>1, <2>2 DEF OneKnows, UpStays
  <2>4. ASSUME NEW j \in Journeys PROVE Unseen(j, c)' => Unseen(j, c)
    <3>1. c \notin V!Pending' /\ c \in V!Pending
      BY <1>1, <1>4, <2>1, <2>2 DEF V!Pending
    <3>2. clock[c] \in Int /\ roll[c] \in Int
      BY CountsAssumption DEF CycleInv, BookTyped
    <3> QED
      BY <2>1, <2>2, <3>1, <3>2 DEF Unseen
  <2>5. \A j \in Journeys : Chasing(j, c)' = Chasing(j, c)
    BY <1>1 DEF Chasing
  <2> QED
    BY <1>1, <1>2, <2>3, <2>4, <2>5 DEF Told, Credit
<1> QED
  BY <1>3, <1>4

\* A sweep that starts has no row yet; the one it reads has seen the stage, and is one to
\* chase only if nobody had found that stage before.
LEMMA ReadTold ==
    ASSUME CycleInv, NEW z \in Runners, V!ReadRows(z), NightTyped',
           NEW c \in Customers, c \notin muddled'
    PROVE  Told(c)'
<1> DEFINE read == {d \in Customers : V!Moved(d)}
<1>1. /\ UNCHANGED <<stage, clock, roll, held, due>>
      /\ night[z] = "idle"
      /\ crossings' = [crossings EXCEPT ![z] = {V!Crossing(d) : d \in read}]
      /\ muddled' = muddled \cup (read \cap V!Pending)
  BY DEF V!ReadRows, V!book
<1>2. Told(c) /\ (c \in read => c \notin V!Pending)
  BY <1>1 DEF CycleInv
<1>3. /\ crossings'[z] = {V!Crossing(d) : d \in read} /\ crossings[z] = {} /\ held[z] = {}
      /\ \A s \in Runners : s # z => crossings'[s] = crossings[s]
  BY <1>1 DEF CycleInv, NightTyped, Listed
<1>4. \A d \in Customers : V!Crossing(d).customer = d /\ V!Crossing(d).to = clock[d]
                           /\ (V!Crossing(d).up <=> clock[d] > stage[d] /\ stage[d] # 0)
  BY DEF V!Crossing
<1> HIDE DEF read
<1>5. read \subseteq Customers
  BY DEF read
<1>6. CASE c \notin read
  <2>1. \A s \in Runners : \A r \in Rows : r.customer = c =>
            (r \in crossings'[s] <=> r \in crossings[s])
    BY <1>3, <1>4, <1>5, <1>6
  <2>2. Same(c)
    BY <1>1, <2>1 DEF Same
  <2> QED
    BY <1>2, <2>2, SameKeeps DEF CycleInv
<1>7. CASE c \in read
  <2>1. /\ roll[c] = -1
        /\ \A s \in Runners : \A r \in crossings[s] : r.customer # c
    BY <1>2, <1>7 DEF V!Pending
  <2>2. \A s \in Runners : \A r \in crossings'[s] : r.customer = c => s = z /\ r = V!Crossing(c)
    BY <1>3, <1>4, <1>5, <2>1
  <2>3. OneKnows(c)'
    BY <1>1, <2>1, <2>2 DEF OneKnows
  <2>4. UpStays(c)'
    BY <1>1, <1>4, <2>2 DEF UpStays
  <2>5. V!Crossing(c) \in crossings'[z]
    BY <1>3, <1>7
  <2>6. ASSUME NEW j \in Journeys PROVE Credit(j, c)'
    <3>1. ~Unseen(j, c)'
      BY <1>1, <1>4, <2>5 DEF Unseen
    <3>2. Credit(j, c) /\ due'[j][c] = due[j][c]
      BY <1>1, <1>2 DEF Told
    <3>3. Chasing(j, c) \in SUBSET Runners /\ Chasing(j, c)' \in SUBSET Runners
      BY DEF Chasing
    <3>4. Cardinality(Chasing(j, c)') \in Nat /\ Cardinality(Chasing(j, c)) \in Nat
          /\ due[j][c] \in Int
      BY <3>3, RunnersCount DEF CycleInv, BookTyped
    <3>5. CASE clock[c] > stage[c] /\ stage[c] # 0 /\ clock[c] \in Wants[j]
      <4>1. clock[c] > roll[c]
        BY <2>1, CountsAssumption DEF CycleInv, BookTyped
      <4>2. Unseen(j, c)
        BY <2>1, <3>5, <4>1 DEF Unseen
      <4>3. Chasing(j, c)' \in SUBSET (Chasing(j, c) \cup {z})
        BY <1>1, <1>3 DEF Chasing
      <4>4. Cardinality(Chasing(j, c)') <= Cardinality(Chasing(j, c)) + 1
        BY <3>3, <4>3, RunnerMore
      <4> QED
        BY <3>1, <3>2, <3>4, <4>2, <4>4 DEF Credit
    <3>6. CASE ~(clock[c] > stage[c] /\ stage[c] # 0 /\ clock[c] \in Wants[j])
      <4>1. Chasing(j, c)' \in SUBSET Chasing(j, c)
        BY <1>1, <1>3, <1>4, <2>2, <3>6 DEF Chasing
      <4>2. Cardinality(Chasing(j, c)') <= Cardinality(Chasing(j, c))
        BY <3>3, <4>1, FewerRunners
      <4> QED
        BY <3>1, <3>2, <3>4, <4>2 DEF Credit
    <3> QED
      BY <3>5, <3>6
  <2> QED
    BY <2>3, <2>4, <2>6 DEF Told
<1> QED
  BY <1>6, <1>7

\* A row that is taken goes to the crossings that are kept, or nowhere.
LEMMA TookFacts ==
    ASSUME CycleInv, NEW z \in Runners, NEW r, V!Took(z, r)
    PROVE  /\ UNCHANGED <<clock, roll, due>> /\ r \in crossings[z] /\ r \in Rows
           /\ crossings'[z] = crossings[z] \ {r}
           /\ held'[z] = held[z] \/ held'[z] = held[z] \cup {r}
           /\ \A s \in Runners : s # z => crossings'[s] = crossings[s] /\ held'[s] = held[s]
BY DEF V!Took, CycleInv, NightTyped

LEMMA TookOthers ==
    ASSUME CycleInv, NightTyped', NEW z \in Runners, NEW r, V!Took(z, r),
           stage' = stage \/ stage' = [stage EXCEPT ![r.customer] = r.to],
           NEW c \in Customers, c \notin muddled, c # r.customer
    PROVE  Told(c)'
<1>1. stage'[c] = stage[c]
  BY DEF CycleInv, BookTyped
<1>2. \A s \in Runners : \A b \in Rows : b.customer = c =>
          (b \in crossings'[s] <=> b \in crossings[s]) /\ (b \in held'[s] <=> b \in held[s])
  BY TookFacts
<1>3. Same(c)
  BY <1>1, <1>2, TookFacts DEF Same
<1> QED
  BY <1>3, SameKeeps DEF CycleInv

LEMMA WriteTold ==
    ASSUME CycleInv, NEW z \in Runners, NEW r, V!WriteStage(z, r), NightTyped',
           NEW c \in Customers, c \notin muddled'
    PROVE  Told(c)'
<1>1. V!Took(z, r) /\ stage' = [stage EXCEPT ![r.customer] = r.to] /\ c \notin muddled
  BY DEF V!WriteStage
<1>2. CASE c # r.customer
  BY <1>1, <1>2, TookOthers
<1>3. CASE c = r.customer
  <2>1. Told(c)
    BY <1>1 DEF CycleInv
  <2>2. /\ stage'[c] = r.to /\ clock'[c] = clock[c] /\ roll'[c] = roll[c]
        /\ \A j \in Journeys : due'[j][c] = due[j][c]
    BY <1>1, <1>3, TookFacts DEF CycleInv, BookTyped
  <2>3. r \in crossings[z] /\ roll[c] = -1
    BY <1>1, <1>3, <2>1, TookFacts DEF Told, OneKnows
  <2>4. \A s \in Runners : \A b \in crossings[s] : b.customer = c => s = z /\ b = r
    BY <1>3, <2>1, <2>3 DEF Told, OneKnows, CycleInv, Listed
  <2>5. \A s \in Runners : \A b \in crossings'[s] : b.customer # c
    BY <1>1, <2>4, TookFacts
  <2>6. OneKnows(c)' /\ UpStays(c)'
    BY <2>5 DEF OneKnows, UpStays
  <2>7. ASSUME NEW j \in Journeys PROVE Credit(j, c)'
    <3>1. Chasing(j, c)' \in SUBSET Chasing(j, c)
      BY <1>1, <2>3, TookFacts DEF Chasing
    <3>2. Cardinality(Chasing(j, c)') <= Cardinality(Chasing(j, c))
      BY <3>1, ChasingRunners, FewerRunners
    <3>3. Unseen(j, c)' => Unseen(j, c)
      <4>1. c \notin V!Pending'
        BY <2>2, <2>3, <2>5 DEF V!Pending
      <4>2. c \in V!Pending
        BY <1>3, <2>3 DEF V!Pending
      <4>3. clock[c] \in Int /\ r.to \in Int
        BY <1>1, TookFacts, CountsAssumption DEF CycleInv, BookTyped, Rows
      <4> QED
        BY <2>2, <2>4, <4>1, <4>2, <4>3 DEF Unseen
    <3>4. /\ Cardinality(Chasing(j, c)') \in Nat /\ Cardinality(Chasing(j, c)) \in Nat
          /\ due[j][c] \in Int
      <4>1. Chasing(j, c)' \in SUBSET Runners
        BY DEF Chasing
      <4> QED
        BY <4>1, ChasingRunners, RunnersCount DEF CycleInv, BookTyped
    <3> QED
      BY <2>1, <2>2, <3>2, <3>3, <3>4 DEF Told, Credit
  <2> QED
    BY <2>6, <2>7 DEF Told
<1> QED
  BY <1>2, <1>3

LEMMA FailTold ==
    ASSUME CycleInv, NEW z \in Runners, NEW r, V!WriteFails(z, r), NightTyped',
           NEW c \in Customers, c \notin muddled'
    PROVE  Told(c)'
<1>1. V!Took(z, r) /\ stage' = stage /\ c \notin muddled /\ c # r.customer
  BY DEF V!WriteFails
<1> QED
  BY <1>1, TookOthers

\* Each journey is asked once for each crossing it is given, and that crossing is gone.
LEMMA DispatchTold ==
    ASSUME CycleInv, NEW z \in Runners, V!DispatchVisitDue(z), NightTyped',
           NEW c \in Customers, c \notin muddled'
    PROVE  Told(c)'
<1>1. /\ UNCHANGED <<stage, clock, roll, crossings, muddled>>
      /\ crossings[z] = {} /\ held' = [held EXCEPT ![z] = {}]
  BY DEF V!DispatchVisitDue, V!book
<1>2. PICK pick \in [Journeys -> SUBSET held[z]] :
          /\ \A j \in Journeys : pick[j] \in V!Chosen(z, j)
          /\ due' = [j \in Journeys |-> [d \in Customers |->
                IF d \in muddled THEN 0
                ELSE due[j][d] - V!Cardinality({r \in pick[j] : r.customer = d})]]
  BY DEF V!DispatchVisitDue
<1>3. Told(c)
  BY <1>1 DEF CycleInv
<1>4. OneKnows(c)' /\ UpStays(c)'
  BY <1>1, <1>3 DEF Told, OneKnows, UpStays
<1>5. held'[z] = {} /\ \A s \in Runners : s # z => held'[s] = held[s]
  BY <1>1 DEF CycleInv, NightTyped
<1>6. ASSUME NEW j \in Journeys PROVE Credit(j, c)'
  <2> DEFINE mine == {r \in pick[j] : r.customer = c}
  <2>1. pick[j] \subseteq V!Eligible(z, j)
    BY <1>2 DEF V!Chosen
  <2>2. \A r \in mine : r \in held[z] /\ r.customer = c /\ r.up /\ r.to \in Wants[j]
    BY <2>1 DEF V!Eligible
  <2>3. due'[j][c] = due[j][c] - Cardinality(mine)
    BY <1>1, <1>2 DEF V!Cardinality, Cardinality
  <2> HIDE DEF mine
  <2>4. \A a, b \in mine : a = b
    BY <2>2 DEF CycleInv, Listed
  <2>5. Cardinality(mine) \in {0, 1} /\ (Cardinality(mine) = 1 => mine # {})
    BY <2>4, OneOrNone
  <2>6. Chasing(j, c)' \in SUBSET (Chasing(j, c) \ {z})
    BY <1>1, <1>5 DEF Chasing
  <2>7. Unseen(j, c)' => Unseen(j, c)
    BY <1>1 DEF Unseen, V!Pending
  <2>8. /\ Cardinality(Chasing(j, c)') \in Nat /\ Cardinality(Chasing(j, c)) \in Nat
        /\ due[j][c] \in Int
    <3>1. Chasing(j, c)' \in SUBSET Runners
      BY DEF Chasing
    <3> QED
      BY <3>1, ChasingRunners, RunnersCount DEF CycleInv, BookTyped
  <2>9. Credit(j, c)
    BY <1>3 DEF Told
  <2>10. CASE mine = {}
    <3>1. Cardinality(Chasing(j, c)') <= Cardinality(Chasing(j, c))
      BY <2>6, ChasingRunners, FewerRunners
    <3> QED
      BY <2>3, <2>5, <2>7, <2>8, <2>9, <2>10, <3>1 DEF Credit
  <2>11. CASE mine # {}
    <3>1. z \in Chasing(j, c)
      BY <2>2, <2>11 DEF Chasing
    <3>2. Cardinality(Chasing(j, c)') + 1 <= Cardinality(Chasing(j, c))
      BY <2>6, <3>1, ChasingRunners, RunnerLess
    <3> QED
      BY <2>3, <2>5, <2>7, <2>8, <2>9, <3>2 DEF Credit
  <2> QED
    BY <2>10, <2>11
<1> QED
  BY <1>4, <1>6 DEF Told

\* A sweep that dies forgets what it had found: the stage is unseen again, and the
\* crossing that was to be chased leaves its credit.
LEMMA CrashTold ==
    ASSUME CycleInv, NEW z \in Runners, V!Crash(z), NightTyped',
           NEW c \in Customers, c \notin muddled'
    PROVE  Told(c)'
<1>1. /\ UNCHANGED <<stage, clock, roll, due, muddled>>
      /\ crossings' = [crossings EXCEPT ![z] = {}] /\ held' = [held EXCEPT ![z] = {}]
  BY DEF V!Crash, V!book, V!tale
<1>2. Told(c)
  BY <1>1 DEF CycleInv
<1>3. /\ crossings'[z] = {} /\ held'[z] = {}
      /\ \A s \in Runners : s # z => crossings'[s] = crossings[s] /\ held'[s] = held[s]
  BY <1>1 DEF CycleInv, NightTyped
<1>4. OneKnows(c)'
  BY <1>1, <1>2, <1>3 DEF Told, OneKnows
<1>5. UpStays(c)'
  BY <1>1, <1>2, <1>3 DEF Told, UpStays
<1>6. ASSUME NEW j \in Journeys PROVE Credit(j, c)'
  <2>1. Chasing(j, c)' \in SUBSET (Chasing(j, c) \ {z})
    BY <1>3 DEF Chasing
  <2>2. /\ Cardinality(Chasing(j, c)') \in Nat /\ Cardinality(Chasing(j, c)) \in Nat
        /\ due[j][c] \in Int
    <3>1. Chasing(j, c)' \in SUBSET Runners
      BY DEF Chasing
    <3> QED
      BY <3>1, ChasingRunners, RunnersCount DEF CycleInv, BookTyped
  <2>3. Credit(j, c) /\ due'[j][c] = due[j][c]
    BY <1>1, <1>2 DEF Told
  <2>4. Cardinality(Chasing(j, c)') <= Cardinality(Chasing(j, c))
    BY <2>1, ChasingRunners, FewerRunners
  <2>5. CASE \E r \in crossings[z] : r.customer = c /\ r.to = clock[c] /\ Unseen(j, c)'
    <3>1. PICK r \in crossings[z] : r.customer = c /\ r.to = clock[c]
      BY <2>5
    <3>2. roll[c] = -1 /\ \A s \in Runners : \A b \in crossings[s] : b.customer = c => s = z
      BY <1>2, <3>1 DEF Told, OneKnows
    <3>3. c \notin V!Pending'
      BY <1>1, <1>3, <3>2 DEF V!Pending
    <3>4. clock[c] > stage[c] /\ stage[c] # 0 /\ clock[c] \in Wants[j]
      BY <1>1, <2>5, <3>3 DEF Unseen
    <3>5. r.up
      BY <1>2, <3>1, <3>4 DEF Told, UpStays
    <3>6. z \in Chasing(j, c)
      BY <3>1, <3>4, <3>5 DEF Chasing
    <3>7. Cardinality(Chasing(j, c)') + 1 <= Cardinality(Chasing(j, c))
      BY <2>1, <3>6, ChasingRunners, RunnerLess
    <3> QED
      BY <2>2, <2>3, <3>7 DEF Credit
  <2>6. CASE ~\E r \in crossings[z] : r.customer = c /\ r.to = clock[c] /\ Unseen(j, c)'
    <3>1. Unseen(j, c)' => Unseen(j, c)
      <4> SUFFICES ASSUME Unseen(j, c)' PROVE Unseen(j, c)
        OBVIOUS
      <4>1. clock[c] \in Wants[j] /\ clock[c] > roll[c]
        BY <1>1 DEF Unseen
      <4>2. \A s \in Runners : \A r \in crossings[s] : r.customer = c => clock[c] # r.to
        BY <1>1, <1>3, <2>6 DEF Unseen
      <4>3. c \notin V!Pending => c \notin V!Pending'
        BY <1>1, <1>3 DEF V!Pending
      <4> QED
        BY <1>1, <4>1, <4>2, <4>3 DEF Unseen
    <3> QED
      BY <2>2, <2>3, <2>4, <3>1 DEF Credit
  <2> QED
    BY <2>5, <2>6
<1> QED
  BY <1>4, <1>5, <1>6 DEF Told

LEMMA QuietTold ==
    ASSUME CycleInv, NightTyped',
           UNCHANGED <<stage, clock, roll, crossings, held, due, muddled>>,
           NEW c \in Customers, c \notin muddled'
    PROVE  Told(c)'
<1>1. Told(c)
  BY DEF CycleInv
<1>2. Same(c)
  BY DEF Same
<1> QED
  BY <1>1, <1>2, SameKeeps DEF CycleInv
-----------------------------------------------------------------------------
(* What the sweep's columns hold *)

LEMMA CrossingIsRow ==
    ASSUME BookTyped, NEW c \in Customers PROVE V!Crossing(c) \in Rows
BY DEF BookTyped, V!Crossing, Rows

LEMMA BookTypedKept == CycleInv /\ V!Next => BookTyped'
<1> SUFFICES ASSUME CycleInv, V!Next PROVE BookTyped'
  OBVIOUS
<1> USE CountsAssumption
<1>0. BookTyped
  BY DEF CycleInv
<1>1. ASSUME NEW c \in Customers, V!Visit(c) PROVE BookTyped'
  BY <1>0, <1>1 DEF BookTyped, V!Visit, V!tale
<1>2. ASSUME NEW c \in Customers, V!Pass(c) PROVE BookTyped'
  <2>1. clock[c] + 1 \in 0..Top
    BY <1>0, <1>2 DEF BookTyped, V!Pass
  <2>2. due' \in [Journeys -> [Customers -> Int]]
    BY <1>0, <1>2 DEF BookTyped, V!Pass
  <2> QED
    BY <1>0, <1>2, <2>1, <2>2 DEF BookTyped, V!Pass
<1>3. ASSUME NEW c \in Customers, V!AskRollup(c) \/ V!CommitRollup(c) PROVE BookTyped'
  <2>1. CASE V!AskRollup(c)
    <3>1. PICK to \in V!Reckoned(c) : roll' = [roll EXCEPT ![c] = to]
      BY <2>1 DEF V!AskRollup
    <3>2. clock[c] \in 0..Top
      BY <1>0 DEF BookTyped
    <3>3. to \in -1..Top
      BY <3>2 DEF V!Reckoned
    <3> QED
      BY <1>0, <2>1, <3>1, <3>3 DEF BookTyped, V!AskRollup
  <2>2. CASE V!CommitRollup(c)
    <3>1. roll[c] \in 0..Top /\ -1 \in -1..Top
      BY <1>0, <2>2 DEF BookTyped, V!CommitRollup
    <3> QED
      BY <1>0, <2>2, <3>1 DEF BookTyped, V!CommitRollup, V!tale
  <2> QED
    BY <1>3, <2>1, <2>2
<1>4. ASSUME NEW s \in Runners, V!ReadRows(s) \/ V!Crash(s) PROVE BookTyped'
  BY <1>0, <1>4 DEF BookTyped, V!ReadRows, V!Crash, V!book, V!tale
<1>5. ASSUME NEW s \in Runners, V!DispatchVisitDue(s) PROVE BookTyped'
  <2>1. PICK pick \in [Journeys -> SUBSET held[s]] :
            /\ \A j \in Journeys : pick[j] \in V!Chosen(s, j)
            /\ due' = [j \in Journeys |-> [d \in Customers |->
                  IF d \in muddled THEN 0
                  ELSE due[j][d] - V!Cardinality({r \in pick[j] : r.customer = d})]]
    BY <1>5 DEF V!DispatchVisitDue
  <2>2. ASSUME NEW j \in Journeys, NEW d \in Customers
        PROVE  due[j][d] - V!Cardinality({r \in pick[j] : r.customer = d}) \in Int
    <3> DEFINE mine == {r \in pick[j] : r.customer = d}
    <3>1. \A a, b \in mine : a = b
      BY DEF CycleInv, Listed
    <3> HIDE DEF mine
    <3>2. Cardinality(mine) \in {0, 1}
      BY <3>1, OneOrNone
    <3>3. V!Cardinality(mine) \in {0, 1}
      BY <3>2 DEF V!Cardinality, Cardinality
    <3> QED
      BY <1>0, <3>3 DEF BookTyped, mine
  <2>3. due' \in [Journeys -> [Customers -> Int]]
    BY <2>1, <2>2
  <2> QED
    BY <1>0, <1>5, <2>3 DEF BookTyped, V!DispatchVisitDue, V!book
<1>6. ASSUME NEW s \in Runners, NEW r \in crossings[s], V!WriteStage(s, r) \/ V!WriteFails(s, r)
      PROVE  BookTyped'
  <2>1. /\ UNCHANGED <<clock, roll, due>>
        /\ stage' = stage \/ stage' = [stage EXCEPT ![r.customer] = r.to]
    BY <1>6 DEF V!WriteStage, V!WriteFails, V!Took
  <2>2. r.to \in 0..Top
    BY DEF CycleInv, NightTyped, Rows
  <2> QED
    BY <1>0, <2>1, <2>2 DEF BookTyped
<1>7. ASSUME NEW ask \in asks, V!TriggerJourney(ask) PROVE BookTyped'
  BY <1>0, <1>7 DEF BookTyped, V!TriggerJourney, V!book
<1> QED
  BY <1>1, <1>2, <1>3, <1>4, <1>5, <1>6, <1>7 DEF V!Next, V!Sweep

\* What a sweep does to its list.
Relists(s) ==
    \/ UNCHANGED <<night, crossings, held>>
    \/ /\ night[s] = "idle"
       /\ \E read \in SUBSET Customers : crossings' = [crossings EXCEPT ![s] = {V!Crossing(c) : c \in read}]
       /\ night' = [night EXCEPT ![s] = "write"] /\ held' = held
    \/ \E r \in crossings[s] : V!Took(s, r)
    \/ /\ crossings[s] = {} \/ crossings' = [crossings EXCEPT ![s] = {}]
       /\ crossings' = crossings \/ crossings' = [crossings EXCEPT ![s] = {}]
       /\ held' = [held EXCEPT ![s] = {}]
       /\ night' = [night EXCEPT ![s] = "idle"]

LEMMA ListsKept ==
    ASSUME CycleInv, NEW s \in Runners, Relists(s)
    PROVE  NightTyped' /\ Listed'
<1>0. NightTyped /\ Listed /\ BookTyped
  BY DEF CycleInv
<1>1. CASE UNCHANGED <<night, crossings, held>>
  BY <1>0, <1>1 DEF NightTyped, Listed
<1>2. CASE /\ night[s] = "idle"
           /\ \E read \in SUBSET Customers :
                 crossings' = [crossings EXCEPT ![s] = {V!Crossing(c) : c \in read}]
           /\ night' = [night EXCEPT ![s] = "write"] /\ held' = held
  <2>1. PICK read \in SUBSET Customers :
            crossings' = [crossings EXCEPT ![s] = {V!Crossing(c) : c \in read}]
    BY <1>2
  <2> DEFINE list == {V!Crossing(c) : c \in read}
  <2>2. list \subseteq Rows
    BY <1>0, CrossingIsRow
  <2>3. \A a, b \in list : a.customer = b.customer => a = b
    BY DEF V!Crossing
  <2>4. crossings' = [crossings EXCEPT ![s] = list]
    BY <2>1
  <2> HIDE DEF list
  <2>5. NightTyped'
    BY <1>0, <1>2, <2>2, <2>4 DEF NightTyped
  <2>6. held'[s] = {} /\ crossings'[s] = list /\ night'[s] = "write"
    BY <1>0, <1>2, <2>4 DEF NightTyped, Listed
  <2>7. \A z \in Runners : z # s =>
            night'[z] = night[z] /\ crossings'[z] = crossings[z] /\ held'[z] = held[z]
    BY <1>0, <1>2, <2>4 DEF NightTyped
  <2>8. Listed'
    BY <1>0, <2>3, <2>6, <2>7 DEF Listed
  <2> QED
    BY <2>5, <2>8
<1>3. ASSUME NEW r \in crossings[s], V!Took(s, r) PROVE NightTyped' /\ Listed'
  <2>1. /\ night' = night /\ night[s] = "write"
        /\ crossings' = [crossings EXCEPT ![s] = crossings[s] \ {r}]
        /\ held' = held \/ held' = [held EXCEPT ![s] = held[s] \cup {r}]
    BY <1>3 DEF V!Took
  <2>2. NightTyped'
    BY <1>0, <2>1 DEF NightTyped
  <2>3. /\ crossings'[s] \cup held'[s] \subseteq crossings[s] \cup held[s]
        /\ night'[s] = "write"
    BY <1>0, <2>1 DEF NightTyped
  <2>4. \A z \in Runners : z # s =>
            night'[z] = night[z] /\ crossings'[z] = crossings[z] /\ held'[z] = held[z]
    BY <1>0, <2>1 DEF NightTyped
  <2>5. Listed'
    BY <1>0, <2>3, <2>4 DEF Listed
  <2> QED
    BY <2>2, <2>5
<1>4. CASE /\ crossings[s] = {} \/ crossings' = [crossings EXCEPT ![s] = {}]
           /\ crossings' = crossings \/ crossings' = [crossings EXCEPT ![s] = {}]
           /\ held' = [held EXCEPT ![s] = {}]
           /\ night' = [night EXCEPT ![s] = "idle"]
  <2>1. NightTyped'
    BY <1>0, <1>4 DEF NightTyped
  <2>2. crossings'[s] = {} /\ held'[s] = {}
    BY <1>0, <1>4 DEF NightTyped
  <2>3. \A z \in Runners : z # s =>
            night'[z] = night[z] /\ crossings'[z] = crossings[z] /\ held'[z] = held[z]
    BY <1>0, <1>4 DEF NightTyped
  <2>4. Listed'
    BY <1>0, <2>2, <2>3 DEF Listed
  <2> QED
    BY <2>1, <2>4
<1> QED
  BY <1>1, <1>2, <1>3, <1>4 DEF Relists

LEMMA SweepRelists == ASSUME NEW s \in Runners, V!Sweep(s) PROVE Relists(s)
<1>1. ASSUME V!ReadRows(s) PROVE Relists(s)
  <2>1. {c \in Customers : V!Moved(c)} \in SUBSET Customers
    OBVIOUS
  <2> QED
    BY <1>1, <2>1 DEF V!ReadRows, Relists
<1>2. ASSUME V!DispatchVisitDue(s) PROVE Relists(s)
  BY <1>2 DEF V!DispatchVisitDue, Relists
<1>3. ASSUME V!Crash(s) PROVE Relists(s)
  BY <1>3 DEF V!Crash, Relists
<1>4. ASSUME NEW r \in crossings[s], V!WriteStage(s, r) \/ V!WriteFails(s, r) PROVE Relists(s)
  BY <1>4 DEF V!WriteStage, V!WriteFails, Relists
<1> QED
  BY <1>1, <1>2, <1>3, <1>4 DEF V!Sweep

LEMMA CycleInit == V!Init => CycleInv
<1> SUFFICES ASSUME V!Init PROVE CycleInv
  OBVIOUS
<1>1. /\ stage = [c \in Customers |-> 0] /\ roll = [c \in Customers |-> -1]
      /\ clock \in [Customers -> {0, 1}]
      /\ due = [j \in Journeys |-> [c \in Customers |-> 0]]
      /\ night = [s \in Runners |-> "idle"]
      /\ crossings = [s \in Runners |-> {}] /\ held = [s \in Runners |-> {}]
  BY DEF V!Init
<1>2. BookTyped
  <2>1. 0 \in 0..Top /\ 1 \in 0..Top /\ -1 \in -1..Top
    BY CountsAssumption
  <2> QED
    BY <1>1, <2>1 DEF BookTyped
<1>3. NightTyped /\ Listed
  BY <1>1 DEF NightTyped, Listed
<1>4. ASSUME NEW c \in Customers PROVE Told(c)
  <2>1. OneKnows(c) /\ UpStays(c)
    BY <1>1 DEF OneKnows, UpStays
  <2>2. ASSUME NEW j \in Journeys PROVE Credit(j, c)
    <3>1. Chasing(j, c) = {} /\ due[j][c] = 0
      BY <1>1 DEF Chasing
    <3>2. clock[c] \notin Wants[j]
      BY <1>1, JourneysAssumption
    <3> QED
      BY <3>1, <3>2, FS_EmptySet DEF Credit, Unseen
  <2> QED
    BY <2>1, <2>2 DEF Told
<1> QED
  BY <1>2, <1>3, <1>4 DEF CycleInv

LEMMA CycleNext ==
    ASSUME CycleInv, V!Next \/ UNCHANGED V!vars
    PROVE  CycleInv'
<1>1. CASE UNCHANGED V!vars
  <2>1. UNCHANGED <<stage, clock, roll, night, crossings, held, due, muddled>>
    BY <1>1 DEF V!vars, V!book, V!tale
  <2>2. BookTyped' /\ NightTyped' /\ Listed'
    BY <2>1 DEF CycleInv, BookTyped, NightTyped, Listed
  <2> QED
    BY <2>1, <2>2, QuietTold DEF CycleInv
<1>2. CASE V!Next
  <2>1. BookTyped'
    BY <1>2, BookTypedKept
  <2>2. ASSUME NEW c \in Customers, V!Visit(c) \/ V!Pass(c) \/ V!AskRollup(c) \/ V!CommitRollup(c)
        PROVE  CycleInv'
    <3>1. UNCHANGED <<night, crossings, held>>
      BY <2>2 DEF V!Visit, V!Pass, V!AskRollup, V!CommitRollup
    <3>2. NightTyped' /\ Listed'
      BY <3>1 DEF CycleInv, NightTyped, Listed
    <3> QED
      BY <2>1, <2>2, <3>2, VisitTold, PassTold, AskTold, CommitTold DEF CycleInv
  <2>3. ASSUME NEW s \in Runners, V!Sweep(s) PROVE CycleInv'
    <3>1. NightTyped' /\ Listed'
      BY <2>3, SweepRelists, ListsKept
    <3>2. ASSUME NEW c \in Customers, c \notin muddled' PROVE Told(c)'
      <4>1. CASE V!ReadRows(s)
        BY <3>1, <3>2, <4>1, ReadTold
      <4>2. CASE V!DispatchVisitDue(s)
        BY <3>1, <3>2, <4>2, DispatchTold
      <4>3. CASE V!Crash(s)
        BY <3>1, <3>2, <4>3, CrashTold
      <4>4. ASSUME NEW r \in crossings[s], V!WriteStage(s, r) PROVE Told(c)'
        BY <3>1, <3>2, <4>4, WriteTold
      <4>5. ASSUME NEW r \in crossings[s], V!WriteFails(s, r) PROVE Told(c)'
        BY <3>1, <3>2, <4>5, FailTold
      <4> QED
        BY <2>3, <4>1, <4>2, <4>3, <4>4, <4>5 DEF V!Sweep
    <3> QED
      BY <2>1, <3>1, <3>2 DEF CycleInv
  <2>4. ASSUME NEW ask \in asks, V!TriggerJourney(ask) PROVE CycleInv'
    <3>1. UNCHANGED <<stage, clock, roll, night, crossings, held, due, muddled>>
      BY <2>4 DEF V!TriggerJourney, V!book
    <3>2. NightTyped' /\ Listed'
      BY <3>1 DEF CycleInv, NightTyped, Listed
    <3> QED
      BY <2>1, <3>1, <3>2, QuietTold DEF CycleInv
  <2> QED
    BY <1>2, <2>2, <2>3, <2>4 DEF V!Next
<1> QED
  BY <1>1, <1>2
-----------------------------------------------------------------------------
(* Outreach *)

LEMMA CampaignStep == [Next]_vars => K!Next \/ UNCHANGED K!vars
BY DEF Next, vars, fanOut, K!vars, K!row, K!log, K!fanOut

LEMMA CycleStep == [Next]_vars => V!Next \/ UNCHANGED V!vars
BY DEF Next, vars, cycle, V!vars, V!book, V!tale

\* What a fan-out relies on while it loops, and what a sweep keeps in memory is worth.
THEOREM OutreachInvariant == ~SlowFanOut /\ Spec => [](FanOutInv /\ CycleInv)
<1> SUFFICES ASSUME ~SlowFanOut PROVE Spec => [](FanOutInv /\ CycleInv)
  OBVIOUS
<1>1. Init => FanOutInv /\ CycleInv
  BY FanOutInit, CycleInit DEF Init
<1>2. FanOutInv /\ CycleInv /\ [Next]_vars => (FanOutInv /\ CycleInv)'
  BY FanOutNext, CycleNext, CampaignStep, CycleStep
<1> QED
  BY <1>1, <1>2, PTL DEF Spec

\* Retried, resumed, paused and launched again, a campaign writes to nobody twice, and a
\* completed one has come to everybody who still had an address; of the processes only one
\* goes through the members (campaign.service.ts, dispatchCampaign), as long as no fan-out
\* outlives the age at which a lock is taken back.
THEOREM EverybodyGetsOne == ~SlowFanOut /\ Spec => []EverybodyOnce
<1> SUFFICES ASSUME ~SlowFanOut PROVE Spec => []EverybodyOnce
  OBVIOUS
<1>1. FanOutInv => EverybodyOnce
  BY DEF FanOutInv, Reached, OneFans, EverybodyOnce, K!EverybodyOnce, K!Fanning
<1>2. Spec => [](FanOutInv /\ CycleInv)
  BY OutreachInvariant
<1> QED
  BY <1>1, <1>2, PTL

\* However many processes sweep and whenever they die, a journey is asked to take a
\* customer no more often than time carried her into one of its stages, unless two wrote
\* her stage at once or a write of it failed (visit-due.ts, lifecycle-sweep.ts).
THEOREM NobodyIsChasedTwice == Spec => []ChasedPerCrossing
<1>1. Init => CycleInv
  BY CycleInit DEF Init
<1>2. CycleInv /\ [Next]_vars => CycleInv'
  BY CycleNext, CycleStep
<1>3. CycleInv => ChasedPerCrossing
  <2> SUFFICES ASSUME CycleInv, NEW j \in Journeys, NEW c \in Customers \ muddled
               PROVE  due[j][c] >= 0
    BY DEF ChasedPerCrossing, V!ChasedPerCrossing
  <2>1. Cardinality(Chasing(j, c)) \in Nat /\ due[j][c] \in Int
    BY ChasingRunners, RunnersCount DEF CycleInv, BookTyped
  <2>2. Cardinality(Chasing(j, c)) <= due[j][c]
    BY DEF CycleInv, Told, Credit
  <2> QED
    BY <2>1, <2>2
<1> QED
  BY <1>1, <1>2, <1>3, PTL DEF Spec
=============================================================================
