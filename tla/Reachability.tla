----------------------------- MODULE Reachability -----------------------------
(***************************************************************************)
(* What the system remembers about a customer's address on one channel     *)
(* (messaging/reachability.ts): a permanent refusal stops further sends, a *)
(* delivery or a corrected address starts them again.  The verdict comes   *)
(* back long after the send, and is written on the customer whatever       *)
(* address the customer has by then.                                       *)
(***************************************************************************)
EXTENDS Naturals, FiniteSets

CONSTANTS
    Messages,      \* messages in flight to the customer at the same time
    MaxAddresses,  \* bound: addresses the customer has had, 1..MaxAddresses
    MaxFlips       \* bound: times an address starts or stops working

Addresses == 1..MaxAddresses

VARIABLES
    address,   \* Customer.phone or email, numbered
    verdict,   \* Customer.whatsappStatus, smsStatus or emailStatus
    works,     \* works[a]: the outside world delivers to a
    stage,     \* stage[m]: where a message is
    to,        \* to[m]: MessageLog.toAddress
    outcome,   \* outcome[m]: what classify() made of the provider's callback
    flips      \* bound

vars == <<address, verdict, works, stage, to, outcome, flips>>

Init ==
    /\ address = 1
    /\ verdict = "UNKNOWN"
    /\ works \in [Addresses -> BOOLEAN]
    /\ stage = [m \in Messages |-> "none"]
    /\ to = [m \in Messages |-> 1]
    /\ outcome = [m \in Messages |-> "temporary"]
    /\ flips = 0
-----------------------------------------------------------------------------
\* suppressionFor(): true when the message must be held back.
Suppressed == verdict = "UNDELIVERABLE"

\* queueMessage(): a message to a suppressed address is SKIPPED.
Queue(m) ==
    /\ stage[m] = "none" /\ ~Suppressed
    /\ stage' = [stage EXCEPT ![m] = "queued"]
    /\ to' = [to EXCEPT ![m] = address]
    /\ UNCHANGED <<address, verdict, works, outcome, flips>>

\* The provider takes the message and calls back: what it says of the address is
\* what is true of it at that moment, or nothing lasting.
CallBack(m) ==
    /\ stage[m] = "queued"
    /\ stage' = [stage EXCEPT ![m] = "told"]
    /\ \E o \in {"temporary", IF works[to[m]] THEN "delivered" ELSE "permanent"} :
          outcome' = [outcome EXCEPT ![m] = o]
    /\ UNCHANGED <<address, verdict, works, to, flips>>

\* Faulty variant: a refusal is thought to be one more answer.
VerdictAlwaysOK(o) == "OK"

VerdictOf(o) == IF o = "delivered" THEN "OK" ELSE "UNDELIVERABLE"

\* recordReachability(): one update by customer id.  The slot is free for another
\* message after it.
Record(m) ==
    /\ stage[m] = "told"
    /\ stage' = [stage EXCEPT ![m] = "none"]
    /\ verdict' = IF outcome[m] = "temporary" THEN verdict ELSE VerdictOf(outcome[m])
    /\ UNCHANGED <<address, works, to, outcome, flips>>

\* updateCustomer() with another address: "a corrected address is a new address".
CorrectAddress ==
    /\ address < MaxAddresses
    /\ address' = address + 1
    /\ verdict' = "UNKNOWN"
    /\ UNCHANGED <<works, stage, to, outcome, flips>>

\* Numbers get disconnected and reconnected, mailboxes fill and get emptied.
Flip(a) ==
    /\ flips < MaxFlips
    /\ flips' = flips + 1
    /\ works' = [works EXCEPT ![a] = ~@]
    /\ UNCHANGED <<address, verdict, stage, to, outcome>>
-----------------------------------------------------------------------------
Next ==
    \/ \E m \in Messages : Queue(m) \/ CallBack(m) \/ Record(m)
    \/ CorrectAddress
    \/ \E a \in Addresses : Flip(a)

Spec == Init /\ [][Next]_vars

\* An answer that says something lasting.
Verdict(m) == CallBack(m) /\ outcome'[m] # "temporary"
-----------------------------------------------------------------------------

\* An address that stays dead is learned, and is paid for no longer: in the end
\* it is marked and stays marked, whatever older callbacks still arrive.
DeadAddressIsLearned ==
    <>[](~works[address]) => <>[](verdict = "UNDELIVERABLE")
=============================================================================
