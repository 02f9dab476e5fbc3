--------------------------- MODULE FrontDeskProof ---------------------------
(***************************************************************************)
(* Proofs about FrontDesk, for any messages, handlers, slots, links,       *)
(* processes and requests, any number of faults and of copies delivered,   *)
(* and any finite set of phone numbers.  Each part has an inductive        *)
(* invariant; the parts share no column, so together they are one.         *)
(*                                                                         *)
(* A thread (Conversation): a message is answered by whoever stored it, so *)
(* the handlers past that point hold different messages, none of which is  *)
(* answered (Answered).  The words of a promise come after its flag, so    *)
(* the flag covers the promises made and those about to be worded          *)
(* (Flagged); the ceiling holds as long as one handler at a time has       *)
(* counted and not yet answered (Alone).  A slot that no two handlers had  *)
(* and no fault met is in one handler's hand (Held), stands in the column  *)
(* as the words say it or are about to (Offered), and once it is hers is   *)
(* on its way to nobody (Hers).                                            *)
(*                                                                         *)
(* A rating (Feedback) is followed up by the one submission that created   *)
(* its row (Followed), and somebody is about to write the right score or   *)
(* it is right (Scored).  A set of suggestions (Suggestions) is written by *)
(* one process at a time, and only while none is stored (WordsInv).  In    *)
(* the book (CustomerBook) the unique key keeps phones apart (OnePhone);   *)
(* a request that has it to itself still finds what it read (InTurn), and  *)
(* the visits of those who were not merged away are wrong only between a   *)
(* merge and its count (Tallied).                                          *)
(***************************************************************************)
EXTENDS FrontDesk, FiniteSetTheorems, SequenceTheorems, TLAPS

(* The thread: messages, promises and the ceiling *)

PCs == {"idle", "credit", "read", "count"} \cup C!AfterCount

\* A handler that may still answer its message.
Busy(query) == query \notin {"idle", "credit"}

\* The steps of a handler that has counted the replies and will add one.
Counted == C!AfterCount \ {"hand over", "hand off"}

ThreadTyped ==
    /\ mode \in {"NONE", "AI", "HUMAN"} /\ desk \in {"idle", "sent"}
    /\ stored \in SUBSET Messages
    /\ ceiling \in Nat /\ replies \in Nat
    /\ pc \in [Handlers -> PCs]
    /\ msg \in [Handlers -> Messages \cup {Nothing}]
    /\ answers \in [Messages -> 0 .. 2]
    /\ attention \in BOOLEAN /\ promised \in BOOLEAN /\ excused \in BOOLEAN
    /\ silenced \in BOOLEAN /\ tripped \in BOOLEAN

Answered ==
    /\ \A h \in Handlers : Busy(pc[h]) => msg[h] \in stored /\ answers[msg[h]] = 0
    /\ \A h, k \in Handlers : Busy(pc[h]) /\ Busy(pc[k]) /\ h # k => msg[h] # msg[k]
    /\ \A m \in Messages \ stored : answers[m] = 0
    /\ \A m \in Messages : answers[m] <= 1

Flagged ==
    promised \/ C!Unworded =>
        /\ excused \/ (attention /\ mode = "HUMAN")
        /\ desk = "sent" => excused

Alone ==
    /\ silenced => tripped
    /\ ~tripped =>
         /\ replies <= ceiling
         /\ \A h \in Handlers : pc[h] \in Counted => replies < ceiling
         /\ \A h, k \in Handlers : pc[h] \in Counted /\ pc[k] \in Counted => h = k
         /\ \A h \in Handlers : pc[h] # "hand off"

ThreadInv == ThreadTyped /\ Answered /\ Flagged /\ Alone

LEMMA ThreadInit == ASSUME Ceilings \subseteq Nat, C!Init PROVE ThreadInv
<1>1. ThreadTyped
  <2>1. ceiling \in Nat /\ replies \in Nat /\ "idle" \in PCs
    BY DEF C!Init, PCs
  <2>2. answers \in [Messages -> 0 .. 2]
    BY DEF C!Init
  <2> QED
    BY <2>1, <2>2 DEF C!Init, ThreadTyped
<1>2. Answered
  BY DEF C!Init, Answered, Busy
<1>3. Flagged
  BY DEF C!Init, Flagged, C!Unworded
<1>4. Alone
  BY <1>1 DEF C!Init, Alone, Counted, C!AfterCount, ThreadTyped
<1> QED
  BY <1>1, <1>2, <1>3, <1>4 DEF ThreadInv
-----------------------------------------------------------------------------
(* Steps that tell nobody anything *)

\* A handler goes on, or gives its message up; it neither begins to count nor hands
\* the thread over.
Quiet(h) ==
    /\ \E query \in PCs \ {"hand off"} :
          /\ pc' = [pc EXCEPT ![h] = query]
          /\ Busy(query) => Busy(pc[h])
          /\ query \in Counted => pc[h] \in Counted
          /\ msg' = msg \/ (~Busy(query) /\ msg' = [msg EXCEPT ![h] = Nothing])
    /\ UNCHANGED <<mode, attention, desk, stored, ceiling, replies, answers, promised, excused,
                   silenced, tripped>>

LEMMA QuietStep ==
  ASSUME NEW h \in Handlers, ThreadInv, Quiet(h)
  PROVE  ThreadInv'
<1> PICK query \in PCs \ {"hand off"} :
      /\ pc' = [pc EXCEPT ![h] = query]
      /\ Busy(query) => Busy(pc[h])
      /\ query \in Counted => pc[h] \in Counted
      /\ msg' = msg \/ (~Busy(query) /\ msg' = [msg EXCEPT ![h] = Nothing])
  BY DEF Quiet
<1> USE DEF ThreadInv, Quiet
<1>1. ThreadTyped'
  BY DEF ThreadTyped
<1>2. /\ \A k \in Handlers : Busy(pc'[k]) => Busy(pc[k]) /\ msg'[k] = msg[k]
      /\ \A k \in Handlers : pc'[k] \in Counted => pc[k] \in Counted
      /\ \A k \in Handlers : pc'[k] = "hand off" => pc[k] = "hand off"
  BY DEF ThreadTyped
<1>3. Answered'
  BY <1>2 DEF Answered
<1>4. Flagged'
  BY <1>2 DEF Flagged, C!Unworded
<1>5. Alone'
  BY <1>2 DEF Alone
<1> QED
  BY <1>1, <1>3, <1>4, <1>5

LEMMA QuietSteps ==
  ASSUME NEW h \in Handlers, UNCHANGED ceiling,
         \/ C!CreditAndOptOut(h) \/ C!Fail(h) \/ C!ReadThread(h) \/ C!Understand(h) \/ C!CheckSlot(h)
         \/ C!Insert(h) \/ C!ClearOffer(h) \/ C!CheckAvailability(h) \/ C!HoldOffer(h) \/ C!Answer(h)
  PROVE  Quiet(h)
<1> USE DEF C!Goto, Quiet, Busy, PCs, Counted, C!AfterCount
<1>1. CASE C!CreditAndOptOut(h)
  BY <1>1 DEF C!CreditAndOptOut, C!thread, C!trust, C!limits
<1>2. CASE C!Fail(h)
  BY <1>2 DEF C!Fail, C!thread, C!record, C!trust, C!limits
<1>3. CASE C!ReadThread(h)
  BY <1>3 DEF C!ReadThread, C!thread, C!record, C!trust, C!limits
<1>4. CASE C!Understand(h)
  BY <1>4 DEF C!Understand, C!thread, C!trust, C!limits
<1>5. CASE C!CheckSlot(h)
  BY <1>5 DEF C!CheckSlot, C!thread, C!record, C!trust, C!limits
<1>6. CASE C!Insert(h)
  BY <1>6 DEF C!Insert, C!thread, C!trust, C!limits
<1>7. CASE C!ClearOffer(h)
  BY <1>7 DEF C!ClearOffer, C!thread, C!trust, C!limits
<1>8. CASE C!CheckAvailability(h)
  BY <1>8 DEF C!CheckAvailability, C!thread, C!record, C!trust, C!limits
<1>9. CASE C!HoldOffer(h)
  BY <1>9 DEF C!HoldOffer, C!thread, C!trust, C!limits
<1>10. CASE C!Answer(h)
  BY <1>10 DEF C!Answer, C!thread, C!record, C!trust, C!limits
<1> QED
  BY <1>1, <1>2, <1>3, <1>4, <1>5, <1>6, <1>7, <1>8, <1>9, <1>10
-----------------------------------------------------------------------------
(* The steps that take a message, count, and say something *)

LEMMA ReceiveStep ==
  ASSUME NEW h \in Handlers, NEW m \in Messages, ThreadInv, C!Receive(h, m), UNCHANGED ceiling
  PROVE  ThreadInv'
<1> USE DEF ThreadInv, C!Receive, C!Goto, C!limits, C!trust
<1>1. mode' = mode \/ (mode = "NONE" /\ mode' \in {"AI", "HUMAN"})
  BY DEF C!OpenConversation
<1>2. ThreadTyped'
  BY <1>1 DEF ThreadTyped, PCs, C!AfterCount
<1>3. Answered'
  <2>1. CASE m \in stored
    BY <2>1 DEF Answered, ThreadTyped, Busy
  <2>2. CASE m \notin stored
    BY <2>2 DEF Answered, ThreadTyped, Busy
  <2> QED
    BY <2>1, <2>2
<1>4. \A k \in Handlers : /\ pc'[k] \in Counted => pc[k] \in Counted
                          /\ pc'[k] = "hand off" => pc[k] = "hand off"
  BY DEF ThreadTyped, Counted, C!AfterCount
<1>5. Flagged'
  BY <1>1, <1>4 DEF Flagged, C!Unworded
<1>6. Alone'
  BY <1>4 DEF Alone
<1> QED
  BY <1>2, <1>3, <1>5, <1>6

LEMMA CountStep ==
  ASSUME NEW h \in Handlers, ThreadInv, C!CountReplies(h), UNCHANGED ceiling
  PROVE  ThreadInv'
<1> DEFINE Outcome(query) == pc[h] = "count" /\ pc' = [pc EXCEPT ![h] = query]
<1> USE DEF ThreadInv, Outcome
<1>1. /\ tripped' = (tripped \/ \E k \in Handlers \ {h} : pc[k] \in C!AfterCount)
      /\ UNCHANGED <<mode, attention, desk, stored, replies, answers, msg, promised, excused>>
  BY DEF C!CountReplies, C!thread, C!record, C!trust
<1>2. \/ replies < ceiling /\ Outcome("mean") /\ silenced' = silenced
      \/ replies >= ceiling /\ Outcome("hand over") /\ silenced' = silenced
      \/ replies > ceiling /\ Outcome("credit") /\ silenced' = TRUE
  <2>1. replies \in Nat /\ ceiling \in Nat
    BY DEF ThreadTyped
  <2>2. CASE replies < ceiling
    <3>1. C!replyCeiling(replies) = "ON"
      BY <2>2 DEF C!replyCeiling
    <3> QED
      BY <2>2, <3>1 DEF C!CountReplies, C!Goto
  <2>3. CASE replies = ceiling
    <3>1. C!replyCeiling(replies) = "HAND_OVER" /\ replies >= ceiling
      BY <2>1, <2>3 DEF C!replyCeiling
    <3> QED
      BY <3>1 DEF C!CountReplies, C!Goto
  <2>4. CASE replies > ceiling
    <3>1. C!replyCeiling(replies) = "SILENT"
      BY <2>1, <2>4 DEF C!replyCeiling
    <3>2. pc[h] = "count" /\ C!Goto(h, "credit") /\ silenced' = TRUE
      BY <3>1 DEF C!CountReplies
    <3> QED
      BY <2>4, <3>2 DEF C!Goto
  <2>5. replies < ceiling \/ replies = ceiling \/ replies > ceiling
    BY <2>1
  <2> QED
    BY <2>2, <2>3, <2>4, <2>5
<1>3. ThreadTyped'
  BY <1>1, <1>2 DEF ThreadTyped, PCs, C!AfterCount
<1>4. Answered'
  BY <1>1, <1>2 DEF Answered, ThreadTyped, Busy
<1>5. Flagged'
  <2>1. C!Unworded' => C!Unworded
    BY <1>2 DEF C!Unworded, ThreadTyped
  <2> QED
    BY <1>1, <2>1 DEF Flagged
<1>6. Alone'
  <2>1. tripped => tripped'
    BY <1>1
  <2>2. CASE Outcome("mean") /\ replies < ceiling /\ silenced' = silenced
    <3>1. ~tripped' => \A k \in Handlers \ {h} : pc'[k] \notin C!AfterCount
      BY <1>1, <2>2 DEF ThreadTyped
    <3>2. pc'[h] = "mean"
      BY <2>2 DEF ThreadTyped
    <3> QED
      BY <1>1, <2>1, <2>2, <3>1, <3>2 DEF Alone, ThreadTyped, Counted, C!AfterCount
  <2>3. ASSUME NEW query \in {"hand over", "credit"}, Outcome(query)
        PROVE  \A k \in Handlers : /\ pc'[k] \in Counted => pc[k] \in Counted
                                   /\ pc'[k] = "hand off" => pc[k] = "hand off"
    BY <2>3 DEF ThreadTyped, Counted, C!AfterCount
  <2>4. CASE Outcome("hand over") /\ silenced' = silenced
    BY <1>1, <2>1, <2>3, <2>4 DEF Alone
  <2>5. CASE Outcome("credit") /\ replies > ceiling
    <3>1. ~(replies <= ceiling)
      BY <2>5 DEF ThreadTyped
    <3>2. tripped
      BY <3>1 DEF Alone
    <3> QED
      BY <2>1, <3>2 DEF Alone
  <2> QED
    BY <1>2, <2>2, <2>4, <2>5
<1> QED
  BY <1>3, <1>4, <1>5, <1>6

\* One message more is answered: that of a handler which goes to credit it.
LEMMA SentIsAnswered ==
  ASSUME NEW h \in Handlers, ThreadTyped, Answered, Busy(pc[h]),
         pc' = [pc EXCEPT ![h] = "credit"], UNCHANGED <<stored, msg>>,
         answers' = [answers EXCEPT ![msg[h]] = C!OnceMore(@)]
  PROVE  Answered' /\ answers' \in [Messages -> 0 .. 2]
<1>1. msg[h] \in Messages /\ answers[msg[h]] = 0 /\ msg[h] \in stored
  BY DEF ThreadTyped, Answered
<1>2. answers' = [answers EXCEPT ![msg[h]] = 1]
  BY <1>1 DEF C!OnceMore
<1>3. \A k \in Handlers : Busy(pc'[k]) => Busy(pc[k]) /\ k # h
  BY DEF ThreadTyped, Busy
<1> QED
  BY <1>1, <1>2, <1>3 DEF ThreadTyped, Answered

LEMMA SayStep ==
  ASSUME NEW h \in Handlers, ThreadInv, C!Say(h), UNCHANGED ceiling
  PROVE  ThreadInv'
<1> USE DEF ThreadInv
<1>1. /\ pc[h] \in {"offered", "say"} /\ pc' = [pc EXCEPT ![h] = "credit"]
      /\ replies' \in {replies, replies + 1}
      /\ \/ answers' = [answers EXCEPT ![msg[h]] = C!OnceMore(@)]
         \/ UNCHANGED answers
      /\ UNCHANGED <<mode, attention, desk, stored, msg, promised, excused, silenced, tripped>>
  BY DEF C!Say, C!Send, C!Refused, C!Goto, C!thread, C!trust, C!limits
<1>2. Busy(pc[h]) /\ pc[h] \in Counted
  BY <1>1 DEF Busy, Counted, C!AfterCount
<1>3. Answered' /\ answers' \in [Messages -> 0 .. 2]
  <2>1. CASE answers' = [answers EXCEPT ![msg[h]] = C!OnceMore(@)]
    BY <1>1, <1>2, <2>1, SentIsAnswered
  <2>2. CASE answers' = answers
    BY <1>1, <2>2 DEF Answered, ThreadTyped, Busy
  <2> QED
    BY <1>1, <2>1, <2>2
<1>4. ThreadTyped'
  BY <1>1, <1>3 DEF ThreadTyped, PCs
<1>5. \A k \in Handlers : /\ pc'[k] \in Counted => pc[k] \in Counted /\ k # h
                          /\ pc'[k] = "hand off" => pc[k] = "hand off"
  BY <1>1 DEF ThreadTyped, Counted, C!AfterCount
<1>6. Flagged'
  BY <1>1, <1>5 DEF Flagged, C!Unworded
<1>7. Alone'
  <2>1. CASE tripped
    BY <1>1, <2>1 DEF Alone
  <2>2. CASE ~tripped
    <3> replies < ceiling
      BY <1>2, <2>2 DEF Alone
    <3>1. replies + 1 <= ceiling
      BY DEF ThreadTyped
    <3>2. \A k \in Handlers : pc'[k] \notin Counted
      BY <1>2, <1>5, <2>2 DEF Alone
    <3> QED
      BY <1>1, <1>5, <2>2, <3>1, <3>2 DEF Alone
  <2> QED
    BY <2>1, <2>2
<1> QED
  BY <1>3, <1>4, <1>6, <1>7

LEMMA HandToHumanStep ==
  ASSUME NEW h \in Handlers, ThreadInv, C!HandToHuman(h), UNCHANGED ceiling
  PROVE  ThreadInv'
<1> USE DEF ThreadInv
<1>1. /\ pc[h] = "hand over" /\ pc' = [pc EXCEPT ![h] = "hand off"]
      /\ \/ mode' = "HUMAN" /\ attention' = TRUE /\ excused' = (excused \/ desk = "sent")
         \/ excused' = TRUE /\ UNCHANGED <<mode, attention>>
      /\ tripped' = TRUE
      /\ UNCHANGED <<desk, stored, replies, msg, answers, promised, silenced>>
  BY DEF C!HandToHuman, C!Goto, C!record
<1>2. ThreadTyped'
  BY <1>1 DEF ThreadTyped, PCs, C!AfterCount
<1>3. Answered'
  BY <1>1 DEF Answered, ThreadTyped, Busy
<1>4. Flagged'
  BY <1>1 DEF Flagged
<1>5. Alone'
  BY <1>1 DEF Alone
<1> QED
  BY <1>2, <1>3, <1>4, <1>5

LEMMA SayHandoffStep ==
  ASSUME NEW h \in Handlers, ThreadInv, C!SayHandoff(h), UNCHANGED ceiling
  PROVE  ThreadInv'
<1> USE DEF ThreadInv
<1>1. /\ pc[h] = "hand off" /\ pc' = [pc EXCEPT ![h] = "credit"]
      /\ UNCHANGED <<mode, attention, desk, stored, msg, excused, silenced, tripped>>
  BY DEF C!SayHandoff, C!Goto, C!thread, C!limits, C!bounds
<1>2. \/ /\ replies' = replies + 1 /\ promised' = TRUE
         /\ answers' = [answers EXCEPT ![msg[h]] = C!OnceMore(@)]
      \/ replies' \in {replies, replies + 1} /\ UNCHANGED <<answers, promised>>
  BY DEF C!SayHandoff, C!Send, C!Refused
<1>3. C!Unworded /\ tripped
  BY <1>1 DEF C!Unworded, Alone
<1>4. Flagged'
  BY <1>1, <1>3 DEF Flagged
<1>6. Alone'
  BY <1>1, <1>3 DEF Alone
<1>7. Answered' /\ answers' \in [Messages -> 0 .. 2]
  <2>1. CASE answers' = [answers EXCEPT ![msg[h]] = C!OnceMore(@)]
    BY <1>1, <2>1, SentIsAnswered DEF Busy
  <2>2. CASE answers' = answers
    BY <1>1, <2>2 DEF Answered, ThreadTyped, Busy
  <2> QED
    BY <1>2, <2>1, <2>2
<1>8. replies' \in Nat /\ promised' \in BOOLEAN /\ "credit" \in PCs
  <2>1. replies \in Nat /\ promised \in BOOLEAN
    BY DEF ThreadTyped
  <2>2. replies' \in Nat
    BY <1>2, <2>1
  <2>3. promised' \in BOOLEAN
    BY <1>2, <2>1
  <2> QED
    BY <2>2, <2>3 DEF PCs
<1>9. ThreadTyped'
  BY <1>1, <1>7, <1>8 DEF ThreadTyped
<1> QED
  BY <1>4, <1>6, <1>7, <1>9
-----------------------------------------------------------------------------
(* The staff, the diary and the hour *)

LEMMA StaffStep ==
  ASSUME ThreadInv, UNCHANGED ceiling,
         C!TakeOver \/ C!ResumeAssistant \/ C!StaffReplies \/ C!StaffReplyClears
  PROVE  ThreadInv'
<1> USE DEF ThreadInv, C!record, C!local, C!trust, C!limits
<1>1. UNCHANGED <<pc, msg, stored, answers, silenced>>
  BY DEF C!TakeOver, C!ResumeAssistant, C!StaffReplies, C!StaffReplyClears
<1>2. C!Unworded \in BOOLEAN /\ C!Unworded' = C!Unworded
  BY <1>1 DEF C!Unworded
<1>3. ThreadTyped'
  <2>1. CASE C!TakeOver
    BY <1>1, <2>1 DEF C!TakeOver, ThreadTyped
  <2>2. CASE C!ResumeAssistant
    BY <1>1, <1>2, <2>2 DEF C!ResumeAssistant, ThreadTyped
  <2>3. CASE C!StaffReplies
    <3>1. replies' \in Nat /\ desk' = "sent" /\ excused' \in BOOLEAN
      BY <1>2, <2>3 DEF C!StaffReplies, ThreadTyped
    <3> QED
      BY <1>1, <2>3, <3>1 DEF C!StaffReplies, ThreadTyped
  <2>4. CASE C!StaffReplyClears
    BY <1>1, <2>4 DEF C!StaffReplyClears, ThreadTyped
  <2> QED
    BY <2>1, <2>2, <2>3, <2>4
<1>4. Answered'
  BY <1>1 DEF Answered
<1>5. Flagged'
  BY <1>2 DEF C!TakeOver, C!ResumeAssistant, C!StaffReplies, C!StaffReplyClears, C!Touch, Flagged, ThreadTyped
<1>6. Alone'
  BY <1>1 DEF C!TakeOver, C!ResumeAssistant, C!StaffReplies, C!StaffReplyClears, C!Touch, Alone
<1> QED
  BY <1>3, <1>4, <1>5, <1>6

LEMMA AsideStep ==
  ASSUME ThreadInv,
         UNCHANGED <<ceiling, mode, attention, desk, stored, replies, pc, msg, answers, promised,
                     excused, silenced, tripped>>
  PROVE  ThreadInv'
BY DEF ThreadInv, ThreadTyped, Answered, Flagged, C!Unworded, Alone

LEMMA ThreadNext == ThreadInv /\ [C!Next]_C!vars => ThreadInv'
<1> SUFFICES ASSUME ThreadInv, [C!Next]_C!vars PROVE ThreadInv'
  OBVIOUS
<1>1. ASSUME NEW h \in Handlers, C!Webhook(h), UNCHANGED ceiling PROVE ThreadInv'
  BY <1>1, ReceiveStep, QuietSteps, QuietStep DEF C!Webhook
<1>2. ASSUME NEW h \in Handlers, C!AutoReply(h), UNCHANGED ceiling PROVE ThreadInv'
  BY <1>2, QuietSteps, QuietStep, CountStep, SayStep, HandToHumanStep, SayHandoffStep
  DEF C!AutoReply
<1>3. CASE (\E s \in Slots : C!DiaryMoves(s)) /\ UNCHANGED ceiling
  BY <1>3, AsideStep DEF C!DiaryMoves, C!thread, C!local, C!trust, C!limits
<1>4. CASE C!OfferGoesStale /\ UNCHANGED ceiling
  BY <1>4, AsideStep DEF C!OfferGoesStale, C!thread, C!local, C!trust, C!limits
<1>5. CASE UNCHANGED C!vars
  BY <1>5, AsideStep DEF C!vars, C!thread, C!record, C!local, C!trust, C!limits
<1> QED
  BY <1>1, <1>2, <1>3, <1>4, <1>5, StaffStep DEF C!Next
-----------------------------------------------------------------------------
(* The thread: slots offered and booked *)

\* From the reading of the thread to the booking of what was read.
AboutToBook == {"count", "mean", "book", "insert"}

OffersTyped ==
    /\ pc \in [Handlers -> PCs]
    /\ hand \in [Handlers -> Slots \cup {Parked, Nothing}]
    /\ offer \in Slots \cup {Parked, Nothing}
    /\ meant \in [Handlers -> Slots \cup {Nothing}] /\ told \in Slots \cup {Nothing}
    /\ diary \in [Slots -> {"free", "hers", "other's"}]
    /\ bookings \in [Slots -> 0 .. 2]
    /\ \A h \in Handlers :
          /\ pc[h] \in {"idle", "credit", "read"} => hand[h] = Nothing
          /\ pc[h] \in {"book", "insert", "booked", "gone", "failed", "offered"} => hand[h] \in Slots

\* Nothing came between two writes about the slot, and nobody between its reader and it.
Clear(s) == s \notin contested \cup orphaned

\* Who has it in hand is alone with it, and what was read of it is what was said.
Held(s) ==
    /\ \A h, k \in Handlers : hand[h] = s /\ hand[k] = s => h = k
    /\ \A h \in Handlers : hand[h] = s /\ pc[h] \in AboutToBook => meant[h] = s

\* The slot in the column is the one she was told of, or is being told of.
Offered(s) ==
    offer = s =>
        /\ told = s \/ \E h \in Handlers : pc[h] = "offered" /\ hand[h] = s
        /\ \A h \in Handlers : pc[h] = "offered" => hand[h] = s

\* A slot of hers is on its way to nobody but who has booked it.
Hers(s) ==
    diary[s] = "hers" =>
        /\ \A h \in Handlers : hand[h] = s => pc[h] \in {"booked", "say"}
        /\ offer = s => \E h \in Handlers : hand[h] = s /\ pc[h] = "booked"

Right(s) == s \notin wronged /\ bookings[s] <= 1

SlotInv(s) ==
    /\ bookings[s] > 0 => diary[s] = "hers"
    /\ Clear(s) => Held(s) /\ Offered(s) /\ Hers(s) /\ Right(s)

OffersInv == OffersTyped /\ \A s \in Slots : SlotInv(s)

LEMMA OffersInit == C!Init => OffersInv
<1> SUFFICES ASSUME C!Init PROVE OffersInv
  OBVIOUS
<1>1. OffersTyped
  BY DEF C!Init, OffersTyped, PCs
<1>2. ASSUME NEW s \in Slots PROVE SlotInv(s)
  <2>1. s # Nothing
    BY NothingAssumption
  <2>2. offer = Nothing /\ wronged = {} /\ bookings[s] = 0 /\ diary[s] = "free"
        /\ \A h \in Handlers : hand[h] = Nothing
    BY DEF C!Init
  <2> QED
    BY <2>1, <2>2 DEF SlotInv, Held, Offered, Hers, Right
<1> QED
  BY <1>1, <1>2 DEF OffersInv

\* A handler goes on with what it has in hand, or puts it down.
GoesOn(h, q) ==
    /\ UNCHANGED <<hand, meant>>
    /\ q \notin {"idle", "credit", "offered", "booked"} /\ pc[h] # "offered"
    /\ q = "read" => hand[h] = Nothing
    /\ q \in AboutToBook => pc[h] \in AboutToBook \/ hand[h] = Nothing
    /\ q \in {"book", "insert", "gone", "failed"} => hand[h] \in Slots
    /\ pc[h] \in {"booked", "say"} => q = "say"
    /\ pc[h] = "booked" => offer' = Nothing \/ ({hand[h], offer} \cap Slots) \subseteq orphaned'

PutsDown(h, q) ==
    /\ q \in {"idle", "credit"}
    /\ hand' = [hand EXCEPT ![h] = Nothing]
    /\ meant' = meant \/ meant' = [meant EXCEPT ![h] = Nothing]
    /\ pc[h] \in {"booked", "offered"} => hand[h] \in orphaned'

Passes(h) ==
    /\ \E q \in PCs : pc' = [pc EXCEPT ![h] = q] /\ (GoesOn(h, q) \/ PutsDown(h, q))
    /\ UNCHANGED <<told, diary, bookings, contested>>
    /\ wronged' \subseteq wronged \cup contested \cup orphaned
    /\ orphaned \subseteq orphaned' /\ offer' \in {offer, Nothing}

LEMMA PassesStep ==
  ASSUME OffersInv, NEW h \in Handlers, Passes(h)
  PROVE  OffersInv'
<1>1. PICK q \in PCs : pc' = [pc EXCEPT ![h] = q] /\ (GoesOn(h, q) \/ PutsDown(h, q))
  BY DEF Passes
<1>2. /\ UNCHANGED <<told, diary, bookings, contested>>
      /\ wronged' \subseteq wronged \cup contested \cup orphaned
      /\ orphaned \subseteq orphaned' /\ offer' \in {offer, Nothing}
  BY DEF Passes
<1>3. pc'[h] = q /\ \A k \in Handlers : k # h => pc'[k] = pc[k] /\ hand'[k] = hand[k] /\ meant'[k] = meant[k]
  BY <1>1 DEF OffersInv, OffersTyped, GoesOn, PutsDown
<1>4. CASE GoesOn(h, q)
  <2>1. OffersTyped'
    BY <1>1, <1>2, <1>4 DEF OffersInv, OffersTyped, GoesOn
  <2>2. ASSUME NEW s \in Slots PROVE SlotInv(s)'
    <3>0. s # Nothing /\ SlotInv(s)
      BY NothingAssumption DEF OffersInv
    <3>1. bookings'[s] > 0 => diary'[s] = "hers"
      BY <1>2, <3>0 DEF SlotInv
    <3> SUFFICES ASSUME Clear(s)' PROVE Held(s)' /\ Offered(s)' /\ Hers(s)' /\ Right(s)'
      BY <3>1 DEF SlotInv
    <3>2. Held(s) /\ Offered(s) /\ Hers(s) /\ Right(s)
      BY <1>2, <3>0 DEF Clear, SlotInv
    <3>3. Held(s)'
      BY <1>3, <1>4, <3>0, <3>2 DEF Held, GoesOn
    <3>4. Offered(s)'
      BY <1>2, <1>3, <1>4, <3>0, <3>2 DEF Offered, GoesOn
    <3>5. Hers(s)'
      BY <1>2, <1>3, <1>4, <3>0, <3>2 DEF Hers, GoesOn, Clear
    <3> QED
      BY <1>2, <3>2, <3>3, <3>4, <3>5 DEF Right, Clear
  <2> QED
    BY <2>1, <2>2 DEF OffersInv
<1>5. CASE PutsDown(h, q)
  <2>1. OffersTyped'
    BY <1>1, <1>2, <1>5 DEF OffersInv, OffersTyped, PutsDown
  <2>2. ASSUME NEW s \in Slots PROVE SlotInv(s)'
    <3>0. s # Nothing /\ SlotInv(s)
      BY NothingAssumption DEF OffersInv
    <3>1. bookings'[s] > 0 => diary'[s] = "hers"
      BY <1>2, <3>0 DEF SlotInv
    <3> SUFFICES ASSUME Clear(s)' PROVE Held(s)' /\ Offered(s)' /\ Hers(s)' /\ Right(s)'
      BY <3>1 DEF SlotInv
    <3>2. Held(s) /\ Offered(s) /\ Hers(s) /\ Right(s)
      BY <1>2, <3>0 DEF Clear, SlotInv
    <3>3. hand'[h] = Nothing /\ (pc[h] \in {"booked", "offered"} => hand[h] # s)
      BY <1>5 DEF PutsDown, Clear, OffersInv, OffersTyped
    <3>4. Held(s)'
      BY <1>3, <3>0, <3>2, <3>3 DEF Held
    <3>5. Offered(s)'
      BY <1>2, <1>3, <1>5, <3>0, <3>2, <3>3 DEF Offered, PutsDown
    <3>6. Hers(s)'
      BY <1>2, <1>3, <3>0, <3>2, <3>3 DEF Hers
    <3> QED
      BY <1>2, <3>2, <3>4, <3>5, <3>6 DEF Right, Clear
  <2> QED
    BY <2>1, <2>2 DEF OffersInv
<1> QED
  BY <1>1, <1>4, <1>5

LEMMA Going ==
  ASSUME OffersInv, NEW h \in Handlers, NEW q \in PCs, C!Goto(h, q), UNCHANGED <<hand, meant>>,
         UNCHANGED <<told, diary, bookings, contested>>,
         wronged' \subseteq wronged \cup contested \cup orphaned,
         orphaned \subseteq orphaned', offer' \in {offer, Nothing},
         q \notin {"idle", "credit", "offered", "booked"}, pc[h] # "offered",
         q = "read" => hand[h] = Nothing,
         q \in AboutToBook => pc[h] \in AboutToBook \/ hand[h] = Nothing,
         q \in {"book", "insert", "gone", "failed"} => hand[h] \in Slots,
         pc[h] \in {"booked", "say"} => q = "say",
         pc[h] = "booked" => offer' = Nothing \/ ({hand[h], offer} \cap Slots) \subseteq orphaned'
  PROVE  OffersInv'
<1>1. GoesOn(h, q)
  BY DEF GoesOn
<1> QED
  BY <1>1, PassesStep DEF Passes, C!Goto

LEMMA Dropping ==
  ASSUME OffersInv, NEW h \in Handlers, NEW q \in {"idle", "credit"}, C!Goto(h, q),
         hand' = [hand EXCEPT ![h] = Nothing],
         meant' = meant \/ meant' = [meant EXCEPT ![h] = Nothing],
         UNCHANGED <<told, diary, bookings, wronged, contested>>,
         orphaned \subseteq orphaned', UNCHANGED offer,
         pc[h] \in {"booked", "offered"} => hand[h] \in orphaned'
  PROVE  OffersInv'
<1>1. PutsDown(h, q) /\ q \in PCs
  BY DEF PutsDown, PCs
<1> QED
  BY <1>1, PassesStep DEF Passes, C!Goto

LEMMA HandTyped ==
  ASSUME OffersInv, NEW h \in Handlers
  PROVE  /\ hand \in [Handlers -> Slots \cup {Parked, Nothing}]
         /\ pc[h] \in {"idle", "credit", "read"} => hand[h] = Nothing
         /\ pc[h] \in {"book", "insert", "booked", "gone", "failed", "offered"} => hand[h] \in Slots
BY DEF OffersInv, OffersTyped

\* What a handler has in hand stays there when it is nothing.
LEMMA StaysEmpty ==
  ASSUME NEW h, hand \in [Handlers -> Slots \cup {Parked, Nothing}], hand[h] = Nothing
  PROVE  hand = [hand EXCEPT ![h] = Nothing]
OBVIOUS

LEMMA WebhookOffers ==
  ASSUME OffersInv, NEW h \in Handlers, C!Webhook(h)
  PROVE  OffersInv'
<1>1. ASSUME NEW m \in Messages, C!Receive(h, m) PROVE OffersInv'
  <2> DEFINE q == IF m \in stored THEN "credit" ELSE "read"
  <2>1. /\ pc[h] = "idle" /\ C!Goto(h, q)
        /\ UNCHANGED <<offer, diary, hand, told, meant, bookings, wronged, contested, orphaned>>
    BY <1>1 DEF C!Receive, C!offers
  <2>2. hand[h] = Nothing /\ hand = [hand EXCEPT ![h] = Nothing]
    BY <2>1, HandTyped, StaysEmpty
  <2>3. CASE q = "credit"
    BY <2>1, <2>2, <2>3, Dropping
  <2>4. CASE q = "read"
    BY <2>1, <2>2, <2>4, Going DEF PCs, AboutToBook
  <2> QED
    BY <2>3, <2>4
<1>2. CASE C!CreditAndOptOut(h)
  <2>1. /\ pc[h] = "credit" /\ C!Goto(h, "idle")
        /\ UNCHANGED <<offer, diary, hand, told, meant, bookings, wronged, contested, orphaned>>
    BY <1>2 DEF C!CreditAndOptOut, C!offers
  <2>2. hand[h] = Nothing /\ hand = [hand EXCEPT ![h] = Nothing]
    BY <2>1, HandTyped, StaysEmpty
  <2> QED
    BY <2>1, <2>2, Dropping
<1>3. CASE C!Fail(h)
  <2>1. /\ hand' = [hand EXCEPT ![h] = Nothing] /\ meant' = [meant EXCEPT ![h] = Nothing]
        /\ UNCHANGED <<offer, diary, told, bookings, wronged, contested>>
        /\ C!Goto(h, "idle") \/ C!Goto(h, "credit")
        /\ orphaned' = IF pc[h] \in {"booked", "offered"} THEN orphaned \cup {hand[h]} ELSE orphaned
    BY <1>3 DEF C!Fail, C!PutDown, C!record
  <2>2. orphaned \subseteq orphaned' /\ (pc[h] \in {"booked", "offered"} => hand[h] \in orphaned')
    BY <2>1
  <2>3. CASE C!Goto(h, "idle")
    BY <2>1, <2>2, <2>3, Dropping
  <2>4. CASE C!Goto(h, "credit")
    BY <2>1, <2>2, <2>4, Dropping
  <2> QED
    BY <2>1, <2>3, <2>4
<1> QED
  BY <1>1, <1>2, <1>3 DEF C!Webhook

\* clearOffer leaves the column empty, or what was in it to the history.
LEMMA Clearing ==
  ASSUME NEW h, C!Clear(h)
  PROVE  /\ orphaned \subseteq orphaned' /\ offer' \in {offer, Nothing}
         /\ offer' = Nothing \/ ({hand[h], offer} \cap Slots) \subseteq orphaned'
BY DEF C!Clear

LEMMA CountOffers ==
  ASSUME OffersInv, NEW h \in Handlers, C!CountReplies(h)
  PROVE  OffersInv'
<1>1. /\ pc[h] = "count"
      /\ UNCHANGED <<offer, diary, told, bookings, wronged, contested, orphaned>>
      /\ \/ C!Goto(h, "mean") /\ UNCHANGED <<hand, meant>>
         \/ C!Goto(h, "hand over") /\ UNCHANGED <<hand, meant>>
         \/ C!Goto(h, "credit") /\ C!PutDown(h)
  BY DEF C!CountReplies, C!record
<1>2. CASE C!Goto(h, "mean") /\ UNCHANGED <<hand, meant>>
  BY <1>1, <1>2, Going DEF PCs, C!AfterCount, AboutToBook
<1>3. CASE C!Goto(h, "hand over") /\ UNCHANGED <<hand, meant>>
  BY <1>1, <1>3, Going DEF PCs, C!AfterCount, AboutToBook
<1>4. CASE C!Goto(h, "credit") /\ C!PutDown(h)
  BY <1>1, <1>4, Dropping DEF C!PutDown
<1> QED
  BY <1>1, <1>2, <1>3, <1>4

LEMMA UnderstandOffers ==
  ASSUME OffersInv, NEW h \in Handlers, C!Understand(h)
  PROVE  OffersInv'
<1>1. pc[h] = "mean" /\ UNCHANGED <<diary, hand, told, meant, bookings, wronged, contested>>
  BY DEF C!Understand
<1>2. \/ \E q \in {"hand over", "free", "answer"} : C!Goto(h, q) /\ UNCHANGED <<offer, orphaned>>
      \/ hand[h] \in Slots /\ C!Goto(h, "book") /\ UNCHANGED <<offer, orphaned>>
      \/ C!Goto(h, "answer") /\ C!Clear(h)
      \/ C!Goto(h, "free") /\ C!Clear(h)
  BY DEF C!Understand
<1>3. ASSUME NEW q \in {"hand over", "free", "answer"}, C!Goto(h, q), UNCHANGED <<offer, orphaned>>
      PROVE  OffersInv'
  BY <1>1, <1>3, Going DEF PCs, C!AfterCount, AboutToBook
<1>4. CASE hand[h] \in Slots /\ C!Goto(h, "book") /\ UNCHANGED <<offer, orphaned>>
  BY <1>1, <1>4, Going DEF PCs, C!AfterCount, AboutToBook
<1>5. ASSUME NEW q \in {"answer", "free"}, C!Goto(h, q), C!Clear(h)
      PROVE  OffersInv'
  BY <1>1, <1>5, Clearing, Going DEF PCs, C!AfterCount, AboutToBook
<1> QED
  BY <1>2, <1>3, <1>4, <1>5

LEMMA ClearOfferOffers ==
  ASSUME OffersInv, NEW h \in Handlers, C!ClearOffer(h)
  PROVE  OffersInv'
<1>1. /\ pc[h] \in {"booked", "gone", "failed"} /\ C!Clear(h)
      /\ UNCHANGED <<diary, hand, told, meant, bookings, wronged, contested>>
      /\ C!Goto(h, IF pc[h] = "failed" THEN "hand over" ELSE "say")
  BY DEF C!ClearOffer
<1>2. CASE pc[h] = "failed"
  <2>1. C!Goto(h, "hand over")
    BY <1>1, <1>2
  <2> QED
    BY <1>1, <1>2, <2>1, Clearing, Going DEF PCs, C!AfterCount, AboutToBook
<1>3. CASE pc[h] # "failed"
  <2>1. C!Goto(h, "say")
    BY <1>1, <1>3
  <2> QED
    BY <1>1, <1>3, <2>1, Clearing, Going DEF PCs, C!AfterCount, AboutToBook
<1> QED
  BY <1>2, <1>3

LEMMA WordsOffers ==
  ASSUME OffersInv, NEW h \in Handlers, C!Answer(h) \/ C!HandToHuman(h) \/ C!SayHandoff(h)
  PROVE  OffersInv'
<1>1. CASE C!Answer(h)
  <2>1. /\ pc[h] = "answer"
        /\ UNCHANGED <<offer, diary, hand, told, meant, bookings, wronged, contested, orphaned>>
    BY <1>1 DEF C!Answer, C!record, C!offers
  <2>2. PICK q \in {"say", "hand over"} : C!Goto(h, q)
    BY <1>1 DEF C!Answer
  <2> QED
    BY <2>1, <2>2, Going DEF PCs, C!AfterCount, AboutToBook
<1>2. CASE C!HandToHuman(h)
  <2>1. /\ pc[h] = "hand over" /\ C!Goto(h, "hand off")
        /\ UNCHANGED <<offer, diary, hand, told, meant, bookings, wronged, contested, orphaned>>
    BY <1>2 DEF C!HandToHuman, C!record, C!offers
  <2> QED
    BY <2>1, Going DEF PCs, C!AfterCount, AboutToBook
<1>3. CASE C!SayHandoff(h)
  <2>1. /\ pc[h] = "hand off" /\ C!Goto(h, "credit") /\ C!PutDown(h)
        /\ UNCHANGED <<offer, diary, told, bookings, wronged, contested, orphaned>>
    BY <1>3 DEF C!SayHandoff
  <2> QED
    BY <2>1, Dropping DEF C!PutDown
<1> QED
  BY <1>1, <1>2, <1>3

LEMMA ReadOffers ==
  ASSUME OffersInv, NEW h \in Handlers, C!ReadThread(h)
  PROVE  OffersInv'
<1>1. pc[h] = "read" /\ UNCHANGED <<offer, diary, told, bookings, wronged, orphaned>>
  BY DEF C!ReadThread, C!record
<1>2. CASE C!Goto(h, "credit") /\ UNCHANGED <<hand, meant, contested>>
  <2>1. hand = [hand EXCEPT ![h] = Nothing]
    BY <1>1, HandTyped, StaysEmpty
  <2> QED
    BY <1>1, <1>2, <2>1, Dropping
<1>3. ASSUME NEW q \in {"count", "hand over"}, C!Goto(h, q), C!Contest(h, offer),
             hand' = [hand EXCEPT ![h] = offer], meant' = [meant EXCEPT ![h] = told]
      PROVE  OffersInv'
  <2>1. /\ pc' = [pc EXCEPT ![h] = q] /\ q \in PCs
        /\ contested \subseteq contested'
        /\ offer \in Slots /\ (\E k \in Handlers \ {h} : hand[k] = offer) => offer \in contested'
    BY <1>3 DEF C!Goto, C!Contest, PCs, C!AfterCount
  <2>2. OffersTyped'
    BY <1>1, <1>3, <2>1 DEF OffersInv, OffersTyped
  <2>3. /\ pc'[h] = q /\ hand'[h] = offer /\ meant'[h] = told
        /\ \A k \in Handlers : k # h => pc'[k] = pc[k] /\ hand'[k] = hand[k] /\ meant'[k] = meant[k]
    BY <1>3, <2>1 DEF OffersInv, OffersTyped
  <2>4. ASSUME NEW s \in Slots PROVE SlotInv(s)'
    <3>1. SlotInv(s) /\ hand[h] # s
      BY <1>1, NothingAssumption DEF OffersInv, OffersTyped
    <3> SUFFICES ASSUME Clear(s)' PROVE Held(s)' /\ Offered(s)' /\ Hers(s)' /\ Right(s)'
      BY <1>1, <3>1 DEF SlotInv
    <3>2. Held(s) /\ Offered(s) /\ Hers(s) /\ Right(s)
      BY <1>1, <2>1, <3>1 DEF Clear, SlotInv
    <3>3. offer = s => told = s /\ \A k \in Handlers : hand[k] # s
      BY <2>1, <3>1, <3>2 DEF Clear, Offered
    <3>4. Held(s)'
      BY <2>3, <3>2, <3>3 DEF Held
    <3>5. Offered(s)'
      BY <1>1, <1>3, <2>3, <3>2, <3>3 DEF Offered
    <3>6. Hers(s)'
      BY <1>1, <2>3, <3>1, <3>2, <3>3 DEF Hers
    <3> QED
      BY <1>1, <3>2, <3>4, <3>5, <3>6 DEF Right
  <2> QED
    BY <2>2, <2>4 DEF OffersInv
<1> QED
  BY <1>2, <1>3 DEF C!ReadThread

LEMMA CheckSlotOffers ==
  ASSUME OffersInv, NEW h \in Handlers, C!CheckSlot(h)
  PROVE  OffersInv'
<1>1. /\ pc[h] = "book" /\ UNCHANGED <<offer, diary, hand, told, meant, bookings, contested, orphaned>>
      /\ \/ C!Goto(h, "insert") /\ UNCHANGED wronged
         \/ /\ C!Goto(h, "gone")
            /\ wronged' = IF diary[hand[h]] = "hers" THEN wronged \cup {hand[h]} ELSE wronged
         \/ C!Goto(h, "failed") /\ UNCHANGED wronged
  BY DEF C!CheckSlot, C!record
<1>2. hand[h] \in Slots
  BY <1>1, HandTyped
<1>3. diary[hand[h]] = "hers" => hand[h] \in contested \cup orphaned
  <2>1. SlotInv(hand[h])
    BY <1>2 DEF OffersInv
  <2> QED
    BY <1>1, <2>1 DEF SlotInv, Clear, Hers
<1>4. wronged' \subseteq wronged \cup contested \cup orphaned
  BY <1>1, <1>3
<1>5. ASSUME NEW q \in {"insert", "gone", "failed"}, C!Goto(h, q) PROVE OffersInv'
  BY <1>1, <1>2, <1>4, <1>5, Going DEF PCs, C!AfterCount, AboutToBook
<1> QED
  BY <1>1, <1>5

LEMMA InsertOffers ==
  ASSUME OffersInv, NEW h \in Handlers, C!Insert(h)
  PROVE  OffersInv'
<1> DEFINE s == hand[h]
<1>1. /\ pc[h] = "insert" /\ pc' = [pc EXCEPT ![h] = "booked"]
      /\ UNCHANGED <<offer, hand, told, meant, contested, orphaned>>
      /\ diary' = [diary EXCEPT ![s] = "hers"]
      /\ bookings' = [bookings EXCEPT ![s] = C!OnceMore(@)]
      /\ wronged' = IF meant[h] # s THEN wronged \cup {s} ELSE wronged
  BY DEF C!Insert, C!Goto
<1>2. s \in Slots
  BY <1>1, HandTyped
<1>3. \A n \in 0 .. 2 : C!OnceMore(n) \in 0 .. 2 /\ (n = 0 => C!OnceMore(n) = 1)
  BY DEF C!OnceMore
<1>4. OffersTyped'
  BY <1>1, <1>2, <1>3 DEF OffersInv, OffersTyped, PCs, C!AfterCount
<1>5. ASSUME NEW t \in Slots PROVE SlotInv(t)'
  <2>1. SlotInv(t) /\ bookings[t] \in 0 .. 2
    BY DEF OffersInv, OffersTyped
  <2>2. /\ t = s => diary'[t] = "hers" /\ bookings'[t] = C!OnceMore(bookings[t])
        /\ t # s => diary'[t] = diary[t] /\ bookings'[t] = bookings[t] /\ (t \in wronged' => t \in wronged)
    BY <1>1, <1>2 DEF OffersInv, OffersTyped
  <2>3. bookings'[t] > 0 => diary'[t] = "hers"
    BY <2>1, <2>2 DEF SlotInv
  <2> SUFFICES ASSUME Clear(t)' PROVE Held(t)' /\ Offered(t)' /\ Hers(t)' /\ Right(t)'
    BY <2>3 DEF SlotInv
  <2>4. Held(t) /\ Offered(t) /\ Hers(t) /\ Right(t)
    BY <1>1, <2>1 DEF Clear, SlotInv
  <2>5. pc'[h] = "booked" /\ \A k \in Handlers : k # h => pc'[k] = pc[k]
    BY <1>1 DEF OffersInv, OffersTyped
  <2>6. Held(t)'
    BY <1>1, <2>4, <2>5 DEF Held, AboutToBook
  <2>7. Offered(t)'
    BY <1>1, <2>4, <2>5 DEF Offered
  <2>8. t = s => \A k \in Handlers : hand[k] = s => k = h
    BY <2>4 DEF Held
  <2>9. Hers(t)'
    BY <1>1, <2>2, <2>4, <2>5, <2>8 DEF Hers
  <2>10. Right(t)'
    <3>1. CASE t = s
      <4>1. diary[t] # "hers" /\ meant[h] = s
        BY <1>1, <2>4, <3>1 DEF Hers, Held, AboutToBook
      <4>2. bookings[t] = 0
        BY <2>1, <4>1 DEF SlotInv
      <4> QED
        BY <1>1, <1>3, <2>2, <2>4, <3>1, <4>1, <4>2 DEF Right
    <3>2. CASE t # s
      BY <2>2, <2>4, <3>2 DEF Right
    <3> QED
      BY <3>1, <3>2
  <2> QED
    BY <2>6, <2>7, <2>9, <2>10
<1> QED
  BY <1>4, <1>5 DEF OffersInv

LEMMA AvailabilityOffers ==
  ASSUME OffersInv, NEW h \in Handlers, C!CheckAvailability(h)
  PROVE  OffersInv'
<1>1. pc[h] = "free" /\ UNCHANGED <<offer, diary, told, meant, bookings, wronged, orphaned>>
  BY DEF C!CheckAvailability, C!record
<1>2. ASSUME NEW q \in {"say", "answer"}, C!Goto(h, q), UNCHANGED <<hand, contested>>
      PROVE  OffersInv'
  BY <1>1, <1>2, Going DEF PCs, C!AfterCount, AboutToBook
<1>3. ASSUME NEW c \in Slots \cup {Parked}, c \in Slots => diary[c] = "free", C!Goto(h, "hold"),
             hand' = [hand EXCEPT ![h] = c], C!Contest(h, c)
      PROVE  OffersInv'
  <2>1. /\ pc' = [pc EXCEPT ![h] = "hold"]
        /\ contested \subseteq contested'
        /\ c \in Slots /\ (\E k \in Handlers \ {h} : hand[k] = c) => c \in contested'
    BY <1>3 DEF C!Goto, C!Contest
  <2>2. OffersTyped'
    BY <1>1, <1>3, <2>1 DEF OffersInv, OffersTyped, PCs, C!AfterCount
  <2>3. /\ pc'[h] = "hold" /\ hand'[h] = c
        /\ \A k \in Handlers : k # h => pc'[k] = pc[k] /\ hand'[k] = hand[k]
    BY <1>3, <2>1 DEF OffersInv, OffersTyped
  <2>4. ASSUME NEW s \in Slots PROVE SlotInv(s)'
    <3>1. SlotInv(s)
      BY DEF OffersInv
    <3> SUFFICES ASSUME Clear(s)' PROVE Held(s)' /\ Offered(s)' /\ Hers(s)' /\ Right(s)'
      BY <1>1, <3>1 DEF SlotInv
    <3>2. Held(s) /\ Offered(s) /\ Hers(s) /\ Right(s)
      BY <1>1, <2>1, <3>1 DEF Clear, SlotInv
    <3>3. c = s => diary[s] = "free" /\ \A k \in Handlers : k # h => hand[k] # s
      BY <1>3, <2>1 DEF Clear
    <3>4. Held(s)'
      BY <1>1, <2>3, <3>2, <3>3 DEF Held, AboutToBook
    <3>5. Offered(s)'
      BY <1>1, <2>3, <3>2 DEF Offered
    <3>6. Hers(s)'
      BY <1>1, <2>3, <3>2, <3>3 DEF Hers
    <3> QED
      BY <1>1, <3>2, <3>4, <3>5, <3>6 DEF Right
  <2> QED
    BY <2>2, <2>4 DEF OffersInv
<1> QED
  BY <1>2, <1>3 DEF C!CheckAvailability

LEMMA HoldOffers ==
  ASSUME OffersInv, NEW h \in Handlers, C!HoldOffer(h)
  PROVE  OffersInv'
<1> DEFINE c == hand[h]
           q == IF c \in Slots THEN "offered" ELSE "say"
<1>1. /\ pc[h] = "hold" /\ pc' = [pc EXCEPT ![h] = q]
      /\ UNCHANGED <<hand, diary, told, meant, bookings, wronged>>
      /\ contested' = IF \E k \in Handlers \ {h} : pc[k] = "offered"
                      THEN contested \cup ({c} \cap Slots) ELSE contested
      /\ \/ offer' = c /\ UNCHANGED orphaned
         \/ orphaned' = orphaned \cup ({c, offer} \cap Slots) /\ UNCHANGED offer
  BY DEF C!HoldOffer, C!Goto
<1>2. OffersTyped'
  BY <1>1, HandTyped DEF OffersInv, OffersTyped, PCs, C!AfterCount
<1>3. pc'[h] = q /\ \A k \in Handlers : k # h => pc'[k] = pc[k]
  BY <1>1 DEF OffersInv, OffersTyped
<1>4. contested \subseteq contested' /\ orphaned \subseteq orphaned'
  BY <1>1
<1>5. ASSUME NEW s \in Slots PROVE SlotInv(s)'
  <2>1. SlotInv(s)
    BY DEF OffersInv
  <2> SUFFICES ASSUME Clear(s)' PROVE Held(s)' /\ Offered(s)' /\ Hers(s)' /\ Right(s)'
    BY <1>1, <2>1 DEF SlotInv
  <2>2. Held(s) /\ Offered(s) /\ Hers(s) /\ Right(s)
    BY <1>4, <2>1 DEF Clear, SlotInv
  <2>3. /\ c = s => \A k \in Handlers : k # h => pc[k] # "offered"
        /\ c = s => offer' = s
        /\ offer' = s => c = s
    BY <1>1 DEF Clear
  <2>4. c = s => diary[s] # "hers"
    BY <1>1, <2>2 DEF Hers
  <2>5. Held(s)'
    BY <1>1, <1>3, <2>2 DEF Held, AboutToBook
  <2>6. Offered(s)'
    BY <1>1, <1>3, <2>3 DEF Offered
  <2>7. Hers(s)'
    BY <1>1, <1>3, <2>2, <2>3, <2>4 DEF Hers
  <2> QED
    BY <1>1, <2>2, <2>5, <2>6, <2>7 DEF Right
<1> QED
  BY <1>2, <1>5 DEF OffersInv

LEMMA SayOffers ==
  ASSUME OffersInv, NEW h \in Handlers, C!Say(h)
  PROVE  OffersInv'
<1>1. /\ pc[h] \in {"offered", "say"} /\ pc' = [pc EXCEPT ![h] = "credit"]
      /\ hand' = [hand EXCEPT ![h] = Nothing] /\ meant' = [meant EXCEPT ![h] = Nothing]
      /\ \/ /\ told' = IF pc[h] = "offered" THEN hand[h] ELSE told
            /\ UNCHANGED orphaned
         \/ /\ orphaned' = IF pc[h] = "offered" THEN orphaned \cup {hand[h]} ELSE orphaned
            /\ UNCHANGED told
      /\ UNCHANGED <<offer, diary, bookings, wronged, contested>>
  BY DEF C!Say, C!Goto, C!PutDown
<1>2. OffersTyped'
  BY <1>1, HandTyped DEF OffersInv, OffersTyped, PCs
<1>3. /\ pc'[h] = "credit" /\ hand'[h] = Nothing
      /\ \A k \in Handlers : k # h => pc'[k] = pc[k] /\ hand'[k] = hand[k] /\ meant'[k] = meant[k]
  BY <1>1 DEF OffersInv, OffersTyped
<1>4. ASSUME NEW s \in Slots PROVE SlotInv(s)'
  <2>1. SlotInv(s) /\ s # Nothing
    BY NothingAssumption DEF OffersInv
  <2> SUFFICES ASSUME Clear(s)' PROVE Held(s)' /\ Offered(s)' /\ Hers(s)' /\ Right(s)'
    BY <1>1, <2>1 DEF SlotInv
  <2>0. Clear(s) /\ (pc[h] = "offered" /\ hand[h] = s => told' = s)
    BY <1>1 DEF Clear
  <2>2. Held(s) /\ Offered(s) /\ Hers(s) /\ Right(s)
    BY <2>0, <2>1 DEF SlotInv
  <2>3. Held(s)'
    BY <1>3, <2>1, <2>2 DEF Held
  <2>4. Offered(s)'
    <3> SUFFICES ASSUME offer = s
                 PROVE  /\ told' = s \/ \E k \in Handlers : pc'[k] = "offered" /\ hand'[k] = s
                        /\ \A k \in Handlers : pc'[k] = "offered" => hand'[k] = s
      BY <1>1 DEF Offered
    <3>1. /\ told = s \/ \E k \in Handlers : pc[k] = "offered" /\ hand[k] = s
          /\ \A k \in Handlers : pc[k] = "offered" => hand[k] = s
      BY <2>2 DEF Offered
    <3>2. \A k \in Handlers : pc'[k] = "offered" => pc[k] = "offered" /\ k # h
      BY <1>3
    <3>3. CASE pc[h] = "offered"
      BY <1>3, <2>0, <3>1, <3>2, <3>3
    <3>4. CASE pc[h] # "offered"
      BY <1>1, <1>3, <3>1, <3>2, <3>4
    <3> QED
      BY <3>3, <3>4
  <2>5. Hers(s)'
    BY <1>1, <1>3, <2>1, <2>2 DEF Hers
  <2> QED
    BY <1>1, <2>2, <2>3, <2>4, <2>5 DEF Right
<1> QED
  BY <1>2, <1>4 DEF OffersInv

\* What others do: the column may go stale, and a slot that is not hers change hands.
LEMMA OthersOffers ==
  ASSUME OffersInv, UNCHANGED <<pc, hand, meant, told, bookings, wronged, contested, orphaned>>,
         offer' \in {offer, Nothing}, diary' \in [Slots -> {"free", "hers", "other's"}],
         \A s \in Slots : diary'[s] = "hers" <=> diary[s] = "hers"
  PROVE  OffersInv'
<1>1. OffersTyped'
  BY DEF OffersInv, OffersTyped
<1>2. ASSUME NEW s \in Slots PROVE SlotInv(s)'
  <2>1. SlotInv(s) /\ s # Nothing
    BY NothingAssumption DEF OffersInv
  <2> QED
    BY <2>1 DEF SlotInv, Clear, Held, Offered, Hers, Right
<1> QED
  BY <1>1, <1>2 DEF OffersInv

LEMMA OffersNext == OffersInv /\ [C!Next]_C!vars => OffersInv'
<1> SUFFICES ASSUME OffersInv, [C!Next]_C!vars PROVE OffersInv'
  OBVIOUS
<1>0. diary \in [Slots -> {"free", "hers", "other's"}]
  BY DEF OffersInv, OffersTyped
<1>1. ASSUME NEW h \in Handlers, C!Webhook(h) \/ C!AutoReply(h) PROVE OffersInv'
  BY <1>1, WebhookOffers, ReadOffers, CountOffers, UnderstandOffers, CheckSlotOffers, InsertOffers,
     ClearOfferOffers, AvailabilityOffers, HoldOffers, SayOffers, WordsOffers DEF C!AutoReply
<1>2. CASE C!TakeOver \/ C!ResumeAssistant \/ C!StaffReplies \/ C!StaffReplyClears
  <2>1. UNCHANGED <<offer, diary, pc, hand, meant, told, bookings, wronged, contested, orphaned>>
    BY <1>2 DEF C!TakeOver, C!ResumeAssistant, C!StaffReplies, C!StaffReplyClears, C!record, C!local, C!offers
  <2> QED
    BY <1>0, <2>1, OthersOffers
<1>3. ASSUME NEW s \in Slots, C!DiaryMoves(s) PROVE OffersInv'
  <2>1. /\ UNCHANGED <<offer, pc, hand, meant, told, bookings, wronged, contested, orphaned>>
        /\ diary[s] # "hers"
        /\ diary' = [diary EXCEPT ![s] = IF @ = "free" THEN "other's" ELSE "free"]
    BY <1>3 DEF C!DiaryMoves, C!local, C!offers
  <2>2. diary' \in [Slots -> {"free", "hers", "other's"}] /\ \A t \in Slots : diary'[t] = "hers" <=> diary[t] = "hers"
    BY <1>0, <2>1
  <2> QED
    BY <2>1, <2>2, OthersOffers
<1>4. CASE C!OfferGoesStale
  <2>1. /\ UNCHANGED <<diary, pc, hand, meant, told, bookings, wronged, contested, orphaned>>
        /\ offer' = Nothing
    BY <1>4 DEF C!OfferGoesStale, C!local, C!offers
  <2> QED
    BY <1>0, <2>1, OthersOffers
<1>5. CASE UNCHANGED C!vars
  <2>1. UNCHANGED <<offer, diary, pc, hand, meant, told, bookings, wronged, contested, orphaned>>
    BY <1>5 DEF C!vars, C!record, C!local, C!offers
  <2> QED
    BY <1>0, <2>1, OthersOffers
<1> QED
  BY <1>1, <1>2, <1>3, <1>4, <1>5 DEF C!Next

LEMMA OffersBook == OffersInv => C!YesBooksTheOffer
BY DEF OffersInv, SlotInv, Clear, Right, OffersTyped, C!YesBooksTheOffer
-----------------------------------------------------------------------------
(* Ratings *)

Forms == {"idle", "create", "count", "score", "alert", "invite"}
Rated == {l \in Links : stars[l] # "none"}

\* Ratings with an alert of their own, or behind the one of their day.
Heard == {l \in Links : l \in alerted \/ behind[l] # Nothing}

RatingTyped ==
    /\ stars \in [Links -> {"none", "high", "low"}]
    /\ invited \in [Links -> [F!Triggers -> Nat]]
    /\ form \in [Requests -> Forms]
    /\ given \in [Requests -> {"high", "low"}]
    /\ link \in [Requests -> Links \cup {Nothing}]
    /\ \A r \in Requests : form[r] # "idle" => link[r] \in Links
    /\ seen \in [Requests -> {Cardinality(A) : A \in SUBSET Links}]
    /\ rushed \in BOOLEAN

\* What stands for a rating is an alert of another one.
Alerts ==
    /\ alerted \in SUBSET Links /\ todays \in alerted \cup {Nothing}
    /\ behind \in [Links -> alerted \cup {Nothing}]

\* The submission that rated l is still under way.
Author(r, l) == link[r] = l /\ form[r] \in {"count", "score", "alert", "invite"}

Uninvited(l) == \A t \in F!Triggers : invited[l][t] = 0

\* One submission follows each rating up, and nothing is invited before its end.
Followed(l) ==
    /\ stars[l] = "none" =>
          Uninvited(l) /\ l \notin Heard \cup cut /\ \A r \in Requests : ~Author(r, l)
    /\ \A r, q \in Requests : Author(r, l) /\ Author(q, l) => r = q
    /\ \A r \in Requests : Author(r, l) =>
          /\ given[r] = stars[l] /\ Uninvited(l)
          /\ form[r] = "alert" => given[r] = "low"
          /\ form[r] = "invite" /\ given[r] = "low" => l \in Heard \cup cut
    /\ l \in Heard => stars[l] = "low"
    /\ invited[l]["REVIEW_REQUEST"] <= 1
    /\ invited[l]["FEEDBACK_NEGATIVE"] > 0 => stars[l] = "low"
    /\ stars[l] # "none" /\ l \notin cut /\ (\A r \in Requests : ~Author(r, l)) =>
          /\ stars[l] = "low" <=> l \in Heard
          /\ invited[l]["REVIEW_REQUEST"] = IF l \in Strangers THEN 0 ELSE 1
          /\ stars[l] = "low" /\ l \notin Strangers <=> invited[l]["FEEDBACK_NEGATIVE"] = 1

\* The score counts every rating, or somebody is about to make it do so.
Scored ==
    ~rushed /\ cut = {} =>
        \/ \E r \in Requests : form[r] = "count"
        \/ \E r \in Requests : form[r] = "score" /\ seen[r] = Cardinality(Rated)
        \/ score = Cardinality(Rated) /\ \A r \in Requests : form[r] # "score"

RatingInv == RatingTyped /\ Alerts /\ (\A l \in Links : Followed(l)) /\ Scored

LEMMA RatingInit == F!Init => RatingInv
<1> SUFFICES ASSUME F!Init PROVE RatingInv
  OBVIOUS
<1>0. alerted = {} /\ todays = Nothing /\ behind = [l \in Links |-> Nothing]
  BY DEF F!Init
<1>1. /\ stars = [l \in Links |-> "none"] /\ score = 0 /\ Heard = {} /\ cut = {} /\ rushed = FALSE
      /\ invited = [l \in Links |-> [t \in F!Triggers |-> 0]]
      /\ form = [r \in Requests |-> "idle"] /\ given = [r \in Requests |-> "high"]
      /\ link = [r \in Requests |-> Nothing] /\ seen = [r \in Requests |-> 0]
  BY <1>0 DEF F!Init, Heard
<1>2. Cardinality({}) = 0 /\ {} \in SUBSET Links
  BY FS_EmptySet
<1>3. 0 \in {Cardinality(A) : A \in SUBSET Links}
  BY <1>2
<1>4. RatingTyped
  BY <1>1, <1>3 DEF RatingTyped, Forms
<1>5. \A l \in Links : Followed(l)
  BY <1>1 DEF Followed, Author, Uninvited, F!Triggers
<1>6. Rated = {}
  BY <1>1 DEF Rated
<1>7. Alerts
  BY <1>0 DEF Alerts
<1> QED
  BY <1>1, <1>2, <1>4, <1>5, <1>6, <1>7 DEF RatingInv, Scored

\* A submission goes on to its next statement, having rated nothing and invited nobody.
LEMMA SubmissionMoves ==
  ASSUME RatingInv, NEW r \in Requests, NEW f \in Forms,
         form' = [form EXCEPT ![r] = f], UNCHANGED <<stars, invited>>,
         link' \in [Requests -> Links \cup {Nothing}], given' \in [Requests -> {"high", "low"}],
         seen' \in [Requests -> {Cardinality(A) : A \in SUBSET Links}], rushed' \in BOOLEAN,
         \A q \in Requests : q # r => link'[q] = link[q] /\ given'[q] = given[q],
         \/ form[r] \in {"idle", "create"} /\ f \in {"idle", "create"} /\ UNCHANGED <<Heard, cut>>
         \/ /\ form[r] \notin {"idle", "create"} /\ f \notin {"idle", "create"}
            /\ UNCHANGED <<link, given>>
            /\ Heard' = Heard \/ (given[r] = "low" /\ Heard' = Heard \cup {link[r]})
            /\ cut' = cut \/ cut' = cut \cup {link[r]}
            /\ f = "alert" => given[r] = "low"
            /\ f = "invite" /\ given[r] = "low" => link[r] \in Heard' \cup cut'
         \/ /\ form[r] \notin {"idle", "create"} /\ f = "idle"
            /\ cut' = cut \cup {link[r]} /\ UNCHANGED <<link, given, Heard>>,
         f # "idle" => link'[r] \in Links
  PROVE  RatingTyped' /\ \A l \in Links : Followed(l)'
<1>1. /\ form'[r] = f /\ \A q \in Requests : q # r => form'[q] = form[q]
      /\ \A q \in Requests : form[q] # "idle" => link[q] \in Links
      /\ \A l \in Links : Followed(l)
  BY DEF RatingInv, RatingTyped
<1>2. RatingTyped'
  BY <1>1 DEF RatingInv, RatingTyped
<1>3. ASSUME NEW l \in Links PROVE Followed(l)'
  <2>0. Followed(l) /\ stars[l] \in {"none", "high", "low"}
    BY DEF RatingInv, RatingTyped
  <2>1. CASE form[r] \in {"idle", "create"} /\ f \in {"idle", "create"} /\ UNCHANGED <<Heard, cut>>
    <3>1. ~Author(r, l) /\ ~Author(r, l)'
      BY <1>1, <2>1 DEF Author
    <3>2. \A q \in Requests : q # r =>
             (Author(q, l)' <=> Author(q, l)) /\ form'[q] = form[q] /\ given'[q] = given[q]
      BY <1>1 DEF Author
    <3> QED
      BY <2>0, <2>1, <3>1, <3>2 DEF Followed, Uninvited
  <2>2. CASE /\ form[r] \notin {"idle", "create"} /\ f \notin {"idle", "create"}
             /\ UNCHANGED <<link, given>>
             /\ Heard' = Heard \/ (given[r] = "low" /\ Heard' = Heard \cup {link[r]})
             /\ cut' = cut \/ cut' = cut \cup {link[r]}
             /\ f = "alert" => given[r] = "low"
             /\ f = "invite" /\ given[r] = "low" => link[r] \in Heard' \cup cut'
    <3>1. \A q \in Requests : Author(q, l)' <=> Author(q, l)
      BY <1>1, <2>2 DEF Author, RatingInv, RatingTyped, Forms
    <3>2. link[r] = l => Author(r, l)
      BY <1>1, <2>2 DEF Author, RatingInv, RatingTyped, Forms
    <3>3. CASE link[r] # l
      <4>1. /\ l \in Heard' <=> l \in Heard
            /\ l \in cut' <=> l \in cut
            /\ \A q \in Requests : Author(q, l) => q # r /\ form'[q] = form[q]
        BY <1>1, <2>2, <3>3 DEF Author
      <4> QED
        BY <2>0, <2>2, <3>1, <4>1 DEF Followed, Uninvited
    <3>4. CASE link[r] = l
      <4>1. /\ given[r] = stars[l] /\ Uninvited(l) /\ stars[l] # "none"
            /\ \A q \in Requests : Author(q, l) => q = r
        BY <2>0, <3>2, <3>4 DEF Followed
      <4>2. l \in Heard' => stars[l] = "low"
        BY <2>0, <2>2, <4>1 DEF Followed
      <4>3. Uninvited(l)' /\ Author(r, l)'
        BY <3>1, <3>2, <3>4, <4>1 DEF Uninvited
      <4> QED
        BY <1>1, <2>0, <2>2, <3>1, <3>4, <4>1, <4>2, <4>3 DEF Followed
    <3> QED
      BY <3>3, <3>4
  <2>3. CASE /\ form[r] \notin {"idle", "create"} /\ f = "idle"
             /\ cut' = cut \cup {link[r]} /\ UNCHANGED <<link, given, Heard>>
    <3>1. \A q \in Requests : Author(q, l)' <=> Author(q, l) /\ q # r
      BY <1>1, <2>3 DEF Author
    <3>2. \A q \in Requests : q # r => form'[q] = form[q]
      BY <1>1
    <3>3. link[r] = l => Author(r, l)
      BY <1>1, <2>3 DEF Author, RatingInv, RatingTyped, Forms
    <3>4. CASE link[r] # l
      <4>1. (l \in cut' <=> l \in cut) /\ \A q \in Requests : Author(q, l)' <=> Author(q, l)
        BY <2>3, <3>1, <3>4 DEF Author
      <4> QED
        BY <2>0, <2>3, <3>1, <3>2, <4>1 DEF Followed, Uninvited
    <3>5. CASE link[r] = l
      <4>1. l \in cut' /\ stars[l] # "none" /\ \A q \in Requests : ~Author(q, l)'
        BY <2>0, <2>3, <3>1, <3>3, <3>5 DEF Followed
      <4> QED
        BY <2>0, <2>3, <4>1 DEF Followed
    <3> QED
      BY <3>4, <3>5
  <2> QED
    BY <2>1, <2>2, <2>3
<1> QED
  BY <1>2, <1>3

\* Nobody has rated, counted, or written the score: it stays as right as it was.
LEMMA ScoreStays ==
  ASSUME RatingInv, NEW r \in Requests, NEW f \in {"idle", "create", "alert", "invite"},
         form' = [form EXCEPT ![r] = f], UNCHANGED <<stars, score, seen, rushed>>,
         cut \subseteq cut', form[r] \in {"idle", "create", "alert", "invite"}
  PROVE  Scored'
<1>1. form'[r] = f /\ \A q \in Requests : q # r => form'[q] = form[q]
  BY DEF RatingInv, RatingTyped
<1>2. Rated' = Rated
  BY DEF Rated
<1>3. Scored
  BY DEF RatingInv
<1> SUFFICES ASSUME ~rushed', cut' = {} PROVE Scored'
  BY DEF Scored
<1>4. cut = {} /\ ~rushed
  OBVIOUS
<1> QED
  BY <1>1, <1>2, <1>3, <1>4 DEF Scored

LEMMA AlertsStand ==
  ASSUME RatingInv, UNCHANGED <<alerted, behind>>, todays' \in {todays, Nothing}
  PROVE  Alerts' /\ Heard' = Heard
BY DEF RatingInv, Alerts, Heard

LEMMA AskSubmitRates ==
  ASSUME RatingInv, NEW r \in Requests, NEW l \in Links, NEW s \in {"high", "low"}, F!AskSubmit(r, l, s)
  PROVE  RatingInv'
<1>0. Alerts' /\ Heard' = Heard
  <2>1. UNCHANGED <<alerted, behind, todays>>
    BY DEF F!AskSubmit, F!rows
  <2> QED
    BY <2>1, AlertsStand
<1>1. /\ form[r] = "idle" /\ form' = [form EXCEPT ![r] = "create"]
      /\ link' = [link EXCEPT ![r] = l] /\ given' = [given EXCEPT ![r] = s]
      /\ UNCHANGED <<stars, score, Heard, invited, seen, rushed, cut>>
  BY <1>0 DEF F!AskSubmit, F!Goto, F!rows
<1>2. /\ link' \in [Requests -> Links \cup {Nothing}] /\ given' \in [Requests -> {"high", "low"}]
      /\ \A q \in Requests : q # r => link'[q] = link[q] /\ given'[q] = given[q]
      /\ link'[r] \in Links
      /\ seen \in [Requests -> {Cardinality(A) : A \in SUBSET Links}] /\ rushed \in BOOLEAN
  BY <1>1 DEF RatingInv, RatingTyped
<1>3. RatingTyped' /\ \A k \in Links : Followed(k)'
  BY <1>1, <1>2, SubmissionMoves DEF Forms
<1> QED
  BY <1>0, <1>1, <1>3, ScoreStays DEF RatingInv

LEMMA CreateRates ==
  ASSUME RatingInv, NEW r \in Requests, F!Create(r)
  PROVE  RatingInv'
<1> DEFINE l == link[r]
<1>0. Alerts' /\ Heard' = Heard
  <2>1. UNCHANGED <<alerted, behind, todays>>
    BY DEF F!Create
  <2> QED
    BY <2>1, AlertsStand
<1>1. /\ form[r] = "create" /\ stars[l] = "none"
      /\ form' = [form EXCEPT ![r] = "count"] /\ stars' = [stars EXCEPT ![l] = given[r]]
      /\ UNCHANGED <<score, Heard, invited, link, given, seen, rushed, cut>>
  BY <1>0 DEF F!Create, F!Goto, F!KeyFree
<1>2. l \in Links /\ given[r] \in {"high", "low"}
  BY <1>1 DEF RatingInv, RatingTyped
<1>3. /\ form'[r] = "count" /\ \A q \in Requests : q # r => form'[q] = form[q]
      /\ stars'[l] = given[r] /\ \A k \in Links : k # l => stars'[k] = stars[k]
  BY <1>1, <1>2 DEF RatingInv, RatingTyped
<1>4. RatingTyped'
  BY <1>1, <1>2 DEF RatingInv, RatingTyped, Forms
<1>5. ASSUME NEW k \in Links PROVE Followed(k)'
  <2>1. Followed(k)
    BY DEF RatingInv
  <2>2. CASE k = l
    <3>1. Uninvited(k) /\ k \notin Heard \cup cut /\ \A q \in Requests : ~Author(q, k)
      BY <1>1, <2>1, <2>2 DEF Followed
    <3>2. \A q \in Requests : Author(q, k)' <=> q = r
      BY <1>1, <1>3, <2>2, <3>1 DEF Author
    <3>3. stars'[k] = given'[r] /\ stars'[k] # "none" /\ form'[r] = "count"
      BY <1>1, <1>2, <1>3, <2>2
    <3>4. Uninvited(k)' /\ k \notin Heard' \cup cut'
      BY <1>1, <3>1 DEF Uninvited
    <3>5. invited'[k]["REVIEW_REQUEST"] = 0 /\ invited'[k]["FEEDBACK_NEGATIVE"] = 0
      BY <3>4 DEF Uninvited, F!Triggers
    <3> QED
      BY <3>2, <3>3, <3>4, <3>5 DEF Followed
  <2>3. CASE k # l
    <3>1. \A q \in Requests : (Author(q, k)' <=> Author(q, k)) /\ (Author(q, k) => q # r)
      BY <1>1, <1>3, <2>3 DEF Author
    <3> QED
      BY <1>1, <1>3, <2>1, <2>3, <3>1 DEF Followed, Uninvited
  <2> QED
    BY <2>2, <2>3
<1>6. Scored'
  BY <1>3 DEF Scored
<1> QED
  BY <1>0, <1>4, <1>5, <1>6 DEF RatingInv

LEMMA CreateTooLateRates ==
  ASSUME RatingInv, NEW r \in Requests, F!CreateTooLate(r)
  PROVE  RatingInv'
<1>0. Alerts' /\ Heard' = Heard
  <2>1. UNCHANGED <<alerted, behind, todays>>
    BY DEF F!CreateTooLate, F!rows
  <2> QED
    BY <2>1, AlertsStand
<1>1. /\ form[r] = "create" /\ form' = [form EXCEPT ![r] = "idle"]
      /\ UNCHANGED <<stars, score, Heard, invited, link, given, seen, rushed, cut>>
  BY <1>0 DEF F!CreateTooLate, F!Goto, F!rows
<1>2. RatingTyped
  BY DEF RatingInv
<1>3. RatingTyped' /\ \A k \in Links : Followed(k)'
  BY <1>1, <1>2, SubmissionMoves DEF Forms, RatingTyped
<1> QED
  BY <1>0, <1>1, <1>3, ScoreStays DEF RatingInv

LEMMA CountRates ==
  ASSUME RatingInv, NEW r \in Requests, F!CountRatings(r)
  PROVE  RatingInv'
<1>0. Alerts' /\ Heard' = Heard
  <2>1. UNCHANGED <<alerted, behind, todays>>
    BY DEF F!CountRatings, F!rows
  <2> QED
    BY <2>1, AlertsStand
<1>1. /\ form[r] = "count" /\ form' = [form EXCEPT ![r] = "score"]
      /\ seen' = [seen EXCEPT ![r] = Cardinality(Rated)]
      /\ UNCHANGED <<stars, score, Heard, invited, link, given, rushed, cut>>
  BY <1>0 DEF F!CountRatings, F!Goto, F!rows, Rated, F!Cardinality, Cardinality
<1>2. RatingTyped /\ link[r] \in Links
  BY <1>1 DEF RatingInv, RatingTyped
<1>3. Rated \in SUBSET Links /\ Rated' = Rated
  BY <1>1 DEF Rated
<1>4. seen' \in [Requests -> {Cardinality(A) : A \in SUBSET Links}]
  BY <1>1, <1>2, <1>3 DEF RatingTyped
<1>5. RatingTyped' /\ \A k \in Links : Followed(k)'
  BY <1>1, <1>2, <1>4, SubmissionMoves DEF Forms, RatingTyped
<1>6. form'[r] = "score" /\ seen'[r] = Cardinality(Rated)'
  BY <1>1, <1>2, <1>3 DEF RatingTyped
<1> QED
  BY <1>0, <1>5, <1>6 DEF RatingInv, Scored

LEMMA WriteRates ==
  ASSUME RatingInv, NEW r \in Requests, F!WriteScore(r)
  PROVE  RatingInv'
<1> DEFINE f == IF given[r] = "low" THEN "alert" ELSE "invite"
<1>0. Alerts' /\ Heard' = Heard
  <2>1. UNCHANGED <<alerted, behind, todays>>
    BY DEF F!WriteScore
  <2> QED
    BY <2>1, AlertsStand
<1>1. /\ form[r] = "score" /\ form' = [form EXCEPT ![r] = f] /\ score' = seen[r]
      /\ rushed' = (rushed \/ \E q \in Requests \ {r} : form[q] = "score")
      /\ UNCHANGED <<stars, Heard, invited, link, given, seen, cut>>
  BY <1>0 DEF F!WriteScore, F!Goto
<1>2. RatingTyped /\ link[r] \in Links /\ rushed' \in BOOLEAN
  BY <1>1 DEF RatingInv, RatingTyped
<1>3. f \in Forms /\ (f = "alert" => given[r] = "low") /\ f \notin {"idle", "create"}
      /\ (f = "invite" => given[r] # "low")
  BY DEF Forms
<1>4. RatingTyped' /\ \A k \in Links : Followed(k)'
  <2> HIDE DEF f
  <2> QED
    BY <1>1, <1>2, <1>3, SubmissionMoves DEF RatingTyped
<1>5. ASSUME ~rushed', cut' = {} PROVE Scored'
  <2>1. Rated' = Rated /\ Scored
    BY <1>1 DEF Rated, RatingInv
  <2>2. form'[r] = f /\ \A q \in Requests : q # r => form'[q] = form[q] /\ form[q] # "score"
    BY <1>1, <1>2, <1>5 DEF RatingTyped
  <2>3. \A q \in Requests : form'[q] # "score"
    BY <2>2
  <2>4. CASE \E q \in Requests : form[q] = "count"
    <3>1. PICK q \in Requests : form[q] = "count"
      BY <2>4
    <3>2. form'[q] = "count"
      BY <1>1, <2>2, <3>1
    <3> QED
      BY <3>2 DEF Scored
  <2>5. CASE seen[r] = Cardinality(Rated)
    BY <1>1, <2>1, <2>3, <2>5 DEF Scored
  <2> QED
    BY <1>1, <1>5, <2>1, <2>2, <2>4, <2>5 DEF Scored
<1> QED
  BY <1>0, <1>4, <1>5 DEF RatingInv, Scored

LEMMA AlertRates ==
  ASSUME RatingInv, NEW r \in Requests, F!Alert(r)
  PROVE  RatingInv'
<1>1. /\ form[r] = "alert" /\ form' = [form EXCEPT ![r] = "invite"]
      /\ \/ todays = Nothing /\ todays' = link[r] /\ alerted' = alerted \cup {link[r]} /\ UNCHANGED behind
         \/ /\ todays # Nothing /\ behind' = [behind EXCEPT ![link[r]] = todays]
            /\ UNCHANGED <<alerted, todays>>
      /\ UNCHANGED <<stars, score, invited, link, given, seen, rushed, cut>>
  BY DEF F!Alert, F!Goto
<1>2. RatingTyped /\ link[r] \in Links /\ Alerts
  BY <1>1 DEF RatingInv, RatingTyped
<1>3. given[r] = "low"
  BY <1>1, <1>2 DEF RatingInv, Followed, Author
<1>4. Alerts' /\ Heard' = Heard \cup {link[r]}
  BY <1>1, <1>2 DEF Alerts, Heard
<1>5. RatingTyped' /\ \A k \in Links : Followed(k)'
  BY <1>1, <1>2, <1>3, <1>4, SubmissionMoves DEF Forms, RatingTyped
<1> QED
  BY <1>1, <1>4, <1>5, ScoreStays DEF RatingInv

LEMMA InviteRates ==
  ASSUME RatingInv, NEW r \in Requests, F!Invite(r)
  PROVE  RatingInv'
<1> DEFINE l == link[r]
           mood == IF given[r] = "low" THEN "FEEDBACK_NEGATIVE" ELSE "FEEDBACK_POSITIVE"
<1>0. Alerts' /\ Heard' = Heard
  <2>1. UNCHANGED <<alerted, behind, todays>>
    BY DEF F!Invite
  <2> QED
    BY <2>1, AlertsStand
<1>1. /\ form[r] = "invite" /\ form' = [form EXCEPT ![r] = "idle"]
      /\ l \in Strangers => UNCHANGED invited
      /\ l \notin Strangers =>
            invited' = [invited EXCEPT ![l] = [t \in F!Triggers |->
                            IF t \in {mood, "REVIEW_REQUEST"} THEN @[t] + 1 ELSE @[t]]]
      /\ UNCHANGED <<stars, score, Heard, link, given, seen, rushed, cut>>
  BY <1>0 DEF F!Invite, F!Goto
<1>2. l \in Links /\ RatingTyped
  BY <1>1 DEF RatingInv, RatingTyped
<1>3. /\ invited'[l] = [t \in F!Triggers |->
                            IF l \notin Strangers /\ t \in {mood, "REVIEW_REQUEST"}
                            THEN invited[l][t] + 1 ELSE invited[l][t]]
      /\ \A k \in Links : k # l => invited'[k] = invited[k]
      /\ form'[r] = "idle" /\ \A q \in Requests : q # r => form'[q] = form[q]
  <2>1. invited[l] \in [F!Triggers -> Nat]
    BY <1>2 DEF RatingTyped
  <2> QED
    BY <1>1, <1>2, <2>1 DEF RatingTyped
<1>4. RatingTyped'
  <2>1. invited'[l] \in [F!Triggers -> Nat]
    BY <1>2, <1>3 DEF RatingTyped
  <2>2. invited' \in [Links -> [F!Triggers -> Nat]]
    BY <1>1, <1>2, <1>3, <2>1 DEF RatingTyped
  <2> QED
    BY <1>1, <1>2, <2>2 DEF RatingTyped, Forms
<1>5. ASSUME NEW k \in Links PROVE Followed(k)'
  <2>1. Followed(k) /\ stars[k] \in {"none", "high", "low"}
    BY <1>2 DEF RatingInv, RatingTyped
  <2>2. CASE k = l
    <3>1. Author(r, k) /\ given[r] \in {"high", "low"}
      BY <1>1, <1>2, <2>2 DEF Author, RatingTyped
    <3>2. /\ given[r] = stars[k] /\ Uninvited(k) /\ \A q \in Requests : Author(q, k) => q = r
          /\ given[r] = "low" => k \in Heard \cup cut
          /\ k \in Heard => stars[k] = "low"
      BY <1>1, <2>1, <3>1 DEF Followed
    <3>3. \A q \in Requests : ~Author(q, k)'
      BY <1>1, <1>3, <3>2 DEF Author
    <3>4. /\ invited'[k]["REVIEW_REQUEST"] = IF k \in Strangers THEN 0 ELSE 1
          /\ invited'[k]["FEEDBACK_NEGATIVE"] = IF given[r] = "low" /\ k \notin Strangers THEN 1 ELSE 0
      BY <1>3, <2>2, <3>2 DEF Uninvited, F!Triggers
    <3> QED
      BY <1>1, <3>1, <3>2, <3>3, <3>4 DEF Followed
  <2>3. CASE k # l
    <3>1. \A q \in Requests : (Author(q, k)' <=> Author(q, k)) /\ (Author(q, k) => q # r)
      BY <1>1, <1>3, <2>3 DEF Author
    <3> QED
      BY <1>1, <1>3, <2>1, <2>3, <3>1 DEF Followed, Uninvited
  <2> QED
    BY <2>2, <2>3
<1>6. Scored'
  BY <1>1, ScoreStays
<1> QED
  BY <1>0, <1>4, <1>5, <1>6 DEF RatingInv

LEMMA FailRates ==
  ASSUME RatingInv, NEW r \in Requests, F!Fail(r)
  PROVE  RatingInv'
<1>0. Alerts' /\ Heard' = Heard
  <2>1. UNCHANGED <<alerted, behind, todays>>
    BY DEF F!Fail, F!rows
  <2> QED
    BY <2>1, AlertsStand
<1>1. /\ form[r] # "idle"
      /\ cut' = IF form[r] = "create" THEN cut ELSE cut \cup {link[r]}
      /\ \/ form' = [form EXCEPT ![r] = "idle"]
         \/ form[r] = "alert" /\ form' = [form EXCEPT ![r] = "invite"]
      /\ UNCHANGED <<stars, score, Heard, invited, link, given, seen, rushed>>
  BY <1>0 DEF F!Fail, F!Goto, F!rows
<1>2. RatingTyped /\ link[r] \in Links
  BY <1>1 DEF RatingInv, RatingTyped
<1>3. CASE form[r] = "create"
  <2>1. form' = [form EXCEPT ![r] = "idle"] /\ cut' = cut
    BY <1>1, <1>3
  <2>2. RatingTyped' /\ \A k \in Links : Followed(k)'
    BY <1>1, <1>2, <1>3, <2>1, SubmissionMoves DEF Forms, RatingTyped
  <2> QED
    BY <1>0, <1>1, <1>3, <2>1, <2>2, ScoreStays DEF RatingInv
<1>4. CASE form[r] # "create"
  <2>1. cut' = cut \cup {link[r]}
    BY <1>1, <1>4
  <2>2. ASSUME form' = [form EXCEPT ![r] = "idle"]
        PROVE  RatingTyped' /\ \A k \in Links : Followed(k)'
    BY <1>1, <1>2, <1>4, <2>1, <2>2, SubmissionMoves DEF Forms, RatingTyped
  <2>3. ASSUME form[r] = "alert", form' = [form EXCEPT ![r] = "invite"]
        PROVE  RatingTyped' /\ \A k \in Links : Followed(k)'
    BY <1>1, <1>2, <1>4, <2>1, <2>3, SubmissionMoves DEF Forms, RatingTyped
  <2>4. Scored'
    BY <2>1 DEF Scored
  <2> QED
    BY <1>0, <1>1, <2>2, <2>3, <2>4 DEF RatingInv
<1> QED
  BY <1>3, <1>4

LEMMA RatingNext == RatingInv /\ [F!Next]_F!vars => RatingInv'
<1> SUFFICES ASSUME RatingInv, [F!Next]_F!vars PROVE RatingInv'
  OBVIOUS
<1>1. ASSUME NEW r \in Requests, F!Submit(r) PROVE RatingInv'
  BY <1>1, AskSubmitRates, CreateRates, CreateTooLateRates, CountRates, WriteRates, AlertRates,
     InviteRates, FailRates DEF F!Submit
<1>2. CASE UNCHANGED F!vars \/ (\E l \in Links : F!Resolve(l)) \/ F!NextDay
  <2>0. Alerts' /\ Heard' = Heard
    <3>1. UNCHANGED <<alerted, behind>> /\ todays' \in {todays, Nothing}
      BY <1>2 DEF F!vars, F!rows, F!submit, F!Resolve, F!NextDay
    <3> QED
      BY <3>1, AlertsStand
  <2>1. UNCHANGED <<stars, score, Heard, invited, form, link, given, seen, rushed, cut>>
    BY <1>2, <2>0 DEF F!vars, F!rows, F!submit, F!Resolve, F!NextDay
  <2>2. RatingTyped' /\ Rated' = Rated
    BY <2>1 DEF RatingInv, RatingTyped, Rated
  <2>3. \A l \in Links : Followed(l)'
    BY <2>1 DEF RatingInv, Followed, Uninvited, Author
  <2> QED
    BY <2>0, <2>1, <2>2, <2>3 DEF RatingInv, Scored
<1> QED
  BY <1>1, <1>2 DEF F!Next

LEMMA RatingFollowed == RatingInv => F!RatingIsFollowedUp
<1> SUFFICES ASSUME RatingInv PROVE F!RatingIsFollowedUp
  OBVIOUS
<1>1. F!Quiet => /\ \A r \in Requests, l \in Links : ~Author(r, l)
                 /\ \A r \in Requests : form[r] \notin {"count", "score"}
  BY DEF F!Quiet, Author
<1>2. \A l \in Links : Followed(l)
  BY DEF RatingInv
<1>3. F!Quiet /\ ~rushed /\ cut = {} => score = Cardinality(Rated)
  BY <1>1 DEF RatingInv, Scored
<1>4. ASSUME NEW l \in Links PROVE l \in Heard <=> l \in alerted \/ behind[l] \in alerted
  BY NothingAssumption DEF RatingInv, Alerts, Heard
<1>5. ASSUME NEW l \in Links
      PROVE  /\ invited[l]["REVIEW_REQUEST"] <= 1
             /\ invited[l]["FEEDBACK_NEGATIVE"] > 0 => stars[l] = "low"
             /\ F!Quiet /\ l \notin cut /\ stars[l] # "none" =>
                   /\ stars[l] = "low" <=> l \in alerted \/ behind[l] \in alerted
                   /\ invited[l]["REVIEW_REQUEST"] = IF l \in Strangers THEN 0 ELSE 1
                   /\ stars[l] = "low" /\ l \notin Strangers <=>
                          invited[l]["FEEDBACK_NEGATIVE"] = 1
  <2>1. Followed(l) /\ (l \in Heard <=> l \in alerted \/ behind[l] \in alerted)
    BY <1>2, <1>4
  <2> QED
    BY <1>1, <2>1 DEF Followed
<1> QED
  BY <1>3, <1>5 DEF F!RatingIsFollowedUp, Rated, F!Cardinality, Cardinality
-----------------------------------------------------------------------------
(* Suggestions for a review *)

\* A process that has the model write a set, or has one written.
Writes(p) == work[p] \in {"compose", "store"}

WordsInv ==
    /\ drafts \in Nat /\ line \in Nat /\ written \in Nat /\ apart \in BOOLEAN
    /\ work \in [Processes -> {"none", "read", "compose", "store"}]
    /\ bare \in [Processes -> BOOLEAN] /\ draft \in [Processes -> Nat]
    /\ \A p \in Processes :
          /\ work[p] = "store" => draft[p] > 0
          /\ Writes(p) /\ ~bare[p] => line # 0
    /\ drafts # 0 => line # 0
    /\ ~apart =>
          /\ \A p, q \in Processes : Writes(p) /\ Writes(q) => p = q
          /\ \A p \in Processes : Writes(p) => drafts = 0
          /\ \A n \in shown : n = drafts /\ n # 0

LEMMA WordsInit == S!Init => WordsInv
<1> SUFFICES ASSUME S!Init PROVE WordsInv
  OBVIOUS
<1>1. PICK p \in Processes : work = [q \in Processes |-> IF q = p THEN "read" ELSE "none"]
  BY DEF S!Init
<1> QED
  BY <1>1 DEF S!Init, WordsInv, Writes

\* A process has nothing more to write.
LEMMA WordsEnd ==
  ASSUME WordsInv, NEW p \in Processes, NEW n \in Nat, S!Answer(p, n),
         UNCHANGED <<bare, written>>, apart' \in BOOLEAN, apart => apart',
         drafts' \in Nat, line' \in Nat, line' # 0 \/ (line' = line /\ drafts' = drafts),
         \/ ~apart' => n = 0 /\ UNCHANGED drafts
         \/ n # 0 /\ drafts' = n /\ (drafts = n \/ Writes(p))
  PROVE  WordsInv'
<1>1. /\ work' = [work EXCEPT ![p] = "none"] /\ draft' = [draft EXCEPT ![p] = 0]
      /\ shown' \subseteq shown \cup ({n} \ {0})
  BY DEF S!Answer
<1>2. /\ \A q \in Processes : Writes(q)' => q # p /\ Writes(q)
      /\ \A q \in Processes : q # p => work'[q] = work[q] /\ draft'[q] = draft[q]
      /\ work'[p] = "none"
  BY <1>1 DEF WordsInv, Writes
<1>3. /\ work' \in [Processes -> {"none", "read", "compose", "store"}]
      /\ draft' \in [Processes -> Nat]
      /\ drafts' # 0 => line' # 0
      /\ \A q \in Processes :
            /\ work'[q] = "store" => draft'[q] > 0
            /\ Writes(q)' /\ ~bare'[q] => line' # 0
  BY <1>1, <1>2 DEF WordsInv
<1>4. ASSUME ~apart'
      PROVE  /\ \A q, k \in Processes : Writes(q)' /\ Writes(k)' => q = k
             /\ \A q \in Processes : Writes(q)' => drafts' = 0
             /\ \A m \in shown' : m = drafts' /\ m # 0
  <2>1. /\ \A q, k \in Processes : Writes(q) /\ Writes(k) => q = k
        /\ \A q \in Processes : Writes(q) => drafts = 0
        /\ \A m \in shown : m = drafts /\ m # 0
    BY <1>4 DEF WordsInv
  <2>2. CASE n = 0 /\ UNCHANGED drafts
    BY <1>1, <1>2, <2>1, <2>2
  <2>3. CASE n # 0 /\ drafts' = n /\ drafts = n
    BY <1>1, <1>2, <2>1, <2>3
  <2>4. CASE n # 0 /\ drafts' = n /\ Writes(p)
    BY <1>1, <1>2, <2>1, <2>4
  <2> QED
    BY <1>4, <2>2, <2>3, <2>4
<1> QED
  BY <1>3, <1>4 DEF WordsInv

LEMMA WordsToModel ==
  ASSUME WordsInv, NEW p \in Processes, work[p] = "read", drafts = 0, S!ToModel(p),
         UNCHANGED <<drafts, line, written>>
  PROVE  WordsInv'
<1>1. /\ work' = [work EXCEPT ![p] = "compose"] /\ bare' = [bare EXCEPT ![p] = line = 0]
      /\ apart' = (apart \/ \E q \in Processes \ {p} : work[q] \in {"compose", "store"})
      /\ UNCHANGED <<draft, shown>>
  BY DEF S!ToModel
<1>2. /\ work'[p] = "compose" /\ bare'[p] = (line = 0)
      /\ \A q \in Processes : q # p => work'[q] = work[q] /\ bare'[q] = bare[q]
      /\ work' \in [Processes -> {"none", "read", "compose", "store"}]
      /\ bare' \in [Processes -> BOOLEAN] /\ apart' \in BOOLEAN
  BY <1>1 DEF WordsInv
<1>3. \A q \in Processes :
          /\ work'[q] = "store" => draft'[q] > 0
          /\ Writes(q)' /\ ~bare'[q] => line' # 0
  BY <1>1, <1>2 DEF WordsInv, Writes
<1>4. ~apart' => \A q, k \in Processes : Writes(q)' /\ Writes(k)' => q = k
  BY <1>1, <1>2 DEF WordsInv, Writes
<1> QED
  BY <1>1, <1>2, <1>3, <1>4 DEF WordsInv

LEMMA DraftWords ==
  ASSUME WordsInv, NEW p \in Processes, S!Draft(p)
  PROVE  WordsInv'
<1>0. drafts \in Nat /\ line \in Nat /\ apart \in BOOLEAN /\ draft[p] \in Nat
      /\ (drafts # 0 => line # 0)
  BY DEF WordsInv
<1>1. CASE S!ReadRow(p)
  <2>1. CASE drafts # 0
    <3>1. S!Answer(p, drafts) /\ UNCHANGED <<bare, apart, drafts, line, written>>
      BY <1>1, <2>1 DEF S!ReadRow
    <3> QED
      BY <1>0, <2>1, <3>1, WordsEnd
  <2>2. CASE drafts = 0
    BY <1>1, <2>2, WordsToModel DEF S!ReadRow
  <2> QED
    BY <1>0, <2>1, <2>2
<1>2. CASE S!Compose(p)
  <2>1. /\ work[p] = "compose" /\ written' = written + 1
        /\ draft' = [draft EXCEPT ![p] = written + 1] /\ work' = [work EXCEPT ![p] = "store"]
        /\ UNCHANGED <<drafts, line, bare, shown, apart>>
    BY <1>2 DEF S!Compose
  <2>2. /\ \A q \in Processes : Writes(q)' <=> Writes(q)
        /\ \A q \in Processes : work'[q] = "store" => draft'[q] > 0
    BY <2>1 DEF WordsInv, Writes
  <2> QED
    BY <2>1, <2>2 DEF WordsInv
<1>3. CASE S!ComposeNothing(p) \/ S!Die(p)
  <2>1. S!Answer(p, 0) /\ UNCHANGED <<bare, apart, drafts, line, written>>
    BY <1>3 DEF S!ComposeNothing, S!Die
  <2> QED
    BY <1>0, <2>1, WordsEnd
<1>4. CASE S!Store(p)
  <2>1. /\ work[p] = "store" /\ drafts' = draft[p] /\ S!Answer(p, draft[p])
        /\ line' = IF bare[p] THEN draft[p] ELSE line
        /\ UNCHANGED <<bare, written, apart>>
    BY <1>4 DEF S!Store
  <2>2. draft[p] > 0 /\ Writes(p) /\ (~bare[p] => line # 0)
    BY <2>1 DEF WordsInv, Writes
  <2>3. line' # 0 /\ line' \in Nat
    BY <1>0, <2>1, <2>2
  <2> QED
    BY <1>0, <2>1, <2>2, <2>3, WordsEnd
<1>5. CASE S!StoreFails(p)
  <2>1. S!Answer(p, draft[p]) /\ apart' = TRUE /\ UNCHANGED <<bare, drafts, line, written>>
    BY <1>5 DEF S!StoreFails
  <2> QED
    BY <1>0, <2>1, WordsEnd
<1> QED
  BY <1>1, <1>2, <1>3, <1>4, <1>5 DEF S!Draft

LEMMA WordsNext == WordsInv /\ [S!Next]_S!vars => WordsInv'
<1> SUFFICES ASSUME WordsInv, [S!Next]_S!vars PROVE WordsInv'
  OBVIOUS
<1>1. ASSUME NEW p \in Processes, S!Ask(p) PROVE WordsInv'
  <2>1. UNCHANGED <<drafts, line, bare, draft, written, apart>>
    BY <1>1 DEF S!Ask
  <2>2. \/ drafts # 0 /\ shown' = shown \cup {drafts} /\ UNCHANGED work
        \/ /\ UNCHANGED shown
           /\ work' = work \/ (work[p] = "none" /\ work' = [work EXCEPT ![p] = "read"])
    BY <1>1 DEF S!Ask
  <2>3. /\ work' \in [Processes -> {"none", "read", "compose", "store"}]
        /\ \A q \in Processes : Writes(q)' <=> Writes(q)
        /\ \A q \in Processes : work'[q] = "store" <=> work[q] = "store"
    BY <2>2 DEF WordsInv, Writes
  <2> QED
    BY <2>1, <2>2, <2>3 DEF WordsInv
<1>2. CASE S!Analyse \/ UNCHANGED S!vars
  <2>1. UNCHANGED <<drafts, line, bare, draft, written, apart, work, shown>>
    BY <1>2 DEF S!Analyse, S!vars
  <2> QED
    BY <2>1 DEF WordsInv, Writes
<1>3. CASE S!StoreAnalysis
  <2>1. /\ UNCHANGED <<drafts, work, bare, draft, shown, apart>>
        /\ \/ written' = written + 1 /\ line' = written + 1
           \/ UNCHANGED <<written, line>>
    BY <1>3 DEF S!StoreAnalysis
  <2>2. \A q \in Processes : Writes(q)' <=> Writes(q)
    BY <2>1 DEF Writes
  <2> QED
    BY <2>1, <2>2 DEF WordsInv
<1> QED
  BY <1>1, <1>2, <1>3, DraftWords DEF S!Next

LEMMA WordsStay == WordsInv => S!SuggestionsStay
BY DEF WordsInv, S!SuggestionsStay
-----------------------------------------------------------------------------
(* The book of customers *)

LEMMA FunSeq ==
  ASSUME NEW Values, NEW n \in Nat, NEW f \in [1 .. n -> Values]
  PROVE  f \in Seq(Values) /\ Len(f) = n
OBVIOUS

\* The elements of a finite set of naturals have the ranks from 1 to its size, one each.
LEMMA Ranks ==
  ASSUME NEW A \in SUBSET Nat, IsFiniteSet(A)
  PROVE  LET rank(n) == Cardinality({m \in A : m <= n}) IN
         /\ \A n \in A : rank(n) \in 1 .. Cardinality(A)
         /\ \A n, k \in A : rank(n) = rank(k) => n = k
         /\ \A i \in 1 .. Cardinality(A) : \E n \in A : rank(n) = i
<1> DEFINE up(n) == {m \in A : m <= n}
           rank == [n \in A |-> Cardinality(up(n))]
<1>0. Cardinality(A) \in Nat
  BY FS_CardinalityType
<1>1. ASSUME NEW n \in A PROVE IsFiniteSet(up(n)) /\ Cardinality(up(n)) \in 1 .. Cardinality(A)
  <2>1. up(n) \in SUBSET A /\ {n} \in SUBSET up(n)
    OBVIOUS
  <2> HIDE DEF up
  <2>2. IsFiniteSet(up(n)) /\ Cardinality(up(n)) <= Cardinality(A)
    BY <2>1, FS_Subset
  <2>3. Cardinality({n}) <= Cardinality(up(n)) /\ Cardinality({n}) = 1
    BY <2>1, <2>2, FS_Subset, FS_Singleton
  <2>4. Cardinality(up(n)) \in Nat
    BY <2>2, FS_CardinalityType
  <2> QED
    BY <1>0, <2>2, <2>3, <2>4
<1>2. ASSUME NEW n \in A, NEW k \in A, n < k PROVE Cardinality(up(n)) # Cardinality(up(k))
  <2>0. n \in Nat /\ k \in Nat /\ ~(k <= n) /\ k <= k /\ \A m \in A : m <= n => m <= k
    BY <1>2
  <2>1. up(n) \in SUBSET up(k) /\ k \in up(k) /\ k \notin up(n)
    BY <2>0
  <2> HIDE DEF up
  <2> QED
    BY <1>1, <2>1, FS_Subset
<1>3. \A n, k \in A : Cardinality(up(n)) = Cardinality(up(k)) => n = k
  <2> HIDE DEF up
  <2> QED
    BY <1>2
<1>4. rank \in Injection(A, 1 .. Cardinality(A))
  <2>1. rank \in [A -> 1 .. Cardinality(A)]
    BY <1>1
  <2>2. \A n, k \in A : rank[n] = rank[k] => n = k
    BY <1>3
  <2> HIDE DEF rank
  <2> QED
    BY <2>1, <2>2 DEF Injection, IsInjective
<1>5. IsFiniteSet(1 .. Cardinality(A)) /\ Cardinality(1 .. Cardinality(A)) = Cardinality(A)
  BY <1>0, FS_Interval
<1>6. rank \in Surjection(A, 1 .. Cardinality(A))
  <2> HIDE DEF rank
  <2> QED
    BY <1>4, <1>5, FS_Injection
<1>7. \A i \in 1 .. Cardinality(A) : \E n \in A : Cardinality(up(n)) = i
  BY <1>6 DEF Surjection
<1> QED
  BY <1>1, <1>3, <1>7

PhoneSet == [number : Nat, typed : BOOLEAN]
RowSet == [phone : PhoneSet, code : Nat, bills : Nat, visits : Nat]
Statements == {"idle", "find", "count", "insert", "link", "limit", "create many", "write number",
               "write as typed", "bill", "merge", "tally"}
Ways == {"create", "walk in", "convert", "import", "update", "merge", "bill"}

BookTyped ==
    /\ book \in Seq(RowSet)
    /\ statement \in [Requests -> Statements] /\ way \in [Requests -> Ways]
    /\ about \in [Requests -> SUBSET Numbers]
    /\ mine \in [Requests -> Nat \X Nat]
    /\ counted \in [Requests -> Nat]
    /\ drops \in Nat /\ mixed \in BOOLEAN /\ short \in BOOLEAN

\* What a request has in hand is there.
InHand(r) ==
    /\ statement[r] \in {"find", "count", "insert", "link", "write number", "write as typed"} =>
          about[r] # {}
    /\ statement[r] \in {"write number", "write as typed", "bill", "merge", "tally"} =>
          mine[r][1] \in 1 .. Len(book)
    /\ statement[r] \in {"merge", "tally"} => mine[r][2] \in 1 .. Len(book)

OnePhone ==
    /\ \A c, d \in 1 .. Len(book) :
          book[c].phone = book[d].phone /\ book[c].phone # B!Merged => c = d
    /\ \A c \in 1 .. Len(book) : book[c].phone.typed => book[c].phone.number \in respelt

\* What a request has read still holds when it has the book to itself.
StillTrue(r) ==
    /\ statement[r] \in {"find", "count", "insert"} /\ way[r] = "create" => Len(book) + 1 <= Limit
    /\ statement[r] \in {"insert", "limit", "create many"} => counted[r] = Len(book)
    /\ statement[r] \in {"limit", "create many"} => \A n \in about[r] : B!KeyFree(B!Stored(n))
    /\ statement[r] = "create many" => Len(book) + Cardinality(about[r]) <= Limit

\* In turn, requests number the customers up to how many there are.
InTurn ==
    ~mixed =>
        /\ \A r, q \in Requests : statement[r] # "idle" /\ statement[q] # "idle" => r = q
        /\ \A r \in Requests : StillTrue(r)
        /\ \A c, d \in 1 .. Len(book) : book[c].code = book[d].code => c = d
        /\ \A c \in 1 .. Len(book) : book[c].code <= Len(book)
        /\ ~short
        /\ \A c \in asked : c <= Limit

\* Visits are wrong only between a merge and the count that follows it.
Tallied ==
    ~mixed /\ drops = 0 =>
        \A c \in 1 .. Len(book) :
            /\ c \notin husks
            /\ \A r \in Requests : statement[r] = "tally" => mine[r][2] # c
            => book[c].visits = book[c].bills

BookInv == BookTyped /\ (\A r \in Requests : InHand(r)) /\ OnePhone /\ InTurn /\ Tallied

LEMMA BookInit == B!Init => BookInv
<1> SUFFICES ASSUME B!Init PROVE BookInv
  OBVIOUS
<1>1. /\ book = <<>> /\ statement = [r \in Requests |-> "idle"]
      /\ way = [r \in Requests |-> "create"] /\ about = [r \in Requests |-> {}]
      /\ mine = [r \in Requests |-> <<0, 0>>] /\ counted = [r \in Requests |-> 0]
      /\ drops = 0 /\ mixed = FALSE /\ asked = {} /\ short = FALSE
  BY DEF B!Init
<1>2. book \in Seq(RowSet) /\ Len(book) = 0
  BY <1>1, EmptySeq
<1>3. BookTyped
  BY <1>1, <1>2 DEF BookTyped, Statements, Ways
<1>4. ~ \E c \in 1 .. Len(book) : TRUE
  BY <1>2
<1> QED
  BY <1>1, <1>3, <1>4 DEF BookInv, InHand, OnePhone, InTurn, StillTrue, Tallied

\* A request moves, and the others stay where they are.
Moves(r) ==
    /\ statement' \in [Requests -> Statements] /\ way' \in [Requests -> Ways]
    /\ about' \in [Requests -> SUBSET Numbers]
    /\ mine' \in [Requests -> Nat \X Nat] /\ counted' \in [Requests -> Nat]
    /\ \A q \in Requests : q # r =>
          /\ statement'[q] = statement[q] /\ way'[q] = way[q] /\ about'[q] = about[q]
          /\ mine'[q] = mine[q] /\ counted'[q] = counted[q]

\* It is alone, or the behaviour is one in which requests crossed.
AloneOrMixed(r) == ~mixed' => ~mixed /\ \A q \in Requests : q # r => statement[q] = "idle"

LEMMA EndMoves ==
  ASSUME BookInv, NEW r \in Requests, B!End(r)
  PROVE  Moves(r) /\ statement'[r] = "idle"
<1>1. /\ statement' = [statement EXCEPT ![r] = "idle"] /\ way' = [way EXCEPT ![r] = "create"]
      /\ about' = [about EXCEPT ![r] = {}] /\ mine' = [mine EXCEPT ![r] = <<0, 0>>]
      /\ counted' = [counted EXCEPT ![r] = 0]
  BY DEF B!End, B!Goto
<1>2. statement' \in [Requests -> Statements] /\ statement'[r] = "idle"
      /\ way' \in [Requests -> Ways] /\ about' \in [Requests -> SUBSET Numbers]
      /\ mine' \in [Requests -> Nat \X Nat] /\ counted' \in [Requests -> Nat]
  BY <1>1 DEF BookInv, BookTyped, Statements, Ways
<1> QED
  BY <1>1, <1>2 DEF Moves

LEMMA BusyAlone ==
  ASSUME BookInv, NEW r \in Requests, statement[r] # "idle", UNCHANGED mixed
  PROVE  AloneOrMixed(r)
BY DEF BookInv, InTurn, AloneOrMixed

\* The parts of the invariant that a move of r brings with it, whatever it writes.
LEMMA MovesKeep ==
  ASSUME BookInv, NEW r \in Requests, Moves(r), book' \in Seq(RowSet), Len(book) <= Len(book'),
         drops' \in Nat, mixed' \in BOOLEAN, short' \in BOOLEAN,
         InHand(r)', AloneOrMixed(r), ~mixed' => StillTrue(r)'
  PROVE  /\ BookTyped' /\ \A q \in Requests : InHand(q)'
         /\ ~mixed' =>
               /\ \A p, q \in Requests : statement'[p] # "idle" /\ statement'[q] # "idle" => p = q
               /\ \A q \in Requests : StillTrue(q)'
<1>1. BookTyped'
  BY DEF BookTyped, Moves
<1>2. Len(book) \in Nat /\ Len(book') \in Nat
  BY LenProperties DEF BookInv, BookTyped
<1>3. \A c : c \in 1 .. Len(book) => c \in 1 .. Len(book')
  BY <1>2
<1>4. ASSUME NEW q \in Requests PROVE InHand(q)'
  <2>1. InHand(q)
    BY DEF BookInv
  <2>2. CASE q # r
    BY <1>3, <2>1, <2>2 DEF InHand, Moves
  <2> QED
    BY <2>2
<1>5. ASSUME ~mixed'
      PROVE  /\ \A p, q \in Requests : statement'[p] # "idle" /\ statement'[q] # "idle" => p = q
             /\ \A q \in Requests : StillTrue(q)'
  <2>1. \A q \in Requests : q # r => statement'[q] = "idle"
    BY <1>5 DEF AloneOrMixed, Moves
  <2>2. \A q \in Requests : q # r => StillTrue(q)'
    BY <2>1 DEF StillTrue
  <2> QED
    BY <1>5, <2>1, <2>2
<1> QED
  BY <1>1, <1>4, <1>5

\* A step of r that leaves the book alone.
LEMMA BookStands ==
  ASSUME BookInv, NEW r \in Requests, Moves(r), UNCHANGED <<book, asked, respelt, short, husks>>,
         drops' \in Nat, drops # 0 => drops' # 0, mixed' \in BOOLEAN,
         InHand(r)', AloneOrMixed(r), ~mixed' => StillTrue(r)',
         statement[r] = "tally" => drops' # 0
  PROVE  BookInv'
<1>1. book' \in Seq(RowSet) /\ Len(book) \in Nat /\ Len(book) <= Len(book') /\ short' \in BOOLEAN
  BY LenProperties DEF BookInv, BookTyped
<1>2. /\ BookTyped' /\ \A q \in Requests : InHand(q)'
      /\ ~mixed' =>
            /\ \A p, q \in Requests : statement'[p] # "idle" /\ statement'[q] # "idle" => p = q
            /\ \A q \in Requests : StillTrue(q)'
  BY <1>1, MovesKeep
<1>3. OnePhone' 
  BY DEF BookInv, OnePhone, B!Merged
<1>4. InTurn'
  BY <1>2 DEF BookInv, InTurn, AloneOrMixed
<1>5. Tallied'
  <2> SUFFICES ASSUME ~mixed', drops' = 0, NEW c \in 1 .. Len(book),
                      c \notin husks,
                      \A q \in Requests : statement'[q] = "tally" => mine'[q][2] # c
               PROVE  book[c].visits = book[c].bills
    BY DEF Tallied
  <2>1. ~mixed /\ drops = 0
    BY DEF AloneOrMixed
  <2>2. \A q \in Requests : statement[q] = "tally" => mine[q][2] # c
    BY DEF AloneOrMixed, Moves
  <2> QED
    BY <2>1, <2>2 DEF BookInv, Tallied
<1> QED
  BY <1>2, <1>3, <1>4, <1>5 DEF BookInv

LEMMA LimitTyped == Limit \in Nat
BY CountsAssumption

LEMMA NumbersTyped == Numbers \in SUBSET (Nat \ {0}) /\ IsFiniteSet(Numbers)
BY CountsAssumption

LEMMA BookTypes ==
  ASSUME BookInv
  PROVE  /\ book \in Seq(RowSet) /\ Len(book) \in Nat /\ DOMAIN book = 1 .. Len(book)
         /\ statement \in [Requests -> Statements] /\ way \in [Requests -> Ways]
         /\ about \in [Requests -> SUBSET Numbers]
         /\ mine \in [Requests -> Nat \X Nat] /\ counted \in [Requests -> Nat]
         /\ drops \in Nat /\ mixed \in BOOLEAN /\ short \in BOOLEAN
BY LenProperties DEF BookInv, BookTyped

LEMMA BeginMoves ==
  ASSUME BookInv, NEW r \in Requests, NEW w \in Ways, NEW A \in SUBSET Numbers,
         NEW m \in Nat \X Nat, NEW t \in Statements, B!Begin(r, w, A, m, t)
  PROVE  /\ Moves(r) /\ statement'[r] = t /\ way'[r] = w /\ about'[r] = A /\ mine'[r] = m
         /\ statement[r] = "idle" /\ mixed' \in BOOLEAN /\ AloneOrMixed(r)
         /\ UNCHANGED <<book, drops, asked, respelt, short, husks>>
<1>1. /\ statement[r] = "idle" /\ statement' = [statement EXCEPT ![r] = t]
      /\ way' = [way EXCEPT ![r] = w] /\ about' = [about EXCEPT ![r] = A]
      /\ mine' = [mine EXCEPT ![r] = m]
      /\ mixed' = (mixed \/ \E q \in Requests \ {r} : statement[q] # "idle")
      /\ UNCHANGED <<book, counted, drops, asked, respelt, short, husks>>
  BY DEF B!Begin, B!Goto, B!rows
<1>2. /\ statement' \in [Requests -> Statements] /\ statement'[r] = t
      /\ way' \in [Requests -> Ways] /\ way'[r] = w
      /\ about' \in [Requests -> SUBSET Numbers] /\ about'[r] = A
      /\ mine' \in [Requests -> Nat \X Nat] /\ mine'[r] = m
  BY <1>1, BookTypes
<1>3. Moves(r)
  BY <1>1, <1>2, BookTypes DEF Moves
<1>4. mixed' \in BOOLEAN /\ AloneOrMixed(r)
  BY <1>1, BookTypes DEF AloneOrMixed
<1> QED
  BY <1>1, <1>2, <1>3, <1>4

LEMMA AskBook ==
  ASSUME BookInv, NEW r \in Requests, NEW n \in Numbers,
         B!AskCreate(r, n) \/ B!AskWalkIn(r, n) \/ B!AskConvert(r, n)
  PROVE  BookInv'
<1>1. PICK w \in Ways, A \in SUBSET Numbers, m \in Nat \X Nat, t \in Statements :
          A # {} /\ t = "find" /\ B!Begin(r, w, A, m, t) /\ (w = "create" => B!Allows(1))
  <2>1. /\ {n} \in SUBSET Numbers /\ {n} # {} /\ <<0, 0>> \in Nat \X Nat
        /\ "find" \in Statements /\ "create" \in Ways /\ "walk in" \in Ways /\ "convert" \in Ways
    BY DEF Statements, Ways
  <2> QED
    BY <2>1 DEF B!AskCreate, B!AskWalkIn, B!AskConvert
<1>3. /\ Moves(r) /\ statement'[r] = "find" /\ way'[r] = w /\ about'[r] = A
      /\ statement[r] = "idle" /\ mixed' \in BOOLEAN /\ AloneOrMixed(r)
      /\ UNCHANGED <<book, drops, asked, respelt, short, husks>>
  BY <1>1, BeginMoves
<1>4. InHand(r)'
  BY <1>1, <1>3 DEF InHand
<1>5. w = "create" => Len(book) + 1 <= Limit
  BY <1>1 DEF B!Allows
<1>6. StillTrue(r)'
  BY <1>3, <1>5 DEF StillTrue
<1> QED
  BY <1>3, <1>4, <1>6, BookTypes, BookStands

LEMMA FindBook ==
  ASSUME BookInv, NEW r \in Requests, B!Find(r) \/ B!Count(r) \/ B!AskPlan(r) \/ B!Link(r)
  PROVE  BookInv'
<1>0. UNCHANGED <<book, drops, asked, respelt, short, husks, mixed>> /\ statement[r] \in {"find", "count", "limit", "link"}
  BY DEF B!Find, B!Count, B!AskPlan, B!Link, B!rows, B!history
<1>1. /\ AloneOrMixed(r) /\ mixed' \in BOOLEAN /\ drops' \in Nat /\ InHand(r)
      /\ ~mixed => StillTrue(r)
  BY <1>0, BusyAlone, BookTypes DEF BookInv, InTurn
<1>2. CASE B!End(r)
  <2>1. Moves(r) /\ statement'[r] = "idle"
    BY <1>2, EndMoves
  <2>2. InHand(r)' /\ StillTrue(r)'
    BY <2>1 DEF InHand, StillTrue
  <2> QED
    BY <1>0, <1>1, <2>1, <2>2, BookStands
<1>3. CASE statement[r] = "find" /\ B!Goto(r, "count") /\ UNCHANGED <<way, about, mine, counted>>
  <2>1. Moves(r) /\ statement'[r] = "count"
    BY <1>3, BookTypes DEF Moves, B!Goto, Statements
  <2>2. InHand(r)' /\ (~mixed' => StillTrue(r)')
    BY <1>0, <1>1, <1>3, <2>1 DEF InHand, StillTrue
  <2> QED
    BY <1>0, <1>1, <2>1, <2>2, BookStands
<1>4. CASE /\ statement[r] = "find" /\ B!Goto(r, "link") /\ UNCHANGED <<way, about, counted>>
           /\ \E c \in 1 .. Len(book) : mine' = [mine EXCEPT ![r] = <<c, 0>>]
  <2>0. PICK c \in 1 .. Len(book) : mine' = [mine EXCEPT ![r] = <<c, 0>>]
    BY <1>4
  <2>1. mine' \in [Requests -> Nat \X Nat]
    BY <2>0, BookTypes
  <2>2. Moves(r) /\ statement'[r] = "link"
    BY <1>4, <2>0, <2>1, BookTypes DEF Moves, B!Goto, Statements
  <2>3. InHand(r)' /\ StillTrue(r)'
    BY <1>0, <1>1, <1>4, <2>2 DEF InHand, StillTrue
  <2> QED
    BY <1>0, <1>1, <2>2, <2>3, BookStands
<1>5. CASE B!Find(r)
  <2> DEFINE existing == B!Holder(B!Stored(B!Number(r)))
  <2>1. existing # 0 => existing \in 1 .. Len(book)
    BY BookTypes DEF B!Holder, B!Customers
  <2>2. CASE existing = 0
    BY <1>3, <1>5, <2>2 DEF B!Find
  <2>3. CASE existing # 0 /\ way[r] = "convert"
    BY <1>4, <1>5, <2>1, <2>3 DEF B!Find
  <2>4. CASE existing # 0 /\ way[r] # "convert"
    BY <1>2, <1>5, <2>4 DEF B!Find
  <2> QED
    BY <2>2, <2>3, <2>4
<1>6. CASE B!Count(r)
  <2>1. /\ statement[r] = "count" /\ statement' = [statement EXCEPT ![r] = "insert"]
        /\ counted' = [counted EXCEPT ![r] = Len(book)] /\ UNCHANGED <<way, about, mine>>
    BY <1>6 DEF B!Count, B!Goto
  <2>2. Moves(r) /\ statement'[r] = "insert" /\ counted'[r] = Len(book)
    BY <2>1, BookTypes DEF Moves, Statements
  <2>3. InHand(r)' /\ (~mixed' => StillTrue(r)')
    BY <1>0, <1>1, <2>1, <2>2 DEF InHand, StillTrue
  <2> QED
    BY <1>0, <1>1, <2>2, <2>3, BookStands
<1>7. CASE B!AskPlan(r) /\ ~B!End(r)
  <2>1. /\ statement[r] = "limit" /\ B!Allows(Cardinality(about[r]))
        /\ statement' = [statement EXCEPT ![r] = "create many"] /\ UNCHANGED <<way, about, mine, counted>>
    BY <1>7 DEF B!AskPlan, B!Goto, B!Cardinality, Cardinality
  <2>2. Moves(r) /\ statement'[r] = "create many"
    BY <2>1, BookTypes DEF Moves, Statements
  <2>3. \A n \in about[r] : B!KeyFree(B!Stored(n))' <=> B!KeyFree(B!Stored(n))
    BY <1>0 DEF B!KeyFree, B!Holder, B!Customers, B!Stored
  <2>4. InHand(r)' /\ (~mixed' => StillTrue(r)')
    BY <1>0, <1>1, <2>1, <2>2, <2>3 DEF InHand, StillTrue, B!Allows
  <2> QED
    BY <1>0, <1>1, <2>2, <2>4, BookStands
<1>8. CASE B!Link(r)
  BY <1>2, <1>8 DEF B!Link
<1> QED
  BY <1>2, <1>5, <1>6, <1>7, <1>8

LEMMA ReadFileBook ==
  ASSUME BookInv, NEW r \in Requests, NEW file \in SUBSET Numbers, B!ReadFile(r, file)
  PROVE  BookInv'
<1> DEFINE fresh == {n \in file : B!KeyFree(B!Stored(n))}
<1>1. /\ statement[r] = "idle" /\ statement' = [statement EXCEPT ![r] = "limit"]
      /\ about' = [about EXCEPT ![r] = fresh]
      /\ way' = [way EXCEPT ![r] = "import"] /\ counted' = [counted EXCEPT ![r] = Len(book)]
      /\ mixed' = (mixed \/ \E q \in Requests \ {r} : statement[q] # "idle")
      /\ UNCHANGED <<book, mine, drops, asked, respelt, short, husks>>
  BY DEF B!ReadFile, B!Goto, B!rows
<1>2. fresh \in SUBSET Numbers
  OBVIOUS
<1>3. /\ Moves(r) /\ statement'[r] = "limit" /\ about'[r] = fresh /\ counted'[r] = Len(book)
      /\ mixed' \in BOOLEAN /\ AloneOrMixed(r)
  <2> HIDE DEF fresh
  <2> QED
    BY <1>1, <1>2, BookTypes DEF Moves, AloneOrMixed, Statements, Ways
<1>4. \A n \in fresh : B!KeyFree(B!Stored(n))'
  BY <1>1 DEF B!KeyFree, B!Holder, B!Customers, B!Stored
<1>5. InHand(r)' /\ StillTrue(r)'
  BY <1>1, <1>3, <1>4 DEF InHand, StillTrue
<1> QED
  BY <1>1, <1>3, <1>5, BookTypes, BookStands

LEMMA AskChangeBook ==
  ASSUME BookInv, NEW r \in Requests, NEW c \in B!Customers,
         \/ \E n \in Numbers : B!AskUpdate(r, c, n)
         \/ B!AskBill(r, c) \/ \E d \in B!Customers : B!AskMerge(r, c, d)
  PROVE  BookInv'
<1>0. c \in 1 .. Len(book) /\ c \in Nat /\ {} \in SUBSET Numbers
  BY BookTypes DEF B!Customers
<1>1. ASSUME NEW n \in Numbers, B!AskUpdate(r, c, n) PROVE BookInv'
  <2>1. PICK t \in Statements, w \in Ways, A \in SUBSET Numbers, m \in Nat \X Nat :
            /\ B!Begin(r, w, A, m, t)
            /\ t \in {"write number", "write as typed"} /\ A # {} /\ m[1] = c
    <3>1. {n} \in SUBSET Numbers /\ {n} # {} /\ <<c, 0>> \in Nat \X Nat /\ <<c, 0>>[1] = c
      BY <1>0
    <3>2. /\ "update" \in Ways /\ "write number" \in Statements /\ "write as typed" \in Statements
      BY DEF Ways, Statements
    <3>3. \E t \in {"write number", "write as typed"} : B!Begin(r, "update", {n}, <<c, 0>>, t)
      BY <1>1 DEF B!AskUpdate
    <3> QED
      BY <3>1, <3>2, <3>3
  <2>2. /\ Moves(r) /\ statement'[r] = t /\ about'[r] = A /\ mine'[r] = m
        /\ statement[r] = "idle" /\ mixed' \in BOOLEAN /\ AloneOrMixed(r)
        /\ UNCHANGED <<book, drops, asked, respelt, short, husks>>
    BY <2>1, BeginMoves
  <2>3. InHand(r)' /\ StillTrue(r)'
    BY <1>0, <2>1, <2>2 DEF InHand, StillTrue
  <2> QED
    BY <2>2, <2>3, BookTypes, BookStands
<1>2. CASE B!AskBill(r, c)
  <2>0. <<c, 0>> \in Nat \X Nat /\ <<c, 0>>[1] = c /\ "bill" \in Statements /\ "bill" \in Ways
    BY <1>0 DEF Statements, Ways
  <2>1. /\ Moves(r) /\ statement'[r] = "bill" /\ mine'[r] = <<c, 0>>
        /\ statement[r] = "idle" /\ mixed' \in BOOLEAN /\ AloneOrMixed(r)
        /\ UNCHANGED <<book, drops, asked, respelt, short, husks>>
    BY <1>0, <1>2, <2>0, BeginMoves DEF B!AskBill
  <2>2. InHand(r)' /\ StillTrue(r)'
    BY <1>0, <2>0, <2>1 DEF InHand, StillTrue
  <2> QED
    BY <2>1, <2>2, BookTypes, BookStands
<1>3. ASSUME NEW d \in B!Customers, B!AskMerge(r, c, d) PROVE BookInv'
  <2>0. d \in 1 .. Len(book) /\ d \in Nat
    BY BookTypes DEF B!Customers
  <2>1. /\ <<c, d>> \in Nat \X Nat /\ <<c, d>>[1] = c /\ <<c, d>>[2] = d
        /\ "merge" \in Statements /\ "merge" \in Ways
    BY <1>0, <2>0 DEF Statements, Ways
  <2>2. /\ Moves(r) /\ statement'[r] = "merge" /\ mine'[r] = <<c, d>>
        /\ statement[r] = "idle" /\ mixed' \in BOOLEAN /\ AloneOrMixed(r)
        /\ UNCHANGED <<book, drops, asked, respelt, short, husks>>
    BY <1>0, <1>3, <2>1, BeginMoves DEF B!AskMerge
  <2>3. InHand(r)' /\ StillTrue(r)'
    BY <1>0, <2>0, <2>1, <2>2 DEF InHand, StillTrue
  <2> QED
    BY <2>2, <2>3, BookTypes, BookStands
<1> QED
  BY <1>1, <1>2, <1>3

LEMMA FailBook ==
  ASSUME BookInv, NEW r \in Requests, B!Fail(r)
  PROVE  BookInv'
<1>1. /\ statement[r] # "idle" /\ drops' = drops + 1 /\ B!End(r)
      /\ UNCHANGED <<book, asked, respelt, short, husks, mixed>>
  BY DEF B!Fail, B!rows, B!history
<1>2. Moves(r) /\ statement'[r] = "idle"
  BY <1>1, EndMoves
<1>3. InHand(r)' /\ StillTrue(r)'
  BY <1>2 DEF InHand, StillTrue
<1>4. drops' \in Nat /\ drops' # 0
  BY <1>1, BookTypes
<1> QED
  BY <1>1, <1>2, <1>3, <1>4, BookTypes, BusyAlone, BookStands

\* A step of r that writes rows that are there.
LEMMA BookRewritten ==
  ASSUME BookInv, NEW r \in Requests, Moves(r), statement[r] # "idle",
         UNCHANGED <<drops, mixed, asked, short>>,
         book' \in Seq(RowSet), Len(book') = Len(book),
         \A c \in 1 .. Len(book) : book'[c].code = book[c].code,
         OnePhone', InHand(r)', ~mixed => StillTrue(r)', Tallied'
  PROVE  BookInv'
<1>1. AloneOrMixed(r) /\ Len(book) <= Len(book')
  BY BusyAlone, BookTypes
<1>2. /\ BookTyped' /\ \A q \in Requests : InHand(q)'
      /\ ~mixed' =>
            /\ \A k, q \in Requests : statement'[k] # "idle" /\ statement'[q] # "idle" => k = q
            /\ \A q \in Requests : StillTrue(q)'
  BY <1>1, MovesKeep, BookTypes
<1>3. InTurn'
  BY <1>2 DEF BookInv, InTurn
<1> QED
  BY <1>2, <1>3 DEF BookInv

\* The rows other than c stay as they are.
LEMMA RowWritten ==
  ASSUME BookInv, NEW c \in 1 .. Len(book), NEW e \in RowSet, book' = [book EXCEPT ![c] = e]
  PROVE  /\ book' \in Seq(RowSet) /\ Len(book') = Len(book)
         /\ \A d \in 1 .. Len(book) : book'[d] = IF d = c THEN e ELSE book[d]
         /\ book[c] \in RowSet
BY ExceptSeq, ElementOfSeq, BookTypes

\* Whoever may take a phone is the only one who has it.
LEMMA OnlyHolder ==
  ASSUME BookInv, NEW phone \in PhoneSet, phone # B!Merged, NEW c \in Nat, B!Holder(phone) \in {0, c},
         NEW d \in 1 .. Len(book), book[d].phone = phone
  PROVE  d = c
<1>1. \E x \in B!Customers : book[x].phone = phone
  BY BookTypes DEF B!Customers
<1>2. B!Holder(phone) \in B!Customers /\ book[B!Holder(phone)].phone = phone
  BY <1>1 DEF B!Holder
<1>3. B!Holder(phone) \in 1 .. Len(book)
  BY <1>2, BookTypes DEF B!Customers
<1>4. B!Holder(phone) = c
  BY <1>3
<1> QED
  BY <1>2, <1>3, <1>4 DEF BookInv, OnePhone

LEMMA FreeKey ==
  ASSUME BookInv, NEW phone, B!KeyFree(phone), NEW d \in 1 .. Len(book)
  PROVE  book[d].phone # phone
<1>1. ASSUME book[d].phone = phone PROVE FALSE
  <2>1. \E x \in B!Customers : book[x].phone = phone
    BY <1>1, BookTypes DEF B!Customers
  <2>2. B!Holder(phone) \in 1 .. Len(book)
    BY <2>1, BookTypes DEF B!Holder, B!Customers
  <2> QED
    BY <2>2 DEF B!KeyFree
<1> QED
  BY <1>1

LEMMA NumberTyped ==
  ASSUME BookInv, NEW r \in Requests, about[r] # {}
  PROVE  B!Number(r) \in Nat \ {0} /\ B!Number(r) \in about[r]
BY BookTypes, NumbersTyped DEF B!Number

LEMMA StoredTyped ==
  ASSUME NEW n \in Nat \ {0}
  PROVE  /\ B!Stored(n) \in PhoneSet /\ B!Typed(n) \in PhoneSet
         /\ B!Stored(n) # B!Merged /\ B!Typed(n) # B!Merged
         /\ B!Stored(n).typed = FALSE /\ B!Stored(n).number = n
         /\ B!Typed(n).number = n
BY DEF B!Stored, B!Typed, B!Merged, PhoneSet

LEMMA WriteNumberBook ==
  ASSUME BookInv, NEW r \in Requests, B!WriteNumber(r)
  PROVE  BookInv'
<1> DEFINE c == mine[r][1]
           phone == IF statement[r] = "write number" THEN B!Stored(B!Number(r)) ELSE B!Typed(B!Number(r))
<1>1. /\ statement[r] \in {"write number", "write as typed"} /\ B!End(r)
      /\ UNCHANGED <<drops, asked, mixed, short, husks>>
      /\ \/ /\ B!Holder(phone) \in {0, c} /\ book' = [book EXCEPT ![c].phone = phone]
            /\ respelt' = IF phone.typed THEN respelt \cup {phone.number} ELSE respelt
         \/ UNCHANGED <<book, respelt>>
  BY DEF B!WriteNumber
<1>2. /\ Moves(r) /\ statement'[r] = "idle" /\ InHand(r)' /\ StillTrue(r)'
  BY <1>1, EndMoves DEF InHand, StillTrue
<1>3. CASE UNCHANGED <<book, respelt>>
  BY <1>1, <1>2, <1>3, BookTypes, BusyAlone, BookStands
<1>4. CASE /\ B!Holder(phone) \in {0, c} /\ book' = [book EXCEPT ![c].phone = phone]
           /\ respelt' = IF phone.typed THEN respelt \cup {phone.number} ELSE respelt
  <2>1. c \in 1 .. Len(book) /\ c \in Nat /\ about[r] # {}
    BY <1>1, BookTypes DEF BookInv, InHand
  <2>2. phone \in PhoneSet /\ phone # B!Merged
    BY <2>1, NumberTyped, StoredTyped
  <2> HIDE DEF c, phone
  <2> DEFINE e == [book[c] EXCEPT !.phone = phone]
  <2>3. book[c] \in RowSet
    BY <2>1, ElementOfSeq, BookTypes
  <2>4. e \in RowSet /\ e.phone = phone /\ e.code = book[c].code
    BY <2>2, <2>3 DEF RowSet
  <2>5. book' = [book EXCEPT ![c] = e]
    BY <1>4
  <2> HIDE DEF e
  <2>6. /\ book' \in Seq(RowSet) /\ Len(book') = Len(book)
        /\ \A d \in 1 .. Len(book) : book'[d] = IF d = c THEN e ELSE book[d]
    BY <2>1, <2>4, <2>5, RowWritten
  <2>7. OnePhone'
    <3>1. ASSUME NEW d \in 1 .. Len(book), book[d].phone = phone PROVE d = c
      BY <1>4, <2>1, <2>2, <3>1, OnlyHolder
    <3>2. /\ \A d, f \in 1 .. Len(book) :
                 book[d].phone = book[f].phone /\ book[d].phone # B!Merged => d = f
          /\ \A d \in 1 .. Len(book) : book[d].phone.typed => book[d].phone.number \in respelt
          /\ B!Merged' = B!Merged
      BY DEF BookInv, OnePhone, B!Merged
    <3>3. \A d \in 1 .. Len(book) : book'[d].phone.typed => book'[d].phone.number \in respelt'
      BY <1>4, <2>4, <2>6, <3>2
    <3>4. \A d, f \in 1 .. Len(book) :
              book'[d].phone = book'[f].phone /\ book'[d].phone # B!Merged => d = f
      BY <2>4, <2>6, <3>1, <3>2
    <3> QED
      BY <2>6, <3>2, <3>3, <3>4 DEF OnePhone
  <2>8. Tallied'
    <3> SUFFICES ASSUME ~mixed, drops = 0, NEW d \in 1 .. Len(book), d \notin husks'
                 PROVE  book'[d].visits = book'[d].bills
      BY <1>1, <2>6 DEF Tallied
    <3>1. \A q \in Requests : statement[q] # "tally"
      BY <1>1 DEF BookInv, InTurn
    <3>2. \A x \in 1 .. Len(book) : x \notin husks => book[x].visits = book[x].bills
      BY <3>1 DEF BookInv, Tallied
    <3>3. e.visits = book[c].visits /\ e.bills = book[c].bills
      BY <2>3 DEF e, RowSet
    <3> QED
      BY <1>1, <2>1, <2>6, <3>2, <3>3
  <2>9. \A d \in 1 .. Len(book) : book'[d].code = book[d].code
    BY <2>4, <2>6
  <2> QED
    BY <1>1, <1>2, <2>6, <2>7, <2>8, <2>9, BookRewritten
<1> QED
  BY <1>1, <1>3, <1>4

\* PhoneSet as they were, but for those of customers merged away.
LEMMA PhonesStand ==
  ASSUME BookInv, UNCHANGED respelt, Len(book') = Len(book),
         \A d \in 1 .. Len(book) : book'[d].phone = book[d].phone \/ book'[d].phone = B!Merged
  PROVE  OnePhone'
<1>1. B!Merged' = B!Merged /\ B!Merged.typed = FALSE
  BY DEF B!Merged
<1>2. \A d, f \in 1 .. Len(book) :
          book'[d].phone = book'[f].phone /\ book'[d].phone # B!Merged => d = f
  BY DEF BookInv, OnePhone
<1>3. \A d \in 1 .. Len(book) : book'[d].phone.typed => book'[d].phone.number \in respelt'
  BY <1>1 DEF BookInv, OnePhone
<1> QED
  BY <1>1, <1>2, <1>3 DEF OnePhone

LEMMA BillBook ==
  ASSUME BookInv, NEW r \in Requests, B!Bill(r)
  PROVE  BookInv'
<1> DEFINE c == mine[r][1]
<1>1. /\ statement[r] = "bill" /\ B!End(r) /\ book' = [book EXCEPT ![c].bills = @ + 1, ![c].visits = @ + 1]
      /\ UNCHANGED <<drops, asked, mixed, short, respelt, husks>>
  BY DEF B!Bill, B!history
<1>2. /\ Moves(r) /\ statement'[r] = "idle" /\ InHand(r)' /\ StillTrue(r)'
  BY <1>1, EndMoves DEF InHand, StillTrue
<1>3. c \in 1 .. Len(book)
  BY <1>1 DEF BookInv, InHand
<1> HIDE DEF c
<1>4. book[c] \in RowSet
  BY <1>3, ElementOfSeq, BookTypes
<1> DEFINE one == [book EXCEPT ![c] = [book[c] EXCEPT !.bills = @ + 1]]
           e == [one[c] EXCEPT !.visits = @ + 1]
<1>5. book' = [one EXCEPT ![c] = e]
  BY <1>1
<1>6. /\ one \in [1 .. Len(book) -> RowSet] /\ one[c] = [book[c] EXCEPT !.bills = @ + 1]
      /\ \A d \in 1 .. Len(book) : d # c => one[d] = book[d]
  <2>1. book[c].bills + 1 \in Nat
    BY <1>4 DEF RowSet
  <2>2. [book[c] EXCEPT !.bills = @ + 1] \in RowSet
    BY <1>4, <2>1 DEF RowSet
  <2>3. book \in [1 .. Len(book) -> RowSet]
    BY LenProperties, BookTypes
  <2> QED
    BY <1>3, <2>2, <2>3
<1>7. /\ one[c] \in RowSet /\ one[c].phone = book[c].phone /\ one[c].code = book[c].code
      /\ one[c].visits = book[c].visits /\ one[c].bills = book[c].bills + 1
  BY <1>3, <1>4, <1>6 DEF RowSet
<1> HIDE DEF one
<1>8. /\ e \in RowSet /\ e.phone = book[c].phone /\ e.code = book[c].code
      /\ e.visits = book[c].visits + 1 /\ e.bills = book[c].bills + 1
  <2>1. one[c].visits + 1 \in Nat
    BY <1>7 DEF RowSet
  <2> QED
    BY <1>7, <2>1 DEF RowSet
<1> HIDE DEF e
<1>9. /\ book' \in Seq(RowSet) /\ Len(book') = Len(book)
      /\ \A d \in 1 .. Len(book) : book'[d] = IF d = c THEN e ELSE book[d]
  <2>1. /\ book' \in [1 .. Len(book) -> RowSet]
        /\ \A d \in 1 .. Len(book) : book'[d] = IF d = c THEN e ELSE book[d]
    BY <1>3, <1>5, <1>6, <1>8
  <2> QED
    BY <2>1, FunSeq, BookTypes
<1>10. OnePhone'
  BY <1>1, <1>8, <1>9, PhonesStand
<1>11. Tallied'
  <2> SUFFICES ASSUME ~mixed, drops = 0, NEW d \in 1 .. Len(book), d \notin husks'
               PROVE  book'[d].visits = book'[d].bills
    BY <1>1, <1>9 DEF Tallied
  <2>1. \A q \in Requests : statement[q] # "tally"
    BY <1>1 DEF BookInv, InTurn
  <2>2. \A x \in 1 .. Len(book) : x \notin husks => book[x].visits = book[x].bills
    BY <2>1 DEF BookInv, Tallied
  <2> QED
    BY <1>1, <1>3, <1>8, <1>9, <2>2
<1>12. \A d \in 1 .. Len(book) : book'[d].code = book[d].code
  BY <1>8, <1>9
<1> QED
  BY <1>1, <1>2, <1>9, <1>10, <1>11, <1>12, BookRewritten

LEMMA MergeBook ==
  ASSUME BookInv, NEW r \in Requests, B!Merge(r)
  PROVE  BookInv'
<1> DEFINE s == mine[r][1]  t == mine[r][2]
<1>1. /\ statement[r] = "merge" /\ statement' = [statement EXCEPT ![r] = "tally"]
      /\ book' = [book EXCEPT ![t].bills = @ + book[s].bills, ![s].bills = 0, ![s].phone = B!Merged]
      /\ husks' = husks \cup {s}
      /\ UNCHANGED <<way, about, mine, counted, drops, asked, mixed, short, respelt>>
  BY DEF B!Merge, B!Goto
<1>2. /\ Moves(r) /\ statement'[r] = "tally"
  BY <1>1, BookTypes DEF Moves, Statements
<1>3. s \in 1 .. Len(book) /\ t \in 1 .. Len(book)
  BY <1>1 DEF BookInv, InHand
<1>4. mine'[r][1] = s /\ mine'[r][2] = t
  BY <1>1
<1> HIDE DEF s, t
<1>5. \A d \in 1 .. Len(book) : book[d] \in RowSet
  BY ElementOfSeq, BookTypes
<1> DEFINE one == [book EXCEPT ![t] = [book[t] EXCEPT !.bills = @ + book[s].bills]]
           two == [one EXCEPT ![s] = [one[s] EXCEPT !.bills = 0]]
<1>6. book' = [two EXCEPT ![s] = [two[s] EXCEPT !.phone = B!Merged]]
  BY <1>1
<1>7. /\ one \in Seq(RowSet) /\ Len(one) = Len(book) /\ one[t] \in RowSet
      /\ \A d \in 1 .. Len(book) : d # t => one[d] = book[d]
      /\ one[t].code = book[t].code /\ one[t].phone = book[t].phone
  <2>0. book[t] \in RowSet /\ book[t].bills + book[s].bills \in Nat
    BY <1>3, <1>5 DEF RowSet
  <2>1. [book[t] EXCEPT !.bills = @ + book[s].bills] \in RowSet
    BY <2>0 DEF RowSet
  <2>2. /\ one \in Seq(RowSet) /\ Len(one) = Len(book)
        /\ one[t] = [book[t] EXCEPT !.bills = @ + book[s].bills]
        /\ \A d \in 1 .. Len(book) : d # t => one[d] = book[d]
    BY <1>3, <2>1, ExceptSeq, BookTypes
  <2> QED
    BY <1>3, <1>5, <2>1, <2>2 DEF RowSet
<1> HIDE DEF one
<1>8. /\ two \in Seq(RowSet) /\ Len(two) = Len(book) /\ two[s] \in RowSet
      /\ \A d \in 1 .. Len(book) : d # s => two[d] = one[d]
      /\ two[s].code = one[s].code
  <2>1. one[s] \in RowSet
    BY <1>3, <1>7, ElementOfSeq
  <2>2. [one[s] EXCEPT !.bills = 0] \in RowSet
    BY <2>1 DEF RowSet
  <2>3. /\ two \in Seq(RowSet) /\ Len(two) = Len(book) /\ two[s] = [one[s] EXCEPT !.bills = 0]
        /\ \A d \in 1 .. Len(book) : d # s => two[d] = one[d]
    BY <1>3, <1>7, <2>2, ExceptSeq
  <2> QED
    BY <1>3, <2>1, <2>2, <2>3 DEF RowSet
<1> HIDE DEF two
<1>9. /\ book' \in Seq(RowSet) /\ Len(book') = Len(book)
      /\ \A d \in 1 .. Len(book) : d # s => book'[d] = two[d]
      /\ book'[s].code = two[s].code /\ book'[s].phone = B!Merged
  <2>1. [two[s] EXCEPT !.phone = B!Merged] \in RowSet
    BY <1>8 DEF RowSet, B!Merged, PhoneSet
  <2>2. /\ book' \in Seq(RowSet) /\ Len(book') = Len(book) /\ book'[s] = [two[s] EXCEPT !.phone = B!Merged]
        /\ \A d \in 1 .. Len(book) : d # s => book'[d] = two[d]
    BY <1>3, <1>6, <1>8, <2>1, ExceptSeq
  <2> QED
    BY <1>8, <2>1, <2>2 DEF RowSet
<1>10. /\ \A d \in 1 .. Len(book) : d # s /\ d # t => book'[d] = book[d]
       /\ \A d \in 1 .. Len(book) : book'[d].code = book[d].code
       /\ \A d \in 1 .. Len(book) : d # s => book'[d].phone = book[d].phone
  BY <1>3, <1>7, <1>8, <1>9
<1>11. OnePhone'
  BY <1>1, <1>9, <1>10, PhonesStand
<1>12. InHand(r)' /\ StillTrue(r)'
  BY <1>2, <1>3, <1>4, <1>9 DEF InHand, StillTrue
<1>13. Tallied'
  <2> SUFFICES ASSUME ~mixed, drops = 0, NEW d \in 1 .. Len(book), d \notin husks', d # t
               PROVE  book'[d].visits = book'[d].bills
    BY <1>1, <1>2, <1>4, <1>9 DEF Tallied
  <2>1. \A q \in Requests : statement[q] # "tally"
    BY <1>1 DEF BookInv, InTurn
  <2>2. \A x \in 1 .. Len(book) : x \notin husks => book[x].visits = book[x].bills
    BY <2>1 DEF BookInv, Tallied
  <2> QED
    BY <1>1, <1>9, <1>10, <2>2
<1> QED
  BY <1>1, <1>2, <1>9, <1>10, <1>11, <1>12, <1>13, BookRewritten

LEMMA TallyBook ==
  ASSUME BookInv, NEW r \in Requests, B!Tally(r)
  PROVE  BookInv'
<1> DEFINE c == mine[r][2]
<1>1. /\ statement[r] = "tally" /\ B!End(r) /\ book' = [book EXCEPT ![c].visits = book[c].bills]
      /\ husks' = husks \ {c} /\ UNCHANGED <<drops, asked, mixed, short, respelt>>
  BY DEF B!Tally
<1>2. /\ Moves(r) /\ statement'[r] = "idle" /\ InHand(r)' /\ StillTrue(r)'
  BY <1>1, EndMoves DEF InHand, StillTrue
<1>3. c \in 1 .. Len(book) /\ c = mine[r][2]
  BY <1>1 DEF BookInv, InHand
<1> HIDE DEF c
<1> DEFINE e == [book[c] EXCEPT !.visits = book[c].bills]
<1>4. book[c] \in RowSet
  BY <1>3, ElementOfSeq, BookTypes
<1>5. /\ e \in RowSet /\ e.phone = book[c].phone /\ e.code = book[c].code /\ e.visits = e.bills
  BY <1>4 DEF RowSet
<1>6. book' = [book EXCEPT ![c] = e]
  BY <1>1
<1> HIDE DEF e
<1>7. /\ book' \in Seq(RowSet) /\ Len(book') = Len(book)
      /\ \A d \in 1 .. Len(book) : book'[d] = IF d = c THEN e ELSE book[d]
  BY <1>3, <1>5, <1>6, RowWritten
<1>8. OnePhone'
  BY <1>1, <1>5, <1>7, PhonesStand
<1>9. Tallied'
  <2> SUFFICES ASSUME ~mixed, drops = 0, NEW d \in 1 .. Len(book), d \notin husks'
               PROVE  book'[d].visits = book'[d].bills
    BY <1>1, <1>7 DEF Tallied
  <2>1. \A q \in Requests : statement[q] = "tally" => q = r
    BY <1>1 DEF BookInv, InTurn
  <2>2. \A x \in 1 .. Len(book) : x \notin husks /\ x # c => book[x].visits = book[x].bills
    BY <1>3, <2>1 DEF BookInv, Tallied
  <2> QED
    BY <1>1, <1>3, <1>5, <1>7, <2>2
<1>10. \A d \in 1 .. Len(book) : book'[d].code = book[d].code
  BY <1>5, <1>7
<1> QED
  BY <1>1, <1>2, <1>7, <1>8, <1>9, <1>10, BookRewritten

\* New customers: their numbers are nobody's, and nobody else's; their codes, in turn,
\* follow those of the customers there are.
LEMMA BookGrows ==
  ASSUME BookInv, NEW r \in Requests, Moves(r), statement[r] # "idle", statement[r] # "tally",
         UNCHANGED <<drops, mixed, respelt, husks>>, short' \in BOOLEAN,
         NEW n \in Nat, book' \in Seq(RowSet), Len(book') = Len(book) + n,
         \A c \in 1 .. Len(book) : book'[c] = book[c],
         \A c \in Len(book) + 1 .. Len(book) + n :
             /\ ~book'[c].phone.typed /\ book'[c].visits = book'[c].bills
             /\ \A d \in 1 .. Len(book) + n : book'[d].phone = book'[c].phone => d = c,
         ~mixed =>
             /\ \A c \in Len(book) + 1 .. Len(book) + n :
                   /\ book'[c].code > Len(book) /\ book'[c].code <= Len(book) + n
                   /\ \A d \in Len(book) + 1 .. Len(book) + n :
                         book'[d].code = book'[c].code => d = c
             /\ ~short' /\ \A c \in asked' : c <= Limit,
         InHand(r)', ~mixed => StillTrue(r)'
  PROVE  BookInv'
<1>0. Len(book) \in Nat /\ Len(book) <= Len(book')
  BY BookTypes
<1>1. AloneOrMixed(r)
  BY BusyAlone
<1>2. /\ BookTyped' /\ \A q \in Requests : InHand(q)'
      /\ ~mixed' =>
            /\ \A k, q \in Requests : statement'[k] # "idle" /\ statement'[q] # "idle" => k = q
            /\ \A q \in Requests : StillTrue(q)'
  BY <1>0, <1>1, MovesKeep, BookTypes
<1>3. ASSUME NEW c \in 1 .. Len(book')
      PROVE  c \in 1 .. Len(book) \/ c \in Len(book) + 1 .. Len(book) + n
  BY <1>0
<1>4. OnePhone'
  <2>1. \A c, d \in 1 .. Len(book) :
            book[c].phone = book[d].phone /\ book[c].phone # B!Merged => c = d
    BY DEF BookInv, OnePhone
  <2>2. \A c \in 1 .. Len(book) : book[c].phone.typed => book[c].phone.number \in respelt
    BY DEF BookInv, OnePhone
  <2>3. \A c, d \in 1 .. Len(book') :
            book'[c].phone = book'[d].phone /\ book'[c].phone # B!Merged => c = d
    BY <1>3, <2>1
  <2>4. \A c \in 1 .. Len(book') : book'[c].phone.typed => book'[c].phone.number \in respelt'
    BY <1>3, <2>2
  <2> QED
    BY <2>3, <2>4 DEF OnePhone, B!Merged
<1>5. InTurn'
  <2> SUFFICES ASSUME ~mixed
               PROVE  /\ \A c, d \in 1 .. Len(book') : book'[c].code = book'[d].code => c = d
                      /\ \A c \in 1 .. Len(book') : book'[c].code <= Len(book')
    BY <1>2 DEF InTurn
  <2>1. /\ \A c, d \in 1 .. Len(book) : book[c].code = book[d].code => c = d
        /\ \A c \in 1 .. Len(book) : book[c].code <= Len(book)
    BY DEF BookInv, InTurn
  <2>2. \A c \in 1 .. Len(book') : book'[c].code \in Nat
    <3>1. \A c \in 1 .. Len(book') : book'[c] \in RowSet
      BY ElementOfSeq
    <3> QED
      BY <3>1 DEF RowSet
  <2>3. \A c \in 1 .. Len(book') : book'[c].code <= Len(book')
    BY <1>0, <1>3, <2>1, <2>2
  <2>4. ASSUME NEW c \in 1 .. Len(book'), NEW d \in 1 .. Len(book'), book'[c].code = book'[d].code
        PROVE  c = d
    <3>1. CASE c \in 1 .. Len(book) /\ d \in 1 .. Len(book)
      BY <2>1, <2>4, <3>1
    <3>2. CASE c \in 1 .. Len(book) /\ d \in Len(book) + 1 .. Len(book) + n
      <4>1. book'[c].code <= Len(book) /\ book'[d].code > Len(book)
        BY <2>1, <3>2
      <4> QED
        BY <1>0, <2>2, <2>4, <4>1
    <3>3. CASE d \in 1 .. Len(book) /\ c \in Len(book) + 1 .. Len(book) + n
      <4>1. book'[d].code <= Len(book) /\ book'[c].code > Len(book)
        BY <2>1, <3>3
      <4> QED
        BY <1>0, <2>2, <2>4, <4>1
    <3>4. CASE c \in Len(book) + 1 .. Len(book) + n /\ d \in Len(book) + 1 .. Len(book) + n
      BY <2>4, <3>4
    <3> QED
      BY <1>3, <3>1, <3>2, <3>3, <3>4
  <2> QED
    BY <2>3, <2>4
<1>6. Tallied'
  <2> SUFFICES ASSUME ~mixed, drops = 0, NEW c \in 1 .. Len(book'), c \notin husks'
               PROVE  book'[c].visits = book'[c].bills
    BY DEF Tallied
  <2>1. \A q \in Requests : statement[q] # "tally"
    BY DEF BookInv, InTurn
  <2>2. \A x \in 1 .. Len(book) : x \notin husks => book[x].visits = book[x].bills
    BY <2>1 DEF BookInv, Tallied
  <2> QED
    BY <1>3, <2>2
<1> QED
  BY <1>2, <1>4, <1>5, <1>6 DEF BookInv

LEMMA RowTyped ==
  ASSUME NEW n \in Nat \ {0}, NEW code \in Nat
  PROVE  /\ B!Row(n, code) \in RowSet /\ B!Row(n, code).phone = B!Stored(n)
         /\ B!Row(n, code).code = code /\ B!Row(n, code).visits = B!Row(n, code).bills
BY StoredTyped DEF B!Row, RowSet

LEMMA InsertBook ==
  ASSUME BookInv, NEW r \in Requests, B!Insert(r)
  PROVE  BookInv'
<1> DEFINE n == B!Number(r)  id == Len(book) + 1  row == B!Row(n, counted[r] + 1)
<1>1. /\ statement[r] = "insert" /\ UNCHANGED <<drops, mixed, respelt, short, husks>>
      /\ \/ B!End(r)
         \/ /\ mine' = [mine EXCEPT ![r] = <<id, 0>>]
            /\ statement' = [statement EXCEPT ![r] = "link"] /\ UNCHANGED <<way, about, counted>>
      /\ \/ /\ B!KeyFree(B!Stored(n)) /\ book' = Append(book, row)
            /\ asked' = IF way[r] = "create" THEN asked \cup {id} ELSE asked
         \/ B!End(r) /\ UNCHANGED <<book, asked>>
  BY DEF B!Insert, B!Goto, B!NextCode
<1>2. /\ about[r] # {} /\ n \in Nat \ {0} /\ (~mixed => StillTrue(r))
      /\ counted[r] \in Nat /\ Len(book) \in Nat
  BY <1>1, NumberTyped, BookTypes DEF BookInv, InHand, InTurn
<1>3. Moves(r) /\ InHand(r)' /\ StillTrue(r)'
  <2>1. CASE B!End(r)
    BY <2>1, EndMoves DEF InHand, StillTrue
  <2>2. CASE /\ mine' = [mine EXCEPT ![r] = <<id, 0>>]
             /\ statement' = [statement EXCEPT ![r] = "link"] /\ UNCHANGED <<way, about, counted>>
    <3>1. <<id, 0>> \in Nat \X Nat
      BY <1>2
    <3>2. Moves(r) /\ statement'[r] = "link"
      BY <2>2, <3>1, BookTypes DEF Moves, Statements
    <3> QED
      BY <1>2, <2>2, <3>2 DEF InHand, StillTrue
  <2> QED
    BY <1>1, <2>1, <2>2
<1>4. CASE B!End(r) /\ UNCHANGED <<book, asked>>
  BY <1>1, <1>3, <1>4, BookTypes, BusyAlone, BookStands
<1>5. CASE /\ B!KeyFree(B!Stored(n)) /\ book' = Append(book, row)
           /\ asked' = IF way[r] = "create" THEN asked \cup {id} ELSE asked
  <2>0. counted[r] + 1 \in Nat
    BY <1>2
  <2>1. /\ row \in RowSet /\ row.phone = B!Stored(n) /\ row.code = counted[r] + 1
        /\ row.visits = row.bills /\ ~row.phone.typed
    <3> HIDE DEF n
    <3> QED
      BY <1>2, <2>0, RowTyped, StoredTyped
  <2> HIDE DEF row
  <2>2. /\ book' \in Seq(RowSet) /\ Len(book') = Len(book) + 1 /\ book'[id] = row
        /\ \A c \in 1 .. Len(book) : book'[c] = book[c]
    BY <1>2, <1>5, <2>1, BookTypes
  <2>3. \A d \in 1 .. Len(book) : book[d].phone # row.phone
    BY <1>5, <2>1, FreeKey
  <2>4. \A d \in 1 .. Len(book) + 1 : book'[d].phone = row.phone => d = id
    <3>1. \A d \in 1 .. Len(book) + 1 : d \in 1 .. Len(book) \/ d = id
      BY <1>2
    <3> QED
      BY <2>2, <2>3, <3>1
  <2>5. \A c \in Len(book) + 1 .. Len(book) + 1 : c = id
    BY <1>2
  <2>6. ~mixed => /\ row.code > Len(book) /\ row.code <= Len(book) + 1
                  /\ ~short' /\ \A c \in asked' : c <= Limit
    <3> SUFFICES ASSUME ~mixed PROVE /\ row.code > Len(book) /\ row.code <= Len(book) + 1
                                     /\ ~short' /\ \A c \in asked' : c <= Limit
      OBVIOUS
    <3>1. counted[r] = Len(book) /\ (way[r] = "create" => id <= Limit)
      BY <1>1, <1>2 DEF StillTrue
    <3>2. ~short /\ \A c \in asked : c <= Limit
      BY DEF BookInv, InTurn
    <3> QED
      BY <1>1, <1>2, <1>5, <2>1, <3>1, <3>2
  <2>7. 1 \in Nat /\ short' \in BOOLEAN /\ statement[r] # "idle" /\ statement[r] # "tally"
    BY <1>1, BookTypes
  <2>8. \A c \in Len(book) + 1 .. Len(book) + 1 :
            /\ ~book'[c].phone.typed /\ book'[c].visits = book'[c].bills
            /\ \A d \in 1 .. Len(book) + 1 : book'[d].phone = book'[c].phone => d = c
    BY <2>1, <2>2, <2>4, <2>5
  <2>9. ~mixed =>
            /\ \A c \in Len(book) + 1 .. Len(book) + 1 :
                   /\ book'[c].code > Len(book) /\ book'[c].code <= Len(book) + 1
                   /\ \A d \in Len(book) + 1 .. Len(book) + 1 :
                         book'[d].code = book'[c].code => d = c
            /\ ~short' /\ \A c \in asked' : c <= Limit
    BY <2>2, <2>5, <2>6
  <2> HIDE DEF n, id
  <2> QED
    BY <1>1, <1>3, <2>2, <2>7, <2>8, <2>9, BookGrows
<1> QED
  BY <1>1, <1>4, <1>5

LEMMA CreateManyBook ==
  ASSUME BookInv, NEW r \in Requests, B!CreateMany(r)
  PROVE  BookInv'
<1> DEFINE A == about[r]
           new == {n \in A : B!KeyFree(B!Stored(n))}
           place(n) == Cardinality({m \in A : m <= n})
           rank(n) == Cardinality({m \in new : m <= n})
           nth(i) == CHOOSE n \in new : rank(n) = i
           code(i) == counted[r] + place(nth(i))
           rows == [i \in 1 .. Cardinality(new) |-> B!Row(nth(i), code(i))]
<1>1. /\ statement[r] = "create many" /\ book' = book \o rows /\ B!End(r)
      /\ asked' = asked \cup (Len(book) + 1 .. Len(book'))
      /\ short' = (short \/ new # A) /\ UNCHANGED <<drops, mixed, respelt, husks>>
  BY DEF B!CreateMany, B!Cardinality, Cardinality
<1>2. /\ Moves(r) /\ InHand(r)' /\ StillTrue(r)'
  BY <1>1, EndMoves DEF InHand, StillTrue
<1>3. /\ A \in SUBSET Numbers /\ counted[r] \in Nat /\ Len(book) \in Nat /\ (~mixed => StillTrue(r))
      /\ short' \in BOOLEAN
  BY <1>1, BookTypes DEF BookInv, InTurn
<1>4. /\ A \in SUBSET Nat /\ new \in SUBSET Nat /\ new \in SUBSET A
      /\ IsFiniteSet(A) /\ IsFiniteSet(new) /\ Cardinality(new) \in Nat
      /\ \A n \in A : n \in Nat \ {0}
  <2>1. A \in SUBSET Nat /\ new \in SUBSET A /\ \A n \in A : n \in Nat \ {0}
    BY <1>3, NumbersTyped
  <2> HIDE DEF A, new
  <2>2. IsFiniteSet(A)
    BY <1>3, NumbersTyped, FS_Subset
  <2>3. IsFiniteSet(new)
    BY <2>1, <2>2, FS_Subset
  <2> QED
    BY <2>1, <2>2, <2>3, FS_CardinalityType
<1> DEFINE k == Cardinality(new)
<1>5. /\ \A i \in 1 .. k : nth(i) \in new /\ rank(nth(i)) = i
      /\ \A i, j \in 1 .. k : nth(i) = nth(j) => i = j
  <2>1. \A i \in 1 .. k : \E n \in new : rank(n) = i
    <3> HIDE DEF new, A
    <3> QED
      BY <1>4, Ranks
  <2>2. \A i \in 1 .. k : nth(i) \in new /\ rank(nth(i)) = i
    <3> HIDE DEF new, A, rank, k
    <3> QED
      BY <2>1
  <2> HIDE DEF nth, rank
  <2> QED
    BY <2>2
<1>6. /\ \A n \in A : place(n) \in 1 .. Cardinality(A)
      /\ \A n, m \in A : place(n) = place(m) => n = m
  <2> HIDE DEF A
  <2> QED
    BY <1>4, Ranks
<1>7. \A n \in new : B!KeyFree(B!Stored(n))
  OBVIOUS
<1>8. Cardinality(A) \in Nat
  BY <1>4, FS_CardinalityType
<1> HIDE DEF A, new, place, nth
<1>9. \A i \in 1 .. k : /\ nth(i) \in A /\ nth(i) \in Nat \ {0} /\ code(i) \in Nat
                       /\ code(i) \in counted[r] + 1 .. counted[r] + Cardinality(A)
  <2>1. ASSUME NEW i \in 1 .. k
        PROVE  /\ nth(i) \in A /\ nth(i) \in Nat \ {0} /\ code(i) \in Nat
               /\ code(i) \in counted[r] + 1 .. counted[r] + Cardinality(A)
    <3>1. nth(i) \in A /\ nth(i) \in Nat \ {0}
      BY <1>4, <1>5
    <3>2. place(nth(i)) \in 1 .. Cardinality(A)
      BY <1>6, <3>1
    <3> QED
      BY <1>3, <1>8, <3>1, <3>2
  <2> QED
    BY <2>1
<1>10. \A i, j \in 1 .. k : code(i) = code(j) => i = j
  <2>1. ASSUME NEW i \in 1 .. k, NEW j \in 1 .. k, code(i) = code(j) PROVE i = j
    <3>1. place(nth(i)) \in Nat /\ place(nth(j)) \in Nat
      BY <1>6, <1>8, <1>9
    <3>2. place(nth(i)) = place(nth(j))
      BY <1>3, <2>1, <3>1
    <3> QED
      BY <1>5, <1>6, <1>9, <3>2
  <2> QED
    BY <2>1
<1> HIDE DEF code
<1>11. \A i \in 1 .. k :
          /\ B!Row(nth(i), code(i)) \in RowSet /\ B!Row(nth(i), code(i)).phone = B!Stored(nth(i))
          /\ B!Row(nth(i), code(i)).code = code(i)
          /\ B!Row(nth(i), code(i)).visits = B!Row(nth(i), code(i)).bills
          /\ ~B!Stored(nth(i)).typed /\ B!Stored(nth(i)).number = nth(i)
  <2>1. TAKE i \in 1 .. k
  <2> DEFINE n == nth(i)  the == code(i)
  <2>2. n \in Nat \ {0} /\ the \in Nat
    BY <1>9
  <2> HIDE DEF n, the
  <2>3. /\ B!Row(n, the) \in RowSet /\ B!Row(n, the).phone = B!Stored(n)
        /\ B!Row(n, the).code = the /\ B!Row(n, the).visits = B!Row(n, the).bills
    BY <2>2, RowTyped
  <2>4. ~B!Stored(n).typed /\ B!Stored(n).number = n
    BY <2>2, StoredTyped
  <2> QED
    BY <2>3, <2>4 DEF n, the
<1>12. rows \in [1 .. k -> RowSet] /\ \A i \in 1 .. k : rows[i] = B!Row(nth(i), code(i))
  BY <1>11
<1> HIDE DEF rows, k
<1>13. k \in Nat /\ rows \in Seq(RowSet) /\ Len(rows) = k
  BY <1>4, <1>12, FunSeq DEF k
<1>14. /\ book' \in Seq(RowSet) /\ Len(book') = Len(book) + k
       /\ \A c \in 1 .. Len(book) : book'[c] = book[c]
       /\ \A c \in Len(book) + 1 .. Len(book) + k : book'[c] = rows[c - Len(book)]
  <2>1. /\ book' \in Seq(RowSet) /\ Len(book') = Len(book) + k
        /\ \A c \in 1 .. Len(book) + k :
              book'[c] = IF c <= Len(book) THEN book[c] ELSE rows[c - Len(book)]
    BY <1>1, <1>13, BookTypes, ConcatProperties
  <2> QED
    BY <1>3, <1>13, <2>1
<1>15. \A c \in Len(book) + 1 .. Len(book) + k : c - Len(book) \in 1 .. k
  BY <1>3, <1>13
<1>16. ASSUME NEW c \in Len(book) + 1 .. Len(book) + k
       PROVE  /\ ~book'[c].phone.typed /\ book'[c].visits = book'[c].bills
              /\ \A d \in 1 .. Len(book) + k : book'[d].phone = book'[c].phone => d = c
  <2> DEFINE i == c - Len(book)
  <2>1. i \in 1 .. k /\ book'[c] = rows[i]
    BY <1>14, <1>15
  <2> HIDE DEF i
  <2>2. /\ ~book'[c].phone.typed /\ book'[c].visits = book'[c].bills
        /\ book'[c].phone = B!Stored(nth(i))
    BY <1>11, <1>12, <2>1
  <2>3. ASSUME NEW d \in 1 .. Len(book), book'[d].phone = book'[c].phone PROVE FALSE
    <3>1. B!KeyFree(B!Stored(nth(i)))
      BY <1>5, <1>7, <2>1 DEF k
    <3> QED
      BY <1>14, <2>2, <2>3, <3>1, FreeKey
  <2>4. ASSUME NEW d \in Len(book) + 1 .. Len(book) + k, book'[d].phone = book'[c].phone PROVE d = c
    <3> DEFINE j == d - Len(book)
    <3>1. j \in 1 .. k /\ book'[d] = rows[j]
      BY <1>14, <1>15
    <3> HIDE DEF j
    <3>2. B!Stored(nth(j)) = B!Stored(nth(i))
      BY <1>11, <1>12, <2>2, <2>4, <3>1
    <3>3. nth(j) = nth(i)
      BY <1>11, <2>1, <3>1, <3>2
    <3>4. j = i
      BY <1>5, <2>1, <3>1, <3>3 DEF k
    <3> QED
      BY <1>3, <1>13, <3>4 DEF i, j
  <2>5. ASSUME NEW d \in 1 .. Len(book) + k
        PROVE  d \in 1 .. Len(book) \/ d \in Len(book) + 1 .. Len(book) + k
    BY <1>3, <1>13
  <2> QED
    BY <2>2, <2>3, <2>4, <2>5
<1>17. ASSUME ~mixed
       PROVE  /\ \A c \in Len(book) + 1 .. Len(book) + k :
                    /\ book'[c].code > Len(book) /\ book'[c].code <= Len(book) + k
                    /\ \A d \in Len(book) + 1 .. Len(book) + k :
                          book'[d].code = book'[c].code => d = c
              /\ ~short' /\ \A c \in asked' : c <= Limit
  <2>1. /\ counted[r] = Len(book) /\ (\A n \in A : B!KeyFree(B!Stored(n)))
        /\ Len(book) + Cardinality(A) <= Limit
    BY <1>1, <1>3, <1>17 DEF StillTrue, A
  <2>2. new = A
    BY <2>1 DEF new
  <2>3. k = Cardinality(A)
    BY <2>2 DEF k
  <2>4. ASSUME NEW c \in Len(book) + 1 .. Len(book) + k
        PROVE  /\ c - Len(book) \in 1 .. k /\ book'[c].code = code(c - Len(book))
               /\ book'[c].code > Len(book) /\ book'[c].code <= Len(book) + k
    <3> DEFINE i == c - Len(book)
    <3>1. i \in 1 .. k /\ book'[c] = rows[i]
      BY <1>14, <1>15
    <3> HIDE DEF i
    <3>2. book'[c].code = code(i)
      BY <1>11, <1>12, <3>1
    <3>3. code(i) \in Len(book) + 1 .. Len(book) + k
      BY <1>9, <2>1, <2>3, <3>1 DEF k
    <3> QED
      BY <1>3, <1>13, <3>1, <3>2, <3>3 DEF i
  <2>5. ASSUME NEW c \in Len(book) + 1 .. Len(book) + k, NEW d \in Len(book) + 1 .. Len(book) + k,
               book'[d].code = book'[c].code
        PROVE  d = c
    <3>1. code(d - Len(book)) = code(c - Len(book))
      BY <2>4, <2>5
    <3>2. d - Len(book) = c - Len(book)
      BY <1>10, <2>4, <3>1 DEF k
    <3> QED
      BY <1>3, <1>13, <3>2
  <2>6. ~short' /\ \A c \in asked' : c <= Limit
    <3>1. ~short /\ \A c \in asked : c <= Limit
      BY <1>17 DEF BookInv, InTurn
    <3>2. \A c \in Len(book) + 1 .. Len(book') : c <= Limit
      BY <1>3, <1>13, <1>14, <2>1, <2>3, LimitTyped
    <3> QED
      BY <1>1, <2>2, <3>1, <3>2
  <2> QED
    BY <2>4, <2>5, <2>6
<1>18. statement[r] # "idle" /\ statement[r] # "tally"
  BY <1>1
<1> QED
  BY <1>1, <1>2, <1>3, <1>13, <1>14, <1>16, <1>17, <1>18, BookGrows

LEMMA BookNext == BookInv /\ [B!Next]_B!vars => BookInv'
<1> SUFFICES ASSUME BookInv, [B!Next]_B!vars PROVE BookInv'
  OBVIOUS
<1>1. ASSUME NEW r \in Requests, B!Enter(r) PROVE BookInv'
  BY <1>1, AskBook, FindBook, InsertBook, ReadFileBook, CreateManyBook DEF B!Enter
<1>2. ASSUME NEW r \in Requests, B!Change(r) PROVE BookInv'
  BY <1>2, AskChangeBook, WriteNumberBook, BillBook, MergeBook, TallyBook DEF B!Change
<1>3. CASE UNCHANGED B!vars
  <2>1. UNCHANGED <<book, statement, way, about, mine, counted, drops, asked, mixed, respelt, short, husks>>
    BY <1>3 DEF B!vars, B!rows, B!request, B!history
  <2>2. BookTyped' /\ \A r \in Requests : InHand(r)'
    BY <2>1 DEF BookInv, BookTyped, InHand
  <2>3. OnePhone' /\ Tallied'
    BY <2>1 DEF BookInv, OnePhone, Tallied, B!Merged
  <2>4. InTurn'
    BY <2>1 DEF BookInv, InTurn, StillTrue, B!Merged, B!KeyFree, B!Holder, B!Customers, B!Stored
  <2> QED
    BY <2>2, <2>3, <2>4 DEF BookInv
<1> QED
  BY <1>1, <1>2, <1>3, FailBook DEF B!Next

LEMMA PhoneIs ==
  ASSUME NEW p \in PhoneSet, p.typed = FALSE
  PROVE  p = B!Stored(p.number)
BY DEF PhoneSet, B!Stored

LEMMA BookInOrder == BookInv => B!BookIsInOrder
<1> SUFFICES ASSUME BookInv PROVE B!BookIsInOrder
  OBVIOUS
<1>1. B!Customers = 1 .. Len(book)
  BY BookTypes DEF B!Customers
<1>2. ASSUME NEW n \in B!Phones \ respelt
      PROVE  Cardinality({c \in B!Customers : book[c].phone.number = n}) = 1
  <2>1. PICK c \in B!Customers : book[c].phone.number = n
    BY <1>2 DEF B!Phones
  <2>2. n # 0
    BY DEF B!Phones
  <2>3. ASSUME NEW d \in B!Customers, book[d].phone.number = n
        PROVE  book[d].phone = B!Stored(n) /\ book[d].phone # B!Merged
    <3>1. book[d] \in RowSet
      BY <1>1, ElementOfSeq, BookTypes
    <3>2. book[d].phone \in PhoneSet /\ ~book[d].phone.typed
      BY <1>1, <1>2, <2>3, <3>1 DEF BookInv, OnePhone, RowSet, PhoneSet
    <3>3. book[d].phone.typed = FALSE
      BY <3>2 DEF PhoneSet
    <3> QED
      <4>1. book[d].phone = B!Stored(n)
        BY <2>3, <3>2, <3>3, PhoneIs
      <4>2. B!Merged.number = 0
        BY DEF B!Merged
      <4> QED
        BY <2>2, <2>3, <4>1, <4>2
  <2>4. {d \in B!Customers : book[d].phone.number = n} = {c}
    BY <1>1, <2>1, <2>3 DEF BookInv, OnePhone
  <2> QED
    BY <2>4, FS_Singleton
<1>3. ASSUME ~mixed
      PROVE  /\ \A c, d \in B!Customers : book[c].code = book[d].code => c = d
             /\ ~short /\ \A c \in asked : c <= Limit
  BY <1>1, <1>3 DEF BookInv, InTurn
<1>4. ASSUME ~mixed, drops = 0, B!Quiet
      PROVE  \A c \in B!Customers \ husks : book[c].visits = book[c].bills
  <2>1. \A r \in Requests : statement[r] # "tally"
    BY <1>4 DEF B!Quiet
  <2> QED
    BY <1>1, <1>4, <2>1 DEF BookInv, Tallied
<1> QED
  BY <1>2, <1>3, <1>4 DEF B!BookIsInOrder, B!Cardinality, Cardinality
-----------------------------------------------------------------------------
(* The theorems *)

FrontDeskInv == ThreadInv /\ OffersInv /\ RatingInv /\ WordsInv /\ BookInv

LEMMA CeilingsTyped == Ceilings \subseteq Nat
BY CountsAssumption

\* Whatever happens to the customer, what the proofs of the four parts rest on holds.
THEOREM FrontDeskInvariant == Spec => []FrontDeskInv
<1>1. Init => FrontDeskInv
  BY ThreadInit, OffersInit, RatingInit, WordsInit, BookInit, CeilingsTyped DEF Init, FrontDeskInv
<1>2. FrontDeskInv /\ [Next]_vars => FrontDeskInv'
  <2> SUFFICES ASSUME FrontDeskInv, [Next]_vars PROVE FrontDeskInv'
    OBVIOUS
  <2>1. [C!Next]_C!vars
    BY DEF Next, vars, thread, C!vars, C!thread, C!record, C!local, C!offers, C!trust, C!limits, C!bounds
  <2>2. [F!Next]_F!vars
    BY DEF Next, vars, rating, F!vars, F!rows, F!submit
  <2>3. [S!Next]_S!vars
    BY DEF Next, vars, words, S!vars
  <2>4. [B!Next]_B!vars
    BY DEF Next, vars, people, B!vars, B!rows, B!request, B!history
  <2> QED
    BY <2>1, <2>2, <2>3, <2>4, ThreadNext, OffersNext, RatingNext, WordsNext, BookNext DEF FrontDeskInv
<1> QED
  BY <1>1, <1>2, PTL DEF Spec

\* However often a message is delivered, and to however many handlers at once, it is
\* answered automatically at most once: its row is the first handler's alone.
THEOREM EachAnsweredOnce == Spec => []AnsweredOnce
<1>1. FrontDeskInv => AnsweredOnce
  BY DEF FrontDeskInv, ThreadInv, Answered, AnsweredOnce, C!AnsweredOnce
<1> QED
  BY <1>1, FrontDeskInvariant, PTL

\* A yes books once, and what the customer was last offered, unless offers crossed, a
\* fault came between two writes, or the words of the offer were refused: with any number
\* of slots and of messages handled at once.
THEOREM YesMeansTheOffer == Spec => []YesBooksTheOffer
<1>1. FrontDeskInv => YesBooksTheOffer
  BY OffersBook DEF FrontDeskInv, YesBooksTheOffer
<1> QED
  BY <1>1, FrontDeskInvariant, PTL

\* A promise that a person will look has its flag, and silence its handover.
THEOREM PromisesAreFlagged == Spec => []PromiseIsFlagged
<1>1. FrontDeskInv => PromiseIsFlagged
  BY DEF FrontDeskInv, ThreadInv, Flagged, Alone, PromiseIsFlagged, C!PromiseIsFlagged
<1> QED
  BY <1>1, FrontDeskInvariant, PTL

\* A visit is rated once, followed up by one submission, with an alert of its own or that
\* of another rating of the day, and counted in the score.
THEOREM RatingsAreFollowedUp == Spec => []RatingIsFollowedUp
<1>1. FrontDeskInv => RatingIsFollowedUp
  BY RatingFollowed DEF FrontDeskInv, RatingIsFollowedUp
<1> QED
  BY <1>1, FrontDeskInvariant, PTL

\* The set of suggestions she was shown is the one that is stored.
THEOREM ShownIsStored == Spec => []SuggestionsStay
<1>1. FrontDeskInv => SuggestionsStay
  BY WordsStay DEF FrontDeskInv, SuggestionsStay
<1> QED
  BY <1>1, FrontDeskInvariant, PTL

\* A number is one customer's; in turn, so is a code, the plan is kept, and the visits of
\* whoever was not merged away add up.
THEOREM BookStaysInOrder == Spec => []BookIsInOrder
<1>1. FrontDeskInv => BookIsInOrder
  BY BookInOrder DEF FrontDeskInv, BookIsInOrder
<1> QED
  BY <1>1, FrontDeskInvariant, PTL
=============================================================================
