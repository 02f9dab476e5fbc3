---------------------------- MODULE Conversation ----------------------------
(***************************************************************************)
(* The WhatsApp thread of one customer the salon knows: the webhook that   *)
(* stores what she writes (modules/webhooks/webhook.routes.ts), the        *)
(* assistant that answers it (modules/messaging/auto-reply.service.ts) and *)
(* the staff who take the thread over and give it back                     *)
(* (modules/messaging/conversation.service.ts).                            *)
(*                                                                         *)
(* A handler reads the thread once and then acts on what it read, through  *)
(* calls of a language model that take seconds, while other webhooks, the  *)
(* staff and the diary move on.  What the model makes of a message is any  *)
(* of the answers it may give.  The thread is that of one day, in which    *)
(* the service window is open and replies are counted against one ceiling. *)
(***************************************************************************)
EXTENDS Naturals

CONSTANTS
    Messages,     \* messages the customer writes
    Stops,        \* those that say STOP
    Nothing,      \* no message, no slot
    Handlers,     \* webhook requests handled at the same time
    Slots,        \* slots the diary may have free, each with its stylist
    Parked,       \* the column holds a request that waits for the name of a shop
    Ceilings,     \* values of MAX_REPLIES_PER_BURST and MAX_REPLIES_PER_DAY
    MaxDeliveries,\* bound: messages Meta delivers, copies included
    MaxTrouble    \* bound: queries that throw, handlers that die, sends refused though she
                  \* has not opted out, times the staff touch the thread

VARIABLES
    mode,         \* Conversation.mode; "NONE" before the row
    attention,    \* Conversation.needsAttentionAt is set
    desk,         \* where sendStaffReply stands: "idle" or "sent"
    consent,      \* Customer.whatsappConsent
    offer,        \* Customer.assistantOffer: a slot, Parked or Nothing
    stored,       \* messages with an InboundMessage row
    ceiling,      \* the ceiling that comes first
    replies,      \* MessageLog rows of purpose OTHER in the thread today
    diary,        \* diary[s]: "free", "hers" or "other's"
    pc,           \* pc[h]: the next query of a handler
    msg,          \* msg[h]: the message in hand
    hand,         \* hand[h]: the offer it read, or the slot it is about to offer
    answers,      \* history: answers[m], automatic replies to m, up to two
    told,         \* history: the slot the customer was last offered in words
    meant,        \* history: meant[h], what told was when the handler read the thread
    bookings,     \* history: bookings[s], appointments made for her, up to two
    wronged,      \* history: slots booked that she did not mean, or denied her though hers
    contested,    \* history: slots two handlers had in hand at once, or held while the
                  \* words of another offer were still to come
    orphaned,     \* history: slots a fault came to between two writes about them, and
                  \* slots held for her whose words were refused
    promised,     \* history: she was told a person would look, and none has since
    excused,      \* history: a fault or the staff came between the flag and the words
    silenced,     \* history: a message met the ceiling and was not answered
    tripped,      \* history: the thread changed hands, the staff wrote, or two counts overlapped
    deliveries, trouble   \* bounds

thread  == <<mode, attention, desk>>
record  == <<consent, offer, stored, replies, diary>>
local   == <<pc, msg, hand>>
offers  == <<told, meant, bookings, wronged, contested, orphaned>>
trust   == <<promised, excused>>
limits  == <<silenced, tripped>>
bounds  == <<deliveries, trouble>>
vars    == <<ceiling, thread, record, local, answers, offers, trust, limits, bounds>>

OnceMore(n) == IF n < 2 THEN n + 1 ELSE 2

Init ==
    /\ mode = "NONE" /\ attention = FALSE /\ desk = "idle"
    /\ consent = "OPTED_IN" /\ offer = Nothing
    /\ stored = {} /\ ceiling \in Ceilings /\ replies = 0
    /\ diary = [s \in Slots |-> "free"]
    /\ pc = [h \in Handlers |-> "idle"] /\ msg = [h \in Handlers |-> Nothing]
    /\ hand = [h \in Handlers |-> Nothing]
    /\ answers = [m \in Messages |-> 0]
    /\ told = Nothing /\ meant = [h \in Handlers |-> Nothing]
    /\ bookings = [s \in Slots |-> 0]
    /\ wronged = {} /\ contested = {} /\ orphaned = {}
    /\ promised = FALSE /\ excused = FALSE /\ silenced = FALSE /\ tripped = FALSE
    /\ deliveries = 0 /\ trouble = 0

Goto(h, query) == pc' = [pc EXCEPT ![h] = query]

Trouble == trouble < MaxTrouble /\ trouble' = trouble + 1
-----------------------------------------------------------------------------
(* The webhook: every request is acknowledged before anything is done *)

OpenConversation == IF mode = "NONE" THEN mode' \in {"AI", "HUMAN"} ELSE UNCHANGED mode

\* Faulty variant: a copy is a message like any other.
ReceiveAnyhow(h, m) ==
    /\ pc[h] = "idle"
    /\ deliveries < MaxDeliveries /\ deliveries' = deliveries + 1
    /\ OpenConversation
    /\ stored' = stored \cup {m}
    /\ msg' = [msg EXCEPT ![h] = m]
    /\ Goto(h, "read")
    /\ UNCHANGED <<attention, desk, consent, offer, replies, diary, hand, answers, offers,
                   trust, limits, trouble>>

\* Meta delivers a message, once or again.  The thread is found or made, in the mode
\* the salon's setting says; two that make it agree on one.  The provider's id of a
\* message is unique: a copy is not stored, and not answered.  A handler that dies
\* before has acknowledged the message and lost it, as if it had never come.
Receive(h, m) ==
    /\ pc[h] = "idle"
    /\ deliveries < MaxDeliveries /\ deliveries' = deliveries + 1
    /\ OpenConversation
    /\ stored' = stored \cup {m}
    /\ msg' = [msg EXCEPT ![h] = m]
    /\ Goto(h, IF m \in stored THEN "credit" ELSE "read")
    /\ UNCHANGED <<attention, desk, consent, offer, replies, diary, hand, answers, offers,
                   trust, limits, trouble>>

PutDown(h) ==
    /\ hand' = [hand EXCEPT ![h] = Nothing]
    /\ meant' = [meant EXCEPT ![h] = Nothing]

\* recordReply, which is that of Receipts, and STOP, which is heeded last.
CreditAndOptOut(h) ==
    /\ pc[h] = "credit"
    /\ consent' = IF msg[h] \in Stops THEN "OPTED_OUT" ELSE consent
    /\ msg' = [msg EXCEPT ![h] = Nothing]
    /\ Goto(h, "idle")
    /\ UNCHANGED <<thread, offer, stored, replies, diary, hand, answers, offers, trust,
                   limits, bounds>>

\* A query throws and the rest of maybeAutoReply is skipped, or the process dies.
Fail(h) ==
    /\ pc[h] # "idle"
    /\ Trouble
    /\ orphaned' = IF pc[h] \in {"booked", "offered"} THEN orphaned \cup {hand[h]} ELSE orphaned
    /\ PutDown(h)
    /\ \/ Goto(h, "idle") /\ msg' = [msg EXCEPT ![h] = Nothing]
       \/ pc[h] # "credit" /\ Goto(h, "credit") /\ UNCHANGED msg
    /\ UNCHANGED <<thread, record, answers, told, bookings, wronged, contested, trust, limits,
                   deliveries>>
-----------------------------------------------------------------------------
(* maybeAutoReply *)

\* Another handler has the slot in hand.
Contest(h, s) ==
    contested' = IF s \in Slots /\ \E k \in Handlers \ {h} : hand[k] = s
                 THEN contested \cup {s} ELSE contested

\* The message with its thread and customer, in one query.  A complaint is for a
\* person whatever else holds.
ReadThread(h) ==
    /\ pc[h] = "read"
    /\ \/ /\ mode # "AI" \/ consent = "OPTED_OUT"
          /\ Goto(h, "credit")
          /\ UNCHANGED <<hand, meant, contested>>
       \/ /\ mode = "AI" /\ consent # "OPTED_OUT"
          /\ \E query \in {"count", "hand over"} : Goto(h, query)
          /\ hand' = [hand EXCEPT ![h] = offer]
          /\ meant' = [meant EXCEPT ![h] = told]
          /\ Contest(h, offer)
    /\ UNCHANGED <<thread, record, msg, answers, told, bookings, wronged, orphaned, trust, limits,
                   bounds>>

AfterCount == {"mean", "book", "insert", "booked", "gone", "failed", "free", "hold", "offered",
               "answer", "say", "hand over", "hand off"}

\* Faulty variant: one reply too many, and no handover.
CeilingTooHigh(n) == IF n <= ceiling THEN "ON" ELSE "SILENT"

\* "HAND_OVER exactly once, at the limit. SILENT above it."
replyCeiling(n) == IF n < ceiling THEN "ON" ELSE IF n = ceiling THEN "HAND_OVER" ELSE "SILENT"

CountReplies(h) ==
    LET action == replyCeiling(replies) IN
    /\ pc[h] = "count"
    /\ \/ action = "ON" /\ Goto(h, "mean") /\ UNCHANGED <<hand, meant, silenced>>
       \/ action = "HAND_OVER" /\ Goto(h, "hand over") /\ UNCHANGED <<hand, meant, silenced>>
       \/ action = "SILENT" /\ Goto(h, "credit") /\ PutDown(h) /\ silenced' = TRUE
    /\ tripped' = (tripped \/ \E k \in Handlers \ {h} : pc[k] \in AfterCount)
    /\ UNCHANGED <<thread, record, msg, answers, told, bookings, wronged, contested, orphaned,
                   trust, bounds>>

\* clearOffer: its failure is swallowed.
Clear(h) ==
    \/ offer' = Nothing /\ UNCHANGED <<orphaned, trouble>>
    \/ Trouble /\ orphaned' = orphaned \cup ({hand[h], offer} \cap Slots) /\ UNCHANGED offer

\* What the customer meant, of a message for a person, a yes to the offer that was
\* read, a no to it, the name of a shop it waits for or is moved to, a request, or
\* anything else.
Understand(h) ==
    /\ pc[h] = "mean"
    /\ \/ \E query \in {"hand over", "free", "answer"} :
            Goto(h, query) /\ UNCHANGED <<offer, orphaned, trouble>>
       \/ hand[h] \in Slots /\ Goto(h, "book") /\ UNCHANGED <<offer, orphaned, trouble>>
       \/ hand[h] \in Slots /\ Goto(h, "answer") /\ Clear(h)
       \/ hand[h] # Nothing /\ Goto(h, "free") /\ Clear(h)
    /\ UNCHANGED <<thread, consent, stored, replies, diary, msg, hand, answers, told,
                   meant, bookings, wronged, contested, trust, limits, deliveries>>

\* bookOffer: createAppointment looks for conflicts and then inserts.
CheckSlot(h) ==
    /\ pc[h] = "book"
    /\ \/ diary[hand[h]] = "free" /\ Goto(h, "insert") /\ UNCHANGED wronged
       \/ /\ diary[hand[h]] # "free" /\ Goto(h, "gone")
          /\ wronged' = IF diary[hand[h]] = "hers" THEN wronged \cup {hand[h]} ELSE wronged
       \/ Goto(h, "failed") /\ UNCHANGED wronged
    /\ UNCHANGED <<thread, record, msg, hand, answers, told, meant, bookings, contested, orphaned,
                   trust, limits, bounds>>

Insert(h) ==
    LET s == hand[h] IN
    /\ pc[h] = "insert"
    /\ diary' = [diary EXCEPT ![s] = "hers"]
    /\ bookings' = [bookings EXCEPT ![s] = OnceMore(@)]
    /\ wronged' = IF meant[h] # s THEN wronged \cup {s} ELSE wronged
    /\ Goto(h, "booked")
    /\ UNCHANGED <<thread, consent, offer, stored, replies, msg, hand, answers, told,
                   meant, contested, orphaned, trust, limits, bounds>>

\* Faulty variant: the offer is left standing.
KeepOffer(h) ==
    /\ pc[h] \in {"booked", "gone", "failed"}
    /\ Goto(h, IF pc[h] = "failed" THEN "hand over" ELSE "say")
    /\ UNCHANGED <<thread, record, msg, hand, answers, offers, trust, limits, bounds>>

\* Booked, gone or failed, the offer is over; a failure is handed over.
ClearOffer(h) ==
    /\ pc[h] \in {"booked", "gone", "failed"}
    /\ Clear(h)
    /\ Goto(h, IF pc[h] = "failed" THEN "hand over" ELSE "say")
    /\ UNCHANGED <<thread, consent, stored, replies, diary, msg, hand, answers, told,
                   meant, bookings, wronged, contested, trust, limits, deliveries>>

\* A request: a slot that is free, the question which shop, nothing free, or no
\* service, day or branch to look for, which is answered in words.
CheckAvailability(h) ==
    /\ pc[h] = "free"
    /\ \/ \E s \in Slots \cup {Parked} :
            /\ s \in Slots => diary[s] = "free"
            /\ hand' = [hand EXCEPT ![h] = s]
            /\ Contest(h, s)
            /\ Goto(h, "hold")
       \/ (Goto(h, "say") \/ Goto(h, "answer")) /\ UNCHANGED <<hand, contested>>
    /\ UNCHANGED <<thread, record, msg, answers, told, meant, bookings, wronged, orphaned, trust,
                   limits, bounds>>

\* holdOffer and holdPendingBranch: their failure is swallowed, and the customer
\* is told all the same.
HoldOffer(h) ==
    /\ pc[h] = "hold"
    /\ \/ offer' = hand[h] /\ UNCHANGED <<orphaned, trouble>>
       \/ Trouble /\ orphaned' = orphaned \cup ({hand[h], offer} \cap Slots) /\ UNCHANGED offer
    /\ contested' = IF \E k \in Handlers \ {h} : pc[k] = "offered"
                    THEN contested \cup ({hand[h]} \cap Slots) ELSE contested
    /\ Goto(h, IF hand[h] \in Slots THEN "offered" ELSE "say")
    /\ UNCHANGED <<thread, consent, stored, replies, diary, msg, hand, answers, told,
                   meant, bookings, wronged, trust, limits, deliveries>>

Send(h) ==
    /\ consent # "OPTED_OUT"
    /\ replies' = replies + 1
    /\ answers' = [answers EXCEPT ![msg[h]] = OnceMore(@)]
    /\ UNCHANGED trouble

\* queueMessage refuses and nobody asks it: she has opted out by now, the address is
\* known to be dead, the allowance is spent.  Most refusals leave a SKIPPED row, and
\* the rows are what is counted.
Refused ==
    /\ \/ consent = "OPTED_OUT" /\ UNCHANGED trouble
       \/ Trouble
    /\ replies' \in {replies, replies + 1}
    /\ UNCHANGED answers

\* The reply is queued, or refused.  That the message is marked as handled is for the
\* inbox alone.
Say(h) ==
    /\ pc[h] \in {"offered", "say"}
    /\ \/ /\ Send(h)
          /\ told' = IF pc[h] = "offered" THEN hand[h] ELSE told
          /\ UNCHANGED orphaned
       \/ /\ Refused
          /\ orphaned' = IF pc[h] = "offered" THEN orphaned \cup {hand[h]} ELSE orphaned
          /\ UNCHANGED told
    /\ PutDown(h) /\ Goto(h, "credit")
    /\ UNCHANGED <<thread, consent, offer, stored, diary, msg, bookings, wronged, contested,
                   trust, limits, deliveries>>

\* The model words the answer, or does not, or breaks a rule it was given.
Answer(h) ==
    /\ pc[h] = "answer"
    /\ \E query \in {"say", "hand over"} : Goto(h, query)
    /\ UNCHANGED <<thread, record, msg, hand, answers, offers, trust, limits, bounds>>

\* handToHuman, before any word of it; its failure is swallowed.
HandToHuman(h) ==
    /\ pc[h] = "hand over"
    /\ \/ /\ mode' = "HUMAN" /\ attention' = TRUE
          /\ excused' = (excused \/ desk = "sent")
          /\ UNCHANGED trouble
       \/ Trouble /\ excused' = TRUE /\ UNCHANGED <<mode, attention>>
    /\ tripped' = TRUE
    /\ Goto(h, "hand off")
    /\ UNCHANGED <<desk, record, msg, hand, answers, offers, promised, silenced, deliveries>>

\* A salon without a number and a website has nothing to say.
SayHandoff(h) ==
    /\ pc[h] = "hand off"
    /\ \/ Send(h) /\ promised' = TRUE
       \/ Refused /\ UNCHANGED promised
       \/ UNCHANGED <<replies, answers, promised, trouble>>
    /\ PutDown(h) /\ Goto(h, "credit")
    /\ UNCHANGED <<thread, consent, offer, stored, diary, msg, told, bookings, wronged,
                   contested, orphaned, excused, limits, deliveries>>
-----------------------------------------------------------------------------
(* The staff, the diary and the hour *)

Touch == mode # "NONE" /\ Trouble

\* A promise a handler has made and not yet worded.
Unworded == \E h \in Handlers : pc[h] = "hand off"

TakeOver ==
    /\ Touch
    /\ mode' = "HUMAN" /\ attention' = TRUE
    /\ UNCHANGED <<desk, record, local, answers, offers, trust, limits, deliveries>>

ResumeAssistant ==
    /\ Touch
    /\ mode' = "AI" /\ attention' = FALSE
    /\ promised' = FALSE /\ excused' = Unworded
    /\ UNCHANGED <<desk, record, local, answers, offers, limits, deliveries>>

\* sendStaffReply: the message, which counts as a reply, and then the flag, whatever
\* it stands for by then.  The mode is left alone.
StaffReplies ==
    /\ Touch
    /\ desk = "idle" /\ desk' = "sent"
    /\ replies' = replies + 1
    /\ promised' = FALSE /\ excused' = Unworded
    /\ tripped' = TRUE
    /\ UNCHANGED <<mode, attention, consent, offer, stored, diary, local, answers,
                   offers, silenced, deliveries>>

StaffReplyClears ==
    /\ desk = "sent" /\ desk' = "idle"
    /\ attention' = FALSE
    /\ UNCHANGED <<mode, record, local, answers, offers, trust, limits, bounds>>

\* Somebody else takes a slot, or gives it back.
DiaryMoves(s) ==
    /\ diary[s] # "hers"
    /\ diary' = [diary EXCEPT ![s] = IF @ = "free" THEN "other's" ELSE "free"]
    /\ UNCHANGED <<thread, consent, offer, stored, replies, local, answers, offers,
                   trust, limits, bounds>>

\* After an hour the column is as good as empty.
OfferGoesStale ==
    /\ offer # Nothing /\ offer' = Nothing
    /\ UNCHANGED <<thread, consent, stored, replies, diary, local, answers, offers,
                   trust, limits, bounds>>
-----------------------------------------------------------------------------
Webhook(h) ==
    \/ \E m \in Messages : Receive(h, m)
    \/ CreditAndOptOut(h) \/ Fail(h)

AutoReply(h) ==
    \/ ReadThread(h) \/ CountReplies(h) \/ Understand(h)
    \/ CheckSlot(h) \/ Insert(h) \/ ClearOffer(h)
    \/ CheckAvailability(h) \/ HoldOffer(h) \/ Say(h)
    \/ Answer(h) \/ HandToHuman(h) \/ SayHandoff(h)

Next ==
    /\ \/ \E h \in Handlers : Webhook(h) \/ AutoReply(h)
       \/ TakeOver \/ ResumeAssistant \/ StaffReplies \/ StaffReplyClears
       \/ \E s \in Slots : DiaryMoves(s)
       \/ OfferGoesStale
    /\ UNCHANGED ceiling

Spec == Init /\ [][Next]_vars
-----------------------------------------------------------------------------
\* A message is answered automatically at most once, however often it is delivered
\* and whichever handlers get hold of it at the same time.
AnsweredOnce == \A m \in Messages : answers[m] <= 1

\* A yes books, once, the slot the customer was last offered when she said it, and
\* she is never told that a slot of her own is gone, unless two handlers had the
\* slot in hand at once, it was held for her while the words of another offer were still
\* to come, a fault came between two writes about it, or the words that offered it were
\* refused after it was held, which leaves her yes to an earlier one booking this.
YesBooksTheOffer ==
    \A s \in Slots : s \in wronged \/ bookings[s] > 1 => s \in contested \cup orphaned

\* A customer who was told that a person will look is in the queue of the staff, and
\* left alone by the assistant, until one of them writes or gives the thread back:
\* unless a reply of theirs was under way when the thread was handed over, which
\* takes the flag with it, or the flag could not be written.  And nobody meets silence
\* at the ceiling before a person was called in, unless the staff wrote to the thread or
\* two messages were counted at once.
PromiseIsFlagged ==
    /\ promised => excused \/ (attention /\ mode = "HUMAN")
    /\ silenced => tripped
=============================================================================
