------------------------------- MODULE Outbox --------------------------------
(***************************************************************************)
(* queueMessage(): the one place every send passes through                 *)
(* (messaging/dispatcher.ts).  A call reads the customer, applies its      *)
(* gates in order, charges the meter, writes the message log and enqueues  *)
(* the job that will send it.  Nothing ties these steps together in a      *)
(* transaction: consent may change and the process may die between them.   *)
(*                                                                         *)
(* One customer of one salon.  The allowance stands for consume(), which   *)
(* Quota models in full; the job for the row JobQueue keeps.               *)
(***************************************************************************)
EXTENDS Naturals, FiniteSets

CONSTANTS
    Calls,        \* calls of queueMessage()
    Allowance,    \* what consume() will let through
    MaxCrashes,   \* bound: processes that die during a call
    MaxChanges    \* bound: changes of consent and of what the salon has

Channels == {"WHATSAPP", "EMAIL"}

Consent == {"UNKNOWN", "OPTED_IN", "OPTED_OUT"}

\* What is sent: a template, with the category the salon asked for and the one
\* Meta filed it under, or plain text.
PlainText == [template |-> FALSE, category |-> "UTILITY", ours |-> "UTILITY"]

Contents ==
    {[template |-> TRUE, category |-> c, ours |-> o] :
        c, o \in {"MARKETING", "UTILITY"}} \cup {PlainText}

VARIABLES
    consent,      \* consent[ch]: Customer.whatsappConsent, emailConsent
    refusedFor,   \* refusedFor[ch]: the address is marked UNDELIVERABLE
    marketing,    \* the plan includes the marketing feature
    wroteToday,   \* the customer wrote to the salon in the last 24 hours
    allowance,    \* what is left on the meter
    pc,           \* pc[c]: the next step of the call
    channel,      \* channel[c]: input.channel, EMAIL after a switch
    content,      \* content[c]
    customer,     \* customer[c]: the row as this call read it
    row,          \* row[c]: status and errorCode of the MessageLog row written
    job,          \* job[c]: a message.send job was enqueued
    crashes, changes,   \* bounds
    paid,         \* history: what the meter was charged for the call
    allowed,      \* history: allowed[c]: channels open to the content since the call began
    sold,         \* history: sold[c]: the plan included marketing at some moment of the call
    died          \* history: died[c]: the process died during the call

salon == <<consent, refusedFor, marketing, wroteToday>>
call  == <<pc, channel, content, customer>>
vars  == <<salon, allowance, call, row, job, crashes, changes, paid, allowed, sold, died>>

NoRow == [status |-> "NONE", code |-> ""]
Skip(code) == [status |-> "SKIPPED", code |-> code]
Queued == [status |-> "QUEUED", code |-> ""]

PCs == {"start", "gates", "window", "charge", "log", "enqueue", "end"}

\* Marketing needs an opt-in, everything else only the absence of an opt-out.
ConsentAllows(category, c) ==
    IF category = "MARKETING" THEN c = "OPTED_IN" ELSE c # "OPTED_OUT"

\* The channels on which this content may go to the customer right now.
OpenTo(t, cons) == {ch \in Channels : ConsentAllows(t.category, cons[ch])}

Init ==
    /\ consent \in [Channels -> Consent]
    /\ refusedFor = [ch \in Channels |-> FALSE]
    /\ marketing \in BOOLEAN
    /\ wroteToday \in BOOLEAN
    /\ allowance = Allowance
    /\ pc = [c \in Calls |-> "start"]
    /\ channel = [c \in Calls |-> "WHATSAPP"]
    /\ content = [c \in Calls |-> PlainText]
    /\ customer = [c \in Calls |-> [consent |-> consent, refusedFor |-> refusedFor]]
    /\ row = [c \in Calls |-> NoRow]
    /\ job = [c \in Calls |-> FALSE]
    /\ crashes = 0 /\ changes = 0
    /\ paid = [c \in Calls |-> 0]
    /\ allowed = [c \in Calls |-> {}]
    /\ sold = [c \in Calls |-> FALSE]
    /\ died = [c \in Calls |-> FALSE]
-----------------------------------------------------------------------------
Goto(c, where) == pc' = [pc EXCEPT ![c] = where]

Write(c, r) == row' = [row EXCEPT ![c] = r]

\* The call reads the template and the customer.
Start(c, ch, t) ==
    /\ pc[c] = "start"
    /\ channel' = [channel EXCEPT ![c] = ch]
    /\ content' = [content EXCEPT ![c] = t]
    /\ customer' = [customer EXCEPT ![c] = [consent |-> consent, refusedFor |-> refusedFor]]
    /\ allowed' = [allowed EXCEPT ![c] = OpenTo(t, consent)]
    /\ sold' = [sold EXCEPT ![c] = marketing]
    /\ Goto(c, "gates")
    /\ UNCHANGED <<salon, allowance, row, job, crashes, changes, paid, died>>

\* The gates on the plan, on consent and on the address, in the code's order; ""
\* when the message passes them all.
Refusal(c) ==
    LET t == content[c] IN
    CASE t.template /\ t.ours = "MARKETING" /\ ~marketing -> "PLAN_NO_MARKETING"
      [] ~ConsentAllows(t.category, customer[c].consent[channel[c]]) -> "NO_CONSENT"
      [] customer[c].refusedFor[channel[c]] -> "UNDELIVERABLE"
      [] OTHER -> ""

RefuseAtGate(c) ==
    /\ pc[c] = "gates" /\ Refusal(c) # ""
    /\ Write(c, Skip(Refusal(c)))
    /\ Goto(c, "end")
    /\ UNCHANGED <<salon, allowance, channel, content, customer, job, crashes, changes,
                   paid, allowed, sold, died>>

\* No address on the channel, or nothing to say: nothing is written at all.
DropSilently(c) ==
    /\ pc[c] = "gates"
    /\ Goto(c, "end")
    /\ UNCHANGED <<salon, allowance, channel, content, customer, row, job, crashes,
                   changes, paid, allowed, sold, died>>

\* A variable of the template had no value, or Meta has not approved the template
\* and there is no email version of it.
RefuseTemplate(c) ==
    /\ pc[c] = "gates" /\ Refusal(c) = "" /\ content[c].template
    /\ \/ Write(c, Skip("MISSING_VARIABLES"))
       \/ channel[c] = "WHATSAPP" /\ Write(c, Skip("TEMPLATE_NOT_LIVE"))
    /\ Goto(c, "end")
    /\ UNCHANGED <<salon, allowance, channel, content, customer, job, crashes, changes,
                   paid, allowed, sold, died>>

\* Faulty variant: the email twin goes out on the consent checked for WhatsApp.
SwitchWithoutAsking(c) ==
    /\ pc[c] = "gates" /\ Refusal(c) = "" /\ content[c].template /\ channel[c] = "WHATSAPP"
    /\ channel' = [channel EXCEPT ![c] = "EMAIL"]
    /\ Goto(c, "charge")
    /\ UNCHANGED <<salon, allowance, content, customer, row, job, crashes, changes, paid,
                   allowed, sold, died>>

\* The template is not live on WhatsApp but has an email twin, filed under a
\* category of its own: the function calls itself, reading everything again.
SwitchToEmail(c) ==
    /\ pc[c] = "gates" /\ Refusal(c) = "" /\ content[c].template /\ channel[c] = "WHATSAPP"
    /\ \E twin \in {t \in Contents : t.template} :
          /\ content' = [content EXCEPT ![c] = twin]
          /\ allowed' = [allowed EXCEPT ![c] = OpenTo(twin, consent)]
    /\ channel' = [channel EXCEPT ![c] = "EMAIL"]
    /\ customer' = [customer EXCEPT ![c] = [consent |-> consent, refusedFor |-> refusedFor]]
    /\ sold' = [sold EXCEPT ![c] = marketing]
    /\ UNCHANGED <<salon, allowance, pc, row, job, crashes, changes, paid, died>>

PassGates(c) ==
    /\ pc[c] = "gates" /\ Refusal(c) = ""
    /\ Goto(c, IF channel[c] = "WHATSAPP" /\ ~content[c].template THEN "window" ELSE "charge")
    /\ UNCHANGED <<salon, allowance, channel, content, customer, row, job, crashes,
                   changes, paid, allowed, sold, died>>

\* Plain text on WhatsApp needs an open 24-hour service window.
CheckWindow(c) ==
    /\ pc[c] = "window"
    /\ \/ wroteToday /\ Goto(c, "charge") /\ UNCHANGED row
       \/ ~wroteToday /\ Goto(c, "end") /\ Write(c, Skip("OUTSIDE_SERVICE_WINDOW"))
    /\ UNCHANGED <<salon, allowance, channel, content, customer, job, crashes, changes,
                   paid, allowed, sold, died>>

\* Plain text on WhatsApp is charged to WA_SERVICE, a meter that never refuses.
NeverRefused(c) == channel[c] = "WHATSAPP" /\ ~content[c].template

\* Faulty variant: a refused message is billed.
ChargeRefused(c) ==
    /\ pc[c] = "charge"
    /\ paid' = [paid EXCEPT ![c] = @ + 1]
    /\ \/ NeverRefused(c) /\ Goto(c, "log") /\ UNCHANGED <<allowance, row>>
       \/ /\ ~NeverRefused(c) /\ allowance > 0
          /\ allowance' = allowance - 1
          /\ Goto(c, "log")
          /\ UNCHANGED row
       \/ /\ ~NeverRefused(c) /\ allowance = 0
          /\ Write(c, Skip("QUOTA_EXCEEDED"))
          /\ Goto(c, "end")
          /\ UNCHANGED allowance
    /\ UNCHANGED <<salon, channel, content, customer, job, crashes, changes, allowed,
                   sold, died>>

\* consume(), then the row of a refused message.
Charge(c) ==
    /\ pc[c] = "charge"
    /\ \/ /\ NeverRefused(c)
          /\ paid' = [paid EXCEPT ![c] = @ + 1]
          /\ Goto(c, "log")
          /\ UNCHANGED <<allowance, row>>
       \/ /\ ~NeverRefused(c) /\ allowance > 0
          /\ allowance' = allowance - 1
          /\ paid' = [paid EXCEPT ![c] = @ + 1]
          /\ Goto(c, "log")
          /\ UNCHANGED row
       \/ /\ ~NeverRefused(c) /\ allowance = 0
          /\ Write(c, Skip("QUOTA_EXCEEDED"))
          /\ Goto(c, "end")
          /\ UNCHANGED <<allowance, paid>>
    /\ UNCHANGED <<salon, channel, content, customer, job, crashes, changes, allowed,
                   sold, died>>

WriteLog(c) ==
    /\ pc[c] = "log"
    /\ Write(c, Queued)
    /\ Goto(c, "enqueue")
    /\ UNCHANGED <<salon, allowance, channel, content, customer, job, crashes, changes,
                   paid, allowed, sold, died>>

EnqueueSend(c) ==
    /\ pc[c] = "enqueue"
    /\ job' = [job EXCEPT ![c] = TRUE]
    /\ Goto(c, "end")
    /\ UNCHANGED <<salon, allowance, channel, content, customer, row, crashes, changes,
                   paid, allowed, sold, died>>

Crash(c) ==
    /\ pc[c] \notin {"start", "end"} /\ crashes < MaxCrashes
    /\ crashes' = crashes + 1
    /\ died' = [died EXCEPT ![c] = TRUE]
    /\ Goto(c, "end")
    /\ UNCHANGED <<salon, allowance, channel, content, customer, row, job, changes, paid,
                   allowed, sold>>
-----------------------------------------------------------------------------
(* Meanwhile: the customer, the providers' verdicts, the plan *)

Change == changes < MaxChanges /\ changes' = changes + 1

\* A STOP by WhatsApp, a spam complaint, or an edit of the profile.
SetConsent(ch, v) ==
    /\ Change
    /\ consent[ch] # v
    /\ consent' = [consent EXCEPT ![ch] = v]
    /\ allowed' = [c \in Calls |-> allowed[c] \cup
                        (IF pc[c] = "start" THEN {} ELSE OpenTo(content[c], consent'))]
    /\ UNCHANGED <<refusedFor, marketing, wroteToday, allowance, call, row, job, crashes,
                   paid, sold, died>>

SetVerdict(ch) ==
    /\ Change
    /\ refusedFor' = [refusedFor EXCEPT ![ch] = ~@]
    /\ UNCHANGED <<consent, marketing, wroteToday, allowance, call, row, job, crashes,
                   paid, allowed, sold, died>>

SetPlan ==
    /\ Change
    /\ marketing' = ~marketing
    /\ sold' = [c \in Calls |-> sold[c] \/ (pc[c] # "start" /\ marketing')]
    /\ UNCHANGED <<consent, refusedFor, wroteToday, allowance, call, row, job, crashes,
                   paid, allowed, died>>

\* The customer writes, or 24 hours pass.
SetWindow ==
    /\ Change
    /\ wroteToday' = ~wroteToday
    /\ UNCHANGED <<consent, refusedFor, marketing, allowance, call, row, job, crashes,
                   paid, allowed, sold, died>>
-----------------------------------------------------------------------------
QueueMessage(c) ==
    \/ \E ch \in Channels, t \in Contents : Start(c, ch, t)
    \/ RefuseAtGate(c) \/ DropSilently(c) \/ RefuseTemplate(c) \/ SwitchToEmail(c)
    \/ PassGates(c) \/ CheckWindow(c) \/ Charge(c) \/ WriteLog(c) \/ EnqueueSend(c)
    \/ Crash(c)

Next ==
    \/ \E c \in Calls : QueueMessage(c)
    \/ \E ch \in Channels, v \in Consent : SetConsent(ch, v)
    \/ \E ch \in Channels : SetVerdict(ch)
    \/ SetPlan \/ SetWindow

Spec == Init /\ [][Next]_vars
-----------------------------------------------------------------------------

\* "A queued message is one that has already been paid for" and "a refused
\* message must not be billed": however a call ends, it was charged once if it
\* queued the message and not at all if it recorded a refusal; and what was paid for
\* is on its way, unless the process died on the spot.
PaidIffQueued ==
    \A c \in Calls :
        /\ row[c].status = "QUEUED" => paid[c] = 1
        /\ row[c].status = "SKIPPED" => paid[c] = 0
        /\ pc[c] = "end" /\ paid[c] > 0 /\ ~died[c] => job[c]

\* No message is queued that the customer's consent forbade during the whole
\* call, on the channel it finally leaves by, template or plain text; and "a salon
\* without the marketing feature sends nothing promotional, on any channel, however
\* the send was started" - what is promotional being decided by the salon's own
\* category and not by Meta's.
AllowedAtSomeMoment ==
    \A c \in Calls :
        row[c].status = "QUEUED" =>
            /\ channel[c] \in allowed[c]
            /\ content[c].template /\ content[c].ours = "MARKETING" => sold[c]

=============================================================================
