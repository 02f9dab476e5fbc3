--------------------------- MODULE CallbacksProof ----------------------------
(***************************************************************************)
(* Proofs about Callbacks, for any messages, handlers and bounds: the life *)
(* of a log row after it was queued (Receipts).  What is remembered of an  *)
(* address (Reachability) has only a liveness property, which TLC checks.  *)
(*                                                                         *)
(* A message is on its way out, or has left, or has not been tried since   *)
(* the last worker died with it: what was accepted more than once is       *)
(* accounted for by those deaths (Tries).  What a handler read is never    *)
(* more than the row says (Reader), and as long as it is alone with its    *)
(* message it is exactly that, so what a handler still has to count is     *)
(* what the rows have gained and the counters have not (StagesMatch).      *)
(***************************************************************************)
EXTENDS Callbacks, FiniteSetTheorems, TLAPS

Statuses == {"QUEUED", "SENT"} \cup R!Callbacks

Events == [msg : Messages \cup {CHOOSE m \in Messages : TRUE},
           status : R!Callbacks, copy : Nat]

RowsTyped ==
    /\ status \in [Messages -> Statuses]
    /\ stamps \in [Messages -> SUBSET R!Stamped]
    /\ sentAt \in [Messages -> BOOLEAN]
    /\ provId \in [Messages -> Nat]
    /\ count \in [R!Counters -> Nat]

DeliveryTyped ==
    /\ job \in [Messages -> {"waiting", "running", "locked", "over"}]
    /\ dpc \in [Messages -> {"read", "send", "record", "count"}]
    /\ result \in [Messages -> Nat]
    /\ copies \in [Messages -> Nat]
    /\ deaths \in [Messages -> Nat]
    /\ crashes \in Nat

HandlingTyped ==
    /\ hpc \in [Handlers -> {"idle", "update", "count"}]
    /\ event \in [Handlers -> Events]
    /\ log \in [Handlers -> [status : Statuses, stamps : SUBSET R!Stamped]]
    /\ overlapped \subseteq Messages

Typed == RowsTyped /\ DeliveryTyped /\ HandlingTyped

At(m, spot) == job[m] = "running" /\ dpc[m] = spot

\* Each copy but the one on its way is a death's doing.
Tries(m) ==
    /\ copies[m] <= 1 + deaths[m]
    /\ At(m, "send") => copies[m] <= deaths[m]
    /\ status[m] = "QUEUED" /\ ~At(m, "record") => copies[m] <= deaths[m]
    /\ sentAt[m] => status[m] # "QUEUED" /\ ~At(m, "send") /\ ~At(m, "record")

Alone(h) == event[h].msg \notin overlapped

\* Delivered is stamped first.
Narrow(set) == set # {} => "DELIVERED" \in set

New(h) == R!NewStamps(event[h].status, log[h].stamps)

\* What a handler read, and what its message has gained since.
Reader(h) ==
    /\ Narrow(log[h].stamps)
    /\ hpc[h] # "idle" =>
         /\ event[h].msg \in Messages
         /\ log[h].stamps \subseteq stamps[event[h].msg]
    /\ hpc[h] = "update" /\ Alone(h) =>
         /\ stamps[event[h].msg] = log[h].stamps
         /\ sentAt[event[h].msg] =>
              status[event[h].msg] \in {log[h].status, "SENT"}
    /\ hpc[h] = "count" /\ Alone(h) => stamps[event[h].msg] = log[h].stamps \cup New(h)

\* Two handlers of one message are known to history.
Apart ==
    \A g, h \in Handlers :
        g # h /\ hpc[g] # "idle" /\ hpc[h] # "idle" /\ event[g].msg = event[h].msg => ~Alone(h)

Left == {m \in Messages : sentAt[m]}

SentMatches ==
    /\ count["sent"] + Cardinality(R!Counting) <= Cardinality(Left)
    /\ crashes = 0 => count["sent"] + Cardinality(R!Counting) = Cardinality(Left)

Reached(s) == {m \in Messages : s \in stamps[m]}
Owing(s) == {h \in Handlers : hpc[h] = "count" /\ s \in New(h) \ log[h].stamps}

StagesMatch ==
    crashes = 0 /\ overlapped = {} =>
        \A s \in R!Stamped :
            count[R!CounterOf[s]] + Cardinality(Owing(s)) = Cardinality(Reached(s))

RowInv ==
    /\ Typed
    /\ \A m \in Messages : Tries(m) /\ Narrow(stamps[m])
    /\ \A h \in Handlers : Reader(h)
    /\ Apart
    /\ SentMatches
    /\ StagesMatch
-----------------------------------------------------------------------------
(* Types *)

LEMMA RowsTypedKept == Typed /\ R!Next => RowsTyped'
<1> SUFFICES ASSUME Typed, R!Next PROVE RowsTyped'
  OBVIOUS
<1> USE DEF R!rows, R!delivery, R!handling, R!history
<1>1. ASSUME NEW m \in Messages, R!Deliver(m) PROVE RowsTyped'
  <2>1. ASSUME NEW set PROVE R!Bump(set) => count' \in [R!Counters -> Nat]
    BY DEF Typed, RowsTyped, R!Bump
  <2>2. ASSUME R!Run(m) \/ R!Reclaim(m) \/ R!ReadLog(m) \/ R!Send(m) \/ R!CrashDeliver(m) PROVE RowsTyped'
    BY <2>2 DEF Typed, RowsTyped, R!Run, R!Reclaim, R!ReadLog, R!Send, R!CrashDeliver
  <2>3. ASSUME R!RecordSend(m) PROVE RowsTyped'
    <3>1. "SENT" \in Statuses /\ "FAILED" \in Statuses /\ result[m] \in Nat
      BY DEF Typed, DeliveryTyped, Statuses, R!Callbacks, R!TERMINAL
    <3> HIDE DEF Statuses
    <3> QED
      BY <2>3, <3>1 DEF Typed, RowsTyped, R!RecordSend
  <2>4. ASSUME R!CountSend(m) PROVE RowsTyped'
    BY <2>1, <2>4 DEF Typed, RowsTyped, R!CountSend
  <2> QED
    BY <1>1, <2>2, <2>3, <2>4 DEF R!Deliver, R!Working
<1>2. ASSUME NEW h \in Handlers, R!Receive(h) PROVE RowsTyped'
  <2>1. ASSUME NEW set PROVE R!Bump(set) => count' \in [R!Counters -> Nat]
    BY DEF Typed, RowsTyped, R!Bump
  <2>2. ASSUME R!UpdateLog(h) PROVE RowsTyped'
    <3>1. event[h].status \in Statuses
      BY DEF Typed, HandlingTyped, Events, Statuses
    <3>2. R!NewStamps(event[h].status, log[h].stamps) \in SUBSET R!Stamped
      BY DEF R!NewStamps
    <3>3. status' \in [Messages -> Statuses]
      BY <2>2, <3>1 DEF Typed, RowsTyped, R!UpdateLog
    <3>4. stamps' \in [Messages -> SUBSET R!Stamped]
      BY <2>2, <3>2 DEF Typed, RowsTyped, R!UpdateLog
    <3> QED
      BY <2>2, <3>3, <3>4 DEF Typed, RowsTyped, R!UpdateLog
  <2>3. ASSUME R!CountCallback(h) PROVE RowsTyped'
    BY <2>1, <2>3 DEF Typed, RowsTyped, R!CountCallback
  <2>4. ASSUME R!CrashHandler(h) PROVE RowsTyped'
    BY <2>4 DEF Typed, RowsTyped, R!CrashHandler
  <2>5. ASSUME NEW m \in Messages, NEW s \in R!Callbacks, R!Callback(h, m, s) \/ R!Tap(h, m)
        PROVE  RowsTyped'
    BY <2>5 DEF Typed, RowsTyped, R!Callback, R!Tap, R!Handle
  <2>6. "CLICKED" \in R!Callbacks
    BY DEF R!Callbacks
  <2> QED
    BY <1>2, <2>2, <2>3, <2>4, <2>5, <2>6 DEF R!Receive
<1> QED
  BY <1>1, <1>2 DEF R!Next

LEMMA DeliveryTypedKept == Typed /\ R!Next => DeliveryTyped'
<1> SUFFICES ASSUME Typed, R!Next PROVE DeliveryTyped'
  OBVIOUS
<1> USE DEF R!rows, R!delivery, R!handling, R!history
<1>1. ASSUME NEW m \in Messages, R!Deliver(m) PROVE DeliveryTyped'
  <2>1. ASSUME R!Run(m) \/ R!Reclaim(m) \/ R!ReadLog(m) \/ R!RecordSend(m) \/ R!CountSend(m) PROVE DeliveryTyped'
    BY <2>1 DEF Typed, DeliveryTyped, R!Run, R!Reclaim, R!ReadLog, R!RecordSend, R!CountSend, R!Over
  <2>2. ASSUME R!Send(m) PROVE DeliveryTyped'
    <3>1. copies[m] + 1 \in Nat
      BY DEF Typed, DeliveryTyped
    <3> QED
      BY <2>2, <3>1 DEF Typed, DeliveryTyped, R!Send
  <2>3. ASSUME R!CrashDeliver(m) PROVE DeliveryTyped'
    <3>1. deaths[m] + 1 \in Nat /\ deaths[m] \in Nat
      BY DEF Typed, DeliveryTyped
    <3> QED
      BY <2>3, <3>1 DEF Typed, DeliveryTyped, R!CrashDeliver
  <2> QED
    BY <1>1, <2>1, <2>2, <2>3 DEF R!Deliver, R!Working
<1>2. ASSUME NEW h \in Handlers, R!Receive(h) PROVE DeliveryTyped'
  <2>1. UNCHANGED <<job, dpc, result, copies, deaths>> /\ crashes' \in {crashes, crashes + 1}
    BY <1>2 DEF R!Receive, R!Callback, R!Tap, R!Handle, R!UpdateLog, R!CountCallback, R!CrashHandler
  <2> QED
    BY <2>1 DEF Typed, DeliveryTyped
<1> QED
  BY <1>1, <1>2 DEF R!Next

LEMMA HandlingTypedKept == Typed /\ R!Next => HandlingTyped'
<1> SUFFICES ASSUME Typed, R!Next PROVE HandlingTyped'
  OBVIOUS
<1> USE DEF R!rows, R!delivery, R!handling, R!history
<1>1. ASSUME NEW m \in Messages, R!Deliver(m) PROVE HandlingTyped'
  <2>1. UNCHANGED <<hpc, event, log, overlapped>>
    BY <1>1 DEF R!Deliver, R!Working, R!Run, R!Reclaim, R!ReadLog, R!Send, R!RecordSend, R!CountSend, R!CrashDeliver
  <2> QED
    BY <2>1 DEF Typed, HandlingTyped
<1>2. ASSUME NEW h \in Handlers, NEW m \in Messages, NEW s \in R!Callbacks, NEW c \in Nat, R!Handle(h, m, s, c)
      PROVE  HandlingTyped'
  <2>1. [msg |-> m, status |-> s, copy |-> c] \in Events
    BY DEF Events
  <2>2. [status |-> status[m], stamps |-> stamps[m]] \in [status : Statuses, stamps : SUBSET R!Stamped]
    BY DEF Typed, RowsTyped
  <2>3. overlapped' \subseteq Messages
    BY <1>2 DEF Typed, HandlingTyped, R!Handle
  <2> QED
    BY <1>2, <2>1, <2>2, <2>3 DEF Typed, HandlingTyped, R!Handle
<1>3. ASSUME NEW h \in Handlers, R!Receive(h) PROVE HandlingTyped'
  <2>1. ASSUME R!UpdateLog(h) \/ R!CountCallback(h) \/ R!CrashHandler(h) PROVE HandlingTyped'
    BY <2>1 DEF Typed, HandlingTyped, R!UpdateLog, R!CountCallback, R!CrashHandler
  <2>2. ASSUME NEW m \in Messages, NEW s \in R!Callbacks, R!Callback(h, m, s) PROVE HandlingTyped'
    <3>1. PICK c \in 1 .. copies[m] :
             \/ provId[m] = c /\ R!Handle(h, m, s, c)
             \/ UNCHANGED <<hpc, event, log, overlapped>>
      BY <2>2 DEF R!Callback
    <3>2. c \in Nat
      BY DEF Typed, DeliveryTyped
    <3> QED
      BY <1>2, <3>1, <3>2 DEF Typed, HandlingTyped
  <2>3. ASSUME NEW m \in Messages, R!Tap(h, m) PROVE HandlingTyped'
    <3>1. "CLICKED" \in R!Callbacks /\ 0 \in Nat
      BY DEF R!Callbacks
    <3> QED
      BY <1>2, <2>3, <3>1 DEF R!Tap
  <2> QED
    BY <1>3, <2>1, <2>2, <2>3 DEF R!Receive
<1> QED
  BY <1>1, <1>3 DEF R!Next
-----------------------------------------------------------------------------
(* What a step touches *)

\* Delivering one message leaves the others and the handlers alone.
LEMMA DeliverTouches ==
  ASSUME Typed, NEW m \in Messages, R!Deliver(m)
  PROVE  /\ UNCHANGED <<stamps, hpc, event, log, overlapped>>
         /\ \A n \in Messages \ {m} : /\ status'[n] = status[n] /\ sentAt'[n] = sentAt[n]
                                     /\ job'[n] = job[n] /\ dpc'[n] = dpc[n]
                                     /\ result'[n] = result[n] /\ copies'[n] = copies[n]
                                     /\ deaths'[n] = deaths[n]
<1> USE DEF R!rows, R!delivery, R!handling, R!history, Typed, RowsTyped, DeliveryTyped
<1>1. CASE R!Run(m) \/ R!Reclaim(m) \/ R!ReadLog(m) \/ R!CountSend(m)
  BY <1>1 DEF R!Run, R!Reclaim, R!ReadLog, R!CountSend, R!Over
<1>2. CASE R!Send(m)
  BY <1>2 DEF R!Send
<1>3. CASE R!RecordSend(m)
  BY <1>3 DEF R!RecordSend
<1>4. CASE R!CrashDeliver(m)
  BY <1>4 DEF R!CrashDeliver
<1> QED
  BY <1>1, <1>2, <1>3, <1>4 DEF R!Deliver, R!Working

\* Handling a callback leaves the delivery alone.
LEMMA ReceiveTouches ==
  ASSUME Typed, NEW h \in Handlers, R!Receive(h)
  PROVE  /\ UNCHANGED <<sentAt, job, dpc, result, copies, deaths>>
         /\ crashes' >= crashes /\ overlapped \subseteq overlapped'
         /\ \A g \in Handlers \ {h} : hpc'[g] = hpc[g] /\ event'[g] = event[g] /\ log'[g] = log[g]
<1> USE DEF R!rows, R!delivery, R!handling, R!history, Typed, HandlingTyped, DeliveryTyped
<1>1. CASE R!UpdateLog(h) \/ R!CountCallback(h) \/ R!CrashHandler(h)
  BY <1>1 DEF R!UpdateLog, R!CountCallback, R!CrashHandler
<1>2. ASSUME NEW m, NEW s, NEW c, R!Handle(h, m, s, c)
      PROVE  /\ UNCHANGED <<sentAt, job, dpc, result, copies, deaths, crashes>>
             /\ overlapped \subseteq overlapped'
             /\ \A g \in Handlers \ {h} : hpc'[g] = hpc[g] /\ event'[g] = event[g] /\ log'[g] = log[g]
  BY <1>2 DEF R!Handle
<1>3. CASE \E m \in Messages, s \in R!Callbacks : R!Callback(h, m, s)
  BY <1>2, <1>3 DEF R!Callback
<1>4. CASE \E m \in Messages : R!Tap(h, m)
  BY <1>2, <1>4 DEF R!Tap
<1> QED
  BY <1>1, <1>3, <1>4 DEF R!Receive

\* What a handler does: it takes up a callback, writes, counts or dies; or it drops a
\* callback that finds no row.
Taking(h) ==
    /\ hpc[h] = "idle" /\ hpc'[h] = "update"
    /\ event'[h].msg \in Messages
    /\ log'[h] = [status |-> status[event'[h].msg], stamps |-> stamps[event'[h].msg]]
    /\ \A g \in Handlers : hpc[g] # "idle" /\ event[g].msg = event'[h].msg => event[g].msg \in overlapped'
    /\ overlapped' \subseteq Messages
    /\ UNCHANGED <<status, stamps, count, crashes>>

Idling == UNCHANGED <<status, stamps, count, crashes, overlapped, hpc, event, log>>

LEMMA ReceiveCases ==
  ASSUME Typed, NEW h \in Handlers, R!Receive(h)
  PROVE  \/ Taking(h) \/ Idling
         \/ R!UpdateLog(h) \/ R!CountCallback(h) \/ R!CrashHandler(h)
<1> USE DEF R!rows, R!delivery, R!handling, R!history, Typed, HandlingTyped, Taking, Idling
<1>1. ASSUME NEW m \in Messages, NEW s, NEW c, R!Handle(h, m, s, c) PROVE Taking(h)
  <2>1. /\ hpc[h] = "idle" /\ hpc'[h] = "update"
        /\ event'[h] = [msg |-> m, status |-> s, copy |-> c]
        /\ log'[h] = [status |-> status[m], stamps |-> stamps[m]]
        /\ UNCHANGED <<status, stamps, count, crashes>>
    BY <1>1 DEF R!Handle
  <2>2. \A g \in Handlers : hpc[g] # "idle" /\ event[g].msg = m => event[g].msg \in overlapped'
    BY <1>1 DEF R!Handle
  <2>3. overlapped' \subseteq Messages
    BY <1>1 DEF R!Handle
  <2> QED
    BY <2>1, <2>2, <2>3
<1>2. CASE \E m \in Messages, s \in R!Callbacks : R!Callback(h, m, s)
  BY <1>1, <1>2 DEF R!Callback
<1>3. CASE \E m \in Messages : R!Tap(h, m)
  BY <1>1, <1>3 DEF R!Tap
<1> QED
  BY <1>2, <1>3 DEF R!Receive

\* Writing the row: another handler's message or its own.
LEMMA UpdateWrites ==
  ASSUME Typed, NEW h \in Handlers, R!UpdateLog(h), event[h].msg \in Messages
  PROVE  /\ hpc[h] = "update" /\ hpc'[h] = "count"
         /\ UNCHANGED <<count, event, log, overlapped, crashes>>
         /\ stamps'[event[h].msg] = stamps[event[h].msg] \cup New(h)
         /\ status'[event[h].msg] \in {status[event[h].msg], event[h].status}
         /\ status'[event[h].msg] = event[h].status <=>
               \/ event[h].status \in R!TERMINAL
               \/ R!Climbs(event[h].status, log[h].status)
               \/ status[event[h].msg] = event[h].status
         /\ \A n \in Messages \ {event[h].msg} : status'[n] = status[n] /\ stamps'[n] = stamps[n]
<1> USE DEF R!rows, R!delivery, R!handling, R!history, Typed, RowsTyped, HandlingTyped
<1>1. /\ hpc[h] = "update" /\ hpc'[h] = "count"
      /\ UNCHANGED <<count, event, log, overlapped, crashes>>
  BY DEF R!UpdateLog
<1>2. /\ stamps'[event[h].msg] = stamps[event[h].msg] \cup New(h)
      /\ \A n \in Messages \ {event[h].msg} : stamps'[n] = stamps[n]
  BY DEF R!UpdateLog, New
<1>3. status' = IF event[h].status \in R!TERMINAL \/ R!Climbs(event[h].status, log[h].status)
                THEN [status EXCEPT ![event[h].msg] = event[h].status] ELSE status
  BY DEF R!UpdateLog
<1> QED
  BY <1>1, <1>2, <1>3
-----------------------------------------------------------------------------
(* Copies and the funnel *)

Before == Typed /\ (\A m \in Messages : Tries(m) /\ Narrow(stamps[m])) /\ (\A h \in Handlers : Reader(h)) /\ Apart

\* No callback puts a row back to QUEUED.
LEMMA NeverRequeued ==
  ASSUME Before, NEW h \in Handlers, R!Receive(h), NEW m \in Messages
  PROVE  status'[m] = "QUEUED" => status[m] = "QUEUED"
<1>1. CASE Taking(h) \/ Idling
  BY <1>1 DEF Taking, Idling
<1>2. CASE R!CountCallback(h) \/ R!CrashHandler(h)
  BY <1>2 DEF R!CountCallback, R!CrashHandler, R!rows
<1>3. CASE R!UpdateLog(h)
  <2>1. hpc[h] = "update"
    BY <1>3 DEF R!UpdateLog
  <2>2. event[h].msg \in Messages
    BY <2>1 DEF Before, Reader
  <2>3. event[h].status # "QUEUED"
    BY DEF Before, Typed, HandlingTyped, Events, R!Callbacks, R!TERMINAL
  <2> QED
    BY <1>3, <2>2, <2>3, UpdateWrites DEF Before
<1> QED
  BY <1>1, <1>2, <1>3, ReceiveCases DEF Before

LEMMA TriesKept == Before /\ R!Next => \A m \in Messages : Tries(m)'
<1> SUFFICES ASSUME Before, R!Next, NEW n \in Messages PROVE Tries(n)'
  OBVIOUS
<1> USE DEF R!rows, R!delivery, R!handling, R!history
<1>1. Tries(n) /\ copies[n] \in Nat /\ deaths[n] \in Nat
  BY DEF Before, Typed, DeliveryTyped
<1>2. ASSUME NEW m \in Messages, R!Deliver(m), m # n PROVE Tries(n)'
  <2>1. /\ status'[n] = status[n] /\ sentAt'[n] = sentAt[n] /\ job'[n] = job[n] /\ dpc'[n] = dpc[n]
        /\ copies'[n] = copies[n] /\ deaths'[n] = deaths[n]
    BY <1>2, DeliverTouches DEF Before
  <2> QED
    BY <1>1, <2>1 DEF Tries, At
<1>3. ASSUME R!Deliver(n) PROVE Tries(n)'
  <2> USE DEF Before, Typed, RowsTyped, DeliveryTyped
  <2>1. CASE R!Run(n) \/ R!Reclaim(n)
    BY <1>1, <2>1 DEF R!Run, R!Reclaim, Tries, At
  <2>2. CASE R!ReadLog(n)
    BY <1>1, <2>2 DEF R!ReadLog, R!Over, Tries, At
  <2>3. CASE R!Send(n)
    BY <1>1, <2>3 DEF R!Send, Tries, At
  <2>4. CASE R!RecordSend(n)
    BY <1>1, <2>4 DEF R!RecordSend, Tries, At
  <2>5. CASE R!CountSend(n)
    BY <1>1, <2>5 DEF R!CountSend, R!Over, Tries, At
  <2>6. CASE R!CrashDeliver(n)
    <3>1. /\ ~At(n, "send")' /\ ~At(n, "record")' /\ UNCHANGED <<status, sentAt, copies>>
          /\ deaths'[n] = IF At(n, "record") THEN deaths[n] + 1 ELSE deaths[n]
      BY <2>6 DEF R!CrashDeliver, At
    <3> QED
      BY <1>1, <3>1 DEF Tries
  <2> QED
    BY <1>3, <2>1, <2>2, <2>3, <2>4, <2>5, <2>6 DEF R!Deliver, R!Working
<1>4. ASSUME NEW h \in Handlers, R!Receive(h) PROVE Tries(n)'
  <2>1. UNCHANGED <<sentAt, job, dpc, result, copies, deaths>>
    BY <1>4, ReceiveTouches DEF Before
  <2> QED
    BY <1>1, <1>4, <2>1, NeverRequeued DEF Tries, At
<1> QED
  BY <1>2, <1>3, <1>4 DEF R!Next

LEMMA NewIsNarrow ==
  ASSUME Typed, NEW h \in Handlers, Reader(h)
  PROVE  Narrow(log[h].stamps \cup New(h))
BY DEF Typed, HandlingTyped, Reader, Narrow, New, R!NewStamps, R!Stamped, Events, R!Callbacks

LEMMA NarrowKept == Before /\ R!Next => \A m \in Messages : Narrow(stamps[m])' /\ stamps[m] \subseteq stamps'[m]
<1> SUFFICES ASSUME Before, R!Next, NEW n \in Messages
             PROVE  Narrow(stamps[n])' /\ stamps[n] \subseteq stamps'[n]
  OBVIOUS
<1>1. CASE UNCHANGED stamps
  BY <1>1 DEF Before, Narrow
<1>2. ASSUME NEW h \in Handlers, R!UpdateLog(h)
      PROVE  Narrow(stamps[n])' /\ stamps[n] \subseteq stamps'[n]
  <2>1. hpc[h] = "update"
    BY <1>2 DEF R!UpdateLog
  <2>2. event[h].msg \in Messages /\ log[h].stamps \subseteq stamps[event[h].msg]
    BY <2>1 DEF Before, Reader
  <2>3. /\ stamps'[event[h].msg] = stamps[event[h].msg] \cup New(h)
        /\ n # event[h].msg => stamps'[n] = stamps[n]
    BY <1>2, <2>2, UpdateWrites DEF Before
  <2>4. Narrow(log[h].stamps \cup New(h)) /\ Narrow(stamps[n])
    BY NewIsNarrow DEF Before
  <2> QED
    BY <2>2, <2>3, <2>4 DEF Narrow
<1>3. ASSUME NEW m \in Messages, R!Deliver(m) PROVE UNCHANGED stamps
  BY <1>3, DeliverTouches DEF Before
<1>4. ASSUME NEW h \in Handlers, R!Receive(h), ~R!UpdateLog(h) PROVE UNCHANGED stamps
  BY <1>4, ReceiveCases DEF Before, Taking, Idling, R!CountCallback, R!CrashHandler, R!rows
<1> QED
  BY <1>1, <1>2, <1>3, <1>4 DEF R!Next
-----------------------------------------------------------------------------
(* What a handler read *)

LEMMA ApartKept == Before /\ R!Next => Apart'
<1> SUFFICES ASSUME Before, R!Next PROVE Apart'
  OBVIOUS
<1>1. ASSUME NEW m \in Messages, R!Deliver(m) PROVE Apart'
  <2>1. UNCHANGED <<hpc, event, overlapped>>
    BY <1>1, DeliverTouches DEF Before
  <2> QED
    BY <2>1 DEF Before, Apart, Alone
<1>2. ASSUME NEW h \in Handlers, R!Receive(h) PROVE Apart'
  <2>1. /\ overlapped \subseteq overlapped'
        /\ \A g \in Handlers \ {h} : hpc'[g] = hpc[g] /\ event'[g] = event[g]
    BY <1>2, ReceiveTouches DEF Before
  <2>2. CASE Taking(h)
    <3>1. \A g \in Handlers \ {h} : hpc'[g] # "idle" /\ event'[g].msg = event'[h].msg
                                    => event'[g].msg \in overlapped'
      BY <2>1, <2>2 DEF Taking
    <3> QED
      BY <2>1, <3>1 DEF Before, Apart, Alone
  <2>3. CASE ~Taking(h)
    <3>1. hpc'[h] # "idle" => hpc[h] # "idle" /\ event'[h] = event[h]
      BY <1>2, <2>3, ReceiveCases
         DEF Before, Idling, Typed, HandlingTyped, R!UpdateLog, R!CountCallback, R!CrashHandler
    <3> QED
      BY <2>1, <3>1 DEF Before, Apart, Alone
  <2> QED
    BY <2>2, <2>3
<1> QED
  BY <1>1, <1>2 DEF R!Next

LEMMA ReaderKept == Before /\ R!Next => \A h \in Handlers : Reader(h)'
<1> SUFFICES ASSUME Before, R!Next, NEW g \in Handlers PROVE Reader(g)'
  OBVIOUS
<1>0. Reader(g) /\ \A m \in Messages : stamps[m] \subseteq stamps'[m]
  BY NarrowKept DEF Before
<1>1. ASSUME NEW m \in Messages, R!Deliver(m) PROVE Reader(g)'
  <2>1. UNCHANGED <<stamps, hpc, event, log, overlapped>>
    BY <1>1, DeliverTouches DEF Before
  <2>2. ASSUME NEW n \in Messages, sentAt'[n]
        PROVE  (sentAt[n] /\ status'[n] = status[n]) \/ status'[n] = "SENT"
    <3>1. CASE n # m
      BY <1>1, <2>2, <3>1, DeliverTouches DEF Before
    <3>2. CASE n = m
      <4>1. CASE R!RecordSend(m)
        BY <2>2, <3>2, <4>1 DEF R!RecordSend, Before, Tries, At, Typed, RowsTyped
      <4>2. CASE ~R!RecordSend(m)
        BY <1>1, <2>2, <3>2, <4>2 DEF R!Deliver, R!Working, R!Run, R!Reclaim, R!ReadLog, R!Send, R!CountSend,
              R!CrashDeliver, R!rows
      <4> QED
        BY <4>1, <4>2
    <3> QED
      BY <3>1, <3>2
  <2>3. ASSUME hpc[g] = "update", Alone(g), sentAt'[event[g].msg]
        PROVE  status'[event[g].msg] \in {log[g].status, "SENT"}
    BY <1>0, <2>2, <2>3 DEF Reader
  <2> QED
    BY <1>0, <2>1, <2>3 DEF Reader, Alone, New
<1>2. ASSUME NEW h \in Handlers, R!Receive(h), h # g PROVE Reader(g)'
  <2>1. /\ UNCHANGED sentAt /\ overlapped \subseteq overlapped'
        /\ hpc'[g] = hpc[g] /\ event'[g] = event[g] /\ log'[g] = log[g]
    BY <1>2, ReceiveTouches DEF Before
  <2>2. ASSUME hpc[g] # "idle", Alone(g)'
        PROVE  status'[event[g].msg] = status[event[g].msg] /\ stamps'[event[g].msg] = stamps[event[g].msg]
    <3>1. CASE R!UpdateLog(h)
      <4>1. hpc[h] = "update"
        BY <3>1 DEF R!UpdateLog
      <4>2. event[h].msg \in Messages /\ event[g].msg \in Messages
        BY <2>2, <4>1 DEF Before, Reader
      <4>3. event[h].msg # event[g].msg
        BY <1>2, <2>1, <2>2, <4>1 DEF Before, Apart, Alone
      <4> QED
        BY <3>1, <4>2, <4>3, UpdateWrites DEF Before
    <3>2. CASE ~R!UpdateLog(h)
      BY <1>2, <3>2, ReceiveCases DEF Before, Taking, Idling, R!CountCallback, R!CrashHandler, R!rows
    <3> QED
      BY <3>1, <3>2
  <2>3. Alone(g)' => Alone(g)
    BY <2>1 DEF Alone
  <2>4. New(g)' = New(g)
    BY <2>1 DEF New
  <2> QED
    BY <1>0, <2>1, <2>2, <2>3, <2>4 DEF Reader
<1>3. ASSUME R!Receive(g) PROVE Reader(g)'
  <2>1. CASE Taking(g)
    <3>1. /\ hpc'[g] = "update" /\ event'[g].msg \in Messages
          /\ log'[g].status = status[event'[g].msg] /\ log'[g].stamps = stamps[event'[g].msg]
          /\ UNCHANGED <<status, stamps>>
      BY <2>1 DEF Taking
    <3>2. Narrow(log'[g].stamps)
      BY <3>1 DEF Before
    <3> QED
      BY <3>1, <3>2 DEF Reader
  <2>2. CASE Idling
    <3>1. UNCHANGED sentAt
      BY <1>3, ReceiveTouches DEF Before
    <3> QED
      BY <1>0, <2>2, <3>1 DEF Idling, Reader, Alone, New
  <2>3. CASE R!UpdateLog(g)
    <3>1. hpc[g] = "update"
      BY <2>3 DEF R!UpdateLog
    <3>2. event[g].msg \in Messages
      BY <1>0, <3>1 DEF Reader
    <3>3. /\ hpc'[g] = "count" /\ UNCHANGED <<event, log, overlapped>>
          /\ stamps'[event[g].msg] = stamps[event[g].msg] \cup New(g)
      BY <2>3, <3>2, UpdateWrites DEF Before
    <3> QED
      BY <1>0, <3>1, <3>2, <3>3 DEF Reader, Alone, New
  <2>4. CASE R!CountCallback(g) \/ R!CrashHandler(g)
    <3>1. hpc'[g] = "idle" /\ log' = log
      BY <2>4 DEF R!CountCallback, R!CrashHandler, Before, Typed, HandlingTyped
    <3> QED
      BY <1>0, <3>1 DEF Reader
  <2> QED
    BY <1>3, <2>1, <2>2, <2>3, <2>4, ReceiveCases DEF Before
<1> QED
  BY <1>1, <1>2, <1>3 DEF R!Next
-----------------------------------------------------------------------------
(* The counters *)

LEMMA OneMore ==
  ASSUME NEW S, IsFiniteSet(S), NEW x, x \notin S
  PROVE  /\ Cardinality(S \cup {x}) = Cardinality(S) + 1 /\ Cardinality(S) \in Nat
BY FS_AddElement, FS_CardinalityType

LEMMA OneLess ==
  ASSUME NEW S, IsFiniteSet(S), NEW x \in S
  PROVE  /\ Cardinality(S) = Cardinality(S \ {x}) + 1 /\ Cardinality(S \ {x}) \in Nat
<1>1. Cardinality(S \ {x}) = Cardinality(S) - 1 /\ Cardinality(S) \in Nat /\ IsFiniteSet(S \ {x})
  BY FS_RemoveElement, FS_CardinalityType
<1> QED
  BY <1>1, FS_CardinalityType

LEMMA Finite ==
  /\ IsFiniteSet(R!Counting) /\ IsFiniteSet(Left)
  /\ \A s \in R!Stamped : IsFiniteSet(Reached(s)) /\ IsFiniteSet(Owing(s))
<1>1. R!Counting \subseteq Messages /\ Left \subseteq Messages
  BY DEF R!Counting, Left
<1>2. \A s \in R!Stamped : Reached(s) \subseteq Messages /\ Owing(s) \subseteq Handlers
  BY DEF Reached, Owing
<1> QED
  BY <1>1, <1>2, FS_Subset, CountsAssumption

\* A counter moves by one when it is named, and only then.
LEMMA Bumped ==
  ASSUME Typed, NEW fields, R!Bump(fields), NEW c \in R!Counters
  PROVE  count'[c] = count[c] + IF c \in fields THEN 1 ELSE 0
BY DEF Typed, RowsTyped, R!Bump

LEMMA SentKept == Before /\ SentMatches /\ R!Next => SentMatches'
<1> SUFFICES ASSUME Before, SentMatches, R!Next PROVE SentMatches'
  OBVIOUS
<1> USE DEF R!rows, R!delivery, R!handling, R!history
<1>0. /\ count["sent"] \in Nat /\ crashes \in Nat /\ "sent" \in R!Counters
      /\ Cardinality(R!Counting) \in Nat /\ Cardinality(Left) \in Nat
  BY Finite, FS_CardinalityType DEF Before, Typed, RowsTyped, DeliveryTyped, R!Counters
<1>1. ASSUME NEW h \in Handlers, R!Receive(h) PROVE SentMatches'
  <2>1. UNCHANGED <<sentAt, job, dpc, result>> /\ crashes' >= crashes /\ crashes' \in Nat
    BY <1>1, ReceiveTouches, DeliveryTypedKept DEF Before, DeliveryTyped
  <2>2. R!Counting' = R!Counting /\ Left' = Left
    BY <2>1 DEF R!Counting, Left
  <2>3. count'["sent"] = count["sent"]
    <3>1. CASE R!CountCallback(h)
      <4>1. event[h].status \in R!Callbacks
        BY DEF Before, Typed, HandlingTyped, Events
      <4>2. CASE UNCHANGED count
        BY <4>2
      <4>3. CASE event[h].status # "DELAYED" /\ ~UNCHANGED count
        <5>1. PICK more \in {{}, {"delivered"}} : R!Bump({R!CounterOf[event[h].status]} \cup more)
          BY <3>1, <4>3 DEF R!CountCallback
        <5>2. R!CounterOf[event[h].status] # "sent"
          BY <4>1, <4>3 DEF R!CounterOf, R!Callbacks, R!TERMINAL
        <5> QED
          BY <1>0, <5>1, <5>2, Bumped DEF Before
      <4> QED
        BY <3>1, <4>2, <4>3 DEF R!CountCallback
    <3>2. CASE ~R!CountCallback(h)
      BY <1>1, <3>2, ReceiveCases DEF Before, Taking, Idling, R!UpdateLog, R!CrashHandler
    <3> QED
      BY <3>1, <3>2
  <2> QED
    BY <1>0, <2>1, <2>2, <2>3 DEF SentMatches
<1>2. ASSUME NEW m \in Messages, R!Deliver(m) PROVE SentMatches'
  <2> USE DEF Before, Typed, RowsTyped, DeliveryTyped
  <2>1. CASE R!Run(m) \/ R!Reclaim(m) \/ R!ReadLog(m) \/ R!Send(m)
    <3>1. UNCHANGED <<count, crashes, sentAt>> /\ m \notin R!Counting /\ ~At(m, "count")'
      BY <2>1 DEF R!Run, R!Reclaim, R!ReadLog, R!Send, R!Over, R!Counting, At
    <3>2. \A n \in Messages \ {m} : job'[n] = job[n] /\ dpc'[n] = dpc[n] /\ result'[n] = result[n]
      BY <1>2, DeliverTouches
    <3>3. R!Counting' = R!Counting /\ Left' = Left
      BY <3>1, <3>2 DEF R!Counting, Left, At
    <3> QED
      BY <3>1, <3>3 DEF SentMatches
  <2>2. CASE R!RecordSend(m) /\ result[m] = 0
    <3>1. UNCHANGED <<count, crashes, sentAt, job, result>> /\ \A n \in Messages \ {m} : dpc'[n] = dpc[n]
      BY <2>2 DEF R!RecordSend
    <3>2. R!Counting' = R!Counting /\ Left' = Left
      BY <2>2, <3>1 DEF R!Counting, Left
    <3> QED
      BY <3>1, <3>2 DEF SentMatches
  <2>3. CASE R!RecordSend(m) /\ result[m] # 0
    <3>1. /\ At(m, "record") /\ At(m, "count")' /\ UNCHANGED <<count, crashes, job, result>>
          /\ sentAt'[m] = TRUE /\ \A n \in Messages \ {m} : dpc'[n] = dpc[n] /\ sentAt'[n] = sentAt[n]
      BY <2>3 DEF R!RecordSend, At
    <3>2. ~sentAt[m]
      BY <3>1 DEF Tries
    <3>3. m \notin R!Counting /\ m \notin Left
      BY <3>1, <3>2 DEF R!Counting, Left, At
    <3>4. R!Counting' = R!Counting \cup {m} /\ Left' = Left \cup {m}
      BY <2>3, <3>1 DEF R!Counting, Left, At
    <3>5. Cardinality(R!Counting') = Cardinality(R!Counting) + 1 /\ Cardinality(Left') = Cardinality(Left) + 1
      BY <3>3, <3>4, Finite, OneMore
    <3> QED
      BY <1>0, <3>1, <3>5 DEF SentMatches
  <2>4. CASE R!CountSend(m)
    <3>1. /\ At(m, "count") /\ job'[m] = "over" /\ UNCHANGED <<crashes, sentAt, dpc, result>>
          /\ \A n \in Messages \ {m} : job'[n] = job[n]
      BY <2>4 DEF R!CountSend, R!Over, At
    <3>2. Left' = Left
      BY <3>1 DEF Left
    <3>3. CASE result[m] = 0
      <4>1. R!Counting' = R!Counting
        BY <3>1, <3>3 DEF R!Counting
      <4>2. PICK f \in {{"failed"}} : R!Bump(f)
        BY <2>4, <3>3 DEF R!CountSend
      <4>3. count'["sent"] = count["sent"]
        BY <1>0, <4>2, Bumped
      <4> QED
        BY <3>1, <3>2, <4>1, <4>3 DEF SentMatches
    <3>4. CASE result[m] # 0
      <4>1. m \in R!Counting /\ R!Counting' = R!Counting \ {m}
        BY <3>1, <3>4 DEF R!Counting, At
      <4>2. PICK f \in {{"sent"}} : R!Bump(f)
        BY <2>4, <3>4 DEF R!CountSend
      <4>3. count'["sent"] = count["sent"] + 1
        BY <1>0, <4>2, Bumped
      <4>4. Cardinality(R!Counting) = Cardinality(R!Counting') + 1 /\ Cardinality(R!Counting') \in Nat
        BY <4>1, Finite, OneLess
      <4> QED
        BY <1>0, <3>1, <3>2, <4>3, <4>4 DEF SentMatches
    <3> QED
      BY <3>3, <3>4
  <2>5. CASE R!CrashDeliver(m)
    <3>1. crashes' = crashes + 1 /\ UNCHANGED <<count, sentAt, dpc, result>> /\ job'[m] = "locked"
          /\ \A n \in Messages \ {m} : job'[n] = job[n]
      BY <2>5 DEF R!CrashDeliver
    <3>2. R!Counting' \subseteq R!Counting /\ Left' = Left
      BY <3>1 DEF R!Counting, Left
    <3>3. Cardinality(R!Counting') <= Cardinality(R!Counting) /\ Cardinality(R!Counting') \in Nat
      BY <3>2, Finite, FS_Subset, FS_CardinalityType
    <3> QED
      BY <1>0, <3>1, <3>2, <3>3 DEF SentMatches
  <2> QED
    BY <1>2, <2>1, <2>2, <2>3, <2>4, <2>5 DEF R!Deliver, R!Working
<1> QED
  BY <1>1, <1>2 DEF R!Next

\* What a handler counts is what it owes: each stage it stamped and had not read.
LEMMA CountsWhatItOwes ==
  ASSUME Before, NEW h \in Handlers, R!CountCallback(h), NEW s \in R!Stamped
  PROVE  count'[R!CounterOf[s]] = count[R!CounterOf[s]] + IF s \in New(h) \ log[h].stamps THEN 1 ELSE 0
<1> DEFINE ev == event[h].status
<1> DEFINE old == log[h].stamps
<1>1. /\ ev \in R!Callbacks /\ old \subseteq R!Stamped /\ Narrow(old)
      /\ R!CounterOf[s] \in R!Counters
  BY DEF Before, Typed, HandlingTyped, Events, Reader, R!CounterOf, R!Stamped, R!Counters
<1>2. New(h) = {t \in R!Stamped : t = ev \/ (t = "DELIVERED" /\ ev \in {"READ", "CLICKED"} /\ t \notin old)}
  BY DEF New, R!NewStamps
<1>3. count[R!CounterOf[s]] \in Nat
  BY <1>1 DEF Before, Typed, RowsTyped
<1>4. CASE UNCHANGED count /\ (ev = "DELAYED" \/ R!AlreadyCounted(ev, log[h]))
  <2>1. ev \in R!Stamped => ev \in old
    BY <1>4 DEF R!AlreadyCounted, R!Stamped
  <2>2. s \notin New(h) \ old
    BY <1>1, <1>2, <2>1 DEF Narrow, R!Stamped
  <2> QED
    BY <1>3, <1>4, <2>2
<1>5. CASE /\ ev # "DELAYED" /\ ~R!AlreadyCounted(ev, log[h])
           /\ R!Bump({R!CounterOf[ev]} \cup IF ev \in {"READ", "CLICKED"} /\ "DELIVERED" \notin old
                                           THEN {"delivered"} ELSE {})
  <2>1. PICK f : /\ f = {R!CounterOf[ev]} \cup IF ev \in {"READ", "CLICKED"} /\ "DELIVERED" \notin old
                                               THEN {"delivered"} ELSE {}
                 /\ R!Bump(f)
    BY <1>5
  <2>2. ev \in R!Stamped => ev \notin old
    BY <1>5 DEF R!AlreadyCounted
  <2>3. R!CounterOf[s] \in f <=> s \in New(h) \ old
    BY <1>1, <1>2, <1>5, <2>1, <2>2 DEF R!CounterOf, R!Stamped, R!Callbacks, R!TERMINAL
  <2>4. count'[R!CounterOf[s]] = count[R!CounterOf[s]] + IF R!CounterOf[s] \in f THEN 1 ELSE 0
    BY <1>1, <2>1, Bumped DEF Before
  <2> QED
    BY <2>3, <2>4
<1> QED
  BY <1>4, <1>5 DEF R!CountCallback

LEMMA StagesKept == Before /\ StagesMatch /\ R!Next => StagesMatch'
<1> SUFFICES ASSUME Before, StagesMatch, R!Next, crashes' = 0, overlapped' = {}, NEW s \in R!Stamped
             PROVE  count'[R!CounterOf[s]] + Cardinality(Owing(s)') = Cardinality(Reached(s)')
  BY DEF StagesMatch
<1>0. /\ R!CounterOf[s] \in R!Counters /\ R!CounterOf[s] \notin {"sent", "failed"}
      /\ Cardinality(Owing(s)) \in Nat /\ Cardinality(Reached(s)) \in Nat
      /\ IsFiniteSet(Owing(s)) /\ IsFiniteSet(Reached(s))
  BY Finite, FS_CardinalityType DEF R!CounterOf, R!Stamped, R!Counters
<1>1. count[R!CounterOf[s]] \in Nat
  BY <1>0 DEF Before, Typed, RowsTyped
<1>2. ASSUME NEW m \in Messages, R!Deliver(m)
      PROVE  count'[R!CounterOf[s]] + Cardinality(Owing(s)') = Cardinality(Reached(s)')
  <2>1. UNCHANGED <<stamps, hpc, event, log, overlapped>>
    BY <1>2, DeliverTouches DEF Before
  <2>2. Owing(s)' = Owing(s) /\ Reached(s)' = Reached(s)
    BY <2>1 DEF Owing, Reached, New
  <2>3. crashes = 0
    BY <1>2 DEF Before, Typed, DeliveryTyped, R!Deliver, R!Working, R!Run, R!Reclaim, R!ReadLog, R!Send,
                R!RecordSend, R!CountSend, R!CrashDeliver
  <2>4. count'[R!CounterOf[s]] = count[R!CounterOf[s]]
    <3>1. CASE R!CountSend(m)
      <4>1. PICK f \in {{"sent"}, {"failed"}} : R!Bump(f)
        BY <3>1 DEF R!CountSend
      <4> QED
        BY <1>0, <1>1, <4>1, Bumped DEF Before
    <3>2. CASE ~R!CountSend(m)
      BY <1>2, <3>2 DEF R!Deliver, R!Working, R!Run, R!Reclaim, R!ReadLog, R!Send, R!RecordSend, R!CrashDeliver
    <3> QED
      BY <3>1, <3>2
  <2> QED
    BY <2>1, <2>2, <2>3, <2>4 DEF StagesMatch
<1>3. ASSUME NEW h \in Handlers, R!Receive(h)
      PROVE  count'[R!CounterOf[s]] + Cardinality(Owing(s)') = Cardinality(Reached(s)')
  <2>1. /\ crashes = 0 /\ overlapped = {}
        /\ \A g \in Handlers \ {h} : hpc'[g] = hpc[g] /\ event'[g] = event[g] /\ log'[g] = log[g]
    BY <1>3, ReceiveTouches DEF Before, Typed, DeliveryTyped
  <2>2. count[R!CounterOf[s]] + Cardinality(Owing(s)) = Cardinality(Reached(s))
    BY <2>1 DEF StagesMatch
  <2>3. \A g \in Handlers \ {h} : g \in Owing(s)' <=> g \in Owing(s)
    BY <2>1 DEF Owing, New
  <2>4. CASE Taking(h)
    <3>1. UNCHANGED <<stamps, count>> /\ h \notin Owing(s) /\ h \notin Owing(s)'
      BY <2>4 DEF Taking, Owing
    <3>2. Owing(s)' = Owing(s) /\ Reached(s)' = Reached(s)
      BY <2>3, <3>1 DEF Owing, Reached
    <3> QED
      BY <2>2, <3>1, <3>2
  <2>5. CASE Idling
    <3>1. Owing(s)' = Owing(s) /\ Reached(s)' = Reached(s)
      BY <2>5 DEF Idling, Owing, Reached, New
    <3> QED
      BY <2>2, <2>5, <3>1 DEF Idling
  <2>6. CASE R!UpdateLog(h)
    <3>1. hpc[h] = "update" /\ Alone(h)
      BY <2>1, <2>6 DEF R!UpdateLog, Alone
    <3>2. PICK m \in Messages : m = event[h].msg
      BY <3>1 DEF Before, Reader
    <3>3. /\ hpc'[h] = "count" /\ UNCHANGED <<count, event, log>>
          /\ stamps'[m] = stamps[m] \cup New(h)
          /\ \A n \in Messages \ {m} : stamps'[n] = stamps[n]
          /\ stamps[m] = log[h].stamps
      BY <2>6, <3>1, <3>2, UpdateWrites DEF Before, Reader
    <3>4. New(h)' = New(h)
      BY <3>3 DEF New
    <3>5. CASE s \in New(h) \ log[h].stamps
      <4>1. h \notin Owing(s) /\ m \notin Reached(s)
        BY <3>1, <3>3, <3>5 DEF Owing, Reached
      <4>2. Owing(s)' = Owing(s) \cup {h}
        BY <2>3, <3>3, <3>4, <3>5 DEF Owing
      <4>3. Reached(s)' = Reached(s) \cup {m}
        BY <3>3, <3>5 DEF Reached
      <4>4. Cardinality(Owing(s)') = Cardinality(Owing(s)) + 1 /\ Cardinality(Reached(s)') = Cardinality(Reached(s)) + 1
        BY <1>0, <4>1, <4>2, <4>3, OneMore
      <4> QED
        BY <1>0, <1>1, <2>2, <3>3, <4>4
    <3>6. CASE s \notin New(h) \ log[h].stamps
      <4>1. Owing(s)' = Owing(s)
        BY <2>3, <3>1, <3>3, <3>4, <3>6 DEF Owing
      <4>2. Reached(s)' = Reached(s)
        BY <3>3, <3>6 DEF Reached
      <4> QED
        BY <2>2, <3>3, <4>1, <4>2
    <3> QED
      BY <3>5, <3>6
  <2>7. CASE R!CountCallback(h)
    <3>1. hpc[h] = "count" /\ hpc'[h] = "idle" /\ UNCHANGED stamps
      BY <2>7 DEF R!CountCallback, R!rows, Before, Typed, HandlingTyped
    <3>2. Reached(s)' = Reached(s) /\ Owing(s)' = Owing(s) \ {h}
      BY <2>3, <3>1 DEF Reached, Owing
    <3>3. count'[R!CounterOf[s]] = count[R!CounterOf[s]] + IF h \in Owing(s) THEN 1 ELSE 0
      BY <2>7, <3>1, CountsWhatItOwes DEF Owing
    <3>4. CASE h \in Owing(s)
      <4>1. Cardinality(Owing(s)) = Cardinality(Owing(s)') + 1 /\ Cardinality(Owing(s)') \in Nat
        BY <1>0, <3>2, <3>4, OneLess
      <4> QED
        BY <1>0, <1>1, <2>2, <3>2, <3>3, <3>4, <4>1
    <3>5. CASE h \notin Owing(s)
      <4>1. Owing(s)' = Owing(s)
        BY <3>2, <3>5
      <4>2. Reached(s)' = Reached(s)
        BY <3>2
      <4>3. count'[R!CounterOf[s]] = count[R!CounterOf[s]]
        BY <1>1, <3>3, <3>5
      <4> QED
        BY <2>2, <4>1, <4>2, <4>3
    <3> QED
      BY <3>4, <3>5
  <2>8. ~R!CrashHandler(h)
    BY <2>1 DEF R!CrashHandler
  <2> QED
    BY <1>3, <2>4, <2>5, <2>6, <2>7, <2>8, ReceiveCases DEF Before
<1> QED
  BY <1>2, <1>3 DEF R!Next

-----------------------------------------------------------------------------
(* The invariant *)

LEMMA RowInit == R!Init => RowInv
<1> SUFFICES ASSUME R!Init PROVE RowInv
  OBVIOUS
<1> USE DEF R!Init
<1>1. RowsTyped /\ DeliveryTyped
  BY DEF RowsTyped, DeliveryTyped, Statuses
<1>2. HandlingTyped
  <2>1. R!NoEvent(CHOOSE m \in Messages : TRUE) \in Events
    BY DEF R!NoEvent, Events, R!Callbacks
  <2> QED
    BY <2>1 DEF HandlingTyped, Statuses
<1>3. \A m \in Messages : Tries(m) /\ Narrow(stamps[m])
  BY DEF Tries, Narrow, At
<1>4. (\A h \in Handlers : Reader(h)) /\ Apart
  BY DEF Reader, Apart, Narrow
<1>5. R!Counting = {} /\ Left = {} /\ count["sent"] = 0
  BY DEF R!Counting, Left, R!Counters
<1>6. ASSUME NEW s \in R!Stamped PROVE Reached(s) = {} /\ Owing(s) = {} /\ count[R!CounterOf[s]] = 0
  BY DEF Reached, Owing, R!CounterOf, R!Stamped, R!Counters
<1>7. Cardinality({}) = 0
  BY FS_EmptySet
<1>8. SentMatches /\ StagesMatch
  <2>1. SentMatches
    BY <1>5, <1>7 DEF SentMatches
  <2>2. ASSUME NEW s \in R!Stamped
        PROVE  count[R!CounterOf[s]] + Cardinality(Owing(s)) = Cardinality(Reached(s))
    <3> HIDE DEF R!Init
    <3>1. Cardinality(Owing(s)) = 0 /\ Cardinality(Reached(s)) = 0
      BY <1>6, <1>7
    <3> QED
      BY <1>6, <3>1
  <2> QED
    BY <2>1, <2>2 DEF StagesMatch
<1> QED
  BY <1>1, <1>2, <1>3, <1>4, <1>8 DEF RowInv, Typed

LEMMA RowNext == RowInv /\ [R!Next]_R!vars => RowInv'
<1> SUFFICES ASSUME RowInv, [R!Next]_R!vars PROVE RowInv'
  OBVIOUS
<1>1. CASE R!Next
  BY <1>1, RowsTypedKept, DeliveryTypedKept, HandlingTypedKept, TriesKept, NarrowKept, ReaderKept,
     ApartKept, SentKept, StagesKept DEF RowInv, Before, Typed
<1>2. CASE UNCHANGED R!vars
  <2>1. UNCHANGED <<status, stamps, sentAt, provId, count, job, dpc, result, copies, hpc, event, log,
                    crashes, deaths, overlapped>>
    BY <1>2 DEF R!vars, R!rows, R!delivery, R!handling, R!history
  <2>2. Typed'
    BY <2>1 DEF RowInv, Typed, RowsTyped, DeliveryTyped, HandlingTyped
  <2>3. /\ \A m \in Messages : (Tries(m) /\ Narrow(stamps[m]))'
        /\ \A h \in Handlers : Reader(h)'
        /\ Apart'
    BY <2>1 DEF RowInv, Tries, At, Narrow, Reader, Apart, Alone, New
  <2>4. R!Counting' = R!Counting /\ Left' = Left
    BY <2>1 DEF R!Counting, Left
  <2>5. \A s \in R!Stamped : Reached(s)' = Reached(s) /\ Owing(s)' = Owing(s)
    BY <2>1 DEF Reached, Owing, New
  <2>6. SentMatches'
    BY <2>1, <2>4 DEF RowInv, SentMatches
  <2>7. StagesMatch'
    BY <2>1, <2>5 DEF RowInv, StagesMatch
  <2> QED
    BY <2>2, <2>3, <2>6, <2>7 DEF RowInv
<1> QED
  BY <1>1, <1>2

\* What the invariant says when nobody is between two writes.
LEMMA CountedOnce == RowInv => R!SentAndCountedOnce
<1> SUFFICES ASSUME RowInv PROVE R!SentAndCountedOnce
  OBVIOUS
<1>1. \A m \in Messages : copies[m] <= 1 + deaths[m] /\ (stamps[m] # {} => "DELIVERED" \in stamps[m])
  BY DEF RowInv, Tries, Narrow
<1>2. ASSUME crashes = 0, overlapped = {}, \A h \in Handlers : hpc[h] = "idle", NEW s \in R!Stamped
      PROVE  count[R!CounterOf[s]] = Cardinality({m \in Messages : s \in stamps[m]})
  <2>1. Owing(s) = {} /\ Reached(s) = {m \in Messages : s \in stamps[m]}
    BY <1>2 DEF Owing, Reached
  <2>2. Cardinality(Owing(s)) = 0
    BY <2>1, FS_EmptySet
  <2>3. count[R!CounterOf[s]] \in Nat
    BY DEF RowInv, Typed, RowsTyped, R!CounterOf, R!Stamped, R!Counters
  <2>4. count[R!CounterOf[s]] + Cardinality(Owing(s)) = Cardinality(Reached(s))
    BY <1>2 DEF RowInv, StagesMatch
  <2> QED
    BY <2>1, <2>2, <2>3, <2>4
<1>3. SentMatches
  BY DEF RowInv
<1> QED
  BY <1>1, <1>2, <1>3
     DEF R!SentAndCountedOnce, R!FunnelNarrows, SentMatches, Left, R!Cardinality, Cardinality

\* A row written by what was read of it climbs, since what was read is what it says.
LEMMA Climbing ==
  ASSUME RowInv, [R!Next]_R!vars, NEW n \in Messages \ overlapped, sentAt[n]
  PROVE  IF status[n] \in R!TERMINAL
         THEN status'[n] \in R!TERMINAL
         ELSE status'[n] \notin R!TERMINAL => R!PROGRESS[status'[n]] >= R!PROGRESS[status[n]]
<1>0. status[n] \in Statuses /\ status[n] # "QUEUED"
  BY DEF RowInv, Typed, RowsTyped, Tries
<1>1. CASE status'[n] = status[n]
  BY <1>0, <1>1 DEF R!PROGRESS, Statuses, R!Callbacks, R!TERMINAL
<1>2. ASSUME NEW m \in Messages, R!Deliver(m) PROVE status'[n] = status[n]
  <2>1. CASE n # m
    BY <1>2, <2>1, DeliverTouches DEF RowInv
  <2>2. CASE n = m
    <3>1. ~R!RecordSend(n)
      BY DEF R!RecordSend, RowInv, Tries, At
    <3> QED
      BY <1>2, <2>2, <3>1 DEF R!Deliver, R!Working, R!Run, R!Reclaim, R!ReadLog, R!Send, R!CountSend,
            R!CrashDeliver, R!rows
  <2> QED
    BY <2>1, <2>2
<1>3. ASSUME NEW h \in Handlers, R!Receive(h), ~R!UpdateLog(h) PROVE status'[n] = status[n]
  BY <1>3, ReceiveCases DEF RowInv, Taking, Idling, R!CountCallback, R!CrashHandler, R!rows
<1>4. ASSUME NEW h \in Handlers, R!UpdateLog(h), status'[n] # status[n]
      PROVE  \/ status'[n] \in R!TERMINAL
             \/ /\ status[n] \notin R!TERMINAL
                /\ R!PROGRESS[status'[n]] >= R!PROGRESS[status[n]]
  <2>1. hpc[h] = "update"
    BY <1>4 DEF R!UpdateLog
  <2>2. event[h].msg \in Messages
    BY <2>1 DEF RowInv, Reader
  <2>3. n = event[h].msg
    BY <1>4, <2>2, UpdateWrites DEF RowInv
  <2>4. status[n] \in {log[h].status, "SENT"}
    BY <2>1, <2>3 DEF RowInv, Reader, Alone
  <2>5. PICK ev \in R!Callbacks : ev = event[h].status
    BY DEF RowInv, Typed, HandlingTyped, Events
  <2>6. status'[n] = ev /\ (ev \in R!TERMINAL \/ R!Climbs(ev, log[h].status))
    BY <1>4, <2>2, <2>3, <2>5, UpdateWrites DEF RowInv
  <2>7. CASE ev \in R!TERMINAL
    BY <2>6, <2>7
  <2>8. CASE status[n] = "SENT"
    BY <2>5, <2>6, <2>8 DEF R!PROGRESS, R!Callbacks, R!TERMINAL
  <2>9. CASE status[n] = log[h].status /\ ev \notin R!TERMINAL
    <3>1. status[n] \notin R!TERMINAL /\ R!PROGRESS[ev] > R!PROGRESS[status[n]]
      BY <2>6, <2>9 DEF R!Climbs
    <3>2. R!PROGRESS[ev] \in Nat /\ R!PROGRESS[status[n]] \in Nat
      BY <1>0, <2>5, <2>9, <3>1 DEF R!PROGRESS, R!Callbacks, Statuses
    <3> QED
      BY <2>6, <3>1, <3>2
  <2> QED
    BY <2>4, <2>7, <2>8, <2>9
<1>5. CASE UNCHANGED R!vars
  BY <1>1, <1>5 DEF R!vars, R!rows
<1>6. CASE R!Next
  BY <1>1, <1>2, <1>3, <1>4, <1>6 DEF R!Next
<1> QED
  BY <1>5, <1>6
-----------------------------------------------------------------------------
(* Callbacks *)

LEMMA RowStep == [Next]_vars => [R!Next]_R!vars
BY DEF Next, vars, row, R!vars, R!rows, R!delivery, R!handling, R!history

\* What deliver() and applyStatusUpdate() rely on between their reads and their writes.
THEOREM CallbacksInvariant == Spec => []RowInv
<1>1. Init => RowInv
  BY RowInit DEF Init
<1>2. RowInv /\ [Next]_vars => RowInv'
  BY RowNext, RowStep
<1> QED
  BY <1>1, <1>2, PTL DEF Spec

\* A customer gets a second copy only by a worker's death, the funnel narrows, and the
\* campaign counts each message once at each stage (dispatcher.ts, deliver and
\* applyStatusUpdate).
THEOREM CountedAsItWent == Spec => []SentAndCountedOnce
<1>1. RowInv => SentAndCountedOnce
  BY CountedOnce DEF SentAndCountedOnce
<1> QED
  BY <1>1, CallbacksInvariant, PTL

\* A message that left climbs: no callback takes it back a stage or out of an ending, if
\* its callbacks were handled one at a time (dispatcher.ts, PROGRESS and TERMINAL).
THEOREM StatusClimbs == Spec => ProgressClimbs
<1> DEFINE Climb ==
      \A m \in Messages \ overlapped : sentAt[m] =>
          IF status[m] \in R!TERMINAL
          THEN status'[m] \in R!TERMINAL
          ELSE status'[m] \notin R!TERMINAL => R!PROGRESS[status'[m]] >= R!PROGRESS[status[m]]
<1>1. RowInv /\ [Next]_vars => [Climb]_R!vars
  BY Climbing, RowStep
<1>2. ProgressClimbs <=> [][Climb]_R!vars
  BY DEF ProgressClimbs, R!ProgressClimbs
<1> HIDE DEF Climb
<1> QED
  BY <1>1, <1>2, CallbacksInvariant, PTL DEF Spec
=============================================================================
