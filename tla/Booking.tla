------------------------------ MODULE Booking -------------------------------
(***************************************************************************)
(* The diary of one branch: appointments are made, changed, moved, carried *)
(* through their statuses and swept into no-shows                          *)
(* (modules/appointments), completed by their bill and put back by its     *)
(* void (modules/billing).  Every change reads the diary for conflicts and *)
(* writes in a transaction of its own, afterwards; nothing holds the slot  *)
(* in between.  Reminders are jobs under a unique key per appointment.     *)
(*                                                                         *)
(* Time is counted in slots, and a service lasts one.  Opening hours,      *)
(* rotas, leave and the blacklist can only refuse a booking: a request is  *)
(* free not to be made.                                                    *)
(***************************************************************************)
EXTENDS Naturals, FiniteSets, FiniteSetsExt, Sequences

CONSTANTS
    Appts,        \* ids the table may hand out
    Desks,        \* requests at work: reception, the booking page, the assistant
    Menu,         \* what may be asked for: sequences of [staff, room, together]
    Nobody,       \* a line without a stylist
    NoRoom,       \* a line without a chair or room
    Capacity,     \* effectiveCapacity(branch)
    Forcing,      \* the values of `force` a request may carry
    Buffer,       \* Service.bufferMin, in slots
    Horizon,      \* bound: the slots of the day
    MaxCalls,     \* bound: requests
    MaxCrashes    \* bound: processes that die

ASSUME NumbersAssumption ==
    /\ Capacity \in Nat \ {0} /\ Buffer \in Nat /\ Horizon \in Nat
    /\ MaxCalls \in Nat /\ MaxCrashes \in Nat
ASSUME ApptsAssumption == IsFiniteSet(Appts)
ASSUME ForcingAssumption == Forcing \subseteq BOOLEAN
ASSUME MenuAssumption == \A asked \in Menu : Len(asked) \in Nat /\ DOMAIN asked = 1 .. Len(asked)

VARIABLES
    status,      \* Appointment.status; "NONE" is a row still to be created
    start,       \* Appointment.startAt
    lines,       \* its AppointmentService rows: [staff, room, start, end]
    bill,        \* the Invoice with its appointmentId: "none", "stands" or "void"
    reminder,    \* the reminder job: [row |-> its status, due |-> its runAt]
    now,         \* the clock
    request,     \* request[d]: what the request read and is about to write
    sweeping,    \* the rows sweepNoShows has still to mark
    calls, crashes,   \* bounds
    unchecked,   \* history: appointments written by force or taken back unchecked
    torn,        \* history: appointments whose move died before its reminders
    revived      \* history: no-shows the desk has made bookings again

diary   == <<status, start, lines, unchecked>>
bounds  == <<calls, crashes>>
marked  == <<torn, revived>>
vars    == <<diary, bill, reminder, now, request, sweeping, bounds, marked>>

\* Statuses that occupy the stylist, the room and the branch.
Occupying == {"BOOKED", "CONFIRMED", "CHECKED_IN", "IN_PROGRESS"}

ALLOWED_TRANSITIONS ==
    [BOOKED      |-> {"CONFIRMED", "CHECKED_IN", "IN_PROGRESS", "CANCELLED", "NO_SHOW"},
     CONFIRMED   |-> {"CHECKED_IN", "IN_PROGRESS", "CANCELLED", "NO_SHOW"},
     CHECKED_IN  |-> {"IN_PROGRESS", "COMPLETED", "CANCELLED", "NO_SHOW"},
     IN_PROGRESS |-> {"COMPLETED", "CANCELLED"},
     COMPLETED   |-> {},
     CANCELLED   |-> {},
     NO_SHOW     |-> {"BOOKED"}]

Slots == 0 .. Horizon

Stylists == UNION {{s[i].staff : i \in DOMAIN s} : s \in Menu} \ {Nobody}

Idle == [step |-> "idle"]

Init ==
    /\ status = [a \in Appts |-> "NONE"]
    /\ start = [a \in Appts |-> 0]
    /\ lines = [a \in Appts |-> <<>>]
    /\ bill = [a \in Appts |-> "none"]
    /\ reminder = [a \in Appts |-> [row |-> "NONE", due |-> 0]]
    /\ now = 0
    /\ request = [d \in Desks |-> Idle]
    /\ sweeping = {}
    /\ calls = 0 /\ crashes = 0
    /\ unchecked = {} /\ torn = {} /\ revived = {}
-----------------------------------------------------------------------------
(* buildLines and findConflicts *)

\* A line is chained to the one before it, buffer included, unless it is given
\* the start of the whole appointment.
BuildLines(from, services) ==
    LET begin[i \in DOMAIN services] ==
            IF i = 1 \/ services[i].together THEN from ELSE begin[i - 1] + 1 + Buffer
    IN  [i \in DOMAIN services |->
            [staff |-> services[i].staff, room |-> services[i].room,
             start |-> begin[i], end |-> begin[i] + 1]]

Rows(ls) == {ls[i] : i \in DOMAIN ls}

Overlap(a, b) == a.start < b.end /\ b.start < a.end

\* The interval an appointment's lines span.
Span(ls) ==
    [start |-> Min({l.start : l \in Rows(ls)}), end |-> Max({l.end : l \in Rows(ls)})]

\* Faulty variant: only customers who have not arrived yet hold their slot.
NearbyNotArrived(ls, self) ==
    {l \in UNION {Rows(lines[a]) : a \in {b \in Appts \ self : status[b] \in {"BOOKED", "CONFIRMED"}}} :
        Overlap(l, Span(ls))}

\* The rows the queries return: those of other live appointments which overlap the
\* span of the request.
Nearby(ls, self) ==
    {l \in UNION {Rows(lines[a]) : a \in {b \in Appts \ self : status[b] \in Occupying}} :
        Overlap(l, Span(ls))}

\* What a service occupies of its stylist: the buffer after it counts as busy.
WithBuffer(l) == [start |-> l.start, end |-> l.end + Buffer]

StaffBusy(ls, self) ==
    \E l \in Rows(ls), other \in Nearby(ls, self) :
        /\ l.staff # Nobody /\ other.staff = l.staff
        /\ Overlap(l, WithBuffer(other))

RoomBusy(ls, self) ==
    \E l \in Rows(ls), other \in Nearby(ls, self) :
        l.room # NoRoom /\ other.room = l.room /\ Overlap(l, other)

\* Appointments are counted, not their lines.
AtCapacity(ls, self) ==
    Cardinality({a \in Appts \ self :
        /\ status[a] \in Occupying
        /\ \E l \in Rows(lines[a]) : Overlap(l, Span(ls))}) >= Capacity

\* Two lines of one request with the same stylist at the same time.
OverlapInRequest(ls) ==
    \E i, j \in DOMAIN ls :
        i < j /\ ls[i].staff = ls[j].staff /\ ls[i].staff # Nobody /\ Overlap(ls[i], ls[j])

Conflicts(from, services, self) ==
    LET ls == BuildLines(from, services) IN
    \/ OverlapInRequest(ls)
    \/ StaffBusy(ls, self) \/ RoomBusy(ls, self) \/ AtCapacity(ls, self)
-----------------------------------------------------------------------------
(* The requests: what they read and check *)

Hold(d, r) == request' = [request EXCEPT ![d] = r]

MayAsk(d) == request[d] = Idle /\ calls < MaxCalls

Ask(d, r) ==
    /\ calls' = calls + 1
    /\ Hold(d, r)
    /\ UNCHANGED <<diary, bill, reminder, now, sweeping, crashes, marked>>

\* createAppointment; with force it is also the first half of createWalkIn, whose
\* second half is a changeStatus to CHECKED_IN.
AskCreate(d, from, services, force) ==
    /\ MayAsk(d)
    /\ ~force => ~Conflicts(from, services, {})
    /\ Ask(d, [step |-> "create", from |-> from, services |-> services, force |-> force])

\* updateAppointment with services: the start stays what it was when read.
AskUpdate(d, a, services, force) ==
    /\ MayAsk(d)
    /\ status[a] \notin {"NONE", "COMPLETED", "CANCELLED"}
    /\ ~force => ~Conflicts(start[a], services, {a})
    /\ Ask(d, [step |-> "update", appt |-> a, from |-> start[a], services |-> services,
               force |-> force])

\* rescheduleAppointment: the lines chained again from the new start, each with
\* its room and, unless a stylist is given, its own stylist.
Rebooked(a, staff) ==
    [i \in DOMAIN lines[a] |->
        [staff |-> IF staff = Nobody THEN lines[a][i].staff ELSE staff,
         room |-> lines[a][i].room, together |-> FALSE]]

AskMove(d, a, from, staff, force) ==
    /\ MayAsk(d)
    /\ status[a] \notin {"NONE", "COMPLETED", "CANCELLED"}
    /\ ~force => ~Conflicts(from, Rebooked(a, staff), {a})
    /\ Ask(d, [step |-> "move", appt |-> a, from |-> from,
               services |-> Rebooked(a, staff), force |-> force])

AskStatus(d, a, s) ==
    /\ MayAsk(d)
    /\ status[a] # "NONE" /\ s \in ALLOWED_TRANSITIONS[status[a]]
    /\ Ask(d, [step |-> "status", appt |-> a, to |-> s])

\* createInvoice for an appointment, of whatever status, that has no bill.
AskBill(d, a) ==
    /\ MayAsk(d)
    /\ status[a] # "NONE" /\ bill[a] = "none"
    /\ Ask(d, [step |-> "bill", appt |-> a])

AskVoid(d, a) ==
    /\ MayAsk(d)
    /\ bill[a] = "stands"
    /\ Ask(d, [step |-> "void", appt |-> a])
-----------------------------------------------------------------------------
(* The requests: what they write *)

\* The write of a checked appointment makes it a checked one again.
Mark(a, force) == unchecked' = IF force THEN unchecked \cup {a} ELSE unchecked \ {a}

\* The new row takes any id that is free.
Create(d) ==
    LET r == request[d]
        a == CHOOSE b \in Appts : status[b] = "NONE"
    IN
    /\ r.step = "create"
    /\ \E b \in Appts : status[b] = "NONE"
    /\ status' = [status EXCEPT ![a] = "BOOKED"]
    /\ start' = [start EXCEPT ![a] = r.from]
    /\ lines' = [lines EXCEPT ![a] = BuildLines(r.from, r.services)]
    /\ Mark(a, r.force)
    /\ Hold(d, [step |-> "schedule", appt |-> a, from |-> r.from])
    /\ UNCHANGED <<bill, reminder, now, sweeping, bounds, marked>>

Update(d) ==
    LET r == request[d] IN
    /\ r.step = "update"
    /\ lines' = [lines EXCEPT ![r.appt] = BuildLines(r.from, r.services)]
    /\ Mark(r.appt, r.force)
    /\ Hold(d, Idle)
    /\ UNCHANGED <<status, start, bill, reminder, now, sweeping, bounds, marked>>

Reschedule(d) ==
    LET r == request[d] IN
    /\ r.step = "move"
    /\ status' = [status EXCEPT ![r.appt] = "BOOKED"]
    /\ start' = [start EXCEPT ![r.appt] = r.from]
    /\ lines' = [lines EXCEPT ![r.appt] = BuildLines(r.from, r.services)]
    /\ Mark(r.appt, r.force)
    /\ Hold(d, [step |-> "unschedule", appt |-> r.appt, from |-> r.from, again |-> TRUE])
    /\ UNCHANGED <<bill, reminder, now, sweeping, bounds, marked>>

\* The update goes by id; a no-show comes back without a look at the diary.
ChangeStatus(d) ==
    LET r == request[d] IN
    /\ r.step = "status"
    /\ status' = [status EXCEPT ![r.appt] = r.to]
    /\ unchecked' = IF r.to = "BOOKED" THEN unchecked \cup {r.appt} ELSE unchecked
    /\ revived' = IF r.to = "BOOKED" THEN revived \cup {r.appt} ELSE revived
    /\ Hold(d, IF r.to \in {"CANCELLED", "NO_SHOW"}
                 THEN [step |-> "unschedule", appt |-> r.appt, from |-> 0, again |-> FALSE]
                 ELSE Idle)
    /\ UNCHANGED <<start, lines, bill, reminder, now, sweeping, bounds, torn>>

\* The bill completes its appointment, unless another has taken the unique key.
Bill(d) ==
    LET a == request[d].appt IN
    /\ request[d].step = "bill"
    /\ IF bill[a] = "none"
         THEN /\ bill' = [bill EXCEPT ![a] = "stands"]
              /\ status' = [status EXCEPT ![a] = "COMPLETED"]
         ELSE UNCHANGED <<bill, status>>
    /\ Hold(d, Idle)
    /\ UNCHANGED <<start, lines, unchecked, reminder, now, sweeping, bounds, marked>>

\* The void checks the appointment in again, whatever has become of its time and
\* its stylist; of a bill that is gone by then it writes nothing.
Void(d) ==
    LET a == request[d].appt IN
    /\ request[d].step = "void"
    /\ IF bill[a] # "none"
         THEN /\ bill' = [bill EXCEPT ![a] = "void"]
              /\ status' = [status EXCEPT ![a] = "CHECKED_IN"]
              /\ unchecked' = unchecked \cup {a}
         ELSE UNCHANGED <<bill, status, unchecked>>
    /\ Hold(d, Idle)
    /\ UNCHANGED <<start, lines, reminder, now, sweeping, bounds, marked>>

\* deleteInvoice: a voided bill goes, and its appointment can be billed again.
DeleteBill(a) ==
    /\ bill[a] = "void"
    /\ bill' = [bill EXCEPT ![a] = "none"]
    /\ UNCHANGED <<diary, reminder, now, request, sweeping, bounds, marked>>

\* Faulty variant: the old reminder is left in the queue.
LeaveReminder(d) ==
    LET r == request[d] IN
    /\ r.step = "unschedule"
    /\ Hold(d, IF r.again THEN [step |-> "schedule", appt |-> r.appt, from |-> r.from]
                          ELSE Idle)
    /\ UNCHANGED <<diary, bill, reminder, now, sweeping, bounds, marked>>

\* Faulty variant: after a move no new reminder is scheduled.
CancelReminderOnly(d) ==
    LET r == request[d] IN
    /\ r.step = "unschedule"
    /\ reminder' = [reminder EXCEPT ![r.appt].row = IF @ = "PENDING" THEN "NONE" ELSE @]
    /\ Hold(d, Idle)
    /\ UNCHANGED <<diary, bill, now, sweeping, bounds, marked>>

\* cancelJobs deletes the row if it is still waiting.
CancelReminder(d) ==
    LET r == request[d] IN
    /\ r.step = "unschedule"
    /\ reminder' = [reminder EXCEPT ![r.appt].row = IF @ = "PENDING" THEN "NONE" ELSE @]
    /\ Hold(d, IF r.again THEN [step |-> "schedule", appt |-> r.appt, from |-> r.from]
                          ELSE Idle)
    /\ UNCHANGED <<diary, bill, now, sweeping, bounds, marked>>

\* One slot before the start, if that is still to come; a row with the key, done
\* or waiting, makes the insert a no-op.
ScheduleReminder(d) ==
    LET r == request[d] IN
    /\ r.step = "schedule"
    /\ reminder' = IF r.from > now + 1 /\ reminder[r.appt].row = "NONE"
                     THEN [reminder EXCEPT ![r.appt] = [row |-> "PENDING", due |-> r.from - 1]]
                     ELSE reminder
    /\ Hold(d, Idle)
    /\ UNCHANGED <<diary, bill, now, sweeping, bounds, marked>>

Crash(d) ==
    /\ request[d] # Idle /\ crashes < MaxCrashes
    /\ crashes' = crashes + 1
    /\ torn' = IF request[d].step \in {"unschedule", "schedule"}
                 THEN torn \cup {request[d].appt} ELSE torn
    /\ Hold(d, Idle)
    /\ UNCHANGED <<diary, bill, reminder, now, sweeping, calls, revived>>
-----------------------------------------------------------------------------
(* The clock and the jobs *)

Tick ==
    /\ now < Horizon
    /\ now' = now + 1
    /\ UNCHANGED <<diary, bill, reminder, request, sweeping, bounds, marked>>

\* appointment.reminder: the row is done whether or not anything was sent.
RunReminder(a) ==
    /\ reminder[a].row = "PENDING" /\ reminder[a].due <= now
    /\ reminder' = [reminder EXCEPT ![a].row = "DONE"]
    /\ UNCHANGED <<diary, bill, now, request, sweeping, bounds, marked>>

Overdue(a, t) == status[a] \in {"BOOKED", "CONFIRMED"} /\ Span(lines[a]).end < t

\* Faulty variant: confirmed appointments are overlooked.
SweepReadsBooked ==
    /\ sweeping = {}
    /\ sweeping' = {a \in Appts : status[a] = "BOOKED" /\ Overdue(a, now)}
    /\ sweeping' # {}
    /\ UNCHANGED <<diary, bill, reminder, now, request, bounds, marked>>

\* sweepNoShows: the list is read once and marked row by row, by id.
SweepReads ==
    /\ sweeping = {}
    /\ sweeping' = {a \in Appts : Overdue(a, now)}
    /\ sweeping' # {}
    /\ UNCHANGED <<diary, bill, reminder, now, request, bounds, marked>>

SweepMarks(a) ==
    /\ a \in sweeping
    /\ status' = [status EXCEPT ![a] = "NO_SHOW"]
    /\ sweeping' = sweeping \ {a}
    /\ UNCHANGED <<start, lines, unchecked, bill, reminder, now, request, bounds, marked>>
-----------------------------------------------------------------------------
Asking(d) ==
    \/ \E from \in Slots, services \in Menu, force \in Forcing :
          AskCreate(d, from, services, force)
    \/ \E a \in Appts, services \in Menu, force \in Forcing :
          AskUpdate(d, a, services, force)
    \/ \E a \in Appts, from \in Slots, staff \in Stylists \cup {Nobody}, force \in Forcing :
          AskMove(d, a, from, staff, force)
    \/ \E a \in Appts, s \in DOMAIN ALLOWED_TRANSITIONS : AskStatus(d, a, s)
    \/ \E a \in Appts : AskBill(d, a) \/ AskVoid(d, a)

Writing(d) ==
    \/ Create(d) \/ Update(d) \/ Reschedule(d) \/ ChangeStatus(d)
    \/ Bill(d) \/ Void(d) \/ CancelReminder(d) \/ ScheduleReminder(d)

Sweep == SweepReads \/ \E a \in Appts : SweepMarks(a)

Next ==
    \/ \E d \in Desks : Asking(d) \/ Writing(d) \/ Crash(d)
    \/ Tick \/ Sweep \/ \E a \in Appts : RunReminder(a) \/ DeleteBill(a)

Spec == Init /\ [][Next]_vars

\* The clock goes on, requests are carried to their end, the sweep keeps running.
FairSpec ==
    /\ Spec
    /\ WF_vars(Tick) /\ WF_vars(Sweep)
    /\ \A d \in Desks : WF_vars(Writing(d))
-----------------------------------------------------------------------------

Live(a) == status[a] \in Occupying

\* Two appointments claim the same stylist, or the same room, at one moment.
Clash(a, b) ==
    \E l \in Rows(lines[a]), m \in Rows(lines[b]) :
        /\ Overlap(l, m)
        /\ \/ l.staff = m.staff /\ l.staff # Nobody
           \/ l.room = m.room /\ l.room # NoRoom

Covers(i, t) == i.start <= t /\ t < i.end

\* As long as one request is at work at a time, two live appointments that both
\* passed the check never claim the same stylist or room, and no slot holds more
\* appointments than the branch takes: through moves, changed services, bills,
\* sweeps and everything the desk does to their status.  Not checked are those let in
\* by force, no-shows made bookings again, and those the void of their bill has
\* checked in again: none of these looks at the diary.
CheckedNeverClash ==
    /\ \A a, b \in Appts \ unchecked : a # b /\ Live(a) /\ Live(b) => ~Clash(a, b)
    /\ \A t \in Slots :
          LET here == {a \in Appts : Live(a) /\ \E l \in Rows(lines[a]) : Covers(l, t)}
          IN  here \cap unchecked = {} => Cardinality(here) <= Capacity

\* "Old reminders no longer apply": when no request is at work, a waiting reminder
\* is timed for the present start of its appointment, however often it was moved.
ReminderMatches ==
    (\A d \in Desks : request[d] = Idle) =>
        \A a \in Appts \ torn :
            reminder[a].row = "PENDING" => reminder[a].due + 1 = start[a]

\* When no request is at work, an appointment with time before it has its reminder in
\* the queue or behind it, however often it was moved, cancelled or billed; except a
\* no-show made a booking again, whose reminder nobody schedules anew.  (One that has
\* run keeps its key: an appointment moved after it is not reminded again.)
ComingIsReminded ==
    (\A d \in Desks : request[d] = Idle) =>
        \A a \in Appts \ (torn \cup revived) :
            status[a] \in {"BOOKED", "CONFIRMED"} /\ start[a] > now + 1
                => reminder[a].row # "NONE"

\* "Marks past appointments that were never checked in as no-shows": none of them
\* stays on the books.
NoShowsAreMarked ==
    \A a \in Appts :
        Overdue(a, Horizon) ~> ~Overdue(a, Horizon)
=============================================================================
