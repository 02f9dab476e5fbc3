-------------------------------- MODULE Slots -------------------------------
(***************************************************************************)
(* Which times of a day are offered, and which are let in                  *)
(* (appointments/availability.service.ts).  A page shows what              *)
(* availableSlots offers; createAppointment lays the services out one      *)
(* after the other and asks findConflicts.  The two work it out from the   *)
(* same rows, each in its own way.                                         *)
(*                                                                         *)
(* One branch and one day, counted in slot intervals.  One request at a    *)
(* time: what may happen between the question and the write is in Booking, *)
(* with rooms, moves and statuses.                                         *)
(***************************************************************************)
EXTENDS Naturals, Sequences, FiniteSets

CONSTANTS
    Staff, Nobody,
    Windows,      \* opening hours of the day: [from, until]
    Shifts,       \* Shifts[s]: when s works that day, [from, until]
    TimeOff,      \* TimeOff[s]: when s is away, [from, until]
    Midnight,     \* intervals in a day
    Caps,         \* what effectiveCapacity may be
    Menu,         \* what is asked for: sequences of [length, buffer], a service each
    MaxBooked,    \* bound: appointments of the day
    MaxNow        \* bound: how long the day is watched

VARIABLES
    diary,    \* the appointments that occupy the day: [lines, how], as they were written
    cap,      \* effectiveCapacity: the salon's own number, or its stylists
    now

vars == <<diary, cap, now>>

Init == diary = <<>> /\ cap \in Caps /\ now = 0

Overlap(a, b) == a.from < b.until /\ b.from < a.until

\* Their AppointmentService rows.
Rows == UNION {{diary[k].lines[i] : i \in DOMAIN diary[k].lines} : k \in DOMAIN diary}

\* Rows of the query: those that overlap what is asked about.
RowsIn(span) == {r \in Rows : Overlap(r, span)}

\* staffBusyIntervals: the buffer after a service counts as busy.
Busy(s, span) ==
    {[from |-> r.from, until |-> r.until + r.buffer] : r \in {q \in RowsIn(span) : q.staff = s}}
    \cup {t \in TimeOff[s] : Overlap(t, span)}

\* What an appointment spans, of the rows the query has returned.
SpanOf(lines) ==
    [from |-> CHOOSE t \in {l.from : l \in lines} : \A l \in lines : t <= l.from,
     until |-> CHOOSE t \in {l.until : l \in lines} : \A l \in lines : l.until <= t]

LinesIn(k, span) == {l \in {diary[k].lines[i] : i \in DOMAIN diary[k].lines} : Overlap(l, span)}

\* bookedIntervals and concurrentAt: appointments, not lines.
Taken(span) ==
    Cardinality({k \in DOMAIN diary :
        LinesIn(k, span) # {} /\ Overlap(SpanOf(LinesIn(k, span)), span)})

Free(busy, span) == \A b \in busy : ~Overlap(b, span)
-----------------------------------------------------------------------------
(* availableSlots *)

Length(asked) ==
    LET total[i \in 0..Len(asked)] == IF i = 0 THEN 0 ELSE total[i - 1] + asked[i].length
    IN  total[Len(asked)]

WholeDay == [from |-> 0, until |-> Midnight]

\* Faulty variant: the later of the two ends a stylist's day.
EndsLate(window, shift) == IF window.until > shift.until THEN window.until ELSE shift.until

\* A slot ends with the hours or with the shift, whichever is first.
Ends(window, shift) == IF window.until < shift.until THEN window.until ELSE shift.until

Begins(window, shift) == IF window.from > shift.from THEN window.from ELSE shift.from

\* The times the salon could sell, still to come.
Sellable(s, asked) ==
    {t \in now + 1 .. Midnight : \E w \in Windows, h \in Shifts[s] :
        Begins(w, h) <= t /\ t + Length(asked) <= Ends(w, h)}

\* Free of the stylist's other bookings with the last buffer, and the room not full.
\* The services come back in no order: any of their buffers may be the last.
Offered(s, asked) ==
    LET busy == Busy(s, WholeDay)
        last == {asked[i].buffer : i \in DOMAIN asked}
    IN  {t \in Sellable(s, asked) :
            LET span == [from |-> t, until |-> t + Length(asked)] IN
            /\ \E b \in last : Free(busy, [span EXCEPT !.until = @ + b])
            /\ Taken(span) < cap}
-----------------------------------------------------------------------------
(* buildLines, findConflicts and createAppointment *)

BuildLines(s, asked, t) ==
    LET from[i \in DOMAIN asked] ==
            IF i = 1 THEN t ELSE from[i - 1] + asked[i - 1].length + asked[i - 1].buffer
    IN  [i \in DOMAIN asked |->
            [staff |-> s, from |-> from[i], until |-> from[i] + asked[i].length,
             buffer |-> asked[i].buffer]]

\* "HH:mm" of the end: past midnight it begins again.
Clock(t) == t % Midnight

Inside(line, intervals) ==
    \E w \in intervals : line.from >= w.from /\ Clock(line.until) <= w.until

Conflicts(lines) ==
    LET rows == {lines[i] : i \in DOMAIN lines}
        span == SpanOf(rows)
    IN  \/ \E l \in rows : ~Inside(l, Windows)
        \/ Taken(span) >= cap
        \/ \E l \in rows : l.staff # Nobody /\
              (~Inside(l, Shifts[l.staff]) \/ ~Free(Busy(l.staff, span), l))

Book(lines, how) ==
    /\ diary' = Append(diary, [lines |-> lines, how |-> how])
    /\ UNCHANGED <<cap, now>>

\* The booking page and the assistant take what was offered.
BookOnline(s, asked) ==
    /\ Len(diary) < MaxBooked
    /\ \E t \in Offered(s, asked) :
          LET lines == BuildLines(s, asked, t) IN ~Conflicts(lines) /\ Book(lines, "online")

\* The front desk books what it likes, with a stylist or without, and forces it in
\* where that takes force.
BookAtDesk(s, asked, t) ==
    LET lines == BuildLines(s, asked, t) IN
    /\ Len(diary) < MaxBooked
    /\ Book(lines, IF Conflicts(lines) THEN "force" ELSE "desk")

Cancel(k) ==
    /\ diary' = SubSeq(diary, 1, k - 1) \o SubSeq(diary, k + 1, Len(diary))
    /\ UNCHANGED <<cap, now>>

Tick == now < MaxNow /\ now' = now + 1 /\ UNCHANGED <<diary, cap>>

Next ==
    \/ \E s \in Staff, asked \in Menu : BookOnline(s, asked)
    \/ \E s \in Staff \cup {Nobody}, asked \in Menu, t \in 0..Midnight - 1 :
          BookAtDesk(s, asked, t)
    \/ \E k \in DOMAIN diary : Cancel(k)
    \/ Tick

Spec == Init /\ [][Next]_vars
-----------------------------------------------------------------------------
Turnaround(a) == {[from |-> a.lines[i].from, until |-> a.lines[i].until + a.lines[i].buffer] :
                     i \in DOMAIN a.lines}

SameStylist(a, b) == a.lines[1].staff = b.lines[1].staff /\ a.lines[1].staff # Nobody

\* A slot that is offered can be booked, as long as no service but the last needs time
\* after it: availableSlots leaves the buffers between services out, buildLines does not,
\* and such a slot may be refused, or run past the end of the shift.  A booking taken
\* from what was offered keeps the turnaround of those before it, and, unless somebody
\* forced one in, the branch never has more customers in it than it takes.
OfferedIsBookable ==
    /\ \A s \in Staff, asked \in Menu :
          (\A i \in 1..Len(asked) - 1 : asked[i].buffer = 0) =>
              \A t \in Offered(s, asked) : ~Conflicts(BuildLines(s, asked, t))
    /\ \A j, k \in DOMAIN diary :
          /\ j < k /\ SameStylist(diary[j], diary[k])
          /\ diary[k].how = "online" /\ Len(diary[k].lines) = 1
          => \A a \in Turnaround(diary[j]), b \in Turnaround(diary[k]) : ~Overlap(a, b)
    /\ (\A k \in DOMAIN diary : diary[k].how # "force") =>
          \A t \in 0..Midnight : Taken([from |-> t, until |-> t + 1]) <= cap
=============================================================================
