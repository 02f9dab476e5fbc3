----------------------------- MODULE DiaryProof ------------------------------
(***************************************************************************)
(* Proofs about Diary, for any appointments, menu, capacity, buffer, hours,*)
(* shifts and bounds.                                                      *)
(*                                                                         *)
(* The requests that read the diary and write it later (Booking), with one *)
(* desk.  Whatever a checked request is about to write still fits the      *)
(* diary, as only the sweep moves meanwhile and it takes appointments away *)
(* (Asked).  An appointment swept while a request was about to change its  *)
(* status comes back without a check, so what has to fit together are the  *)
(* live ones and the one that may come back (Present).  A reminder is out  *)
(* of date only between the move and its cancellation (Timed).             *)
(*                                                                         *)
(* The times of a day (Slots).  The lines of a request without time between*)
(* its services fill the length that was looked for (Tight), so the offer  *)
(* and the check ask about one span (OfferStands).  Those who were not     *)
(* forced in had a place among all who were there (Roomy), which outlasts  *)
(* the cancellation of one who was.                                        *)
(***************************************************************************)
EXTENDS Diary, FiniteSetTheorems, SequenceTheorems, WellFoundedInduction, TLAPS

OneDesk == \A d, e \in Desks : d = e

Statuses == {"BOOKED", "CONFIRMED", "CHECKED_IN", "IN_PROGRESS", "COMPLETED", "CANCELLED",
             "NO_SHOW"}

\* A list of lines, each with a start and an end after it.
Laid(ls) ==
    /\ Len(ls) \in Nat /\ DOMAIN ls = 1 .. Len(ls)
    /\ \A i \in DOMAIN ls : ls[i].start \in Nat /\ ls[i].end \in Nat /\ ls[i].start < ls[i].end

Listed(services) == Len(services) \in Nat /\ DOMAIN services = 1 .. Len(services)

BookTyped ==
    /\ status \in [Appts -> Statuses \cup {"NONE"}]
    /\ start \in [Appts -> Nat]
    /\ lines = [a \in Appts |-> lines[a]] /\ \A a \in Appts : Laid(lines[a])
    /\ reminder \in [Appts -> [row : {"NONE", "PENDING", "DONE"}, due : Nat]]
    /\ now \in Nat
    /\ request = [d \in Desks |-> request[d]]
    /\ sweeping \subseteq Appts
    /\ unchecked \subseteq Appts /\ torn \subseteq Appts

At(d, steps) == request[d].step \in steps

\* The lines of a checked request, beside all others and beside all but its own.
FitsAlone(d) == ~request[d].force => ~Conflicts(request[d].from, request[d].services, {})
FitsBeside(d) ==
    ~request[d].force => ~Conflicts(request[d].from, request[d].services, {request[d].appt})

\* What a request is about to write, and where.
Asked(d) ==
    LET r == request[d] IN
    /\ At(d, {"idle", "create", "update", "move", "status", "bill", "void", "unschedule", "schedule"})
    /\ At(d, {"idle"}) => r = Idle
    /\ At(d, {"create", "update", "move"}) =>
          r.from \in Nat /\ Listed(r.services) /\ r.force \in BOOLEAN
    /\ At(d, {"create"}) => FitsAlone(d)
    /\ At(d, {"update", "move"}) =>
          r.appt \in Appts /\ status[r.appt] # "NONE" /\ FitsBeside(d)
    /\ At(d, {"status", "bill", "void"}) => r.appt \in Appts
    /\ At(d, {"status"}) => status[r.appt] # "NONE" /\ r.to \in Statuses

\* A reminder that is out of date is about to be cancelled.
Timed(a) ==
    /\ status[a] = "NONE" => reminder[a].row = "NONE"
    /\ reminder[a].row = "PENDING" /\ a \notin torn =>
          reminder[a].due + 1 = start[a] \/ \E d \in Desks : At(d, {"unschedule"}) /\ request[d].appt = a

Ahead == {"BOOKED", "CONFIRMED"}

\* A change of status that would make the appointment one to come.
Confirms(a) == \E d \in Desks : At(d, {"status"}) /\ request[d].appt = a /\ request[d].to = "CONFIRMED"

\* A request that will schedule the reminder of the appointment.
Remakes(d, a) ==
    /\ request[d].appt = a
    /\ At(d, {"schedule"}) \/ (At(d, {"unschedule"}) /\ request[d].again)

\* An appointment to come has its reminder, or is about to get it.
Waits(a) ==
    /\ status[a] \in Ahead \/ Confirms(a)
    /\ start[a] > now + 1 /\ a \notin torn \cup revived
    => reminder[a].row # "NONE" \/ \E d \in Desks : Remakes(d, a)

\* A request at the reminders of an appointment.
Reminding(d) ==
    LET r == request[d] IN
    /\ At(d, {"unschedule", "schedule"}) => r.appt \in Appts /\ status[r.appt] # "NONE"
    /\ At(d, {"schedule"}) =>
          r.from \in Nat /\ start[r.appt] = r.from /\ reminder[r.appt].row # "PENDING"
    /\ At(d, {"unschedule"}) =>
          /\ r.again \in BOOLEAN
          /\ IF r.again THEN r.from = start[r.appt] ELSE status[r.appt] \notin Ahead

\* A change of status that would bring the appointment back if it was swept meanwhile.
Coming(a) ==
    \E d \in Desks : At(d, {"status"}) /\ request[d].appt = a /\ request[d].to \in Occupying \ {"BOOKED"}

Present(a) == Live(a) \/ Coming(a)

Here(t) == {a \in Appts \ unchecked : Present(a) /\ \E l \in Rows(lines[a]) : Covers(l, t)}

Fitting ==
    /\ \A a, b \in Appts \ unchecked : a # b /\ Present(a) /\ Present(b) => ~Clash(a, b)
    /\ \A t \in Slots : Cardinality(Here(t)) <= Capacity

BookInv ==
    /\ BookTyped
    /\ \A d \in Desks : Asked(d) /\ Reminding(d)
    /\ \A a \in Appts : Timed(a) /\ Waits(a)
    /\ Fitting
-----------------------------------------------------------------------------
(* Least and greatest numbers *)

\* The well-founded order of the naturals, for sets of them.
LEMMA Least ==
    ASSUME NEW S \in SUBSET Nat, S # {}
    PROVE  \E n \in S : \A m \in S : n <= m
<1> DEFINE R == {ss \in Nat \X Nat : ss[1] < ss[2]}
<1>1. IsWellFoundedOn(R, Nat)
  BY NatLessThanWellFounded DEF OpToRel
<1>2. \E n \in S : \A m \in S : <<m, n>> \notin R
  <2> HIDE DEF R
  <2> QED
    BY <1>1, WFMin
<1>3. PICK n \in S : \A m \in S : <<m, n>> \notin R
  BY <1>2
<1>4. ASSUME NEW m \in S PROVE n <= m
  <2>1. <<m, n>> \notin R
    BY <1>3
  <2>2. m \in Nat /\ n \in Nat
    OBVIOUS
  <2>3. ~(m < n)
    BY <2>1, <2>2
  <2> QED
    BY <2>2, <2>3
<1> QED
  BY <1>4

LEMMA Greatest ==
    ASSUME NEW S \in SUBSET Nat, S # {}, NEW k \in Nat, \A m \in S : m <= k
    PROVE  \E n \in S : \A m \in S : m <= n
<1> DEFINE up == {n \in Nat : \A m \in S : m <= n}
<1>1. PICK n \in up : \A m \in up : n <= m
  BY Least
<1>2. n \in S
  <2> SUFFICES ASSUME n \notin S PROVE FALSE
    OBVIOUS
  <2>1. PICK s \in S : TRUE
    OBVIOUS
  <2>2. n - 1 \in Nat
    BY <1>1, <2>1
  <2>3. \A m \in S : m \in Nat /\ m <= n /\ m # n
    BY <1>1
  <2>4. \A m \in S : m <= n - 1
    BY <1>1, <2>3
  <2> QED
    BY <1>1, <2>2, <2>4
<1> QED
  BY <1>1, <1>2

\* A row of numbers has a bound.
LEMMA Bounded ==
    ASSUME NEW n \in Nat, NEW f, \A i \in 1..n : f[i] \in Nat
    PROVE  \E k \in Nat : \A i \in 1..n : f[i] <= k
<1> DEFINE upTo(m) == \E k \in Nat : \A i \in 1..m : f[i] <= k
<1> DEFINE bad == {m \in 0..n : ~upTo(m)}
<1>1. SUFFICES ASSUME bad # {} PROVE FALSE
  <2>1. n \in 0..n
    OBVIOUS
  <2> QED
    BY <2>1
<1>2. PICK m \in bad : \A j \in bad : m <= j
  <2>1. bad \in SUBSET Nat
    OBVIOUS
  <2> HIDE DEF bad
  <2> QED
    BY <1>1, <2>1, Least
<1>3. m # 0
  <2>1. upTo(0)
    OBVIOUS
  <2> QED
    BY <2>1
<1>4. m - 1 \in 0..n /\ m \in 1..n
  BY <1>2, <1>3
<1>5. upTo(m - 1)
  <2>1. m - 1 \notin bad
    <3> HIDE DEF bad
    <3>1. m \in Nat
      BY <1>4
    <3> QED
      BY <1>2, <3>1
  <2> QED
    BY <1>4, <2>1
<1>6. PICK k \in Nat : \A i \in 1..(m - 1) : f[i] <= k
  BY <1>5
<1>7. f[m] \in Nat
  BY <1>4
<1>8. \A i \in 1..m : f[i] <= k + f[m]
  <2> TAKE i \in 1..m
  <2>1. CASE i = m
    BY <1>7, <2>1
  <2>2. CASE i # m
    <3>1. i \in 1..(m - 1) /\ i \in 1..n
      BY <1>4, <2>2
    <3>2. f[i] <= k /\ f[i] \in Nat
      BY <1>6, <3>1
    <3> QED
      BY <1>7, <3>2
  <2> QED
    BY <2>1, <2>2
<1>9. k + f[m] \in Nat
  BY <1>7
<1> QED
  BY <1>2, <1>8, <1>9
-----------------------------------------------------------------------------
(* buildLines *)

\* The start of a line: the start of the whole, or after the line before it.
Begins(g, from, services, i) ==
    IF i = 1 \/ services[i].together THEN from ELSE g[i - 1] + 1 + Buffer

LEMMA ChainExists ==
    ASSUME NEW from \in Nat, NEW services, Listed(services)
    PROVE  \E g : g = [i \in DOMAIN services |-> Begins(g, from, services, i)]
<1> DEFINE n == Len(services)
<1> DEFINE upTo(m) == \E g \in [1..m -> Nat] : \A i \in 1..m : g[i] = Begins(g, from, services, i)
<1> DEFINE bad == {m \in 0..n : ~upTo(m)}
<1>0. n \in Nat /\ DOMAIN services = 1..n
  BY DEF Listed
<1> HIDE DEF n
<1>1. ASSUME bad # {} PROVE FALSE
  <2>1. PICK m \in bad : \A j \in bad : m <= j
    <3>1. bad \in SUBSET Nat
      BY <1>0
    <3> HIDE DEF bad
    <3> QED
      BY <1>1, <3>1, Least
  <2>2. m # 0
    <3>1. [i \in 1..0 |-> 0] \in [1..0 -> Nat] /\ \A i \in 1..0 : FALSE
      OBVIOUS
    <3>2. upTo(0)
      BY <3>1
    <3> QED
      BY <3>2
  <2>3. m - 1 \in 0..n /\ m \in 1..n
    BY <1>0, <2>1, <2>2
  <2>4. upTo(m - 1)
    BY <2>1, <2>3
  <2>5. PICK g \in [1..(m - 1) -> Nat] : \A i \in 1..(m - 1) : g[i] = Begins(g, from, services, i)
    BY <2>4
  <2> DEFINE v == Begins(g, from, services, m)
  <2>6. v \in Nat
    BY <2>3, NumbersAssumption DEF Begins
  <2> HIDE DEF v
  <2> DEFINE h == [i \in 1..m |-> IF i = m THEN v ELSE g[i]]
  <2>7. h \in [1..m -> Nat]
    BY <1>0, <2>3, <2>6
  <2>8. \A i \in 1..(m - 1) : h[i] = g[i]
    BY <1>0, <2>3
  <2>9. h[m] = v
    BY <1>0, <2>3
  <2> HIDE DEF h
  <2>10. ASSUME NEW i \in 1..m PROVE h[i] = Begins(h, from, services, i)
    <3>1. i = 1 \/ i - 1 \in 1..(m - 1)
      BY <1>0, <2>3
    <3>2. h[i] = Begins(g, from, services, i)
      <4>1. CASE i = m
        BY <2>9, <4>1 DEF v
      <4>2. CASE i # m
        <5>1. i \in 1..(m - 1)
          BY <1>0, <2>3, <4>2
        <5> QED
          BY <2>5, <2>8, <5>1
      <4> QED
        BY <4>1, <4>2
    <3> QED
      BY <2>8, <3>1, <3>2 DEF Begins
  <2>11. upTo(m)
    BY <2>7, <2>10
  <2> QED
    BY <2>1, <2>11
<1>2. upTo(n)
  <2>1. n \in 0..n
    BY <1>0
  <2> QED
    BY <1>1, <2>1
<1>3. PICK g \in [1..n -> Nat] : \A i \in 1..n : g[i] = Begins(g, from, services, i)
  BY <1>2
<1>4. g = [i \in DOMAIN services |-> Begins(g, from, services, i)]
  BY <1>0, <1>3
<1> QED
  BY <1>4

\* Whatever the lines start at, it is a number.
LEMMA ChainIsNat ==
    ASSUME NEW from \in Nat, NEW services, Listed(services), NEW g,
           g = [i \in DOMAIN services |-> Begins(g, from, services, i)]
    PROVE  \A i \in DOMAIN services : g[i] \in Nat
<1> DEFINE n == Len(services)
<1> DEFINE bad == {i \in 1..n : g[i] \notin Nat}
<1>0. n \in Nat /\ DOMAIN services = 1..n
  BY DEF Listed
<1> HIDE DEF n
<1> SUFFICES ASSUME bad # {} PROVE FALSE
  BY <1>0
<1>1. PICK i \in bad : \A j \in bad : i <= j
  <2>1. bad \in SUBSET Nat
    BY <1>0
  <2> HIDE DEF bad
  <2> QED
    BY <2>1, Least
<1>2. i \in 1..n /\ g[i] = Begins(g, from, services, i)
  BY <1>0
<1>3. i # 1 => i - 1 \in 1..n /\ g[i - 1] \in Nat
  BY <1>0, <1>1, <1>2
<1>4. Begins(g, from, services, i) \in Nat
  BY <1>3, NumbersAssumption DEF Begins
<1> QED
  BY <1>2, <1>4

LEMMA LinesLaid ==
    ASSUME NEW from \in Nat, NEW services, Listed(services)
    PROVE  Laid(BuildLines(from, services))
<1> DEFINE begin == CHOOSE g : g = [i \in DOMAIN services |-> Begins(g, from, services, i)]
<1>1. begin = [i \in DOMAIN services |-> Begins(begin, from, services, i)]
  BY ChainExists
<1>2. BuildLines(from, services) =
        [i \in DOMAIN services |->
            [staff |-> services[i].staff, room |-> services[i].room,
             start |-> begin[i], end |-> begin[i] + 1]]
  BY DEF BuildLines, Begins
<1> HIDE DEF begin
<1>3. \A i \in DOMAIN services : begin[i] \in Nat
  BY <1>1, ChainIsNat
<1> DEFINE ls == BuildLines(from, services)
<1>4. DOMAIN ls = 1..Len(services) /\ Len(services) \in Nat
  BY <1>2 DEF Listed
<1>5. \A i \in DOMAIN services : ls[i].start = begin[i] /\ ls[i].end = begin[i] + 1
  BY <1>2
<1>6. Len(ls) = Len(services)
  BY <1>2, <1>4 DEF Listed
<1> QED
  BY <1>3, <1>4, <1>5, <1>6 DEF Laid, Listed
-----------------------------------------------------------------------------
(* findConflicts *)

\* The span of a list covers each of its lines.
LEMMA SpanCovers ==
    ASSUME NEW ls, Laid(ls)
    PROVE  \A l \in Rows(ls) : /\ l.start \in Nat /\ l.end \in Nat /\ l.start < l.end
                               /\ Span(ls).start \in Nat /\ Span(ls).end \in Nat
                               /\ Span(ls).start <= l.start /\ l.end <= Span(ls).end
<1>1. Len(ls) \in Nat /\ DOMAIN ls = 1..Len(ls)
  BY DEF Laid
<1>2. \A l \in Rows(ls) : l.start \in Nat /\ l.end \in Nat /\ l.start < l.end
  BY DEF Laid, Rows
<1> SUFFICES ASSUME NEW l \in Rows(ls)
             PROVE  /\ Span(ls).start \in Nat /\ Span(ls).end \in Nat
                    /\ Span(ls).start <= l.start /\ l.end <= Span(ls).end
  BY <1>2
<1> DEFINE starts == {k.start : k \in Rows(ls)}
<1> DEFINE ends == {k.end : k \in Rows(ls)}
<1>3. starts \in SUBSET Nat /\ ends \in SUBSET Nat /\ l.start \in starts /\ l.end \in ends
  BY <1>2
<1>4. PICK k \in Nat : \A i \in 1..Len(ls) : ls[i].end <= k
  <2> DEFINE f == [i \in 1..Len(ls) |-> ls[i].end]
  <2>1. \A i \in 1..Len(ls) : f[i] \in Nat /\ f[i] = ls[i].end
    BY DEF Laid
  <2> HIDE DEF f
  <2>2. \E k \in Nat : \A i \in 1..Len(ls) : f[i] <= k
    BY <1>1, <2>1, Bounded
  <2> QED
    BY <2>1, <2>2
<1>5. \A m \in ends : m <= k
  BY <1>1, <1>4 DEF Rows
<1> HIDE DEF starts, ends
<1>6. \E x \in starts : \A y \in starts : x <= y
  BY <1>3, Least
<1>7. \E x \in ends : \A y \in ends : y <= x
  BY <1>3, <1>5, Greatest
<1>8. Min(starts) \in starts /\ \A y \in starts : Min(starts) <= y
  BY <1>6 DEF Min
<1>9. Max(ends) \in ends /\ \A y \in ends : Max(ends) >= y
  BY <1>3, <1>7 DEF Max
<1>10. Span(ls).start = Min(starts) /\ Span(ls).end = Max(ends)
  BY DEF Span, starts, ends
<1> QED
  BY <1>3, <1>8, <1>9, <1>10

\* Another's line that overlaps one of the list is among those the query returns.
LEMMA OverlapIsNearby ==
    ASSUME NEW ls, Laid(ls), NEW self \in SUBSET Appts, NEW b \in Appts \ self,
           status[b] \in Occupying, Laid(lines[b]),
           NEW l \in Rows(ls), NEW m \in Rows(lines[b]), Overlap(l, m)
    PROVE  m \in Nearby(ls, self) /\ Overlap(m, Span(ls))
<1>1. /\ l.start \in Nat /\ l.end \in Nat
      /\ Span(ls).start \in Nat /\ Span(ls).end \in Nat
      /\ Span(ls).start <= l.start /\ l.end <= Span(ls).end
  BY SpanCovers
<1>2. m.start \in Nat /\ m.end \in Nat
  BY SpanCovers
<1>3. Overlap(m, Span(ls))
  BY <1>1, <1>2 DEF Overlap
<1> QED
  BY <1>3 DEF Nearby

\* What findConflicts lets through clashes with nobody.
LEMMA FitsOthers ==
    ASSUME NEW from \in Nat, NEW services, Listed(services), NEW self \in SUBSET Appts,
           ~Conflicts(from, services, self),
           NEW b \in Appts \ self, status[b] \in Occupying, Laid(lines[b]),
           NEW l \in Rows(BuildLines(from, services)), NEW m \in Rows(lines[b]), Overlap(l, m)
    PROVE  /\ ~(l.staff = m.staff /\ l.staff # Nobody)
           /\ ~(l.room = m.room /\ l.room # NoRoom)
<1> DEFINE ls == BuildLines(from, services)
<1>1. Laid(ls)
  BY LinesLaid
<1>2. ~StaffBusy(ls, self) /\ ~RoomBusy(ls, self)
  BY DEF Conflicts
<1> HIDE DEF ls
<1>3. l \in Rows(ls)
  BY DEF ls
<1>4. m \in Nearby(ls, self)
  BY <1>1, <1>3, OverlapIsNearby
<1>5. Overlap(l, WithBuffer(m))
  <2>1. l.start \in Nat /\ l.end \in Nat /\ m.start \in Nat /\ m.end \in Nat
    BY <1>1, <1>3, SpanCovers
  <2> QED
    BY <2>1, NumbersAssumption DEF Overlap, WithBuffer
<1> QED
  BY <1>2, <1>3, <1>4, <1>5 DEF StaffBusy, RoomBusy

\* And leaves a place wherever it has a line.
LEMMA FitsPlaces ==
    ASSUME NEW from \in Nat, NEW services, Listed(services), NEW self \in SUBSET Appts,
           ~Conflicts(from, services, self), \A b \in Appts : Laid(lines[b]),
           NEW t \in Nat, NEW l \in Rows(BuildLines(from, services)), Covers(l, t),
           NEW others \in SUBSET (Appts \ self),
           \A b \in others : status[b] \in Occupying /\ \E m \in Rows(lines[b]) : Covers(m, t)
    PROVE  Cardinality(others) + 1 <= Capacity
<1> DEFINE ls == BuildLines(from, services)
<1>1. Laid(ls)
  BY LinesLaid
<1>2. ~AtCapacity(ls, self)
  BY DEF Conflicts
<1> HIDE DEF ls
<1>3. l \in Rows(ls)
  BY DEF ls
<1> DEFINE all == {a \in Appts \ self : status[a] \in Occupying
                      /\ \E k \in Rows(lines[a]) : Overlap(k, Span(ls))}
<1>4. IsFiniteSet(all) /\ Cardinality(all) \in Nat
  <2>1. all \in SUBSET Appts
    OBVIOUS
  <2> HIDE DEF all
  <2> QED
    BY <2>1, ApptsAssumption, FS_Subset, FS_CardinalityType
<1>5. others \in SUBSET all
  <2> SUFFICES ASSUME NEW b \in others
               PROVE  b \in Appts \ self /\ status[b] \in Occupying
                      /\ \E k \in Rows(lines[b]) : Overlap(k, Span(ls))
    OBVIOUS
  <2>1. PICK m \in Rows(lines[b]) : Covers(m, t)
    OBVIOUS
  <2>2. /\ l.start \in Nat /\ l.end \in Nat /\ m.start \in Nat /\ m.end \in Nat
    BY <1>1, <1>3, SpanCovers
  <2>3. Overlap(l, m)
    BY <2>1, <2>2 DEF Covers, Overlap
  <2>4. Overlap(m, Span(ls))
    BY <1>1, <1>3, <2>3, OverlapIsNearby
  <2> QED
    BY <2>4
<1>6. Cardinality(all) < Capacity
  BY <1>2, <1>4, NumbersAssumption DEF AtCapacity
<1> HIDE DEF all
<1>7. Cardinality(others) <= Cardinality(all) /\ Cardinality(others) \in Nat
  BY <1>4, <1>5, FS_Subset, FS_CardinalityType
<1> QED
  BY <1>4, <1>6, <1>7, NumbersAssumption

\* Fewer occupy the diary: what fitted still does.
LEMMA ConflictsShrink ==
    ASSUME lines' = lines, \A a \in Appts : status'[a] \in Occupying => status[a] \in Occupying,
           NEW from, NEW services, NEW self \in SUBSET Appts
    PROVE  Conflicts(from, services, self)' => Conflicts(from, services, self)
<1> DEFINE ls == BuildLines(from, services)
<1>1. Nearby(ls, self)' \subseteq Nearby(ls, self)
  BY DEF Nearby
<1>2. StaffBusy(ls, self)' => StaffBusy(ls, self)
  BY <1>1 DEF StaffBusy
<1>3. RoomBusy(ls, self)' => RoomBusy(ls, self)
  BY <1>1 DEF RoomBusy
<1>4. AtCapacity(ls, self)' => AtCapacity(ls, self)
  <2> DEFINE all == {a \in Appts \ self : status[a] \in Occupying
                        /\ \E k \in Rows(lines[a]) : Overlap(k, Span(ls))}
  <2> DEFINE now1 == {a \in Appts \ self : status'[a] \in Occupying
                        /\ \E k \in Rows(lines[a]) : Overlap(k, Span(ls))}
  <2>1. now1 \in SUBSET all /\ all \in SUBSET Appts
    OBVIOUS
  <2>2. /\ AtCapacity(ls, self) <=> Cardinality(all) >= Capacity
        /\ AtCapacity(ls, self)' <=> Cardinality(now1) >= Capacity
    BY DEF AtCapacity
  <2> HIDE DEF all, now1
  <2>3. IsFiniteSet(all) /\ Cardinality(all) \in Nat
    BY <2>1, ApptsAssumption, FS_Subset, FS_CardinalityType
  <2>4. Cardinality(now1) <= Cardinality(all) /\ Cardinality(now1) \in Nat
    BY <2>1, <2>3, FS_Subset, FS_CardinalityType
  <2> QED
    BY <2>2, <2>3, <2>4, NumbersAssumption
<1> QED
  BY <1>2, <1>3, <1>4 DEF Conflicts
-----------------------------------------------------------------------------
(* What fits together stays so *)

LEMMA HereIsFinite ==
    ASSUME NEW S \in SUBSET Appts
    PROVE  IsFiniteSet(S) /\ Cardinality(S) \in Nat
BY ApptsAssumption, FS_Subset, FS_CardinalityType

\* Nobody comes, and nobody moves.
LEMMA FittingShrinks ==
    ASSUME Fitting, lines' = lines, unchecked \subseteq unchecked',
           \A a \in Appts : a \notin unchecked' /\ Present(a)' => Present(a)
    PROVE  Fitting'
<1>1. \A a, b \in Appts \ unchecked' : a # b /\ Present(a)' /\ Present(b)' => ~Clash(a, b)'
  BY DEF Fitting, Clash
<1>2. ASSUME NEW t \in Slots PROVE Cardinality(Here(t)') <= Capacity
  <2>1. Here(t)' \in SUBSET Here(t) /\ Here(t) \in SUBSET Appts
    BY DEF Here
  <2>2. Here(t)' \in SUBSET Appts
    BY <2>1
  <2>3. Cardinality(Here(t)') <= Cardinality(Here(t))
    BY <2>1, HereIsFinite, FS_Subset
  <2>4. Cardinality(Here(t)) <= Capacity
    BY DEF Fitting
  <2>5. Cardinality(Here(t)) \in Nat /\ Cardinality(Here(t)') \in Nat
    BY <2>1, <2>2, HereIsFinite
  <2> QED
    BY <2>3, <2>4, <2>5, NumbersAssumption
<1> QED
  BY <1>1, <1>2 DEF Fitting

\* One appointment is written, with lines that fitted unless they were forced in.
LEMMA FittingWrites ==
    ASSUME Fitting, \A b \in Appts : Laid(lines[b]),
           NEW a \in Appts, NEW from \in Nat, NEW services, Listed(services),
           NEW self \in SUBSET {a}, NEW force \in BOOLEAN,
           ~force => ~Conflicts(from, services, self),
           lines'[a] = BuildLines(from, services),
           \A b \in Appts : b # a => lines'[b] = lines[b],
           \A b \in Appts : b # a /\ Present(b)' => Live(b),
           Mark(a, force)
    PROVE  Fitting'
<1>1. \A b \in Appts : b # a => (b \in unchecked' <=> b \in unchecked)
  BY DEF Mark
<1>2. a \notin unchecked' => ~Conflicts(from, services, self)
  BY DEF Mark
<1>3. self \in SUBSET Appts
  OBVIOUS
<1>4. ASSUME NEW b \in Appts \ unchecked', b # a, a \notin unchecked', Present(b)'
      PROVE  ~Clash(a, b)' /\ ~Clash(b, a)'
  <2>1. \A l \in Rows(lines'[a]), m \in Rows(lines'[b]) :
            Overlap(l, m) => /\ ~(l.staff = m.staff /\ l.staff # Nobody)
                             /\ ~(l.room = m.room /\ l.room # NoRoom)
    <3> SUFFICES ASSUME NEW l \in Rows(BuildLines(from, services)), NEW m \in Rows(lines[b]),
                        Overlap(l, m)
                 PROVE  /\ ~(l.staff = m.staff /\ l.staff # Nobody)
                        /\ ~(l.room = m.room /\ l.room # NoRoom)
      BY <1>4
    <3>1. status[b] \in Occupying /\ b \in Appts \ self
      BY <1>4 DEF Live
    <3> QED
      BY <1>2, <1>3, <1>4, <3>1, FitsOthers
  <2>2. \A l, m : Overlap(l, m) <=> Overlap(m, l)
    BY DEF Overlap
  <2> QED
    BY <2>1, <2>2 DEF Clash
<1>5. \A b, c \in Appts \ unchecked' : b # c /\ Present(b)' /\ Present(c)' => ~Clash(b, c)'
  <2> SUFFICES ASSUME NEW b \in Appts \ unchecked', NEW c \in Appts \ unchecked', b # c,
                      Present(b)', Present(c)'
               PROVE  ~Clash(b, c)'
    OBVIOUS
  <2>1. CASE b # a /\ c # a
    <3>1. b \in Appts \ unchecked /\ c \in Appts \ unchecked /\ Present(b) /\ Present(c)
      BY <1>1, <2>1 DEF Present
    <3>2. ~Clash(b, c)
      BY <3>1 DEF Fitting
    <3> QED
      BY <2>1, <3>2 DEF Clash
  <2>2. CASE b = a
    BY <1>4, <2>2
  <2>3. CASE c = a
    BY <1>4, <2>3
  <2> QED
    BY <2>1, <2>2, <2>3
<1>6. ASSUME NEW t \in Slots PROVE Cardinality(Here(t)') <= Capacity
  <2>0. t \in Nat /\ Here(t) \in SUBSET Appts /\ Here(t)' \in SUBSET Appts
    BY NumbersAssumption DEF Slots, Here
  <2>1. \A b \in Here(t)' : b # a => b \in Here(t) /\ Live(b) /\ \E m \in Rows(lines[b]) : Covers(m, t)
    BY <1>1 DEF Here, Present
  <2>2. CASE a \notin Here(t)'
    <3>1. Here(t)' \in SUBSET Here(t)
      BY <2>1, <2>2
    <3>2. Cardinality(Here(t)') <= Cardinality(Here(t))
      BY <2>0, <3>1, HereIsFinite, FS_Subset
    <3>3. Cardinality(Here(t)) <= Capacity
      BY DEF Fitting
    <3>4. Cardinality(Here(t)) \in Nat /\ Cardinality(Here(t)') \in Nat
      BY <2>0, HereIsFinite
    <3> QED
      BY <3>2, <3>3, <3>4, NumbersAssumption
  <2>3. CASE a \in Here(t)'
    <3>1. a \notin unchecked' /\ \E l \in Rows(lines'[a]) : Covers(l, t)
      BY <2>3 DEF Here
    <3>2. PICK l \in Rows(BuildLines(from, services)) : Covers(l, t)
      BY <3>1
    <3> DEFINE others == Here(t)' \ {a}
    <3>3. others \in SUBSET (Appts \ self)
      BY <2>0
    <3>4. \A b \in others : status[b] \in Occupying /\ \E m \in Rows(lines[b]) : Covers(m, t)
      BY <2>1 DEF Live
    <3>5. Cardinality(others) = Cardinality(Here(t)') - 1
      BY <2>0, <2>3, HereIsFinite, FS_RemoveElement
    <3> HIDE DEF others
    <3>6. Cardinality(others) + 1 <= Capacity
      BY <1>2, <1>3, <2>0, <3>1, <3>2, <3>3, <3>4, FitsPlaces
    <3>7. Cardinality(Here(t)') \in Nat
      BY <2>0, HereIsFinite
    <3> QED
      BY <3>5, <3>6, <3>7, NumbersAssumption
  <2> QED
    BY <2>2, <2>3
<1> QED
  BY <1>5, <1>6 DEF Fitting
-----------------------------------------------------------------------------
(* The requests *)

LEMMA Wrote ==
    ASSUME BookTyped, NEW d \in Desks, NEW r, Hold(d, r)
    PROVE  request'[d] = r /\ request' = [e \in Desks |-> request'[e]]
BY DEF BookTyped, Hold

\* A request that is about to write says what it has read, and moves nothing.
LEMMA AskKeeps ==
    ASSUME OneDesk, BookInv, NEW d \in Desks, NEW r, Ask(d, r), request[d] = Idle,
           r.step \in {"create", "update", "move", "status", "bill", "void"}, Asked(d)',
           \A a \in Appts : (Coming(a)' => Live(a)) /\ (Confirms(a)' => status[a] \in Ahead)
    PROVE  BookInv'
<1>1. /\ UNCHANGED <<status, start, lines, unchecked, reminder, now, sweeping, torn, revived>>
      /\ Hold(d, r)
  BY DEF Ask, diary, marked
<1>2. request'[d] = r /\ request' = [e \in Desks |-> request'[e]] /\ \A e \in Desks : e = d
  BY <1>1, Wrote DEF BookInv, OneDesk
<1>3. BookTyped'
  BY <1>1, <1>2 DEF BookInv, BookTyped
<1>4. Reminding(d)'
  BY <1>2 DEF Reminding, At
<1>5. ASSUME NEW a \in Appts PROVE Timed(a)'
  <2>1. \A e \in Desks : ~At(e, {"unschedule"})
    BY <1>2 DEF At, Idle
  <2>2. Timed(a)
    BY DEF BookInv
  <2> QED
    BY <1>1, <2>1, <2>2 DEF Timed
<1>6. Fitting'
  <2>1. \A a \in Appts : Present(a)' => Present(a)
    BY <1>1 DEF Present, Live
  <2> QED
    BY <1>1, <2>1, FittingShrinks DEF BookInv
<1>7. ASSUME NEW a \in Appts PROVE Waits(a)'
  <2>1. Waits(a) /\ \A e \in Desks : ~Remakes(e, a)
    BY <1>2 DEF BookInv, Remakes, At, Idle
  <2> QED
    BY <1>1, <2>1 DEF Waits
<1> QED
  BY <1>2, <1>3, <1>4, <1>5, <1>6, <1>7 DEF BookInv

LEMMA NobodyComes ==
    ASSUME OneDesk, NEW d \in Desks, request[d].step # "status"
    PROVE  \A a \in Appts : ~Coming(a) /\ ~Confirms(a)
BY DEF OneDesk, Coming, Confirms, At

LEMMA AskCreateKeeps ==
    ASSUME OneDesk, BookInv, NEW d \in Desks, NEW from \in Slots, NEW services \in Menu,
           NEW force \in Forcing, AskCreate(d, from, services, force)
    PROVE  BookInv'
<1> DEFINE r == [step |-> "create", from |-> from, services |-> services, force |-> force]
<1>1. /\ request[d] = Idle /\ Ask(d, r)
      /\ ~force => ~Conflicts(from, services, {})
  BY DEF AskCreate, MayAsk
<1>2. r.step = "create" /\ r.from = from /\ r.services = services /\ r.force = force
  OBVIOUS
<1> HIDE DEF r
<1>3. request'[d] = r /\ status' = status /\ lines' = lines
  BY <1>1, Wrote DEF BookInv, Ask, diary
<1>4. from \in Nat /\ Listed(services) /\ force \in BOOLEAN
  BY NumbersAssumption, MenuAssumption, ForcingAssumption DEF Slots, Listed
<1>5. ~force => ~Conflicts(from, services, {})'
  BY <1>1, <1>3, ConflictsShrink
<1>6. Asked(d)'
  <2>1. /\ At(d, {"create"})' /\ ~At(d, {"idle"})' /\ ~At(d, {"update", "move"})'
        /\ ~At(d, {"status"})' /\ ~At(d, {"status", "bill", "void"})'
    BY <1>2, <1>3 DEF At
  <2>2. At(d, {"idle", "create", "update", "move", "status", "bill", "void", "unschedule", "schedule"})'
    BY <1>2, <1>3 DEF At
  <2>3. FitsAlone(d)'
    BY <1>2, <1>3, <1>5 DEF FitsAlone
  <2> QED
    BY <1>2, <1>3, <1>4, <2>1, <2>2, <2>3 DEF Asked
<1>7. \A a \in Appts : ~Coming(a)' /\ ~Confirms(a)'
  BY <1>2, <1>3 DEF OneDesk, Coming, Confirms, At
<1> QED
  BY <1>1, <1>2, <1>6, <1>7, AskKeeps

\* A change of services, or a move: both read the appointment and the diary without it.
LEMMA AskChangeKeeps ==
    ASSUME OneDesk, BookInv, NEW d \in Desks, NEW a \in Appts, NEW from \in Nat,
           NEW services, Listed(services), NEW force \in BOOLEAN, NEW step \in {"update", "move"},
           status[a] # "NONE",
           ~force => ~Conflicts(from, services, {a}), request[d] = Idle,
           Ask(d, [step |-> step, appt |-> a, from |-> from, services |-> services,
                   force |-> force])
    PROVE  BookInv'
<1> DEFINE r == [step |-> step, appt |-> a, from |-> from, services |-> services,
                 force |-> force]
<1>1. r.step = step /\ r.appt = a /\ r.from = from /\ r.services = services /\ r.force = force
  OBVIOUS
<1>2. Ask(d, r)
  OBVIOUS
<1> HIDE DEF r
<1>3. request'[d] = r /\ status' = status /\ lines' = lines
  BY <1>2, Wrote DEF BookInv, Ask, diary
<1>4. ~force => ~Conflicts(from, services, {a})'
  BY <1>3, ConflictsShrink
<1>5. Asked(d)'
  <2>1. ~At(d, {"create"})' /\ ~At(d, {"idle"})' /\ ~At(d, {"status"})'
        /\ ~At(d, {"status", "bill", "void"})'
    BY <1>1, <1>3 DEF At
  <2>2. At(d, {"idle", "create", "update", "move", "status", "bill", "void", "unschedule", "schedule"})'
    BY <1>1, <1>3 DEF At
  <2>3. FitsBeside(d)'
    BY <1>1, <1>3, <1>4 DEF FitsBeside
  <2> QED
    BY <1>1, <1>3, <2>1, <2>2, <2>3 DEF Asked
<1>6. \A b \in Appts : ~Coming(b)' /\ ~Confirms(b)'
  BY <1>1, <1>3 DEF OneDesk, Coming, Confirms, At
<1> QED
  BY <1>1, <1>2, <1>5, <1>6, AskKeeps

LEMMA AskUpdateKeeps ==
    ASSUME OneDesk, BookInv, NEW d \in Desks, NEW a \in Appts, NEW services \in Menu,
           NEW force \in Forcing, AskUpdate(d, a, services, force)
    PROVE  BookInv'
<1>1. PICK from : from = start[a]
  OBVIOUS
<1>2. from \in Nat /\ Listed(services) /\ force \in BOOLEAN
  BY <1>1, MenuAssumption, ForcingAssumption DEF BookInv, BookTyped, Listed
<1>3. /\ status[a] # "NONE" /\ request[d] = Idle
      /\ ~force => ~Conflicts(from, services, {a})
  BY <1>1 DEF AskUpdate, MayAsk
<1>4. Ask(d, [step |-> "update", appt |-> a, from |-> from, services |-> services,
              force |-> force])
  BY <1>1 DEF AskUpdate
<1> DEFINE step == "update"
<1>5. step \in {"update", "move"}
  OBVIOUS
<1>6. Ask(d, [step |-> step, appt |-> a, from |-> from, services |-> services,
              force |-> force])
  BY <1>4
<1> HIDE DEF step
<1> QED
  BY <1>2, <1>3, <1>5, <1>6, AskChangeKeeps

LEMMA AskMoveKeeps ==
    ASSUME OneDesk, BookInv, NEW d \in Desks, NEW a \in Appts, NEW from \in Slots,
           NEW staff, NEW force \in Forcing, AskMove(d, a, from, staff, force)
    PROVE  BookInv'
<1>1. PICK services : services = Rebooked(a, staff)
  OBVIOUS
<1>2. Listed(services)
  <2>1. Len(lines[a]) \in Nat /\ DOMAIN lines[a] = 1 .. Len(lines[a])
    BY DEF BookInv, BookTyped, Laid
  <2> QED
    BY <1>1, <2>1 DEF Rebooked, Listed
<1>3. from \in Nat /\ force \in BOOLEAN
  BY NumbersAssumption, ForcingAssumption DEF Slots
<1>4. /\ status[a] # "NONE" /\ request[d] = Idle
      /\ ~force => ~Conflicts(from, services, {a})
  BY <1>1 DEF AskMove, MayAsk
<1> DEFINE step == "move"
<1>5. step \in {"update", "move"}
  OBVIOUS
<1>6. Ask(d, [step |-> step, appt |-> a, from |-> from, services |-> services,
              force |-> force])
  BY <1>1 DEF AskMove
<1> HIDE DEF step
<1> QED
  BY <1>2, <1>3, <1>4, <1>5, <1>6, AskChangeKeeps

\* Only a no-show comes back, and it comes back as booked.
LEMMA Transitions ==
    ASSUME NEW x \in Statuses, NEW s \in ALLOWED_TRANSITIONS[x]
    PROVE  /\ s \in Statuses
           /\ s \in Occupying \ {"BOOKED"} => x \in Occupying
           /\ s = "CONFIRMED" => x \in Ahead
BY DEF Statuses, ALLOWED_TRANSITIONS, Occupying, Ahead

LEMMA AskStatusKeeps ==
    ASSUME OneDesk, BookInv, NEW d \in Desks, NEW a \in Appts, NEW s, AskStatus(d, a, s)
    PROVE  BookInv'
<1> DEFINE r == [step |-> "status", appt |-> a, to |-> s]
<1>1. r.step = "status" /\ r.appt = a /\ r.to = s
  OBVIOUS
<1>2. Ask(d, r) /\ request[d] = Idle
  BY DEF AskStatus, MayAsk
<1> HIDE DEF r
<1>3. request'[d] = r /\ status' = status
  BY <1>2, Wrote DEF BookInv, Ask, diary
<1>4. status[a] \in Statuses /\ s \in ALLOWED_TRANSITIONS[status[a]]
  BY DEF AskStatus, BookInv, BookTyped
<1>5. /\ s \in Statuses /\ status[a] # "NONE"
      /\ s \in Occupying \ {"BOOKED"} => status[a] \in Occupying
      /\ s = "CONFIRMED" => status[a] \in Ahead
  BY <1>4, Transitions DEF AskStatus
<1>6. Asked(d)'
  <2>1. /\ ~At(d, {"create"})' /\ ~At(d, {"idle"})' /\ ~At(d, {"update", "move"})'
        /\ ~At(d, {"create", "update", "move"})'
    BY <1>1, <1>3 DEF At
  <2>2. At(d, {"idle", "create", "update", "move", "status", "bill", "void", "unschedule", "schedule"})'
    BY <1>1, <1>3 DEF At
  <2> QED
    BY <1>1, <1>3, <1>5, <2>1, <2>2 DEF Asked
<1>7. \A b \in Appts : (Coming(b)' => Live(b)) /\ (Confirms(b)' => status[b] \in Ahead)
  BY <1>1, <1>3, <1>5 DEF OneDesk, Coming, Confirms, At, Live
<1> QED
  BY <1>1, <1>2, <1>6, <1>7, AskKeeps

\* A bill or its void: it reads the appointment, or the bill, and no more.
LEMMA AskPaperKeeps ==
    ASSUME OneDesk, BookInv, NEW d \in Desks, NEW a \in Appts, NEW step \in {"bill", "void"},
           request[d] = Idle, Ask(d, [step |-> step, appt |-> a])
    PROVE  BookInv'
<1> DEFINE r == [step |-> step, appt |-> a]
<1>1. r.step = step /\ r.appt = a
  OBVIOUS
<1>2. Ask(d, r)
  OBVIOUS
<1> HIDE DEF r
<1>3. request'[d] = r /\ status' = status
  BY <1>2, Wrote DEF BookInv, Ask, diary
<1>4. Asked(d)'
  <2>1. /\ ~At(d, {"create"})' /\ ~At(d, {"idle"})' /\ ~At(d, {"update", "move"})'
        /\ ~At(d, {"create", "update", "move"})' /\ ~At(d, {"status"})'
    BY <1>1, <1>3 DEF At
  <2>2. At(d, {"idle", "create", "update", "move", "status", "bill", "void", "unschedule", "schedule"})'
    BY <1>1, <1>3 DEF At
  <2> QED
    BY <1>1, <1>3, <2>1, <2>2 DEF Asked
<1>5. \A b \in Appts : ~Coming(b)' /\ ~Confirms(b)'
  BY <1>1, <1>3 DEF OneDesk, Coming, Confirms, At
<1> QED
  BY <1>1, <1>2, <1>4, <1>5, AskKeeps

LEMMA AskBillKeeps ==
    ASSUME OneDesk, BookInv, NEW d \in Desks, NEW a \in Appts, AskBill(d, a)
    PROVE  BookInv'
<1> DEFINE step == "bill"
<1>1. step \in {"bill", "void"} /\ Ask(d, [step |-> step, appt |-> a])
  BY DEF AskBill
<1> HIDE DEF step
<1>2. request[d] = Idle
  BY DEF AskBill, MayAsk
<1> QED
  BY <1>1, <1>2, AskPaperKeeps

LEMMA AskVoidKeeps ==
    ASSUME OneDesk, BookInv, NEW d \in Desks, NEW a \in Appts, AskVoid(d, a)
    PROVE  BookInv'
<1> DEFINE step == "void"
<1>1. step \in {"bill", "void"} /\ Ask(d, [step |-> step, appt |-> a])
  BY DEF AskVoid
<1> HIDE DEF step
<1>2. request[d] = Idle
  BY DEF AskVoid, MayAsk
<1> QED
  BY <1>1, <1>2, AskPaperKeeps
-----------------------------------------------------------------------------
(* The writes *)

\* A request that is at its reminders, or done, has nothing left to write.
LEMMA NothingAsked ==
    ASSUME NEW d \in Desks, NEW r, request'[d] = r,
           r = Idle \/ r.step \in {"schedule", "unschedule"}
    PROVE  Asked(d)'
<1>1. /\ ~At(d, {"create"})' /\ ~At(d, {"update", "move"})' /\ ~At(d, {"status"})'
      /\ ~At(d, {"create", "update", "move"})' /\ ~At(d, {"status", "bill", "void"})'
  BY DEF At, Idle
<1>2. At(d, {"idle", "create", "update", "move", "status", "bill", "void", "unschedule", "schedule"})'
  BY DEF At, Idle
<1>3. At(d, {"idle"})' => request'[d] = Idle
  BY DEF At
<1> QED
  BY <1>1, <1>2, <1>3 DEF Asked

LEMMA CreateKeeps ==
    ASSUME OneDesk, BookInv, NEW d \in Desks, Create(d)
    PROVE  BookInv'
<1>1. PICK from, services, force :
          from = request[d].from /\ services = request[d].services /\ force = request[d].force
  OBVIOUS
<1>2. PICK a \in Appts :
          /\ status[a] = "NONE"
          /\ status' = [status EXCEPT ![a] = "BOOKED"]
          /\ start' = [start EXCEPT ![a] = from]
          /\ lines' = [lines EXCEPT ![a] = BuildLines(from, services)]
          /\ Mark(a, force)
          /\ Hold(d, [step |-> "schedule", appt |-> a, from |-> from])
  BY <1>1 DEF Create, marked
<1>3. request[d].step = "create" /\ UNCHANGED <<reminder, now, sweeping, torn, revived>>
  BY DEF Create, marked
<1>4. /\ from \in Nat /\ Listed(services) /\ force \in BOOLEAN
      /\ ~force => ~Conflicts(from, services, {})
  BY <1>1, <1>3 DEF BookInv, Asked, At, FitsAlone
<1> DEFINE r == [step |-> "schedule", appt |-> a, from |-> from]
<1>5. r.step = "schedule" /\ r.appt = a /\ r.from = from
  OBVIOUS
<1>6. Hold(d, r)
  BY <1>2
<1> HIDE DEF r
<1>7. request'[d] = r /\ request' = [e \in Desks |-> request'[e]] /\ \A e \in Desks : e = d
  BY <1>6, Wrote DEF BookInv, OneDesk
<1>8. /\ \A b \in Appts : b # a => lines'[b] = lines[b] /\ status'[b] = status[b] /\ start'[b] = start[b]
      /\ lines'[a] = BuildLines(from, services) /\ status'[a] = "BOOKED" /\ start'[a] = from
  BY <1>2 DEF BookInv, BookTyped
<1>9. BookTyped'
  <2>1. Laid(BuildLines(from, services))
    BY <1>4, LinesLaid
  <2>2. unchecked' \subseteq Appts
    BY <1>2 DEF Mark, BookInv, BookTyped
  <2>3. lines' = [b \in Appts |-> lines'[b]] /\ \A b \in Appts : Laid(lines'[b])
    BY <1>2, <1>8, <2>1 DEF BookInv, BookTyped
  <2> QED
    BY <1>2, <1>3, <1>4, <1>7, <2>2, <2>3 DEF BookInv, BookTyped, Statuses
<1>10. Fitting'
  <2>1. \A b \in Appts : b # a /\ Present(b)' => Live(b)
    BY <1>5, <1>7, <1>8 DEF Present, Live, Coming, At
  <2> DEFINE self == {}
  <2>2. self \in SUBSET {a} /\ (~force => ~Conflicts(from, services, self))
    BY <1>4
  <2> HIDE DEF self
  <2> QED
    BY <1>2, <1>4, <1>8, <2>1, <2>2, FittingWrites DEF BookInv, BookTyped
<1>11. Asked(d)'
  BY <1>5, <1>7, NothingAsked
<1>12. reminder[a].row = "NONE"
  BY <1>2 DEF BookInv, Timed
<1>13. Reminding(d)'
  BY <1>3, <1>4, <1>5, <1>7, <1>8, <1>12 DEF Reminding, At
<1>14. ASSUME NEW b \in Appts PROVE Timed(b)'
  <2>1. Timed(b) /\ \A e \in Desks : ~At(e, {"unschedule"})
    BY <1>3, <1>7 DEF BookInv, At
  <2> QED
    BY <1>3, <1>8, <1>12, <2>1 DEF Timed
<1>15. ASSUME NEW b \in Appts PROVE Waits(b)'
  <2>1. CASE b = a
    BY <1>5, <1>7, <2>1 DEF Waits, Remakes, At
  <2>2. CASE b # a
    <3>1. Waits(b) /\ (\A e \in Desks : ~Remakes(e, b)) /\ ~Confirms(b)'
      BY <1>3, <1>5, <1>7 DEF BookInv, Remakes, Confirms, At
    <3> QED
      BY <1>3, <1>8, <2>2, <3>1 DEF Waits
  <2> QED
    BY <2>1, <2>2
<1> QED
  BY <1>7, <1>9, <1>10, <1>11, <1>13, <1>14, <1>15 DEF BookInv

LEMMA UpdateKeeps ==
    ASSUME OneDesk, BookInv, NEW d \in Desks, Update(d)
    PROVE  BookInv'
<1>1. PICK a, from, services, force :
          /\ a = request[d].appt /\ from = request[d].from
          /\ services = request[d].services /\ force = request[d].force
  OBVIOUS
<1>2. /\ request[d].step = "update"
      /\ lines' = [lines EXCEPT ![a] = BuildLines(from, services)]
      /\ Mark(a, force) /\ Hold(d, Idle)
      /\ UNCHANGED <<status, start, reminder, now, sweeping, torn, revived>>
  BY <1>1 DEF Update, marked
<1>3. /\ from \in Nat /\ Listed(services) /\ force \in BOOLEAN
      /\ a \in Appts /\ (~force => ~Conflicts(from, services, {a}))
  BY <1>1, <1>2 DEF BookInv, Asked, At, FitsBeside
<1>4. request'[d] = Idle /\ request' = [e \in Desks |-> request'[e]] /\ \A e \in Desks : e = d
  BY <1>2, Wrote DEF BookInv, OneDesk
<1>5. /\ \A b \in Appts : b # a => lines'[b] = lines[b]
      /\ lines'[a] = BuildLines(from, services)
  BY <1>2, <1>3 DEF BookInv, BookTyped
<1>6. BookTyped'
  <2>1. Laid(BuildLines(from, services))
    BY <1>3, LinesLaid
  <2>2. unchecked' \subseteq Appts
    BY <1>2, <1>3 DEF Mark, BookInv, BookTyped
  <2>3. lines' = [b \in Appts |-> lines'[b]] /\ \A b \in Appts : Laid(lines'[b])
    BY <1>2, <1>5, <2>1 DEF BookInv, BookTyped
  <2> QED
    BY <1>2, <1>4, <2>2, <2>3 DEF BookInv, BookTyped
<1>7. Fitting'
  <2>1. \A b \in Appts : b # a /\ Present(b)' => Live(b)
    BY <1>2, <1>4 DEF Present, Live, Coming, At, Idle
  <2> DEFINE self == {a}
  <2>2. self \in SUBSET {a} /\ (~force => ~Conflicts(from, services, self))
    BY <1>3
  <2> HIDE DEF self
  <2> QED
    BY <1>2, <1>3, <1>5, <2>1, <2>2, FittingWrites DEF BookInv, BookTyped
<1>8. Asked(d)'
  BY <1>4, NothingAsked
<1>9. Reminding(d)'
  BY <1>4 DEF Reminding, At, Idle
<1>10. ASSUME NEW b \in Appts PROVE Timed(b)'
  <2>1. Timed(b) /\ \A e \in Desks : ~At(e, {"unschedule"})
    BY <1>2, <1>4 DEF BookInv, At
  <2> QED
    BY <1>2, <2>1 DEF Timed
<1>11. ASSUME NEW b \in Appts PROVE Waits(b)'
  <2>1. Waits(b) /\ (\A e \in Desks : ~Remakes(e, b)) /\ ~Confirms(b)'
    BY <1>2, <1>4 DEF BookInv, Remakes, Confirms, At, Idle
  <2> QED
    BY <1>2, <2>1 DEF Waits
<1> QED
  BY <1>4, <1>6, <1>7, <1>8, <1>9, <1>10, <1>11 DEF BookInv

LEMMA RescheduleKeeps ==
    ASSUME OneDesk, BookInv, NEW d \in Desks, Reschedule(d)
    PROVE  BookInv'
<1>1. PICK a, from, services, force :
          /\ a = request[d].appt /\ from = request[d].from
          /\ services = request[d].services /\ force = request[d].force
  OBVIOUS
<1> DEFINE r == [step |-> "unschedule", appt |-> a, from |-> from, again |-> TRUE]
<1>2. r.step = "unschedule" /\ r.appt = a /\ r.from = from /\ r.again = TRUE
  OBVIOUS
<1>3. /\ request[d].step = "move"
      /\ status' = [status EXCEPT ![a] = "BOOKED"]
      /\ start' = [start EXCEPT ![a] = from]
      /\ lines' = [lines EXCEPT ![a] = BuildLines(from, services)]
      /\ Mark(a, force) /\ Hold(d, r)
      /\ UNCHANGED <<reminder, now, sweeping, torn, revived>>
  BY <1>1 DEF Reschedule, marked
<1> HIDE DEF r
<1>4. /\ from \in Nat /\ Listed(services) /\ force \in BOOLEAN
      /\ a \in Appts /\ (~force => ~Conflicts(from, services, {a}))
  BY <1>1, <1>3 DEF BookInv, Asked, At, FitsBeside
<1>5. request'[d] = r /\ request' = [e \in Desks |-> request'[e]] /\ \A e \in Desks : e = d
  BY <1>3, Wrote DEF BookInv, OneDesk
<1>6. /\ \A b \in Appts : b # a => lines'[b] = lines[b] /\ status'[b] = status[b] /\ start'[b] = start[b]
      /\ lines'[a] = BuildLines(from, services) /\ status'[a] = "BOOKED" /\ start'[a] = from
  BY <1>3, <1>4 DEF BookInv, BookTyped
<1>7. BookTyped'
  <2>1. Laid(BuildLines(from, services))
    BY <1>4, LinesLaid
  <2>2. unchecked' \subseteq Appts
    BY <1>3, <1>4 DEF Mark, BookInv, BookTyped
  <2>3. lines' = [b \in Appts |-> lines'[b]] /\ \A b \in Appts : Laid(lines'[b])
    BY <1>3, <1>6, <2>1 DEF BookInv, BookTyped
  <2> QED
    BY <1>3, <1>4, <1>5, <2>2, <2>3 DEF BookInv, BookTyped, Statuses
<1>8. Fitting'
  <2>1. \A b \in Appts : b # a /\ Present(b)' => Live(b)
    BY <1>2, <1>5, <1>6 DEF Present, Live, Coming, At
  <2> DEFINE self == {a}
  <2>2. self \in SUBSET {a} /\ (~force => ~Conflicts(from, services, self))
    BY <1>4
  <2> HIDE DEF self
  <2> QED
    BY <1>3, <1>4, <1>6, <2>1, <2>2, FittingWrites DEF BookInv, BookTyped
<1>9. Asked(d)'
  BY <1>2, <1>5, NothingAsked
<1>10. Reminding(d)'
  BY <1>2, <1>4, <1>5, <1>6 DEF Reminding, At
<1>11. ASSUME NEW b \in Appts PROVE Timed(b)'
  <2>1. Timed(b) /\ \A e \in Desks : ~At(e, {"unschedule"})
    BY <1>3, <1>5 DEF BookInv, At
  <2>2. At(d, {"unschedule"})' /\ request'[d].appt = a
    BY <1>2, <1>5 DEF At
  <2>3. CASE b = a
    BY <1>3, <1>6, <2>2, <2>3 DEF Timed
  <2>4. CASE b # a
    BY <1>3, <1>6, <2>1, <2>4 DEF Timed
  <2> QED
    BY <2>3, <2>4
<1>12. ASSUME NEW b \in Appts PROVE Waits(b)'
  <2>1. CASE b = a
    BY <1>2, <1>5, <2>1 DEF Waits, Remakes, At
  <2>2. CASE b # a
    <3>1. Waits(b) /\ (\A e \in Desks : ~Remakes(e, b)) /\ ~Confirms(b)'
      BY <1>2, <1>3, <1>5 DEF BookInv, Remakes, Confirms, At
    <3> QED
      BY <1>3, <1>6, <2>2, <3>1 DEF Waits
  <2> QED
    BY <2>1, <2>2
<1> QED
  BY <1>5, <1>7, <1>8, <1>9, <1>10, <1>11, <1>12 DEF BookInv

LEMMA ChangeStatusKeeps ==
    ASSUME OneDesk, BookInv, NEW d \in Desks, ChangeStatus(d)
    PROVE  BookInv'
<1>1. PICK a, s : a = request[d].appt /\ s = request[d].to
  OBVIOUS
<1> DEFINE r == IF s \in {"CANCELLED", "NO_SHOW"}
                 THEN [step |-> "unschedule", appt |-> a, from |-> 0, again |-> FALSE] ELSE Idle
<1>2. r = Idle \/ (r.step = "unschedule" /\ r.appt = a /\ r.again = FALSE /\ s \in {"CANCELLED", "NO_SHOW"})
  OBVIOUS
<1>3. /\ request[d].step = "status"
      /\ status' = [status EXCEPT ![a] = s]
      /\ unchecked' = IF s = "BOOKED" THEN unchecked \cup {a} ELSE unchecked
      /\ Hold(d, r)
      /\ revived' = IF s = "BOOKED" THEN revived \cup {a} ELSE revived
      /\ UNCHANGED <<start, lines, reminder, now, sweeping, torn>>
  BY <1>1 DEF ChangeStatus
<1> HIDE DEF r
<1>4. a \in Appts /\ s \in Statuses /\ status[a] # "NONE"
  BY <1>1, <1>3 DEF BookInv, Asked, At
<1>5. request'[d] = r /\ request' = [e \in Desks |-> request'[e]] /\ \A e \in Desks : e = d
  BY <1>3, Wrote DEF BookInv, OneDesk
<1>6. status'[a] = s /\ \A b \in Appts : b # a => status'[b] = status[b]
  BY <1>3, <1>4 DEF BookInv, BookTyped
<1>7. BookTyped'
  BY <1>3, <1>4, <1>5 DEF BookInv, BookTyped
<1>8. Fitting'
  <2>1. unchecked \subseteq unchecked' /\ lines' = lines
    BY <1>3
  <2>2. ASSUME NEW b \in Appts, b \notin unchecked', Present(b)' PROVE Present(b)
    <3>1. Live(b)'
      BY <1>2, <1>5, <2>2 DEF Present, Coming, At, Idle
    <3>2. CASE b # a
      BY <1>6, <3>1, <3>2 DEF Present, Live
    <3>3. CASE b = a
      <4>1. s \in Occupying /\ s # "BOOKED"
        BY <1>3, <1>6, <2>2, <3>1, <3>3 DEF Live
      <4> QED
        BY <1>1, <1>3, <3>3, <4>1 DEF Present, Coming, At
    <3> QED
      BY <3>2, <3>3
  <2> QED
    BY <2>1, <2>2, FittingShrinks DEF BookInv
<1>9. Asked(d)'
  BY <1>2, <1>5, NothingAsked
<1>10. Reminding(d)'
  <2>1. status'[a] # "NONE"
    BY <1>4, <1>6 DEF Statuses
  <2>2. CASE r = Idle
    BY <1>5, <2>2 DEF Reminding, At, Idle
  <2>3. CASE r.step = "unschedule" /\ r.appt = a /\ r.again = FALSE /\ s \in {"CANCELLED", "NO_SHOW"}
    <3>1. ~At(d, {"schedule"})' /\ request'[d].appt \in Appts /\ status'[request'[d].appt] # "NONE"
      BY <1>4, <1>5, <2>1, <2>3 DEF At
    <3>2. request'[d].again = FALSE /\ status'[request'[d].appt] \notin Ahead
      BY <1>5, <1>6, <2>3 DEF Ahead
    <3> QED
      BY <3>1, <3>2 DEF Reminding
  <2> QED
    BY <1>2, <2>2, <2>3
<1>11. ASSUME NEW b \in Appts PROVE Timed(b)'
  <2>1. Timed(b) /\ \A e \in Desks : ~At(e, {"unschedule"})
    BY <1>3, <1>5 DEF BookInv, At
  <2>2. status'[b] = "NONE" => status[b] = "NONE"
    BY <1>4, <1>6 DEF Statuses
  <2> QED
    BY <1>3, <2>1, <2>2 DEF Timed
<1>12. ASSUME NEW b \in Appts PROVE Waits(b)'
  <2>1. Waits(b) /\ (\A e \in Desks : ~Remakes(e, b)) /\ ~Confirms(b)'
    BY <1>2, <1>3, <1>5 DEF BookInv, Remakes, Confirms, At, Idle
  <2>2. CASE b # a
    BY <1>3, <1>6, <2>1, <2>2 DEF Waits
  <2>3. CASE b = a /\ s = "BOOKED"
    BY <1>3, <2>3 DEF Waits
  <2>4. CASE b = a /\ s = "CONFIRMED"
    <3>1. Confirms(b)
      BY <1>1, <1>3, <2>4 DEF Confirms, At
    <3> QED
      BY <1>3, <2>1, <2>4, <3>1 DEF Waits
  <2>5. CASE b = a /\ s \notin Ahead
    BY <1>6, <2>1, <2>5 DEF Waits
  <2> QED
    BY <2>2, <2>3, <2>4, <2>5 DEF Ahead
<1> QED
  BY <1>5, <1>7, <1>8, <1>9, <1>10, <1>11, <1>12 DEF BookInv

\* A bill takes its appointment off the books; a void puts it back unchecked.
LEMMA PaperKeeps ==
    ASSUME OneDesk, BookInv, NEW d \in Desks, Bill(d) \/ Void(d)
    PROVE  BookInv'
<1>1. PICK a : a = request[d].appt
  OBVIOUS
<1>2. a \in Appts
  BY <1>1 DEF Bill, Void, BookInv, Asked, At
<1>3. /\ \/ UNCHANGED <<bill, status, unchecked>>
         \/ /\ bill' = [bill EXCEPT ![a] = "stands"] /\ unchecked' = unchecked
            /\ status' = [status EXCEPT ![a] = "COMPLETED"]
         \/ /\ bill' = [bill EXCEPT ![a] = "void"] /\ unchecked' = unchecked \cup {a}
            /\ status' = [status EXCEPT ![a] = "CHECKED_IN"]
      /\ Hold(d, Idle)
      /\ UNCHANGED <<start, lines, reminder, now, sweeping, torn, revived>>
  BY <1>1 DEF Bill, Void, marked
<1>4. request[d].step \in {"bill", "void"}
  BY DEF Bill, Void
<1>5. request'[d] = Idle /\ request' = [e \in Desks |-> request'[e]] /\ \A e \in Desks : e = d
  BY <1>3, Wrote DEF BookInv, OneDesk
<1>6. /\ status' \in [Appts -> Statuses \cup {"NONE"}]
      /\ \A b \in Appts : b # a => status'[b] = status[b]
      /\ status'[a] = "NONE" => status[a] = "NONE"
      /\ a \in unchecked' \/ status'[a] = status[a] \/ status'[a] = "COMPLETED"
      /\ unchecked \subseteq unchecked' /\ unchecked' \subseteq Appts
  BY <1>2, <1>3 DEF BookInv, BookTyped, Statuses
<1>7. BookTyped'
  BY <1>3, <1>5, <1>6 DEF BookInv, BookTyped
<1>8. Fitting'
  <2>1. ASSUME NEW b \in Appts, b \notin unchecked', Present(b)' PROVE Present(b)
    <3>1. Live(b)'
      BY <1>5, <2>1 DEF Present, Coming, At, Idle
    <3> QED
      BY <1>6, <2>1, <3>1 DEF Present, Live, Occupying
  <2> QED
    BY <1>3, <1>6, <2>1, FittingShrinks DEF BookInv
<1>9. Asked(d)'
  BY <1>5, NothingAsked
<1>10. Reminding(d)'
  BY <1>5 DEF Reminding, At, Idle
<1>11. ASSUME NEW b \in Appts PROVE Timed(b)'
  <2>1. Timed(b) /\ \A e \in Desks : ~At(e, {"unschedule"})
    BY <1>4, <1>5 DEF BookInv, At
  <2>2. status'[b] = "NONE" => status[b] = "NONE"
    BY <1>6
  <2> QED
    BY <1>3, <2>1, <2>2 DEF Timed
<1>12. ASSUME NEW b \in Appts PROVE Waits(b)'
  <2>1. Waits(b) /\ (\A e \in Desks : ~Remakes(e, b)) /\ ~Confirms(b)'
    BY <1>4, <1>5 DEF BookInv, Remakes, Confirms, At, Idle
  <2>2. status'[b] \in Ahead => status'[b] = status[b]
    BY <1>2, <1>3 DEF Ahead, BookInv, BookTyped
  <2> QED
    BY <1>3, <2>1, <2>2 DEF Waits
<1> QED
  BY <1>5, <1>7, <1>8, <1>9, <1>10, <1>11, <1>12 DEF BookInv

\* What is at the reminders, or over, can be followed by anything of the same kind:
\* neither the diary nor what is asked of it changes.
LEMMA FittingStays ==
    ASSUME OneDesk, BookInv, NEW d \in Desks, NEW r, request'[d] = r,
           r = Idle \/ r.step \in {"schedule", "unschedule"},
           UNCHANGED <<status, lines, unchecked>>
    PROVE  Fitting'
<1>1. \A a \in Appts : Present(a)' => Present(a)
  BY DEF Present, Live, Coming, At, Idle, OneDesk
<1> QED
  BY <1>1, FittingShrinks DEF BookInv

LEMMA CancelReminderKeeps ==
    ASSUME OneDesk, BookInv, NEW d \in Desks, CancelReminder(d)
    PROVE  BookInv'
<1>1. PICK a, from, again : a = request[d].appt /\ from = request[d].from /\ again = request[d].again
  OBVIOUS
<1> DEFINE r == IF again THEN [step |-> "schedule", appt |-> a, from |-> from] ELSE Idle
<1>2. (again /\ r.step = "schedule" /\ r.appt = a /\ r.from = from) \/ (~again /\ r = Idle)
  OBVIOUS
<1>3. /\ request[d].step = "unschedule"
      /\ reminder' = [reminder EXCEPT ![a].row = IF @ = "PENDING" THEN "NONE" ELSE @]
      /\ Hold(d, r)
      /\ UNCHANGED <<status, start, lines, unchecked, now, sweeping, torn, revived>>
  BY <1>1 DEF CancelReminder, diary, marked
<1> HIDE DEF r
<1>4. /\ a \in Appts /\ status[a] # "NONE" /\ again \in BOOLEAN
      /\ IF again THEN from = start[a] ELSE status[a] \notin Ahead
  BY <1>1, <1>3 DEF BookInv, Reminding, At
<1>5. request'[d] = r /\ request' = [e \in Desks |-> request'[e]] /\ \A e \in Desks : e = d
  BY <1>3, Wrote DEF BookInv, OneDesk
<1>6. /\ reminder' \in [Appts -> [row : {"NONE", "PENDING", "DONE"}, due : Nat]]
      /\ reminder'[a].row # "PENDING"
      /\ \A b \in Appts : b # a => reminder'[b] = reminder[b]
  BY <1>3, <1>4 DEF BookInv, BookTyped
<1>7. BookTyped'
  BY <1>3, <1>5, <1>6 DEF BookInv, BookTyped
<1>8. Fitting'
  BY <1>2, <1>3, <1>5, FittingStays
<1>9. Asked(d)'
  BY <1>2, <1>5, NothingAsked
<1>10. Reminding(d)'
  <2>1. CASE r = Idle
    BY <1>5, <2>1 DEF Reminding, At, Idle
  <2>2. CASE again /\ r.step = "schedule" /\ r.appt = a /\ r.from = from
    <3>1. from \in Nat /\ from = start[a]
      BY <1>4, <2>2 DEF BookInv, BookTyped
    <3> QED
      BY <1>3, <1>4, <1>5, <1>6, <2>2, <3>1 DEF Reminding, At
  <2> QED
    BY <1>2, <2>1, <2>2
<1>11. ASSUME NEW b \in Appts PROVE Timed(b)'
  <2>1. CASE b = a
    BY <1>3, <1>4, <1>6, <2>1 DEF Timed
  <2>2. CASE b # a
    <3>1. Timed(b) /\ \A e \in Desks : request[e].appt # b
      BY <1>1, <1>5, <2>2 DEF BookInv
    <3> QED
      BY <1>3, <1>6, <2>2, <3>1 DEF Timed
  <2> QED
    BY <2>1, <2>2
<1>12. ASSUME NEW b \in Appts PROVE Waits(b)'
  <2>1. ~Confirms(b)'
    BY <1>2, <1>5 DEF Confirms, At, Idle
  <2>2. CASE b = a /\ again
    BY <1>2, <1>5, <2>2 DEF Waits, Remakes, At
  <2>3. CASE b = a /\ ~again
    BY <1>3, <1>4, <2>1, <2>3 DEF Waits
  <2>4. CASE b # a
    <3>1. Waits(b) /\ \A e \in Desks : ~Remakes(e, b)
      BY <1>1, <1>5, <2>4 DEF BookInv, Remakes
    <3> QED
      BY <1>3, <1>6, <2>1, <2>4, <3>1 DEF Waits
  <2> QED
    BY <1>4, <2>2, <2>3, <2>4
<1> QED
  BY <1>5, <1>7, <1>8, <1>9, <1>10, <1>11, <1>12 DEF BookInv

LEMMA ScheduleReminderKeeps ==
    ASSUME OneDesk, BookInv, NEW d \in Desks, ScheduleReminder(d)
    PROVE  BookInv'
<1>1. PICK a, from : a = request[d].appt /\ from = request[d].from
  OBVIOUS
<1>2. /\ request[d].step = "schedule" /\ Hold(d, Idle)
      /\ reminder' = IF from > now + 1 /\ reminder[a].row = "NONE"
                       THEN [reminder EXCEPT ![a] = [row |-> "PENDING", due |-> from - 1]]
                       ELSE reminder
      /\ UNCHANGED <<status, start, lines, unchecked, now, sweeping, torn, revived>>
  BY <1>1 DEF ScheduleReminder, diary, marked
<1>3. /\ a \in Appts /\ status[a] # "NONE" /\ from \in Nat /\ start[a] = from
      /\ reminder[a].row # "PENDING"
  BY <1>1, <1>2 DEF BookInv, Reminding, At
<1>4. request'[d] = Idle /\ request' = [e \in Desks |-> request'[e]] /\ \A e \in Desks : e = d
  BY <1>2, Wrote DEF BookInv, OneDesk
<1>5. /\ reminder' \in [Appts -> [row : {"NONE", "PENDING", "DONE"}, due : Nat]]
      /\ reminder'[a].row = "PENDING" => reminder'[a].due + 1 = from
      /\ from > now + 1 => reminder'[a].row # "NONE"
      /\ \A b \in Appts : b # a => reminder'[b] = reminder[b]
  <2>1. CASE from > now + 1 /\ reminder[a].row = "NONE"
    <3>1. from - 1 \in Nat /\ (from - 1) + 1 = from
      BY <1>3, <2>1 DEF BookInv, BookTyped
    <3>2. reminder' = [reminder EXCEPT ![a] = [row |-> "PENDING", due |-> from - 1]]
      BY <1>2, <2>1
    <3> QED
      BY <1>3, <3>1, <3>2 DEF BookInv, BookTyped
  <2>2. CASE ~(from > now + 1 /\ reminder[a].row = "NONE")
    BY <1>2, <1>3, <2>2 DEF BookInv, BookTyped
  <2> QED
    BY <2>1, <2>2
<1>6. BookTyped'
  BY <1>2, <1>4, <1>5 DEF BookInv, BookTyped
<1>7. Fitting'
  BY <1>2, <1>4, FittingStays
<1>8. Asked(d)'
  BY <1>4, NothingAsked
<1>9. Reminding(d)'
  BY <1>4 DEF Reminding, At, Idle
<1>10. ASSUME NEW b \in Appts PROVE Timed(b)'
  <2>1. Timed(b) /\ \A e \in Desks : ~At(e, {"unschedule"})
    BY <1>2, <1>4 DEF BookInv, At
  <2>2. CASE b = a
    BY <1>2, <1>3, <1>5, <2>2 DEF Timed
  <2>3. CASE b # a
    BY <1>2, <1>5, <2>1, <2>3 DEF Timed
  <2> QED
    BY <2>2, <2>3
<1>11. ASSUME NEW b \in Appts PROVE Waits(b)'
  <2>1. ~Confirms(b)'
    BY <1>4 DEF Confirms, At, Idle
  <2>2. CASE b = a
    BY <1>2, <1>3, <1>5, <2>2 DEF Waits
  <2>3. CASE b # a
    <3>1. Waits(b) /\ \A e \in Desks : ~Remakes(e, b)
      BY <1>1, <1>4, <2>3 DEF BookInv, Remakes
    <3> QED
      BY <1>2, <1>5, <2>1, <2>3, <3>1 DEF Waits
  <2> QED
    BY <2>2, <2>3
<1> QED
  BY <1>4, <1>6, <1>7, <1>8, <1>9, <1>10, <1>11 DEF BookInv

LEMMA CrashKeeps ==
    ASSUME OneDesk, BookInv, NEW d \in Desks, Crash(d)
    PROVE  BookInv'
<1>1. /\ Hold(d, Idle)
      /\ torn' = IF request[d].step \in {"unschedule", "schedule"}
                   THEN torn \cup {request[d].appt} ELSE torn
      /\ UNCHANGED <<status, start, lines, unchecked, reminder, now, sweeping, revived>>
  BY DEF Crash, diary
<1>2. request'[d] = Idle /\ request' = [e \in Desks |-> request'[e]] /\ \A e \in Desks : e = d
  BY <1>1, Wrote DEF BookInv, OneDesk
<1>3. torn' \subseteq Appts
  BY <1>1 DEF BookInv, BookTyped, Reminding, At
<1>4. BookTyped'
  BY <1>1, <1>2, <1>3 DEF BookInv, BookTyped
<1>5. Fitting'
  BY <1>1, <1>2, FittingStays
<1>6. Asked(d)'
  BY <1>2, NothingAsked
<1>7. Reminding(d)'
  BY <1>2 DEF Reminding, At, Idle
<1>8. ASSUME NEW b \in Appts PROVE Timed(b)'
  <2>1. Timed(b)
    BY DEF BookInv
  <2>2. b \notin torn' => b \notin torn /\ \A e \in Desks : ~(At(e, {"unschedule"}) /\ request[e].appt = b)
    BY <1>1, <1>2 DEF At
  <2> QED
    BY <1>1, <2>1, <2>2 DEF Timed
<1>9. ASSUME NEW b \in Appts PROVE Waits(b)'
  <2>1. Waits(b) /\ ~Confirms(b)'
    BY <1>2 DEF BookInv, Confirms, At, Idle
  <2>2. b \notin torn' => b \notin torn /\ \A e \in Desks : ~Remakes(e, b)
    BY <1>1, <1>2 DEF Remakes, At
  <2> QED
    BY <1>1, <2>1, <2>2 DEF Waits
<1> QED
  BY <1>2, <1>4, <1>5, <1>6, <1>7, <1>8, <1>9 DEF BookInv
-----------------------------------------------------------------------------
(* The clock, the jobs and the sweep *)

\* What a request is about to write stays as good when appointments only leave.
LEMMA AskedStays ==
    ASSUME NEW d \in Desks, Asked(d), request' = request, lines' = lines,
           \A a \in Appts : status'[a] \in Occupying => status[a] \in Occupying,
           \A a \in Appts : status[a] # "NONE" => status'[a] # "NONE"
    PROVE  Asked(d)'
<1>1. PICK a, from, services :
          a = request[d].appt /\ from = request[d].from /\ services = request[d].services
  OBVIOUS
<1>2. FitsAlone(d) => FitsAlone(d)'
  <2> DEFINE self == {}
  <2>1. self \in SUBSET Appts
    OBVIOUS
  <2> HIDE DEF self
  <2>2. Conflicts(from, services, self)' => Conflicts(from, services, self)
    BY <2>1, ConflictsShrink
  <2> QED
    BY <1>1, <2>2 DEF FitsAlone, self
<1>3. a \in Appts /\ FitsBeside(d) => FitsBeside(d)'
  <2> SUFFICES ASSUME a \in Appts PROVE FitsBeside(d) => FitsBeside(d)'
    OBVIOUS
  <2> DEFINE self == {a}
  <2>1. self \in SUBSET Appts
    OBVIOUS
  <2> HIDE DEF self
  <2>2. Conflicts(from, services, self)' => Conflicts(from, services, self)
    BY <2>1, ConflictsShrink
  <2> QED
    BY <1>1, <2>2 DEF FitsBeside, self
<1>4. /\ \A steps : At(d, steps)' <=> At(d, steps)
      /\ At(d, {"status"}) => At(d, {"status", "bill", "void"})
  BY DEF At
<1> QED
  BY <1>1, <1>2, <1>3, <1>4 DEF Asked

LEMMA LeftAlone ==
    ASSUME BookInv,
           UNCHANGED <<status, start, lines, unchecked, reminder, now, sweeping, request, torn, revived>>
    PROVE  BookInv'
<1>1. BookTyped'
  BY DEF BookInv, BookTyped
<1>2. \A d \in Desks : Asked(d)'
  BY AskedStays DEF BookInv
<1>3. \A d \in Desks : Reminding(d)'
  BY DEF BookInv, Reminding, At
<1>4. \A a \in Appts : Timed(a)'
  BY DEF BookInv, Timed, At
<1>5. Fitting'
  <2>1. \A a \in Appts : Present(a)' => Present(a)
    BY DEF Present, Live, Coming, At
  <2> QED
    BY <2>1, FittingShrinks DEF BookInv
<1>6. \A a \in Appts : Waits(a)'
  BY DEF BookInv, BookTyped, Waits, Confirms, Remakes, At
<1> QED
  BY <1>1, <1>2, <1>3, <1>4, <1>5, <1>6 DEF BookInv

LEMMA TickKeeps ==
    ASSUME BookInv, Tick
    PROVE  BookInv'
<1>1. /\ now' = now + 1
      /\ UNCHANGED <<status, start, lines, unchecked, reminder, request, sweeping, torn, revived>>
  BY DEF Tick, diary, marked
<1>2. BookTyped'
  BY <1>1 DEF BookInv, BookTyped
<1>3. \A d \in Desks : Asked(d)'
  BY <1>1, AskedStays DEF BookInv
<1>4. \A d \in Desks : Reminding(d)'
  BY <1>1 DEF BookInv, Reminding, At
<1>5. \A a \in Appts : Timed(a)'
  BY <1>1 DEF BookInv, Timed, At
<1>6. Fitting'
  <2>1. \A a \in Appts : Present(a)' => Present(a)
    BY <1>1 DEF Present, Live, Coming, At
  <2> QED
    BY <1>1, <2>1, FittingShrinks DEF BookInv
<1>7. \A a \in Appts : Waits(a)'
  BY <1>1 DEF BookInv, BookTyped, Waits, Confirms, Remakes, At
<1> QED
  BY <1>2, <1>3, <1>4, <1>5, <1>6, <1>7 DEF BookInv

LEMMA RunReminderKeeps ==
    ASSUME BookInv, NEW a \in Appts, RunReminder(a)
    PROVE  BookInv'
<1>1. /\ reminder[a].row = "PENDING" /\ reminder' = [reminder EXCEPT ![a].row = "DONE"]
      /\ UNCHANGED <<status, start, lines, unchecked, now, request, sweeping, torn, revived>>
  BY DEF RunReminder, diary, marked
<1>2. /\ reminder' \in [Appts -> [row : {"NONE", "PENDING", "DONE"}, due : Nat]]
      /\ reminder'[a].row = "DONE"
      /\ \A b \in Appts : b # a => reminder'[b] = reminder[b]
  BY <1>1 DEF BookInv, BookTyped
<1>3. BookTyped'
  BY <1>1, <1>2 DEF BookInv, BookTyped
<1>4. \A d \in Desks : Asked(d)'
  BY <1>1, AskedStays DEF BookInv
<1>5. \A d \in Desks : Reminding(d)'
  BY <1>1, <1>2 DEF BookInv, Reminding, At
<1>6. ASSUME NEW b \in Appts PROVE Timed(b)'
  <2>1. Timed(b)
    BY DEF BookInv
  <2>2. CASE b = a
    BY <1>1, <1>2, <2>1, <2>2 DEF Timed
  <2>3. CASE b # a
    BY <1>1, <1>2, <2>1, <2>3 DEF Timed, At
  <2> QED
    BY <2>2, <2>3
<1>7. Fitting'
  <2>1. \A b \in Appts : Present(b)' => Present(b)
    BY <1>1 DEF Present, Live, Coming, At
  <2> QED
    BY <1>1, <2>1, FittingShrinks DEF BookInv
<1>8. \A b \in Appts : Waits(b)'
  BY <1>1, <1>2 DEF BookInv, BookTyped, Waits, Confirms, Remakes, At
<1> QED
  BY <1>3, <1>4, <1>5, <1>6, <1>7, <1>8 DEF BookInv

LEMMA DeleteBillKeeps ==
    ASSUME BookInv, NEW a \in Appts, DeleteBill(a)
    PROVE  BookInv'
<1>1. UNCHANGED <<status, start, lines, unchecked, reminder, now, sweeping, request, torn, revived>>
  BY DEF DeleteBill, diary, marked
<1> QED
  BY <1>1, LeftAlone

LEMMA SweepReadsKeeps ==
    ASSUME BookInv, SweepReads
    PROVE  BookInv'
<1>1. /\ sweeping' \subseteq Appts
      /\ UNCHANGED <<status, start, lines, unchecked, reminder, now, request, torn, revived>>
  BY DEF SweepReads, diary, marked
<1>2. BookTyped'
  BY <1>1 DEF BookInv, BookTyped
<1>3. \A d \in Desks : Asked(d)'
  BY <1>1, AskedStays DEF BookInv
<1>4. \A d \in Desks : Reminding(d)'
  BY <1>1 DEF BookInv, Reminding, At
<1>5. \A a \in Appts : Timed(a)'
  BY <1>1 DEF BookInv, Timed, At
<1>6. Fitting'
  <2>1. \A a \in Appts : Present(a)' => Present(a)
    BY <1>1 DEF Present, Live, Coming, At
  <2> QED
    BY <1>1, <2>1, FittingShrinks DEF BookInv
<1>7. \A a \in Appts : Waits(a)'
  BY <1>1 DEF BookInv, BookTyped, Waits, Confirms, Remakes, At
<1> QED
  BY <1>2, <1>3, <1>4, <1>5, <1>6, <1>7 DEF BookInv

\* The sweep only takes appointments away, also from under a request at work.
LEMMA SweepMarksKeeps ==
    ASSUME BookInv, NEW a \in Appts, SweepMarks(a)
    PROVE  BookInv'
<1>1. /\ status' = [status EXCEPT ![a] = "NO_SHOW"] /\ sweeping' \subseteq sweeping
      /\ UNCHANGED <<start, lines, unchecked, reminder, now, request, torn, revived>>
  BY DEF SweepMarks, marked
<1>2. status'[a] = "NO_SHOW" /\ \A b \in Appts : b # a => status'[b] = status[b]
  BY <1>1 DEF BookInv, BookTyped
<1>3. BookTyped'
  BY <1>1 DEF BookInv, BookTyped, Statuses
<1>4. /\ \A b \in Appts : status'[b] \in Occupying => status[b] \in Occupying
      /\ \A b \in Appts : status[b] # "NONE" => status'[b] # "NONE"
  BY <1>2 DEF Occupying
<1>5. \A d \in Desks : Asked(d)'
  BY <1>1, <1>4, AskedStays DEF BookInv
<1>6. \A d \in Desks : Reminding(d)'
  BY <1>1, <1>2 DEF BookInv, Reminding, At, Ahead
<1>7. \A b \in Appts : Timed(b)'
  BY <1>1, <1>2 DEF BookInv, Timed, At
<1>8. Fitting'
  <2>1. \A b \in Appts : Present(b)' => Present(b)
    BY <1>1, <1>4 DEF Present, Live, Coming, At
  <2> QED
    BY <1>1, <2>1, FittingShrinks DEF BookInv
<1>9. \A b \in Appts : Waits(b)'
  BY <1>1, <1>2 DEF BookInv, BookTyped, Waits, Confirms, Remakes, At, Ahead
<1> QED
  BY <1>3, <1>5, <1>6, <1>7, <1>8, <1>9 DEF BookInv
-----------------------------------------------------------------------------
(* The diary *)

LEMMA DiaryStarts == DiaryInit => BookInv
<1> SUFFICES ASSUME DiaryInit PROVE BookInv
  OBVIOUS
<1>1. /\ status = [a \in Appts |-> "NONE"] /\ start = [a \in Appts |-> 0]
      /\ lines = [a \in Appts |-> <<>>]
      /\ reminder = [a \in Appts |-> [row |-> "NONE", due |-> 0]]
      /\ now = 0 /\ request = [d \in Desks |-> Idle]
      /\ sweeping = {} /\ unchecked = {} /\ torn = {} /\ revived = {}
  BY DEF DiaryInit, Init
<1>2. Laid(<<>>)
  BY DEF Laid
<1>3. BookTyped
  BY <1>1, <1>2 DEF BookTyped
<1>4. \A d \in Desks : Asked(d)
  BY <1>1 DEF Asked, At, Idle
<1>5. \A d \in Desks : Reminding(d)
  BY <1>1 DEF Reminding, At, Idle
<1>6. \A a \in Appts : Timed(a)
  BY <1>1 DEF Timed
<1>7. \A a \in Appts : ~Present(a)
  BY <1>1 DEF Present, Live, Coming, At, Idle, Occupying
<1>8. ASSUME NEW t \in Slots PROVE Cardinality(Here(t)) <= Capacity
  <2>1. Here(t) = {}
    BY <1>7 DEF Here
  <2>2. Cardinality(Here(t)) = 0
    BY <2>1, FS_EmptySet
  <2> QED
    BY <2>2, NumbersAssumption
<1>9. Fitting
  BY <1>7, <1>8 DEF Fitting
<1>10. \A a \in Appts : Waits(a)
  BY <1>1 DEF Waits, Confirms, At, Idle, Ahead
<1> QED
  BY <1>3, <1>4, <1>5, <1>6, <1>9, <1>10 DEF BookInv

LEMMA StepKeeps ==
    ASSUME OneDesk, BookInv, Next
    PROVE  BookInv'
<1>1. ASSUME NEW d \in Desks, Asking(d) PROVE BookInv'
  BY <1>1, AskCreateKeeps, AskUpdateKeeps, AskMoveKeeps, AskStatusKeeps,
     AskBillKeeps, AskVoidKeeps DEF Asking
<1>2. ASSUME NEW d \in Desks, Writing(d) PROVE BookInv'
  BY <1>2, CreateKeeps, UpdateKeeps, RescheduleKeeps, ChangeStatusKeeps, PaperKeeps, CancelReminderKeeps,
     ScheduleReminderKeeps DEF Writing
<1>3. CASE Sweep
  BY <1>3, SweepReadsKeeps, SweepMarksKeeps DEF Sweep
<1> QED
  BY <1>1, <1>2, <1>3, CrashKeeps, TickKeeps, RunReminderKeeps, DeleteBillKeeps DEF Next

\* What is left alone stays in order.
LEMMA RestKeeps ==
    ASSUME BookInv, UNCHANGED vars
    PROVE  BookInv'
<1>1. UNCHANGED <<status, start, lines, unchecked, reminder, now, sweeping, request, torn, revived>>
  BY DEF vars, diary, marked
<1> QED
  BY <1>1, LeftAlone

\* With one desk the diary, the requests at work on it and the reminders are in order:
\* what a request is about to write still fits, and so does what it may bring back.
THEOREM DiaryInvariant == OneDesk /\ DiarySpec => []BookInv
<1> SUFFICES ASSUME OneDesk PROVE DiarySpec => []BookInv
  OBVIOUS
<1>1. DiaryInit => BookInv
  BY DiaryStarts
<1>2. BookInv /\ [DiaryNext]_everything => BookInv'
  <2> SUFFICES ASSUME BookInv, [DiaryNext]_everything PROVE BookInv'
    OBVIOUS
  <2>1. Next \/ UNCHANGED vars
    BY DEF DiaryNext, everything
  <2> QED
    BY <2>1, StepKeeps, RestKeeps
<1>3. DiarySpec => DiaryInit /\ [][DiaryNext]_everything
  BY PTL DEF DiarySpec
<1> QED
  BY <1>1, <1>2, <1>3, PTL

\* With one desk, two live appointments that both passed the check never claim one
\* stylist or one room, and no slot holds more appointments than the branch takes
\* (findConflicts, availability.service.ts), whatever is moved, edited, cancelled,
\* swept or brought back between the read and the write.
THEOREM NoDoubleBooking == OneDesk /\ DiarySpec => []CheckedNeverClash
<1>1. BookInv => CheckedNeverClash
  <2> SUFFICES ASSUME BookInv PROVE CheckedNeverClash
    OBVIOUS
  <2>1. \A a, b \in Appts \ unchecked : a # b /\ Live(a) /\ Live(b) => ~Clash(a, b)
    BY DEF BookInv, Fitting, Present
  <2> DEFINE here(t) == {a \in Appts : Live(a) /\ \E l \in Rows(lines[a]) : Covers(l, t)}
  <2>2. ASSUME NEW t \in Slots, here(t) \cap unchecked = {}
        PROVE  Cardinality(here(t)) <= Capacity
    <3>1. here(t) \in SUBSET Here(t) /\ Here(t) \in SUBSET Appts /\ here(t) \in SUBSET Appts
      BY <2>2 DEF Here, Present
    <3>2. Cardinality(Here(t)) <= Capacity
      BY DEF BookInv, Fitting
    <3> HIDE DEF here
    <3>3. Cardinality(here(t)) <= Cardinality(Here(t))
      BY <3>1, HereIsFinite, FS_Subset
    <3>4. Cardinality(here(t)) \in Nat /\ Cardinality(Here(t)) \in Nat
      BY <3>1, HereIsFinite
    <3> QED
      BY <3>2, <3>3, <3>4, NumbersAssumption
  <2> QED
    BY <2>1, <2>2 DEF CheckedNeverClash
<1> QED
  BY <1>1, DiaryInvariant, PTL

\* With one desk a reminder still to go out is timed for the present start of its
\* appointment whenever no request is at work (rescheduleAppointment cancels the old
\* one before it schedules the new one).
THEOREM RemindersFollowMoves == OneDesk /\ DiarySpec => []ReminderMatches
<1>1. BookInv => ReminderMatches
  BY DEF BookInv, Timed, ReminderMatches, At, Idle
<1> QED
  BY <1>1, DiaryInvariant, PTL

\* With one desk an appointment with time before it has its reminder in the queue or
\* behind it whenever no request is at work: the cancellation that follows the write
\* of a move (appointment.service.ts:524-526) never has the last word.
THEOREM ComingAreReminded == OneDesk /\ DiarySpec => []ComingIsReminded
<1>1. BookInv => ComingIsReminded
  BY DEF BookInv, Waits, ComingIsReminded, Remakes, At, Idle, Ahead
<1> QED
  BY <1>1, DiaryInvariant, PTL
-----------------------------------------------------------------------------
(* The day *)

Services == [length : Nat \ {0}, buffer : Nat]

\* g runs up from t by the steps e.
Runs(g, n, t, e) ==
    g \in [0..n -> Nat] /\ g[0] = t /\ \A i \in 1..n : g[i] = g[i - 1] + e[i]

LEMMA RunExists ==
  ASSUME NEW n \in Nat, NEW t \in Nat, NEW e, \A i \in 1..n : e[i] \in Nat
  PROVE  \E g : Runs(g, n, t, e)
<1> DEFINE upTo(m) == \E g : Runs(g, m, t, e)
           bad == {m \in 0..n : ~upTo(m)}
<1>1. SUFFICES ASSUME bad # {} PROVE FALSE
  <2>1. n \in 0..n
    OBVIOUS
  <2> QED
    BY <2>1
<1>2. PICK m \in bad : \A j \in bad : m <= j
  <2>1. bad \in SUBSET Nat
    OBVIOUS
  <2> HIDE DEF bad
  <2> QED
    BY <1>1, <2>1, Least
<1>3. m # 0
  <2>1. Runs([i \in 0..0 |-> t], 0, t, e)
    BY DEF Runs
  <2> QED
    BY <2>1
<1>4. m - 1 \in 0..n /\ m \in 1..n
  BY <1>2, <1>3
<1>5. upTo(m - 1)
  BY <1>2, <1>4
<1>6. PICK g : Runs(g, m - 1, t, e)
  BY <1>5
<1>7. g[m - 1] \in Nat /\ e[m] \in Nat
  BY <1>4, <1>6 DEF Runs
<1>8. PICK v \in Nat : v = g[m - 1] + e[m]
  BY <1>7
<1> DEFINE h == [i \in 0..m |-> IF i = m THEN v ELSE g[i]]
<1>9. \A i \in 0..m - 1 : h[i] = g[i]
  BY <1>4
<1>10. h[m] = v /\ h \in [0..m -> Nat]
  BY <1>4, <1>6 DEF Runs
<1> HIDE DEF h
<1>11. h[0] = t
  BY <1>4, <1>6, <1>9 DEF Runs
<1>12. ASSUME NEW i \in 1..m PROVE h[i] = h[i - 1] + e[i]
  <2>1. i - 1 \in 0..m - 1
    BY <1>4
  <2>2. CASE i = m
    BY <1>8, <1>9, <1>10, <2>1, <2>2
  <2>3. CASE i # m
    <3>1. i \in 0..m - 1 /\ i \in 1..m - 1
      BY <1>4, <2>3
    <3> QED
      BY <1>6, <1>9, <2>1, <3>1 DEF Runs
  <2> QED
    BY <2>2, <2>3
<1>13. upTo(m)
  BY <1>10, <1>11, <1>12 DEF Runs
<1> QED
  BY <1>2, <1>13

\* There is one such run, whatever else is known of the other.
LEMMA RunsAgree ==
  ASSUME NEW n \in Nat, NEW t \in Nat, NEW e, NEW f, NEW g, Runs(f, n, t, e),
         g[0] = t, \A i \in 1..n : g[i] = g[i - 1] + e[i]
  PROVE  \A i \in 0..n : g[i] = f[i]
<1> DEFINE bad == {i \in 0..n : g[i] # f[i]}
<1>1. SUFFICES ASSUME bad # {} PROVE FALSE
  OBVIOUS
<1>2. PICK m \in bad : \A j \in bad : m <= j
  <2>1. bad \in SUBSET Nat
    OBVIOUS
  <2> HIDE DEF bad
  <2> QED
    BY <1>1, <2>1, Least
<1>3. m # 0
  BY <1>2 DEF Runs
<1>4. m - 1 \in 0..n /\ m \in 1..n
  BY <1>2, <1>3
<1>5. g[m - 1] = f[m - 1]
  BY <1>2, <1>4
<1> QED
  BY <1>2, <1>4, <1>5 DEF Runs

\* It never falls.
LEMMA RunRises ==
  ASSUME NEW n \in Nat, NEW t \in Nat, NEW e, \A i \in 1..n : e[i] \in Nat,
         NEW g, Runs(g, n, t, e)
  PROVE  \A i \in 0..n : t <= g[i] /\ g[i] <= g[n]
<1>1. \A i \in 0..n : g[i] \in Nat
  BY DEF Runs
<1>2. ASSUME NEW i \in 1..n PROVE g[i - 1] <= g[i]
  <2>1. i - 1 \in 0..n
    OBVIOUS
  <2>2. g[i - 1] \in Nat /\ e[i] \in Nat /\ g[i] = g[i - 1] + e[i]
    BY <1>1, <2>1 DEF Runs
  <2> QED
    BY <2>2
<1>3. \A i \in 0..n : t <= g[i]
  <2> DEFINE bad == {i \in 0..n : ~(t <= g[i])}
  <2>1. SUFFICES ASSUME bad # {} PROVE FALSE
    OBVIOUS
  <2>2. PICK m \in bad : \A j \in bad : m <= j
    <3>1. bad \in SUBSET Nat
      OBVIOUS
    <3> HIDE DEF bad
    <3> QED
      BY <2>1, <3>1, Least
  <2>3. m # 0
    BY <2>2 DEF Runs
  <2>4. m - 1 \in 0..n /\ m \in 1..n
    BY <2>2, <2>3
  <2>5. t <= g[m - 1]
    BY <2>2, <2>4
  <2> QED
    BY <1>1, <1>2, <2>2, <2>4, <2>5
<1>4. \A i \in 0..n : g[i] <= g[n]
  <2> DEFINE bad == {i \in 0..n : ~(g[i] <= g[n])}
  <2>1. SUFFICES ASSUME bad # {} PROVE FALSE
    OBVIOUS
  <2>2. PICK m \in bad : \A j \in bad : j <= m
    <3>1. bad \in SUBSET Nat /\ \A j \in bad : j <= n
      OBVIOUS
    <3> HIDE DEF bad
    <3> QED
      BY <2>1, <3>1, Greatest
  <2>3. m # n
    BY <1>1, <2>2
  <2>4. m + 1 \in 0..n /\ m + 1 \in 1..n /\ (m + 1) - 1 = m
    BY <2>2, <2>3
  <2>5. g[m + 1] <= g[n] /\ g[m] <= g[m + 1]
    <3>1. m + 1 \notin bad
      BY <2>2, <2>4
    <3> QED
      BY <1>2, <2>4, <3>1
  <2> QED
    BY <1>1, <2>2, <2>4, <2>5
<1> QED
  BY <1>3, <1>4
-----------------------------------------------------------------------------
(* Length and BuildLines *)

Lengths(asked) == [i \in 1..Len(asked) |-> asked[i].length]
Strides(asked) == [i \in 1..Len(asked) |-> asked[i].length + asked[i].buffer]

LEMMA LengthSums ==
  ASSUME NEW asked \in Seq(Services)
  PROVE  \E g : Runs(g, Len(asked), 0, Lengths(asked)) /\ D!Length(asked) = g[Len(asked)]
<1> DEFINE n == Len(asked)
           e == Lengths(asked)
<1>1. n \in Nat /\ \A i \in 1..n : e[i] \in Nat /\ e[i] = asked[i].length
  <2>1. \A i \in 1..n : asked[i] \in Services
    OBVIOUS
  <2>2. \A i \in 1..n : asked[i].length \in Nat
    BY <2>1 DEF Services
  <2> QED
    BY <2>2 DEF Lengths
<1> HIDE DEF n, e
<1>2. PICK f : Runs(f, n, 0, e)
  BY <1>1, RunExists
<1> DEFINE Total(g) == g = [i \in 0..n |-> IF i = 0 THEN 0 ELSE g[i - 1] + asked[i].length]
           total == CHOOSE g : Total(g)
<1>3. Total(f)
  <2>1. f = [i \in 0..n |-> f[i]]
    BY <1>2 DEF Runs
  <2>2. ASSUME NEW i \in 0..n
        PROVE  f[i] = IF i = 0 THEN 0 ELSE f[i - 1] + asked[i].length
    <3>1. i = 0 \/ i \in 1..n
      BY <1>1
    <3> QED
      BY <1>1, <1>2, <3>1 DEF Runs
  <2> QED
    BY <2>1, <2>2
<1>4. Total(total)
  BY <1>3
<1>5. D!Length(asked) = total[n]
  BY DEF D!Length, n
<1> HIDE DEF total
<1>6. total[0] = 0 /\ \A i \in 1..n : total[i] = total[i - 1] + e[i]
  <2>1. 0 \in 0..n /\ \A i \in 1..n : i \in 0..n /\ i # 0
    BY <1>1
  <2> QED
    BY <1>1, <1>4, <2>1
<1>7. \A i \in 0..n : total[i] = f[i]
  BY <1>1, <1>2, <1>6, RunsAgree
<1>8. total[n] = f[n]
  BY <1>1, <1>7
<1> QED
  BY <1>2, <1>5, <1>8 DEF n, e

LEMMA LinesFollow ==
  ASSUME NEW s, NEW asked \in Seq(Services) \ {<<>>}, NEW t \in Nat
  PROVE  \E g : /\ Runs(g, Len(asked), t, Strides(asked))
                /\ D!BuildLines(s, asked, t) =
                     [i \in 1..Len(asked) |->
                        [staff |-> s, from |-> g[i - 1], until |-> g[i - 1] + asked[i].length,
                         buffer |-> asked[i].buffer]]
<1> DEFINE n == Len(asked)
           e == Strides(asked)
<1>1. /\ n \in Nat \ {0} /\ DOMAIN asked = 1..n
      /\ \A i \in 1..n : e[i] \in Nat /\ e[i] = asked[i].length + asked[i].buffer
      /\ \A i \in 1..n : asked[i].length \in Nat /\ asked[i].buffer \in Nat
  <2>1. n \in Nat \ {0} /\ DOMAIN asked = 1..n /\ \A i \in 1..n : asked[i] \in Services
    OBVIOUS
  <2>2. \A i \in 1..n : asked[i].length \in Nat /\ asked[i].buffer \in Nat
    BY <2>1 DEF Services
  <2>3. \A i \in 1..n : e[i] = asked[i].length + asked[i].buffer
    BY DEF Strides
  <2> QED
    BY <2>1, <2>2, <2>3
<1> HIDE DEF n, e
<1>2. PICK f : Runs(f, n, t, e)
  BY <1>1, RunExists
<1> DEFINE Chain(g) == g = [i \in DOMAIN asked |->
                              IF i = 1 THEN t ELSE g[i - 1] + asked[i - 1].length + asked[i - 1].buffer]
           from == CHOOSE g : Chain(g)
<1>3. Chain([i \in 1..n |-> f[i - 1]])
  <2> DEFINE h == [i \in 1..n |-> f[i - 1]]
  <2>1. ASSUME NEW i \in 1..n
        PROVE  h[i] = IF i = 1 THEN t ELSE h[i - 1] + asked[i - 1].length + asked[i - 1].buffer
    <3>1. CASE i = 1
      BY <1>2, <3>1 DEF Runs
    <3>2. CASE i # 1
      <4>1. i - 1 \in 1..n /\ i \in 1..n
        BY <1>1, <3>2
      <4>2. f[i - 1] = f[(i - 1) - 1] + e[i - 1] /\ f[(i - 1) - 1] \in Nat
        <5>1. (i - 1) - 1 \in 0..n
          BY <1>1, <4>1
        <5> QED
          BY <1>2, <4>1, <5>1 DEF Runs
      <4>3. e[i - 1] = asked[i - 1].length + asked[i - 1].buffer
        BY <1>1, <4>1
      <4>4. h[i] = f[i - 1] /\ h[i - 1] = f[(i - 1) - 1]
        BY <4>1
      <4>5. asked[i - 1].length \in Nat /\ asked[i - 1].buffer \in Nat
        BY <1>1, <4>1
      <4> HIDE DEF h
      <4> QED
        BY <3>2, <4>2, <4>3, <4>4, <4>5
    <3> QED
      BY <3>1, <3>2
  <2>2. h = [i \in 1..n |-> h[i]]
    OBVIOUS
  <2> HIDE DEF h
  <2>3. Chain(h)
    BY <1>1, <2>1, <2>2
  <2> QED
    BY <2>3 DEF h
<1>4. Chain(from)
  BY <1>3
<1>5. D!BuildLines(s, asked, t) =
        [i \in DOMAIN asked |->
            [staff |-> s, from |-> from[i], until |-> from[i] + asked[i].length,
             buffer |-> asked[i].buffer]]
  BY DEF D!BuildLines
<1> HIDE DEF from
<1>6. ASSUME NEW i \in 1..n PROVE from[i] = f[i - 1]
  <2> DEFINE bad == {j \in 1..n : from[j] # f[j - 1]}
  <2>1. SUFFICES ASSUME bad # {} PROVE FALSE
    OBVIOUS
  <2>2. PICK m \in bad : \A j \in bad : m <= j
    <3>1. bad \in SUBSET Nat
      OBVIOUS
    <3> HIDE DEF bad
    <3> QED
      BY <2>1, <3>1, Least
  <2>3. m # 1
    <3>1. from[1] = t /\ f[1 - 1] = t
      BY <1>1, <1>2, <1>4 DEF Runs
    <3> QED
      BY <2>2, <3>1
  <2>4. m - 1 \in 1..n /\ m \in 1..n
    BY <1>1, <2>2, <2>3
  <2>5. from[m - 1] = f[(m - 1) - 1]
    BY <2>2, <2>4
  <2>6. from[m] = from[m - 1] + asked[m - 1].length + asked[m - 1].buffer
    BY <1>1, <1>4, <2>3, <2>4
  <2>7. f[m - 1] = f[(m - 1) - 1] + e[m - 1] /\ f[(m - 1) - 1] \in Nat
    <3>1. (m - 1) - 1 \in 0..n
      BY <1>1, <2>4
    <3> QED
      BY <1>2, <2>4, <3>1 DEF Runs
  <2>8. /\ e[m - 1] = asked[m - 1].length + asked[m - 1].buffer
        /\ asked[m - 1].length \in Nat /\ asked[m - 1].buffer \in Nat
    BY <1>1, <2>4
  <2>9. from[m] = f[m - 1]
    BY <2>5, <2>6, <2>7, <2>8
  <2> QED
    BY <2>2, <2>9
<1>7. D!BuildLines(s, asked, t) =
        [i \in 1..n |->
            [staff |-> s, from |-> f[i - 1], until |-> f[i - 1] + asked[i].length,
             buffer |-> asked[i].buffer]]
  BY <1>1, <1>5, <1>6
<1> QED
  BY <1>2, <1>7 DEF n, e

\* The lines of one booking.
Line == [staff : Staff \cup {Nobody}, from : Nat, until : Nat, buffer : Nat]

Whole(ls) ==
    /\ ls \in Seq(Line) /\ ls # <<>>
    /\ \A i \in 1..Len(ls) : ls[i].from < ls[i].until /\ ls[i].staff = ls[1].staff

LEMMA Linked ==
  ASSUME NEW s \in Staff \cup {Nobody}, NEW asked \in Seq(Services) \ {<<>>}, NEW t \in Nat,
         NEW ls, ls = D!BuildLines(s, asked, t)
  PROVE  /\ Whole(ls) /\ Len(ls) = Len(asked)
         /\ \A i \in 1..Len(asked) : ls[i].staff = s /\ ls[i].buffer = asked[i].buffer
         /\ ls[1].from = t /\ ls[1].until = t + asked[1].length
<1>1. PICK g : /\ Runs(g, Len(asked), t, Strides(asked))
               /\ ls = [i \in 1..Len(asked) |->
                        [staff |-> s, from |-> g[i - 1], until |-> g[i - 1] + asked[i].length,
                         buffer |-> asked[i].buffer]]
  BY LinesFollow
<1>2. PICK n \in Nat \ {0} : n = Len(asked)
  OBVIOUS
<1>3. \A i \in 1..n : asked[i] \in Services
  BY <1>2
<1>4. \A i \in 1..n : asked[i].length \in Nat \ {0} /\ asked[i].buffer \in Nat
  BY <1>3 DEF Services
<1>5. \A i \in 1..n : g[i - 1] \in Nat
  <2>1. \A i \in 1..n : i - 1 \in 0..n
    OBVIOUS
  <2> QED
    BY <1>1, <1>2, <2>1 DEF Runs
<1>6. ASSUME NEW i \in 1..n
      PROVE  /\ ls[i] \in Line /\ ls[i].from < ls[i].until /\ ls[i].staff = s
             /\ ls[i].buffer = asked[i].buffer
             /\ ls[i].from = g[i - 1] /\ ls[i].until = g[i - 1] + asked[i].length
  <2>1. ls[i] = [staff |-> s, from |-> g[i - 1], until |-> g[i - 1] + asked[i].length,
                 buffer |-> asked[i].buffer]
    BY <1>1, <1>2
  <2>2. g[i - 1] \in Nat /\ asked[i].length \in Nat \ {0} /\ asked[i].buffer \in Nat
    BY <1>4, <1>5
  <2>3. PICK u \in Nat : u = g[i - 1] + asked[i].length /\ g[i - 1] < u
    BY <2>2
  <2>4. ls[i] = [staff |-> s, from |-> g[i - 1], until |-> u, buffer |-> asked[i].buffer]
    BY <2>1, <2>3
  <2> QED
    BY <2>2, <2>3, <2>4 DEF Line
<1>7. ls \in Seq(Line) /\ Len(ls) = n /\ ls # <<>>
  <2>1. ls \in [1..n -> Line]
    BY <1>1, <1>2, <1>6
  <2> QED
    BY <1>2, <2>1
<1>8. g[1 - 1] = t
  BY <1>1 DEF Runs
<1> QED
  BY <1>2, <1>6, <1>7, <1>8 DEF Whole

\* Without time between them the lines fill the length asked for.
LEMMA Tight ==
  ASSUME NEW s \in Staff \cup {Nobody}, NEW asked \in Seq(Services) \ {<<>>}, NEW t \in Nat,
         \A i \in 1..Len(asked) - 1 : asked[i].buffer = 0,
         NEW ls, ls = D!BuildLines(s, asked, t)
  PROVE  /\ D!Length(asked) \in Nat \ {0}
         /\ \A i \in 1..Len(ls) : t <= ls[i].from /\ ls[i].until <= t + D!Length(asked)
         /\ ls[Len(ls)].until = t + D!Length(asked)
<1>1. PICK g : /\ Runs(g, Len(asked), t, Strides(asked))
               /\ ls = [i \in 1..Len(asked) |->
                        [staff |-> s, from |-> g[i - 1], until |-> g[i - 1] + asked[i].length,
                         buffer |-> asked[i].buffer]]
  <2>1. \E g : /\ Runs(g, Len(asked), t, Strides(asked))
               /\ D!BuildLines(s, asked, t) =
                     [i \in 1..Len(asked) |->
                        [staff |-> s, from |-> g[i - 1], until |-> g[i - 1] + asked[i].length,
                         buffer |-> asked[i].buffer]]
    BY LinesFollow
  <2> QED
    BY <2>1
<1>2. PICK n \in Nat \ {0} : n = Len(asked)
  OBVIOUS
<1>3. PICK f : Runs(f, n, 0, Lengths(asked)) /\ D!Length(asked) = f[n]
  BY <1>2, LengthSums
<1>4. \A i \in 1..n : asked[i].length \in Nat \ {0} /\ Lengths(asked)[i] = asked[i].length
  <2>1. \A i \in 1..n : asked[i] \in Services
    BY <1>2
  <2> QED
    BY <1>2, <2>1 DEF Lengths, Services
<1>5. \A i \in 0..n : f[i] \in Nat /\ f[i] <= f[n] /\ g[i] \in Nat
  <2>1. \A i \in 1..n : Lengths(asked)[i] \in Nat
    BY <1>4
  <2>2. \A i \in 0..n : f[i] <= f[n]
    BY <1>3, <2>1, RunRises
  <2> QED
    BY <1>1, <1>2, <1>3, <2>2 DEF Runs
<1>6. \A i \in 1..n : f[i] = f[i - 1] + asked[i].length
  BY <1>3, <1>4 DEF Runs
<1>7. ASSUME NEW i \in 0..n - 1 PROVE g[i] = t + f[i]
  <2> DEFINE bad == {j \in 0..n - 1 : g[j] # t + f[j]}
  <2>1. SUFFICES ASSUME bad # {} PROVE FALSE
    OBVIOUS
  <2>2. PICK m \in bad : \A j \in bad : m <= j
    <3>1. bad \in SUBSET Nat
      OBVIOUS
    <3> HIDE DEF bad
    <3> QED
      BY <2>1, <3>1, Least
  <2>3. m # 0
    BY <1>1, <1>3, <2>2 DEF Runs
  <2>4. m - 1 \in 0..n - 1 /\ m \in 1..n /\ m \in 1..n - 1 /\ m \in 0..n - 1 /\ m - 1 \in 0..n
    BY <2>2, <2>3
  <2>5. g[m - 1] = t + f[m - 1]
    BY <2>2, <2>4
  <2>6. asked[m].buffer = 0
    BY <1>2, <2>4
  <2>7. Strides(asked)[m] = asked[m].length + asked[m].buffer
    BY <1>2, <2>4 DEF Strides
  <2>8. g[m] = g[m - 1] + Strides(asked)[m]
    BY <1>1, <1>2, <2>4 DEF Runs
  <2>9. asked[m].length \in Nat /\ f[m] = f[m - 1] + asked[m].length /\ f[m - 1] \in Nat
    BY <1>4, <1>5, <1>6, <2>4
  <2>10. g[m] = t + f[m]
    BY <2>5, <2>6, <2>7, <2>8, <2>9
  <2> QED
    BY <2>2, <2>10
<1>8. ASSUME NEW i \in 1..n
      PROVE  t <= ls[i].from /\ ls[i].until = t + f[i] /\ f[i] <= f[n] /\ f[i] \in Nat \ {0}
  <2>1. i - 1 \in 0..n - 1 /\ i - 1 \in 0..n /\ i \in 0..n
    OBVIOUS
  <2>2. ls[i].from = g[i - 1] /\ ls[i].until = g[i - 1] + asked[i].length
    BY <1>1, <1>2
  <2>3. g[i - 1] = t + f[i - 1] /\ f[i] = f[i - 1] + asked[i].length /\ f[i - 1] \in Nat
        /\ f[i] \in Nat /\ f[i] <= f[n]
    BY <1>5, <1>6, <1>7, <2>1
  <2>4. asked[i].length \in Nat \ {0}
    BY <1>4
  <2>5. PICK a, b, c, x, y : /\ a = f[i - 1] /\ b = asked[i].length /\ c = f[i]
                             /\ x = ls[i].from /\ y = ls[i].until
    OBVIOUS
  <2>6. a \in Nat /\ b \in Nat \ {0} /\ c \in Nat
    BY <2>3, <2>4, <2>5
  <2>7. x = t + a /\ y = (t + a) + b /\ c = a + b
    BY <2>2, <2>3, <2>5
  <2>8. t <= x
    BY <2>6, <2>7
  <2>9. y = t + c
    BY <2>6, <2>7
  <2>10. c # 0
    BY <2>6, <2>7
  <2> QED
    BY <2>3, <2>5, <2>6, <2>8, <2>9, <2>10
<1>9. Len(ls) = n
  BY <1>1, <1>2
<1>10. n \in 1..n /\ f[n] \in Nat
  BY <1>2, <1>5
<1>11. \A i \in 1..n : t <= ls[i].from /\ ls[i].until <= t + f[n]
  BY <1>8, <1>10
<1>12. ls[n].until = t + f[n] /\ f[n] \in Nat \ {0}
  BY <1>8, <1>10
<1> QED
  BY <1>3, <1>9, <1>11, <1>12
-----------------------------------------------------------------------------
(* What an appointment spans *)

LEMMA SpanHolds ==
  ASSUME NEW S, S # {}, NEW k \in Nat,
         \A l \in S : l.from \in Nat /\ l.until \in Nat /\ l.until <= k
  PROVE  \E a \in S, b \in S :
            /\ D!SpanOf(S) = [from |-> a.from, until |-> b.until]
            /\ \A l \in S : a.from <= l.from /\ l.until <= b.until
<1> DEFINE froms == {l.from : l \in S}
           untils == {l.until : l \in S}
<1>1. \E m \in froms : \A l \in S : m <= l.from
  <2>1. froms \in SUBSET Nat /\ froms # {} /\ \A l \in S : l.from \in froms
    OBVIOUS
  <2> HIDE DEF froms
  <2>2. PICK m \in froms : \A j \in froms : m <= j
    BY <2>1, Least
  <2> QED
    BY <2>1, <2>2
<1>2. \E m \in untils : \A l \in S : l.until <= m
  <2>1. untils \in SUBSET Nat /\ untils # {} /\ (\A j \in untils : j <= k)
        /\ \A l \in S : l.until \in untils
    OBVIOUS
  <2> HIDE DEF untils
  <2>2. PICK m \in untils : \A j \in untils : j <= m
    BY <2>1, Greatest
  <2> QED
    BY <2>1, <2>2
<1> DEFINE low == CHOOSE t \in froms : \A l \in S : t <= l.from
           high == CHOOSE t \in untils : \A l \in S : l.until <= t
<1>3. low \in froms /\ \A l \in S : low <= l.from
  <2> HIDE DEF froms
  <2> QED
    BY <1>1
<1>4. high \in untils /\ \A l \in S : l.until <= high
  <2> HIDE DEF untils
  <2> QED
    BY <1>2
<1>5. D!SpanOf(S) = [from |-> low, until |-> high]
  BY DEF D!SpanOf
<1> HIDE DEF low, high
<1>6. PICK a \in S, b \in S : a.from = low /\ b.until = high
  BY <1>3, <1>4
<1> QED
  BY <1>3, <1>4, <1>5, <1>6

LEMMA LinesBounded ==
  ASSUME NEW ls, Whole(ls)
  PROVE  \E k \in Nat : \A i \in 1..Len(ls) : /\ ls[i].from \in Nat /\ ls[i].until \in Nat
                                               /\ ls[i].until <= k
<1>1. PICK n \in Nat : n = Len(ls)
  BY DEF Whole
<1>2. \A i \in 1..n : ls[i] \in Line
  BY <1>1 DEF Whole
<1>3. \A i \in 1..n : ls[i].from \in Nat /\ ls[i].until \in Nat
  BY <1>2 DEF Line
<1>4. PICK f : f = [i \in 1..n |-> ls[i].until]
  OBVIOUS
<1>5. \A i \in 1..n : f[i] \in Nat /\ f[i] = ls[i].until
  BY <1>3, <1>4
<1>6. PICK k \in Nat : \A i \in 1..n : f[i] <= k
  BY <1>5, Bounded
<1> QED
  BY <1>1, <1>3, <1>5, <1>6

\* An appointment counts where one of its lines does.
Meets(ls, span) == \E i \in 1..Len(ls) : D!Overlap(ls[i], span)

LEMMA MeetsIsCounted ==
  ASSUME NEW j, Whole(taken[j].lines), NEW span, span.from \in Nat, span.until \in Nat
  PROVE  (D!LinesIn(j, span) # {} /\ D!Overlap(D!SpanOf(D!LinesIn(j, span)), span))
            <=> Meets(taken[j].lines, span)
<1>1. PICK ls : ls = taken[j].lines
  OBVIOUS
<1>2. Whole(ls)
  BY <1>1
<1>3. PICK n \in Nat : n = Len(ls) /\ DOMAIN ls = 1..n
  BY <1>2 DEF Whole
<1>4. PICK S : S = D!LinesIn(j, span)
  OBVIOUS
<1>5. S = {l \in {ls[i] : i \in 1..n} : D!Overlap(l, span)}
  BY <1>1, <1>3, <1>4 DEF D!LinesIn
<1>6. PICK k \in Nat : \A i \in 1..n : /\ ls[i].from \in Nat /\ ls[i].until \in Nat
                                       /\ ls[i].until <= k
  BY <1>2, <1>3, LinesBounded
<1>7. \A l \in S : l.from \in Nat /\ l.until \in Nat /\ l.until <= k /\ D!Overlap(l, span)
  BY <1>5, <1>6
<1>8. ASSUME Meets(ls, span) PROVE S # {} /\ D!Overlap(D!SpanOf(S), span)
  <2>1. S # {}
    BY <1>3, <1>5, <1>8 DEF Meets
  <2>2. PICK a \in S, b \in S :
            /\ D!SpanOf(S) = [from |-> a.from, until |-> b.until]
            /\ \A l \in S : a.from <= l.from /\ l.until <= b.until
    BY <1>7, <2>1, SpanHolds
  <2>3. D!Overlap(a, span) /\ D!Overlap(b, span)
    BY <1>7
  <2>4. a.from < span.until /\ span.from < b.until
    BY <2>3 DEF D!Overlap
  <2> QED
    BY <2>1, <2>2, <2>4 DEF D!Overlap
<1>9. ASSUME S # {} PROVE Meets(ls, span)
  BY <1>3, <1>5, <1>9 DEF Meets
<1> QED
  BY <1>1, <1>4, <1>8, <1>9

-----------------------------------------------------------------------------
(* Offers *)

Bookings == [lines : {ls \in Seq(Line) : Whole(ls)}, how : {"online", "desk", "force"}]

DayTyped == cap \in Nat /\ clock \in Nat /\ taken \in Seq(Bookings)

LEMMA EachWhole ==
  ASSUME DayTyped
  PROVE  /\ Len(taken) \in Nat /\ DOMAIN taken = 1..Len(taken)
         /\ \A k \in 1..Len(taken) : /\ taken[k] \in Bookings /\ Whole(taken[k].lines)
                                     /\ DOMAIN taken[k].lines = 1..Len(taken[k].lines)
<1>1. /\ Len(taken) \in Nat /\ DOMAIN taken = 1..Len(taken)
      /\ \A k \in 1..Len(taken) : taken[k] \in Bookings
  BY DEF DayTyped
<1>2. \A k \in 1..Len(taken) : taken[k].lines \in Seq(Line) /\ Whole(taken[k].lines)
  BY <1>1 DEF Bookings
<1> QED
  BY <1>1, <1>2

\* Who is in at some time of the span.
Crowd(span) == {k \in 1..Len(taken) : Meets(taken[k].lines, span)}

LEMMA TakenIsCrowd ==
  ASSUME DayTyped, NEW span, span.from \in Nat, span.until \in Nat
  PROVE  D!Taken(span) = Cardinality(Crowd(span))
<1>1. \A k \in 1..Len(taken) :
         (D!LinesIn(k, span) # {} /\ D!Overlap(D!SpanOf(D!LinesIn(k, span)), span))
            <=> Meets(taken[k].lines, span)
  BY EachWhole, MeetsIsCounted
<1>2. DOMAIN taken = 1..Len(taken)
  BY EachWhole
<1>3. {k \in DOMAIN taken :
          D!LinesIn(k, span) # {} /\ D!Overlap(D!SpanOf(D!LinesIn(k, span)), span)} = Crowd(span)
  BY <1>1, <1>2 DEF Crowd
<1>4. D!Taken(span) = Cardinality({k \in DOMAIN taken :
          D!LinesIn(k, span) # {} /\ D!Overlap(D!SpanOf(D!LinesIn(k, span)), span)})
  BY DEF D!Taken, D!Cardinality, Cardinality
<1> QED
  BY <1>3, <1>4

\* What a stylist's lines say is busy.
LEMMA LineIsBusy ==
  ASSUME DayTyped, NEW k \in 1..Len(taken), NEW i \in 1..Len(taken[k].lines), NEW l,
         l = taken[k].lines[i], NEW span, D!Overlap(l, span)
  PROVE  [from |-> l.from, until |-> l.until + l.buffer] \in D!Busy(l.staff, span)
<1>1. l \in D!Rows
  BY EachWhole DEF D!Rows
<1>2. l \in D!RowsIn(span)
  BY <1>1 DEF D!RowsIn
<1> QED
  BY <1>2 DEF D!Busy

LEMMA BusyIsKnown ==
  ASSUME DayTyped, NEW s \in Staff, NEW span, NEW b \in D!Busy(s, span)
  PROVE  \/ b \in TimeOff[s] /\ D!Overlap(b, span)
         \/ \E k \in 1..Len(taken) : \E i \in 1..Len(taken[k].lines) :
               /\ taken[k].lines[i].staff = s /\ D!Overlap(taken[k].lines[i], span)
               /\ b = [from |-> taken[k].lines[i].from,
                       until |-> taken[k].lines[i].until + taken[k].lines[i].buffer]
<1>1. CASE b \in TimeOff[s] /\ D!Overlap(b, span)
  BY <1>1
<1>2. CASE ~(b \in TimeOff[s] /\ D!Overlap(b, span))
  <2>1. PICK r \in D!RowsIn(span) : r.staff = s /\ b = [from |-> r.from, until |-> r.until + r.buffer]
    BY <1>2 DEF D!Busy
  <2>2. r \in D!Rows /\ D!Overlap(r, span)
    BY <2>1 DEF D!RowsIn
  <2>3. PICK k \in DOMAIN taken : \E i \in DOMAIN taken[k].lines : r = taken[k].lines[i]
    BY <2>2 DEF D!Rows
  <2>4. k \in 1..Len(taken) /\ DOMAIN taken[k].lines = 1..Len(taken[k].lines)
    BY <2>3, EachWhole
  <2> QED
    BY <2>1, <2>2, <2>3, <2>4
<1> QED
  BY <1>1, <1>2

LEMMA WantedIs ==
  ASSUME NEW asked \in Wanted
  PROVE  asked \in Seq(Services) \ {<<>>} /\ D!Length(asked) \in Nat
<1>1. asked \in Seq(Services) \ {<<>>}
  BY DayAssumption DEF Services
<1>2. PICK g : Runs(g, Len(asked), 0, Lengths(asked)) /\ D!Length(asked) = g[Len(asked)]
  BY <1>1, LengthSums
<1>3. Len(asked) \in Nat /\ Len(asked) \in 0..Len(asked)
  BY <1>1
<1> QED
  BY <1>1, <1>2, <1>3 DEF Runs

\* An offer lies in the hours and in a shift, and nothing of the stylist's day meets it.
LEMMA OfferSays ==
  ASSUME DayTyped, NEW s \in Staff, NEW asked \in Wanted, NEW t \in D!Offered(s, asked),
         NEW until, until = t + D!Length(asked)
  PROVE  /\ t \in Nat /\ until \in Nat
         /\ \E w \in Windows, h \in Shifts[s] :
               /\ w.from <= t /\ h.from <= t /\ until <= w.until /\ until <= h.until
               /\ until <= Midnight /\ until <= D!Ends(w, h)
         /\ \E i \in 1..Len(asked) : \A b \in D!Busy(s, D!WholeDay) :
               ~D!Overlap(b, [from |-> t, until |-> until + asked[i].buffer])
         /\ D!Taken([from |-> t, until |-> until]) < cap
<1>1. D!Length(asked) \in Nat /\ DOMAIN asked = 1..Len(asked)
  BY WantedIs
<1>2. t \in D!Sellable(s, asked)
  BY DEF D!Offered
<1>3. t \in clock + 1 .. Midnight
  BY <1>2 DEF D!Sellable
<1>4. t \in Nat /\ until \in Nat
  BY <1>1, <1>3, DayAssumption DEF DayTyped
<1>5. PICK w \in Windows, h \in Shifts[s] : D!Begins(w, h) <= t /\ until <= D!Ends(w, h)
  BY <1>2 DEF D!Sellable
<1>6. w \in Hours /\ h \in Hours
  BY DayAssumption
<1>7. /\ w.from \in Nat /\ w.until \in Nat /\ h.from \in Nat /\ h.until \in Nat
      /\ w.until <= Midnight
  BY <1>6, DayAssumption DEF Hours
<1>8. w.from <= t /\ h.from <= t /\ until <= w.until /\ until <= h.until /\ until <= Midnight
  <2>1. w.from <= t /\ h.from <= t
    BY <1>4, <1>5, <1>7 DEF D!Begins
  <2>2. until <= w.until /\ until <= h.until
    BY <1>4, <1>5, <1>7 DEF D!Ends
  <2> QED
    BY <1>4, <1>7, <2>1, <2>2, DayAssumption
<1> DEFINE span == [from |-> t, until |-> until]
<1>9. /\ \E b \in {asked[i].buffer : i \in DOMAIN asked} :
            D!Free(D!Busy(s, D!WholeDay), [span EXCEPT !.until = @ + b])
      /\ D!Taken(span) < cap
  BY DEF D!Offered
<1>10. PICK i \in 1..Len(asked) :
          D!Free(D!Busy(s, D!WholeDay), [span EXCEPT !.until = @ + asked[i].buffer])
  BY <1>1, <1>9
<1>11. [span EXCEPT !.until = @ + asked[i].buffer]
          = [from |-> t, until |-> until + asked[i].buffer]
  OBVIOUS
<1>12. \A b \in D!Busy(s, D!WholeDay) :
          ~D!Overlap(b, [from |-> t, until |-> until + asked[i].buffer])
  BY <1>10, <1>11 DEF D!Free
<1> QED
  BY <1>4, <1>5, <1>8, <1>9, <1>12

\* The clock of a day shows no later time than it is.
LEMMA ClockIsBelow ==
  ASSUME NEW u \in Nat
  PROVE  D!Clock(u) \in Nat /\ D!Clock(u) <= u
<1>1. u % Midnight \in 0..Midnight - 1
  BY DayAssumption
<1>2. CASE u < Midnight
  <2>1. u % Midnight = u
    BY <1>2, DayAssumption
  <2> QED
    BY <2>1 DEF D!Clock
<1>3. CASE ~(u < Midnight)
  BY <1>1, <1>3, DayAssumption DEF D!Clock
<1> QED
  BY <1>2, <1>3

LEMMA CrowdIsFinite ==
  ASSUME DayTyped, NEW span
  PROVE  IsFiniteSet(Crowd(span)) /\ Cardinality(Crowd(span)) \in Nat
<1>1. PICK n \in Nat : n = Len(taken)
  BY EachWhole
<1>2. IsFiniteSet(1..n)
  BY FS_Interval
<1>3. Crowd(span) \in SUBSET (1..n)
  BY <1>1 DEF Crowd
<1>4. IsFiniteSet(Crowd(span))
  BY <1>2, <1>3, FS_Subset
<1> QED
  BY <1>4, FS_CardinalityType

\* What meets a span within the day is of the day.
LEMMA BusyAllDay ==
  ASSUME DayTyped, NEW s \in Staff, NEW t \in Nat, NEW until \in Nat, until <= Midnight,
         NEW b \in D!Busy(s, [from |-> t, until |-> until])
  PROVE  b \in D!Busy(s, D!WholeDay) /\ b.from \in Nat /\ b.until \in Nat
<1>1. PICK span : span = [from |-> t, until |-> until]
  OBVIOUS
<1>2. span.from = t /\ span.until = until /\ b \in D!Busy(s, span)
  BY <1>1
<1>3. PICK day : day = D!WholeDay
  OBVIOUS
<1>4. day.from = 0 /\ day.until = Midnight
  BY <1>3 DEF D!WholeDay
<1>5. Midnight \in Nat
  BY DayAssumption
<1>6. \A r : /\ r.from \in Nat /\ r.until \in Nat /\ D!Overlap(r, span)
             => D!Overlap(r, day)
  BY <1>2, <1>4, <1>5 DEF D!Overlap
<1>7. CASE b \in TimeOff[s] /\ D!Overlap(b, span)
  <2>1. b \in Hours
    BY <1>7, DayAssumption
  <2>2. b.from \in Nat /\ b.until \in Nat
    BY <1>5, <2>1 DEF Hours
  <2>3. D!Overlap(b, day)
    BY <1>6, <1>7, <2>2
  <2>4. b \in D!Busy(s, day)
    BY <1>7, <2>3 DEF D!Busy
  <2> QED
    BY <1>3, <2>2, <2>4
<1>8. ASSUME NEW k \in 1..Len(taken), NEW i \in 1..Len(taken[k].lines),
             taken[k].lines[i].staff = s, D!Overlap(taken[k].lines[i], span),
             b = [from |-> taken[k].lines[i].from,
                  until |-> taken[k].lines[i].until + taken[k].lines[i].buffer]
      PROVE  b \in D!Busy(s, day) /\ b.from \in Nat /\ b.until \in Nat
  <2>1. PICK l : l = taken[k].lines[i]
    OBVIOUS
  <2>2. l \in Line
    <3>1. Whole(taken[k].lines)
      BY EachWhole
    <3> QED
      BY <2>1, <3>1 DEF Whole
  <2>3. l.from \in Nat /\ l.until \in Nat /\ l.buffer \in Nat
    BY <2>2 DEF Line
  <2>4. D!Overlap(l, day)
    BY <1>6, <1>8, <2>1, <2>3
  <2>5. [from |-> l.from, until |-> l.until + l.buffer] \in D!Busy(l.staff, day)
    BY <2>1, <2>4, LineIsBusy
  <2>6. b = [from |-> l.from, until |-> l.until + l.buffer] /\ l.staff = s
    BY <1>8, <2>1
  <2>7. b \in D!Busy(s, day)
    BY <2>5, <2>6
  <2>8. b.from = l.from /\ b.until = l.until + l.buffer
    BY <2>6
  <2> QED
    BY <2>3, <2>7, <2>8
<1>9. \/ b \in TimeOff[s] /\ D!Overlap(b, span)
      \/ \E k \in 1..Len(taken) : \E i \in 1..Len(taken[k].lines) :
            /\ taken[k].lines[i].staff = s /\ D!Overlap(taken[k].lines[i], span)
            /\ b = [from |-> taken[k].lines[i].from,
                    until |-> taken[k].lines[i].until + taken[k].lines[i].buffer]
  BY <1>2, BusyIsKnown
<1> QED
  BY <1>3, <1>7, <1>8, <1>9 DEF Hours

\* Where services follow each other without time between them, an offer can be booked.
LEMMA OfferStands ==
  ASSUME DayTyped, NEW s \in Staff, NEW asked \in Wanted,
         \A i \in 1..Len(asked) - 1 : asked[i].buffer = 0, NEW t \in D!Offered(s, asked)
  PROVE  ~D!Conflicts(D!BuildLines(s, asked, t))
<1>1. PICK ls : ls = D!BuildLines(s, asked, t)
  OBVIOUS
<1>2. PICK until : until = t + D!Length(asked)
  OBVIOUS
<1>3. /\ t \in Nat /\ until \in Nat
      /\ \E w \in Windows, h \in Shifts[s] :
            /\ w.from <= t /\ h.from <= t /\ until <= w.until /\ until <= h.until
            /\ until <= Midnight /\ until <= D!Ends(w, h)
      /\ \E i \in 1..Len(asked) : \A b \in D!Busy(s, D!WholeDay) :
            ~D!Overlap(b, [from |-> t, until |-> until + asked[i].buffer])
      /\ D!Taken([from |-> t, until |-> until]) < cap
  BY <1>2, OfferSays
<1>4. asked \in Seq(Services) \ {<<>>} /\ s \in Staff \cup {Nobody}
  BY WantedIs
<1>5. /\ Whole(ls) /\ Len(ls) = Len(asked)
      /\ \A i \in 1..Len(asked) : ls[i].staff = s
      /\ ls[1].from = t
  BY <1>1, <1>3, <1>4, Linked
<1>6. /\ \A i \in 1..Len(ls) : t <= ls[i].from /\ ls[i].until <= until
      /\ ls[Len(ls)].until = until
  BY <1>1, <1>2, <1>3, <1>4, Tight
<1>7. PICK n \in Nat \ {0} : n = Len(ls) /\ DOMAIN ls = 1..n
  BY <1>5 DEF Whole
<1>8. \A i \in 1..n : ls[i].from \in Nat /\ ls[i].until \in Nat
  BY <1>5, <1>7, LinesBounded
<1>9. PICK rows : rows = {ls[i] : i \in DOMAIN ls}
  OBVIOUS
<1>10. \A l \in rows : /\ l.from \in Nat /\ l.until \in Nat /\ l.staff = s
                       /\ t <= l.from /\ l.until <= until
  BY <1>5, <1>6, <1>7, <1>8, <1>9
<1>11. ls[1] \in rows /\ ls[n] \in rows /\ rows # {}
  BY <1>7, <1>9
<1>12. D!SpanOf(rows) = [from |-> t, until |-> until]
  <2>1. PICK a \in rows, b \in rows :
            /\ D!SpanOf(rows) = [from |-> a.from, until |-> b.until]
            /\ \A l \in rows : a.from <= l.from /\ l.until <= b.until
    BY <1>3, <1>10, <1>11, SpanHolds
  <2>2. a.from <= t /\ until <= b.until
    BY <1>5, <1>6, <1>7, <1>11, <2>1
  <2>3. a.from = t /\ b.until = until
    BY <1>3, <1>10, <2>1, <2>2
  <2> QED
    BY <2>1, <2>3
<1>13. PICK w \in Windows, h \in Shifts[s] :
          /\ w.from <= t /\ h.from <= t /\ until <= w.until /\ until <= h.until
          /\ until <= Midnight
  BY <1>3
<1>14. /\ w.from \in Nat /\ w.until \in Nat /\ h.from \in Nat /\ h.until \in Nat
  <2>1. w \in Hours /\ h \in Hours /\ Midnight \in Nat
    BY DayAssumption
  <2> QED
    BY <2>1 DEF Hours
<1>15. ASSUME NEW l \in rows PROVE D!Inside(l, Windows) /\ D!Inside(l, Shifts[s])
  <2>1. l.from \in Nat /\ l.until \in Nat /\ t <= l.from /\ l.until <= until
    BY <1>10
  <2>2. D!Clock(l.until) \in Nat /\ D!Clock(l.until) <= l.until
    BY <2>1, ClockIsBelow
  <2>3. PICK x, y, c \in Nat : x = l.from /\ y = l.until /\ c = D!Clock(l.until)
    BY <2>1, <2>2
  <2>4. t <= x /\ y <= until /\ c <= y
    BY <2>1, <2>2, <2>3
  <2>5. c <= until
    BY <1>3, <2>3, <2>4
  <2>6. x >= w.from /\ x >= h.from
    BY <1>3, <1>13, <1>14, <2>3, <2>4
  <2>7. c <= w.until /\ c <= h.until
    BY <1>3, <1>13, <1>14, <2>3, <2>5
  <2> QED
    BY <2>3, <2>6, <2>7 DEF D!Inside
<1>16. ASSUME NEW l \in rows, NEW b \in D!Busy(s, [from |-> t, until |-> until])
       PROVE  ~D!Overlap(b, l)
  <2>1. b \in D!Busy(s, D!WholeDay) /\ b.from \in Nat /\ b.until \in Nat
    BY <1>3, <1>13, BusyAllDay
  <2>2. PICK i \in 1..Len(asked) :
           ~D!Overlap(b, [from |-> t, until |-> until + asked[i].buffer])
    BY <1>3, <2>1
  <2>3. asked[i].buffer \in Nat
    <3>1. asked[i] \in Services
      BY <1>4
    <3> QED
      BY <3>1 DEF Services
  <2>4. PICK last \in Nat : last = until + asked[i].buffer /\ until <= last
    BY <1>3, <2>3
  <2>5. ~(b.from < last /\ t < b.until)
    BY <2>2, <2>4 DEF D!Overlap
  <2>6. t <= l.from /\ l.until <= until /\ l.from \in Nat /\ l.until \in Nat
    BY <1>10
  <2> QED
    BY <1>3, <2>1, <2>4, <2>5, <2>6 DEF D!Overlap
<1>17. PICK span : span = [from |-> t, until |-> until]
  OBVIOUS
<1>18. /\ D!SpanOf(rows) = span /\ D!Taken(span) < cap
       /\ \A l \in rows : D!Free(D!Busy(l.staff, span), l)
  <2>1. \A l \in rows : D!Free(D!Busy(s, span), l)
    BY <1>16, <1>17 DEF D!Free
  <2> QED
    BY <1>3, <1>10, <1>12, <1>17, <2>1
<1>19. ~(D!Taken(span) >= cap)
  <2>1. D!Taken(span) = Cardinality(Crowd(span))
    BY <1>3, <1>17, TakenIsCrowd
  <2>2. Cardinality(Crowd(span)) \in Nat
    BY CrowdIsFinite
  <2>3. cap \in Nat
    BY DEF DayTyped
  <2> QED
    BY <1>18, <2>1, <2>2, <2>3
<1>20. ~D!Conflicts(ls)
  <2>1. \A l \in rows : /\ D!Inside(l, Windows) /\ D!Inside(l, Shifts[l.staff])
                        /\ D!Free(D!Busy(l.staff, span), l)
    BY <1>10, <1>15, <1>18
  <2> QED
    BY <1>9, <1>18, <1>19, <2>1 DEF D!Conflicts
<1> QED
  BY <1>1, <1>20

-----------------------------------------------------------------------------
(* The day's invariant *)

\* A booking taken from an offer keeps the turnaround of one before it.
Turns(a, b) ==
    D!SameStylist(a, b) /\ b.how = "online" /\ Len(b.lines) = 1 =>
        \A x \in D!Turnaround(a), y \in D!Turnaround(b) : ~D!Overlap(x, y)

Turned == \A j, k \in 1..Len(taken) : j < k => Turns(taken[j], taken[k])

\* Those who were not forced in always had a place, whoever else there was.
Minute(t) == [from |-> t, until |-> t + 1]
Unforced(t) == {k \in Crowd(Minute(t)) : taken[k].how # "force"}

Roomy == \A t \in 0..Midnight : Cardinality(Unforced(t)) <= cap

DayInv == DayTyped /\ Turned /\ Roomy

\* The doors close early enough for the time every service needs after it.
ClosesInTime ==
    \A s \in Staff, asked \in Wanted : \A i \in 1..Len(asked), w \in Windows, h \in Shifts[s] :
        D!Ends(w, h) + asked[i].buffer <= Midnight

LEMMA OfferTurns ==
  ASSUME ClosesInTime, DayTyped, NEW s \in Staff, NEW asked \in Wanted,
         NEW t \in D!Offered(s, asked), NEW ls, ls = D!BuildLines(s, asked, t),
         NEW new, new = [lines |-> ls, how |-> "online"], NEW j \in 1..Len(taken)
  PROVE  Turns(taken[j], new)
<1>1. PICK until : until = t + D!Length(asked)
  OBVIOUS
<1>2. /\ t \in Nat /\ until \in Nat
      /\ \E w \in Windows, h \in Shifts[s] :
            /\ w.from <= t /\ h.from <= t /\ until <= w.until /\ until <= h.until
            /\ until <= Midnight /\ until <= D!Ends(w, h)
      /\ \E i \in 1..Len(asked) : \A b \in D!Busy(s, D!WholeDay) :
            ~D!Overlap(b, [from |-> t, until |-> until + asked[i].buffer])
      /\ D!Taken([from |-> t, until |-> until]) < cap
  BY <1>1, OfferSays
<1>3. asked \in Seq(Services) \ {<<>>} /\ s \in Staff \cup {Nobody}
  BY WantedIs
<1>4. /\ Whole(ls) /\ Len(ls) = Len(asked)
      /\ \A i \in 1..Len(asked) : ls[i].staff = s /\ ls[i].buffer = asked[i].buffer
      /\ ls[1].from = t
  BY <1>2, <1>3, Linked
<1>5. PICK a : a = taken[j] /\ Whole(a.lines) /\ DOMAIN a.lines = 1..Len(a.lines)
  BY EachWhole
<1> SUFFICES ASSUME D!SameStylist(a, new), Len(ls) = 1,
                    NEW x \in D!Turnaround(a), NEW y \in D!Turnaround(new), D!Overlap(x, y)
             PROVE  FALSE
  BY <1>5 DEF Turns
<1>6. Len(asked) = 1 /\ DOMAIN ls = 1..1
  BY <1>4 DEF Whole
<1>7. ls[1].until = until
  <2>1. \A i \in 1..Len(asked) - 1 : asked[i].buffer = 0
    BY <1>6
  <2>2. ls[Len(ls)].until = t + D!Length(asked)
    BY <1>2, <1>3, <2>1, Tight
  <2> QED
    BY <1>1, <2>2
<1>8. PICK buffer \in Nat : buffer = asked[1].buffer
  <2>1. asked[1] \in Services
    BY <1>3
  <2> QED
    BY <2>1 DEF Services
<1>9. PICK last \in Nat : last = until + buffer
  BY <1>2
<1>10. last <= Midnight
  <2>1. PICK w \in Windows, h \in Shifts[s] : until <= D!Ends(w, h)
    BY <1>2
  <2>2. w.until \in Nat /\ h.until \in Nat /\ Midnight \in Nat
    BY DayAssumption DEF Hours
  <2>3. PICK e \in Nat : e = D!Ends(w, h)
    BY <2>2 DEF D!Ends
  <2>4. e + buffer <= Midnight
    BY <1>6, <1>8, <2>3 DEF ClosesInTime
  <2> QED
    BY <1>2, <1>9, <2>1, <2>2, <2>3, <2>4
<1>11. y.from = t /\ y.until = last
  <2>1. y = [from |-> ls[1].from, until |-> ls[1].until + ls[1].buffer]
    BY <1>6 DEF D!Turnaround
  <2>2. ls[1].buffer = buffer
    BY <1>4, <1>6, <1>8
  <2> QED
    BY <1>4, <1>7, <1>9, <2>1, <2>2
<1>12. PICK i \in 1..Len(a.lines) :
          x = [from |-> a.lines[i].from, until |-> a.lines[i].until + a.lines[i].buffer]
  BY <1>5 DEF D!Turnaround
<1>13. PICK l : l = a.lines[i]
  OBVIOUS
<1>14. l \in Line /\ l.from < l.until /\ l.staff = a.lines[1].staff
  BY <1>5, <1>12, <1>13 DEF Whole
<1>15. l.from \in Nat /\ l.until \in Nat /\ l.buffer \in Nat
  BY <1>14 DEF Line
<1>16. l.staff = s
  BY <1>4, <1>6, <1>14 DEF D!SameStylist
<1>17. x.from = l.from
  BY <1>12, <1>13
<1>18. D!Overlap(l, D!WholeDay)
  <2>1. l.from < last
    BY <1>11, <1>17 DEF D!Overlap
  <2>2. Midnight \in Nat
    BY DayAssumption
  <2>3. l.from < Midnight /\ 0 < l.until
    BY <1>9, <1>10, <1>14, <1>15, <2>1, <2>2
  <2> QED
    BY <2>3 DEF D!Overlap, D!WholeDay
<1>19. x \in D!Busy(s, D!WholeDay)
  <2>1. [from |-> l.from, until |-> l.until + l.buffer] \in D!Busy(l.staff, D!WholeDay)
    BY <1>5, <1>12, <1>13, <1>18, LineIsBusy
  <2> QED
    BY <1>12, <1>13, <1>16, <2>1
<1>20. ~D!Overlap(x, [from |-> t, until |-> last])
  BY <1>2, <1>6, <1>8, <1>9, <1>19
<1> QED
  BY <1>11, <1>20 DEF D!Overlap

\* Who is checked in finds a place at every minute of theirs.
LEMMA RoomLeft ==
  ASSUME DayTyped, NEW ls, Whole(ls), ~D!Conflicts(ls), NEW t \in Nat, Meets(ls, Minute(t))
  PROVE  Cardinality(Unforced(t)) < cap
<1>1. PICK n \in Nat : n = Len(ls) /\ DOMAIN ls = 1..n
  BY DEF Whole
<1>2. PICK k \in Nat : \A i \in 1..n : /\ ls[i].from \in Nat /\ ls[i].until \in Nat
                                       /\ ls[i].until <= k
  BY <1>1, LinesBounded
<1>3. PICK i \in 1..n : D!Overlap(ls[i], Minute(t))
  BY <1>1 DEF Meets
<1>4. PICK rows : rows = {ls[m] : m \in DOMAIN ls}
  OBVIOUS
<1>5. ls[i] \in rows /\ rows # {}
  BY <1>1, <1>3, <1>4
<1>6. \A l \in rows : l.from \in Nat /\ l.until \in Nat /\ l.until <= k
  BY <1>1, <1>2, <1>4
<1>7. PICK a \in rows, b \in rows :
            /\ D!SpanOf(rows) = [from |-> a.from, until |-> b.until]
            /\ \A l \in rows : a.from <= l.from /\ l.until <= b.until
  BY <1>5, <1>6, SpanHolds
<1>8. PICK span : span = D!SpanOf(rows)
  OBVIOUS
<1>9. span.from = a.from /\ span.until = b.until /\ span.from \in Nat /\ span.until \in Nat
  BY <1>6, <1>7, <1>8
<1>10. span.from <= t /\ t + 1 <= span.until
  <2>1. ls[i].from < t + 1 /\ t < ls[i].until
    BY <1>3 DEF D!Overlap, Minute
  <2>2. ls[i].from \in Nat /\ ls[i].until \in Nat
    BY <1>5, <1>6
  <2>3. span.from <= ls[i].from /\ ls[i].until <= span.until
    BY <1>5, <1>7, <1>9
  <2> QED
    BY <1>9, <2>1, <2>2, <2>3
<1>11. ~(D!Taken(span) >= cap)
  BY <1>4, <1>8 DEF D!Conflicts
<1>12. D!Taken(span) = Cardinality(Crowd(span))
  BY <1>9, TakenIsCrowd
<1>13. Cardinality(Crowd(span)) < cap
  <2>1. Cardinality(Crowd(span)) \in Nat /\ cap \in Nat
    BY CrowdIsFinite DEF DayTyped
  <2> QED
    BY <1>11, <1>12, <2>1
<1>14. ASSUME NEW c \in Unforced(t) PROVE c \in Crowd(span)
  <2>1. c \in 1..Len(taken) /\ Meets(taken[c].lines, Minute(t))
    BY <1>14 DEF Unforced, Crowd
  <2>2. PICK m \in 1..Len(taken[c].lines) : D!Overlap(taken[c].lines[m], Minute(t))
    BY <2>1 DEF Meets
  <2>3. PICK l : l = taken[c].lines[m]
    OBVIOUS
  <2>4. l.from \in Nat /\ l.until \in Nat
    BY <2>1, <2>2, <2>3, EachWhole, LinesBounded
  <2>5. l.from < t + 1 /\ t < l.until
    BY <2>2, <2>3 DEF D!Overlap, Minute
  <2>6. l.from < span.until /\ span.from < l.until
    BY <1>9, <1>10, <2>4, <2>5
  <2>7. D!Overlap(l, span)
    BY <2>6 DEF D!Overlap
  <2> QED
    BY <2>1, <2>2, <2>3, <2>7 DEF Crowd, Meets
<1>15. Unforced(t) \in SUBSET Crowd(span)
  BY <1>14
<1>16. Cardinality(Unforced(t)) <= Cardinality(Crowd(span)) /\ Cardinality(Unforced(t)) \in Nat
  <2>1. IsFiniteSet(Crowd(span))
    BY CrowdIsFinite
  <2>2. IsFiniteSet(Unforced(t)) /\ Cardinality(Unforced(t)) <= Cardinality(Crowd(span))
    BY <1>15, <2>1, FS_Subset
  <2> QED
    BY <2>2, FS_CardinalityType
<1>17. Cardinality(Crowd(span)) \in Nat /\ cap \in Nat
  BY CrowdIsFinite DEF DayTyped
<1> QED
  BY <1>13, <1>16, <1>17

LEMMA Enters ==
  ASSUME DayInv, NEW ls, Whole(ls), NEW how \in {"online", "desk", "force"},
         NEW new, new = [lines |-> ls, how |-> how],
         how # "force" => ~D!Conflicts(ls),
         \A j \in 1..Len(taken) : Turns(taken[j], new),
         taken' = Append(taken, new), cap' = cap, clock' = clock
  PROVE  DayInv'
<1>1. PICK n \in Nat : n = Len(taken)
  BY EachWhole DEF DayInv
<1>2. new \in Bookings /\ new.lines = ls /\ new.how = how
  BY DEF Bookings, Whole
<1>3. DayTyped'
  BY <1>2 DEF DayInv, DayTyped
<1>4. /\ Len(taken') = n + 1 /\ taken'[n + 1] = new
      /\ \A j \in 1..n : taken'[j] = taken[j]
  BY <1>1, <1>2 DEF DayInv, DayTyped
<1>5. Turned'
  <2>1. ASSUME NEW j \in 1..n + 1, NEW k \in 1..n + 1, j < k
        PROVE  Turns(taken'[j], taken'[k])
    <3>1. j \in 1..n
      BY <1>1, <2>1
    <3>2. CASE k = n + 1
      BY <1>1, <1>4, <3>1, <3>2
    <3>3. CASE k # n + 1
      <4>1. k \in 1..n
        BY <1>1, <3>3
      <4> QED
        BY <1>1, <1>4, <2>1, <3>1, <4>1 DEF DayInv, Turned
    <3> QED
      BY <3>2, <3>3
  <2>2. \A j, k \in 1..Len(taken') : j < k => Turns(taken'[j], taken'[k])
    BY <1>4, <2>1
  <2> QED
    BY <2>2 DEF Turned, Turns
<1>6. ASSUME NEW t \in 0..Midnight PROVE Cardinality(Unforced(t)') <= cap
  <2>0. t \in Nat
    BY DayAssumption
  <2>1. Cardinality(Unforced(t)) <= cap /\ cap \in Nat
    BY DEF DayInv, DayTyped, Roomy
  <2>2. IsFiniteSet(Unforced(t)) /\ Cardinality(Unforced(t)) \in Nat
    <3>1. IsFiniteSet(Crowd(Minute(t)))
      BY CrowdIsFinite DEF DayInv
    <3>2. Unforced(t) \in SUBSET Crowd(Minute(t))
      BY DEF Unforced
    <3>3. IsFiniteSet(Unforced(t))
      BY <3>1, <3>2, FS_Subset
    <3> QED
      BY <3>3, FS_CardinalityType
  <2>3. Unforced(t)' = {k \in 1..n + 1 : Meets(taken'[k].lines, Minute(t)) /\ taken'[k].how # "force"}
    BY <1>4 DEF Unforced, Crowd, Meets, Minute
  <2>4. Unforced(t) = {k \in 1..n : Meets(taken[k].lines, Minute(t)) /\ taken[k].how # "force"}
    BY <1>1 DEF Unforced, Crowd
  <2>5. \A k \in 1..n + 1 : k \in 1..n \/ k = n + 1
    BY <1>1
  <2>6. CASE Meets(ls, Minute(t)) /\ how # "force"
    <3>1. Unforced(t)' = Unforced(t) \cup {n + 1}
      BY <1>1, <1>2, <1>4, <2>3, <2>4, <2>5, <2>6
    <3>2. n + 1 \notin Unforced(t)
      BY <1>1, <2>4
    <3>3. Cardinality(Unforced(t) \cup {n + 1}) = Cardinality(Unforced(t)) + 1
      BY <2>2, <3>2, FS_AddElement
    <3>4. Cardinality(Unforced(t)) < cap
      BY <2>0, <2>6, RoomLeft DEF DayInv
    <3> QED
      BY <2>1, <2>2, <3>1, <3>3, <3>4
  <2>7. CASE ~(Meets(ls, Minute(t)) /\ how # "force")
    <3>1. Unforced(t)' = Unforced(t)
      BY <1>1, <1>2, <1>4, <2>3, <2>4, <2>5, <2>7
    <3> QED
      BY <2>1, <3>1
  <2> QED
    BY <2>6, <2>7
<1>7. Roomy'
  BY <1>6 DEF Roomy
<1> QED
  BY <1>3, <1>5, <1>7 DEF DayInv

LEMMA Leaves ==
  ASSUME DayInv, NEW k \in DOMAIN taken, D!Cancel(k)
  PROVE  DayInv'
<1>1. PICK n \in Nat \ {0} : n = Len(taken) /\ k \in 1..n
  <2>1. Len(taken) \in Nat /\ k \in 1..Len(taken)
    BY EachWhole DEF DayInv
  <2> QED
    BY <2>1
<1>2. taken \in Seq(Bookings) /\ cap' = cap /\ clock' = clock
  BY DEF DayInv, DayTyped, D!Cancel
<1>3. PICK a : a = SubSeq(taken, 1, k - 1)
  OBVIOUS
<1>4. PICK b : b = SubSeq(taken, k + 1, Len(taken))
  OBVIOUS
<1>5. taken' = a \o b
  BY <1>3, <1>4 DEF D!Cancel
<1>6. /\ a \in Seq(Bookings) /\ Len(a) = k - 1
      /\ \A i \in 1..k - 1 : a[i] = taken[i]
  BY <1>1, <1>2, <1>3
<1>7. /\ b \in Seq(Bookings) /\ Len(b) = n - k
      /\ \A i \in 1..n - k : b[i] = taken[k + i]
  BY <1>1, <1>2, <1>4
<1>8. taken' \in Seq(Bookings) /\ Len(taken') = n - 1
  BY <1>1, <1>5, <1>6, <1>7
<1> DEFINE Old(i) == IF i < k THEN i ELSE i + 1
<1>9. ASSUME NEW i \in 1..n - 1 PROVE taken'[i] = taken[Old(i)]
  <2>1. CASE i < k
    <3>1. i \in 1..Len(a) /\ i \in 1..k - 1
      BY <1>1, <1>6, <2>1
    <3>2. (a \o b)[i] = a[i]
      BY <1>6, <1>7, <3>1
    <3> QED
      BY <1>5, <1>6, <2>1, <3>1, <3>2
  <2>2. CASE ~(i < k)
    <3>1. PICK m \in 1..n - k : i = (k - 1) + m /\ k + m = i + 1
      <4>1. i - (k - 1) \in 1..n - k /\ i = (k - 1) + (i - (k - 1)) /\ k + (i - (k - 1)) = i + 1
        BY <1>1, <2>2
      <4> QED
        BY <4>1
    <3>2. (a \o b)[i] = b[m]
      <4>1. PICK x, y \in Nat : x = Len(a) /\ y = Len(b)
        BY <1>6, <1>7
      <4>2. i = x + m /\ m \in 1..y
        BY <1>6, <1>7, <3>1, <4>1
      <4>3. i \in 1..x + y /\ ~(i <= x) /\ i - x = m
        BY <4>2
      <4>4. \A c \in 1..Len(a) + Len(b) :
               (a \o b)[c] = IF c <= Len(a) THEN a[c] ELSE b[c - Len(a)]
        BY <1>6, <1>7, ConcatProperties
      <4> QED
        BY <4>1, <4>3, <4>4
    <3> QED
      BY <1>5, <1>7, <2>2, <3>1, <3>2
  <2> QED
    BY <2>1, <2>2
<1>10. /\ \A i \in 1..n - 1 : Old(i) \in 1..n
       /\ \A i, j \in 1..n - 1 : i < j => Old(i) < Old(j)
  BY <1>1
<1>11. PICK old : old = [i \in 1..n - 1 |-> Old(i)]
  OBVIOUS
<1>12. /\ \A i \in 1..n - 1 : old[i] \in 1..n /\ taken'[i] = taken[old[i]]
       /\ \A i, j \in 1..n - 1 : i < j => old[i] < old[j]
  BY <1>9, <1>10, <1>11
<1> HIDE DEF Old
<1>13. DayTyped'
  BY <1>2, <1>8 DEF DayInv, DayTyped
<1>14. Turned'
  <2>1. ASSUME NEW i \in 1..n - 1, NEW j \in 1..n - 1, i < j
        PROVE  Turns(taken'[i], taken'[j])
    BY <1>1, <1>12, <2>1 DEF DayInv, Turned
  <2> QED
    BY <1>8, <2>1 DEF Turned, Turns
<1>15. ASSUME NEW t \in 0..Midnight PROVE Cardinality(Unforced(t)') <= cap
  <2>1. Cardinality(Unforced(t)) <= cap /\ cap \in Nat
    BY DEF DayInv, DayTyped, Roomy
  <2>2. IsFiniteSet(Unforced(t)) /\ Cardinality(Unforced(t)) \in Nat
    <3>1. IsFiniteSet(Crowd(Minute(t)))
      BY CrowdIsFinite DEF DayInv
    <3>2. Unforced(t) \in SUBSET Crowd(Minute(t))
      BY DEF Unforced
    <3>3. IsFiniteSet(Unforced(t))
      BY <3>1, <3>2, FS_Subset
    <3> QED
      BY <3>3, FS_CardinalityType
  <2>3. PICK U : U = Unforced(t)'
    OBVIOUS
  <2>4. U = {i \in 1..n - 1 : Meets(taken'[i].lines, Minute(t)) /\ taken'[i].how # "force"}
    BY <1>8, <2>3 DEF Unforced, Crowd, Meets, Minute
  <2>5. Unforced(t) = {i \in 1..n : Meets(taken[i].lines, Minute(t)) /\ taken[i].how # "force"}
    BY <1>1 DEF Unforced, Crowd
  <2>6. \A i \in U : i \in 1..n - 1 /\ old[i] \in Unforced(t)
    BY <1>12, <2>4, <2>5
  <2>7. PICK f : f = [i \in U |-> old[i]]
    OBVIOUS
  <2>8. f \in [U -> Unforced(t)]
    BY <2>6, <2>7
  <2>9. ASSUME NEW i \in U, NEW j \in U, f[i] = f[j] PROVE i = j
    <3>1. old[i] = old[j] /\ i \in 1..n - 1 /\ j \in 1..n - 1
      BY <2>6, <2>7, <2>9
    <3>2. old[i] \in Nat /\ old[j] \in Nat /\ (i < j => old[i] < old[j]) /\ (j < i => old[j] < old[i])
      BY <1>12, <3>1
    <3>3. ~(i < j) /\ ~(j < i)
      BY <3>1, <3>2
    <3> QED
      BY <3>1, <3>3
  <2>10. f \in Injection(U, Unforced(t))
    BY <2>8, <2>9 DEF Injection, IsInjective
  <2>11. IsFiniteSet(U) /\ Cardinality(U) <= Cardinality(Unforced(t))
    BY <2>2, <2>10, FS_Injection
  <2>12. Cardinality(U) \in Nat
    BY <2>11, FS_CardinalityType
  <2>13. Cardinality(U) <= cap
    BY <2>1, <2>2, <2>11, <2>12
  <2> QED
    BY <2>3, <2>13
<1>16. Roomy'
  BY <1>2, <1>15 DEF Roomy
<1> QED
  BY <1>13, <1>14, <1>16 DEF DayInv

LEMMA DayStarts == D!Init => DayInv
<1> SUFFICES ASSUME D!Init PROVE DayInv
  OBVIOUS
<1>1. taken = <<>> /\ cap \in Nat /\ clock = 0
  BY DayAssumption DEF D!Init
<1>2. DayTyped /\ Len(taken) = 0
  BY <1>1 DEF DayTyped
<1>3. Turned
  BY <1>2 DEF Turned
<1>4. ASSUME NEW t \in 0..Midnight PROVE Cardinality(Unforced(t)) <= cap
  <2>1. Unforced(t) = {}
    BY <1>2 DEF Unforced, Crowd
  <2> QED
    BY <1>1, <2>1, FS_EmptySet
<1> QED
  BY <1>2, <1>3, <1>4 DEF DayInv, Roomy

LEMMA DayIdle ==
  ASSUME DayInv, taken' = taken, cap' = cap, clock' \in Nat
  PROVE  DayInv'
<1>1. DayTyped'
  BY DEF DayInv, DayTyped
<1>2. Turned'
  BY DEF DayInv, Turned, Turns
<1>3. \A t : Unforced(t)' = Unforced(t)
  BY DEF Unforced, Crowd, Meets, Minute
<1>4. Roomy'
  BY <1>3 DEF DayInv, Roomy
<1> QED
  BY <1>1, <1>2, <1>4 DEF DayInv

LEMMA DayStep ==
  ASSUME ClosesInTime, DayInv, D!Next
  PROVE  DayInv'
<1>1. ASSUME NEW s \in Staff, NEW asked \in Wanted, D!BookOnline(s, asked) PROVE DayInv'
  <2>1. PICK t \in D!Offered(s, asked) :
           ~D!Conflicts(D!BuildLines(s, asked, t)) /\ D!Book(D!BuildLines(s, asked, t), "online")
    BY <1>1 DEF D!BookOnline
  <2>2. PICK ls : ls = D!BuildLines(s, asked, t)
    OBVIOUS
  <2>3. PICK new : new = [lines |-> ls, how |-> "online"]
    OBVIOUS
  <2>4. ~D!Conflicts(ls) /\ taken' = Append(taken, new) /\ cap' = cap /\ clock' = clock
    BY <2>1, <2>2, <2>3 DEF D!Book
  <2>5. t \in Nat
    <3>1. PICK until : until = t + D!Length(asked)
      OBVIOUS
    <3> QED
      BY <3>1, OfferSays DEF DayInv
  <2>6. Whole(ls)
    <3>1. asked \in Seq(Services) \ {<<>>} /\ s \in Staff \cup {Nobody}
      BY WantedIs
    <3> QED
      BY <2>2, <2>5, <3>1, Linked
  <2>7. \A j \in 1..Len(taken) : Turns(taken[j], new)
    BY <2>2, <2>3, OfferTurns DEF DayInv
  <2>8. PICK how \in {"online", "desk", "force"} : how = "online"
    OBVIOUS
  <2> QED
    BY <2>3, <2>4, <2>6, <2>7, <2>8, Enters
<1>2. ASSUME NEW s \in Staff \cup {Nobody}, NEW asked \in Wanted, NEW t \in 0..Midnight - 1,
             D!BookAtDesk(s, asked, t)
      PROVE  DayInv'
  <2>1. PICK ls : ls = D!BuildLines(s, asked, t)
    OBVIOUS
  <2>2. PICK how \in {"online", "desk", "force"} :
           how = IF D!Conflicts(ls) THEN "force" ELSE "desk"
    OBVIOUS
  <2>3. PICK new : new = [lines |-> ls, how |-> how]
    OBVIOUS
  <2>4. taken' = Append(taken, new) /\ cap' = cap /\ clock' = clock
    BY <1>2, <2>1, <2>2, <2>3 DEF D!BookAtDesk, D!Book
  <2>5. Whole(ls)
    <3>1. asked \in Seq(Services) \ {<<>>} /\ t \in Nat
      BY WantedIs, DayAssumption
    <3> QED
      BY <2>1, <3>1, Linked
  <2>6. how # "force" => ~D!Conflicts(ls)
    BY <2>2
  <2>7. \A j \in 1..Len(taken) : Turns(taken[j], new)
    <3>1. new.how # "online"
      BY <2>2, <2>3
    <3> QED
      BY <3>1 DEF Turns
  <2> QED
    BY <2>3, <2>4, <2>5, <2>6, <2>7, Enters
<1>3. ASSUME NEW k \in DOMAIN taken, D!Cancel(k) PROVE DayInv'
  BY <1>3, Leaves
<1>4. ASSUME D!Tick PROVE DayInv'
  <2>1. taken' = taken /\ cap' = cap /\ clock' \in Nat
    BY <1>4 DEF D!Tick, DayInv, DayTyped
  <2> QED
    BY <2>1, DayIdle
<1> QED
  BY <1>1, <1>2, <1>3, <1>4 DEF D!Next

LEMMA DayMeaning == DayInv => D!OfferedIsBookable
<1> SUFFICES ASSUME DayInv PROVE D!OfferedIsBookable
  OBVIOUS
<1>0. DayTyped /\ DOMAIN taken = 1..Len(taken)
  BY EachWhole DEF DayInv
<1>1. \A s \in Staff, asked \in Wanted :
          (\A i \in 1..Len(asked) - 1 : asked[i].buffer = 0) =>
              \A t \in D!Offered(s, asked) : ~D!Conflicts(D!BuildLines(s, asked, t))
  BY <1>0, OfferStands
<1>2. \A j, k \in DOMAIN taken :
          /\ j < k /\ D!SameStylist(taken[j], taken[k])
          /\ taken[k].how = "online" /\ Len(taken[k].lines) = 1
          => \A a \in D!Turnaround(taken[j]), b \in D!Turnaround(taken[k]) : ~D!Overlap(a, b)
  BY <1>0 DEF DayInv, Turned, Turns
<1>3. ASSUME \A k \in DOMAIN taken : taken[k].how # "force", NEW t \in 0..Midnight
      PROVE  D!Taken([from |-> t, until |-> t + 1]) <= cap
  <2>1. t \in Nat
    BY DayAssumption
  <2>2. PICK span : span = [from |-> t, until |-> t + 1]
    OBVIOUS
  <2>3. span.from \in Nat /\ span.until \in Nat
    BY <2>1, <2>2
  <2>4. D!Taken(span) = Cardinality(Crowd(span))
    BY <1>0, <2>3, TakenIsCrowd
  <2>5. Crowd(span) = Unforced(t)
    BY <1>0, <1>3, <2>2 DEF Unforced, Crowd, Minute
  <2>6. Cardinality(Unforced(t)) <= cap
    BY DEF DayInv, Roomy
  <2> QED
    BY <2>2, <2>4, <2>5, <2>6
<1> QED
  BY <1>1, <1>2, <1>3 DEF D!OfferedIsBookable

\* Where the doors close early enough for the time each service needs after it, a slot
\* that availableSlots offers can be booked, if no service but the last needs time after
\* it; a booking made of an offer keeps the turnaround of the stylist's earlier ones; and
\* unless somebody was forced in, nobody is in beyond the capacity
\* (availability.service.ts, availableSlots and findConflicts; appointment.service.ts,
\* buildLines).
THEOREM OffersCanBeBooked == ClosesInTime /\ DiarySpec => []OfferedIsBookable
<1> SUFFICES ASSUME ClosesInTime PROVE DiarySpec => []OfferedIsBookable
  OBVIOUS
<1>1. DiaryInit => DayInv
  BY DayStarts DEF DiaryInit
<1>2. DayInv /\ [DiaryNext]_everything => DayInv'
  <2> SUFFICES ASSUME DayInv, [DiaryNext]_everything PROVE DayInv'
    OBVIOUS
  <2>1. CASE D!Next
    BY <2>1, DayStep
  <2>2. CASE UNCHANGED times
    <3>1. taken' = taken /\ cap' = cap /\ clock' \in Nat
      BY <2>2 DEF times, DayInv, DayTyped
    <3> QED
      BY <3>1, DayIdle
  <2> QED
    BY <2>1, <2>2 DEF DiaryNext, everything
<1>3. DayInv => OfferedIsBookable
  BY DayMeaning DEF OfferedIsBookable
<1>4. DiarySpec => DiaryInit /\ [][DiaryNext]_everything
  BY PTL DEF DiarySpec
<1> QED
  BY <1>1, <1>2, <1>3, <1>4, PTL
=============================================================================
