------------------------------ MODULE MCDiary -------------------------------
(* Small instances of Diary for TLC. *)
EXTENDS Diary, TLC

CONSTANTS s1, s2, r1

\* A service with the stylist, one that takes the room, and one that needs neither.
Cut  == [staff |-> s1, room |-> NoRoom, together |-> FALSE]
Spa  == [staff |-> Nobody, room |-> r1, together |-> FALSE]
Wash == [staff |-> Nobody, room |-> NoRoom, together |-> FALSE]

\* One line; and two lines at the same moment with a third chained after them.
DayMenu == {<<Wash>>, <<Cut, [Spa EXCEPT !.together = TRUE], Wash>>}

\* Of the times: a cut needs time after it and a wash does not, alone and in both
\* orders.  The branch opens twice; one stylist comes before the doors and leaves in
\* between for an errand, the other works into midnight.
Quick == [length |-> 1, buffer |-> 0]
Long  == [length |-> 1, buffer |-> 1]
WantedServices == {<<Long>>, <<Quick, Long>>, <<Long, Quick>>}

From(a, b) == [from |-> a, until |-> b]
TwoWindows == {From(1, 3), From(3, 6)}
ShiftsOf == s1 :> {From(0, 5)} @@ s2 :> {From(2, 7)}
AwayOf == s1 :> {From(4, 5)} @@ s2 :> {}
=============================================================================
