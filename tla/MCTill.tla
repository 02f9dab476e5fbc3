------------------------------- MODULE MCTill -------------------------------
(* Small instances of Till for TLC. *)
EXTENDS Till, TLC

Basket(kind, item, booked, points, wallet, money) ==
  [kind |-> kind, line |-> item, appointment |-> booked, points |-> points,
   wallet |-> wallet, payments |-> money]

\* A product mostly on credit, a session, one for an appointment in the other series, an
\* appointment paid from the wallet, with points and in cash, a service that is overpaid.
TillBaskets == {
  Basket("GST", "product", FALSE, 0, 1, <<>>),
  Basket("GST", "session", FALSE, 0, 0, <<>>),
  Basket("NON_GST", "session", TRUE, 0, 0, <<>>),
  Basket("GST", "service", TRUE, 1, 1, <<1>>),
  Basket("GST", "service", FALSE, 0, 0, <<2, 1>>)}

DeskSymmetry == Permutations(Desks)
=============================================================================
