--------------------------- MODULE MCAutomations ---------------------------
(* Small instances of Automations for TLC. *)
EXTENDS Automations, TLC

CONSTANTS i1, i2, a1

\* A journey of three steps and one of a single step; the owner may make one the
\* other.  Two jobs can run into each other from the third step on.
TwoPlans == {<<"SEND_MESSAGE", "SEND_MESSAGE", "EXIT_IF_BOOKED">>, <<"SEND_MESSAGE">>}

\* Two events about one appointment.
OneSubject == {i1 :> a1 @@ i2 :> a1}

\* Workers are interchangeable, and so are two events and two pictures of the day.
\* The parts share the values: fewer permutations to look at.
AnySymmetry == Permutations(Workers) \cup Permutations({i1, i2})
=============================================================================
