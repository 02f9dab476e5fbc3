---------------------------- MODULE MCFrontDesk ----------------------------
(* Small instances of FrontDesk for TLC. *)
EXTENDS FrontDesk, TLC

CONSTANTS m1, m2, s1, s2

\* Handlers are interchangeable, and so are slots, and messages that are not STOP.  The
\* parts share their values: fewer permutations to look at.
AnySymmetry == Permutations(Handlers) \cup Permutations({m1, m2}) \cup Permutations({s1, s2})
=============================================================================
