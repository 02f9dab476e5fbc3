------------------------------ MODULE MCSending ------------------------------
(* Small instances of Sending for TLC. *)
EXTENDS Sending, TLC

\* Senders, calls and requests are interchangeable, and only one part moves: the three
\* share their values, which leaves one permutation to look at.
SenderSymmetry == Permutations(Senders)
=============================================================================
