----------------------------- MODULE MCJobQueue -----------------------------
(* Small instances of JobQueue for TLC. *)
EXTENDS JobQueue, TLC

\* Workers and rows are interchangeable: nothing chooses one by its name.
WorkerSymmetry == Permutations(Workers) \cup Permutations(Jobs)
=============================================================================
