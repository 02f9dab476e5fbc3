----------------------------- MODULE Callbacks ------------------------------
(***************************************************************************)
(* What the callbacks of the providers write: the log row of the message   *)
(* they are about (Receipts) and, of the customer it went to, whether the  *)
(* address takes messages (Reachability).  applyStatusUpdate does the one  *)
(* after the other, and neither reads what the other writes; so a          *)
(* behaviour here is a behaviour of the one that is watched.               *)
(***************************************************************************)
EXTENDS Naturals, FiniteSets

CONSTANTS
    Messages, Handlers, MaxCopies, MaxCallbacks, MaxCrashes,
    InFlight, MaxAddresses, MaxFlips

ASSUME CountsAssumption ==
    /\ {MaxCopies, MaxAddresses} \subseteq Nat \ {0}
    /\ {MaxCallbacks, MaxCrashes, MaxFlips} \subseteq Nat
    /\ IsFiniteSet(Messages) /\ IsFiniteSet(Handlers)

VARIABLES
    watched,      \* "row" or "address"
    status, stamps, sentAt, provId, count, job, dpc, result, copies, hpc, event, log,
    callbacks, crashes, deaths, overlapped,
    address, verdict, works, stage, to, outcome, flips

R == INSTANCE Receipts
A == INSTANCE Reachability WITH Messages <- InFlight

row   == <<status, stamps, sentAt, provId, count, job, dpc, result, copies, hpc, event, log,
           callbacks, crashes, deaths, overlapped>>
place == <<address, verdict, works, stage, to, outcome, flips>>
vars  == <<watched, row, place>>

Init ==
    /\ watched \in {"row", "address"}
    /\ R!Init /\ A!Init
    /\ watched = "row" => works = [a \in A!Addresses |-> TRUE]

Next ==
    /\ UNCHANGED watched
    /\ \/ watched = "row" /\ R!Next /\ UNCHANGED place
       \/ watched = "address" /\ A!Next /\ UNCHANGED row

Spec == Init /\ [][Next]_vars

\* A job that waits is taken and a worker that is up goes on with it; that the lock of a
\* dead one is taken back is not assumed.  The salon keeps sending, providers keep
\* answering, and not every answer is a temporary one.
FairSpec ==
    /\ Spec
    /\ \A m \in Messages : WF_vars(watched = "row" /\ R!Working(m) /\ UNCHANGED <<watched, place>>)
    /\ \A m \in InFlight :
          /\ WF_vars(watched = "address" /\ A!Queue(m) /\ UNCHANGED <<watched, row>>)
          /\ WF_vars(watched = "address" /\ A!Record(m) /\ UNCHANGED <<watched, row>>)
          /\ WF_vars(watched = "address" /\ A!CallBack(m) /\ UNCHANGED <<watched, row>>)
          /\ SF_vars(watched = "address" /\ A!Verdict(m) /\ UNCHANGED <<watched, row>>)
-----------------------------------------------------------------------------
\* The properties of each, which its module explains.

SentAndCountedOnce == R!SentAndCountedOnce
ProgressClimbs == R!ProgressClimbs
EveryMessageLeaves == watched = "row" => R!EveryMessageLeaves

DeadAddressIsLearned == watched = "address" => A!DeadAddressIsLearned
=============================================================================
