----------------------------- MODULE Suggestions ----------------------------
(***************************************************************************)
(* The review suggestions of one rating (feedback/feedback.service.ts and  *)
(* feedback-ai.service.ts): a model writes a set of them, started by the   *)
(* submission and joined by the thank-you screen, while a job that         *)
(* analyses the comment has a sentence of its own written.  Each process   *)
(* keeps in memory what it is writing; the row is the only thing shared.   *)
(***************************************************************************)
EXTENDS Naturals, FiniteSets

CONSTANTS
    Processes,   \* instances of the server
    MaxWritten,  \* bound: sets the model writes
    MaxAsks,     \* bound: times the thank-you screen asks
    MaxFaults    \* bound: processes that die, updates that throw

VARIABLES
    drafts,     \* Feedback.reviewDrafts: 0, or the number of the set
    line,       \* Feedback.reviewDraft: 0, or the set its sentence is from
    analysis,   \* the feedback.analyze job: "waiting", "writing", "done", "nothing"
    work,       \* work[p]: draftsInFlight: "none", "read", "compose", "store"
    bare,       \* bare[p]: the row it has read had no sentence
    hand,       \* hand[p]: the set it has had written
    screen,     \* screen[p]: does the thank-you screen wait for it?
    written, asks, faults,   \* bounds
    shown,      \* history: sets the customer has been shown
    apart       \* history: two processes wrote at once, or an update was lost

vars == <<drafts, line, analysis, work, bare, hand, screen, written, asks, faults, shown, apart>>

\* submitFeedback starts them and does not wait; "enqueued rather than awaited".
Init ==
    /\ drafts = 0 /\ line = 0
    /\ analysis \in {"none", "waiting"}
    /\ \E p \in Processes : work = [q \in Processes |-> IF q = p THEN "read" ELSE "none"]
    /\ bare = [p \in Processes |-> FALSE]
    /\ hand = [p \in Processes |-> 0]
    /\ screen = [p \in Processes |-> FALSE]
    /\ written = 0 /\ asks = 0 /\ faults = 0
    /\ shown = {} /\ apart = FALSE

\* reviewSuggestions: the stored set, or the work that is in flight, or a start.
Ask(p) ==
    /\ asks < MaxAsks /\ ~screen[p]
    /\ asks' = asks + 1
    /\ IF drafts # 0
       THEN shown' = shown \cup {drafts} /\ UNCHANGED <<work, screen>>
       ELSE /\ work' = IF work[p] = "none" THEN [work EXCEPT ![p] = "read"] ELSE work
            /\ screen' = [screen EXCEPT ![p] = TRUE]
            /\ UNCHANGED shown
    /\ UNCHANGED <<drafts, line, analysis, bare, hand, written, faults, apart>>

\* The work ends with a set, or with none: who waits for it gets it.
Answer(p, n) ==
    /\ work' = [work EXCEPT ![p] = "none"]
    /\ hand' = [hand EXCEPT ![p] = 0]
    /\ screen' = [screen EXCEPT ![p] = FALSE]
    /\ shown' = IF screen[p] /\ n # 0 THEN shown \cup {n} ELSE shown

ToModel(p) ==
    /\ work' = [work EXCEPT ![p] = "compose"]
    /\ bare' = [bare EXCEPT ![p] = line = 0]
    /\ apart' = (apart \/ \E q \in Processes \ {p} : work[q] \in {"compose", "store"})
    /\ UNCHANGED <<hand, screen, shown>>

\* Faulty variant: nobody looks whether there is a set.
ReadRowBlindly(p) ==
    /\ work[p] = "read"
    /\ ToModel(p)
    /\ UNCHANGED <<drafts, line, analysis, written, asks, faults>>

\* "Already written, by an earlier call or another instance."
ReadRow(p) ==
    /\ work[p] = "read"
    /\ IF drafts # 0 THEN Answer(p, drafts) /\ UNCHANGED <<bare, apart>> ELSE ToModel(p)
    /\ UNCHANGED <<drafts, line, analysis, written, asks, faults>>

\* The model answers, or has nothing usable in time.
Compose(p) ==
    /\ work[p] = "compose" /\ written < MaxWritten
    /\ written' = written + 1
    /\ hand' = [hand EXCEPT ![p] = written + 1]
    /\ work' = [work EXCEPT ![p] = "store"]
    /\ UNCHANGED <<drafts, line, analysis, bare, screen, asks, faults, shown, apart>>

ComposeNothing(p) ==
    /\ work[p] = "compose"
    /\ Answer(p, 0)
    /\ UNCHANGED <<drafts, line, analysis, bare, written, asks, faults, apart>>

\* The row as it is now is not looked at: whether "the first one stays on its own
\* column" is told from the row that was read.
Store(p) ==
    /\ work[p] = "store"
    /\ drafts' = hand[p]
    /\ line' = IF bare[p] THEN hand[p] ELSE line
    /\ Answer(p, hand[p])
    /\ UNCHANGED <<analysis, bare, written, asks, faults, apart>>

\* The update throws: the customer is shown what nobody has stored.
StoreFails(p) ==
    /\ work[p] = "store" /\ faults < MaxFaults
    /\ faults' = faults + 1
    /\ apart' = TRUE
    /\ Answer(p, hand[p])
    /\ UNCHANGED <<drafts, line, analysis, bare, written, asks>>

Die(p) ==
    /\ work[p] # "none" /\ faults < MaxFaults
    /\ faults' = faults + 1
    /\ Answer(p, 0)
    /\ UNCHANGED <<drafts, line, analysis, bare, written, asks, apart>>
-----------------------------------------------------------------------------
(* feedback.analyze *)

\* "Nothing usable came back" ends the job all the same.
Analyse ==
    /\ analysis = "waiting"
    /\ analysis' \in {"writing", "nothing"}
    /\ UNCHANGED <<drafts, line, work, bare, hand, screen, written, asks, faults, shown, apart>>

\* The reading is stored, with a sentence of its own where the model gave one: "only
\* ever written, never cleared".
StoreAnalysis ==
    /\ analysis = "writing"
    /\ analysis' = "done"
    /\ \/ /\ written < MaxWritten
          /\ written' = written + 1
          /\ line' = written + 1
       \/ UNCHANGED <<written, line>>
    /\ UNCHANGED <<drafts, work, bare, hand, screen, asks, faults, shown, apart>>
-----------------------------------------------------------------------------
Draft(p) ==
    \/ ReadRow(p) \/ Compose(p) \/ ComposeNothing(p) \/ Store(p) \/ StoreFails(p) \/ Die(p)

Next ==
    \/ \E p \in Processes : Ask(p) \/ Draft(p)
    \/ Analyse \/ StoreAnalysis

Spec == Init /\ [][Next]_vars
-----------------------------------------------------------------------------
\* "Somebody refreshing the page should see the same suggestions, not a new set": a set
\* that was shown is the stored one, and there is no other, unless two processes had the
\* model write at the same time or a set could not be stored.  What is stored is never
\* taken away.
SuggestionsStay ==
    /\ ~apart => shown \subseteq {drafts}
    /\ drafts # 0 => line # 0
=============================================================================
