------------------------------ MODULE Feedback ------------------------------
(***************************************************************************)
(* Ratings of a stylist's visits, from the link of an appointment or a     *)
(* bill to the score, the alert and the journeys that follow               *)
(* (feedback/feedback.service.ts, submitFeedback).  Nothing here is a      *)
(* transaction: each statement commits by itself.  The points given for a  *)
(* rating are in Points, the suggestions for a review in Suggestions.      *)
(***************************************************************************)
EXTENDS Naturals, FiniteSets

CONSTANTS
    Links,       \* links of visits of one stylist, at one branch
    Strangers,   \* those of bills and appointments without a customer
    Nothing,     \* no link
    Requests,    \* submissions handled at the same time
    MaxFaults    \* bound: processes that die, statements that throw

VARIABLES
    stars,      \* stars[l]: "none" before the rating, then "high" or "low"
    complaints, \* ratings with isComplaint that nobody has resolved
    score,      \* Staff.ratingCount
    alerted,    \* ratings with a LOW_RATING alert
    todays,     \* the rating whose alert is that of the branch for the day, or Nothing
    invited,    \* invited[l]: what journey.trigger jobs of the rating say, a bag as a function
    pc,         \* pc[r]: the next statement of the submission
    link, given, \* link[r], given[r]: what it rates, and how
    seen,       \* seen[r]: ratings of the stylist it has counted
    faults,     \* bound
    crossed,    \* history: two submissions were about to write the score
    behind,     \* history: behind[l], the rating whose alert stood where that of l would go
    cut         \* history: ratings whose submission was cut short, or whose alert a fault lost

rows   == <<stars, complaints, score, alerted, todays, invited>>
submit == <<pc, link, given, seen>>
vars   == <<rows, submit, faults, crossed, behind, cut>>

Triggers == {"FEEDBACK_NEGATIVE", "FEEDBACK_POSITIVE", "REVIEW_REQUEST"}

Init ==
    /\ stars = [l \in Links |-> "none"]
    /\ complaints = {} /\ score = 0 /\ alerted = {} /\ todays = Nothing
    /\ invited = [l \in Links |-> [t \in Triggers |-> 0]]
    /\ pc = [r \in Requests |-> "idle"]
    /\ link = [r \in Requests |-> Nothing] /\ given = [r \in Requests |-> "high"]
    /\ seen = [r \in Requests |-> 0]
    /\ faults = 0 /\ crossed = FALSE /\ cut = {}
    /\ behind = [l \in Links |-> Nothing]

Goto(r, statement) == pc' = [pc EXCEPT ![r] = statement]

\* "Feedback has already been submitted for this visit."
AskSubmit(r, l, s) ==
    /\ pc[r] = "idle" /\ stars[l] = "none"
    /\ link' = [link EXCEPT ![r] = l]
    /\ given' = [given EXCEPT ![r] = s]
    /\ Goto(r, "create")
    /\ UNCHANGED <<rows, seen, faults, crossed, behind, cut>>

\* Faulty variant: nothing but the question asked before keeps a second rating out.
NoKey(l) == TRUE

\* The unique key of the appointment, or of the bill, is free.
KeyFree(l) == stars[l] = "none"

Create(r) ==
    LET l == link[r] IN
    /\ pc[r] = "create" /\ KeyFree(l)
    /\ stars' = [stars EXCEPT ![l] = given[r]]
    /\ complaints' = IF given[r] = "low" THEN complaints \cup {l} ELSE complaints
    /\ Goto(r, "count")
    /\ UNCHANGED <<score, alerted, todays, invited, link, given, seen, faults, crossed, behind, cut>>

\* The insert fails on the key, and so does the request.
CreateTooLate(r) ==
    /\ pc[r] = "create" /\ ~KeyFree(link[r])
    /\ Goto(r, "idle")
    /\ UNCHANGED <<rows, link, given, seen, faults, crossed, behind, cut>>

\* refreshStaffRating: the aggregate, and then the write.
CountRatings(r) ==
    /\ pc[r] = "count"
    /\ seen' = [seen EXCEPT ![r] = Cardinality({l \in Links : stars[l] # "none"})]
    /\ Goto(r, "score")
    /\ UNCHANGED <<rows, link, given, faults, crossed, behind, cut>>

WriteScore(r) ==
    /\ pc[r] = "score"
    /\ score' = seen[r]
    /\ crossed' = (crossed \/ \E q \in Requests \ {r} : pc[q] = "score")
    /\ Goto(r, IF given[r] = "low" THEN "alert" ELSE "invite")
    /\ UNCHANGED <<stars, complaints, alerted, todays, invited, link, given, seen, faults, behind,
                   cut>>

\* One alert of a kind for a branch and day is what the table takes: the insert of a
\* second clashes, and the clash is swallowed.
Alert(r) ==
    /\ pc[r] = "alert"
    /\ \/ /\ todays = Nothing /\ todays' = link[r]
          /\ alerted' = alerted \cup {link[r]}
          /\ UNCHANGED behind
       \/ /\ todays # Nothing
          /\ behind' = [behind EXCEPT ![link[r]] = todays]
          /\ UNCHANGED <<alerted, todays>>
    /\ Goto(r, "invite")
    /\ UNCHANGED <<stars, complaints, score, invited, link, given, seen, faults, crossed, cut>>

\* Two journeys "want opposite things"; the review is asked of everybody who is known.
Invite(r) ==
    LET mood == IF given[r] = "low" THEN "FEEDBACK_NEGATIVE" ELSE "FEEDBACK_POSITIVE" IN
    /\ pc[r] = "invite"
    /\ IF link[r] \in Strangers THEN UNCHANGED invited
       ELSE invited' = [invited EXCEPT ![link[r]] = [t \in Triggers |->
                            IF t \in {mood, "REVIEW_REQUEST"} THEN @[t] + 1 ELSE @[t]]]
    /\ Goto(r, "idle")
    /\ UNCHANGED <<stars, complaints, score, alerted, todays, link, given, seen, faults, crossed,
                   behind, cut>>

\* The process dies, or a statement throws: of an alert that alone is swallowed.
Fail(r) ==
    /\ pc[r] # "idle" /\ faults < MaxFaults
    /\ faults' = faults + 1
    /\ cut' = IF pc[r] = "create" THEN cut ELSE cut \cup {link[r]}
    /\ \/ Goto(r, "idle")
       \/ pc[r] = "alert" /\ Goto(r, "invite")
    /\ UNCHANGED <<rows, link, given, seen, crossed, behind>>

\* resolveComplaint.
Resolve(l) ==
    /\ l \in complaints
    /\ complaints' = complaints \ {l}
    /\ UNCHANGED <<stars, score, alerted, todays, invited, submit, faults, crossed, behind, cut>>

\* Alerts are dated by the day on which they are raised.
NextDay ==
    /\ todays # Nothing /\ todays' = Nothing
    /\ UNCHANGED <<stars, complaints, score, alerted, invited, submit, faults, crossed, behind, cut>>
-----------------------------------------------------------------------------
Submit(r) ==
    \/ \E l \in Links, s \in {"high", "low"} : AskSubmit(r, l, s)
    \/ Create(r) \/ CreateTooLate(r) \/ CountRatings(r) \/ WriteScore(r)
    \/ Alert(r) \/ Invite(r) \/ Fail(r)

Next == (\E r \in Requests : Submit(r)) \/ (\E l \in Links : Resolve(l)) \/ NextDay

Spec == Init /\ [][Next]_vars
-----------------------------------------------------------------------------
Quiet == \A r \in Requests : pc[r] = "idle"

\* A visit is rated once however often the form is sent, and what the rating says is what
\* follows from it: one request for a review for every customer who is known, the apology
\* for those of them who are unhappy and for nobody else, and for every unhappy rating an
\* alert, of its own or, when the branch had one that day, of the unhappy rating that came
\* before.  Unless two submissions were about to write it or one was cut short, the score
\* counts every rating.
RatingIsFollowedUp ==
    /\ \A l \in Links :
          /\ invited[l]["REVIEW_REQUEST"] <= 1
          /\ invited[l]["FEEDBACK_NEGATIVE"] > 0 => stars[l] = "low"
          /\ Quiet /\ l \notin cut /\ stars[l] # "none" =>
                /\ stars[l] = "low" <=> l \in alerted \/ behind[l] \in alerted
                /\ invited[l]["REVIEW_REQUEST"] = IF l \in Strangers THEN 0 ELSE 1
                /\ stars[l] = "low" /\ l \notin Strangers <=> invited[l]["FEEDBACK_NEGATIVE"] = 1
    /\ Quiet /\ ~crossed /\ cut = {} =>
          score = Cardinality({l \in Links : stars[l] # "none"})
=============================================================================
