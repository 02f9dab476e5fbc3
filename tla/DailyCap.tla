------------------------------ MODULE DailyCap ------------------------------
(***************************************************************************)
(* The day's pictures of one salon and the share of them its look-book may *)
(* draw (assertUnderDailyCap in modules/hair-studio/                       *)
(* hair-generation.service.ts, generation-limits.ts).  A request counts    *)
(* rows, decides and creates its row; the row begins to count when it      *)
(* leaves PENDING, which Generation does much later.                       *)
(***************************************************************************)
EXTENDS Naturals, FiniteSets

CONSTANTS
    Pictures,   \* bound: HairGeneration rows of the day
    Callers,    \* requests handled at the same time
    Limits      \* values of BFL_DAILY_LIMIT_PER_TENANT; zero is no limit

VARIABLES
    limit,      \* the limit of this server
    kind,       \* kind[g]: "CATALOG_REFERENCE" or "CUSTOMER_PREVIEW"
    status,     \* HairGeneration.status; "NONE" before the row
    api,        \* api[c]: the next statement of a request
    wanted,     \* wanted[c]: the kind it asks for
    used,       \* used[c]: the pictures it has counted
    peak        \* history: requests and PENDING rows there were at one time, at most

vars == <<limit, kind, status, api, wanted, used, peak>>

Kinds == {"CATALOG_REFERENCE", "CUSTOMER_PREVIEW"}

Init ==
    /\ limit \in Limits
    /\ kind = [g \in Pictures |-> "CUSTOMER_PREVIEW"] /\ status = [g \in Pictures |-> "NONE"]
    /\ api = [c \in Callers |-> "idle"] /\ wanted = [c \in Callers |-> "CUSTOMER_PREVIEW"]
    /\ used = [c \in Callers |-> 0]
    /\ peak = 0
-----------------------------------------------------------------------------
\* Faulty variant: only a picture that came out well has cost something.
CountedReady(kinds) == Cardinality({g \in Pictures : status[g] = "READY" /\ kind[g] \in kinds})

\* The pictures of the day, "including the ones that failed after being submitted -
\* because those were charged too", but not those still waiting to be.
Counted(kinds) ==
    Cardinality({g \in Pictures : status[g] \notin {"NONE", "PENDING"} /\ kind[g] \in kinds})

\* A quarter of the day for the look-book, and never nothing.
libraryAllowance == IF limit \div 4 > 1 THEN limit \div 4 ELSE 1

OnTheirWay ==
    Cardinality({c \in Callers : api[c] # "idle"}) + Cardinality({g \in Pictures : status[g] = "PENDING"})

\* The count of all the pictures.
CountUsed(c, k) ==
    /\ api[c] = "idle"
    /\ api' = [api EXCEPT ![c] = "library"]
    /\ wanted' = [wanted EXCEPT ![c] = k]
    /\ used' = [used EXCEPT ![c] = Counted(Kinds)]
    /\ peak' = IF OnTheirWay + 1 > peak THEN OnTheirWay + 1 ELSE peak
    /\ UNCHANGED <<limit, kind, status>>

\* The count of the look-book's, which was asked for at the same time, and the
\* two refusals.
AssertUnderDailyCap(c) ==
    LET room == used[c] < limit
        share == wanted[c] = "CATALOG_REFERENCE"
                     => Counted({"CATALOG_REFERENCE"}) < libraryAllowance
    IN
    /\ api[c] = "library"
    /\ api' = [api EXCEPT ![c] = IF limit = 0 \/ (room /\ share) THEN "create" ELSE "idle"]
    /\ used' = [used EXCEPT ![c] = 0]
    /\ UNCHANGED <<limit, kind, status, wanted, peak>>

CreateRow(c) ==
    /\ api[c] = "create"
    /\ \E g \in Pictures :
        /\ status[g] = "NONE"
        /\ status' = [status EXCEPT ![g] = "PENDING"]
        /\ kind' = [kind EXCEPT ![g] = wanted[c]]
    /\ api' = [api EXCEPT ![c] = "idle"]
    /\ wanted' = [wanted EXCEPT ![c] = "CUSTOMER_PREVIEW"]
    /\ UNCHANGED <<limit, used, peak>>

\* The job submits the picture, or fails it at once.
Submit(g) ==
    /\ status[g] = "PENDING"
    /\ \E s \in {"SUBMITTED", "FAILED"} : status' = [status EXCEPT ![g] = s]
    /\ UNCHANGED <<limit, kind, api, wanted, used, peak>>

Finish(g) ==
    /\ status[g] = "SUBMITTED"
    /\ \E s \in {"READY", "REFUSED", "FAILED"} : status' = [status EXCEPT ![g] = s]
    /\ UNCHANGED <<limit, kind, api, wanted, used, peak>>

Next ==
    \/ \E c \in Callers : (\E k \in Kinds : CountUsed(c, k)) \/ AssertUnderDailyCap(c) \/ CreateRow(c)
    \/ \E g \in Pictures : Submit(g) \/ Finish(g)

Spec == Init /\ [][Next]_vars
-----------------------------------------------------------------------------

\* However often the button is pressed, and whatever comes of the pictures, the
\* salon gets beyond its day's pictures, and the look-book beyond its share, by
\* fewer than there were ever on their way at one time.
OvershootIsTheCrowd ==
    limit # 0 =>
        /\ Counted(Kinds) < limit + (IF peak > 0 THEN peak ELSE 1)
        /\ Counted({"CATALOG_REFERENCE"}) < libraryAllowance + (IF peak > 0 THEN peak ELSE 1)
=============================================================================
