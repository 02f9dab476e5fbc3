------------------------------ MODULE Templates -----------------------------
(***************************************************************************)
(* One WhatsApp template of a salon and Meta's copy of it                  *)
(* (marketing/template-meta.service.ts, template.service.ts): submitting,  *)
(* adopting, importing, syncing, editing, deleting.  What the salon sends  *)
(* is a name and a row of values; in which order they go is what the row   *)
(* says, and whether Meta's copy counts the same way nobody checks.        *)
(*                                                                         *)
(* A wording is a number: two wordings name their variables in a different *)
(* order.  DISABLED is what Meta calls DISABLED and still lists, as well   *)
(* as PENDING_DELETION and DELETED (mapStatus); the code takes each for a  *)
(* copy that is gone.  REJECTED and PAUSED are as PENDING: not sent, not   *)
(* submitted again.  The category, which Meta may change, is in Outbox.    *)
(***************************************************************************)
EXTENDS Naturals

CONSTANTS
    Requests,    \* submissions and syncs at work at the same time
    Wordings,    \* texts the template may have
    MaxAsks, MaxEdits, MaxMoves, MaxFaults   \* bounds

Statuses == {"DRAFT", "PENDING", "APPROVED", "DISABLED"}

VARIABLES
    row,      \* the MessageTemplate
    meta,     \* Meta's copy, NoCopy when it has none
    ids,      \* the number of ids Meta has given out
    pc,       \* pc[r]: the next step of a request
    mine,     \* mine[r]: the row as the request has read it
    theirs,   \* theirs[r]: the copy as Meta has answered it
    asks, edits, moves, faults,   \* bounds
    strayed,  \* history: Meta held a copy this row did not record, or had let go of
    crossed   \* history: two requests were at the row at once

vars == <<row, meta, ids, pc, mine, theirs, asks, edits, moves, faults, strayed, crossed>>

NoCopy == [id |-> 0, status |-> "DRAFT", wording |-> 0]

\* providerTemplateName: none, that of the copy, or one Meta does not have.
Names == {"none", "own", "other"}

\* id is providerTemplateId, order the wording whose metaVariableOrder is recorded.
Fresh(w) ==
    [there |-> TRUE, id |-> 0, name |-> "none", status |-> "DRAFT", wording |-> w, order |-> 0]

Forgotten == [Fresh(0) EXCEPT !.there = FALSE]

Init ==
    /\ \E w \in Wordings : row = Fresh(w)
    /\ meta = NoCopy /\ ids = 0
    /\ pc = [r \in Requests |-> "idle"]
    /\ mine = [r \in Requests |-> Forgotten] /\ theirs = [r \in Requests |-> NoCopy]
    /\ asks = 0 /\ edits = 0 /\ moves = 0 /\ faults = 0
    /\ strayed = FALSE /\ crossed = FALSE

Goto(r, step) == pc' = [pc EXCEPT ![r] = step]

\* The request is over, and what it has read is gone.
End(r) ==
    /\ Goto(r, "idle")
    /\ mine' = [mine EXCEPT ![r] = Forgotten]
    /\ theirs' = [theirs EXCEPT ![r] = NoCopy]

Begin(r, step) ==
    /\ pc[r] = "idle" /\ asks < MaxAsks
    /\ asks' = asks + 1
    /\ crossed' = (crossed \/ \E q \in Requests \ {r} : pc[q] # "idle")
    /\ Goto(r, step)
    /\ UNCHANGED <<row, meta, ids, edits, moves, faults, strayed>>

Fault == faults < MaxFaults /\ faults' = faults + 1
-----------------------------------------------------------------------------
(* submitTemplateToMeta *)

\* "Already on your WhatsApp account", except when it is DISABLED: "the copy that id
\* pointed at is gone".
SubmitReads(r) ==
    /\ row.there /\ (row.id = 0 \/ row.status = "DISABLED")
    /\ mine' = [mine EXCEPT ![r] = row]
    /\ Begin(r, "mark")
    /\ UNCHANGED theirs

\* requestedCategory and submittedAt; the id of a DISABLED copy goes, listed or not.
Mark(r) ==
    LET forgets == row.there /\ mine[r].status = "DISABLED" IN
    /\ pc[r] = "mark"
    /\ row' = IF forgets THEN [row EXCEPT !.id = 0] ELSE row
    /\ strayed' = (strayed \/ (forgets /\ meta # NoCopy))
    /\ IF row.there THEN Goto(r, "ask") /\ UNCHANGED <<mine, theirs>> ELSE End(r)
    /\ UNCHANGED <<meta, ids, asks, edits, moves, faults, crossed>>

\* Accepted, and in review or through it.
MetaAccepts(r) ==
    /\ pc[r] = "ask" /\ meta = NoCopy
    /\ \E s \in {"PENDING", "APPROVED"} :
          meta' = [id |-> ids + 1, status |-> s, wording |-> mine[r].wording]
    /\ ids' = ids + 1
    /\ \/ /\ theirs' = [theirs EXCEPT ![r] = meta']
          /\ Goto(r, "record")
          /\ UNCHANGED <<mine, faults, strayed>>
       \/ Fault /\ End(r) /\ strayed' = TRUE     \* the answer is lost
    /\ UNCHANGED <<row, asks, edits, moves, crossed>>

\* A name that is taken; or one Meta reserves after a deletion, a fault, a bad wording.
MetaRefuses(r) ==
    /\ pc[r] = "ask"
    /\ \/ meta # NoCopy /\ Goto(r, "list") /\ UNCHANGED <<mine, theirs>>
       \/ End(r)
    /\ UNCHANGED <<row, meta, ids, asks, edits, moves, faults, strayed, crossed>>

\* Faulty variant: the answer is recorded, the order of the variables is not.
LinkedWithoutOrder(r) ==
    [row EXCEPT !.id = theirs[r].id, !.name = "own", !.status = theirs[r].status]

\* The row linked to the copy, with the order of the wording the request has read.
Linked(r) ==
    [row EXCEPT !.id = theirs[r].id, !.name = "own", !.status = theirs[r].status,
                !.order = mine[r].wording]

Record(r) ==
    /\ pc[r] = "record" /\ row.there
    /\ row' = Linked(r)
    /\ End(r)
    /\ UNCHANGED <<meta, ids, asks, edits, moves, faults, strayed, crossed>>

\* adoptExistingTemplate: Meta's list, and the row as if it had been submitted.
ListCopies(r) ==
    /\ pc[r] = "list"
    /\ \/ /\ meta # NoCopy
          /\ theirs' = [theirs EXCEPT ![r] = meta]
          /\ Goto(r, "adopt")
          /\ UNCHANGED mine
       \/ meta = NoCopy /\ End(r)
    /\ UNCHANGED <<row, meta, ids, asks, edits, moves, faults, strayed, crossed>>

Adopt(r) ==
    /\ pc[r] = "adopt" /\ row.there
    /\ row' = Linked(r)
    /\ End(r)
    /\ UNCHANGED <<meta, ids, asks, edits, moves, faults, strayed, crossed>>

\* The update throws ("it could not be recorded here"), or the process dies.
CutShort(r) ==
    /\ pc[r] # "idle"
    /\ Fault \/ (pc[r] \in {"record", "adopt"} /\ ~row.there /\ UNCHANGED faults)
    /\ strayed' = (strayed \/ pc[r] = "record")
    /\ End(r)
    /\ UNCHANGED <<row, meta, ids, asks, edits, moves, crossed>>
-----------------------------------------------------------------------------
(* syncTemplatesFromMeta, importTemplateFromMeta *)

\* Meta's list first, the rows after it.
SyncLists(r) ==
    /\ theirs' = [theirs EXCEPT ![r] = meta]
    /\ Begin(r, "sync")
    /\ UNCHANGED mine

SyncReads(r) ==
    /\ pc[r] = "sync"
    /\ \/ /\ row.there
          /\ mine' = [mine EXCEPT ![r] = row]
          /\ Goto(r, "write")
          /\ UNCHANGED theirs
       \/ ~row.there /\ End(r)
    /\ UNCHANGED <<row, meta, ids, asks, edits, moves, faults, strayed, crossed>>

\* The row is looked up by the name Meta knows, and by its own name without one.  A row
\* that was never submitted is left alone; one that is not in the list is DISABLED; one
\* that agrees is written only for a new category or reason.  The order of the variables is
\* not looked at.
SyncWrites(r) ==
    LET gone == theirs[r] = NoCopy \/ mine[r].name = "other"
        same == mine[r].id = theirs[r].id /\ mine[r].status = theirs[r].status
    IN
    /\ pc[r] = "write"
    /\ \/ /\ \/ ~row.there
             \/ gone /\ (mine[r].id = 0 \/ mine[r].status = "DISABLED")
             \/ ~gone /\ same
          /\ UNCHANGED row
       \/ /\ row.there /\ gone /\ mine[r].id # 0 /\ mine[r].status # "DISABLED"
          /\ row' = [row EXCEPT !.status = "DISABLED"]
       \/ /\ row.there /\ ~gone
          /\ row' = [row EXCEPT !.status = theirs[r].status, !.id = theirs[r].id,
                                !.name = "own"]
    /\ End(r)
    /\ UNCHANGED <<meta, ids, asks, edits, moves, faults, strayed, crossed>>

\* The copy as the salon's own: what Meta counts is what the row counts.
ImportReads(r) ==
    /\ meta # NoCopy /\ ~row.there
    /\ theirs' = [theirs EXCEPT ![r] = meta]
    /\ Begin(r, "import")
    /\ UNCHANGED mine

Import(r) ==
    LET copy == theirs[r] IN
    /\ pc[r] = "import"
    /\ row' = IF row.there THEN row
              ELSE [there |-> TRUE, id |-> copy.id, name |-> "own", status |-> copy.status,
                    wording |-> copy.wording, order |-> copy.wording]
    /\ End(r)
    /\ UNCHANGED <<meta, ids, asks, edits, moves, faults, strayed, crossed>>
-----------------------------------------------------------------------------
(* The salon and Meta *)

\* updateTemplate: the body may name another text, another status and another name on
\* Meta's side; resetTemplateToDefault, the text alone.
Edit(w) ==
    /\ row.there /\ edits < MaxEdits
    /\ edits' = edits + 1
    /\ \E status \in Statuses, name \in Names :
          /\ name # "none" \/ row.name = "none"
          /\ row' = [row EXCEPT !.wording = w, !.status = status, !.name = name]
    /\ UNCHANGED <<meta, ids, pc, mine, theirs, asks, moves, faults, strayed, crossed>>

\* deleteTemplate for good: "refused while Meta still holds the template", unless the
\* row says DISABLED.
Delete ==
    /\ row.there /\ edits < MaxEdits
    /\ row.id = 0 \/ row.status = "DISABLED"
    /\ edits' = edits + 1
    /\ row' = [row EXCEPT !.there = FALSE]
    /\ strayed' = (strayed \/ (row.id # 0 /\ meta.id = row.id))
    /\ UNCHANGED <<meta, ids, pc, mine, theirs, asks, moves, faults, crossed>>

\* Meta decides, pauses, disables, takes that back, or deletes.
MetaMoves ==
    /\ meta # NoCopy /\ moves < MaxMoves
    /\ moves' = moves + 1
    /\ \/ meta' = NoCopy
       \/ \E s \in Statuses \ {"DRAFT"} : meta' = [meta EXCEPT !.status = s]
    /\ UNCHANGED <<row, ids, pc, mine, theirs, asks, edits, faults, strayed, crossed>>

\* Somebody writes one of the same name in WhatsApp Manager.
MadeByHand ==
    /\ meta = NoCopy /\ moves < MaxMoves
    /\ moves' = moves + 1
    /\ ids' = ids + 1
    /\ \E w \in Wordings : meta' = [id |-> ids + 1, status |-> "APPROVED", wording |-> w]
    /\ strayed' = TRUE
    /\ UNCHANGED <<row, pc, mine, theirs, asks, edits, faults, crossed>>
-----------------------------------------------------------------------------
Submit(r) ==
    \/ SubmitReads(r) \/ Mark(r) \/ MetaAccepts(r) \/ MetaRefuses(r) \/ Record(r)
    \/ ListCopies(r) \/ Adopt(r) \/ CutShort(r)

Next ==
    \/ \E r \in Requests :
          \/ Submit(r) \/ SyncLists(r) \/ SyncReads(r) \/ SyncWrites(r)
          \/ ImportReads(r) \/ Import(r)
    \/ \E w \in Wordings : Edit(w)
    \/ Delete \/ MetaMoves \/ MadeByHand

Spec == Init /\ [][Next]_vars
-----------------------------------------------------------------------------
\* sendabilityProblem finds none.
Sendable == row.there /\ row.status = "APPROVED" /\ row.name # "none"

\* metaVariableOrder, and without one the order of the text as it is.
SentOrder == IF row.order # 0 THEN row.order ELSE row.wording

\* "The mapping is fixed the moment a template is approved", or "every customer receives
\* another customer's values": what is sent under the name of a copy Meta holds is in
\* that copy's order, whatever text, status or name is typed in and however often the copy
\* is deleted and submitted again.  Unless Meta has a copy whose submission this row did
\* not record, or one the row let go of because it said DISABLED, which a second
\* submission adopts with an order of its own; or two requests ran at once.
ValuesInMetasOrder ==
    ~strayed /\ ~crossed =>
        /\ Sendable /\ row.id # 0 /\ meta.id = row.id => SentOrder = meta.wording
        /\ row.there /\ row.id # 0 => row.order # 0
=============================================================================
