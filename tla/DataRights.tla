----------------------------- MODULE DataRights -----------------------------
(* What a person may ask of their own account: internal/datarights (a copy of it, and its         *)
(* deletion) with the worker's carryOutDataRequests.                                              *)
(*                                                                                                *)
(* The requests of one person.  Requests are made and withdrawn by API handlers and carried out   *)
(* by workers, which claim them in batches and go through a batch one request at a time; every    *)
(* statement may fail, and a worker may stop between any two.  Time is a clock of whole units.    *)
EXTENDS Naturals, FiniteSets

CONSTANTS
    MaxRequests,      \* bound: requests ever made
    AskHandlers,      \* POST requests in progress at once
    DataWorkers,      \* workers
    DataRequestBatch, \* dataRequestBatch of worker.go
    DeletionDelay,    \* how long a deletion waits
    RetryDelay,       \* how long a failed request waits
    MaxTime           \* bound: the clock

VARIABLES
    drNow,      \* the clock
    drRow,      \* request -> its row: type, status, when it was made, execute_after
    drAsk,      \* handler -> the type it looked for and found no open request of, or "none"
    drWork,     \* worker -> [batch : claimed requests not yet finished, mark : the one carried
                \*   out and not yet recorded, or 0]
    drAccount,  \* the users row: active or deleted
    drDone,     \* request -> how often it was carried out
    drTaken     \* request -> what its person was told: open, "early" when it was withdrawn
                \*   while it waited and nothing was done, "late" when it was withdrawn afterwards

drVars == <<drNow, drRow, drAsk, drWork, drAccount, drDone, drTaken>>

Rows == 1 .. MaxRequests
Types == {"export", "delete"}
NoRow == [type |-> "none", status |-> "none", made |-> 0, due |-> 0]
Resting == [batch |-> {}, mark |-> 0]
Open == {"pending", "processing"}

Init ==
    /\ drNow = 0
    /\ drRow = [r \in Rows |-> NoRow]
    /\ drAsk = [h \in AskHandlers |-> "none"]
    /\ drWork = [w \in DataWorkers |-> Resting]
    /\ drAccount = "active"
    /\ drDone = [r \in Rows |-> 0]
    /\ drTaken = [r \in Rows |-> "open"]

Tick ==
    /\ drNow < MaxTime
    /\ drNow' = drNow + 1
    /\ UNCHANGED <<drRow, drAsk, drWork, drAccount, drDone, drTaken>>

-----------------------------------------------------------------------------
(* Asking *)

OpenRequests(type) == {r \in Rows : drRow[r].type = type /\ drRow[r].status \in Open}

\* The look for an open request of the kind; FOR UPDATE locks the rows there are.  Deletion ends
\* every session, so a deleted account asks for nothing.
LookForOpen(h, type) ==
    /\ drAsk[h] = "none" /\ drAccount = "active"
    /\ OpenRequests(type) = {}
    /\ drAsk' = [drAsk EXCEPT ![h] = type]
    /\ UNCHANGED <<drNow, drRow, drWork, drAccount, drDone, drTaken>>

\* An export starts at once; a deletion has its delay.
executeAfter(type) == IF type = "delete" THEN drNow + DeletionDelay ELSE drNow

Create(h, r) ==
    /\ drAsk[h] # "none"
    /\ drRow[r].status = "none" /\ \A q \in Rows : q < r => drRow[q].status # "none"
    /\ drRow' = [drRow EXCEPT ![r] =
          [type |-> drAsk[h], status |-> "pending", made |-> drNow, due |-> executeAfter(drAsk[h])]]
    /\ drAsk' = [drAsk EXCEPT ![h] = "none"]
    /\ UNCHANGED <<drNow, drWork, drAccount, drDone, drTaken>>

Cancel(r) ==
    /\ drRow[r].status \in Open
    /\ drRow' = [drRow EXCEPT ![r].status = "cancelled"]

cancel(r) ==
    /\ drAccount = "active"
    /\ Cancel(r)
    /\ drTaken' = [drTaken EXCEPT ![r] = 
          IF drRow[r].status = "pending" /\ drDone[r] = 0 THEN "early" ELSE "late"]
    /\ UNCHANGED <<drNow, drAsk, drWork, drAccount, drDone>>

-----------------------------------------------------------------------------
(* Carrying out *)

Due == {r \in Rows : drRow[r].status = "pending" /\ drRow[r].due <= drNow}

\* The first of them, in the order of their times.
DueBatch(batch) ==
    /\ batch # {} /\ batch \subseteq Due /\ Cardinality(batch) <= DataRequestBatch
    /\ \A r \in batch, q \in Due \ batch : drRow[r].due <= drRow[q].due

ClaimDue(w, batch) ==
    /\ drWork[w] = Resting
    /\ DueBatch(batch)
    /\ drRow' = [r \in Rows |-> IF r \in batch THEN [drRow[r] EXCEPT !.status = "processing"] ELSE drRow[r]]
    /\ drWork' = [drWork EXCEPT ![w].batch = batch]
    /\ UNCHANGED <<drNow, drAsk, drAccount, drDone, drTaken>>

\* The statements that finish or give back a request find it only while it is being processed.
Settle(r, status) ==
    drRow' = IF drRow[r].status = "processing" THEN [drRow EXCEPT ![r].status = status] ELSE drRow

\* A form that gives a request back whatever became of it meanwhile.
ReturnAny(r) ==
    drRow' = [drRow EXCEPT ![r].status = "pending", ![r].due = drNow + RetryDelay]

MarkFailed(r) ==
    drRow' = IF drRow[r].status = "processing"
             THEN [drRow EXCEPT ![r].status = "pending", ![r].due = drNow + RetryDelay] ELSE drRow

MarkReady(r) == Settle(r, "ready")

MarkCompleted(r) == Settle(r, "completed")

Carried(r) == drDone' = [drDone EXCEPT ![r] = IF @ < 2 THEN @ + 1 ELSE @]

\* The sections gathered, the archive uploaded and its media row written.
Export(r) ==
    /\ drRow[r].type = "export"
    /\ Carried(r)
    /\ UNCHANGED drAccount

\* The account emptied, in one transaction that does not look at the request.
Delete(r) ==
    /\ drRow[r].type = "delete"
    /\ Carried(r)
    /\ drAccount' = "deleted"

carryOut(w, r) ==
    /\ drWork[w].mark = 0 /\ r \in drWork[w].batch
    /\ Export(r) \/ Delete(r)
    /\ drWork' = [drWork EXCEPT ![w].mark = r]
    /\ UNCHANGED <<drNow, drRow, drAsk, drTaken>>

markDone(w, r) ==
    /\ drWork[w].mark = r
    /\ IF drRow[r].type = "export" THEN MarkReady(r) ELSE MarkCompleted(r)
    /\ drWork' = [drWork EXCEPT ![w] = [batch |-> @.batch \ {r}, mark |-> 0]]
    /\ UNCHANGED <<drNow, drAsk, drAccount, drDone, drTaken>>

\* Either statement failed: the request goes back, or stays as it is when that fails too.
carryOutFails(w, r) ==
    /\ \/ drWork[w].mark = 0 /\ r \in drWork[w].batch
       \/ drWork[w].mark = r
    /\ MarkFailed(r) \/ UNCHANGED drRow
    /\ drWork' = [drWork EXCEPT ![w] = [batch |-> @.batch \ {r}, mark |-> 0]]
    /\ UNCHANGED <<drNow, drAsk, drAccount, drDone, drTaken>>

\* The worker's process ends; what it had claimed stays claimed.
Stop(w) ==
    /\ drWork[w] # Resting
    /\ drWork' = [drWork EXCEPT ![w] = Resting]
    /\ UNCHANGED <<drNow, drRow, drAsk, drAccount, drDone, drTaken>>

Next ==
    \/ Tick
    \/ \E h \in AskHandlers :
        \/ \E type \in Types : LookForOpen(h, type)
        \/ \E r \in Rows : Create(h, r)
    \/ \E r \in Rows : cancel(r)
    \/ \E w \in DataWorkers :
        \/ \E batch \in SUBSET Rows : ClaimDue(w, batch)
        \/ \E r \in Rows : carryOut(w, r) \/ markDone(w, r) \/ carryOutFails(w, r)
        \/ Stop(w)

Spec == Init /\ [][Next]_drVars

-----------------------------------------------------------------------------
(* Properties *)

\* Nothing is carried out before its time, nor a request withdrawn while it waited, nor one that
\* no worker has; a request withdrawn at any time is never waiting again; and an account is
\* deleted only on a request that had its full delay (ClaimDue, Cancel, MarkFailed, Delete).
DeletionHasItsDelay ==
    /\ \A r \in Rows :
        /\ drDone[r] > 0 =>
              /\ drTaken[r] # "early"
              /\ drRow[r].type = "delete" => drRow[r].made + DeletionDelay <= drNow
        /\ drTaken[r] # "open" => drRow[r].status = "cancelled"
        /\ drRow[r].status \in {"ready", "completed"} => drDone[r] > 0
    /\ drAccount = "deleted" => \E r \in Rows : drRow[r].type = "delete" /\ drDone[r] > 0

-----------------------------------------------------------------------------
(* What the repository says of this code and the code does not do *)

\* datarights.go:157 says of a request "midway through" that it "is cancelled here and refused
\* when it tries to complete": its last statement is refused, and the account is deleted all the
\* same, before or after its person was told that the deletion is withdrawn.
WithdrawnDeletionKeepsTheAccount ==
    [][drAccount' = "deleted" /\ drAccount = "active" =>
          \E r \in Rows : drDone'[r] > drDone[r] /\ drTaken[r] = "open"]_drVars

\* datarights.go:102 says "two devices asking together cannot both get through": where there is no
\* open request there is no row to lock.
OneOpenRequest == \A type \in Types : Cardinality(OpenRequests(type)) <= 1

\* datarights.go:180 says "each request is carried out exactly once": when the statement that
\* records the outcome fails, the request goes back and is carried out again.
CarriedOutOnce == \A r \in Rows : drDone[r] <= 1

\* worker.go:306 says that a person "should not have to ask again": a request whose worker stopped
\* is claimed by nobody, and while it is open no other may be made.
ClaimedIsBeingDone ==
    \A r \in Rows : drRow[r].status = "processing" => \E w \in DataWorkers : r \in drWork[w].batch
=============================================================================
