------------------------------ MODULE SagaTasks -----------------------------
(***************************************************************************)
(* The four job functions of the saga worker: process_billing,             *)
(* process_inventory, process_logistic and compensation.  Each action is   *)
(* the code between two awaits at which another coroutine, or another      *)
(* process, may see or change the row, the queue or a service.             *)
(***************************************************************************)
EXTENDS ArqQueue, Services

VARIABLES
    answer,    \* the step status a forward job has decided, not yet written
    waiting,   \* the undo requests of a compensation job still unanswered
    ok         \* those answered with 200

taskVars == <<answer, waiting, ok>>

Answers == {"FAILED", "SUCCESS", "SKIPPED"}

TasksTypeOK ==
    /\ answer \in [Orders -> [Steps -> Answers]]
    /\ waiting \in [Orders -> [CompJobs -> SUBSET Steps]]
    /\ ok \in [Orders -> [CompJobs -> SUBSET Steps]]

(* The locals as they are when no job runs.  A forward function starts from *)
(* FAILED, a compensation from no results.                                  *)
NoAnswers == [o \in Orders |-> [s \in Steps |-> "FAILED"]]
NoRequests == [o \in Orders |-> [c \in CompJobs |-> {}]]

TasksInit == answer = NoAnswers /\ waiting = NoRequests /\ ok = NoRequests

Forget(o, s) == answer' = [answer EXCEPT ![o][s] = "FAILED"]
-----------------------------------------------------------------------------
(* process_billing *)

(* Read payment_type, then skip billing or charge. *)
BillingCall(o) ==
    /\ job[o]["billing"] = "call"
    /\ \/ /\ payment[o] = "postpayment"
          /\ answer' = [answer EXCEPT ![o]["billing"] = "SKIPPED"]
          /\ UNCHANGED svc
       \/ /\ payment[o] # "postpayment"
          /\ \E reply \in Replies :
                /\ Serve(o, "billing", "done", reply)
                /\ answer' = [answer EXCEPT ![o]["billing"] =
                                 IF reply = "ok" THEN "SUCCESS" ELSE "FAILED"]
    /\ Advance(o, "billing", "write", {})
    /\ UNCHANGED <<rowVars, retry, stampTaken, waiting, ok>>

(* A mutant: a failed billing step marks the row and starts nothing. *)
BillingJobsForward(o) ==
    IF answer[o]["billing"] \in {"SUCCESS", "SKIPPED"} THEN Parallel ELSE {}

(* A mutant: inventory alone is started. *)
BillingJobsFirst(o) ==
    IF answer[o]["billing"] \in {"SUCCESS", "SKIPPED"}
    THEN {"inventory"} ELSE {"compensation"}

(* What the write transaction of process_billing enqueues, and writes. *)
BillingJobs(o) ==
    IF answer[o]["billing"] \in {"SUCCESS", "SKIPPED"}
    THEN Parallel ELSE {"compensation"}

BillingColumns(o) ==
    IF answer[o]["billing"] \in {"SUCCESS", "SKIPPED"}
    THEN [status[o] EXCEPT !["billing"] = answer[o]["billing"]]
    ELSE [s \in Steps |-> IF s = "billing" THEN "FAILED" ELSE "CANCELLED"]

BillingGlobal(o) ==
    IF answer[o]["billing"] \in {"SUCCESS", "SKIPPED"}
    THEN global[o] ELSE "COMPENSATING"

(* Lock the row and enqueue what comes next, before the commit. *)
BillingWrite(o) ==
    /\ job[o]["billing"] = "write"
    /\ ~RowLocked(o)
    /\ Advance(o, "billing", "commit", BillingJobs(o))
    /\ UNCHANGED <<rowVars, svc, retry, stampTaken, taskVars>>

BillingCommit(o) ==
    /\ job[o]["billing"] = "commit"
    /\ WriteRow(o, BillingColumns(o), BillingGlobal(o))
    /\ Advance(o, "billing", "finish", {})
    /\ Forget(o, "billing")
    /\ UNCHANGED <<svc, retry, stampTaken, waiting, ok>>

ProcessBilling(o) == BillingCall(o) \/ BillingWrite(o) \/ BillingCommit(o)
-----------------------------------------------------------------------------
(* process_inventory and process_logistic: the same function over two      *)
(* columns, each looking at the other's.                                   *)

ParallelCall(o, s) ==
    /\ job[o][s] = "call"
    /\ \E reply \in Replies :
          /\ Serve(o, s, "done", reply)
          /\ answer' = [answer EXCEPT ![o][s] =
                           IF reply = "ok" THEN "SUCCESS" ELSE "FAILED"]
    /\ Advance(o, s, "write", {})
    /\ UNCHANGED <<rowVars, retry, stampTaken, waiting, ok>>

(* A mutant: a compensation is enqueued whatever the answer. *)
ParallelJobsAlways(o, s) ==
    IF global[o] # "COMPENSATING" THEN {"compensation"} ELSE {}

(* The saga was not already rolling back when the row was read. *)
ParallelJobs(o, s) ==
    IF global[o] # "COMPENSATING" /\ answer[o][s] = "FAILED"
    THEN {"compensation"} ELSE {}

(* Mutants: the other parallel step is not looked at; a SKIPPED billing is  *)
(* not counted as done.                                                     *)
BillingDone(o, s) == status[o]["billing"] \in {"SUCCESS", "SKIPPED"}
OthersSucceeded(o, s) == \A t \in Steps \ {s} : status[o][t] = "SUCCESS"

OthersDone(o, s) ==
    /\ \A t \in Parallel \ {s} : status[o][t] = "SUCCESS"
    /\ status[o]["billing"] \in {"SUCCESS", "SKIPPED"}

ParallelColumns(o, s) == [status[o] EXCEPT ![s] = answer[o][s]]

ParallelGlobal(o, s) ==
    IF global[o] = "COMPENSATING" \/ answer[o][s] = "FAILED"
    THEN "COMPENSATING"
    ELSE IF OthersDone(o, s) THEN "COMPLETED" ELSE global[o]

ParallelWrite(o, s) ==
    /\ job[o][s] = "write"
    /\ ~RowLocked(o)
    /\ Advance(o, s, "commit", ParallelJobs(o, s))
    /\ UNCHANGED <<rowVars, svc, retry, stampTaken, taskVars>>

ParallelCommit(o, s) ==
    /\ job[o][s] = "commit"
    /\ WriteRow(o, ParallelColumns(o, s), ParallelGlobal(o, s))
    /\ Advance(o, s, "finish", {})
    /\ Forget(o, s)
    /\ UNCHANGED <<svc, retry, stampTaken, waiting, ok>>

ProcessParallel(o, s) ==
    ParallelCall(o, s) \/ ParallelWrite(o, s) \/ ParallelCommit(o, s)

ProcessInventory(o) == ProcessParallel(o, "inventory")
ProcessLogistic(o) == ProcessParallel(o, "logistics")
-----------------------------------------------------------------------------
(* compensation *)

(* A mutant: every step that was tried is undone, failed ones too. *)
ToUndoTried(o) == {s \in Steps : status[o][s] \in {"SUCCESS", "FAILED"}}

(* billing_refund, inventory_release and logistics_cancel. *)
ToUndo(o) == Succeeded(o)

(* The commit of phase 1. *)
Reopens(o) ==
    /\ global' = [global EXCEPT ![o] = "COMPENSATING"]
    /\ Touch({o})
    /\ UNCHANGED status

(* Phase 1: defer while a step is undecided, else mark the order            *)
(* COMPENSATING, whatever it was, and pick the steps to undo.               *)
CompensationRead(o, c) ==
    /\ job[o][c] = "read"
    /\ ~RowLocked(o)
    /\ IF Pending(o)
       THEN /\ Advance(o, c, "finish", {})
            /\ UNCHANGED <<rowVars, waiting>>
       ELSE /\ Advance(o, c, "undo", {})
            /\ waiting' = [waiting EXCEPT ![o][c] = ToUndo(o)]
            /\ Reopens(o)
    /\ UNCHANGED <<svc, retry, stampTaken, answer, ok>>

(* Phase 2: one of the undo requests sent in parallel is answered. *)
CompensationUndo(o, c, s) ==
    /\ job[o][c] = "undo"
    /\ s \in waiting[o][c]
    /\ \E reply \in Replies :
          /\ Serve(o, s, "undone", reply)
          /\ ok' = IF reply = "ok" THEN [ok EXCEPT ![o][c] = @ \cup {s}] ELSE ok
    /\ waiting' = [waiting EXCEPT ![o][c] = @ \ {s}]
    /\ UNCHANGED <<rowVars, queueVars, answer>>

(* Mutants: an answer counts as success whatever its status; all three      *)
(* columns are marked when anything was undone.                             *)
SettledBlindly(o, c) ==
    [s \in Steps |->
        IF status[o][s] = "SUCCESS" THEN "COMPENSATED" ELSE status[o][s]]
SettledWhole(o, c) ==
    IF ok[o][c] = {} THEN status[o] ELSE [s \in Steps |-> "COMPENSATED"]

(* Phase 3: the columns after the undone steps are marked. *)
Settled(o, c) ==
    [s \in Steps |-> IF s \in ok[o][c] THEN "COMPENSATED" ELSE status[o][s]]

(* Mutants: the charge alone is looked at; the row is looked at before the  *)
(* undone steps are marked.                                                 *)
StillCharged(o, c) == Settled(o, c)["billing"] = "SUCCESS"
StillHeldBefore(o, c) == \E s \in Steps : status[o][s] = "SUCCESS"

StillHeld(o, c) == \E s \in Steps : Settled(o, c)[s] = "SUCCESS"

(* A mutant: one attempt too many. *)
ExhaustedLate(o, c) == retry[o][c] > MaxRetry

Exhausted(o, c) == retry[o][c] >= MaxRetry

Answered(o, c) ==
    /\ job[o][c] = "undo"
    /\ waiting[o][c] = {}
    /\ ~RowLocked(o)

CompensationCancel(o, c) ==
    /\ Answered(o, c)
    /\ ~StillHeld(o, c)
    /\ WriteRow(o, Settled(o, c), "CANCELLED")
    /\ Advance(o, c, "finish", {})
    /\ ok' = [ok EXCEPT ![o][c] = {}]
    /\ UNCHANGED <<svc, retry, stampTaken, answer, waiting>>

(* Out of retries: Slack is called while the row stays locked, then the     *)
(* order is handed to an administrator.                                     *)
CompensationAlert(o, c) ==
    /\ Answered(o, c)
    /\ StillHeld(o, c)
    /\ Exhausted(o, c)
    /\ Advance(o, c, "alert", {})
    /\ UNCHANGED <<rowVars, svc, retry, stampTaken, taskVars>>

CompensationGiveUp(o, c) ==
    /\ job[o][c] = "alert"
    /\ WriteRow(o, Settled(o, c), "MANUAL_INTERVENTION_REQUIRED")
    /\ Advance(o, c, "finish", {})
    /\ ok' = [ok EXCEPT ![o][c] = {}]
    /\ UNCHANGED <<svc, retry, stampTaken, answer, waiting>>

(* Commit what was undone, then enqueue the next attempt. *)
CompensationPartial(o, c) ==
    /\ Answered(o, c)
    /\ StillHeld(o, c)
    /\ ~Exhausted(o, c)
    /\ WriteRow(o, Settled(o, c), global[o])
    /\ Advance(o, c, "requeue", {})
    /\ ok' = [ok EXCEPT ![o][c] = {}]
    /\ UNCHANGED <<svc, retry, stampTaken, answer, waiting>>

(* A mutant: the attempt is not counted. *)
SameRetry(o, c) == retry[o][c]

NextRetry(o, c) == retry[o][c] + 1

FreeStamps(o) == {t \in Stamped : job[o][t] = "absent"}

(* The id carries the present second: if that is taken, the enqueue is      *)
(* dropped and nobody notices.  The next attempt is deferred.  When every   *)
(* slot is in use, a timestamped job hands its own slot to its successor.   *)
CompensationRequeue(o, c) ==
    /\ job[o][c] = "requeue"
    /\ \/ /\ Collides(o)
          /\ Advance(o, c, "finish", {})
          /\ UNCHANGED <<retry, stampTaken>>
       \/ /\ ~stampTaken[o]
          /\ stampTaken' = [stampTaken EXCEPT ![o] = TRUE]
          /\ \/ \E t \in FreeStamps(o) :
                   /\ job' = [job EXCEPT ![o][c] = "finish",
                                        ![o][t] = "deferred"]
                   /\ retry' = [retry EXCEPT ![o][t] = NextRetry(o, c)]
             \/ /\ FreeStamps(o) = {}
                /\ c \in Stamped
                /\ Advance(o, c, "deferred", {})
                /\ retry' = [retry EXCEPT ![o][c] = NextRetry(o, c)]
    /\ UNCHANGED <<rowVars, svc, taskVars>>

Compensation(o, c) ==
    \/ CompensationRead(o, c)
    \/ \E s \in Steps : CompensationUndo(o, c, s)
    \/ CompensationCancel(o, c)
    \/ CompensationAlert(o, c)
    \/ CompensationGiveUp(o, c)
    \/ CompensationPartial(o, c)
    \/ CompensationRequeue(o, c)
-----------------------------------------------------------------------------
(* Failures of the infrastructure *)

StepJobs(o, s) ==
    IF s = "billing" THEN BillingJobs(o) ELSE ParallelJobs(o, s)

StepColumns(o, s) ==
    IF s = "billing" THEN BillingColumns(o) ELSE ParallelColumns(o, s)

StepGlobal(o, s) ==
    IF s = "billing" THEN BillingGlobal(o) ELSE ParallelGlobal(o, s)

(* What a forward job that is broken off may have enqueued: with the row    *)
(* locked, any part of what gather sends side by side.                      *)
MaySend(o, s) ==
    IF job[o][s] = "write" /\ ~RowLocked(o) THEN StepJobs(o, s) ELSE {}

(* The database or Redis raises in a forward job: the transaction rolls     *)
(* back, some of its enqueues have happened, and the handler tries to       *)
(* enqueue a compensation, which may fail too.  A COMMIT that raises may    *)
(* have taken effect all the same.                                          *)
StepFails(o, s) ==
    /\ \/ job[o][s] = "call" /\ s = "billing"
       \/ job[o][s] \in {"write", "commit"}
    /\ \E sent \in SUBSET (MaySend(o, s) \cup {"compensation"}) :
          Advance(o, s, "finish", sent)
    /\ \/ UNCHANGED rowVars
       \/ /\ job[o][s] = "commit"
          /\ WriteRow(o, StepColumns(o, s), StepGlobal(o, s))
    /\ Forget(o, s)
    /\ UNCHANGED <<svc, retry, stampTaken, waiting, ok>>

(* The same in compensation, which catches nothing.  Where phase 3's COMMIT *)
(* or the enqueue of the retry raises after its effect, this is as if it    *)
(* had not raised: nothing is left to do.                                   *)
CompensationFails(o, c) ==
    /\ \/ job[o][c] \in {"read", "alert", "requeue"}
       \/ job[o][c] = "undo" /\ waiting[o][c] = {}
    /\ Advance(o, c, "finish", {})
    /\ \/ UNCHANGED rowVars
       \/ /\ job[o][c] = "read"
          /\ ~RowLocked(o)
          /\ ~Pending(o)
          /\ Reopens(o)
    /\ ok' = [ok EXCEPT ![o][c] = {}]
    /\ UNCHANGED <<svc, retry, stampTaken, answer, waiting>>

(* job_timeout cancels the coroutine.  CancelledError is no Exception, so   *)
(* the handler that enqueues a compensation does not run.  A COMMIT that    *)
(* takes effect all the same is the step's last act anyway.                 *)
StepTimeout(o, s) ==
    /\ job[o][s] \in ForwardPc
    /\ \E sent \in SUBSET MaySend(o, s) : Advance(o, s, "finish", sent)
    /\ Forget(o, s)
    /\ UNCHANGED <<rowVars, svc, retry, stampTaken, waiting, ok>>

CompensationTimeout(o, c) ==
    /\ job[o][c] \in CompensationPc
    /\ Advance(o, c, "finish", {})
    /\ waiting' = [waiting EXCEPT ![o][c] = {}]
    /\ ok' = [ok EXCEPT ![o][c] = {}]
    /\ UNCHANGED <<rowVars, svc, retry, stampTaken, answer>>

(* The worker dies with every job it runs. *)
WorkerCrash ==
    /\ RedeliverAll
    /\ answer' = NoAnswers
    /\ waiting' = NoRequests
    /\ ok' = NoRequests
    /\ UNCHANGED <<rowVars, svc>>
=============================================================================
