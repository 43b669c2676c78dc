-------------------------------- MODULE Saga --------------------------------
(***************************************************************************)
(* The whole orchestrator: the API, the queue and its worker, the external *)
(* services and the scheduler around one table of orders.                  *)
(*                                                                         *)
(* Faults names what may go wrong beside a service's refusal:              *)
(*   "infra"    the database or Redis raises inside a job                  *)
(*   "timeout"  arq cancels a job at job_timeout                           *)
(*   "crash"    the worker dies and its jobs are delivered again           *)
(*   "api"      the API dies, or Redis raises, between commit and enqueue  *)
(*   "sched"    the scheduler dies, or raises, inside a cron job           *)
(*   "slow"     a row may grow old while a job for it waits or runs, or    *)
(*              before the poll comes round; otherwise jobs and polls keep *)
(*              ahead of the scheduler's thresholds                        *)
(*   "expiry"   a job's result may expire while the order is still open    *)
(* The first five are counted, MaxMishaps in all.                          *)
(***************************************************************************)
EXTENDS SagaTasks, Scheduler, OrderApi

CONSTANTS Faults, MaxMishaps

VARIABLE mishaps   \* the faults that have happened

vars == <<rowVars, payment, queueVars, svc, taskVars, schedVars, apiVars,
          mishaps>>

FaultKinds ==
    {"infra", "timeout", "crash", "api", "sched", "slow", "expiry"}

ASSUME FaultsAssumption == Faults \subseteq FaultKinds /\ MaxMishaps \in Nat

Init ==
    /\ TableInit
    /\ QueueInit
    /\ ServicesInit
    /\ TasksInit
    /\ SchedulerInit
    /\ ApiInit
    /\ mishaps = 0

Mishap(kind) ==
    /\ kind \in Faults
    /\ mishaps < MaxMishaps
    /\ mishaps' = mishaps + 1

-----------------------------------------------------------------------------
(* The components' actions, each leaving the other components alone.       *)

Outside == UNCHANGED <<payment, schedVars, apiVars>>

BillingStep(o) == ProcessBilling(o) /\ Outside /\ UNCHANGED mishaps
InventoryStep(o) == ProcessInventory(o) /\ Outside /\ UNCHANGED mishaps
LogisticStep(o) == ProcessLogistic(o) /\ Outside /\ UNCHANGED mishaps
CompensationStep(o, c) == Compensation(o, c) /\ Outside /\ UNCHANGED mishaps

WorkerStep(o, j) ==
    /\ \/ Take(o, j)
       \/ Finish(o, j)
    /\ Outside
    /\ UNCHANGED <<rowVars, svc, taskVars, mishaps>>

WorkerMishap ==
    /\ \/ /\ Mishap("infra")
          /\ \E o \in Orders :
                \/ \E s \in Steps : StepFails(o, s)
                \/ \E c \in CompJobs : CompensationFails(o, c)
       \/ /\ Mishap("timeout")
          /\ \E o \in Orders :
                \/ \E s \in Steps : StepTimeout(o, s)
                \/ \E c \in CompJobs : CompensationTimeout(o, c)
       \/ Mishap("crash") /\ WorkerCrash
    /\ Outside

PollStep ==
    /\ \/ PollRead
       \/ \E o \in Orders : PollEnqueue(o)
       \/ PollCommit
    /\ UNCHANGED <<payment, svc, taskVars, apiVars, mishaps>>

DeadStep ==
    /\ DeadRead \/ DeadCommit
    /\ UNCHANGED <<payment, svc, taskVars, apiVars, mishaps>>

SchedulerMishap ==
    /\ Mishap("sched")
    /\ SchedulerFails \/ \E o \in Orders : PollEnqueueFails(o)
    /\ UNCHANGED <<payment, svc, taskVars, apiVars>>

ApiCreate ==
    /\ \E S \in SUBSET Orders : CreateOrders(S)
    /\ UNCHANGED <<payment, svc, taskVars, schedVars, mishaps>>

ApiEnqueue(o) ==
    /\ EnqueueBilling(o)
    /\ UNCHANGED <<payment, svc, taskVars, schedVars, mishaps>>

ApiMishap ==
    /\ Mishap("api")
    /\ \E S \in SUBSET Orders : ApiFails(S)
    /\ UNCHANGED <<payment, svc, taskVars, schedVars>>

AdminStep(o) ==
    /\ ForceCancelRead(o) \/ ForceCancelWrite(o)
    /\ UNCHANGED <<payment, svc, taskVars, schedVars, mishaps>>
-----------------------------------------------------------------------------
(* Time *)

(* Nothing is under way for the order: no job, no request, no cron job. *)
Idle(o) ==
    /\ \A j \in JobIds : ~Live(o, j)
    /\ request[o] # "committed"
    /\ o \notin pollSet \cup touched \cup deadSet

(* Only the age of an order that is still open is ever looked at.  Without  *)
(* "slow", a row that grows old is one nobody works on, and one that the    *)
(* next poll picks up does not reach the hour.                              *)
Elapse(o) ==
    /\ global[o] \in {"PROCESSING", "COMPENSATING"}
    /\ "slow" \notin Faults => Idle(o) /\ o \notin StuckOrders
    /\ GrowOld(o)
    /\ UNCHANGED <<payment, queueVars, svc, taskVars, schedVars, apiVars,
                   mishaps>>

Expire(o, j) ==
    /\ "expiry" \in Faults
    /\ ResultExpires(o, j)
    /\ Outside
    /\ UNCHANGED <<rowVars, svc, taskVars, mishaps>>

SecondPasses(o) ==
    /\ NextSecond(o)
    /\ Outside
    /\ UNCHANGED <<rowVars, svc, taskVars, mishaps>>
-----------------------------------------------------------------------------
Next ==
    \/ \E o \in Orders :
          \/ ApiEnqueue(o)
          \/ AdminStep(o)
          \/ BillingStep(o)
          \/ InventoryStep(o)
          \/ LogisticStep(o)
          \/ \E c \in CompJobs : CompensationStep(o, c)
          \/ \E j \in JobIds : WorkerStep(o, j) \/ Expire(o, j)
          \/ Elapse(o)
          \/ SecondPasses(o)
    \/ ApiCreate
    \/ PollStep
    \/ DeadStep
    \/ WorkerMishap
    \/ SchedulerMishap
    \/ ApiMishap

Spec == Init /\ [][Next]_vars

(***************************************************************************)
(* The worker runs every coroutine that can run and takes every job that   *)
(* waits; cron starts both scheduler jobs again and again; time passes.    *)
(* Clients, administrators, services' answers and faults owe nothing,      *)
(* except that an API request that has committed goes on to its enqueue    *)
(* unless it dies.  Weak fairness is enough: a row lock or a worker slot   *)
(* is not taken away again and again, since every order has few jobs.      *)
(***************************************************************************)
Fairness ==
    /\ \A o \in Orders :
          /\ WF_vars(ApiEnqueue(o))
          /\ WF_vars(BillingStep(o))
          /\ WF_vars(InventoryStep(o))
          /\ WF_vars(LogisticStep(o))
          /\ \A c \in CompJobs : WF_vars(CompensationStep(o, c))
          /\ \A j \in JobIds : WF_vars(WorkerStep(o, j))
          /\ WF_vars(Elapse(o))
          /\ WF_vars(SecondPasses(o))
    /\ WF_vars(PollStep)
    /\ WF_vars(DeadStep)

FairSpec == Spec /\ Fairness
-----------------------------------------------------------------------------
TypeOK ==
    /\ TableTypeOK
    /\ QueueTypeOK
    /\ ServicesTypeOK
    /\ TasksTypeOK
    /\ SchedulerTypeOK
    /\ ApiTypeOK
    /\ mishaps \in 0 .. MaxMishaps
-----------------------------------------------------------------------------
(* Safety *)

Final == {"COMPLETED", "CANCELLED", "MANUAL_INTERVENTION_REQUIRED"}

Forward(o) == {s \in Steps : Live(o, s)}
Rollbacks(o) == {c \in CompJobs : Live(o, c)}

(* A service is asked to undo only what it has done, and only once every    *)
(* step of the order is decided: no step can still succeed afterwards.      *)
UndoOnlyWhatWasDone ==
    [][\A o \in Orders, s \in Steps :
          svc'[o][s] = "undone" /\ svc[o][s] # "undone"
          => svc[o][s] = "done" /\ ~Pending(o)]_vars

(* What makes that, and TypeOK, inductive.  A job about to enqueue another  *)
(* attempt has one left; a job that undoes has seen every step decided; a   *)
(* step that shows SUCCESS or COMPENSATED, in the row or in a job's locals, *)
(* has been done at its service.                                            *)
RetryInv ==
    \A o \in Orders, c \in CompJobs :
        job[o][c] = "requeue" => retry[o][c] < MaxRetry

DecidedInv ==
    \A o \in Orders, c \in CompJobs : job[o][c] = "undo" => ~Pending(o)

DoneInv ==
    \A o \in Orders, s \in Steps :
        svc[o][s] = "none" =>
            /\ status[o][s] \notin {"SUCCESS", "COMPENSATED"}
            /\ answer[o][s] # "SUCCESS"
            /\ \A c \in CompJobs : s \notin waiting[o][c] \cup ok[o][c]

SagaInv == RetryInv /\ DecidedInv /\ DoneInv

(* What holds of an order as long as no job is delivered twice.  Its step s *)
(* is ahead: the service may still be asked to act.                         *)
Ahead(o, s) ==
    \/ request[o] # "ended"
    \/ \E t \in {"billing", s} : job[o][t] \in {"queued", "call"}
    \/ s # "billing" /\ job[o]["billing"] = "write"

(* A step that is ahead is untouched, in its row and at its service. *)
AheadInv(o) ==
    \A s \in Steps :
        Ahead(o, s) => status[o][s] = "PENDING" /\ svc[o][s] = "none"

(* The order of the start: the row, then billing, then the parallel steps,  *)
(* which never run when billing failed.                                     *)
StartInv(o) ==
    /\ request[o] = "none" <=> ~Exists(o)
    /\ o \in deadSet \/ admin[o] # "idle" => Exists(o)
    /\ request[o] # "ended" => \A s \in Steps : job[o][s] = "absent"
    /\ \A s \in Steps : job[o][s] # "deferred"
    /\ \A s \in Parallel :
          /\ job[o]["billing"] \in {"queued", "call", "write"}
                => job[o][s] = "absent"
          /\ job[o]["billing"] = "commit" /\ answer[o]["billing"] = "FAILED"
                => job[o][s] = "absent" /\ svc[o][s] = "none"

(* A forward job that holds an answer finds its column still PENDING, and   *)
(* billing, which may write all three, finds all three PENDING.             *)
WriteInv(o) ==
    /\ \A s \in Steps :
          job[o][s] \in {"write", "commit"} => status[o][s] = "PENDING"
    /\ \A s \in Parallel :
          job[o]["billing"] = "commit" =>
              status[o][s] = "PENDING" /\ job[o][s] # "commit"

(* Billing alone is skipped, and only for a postpaid order. *)
SkipInv(o) ==
    \A s \in Steps :
        "SKIPPED" \in {status[o][s], answer[o][s]} =>
            s = "billing" /\ payment[o] = "postpayment"

(* While a step is undecided nothing has been undone.  What a compensation  *)
(* undoes shows SUCCESS, or COMPENSATED by another one's hand, and only     *)
(* what was undone is COMPENSATED.                                          *)
UndoneInv(o) ==
    \A s \in Steps :
        /\ Pending(o) => svc[o][s] # "undone"
        /\ status[o][s] = "COMPENSATED" => svc[o][s] = "undone"
        /\ \A c \in CompJobs :
              /\ s \in waiting[o][c] \cup ok[o][c] =>
                    status[o][s] \in {"SUCCESS", "COMPENSATED"}
              /\ s \in ok[o][c] => svc[o][s] = "undone"

(* An order that is PROCESSING has failed nowhere, is not being rolled      *)
(* back, and waits for a step.                                              *)
ProcessingInv(o) ==
    /\ global[o] = "PROCESSING" =>
          /\ Pending(o)
          /\ \A s \in Steps :
                status[o][s] \in {"PENDING", "SUCCESS", "SKIPPED"}
    /\ \A c \in CompJobs :
          job[o][c] \in {"undo", "alert"} =>
              global[o] \notin {"ABSENT", "PROCESSING"}

(* COMPLETED: every step is decided, all that is needed is done, and nobody *)
(* is about to undo it without having said so.                              *)
CompletedInv(o) ==
    global[o] = "COMPLETED" =>
        /\ ~Pending(o)
        /\ \A c \in CompJobs : job[o][c] # "undo"
        /\ \A s \in Steps :
              s # "billing" \/ payment[o] = "prepayment"
              => svc[o][s] = "done"

(* CANCELLED by the saga: every step is decided and none shows SUCCESS. *)
CancelledInv(o) ==
    global[o] = "CANCELLED" /\ admin[o] # "forced" =>
        ~Pending(o) /\ Succeeded(o) = {}

(* While no answer is lost, what is done shows SUCCESS or is about to. *)
AnswerInv(o) ==
    ~Lossy =>
        \A s \in Steps :
            svc[o][s] = "done" =>
                /\ status[o][s] \in {"PENDING", "SUCCESS"}
                /\ job[o][s] \in {"write", "commit"}
                      => answer[o][s] = "SUCCESS"

OnceAt(o) ==
    /\ AheadInv(o)
    /\ StartInv(o)
    /\ WriteInv(o)
    /\ SkipInv(o)
    /\ UndoneInv(o)
    /\ ProcessingInv(o)
    /\ CompletedInv(o)
    /\ CancelledInv(o)
    /\ AnswerInv(o)

OnceInv == \A o \in Orders : OnceAt(o)

(* The row's lock is exclusive, and past phase 1 a compensation has seen    *)
(* every step decided.  This holds whatever fails.                          *)
HoldAt(o) ==
    /\ \A i, j \in JobIds :
          {job[o][i], job[o][j]} \subseteq {"commit", "alert"} => i = j
    /\ \A c \in CompJobs :
          job[o][c] \in {"undo", "alert", "requeue"} => ~Pending(o)

HoldInv == \A o \in Orders : HoldAt(o)

(* What holds as well while jobs and polls keep ahead of the scheduler's    *)
(* thresholds and no poll loses what it decided.  The steps of an order are *)
(* over when none will touch its row again; an attempt at rolling it back   *)
(* is under way until its job has no more to do; it rests when neither is   *)
(* the case.                                                                *)
StepsOver(o) ==
    /\ request[o] = "ended"
    /\ \A s \in Steps : job[o][s] \notin {"queued"} \cup ForwardPc

Attempting(o, c) == job[o][c] \in {"queued", "deferred"} \cup CompensationPc

AtRest(o) == StepsOver(o) /\ \A c \in CompJobs : ~Attempting(o, c)

(* One attempt at a time: the steps start theirs under the fixed id; the    *)
(* poll, and an attempt that failed, start the next when nothing else runs. *)
AttemptInv(o) ==
    /\ \A c, d \in CompJobs : Attempting(o, c) /\ Attempting(o, d) => c = d
    /\ \A t \in Stamped : Attempting(o, t) => StepsOver(o)

(* A row that is old, and not yet touched by the poll, rests, and so does   *)
(* one that the poll has read until it is handled.                          *)
PollInv(o) ==
    /\ o \in pollSet => AtRest(o)
    /\ age[o] # "fresh" /\ o \notin touched => AtRest(o)

(* Only a rollback that nobody goes on with and the poll does not see       *)
(* reaches the hour; the alert finds its row as it was read.                *)
DeadInv(o) ==
    /\ age[o] = "dead" =>
          /\ global[o] = "COMPENSATING"
          /\ Succeeded(o) = {}
          /\ AtRest(o)
          /\ o \notin pollSet \cup touched
    /\ o \in deadSet => age[o] = "dead"

(* An order closed without being completed is left to the administrator.    *)
ClosedInv(o) ==
    /\ global[o] \in {"CANCELLED", "MANUAL_INTERVENTION_REQUIRED"} =>
          AtRest(o) /\ o \notin pollSet
    /\ admin[o] = "approved" => global[o] = "MANUAL_INTERVENTION_REQUIRED"

PaceAt(o) == AttemptInv(o) /\ PollInv(o) /\ DeadInv(o) /\ ClosedInv(o)

PaceInv == \A o \in Orders : PaceAt(o)

(* An order that can never be COMPLETED: a step has failed, is about to say *)
(* so, or is PENDING with nobody left to decide it.                         *)
Doomed(o) ==
    \E s \in Steps :
        \/ status[o][s] \in {"FAILED", "CANCELLED", "COMPENSATED"}
        \/ /\ status[o][s] = "PENDING"
           /\ \/ job[o][s] = "commit" /\ answer[o][s] = "FAILED"
              \/ ~Ahead(o, s) /\ job[o][s] \notin {"write", "commit"}

(* Without a slow job or a COMMIT of unknown outcome, only a doomed order   *)
(* is rolled back, closed, or old enough for the scheduler.                 *)
FinalAt(o) ==
    /\ \/ \E c \in CompJobs : Attempting(o, c)
       \/ global[o] \in
             {"COMPENSATING", "CANCELLED", "MANUAL_INTERVENTION_REQUIRED"}
       \/ admin[o] # "idle"
       \/ o \in deadSet \cup pollSet
       \/ age[o] # "fresh"
       => Doomed(o)
    /\ global[o] = "COMPLETED" =>
          \A s \in Steps : status[o][s] \in {"SUCCESS", "SKIPPED"}

FinalInv == \A o \in Orders : FinalAt(o)

(* What attends the rollback of a prepaid order as long as no job is broken *)
(* off: an attempt that has not settled yet, or else a SUCCESS for the poll *)
(* to see, billing's once the parallel steps run.                           *)
AttendedAt(o) ==
    /\ global[o] = "COMPENSATING" /\ Succeeded(o) = {} =>
          \E c \in CompJobs :
              job[o][c] \in {"queued", "deferred", "read", "undo"}
    /\ status[o]["billing"] = "PENDING" =>
          /\ global[o] \in {"ABSENT", "PROCESSING"}
          /\ admin[o] = "idle" /\ o \notin deadSet
          /\ \A s \in Parallel :
                /\ status[o][s] = "PENDING"
                /\ job[o][s] = "absent" \/ job[o]["billing"] = "commit"
    /\ \A s \in Parallel :
          status[o][s] = "PENDING" =>
              status[o]["billing"] \in {"PENDING", "SUCCESS"}
    /\ \/ request[o] # "ended"
       \/ job[o]["billing"] \in {"queued", "call", "write"}
       => job[o]["compensation"] = "absent"
    /\ job[o]["billing"] = "commit" /\ answer[o]["billing"] = "FAILED" =>
          job[o]["compensation"] \in {"queued", "read"}

AttendedInv == \A o \in Orders : AttendedAt(o)

(* Then the dead-order check finds nothing, and only an attempt that still  *)
(* holds something calls an administrator.                                  *)
ManualAt(o) ==
    /\ age[o] # "dead" /\ o \notin deadSet
    /\ \A c \in CompJobs : job[o][c] = "alert" => StillHeld(o, c)
    /\ global[o] = "MANUAL_INTERVENTION_REQUIRED" =>
          ~Pending(o) /\ Succeeded(o) # {}

ManualInv == \A o \in Orders : ManualAt(o)

(* An order is COMPLETED only while every service it needs holds its part. *)
CompletedIsWhole ==
    \A o \in Orders :
        global[o] = "COMPLETED" =>
            /\ \A s \in Parallel : svc[o][s] = "done"
            /\ payment[o] = "prepayment" => svc[o]["billing"] = "done"

(* An order the saga itself CANCELLED leaves nothing charged, reserved or   *)
(* arranged.                                                                *)
CancelledIsClean ==
    \A o \in Orders :
        global[o] = "CANCELLED" /\ admin[o] # "forced" =>
            \A s \in Steps : svc[o][s] # "done"

(* A step marked COMPENSATED has been undone at its service. *)
CompensatedIsUndone ==
    \A o \in Orders, s \in Steps :
        status[o][s] = "COMPENSATED" => svc[o][s] = "undone"

(* Step columns only move forward: a decided step never becomes PENDING or  *)
(* another result again, SUCCESS alone may become COMPENSATED.              *)
StepsMoveForward ==
    [][\A o \in Orders, s \in Steps :
          status'[o][s] # status[o][s] =>
            \/ status[o][s] = "PENDING"
            \/ status[o][s] = "SUCCESS" /\ status'[o][s] = "COMPENSATED"]_vars

(* A PROCESSING order always shows a PENDING step: the parallel steps never *)
(* both miss that the saga is whole, or that it failed, and the poll can    *)
(* see every order that is not finished.                                    *)
ProcessingIsAttended ==
    \A o \in Orders : global[o] = "PROCESSING" => Pending(o)

(* An order that rolls back is held by a job or visible to the poll. *)
RollbackIsAttended ==
    \A o \in Orders :
        global[o] = "COMPENSATING" =>
            Succeeded(o) # {} \/ Rollbacks(o) # {} \/ Forward(o) # {}

(* The undo requests of one order are never in the hands of two jobs. *)
NoRivalRollbacks ==
    \A o \in Orders :
        Cardinality({c \in CompJobs : job[o][c] \in {"undo", "alert"}}) <= 1

(* COMPLETED is never taken back. *)
CompletedIsFinal ==
    [][\A o \in Orders :
          global[o] = "COMPLETED" => global'[o] = "COMPLETED"]_vars

(* CANCELLED is never taken back, nor an order handed to an administrator   *)
(* otherwise than by cancelling it: neither the dead-order check nor        *)
(* force-cancel overwrites what somebody else decided after its read.       *)
ClosedStaysClosed ==
    [][\A o \in Orders :
          /\ global[o] = "CANCELLED" => global'[o] = "CANCELLED"
          /\ global[o] = "MANUAL_INTERVENTION_REQUIRED" =>
                global'[o] \in {"MANUAL_INTERVENTION_REQUIRED", "CANCELLED"}]_vars

(* An order is handed to an administrator only with something to refund. *)
ManualMeansHeld ==
    \A o \in Orders :
        global[o] = "MANUAL_INTERVENTION_REQUIRED" => Succeeded(o) # {}
-----------------------------------------------------------------------------
(* The orchestrator as SagaContract sees it: the services an order needs,   *)
(* those that hold their part, those that gave it back, and what its row    *)
(* shows.                                                                   *)
Needed(o) == IF payment[o] = "prepayment" THEN Steps ELSE Parallel
Held(o) == {s \in Steps : svc[o][s] = "done"}
Released(o) == {s \in Steps : svc[o][s] = "undone"}

Shown(o) ==
    IF ~Exists(o) THEN "none"
    ELSE IF global[o] \in {"PROCESSING", "COMPENSATING"} THEN "open"
    ELSE IF global[o] = "COMPLETED" THEN "completed"
    ELSE IF global[o] = "CANCELLED" /\ admin[o] # "forced" THEN "cancelled"
    ELSE "manual"

Contract == INSTANCE SagaContract WITH
    needed <- [o \in Orders |-> Needed(o)],
    held <- [o \in Orders |-> Held(o)],
    released <- [o \in Orders |-> Released(o)],
    outcome <- [o \in Orders |-> Shown(o)]

(* The orchestrator implements the contract: it performs nothing after it   *)
(* has begun to undo, and what an order shows is true of the services.      *)
KeepsContract == Contract!Spec

(* Once any service has given its part of an order back, none acts for the  *)
(* order again: what was undone stays undone, and nothing more is held, not *)
(* even by a request whose answer is lost.                                  *)
NoWayBack ==
    [][\A o \in Orders :
          Released(o) # {} =>
              /\ Released(o) \subseteq Released(o)'
              /\ Held(o)' \subseteq Held(o)]_vars
-----------------------------------------------------------------------------
(* Liveness *)

(* Every order comes to rest in a final status and stays there. *)
EveryOrderSettles ==
    \A o \in Orders : Exists(o) ~> [](global[o] \in Final)

(* A rollback whose steps are all decided ends. *)
RollbackConcludes ==
    \A o \in Orders :
        global[o] = "COMPENSATING" /\ ~Pending(o) ~> global[o] \in Final

(* An order stuck in PROCESSING is rolled back or completed. *)
StuckIsResolved ==
    \A o \in Orders :
        global[o] = "PROCESSING" /\ age[o] # "fresh"
        ~> global[o] \in Final
=============================================================================
