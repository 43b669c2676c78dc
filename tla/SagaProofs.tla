----------------------------- MODULE SagaProofs -----------------------------
(***************************************************************************)
(* What TLAPS proves of Saga, for any orders, any number of timestamped    *)
(* jobs, any bounds and any faults.                                        *)
(***************************************************************************)
EXTENDS Saga, TLAPS

(* Advance keeps the queue well-typed, whatever it enqueues. *)
LEMMA AdvanceType ==
    ASSUME job \in [Orders -> [JobIds -> JobState]],
           NEW o \in Orders, NEW j, NEW to \in JobState, NEW E,
           Advance(o, j, to, E)
    PROVE  job' \in [Orders -> [JobIds -> JobState]]
<1>1. "queued" \in JobState
  BY DEF JobState, Resting
<1>2. \A i \in JobIds : Enqueued(job[o][i]) \in JobState
  BY <1>1 DEF Enqueued
<1> DEFINE row == [i \in JobIds |-> IF i = j THEN to
                                    ELSE IF i \in E THEN Enqueued(job[o][i])
                                    ELSE job[o][i]]
<1>3. row \in [JobIds -> JobState]
  BY <1>2
<1>4. job' = [job EXCEPT ![o] = row]
  BY DEF Advance
<1> QED  BY <1>3, <1>4

(* A commit of well-typed columns leaves a well-typed row. *)
LEMMA WriteRowType ==
    ASSUME TableTypeOK, NEW o \in Orders,
           NEW steps \in [Steps -> SagaStepStatus],
           NEW g \in OrderGlobalStatus \cup {"ABSENT"},
           WriteRow(o, steps, g), UNCHANGED payment
    PROVE  TableTypeOK'
  BY DEF TableTypeOK, WriteRow
-----------------------------------------------------------------------------
(* The columns and the status a forward job commits are well-typed. *)
LEMMA StepRowType ==
    ASSUME TypeOK, NEW o \in Orders, NEW s \in Steps
    PROVE  /\ StepColumns(o, s) \in [Steps -> SagaStepStatus]
           /\ StepGlobal(o, s) \in OrderGlobalStatus \cup {"ABSENT"}
<1>1. /\ status[o] \in [Steps -> SagaStepStatus]
      /\ global[o] \in OrderGlobalStatus \cup {"ABSENT"}
      /\ answer[o] \in [Steps -> Answers]
  BY DEF TypeOK, TableTypeOK, TasksTypeOK
<1>2. /\ Answers \subseteq SagaStepStatus
      /\ {"FAILED", "CANCELLED"} \subseteq SagaStepStatus
      /\ {"COMPENSATING", "COMPLETED"} \subseteq OrderGlobalStatus
      /\ "billing" \in Steps
  BY DEF Answers, SagaStepStatus, OrderGlobalStatus, Steps
<1>3. /\ BillingColumns(o) \in [Steps -> SagaStepStatus]
      /\ BillingGlobal(o) \in OrderGlobalStatus \cup {"ABSENT"}
  BY <1>1, <1>2 DEF BillingColumns, BillingGlobal
<1>4. /\ ParallelColumns(o, s) \in [Steps -> SagaStepStatus]
      /\ ParallelGlobal(o, s) \in OrderGlobalStatus \cup {"ABSENT"}
  <2>1. ParallelColumns(o, s) \in [Steps -> SagaStepStatus]
    BY <1>1, <1>2 DEF ParallelColumns
  <2>2. ParallelGlobal(o, s) \in {"COMPENSATING", "COMPLETED", global[o]}
    BY DEF ParallelGlobal
  <2> QED  BY <1>1, <1>2, <2>1, <2>2
<1> QED  BY <1>3, <1>4 DEF StepColumns, StepGlobal

(* The states a job moves to, and the ids it runs under. *)
LEMMA States ==
    /\ {"absent", "deferred", "queued", "kept", "call", "write", "commit", "read", "undo",
        "alert", "requeue", "finish"} \subseteq JobState
    /\ \A s \in Steps : s \in JobIds /\ EntryPc(s) \in JobState
    /\ \A c \in CompJobs : c \in JobIds /\ EntryPc(c) \in JobState
    /\ "billing" \in Steps /\ Parallel \subseteq Steps
  BY DEF JobState, Resting, ForwardPc, CompensationPc, JobIds, EntryPc, Steps,
         Parallel

(* A forward step keeps every component well-typed. *)
LEMMA BillingType ==
    ASSUME TypeOK, NEW o \in Orders, BillingStep(o)
    PROVE  TypeOK'
<1> USE DEF TypeOK, Outside
<1>0. UNCHANGED <<payment, schedVars, apiVars, mishaps>>
  BY DEF BillingStep
<1>1. CASE BillingCall(o)
  <2>1. QueueTypeOK'
    BY <1>1, States, AdvanceType DEF BillingCall, QueueTypeOK
  <2>2. ServicesTypeOK'
    BY <1>1, States DEF BillingCall, ServicesTypeOK, Serve, LastAction
  <2>3. TasksTypeOK'
    <3>1. \E a \in Answers : answer' = [answer EXCEPT ![o]["billing"] = a]
      BY <1>1 DEF BillingCall, Answers
    <3>2. UNCHANGED <<waiting, ok>>
      BY <1>1 DEF BillingCall
    <3> QED  BY <3>1, <3>2, States DEF TasksTypeOK
  <2> QED
    BY <1>0, <1>1, <2>1, <2>2, <2>3
    DEF BillingCall, rowVars, TableTypeOK, schedVars, SchedulerTypeOK, apiVars,
        ApiTypeOK
<1>2. CASE BillingWrite(o)
  <2>1. QueueTypeOK'
    BY <1>2, States, AdvanceType DEF BillingWrite, QueueTypeOK
  <2> QED
    BY <1>0, <1>2, <2>1
    DEF BillingWrite, rowVars, TableTypeOK, ServicesTypeOK, taskVars,
        TasksTypeOK, schedVars, SchedulerTypeOK, apiVars, ApiTypeOK
<1>3. CASE BillingCommit(o)
  <2>1. QueueTypeOK'
    BY <1>3, States, AdvanceType DEF BillingCommit, QueueTypeOK
  <2>2. TableTypeOK'
    BY <1>0, <1>3, States, StepRowType, WriteRowType
    DEF BillingCommit, StepColumns, StepGlobal
  <2>3. TasksTypeOK'
    BY <1>3 DEF BillingCommit, Forget, TasksTypeOK, Answers
  <2> QED
    BY <1>0, <1>3, <2>1, <2>2, <2>3
    DEF BillingCommit, ServicesTypeOK, schedVars, SchedulerTypeOK, apiVars,
        ApiTypeOK
<1> QED  BY <1>1, <1>2, <1>3 DEF BillingStep, ProcessBilling

(* process_inventory and process_logistic keep every variable in its range. *)
LEMMA ParallelType ==
    ASSUME TypeOK, NEW o \in Orders, NEW s \in Parallel,
           ProcessParallel(o, s), UNCHANGED <<payment, schedVars, apiVars, mishaps>>
    PROVE  TypeOK'
<1> USE DEF TypeOK
<1>0. s \in Steps /\ s # "billing"
  BY DEF Parallel, Steps
<1>1. CASE ParallelCall(o, s)
  <2>1. QueueTypeOK'
    BY <1>0, <1>1, States, AdvanceType DEF ParallelCall, QueueTypeOK
  <2>2. ServicesTypeOK'
    BY <1>0, <1>1 DEF ParallelCall, ServicesTypeOK, Serve, LastAction
  <2>3. TasksTypeOK'
    BY <1>0, <1>1 DEF ParallelCall, TasksTypeOK, Answers
  <2> QED
    BY <1>1, <2>1, <2>2, <2>3
    DEF ParallelCall, rowVars, TableTypeOK, schedVars, SchedulerTypeOK, apiVars,
        ApiTypeOK
<1>2. CASE ParallelWrite(o, s)
  <2>1. QueueTypeOK'
    BY <1>0, <1>2, States, AdvanceType DEF ParallelWrite, QueueTypeOK
  <2> QED
    BY <1>2, <2>1
    DEF ParallelWrite, rowVars, TableTypeOK, ServicesTypeOK, taskVars,
        TasksTypeOK, schedVars, SchedulerTypeOK, apiVars, ApiTypeOK
<1>3. CASE ParallelCommit(o, s)
  <2>1. QueueTypeOK'
    BY <1>0, <1>3, States, AdvanceType DEF ParallelCommit, QueueTypeOK
  <2>2. TableTypeOK'
    BY <1>0, <1>3, StepRowType, WriteRowType
    DEF ParallelCommit, StepColumns, StepGlobal
  <2>3. TasksTypeOK'
    BY <1>0, <1>3 DEF ParallelCommit, Forget, TasksTypeOK, Answers
  <2> QED
    BY <1>3, <2>1, <2>2, <2>3
    DEF ParallelCommit, ServicesTypeOK, schedVars, SchedulerTypeOK, apiVars,
        ApiTypeOK
<1> QED  BY <1>1, <1>2, <1>3 DEF ProcessParallel

(* Compensation.  That another attempt is left when one is enqueued is what *)
(* keeps retry_count in its range.                                          *)
LEMMA RequeueType ==
    ASSUME TypeOK, RetryInv, NEW o \in Orders, NEW c \in CompJobs,
           CompensationRequeue(o, c)
    PROVE  QueueTypeOK'
<1> USE DEF TypeOK
<1>1. NextRetry(o, c) \in 0 .. MaxRetry
  <2>1. retry[o][c] \in 0 .. MaxRetry /\ retry[o][c] < MaxRetry
    BY DEF QueueTypeOK, RetryInv, CompensationRequeue
  <2> QED  BY <2>1, MaxAssumption DEF NextRetry
<1>2. job' \in [Orders -> [JobIds -> JobState]]
  <2>1. c \in JobIds /\ \A t \in FreeStamps(o) : t \in JobIds
    BY States DEF FreeStamps, CompJobs
  <2>2. ASSUME NEW t \in FreeStamps(o),
               job' = [job EXCEPT ![o][c] = "finish", ![o][t] = "deferred"]
        PROVE  job' \in [Orders -> [JobIds -> JobState]]
    BY <2>1, <2>2, States DEF QueueTypeOK
  <2>3. ASSUME NEW to \in {"finish", "deferred"}, Advance(o, c, to, {})
        PROVE  job' \in [Orders -> [JobIds -> JobState]]
    BY <2>1, <2>3, States, AdvanceType DEF QueueTypeOK
  <2> QED  BY <2>2, <2>3 DEF CompensationRequeue
<1>3. retry' \in [Orders -> [CompJobs -> 0 .. MaxRetry]]
  <2>1. CASE UNCHANGED retry
    BY <2>1 DEF QueueTypeOK
  <2>2. ASSUME NEW t \in CompJobs,
               retry' = [retry EXCEPT ![o][t] = NextRetry(o, c)]
        PROVE  retry' \in [Orders -> [CompJobs -> 0 .. MaxRetry]]
    BY <1>1, <2>2 DEF QueueTypeOK
  <2>3. \A t \in FreeStamps(o) : t \in CompJobs
    BY DEF FreeStamps, CompJobs
  <2> QED  BY <2>1, <2>2, <2>3 DEF CompensationRequeue
<1>4. stampTaken' \in [Orders -> BOOLEAN]
  BY DEF CompensationRequeue, QueueTypeOK
<1> QED  BY <1>2, <1>3, <1>4 DEF QueueTypeOK

(* So does each phase of compensation. *)
LEMMA CompensationType ==
    ASSUME TypeOK, RetryInv, NEW o \in Orders, NEW c \in CompJobs,
           CompensationStep(o, c)
    PROVE  TypeOK'
<1> USE DEF TypeOK
<1>0. /\ UNCHANGED <<payment, mishaps>>
      /\ SchedulerTypeOK'
      /\ ApiTypeOK'
  BY DEF CompensationStep, Outside, schedVars, SchedulerTypeOK, apiVars,
         ApiTypeOK
<1>s. Settled(o, c) \in [Steps -> SagaStepStatus]
  BY DEF Settled, TableTypeOK, SagaStepStatus
<1>1. CASE CompensationRead(o, c)
  <2>1. QueueTypeOK'
    BY <1>1, States, AdvanceType DEF CompensationRead, QueueTypeOK
  <2>2. TableTypeOK'
    <3>1. CASE Pending(o)
      BY <1>0, <1>1, <3>1 DEF CompensationRead, rowVars, TableTypeOK
    <3>2. CASE ~Pending(o)
      BY <1>0, <1>1, <3>2
      DEF CompensationRead, Reopens, TableTypeOK, OrderGlobalStatus, Touch
    <3> QED  BY <3>1, <3>2
  <2>3. TasksTypeOK'
    <3>1. ToUndo(o) \in SUBSET Steps
      BY DEF ToUndo, Succeeded
    <3>2. CASE Pending(o)
      BY <1>1, <3>2 DEF CompensationRead, TasksTypeOK
    <3>3. CASE ~Pending(o)
      <4>1. waiting' = [waiting EXCEPT ![o][c] = ToUndo(o)]
        BY <1>1, <3>3 DEF CompensationRead
      <4>2. waiting' \in [Orders -> [CompJobs -> SUBSET Steps]]
        BY <3>1, <4>1 DEF TasksTypeOK
      <4> QED  BY <1>1, <4>2 DEF CompensationRead, TasksTypeOK
    <3> QED  BY <3>2, <3>3
  <2> QED  BY <1>0, <1>1, <2>1, <2>2, <2>3 DEF CompensationRead, ServicesTypeOK
<1>2. ASSUME NEW s \in Steps, CompensationUndo(o, c, s)  PROVE TypeOK'
  <2>1. QueueTypeOK' /\ TableTypeOK'
    BY <1>0, <1>2
    DEF CompensationUndo, rowVars, queueVars, TableTypeOK, QueueTypeOK
  <2>2. ServicesTypeOK'
    BY <1>2 DEF CompensationUndo, ServicesTypeOK, Serve, LastAction
  <2>3. TasksTypeOK'
    BY <1>2 DEF CompensationUndo, TasksTypeOK
  <2> QED  BY <1>0, <2>1, <2>2, <2>3
<1>3. CASE CompensationCancel(o, c)
  <2>1. QueueTypeOK'
    BY <1>3, States, AdvanceType DEF CompensationCancel, QueueTypeOK
  <2>2. TableTypeOK'
    BY <1>0, <1>s, <1>3, WriteRowType
    DEF CompensationCancel, OrderGlobalStatus
  <2>3. TasksTypeOK'
    BY <1>3 DEF CompensationCancel, TasksTypeOK
  <2> QED
    BY <1>0, <1>3, <2>1, <2>2, <2>3 DEF CompensationCancel, ServicesTypeOK
<1>4. CASE CompensationAlert(o, c)
  <2>1. QueueTypeOK'
    BY <1>4, States, AdvanceType DEF CompensationAlert, QueueTypeOK
  <2> QED
    BY <1>0, <1>4, <2>1
    DEF CompensationAlert, rowVars, taskVars, TableTypeOK, TasksTypeOK,
        ServicesTypeOK
<1>5. CASE CompensationGiveUp(o, c)
  <2>1. QueueTypeOK'
    BY <1>5, States, AdvanceType DEF CompensationGiveUp, QueueTypeOK
  <2>2. TableTypeOK'
    BY <1>0, <1>s, <1>5, WriteRowType
    DEF CompensationGiveUp, OrderGlobalStatus
  <2>3. TasksTypeOK'
    BY <1>5 DEF CompensationGiveUp, TasksTypeOK
  <2> QED
    BY <1>0, <1>5, <2>1, <2>2, <2>3 DEF CompensationGiveUp, ServicesTypeOK
<1>6. CASE CompensationPartial(o, c)
  <2>1. QueueTypeOK'
    BY <1>6, States, AdvanceType DEF CompensationPartial, QueueTypeOK
  <2>2. TableTypeOK'
    <3>1. global[o] \in OrderGlobalStatus \cup {"ABSENT"}
      BY DEF TableTypeOK
    <3> QED
      BY <1>0, <1>s, <1>6, <3>1, WriteRowType DEF CompensationPartial
  <2>3. TasksTypeOK'
    BY <1>6 DEF CompensationPartial, TasksTypeOK
  <2> QED
    BY <1>0, <1>6, <2>1, <2>2, <2>3 DEF CompensationPartial, ServicesTypeOK
<1>7. CASE CompensationRequeue(o, c)
  <2>1. QueueTypeOK'
    BY <1>7, RequeueType
  <2> QED
    BY <1>0, <1>7, <2>1
    DEF CompensationRequeue, rowVars, taskVars, TableTypeOK, TasksTypeOK,
        ServicesTypeOK
<1> QED
  BY <1>1, <1>2, <1>3, <1>4, <1>5, <1>6, <1>7 DEF CompensationStep, Compensation

(* The worker's own steps, and the ways its jobs fail. *)
LEMMA WorkerType ==
    ASSUME TypeOK, NEW o \in Orders, NEW j \in JobIds,
           WorkerStep(o, j) \/ Expire(o, j) \/ SecondPasses(o)
    PROVE  TypeOK'
<1> USE DEF TypeOK
<1>1. QueueTypeOK'
  <2>1. EntryPc(j) \in JobState
    BY States DEF JobIds
  <2>2. CASE Take(o, j)
    BY <2>1, <2>2, AdvanceType DEF Take, QueueTypeOK
  <2>3. CASE Finish(o, j)
    <3>1. job' \in [Orders -> [JobIds -> JobState]]
      BY <2>3, States, AdvanceType DEF Finish, QueueTypeOK
    <3>2. retry' \in [Orders -> [CompJobs -> 0 .. MaxRetry]]
      <4>1. 0 \in 0 .. MaxRetry /\ Stamped \subseteq CompJobs
        BY MaxAssumption DEF CompJobs
      <4>2. CASE j \in Stamped
        BY <2>3, <4>1, <4>2 DEF Finish, QueueTypeOK
      <4>3. CASE j \notin Stamped
        BY <2>3, <4>3 DEF Finish, QueueTypeOK
      <4> QED  BY <4>2, <4>3
    <3> QED  BY <2>3, <3>1, <3>2 DEF Finish, QueueTypeOK
  <2>4. CASE ResultExpires(o, j)
    BY <2>4, States, AdvanceType DEF ResultExpires, QueueTypeOK
  <2>5. CASE NextSecond(o)
    BY <2>5, States DEF NextSecond, QueueTypeOK
  <2> QED  BY <2>2, <2>3, <2>4, <2>5 DEF WorkerStep, Expire, SecondPasses
<1>2. UNCHANGED <<rowVars, payment, svc, taskVars, schedVars, apiVars, mishaps>>
  BY DEF WorkerStep, Expire, SecondPasses, Outside
<1> QED
  BY <1>1, <1>2
  DEF rowVars, taskVars, schedVars, apiVars, TableTypeOK, ServicesTypeOK,
      TasksTypeOK, SchedulerTypeOK, ApiTypeOK

(* So does a forward job that raises, whether or not its commit took effect. *)
LEMMA StepFailsType ==
    ASSUME TypeOK, NEW o \in Orders, NEW s \in Steps,
           StepFails(o, s) \/ StepTimeout(o, s), UNCHANGED payment
    PROVE  TableTypeOK' /\ QueueTypeOK' /\ ServicesTypeOK' /\ TasksTypeOK'
<1> USE DEF TypeOK
<1>1. QueueTypeOK'
  BY States, AdvanceType DEF StepFails, StepTimeout, QueueTypeOK
<1>2. TasksTypeOK'
  <2>1. answer' = [answer EXCEPT ![o][s] = "FAILED"] /\ UNCHANGED <<waiting, ok>>
    BY DEF StepFails, StepTimeout, Forget
  <2>2. "FAILED" \in Answers
    BY DEF Answers
  <2> QED  BY <2>1, <2>2 DEF TasksTypeOK
<1>3. ServicesTypeOK'
  BY DEF StepFails, StepTimeout, ServicesTypeOK
<1>4. TableTypeOK'
  <2>1. \/ UNCHANGED rowVars
        \/ WriteRow(o, StepColumns(o, s), StepGlobal(o, s))
    BY DEF StepFails, StepTimeout
  <2>2. CASE UNCHANGED rowVars
    BY <2>2 DEF rowVars, TableTypeOK
  <2>3. CASE WriteRow(o, StepColumns(o, s), StepGlobal(o, s))
    BY <2>3, StepRowType, WriteRowType
  <2> QED  BY <2>1, <2>2, <2>3
<1> QED  BY <1>1, <1>2, <1>3, <1>4

(* So does a compensation that raises or is cancelled. *)
LEMMA CompensationFailsType ==
    ASSUME TypeOK, NEW o \in Orders, NEW c \in CompJobs,
           CompensationFails(o, c) \/ CompensationTimeout(o, c),
           UNCHANGED payment
    PROVE  TableTypeOK' /\ QueueTypeOK' /\ ServicesTypeOK' /\ TasksTypeOK'
<1> USE DEF TypeOK
<1>1. QueueTypeOK'
  BY States, AdvanceType DEF CompensationFails, CompensationTimeout, QueueTypeOK
<1>2. TasksTypeOK'
  <2>1. \A f \in [Orders -> [CompJobs -> SUBSET Steps]] :
           [f EXCEPT ![o][c] = {}] \in [Orders -> [CompJobs -> SUBSET Steps]]
    <3>1. {} \in SUBSET Steps
      OBVIOUS
    <3> QED  BY <3>1
  <2>2. /\ UNCHANGED answer
        /\ ok' = [ok EXCEPT ![o][c] = {}]
        /\ \/ UNCHANGED waiting
           \/ waiting' = [waiting EXCEPT ![o][c] = {}]
    BY DEF CompensationFails, CompensationTimeout
  <2> QED  BY <2>1, <2>2 DEF TasksTypeOK
<1>3. ServicesTypeOK'
  BY DEF CompensationFails, CompensationTimeout, ServicesTypeOK
<1>4. TableTypeOK'
  <2>1. CASE UNCHANGED rowVars
    BY <2>1 DEF rowVars, TableTypeOK
  <2>2. CASE Reopens(o)
    BY <2>2 DEF Reopens, Touch, TableTypeOK, OrderGlobalStatus
  <2> QED  BY <2>1, <2>2 DEF CompensationFails, CompensationTimeout
<1> QED  BY <1>1, <1>2, <1>3, <1>4

(* So does the death of the worker, which delivers every running job again. *)
LEMMA CrashType ==
    ASSUME TypeOK, WorkerCrash, UNCHANGED payment
    PROVE  TableTypeOK' /\ QueueTypeOK' /\ ServicesTypeOK' /\ TasksTypeOK'
<1> USE DEF TypeOK
<1>1. QueueTypeOK'
  BY States DEF WorkerCrash, RedeliverAll, QueueTypeOK
<1>2. TasksTypeOK'
  BY DEF WorkerCrash, NoAnswers, NoRequests, TasksTypeOK, Answers
<1>3. ServicesTypeOK' /\ TableTypeOK'
  BY DEF WorkerCrash, rowVars, ServicesTypeOK, TableTypeOK
<1> QED  BY <1>1, <1>2, <1>3

(* A counted fault stays within its bound. *)
LEMMA MishapType ==
    ASSUME TypeOK, NEW kind, Mishap(kind)
    PROVE  mishaps' \in 0 .. MaxMishaps
  BY FaultsAssumption DEF TypeOK, Mishap

(* The same three, as counted faults. *)
LEMMA WorkerMishapType ==
    ASSUME TypeOK, WorkerMishap
    PROVE  TypeOK'
<1>1. mishaps' \in 0 .. MaxMishaps
  BY MishapType DEF WorkerMishap
<1>2. UNCHANGED payment /\ SchedulerTypeOK' /\ ApiTypeOK'
  BY DEF WorkerMishap, Outside, TypeOK, schedVars, apiVars, SchedulerTypeOK,
         ApiTypeOK
<1>3. TableTypeOK' /\ QueueTypeOK' /\ ServicesTypeOK' /\ TasksTypeOK'
  BY <1>2, StepFailsType, CompensationFailsType, CrashType DEF WorkerMishap
<1> QED  BY <1>1, <1>2, <1>3 DEF TypeOK

(* What the poll does to the queue for one order, or fails to. *)
LEMMA DispatchType ==
    ASSUME QueueTypeOK, NEW o \in Orders, UNCHANGED queueVars \/ Dispatch(o)
    PROVE  QueueTypeOK'
<1>1. CASE UNCHANGED queueVars
  BY <1>1 DEF queueVars, QueueTypeOK
<1>2. ASSUME NEW t \in Stamped, Enqueue(o, t), UNCHANGED retry,
             stampTaken' = [stampTaken EXCEPT ![o] = TRUE]
      PROVE  QueueTypeOK'
  <2>1. Enqueued(job[o][t]) \in JobState
    BY States DEF Enqueued, QueueTypeOK, JobIds, CompJobs
  <2>2. job' \in [Orders -> [JobIds -> JobState]]
    BY <1>2, <2>1 DEF Enqueue, QueueTypeOK
  <2> QED  BY <1>2, <2>2 DEF QueueTypeOK
<1> QED  BY <1>1, <1>2 DEF Dispatch

(* The scheduler. *)
LEMMA SchedulerType ==
    ASSUME TypeOK, PollStep \/ DeadStep \/ SchedulerMishap
    PROVE  TypeOK'
<1> USE DEF TypeOK
<1>1. mishaps' \in 0 .. MaxMishaps
  BY MishapType DEF PollStep, DeadStep, SchedulerMishap
<1>2. ServicesTypeOK' /\ TasksTypeOK' /\ ApiTypeOK' /\ UNCHANGED payment
  BY DEF PollStep, DeadStep, SchedulerMishap, taskVars, apiVars, ServicesTypeOK,
         TasksTypeOK, ApiTypeOK
<1>3. TableTypeOK' /\ QueueTypeOK' /\ SchedulerTypeOK'
  <2>1. CASE PollRead
    BY <1>2, <2>1
    DEF PollRead, rowVars, queueVars, TableTypeOK, QueueTypeOK, SchedulerTypeOK,
        StuckOrders
  <2>2. ASSUME NEW o \in Orders, PollEnqueue(o)
        PROVE  TableTypeOK' /\ QueueTypeOK' /\ SchedulerTypeOK'
    <3>1. TableTypeOK' /\ SchedulerTypeOK'
      BY <1>2, <2>2 DEF PollEnqueue, rowVars, TableTypeOK, SchedulerTypeOK
    <3> QED  BY <2>2, <3>1, DispatchType DEF PollEnqueue
  <2>3. CASE PollCommit
    BY <1>2, <2>3
    DEF PollCommit, Touch, queueVars, TableTypeOK, QueueTypeOK, SchedulerTypeOK
  <2>4. CASE DeadRead
    BY <1>2, <2>4
    DEF DeadRead, rowVars, queueVars, TableTypeOK, QueueTypeOK, SchedulerTypeOK,
        DeadOrders
  <2>5. CASE DeadCommit
    BY <1>2, <2>5
    DEF DeadCommit, Touch, queueVars, TableTypeOK, QueueTypeOK, SchedulerTypeOK,
        OrderGlobalStatus
  <2>6. CASE SchedulerFails
    BY <1>2, <2>6
    DEF SchedulerFails, rowVars, queueVars, TableTypeOK, QueueTypeOK,
        SchedulerTypeOK
  <2>7. ASSUME NEW o \in Orders, PollEnqueueFails(o)
        PROVE  TableTypeOK' /\ QueueTypeOK' /\ SchedulerTypeOK'
    <3>1. TableTypeOK' /\ SchedulerTypeOK'
      BY <1>2, <2>7 DEF PollEnqueueFails, rowVars, TableTypeOK, SchedulerTypeOK
    <3> QED  BY <2>7, <3>1, DispatchType DEF PollEnqueueFails
  <2> QED
    BY <2>1, <2>2, <2>3, <2>4, <2>5, <2>6, <2>7
    DEF PollStep, DeadStep, SchedulerMishap
<1> QED  BY <1>1, <1>2, <1>3

(* The API, the administrator and time. *)
LEMMA ApiType ==
    ASSUME TypeOK, NEW o \in Orders,
           \/ ApiCreate \/ ApiEnqueue(o) \/ AdminStep(o) \/ ApiMishap
           \/ Elapse(o)
    PROVE  TypeOK'
<1> USE DEF TypeOK
<1>1. mishaps' \in 0 .. MaxMishaps
  BY MishapType DEF ApiCreate, ApiEnqueue, AdminStep, ApiMishap, Elapse
<1>2. ServicesTypeOK' /\ TasksTypeOK' /\ SchedulerTypeOK' /\ UNCHANGED payment
  BY DEF ApiCreate, ApiEnqueue, AdminStep, ApiMishap, Elapse, taskVars, schedVars,
         ServicesTypeOK, TasksTypeOK, SchedulerTypeOK
<1>3. TableTypeOK' /\ QueueTypeOK' /\ ApiTypeOK'
  <2>1. ASSUME NEW S \in SUBSET Orders, CreateOrders(S)
        PROVE  TableTypeOK' /\ QueueTypeOK' /\ ApiTypeOK'
    BY <1>2, <2>1
    DEF CreateOrders, queueVars, TableTypeOK, QueueTypeOK, ApiTypeOK,
        OrderGlobalStatus
  <2>2. CASE EnqueueBilling(o)
    <3>1. "billing" \in JobIds
      BY States
    <3>2. Enqueued(job[o]["billing"]) \in JobState
      BY <3>1, States DEF Enqueued, QueueTypeOK
    <3>3. job' \in [Orders -> [JobIds -> JobState]]
      BY <2>2, <3>2 DEF EnqueueBilling, Enqueue, QueueTypeOK
    <3> QED
      BY <1>2, <2>2, <3>3
      DEF EnqueueBilling, rowVars, TableTypeOK, QueueTypeOK, ApiTypeOK
  <2>3. ASSUME NEW S \in SUBSET Orders, ApiFails(S)
        PROVE  TableTypeOK' /\ QueueTypeOK' /\ ApiTypeOK'
    BY <1>2, <2>3
    DEF ApiFails, rowVars, queueVars, TableTypeOK, QueueTypeOK, ApiTypeOK
  <2>4. CASE ForceCancelRead(o)
    BY <1>2, <2>4
    DEF ForceCancelRead, rowVars, queueVars, TableTypeOK, QueueTypeOK, ApiTypeOK
  <2>5. CASE ForceCancelWrite(o)
    <3>1. TableTypeOK'
      BY <1>2, <2>5, WriteRowType
      DEF ForceCancelWrite, TableTypeOK, OrderGlobalStatus
    <3> QED
      BY <2>5, <3>1 DEF ForceCancelWrite, queueVars, QueueTypeOK, ApiTypeOK
  <2>6. CASE Elapse(o)
    BY <1>2, <2>6
    DEF Elapse, GrowOld, queueVars, apiVars, TableTypeOK, QueueTypeOK, ApiTypeOK
  <2> QED
    BY <2>1, <2>2, <2>3, <2>4, <2>5, <2>6
    DEF ApiCreate, ApiEnqueue, AdminStep, ApiMishap
<1> QED  BY <1>1, <1>2, <1>3

(* An empty table, an empty queue and untouched services satisfy both. *)
LEMMA InitInv == Init => TypeOK /\ SagaInv
<1> SUFFICES ASSUME Init  PROVE TypeOK /\ SagaInv
  OBVIOUS
<1> USE DEF Init
<1>1. TableTypeOK
  BY DEF TableInit, TableTypeOK, SagaStepStatus
<1>2. QueueTypeOK
  BY States, MaxAssumption DEF QueueInit, QueueTypeOK
<1>3. ServicesTypeOK /\ TasksTypeOK
  BY DEF ServicesInit, ServicesTypeOK, LastAction, TasksInit, NoAnswers,
         NoRequests, TasksTypeOK, Answers
<1>4. SchedulerTypeOK /\ ApiTypeOK
  BY DEF SchedulerInit, SchedulerTypeOK, ApiInit, ApiTypeOK
<1>5. mishaps \in 0 .. MaxMishaps
  BY FaultsAssumption
<1>6. RetryInv /\ DecidedInv
  BY States DEF QueueInit, RetryInv, DecidedInv
<1>7. DoneInv
  BY DEF TableInit, ServicesInit, TasksInit, NoAnswers, NoRequests, DoneInv
<1> QED  BY <1>1, <1>2, <1>3, <1>4, <1>5, <1>6, <1>7 DEF TypeOK, SagaInv

(* TypeOK is inductive once retries are known to be left where needed. *)
LEMMA TypeStep ==
    ASSUME TypeOK, RetryInv, [Next]_vars
    PROVE  TypeOK'
<1>1. ASSUME NEW o \in Orders, InventoryStep(o) \/ LogisticStep(o)
      PROVE  TypeOK'
  <2>1. "inventory" \in Parallel /\ "logistics" \in Parallel
    BY DEF Parallel
  <2> QED
    BY <1>1, <2>1, ParallelType
    DEF InventoryStep, LogisticStep, ProcessInventory, ProcessLogistic, Outside
<1>2. CASE UNCHANGED vars
  BY <1>2
  DEF vars, rowVars, queueVars, taskVars, schedVars, apiVars, TypeOK,
      TableTypeOK, QueueTypeOK, ServicesTypeOK, TasksTypeOK, SchedulerTypeOK,
      ApiTypeOK
<1>3. ASSUME NEW o \in Orders, NEW j \in JobIds, WorkerStep(o, j) \/ Expire(o, j)
      PROVE  TypeOK'
  BY <1>3, WorkerType
<1>4. ASSUME NEW o \in Orders, SecondPasses(o)  PROVE TypeOK'
  <2>1. "billing" \in JobIds
    BY States
  <2> QED  BY <1>4, <2>1, WorkerType
<1>5. CASE ApiCreate \/ ApiMishap
  <2>1. PICK o \in Orders : TRUE
    BY <1>5 DEF ApiCreate, ApiMishap, CreateOrders, ApiFails
  <2> QED  BY <1>5, ApiType
<1> QED
  BY <1>1, <1>2, <1>3, <1>4, <1>5, ApiType, BillingType, CompensationType,
     SchedulerType, WorkerMishapType
  DEF Next
-----------------------------------------------------------------------------
(* No job enters "undo" or "requeue" in this step. *)
NoneEnters ==
    \A p \in Orders, i \in JobIds :
        job'[p][i] \in {"undo", "requeue"} => job'[p][i] = job[p][i]

(* No step of an order becomes undecided in this step. *)
StaysDecided == \A p \in Orders : Pending(p)' => Pending(p)

(* A job moves only where Advance sends it, and what it enqueues is queued. *)
LEMMA AdvanceEnters ==
    ASSUME job \in [Orders -> [JobIds -> JobState]],
           NEW o \in Orders, NEW j, NEW to,
           to \notin {"undo", "requeue"}, NEW E, Advance(o, j, to, E)
    PROVE  NoneEnters
<1> SUFFICES ASSUME NEW p \in Orders, NEW i \in JobIds,
                    job'[p][i] \in {"undo", "requeue"}
             PROVE  job'[p][i] = job[p][i]
  BY DEF NoneEnters
<1>1. CASE p # o
  BY <1>1 DEF Advance
<1>2. CASE p = o
  <2>1. job'[o][i] \in {to, Enqueued(job[o][i]), job[o][i]}
    BY DEF Advance
  <2>2. Enqueued(job[o][i]) \in {"queued", job[o][i]}
    BY DEF Enqueued
  <2> QED  BY <1>2, <2>1, <2>2
<1> QED  BY <1>1, <1>2

(* A commit that only decides steps leaves nothing undecided. *)
LEMMA WriteDecides ==
    ASSUME TypeOK, NEW o \in Orders, NEW steps, NEW g, WriteRow(o, steps, g),
           \A s \in Steps : steps[s] = "PENDING" => status[o][s] = "PENDING"
    PROVE  StaysDecided
  BY DEF TypeOK, TableTypeOK, WriteRow, Pending, StaysDecided

(* Steps in which no job enters, no retry changes and nothing is reopened. *)
LEMMA QuietStep ==
    ASSUME SagaInv, NoneEnters, StaysDecided, UNCHANGED retry
    PROVE  RetryInv' /\ DecidedInv'
  BY States DEF SagaInv, RetryInv, DecidedInv, NoneEnters, StaysDecided

(* What a forward job commits was decided by its answer. *)
LEMMA StepRow ==
    ASSUME TypeOK, NEW o \in Orders, NEW s \in Steps
    PROVE  /\ \A t \in Steps :
                StepColumns(o, s)[t] = "PENDING" => status[o][t] = "PENDING"
           /\ \A t \in Steps :
                StepColumns(o, s)[t] \in {"SUCCESS", "COMPENSATED"} =>
                    \/ StepColumns(o, s)[t] = status[o][t]
                    \/ t = s /\ answer[o][s] = "SUCCESS"
<1>1. /\ status[o] \in [Steps -> SagaStepStatus]
      /\ answer[o][s] \in {"FAILED", "SUCCESS", "SKIPPED"}
  BY DEF TypeOK, TableTypeOK, TasksTypeOK, Answers
<1>2. CASE s = "billing"
  BY <1>1, <1>2 DEF StepColumns, BillingColumns
<1>3. CASE s # "billing"
  BY <1>1, <1>3 DEF StepColumns, ParallelColumns
<1> QED  BY <1>2, <1>3

(* The commit of a forward job records a success only if its service acted. *)
LEMMA StepCommit ==
    ASSUME TypeOK, SagaInv, NEW o \in Orders, NEW s \in Steps,
           WriteRow(o, StepColumns(o, s), StepGlobal(o, s)), UNCHANGED svc,
           answer' = [answer EXCEPT ![o][s] = "FAILED"], UNCHANGED <<waiting, ok>>
    PROVE  StaysDecided /\ DoneInv'
<1>1. StaysDecided
  BY StepRow, WriteDecides
<1>2. status' = [status EXCEPT ![o] = StepColumns(o, s)]
  BY DEF WriteRow
<1>3. ASSUME NEW p \in Orders, NEW t \in Steps, svc[p][t] = "none"
      PROVE  /\ status'[p][t] \notin {"SUCCESS", "COMPENSATED"}
             /\ answer'[p][t] # "SUCCESS"
  <2>1. /\ status[p][t] \notin {"SUCCESS", "COMPENSATED"}
        /\ answer[p][t] # "SUCCESS"
    BY <1>3 DEF SagaInv, DoneInv
  <2>2. answer'[p][t] # "SUCCESS"
    BY <2>1 DEF TypeOK, TasksTypeOK
  <2>3. CASE p = o
    BY <1>2, <2>1, <2>2, <2>3, StepRow DEF TypeOK, TableTypeOK
  <2>4. CASE p # o
    BY <1>2, <2>1, <2>2, <2>4 DEF TypeOK, TableTypeOK
  <2> QED  BY <2>3, <2>4
<1>4. DoneInv'
  BY <1>3 DEF SagaInv, DoneInv
<1> QED  BY <1>1, <1>4

(* A charge, reservation or arrangement is answered. *)
LEMMA StepAnswer ==
    ASSUME TypeOK, SagaInv, NEW o \in Orders, NEW s \in Steps,
           NEW reply \in Replies, Serve(o, s, "done", reply),
           NEW a, answer' = [answer EXCEPT ![o][s] = a],
           a = "SUCCESS" => reply = "ok",
           UNCHANGED <<status, waiting, ok>>
    PROVE  DoneInv'
<1>1. \A p \in Orders, t \in Steps : svc'[p][t] = "none" => svc[p][t] = "none"
  BY DEF Serve, TypeOK, ServicesTypeOK
<1>2. reply = "ok" => svc'[o][s] = "done"
  BY DEF Serve, TypeOK, ServicesTypeOK
<1>3. ASSUME NEW p \in Orders, NEW t \in Steps, svc'[p][t] = "none"
      PROVE  answer'[p][t] # "SUCCESS"
  <2>1. answer[p][t] # "SUCCESS"
    BY <1>1, <1>3 DEF SagaInv, DoneInv
  <2>2. CASE p = o /\ t = s
    BY <1>2, <1>3, <2>2 DEF TypeOK, TasksTypeOK
  <2>3. CASE ~(p = o /\ t = s)
    BY <2>1, <2>3 DEF TypeOK, TasksTypeOK
  <2> QED  BY <2>2, <2>3
<1> QED  BY <1>1, <1>3 DEF SagaInv, DoneInv

(* process_billing keeps the invariant. *)
LEMMA BillingInv ==
    ASSUME TypeOK, SagaInv, NEW o \in Orders, BillingStep(o)
    PROVE  SagaInv'
<1>0. job \in [Orders -> [JobIds -> JobState]] /\ "billing" \in Steps
  BY States DEF TypeOK, QueueTypeOK
<1>1. CASE BillingCall(o)
  <2>1. NoneEnters /\ UNCHANGED retry
    BY <1>0, <1>1, AdvanceEnters DEF BillingCall
  <2>2. UNCHANGED <<status, waiting, ok>>
    BY <1>1 DEF BillingCall, rowVars
  <2>3. StaysDecided
    BY <2>2 DEF StaysDecided, Pending
  <2>4. DoneInv'
    <3>1. CASE /\ answer' = [answer EXCEPT ![o]["billing"] = "SKIPPED"]
               /\ UNCHANGED svc
      BY <1>0, <2>2, <3>1 DEF SagaInv, DoneInv, TypeOK, TasksTypeOK
    <3>2. ASSUME NEW reply \in Replies, Serve(o, "billing", "done", reply),
                 answer' = [answer EXCEPT ![o]["billing"] =
                               IF reply = "ok" THEN "SUCCESS" ELSE "FAILED"]
          PROVE  DoneInv'
      <4> DEFINE a == IF reply = "ok" THEN "SUCCESS" ELSE "FAILED"
      <4>1. answer' = [answer EXCEPT ![o]["billing"] = a]
        BY <3>2
      <4>2. a = "SUCCESS" => reply = "ok"
        OBVIOUS
      <4> HIDE DEF a
      <4> QED  BY <1>0, <2>2, <3>2, <4>1, <4>2, StepAnswer
    <3> QED  BY <1>1, <3>1, <3>2 DEF BillingCall
  <2> QED  BY <2>1, <2>3, <2>4, QuietStep DEF SagaInv
<1>2. CASE BillingWrite(o)
  <2>1. NoneEnters /\ UNCHANGED retry
    BY <1>0, <1>2, AdvanceEnters DEF BillingWrite
  <2>2. UNCHANGED <<status, svc, answer, waiting, ok>>
    BY <1>2 DEF BillingWrite, rowVars, taskVars
  <2>3. StaysDecided /\ DoneInv'
    BY <2>2 DEF StaysDecided, Pending, SagaInv, DoneInv
  <2> QED  BY <2>1, <2>3, QuietStep DEF SagaInv
<1>3. CASE BillingCommit(o)
  <2>1. NoneEnters /\ UNCHANGED retry
    BY <1>0, <1>3, AdvanceEnters DEF BillingCommit
  <2>2. StaysDecided /\ DoneInv'
    BY <1>0, <1>3, StepCommit DEF BillingCommit, Forget, StepColumns, StepGlobal
  <2> QED  BY <2>1, <2>2, QuietStep DEF SagaInv
<1> QED  BY <1>1, <1>2, <1>3 DEF BillingStep, ProcessBilling

(* process_inventory and process_logistic keep the invariant. *)
LEMMA ParallelInv ==
    ASSUME TypeOK, SagaInv, NEW o \in Orders, NEW s \in Parallel,
           ProcessParallel(o, s)
    PROVE  SagaInv'
<1>0. job \in [Orders -> [JobIds -> JobState]] /\ s \in Steps /\ s # "billing"
  BY DEF TypeOK, QueueTypeOK, Parallel, Steps
<1>1. CASE ParallelCall(o, s)
  <2>1. NoneEnters /\ UNCHANGED retry
    BY <1>0, <1>1, AdvanceEnters DEF ParallelCall
  <2>2. UNCHANGED <<status, waiting, ok>>
    BY <1>1 DEF ParallelCall, rowVars
  <2>3. StaysDecided
    BY <2>2 DEF StaysDecided, Pending
  <2>4. DoneInv'
    <3>1. PICK reply \in Replies :
             /\ Serve(o, s, "done", reply)
             /\ answer' = [answer EXCEPT ![o][s] =
                              IF reply = "ok" THEN "SUCCESS" ELSE "FAILED"]
      BY <1>1 DEF ParallelCall
    <3> DEFINE a == IF reply = "ok" THEN "SUCCESS" ELSE "FAILED"
    <3>2. answer' = [answer EXCEPT ![o][s] = a]
      BY <3>1
    <3>3. a = "SUCCESS" => reply = "ok"
      OBVIOUS
    <3> HIDE DEF a
    <3> QED  BY <1>0, <2>2, <3>1, <3>2, <3>3, StepAnswer
  <2> QED  BY <2>1, <2>3, <2>4, QuietStep DEF SagaInv
<1>2. CASE ParallelWrite(o, s)
  <2>1. NoneEnters /\ UNCHANGED retry
    BY <1>0, <1>2, AdvanceEnters DEF ParallelWrite
  <2>2. UNCHANGED <<status, svc, answer, waiting, ok>>
    BY <1>2 DEF ParallelWrite, rowVars, taskVars
  <2>3. StaysDecided /\ DoneInv'
    BY <2>2 DEF StaysDecided, Pending, SagaInv, DoneInv
  <2> QED  BY <2>1, <2>3, QuietStep DEF SagaInv
<1>3. CASE ParallelCommit(o, s)
  <2>1. NoneEnters /\ UNCHANGED retry
    BY <1>0, <1>3, AdvanceEnters DEF ParallelCommit
  <2>2. StaysDecided /\ DoneInv'
    BY <1>0, <1>3, StepCommit DEF ParallelCommit, Forget, StepColumns, StepGlobal
  <2> QED  BY <2>1, <2>2, QuietStep DEF SagaInv
<1> QED  BY <1>1, <1>2, <1>3 DEF ProcessParallel

(* Phase 3 decides nothing anew, and marks only what was undone. *)
LEMMA SettledRow ==
    ASSUME TypeOK, SagaInv, NEW o \in Orders, NEW c \in CompJobs, NEW g,
           WriteRow(o, Settled(o, c), g), UNCHANGED <<svc, answer, waiting>>,
           ok' = [ok EXCEPT ![o][c] = {}]
    PROVE  StaysDecided /\ DoneInv'
<1>1. StaysDecided
  BY WriteDecides DEF Settled
<1>2. status' = [status EXCEPT ![o] = Settled(o, c)]
  BY DEF WriteRow
<1>3. ASSUME NEW p \in Orders, NEW t \in Steps, svc[p][t] = "none"
      PROVE  /\ status'[p][t] \notin {"SUCCESS", "COMPENSATED"}
             /\ \A d \in CompJobs : t \notin ok'[p][d]
  <2>1. /\ status[p][t] \notin {"SUCCESS", "COMPENSATED"}
        /\ \A d \in CompJobs : t \notin ok[p][d]
    BY <1>3 DEF SagaInv, DoneInv
  <2>2. \A d \in CompJobs : t \notin ok'[p][d]
    BY <2>1 DEF TypeOK, TasksTypeOK
  <2>3. CASE p = o
    BY <1>2, <2>1, <2>2, <2>3 DEF TypeOK, TableTypeOK, Settled
  <2>4. CASE p # o
    BY <1>2, <2>1, <2>2, <2>4 DEF TypeOK, TableTypeOK
  <2> QED  BY <2>3, <2>4
<1>4. DoneInv'
  BY <1>3 DEF SagaInv, DoneInv
<1> QED  BY <1>1, <1>4

(* Phase 1 is where a job starts to undo: every step is decided, and what   *)
(* it is going to undo shows SUCCESS.                                       *)
LEMMA ReadInv ==
    ASSUME TypeOK, SagaInv, NEW o \in Orders, NEW c \in CompJobs,
           CompensationRead(o, c)
    PROVE  SagaInv'
<1>0. job \in [Orders -> [JobIds -> JobState]] /\ c \in JobIds
  BY States DEF TypeOK, QueueTypeOK
<1>1. UNCHANGED <<status, retry, svc, answer, ok>>
  BY DEF CompensationRead, Reopens, rowVars
<1>2. StaysDecided
  BY <1>1 DEF StaysDecided, Pending
<1>3. CASE Pending(o)
  <2>1. NoneEnters
    BY <1>0, <1>3, AdvanceEnters DEF CompensationRead
  <2>2. UNCHANGED waiting
    BY <1>3 DEF CompensationRead
  <2>3. DoneInv'
    BY <1>1, <2>2 DEF SagaInv, DoneInv
  <2> QED  BY <1>1, <1>2, <2>1, <2>3, QuietStep DEF SagaInv
<1>4. CASE ~Pending(o)
  <2>1. /\ Advance(o, c, "undo", {})
        /\ waiting' = [waiting EXCEPT ![o][c] = ToUndo(o)]
    BY <1>4 DEF CompensationRead
  <2>2. \A p \in Orders, d \in CompJobs :
           \/ p = o /\ d = c /\ job'[p][d] = "undo"
           \/ job'[p][d] = job[p][d]
    BY <1>0, <2>1, States DEF Advance
  <2>3. RetryInv' /\ DecidedInv'
    BY <1>1, <1>2, <1>4, <2>2
    DEF SagaInv, RetryInv, DecidedInv, StaysDecided
  <2>4. \A t \in ToUndo(o) : svc[o][t] # "none"
    BY DEF SagaInv, DoneInv, ToUndo, Succeeded
  <2>5. ASSUME NEW p \in Orders, NEW t \in Steps, NEW d \in CompJobs,
               svc[p][t] = "none"
        PROVE  t \notin waiting'[p][d]
    <3>1. t \notin waiting[p][d]
      BY <2>5 DEF SagaInv, DoneInv
    <3>2. CASE p = o /\ d = c
      BY <2>1, <2>4, <2>5, <3>2 DEF TypeOK, TasksTypeOK
    <3>3. CASE ~(p = o /\ d = c)
      BY <2>1, <3>1, <3>3 DEF TypeOK, TasksTypeOK
    <3> QED  BY <3>2, <3>3
  <2>6. DoneInv'
    BY <1>1, <2>5 DEF SagaInv, DoneInv
  <2> QED  BY <2>3, <2>6 DEF SagaInv
<1> QED  BY <1>3, <1>4

(* An answered undo request moves a step from waiting to ok, or drops it. *)
LEMMA UndoStep ==
    ASSUME TypeOK, SagaInv, NEW o \in Orders, NEW c \in CompJobs,
           NEW s \in Steps, CompensationUndo(o, c, s)
    PROVE  SagaInv'
<1>1. UNCHANGED <<status, job, retry, answer>>
  BY DEF CompensationUndo, rowVars, queueVars
<1>2. NoneEnters /\ StaysDecided
  BY <1>1 DEF NoneEnters, StaysDecided, Pending
<1>3. \A p \in Orders, t \in Steps : svc'[p][t] = "none" => svc[p][t] = "none"
  BY DEF CompensationUndo, Serve, TypeOK, ServicesTypeOK
<1>4. \A p \in Orders, d \in CompJobs :
         waiting'[p][d] \cup ok'[p][d] \subseteq waiting[p][d] \cup ok[p][d]
  <2>1. s \in waiting[o][c]
    BY DEF CompensationUndo
  <2>2. waiting' = [waiting EXCEPT ![o][c] = waiting[o][c] \ {s}]
    BY DEF CompensationUndo
  <2>3. ok' = ok \/ ok' = [ok EXCEPT ![o][c] = ok[o][c] \cup {s}]
    BY DEF CompensationUndo
  <2>4. \A p \in Orders, d \in CompJobs : waiting'[p][d] \subseteq waiting[p][d]
    BY <2>2 DEF TypeOK, TasksTypeOK
  <2>5. \A p \in Orders, d \in CompJobs :
           ok'[p][d] \subseteq waiting[p][d] \cup ok[p][d]
    <3>1. ASSUME NEW p \in Orders, NEW d \in CompJobs
          PROVE  \/ ok'[p][d] = ok[p][d]
                 \/ p = o /\ d = c /\ ok'[p][d] = ok[o][c] \cup {s}
      BY <2>3 DEF TypeOK, TasksTypeOK
    <3> QED  BY <2>1, <3>1
  <2> QED  BY <2>4, <2>5
<1>5. DoneInv'
  BY <1>1, <1>3, <1>4 DEF SagaInv, DoneInv
<1> QED  BY <1>1, <1>2, <1>5, QuietStep DEF SagaInv

(* Only here does a retry_count change, and its job is about to be queued. *)
LEMMA RequeueInv ==
    ASSUME TypeOK, SagaInv, NEW o \in Orders, NEW c \in CompJobs,
           CompensationRequeue(o, c)
    PROVE  SagaInv'
<1>0. job \in [Orders -> [JobIds -> JobState]] /\ c \in JobIds
  BY States DEF TypeOK, QueueTypeOK
<1>1. UNCHANGED <<status, svc, answer, waiting, ok>>
  BY DEF CompensationRequeue, rowVars, taskVars
<1>2. StaysDecided /\ DoneInv'
  BY <1>1 DEF StaysDecided, Pending, SagaInv, DoneInv
<1>3. NoneEnters
  <2>1. ASSUME NEW t \in FreeStamps(o),
               job' = [job EXCEPT ![o][c] = "finish", ![o][t] = "deferred"]
        PROVE  NoneEnters
    BY <1>0, <2>1 DEF NoneEnters
  <2> QED  BY <1>0, <2>1, AdvanceEnters DEF CompensationRequeue
<1>4. ASSUME NEW p \in Orders, NEW d \in CompJobs, job'[p][d] = "requeue"
      PROVE  retry'[p][d] = retry[p][d]
  <2>1. job[p][d] = "requeue" /\ d \in JobIds
    BY <1>3, <1>4, States DEF NoneEnters
  <2>2. p = o /\ d = c => job'[p][d] \in {"finish", "deferred"}
    BY <1>0 DEF CompensationRequeue, Advance
  <2>3. \/ UNCHANGED retry
        \/ \E t \in FreeStamps(o) : retry' = [retry EXCEPT ![o][t] = NextRetry(o, c)]
        \/ retry' = [retry EXCEPT ![o][c] = NextRetry(o, c)]
    BY DEF CompensationRequeue
  <2>4. \A t \in FreeStamps(o) : ~(p = o /\ d = t)
    BY <2>1 DEF FreeStamps
  <2> QED  BY <1>4, <2>2, <2>3, <2>4 DEF TypeOK, QueueTypeOK
<1>5. RetryInv'
  BY <1>3, <1>4, States DEF SagaInv, RetryInv, NoneEnters
<1>6. DecidedInv'
  BY <1>2, <1>3, States DEF SagaInv, DecidedInv, NoneEnters, StaysDecided
<1> QED  BY <1>2, <1>5, <1>6 DEF SagaInv

(* compensation keeps the invariant, through all its phases. *)
LEMMA CompensationInv ==
    ASSUME TypeOK, SagaInv, NEW o \in Orders, NEW c \in CompJobs,
           CompensationStep(o, c)
    PROVE  SagaInv'
<1>0. job \in [Orders -> [JobIds -> JobState]] /\ c \in JobIds
  BY States DEF TypeOK, QueueTypeOK
<1>1. CASE CompensationCancel(o, c) \/ CompensationGiveUp(o, c)
  <2>1. NoneEnters /\ UNCHANGED retry
    BY <1>0, <1>1, AdvanceEnters DEF CompensationCancel, CompensationGiveUp
  <2>2. StaysDecided /\ DoneInv'
    BY <1>1, SettledRow DEF CompensationCancel, CompensationGiveUp
  <2> QED  BY <2>1, <2>2, QuietStep DEF SagaInv
<1>2. CASE CompensationAlert(o, c)
  <2>1. NoneEnters
    BY <1>0, <1>2, AdvanceEnters DEF CompensationAlert
  <2>2. UNCHANGED <<status, retry, svc, answer, waiting, ok>>
    BY <1>2 DEF CompensationAlert, rowVars, taskVars
  <2>3. StaysDecided /\ DoneInv'
    BY <2>2 DEF StaysDecided, Pending, SagaInv, DoneInv
  <2> QED  BY <2>1, <2>2, <2>3, QuietStep DEF SagaInv
<1>3. CASE CompensationPartial(o, c)
  <2>1. StaysDecided /\ DoneInv'
    BY <1>3, SettledRow DEF CompensationPartial
  <2>2. retry[o][c] < MaxRetry
    BY <1>3, MaxAssumption DEF CompensationPartial, Exhausted, TypeOK, QueueTypeOK
  <2>3. \A p \in Orders, d \in CompJobs :
           \/ p = o /\ d = c /\ job'[p][d] = "requeue"
           \/ job'[p][d] = job[p][d]
    BY <1>0, <1>3, States DEF CompensationPartial, Advance
  <2>4. UNCHANGED retry
    BY <1>3 DEF CompensationPartial
  <2>5. RetryInv' /\ DecidedInv'
    BY <2>1, <2>2, <2>3, <2>4 DEF SagaInv, RetryInv, DecidedInv, StaysDecided
  <2> QED  BY <2>1, <2>5 DEF SagaInv
<1> QED
  BY <1>1, <1>2, <1>3, ReadInv, UndoStep, RequeueInv
  DEF CompensationStep, Compensation

(* Taking, finishing and forgetting a job reopens nothing. *)
LEMMA WorkerInv ==
    ASSUME TypeOK, SagaInv, NEW o \in Orders, NEW j \in JobIds,
           WorkerStep(o, j) \/ Expire(o, j) \/ SecondPasses(o)
    PROVE  SagaInv'
<1>1. UNCHANGED <<status, svc, answer, waiting, ok>>
  BY DEF WorkerStep, Expire, SecondPasses, rowVars, taskVars
<1>2. StaysDecided /\ DoneInv'
  BY <1>1 DEF StaysDecided, Pending, SagaInv, DoneInv
<1>3. EntryPc(j) \in {"call", "read"}
  BY DEF EntryPc
<1>4. NoneEnters
  <2>1. CASE Take(o, j) \/ Finish(o, j) \/ ResultExpires(o, j)
    BY <1>3, <2>1, AdvanceEnters DEF Take, Finish, ResultExpires, TypeOK, QueueTypeOK
  <2>2. CASE NextSecond(o)
    BY <2>2 DEF NextSecond, NoneEnters
  <2> QED  BY <2>1, <2>2 DEF WorkerStep, Expire, SecondPasses
<1>5. CASE Finish(o, j)
  <2>1. \A p \in Orders, d \in CompJobs :
           job'[p][d] = "requeue" => retry'[p][d] = retry[p][d]
    <3>1. job'[o][j] \in {"absent", "kept"}
      BY <1>5 DEF Finish, Advance, TypeOK, QueueTypeOK
    <3>2. UNCHANGED retry \/ retry' = [retry EXCEPT ![o][j] = 0]
      BY <1>5 DEF Finish
    <3> QED  BY <3>1, <3>2 DEF TypeOK, QueueTypeOK
  <2>2. RetryInv' /\ DecidedInv'
    BY <1>2, <1>4, <2>1, States
    DEF SagaInv, RetryInv, DecidedInv, NoneEnters, StaysDecided
  <2> QED  BY <1>2, <2>2 DEF SagaInv
<1>6. CASE ~Finish(o, j)
  <2>1. UNCHANGED retry
    BY <1>6 DEF WorkerStep, Expire, SecondPasses, Take, ResultExpires, NextSecond
  <2> QED  BY <1>2, <1>4, <2>1, QuietStep DEF SagaInv
<1> QED  BY <1>5, <1>6

(* Nor does a job that raises, is cancelled, or dies with the worker. *)
LEMMA WorkerMishapInv ==
    ASSUME TypeOK, SagaInv, WorkerMishap
    PROVE  SagaInv'
<1>0. job \in [Orders -> [JobIds -> JobState]]
  BY DEF TypeOK, QueueTypeOK
<1>1. ASSUME NEW o \in Orders, NEW s \in Steps,
             StepFails(o, s) \/ StepTimeout(o, s)
      PROVE  SagaInv'
  <2>1. NoneEnters /\ UNCHANGED retry
    BY <1>0, <1>1, AdvanceEnters DEF StepFails, StepTimeout
  <2>2. /\ answer' = [answer EXCEPT ![o][s] = "FAILED"]
        /\ UNCHANGED <<svc, waiting, ok>>
    BY <1>1 DEF StepFails, StepTimeout, Forget
  <2>3. CASE UNCHANGED status
    <3>1. DoneInv'
      BY <2>2, <2>3 DEF SagaInv, DoneInv, TypeOK, TasksTypeOK
    <3>2. StaysDecided
      BY <2>3 DEF StaysDecided, Pending
    <3> QED  BY <2>1, <3>1, <3>2, QuietStep DEF SagaInv
  <2>4. CASE WriteRow(o, StepColumns(o, s), StepGlobal(o, s))
    <3>1. StaysDecided /\ DoneInv'
      BY <2>2, <2>4, StepCommit
    <3> QED  BY <2>1, <3>1, QuietStep DEF SagaInv
  <2> QED  BY <1>1, <2>3, <2>4 DEF StepFails, StepTimeout, rowVars
<1>2. ASSUME NEW o \in Orders, NEW c \in CompJobs,
             CompensationFails(o, c) \/ CompensationTimeout(o, c)
      PROVE  SagaInv'
  <2>1. NoneEnters /\ UNCHANGED retry
    BY <1>0, <1>2, AdvanceEnters DEF CompensationFails, CompensationTimeout
  <2>2. UNCHANGED <<status, svc, answer>>
    BY <1>2 DEF CompensationFails, CompensationTimeout, Reopens, rowVars
  <2>3. /\ ok' = [ok EXCEPT ![o][c] = {}]
        /\ UNCHANGED waiting \/ waiting' = [waiting EXCEPT ![o][c] = {}]
    BY <1>2 DEF CompensationFails, CompensationTimeout
  <2>4. \A p \in Orders, d \in CompJobs :
           /\ waiting'[p][d] \subseteq waiting[p][d]
           /\ ok'[p][d] \subseteq ok[p][d]
    BY <2>3 DEF TypeOK, TasksTypeOK
  <2>5. StaysDecided /\ DoneInv'
    BY <2>2, <2>4 DEF StaysDecided, Pending, SagaInv, DoneInv
  <2> QED  BY <2>1, <2>5, QuietStep DEF SagaInv
<1>3. CASE WorkerCrash
  <2>1. NoneEnters /\ UNCHANGED retry
    BY <1>3 DEF WorkerCrash, RedeliverAll, NoneEnters
  <2>2. UNCHANGED <<status, svc>>
    BY <1>3 DEF WorkerCrash, rowVars
  <2>3. StaysDecided /\ DoneInv'
    BY <1>3, <2>2
    DEF WorkerCrash, NoAnswers, NoRequests, StaysDecided, Pending, SagaInv,
        DoneInv
  <2> QED  BY <2>1, <2>3, QuietStep DEF SagaInv
<1> QED  BY <1>1, <1>2, <1>3 DEF WorkerMishap

(* The scheduler, the API and the administrator write no step column and    *)
(* ask nothing of a service; what they enqueue is queued, no more.          *)
LEMMA OutsideInv ==
    ASSUME TypeOK, SagaInv,
           \/ PollStep \/ DeadStep \/ SchedulerMishap \/ ApiMishap \/ ApiCreate
           \/ \E o \in Orders : ApiEnqueue(o) \/ AdminStep(o) \/ Elapse(o)
    PROVE  SagaInv'
<1> DEFINE Only == NoneEnters /\ UNCHANGED <<status, retry>>
<1>0. ASSUME NEW o \in Orders, NEW j \in JobIds, Enqueue(o, j)
      PROVE  NoneEnters
  <2>1. Enqueued(job[o][j]) \in {"queued", job[o][j]}
    BY DEF Enqueued
  <2> QED  BY <1>0, <2>1 DEF Enqueue, NoneEnters, TypeOK, QueueTypeOK
<1>1. Only
  <2>0. ASSUME NEW o \in Orders, UNCHANGED queueVars \/ Dispatch(o)
        PROVE  NoneEnters /\ UNCHANGED retry
    <3>1. \A t \in Stamped : t \in JobIds
      BY DEF JobIds, CompJobs
    <3> QED  BY <1>0, <2>0, <3>1 DEF Dispatch, queueVars, NoneEnters
  <2>1. CASE PollStep
    <3>1. CASE PollRead \/ PollCommit
      BY <3>1 DEF PollRead, PollCommit, rowVars, queueVars, NoneEnters
    <3>2. ASSUME NEW o \in Orders, PollEnqueue(o)  PROVE Only
      BY <2>0, <3>2 DEF PollEnqueue, rowVars
    <3> QED  BY <2>1, <3>1, <3>2 DEF PollStep
  <2>2. CASE DeadStep
    BY <2>2 DEF DeadStep, DeadRead, DeadCommit, rowVars, queueVars, NoneEnters
  <2>3. CASE SchedulerMishap
    <3>1. CASE SchedulerFails
      BY <3>1 DEF SchedulerFails, rowVars, queueVars, NoneEnters
    <3>2. ASSUME NEW o \in Orders, PollEnqueueFails(o)  PROVE Only
      BY <2>0, <3>2 DEF PollEnqueueFails, rowVars
    <3> QED  BY <2>3, <3>1, <3>2 DEF SchedulerMishap
  <2>4. CASE ApiMishap \/ ApiCreate
    BY <2>4
    DEF ApiMishap, ApiCreate, ApiFails, CreateOrders, rowVars, queueVars,
        NoneEnters
  <2>5. ASSUME NEW o \in Orders, ApiEnqueue(o)  PROVE Only
    <3>1. "billing" \in JobIds
      BY States
    <3> QED  BY <1>0, <2>5, <3>1 DEF ApiEnqueue, EnqueueBilling, rowVars
  <2>6. ASSUME NEW o \in Orders, AdminStep(o)  PROVE Only
    BY <2>6
    DEF AdminStep, ForceCancelRead, ForceCancelWrite, WriteRow, rowVars,
        queueVars, NoneEnters, TypeOK, TableTypeOK
  <2>7. ASSUME NEW o \in Orders, Elapse(o)  PROVE Only
    BY <2>7 DEF Elapse, GrowOld, queueVars, NoneEnters
  <2> QED  BY <2>1, <2>2, <2>3, <2>4, <2>5, <2>6, <2>7
<1>2. UNCHANGED <<svc, answer, waiting, ok>>
  BY DEF PollStep, DeadStep, SchedulerMishap, ApiMishap, ApiCreate, ApiEnqueue,
         AdminStep, Elapse, taskVars
<1>3. StaysDecided /\ DoneInv'
  BY <1>1, <1>2 DEF StaysDecided, Pending, SagaInv, DoneInv
<1> QED  BY <1>1, <1>3, QuietStep DEF SagaInv

(* SagaInv is inductive. *)
LEMMA SagaInvStep ==
    ASSUME TypeOK, SagaInv, [Next]_vars
    PROVE  SagaInv'
<1>1. CASE UNCHANGED vars
  <2>1. UNCHANGED <<status, job, retry, svc, answer, waiting, ok>>
    BY <1>1 DEF vars, rowVars, queueVars, taskVars
  <2> QED
    BY <2>1 DEF SagaInv, RetryInv, DecidedInv, DoneInv, Pending
<1>2. ASSUME NEW o \in Orders, InventoryStep(o) \/ LogisticStep(o)
      PROVE  SagaInv'
  <2>1. "inventory" \in Parallel /\ "logistics" \in Parallel
    BY DEF Parallel
  <2> QED
    BY <1>2, <2>1, ParallelInv
    DEF InventoryStep, LogisticStep, ProcessInventory, ProcessLogistic
<1>3. ASSUME NEW o \in Orders, SecondPasses(o)  PROVE SagaInv'
  <2>1. "billing" \in JobIds
    BY States
  <2> QED  BY <1>3, <2>1, WorkerInv
<1> QED
  BY <1>1, <1>2, <1>3, BillingInv, CompensationInv, WorkerInv, WorkerMishapInv,
     OutsideInv
  DEF Next

(* Every variable stays in its range, whatever fails and however often.     *)
THEOREM TypeCorrect == Spec => []TypeOK
<1>1. TypeOK /\ SagaInv /\ [Next]_vars => TypeOK' /\ SagaInv'
  BY TypeStep, SagaInvStep DEF SagaInv
<1> QED  BY <1>1, InitInv, PTL DEF Spec

(* In every reachable state the attempts are bounded, a job that undoes has
   seen every step decided, and success means the service acted. *)
THEOREM SagaInvariant == Spec => []SagaInv
<1>1. TypeOK /\ SagaInv /\ [Next]_vars => TypeOK' /\ SagaInv'
  BY TypeStep, SagaInvStep DEF SagaInv
<1> QED  BY <1>1, InitInv, PTL DEF Spec

(* Only phase 2 of a compensation turns a service's answer to undone: it     *)
(* holds the request in its locals, so DoneInv says the service did act, and *)
(* it is past phase 1, so DecidedInv says every step is decided.             *)
LEMMA UndoOnlyStep ==
    ASSUME TypeOK, SagaInv, [Next]_vars,
           NEW o \in Orders, NEW s \in Steps,
           svc'[o][s] = "undone", svc[o][s] # "undone"
    PROVE  svc[o][s] = "done" /\ ~Pending(o)
<1>0. svc \in [Orders -> [Steps -> {"none", "done", "undone"}]]
  BY DEF TypeOK, ServicesTypeOK, LastAction
<1>1. ASSUME NEW p \in Orders, NEW c \in CompJobs, NEW t \in Steps,
             CompensationUndo(p, c, t)
      PROVE  svc[o][s] = "done" /\ ~Pending(o)
  <2>1. PICK reply \in Replies : Serve(p, t, "undone", reply)
    BY <1>1 DEF CompensationUndo
  <2>2. p = o /\ t = s
    BY <1>0, <2>1 DEF Serve
  <2>3. job[o][c] = "undo" /\ s \in waiting[o][c]
    BY <1>1, <2>2 DEF CompensationUndo
  <2>4. svc[o][s] # "none"
    BY <2>3 DEF SagaInv, DoneInv
  <2>5. ~Pending(o)
    BY <2>3 DEF SagaInv, DecidedInv
  <2> QED  BY <1>0, <2>4, <2>5
<1>2. ASSUME NEW p \in Orders, NEW t \in Steps, NEW reply \in Replies,
             Serve(p, t, "done", reply)
      PROVE  FALSE
  BY <1>0, <1>2 DEF Serve
<1>3. CASE UNCHANGED svc
  BY <1>3
<1>4. ASSUME NEW p \in Orders, BillingStep(p)
      PROVE  svc[o][s] = "done" /\ ~Pending(o)
  <2>1. "billing" \in Steps
    BY DEF Steps
  <2> QED
    BY <1>2, <1>3, <1>4, <2>1
    DEF BillingStep, ProcessBilling, BillingCall, BillingWrite, BillingCommit
<1>5. ASSUME NEW p \in Orders, InventoryStep(p) \/ LogisticStep(p)
      PROVE  svc[o][s] = "done" /\ ~Pending(o)
  <2>1. "inventory" \in Steps /\ "logistics" \in Steps
    BY DEF Steps
  <2> QED
    BY <1>2, <1>3, <1>5, <2>1
    DEF InventoryStep, LogisticStep, ProcessInventory, ProcessLogistic,
        ProcessParallel, ParallelCall, ParallelWrite, ParallelCommit
<1>6. ASSUME NEW p \in Orders, NEW c \in CompJobs, CompensationStep(p, c)
      PROVE  svc[o][s] = "done" /\ ~Pending(o)
  BY <1>1, <1>3, <1>6
  DEF CompensationStep, Compensation, CompensationRead, CompensationCancel,
      CompensationAlert, CompensationGiveUp, CompensationPartial,
      CompensationRequeue
<1>7. CASE WorkerMishap
  BY <1>3, <1>7
  DEF WorkerMishap, StepFails, StepTimeout, CompensationFails,
      CompensationTimeout, WorkerCrash
<1>8. CASE \/ PollStep \/ DeadStep \/ SchedulerMishap \/ ApiMishap \/ ApiCreate
           \/ \E p \in Orders : \/ ApiEnqueue(p) \/ AdminStep(p) \/ Elapse(p)
                               \/ SecondPasses(p)
                               \/ \E j \in JobIds : WorkerStep(p, j) \/ Expire(p, j)
  BY <1>3, <1>8
  DEF PollStep, DeadStep, SchedulerMishap, ApiMishap, ApiCreate, ApiEnqueue,
      AdminStep, Elapse, SecondPasses, WorkerStep, Expire
<1>9. CASE UNCHANGED vars
  BY <1>3, <1>9 DEF vars
<1> QED  BY <1>4, <1>5, <1>6, <1>7, <1>8, <1>9 DEF Next

(* However jobs interleave, fail and are delivered again, a service is asked *)
(* to undo only what it did, and only once every step of the order is        *)
(* decided: the rule compensation's three phases are there to keep.          *)
THEOREM UndoIsSound == Spec => UndoOnlyWhatWasDone
<1>1. TypeOK /\ SagaInv /\ [Next]_vars =>
         [\A o \in Orders, s \in Steps :
             svc'[o][s] = "undone" /\ svc[o][s] # "undone"
             => svc[o][s] = "done" /\ ~Pending(o)]_vars
  BY UndoOnlyStep
<1> QED  BY <1>1, TypeCorrect, SagaInvariant, PTL DEF Spec, UndoOnlyWhatWasDone
=============================================================================
