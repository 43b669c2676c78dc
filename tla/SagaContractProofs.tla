------------------------- MODULE SagaContractProofs -------------------------
(***************************************************************************)
(* The orchestrator implements SagaContract, proved: as long as no worker  *)
(* dies and no answer of a service is lost, every step of it is one step   *)
(* of the contract, or none.                                               *)
(***************************************************************************)
EXTENDS SagaOnceProofs

(* Nothing the contract speaks of is changed. *)
Unseen == UNCHANGED <<status, global, payment, svc, admin>>

(* How a forward job or a compensation changes the row: by one of four      *)
(* commits.                                                                 *)
StepCommits(o, s) ==
    /\ job[o][s] = "commit"
    /\ status' = [status EXCEPT ![o] = StepColumns(o, s)]
    /\ global' = [global EXCEPT ![o] = StepGlobal(o, s)]
    /\ UNCHANGED <<payment, svc, admin>>

Settles(o, c) ==
    /\ \/ CompensationCancel(o, c)
       \/ CompensationGiveUp(o, c)
       \/ CompensationPartial(o, c)
    /\ UNCHANGED <<payment, svc, admin>>

Calls(o, s) ==
    /\ job[o][s] = "call"
    /\ UNCHANGED <<status, global, payment, admin>>
    /\ svc' \in {svc, [svc EXCEPT ![o][s] = "done"]}

Undoes(o, c) ==
    /\ \E s \in Steps : CompensationUndo(o, c, s)
    /\ UNCHANGED <<status, global, payment, admin>>

Starts(o) ==
    /\ ~Pending(o)
    /\ Reopens(o)
    /\ UNCHANGED <<payment, svc, admin>>

(* A step is one of these, a step of the API, an administrator or the       *)
(* dead-order check, or unseen.                                             *)
LEMMA ForwardSeen ==
    ASSUME NEW o \in Orders, NEW s \in Steps,
           \/ s = "billing" /\ BillingStep(o)
           \/ s \in Parallel /\ ProcessParallel(o, s) /\ Outside
    PROVE  Unseen \/ Calls(o, s) \/ StepCommits(o, s)
<1>1. UNCHANGED <<payment, admin>>
  BY DEF BillingStep, Outside, apiVars
<1>2. CASE s = "billing" /\ BillingCall(o)
  <2>1. svc' \in {svc, [svc EXCEPT ![o][s] = "done"]}
    BY <1>2 DEF BillingCall, Serve
  <2> QED  BY <1>1, <1>2, <2>1 DEF BillingCall, Calls, rowVars
<1>3. CASE s \in Parallel /\ ParallelCall(o, s)
  <2>1. svc' \in {svc, [svc EXCEPT ![o][s] = "done"]}
    BY <1>3 DEF ParallelCall, Serve
  <2> QED  BY <1>1, <1>3, <2>1 DEF ParallelCall, Calls, rowVars
<1>4. CASE BillingWrite(o) \/ ParallelWrite(o, s)
  BY <1>1, <1>4 DEF BillingWrite, ParallelWrite, Unseen, rowVars
<1>5. CASE s = "billing" /\ BillingCommit(o)
  BY <1>1, <1>5
  DEF BillingCommit, WriteRow, StepCommits, StepColumns, StepGlobal
<1>6. CASE s \in Parallel /\ ParallelCommit(o, s)
  BY <1>1, <1>6, Sets
  DEF ParallelCommit, WriteRow, StepCommits, StepColumns, StepGlobal
<1> QED
  BY <1>2, <1>3, <1>4, <1>5, <1>6
  DEF BillingStep, ProcessBilling, ProcessParallel

LEMMA CompensationSeen ==
    ASSUME NEW o \in Orders, NEW c \in CompJobs, CompensationStep(o, c)
    PROVE  Unseen \/ Undoes(o, c) \/ Starts(o) \/ Settles(o, c)
<1>1. UNCHANGED <<payment, admin>>
  BY DEF CompensationStep, Outside, apiVars
<1> QED
  BY <1>1
  DEF CompensationStep, Compensation, CompensationAlert, CompensationRequeue,
      CompensationRead, CompensationUndo, CompensationCancel,
      CompensationGiveUp, CompensationPartial, Unseen, Undoes, Starts, Settles,
      rowVars

LEMMA MishapSeen ==
    ASSUME NoCrash, WorkerMishap
    PROVE  \/ Unseen
           \/ \E o \in Orders : Starts(o)
           \/ \E o \in Orders, s \in Steps : StepCommits(o, s)
<1>1. UNCHANGED <<payment, svc, admin>>
  BY DEF NoCrash, WorkerMishap, Mishap, StepFails, CompensationFails,
         StepTimeout, CompensationTimeout, Outside, apiVars
<1>2. ASSUME NEW o \in Orders, NEW s \in Steps, StepFails(o, s)
      PROVE  Unseen \/ StepCommits(o, s)
  BY <1>1, <1>2 DEF StepFails, WriteRow, Unseen, StepCommits, rowVars
<1>3. ASSUME NEW o \in Orders, NEW c \in CompJobs, CompensationFails(o, c)
      PROVE  Unseen \/ Starts(o)
  BY <1>1, <1>3 DEF CompensationFails, Unseen, Starts, rowVars
<1> QED
  BY <1>1, <1>2, <1>3
  DEF NoCrash, WorkerMishap, Mishap, StepTimeout, CompensationTimeout, Unseen,
      rowVars

LEMMA OthersUnseen ==
    ASSUME \/ PollStep
           \/ DeadStep /\ DeadRead
           \/ SchedulerMishap
           \/ ApiMishap
           \/ \E o \in Orders :
                 \/ ApiEnqueue(o)
                 \/ Elapse(o)
                 \/ SecondPasses(o)
                 \/ \E j \in JobIds : WorkerStep(o, j) \/ Expire(o, j)
    PROVE  Unseen
  BY DEF PollStep, PollRead, PollEnqueue, PollCommit, DeadStep, DeadRead,
         SchedulerMishap, SchedulerFails, PollEnqueueFails, ApiMishap, ApiFails,
         ApiEnqueue, EnqueueBilling, Elapse, GrowOld, SecondPasses, WorkerStep,
         Expire, Outside, rowVars, apiVars, Unseen
-----------------------------------------------------------------------------
(* Only the commit of a step, which finds its columns PENDING, and that of  *)
(* a compensation, which marks what it undid, change the step columns.      *)
LEMMA StepsForwardStep ==
    ASSUME NoCrash, TypeOK, OnceInv, [Next]_vars,
           NEW o \in Orders, NEW s \in Steps, status'[o][s] # status[o][s]
    PROVE  \/ status[o][s] = "PENDING"
           \/ status[o][s] = "SUCCESS" /\ status'[o][s] = "COMPENSATED"
<1>1. ASSUME NEW p \in Orders, NEW t \in Steps, StepCommits(p, t)
      PROVE  status[o][s] = "PENDING"
  <2>1. p = o
    BY <1>1 DEF StepCommits, TypeOK, TableTypeOK
  <2>2. t = "billing" \/ s = t
    BY <1>1, <2>1
    DEF StepCommits, StepColumns, ParallelColumns, TypeOK, TableTypeOK
  <2> QED
    BY <1>1, <2>1, <2>2, Sets DEF StepCommits, OnceInv, OnceAt, WriteInv
<1>2. ASSUME NEW p \in Orders, NEW c \in CompJobs, Settles(p, c)
      PROVE  status[o][s] = "SUCCESS" /\ status'[o][s] = "COMPENSATED"
  <2>1. status' = [status EXCEPT ![p] = Settled(p, c)]
    BY <1>2 DEF Settles, CompensationCancel, CompensationGiveUp,
                CompensationPartial, WriteRow
  <2>2. p = o /\ s \in ok[o][c] /\ status'[o][s] = "COMPENSATED"
    BY <2>1 DEF Settled, TypeOK, TableTypeOK
  <2> QED  BY <2>2 DEF OnceInv, OnceAt, UndoneInv
<1>3. CASE UNCHANGED status
  BY <1>3
<1>4. CASE ApiCreate \/ DeadStep \/ (\E p \in Orders : AdminStep(p)) \/ UNCHANGED vars
  <2>1. UNCHANGED status
    BY <1>4 DEF ApiCreate, CreateOrders, DeadStep, DeadRead, DeadCommit, AdminStep,
                ForceCancelRead, ForceCancelWrite, WriteRow, vars, rowVars,
                TypeOK, TableTypeOK
  <2> QED  BY <2>1
<1>5. ASSUME NEW p \in Orders, BillingStep(p) \/ InventoryStep(p) \/ LogisticStep(p)
      PROVE  UNCHANGED status \/ \E t \in Steps : StepCommits(p, t)
  <2>1. \E t \in Steps : Unseen \/ Calls(p, t) \/ StepCommits(p, t)
    BY <1>5, Sets, ForwardSeen
    DEF InventoryStep, LogisticStep, ProcessInventory, ProcessLogistic
  <2> QED  BY <2>1 DEF Unseen, Calls
<1>6. ASSUME NEW p \in Orders, NEW c \in CompJobs, CompensationStep(p, c)
      PROVE  UNCHANGED status \/ Settles(p, c)
  BY <1>6, CompensationSeen DEF Unseen, Undoes, Starts, Reopens
<1>7. CASE WorkerMishap
  BY <1>1, <1>3, <1>7, MishapSeen DEF Unseen, Starts, Reopens
<1>8. CASE \/ PollStep
           \/ SchedulerMishap
           \/ ApiMishap
           \/ \E p \in Orders :
                 \/ ApiEnqueue(p)
                 \/ Elapse(p)
                 \/ SecondPasses(p)
                 \/ \E j \in JobIds : WorkerStep(p, j) \/ Expire(p, j)
  BY <1>3, <1>8, OthersUnseen DEF Unseen
<1> QED
  BY <1>1, <1>2, <1>3, <1>4, <1>5, <1>6, <1>7, <1>8 DEF Next

(* As long as no job is delivered twice, a decided step never becomes       *)
(* PENDING or another result again: no job writes a column twice, and only  *)
(* SUCCESS becomes COMPENSATED.                                             *)
THEOREM StepsForward ==
    ASSUME NoCrash
    PROVE  Spec => StepsMoveForward
<1>1. TypeOK /\ OnceInv /\ [Next]_vars =>
         [\A o \in Orders, s \in Steps :
             status'[o][s] # status[o][s] =>
                \/ status[o][s] = "PENDING"
                \/ status[o][s] = "SUCCESS" /\ status'[o][s] = "COMPENSATED"]_vars
  BY StepsForwardStep
<1> QED  BY <1>1, TypeCorrect, OnceInvariant, PTL DEF Spec, StepsMoveForward
-----------------------------------------------------------------------------
(* Of all steps, only the call of a forward job makes a service act, and it *)
(* finds its order's steps undecided; only a compensation's requests make   *)
(* it act otherwise, and all they do is undo.                               *)
LEMMA NoWayBackStep ==
    ASSUME NoCrash, TypeOK, OnceInv, [Next]_vars, NEW o \in Orders,
           Released(o) # {}
    PROVE  Released(o) \subseteq Released(o)' /\ Held(o)' \subseteq Held(o)
<1> DEFINE Goal == Released(o) \subseteq Released(o)' /\ Held(o)' \subseteq Held(o)
<1>1. CASE UNCHANGED svc
  BY <1>1 DEF Released, Held
<1>2. ASSUME NEW p \in Orders, NEW s \in Steps, Calls(p, s)  PROVE Goal
  <2>1. Pending(p)
    BY <1>2, Sets DEF Calls, OnceInv, OnceAt, AheadInv, Ahead, Pending
  <2>2. p # o
    BY <2>1 DEF OnceInv, OnceAt, UndoneInv, Released
  <2>3. svc'[o] = svc[o]
    BY <1>2, <2>2 DEF Calls, TypeOK, ServicesTypeOK
  <2> QED  BY <2>3 DEF Released, Held
<1>3. ASSUME NEW p \in Orders, NEW c \in CompJobs, Undoes(p, c)  PROVE Goal
  <2>1. \A s \in Steps : svc'[o][s] \in {svc[o][s], "undone"}
    BY <1>3 DEF Undoes, CompensationUndo, Serve, TypeOK, ServicesTypeOK
  <2> QED  BY <2>1 DEF Released, Held
<1>4. ASSUME NEW p \in Orders, BillingStep(p) \/ InventoryStep(p) \/ LogisticStep(p)
      PROVE  Goal
  <2>1. \E s \in Steps : Unseen \/ Calls(p, s) \/ StepCommits(p, s)
    BY <1>4, Sets, ForwardSeen
    DEF InventoryStep, LogisticStep, ProcessInventory, ProcessLogistic
  <2> QED  BY <1>1, <1>2, <2>1 DEF Unseen, StepCommits
<1>5. ASSUME NEW p \in Orders, NEW c \in CompJobs, CompensationStep(p, c)
      PROVE  Goal
  BY <1>1, <1>3, <1>5, CompensationSeen DEF Unseen, Starts, Settles
<1>6. CASE WorkerMishap
  BY <1>1, <1>6, MishapSeen DEF Unseen, Starts, StepCommits
<1>7. CASE ApiCreate \/ DeadStep \/ (\E p \in Orders : AdminStep(p)) \/ UNCHANGED vars
  BY <1>1, <1>7 DEF ApiCreate, DeadStep, AdminStep, vars
<1>8. CASE \/ PollStep
           \/ SchedulerMishap
           \/ ApiMishap
           \/ \E p \in Orders :
                 \/ ApiEnqueue(p)
                 \/ Elapse(p)
                 \/ SecondPasses(p)
                 \/ \E j \in JobIds : WorkerStep(p, j) \/ Expire(p, j)
  BY <1>1, <1>8, OthersUnseen DEF Unseen
<1> QED  BY <1>4, <1>5, <1>6, <1>7, <1>8 DEF Next

(* As long as no job is delivered twice, the first undo of an order is the  *)
(* end of acting for it: what was given back stays given back, and nothing  *)
(* more is charged, reserved or arranged, whatever raises, is cancelled, or *)
(* has its answer lost.                                                     *)
THEOREM NothingAfterUndo ==
    ASSUME NoCrash
    PROVE  Spec => NoWayBack
<1>1. TypeOK /\ OnceInv /\ [Next]_vars =>
         [\A o \in Orders :
             Released(o) # {} =>
                 /\ Released(o) \subseteq Released(o)'
                 /\ Held(o)' \subseteq Held(o)]_vars
  BY NoWayBackStep
<1> QED  BY <1>1, TypeCorrect, OnceInvariant, PTL DEF Spec, NoWayBack
-----------------------------------------------------------------------------
(* How an order's row and services look to the contract. *)
LEMMA ContractStutter ==
    ASSUME \A p \in Orders : /\ payment'[p] = payment[p] /\ svc'[p] = svc[p]
                             /\ Shown(p)' = Shown(p)
    PROVE  UNCHANGED Contract!vars
<1>1. \A p \in Orders : /\ Needed(p)' = Needed(p)
                        /\ Held(p)' = Held(p)
                        /\ Released(p)' = Released(p)
  BY DEF Needed, Held, Released
<1> QED  BY <1>1 DEF Contract!vars

LEMMA ContractShows ==
    ASSUME UNCHANGED <<payment, svc>>, NEW S \in SUBSET Orders, NEW r,
           \A p \in S : Shown(p)' = r,
           \A p \in Orders : p \notin S => Shown(p)' = Shown(p)
    PROVE  /\ Contract!Shows(S, r)
           /\ [o \in Orders |-> Needed(o)]' = [o \in Orders |-> Needed(o)]
           /\ [o \in Orders |-> Held(o)]' = [o \in Orders |-> Held(o)]
           /\ [o \in Orders |-> Released(o)]' = [o \in Orders |-> Released(o)]
<1>1. \A p \in Orders : /\ Needed(p)' = Needed(p)
                        /\ Held(p)' = Held(p)
                        /\ Released(p)' = Released(p)
  BY DEF Needed, Held, Released
<1>2. Contract!Shows(S, r)
  BY DEF Contract!Shows
<1> QED  BY <1>1, <1>2

(* An order that exists may be handed over, or reopened, at any time. *)
LEMMA ContractHandOver ==
    ASSUME UNCHANGED <<payment, svc>>, NEW S \in SUBSET Orders,
           \A p \in S : Exists(p) /\ Shown(p)' = "manual",
           \A p \in Orders : p \notin S => Shown(p)' = Shown(p)
    PROVE  Contract!Next
<1>1. \A p \in S : Shown(p) # "none"
  BY DEF Shown
<1> QED  BY <1>1, ContractShows DEF Contract!Next, Contract!HandOver

LEMMA ContractReopen ==
    ASSUME UNCHANGED <<payment, svc>>, NEW o \in Orders,
           Exists(o), Shown(o)' = "open",
           \A p \in Orders : p # o => Shown(p)' = Shown(p)
    PROVE  Contract!Next
<1>1. Shown(o) # "none"
  BY DEF Shown
<1>2. /\ \A p \in {o} : Shown(p)' = "open"
      /\ \A p \in Orders : p \notin {o} => Shown(p)' = Shown(p)
  OBVIOUS
<1> QED  BY <1>1, <1>2, ContractShows DEF Contract!Next, Contract!Reopen

(* A service acts for an order of which a step is undecided. *)
LEMMA ContractCall ==
    ASSUME TypeOK, OnceInv, NEW o \in Orders, NEW s \in Steps, Calls(o, s)
    PROVE  Contract!Next \/ UNCHANGED Contract!vars
<1>1. \A p \in Orders : Shown(p)' = Shown(p) /\ Needed(p)' = Needed(p)
  BY DEF Calls, Shown, Exists, Needed
<1>2. CASE UNCHANGED svc
  BY <1>1, <1>2, ContractStutter DEF Calls
<1>3. CASE svc' = [svc EXCEPT ![o][s] = "done"]
  <2>1. Pending(o) /\ svc[o][s] = "none" /\ Exists(o)
    BY Sets DEF Calls, OnceInv, OnceAt, AheadInv, Ahead, Pending, StartInv
  <2>2. Shown(o) \in {"open", "manual"}
    BY <2>1 DEF OnceInv, OnceAt, CompletedInv, CancelledInv, Shown, TypeOK,
                TableTypeOK, OrderGlobalStatus
  <2>3. Released(o) = {}
    BY <2>1 DEF OnceInv, OnceAt, UndoneInv, Released
  <2>4. /\ Held(o)' = Held(o) \cup {s}
        /\ \A p \in Orders : p # o => Held(p)' = Held(p)
        /\ \A p \in Orders : Released(p)' = Released(p)
    BY <1>3, <2>1 DEF Held, Released, TypeOK, ServicesTypeOK
  <2>5. Contract!Perform(o, s)
    BY <1>1, <2>2, <2>3, <2>4 DEF Contract!Perform, Contract!Working
  <2> QED  BY <2>5 DEF Contract!Next
<1> QED  BY <1>2, <1>3 DEF Calls

(* A service gives back what it holds for an order that is rolling back, or *)
(* that an administrator has in hand.                                       *)
LEMMA ContractUndo ==
    ASSUME TypeOK, SagaInv, OnceInv, NEW o \in Orders, NEW c \in CompJobs,
           Undoes(o, c)
    PROVE  Contract!Next \/ UNCHANGED Contract!vars
<1>1. \A p \in Orders : Shown(p)' = Shown(p) /\ Needed(p)' = Needed(p)
  BY DEF Undoes, Shown, Exists, Needed
<1>2. PICK s \in Steps : CompensationUndo(o, c, s)
  BY DEF Undoes
<1>3. /\ job[o][c] = "undo" /\ s \in waiting[o][c]
      /\ svc' \in {svc, [svc EXCEPT ![o][s] = "undone"]}
  BY <1>2 DEF CompensationUndo, Serve
<1>4. CASE UNCHANGED svc \/ svc[o][s] = "undone"
  <2>1. svc' = svc
    BY <1>3, <1>4 DEF TypeOK, ServicesTypeOK
  <2> QED  BY <1>1, <2>1, ContractStutter DEF Undoes
<1>5. CASE /\ svc' = [svc EXCEPT ![o][s] = "undone"]
           /\ svc[o][s] # "undone"
  <2>1. svc[o][s] = "done" /\ status[o][s] = "SUCCESS"
    BY <1>3, <1>5
    DEF SagaInv, DoneInv, OnceInv, OnceAt, UndoneInv, TypeOK, ServicesTypeOK,
        LastAction
  <2>2. Shown(o) \in {"open", "manual"}
    BY <1>3, <2>1
    DEF OnceInv, OnceAt, ProcessingInv, CompletedInv, CancelledInv, Succeeded,
        Shown, Exists, TypeOK, TableTypeOK, OrderGlobalStatus
  <2>3. /\ s \in Held(o)
        /\ Held(o)' = Held(o) \ {s}
        /\ Released(o)' = Released(o) \cup {s}
        /\ \A p \in Orders : p # o =>
              Held(p)' = Held(p) /\ Released(p)' = Released(p)
    BY <1>5, <2>1 DEF Held, Released, TypeOK, ServicesTypeOK
  <2>4. Contract!Release(o, s)
    BY <1>1, <2>2, <2>3 DEF Contract!Release, Contract!Working
  <2> QED  BY <2>4 DEF Contract!Next
<1> QED  BY <1>3, <1>4, <1>5

(* The commit of a step completes the order, opens it or shows no change. *)
LEMMA ContractCommit ==
    ASSUME TypeOK, OnceInv, OnceInv', NEW o \in Orders, NEW s \in Steps,
           StepCommits(o, s)
    PROVE  Contract!Next \/ UNCHANGED Contract!vars
<1>1. /\ global'[o] = StepGlobal(o, s)
      /\ \A p \in Orders : p # o => Shown(p)' = Shown(p)
  BY DEF StepCommits, Shown, Exists, TypeOK, TableTypeOK
<1>2. Pending(o) /\ Exists(o)
  BY Sets DEF StepCommits, OnceInv, OnceAt, WriteInv, StartInv, Pending
<1>3. global'[o] \in {global[o], "COMPENSATING", "COMPLETED"}
  BY <1>1 DEF StepGlobal, BillingGlobal, ParallelGlobal
<1>4. CASE global'[o] = global[o]
  <2>1. \A p \in Orders : Shown(p)' = Shown(p)
    BY <1>1, <1>4 DEF StepCommits, Shown, Exists
  <2> QED  BY <2>1, ContractStutter DEF StepCommits
<1>5. CASE global'[o] = "COMPENSATING"
  <2>1. Shown(o)' = "open"
    BY <1>5 DEF Shown, Exists
  <2> QED  BY <1>1, <1>2, <2>1, ContractReopen DEF StepCommits
<1>6. CASE global'[o] = "COMPLETED"
  <2>1. Shown(o)' = "completed"
    BY <1>6 DEF Shown, Exists
  <2>2. Shown(o) \in {"open", "manual"}
    BY <1>2 DEF OnceInv, OnceAt, CompletedInv, CancelledInv, Shown, TypeOK,
                TableTypeOK, OrderGlobalStatus
  <2>3. Released(o) = {}
    BY <1>2 DEF OnceInv, OnceAt, UndoneInv, Released
  <2>4. Needed(o) \subseteq Held(o)
    BY <1>6, Sets
    DEF OnceInv, OnceAt, CompletedInv, StepCommits, Needed, Held
  <2>5. /\ \A p \in {o} : Shown(p)' = "completed"
        /\ \A p \in Orders : p \notin {o} => Shown(p)' = Shown(p)
    BY <1>1, <2>1
  <2>6. Contract!Complete(o)
    BY <2>2, <2>3, <2>4, <2>5, ContractShows
    DEF StepCommits, Contract!Complete, Contract!Working
  <2> QED  BY <2>6 DEF Contract!Next
<1> QED  BY <1>3, <1>4, <1>5, <1>6

(* A compensation that starts reopens the order. *)
LEMMA ContractStart ==
    ASSUME TypeOK, OnceInv, NEW o \in Orders, Starts(o)
    PROVE  Contract!Next
<1>1. Exists(o)
  BY Sets DEF Starts, OnceInv, OnceAt, AheadInv, Ahead, StartInv, Pending
<1>2. /\ Shown(o)' = "open"
      /\ \A p \in Orders : p # o => Shown(p)' = Shown(p)
  BY DEF Starts, Reopens, Shown, Exists, TypeOK, TableTypeOK
<1> QED  BY <1>1, <1>2, ContractReopen DEF Starts

(* A compensation that ends cancels the order, hands it over or leaves it.  *)
LEMMA ContractSettle ==
    ASSUME ~Lossy, TypeOK, SagaInv, OnceInv, OnceInv', NEW o \in Orders,
           NEW c \in CompJobs, Settles(o, c)
    PROVE  Contract!Next \/ UNCHANGED Contract!vars
<1>1. \A p \in Orders : p # o => Shown(p)' = Shown(p)
  BY DEF Settles, CompensationCancel, CompensationGiveUp, CompensationPartial,
         WriteRow, Shown, Exists, TypeOK, TableTypeOK
<1>2. Exists(o)
  BY DEF Settles, CompensationCancel, CompensationGiveUp, CompensationPartial,
         Answered, OnceInv, OnceAt, ProcessingInv, Exists
<1>3. CASE CompensationPartial(o, c)
  <2>1. \A p \in Orders : Shown(p)' = Shown(p)
    BY <1>3 DEF Settles, CompensationPartial, WriteRow, Shown, Exists, TypeOK,
                TableTypeOK
  <2> QED  BY <2>1, ContractStutter DEF Settles
<1>4. CASE CompensationGiveUp(o, c) \/ (CompensationCancel(o, c) /\ admin[o] = "forced")
  <2>1. Shown(o)' = "manual"
    BY <1>4 DEF Settles, CompensationGiveUp, CompensationCancel, WriteRow,
                Shown, Exists, TypeOK, TableTypeOK
  <2>2. \A p \in {o} : Shown(p)' = "manual"
    BY <2>1
  <2>3. \A p \in {o} : Exists(p)
    BY <1>2
  <2>4. \A p \in Orders : p \notin {o} => Shown(p)' = Shown(p)
    BY <1>1
  <2> QED  BY <2>2, <2>3, <2>4, ContractHandOver DEF Settles
<1>5. CASE CompensationCancel(o, c) /\ admin[o] # "forced"
  <2>1. global'[o] = "CANCELLED" /\ job[o][c] = "undo"
    BY <1>5 DEF CompensationCancel, Answered, WriteRow, TypeOK, TableTypeOK
  <2>2. Shown(o)' = "cancelled"
    BY <1>5, <2>1 DEF Settles, Shown, Exists
  <2>3. Held(o) = {}
    BY <1>5, <2>1
    DEF OnceInv, OnceAt, CancelledInv, AnswerInv, Settles, Pending, Succeeded,
        Held
  <2>4. CASE Shown(o) = "cancelled"
    <3>1. \A p \in Orders : Shown(p)' = Shown(p)
      BY <1>1, <2>2, <2>4
    <3> QED  BY <3>1, ContractStutter DEF Settles
  <2>5. CASE Shown(o) # "cancelled"
    <3>1. Shown(o) \in {"open", "manual"}
      BY <1>2, <2>1, <2>5
      DEF OnceInv, OnceAt, CompletedInv, Shown
    <3>2. /\ \A p \in {o} : Shown(p)' = "cancelled"
          /\ \A p \in Orders : p \notin {o} => Shown(p)' = Shown(p)
      BY <1>1, <2>2
    <3>3. Contract!Cancel(o)
      BY <2>3, <3>1, <3>2, ContractShows
      DEF Settles, Contract!Cancel, Contract!Working
    <3> QED  BY <3>3 DEF Contract!Next
  <2> QED  BY <2>4, <2>5
<1> QED  BY <1>3, <1>4, <1>5 DEF Settles

(* The API accepts orders; an administrator and the dead-order check take   *)
(* them in hand.                                                            *)
LEMMA ContractOutside ==
    ASSUME TypeOK, OnceInv,
           \/ ApiCreate
           \/ DeadStep
           \/ \E o \in Orders : AdminStep(o)
    PROVE  Contract!Next \/ UNCHANGED Contract!vars
<1>1. UNCHANGED <<payment, svc>>
  BY DEF ApiCreate, DeadStep, AdminStep
<1>2. ASSUME NEW S \in SUBSET Orders, CreateOrders(S)  PROVE Contract!Next
  <2>1. /\ \A p \in S : Shown(p) = "none" /\ Shown(p)' = "open"
        /\ \A p \in Orders : p \notin S => Shown(p)' = Shown(p)
    BY <1>2 DEF CreateOrders, OnceInv, OnceAt, StartInv, Shown, Exists
  <2> QED
    BY <1>1, <2>1, ContractShows DEF Contract!Next, Contract!Accept
<1>3. CASE DeadCommit /\ DeadStep
  <2>1. /\ \A p \in deadSet : Exists(p) /\ Shown(p)' = "manual"
        /\ \A p \in Orders : p \notin deadSet => Shown(p)' = Shown(p)
    BY <1>3
    DEF DeadCommit, DeadStep, OnceInv, OnceAt, StartInv, Shown, Exists, TypeOK,
        SchedulerTypeOK, apiVars
  <2> QED
    BY <1>1, <2>1, ContractHandOver DEF TypeOK, SchedulerTypeOK
<1>4. CASE DeadRead /\ DeadStep
  <2>1. \A p \in Orders : Shown(p)' = Shown(p)
    BY <1>4 DEF DeadRead, DeadStep, Shown, Exists, rowVars, apiVars
  <2> QED  BY <1>1, <2>1, ContractStutter
<1>5. ASSUME NEW o \in Orders, ForceCancelRead(o)
      PROVE  UNCHANGED Contract!vars
  <2>1. \A p \in Orders : Shown(p)' = Shown(p)
    BY <1>5 DEF ForceCancelRead, Shown, Exists, rowVars, TypeOK, ApiTypeOK
  <2> QED  BY <1>1, <2>1, ContractStutter
<1>6. ASSUME NEW o \in Orders, ForceCancelWrite(o)  PROVE Contract!Next
  <2>1. /\ \A p \in {o} : Exists(p) /\ Shown(p)' = "manual"
        /\ \A p \in Orders : p \notin {o} => Shown(p)' = Shown(p)
    BY <1>6 DEF ForceCancelWrite, WriteRow, OnceInv, OnceAt, StartInv, Shown,
                Exists, TypeOK, TableTypeOK, ApiTypeOK
  <2> QED  BY <1>1, <2>1, ContractHandOver
<1> QED
  BY <1>2, <1>3, <1>4, <1>5, <1>6 DEF ApiCreate, DeadStep, AdminStep

LEMMA ContractUnseen ==
    ASSUME Unseen
    PROVE  UNCHANGED Contract!vars
<1>1. \A p \in Orders : Shown(p)' = Shown(p)
  BY DEF Unseen, Shown, Exists
<1> QED  BY <1>1, ContractStutter DEF Unseen

(* Every step is a step of the contract, or none. *)
LEMMA ContractStep ==
    ASSUME NoCrash, ~Lossy, TypeOK, SagaInv, OnceInv, OnceInv', [Next]_vars
    PROVE  [Contract!Next]_(Contract!vars)
<1> DEFINE Goal == Contract!Next \/ UNCHANGED Contract!vars
<1>1. ASSUME NEW o \in Orders, BillingStep(o) \/ InventoryStep(o) \/ LogisticStep(o)
      PROVE  Goal
  <2>1. \E s \in Steps : Unseen \/ Calls(o, s) \/ StepCommits(o, s)
    BY <1>1, Sets, ForwardSeen
    DEF InventoryStep, LogisticStep, ProcessInventory, ProcessLogistic
  <2> QED  BY <2>1, ContractUnseen, ContractCall, ContractCommit
<1>2. ASSUME NEW o \in Orders, NEW c \in CompJobs, CompensationStep(o, c)
      PROVE  Goal
  BY <1>2, CompensationSeen, ContractUnseen, ContractUndo, ContractStart,
     ContractSettle
<1>3. ASSUME WorkerMishap  PROVE Goal
  BY <1>3, MishapSeen, ContractUnseen, ContractStart, ContractCommit
<1>4. ASSUME \/ PollStep
             \/ SchedulerMishap
             \/ ApiMishap
             \/ \E p \in Orders :
                   \/ ApiEnqueue(p)
                   \/ Elapse(p)
                   \/ SecondPasses(p)
                   \/ \E j \in JobIds : WorkerStep(p, j) \/ Expire(p, j)
      PROVE  Goal
  BY <1>4, OthersUnseen, ContractUnseen
<1>5. ASSUME ApiCreate \/ DeadStep \/ \E o \in Orders : AdminStep(o)
      PROVE  Goal
  BY <1>5, ContractOutside
<1>6. ASSUME UNCHANGED vars  PROVE Goal
  BY <1>6, ContractUnseen DEF vars, rowVars, apiVars, Unseen
<1>7. Goal
  BY <1>1, <1>2, <1>3, <1>4, <1>5, <1>6 DEF Next
<1> QED  BY <1>7

LEMMA ContractInit == Init => Contract!Init
<1> SUFFICES ASSUME Init  PROVE Contract!Init
  OBVIOUS
<1>1. \A o \in Orders : /\ Needed(o) \in SUBSET Steps
                        /\ Held(o) = {}
                        /\ Released(o) = {}
                        /\ Shown(o) = "none"
  BY Sets DEF Init, TableInit, ServicesInit, Needed, Held, Released, Shown, Exists
<1> QED  BY <1>1 DEF Contract!Init

(* As long as no job is delivered twice and no answer is lost, the          *)
(* orchestrator keeps its contract: nothing is performed for an order once  *)
(* any of it was undone, and what its row shows is true of the services.    *)
THEOREM ContractKept ==
    ASSUME NoCrash, ~Lossy
    PROVE  Spec => KeepsContract
<1>1. TypeOK /\ SagaInv /\ OnceInv /\ OnceInv' /\ [Next]_vars
         => [Contract!Next]_(Contract!vars)
  BY ContractStep
<1> QED
  BY <1>1, ContractInit, TypeCorrect, SagaInvariant, OnceInvariant, PTL
  DEF Spec, KeepsContract, Contract!Spec
=============================================================================
