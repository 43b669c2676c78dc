--------------------------- MODULE SagaTimeProofs ---------------------------
(***************************************************************************)
(* What TLAPS proves of Saga as long as some faults stay away, each        *)
(* theorem naming those it cannot bear: that jobs and polls keep ahead of  *)
(* the scheduler's thresholds, that no job is broken off, that an order is *)
(* prepaid.  Each step is first reduced to the move it makes in the life   *)
(* of every single order; the invariants are then followed move by move.   *)
(***************************************************************************)
EXTENDS SagaOnceProofs, FiniteSetTheorems

NoSlow == "slow" \notin Faults
NoSched == "sched" \notin Faults
NoInfra == "infra" \notin Faults
NoTimeout == "timeout" \notin Faults

RowSame(p) == UNCHANGED <<status[p], global[p], age[p]>>
LocalsSame(p) == UNCHANGED <<answer[p], ok[p]>>
JobsSame(p) == UNCHANGED job[p] /\ LocalsSame(p)
ApiSame(p) == UNCHANGED <<request[p], admin[p]>>

PollSame(p) ==
    /\ p \in pollSet' <=> p \in pollSet
    /\ p \in touched' <=> p \in touched

DeadSame(p) == p \in deadSet' <=> p \in deadSet

SchedSame(p) == PollSame(p) /\ DeadSame(p)

(* Job j of p moves to a state and sends jobs that may or may not be known. *)
Sends(p, j, to, E) ==
    /\ job'[p][j] = to
    /\ \A i \in JobIds :
          i # j => job'[p][i] = IF i \in E THEN Enqueued(job[p][i]) ELSE job[p][i]

(* A commit that may have changed the row may have refreshed its age. *)
Committed(p) ==
    /\ age'[p] \in {age[p], "fresh"}
    /\ status'[p] # status[p] \/ global'[p] # global[p] => age'[p] = "fresh"
-----------------------------------------------------------------------------
(* The moves. *)

MoveNone(p) == RowSame(p) /\ JobsSame(p) /\ ApiSame(p) /\ SchedSame(p)

(* arq takes, ends, forgets or releases jobs of p. *)
MoveServed(p) ==
    /\ RowSame(p) /\ LocalsSame(p) /\ ApiSame(p) /\ SchedSame(p)
    /\ \A j \in JobIds :
          \/ job'[p][j] = job[p][j]
          \/ job[p][j] = "queued" /\ job'[p][j] = EntryPc(j)
          \/ job[p][j] = "finish" /\ job'[p][j] \in {"absent", "kept"}
          \/ job[p][j] = "kept" /\ job'[p][j] = "absent"
          \/ job[p][j] = "deferred" /\ job'[p][j] = "queued"

(* All jobs that run are delivered again. *)
MoveCrash(p) ==
    /\ "crash" \in Faults
    /\ RowSame(p) /\ ApiSame(p) /\ SchedSame(p)
    /\ \A j \in JobIds :
          job'[p][j] = IF Running(p, j) THEN "queued" ELSE job[p][j]

(* A step's service has answered. *)
MoveCall(p, s) ==
    /\ RowSame(p) /\ ApiSame(p) /\ SchedSame(p)
    /\ UNCHANGED ok[p]
    /\ \A t \in Steps : t # s => answer'[p][t] = answer[p][t]
    /\ job[p][s] = "call"
    /\ Sends(p, s, "write", {})

(* A step locks the row and sends what comes next. *)
MoveWrite(p, s) ==
    /\ RowSame(p) /\ LocalsSame(p) /\ ApiSame(p) /\ SchedSame(p)
    /\ job[p][s] = "write"
    /\ ~RowLocked(p)
    /\ Sends(p, s, "commit", StepJobs(p, s))

(* A step commits; if the COMMIT raises all the same, the handler sends a   *)
(* compensation.                                                            *)
MoveCommit(p, s) ==
    /\ ApiSame(p) /\ SchedSame(p)
    /\ UNCHANGED ok[p]
    /\ job[p][s] = "commit"
    /\ status'[p] = StepColumns(p, s)
    /\ global'[p] = StepGlobal(p, s)
    /\ Committed(p)
    /\ answer'[p] = [answer[p] EXCEPT ![s] = "FAILED"]
    /\ \/ Sends(p, s, "finish", {})
       \/ "infra" \in Faults /\ Sends(p, s, "finish", {"compensation"})

(* A step is broken off, by its handler or without it. *)
MoveAbort(p, s) ==
    /\ RowSame(p) /\ ApiSame(p) /\ SchedSame(p)
    /\ UNCHANGED ok[p]
    /\ job[p][s] \in ForwardPc
    /\ answer'[p] = [answer[p] EXCEPT ![s] = "FAILED"]
    /\ \/ /\ "timeout" \in Faults
          /\ \E E \in SUBSET MaySend(p, s) : Sends(p, s, "finish", E)
       \/ /\ "infra" \in Faults
          /\ \E E \in SUBSET (MaySend(p, s) \cup {"compensation"}) :
                Sends(p, s, "finish", E)

(* A compensation starts, or breaks off once its first commit is made. *)
MoveStart(p, c) ==
    /\ ApiSame(p) /\ SchedSame(p)
    /\ UNCHANGED <<status[p], answer[p]>>
    /\ job[p][c] = "read"
    /\ ~Pending(p)
    /\ global'[p] = "COMPENSATING"
    /\ age'[p] = "fresh"
    /\ \A d \in CompJobs : d # c => ok'[p][d] = ok[p][d]
    /\ \/ UNCHANGED ok[p] /\ Sends(p, c, "undo", {})
       \/ "infra" \in Faults /\ Sends(p, c, "finish", {})

(* A compensation ends early: it defers, its retry is dropped, or it is     *)
(* broken off.                                                              *)
MoveEnd(p, c) ==
    /\ RowSame(p) /\ ApiSame(p) /\ SchedSame(p)
    /\ UNCHANGED answer[p]
    /\ \A d \in CompJobs : d # c => ok'[p][d] = ok[p][d]
    /\ job[p][c] \in CompensationPc
    /\ \/ job[p][c] = "read" /\ Pending(p) /\ ~RowLocked(p)
       \/ job[p][c] = "requeue"
       \/ Faults \cap {"infra", "timeout"} # {}
    /\ Sends(p, c, "finish", {})

(* An undo request of a compensation is answered. *)
MoveUndo(p, c) ==
    /\ RowSame(p) /\ ApiSame(p) /\ SchedSame(p)
    /\ UNCHANGED <<answer[p], job[p]>>
    /\ job[p][c] = "undo"
    /\ \A d \in CompJobs : d # c => ok'[p][d] = ok[p][d]

(* A compensation calls Slack. *)
MoveAlert(p, c) ==
    /\ RowSame(p) /\ LocalsSame(p) /\ ApiSame(p) /\ SchedSame(p)
    /\ job[p][c] = "undo"
    /\ ~RowLocked(p)
    /\ StillHeld(p, c)
    /\ Sends(p, c, "alert", {})

(* A compensation settles the order: done, given up, or to be tried again.  *)
MoveSettle(p, c) ==
    /\ ApiSame(p) /\ SchedSame(p)
    /\ UNCHANGED answer[p]
    /\ \A d \in CompJobs : d # c => ok'[p][d] = ok[p][d]
    /\ status'[p] = Settled(p, c)
    /\ Committed(p)
    /\ \/ /\ job[p][c] = "undo" /\ ~StillHeld(p, c) /\ ~RowLocked(p)
          /\ global'[p] = "CANCELLED"
          /\ Sends(p, c, "finish", {})
       \/ /\ job[p][c] = "alert"
          /\ global'[p] = "MANUAL_INTERVENTION_REQUIRED"
          /\ Sends(p, c, "finish", {})
       \/ /\ job[p][c] = "undo" /\ StillHeld(p, c) /\ ~RowLocked(p)
          /\ UNCHANGED global[p]
          /\ Sends(p, c, "requeue", {})

(* A compensation hands over to its retry. *)
MoveRetry(p, c) ==
    /\ RowSame(p) /\ LocalsSame(p) /\ ApiSame(p) /\ SchedSame(p)
    /\ job[p][c] = "requeue"
    /\ \/ c \in Stamped /\ Sends(p, c, "deferred", {})
       \/ \E t \in Stamped :
             /\ job[p][t] = "absent"
             /\ job'[p][c] = "finish" /\ job'[p][t] = "deferred"
             /\ \A i \in JobIds \ {c, t} : job'[p][i] = job[p][i]

(* The API inserts p, enqueues its billing, or fails to. *)
MoveCreate(p) ==
    /\ UNCHANGED <<status[p], age[p], admin[p]>>
    /\ JobsSame(p) /\ SchedSame(p)
    /\ request[p] = "none" /\ request'[p] = "committed"
    /\ global'[p] = "PROCESSING"

MoveBill(p) ==
    /\ RowSame(p) /\ LocalsSame(p) /\ SchedSame(p)
    /\ UNCHANGED admin[p]
    /\ request[p] = "committed" /\ request'[p] = "ended"
    /\ \A i \in JobIds :
          job'[p][i] = IF i = "billing" THEN Enqueued(job[p][i]) ELSE job[p][i]

MoveDrop(p) ==
    /\ RowSame(p) /\ JobsSame(p) /\ SchedSame(p)
    /\ UNCHANGED admin[p]
    /\ request[p] = "committed" /\ request'[p] = "ended"

(* The administrator's two steps. *)
MoveApprove(p) ==
    /\ RowSame(p) /\ JobsSame(p) /\ SchedSame(p)
    /\ UNCHANGED request[p]
    /\ global[p] = "MANUAL_INTERVENTION_REQUIRED"
    /\ admin'[p] = "approved"

MoveForce(p) ==
    /\ JobsSame(p) /\ SchedSame(p)
    /\ UNCHANGED <<status[p], request[p]>>
    /\ ~RowLocked(p)
    /\ admin[p] = "approved" /\ admin'[p] = "forced"
    /\ global'[p] = "CANCELLED"
    /\ Committed(p)

(* Time. *)
MoveElapse(p) ==
    /\ JobsSame(p) /\ ApiSame(p) /\ SchedSame(p)
    /\ UNCHANGED <<status[p], global[p]>>
    /\ global[p] \in {"PROCESSING", "COMPENSATING"}
    /\ "slow" \notin Faults => Idle(p) /\ p \notin StuckOrders
    /\ age[p] # "dead"
    /\ age'[p] = IF age[p] = "fresh" THEN "stale" ELSE "dead"

(* The poll reads p, handles it and commits. *)
MovePollRead(p) ==
    /\ RowSame(p) /\ JobsSame(p) /\ ApiSame(p) /\ DeadSame(p)
    /\ p \in StuckOrders
    /\ p \in pollSet' /\ p \notin touched /\ p \notin touched'

MovePollEnqueue(p) ==
    /\ RowSame(p) /\ LocalsSame(p) /\ ApiSame(p) /\ DeadSame(p)
    /\ p \in pollSet /\ p \notin pollSet'
    /\ p \in touched' \/ "sched" \in Faults
    /\ \/ UNCHANGED job[p]
       \/ \E t \in Stamped :
             /\ job[p][t] = "absent"
             /\ Sends(p, t, "queued", {})

MovePollCommit(p) ==
    /\ JobsSame(p) /\ ApiSame(p) /\ DeadSame(p)
    /\ UNCHANGED <<status[p], global[p]>>
    /\ ~RowLocked(p)
    /\ p \in touched /\ p \notin touched' /\ p \notin pollSet /\ p \notin pollSet'
    /\ age'[p] = "fresh"

(* The dead-order check reads p and commits. *)
MoveDeadRead(p) ==
    /\ RowSame(p) /\ JobsSame(p) /\ ApiSame(p) /\ PollSame(p)
    /\ p \in DeadOrders
    /\ p \in deadSet'

MoveDeadCommit(p) ==
    /\ JobsSame(p) /\ ApiSame(p) /\ PollSame(p)
    /\ UNCHANGED status[p]
    /\ ~RowLocked(p)
    /\ p \in deadSet /\ p \notin deadSet'
    /\ global'[p] = "MANUAL_INTERVENTION_REQUIRED"
    /\ age'[p] = "fresh"

(* The scheduler loses what it held. *)
MoveLost(p) ==
    /\ "sched" \in Faults
    /\ RowSame(p) /\ JobsSame(p) /\ ApiSame(p)
    /\ p \in pollSet' => p \in pollSet
    /\ p \in touched' => p \in touched
    /\ p \in deadSet' => p \in deadSet

StepMove(p, s) ==
    MoveCall(p, s) \/ MoveWrite(p, s) \/ MoveCommit(p, s) \/ MoveAbort(p, s)

CompMove(p, c) ==
    \/ MoveStart(p, c) \/ MoveEnd(p, c) \/ MoveUndo(p, c)
    \/ MoveAlert(p, c) \/ MoveSettle(p, c) \/ MoveRetry(p, c)

ApiMove(p) ==
    \/ MoveCreate(p) \/ MoveBill(p) \/ MoveDrop(p)
    \/ MoveApprove(p) \/ MoveForce(p)

SchedMove(p) ==
    \/ MovePollRead(p) \/ MovePollEnqueue(p) \/ MovePollCommit(p)
    \/ MoveDeadRead(p) \/ MoveDeadCommit(p) \/ MoveLost(p)

Move(p) ==
    \/ MoveNone(p) \/ MoveServed(p) \/ MoveCrash(p) \/ MoveElapse(p)
    \/ \E s \in Steps : StepMove(p, s)
    \/ \E c \in CompJobs : CompMove(p, c)
    \/ ApiMove(p)
    \/ SchedMove(p)

(* The poll holds something only between its read and its commit. *)
PollingInv == pollSet \cup touched # {} => polling
-----------------------------------------------------------------------------
(* Every step is such a move, for each order. *)

LEMMA AdvanceSends ==
    ASSUME TypeOK, NEW o \in Orders, NEW j \in JobIds, NEW to, NEW E,
           Advance(o, j, to, E)
    PROVE  /\ Sends(o, j, to, E)
           /\ \A p \in Orders : p # o => job'[p] = job[p]
  BY DEF Advance, Sends, TypeOK, QueueTypeOK

LEMMA WriteRowIs ==
    ASSUME TypeOK, NEW o \in Orders, NEW steps, NEW g, WriteRow(o, steps, g)
    PROVE  /\ status'[o] = steps
           /\ global'[o] = g
           /\ Committed(o)
           /\ \A p \in Orders : p # o => RowSame(p)
  BY DEF WriteRow, Committed, RowSame, TypeOK, TableTypeOK

LEMMA OutsideIs ==
    ASSUME Outside, NEW p
    PROVE  ApiSame(p) /\ SchedSame(p)
  BY DEF Outside, ApiSame, SchedSame, PollSame, DeadSame, apiVars, schedVars

LEMMA ForgetIs ==
    ASSUME TypeOK, NEW o \in Orders, NEW s \in Steps, Forget(o, s)
    PROVE  /\ answer'[o] = [answer[o] EXCEPT ![s] = "FAILED"]
           /\ \A p \in Orders : p # o => answer'[p] = answer[p]
  BY DEF Forget, TypeOK, TasksTypeOK

(* The steps' jobs. *)
LEMMA StepMoves ==
    ASSUME TypeOK, NEW o \in Orders,
           BillingStep(o) \/ InventoryStep(o) \/ LogisticStep(o)
    PROVE  /\ \E s \in Steps : StepMove(o, s)
           /\ \A p \in Orders : p # o => MoveNone(p)
<1>1. PICK s \in Steps :
         \/ s = "billing" /\ ProcessBilling(o)
         \/ s # "billing" /\ ProcessParallel(o, s)
  BY Sets DEF BillingStep, InventoryStep, LogisticStep, ProcessInventory,
     ProcessLogistic
<1>2. s \in JobIds /\ Outside
  BY Sets DEF BillingStep, InventoryStep, LogisticStep
<1>3. \A p : ApiSame(p) /\ SchedSame(p)
  BY <1>2, OutsideIs
<1>4. CASE (BillingCall(o) /\ s = "billing") \/ ParallelCall(o, s)
  <2>1. /\ job[o][s] = "call" /\ Advance(o, s, "write", {})
        /\ UNCHANGED <<status, global, age, ok>>
        /\ \E a : answer' = [answer EXCEPT ![o][s] = a]
    BY <1>4 DEF BillingCall, ParallelCall, rowVars
  <2>2. /\ \A p \in Orders : p # o => answer'[p] = answer[p]
        /\ \A t \in Steps : t # s => answer'[o][t] = answer[o][t]
    BY <2>1 DEF TypeOK, TasksTypeOK
  <2>3. Sends(o, s, "write", {}) /\ \A p \in Orders : p # o => job'[p] = job[p]
    BY <1>2, <2>1, AdvanceSends
  <2> QED
    BY <1>3, <2>1, <2>2, <2>3
    DEF StepMove, MoveCall, MoveNone, RowSame, JobsSame, LocalsSame
<1>5. CASE \/ s = "billing" /\ BillingWrite(o)
           \/ s # "billing" /\ ParallelWrite(o, s)
  <2>1. /\ job[o][s] = "write" /\ Advance(o, s, "commit", StepJobs(o, s))
        /\ ~RowLocked(o)
        /\ UNCHANGED <<status, global, age, answer, ok>>
    BY <1>5 DEF BillingWrite, ParallelWrite, StepJobs, rowVars, taskVars
  <2>2. /\ Sends(o, s, "commit", StepJobs(o, s))
        /\ \A p \in Orders : p # o => job'[p] = job[p]
    BY <1>2, <2>1, AdvanceSends
  <2> QED
    BY <1>3, <2>1, <2>2
    DEF StepMove, MoveWrite, MoveNone, RowSame, JobsSame, LocalsSame
<1>6. CASE \/ s = "billing" /\ BillingCommit(o)
           \/ s # "billing" /\ ParallelCommit(o, s)
  <2>1. /\ job[o][s] = "commit" /\ Advance(o, s, "finish", {})
        /\ WriteRow(o, StepColumns(o, s), StepGlobal(o, s))
        /\ Forget(o, s)
        /\ UNCHANGED ok
    BY <1>6 DEF BillingCommit, ParallelCommit, StepColumns, StepGlobal
  <2>2. /\ Sends(o, s, "finish", {})
        /\ \A p \in Orders : p # o => job'[p] = job[p]
    BY <1>2, <2>1, AdvanceSends
  <2>3. /\ status'[o] = StepColumns(o, s) /\ global'[o] = StepGlobal(o, s)
        /\ Committed(o)
        /\ \A p \in Orders : p # o => RowSame(p)
    BY <2>1, WriteRowIs
  <2>4. /\ answer'[o] = [answer[o] EXCEPT ![s] = "FAILED"]
        /\ \A p \in Orders : p # o => answer'[p] = answer[p]
    BY <2>1, ForgetIs
  <2> QED
    BY <1>3, <2>1, <2>2, <2>3, <2>4
    DEF StepMove, MoveCommit, MoveNone, JobsSame, LocalsSame
<1> QED
  BY <1>1, <1>4, <1>5, <1>6 DEF ProcessBilling, ProcessParallel

(* What a settling compensation does to the row, the jobs and its locals.   *)
LEMMA SettleMoves ==
    ASSUME TypeOK, NEW o \in Orders, NEW c \in CompJobs, Outside,
           \/ CompensationCancel(o, c)
           \/ CompensationGiveUp(o, c)
           \/ CompensationPartial(o, c)
    PROVE  /\ MoveSettle(o, c)
           /\ \A p \in Orders : p # o => MoveNone(p)
<1>1. \A p : ApiSame(p) /\ SchedSame(p)
  BY OutsideIs
<1>2. PICK to, g : Advance(o, c, to, {}) /\ WriteRow(o, Settled(o, c), g)
  BY DEF CompensationCancel, CompensationGiveUp, CompensationPartial
<1>3. /\ Sends(o, c, to, {})
      /\ \A p \in Orders : p # o => job'[p] = job[p]
  BY <1>2, AdvanceSends, Sets
<1>4. /\ status'[o] = Settled(o, c) /\ global'[o] = g /\ Committed(o)
      /\ \A p \in Orders : p # o => RowSame(p)
  BY <1>2, WriteRowIs
<1>5. /\ UNCHANGED answer
      /\ \A p \in Orders : p # o => ok'[p] = ok[p]
      /\ \A d \in CompJobs : d # c => ok'[o][d] = ok[o][d]
  BY DEF CompensationCancel, CompensationGiveUp, CompensationPartial, TypeOK,
         TasksTypeOK
<1>6. /\ \A p \in Orders : p # o => MoveNone(p)
  BY <1>1, <1>3, <1>4, <1>5 DEF MoveNone, JobsSame, LocalsSame
<1>7. CASE CompensationCancel(o, c)
  <2>1. /\ job[o][c] = "undo" /\ ~StillHeld(o, c) /\ ~RowLocked(o)
        /\ Sends(o, c, "finish", {})
        /\ global'[o] = "CANCELLED"
    BY <1>7, AdvanceSends, WriteRowIs, Sets DEF CompensationCancel, Answered
  <2> QED  BY <1>1, <1>4, <1>5, <1>6, <2>1 DEF MoveSettle
<1>8. CASE CompensationGiveUp(o, c)
  <2>1. /\ job[o][c] = "alert"
        /\ Sends(o, c, "finish", {})
        /\ global'[o] = "MANUAL_INTERVENTION_REQUIRED"
    BY <1>8, AdvanceSends, WriteRowIs, Sets DEF CompensationGiveUp
  <2> QED  BY <1>1, <1>4, <1>5, <1>6, <2>1 DEF MoveSettle
<1>9. CASE CompensationPartial(o, c)
  <2>1. /\ job[o][c] = "undo" /\ StillHeld(o, c) /\ ~RowLocked(o)
        /\ Sends(o, c, "requeue", {})
        /\ global'[o] = global[o]
    BY <1>9, AdvanceSends, WriteRowIs, Sets DEF CompensationPartial, Answered
  <2> QED  BY <1>1, <1>4, <1>5, <1>6, <2>1 DEF MoveSettle
<1> QED  BY <1>7, <1>8, <1>9

(* compensation. *)
LEMMA CompMoves ==
    ASSUME TypeOK, NEW o \in Orders, NEW c \in CompJobs, CompensationStep(o, c)
    PROVE  /\ CompMove(o, c)
           /\ \A p \in Orders : p # o => MoveNone(p)
<1>1. /\ Outside /\ c \in JobIds
      /\ \A p : ApiSame(p) /\ SchedSame(p)
  BY OutsideIs, Sets DEF CompensationStep
<1>2. CASE CompensationRead(o, c) /\ Pending(o)
  <2>1. /\ job[o][c] = "read" /\ Advance(o, c, "finish", {}) /\ ~RowLocked(o)
        /\ UNCHANGED <<status, global, age, answer, ok>>
    BY <1>2 DEF CompensationRead, rowVars
  <2>2. Sends(o, c, "finish", {}) /\ \A p \in Orders : p # o => job'[p] = job[p]
    BY <1>1, <2>1, AdvanceSends
  <2> QED
    BY <1>1, <1>2, <2>1, <2>2
    DEF CompMove, MoveEnd, MoveNone, RowSame, JobsSame, LocalsSame, CompensationPc
<1>3. CASE CompensationRead(o, c) /\ ~Pending(o)
  <2>1. /\ job[o][c] = "read" /\ Advance(o, c, "undo", {})
        /\ UNCHANGED <<status, answer, ok>>
        /\ global' = [global EXCEPT ![o] = "COMPENSATING"]
        /\ age' = [p \in Orders |-> IF p \in {o} THEN "fresh" ELSE age[p]]
    BY <1>3 DEF CompensationRead, Reopens, Touch
  <2>2. Sends(o, c, "undo", {}) /\ \A p \in Orders : p # o => job'[p] = job[p]
    BY <1>1, <2>1, AdvanceSends
  <2>3. /\ global'[o] = "COMPENSATING" /\ age'[o] = "fresh"
        /\ \A p \in Orders : p # o => RowSame(p)
    BY <2>1 DEF RowSame, TypeOK, TableTypeOK
  <2> QED
    BY <1>1, <1>3, <2>1, <2>2, <2>3
    DEF CompMove, MoveStart, MoveNone, JobsSame, LocalsSame
<1>4. CASE \E s \in Steps : CompensationUndo(o, c, s)
  <2>1. /\ job[o][c] = "undo"
        /\ UNCHANGED <<status, global, age, job, answer>>
        /\ \E S : ok' = [ok EXCEPT ![o][c] = S] \/ ok' = ok
    BY <1>4 DEF CompensationUndo, rowVars, queueVars
  <2>2. /\ \A p \in Orders : p # o => ok'[p] = ok[p]
        /\ \A d \in CompJobs : d # c => ok'[o][d] = ok[o][d]
    BY <2>1 DEF TypeOK, TasksTypeOK
  <2> QED
    BY <1>1, <2>1, <2>2
    DEF CompMove, MoveUndo, MoveNone, RowSame, JobsSame, LocalsSame
<1>5. CASE CompensationAlert(o, c)
  <2>1. /\ job[o][c] = "undo" /\ Advance(o, c, "alert", {})
        /\ StillHeld(o, c) /\ ~RowLocked(o)
        /\ UNCHANGED <<status, global, age, answer, ok>>
    BY <1>5 DEF CompensationAlert, Answered, rowVars, taskVars
  <2>2. Sends(o, c, "alert", {}) /\ \A p \in Orders : p # o => job'[p] = job[p]
    BY <1>1, <2>1, AdvanceSends
  <2> QED
    BY <1>1, <2>1, <2>2
    DEF CompMove, MoveAlert, MoveNone, RowSame, JobsSame, LocalsSame
<1>6. CASE CompensationRequeue(o, c)
  <2>1. job[o][c] = "requeue" /\ UNCHANGED <<status, global, age, answer, ok>>
    BY <1>6 DEF CompensationRequeue, rowVars, taskVars
  <2>2. CASE Advance(o, c, "finish", {})
    <3>1. Sends(o, c, "finish", {}) /\ \A p \in Orders : p # o => job'[p] = job[p]
      BY <1>1, <2>2, AdvanceSends
    <3> QED
      BY <1>1, <2>1, <3>1
      DEF CompMove, MoveEnd, MoveNone, RowSame, JobsSame, LocalsSame, CompensationPc
  <2>3. CASE c \in Stamped /\ Advance(o, c, "deferred", {})
    <3>1. Sends(o, c, "deferred", {}) /\ \A p \in Orders : p # o => job'[p] = job[p]
      BY <1>1, <2>3, AdvanceSends
    <3> QED
      BY <1>1, <2>1, <2>3, <3>1
      DEF CompMove, MoveRetry, MoveNone, RowSame, JobsSame, LocalsSame
  <2>4. ASSUME NEW t \in FreeStamps(o),
               job' = [job EXCEPT ![o][c] = "finish", ![o][t] = "deferred"]
        PROVE  CompMove(o, c) /\ \A p \in Orders : p # o => MoveNone(p)
    <3>1. t \in Stamped /\ t \in JobIds /\ job[o][t] = "absent" /\ t # c
      BY <2>1, <2>4 DEF FreeStamps, JobIds, CompJobs
    <3>2. /\ job'[o][c] = "finish" /\ job'[o][t] = "deferred"
          /\ \A i \in JobIds \ {c, t} : job'[o][i] = job[o][i]
          /\ \A p \in Orders : p # o => job'[p] = job[p]
      BY <1>1, <2>4, <3>1 DEF TypeOK, QueueTypeOK
    <3> QED
      BY <1>1, <2>1, <3>1, <3>2
      DEF CompMove, MoveRetry, MoveNone, RowSame, JobsSame, LocalsSame
  <2> QED  BY <1>6, <2>2, <2>3, <2>4 DEF CompensationRequeue
<1>7. CASE \/ CompensationCancel(o, c)
           \/ CompensationGiveUp(o, c)
           \/ CompensationPartial(o, c)
  BY <1>1, <1>7, SettleMoves DEF CompMove
<1> QED
  BY <1>2, <1>3, <1>4, <1>5, <1>6, <1>7 DEF CompensationStep, Compensation

(* The worker taking, ending and forgetting jobs, and the second passing.   *)
LEMMA WorkerMoves ==
    ASSUME TypeOK, NEW o \in Orders, NEW j \in JobIds,
           WorkerStep(o, j) \/ Expire(o, j) \/ SecondPasses(o),
           NEW p \in Orders
    PROVE  MoveServed(p)
<1>1. /\ RowSame(p) /\ LocalsSame(p) /\ ApiSame(p) /\ SchedSame(p)
  <2>1. Outside /\ UNCHANGED <<status, global, age, answer, ok>>
    BY DEF WorkerStep, Expire, SecondPasses, rowVars, taskVars
  <2> QED  BY <2>1, OutsideIs DEF RowSame, LocalsSame
<1>2. CASE \E to : /\ Advance(o, j, to, {})
                   /\ \/ job[o][j] = "queued" /\ to = EntryPc(j)
                      \/ job[o][j] = "finish" /\ to \in {"absent", "kept"}
                      \/ job[o][j] = "kept" /\ to = "absent"
  <2>1. PICK to : /\ Advance(o, j, to, {})
                  /\ \/ job[o][j] = "queued" /\ to = EntryPc(j)
                     \/ job[o][j] = "finish" /\ to \in {"absent", "kept"}
                     \/ job[o][j] = "kept" /\ to = "absent"
    BY <1>2
  <2>2. Sends(o, j, to, {}) /\ (p # o => job'[p] = job[p])
    BY <2>1, AdvanceSends
  <2> QED  BY <1>1, <2>1, <2>2 DEF Sends, MoveServed
<1>3. CASE NextSecond(o)
  <2>1. \A i \in JobIds :
           \/ job'[p][i] = job[p][i]
           \/ job[p][i] = "deferred" /\ job'[p][i] = "queued"
    BY <1>3 DEF NextSecond, TypeOK, QueueTypeOK
  <2> QED  BY <1>1, <2>1 DEF MoveServed
<1>4. CASE Take(o, j)
  BY <1>2, <1>4 DEF Take
<1>5. CASE Finish(o, j)
  BY <1>2, <1>5 DEF Finish
<1>6. CASE ResultExpires(o, j)
  BY <1>2, <1>6 DEF ResultExpires
<1> QED
  BY <1>3, <1>4, <1>5, <1>6 DEF WorkerStep, Expire, SecondPasses

(* The infrastructure failing one job, or all. *)
LEMMA MishapMoves ==
    ASSUME TypeOK, WorkerMishap, NEW p \in Orders
    PROVE  \/ MoveNone(p) \/ MoveCrash(p)
           \/ \E s \in Steps : StepMove(p, s)
           \/ \E c \in CompJobs : CompMove(p, c)
<1>1. Outside /\ ApiSame(p) /\ SchedSame(p)
  BY OutsideIs DEF WorkerMishap
<1>2. ASSUME NEW o \in Orders, NEW s \in Steps, StepFails(o, s),
             "infra" \in Faults
      PROVE  MoveNone(p) \/ StepMove(p, s)
  <2>1. PICK E \in SUBSET (MaySend(o, s) \cup {"compensation"}) :
           Advance(o, s, "finish", E)
    BY <1>2 DEF StepFails
  <2>2. /\ Sends(o, s, "finish", E)
        /\ \A q \in Orders : q # o => job'[q] = job[q]
    BY <2>1, AdvanceSends, Sets
  <2>3. /\ UNCHANGED ok
        /\ answer'[o] = [answer[o] EXCEPT ![s] = "FAILED"]
        /\ \A q \in Orders : q # o => answer'[q] = answer[q]
        /\ job[o][s] \in ForwardPc
    BY <1>2, ForgetIs DEF StepFails, ForwardPc
  <2>4. \A q : ApiSame(q) /\ SchedSame(q)
    BY <1>1, OutsideIs
  <2>5. CASE UNCHANGED rowVars
    <3>1. \A q : RowSame(q)
      BY <2>5 DEF rowVars, RowSame
    <3> QED
      BY <1>2, <2>2, <2>3, <2>4, <3>1
      DEF StepMove, MoveAbort, MoveNone, JobsSame, LocalsSame
  <2>6. CASE /\ job[o][s] = "commit"
             /\ WriteRow(o, StepColumns(o, s), StepGlobal(o, s))
    <3>1. /\ status'[o] = StepColumns(o, s) /\ global'[o] = StepGlobal(o, s)
          /\ Committed(o)
          /\ \A q \in Orders : q # o => RowSame(q)
      BY <2>6, WriteRowIs
    <3>2. E = {} \/ E = {"compensation"}
      BY <2>6 DEF MaySend
    <3> QED
      BY <1>2, <2>2, <2>3, <2>4, <2>6, <3>1, <3>2
      DEF StepMove, MoveCommit, MoveNone, JobsSame, LocalsSame
  <2> QED  BY <1>2, <2>5, <2>6 DEF StepFails
<1>3. ASSUME NEW o \in Orders, NEW s \in Steps, StepTimeout(o, s),
             "timeout" \in Faults
      PROVE  MoveNone(p) \/ StepMove(p, s)
  <2>0. PICK E \in SUBSET MaySend(o, s) : Advance(o, s, "finish", E)
    BY <1>3 DEF StepTimeout
  <2>1. /\ job[o][s] \in ForwardPc
        /\ UNCHANGED <<status, global, age, ok>>
        /\ answer'[o] = [answer[o] EXCEPT ![s] = "FAILED"]
        /\ \A q \in Orders : q # o => answer'[q] = answer[q]
    BY <1>3, ForgetIs DEF StepTimeout, rowVars
  <2>2. /\ Sends(o, s, "finish", E)
        /\ \A q \in Orders : q # o => job'[q] = job[q]
    BY <2>0, AdvanceSends, Sets
  <2>3. \A q : ApiSame(q) /\ SchedSame(q)
    BY <1>1, OutsideIs
  <2> QED
    BY <1>3, <2>1, <2>2, <2>3
    DEF StepMove, MoveAbort, MoveNone, RowSame, JobsSame, LocalsSame
<1>4. ASSUME NEW o \in Orders, NEW c \in CompJobs,
             \/ CompensationFails(o, c) /\ "infra" \in Faults
             \/ CompensationTimeout(o, c) /\ "timeout" \in Faults
      PROVE  MoveNone(p) \/ CompMove(p, c)
  <2>1. /\ job[o][c] \in CompensationPc /\ Advance(o, c, "finish", {})
        /\ UNCHANGED answer
    BY <1>4 DEF CompensationFails, CompensationTimeout, CompensationPc
  <2>2. /\ \A q \in Orders : q # o => ok'[q] = ok[q]
        /\ \A d \in CompJobs : d # c => ok'[o][d] = ok[o][d]
    BY <1>4 DEF CompensationFails, CompensationTimeout, TypeOK, TasksTypeOK
  <2>3. /\ Sends(o, c, "finish", {})
        /\ \A q \in Orders : q # o => job'[q] = job[q]
    BY <2>1, AdvanceSends, Sets
  <2>4. \A q : ApiSame(q) /\ SchedSame(q)
    BY <1>1, OutsideIs
  <2>5. CASE UNCHANGED <<status, global, age>>
    BY <1>4, <2>1, <2>2, <2>3, <2>4, <2>5
    DEF CompMove, MoveEnd, MoveNone, RowSame, JobsSame, LocalsSame
  <2>6. CASE /\ job[o][c] = "read" /\ ~Pending(o) /\ Reopens(o)
             /\ "infra" \in Faults
    <3>1. /\ UNCHANGED status
          /\ global'[o] = "COMPENSATING" /\ age'[o] = "fresh"
          /\ \A q \in Orders : q # o => RowSame(q)
      BY <2>6 DEF Reopens, Touch, RowSame, TypeOK, TableTypeOK
    <3> QED
      BY <2>1, <2>2, <2>3, <2>4, <2>6, <3>1
      DEF CompMove, MoveStart, MoveNone, JobsSame, LocalsSame
  <2> QED
    BY <1>4, <2>5, <2>6 DEF CompensationFails, CompensationTimeout, rowVars
<1>5. CASE Mishap("crash") /\ WorkerCrash
  <2>1. /\ RowSame(p) /\ "crash" \in Faults
        /\ \A j \in JobIds :
              job'[p][j] = IF Running(p, j) THEN "queued" ELSE job[p][j]
    BY <1>5 DEF Mishap, WorkerCrash, RedeliverAll, rowVars, RowSame
  <2> QED  BY <1>1, <2>1 DEF MoveCrash
<1>6. CASE Mishap("infra") /\ \E o \in Orders :
              \/ \E s \in Steps : StepFails(o, s)
              \/ \E c \in CompJobs : CompensationFails(o, c)
  BY <1>2, <1>4, <1>6 DEF Mishap
<1>7. CASE Mishap("timeout") /\ \E o \in Orders :
              \/ \E s \in Steps : StepTimeout(o, s)
              \/ \E c \in CompJobs : CompensationTimeout(o, c)
  BY <1>3, <1>4, <1>7 DEF Mishap
<1> QED  BY <1>5, <1>6, <1>7 DEF WorkerMishap

(* The API, the administrator and time. *)
LEMMA ApiMoves ==
    ASSUME TypeOK, NEW p \in Orders,
           \/ ApiCreate \/ ApiMishap
           \/ \E o \in Orders : ApiEnqueue(o) \/ AdminStep(o) \/ Elapse(o)
    PROVE  MoveNone(p) \/ ApiMove(p) \/ MoveElapse(p)
<1>1. LocalsSame(p) /\ SchedSame(p)
  BY DEF ApiCreate, ApiMishap, ApiEnqueue, AdminStep, Elapse, LocalsSame,
         SchedSame, PollSame, DeadSame, schedVars, taskVars
<1>2. ASSUME NEW S \in SUBSET Orders, CreateOrders(S)
      PROVE  MoveNone(p) \/ MoveCreate(p)
  <2>1. /\ UNCHANGED <<status, age, job, admin>>
        /\ IF p \in S THEN /\ request[p] = "none" /\ request'[p] = "committed"
                           /\ global'[p] = "PROCESSING"
           ELSE request'[p] = request[p] /\ global'[p] = global[p]
    BY <1>2 DEF CreateOrders, queueVars
  <2> QED  BY <1>1, <2>1 DEF MoveNone, MoveCreate, RowSame, JobsSame, ApiSame
<1>3. ASSUME NEW S \in SUBSET Orders, ApiFails(S)
      PROVE  MoveNone(p) \/ MoveDrop(p)
  <2>1. /\ UNCHANGED <<status, global, age, job, admin>>
        /\ IF p \in S THEN request[p] = "committed" /\ request'[p] = "ended"
           ELSE request'[p] = request[p]
    BY <1>3 DEF ApiFails, rowVars, queueVars
  <2> QED  BY <1>1, <2>1 DEF MoveNone, MoveDrop, RowSame, JobsSame, ApiSame
<1>4. ASSUME NEW o \in Orders, EnqueueBilling(o)
      PROVE  MoveNone(p) \/ MoveBill(p)
  <2>1. /\ UNCHANGED <<status, global, age, admin>>
        /\ p # o => request'[p] = request[p] /\ job'[p] = job[p]
        /\ p = o => /\ request[p] = "committed" /\ request'[p] = "ended"
                    /\ \A i \in JobIds :
                          job'[p][i] = IF i = "billing" THEN Enqueued(job[p][i])
                                       ELSE job[p][i]
    BY <1>4, Sets
    DEF EnqueueBilling, Enqueue, rowVars, TypeOK, QueueTypeOK, ApiTypeOK
  <2> QED  BY <1>1, <2>1 DEF MoveNone, MoveBill, RowSame, JobsSame, ApiSame
<1>5. ASSUME NEW o \in Orders, ForceCancelRead(o)
      PROVE  MoveNone(p) \/ MoveApprove(p)
  <2>1. /\ UNCHANGED <<status, global, age, job, request>>
        /\ p # o => admin'[p] = admin[p]
        /\ p = o => /\ global[p] = "MANUAL_INTERVENTION_REQUIRED"
                    /\ admin'[p] = "approved"
    BY <1>5 DEF ForceCancelRead, rowVars, queueVars, TypeOK, ApiTypeOK
  <2> QED  BY <1>1, <2>1 DEF MoveNone, MoveApprove, RowSame, JobsSame, ApiSame
<1>6. ASSUME NEW o \in Orders, ForceCancelWrite(o)
      PROVE  MoveNone(p) \/ MoveForce(p)
  <2>1. /\ UNCHANGED <<job, request>>
        /\ ~RowLocked(o) /\ admin[o] = "approved" /\ admin'[o] = "forced"
        /\ p # o => admin'[p] = admin[p]
    BY <1>6 DEF ForceCancelWrite, queueVars, TypeOK, ApiTypeOK
  <2>2. /\ status'[o] = status[o] /\ global'[o] = "CANCELLED" /\ Committed(o)
        /\ p # o => RowSame(p)
    BY <1>6, WriteRowIs DEF ForceCancelWrite
  <2> QED  BY <1>1, <2>1, <2>2 DEF MoveNone, MoveForce, JobsSame, ApiSame
<1>7. ASSUME NEW o \in Orders, Elapse(o)
      PROVE  MoveNone(p) \/ MoveElapse(p)
  <2>1. /\ UNCHANGED <<status, global, job, request, admin>>
        /\ global[o] \in {"PROCESSING", "COMPENSATING"}
        /\ "slow" \notin Faults => Idle(o) /\ o \notin StuckOrders
        /\ age[o] # "dead"
        /\ age' = [age EXCEPT ![o] = IF @ = "fresh" THEN "stale" ELSE "dead"]
    BY <1>7 DEF Elapse, GrowOld, queueVars, apiVars
  <2>2. /\ age'[o] = IF age[o] = "fresh" THEN "stale" ELSE "dead"
        /\ p # o => age'[p] = age[p]
    BY <2>1 DEF TypeOK, TableTypeOK
  <2> QED  BY <1>1, <2>1, <2>2 DEF MoveNone, MoveElapse, RowSame, JobsSame, ApiSame
<1> QED
  BY <1>2, <1>3, <1>4, <1>5, <1>6, <1>7
  DEF ApiCreate, ApiMishap, ApiEnqueue, AdminStep, ApiMove

(* What the poll, or a poll that raises, does to the jobs. *)
LEMMA DispatchSends ==
    ASSUME TypeOK, NEW o \in Orders, NEW p \in Orders,
           UNCHANGED queueVars \/ Dispatch(o)
    PROVE  /\ p # o => job'[p] = job[p]
           /\ p = o => \/ UNCHANGED job[p]
                       \/ \E t \in Stamped :
                             job[p][t] = "absent" /\ Sends(p, t, "queued", {})
<1>1. CASE UNCHANGED job
  BY <1>1
<1>2. ASSUME NEW t \in Stamped, job[o][t] = "absent", Enqueue(o, t)
      PROVE  /\ p # o => job'[p] = job[p]
             /\ Sends(o, t, "queued", {})
  <2>1. t \in JobIds
    BY DEF JobIds, CompJobs
  <2>2. job' = [job EXCEPT ![o][t] = "queued"]
    BY <1>2, <2>1 DEF Enqueue, Enqueued, TypeOK, QueueTypeOK
  <2> QED  BY <2>1, <2>2 DEF Sends, TypeOK, QueueTypeOK
<1> QED  BY <1>1, <1>2 DEF Dispatch, queueVars

(* The scheduler. *)
LEMMA SchedMoves ==
    ASSUME TypeOK, PollingInv, NEW p \in Orders,
           PollStep \/ DeadStep \/ SchedulerMishap
    PROVE  MoveNone(p) \/ SchedMove(p)
<1>1. LocalsSame(p) /\ ApiSame(p)
  BY DEF PollStep, DeadStep, SchedulerMishap, LocalsSame, ApiSame, apiVars,
         taskVars
<1>2. CASE PollRead
  <2>1. /\ UNCHANGED <<status, global, age, job, touched, deadSet>>
        /\ pollSet' = StuckOrders /\ pollSet = {} /\ touched = {}
    BY <1>2 DEF PollRead, PollingInv, rowVars, queueVars
  <2> QED
    BY <1>1, <2>1
    DEF SchedMove, MovePollRead, MoveNone, RowSame, JobsSame, SchedSame,
        PollSame, DeadSame
<1>3. ASSUME NEW o \in Orders,
             \/ PollEnqueue(o)
             \/ PollEnqueueFails(o) /\ "sched" \in Faults
      PROVE  MoveNone(p) \/ MovePollEnqueue(p)
  <2>1. /\ UNCHANGED <<status, global, age, deadSet>>
        /\ o \in pollSet /\ pollSet' = pollSet \ {o}
        /\ \/ touched' = touched \cup {o}
           \/ "sched" \in Faults /\ touched' = touched
    BY <1>3 DEF PollEnqueue, PollEnqueueFails, rowVars
  <2>2. /\ p # o => job'[p] = job[p]
        /\ p = o => \/ UNCHANGED job[p]
                    \/ \E t \in Stamped :
                          job[p][t] = "absent" /\ Sends(p, t, "queued", {})
    BY <1>3, DispatchSends DEF PollEnqueue, PollEnqueueFails
  <2> QED
    BY <1>1, <2>1, <2>2
    DEF MovePollEnqueue, MoveNone, RowSame, JobsSame, SchedSame, PollSame, DeadSame
<1>4. CASE PollCommit
  <2>1. /\ UNCHANGED <<status, global, job, pollSet, deadSet>>
        /\ pollSet = {} /\ touched' = {}
        /\ p \in touched => ~RowLocked(p)
        /\ age'[p] = IF p \in touched THEN "fresh" ELSE age[p]
    BY <1>4 DEF PollCommit, Touch, queueVars
  <2> QED
    BY <1>1, <2>1
    DEF SchedMove, MovePollCommit, MoveNone, RowSame, JobsSame, SchedSame,
        PollSame, DeadSame
<1>5. CASE DeadRead
  <2>1. /\ UNCHANGED <<status, global, age, job, pollSet, touched>>
        /\ deadSet = {} /\ deadSet' = DeadOrders
    BY <1>5 DEF DeadRead, rowVars, queueVars
  <2> QED
    BY <1>1, <2>1
    DEF SchedMove, MoveDeadRead, MoveNone, RowSame, JobsSame, SchedSame,
        PollSame, DeadSame
<1>6. CASE DeadCommit
  <2>1. /\ UNCHANGED <<status, job, pollSet, touched>> /\ deadSet' = {}
        /\ IF p \in deadSet
           THEN /\ ~RowLocked(p)
                /\ global'[p] = "MANUAL_INTERVENTION_REQUIRED"
                /\ age'[p] = "fresh"
           ELSE global'[p] = global[p] /\ age'[p] = age[p]
    BY <1>6 DEF DeadCommit, Touch, queueVars
  <2> QED
    BY <1>1, <2>1
    DEF SchedMove, MoveDeadCommit, MoveNone, RowSame, JobsSame, SchedSame,
        PollSame, DeadSame
<1>7. CASE SchedulerFails /\ "sched" \in Faults
  <2>1. /\ UNCHANGED <<status, global, age, job>>
        /\ pollSet' \subseteq pollSet /\ touched' \subseteq touched
        /\ deadSet' \subseteq deadSet
    BY <1>7 DEF SchedulerFails, rowVars, queueVars
  <2> QED
    BY <1>1, <1>7, <2>1 DEF SchedMove, MoveLost, RowSame, JobsSame
<1> QED
  BY <1>2, <1>3, <1>4, <1>5, <1>6, <1>7
  DEF PollStep, DeadStep, SchedulerMishap, Mishap, SchedMove

LEMMA Moves ==
    ASSUME TypeOK, PollingInv, Next, NEW p \in Orders
    PROVE  Move(p)
<1>1. ASSUME NEW o \in Orders,
             \/ BillingStep(o) \/ InventoryStep(o) \/ LogisticStep(o)
             \/ \E c \in CompJobs : CompensationStep(o, c)
      PROVE  Move(p)
  BY <1>1, StepMoves, CompMoves DEF Move
<1>2. ASSUME NEW o \in Orders, NEW j \in JobIds,
             WorkerStep(o, j) \/ Expire(o, j) \/ SecondPasses(o)
      PROVE  Move(p)
  BY <1>2, WorkerMoves DEF Move
<1>3. "billing" \in JobIds
  BY Sets
<1>4. ASSUME WorkerMishap  PROVE Move(p)
  BY <1>4, MishapMoves DEF Move
<1>5. ASSUME \/ ApiCreate \/ ApiMishap
             \/ \E o \in Orders : ApiEnqueue(o) \/ AdminStep(o) \/ Elapse(o)
      PROVE  Move(p)
  BY <1>5, ApiMoves DEF Move
<1>6. ASSUME PollStep \/ DeadStep \/ SchedulerMishap  PROVE Move(p)
  BY <1>6, SchedMoves DEF Move
<1> QED  BY <1>1, <1>2, <1>3, <1>4, <1>5, <1>6 DEF Next

LEMMA Stutter ==
    ASSUME UNCHANGED vars, NEW p \in Orders
    PROVE  Move(p)
  BY DEF vars, rowVars, queueVars, taskVars, schedVars, apiVars, Move, MoveNone,
         RowSame, JobsSame, LocalsSame, ApiSame, SchedSame, PollSame, DeadSame
-----------------------------------------------------------------------------
(* The lock, and what a compensation has seen: whatever fails. *)

(* No commit makes a column PENDING. *)
LEMMA Decides ==
    ASSUME TypeOK, NEW p \in Orders, NEW s \in Steps, NEW c \in CompJobs,
           \/ status'[p] = status[p]
           \/ status'[p] = StepColumns(p, s)
           \/ status'[p] = Settled(p, c),
           Pending(p)'
    PROVE  Pending(p)
<1>1. PICK t \in Steps : status'[p][t] = "PENDING"
  BY DEF Pending
<1>2. answer[p][s] # "PENDING"
  BY DEF TypeOK, TasksTypeOK, Answers
<1>3. status[p][t] = "PENDING"
  <2>1. CASE status'[p] = StepColumns(p, s)
    BY <1>1, <1>2, <2>1
    DEF StepColumns, BillingColumns, ParallelColumns, TypeOK, TableTypeOK
  <2>2. CASE status'[p] = Settled(p, c)
    BY <1>1, <2>2 DEF Settled
  <2> QED  BY <1>1, <2>1, <2>2
<1> QED  BY <1>3 DEF Pending

(* A move that lets no job into the lock, nor past phase 1 otherwise than   *)
(* from there.                                                              *)
LEMMA HoldQuiet ==
    ASSUME TypeOK, NEW p \in Orders, HoldAt(p), Pending(p)' => Pending(p),
           \A i \in JobIds : job'[p][i] \in {"commit", "alert"} =>
              job'[p][i] = job[p][i],
           \A c \in CompJobs : job'[p][c] \in {"undo", "alert", "requeue"} =>
              job[p][c] \in {"undo", "alert", "requeue"}
    PROVE  HoldAt(p)'
  BY DEF HoldAt

LEMMA HoldStep ==
    ASSUME TypeOK, NEW p \in Orders, HoldAt(p), Move(p)
    PROVE  HoldAt(p)'
<1> USE Sets
<1>0. \A i \in JobIds : Enqueued(job[p][i]) \in {job[p][i], "queued"}
  BY DEF Enqueued
<1>1. CASE MoveServed(p) \/ MoveCrash(p)
  <2>1. Pending(p)' => Pending(p)
    BY <1>1 DEF MoveServed, MoveCrash, RowSame, Pending
  <2> QED
    BY <1>1, <2>1, HoldQuiet DEF MoveServed, MoveCrash, EntryPc
<1>2. CASE MoveNone(p) \/ MoveElapse(p)
  BY <1>2
  DEF MoveNone, MoveElapse, RowSame, JobsSame, HoldAt, Pending
<1>3. ASSUME NEW s \in Steps, StepMove(p, s)  PROVE HoldAt(p)'
  <2>1. "compensation" \in CompJobs
    BY DEF CompJobs
  <2>2. Pending(p)' => Pending(p)
    BY <1>3, <2>1, Decides
    DEF StepMove, MoveCall, MoveWrite, MoveCommit, MoveAbort, RowSame
  <2>3. CASE MoveWrite(p, s)
    <3>1. /\ job'[p][s] = "commit" /\ ~RowLocked(p)
          /\ \A i \in JobIds : i # s => job'[p][i] \in {job[p][i], "queued"}
      BY <1>0, <2>3 DEF MoveWrite, Sends
    <3> QED  BY <2>2, <3>1 DEF HoldAt, RowLocked
  <2>4. CASE MoveCall(p, s) \/ MoveCommit(p, s) \/ MoveAbort(p, s)
    <3>1. \A i \in JobIds :
             job'[p][i] \in {job[p][i], "queued", "write", "finish"}
      BY <1>0, <2>4 DEF MoveCall, MoveCommit, MoveAbort, Sends
    <3> QED  BY <2>2, <3>1, HoldQuiet
  <2> QED  BY <1>3, <2>3, <2>4 DEF StepMove
<1>4. ASSUME NEW c \in CompJobs, CompMove(p, c)  PROVE HoldAt(p)'
  <2>1. "billing" \in Steps
    OBVIOUS
  <2>2. Pending(p)' => Pending(p)
    BY <1>4, <2>1, Decides
    DEF CompMove, MoveStart, MoveEnd, MoveUndo, MoveAlert, MoveSettle,
        MoveRetry, RowSame
  <2>3. CASE MoveAlert(p, c)
    <3>1. /\ job'[p][c] = "alert" /\ job[p][c] = "undo" /\ ~RowLocked(p)
          /\ \A i \in JobIds : i # c => job'[p][i] = job[p][i]
      BY <2>3 DEF MoveAlert, Sends
    <3> QED  BY <2>2, <3>1 DEF HoldAt, RowLocked
  <2>4. CASE MoveStart(p, c)
    <3>1. /\ job'[p][c] \in {"undo", "finish"} /\ ~Pending(p)
          /\ \A i \in JobIds : i # c => job'[p][i] = job[p][i]
      BY <2>4 DEF MoveStart, Sends
    <3>2. CASE job'[p][c] = "undo"
      <4>1. ~Pending(p)'
        BY <2>2, <3>1
      <4>2. \A i \in JobIds :
               job'[p][i] \in {"commit", "alert"} => job'[p][i] = job[p][i]
        BY <3>1, <3>2
      <4>3. \A i, j \in JobIds :
               {job'[p][i], job'[p][j]} \subseteq {"commit", "alert"} => i = j
        BY <4>2 DEF HoldAt
      <4> QED  BY <4>1, <4>3 DEF HoldAt
    <3>3. CASE job'[p][c] = "finish"
      BY <2>2, <3>1, <3>3, HoldQuiet
    <3> QED  BY <3>1, <3>2, <3>3
  <2>5. CASE MoveEnd(p, c) \/ MoveUndo(p, c) \/ MoveRetry(p, c)
    <3>1. \A i \in JobIds : job'[p][i] \in {job[p][i], "finish", "deferred"}
      BY <2>5 DEF MoveEnd, MoveUndo, MoveRetry, Sends
    <3> QED  BY <2>2, <3>1, HoldQuiet
  <2>6. CASE MoveSettle(p, c)
    <3>1. /\ job[p][c] \in {"undo", "alert"}
          /\ job'[p][c] \in {"finish", "requeue"}
          /\ \A i \in JobIds : i # c => job'[p][i] = job[p][i]
      BY <2>6 DEF MoveSettle, Sends
    <3> QED  BY <2>2, <3>1, HoldQuiet
  <2> QED  BY <1>4, <2>3, <2>4, <2>5, <2>6 DEF CompMove
<1>5. CASE ApiMove(p) \/ SchedMove(p)
  <2>1. Pending(p)' => Pending(p)
    BY <1>5
    DEF ApiMove, MoveCreate, MoveBill, MoveDrop, MoveApprove, MoveForce,
        SchedMove, MovePollRead, MovePollEnqueue, MovePollCommit, MoveDeadRead,
        MoveDeadCommit, MoveLost, RowSame, Pending
  <2>2. \A i \in JobIds : job'[p][i] \in {job[p][i], "queued"}
    BY <1>0, <1>5
    DEF ApiMove, MoveCreate, MoveBill, MoveDrop, MoveApprove, MoveForce,
        SchedMove, MovePollRead, MovePollEnqueue, MovePollCommit, MoveDeadRead,
        MoveDeadCommit, MoveLost, JobsSame, Sends
  <2> QED  BY <2>1, <2>2, HoldQuiet
<1> QED  BY <1>1, <1>2, <1>3, <1>4, <1>5 DEF Move

LEMMA PollingStep ==
    ASSUME PollingInv, [Next]_vars
    PROVE  PollingInv'
<1>1. CASE PollStep \/ SchedulerMishap
  BY <1>1
  DEF PollingInv, PollStep, PollRead, PollEnqueue, PollCommit, SchedulerMishap,
      SchedulerFails, PollEnqueueFails
<1>2. CASE UNCHANGED <<polling, pollSet, touched>>
  BY <1>2 DEF PollingInv
<1>3. ASSUME NEW o \in Orders,
             \/ ApiEnqueue(o) \/ AdminStep(o) \/ BillingStep(o)
             \/ InventoryStep(o) \/ LogisticStep(o) \/ Elapse(o)
             \/ SecondPasses(o)
             \/ \E c \in CompJobs : CompensationStep(o, c)
             \/ \E j \in JobIds : WorkerStep(o, j) \/ Expire(o, j)
      PROVE  UNCHANGED <<polling, pollSet, touched>>
  BY <1>3
  DEF ApiEnqueue, AdminStep, BillingStep, InventoryStep, LogisticStep, Elapse,
      SecondPasses, CompensationStep, WorkerStep, Expire, Outside, schedVars
<1>4. ASSUME ApiCreate \/ ApiMishap \/ WorkerMishap \/ DeadStep \/ UNCHANGED vars
      PROVE  UNCHANGED <<polling, pollSet, touched>>
  BY <1>4
  DEF ApiCreate, ApiMishap, WorkerMishap, DeadStep, DeadRead, DeadCommit,
      Outside, schedVars, vars
<1> QED  BY <1>1, <1>2, <1>3, <1>4 DEF Next

(* The first states. *)
LEMMA StartIs ==
    ASSUME Init, NEW p \in Orders
    PROVE  /\ \A s \in Steps : status[p][s] = "PENDING"
           /\ global[p] = "ABSENT" /\ age[p] = "fresh"
           /\ request[p] = "none" /\ admin[p] = "idle"
           /\ \A j \in JobIds : job[p][j] = "absent"
           /\ p \notin pollSet \cup touched \cup deadSet
           /\ PollingInv
  BY DEF Init, TableInit, QueueInit, SchedulerInit, ApiInit, PollingInv

(* Two coroutines never hold the lock of one row, and a compensation past   *)
(* its first phase, in its Slack call or about to be retried has seen every *)
(* step decided; whatever fails, redelivery included.                       *)
THEOREM HoldInvariant == Spec => []HoldInv
<1>1. Init => PollingInv
  BY DEF Init, SchedulerInit, PollingInv
<1>2. Init => HoldInv
  BY StartIs, Sets DEF HoldInv, HoldAt
<1>3. TypeOK /\ PollingInv /\ HoldInv /\ [Next]_vars => HoldInv'
  BY HoldStep, Moves, Stutter DEF HoldInv
<1> QED
  BY <1>1, <1>2, <1>3, TypeCorrect, PollingStep, PTL DEF Spec
-----------------------------------------------------------------------------
(* On time. *)

OnTime == NoCrash /\ NoSlow /\ NoSched

(* When every step is decided, no forward job will touch the row again. *)
LEMMA DecidedIsOver ==
    ASSUME NEW p \in Orders, OnceAt(p), ~Pending(p)
    PROVE  StepsOver(p)
  BY Sets DEF OnceAt, AheadInv, Ahead, WriteInv, Pending, StepsOver, ForwardPc

(* Only a step's job sends others: parallel steps, or the compensation with *)
(* the fixed id.                                                            *)
LEMMA StepSends ==
    ASSUME NEW p \in Orders, NEW s \in Steps
    PROVE  /\ StepJobs(p, s) \subseteq Parallel \cup {"compensation"}
           /\ MaySend(p, s) \subseteq Parallel \cup {"compensation"}
  BY DEF MaySend, StepJobs, BillingJobs, ParallelJobs

LEMMA StepMoveJobs ==
    ASSUME NEW p \in Orders, NEW s \in Steps, StepMove(p, s)
    PROVE  /\ ~StepsOver(p)
           /\ \A t \in Stamped : job'[p][t] = job[p][t]
<1>1. job[p][s] \in ForwardPc
  BY DEF StepMove, MoveCall, MoveWrite, MoveCommit, MoveAbort, ForwardPc
<1>2. \A t \in Stamped : t \in JobIds /\ t # s /\ t \notin Parallel \cup {"compensation"}
  BY StampedAssumption, Sets DEF JobIds, CompJobs
<1>3. \E to, E : Sends(p, s, to, E) /\ E \subseteq Parallel \cup {"compensation"}
  BY StepSends DEF StepMove, MoveCall, MoveWrite, MoveCommit, MoveAbort
<1> QED  BY <1>1, <1>2, <1>3 DEF StepsOver, Sends

(* Steps that are over stay so, and what rests is woken by the poll alone.  *)
LEMMA OverStays ==
    ASSUME NoCrash, TypeOK, NEW p \in Orders, OnceAt(p), StepsOver(p), Move(p)
    PROVE  StepsOver(p)'
<1> USE Sets DEF StepsOver
<1>1. ASSUME NEW s \in Steps, StepMove(p, s)  PROVE FALSE
  BY <1>1, StepMoveJobs
<1>2. CASE MoveServed(p)
  BY <1>2 DEF MoveServed, ApiSame, OnceAt, StartInv, ForwardPc
<1>3. ASSUME NEW c \in CompJobs, CompMove(p, c)
      PROVE  UNCHANGED request[p] /\ \A s \in Steps : job'[p][s] = job[p][s]
  <2>1. \A t \in Stamped : t \notin Steps
    BY StampedAssumption
  <2> QED
    BY <1>3, <2>1
    DEF CompMove, MoveStart, MoveEnd, MoveUndo, MoveAlert, MoveSettle, MoveRetry,
        ApiSame, Sends
<1>4. CASE SchedMove(p)
  <2>1. UNCHANGED request[p] /\ \A s \in Steps : job'[p][s] = job[p][s]
    BY <1>4, StampedAssumption
    DEF SchedMove, MovePollRead, MovePollEnqueue, MovePollCommit, MoveDeadRead,
        MoveDeadCommit, MoveLost, JobsSame, ApiSame, Sends
  <2> QED  BY <2>1
<1>5. CASE MoveNone(p) \/ MoveElapse(p) \/ ApiMove(p)
  BY <1>5
  DEF MoveNone, MoveElapse, ApiMove, MoveCreate, MoveBill, MoveDrop, MoveApprove,
      MoveForce, JobsSame, ApiSame
<1>6. ~MoveCrash(p)
  BY DEF MoveCrash, NoCrash
<1> QED  BY <1>1, <1>2, <1>3, <1>4, <1>5, <1>6 DEF Move

LEMMA RestStays ==
    ASSUME NoCrash, TypeOK, NEW p \in Orders, OnceAt(p), AtRest(p), Move(p),
           ~MovePollEnqueue(p)
    PROVE  /\ AtRest(p)'
           /\ UNCHANGED status[p]
           /\ \/ RowSame(p) /\ ApiSame(p) /\ SchedSame(p)
              \/ MoveElapse(p) \/ MoveApprove(p) \/ MoveForce(p)
              \/ MovePollRead(p) \/ MovePollCommit(p) \/ MoveDeadRead(p)
              \/ MoveDeadCommit(p) \/ MoveLost(p)
<1>1. StepsOver(p)' /\ StepsOver(p)
  BY OverStays DEF AtRest
<1>2. ASSUME NEW s \in Steps, StepMove(p, s)  PROVE FALSE
  BY <1>1, <1>2, StepMoveJobs
<1>3. ASSUME NEW c \in CompJobs, CompMove(p, c)  PROVE FALSE
  BY <1>3
  DEF AtRest, Attempting, CompensationPc, CompMove, MoveStart, MoveEnd, MoveUndo,
      MoveAlert, MoveSettle, MoveRetry
<1>4. CASE MoveServed(p)
  <2>1. \A c \in CompJobs : ~Attempting(p, c)'
    BY <1>4, Sets DEF MoveServed, AtRest, Attempting, CompensationPc
  <2> QED  BY <1>1, <1>4, <2>1 DEF AtRest, MoveServed, RowSame
<1>5. ~MoveCrash(p) /\ ~MoveCreate(p) /\ ~MoveBill(p) /\ ~MoveDrop(p)
  BY <1>1 DEF MoveCrash, NoCrash, MoveCreate, MoveBill, MoveDrop, StepsOver
<1>6. CASE \/ MoveNone(p) \/ MoveElapse(p) \/ MoveApprove(p) \/ MoveForce(p)
           \/ MovePollRead(p) \/ MovePollCommit(p) \/ MoveDeadRead(p)
           \/ MoveDeadCommit(p) \/ MoveLost(p)
  <2>1. UNCHANGED <<job[p], status[p]>>
    BY <1>6
    DEF MoveNone, MoveElapse, MoveApprove, MoveForce, MovePollRead,
        MovePollCommit, MoveDeadRead, MoveDeadCommit, MoveLost, JobsSame, RowSame
  <2>2. AtRest(p)'
    BY <1>1, <2>1 DEF AtRest, Attempting
  <2> QED  BY <1>6, <2>1, <2>2 DEF MoveNone
<1> QED
  BY <1>2, <1>3, <1>4, <1>5, <1>6 DEF Move, ApiMove, SchedMove

(* An order that rests. *)
LEMMA PaceAtRest ==
    ASSUME OnTime, TypeOK, NEW p \in Orders, OnceAt(p), PaceAt(p), AtRest(p),
           Move(p), ~MovePollEnqueue(p)
    PROVE  PaceAt(p)'
<1>1. /\ AtRest(p)' /\ UNCHANGED status[p]
      /\ \/ RowSame(p) /\ ApiSame(p) /\ SchedSame(p)
         \/ MoveElapse(p) \/ MoveApprove(p) \/ MoveForce(p)
         \/ MovePollRead(p) \/ MovePollCommit(p) \/ MoveDeadRead(p)
         \/ MoveDeadCommit(p)
  BY RestStays DEF OnTime, NoSched, MoveLost
<1>2. AttemptInv(p)' /\ PollInv(p)'
  BY <1>1 DEF AttemptInv, PollInv, AtRest, Attempting
<1>3. UNCHANGED Succeeded(p)
  BY <1>1 DEF Succeeded
<1> USE <1>1, <1>3 DEF PaceAt
<1>4. CASE RowSame(p) /\ ApiSame(p) /\ SchedSame(p)
  BY <1>2, <1>4
  DEF RowSame, ApiSame, SchedSame, PollSame, DeadSame, DeadInv, ClosedInv
<1>5. CASE MoveElapse(p)
  <2>1. /\ global[p] \in {"PROCESSING", "COMPENSATING"} /\ UNCHANGED global[p]
        /\ p \notin StuckOrders /\ Idle(p) /\ SchedSame(p) /\ ApiSame(p)
        /\ age[p] # "fresh" \/ age'[p] # "dead"
    BY <1>5 DEF MoveElapse, OnTime, NoSlow
  <2>2. global[p] = "PROCESSING" => Pending(p)
    BY DEF OnceAt, ProcessingInv
  <2>3. age'[p] = "dead" => global[p] = "COMPENSATING" /\ Succeeded(p) = {}
    BY <2>1, <2>2 DEF StuckOrders
  <2> QED
    BY <1>2, <2>1, <2>3
    DEF DeadInv, ClosedInv, Idle, SchedSame, PollSame, DeadSame, ApiSame
<1>6. CASE MoveApprove(p) \/ MoveForce(p)
  BY <1>2, <1>6
  DEF MoveApprove, MoveForce, Committed, RowSame, SchedSame, PollSame, DeadSame,
      DeadInv, ClosedInv
<1>7. CASE MovePollRead(p)
  BY <1>2, <1>7
  DEF MovePollRead, StuckOrders, RowSame, ApiSame, DeadSame, DeadInv, ClosedInv
<1>8. CASE MovePollCommit(p)
  BY <1>2, <1>8 DEF MovePollCommit, ApiSame, DeadSame, DeadInv, ClosedInv
<1>9. CASE MoveDeadRead(p) \/ MoveDeadCommit(p)
  BY <1>2, <1>9
  DEF MoveDeadRead, MoveDeadCommit, DeadOrders, RowSame, ApiSame, PollSame,
      DeadInv, ClosedInv
<1> QED  BY <1>4, <1>5, <1>6, <1>7, <1>8, <1>9

(* The poll wakes an order. *)
LEMMA PaceAtPoll ==
    ASSUME OnTime, TypeOK, NEW p \in Orders, PaceAt(p), MovePollEnqueue(p)
    PROVE  PaceAt(p)'
<1>1. AtRest(p) /\ p \in pollSet
  BY DEF MovePollEnqueue, PaceAt, PollInv
<1>2. /\ \A t, u \in CompJobs : Attempting(p, t)' /\ Attempting(p, u)' => t = u
      /\ StepsOver(p)'
  <2>1. CASE UNCHANGED job[p]
    BY <1>1, <2>1
    DEF MovePollEnqueue, ApiSame, AtRest, StepsOver, Attempting
  <2>2. ASSUME NEW t \in Stamped, Sends(p, t, "queued", {})
        PROVE  /\ StepsOver(p)'
               /\ \A c \in CompJobs : c # t => ~Attempting(p, c)'
    BY <1>1, <2>2, StampedAssumption, Sets
    DEF MovePollEnqueue, ApiSame, AtRest, StepsOver, Attempting, Sends
  <2> QED  BY <2>1, <2>2 DEF MovePollEnqueue
<1>3. /\ RowSame(p) /\ ApiSame(p) /\ DeadSame(p)
      /\ p \notin pollSet' /\ p \in touched'
  BY DEF MovePollEnqueue, OnTime, NoSched
<1>4. /\ age[p] # "dead"
      /\ global[p] \notin {"CANCELLED", "MANUAL_INTERVENTION_REQUIRED"}
  BY <1>1 DEF PaceAt, DeadInv, ClosedInv
<1> QED
  BY <1>2, <1>3, <1>4
  DEF PaceAt, AttemptInv, PollInv, DeadInv, ClosedInv, RowSame, ApiSame, DeadSame

(* An order under way is nothing the scheduler sees, and its attempts       *)
(* follow one another.                                                      *)
LEMMA AttemptStep ==
    ASSUME OnTime, TypeOK, NEW p \in Orders, OnceAt(p), HoldAt(p), AttemptInv(p),
           Move(p), ~MovePollEnqueue(p)
    PROVE  AttemptInv(p)'
<1>1. StepsOver(p) => StepsOver(p)'
  BY OverStays DEF OnTime
<1>2. CASE \A c \in CompJobs : Attempting(p, c)' => Attempting(p, c)
  <2>1. \A t \in Stamped : t \in CompJobs
    BY DEF CompJobs
  <2> QED  BY <1>1, <1>2, <2>1 DEF AttemptInv
<1>3. CASE MoveServed(p)
  <2>1. \A c \in CompJobs : Attempting(p, c)' => Attempting(p, c)
    BY <1>3, Sets DEF MoveServed, Attempting, CompensationPc, EntryPc
  <2> QED  BY <1>2, <2>1
<1>4. ASSUME NEW s \in Steps, StepMove(p, s)  PROVE AttemptInv(p)'
  <2>1. \A t \in Stamped : ~Attempting(p, t)'
    BY <1>4, StepMoveJobs DEF AttemptInv, Attempting
  <2> QED  BY <2>1 DEF AttemptInv, CompJobs
<1>5. ASSUME NEW c \in CompJobs, CompMove(p, c)  PROVE AttemptInv(p)'
  <2>1. CASE MoveRetry(p, c)
    <3>1. StepsOver(p)'
      BY <1>1, <2>1, DecidedIsOver DEF MoveRetry, HoldAt
    <3>2. \A d \in CompJobs : d # c => ~Attempting(p, d)
      BY <2>1 DEF MoveRetry, AttemptInv, Attempting, CompensationPc
    <3>3. PICK t \in CompJobs : \A d \in CompJobs : d # t => ~Attempting(p, d)'
      <4>1. CASE Sends(p, c, "deferred", {})
        BY <3>2, <4>1, Sets DEF Sends, Attempting
      <4>2. ASSUME NEW t \in Stamped, job'[p][c] = "finish",
                   \A i \in JobIds \ {c, t} : job'[p][i] = job[p][i]
            PROVE  t \in CompJobs /\ \A d \in CompJobs : d # t => ~Attempting(p, d)'
        BY <3>2, <4>2, Sets DEF Attempting, CompJobs, CompensationPc
      <4> QED  BY <2>1, <4>1, <4>2 DEF MoveRetry
    <3> QED  BY <3>1, <3>3 DEF AttemptInv
  <2>2. CASE \/ MoveStart(p, c) \/ MoveEnd(p, c) \/ MoveUndo(p, c)
             \/ MoveAlert(p, c) \/ MoveSettle(p, c)
    <3>1. \A d \in CompJobs : Attempting(p, d)' => Attempting(p, d)
      BY <2>2, Sets
      DEF MoveStart, MoveEnd, MoveUndo, MoveAlert, MoveSettle, Sends, Attempting,
          CompensationPc
    <3> QED  BY <1>2, <3>1
  <2> QED  BY <1>5, <2>1, <2>2 DEF CompMove
<1>6. CASE MoveNone(p) \/ MoveElapse(p) \/ ApiMove(p) \/ SchedMove(p)
  <2>1. \A c \in CompJobs : job'[p][c] = job[p][c]
    BY <1>6, Sets
    DEF MoveNone, MoveElapse, ApiMove, MoveCreate, MoveBill, MoveDrop,
        MoveApprove, MoveForce, SchedMove, MovePollRead, MovePollCommit,
        MoveDeadRead, MoveDeadCommit, MoveLost, JobsSame
  <2> QED  BY <1>2, <2>1 DEF Attempting
<1>7. ~MoveCrash(p)
  BY DEF MoveCrash, OnTime, NoCrash
<1> QED  BY <1>3, <1>4, <1>5, <1>6, <1>7 DEF Move

LEMMA IdleRests ==
    ASSUME NEW p \in Orders, OnceAt(p), Exists(p), Idle(p), TypeOK
    PROVE  AtRest(p)
<1>1. request[p] = "ended"
  BY DEF OnceAt, StartInv, Idle, TypeOK, ApiTypeOK
<1>2. \A j \in JobIds : job[p][j] \in {"absent", "kept"}
  BY DEF Idle, Live
<1> QED
  BY <1>1, <1>2, Sets DEF AtRest, StepsOver, Attempting, ForwardPc, CompensationPc

LEMMA PaceUnderWay ==
    ASSUME OnTime, TypeOK, NEW p \in Orders, OnceAt(p), HoldAt(p), PaceAt(p),
           ~AtRest(p), Move(p)
    PROVE  PaceAt(p)'
<1>1. /\ age[p] = "fresh" \/ p \in touched
      /\ age[p] # "dead" /\ p \notin pollSet /\ p \notin deadSet
      /\ global[p] \notin {"CANCELLED", "MANUAL_INTERVENTION_REQUIRED"}
      /\ admin[p] # "approved"
  BY DEF PaceAt, PollInv, DeadInv, ClosedInv
<1>2. ~MovePollEnqueue(p)
  BY <1>1 DEF MovePollEnqueue
<1>3. AttemptInv(p)'
  BY <1>2, AttemptStep DEF PaceAt
<1> DEFINE Unseen ==
              /\ \/ age'[p] = "fresh"
                 \/ age'[p] = age[p] /\ (p \in touched' <=> p \in touched)
              /\ p \notin pollSet' /\ p \notin deadSet'
              /\ admin'[p] # "approved"
              /\ global'[p] \in {"CANCELLED", "MANUAL_INTERVENTION_REQUIRED"}
                    => AtRest(p)'
<1>4. SUFFICES Unseen
  BY <1>1, <1>3 DEF PaceAt, PollInv, DeadInv, ClosedInv
<1> USE <1>1
<1>5. CASE MoveNone(p) \/ MoveServed(p)
  BY <1>5
  DEF MoveNone, MoveServed, RowSame, ApiSame, SchedSame, PollSame, DeadSame
<1>6. ~MoveElapse(p)
  BY IdleRests DEF MoveElapse, OnTime, NoSlow, Exists
<1>7. ASSUME NEW s \in Steps, StepMove(p, s)
      PROVE  Unseen
  <2>1. StepGlobal(p, s) \in {global[p], "COMPENSATING", "COMPLETED"}
    BY DEF StepGlobal, BillingGlobal, ParallelGlobal
  <2> QED
    BY <1>7, <2>1
    DEF StepMove, MoveCall, MoveWrite, MoveCommit, MoveAbort, RowSame, ApiSame,
        SchedSame, PollSame, DeadSame, Committed
<1>8. ASSUME NEW c \in CompJobs, CompMove(p, c)
      PROVE  Unseen
  <2>1. CASE MoveSettle(p, c)
    <3>1. /\ job[p][c] \in {"undo", "alert"}
          /\ \A i \in JobIds : i # c => job'[p][i] = job[p][i]
          /\ job'[p][c] = "finish" \/ global'[p] = global[p]
      BY <2>1 DEF MoveSettle, Sends
    <3>2. StepsOver(p)'
      BY <3>1, DecidedIsOver, OverStays DEF HoldAt, OnTime
    <3>3. \A d \in CompJobs : d # c => ~Attempting(p, d)
      BY <3>1 DEF PaceAt, AttemptInv, Attempting, CompensationPc
    <3>4. AtRest(p)' \/ global'[p] = global[p]
      BY <3>1, <3>2, <3>3, Sets DEF AtRest, Attempting, CompensationPc
    <3> QED
      BY <2>1, <3>4
      DEF MoveSettle, ApiSame, SchedSame, PollSame, DeadSame, Committed
  <2> QED
    BY <1>8, <2>1
    DEF CompMove, MoveStart, MoveEnd, MoveUndo, MoveAlert, MoveRetry, RowSame,
        ApiSame, SchedSame, PollSame, DeadSame
<1>9. CASE ApiMove(p)
  BY <1>9
  DEF ApiMove, MoveCreate, MoveBill, MoveDrop, MoveApprove, MoveForce, RowSame,
      SchedSame, PollSame, DeadSame
<1>10. CASE SchedMove(p)
  <2>1. ~MovePollRead(p)
    BY DEF MovePollRead, StuckOrders
  <2>2. ~MoveDeadRead(p) /\ ~MoveDeadCommit(p) /\ ~MoveLost(p)
    BY DEF MoveDeadRead, MoveDeadCommit, DeadOrders, MoveLost, OnTime, NoSched
  <2> QED
    BY <1>2, <1>10, <2>1, <2>2
    DEF SchedMove, MovePollCommit, ApiSame, DeadSame
<1>11. ~MoveCrash(p)
  BY DEF MoveCrash, OnTime, NoCrash
<1> QED  BY <1>5, <1>6, <1>7, <1>8, <1>9, <1>10, <1>11 DEF Move

LEMMA PaceStep ==
    ASSUME OnTime, TypeOK, NEW p \in Orders, OnceAt(p), HoldAt(p), PaceAt(p),
           Move(p)
    PROVE  PaceAt(p)'
  BY PaceAtRest, PaceAtPoll, PaceUnderWay

(* On time, one attempt at rolling an order back follows the other; what    *)
(* the scheduler looks at rests until it acts; what is closed stays so.     *)
THEOREM PaceInvariant ==
    ASSUME OnTime
    PROVE  Spec => []PaceInv
<1>1. Init => PollingInv
  BY DEF Init, SchedulerInit, PollingInv
<1>2. ASSUME Init  PROVE PaceInv
  <2> SUFFICES ASSUME NEW p \in Orders  PROVE PaceAt(p)
    BY DEF PaceInv
  <2>1. \A c \in CompJobs : ~Attempting(p, c)
    BY <1>2, StartIs, Sets DEF Attempting, CompensationPc
  <2>2. \A t \in Stamped : t \in CompJobs
    BY DEF CompJobs
  <2> QED
    BY <1>2, <2>1, <2>2, StartIs
    DEF PaceAt, AttemptInv, PollInv, DeadInv, ClosedInv
<1>3. TypeOK /\ PollingInv /\ OnceInv /\ HoldInv /\ PaceInv /\ [Next]_vars => PaceInv'
  BY PaceStep, Moves, Stutter DEF PaceInv, OnceInv, HoldInv
<1>4. NoCrash
  BY DEF OnTime
<1> QED
  BY <1>1, <1>2, <1>3, <1>4, TypeCorrect, OnceInvariant, HoldInvariant,
     PollingStep, PTL DEF Spec

(* On time, the undo requests of an order are never in the hands of two     *)
(* jobs: no service is asked to undo the same thing twice at once.          *)
THEOREM NoRivals ==
    ASSUME OnTime
    PROVE  Spec => []NoRivalRollbacks
<1>1. PaceInv => NoRivalRollbacks
  <2> SUFFICES ASSUME PaceInv, NEW o \in Orders
               PROVE  Cardinality({c \in CompJobs :
                                     job[o][c] \in {"undo", "alert"}}) <= 1
    BY DEF NoRivalRollbacks
  <2> DEFINE R == {c \in CompJobs : job[o][c] \in {"undo", "alert"}}
  <2>1. \A c, d \in R : c = d
    BY DEF PaceInv, PaceAt, AttemptInv, Attempting, CompensationPc
  <2>2. R = {} \/ \E c \in R : R = {c}
    BY <2>1
  <2>3. CASE R = {}
    BY <2>3, FS_EmptySet
  <2>4. ASSUME NEW c \in R, R = {c}  PROVE Cardinality(R) <= 1
    <3>1. Cardinality({c}) = 1
      BY FS_Singleton
    <3> QED  BY <2>4, <3>1
  <2> QED  BY <2>2, <2>3, <2>4
<1> QED  BY <1>1, PaceInvariant, PTL

LEMMA ClosedStep ==
    ASSUME OnTime, TypeOK, NEW p \in Orders, OnceAt(p), PaceAt(p), Move(p),
           global[p] \in {"CANCELLED", "MANUAL_INTERVENTION_REQUIRED"}
    PROVE  global'[p] \in {global[p], "CANCELLED"}
<1>1. AtRest(p) /\ p \notin pollSet /\ p \notin deadSet
  BY DEF PaceAt, ClosedInv, DeadInv
<1>2. ~MovePollEnqueue(p) /\ NoCrash
  BY <1>1 DEF MovePollEnqueue, OnTime
<1> QED
  BY <1>1, <1>2, RestStays
  DEF RowSame, MoveElapse, MoveApprove, MoveForce, MovePollRead, MovePollCommit,
      MoveDeadRead, MoveDeadCommit, MoveLost

(* On time, no unlocked read of the scheduler's or the administrator's      *)
(* overwrites what was decided in between: a closed order stays closed.     *)
THEOREM ClosedStays ==
    ASSUME OnTime
    PROVE  Spec => ClosedStaysClosed
<1>1. TypeOK /\ PollingInv /\ OnceInv /\ PaceInv /\ [Next]_vars =>
         [\A o \in Orders :
             /\ global[o] = "CANCELLED" => global'[o] = "CANCELLED"
             /\ global[o] = "MANUAL_INTERVENTION_REQUIRED" =>
                   global'[o] \in {"MANUAL_INTERVENTION_REQUIRED", "CANCELLED"}]_vars
  <2> SUFFICES ASSUME TypeOK, PollingInv, OnceInv, PaceInv, Next, NEW o \in Orders
               PROVE  global[o] \in {"CANCELLED", "MANUAL_INTERVENTION_REQUIRED"}
                         => global'[o] \in {global[o], "CANCELLED"}
    OBVIOUS
  <2> QED
    BY Moves, ClosedStep DEF OnceInv, PaceInv
<1>2. Init => PollingInv
  BY DEF Init, SchedulerInit, PollingInv
<1>3. NoCrash
  BY DEF OnTime
<1> QED
  BY <1>1, <1>2, <1>3, TypeCorrect, OnceInvariant, PaceInvariant, PollingStep, PTL
  DEF Spec, ClosedStaysClosed
-----------------------------------------------------------------------------
(* COMPLETED. *)

(* A step that is no longer ahead, and has no job that holds an answer,     *)
(* stays that way.                                                          *)
LEMMA PassedStays ==
    ASSUME NoCrash, TypeOK, NEW p \in Orders, OnceAt(p), Move(p),
           NEW s \in Steps, ~Ahead(p, s)
    PROVE  /\ ~Ahead(p, s)'
           /\ job[p][s] \notin {"write", "commit"} =>
                 job'[p][s] \notin {"write", "commit"}
<1>1. /\ request[p] = "ended"
      /\ job[p]["billing"] \notin {"queued", "call"}
      /\ job[p][s] \notin {"queued", "call", "deferred"}
      /\ s # "billing" => job[p]["billing"] # "write"
  BY Sets DEF Ahead, OnceAt, StartInv
<1> DEFINE Passed ==
              /\ request'[p] = "ended"
              /\ job'[p]["billing"] \notin {"queued", "call"}
              /\ job'[p][s] \notin {"queued", "call"}
              /\ s # "billing" => job'[p]["billing"] # "write"
              /\ job[p][s] \notin {"write", "commit"} =>
                    job'[p][s] \notin {"write", "commit"}
<1>2. SUFFICES Passed
  BY Sets DEF Ahead
<1> USE <1>1, Sets
<1>3. CASE MoveServed(p)
  <2>1. job[p]["billing"] # "deferred"
    BY DEF OnceAt, StartInv
  <2> QED  BY <1>3, <2>1 DEF MoveServed, ApiSame
<1>4. ASSUME NEW t \in Steps, StepMove(p, t)
      PROVE  Passed
  <2>1. /\ job[p][t] \in {"call", "write", "commit"}
        /\ UNCHANGED request[p]
    BY <1>4
    DEF StepMove, MoveCall, MoveWrite, MoveCommit, MoveAbort, ForwardPc, ApiSame
  <2>2. PICK to, E :
           /\ Sends(p, t, to, E)
           /\ to \in {"write", "commit", "finish"}
           /\ to = "write" => job[p][t] = "call"
           /\ to = "commit" => job[p][t] = "write"
           /\ \A i \in E \cap Steps :
                 i \in Parallel /\ t = "billing" /\ job[p][t] = "write"
    BY <1>4
    DEF StepMove, MoveCall, MoveWrite, MoveCommit, MoveAbort, ForwardPc,
        MaySend, StepJobs, BillingJobs, ParallelJobs
  <2>3. \A i \in Steps : i # t =>
           \/ job'[p][i] = job[p][i]
           \/ i \in Parallel /\ t = "billing" /\ job[p][t] = "write"
    BY <2>2 DEF Sends
  <2>4. job'[p][t] = to
    BY <2>2 DEF Sends
  <2> QED  BY <2>1, <2>2, <2>3, <2>4
<1>5. CASE /\ ~MoveServed(p) /\ ~MoveCrash(p)
           /\ \A t \in Steps : ~StepMove(p, t)
  <2>1. UNCHANGED request[p] /\ \A t \in Steps : job'[p][t] = job[p][t]
    BY <1>5, StampedAssumption
    DEF Move, MoveNone, MoveElapse, CompMove, MoveStart, MoveEnd, MoveUndo,
        MoveAlert, MoveSettle, MoveRetry, ApiMove, MoveCreate, MoveBill,
        MoveDrop, MoveApprove, MoveForce, SchedMove, MovePollRead,
        MovePollEnqueue, MovePollCommit, MoveDeadRead, MoveDeadCommit, MoveLost,
        JobsSame, ApiSame, Sends
  <2> QED  BY <2>1
<1> QED  BY <1>3, <1>4, <1>5 DEF MoveCrash, NoCrash

(* A forward job about to commit keeps its answer until it commits or is    *)
(* broken off.                                                              *)
LEMMA CommitWaits ==
    ASSUME NoCrash, TypeOK, NEW p \in Orders, Move(p), NEW s \in Steps,
           job[p][s] = "commit", ~MoveCommit(p, s), ~MoveAbort(p, s)
    PROVE  job'[p][s] = "commit" /\ answer'[p][s] = answer[p][s]
<1>1. \A c \in CompJobs : c # s
  BY StampedAssumption, Sets DEF CompJobs
<1>2. Enqueued("commit") = "commit"
  BY DEF Enqueued
<1>3. ASSUME NEW t \in Steps, StepMove(p, t)
      PROVE  job'[p][s] = "commit" /\ answer'[p][s] = answer[p][s]
  <2>1. t # s
    BY <1>3 DEF StepMove, MoveCall, MoveWrite
  <2>2. \E to, E : Sends(p, t, to, E)
    BY <1>3 DEF StepMove, MoveCall, MoveWrite, MoveCommit, MoveAbort
  <2>3. answer'[p][s] = answer[p][s]
    BY <1>3, <2>1
    DEF StepMove, MoveCall, MoveWrite, MoveCommit, MoveAbort, LocalsSame, TypeOK,
        TasksTypeOK
  <2> QED  BY <1>2, <2>1, <2>2, <2>3, Sets DEF Sends
<1>4. ASSUME NEW c \in CompJobs, CompMove(p, c)
      PROVE  job'[p][s] = "commit" /\ answer'[p][s] = answer[p][s]
  <2>1. UNCHANGED answer[p]
    BY <1>4
    DEF CompMove, MoveStart, MoveEnd, MoveUndo, MoveAlert, MoveSettle, MoveRetry,
        LocalsSame
  <2>2. CASE \E to : Sends(p, c, to, {})
    BY <1>1, <2>1, <2>2, Sets DEF Sends
  <2>3. CASE UNCHANGED job[p]
    BY <2>1, <2>3
  <2>4. CASE \E t \in Stamped : \A i \in JobIds \ {c, t} : job'[p][i] = job[p][i]
    BY <1>1, <2>1, <2>4, Sets DEF CompJobs
  <2> QED
    BY <1>4, <2>2, <2>3, <2>4
    DEF CompMove, MoveStart, MoveEnd, MoveUndo, MoveAlert, MoveSettle, MoveRetry
<1>5. CASE MoveServed(p)
  BY <1>5, Sets DEF MoveServed, LocalsSame
<1>6. CASE ApiMove(p) \/ SchedMove(p) \/ MoveNone(p) \/ MoveElapse(p)
  <2>1. /\ UNCHANGED answer[p]
        /\ \/ UNCHANGED job[p]
           \/ \A i \in JobIds :
                 job'[p][i] = IF i = "billing" THEN Enqueued(job[p][i]) ELSE job[p][i]
           \/ \E t \in Stamped : Sends(p, t, "queued", {})
    BY <1>6
    DEF ApiMove, MoveCreate, MoveBill, MoveDrop, MoveApprove, MoveForce, SchedMove,
        MovePollRead, MovePollEnqueue, MovePollCommit, MoveDeadRead,
        MoveDeadCommit, MoveLost, MoveNone, MoveElapse, JobsSame, LocalsSame
  <2> QED  BY <1>1, <1>2, <2>1, Sets DEF Sends, CompJobs
<1>7. ~MoveCrash(p)
  BY DEF MoveCrash, NoCrash
<1> QED  BY <1>3, <1>4, <1>5, <1>6, <1>7 DEF Move

(* How a column changes. *)
LEMMA Columns ==
    ASSUME TypeOK, NEW p \in Orders, Move(p), NEW s \in Steps
    PROVE  \/ status'[p][s] = status[p][s]
           \/ \E c \in CompJobs :
                 MoveSettle(p, c) /\ status'[p][s] = "COMPENSATED"
           \/ MoveCommit(p, s)
           \/ /\ MoveCommit(p, "billing")
              /\ answer[p]["billing"] = "FAILED"
              /\ status'[p][s] = "CANCELLED"
<1>1. ASSUME NEW t \in Steps, MoveCommit(p, t), t # s
      PROVE  \/ status'[p][s] = status[p][s]
             \/ /\ t = "billing" /\ answer[p]["billing"] = "FAILED"
                /\ status'[p][s] = "CANCELLED"
  BY <1>1, Sets
  DEF MoveCommit, StepColumns, BillingColumns, ParallelColumns, TypeOK,
      TableTypeOK, TasksTypeOK, Answers
<1>2. ASSUME NEW c \in CompJobs, MoveSettle(p, c)
      PROVE  status'[p][s] \in {status[p][s], "COMPENSATED"}
  BY <1>2 DEF MoveSettle, Settled
<1>3. CASE /\ \A t \in Steps : ~MoveCommit(p, t)
           /\ \A c \in CompJobs : ~MoveSettle(p, c)
  BY <1>3
  DEF Move, MoveNone, MoveServed, MoveCrash, MoveElapse, StepMove, MoveCall,
      MoveWrite, MoveAbort, CompMove, MoveStart, MoveEnd, MoveUndo, MoveAlert,
      MoveRetry, ApiMove, MoveCreate, MoveBill, MoveDrop, MoveApprove, MoveForce,
      SchedMove, MovePollRead, MovePollEnqueue, MovePollCommit, MoveDeadRead,
      MoveDeadCommit, MoveLost, RowSame
<1> QED  BY <1>1, <1>2, <1>3

(* A doomed order stays doomed. *)
LEMMA DoomedStays ==
    ASSUME NoCrash, NoInfra, TypeOK, NEW p \in Orders, OnceAt(p), Move(p),
           Doomed(p)
    PROVE  Doomed(p)'
<1>1. PICK s \in Steps :
         \/ status[p][s] \in {"FAILED", "CANCELLED", "COMPENSATED"}
         \/ /\ status[p][s] = "PENDING"
            /\ \/ job[p][s] = "commit" /\ answer[p][s] = "FAILED"
               \/ ~Ahead(p, s) /\ job[p][s] \notin {"write", "commit"}
  BY DEF Doomed
<1>2. \A t \in Steps : MoveCommit(p, t) => status[p][t] = "PENDING"
  BY DEF MoveCommit, OnceAt, WriteInv
<1>3. CASE status'[p][s] \in {"FAILED", "CANCELLED", "COMPENSATED"}
  BY <1>3 DEF Doomed
<1>4. CASE status[p][s] \in {"FAILED", "CANCELLED", "COMPENSATED"}
  <2>1. ~MoveCommit(p, s)
    BY <1>2, <1>4
  <2> QED  BY <1>3, <1>4, <2>1, Columns
<1>5. CASE /\ status[p][s] = "PENDING" /\ job[p][s] = "commit"
           /\ answer[p][s] = "FAILED"
  <2>1. CASE MoveCommit(p, s)
    <3>1. status'[p][s] = "FAILED"
      BY <1>5, <2>1
      DEF MoveCommit, StepColumns, BillingColumns, ParallelColumns, TypeOK,
          TableTypeOK
    <3> QED  BY <1>3, <3>1
  <2>2. CASE MoveAbort(p, s)
    <3>1. ~Ahead(p, s)
      BY <1>5, Sets DEF Ahead, OnceAt, StartInv
    <3>2. status'[p][s] = "PENDING" /\ job'[p][s] = "finish"
      BY <1>5, <2>2 DEF MoveAbort, RowSame, Sends
    <3> QED  BY <3>1, <3>2, PassedStays DEF Doomed
  <2>3. CASE ~MoveCommit(p, s) /\ ~MoveAbort(p, s)
    <3>1. job'[p][s] = "commit" /\ answer'[p][s] = "FAILED"
      BY <1>5, <2>3, CommitWaits
    <3>2. status'[p][s] \in {"PENDING", "CANCELLED", "COMPENSATED"}
      BY <1>5, <2>3, Columns
    <3> QED  BY <3>1, <3>2 DEF Doomed
  <2> QED  BY <2>1, <2>2, <2>3
<1>6. CASE /\ status[p][s] = "PENDING"
           /\ ~Ahead(p, s) /\ job[p][s] \notin {"write", "commit"}
  <2>1. ~Ahead(p, s)' /\ job'[p][s] \notin {"write", "commit"}
    BY <1>6, PassedStays
  <2>2. ~MoveCommit(p, s)
    BY <1>6 DEF MoveCommit
  <2>3. status'[p][s] \in {"PENDING", "CANCELLED", "COMPENSATED"}
    BY <1>6, <2>2, Columns
  <2> QED  BY <2>1, <2>3 DEF Doomed
<1> QED  BY <1>1, <1>4, <1>5, <1>6

(* Where the column of a step that commits, and the order's status, end up. *)
LEMMA CommitColumns ==
    ASSUME TypeOK, NEW p \in Orders, OnceAt(p), NEW s \in Steps, MoveCommit(p, s)
    PROVE  /\ status[p][s] = "PENDING" /\ status'[p][s] = answer[p][s]
           /\ global'[p] # global[p] =>
                 \/ global'[p] = "COMPENSATING" /\ answer[p][s] = "FAILED"
                 \/ /\ global'[p] = "COMPLETED"
                    /\ \A t \in Steps : status'[p][t] \in {"SUCCESS", "SKIPPED"}
           /\ global[p] # "COMPLETED"
<1>1. status[p][s] = "PENDING"
  BY DEF MoveCommit, OnceAt, WriteInv
<1>2. answer[p][s] \in {"SUCCESS", "SKIPPED", "FAILED"}
  BY DEF TypeOK, TasksTypeOK, Answers
<1>3. status'[p][s] = answer[p][s]
  BY <1>2
  DEF MoveCommit, StepColumns, BillingColumns, ParallelColumns, TypeOK, TableTypeOK
<1>4. global[p] # "COMPLETED"
  BY <1>1 DEF OnceAt, CompletedInv, Pending
<1>5. CASE s = "billing"
  BY <1>1, <1>2, <1>3, <1>4, <1>5 DEF MoveCommit, StepGlobal, BillingGlobal
<1>6. ASSUME s # "billing", global'[p] # global[p]
      PROVE  \/ global'[p] = "COMPENSATING" /\ answer[p][s] = "FAILED"
             \/ /\ global'[p] = "COMPLETED"
                /\ answer[p][s] # "FAILED" /\ OthersDone(p, s)
  BY <1>6 DEF MoveCommit, StepGlobal, ParallelGlobal
<1>7. ASSUME s # "billing", answer[p][s] # "FAILED", OthersDone(p, s)
      PROVE  \A t \in Steps : status'[p][t] \in {"SUCCESS", "SKIPPED"}
  BY <1>2, <1>7, Sets
  DEF MoveCommit, StepColumns, ParallelColumns, OthersDone, TypeOK, TableTypeOK
<1> QED  BY <1>1, <1>3, <1>4, <1>5, <1>6, <1>7

(* Something begins to roll an order back, to close it or to look at it:    *)
(* what FinalInv says of doomed orders only.                                *)
Rolling(p) ==
    \/ \E c \in CompJobs : Attempting(p, c)
    \/ global[p] \in
          {"COMPENSATING", "CANCELLED", "MANUAL_INTERVENTION_REQUIRED"}
    \/ admin[p] # "idle"
    \/ p \in deadSet \cup pollSet
    \/ age[p] # "fresh"

LEMMA StepRolls ==
    ASSUME NoCrash, NoInfra, TypeOK, NEW p \in Orders, OnceAt(p),
           NEW s \in Steps, StepMove(p, s), ~Rolling(p), Rolling(p)'
    PROVE  Doomed(p)'
<1>0. s \in JobIds
  BY Sets
<1>1. CASE MoveWrite(p, s) /\ answer[p][s] = "FAILED"
  <2>1. job'[p][s] = "commit" /\ answer'[p][s] = "FAILED"
    BY <1>1 DEF MoveWrite, Sends, LocalsSame
  <2>2. status'[p][s] = "PENDING"
    BY <1>1 DEF MoveWrite, RowSame, OnceAt, WriteInv
  <2> QED  BY <2>1, <2>2 DEF Doomed
<1>2. CASE MoveAbort(p, s) /\ job[p][s] = "write"
  <2>1. ~Ahead(p, s)
    BY <1>2, Sets DEF Ahead, OnceAt, StartInv
  <2>2. ~Ahead(p, s)'
    BY <2>1, PassedStays DEF Move
  <2>3. status'[p][s] = "PENDING" /\ job'[p][s] = "finish"
    BY <1>2 DEF MoveAbort, RowSame, Sends, OnceAt, WriteInv
  <2> QED  BY <2>2, <2>3 DEF Doomed
<1>3. CASE /\ ~(MoveWrite(p, s) /\ answer[p][s] = "FAILED")
           /\ ~(MoveAbort(p, s) /\ job[p][s] = "write")
  <2>1. MoveWrite(p, s) => StepJobs(p, s) \subseteq Parallel
    <3>1. answer[p][s] # "FAILED" => answer[p][s] \in {"SUCCESS", "SKIPPED"}
      BY DEF TypeOK, TasksTypeOK, Answers
    <3> QED
      BY <1>3, <3>1 DEF StepJobs, BillingJobs, ParallelJobs
  <2>2. \E to, E : E \subseteq Parallel /\ Sends(p, s, to, E)
    BY <1>3, <2>1
    DEF StepMove, MoveCall, MoveWrite, MoveCommit, MoveAbort, MaySend, NoInfra
  <2>3. \A c \in CompJobs : c \in JobIds /\ c # s /\ c \notin Parallel
    BY Sets
  <2>4. \A c \in CompJobs : job'[p][c] = job[p][c]
    BY <2>2, <2>3 DEF Sends
  <2>5. \A c \in CompJobs : ~Attempting(p, c)'
    BY <2>4 DEF Rolling, Attempting
  <2>6. /\ ApiSame(p) /\ SchedSame(p) /\ age'[p] = "fresh"
        /\ MoveCommit(p, s) \/ global'[p] = global[p]
    BY DEF Rolling, StepMove, MoveCall, MoveWrite, MoveCommit, MoveAbort, RowSame,
           Committed
  <2>7. global'[p] # global[p] /\ MoveCommit(p, s) /\ global'[p] = "COMPENSATING"
    BY <2>5, <2>6, CommitColumns
    DEF Rolling, ApiSame, SchedSame, PollSame, DeadSame
  <2>8. status'[p][s] = "FAILED"
    BY <2>7, CommitColumns
  <2> QED  BY <2>8 DEF Doomed
<1> QED  BY <1>1, <1>2, <1>3

(* Nothing else begins it, but a row that grows old with a step left out.   *)
LEMMA OthersRoll ==
    ASSUME NoCrash, NoSlow, TypeOK, NEW p \in Orders, OnceAt(p), Move(p),
           \A s \in Steps : ~StepMove(p, s), ~Rolling(p), Rolling(p)'
    PROVE  Doomed(p)'
<1>1. /\ \A c \in CompJobs : ~Attempting(p, c)
      /\ global[p] \notin
            {"COMPENSATING", "CANCELLED", "MANUAL_INTERVENTION_REQUIRED"}
      /\ admin[p] = "idle" /\ p \notin deadSet /\ p \notin pollSet
      /\ age[p] = "fresh"
  BY DEF Rolling
<1>2. CASE MoveElapse(p)
  <2>1. global[p] = "PROCESSING" /\ Idle(p)
    BY <1>1, <1>2 DEF MoveElapse, NoSlow
  <2>2. PICK s \in Steps : status[p][s] = "PENDING"
    BY <2>1 DEF OnceAt, ProcessingInv, Pending
  <2>3. StepsOver(p)
    BY <2>1, IdleRests DEF Exists, AtRest
  <2>4. ~Ahead(p, s) /\ job[p][s] \notin {"write", "commit"}
    BY <2>3, Sets DEF Ahead, StepsOver, ForwardPc
  <2> QED  BY <1>2, <2>2, <2>4, DoomedStays, PassedStays
    DEF Doomed, MoveElapse, JobsSame
<1>3. ASSUME NEW c \in CompJobs, CompMove(p, c)  PROVE FALSE
  BY <1>1, <1>3
  DEF CompMove, MoveStart, MoveEnd, MoveUndo, MoveAlert, MoveSettle, MoveRetry,
      Attempting, CompensationPc
<1>4. CASE MoveNone(p) \/ MoveServed(p) \/ ApiMove(p) \/ SchedMove(p)
  <2>1. /\ ~MoveApprove(p) /\ ~MoveForce(p) /\ ~MovePollRead(p)
        /\ ~MovePollEnqueue(p) /\ ~MoveDeadRead(p) /\ ~MoveDeadCommit(p)
    BY <1>1
    DEF MoveApprove, MoveForce, MovePollRead, MovePollEnqueue, MoveDeadRead,
        MoveDeadCommit, StuckOrders, DeadOrders
  <2>2. \A c \in CompJobs : ~Attempting(p, c)'
    <3>1. \A c \in CompJobs : c # "billing"
      BY Sets
    <3> QED
      BY <1>1, <1>4, <2>1, <3>1, Sets
      DEF MoveNone, MoveServed, ApiMove, MoveCreate, MoveBill, MoveDrop,
          SchedMove, MovePollCommit, MoveLost, JobsSame, Attempting, CompensationPc
  <2>3. /\ admin'[p] = "idle" /\ p \notin deadSet' /\ p \notin pollSet'
        /\ age'[p] = "fresh"
        /\ global'[p] \in {global[p], "PROCESSING"}
    BY <1>1, <1>4, <2>1
    DEF MoveNone, MoveServed, ApiMove, MoveCreate, MoveBill, MoveDrop, SchedMove,
        MovePollCommit, MoveLost, RowSame, ApiSame, SchedSame, PollSame, DeadSame
  <2> QED  BY <1>1, <2>2, <2>3 DEF Rolling
<1>5. ~MoveCrash(p)
  BY DEF MoveCrash, NoCrash
<1> QED  BY <1>2, <1>3, <1>4, <1>5 DEF Move

LEMMA FinalStep ==
    ASSUME NoCrash, NoSlow, NoInfra, TypeOK, NEW p \in Orders, OnceAt(p),
           FinalAt(p), Move(p)
    PROVE  FinalAt(p)'
<1>1. Rolling(p)' => Doomed(p)'
  BY DoomedStays, StepRolls, OthersRoll DEF FinalAt, Rolling
<1>2. ASSUME global'[p] = "COMPLETED", NEW t \in Steps
      PROVE  status'[p][t] \in {"SUCCESS", "SKIPPED"}
  <2>1. CASE \E s \in Steps : MoveCommit(p, s)
    BY <1>2, <2>1, CommitColumns
  <2>2. ~\E c \in CompJobs : MoveSettle(p, c)
    BY <1>2 DEF MoveSettle, OnceAt, CompletedInv
  <2>3. CASE \A s \in Steps : ~MoveCommit(p, s)
    <3>1. UNCHANGED <<global[p], status[p]>>
      BY <1>2, <2>2, <2>3
      DEF Move, MoveNone, MoveServed, MoveCrash, MoveElapse, StepMove, MoveCall,
          MoveWrite, MoveAbort, CompMove, MoveStart, MoveEnd, MoveUndo,
          MoveAlert, MoveRetry, ApiMove, MoveCreate, MoveBill, MoveDrop,
          MoveApprove, MoveForce, SchedMove, MovePollRead, MovePollEnqueue,
          MovePollCommit, MoveDeadRead, MoveDeadCommit, MoveLost, RowSame
    <3> QED  BY <1>2, <3>1 DEF FinalAt
  <2> QED  BY <2>1, <2>3
<1> QED  BY <1>1, <1>2 DEF FinalAt, Rolling

(* As long as no job is slow, broken off by the database, or delivered      *)
(* twice, only an order that can no longer be completed is rolled back,     *)
(* closed or looked at by the scheduler; jobs cancelled at job_timeout,     *)
(* lost enqueues, a failing scheduler and lost answers included.            *)
THEOREM FinalInvariant ==
    ASSUME NoCrash, NoSlow, NoInfra
    PROVE  Spec => []FinalInv
<1>1. Init => PollingInv
  BY DEF Init, SchedulerInit, PollingInv
<1>2. ASSUME Init  PROVE FinalInv
  <2> SUFFICES ASSUME NEW p \in Orders  PROVE FinalAt(p)
    BY DEF FinalInv
  <2>1. \A c \in CompJobs : ~Attempting(p, c)
    BY <1>2, StartIs, Sets DEF Attempting, CompensationPc
  <2> QED  BY <1>2, <2>1, StartIs DEF FinalAt
<1>3. TypeOK /\ PollingInv /\ OnceInv /\ FinalInv /\ [Next]_vars => FinalInv'
  BY FinalStep, Moves, Stutter DEF FinalInv, OnceInv
<1> QED
  BY <1>1, <1>2, <1>3, TypeCorrect, OnceInvariant, PollingStep, PTL DEF Spec

LEMMA CompletedStep ==
    ASSUME NoCrash, TypeOK, NEW p \in Orders, OnceAt(p), FinalAt(p), Move(p),
           global[p] = "COMPLETED"
    PROVE  global'[p] = "COMPLETED"
<1>1. ~Doomed(p)
  BY DEF Doomed, FinalAt
<1>2. /\ \A c \in CompJobs : ~Attempting(p, c)
      /\ admin[p] = "idle" /\ p \notin deadSet
  BY <1>1 DEF FinalAt
<1>3. \A s \in Steps : ~MoveCommit(p, s)
  BY CommitColumns
<1>4. ~MoveCreate(p) /\ ~MoveForce(p) /\ ~MoveDeadCommit(p)
  BY <1>2 DEF MoveCreate, MoveForce, MoveDeadCommit, OnceAt, StartInv, Exists
<1>5. \A c \in CompJobs : ~MoveStart(p, c) /\ ~MoveSettle(p, c)
  BY <1>2 DEF MoveStart, MoveSettle, Attempting, CompensationPc
<1> QED
  BY <1>3, <1>4, <1>5
  DEF Move, MoveNone, MoveServed, MoveCrash, MoveElapse, StepMove, MoveCall,
      MoveWrite, MoveAbort, CompMove, MoveEnd, MoveUndo, MoveAlert, MoveRetry,
      ApiMove, MoveBill, MoveDrop, MoveApprove, SchedMove, MovePollRead,
      MovePollEnqueue, MovePollCommit, MoveDeadRead, MoveLost, RowSame

(* COMPLETED is never taken back under the same circumstances: no job that  *)
(* would undo the order is left, nor will anybody send one.                 *)
THEOREM CompletedStays ==
    ASSUME NoCrash, NoSlow, NoInfra
    PROVE  Spec => CompletedIsFinal
<1>1. TypeOK /\ PollingInv /\ OnceInv /\ FinalInv /\ [Next]_vars =>
         [\A o \in Orders :
             global[o] = "COMPLETED" => global'[o] = "COMPLETED"]_vars
  BY Moves, CompletedStep DEF OnceInv, FinalInv
<1>2. Init => PollingInv
  BY DEF Init, SchedulerInit, PollingInv
<1> QED
  BY <1>1, <1>2, TypeCorrect, OnceInvariant, FinalInvariant, PollingStep, PTL
  DEF Spec, CompletedIsFinal
-----------------------------------------------------------------------------
(* Rollbacks of prepaid orders. *)

Prepaid == "postpayment" \notin PaymentWays

(* No job is broken off. *)
Unbroken == NoCrash /\ NoInfra /\ NoTimeout

(* What a move does to an order's jobs. *)
LEMMA JobMoves ==
    ASSUME Unbroken, TypeOK, NEW p \in Orders, Move(p)
    PROVE  \/ UNCHANGED job[p]
           \/ MoveServed(p) \/ MoveBill(p)
           \/ \E s \in Steps :
                 /\ StepMove(p, s)
                 /\ \/ job[p][s] = "call" /\ Sends(p, s, "write", {})
                    \/ MoveWrite(p, s) /\ Sends(p, s, "commit", StepJobs(p, s))
                    \/ MoveCommit(p, s) /\ Sends(p, s, "finish", {})
           \/ \E c \in CompJobs :
                 /\ CompMove(p, c)
                 /\ \E to \in {"undo", "alert", "requeue", "deferred", "finish"} :
                       \/ Sends(p, c, to, {})
                       \/ \E t \in Stamped :
                             /\ job[p][t] = "absent" /\ job'[p][t] = "deferred"
                             /\ job'[p][c] = "finish"
                             /\ \A i \in JobIds \ {c, t} : job'[p][i] = job[p][i]
           \/ \E t \in Stamped : job[p][t] = "absent" /\ Sends(p, t, "queued", {})
<1>1. ASSUME NEW s \in Steps, StepMove(p, s)
      PROVE  \/ job[p][s] = "call" /\ Sends(p, s, "write", {})
             \/ MoveWrite(p, s) /\ Sends(p, s, "commit", StepJobs(p, s))
             \/ MoveCommit(p, s) /\ Sends(p, s, "finish", {})
  BY <1>1
  DEF StepMove, MoveCall, MoveWrite, MoveCommit, MoveAbort, Unbroken, NoInfra,
      NoTimeout
<1>2. ASSUME NEW c \in CompJobs, CompMove(p, c), ~UNCHANGED job[p]
      PROVE  \E to \in {"undo", "alert", "requeue", "deferred", "finish"} :
                \/ Sends(p, c, to, {})
                \/ \E t \in Stamped :
                      /\ job[p][t] = "absent" /\ job'[p][t] = "deferred"
                      /\ job'[p][c] = "finish"
                      /\ \A i \in JobIds \ {c, t} : job'[p][i] = job[p][i]
  BY <1>2
  DEF CompMove, MoveStart, MoveEnd, MoveUndo, MoveAlert, MoveSettle, MoveRetry
<1>3. CASE MoveNone(p) \/ MoveElapse(p) \/ ApiMove(p) \/ SchedMove(p)
  BY <1>3
  DEF MoveNone, MoveElapse, ApiMove, MoveCreate, MoveDrop, MoveApprove, MoveForce,
      SchedMove, MovePollRead, MovePollEnqueue, MovePollCommit, MoveDeadRead,
      MoveDeadCommit, MoveLost, JobsSame
<1>4. ~MoveCrash(p)
  BY DEF MoveCrash, Unbroken, NoCrash
<1> QED  BY <1>1, <1>2, <1>3, <1>4 DEF Move

(* A compensation that waits, or is still undoing, attends to its order.    *)
Attends(p) == \E c \in CompJobs : job[p][c] \in {"queued", "deferred", "read", "undo"}

(* While billing is PENDING nothing else of the row can change but by its   *)
(* commit.                                                                  *)
LEMMA BillingOpen ==
    ASSUME Unbroken, TypeOK, NEW p \in Orders, OnceAt(p), HoldAt(p),
           AttendedAt(p), Move(p), status'[p]["billing"] = "PENDING"
    PROVE  /\ global'[p] \in {"ABSENT", "PROCESSING"}
           /\ admin'[p] = "idle" /\ p \notin deadSet'
           /\ \A s \in Parallel :
                 /\ status'[p][s] = "PENDING"
                 /\ job'[p][s] = "absent" \/ job'[p]["billing"] = "commit"
<1>0. "billing" \in Steps /\ Parallel \subseteq Steps /\ NoCrash
  BY Sets DEF Unbroken
<1>1. ~MoveCommit(p, "billing")
  BY <1>0, CommitColumns DEF TypeOK, TasksTypeOK, Answers
<1>2. status[p]["billing"] = "PENDING"
  BY <1>0, <1>1, Columns
<1>3. /\ global[p] \in {"ABSENT", "PROCESSING"}
      /\ admin[p] = "idle" /\ p \notin deadSet
      /\ \A s \in Parallel :
            /\ status[p][s] = "PENDING"
            /\ job[p][s] = "absent" \/ job[p]["billing"] = "commit"
  BY <1>2 DEF AttendedAt
<1>4. \A s \in Steps : ~MoveCommit(p, s)
  <2> SUFFICES ASSUME NEW s \in Parallel, MoveCommit(p, s)  PROVE FALSE
    BY <1>1, Sets
  <2> QED  BY <1>3, Sets DEF MoveCommit, HoldAt
<1>5. \A c \in CompJobs : ~MoveSettle(p, c) /\ ~MoveStart(p, c)
  BY <1>0, <1>2 DEF MoveSettle, MoveStart, HoldAt, Pending
<1>6. UNCHANGED status[p]
  BY <1>4, <1>5
  DEF Move, MoveNone, MoveServed, MoveCrash, MoveElapse, StepMove, MoveCall,
      MoveWrite, MoveAbort, CompMove, MoveEnd, MoveUndo, MoveAlert, MoveRetry,
      ApiMove, MoveCreate, MoveBill, MoveDrop, MoveApprove, MoveForce, SchedMove,
      MovePollRead, MovePollEnqueue, MovePollCommit, MoveDeadRead, MoveDeadCommit,
      MoveLost, RowSame
<1>7. /\ global'[p] \in {"ABSENT", "PROCESSING"}
      /\ admin'[p] = "idle" /\ p \notin deadSet'
  BY <1>3, <1>4, <1>5
  DEF Move, MoveNone, MoveServed, MoveCrash, MoveElapse, StepMove, MoveCall,
      MoveWrite, MoveAbort, CompMove, MoveEnd, MoveUndo, MoveAlert, MoveRetry,
      ApiMove, MoveCreate, MoveBill, MoveDrop, MoveApprove, MoveForce, SchedMove,
      MovePollRead, MovePollEnqueue, MovePollCommit, MoveDeadRead, MoveDeadCommit,
      MoveLost, RowSame, ApiSame, SchedSame, DeadSame, DeadOrders
<1>8. ASSUME NEW s \in Parallel
      PROVE  job'[p][s] = "absent" \/ job'[p]["billing"] = "commit"
  <2>1. CASE job[p]["billing"] = "commit"
    <3>1. ~MoveAbort(p, "billing")
      BY DEF MoveAbort, Unbroken, NoInfra, NoTimeout
    <3> QED  BY <1>0, <1>1, <2>1, <3>1, CommitWaits
  <2>2. CASE job[p][s] = "absent" /\ ~MoveWrite(p, "billing")
    <3>1. /\ s \in JobIds /\ s # "billing" /\ s \notin CompJobs /\ s \notin Stamped
      BY Sets, StampedAssumption
    <3>2. CASE MoveServed(p) \/ MoveBill(p) \/ UNCHANGED job[p]
      BY <2>2, <3>1, <3>2 DEF MoveServed, MoveBill
    <3>3. ASSUME NEW r \in Steps, r # "billing", MoveWrite(p, r),
                 Sends(p, r, "commit", StepJobs(p, r))
          PROVE  job'[p][s] = "absent"
      <4>1. s # r /\ s \notin StepJobs(p, r)
        BY <2>2, <3>1, <3>3, Sets DEF MoveWrite, StepJobs, ParallelJobs
      <4> QED  BY <2>2, <3>1, <3>3, <4>1 DEF Sends
    <3>4. ASSUME NEW r \in JobIds, NEW to, Sends(p, r, to, {}),
                 r \in Steps => job[p][r] # "absent",
                 r \notin Steps => s # r
          PROVE  job'[p][s] = "absent"
      BY <2>2, <3>1, <3>4 DEF Sends
    <3>5. \A r \in Steps : MoveCommit(p, r) => job[p][r] = "commit"
      BY DEF MoveCommit
    <3>6. \A t \in Stamped : t \in JobIds /\ t \notin Steps /\ t # s
      BY <3>1, StampedAssumption DEF JobIds, CompJobs
    <3>7. CASE \E r \in Steps :
                 /\ StepMove(p, r)
                 /\ \/ job[p][r] = "call" /\ Sends(p, r, "write", {})
                    \/ MoveWrite(p, r) /\ Sends(p, r, "commit", StepJobs(p, r))
                    \/ MoveCommit(p, r) /\ Sends(p, r, "finish", {})
      BY <2>2, <3>3, <3>4, <3>5, <3>7, Sets
    <3>8. ASSUME NEW c \in CompJobs, NEW t \in Stamped,
                 \A i \in JobIds \ {c, t} : job'[p][i] = job[p][i]
          PROVE  job'[p][s] = "absent"
      BY <2>2, <3>1, <3>6, <3>8
    <3>9. \A c \in CompJobs : c \in JobIds /\ c \notin Steps /\ s # c
      BY <3>1, Sets
    <3> QED  BY JobMoves, <3>2, <3>4, <3>6, <3>7, <3>8, <3>9
  <2>3. CASE MoveWrite(p, "billing")
    BY <2>3 DEF MoveWrite, Sends
  <2> QED  BY <1>3, <2>1, <2>2, <2>3
<1> QED  BY <1>3, <1>6, <1>7, <1>8

(* A prepaid order starts its parallel steps charged.                       *)
LEMMA ParallelOpen ==
    ASSUME Prepaid, Unbroken, TypeOK, NEW p \in Orders, OnceAt(p), HoldAt(p),
           AttendedAt(p), Move(p), NEW s \in Parallel, status'[p][s] = "PENDING"
    PROVE  status'[p]["billing"] \in {"PENDING", "SUCCESS"}
<1>0. "billing" \in Steps /\ s \in Steps /\ s # "billing"
  BY Sets
<1>1. ~MoveCommit(p, s)
  BY <1>0, CommitColumns DEF TypeOK, TasksTypeOK, Answers
<1>2. status[p][s] = "PENDING"
  BY <1>0, <1>1, Columns
<1>3. status[p]["billing"] \in {"PENDING", "SUCCESS"}
  BY <1>2 DEF AttendedAt
<1>4. \A c \in CompJobs : ~MoveSettle(p, c)
  BY <1>0, <1>2 DEF MoveSettle, HoldAt, Pending
<1>5. CASE MoveCommit(p, "billing")
  <2>1. answer[p]["billing"] # "FAILED"
    BY <1>0, <1>5 DEF MoveCommit, StepColumns, BillingColumns
  <2>2. answer[p]["billing"] # "SKIPPED"
    <3>1. payment[p] # "postpayment"
      BY DEF Prepaid, TypeOK, TableTypeOK
    <3> QED  BY <1>0, <3>1 DEF OnceAt, SkipInv
  <2>3. status'[p]["billing"] = "SUCCESS"
    BY <1>0, <1>5, <2>1, <2>2, CommitColumns DEF TypeOK, TasksTypeOK, Answers
  <2> QED  BY <2>3
<1>6. CASE ~MoveCommit(p, "billing")
  BY <1>0, <1>3, <1>4, <1>6, Columns
<1> QED  BY <1>5, <1>6

(* Until billing locks its row, nobody sends the first compensation; when   *)
(* it has failed, that compensation waits for its commit.                   *)
LEMMA FirstAttempt ==
    ASSUME Unbroken, TypeOK, NEW p \in Orders, OnceAt(p), HoldAt(p),
           AttendedAt(p), Move(p)
    PROVE  /\ \/ request'[p] # "ended"
              \/ job'[p]["billing"] \in {"queued", "call", "write"}
              => job'[p]["compensation"] = "absent"
           /\ job'[p]["billing"] = "commit" /\ answer'[p]["billing"] = "FAILED" =>
                 job'[p]["compensation"] \in {"queued", "read"}
<1> DEFINE Early == \/ request[p] # "ended"
                    \/ job[p]["billing"] \in {"queued", "call", "write"}
           Early2 == \/ request'[p] # "ended"
                     \/ job'[p]["billing"] \in {"queued", "call", "write"}
           Failed == job[p]["billing"] = "commit" /\ answer[p]["billing"] = "FAILED"
<1>0. /\ "billing" \in Steps /\ "compensation" \in JobIds
      /\ "compensation" \notin Steps /\ "compensation" \notin Stamped
      /\ "compensation" \in CompJobs
      /\ \A c \in CompJobs : c # "billing"
      /\ \A s \in Stamped : s \in JobIds /\ s # "billing" /\ s \notin Steps
  BY Sets, StampedAssumption DEF CompJobs, JobIds
<1>1. /\ Early => job[p]["compensation"] = "absent"
      /\ Failed => job[p]["compensation"] \in {"queued", "read"}
  BY DEF AttendedAt
<1>2. request[p] # "ended" => \A s \in Steps : job[p][s] = "absent"
  BY DEF OnceAt, StartInv
<1>3. request'[p] # "ended" => request[p] # "ended"
  BY DEF Move, MoveNone, MoveServed, MoveCrash, MoveElapse, StepMove, MoveCall,
         MoveWrite, MoveCommit, MoveAbort, CompMove, MoveStart, MoveEnd, MoveUndo,
         MoveAlert, MoveSettle, MoveRetry, ApiMove, MoveCreate, MoveBill, MoveDrop,
         MoveApprove, MoveForce, SchedMove, MovePollRead, MovePollEnqueue,
         MovePollCommit, MoveDeadRead, MoveDeadCommit, MoveLost, ApiSame
<1>4. Early2 => Early
  <2> SUFFICES ASSUME job'[p]["billing"] \in {"queued", "call", "write"},
                      request[p] = "ended",
                      job[p]["billing"] \notin {"queued", "call", "write"}
               PROVE  FALSE
    BY <1>3
  <2>1. NoCrash /\ ~Ahead(p, "billing")
    BY <1>0 DEF Ahead, Unbroken
  <2>2. ~Ahead(p, "billing")' /\ job'[p]["billing"] # "write"
    <3>1. CASE job[p]["billing"] # "commit"
      BY <1>0, <2>1, <3>1, PassedStays
    <3>2. CASE job[p]["billing"] = "commit" /\ ~MoveCommit(p, "billing")
      BY <1>0, <2>1, <3>2, CommitWaits, PassedStays
      DEF MoveAbort, Unbroken, NoInfra, NoTimeout
    <3>3. CASE MoveCommit(p, "billing")
      BY <1>0, <2>1, <3>3, PassedStays DEF MoveCommit, Sends
    <3> QED  BY <3>1, <3>2, <3>3
  <2> QED  BY <1>0, <2>2 DEF Ahead
<1>5. ASSUME Early2  PROVE job'[p]["compensation"] = "absent"
  <2>1. job[p]["compensation"] = "absent"
    BY <1>1, <1>4, <1>5
  <2>2. \A s \in Steps : MoveWrite(p, s) => s = "billing" /\ request[p] = "ended"
    BY <1>2, <1>4, <1>5, Sets DEF MoveWrite, OnceAt, StartInv
  <2>3. ~MoveWrite(p, "billing")
    BY <1>0, <1>3, <1>5, <2>2 DEF MoveWrite, Sends
  <2>4. \A s \in Steps : ~MoveWrite(p, s)
    BY <2>2, <2>3
  <2>5. CASE MoveServed(p) \/ MoveBill(p) \/ UNCHANGED job[p]
    BY <1>0, <2>1, <2>5 DEF MoveServed, MoveBill
  <2>6. ASSUME NEW j \in JobIds, j # "compensation", NEW to, Sends(p, j, to, {})
        PROVE  job'[p]["compensation"] = "absent"
    BY <1>0, <2>1, <2>6 DEF Sends
  <2>7. ASSUME NEW c \in CompJobs, CompMove(p, c)
        PROVE  c # "compensation"
    BY <2>1, <2>7
    DEF CompMove, MoveStart, MoveEnd, MoveUndo, MoveAlert, MoveSettle, MoveRetry,
        CompensationPc
  <2>8. ASSUME NEW c \in CompJobs, c # "compensation", NEW s \in Stamped,
               \A i \in JobIds \ {c, s} : job'[p][i] = job[p][i]
        PROVE  job'[p]["compensation"] = "absent"
    BY <1>0, <2>1, <2>8
  <2> QED
    BY <1>0, <2>4, <2>5, <2>6, <2>7, <2>8, JobMoves, Sets
<1>6. ASSUME job'[p]["billing"] = "commit", answer'[p]["billing"] = "FAILED"
      PROVE  job'[p]["compensation"] \in {"queued", "read"}
  <2>1. CASE MoveWrite(p, "billing")
    <3>1. answer[p]["billing"] = "FAILED"
      BY <1>6, <2>1 DEF MoveWrite, LocalsSame
    <3>2. job[p]["compensation"] = "absent"
      BY <1>1, <2>1 DEF MoveWrite
    <3>3. "compensation" \in StepJobs(p, "billing")
      BY <3>1 DEF StepJobs, BillingJobs
    <3> QED
      BY <1>0, <2>1, <3>2, <3>3 DEF MoveWrite, Sends, Enqueued
  <2>2. CASE ~MoveWrite(p, "billing")
    <3>1. job[p]["billing"] = "commit"
      BY <1>0, <1>6, <2>2, JobMoves, Sets
      DEF MoveServed, MoveBill, Sends, EntryPc, Enqueued, StepJobs, ParallelJobs
    <3>2. ~MoveCommit(p, "billing") /\ ~MoveAbort(p, "billing") /\ NoCrash
      BY <1>0, <1>6 DEF MoveCommit, MoveAbort, Unbroken, NoInfra, NoTimeout, Sends
    <3>3. answer[p]["billing"] = "FAILED"
      BY <1>0, <1>6, <3>1, <3>2, CommitWaits
    <3>4. job[p]["compensation"] \in {"queued", "read"} /\ RowLocked(p)
      BY <1>0, <1>1, <3>1, <3>3, Sets DEF RowLocked
    <3>5. status[p]["billing"] = "PENDING" /\ Pending(p)
      BY <1>0, <3>1 DEF OnceAt, WriteInv, Pending
    <3>6. ~CompMove(p, "compensation")
      BY <3>2, <3>4, <3>5
      DEF CompMove, MoveStart, MoveEnd, MoveUndo, MoveAlert, MoveSettle, MoveRetry,
          Unbroken, NoInfra, NoTimeout
    <3>7. Enqueued(job[p]["compensation"]) = job[p]["compensation"]
      BY <3>4 DEF Enqueued
    <3> QED
      BY <1>0, <3>4, <3>6, <3>7, JobMoves, Sets
      DEF MoveServed, MoveBill, Sends, EntryPc
  <2> QED  BY <2>1, <2>2
<1> QED  BY <1>5, <1>6

LEMMA HeldSucceeds ==
    ASSUME NEW p \in Orders, NEW c \in CompJobs, StillHeld(p, c)
    PROVE  Succeeded(p) # {}
  BY DEF StillHeld, Settled, Succeeded

(* Whoever leaves an order COMPENSATING leaves it attended, or visible to   *)
(* the poll.                                                                *)
LEMMA RollbackStep ==
    ASSUME Prepaid, Unbroken, TypeOK, NEW p \in Orders, OnceAt(p), HoldAt(p),
           AttendedAt(p), Move(p), global'[p] = "COMPENSATING",
           \A s \in Steps : status'[p][s] # "SUCCESS"
    PROVE  Attends(p)'
<1>0. "compensation" \in CompJobs /\ "billing" \in Steps
  BY Sets DEF CompJobs
<1>1. ASSUME NEW s \in Steps, MoveCommit(p, s)  PROVE Attends(p)'
  <2>1. CASE s = "billing"
    <3>1. status[p]["billing"] = "PENDING"
      BY <1>1, <2>1, CommitColumns
    <3>2. global[p] # "COMPENSATING"
      BY <3>1 DEF AttendedAt
    <3>3. answer[p]["billing"] = "FAILED"
      BY <1>1, <2>1, <3>2, CommitColumns
    <3>4. job[p]["compensation"] \in {"queued", "read"}
      BY <1>1, <2>1, <3>3 DEF AttendedAt, MoveCommit
    <3>5. Sends(p, "billing", "finish", {})
      BY <1>1, <2>1 DEF MoveCommit, Unbroken, NoInfra
    <3> QED  BY <1>0, <3>4, <3>5, Sets DEF Sends, Attends
  <2>2. CASE s \in Parallel
    <3>1. status[p][s] = "PENDING" /\ job[p][s] = "commit" /\ s # "billing"
      BY <1>1, <2>2, CommitColumns, Sets DEF MoveCommit
    <3>2. status[p]["billing"] # "PENDING"
      BY <2>2, <3>1, Sets DEF AttendedAt, HoldAt
    <3>3. status[p]["billing"] = "SUCCESS"
      BY <2>2, <3>1, <3>2 DEF AttendedAt
    <3>4. ~MoveCommit(p, "billing")
      BY <1>0, <3>2, CommitColumns
    <3>5. \A c \in CompJobs : ~MoveSettle(p, c)
      BY <2>2, <3>1, Sets DEF MoveSettle, HoldAt, Pending
    <3>6. status'[p]["billing"] = "SUCCESS"
      BY <1>0, <3>3, <3>4, <3>5, Columns
    <3> QED  BY <1>0, <3>6
  <2> QED  BY <2>1, <2>2, Sets
<1>2. ASSUME NEW c \in CompJobs, MoveStart(p, c)  PROVE Attends(p)'
  BY <1>2 DEF MoveStart, Sends, Attends, Unbroken, NoInfra
<1>3. ASSUME NEW c \in CompJobs, MoveSettle(p, c)  PROVE FALSE
  <2>1. StillHeld(p, c)
    BY <1>3 DEF MoveSettle
  <2> QED  BY <1>3, <2>1 DEF MoveSettle, StillHeld
<1>4. CASE /\ \A s \in Steps : ~MoveCommit(p, s)
           /\ \A c \in CompJobs : ~MoveStart(p, c) /\ ~MoveSettle(p, c)
  <2>1. UNCHANGED <<status[p], global[p]>>
    BY <1>4
    DEF Move, MoveNone, MoveServed, MoveCrash, MoveElapse, StepMove, MoveCall,
        MoveWrite, MoveAbort, CompMove, MoveEnd, MoveUndo, MoveAlert, MoveRetry,
        ApiMove, MoveCreate, MoveBill, MoveDrop, MoveApprove, MoveForce,
        SchedMove, MovePollRead, MovePollEnqueue, MovePollCommit, MoveDeadRead,
        MoveDeadCommit, MoveLost, RowSame
  <2>2. global[p] = "COMPENSATING" /\ Succeeded(p) = {}
    BY <2>1 DEF Succeeded
  <2>3. PICK d \in CompJobs : job[p][d] \in {"queued", "deferred", "read", "undo"}
    BY <2>2 DEF AttendedAt
  <2>4. d \in JobIds /\ d \notin Steps /\ Enqueued(job[p][d]) = job[p][d]
    BY <2>3, Sets DEF Enqueued
  <2>5. ~Pending(p)
    <3>1. status[p]["billing"] \notin {"PENDING", "SUCCESS"}
      BY <1>0, <2>2 DEF AttendedAt, Succeeded
    <3>2. \A s \in Parallel : status[p][s] # "PENDING"
      BY <3>1 DEF AttendedAt
    <3> QED  BY <3>1, <3>2, Sets DEF Pending
  <2>6. CASE MoveServed(p)
    BY <2>3, <2>4, <2>6 DEF MoveServed, Attends, EntryPc
  <2>7. CASE MoveBill(p) \/ UNCHANGED job[p]
    BY <2>3, <2>4, <2>7 DEF MoveBill, Attends
  <2>8. ASSUME NEW j \in JobIds, j # d, NEW to, NEW E, Sends(p, j, to, E)
        PROVE  Attends(p)'
    BY <2>3, <2>4, <2>8 DEF Sends, Attends
  <2>9. CASE \E s \in Steps :
               /\ StepMove(p, s)
               /\ \/ job[p][s] = "call" /\ Sends(p, s, "write", {})
                  \/ MoveWrite(p, s) /\ Sends(p, s, "commit", StepJobs(p, s))
                  \/ MoveCommit(p, s) /\ Sends(p, s, "finish", {})
    BY <2>4, <2>8, <2>9, Sets
  <2>10. ASSUME NEW t \in Stamped, job[p][t] = "absent", Sends(p, t, "queued", {})
         PROVE  Attends(p)'
    BY <2>10, Sets DEF Sends, Attends, CompJobs
  <2>11. ASSUME NEW c \in CompJobs, CompMove(p, c)
         PROVE  Attends(p)'
    <3>1. ~MoveAlert(p, c)
      BY <2>2, HeldSucceeds DEF MoveAlert
    <3>2. CASE MoveUndo(p, c)
      BY <2>3, <3>2 DEF MoveUndo, Attends
    <3>3. CASE MoveEnd(p, c)
      <4>1. c # d /\ c \in JobIds
        BY <2>3, <2>5, <3>3, Sets
        DEF MoveEnd, Unbroken, NoInfra, NoTimeout
      <4> QED  BY <2>8, <3>3, <4>1 DEF MoveEnd
    <3>4. CASE MoveRetry(p, c)
      BY <3>4, Sets DEF MoveRetry, Sends, Attends, CompJobs
    <3> QED  BY <1>4, <2>11, <3>1, <3>2, <3>3, <3>4 DEF CompMove
  <2> QED  BY <2>6, <2>7, <2>9, <2>10, <2>11, JobMoves
<1> QED  BY <1>1, <1>2, <1>3, <1>4

LEMMA AttendedStep ==
    ASSUME Prepaid, Unbroken, TypeOK, NEW p \in Orders, OnceAt(p), HoldAt(p),
           AttendedAt(p), Move(p)
    PROVE  AttendedAt(p)'
<1>1. (global[p] = "COMPENSATING" /\ Succeeded(p) = {} => Attends(p))'
  BY RollbackStep DEF Succeeded
<1>2. ( /\ \/ request[p] # "ended"
           \/ job[p]["billing"] \in {"queued", "call", "write"}
           => job[p]["compensation"] = "absent"
        /\ job[p]["billing"] = "commit" /\ answer[p]["billing"] = "FAILED" =>
              job[p]["compensation"] \in {"queued", "read"} )'
  BY FirstAttempt
<1>3. (status[p]["billing"] = "PENDING" =>
          /\ global[p] \in {"ABSENT", "PROCESSING"}
          /\ admin[p] = "idle" /\ p \notin deadSet
          /\ \A s \in Parallel :
                /\ status[p][s] = "PENDING"
                /\ job[p][s] = "absent" \/ job[p]["billing"] = "commit")'
  BY BillingOpen
<1>4. (\A s \in Parallel :
          status[p][s] = "PENDING" =>
             status[p]["billing"] \in {"PENDING", "SUCCESS"})'
  BY ParallelOpen
<1> QED  BY <1>1, <1>2, <1>3, <1>4 DEF AttendedAt, Attends

(* A prepaid order that rolls back with no job broken off is attended: by   *)
(* an attempt that has not settled, or else by the poll, which sees a step  *)
(* to undo.  Slow jobs, lost enqueues and answers, expired results and a    *)
(* failing scheduler change nothing about it.                               *)
THEOREM AttendedInvariant ==
    ASSUME Prepaid, Unbroken
    PROVE  Spec => []AttendedInv
<1>1. Init => PollingInv
  BY DEF Init, SchedulerInit, PollingInv
<1>2. ASSUME Init  PROVE AttendedInv
  <2>1. "billing" \in JobIds /\ "compensation" \in JobIds
    BY Sets DEF JobIds, CompJobs
  <2> QED
    BY <1>2, <2>1, StartIs, Sets DEF AttendedInv, AttendedAt
<1>3. TypeOK /\ PollingInv /\ OnceInv /\ HoldInv /\ AttendedInv /\ [Next]_vars =>
         AttendedInv'
  BY AttendedStep, Moves, Stutter DEF AttendedInv, OnceInv, HoldInv
<1>4. NoCrash
  BY DEF Unbroken
<1> QED
  BY <1>1, <1>2, <1>3, <1>4, TypeCorrect, OnceInvariant, HoldInvariant,
     PollingStep, PTL DEF Spec

(* So no rollback of such an order is ever forgotten: it has a job, or the  *)
(* poll will find it.                                                       *)
THEOREM RollbackAttended ==
    ASSUME Prepaid, Unbroken
    PROVE  Spec => []RollbackIsAttended
<1>1. AttendedInv => RollbackIsAttended
  BY DEF AttendedInv, AttendedAt, RollbackIsAttended, Rollbacks, Live
<1> QED  BY <1>1, AttendedInvariant, PTL

(* No row of such an order reaches the hour. *)
LEMMA NeverDead ==
    ASSUME NoSlow, TypeOK, NEW p \in Orders, OnceAt(p), AttendedAt(p),
           ManualAt(p), Move(p)
    PROVE  age'[p] # "dead" /\ p \notin deadSet'
<1>1. age[p] # "dead" /\ p \notin deadSet
  BY DEF ManualAt
<1>2. CASE MoveElapse(p)
  <2>1. Idle(p) /\ p \notin StuckOrders /\ DeadSame(p)
    BY <1>2 DEF MoveElapse, NoSlow, SchedSame
  <2>2. ~Attends(p)
    BY <2>1, Sets DEF Idle, Live, Attends
  <2>3. global[p] = "COMPENSATING" => Succeeded(p) # {}
    BY <2>2 DEF AttendedAt, Attends
  <2>4. global[p] = "PROCESSING" => Pending(p)
    BY DEF OnceAt, ProcessingInv
  <2>5. age[p] = "fresh"
    BY <1>2, <2>1, <2>3, <2>4 DEF MoveElapse, StuckOrders
  <2> QED  BY <1>1, <1>2, <2>1, <2>5 DEF MoveElapse, DeadSame
<1>3. ~MoveDeadRead(p)
  BY <1>1 DEF MoveDeadRead, DeadOrders
<1> QED
  BY <1>1, <1>2, <1>3
  DEF Move, MoveNone, MoveServed, MoveCrash, StepMove, MoveCall, MoveWrite,
      MoveCommit, MoveAbort, CompMove, MoveStart, MoveEnd, MoveUndo, MoveAlert,
      MoveSettle, MoveRetry, ApiMove, MoveCreate, MoveBill, MoveDrop, MoveApprove,
      MoveForce, SchedMove, MovePollRead, MovePollEnqueue, MovePollCommit,
      MoveDeadCommit, MoveLost, RowSame, Committed, SchedSame, DeadSame

(* The lock keeps what the Slack call reports.                              *)
LEMMA AlertHolds ==
    ASSUME Unbroken, TypeOK, NEW p \in Orders, HoldAt(p), ManualAt(p), Move(p),
           NEW c \in CompJobs, job'[p][c] = "alert"
    PROVE  StillHeld(p, c)'
<1>0. c \in JobIds /\ c \notin Steps
  BY Sets
<1>1. CASE MoveAlert(p, c)
  BY <1>1 DEF MoveAlert, RowSame, LocalsSame, StillHeld, Settled
<1>2. CASE ~MoveAlert(p, c)
  <2>1. job[p][c] = "alert"
    <3>1. \A i \in JobIds : Enqueued(job[p][i]) \in {job[p][i], "queued"}
      BY DEF Enqueued
    <3>2. CASE MoveServed(p) \/ MoveBill(p) \/ UNCHANGED job[p]
      BY <1>0, <3>1, <3>2 DEF MoveServed, MoveBill, EntryPc
    <3>3. ASSUME NEW j \in JobIds, NEW to, NEW E, Sends(p, j, to, E),
                 j # c \/ to # "alert"
          PROVE  job[p][c] = "alert"
      BY <1>0, <3>1, <3>3 DEF Sends
    <3>4. ASSUME NEW d \in CompJobs, CompMove(p, d), ~UNCHANGED job[p]
          PROVE  job[p][c] = "alert"
      <4>1. CASE MoveRetry(p, d)
        BY <1>0, <3>3, <4>1, Sets DEF MoveRetry, CompJobs
      <4>2. CASE \/ MoveStart(p, d) \/ MoveEnd(p, d) \/ MoveSettle(p, d)
                 \/ MoveAlert(p, d)
        BY <1>2, <3>3, <4>2, Sets DEF MoveStart, MoveEnd, MoveSettle, MoveAlert
      <4> QED  BY <3>4, <4>1, <4>2 DEF CompMove, MoveUndo
    <3>5. \A s \in Steps : s \in JobIds /\ s # c
      BY <1>0, Sets
    <3>6. \A t \in Stamped : t \in JobIds
      BY Sets DEF CompJobs
    <3> QED  BY JobMoves, <3>2, <3>3, <3>4, <3>5, <3>6
  <2>2. /\ StillHeld(p, c) /\ RowLocked(p)
        /\ \A i \in JobIds : job[p][i] \in {"commit", "alert"} => i = c
    BY <1>0, <2>1 DEF ManualAt, HoldAt, RowLocked
  <2>3. \A s \in Steps : ~MoveCommit(p, s)
    BY <1>0, <2>2, Sets DEF MoveCommit
  <2>4. \A d \in CompJobs : ~MoveSettle(p, d)
    <3> SUFFICES ASSUME NEW d \in CompJobs, MoveSettle(p, d)  PROVE FALSE
      OBVIOUS
    <3>1. d = c /\ job'[p][d] = "finish"
      BY <2>2, Sets DEF MoveSettle, Sends
    <3> QED  BY <3>1
  <2>5. UNCHANGED status[p]
    BY <2>3, <2>4
    DEF Move, MoveNone, MoveServed, MoveCrash, MoveElapse, StepMove, MoveCall,
        MoveWrite, MoveAbort, CompMove, MoveStart, MoveEnd, MoveUndo, MoveAlert,
        MoveRetry, ApiMove, MoveCreate, MoveBill, MoveDrop, MoveApprove, MoveForce,
        SchedMove, MovePollRead, MovePollEnqueue, MovePollCommit, MoveDeadRead,
        MoveDeadCommit, MoveLost, RowSame
  <2>6. ok'[p][c] = ok[p][c]
    <3>1. ASSUME NEW d \in CompJobs, CompMove(p, d)
          PROVE  ok'[p][c] = ok[p][c]
      <4>1. ~MoveUndo(p, c) /\ ~MoveEnd(p, c)
        BY <2>1, Sets DEF MoveUndo, MoveEnd, Sends
      <4> QED
        BY <2>4, <3>1, <4>1
        DEF CompMove, MoveStart, MoveEnd, MoveUndo, MoveAlert, MoveRetry, LocalsSame,
            Unbroken, NoInfra
    <3>2. ~MoveCrash(p)
      BY DEF MoveCrash, Unbroken, NoCrash
    <3> QED
      BY <3>1, <3>2
      DEF Move, MoveNone, MoveServed, MoveElapse, StepMove, MoveCall, MoveWrite,
          MoveCommit, MoveAbort, ApiMove, MoveCreate, MoveBill, MoveDrop,
          MoveApprove, MoveForce, SchedMove, MovePollRead, MovePollEnqueue,
          MovePollCommit, MoveDeadRead, MoveDeadCommit, MoveLost, JobsSame,
          LocalsSame
  <2> QED  BY <2>2, <2>5, <2>6 DEF StillHeld, Settled
<1> QED  BY <1>1, <1>2

(* An order handed over has every step decided and one that succeeded.      *)
LEMMA HandedOver ==
    ASSUME TypeOK, NEW p \in Orders, OnceAt(p), HoldAt(p), ManualAt(p), Move(p),
           global'[p] = "MANUAL_INTERVENTION_REQUIRED"
    PROVE  ~Pending(p)' /\ Succeeded(p)' # {}
<1>0. "billing" \in Steps /\ "compensation" \in CompJobs
  BY Sets DEF CompJobs
<1>1. ASSUME NEW s \in Steps, MoveCommit(p, s)  PROVE FALSE
  <2>1. global[p] = "MANUAL_INTERVENTION_REQUIRED" /\ Pending(p)
    BY <1>1, CommitColumns DEF Pending
  <2> QED  BY <2>1 DEF ManualAt
<1>2. ASSUME NEW c \in CompJobs, MoveSettle(p, c)
      PROVE  ~Pending(p)' /\ Succeeded(p)' # {}
  <2>1. ~Pending(p)
    BY <1>2 DEF MoveSettle, HoldAt
  <2>2. ~Pending(p)'
    BY <1>0, <1>2, <2>1, Decides DEF MoveSettle
  <2>3. StillHeld(p, c)
    BY <1>2 DEF MoveSettle, ManualAt
  <2> QED  BY <1>2, <2>2, <2>3 DEF MoveSettle, StillHeld, Succeeded
<1>3. CASE /\ \A s \in Steps : ~MoveCommit(p, s)
           /\ \A c \in CompJobs : ~MoveSettle(p, c)
  <2>1. ~MoveDeadCommit(p)
    BY DEF MoveDeadCommit, ManualAt
  <2>2. /\ UNCHANGED status[p]
        /\ global[p] = "MANUAL_INTERVENTION_REQUIRED"
    BY <1>3, <2>1
    DEF Move, MoveNone, MoveServed, MoveCrash, MoveElapse, StepMove, MoveCall,
        MoveWrite, MoveAbort, CompMove, MoveStart, MoveEnd, MoveUndo, MoveAlert,
        MoveRetry, ApiMove, MoveCreate, MoveBill, MoveDrop, MoveApprove, MoveForce,
        SchedMove, MovePollRead, MovePollEnqueue, MovePollCommit, MoveDeadRead,
        MoveLost, RowSame
  <2> QED  BY <2>2 DEF ManualAt, Pending, Succeeded
<1> QED  BY <1>1, <1>2, <1>3

(* When jobs and polls keep time besides, such an order is never a dead     *)
(* order, and Slack is called only while something is still held.           *)
THEOREM ManualInvariant ==
    ASSUME Prepaid, Unbroken, NoSlow
    PROVE  Spec => []ManualInv
<1>1. Init => PollingInv
  BY DEF Init, SchedulerInit, PollingInv
<1>2. ASSUME Init  PROVE ManualInv
  <2>1. \A c \in CompJobs : c \in JobIds
    BY Sets
  <2> QED  BY <1>2, <2>1, StartIs DEF ManualInv, ManualAt
<1>3. ASSUME TypeOK, OnceInv, HoldInv, AttendedInv, ManualInv,
             NEW p \in Orders, Move(p)
      PROVE  ManualAt(p)'
  <2>1. OnceAt(p) /\ HoldAt(p) /\ AttendedAt(p) /\ ManualAt(p)
    BY <1>3 DEF OnceInv, HoldInv, AttendedInv, ManualInv
  <2>2. (age[p] # "dead" /\ p \notin deadSet)'
    BY <1>3, <2>1, NeverDead
  <2>3. (\A c \in CompJobs : job[p][c] = "alert" => StillHeld(p, c))'
    BY <1>3, <2>1, AlertHolds
  <2>4. (global[p] = "MANUAL_INTERVENTION_REQUIRED" =>
            ~Pending(p) /\ Succeeded(p) # {})'
    BY <1>3, <2>1, HandedOver
  <2> QED  BY <2>2, <2>3, <2>4 DEF ManualAt
<1>4. /\ TypeOK /\ PollingInv /\ OnceInv /\ HoldInv /\ AttendedInv /\ ManualInv
      /\ [Next]_vars
      => ManualInv'
  BY <1>3, Moves, Stutter DEF ManualInv
<1>5. NoCrash
  BY DEF Unbroken
<1> QED
  BY <1>1, <1>2, <1>4, <1>5, TypeCorrect, OnceInvariant, HoldInvariant,
     AttendedInvariant, PollingStep, PTL DEF Spec

(* So an administrator is never handed a prepaid order that holds nothing   *)
(* to refund.                                                               *)
THEOREM ManualHeld ==
    ASSUME Prepaid, Unbroken, NoSlow
    PROVE  Spec => []ManualMeansHeld
<1>1. ManualInv => ManualMeansHeld
  BY DEF ManualInv, ManualAt, ManualMeansHeld
<1> QED  BY <1>1, ManualInvariant, PTL

=============================================================================
