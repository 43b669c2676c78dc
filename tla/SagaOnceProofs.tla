--------------------------- MODULE SagaOnceProofs ---------------------------
(***************************************************************************)
(* What TLAPS proves of Saga as long as no worker dies and so no job is    *)
(* delivered twice: whatever else fails, however often, and however far    *)
(* the scheduler overtakes the jobs.                                       *)
(***************************************************************************)
EXTENDS SagaProofs

NoCrash == "crash" \notin Faults

Row(o) == <<status[o], global[o], payment[o], svc[o], answer[o], waiting[o],
            ok[o], request[o], admin[o]>>

(* Nothing OnceAt says of order p is changed. *)
SameAt(p) ==
    /\ UNCHANGED Row(p)
    /\ job'[p] = job[p]
    /\ p \in deadSet' => p \in deadSet

(* An order nothing happens to keeps its invariant. *)
LEMMA Elsewhere ==
    ASSUME NEW p \in Orders, OnceAt(p), SameAt(p)
    PROVE  OnceAt(p)'
<1> USE DEF SameAt, Row, OnceAt
<1>1. AheadInv(p)'
  BY DEF AheadInv, Ahead
<1>2. StartInv(p)'
  BY DEF StartInv, Exists
<1>3. WriteInv(p)' /\ SkipInv(p)' /\ AnswerInv(p)'
  BY DEF WriteInv, SkipInv, AnswerInv
<1>4. UndoneInv(p)'
  BY DEF UndoneInv, Pending
<1>5. ProcessingInv(p)' /\ CompletedInv(p)' /\ CancelledInv(p)'
  BY DEF ProcessingInv, CompletedInv, CancelledInv, Pending, Succeeded
<1> QED  BY <1>1, <1>2, <1>3, <1>4, <1>5

(* What Advance does to the jobs, one by one. *)
LEMMA AdvanceIs ==
    ASSUME TypeOK, NEW o \in Orders, NEW j, NEW to, NEW E,
           Advance(o, j, to, E)
    PROVE  /\ \A p \in Orders : p # o => job'[p] = job[p]
           /\ \A i \in JobIds :
                /\ i = j => job'[o][i] = to
                /\ i # j => \/ job'[o][i] = job[o][i]
                            \/ /\ i \in E
                               /\ job[o][i] = "absent"
                               /\ job'[o][i] = "queued"
                /\ i # j /\ i \notin E => job'[o][i] = job[o][i]
  BY DEF Advance, Enqueued, TypeOK, QueueTypeOK

(* An action of one order leaves the others' invariants alone. *)
LEMMA OneOrder ==
    ASSUME OnceInv, NEW o \in Orders, OnceAt(o)',
           \A p \in Orders : p # o => SameAt(p)
    PROVE  OnceInv'
  BY Elsewhere DEF OnceInv

(* The sets the invariant quantifies over. *)
LEMMA Sets ==
    /\ Steps = {"billing", "inventory", "logistics"}
    /\ Parallel = {"inventory", "logistics"}
    /\ Steps \subseteq JobIds
    /\ CompJobs \subseteq JobIds
    /\ \A c \in CompJobs : c \notin Steps
  BY StampedAssumption DEF Steps, Parallel, JobIds, CompJobs

(* What a commit of a forward job changes. *)
LEMMA CommitIs ==
    ASSUME TypeOK, NEW o \in Orders, NEW s \in Steps,
           job[o][s] = "commit", NEW E \in SUBSET {"compensation"},
           Advance(o, s, "finish", E), Forget(o, s),
           WriteRow(o, StepColumns(o, s), StepGlobal(o, s)),
           UNCHANGED <<payment, svc, waiting, ok, request, admin, deadSet>>
    PROVE  /\ \A p \in Orders : p # o => SameAt(p)
           /\ job'[o][s] = "finish"
           /\ \A i \in JobIds : i # s =>
                \/ job'[o][i] = job[o][i]
                \/ i \notin Steps /\ job'[o][i] = "queued"
           /\ status'[o] = StepColumns(o, s)
           /\ global'[o] = StepGlobal(o, s)
           /\ answer'[o][s] = "FAILED"
           /\ \A t \in Steps : t # s => answer'[o][t] = answer[o][t]
<1>1. \A p \in Orders : p # o =>
         /\ job'[p] = job[p]
         /\ status'[p] = status[p]
         /\ global'[p] = global[p]
         /\ answer'[p] = answer[p]
  BY AdvanceIs DEF WriteRow, Forget, TypeOK, TableTypeOK, TasksTypeOK
<1>2. \A i \in JobIds : i # s =>
         \/ job'[o][i] = job[o][i]
         \/ i \notin Steps /\ job'[o][i] = "queued"
  BY AdvanceIs, Sets, States
<1>3. job'[o][s] = "finish"
  BY AdvanceIs, Sets
<1>4. /\ status'[o] = StepColumns(o, s)
      /\ global'[o] = StepGlobal(o, s)
      /\ answer'[o][s] = "FAILED"
      /\ \A t \in Steps : t # s => answer'[o][t] = answer[o][t]
  BY DEF WriteRow, Forget, TypeOK, TableTypeOK, TasksTypeOK
<1> QED  BY <1>1, <1>2, <1>3, <1>4 DEF SameAt, Row

(* The commit of process_billing keeps every part. *)
LEMMA BillingCommitOnce ==
    ASSUME TypeOK, OnceInv, NEW o \in Orders,
           job[o]["billing"] = "commit", NEW E \in SUBSET {"compensation"},
           Advance(o, "billing", "finish", E), Forget(o, "billing"),
           WriteRow(o, StepColumns(o, "billing"), StepGlobal(o, "billing")),
           UNCHANGED <<payment, svc, waiting, ok, request, admin, deadSet>>
    PROVE  OnceInv'
<1>0. OnceAt(o)
  BY DEF OnceInv
<1>1. /\ \A p \in Orders : p # o => SameAt(p)
      /\ job'[o]["billing"] = "finish"
      /\ \A i \in JobIds : i # "billing" =>
            \/ job'[o][i] = job[o][i]
            \/ i \notin Steps /\ job'[o][i] = "queued"
      /\ status'[o] = BillingColumns(o)
      /\ global'[o] = BillingGlobal(o)
      /\ answer'[o]["billing"] = "FAILED"
      /\ \A s \in Parallel : answer'[o][s] = answer[o][s]
  <2>1. "billing" \in Steps
    BY Sets
  <2>2. /\ \A p \in Orders : p # o => SameAt(p)
        /\ job'[o]["billing"] = "finish"
        /\ \A i \in JobIds : i # "billing" =>
              \/ job'[o][i] = job[o][i]
              \/ i \notin Steps /\ job'[o][i] = "queued"
        /\ status'[o] = StepColumns(o, "billing")
        /\ global'[o] = StepGlobal(o, "billing")
        /\ answer'[o]["billing"] = "FAILED"
        /\ \A t \in Steps : t # "billing" => answer'[o][t] = answer[o][t]
    BY ONLY <2>1, CommitIs, TypeOK, o \in Orders, job[o]["billing"] = "commit",
       E \in SUBSET {"compensation"}, Advance(o, "billing", "finish", E),
       Forget(o, "billing"),
       WriteRow(o, StepColumns(o, "billing"), StepGlobal(o, "billing")),
       UNCHANGED <<payment, svc, waiting, ok, request, admin, deadSet>>
  <2>3. StepColumns(o, "billing") = BillingColumns(o)
    BY DEF StepColumns
  <2>4. StepGlobal(o, "billing") = BillingGlobal(o)
    BY DEF StepGlobal
  <2>5. \A s \in Parallel : s \in Steps /\ s # "billing"
    BY Sets
  <2> QED  BY <2>2, <2>3, <2>4, <2>5
<1>2. \A s \in Steps : status[o][s] = "PENDING"
  BY <1>0, Sets DEF OnceAt, WriteInv
<1>3. CASE answer[o]["billing"] \in {"SUCCESS", "SKIPPED"}
  <2>1. /\ global'[o] = global[o]
        /\ status'[o]["billing"] = answer[o]["billing"]
        /\ \A s \in Parallel : status'[o][s] = "PENDING"
    BY <1>1, <1>2, <1>3, Sets DEF BillingColumns, BillingGlobal, TypeOK, TableTypeOK
  <2> USE Sets, <1>0, <1>1, <1>2, <1>3, <2>1 DEF OnceAt
  <2>2. AheadInv(o)' /\ StartInv(o)' /\ WriteInv(o)'
    BY DEF AheadInv, Ahead, StartInv, WriteInv, Exists
  <2>3. SkipInv(o)' /\ AnswerInv(o)'
    BY DEF SkipInv, AnswerInv
  <2>4. UndoneInv(o)'
    BY DEF UndoneInv, Pending
  <2>5. ProcessingInv(o)' /\ CompletedInv(o)' /\ CancelledInv(o)'
    BY DEF ProcessingInv, CompletedInv, CancelledInv, Pending, Succeeded
  <2> QED  BY <2>2, <2>3, <2>4, <2>5, OneOrder
<1>4. CASE answer[o]["billing"] = "FAILED"
  <2>1. /\ global'[o] = "COMPENSATING"
        /\ status'[o]["billing"] = "FAILED"
        /\ \A s \in Parallel : status'[o][s] = "CANCELLED"
        /\ \A s \in Parallel : job[o][s] = "absent" /\ svc[o][s] = "none"
    BY <1>0, <1>1, <1>4, Sets DEF BillingColumns, BillingGlobal, OnceAt, StartInv
  <2> USE Sets, <1>0, <1>1, <1>2, <1>4, <2>1 DEF OnceAt
  <2>2. AheadInv(o)' /\ StartInv(o)' /\ WriteInv(o)'
    BY DEF AheadInv, Ahead, StartInv, WriteInv, Exists
  <2>3. SkipInv(o)' /\ AnswerInv(o)'
    BY DEF SkipInv, AnswerInv
  <2>4. UndoneInv(o)'
    BY DEF UndoneInv, Pending
  <2>5. ProcessingInv(o)' /\ CompletedInv(o)' /\ CancelledInv(o)'
    BY DEF ProcessingInv, CompletedInv, CancelledInv, Pending, Succeeded
  <2> QED  BY <2>2, <2>3, <2>4, <2>5, OneOrder
<1> QED  BY <1>3, <1>4, Sets DEF TypeOK, TasksTypeOK, Answers

(* The commit of a parallel step keeps every part. *)
LEMMA ParallelCommitOnce ==
    ASSUME TypeOK, SagaInv, OnceInv, NEW o \in Orders, NEW s \in Parallel,
           job[o][s] = "commit", NEW E \in SUBSET {"compensation"},
           Advance(o, s, "finish", E), Forget(o, s),
           WriteRow(o, StepColumns(o, s), StepGlobal(o, s)),
           UNCHANGED <<payment, svc, waiting, ok, request, admin, deadSet>>
    PROVE  OnceInv'
<1>0. OnceAt(o) /\ s \in Steps /\ s # "billing"
  BY Sets DEF OnceInv
<1>1. /\ \A p \in Orders : p # o => SameAt(p)
      /\ job'[o][s] = "finish"
      /\ \A i \in JobIds : i # s =>
            \/ job'[o][i] = job[o][i]
            \/ i \notin Steps /\ job'[o][i] = "queued"
      /\ status'[o] = [status[o] EXCEPT ![s] = answer[o][s]]
      /\ global'[o] = ParallelGlobal(o, s)
      /\ answer'[o][s] = "FAILED"
      /\ \A t \in Steps : t # s => answer'[o][t] = answer[o][t]
  BY <1>0, CommitIs DEF StepColumns, StepGlobal, ParallelColumns
<1>2. /\ status[o][s] = "PENDING"
      /\ status'[o][s] = answer[o][s]
      /\ \A t \in Steps : t # s => status'[o][t] = status[o][t]
      /\ answer[o][s] \in {"FAILED", "SUCCESS"}
      /\ job[o]["billing"] \notin {"queued", "call", "write", "commit"}
      /\ request[o] = "ended"
  BY <1>0, <1>1, Sets
  DEF OnceAt, WriteInv, StartInv, SkipInv, TypeOK, TableTypeOK, TasksTypeOK, Answers
<1>3. \A c \in CompJobs : job[o][c] # "undo"
  BY <1>0, <1>2 DEF SagaInv, DecidedInv, Pending
<1>4. global'[o] \in {"COMPENSATING", "COMPLETED", global[o]}
  BY <1>1 DEF ParallelGlobal
<1>5. \A t \in Steps : svc[o][t] # "undone"
  BY <1>0, <1>2 DEF OnceAt, UndoneInv, Pending
<1> USE Sets, <1>0, <1>1, <1>2 DEF OnceAt
<1>6. AheadInv(o)' /\ StartInv(o)' /\ WriteInv(o)'
  BY <1>4 DEF AheadInv, Ahead, StartInv, WriteInv, Exists
<1>7. SkipInv(o)' /\ AnswerInv(o)'
  BY DEF SkipInv, AnswerInv
<1>8. UndoneInv(o)'
  BY <1>5 DEF UndoneInv, Pending
<1>9. ProcessingInv(o)'
  <2>1. global'[o] = "PROCESSING" =>
           /\ global[o] = "PROCESSING"
           /\ answer[o][s] = "SUCCESS"
           /\ ~OthersDone(o, s)
    BY DEF ParallelGlobal
  <2>2. global'[o] = "PROCESSING" =>
           \E t \in Steps : t # s /\ status[o][t] = "PENDING"
    BY <2>1 DEF OthersDone, ProcessingInv, SkipInv
  <2>3. \A c \in CompJobs : job'[o][c] \in {"undo", "alert"}
           => job'[o][c] = job[o][c] /\ global[o] \notin {"ABSENT", "PROCESSING"}
    BY DEF ProcessingInv
  <2> QED  BY <1>4, <2>1, <2>2, <2>3 DEF ProcessingInv, Pending
<1>10. CompletedInv(o)'
  <2>1. global'[o] = "COMPLETED" => OthersDone(o, s) /\ answer[o][s] = "SUCCESS"
    BY <1>0, <1>2 DEF ParallelGlobal, CompletedInv, Pending
  <2>2. global'[o] = "COMPLETED" => svc[o][s] = "done"
    BY <1>5, <2>1 DEF SagaInv, DoneInv, TypeOK, ServicesTypeOK, LastAction
  <2>3. global'[o] = "COMPLETED" =>
           \A t \in Steps : t # "billing" \/ payment[o] = "prepayment"
                             => svc[o][t] = "done"
    BY <1>5, <2>1, <2>2
    DEF OthersDone, SkipInv, SagaInv, DoneInv, TypeOK, ServicesTypeOK, LastAction
  <2>4. global'[o] = "COMPLETED" => ~Pending(o)'
    BY <2>1 DEF OthersDone, Pending
  <2> QED  BY <1>3, <2>3, <2>4 DEF CompletedInv
<1>11. CancelledInv(o)'
  BY <1>4 DEF CancelledInv, Pending
<1> QED  BY <1>6, <1>7, <1>8, <1>9, <1>10, <1>11, OneOrder

(* Either way. *)
LEMMA CommitOnce ==
    ASSUME TypeOK, SagaInv, OnceInv, NEW o \in Orders, NEW s \in Steps,
           job[o][s] = "commit", NEW E \in SUBSET {"compensation"},
           Advance(o, s, "finish", E), Forget(o, s),
           WriteRow(o, StepColumns(o, s), StepGlobal(o, s)),
           UNCHANGED <<payment, svc, waiting, ok, request, admin, deadSet>>
    PROVE  OnceInv'
  BY Sets, BillingCommitOnce, ParallelCommitOnce

(* process_billing keeps every part. *)
LEMMA BillingOnce ==
    ASSUME TypeOK, SagaInv, OnceInv, NEW o \in Orders, BillingStep(o)
    PROVE  OnceInv'
<1> DEFINE b == "billing"
<1>0. OnceAt(o)
  BY DEF OnceInv
<1>1. CASE BillingCall(o)
  <2>1. /\ UNCHANGED <<status, global, payment, waiting, ok, request, admin, deadSet>>
        /\ \A p \in Orders : p # o =>
              job'[p] = job[p] /\ svc'[p] = svc[p] /\ answer'[p] = answer[p]
    BY <1>1, AdvanceIs DEF BillingStep, BillingCall, Serve, Outside, rowVars,
       schedVars, apiVars, TypeOK, ServicesTypeOK, TasksTypeOK
  <2>2. /\ job[o]["billing"] = "call" /\ job'[o]["billing"] = "write"
        /\ \A i \in JobIds : i # "billing" => job'[o][i] = job[o][i]
    BY <1>1, AdvanceIs, Sets DEF BillingCall
  <2>3. \A s \in Steps : s # "billing" =>
           svc'[o][s] = svc[o][s] /\ answer'[o][s] = answer[o][s]
    BY <1>1 DEF BillingCall, Serve, TypeOK, ServicesTypeOK, TasksTypeOK
  <2>4. /\ svc'[o]["billing"] \in {svc[o]["billing"], "done"}
        /\ answer'[o]["billing"] \in {"SKIPPED", "SUCCESS", "FAILED"}
        /\ answer'[o]["billing"] = "SKIPPED" => payment[o] = "postpayment"
        /\ ~Lossy /\ svc'[o]["billing"] # svc[o]["billing"]
              => answer'[o]["billing"] = "SUCCESS"
    BY <1>1, Sets DEF BillingCall, Serve, Replies, TypeOK, ServicesTypeOK, TasksTypeOK
  <2>5. OnceAt(o)'
    <3> USE Sets, <1>0, <2>1, <2>2, <2>3, <2>4 DEF OnceAt
    <3>0. \A s \in Steps : Ahead(o, s) /\ status[o][s] = "PENDING" /\ svc[o][s] = "none"
      BY DEF AheadInv, Ahead
    <3>1. AheadInv(o)'
      BY <3>0 DEF AheadInv, Ahead, StartInv
    <3>2. StartInv(o)'
      BY DEF StartInv, Exists
    <3>3. WriteInv(o)' /\ SkipInv(o)' /\ AnswerInv(o)'
      BY <3>0 DEF WriteInv, SkipInv, AnswerInv
    <3>4. UndoneInv(o)'
      BY <3>0 DEF UndoneInv, Pending
    <3>5. ProcessingInv(o)' /\ CompletedInv(o)' /\ CancelledInv(o)'
      BY <3>0 DEF ProcessingInv, CompletedInv, CancelledInv, Pending, Succeeded
    <3> QED  BY <3>1, <3>2, <3>3, <3>4, <3>5
  <2> QED
    BY <2>1, <2>5, OneOrder DEF SameAt, Row
<1>2. CASE BillingWrite(o)
  <2>1. /\ UNCHANGED <<status, global, payment, svc, answer, waiting, ok, request,
                        admin, deadSet>>
        /\ \A p \in Orders : p # o => job'[p] = job[p]
    BY <1>2, AdvanceIs DEF BillingStep, BillingWrite, Outside, rowVars,
       taskVars, schedVars, apiVars
  <2>2. /\ job[o]["billing"] = "write" /\ job'[o]["billing"] = "commit"
        /\ ~RowLocked(o)
        /\ \A i \in JobIds : i # "billing" =>
              \/ job'[o][i] = job[o][i]
              \/ /\ i \in BillingJobs(o)
                 /\ job[o][i] = "absent"
                 /\ job'[o][i] = "queued"
        /\ \A i \in JobIds : i # "billing" /\ i \notin BillingJobs(o)
              => job'[o][i] = job[o][i]
    BY <1>2, AdvanceIs, Sets DEF BillingWrite
  <2>3. \A c \in CompJobs :
           job'[o][c] \in {"undo", "alert"} => job'[o][c] = job[o][c]
    BY <2>2, Sets
  <2>4. /\ answer[o]["billing"] = "FAILED" =>
              \A s \in Parallel : s \notin BillingJobs(o)
        /\ \A s \in Parallel : job'[o][s] \in {"absent", "queued"}
    BY <1>0, <2>2, Sets DEF BillingJobs, OnceAt, StartInv
  <2>5. OnceAt(o)'
    <3> USE Sets, <1>0, <2>1, <2>2, <2>3, <2>4 DEF OnceAt
    <3>0. /\ \A s \in Parallel : Ahead(o, s) /\ status[o][s] = "PENDING" /\ svc[o][s] = "none"
          /\ status[o]["billing"] = "PENDING"
          /\ request[o] = "ended"
      BY DEF AheadInv, Ahead, WriteInv, StartInv
    <3>1. AheadInv(o)'
      BY <3>0 DEF AheadInv, Ahead
    <3>2. StartInv(o)'
      BY <3>0 DEF StartInv, Exists
    <3>3. WriteInv(o)' /\ SkipInv(o)' /\ AnswerInv(o)'
      BY <3>0 DEF WriteInv, SkipInv, AnswerInv
    <3>4. UndoneInv(o)'
      BY DEF UndoneInv, Pending
    <3>5. ProcessingInv(o)' /\ CompletedInv(o)' /\ CancelledInv(o)'
      BY DEF ProcessingInv, CompletedInv, CancelledInv, Pending, Succeeded
    <3> QED  BY <3>1, <3>2, <3>3, <3>4, <3>5
  <2> QED
    BY <2>1, <2>5, OneOrder DEF SameAt, Row
<1>3. CASE BillingCommit(o)
  BY <1>3, Sets, CommitOnce
  DEF BillingStep, BillingCommit, Outside, schedVars, apiVars, StepColumns,
      StepGlobal
<1> QED  BY <1>1, <1>2, <1>3 DEF BillingStep, ProcessBilling

(* The call of a parallel step keeps every part. *)
LEMMA ParallelCallOnce ==
    ASSUME TypeOK, OnceInv, NEW o \in Orders, NEW s \in Parallel,
           ParallelCall(o, s), Outside
    PROVE  OnceInv'
<1>0. OnceAt(o) /\ s \in Steps /\ s # "billing"
  BY Sets DEF OnceInv
<1>1. /\ UNCHANGED <<status, global, payment, waiting, ok, request, admin, deadSet>>
      /\ \A p \in Orders : p # o =>
            job'[p] = job[p] /\ svc'[p] = svc[p] /\ answer'[p] = answer[p]
  BY <1>0, AdvanceIs
  DEF ParallelCall, Serve, Outside, rowVars, schedVars, apiVars, TypeOK,
      ServicesTypeOK, TasksTypeOK
<1>2. /\ job[o][s] = "call" /\ job'[o][s] = "write"
      /\ \A i \in JobIds : i # s => job'[o][i] = job[o][i]
  BY <1>0, AdvanceIs, Sets DEF ParallelCall
<1>3. \A t \in Steps : t # s =>
         svc'[o][t] = svc[o][t] /\ answer'[o][t] = answer[o][t]
  BY <1>0 DEF ParallelCall, Serve, TypeOK, ServicesTypeOK, TasksTypeOK
<1>4. /\ svc'[o][s] \in {svc[o][s], "done"}
      /\ answer'[o][s] \in {"SUCCESS", "FAILED"}
      /\ ~Lossy /\ svc'[o][s] # svc[o][s] => answer'[o][s] = "SUCCESS"
  BY <1>0 DEF ParallelCall, Serve, Replies, TypeOK, ServicesTypeOK, TasksTypeOK
<1> USE Sets, <1>0, <1>1, <1>2, <1>3, <1>4 DEF OnceAt
<1>5. /\ status[o][s] = "PENDING" /\ svc[o][s] = "none"
      /\ job[o]["billing"] \notin {"queued", "call", "write"}
      /\ request[o] = "ended"
  BY DEF AheadInv, Ahead, StartInv
<1>6. AheadInv(o)' /\ StartInv(o)' /\ WriteInv(o)'
  BY <1>5 DEF AheadInv, Ahead, StartInv, WriteInv, Exists
<1>7. SkipInv(o)' /\ AnswerInv(o)'
  BY <1>5 DEF SkipInv, AnswerInv
<1>8. UndoneInv(o)'
  BY <1>5 DEF UndoneInv, Pending
<1>9. ProcessingInv(o)' /\ CompletedInv(o)' /\ CancelledInv(o)'
  BY <1>5 DEF ProcessingInv, CompletedInv, CancelledInv, Pending, Succeeded
<1> QED  BY <1>6, <1>7, <1>8, <1>9, OneOrder DEF SameAt, Row

(* The row lock keeps a parallel step from its write while billing has one. *)
LEMMA ParallelWriteOnce ==
    ASSUME TypeOK, OnceInv, NEW o \in Orders, NEW s \in Parallel,
           ParallelWrite(o, s), Outside
    PROVE  OnceInv'
<1>0. OnceAt(o) /\ s \in Steps /\ s # "billing"
  BY Sets DEF OnceInv
<1>1. /\ UNCHANGED <<status, global, payment, svc, answer, waiting, ok, request,
                      admin, deadSet>>
      /\ \A p \in Orders : p # o => job'[p] = job[p]
  BY AdvanceIs
  DEF ParallelWrite, Outside, rowVars, taskVars, schedVars, apiVars
<1>2. /\ job[o][s] = "write" /\ job'[o][s] = "commit"
      /\ \A i \in JobIds : i # s =>
            \/ job'[o][i] = job[o][i]
            \/ i \notin Steps /\ job'[o][i] = "queued"
  BY <1>0, AdvanceIs, Sets DEF ParallelWrite, ParallelJobs
<1>3. job[o]["billing"] # "commit"
  BY Sets DEF ParallelWrite, RowLocked
<1> USE Sets, <1>0, <1>1, <1>2, <1>3 DEF OnceAt
<1>4. AheadInv(o)' /\ StartInv(o)' /\ WriteInv(o)'
  BY DEF AheadInv, Ahead, StartInv, WriteInv, Exists
<1>5. SkipInv(o)' /\ AnswerInv(o)'
  BY DEF SkipInv, AnswerInv
<1>6. UndoneInv(o)'
  BY DEF UndoneInv, Pending
<1>7. ProcessingInv(o)' /\ CompletedInv(o)' /\ CancelledInv(o)'
  BY DEF ProcessingInv, CompletedInv, CancelledInv, Pending, Succeeded
<1> QED  BY <1>4, <1>5, <1>6, <1>7, OneOrder DEF SameAt, Row

(* process_inventory and process_logistic keep every part. *)
LEMMA ParallelOnce ==
    ASSUME TypeOK, SagaInv, OnceInv, NEW o \in Orders, NEW s \in Parallel,
           ProcessParallel(o, s), Outside
    PROVE  OnceInv'
<1>1. CASE ParallelCommit(o, s)
  BY <1>1, Sets, CommitOnce
  DEF ParallelCommit, Outside, schedVars, apiVars, StepColumns, StepGlobal
<1> QED
  BY <1>1, ParallelCallOnce, ParallelWriteOnce DEF ProcessParallel
-----------------------------------------------------------------------------
(* A step that lets jobs rest, start or end, and compensations forget what  *)
(* they asked for, but writes no row and asks no service.                   *)
QuietAt(o) ==
    /\ status'[o] = status[o] /\ global'[o] = global[o]
    /\ payment'[o] = payment[o] /\ svc'[o] = svc[o]
    /\ request'[o] = request[o] /\ admin'[o] = admin[o]
    /\ o \in deadSet' => Exists(o)
    /\ \A c \in CompJobs :
          /\ waiting'[o][c] \subseteq waiting[o][c]
          /\ ok'[o][c] \subseteq ok[o][c]
          /\ job'[o][c] = "undo" => job[o][c] = "undo"
          /\ job'[o][c] = "alert" => job[o][c] \in {"undo", "alert"}
    /\ \A s \in Steps :
          \/ job'[o][s] = job[o][s] /\ answer'[o][s] = answer[o][s]
          \/ /\ job[o][s] = "queued" /\ job'[o][s] = "call"
             /\ answer'[o][s] = answer[o][s]
          \/ /\ job[o][s] \in ForwardPc /\ job'[o][s] = "finish"
             /\ answer'[o][s] = "FAILED"
          \/ /\ job[o][s] = "finish" /\ job'[o][s] = "kept"
             /\ answer'[o][s] = answer[o][s]
          \/ /\ job[o][s] = "kept" /\ job'[o][s] = "absent"
             /\ answer'[o][s] = answer[o][s]

LEMMA QuietOnce ==
    ASSUME NEW o \in Orders, OnceAt(o), QuietAt(o)
    PROVE  OnceAt(o)'
<1> USE Sets DEF OnceAt, QuietAt, ForwardPc
<1>1. AheadInv(o)'
  BY DEF AheadInv, Ahead, StartInv
<1>2. StartInv(o)'
  BY DEF StartInv, Exists
<1>3. WriteInv(o)' /\ SkipInv(o)' /\ AnswerInv(o)'
  BY DEF WriteInv, SkipInv, AnswerInv
<1>4. UndoneInv(o)'
  BY DEF UndoneInv, Pending
<1>5. ProcessingInv(o)' /\ CompletedInv(o)' /\ CancelledInv(o)'
  BY DEF ProcessingInv, CompletedInv, CancelledInv, Pending, Succeeded
<1> QED  BY <1>1, <1>2, <1>3, <1>4, <1>5

(* The same for all orders at once. *)
LEMMA QuietAll ==
    ASSUME OnceInv, \A o \in Orders : QuietAt(o)
    PROVE  OnceInv'
  BY QuietOnce DEF OnceInv

(* Taking, finishing and forgetting jobs is quiet. *)
LEMMA WorkerOnce ==
    ASSUME TypeOK, OnceInv, NEW o \in Orders, NEW j \in JobIds,
           WorkerStep(o, j) \/ Expire(o, j) \/ SecondPasses(o)
    PROVE  OnceInv'
<1>1. /\ UNCHANGED <<status, global, payment, svc, answer, waiting, ok, request,
                      admin, deadSet>>
      /\ \A p \in Orders : p \in deadSet => Exists(p)
  BY DEF WorkerStep, Expire, SecondPasses, Outside, rowVars, taskVars,
         schedVars, apiVars, OnceInv, OnceAt, StartInv
<1>2. ASSUME NEW i \in JobIds, NEW to, Advance(o, i, to, {}),
             i \in CompJobs => to \notin {"undo", "alert"},
             i \in Steps => <<job[o][i], to>> \in {<<"queued", "call">>,
                               <<"finish", "kept">>, <<"kept", "absent">>}
      PROVE  OnceInv'
  <2>1. \A p \in Orders, k \in JobIds :
           job'[p][k] = job[p][k] \/ (p = o /\ k = i /\ job'[p][k] = to)
    <3>1. \A p \in Orders : p # o => job'[p] = job[p]
      BY <1>2, AdvanceIs
    <3>2. \A k \in JobIds : k # i => job'[o][k] = job[o][k]
      BY <1>2, AdvanceIs
    <3>3. job'[o][i] = to
      BY <1>2, AdvanceIs
    <3> QED  BY <3>1, <3>2, <3>3
  <2> QED  BY <1>1, <1>2, <2>1, Sets, QuietAll DEF QuietAt
<1>3. CASE Take(o, j)
  BY <1>2, <1>3, Sets DEF Take, EntryPc
<1>4. CASE Finish(o, j)
  BY <1>2, <1>4, Sets, StampedAssumption DEF Finish
<1>5. CASE ResultExpires(o, j)
  BY <1>2, <1>5, Sets DEF ResultExpires
<1>6. CASE NextSecond(o)
  <2>1. \A p \in Orders, i \in JobIds :
           \/ job'[p][i] = job[p][i]
           \/ job[p][i] = "deferred" /\ job'[p][i] = "queued"
    BY <1>6 DEF NextSecond, TypeOK, QueueTypeOK
  <2>2. \A p \in Orders, s \in Steps : job'[p][s] = job[p][s]
    BY <2>1, Sets DEF OnceInv, OnceAt, StartInv
  <2> QED  BY <1>1, <2>1, <2>2, Sets, QuietAll DEF QuietAt
<1> QED
  BY <1>3, <1>4, <1>5, <1>6 DEF WorkerStep, Expire, SecondPasses

(* What the poll enqueues is queued, under a timestamped id. *)
LEMMA DispatchIs ==
    ASSUME TypeOK, NEW o \in Orders, UNCHANGED queueVars \/ Dispatch(o)
    PROVE  \A p \in Orders, i \in JobIds :
              \/ job'[p][i] = job[p][i]
              \/ i \notin Steps /\ job'[p][i] = "queued"
<1>1. CASE UNCHANGED queueVars
  BY <1>1 DEF queueVars
<1>2. ASSUME NEW t \in Stamped, job[o][t] = "absent", Enqueue(o, t)
      PROVE  \A p \in Orders, i \in JobIds :
                \/ job'[p][i] = job[p][i]
                \/ i \notin Steps /\ job'[p][i] = "queued"
  <2>1. t \notin Steps /\ t \in JobIds
    BY StampedAssumption DEF JobIds, CompJobs
  <2>2. job' = [job EXCEPT ![o][t] = "queued"]
    BY <1>2, <2>1 DEF Enqueue, Enqueued, TypeOK, QueueTypeOK
  <2> QED  BY <2>1, <2>2 DEF TypeOK, QueueTypeOK
<1> QED  BY <1>1, <1>2 DEF Dispatch

(* The scheduler reads, enqueues and touches quietly; only its dead-order   *)
(* check writes a status, over orders that exist.                           *)
LEMMA SchedulerOnce ==
    ASSUME TypeOK, OnceInv, PollStep \/ DeadStep \/ SchedulerMishap
    PROVE  OnceInv'
<1>1. /\ UNCHANGED <<status, payment, svc, answer, waiting, ok, request, admin>>
      /\ \A p \in Orders : p \in deadSet => Exists(p)
  BY DEF PollStep, DeadStep, SchedulerMishap, PollRead, PollEnqueue, PollCommit,
         DeadRead, DeadCommit, SchedulerFails, PollEnqueueFails, rowVars,
         taskVars, apiVars, OnceInv, OnceAt, StartInv
<1>2. CASE /\ UNCHANGED <<global, job>>
           /\ deadSet' \subseteq deadSet \cup DeadOrders
  <2>1. \A p \in Orders : p \in deadSet' => Exists(p)
    BY <1>1, <1>2 DEF DeadOrders, Exists
  <2> QED  BY <1>1, <1>2, <2>1, QuietAll DEF QuietAt
<1>3. CASE DeadCommit
  <2>1. /\ UNCHANGED job /\ deadSet' = {}
        /\ \A p \in Orders : global'[p] \in {global[p], "MANUAL_INTERVENTION_REQUIRED"}
        /\ \A p \in Orders : ~Exists(p) => global'[p] = global[p]
    BY <1>1, <1>3 DEF DeadCommit, queueVars
  <2>2. ASSUME NEW p \in Orders  PROVE OnceAt(p)'
    <3>0. OnceAt(p)
      BY DEF OnceInv
    <3> USE <1>1, <2>1, <3>0 DEF OnceAt
    <3>1. AheadInv(p)'
      BY DEF AheadInv, Ahead
    <3>2. StartInv(p)'
      BY DEF StartInv, Exists
    <3>3. WriteInv(p)' /\ SkipInv(p)' /\ AnswerInv(p)' /\ UndoneInv(p)'
      BY DEF WriteInv, SkipInv, AnswerInv, UndoneInv, Pending
    <3>4. ProcessingInv(p)' /\ CompletedInv(p)' /\ CancelledInv(p)'
      BY DEF ProcessingInv, CompletedInv, CancelledInv, Pending, Succeeded
    <3> QED  BY <3>1, <3>2, <3>3, <3>4
  <2> QED  BY <2>2 DEF OnceInv
<1>4. ASSUME NEW o \in Orders, PollEnqueue(o) \/ PollEnqueueFails(o)
      PROVE  OnceInv'
  <2>1. UNCHANGED <<global, deadSet>>
    BY <1>4 DEF PollEnqueue, PollEnqueueFails, rowVars
  <2>2. \A p \in Orders, i \in JobIds :
           job'[p][i] = job[p][i] \/ (i \notin Steps /\ job'[p][i] = "queued")
    BY <1>4, DispatchIs DEF PollEnqueue, PollEnqueueFails
  <2> QED  BY <1>1, <2>1, <2>2, Sets, QuietAll DEF QuietAt
<1>5. CASE PollRead \/ PollCommit \/ DeadRead \/ SchedulerFails
  <2>1. /\ UNCHANGED <<global, job>>
        /\ deadSet' \in {deadSet, {}, DeadOrders}
    BY <1>5 DEF PollRead, PollCommit, DeadRead, SchedulerFails, rowVars, queueVars
  <2> QED  BY <1>2, <2>1
<1> QED
  BY <1>3, <1>4, <1>5 DEF PollStep, DeadStep, SchedulerMishap

(* Orders come to be, are enqueued, or are left without a job. *)
LEMMA ApiOnce ==
    ASSUME TypeOK, OnceInv, ApiCreate \/ ApiMishap \/ \E p \in Orders : ApiEnqueue(p)
    PROVE  OnceInv'
<1>1. UNCHANGED <<status, payment, svc, answer, waiting, ok, admin, deadSet>>
  BY DEF ApiCreate, ApiMishap, ApiEnqueue, CreateOrders, ApiFails,
         EnqueueBilling, rowVars, taskVars, schedVars
<1>2. ASSUME NEW S \in SUBSET Orders, CreateOrders(S), NEW p \in Orders
      PROVE  OnceAt(p)'
  <2>0. OnceAt(p)
    BY DEF OnceInv
  <2>1. /\ UNCHANGED job
        /\ p \notin S => request'[p] = request[p] /\ global'[p] = global[p]
        /\ p \in S => /\ request[p] = "none" /\ request'[p] = "committed"
                       /\ global'[p] = "PROCESSING"
    BY <1>2 DEF CreateOrders, queueVars
  <2> USE <1>1, <2>0, <2>1, Sets DEF OnceAt
  <2>2. AheadInv(p)'
    BY DEF AheadInv, Ahead
  <2>3. StartInv(p)'
    <3>1. CASE p \in S
      BY <3>1 DEF StartInv, Exists
    <3>2. CASE p \notin S
      BY <3>2 DEF StartInv, Exists
    <3> QED  BY <3>1, <3>2
  <2>4. WriteInv(p)' /\ SkipInv(p)' /\ AnswerInv(p)' /\ UndoneInv(p)'
    BY DEF WriteInv, SkipInv, AnswerInv, UndoneInv, Pending
  <2>5. ProcessingInv(p)' /\ CompletedInv(p)' /\ CancelledInv(p)'
    BY DEF ProcessingInv, CompletedInv, CancelledInv, Pending, Succeeded,
           AheadInv, Ahead, StartInv, Exists
  <2> QED  BY <2>2, <2>3, <2>4, <2>5
<1>3. ASSUME UNCHANGED <<global>>, NEW p \in Orders,
             request[p] # "none",
             request'[p] = "ended" \/ request'[p] = request[p],
             \A i \in JobIds : i # "billing" => job'[p][i] = job[p][i],
             \/ job'[p]["billing"] = job[p]["billing"]
             \/ /\ request[p] # "ended" /\ request'[p] = "ended"
                /\ job'[p]["billing"] = "queued"
      PROVE  OnceAt(p)'
  <2>0. OnceAt(p)
    BY DEF OnceInv
  <2> USE <1>1, <1>3, <2>0, Sets DEF OnceAt
  <2>2. AheadInv(p)'
    BY DEF AheadInv, Ahead
  <2>3. StartInv(p)'
    BY DEF StartInv, Exists
  <2>4. WriteInv(p)' /\ SkipInv(p)' /\ AnswerInv(p)' /\ UndoneInv(p)'
    BY DEF WriteInv, SkipInv, AnswerInv, UndoneInv, Pending
  <2>5. ProcessingInv(p)' /\ CompletedInv(p)' /\ CancelledInv(p)'
    BY DEF ProcessingInv, CompletedInv, CancelledInv, Pending, Succeeded
  <2> QED  BY <2>2, <2>3, <2>4, <2>5
<1>4. ASSUME NEW S \in SUBSET Orders, ApiFails(S), NEW p \in Orders
      PROVE  OnceAt(p)'
  <2>1. UNCHANGED <<global, job>> /\ request'[p] \in {request[p], "ended"}
        /\ (p \in S => request[p] = "committed")
        /\ (p \notin S => request'[p] = request[p])
    BY <1>4 DEF ApiFails, rowVars, queueVars
  <2>2. CASE p \in S
    BY <1>3, <2>1, <2>2
  <2>3. CASE p \notin S
    BY <1>1, <2>1, <2>3, Elsewhere DEF SameAt, Row, OnceInv
  <2> QED  BY <2>2, <2>3
<1>5. ASSUME NEW o \in Orders, EnqueueBilling(o)  PROVE OnceInv'
  <2>1. /\ UNCHANGED global
        /\ request[o] = "committed" /\ request'[o] = "ended"
        /\ \A p \in Orders : p # o => request'[p] = request[p] /\ job'[p] = job[p]
        /\ \A i \in JobIds : i # "billing" => job'[o][i] = job[o][i]
    BY <1>5
    DEF EnqueueBilling, Enqueue, rowVars, TypeOK, QueueTypeOK, ApiTypeOK
  <2>2. job[o]["billing"] = "absent"
    BY <2>1, Sets DEF OnceInv, OnceAt, StartInv
  <2>3. job'[o]["billing"] = "queued"
    BY <1>5, <2>2, Sets DEF EnqueueBilling, Enqueue, Enqueued, TypeOK, QueueTypeOK
  <2>4. OnceAt(o)'
    BY <1>3, <2>1, <2>3
  <2> QED  BY <1>1, <2>1, <2>4, OneOrder DEF SameAt, Row
<1> QED
  BY <1>2, <1>4, <1>5 DEF ApiCreate, ApiMishap, ApiEnqueue, OnceInv

(* The administrator and time. *)
LEMMA AdminOnce ==
    ASSUME TypeOK, OnceInv, NEW o \in Orders, AdminStep(o) \/ Elapse(o)
    PROVE  OnceInv'
<1>0. OnceAt(o)
  BY DEF OnceInv
<1>1. /\ UNCHANGED <<status, payment, svc, answer, waiting, ok, job, request, deadSet>>
      /\ \A p \in Orders : p # o => global'[p] = global[p] /\ admin'[p] = admin[p]
  BY DEF AdminStep, Elapse, ForceCancelRead, ForceCancelWrite, GrowOld, WriteRow,
         rowVars, queueVars, taskVars, apiVars, schedVars, TypeOK, TableTypeOK,
         ApiTypeOK
<1>2. \/ global'[o] = global[o] /\ admin'[o] = admin[o]
      \/ /\ global'[o] = global[o] /\ admin'[o] = "approved"
         /\ admin[o] # "forced" /\ Exists(o)
         /\ global[o] = "MANUAL_INTERVENTION_REQUIRED"
      \/ /\ admin[o] = "approved"
         /\ global'[o] = "CANCELLED" /\ admin'[o] = "forced"
  BY DEF AdminStep, Elapse, ForceCancelRead, ForceCancelWrite, GrowOld, WriteRow,
         rowVars, apiVars, TypeOK, TableTypeOK, ApiTypeOK, Exists
<1> USE <1>0, <1>1, <1>2, Sets DEF OnceAt
<1>3. AheadInv(o)'
  BY DEF AheadInv, Ahead
<1>4. StartInv(o)'
  BY DEF StartInv, Exists
<1>5. WriteInv(o)' /\ SkipInv(o)' /\ AnswerInv(o)' /\ UndoneInv(o)'
  BY DEF WriteInv, SkipInv, AnswerInv, UndoneInv, Pending
<1>6. ProcessingInv(o)' /\ CompletedInv(o)' /\ CancelledInv(o)'
  BY DEF ProcessingInv, CompletedInv, CancelledInv, Pending, Succeeded
<1> QED  BY <1>3, <1>4, <1>5, <1>6, OneOrder DEF SameAt, Row

(* What a compensation changes beyond its own order: nothing. *)
LEMMA CompensationIs ==
    ASSUME TypeOK, NEW o \in Orders, NEW c \in CompJobs, CompensationStep(o, c)
    PROVE  /\ UNCHANGED <<payment, answer, request, admin, deadSet>>
           /\ \A p \in Orders : p # o => SameAt(p)
<1>1. UNCHANGED <<payment, answer, request, admin, deadSet>>
  BY DEF CompensationStep, Outside, Compensation, CompensationRead,
         CompensationUndo, CompensationCancel, CompensationAlert,
         CompensationGiveUp, CompensationPartial, CompensationRequeue,
         taskVars, schedVars, apiVars
<1>2. \A p \in Orders : p # o =>
         /\ status'[p] = status[p] /\ global'[p] = global[p]
         /\ svc'[p] = svc[p]
  BY DEF CompensationStep, Compensation, CompensationRead,
         CompensationUndo, CompensationCancel, CompensationAlert,
         CompensationGiveUp, CompensationPartial, CompensationRequeue,
         WriteRow, Reopens, Serve, rowVars, TypeOK, TableTypeOK, ServicesTypeOK
<1>3. \A p \in Orders : p # o => waiting'[p] = waiting[p] /\ ok'[p] = ok[p]
  BY DEF CompensationStep, Compensation, CompensationRead,
         CompensationUndo, CompensationCancel, CompensationAlert,
         CompensationGiveUp, CompensationPartial, CompensationRequeue,
         taskVars, TypeOK, TasksTypeOK
<1>4. \A p \in Orders : p # o => job'[p] = job[p]
  <2>1. CASE \E s \in Steps : CompensationUndo(o, c, s)
    BY <2>1 DEF CompensationUndo, queueVars
  <2>2. CASE CompensationRequeue(o, c)
    BY <2>2, AdvanceIs DEF CompensationRequeue, TypeOK, QueueTypeOK
  <2>3. CASE \E to : Advance(o, c, to, {})
    BY <2>3, AdvanceIs
  <2> QED
    BY <2>1, <2>2, <2>3
    DEF CompensationStep, Compensation, CompensationRead, CompensationCancel,
        CompensationAlert, CompensationGiveUp, CompensationPartial
<1> QED  BY <1>1, <1>2, <1>3, <1>4 DEF SameAt, Row

(* An order whose steps are decided may be marked as rolling back, and what *)
(* shows SUCCESS be handed to a job to undo.                                *)
LEMMA ReopensOnce ==
    ASSUME TypeOK, OnceInv, NEW o \in Orders, NEW c \in CompJobs,
           ~Pending(o), Reopens(o), job'[o][c] \in {"undo", "finish"},
           \A i \in JobIds : i # c => job'[o][i] = job[o][i],
           \A d \in CompJobs :
              /\ waiting'[o][d] \subseteq waiting[o][d] \cup Succeeded(o)
              /\ ok'[o][d] \subseteq ok[o][d],
           UNCHANGED <<svc, answer, payment, request, admin, deadSet>>
    PROVE  OnceAt(o)'
<1>1. OnceAt(o) /\ UNCHANGED status /\ global'[o] = "COMPENSATING"
  BY DEF OnceInv, Reopens, TypeOK, TableTypeOK
<1> USE Sets, <1>1 DEF OnceAt
<1>2. AheadInv(o)' /\ WriteInv(o)' /\ SkipInv(o)' /\ AnswerInv(o)'
  BY DEF AheadInv, Ahead, WriteInv, SkipInv, AnswerInv
<1>3. StartInv(o)'
  BY DEF StartInv, Exists, AheadInv, Ahead, Pending
<1>4. UndoneInv(o)'
  BY DEF UndoneInv, Pending, Succeeded
<1>5. ProcessingInv(o)' /\ CompletedInv(o)' /\ CancelledInv(o)'
  BY DEF ProcessingInv, CompletedInv, CancelledInv
<1> QED  BY <1>2, <1>3, <1>4, <1>5

(* A compensation that starts finds every step decided, and says so before  *)
(* it asks a service for anything.                                          *)
LEMMA CompensationReadOnce ==
    ASSUME TypeOK, OnceInv, NEW o \in Orders, NEW c \in CompJobs,
           CompensationRead(o, c), UNCHANGED <<payment, request, admin, deadSet>>
    PROVE  OnceAt(o)'
<1>0. OnceAt(o)
  BY DEF OnceInv
<1>1. /\ UNCHANGED <<status, svc, answer, ok>>
      /\ job[o][c] = "read"
      /\ \A i \in JobIds : i # c => job'[o][i] = job[o][i]
      /\ \A d \in CompJobs : d # c => waiting'[o][d] = waiting[o][d]
  BY AdvanceIs, Sets
  DEF CompensationRead, Reopens, rowVars, TypeOK, TasksTypeOK
<1>2. CASE Pending(o)
  <2>1. job'[o][c] = "finish" /\ UNCHANGED <<global, waiting>>
    BY <1>2, AdvanceIs, Sets DEF CompensationRead, rowVars
  <2> QED
    BY <1>0, <1>1, <2>1, Sets, QuietOnce DEF QuietAt, OnceAt, StartInv
<1>3. CASE ~Pending(o)
  <2>1. job'[o][c] = "undo" /\ Reopens(o)
    BY <1>3, AdvanceIs, Sets DEF CompensationRead
  <2>2. waiting'[o][c] = Succeeded(o)
    BY <1>3 DEF CompensationRead, ToUndo, TypeOK, TasksTypeOK
  <2> QED  BY <1>1, <1>3, <2>1, <2>2, ReopensOnce
<1> QED  BY <1>2, <1>3

(* A service that undoes does so for an order whose steps are decided. *)
LEMMA CompensationUndoOnce ==
    ASSUME TypeOK, SagaInv, OnceInv, NEW o \in Orders, NEW c \in CompJobs,
           NEW s \in Steps, CompensationUndo(o, c, s),
           UNCHANGED <<payment, request, admin, deadSet>>
    PROVE  OnceAt(o)'
<1>0. OnceAt(o)
  BY DEF OnceInv
<1>1. /\ UNCHANGED <<status, global, job, answer>>
      /\ job[o][c] = "undo" /\ ~Pending(o)
      /\ s \in waiting[o][c]
      /\ \A t \in Steps : t # s => svc'[o][t] = svc[o][t]
      /\ svc'[o][s] \in {svc[o][s], "undone"}
  BY DEF CompensationUndo, Serve, rowVars, queueVars, SagaInv, DecidedInv,
         TypeOK, ServicesTypeOK
<1>2. /\ \A d \in CompJobs : waiting'[o][d] \subseteq waiting[o][d]
      /\ \A d \in CompJobs : d # c => ok'[o][d] = ok[o][d]
      /\ \A t \in Steps : t \in ok'[o][c] =>
            \/ t \in ok[o][c]
            \/ t = s /\ svc'[o][s] = "undone"
  BY DEF CompensationUndo, Serve, TypeOK, TasksTypeOK, ServicesTypeOK
<1>3. global[o] # "COMPLETED" /\ status[o][s] \in {"SUCCESS", "COMPENSATED"}
  BY <1>0, <1>1 DEF OnceAt, CompletedInv, UndoneInv
<1> USE Sets, <1>0, <1>1, <1>2, <1>3 DEF OnceAt
<1>4. AheadInv(o)'
  BY DEF AheadInv, Ahead, Pending
<1>5. StartInv(o)'
  BY DEF StartInv, Exists, WriteInv, Pending
<1>6. WriteInv(o)' /\ SkipInv(o)' /\ AnswerInv(o)'
  BY DEF WriteInv, SkipInv, AnswerInv
<1>7. UndoneInv(o)'
  BY DEF UndoneInv, Pending
<1>8. ProcessingInv(o)' /\ CompletedInv(o)' /\ CancelledInv(o)'
  BY DEF ProcessingInv, CompletedInv, CancelledInv, Pending, Succeeded
<1> QED  BY <1>4, <1>5, <1>6, <1>7, <1>8

(* What was undone is marked, and the order is cancelled, handed over or    *)
(* left as it is.                                                           *)
LEMMA CompensationSettleOnce ==
    ASSUME TypeOK, SagaInv, OnceInv, NEW o \in Orders, NEW c \in CompJobs,
           \/ CompensationCancel(o, c)
           \/ CompensationGiveUp(o, c)
           \/ CompensationPartial(o, c),
           UNCHANGED <<payment, request, admin, deadSet>>
    PROVE  OnceAt(o)'
<1>0. OnceAt(o)
  BY DEF OnceInv
<1>1. /\ UNCHANGED <<svc, answer, waiting>>
      /\ job[o][c] \in {"undo", "alert"}
      /\ \A i \in JobIds : i # c => job'[o][i] = job[o][i]
      /\ job'[o][c] \in {"finish", "requeue"}
      /\ \A d \in CompJobs : d # c => ok'[o][d] = ok[o][d]
      /\ ok'[o][c] = {}
  BY AdvanceIs, Sets
  DEF CompensationCancel, CompensationGiveUp, CompensationPartial, Answered,
      TypeOK, TasksTypeOK
<1>2. status'[o] = Settled(o, c)
  BY DEF CompensationCancel, CompensationGiveUp, CompensationPartial, WriteRow,
         TypeOK, TableTypeOK
<1>3. \A s \in Steps :
         /\ s \in ok[o][c] => status'[o][s] = "COMPENSATED"
         /\ s \notin ok[o][c] => status'[o][s] = status[o][s]
  BY <1>2 DEF Settled
<1>4. \/ /\ global'[o] = "CANCELLED" /\ ~Pending(o)
         /\ \A s \in Steps : status'[o][s] # "SUCCESS"
      \/ global'[o] = "MANUAL_INTERVENTION_REQUIRED"
      \/ global'[o] = global[o] /\ job[o][c] = "undo"
  BY <1>2
  DEF CompensationCancel, CompensationGiveUp, CompensationPartial, Answered,
      StillHeld, WriteRow, TypeOK, TableTypeOK, SagaInv, DecidedInv
<1>5. /\ global[o] \notin {"ABSENT", "PROCESSING"}
      /\ job[o][c] = "undo" => global[o] # "COMPLETED"
      /\ \A s \in Steps : s \in ok[o][c] =>
            ~Pending(o) /\ svc[o][s] = "undone"
  BY <1>0, <1>1 DEF OnceAt, ProcessingInv, CompletedInv, UndoneInv
<1> USE Sets, <1>0, <1>1, <1>3, <1>4, <1>5 DEF OnceAt
<1>6. AheadInv(o)'
  BY DEF AheadInv, Ahead, Pending
<1>7. StartInv(o)'
  BY DEF StartInv, Exists
<1>8. WriteInv(o)' /\ SkipInv(o)'
  BY DEF WriteInv, SkipInv, Pending
<1>9. AnswerInv(o)'
  BY DEF AnswerInv
<1>10. UndoneInv(o)'
  BY DEF UndoneInv, Pending
<1>11. ProcessingInv(o)' /\ CompletedInv(o)'
  BY DEF ProcessingInv, CompletedInv
<1>12. CancelledInv(o)'
  BY DEF CancelledInv, Pending, Succeeded
<1> QED  BY <1>6, <1>7, <1>8, <1>9, <1>10, <1>11, <1>12

(* compensation keeps every part. *)
LEMMA CompensationOnce ==
    ASSUME TypeOK, SagaInv, OnceInv, NEW o \in Orders, NEW c \in CompJobs,
           CompensationStep(o, c)
    PROVE  OnceInv'
<1>0. OnceAt(o)
  BY DEF OnceInv
<1>1. /\ UNCHANGED <<payment, answer, request, admin, deadSet>>
      /\ \A p \in Orders : p # o => SameAt(p)
  BY CompensationIs
<1>2. CASE CompensationAlert(o, c) \/ CompensationRequeue(o, c)
  <2>1. UNCHANGED <<status, global, svc, waiting, ok>>
    BY <1>2 DEF CompensationAlert, CompensationRequeue, rowVars, taskVars
  <2>2. \A i \in JobIds :
           \/ job'[o][i] = job[o][i]
           \/ i \notin Steps /\ job'[o][i] \in {"finish", "deferred"}
           \/ i \notin Steps /\ job[o][i] = "undo" /\ job'[o][i] = "alert"
    <3>1. CASE CompensationAlert(o, c)
      BY <3>1, AdvanceIs, Sets DEF CompensationAlert, Answered
    <3>2. CASE \E to \in {"finish", "deferred"} : Advance(o, c, to, {})
      BY <3>2, AdvanceIs, Sets
    <3>3. ASSUME NEW t \in Stamped,
                 job' = [job EXCEPT ![o][c] = "finish", ![o][t] = "deferred"]
          PROVE  \A i \in JobIds :
                    \/ job'[o][i] = job[o][i]
                    \/ i \notin Steps /\ job'[o][i] \in {"finish", "deferred"}
      <4>1. t \in JobIds /\ t \notin Steps
        BY StampedAssumption DEF JobIds, CompJobs
      <4> QED  BY <3>3, <4>1, Sets DEF TypeOK, QueueTypeOK
    <3> QED
      BY <1>2, <3>1, <3>2, <3>3 DEF CompensationRequeue, FreeStamps
  <2> QED
    BY <1>0, <1>1, <2>1, <2>2, Sets, QuietOnce, OneOrder
    DEF QuietAt, OnceAt, StartInv
<1>3. CASE CompensationRead(o, c)
  BY <1>1, <1>3, CompensationReadOnce, OneOrder
<1>4. CASE \E s \in Steps : CompensationUndo(o, c, s)
  BY <1>1, <1>4, CompensationUndoOnce, OneOrder
<1>5. CASE \/ CompensationCancel(o, c)
           \/ CompensationGiveUp(o, c)
           \/ CompensationPartial(o, c)
  BY <1>1, <1>5, CompensationSettleOnce, OneOrder
<1> QED
  BY <1>2, <1>3, <1>4, <1>5 DEF CompensationStep, Compensation

(* A forward job that ends early leaves its column as it is. *)
LEMMA StepEndsOnce ==
    ASSUME TypeOK, OnceInv, NEW o \in Orders, NEW s \in Steps,
           job[o][s] \in ForwardPc,
           NEW E \in SUBSET (Parallel \cup {"compensation"}),
           \A t \in E \cap Parallel :
              /\ s = "billing" /\ job[o][s] = "write"
              /\ answer[o][s] # "FAILED",
           Advance(o, s, "finish", E), Forget(o, s),
           UNCHANGED <<status, global, payment, svc, waiting, ok, request,
                       admin, deadSet>>
    PROVE  OnceInv'
<1>0. OnceAt(o)
  BY DEF OnceInv
<1>1. /\ \A p \in Orders : p # o => job'[p] = job[p] /\ answer'[p] = answer[p]
      /\ answer'[o][s] = "FAILED"
      /\ \A t \in Steps : t # s => answer'[o][t] = answer[o][t]
  BY AdvanceIs DEF Forget, TypeOK, TasksTypeOK
<1>2. /\ job'[o][s] = "finish"
      /\ \A i \in JobIds : i # s =>
            \/ job'[o][i] = job[o][i]
            \/ i \in E /\ job[o][i] = "absent" /\ job'[o][i] = "queued"
  BY AdvanceIs, Sets
<1>3. CASE \A t \in Parallel : t \in E => t = s
  <2>1. \A c \in CompJobs :
           /\ job'[o][c] = "undo" => job[o][c] = "undo"
           /\ job'[o][c] = "alert" => job[o][c] = "alert"
    BY <1>2, Sets
  <2>2. \A t \in Steps : t # s => job'[o][t] = job[o][t]
    BY <1>2, <1>3, Sets
  <2>3. QuietAt(o)
    BY <1>0, <1>1, <1>2, <2>1, <2>2, Sets DEF QuietAt, OnceAt, StartInv
  <2> QED  BY <1>0, <1>1, <2>3, QuietOnce, OneOrder DEF SameAt, Row
<1>4. CASE /\ s = "billing" /\ job[o][s] = "write"
           /\ answer[o][s] # "FAILED"
  <2>1. \A c \in CompJobs :
           job'[o][c] \in {"undo", "alert"} => job'[o][c] = job[o][c]
    BY <1>2, <1>4, Sets
  <2>2. \A t \in Parallel :
           job[o][t] = "absent" /\ job'[o][t] \in {"absent", "queued"}
    BY <1>0, <1>2, <1>4, Sets DEF OnceAt, StartInv
  <2> USE Sets, <1>0, <1>1, <1>2, <1>4, <2>1, <2>2 DEF OnceAt
  <2>3. /\ \A t \in Parallel :
              Ahead(o, t) /\ status[o][t] = "PENDING" /\ svc[o][t] = "none"
        /\ request[o] = "ended"
    BY DEF AheadInv, Ahead, StartInv
  <2>4. AheadInv(o)'
    BY <2>3 DEF AheadInv, Ahead
  <2>5. StartInv(o)'
    BY <2>3 DEF StartInv, Exists
  <2>6. WriteInv(o)' /\ SkipInv(o)' /\ AnswerInv(o)'
    BY <2>3 DEF WriteInv, SkipInv, AnswerInv
  <2>7. UndoneInv(o)'
    BY DEF UndoneInv, Pending
  <2>8. ProcessingInv(o)' /\ CompletedInv(o)' /\ CancelledInv(o)'
    BY DEF ProcessingInv, CompletedInv, CancelledInv, Pending, Succeeded
  <2> QED  BY <1>1, <2>4, <2>5, <2>6, <2>7, <2>8, OneOrder DEF SameAt, Row
<1> QED  BY <1>3, <1>4, Sets

(* A job that is broken off starts the parallel steps only where billing    *)
(* has been charged or skipped.                                             *)
LEMMA MaySendIs ==
    ASSUME NEW o \in Orders, NEW s \in Steps
    PROVE  /\ MaySend(o, s) \subseteq Parallel \cup {"compensation"}
           /\ \A t \in MaySend(o, s) \cap Parallel :
                 /\ s = "billing" /\ job[o][s] = "write"
                 /\ answer[o][s] # "FAILED"
  BY Sets DEF MaySend, StepJobs, BillingJobs, ParallelJobs

(* The infrastructure may fail a job anywhere but at its delivery. *)
LEMMA WorkerMishapOnce ==
    ASSUME NoCrash, TypeOK, SagaInv, OnceInv, WorkerMishap
    PROVE  OnceInv'
<1>1. UNCHANGED <<payment, svc, request, admin, deadSet>>
  BY DEF NoCrash, WorkerMishap, Mishap, StepFails, CompensationFails,
         StepTimeout, CompensationTimeout, Outside, schedVars, apiVars
<1>2. ASSUME NEW o \in Orders, NEW s \in Steps, StepFails(o, s)
      PROVE  OnceInv'
  <2>1. PICK E \in SUBSET (MaySend(o, s) \cup {"compensation"}) :
           Advance(o, s, "finish", E)
    BY <1>2 DEF StepFails
  <2>2. /\ E \in SUBSET (Parallel \cup {"compensation"})
        /\ \A t \in E \cap Parallel :
              /\ s = "billing" /\ job[o][s] = "write"
              /\ answer[o][s] # "FAILED"
    BY MaySendIs, Sets
  <2>3. Forget(o, s) /\ UNCHANGED <<waiting, ok>> /\ job[o][s] \in ForwardPc
    BY <1>2 DEF StepFails, ForwardPc
  <2>4. CASE UNCHANGED rowVars
    BY <1>1, <2>1, <2>2, <2>3, <2>4, StepEndsOnce DEF rowVars
  <2>5. CASE /\ job[o][s] = "commit"
             /\ WriteRow(o, StepColumns(o, s), StepGlobal(o, s))
    <3>1. E \subseteq {"compensation"}
      BY <2>1, <2>5 DEF MaySend
    <3> QED  BY <1>1, <2>1, <2>3, <2>5, <3>1, CommitOnce
  <2> QED  BY <1>2, <2>4, <2>5 DEF StepFails
<1>3. ASSUME NEW o \in Orders, NEW s \in Steps, StepTimeout(o, s)
      PROVE  OnceInv'
  <2>1. PICK E \in SUBSET MaySend(o, s) : Advance(o, s, "finish", E)
    BY <1>3 DEF StepTimeout
  <2>2. /\ E \in SUBSET (Parallel \cup {"compensation"})
        /\ \A t \in E \cap Parallel :
              /\ s = "billing" /\ job[o][s] = "write"
              /\ answer[o][s] # "FAILED"
    BY MaySendIs, Sets
  <2> QED  BY <1>1, <1>3, <2>1, <2>2, StepEndsOnce DEF StepTimeout, rowVars
<1>4. ASSUME NEW o \in Orders, NEW c \in CompJobs,
             CompensationFails(o, c) \/ CompensationTimeout(o, c)
      PROVE  OnceInv'
  <2>0. OnceAt(o)
    BY DEF OnceInv
  <2>1. /\ UNCHANGED <<status, answer>>
        /\ \A p \in Orders : p # o =>
              /\ global'[p] = global[p]
              /\ job'[p] = job[p] /\ waiting'[p] = waiting[p] /\ ok'[p] = ok[p]
        /\ \A d \in CompJobs : /\ waiting'[o][d] \subseteq waiting[o][d]
                               /\ ok'[o][d] \subseteq ok[o][d]
    <3>1. /\ UNCHANGED <<status, answer>>
          /\ \A p \in Orders : p # o => global'[p] = global[p]
      BY <1>4
      DEF CompensationFails, CompensationTimeout, Reopens, rowVars, TypeOK,
          TableTypeOK
    <3>2. \A p \in Orders : p # o => job'[p] = job[p]
      BY <1>4, AdvanceIs DEF CompensationFails, CompensationTimeout
    <3>3. \A p \in Orders : p # o => waiting'[p] = waiting[p] /\ ok'[p] = ok[p]
      BY <1>4
      DEF CompensationFails, CompensationTimeout, TypeOK, TasksTypeOK
    <3>4. \A d \in CompJobs : /\ waiting'[o][d] \subseteq waiting[o][d]
                              /\ ok'[o][d] \subseteq ok[o][d]
      <4>1. CASE CompensationFails(o, c)
        BY <4>1 DEF CompensationFails, TypeOK, TasksTypeOK
      <4>2. CASE CompensationTimeout(o, c)
        BY <4>2 DEF CompensationTimeout, TypeOK, TasksTypeOK
      <4> QED  BY <1>4, <4>1, <4>2
    <3> QED  BY <3>1, <3>2, <3>3, <3>4
  <2>2. \A i \in JobIds :
           job'[o][i] = job[o][i] \/ (i = c /\ job'[o][i] = "finish")
    BY <1>4, AdvanceIs, Sets DEF CompensationFails, CompensationTimeout
  <2>3. CASE UNCHANGED global
    <3>1. QuietAt(o)
      BY <1>1, <2>0, <2>1, <2>2, <2>3, Sets DEF QuietAt, OnceAt, StartInv
    <3> QED
      BY <1>1, <2>0, <2>1, <2>3, <3>1, QuietOnce, OneOrder DEF SameAt, Row
  <2>4. CASE ~Pending(o) /\ Reopens(o)
    <3>1. job'[o][c] = "finish"
      BY <1>4, AdvanceIs, Sets DEF CompensationFails, CompensationTimeout
    <3>2. \A d \in CompJobs :
             /\ waiting'[o][d] \subseteq waiting[o][d] \cup Succeeded(o)
             /\ ok'[o][d] \subseteq ok[o][d]
      BY <2>1
    <3>3. OnceAt(o)'
      BY <1>1, <2>1, <2>2, <2>4, <3>1, <3>2, ReopensOnce
    <3> QED  BY <1>1, <2>1, <3>3, OneOrder DEF SameAt, Row
  <2> QED
    BY <1>4, <2>3, <2>4 DEF CompensationFails, CompensationTimeout, rowVars
<1> QED
  BY <1>2, <1>3, <1>4 DEF NoCrash, WorkerMishap, Mishap

(* Every step keeps every part. *)
LEMMA OnceStep ==
    ASSUME NoCrash, TypeOK, SagaInv, OnceInv, Next
    PROVE  OnceInv'
<1>1. ASSUME NEW o \in Orders, InventoryStep(o) \/ LogisticStep(o)
      PROVE  OnceInv'
  BY <1>1, Sets, ParallelOnce
  DEF InventoryStep, LogisticStep, ProcessInventory, ProcessLogistic
<1>2. ASSUME NEW o \in Orders, BillingStep(o)  PROVE OnceInv'
  BY <1>2, BillingOnce
<1>3. ASSUME NEW o \in Orders, NEW c \in CompJobs, CompensationStep(o, c)
      PROVE  OnceInv'
  BY <1>3, CompensationOnce
<1>4. ASSUME NEW o \in Orders,
             \/ \E j \in JobIds : WorkerStep(o, j) \/ Expire(o, j)
             \/ SecondPasses(o)
      PROVE  OnceInv'
  <2>1. "compensation" \in JobIds
    BY DEF JobIds, CompJobs
  <2> QED  BY <1>4, <2>1, WorkerOnce
<1>5. ASSUME PollStep \/ DeadStep \/ SchedulerMishap  PROVE OnceInv'
  BY <1>5, SchedulerOnce
<1>6. ASSUME ApiCreate \/ ApiMishap \/ \E o \in Orders : ApiEnqueue(o)
      PROVE  OnceInv'
  BY <1>6, ApiOnce
<1>7. ASSUME NEW o \in Orders, AdminStep(o) \/ Elapse(o)  PROVE OnceInv'
  BY <1>7, AdminOnce
<1>8. ASSUME WorkerMishap  PROVE OnceInv'
  BY <1>8, WorkerMishapOnce
<1> QED
  BY <1>1, <1>2, <1>3, <1>4, <1>5, <1>6, <1>7, <1>8 DEF Next

LEMMA OnceStutter ==
    ASSUME OnceInv, UNCHANGED vars
    PROVE  OnceInv'
  BY Elsewhere
  DEF OnceInv, SameAt, Row, vars, rowVars, queueVars, taskVars, schedVars, apiVars

LEMMA OnceInit == Init => OnceInv
<1> SUFFICES ASSUME Init, NEW o \in Orders  PROVE OnceAt(o)
  BY DEF OnceInv
<1> USE Sets
     DEF Init, TableInit, QueueInit, ServicesInit, TasksInit, SchedulerInit,
         ApiInit, NoAnswers, NoRequests
<1>1. AheadInv(o) /\ StartInv(o)
  BY DEF AheadInv, Ahead, StartInv, Exists
<1>2. WriteInv(o) /\ SkipInv(o) /\ AnswerInv(o) /\ UndoneInv(o)
  BY DEF WriteInv, SkipInv, AnswerInv, UndoneInv
<1>3. ProcessingInv(o) /\ CompletedInv(o) /\ CancelledInv(o)
  BY DEF ProcessingInv, CompletedInv, CancelledInv
<1> QED  BY <1>1, <1>2, <1>3 DEF OnceAt
-----------------------------------------------------------------------------
(* As long as no job is delivered twice, every order keeps the order of its *)
(* steps: a step ahead is untouched, billing comes before the others, what  *)
(* a status claims is true of the services.                                 *)
THEOREM OnceInvariant ==
    ASSUME NoCrash
    PROVE  Spec => []OnceInv
<1>1. TypeOK /\ SagaInv /\ OnceInv /\ [Next]_vars => OnceInv'
  BY OnceStep, OnceStutter
<1>2. Init => OnceInv
  BY OnceInit
<1> QED  BY <1>1, <1>2, TypeCorrect, SagaInvariant, PTL DEF Spec

(* COMPLETED is shown only while every service the order needs holds its    *)
(* part: by the commit of the last parallel step all are done, and a        *)
(* compensation takes COMPLETED back before it asks for anything.           *)
THEOREM CompletedWhole ==
    ASSUME NoCrash
    PROVE  Spec => []CompletedIsWhole
<1>1. OnceInv => CompletedIsWhole
  BY Sets DEF OnceInv, OnceAt, CompletedInv, CompletedIsWhole
<1> QED  BY <1>1, OnceInvariant, PTL

(* A step marked COMPENSATED has been undone at its service, and stays so.  *)
THEOREM CompensatedUndone ==
    ASSUME NoCrash
    PROVE  Spec => []CompensatedIsUndone
<1>1. OnceInv => CompensatedIsUndone
  BY DEF OnceInv, OnceAt, UndoneInv, CompensatedIsUndone
<1> QED  BY <1>1, OnceInvariant, PTL

(* The two parallel steps never both miss the end: an order that is still   *)
(* PROCESSING waits for a step, so the poll will find it.                   *)
THEOREM ProcessingAttended ==
    ASSUME NoCrash
    PROVE  Spec => []ProcessingIsAttended
<1>1. OnceInv => ProcessingIsAttended
  BY DEF OnceInv, OnceAt, ProcessingInv, ProcessingIsAttended
<1> QED  BY <1>1, OnceInvariant, PTL

(* As long as no answer is lost either, an order the saga CANCELLED leaves  *)
(* nothing charged, reserved or arranged.                                   *)
THEOREM CancelledClean ==
    ASSUME NoCrash, ~Lossy
    PROVE  Spec => []CancelledIsClean
<1>1. OnceInv => CancelledIsClean
  BY DEF OnceInv, OnceAt, CancelledInv, AnswerInv, Pending, Succeeded,
         CancelledIsClean
<1> QED  BY <1>1, OnceInvariant, PTL
=============================================================================
