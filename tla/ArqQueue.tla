------------------------------ MODULE ArqQueue ------------------------------
(***************************************************************************)
(* The saga:tasks queue in Redis and the arq worker that serves it, as the *)
(* code in src/ uses them.                                                 *)
(*                                                                         *)
(* A job is known by its _job_id.  Each order has four fixed ids, one per  *)
(* step and "compensation:{id}", and the timestamped ids                   *)
(* "compensation:{id}:{ts}", of which Stamped bounds how many are alive at *)
(* once.  An enqueue is dropped while the queue still knows the id, be it  *)
(* because the job waits or runs or because its result is kept.            *)
(*                                                                         *)
(* A job that is taken runs through the states of its coroutine, one for   *)
(* each await after which another coroutine may have changed the world.    *)
(***************************************************************************)
EXTENDS OrderTable

CONSTANTS
    Stamped,   \* slots for the timestamped compensation jobs of an order
    MaxJobs,   \* SagaWorkerSettings.max_jobs
    MaxRetry,  \* the retry_count at which compensation gives up
    Bursts     \* an order's timestamped jobs may be enqueued within a second

VARIABLES
    job,          \* the state of each job
    retry,        \* the retry_count argument of each compensation job
    stampTaken    \* an id with the present second is in use for the order

queueVars == <<job, retry, stampTaken>>

CompJobs == {"compensation"} \cup Stamped
JobIds == Steps \cup CompJobs

Resting == {"absent", "deferred", "queued", "kept"}
ForwardPc == {"call", "write", "commit"}
CompensationPc == {"read", "undo", "alert", "requeue"}
JobState == Resting \cup ForwardPc \cup CompensationPc \cup {"finish"}

ASSUME StampedAssumption ==
    Stamped \cap (Steps \cup {"compensation"}) = {}
ASSUME MaxAssumption == MaxJobs \in Nat \ {0} /\ MaxRetry \in Nat
ASSUME BurstsAssumption == Bursts \in BOOLEAN

QueueTypeOK ==
    /\ job \in [Orders -> [JobIds -> JobState]]
    /\ retry \in [Orders -> [CompJobs -> 0 .. MaxRetry]]
    /\ stampTaken \in [Orders -> BOOLEAN]

QueueInit ==
    /\ job = [o \in Orders |-> [j \in JobIds |-> "absent"]]
    /\ retry = [o \in Orders |-> [c \in CompJobs |-> 0]]
    /\ stampTaken = [o \in Orders |-> FALSE]

Running(o, j) == job[o][j] \notin Resting
Live(o, j) == job[o][j] \notin {"absent", "kept"}

(* enqueue_job drops an id it still knows. *)
Enqueued(st) == IF st = "absent" THEN "queued" ELSE st

(* Job j of order o moves to state `to` and enqueues the fixed ids in E. *)
Advance(o, j, to, E) ==
    job' = [job EXCEPT ![o] =
               [i \in JobIds |-> IF i = j THEN to
                                 ELSE IF i \in E THEN Enqueued(job[o][i])
                                 ELSE job[o][i]]]

(* enqueue_job("process_billing", _job_id=f"billing_{id}") by the API. *)
Enqueue(o, j) ==
    job' = [job EXCEPT ![o][j] = Enqueued(@)]

(* An enqueue under the present second's id finds that id in use. *)
Collides(o) == Bursts /\ stampTaken[o]

(* A mutant: the steps read their row without FOR UPDATE. *)
RowLockedByAlert(o) == \E j \in CompJobs : job[o][j] = "alert"

(* A coroutine waits in a transaction that holds the row's FOR UPDATE lock. *)
RowLocked(o) == \E j \in JobIds : job[o][j] \in {"commit", "alert"}

EntryPc(j) == IF j \in Steps THEN "call" ELSE "read"

(* The worker starts a job, at most MaxJobs at a time. *)
Take(o, j) ==
    /\ job[o][j] = "queued"
    /\ Cardinality({p \in Orders \X JobIds : Running(p[1], p[2])}) < MaxJobs
    /\ Advance(o, j, EntryPc(j), {})
    /\ UNCHANGED <<retry, stampTaken>>

(* The function returned or raised, and arq stores its result.  A kept      *)
(* result of a timestamped id can never be asked for again.                 *)
Finish(o, j) ==
    /\ job[o][j] = "finish"
    /\ Advance(o, j, IF j \in Stamped THEN "absent" ELSE "kept", {})
    /\ retry' = IF j \in Stamped THEN [retry EXCEPT ![o][j] = 0] ELSE retry
    /\ UNCHANGED stampTaken

(* keep_result passes, an hour by default. *)
ResultExpires(o, j) ==
    /\ job[o][j] = "kept"
    /\ Advance(o, j, "absent", {})
    /\ UNCHANGED <<retry, stampTaken>>

(* int(timestamp()) moves on.  A job deferred by 15 seconds may run from    *)
(* some later second on, never in the one its id names.                     *)
NextSecond(o) ==
    /\ stampTaken[o]
    /\ stampTaken' = [stampTaken EXCEPT ![o] = FALSE]
    /\ job' = [job EXCEPT ![o] =
                  [j \in JobIds |-> IF job[o][j] = "deferred" THEN "queued"
                                    ELSE job[o][j]]]
    /\ UNCHANGED retry

(* The worker process dies: every job it ran is delivered again. *)
RedeliverAll ==
    /\ \E o \in Orders, j \in JobIds : Running(o, j)
    /\ job' = [o \in Orders |-> [j \in JobIds |->
                  IF Running(o, j) THEN "queued" ELSE job[o][j]]]
    /\ UNCHANGED <<retry, stampTaken>>
=============================================================================
