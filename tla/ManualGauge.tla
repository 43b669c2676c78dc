----------------------------- MODULE ManualGauge -----------------------------
(***************************************************************************)
(* saga_manual_intervention_required_current: the gauge of the orders that *)
(* await an administrator.  It lives in the scheduler process and is set   *)
(* from a COUNT over the orders table, by each poll, by each dead-order    *)
(* check and by the jobs that force-cancel enqueues in saga:scheduler.     *)
(* Two of these jobs run at a time, and each takes its count some awaits   *)
(* before it sets the gauge.                                               *)
(*                                                                         *)
(* A job under the id of the present second is enqueued once, since arq    *)
(* knows the id as long as the job waits or runs or its result is kept.    *)
(***************************************************************************)
EXTENDS Integers, FiniteSets

CONSTANTS
    Orders,
    Jobs,         \* slots for the jobs of the queue saga:scheduler
    MaxJobs,      \* SchedulerWorkerSettings.max_jobs
    MaxMishaps    \* failures of a job and restarts of the scheduler, in all

VARIABLES
    manual,     \* the orders in MANUAL_INTERVENTION_REQUIRED
    gauge,
    job,        \* where each job stands
    count,      \* what it has counted
    owed,       \* the force-cancels that have committed and not yet enqueued
    idTaken,    \* the present second's sync id is in use
    mishaps

vars == <<manual, gauge, job, count, owed, idTaken, mishaps>>

ASSUME OrdersAssumption == IsFiniteSet(Orders)
ASSUME BoundsAssumption == MaxJobs \in Nat \ {0} /\ MaxMishaps \in Nat

TypeOK ==
    /\ manual \in SUBSET Orders
    /\ gauge \in 0 .. Cardinality(Orders)
    /\ job \in [Jobs -> {"free", "queued", "counting", "setting"}]
    /\ count \in [Jobs -> 0 .. Cardinality(Orders)]
    /\ owed \in SUBSET Orders
    /\ idTaken \in BOOLEAN
    /\ mishaps \in 0 .. MaxMishaps

Init ==
    /\ manual = {}
    /\ gauge = 0
    /\ job = [j \in Jobs |-> "free"]
    /\ count = [j \in Jobs |-> 0]
    /\ owed = {}
    /\ idTaken = FALSE
    /\ mishaps = 0

Running == {j \in Jobs : job[j] \in {"counting", "setting"}}

Move(j, to) == job' = [job EXCEPT ![j] = to]
-----------------------------------------------------------------------------
(* The worker's compensation and the dead-order check hand an order over,   *)
(* and a compensation that starts late takes it back.                       *)
HandOver(o) ==
    /\ o \notin manual
    /\ manual' = manual \cup {o}
    /\ UNCHANGED <<gauge, job, count, owed, idTaken, mishaps>>

TakeBack(o) ==
    /\ o \in manual
    /\ manual' = manual \ {o}
    /\ UNCHANGED <<gauge, job, count, owed, idTaken, mishaps>>

(* The commit of force-cancel, and then its enqueue, which is dropped if    *)
(* the id is in use.                                                        *)
ForceCancel(o) ==
    /\ o \in manual \ owed
    /\ manual' = manual \ {o}
    /\ owed' = owed \cup {o}
    /\ UNCHANGED <<gauge, job, count, idTaken, mishaps>>

EnqueueSync(o, j) ==
    /\ o \in owed
    /\ ~idTaken
    /\ job[j] = "free"
    /\ Move(j, "queued")
    /\ idTaken' = TRUE
    /\ owed' = owed \ {o}
    /\ UNCHANGED <<manual, gauge, count, mishaps>>

(* The id is in use, or the API dies. *)
SyncDropped(o) ==
    /\ o \in owed
    /\ owed' = owed \ {o}
    /\ UNCHANGED <<manual, gauge, job, count, idTaken, mishaps>>

NextSecond ==
    /\ idTaken
    /\ idTaken' = FALSE
    /\ UNCHANGED <<manual, gauge, job, count, owed, mishaps>>

(* The next poll or dead-order check is due. *)
Cron(j) ==
    /\ job[j] = "free"
    /\ Move(j, "queued")
    /\ UNCHANGED <<manual, gauge, count, owed, idTaken, mishaps>>

Take(j) ==
    /\ job[j] = "queued"
    /\ Cardinality(Running) < MaxJobs
    /\ Move(j, "counting")
    /\ UNCHANGED <<manual, gauge, count, owed, idTaken, mishaps>>

(* A mutant: an order is counted until its force-cancel has been synced. *)
CountOwed(j) ==
    /\ job[j] = "counting"
    /\ count' = [count EXCEPT ![j] = Cardinality(manual \cup owed)]
    /\ Move(j, "setting")
    /\ UNCHANGED <<manual, gauge, owed, idTaken, mishaps>>

(* The SELECT of sync_manual_intervention_gauge. *)
Count(j) ==
    /\ job[j] = "counting"
    /\ count' = [count EXCEPT ![j] = Cardinality(manual)]
    /\ Move(j, "setting")
    /\ UNCHANGED <<manual, gauge, owed, idTaken, mishaps>>

(* Mutants: a count of 0 is not set; the count is added. *)
SetPositive(j) ==
    /\ job[j] = "setting"
    /\ gauge' = IF count[j] = 0 THEN gauge ELSE count[j]
    /\ Move(j, "free")
    /\ count' = [count EXCEPT ![j] = 0]
    /\ UNCHANGED <<manual, owed, idTaken, mishaps>>
AddToGauge(j) ==
    /\ job[j] = "setting"
    /\ gauge' = gauge + count[j]
    /\ Move(j, "free")
    /\ count' = [count EXCEPT ![j] = 0]
    /\ UNCHANGED <<manual, owed, idTaken, mishaps>>

SetGauge(j) ==
    /\ job[j] = "setting"
    /\ gauge' = count[j]
    /\ Move(j, "free")
    /\ count' = [count EXCEPT ![j] = 0]
    /\ UNCHANGED <<manual, owed, idTaken, mishaps>>

(* The database raises: the poll, or the check, ends without a count. *)
JobFails(j) ==
    /\ job[j] = "counting"
    /\ mishaps < MaxMishaps
    /\ mishaps' = mishaps + 1
    /\ Move(j, "free")
    /\ UNCHANGED <<manual, gauge, count, owed, idTaken>>

(* The scheduler starts anew: its metrics are at 0, its jobs run again. *)
Restart ==
    /\ mishaps < MaxMishaps
    /\ mishaps' = mishaps + 1
    /\ gauge' = 0
    /\ job' = [j \in Jobs |-> IF j \in Running THEN "queued" ELSE job[j]]
    /\ count' = [j \in Jobs |-> 0]
    /\ UNCHANGED <<manual, owed, idTaken>>

Next ==
    \/ \E o \in Orders :
          \/ HandOver(o)
          \/ TakeBack(o)
          \/ ForceCancel(o)
          \/ SyncDropped(o)
          \/ \E j \in Jobs : EnqueueSync(o, j)
    \/ \E j \in Jobs :
          \/ Cron(j)
          \/ Take(j)
          \/ Count(j)
          \/ SetGauge(j)
          \/ JobFails(j)
    \/ NextSecond
    \/ Restart

Spec == Init /\ [][Next]_vars

(* Cron comes round, and the jobs it starts run.  No enqueue of force-      *)
(* cancel's is counted on.                                                  *)
Fairness ==
    /\ WF_vars(\E j \in Jobs : Cron(j))
    /\ \A j \in Jobs : WF_vars(Take(j)) /\ WF_vars(Count(j) \/ SetGauge(j))

FairSpec == Spec /\ Fairness
-----------------------------------------------------------------------------
(* The gauge shows the table, and so does every count about to be set. *)
Synced ==
    /\ gauge = Cardinality(manual)
    /\ \A j \in Jobs : job[j] = "setting" => count[j] = Cardinality(manual)

(* A gauge that shows the table, with no older count on its way, goes on    *)
(* showing it until an order comes or goes, a job fails or the scheduler    *)
(* restarts: no job's set undoes another's.                                 *)
GaugeStaysTrue ==
    [][Synced /\ UNCHANGED <<manual, mishaps>> => Synced']_vars

(* Once the orders that need an administrator stay the same, the gauge      *)
(* comes to show how many they are, and no older count replaces it again.   *)
GaugeSettles ==
    \A S \in SUBSET Orders :
        <>[](manual = S) => <>[](gauge = Cardinality(S))
=============================================================================
