----------------------------- MODULE Scheduler ------------------------------
(***************************************************************************)
(* The two cron jobs of the scheduler worker.  Each reads a set of rows    *)
(* without locking them, awaits Redis or Slack for each row, and commits   *)
(* what it decided from that first read.  arq runs one instance of each at *)
(* a time (unique cron jobs, max_jobs = 2).                                *)
(***************************************************************************)
EXTENDS ArqQueue

VARIABLES
    polling,   \* poll_and_dispatch_orders is between its read and its commit
    pollSet,   \* the stuck orders it read and has not handled yet
    touched,   \* those whose updated_at it has set in its session
    deadSet    \* the orders check_and_alert_dead_orders read, {} when idle

schedVars == <<polling, pollSet, touched, deadSet>>

SchedulerTypeOK ==
    /\ polling \in BOOLEAN
    /\ pollSet \in SUBSET Orders
    /\ touched \in SUBSET Orders
    /\ deadSet \in SUBSET Orders

SchedulerInit ==
    /\ polling = FALSE
    /\ pollSet = {}
    /\ touched = {}
    /\ deadSet = {}

(* get_stuck_orders_for_compensation.  A poll that finds nothing changes    *)
(* nothing.                                                                 *)
PollRead ==
    /\ ~polling
    /\ StuckOrders # {}
    /\ polling' = TRUE
    /\ pollSet' = StuckOrders
    /\ UNCHANGED <<rowVars, queueVars, touched, deadSet>>

(* Enqueue a first attempt under an id of the present second, or find that  *)
(* id taken.                                                                *)
Dispatch(o) ==
    \/ Collides(o) /\ UNCHANGED queueVars
    \/ /\ ~stampTaken[o]
       /\ \E t \in Stamped :
             /\ job[o][t] = "absent"
             /\ Enqueue(o, t)
       /\ stampTaken' = [stampTaken EXCEPT ![o] = TRUE]
       /\ UNCHANGED retry

(* updated_at is set in the session either way. *)
PollEnqueue(o) ==
    /\ o \in pollSet
    /\ Dispatch(o)
    /\ pollSet' = pollSet \ {o}
    /\ touched' = touched \cup {o}
    /\ UNCHANGED <<rowVars, polling, deadSet>>

(* Redis raises for one order, perhaps after the enqueue: it is skipped,    *)
(* and its updated_at stays.                                                *)
PollEnqueueFails(o) ==
    /\ o \in pollSet
    /\ UNCHANGED queueVars \/ Dispatch(o)
    /\ pollSet' = pollSet \ {o}
    /\ UNCHANGED <<rowVars, polling, touched, deadSet>>

(* One commit for every order handled: it waits for their row locks. *)
PollCommit ==
    /\ polling
    /\ pollSet = {}
    /\ \A o \in touched : ~RowLocked(o)
    /\ Touch(touched)
    /\ polling' = FALSE
    /\ touched' = {}
    /\ UNCHANGED <<status, global, queueVars, pollSet, deadSet>>

DeadRead ==
    /\ deadSet = {}
    /\ DeadOrders # {}
    /\ deadSet' = DeadOrders
    /\ UNCHANGED <<rowVars, queueVars, polling, pollSet, touched>>

(* Every alert has been sent: write MANUAL_INTERVENTION_REQUIRED to every   *)
(* order read, whatever its row holds by now.                               *)
DeadCommit ==
    /\ deadSet # {}
    /\ \A o \in deadSet : ~RowLocked(o)
    /\ global' = [o \in Orders |-> IF o \in deadSet
                                   THEN "MANUAL_INTERVENTION_REQUIRED"
                                   ELSE global[o]]
    /\ Touch(deadSet)
    /\ deadSet' = {}
    /\ UNCHANGED <<status, queueVars, polling, pollSet, touched>>

(* The database raises in a cron job, whose session is lost, or the process *)
(* dies with both; the next cron tick starts anew.                          *)
SchedulerFails ==
    /\ \/ /\ polling
          /\ polling' = FALSE
          /\ pollSet' = {}
          /\ touched' = {}
          /\ deadSet' \in {deadSet, {}}
       \/ /\ deadSet # {}
          /\ deadSet' = {}
          /\ UNCHANGED <<polling, pollSet, touched>>
    /\ UNCHANGED <<rowVars, queueVars>>
=============================================================================
