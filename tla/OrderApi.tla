------------------------------ MODULE OrderApi ------------------------------
(***************************************************************************)
(* The endpoints that touch a saga: POST /orders inserts the row and then  *)
(* enqueues process_billing, PATCH /admin/orders/{id}/force-cancel         *)
(* overwrites the global status of an order it read as                     *)
(* MANUAL_INTERVENTION_REQUIRED.                                           *)
(***************************************************************************)
EXTENDS ArqQueue

VARIABLES
    request,   \* where the POST that creates each order stands
    admin      \* where the administrator's force-cancel stands

apiVars == <<request, admin>>

ApiTypeOK ==
    /\ request \in [Orders -> {"none", "committed", "ended"}]
    /\ admin \in [Orders -> {"idle", "approved", "forced"}]

ApiInit ==
    /\ request = [o \in Orders |-> "none"]
    /\ admin = [o \in Orders |-> "idle"]

(* One commit inserts the rows of every new order in a request's body,      *)
(* before anything is enqueued for any of them.                             *)
CreateOrders(S) ==
    /\ S # {} /\ \A o \in S : request[o] = "none"
    /\ request' = [o \in Orders |-> IF o \in S THEN "committed" ELSE request[o]]
    /\ global' = [o \in Orders |-> IF o \in S THEN "PROCESSING" ELSE global[o]]
    /\ UNCHANGED <<status, age, queueVars, admin>>

(* asyncio.gather sends the enqueues of one request side by side. *)
EnqueueBilling(o) ==
    /\ request[o] = "committed"
    /\ Enqueue(o, "billing")
    /\ request' = [request EXCEPT ![o] = "ended"]
    /\ UNCHANGED <<rowVars, retry, stampTaken, admin>>

(* The process dies after the commit, or Redis raises for some orders.  A   *)
(* client that repeats the request finds them existing, and nothing is      *)
(* enqueued.                                                                *)
ApiFails(S) ==
    /\ S # {} /\ \A o \in S : request[o] = "committed"
    /\ request' = [o \in Orders |-> IF o \in S THEN "ended" ELSE request[o]]
    /\ UNCHANGED <<rowVars, queueVars, admin>>

(* How orders come to be, by themselves.  OrderIntake shows the requests    *)
(* behind it.                                                               *)
intakeVars == <<rowVars, payment, queueVars, apiVars>>

IntakeInit == TableInit /\ QueueInit /\ ApiInit

Intake ==
    /\ \/ \E S \in SUBSET Orders : CreateOrders(S) \/ ApiFails(S)
       \/ \E o \in Orders : EnqueueBilling(o)
    /\ UNCHANGED payment

IntakeSpec == IntakeInit /\ [][Intake]_intakeVars

(* The status is checked on an unlocked read ... *)
ForceCancelRead(o) ==
    /\ admin[o] = "idle"
    /\ global[o] = "MANUAL_INTERVENTION_REQUIRED"
    /\ admin' = [admin EXCEPT ![o] = "approved"]
    /\ UNCHANGED <<rowVars, queueVars, request>>

(* ... and overwritten later. *)
ForceCancelWrite(o) ==
    /\ admin[o] = "approved"
    /\ ~RowLocked(o)
    /\ WriteRow(o, status[o], "CANCELLED")
    /\ admin' = [admin EXCEPT ![o] = "forced"]
    /\ UNCHANGED <<queueVars, request>>
=============================================================================
