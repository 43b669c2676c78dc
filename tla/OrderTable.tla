----------------------------- MODULE OrderTable -----------------------------
(***************************************************************************)
(* The orders table: the one row an order has in PostgreSQL, and the       *)
(* statements that read or write it.  An order is identified by its        *)
(* idempotency key, which is unique, so Orders is the set of keys.         *)
(*                                                                         *)
(* A row's updated_at is kept as its age against the two thresholds the    *)
(* scheduler compares it with: "fresh" until it is 60 seconds old, "stale" *)
(* until it is an hour old, then "dead".                                   *)
(***************************************************************************)
EXTENDS Integers, FiniteSets

CONSTANTS
    Orders,       \* the idempotency keys clients use
    PaymentWays   \* the payment types clients choose from

VARIABLES
    status,    \* the three step columns of each row
    global,    \* its global_status, "ABSENT" before the row is inserted
    payment,   \* its payment_type, fixed by the client's request
    age        \* how old its updated_at is

rowVars == <<status, global, age>>

Steps == {"billing", "inventory", "logistics"}
Parallel == {"inventory", "logistics"}

SagaStepStatus ==
    {"PENDING", "FAILED", "SUCCESS", "CANCELLED", "COMPENSATED", "SKIPPED"}

OrderGlobalStatus ==
    {"PROCESSING", "COMPLETED", "CANCELLED", "COMPENSATING",
     "MANUAL_INTERVENTION_REQUIRED"}

PaymentWay == {"prepayment", "postpayment"}

ASSUME PaymentAssumption == PaymentWays \subseteq PaymentWay

TableTypeOK ==
    /\ status \in [Orders -> [Steps -> SagaStepStatus]]
    /\ global \in [Orders -> OrderGlobalStatus \cup {"ABSENT"}]
    /\ payment \in [Orders -> PaymentWays]
    /\ age \in [Orders -> {"fresh", "stale", "dead"}]

(* The column defaults: every step PENDING. *)
TableInit ==
    /\ status = [o \in Orders |-> [s \in Steps |-> "PENDING"]]
    /\ global = [o \in Orders |-> "ABSENT"]
    /\ payment \in [Orders -> PaymentWays]
    /\ age = [o \in Orders |-> "fresh"]

(* A mutant: the parallel steps are not looked at. *)
PendingBilling(o) == status[o]["billing"] = "PENDING"

Exists(o) == global[o] # "ABSENT"
Pending(o) == \E s \in Steps : status[o][s] = "PENDING"
Succeeded(o) == {s \in Steps : status[o][s] = "SUCCESS"}

(* Commit of a transaction that leaves the row with these columns.  The ORM *)
(* issues no UPDATE when nothing changed, and then updated_at stays.        *)
WriteRow(o, steps, g) ==
    /\ status' = [status EXCEPT ![o] = steps]
    /\ global' = [global EXCEPT ![o] = g]
    /\ age' = IF steps = status[o] /\ g = global[o]
              THEN age
              ELSE [age EXCEPT ![o] = "fresh"]

(* updated_at := now for a set of rows. *)
Touch(S) == age' = [o \in Orders |-> IF o \in S THEN "fresh" ELSE age[o]]

(* A mutant: the poll forgets the 60-second threshold. *)
StuckOrdersAtOnce ==
    {o \in Orders :
        \/ global[o] = "PROCESSING" /\ Pending(o)
        \/ global[o] = "COMPENSATING" /\ Succeeded(o) # {}}

(* A mutant: dead orders are looked for among those still to be undone. *)
DeadOrdersHeld ==
    {o \in Orders :
        /\ global[o] = "COMPENSATING"
        /\ age[o] = "dead"
        /\ Succeeded(o) # {}}

(* A mutant: dead orders are looked for by the minute. *)
DeadOrdersSoon == {o \in Orders : global[o] = "COMPENSATING" /\ age[o] # "fresh"}

(* The scheduler's two SELECTs. *)
StuckOrders ==
    {o \in Orders :
        /\ age[o] # "fresh"
        /\ \/ global[o] = "PROCESSING" /\ Pending(o)
           \/ global[o] = "COMPENSATING" /\ Succeeded(o) # {}}

DeadOrders == {o \in Orders : global[o] = "COMPENSATING" /\ age[o] = "dead"}

(* Time passes a threshold. *)
GrowOld(o) ==
    /\ Exists(o)
    /\ age[o] # "dead"
    /\ age' = [age EXCEPT ![o] = IF @ = "fresh" THEN "stale" ELSE "dead"]
    /\ UNCHANGED <<status, global>>
=============================================================================
