---------------------------- MODULE SagaContract ----------------------------
(***************************************************************************)
(* What the orchestrator promises about an order, without jobs, retries,   *)
(* queues or step columns: which services hold their part of it, which     *)
(* have given it back, and the outcome the order shows.                    *)
(*                                                                         *)
(*   - nothing is performed for an order once any part was given back;     *)
(*   - "completed" is shown only while all that is needed is held;         *)
(*   - "cancelled" is shown only once nothing is held, and nothing is      *)
(*     performed from then on.                                             *)
(*                                                                         *)
(* "manual" stands for an order in an administrator's hands, whether it    *)
(* waits for one or was cancelled by force: about it nothing is promised   *)
(* but the first rule.                                                     *)
(***************************************************************************)
CONSTANTS Orders, Steps

VARIABLES
    needed,     \* the steps an order cannot do without
    held,       \* the steps whose service holds its part
    released,   \* the steps whose service was made to give it back
    outcome     \* what the order shows

vars == <<needed, held, released, outcome>>

Outcome == {"none", "open", "completed", "cancelled", "manual"}

TypeOK ==
    /\ needed \in [Orders -> SUBSET Steps]
    /\ held \in [Orders -> SUBSET Steps]
    /\ released \in [Orders -> SUBSET Steps]
    /\ outcome \in [Orders -> Outcome]

Init ==
    /\ needed \in [Orders -> SUBSET Steps]
    /\ held = [o \in Orders |-> {}]
    /\ released = [o \in Orders |-> {}]
    /\ outcome = [o \in Orders |-> "none"]

(* The orders in S show r. *)
Shows(S, r) == outcome' = [o \in Orders |-> IF o \in S THEN r ELSE outcome[o]]

Accept(S) ==
    /\ \A o \in S : outcome[o] = "none"
    /\ Shows(S, "open")
    /\ UNCHANGED <<needed, held, released>>

Working(o) == outcome[o] \in {"open", "manual"}

Perform(o, s) ==
    /\ Working(o)
    /\ released[o] = {}
    /\ held' = [held EXCEPT ![o] = @ \cup {s}]
    /\ UNCHANGED <<needed, released, outcome>>

Release(o, s) ==
    /\ Working(o)
    /\ s \in held[o]
    /\ held' = [held EXCEPT ![o] = @ \ {s}]
    /\ released' = [released EXCEPT ![o] = @ \cup {s}]
    /\ UNCHANGED <<needed, outcome>>

Complete(o) ==
    /\ Working(o)
    /\ needed[o] \subseteq held[o]
    /\ released[o] = {}
    /\ Shows({o}, "completed")
    /\ UNCHANGED <<needed, held, released>>

Cancel(o) ==
    /\ Working(o)
    /\ held[o] = {}
    /\ Shows({o}, "cancelled")
    /\ UNCHANGED <<needed, held, released>>

(* A compensation that starts takes back whatever the order showed. *)
Reopen(o) ==
    /\ outcome[o] # "none"
    /\ Shows({o}, "open")
    /\ UNCHANGED <<needed, held, released>>

HandOver(S) ==
    /\ \A o \in S : outcome[o] # "none"
    /\ Shows(S, "manual")
    /\ UNCHANGED <<needed, held, released>>

Next ==
    \/ \E S \in SUBSET Orders : Accept(S) \/ HandOver(S)
    \/ \E o \in Orders :
          \/ \E s \in Steps : Perform(o, s) \/ Release(o, s)
          \/ Complete(o)
          \/ Cancel(o)
          \/ Reopen(o)

Spec == Init /\ [][Next]_vars
=============================================================================
