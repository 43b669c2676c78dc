------------------------------ MODULE Services ------------------------------
(***************************************************************************)
(* The three external services, as mock_env implements them: each keeps    *)
(* the last action it performed for an order, answers 200 to a request for *)
(* that same action, refuses at random otherwise without recording         *)
(* anything, and records the action when it succeeds.                      *)
(*                                                                         *)
(* svc is the last_action: "none", "done" (charge, reserve, arrange) or    *)
(* "undone" (refund, release, cancel).  With Lossy the network may also    *)
(* lose a request, or the answer to one that took effect.                  *)
(***************************************************************************)
EXTENDS OrderTable

CONSTANT Lossy   \* requests and answers may be lost

VARIABLE svc     \* what each service last did for each order

LastAction == {"none", "done", "undone"}

ASSUME LossyAssumption == Lossy \in BOOLEAN

ServicesTypeOK == svc \in [Orders -> [Steps -> LastAction]]
ServicesInit == svc = [o \in Orders |-> [s \in Steps |-> "none"]]

Replies == {"ok", "refused"} \cup (IF Lossy THEN {"lost"} ELSE {})

(* A POST for `action`, as the caller sees it: "ok" is a 200, "refused" any *)
(* other status and no effect, "lost" an exception after the effect.        *)
Serve(o, s, action, reply) ==
    IF reply = "refused"
    THEN /\ svc[o][s] # action \/ Lossy
         /\ UNCHANGED svc
    ELSE svc' = [svc EXCEPT ![o][s] = action]
=============================================================================
