----------------------------- MODULE OrderIntake -----------------------------
(***************************************************************************)
(* POST /orders: requests that create orders in bulk, side by side, under  *)
(* client-chosen idempotency keys.  A request reads which of its keys      *)
(* exist, inserts the rows of the others in one transaction, commits, and  *)
(* enqueues process_billing for what it inserted.                          *)
(*                                                                         *)
(* PostgreSQL keeps the keys unique: an insert of a key that an open       *)
(* transaction holds waits for that transaction, an insert of a key that   *)
(* is committed, or the transaction's own, raises, and of transactions     *)
(* that wait for each other in a circle one is aborted.                    *)
(*                                                                         *)
(* A client that repeats a request is another request with the same body.  *)
(***************************************************************************)
EXTENDS Integers, Sequences

CONSTANTS
    Requests,
    Keys,
    Bodies,      \* the lists of keys that requests may carry
    MaxDeaths    \* how often the API process may die

VARIABLES
    body,        \* the keys of the request's orders, in their order
    at,          \* where its handler stands
    existing,    \* the keys it found taken
    next,        \* the order it inserts next
    rows,        \* the keys whose rows it has inserted
    sending,     \* the enqueues of its gather that are under way
    billed,      \* how often process_billing was enqueued for each key
    reply,       \* the status of its response
    deaths

vars == <<body, at, existing, next, rows, sending, billed, reply, deaths>>

ASSUME BodiesAssumption == Bodies \subseteq Seq(Keys)
ASSUME DeathsAssumption == MaxDeaths \in Nat

Handler == {"new", "insert", "enqueue", "done"}
Reply == {"none", "201", "200", "404", "500", "lost"}

TypeOK ==
    /\ body \in [Requests -> Bodies]
    /\ at \in [Requests -> Handler]
    /\ existing \in [Requests -> SUBSET Keys]
    /\ next \in [Requests -> Nat \ {0}]
    /\ rows \in [Requests -> SUBSET Keys]
    /\ sending \in [Requests -> SUBSET Keys]
    /\ billed \in [Keys -> Nat]
    /\ reply \in [Requests -> Reply]
    /\ deaths \in 0 .. MaxDeaths

Init ==
    /\ body \in [Requests -> Bodies]
    /\ at = [r \in Requests |-> "new"]
    /\ existing = [r \in Requests |-> {}]
    /\ next = [r \in Requests |-> 1]
    /\ rows = [r \in Requests |-> {}]
    /\ sending = [r \in Requests |-> {}]
    /\ billed = [k \in Keys |-> 0]
    /\ reply = [r \in Requests |-> "none"]
    /\ deaths = 0

KeysOf(r) == {body[r][i] : i \in DOMAIN body[r]}

(* Its transaction has inserted and not ended. *)
Open(r) == at[r] = "insert"

Committed(k) == \E r \in Requests : ~Open(r) /\ k \in rows[r]
-----------------------------------------------------------------------------
(* The response, after which only enqueues may still be under way. *)
Respond(r, status) ==
    /\ at' = [at EXCEPT ![r] = "done"]
    /\ reply' = [reply EXCEPT ![r] = status]

(* One of the goods is unknown. *)
Refuse(r) ==
    /\ at[r] = "new"
    /\ Respond(r, "404")
    /\ UNCHANGED <<body, existing, next, rows, sending, billed, deaths>>

(* A mutant: the list is counted from 0. *)
FindFromZero(r) ==
    /\ at[r] = "new"
    /\ at' = [at EXCEPT ![r] = "insert"]
    /\ next' = [next EXCEPT ![r] = 0]
    /\ existing' = [existing EXCEPT ![r] = {k \in KeysOf(r) : Committed(k)}]
    /\ UNCHANGED <<body, rows, sending, billed, reply, deaths>>

(* get_existing_by_idempotency_keys sees what is committed. *)
Find(r) ==
    /\ at[r] = "new"
    /\ at' = [at EXCEPT ![r] = "insert"]
    /\ existing' = [existing EXCEPT ![r] = {k \in KeysOf(r) : Committed(k)}]
    /\ UNCHANGED <<body, next, rows, sending, billed, reply, deaths>>

(* The request is at the row of key k in its flush. *)
Inserts(r, k) ==
    /\ Open(r)
    /\ next[r] <= Len(body[r])
    /\ k = body[r][next[r]]
    /\ k \notin existing[r]

(* An order whose key was found is left out. *)
Skip(r) ==
    /\ Open(r)
    /\ next[r] <= Len(body[r])
    /\ body[r][next[r]] \in existing[r]
    /\ next' = [next EXCEPT ![r] = @ + 1]
    /\ UNCHANGED <<body, at, existing, rows, sending, billed, reply, deaths>>

Insert(r, k) ==
    /\ Inserts(r, k)
    /\ \A q \in Requests : k \notin rows[q]
    /\ rows' = [rows EXCEPT ![r] = @ \cup {k}]
    /\ next' = [next EXCEPT ![r] = @ + 1]
    /\ UNCHANGED <<body, at, existing, sending, billed, reply, deaths>>

(* The transaction rolls back, the handler raises. *)
Abort(r) ==
    /\ Respond(r, "500")
    /\ rows' = [rows EXCEPT ![r] = {}]
    /\ UNCHANGED <<body, existing, next, sending, billed, deaths>>

(* A mutant: a list that repeats a key waits for itself. *)
ClashOthers(r, k) == Inserts(r, k) /\ Committed(k) /\ Abort(r)

(* IntegrityError: the key was committed since the read, or is repeated.    *)
Clash(r, k) ==
    /\ Inserts(r, k)
    /\ Committed(k) \/ k \in rows[r]
    /\ Abort(r)

WaitsFor(r, q) ==
    /\ q # r
    /\ Open(q)
    /\ \E k \in rows[q] : Inserts(r, k)

(* The requests of S wait for each other, each for one of them. *)
Circle(S) ==
    /\ \A r \in S : \E q \in S : WaitsFor(r, q)
    /\ \A q \in S : \E r \in S : WaitsFor(r, q)

BreakDeadlock(r) ==
    /\ \E S \in SUBSET Requests : r \in S /\ Circle(S)
    /\ Abort(r)

(* The database raises before the commit has taken effect. *)
DatabaseFails(r) == at[r] \in {"new", "insert"} /\ Abort(r)

(* Mutants: every order of the list is enqueued, found ones too; every      *)
(* row is committed by itself.                                              *)
CommitAll(r) ==
    /\ Open(r)
    /\ next[r] > Len(body[r])
    /\ at' = [at EXCEPT ![r] = "enqueue"]
    /\ sending' = [sending EXCEPT ![r] = KeysOf(r)]
    /\ UNCHANGED <<body, existing, next, rows, billed, reply, deaths>>
CommitEarly(r) ==
    /\ Open(r)
    /\ at' = [at EXCEPT ![r] = "enqueue"]
    /\ sending' = [sending EXCEPT ![r] = rows[r]]
    /\ UNCHANGED <<body, existing, next, rows, billed, reply, deaths>>

(* Then the enqueues of all that was inserted are sent side by side.  A     *)
(* COMMIT that raises though it took effect sends none of them, which is    *)
(* what is left if they all fail.                                           *)
Commit(r) ==
    /\ Open(r)
    /\ next[r] > Len(body[r])
    /\ at' = [at EXCEPT ![r] = "enqueue"]
    /\ sending' = [sending EXCEPT ![r] = rows[r]]
    /\ UNCHANGED <<body, existing, next, rows, billed, reply, deaths>>

EnqueueBilling(r, k) ==
    /\ k \in sending[r]
    /\ billed' = [billed EXCEPT ![k] = @ + 1]
    /\ sending' = [sending EXCEPT ![r] = @ \ {k}]
    /\ UNCHANGED <<body, at, existing, next, rows, reply, deaths>>

(* Redis raises for one of them.  gather raises the first exception at      *)
(* once, and the others go on.                                              *)
EnqueueFails(r, k) ==
    /\ k \in sending[r]
    /\ sending' = [sending EXCEPT ![r] = @ \ {k}]
    /\ Respond(r, "500")
    /\ UNCHANGED <<body, existing, next, rows, billed, deaths>>

(* A mutant: gather is not awaited. *)
AnswerAtOnce(r) ==
    /\ at[r] = "enqueue"
    /\ Respond(r, IF rows[r] = {} THEN "200" ELSE "201")
    /\ UNCHANGED <<body, existing, next, rows, sending, billed, deaths>>

Answer(r) ==
    /\ at[r] = "enqueue"
    /\ sending[r] = {}
    /\ Respond(r, IF rows[r] = {} THEN "200" ELSE "201")
    /\ UNCHANGED <<body, existing, next, rows, sending, billed, deaths>>

(* The process dies: open transactions roll back, no enqueue is sent any    *)
(* more, nobody is answered.                                                *)
ApiDies ==
    /\ deaths < MaxDeaths
    /\ deaths' = deaths + 1
    /\ \E r \in Requests : at[r] \in {"insert", "enqueue"} \/ sending[r] # {}
    /\ at' = [r \in Requests |->
                 IF at[r] = "new" THEN "new" ELSE "done"]
    /\ rows' = [r \in Requests |-> IF Open(r) THEN {} ELSE rows[r]]
    /\ sending' = [r \in Requests |-> {}]
    /\ reply' = [r \in Requests |->
                    IF at[r] \in {"insert", "enqueue"} THEN "lost" ELSE reply[r]]
    /\ UNCHANGED <<body, existing, next, billed>>

Next ==
    \/ \E r \in Requests :
          \/ Refuse(r)
          \/ Find(r)
          \/ Skip(r)
          \/ BreakDeadlock(r)
          \/ DatabaseFails(r)
          \/ Commit(r)
          \/ Answer(r)
          \/ \E k \in Keys :
                \/ Insert(r, k)
                \/ Clash(r, k)
                \/ EnqueueBilling(r, k)
                \/ EnqueueFails(r, k)
    \/ ApiDies

Spec == Init /\ [][Next]_vars

(* A request that was sent is handled, and the database resolves deadlocks. *)
Fairness ==
    \A r \in Requests :
        /\ WF_vars(Skip(r) \/ Commit(r) \/ Answer(r))
        /\ WF_vars(BreakDeadlock(r))
        /\ \A k \in Keys :
              WF_vars(Insert(r, k) \/ Clash(r, k) \/ EnqueueBilling(r, k))

FairSpec == Spec /\ Fairness
-----------------------------------------------------------------------------
(* What a response says is so: 201 means that the request created some of   *)
(* its orders, each with its billing enqueued, and that none is missing;    *)
(* 200 means that all of them existed before.                               *)
RepliesAreTrue ==
    \A r \in Requests :
        reply[r] \in {"200", "201"} =>
            /\ \A k \in KeysOf(r) : Committed(k)
            /\ \A k \in rows[r] : billed[k] = 1
            /\ reply[r] = "200" <=> rows[r] = {}

(* A request creates all the orders it found missing, or none, whatever     *)
(* became of it.                                                            *)
WholeOrNothing ==
    \A r \in Requests :
        ~Open(r) => rows[r] \in {{}, KeysOf(r) \ existing[r]}

(* However often an order is posted, its billing is enqueued at most once,  *)
(* and not before its row is committed.                                     *)
BilledOnce ==
    \A k \in Keys : billed[k] = 0 \/ (billed[k] = 1 /\ Committed(k))

(* What makes these inductive: a transaction has inserted just what it has  *)
(* come past; rows belong to one request each; an enqueue is under way only *)
(* for a row its request has committed, and has not happened before.        *)
RowsInv ==
    \A r \in Requests :
        /\ at[r] = "new" => existing[r] = {} /\ next[r] = 1
        /\ at[r] \in {"new", "insert"} => sending[r] = {}
        /\ at[r] # "done" => reply[r] = "none"
        /\ at[r] = "new" => rows[r] = {}
        /\ rows[r] \subseteq KeysOf(r) \ existing[r]
        /\ \A k \in existing[r] : Committed(k)
        /\ Open(r) =>
              \A i \in DOMAIN body[r] :
                  i < next[r] => body[r][i] \in existing[r] \cup rows[r]
        /\ at[r] = "enqueue" \/ reply[r] \in {"200", "201"} =>
              rows[r] = KeysOf(r) \ existing[r]

UniqueInv ==
    \A r, q \in Requests : r # q => rows[r] \cap rows[q] = {}

SendingInv ==
    \A r \in Requests :
        /\ \A k \in sending[r] : k \in rows[r] /\ billed[k] = 0
        /\ at[r] = "enqueue" =>
              \A k \in rows[r] : k \in sending[r] \/ billed[k] = 1

IntakeInv ==
    RowsInv /\ UniqueInv /\ SendingInv /\ WholeOrNothing /\ BilledOnce
    /\ RepliesAreTrue

(* No request waits for ever, neither for a row another one holds nor for   *)
(* one of its own.                                                          *)
EveryRequestAnswered == \A r \in Requests : Open(r) ~> reply[r] # "none"
-----------------------------------------------------------------------------
(* What the saga sees of an order: its row, and where the creation of it    *)
(* stands.                                                                  *)
Global(k) == IF Committed(k) THEN "PROCESSING" ELSE "ABSENT"

Sent(k) == \E r \in Requests : k \in sending[r]

Stage(k) ==
    IF ~Committed(k) THEN "none" ELSE IF Sent(k) THEN "committed" ELSE "ended"

JobOf(k, j) == IF j = "billing" /\ billed[k] > 0 THEN "queued" ELSE "absent"

Api == INSTANCE OrderApi WITH
    Orders <- Keys,
    PaymentWays <- {"prepayment"},
    Stamped <- {},
    MaxJobs <- 1,
    MaxRetry <- 0,
    Bursts <- FALSE,
    status <- [k \in Keys |->
                  [s \in {"billing", "inventory", "logistics"} |-> "PENDING"]],
    global <- [k \in Keys |-> Global(k)],
    payment <- [k \in Keys |-> "prepayment"],
    age <- [k \in Keys |-> "fresh"],
    job <- [k \in Keys |->
               [j \in {"billing", "inventory", "logistics", "compensation"} |->
                   JobOf(k, j)]],
    retry <- [k \in Keys |-> [c \in {"compensation"} |-> 0]],
    stampTaken <- [k \in Keys |-> FALSE],
    request <- [k \in Keys |-> Stage(k)],
    admin <- [k \in Keys |-> "idle"]

(* Seen from the saga, orders come to be as OrderApi has it: in sets, by    *)
(* one commit, once each, then enqueued or left without a job.              *)
KeepsIntake == Api!IntakeSpec
=============================================================================
