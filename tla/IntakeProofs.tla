---------------------------- MODULE IntakeProofs ----------------------------
(***************************************************************************)
(* What OrderIntake promises, proved for any number of requests, keys,     *)
(* lists and deaths of the API.                                            *)
(***************************************************************************)
EXTENDS OrderIntake, TLAPS

LEMMA KeysAreKeys ==
    ASSUME TypeOK, NEW r \in Requests
    PROVE  KeysOf(r) \subseteq Keys /\ DOMAIN body[r] = 1 .. Len(body[r])
           /\ Len(body[r]) \in Nat
BY BodiesAssumption DEF TypeOK, KeysOf

(* Every step keeps every variable in its type. *)
LEMMA TypeStep == TypeOK /\ [Next]_vars => TypeOK'
<1> SUFFICES ASSUME TypeOK, [Next]_vars PROVE TypeOK'
  OBVIOUS
<1> USE DEF TypeOK, Handler, Reply, Respond
<1>1. CASE UNCHANGED vars
  BY <1>1 DEF vars
<1>2. ASSUME NEW r \in Requests,
             Refuse(r) \/ BreakDeadlock(r) \/ DatabaseFails(r) \/ Answer(r)
      PROVE  TypeOK'
  BY <1>2 DEF Refuse, BreakDeadlock, DatabaseFails, Answer, Abort
<1>3. ASSUME NEW r \in Requests, Find(r) \/ Skip(r) \/ Commit(r)
      PROVE  TypeOK'
  <2>1. {k \in KeysOf(r) : Committed(k)} \in SUBSET Keys
    BY KeysAreKeys
  <2>2. CASE Find(r)
    BY <2>1, <2>2 DEF Find
  <2>3. CASE Skip(r)
    BY <2>3 DEF Skip
  <2>4. CASE Commit(r)
    BY <2>4 DEF Commit
  <2> QED  BY <1>3, <2>2, <2>3, <2>4
<1>4. ASSUME NEW r \in Requests, NEW k \in Keys,
             Insert(r, k) \/ Clash(r, k) \/ EnqueueFails(r, k)
      PROVE  TypeOK'
  BY <1>4 DEF Insert, Clash, Abort, EnqueueFails
<1>5. ASSUME NEW r \in Requests, NEW k \in Keys, EnqueueBilling(r, k)
      PROVE  TypeOK'
  BY <1>5 DEF EnqueueBilling
<1>6. CASE ApiDies
  BY <1>6, DeathsAssumption DEF ApiDies
<1> QED  BY <1>1, <1>2, <1>3, <1>4, <1>5, <1>6 DEF Next

(* The handlers of POST /orders keep their variables in their types.       *)
THEOREM Types == Spec => []TypeOK
<1>1. Init => TypeOK
  BY DeathsAssumption DEF Init, TypeOK, Handler, Reply
<1> QED  BY <1>1, TypeStep, PTL DEF Spec
-----------------------------------------------------------------------------
LEMMA InvInit == ASSUME Init PROVE IntakeInv
BY DEF Init, IntakeInv, RowsInv, UniqueInv, SendingInv, WholeOrNothing,
       BilledOnce, RepliesAreTrue, Open

(* What one request's step does to what the others rely on: committed rows *)
(* stay, and only an insert adds any.                                      *)
LEMMA CommittedStays ==
    ASSUME TypeOK, RowsInv, [Next]_vars, NEW k \in Keys, Committed(k)
    PROVE  Committed(k)'
<1>1. PICK q \in Requests : ~Open(q) /\ k \in rows[q]
  BY DEF Committed
<1>2. at[q] \in {"enqueue", "done"}
  BY <1>1 DEF RowsInv, Open, TypeOK, Handler
<1> SUFFICES ~Open(q)' /\ k \in rows'[q]
  BY DEF Committed
<1> USE <1>1, <1>2 DEF TypeOK, Open, Respond
<1>3. CASE UNCHANGED vars
  BY <1>3 DEF vars
<1>4. ASSUME NEW r \in Requests,
             \/ Refuse(r) \/ BreakDeadlock(r) \/ DatabaseFails(r) \/ Answer(r)
             \/ Find(r) \/ Skip(r) \/ Commit(r)
      PROVE  ~Open(q)' /\ k \in rows'[q]
  BY <1>4 DEF Refuse, BreakDeadlock, DatabaseFails, Answer, Abort, Find, Skip,
              Commit, Circle, WaitsFor, Inserts
<1>5. ASSUME NEW r \in Requests, NEW i \in Keys,
             Insert(r, i) \/ Clash(r, i) \/ EnqueueFails(r, i)
             \/ EnqueueBilling(r, i)
      PROVE  ~Open(q)' /\ k \in rows'[q]
  BY <1>5 DEF Insert, Clash, Abort, EnqueueFails, EnqueueBilling, Inserts
<1>6. CASE ApiDies
  BY <1>6 DEF ApiDies
<1> QED  BY <1>3, <1>4, <1>5, <1>6 DEF Next

(* Of what a request is told, the part about rows follows from RowsInv. *)
LEMMA RepliesFromRows ==
    ASSUME TypeOK', RowsInv',
           \A q \in Requests : reply'[q] \in {"200", "201"} =>
               /\ \A k \in rows'[q] : billed'[k] = 1
               /\ reply'[q] = "200" <=> rows'[q] = {}
    PROVE  RepliesAreTrue'
<1> SUFFICES ASSUME NEW q \in Requests, reply'[q] \in {"200", "201"},
                    NEW k \in KeysOf(q)'
             PROVE  Committed(k)'
  BY DEF RepliesAreTrue
<1>1. at'[q] = "done"
  BY DEF RowsInv, TypeOK, Handler
<1>2. rows'[q] = KeysOf(q)' \ existing'[q]
  BY <1>1 DEF RowsInv
<1>3. \A i \in existing'[q] : Committed(i)'
  BY DEF RowsInv
<1> QED  BY <1>1, <1>2, <1>3 DEF Committed, Open

(* What every step may count on. *)
Before == TypeOK /\ TypeOK' /\ IntakeInv
Stays == \A k \in Keys : Committed(k) => Committed(k)'

(* Only a request with an open transaction, or a new one, aborts. *)
Aborts(r) == at[r] \in {"new", "insert"} /\ Abort(r)

LEMMA AbortCases ==
    ASSUME NEW r \in Requests, NEW k \in Keys,
           BreakDeadlock(r) \/ DatabaseFails(r) \/ Clash(r, k)
    PROVE  Aborts(r)
BY DEF BreakDeadlock, Circle, WaitsFor, Inserts, Open, DatabaseFails, Clash,
       Aborts

LEMMA DeadlockAborts ==
    ASSUME NEW r \in Requests, BreakDeadlock(r) \/ DatabaseFails(r)
    PROVE  Aborts(r)
BY DEF BreakDeadlock, Circle, WaitsFor, Inserts, Open, DatabaseFails, Aborts

(* Each kind of step keeps the invariant. *)
LEMMA RefuseKeeps ==
    ASSUME Before, Stays, NEW r \in Requests, Refuse(r)
    PROVE  IntakeInv'
<1> USE DEF Before, Stays, IntakeInv, TypeOK, Respond, Refuse
<1>0. KeysOf(r) \subseteq Keys /\ DOMAIN body[r] = 1 .. Len(body[r])
  BY KeysAreKeys
<1>a. \A q \in Requests : KeysOf(q)' = KeysOf(q)
  BY DEF KeysOf
<1>1. RowsInv'
  BY <1>0 DEF RowsInv, SendingInv, UniqueInv, WholeOrNothing, BilledOnce, RepliesAreTrue, Open, KeysOf, Committed
<1>2. UniqueInv'
  BY <1>0 DEF UniqueInv, RowsInv, SendingInv, WholeOrNothing, BilledOnce, RepliesAreTrue, Open, KeysOf, Committed
<1>3. SendingInv'
  BY <1>0 DEF SendingInv, RowsInv, UniqueInv, WholeOrNothing, BilledOnce, RepliesAreTrue, Open, KeysOf, Committed
<1>4. WholeOrNothing'
  BY <1>0, <1>a DEF WholeOrNothing, RowsInv, Open, KeysOf
<1>5. BilledOnce'
  BY <1>0 DEF BilledOnce, RowsInv, SendingInv, UniqueInv, WholeOrNothing, RepliesAreTrue, Open, KeysOf, Committed
<1>6. RepliesAreTrue'
  <2> SUFFICES ASSUME NEW q \in Requests, reply'[q] \in {"200", "201"}
               PROVE  /\ \A i \in rows'[q] : billed'[i] = 1
                      /\ reply'[q] = "200" <=> rows'[q] = {}
    BY <1>1, RepliesFromRows
  <2> QED  BY DEF RepliesAreTrue, RowsInv, SendingInv, UniqueInv, Open
<1> QED  BY <1>1, <1>2, <1>3, <1>4, <1>5, <1>6

LEMMA FindKeeps ==
    ASSUME Before, Stays, NEW r \in Requests, Find(r)
    PROVE  IntakeInv'
<1> USE DEF Before, Stays, IntakeInv, TypeOK, Respond, Find
<1>0. KeysOf(r) \subseteq Keys /\ DOMAIN body[r] = 1 .. Len(body[r])
  BY KeysAreKeys
<1>a. \A q \in Requests : KeysOf(q)' = KeysOf(q)
  BY DEF KeysOf
<1>1. RowsInv'
  BY <1>0 DEF RowsInv, SendingInv, UniqueInv, WholeOrNothing, BilledOnce, RepliesAreTrue, Open, KeysOf, Committed
<1>2. UniqueInv'
  BY <1>0 DEF UniqueInv, RowsInv, SendingInv, WholeOrNothing, BilledOnce, RepliesAreTrue, Open, KeysOf, Committed
<1>3. SendingInv'
  BY <1>0 DEF SendingInv, RowsInv, UniqueInv, WholeOrNothing, BilledOnce, RepliesAreTrue, Open, KeysOf, Committed
<1>4. WholeOrNothing'
  BY <1>0, <1>a DEF WholeOrNothing, RowsInv, Open, KeysOf
<1>5. BilledOnce'
  BY <1>0 DEF BilledOnce, RowsInv, SendingInv, UniqueInv, WholeOrNothing, RepliesAreTrue, Open, KeysOf, Committed
<1>6. RepliesAreTrue'
  <2> SUFFICES ASSUME NEW q \in Requests, reply'[q] \in {"200", "201"}
               PROVE  /\ \A i \in rows'[q] : billed'[i] = 1
                      /\ reply'[q] = "200" <=> rows'[q] = {}
    BY <1>1, RepliesFromRows
  <2> QED  BY DEF RepliesAreTrue, RowsInv, SendingInv, UniqueInv, Open
<1> QED  BY <1>1, <1>2, <1>3, <1>4, <1>5, <1>6

LEMMA SkipKeeps ==
    ASSUME Before, Stays, NEW r \in Requests, Skip(r)
    PROVE  IntakeInv'
<1> USE DEF Before, Stays, IntakeInv, TypeOK, Respond, Skip
<1>0. KeysOf(r) \subseteq Keys /\ DOMAIN body[r] = 1 .. Len(body[r])
  BY KeysAreKeys
<1>a. \A q \in Requests : KeysOf(q)' = KeysOf(q)
  BY DEF KeysOf
<1>1. RowsInv'
  BY <1>0 DEF RowsInv, SendingInv, UniqueInv, WholeOrNothing, BilledOnce, RepliesAreTrue, Open, KeysOf, Committed
<1>2. UniqueInv'
  BY <1>0 DEF UniqueInv, RowsInv, SendingInv, WholeOrNothing, BilledOnce, RepliesAreTrue, Open, KeysOf, Committed
<1>3. SendingInv'
  BY <1>0 DEF SendingInv, RowsInv, UniqueInv, WholeOrNothing, BilledOnce, RepliesAreTrue, Open, KeysOf, Committed
<1>4. WholeOrNothing'
  BY <1>0, <1>a DEF WholeOrNothing, RowsInv, Open, KeysOf
<1>5. BilledOnce'
  BY <1>0 DEF BilledOnce, RowsInv, SendingInv, UniqueInv, WholeOrNothing, RepliesAreTrue, Open, KeysOf, Committed
<1>6. RepliesAreTrue'
  <2> SUFFICES ASSUME NEW q \in Requests, reply'[q] \in {"200", "201"}
               PROVE  /\ \A i \in rows'[q] : billed'[i] = 1
                      /\ reply'[q] = "200" <=> rows'[q] = {}
    BY <1>1, RepliesFromRows
  <2> QED  BY DEF RepliesAreTrue, RowsInv, SendingInv, UniqueInv, Open
<1> QED  BY <1>1, <1>2, <1>3, <1>4, <1>5, <1>6

LEMMA InsertKeeps ==
    ASSUME Before, Stays, NEW r \in Requests, NEW k \in Keys, Insert(r, k)
    PROVE  IntakeInv'
<1> USE DEF Before, Stays, IntakeInv, TypeOK, Respond, Insert, Inserts
<1>0. KeysOf(r) \subseteq Keys /\ DOMAIN body[r] = 1 .. Len(body[r])
  BY KeysAreKeys
<1>a. \A q \in Requests : KeysOf(q)' = KeysOf(q)
  BY DEF KeysOf
<1>b. /\ at' = at /\ existing' = existing /\ sending' = sending
      /\ reply' = reply /\ billed' = billed /\ body' = body
      /\ \A q \in Requests : q # r => rows'[q] = rows[q] /\ next'[q] = next[q]
      /\ rows'[r] = rows[r] \cup {k} /\ next'[r] = next[r] + 1
  OBVIOUS
<1>c. /\ at[r] = "insert" /\ reply[r] = "none"
      /\ next[r] \in DOMAIN body[r] /\ k = body[r][next[r]]
      /\ k \in KeysOf(r) \ existing[r]
  BY <1>0 DEF RowsInv, Open, KeysOf
<1>1. RowsInv'
  <2> SUFFICES ASSUME NEW q \in Requests
               PROVE  /\ at'[q] = "new" => existing'[q] = {} /\ next'[q] = 1
                      /\ at'[q] \in {"new", "insert"} => sending'[q] = {}
                      /\ at'[q] # "done" => reply'[q] = "none"
                      /\ at'[q] = "new" => rows'[q] = {}
                      /\ rows'[q] \subseteq KeysOf(q)' \ existing'[q]
                      /\ \A i \in existing'[q] : Committed(i)'
                      /\ Open(q)' =>
                            \A i \in DOMAIN body'[q] :
                               i < next'[q] =>
                                   body'[q][i] \in existing'[q] \cup rows'[q]
                      /\ at'[q] = "enqueue" \/ reply'[q] \in {"200", "201"} =>
                            rows'[q] = KeysOf(q)' \ existing'[q]
    BY DEF RowsInv
  <2>1. /\ at'[q] = "new" => existing'[q] = {} /\ next'[q] = 1
        /\ at'[q] \in {"new", "insert"} => sending'[q] = {}
        /\ at'[q] # "done" => reply'[q] = "none"
        /\ at'[q] = "new" => rows'[q] = {}
        /\ rows'[q] \subseteq KeysOf(q)' \ existing'[q]
    BY <1>a, <1>b, <1>c DEF RowsInv
  <2>2. \A i \in existing'[q] : Committed(i)'
    BY <1>b DEF RowsInv
  <2>3. Open(q)' => \A i \in DOMAIN body'[q] :
                       i < next'[q] =>
                           body'[q][i] \in existing'[q] \cup rows'[q]
    <3>1. CASE q = r
      <4> SUFFICES ASSUME NEW i \in DOMAIN body[r], i < next[r] + 1
                   PROVE  body[r][i] \in existing[r] \cup rows[r] \cup {k}
        BY <1>b, <3>1
      <4>1. i < next[r] \/ i = next[r]
        BY <1>0
      <4> QED  BY <4>1, <1>c DEF RowsInv, Open
    <3>2. CASE q # r
      BY <1>b, <3>2 DEF RowsInv, Open
    <3> QED  BY <3>1, <3>2
  <2>4. at'[q] = "enqueue" \/ reply'[q] \in {"200", "201"} =>
            rows'[q] = KeysOf(q)' \ existing'[q]
    BY <1>a, <1>b, <1>c DEF RowsInv
  <2> QED  BY <2>1, <2>2, <2>3, <2>4
<1>2. UniqueInv'
  BY <1>0 DEF UniqueInv, RowsInv, SendingInv, WholeOrNothing, BilledOnce, RepliesAreTrue, Open, KeysOf, Committed
<1>3. SendingInv'
  BY <1>0 DEF SendingInv, RowsInv, UniqueInv, WholeOrNothing, BilledOnce, RepliesAreTrue, Open, KeysOf, Committed
<1>4. WholeOrNothing'
  BY <1>0, <1>a DEF WholeOrNothing, RowsInv, Open, KeysOf
<1>5. BilledOnce'
  BY <1>0 DEF BilledOnce, RowsInv, SendingInv, UniqueInv, WholeOrNothing, RepliesAreTrue, Open, KeysOf, Committed
<1>6. RepliesAreTrue'
  <2> SUFFICES ASSUME NEW q \in Requests, reply'[q] \in {"200", "201"}
               PROVE  /\ \A i \in rows'[q] : billed'[i] = 1
                      /\ reply'[q] = "200" <=> rows'[q] = {}
    BY <1>1, RepliesFromRows
  <2> QED  BY <1>b, <1>c DEF RepliesAreTrue
<1> QED  BY <1>1, <1>2, <1>3, <1>4, <1>5, <1>6

LEMMA AbortsKeeps ==
    ASSUME Before, Stays, NEW r \in Requests, Aborts(r)
    PROVE  IntakeInv'
<1> USE DEF Before, Stays, IntakeInv, TypeOK, Respond, Aborts, Abort
<1>0. KeysOf(r) \subseteq Keys /\ DOMAIN body[r] = 1 .. Len(body[r])
  BY KeysAreKeys
<1>a. \A q \in Requests : KeysOf(q)' = KeysOf(q)
  BY DEF KeysOf
<1>1. RowsInv'
  BY <1>0 DEF RowsInv, SendingInv, UniqueInv, WholeOrNothing, BilledOnce, RepliesAreTrue, Open, KeysOf, Committed
<1>2. UniqueInv'
  BY <1>0 DEF UniqueInv, RowsInv, SendingInv, WholeOrNothing, BilledOnce, RepliesAreTrue, Open, KeysOf, Committed
<1>3. SendingInv'
  BY <1>0 DEF SendingInv, RowsInv, UniqueInv, WholeOrNothing, BilledOnce, RepliesAreTrue, Open, KeysOf, Committed
<1>4. WholeOrNothing'
  BY <1>0, <1>a DEF WholeOrNothing, RowsInv, Open, KeysOf
<1>5. BilledOnce'
  BY <1>0 DEF BilledOnce, RowsInv, SendingInv, UniqueInv, WholeOrNothing, RepliesAreTrue, Open, KeysOf, Committed
<1>6. RepliesAreTrue'
  <2> SUFFICES ASSUME NEW q \in Requests, reply'[q] \in {"200", "201"}
               PROVE  /\ \A i \in rows'[q] : billed'[i] = 1
                      /\ reply'[q] = "200" <=> rows'[q] = {}
    BY <1>1, RepliesFromRows
  <2> QED  BY DEF RepliesAreTrue, RowsInv, SendingInv, UniqueInv, Open
<1> QED  BY <1>1, <1>2, <1>3, <1>4, <1>5, <1>6

LEMMA CommitKeeps ==
    ASSUME Before, Stays, NEW r \in Requests, Commit(r)
    PROVE  IntakeInv'
<1> USE DEF Before, Stays, IntakeInv, TypeOK, Respond, Commit
<1>0. KeysOf(r) \subseteq Keys /\ DOMAIN body[r] = 1 .. Len(body[r])
  BY KeysAreKeys
<1>a. \A q \in Requests : KeysOf(q)' = KeysOf(q)
  BY DEF KeysOf
<1>1. RowsInv'
  BY <1>0 DEF RowsInv, SendingInv, UniqueInv, WholeOrNothing, BilledOnce, RepliesAreTrue, Open, KeysOf, Committed
<1>2. UniqueInv'
  BY <1>0 DEF UniqueInv, RowsInv, SendingInv, WholeOrNothing, BilledOnce, RepliesAreTrue, Open, KeysOf, Committed
<1>3. SendingInv'
  BY <1>0 DEF SendingInv, RowsInv, UniqueInv, WholeOrNothing, BilledOnce, RepliesAreTrue, Open, KeysOf, Committed
<1>4. WholeOrNothing'
  <2>1. \A q \in Requests : at'[q] = "enqueue" =>
                rows'[q] = KeysOf(q)' \ existing'[q]
    BY <1>1 DEF RowsInv
  <2>2. \A q \in Requests \ {r} : Open(q)' = Open(q)
    BY DEF Open
  <2> QED  BY <1>a, <2>1, <2>2 DEF WholeOrNothing
<1>5. BilledOnce'
  BY <1>0 DEF BilledOnce, RowsInv, SendingInv, UniqueInv, WholeOrNothing, RepliesAreTrue, Open, KeysOf, Committed
<1>6. RepliesAreTrue'
  <2> SUFFICES ASSUME NEW q \in Requests, reply'[q] \in {"200", "201"}
               PROVE  /\ \A i \in rows'[q] : billed'[i] = 1
                      /\ reply'[q] = "200" <=> rows'[q] = {}
    BY <1>1, RepliesFromRows
  <2> QED  BY DEF RepliesAreTrue, RowsInv, SendingInv, UniqueInv, Open
<1> QED  BY <1>1, <1>2, <1>3, <1>4, <1>5, <1>6

LEMMA EnqueueBillingKeeps ==
    ASSUME Before, Stays, NEW r \in Requests, NEW k \in Keys, EnqueueBilling(r, k)
    PROVE  IntakeInv'
<1> USE DEF Before, Stays, IntakeInv, TypeOK, Respond, EnqueueBilling
<1>0. KeysOf(r) \subseteq Keys /\ DOMAIN body[r] = 1 .. Len(body[r])
  BY KeysAreKeys
<1>a. \A q \in Requests : KeysOf(q)' = KeysOf(q)
  BY DEF KeysOf
<1>1. RowsInv'
  BY <1>0 DEF RowsInv, SendingInv, UniqueInv, WholeOrNothing, BilledOnce, RepliesAreTrue, Open, KeysOf, Committed
<1>2. UniqueInv'
  BY <1>0 DEF UniqueInv, RowsInv, SendingInv, WholeOrNothing, BilledOnce, RepliesAreTrue, Open, KeysOf, Committed
<1>3. SendingInv'
  BY <1>0 DEF SendingInv, RowsInv, UniqueInv, WholeOrNothing, BilledOnce, RepliesAreTrue, Open, KeysOf, Committed
<1>4. WholeOrNothing'
  BY <1>0, <1>a DEF WholeOrNothing, RowsInv, Open, KeysOf
<1>5. BilledOnce'
  BY <1>0 DEF BilledOnce, RowsInv, SendingInv, UniqueInv, WholeOrNothing, RepliesAreTrue, Open, KeysOf, Committed
<1>6. RepliesAreTrue'
  <2> SUFFICES ASSUME NEW q \in Requests, reply'[q] \in {"200", "201"}
               PROVE  /\ \A i \in rows'[q] : billed'[i] = 1
                      /\ reply'[q] = "200" <=> rows'[q] = {}
    BY <1>1, RepliesFromRows
  <2> QED  BY DEF RepliesAreTrue, RowsInv, SendingInv, UniqueInv, Open
<1> QED  BY <1>1, <1>2, <1>3, <1>4, <1>5, <1>6

LEMMA EnqueueFailsKeeps ==
    ASSUME Before, Stays, NEW r \in Requests, NEW k \in Keys, EnqueueFails(r, k)
    PROVE  IntakeInv'
<1> USE DEF Before, Stays, IntakeInv, TypeOK, Respond, EnqueueFails
<1>0. KeysOf(r) \subseteq Keys /\ DOMAIN body[r] = 1 .. Len(body[r])
  BY KeysAreKeys
<1>a. \A q \in Requests : KeysOf(q)' = KeysOf(q)
  BY DEF KeysOf
<1>1. RowsInv'
  BY <1>0 DEF RowsInv, SendingInv, UniqueInv, WholeOrNothing, BilledOnce, RepliesAreTrue, Open, KeysOf, Committed
<1>2. UniqueInv'
  BY <1>0 DEF UniqueInv, RowsInv, SendingInv, WholeOrNothing, BilledOnce, RepliesAreTrue, Open, KeysOf, Committed
<1>3. SendingInv'
  BY <1>0 DEF SendingInv, RowsInv, UniqueInv, WholeOrNothing, BilledOnce, RepliesAreTrue, Open, KeysOf, Committed
<1>4. WholeOrNothing'
  BY <1>0, <1>a DEF WholeOrNothing, RowsInv, Open, KeysOf
<1>5. BilledOnce'
  BY <1>0 DEF BilledOnce, RowsInv, SendingInv, UniqueInv, WholeOrNothing, RepliesAreTrue, Open, KeysOf, Committed
<1>6. RepliesAreTrue'
  <2> SUFFICES ASSUME NEW q \in Requests, reply'[q] \in {"200", "201"}
               PROVE  /\ \A i \in rows'[q] : billed'[i] = 1
                      /\ reply'[q] = "200" <=> rows'[q] = {}
    BY <1>1, RepliesFromRows
  <2> QED  BY DEF RepliesAreTrue, RowsInv, SendingInv, UniqueInv, Open
<1> QED  BY <1>1, <1>2, <1>3, <1>4, <1>5, <1>6

LEMMA AnswerKeeps ==
    ASSUME Before, Stays, NEW r \in Requests, Answer(r)
    PROVE  IntakeInv'
<1> USE DEF Before, Stays, IntakeInv, TypeOK, Respond, Answer
<1>0. KeysOf(r) \subseteq Keys /\ DOMAIN body[r] = 1 .. Len(body[r])
  BY KeysAreKeys
<1>a. \A q \in Requests : KeysOf(q)' = KeysOf(q)
  BY DEF KeysOf
<1>1. RowsInv'
  BY <1>0 DEF RowsInv, SendingInv, UniqueInv, WholeOrNothing, BilledOnce, RepliesAreTrue, Open, KeysOf, Committed
<1>2. UniqueInv'
  BY <1>0 DEF UniqueInv, RowsInv, SendingInv, WholeOrNothing, BilledOnce, RepliesAreTrue, Open, KeysOf, Committed
<1>3. SendingInv'
  BY <1>0 DEF SendingInv, RowsInv, UniqueInv, WholeOrNothing, BilledOnce, RepliesAreTrue, Open, KeysOf, Committed
<1>4. WholeOrNothing'
  BY <1>0, <1>a DEF WholeOrNothing, RowsInv, Open, KeysOf
<1>5. BilledOnce'
  BY <1>0 DEF BilledOnce, RowsInv, SendingInv, UniqueInv, WholeOrNothing, RepliesAreTrue, Open, KeysOf, Committed
<1>6. RepliesAreTrue'
  <2> SUFFICES ASSUME NEW q \in Requests, reply'[q] \in {"200", "201"}
               PROVE  /\ \A i \in rows'[q] : billed'[i] = 1
                      /\ reply'[q] = "200" <=> rows'[q] = {}
    BY <1>1, RepliesFromRows
  <2> QED  BY DEF RepliesAreTrue, RowsInv, SendingInv, UniqueInv, Open
<1> QED  BY <1>1, <1>2, <1>3, <1>4, <1>5, <1>6

LEMMA ApiDiesKeeps ==
    ASSUME Before, Stays, ApiDies
    PROVE  IntakeInv'
<1> USE DEF Before, Stays, IntakeInv, TypeOK, ApiDies
<1>a. \A q \in Requests : KeysOf(q)' = KeysOf(q)
  BY DEF KeysOf
<1>b. \A q \in Requests :
          /\ ~Open(q)'
          /\ rows'[q] \subseteq rows[q]
          /\ ~Open(q) => rows'[q] = rows[q]
          /\ Open(q) => rows'[q] = {}
          /\ sending'[q] = {}
          /\ reply'[q] # "none" => at'[q] = "done"
          /\ at'[q] = "new" => at[q] = "new"
          /\ at'[q] \in {"new", "done"}
          /\ reply'[q] \in {"200", "201"} => reply'[q] = reply[q] /\ ~Open(q)
  BY DEF Open, RowsInv, Reply, Handler
<1>1. RowsInv'
  BY <1>a, <1>b DEF RowsInv, Handler, Reply
<1>2. UniqueInv'
  BY <1>b DEF UniqueInv
<1>3. SendingInv'
  BY <1>b DEF SendingInv
<1>4. WholeOrNothing'
  BY <1>a, <1>b DEF WholeOrNothing
<1>5. BilledOnce'
  BY DEF BilledOnce
<1>6. RepliesAreTrue'
  <2> SUFFICES ASSUME NEW q \in Requests, reply'[q] \in {"200", "201"}
               PROVE  /\ \A i \in rows'[q] : billed'[i] = 1
                      /\ reply'[q] = "200" <=> rows'[q] = {}
    BY <1>1, RepliesFromRows
  <2> QED  BY <1>b DEF RepliesAreTrue
<1> QED  BY <1>1, <1>2, <1>3, <1>4, <1>5, <1>6

LEMMA UnchangedKeeps ==
    ASSUME Before, UNCHANGED vars
    PROVE  IntakeInv'
BY DEF Before, vars, IntakeInv, RowsInv, UniqueInv, SendingInv, WholeOrNothing,
       BilledOnce, RepliesAreTrue, Open, KeysOf, Committed

LEMMA InvStep == TypeOK /\ IntakeInv /\ [Next]_vars => IntakeInv'
<1> SUFFICES ASSUME TypeOK, IntakeInv, [Next]_vars PROVE IntakeInv'
  OBVIOUS
<1>1. Before /\ Stays
  BY TypeStep, CommittedStays DEF Before, Stays, IntakeInv
<1>2. ASSUME NEW r \in Requests,
             \/ Refuse(r) \/ Find(r) \/ Skip(r) \/ BreakDeadlock(r)
             \/ DatabaseFails(r) \/ Commit(r) \/ Answer(r)
      PROVE  IntakeInv'
  BY <1>1, <1>2, RefuseKeeps, FindKeeps, SkipKeeps, DeadlockAborts, AbortsKeeps,
     CommitKeeps, AnswerKeeps
<1>3. ASSUME NEW r \in Requests, NEW k \in Keys,
             \/ Insert(r, k) \/ Clash(r, k) \/ EnqueueBilling(r, k)
             \/ EnqueueFails(r, k)
      PROVE  IntakeInv'
  BY <1>1, <1>3, InsertKeeps, AbortCases, AbortsKeeps, EnqueueBillingKeeps,
     EnqueueFailsKeeps
<1>4. CASE ApiDies
  BY <1>1, <1>4, ApiDiesKeeps
<1>5. CASE UNCHANGED vars
  BY <1>1, <1>5, UnchangedKeeps
<1> QED  BY <1>2, <1>3, <1>4, <1>5 DEF Next

(* Whatever the interleaving of requests, the clashes of their keys and    *)
(* the deaths of the API: rows are created whole and by one request each,  *)
(* and each billing is enqueued at most once, after its row's commit.      *)
THEOREM IntakeSafe == Spec => []IntakeInv
<1>1. Init => IntakeInv
  BY InvInit
<1> QED  BY <1>1, InvStep, Types, PTL DEF Spec

(* A 201 or 200 of POST /orders says what became of the orders.            *)
THEOREM Replies == Spec => []RepliesAreTrue
<1>1. IntakeInv => RepliesAreTrue
  BY DEF IntakeInv
<1> QED  BY <1>1, IntakeSafe, PTL

(* A bulk POST creates all of its missing orders or none.                  *)
THEOREM Whole == Spec => []WholeOrNothing
<1>1. IntakeInv => WholeOrNothing
  BY DEF IntakeInv
<1> QED  BY <1>1, IntakeSafe, PTL

(* No order's process_billing is enqueued twice by POST /orders.           *)
THEOREM Billed == Spec => []BilledOnce
<1>1. IntakeInv => BilledOnce
  BY DEF IntakeInv
<1> QED  BY <1>1, IntakeSafe, PTL
-----------------------------------------------------------------------------
(* The saga's view changes only with what is committed, sent and billed. *)
LEMMA Unseen ==
    ASSUME \A k \in Keys : Committed(k)' <=> Committed(k),
           \A k \in Keys : Sent(k)' <=> Sent(k),
           billed' = billed
    PROVE  UNCHANGED Api!intakeVars
<1>1. \A k \in Keys : /\ Global(k)' = Global(k)
                      /\ Stage(k)' = Stage(k)
  BY DEF Global, Stage
<1>2. \A j : \A k \in Keys : JobOf(k, j)' = JobOf(k, j)
  BY DEF JobOf
<1> QED
  BY <1>1, <1>2
  DEF Api!intakeVars, Api!rowVars, Api!queueVars, Api!apiVars

(* A request's step touches its own rows and enqueues only. *)
LEMMA CommitSeen ==
    ASSUME TypeOK, TypeOK', IntakeInv, NEW r \in Requests, Commit(r)
    PROVE  Api!Intake \/ UNCHANGED Api!intakeVars
<1> USE DEF TypeOK, IntakeInv
<1>1. /\ \A q \in Requests : q # r => (Open(q)' <=> Open(q))
      /\ Open(r) /\ ~Open(r)' /\ rows' = rows
      /\ \A q \in Requests : q # r => sending'[q] = sending[q]
      /\ sending[r] = {} /\ sending'[r] = rows[r] /\ billed' = billed
  BY DEF Commit, Open, RowsInv
<1>2. \A k \in Keys : Committed(k)' <=> Committed(k) \/ k \in rows[r]
  BY <1>1 DEF Committed
<1>3. \A k \in Keys : Sent(k)' <=> Sent(k) \/ k \in rows[r]
  BY <1>1 DEF Sent
<1>4. CASE rows[r] = {}
  BY <1>1, <1>2, <1>3, <1>4, Unseen
<1>5. CASE rows[r] # {}
  <2>1. \A k \in rows[r] : ~Committed(k)
    BY <1>1 DEF Committed, UniqueInv
  <2>2. \A k \in Keys : /\ Global(k)' = IF k \in rows[r] THEN "PROCESSING"
                                          ELSE Global(k)
                        /\ Stage(k)' = IF k \in rows[r] THEN "committed"
                                         ELSE Stage(k)
    BY <1>2, <1>3 DEF Global, Stage
  <2>3. \A j : \A k \in Keys : JobOf(k, j)' = JobOf(k, j)
    BY <1>1 DEF JobOf
  <2>4. rows[r] \in SUBSET Keys /\ \A k \in rows[r] : Stage(k) = "none"
    BY <2>1 DEF Stage
  <2>5. Api!CreateOrders(rows[r])
    BY <1>5, <2>2, <2>3, <2>4 DEF Api!CreateOrders, Api!queueVars
  <2> QED  BY <2>4, <2>5 DEF Api!Intake
<1> QED  BY <1>4, <1>5

LEMMA EnqueueSeen ==
    ASSUME TypeOK, IntakeInv, NEW r \in Requests, NEW k \in Keys,
           EnqueueBilling(r, k) \/ EnqueueFails(r, k)
    PROVE  Api!Intake
<1> USE DEF TypeOK, IntakeInv
<1>1. k \in sending[r] /\ k \in rows[r] /\ billed[k] = 0 /\ ~Open(r)
  BY DEF EnqueueBilling, EnqueueFails, SendingInv, RowsInv, Open
<1>2. /\ rows' = rows
      /\ \A q \in Requests : Open(q)' <=> Open(q)
      /\ \A q \in Requests : q # r => sending'[q] = sending[q]
      /\ sending'[r] = sending[r] \ {k}
  BY <1>1 DEF EnqueueBilling, EnqueueFails, Respond, Open
<1>3. \A q \in Requests : q # r => k \notin sending[q]
  BY <1>1 DEF SendingInv, UniqueInv
<1>4. \A i \in Keys : Committed(i)' <=> Committed(i)
  BY <1>2 DEF Committed
<1>5. \A i \in Keys : Sent(i)' <=> Sent(i) /\ i # k
  BY <1>2, <1>3 DEF Sent
<1>6. Committed(k) /\ Sent(k)
  BY <1>1 DEF Committed, Sent
<1>7. \A i \in Keys : /\ Global(i)' = Global(i)
                      /\ Stage(i)' = IF i = k THEN "ended" ELSE Stage(i)
  BY <1>4, <1>5, <1>6 DEF Global, Stage
<1>8. Stage(k) = "committed"
  BY <1>6 DEF Stage
<1>9. CASE EnqueueBilling(r, k)
  <2>1. \A j : \A i \in Keys :
            JobOf(i, j)' = IF i = k /\ j = "billing" THEN "queued"
                           ELSE JobOf(i, j)
    BY <1>9 DEF EnqueueBilling, JobOf
  <2>2. JobOf(k, "billing") = "absent"
    BY <1>1 DEF JobOf
  <2>3. Api!EnqueueBilling(k)
    BY <1>7, <1>8, <2>1, <2>2
    DEF Api!EnqueueBilling, Api!Enqueue, Api!Enqueued, Api!rowVars
  <2> QED  BY <2>3 DEF Api!Intake
<1>10. CASE EnqueueFails(r, k)
  <2>1. \A j : \A i \in Keys : JobOf(i, j)' = JobOf(i, j)
    BY <1>10 DEF EnqueueFails, JobOf
  <2>2. Api!ApiFails({k})
    BY <1>7, <1>8, <2>1 DEF Api!ApiFails, Api!rowVars, Api!queueVars
  <2> QED  BY <2>2 DEF Api!Intake
<1> QED  BY <1>9, <1>10

LEMMA DeathSeen ==
    ASSUME TypeOK, IntakeInv, ApiDies
    PROVE  Api!Intake \/ UNCHANGED Api!intakeVars
<1> USE DEF TypeOK, IntakeInv
<1> DEFINE S == {k \in Keys : Sent(k)}
<1>1. \A q \in Requests : /\ ~Open(q)' /\ sending'[q] = {}
                          /\ rows'[q] = IF Open(q) THEN {} ELSE rows[q]
  BY DEF ApiDies, Open
<1>2. \A k \in Keys : Committed(k)' <=> Committed(k)
  BY <1>1 DEF Committed
<1>3. \A k \in Keys : ~Sent(k)'
  BY <1>1 DEF Sent
<1>4. \A k \in S : Committed(k)
  BY DEF Sent, SendingInv, RowsInv, Open, Committed
<1>5. billed' = billed
  BY DEF ApiDies
<1>6. CASE S = {}
  BY <1>2, <1>3, <1>5, <1>6, Unseen
<1>7. CASE S # {}
  <2>1. \A k \in Keys : /\ Global(k)' = Global(k)
                        /\ Stage(k)' = IF k \in S THEN "ended" ELSE Stage(k)
                        /\ k \in S => Stage(k) = "committed"
    BY <1>2, <1>3, <1>4 DEF Global, Stage
  <2>2. \A j : \A k \in Keys : JobOf(k, j)' = JobOf(k, j)
    BY <1>5 DEF JobOf
  <2>3. S \in SUBSET Keys
    OBVIOUS
  <2> HIDE DEF S
  <2>4. Api!ApiFails(S)
    BY <1>7, <2>1, <2>2, <2>3 DEF Api!ApiFails, Api!rowVars, Api!queueVars
  <2> QED  BY <2>3, <2>4 DEF Api!Intake
<1> QED  BY <1>6, <1>7

LEMMA OthersUnseen ==
    ASSUME TypeOK, IntakeInv, NEW r \in Requests,
           \/ Refuse(r) \/ Find(r) \/ Skip(r) \/ Answer(r)
           \/ Aborts(r) \/ (\E k \in Keys : Insert(r, k))
    PROVE  UNCHANGED Api!intakeVars
<1> USE DEF TypeOK, IntakeInv, Respond
<1>1. CASE Refuse(r) \/ Find(r) \/ Skip(r) \/ Answer(r)
  <2>1. /\ rows' = rows /\ sending' = sending /\ billed' = billed
        /\ \A q \in Requests : q # r => (Open(q)' <=> Open(q))
        /\ rows[r] = {} \/ (Open(r)' <=> Open(r))
    BY <1>1 DEF Refuse, Find, Skip, Answer, Open, RowsInv
  <2> QED  BY <2>1, Unseen DEF Committed, Sent
<1>2. CASE \E k \in Keys : Insert(r, k)
  <2>1. /\ at' = at /\ sending' = sending /\ billed' = billed /\ Open(r)
        /\ \A q \in Requests : q # r => rows'[q] = rows[q]
    BY <1>2 DEF Insert, Inserts
  <2> QED  BY <2>1, Unseen DEF Committed, Sent, Open
<1>3. CASE Aborts(r)
  <2>1. /\ sending' = sending /\ billed' = billed
        /\ \A q \in Requests : q # r => /\ Open(q)' <=> Open(q)
                                        /\ rows'[q] = rows[q]
        /\ rows'[r] = {} /\ (Open(r) \/ rows[r] = {})
    BY <1>3 DEF Aborts, Abort, Open, RowsInv
  <2> QED  BY <2>1, Unseen DEF Committed, Sent
<1> QED  BY <1>1, <1>2, <1>3

LEMMA IntakeStep ==
    TypeOK /\ TypeOK' /\ IntakeInv /\ [Next]_vars => [Api!Intake]_(Api!intakeVars)
<1> SUFFICES ASSUME TypeOK, TypeOK', IntakeInv, [Next]_vars
             PROVE  Api!Intake \/ UNCHANGED Api!intakeVars
  OBVIOUS
<1>1. ASSUME NEW r \in Requests,
             \/ Refuse(r) \/ Find(r) \/ Skip(r) \/ Answer(r) \/ Commit(r)
             \/ BreakDeadlock(r) \/ DatabaseFails(r)
      PROVE  Api!Intake \/ UNCHANGED Api!intakeVars
  BY <1>1, OthersUnseen, DeadlockAborts, CommitSeen
<1>2. ASSUME NEW r \in Requests, NEW k \in Keys,
             \/ Clash(r, k) \/ Insert(r, k) \/ EnqueueBilling(r, k)
             \/ EnqueueFails(r, k)
      PROVE  Api!Intake \/ UNCHANGED Api!intakeVars
  BY <1>2, OthersUnseen, AbortCases, EnqueueSeen
<1>3. CASE ApiDies
  BY <1>3, DeathSeen
<1>4. CASE UNCHANGED vars
  BY <1>4, Unseen DEF vars, Committed, Sent, Open
<1> QED  BY <1>1, <1>2, <1>3, <1>4 DEF Next

LEMMA IntakeStart == Init => Api!IntakeInit
<1> SUFFICES ASSUME Init PROVE Api!IntakeInit
  OBVIOUS
<1>1. \A k \in Keys : ~Committed(k) /\ billed[k] = 0
  BY DEF Init, Committed
<1>2. \A k \in Keys : Global(k) = "ABSENT" /\ Stage(k) = "none"
  BY <1>1 DEF Global, Stage
<1>3. \A j : \A k \in Keys : JobOf(k, j) = "absent"
  BY <1>1 DEF JobOf
<1>4. Api!JobIds = {"billing", "inventory", "logistics", "compensation"}
  BY DEF Api!JobIds, Api!Steps, Api!CompJobs
<1> QED
  BY <1>2, <1>3, <1>4
  DEF Api!IntakeInit, Api!TableInit, Api!QueueInit, Api!ApiInit, Api!Steps,
      Api!CompJobs

(* Bulk requests that interleave, repeat keys, clash, deadlock and die     *)
(* create orders just as OrderApi lets the saga see it: a set of new       *)
(* orders by one commit, then one enqueue for each, or none.               *)
THEOREM IntakeKept == Spec => KeepsIntake
<1>1. Init => Api!IntakeInit
  BY IntakeStart
<1> QED
  BY <1>1, Types, IntakeSafe, IntakeStep, PTL DEF Spec, KeepsIntake, Api!IntakeSpec
=============================================================================
