----------------------------- MODULE GaugeProofs -----------------------------
(***************************************************************************)
(* What TLAPS proves of ManualGauge: its types, which need that a count of *)
(* some orders never exceeds how many there are, and that its counts, once *)
(* they agree with the table, go on agreeing.                              *)
(***************************************************************************)
EXTENDS ManualGauge, FiniteSetTheorems, TLAPS

(* Some of the orders are at most all of them. *)
LEMMA CountBound ==
    ASSUME NEW S \in SUBSET Orders
    PROVE  Cardinality(S) \in 0 .. Cardinality(Orders)
<1>1. IsFiniteSet(S) /\ Cardinality(S) <= Cardinality(Orders)
  BY OrdersAssumption, FS_Subset
<1>2. Cardinality(S) \in Nat /\ Cardinality(Orders) \in Nat
  BY <1>1, OrdersAssumption, FS_CardinalityType
<1> QED  BY <1>1, <1>2

LEMMA InitType == Init => TypeOK
<1>1. 0 \in 0 .. Cardinality(Orders)
  BY OrdersAssumption, FS_CardinalityType
<1>2. 0 \in 0 .. MaxMishaps
  BY BoundsAssumption
<1> QED  BY <1>1, <1>2 DEF Init, TypeOK

(* What the API, the saga and an administrator do to the table. *)
LEMMA OrderType ==
    ASSUME TypeOK, NEW o \in Orders,
           \/ HandOver(o) \/ TakeBack(o) \/ ForceCancel(o) \/ SyncDropped(o)
           \/ \E j \in Jobs : EnqueueSync(o, j)
    PROVE  TypeOK'
<1>1. CASE HandOver(o) \/ TakeBack(o) \/ ForceCancel(o) \/ SyncDropped(o)
  BY <1>1 DEF TypeOK, HandOver, TakeBack, ForceCancel, SyncDropped
<1>2. ASSUME NEW j \in Jobs, EnqueueSync(o, j)  PROVE TypeOK'
  BY <1>2 DEF TypeOK, EnqueueSync, Move
<1> QED  BY <1>1, <1>2

(* What the scheduler's jobs do. *)
LEMMA JobType ==
    ASSUME TypeOK, NEW j \in Jobs,
           Cron(j) \/ Take(j) \/ Count(j) \/ SetGauge(j) \/ JobFails(j)
    PROVE  TypeOK'
<1>1. CASE Cron(j) \/ Take(j)
  BY <1>1 DEF TypeOK, Cron, Take, Move
<1>2. CASE Count(j)
  <2>1. Cardinality(manual) \in 0 .. Cardinality(Orders)
    BY CountBound DEF TypeOK
  <2> QED  BY <1>2, <2>1 DEF TypeOK, Count, Move
<1>3. CASE SetGauge(j)
  <2>1. 0 \in 0 .. Cardinality(Orders)
    BY OrdersAssumption, FS_CardinalityType
  <2> QED  BY <1>3, <2>1 DEF TypeOK, SetGauge, Move
<1>4. CASE JobFails(j)
  <2>1. mishaps' \in 0 .. MaxMishaps
    BY <1>4, BoundsAssumption DEF TypeOK, JobFails
  <2> QED  BY <1>4, <2>1 DEF TypeOK, JobFails, Move
<1> QED  BY <1>1, <1>2, <1>3, <1>4

LEMMA TypeStep == TypeOK /\ [Next]_vars => TypeOK'
<1> SUFFICES ASSUME TypeOK, [Next]_vars  PROVE TypeOK'
  OBVIOUS
<1>1. CASE NextSecond
  BY <1>1 DEF TypeOK, NextSecond
<1>2. CASE Restart
  <2>1. 0 \in 0 .. Cardinality(Orders)
    BY OrdersAssumption, FS_CardinalityType
  <2>2. mishaps' \in 0 .. MaxMishaps
    BY <1>2, BoundsAssumption DEF TypeOK, Restart
  <2> QED  BY <1>2, <2>1, <2>2 DEF TypeOK, Restart
<1>3. CASE UNCHANGED vars
  BY <1>3 DEF TypeOK, vars
<1> QED  BY <1>1, <1>2, <1>3, OrderType, JobType DEF Next

(* The gauge, and every count on its way to it, is at most the number of    *)
(* orders, in every interleaving of jobs, restarts and force-cancels.       *)
THEOREM GaugeType == Spec => []TypeOK
  BY InitType, TypeStep, PTL DEF Spec

(* No job's set undoes another's: see GaugeStaysTrue. *)
THEOREM GaugeStays == Spec => GaugeStaysTrue
<1>1. ASSUME TypeOK, Next, Synced, UNCHANGED <<manual, mishaps>>
      PROVE  Synced'
  <2>1. ASSUME NEW o \in Orders,
               \/ HandOver(o) \/ TakeBack(o) \/ ForceCancel(o) \/ SyncDropped(o)
        PROVE  Synced'
    BY <1>1, <2>1 DEF Synced, HandOver, TakeBack, ForceCancel, SyncDropped
  <2>2. ASSUME NEW o \in Orders, NEW j \in Jobs, EnqueueSync(o, j)
        PROVE  Synced'
    BY <1>1, <2>2 DEF Synced, EnqueueSync, Move, TypeOK
  <2>3. ASSUME NEW j \in Jobs, Cron(j) \/ Take(j)
        PROVE  Synced'
    BY <1>1, <2>3 DEF Synced, Cron, Take, Move, TypeOK
  <2>4. ASSUME NEW j \in Jobs, Count(j) \/ SetGauge(j)
        PROVE  Synced'
    BY <1>1, <2>4 DEF Synced, Count, SetGauge, Move, TypeOK
  <2>5. ASSUME \/ Restart
               \/ \E j \in Jobs : JobFails(j)
        PROVE  FALSE
    BY <1>1, <2>5 DEF Restart, JobFails, TypeOK
  <2>6. CASE NextSecond
    BY <1>1, <2>6 DEF Synced, NextSecond
  <2> QED  BY <1>1, <2>1, <2>2, <2>3, <2>4, <2>5, <2>6 DEF Next
<1>2. TypeOK /\ [Next]_vars =>
         [Synced /\ UNCHANGED <<manual, mishaps>> => Synced']_vars
  BY <1>1
<1> QED  BY <1>2, GaugeType, PTL DEF Spec, GaugeStaysTrue
=============================================================================
