--------------------------- MODULE AccountsProofs ---------------------------
(***************************************************************************)
(* What Accounts promises, proved for any number of requests, names and    *)
(* emails.                                                                 *)
(***************************************************************************)
EXTENDS Accounts, TLAPS

(* A step that answers at once, one that goes on, and the later ones. *)
Answers(r) ==
    \/ RegisterTaken(r)
    \/ LoginRefused(r)
    \/ \E k \in Bearers : Anonymous(r, k)
    \/ \E t \in Requests :
          \/ \E k \in Presenters \cup Bearers : Expired(r, t, k)
          \/ RefreshRevoked(r, t)
          \/ Me(r, t)
          \/ Order(r, t)
          \/ Admin(r, t)

Starts(r) ==
    \/ RegisterFree(r)
    \/ \E t \in Requests : Login(r, t) \/ Refresh(r, t) \/ Logout(r, t)

Rest(r) ==
    InsertUser(r) \/ InsertClash(r) \/ Revoke(r) \/ Commit(r) \/ Fails(r)

LEMMA NextCases ==
    ASSUME Next
    PROVE  \E r \in Requests : Answers(r) \/ Starts(r) \/ Rest(r)
<1>1. PICK r \in Requests :
        \/ RegisterTaken(r)
        \/ RegisterFree(r)
        \/ LoginRefused(r)
        \/ InsertUser(r)
        \/ InsertClash(r)
        \/ Revoke(r)
        \/ Commit(r)
        \/ Fails(r)
        \/ \E k \in Bearers : Anonymous(r, k)
        \/ \E t \in Requests :
              \/ Login(r, t)
              \/ \E k \in Presenters \cup Bearers : Expired(r, t, k)
              \/ RefreshRevoked(r, t)
              \/ Refresh(r, t)
              \/ Logout(r, t)
              \/ Me(r, t)
              \/ Order(r, t)
              \/ Admin(r, t)
  BY DEF Next
<1>2. Answers(r) \/ Starts(r) \/ Rest(r)
  BY <1>1 DEF Answers, Starts, Rest
<1> QED  BY <1>2

(* All answers given at once have one form, of which these are the facts. *)
AtOnce(r, k, t, status) ==
    /\ AnswerNow(r, k, t, status)
    /\ t \in Requests
    /\ \/ t = r /\ k \in {"register", "login"} \cup Bearers
       \/ Handed(t) /\ k \in Presenters \cup Bearers
    /\ status \in {"200", "201", "401", "403", "409", "500"}
    /\ k \in Issuers \cup {"logout"} => status \in {"401", "409"}
    /\ k = "register" => (status = "409" /\ Taken(r))
    /\ status = "500" => Handed(t) /\ user[t] \notin users

LEMMA AnswersAtOnce ==
    ASSUME TypeOK, NEW r \in Requests, Answers(r)
    PROVE  \E k \in Issuers \cup Presenters \cup Bearers, t \in Requests,
              status \in {"200", "201", "401", "403", "409", "500"} :
              AtOnce(r, k, t, status)
<1> USE DEF Issuers, Presenters, Bearers
<1>1. CASE RegisterTaken(r)
  <2>1. AtOnce(r, "register", r, "409")
    BY <1>1 DEF RegisterTaken, AtOnce
  <2> QED  BY <2>1
<1>2. CASE LoginRefused(r)
  <2>1. AtOnce(r, "login", r, "401")
    BY <1>2 DEF LoginRefused, AtOnce
  <2> QED  BY <2>1
<1>3. ASSUME NEW t \in Requests, NEW k \in Presenters \cup Bearers, Expired(r, t, k)
      PROVE  AtOnce(r, k, t, "401")
  BY <1>3 DEF Expired, AtOnce
<1>4. ASSUME NEW t \in Requests, RefreshRevoked(r, t)
      PROVE  AtOnce(r, "refresh", t, "401")
  BY <1>4 DEF RefreshRevoked, AtOnce
<1>5. ASSUME NEW t \in Requests, Me(r, t)
      PROVE  AtOnce(r, "me", t, IF user[t] \in users THEN "200" ELSE "500")
  BY <1>5 DEF Me, AtOnce
<1>6. ASSUME NEW t \in Requests, Order(r, t)
      PROVE  AtOnce(r, "order", t, "201")
  BY <1>6 DEF Order, AtOnce
<1>7. ASSUME NEW t \in Requests, Admin(r, t)
      PROVE  AtOnce(r, "admin", t,
                    IF user[t] \in users \cap Admins THEN "200" ELSE "403")
  BY <1>7 DEF Admin, AtOnce
<1>8. ASSUME NEW k \in Bearers, Anonymous(r, k)
      PROVE  AtOnce(r, k, r, IF k = "order" THEN "201" ELSE "401")
  BY <1>8 DEF Anonymous, AtOnce
<1>9. ASSUME NEW t \in Requests,
             \/ \E k \in Presenters \cup Bearers : Expired(r, t, k)
             \/ RefreshRevoked(r, t) \/ Me(r, t) \/ Order(r, t) \/ Admin(r, t)
      PROVE  \E k \in Issuers \cup Presenters \cup Bearers,
                status \in {"200", "201", "401", "403", "409", "500"} :
                AtOnce(r, k, t, status)
  <2>1. CASE \E k \in Presenters \cup Bearers : Expired(r, t, k)
    <3>1. PICK k \in Presenters \cup Bearers : Expired(r, t, k)
      BY <2>1
    <3> QED  BY <3>1, <1>3
  <2>2. CASE RefreshRevoked(r, t)
    BY <2>2, <1>4
  <2>3. CASE Me(r, t)
    BY <2>3, <1>5
  <2>4. CASE Order(r, t)
    BY <2>4, <1>6
  <2>5. CASE Admin(r, t)
    BY <2>5, <1>7
  <2> QED  BY <1>9, <2>1, <2>2, <2>3, <2>4, <2>5
<1>10. CASE \E k \in Bearers : Anonymous(r, k)
  <2>1. PICK k \in Bearers : Anonymous(r, k)
    BY <1>10
  <2>2. AtOnce(r, k, r, IF k = "order" THEN "201" ELSE "401")
    BY <2>1, <1>8
  <2> QED  BY <2>2
<1> QED  BY <1>1, <1>2, <1>9, <1>10 DEF Answers
-----------------------------------------------------------------------------
LEMMA TypeStep == TypeOK /\ [Next]_vars => TypeOK'
<1> SUFFICES ASSUME TypeOK, [Next]_vars PROVE TypeOK'
  OBVIOUS
<1> USE DEF TypeOK, Issuers, Presenters, Bearers
<1>1. CASE UNCHANGED vars
  BY <1>1 DEF vars
<1>2. ASSUME NEW r \in Requests, Answers(r) PROVE TypeOK'
  <2>1. PICK k \in Issuers \cup Presenters \cup Bearers, t \in Requests,
             status \in {"200", "201", "401", "403", "409", "500"} :
             AtOnce(r, k, t, status)
    BY <1>2, AnswersAtOnce
  <2> QED  BY <2>1 DEF AtOnce, AnswerNow
<1>3. ASSUME NEW r \in Requests, Starts(r) PROVE TypeOK'
  <2>1. \A t \in Requests : UsesEnded(t) \in SUBSET Requests
    BY DEF UsesEnded
  <2>2. CASE RegisterFree(r)
    BY <2>1, <2>2 DEF RegisterFree, GoOn
  <2>3. ASSUME NEW t \in Requests, Login(r, t) PROVE TypeOK'
    BY <2>1, <2>3 DEF Login, GoOn
  <2>4. ASSUME NEW t \in Requests, Refresh(r, t) PROVE TypeOK'
    BY <2>1, <2>4 DEF Refresh, GoOn
  <2>5. ASSUME NEW t \in Requests, Logout(r, t) PROVE TypeOK'
    BY <2>1, <2>5 DEF Logout, GoOn
  <2> QED  BY <1>3, <2>2, <2>3, <2>4, <2>5 DEF Starts
<1>4. ASSUME NEW r \in Requests, InsertUser(r) \/ Revoke(r) PROVE TypeOK'
  <2>1. CASE InsertUser(r)
    BY <2>1 DEF InsertUser
  <2>2. CASE Revoke(r)
    BY <2>2 DEF Revoke
  <2> QED  BY <1>4, <2>1, <2>2
<1>5. ASSUME NEW r \in Requests, InsertClash(r) \/ Fails(r) PROVE TypeOK'
  BY <1>5 DEF InsertClash, Fails, Ends
<1>6. ASSUME NEW r \in Requests, Commit(r) PROVE TypeOK'
  BY <1>6 DEF Commit, Stored, Ends, Success
<1> QED  BY <1>1, <1>2, <1>3, <1>4, <1>5, <1>6, NextCases DEF Rest

(* The handlers under /auth keep their variables in their types.           *)
THEOREM Types == Spec => []TypeOK
<1>1. Init => TypeOK
  BY DEF Init, TypeOK
<1> QED  BY <1>1, TypeStep, PTL DEF Spec
-----------------------------------------------------------------------------
LEMMA InvInit == ASSUME Init PROVE AccountsInv
BY DEF Init, AccountsInv, StageInv, RowsInv, UsedInv, OneAccountEach,
       HoldersExist, Handed, Inserted, Taken, UsedUp, Issuers, Presenters

Before == TypeOK /\ TypeOK' /\ AccountsInv

(* Each kind of step keeps the invariant. *)
LEMMA AtOnceKeeps ==
    ASSUME Before, NEW r \in Requests, NEW k, NEW t, NEW status,
           AtOnce(r, k, t, status)
    PROVE  AccountsInv'
<1> USE DEF Before, AccountsInv, TypeOK, Issuers, Presenters, Bearers, AtOnce, AnswerNow
<1>1. StageInv'
  BY DEF StageInv, RowsInv, UsedInv, OneAccountEach, HoldersExist, Handed, Inserted, Taken, UsedUp, UsesEnded
<1>2. RowsInv'
  BY DEF RowsInv, StageInv, UsedInv, OneAccountEach, HoldersExist, Handed, Inserted, Taken, UsedUp, UsesEnded
<1>3. UsedInv'
  BY DEF UsedInv, StageInv, RowsInv, OneAccountEach, HoldersExist, Handed, Inserted, Taken, UsedUp, UsesEnded
<1>4. OneAccountEach'
  BY DEF OneAccountEach, StageInv, RowsInv, UsedInv, HoldersExist, Handed, Inserted, Taken, UsedUp, UsesEnded
<1>5. HoldersExist'
  <2>1. status # "500"
    BY DEF HoldersExist
  <2>2. ~Handed(r)'
    BY DEF Handed
  <2>3. \A q \in Requests : Handed(q)' => Handed(q) /\ user'[q] = user[q]
    BY <2>2 DEF Handed
  <2>4. users' = users /\ token' = token
    OBVIOUS
  <2>5. \A q \in Requests : Handed(q)' => user'[q] \in users' /\ token'[q] # "none"
    BY <2>3, <2>4 DEF HoldersExist
  <2>6. \A q \in Requests : kind'[q] = "me" => reply'[q] # "500"
    BY <2>1 DEF HoldersExist
  <2> QED  BY <2>5, <2>6 DEF HoldersExist
<1> QED  BY <1>1, <1>2, <1>3, <1>4, <1>5

LEMMA RegisterFreeKeeps ==
    ASSUME Before, NEW r \in Requests, RegisterFree(r)
    PROVE  AccountsInv'
<1> USE DEF Before, AccountsInv, TypeOK, Issuers, Presenters, Bearers, RegisterFree, GoOn
<1>1. StageInv'
  BY DEF StageInv, RowsInv, UsedInv, OneAccountEach, HoldersExist, Handed, Inserted, Taken, UsedUp, UsesEnded
<1>2. RowsInv'
  BY DEF RowsInv, StageInv, UsedInv, OneAccountEach, HoldersExist, Handed, Inserted, Taken, UsedUp, UsesEnded
<1>3. UsedInv'
  BY DEF UsedInv, StageInv, RowsInv, OneAccountEach, HoldersExist, Handed, Inserted, Taken, UsedUp, UsesEnded
<1>4. OneAccountEach'
  BY DEF OneAccountEach, StageInv, RowsInv, UsedInv, HoldersExist, Handed, Inserted, Taken, UsedUp, UsesEnded
<1>5. HoldersExist'
  BY DEF HoldersExist, StageInv, RowsInv, UsedInv, OneAccountEach, Handed, Inserted, Taken, UsedUp, UsesEnded
<1> QED  BY <1>1, <1>2, <1>3, <1>4, <1>5

LEMMA LoginKeeps ==
    ASSUME Before, NEW r \in Requests, NEW t \in Requests, Login(r, t)
    PROVE  AccountsInv'
<1> USE DEF Before, AccountsInv, TypeOK, Issuers, Presenters, Bearers, Login, GoOn
<1>1. StageInv'
  BY DEF StageInv, RowsInv, UsedInv, OneAccountEach, HoldersExist, Handed, Inserted, Taken, UsedUp, UsesEnded
<1>2. RowsInv'
  BY DEF RowsInv, StageInv, UsedInv, OneAccountEach, HoldersExist, Handed, Inserted, Taken, UsedUp, UsesEnded
<1>3. UsedInv'
  BY DEF UsedInv, StageInv, RowsInv, OneAccountEach, HoldersExist, Handed, Inserted, Taken, UsedUp, UsesEnded
<1>4. OneAccountEach'
  BY DEF OneAccountEach, StageInv, RowsInv, UsedInv, HoldersExist, Handed, Inserted, Taken, UsedUp, UsesEnded
<1>5. HoldersExist'
  BY DEF HoldersExist, StageInv, RowsInv, UsedInv, OneAccountEach, Handed, Inserted, Taken, UsedUp, UsesEnded
<1> QED  BY <1>1, <1>2, <1>3, <1>4, <1>5

LEMMA RefreshKeeps ==
    ASSUME Before, NEW r \in Requests, NEW t \in Requests, Refresh(r, t)
    PROVE  AccountsInv'
<1> USE DEF Before, AccountsInv, TypeOK, Issuers, Presenters, Bearers, Refresh, GoOn
<1>1. StageInv'
  BY DEF StageInv, RowsInv, UsedInv, OneAccountEach, HoldersExist, Handed, Inserted, Taken, UsedUp, UsesEnded
<1>2. RowsInv'
  BY DEF RowsInv, StageInv, UsedInv, OneAccountEach, HoldersExist, Handed, Inserted, Taken, UsedUp, UsesEnded
<1>3. UsedInv'
  BY DEF UsedInv, StageInv, RowsInv, OneAccountEach, HoldersExist, Handed, Inserted, Taken, UsedUp, UsesEnded
<1>4. OneAccountEach'
  BY DEF OneAccountEach, StageInv, RowsInv, UsedInv, HoldersExist, Handed, Inserted, Taken, UsedUp, UsesEnded
<1>5. HoldersExist'
  BY DEF HoldersExist, StageInv, RowsInv, UsedInv, OneAccountEach, Handed, Inserted, Taken, UsedUp, UsesEnded
<1> QED  BY <1>1, <1>2, <1>3, <1>4, <1>5

LEMMA LogoutKeeps ==
    ASSUME Before, NEW r \in Requests, NEW t \in Requests, Logout(r, t)
    PROVE  AccountsInv'
<1> USE DEF Before, AccountsInv, TypeOK, Issuers, Presenters, Bearers, Logout, GoOn
<1>1. StageInv'
  BY DEF StageInv, RowsInv, UsedInv, OneAccountEach, HoldersExist, Handed, Inserted, Taken, UsedUp, UsesEnded
<1>2. RowsInv'
  BY DEF RowsInv, StageInv, UsedInv, OneAccountEach, HoldersExist, Handed, Inserted, Taken, UsedUp, UsesEnded
<1>3. UsedInv'
  BY DEF UsedInv, StageInv, RowsInv, OneAccountEach, HoldersExist, Handed, Inserted, Taken, UsedUp, UsesEnded
<1>4. OneAccountEach'
  BY DEF OneAccountEach, StageInv, RowsInv, UsedInv, HoldersExist, Handed, Inserted, Taken, UsedUp, UsesEnded
<1>5. HoldersExist'
  BY DEF HoldersExist, StageInv, RowsInv, UsedInv, OneAccountEach, Handed, Inserted, Taken, UsedUp, UsesEnded
<1> QED  BY <1>1, <1>2, <1>3, <1>4, <1>5

LEMMA InsertKeeps ==
    ASSUME Before, NEW r \in Requests, InsertUser(r)
    PROVE  AccountsInv'
<1> USE DEF Before, AccountsInv, TypeOK, Issuers, Presenters, Bearers, InsertUser
<1>1. StageInv'
  BY ConflictsAssumption DEF StageInv, RowsInv, UsedInv, OneAccountEach, HoldersExist, Handed, Inserted, Taken, UsedUp, UsesEnded
<1>2. RowsInv'
  BY ConflictsAssumption DEF RowsInv, StageInv, UsedInv, OneAccountEach, HoldersExist, Handed, Inserted, Taken, UsedUp, UsesEnded
<1>3. UsedInv'
  BY ConflictsAssumption DEF UsedInv, StageInv, RowsInv, OneAccountEach, HoldersExist, Handed, Inserted, Taken, UsedUp, UsesEnded
<1>4. OneAccountEach'
  BY ConflictsAssumption DEF OneAccountEach, StageInv, RowsInv, UsedInv, HoldersExist, Handed, Inserted, Taken, UsedUp, UsesEnded
<1>5. HoldersExist'
  BY ConflictsAssumption DEF HoldersExist, StageInv, RowsInv, UsedInv, OneAccountEach, Handed, Inserted, Taken, UsedUp, UsesEnded
<1> QED  BY <1>1, <1>2, <1>3, <1>4, <1>5

LEMMA FailKeeps ==
    ASSUME Before, NEW r \in Requests, InsertClash(r) \/ Fails(r)
    PROVE  AccountsInv'
<1> USE DEF Before, AccountsInv, TypeOK, Issuers, Presenters, Bearers, InsertClash, Fails, Ends
<1>1. StageInv'
  BY DEF StageInv, RowsInv, UsedInv, OneAccountEach, HoldersExist, Handed, Inserted, Taken, UsedUp, UsesEnded
<1>a. /\ users' = users /\ token' = token /\ of' = of /\ kind' = kind
      /\ \A q \in Requests : q # r => at'[q] = at[q] /\ marks'[q] = marks[q]
      /\ at'[r] = "done" /\ ~marks'[r]
  OBVIOUS
<1>b. /\ \A q \in Requests : Inserted(q)' => Inserted(q)
      /\ \A q \in Requests : Taken(q)' <=> Taken(q)
  BY <1>a DEF Inserted, Taken
<1>2. RowsInv'
  <2>1. \A q, p \in Requests :
            Inserted(q)' => /\ ~Taken(q)'
                            /\ Inserted(p)' /\ p # q => ~Conflicts(q, p)
    BY <1>b DEF RowsInv
  <2>2. \A q \in Requests :
            marks'[q] =>
                /\ at'[q] = "issue" /\ kind'[q] \in Presenters
                /\ token'[of'[q]] = "live"
                /\ \A p \in Requests : marks'[p] /\ of'[p] = of'[q] => p = q
    BY <1>a DEF RowsInv
  <2> QED  BY <2>1, <2>2 DEF RowsInv
<1>3. UsedInv'
  BY DEF UsedInv, StageInv, RowsInv, OneAccountEach, HoldersExist, Handed, Inserted, Taken, UsedUp, UsesEnded
<1>4. OneAccountEach'
  BY DEF OneAccountEach, StageInv, RowsInv, UsedInv, HoldersExist, Handed, Inserted, Taken, UsedUp, UsesEnded
<1>5. HoldersExist'
  BY DEF HoldersExist, StageInv, RowsInv, UsedInv, OneAccountEach, Handed, Inserted, Taken, UsedUp, UsesEnded
<1> QED  BY <1>1, <1>2, <1>3, <1>4, <1>5

LEMMA RevokeKeeps ==
    ASSUME Before, NEW r \in Requests, Revoke(r)
    PROVE  AccountsInv'
<1> USE DEF Before, AccountsInv, TypeOK, Issuers, Presenters, Bearers, Revoke
<1>1. StageInv'
  BY DEF StageInv, RowsInv, UsedInv, OneAccountEach, HoldersExist, Handed, Inserted, Taken, UsedUp, UsesEnded
<1>2. RowsInv'
  BY DEF RowsInv, StageInv, UsedInv, OneAccountEach, HoldersExist, Handed, Inserted, Taken, UsedUp, UsesEnded
<1>a. /\ token' = token /\ of' = of /\ kind' = kind /\ past' = past
      /\ reply' = reply /\ at[r] = "revoke"
      /\ \A q \in Requests : q # r => at'[q] = at[q] /\ marks'[q] = marks[q]
  OBVIOUS
<1>c. kind[r] \in Presenters => token[of[r]] # "none"
  BY DEF StageInv, HoldersExist
<1>d. ~marks'[r] => token[of[r]] # "live"
  <2>1. marks'[r] = (token[of[r]] = "live")
    OBVIOUS
  <2> QED  BY <2>1
<1>b. \A q \in Requests : /\ UsedUp(q)' <=> UsedUp(q)
                          /\ at[q] = "done" => at'[q] = "done"
  BY <1>a DEF UsedUp
<1>3. UsedInv'
  <2>1. \A q \in Requests :
            kind'[q] \in Presenters /\ at'[q] = "issue" /\ ~marks'[q] =>
                token'[of'[q]] = "revoked"
    BY <1>a, <1>c, <1>d DEF UsedInv
  <2>2. \A q \in Requests : UsedUp(q)' => token'[of'[q]] = "revoked"
    BY <1>a, <1>b DEF UsedInv
  <2>3. \A q \in Requests : \A p \in past'[q] : at'[p] = "done" /\ ~UsedUp(p)'
    BY <1>a, <1>b DEF UsedInv
  <2> QED  BY <2>1, <2>2, <2>3 DEF UsedInv
<1>4. OneAccountEach'
  BY DEF OneAccountEach, StageInv, RowsInv, UsedInv, HoldersExist, Handed, Inserted, Taken, UsedUp, UsesEnded
<1>5. HoldersExist'
  BY DEF HoldersExist, StageInv, RowsInv, UsedInv, OneAccountEach, Handed, Inserted, Taken, UsedUp, UsesEnded
<1> QED  BY <1>1, <1>2, <1>3, <1>4, <1>5

LEMMA CommitKeeps ==
    ASSUME Before, NEW r \in Requests, Commit(r)
    PROVE  AccountsInv'
<1> USE DEF Before, AccountsInv, TypeOK, Issuers, Presenters, Bearers, Commit, Stored, Ends, Success
<1>1. StageInv'
  BY ConflictsAssumption DEF StageInv, RowsInv, UsedInv, OneAccountEach, HoldersExist, Handed, Inserted, Taken, UsedUp, UsesEnded
<1>2. RowsInv'
  BY ConflictsAssumption DEF RowsInv, StageInv, UsedInv, OneAccountEach, HoldersExist, Handed, Inserted, Taken, UsedUp, UsesEnded
<1>3. UsedInv'
  BY ConflictsAssumption DEF UsedInv, StageInv, RowsInv, OneAccountEach, HoldersExist, Handed, Inserted, Taken, UsedUp, UsesEnded
<1>4. OneAccountEach'
  BY ConflictsAssumption DEF OneAccountEach, StageInv, RowsInv, UsedInv, HoldersExist, Handed, Inserted, Taken, UsedUp, UsesEnded
<1>5. HoldersExist'
  BY ConflictsAssumption DEF HoldersExist, StageInv, RowsInv, UsedInv, OneAccountEach, Handed, Inserted, Taken, UsedUp, UsesEnded
<1> QED  BY <1>1, <1>2, <1>3, <1>4, <1>5

LEMMA InvStep == TypeOK /\ AccountsInv /\ [Next]_vars => AccountsInv'
<1> SUFFICES ASSUME TypeOK, AccountsInv, [Next]_vars PROVE AccountsInv'
  OBVIOUS
<1>1. Before
  BY TypeStep DEF Before
<1>2. CASE UNCHANGED vars
  BY <1>2 DEF vars, AccountsInv, StageInv, RowsInv, UsedInv, OneAccountEach,
              HoldersExist, Handed, Inserted, Taken, UsedUp
<1>3. ASSUME NEW r \in Requests, Answers(r) PROVE AccountsInv'
  <2>1. \E k \in Issuers \cup Presenters \cup Bearers, t \in Requests,
           status \in {"200", "201", "401", "403", "409", "500"} :
           AtOnce(r, k, t, status)
    BY <1>1, <1>3, AnswersAtOnce
  <2> QED  BY <1>1, <2>1, AtOnceKeeps
<1>4. ASSUME NEW r \in Requests, Starts(r) PROVE AccountsInv'
  BY <1>1, <1>4, RegisterFreeKeeps, LoginKeeps, RefreshKeeps, LogoutKeeps
  DEF Starts
<1>5. ASSUME NEW r \in Requests, Rest(r) PROVE AccountsInv'
  BY <1>1, <1>5, InsertKeeps, FailKeeps, RevokeKeeps, CommitKeeps DEF Rest
<1> QED  BY <1>2, <1>3, <1>4, <1>5, NextCases

LEMMA AccountsSafe == Spec => []AccountsInv
<1>1. Init => AccountsInv
  BY InvInit
<1> QED  BY <1>1, InvStep, Types, PTL DEF Spec

(* However registrations race for a name or an email, one account comes of *)
(* them, and it is that of the request that was answered 201.              *)
THEOREM OneAccount == Spec => []OneAccountEach
<1>1. AccountsInv => OneAccountEach
  BY DEF AccountsInv
<1> QED  BY <1>1, AccountsSafe, PTL

(* refresh_tokens stores the new pair and revokes the old token in one.    *)
THEOREM Trades == Spec => []RefreshTrades
<1>1. AccountsInv => RefreshTrades
  BY DEF AccountsInv, UsedInv, UsedUp, RefreshTrades
<1> QED  BY <1>1, AccountsSafe, PTL

(* Two uses of one refresh token both have effect only if they overlap.    *)
THEOREM UsedOnce == Spec => []UsedUpOnce
<1>1. AccountsInv => UsedUpOnce
  BY DEF AccountsInv, UsedInv, UsedUpOnce
<1> QED  BY <1>1, AccountsSafe, PTL

(* A token that was handed out names a user the endpoints find.            *)
THEOREM Holders == Spec => []HoldersExist
<1>1. AccountsInv => HoldersExist
  BY DEF AccountsInv
<1> QED  BY <1>1, AccountsSafe, PTL
=============================================================================
