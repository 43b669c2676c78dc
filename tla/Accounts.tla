------------------------------ MODULE Accounts ------------------------------
(***************************************************************************)
(* The accounts: /auth/register, /login, /refresh and /logout, served side *)
(* by side, and the bearer tokens of the other endpoints.                  *)
(*                                                                         *)
(* A user is known by the request that registered it, and a pair of access *)
(* and refresh token by the request that issued it.  PostgreSQL keeps      *)
(* names and emails unique: an insert of one that an open transaction      *)
(* holds waits for that transaction.  An UPDATE of a refresh token's row   *)
(* waits for an open transaction that updated it, and then looks again.    *)
(***************************************************************************)
EXTENDS Integers

CONSTANTS
    Requests,
    Conflicts(_, _),   \* two registrations ask for one name or one email
    Admins             \* the users an operator makes administrators

VARIABLES
    kind,      \* what the request asks for
    of,        \* the request whose token it presents, itself if none
    user,      \* the user it is about
    at,        \* where its handler stands
    marks,     \* its UPDATE has revoked the token, and holds its row
    users,     \* the committed rows of the users table
    token,     \* the committed row of the refresh token it issued
    reply,     \* the status of its response, 500 also for none at all
    past       \* what a refresh finds ended of what its token was used for

vars == <<kind, of, user, at, marks, users, token, reply, past>>

ASSUME ConflictsAssumption ==
    \A r, q \in Requests :
        /\ Conflicts(r, q) \in BOOLEAN
        /\ Conflicts(r, q) = Conflicts(q, r)
ASSUME AdminsAssumption == Admins \subseteq Requests

Issuers == {"register", "login", "refresh"}
Presenters == {"refresh", "logout"}
Bearers == {"me", "order", "admin"}

TypeOK ==
    /\ kind \in [Requests -> {"none"} \cup Issuers \cup Presenters \cup Bearers]
    /\ of \in [Requests -> Requests]
    /\ user \in [Requests -> Requests]
    /\ at \in [Requests -> {"new", "insert", "revoke", "issue", "done"}]
    /\ marks \in [Requests -> BOOLEAN]
    /\ users \in SUBSET Requests
    /\ token \in [Requests -> {"none", "live", "revoked"}]
    /\ reply \in [Requests ->
                     {"none", "200", "201", "204", "401", "403", "409", "500"}]
    /\ past \in [Requests -> SUBSET Requests]

Init ==
    /\ kind = [r \in Requests |-> "none"]
    /\ of = [r \in Requests |-> r]
    /\ user = [r \in Requests |-> r]
    /\ at = [r \in Requests |-> "new"]
    /\ marks = [r \in Requests |-> FALSE]
    /\ users = {}
    /\ token = [r \in Requests |-> "none"]
    /\ reply = [r \in Requests |-> "none"]
    /\ past = [r \in Requests |-> {}]

(* Somebody holds the tokens that r issued. *)
Handed(r) == kind[r] \in Issuers /\ reply[r] \in {"200", "201"}

(* An open transaction has inserted the user that r registers. *)
Inserted(r) == kind[r] = "register" /\ at[r] = "issue"

Taken(r) == \E u \in users : Conflicts(r, u)
-----------------------------------------------------------------------------
(* A handler that answers in one go, its reads included. *)
AnswerNow(r, k, t, status) ==
    /\ at[r] = "new"
    /\ at' = [at EXCEPT ![r] = "done"]
    /\ kind' = [kind EXCEPT ![r] = k]
    /\ of' = [of EXCEPT ![r] = t]
    /\ user' = [user EXCEPT ![r] = user[t]]
    /\ reply' = [reply EXCEPT ![r] = status]
    /\ UNCHANGED <<marks, users, token, past>>

(* Everything that was done with the token of t. *)
UsesEnded(t) == {r \in Requests : at[r] = "done" /\ of[r] = t}

(* A handler that reads, finds what it needs and goes on to `to`. *)
GoOn(r, k, t, u, to) ==
    /\ at[r] = "new"
    /\ at' = [at EXCEPT ![r] = to]
    /\ kind' = [kind EXCEPT ![r] = k]
    /\ of' = [of EXCEPT ![r] = t]
    /\ user' = [user EXCEPT ![r] = u]
    /\ past' = IF k = "refresh" THEN [past EXCEPT ![r] = UsesEnded(t)] ELSE past
    /\ UNCHANGED <<marks, users, token, reply>>

(* The SELECTs by name and by email, together: rows only ever come to be,   *)
(* so what either finds at its own time both find at the time of one.       *)
RegisterTaken(r) == Taken(r) /\ AnswerNow(r, "register", r, "409")
RegisterFree(r) == ~Taken(r) /\ GoOn(r, "register", r, r, "insert")

(* The name is known and the password is right, or 401. *)
Login(r, u) == u \in users /\ GoOn(r, "login", r, u, "issue")
LoginRefused(r) == AnswerNow(r, "login", r, "401")

(* A token that has expired, or is of the other type, is refused. *)
Expired(r, t, k) == Handed(t) /\ AnswerNow(r, k, t, "401")

(* A mutant: what is read is not looked at, only what the UPDATE finds.     *)
RefreshUnread(r, t) == Handed(t) /\ GoOn(r, "refresh", t, user[t], "revoke")

RefreshRevoked(r, t) ==
    Handed(t) /\ token[t] # "live" /\ AnswerNow(r, "refresh", t, "401")
Refresh(r, t) ==
    Handed(t) /\ token[t] = "live" /\ GoOn(r, "refresh", t, user[t], "revoke")

Logout(r, t) == Handed(t) /\ GoOn(r, "logout", t, user[t], "revoke")

(* Without a token, POST /orders serves a guest. *)
Anonymous(r, k) == AnswerNow(r, k, r, IF k = "order" THEN "201" ELSE "401")

(* Any endpoint with an access token that has not expired, for which no     *)
(* row of refresh_tokens is read.                                           *)
Me(r, t) ==
    Handed(t)
    /\ AnswerNow(r, "me", t, IF user[t] \in users THEN "200" ELSE "500")
Order(r, t) == Handed(t) /\ AnswerNow(r, "order", t, "201")
Admin(r, t) ==
    Handed(t)
    /\ AnswerNow(r, "admin", t,
                 IF user[t] \in users \cap Admins THEN "200" ELSE "403")

Ends(r, status) ==
    /\ at' = [at EXCEPT ![r] = "done"]
    /\ marks' = [marks EXCEPT ![r] = FALSE]
    /\ reply' = [reply EXCEPT ![r] = status]
    /\ UNCHANGED <<kind, of, user, past>>

(* A mutant: users.email has lost its unique constraint, or users.username. *)
InsertAnyway(r) ==
    /\ at[r] = "insert"
    /\ at' = [at EXCEPT ![r] = "issue"]
    /\ UNCHANGED <<kind, of, user, marks, users, token, reply, past>>

InsertUser(r) ==
    /\ at[r] = "insert"
    /\ ~Taken(r)
    /\ \A q \in Requests \ {r} : Inserted(q) => ~Conflicts(r, q)
    /\ at' = [at EXCEPT ![r] = "issue"]
    /\ UNCHANGED <<kind, of, user, marks, users, token, reply, past>>

(* IntegrityError: the row was free when it was read. *)
InsertClash(r) ==
    /\ at[r] = "insert"
    /\ Taken(r)
    /\ Ends(r, "500")
    /\ UNCHANGED <<users, token>>

(* A mutant: the UPDATE is expected to find its row. *)
RevokeLive(r) ==
    /\ at[r] = "revoke"
    /\ \A q \in Requests : ~(marks[q] /\ of[q] = of[r])
    /\ token[of[r]] = "live"
    /\ marks' = [marks EXCEPT ![r] = TRUE]
    /\ at' = [at EXCEPT ![r] = "issue"]
    /\ UNCHANGED <<kind, of, user, users, token, reply, past>>

(* UPDATE ... WHERE NOT is_revoked.  That it finds no row is not looked at. *)
Revoke(r) ==
    /\ at[r] = "revoke"
    /\ \A q \in Requests : ~(marks[q] /\ of[q] = of[r])
    /\ marks' = [marks EXCEPT ![r] = (token[of[r]] = "live")]
    /\ at' = [at EXCEPT ![r] = "issue"]
    /\ UNCHANGED <<kind, of, user, users, token, reply, past>>

(* A mutant: a status no endpoint knows. *)
SuccessOther(k) == IF k = "register" THEN "202" ELSE "200"

Success(k) == IF k = "register" THEN "201" ELSE IF k = "logout" THEN "204" ELSE "200"

(* Mutants: the new token is stored before the old one is revoked; tokens   *)
(* are stored before the user's row is.                                     *)
StoredHalf(r) ==
    /\ users' = IF kind[r] = "register" THEN users \cup {r} ELSE users
    /\ token' = [token EXCEPT ![r] = IF kind[r] \in Issuers THEN "live" ELSE @]
StoredLess(r) ==
    /\ users' = users
    /\ token' = [t \in Requests |->
                    IF marks[r] /\ t = of[r] THEN "revoked"
                    ELSE IF t = r /\ kind[r] \in Issuers THEN "live"
                    ELSE token[t]]

(* What a commit makes of the tables. *)
Stored(r) ==
    /\ users' = IF kind[r] = "register" THEN users \cup {r} ELSE users
    /\ token' = [t \in Requests |->
                    IF marks[r] /\ t = of[r] THEN "revoked"
                    ELSE IF t = r /\ kind[r] \in Issuers THEN "live"
                    ELSE token[t]]

(* The new token's INSERT and the COMMIT, which may also take effect and    *)
(* raise.                                                                   *)
Commit(r) ==
    /\ at[r] = "issue"
    /\ Stored(r)
    /\ \E status \in {Success(kind[r]), "500"} : Ends(r, status)

(* The database raises, or the process dies: the transaction rolls back. *)
Fails(r) ==
    /\ at[r] \in {"insert", "revoke", "issue"}
    /\ Ends(r, "500")
    /\ UNCHANGED <<users, token>>

Next ==
    \E r \in Requests :
        \/ RegisterTaken(r)
        \/ RegisterFree(r)
        \/ LoginRefused(r)
        \/ InsertUser(r)
        \/ InsertClash(r)
        \/ Revoke(r)
        \/ Commit(r)
        \/ Fails(r)
        \/ \E k \in Bearers : Anonymous(r, k)
        \/ \E t \in Requests :
              \/ Login(r, t)
              \/ \E k \in Presenters \cup Bearers : Expired(r, t, k)
              \/ RefreshRevoked(r, t)
              \/ Refresh(r, t)
              \/ Logout(r, t)
              \/ Me(r, t)
              \/ Order(r, t)
              \/ Admin(r, t)

Spec == Init /\ [][Next]_vars

(* A handler that can go on does. *)
Fairness ==
    \A r \in Requests :
        WF_vars(InsertUser(r) \/ InsertClash(r) \/ Revoke(r) \/ Commit(r))

FairSpec == Spec /\ Fairness
-----------------------------------------------------------------------------
(* Registrations that race for a name or an email: one row at most comes    *)
(* of them, who is told 201 has it, and who is told 409 lost to another.    *)
OneAccountEach ==
    /\ \A u, v \in users : u # v => ~Conflicts(u, v)
    /\ \A r \in Requests :
          kind[r] = "register" =>
              /\ reply[r] = "201" => r \in users
              /\ reply[r] = "409" => Taken(r)

(* A refresh trades: a pair it issued is never there without the one it     *)
(* presented being revoked, by it or by a rival, and no row revoked before  *)
(* is live again.                                                           *)
RefreshTrades ==
    \A r \in Requests :
        kind[r] = "refresh" /\ token[r] # "none" => token[of[r]] = "revoked"

(* The token that q presented was traded for another, or logged out. *)
UsedUp(q) ==
    \/ kind[q] = "refresh" /\ token[q] # "none"
    \/ kind[q] = "logout" /\ reply[q] = "204"

(* Two requests use up one token only if they overlap: a refresh that reads *)
(* after another one, or a logout, has ended with effect gets nothing.      *)
UsedUpOnce ==
    \A r \in Requests : \A q \in past[r] : ~(UsedUp(r) /\ UsedUp(q))

(* Who holds a token is a user with a committed row, so that every endpoint *)
(* finds it.                                                                *)
HoldersExist ==
    /\ \A r \in Requests : Handed(r) => user[r] \in users /\ token[r] # "none"
    /\ \A r \in Requests : kind[r] = "me" => reply[r] # "500"

(* What makes these inductive: how far a handler has come with what it      *)
(* asks for, who holds a row, and what was found when it read.              *)
StageInv ==
    \A r \in Requests :
        /\ at[r] = "new" => kind[r] = "none" /\ of[r] = r /\ user[r] = r
        /\ at[r] # "new" => kind[r] # "none"
        /\ reply[r] # "none" => at[r] = "done"
        /\ at[r] = "insert" => kind[r] = "register"
        /\ at[r] = "revoke" => kind[r] \in Presenters
        /\ at[r] = "issue" => kind[r] \in Issuers \cup Presenters
        /\ kind[r] = "register" => user[r] = r
        /\ kind[r] \in Presenters =>
              /\ Handed(of[r]) /\ user[r] = user[of[r]] /\ of[r] # r
        /\ kind[r] = "login" /\ at[r] = "issue" => user[r] \in users
        /\ r \in users => kind[r] = "register" /\ at[r] = "done"
        /\ token[r] # "none" => kind[r] \in Issuers /\ at[r] = "done"

RowsInv ==
    /\ \A r, q \in Requests :
          Inserted(r) =>
              /\ ~Taken(r)
              /\ Inserted(q) /\ q # r => ~Conflicts(r, q)
    /\ \A r \in Requests :
          marks[r] =>
              /\ at[r] = "issue" /\ kind[r] \in Presenters
              /\ token[of[r]] = "live"
              /\ \A q \in Requests : marks[q] /\ of[q] = of[r] => q = r

UsedInv ==
    \A r \in Requests :
        /\ kind[r] \in Presenters /\ at[r] = "issue" /\ ~marks[r] =>
              token[of[r]] = "revoked"
        /\ UsedUp(r) => token[of[r]] = "revoked"
        /\ \A q \in past[r] : at[q] = "done" /\ ~UsedUp(q)

AccountsInv ==
    StageInv /\ RowsInv /\ UsedInv /\ OneAccountEach /\ HoldersExist

(* No handler waits for ever for a row that another one holds. *)
EveryCallAnswered == \A r \in Requests : at[r] # "new" ~> at[r] = "done"
=============================================================================
