----------------------------- MODULE MCAccounts -----------------------------
(* A small instance of Accounts for TLC. *)
EXTENDS Accounts

CONSTANTS r1, r2, r3, r4

(* r1 and r2 want one name, r2 and r3 one email, r4 is like r1. *)
SmallConflicts(r, q) ==
    {r, q} \in {{r1}, {r2}, {r3}, {r4}, {r1, r2}, {r2, r3}, {r1, r4}, {r2, r4}}
=============================================================================
