----------------------------- MODULE MCAccounts -----------------------------
(* Values for the constants of Accounts.                                   *)
EXTENDS Accounts, TLC

CONSTANTS account1, account2, invite1, request1, request2

OneAttempt == [k \in Kinds |-> 1]

Symmetry == Permutations(Requests)
=============================================================================
