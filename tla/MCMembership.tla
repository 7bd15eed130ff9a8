---------------------------- MODULE MCMembership -----------------------------
(* Membership for TLC: accounts and subscriptions are interchangeable.     *)
EXTENDS Membership, TLC
Interchangeable == Permutations(Accounts) \cup Permutations(Subscriptions)
=============================================================================
