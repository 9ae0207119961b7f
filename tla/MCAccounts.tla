---- MODULE MCAccounts ----
(* A seeded account, one that an admin makes and one of OAuth; two calls at a time. *)
EXTENDS Accounts, TLC
MCSymmetry == Permutations(Passwords)
====
