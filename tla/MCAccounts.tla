----------------------------- MODULE MCAccounts -----------------------------
(* Finite instances of Accounts for TLC. *)
EXTENDS Accounts, TLC

(* Requests are interchangeable; safety only. *)
Symmetry == Permutations(Clients)
=============================================================================
