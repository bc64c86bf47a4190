--------------------------- MODULE MCFirstRefresh ---------------------------
(* Finite instances of FirstRefresh for TLC. *)
EXTENDS FirstRefresh, TLC

(* Workers and requests are interchangeable; safety only. *)
Symmetry == Permutations(Workers) \union Permutations(Clients)
=============================================================================
