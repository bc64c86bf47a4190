--------------------------- MODULE MCPersonalRuns ---------------------------
(* Finite instances of PersonalRuns for TLC. *)
EXTENDS PersonalRuns, TLC

(* Workers and requests are interchangeable; safety only. *)
Symmetry == Permutations(Workers) \union Permutations(Clients)
=============================================================================
