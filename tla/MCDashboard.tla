----------------------------- MODULE MCDashboard -----------------------------
(* Model values and symmetry for Dashboard. *)
EXTENDS Dashboard, TLC

JobAndClientSymmetry == Permutations(Jobs) \union Permutations(Clients)
==============================================================================
