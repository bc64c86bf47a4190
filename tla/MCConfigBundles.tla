--------------------------- MODULE MCConfigBundles ---------------------------
(* Finite instances of ConfigBundles for TLC. *)
EXTENDS ConfigBundles, TLC

(* Documents with a setting the preferences write and one they do not; a   *)
(* release gives the taxonomy an entry it did not have and changes another *)
(* default.                                                                *)
MCFields == {"written", "other"}
MCPreferences == {[t \in ConfigTypes |-> [f \in {"written"} |-> 1]]}
MCEdits == {Empty, [f \in {"other"} |-> 1]}
MCReleases ==
  {[t \in ConfigTypes |-> [f \in IF t \in BuiltOnCurrent THEN MCFields ELSE {"written"} |-> 0]],
   [t \in ConfigTypes |-> [f \in MCFields |-> IF f = "other" THEN 1 ELSE 0]]}

Symmetry == Permutations(Clients)
=============================================================================
