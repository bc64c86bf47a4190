------------------------- MODULE MCConnectorRefresh -------------------------
(* Finite instances of ConnectorRefresh for TLC. *)
EXTENDS ConnectorRefresh, TLC

(* Workers are interchangeable; used only where no liveness is checked. *)
WorkerSymmetry == Permutations(Workers)
=============================================================================
