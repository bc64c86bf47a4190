--------------------------- MODULE AdvisoryLocks ---------------------------
(***************************************************************************)
(* PostgreSQL session advisory locks as the workers use them               *)
(* (packages/careersignal_core/tasks/locks.py).  A lock is held by the     *)
(* session of a worker, by nobody, or by the session of a process that     *)
(* died and that the server has not yet dropped.  A function from lock     *)
(* names to holders models a family of locks (the writer slots, the user   *)
(* locks); the single global lock is one holder.                           *)
(***************************************************************************)

CONSTANT Workers    \* the worker processes (apps/worker/main.py)

Free == "free"
Dead == "dead"

(* A holder is told apart from the two marks that are not processes. *)
ASSUME WorkersAssumption == Free \notin Workers /\ Dead \notin Workers

Holders == Workers \union {Free, Dead}

(* pg_try_advisory_lock answers true exactly when no session holds it. *)
Available(holder) == holder = Free

(* What a family of locks becomes when the session of w lets go of all it  *)
(* holds: Free when w unlocks (or the server notices at once), Dead while  *)
(* the server still believes in the broken session.                        *)
Relinquish(locks, w, as) ==
  [n \in DOMAIN locks |-> IF locks[n] = w THEN as ELSE locks[n]]

(* The same for one lock. *)
RelinquishOne(holder, w, as) == IF holder = w THEN as ELSE holder

(* The server drops a dead session and with it the lock. *)
Dropped(locks, n) == [locks EXCEPT ![n] = Free]

=============================================================================
