---------------------------- MODULE RefreshPromise ----------------------------
(***************************************************************************)
(* What a user may rely on, without queues, workers, locks and faults: a   *)
(* first click is promised the results of one refresh of its own; results  *)
(* shown to a user always come from a refresh whose jobs were published,   *)
(* and a promise becomes delivered only when the user is shown what was    *)
(* promised.  It may fail and be resumed, but nothing gives it up.         *)
(* FirstRefresh implements this.                                           *)
(***************************************************************************)
CONSTANTS Users, Refreshes, Nothing

VARIABLES
  published,   \* the refreshes whose jobs are or were shown to everybody
  promise,     \* what became of the promise of each refresh
  owner,       \* whom it was made to
  shown        \* the refresh behind what each user sees (Nothing: no results)

rvars == <<published, promise, owner, shown>>

Pending(u) == {r \in Refreshes : owner[r] = u
                                 /\ promise[r] \in {"asked", "prepared", "failed"}}

Init ==
  /\ published = {}
  /\ promise = [r \in Refreshes |-> "none"]
  /\ owner \in [Refreshes -> Users]
  /\ shown = [u \in Users |-> Nothing]

Becomes(r, stage) == promise' = [promise EXCEPT ![r] = stage]

(* One promise at a time: as long as one is pending the click joins it. *)
Ask(u, r) ==
  /\ promise[r] = "none" /\ Pending(u) = {}
  /\ Becomes(r, "asked")
  /\ owner' = [owner EXCEPT ![r] = u]
  /\ UNCHANGED <<published, shown>>

Publish(r) ==
  /\ published' = published \union {r}
  /\ UNCHANGED <<promise, owner, shown>>

(* The user's own part begins when the refresh is out, after a failure too. *)
Prepare(r) ==
  /\ promise[r] \in {"asked", "failed"} /\ r \in published
  /\ Becomes(r, "prepared")
  /\ UNCHANGED <<published, owner, shown>>

Resume(r) ==
  /\ promise[r] = "failed"
  /\ Becomes(r, "asked")
  /\ UNCHANGED <<published, owner, shown>>

Show(u, r) ==
  /\ r \in published
  /\ shown' = [shown EXCEPT ![u] = r]
  /\ UNCHANGED <<published, promise, owner>>

Deliver(r) ==
  /\ promise[r] = "prepared" /\ shown[owner[r]] = r
  /\ Becomes(r, "delivered")
  /\ UNCHANGED <<published, owner, shown>>

(* A late failure may even take back what was delivered, but it never      *)
(* leaves a user with two promises, and it hides nothing that is shown.    *)
Fail(r) ==
  /\ promise[r] # "none" /\ Pending(owner[r]) \subseteq {r}
  /\ Becomes(r, "failed")
  /\ UNCHANGED <<published, owner, shown>>

Next ==
  \E r \in Refreshes :
    \/ Publish(r) \/ Prepare(r) \/ Resume(r) \/ Deliver(r) \/ Fail(r)
    \/ \E u \in Users : Ask(u, r) \/ Show(u, r)

Spec == Init /\ [][Next]_rvars
=============================================================================
