-------------------------- MODULE ConnectorRefresh --------------------------
(***************************************************************************)
(* The global connector refresh: the queue connector_refresh_runs          *)
(* (repositories/connector_runs.py), those who fill it (the scheduler, an  *)
(* admin, the first click of a user) and the workers that drain it         *)
(* (tasks/connector_refresh_worker.py, process_one), one action per        *)
(* transaction or external call, so that a crash or an exception can come  *)
(* between any two.                                                        *)
(*                                                                         *)
(* Rows are numbered in the order of created_at.  A worker also runs       *)
(* personal pipelines in the turns in which it finds no refresh to do      *)
(* (apps/worker/main.py); here that half is the labels Personal, in which  *)
(* the worker may take and free a writer slot.  The bootstrap workflow     *)
(* that mark_running, mark_ok and mark_failed update is a table of module  *)
(* FirstRefresh, which conjoins its part to these actions.                 *)
(***************************************************************************)
EXTENDS AdvisoryLocks, Naturals

CONSTANTS
  MaxRuns,         \* bound: rows ever created in connector_refresh_runs
  MaxConcurrency,  \* settings.user_pipeline_max_concurrency: writer slots
  MaxFaults        \* bound: crashes and failing calls in a behaviour

ASSUME BoundsAssumption ==
  /\ MaxRuns \in Nat
  /\ MaxConcurrency \in Nat \ {0}
  /\ MaxFaults \in Nat

VARIABLES
  refresh,      \* table connector_refresh_runs, audit and source rows included
  clock,        \* the last value given to completed_at
  published,    \* the runs whose jobs reached job_postings
  sharedFrom,   \* the run that wrote job_postings last (0: none yet)
  globalLock,   \* "careersignals:global-connector-refresh"
  writerSlot,   \* "careersignals:motherduck-writer:<slot>"
  cpc,          \* where each worker is in process_one
  claimed,      \* the row each worker claimed (0: none)
  scan,         \* the writer slot a worker tries, then holds
  outcome,      \* what the runner returned
  faults        \* crashes and failing calls so far

cvars == <<refresh, clock, published, sharedFrom, globalLock, writerSlot, cpc,
           claimed, scan, outcome, faults>>

tables == <<refresh, clock, published, sharedFrom>>
locals == <<claimed, scan, outcome>>

Runs == 1 .. MaxRuns
Slots == 0 .. MaxConcurrency - 1

Statuses == {"absent", "queued", "running", "completed", "partial", "failed"}
Terminal == {"completed", "partial", "failed"}

(* "scheduled" stands for every trigger that goes through                  *)
(* create_if_no_active, manual_admin included.                             *)
Triggers == {"scheduled", "first_user_bootstrap"}

Outcomes == [status : Terminal, dbt : BOOLEAN]
NoOutcome == [status |-> "failed", dbt |-> FALSE]

Row == [status : Statuses, trigger : Triggers, dbt : BOOLEAN,
        doneAt : Nat, audit : {"none", "planned", "final"}, sources : BOOLEAN]

NewRow(status, trigger) ==
  [status |-> status, trigger |-> trigger, dbt |-> FALSE,
   doneAt |-> 0, audit |-> "none", sources |-> FALSE]

Bootstrap(r) == refresh[r].trigger = "first_user_bootstrap"
Queued == {r \in Runs : refresh[r].status = "queued"}
Active == {r \in Runs : refresh[r].status \in {"queued", "running"}}

(* latest_successful: the completed or partial run, built by dbt, with the *)
(* greatest completed_at.                                                  *)
Successful(r) == refresh[r].status \in {"completed", "partial"} /\ refresh[r].dbt
LatestSuccessful(r) ==
  /\ Successful(r)
  /\ \A q \in Runs : Successful(q) => refresh[q].doneAt <= refresh[r].doneAt

(* Labels inside "with locks.acquire(global)": those before the writer     *)
(* slot, those that hold it, those after it.                               *)
BeforeSlot == {"mark_running", "plan", "slot"}
InSlot == {"collect", "publish", "complete"}
AfterSlot == {"audit", "sources", "finish", "mark_ok", "mark_failed", "unlock"}
InGlobal == BeforeSlot \union InSlot \union AfterSlot
InTry == {"claimed"} \union InGlobal
Working == InTry \union {"requeue", "fail", "fail_mark"}
Personal == {"personal", "personal_slot", "personal_done"}
Labels == {"down", "idle"} \union Personal \union Working

-----------------------------------------------------------------------------

Init ==
  /\ refresh = [r \in Runs |-> NewRow("absent", "scheduled")]
  /\ clock = 0
  /\ published = {}
  /\ sharedFrom = 0
  /\ globalLock = Free
  /\ writerSlot = [i \in Slots |-> Free]
  /\ cpc = [w \in Workers |-> "down"]
  /\ claimed = [w \in Workers |-> 0]
  /\ scan = [w \in Workers |-> 0]
  /\ outcome = [w \in Workers |-> NoOutcome]
  /\ faults = 0

Goto(w, label) == cpc' = [cpc EXCEPT ![w] = label]

(* Nothing of a finished turn survives in the worker. *)
EndTurn(w, label) ==
  /\ Goto(w, label)
  /\ claimed' = [claimed EXCEPT ![w] = 0]
  /\ scan' = [scan EXCEPT ![w] = 0]
  /\ outcome' = [outcome EXCEPT ![w] = NoOutcome]

(***************************************************************************)
(* Those who enqueue                                                       *)
(***************************************************************************)

Insert(r, trigger) ==
  /\ refresh[r].status = "absent"
  /\ \A q \in Runs : q < r => refresh[q].status # "absent"
  /\ refresh' = [refresh EXCEPT ![r] = NewRow("queued", trigger)]

(* Mutant: the check looks at running rows only. *)
CreateIfNoneRunning(r) ==
  /\ \A q \in Runs : refresh[q].status # "running"
  /\ Insert(r, "scheduled")
  /\ UNCHANGED <<clock, published, sharedFrom, globalLock, writerSlot, cpc,
                 locals, faults>>

(* create_if_no_active, from the scheduler or an admin: the transaction    *)
(* lock makes the check and the insert one step among all its callers.     *)
CreateIfNoActive(r) ==
  /\ Active = {}
  /\ Insert(r, "scheduled")
  /\ UNCHANGED <<clock, published, sharedFrom, globalLock, writerSlot, cpc,
                 locals, faults>>

(* create, called by start_or_get: no look at other active runs. *)
CreateBootstrapRun(r) ==
  /\ Insert(r, "first_user_bootstrap")
  /\ UNCHANGED <<clock, published, sharedFrom, globalLock, writerSlot, cpc,
                 locals, faults>>

(***************************************************************************)
(* One turn of a worker                                                    *)
(***************************************************************************)

(* Mutant: the claim does not look at the status of an active row. *)
ClaimAnyActive(w) ==
  /\ cpc[w] = "idle"
  /\ \E r \in Active :
       /\ refresh' = [refresh EXCEPT ![r].status = "running"]
       /\ claimed' = [claimed EXCEPT ![w] = r]
  /\ Goto(w, "claimed")
  /\ UNCHANGED <<clock, published, sharedFrom, globalLock, writerSlot, scan,
                 outcome, faults>>

(* claim_next.  SKIP LOCKED passes over a row some other transaction holds *)
(* at that moment, so the row claimed need not be the oldest.              *)
ClaimNext(w) ==
  /\ cpc[w] = "idle"
  /\ \E r \in Queued :
       /\ refresh' = [refresh EXCEPT ![r].status = "running"]
       /\ claimed' = [claimed EXCEPT ![w] = r]
  /\ Goto(w, "claimed")
  /\ UNCHANGED <<clock, published, sharedFrom, globalLock, writerSlot, scan,
                 outcome, faults>>

(* claim_next finds nothing: the turn goes to the personal queue. *)
NothingQueued(w) ==
  /\ cpc[w] = "idle"
  /\ Queued = {}
  /\ Goto(w, "personal")
  /\ UNCHANGED <<tables, globalLock, writerSlot, locals, faults>>

(* The personal half of the worker takes a writer slot, frees it, and ends  *)
(* the turn, with or without having had one.                               *)
PersonalTakesSlot(w, i) ==
  /\ cpc[w] = "personal"
  /\ Available(writerSlot[i])
  /\ writerSlot' = [writerSlot EXCEPT ![i] = w]
  /\ Goto(w, "personal_slot")
  /\ UNCHANGED <<tables, globalLock, locals, faults>>

PersonalFreesSlot(w) ==
  /\ cpc[w] = "personal_slot"
  /\ writerSlot' = Relinquish(writerSlot, w, Free)
  /\ Goto(w, "personal_done")
  /\ UNCHANGED <<tables, globalLock, locals, faults>>

EndPersonalTurn(w) ==
  /\ cpc[w] \in {"personal", "personal_done"}
  /\ Goto(w, "idle")
  /\ UNCHANGED <<tables, globalLock, writerSlot, locals, faults>>

(* Mutant: the answer of pg_try_advisory_lock is ignored. *)
AcquireGlobalUnchecked(w) ==
  /\ cpc[w] = "claimed"
  /\ globalLock' = w
  /\ Goto(w, IF Bootstrap(claimed[w]) THEN "mark_running" ELSE "plan")
  /\ UNCHANGED <<tables, writerSlot, locals, faults>>

AcquireGlobal(w) ==
  /\ cpc[w] = "claimed"
  /\ Available(globalLock)
  /\ globalLock' = w
  /\ Goto(w, IF Bootstrap(claimed[w]) THEN "mark_running" ELSE "plan")
  /\ UNCHANGED <<tables, writerSlot, locals, faults>>

(* LockUnavailableError: nothing is held, the row goes back to the queue. *)
GlobalBusy(w) ==
  /\ cpc[w] = "claimed"
  /\ ~Available(globalLock)
  /\ Goto(w, "requeue")
  /\ UNCHANGED <<tables, globalLock, writerSlot, locals, faults>>

MarkGlobalRunning(w) ==
  /\ cpc[w] = "mark_running"
  /\ Goto(w, "plan")
  /\ UNCHANGED <<tables, globalLock, writerSlot, locals, faults>>

(* User snapshots, acquisition inputs and the planned queries; the audit   *)
(* rows are upserted, so a run claimed again overwrites its plan.          *)
RecordPlan(w) ==
  /\ cpc[w] = "plan"
  /\ refresh' = [refresh EXCEPT ![claimed[w]].audit = "planned"]
  /\ Goto(w, "slot")
  /\ UNCHANGED <<clock, published, sharedFrom, globalLock, writerSlot, locals,
                 faults>>

(* acquire_writer_slot asks for slot 0, 1, ... one statement at a time. *)
TrySlot(w) ==
  /\ cpc[w] = "slot"
  /\ IF Available(writerSlot[scan[w]])
       THEN /\ writerSlot' = [writerSlot EXCEPT ![scan[w]] = w]
            /\ Goto(w, "collect")
            /\ UNCHANGED <<globalLock, scan>>
       ELSE IF scan[w] + 1 \in Slots
              THEN /\ scan' = [scan EXCEPT ![w] = @ + 1]
                   /\ UNCHANGED <<globalLock, writerSlot, cpc>>
              ELSE /\ globalLock' = Free
                   /\ Goto(w, "requeue")
                   /\ UNCHANGED <<writerSlot, scan>>
  /\ UNCHANGED <<tables, claimed, outcome, faults>>

(* Mutant: the publisher is not called after the build. *)
BuildWithoutPublish(w) ==
  /\ cpc[w] = "collect"
  /\ \E built \in BOOLEAN : outcome' = [outcome EXCEPT ![w].dbt = built]
  /\ Goto(w, "complete")
  /\ UNCHANGED <<tables, globalLock, writerSlot, claimed, scan, faults>>

(* run_shared_connector_refresh up to its dbt build: acquisition, raw and  *)
(* shared rows in the warehouse, dbt.  Without dbt nothing is published.   *)
CollectAndBuild(w) ==
  /\ cpc[w] = "collect"
  /\ \E built \in BOOLEAN :
       /\ outcome' = [outcome EXCEPT ![w].dbt = built]
       /\ Goto(w, IF built THEN "publish" ELSE "complete")
  /\ UNCHANGED <<tables, globalLock, writerSlot, claimed, scan, faults>>

(* SharedJobsPublisher.publish: one transaction. *)
PublishShared(w) ==
  /\ cpc[w] = "publish"
  /\ published' = published \union {claimed[w]}
  /\ sharedFrom' = claimed[w]
  /\ Goto(w, "complete")
  /\ UNCHANGED <<refresh, clock, globalLock, writerSlot, locals, faults>>

(* The runner returns (every source failing makes the status "failed" even *)
(* though the jobs were published) and the writer slot is freed.           *)
CompleteRun(w) ==
  /\ cpc[w] = "complete"
  /\ \E s \in Terminal : outcome' = [outcome EXCEPT ![w].status = s]
  /\ writerSlot' = Relinquish(writerSlot, w, Free)
  /\ Goto(w, "audit")
  /\ UNCHANGED <<tables, globalLock, claimed, scan, faults>>

RecordAudit(w) ==
  /\ cpc[w] = "audit"
  /\ refresh' = [refresh EXCEPT ![claimed[w]].audit = "final"]
  /\ Goto(w, "sources")
  /\ UNCHANGED <<clock, published, sharedFrom, globalLock, writerSlot, locals,
                 faults>>

UpsertSourceResults(w) ==
  /\ cpc[w] = "sources"
  /\ refresh' = [refresh EXCEPT ![claimed[w]].sources = TRUE]
  /\ Goto(w, "finish")
  /\ UNCHANGED <<clock, published, sharedFrom, globalLock, writerSlot, locals,
                 faults>>

(* finish writes whatever the row's status is by now. *)
SetFinished(r, status, dbt) ==
  /\ clock' = clock + 1
  /\ refresh' = [refresh EXCEPT ![r].status = status, ![r].dbt = dbt,
                                ![r].doneAt = clock + 1]

Finish(w) ==
  /\ cpc[w] = "finish"
  /\ SetFinished(claimed[w], outcome[w].status, outcome[w].dbt)
  /\ Goto(w, IF ~Bootstrap(claimed[w]) THEN "unlock"
             ELSE IF outcome[w].status # "failed" /\ outcome[w].dbt
               THEN "mark_ok" ELSE "mark_failed")
  /\ UNCHANGED <<published, sharedFrom, globalLock, writerSlot, locals, faults>>

MarkGlobalSucceeded(w) ==
  /\ cpc[w] = "mark_ok"
  /\ Goto(w, "unlock")
  /\ UNCHANGED <<tables, globalLock, writerSlot, locals, faults>>

MarkGlobalFailed(w) ==
  /\ cpc[w] = "mark_failed"
  /\ Goto(w, "unlock")
  /\ UNCHANGED <<tables, globalLock, writerSlot, locals, faults>>

Unlock(w) ==
  /\ cpc[w] = "unlock"
  /\ globalLock' = Free
  /\ EndTurn(w, "idle")
  /\ UNCHANGED <<tables, writerSlot, faults>>

(* Mutants: the requeue looks at no status, or is forgotten. *)
RequeueAlways(w) ==
  /\ cpc[w] = "requeue"
  /\ refresh' = [refresh EXCEPT ![claimed[w]].status = "queued"]
  /\ EndTurn(w, "idle")
  /\ UNCHANGED <<clock, published, sharedFrom, globalLock, writerSlot, faults>>

RequeueForgotten(w) ==
  /\ cpc[w] = "requeue"
  /\ EndTurn(w, "idle")
  /\ UNCHANGED <<tables, globalLock, writerSlot, faults>>

(* except LockUnavailableError: requeue, where the row is still running. *)
Requeue(w) ==
  /\ cpc[w] = "requeue"
  /\ LET r == claimed[w] IN
       refresh' = IF refresh[r].status = "running"
                    THEN [refresh EXCEPT ![r].status = "queued"]
                    ELSE refresh
  /\ EndTurn(w, "idle")
  /\ UNCHANGED <<clock, published, sharedFrom, globalLock, writerSlot, faults>>

(* except Exception: the run is finished as failed ... *)
RecordFailure(w) ==
  /\ cpc[w] = "fail"
  /\ SetFinished(claimed[w], "failed", FALSE)
  /\ IF Bootstrap(claimed[w])
       THEN Goto(w, "fail_mark") /\ UNCHANGED locals
       ELSE EndTurn(w, "idle")
  /\ UNCHANGED <<published, sharedFrom, globalLock, writerSlot, faults>>

(* ... and, for a bootstrap run, mark_global_failed follows. *)
RecordBootstrapFailure(w) ==
  /\ cpc[w] = "fail_mark"
  /\ EndTurn(w, "idle")
  /\ UNCHANGED <<tables, globalLock, writerSlot, faults>>

(***************************************************************************)
(* Faults                                                                  *)
(***************************************************************************)

Fault == faults < MaxFaults /\ faults' = faults + 1

(* mark_global_failed, or mark_personal_failed in the personal half, would  *)
(* reopen a closed workflow next to an open one: the unique index of       *)
(* FirstRefresh refuses, which is no fault.                                *)
MarkRefused(w) == cpc[w] \in {"fail_mark", "personal_done"} /\ UNCHANGED faults

(* A call inside the try fails, before or after it took effect: the        *)
(* finally clauses unlock, or the broken session keeps the locks a while.  *)
Raise(w, as) ==
  /\ cpc[w] \in InTry
  /\ Fault
  /\ globalLock' = RelinquishOne(globalLock, w, as)
  /\ writerSlot' = Relinquish(writerSlot, w, as)
  /\ Goto(w, "fail")
  /\ UNCHANGED <<tables, locals>>

(* The personal half raises, because of a fault or of what it found. *)
PersonalRaise(w, as) ==
  /\ cpc[w] \in Personal
  /\ writerSlot' = Relinquish(writerSlot, w, as)
  /\ Goto(w, "personal_done")
  /\ UNCHANGED <<tables, globalLock, locals>>

(* The process dies, or a call outside the try fails: process_one raises   *)
(* through main.                                                           *)
Crash(w) ==
  /\ cpc[w] # "down"
  /\ globalLock' = RelinquishOne(globalLock, w, Dead)
  /\ writerSlot' = Relinquish(writerSlot, w, Dead)
  /\ EndTurn(w, "down")
  /\ UNCHANGED tables

(* The server notices that a process is gone.  Only sessions of dead       *)
(* workers are lost: one whose connection drops while its worker goes on,  *)
(* beside the lock, is not modelled.                                       *)
DropGlobalSession ==
  /\ globalLock = Dead
  /\ globalLock' = Free
  /\ UNCHANGED <<tables, writerSlot, cpc, locals, faults>>

DropSlotSession(i) ==
  /\ writerSlot[i] = Dead
  /\ writerSlot' = Dropped(writerSlot, i)
  /\ UNCHANGED <<tables, globalLock, cpc, locals, faults>>

(* The process starts: recover_stale_runs, once, before the loop.  Which   *)
(* running rows were started more than connector_refresh_max_seconds ago   *)
(* is not tracked: any may have been, none need be.                        *)
Running == {r \in Runs : refresh[r].status = "running"}

CloseOverdue(overdue) ==
  IF overdue = {}
    THEN UNCHANGED <<refresh, clock>>
    ELSE /\ clock' = clock + 1
         /\ refresh' = [r \in Runs |->
              IF r \in overdue
                THEN [refresh[r] EXCEPT !.status = "failed", !.dbt = FALSE,
                                        !.doneAt = clock + 1]
                ELSE refresh[r]]

Restart(w) ==
  /\ cpc[w] = "down"
  /\ \E overdue \in SUBSET Running : CloseOverdue(overdue)
  /\ Goto(w, "idle")
  /\ UNCHANGED <<published, sharedFrom, globalLock, writerSlot, locals, faults>>

-----------------------------------------------------------------------------

(* What a live worker does next, by itself. *)
Step(w) ==
  \/ ClaimNext(w) \/ NothingQueued(w)
  \/ PersonalFreesSlot(w) \/ EndPersonalTurn(w)
  \/ AcquireGlobal(w) \/ GlobalBusy(w) \/ MarkGlobalRunning(w)
  \/ RecordPlan(w) \/ TrySlot(w) \/ CollectAndBuild(w) \/ PublishShared(w)
  \/ CompleteRun(w) \/ RecordAudit(w) \/ UpsertSourceResults(w) \/ Finish(w)
  \/ MarkGlobalSucceeded(w) \/ MarkGlobalFailed(w) \/ Unlock(w)
  \/ Requeue(w) \/ RecordFailure(w) \/ RecordBootstrapFailure(w)

Environment ==
  \/ \E r \in Runs : CreateIfNoActive(r) \/ CreateBootstrapRun(r)
  \/ DropGlobalSession
  \/ \E i \in Slots : DropSlotSession(i)

(* Whatever may happen to the process of a worker. *)
Process(w) ==
  \/ Step(w) \/ Restart(w)
  \/ Crash(w) /\ (Fault \/ MarkRefused(w))
  \/ \E as \in {Free, Dead} :
       \/ Raise(w, as)
       \/ PersonalRaise(w, as) /\ (Fault \/ UNCHANGED faults)
  \/ \E i \in Slots : PersonalTakesSlot(w, i)

Next == (\E w \in Workers : Process(w)) \/ Environment

Spec == Init /\ [][Next]_cvars

(* A worker keeps going and is restarted when it dies (restart:            *)
(* unless-stopped), the server drops dead sessions.  Nobody has to enqueue  *)
(* anything and no fault has to happen.                                    *)
Fairness ==
  /\ \A w \in Workers : WF_cvars(Step(w)) /\ WF_cvars(Restart(w))
  /\ WF_cvars(DropGlobalSession)
  /\ \A i \in Slots : WF_cvars(DropSlotSession(i))

FairSpec == Spec /\ Fairness

-----------------------------------------------------------------------------

TypeOK ==
  /\ refresh \in [Runs -> Row]
  /\ clock \in Nat
  /\ published \subseteq Runs
  /\ sharedFrom \in Runs \union {0}
  /\ globalLock \in Holders
  /\ writerSlot \in [Slots -> Holders]
  /\ cpc \in [Workers -> Labels]
  /\ claimed \in [Workers -> Runs \union {0}]
  /\ scan \in [Workers -> Slots]
  /\ outcome \in [Workers -> Outcomes]
  /\ faults \in 0 .. MaxFaults

(* One global refresh owns the publication path: from the moment a worker  *)
(* has published a run until it unlocks, job_postings was last written by  *)
(* that run, whatever other workers claim, fail, crash on or restart.      *)
PublicationPathOwned ==
  \A w \in Workers :
    (cpc[w] \in {"complete"} \union AfterSlot /\ outcome[w].dbt)
      => sharedFrom = claimed[w] /\ claimed[w] \in published

(* A row is in the hands of at most one worker, through requeues, stale    *)
(* recovery by a restarting worker and crashes.                            *)
OneOwnerPerRun ==
  \A v, w \in Workers : claimed[v] = claimed[w] /\ claimed[v] # 0 => v = w

(* The runs that go through create_if_no_active never overlap: at most one *)
(* is queued or running.                                                   *)
OneScheduledActive ==
  \A q, r \in Active : ~Bootstrap(q) /\ ~Bootstrap(r) => q = r

(* A run a personal refresh may be bound to (latest_successful) really     *)
(* published its jobs, and its final acquisition audit and its source      *)
(* results were recorded first.                                            *)
SuccessIsBacked ==
  \A r \in Runs : Successful(r) =>
    r \in published /\ refresh[r].audit = "final" /\ refresh[r].sources

(* A run that left the queue for good is never queued or run again (its    *)
(* final status may still be overwritten by another final status).         *)
NeverRunAgain ==
  [][\A r \in Runs : refresh[r].status \in Terminal
        => refresh'[r].status \in Terminal]_refresh

(* With no crash and no failing call, every run that is queued ends, also  *)
(* when workers compete for the global lock and the writer slots.          *)
QueuedRunEnds ==
  \A r \in Runs : refresh[r].status = "queued" ~> refresh[r].status \in Terminal

(* fail_stale_running says it will "close orphaned runs after a worker     *)
(* restart": a running row whose worker died does not stay running.        *)
Orphaned(r) == refresh[r].status = "running" /\ \A w \in Workers : claimed[w] # r

OrphansAreClosed ==
  \A r \in Runs : Orphaned(r) ~> ~Orphaned(r)
=============================================================================
