---------------------------- MODULE FirstRefresh ----------------------------
(***************************************************************************)
(* The first refresh of a user, across the API, the two queues and the     *)
(* workers: a click makes start_or_get write one durable workflow          *)
(* (repositories/bootstrap.py) with a waiting personal run and a global    *)
(* refresh of its own; the worker moves the workflow along as it runs the  *)
(* refresh (ConnectorRefresh) and then the personal run (PersonalRuns).    *)
(* Each action here is the whole transaction or call: the part of C, the   *)
(* part of P and the part of the workflow table that happen together.      *)
(*                                                                         *)
(* A workflow is known by its connector run, created in the same           *)
(* transaction.  connector_refresh_trigger_mode includes the bootstrap;    *)
(* the day's end and admin resets of the quota are left to PersonalRuns.   *)
(***************************************************************************)
EXTENDS AdvisoryLocks, Naturals, FiniteSets

CONSTANTS
  Users, Clients, Jobs,
  MaxRuns, MaxPersonal, MaxConcurrency, DailyLimit, MaxFaults,
  MaxRetries    \* user_bootstrap_workflows.max_retries

ASSUME FirstAssumption ==
  /\ Users # {} /\ IsFiniteSet(Clients)
  /\ MaxRuns \in Nat /\ MaxPersonal \in Nat /\ MaxFaults \in Nat
  /\ MaxConcurrency \in Nat \ {0} /\ DailyLimit \in Nat \ {0}
  /\ MaxRetries \in Nat /\ MaxRetries >= 3  \* the column's default

VARIABLES
  refresh, clock, published, sharedFrom, globalLock, cpc, claimed, scan, outcome,
  prun, lastRun, results, userLock, ppc, holds, tries, req,
  writerSlot, faults,  \* shared by the two halves of a worker
  wf,                  \* table user_bootstrap_workflows
  click                \* the API requests before they reach create

C == INSTANCE ConnectorRefresh
P == INSTANCE PersonalRuns WITH Sources <- 1 .. MaxRuns

fvars == <<wf, click>>
vars == <<C!cvars, P!pvars, fvars>>

(* What C does alone leaves these as they are, and conversely. *)
pOnly == <<prun, lastRun, results, userLock, ppc, holds, tries, req>>
cOnly == <<refresh, clock, published, sharedFrom, globalLock, cpc, claimed, scan,
           outcome>>

(* not_started is only seen inside start_or_get, global_succeeded never.   *)
WorkflowStatus ==
  {"none", "global_queued", "global_running", "personal_queued",
   "personal_running", "completed", "failed_retryable",
   "personal_failed_retryable", "failed_terminal"}
Closed == {"none", "completed", "failed_terminal"}

Workflow == [status : WorkflowStatus, user : Users, run : P!PRuns \union {0},
             retries : Nat]
NoWorkflow == [status |-> "none", user |-> P!SomeUser, run |-> 0, retries |-> 0]

Open(u) == {r \in C!Runs : wf[r].status \notin Closed /\ wf[r].user = u}
IsCompleted(u) == \E r \in C!Runs : wf[r].status = "completed" /\ wf[r].user = u

(* one_active_bootstrap_workflow_per_user refuses to reopen r beside       *)
(* another open workflow of the same user.                                 *)
MayReopen(r) == Open(wf[r].user) \subseteq {r}

(* The workflow of a bootstrap personal run (bootstrap_uuid). *)
WorkflowOf(p) == CHOOSE r \in C!Runs : wf[r].status # "none" /\ wf[r].run = p

Click == [at : {"idle", "select", "latest"}, user : Users]
NoClick == [at |-> "idle", user |-> P!SomeUser]

Init ==
  /\ C!Init /\ P!Init
  /\ wf = [r \in C!Runs |-> NoWorkflow]
  /\ click = [c \in Clients |-> NoClick]

(***************************************************************************)
(* The API                                                                 *)
(***************************************************************************)

SetClick(c, at, u) == click' = [click EXCEPT ![c] = [at |-> at, user |-> u]]

(* submit_pipeline_run reads is_completed by itself and branches on it. *)
Submit(c, u) ==
  /\ click[c].at = "idle" /\ req[c].at = "idle"
  /\ SetClick(c, IF IsCompleted(u) THEN "latest" ELSE "select", u)
  /\ UNCHANGED <<cOnly, pOnly, writerSlot, faults, wf>>

(* start_or_get finds an open workflow and answers with its run ... *)
ReturnExisting(c) ==
  /\ click[c].at = "select"
  /\ Open(click[c].user) # {}
  /\ click' = [click EXCEPT ![c] = NoClick]
  /\ UNCHANGED <<cOnly, pOnly, writerSlot, faults, wf>>

(* ... or goes on to the count. *)
StartBootstrap(c) ==
  /\ click[c].at = "select"
  /\ Open(click[c].user) = {}
  /\ P!SubmitRun(c, click[c].user, 0)
  /\ click' = [click EXCEPT ![c] = NoClick]
  /\ UNCHANGED <<cOnly, wf>>

(* latest_successful binds a later run; without one, ConflictError. *)
BindLatest(c) ==
  /\ click[c].at = "latest"
  /\ \E r \in C!Runs : C!LatestSuccessful(r) /\ P!SubmitRun(c, click[c].user, r)
  /\ click' = [click EXCEPT ![c] = NoClick]
  /\ UNCHANGED <<cOnly, wf>>

NoSharedData(c) ==
  /\ click[c].at = "latest"
  /\ \A r \in C!Runs : ~C!LatestSuccessful(r)
  /\ click' = [click EXCEPT ![c] = NoClick]
  /\ UNCHANGED <<cOnly, pOnly, writerSlot, faults, wf>>

CheckQuota(c) ==
  /\ P!CheckQuota(c)
  /\ UNCHANGED <<cOnly, fvars>>

CreateRun(c) ==
  /\ req[c].source # 0
  /\ P!CreateRun(c)
  /\ UNCHANGED <<cOnly, fvars>>

(* start_or_get: workflow, waiting run and global refresh, all or nothing. *)
CreateWorkflow(c) ==
  LET u == req[c].user IN
  /\ req[c].source = 0
  /\ Open(u) = {}
  /\ P!CreateRun(c)
  /\ \E r \in C!Runs, p \in P!PRuns :
       /\ C!Insert(r, "first_user_bootstrap")
       /\ prun'[p] # prun[p]
       /\ wf' = [wf EXCEPT ![r] = [status |-> "global_queued", user |-> u,
                                   run |-> p, retries |-> 0]]
  /\ UNCHANGED <<clock, published, sharedFrom, globalLock, cpc, claimed, scan,
                 outcome, click>>

(* The index on runs refuses: PipelineAlreadyActiveError. *)
RunRefused(c) ==
  /\ P!ActiveOf(req[c].user) # {}
  /\ req[c].source = 0 => Open(req[c].user) = {}
  /\ P!CreateRefused(c)
  /\ UNCHANGED <<cOnly, fvars>>

(* The index on workflows refuses.  The handler of the 23505 selects on    *)
(* the transaction the error has aborted, and that statement fails too: an *)
(* internal error, not the workflow that README.md:328 promises.           *)
WorkflowRefused(c) ==
  /\ req[c].source = 0
  /\ Open(req[c].user) # {}
  /\ P!CreateRefused(c)
  /\ UNCHANGED <<cOnly, wf, click>>

CancelQueued(p) ==
  /\ P!CancelQueued(p)
  /\ UNCHANGED <<cOnly, fvars>>

CreateIfNoActive(r) ==
  /\ C!CreateIfNoActive(r)
  /\ UNCHANGED <<pOnly, fvars>>

(***************************************************************************)
(* A worker runs a global refresh                                          *)
(***************************************************************************)

SetWf(r, status) == wf' = [wf EXCEPT ![r].status = status]

MarkGlobalRunning(w) ==
  LET r == claimed[w] IN
  /\ C!MarkGlobalRunning(w)
  /\ IF wf[r].status \in {"global_queued", "failed_retryable"}
       THEN SetWf(r, "global_running") ELSE UNCHANGED wf
  /\ UNCHANGED <<pOnly, click>>

(* mark_global_succeeded.  It raises unless the personal run is waiting;   *)
(* see HandOffReady.                                                       *)
MaySucceed == {"global_running", "global_queued", "failed_retryable"}

(* Mutants: only the workflow is updated; the run is queued unbound. *)
SucceedWorkflowOnly(w) ==
  LET r == claimed[w] IN
  /\ C!MarkGlobalSucceeded(w)
  /\ IF wf[r].status \in MaySucceed THEN SetWf(r, "personal_queued") ELSE UNCHANGED wf
  /\ UNCHANGED <<pOnly, click>>

SucceedUnbound(w) ==
  LET r == claimed[w] IN
  /\ C!MarkGlobalSucceeded(w)
  /\ prun' = [prun EXCEPT ![wf[r].run].status = "queued"]
  /\ SetWf(r, "personal_queued")
  /\ UNCHANGED <<lastRun, results, userLock, ppc, holds, tries, req, click>>

MarkGlobalSucceeded(w) ==
  LET r == claimed[w] IN
  /\ C!MarkGlobalSucceeded(w)
  /\ IF wf[r].status \in MaySucceed
       THEN P!QueueWaiting(wf[r].run, r) /\ SetWf(r, "personal_queued")
       ELSE UNCHANGED <<pOnly, wf>>
  /\ UNCHANGED click

(* mark_global_failed looks at no status. *)
GlobalFailed(r) ==
  /\ MayReopen(r)
  /\ wf' = [wf EXCEPT ![r].retries = @ + 1,
                      ![r].status = IF wf[r].retries + 1 >= MaxRetries
                                      THEN "failed_terminal" ELSE "failed_retryable"]

MarkGlobalFailed(w) ==
  /\ C!MarkGlobalFailed(w)
  /\ GlobalFailed(claimed[w])
  /\ UNCHANGED <<pOnly, click>>

RecordBootstrapFailure(w) ==
  /\ C!RecordBootstrapFailure(w)
  /\ GlobalFailed(claimed[w])
  /\ UNCHANGED <<pOnly, click>>

(* The steps that take or free a writer slot of P's. *)
GlobalSlot(w) ==
  /\ C!TrySlot(w)
  /\ writerSlot' # writerSlot => \E i \in P!Slots : P!GlobalTakesSlot(w, i)
  /\ UNCHANGED <<pOnly, fvars>>

GlobalEndsSlot(w) ==
  /\ C!CompleteRun(w)
  /\ P!GlobalFreesSlot(w)
  /\ UNCHANGED fvars

Raise(w, as) ==
  /\ C!Raise(w, as)
  /\ UNCHANGED <<pOnly, fvars>>

(* The steps that neither the personal half nor the workflow notices. *)
GlobalStep(w) ==
  /\ \/ C!ClaimNext(w) \/ C!AcquireGlobal(w) \/ C!GlobalBusy(w) \/ C!RecordPlan(w)
     \/ C!CollectAndBuild(w) \/ C!PublishShared(w) \/ C!RecordAudit(w)
     \/ C!UpsertSourceResults(w) \/ C!Finish(w) \/ C!Unlock(w) \/ C!Requeue(w)
     \/ C!RecordFailure(w)
  /\ UNCHANGED <<pOnly, fvars>>

(***************************************************************************)
(* A worker runs a personal pipeline                                       *)
(***************************************************************************)

(* Mutant: the loop runs the personal queue with refreshes still queued. *)
StartTurnEagerly(w) ==
  /\ cpc[w] = "idle"
  /\ cpc' = [cpc EXCEPT ![w] = "personal"]
  /\ P!StartTurn(w)
  /\ UNCHANGED <<refresh, clock, published, sharedFrom, globalLock, claimed, scan,
                 outcome, fvars>>

StartTurn(w) ==
  /\ C!NothingQueued(w) /\ P!StartTurn(w)
  /\ UNCHANGED fvars

EndTurn(w) ==
  /\ C!EndPersonalTurn(w)
  /\ \/ P!NothingToRun(w) \/ P!UnlockUser(w) \/ P!RequeueRun(w)
     \/ P!FailRun(w) /\ ppc'[w] = "away"
  /\ UNCHANGED fvars

PersonalStep(w) ==
  /\ \/ P!ClaimRun(w) \/ P!AcquireUser(w) \/ P!UserBusy(w) \/ P!SlotBusy(w)
     \/ P!BuildUserModels(w)
     \/ P!FailRun(w) /\ ppc'[w] = "fail_mark"
  /\ UNCHANGED <<cOnly, fvars>>

TakeSlot(w) ==
  /\ P!TakeSlot(w)
  /\ C!PersonalTakesSlot(w, tries[w])
  /\ UNCHANGED fvars

(* mark_personal_running, and InvalidStateTransitionError when the         *)
(* workflow is not personal_queued.                                        *)
MarkPersonalRunning(w) ==
  LET r == WorkflowOf(holds[w]) IN
  /\ ppc[w] = "mark_running"
  /\ wf[r].status = "personal_queued"
  /\ P!MarkPersonalRunning(w)
  /\ SetWf(r, "personal_running")
  /\ UNCHANGED <<cOnly, click>>

WorkflowNotReady(w) ==
  /\ P!NotReady(w)
  /\ wf[WorkflowOf(holds[w])].status # "personal_queued"
  /\ P!RaiseInRun(w, Free) /\ C!PersonalRaise(w, Free)
  /\ UNCHANGED fvars

PublishResults(w) ==
  /\ \E matched \in SUBSET Jobs : \E inactive \in SUBSET Jobs :
       P!PublishResults(w, matched, inactive)
  /\ C!PersonalFreesSlot(w)
  /\ UNCHANGED fvars

MarkPersonalCompleted(w) ==
  /\ P!MarkPersonalCompleted(w)
  /\ LET r == WorkflowOf(holds[w]) IN
       IF wf[r].status = "personal_running" THEN SetWf(r, "completed")
                                            ELSE UNCHANGED wf
  /\ UNCHANGED <<cOnly, click>>

(* Mutant: the failure is recorded with the wrong status. *)
PersonalFailureCompletes(w) ==
  /\ P!MarkPersonalFailed(w) /\ C!EndPersonalTurn(w)
  /\ SetWf(WorkflowOf(holds[w]), "completed")
  /\ UNCHANGED click

(* Mutant: no unique index. *)
PersonalFailedUnchecked(w) ==
  /\ P!MarkPersonalFailed(w) /\ C!EndPersonalTurn(w)
  /\ SetWf(WorkflowOf(holds[w]), "personal_failed_retryable")
  /\ UNCHANGED click

(* mark_personal_failed looks at no status either. *)
MarkPersonalFailed(w) ==
  /\ P!MarkPersonalFailed(w) /\ C!EndPersonalTurn(w)
  /\ MayReopen(WorkflowOf(holds[w]))
  /\ SetWf(WorkflowOf(holds[w]), "personal_failed_retryable")
  /\ UNCHANGED click

RaiseInRun(w, as) ==
  /\ C!Fault
  /\ P!RaiseInRun(w, as) /\ C!PersonalRaise(w, as)
  /\ UNCHANGED fvars

(***************************************************************************)
(* The process, and the rest                                               *)
(***************************************************************************)

(* The mark after a failure would reopen a closed workflow beside an open  *)
(* one: the update raises out of process_one.                              *)
ReopenRefused(w) ==
  \/ C!MarkRefused(w) /\ cpc[w] = "fail_mark" /\ ~MayReopen(claimed[w])
  \/ P!MarkRefused(w) /\ ppc[w] = "fail_mark" /\ ~MayReopen(WorkflowOf(holds[w]))

Crash(w) ==
  /\ C!Fault \/ ReopenRefused(w)
  /\ C!Crash(w) /\ P!CrashInRun(w)
  /\ UNCHANGED fvars

Restart(w) ==
  /\ C!Restart(w) /\ P!RestartIdle(w)
  /\ UNCHANGED fvars

DropGlobalSession == C!DropGlobalSession /\ UNCHANGED <<pOnly, fvars>>
DropUserSession(u) == P!DropUserSession(u) /\ UNCHANGED <<cOnly, fvars>>
DropSlotSession(i) == C!DropSlotSession(i) /\ UNCHANGED <<pOnly, fvars>>

-----------------------------------------------------------------------------

Work(w) ==
  \/ GlobalStep(w) \/ MarkGlobalRunning(w) \/ GlobalSlot(w) \/ GlobalEndsSlot(w)
  \/ MarkGlobalSucceeded(w) \/ MarkGlobalFailed(w) \/ RecordBootstrapFailure(w)
  \/ StartTurn(w) \/ EndTurn(w) \/ PersonalStep(w) \/ TakeSlot(w)
  \/ MarkPersonalRunning(w) \/ WorkflowNotReady(w) \/ PublishResults(w)
  \/ MarkPersonalCompleted(w) \/ MarkPersonalFailed(w)

Api ==
  \/ \E c \in Clients :
       \/ \E u \in Users : Submit(c, u)
       \/ ReturnExisting(c) \/ StartBootstrap(c) \/ BindLatest(c) \/ NoSharedData(c)
       \/ CheckQuota(c) \/ CreateRun(c) \/ CreateWorkflow(c) \/ RunRefused(c)
       \/ WorkflowRefused(c)
  \/ \E p \in P!PRuns : CancelQueued(p)
  \/ \E r \in C!Runs : CreateIfNoActive(r)

Next ==
  \/ \E w \in Workers :
       \/ Work(w) \/ Crash(w) \/ Restart(w)
       \/ \E as \in {Free, Dead} : Raise(w, as) \/ RaiseInRun(w, as)
  \/ Api
  \/ DropGlobalSession
  \/ \E i \in C!Slots : DropSlotSession(i)
  \/ \E u \in Users : DropUserSession(u)

Spec == Init /\ [][Next]_vars

(* A worker keeps going and is restarted when it dies.  Nobody has to click *)
(* or to enqueue, and no fault has to happen.                              *)
Fairness ==
  \A w \in Workers : WF_vars(Work(w)) /\ WF_vars(Restart(w))

FairSpec == Spec /\ Fairness

-----------------------------------------------------------------------------

TypeOK ==
  /\ C!TypeOK /\ P!TypeOK
  /\ wf \in [C!Runs -> Workflow]
  /\ click \in [Clients -> Click]

(* The two halves of a worker are the worker: one is at work only while    *)
(* the other is away, and both go down together; each is, with the other   *)
(* hidden, a worker of its own module.                                     *)
ImplementsConnectorRefresh == C!Spec
ImplementsPersonalRuns == P!Spec

(* What the workflow table, the refreshes and the personal runs amount to  *)
(* for a user: promises, and the refresh behind the current result.        *)
Stage(status) ==
  CASE status = "none" -> "none"
    [] status \in {"global_queued", "global_running"} -> "asked"
    [] status \in {"personal_queued", "personal_running"} -> "prepared"
    [] status = "completed" -> "delivered"
    [] status \in {"failed_retryable", "personal_failed_retryable"} -> "failed"
    [] status = "failed_terminal" -> "given_up"  \* no action leads there

Promises == [r \in C!Runs |-> Stage(wf[r].status)]
Owners == [r \in C!Runs |-> wf[r].user]
ShownSources ==
  [u \in Users |-> IF lastRun[u] = 0 THEN 0 ELSE prun[lastRun[u]].source]

Promise == INSTANCE RefreshPromise WITH
  Refreshes <- C!Runs, Nothing <- 0,
  promise <- Promises, owner <- Owners, shown <- ShownSources

(* start_or_get, the two mark_global_*, publish and the two mark_personal_* *)
(* keep the promise of a click: one is open at a time, the shared jobs are *)
(* out before the user's part begins, what is shown always comes from      *)
(* published jobs, "completed" is written only while the user's current    *)
(* result is of the promised refresh, and no failure ends the promise.     *)
ImplementsPromise == Promise!Spec

(* A completed workflow has a completed personal run, bound to the very    *)
(* refresh the workflow started, which did publish its jobs.               *)
CompletedIsPublished ==
  \A r \in C!Runs : wf[r].status = "completed" =>
    /\ prun[wf[r].run].status = "completed"
    /\ prun[wf[r].run].source = r
    /\ r \in published

(* The personal run of a first refresh leaves the wait only bound to its   *)
(* own refresh, after that published; and while it waits its workflow has  *)
(* not gone on, so mark_global_succeeded never finds "Only waiting         *)
(* bootstrap runs may be queued" false.                                    *)
HandOffReady ==
  \A r \in C!Runs : wf[r].status # "none" =>
    IF prun[wf[r].run].status = "waiting_for_global"
      THEN wf[r].status \in MaySucceed \union {"failed_terminal"}
      ELSE prun[wf[r].run].source = r /\ r \in published

(* At most one open workflow of a user, although mark_global_failed and    *)
(* mark_personal_failed reopen completed ones; and the retry counter stays *)
(* within user_bootstrap_workflows_retry_check, so its update never fails. *)
WorkflowConstraints ==
  /\ \A u \in Users : Cardinality(Open(u)) <= 1
  /\ \A r \in C!Runs : wf[r].retries < MaxRetries

(* With no fault, and no refresh overstaying connector_refresh_max_seconds *)
(* (a worker that starts would close it under its owner), a first refresh  *)
(* that was queued ends: its personal run is completed or was cancelled,   *)
(* or the shared refresh failed.                                           *)
RefreshesInTime ==
  [](\A w \in Workers :
       cpc[w] \in {"claimed", "requeue", "audit", "sources", "finish"}
                   \union C!BeforeSlot \union C!InSlot
         => refresh[claimed[w]].status = "running")

FirstRefreshEnds ==
  RefreshesInTime =>
    \A r \in C!Runs :
      wf[r].status = "global_queued" ~>
        \/ wf[r].status \in {"completed", "failed_retryable"}
        \/ wf[r].run # 0 /\ prun[wf[r].run].status = "cancelled"

(* With no fault, every refresh that is queued ends, although workers      *)
(* compete for the global lock and personal runs hold writer slots.        *)
QueuedRunEnds == C!QueuedRunEnds

(* "Personal pipeline run is not bound to a successful shared refresh":    *)
(* the refresh of a run at work is a successful one.                       *)
BoundSourceIsSuccessful ==
  \A w \in Workers : ppc[w] \in P!InSlot => C!Successful(prun[holds[w]].source)
=============================================================================
