---------------------------- MODULE PersonalRuns ----------------------------
(***************************************************************************)
(* Personal pipeline runs: the queue user_pipeline_runs                    *)
(* (repositories/pipeline_runs.py), the API requests that fill it under a  *)
(* daily quota, the workers that drain it (tasks/user_pipeline_worker.py)  *)
(* and the publication of a run's results (publication/user_results.py).   *)
(*                                                                         *)
(* Rows are numbered in the order of submitted_at.  The label "away" is    *)
(* the part of the main loop in which the worker looks for global          *)
(* refreshes.  The runs of a first-refresh bootstrap are created waiting   *)
(* and queued later; the workflow that does so, and that mark_running,     *)
(* mark_completed and fail_mark update, is in module FirstRefresh.         *)
(***************************************************************************)
EXTENDS AdvisoryLocks, Naturals, FiniteSets

CONSTANTS
  Users,
  Clients,         \* API requests in flight at once
  Sources,         \* the global refreshes a run may be bound to
  Jobs,            \* job_ids a run may match
  MaxPersonal,     \* bound: rows ever created in user_pipeline_runs
  MaxConcurrency,  \* settings.user_pipeline_max_concurrency: writer slots
  DailyLimit,      \* settings.user_pipeline_daily_limit
  MaxFaults        \* bound: crashes and failing calls in a behaviour

ASSUME PersonalAssumption ==
  /\ Users # {}
  /\ IsFiniteSet(Clients)
  /\ Sources \subseteq Nat \ {0}
  /\ MaxPersonal \in Nat
  /\ MaxConcurrency \in Nat \ {0}
  /\ DailyLimit \in Nat \ {0}
  /\ MaxFaults \in Nat

VARIABLES
  prun,        \* table user_pipeline_runs
  lastRun,     \* user_profiles.last_successful_pipeline_run_uuid (0: null)
  results,     \* user_job_matches: the run of the current row of each job
  userLock,    \* "careersignals:user:<user>"
  writerSlot,  \* "careersignals:motherduck-writer:<slot>"
  ppc,         \* where each worker is in process_one
  holds,       \* the run each worker claimed (0: none)
  tries,       \* the writer slot a worker tries, then holds
  req,         \* the API requests submitting a run
  faults       \* crashes and failing calls so far

pvars == <<prun, lastRun, results, userLock, writerSlot, ppc, holds, tries, req,
           faults>>

ptables == <<prun, lastRun, results>>
plocals == <<holds, tries>>

PRuns == 1 .. MaxPersonal
Slots == 0 .. MaxConcurrency - 1

Status == {"absent", "waiting_for_global", "queued", "running", "completed",
           "failed", "cancelled"}
Final == {"completed", "failed", "cancelled"}
ActiveStatus == {"waiting_for_global", "queued", "running"}

Row == [status : Status, user : Users, source : Sources \union {0},
        boot : BOOLEAN, current : BOOLEAN, counts : BOOLEAN]

(* counts: submitted_at lies in the current quota window and not before    *)
(* the user's pipeline_quota_reset_at.                                     *)
NewRow(status, u, source, boot) ==
  [status |-> status, user |-> u, source |-> source, boot |-> boot,
   current |-> FALSE, counts |-> TRUE]

Absent(p) == prun[p].status = "absent"
OfUser(u) == {p \in PRuns : ~Absent(p) /\ prun[p].user = u}
ActiveOf(u) == {p \in OfUser(u) : prun[p].status \in ActiveStatus}
PQueued == {p \in PRuns : prun[p].status = "queued"}

(* PIPELINE_QUOTA_USAGE_SQL *)
Used(u) == Cardinality({p \in OfUser(u) : prun[p].status = "completed" /\ prun[p].counts})

InSlot == {"mark_running", "build", "publish"}
InUserLock == {"slot"} \union InSlot \union {"mark_completed", "unlock"}
InTry == {"claimed"} \union InUserLock
PLabels == {"down", "away", "ready", "requeue", "fail", "fail_mark"} \union InTry

RequestLabels == {"idle", "check", "insert"}
Request == [at : RequestLabels, user : Users, source : Sources \union {0}]

-----------------------------------------------------------------------------

(* Before its first use a row or a request belongs to nobody in particular. *)
SomeUser == CHOOSE u \in Users : TRUE
NoRequest == [at |-> "idle", user |-> SomeUser, source |-> 0]

Init ==
  /\ prun = [p \in PRuns |-> NewRow("absent", SomeUser, 0, FALSE)]
  /\ lastRun = [u \in Users |-> 0]
  /\ results = [u \in Users |-> [j \in Jobs |-> 0]]
  /\ userLock = [u \in Users |-> Free]
  /\ writerSlot = [i \in Slots |-> Free]
  /\ ppc = [w \in Workers |-> "down"]
  /\ holds = [w \in Workers |-> 0]
  /\ tries = [w \in Workers |-> 0]
  /\ req = [c \in Clients |-> NoRequest]
  /\ faults = 0

PGoto(w, label) == ppc' = [ppc EXCEPT ![w] = label]

PEndTurn(w, label) ==
  /\ PGoto(w, label)
  /\ holds' = [holds EXCEPT ![w] = 0]
  /\ tries' = [tries EXCEPT ![w] = 0]

(***************************************************************************)
(* API requests                                                            *)
(***************************************************************************)

(* submit_pipeline_run, up to the count.  latest_successful is read in a    *)
(* transaction of its own, before the one that creates the run; without a  *)
(* source (0) the request is for start_or_get, a first refresh.            *)
SubmitRun(c, u, s) ==
  /\ req[c].at = "idle"
  /\ req' = [req EXCEPT ![c] = [at |-> "check", user |-> u, source |-> s]]
  /\ UNCHANGED <<ptables, userLock, writerSlot, ppc, plocals, faults>>

(* create: the count, and at the limit PipelineDailyLimitError ... *)
CheckQuota(c) ==
  /\ req[c].at = "check"
  /\ req' = IF Used(req[c].user) < DailyLimit
              THEN [req EXCEPT ![c].at = "insert"]
              ELSE [req EXCEPT ![c] = NoRequest]
  /\ UNCHANGED <<ptables, userLock, writerSlot, ppc, plocals, faults>>

(* The index one_active_pipeline_per_user and the new row. *)
InsertRow(p, row) ==
  /\ Absent(p)
  /\ \A q \in PRuns : q < p => ~Absent(q)
  /\ ActiveOf(row.user) = {}
  /\ prun' = [prun EXCEPT ![p] = row]

(* ... then the insert, a later statement of the same READ COMMITTED       *)
(* transaction: other transactions may have committed in between.  A first *)
(* refresh creates its run waiting.                                        *)
NewRun(u, s) ==
  IF s = 0 THEN NewRow("waiting_for_global", u, 0, TRUE)
           ELSE NewRow("queued", u, s, FALSE)

CreateRun(c) ==
  /\ req[c].at = "insert"
  /\ \E p \in PRuns : InsertRow(p, NewRun(req[c].user, req[c].source))
  /\ req' = [req EXCEPT ![c] = NoRequest]
  /\ UNCHANGED <<lastRun, results, userLock, writerSlot, ppc, plocals, faults>>

(* 23505, from the index of the runs or from that of the workflows. *)
CreateRefused(c) ==
  /\ req[c].at = "insert"
  /\ ActiveOf(req[c].user) # {} \/ req[c].source = 0
  /\ req' = [req EXCEPT ![c] = NoRequest]
  /\ UNCHANGED <<ptables, userLock, writerSlot, ppc, plocals, faults>>

(* mark_global_succeeded binds a waiting run to the refresh and queues it. *)
QueueWaiting(p, s) ==
  /\ prun[p].status = "waiting_for_global"
  /\ prun' = [prun EXCEPT ![p].status = "queued", ![p].source = s]
  /\ UNCHANGED <<lastRun, results, userLock, writerSlot, ppc, plocals, req, faults>>

(* Mutant: a running run may be cancelled too. *)
CancelActive(p) ==
  /\ prun[p].status \in {"queued", "running"}
  /\ prun' = [prun EXCEPT ![p].status = "cancelled"]
  /\ UNCHANGED <<lastRun, results, userLock, writerSlot, ppc, plocals, req, faults>>

(* cancel_queued *)
CancelQueued(p) ==
  /\ prun[p].status = "queued"
  /\ prun' = [prun EXCEPT ![p].status = "cancelled"]
  /\ UNCHANGED <<lastRun, results, userLock, writerSlot, ppc, plocals, req, faults>>

(* What was submitted so far no longer counts: the next 6 AM in New York   *)
(* comes (all users), or an admin resets one user's quota.                 *)
ForgetUsage(us) ==
  /\ prun' = [p \in PRuns |-> [prun[p] EXCEPT
                !.counts = @ /\ (Absent(p) \/ prun[p].user \notin us)]]
  /\ prun' # prun
  /\ UNCHANGED <<lastRun, results, userLock, writerSlot, ppc, plocals, req, faults>>

NewQuotaWindow == ForgetUsage(Users)
ResetQuota(u) == ForgetUsage({u})

(***************************************************************************)
(* One turn of a worker                                                    *)
(***************************************************************************)

StartTurn(w) ==
  /\ ppc[w] = "away"
  /\ PGoto(w, "ready")
  /\ UNCHANGED <<ptables, userLock, writerSlot, plocals, req, faults>>

NothingToRun(w) ==
  /\ ppc[w] = "ready"
  /\ PQueued = {}
  /\ PGoto(w, "away")
  /\ UNCHANGED <<ptables, userLock, writerSlot, plocals, req, faults>>

(* claim_next; SKIP LOCKED as in ConnectorRefresh. *)
ClaimRun(w) ==
  /\ ppc[w] = "ready"
  /\ \E p \in PQueued :
       /\ prun' = [prun EXCEPT ![p].status = "running"]
       /\ holds' = [holds EXCEPT ![w] = p]
  /\ PGoto(w, "claimed")
  /\ UNCHANGED <<lastRun, results, userLock, writerSlot, tries, req, faults>>

(* Mutant: the answer of pg_try_advisory_lock is ignored. *)
AcquireUserUnchecked(w) ==
  /\ ppc[w] = "claimed"
  /\ userLock' = [userLock EXCEPT ![prun[holds[w]].user] = w]
  /\ PGoto(w, "slot")
  /\ UNCHANGED <<ptables, writerSlot, plocals, req, faults>>

(* A run without a source would raise here; see WorkerOwnsRunning. *)
AcquireUser(w) ==
  LET u == prun[holds[w]].user IN
  /\ ppc[w] = "claimed"
  /\ prun[holds[w]].source # 0
  /\ Available(userLock[u])
  /\ userLock' = [userLock EXCEPT ![u] = w]
  /\ PGoto(w, "slot")
  /\ UNCHANGED <<ptables, writerSlot, plocals, req, faults>>

UserBusy(w) ==
  /\ ppc[w] = "claimed"
  /\ ~Available(userLock[prun[holds[w]].user])
  /\ PGoto(w, "requeue")
  /\ UNCHANGED <<ptables, userLock, writerSlot, plocals, req, faults>>

(* acquire_writer_slot, under the user lock *)
TakeSlot(w) ==
  /\ ppc[w] = "slot"
  /\ Available(writerSlot[tries[w]])
  /\ writerSlot' = [writerSlot EXCEPT ![tries[w]] = w]
  /\ PGoto(w, IF prun[holds[w]].boot THEN "mark_running" ELSE "build")
  /\ UNCHANGED <<ptables, userLock, plocals, req, faults>>

SlotBusy(w) ==
  /\ ppc[w] = "slot"
  /\ ~Available(writerSlot[tries[w]])
  /\ IF tries[w] + 1 \in Slots
       THEN /\ tries' = [tries EXCEPT ![w] = @ + 1]
            /\ UNCHANGED <<userLock, ppc>>
       ELSE /\ userLock' = Relinquish(userLock, w, Free)
            /\ PGoto(w, "requeue")
            /\ UNCHANGED tries
  /\ UNCHANGED <<ptables, writerSlot, holds, req, faults>>

MarkPersonalRunning(w) ==
  /\ ppc[w] = "mark_running"
  /\ PGoto(w, "build")
  /\ UNCHANGED <<ptables, userLock, writerSlot, plocals, req, faults>>

(* Mutant: the old results are deleted before the new ones are there. *)
BuildDeletesResults(w) ==
  /\ ppc[w] = "build"
  /\ results' = [results EXCEPT ![prun[holds[w]].user] = [j \in Jobs |-> 0]]
  /\ PGoto(w, "publish")
  /\ UNCHANGED <<prun, lastRun, userLock, writerSlot, plocals, req, faults>>

(* Mutant: the rows are shown as they are built. *)
BuildShowsRows(w) ==
  /\ ppc[w] = "build"
  /\ results' = [results EXCEPT ![prun[holds[w]].user] = [j \in Jobs |-> holds[w]]]
  /\ PGoto(w, "publish")
  /\ UNCHANGED <<prun, lastRun, userLock, writerSlot, plocals, req, faults>>

(* run_user_dbt_refresh up to the result partition: staging and dbt write  *)
(* only warehouse rows of this user and run.                               *)
BuildUserModels(w) ==
  /\ ppc[w] = "build"
  /\ PGoto(w, "publish")
  /\ UNCHANGED <<ptables, userLock, writerSlot, plocals, req, faults>>

(* Mutant: the previous current result keeps its flag. *)
CompletedBeside(p) ==
  [prun EXCEPT ![p].status = "completed", ![p].current = TRUE]

(* The run becomes the one current result of its user. *)
CompletedAndCurrent(p) ==
  [q \in PRuns |->
     IF q = p THEN [prun[q] EXCEPT !.status = "completed", !.current = TRUE]
     ELSE IF q \in OfUser(prun[p].user) THEN [prun[q] EXCEPT !.current = FALSE]
     ELSE prun[q]]

(* Matched replaces the user's current rows of those jobs, rows of jobs    *)
(* that are no longer active are deactivated, every other row stays.       *)
Merged(p, matched, inactive) ==
  [results EXCEPT ![prun[p].user] = [j \in Jobs |->
     IF j \in inactive THEN 0 ELSE IF j \in matched THEN p ELSE @[j]]]

(* publish, one transaction; then the runner returns and the writer slot   *)
(* is freed.                                                               *)
PublishResults(w, matched, inactive) ==
  LET p == holds[w] IN
  /\ ppc[w] = "publish"
  /\ prun[p].status = "running"
  /\ prun' = CompletedAndCurrent(p)
  /\ results' = Merged(p, matched, inactive)
  /\ lastRun' = [lastRun EXCEPT ![prun[p].user] = p]
  /\ writerSlot' = Relinquish(writerSlot, w, Free)
  /\ PGoto(w, IF prun[p].boot THEN "mark_completed" ELSE "unlock")
  /\ UNCHANGED <<userLock, plocals, req, faults>>

MarkPersonalCompleted(w) ==
  /\ ppc[w] = "mark_completed"
  /\ PGoto(w, "unlock")
  /\ UNCHANGED <<ptables, userLock, writerSlot, plocals, req, faults>>

UnlockUser(w) ==
  /\ ppc[w] = "unlock"
  /\ userLock' = Relinquish(userLock, w, Free)
  /\ PEndTurn(w, "away")
  /\ UNCHANGED <<ptables, writerSlot, req, faults>>

(* requeue raises unless the run is running; see WorkerOwnsRunning. *)
RequeueRun(w) ==
  /\ ppc[w] = "requeue"
  /\ prun[holds[w]].status = "running"
  /\ prun' = [prun EXCEPT ![holds[w]].status = "queued"]
  /\ PEndTurn(w, "away")
  /\ UNCHANGED <<lastRun, results, userLock, writerSlot, req, faults>>

(* Mutant: fail looks at no status. *)
FailAlways(w) ==
  /\ ppc[w] = "fail"
  /\ prun' = [prun EXCEPT ![holds[w]].status = "failed"]
  /\ IF prun[holds[w]].boot
       THEN PGoto(w, "fail_mark") /\ UNCHANGED plocals
       ELSE PEndTurn(w, "away")
  /\ UNCHANGED <<lastRun, results, userLock, writerSlot, req, faults>>

(* fail touches only a running run: what was published stays completed. *)
FailRun(w) ==
  LET p == holds[w] IN
  /\ ppc[w] = "fail"
  /\ prun' = IF prun[p].status = "running"
               THEN [prun EXCEPT ![p].status = "failed"] ELSE prun
  /\ IF prun[p].boot
       THEN PGoto(w, "fail_mark") /\ UNCHANGED plocals
       ELSE PEndTurn(w, "away")
  /\ UNCHANGED <<lastRun, results, userLock, writerSlot, req, faults>>

MarkPersonalFailed(w) ==
  /\ ppc[w] = "fail_mark"
  /\ PEndTurn(w, "away")
  /\ UNCHANGED <<ptables, userLock, writerSlot, req, faults>>

(***************************************************************************)
(* Faults, and the other half of the worker                                *)
(***************************************************************************)

Fault == faults < MaxFaults /\ faults' = faults + 1

(* mark_personal_running finds the workflow not ready and raises. *)
NotReady(w) == ppc[w] = "mark_running" /\ UNCHANGED faults

(* mark_personal_failed, or mark_global_failed in the global half, would    *)
(* reopen a closed workflow next to an open one: the unique index of       *)
(* FirstRefresh refuses, which is no fault.                                *)
MarkRefused(w) == ppc[w] \in {"fail_mark", "away"} /\ UNCHANGED faults

(* An exception leaves the try: a call failed, before or after it took     *)
(* effect (Next charges it as a fault), or FirstRefresh has it raised.     *)
RaiseInRun(w, as) ==
  /\ ppc[w] \in InTry
  /\ userLock' = Relinquish(userLock, w, as)
  /\ writerSlot' = Relinquish(writerSlot, w, as)
  /\ PGoto(w, "fail")
  /\ UNCHANGED <<ptables, plocals, req>>

(* The process dies, or a call outside the try fails and process_one        *)
(* raises through main.  No one closes the personal run.                   *)
CrashInRun(w) ==
  /\ ppc[w] # "down"
  /\ userLock' = Relinquish(userLock, w, Dead)
  /\ writerSlot' = Relinquish(writerSlot, w, Dead)
  /\ PEndTurn(w, "down")
  /\ UNCHANGED <<ptables, req>>

RestartIdle(w) ==
  /\ ppc[w] = "down"
  /\ PGoto(w, "away")
  /\ UNCHANGED <<ptables, userLock, writerSlot, plocals, req, faults>>

(* While away the worker takes and frees slots for a global refresh. *)
GlobalTakesSlot(w, i) ==
  /\ ppc[w] = "away"
  /\ Available(writerSlot[i])
  /\ \A k \in Slots : writerSlot[k] # w
  /\ writerSlot' = [writerSlot EXCEPT ![i] = w]
  /\ UNCHANGED <<ptables, userLock, ppc, plocals, req, faults>>

GlobalFreesSlot(w) ==
  /\ ppc[w] = "away"
  /\ writerSlot' = Relinquish(writerSlot, w, Free)
  /\ UNCHANGED <<ptables, userLock, ppc, plocals, req, faults>>

(* The global refresh raises, and so loses a slot it may have. *)
GlobalRaises(w, as) ==
  /\ ppc[w] = "away"
  /\ Fault
  /\ writerSlot' = Relinquish(writerSlot, w, as)
  /\ UNCHANGED <<ptables, userLock, ppc, plocals, req>>

(* The server notices that a process is gone.  Only sessions of dead       *)
(* workers are lost: one whose connection drops while its worker goes on,  *)
(* beside the lock, is not modelled.                                       *)
DropUserSession(u) ==
  /\ userLock[u] = Dead
  /\ userLock' = Dropped(userLock, u)
  /\ UNCHANGED <<ptables, writerSlot, ppc, plocals, req, faults>>

DropPersonalSlot(i) ==
  /\ writerSlot[i] = Dead
  /\ writerSlot' = Dropped(writerSlot, i)
  /\ UNCHANGED <<ptables, userLock, ppc, plocals, req, faults>>

-----------------------------------------------------------------------------

PStep(w) ==
  \/ ClaimRun(w) \/ NothingToRun(w) \/ AcquireUser(w) \/ UserBusy(w)
  \/ TakeSlot(w) \/ SlotBusy(w) \/ MarkPersonalRunning(w) \/ BuildUserModels(w)
  \/ \E matched \in SUBSET Jobs : \E inactive \in SUBSET Jobs :
       PublishResults(w, matched, inactive)
  \/ MarkPersonalCompleted(w) \/ UnlockUser(w) \/ RequeueRun(w)
  \/ FailRun(w) \/ MarkPersonalFailed(w)

Requests ==
  \/ \E c \in Clients :
       \/ \E u \in Users, s \in Sources \union {0} : SubmitRun(c, u, s)
       \/ CheckQuota(c) \/ CreateRun(c) \/ CreateRefused(c)
  \/ \E p \in PRuns :
       \/ CancelQueued(p)
       \/ \E s \in Sources : QueueWaiting(p, s)
  \/ NewQuotaWindow
  \/ \E u \in Users : ResetQuota(u)

Next ==
  \/ \E w \in Workers :
       \/ PStep(w) \/ StartTurn(w) \/ RestartIdle(w)
       \/ GlobalFreesSlot(w)
       \/ CrashInRun(w) /\ (Fault \/ MarkRefused(w))
       \/ \E as \in {Free, Dead} :
            \/ RaiseInRun(w, as) /\ (Fault \/ NotReady(w))
            \/ GlobalRaises(w, as)
       \/ \E i \in Slots : GlobalTakesSlot(w, i)
  \/ Requests
  \/ \E u \in Users : DropUserSession(u)
  \/ \E i \in Slots : DropPersonalSlot(i)

Spec == Init /\ [][Next]_pvars

-----------------------------------------------------------------------------

TypeOK ==
  /\ prun \in [PRuns -> Row]
  /\ lastRun \in [Users -> PRuns \union {0}]
  /\ results \in [Users -> [Jobs -> PRuns \union {0}]]
  /\ userLock \in [Users -> Holders]
  /\ writerSlot \in [Slots -> Holders]
  /\ ppc \in [Workers -> PLabels]
  /\ holds \in [Workers -> PRuns \union {0}]
  /\ tries \in [Workers -> Slots]
  /\ req \in [Clients -> Request]
  /\ faults \in 0 .. MaxFaults

(* A worker in process_one before it published finds its run running and   *)
(* bound to a refresh, whatever the API and other workers do, so neither   *)
(* "Only a running pipeline may publish results" nor "Only a running       *)
(* pipeline may be requeued" is ever raised, and no other worker has it.   *)
WorkerOwnsRunning ==
  \A w \in Workers :
    /\ ppc[w] \in {"claimed", "slot", "requeue"} \union InSlot =>
         prun[holds[w]].status = "running" /\ prun[holds[w]].source # 0
    /\ \A v \in Workers : holds[v] = holds[w] /\ holds[w] # 0 => v = w

(* The run flagged is_current_result and the profile's pointer name the    *)
(* same completed run of the user, or neither names one; there is never a  *)
(* second current result.                                                  *)
OneCurrentResult ==
  \A u \in Users :
    {p \in OfUser(u) : prun[p].current} = {lastRun[u]} \ {0}
      /\ (lastRun[u] # 0 => prun[lastRun[u]].status = "completed")

(* Current match rows come from completed runs of that user, none newer    *)
(* than the current result: the merge mixes runs but never unpublished or  *)
(* foreign ones.                                                           *)
CurrentRowsPublished ==
  \A u \in Users, j \in Jobs : results[u][j] # 0 =>
    /\ results[u][j] \in OfUser(u)
    /\ prun[results[u][j]].status = "completed"
    /\ results[u][j] <= lastRun[u]

(* A run that ended keeps its status: a failure or exception after the     *)
(* publication does not turn a completed run into a failed one, and        *)
(* nothing revives a cancelled one.                                        *)
EndedRunsStay ==
  [][\A p \in PRuns : prun[p].status \in Final => prun'[p].status = prun[p].status]_prun

(* Failures keep the previous results: the visible results of a user only  *)
(* change in the step in which a run of that user becomes completed, and   *)
(* then to a later run.                                                    *)
ResultsOnlyMoveForward ==
  [][\A u \in Users :
       results'[u] # results[u] \/ lastRun'[u] # lastRun[u] =>
         /\ lastRun'[u] > lastRun[u]
         /\ prun[lastRun'[u]].status = "running"
         /\ prun'[lastRun'[u]].status = "completed"]_<<results, lastRun>>

(* Two workers are never at work on runs of the same user at once, also    *)
(* when one has published but not yet unlocked and the user submits again. *)
OneWorkerPerUser ==
  \A v, w \in Workers :
    ppc[v] \in InUserLock /\ ppc[w] \in InUserLock
      /\ prun[holds[v]].user = prun[holds[w]].user => v = w

(* Count and insert are two statements, so the limit can be overrun, but   *)
(* only by the requests that had counted before the last run ended: what   *)
(* was used, is under way and has passed the count never exceeds the limit *)
(* by more than one for each request.                                      *)
Admitted(u) == {c \in Clients : req[c].at = "insert" /\ req[c].user = u}
QuotaOverrunBounded ==
  \A u \in Users :
    Used(u) + Cardinality(ActiveOf(u)) + Cardinality(Admitted(u))
      <= DailyLimit + Cardinality(Clients)
=============================================================================
