------------------------------ MODULE Collection ------------------------------
(***************************************************************************)
(* One global refresh after another, from the users' documents to the      *)
(* postings (run_shared_connector_refresh): plan, collect from the sources *)
(* while they change, remember the board's details, filter, record, build  *)
(* the marts and publish; one action per request, transaction or command,  *)
(* and a failure between any two.                                          *)
(*                                                                         *)
(* Module ConnectorRefresh shows that refreshes exclude each other, so one *)
(* runs at a time here.  The sources belong to others: what they answer is *)
(* external.  Time is counted in ticks, Window of them to 24 hours.        *)
(***************************************************************************)
EXTENDS Acquisition

CONSTANTS
  Users,
  Snapshots,    \* the documents the users may have when a refresh starts
  Retention,    \* inactive_after_days
  MaxAttempts,  \* retry.max_attempts
  MaxRuns, MaxTime, MaxEvents, MaxFaults   \* bounds

ASSUME CollectionAssumption ==
  /\ Snapshots \subseteq [Users -> Documents]
  /\ {Retention, MaxAttempts, MaxRuns, MaxTime, MaxEvents, MaxFaults} \subseteq Nat
  /\ MaxAttempts > 0

VARIABLES
  now,
  world,      \* what the sources list: each opening's dates and content
  details,    \* raw.greenhouse_job_state
  pc,         \* where the refresh is in run_shared_connector_refresh
  last,       \* the number of the last refresh
  result,     \* what each refresh returned or raised
  job,        \* what the refresh has in memory
  raw,        \* raw.job_posts_raw
  processed,  \* staging.shared_jobs_processed
  observed,   \* staging.shared_job_observations
  staged,     \* stg_job_posts: the rows of the last build's refresh
  postings,   \* public.job_postings
  owed,       \* history: what this refresh was shown and users want
  events,     \* history: changes of the sources
  faults      \* history: failed requests, calls and processes

outside == <<now, world, events>>
tables == <<raw, processed, observed, staged>>
vars == <<outside, details, pc, last, result, job, tables, postings, owed, faults>>

Runs == 1 .. MaxRuns
BoardOpenings == Carries["board"]

Hidden == [listed |-> FALSE, published |-> 0, updated |-> 0, version |-> 0]
Listed(s) == {p \in Carries[s] : world[p].listed}

(* A row of the board's state: the update it was fetched for, and what the *)
(* detail said.                                                            *)
NoDetail == [updated |-> 0, published |-> 0, version |-> 0]
Known(entry) == entry.version > 0

(* asks: user_snapshots; board: "list", "resolve" or "done"; listing: the  *)
(* updates the board listed (0: not listed); pending: details to resolve;  *)
(* missed: those that could not be; unsearched: categories to ask for;     *)
(* fetched: the sources that gave a record; tries: failed attempts of the  *)
(* category or, under "board", of the board.                               *)
NoPlan == [cats |-> {}, asked |-> [c \in {} |-> {}]]
Idle ==
  [asks |-> [u \in Users |-> NoDocument], plan |-> NoPlan,
   known |-> [p \in BoardOpenings |-> NoDetail],
   board |-> "done", listing |-> [p \in BoardOpenings |-> 0], pending |-> {}, missed |-> {},
   resolved |-> {}, updates |-> {}, unsearched |-> {}, got |-> {}, fetched |-> {},
   errors |-> {},
   tries |-> [t \in {"board"} \union Categories |-> 0]]

NoPosting == [run |-> 0, version |-> 0, first |-> 0, last |-> 0, active |-> FALSE]

-----------------------------------------------------------------------------

Init ==
  /\ now = 1
  /\ world = [p \in Openings |-> Hidden]
  /\ details = [p \in BoardOpenings |-> NoDetail]
  /\ pc = "idle"
  /\ last = 0
  /\ result = [r \in Runs |-> "none"]
  /\ job = Idle
  /\ raw = {} /\ processed = {} /\ observed = {} /\ staged = {}
  /\ postings = [j \in JobIds |-> NoPosting]
  /\ owed = {}
  /\ events = 0
  /\ faults = 0

(***************************************************************************)
(* The world outside                                                       *)
(***************************************************************************)

Tick ==
  /\ now < MaxTime
  /\ now' = now + 1
  /\ UNCHANGED <<world, events, details, pc, last, result, job, tables,
                 postings, owed, faults>>

World(p, row) ==
  /\ events < MaxEvents
  /\ events' = events + 1
  /\ world' = [world EXCEPT ![p] = row]
  /\ UNCHANGED <<now, details, pc, last, result, job, tables, postings,
                 owed, faults>>

Post(p) ==
  /\ world[p] = Hidden
  /\ World(p, [listed |-> TRUE, published |-> now, updated |-> now, version |-> 1])

(* updated_at tells any two versions apart. *)
Revise(p) ==
  /\ world[p].listed /\ world[p].updated < now
  /\ World(p, [world[p] EXCEPT !.updated = now, !.version = @ + 1])

Withdraw(p) ==
  /\ world[p].listed
  /\ World(p, [world[p] EXCEPT !.listed = FALSE])

(***************************************************************************)
(* Plan and collect                                                        *)
(***************************************************************************)

(* Up to the connectors: the snapshots of the active users, as they are    *)
(* now, the plan, the ingestion run and the board's state.                 *)
StartRun(asks, plan) ==
  /\ pc = "idle" /\ last < MaxRuns
  /\ last' = last + 1
  /\ result' = [result EXCEPT ![last'] = "running"]
  /\ job' = [Idle EXCEPT !.asks = asks, !.plan = plan, !.known = details,
                         !.board = "list", !.unsearched = plan.cats]
  /\ pc' = "collect"
  /\ owed' = {}
  /\ UNCHANGED <<outside, details, tables, postings, faults>>

Collecting == pc = "collect"
CollectStep ==
  /\ Collecting
  /\ UNCHANGED <<outside, details, pc, last, result, tables, postings>>

Fault == faults < MaxFaults /\ faults' = faults + 1

(* _fetch_board_jobs and the first pass of _resolve_board_details: a known *)
(* detail is taken when the board lists the update it was fetched for, an  *)
(* unknown one is not asked for when its last update is out of the window. *)
Cached(p, updated) == Known(job.known[p]) /\ job.known[p].updated = updated
TooOld(p, updated) == ~Known(job.known[p]) /\ updated + Window < now

FromDetail(p, entry) ==
  [source |-> "board", opening |-> p, version |-> entry.version,
   published |-> entry.published]

ListBoard ==
  LET listed == Listed("board")
      cached == {p \in listed : Cached(p, world[p].updated)}
      skipped == {p \in listed : TooOld(p, world[p].updated)}
  IN
  /\ CollectStep
  /\ job.board = "list"
  /\ job' = [job EXCEPT
       !.board = "resolve",
       !.listing = [p \in BoardOpenings |->
                      IF p \in listed THEN world[p].updated ELSE 0],
       !.pending = listed \ (cached \union skipped),
       !.resolved = {FromDetail(p, job.known[p]) : p \in cached}]
  /\ UNCHANGED <<owed, faults>>

(* A request fails, and safe_get_json gives None. *)
Unanswered ==
  /\ CollectStep
  /\ Fault
  /\ UNCHANGED owed

(* No listing: no records and no error. *)
BoardOutage ==
  /\ Unanswered
  /\ job.board = "list"
  /\ job' = [job EXCEPT !.board = "done"]

(* What is kept of a detail, with the update that the board listed. *)
Entry(p) ==
  [updated |-> job.listing[p], published |-> world[p].published,
   version |-> world[p].version]

FetchDetail(p) ==
  /\ CollectStep
  /\ p \in job.pending
  /\ world[p].listed
  /\ job' = [job EXCEPT !.pending = @ \ {p}, !.known[p] = Entry(p),
                        !.updates = @ \union {p},
                        !.resolved = @ \union {FromDetail(p, Entry(p))}]
  /\ UNCHANGED <<owed, faults>>

(* Mutant: the detail it falls back on is remembered for the new update. *)
DetailFailsRemembered(p) ==
  /\ CollectStep
  /\ p \in job.pending
  /\ IF world[p].listed THEN Fault ELSE UNCHANGED faults
  /\ job' = IF Known(job.known[p])
              THEN [job EXCEPT !.pending = @ \ {p}, !.updates = @ \union {p},
                      !.known[p].updated = job.listing[p],
                      !.resolved = @ \union {FromDetail(p, job.known[p])}]
              ELSE [job EXCEPT !.pending = @ \ {p}, !.missed = @ \union {p}]
  /\ UNCHANGED owed

(* The request fails, or the opening is gone by now: an older detail is    *)
(* used when there is one, and nothing is remembered.                      *)
DetailFails(p) ==
  /\ CollectStep
  /\ p \in job.pending
  /\ IF world[p].listed THEN Fault ELSE UNCHANGED faults
  /\ job' = IF Known(job.known[p])
              THEN [job EXCEPT !.pending = @ \ {p},
                      !.resolved = @ \union {FromDetail(p, job.known[p])}]
              ELSE [job EXCEPT !.pending = @ \ {p}, !.missed = @ \union {p}]
  /\ UNCHANGED owed

Wanted(p) == \E u \in Active(job.asks) : Wants(job.asks[u], p)
Owed(s, ps) ==
  {<<s, p>> : p \in {q \in ps : Wanted(q) /\ Recent(world[q].published, now)}}

(* What a source's answers add to what the refresh has. *)
Receive(s, recs, rest) ==
  job' = [rest EXCEPT !.got = Compact(@, recs),
                      !.fetched = IF recs = {} THEN @ ELSE @ \union {s}]

(* The board's jobs that match a category. *)
BoardJobs(recs) == {rec \in recs : Matches(job.plan, rec.opening)}

(* Of the details, those published within the window. *)
BoardDone ==
  LET recent == {rec \in job.resolved : Recent(rec.published, now)}
      shown == {p \in BoardOpenings : job.listing[p] > 0}
  IN
  /\ CollectStep
  /\ job.board = "resolve" /\ job.pending = {}
  /\ Receive("board", BoardJobs(recent), [job EXCEPT !.board = "done", !.resolved = {}])
  /\ owed' = owed \union Owed("board", shown \ job.missed)
  /\ UNCHANGED faults

(* An exception in a source: another attempt, in the end an error row.  A  *)
(* source that raised once may raise again.                                *)
Raises(t) == IF job.tries[t] = 0 THEN Fault ELSE UNCHANGED faults

BoardRaises ==
  LET tries == job.tries["board"] + 1 IN
  /\ CollectStep
  /\ Raises("board")
  /\ job.board \in {"list", "resolve"}
  /\ job' = [job EXCEPT !.tries["board"] = tries, !.pending = {}, !.missed = {},
               !.resolved = {},
               !.board = IF tries < MaxAttempts THEN "list" ELSE "done",
               !.errors = IF tries < MaxAttempts THEN @
                          ELSE @ \union {<<"board", "all">>}]
  /\ UNCHANGED owed

FromSearch(p) ==
  [source |-> "search", opening |-> p, version |-> world[p].version,
   published |-> world[p].published]

(* The answers to some of a category's pairs *)
Answers(c, pairs) ==
  Receive("search", {FromSearch(p) : p \in {q \in Listed("search") : Finds(pairs, q)}},
          [job EXCEPT !.unsearched = @ \ {c}])

(* All pairs of a category are answered.  Within its budget a user is owed *)
(* what any of its titles finds, beyond it what the pairs asked find.      *)
SearchDone(c) ==
  LET pairs == job.plan.asked[c]
      due(p) == IF WithinBudget(c, job.asks) THEN Terms[p] \intersect SearchTitles[c] # {}
                ELSE Finds(pairs, p)
  IN
  /\ CollectStep
  /\ c \in job.unsearched
  /\ Answers(c, pairs)
  /\ owed' = owed \union Owed("search", {p \in Listed("search") : due(p)})
  /\ UNCHANGED faults

(* Some requests of a category give nothing: no records and no error. *)
SearchOutage(c, pairs) ==
  /\ CollectStep
  /\ Fault
  /\ c \in job.unsearched
  /\ pairs # job.plan.asked[c]
  /\ Answers(c, pairs)
  /\ owed' = owed \union Owed("search", {p \in Listed("search") : Finds(pairs, p)})

SearchRaises(c) ==
  LET tries == job.tries[c] + 1 IN
  /\ CollectStep
  /\ Raises(c)
  /\ c \in job.unsearched
  /\ job' = IF tries < MaxAttempts
              THEN [job EXCEPT !.tries[c] = tries]
              ELSE [job EXCEPT !.tries[c] = tries, !.unsearched = @ \ {c},
                               !.errors = @ \union {<<"search", c>>}]
  /\ UNCHANGED owed

(***************************************************************************)
(* Record, build and publish                                               *)
(***************************************************************************)

Goto(from, to) ==
  /\ pc = from
  /\ pc' = to
  /\ UNCHANGED <<outside, last, faults>>

(* write_greenhouse_job_state, before anything else is written *)
WriteDetails ==
  /\ job.board = "done" /\ job.unsearched = {}
  /\ Goto("collect", "filter")
  /\ details' = [p \in BoardOpenings |->
                   IF p \in job.updates THEN job.known[p] ELSE details[p]]
  /\ UNCHANGED <<result, job, tables, postings, owed>>

(* normalize_shared_jobs and apply_shared_freshness_filter; what has left  *)
(* the window since it was collected is not owed any more.                 *)
Filter ==
  /\ Goto("filter", "raw")
  /\ job' = [job EXCEPT !.got = Fresh(@, now)]
  /\ owed' = {o \in owed : Recent(world[o[2]].published, now)}
  /\ UNCHANGED <<details, result, tables, postings>>

Row(rec) == [run |-> last, job |-> JobId(rec), version |-> rec.version, at |-> now]
Raw(rec) == [run |-> last, job |-> JobId(rec), version |-> rec.version]

(* write_raw_jobs and write_connector_errors *)
WriteRaw ==
  /\ Goto("raw", "shared")
  /\ raw' = raw \union {Raw(rec) : rec \in job.got}
  /\ UNCHANGED <<details, result, job, processed, observed, staged, postings, owed>>

(* write_shared_jobs, its two statements, after deduplicate_jobs: the rows *)
(* keep the time at which it began.                                        *)
WriteProcessed ==
  /\ Goto("shared", "observe")
  /\ \E kept \in Deduplications(job.got) :
       processed' = processed \union {Row(rec) : rec \in kept}
  /\ UNCHANGED <<details, result, job, raw, observed, staged, postings, owed>>

(* The rows of one connector run: the where clause of stg_job_posts, and   *)
(* all that purge_unscoped_shared_rows leaves.                             *)
OfRun(rows, r) == {row \in rows : row.run = r}

WriteObservations ==
  /\ Goto("observe", "build")
  /\ observed' = observed \union OfRun(processed, last)
  /\ UNCHANGED <<details, result, job, raw, processed, staged, postings, owed>>

(* run_shared_dbt_build: stg_job_posts takes the rows of this run that are *)
(* not older than those it has, and its post-hook deletes every other run. *)
BuildShared ==
  LET new == {row \in OfRun(processed, last) : \A old \in staged : old.at <= row.at}
  IN
  /\ Goto("build", "publish")
  /\ staged' = OfRun(staged \union new, last)
  /\ UNCHANGED <<details, result, job, raw, processed, observed, postings, owed>>

(* int_job_posts_deduped: a row per job, the one seen last, with the first *)
(* and the last times over all of them.                                    *)
StagedOf(j) == {row \in staged : row.job = j}
Canonical(row) == \A other \in StagedOf(row.job) : other.at <= row.at
FirstSeen(j) == (CHOOSE row \in StagedOf(j) : \A o \in StagedOf(j) : row.at <= o.at).at
LastSeen(j) == (CHOOSE row \in StagedOf(j) : \A o \in StagedOf(j) : o.at <= row.at).at

(* mart_shared_canonical_jobs, as the refresh reads it *)
MartRows(r) == {row \in OfRun(staged, r) : Canonical(row)}

Lower(a, b) == IF a < b THEN a ELSE b
Upper(a, b) == IF a < b THEN b ELSE a

(* Mutant: a job that comes again keeps the content of its posting. *)
UpsertedKeepsContent(old, row) ==
  [run |-> last, version |-> IF old.run = 0 THEN row.version ELSE old.version,
   first |-> Lower(old.first, FirstSeen(row.job)),
   last |-> Upper(old.last, LastSeen(row.job)), active |-> TRUE]

Upserted(old, row) ==
  [run |-> last, version |-> row.version,
   first |-> IF old.run = 0 THEN FirstSeen(row.job)
             ELSE Lower(old.first, FirstSeen(row.job)),
   last |-> Upper(old.last, LastSeen(row.job)), active |-> TRUE]

(* Mutant: what a refresh does not see is gone. *)
Unseen(posting) == posting.run # last

(* Not published by this refresh and last seen before the retention time. *)
Overdue(posting) == posting.run # last /\ posting.last + Retention < now

(* SharedJobsPublisher.publish, one transaction *)
Publish ==
  LET rows == MartRows(last)
      upserted == [j \in JobIds |->
                     IF \E row \in rows : row.job = j
                       THEN Upserted(postings[j], CHOOSE row \in rows : row.job = j)
                       ELSE postings[j]]
  IN
  /\ Goto("publish", "complete")
  /\ postings' = [j \in JobIds |->
                    IF Overdue(upserted[j]) THEN [upserted[j] EXCEPT !.active = FALSE]
                    ELSE upserted[j]]
  /\ UNCHANGED <<details, result, job, tables, owed>>

(* complete_run, and the status that is returned *)
CompleteRun ==
  /\ Goto("complete", "idle")
  /\ result' = [result EXCEPT ![last] = RunStatus(job.fetched, job.errors)]
  /\ job' = Idle
  /\ UNCHANGED <<details, tables, postings, owed>>

(* A call fails or the process dies; the row of raw.ingestion_runs that    *)
(* fail_run then tries to update is left out.                              *)
FailRun ==
  /\ pc # "idle"
  /\ Fault
  /\ pc' = "idle"
  /\ result' = [result EXCEPT ![last] = "raised"]
  /\ job' = Idle
  /\ owed' = {}
  /\ UNCHANGED <<outside, details, last, tables, postings>>

Outside ==
  \/ Tick
  \/ \E p \in Openings : Post(p) \/ Revise(p) \/ Withdraw(p)

Collect ==
  \/ \E asks \in Snapshots : \E plan \in Plans(asks) : StartRun(asks, plan)
  \/ ListBoard \/ BoardOutage \/ BoardDone \/ BoardRaises
  \/ \E p \in BoardOpenings : FetchDetail(p) \/ DetailFails(p)
  \/ \E c \in job.unsearched :
       \/ SearchDone(c) \/ SearchRaises(c)
       \/ \E pairs \in SUBSET job.plan.asked[c] : SearchOutage(c, pairs)

Keep ==
  \/ WriteDetails \/ Filter \/ WriteRaw \/ WriteProcessed \/ WriteObservations
  \/ BuildShared \/ Publish \/ CompleteRun \/ FailRun

Next == Outside \/ Collect \/ Keep

Spec == Init /\ [][Next]_vars

-----------------------------------------------------------------------------
(* PROPERTIES *)

(* After a refresh that did not raise, whatever status it returned, every  *)
(* opening that a source showed it, that is of the last 24 hours and that  *)
(* a user active at its start wants is an active posting of this refresh,  *)
(* or a duplicate of it that came no later in the order of sources is: no  *)
(* other request's failure, no refresh that failed after it had stored the *)
(* board's details, no user's narrower document hides it.  A search within *)
(* its budget shows all that any title of the category finds.              *)
WantedJobsPublished ==
  (pc = "idle" /\ last > 0 /\ result[last] \in {"completed", "partial", "failed"}) =>
    \A o \in owed : \E j \in JobIds :
      /\ j = o \/ (<<o, j>> \in Similar /\ Rank[j[1]] <= Rank[o[1]])
      /\ postings[j].run = last /\ postings[j].active

(* A stored detail whose update is the one the board lists has the content *)
(* the board has, whatever changed between the list and the detail, and    *)
(* whatever failed: taking it from the store shows nothing out of date.    *)
StoredDetailCurrent ==
  \A p \in BoardOpenings :
    (Known(details[p]) /\ details[p].updated = world[p].updated) =>
      details[p].version = world[p].version

(* What a posting shows was collected by the refresh it names: that        *)
(* refresh stored the raw record and the observation of that version.      *)
PostingsAreTraceable ==
  \A j \in JobIds : postings[j].run > 0 =>
    LET r == postings[j].run IN
    /\ [run |-> r, job |-> j, version |-> postings[j].version] \in raw
    /\ \E row \in observed : row.run = r /\ row.job = j /\ row.at <= postings[j].last

(* A posting is withdrawn only when no refresh that was published has seen *)
(* the job for Retention: an outage, or a failed refresh, takes no posting *)
(* away.                                                                   *)
WithdrawnWhenUnseen ==
  [][\A j \in JobIds :
       (postings[j].active /\ ~postings'[j].active) =>
         \A row \in observed :
           (row.job = j /\ result[row.run] \in {"completed", "partial", "failed"}) =>
             row.at + Retention < now]_vars
==============================================================================
