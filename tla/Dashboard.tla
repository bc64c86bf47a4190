------------------------------ MODULE Dashboard ------------------------------
(***************************************************************************)
(* What a user sees: the matches a personal refresh publishes              *)
(* (publication/user_results.py), the application statuses the user sets   *)
(* (PostgresJobRepository.update_job_status), their history and the daily  *)
(* metrics that triggers and publishers maintain (migrations 0017, 0019),  *)
(* and the numbers of the dashboard (repositories/dashboard_analytics.py). *)
(*                                                                         *)
(* A transaction is "open", has "written" what nobody else sees yet, and   *)
(* commits; now() is the day it was opened on.  Module PersonalRuns shows  *)
(* that a user has one refresh at work at a time, module ConnectorRefresh  *)
(* that one shared refresh publishes at a time.  Days are in New York.     *)
(***************************************************************************)
EXTENDS Naturals, FiniteSets, Sequences

CONSTANTS
  Users, Jobs,
  Clients,       \* status updates in flight at once
  MaxDay, MaxChanges, MaxRefreshes, MaxFaults   \* bounds

ASSUME DashboardAssumption ==
  /\ IsFiniteSet(Jobs)
  /\ {MaxDay, MaxChanges, MaxRefreshes, MaxFaults} \subseteq Nat

VARIABLES
  today,
  postings,    \* job_postings: the day each was first seen (0: absent)
  shared,      \* the shared refresh
  gmetrics,    \* global_job_daily_metrics, by metric_date
  matches,     \* user_job_matches: the current row, the oldest row's day
  refresh,     \* each user's personal refresh
  status,      \* user_job_statuses
  history,     \* user_job_status_events
  tx,          \* each client's update_job_status
  umetrics,    \* user_job_daily_metrics, by user and metric_date
  late,        \* history: something was committed after its day
  changes, refreshes, faults   \* bounded

counters == <<changes, refreshes, faults>>
globals == <<postings, shared, gmetrics>>
locals == <<matches, refresh>>
marks == <<status, history, tx>>
vars == <<today, globals, locals, marks, umetrics, late, counters>>

Days == 1 .. MaxDay

(* saved and archived count as not_started, rejected as applied, offer as  *)
(* interview. *)
Statuses == {"not_started", "applied", "interview"}
AppliedStatus == {"applied", "interview"}
InterviewStatus == {"interview"}

NoMatch == [current |-> FALSE, first |-> 0]
NoRefresh == [at |-> "idle", matched |-> {}, day |-> 0, date |-> 0,
              merged |-> <<>>, row |-> <<>>]
NoShared == [at |-> "idle", seen |-> {}, day |-> 0, date |-> 0,
             upserted |-> <<>>, row |-> <<>>]
NoTx == [at |-> "idle"]

-----------------------------------------------------------------------------
(* The rows of the metrics, and what is read from them *)

(* ever-reached: by the status, or by any event's status or previous one *)
Reached(st, h, class) ==
  st \in class \/ \E i \in DOMAIN h : h[i].new \in class \/ h[i].prev \in class

DaysApplied(h) == {h[i].day : i \in {k \in DOMAIN h : h[k].new \in AppliedStatus}}
FirstAppliedOn(h, d) == d \in DaysApplied(h) /\ \A e \in DaysApplied(h) : d <= e

(* upsert_user_job_daily_metric *)
UserRow(d, ms, st, hs) ==
  [jobs |-> Cardinality({j \in Jobs : ms[j].current}),
   applied |-> Cardinality({j \in Jobs : Reached(st[j], hs[j], AppliedStatus)}),
   interviews |-> Cardinality({j \in Jobs : Reached(st[j], hs[j], InterviewStatus)}),
   newJobs |-> Cardinality({j \in Jobs : ms[j].first = d}),
   newApplied |-> Cardinality({j \in Jobs : FirstAppliedOn(hs[j], d)})]

(* upsert_global_job_daily_metric *)
GlobalRow(d, ps) ==
  [jobs |-> Cardinality({j \in Jobs : ps[j].active}),
   newJobs |-> Cardinality({j \in Jobs : ps[j].first = d})]

(* insert ... on conflict do update *)
Put(rows, d, row) ==
  [k \in DOMAIN rows \union {d} |-> IF k = d THEN row ELSE rows[k]]

(* order by metric_date desc limit 1 *)
Latest(rows) == rows[CHOOSE d \in DOMAIN rows : \A e \in DOMAIN rows : e <= d]

(* get_current_funnel *)
Funnel(u) ==
  LET g == IF DOMAIN gmetrics = {} THEN [jobs |-> 0] ELSE Latest(gmetrics)
      m == IF DOMAIN umetrics[u] = {} THEN [jobs |-> 0, applied |-> 0, interviews |-> 0]
           ELSE Latest(umetrics[u])
  IN [global |-> g.jobs, jobs |-> m.jobs, applied |-> m.applied,
      interviews |-> m.interviews]

(* Mutant: only the rows of the window are read. *)
WindowOnly(rows, from, to) == {d \in DOMAIN rows : d \in from .. to}

(* get_analytics: the rows of the window and the last one before it *)
WindowRows(rows, from, to) ==
  {d \in DOMAIN rows :
     \/ d \in from .. to
     \/ d < from /\ \A e \in DOMAIN rows : e < from => e <= d}

(* _daily_new_count, of the rows that were read: a number, or nothing *)
Unknown == {}
DailyNew(rows, read, field, d) ==
  IF d \in read THEN {rows[d][field]}
  ELSE IF \E e \in read : e <= d THEN {0} ELSE Unknown

(* build_daily_timeseries *)
Series(rows, field, from, to) ==
  [d \in from .. to |-> DailyNew(rows, WindowRows(rows, from, to), field, d)]

(* The rows a user is shown: current matches, joined with the postings,    *)
(* active or not.                                                          *)
Visible(u) == {j \in Jobs : matches[u][j].current /\ postings[j].first > 0}

(* get_dashboard_summary, total_jobs *)
TotalJobs(u) == Cardinality(Visible(u))

-----------------------------------------------------------------------------

Init ==
  /\ today = 1
  /\ postings = [j \in Jobs |-> [first |-> 0, active |-> FALSE]]
  /\ shared = NoShared
  /\ gmetrics = <<>>
  /\ matches = [u \in Users |-> [j \in Jobs |-> NoMatch]]
  /\ refresh = [u \in Users |-> NoRefresh]
  /\ status = [u \in Users |-> [j \in Jobs |-> "none"]]
  /\ history = [u \in Users |-> [j \in Jobs |-> <<>>]]
  /\ tx = [c \in Clients |-> NoTx]
  /\ umetrics = [u \in Users |-> <<>>]
  /\ late = FALSE
  /\ changes = 0 /\ refreshes = 0 /\ faults = 0

Midnight ==
  /\ today < MaxDay
  /\ today' = today + 1
  /\ UNCHANGED <<globals, locals, marks, umetrics, late, counters>>

Fault ==
  /\ faults < MaxFaults
  /\ faults' = faults + 1
  /\ UNCHANGED <<today, umetrics, late, changes, refreshes>>

StartsRefresh ==
  /\ refreshes < MaxRefreshes
  /\ refreshes' = refreshes + 1
  /\ UNCHANGED <<today, marks, gmetrics, umetrics, late, changes, faults>>

(***************************************************************************)
(* The shared refresh                                                      *)
(***************************************************************************)

(* Collected and built: first_seen_at of a new posting is of this day. *)
CollectShared(seen) ==
  /\ shared.at = "idle"
  /\ StartsRefresh
  /\ shared' = [NoShared EXCEPT !.at = "built", !.seen = seen, !.day = today]
  /\ UNCHANGED <<postings, locals>>

Seen(posting, day) ==
  [first |-> IF posting.first = 0 \/ day < posting.first THEN day ELSE posting.first,
   active |-> TRUE]

(* SharedJobsPublisher.publish; overdue ones become inactive, and          *)
(* record_global_snapshot takes the date from the clock.                   *)
WriteShared(overdue) ==
  LET ps == [j \in Jobs |->
               IF j \in shared.seen THEN Seen(postings[j], shared.day)
               ELSE IF j \in overdue THEN [postings[j] EXCEPT !.active = FALSE]
               ELSE postings[j]]
  IN
  /\ shared.at = "built"
  /\ shared' = [shared EXCEPT !.at = "written", !.date = today, !.upserted = ps,
                              !.row = GlobalRow(today, ps)]
  /\ UNCHANGED <<today, postings, gmetrics, locals, marks, umetrics, late, counters>>

CommitShared ==
  /\ shared.at = "written"
  /\ postings' = shared.upserted
  /\ gmetrics' = Put(gmetrics, shared.date, shared.row)
  /\ late' = (late \/ shared.day # today)
  /\ shared' = NoShared
  /\ UNCHANGED <<today, locals, marks, umetrics, counters>>

FailShared ==
  /\ shared.at # "idle"
  /\ Fault
  /\ shared' = NoShared
  /\ UNCHANGED <<postings, gmetrics, locals, marks>>

(***************************************************************************)
(* The locks of the metrics and of the rows                                *)
(***************************************************************************)

Written(c) == tx[c].at = "written"

(* Mutant: two transactions compute the row of one date. *)
MetricUnlocked(u, d) == TRUE

(* pg_advisory_xact_lock of a user and a date: until its holder commits *)
MetricFree(u, d) ==
  /\ ~ \E c \in Clients : Written(c) /\ tx[c].user = u /\ tx[c].day = d
  /\ ~ (refresh[u].at = "written" /\ refresh[u].date = d)

(* Mutant: two transactions write one row. *)
RowUnlocked(u, j) == TRUE

(* The row of user_job_statuses, from its upsert to the commit *)
RowFree(u, j) ==
  ~ \E c \in Clients : Written(c) /\ tx[c].user = u /\ tx[c].job = j

(***************************************************************************)
(* A personal refresh (run_user_dbt_refresh)                               *)
(***************************************************************************)

RefreshStep(u, from, to) ==
  /\ refresh[u].at = from
  /\ refresh' = [refresh EXCEPT ![u] = to]

(* After a shared refresh was published, the configuration is staged. *)
StageConfig(u) ==
  /\ DOMAIN gmetrics # {}
  /\ StartsRefresh
  /\ RefreshStep(u, "idle", [NoRefresh EXCEPT !.at = "staged"])
  /\ UNCHANGED <<globals, matches>>

(* run_user_dbt_build and read_user_result_partition: any of the postings  *)
BuildMatches(u, matched) ==
  /\ RefreshStep(u, "staged", [refresh[u] EXCEPT !.at = "built", !.matched = matched])
  /\ \A j \in matched : postings[j].first > 0
  /\ UNCHANGED <<today, globals, matches, marks, umetrics, late, counters>>

BeginPublication(u) ==
  /\ RefreshStep(u, "built", [refresh[u] EXCEPT !.at = "open", !.day = today])
  /\ UNCHANGED <<today, globals, matches, marks, umetrics, late, counters>>

(* The old row of a matched job is superseded; rows of inactive jobs are   *)
(* deactivated, all others stay.                                           *)
Merged(u) ==
  [j \in Jobs |->
     LET m == matches[u][j]
         matched == j \in refresh[u].matched
     IN [current |-> (m.current \/ matched) /\ postings[j].active,
         first |-> IF m.first = 0 /\ matched THEN refresh[u].day ELSE m.first]]

(* publish, up to record_user_snapshot: created_at of the new rows is the  *)
(* day the transaction was opened on, the metric's date is the clock's.    *)
WritePublication(u) ==
  LET ms == Merged(u) IN
  /\ RefreshStep(u, "open",
       [refresh[u] EXCEPT !.at = "written", !.date = today, !.merged = ms,
                          !.row = UserRow(today, ms, status[u], history[u])])
  /\ MetricFree(u, today)
  /\ UNCHANGED <<today, globals, matches, marks, umetrics, late, counters>>

CommitPublication(u) ==
  LET r == refresh[u] IN
  /\ RefreshStep(u, "written", NoRefresh)
  /\ matches' = [matches EXCEPT ![u] = r.merged]
  /\ umetrics' = [umetrics EXCEPT ![u] = Put(@, r.date, r.row)]
  /\ late' = (late \/ r.day # today)
  /\ UNCHANGED <<today, globals, marks, counters>>

FailRefresh(u) ==
  /\ refresh[u].at # "idle"
  /\ Fault
  /\ refresh' = [refresh EXCEPT ![u] = NoRefresh]
  /\ UNCHANGED <<globals, matches, marks>>

(***************************************************************************)
(* update_job_status                                                       *)
(***************************************************************************)

SetTx(c, to) ==
  /\ tx' = [tx EXCEPT ![c] = to]
  /\ UNCHANGED <<today, globals, locals>>

(* The job is one of the user's current matches. *)
BeginUpdate(c, u, j, s) ==
  /\ tx[c].at = "idle" /\ changes < MaxChanges
  /\ matches[u][j].current
  /\ changes' = changes + 1
  /\ SetTx(c, [at |-> "open", user |-> u, job |-> j, new |-> s, day |-> today])
  /\ UNCHANGED <<status, history, umetrics, late, refreshes, faults>>

(* The upsert, and record_user_job_status_event with the row before it;    *)
(* the metric is the opening day's.                                        *)
UpsertStatus(c) ==
  LET t == tx[c]
      event == [prev |-> status[t.user][t.job], new |-> t.new, day |-> t.day]
      st == [status[t.user] EXCEPT ![t.job] = t.new]
      hs == [history[t.user] EXCEPT ![t.job] = Append(@, event)]
  IN
  /\ t.at = "open"
  /\ RowFree(t.user, t.job)
  /\ t.new # event.prev
  /\ MetricFree(t.user, t.day)
  /\ SetTx(c, [at |-> "written", user |-> t.user, job |-> t.job, event |-> event,
               day |-> t.day, row |-> UserRow(t.day, matches[t.user], st, hs)])
  /\ UNCHANGED <<status, history, umetrics, late, counters>>

(* The same status again: no event and no metric. *)
UpsertSame(c) ==
  /\ tx[c].at = "open"
  /\ RowFree(tx[c].user, tx[c].job)
  /\ status[tx[c].user][tx[c].job] = tx[c].new
  /\ SetTx(c, NoTx)
  /\ UNCHANGED <<status, history, umetrics, late, counters>>

CommitStatus(c) ==
  LET t == tx[c] IN
  /\ t.at = "written"
  /\ status' = [status EXCEPT ![t.user][t.job] = t.event.new]
  /\ history' = [history EXCEPT ![t.user][t.job] = Append(@, t.event)]
  /\ umetrics' = [umetrics EXCEPT ![t.user] = Put(@, t.day, t.row)]
  /\ late' = (late \/ t.day # today)
  /\ SetTx(c, NoTx)
  /\ UNCHANGED counters

AbortStatus(c) ==
  /\ tx[c].at # "idle"
  /\ Fault
  /\ tx' = [tx EXCEPT ![c] = NoTx]
  /\ UNCHANGED <<globals, locals, status, history>>

-----------------------------------------------------------------------------

SharedRefresh ==
  \/ \E js \in SUBSET Jobs : CollectShared(js) \/ WriteShared(js)
  \/ CommitShared \/ FailShared

PersonalRefresh(u) ==
  \/ StageConfig(u) \/ BeginPublication(u) \/ WritePublication(u)
  \/ CommitPublication(u) \/ FailRefresh(u)
  \/ \E matched \in SUBSET Jobs : BuildMatches(u, matched)

StatusUpdate(c) ==
  \/ \E u \in Users, j \in Jobs, s \in Statuses : BeginUpdate(c, u, j, s)
  \/ UpsertStatus(c) \/ UpsertSame(c) \/ CommitStatus(c) \/ AbortStatus(c)

Next ==
  \/ Midnight \/ SharedRefresh
  \/ \E u \in Users : PersonalRefresh(u)
  \/ \E c \in Clients : StatusUpdate(c)

Spec == Init /\ [][Next]_vars

-----------------------------------------------------------------------------
(* PROPERTIES *)

EverReached(u, class) ==
  {j \in Jobs : Reached(status[u][j], history[u][j], class)}

(* The funnel, read from the newest rows of the metrics, says of the       *)
(* postings, matches and applications what their own tables say, beside    *)
(* transactions in flight: unless something was committed after the day it *)
(* was opened or collected on.                                             *)
FunnelIsLive ==
  late \/
    \A u \in Users :
      /\ Funnel(u).global = Cardinality({j \in Jobs : postings[j].active})
      /\ Funnel(u).jobs = TotalJobs(u)
      /\ Funnel(u).applied = Cardinality(EverReached(u, AppliedStatus))
      /\ Funnel(u).interviews = Cardinality(EverReached(u, InterviewStatus))

(* The counts of a trend, whatever the window asked for. *)
Exactly(rows, field, count(_)) ==
  \A from \in Days, to \in Days : \A d \in from .. to :
    Series(rows, field, from, to)[d] =
      IF \E e \in DOMAIN rows : e <= d THEN {count(d)} ELSE Unknown

(* "Dates before the first row are unknown, not zero" (0017:76), and every *)
(* later date shows exactly what first happened on it, whatever the window *)
(* asked for; a first application is missing from no day, late or not.     *)
TrendIsExact ==
  /\ \A u \in Users, d \in Days :
       LET first == {j \in Jobs : FirstAppliedOn(history[u][j], d)} IN
       first # {} => d \in DOMAIN umetrics[u]
                     /\ umetrics[u][d].newApplied >= Cardinality(first)
  /\ late \/
       /\ LET NewPostings(d) == Cardinality({j \in Jobs : postings[j].first = d})
          IN Exactly(gmetrics, "newJobs", NewPostings)
       /\ \A u \in Users :
            LET NewMatches(d) == Cardinality({j \in Jobs : matches[u][j].first = d})
                NewApplications(d) ==
                  Cardinality({j \in Jobs : FirstAppliedOn(history[u][j], d)})
            IN /\ Exactly(umetrics[u], "newJobs", NewMatches)
               /\ Exactly(umetrics[u], "newApplied", NewApplications)

(* The events of a job are one chain that starts at nothing, changes the   *)
(* status at each link and ends at the current status: no update that      *)
(* races another, or fails, is lost or repeated in the history.            *)
StatusHistoryChains ==
  \A u \in Users, j \in Jobs :
    LET h == history[u][j] IN
    IF h = <<>> THEN status[u][j] = "none"
    ELSE /\ h[1].prev = "none"
         /\ h[Len(h)].new = status[u][j]
         /\ \A i \in DOMAIN h : h[i].new # h[i].prev
         /\ \A i \in 2 .. Len(h) : h[i].prev = h[i - 1].new
==============================================================================
