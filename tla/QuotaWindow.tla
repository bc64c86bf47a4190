----------------------------- MODULE QuotaWindow -----------------------------
(***************************************************************************)
(* The daily quota of personal runs against the clock: the window from     *)
(* 6 AM to 6 AM in New York (pipeline_quota_window), across the two days a *)
(* year on which the clocks change there, and the count of one user's runs *)
(* in it by requests whose transaction began earlier.  What a run goes     *)
(* through is in PersonalRuns, which has the turn of the window as one     *)
(* step; here the window is computed.                                      *)
(*                                                                         *)
(* An instant is a number of hours, UTC; nothing depends on a finer clock. *)
(* The clocks of the API and of the database agree.                        *)
(***************************************************************************)
EXTENDS Integers, FiniteSets

CONSTANTS
  Clients,
  MaxRuns, MaxResets,
  DailyLimit,
  Instants,       \* when something happens
  Standard,       \* hours east of UTC, New York: -5
  Spring, Fall    \* the instants between which it is one hour more

(* Both changes come at 2 AM local time. *)
ASSUME QuotaAssumption ==
  /\ IsFiniteSet(Clients)
  /\ MaxRuns \in Nat /\ MaxResets \in Nat /\ DailyLimit \in Nat
  /\ Instants \subseteq Nat \ {0} /\ Instants # {}
  /\ Standard \in Int /\ Spring \in Int /\ Fall \in Int
  /\ (Spring + Standard) % 24 = 2 /\ (Fall + Standard + 1) % 24 = 2
  /\ Spring + 24 <= Fall

VARIABLES
  now,
  run,       \* the user's rows of user_pipeline_runs
  resetAt,   \* user_profiles.pipeline_quota_reset_at, 0 for null
  resets,
  req        \* the transactions that create a run

vars == <<now, run, resetAt, resets, req>>

-----------------------------------------------------------------------------
(* Local time *)

Offset(t) == IF Spring <= t /\ t < Fall THEN Standard + 1 ELSE Standard

(* The offset a wall clock time stands for.  One that the spring skips     *)
(* reads the clock before the change, one that the fall repeats is the     *)
(* first of the two (fold 0, which arithmetic on a time gives).            *)
OffsetOf(wall) ==
  IF Spring + Standard + 1 <= wall /\ wall < Fall + Standard + 1
    THEN Standard + 1 ELSE Standard

ToUTC(wall) == wall - OffsetOf(wall)

ResetHour == 6

(* Mutant: the day is added after the conversion. *)
WindowOf24Hours(t) ==
  LET wall == t + Offset(t)
      six == (wall \div 24) * 24 + ResetHour
      start == ToUTC(IF wall < six THEN six - 24 ELSE six)
  IN [start |-> start, end |-> start + 24]

(* Mutant: a fixed offset. *)
WindowInWinter(t) ==
  LET six == ((t + Standard) \div 24) * 24 + ResetHour
      start == IF t + Standard < six THEN six - 24 ELSE six
  IN [start |-> start - Standard, end |-> start - Standard + 24]

(* pipeline_quota_window: subtracting and adding a day is done on the wall *)
(* clock, the conversion comes last.                                       *)
Window(t) ==
  LET wall == t + Offset(t)
      six == (wall \div 24) * 24 + ResetHour
      start == IF wall < six THEN six - 24 ELSE six
  IN [start |-> ToUTC(start), end |-> ToUTC(start + 24)]

-----------------------------------------------------------------------------

Runs == 1 .. MaxRuns
RunStatus == {"absent", "active", "completed", "ended"}
Run == [status : RunStatus, at : Nat]
Request == [at : {"idle", "begun", "admitted"}, began : Nat]
NoRequest == [at |-> "idle", began |-> 0]

(* PIPELINE_QUOTA_USAGE_SQL *)
CountedIn(w) ==
  {r \in Runs : /\ run[r].status = "completed"
                /\ run[r].at >= w.start /\ run[r].at >= resetAt
                /\ run[r].at < w.end}

Used == Cardinality(CountedIn(Window(now)))

(* quota_for_user: what the page shows.                                    *)
ResetsAt == Window(now).end

Init ==
  /\ now \in Instants /\ \A t \in Instants : now <= t
  /\ run = [r \in Runs |-> [status |-> "absent", at |-> 0]]
  /\ resetAt = 0 /\ resets = 0
  /\ req = [c \in Clients |-> NoRequest]

Tick ==
  /\ now' \in Instants /\ now' > now
  /\ \A t \in Instants : t > now => now' <= t
  /\ UNCHANGED <<run, resetAt, resets, req>>

(* The transaction of create or start_or_get begins; its now() is this. *)
Begin(c) ==
  /\ req[c].at = "idle"
  /\ req' = [req EXCEPT ![c] = [at |-> "begun", began |-> now]]
  /\ UNCHANGED <<now, run, resetAt, resets>>

(* Mutant: off by one at the limit. *)
CountOffByOne(c) ==
  /\ req[c].at = "begun"
  /\ req' = IF Used <= DailyLimit THEN [req EXCEPT ![c].at = "admitted"]
                                  ELSE [req EXCEPT ![c] = NoRequest]
  /\ UNCHANGED <<now, run, resetAt, resets>>

(* The window is computed when the count is made, not when now() stopped. *)
Count(c) ==
  /\ req[c].at = "begun"
  /\ req' = IF Used < DailyLimit THEN [req EXCEPT ![c].at = "admitted"]
                                 ELSE [req EXCEPT ![c] = NoRequest]
  /\ UNCHANGED <<now, run, resetAt, resets>>

Active == {r \in Runs : run[r].status = "active"}

(* The insert; submitted_at defaults to now(), when the transaction began. *)
Insert(c) ==
  /\ req[c].at = "admitted" /\ Active = {}
  /\ \E r \in Runs :
       /\ run[r].status = "absent"
       /\ \A q \in Runs : q < r => run[q].status # "absent"
       /\ run' = [run EXCEPT ![r] = [status |-> "active", at |-> req[c].began]]
  /\ req' = [req EXCEPT ![c] = NoRequest]
  /\ UNCHANGED <<now, resetAt, resets>>

(* PipelineAlreadyActiveError *)
Refuse(c) ==
  /\ req[c].at = "admitted" /\ Active # {}
  /\ req' = [req EXCEPT ![c] = NoRequest]
  /\ UNCHANGED <<now, run, resetAt, resets>>

(* A worker publishes the run, or it fails or is cancelled. *)
End(r) ==
  /\ run[r].status = "active"
  /\ \E s \in {"completed", "ended"} : run' = [run EXCEPT ![r].status = s]
  /\ UNCHANGED <<now, resetAt, resets, req>>

(* refresh_pipeline_quota *)
ResetQuota ==
  /\ resets < MaxResets
  /\ resets' = resets + 1 /\ resetAt' = now
  /\ UNCHANGED <<now, run, req>>

Next ==
  \/ Tick
  \/ \E c \in Clients : Begin(c) \/ Count(c) \/ Insert(c) \/ Refuse(c)
  \/ \E r \in Runs : End(r)
  \/ ResetQuota

Spec == Init /\ [][Next]_vars

-----------------------------------------------------------------------------

TypeOK ==
  /\ now \in Instants
  /\ run \in [Runs -> Run]
  /\ resetAt \in Nat /\ resets \in 0 .. MaxResets
  /\ req \in [Clients -> Request]

(* The window is a day of New York, 23, 24 or 25 hours long: it begins the *)
(* last time it was 6 AM there and ends the next time.                     *)
IsSixAM(t) == (t + Offset(t)) % 24 = 6

WindowIsLocalDay ==
  LET w == Window(now) IN
  /\ IsSixAM(w.start) /\ w.start <= now
  /\ IsSixAM(w.end) /\ now < w.end
  /\ \A t \in w.start + 1 .. w.end - 1 : ~IsSixAM(t)

(* What the page promises: from resets_at on, and not before unless an     *)
(* admin resets the quota, the allowance is whole again.                   *)
ResetsAsPromised ==
  [][IF now' >= ResetsAt THEN Used' = 0
                         ELSE Used' >= Used \/ resetAt' # resetAt]_vars

(* "The production API enforces four successful personal refreshes per     *)
(* user per daily quota window" (docs/releases/v1.0.0.md). How far a day   *)
(* may go beyond its limit: one run per request that counted while another *)
(* was at work, and, dated the day before, one per request whose           *)
(* transaction began before 6 AM and counted after it, in the new window.  *)
DayOverrunBounded ==
  /\ Used <= DailyLimit + Cardinality(Clients)
  /\ \A t \in Instants :
       t <= now =>
         Cardinality(CountedIn(Window(t))) <= DailyLimit + 2 * Cardinality(Clients)
=============================================================================
