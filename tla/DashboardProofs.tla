--------------------------- MODULE DashboardProofs ---------------------------
(***************************************************************************)
(* Theorems about Dashboard, for any users and clients, any finite set of  *)
(* jobs and any bounds.                                                    *)
(***************************************************************************)
EXTENDS Dashboard, FiniteSetTheorems, SequenceTheorems, WellFoundedInduction, TLAPS

-----------------------------------------------------------------------------
(* Sets of jobs and of days *)

LEMMA JobSets ==
  ASSUME NEW S, S \subseteq Jobs
  PROVE  /\ IsFiniteSet(S) /\ Cardinality(S) \in Nat
         /\ \A T \in SUBSET S : Cardinality(T) <= Cardinality(S)
  <1>1. IsFiniteSet(S)
    BY DashboardAssumption, FS_Subset
  <1> QED
    BY <1>1, FS_CardinalityType, FS_Subset

LEMMA Least ==
  ASSUME NEW S, S \subseteq Nat, S # {}
  PROVE  \E d \in S : \A e \in S : d <= e
  <1>1. IsWellFoundedOn(OpToRel(<, Nat), Nat)
    BY NatLessThanWellFounded
  <1>2. PICK d \in S : \A e \in S : ~ (<<e, d>> \in OpToRel(<, Nat))
    BY <1>1, WFMin
  <1>3. \A e \in S : ~ (e < d)
    BY <1>2 DEF OpToRel
  <1> QED
    BY <1>3

(* A bounded set of days has a last one. *)
LEMMA Greatest ==
  ASSUME NEW S, S \subseteq Nat, S # {}, NEW n \in Nat, \A d \in S : d <= n
  PROVE  \E d \in S : \A e \in S : e <= d
  <1> DEFINE B == {b \in Nat : \A e \in S : e <= b}
  <1>1. PICK b \in B : \A c \in B : b <= c
    <2>1. n \in B
      OBVIOUS
    <2> QED
      BY <2>1, Least
  <1>2. b \in S
    <2>1. SUFFICES ASSUME b \notin S PROVE FALSE
      OBVIOUS
    <2>2. \A e \in S : e < b /\ e <= b - 1
      BY <2>1
    <2>3. b - 1 \in B
      <3>1. PICK e \in S : e < b
        BY <2>2
      <3> QED
        BY <2>2, <3>1
    <2> QED
      BY <1>1, <2>3
  <1> QED
    BY <1>1, <1>2

-----------------------------------------------------------------------------
(* The inductive invariant *)

Marks == Statuses \union {"none"}
EventRows == [prev : Marks, new : Statuses, day : Nat]
PostingTable == [Jobs -> [first : Nat, active : BOOLEAN]]
MatchTable == [Jobs -> [current : BOOLEAN, first : Nat]]
StatusTable == [Jobs -> Marks]
HistoryTable == [Jobs -> Seq(EventRows)]
GlobalRows == [jobs : Nat, newJobs : Nat]
UserRows ==
  [jobs : Nat, applied : Nat, interviews : Nat, newJobs : Nat, newApplied : Nat]

SharedRows ==
  [at : {"idle", "built", "written"}, seen : SUBSET Jobs, day : Nat, date : Nat,
   upserted : {<<>>} \union PostingTable, row : GlobalRows \union {<<>>}]
RefreshRows ==
  [at : {"idle", "staged", "built", "open", "written"}, matched : SUBSET Jobs,
   day : Nat, date : Nat, merged : {<<>>} \union MatchTable,
   row : {<<>>} \union UserRows]
OpenTx == [at : {"open"}, user : Users, job : Jobs, new : Statuses, day : Nat]
WrittenTx ==
  [at : {"written"}, user : Users, job : Jobs, event : EventRows, day : Nat,
   row : UserRows]

(* Metrics are of days that have come. *)
Dated(rows, rowType) ==
  /\ DOMAIN rows \subseteq 1 .. today
  /\ \A d \in DOMAIN rows : rows[d] \in rowType

TypeInv ==
  /\ today \in Nat \ {0}
  /\ late \in BOOLEAN
  /\ postings \in PostingTable
  /\ shared \in SharedRows
  /\ shared.at = "written" => shared.upserted \in PostingTable
                              /\ shared.row \in GlobalRows
  /\ Dated(gmetrics, GlobalRows)
  /\ matches \in [Users -> MatchTable]
  /\ refresh \in [Users -> RefreshRows]
  /\ \A u \in Users : refresh[u].at = "written" =>
                        refresh[u].merged \in MatchTable /\ refresh[u].row \in UserRows
  /\ status \in [Users -> StatusTable]
  /\ history \in [Users -> HistoryTable]
  /\ tx \in [Clients -> {NoTx} \union OpenTx \union WrittenTx]
  /\ DOMAIN umetrics = Users
  /\ \A u \in Users : Dated(umetrics[u], UserRows)

(* A date's metric and a job's row have one writer until it commits. *)
Exclusive ==
  /\ \A c, e \in Clients :
       Written(c) /\ Written(e) /\ tx[c].user = tx[e].user
         /\ (tx[c].day = tx[e].day \/ tx[c].job = tx[e].job) => c = e
  /\ \A c \in Clients :
       Written(c) /\ refresh[tx[c].user].at = "written"
         => tx[c].day # refresh[tx[c].user].date

(* What a written update found and has read is still there. *)
TxInv ==
  \A c \in Clients :
    /\ tx[c].at # "idle" => tx[c].day \in 1 .. today
    /\ Written(c) =>
         /\ tx[c].event.prev = status[tx[c].user][tx[c].job]
         /\ tx[c].event.new # tx[c].event.prev
         /\ tx[c].event.day = tx[c].day

SharedInv ==
  /\ \A j \in Jobs : /\ postings[j].first <= today
                     /\ postings[j].active => postings[j].first > 0
  /\ shared.at # "idle" => shared.day \in 1 .. today
  /\ shared.at = "written" =>
       /\ shared.date \in shared.day .. today
       /\ shared.row = GlobalRow(shared.date, shared.upserted)
       /\ \A j \in Jobs :
            /\ shared.upserted[j].active => shared.upserted[j].first > 0
            /\ \/ shared.upserted[j].first = postings[j].first
               \/ /\ shared.upserted[j].first = shared.day
                  /\ postings[j].first = 0 \/ shared.day < postings[j].first

(* The numbers of a publication that only matches decide *)
PublicationInv(u) ==
  LET r == refresh[u] IN
  /\ \A j \in Jobs : /\ matches[u][j].current => postings[j].first > 0
                     /\ j \in r.matched => postings[j].first > 0
  /\ r.at \in {"open", "written"} => r.day \in 1 .. today
  /\ r.at = "written" =>
       /\ r.date \in r.day .. today
       /\ \A j \in Jobs :
            /\ r.merged[j].current => postings[j].first > 0
            /\ \/ r.merged[j].first = matches[u][j].first
               \/ matches[u][j].first = 0 /\ r.merged[j].first = r.day

(* The tables as the update of c will leave them *)
StatusAfter(c) == [status[tx[c].user] EXCEPT ![tx[c].job] = tx[c].event.new]
HistoryAfter(c) ==
  [history[tx[c].user] EXCEPT ![tx[c].job] = Append(@, tx[c].event)]

FirstApplied(hs, d) == {j \in Jobs : FirstAppliedOn(hs[j], d)}

(* A row counts every first application of its day, late or not. *)
Counted(row, hs, d) == Cardinality(FirstApplied(hs, d)) <= row.newApplied

CountedInv ==
  /\ \A u \in Users, d \in Nat :
       FirstApplied(history[u], d) # {} =>
         d \in DOMAIN umetrics[u] /\ Counted(umetrics[u][d], history[u], d)
  /\ \A c \in Clients : Written(c) => Counted(tx[c].row, HistoryAfter(c), tx[c].day)
  /\ \A u \in Users : refresh[u].at = "written" =>
                        Counted(refresh[u].row, history[u], refresh[u].date)

(* The row of a transaction that can still commit on its day is exact. *)
PendingInv ==
  /\ \A c \in Clients :
       Written(c) /\ tx[c].day = today =>
         tx[c].row = UserRow(today, matches[tx[c].user], StatusAfter(c), HistoryAfter(c))
  /\ \A u \in Users :
       refresh[u].at = "written" /\ refresh[u].date = today =>
         refresh[u].row = UserRow(today, refresh[u].merged, status[u], history[u])

Last(rows, d) == d \in DOMAIN rows /\ \A e \in DOMAIN rows : e <= d

(* Without a row, nothing has happened yet. *)
GlobalEmpty == DOMAIN gmetrics = {} => \A j \in Jobs : postings[j].first = 0
UserEmpty(u) ==
  DOMAIN umetrics[u] = {} =>
    \A j \in Jobs : /\ ~ matches[u][j].current /\ matches[u][j].first = 0
                   /\ status[u][j] = "none" /\ history[u][j] = <<>>

GlobalRowsExact(rows, ps) ==
  /\ \A j \in Jobs : ps[j].first > 0 => ps[j].first \in DOMAIN rows
  /\ \A d \in DOMAIN rows :
       /\ rows[d].newJobs = GlobalRow(d, ps).newJobs
       /\ Last(rows, d) => rows[d].jobs = GlobalRow(d, ps).jobs

(* Each row has its day's news, and the last row today's totals. *)
UserRowsExact(rows, ms, st, hs) ==
  /\ \A j \in Jobs : ms[j].first > 0 => ms[j].first \in DOMAIN rows
  /\ \A d \in DOMAIN rows :
       LET now == UserRow(d, ms, st, hs) IN
       /\ rows[d].newJobs = now.newJobs
       /\ rows[d].newApplied = now.newApplied
       /\ Last(rows, d) => /\ rows[d].jobs = now.jobs
                           /\ rows[d].applied = now.applied
                           /\ rows[d].interviews = now.interviews

GlobalExact == GlobalRowsExact(gmetrics, postings)
UserExact(u) == UserRowsExact(umetrics[u], matches[u], status[u], history[u])

TablesInv ==
  /\ TypeInv /\ Exclusive /\ TxInv /\ SharedInv
  /\ \A u \in Users : PublicationInv(u)

MetricsInv ==
  /\ GlobalEmpty /\ CountedInv
  /\ \A u \in Users : UserEmpty(u)
  /\ late \/ /\ PendingInv /\ GlobalExact
             /\ \A u \in Users : UserExact(u)

DashboardInv == TablesInv /\ MetricsInv

-----------------------------------------------------------------------------
(* The rows of the metrics *)

LEMMA PutFacts ==
  ASSUME NEW rows, NEW d, NEW row
  PROVE  /\ DOMAIN Put(rows, d, row) = DOMAIN rows \union {d}
         /\ Put(rows, d, row)[d] = row
         /\ \A k \in DOMAIN rows : k # d => Put(rows, d, row)[k] = rows[k]
  BY DEF Put

LEMMA GlobalRowType ==
  ASSUME NEW d, NEW ps
  PROVE  GlobalRow(d, ps) \in GlobalRows
  <1>1. Cardinality({j \in Jobs : ps[j].active}) \in Nat
    BY JobSets
  <1>2. Cardinality({j \in Jobs : ps[j].first = d}) \in Nat
    BY JobSets
  <1> QED
    BY <1>1, <1>2 DEF GlobalRow, GlobalRows

LEMMA UserRowType ==
  ASSUME NEW d, NEW ms, NEW st, NEW hs
  PROVE  UserRow(d, ms, st, hs) \in UserRows
  <1>1. Cardinality({j \in Jobs : ms[j].current}) \in Nat
    BY JobSets
  <1>2. Cardinality({j \in Jobs : Reached(st[j], hs[j], AppliedStatus)}) \in Nat
    BY JobSets
  <1>3. Cardinality({j \in Jobs : Reached(st[j], hs[j], InterviewStatus)}) \in Nat
    BY JobSets
  <1>4. Cardinality({j \in Jobs : ms[j].first = d}) \in Nat
    BY JobSets
  <1>5. Cardinality({j \in Jobs : FirstAppliedOn(hs[j], d)}) \in Nat
    BY JobSets
  <1> QED
    BY <1>1, <1>2, <1>3, <1>4, <1>5 DEF UserRow, UserRows

LEMMA DatedPut ==
  ASSUME NEW rows, NEW rowType, Dated(rows, rowType), NEW d \in 1 .. today,
         NEW row \in rowType
  PROVE  Dated(Put(rows, d, row), rowType)
  <1>1. DOMAIN Put(rows, d, row) \subseteq 1 .. today
    BY DEF Put, Dated
  <1>2. ASSUME NEW k \in DOMAIN Put(rows, d, row)
        PROVE  Put(rows, d, row)[k] \in rowType
    <2>1. CASE k = d
      BY <2>1, <1>2 DEF Put
    <2>2. CASE k # d
      BY <2>2, <1>2 DEF Put, Dated
    <2> QED
      BY <2>1, <2>2
  <1> QED
    BY <1>1, <1>2 DEF Dated

-----------------------------------------------------------------------------
(* Types *)

(* The days a transaction may write a row on *)
CommitDays ==
  /\ shared.at = "written" => shared.date \in 1 .. today
  /\ \A u \in Users : refresh[u].at = "written" => refresh[u].date \in 1 .. today
  /\ \A c \in Clients : Written(c) => tx[c].day \in 1 .. today

LEMMA TypeInit == Init => TypeInv
  <1> SUFFICES ASSUME Init PROVE TypeInv
    OBVIOUS
  <1>1. DOMAIN <<>> = {}
    OBVIOUS
  <1>2. <<>> \in Seq(EventRows)
    OBVIOUS
  <1>3. NoRefresh \in RefreshRows /\ NoRefresh.at # "written"
    BY DEF NoRefresh, RefreshRows
  <1>4. NoShared \in SharedRows /\ NoShared.at # "written"
    BY DEF NoShared, SharedRows
  <1>5. matches \in [Users -> MatchTable]
    BY DEF Init, MatchTable, NoMatch
  <1>6. postings \in PostingTable
    BY DEF Init, PostingTable
  <1>7. /\ status \in [Users -> StatusTable] /\ history \in [Users -> HistoryTable]
        /\ DOMAIN umetrics = Users
    BY <1>2 DEF Init, StatusTable, HistoryTable, Marks
  <1>8. Dated(gmetrics, GlobalRows) /\ \A u \in Users : Dated(umetrics[u], UserRows)
    BY <1>1 DEF Init, Dated
  <1>9. today \in Nat \ {0} /\ late \in BOOLEAN
    <2>1. today \in Nat \ {0}
      BY DEF Init
    <2>2. late \in BOOLEAN
      BY DEF Init
    <2> QED
      BY <2>1, <2>2
  <1>10. shared \in SharedRows /\ shared.at # "written"
    BY <1>4 DEF Init
  <1>11. refresh \in [Users -> RefreshRows] /\ \A u \in Users : refresh[u].at # "written"
    BY <1>3 DEF Init
  <1>12. tx \in [Clients -> {NoTx} \union OpenTx \union WrittenTx]
    BY DEF Init
  <1> QED
    BY <1>5, <1>6, <1>7, <1>8, <1>9, <1>10, <1>11, <1>12 DEF TypeInv

LEMMA SharedType ==
  ASSUME TypeInv, SharedRefresh, CommitDays
  PROVE  TypeInv'
  <1> USE DEF TypeInv, globals, locals, marks, counters
  <1>1. ASSUME NEW js \in SUBSET Jobs, CollectShared(js)
        PROVE  TypeInv'
    BY <1>1 DEF CollectShared, StartsRefresh, NoShared, SharedRows, Dated
  <1>2. ASSUME NEW js \in SUBSET Jobs, WriteShared(js)
        PROVE  TypeInv'
    <2> DEFINE ps == [j \in Jobs |->
               IF j \in shared.seen THEN Seen(postings[j], shared.day)
               ELSE IF j \in js THEN [postings[j] EXCEPT !.active = FALSE]
               ELSE postings[j]]
    <2>1. ps \in PostingTable
      BY DEF Seen, PostingTable, SharedRows
    <2>2. GlobalRow(today, ps) \in GlobalRows
      BY GlobalRowType
    <2>3. shared' = [shared EXCEPT !.at = "written", !.date = today, !.upserted = ps,
                              !.row = GlobalRow(today, ps)]
      BY <1>2 DEF WriteShared
    <2> HIDE DEF ps
    <2>4. shared' \in SharedRows /\ shared'.upserted = ps /\ shared'.row = GlobalRow(today, ps)
      BY <2>1, <2>2, <2>3 DEF SharedRows
    <2> QED
      BY <1>2, <2>1, <2>2, <2>4 DEF WriteShared, Dated
  <1>3. CASE CommitShared
    <2>1. Dated(Put(gmetrics, shared.date, shared.row), GlobalRows)
      BY <1>3, DatedPut DEF CommitShared, CommitDays
    <2>2. shared' \in SharedRows /\ shared'.at # "written"
      BY <1>3 DEF CommitShared, NoShared, SharedRows
    <2> QED
      BY <1>3, <2>1, <2>2 DEF CommitShared, Dated
  <1>4. CASE FailShared
    BY <1>4 DEF FailShared, Fault, NoShared, SharedRows, Dated
  <1> QED
    BY <1>1, <1>2, <1>3, <1>4 DEF SharedRefresh

LEMMA PersonalType ==
  ASSUME TypeInv, CommitDays, NEW u \in Users, PersonalRefresh(u)
  PROVE  TypeInv'
  <1> USE DEF globals, locals, marks, counters
  <1> DEFINE Kept == /\ UNCHANGED <<today, globals, marks>>
                     /\ late' \in BOOLEAN
  <1>1. ASSUME NEW row \in RefreshRows, refresh' = [refresh EXCEPT ![u] = row],
               row.at = "written" => row.merged \in MatchTable /\ row.row \in UserRows,
               Kept, UNCHANGED <<matches, umetrics>>
        PROVE  TypeInv'
    BY <1>1 DEF TypeInv, Dated
  <1>2. /\ refresh[u] \in RefreshRows /\ late \in BOOLEAN
        /\ NoRefresh \in RefreshRows /\ NoRefresh.at = "idle"
    BY DEF TypeInv, NoRefresh, RefreshRows
  <1>3. CASE StageConfig(u)
    BY <1>1, <1>2, <1>3
       DEF StageConfig, RefreshStep, StartsRefresh, NoRefresh, RefreshRows
  <1>4. ASSUME NEW matched \in SUBSET Jobs, BuildMatches(u, matched)
        PROVE  TypeInv'
    BY <1>1, <1>2, <1>4 DEF BuildMatches, RefreshStep, RefreshRows
  <1>5. CASE BeginPublication(u)
    BY <1>1, <1>2, <1>5 DEF BeginPublication, RefreshStep, RefreshRows, TypeInv
  <1>6. CASE WritePublication(u)
    <2> DEFINE ms == Merged(u)
               row == UserRow(today, ms, status[u], history[u])
    <2>1. ms \in MatchTable
      <3>1. /\ matches[u] \in MatchTable /\ refresh[u].day \in Nat /\ postings \in PostingTable
        BY <1>2 DEF TypeInv, RefreshRows
      <3> QED
        BY <3>1 DEF Merged, MatchTable, PostingTable
    <2>2. row \in UserRows
      BY UserRowType
    <2>3. RefreshStep(u, "open", [refresh[u] EXCEPT !.at = "written", !.date = today,
                                                   !.merged = ms, !.row = row])
      BY <1>6 DEF WritePublication
    <2>4. Kept /\ UNCHANGED <<matches, umetrics>>
      BY <1>2, <1>6 DEF WritePublication
    <2>5. today \in Nat
      BY DEF TypeInv
    <2> HIDE DEF ms, row, Kept
    <2>6. [refresh[u] EXCEPT !.at = "written", !.date = today,
                             !.merged = ms, !.row = row] \in RefreshRows
      BY <1>2, <2>1, <2>2, <2>5 DEF RefreshRows
    <2> QED
      BY <1>1, <1>2, <2>1, <2>2, <2>3, <2>4, <2>6 DEF RefreshStep, RefreshRows
  <1>7. CASE CommitPublication(u)
    <2> DEFINE r == refresh[u]
    <2>1. r.merged \in MatchTable /\ r.row \in UserRows /\ r.date \in 1 .. today
      BY <1>7 DEF CommitPublication, RefreshStep, TypeInv, CommitDays
    <2>2. Dated(umetrics[u], UserRows)
      BY DEF TypeInv
    <2>3. Dated(Put(umetrics[u], r.date, r.row), UserRows)
      BY <2>1, <2>2, DatedPut
    <2>4. /\ umetrics' = [umetrics EXCEPT ![u] = Put(umetrics[u], r.date, r.row)]
          /\ matches' = [matches EXCEPT ![u] = r.merged]
          /\ refresh' = [refresh EXCEPT ![u] = NoRefresh]
          /\ Kept
      BY <1>7, <1>2 DEF CommitPublication, RefreshStep
    <2> HIDE DEF r
    <2> QED
      BY <1>2, <2>1, <2>3, <2>4 DEF TypeInv, Dated
  <1>8. CASE FailRefresh(u)
    BY <1>1, <1>2, <1>8 DEF FailRefresh, Fault
  <1> QED
    BY <1>3, <1>4, <1>5, <1>6, <1>7, <1>8 DEF PersonalRefresh

LEMMA StatusType ==
  ASSUME TypeInv, CommitDays, NEW c \in Clients, StatusUpdate(c)
  PROVE  TypeInv'
  <1> USE DEF globals, locals, counters
  <1> DEFINE Kept == UNCHANGED <<today, globals, locals>> /\ late' \in BOOLEAN
  <1>1. ASSUME NEW row \in {NoTx} \union OpenTx \union WrittenTx,
               tx' = [tx EXCEPT ![c] = row], Kept, UNCHANGED <<status, history, umetrics>>
        PROVE  TypeInv'
    BY <1>1 DEF TypeInv, Dated
  <1>2. late \in BOOLEAN /\ tx[c] \in {NoTx} \union OpenTx \union WrittenTx
    BY DEF TypeInv
  <1>3. ASSUME NEW u \in Users, NEW j \in Jobs, NEW s \in Statuses, BeginUpdate(c, u, j, s)
        PROVE  TypeInv'
    <2>1. [at |-> "open", user |-> u, job |-> j, new |-> s, day |-> today] \in OpenTx
      BY DEF OpenTx, TypeInv
    <2> QED
      BY <1>1, <1>2, <1>3, <2>1 DEF BeginUpdate, SetTx
  <1>4. CASE UpsertStatus(c)
    <2>1. tx[c] \in OpenTx
      BY <1>2, <1>4 DEF UpsertStatus, NoTx, WrittenTx
    <2> DEFINE t == tx[c]
               event == [prev |-> status[t.user][t.job], new |-> t.new, day |-> t.day]
               st == [status[t.user] EXCEPT ![t.job] = t.new]
               hs == [history[t.user] EXCEPT ![t.job] = Append(@, event)]
               row == UserRow(t.day, matches[t.user], st, hs)
    <2>2. event \in EventRows
      BY <2>1 DEF OpenTx, EventRows, TypeInv, StatusTable
    <2>3. row \in UserRows
      BY UserRowType
    <2>4. tx' = [tx EXCEPT ![c] =
                   [at |-> "written", user |-> t.user, job |-> t.job, event |-> event,
                    day |-> t.day, row |-> row]]
          /\ Kept /\ UNCHANGED <<status, history, umetrics>>
      BY <1>2, <1>4 DEF UpsertStatus, SetTx
    <2> HIDE DEF event, row, Kept
    <2>5. [at |-> "written", user |-> t.user, job |-> t.job, event |-> event,
           day |-> t.day, row |-> row] \in WrittenTx
      BY <2>1, <2>2, <2>3 DEF OpenTx, WrittenTx
    <2> QED
      BY <1>1, <2>4, <2>5
  <1>5. CASE UpsertSame(c)
    BY <1>1, <1>2, <1>5 DEF UpsertSame, SetTx
  <1>6. CASE CommitStatus(c)
    <2> DEFINE t == tx[c]
    <2>1. t \in WrittenTx /\ t.day \in 1 .. today
      BY <1>2, <1>6 DEF CommitStatus, NoTx, OpenTx, CommitDays, Written
    <2>2. t.user \in Users /\ t.job \in Jobs /\ t.row \in UserRows /\ t.event \in EventRows
          /\ t.event.new \in Marks
      BY <2>1 DEF WrittenTx, EventRows, Marks
    <2>3. Dated(umetrics[t.user], UserRows)
      BY <2>2 DEF TypeInv
    <2>4. Dated(Put(umetrics[t.user], t.day, t.row), UserRows)
      BY <2>1, <2>2, <2>3, DatedPut
    <2>5. /\ status' = [status EXCEPT ![t.user][t.job] = t.event.new]
          /\ history' = [history EXCEPT ![t.user][t.job] = Append(@, t.event)]
          /\ umetrics' = [umetrics EXCEPT ![t.user] = Put(umetrics[t.user], t.day, t.row)]
          /\ tx' = [tx EXCEPT ![c] = NoTx]
          /\ Kept
      BY <1>2, <1>6 DEF CommitStatus, SetTx
    <2> HIDE DEF t
    <2>6. status' \in [Users -> StatusTable]
      BY <2>2, <2>5 DEF TypeInv, StatusTable
    <2>7. history' \in [Users -> HistoryTable]
      BY <2>2, <2>5 DEF TypeInv, HistoryTable
    <2> QED
      BY <2>4, <2>5, <2>6, <2>7 DEF TypeInv, Dated
  <1>7. CASE AbortStatus(c)
    BY <1>1, <1>2, <1>7 DEF AbortStatus, Fault
  <1> QED
    BY <1>3, <1>4, <1>5, <1>6, <1>7 DEF StatusUpdate

LEMMA TypeStep ==
  ASSUME TypeInv, CommitDays, [Next]_vars
  PROVE  TypeInv'
  <1>1. CASE Midnight
    BY <1>1 DEF Midnight, TypeInv, Dated, globals, locals, marks, counters
  <1>2. CASE UNCHANGED vars
    BY <1>2 DEF vars, TypeInv, Dated, globals, locals, marks, counters
  <1> QED
    BY <1>1, <1>2, SharedType, PersonalType, StatusType DEF Next

-----------------------------------------------------------------------------
(* What a step can be *)

(* Nothing commits. *)
NoCommit ==
  /\ UNCHANGED <<postings, gmetrics, matches, status, history, umetrics, late>>
  /\ today' \in {today, today + 1}

(* Nothing becomes written. *)
NoWrite ==
  /\ \A c \in Clients : Written(c)' => tx'[c] = tx[c]
  /\ \A u \in Users : refresh'[u].at = "written" => refresh'[u] = refresh[u]

LEMMA CommitSteps ==
  ASSUME TypeInv, [Next]_vars
  PROVE  \/ NoCommit \/ CommitShared
         \/ \E u \in Users : CommitPublication(u)
         \/ \E c \in Clients : CommitStatus(c)
  <1> USE DEF globals, locals, marks, counters, NoCommit
  <1>1. CASE Midnight \/ UNCHANGED vars
    BY <1>1 DEF Midnight, vars
  <1>2. CASE SharedRefresh
    BY <1>2 DEF SharedRefresh, CollectShared, WriteShared, FailShared, Fault, StartsRefresh
  <1>3. ASSUME NEW u \in Users, PersonalRefresh(u)
        PROVE  NoCommit \/ CommitPublication(u)
    BY <1>3 DEF PersonalRefresh, StageConfig, BuildMatches, BeginPublication,
                WritePublication, FailRefresh, Fault, StartsRefresh, RefreshStep
  <1>4. ASSUME NEW c \in Clients, StatusUpdate(c)
        PROVE  NoCommit \/ CommitStatus(c)
    BY <1>4 DEF StatusUpdate, BeginUpdate, UpsertStatus, UpsertSame, AbortStatus,
                Fault, SetTx
  <1> QED
    BY <1>1, <1>2, <1>3, <1>4 DEF Next

LEMMA WriteSteps ==
  ASSUME TypeInv, [Next]_vars
  PROVE  \/ NoWrite
         \/ \E u \in Users : WritePublication(u)
         \/ \E c \in Clients : UpsertStatus(c)
  <1> USE DEF globals, locals, marks, counters, NoWrite, Written
  <1>1. CASE Midnight \/ UNCHANGED vars
    BY <1>1 DEF Midnight, vars
  <1>2. CASE SharedRefresh
    BY <1>2 DEF SharedRefresh, CollectShared, WriteShared, CommitShared, FailShared,
                Fault, StartsRefresh
  <1>3. ASSUME NEW u \in Users, PersonalRefresh(u)
        PROVE  NoWrite \/ WritePublication(u)
    <2>1. /\ refresh \in [Users -> RefreshRows] /\ refresh[u] \in RefreshRows
          /\ NoRefresh \in RefreshRows /\ NoRefresh.at = "idle"
      BY DEF TypeInv, NoRefresh, RefreshRows
    <2>2. ASSUME NEW row, row.at # "written", refresh' = [refresh EXCEPT ![u] = row],
                 UNCHANGED tx
          PROVE  NoWrite
      BY <2>1, <2>2
    <2>3. CASE StageConfig(u)
      BY <2>1, <2>2, <2>3 DEF StageConfig, RefreshStep, StartsRefresh, NoRefresh
    <2>4. ASSUME NEW matched \in SUBSET Jobs, BuildMatches(u, matched)
          PROVE  NoWrite
      BY <2>1, <2>2, <2>4 DEF BuildMatches, RefreshStep, RefreshRows
    <2>5. CASE BeginPublication(u)
      BY <2>1, <2>2, <2>5 DEF BeginPublication, RefreshStep, RefreshRows
    <2>6. CASE CommitPublication(u)
      BY <2>1, <2>2, <2>6 DEF CommitPublication, RefreshStep
    <2>7. CASE FailRefresh(u)
      BY <2>1, <2>2, <2>7 DEF FailRefresh
    <2> QED
      BY <1>3, <2>3, <2>4, <2>5, <2>6, <2>7 DEF PersonalRefresh
  <1>4. ASSUME NEW c \in Clients, StatusUpdate(c)
        PROVE  NoWrite \/ UpsertStatus(c)
    <2>1. tx \in [Clients -> {NoTx} \union OpenTx \union WrittenTx] /\ NoTx.at = "idle"
      BY DEF TypeInv, NoTx
    <2>2. ASSUME NEW row, row.at # "written", tx' = [tx EXCEPT ![c] = row],
                 UNCHANGED refresh
          PROVE  NoWrite
      BY <2>1, <2>2
    <2>3. ASSUME NEW u \in Users, NEW j \in Jobs, NEW s \in Statuses, BeginUpdate(c, u, j, s)
          PROVE  NoWrite
      BY <2>2, <2>3 DEF BeginUpdate, SetTx
    <2>4. CASE UpsertSame(c) \/ CommitStatus(c) \/ AbortStatus(c)
      BY <2>1, <2>2, <2>4 DEF UpsertSame, CommitStatus, AbortStatus, SetTx
    <2> QED
      BY <1>4, <2>3, <2>4 DEF StatusUpdate
  <1> QED
    BY <1>1, <1>2, <1>3, <1>4 DEF Next

(* The update that a step writes, and what it is computed from *)
LEMMA UpsertFacts ==
  ASSUME TypeInv, NEW c \in Clients, UpsertStatus(c)
  PROVE  /\ tx[c] \in OpenTx /\ tx'[c] \in WrittenTx
         /\ tx'[c].user = tx[c].user /\ tx'[c].job = tx[c].job /\ tx'[c].day = tx[c].day
         /\ tx'[c].event = [prev |-> status[tx[c].user][tx[c].job], new |-> tx[c].new,
                            day |-> tx[c].day]
         /\ tx[c].new # status[tx[c].user][tx[c].job]
         /\ tx'[c].row = UserRow(tx[c].day, matches[tx[c].user], StatusAfter(c)',
                                 HistoryAfter(c)')
         /\ \A e \in Clients : e # c => tx'[e] = tx[e]
         /\ MetricFree(tx[c].user, tx[c].day) /\ RowFree(tx[c].user, tx[c].job)
         /\ NoCommit /\ UNCHANGED <<refresh, shared, today>>
  <1> DEFINE t == tx[c]
             event == [prev |-> status[t.user][t.job], new |-> t.new, day |-> t.day]
             st == [status[t.user] EXCEPT ![t.job] = t.new]
             hs == [history[t.user] EXCEPT ![t.job] = Append(@, event)]
             row == UserRow(t.day, matches[t.user], st, hs)
  <1>1. t \in OpenTx
    BY DEF UpsertStatus, TypeInv, NoTx, WrittenTx
  <1>2. /\ event \in EventRows /\ event.prev = status[t.user][t.job]
        /\ event.new = t.new /\ event.day = t.day
    BY <1>1 DEF OpenTx, EventRows, TypeInv, StatusTable
  <1>3. row \in UserRows
    BY UserRowType
  <1>4. /\ tx' = [tx EXCEPT ![c] =
                   [at |-> "written", user |-> t.user, job |-> t.job, event |-> event,
                    day |-> t.day, row |-> row]]
        /\ NoCommit /\ UNCHANGED <<refresh, shared, today, status, history>>
        /\ t.new # event.prev
        /\ MetricFree(t.user, t.day) /\ RowFree(t.user, t.job)
    BY DEF UpsertStatus, SetTx, NoCommit, globals, locals
  <1>5. tx \in [Clients -> {NoTx} \union OpenTx \union WrittenTx]
    BY DEF TypeInv
  <1> HIDE DEF event, row, t
  <1>6. tx'[c] = [at |-> "written", user |-> t.user, job |-> t.job, event |-> event,
                  day |-> t.day, row |-> row]
        /\ \A e \in Clients : e # c => tx'[e] = tx[e]
    BY <1>4, <1>5
  <1>7. tx'[c] \in WrittenTx
    BY <1>1, <1>2, <1>3, <1>6 DEF OpenTx, WrittenTx
  <1>8. StatusAfter(c)' = st /\ HistoryAfter(c)' = hs
    <2>1. /\ tx'[c].user = t.user /\ tx'[c].job = t.job /\ tx'[c].event = event
          /\ event.new = t.new /\ status' = status /\ history' = history
      BY <1>2, <1>4, <1>6
    <2> QED
      BY <2>1 DEF StatusAfter, HistoryAfter
  <1>9. tx'[c].row = UserRow(t.day, matches[t.user], StatusAfter(c)', HistoryAfter(c)')
    BY <1>6, <1>8 DEF row
  <1> QED
    BY <1>1, <1>2, <1>4, <1>6, <1>7, <1>9 DEF t, event

LEMMA WriteFacts ==
  ASSUME TypeInv, NEW u \in Users, WritePublication(u)
  PROVE  /\ refresh[u].at = "open" /\ refresh'[u] \in RefreshRows
         /\ refresh'[u].at = "written" /\ refresh'[u].date = today
         /\ refresh'[u].day = refresh[u].day /\ refresh'[u].matched = refresh[u].matched
         /\ refresh'[u].merged = Merged(u)
         /\ refresh'[u].row = UserRow(today, Merged(u), status[u], history[u])
         /\ \A v \in Users : v # u => refresh'[v] = refresh[v]
         /\ MetricFree(u, today)
         /\ NoCommit /\ UNCHANGED <<tx, shared, today>>
  <1> DEFINE ms == Merged(u)
             row == UserRow(today, ms, status[u], history[u])
  <1>1. /\ refresh' = [refresh EXCEPT ![u] = [refresh[u] EXCEPT !.at = "written",
                                      !.date = today, !.merged = ms, !.row = row]]
        /\ refresh[u].at = "open" /\ MetricFree(u, today)
        /\ NoCommit /\ UNCHANGED <<tx, shared, today>>
    BY DEF WritePublication, RefreshStep, NoCommit, globals, marks
  <1>2. refresh \in [Users -> RefreshRows] /\ refresh[u] \in RefreshRows
    BY DEF TypeInv
  <1>3. ms \in MatchTable
    <2>1. matches[u] \in MatchTable /\ refresh[u].day \in Nat /\ postings \in PostingTable
      BY <1>2 DEF TypeInv, RefreshRows
    <2> QED
      BY <2>1 DEF Merged, MatchTable, PostingTable
  <1>4. row \in UserRows
    BY UserRowType
  <1>5. today \in Nat
    BY DEF TypeInv
  <1> HIDE DEF ms, row
  <1>6. refresh'[u] = [refresh[u] EXCEPT !.at = "written", !.date = today,
                                         !.merged = ms, !.row = row]
        /\ \A v \in Users : v # u => refresh'[v] = refresh[v]
    BY <1>1, <1>2
  <1>7. /\ refresh'[u].at = "written" /\ refresh'[u].date = today
        /\ refresh'[u].day = refresh[u].day /\ refresh'[u].matched = refresh[u].matched
        /\ refresh'[u].merged = ms /\ refresh'[u].row = row
        /\ refresh'[u] \in RefreshRows
    BY <1>2, <1>3, <1>4, <1>5, <1>6 DEF RefreshRows
  <1> QED
    BY <1>1, <1>6, <1>7 DEF ms, row

LEMMA CommitStatusFacts ==
  ASSUME TypeInv, NEW c \in Clients, CommitStatus(c)
  PROVE  LET t == tx[c] IN
         /\ t \in WrittenTx /\ Written(c)
         /\ status' = [status EXCEPT ![t.user] = StatusAfter(c)]
         /\ history' = [history EXCEPT ![t.user] = HistoryAfter(c)]
         /\ umetrics' = [umetrics EXCEPT ![t.user] = Put(umetrics[t.user], t.day, t.row)]
         /\ late' = (late \/ t.day # today)
         /\ tx'[c] = NoTx /\ \A e \in Clients : e # c => tx'[e] = tx[e]
         /\ UNCHANGED <<today, postings, shared, gmetrics, matches, refresh>>
  <1> DEFINE t == tx[c]
  <1>1. t \in WrittenTx /\ Written(c)
    BY DEF CommitStatus, TypeInv, NoTx, OpenTx, Written
  <1>2. /\ status' = [status EXCEPT ![t.user][t.job] = t.event.new]
        /\ history' = [history EXCEPT ![t.user][t.job] = Append(@, t.event)]
        /\ umetrics' = [umetrics EXCEPT ![t.user] = Put(umetrics[t.user], t.day, t.row)]
        /\ tx' = [tx EXCEPT ![c] = NoTx]
        /\ UNCHANGED <<today, postings, shared, gmetrics, matches, refresh>>
    BY DEF CommitStatus, SetTx, globals, locals
  <1>3. late' = (late \/ t.day # today)
    BY DEF CommitStatus
  <1>4. tx \in [Clients -> {NoTx} \union OpenTx \union WrittenTx]
    BY DEF TypeInv
  <1>5. tx'[c] = NoTx /\ \A e \in Clients : e # c => tx'[e] = tx[e]
    BY <1>2, <1>4
  <1>6. status' = [status EXCEPT ![t.user] = StatusAfter(c)]
    BY <1>2 DEF StatusAfter
  <1>7. history' = [history EXCEPT ![t.user] = HistoryAfter(c)]
    BY <1>2 DEF HistoryAfter
  <1> QED
    BY <1>1, <1>2, <1>3, <1>5, <1>6, <1>7

LEMMA CommitPublicationFacts ==
  ASSUME TypeInv, NEW u \in Users, CommitPublication(u)
  PROVE  LET r == refresh[u] IN
         /\ r \in RefreshRows /\ r.at = "written"
         /\ r.merged \in MatchTable /\ r.row \in UserRows
         /\ matches' = [matches EXCEPT ![u] = r.merged]
         /\ umetrics' = [umetrics EXCEPT ![u] = Put(umetrics[u], r.date, r.row)]
         /\ late' = (late \/ r.day # today)
         /\ refresh'[u] = NoRefresh /\ \A v \in Users : v # u => refresh'[v] = refresh[v]
         /\ UNCHANGED <<today, postings, shared, gmetrics, status, history, tx>>
  <1> DEFINE r == refresh[u]
  <1>1. r \in RefreshRows /\ r.at = "written" /\ r.merged \in MatchTable /\ r.row \in UserRows
    BY DEF TypeInv, CommitPublication, RefreshStep
  <1>2. /\ matches' = [matches EXCEPT ![u] = r.merged]
        /\ umetrics' = [umetrics EXCEPT ![u] = Put(umetrics[u], r.date, r.row)]
        /\ refresh' = [refresh EXCEPT ![u] = NoRefresh]
        /\ UNCHANGED <<today, postings, shared, gmetrics, status, history, tx>>
    BY DEF CommitPublication, RefreshStep, globals, marks
  <1>3. late' = (late \/ r.day # today)
    BY DEF CommitPublication
  <1>4. refresh'[u] = NoRefresh /\ \A v \in Users : v # u => refresh'[v] = refresh[v]
    BY <1>2 DEF TypeInv
  <1> QED
    BY <1>1, <1>2, <1>3, <1>4

LEMMA CommitSharedFacts ==
  ASSUME TypeInv, CommitShared
  PROVE  /\ shared.at = "written" /\ shared.upserted \in PostingTable
         /\ postings' = shared.upserted /\ shared' = NoShared
         /\ gmetrics' = Put(gmetrics, shared.date, shared.row)
         /\ late' = (late \/ shared.day # today)
         /\ UNCHANGED <<today, matches, refresh, status, history, tx, umetrics>>
  <1>1. /\ shared.at = "written" /\ shared.upserted \in PostingTable
        /\ postings' = shared.upserted /\ shared' = NoShared
        /\ gmetrics' = Put(gmetrics, shared.date, shared.row)
        /\ UNCHANGED <<today, matches, refresh, status, history, tx, umetrics>>
    BY DEF TypeInv, CommitShared, locals, marks
  <1>2. late' = (late \/ shared.day # today)
    BY DEF CommitShared
  <1> QED
    BY <1>1, <1>2

-----------------------------------------------------------------------------
(* One writer of a row, and what it has read *)

LEMMA ExclusiveStep ==
  ASSUME TypeInv, Exclusive, [Next]_vars
  PROVE  Exclusive'
  <1>1. CASE NoWrite
    <2>1. ASSUME NEW c \in Clients, Written(c)'
          PROVE  Written(c) /\ tx'[c] = tx[c] /\ tx[c].user \in Users
      BY <1>1, <2>1 DEF NoWrite, Written, TypeInv, NoTx, OpenTx, WrittenTx
    <2>2. ASSUME NEW c \in Clients, NEW e \in Clients, Written(c)', Written(e)',
                 tx'[c].user = tx'[e].user, tx'[c].day = tx'[e].day \/ tx'[c].job = tx'[e].job
          PROVE  c = e
      BY <2>1, <2>2 DEF Exclusive
    <2>3. ASSUME NEW c \in Clients, Written(c)', refresh'[tx'[c].user].at = "written"
          PROVE  tx'[c].day # refresh'[tx'[c].user].date
      BY <1>1, <2>1, <2>3 DEF Exclusive, NoWrite
    <2> QED
      BY <2>2, <2>3 DEF Exclusive, Written
  <1>2. ASSUME NEW u \in Users, WritePublication(u)
        PROVE  Exclusive'
    <2>1. /\ refresh'[u].at = "written" /\ refresh'[u].date = today
          /\ \A v \in Users : v # u => refresh'[v] = refresh[v]
          /\ MetricFree(u, today) /\ UNCHANGED tx
      BY <1>2, WriteFacts
    <2>2. ASSUME NEW c \in Clients, Written(c), refresh'[tx[c].user].at = "written"
          PROVE  tx[c].day # refresh'[tx[c].user].date
      <3>1. CASE tx[c].user = u
        BY <2>1, <2>2, <3>1 DEF MetricFree
      <3>2. CASE tx[c].user # u
        <4>1. tx[c].user \in Users
          BY <2>2 DEF Written, TypeInv, NoTx, OpenTx, WrittenTx
        <4> QED
          BY <2>1, <2>2, <3>2, <4>1 DEF Exclusive
      <3> QED
        BY <3>1, <3>2
    <2> QED
      BY <2>1, <2>2 DEF Exclusive, Written
  <1>3. ASSUME NEW c \in Clients, UpsertStatus(c)
        PROVE  Exclusive'
    <2> DEFINE u == tx[c].user
               d == tx[c].day
               k == tx[c].job
    <2>1. /\ tx'[c].user = u /\ tx'[c].job = k /\ tx'[c].day = d
          /\ \A e \in Clients : e # c => tx'[e] = tx[e]
          /\ MetricFree(u, d) /\ RowFree(u, k) /\ UNCHANGED refresh
      BY <1>3, UpsertFacts
    <2>2. ASSUME NEW e \in Clients, e # c, Written(e), tx[e].user = u
          PROVE  tx[e].day # d /\ tx[e].job # k
      BY <2>1, <2>2 DEF MetricFree, RowFree
    <2>3. refresh[u].at = "written" => refresh[u].date # d
      BY <2>1 DEF MetricFree
    <2> HIDE DEF u, d, k
    <2> QED
      BY <2>1, <2>2, <2>3 DEF Exclusive, Written
  <1> QED
    BY <1>1, <1>2, <1>3, WriteSteps

LEMMA TxDays ==
  ASSUME TypeInv, TxInv, [Next]_vars, NEW c \in Clients
  PROVE  tx'[c].at # "idle" => tx'[c].day \in 1 .. today'
  <1>1. today \in Nat \ {0} /\ today' \in {today, today + 1}
    BY CommitSteps, CommitSharedFacts, CommitPublicationFacts, CommitStatusFacts
       DEF TypeInv, NoCommit
  <1>2. tx[c].at # "idle" => tx[c].day \in 1 .. today
    BY DEF TxInv
  <1>3. \/ tx'[c] = tx[c] \/ tx'[c] = NoTx
        \/ tx'[c].day = today \/ UpsertStatus(c)
    <2>1. tx \in [Clients -> {NoTx} \union OpenTx \union WrittenTx]
      BY DEF TypeInv
    <2>2. CASE Midnight \/ UNCHANGED vars \/ SharedRefresh
      BY <2>2 DEF Midnight, vars, marks, SharedRefresh, CollectShared, WriteShared,
                  CommitShared, FailShared, StartsRefresh
    <2>3. CASE \E u \in Users : PersonalRefresh(u)
      BY <2>3 DEF PersonalRefresh, StageConfig, BuildMatches, BeginPublication, marks,
                  WritePublication, CommitPublication, FailRefresh, StartsRefresh
    <2>4. ASSUME NEW e \in Clients, StatusUpdate(e), e # c
          PROVE  tx'[c] = tx[c]
      BY <2>1, <2>4 DEF StatusUpdate, BeginUpdate, UpsertStatus, UpsertSame, CommitStatus,
                  AbortStatus, SetTx
    <2>5. ASSUME NEW u \in Users, NEW j \in Jobs, NEW s \in Statuses, BeginUpdate(c, u, j, s)
          PROVE  tx'[c].day = today
      BY <2>1, <2>5 DEF BeginUpdate, SetTx
    <2>6. CASE UpsertSame(c) \/ CommitStatus(c) \/ AbortStatus(c)
      BY <2>1, <2>6 DEF UpsertSame, CommitStatus, AbortStatus, SetTx
    <2> QED
      BY <2>2, <2>3, <2>4, <2>5, <2>6 DEF Next, StatusUpdate
  <1>4. CASE UpsertStatus(c)
    BY <1>1, <1>2, <1>4, UpsertFacts DEF OpenTx
  <1> QED
    BY <1>1, <1>2, <1>3, <1>4 DEF NoTx

(* The history's invariant with what the updates in flight will add *)
LEMMA TxStep ==
  ASSUME TypeInv, Exclusive, TxInv, [Next]_vars
  PROVE  TxInv'
  <1> SUFFICES ASSUME NEW c \in Clients, Written(c)'
               PROVE  /\ tx'[c].event.prev = status'[tx'[c].user][tx'[c].job]
                      /\ tx'[c].event.new # tx'[c].event.prev
                      /\ tx'[c].event.day = tx'[c].day
    BY TxDays DEF TxInv
  <1>1. CASE UpsertStatus(c)
    <2>1. tx[c] \in OpenTx /\ status' = status
      BY <1>1, UpsertFacts DEF NoCommit
    <2>2. /\ tx'[c].user = tx[c].user /\ tx'[c].job = tx[c].job /\ tx'[c].day = tx[c].day
          /\ tx'[c].event = [prev |-> status[tx[c].user][tx[c].job], new |-> tx[c].new,
                             day |-> tx[c].day]
          /\ tx[c].new # status[tx[c].user][tx[c].job]
      BY <1>1, UpsertFacts
    <2> QED
      BY <2>1, <2>2
  <1>2. CASE ~ UpsertStatus(c)
    <2>1. tx'[c] = tx[c] /\ Written(c)
      <3>1. ASSUME NEW u \in Users, WritePublication(u) PROVE tx'[c] = tx[c]
        BY <3>1, WriteFacts
      <3>2. ASSUME NEW e \in Clients, UpsertStatus(e) PROVE tx'[c] = tx[c]
        BY <1>2, <3>2, UpsertFacts
      <3>3. tx'[c] = tx[c]
        BY <3>1, <3>2, WriteSteps DEF NoWrite
      <3> QED
        BY <3>3 DEF Written
    <2>2. /\ tx[c].event.prev = status[tx[c].user][tx[c].job]
          /\ tx[c].event.new # tx[c].event.prev
          /\ tx[c].event.day = tx[c].day
          /\ tx[c].user \in Users /\ tx[c].job \in Jobs
      BY <2>1 DEF TxInv, TypeInv, Written, NoTx, OpenTx, WrittenTx
    <2>3. ASSUME NEW e \in Clients, CommitStatus(e)
          PROVE  status'[tx[c].user][tx[c].job] = status[tx[c].user][tx[c].job]
      <3>1. e # c
        BY <2>3, CommitStatusFacts DEF Written, NoTx
      <3>2. Written(e) /\ tx[e] \in WrittenTx
            /\ status' = [status EXCEPT ![tx[e].user] = StatusAfter(e)]
        BY <2>3, CommitStatusFacts
      <3>3. tx[e].user # tx[c].user \/ tx[e].job # tx[c].job
        BY <2>1, <3>1, <3>2 DEF Exclusive
      <3> QED
        BY <2>2, <3>2, <3>3 DEF StatusAfter, TypeInv, StatusTable
    <2>4. status'[tx[c].user][tx[c].job] = status[tx[c].user][tx[c].job]
      BY <2>3, CommitSteps, CommitSharedFacts, CommitPublicationFacts DEF NoCommit
    <2> QED
      BY <2>1, <2>2, <2>4
  <1> QED
    BY <1>1, <1>2

-----------------------------------------------------------------------------
(* The history's chain *)

Chain(h, s) ==
  IF h = <<>> THEN s = "none"
  ELSE /\ h[1].prev = "none"
       /\ h[Len(h)].new = s
       /\ \A i \in DOMAIN h : h[i].new # h[i].prev
       /\ \A i \in 2 .. Len(h) : h[i].prev = h[i - 1].new

LEMMA ChainAppend ==
  ASSUME NEW h \in Seq(EventRows), NEW s, Chain(h, s), NEW event \in EventRows,
         event.prev = s, event.new # s
  PROVE  Chain(Append(h, event), event.new)
  <1> DEFINE g == Append(h, event)
  <1>1. /\ Len(g) = Len(h) + 1 /\ Len(h) \in Nat /\ DOMAIN g = 1 .. Len(g)
        /\ DOMAIN h = 1 .. Len(h)
        /\ g[Len(h) + 1] = event /\ \A i \in 1 .. Len(h) : g[i] = h[i]
    OBVIOUS
  <1>2. g # <<>>
    BY <1>1
  <1>3. CASE h = <<>>
    <2>1. Len(h) = 0
      BY <1>3
    <2> HIDE DEF g
    <2> QED
      BY <1>1, <1>2, <1>3, <2>1 DEF Chain
  <1>4. CASE h # <<>>
    <2>1. Len(h) > 0
      BY <1>1, <1>4
    <2>2. /\ h[1].prev = "none" /\ h[Len(h)].new = s
          /\ \A i \in 1 .. Len(h) : h[i].new # h[i].prev
          /\ \A i \in 2 .. Len(h) : h[i].prev = h[i - 1].new
      BY <1>1, <1>4 DEF Chain
    <2> HIDE DEF g
    <2>3. \A i \in 2 .. Len(g) : g[i].prev = g[i - 1].new
      <3> SUFFICES ASSUME NEW i \in 2 .. Len(g) PROVE g[i].prev = g[i - 1].new
        OBVIOUS
      <3>1. CASE i = Len(h) + 1
        <4>1. i - 1 = Len(h) /\ i - 1 \in 1 .. Len(h)
          BY <1>1, <2>1, <3>1
        <4>2. g[i - 1] = h[Len(h)] /\ g[i] = event
          BY <1>1, <3>1, <4>1
        <4> QED
          BY <2>2, <4>2
      <3>2. CASE i # Len(h) + 1
        <4>1. i \in 2 .. Len(h) /\ i \in 1 .. Len(h) /\ i - 1 \in 1 .. Len(h)
          BY <1>1, <3>2
        <4> QED
          BY <1>1, <2>2, <4>1
      <3> QED
        BY <3>1, <3>2
    <2>4. \A i \in DOMAIN g : g[i].new # g[i].prev
      <3> SUFFICES ASSUME NEW i \in DOMAIN g PROVE g[i].new # g[i].prev
        OBVIOUS
      <3>1. CASE i = Len(h) + 1
        BY <1>1, <3>1
      <3>2. CASE i # Len(h) + 1
        <4>1. i \in 1 .. Len(h)
          BY <1>1, <3>2
        <4> QED
          BY <1>1, <2>2, <4>1
      <3> QED
        BY <3>1, <3>2
    <2>5. g[1].prev = "none" /\ g[Len(g)].new = event.new
      <3>1. 1 \in 1 .. Len(h)
        BY <1>1, <2>1
      <3> QED
        BY <1>1, <2>2, <3>1
    <2> QED
      BY <1>2, <2>3, <2>4, <2>5 DEF Chain
  <1> QED
    BY <1>3, <1>4

LEMMA ChainsAre ==
  /\ StatusHistoryChains <=> \A u \in Users, j \in Jobs : Chain(history[u][j], status[u][j])
  /\ StatusHistoryChains' <=> \A u \in Users, j \in Jobs : Chain(history'[u][j], status'[u][j])
  BY DEF StatusHistoryChains, Chain

LEMMA ChainsStep ==
  ASSUME TypeInv, TxInv, StatusHistoryChains, [Next]_vars
  PROVE  StatusHistoryChains'
  <1>1. CASE UNCHANGED <<status, history>>
    BY <1>1, ChainsAre
  <1>2. ASSUME NEW c \in Clients, CommitStatus(c)
        PROVE  StatusHistoryChains'
    <2> DEFINE t == tx[c]
    <2>1. /\ t \in WrittenTx /\ Written(c)
          /\ status' = [status EXCEPT ![t.user] = StatusAfter(c)]
          /\ history' = [history EXCEPT ![t.user] = HistoryAfter(c)]
      BY <1>2, CommitStatusFacts
    <2>2. /\ t.user \in Users /\ t.job \in Jobs /\ t.event \in EventRows
          /\ t.event.prev = status[t.user][t.job] /\ t.event.new # t.event.prev
      BY <2>1 DEF TxInv, WrittenTx
    <2>3. status \in [Users -> StatusTable] /\ history \in [Users -> HistoryTable]
      BY DEF TypeInv
    <2>4. \A u \in Users, j \in Jobs :
            IF u = t.user /\ j = t.job
            THEN /\ status'[u][j] = t.event.new
                 /\ history'[u][j] = Append(history[u][j], t.event)
            ELSE status'[u][j] = status[u][j] /\ history'[u][j] = history[u][j]
      BY <2>1, <2>2, <2>3 DEF StatusAfter, HistoryAfter, StatusTable, HistoryTable
    <2> HIDE DEF t
    <2> SUFFICES ASSUME NEW u \in Users, NEW j \in Jobs
                 PROVE  Chain(history'[u][j], status'[u][j])
      BY ChainsAre
    <2>5. Chain(history[u][j], status[u][j])
      BY ChainsAre
    <2>6. CASE u = t.user /\ j = t.job
      <3>1. history[u][j] \in Seq(EventRows)
        BY <2>3 DEF HistoryTable
      <3>2. t.event.prev = status[u][j] /\ t.event.new # status[u][j]
        BY <2>2, <2>6
      <3>3. Chain(Append(history[u][j], t.event), t.event.new)
        BY <2>2, <2>5, <3>1, <3>2, ChainAppend
      <3> QED
        BY <2>4, <2>6, <3>3
    <2>7. CASE ~ (u = t.user /\ j = t.job)
      BY <2>4, <2>5, <2>7
    <2> QED
      BY <2>6, <2>7
  <1> QED
    BY <1>1, <1>2, CommitSteps, CommitSharedFacts, CommitPublicationFacts DEF NoCommit

-----------------------------------------------------------------------------
(* Days of the shared refresh and of publications *)

LEMMA SharedStep ==
  ASSUME TypeInv, SharedInv, [Next]_vars
  PROVE  SharedInv'
  <1>1. /\ today \in Nat \ {0} /\ today' \in {today, today + 1}
        /\ postings \in PostingTable /\ shared \in SharedRows
    BY CommitSteps, CommitSharedFacts, CommitPublicationFacts, CommitStatusFacts
       DEF TypeInv, NoCommit
  <1>2. CASE UNCHANGED <<postings, shared>>
    <2>1. SharedInv' <=>
            /\ \A j \in Jobs : /\ postings[j].first <= today'
                               /\ postings[j].active => postings[j].first > 0
            /\ shared.at # "idle" => shared.day \in 1 .. today'
            /\ shared.at = "written" =>
                 /\ shared.date \in shared.day .. today'
                 /\ shared.row = GlobalRow(shared.date, shared.upserted)
                 /\ \A j \in Jobs :
                      /\ shared.upserted[j].active => shared.upserted[j].first > 0
                      /\ \/ shared.upserted[j].first = postings[j].first
                         \/ /\ shared.upserted[j].first = shared.day
                            /\ postings[j].first = 0 \/ shared.day < postings[j].first
      BY <1>2 DEF SharedInv, GlobalRow
    <2>2. shared.day \in Nat /\ shared.date \in Nat /\ \A j \in Jobs : postings[j].first \in Nat
      BY <1>1 DEF SharedRows, PostingTable
    <2> QED
      BY <1>1, <2>1, <2>2 DEF SharedInv
  <1>3. ASSUME NEW js \in SUBSET Jobs, CollectShared(js)
        PROVE  SharedInv'
    <2>1. shared'.at = "built" /\ shared'.day = today /\ UNCHANGED <<today, postings>>
      BY <1>3 DEF CollectShared, StartsRefresh, NoShared
    <2> QED
      BY <1>1, <2>1 DEF SharedInv
  <1>4. ASSUME NEW js \in SUBSET Jobs, WriteShared(js)
        PROVE  SharedInv'
    <2> DEFINE ps == [j \in Jobs |->
               IF j \in shared.seen THEN Seen(postings[j], shared.day)
               ELSE IF j \in js THEN [postings[j] EXCEPT !.active = FALSE]
               ELSE postings[j]]
    <2>1. /\ shared' = [shared EXCEPT !.at = "written", !.date = today, !.upserted = ps,
                              !.row = GlobalRow(today, ps)]
          /\ shared.at = "built" /\ UNCHANGED <<today, postings>>
      BY <1>4 DEF WriteShared
    <2>2. shared.day \in 1 .. today
      BY <2>1 DEF SharedInv
    <2>3. ASSUME NEW j \in Jobs
          PROVE  /\ ps[j].active => ps[j].first > 0
                 /\ \/ ps[j].first = postings[j].first
                    \/ /\ ps[j].first = shared.day
                       /\ postings[j].first = 0 \/ shared.day < postings[j].first
      BY <1>1, <2>2 DEF SharedInv, Seen, PostingTable
    <2> HIDE DEF ps
    <2>4. /\ shared'.at = "written" /\ shared'.date = today /\ shared'.upserted = ps
          /\ shared'.row = GlobalRow(today, ps) /\ shared'.day = shared.day
      BY <1>1, <2>1 DEF SharedRows
    <2>5. SharedInv' <=>
            /\ \A j \in Jobs : /\ postings[j].first <= today
                               /\ postings[j].active => postings[j].first > 0
            /\ shared.day \in 1 .. today
            /\ today \in shared.day .. today
            /\ \A j \in Jobs :
                      /\ ps[j].active => ps[j].first > 0
                      /\ \/ ps[j].first = postings[j].first
                         \/ /\ ps[j].first = shared.day
                            /\ postings[j].first = 0 \/ shared.day < postings[j].first
      BY <2>1, <2>4 DEF SharedInv, GlobalRow
    <2> QED
      BY <1>1, <2>2, <2>3, <2>5 DEF SharedInv
  <1>5. CASE CommitShared
    <2>1. /\ shared.at = "written" /\ shared.upserted \in PostingTable
          /\ postings' = shared.upserted /\ shared' = NoShared /\ today' = today
      BY <1>5, CommitSharedFacts
    <2>2. shared.day \in 1 .. today
      BY <2>1 DEF SharedInv
    <2>3. ASSUME NEW j \in Jobs
          PROVE  /\ shared.upserted[j].first <= today
                 /\ shared.upserted[j].active => shared.upserted[j].first > 0
      BY <1>1, <2>1, <2>2 DEF SharedInv
    <2> QED
      BY <2>1, <2>3 DEF SharedInv, NoShared
  <1>6. CASE FailShared
    BY <1>1, <1>6 DEF FailShared, Fault, SharedInv, NoShared
  <1>7. UNCHANGED <<postings, shared>> \/ SharedRefresh
    BY DEF Next, Midnight, vars, globals, PersonalRefresh, StageConfig, BuildMatches,
           BeginPublication, WritePublication, CommitPublication, FailRefresh, Fault,
           StatusUpdate, BeginUpdate, UpsertStatus, UpsertSame, CommitStatus, AbortStatus,
           SetTx, StartsRefresh, CommitShared, CollectShared, WriteShared, FailShared
  <1> QED
    BY <1>2, <1>3, <1>4, <1>5, <1>6, <1>7 DEF SharedRefresh

LEMMA PostingsStay ==
  ASSUME TypeInv, SharedInv, [Next]_vars, NEW j \in Jobs, postings[j].first > 0
  PROVE  postings'[j].first > 0
  <1>1. CASE CommitShared
    BY <1>1, CommitSharedFacts DEF SharedInv, TypeInv, SharedRows
  <1> QED
    BY <1>1, CommitSteps, CommitPublicationFacts, CommitStatusFacts DEF NoCommit

LEMMA RefreshSteps ==
  ASSUME TypeInv, [Next]_vars, NEW u \in Users
  PROVE  LET r == refresh'[u] IN
         \/ r = refresh[u]
         \/ r.at \in {"idle", "staged"} /\ r.matched = {}
         \/ r.at = "built" /\ \A j \in r.matched : postings[j].first > 0
         \/ r.at = "open" /\ r.matched = refresh[u].matched /\ r.day = today
         \/ WritePublication(u)
  <1>1. /\ refresh \in [Users -> RefreshRows] /\ refresh[u] \in RefreshRows
    BY DEF TypeInv
  <1>2. ASSUME NEW v \in Users, PersonalRefresh(v), v # u
        PROVE  refresh'[u] = refresh[u]
    BY <1>1, <1>2 DEF PersonalRefresh, StageConfig, BuildMatches, BeginPublication,
       WritePublication, CommitPublication, FailRefresh, RefreshStep
  <1>3. NoRefresh.at = "idle" /\ NoRefresh.matched = {}
    BY DEF NoRefresh
  <1>4. CASE StageConfig(u)
    BY <1>1, <1>4 DEF StageConfig, RefreshStep, NoRefresh
  <1>5. ASSUME NEW matched \in SUBSET Jobs, BuildMatches(u, matched)
        PROVE  refresh'[u].at = "built" /\ \A j \in refresh'[u].matched : postings[j].first > 0
    BY <1>1, <1>5 DEF BuildMatches, RefreshStep, RefreshRows
  <1>6. CASE BeginPublication(u)
    BY <1>1, <1>6 DEF BeginPublication, RefreshStep, RefreshRows
  <1>7. CASE CommitPublication(u) \/ FailRefresh(u)
    BY <1>1, <1>3, <1>7 DEF CommitPublication, FailRefresh, RefreshStep
  <1>8. ASSUME NEW c \in Clients, StatusUpdate(c)
        PROVE  refresh' = refresh
    BY <1>8 DEF StatusUpdate, BeginUpdate, UpsertStatus, UpsertSame, CommitStatus,
                AbortStatus, SetTx, locals
  <1>9. CASE SharedRefresh \/ Midnight \/ UNCHANGED vars
    BY <1>9 DEF SharedRefresh, CollectShared, WriteShared, CommitShared, FailShared,
                Midnight, vars, locals
  <1> QED
    BY <1>2, <1>4, <1>5, <1>6, <1>7, <1>8, <1>9 DEF Next, PersonalRefresh

LEMMA PublicationStep ==
  ASSUME TypeInv, SharedInv, NEW u \in Users, PublicationInv(u), [Next]_vars
  PROVE  PublicationInv(u)'
  <1> DEFINE r == refresh'[u]
  <1>1. /\ today \in Nat \ {0} /\ today' \in {today, today + 1}
        /\ refresh[u] \in RefreshRows /\ refresh[u].day \in Nat /\ refresh[u].date \in Nat
        /\ refresh[u].matched \subseteq Jobs
    BY CommitSteps, CommitSharedFacts, CommitPublicationFacts, CommitStatusFacts
       DEF TypeInv, NoCommit, RefreshRows
  <1>2. \A j \in Jobs : postings[j].first > 0 => postings'[j].first > 0
    BY PostingsStay
  <1>3. matches'[u] = matches[u] \/ CommitPublication(u)
    <2>1. matches \in [Users -> MatchTable]
      BY DEF TypeInv
    <2>2. ASSUME NEW v \in Users, CommitPublication(v), v # u
          PROVE  matches'[u] = matches[u]
      BY <2>1, <2>2, CommitPublicationFacts
    <2> QED
      BY <2>2, CommitSteps, CommitSharedFacts, CommitStatusFacts DEF NoCommit
  <1>4. CASE CommitPublication(u)
    <2>1. /\ refresh[u].at = "written"
          /\ matches' = [matches EXCEPT ![u] = refresh[u].merged]
          /\ r = NoRefresh
      BY <1>4, CommitPublicationFacts
    <2>2. matches'[u] = refresh[u].merged
      BY <2>1 DEF TypeInv
    <2>3. \A j \in Jobs : refresh[u].merged[j].current => postings[j].first > 0
      BY <2>1 DEF PublicationInv
    <2>4. \A j \in Jobs : matches'[u][j].current => postings'[j].first > 0
      BY <1>2, <2>2, <2>3
    <2>5. r.at = "idle" /\ r.matched = {}
      BY <2>1 DEF NoRefresh
    <2> QED
      BY <2>4, <2>5 DEF PublicationInv
  <1>5. CASE matches'[u] = matches[u] /\ ~ WritePublication(u)
    <2>1. \A j \in Jobs : matches'[u][j].current => postings'[j].first > 0
      BY <1>2, <1>5 DEF PublicationInv
    <2>2. CASE r = refresh[u]
      <3>1. \A j \in Jobs : j \in r.matched => postings'[j].first > 0
        BY <1>2, <2>2 DEF PublicationInv
      <3>2. r.at \in {"open", "written"} => r.day \in 1 .. today'
        BY <1>1, <2>2 DEF PublicationInv
      <3>3. r.at = "written" =>
              /\ r.date \in r.day .. today'
              /\ \A j \in Jobs :
                   /\ r.merged[j].current => postings'[j].first > 0
                   /\ \/ r.merged[j].first = matches'[u][j].first
                      \/ matches'[u][j].first = 0 /\ r.merged[j].first = r.day
        BY <1>1, <1>2, <1>5, <2>2 DEF PublicationInv
      <3> QED
        BY <2>1, <3>1, <3>2, <3>3 DEF PublicationInv
    <2>3. CASE r.at \in {"idle", "staged"} /\ r.matched = {}
      BY <2>1, <2>3 DEF PublicationInv
    <2>4. CASE r.at = "built" /\ \A j \in r.matched : postings[j].first > 0
      BY <1>2, <2>1, <2>4 DEF PublicationInv
    <2>5. CASE r.at = "open" /\ r.matched = refresh[u].matched /\ r.day = today
      <3>1. r.day \in 1 .. today'
        BY <1>1, <2>5
      <3>2. \A j \in Jobs : j \in r.matched => postings'[j].first > 0
        BY <1>2, <2>5 DEF PublicationInv
      <3> QED
        BY <2>1, <2>5, <3>1, <3>2 DEF PublicationInv
    <2> QED
      BY <1>5, <2>2, <2>3, <2>4, <2>5, RefreshSteps
  <1>6. CASE WritePublication(u)
    <2>1. /\ refresh[u].at = "open" /\ r.at = "written" /\ r.date = today
          /\ r.day = refresh[u].day /\ r.matched = refresh[u].matched
          /\ r.merged = Merged(u)
          /\ UNCHANGED <<today, postings, matches>>
      BY <1>6, WriteFacts DEF NoCommit
    <2>2. refresh[u].day \in 1 .. today
      BY <2>1 DEF PublicationInv
    <2>3. matches[u] \in MatchTable /\ postings \in PostingTable
      BY DEF TypeInv
    <2>4. ASSUME NEW j \in Jobs
          PROVE  /\ Merged(u)[j].current => postings[j].first > 0
                 /\ \/ Merged(u)[j].first = matches[u][j].first
                    \/ matches[u][j].first = 0 /\ Merged(u)[j].first = refresh[u].day
      BY <2>3 DEF Merged, SharedInv
    <2> HIDE DEF r
    <2> QED
      BY <1>1, <2>1, <2>2, <2>4 DEF PublicationInv, r
  <1> QED
    BY <1>3, <1>4, <1>5, <1>6

LEMMA CommitDaysHold ==
  ASSUME TablesInv
  PROVE  CommitDays
  <1>1. shared.at = "written" => shared.date \in 1 .. today
    <2>1. shared \in SharedRows /\ today \in Nat
      BY DEF TablesInv, TypeInv
    <2> QED
      BY <2>1 DEF TablesInv, SharedInv, SharedRows
  <1>2. ASSUME NEW u \in Users, refresh[u].at = "written"
        PROVE  refresh[u].date \in 1 .. today
    <2>1. refresh[u] \in RefreshRows /\ today \in Nat
      BY DEF TablesInv, TypeInv
    <2> QED
      BY <1>2, <2>1 DEF TablesInv, PublicationInv, RefreshRows
  <1>3. ASSUME NEW c \in Clients, Written(c)
        PROVE  tx[c].day \in 1 .. today
    BY <1>3 DEF TablesInv, TxInv, Written
  <1> QED
    BY <1>1, <1>2, <1>3 DEF CommitDays

LEMMA TablesInit == Init => TablesInv /\ StatusHistoryChains
  <1> SUFFICES ASSUME Init PROVE TablesInv /\ StatusHistoryChains
    OBVIOUS
  <1>1. TypeInv
    BY TypeInit
  <1>2. /\ \A c \in Clients : tx[c].at = "idle"
        /\ \A u \in Users : refresh[u].at = "idle" /\ refresh[u].matched = {}
        /\ shared.at = "idle"
        /\ \A u \in Users, j \in Jobs : ~ matches[u][j].current
    BY DEF Init, NoTx, NoRefresh, NoShared, NoMatch
  <1>3. \A j \in Jobs : postings[j].first <= today /\ ~ postings[j].active
    BY DEF Init
  <1>4. Exclusive /\ TxInv
    BY <1>2 DEF Exclusive, TxInv, Written
  <1>5. SharedInv
    BY <1>2, <1>3 DEF SharedInv
  <1>6. \A u \in Users : PublicationInv(u)
    BY <1>2 DEF PublicationInv
  <1>7. StatusHistoryChains
    BY DEF Init, StatusHistoryChains
  <1> QED
    BY <1>1, <1>4, <1>5, <1>6, <1>7 DEF TablesInv

LEMMA TablesStep ==
  ASSUME TablesInv, [Next]_vars
  PROVE  TablesInv'
  <1>1. CommitDays
    BY CommitDaysHold
  <1>2. TypeInv'
    BY <1>1, TypeStep DEF TablesInv
  <1>3. Exclusive' /\ TxInv'
    BY ExclusiveStep, TxStep DEF TablesInv
  <1>4. SharedInv'
    BY SharedStep DEF TablesInv
  <1>5. \A u \in Users : PublicationInv(u)'
    BY PublicationStep DEF TablesInv
  <1> QED
    BY <1>2, <1>3, <1>4, <1>5 DEF TablesInv

(* The dashboard's tables keep their types, and what transactions in       *)
(* flight have read or locked stays as they found it.                      *)
THEOREM TablesAreConsistent == Spec => []TablesInv
  <1> QED
    BY TablesInit, TablesStep, PTL DEF Spec

(* The events of a job are one chain that starts at nothing, changes the   *)
(* status at each link and ends at the current status: no update that      *)
(* races another, or fails, is lost or repeated in the history.            *)
THEOREM HistoryChains == Spec => []StatusHistoryChains
  <1>1. TablesInv /\ StatusHistoryChains /\ [Next]_vars
          => (TablesInv /\ StatusHistoryChains)'
    BY TablesStep, ChainsStep DEF TablesInv
  <1> QED
    BY <1>1, TablesInit, PTL DEF Spec

-----------------------------------------------------------------------------
(* First applications *)

LEMMA DaysAppliedAppend ==
  ASSUME NEW h \in Seq(EventRows), NEW event \in EventRows
  PROVE  /\ DaysApplied(Append(h, event)) =
              DaysApplied(h) \union {d \in {event.day} : event.new \in AppliedStatus}
         /\ DaysApplied(h) \subseteq Nat
  <1> DEFINE g == Append(h, event)
  <1>1. /\ Len(h) \in Nat /\ DOMAIN g = 1 .. Len(h) + 1 /\ DOMAIN h = 1 .. Len(h)
        /\ g[Len(h) + 1] = event /\ \A i \in 1 .. Len(h) : g[i] = h[i]
    OBVIOUS
  <1>2. DOMAIN g = DOMAIN h \union {Len(h) + 1} /\ Len(h) + 1 \notin DOMAIN h
    BY <1>1
  <1>3. \A i \in DOMAIN h : h[i] \in EventRows
    BY <1>1
  <1>4. \A i \in DOMAIN h : h[i].day \in Nat
    BY <1>3 DEF EventRows
  <1> HIDE DEF g
  <1>5. DaysApplied(g) =
          DaysApplied(h) \union {d \in {event.day} : event.new \in AppliedStatus}
    BY <1>1, <1>2 DEF DaysApplied
  <1> QED
    BY <1>4, <1>5 DEF g, DaysApplied

(* An event of another day makes no job's first application one of day d,  *)
(* and an event of a later day unmakes none.                               *)
LEMMA FirstAppliedAppend ==
  ASSUME NEW hs \in HistoryTable, NEW k \in Jobs, NEW event \in EventRows, NEW d \in Nat,
         event.day # d
  PROVE  LET after == [hs EXCEPT ![k] = Append(@, event)] IN
         /\ FirstApplied(after, d) \subseteq FirstApplied(hs, d)
         /\ d < event.day => FirstApplied(after, d) = FirstApplied(hs, d)
  <1> DEFINE after == [hs EXCEPT ![k] = Append(hs[k], event)]
  <1>1. hs[k] \in Seq(EventRows) /\ event.day \in Nat
    BY DEF HistoryTable, EventRows
  <1>2. after[k] = Append(hs[k], event) /\ \A j \in Jobs : j # k => after[j] = hs[j]
    BY DEF HistoryTable
  <1>3. /\ DaysApplied(after[k]) =
             DaysApplied(hs[k]) \union {e \in {event.day} : event.new \in AppliedStatus}
        /\ DaysApplied(hs[k]) \subseteq Nat
    BY <1>1, <1>2, DaysAppliedAppend
  <1>4. FirstAppliedOn(after[k], d) => FirstAppliedOn(hs[k], d)
    BY <1>3 DEF FirstAppliedOn
  <1>5. d < event.day /\ FirstAppliedOn(hs[k], d) => FirstAppliedOn(after[k], d)
    <2> SUFFICES ASSUME d < event.day, FirstAppliedOn(hs[k], d)
                 PROVE  \A e \in DaysApplied(after[k]) : d <= e
      BY <1>3 DEF FirstAppliedOn
    <2> QED
      BY <1>1, <1>3 DEF FirstAppliedOn
  <1> HIDE DEF after
  <1>6. FirstApplied(after, d) \subseteq FirstApplied(hs, d)
    BY <1>2, <1>4 DEF FirstApplied
  <1>7. d < event.day => FirstApplied(after, d) = FirstApplied(hs, d)
    BY <1>2, <1>4, <1>5 DEF FirstApplied
  <1> QED
    BY <1>6, <1>7 DEF after

LEMMA CountedLess ==
  ASSUME NEW row \in UserRows, NEW hs, NEW after, NEW d, Counted(row, hs, d),
         FirstApplied(after, d) \subseteq FirstApplied(hs, d)
  PROVE  Counted(row, after, d)
  <1>1. /\ Cardinality(FirstApplied(hs, d)) \in Nat
        /\ Cardinality(FirstApplied(after, d)) \in Nat
        /\ Cardinality(FirstApplied(after, d)) <= Cardinality(FirstApplied(hs, d))
    <2>1. FirstApplied(hs, d) \subseteq Jobs /\ FirstApplied(after, d) \subseteq Jobs
      BY DEF FirstApplied
    <2> QED
      BY <2>1, JobSets
  <1>2. row.newApplied \in Nat
    BY DEF UserRows
  <1> QED
    BY <1>1, <1>2 DEF Counted

LEMMA RowCounts ==
  ASSUME NEW d, NEW ms, NEW st, NEW hs
  PROVE  Counted(UserRow(d, ms, st, hs), hs, d)
  <1>1. UserRow(d, ms, st, hs).newApplied = Cardinality(FirstApplied(hs, d))
    BY DEF UserRow, FirstApplied
  <1>2. Cardinality(FirstApplied(hs, d)) \in Nat
    BY JobSets DEF FirstApplied
  <1> QED
    BY <1>1, <1>2 DEF Counted

-----------------------------------------------------------------------------
(* The tables of one user *)

UserSame(u) ==
  /\ matches'[u] = matches[u] /\ status'[u] = status[u]
  /\ history'[u] = history[u] /\ umetrics'[u] = umetrics[u]

LEMMA UserSteps ==
  ASSUME TypeInv, [Next]_vars, NEW u \in Users
  PROVE  \/ UserSame(u) \/ CommitPublication(u)
         \/ \E c \in Clients : CommitStatus(c) /\ tx[c].user = u
  <1>1. /\ matches \in [Users -> MatchTable] /\ DOMAIN umetrics = Users
        /\ status \in [Users -> StatusTable] /\ history \in [Users -> HistoryTable]
    BY DEF TypeInv
  <1>2. ASSUME NEW v \in Users, CommitPublication(v), v # u
        PROVE  UserSame(u)
    <2>1. /\ matches' = [matches EXCEPT ![v] = refresh[v].merged]
          /\ umetrics' = [umetrics EXCEPT ![v] = Put(umetrics[v], refresh[v].date,
                                                     refresh[v].row)]
          /\ UNCHANGED <<status, history>>
      BY <1>2, CommitPublicationFacts
    <2> QED
      BY <1>1, <1>2, <2>1 DEF UserSame
  <1>3. ASSUME NEW c \in Clients, CommitStatus(c), tx[c].user # u
        PROVE  UserSame(u)
    <2>1. LET t == tx[c] IN
          /\ status' = [status EXCEPT ![t.user] = StatusAfter(c)]
          /\ history' = [history EXCEPT ![t.user] = HistoryAfter(c)]
          /\ umetrics' = [umetrics EXCEPT ![t.user] = Put(umetrics[t.user], t.day, t.row)]
          /\ UNCHANGED matches
      BY <1>3, CommitStatusFacts
    <2> QED
      BY <1>1, <1>3, <2>1 DEF UserSame
  <1> QED
    BY <1>2, <1>3, CommitSteps, CommitSharedFacts DEF NoCommit, UserSame

LEMMA PublishedUser ==
  ASSUME TypeInv, NEW u \in Users, CommitPublication(u)
  PROVE  /\ matches'[u] = refresh[u].merged
         /\ umetrics'[u] = Put(umetrics[u], refresh[u].date, refresh[u].row)
         /\ status'[u] = status[u] /\ history'[u] = history[u]
  BY CommitPublicationFacts DEF TypeInv

LEMMA UpdatedUser ==
  ASSUME TypeInv, NEW c \in Clients, CommitStatus(c)
  PROVE  LET t == tx[c] IN
         /\ t.user \in Users /\ matches'[t.user] = matches[t.user]
         /\ status'[t.user] = StatusAfter(c) /\ history'[t.user] = HistoryAfter(c)
         /\ umetrics'[t.user] = Put(umetrics[t.user], t.day, t.row)
  <1>1. tx[c].user \in Users
    BY CommitStatusFacts DEF WrittenTx
  <1>2. LET t == tx[c] IN
        /\ status' = [status EXCEPT ![t.user] = StatusAfter(c)]
        /\ history' = [history EXCEPT ![t.user] = HistoryAfter(c)]
        /\ umetrics' = [umetrics EXCEPT ![t.user] = Put(umetrics[t.user], t.day, t.row)]
        /\ UNCHANGED matches
    BY CommitStatusFacts
  <1> QED
    BY <1>1, <1>2 DEF TypeInv

-----------------------------------------------------------------------------
(* No first application goes uncounted *)

(* An update in flight, when another one of its user commits *)
LEMMA OtherUpdate ==
  ASSUME TablesInv, NEW c \in Clients, NEW e \in Clients, e # c, Written(c),
         CommitStatus(e), tx[e].user = tx[c].user
  PROVE  /\ HistoryAfter(c) \in HistoryTable
         /\ HistoryAfter(c)' =
              [HistoryAfter(c) EXCEPT ![tx[e].job] = Append(@, tx[e].event)]
         /\ tx[e].job \in Jobs /\ tx[e].event \in EventRows
         /\ tx[e].event.day = tx[e].day /\ tx[e].day # tx[c].day
  <1> DEFINE u == tx[c].user
             h == history[u]
             j == tx[c].job
             k == tx[e].job
  <1>1. tx[e] \in WrittenTx /\ Written(e) /\ tx'[c] = tx[c] /\ history'[u] = HistoryAfter(e)
    BY CommitStatusFacts, UpdatedUser DEF TablesInv
  <1>2. tx[c] \in WrittenTx
    BY DEF TablesInv, TypeInv, Written, NoTx, OpenTx
  <1>3. k # j /\ tx[e].day # tx[c].day
    BY <1>1 DEF TablesInv, Exclusive
  <1>4. /\ j \in Jobs /\ k \in Jobs /\ u \in Users /\ tx[e].event \in EventRows
        /\ tx[c].event \in EventRows
    BY <1>1, <1>2 DEF WrittenTx
  <1>5. tx[e].event.day = tx[e].day
    BY <1>1 DEF TablesInv, TxInv
  <1>6. h \in HistoryTable
    BY <1>4 DEF TablesInv, TypeInv
  <1>7. HistoryAfter(e) = [h EXCEPT ![k] = Append(h[k], tx[e].event)]
    BY DEF HistoryAfter
  <1>8. HistoryAfter(c) = [h EXCEPT ![j] = Append(h[j], tx[c].event)]
        /\ HistoryAfter(c) \in HistoryTable
    BY <1>4, <1>6 DEF HistoryAfter, HistoryTable
  <1>9. HistoryAfter(c)' = [HistoryAfter(e) EXCEPT ![j] = Append(HistoryAfter(e)[j],
                                                                tx[c].event)]
    BY <1>1 DEF HistoryAfter
  <1> HIDE DEF h, j, k, u
  <1>10. HistoryAfter(e)[j] = h[j] /\ HistoryAfter(c)[k] = h[k]
    BY <1>3, <1>4, <1>6, <1>7, <1>8 DEF HistoryTable
  <1>11. HistoryAfter(c)' = [HistoryAfter(c) EXCEPT ![k] = Append(HistoryAfter(c)[k],
                                                                 tx[e].event)]
    <2>1. DOMAIN h = Jobs
      BY <1>6 DEF HistoryTable
    <2> DEFINE a == Append(h[j], tx[c].event)
               b == Append(h[k], tx[e].event)
    <2> HIDE DEF a, b
    <2>2. [[h EXCEPT ![k] = b] EXCEPT ![j] = a] = [[h EXCEPT ![j] = a] EXCEPT ![k] = b]
      BY <1>3, <1>4, <2>1
    <2>3. HistoryAfter(c)' = [[h EXCEPT ![k] = b] EXCEPT ![j] = a]
      BY <1>7, <1>9, <1>10 DEF a, b
    <2>4. [HistoryAfter(c) EXCEPT ![k] = Append(HistoryAfter(c)[k], tx[e].event)] =
            [[h EXCEPT ![j] = a] EXCEPT ![k] = b]
      BY <1>8, <1>10 DEF a, b
    <2> QED
      BY <2>2, <2>3, <2>4
  <1> QED
    BY <1>3, <1>4, <1>5, <1>8, <1>11 DEF k

LEMMA TxCounted ==
  ASSUME TablesInv, CountedInv, [Next]_vars, NEW c \in Clients, Written(c)'
  PROVE  Counted(tx'[c].row, HistoryAfter(c)', tx'[c].day)
  <1> USE DEF TablesInv
  <1>1. CASE UpsertStatus(c)
    <2>1. /\ tx'[c].row = UserRow(tx[c].day, matches[tx[c].user], StatusAfter(c)',
                                 HistoryAfter(c)')
          /\ tx'[c].day = tx[c].day
      BY <1>1, UpsertFacts
    <2> QED
      BY <2>1, RowCounts
  <1>2. CASE ~ UpsertStatus(c)
    <2>1. tx'[c] = tx[c] /\ Written(c)
      <3>1. ASSUME NEW u \in Users, WritePublication(u) PROVE tx'[c] = tx[c]
        BY <3>1, WriteFacts
      <3>2. ASSUME NEW e \in Clients, UpsertStatus(e) PROVE tx'[c] = tx[c]
        BY <1>2, <3>2, UpsertFacts
      <3>3. tx'[c] = tx[c]
        BY <3>1, <3>2, WriteSteps DEF NoWrite
      <3> QED
        BY <3>3 DEF Written
    <2>2. tx[c] \in WrittenTx /\ tx[c].row \in UserRows /\ tx[c].user \in Users
          /\ tx[c].day \in Nat
      BY <2>1 DEF TypeInv, Written, NoTx, OpenTx, WrittenTx
    <2>3. Counted(tx[c].row, HistoryAfter(c), tx[c].day)
      BY <2>1 DEF CountedInv
    <2>4. CASE history'[tx[c].user] = history[tx[c].user]
      <3>1. HistoryAfter(c)' = HistoryAfter(c)
        BY <2>1, <2>4 DEF HistoryAfter
      <3> QED
        BY <2>1, <2>3, <3>1
    <2>5. ASSUME NEW e \in Clients, CommitStatus(e), tx[e].user = tx[c].user
          PROVE  Counted(tx'[c].row, HistoryAfter(c)', tx'[c].day)
      <3>1. e # c
        BY <2>1, <2>5, CommitStatusFacts DEF Written, NoTx
      <3>2. /\ HistoryAfter(c) \in HistoryTable
            /\ HistoryAfter(c)' =
                 [HistoryAfter(c) EXCEPT ![tx[e].job] = Append(@, tx[e].event)]
            /\ tx[e].job \in Jobs /\ tx[e].event \in EventRows
            /\ tx[e].event.day # tx[c].day
        BY <2>1, <2>5, <3>1, OtherUpdate
      <3>3. FirstApplied(HistoryAfter(c)', tx[c].day)
              \subseteq FirstApplied(HistoryAfter(c), tx[c].day)
        BY <2>2, <3>2, FirstAppliedAppend
      <3>4. Counted(tx[c].row, HistoryAfter(c)', tx[c].day)
        BY <2>2, <2>3, <3>3, CountedLess
      <3> QED
        BY <2>1, <3>4
    <2> QED
      BY <2>2, <2>4, <2>5, UserSteps, PublishedUser DEF UserSame
  <1> QED
    BY <1>1, <1>2

(* An update that commits leaves the first applications of another day. *)
LEMMA UpdateHistory ==
  ASSUME TablesInv, NEW c \in Clients, CommitStatus(c), NEW d \in Nat, d # tx[c].day
  PROVE  LET u == tx[c].user IN
         /\ FirstApplied(history'[u], d) \subseteq FirstApplied(history[u], d)
         /\ d < tx[c].day => FirstApplied(history'[u], d) = FirstApplied(history[u], d)
  <1>1. tx[c] \in WrittenTx /\ Written(c) /\ history'[tx[c].user] = HistoryAfter(c)
    BY CommitStatusFacts, UpdatedUser DEF TablesInv
  <1>2. /\ tx[c].user \in Users /\ tx[c].job \in Jobs /\ tx[c].event \in EventRows
        /\ tx[c].event.day = tx[c].day
    BY <1>1 DEF WrittenTx, TablesInv, TxInv
  <1>3. history[tx[c].user] \in HistoryTable
    BY <1>2 DEF TablesInv, TypeInv
  <1>4. /\ FirstApplied(HistoryAfter(c), d) \subseteq FirstApplied(history[tx[c].user], d)
        /\ d < tx[c].day =>
             FirstApplied(HistoryAfter(c), d) = FirstApplied(history[tx[c].user], d)
    BY <1>2, <1>3, FirstAppliedAppend DEF HistoryAfter
  <1> QED
    BY <1>1, <1>4

LEMMA RefreshCounted ==
  ASSUME TablesInv, CountedInv, [Next]_vars, NEW u \in Users, refresh'[u].at = "written"
  PROVE  Counted(refresh'[u].row, history'[u], refresh'[u].date)
  <1> USE DEF TablesInv
  <1>1. CASE WritePublication(u)
    <2>1. /\ refresh'[u].row = UserRow(today, Merged(u), status[u], history[u])
          /\ refresh'[u].date = today /\ history' = history
      BY <1>1, WriteFacts DEF NoCommit
    <2> QED
      BY <2>1, RowCounts
  <1>2. CASE refresh'[u] = refresh[u]
    <2>1. /\ refresh[u] \in RefreshRows /\ refresh[u].row \in UserRows
          /\ refresh[u].date \in Nat
      BY <1>2 DEF TypeInv, RefreshRows
    <2>2. Counted(refresh[u].row, history[u], refresh[u].date)
      BY <1>2 DEF CountedInv
    <2>3. CASE history'[u] = history[u]
      BY <1>2, <2>2, <2>3
    <2>4. ASSUME NEW e \in Clients, CommitStatus(e), tx[e].user = u
          PROVE  Counted(refresh'[u].row, history'[u], refresh'[u].date)
      <3>1. Written(e)
        BY <2>4, CommitStatusFacts
      <3>2. refresh[u].date # tx[e].day
        BY <1>2, <2>4, <3>1 DEF Exclusive
      <3>3. FirstApplied(history'[u], refresh[u].date)
              \subseteq FirstApplied(history[u], refresh[u].date)
        BY <2>1, <2>4, <3>2, UpdateHistory
      <3>4. Counted(refresh[u].row, history'[u], refresh[u].date)
        BY <2>1, <2>2, <3>3, CountedLess
      <3> QED
        BY <1>2, <3>4
    <2> QED
      BY <2>3, <2>4, UserSteps, PublishedUser DEF UserSame
  <1> QED
    BY <1>1, <1>2, RefreshSteps

LEMMA DaysCounted ==
  ASSUME TablesInv, CountedInv, [Next]_vars, NEW u \in Users, NEW d \in Nat,
         FirstApplied(history'[u], d) # {}
  PROVE  d \in DOMAIN umetrics'[u] /\ Counted(umetrics'[u][d], history'[u], d)
  <1> USE DEF TablesInv
  <1>1. FirstApplied(history[u], d) # {} =>
          d \in DOMAIN umetrics[u] /\ Counted(umetrics[u][d], history[u], d)
    BY DEF CountedInv
  <1>2. \A k \in DOMAIN umetrics[u] : umetrics[u][k] \in UserRows
    BY DEF TypeInv, Dated
  <1>3. CASE UserSame(u)
    BY <1>1, <1>3 DEF UserSame
  <1>4. CASE CommitPublication(u)
    <2>1. /\ refresh[u].at = "written"
          /\ umetrics'[u] = Put(umetrics[u], refresh[u].date, refresh[u].row)
          /\ history'[u] = history[u]
      BY <1>4, CommitPublicationFacts, PublishedUser
    <2>2. Counted(refresh[u].row, history[u], refresh[u].date)
      BY <2>1 DEF CountedInv
    <2>3. CASE d = refresh[u].date
      BY <2>1, <2>2, <2>3 DEF Put
    <2>4. CASE d # refresh[u].date
      <3>1. d \in DOMAIN umetrics[u] /\ Counted(umetrics[u][d], history[u], d)
        BY <1>1, <2>1
      <3>2. d \in DOMAIN umetrics'[u] /\ umetrics'[u][d] = umetrics[u][d]
        BY <2>1, <2>4, <3>1 DEF Put
      <3> QED
        BY <2>1, <3>1, <3>2
    <2> QED
      BY <2>3, <2>4
  <1>5. ASSUME NEW c \in Clients, CommitStatus(c), tx[c].user = u
        PROVE  d \in DOMAIN umetrics'[u] /\ Counted(umetrics'[u][d], history'[u], d)
    <2>1. /\ Written(c) /\ history'[u] = HistoryAfter(c)
          /\ umetrics'[u] = Put(umetrics[u], tx[c].day, tx[c].row)
      BY <1>5, CommitStatusFacts, UpdatedUser
    <2>2. Counted(tx[c].row, HistoryAfter(c), tx[c].day)
      BY <2>1 DEF CountedInv
    <2>3. CASE d = tx[c].day
      BY <2>1, <2>2, <2>3 DEF Put
    <2>4. CASE d # tx[c].day
      <3>1. FirstApplied(history'[u], d) \subseteq FirstApplied(history[u], d)
        BY <1>5, <2>4, UpdateHistory
      <3>2. d \in DOMAIN umetrics[u] /\ Counted(umetrics[u][d], history[u], d)
        BY <1>1, <3>1
      <3>3. Counted(umetrics[u][d], history'[u], d)
        BY <1>2, <3>1, <3>2, CountedLess
      <3>4. d \in DOMAIN umetrics'[u] /\ umetrics'[u][d] = umetrics[u][d]
        BY <2>1, <2>4, <3>2 DEF Put
      <3> QED
        BY <3>3, <3>4
    <2> QED
      BY <2>3, <2>4
  <1> QED
    BY <1>3, <1>4, <1>5, UserSteps

LEMMA CountedStep ==
  ASSUME TablesInv, CountedInv, [Next]_vars
  PROVE  CountedInv'
  <1>1. \A c \in Clients : Written(c)' => Counted(tx'[c].row, HistoryAfter(c)', tx'[c].day)
    BY TxCounted
  <1>2. \A u \in Users : refresh'[u].at = "written" =>
                          Counted(refresh'[u].row, history'[u], refresh'[u].date)
    BY RefreshCounted
  <1>3. \A u \in Users, d \in Nat :
          FirstApplied(history'[u], d) # {} =>
            d \in DOMAIN umetrics'[u] /\ Counted(umetrics'[u][d], history'[u], d)
    BY DaysCounted
  <1> QED
    BY <1>1, <1>2, <1>3 DEF CountedInv

-----------------------------------------------------------------------------
(* Commits on their day *)

LEMMA OnTime ==
  ASSUME TablesInv, [Next]_vars, ~ late'
  PROVE  /\ ~ late
         /\ CommitShared => shared.day = today /\ shared.date = today
         /\ \A u \in Users : CommitPublication(u) =>
                              refresh[u].day = today /\ refresh[u].date = today
         /\ \A c \in Clients : CommitStatus(c) => tx[c].day = today
  <1>1. ~ late
    BY CommitSteps, CommitSharedFacts, CommitPublicationFacts, CommitStatusFacts
       DEF NoCommit, TablesInv
  <1>2. today \in Nat
    BY DEF TablesInv, TypeInv
  <1>3. CommitShared => shared.day = today /\ shared.date = today
    <2> SUFFICES ASSUME CommitShared PROVE shared.day = today /\ shared.date = today
      OBVIOUS
    <2>1. shared.at = "written" /\ shared.day = today
      BY CommitSharedFacts DEF TablesInv
    <2>2. shared.date \in shared.day .. today
      BY <2>1 DEF TablesInv, SharedInv
    <2> QED
      BY <1>2, <2>1, <2>2
  <1>4. ASSUME NEW u \in Users, CommitPublication(u)
        PROVE  refresh[u].day = today /\ refresh[u].date = today
    <2>1. refresh[u].at = "written" /\ refresh[u].day = today
      BY <1>4, CommitPublicationFacts DEF TablesInv
    <2>2. refresh[u].date \in refresh[u].day .. today
      BY <2>1 DEF TablesInv, PublicationInv
    <2> QED
      BY <1>2, <2>1, <2>2
  <1>5. ASSUME NEW c \in Clients, CommitStatus(c)
        PROVE  tx[c].day = today
    BY <1>5, CommitStatusFacts DEF TablesInv
  <1> QED
    BY <1>1, <1>3, <1>4, <1>5

LEMMA TodayMoves ==
  ASSUME TypeInv, [Next]_vars
  PROVE  today \in Nat \ {0} /\ today' \in {today, today + 1}
  BY CommitSteps, CommitSharedFacts, CommitPublicationFacts, CommitStatusFacts
     DEF TypeInv, NoCommit

LEMMA TxPending ==
  ASSUME TablesInv, PendingInv, [Next]_vars, ~ late', NEW c \in Clients, Written(c)',
         tx'[c].day = today'
  PROVE  tx'[c].row = UserRow(today', matches'[tx'[c].user], StatusAfter(c)', HistoryAfter(c)')
  <1> USE DEF TablesInv
  <1>1. today \in Nat \ {0} /\ today' \in {today, today + 1}
    BY TodayMoves
  <1>2. CASE UpsertStatus(c)
    <2>1. /\ tx'[c].row = UserRow(tx[c].day, matches[tx[c].user], StatusAfter(c)',
                                 HistoryAfter(c)')
          /\ tx'[c].day = tx[c].day /\ tx'[c].user = tx[c].user /\ matches' = matches
      BY <1>2, UpsertFacts DEF NoCommit
    <2>2. tx[c].day = today'
      BY <2>1
    <2> QED
      BY <2>1, <2>2
  <1>3. CASE ~ UpsertStatus(c)
    <2>1. tx'[c] = tx[c] /\ Written(c)
      <3>1. ASSUME NEW u \in Users, WritePublication(u) PROVE tx'[c] = tx[c]
        BY <3>1, WriteFacts
      <3>2. ASSUME NEW e \in Clients, UpsertStatus(e) PROVE tx'[c] = tx[c]
        BY <1>3, <3>2, UpsertFacts
      <3>3. tx'[c] = tx[c]
        BY <3>1, <3>2, WriteSteps DEF NoWrite
      <3> QED
        BY <3>3 DEF Written
    <2>2. tx[c].day \in 1 .. today /\ tx[c].user \in Users
      BY <2>1 DEF TxInv, TypeInv, Written, NoTx, OpenTx, WrittenTx
    <2>3. today' = today /\ tx[c].day = today
      BY <1>1, <2>1, <2>2
    <2>4. tx[c].row = UserRow(today, matches[tx[c].user], StatusAfter(c), HistoryAfter(c))
      BY <2>1, <2>3 DEF PendingInv
    <2>5. UserSame(tx[c].user)
      <3>1. ASSUME CommitPublication(tx[c].user) PROVE FALSE
        <4>1. refresh[tx[c].user].at = "written" /\ refresh[tx[c].user].date = today
          BY <2>2, <3>1, OnTime, CommitPublicationFacts
        <4> QED
          BY <2>1, <2>3, <4>1 DEF Exclusive
      <3>2. ASSUME NEW e \in Clients, CommitStatus(e), tx[e].user = tx[c].user PROVE FALSE
        <4>1. tx[e].day = today /\ Written(e) /\ tx'[e] = NoTx
          BY <3>2, OnTime, CommitStatusFacts
        <4>2. e # c
          BY <2>1, <4>1 DEF Written, NoTx
        <4> QED
          BY <2>1, <2>3, <3>2, <4>1, <4>2 DEF Exclusive
      <3> QED
        BY <2>2, <3>1, <3>2, UserSteps
    <2>6. StatusAfter(c)' = StatusAfter(c) /\ HistoryAfter(c)' = HistoryAfter(c)
      BY <2>1, <2>5 DEF UserSame, StatusAfter, HistoryAfter
    <2>7. matches'[tx'[c].user] = matches[tx[c].user]
      BY <2>1, <2>5 DEF UserSame
    <2> QED
      BY <2>1, <2>3, <2>4, <2>6, <2>7
  <1> QED
    BY <1>2, <1>3

LEMMA RefreshPending ==
  ASSUME TablesInv, PendingInv, [Next]_vars, ~ late', NEW u \in Users,
         refresh'[u].at = "written", refresh'[u].date = today'
  PROVE  refresh'[u].row = UserRow(today', refresh'[u].merged, status'[u], history'[u])
  <1> USE DEF TablesInv
  <1>1. today \in Nat \ {0} /\ today' \in {today, today + 1}
    BY TodayMoves
  <1>2. CASE WritePublication(u)
    <2>1. /\ refresh'[u].row = UserRow(today, Merged(u), status[u], history[u])
          /\ refresh'[u].merged = Merged(u)
          /\ UNCHANGED <<today, status, history>>
      BY <1>2, WriteFacts DEF NoCommit
    <2> QED
      BY <2>1
  <1>3. CASE refresh'[u] = refresh[u]
    <2>1. refresh[u].date \in refresh[u].day .. today /\ refresh[u].date \in Nat
      BY <1>3 DEF PublicationInv, TypeInv, RefreshRows
    <2>2. today' = today /\ refresh[u].date = today
      BY <1>1, <1>3, <2>1 DEF TypeInv
    <2>3. refresh[u].row = UserRow(today, refresh[u].merged, status[u], history[u])
      BY <1>3, <2>2 DEF PendingInv
    <2>4. status'[u] = status[u] /\ history'[u] = history[u]
      <3>1. ASSUME NEW e \in Clients, CommitStatus(e), tx[e].user = u PROVE FALSE
        <4>1. tx[e].day = today /\ Written(e)
          BY <3>1, OnTime, CommitStatusFacts
        <4> QED
          BY <1>3, <2>2, <3>1, <4>1 DEF Exclusive
      <3> QED
        BY <3>1, UserSteps, PublishedUser DEF UserSame
    <2> QED
      BY <1>3, <2>2, <2>3, <2>4
  <1> QED
    BY <1>2, <1>3, RefreshSteps

LEMMA PendingStep ==
  ASSUME TablesInv, PendingInv, [Next]_vars, ~ late'
  PROVE  PendingInv'
  BY TxPending, RefreshPending DEF PendingInv

-----------------------------------------------------------------------------
(* Rows that are put on their day are exact *)

LEMMA GlobalPut ==
  ASSUME NEW rows, NEW d \in Nat, DOMAIN rows \subseteq 1 .. d,
         NEW ps \in PostingTable, NEW after \in PostingTable, GlobalRowsExact(rows, ps),
         \A j \in Jobs : \/ after[j].first = ps[j].first
                         \/ ps[j].first = 0 /\ after[j].first = d
  PROVE  GlobalRowsExact(Put(rows, d, GlobalRow(d, after)), after)
  <1> DEFINE new == Put(rows, d, GlobalRow(d, after))
  <1>1. /\ DOMAIN new = DOMAIN rows \union {d} /\ new[d] = GlobalRow(d, after)
        /\ \A k \in DOMAIN rows : k # d => new[k] = rows[k]
    BY DEF Put
  <1> HIDE DEF new
  <1>2. \A j \in Jobs : after[j].first > 0 => after[j].first \in DOMAIN new
    BY <1>1 DEF GlobalRowsExact, PostingTable
  <1>3. ASSUME NEW k \in DOMAIN new, k # d
        PROVE  /\ k \in DOMAIN rows /\ k < d /\ k > 0
               /\ new[k].newJobs = GlobalRow(k, after).newJobs
               /\ ~ Last(new, k)
    <2>1. k \in DOMAIN rows /\ k < d /\ k > 0
      BY <1>1, <1>3
    <2>2. {j \in Jobs : after[j].first = k} = {j \in Jobs : ps[j].first = k}
      BY <2>1
    <2>3. GlobalRow(k, after).newJobs = GlobalRow(k, ps).newJobs
      BY <2>2 DEF GlobalRow
    <2>4. new[k].newJobs = GlobalRow(k, ps).newJobs
      BY <1>1, <1>3, <2>1 DEF GlobalRowsExact
    <2>5. ~ Last(new, k)
      BY <1>1, <2>1 DEF Last
    <2> QED
      BY <2>1, <2>3, <2>4, <2>5
  <1>4. ASSUME NEW k \in DOMAIN new
        PROVE  /\ new[k].newJobs = GlobalRow(k, after).newJobs
               /\ Last(new, k) => new[k].jobs = GlobalRow(k, after).jobs
    BY <1>1, <1>3
  <1> QED
    BY <1>2, <1>4 DEF GlobalRowsExact, new

LEMMA UserPut ==
  ASSUME NEW rows, NEW d \in Nat, DOMAIN rows \subseteq 1 .. d,
         NEW ms \in MatchTable, NEW st, NEW hs, UserRowsExact(rows, ms, st, hs),
         NEW ms2 \in MatchTable, NEW st2, NEW hs2,
         \A j \in Jobs : \/ ms2[j].first = ms[j].first
                         \/ ms[j].first = 0 /\ ms2[j].first = d,
         \A k \in Nat : k < d => FirstApplied(hs2, k) = FirstApplied(hs, k)
  PROVE  UserRowsExact(Put(rows, d, UserRow(d, ms2, st2, hs2)), ms2, st2, hs2)
  <1> DEFINE new == Put(rows, d, UserRow(d, ms2, st2, hs2))
             now(k) == UserRow(k, ms2, st2, hs2)
             was(k) == UserRow(k, ms, st, hs)
  <1>1. /\ DOMAIN new = DOMAIN rows \union {d} /\ new[d] = now(d)
        /\ \A k \in DOMAIN rows : k # d => new[k] = rows[k]
    BY DEF Put
  <1> HIDE DEF new
  <1>2. \A j \in Jobs : ms2[j].first > 0 => ms2[j].first \in DOMAIN new
    BY <1>1 DEF UserRowsExact, MatchTable
  <1>3. ASSUME NEW k \in DOMAIN new, k # d
        PROVE  /\ new[k].newJobs = now(k).newJobs
               /\ new[k].newApplied = now(k).newApplied
               /\ ~ Last(new, k)
    <2>1. k \in DOMAIN rows /\ k \in Nat /\ k < d /\ k > 0
      BY <1>1, <1>3
    <2>2. {j \in Jobs : ms2[j].first = k} = {j \in Jobs : ms[j].first = k}
      BY <2>1
    <2>3. FirstApplied(hs2, k) = FirstApplied(hs, k)
      BY <2>1
    <2>4. now(k).newJobs = was(k).newJobs
      BY <2>2 DEF UserRow
    <2>5. now(k).newApplied = was(k).newApplied
      <3>1. /\ now(k).newApplied = Cardinality(FirstApplied(hs2, k))
            /\ was(k).newApplied = Cardinality(FirstApplied(hs, k))
        BY DEF UserRow, FirstApplied
      <3> QED
        BY <2>3, <3>1
    <2> HIDE DEF now
    <2>6. rows[k].newJobs = was(k).newJobs /\ rows[k].newApplied = was(k).newApplied
      BY <2>1 DEF UserRowsExact
    <2>7. ~ Last(new, k)
      BY <1>1, <2>1 DEF Last
    <2> HIDE DEF was
    <2> QED
      BY <1>1, <1>3, <2>1, <2>4, <2>5, <2>6, <2>7
  <1> HIDE DEF now
  <1>4. ASSUME NEW k \in DOMAIN new
        PROVE  /\ new[k].newJobs = now(k).newJobs
               /\ new[k].newApplied = now(k).newApplied
               /\ Last(new, k) => /\ new[k].jobs = now(k).jobs
                                  /\ new[k].applied = now(k).applied
                                  /\ new[k].interviews = now(k).interviews
    BY <1>1, <1>3
  <1> QED
    BY <1>2, <1>4 DEF UserRowsExact, new, now

LEMMA GlobalExactStep ==
  ASSUME TablesInv, GlobalExact, [Next]_vars, ~ late'
  PROVE  GlobalExact'
  <1> USE DEF TablesInv
  <1>1. CASE UNCHANGED <<postings, gmetrics>>
    BY <1>1 DEF GlobalExact
  <1>2. CASE CommitShared
    <2>1. /\ shared.at = "written" /\ shared.upserted \in PostingTable
          /\ postings' = shared.upserted
          /\ gmetrics' = Put(gmetrics, shared.date, shared.row)
      BY <1>2, CommitSharedFacts
    <2>2. shared.day = today /\ shared.date = today
      BY <1>2, OnTime
    <2>3. /\ today \in Nat /\ postings \in PostingTable /\ DOMAIN gmetrics \subseteq 1 .. today
      BY DEF TypeInv, Dated
    <2>4. ASSUME NEW j \in Jobs
          PROVE  \/ shared.upserted[j].first = postings[j].first
                 \/ postings[j].first = 0 /\ shared.upserted[j].first = today
      <3>1. postings[j].first <= today /\ postings[j].first \in Nat
        BY <2>3 DEF SharedInv, PostingTable
      <3> QED
        BY <2>1, <2>2, <2>3, <3>1 DEF SharedInv
    <2>5. shared.row = GlobalRow(today, shared.upserted)
      BY <2>1, <2>2 DEF SharedInv
    <2>6. GlobalRowsExact(Put(gmetrics, today, GlobalRow(today, shared.upserted)),
                          shared.upserted)
      BY <2>1, <2>3, <2>4, GlobalPut DEF GlobalExact
    <2> QED
      BY <2>1, <2>2, <2>5, <2>6 DEF GlobalExact
  <1> QED
    BY <1>1, <1>2, CommitSteps, CommitPublicationFacts, CommitStatusFacts DEF NoCommit

LEMMA UserExactStep ==
  ASSUME TablesInv, PendingInv, NEW u \in Users, UserExact(u), [Next]_vars, ~ late'
  PROVE  UserExact(u)'
  <1> USE DEF TablesInv
  <1>1. /\ today \in Nat /\ DOMAIN umetrics[u] \subseteq 1 .. today
        /\ matches[u] \in MatchTable
    BY DEF TypeInv, Dated
  <1>2. UserRowsExact(umetrics[u], matches[u], status[u], history[u])
    BY DEF UserExact
  <1>3. CASE UserSame(u)
    BY <1>2, <1>3 DEF UserSame, UserExact
  <1>4. CASE CommitPublication(u)
    <2> DEFINE r == refresh[u]
    <2>1. r.at = "written" /\ r.merged \in MatchTable
      BY <1>4, CommitPublicationFacts
    <2>2. r.day = today /\ r.date = today
      BY <1>4, OnTime
    <2>3. r.row = UserRow(today, r.merged, status[u], history[u])
      BY <2>1, <2>2 DEF PendingInv
    <2>4. \A j \in Jobs : \/ r.merged[j].first = matches[u][j].first
                          \/ matches[u][j].first = 0 /\ r.merged[j].first = today
      BY <2>1, <2>2 DEF PublicationInv
    <2>5. /\ matches'[u] = r.merged /\ umetrics'[u] = Put(umetrics[u], today, r.row)
          /\ status'[u] = status[u] /\ history'[u] = history[u]
      BY <1>4, <2>2, PublishedUser
    <2> HIDE DEF r
    <2>6. UserRowsExact(Put(umetrics[u], today,
                            UserRow(today, r.merged, status[u], history[u])),
                        r.merged, status[u], history[u])
      BY <1>1, <1>2, <2>1, <2>4, UserPut
    <2> QED
      BY <2>3, <2>5, <2>6 DEF UserExact
  <1>5. ASSUME NEW c \in Clients, CommitStatus(c), tx[c].user = u
        PROVE  UserExact(u)'
    <2>1. Written(c) /\ tx[c].day = today
      BY <1>5, OnTime, CommitStatusFacts
    <2>2. tx[c].row = UserRow(today, matches[u], StatusAfter(c), HistoryAfter(c))
      BY <1>5, <2>1 DEF PendingInv
    <2>3. /\ matches'[u] = matches[u] /\ umetrics'[u] = Put(umetrics[u], today, tx[c].row)
          /\ status'[u] = StatusAfter(c) /\ history'[u] = HistoryAfter(c)
      BY <1>5, <2>1, UpdatedUser
    <2>4. ASSUME NEW k \in Nat, k < today
          PROVE  FirstApplied(HistoryAfter(c), k) = FirstApplied(history[u], k)
      BY <1>1, <1>5, <2>1, <2>3, <2>4, UpdateHistory
    <2>5. UserRowsExact(Put(umetrics[u], today,
                            UserRow(today, matches[u], StatusAfter(c), HistoryAfter(c))),
                        matches[u], StatusAfter(c), HistoryAfter(c))
      BY <1>1, <1>2, <2>4, UserPut
    <2> QED
      BY <2>2, <2>3, <2>5 DEF UserExact
  <1> QED
    BY <1>3, <1>4, <1>5, UserSteps

LEMMA EmptyStep ==
  ASSUME TablesInv, GlobalEmpty, \A u \in Users : UserEmpty(u), [Next]_vars
  PROVE  GlobalEmpty' /\ \A u \in Users : UserEmpty(u)'
  <1> USE DEF TablesInv
  <1>1. CommitShared => DOMAIN gmetrics' # {}
    BY CommitSharedFacts DEF Put
  <1>2. GlobalEmpty'
    BY <1>1, CommitSteps, CommitPublicationFacts, CommitStatusFacts DEF NoCommit, GlobalEmpty
  <1>3. ASSUME NEW u \in Users
        PROVE  UserEmpty(u)'
    <2>1. CASE UserSame(u)
      BY <2>1 DEF UserSame, UserEmpty
    <2>2. CASE CommitPublication(u)
      <3>1. DOMAIN umetrics'[u] # {}
        BY <2>2, PublishedUser DEF Put
      <3> QED
        BY <3>1 DEF UserEmpty
    <2>3. ASSUME NEW c \in Clients, CommitStatus(c), tx[c].user = u
          PROVE  UserEmpty(u)'
      <3>1. DOMAIN umetrics'[u] # {}
        BY <2>3, UpdatedUser DEF Put
      <3> QED
        BY <3>1 DEF UserEmpty
    <2> QED
      BY <2>1, <2>2, <2>3, UserSteps
  <1> QED
    BY <1>2, <1>3

LEMMA MetricsInit == Init => MetricsInv
  <1> SUFFICES ASSUME Init PROVE MetricsInv
    OBVIOUS
  <1>1. DOMAIN <<>> = {}
    OBVIOUS
  <1>2. /\ DOMAIN gmetrics = {} /\ \A u \in Users : DOMAIN umetrics[u] = {}
        /\ \A j \in Jobs : postings[j].first = 0
        /\ \A u \in Users, j \in Jobs :
             /\ ~ matches[u][j].current /\ matches[u][j].first = 0
             /\ status[u][j] = "none" /\ history[u][j] = <<>>
    BY <1>1 DEF Init, NoMatch
  <1>3. /\ \A c \in Clients : ~ Written(c)
        /\ \A u \in Users : refresh[u].at # "written"
    BY DEF Init, NoTx, NoRefresh, Written
  <1>4. GlobalEmpty /\ \A u \in Users : UserEmpty(u)
    BY <1>2 DEF GlobalEmpty, UserEmpty
  <1>5. ASSUME NEW u \in Users, NEW d \in Nat
        PROVE  FirstApplied(history[u], d) = {}
    <2>1. \A j \in Jobs : DaysApplied(history[u][j]) = {}
      BY <1>1, <1>2 DEF DaysApplied
    <2> QED
      BY <2>1 DEF FirstApplied, FirstAppliedOn
  <1>6. CountedInv
    BY <1>3, <1>5 DEF CountedInv
  <1>7. PendingInv
    BY <1>3 DEF PendingInv
  <1>8. GlobalExact
    BY <1>2 DEF GlobalExact, GlobalRowsExact
  <1>9. \A u \in Users : UserExact(u)
    BY <1>2 DEF UserExact, UserRowsExact
  <1> QED
    BY <1>4, <1>6, <1>7, <1>8, <1>9 DEF MetricsInv

LEMMA MetricsStep ==
  ASSUME TablesInv, MetricsInv, [Next]_vars
  PROVE  MetricsInv'
  <1>1. GlobalEmpty' /\ \A u \in Users : UserEmpty(u)'
    BY EmptyStep DEF MetricsInv
  <1>2. CountedInv'
    BY CountedStep DEF MetricsInv
  <1>3. ASSUME ~ late'
        PROVE  PendingInv' /\ GlobalExact' /\ \A u \in Users : UserExact(u)'
    <2>1. ~ late
      BY <1>3, OnTime
    <2>2. PendingInv /\ GlobalExact /\ \A u \in Users : UserExact(u)
      BY <2>1 DEF MetricsInv
    <2> QED
      BY <1>3, <2>2, PendingStep, GlobalExactStep, UserExactStep
  <1> QED
    BY <1>1, <1>2, <1>3 DEF MetricsInv

(* The metrics and the tables they count agree, with what transactions in  *)
(* flight are about to change.                                             *)
THEOREM MetricsAgree == Spec => []DashboardInv
  <1>1. Init => DashboardInv
    BY TablesInit, MetricsInit DEF DashboardInv
  <1>2. DashboardInv /\ [Next]_vars => DashboardInv'
    BY TablesStep, MetricsStep DEF DashboardInv
  <1> QED
    BY <1>1, <1>2, PTL DEF Spec

-----------------------------------------------------------------------------
(* What the dashboard reads from the metrics *)

LEMMA LatestIs ==
  ASSUME NEW rows, NEW n \in Nat, DOMAIN rows \subseteq 1 .. n, DOMAIN rows # {}
  PROVE  \E d \in DOMAIN rows : Last(rows, d) /\ Latest(rows) = rows[d]
  <1> DEFINE S == DOMAIN rows
             d == CHOOSE k \in S : \A e \in S : e <= k
  <1>1. S \subseteq Nat /\ \A k \in S : k <= n
    OBVIOUS
  <1> HIDE DEF S
  <1>2. \E k \in S : \A e \in S : e <= k
    BY <1>1, Greatest DEF S
  <1>3. d \in S /\ \A e \in S : e <= d
    BY <1>2
  <1> QED
    BY <1>3 DEF S, Last, Latest

LEMMA FunnelFollows == DashboardInv => FunnelIsLive
  <1> SUFFICES ASSUME DashboardInv, ~ late PROVE FunnelIsLive
    BY DEF FunnelIsLive
  <1> USE DEF DashboardInv, TablesInv, MetricsInv
  <1>1. today \in Nat /\ DOMAIN gmetrics \subseteq 1 .. today
    BY DEF TypeInv, Dated
  <1>2. Cardinality({}) = 0
    BY FS_EmptySet
  <1>3. ASSUME NEW u \in Users
        PROVE  Funnel(u).global = Cardinality({j \in Jobs : postings[j].active})
    <2>1. CASE DOMAIN gmetrics = {}
      <3>1. {j \in Jobs : postings[j].active} = {}
        <4>1. \A j \in Jobs : postings[j].first = 0 /\ (postings[j].active => postings[j].first > 0)
          BY <2>1 DEF GlobalEmpty, SharedInv
        <4> QED
          BY <4>1
      <3>2. Funnel(u).global = 0
        BY <2>1 DEF Funnel
      <3> QED
        BY <1>2, <3>1, <3>2
    <2>2. CASE DOMAIN gmetrics # {}
      <3>1. PICK d \in DOMAIN gmetrics : Last(gmetrics, d) /\ Latest(gmetrics) = gmetrics[d]
        BY <1>1, <2>2, LatestIs
      <3>2. gmetrics[d].jobs = GlobalRow(d, postings).jobs
        BY <3>1 DEF GlobalExact, GlobalRowsExact
      <3>3. GlobalRow(d, postings).jobs = Cardinality({j \in Jobs : postings[j].active})
        BY DEF GlobalRow
      <3>4. Funnel(u).global = Latest(gmetrics).jobs
        BY <2>2 DEF Funnel
      <3> QED
        BY <3>1, <3>2, <3>3, <3>4
    <2> QED
      BY <2>1, <2>2
  <1>4. ASSUME NEW u \in Users
        PROVE  /\ Funnel(u).jobs = TotalJobs(u)
               /\ Funnel(u).applied = Cardinality(EverReached(u, AppliedStatus))
               /\ Funnel(u).interviews = Cardinality(EverReached(u, InterviewStatus))
    <2>1. DOMAIN umetrics[u] \subseteq 1 .. today
      BY DEF TypeInv, Dated
    <2>2. Visible(u) = {j \in Jobs : matches[u][j].current}
      BY DEF Visible, PublicationInv
    <2>3. CASE DOMAIN umetrics[u] = {}
      <3>1. \A j \in Jobs : /\ ~ matches[u][j].current
                            /\ status[u][j] = "none" /\ history[u][j] = <<>>
        BY <2>3 DEF UserEmpty
      <3>2. Visible(u) = {}
        BY <2>2, <3>1
      <3>3. DOMAIN <<>> = {}
        OBVIOUS
      <3>4. EverReached(u, AppliedStatus) = {} /\ EverReached(u, InterviewStatus) = {}
        BY <3>1, <3>3 DEF EverReached, Reached, AppliedStatus, InterviewStatus
      <3>5. Funnel(u).jobs = 0 /\ Funnel(u).applied = 0 /\ Funnel(u).interviews = 0
        BY <2>3 DEF Funnel
      <3> QED
        BY <1>2, <3>2, <3>4, <3>5 DEF TotalJobs
    <2>4. CASE DOMAIN umetrics[u] # {}
      <3>1. PICK d \in DOMAIN umetrics[u] :
              Last(umetrics[u], d) /\ Latest(umetrics[u]) = umetrics[u][d]
        BY <1>1, <2>1, <2>4, LatestIs
      <3> DEFINE now == UserRow(d, matches[u], status[u], history[u])
      <3>2. /\ umetrics[u][d].jobs = now.jobs
            /\ umetrics[u][d].applied = now.applied
            /\ umetrics[u][d].interviews = now.interviews
        BY <3>1 DEF UserExact, UserRowsExact
      <3>3. /\ now.jobs = TotalJobs(u)
            /\ now.applied = Cardinality(EverReached(u, AppliedStatus))
            /\ now.interviews = Cardinality(EverReached(u, InterviewStatus))
        BY <2>2 DEF UserRow, TotalJobs, EverReached
      <3>4. LET m == Latest(umetrics[u]) IN
            /\ Funnel(u).jobs = m.jobs /\ Funnel(u).applied = m.applied
            /\ Funnel(u).interviews = m.interviews
        BY <2>4 DEF Funnel
      <3> QED
        BY <3>1, <3>2, <3>3, <3>4
    <2> QED
      BY <2>3, <2>4
  <1> QED
    BY <1>3, <1>4 DEF FunnelIsLive

(* The funnel, read from the newest rows of the metrics, says of the       *)
(* postings, matches and applications what their own tables say, beside    *)
(* transactions in flight: unless something was committed after the day it *)
(* was opened or collected on.                                             *)
THEOREM FunnelStaysLive == Spec => []FunnelIsLive
  BY MetricsAgree, FunnelFollows, PTL

(* What a window shows: the rows in it, zero after a row, nothing before.  *)
LEMMA SeriesShows ==
  ASSUME NEW rows, NEW n \in Nat, DOMAIN rows \subseteq 1 .. n, NEW field,
         NEW from \in Nat, NEW to \in Nat, NEW d \in from .. to
  PROVE  Series(rows, field, from, to)[d] =
           IF d \in DOMAIN rows THEN {rows[d][field]}
           ELSE IF \E e \in DOMAIN rows : e <= d THEN {0} ELSE Unknown
  <1> DEFINE read == WindowRows(rows, from, to)
  <1>1. DOMAIN rows \subseteq Nat /\ d \in Nat /\ read \subseteq DOMAIN rows
    BY DEF WindowRows
  <1>2. d \in DOMAIN rows <=> d \in read
    BY <1>1 DEF WindowRows
  <1>3. ASSUME NEW e \in DOMAIN rows, e <= d
        PROVE  \E k \in read : k <= d
    <2>1. CASE e >= from
      <3>1. e \in from .. to
        BY <1>1, <1>3, <2>1
      <3> QED
        BY <1>3, <3>1 DEF WindowRows
    <2>2. CASE e < from
      <3> DEFINE before == {k \in DOMAIN rows : k < from}
      <3>1. /\ before \subseteq Nat /\ before # {} /\ \A k \in before : k <= from
        BY <1>1, <2>2
      <3>2. PICK k \in before : \A x \in before : x <= k
        <4> HIDE DEF before
        <4> QED
          BY <3>1, Greatest
      <3>3. k \in read
        BY <3>2 DEF WindowRows
      <3>4. k <= d
        BY <1>1, <3>2
      <3> QED
        BY <3>3, <3>4
    <2> QED
      BY <1>1, <2>1, <2>2
  <1>4. (\E e \in read : e <= d) <=> \E e \in DOMAIN rows : e <= d
    BY <1>1, <1>3
  <1>5. Series(rows, field, from, to)[d] = DailyNew(rows, read, field, d)
    BY DEF Series
  <1> HIDE DEF read
  <1> QED
    BY <1>2, <1>4, <1>5 DEF DailyNew

LEMMA TrendFollows == DashboardInv => TrendIsExact
  <1> SUFFICES ASSUME DashboardInv PROVE TrendIsExact
    OBVIOUS
  <1> USE DEF DashboardInv, TablesInv, MetricsInv
  <1>1. today \in Nat /\ DOMAIN gmetrics \subseteq 1 .. today
        /\ \A u \in Users : DOMAIN umetrics[u] \subseteq 1 .. today
    BY DEF TypeInv, Dated
  <1>2. \A d \in Days : d \in Nat /\ d > 0
    BY DashboardAssumption DEF Days
  <1>3. ASSUME NEW u \in Users, NEW d \in Days
        PROVE  LET first == {j \in Jobs : FirstAppliedOn(history[u][j], d)} IN
               first # {} => d \in DOMAIN umetrics[u]
                             /\ umetrics[u][d].newApplied >= Cardinality(first)
    <2> DEFINE first == {j \in Jobs : FirstAppliedOn(history[u][j], d)}
    <2>1. first = FirstApplied(history[u], d) /\ Cardinality(first) \in Nat
      BY JobSets DEF FirstApplied
    <2> HIDE DEF first
    <2>2. ASSUME first # {}
          PROVE  d \in DOMAIN umetrics[u]
                 /\ Cardinality(first) <= umetrics[u][d].newApplied
      BY <1>2, <2>1, <2>2 DEF CountedInv, Counted
    <2>3. d \in DOMAIN umetrics[u] => umetrics[u][d].newApplied \in Nat
      BY DEF TypeInv, Dated, UserRows
    <2> QED
      BY <2>1, <2>2, <2>3 DEF first
  <1>4. Cardinality({}) = 0
    BY FS_EmptySet
  <1>5. ASSUME ~ late, NEW from \in Days, NEW to \in Days, NEW d \in from .. to
        PROVE  Series(gmetrics, "newJobs", from, to)[d] =
                 IF \E e \in DOMAIN gmetrics : e <= d
                 THEN {Cardinality({j \in Jobs : postings[j].first = d})} ELSE Unknown
    <2>1. /\ from \in Nat /\ to \in Nat /\ d \in Nat /\ d > 0
      BY <1>2
    <2>2. Series(gmetrics, "newJobs", from, to)[d] =
            IF d \in DOMAIN gmetrics THEN {gmetrics[d]["newJobs"]}
            ELSE IF \E e \in DOMAIN gmetrics : e <= d THEN {0} ELSE Unknown
      BY <1>1, <2>1, SeriesShows
    <2>3. CASE d \in DOMAIN gmetrics
      <3>1. gmetrics[d].newJobs = GlobalRow(d, postings).newJobs
        BY <1>5, <2>3 DEF GlobalExact, GlobalRowsExact
      <3>2. GlobalRow(d, postings).newJobs = Cardinality({j \in Jobs : postings[j].first = d})
        BY DEF GlobalRow
      <3>3. d <= d
        BY <2>1
      <3> QED
        BY <2>2, <2>3, <3>1, <3>2, <3>3
    <2>4. CASE d \notin DOMAIN gmetrics
      <3>1. {j \in Jobs : postings[j].first = d} = {}
        BY <1>5, <2>1, <2>4 DEF GlobalExact, GlobalRowsExact
      <3> QED
        BY <1>4, <2>2, <2>4, <3>1
    <2> QED
      BY <2>3, <2>4
  <1>6. ASSUME ~ late, NEW u \in Users, NEW from \in Days, NEW to \in Days,
               NEW d \in from .. to
        PROVE  /\ Series(umetrics[u], "newJobs", from, to)[d] =
                    IF \E e \in DOMAIN umetrics[u] : e <= d
                    THEN {Cardinality({j \in Jobs : matches[u][j].first = d})} ELSE Unknown
               /\ Series(umetrics[u], "newApplied", from, to)[d] =
                    IF \E e \in DOMAIN umetrics[u] : e <= d
                    THEN {Cardinality({j \in Jobs : FirstAppliedOn(history[u][j], d)})}
                    ELSE Unknown
    <2> DEFINE rows == umetrics[u]
               newMatches == {j \in Jobs : matches[u][j].first = d}
               newApplications == {j \in Jobs : FirstAppliedOn(history[u][j], d)}
    <2>1. /\ from \in Nat /\ to \in Nat /\ d \in Nat /\ d > 0 /\ d <= d
          /\ DOMAIN rows \subseteq 1 .. today
      BY <1>1, <1>2
    <2> HIDE DEF rows
    <2>2. \A field : Series(rows, field, from, to)[d] =
            IF d \in DOMAIN rows THEN {rows[d][field]}
            ELSE IF \E e \in DOMAIN rows : e <= d THEN {0} ELSE Unknown
      BY <1>1, <2>1, SeriesShows
    <2>3. CASE d \in DOMAIN rows
      <3> DEFINE now == UserRow(d, matches[u], status[u], history[u])
      <3>1. rows[d].newJobs = now.newJobs /\ rows[d].newApplied = now.newApplied
        BY <1>6, <2>3 DEF UserExact, UserRowsExact, rows
      <3>2. now.newJobs = Cardinality(newMatches)
            /\ now.newApplied = Cardinality(newApplications)
        BY DEF UserRow
      <3> HIDE DEF now, newMatches, newApplications
      <3>3. /\ Series(rows, "newJobs", from, to)[d] = {Cardinality(newMatches)}
            /\ Series(rows, "newApplied", from, to)[d] = {Cardinality(newApplications)}
        BY <2>2, <2>3, <3>1, <3>2
      <3>4. \E e \in DOMAIN rows : e <= d
        BY <2>1, <2>3
      <3> QED
        BY <3>3, <3>4 DEF rows, newMatches, newApplications
    <2>4. CASE d \notin DOMAIN rows
      <3>1. newMatches = {}
        BY <1>6, <2>1, <2>4 DEF UserExact, UserRowsExact, rows
      <3>2. newApplications = {}
        BY <2>1, <2>4 DEF CountedInv, FirstApplied, rows
      <3> HIDE DEF newMatches, newApplications
      <3>3. /\ Series(rows, "newJobs", from, to)[d] =
                 IF \E e \in DOMAIN rows : e <= d THEN {Cardinality(newMatches)} ELSE Unknown
            /\ Series(rows, "newApplied", from, to)[d] =
                 IF \E e \in DOMAIN rows : e <= d THEN {Cardinality(newApplications)}
                 ELSE Unknown
        BY <1>4, <2>2, <2>4, <3>1, <3>2
      <3> QED
        BY <3>3 DEF rows, newMatches, newApplications
    <2> QED
      BY <2>3, <2>4
  <1> HIDE DEF DashboardInv, TablesInv, MetricsInv
  <1>7. \A u \in Users, d \in Days :
          LET first == {j \in Jobs : FirstAppliedOn(history[u][j], d)} IN
          first # {} => d \in DOMAIN umetrics[u]
                        /\ umetrics[u][d].newApplied >= Cardinality(first)
    BY <1>3
  <1>8. late \/ LET NewPostings(d) == Cardinality({j \in Jobs : postings[j].first = d})
                IN Exactly(gmetrics, "newJobs", NewPostings)
    BY <1>5 DEF Exactly
  <1>9. ASSUME ~ late, NEW u \in Users
        PROVE  LET NewMatches(d) == Cardinality({j \in Jobs : matches[u][j].first = d})
                   NewApplications(d) ==
                     Cardinality({j \in Jobs : FirstAppliedOn(history[u][j], d)})
               IN /\ Exactly(umetrics[u], "newJobs", NewMatches)
                  /\ Exactly(umetrics[u], "newApplied", NewApplications)
    BY <1>6, <1>9 DEF Exactly
  <1> QED
    BY <1>7, <1>8, <1>9 DEF TrendIsExact, Exactly

(* Dates before the first row are unknown, and every later date shows      *)
(* exactly what first happened on it, whatever the window asked for; a     *)
(* first application is missing from no day, late or not.                  *)
THEOREM TrendStaysExact == Spec => []TrendIsExact
  BY MetricsAgree, TrendFollows, PTL
=============================================================================
