----------------------- MODULE ConnectorRefreshProofs -----------------------
(***************************************************************************)
(* Theorems about ConnectorRefresh, for any number of workers, rows,       *)
(* writer slots and faults.  The inductive invariants build on each other: *)
(*   TypeInv   the types, and a worker has a row exactly while it works;   *)
(*   LockInv   the global lock is held exactly inside the "with" block;    *)
(*   PathInv   so what the holder published is what was published last.    *)
(*   OwnerInv  a claimed row has one owner;                                *)
(*   BackedInv what the owner has recorded so far is still there;          *)
(*   SlotInv   a slot is held exactly by who collects, or is personal.     *)
(***************************************************************************)
EXTENDS ConnectorRefresh, TLAPS

(* A worker has claimed a row exactly while it is in process_one.          *)
Claiming == \A w \in Workers : claimed[w] # 0 <=> cpc[w] \in Working

TypeInv == TypeOK /\ Claiming

-----------------------------------------------------------------------------

(* A worker keeps or loses its locks: the holders stay holders. *)
LEMMA RelinquishType ==
  ASSUME NEW locks \in [Slots -> Holders], NEW w, NEW as \in {Free, Dead}
  PROVE  Relinquish(locks, w, as) \in [Slots -> Holders]
  BY DEF Relinquish, Holders

LEMMA RelinquishOneType ==
  ASSUME NEW holder \in Holders, NEW w, NEW as \in {Free, Dead}
  PROVE  RelinquishOne(holder, w, as) \in Holders
  BY DEF RelinquishOne, Holders

LEMMA NewRowType ==
  ASSUME NEW s \in Statuses, NEW t \in Triggers
  PROVE  NewRow(s, t) \in Row
  BY DEF NewRow, Row

(* A row of the queue stays one when a transaction writes into it. *)
LEMMA RowWrites ==
  ASSUME NEW row \in Row
  PROVE  /\ \A a \in {"planned", "final"} : [row EXCEPT !.audit = a] \in Row
         /\ [row EXCEPT !.sources = TRUE] \in Row
         /\ \A s \in Statuses : [row EXCEPT !.status = s] \in Row
         /\ \A s \in Statuses, d \in BOOLEAN, n \in Nat :
              [row EXCEPT !.status = s, !.dbt = d, !.doneAt = n] \in Row
  BY DEF Row

LEMMA SetFinishedType ==
  ASSUME TypeOK, NEW r \in Runs, NEW s \in Statuses, NEW d \in BOOLEAN,
         SetFinished(r, s, d)
  PROVE  refresh' \in [Runs -> Row] /\ clock' \in Nat
  <1>1. clock + 1 \in Nat
    BY DEF TypeOK
  <1>2. [refresh[r] EXCEPT !.status = s, !.dbt = d, !.doneAt = clock + 1] \in Row
    BY <1>1, RowWrites DEF TypeOK
  <1>3. refresh' = [refresh EXCEPT ![r] =
          [refresh[r] EXCEPT !.status = s, !.dbt = d, !.doneAt = clock + 1]]
    BY DEF SetFinished, TypeOK
  <1> QED
    BY <1>1, <1>2, <1>3 DEF SetFinished, TypeOK

LEMMA CloseOverdueType ==
  ASSUME TypeOK, NEW overdue \in SUBSET Running, CloseOverdue(overdue)
  PROVE  refresh' \in [Runs -> Row] /\ clock' \in Nat
  <1>1. clock + 1 \in Nat /\ "failed" \in Statuses
    BY DEF TypeOK, Statuses
  <1>2. ASSUME NEW r \in Runs
        PROVE  [refresh[r] EXCEPT !.status = "failed", !.dbt = FALSE,
                                  !.doneAt = clock + 1] \in Row
    <2>1. refresh[r] \in Row
      BY DEF TypeOK
    <2> QED
      BY <1>1, <2>1, RowWrites
  <1>3. CASE overdue = {}
    BY <1>3 DEF CloseOverdue, TypeOK
  <1>4. CASE overdue # {}
    <2> DEFINE closed(r) == [refresh[r] EXCEPT !.status = "failed", !.dbt = FALSE,
                                               !.doneAt = clock + 1]
    <2>1. refresh' = [r \in Runs |-> IF r \in overdue THEN closed(r) ELSE refresh[r]]
      BY <1>4 DEF CloseOverdue
    <2>2. \A r \in Runs : closed(r) \in Row /\ refresh[r] \in Row
      BY <1>2 DEF TypeOK
    <2> HIDE DEF closed
    <2>3. refresh' \in [Runs -> Row]
      BY <2>1, <2>2
    <2> QED
      BY <1>1, <1>4, <2>3 DEF CloseOverdue
  <1> QED
    BY <1>3, <1>4

(* The labels, by name, and which of them are those of a working worker. *)
LEMMA LabelFacts ==
  /\ {"down", "idle", "personal", "personal_slot", "personal_done", "claimed",
      "mark_running", "plan", "slot", "collect", "publish", "complete", "audit",
      "sources", "finish", "mark_ok", "mark_failed", "unlock", "requeue", "fail",
      "fail_mark"} \subseteq Labels
  /\ {"claimed", "mark_running", "plan", "slot", "collect", "publish", "complete",
      "audit", "sources", "finish", "mark_ok", "mark_failed", "unlock", "requeue",
      "fail", "fail_mark"} \subseteq Working
  /\ {"down", "idle", "personal", "personal_slot", "personal_done"}
       \cap Working = {}
  /\ Personal \cap Working = {}
  /\ InTry \subseteq Working
  BY DEF Labels, Personal, Working, InTry, InGlobal, BeforeSlot, InSlot, AfterSlot

LEMMA GotoType ==
  ASSUME TypeInv, NEW w \in Workers, NEW l \in Labels, Goto(w, l)
  PROVE  /\ cpc' \in [Workers -> Labels]
         /\ cpc'[w] = l
         /\ \A v \in Workers : v # w => cpc'[v] = cpc[v]
  BY DEF TypeInv, TypeOK, Goto

LEMMA EndTurnType ==
  ASSUME TypeInv, NEW w \in Workers, NEW l \in {"idle", "down"}, EndTurn(w, l)
  PROVE  /\ cpc' \in [Workers -> Labels]
         /\ claimed' \in [Workers -> Runs \union {0}]
         /\ scan' \in [Workers -> Slots]
         /\ outcome' \in [Workers -> Outcomes]
         /\ Claiming'
  <1>1. 0 \in Slots
    BY BoundsAssumption DEF Slots
  <1>2. NoOutcome \in Outcomes
    BY DEF NoOutcome, Outcomes, Terminal
  <1>3. l \in Labels /\ l \notin Working
    BY LabelFacts
  <1>4. /\ cpc' \in [Workers -> Labels]
        /\ cpc'[w] = l
        /\ \A v \in Workers : v # w => cpc'[v] = cpc[v]
    BY <1>3, GotoType DEF EndTurn
  <1>5. /\ claimed' \in [Workers -> Runs \union {0}]
        /\ claimed'[w] = 0
        /\ \A v \in Workers : v # w => claimed'[v] = claimed[v]
    BY DEF EndTurn, TypeInv, TypeOK
  <1>6. Claiming'
    BY <1>3, <1>4, <1>5 DEF TypeInv, Claiming
  <1> QED
    BY <1>1, <1>2, <1>4, <1>5, <1>6 DEF EndTurn, TypeInv, TypeOK

(* A worker that goes from one place in its turn to another, with its row, *)
(* or from one place outside to another, without one.                      *)
LEMMA GotoClaiming ==
  ASSUME TypeInv, NEW w \in Workers, NEW l \in Labels, Goto(w, l),
         UNCHANGED claimed, cpc[w] \in Working <=> l \in Working
  PROVE  Claiming'
  BY GotoType DEF TypeInv, Claiming

-----------------------------------------------------------------------------

LEMMA TypeInit == Init => TypeInv
  <1> SUFFICES ASSUME Init PROVE TypeInv
    OBVIOUS
  <1>1. 0 \in Slots
    BY BoundsAssumption DEF Slots
  <1>2. NewRow("absent", "scheduled") \in Row
    BY DEF NewRow, Row, Statuses, Triggers
  <1>3. NoOutcome \in Outcomes
    BY DEF NoOutcome, Outcomes, Terminal
  <1>4. TypeOK
    BY <1>1, <1>2, <1>3, BoundsAssumption DEF Init, TypeOK, Holders, Labels
  <1>5. Claiming
    BY LabelFacts DEF Init, Claiming
  <1> QED
    BY <1>4, <1>5 DEF TypeInv

LEMMA TypeEnvironment ==
  ASSUME TypeInv, Environment
  PROVE  TypeInv'
  <1> USE DEF TypeInv, TypeOK, Claiming, tables, locals
  <1>1. ASSUME NEW r \in Runs, CreateIfNoActive(r) \/ CreateBootstrapRun(r)
        PROVE  TypeInv'
    <2>1. \A t \in Triggers : NewRow("queued", t) \in Row
      BY NewRowType DEF Statuses
    <2> QED
      BY <1>1, <2>1 DEF CreateIfNoActive, CreateBootstrapRun, Insert, Triggers
  <1>2. ASSUME DropGlobalSession PROVE TypeInv'
    BY <1>2 DEF DropGlobalSession, Holders
  <1>3. ASSUME NEW i \in Slots, DropSlotSession(i) PROVE TypeInv'
    BY <1>3 DEF DropSlotSession, Dropped, Holders
  <1> QED
    BY <1>1, <1>2, <1>3 DEF Environment

LEMMA TypeProcess ==
  ASSUME TypeInv, NEW w \in Workers, Process(w)
  PROVE  TypeInv'
  <1> USE LabelFacts DEF TypeInv, TypeOK, tables, locals
  <1>row. cpc[w] \in Working => claimed[w] \in Runs
    BY DEF Claiming
  <1>1. CASE ClaimNext(w)
    <2>1. PICK r \in Queued :
            /\ refresh' = [refresh EXCEPT ![r].status = "running"]
            /\ claimed' = [claimed EXCEPT ![w] = r]
      BY <1>1 DEF ClaimNext
    <2>2. TypeOK'
      BY <1>1, <2>1, GotoType DEF ClaimNext, Queued, Row, Statuses
    <2>3. Claiming'
      BY <1>1, <2>1, GotoType DEF ClaimNext, Queued, Claiming, Runs
    <2> QED
      BY <2>2, <2>3
  <1>2. CASE NothingQueued(w) \/ EndPersonalTurn(w) \/ GlobalBusy(w)
               \/ MarkGlobalRunning(w) \/ MarkGlobalSucceeded(w) \/ MarkGlobalFailed(w)
    BY <1>2, GotoType, GotoClaiming
    DEF NothingQueued, EndPersonalTurn, GlobalBusy, MarkGlobalRunning,
        MarkGlobalSucceeded, MarkGlobalFailed
  <1>3. CASE PersonalFreesSlot(w)
    BY <1>3, GotoType, GotoClaiming, RelinquishType DEF PersonalFreesSlot
  <1>4. CASE AcquireGlobal(w)
    BY <1>4, GotoType, GotoClaiming DEF AcquireGlobal, Holders
  <1>5. CASE RecordPlan(w) \/ RecordAudit(w) \/ UpsertSourceResults(w)
    <2>1. refresh' \in [Runs -> Row]
      <3>1. refresh[claimed[w]] \in Row
        BY <1>5, <1>row DEF RecordPlan, RecordAudit, UpsertSourceResults
      <3>2. \/ refresh' = [refresh EXCEPT ![claimed[w]] =
                            [refresh[claimed[w]] EXCEPT !.audit = "planned"]]
            \/ refresh' = [refresh EXCEPT ![claimed[w]] =
                            [refresh[claimed[w]] EXCEPT !.audit = "final"]]
            \/ refresh' = [refresh EXCEPT ![claimed[w]] =
                            [refresh[claimed[w]] EXCEPT !.sources = TRUE]]
        BY <1>5 DEF RecordPlan, RecordAudit, UpsertSourceResults
      <3> QED
        BY <3>1, <3>2, RowWrites
    <2> QED
      BY <1>5, <2>1, GotoType, GotoClaiming
      DEF RecordPlan, RecordAudit, UpsertSourceResults
  <1>6. CASE TrySlot(w)
    <2>1. cpc' \in [Workers -> Labels] /\ Claiming'
      BY <1>6, GotoType, GotoClaiming DEF TrySlot, Claiming
    <2> QED
      BY <1>6, <2>1 DEF TrySlot, Holders
  <1>7. CASE CollectAndBuild(w)
    BY <1>7, GotoType, GotoClaiming DEF CollectAndBuild, Outcomes
  <1>8. CASE PublishShared(w)
    BY <1>8, <1>row, GotoType, GotoClaiming DEF PublishShared
  <1>9. CASE CompleteRun(w)
    BY <1>9, GotoType, GotoClaiming, RelinquishType DEF CompleteRun, Outcomes
  <1>10. CASE Finish(w)
    <2>1. outcome[w].status \in Statuses /\ outcome[w].dbt \in BOOLEAN
      BY DEF Outcomes, Statuses, Terminal
    <2>2. refresh' \in [Runs -> Row] /\ clock' \in Nat
      BY <1>10, <2>1, <1>row, SetFinishedType DEF Finish
    <2> QED
      BY <1>10, <2>2, GotoType, GotoClaiming DEF Finish
  <1>11. CASE Unlock(w) \/ RecordBootstrapFailure(w)
    BY <1>11, EndTurnType DEF Unlock, RecordBootstrapFailure, Holders
  <1>12. CASE Requeue(w)
    <2>1. claimed[w] \in Runs /\ "queued" \in Statuses
      BY <1>12, <1>row DEF Requeue, Statuses
    <2>2. [refresh[claimed[w]] EXCEPT !.status = "queued"] \in Row
      BY <2>1, RowWrites
    <2>3. \/ refresh' = refresh
          \/ refresh' = [refresh EXCEPT ![claimed[w]] =
                          [refresh[claimed[w]] EXCEPT !.status = "queued"]]
      BY <1>12 DEF Requeue
    <2>4. refresh' \in [Runs -> Row]
      BY <2>2, <2>3
    <2> QED
      BY <1>12, <2>4, EndTurnType DEF Requeue
  <1>13. CASE RecordFailure(w)
    <2>1. refresh' \in [Runs -> Row] /\ clock' \in Nat
      BY <1>13, <1>row, SetFinishedType DEF RecordFailure, Statuses
    <2>2. CASE Bootstrap(claimed[w])
      BY <1>13, <2>1, <2>2, GotoType, GotoClaiming DEF RecordFailure
    <2>3. CASE ~Bootstrap(claimed[w])
      BY <1>13, <2>1, <2>3, EndTurnType DEF RecordFailure
    <2> QED
      BY <2>2, <2>3
  <1>14. ASSUME NEW as \in {Free, Dead}, Raise(w, as)
         PROVE  TypeInv'
    <2>1. globalLock' \in Holders /\ writerSlot' \in [Slots -> Holders]
      BY <1>14, RelinquishType, RelinquishOneType DEF Raise
    <2>2. faults' \in 0 .. MaxFaults
      BY <1>14, BoundsAssumption DEF Raise, Fault
    <2>3. cpc' \in [Workers -> Labels] /\ Claiming'
      BY <1>14, GotoType, GotoClaiming DEF Raise
    <2> QED
      BY <1>14, <2>1, <2>2, <2>3 DEF Raise
  <1>15. ASSUME NEW as \in {Free, Dead}, PersonalRaise(w, as),
                Fault \/ UNCHANGED faults
         PROVE  TypeInv'
    <2>1. writerSlot' \in [Slots -> Holders]
      BY <1>15, RelinquishType DEF PersonalRaise
    <2>2. faults' \in 0 .. MaxFaults
      BY <1>15, BoundsAssumption DEF Fault
    <2>3. cpc' \in [Workers -> Labels] /\ Claiming'
      BY <1>15, GotoType, GotoClaiming DEF PersonalRaise
    <2> QED
      BY <1>15, <2>1, <2>2, <2>3 DEF PersonalRaise
  <1>16. CASE Crash(w) /\ (Fault \/ MarkRefused(w))
    <2>1. globalLock' \in Holders /\ writerSlot' \in [Slots -> Holders]
      BY <1>16, RelinquishType, RelinquishOneType DEF Crash
    <2>2. faults' \in 0 .. MaxFaults
      BY <1>16, BoundsAssumption DEF Fault, MarkRefused
    <2> QED
      BY <1>16, <2>1, <2>2, EndTurnType DEF Crash
  <1>17. CASE Restart(w)
    <2>1. PICK overdue \in SUBSET Running : CloseOverdue(overdue)
      BY <1>17 DEF Restart
    <2>2. refresh' \in [Runs -> Row] /\ clock' \in Nat
      BY <2>1, CloseOverdueType
    <2> QED
      BY <1>17, <2>2, GotoType, GotoClaiming DEF Restart
  <1>18. ASSUME NEW i \in Slots, PersonalTakesSlot(w, i)
         PROVE  TypeInv'
    BY <1>18, GotoType, GotoClaiming DEF PersonalTakesSlot, Holders
  <1> QED
    BY <1>1, <1>2, <1>3, <1>4, <1>5, <1>6, <1>7, <1>8, <1>9, <1>10, <1>11, <1>12,
       <1>13, <1>14, <1>15, <1>16, <1>17, <1>18 DEF Process, Step

LEMMA TypeNext == TypeInv /\ [Next]_cvars => TypeInv'
  <1>1. TypeInv /\ UNCHANGED cvars => TypeInv'
    BY DEF TypeInv, TypeOK, Claiming, cvars
  <1> QED
    BY <1>1, TypeProcess, TypeEnvironment DEF Next

(* Every reachable state is well typed, and a worker has a row of the      *)
(* queue exactly while it is in process_one.                               *)
THEOREM TypeCorrect == Spec => [](TypeOK /\ Claiming)
  BY TypeInit, TypeNext, PTL DEF Spec, TypeInv

-----------------------------------------------------------------------------

(* The global lock is held by a worker exactly inside its "with" block.    *)
LockInv == \A w \in Workers : cpc[w] \in InGlobal <=> globalLock = w

LEMMA GlobalLabels ==
  /\ {"mark_running", "plan", "slot", "collect", "publish", "complete", "audit",
      "sources", "finish", "mark_ok", "mark_failed", "unlock"} \subseteq InGlobal
  /\ {"down", "idle", "personal", "personal_slot", "personal_done", "claimed",
      "requeue", "fail", "fail_mark"} \cap InGlobal = {}
  /\ Personal \cap InGlobal = {}
  BY DEF InGlobal, BeforeSlot, InSlot, AfterSlot, Personal

(* The three ways in which a step of w may concern the lock. *)
LEMMA LockKept ==
  ASSUME TypeInv, LockInv, NEW w \in Workers, NEW l \in Labels, Goto(w, l),
         UNCHANGED globalLock, cpc[w] \in InGlobal <=> l \in InGlobal
  PROVE  LockInv'
  BY GotoType DEF LockInv

LEMMA LockTaken ==
  ASSUME TypeInv, LockInv, NEW w \in Workers, NEW l \in InGlobal \cap Labels,
         Goto(w, l), globalLock = Free, globalLock' = w
  PROVE  LockInv'
  BY GotoType, WorkersAssumption DEF LockInv

LEMMA LockLost ==
  ASSUME TypeInv, LockInv, NEW w \in Workers, NEW l \in Labels \ InGlobal,
         Goto(w, l), NEW as \in {Free, Dead},
         globalLock' = RelinquishOne(globalLock, w, as)
  PROVE  LockInv'
  BY GotoType, WorkersAssumption DEF LockInv, RelinquishOne

LEMMA LockInit == Init => LockInv
  BY GlobalLabels, WorkersAssumption DEF Init, LockInv

LEMMA LockProcess ==
  ASSUME TypeInv, LockInv, NEW w \in Workers, Process(w)
  PROVE  LockInv'
  <1> USE LabelFacts, GlobalLabels
  <1>1. CASE \/ ClaimNext(w) \/ NothingQueued(w) \/ PersonalFreesSlot(w)
             \/ EndPersonalTurn(w) \/ GlobalBusy(w) \/ MarkGlobalRunning(w)
             \/ RecordPlan(w) \/ PublishShared(w) \/ CompleteRun(w)
             \/ RecordAudit(w) \/ UpsertSourceResults(w)
             \/ MarkGlobalSucceeded(w) \/ MarkGlobalFailed(w) \/ Restart(w)
    BY <1>1, LockKept
    DEF ClaimNext, NothingQueued, PersonalFreesSlot, EndPersonalTurn, GlobalBusy,
        MarkGlobalRunning, RecordPlan, PublishShared, CompleteRun, RecordAudit,
        UpsertSourceResults, MarkGlobalSucceeded, MarkGlobalFailed, Restart
  <1>2. CASE CollectAndBuild(w)
    BY <1>2, LockKept DEF CollectAndBuild
  <1>3. CASE Finish(w)
    BY <1>3, LockKept DEF Finish
  <1>4. CASE Requeue(w) \/ RecordBootstrapFailure(w)
    BY <1>4, LockKept DEF Requeue, RecordBootstrapFailure, EndTurn
  <1>5. CASE RecordFailure(w)
    BY <1>5, LockKept DEF RecordFailure, EndTurn
  <1>6. CASE AcquireGlobal(w)
    BY <1>6, LockTaken DEF AcquireGlobal, Available
  <1>7. CASE TrySlot(w)
    <2>1. CASE UNCHANGED <<globalLock, cpc>>
      BY <2>1 DEF LockInv
    <2>2. CASE Goto(w, "collect") /\ UNCHANGED globalLock
      BY <1>7, <2>2, LockKept DEF TrySlot
    <2>3. CASE Goto(w, "requeue") /\ globalLock' = Free
      <3>1. globalLock = w
        BY <1>7 DEF TrySlot, LockInv
      <3> QED
        BY <2>3, <3>1, LockLost DEF RelinquishOne
    <2> QED
      BY <1>7, <2>1, <2>2, <2>3 DEF TrySlot
  <1>8. CASE Unlock(w)
    <2>1. globalLock = w
      BY <1>8 DEF Unlock, LockInv
    <2> QED
      BY <1>8, <2>1, LockLost DEF Unlock, EndTurn, RelinquishOne
  <1>9. ASSUME NEW as \in {Free, Dead}, Raise(w, as)
        PROVE  LockInv'
    BY <1>9, LockLost DEF Raise
  <1>10. ASSUME NEW as \in {Free, Dead}, PersonalRaise(w, as)
         PROVE  LockInv'
    BY <1>10, LockKept DEF PersonalRaise
  <1>11. CASE Crash(w)
    BY <1>11, LockLost DEF Crash, EndTurn
  <1>12. ASSUME NEW i \in Slots, PersonalTakesSlot(w, i)
         PROVE  LockInv'
    BY <1>12, LockKept DEF PersonalTakesSlot
  <1> QED
    BY <1>1, <1>2, <1>3, <1>4, <1>5, <1>6, <1>7, <1>8, <1>9, <1>10, <1>11, <1>12
    DEF Process, Step

LEMMA LockEnvironment ==
  ASSUME TypeInv, LockInv, Environment
  PROVE  LockInv'
  BY WorkersAssumption
  DEF LockInv, Environment, CreateIfNoActive, CreateBootstrapRun, DropGlobalSession,
      DropSlotSession

LEMMA LockNext == TypeInv /\ LockInv /\ [Next]_cvars => LockInv'
  <1>1. LockInv /\ UNCHANGED cvars => LockInv'
    BY DEF LockInv, cvars
  <1> QED
    BY <1>1, LockProcess, LockEnvironment DEF Next

(* The session lock excludes: two workers are never both inside the "with" *)
(* block of process_one, through crashes, broken sessions and their end.   *)
THEOREM GlobalLockExcludes ==
  Spec => [](\A v, w \in Workers : cpc[v] \in InGlobal /\ cpc[w] \in InGlobal => v = w)
  <1>1. LockInv => \A v, w \in Workers :
                     cpc[v] \in InGlobal /\ cpc[w] \in InGlobal => v = w
    BY DEF LockInv
  <1> QED
    BY <1>1, TypeInit, TypeNext, LockInit, LockNext, PTL DEF Spec

-----------------------------------------------------------------------------

(* A step of one worker leaves where the others are, and what they have.   *)
LEMMA ProcessLocal ==
  ASSUME TypeInv, NEW w \in Workers, Process(w), NEW v \in Workers \ {w}
  PROVE  cpc'[v] = cpc[v] /\ claimed'[v] = claimed[v] /\ outcome'[v] = outcome[v]
  <1> USE DEF TypeInv, TypeOK, Goto, EndTurn, locals
  <1>1. CASE \/ ClaimNext(w) \/ NothingQueued(w) \/ PersonalFreesSlot(w)
             \/ EndPersonalTurn(w) \/ GlobalBusy(w) \/ MarkGlobalRunning(w)
             \/ RecordPlan(w) \/ PublishShared(w) \/ RecordAudit(w)
             \/ UpsertSourceResults(w) \/ MarkGlobalSucceeded(w)
             \/ MarkGlobalFailed(w) \/ Restart(w) \/ AcquireGlobal(w)
    BY <1>1
    DEF ClaimNext, NothingQueued, PersonalFreesSlot, EndPersonalTurn, GlobalBusy,
        MarkGlobalRunning, RecordPlan, PublishShared, RecordAudit,
        UpsertSourceResults, MarkGlobalSucceeded, MarkGlobalFailed, Restart,
        AcquireGlobal
  <1>2. CASE CollectAndBuild(w) \/ CompleteRun(w) \/ Finish(w)
    BY <1>2 DEF CollectAndBuild, CompleteRun, Finish
  <1>3. CASE Unlock(w) \/ Requeue(w) \/ RecordBootstrapFailure(w) \/ Crash(w)
    BY <1>3 DEF Unlock, Requeue, RecordBootstrapFailure, Crash
  <1>4. CASE RecordFailure(w) \/ TrySlot(w)
    BY <1>4 DEF RecordFailure, TrySlot
  <1>5. ASSUME NEW as, Raise(w, as) \/ PersonalRaise(w, as)
        PROVE  cpc'[v] = cpc[v] /\ claimed'[v] = claimed[v] /\ outcome'[v] = outcome[v]
    BY <1>5 DEF Raise, PersonalRaise
  <1>6. ASSUME NEW i \in Slots, PersonalTakesSlot(w, i)
        PROVE  cpc'[v] = cpc[v] /\ claimed'[v] = claimed[v] /\ outcome'[v] = outcome[v]
    BY <1>6 DEF PersonalTakesSlot
  <1> QED
    BY <1>1, <1>2, <1>3, <1>4, <1>5, <1>6 DEF Process, Step

(* What a step of w may do to the publication path: nothing, with w at     *)
(* most moving along with what it had, or publish the run w holds.         *)
Passed == {"complete"} \union AfterSlot

LEMMA PassedLabels ==
  /\ Passed \subseteq InGlobal
  /\ {"complete", "audit", "sources", "finish", "mark_ok", "mark_failed", "unlock"}
       = Passed
  /\ Personal \cap Passed = {}
  <1>1. Passed \subseteq InGlobal
    BY DEF Passed, InGlobal, InSlot
  <1>2. {"complete", "audit", "sources", "finish", "mark_ok", "mark_failed", "unlock"}
          = Passed
    BY DEF Passed, AfterSlot
  <1>3. Personal \cap Passed = {}
    BY DEF Passed, AfterSlot, Personal
  <1> QED
    BY <1>1, <1>2, <1>3

LEMMA PathSteps ==
  ASSUME TypeInv, NEW w \in Workers, Process(w)
  PROVE  \/ /\ UNCHANGED <<published, sharedFrom>>
            /\ \/ cpc'[w] \notin Passed \/ ~outcome'[w].dbt
               \/ /\ cpc[w] \in Passed /\ claimed'[w] = claimed[w]
                  /\ outcome'[w].dbt = outcome[w].dbt
         \/ /\ cpc[w] = "publish" /\ sharedFrom' = claimed[w]
            /\ published' = published \union {claimed[w]}
            /\ claimed'[w] = claimed[w]
  <1> USE PassedLabels DEF TypeInv, TypeOK, Goto, EndTurn, locals, tables
  <1>1. CASE \/ ClaimNext(w) \/ NothingQueued(w) \/ PersonalFreesSlot(w)
             \/ EndPersonalTurn(w) \/ GlobalBusy(w) \/ MarkGlobalRunning(w)
             \/ RecordPlan(w) \/ AcquireGlobal(w) \/ Restart(w)
    BY <1>1
    DEF ClaimNext, NothingQueued, PersonalFreesSlot, EndPersonalTurn, GlobalBusy,
        MarkGlobalRunning, RecordPlan, AcquireGlobal, Restart
  <1>2. CASE \/ RecordAudit(w) \/ UpsertSourceResults(w) \/ Finish(w)
             \/ MarkGlobalSucceeded(w) \/ MarkGlobalFailed(w)
    BY <1>2 DEF RecordAudit, UpsertSourceResults, Finish, MarkGlobalSucceeded,
                MarkGlobalFailed
  <1>3. CASE PublishShared(w)
    BY <1>3 DEF PublishShared
  <1>4. CASE CompleteRun(w)
    BY <1>4 DEF CompleteRun, Outcomes
  <1>5. CASE CollectAndBuild(w)
    BY <1>5 DEF CollectAndBuild, Outcomes
  <1>6. CASE Unlock(w) \/ Requeue(w) \/ RecordBootstrapFailure(w) \/ Crash(w)
    BY <1>6 DEF Unlock, Requeue, RecordBootstrapFailure, Crash
  <1>7. CASE RecordFailure(w) \/ TrySlot(w)
    BY <1>7 DEF RecordFailure, TrySlot
  <1>8. ASSUME NEW as, Raise(w, as) \/ PersonalRaise(w, as)
        PROVE  UNCHANGED <<published, sharedFrom>> /\ cpc'[w] \notin Passed
    BY <1>8 DEF Raise, PersonalRaise
  <1>9. ASSUME NEW i \in Slots, PersonalTakesSlot(w, i)
        PROVE  UNCHANGED <<published, sharedFrom>> /\ cpc'[w] \notin Passed
    BY <1>9 DEF PersonalTakesSlot
  <1> QED
    BY <1>1, <1>2, <1>3, <1>4, <1>5, <1>6, <1>7, <1>8, <1>9 DEF Process, Step

LEMMA PathNext ==
  TypeInv /\ LockInv /\ PublicationPathOwned /\ [Next]_cvars => PublicationPathOwned'
  <1> SUFFICES ASSUME TypeInv, LockInv, PublicationPathOwned, [Next]_cvars
               PROVE  PublicationPathOwned'
    OBVIOUS
  <1> USE DEF PublicationPathOwned
  <1>1. CASE UNCHANGED cvars
    BY <1>1 DEF cvars
  <1>2. CASE Environment
    BY <1>2 DEF Environment, CreateIfNoActive, CreateBootstrapRun, DropGlobalSession,
                DropSlotSession, locals, tables
  <1>3. ASSUME NEW w \in Workers, Process(w), NEW v \in Workers,
               cpc'[v] \in Passed, outcome'[v].dbt
        PROVE  sharedFrom' = claimed'[v] /\ claimed'[v] \in published'
    <2>1. CASE v = w
      BY <1>3, <2>1, PathSteps DEF Passed
    <2>2. CASE v # w
      <3>1. /\ cpc[v] \in Passed /\ outcome[v].dbt
            /\ claimed'[v] = claimed[v]
        BY <1>3, <2>2, ProcessLocal
      <3>2. cpc[w] # "publish"
        BY <3>1, <2>2, PassedLabels, GlobalLabels DEF LockInv
      <3> QED
        BY <1>3, <3>1, <3>2, PathSteps DEF Passed
    <2> QED
      BY <2>1, <2>2
  <1> QED
    BY <1>1, <1>2, <1>3 DEF Next, Passed

(* One global refresh owns the publication path: what a worker published   *)
(* is still what was published last when it finishes the run and unlocks.  *)
THEOREM PublicationPathOwnedAlways == Spec => []PublicationPathOwned
  <1>1. Init => PublicationPathOwned
    BY PassedLabels DEF Init, PublicationPathOwned, Passed
  <1> QED
    BY <1>1, TypeInit, TypeNext, LockInit, LockNext, PathNext, PTL DEF Spec

-----------------------------------------------------------------------------

(* What a step of w may do to the status of a row: claim it from the       *)
(* queue, give it back, finish the row it has, or close a running one.     *)
Claims(w, r) ==
  /\ refresh[r].status = "queued" /\ refresh'[r].status = "running"
  /\ claimed'[w] = r

GivesBack(w, r) ==
  /\ refresh[r].status = "running" /\ refresh'[r].status = "queued"
  /\ claimed[w] = r /\ claimed'[w] = 0

Ends(w, r) ==
  /\ refresh[r].status = "running" \/ claimed[w] = r
  /\ refresh'[r].status \in Terminal

KeepsRow(w) == claimed'[w] \in {claimed[w], 0}

LEMMA RowReads ==
  ASSUME NEW row \in Row
  PROVE  /\ \A s : LET new == [row EXCEPT !.status = s] IN
                     new.status = s /\ new.trigger = row.trigger
         /\ \A s, d, n : LET new == [row EXCEPT !.status = s, !.dbt = d, !.doneAt = n] IN
                     new.status = s /\ new.trigger = row.trigger
  BY DEF Row

LEMMA FinishedRow ==
  ASSUME TypeOK, NEW c \in Runs, NEW s \in Statuses, NEW d, SetFinished(c, s, d),
         NEW r \in Runs
  PROVE  /\ refresh'[r].trigger = refresh[r].trigger
         /\ refresh'[r].status = IF r = c THEN s ELSE refresh[r].status
  <1>1. refresh' = [refresh EXCEPT ![c] =
          [refresh[c] EXCEPT !.status = s, !.dbt = d, !.doneAt = clock + 1]]
    BY DEF SetFinished, TypeOK
  <1>2. CASE r = c
    <2>1. refresh'[r] = [refresh[c] EXCEPT !.status = s, !.dbt = d, !.doneAt = clock + 1]
      BY <1>1, <1>2 DEF TypeOK
    <2>2. refresh[c] \in Row
      BY DEF TypeOK
    <2> QED
      BY <1>2, <2>1, <2>2, RowReads
  <1>3. CASE r # c
    BY <1>1, <1>3 DEF TypeOK
  <1> QED
    BY <1>2, <1>3

LEMMA RowSteps ==
  ASSUME TypeInv, NEW w \in Workers, Process(w), NEW r \in Runs
  PROVE  /\ refresh'[r].trigger = refresh[r].trigger
         /\ \/ refresh'[r].status = refresh[r].status
            \/ Claims(w, r) \/ GivesBack(w, r) \/ Ends(w, r)
  <1> DEFINE Same(q) == /\ refresh'[q].status = refresh[q].status
                        /\ refresh'[q].trigger = refresh[q].trigger
  <1> USE DEF TypeInv, TypeOK, tables
  <1>row. refresh[r] \in Row
    OBVIOUS
  <1>1. ASSUME UNCHANGED refresh
        PROVE  Same(r)
    BY <1>1
  <1>2. CASE \/ NothingQueued(w) \/ PersonalFreesSlot(w) \/ EndPersonalTurn(w)
             \/ GlobalBusy(w) \/ MarkGlobalRunning(w) \/ AcquireGlobal(w)
             \/ PublishShared(w) \/ MarkGlobalSucceeded(w) \/ MarkGlobalFailed(w)
             \/ TrySlot(w) \/ CollectAndBuild(w) \/ CompleteRun(w) \/ Unlock(w)
             \/ RecordBootstrapFailure(w) \/ Crash(w)
    BY <1>2
    DEF NothingQueued, PersonalFreesSlot, EndPersonalTurn, GlobalBusy, AcquireGlobal,
        MarkGlobalRunning, PublishShared, MarkGlobalSucceeded, MarkGlobalFailed,
        TrySlot, CollectAndBuild, CompleteRun, Unlock, RecordBootstrapFailure, Crash
  <1>3. ASSUME NEW as, Raise(w, as) \/ PersonalRaise(w, as)
        PROVE  UNCHANGED refresh
    BY <1>3 DEF Raise, PersonalRaise
  <1>4. ASSUME NEW i \in Slots, PersonalTakesSlot(w, i)
        PROVE  UNCHANGED refresh
    BY <1>4 DEF PersonalTakesSlot
  <1>5. CASE RecordPlan(w) \/ RecordAudit(w) \/ UpsertSourceResults(w)
    <2>1. \/ refresh'[r] = refresh[r]
          \/ refresh'[r] = [refresh[r] EXCEPT !.audit = "planned"]
          \/ refresh'[r] = [refresh[r] EXCEPT !.audit = "final"]
          \/ refresh'[r] = [refresh[r] EXCEPT !.sources = TRUE]
      BY <1>5 DEF RecordPlan, RecordAudit, UpsertSourceResults
    <2>2. Same(r)
      BY <1>row, <2>1 DEF Row
    <2> QED
      BY <2>2
  <1>6. CASE ClaimNext(w)
    <2>1. PICK q \in Queued :
            /\ refresh' = [refresh EXCEPT ![q] = [refresh[q] EXCEPT !.status = "running"]]
            /\ claimed' = [claimed EXCEPT ![w] = q]
      BY <1>6 DEF ClaimNext
    <2>2. CASE q = r
      <3>1. refresh'[r] = [refresh[r] EXCEPT !.status = "running"]
        BY <2>1, <2>2 DEF Queued
      <3> QED
        BY <1>row, <2>1, <2>2, <3>1, RowReads DEF Claims, Queued
    <2>3. CASE q # r
      BY <2>1, <2>3
    <2> QED
      BY <2>2, <2>3
  <1>7. CASE Requeue(w)
    <2>1. CASE refresh[claimed[w]].status = "running" /\ claimed[w] = r
      <3>1. refresh'[r] = [refresh[r] EXCEPT !.status = "queued"]
        BY <1>7, <2>1 DEF Requeue
      <3>2. claimed'[w] = 0
        BY <1>7 DEF Requeue, EndTurn
      <3> QED
        BY <1>row, <2>1, <3>1, <3>2, RowReads DEF GivesBack
    <2>2. CASE ~(refresh[claimed[w]].status = "running" /\ claimed[w] = r)
      BY <1>7, <2>2 DEF Requeue
    <2> QED
      BY <2>1, <2>2
  <1>8. CASE Finish(w) \/ RecordFailure(w)
    <2>1. claimed[w] \in Runs
      BY <1>8, LabelFacts DEF Finish, RecordFailure, Claiming
    <2>2. PICK s \in Terminal, d \in BOOLEAN : SetFinished(claimed[w], s, d)
      <3>1. outcome[w] \in Outcomes
        OBVIOUS
      <3>2. outcome[w].status \in Terminal /\ outcome[w].dbt \in BOOLEAN
        BY <3>1 DEF Outcomes
      <3>3. CASE Finish(w)
        <4>1. SetFinished(claimed[w], outcome[w].status, outcome[w].dbt)
          BY <3>3 DEF Finish
        <4> QED
          BY <3>2, <4>1, Zenon
      <3>4. CASE RecordFailure(w)
        <4>1. SetFinished(claimed[w], "failed", FALSE)
          BY <3>4 DEF RecordFailure
        <4>2. "failed" \in Terminal /\ FALSE \in BOOLEAN
          BY DEF Terminal
        <4> QED
          BY <4>1, <4>2, Zenon
      <3> QED
        BY <1>8, <3>3, <3>4
    <2>3. s \in Statuses
      BY DEF Terminal, Statuses
    <2> QED
      BY <2>1, <2>2, <2>3, FinishedRow DEF Ends
  <1>9. CASE Restart(w)
    <2>1. PICK overdue \in SUBSET Running : CloseOverdue(overdue)
      BY <1>9 DEF Restart
    <2>2. CASE r \in overdue
      <3>1. refresh'[r] = [refresh[r] EXCEPT !.status = "failed", !.dbt = FALSE,
                                             !.doneAt = clock + 1]
        BY <2>1, <2>2 DEF CloseOverdue
      <3> QED
        BY <1>row, <2>2, <3>1, RowReads DEF Ends, Running, Terminal
    <2>3. CASE r \notin overdue
      BY <2>1, <2>3 DEF CloseOverdue
    <2> QED
      BY <2>2, <2>3
  <1> QED
    BY <1>1, <1>2, <1>3, <1>4, <1>5, <1>6, <1>7, <1>8, <1>9 DEF Process, Step

(* The world around the workers only inserts: one row, queued.             *)
LEMMA EnvironmentSteps ==
  ASSUME TypeInv, Environment, NEW r \in Runs
  PROVE  /\ \/ refresh'[r] = refresh[r]
            \/ /\ refresh[r].status = "absent"
               /\ \/ Active = {} /\ refresh'[r] = NewRow("queued", "scheduled")
                  \/ refresh'[r] = NewRow("queued", "first_user_bootstrap")
               /\ \A q \in Runs : q # r => refresh'[q] = refresh[q]
         /\ UNCHANGED <<published, cpc, claimed, outcome>>
  <1> USE DEF TypeInv, TypeOK, tables, locals
  <1>1. ASSUME NEW q \in Runs, CreateIfNoActive(q)
        PROVE  /\ Active = {} /\ refresh[q].status = "absent"
               /\ refresh' = [refresh EXCEPT ![q] = NewRow("queued", "scheduled")]
               /\ UNCHANGED <<published, cpc, claimed, outcome>>
    BY <1>1 DEF CreateIfNoActive, Insert
  <1>2. ASSUME NEW q \in Runs, CreateBootstrapRun(q)
        PROVE  /\ refresh[q].status = "absent"
               /\ refresh' = [refresh EXCEPT ![q] = NewRow("queued", "first_user_bootstrap")]
               /\ UNCHANGED <<published, cpc, claimed, outcome>>
    BY <1>2 DEF CreateBootstrapRun, Insert
  <1>3. CASE \E q \in Runs : CreateIfNoActive(q)
    BY <1>1, <1>3
  <1>4. CASE \E q \in Runs : CreateBootstrapRun(q)
    BY <1>2, <1>4
  <1>5. CASE DropGlobalSession \/ \E i \in Slots : DropSlotSession(i)
    BY <1>5 DEF DropGlobalSession, DropSlotSession
  <1> QED
    BY <1>3, <1>4, <1>5 DEF Environment

(* A run that left the queue for good is never queued or run again.        *)
THEOREM NeverRunAgainAlways == Spec => NeverRunAgain
  <1>1. TypeInv /\ [Next]_cvars =>
          [\A r \in Runs : refresh[r].status \in Terminal
              => refresh'[r].status \in Terminal]_refresh
    <2> SUFFICES ASSUME TypeInv, Next, NEW r \in Runs, refresh[r].status \in Terminal
                 PROVE  refresh'[r].status \in Terminal
      BY DEF cvars
    <2>1. refresh[r].status \notin {"absent", "queued", "running"}
      BY DEF Terminal
    <2>2. CASE Environment
      BY <2>1, <2>2, EnvironmentSteps
    <2>3. ASSUME NEW w \in Workers, Process(w)
          PROVE  refresh'[r].status \in Terminal
      BY <2>1, <2>3, RowSteps DEF Claims, GivesBack, Ends
    <2> QED
      BY <2>2, <2>3 DEF Next
  <1> QED
    BY <1>1, TypeInit, TypeNext, PTL DEF Spec, NeverRunAgain

-----------------------------------------------------------------------------

(* What a worker has has been claimed: it is not waiting in the queue.     *)
ClaimedStarted ==
  \A w \in Workers : claimed[w] # 0 => refresh[claimed[w]].status \notin {"absent", "queued"}

OwnerInv == OneOwnerPerRun /\ ClaimedStarted

(* A step of w leaves w with what it had, with nothing, or with a row it   *)
(* took from the queue.                                                    *)
LEMMA ClaimedSteps ==
  ASSUME TypeInv, NEW w \in Workers, Process(w)
  PROVE  \/ KeepsRow(w)
         \/ claimed'[w] \in Runs /\ Claims(w, claimed'[w])
  <1> USE DEF TypeInv, TypeOK, KeepsRow, EndTurn, locals
  <1>1. CASE ClaimNext(w)
    <2>1. PICK q \in Queued :
            /\ refresh' = [refresh EXCEPT ![q] = [refresh[q] EXCEPT !.status = "running"]]
            /\ claimed' = [claimed EXCEPT ![w] = q]
      BY <1>1 DEF ClaimNext
    <2>2. refresh'[q] = [refresh[q] EXCEPT !.status = "running"] /\ refresh[q] \in Row
      BY <2>1 DEF Queued
    <2> QED
      BY <2>1, <2>2, RowReads DEF Claims, Queued
  <1>2. CASE \/ NothingQueued(w) \/ PersonalFreesSlot(w)
             \/ EndPersonalTurn(w) \/ GlobalBusy(w) \/ MarkGlobalRunning(w)
             \/ RecordPlan(w) \/ PublishShared(w) \/ RecordAudit(w)
             \/ UpsertSourceResults(w) \/ MarkGlobalSucceeded(w)
             \/ MarkGlobalFailed(w) \/ Restart(w) \/ AcquireGlobal(w)
             \/ CollectAndBuild(w) \/ CompleteRun(w) \/ Finish(w) \/ TrySlot(w)
    BY <1>2
    DEF NothingQueued, PersonalFreesSlot, EndPersonalTurn, GlobalBusy,
        MarkGlobalRunning, RecordPlan, PublishShared, RecordAudit,
        UpsertSourceResults, MarkGlobalSucceeded, MarkGlobalFailed, Restart,
        AcquireGlobal, CollectAndBuild, CompleteRun, Finish, TrySlot
  <1>3. CASE Unlock(w) \/ Requeue(w) \/ RecordBootstrapFailure(w) \/ Crash(w)
    BY <1>3 DEF Unlock, Requeue, RecordBootstrapFailure, Crash
  <1>4. CASE RecordFailure(w)
    BY <1>4 DEF RecordFailure
  <1>5. ASSUME NEW as, Raise(w, as) \/ PersonalRaise(w, as)
        PROVE  KeepsRow(w)
    BY <1>5 DEF Raise, PersonalRaise
  <1>6. ASSUME NEW i \in Slots, PersonalTakesSlot(w, i)
        PROVE  KeepsRow(w)
    BY <1>6 DEF PersonalTakesSlot
  <1> QED
    BY <1>1, <1>2, <1>3, <1>4, <1>5, <1>6 DEF Process, Step

LEMMA OwnerNext == TypeInv /\ OwnerInv /\ [Next]_cvars => OwnerInv'
  <1> SUFFICES ASSUME TypeInv, OwnerInv, [Next]_cvars PROVE OwnerInv'
    OBVIOUS
  <1> USE DEF OwnerInv
  <1>1. CASE UNCHANGED cvars
    BY <1>1 DEF cvars, OneOwnerPerRun, ClaimedStarted
  <1>2. CASE Environment
    <2>1. OneOwnerPerRun'
      <3>1. CASE Runs = {}
        BY <1>2, <3>1, TypeNext DEF TypeInv, TypeOK, OneOwnerPerRun, Next
      <3>2. CASE Runs # {}
        BY <1>2, <3>2, EnvironmentSteps DEF OneOwnerPerRun
      <3> QED
        BY <3>1, <3>2
    <2>2. ASSUME NEW v \in Workers, claimed'[v] # 0
          PROVE  refresh'[claimed'[v]].status \notin {"absent", "queued"}
      <3>1. claimed'[v] \in Runs
        BY <1>2, <2>2, TypeNext DEF TypeInv, TypeOK, Next
      <3>2. claimed'[v] = claimed[v]
        BY <1>2, <3>1, EnvironmentSteps
      <3>3. refresh[claimed[v]].status \notin {"absent", "queued"}
        BY <2>2, <3>2 DEF ClaimedStarted
      <3> QED
        BY <1>2, <3>1, <3>2, <3>3, EnvironmentSteps
    <2> QED
      BY <2>1, <2>2 DEF ClaimedStarted
  <1>3. ASSUME NEW w \in Workers, Process(w)
        PROVE  OwnerInv'
    <2>1. ASSUME NEW u \in Workers, NEW v \in Workers,
                 claimed'[u] = claimed'[v], claimed'[u] # 0
          PROVE  u = v
      <3> SUFFICES ASSUME u # v PROVE FALSE
        OBVIOUS
      <3>1. CASE u # w /\ v # w
        BY <1>3, <2>1, <3>1, ProcessLocal DEF OneOwnerPerRun
      <3>2. ASSUME NEW x \in Workers \ {w}, claimed'[x] = claimed'[w], claimed'[x] # 0
            PROVE  FALSE
        <4>1. claimed[x] = claimed'[x]
          BY <1>3, ProcessLocal
        <4>2. CASE KeepsRow(w)
          BY <3>2, <4>1, <4>2 DEF KeepsRow, OneOwnerPerRun
        <4>3. CASE Claims(w, claimed'[w])
          BY <3>2, <4>1, <4>3 DEF Claims, ClaimedStarted
        <4> QED
          BY <1>3, <4>2, <4>3, ClaimedSteps
      <3> QED
        BY <2>1, <3>1, <3>2
    <2>2. ASSUME NEW v \in Workers, claimed'[v] # 0
          PROVE  refresh'[claimed'[v]].status \notin {"absent", "queued"}
      <3> DEFINE r == claimed'[v]
      <3>1. r \in Runs
        BY <1>3, <2>2, TypeProcess DEF TypeInv, TypeOK
      <3>2. CASE claimed[v] = r
        <4>1. refresh[r].status \notin {"absent", "queued"}
          BY <2>2, <3>2 DEF ClaimedStarted
        <4>2. ~GivesBack(w, r)
          BY <1>3, <2>2, <3>2, ProcessLocal DEF GivesBack, OneOwnerPerRun
        <4>3. refresh'[r].status = refresh[r].status \/ Claims(w, r) \/ Ends(w, r)
          BY <1>3, <3>1, <4>2, RowSteps
        <4> QED
          BY <4>1, <4>3 DEF Claims, Ends, Terminal
      <3>3. CASE claimed[v] # r
        <4>1. v = w
          BY <1>3, <3>3, ProcessLocal
        <4>2. Claims(w, r)
          BY <1>3, <2>2, <3>3, <4>1, ClaimedSteps DEF KeepsRow
        <4> QED
          BY <4>2 DEF Claims
      <3> QED
        BY <3>2, <3>3
    <2> QED
      BY <2>1, <2>2 DEF OneOwnerPerRun, ClaimedStarted
  <1> QED
    BY <1>1, <1>2, <1>3 DEF Next

(* A row of the queue is in the hands of at most one worker.               *)
THEOREM OneOwnerPerRunAlways == Spec => []OneOwnerPerRun
  <1>1. Init => OwnerInv
    BY DEF Init, OwnerInv, OneOwnerPerRun, ClaimedStarted
  <1>2. OwnerInv => OneOwnerPerRun
    BY DEF OwnerInv
  <1> QED
    BY <1>1, <1>2, TypeInit, TypeNext, OwnerNext, PTL DEF Spec

-----------------------------------------------------------------------------

LEMMA ScheduledNext ==
  TypeInv /\ OneScheduledActive /\ [Next]_cvars => OneScheduledActive'
  <1> SUFFICES ASSUME TypeInv, OneScheduledActive, [Next]_cvars,
                      NEW q \in Runs, NEW r \in Runs, q # r,
                      refresh'[q].status \in {"queued", "running"},
                      refresh'[r].status \in {"queued", "running"},
                      ~Bootstrap(q)', ~Bootstrap(r)'
               PROVE  FALSE
    BY DEF OneScheduledActive, Active
  <1>old. ~(/\ refresh[q].status \in {"queued", "running"} /\ ~Bootstrap(q)
            /\ refresh[r].status \in {"queued", "running"} /\ ~Bootstrap(r))
    BY DEF OneScheduledActive, Active
  <1>1. CASE UNCHANGED cvars
    BY <1>1, <1>old DEF cvars, Bootstrap
  <1>2. CASE Environment
    <2>1. ASSUME NEW x \in Runs, NEW y \in Runs, x # y, refresh'[x] # refresh[x],
                 refresh'[y].status \in {"queued", "running"}, ~Bootstrap(x)'
          PROVE  FALSE
      <3>1. refresh'[x] # NewRow("queued", "first_user_bootstrap")
        BY <2>1 DEF Bootstrap, NewRow
      <3>2. Active = {} /\ refresh'[y] = refresh[y]
        BY <1>2, <2>1, <3>1, EnvironmentSteps
      <3> QED
        BY <2>1, <3>2 DEF Active
    <2>2. refresh'[q] = refresh[q] /\ refresh'[r] = refresh[r]
      BY <2>1
    <2> QED
      BY <1>old, <2>2 DEF Bootstrap
  <1>3. ASSUME NEW w \in Workers, Process(w)
        PROVE  FALSE
    <2>1. ASSUME NEW x \in Runs, refresh'[x].status \in {"queued", "running"}
          PROVE  /\ refresh[x].status \in {"queued", "running"}
                 /\ refresh'[x].trigger = refresh[x].trigger
      BY <1>3, <2>1, RowSteps DEF Claims, GivesBack, Ends, Terminal
    <2> QED
      BY <1>old, <2>1 DEF Bootstrap
  <1> QED
    BY <1>1, <1>2, <1>3 DEF Next

(* The refreshes that go through create_if_no_active never overlap.        *)
THEOREM OneScheduledActiveAlways == Spec => []OneScheduledActive
  <1>1. Init => OneScheduledActive
    BY DEF Init, OneScheduledActive, Active, NewRow
  <1> QED
    BY <1>1, TypeInit, TypeNext, ScheduledNext, PTL DEF Spec
-----------------------------------------------------------------------------
(* A success is backed because a worker records audit and sources of a row *)
(* that is its own and not yet successful before it finishes it.           *)

Unfinished ==
  {"claimed"} \union BeforeSlot \union InSlot \union {"audit", "sources", "finish"}

Backing(w) ==
  /\ cpc[w] \in Unfinished => ~Successful(claimed[w])
  /\ cpc[w] \in {"sources", "finish"} => refresh[claimed[w]].audit = "final"
  /\ cpc[w] = "finish" => refresh[claimed[w]].sources

BackedInv == SuccessIsBacked /\ \A w \in Workers : Backing(w)

LEMMA UnfinishedLabels ==
  /\ Unfinished = {"claimed", "mark_running", "plan", "slot", "collect", "publish",
                   "complete", "audit", "sources", "finish"}
  /\ Unfinished \subseteq Working
  /\ Personal \cap Unfinished = {}
  <1>1. Unfinished = {"claimed", "mark_running", "plan", "slot", "collect", "publish",
                      "complete", "audit", "sources", "finish"}
    BY DEF Unfinished, BeforeSlot, InSlot
  <1> QED
    BY <1>1, LabelFacts DEF Personal

(* What a step of w may do to the columns a success rests on. *)
Fails(r) ==
  /\ refresh'[r].status = "failed" /\ ~refresh'[r].dbt
  /\ refresh'[r].audit = refresh[r].audit /\ refresh'[r].sources = refresh[r].sources

Moves(r) ==
  /\ <<refresh[r].status, refresh'[r].status>>
       \in {<<"queued", "running">>, <<"running", "queued">>}

Records(w, r) ==
  /\ claimed[w] = r
  /\ refresh'[r].status = refresh[r].status /\ refresh'[r].dbt = refresh[r].dbt
  /\ \/ cpc[w] = "plan"
     \/ /\ cpc[w] = "audit"
        /\ refresh'[r].audit = "final" /\ refresh'[r].sources = refresh[r].sources
     \/ /\ cpc[w] = "sources"
        /\ refresh'[r].audit = refresh[r].audit /\ refresh'[r].sources

Finishes(w, r) ==
  /\ claimed[w] = r /\ cpc[w] = "finish"
  /\ refresh'[r].status = outcome[w].status /\ refresh'[r].dbt = outcome[w].dbt
  /\ refresh'[r].audit = refresh[r].audit /\ refresh'[r].sources = refresh[r].sources

ColumnStep(w, r) ==
  \/ refresh'[r] = refresh[r]
  \/ Fails(r) \/ Moves(r) \/ Records(w, r) \/ Finishes(w, r)

LEMMA RowColumns ==
  ASSUME NEW row \in Row, NEW s, NEW d, NEW n
  PROVE  LET new == [row EXCEPT !.status = s, !.dbt = d, !.doneAt = n]
         IN  /\ new.status = s /\ new.dbt = d
             /\ new.audit = row.audit /\ new.sources = row.sources
  BY DEF Row

LEMMA FinishedColumns ==
  ASSUME TypeOK, NEW c \in Runs, NEW s, NEW d, SetFinished(c, s, d)
  PROVE  /\ refresh'[c].status = s /\ refresh'[c].dbt = d
         /\ refresh'[c].audit = refresh[c].audit
         /\ refresh'[c].sources = refresh[c].sources
         /\ \A r \in Runs \ {c} : refresh'[r] = refresh[r]
  <1>1. refresh[c] \in Row
    BY DEF TypeOK
  <1>2. refresh' = [refresh EXCEPT ![c] =
          [refresh[c] EXCEPT !.status = s, !.dbt = d, !.doneAt = clock + 1]]
    BY DEF SetFinished, TypeOK
  <1>3. refresh'[c] = [refresh[c] EXCEPT !.status = s, !.dbt = d, !.doneAt = clock + 1]
    BY <1>2 DEF TypeOK
  <1>4. \A r \in Runs \ {c} : refresh'[r] = refresh[r]
    BY <1>2 DEF TypeOK
  <1> QED
    BY <1>1, <1>3, <1>4, RowColumns

LEMMA ColumnSteps ==
  ASSUME TypeInv, NEW w \in Workers, Process(w), NEW r \in Runs
  PROVE  ColumnStep(w, r)
  <1> USE DEF TypeInv, TypeOK, tables
  <1>row. refresh[r] \in Row
    OBVIOUS
  <1>1. UNCHANGED refresh => ColumnStep(w, r)
    BY DEF ColumnStep
  <1>2. CASE \/ NothingQueued(w) \/ PersonalFreesSlot(w) \/ EndPersonalTurn(w)
             \/ GlobalBusy(w) \/ MarkGlobalRunning(w) \/ AcquireGlobal(w)
             \/ PublishShared(w) \/ MarkGlobalSucceeded(w) \/ MarkGlobalFailed(w)
             \/ TrySlot(w) \/ CollectAndBuild(w) \/ CompleteRun(w) \/ Unlock(w)
             \/ RecordBootstrapFailure(w) \/ Crash(w)
    BY <1>1, <1>2
    DEF NothingQueued, PersonalFreesSlot, EndPersonalTurn, GlobalBusy, AcquireGlobal,
        MarkGlobalRunning, PublishShared, MarkGlobalSucceeded, MarkGlobalFailed,
        TrySlot, CollectAndBuild, CompleteRun, Unlock, RecordBootstrapFailure, Crash
  <1>3. ASSUME NEW as, Raise(w, as) \/ PersonalRaise(w, as)
        PROVE  UNCHANGED refresh
    BY <1>3 DEF Raise, PersonalRaise
  <1>4. ASSUME NEW i \in Slots, PersonalTakesSlot(w, i)
        PROVE  UNCHANGED refresh
    BY <1>4 DEF PersonalTakesSlot
  <1>5. CASE RecordPlan(w) \/ RecordAudit(w) \/ UpsertSourceResults(w)
    <2>1. CASE claimed[w] # r
      BY <1>1, <1>5, <2>1 DEF RecordPlan, RecordAudit, UpsertSourceResults, ColumnStep
    <2>2. CASE claimed[w] = r
      <3>1. \/ cpc[w] = "plan" /\ refresh'[r] = [refresh[r] EXCEPT !.audit = "planned"]
            \/ cpc[w] = "audit" /\ refresh'[r] = [refresh[r] EXCEPT !.audit = "final"]
            \/ cpc[w] = "sources" /\ refresh'[r] = [refresh[r] EXCEPT !.sources = TRUE]
        BY <1>5, <2>2 DEF RecordPlan, RecordAudit, UpsertSourceResults
      <3>2. Records(w, r)
        BY <1>row, <2>2, <3>1 DEF Records, Row
      <3> QED
        BY <3>2 DEF ColumnStep
    <2> QED
      BY <2>1, <2>2
  <1>6. CASE ClaimNext(w) \/ Requeue(w)
    <2>1. \/ refresh' = refresh
          \/ \E q \in Queued : refresh' = [refresh EXCEPT ![q].status = "running"]
          \/ /\ refresh[claimed[w]].status = "running"
             /\ refresh' = [refresh EXCEPT ![claimed[w]].status = "queued"]
      BY <1>6 DEF ClaimNext, Requeue
    <2>2. ASSUME NEW q \in Queued, refresh' = [refresh EXCEPT ![q].status = "running"]
          PROVE  refresh'[r] = refresh[r] \/ Moves(r)
      <3>1. CASE q = r
        <4>1. refresh'[r] = [refresh[r] EXCEPT !.status = "running"]
          BY <2>2, <3>1
        <4>2. refresh[r].status = "queued"
          BY <3>1 DEF Queued
        <4> QED
          BY <1>row, <4>1, <4>2, RowReads DEF Moves
      <3> QED
        BY <2>2, <3>1
    <2>3. ASSUME refresh[claimed[w]].status = "running",
                 refresh' = [refresh EXCEPT ![claimed[w]].status = "queued"]
          PROVE  refresh'[r] = refresh[r] \/ Moves(r)
      <3>1. CASE claimed[w] = r
        <4>1. refresh'[r] = [refresh[r] EXCEPT !.status = "queued"]
          BY <2>3, <3>1
        <4> QED
          BY <1>row, <2>3, <3>1, <4>1, RowReads DEF Moves
      <3> QED
        BY <2>3, <3>1
    <2> QED
      BY <2>1, <2>2, <2>3 DEF ColumnStep
  <1>7. CASE Finish(w) \/ RecordFailure(w)
    <2>1. claimed[w] \in Runs
      BY <1>7, LabelFacts DEF Finish, RecordFailure, Claiming
    <2>2. \/ /\ cpc[w] = "finish"
             /\ SetFinished(claimed[w], outcome[w].status, outcome[w].dbt)
          \/ SetFinished(claimed[w], "failed", FALSE)
      BY <1>7 DEF Finish, RecordFailure
    <2>3. CASE claimed[w] # r
      BY <2>1, <2>2, <2>3, FinishedColumns DEF ColumnStep
    <2>4. ASSUME claimed[w] = r, cpc[w] = "finish",
                 SetFinished(claimed[w], outcome[w].status, outcome[w].dbt)
          PROVE  Finishes(w, r)
      BY <2>1, <2>4, FinishedColumns DEF Finishes
    <2>5. ASSUME claimed[w] = r, SetFinished(claimed[w], "failed", FALSE)
          PROVE  Fails(r)
      <3>1. /\ refresh'[r].status = "failed" /\ refresh'[r].dbt = FALSE
            /\ refresh'[r].audit = refresh[r].audit
            /\ refresh'[r].sources = refresh[r].sources
        <4>1. \E d \in BOOLEAN : d = FALSE /\ SetFinished(claimed[w], "failed", d)
          BY <2>5, Zenon
        <4>2. PICK d \in BOOLEAN : d = FALSE /\ SetFinished(claimed[w], "failed", d)
          BY <4>1
        <4> QED
          BY <2>1, <2>5, <4>2, FinishedColumns
      <3> QED
        BY <3>1 DEF Fails
    <2> QED
      BY <2>2, <2>3, <2>4, <2>5 DEF ColumnStep
  <1>8. CASE Restart(w)
    <2>1. PICK overdue \in SUBSET Running : CloseOverdue(overdue)
      BY <1>8 DEF Restart
    <2>2. CASE r \in overdue
      <3>1. refresh'[r] = [refresh[r] EXCEPT !.status = "failed", !.dbt = FALSE,
                                             !.doneAt = clock + 1]
        BY <2>1, <2>2 DEF CloseOverdue
      <3> QED
        BY <1>row, <3>1, RowColumns DEF ColumnStep, Fails
    <2>3. CASE r \notin overdue
      BY <2>1, <2>3 DEF CloseOverdue, ColumnStep
    <2> QED
      BY <2>2, <2>3
  <1> QED
    BY <1>1, <1>2, <1>3, <1>4, <1>5, <1>6, <1>7, <1>8 DEF Process, Step

(* What was published stays published. *)
LEMMA PublishedGrows ==
  ASSUME TypeInv, [Next]_cvars
  PROVE  published \subseteq published'
  <1>1. ASSUME NEW w \in Workers, Process(w) PROVE published \subseteq published'
    BY <1>1, PathSteps
  <1>2. CASE Environment
    BY <1>2 DEF Environment, CreateIfNoActive, CreateBootstrapRun, DropGlobalSession,
                DropSlotSession, tables
  <1> QED
    BY <1>1, <1>2 DEF Next, cvars

(* The worker that takes the step. *)
LEMMA BackingOwn ==
  ASSUME TypeInv, NEW w \in Workers, Process(w), Backing(w)
  PROVE  Backing(w)'
  <1> USE UnfinishedLabels DEF TypeInv, TypeOK, Goto, EndTurn, locals, tables
  <1>1. ASSUME cpc'[w] \notin Unfinished PROVE Backing(w)'
    BY <1>1 DEF Backing
  <1>2. CASE \/ AcquireGlobal(w) \/ MarkGlobalRunning(w) \/ TrySlot(w)
             \/ CollectAndBuild(w) \/ PublishShared(w) \/ CompleteRun(w)
    <2>1. /\ cpc[w] \in Unfinished /\ cpc'[w] \notin {"sources", "finish"}
          /\ refresh' = refresh /\ claimed' = claimed
      BY <1>2 DEF AcquireGlobal, MarkGlobalRunning, TrySlot, CollectAndBuild,
                  PublishShared, CompleteRun
    <2> QED
      BY <2>1 DEF Backing, Successful
  <1>3. CASE RecordPlan(w) \/ RecordAudit(w) \/ UpsertSourceResults(w)
    <2> DEFINE r == claimed[w]
    <2>0. cpc[w] \in Working /\ r \in Runs
      BY <1>3, LabelFacts DEF RecordPlan, RecordAudit, UpsertSourceResults, Claiming
    <2>1. refresh[r] \in Row
      BY <2>0
    <2>2. claimed' = claimed /\ cpc[w] \in Unfinished
      BY <1>3 DEF RecordPlan, RecordAudit, UpsertSourceResults
    <2>3. \/ /\ cpc'[w] = "slot" /\ refresh'[r] = [refresh[r] EXCEPT !.audit = "planned"]
          \/ /\ cpc'[w] = "sources" /\ refresh'[r] = [refresh[r] EXCEPT !.audit = "final"]
          \/ /\ cpc[w] = "sources" /\ cpc'[w] = "finish"
             /\ refresh'[r] = [refresh[r] EXCEPT !.sources = TRUE]
      BY <1>3, <2>0 DEF RecordPlan, RecordAudit, UpsertSourceResults
    <2>4. refresh'[r].status = refresh[r].status /\ refresh'[r].dbt = refresh[r].dbt
      BY <2>1, <2>3 DEF Row
    <2>5. cpc'[w] \in {"sources", "finish"} => refresh'[r].audit = "final"
      BY <2>1, <2>3 DEF Row, Backing
    <2>6. cpc'[w] = "finish" => refresh'[r].sources
      BY <2>1, <2>3 DEF Row
    <2> QED
      BY <2>2, <2>4, <2>5, <2>6 DEF Backing, Successful
  <1>4. CASE ClaimNext(w)
    <2>1. PICK q \in Queued :
            /\ refresh' = [refresh EXCEPT ![q] = [refresh[q] EXCEPT !.status = "running"]]
            /\ claimed' = [claimed EXCEPT ![w] = q]
      BY <1>4 DEF ClaimNext
    <2>2. q \in Runs /\ refresh[q] \in Row /\ claimed'[w] = q
      BY <2>1 DEF Queued
    <2>3. refresh'[q].status = "running"
      BY <2>1, <2>2, RowReads
    <2>4. cpc'[w] = "claimed"
      BY <1>4 DEF ClaimNext
    <2> QED
      BY <2>2, <2>3, <2>4 DEF Backing, Successful
  <1>5. CASE \/ NothingQueued(w) \/ PersonalFreesSlot(w) \/ EndPersonalTurn(w)
             \/ GlobalBusy(w) \/ Finish(w) \/ MarkGlobalSucceeded(w)
             \/ MarkGlobalFailed(w) \/ Unlock(w) \/ Requeue(w) \/ RecordFailure(w)
             \/ RecordBootstrapFailure(w) \/ Restart(w) \/ Crash(w)
    <2>1. cpc'[w] \notin Unfinished
      BY <1>5 DEF NothingQueued, PersonalFreesSlot, EndPersonalTurn, GlobalBusy, Finish,
                  MarkGlobalSucceeded, MarkGlobalFailed, Unlock, Requeue, RecordFailure,
                  RecordBootstrapFailure, Restart, Crash
    <2> QED
      BY <1>1, <2>1
  <1>6. ASSUME NEW as, Raise(w, as) \/ PersonalRaise(w, as)
        PROVE  cpc'[w] \notin Unfinished
    BY <1>6 DEF Raise, PersonalRaise
  <1>7. ASSUME NEW i \in Slots, PersonalTakesSlot(w, i)
        PROVE  cpc'[w] \notin Unfinished
    BY <1>7 DEF PersonalTakesSlot
  <1> QED
    BY <1>1, <1>2, <1>3, <1>4, <1>5, <1>6, <1>7 DEF Process, Step

(* The others: their rows are their own, or are closed under their hands.  *)
LEMMA BackingOthers ==
  ASSUME TypeInv, OwnerInv, NEW w \in Workers, Process(w),
         NEW v \in Workers \ {w}, Backing(v)
  PROVE  Backing(v)'
  <1>1. cpc'[v] = cpc[v] /\ claimed'[v] = claimed[v]
    BY ProcessLocal
  <1>2. CASE cpc[v] \notin Unfinished
    BY <1>1, <1>2, UnfinishedLabels DEF Backing
  <1>3. CASE cpc[v] \in Unfinished
    <2> DEFINE r == claimed[v]
    <2>1. r \in Runs /\ r # 0
      BY <1>3, UnfinishedLabels DEF TypeInv, TypeOK, Claiming
    <2>2. claimed[w] # r /\ refresh[r].status \notin {"absent", "queued"}
      BY <2>1 DEF OwnerInv, OneOwnerPerRun, ClaimedStarted
    <2>3. refresh'[r] = refresh[r] \/ Fails(r) \/ Moves(r)
      BY <2>1, <2>2, ColumnSteps DEF ColumnStep, Records, Finishes
    <2>4. ~Moves(r)
      <3>1. ~GivesBack(w, r)
        BY <2>2 DEF GivesBack
      <3>2. ASSUME Moves(r) PROVE FALSE
        BY <2>1, <2>2, <3>1, <3>2, RowSteps DEF Moves, Claims, Ends, Terminal
      <3> QED
        BY <3>2
    <2> QED
      BY <1>1, <1>3, <2>3, <2>4 DEF Backing, Successful, Fails
  <1> QED
    BY <1>2, <1>3

LEMMA SuccessStep ==
  ASSUME TypeInv, OwnerInv, PublicationPathOwned, BackedInv,
         NEW w \in Workers, Process(w), NEW r \in Runs, Successful(r)'
  PROVE  r \in published' /\ refresh'[r].audit = "final" /\ refresh'[r].sources
  <1>0. published \subseteq published'
    BY PublishedGrows DEF Next
  <1>1. CASE refresh'[r] = refresh[r]
    BY <1>0, <1>1 DEF Successful, BackedInv, SuccessIsBacked
  <1>2. CASE Fails(r) \/ Moves(r)
    BY <1>2 DEF Fails, Moves, Successful
  <1>3. CASE Records(w, r)
    <2>1. cpc[w] \in Unfinished /\ Successful(r)
      BY <1>3, UnfinishedLabels DEF Records, Successful
    <2> QED
      BY <1>3, <2>1 DEF Records, BackedInv, Backing
  <1>4. CASE Finishes(w, r)
    <2>1. outcome[w].dbt /\ cpc[w] = "finish" /\ claimed[w] = r
      BY <1>4 DEF Finishes, Successful
    <2>2. r \in published
      BY <2>1, PassedLabels DEF PublicationPathOwned, Passed
    <2> QED
      BY <1>0, <1>4, <2>1, <2>2 DEF Finishes, BackedInv, Backing
  <1> QED
    BY <1>1, <1>2, <1>3, <1>4, ColumnSteps DEF ColumnStep

LEMMA BackedEnvironment ==
  ASSUME TypeInv, OwnerInv, BackedInv, Environment
  PROVE  BackedInv'
  <1>0. published' = published /\ cpc' = cpc /\ claimed' = claimed
    BY DEF Environment, CreateIfNoActive, CreateBootstrapRun, DropGlobalSession,
           DropSlotSession, tables, locals
  <1>1. \A r \in Runs : \/ refresh'[r] = refresh[r]
                        \/ refresh[r].status = "absent" /\ refresh'[r].status = "queued"
    BY EnvironmentSteps DEF NewRow
  <1>2. SuccessIsBacked'
    BY <1>0, <1>1 DEF BackedInv, SuccessIsBacked, Successful
  <1>3. ASSUME NEW w \in Workers PROVE Backing(w)'
    <2>1. CASE cpc[w] \in Unfinished
      <3>1. claimed[w] \in Runs /\ claimed[w] # 0
        BY <2>1, UnfinishedLabels DEF TypeInv, TypeOK, Claiming
      <3>2. refresh'[claimed[w]] = refresh[claimed[w]]
        BY <1>1, <3>1 DEF OwnerInv, ClaimedStarted
      <3> QED
        BY <1>0, <3>2 DEF BackedInv, Backing, Successful
    <2>2. CASE cpc[w] \notin Unfinished
      BY <1>0, <2>2, UnfinishedLabels DEF Backing
    <2> QED
      BY <2>1, <2>2
  <1> QED
    BY <1>2, <1>3 DEF BackedInv

LEMMA BackedNext ==
  ASSUME TypeInv, OwnerInv, PublicationPathOwned, BackedInv, [Next]_cvars
  PROVE  BackedInv'
  <1>1. ASSUME NEW w \in Workers, Process(w) PROVE BackedInv'
    <2>1. SuccessIsBacked'
      BY <1>1, SuccessStep DEF SuccessIsBacked
    <2>2. \A v \in Workers : Backing(v)'
      BY <1>1, BackingOwn, BackingOthers DEF BackedInv
    <2> QED
      BY <2>1, <2>2 DEF BackedInv
  <1>2. CASE UNCHANGED cvars
    BY <1>2 DEF cvars, BackedInv, SuccessIsBacked, Backing, Successful
  <1> QED
    BY <1>1, <1>2, BackedEnvironment DEF Next

(* What latest_successful may hand to a personal run was published, with   *)
(* its audit and the results of its sources recorded before.               *)
THEOREM SuccessIsBackedAlways == Spec => []SuccessIsBacked
  <1>1. Init => OwnerInv
    BY DEF Init, OwnerInv, OneOwnerPerRun, ClaimedStarted
  <1>2. Init => PublicationPathOwned
    BY PassedLabels DEF Init, PublicationPathOwned, Passed
  <1>3. Init => BackedInv
    BY UnfinishedLabels DEF Init, BackedInv, SuccessIsBacked, Backing, Successful, NewRow
  <1>4. BackedInv => SuccessIsBacked
    BY DEF BackedInv
  <1> QED
    BY <1>1, <1>2, <1>3, <1>4, TypeInit, TypeNext, LockInit, LockNext, PathNext,
       OwnerNext, BackedNext, PTL DEF Spec

-----------------------------------------------------------------------------
(* The writer slots *)

HeldSlots(w) == {i \in Slots : writerSlot[i] = w}

(* A worker holds one slot, the one it found, while it collects, builds    *)
(* and publishes, or one in its personal half; everywhere else none.       *)
SlotOk(w) ==
  /\ cpc[w] \in InSlot => HeldSlots(w) = {scan[w]}
  /\ cpc[w] = "personal_slot" => \E i \in Slots : HeldSlots(w) = {i}
  /\ cpc[w] \notin InSlot \union {"personal_slot"} => HeldSlots(w) = {}

SlotInv == \A w \in Workers : SlotOk(w)

LEMMA SlotLabels ==
  /\ InSlot = {"collect", "publish", "complete"}
  /\ InSlot \subseteq InTry /\ InSlot \cap Personal = {}
  /\ Personal = {"personal", "personal_slot", "personal_done"}
  BY DEF InSlot, InTry, InGlobal, Personal

LEMMA OthersKeepSlots ==
  ASSUME TypeInv, SlotInv, NEW v \in Workers,
         cpc'[v] = cpc[v], scan'[v] = scan[v],
         \A i \in Slots : writerSlot'[i] = v <=> writerSlot[i] = v
  PROVE  SlotOk(v)'
  BY DEF SlotInv, SlotOk, HeldSlots

(* The ways in which a step of w may concern the slots. *)
LEMMA SlotKept ==
  ASSUME TypeInv, SlotInv, NEW w \in Workers, NEW l \in Labels, Goto(w, l),
         UNCHANGED <<writerSlot, scan>>,
         \/ cpc[w] \in InSlot /\ l \in InSlot
         \/ {cpc[w], l} \cap (InSlot \union {"personal_slot"}) = {}
  PROVE  SlotInv'
  <1>1. SlotOk(w)'
    BY GotoType, SlotLabels DEF SlotInv, SlotOk, HeldSlots
  <1> QED
    BY <1>1, GotoType, OthersKeepSlots DEF SlotInv

LEMMA SlotTaken ==
  ASSUME TypeInv, SlotInv, NEW w \in Workers, NEW l \in Labels, NEW i \in Slots,
         Goto(w, l), UNCHANGED scan, cpc[w] \notin InSlot \union {"personal_slot"},
         writerSlot[i] = Free, writerSlot' = [writerSlot EXCEPT ![i] = w],
         l = "personal_slot" \/ (l \in InSlot /\ scan[w] = i)
  PROVE  SlotInv'
  <1>1. \A k \in Slots : writerSlot'[k] = IF k = i THEN w ELSE writerSlot[k]
    BY DEF TypeInv, TypeOK
  <1>2. HeldSlots(w)' = {i}
    BY <1>1 DEF SlotInv, SlotOk, HeldSlots
  <1>3. SlotOk(w)'
    BY <1>2, GotoType, SlotLabels DEF SlotOk
  <1>4. ASSUME NEW v \in Workers \ {w}
        PROVE  SlotOk(v)'
    BY <1>1, GotoType, OthersKeepSlots, WorkersAssumption
  <1> QED
    BY <1>3, <1>4 DEF SlotInv

LEMMA SlotLost ==
  ASSUME TypeInv, SlotInv, NEW w \in Workers, NEW as \in {Free, Dead},
         writerSlot' = Relinquish(writerSlot, w, as),
         cpc'[w] \notin InSlot \union {"personal_slot"},
         \A v \in Workers \ {w} : cpc'[v] = cpc[v] /\ scan'[v] = scan[v]
  PROVE  SlotInv'
  <1>1. \A k \in Slots : writerSlot'[k] = IF writerSlot[k] = w THEN as ELSE writerSlot[k]
    BY DEF TypeInv, TypeOK, Relinquish
  <1>2. HeldSlots(w)' = {}
    BY <1>1, WorkersAssumption DEF HeldSlots
  <1>3. ASSUME NEW v \in Workers \ {w}
        PROVE  SlotOk(v)'
    <2>1. as # v /\ v # w
      BY WorkersAssumption
    <2>2. ASSUME NEW i \in Slots
          PROVE  writerSlot'[i] = v <=> writerSlot[i] = v
      BY <1>1, <2>1
    <2> QED
      BY <2>2, OthersKeepSlots
  <1> QED
    BY <1>2, <1>3 DEF SlotInv, SlotOk

(* A worker without a slot goes on without one. *)
LEMMA SlotNone ==
  ASSUME TypeInv, SlotInv, NEW w \in Workers, UNCHANGED writerSlot,
         {cpc[w], cpc'[w]} \cap (InSlot \union {"personal_slot"}) = {},
         \A v \in Workers \ {w} : cpc'[v] = cpc[v] /\ scan'[v] = scan[v]
  PROVE  SlotInv'
  <1>1. SlotOk(w)'
    BY DEF SlotInv, SlotOk, HeldSlots
  <1> QED
    BY <1>1, OthersKeepSlots DEF SlotInv

LEMMA SlotInit == Init => SlotInv
  <1> SUFFICES ASSUME Init, NEW w \in Workers PROVE SlotOk(w)
    BY DEF SlotInv
  <1>1. HeldSlots(w) = {}
    BY WorkersAssumption DEF Init, HeldSlots
  <1>2. cpc[w] = "down"
    BY DEF Init
  <1> QED
    BY <1>1, <1>2, SlotLabels DEF SlotOk

LEMMA EndTurnOthers ==
  ASSUME TypeInv, NEW w \in Workers, NEW l \in {"idle", "down"}, EndTurn(w, l)
  PROVE  /\ cpc'[w] = l
         /\ \A v \in Workers \ {w} : cpc'[v] = cpc[v] /\ scan'[v] = scan[v]
  BY DEF EndTurn, Goto, TypeInv, TypeOK

LEMMA SlotProcess ==
  ASSUME TypeInv, SlotInv, NEW w \in Workers, Process(w)
  PROVE  SlotInv'
  <1> USE LabelFacts, SlotLabels DEF locals
  <1>1. CASE \/ ClaimNext(w) \/ NothingQueued(w) \/ EndPersonalTurn(w)
             \/ AcquireGlobal(w) \/ GlobalBusy(w) \/ MarkGlobalRunning(w)
             \/ RecordPlan(w) \/ PublishShared(w)
             \/ RecordAudit(w) \/ UpsertSourceResults(w)
             \/ MarkGlobalSucceeded(w) \/ MarkGlobalFailed(w) \/ Restart(w)
    BY <1>1, SlotKept
    DEF ClaimNext, NothingQueued, EndPersonalTurn, AcquireGlobal, GlobalBusy,
        MarkGlobalRunning, RecordPlan, PublishShared, RecordAudit,
        UpsertSourceResults, MarkGlobalSucceeded, MarkGlobalFailed, Restart
  <1>2. CASE CollectAndBuild(w)
    BY <1>2, SlotKept DEF CollectAndBuild
  <1>3. CASE Finish(w)
    BY <1>3, SlotKept DEF Finish
  <1>4. CASE CompleteRun(w)
    BY <1>4, GotoType, SlotLost DEF CompleteRun
  <1>5. CASE PersonalFreesSlot(w)
    BY <1>5, GotoType, SlotLost DEF PersonalFreesSlot
  <1>6. CASE Requeue(w) \/ RecordBootstrapFailure(w) \/ Unlock(w)
    BY <1>6, EndTurnOthers, SlotNone DEF Requeue, RecordBootstrapFailure, Unlock
  <1>7. CASE RecordFailure(w)
    <2>1. CASE Goto(w, "fail_mark") /\ UNCHANGED locals
      BY <1>7, <2>1, SlotKept DEF RecordFailure
    <2>2. CASE EndTurn(w, "idle")
      BY <1>7, <2>2, EndTurnOthers, SlotNone DEF RecordFailure
    <2> QED
      BY <1>7, <2>1, <2>2 DEF RecordFailure
  <1>8. CASE TrySlot(w)
    <2>1. scan[w] \in Slots
      BY DEF TypeInv, TypeOK
    <2>2. CASE Available(writerSlot[scan[w]])
      <3>1. /\ Goto(w, "collect") /\ UNCHANGED scan /\ writerSlot[scan[w]] = Free
            /\ writerSlot' = [writerSlot EXCEPT ![scan[w]] = w]
        BY <1>8, <2>2 DEF TrySlot, Available
      <3>2. cpc[w] \notin InSlot \union {"personal_slot"}
        BY <1>8 DEF TrySlot
      <3> QED
        BY <2>1, <3>1, <3>2, SlotTaken
    <2>3. CASE UNCHANGED <<writerSlot, cpc>>
      <3>1. \A v \in Workers \ {w} : cpc'[v] = cpc[v] /\ scan'[v] = scan[v]
        BY <1>8, <2>3 DEF TrySlot, TypeInv, TypeOK
      <3> QED
        BY <1>8, <2>3, <3>1, SlotNone DEF TrySlot
    <2>4. CASE UNCHANGED <<writerSlot, scan>> /\ Goto(w, "requeue")
      BY <1>8, <2>4, SlotKept DEF TrySlot
    <2> QED
      BY <1>8, <2>2, <2>3, <2>4 DEF TrySlot
  <1>9. ASSUME NEW as \in {Free, Dead}, Raise(w, as) \/ PersonalRaise(w, as)
        PROVE  SlotInv'
    BY <1>9, GotoType, SlotLost DEF Raise, PersonalRaise
  <1>10. CASE Crash(w)
    BY <1>10, EndTurnOthers, SlotLost DEF Crash
  <1>11. ASSUME NEW i \in Slots, PersonalTakesSlot(w, i)
         PROVE  SlotInv'
    BY <1>11, SlotTaken DEF PersonalTakesSlot, Available
  <1> QED
    BY <1>1, <1>2, <1>3, <1>4, <1>5, <1>6, <1>7, <1>8, <1>9, <1>10, <1>11
    DEF Process, Step

LEMMA SlotEnvironment ==
  ASSUME TypeInv, SlotInv, Environment
  PROVE  SlotInv'
  <1>1. UNCHANGED <<cpc, scan>>
    BY DEF Environment, CreateIfNoActive, CreateBootstrapRun, DropGlobalSession,
       DropSlotSession, locals
  <1>2. \A w \in Workers, i \in Slots : writerSlot'[i] = w <=> writerSlot[i] = w
    BY WorkersAssumption
    DEF Environment, CreateIfNoActive, CreateBootstrapRun, DropGlobalSession,
        DropSlotSession, Dropped, TypeInv, TypeOK
  <1> QED
    BY <1>1, <1>2, OthersKeepSlots DEF SlotInv

LEMMA SlotNext == TypeInv /\ SlotInv /\ [Next]_cvars => SlotInv'
  <1>1. SlotInv /\ UNCHANGED cvars => SlotInv'
    BY DEF SlotInv, SlotOk, HeldSlots, cvars
  <1> QED
    BY <1>1, SlotProcess, SlotEnvironment DEF Next

(* acquire and acquire_writer_slot give back what they took: outside of    *)
(* their "with" blocks a worker holds neither the global lock nor a writer *)
(* slot, and never more than one slot, whatever raised, found a lock taken *)
(* or ended in between.                                                    *)
LocksGivenBack ==
  \A w \in Workers :
    /\ globalLock = w => cpc[w] \in InGlobal
    /\ HeldSlots(w) # {} => cpc[w] \in InSlot \union {"personal_slot"}
    /\ \A i, k \in HeldSlots(w) : i = k

(* No worker keeps a lock or a slot that it is not working under. *)
THEOREM LocksGivenBackAlways == Spec => []LocksGivenBack
  <1>1. LockInv /\ SlotInv => LocksGivenBack
    BY SlotLabels DEF LockInv, SlotInv, SlotOk, LocksGivenBack
  <1> QED
    BY <1>1, TypeInit, TypeNext, LockInit, LockNext, SlotInit, SlotNext, PTL DEF Spec

=============================================================================
