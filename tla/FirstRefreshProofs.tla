------------------------- MODULE FirstRefreshProofs -------------------------
(***************************************************************************)
(* FirstRefresh implements the two queue modules, for any users, requests, *)
(* workers, rows and faults, and with that has their invariants; on those  *)
(* rest the hand-off between the queues and the workflow table's own       *)
(* constraints.                                                            *)
(***************************************************************************)
EXTENDS FirstRefresh, FiniteSetTheorems, TLAPS

CP == INSTANCE ConnectorRefreshProofs

LEMMA GlobalAssumptions == CP!WorkersAssumption /\ CP!BoundsAssumption
  BY WorkersAssumption, FirstAssumption
  DEF CP!WorkersAssumption, CP!BoundsAssumption, CP!Free, CP!Dead, Free, Dead

(* CP is C with theorems. *)
LEMMA SameInit == C!Init = CP!Init
  BY DEF C!Init, CP!Init, C!Runs, CP!Runs, C!Slots, CP!Slots, C!NewRow, CP!NewRow,
         C!Free, CP!Free, C!NoOutcome, CP!NoOutcome

LEMMA SameVars == UNCHANGED C!cvars <=> UNCHANGED CP!cvars
  BY DEF C!cvars, CP!cvars

LEMMA SameSteps ==
  /\ \A w : C!Process(w) = CP!Process(w)
  /\ C!Environment = CP!Environment
  BY DEF
     C!Runs, CP!Runs, C!Slots, CP!Slots, C!Statuses, CP!Statuses,
     C!Terminal, CP!Terminal, C!Outcomes, CP!Outcomes, C!NoOutcome,
     CP!NoOutcome, C!NewRow, CP!NewRow, C!Bootstrap, CP!Bootstrap,
     C!Queued, CP!Queued, C!Active, CP!Active, C!Successful,
     CP!Successful, C!InSlot, CP!InSlot, C!BeforeSlot, CP!BeforeSlot,
     C!AfterSlot, CP!AfterSlot, C!InGlobal, CP!InGlobal, C!InTry,
     CP!InTry, C!Working, CP!Working, C!Personal, CP!Personal, C!Goto,
     CP!Goto, C!EndTurn, CP!EndTurn, C!Insert, CP!Insert,
     C!CreateIfNoActive, CP!CreateIfNoActive, C!CreateBootstrapRun,
     CP!CreateBootstrapRun, C!ClaimNext, CP!ClaimNext, C!NothingQueued,
     CP!NothingQueued, C!PersonalTakesSlot, CP!PersonalTakesSlot,
     C!PersonalFreesSlot, CP!PersonalFreesSlot, C!EndPersonalTurn,
     CP!EndPersonalTurn, C!AcquireGlobal, CP!AcquireGlobal,
     C!GlobalBusy, CP!GlobalBusy, C!MarkGlobalRunning,
     CP!MarkGlobalRunning, C!RecordPlan, CP!RecordPlan, C!TrySlot,
     CP!TrySlot, C!CollectAndBuild, CP!CollectAndBuild, C!PublishShared,
     CP!PublishShared, C!CompleteRun, CP!CompleteRun, C!RecordAudit,
     CP!RecordAudit, C!UpsertSourceResults, CP!UpsertSourceResults,
     C!SetFinished, CP!SetFinished, C!Finish, CP!Finish,
     C!MarkGlobalSucceeded, CP!MarkGlobalSucceeded, C!MarkGlobalFailed,
     CP!MarkGlobalFailed, C!Unlock, CP!Unlock, C!Requeue, CP!Requeue,
     C!RecordFailure, CP!RecordFailure, C!RecordBootstrapFailure,
     CP!RecordBootstrapFailure, C!Fault, CP!Fault, C!MarkRefused,
     CP!MarkRefused, C!Raise, CP!Raise, C!PersonalRaise,
     CP!PersonalRaise, C!Crash, CP!Crash, C!DropGlobalSession,
     CP!DropGlobalSession, C!DropSlotSession, CP!DropSlotSession,
     C!Running, CP!Running, C!CloseOverdue, CP!CloseOverdue, C!Restart,
     CP!Restart, C!Step, CP!Step, C!Environment, CP!Environment,
     C!Process, CP!Process, C!tables, CP!tables,
     C!locals, CP!locals, C!Free, CP!Free, C!Dead, CP!Dead, C!Available,
     CP!Available, C!Relinquish, CP!Relinquish, C!RelinquishOne,
     CP!RelinquishOne, C!Dropped, CP!Dropped

-----------------------------------------------------------------------------
(* The two halves of a worker *)

(* The labels a worker may be at in both queues at once. *)
Match(a, b) ==
  \/ a = "down" /\ b = "down"
  \/ a \in {"idle"} \union C!Working /\ b = "away"
  \/ a = "personal" /\ b \in {"ready", "claimed", "slot", "requeue"}
  \/ a = "personal_slot" /\ b \in P!InSlot
  \/ a = "personal_done" /\ b \in {"mark_completed", "unlock", "fail", "fail_mark"}

Halves ==
  /\ cpc \in [Workers -> C!Labels]
  /\ ppc \in [Workers -> P!PLabels]
  /\ tries \in [Workers -> C!Slots]
  /\ \A w \in Workers : Match(cpc[w], ppc[w])

(* A step in which only worker w moves. *)
Moves(w) ==
  \E a \in C!Labels, b \in P!PLabels, i \in C!Slots :
    /\ Match(a, b)
    /\ cpc' = [cpc EXCEPT ![w] = a]
    /\ ppc' = [ppc EXCEPT ![w] = b]
    /\ tries' = [tries EXCEPT ![w] = i]

LEMMA MatchLabels ==
  ASSUME NEW a, NEW b, Match(a, b)
  PROVE  a \in C!Labels /\ b \in P!PLabels
  BY DEF Match, C!Labels, C!Working, C!InTry, C!InGlobal, C!BeforeSlot, C!InSlot,
         C!AfterSlot, C!Personal, P!PLabels, P!InTry, P!InUserLock, P!InSlot

LEMMA MovesWhen ==
  ASSUME Halves, NEW w \in Workers, NEW a, NEW b, NEW i \in C!Slots,
         Match(a, b),
         cpc' = [cpc EXCEPT ![w] = a],
         ppc' = [ppc EXCEPT ![w] = b],
         tries' = [tries EXCEPT ![w] = i]
  PROVE  Moves(w)
  BY MatchLabels DEF Moves

LEMMA MovesKeep ==
  ASSUME Halves, NEW w \in Workers, Moves(w)
  PROVE  Halves'
  <1>1. PICK a \in C!Labels, b \in P!PLabels, i \in C!Slots :
               /\ Match(a, b)
               /\ cpc' = [cpc EXCEPT ![w] = a]
               /\ ppc' = [ppc EXCEPT ![w] = b]
               /\ tries' = [tries EXCEPT ![w] = i]
    BY DEF Moves
  <1>2. /\ cpc' \in [Workers -> C!Labels]
        /\ ppc' \in [Workers -> P!PLabels]
        /\ tries' \in [Workers -> C!Slots]
    BY <1>1 DEF Halves
  <1>3. ASSUME NEW v \in Workers PROVE Match(cpc'[v], ppc'[v])
    <2>1. CASE v = w
      BY <1>1, <2>1 DEF Halves
    <2>2. CASE v # w
      BY <1>1, <2>2 DEF Halves
    <2> QED
      BY <2>1, <2>2
  <1> QED
    BY <1>2, <1>3 DEF Halves

(* What a worker does in the global queue keeps it there. *)
LEMMA GlobalMoves ==
  ASSUME Halves, NEW w \in Workers, cpc[w] \in {"idle"} \union C!Working,
         NEW a \in {"idle"} \union C!Working,
         cpc' = [cpc EXCEPT ![w] = a], UNCHANGED <<ppc, tries>>
  PROVE  Moves(w)
  <1>1. Match(a, "away") /\ ppc[w] = "away"
    BY DEF Halves, Match, C!Working, C!InTry, C!InGlobal, C!BeforeSlot, C!InSlot,
           C!AfterSlot
  <1>2. /\ ppc' = [ppc EXCEPT ![w] = "away"]
        /\ tries' = [tries EXCEPT ![w] = tries[w]] /\ tries[w] \in C!Slots
    BY <1>1 DEF Halves
  <1> QED
    BY <1>1, <1>2, MovesWhen

(* The calls of process_one for a global refresh. *)
GlobalCall(w) ==
  \/ C!ClaimNext(w) \/ C!AcquireGlobal(w) \/ C!GlobalBusy(w) \/ C!MarkGlobalRunning(w)
  \/ C!RecordPlan(w) \/ C!TrySlot(w) \/ C!CollectAndBuild(w) \/ C!PublishShared(w)
  \/ C!CompleteRun(w) \/ C!RecordAudit(w) \/ C!UpsertSourceResults(w) \/ C!Finish(w)
  \/ C!MarkGlobalSucceeded(w) \/ C!MarkGlobalFailed(w) \/ C!Unlock(w)
  \/ C!Requeue(w) \/ C!RecordFailure(w) \/ C!RecordBootstrapFailure(w)
  \/ \E as \in {Free, Dead} : C!Raise(w, as)

LEMMA GlobalCallLabels ==
  ASSUME Halves, NEW w \in Workers, GlobalCall(w)
  PROVE  /\ cpc[w] \in {"idle"} \union C!Working
         /\ \E a \in {"idle"} \union C!Working : cpc' = [cpc EXCEPT ![w] = a]
  <1> DEFINE G == {"idle", "claimed", "mark_running", "plan", "slot", "collect",
                   "publish", "complete", "audit", "sources", "finish", "mark_ok",
                   "mark_failed", "unlock", "requeue", "fail", "fail_mark"}
  <1>1. G = {"idle"} \union C!Working
    BY DEF C!Working, C!InTry, C!InGlobal, C!BeforeSlot, C!InSlot, C!AfterSlot
  <1>2. cpc = [cpc EXCEPT ![w] = cpc[w]]
    BY DEF Halves
  <1>3. CASE C!ClaimNext(w) \/ C!AcquireGlobal(w) \/ C!GlobalBusy(w)
               \/ C!MarkGlobalRunning(w) \/ C!RecordPlan(w)
    BY <1>1, <1>3 DEF C!ClaimNext, C!AcquireGlobal, C!GlobalBusy, C!MarkGlobalRunning,
       C!RecordPlan, C!Goto
  <1>4. CASE C!TrySlot(w)
    BY <1>1, <1>2, <1>4 DEF C!TrySlot, C!Goto
  <1>5. CASE C!CollectAndBuild(w) \/ C!PublishShared(w) \/ C!CompleteRun(w)
               \/ C!RecordAudit(w) \/ C!UpsertSourceResults(w)
    BY <1>1, <1>5 DEF C!CollectAndBuild, C!PublishShared, C!CompleteRun, C!RecordAudit,
       C!UpsertSourceResults, C!Goto
  <1>6. CASE C!Finish(w) \/ C!MarkGlobalSucceeded(w) \/ C!MarkGlobalFailed(w)
               \/ C!Unlock(w)
    BY <1>1, <1>6 DEF C!Finish, C!MarkGlobalSucceeded, C!MarkGlobalFailed, C!Unlock,
       C!EndTurn, C!Goto
  <1>7. CASE C!Requeue(w) \/ C!RecordFailure(w) \/ C!RecordBootstrapFailure(w)
    BY <1>1, <1>7 DEF C!Requeue, C!RecordFailure, C!RecordBootstrapFailure, C!EndTurn,
       C!Goto
  <1>8. ASSUME NEW as, C!Raise(w, as)
        PROVE  cpc[w] \in G /\ \E a \in G : cpc' = [cpc EXCEPT ![w] = a]
    BY <1>8 DEF C!Raise, C!InTry, C!InGlobal, C!BeforeSlot, C!InSlot, C!AfterSlot, C!Goto
  <1> QED
    BY <1>1, <1>3, <1>4, <1>5, <1>6, <1>7, <1>8 DEF GlobalCall

GlobalWork(w) ==
  \/ GlobalStep(w) \/ MarkGlobalRunning(w) \/ GlobalSlot(w) \/ GlobalEndsSlot(w)
  \/ MarkGlobalSucceeded(w) \/ MarkGlobalFailed(w) \/ RecordBootstrapFailure(w)
  \/ \E as \in {Free, Dead} : Raise(w, as)

LEMMA GlobalWorkCalls ==
  ASSUME NEW w \in Workers, GlobalWork(w)
  PROVE  GlobalCall(w) /\ UNCHANGED <<ppc, tries>>
  <1>1. CASE GlobalStep(w)
    BY <1>1 DEF GlobalStep, GlobalCall, pOnly
  <1>2. CASE MarkGlobalRunning(w) \/ MarkGlobalFailed(w) \/ RecordBootstrapFailure(w)
    BY <1>2 DEF MarkGlobalRunning, MarkGlobalFailed, RecordBootstrapFailure, GlobalCall,
       pOnly
  <1>3. CASE GlobalSlot(w)
    BY <1>3 DEF GlobalSlot, GlobalCall, pOnly
  <1>4. CASE GlobalEndsSlot(w)
    BY <1>4 DEF GlobalEndsSlot, GlobalCall, P!GlobalFreesSlot, P!plocals
  <1>5. CASE MarkGlobalSucceeded(w)
    BY <1>5 DEF MarkGlobalSucceeded, GlobalCall, P!QueueWaiting, P!plocals, pOnly
  <1>6. ASSUME NEW as \in {Free, Dead}, Raise(w, as)
        PROVE  GlobalCall(w) /\ UNCHANGED <<ppc, tries>>
    BY <1>6 DEF Raise, GlobalCall, pOnly
  <1> QED
    BY <1>1, <1>2, <1>3, <1>4, <1>5, <1>6 DEF GlobalWork

LEMMA GlobalWorkMoves ==
  ASSUME Halves, NEW w \in Workers, GlobalWork(w)
  PROVE  Moves(w)
  BY GlobalWorkCalls, GlobalCallLabels, GlobalMoves

PersonalWork(w) ==
  \/ StartTurn(w) \/ EndTurn(w) \/ PersonalStep(w) \/ TakeSlot(w)
  \/ MarkPersonalRunning(w) \/ WorkflowNotReady(w) \/ PublishResults(w)
  \/ MarkPersonalCompleted(w) \/ MarkPersonalFailed(w)
  \/ \E as \in {Free, Dead} : RaiseInRun(w, as)

LEMMA PersonalWorkMoves ==
  ASSUME Halves, NEW w \in Workers, PersonalWork(w)
  PROVE  Moves(w)
  <1>0. /\ cpc = [cpc EXCEPT ![w] = cpc[w]] /\ ppc = [ppc EXCEPT ![w] = ppc[w]]
        /\ tries = [tries EXCEPT ![w] = tries[w]]
        /\ tries[w] \in C!Slots /\ 0 \in C!Slots
        /\ Match(cpc[w], ppc[w])
        /\ C!Slots = P!Slots
    BY FirstAssumption DEF Halves, C!Slots, P!Slots
  <1>1. CASE StartTurn(w)
    <2>1. Match("personal", "ready")
      BY DEF Match
    <2> QED
      BY <1>0, <1>1, <2>1, MovesWhen DEF StartTurn, C!NothingQueued, P!StartTurn, C!Goto,
         P!PGoto, P!plocals
  <1>2. CASE EndTurn(w)
    <2>1. Match("idle", "away")
      BY DEF Match
    <2>2. ppc' = [ppc EXCEPT ![w] = "away"] /\ \E i \in C!Slots : tries' = [tries EXCEPT ![w] = i]
      BY <1>0, <1>2 DEF EndTurn, P!NothingToRun, P!UnlockUser, P!RequeueRun, P!FailRun,
         P!PEndTurn, P!PGoto, P!plocals, Halves
    <2> QED
      BY <1>2, <2>1, <2>2, MovesWhen DEF EndTurn, C!EndPersonalTurn, C!Goto
  <1>3. CASE PersonalStep(w)
    <2>1. cpc' = cpc
      BY <1>3 DEF PersonalStep, cOnly
    <2>2. CASE P!ClaimRun(w) \/ P!AcquireUser(w) \/ P!UserBusy(w)
      BY <1>0, <2>1, <2>2, MovesWhen DEF P!ClaimRun, P!AcquireUser, P!UserBusy, P!PGoto,
         P!plocals, Match, C!Working, C!InTry, C!InGlobal, C!BeforeSlot, C!InSlot,
         C!AfterSlot, P!InSlot
    <2>3. CASE P!SlotBusy(w)
      BY <1>0, <2>1, <2>3, MovesWhen DEF P!SlotBusy, P!PGoto, Match, P!InSlot
    <2>4. CASE P!BuildUserModels(w)
      BY <1>0, <2>1, <2>4, MovesWhen DEF P!BuildUserModels, P!PGoto, P!plocals, Match,
         P!InSlot
    <2>5. CASE P!FailRun(w) /\ ppc'[w] = "fail_mark"
      <3>1. ppc[w] = "fail" /\ UNCHANGED tries /\ ppc' = [ppc EXCEPT ![w] = "fail_mark"]
        BY <2>5 DEF P!FailRun, P!PEndTurn, P!PGoto, P!plocals, Halves
      <3>2. Match(cpc[w], "fail_mark")
        BY <1>0, <3>1 DEF Match, P!InSlot
      <3> QED
        BY <1>0, <2>1, <3>1, <3>2, MovesWhen
    <2> QED
      BY <1>3, <2>2, <2>3, <2>4, <2>5 DEF PersonalStep
  <1>4. CASE TakeSlot(w)
    <2>1. Match("personal_slot", "mark_running") /\ Match("personal_slot", "build")
      BY DEF Match, P!InSlot
    <2> QED
      BY <1>0, <1>4, <2>1, MovesWhen DEF TakeSlot, P!TakeSlot, C!PersonalTakesSlot, C!Goto,
         P!PGoto, P!plocals
  <1>5. CASE MarkPersonalRunning(w)
    <2>1. Match(cpc[w], "build")
      BY <1>0, <1>5 DEF MarkPersonalRunning, Match, P!InSlot
    <2> QED
      BY <1>0, <1>5, <2>1, MovesWhen DEF MarkPersonalRunning, P!MarkPersonalRunning, P!PGoto,
         P!plocals, cOnly
  <1>6. CASE WorkflowNotReady(w) \/ \E as \in {Free, Dead} : RaiseInRun(w, as)
    <2>1. Match("personal_done", "fail")
      BY DEF Match
    <2>2. /\ cpc' = [cpc EXCEPT ![w] = "personal_done"]
          /\ ppc' = [ppc EXCEPT ![w] = "fail"] /\ UNCHANGED tries
      BY <1>6 DEF WorkflowNotReady, RaiseInRun, P!RaiseInRun, C!PersonalRaise, C!Goto,
         P!PGoto, P!plocals
    <2> QED
      BY <1>0, <2>1, <2>2, MovesWhen
  <1>7. CASE PublishResults(w)
    <2>1. Match("personal_done", "mark_completed") /\ Match("personal_done", "unlock")
      BY DEF Match
    <2> QED
      BY <1>0, <1>7, <2>1, MovesWhen DEF PublishResults, P!PublishResults,
         C!PersonalFreesSlot, C!Goto, P!PGoto, P!plocals
  <1>8. CASE MarkPersonalCompleted(w)
    <2>1. Match(cpc[w], "unlock")
      BY <1>0, <1>8 DEF MarkPersonalCompleted, P!MarkPersonalCompleted, Match, P!InSlot
    <2> QED
      BY <1>0, <1>8, <2>1, MovesWhen DEF MarkPersonalCompleted, P!MarkPersonalCompleted,
         P!PGoto, P!plocals, cOnly
  <1>9. CASE MarkPersonalFailed(w)
    <2>1. Match("idle", "away")
      BY DEF Match
    <2> QED
      BY <1>0, <1>9, <2>1, MovesWhen DEF MarkPersonalFailed, P!MarkPersonalFailed,
         C!EndPersonalTurn, C!Goto, P!PEndTurn, P!PGoto
  <1> QED
    BY <1>1, <1>2, <1>3, <1>4, <1>5, <1>6, <1>7, <1>8, <1>9 DEF PersonalWork

(* The process as such. *)
LEMMA ProcessMoves ==
  ASSUME Halves, NEW w \in Workers, Crash(w) \/ Restart(w)
  PROVE  Moves(w)
  <1>0. /\ tries = [tries EXCEPT ![w] = tries[w]]
        /\ tries[w] \in C!Slots /\ 0 \in C!Slots
    BY FirstAssumption DEF Halves, C!Slots
  <1>1. CASE Crash(w)
    <2>1. Match("down", "down")
      BY DEF Match
    <2> QED
      BY <1>0, <1>1, <2>1, MovesWhen DEF Crash, C!Crash, P!CrashInRun, C!EndTurn, C!Goto,
         P!PEndTurn, P!PGoto
  <1>2. CASE Restart(w)
    <2>1. Match("idle", "away")
      BY DEF Match
    <2> QED
      BY <1>0, <1>2, <2>1, MovesWhen DEF Restart, C!Restart, P!RestartIdle, C!Goto, P!PGoto,
         P!plocals
  <1> QED
    BY <1>1, <1>2

Sessions ==
  \/ DropGlobalSession
  \/ \E i \in C!Slots : DropSlotSession(i)
  \/ \E u \in Users : DropUserSession(u)

(* What is not a step of a worker moves none. *)
LEMMA ApiStays ==
  ASSUME Api
  PROVE  UNCHANGED <<cpc, ppc, tries, claimed>>
  <1>1. ASSUME NEW c \in Clients, NEW u \in Users, Submit(c, u)
        PROVE  UNCHANGED <<cpc, ppc, tries, claimed>>
    BY <1>1 DEF Submit, cOnly, pOnly
  <1>2. ASSUME NEW c \in Clients, ReturnExisting(c) \/ NoSharedData(c)
        PROVE  UNCHANGED <<cpc, ppc, tries, claimed>>
    BY <1>2 DEF ReturnExisting, NoSharedData, cOnly, pOnly
  <1>3. ASSUME NEW c \in Clients, StartBootstrap(c) \/ BindLatest(c)
        PROVE  UNCHANGED <<cpc, ppc, tries, claimed>>
    BY <1>3 DEF StartBootstrap, BindLatest, P!SubmitRun, P!plocals, cOnly
  <1>4. ASSUME NEW c \in Clients, CheckQuota(c) \/ CreateRun(c)
        PROVE  UNCHANGED <<cpc, ppc, tries, claimed>>
    BY <1>4 DEF CheckQuota, CreateRun, P!CheckQuota, P!CreateRun, P!plocals, cOnly
  <1>5. ASSUME NEW c \in Clients, CreateWorkflow(c)
        PROVE  UNCHANGED <<cpc, ppc, tries, claimed>>
    BY <1>5 DEF CreateWorkflow, P!CreateRun, P!plocals
  <1>6. ASSUME NEW c \in Clients, RunRefused(c) \/ WorkflowRefused(c)
        PROVE  UNCHANGED <<cpc, ppc, tries, claimed>>
    BY <1>6 DEF RunRefused, WorkflowRefused, P!CreateRefused, P!plocals, cOnly
  <1>7. ASSUME NEW p \in P!PRuns, CancelQueued(p)
        PROVE  UNCHANGED <<cpc, ppc, tries, claimed>>
    BY <1>7 DEF CancelQueued, P!CancelQueued, P!plocals, cOnly
  <1>8. ASSUME NEW r \in C!Runs, CreateIfNoActive(r)
        PROVE  UNCHANGED <<cpc, ppc, tries, claimed>>
    BY <1>8 DEF CreateIfNoActive, C!CreateIfNoActive, C!locals, pOnly
  <1> QED
    BY <1>1, <1>2, <1>3, <1>4, <1>5, <1>6, <1>7, <1>8 DEF Api

LEMMA SessionsStay ==
  ASSUME Sessions
  PROVE  UNCHANGED <<cpc, ppc, tries, claimed>>
  <1>1. CASE DropGlobalSession
    BY <1>1 DEF DropGlobalSession, C!DropGlobalSession, C!locals, pOnly
  <1>2. ASSUME NEW i \in C!Slots, DropSlotSession(i)
        PROVE  UNCHANGED <<cpc, ppc, tries, claimed>>
    BY <1>2 DEF DropSlotSession, C!DropSlotSession, C!locals, pOnly
  <1>3. ASSUME NEW u \in Users, DropUserSession(u)
        PROVE  UNCHANGED <<cpc, ppc, tries, claimed>>
    BY <1>3 DEF DropUserSession, P!DropUserSession, P!plocals, cOnly
  <1> QED
    BY <1>1, <1>2, <1>3 DEF Sessions

LEMMA NextCases ==
  Next <=>
    \/ \E w \in Workers : GlobalWork(w) \/ PersonalWork(w) \/ Crash(w) \/ Restart(w)
    \/ Api
    \/ Sessions
  BY DEF Next, Work, GlobalWork, PersonalWork, Sessions

LEMMA HalvesInit == Init => Halves
  BY FirstAssumption DEF Init, C!Init, P!Init, Halves, Match, C!Slots, C!Labels, P!PLabels

LEMMA HalvesNext == Halves /\ [Next]_vars => Halves'
  <1> SUFFICES ASSUME Halves, [Next]_vars PROVE Halves'
    OBVIOUS
  <1>1. ASSUME NEW w \in Workers,
               GlobalWork(w) \/ PersonalWork(w) \/ Crash(w) \/ Restart(w)
        PROVE  Halves'
    BY <1>1, GlobalWorkMoves, PersonalWorkMoves, ProcessMoves, MovesKeep
  <1>2. CASE UNCHANGED <<cpc, ppc, tries>>
    BY <1>2 DEF Halves
  <1>3. CASE UNCHANGED vars
    BY <1>2, <1>3 DEF vars, C!cvars, P!pvars
  <1> QED
    BY <1>1, <1>2, <1>3, ApiStays, SessionsStay, NextCases

-----------------------------------------------------------------------------
(* The refinements *)

LEMMA GlobalInit == Init => C!Init
  BY DEF Init

LEMMA GlobalCallRefines ==
  ASSUME NEW w \in Workers, GlobalCall(w)
  PROVE  C!Process(w)
  BY DEF GlobalCall, C!Process, C!Step, Free, Dead, C!Free, C!Dead

LEMMA PersonalRefinesGlobal ==
  ASSUME Halves, NEW w \in Workers, PersonalWork(w)
  PROVE  C!Process(w) \/ UNCHANGED C!cvars
  <1>1. CASE StartTurn(w)
    BY <1>1 DEF StartTurn, C!Process, C!Step
  <1>2. CASE EndTurn(w) \/ MarkPersonalFailed(w)
    BY <1>2 DEF EndTurn, MarkPersonalFailed, C!Process, C!Step
  <1>3. CASE PersonalStep(w)
    <2>1. UNCHANGED <<writerSlot, faults>>
      BY <1>3 DEF PersonalStep, P!ClaimRun, P!AcquireUser, P!UserBusy, P!SlotBusy,
         P!BuildUserModels, P!FailRun
    <2> QED
      BY <1>3, <2>1 DEF PersonalStep, cOnly, C!cvars
  <1>4. CASE TakeSlot(w)
    <2>1. tries[w] \in C!Slots
      BY DEF Halves
    <2> QED
      BY <1>4, <2>1 DEF TakeSlot, C!Process
  <1>5. CASE MarkPersonalRunning(w) \/ MarkPersonalCompleted(w)
    BY <1>5 DEF MarkPersonalRunning, MarkPersonalCompleted, P!MarkPersonalRunning,
       P!MarkPersonalCompleted, cOnly, C!cvars
  <1>6. CASE WorkflowNotReady(w)
    <2>1. C!PersonalRaise(w, C!Free) /\ UNCHANGED faults
      BY <1>6 DEF WorkflowNotReady, P!NotReady, Free, C!Free
    <2> QED
      BY <2>1 DEF C!Process
  <1>7. CASE PublishResults(w)
    BY <1>7 DEF PublishResults, C!Process, C!Step
  <1>8. ASSUME NEW as \in {Free, Dead}, RaiseInRun(w, as)
        PROVE  C!Process(w) \/ UNCHANGED C!cvars
    BY <1>8 DEF RaiseInRun, C!Process, Free, Dead, C!Free, C!Dead
  <1> QED
    BY <1>1, <1>2, <1>3, <1>4, <1>5, <1>6, <1>7, <1>8 DEF PersonalWork

LEMMA ProcessRefinesGlobal ==
  ASSUME Halves, NEW w \in Workers, Crash(w) \/ Restart(w)
  PROVE  C!Process(w)
  <1>1. Match(cpc[w], ppc[w])
    BY DEF Halves
  <1>2. ReopenRefused(w) => C!MarkRefused(w)
    BY <1>1 DEF ReopenRefused, Match, P!InSlot, C!MarkRefused, P!MarkRefused
  <1> QED
    BY <1>2 DEF Crash, Restart, C!Process

LEMMA ApiQuiet ==
  ASSUME Api, \A c \in Clients : ~CreateWorkflow(c)
  PROVE  (\E r \in C!Runs : C!CreateIfNoActive(r)) \/ UNCHANGED C!cvars
  <1>1. ASSUME NEW c \in Clients, NEW u \in Users, Submit(c, u)
        PROVE  UNCHANGED C!cvars
    BY <1>1 DEF Submit, cOnly, C!cvars
  <1>2. ASSUME NEW c \in Clients, ReturnExisting(c) \/ NoSharedData(c)
        PROVE  UNCHANGED C!cvars
    BY <1>2 DEF ReturnExisting, NoSharedData, cOnly, C!cvars
  <1>3. ASSUME NEW c \in Clients, StartBootstrap(c) \/ BindLatest(c)
        PROVE  UNCHANGED C!cvars
    BY <1>3 DEF StartBootstrap, BindLatest, P!SubmitRun, cOnly, C!cvars
  <1>4. ASSUME NEW c \in Clients, CheckQuota(c) \/ CreateRun(c)
        PROVE  UNCHANGED C!cvars
    BY <1>4 DEF CheckQuota, CreateRun, P!CheckQuota, P!CreateRun, cOnly, C!cvars
  <1>5. ASSUME NEW c \in Clients, RunRefused(c) \/ WorkflowRefused(c)
        PROVE  UNCHANGED C!cvars
    BY <1>5 DEF RunRefused, WorkflowRefused, P!CreateRefused, cOnly, C!cvars
  <1>6. ASSUME NEW p \in P!PRuns, CancelQueued(p)
        PROVE  UNCHANGED C!cvars
    BY <1>6 DEF CancelQueued, P!CancelQueued, cOnly, C!cvars
  <1>7. ASSUME NEW r \in C!Runs, CreateIfNoActive(r)
        PROVE  C!CreateIfNoActive(r)
    BY <1>7 DEF CreateIfNoActive
  <1> QED
    BY <1>1, <1>2, <1>3, <1>4, <1>5, <1>6, <1>7 DEF Api

LEMMA ApiRefinesGlobal ==
  ASSUME Api
  PROVE  C!Environment \/ UNCHANGED C!cvars
  <1>1. ASSUME NEW c \in Clients, CreateWorkflow(c)
        PROVE  C!Environment
    <2>1. UNCHANGED <<writerSlot, faults>>
      BY <1>1 DEF CreateWorkflow, P!CreateRun
    <2>2. \E r \in C!Runs : C!CreateBootstrapRun(r)
      BY <1>1, <2>1 DEF CreateWorkflow, C!CreateBootstrapRun, C!locals
    <2> QED
      BY <2>2 DEF C!Environment
  <1> QED
    BY <1>1, ApiQuiet DEF C!Environment

LEMMA SessionsRefineGlobal ==
  ASSUME Sessions
  PROVE  C!Environment \/ UNCHANGED C!cvars
  <1>1. CASE DropGlobalSession
    BY <1>1 DEF DropGlobalSession, C!Environment
  <1>2. ASSUME NEW i \in C!Slots, DropSlotSession(i)
        PROVE  C!Environment
    BY <1>2 DEF DropSlotSession, C!Environment
  <1>3. ASSUME NEW u \in Users, DropUserSession(u)
        PROVE  UNCHANGED C!cvars
    BY <1>3 DEF DropUserSession, P!DropUserSession, cOnly, C!cvars
  <1> QED
    BY <1>1, <1>2, <1>3 DEF Sessions

LEMMA GlobalNext == Halves /\ [Next]_vars => [C!Next]_(C!cvars)
  <1> SUFFICES ASSUME Halves, [Next]_vars PROVE C!Next \/ UNCHANGED C!cvars
    OBVIOUS
  <1>1. ASSUME NEW w \in Workers,
               GlobalWork(w) \/ PersonalWork(w) \/ Crash(w) \/ Restart(w)
        PROVE  C!Next \/ UNCHANGED C!cvars
    BY <1>1, GlobalWorkCalls, GlobalCallRefines, PersonalRefinesGlobal,
       ProcessRefinesGlobal DEF C!Next
  <1>2. CASE UNCHANGED vars
    BY <1>2 DEF vars
  <1> QED
    BY <1>1, <1>2, ApiRefinesGlobal, SessionsRefineGlobal, NextCases DEF C!Next

(* With the personal half, the workflows and the clicks hidden, the whole  *)
(* system is a global queue with its workers.                              *)
THEOREM GlobalQueueImplemented == Spec => ImplementsConnectorRefresh
  BY GlobalInit, HalvesInit, HalvesNext, GlobalNext, PTL
  DEF Spec, ImplementsConnectorRefresh, C!Spec

-----------------------------------------------------------------------------
(* What the theorems about the global queue say of the whole *)

GlobalInv ==
  CP!TypeInv /\ CP!LockInv /\ CP!OwnerInv /\ CP!PublicationPathOwned

LEMMA GlobalInvInit == Init => GlobalInv
  <1>1. Init => CP!Init
    BY GlobalInit, SameInit
  <1>2. CP!Init => CP!OwnerInv
    BY DEF CP!Init, CP!OwnerInv, CP!OneOwnerPerRun, CP!ClaimedStarted
  <1>3. CP!Init => CP!PublicationPathOwned
    BY DEF CP!Init, CP!PublicationPathOwned, CP!AfterSlot
  <1> QED
    BY <1>1, <1>2, <1>3, GlobalAssumptions, CP!TypeInit, CP!LockInit DEF GlobalInv

LEMMA GlobalInvNext == Halves /\ GlobalInv /\ [Next]_vars => GlobalInv'
  <1> SUFFICES ASSUME Halves, GlobalInv, [Next]_vars PROVE GlobalInv'
    OBVIOUS
  <1>1. [CP!Next]_(CP!cvars)
    BY GlobalNext, SameSteps, SameVars DEF C!Next, CP!Next
  <1> QED
    BY <1>1, GlobalAssumptions, CP!TypeNext, CP!LockNext, CP!OwnerNext, CP!PathNext
    DEF GlobalInv

(* A worker with a refresh has a row that left the queue. *)
LEMMA ClaimedFacts ==
  ASSUME GlobalInv, NEW w \in Workers
  PROVE  /\ claimed[w] \in C!Runs \union {0}
         /\ cpc[w] \in C!Working <=> claimed[w] # 0
         /\ claimed[w] # 0 => refresh[claimed[w]].status \notin {"absent", "queued"}
         /\ \A v \in Workers : claimed[v] = claimed[w] /\ claimed[v] # 0 => v = w
  <1>1. C!Runs = CP!Runs /\ C!Working = CP!Working
    BY DEF C!Runs, CP!Runs, C!Working, CP!Working, C!InTry, CP!InTry, C!InGlobal,
       CP!InGlobal, C!BeforeSlot, CP!BeforeSlot, C!InSlot, CP!InSlot, C!AfterSlot,
       CP!AfterSlot
  <1> QED
    BY <1>1 DEF GlobalInv, CP!TypeInv, CP!TypeOK, CP!Claiming, CP!OwnerInv,
       CP!OneOwnerPerRun, CP!ClaimedStarted

(* A step of worker w touches the locals of no other, and no trigger.      *)
LEMMA ProcessFacts ==
  ASSUME GlobalInv, NEW w \in Workers, C!Process(w)
  PROVE  /\ \A v \in Workers \ {w} : cpc'[v] = cpc[v] /\ claimed'[v] = claimed[v]
         /\ \A r \in C!Runs : refresh'[r].trigger = refresh[r].trigger
  <1>1. CP!Process(w) /\ CP!TypeInv
    BY SameSteps DEF GlobalInv
  <1>2. C!Runs = CP!Runs
    BY DEF C!Runs, CP!Runs
  <1>3. \A v \in Workers \ {w} : cpc'[v] = cpc[v] /\ claimed'[v] = claimed[v]
    BY <1>1, GlobalAssumptions, CP!ProcessLocal
  <1>4. \A r \in C!Runs : refresh'[r].trigger = refresh[r].trigger
    BY <1>1, <1>2, GlobalAssumptions, CP!RowSteps
  <1> QED
    BY <1>3, <1>4

-----------------------------------------------------------------------------
(* The workflows *)

Typed ==
  /\ wf \in [C!Runs -> Workflow]
  /\ click \in [Clients -> Click]
  /\ req \in [Clients -> P!Request]

(* Every update but the insert keeps run and user.                         *)
Rewrites ==
  /\ wf' \in [C!Runs -> Workflow]
  /\ \A r \in C!Runs : wf'[r].run = wf[r].run /\ wf'[r].user = wf[r].user

LEMMA SomeUserType == P!SomeUser \in Users
  BY FirstAssumption DEF P!SomeUser

LEMMA NoWorkflowType == NoWorkflow \in Workflow /\ NoClick \in Click
  BY SomeUserType DEF NoWorkflow, Workflow, WorkflowStatus, NoClick, Click

LEMMA SetWfRewrites ==
  ASSUME Typed, NEW r, NEW s \in WorkflowStatus, SetWf(r, s)
  PROVE  Rewrites
  BY DEF Typed, SetWf, Workflow, Rewrites

FailedRow(row) ==
  [status |-> IF row.retries + 1 >= MaxRetries THEN "failed_terminal"
                                               ELSE "failed_retryable",
   user |-> row.user, run |-> row.run, retries |-> row.retries + 1]

LEMMA FailedRewrites ==
  ASSUME Typed, NEW r \in C!Runs, GlobalFailed(r)
  PROVE  /\ Rewrites
         /\ wf' = [wf EXCEPT ![r] = FailedRow(wf[r])]
  <1> DEFINE s == FailedRow(wf[r]).status
             once == [wf EXCEPT ![r] = [wf[r] EXCEPT !.retries = wf[r].retries + 1]]
  <1>1. wf' = [once EXCEPT ![r] = [once[r] EXCEPT !.status = s]]
    BY DEF GlobalFailed, Typed, FailedRow
  <1>2. wf[r] \in Workflow
    BY DEF Typed
  <1>3. FailedRow(wf[r]) \in Workflow
    BY <1>2 DEF Workflow, WorkflowStatus, FailedRow
  <1>4. once[r] = [wf[r] EXCEPT !.retries = wf[r].retries + 1]
    BY DEF Typed
  <1>5. [once[r] EXCEPT !.status = s] = FailedRow(wf[r])
    BY <1>2, <1>4 DEF Workflow, FailedRow
  <1>6. wf' = [wf EXCEPT ![r] = FailedRow(wf[r])]
    BY <1>1, <1>5 DEF Typed
  <1> QED
    BY <1>2, <1>3, <1>6 DEF Typed, Rewrites, FailedRow

LEMMA SameRewrites ==
  ASSUME Typed, UNCHANGED wf
  PROVE  Rewrites
  BY DEF Typed, Rewrites

LEMMA WorkRewrites ==
  ASSUME Typed, GlobalInv, NEW w \in Workers,
         GlobalWork(w) \/ PersonalWork(w) \/ Crash(w) \/ Restart(w)
  PROVE  Rewrites /\ UNCHANGED click
  <1> USE DEF fvars
  <1>0. {"global_running", "personal_queued", "personal_running", "completed",
         "personal_failed_retryable"} \subseteq WorkflowStatus
    BY DEF WorkflowStatus
  <1>1. CASE GlobalStep(w) \/ GlobalSlot(w) \/ GlobalEndsSlot(w)
               \/ \E as \in {Free, Dead} : Raise(w, as)
    BY <1>1, SameRewrites DEF GlobalStep, GlobalSlot, GlobalEndsSlot, Raise, fvars
  <1>2. CASE MarkGlobalRunning(w)
    BY <1>0, <1>2, SameRewrites, SetWfRewrites DEF MarkGlobalRunning
  <1>3. CASE MarkGlobalSucceeded(w)
    BY <1>0, <1>3, SameRewrites, SetWfRewrites DEF MarkGlobalSucceeded
  <1>4. CASE MarkGlobalFailed(w) \/ RecordBootstrapFailure(w)
    <2>1. claimed[w] \in C!Runs
      BY <1>4, ClaimedFacts DEF MarkGlobalFailed, RecordBootstrapFailure,
         C!MarkGlobalFailed, C!RecordBootstrapFailure, C!Working, C!InTry, C!InGlobal,
         C!AfterSlot
    <2> QED
      BY <1>4, <2>1, FailedRewrites DEF MarkGlobalFailed, RecordBootstrapFailure
  <1>5. CASE StartTurn(w) \/ EndTurn(w) \/ PersonalStep(w) \/ TakeSlot(w)
               \/ WorkflowNotReady(w) \/ PublishResults(w)
               \/ \E as \in {Free, Dead} : RaiseInRun(w, as)
    BY <1>5, SameRewrites DEF StartTurn, EndTurn, PersonalStep, TakeSlot,
       WorkflowNotReady, PublishResults, RaiseInRun, fvars
  <1>6. CASE MarkPersonalRunning(w) \/ MarkPersonalFailed(w)
    BY <1>0, <1>6, SetWfRewrites DEF MarkPersonalRunning, MarkPersonalFailed
  <1>7. CASE MarkPersonalCompleted(w)
    BY <1>0, <1>7, SameRewrites, SetWfRewrites DEF MarkPersonalCompleted
  <1>8. CASE Crash(w) \/ Restart(w)
    BY <1>8, SameRewrites DEF Crash, Restart, fvars
  <1> QED
    BY <1>1, <1>2, <1>3, <1>4, <1>5, <1>6, <1>7, <1>8 DEF GlobalWork, PersonalWork

LEMMA WorkKeepsRequests ==
  ASSUME NEW w \in Workers,
         GlobalWork(w) \/ PersonalWork(w) \/ Crash(w) \/ Restart(w)
  PROVE  UNCHANGED req
  <1>1. GlobalWork(w) => UNCHANGED req
    BY DEF GlobalWork, GlobalStep, MarkGlobalRunning, GlobalSlot, GlobalEndsSlot,
       MarkGlobalSucceeded, MarkGlobalFailed, RecordBootstrapFailure, Raise, pOnly,
       P!GlobalFreesSlot, P!QueueWaiting
  <1>2. CASE StartTurn(w) \/ EndTurn(w) \/ TakeSlot(w) \/ MarkPersonalRunning(w)
               \/ WorkflowNotReady(w) \/ PublishResults(w) \/ MarkPersonalCompleted(w)
    BY <1>2 DEF StartTurn, EndTurn, TakeSlot, MarkPersonalRunning, WorkflowNotReady,
       PublishResults, MarkPersonalCompleted, P!StartTurn, P!NothingToRun, P!UnlockUser,
       P!RequeueRun, P!FailRun, P!TakeSlot, P!MarkPersonalRunning, P!RaiseInRun,
       P!PublishResults, P!MarkPersonalCompleted
  <1>3. CASE PersonalStep(w) \/ MarkPersonalFailed(w)
               \/ \E as \in {Free, Dead} : RaiseInRun(w, as)
    BY <1>3 DEF PersonalStep, MarkPersonalFailed, RaiseInRun, P!ClaimRun, P!AcquireUser,
       P!UserBusy, P!SlotBusy, P!BuildUserModels, P!FailRun, P!MarkPersonalFailed,
       P!RaiseInRun
  <1>4. CASE Crash(w) \/ Restart(w)
    BY <1>4 DEF Crash, Restart, P!CrashInRun, P!RestartIdle
  <1> QED
    BY <1>1, <1>2, <1>3, <1>4 DEF PersonalWork

ClicksTyped ==
  /\ click' \in [Clients -> Click]
  /\ req' \in [Clients -> P!Request]

LEMMA NoRequestType == P!NoRequest \in P!Request /\ NoClick \in Click
  BY SomeUserType, NoWorkflowType DEF P!NoRequest, P!Request, P!RequestLabels

LEMMA SubmitTyped ==
  ASSUME Typed, NEW c \in Clients, NEW s \in C!Runs \union {0},
         P!SubmitRun(c, click[c].user, s)
  PROVE  req' \in [Clients -> P!Request]
  <1>1. click[c].user \in Users
    BY DEF Typed, Click
  <1> QED
    BY <1>1 DEF P!SubmitRun, Typed, P!Request, P!RequestLabels, C!Runs

LEMMA ApiTyped ==
  ASSUME Typed, Api
  PROVE  ClicksTyped
  <1> USE NoRequestType DEF ClicksTyped
  <1>1. ASSUME NEW c \in Clients, NEW u \in Users, Submit(c, u)
        PROVE  ClicksTyped
    <2>1. PICK at \in {"latest", "select"} : SetClick(c, at, u)
      BY <1>1 DEF Submit
    <2> QED
      BY <1>1, <2>1 DEF Submit, SetClick, Typed, Click, pOnly
  <1>2. ASSUME NEW c \in Clients, ReturnExisting(c) \/ NoSharedData(c)
        PROVE  ClicksTyped
    BY <1>2 DEF ReturnExisting, NoSharedData, Typed, pOnly
  <1>3. ASSUME NEW c \in Clients, StartBootstrap(c) \/ BindLatest(c)
        PROVE  ClicksTyped
    <2>1. \E s \in C!Runs \union {0} : P!SubmitRun(c, click[c].user, s)
      BY <1>3 DEF StartBootstrap, BindLatest
    <2> QED
      BY <1>3, <2>1, SubmitTyped DEF StartBootstrap, BindLatest, Typed
  <1>4. ASSUME NEW c \in Clients, P!CheckQuota(c) PROVE req' \in [Clients -> P!Request]
    BY <1>4 DEF P!CheckQuota, Typed, P!Request, P!RequestLabels
  <1>5. ASSUME NEW c \in Clients, P!CreateRun(c) \/ P!CreateRefused(c)
        PROVE  req' \in [Clients -> P!Request]
    BY <1>5 DEF P!CreateRun, P!CreateRefused, Typed
  <1>6. ASSUME NEW c \in Clients,
               CheckQuota(c) \/ CreateRun(c) \/ CreateWorkflow(c) \/ RunRefused(c)
                 \/ WorkflowRefused(c)
        PROVE  ClicksTyped
    BY <1>4, <1>5, <1>6 DEF CheckQuota, CreateRun, CreateWorkflow, RunRefused,
       WorkflowRefused, fvars, Typed
  <1>7. ASSUME NEW p \in P!PRuns, CancelQueued(p)
        PROVE  ClicksTyped
    BY <1>7 DEF CancelQueued, P!CancelQueued, fvars, Typed
  <1>8. ASSUME NEW r \in C!Runs, CreateIfNoActive(r)
        PROVE  ClicksTyped
    BY <1>8 DEF CreateIfNoActive, fvars, pOnly, Typed
  <1> QED
    BY <1>1, <1>2, <1>3, <1>6, <1>7, <1>8 DEF Api

LEMMA ApiRewrites ==
  ASSUME Typed, Api, \A c \in Clients : ~CreateWorkflow(c)
  PROVE  Rewrites
  BY SameRewrites DEF Api, Submit, ReturnExisting, NoSharedData, StartBootstrap,
     BindLatest, CheckQuota, CreateRun, RunRefused, WorkflowRefused, CancelQueued,
     CreateIfNoActive, fvars

(* What the insert writes. *)
Started(c, r, p) ==
  /\ req[c].at = "insert" /\ req[c].source = 0
  /\ Open(req[c].user) = {}
  /\ C!Insert(r, "first_user_bootstrap")
  /\ P!InsertRow(p, P!NewRun(req[c].user, 0))
  /\ wf' = [wf EXCEPT ![r] = [status |-> "global_queued", user |-> req[c].user,
                              run |-> p, retries |-> 0]]

LEMMA CreateFacts ==
  ASSUME NEW c \in Clients, CreateWorkflow(c)
  PROVE  \E r \in C!Runs, p \in P!PRuns : Started(c, r, p)
  <1>1. PICK r \in C!Runs, p \in P!PRuns :
          /\ C!Insert(r, "first_user_bootstrap")
          /\ prun'[p] # prun[p]
          /\ wf' = [wf EXCEPT ![r] = [status |-> "global_queued", user |-> req[c].user,
                                      run |-> p, retries |-> 0]]
    BY DEF CreateWorkflow
  <1>2. PICK q \in P!PRuns : P!InsertRow(q, P!NewRun(req[c].user, 0))
    BY DEF CreateWorkflow, P!CreateRun
  <1>3. q = p
    BY <1>1, <1>2 DEF P!InsertRow
  <1> QED
    BY <1>1, <1>2, <1>3 DEF Started, CreateWorkflow, P!CreateRun

(* The labels at which a worker marks a workflow: its row is one of a      *)
(* first refresh, which has a personal run.                                *)
BootLabels == {"mark_running", "mark_ok", "mark_failed", "fail_mark"}

BootInv ==
  /\ Typed
  /\ \A w \in Workers : cpc[w] \in BootLabels => C!Bootstrap(claimed[w])
  /\ \A r \in C!Runs : C!Bootstrap(r) => wf[r].run \in P!PRuns

LEMMA BootLabelsWork == BootLabels \subseteq C!Working
  BY DEF BootLabels, C!Working, C!InTry, C!InGlobal, C!BeforeSlot, C!AfterSlot

LEMMA BootLabelStep ==
  ASSUME Halves, GlobalInv, NEW w \in Workers, C!Process(w), cpc'[w] \in BootLabels
  PROVE  /\ claimed'[w] = claimed[w] /\ claimed[w] \in C!Runs
         /\ C!Bootstrap(claimed[w])
         /\ cpc'[w] = "mark_ok" => outcome'[w].dbt
  <1>0. /\ cpc \in [Workers -> C!Labels] /\ claimed \in [Workers -> C!Runs \union {0}]
        /\ {"claimed", "finish", "fail"} \subseteq C!Working
    BY DEF Halves, GlobalInv, CP!TypeInv, CP!TypeOK, CP!Runs, C!Runs, C!Working, C!InTry,
       C!InGlobal, C!AfterSlot
  <1>1. ~(C!ClaimNext(w) \/ C!NothingQueued(w) \/ C!PersonalFreesSlot(w)
            \/ C!EndPersonalTurn(w) \/ C!GlobalBusy(w) \/ C!MarkGlobalRunning(w)
            \/ C!RecordPlan(w) \/ C!PublishShared(w))
    BY <1>0 DEF C!ClaimNext, C!NothingQueued, C!PersonalFreesSlot, C!EndPersonalTurn,
       C!GlobalBusy, C!MarkGlobalRunning, C!RecordPlan, C!PublishShared, C!Goto, BootLabels
  <1>2. ~(C!TrySlot(w) \/ C!CollectAndBuild(w) \/ C!CompleteRun(w)
            \/ C!RecordAudit(w) \/ C!UpsertSourceResults(w) \/ C!MarkGlobalSucceeded(w)
            \/ C!MarkGlobalFailed(w))
    BY <1>0 DEF C!TrySlot, C!CollectAndBuild, C!CompleteRun, C!RecordAudit,
       C!UpsertSourceResults, C!MarkGlobalSucceeded, C!MarkGlobalFailed, C!Goto, BootLabels
  <1>3. ~(C!Unlock(w) \/ C!Requeue(w) \/ C!RecordBootstrapFailure(w) \/ C!Restart(w)
            \/ C!Crash(w))
    BY <1>0 DEF C!Unlock, C!Requeue, C!RecordBootstrapFailure, C!Restart, C!Crash,
       C!EndTurn, C!Goto, BootLabels
  <1>4. ASSUME NEW as, C!Raise(w, as) \/ C!PersonalRaise(w, as) PROVE FALSE
    BY <1>0, <1>4 DEF C!Raise, C!PersonalRaise, C!Goto, BootLabels
  <1>5. ASSUME NEW i, C!PersonalTakesSlot(w, i) PROVE FALSE
    BY <1>0, <1>5 DEF C!PersonalTakesSlot, C!Goto, BootLabels
  <1>6. C!AcquireGlobal(w) \/ C!Finish(w) \/ C!RecordFailure(w)
    BY <1>1, <1>2, <1>3, <1>4, <1>5 DEF C!Process, C!Step
  <1>7. cpc[w] \in {"claimed", "finish", "fail"}
    BY <1>6 DEF C!AcquireGlobal, C!Finish, C!RecordFailure
  <1>8. claimed[w] \in C!Runs
    BY <1>0, <1>7, ClaimedFacts
  <1>9. claimed'[w] = claimed[w] /\ C!Bootstrap(claimed[w])
    BY <1>0, <1>6 DEF C!AcquireGlobal, C!Finish, C!RecordFailure, C!EndTurn, C!Goto,
       C!locals, BootLabels
  <1>10. cpc'[w] = "mark_ok" => outcome'[w].dbt
    BY <1>0, <1>6 DEF C!AcquireGlobal, C!Finish, C!RecordFailure, C!EndTurn, C!Goto,
       C!locals
  <1> QED
    BY <1>8, <1>9, <1>10

LEMMA RefreshFunction ==
  ASSUME GlobalInv
  PROVE  refresh = [r \in C!Runs |-> refresh[r]]
  BY DEF GlobalInv, CP!TypeInv, CP!TypeOK, CP!Runs, C!Runs

Given(r) == wf'[r].run \in P!PRuns /\ wf'[r].status # "none"

(* A row that was in the table keeps its trigger; a new one of a first     *)
(* refresh has its workflow.                                               *)
LEMMA TriggerSteps ==
  ASSUME Halves, GlobalInv, Typed, [Next]_vars, NEW r \in C!Runs
  PROVE  /\ refresh[r].status # "absent" => C!Bootstrap(r)' = C!Bootstrap(r)
         /\ C!Bootstrap(r)' => C!Bootstrap(r) \/ Given(r)
  <1> DEFINE Triggered ==
        /\ refresh[r].status # "absent" => C!Bootstrap(r)' = C!Bootstrap(r)
        /\ C!Bootstrap(r)' => C!Bootstrap(r) \/ Given(r)
  <1>1. CASE refresh'[r].trigger = refresh[r].trigger
    BY <1>1 DEF C!Bootstrap
  <1>2. ASSUME NEW q \in C!Runs, C!CreateIfNoActive(q) PROVE Triggered
    BY <1>2, RefreshFunction DEF C!CreateIfNoActive, C!Insert, C!NewRow, C!Bootstrap
  <1>3. ASSUME NEW c \in Clients, CreateWorkflow(c) PROVE Triggered
    <2>1. PICK q \in C!Runs, p \in P!PRuns : Started(c, q, p)
      BY <1>3, CreateFacts
    <2>2. q = r => refresh[r].status = "absent" /\ Given(r)
      BY <2>1 DEF Started, C!Insert, Typed, Given
    <2>3. q # r => refresh'[r] = refresh[r]
      BY <2>1, RefreshFunction DEF Started, C!Insert
    <2> QED
      BY <2>2, <2>3 DEF C!Bootstrap
  <1>4. ASSUME NEW w \in Workers, C!Process(w) PROVE Triggered
    BY <1>1, <1>4, ProcessFacts
  <1>5. CASE UNCHANGED C!cvars
    BY <1>1, <1>5 DEF C!cvars
  <1>6. CASE C!DropGlobalSession \/ \E i \in C!Slots : C!DropSlotSession(i)
    BY <1>1, <1>6 DEF C!DropGlobalSession, C!DropSlotSession, C!tables
  <1>7. CASE Api
    <2>1. \/ \E c \in Clients : CreateWorkflow(c)
          \/ \E q \in C!Runs : C!CreateIfNoActive(q)
          \/ UNCHANGED C!cvars
      BY <1>7, ApiQuiet
    <2> QED
      BY <1>2, <1>3, <1>5, <2>1
  <1>8. CASE Sessions
    <2>1. \/ C!DropGlobalSession \/ UNCHANGED C!cvars
          \/ \E i \in C!Slots : C!DropSlotSession(i)
      BY <1>8 DEF Sessions, DropGlobalSession, DropSlotSession, DropUserSession,
         P!DropUserSession, cOnly, C!cvars
    <2> QED
      BY <1>5, <1>6, <2>1
  <1>9. ASSUME NEW w \in Workers,
               GlobalWork(w) \/ PersonalWork(w) \/ Crash(w) \/ Restart(w)
        PROVE  C!Process(w) \/ UNCHANGED C!cvars
    BY <1>9, GlobalWorkCalls, GlobalCallRefines, PersonalRefinesGlobal,
       ProcessRefinesGlobal
  <1>10. CASE UNCHANGED vars
    BY <1>5, <1>10 DEF vars
  <1> QED
    BY <1>4, <1>5, <1>7, <1>8, <1>9, <1>10, NextCases

LEMMA SessionsQuiet ==
  ASSUME Sessions
  PROVE  UNCHANGED <<fvars, refresh, prun, req>>
  BY DEF Sessions, DropGlobalSession, DropSlotSession, DropUserSession,
     C!DropGlobalSession, C!DropSlotSession, P!DropUserSession, C!tables, P!ptables,
     cOnly, pOnly

LEMMA TypedNext ==
  ASSUME GlobalInv, Typed, [Next]_vars
  PROVE  Typed'
  <1>1. ASSUME Rewrites, ClicksTyped PROVE Typed'
    BY <1>1 DEF Rewrites, ClicksTyped, Typed
  <1>2. ASSUME NEW c \in Clients, CreateWorkflow(c), ClicksTyped PROVE Typed'
    <2>1. req[c].user \in Users
      BY DEF Typed, P!Request
    <2> QED
      BY <1>2, <2>1, CreateFacts
      DEF Started, Workflow, WorkflowStatus, Typed, ClicksTyped
  <1>3. UNCHANGED <<fvars, req>> => Typed'
    BY DEF fvars, Typed
  <1>4. UNCHANGED <<click, req>> => ClicksTyped
    BY DEF Typed, ClicksTyped
  <1>5. CASE UNCHANGED vars
    BY <1>3, <1>5 DEF vars, P!pvars
  <1>6. CASE Api
    BY <1>1, <1>2, <1>6, ApiTyped, ApiRewrites
  <1> QED
    BY <1>1, <1>3, <1>4, <1>5, <1>6, WorkRewrites, WorkKeepsRequests, SessionsQuiet,
       NextCases

LEMMA BootInit == Init => BootInv
  <1> SUFFICES ASSUME Init PROVE BootInv
    OBVIOUS
  <1>1. wf \in [C!Runs -> Workflow] /\ click \in [Clients -> Click]
    BY NoWorkflowType DEF Init
  <1>2. req \in [Clients -> P!Request]
    BY NoRequestType DEF Init, P!Init
  <1>3. (\A w \in Workers : cpc[w] = "down") /\ \A r \in C!Runs : ~C!Bootstrap(r)
    BY DEF Init, C!Init, C!NewRow, C!Bootstrap
  <1> QED
    BY <1>1, <1>2, <1>3 DEF BootInv, Typed, BootLabels

LEMMA BootNext ==
  ASSUME Halves, GlobalInv, BootInv, [Next]_vars
  PROVE  BootInv'
  <1>1. Typed'
    BY TypedNext DEF BootInv
  <1>2. ASSUME NEW w \in Workers, claimed'[w] = claimed[w], claimed[w] \in C!Runs,
               C!Bootstrap(claimed[w])
        PROVE  C!Bootstrap(claimed[w])'
    <2>1. refresh[claimed[w]].status # "absent"
      BY <1>2, ClaimedFacts DEF C!Runs
    <2> QED
      BY <1>2, <2>1, TriggerSteps DEF BootInv, C!Bootstrap
  <1>3. ASSUME NEW v \in Workers, cpc'[v] \in BootLabels
        PROVE  C!Bootstrap(claimed[v])'
    <2>1. ASSUME cpc'[v] = cpc[v], claimed'[v] = claimed[v]
          PROVE  C!Bootstrap(claimed[v])'
      <3>1. claimed[v] \in C!Runs
        BY <1>3, <2>1, ClaimedFacts, BootLabelsWork
      <3> QED
        BY <1>2, <1>3, <2>1, <3>1 DEF BootInv
    <2>2. ASSUME NEW w \in Workers, C!Process(w)
          PROVE  C!Bootstrap(claimed[v])'
      <3>1. CASE v = w
        BY <1>2, <1>3, <2>2, <3>1, BootLabelStep
      <3>2. CASE v # w
        BY <2>1, <2>2, <3>2, ProcessFacts
      <3> QED
        BY <3>1, <3>2
    <2>3. UNCHANGED C!cvars => UNCHANGED <<cpc, claimed>>
      BY DEF C!cvars
    <2>4. ASSUME NEW w \in Workers,
                 GlobalWork(w) \/ PersonalWork(w) \/ Crash(w) \/ Restart(w)
          PROVE  C!Process(w) \/ UNCHANGED C!cvars
      BY <2>4, GlobalWorkCalls, GlobalCallRefines, PersonalRefinesGlobal,
         ProcessRefinesGlobal
    <2>5. UNCHANGED vars => UNCHANGED C!cvars
      BY DEF vars
    <2> QED
      BY <2>1, <2>2, <2>3, <2>4, <2>5, ApiStays, SessionsStay, NextCases
  <1>4. ASSUME NEW r \in C!Runs, C!Bootstrap(r)'
        PROVE  wf'[r].run \in P!PRuns
    <2>1. CASE Rewrites
      BY <1>4, <2>1, TriggerSteps DEF BootInv, Rewrites, Given
    <2>2. ASSUME NEW c \in Clients, CreateWorkflow(c)
          PROVE  wf'[r].run \in P!PRuns
      BY <1>4, <2>2, CreateFacts, TriggerSteps DEF BootInv, Started, Typed, Given
    <2>3. CASE UNCHANGED fvars
      BY <2>1, <2>3, SameRewrites DEF fvars, BootInv
    <2>4. UNCHANGED vars => UNCHANGED fvars
      BY DEF vars
    <2> QED
      BY <2>1, <2>2, <2>3, <2>4, WorkRewrites, ApiRewrites, SessionsQuiet, NextCases
      DEF BootInv
  <1> QED
    BY <1>1, <1>3, <1>4 DEF BootInv

-----------------------------------------------------------------------------
(* The personal queue *)

LEMMA PersonalInit == Init => P!Init
  BY DEF Init

(* A step of the process of w as the personal queue sees it. *)
Process(w) ==
  \/ P!PStep(w) \/ P!StartTurn(w) \/ P!RestartIdle(w)
  \/ P!GlobalFreesSlot(w)
  \/ P!CrashInRun(w) /\ (P!Fault \/ P!MarkRefused(w))
  \/ \E as \in {Free, Dead} :
       \/ P!RaiseInRun(w, as) /\ (P!Fault \/ P!NotReady(w))
       \/ P!GlobalRaises(w, as)
  \/ \E i \in P!Slots : P!GlobalTakesSlot(w, i)

PersonalSessions ==
  \/ \E u \in Users : P!DropUserSession(u)
  \/ \E i \in P!Slots : P!DropPersonalSlot(i)

LEMMA PersonalNextCases ==
  P!Next <=> (\E w \in Workers : Process(w)) \/ P!Requests \/ PersonalSessions
  BY DEF P!Next, Process, PersonalSessions, Free, Dead, P!Free, P!Dead

LEMMA PersonalRefines ==
  ASSUME Halves, NEW w \in Workers, PersonalWork(w)
  PROVE  Process(w)
  <1>1. CASE StartTurn(w)
    BY <1>1 DEF StartTurn, Process
  <1>2. CASE EndTurn(w)
    BY <1>2 DEF EndTurn, Process, P!PStep
  <1>3. CASE PersonalStep(w)
    BY <1>3 DEF PersonalStep, Process, P!PStep
  <1>4. CASE TakeSlot(w) \/ MarkPersonalRunning(w) \/ MarkPersonalCompleted(w)
               \/ MarkPersonalFailed(w)
    BY <1>4 DEF TakeSlot, MarkPersonalRunning, MarkPersonalCompleted, MarkPersonalFailed,
       Process, P!PStep
  <1>5. CASE WorkflowNotReady(w)
    BY <1>5 DEF WorkflowNotReady, Process
  <1>6. CASE PublishResults(w)
    <2>1. P!PStep(w)
      BY <1>6 DEF PublishResults, P!PStep
    <2> QED
      BY <2>1 DEF Process
  <1>7. ASSUME NEW as \in {Free, Dead}, RaiseInRun(w, as)
        PROVE  Process(w)
    BY <1>7 DEF RaiseInRun, Process, C!Fault, P!Fault
  <1> QED
    BY <1>1, <1>2, <1>3, <1>4, <1>5, <1>6, <1>7 DEF PersonalWork

LEMMA GlobalRefines ==
  ASSUME Halves, GlobalInv, BootInv, NEW w \in Workers, GlobalWork(w)
  PROVE  Process(w) \/ P!Requests \/ UNCHANGED P!pvars
  <1>0. UNCHANGED <<pOnly, writerSlot, faults>> => UNCHANGED P!pvars
    BY DEF pOnly, P!pvars
  <1>1. CASE GlobalStep(w)
    <2>1. UNCHANGED <<writerSlot, faults>>
      BY <1>1 DEF GlobalStep, C!ClaimNext, C!AcquireGlobal, C!GlobalBusy, C!RecordPlan,
         C!CollectAndBuild, C!PublishShared, C!RecordAudit, C!UpsertSourceResults,
         C!Finish, C!Unlock, C!Requeue, C!RecordFailure
    <2> QED
      BY <1>0, <1>1, <2>1 DEF GlobalStep
  <1>2. CASE MarkGlobalRunning(w) \/ MarkGlobalFailed(w) \/ RecordBootstrapFailure(w)
    <2>1. UNCHANGED <<writerSlot, faults>>
      BY <1>2 DEF MarkGlobalRunning, MarkGlobalFailed, RecordBootstrapFailure,
         C!MarkGlobalRunning, C!MarkGlobalFailed, C!RecordBootstrapFailure
    <2> QED
      BY <1>0, <1>2, <2>1 DEF MarkGlobalRunning, MarkGlobalFailed, RecordBootstrapFailure
  <1>3. CASE GlobalSlot(w)
    <2>1. UNCHANGED faults /\ UNCHANGED pOnly
      BY <1>3 DEF GlobalSlot, C!TrySlot
    <2> QED
      BY <1>0, <1>3, <2>1 DEF GlobalSlot, Process
  <1>4. CASE GlobalEndsSlot(w)
    BY <1>4 DEF GlobalEndsSlot, Process
  <1>5. CASE MarkGlobalSucceeded(w)
    <2>1. UNCHANGED <<writerSlot, faults>>
      BY <1>5 DEF MarkGlobalSucceeded, C!MarkGlobalSucceeded
    <2>2. cpc[w] \in BootLabels
      BY <1>5 DEF MarkGlobalSucceeded, C!MarkGlobalSucceeded, BootLabels
    <2>3. claimed[w] \in C!Runs
      BY <2>2, ClaimedFacts, BootLabelsWork
    <2>4. wf[claimed[w]].run \in P!PRuns
      BY <2>2, <2>3 DEF BootInv
    <2>5. ASSUME P!QueueWaiting(wf[claimed[w]].run, claimed[w]) PROVE P!Requests
      BY <2>3, <2>4, <2>5 DEF P!Requests, C!Runs
    <2> QED
      BY <1>0, <1>5, <2>1, <2>5 DEF MarkGlobalSucceeded
  <1>6. ASSUME NEW as \in {Free, Dead}, Raise(w, as)
        PROVE  Process(w)
    <2>1. ppc[w] = "away"
      BY <1>6 DEF Raise, C!Raise, Halves, Match, C!InTry, C!InGlobal, C!BeforeSlot,
         C!InSlot, C!AfterSlot
    <2>2. P!GlobalRaises(w, as)
      BY <1>6, <2>1 DEF Raise, C!Raise, P!GlobalRaises, C!Fault, P!Fault, pOnly, P!ptables,
         P!plocals, C!Relinquish, P!Relinquish
    <2> QED
      BY <2>2 DEF Process
  <1> QED
    BY <1>1, <1>2, <1>3, <1>4, <1>5, <1>6 DEF GlobalWork

LEMMA ProcessRefinesPersonal ==
  ASSUME Halves, NEW w \in Workers, Crash(w) \/ Restart(w)
  PROVE  Process(w)
  <1>1. Match(cpc[w], ppc[w])
    BY DEF Halves
  <1>2. ReopenRefused(w) => P!MarkRefused(w)
    BY <1>1 DEF ReopenRefused, Match, P!InSlot, C!MarkRefused, P!MarkRefused
  <1>3. C!Fault => P!Fault
    BY DEF C!Fault, P!Fault
  <1> QED
    BY <1>2, <1>3 DEF Crash, Restart, Process

LEMMA ApiRefinesPersonal ==
  ASSUME Typed, Api
  PROVE  P!Requests \/ UNCHANGED P!pvars
  <1>0. UNCHANGED <<pOnly, writerSlot, faults>> => UNCHANGED P!pvars
    BY DEF pOnly, P!pvars
  <1>1. ASSUME NEW c \in Clients, NEW u \in Users, Submit(c, u)
        PROVE  UNCHANGED P!pvars
    BY <1>0, <1>1 DEF Submit
  <1>2. ASSUME NEW c \in Clients, ReturnExisting(c) \/ NoSharedData(c)
        PROVE  UNCHANGED P!pvars
    BY <1>0, <1>2 DEF ReturnExisting, NoSharedData
  <1>3. ASSUME NEW c \in Clients, StartBootstrap(c) \/ BindLatest(c)
        PROVE  P!Requests
    <2>1. \E s \in 1 .. MaxRuns \union {0} : P!SubmitRun(c, click[c].user, s)
      BY <1>3 DEF StartBootstrap, BindLatest, C!Runs
    <2>2. click[c].user \in Users
      BY DEF Typed, Click
    <2> QED
      BY <2>1, <2>2 DEF P!Requests
  <1>4. ASSUME NEW c \in Clients,
               CheckQuota(c) \/ CreateRun(c) \/ CreateWorkflow(c) \/ RunRefused(c)
                 \/ WorkflowRefused(c)
        PROVE  P!Requests
    BY <1>4 DEF CheckQuota, CreateRun, CreateWorkflow, RunRefused, WorkflowRefused,
       P!Requests
  <1>5. ASSUME NEW p \in P!PRuns, CancelQueued(p)
        PROVE  P!Requests
    BY <1>5 DEF CancelQueued, P!Requests
  <1>6. ASSUME NEW r \in C!Runs, CreateIfNoActive(r)
        PROVE  UNCHANGED P!pvars
    BY <1>0, <1>6 DEF CreateIfNoActive, C!CreateIfNoActive
  <1> QED
    BY <1>1, <1>2, <1>3, <1>4, <1>5, <1>6 DEF Api

LEMMA SessionsRefinePersonal ==
  ASSUME Sessions
  PROVE  PersonalSessions \/ UNCHANGED P!pvars
  <1>1. CASE DropGlobalSession
    BY <1>1 DEF DropGlobalSession, C!DropGlobalSession, pOnly, P!pvars
  <1>2. ASSUME NEW i \in C!Slots, DropSlotSession(i)
        PROVE  P!DropPersonalSlot(i) /\ i \in P!Slots
    BY <1>2 DEF DropSlotSession, C!DropSlotSession, P!DropPersonalSlot, C!Slots, P!Slots,
       pOnly, P!ptables, P!plocals, C!Dropped, P!Dropped, C!Dead, P!Dead, C!Free, P!Free
  <1>3. ASSUME NEW u \in Users, DropUserSession(u)
        PROVE  PersonalSessions
    BY <1>3 DEF DropUserSession, PersonalSessions
  <1> QED
    BY <1>1, <1>2, <1>3 DEF Sessions, PersonalSessions

LEMMA PersonalNext ==
  Halves /\ GlobalInv /\ BootInv /\ [Next]_vars => [P!Next]_(P!pvars)
  <1> SUFFICES ASSUME Halves, GlobalInv, BootInv, [Next]_vars
               PROVE  P!Next \/ UNCHANGED P!pvars
    OBVIOUS
  <1>1. ASSUME NEW w \in Workers,
               GlobalWork(w) \/ PersonalWork(w) \/ Crash(w) \/ Restart(w)
        PROVE  P!Next \/ UNCHANGED P!pvars
    BY <1>1, GlobalRefines, PersonalRefines, ProcessRefinesPersonal, PersonalNextCases
  <1>2. CASE UNCHANGED vars
    BY <1>2 DEF vars
  <1> QED
    BY <1>1, <1>2, ApiRefinesPersonal, SessionsRefinePersonal, PersonalNextCases,
       NextCases DEF BootInv

(* With the global half and the workflows hidden, the whole system is a    *)
(* personal queue: a first refresh is a run that waits and is then bound.  *)
THEOREM PersonalQueueImplemented == Spec => ImplementsPersonalRuns
  BY PersonalInit, HalvesInit, HalvesNext, GlobalInvInit, GlobalInvNext, BootInit, BootNext,
     PersonalNext, PTL
  DEF Spec, ImplementsPersonalRuns, P!Spec

-----------------------------------------------------------------------------
(* What the theorems about the personal queue say of the whole *)

PP == INSTANCE PersonalRunsProofs WITH Sources <- 1 .. MaxRuns

LEMMA PersonalAssumptions == PP!WorkersAssumption /\ PP!PersonalAssumption
  <1>1. 1 .. MaxRuns \subseteq Nat \ {0}
    BY FirstAssumption
  <1>2. PP!WorkersAssumption
    BY WorkersAssumption DEF PP!WorkersAssumption, PP!Free, PP!Dead, Free, Dead
  <1>3. PP!IsFiniteSet(Clients)
    BY FirstAssumption DEF IsFiniteSet, PP!IsFiniteSet
  <1> QED
    BY <1>1, <1>2, <1>3, FirstAssumption DEF PP!PersonalAssumption

(* PP is P with theorems. *)
LEMMA PersonalSameVars == UNCHANGED P!pvars <=> UNCHANGED PP!pvars
  BY DEF P!pvars, PP!pvars

LEMMA PersonalSameInit == P!Init = PP!Init
  BY DEF P!Init, PP!Init, P!PRuns, PP!PRuns, P!Slots, PP!Slots, P!NewRow, PP!NewRow,
         P!Free, PP!Free, P!NoRequest, PP!NoRequest, P!SomeUser, PP!SomeUser

LEMMA PersonalSameNext == P!Next = PP!Next
  BY DEF
     P!PRuns, PP!PRuns, P!Slots, PP!Slots, P!Status, PP!Status, P!Final,
     PP!Final, P!ActiveStatus, PP!ActiveStatus, P!NewRow, PP!NewRow,
     P!Absent, PP!Absent, P!OfUser, PP!OfUser, P!ActiveOf, PP!ActiveOf,
     P!PQueued, PP!PQueued, P!Used, PP!Used, P!InSlot, PP!InSlot,
     P!InUserLock, PP!InUserLock, P!InTry, PP!InTry, P!SomeUser,
     PP!SomeUser, P!NoRequest, PP!NoRequest, P!PGoto, PP!PGoto,
     P!PEndTurn, PP!PEndTurn, P!ptables, PP!ptables, P!plocals,
     PP!plocals, P!SubmitRun, PP!SubmitRun, P!CheckQuota, PP!CheckQuota,
     P!InsertRow, PP!InsertRow, P!NewRun, PP!NewRun, P!CreateRun,
     PP!CreateRun, P!CreateRefused, PP!CreateRefused, P!QueueWaiting,
     PP!QueueWaiting, P!CancelQueued, PP!CancelQueued, P!ForgetUsage,
     PP!ForgetUsage, P!NewQuotaWindow, PP!NewQuotaWindow, P!ResetQuota,
     PP!ResetQuota, P!StartTurn, PP!StartTurn, P!NothingToRun,
     PP!NothingToRun, P!ClaimRun, PP!ClaimRun, P!AcquireUser,
     PP!AcquireUser, P!UserBusy, PP!UserBusy, P!TakeSlot, PP!TakeSlot,
     P!SlotBusy, PP!SlotBusy, P!MarkPersonalRunning,
     PP!MarkPersonalRunning, P!BuildUserModels, PP!BuildUserModels,
     P!CompletedAndCurrent, PP!CompletedAndCurrent, P!Merged, PP!Merged,
     P!PublishResults, PP!PublishResults, P!MarkPersonalCompleted,
     PP!MarkPersonalCompleted, P!UnlockUser, PP!UnlockUser,
     P!RequeueRun, PP!RequeueRun, P!FailRun, PP!FailRun,
     P!MarkPersonalFailed, PP!MarkPersonalFailed, P!Fault, PP!Fault,
     P!NotReady, PP!NotReady, P!MarkRefused, PP!MarkRefused,
     P!RaiseInRun, PP!RaiseInRun, P!CrashInRun, PP!CrashInRun,
     P!RestartIdle, PP!RestartIdle, P!GlobalTakesSlot,
     PP!GlobalTakesSlot, P!GlobalFreesSlot, PP!GlobalFreesSlot,
     P!GlobalRaises, PP!GlobalRaises, P!DropUserSession,
     PP!DropUserSession, P!DropPersonalSlot, PP!DropPersonalSlot,
     P!PStep, PP!PStep, P!Requests, PP!Requests, P!Next, PP!Next,
     P!Free, PP!Free, P!Dead, PP!Dead, P!Available, PP!Available,
     P!Relinquish, PP!Relinquish, P!Dropped, PP!Dropped, P!Cardinality, PP!Cardinality

QueueInv == PP!TypeInv /\ PP!OwnInv

LEMMA QueueInit == Init => QueueInv
  BY PersonalInit, PersonalSameInit, PersonalAssumptions, PP!TypeInit, PP!OwnInit
  DEF QueueInv

LEMMA QueueNext ==
  ASSUME Halves, GlobalInv, BootInv, QueueInv, [Next]_vars
  PROVE  QueueInv'
  <1>1. [PP!Next]_(PP!pvars)
    BY PersonalNext, PersonalSameNext, PersonalSameVars
  <1> QED
    BY <1>1, PersonalAssumptions, PP!TypeNext, PP!OwnNext DEF QueueInv

LEMMA RunsTyped ==
  ASSUME QueueInv
  PROVE  prun \in [P!PRuns -> P!Row]
  BY DEF QueueInv, PP!TypeInv, PP!TypeOK, PP!PRuns, P!PRuns, PP!Row, P!Row, PP!Status,
     P!Status

(* The labels at which a worker marks the workflow of its personal run. *)
MarkLabels == {"mark_running", "mark_completed", "fail_mark"}

LEMMA HeldFacts ==
  ASSUME QueueInv, NEW w \in Workers
  PROVE  /\ holds[w] \in P!PRuns \union {0}
         /\ ppc[w] \in MarkLabels => holds[w] # 0
         /\ holds[w] # 0 => prun[holds[w]].status \in {"running", "completed", "failed"}
  <1>1. holds[w] \in P!PRuns \union {0}
    BY DEF QueueInv, PP!TypeInv, PP!TypeOK, PP!PRuns, P!PRuns
  <1>2. ppc[w] \in MarkLabels => holds[w] # 0
    BY DEF QueueInv, PP!TypeInv, PP!Holding, PP!Working, PP!InTry, PP!InUserLock,
       PP!InSlot, MarkLabels
  <1> QED
    BY <1>1, <1>2 DEF QueueInv, PP!OwnInv, PP!Claimed

-----------------------------------------------------------------------------
(* The personal runs *)

(* Nothing a hand-off rests on changes of a run that exists. *)
RowKept(p) ==
  /\ prun'[p].status # "absent"
  /\ prun'[p].boot = prun[p].boot /\ prun'[p].source = prun[p].source
  /\ prun'[p].status = "waiting_for_global" <=> prun[p].status = "waiting_for_global"
  /\ prun[p].status = "completed" => prun'[p].status = "completed"

RowsKept == \A p \in P!PRuns : prun[p].status # "absent" => RowKept(p)

(* A run that is no one's first refresh is created without a workflow. *)
NoBootRows ==
  \A p \in P!PRuns :
    prun[p].status = "absent" /\ prun'[p].status # "absent" => ~prun'[p].boot

(* mark_global_succeeded hands over. *)
Binds(w) == MarkGlobalSucceeded(w) /\ wf[claimed[w]].status \in MaySucceed

LEMMA StatusWrite ==
  ASSUME QueueInv, NEW p, NEW s \in {"queued", "running", "failed", "cancelled"},
         prun[p].status \in {"queued", "running"},
         prun' = [prun EXCEPT ![p].status = s]
  PROVE  RowsKept /\ NoBootRows
  BY RunsTyped DEF RowsKept, RowKept, NoBootRows, P!Row

LEMMA SameRows ==
  ASSUME UNCHANGED prun
  PROVE  RowsKept /\ NoBootRows
  BY DEF RowsKept, RowKept, NoBootRows

LEMMA PublicationRows ==
  ASSUME QueueInv, NEW p, prun[p].status = "running", prun' = P!CompletedAndCurrent(p)
  PROVE  /\ RowsKept /\ NoBootRows
         /\ p \in P!PRuns => prun'[p].status = "completed" /\ prun'[p].boot = prun[p].boot
  <1>1. ASSUME NEW q \in P!PRuns
        PROVE  /\ prun'[q].status = IF q = p THEN "completed" ELSE prun[q].status
               /\ prun'[q].boot = prun[q].boot /\ prun'[q].source = prun[q].source
    BY RunsTyped DEF P!CompletedAndCurrent, P!Row
  <1> QED
    BY <1>1 DEF RowsKept, RowKept, NoBootRows


LEMMA InsertRows ==
  ASSUME QueueInv, Typed, NEW c \in Clients, P!CreateRun(c)
  PROVE  RowsKept /\ (req[c].source # 0 => NoBootRows)
  <1>1. PICK p \in P!PRuns : P!InsertRow(p, P!NewRun(req[c].user, req[c].source))
    BY DEF P!CreateRun
  <1>2. /\ prun[p].status = "absent"
        /\ prun' = [prun EXCEPT ![p] = P!NewRun(req[c].user, req[c].source)]
    BY <1>1 DEF P!InsertRow, P!Absent
  <1>3. /\ prun'[p] = P!NewRun(req[c].user, req[c].source)
        /\ \A q \in P!PRuns \ {p} : prun'[q] = prun[q]
    BY <1>2, RunsTyped
  <1>4. req[c].source # 0 => ~prun'[p].boot
    BY <1>3 DEF P!NewRun, P!NewRow
  <1> QED
    BY <1>2, <1>3, <1>4 DEF RowsKept, RowKept, NoBootRows

(* The steps of workers, and which of them write the workflows. *)
LEMMA GlobalRows ==
  ASSUME QueueInv, NEW w \in Workers, GlobalWork(w)
  PROVE  \/ UNCHANGED prun
         \/ Binds(w)
  BY DEF GlobalWork, GlobalStep, MarkGlobalRunning, GlobalSlot, GlobalEndsSlot,
     MarkGlobalSucceeded, MarkGlobalFailed, RecordBootstrapFailure, Raise, pOnly,
     P!GlobalFreesSlot, P!ptables, Binds

LEMMA PersonalRows ==
  ASSUME QueueInv, NEW w \in Workers,
         PersonalWork(w) \/ Crash(w) \/ Restart(w)
  PROVE  RowsKept /\ NoBootRows
  <1> USE DEF P!ptables
  <1>1. CASE StartTurn(w) \/ TakeSlot(w) \/ MarkPersonalRunning(w) \/ WorkflowNotReady(w)
               \/ MarkPersonalCompleted(w) \/ MarkPersonalFailed(w)
    BY <1>1, SameRows DEF StartTurn, TakeSlot, MarkPersonalRunning, WorkflowNotReady,
       MarkPersonalCompleted, MarkPersonalFailed, P!StartTurn, P!TakeSlot,
       P!MarkPersonalRunning, P!RaiseInRun, P!MarkPersonalCompleted, P!MarkPersonalFailed
  <1>2. ASSUME P!FailRun(w) PROVE RowsKept /\ NoBootRows
    BY <1>2, SameRows, StatusWrite DEF P!FailRun
  <1>3. ASSUME P!RequeueRun(w) PROVE RowsKept /\ NoBootRows
    BY <1>3, StatusWrite DEF P!RequeueRun
  <1>4. CASE EndTurn(w)
    BY <1>2, <1>3, <1>4, SameRows DEF EndTurn, P!NothingToRun, P!UnlockUser
  <1>5. ASSUME P!ClaimRun(w) PROVE RowsKept /\ NoBootRows
    BY <1>5, StatusWrite DEF P!ClaimRun, P!PQueued
  <1>6. CASE PersonalStep(w)
    BY <1>2, <1>5, <1>6, SameRows DEF PersonalStep, P!AcquireUser, P!UserBusy, P!SlotBusy,
       P!BuildUserModels
  <1>7. CASE PublishResults(w)
    BY <1>7, PublicationRows DEF PublishResults, P!PublishResults
  <1>8. ASSUME NEW as \in {Free, Dead}, RaiseInRun(w, as)
        PROVE  RowsKept /\ NoBootRows
    BY <1>8, SameRows DEF RaiseInRun, P!RaiseInRun
  <1>9. CASE Crash(w) \/ Restart(w)
    BY <1>9, SameRows DEF Crash, Restart, P!CrashInRun, P!RestartIdle
  <1> QED
    BY <1>1, <1>4, <1>6, <1>7, <1>8, <1>9 DEF PersonalWork

LEMMA ApiRows ==
  ASSUME QueueInv, Typed, Api
  PROVE  /\ RowsKept
         /\ NoBootRows \/ \E c \in Clients : CreateWorkflow(c)
  <1> USE DEF P!ptables
  <1>1. ASSUME NEW c \in Clients, NEW u \in Users, Submit(c, u)
        PROVE  RowsKept /\ NoBootRows
    BY <1>1, SameRows DEF Submit, pOnly
  <1>2. ASSUME NEW c \in Clients, ReturnExisting(c) \/ NoSharedData(c)
        PROVE  RowsKept /\ NoBootRows
    BY <1>2, SameRows DEF ReturnExisting, NoSharedData, pOnly
  <1>3. ASSUME NEW c \in Clients, StartBootstrap(c) \/ BindLatest(c)
        PROVE  RowsKept /\ NoBootRows
    BY <1>3, SameRows DEF StartBootstrap, BindLatest, P!SubmitRun
  <1>4. ASSUME NEW c \in Clients, CheckQuota(c) \/ RunRefused(c) \/ WorkflowRefused(c)
        PROVE  RowsKept /\ NoBootRows
    BY <1>4, SameRows DEF CheckQuota, RunRefused, WorkflowRefused, P!CheckQuota,
       P!CreateRefused
  <1>5. ASSUME NEW c \in Clients, CreateRun(c)
        PROVE  RowsKept /\ NoBootRows
    BY <1>5, InsertRows DEF CreateRun
  <1>6. ASSUME NEW c \in Clients, CreateWorkflow(c)
        PROVE  RowsKept
    BY <1>6, InsertRows DEF CreateWorkflow
  <1>7. ASSUME NEW p \in P!PRuns, CancelQueued(p)
        PROVE  RowsKept /\ NoBootRows
    BY <1>7, StatusWrite DEF CancelQueued, P!CancelQueued
  <1>8. ASSUME NEW r \in C!Runs, CreateIfNoActive(r)
        PROVE  RowsKept /\ NoBootRows
    BY <1>8, SameRows DEF CreateIfNoActive, pOnly
  <1> QED
    BY <1>1, <1>2, <1>3, <1>4, <1>5, <1>6, <1>7, <1>8 DEF Api

LEMMA QueueWaitingRows ==
  ASSUME QueueInv, NEW p \in P!PRuns, NEW s, P!QueueWaiting(p, s)
  PROVE  /\ prun'[p].status = "queued" /\ prun'[p].source = s
         /\ prun'[p].boot = prun[p].boot
         /\ \A q \in P!PRuns \ {p} : prun'[q] = prun[q]
         /\ NoBootRows
  <1> DEFINE once == [prun EXCEPT ![p] = [prun[p] EXCEPT !.status = "queued"]]
  <1>1. prun' = [once EXCEPT ![p] = [once[p] EXCEPT !.source = s]]
    BY RunsTyped DEF P!QueueWaiting
  <1>2. prun' = [prun EXCEPT ![p] = [[prun[p] EXCEPT !.status = "queued"] EXCEPT !.source = s]]
    BY <1>1, RunsTyped
  <1>3. prun[p] \in P!Row
    BY RunsTyped
  <1>4. LET new == [[prun[p] EXCEPT !.status = "queued"] EXCEPT !.source = s] IN
        new.status = "queued" /\ new.source = s /\ new.boot = prun[p].boot
    BY <1>3 DEF P!Row
  <1>5. /\ prun'[p] = [[prun[p] EXCEPT !.status = "queued"] EXCEPT !.source = s]
        /\ \A q \in P!PRuns \ {p} : prun'[q] = prun[q]
    BY <1>2, RunsTyped
  <1>6. prun[p].status = "waiting_for_global"
    BY DEF P!QueueWaiting
  <1> QED
    BY <1>4, <1>5, <1>6 DEF NoBootRows

(* What the runner returned is why the worker marks a success. *)
MarkOk == \A w \in Workers : cpc[w] = "mark_ok" => outcome[w].dbt

LEMMA BindFacts ==
  ASSUME GlobalInv, BootInv, QueueInv, MarkOk, NEW w \in Workers, Binds(w)
  PROVE  LET r == claimed[w]
             p == wf[r].run
         IN  /\ r \in C!Runs /\ p \in P!PRuns /\ r \in published
             /\ prun[p].status = "waiting_for_global"
             /\ prun'[p].status = "queued" /\ prun'[p].source = r
             /\ prun'[p].boot = prun[p].boot
             /\ \A q \in P!PRuns \ {p} : prun'[q] = prun[q]
             /\ NoBootRows
             /\ SetWf(r, "personal_queued")
  <1> DEFINE r == claimed[w]
             p == wf[r].run
  <1>1. cpc[w] = "mark_ok" /\ P!QueueWaiting(p, r) /\ SetWf(r, "personal_queued")
    BY DEF Binds, MarkGlobalSucceeded, C!MarkGlobalSucceeded
  <1>2. r \in C!Runs
    BY <1>1, ClaimedFacts, BootLabelsWork DEF BootLabels
  <1>3. p \in P!PRuns
    BY <1>1, <1>2 DEF BootInv, BootLabels
  <1>4. r \in published
    BY <1>1 DEF MarkOk, GlobalInv, CP!PublicationPathOwned, CP!AfterSlot
  <1>5. prun[p].status = "waiting_for_global"
    BY <1>1 DEF P!QueueWaiting
  <1> QED
    BY <1>1, <1>2, <1>3, <1>4, <1>5, QueueWaitingRows

LEMMA RowsStep ==
  ASSUME GlobalInv, BootInv, QueueInv, MarkOk, [Next]_vars
  PROVE  /\ RowsKept \/ \E w \in Workers : Binds(w)
         /\ NoBootRows \/ \E c \in Clients : CreateWorkflow(c)
         /\ \A p \in P!PRuns : prun[p].status \notin {"absent", "waiting_for_global"}
                                 => RowKept(p)
  <1>1. /\ RowsKept \/ \E w \in Workers : Binds(w)
        /\ NoBootRows \/ \E c \in Clients : CreateWorkflow(c)
    <2>1. CASE Api
      BY <2>1, ApiRows DEF BootInv
    <2>2. CASE Sessions \/ UNCHANGED vars
      BY <2>2, SessionsQuiet, SameRows DEF vars, P!pvars
    <2>3. ASSUME NEW w \in Workers, GlobalWork(w)
          PROVE  NoBootRows /\ (RowsKept \/ Binds(w))
      BY <2>3, GlobalRows, SameRows, BindFacts
    <2> QED
      BY <2>1, <2>2, <2>3, PersonalRows, NextCases
  <1>2. ASSUME NEW w \in Workers, Binds(w), NEW p \in P!PRuns,
               prun[p].status \notin {"absent", "waiting_for_global"}
        PROVE  RowKept(p)
    BY <1>2, BindFacts DEF RowKept
  <1> QED
    BY <1>1, <1>2 DEF RowsKept

(* A step of one worker does not touch the personal half of another. *)
LEMMA PersonalLocal ==
  ASSUME QueueInv, NEW w \in Workers, NEW v \in Workers \ {w},
         GlobalWork(w) \/ PersonalWork(w) \/ Crash(w) \/ Restart(w)
  PROVE  ppc'[v] = ppc[v] /\ holds'[v] = holds[v]
  <1> USE DEF P!PGoto, P!PEndTurn, P!plocals, QueueInv, PP!TypeInv, PP!TypeOK
  <1>1. CASE GlobalWork(w)
    <2>1. UNCHANGED ppc
      BY <1>1, GlobalWorkCalls
    <2>2. UNCHANGED holds
      BY <1>1 DEF GlobalWork, GlobalStep, MarkGlobalRunning, GlobalSlot, GlobalEndsSlot,
         MarkGlobalSucceeded, MarkGlobalFailed, RecordBootstrapFailure, Raise, pOnly,
         P!GlobalFreesSlot, P!QueueWaiting
    <2> QED
      BY <2>1, <2>2
  <1>2. CASE StartTurn(w) \/ TakeSlot(w) \/ MarkPersonalRunning(w) \/ WorkflowNotReady(w)
               \/ MarkPersonalCompleted(w) \/ MarkPersonalFailed(w) \/ PublishResults(w)
    BY <1>2 DEF StartTurn, TakeSlot, MarkPersonalRunning, WorkflowNotReady,
       MarkPersonalCompleted, MarkPersonalFailed, PublishResults, P!StartTurn, P!TakeSlot,
       P!MarkPersonalRunning, P!RaiseInRun, P!MarkPersonalCompleted, P!MarkPersonalFailed,
       P!PublishResults
  <1>3. ASSUME P!FailRun(w) \/ P!RequeueRun(w) \/ P!NothingToRun(w) \/ P!UnlockUser(w)
        PROVE  ppc'[v] = ppc[v] /\ holds'[v] = holds[v]
    BY <1>3 DEF P!FailRun, P!RequeueRun, P!NothingToRun, P!UnlockUser
  <1>4. ASSUME P!ClaimRun(w) \/ P!AcquireUser(w) \/ P!UserBusy(w) \/ P!SlotBusy(w)
                 \/ P!BuildUserModels(w)
        PROVE  ppc'[v] = ppc[v] /\ holds'[v] = holds[v]
    BY <1>4 DEF P!ClaimRun, P!AcquireUser, P!UserBusy, P!SlotBusy, P!BuildUserModels
  <1>5. CASE EndTurn(w) \/ PersonalStep(w)
    BY <1>3, <1>4, <1>5 DEF EndTurn, PersonalStep
  <1>6. ASSUME NEW as \in {Free, Dead}, RaiseInRun(w, as)
        PROVE  ppc'[v] = ppc[v] /\ holds'[v] = holds[v]
    BY <1>6 DEF RaiseInRun, P!RaiseInRun
  <1>7. CASE Crash(w) \/ Restart(w)
    BY <1>7 DEF Crash, Restart, P!CrashInRun, P!RestartIdle
  <1> QED
    BY <1>1, <1>2, <1>5, <1>6, <1>7 DEF PersonalWork

(* A worker marks the workflow of a first refresh only. *)
BootHolds ==
  \A w \in Workers : ppc[w] \in MarkLabels =>
    /\ prun[holds[w]].boot
    /\ ppc[w] = "mark_completed" => prun[holds[w]].status = "completed"

LEMMA MarkLabelStep ==
  ASSUME Halves, QueueInv, NEW w \in Workers, PersonalWork(w) \/ Crash(w) \/ Restart(w),
         ppc'[w] \in MarkLabels
  PROVE  /\ holds'[w] = holds[w]
         /\ prun[holds[w]].boot
         /\ ppc'[w] = "mark_completed" => prun'[holds[w]].status = "completed"
  <1> USE DEF P!PGoto, P!PEndTurn, P!plocals, MarkLabels
  <1>0. ppc \in [Workers -> P!PLabels] /\ holds[w] \in P!PRuns \union {0}
    BY HeldFacts DEF Halves
  <1>1. ~(StartTurn(w) \/ MarkPersonalRunning(w) \/ WorkflowNotReady(w)
            \/ MarkPersonalCompleted(w) \/ MarkPersonalFailed(w) \/ Crash(w) \/ Restart(w))
    BY <1>0 DEF StartTurn, MarkPersonalRunning, WorkflowNotReady, MarkPersonalCompleted,
       MarkPersonalFailed, Crash, Restart, P!StartTurn, P!MarkPersonalRunning,
       P!RaiseInRun, P!MarkPersonalCompleted, P!MarkPersonalFailed, P!CrashInRun,
       P!RestartIdle
  <1>2. ASSUME NEW as, RaiseInRun(w, as) PROVE FALSE
    BY <1>0, <1>2 DEF RaiseInRun, P!RaiseInRun
  <1>3. ~(P!RequeueRun(w) \/ P!NothingToRun(w) \/ P!UnlockUser(w) \/ P!ClaimRun(w)
            \/ P!AcquireUser(w) \/ P!UserBusy(w) \/ P!SlotBusy(w) \/ P!BuildUserModels(w))
    BY <1>0 DEF P!RequeueRun, P!NothingToRun, P!UnlockUser, P!ClaimRun, P!AcquireUser,
       P!UserBusy, P!SlotBusy, P!BuildUserModels
  <1>4. TakeSlot(w) \/ P!FailRun(w) \/ PublishResults(w)
    BY <1>1, <1>2, <1>3 DEF PersonalWork, EndTurn, PersonalStep
  <1>5. CASE TakeSlot(w)
    BY <1>0, <1>5 DEF TakeSlot, P!TakeSlot
  <1>6. CASE P!FailRun(w)
    BY <1>0, <1>6 DEF P!FailRun
  <1>7. CASE PublishResults(w)
    <2>1. /\ ppc[w] = "publish" /\ UNCHANGED holds
          /\ prun[holds[w]].status = "running" /\ prun' = P!CompletedAndCurrent(holds[w])
          /\ ppc' = [ppc EXCEPT ![w] = IF prun[holds[w]].boot THEN "mark_completed"
                                                               ELSE "unlock"]
      BY <1>7 DEF PublishResults, P!PublishResults
    <2>2. holds[w] \in P!PRuns
      BY <1>0, <2>1 DEF QueueInv, PP!TypeInv, PP!Holding, PP!Working, PP!InTry,
         PP!InUserLock, PP!InSlot
    <2> QED
      BY <1>0, <2>1, <2>2, PublicationRows
  <1> QED
    BY <1>4, <1>5, <1>6, <1>7

LEMMA BootHoldsInit == Init => BootHolds
  BY DEF Init, P!Init, BootHolds, MarkLabels

LEMMA ApiKeepsHolds ==
  ASSUME Api \/ Sessions \/ UNCHANGED vars
  PROVE  UNCHANGED <<ppc, holds>>
  <1>1. CASE Api
    BY <1>1 DEF Api, Submit, ReturnExisting, NoSharedData, StartBootstrap, BindLatest,
       CheckQuota, CreateRun, CreateWorkflow, RunRefused, WorkflowRefused, CancelQueued,
       CreateIfNoActive, pOnly, P!SubmitRun, P!CheckQuota, P!CreateRun, P!CreateRefused,
       P!CancelQueued, P!plocals
  <1>2. CASE Sessions
    BY <1>2 DEF Sessions, DropGlobalSession, DropSlotSession, DropUserSession, pOnly,
       P!DropUserSession, P!plocals
  <1>3. CASE UNCHANGED vars
    BY <1>3 DEF vars, P!pvars
  <1> QED
    BY <1>1, <1>2, <1>3

LEMMA BootHoldsNext ==
  ASSUME Halves, GlobalInv, BootInv, QueueInv, MarkOk, BootHolds, [Next]_vars
  PROVE  BootHolds'
  <1> SUFFICES ASSUME NEW v \in Workers, ppc'[v] \in MarkLabels
               PROVE  /\ prun'[holds'[v]].boot
                      /\ ppc'[v] = "mark_completed" => prun'[holds'[v]].status = "completed"
    BY DEF BootHolds
  <1>0. ASSUME holds[v] # 0 PROVE RowKept(holds[v])
    BY <1>0, HeldFacts, RowsStep
  <1>1. ASSUME ppc'[v] = ppc[v], holds'[v] = holds[v]
        PROVE  /\ prun'[holds'[v]].boot
               /\ ppc'[v] = "mark_completed" => prun'[holds'[v]].status = "completed"
    BY <1>0, <1>1, HeldFacts DEF BootHolds, RowKept
  <1>2. ASSUME NEW w \in Workers, GlobalWork(w)
        PROVE  ppc'[v] = ppc[v] /\ holds'[v] = holds[v]
    <2>1. UNCHANGED <<ppc, holds>>
      BY <1>2, GlobalWorkCalls DEF GlobalWork, GlobalStep, MarkGlobalRunning, GlobalSlot,
         GlobalEndsSlot, MarkGlobalSucceeded, MarkGlobalFailed, RecordBootstrapFailure,
         Raise, pOnly, P!plocals, P!GlobalFreesSlot, P!QueueWaiting
    <2> QED
      BY <2>1
  <1>3. ASSUME NEW w \in Workers, PersonalWork(w) \/ Crash(w) \/ Restart(w)
        PROVE  /\ prun'[holds'[v]].boot
               /\ ppc'[v] = "mark_completed" => prun'[holds'[v]].status = "completed"
    <2>1. CASE v = w
      <3>1. /\ holds'[v] = holds[v] /\ prun[holds[v]].boot
            /\ ppc'[v] = "mark_completed" => prun'[holds[v]].status = "completed"
        BY <1>3, <2>1, MarkLabelStep
      <3>2. holds[v] # 0
        <4>1. QueueInv'
          BY QueueNext
        <4> QED
          BY <3>1, <4>1 DEF QueueInv, PP!TypeInv, PP!Holding, PP!Working, PP!InTry,
             PP!InUserLock, PP!InSlot, MarkLabels
      <3> QED
        BY <1>0, <3>1, <3>2 DEF RowKept
    <2>2. CASE v # w
      BY <1>1, <1>3, <2>2, PersonalLocal
    <2> QED
      BY <2>1, <2>2
  <1> QED
    BY <1>1, <1>2, <1>3, ApiKeepsHolds, NextCases

LEMMA WorkProcess ==
  ASSUME Halves, NEW w \in Workers,
         GlobalWork(w) \/ PersonalWork(w) \/ Crash(w) \/ Restart(w)
  PROVE  C!Process(w) \/ UNCHANGED C!cvars
  BY GlobalWorkCalls, GlobalCallRefines, PersonalRefinesGlobal, ProcessRefinesGlobal

LEMMA MarkOkInit == Init => MarkOk
  BY DEF Init, C!Init, MarkOk

LEMMA MarkOkNext ==
  ASSUME Halves, GlobalInv, MarkOk, [Next]_vars
  PROVE  MarkOk'
  <1> SUFFICES ASSUME NEW v \in Workers, cpc'[v] = "mark_ok" PROVE outcome'[v].dbt
    BY DEF MarkOk
  <1>1. ASSUME NEW w \in Workers, C!Process(w) PROVE outcome'[v].dbt
    <2>1. CASE v = w
      BY <1>1, <2>1, BootLabelStep DEF BootLabels
    <2>2. CASE v # w
      <3>1. cpc'[v] = cpc[v] /\ outcome'[v] = outcome[v]
        BY <1>1, <2>2, SameSteps, GlobalAssumptions, CP!ProcessLocal DEF GlobalInv
      <3> QED
        BY <3>1 DEF MarkOk
    <2> QED
      BY <2>1, <2>2
  <1>2. CASE UNCHANGED <<cpc, outcome>>
    BY <1>2 DEF MarkOk
  <1>3. UNCHANGED C!cvars => UNCHANGED <<cpc, outcome>>
    BY DEF C!cvars
  <1>4. C!Environment => UNCHANGED <<cpc, outcome>>
    BY DEF C!Environment, C!CreateIfNoActive, C!CreateBootstrapRun, C!DropGlobalSession,
       C!DropSlotSession, C!locals
  <1> QED
    BY <1>1, <1>2, <1>3, <1>4, GlobalNext DEF C!Next

LEMMA RefreshStays ==
  ASSUME Halves, GlobalInv, [Next]_vars, NEW r \in C!Runs, refresh[r].status # "absent"
  PROVE  refresh'[r].status # "absent"
  <1>1. ASSUME NEW w \in Workers, C!Process(w) PROVE refresh'[r].status # "absent"
    <2>1. CP!Process(w) /\ CP!TypeInv /\ r \in CP!Runs
      BY <1>1, SameSteps DEF GlobalInv, C!Runs, CP!Runs
    <2> QED
      BY <2>1, GlobalAssumptions, CP!RowSteps
      DEF CP!Claims, CP!GivesBack, CP!Ends, CP!Terminal
  <1>2. CASE UNCHANGED C!cvars
    BY <1>2 DEF C!cvars
  <1>3. CASE C!Environment
    BY <1>3, RefreshFunction DEF C!Environment, C!CreateIfNoActive, C!CreateBootstrapRun,
       C!DropGlobalSession, C!DropSlotSession, C!Insert, C!NewRow, C!tables
  <1> QED
    BY <1>1, <1>2, <1>3, GlobalNext DEF C!Next

-----------------------------------------------------------------------------
(* Refreshes, workflows and runs of first refreshes are one to one to one. *)

Linked ==
  /\ \A r \in C!Runs : wf[r].status # "none" =>
       /\ wf[r].run \in P!PRuns /\ prun[wf[r].run].status # "absent"
       /\ refresh[r].status # "absent"
  /\ \A r, q \in C!Runs :
       wf[r].status # "none" /\ wf[q].status # "none" /\ wf[r].run = wf[q].run => r = q
  /\ \A p \in P!PRuns : prun[p].status # "absent" /\ prun[p].boot =>
       \E r \in C!Runs : wf[r].status # "none" /\ wf[r].run = p
  /\ \A r \in C!Runs : C!Bootstrap(r) => wf[r].status # "none"

Invs == Halves /\ GlobalInv /\ BootInv /\ QueueInv /\ MarkOk /\ BootHolds

(* What a mark makes of one workflow. *)
Change(r, s, n) ==
  /\ wf[r].status # "none" /\ s \in WorkflowStatus \ {"none"} /\ n \in Nat
  /\ wf' = [wf EXCEPT ![r] = [status |-> s, user |-> wf[r].user, run |-> wf[r].run,
                              retries |-> n]]

RunningMark(w, r) ==
  /\ wf[r].status \in {"global_queued", "failed_retryable"}
  /\ Change(r, "global_running", wf[r].retries)

FailureMark(w, r) ==
  /\ r = claimed[w] /\ MayReopen(r)
  /\ C!MarkGlobalFailed(w) \/ C!RecordBootstrapFailure(w)
  /\ \E s \in {"failed_terminal", "failed_retryable"} :
       /\ Change(r, s, wf[r].retries + 1)
       /\ s = "failed_terminal" => wf[r].retries + 1 >= MaxRetries

BindMark(w, r) ==
  /\ Binds(w) /\ r = claimed[w]
  /\ Change(r, "personal_queued", wf[r].retries)

PersonalMark(w, r) ==
  \E s \in {"personal_running", "completed", "personal_failed_retryable"} :
    /\ Change(r, s, wf[r].retries)
    /\ holds[w] \in P!PRuns /\ wf[r].run = holds[w] /\ prun[holds[w]].status # "absent"
    /\ prun[holds[w]].status # "waiting_for_global"
    /\ s = "personal_running" => wf[r].status = "personal_queued"
    /\ s = "completed" =>
         /\ wf[r].status = "personal_running"
         /\ ppc[w] = "mark_completed" /\ prun[holds[w]].status = "completed"
    /\ s = "personal_failed_retryable" => MayReopen(r)

WorkflowMark(w, r) ==
  RunningMark(w, r) \/ FailureMark(w, r) \/ BindMark(w, r) \/ PersonalMark(w, r)

LEMMA SetWfChange ==
  ASSUME Typed, NEW r \in C!Runs, NEW s \in WorkflowStatus \ {"none"},
         wf[r].status # "none", SetWf(r, s)
  PROVE  Change(r, s, wf[r].retries)
  <1>1. wf[r] \in Workflow
    BY DEF Typed
  <1>2. wf' = [wf EXCEPT ![r] = [wf[r] EXCEPT !.status = s]]
    BY DEF SetWf
  <1>3. [wf[r] EXCEPT !.status = s] =
          [status |-> s, user |-> wf[r].user, run |-> wf[r].run, retries |-> wf[r].retries]
    BY <1>1 DEF Workflow
  <1> QED
    BY <1>1, <1>2, <1>3 DEF Change, Workflow

LEMMA FailedChange ==
  ASSUME Typed, NEW r \in C!Runs, wf[r].status # "none", GlobalFailed(r)
  PROVE  \E s \in {"failed_terminal", "failed_retryable"} :
           /\ Change(r, s, wf[r].retries + 1)
           /\ s = "failed_terminal" => wf[r].retries + 1 >= MaxRetries
  <1>1. wf' = [wf EXCEPT ![r] = FailedRow(wf[r])]
    BY FailedRewrites
  <1>2. wf[r].retries + 1 \in Nat
    BY DEF Typed, Workflow
  <1> QED
    BY <1>1, <1>2 DEF Change, FailedRow, WorkflowStatus

(* The refresh that a worker marks has a workflow, and so has the run. *)
LEMMA MarkedRefresh ==
  ASSUME Invs, Linked, NEW w \in Workers, cpc[w] \in BootLabels
  PROVE  claimed[w] \in C!Runs /\ wf[claimed[w]].status # "none"
  <1>1. claimed[w] \in C!Runs
    BY ClaimedFacts, BootLabelsWork DEF Invs
  <1> QED
    BY <1>1 DEF Invs, BootInv, Linked

LEMMA MarkedRun ==
  ASSUME Invs, Linked, NEW w \in Workers, ppc[w] \in MarkLabels
  PROVE  LET r == WorkflowOf(holds[w]) IN
         /\ r \in C!Runs /\ wf[r].status # "none" /\ wf[r].run = holds[w]
         /\ holds[w] \in P!PRuns
         /\ prun[holds[w]].status \in {"running", "completed", "failed"}
         /\ ppc[w] = "mark_completed" => prun[holds[w]].status = "completed"
  <1>1. /\ holds[w] \in P!PRuns
        /\ prun[holds[w]].status \in {"running", "completed", "failed"}
    BY HeldFacts DEF Invs
  <1>2. /\ prun[holds[w]].boot
        /\ ppc[w] = "mark_completed" => prun[holds[w]].status = "completed"
    BY DEF Invs, BootHolds
  <1>3. \E r \in C!Runs : wf[r].status # "none" /\ wf[r].run = holds[w]
    BY <1>1, <1>2 DEF Linked
  <1> QED
    BY <1>1, <1>2, <1>3 DEF WorkflowOf

LEMMA WorkMarks ==
  ASSUME Invs, Linked, NEW w \in Workers,
         GlobalWork(w) \/ PersonalWork(w) \/ Crash(w) \/ Restart(w)
  PROVE  UNCHANGED wf \/ \E r \in C!Runs : WorkflowMark(w, r)
  <1> USE DEF fvars
  <1>0. Typed /\ {"global_running", "personal_queued", "personal_running", "completed",
                  "personal_failed_retryable"} \subseteq WorkflowStatus \ {"none"}
    BY DEF WorkflowStatus, Invs, BootInv
  <1>1. CASE GlobalStep(w) \/ GlobalSlot(w) \/ GlobalEndsSlot(w)
               \/ \E as \in {Free, Dead} : Raise(w, as)
    BY <1>1 DEF GlobalStep, GlobalSlot, GlobalEndsSlot, Raise
  <1>2. CASE MarkGlobalRunning(w)
    <2>1. CASE UNCHANGED wf
      BY <2>1
    <2>2. CASE ~UNCHANGED wf
      <3>1. cpc[w] = "mark_running" /\ SetWf(claimed[w], "global_running")
            /\ wf[claimed[w]].status \in {"global_queued", "failed_retryable"}
        BY <1>2, <2>2 DEF MarkGlobalRunning, C!MarkGlobalRunning
      <3>2. claimed[w] \in C!Runs
        BY <3>1, MarkedRefresh DEF BootLabels
      <3> QED
        BY <1>0, <3>1, <3>2, SetWfChange DEF RunningMark, WorkflowMark
    <2> QED
      BY <2>1, <2>2
  <1>3. CASE MarkGlobalSucceeded(w)
    <2>1. CASE UNCHANGED wf
      BY <2>1
    <2>2. CASE ~UNCHANGED wf
      <3>1. cpc[w] = "mark_ok" /\ SetWf(claimed[w], "personal_queued") /\ Binds(w)
        BY <1>3, <2>2 DEF MarkGlobalSucceeded, C!MarkGlobalSucceeded, Binds
      <3>2. claimed[w] \in C!Runs /\ wf[claimed[w]].status # "none"
        BY <3>1, MarkedRefresh DEF BootLabels
      <3> QED
        BY <1>0, <3>1, <3>2, SetWfChange DEF BindMark, WorkflowMark
    <2> QED
      BY <2>1, <2>2
  <1>4. CASE MarkGlobalFailed(w) \/ RecordBootstrapFailure(w)
    <2>1. cpc[w] \in {"mark_failed", "fail_mark"} /\ GlobalFailed(claimed[w])
      BY <1>4 DEF MarkGlobalFailed, RecordBootstrapFailure, C!MarkGlobalFailed,
         C!RecordBootstrapFailure
    <2>2. claimed[w] \in C!Runs /\ wf[claimed[w]].status # "none"
      BY <2>1, MarkedRefresh DEF BootLabels
    <2>3. MayReopen(claimed[w]) /\ (C!MarkGlobalFailed(w) \/ C!RecordBootstrapFailure(w))
      BY <1>4, <2>1 DEF GlobalFailed, MarkGlobalFailed, RecordBootstrapFailure
    <2> QED
      BY <1>0, <2>1, <2>2, <2>3, FailedChange DEF FailureMark, WorkflowMark
  <1>5. CASE StartTurn(w) \/ EndTurn(w) \/ PersonalStep(w) \/ TakeSlot(w)
               \/ WorkflowNotReady(w) \/ PublishResults(w)
               \/ \E as \in {Free, Dead} : RaiseInRun(w, as)
    BY <1>5 DEF StartTurn, EndTurn, PersonalStep, TakeSlot, WorkflowNotReady,
       PublishResults, RaiseInRun
  <1> DEFINE o == WorkflowOf(holds[w])
  <1>6. ASSUME ppc[w] \in MarkLabels,
               NEW s \in {"personal_running", "completed", "personal_failed_retryable"},
               SetWf(o, s),
               s = "personal_running" => wf[o].status = "personal_queued",
               s = "completed" =>
                 ppc[w] = "mark_completed" /\ wf[o].status = "personal_running",
               s = "personal_failed_retryable" => MayReopen(o)
        PROVE  \E r \in C!Runs : WorkflowMark(w, r)
    <2>1. /\ o \in C!Runs /\ wf[o].status # "none" /\ wf[o].run = holds[w]
          /\ holds[w] \in P!PRuns
          /\ prun[holds[w]].status \in {"running", "completed", "failed"}
          /\ s = "completed" => prun[holds[w]].status = "completed"
      BY <1>6, MarkedRun
    <2>2. Change(o, s, wf[o].retries)
      BY <1>0, <1>6, <2>1, SetWfChange
    <2>3. PersonalMark(w, o)
      BY <1>6, <2>1, <2>2 DEF PersonalMark
    <2> QED
      BY <2>1, <2>3 DEF WorkflowMark
  <1>7. CASE MarkPersonalRunning(w)
    <2>1. /\ ppc[w] \in MarkLabels /\ SetWf(o, "personal_running")
          /\ wf[o].status = "personal_queued"
      BY <1>7 DEF MarkPersonalRunning, MarkLabels
    <2> QED
      BY <1>6, <2>1
  <1>8. CASE MarkPersonalCompleted(w)
    <2>1. /\ ppc[w] = "mark_completed"
          /\ \/ UNCHANGED wf
             \/ wf[o].status = "personal_running" /\ SetWf(o, "completed")
      BY <1>8 DEF MarkPersonalCompleted, P!MarkPersonalCompleted
    <2> QED
      BY <1>6, <2>1 DEF MarkLabels
  <1>9. CASE MarkPersonalFailed(w)
    <2>1. ppc[w] = "fail_mark" /\ SetWf(o, "personal_failed_retryable") /\ MayReopen(o)
      BY <1>9 DEF MarkPersonalFailed, P!MarkPersonalFailed
    <2> QED
      BY <1>6, <2>1 DEF MarkLabels
  <1>10. CASE Crash(w) \/ Restart(w)
    BY <1>10 DEF Crash, Restart
  <1> QED
    BY <1>1, <1>2, <1>3, <1>4, <1>5, <1>7, <1>8, <1>9, <1>10 DEF GlobalWork, PersonalWork

(* Every step either leaves the workflows, or marks one, or adds one. *)
LEMMA WorkflowSteps ==
  ASSUME Invs, Linked, [Next]_vars
  PROVE  \/ UNCHANGED wf
         \/ \E w \in Workers, r \in C!Runs : WorkflowMark(w, r)
         \/ \E c \in Clients : CreateWorkflow(c)
  <1>1. CASE Api
    BY <1>1 DEF Api, Submit, ReturnExisting, NoSharedData, StartBootstrap, BindLatest,
       CheckQuota, CreateRun, RunRefused, WorkflowRefused, CancelQueued, CreateIfNoActive,
       fvars
  <1>2. CASE Sessions \/ UNCHANGED vars
    BY <1>2, SessionsQuiet DEF vars, fvars
  <1> QED
    BY <1>1, <1>2, WorkMarks, NextCases

(* What the insert of a workflow does to the three tables. *)
LEMMA CreatedRows ==
  ASSUME Invs, NEW c \in Clients, NEW r \in C!Runs, NEW p \in P!PRuns, Started(c, r, p)
  PROVE  /\ refresh[r].status = "absent" /\ refresh'[r].status # "absent"
         /\ prun[p].status = "absent" /\ prun'[p].status = "waiting_for_global"
         /\ \A q \in P!PRuns \ {p} : prun'[q] = prun[q]
         /\ \A q \in C!Runs \ {r} : wf'[q] = wf[q]
         /\ wf'[r].status = "global_queued" /\ wf'[r].run = p /\ wf'[r].retries = 0
         /\ wf'[r].user = req[c].user /\ Open(req[c].user) = {}
  <1>1. refresh[r].status = "absent" /\ refresh'[r].status # "absent"
    BY RefreshFunction DEF Started, C!Insert, C!NewRow, Invs
  <1>2. /\ prun[p].status = "absent"
        /\ prun' = [prun EXCEPT ![p] = P!NewRow("waiting_for_global", req[c].user, 0, TRUE)]
    BY DEF Started, P!InsertRow, P!NewRun, P!Absent
  <1>3. prun \in [P!PRuns -> P!Row]
    BY RunsTyped DEF Invs
  <1>4. /\ prun'[p].status = "waiting_for_global"
        /\ \A q \in P!PRuns \ {p} : prun'[q] = prun[q]
    BY <1>2, <1>3 DEF P!NewRow
  <1>5. wf \in [C!Runs -> Workflow]
    BY DEF Invs, BootInv, Typed
  <1> QED
    BY <1>1, <1>2, <1>4, <1>5 DEF Started

LEMMA ChangedRow ==
  ASSUME Invs, NEW r \in C!Runs, NEW s, NEW n, Change(r, s, n)
  PROVE  /\ wf'[r].status = s /\ wf'[r].retries = n
         /\ wf'[r].run = wf[r].run /\ wf'[r].user = wf[r].user
         /\ \A q \in C!Runs \ {r} : wf'[q] = wf[q]
  BY DEF Change, Invs, BootInv, Typed

LEMMA MarkChanges ==
  ASSUME NEW w, NEW r, WorkflowMark(w, r)
  PROVE  \E s, n : Change(r, s, n)
  BY DEF WorkflowMark, RunningMark, FailureMark, BindMark, PersonalMark

LEMMA LinkedInit == Init => Linked
  BY DEF Init, C!Init, P!Init, P!NewRow, C!NewRow, NoWorkflow, Linked, C!Bootstrap

LEMMA LinkedNext ==
  ASSUME Invs, Linked, [Next]_vars
  PROVE  Linked'
  <1>0. /\ \A p \in P!PRuns : prun[p].status # "absent" =>
             prun'[p].status # "absent" /\ prun'[p].boot = prun[p].boot
        /\ NoBootRows \/ \E c \in Clients : CreateWorkflow(c)
        /\ \A r \in C!Runs : refresh[r].status # "absent" => refresh'[r].status # "absent"
        /\ \A r \in C!Runs : C!Bootstrap(r)' => C!Bootstrap(r) \/ Given(r)
    <2>1. ASSUME NEW w \in Workers, Binds(w), NEW p \in P!PRuns, prun[p].status # "absent"
          PROVE  prun'[p].status # "absent" /\ prun'[p].boot = prun[p].boot
      BY <2>1, BindFacts DEF Invs
    <2> QED
      BY <2>1, RowsStep, RefreshStays, TriggerSteps DEF Invs, BootInv, RowsKept, RowKept
  <1>1. ASSUME \A r \in C!Runs : /\ wf'[r].run = wf[r].run
                                 /\ wf'[r].status = "none" <=> wf[r].status = "none",
               \A c \in Clients : ~CreateWorkflow(c)
        PROVE  Linked'
    <2>1. \A r \in C!Runs : wf'[r].status # "none" =>
            /\ wf'[r].run \in P!PRuns /\ prun'[wf'[r].run].status # "absent"
            /\ refresh'[r].status # "absent"
      BY <1>0, <1>1 DEF Linked
    <2>2. \A r, q \in C!Runs :
            wf'[r].status # "none" /\ wf'[q].status # "none" /\ wf'[r].run = wf'[q].run
              => r = q
      BY <1>1 DEF Linked
    <2>3. \A p \in P!PRuns : prun'[p].status # "absent" /\ prun'[p].boot =>
            \E r \in C!Runs : wf'[r].status # "none" /\ wf'[r].run = p
      BY <1>0, <1>1 DEF Linked, NoBootRows
    <2>4. \A r \in C!Runs : C!Bootstrap(r)' => wf'[r].status # "none"
      BY <1>0, <1>1 DEF Linked, Given
    <2> QED
      BY <2>1, <2>2, <2>3, <2>4 DEF Linked
  <1>2. ASSUME NEW w \in Workers, NEW r \in C!Runs, WorkflowMark(w, r)
        PROVE  Linked'
    <2>1. PICK s, n : Change(r, s, n)
      BY <1>2, MarkChanges
    <2>2. \A q \in C!Runs : /\ wf'[q].run = wf[q].run
                            /\ wf'[q].status = "none" <=> wf[q].status = "none"
      BY <2>1, ChangedRow DEF Change
    <2>3. \A c \in Clients : ~CreateWorkflow(c)
      <3> SUFFICES ASSUME NEW c \in Clients, CreateWorkflow(c) PROVE FALSE
        OBVIOUS
      <3>1. PICK q \in C!Runs, p \in P!PRuns : Started(c, q, p)
        BY CreateFacts
      <3>2. wf[q].status = "none"
        BY <3>1, CreatedRows DEF Linked
      <3> QED
        BY <2>2, <3>1, <3>2, CreatedRows
    <2> QED
      BY <1>1, <2>2, <2>3
  <1>3. ASSUME NEW c \in Clients, CreateWorkflow(c)
        PROVE  Linked'
    <2>1. PICK q \in C!Runs, p \in P!PRuns : Started(c, q, p)
      BY <1>3, CreateFacts
    <2>2. /\ refresh[q].status = "absent" /\ refresh'[q].status # "absent"
          /\ prun[p].status = "absent" /\ prun'[p].status = "waiting_for_global"
          /\ \A o \in P!PRuns \ {p} : prun'[o] = prun[o]
          /\ \A o \in C!Runs \ {q} : wf'[o] = wf[o]
          /\ wf'[q].status = "global_queued" /\ wf'[q].run = p
      BY <2>1, CreatedRows
    <2>3. wf[q].status = "none"
      BY <2>2 DEF Linked
    <2>4. \A r \in C!Runs : wf[r].status # "none" => wf[r].run # p
      BY <2>2 DEF Linked
    <2>5. \A r \in C!Runs : wf'[r].status # "none" =>
            /\ wf'[r].run \in P!PRuns /\ prun'[wf'[r].run].status # "absent"
            /\ refresh'[r].status # "absent"
      BY <1>0, <2>2 DEF Linked
    <2>6. \A r, o \in C!Runs :
            wf'[r].status # "none" /\ wf'[o].status # "none" /\ wf'[r].run = wf'[o].run
              => r = o
      BY <2>2, <2>4 DEF Linked
    <2>7. \A o \in P!PRuns : prun'[o].status # "absent" /\ prun'[o].boot =>
            \E r \in C!Runs : wf'[r].status # "none" /\ wf'[r].run = o
      BY <2>2, <2>3 DEF Linked
    <2>8. \A r \in C!Runs : C!Bootstrap(r)' => wf'[r].status # "none"
      BY <1>0, <2>2 DEF Linked, Given
    <2> QED
      BY <2>5, <2>6, <2>7, <2>8 DEF Linked
  <1>4. CASE UNCHANGED wf
    <2>1. \A c \in Clients : ~CreateWorkflow(c)
      <3> SUFFICES ASSUME NEW c \in Clients, CreateWorkflow(c) PROVE FALSE
        OBVIOUS
      <3>1. PICK q \in C!Runs, p \in P!PRuns : Started(c, q, p)
        BY CreateFacts
      <3> QED
        BY <1>4, <3>1, CreatedRows DEF Linked
    <2> QED
      BY <1>1, <1>4, <2>1
  <1> QED
    BY <1>2, <1>3, <1>4, WorkflowSteps

-----------------------------------------------------------------------------
(* The hand-off *)

LEMMA PublishedStays ==
  ASSUME Invs, [Next]_vars
  PROVE  published \subseteq published'
  <1>1. [CP!Next]_(CP!cvars)
    BY GlobalNext, SameSteps, SameVars DEF C!Next, CP!Next, Invs
  <1> QED
    BY <1>1, GlobalAssumptions, CP!PublishedGrows DEF Invs, GlobalInv

Waits == MaySucceed \union {"failed_terminal"}

LEMMA HandOffInit == Init => HandOffReady
  BY DEF Init, NoWorkflow, HandOffReady

LEMMA HandOffNext ==
  ASSUME Invs, Linked, HandOffReady, [Next]_vars
  PROVE  HandOffReady'
  <1> DEFINE Ready(r) == IF prun[wf[r].run].status = "waiting_for_global"
                           THEN wf[r].status \in Waits
                           ELSE prun[wf[r].run].source = r /\ r \in published
  <1>0. \A r \in C!Runs : wf[r].status # "none" => Ready(r) /\ wf[r].run \in P!PRuns
                                                     /\ prun[wf[r].run].status # "absent"
    BY DEF HandOffReady, Waits, Linked
  <1> SUFFICES ASSUME NEW r \in C!Runs, wf'[r].status # "none" PROVE Ready(r)'
    BY DEF HandOffReady, Waits
  <1>1. ASSUME wf'[r] = wf[r], RowKept(wf[r].run) PROVE Ready(r)'
    BY <1>0, <1>1, PublishedStays DEF RowKept
  <1>2. ASSUME NEW w \in Workers, Binds(w) PROVE Ready(r)'
    <2>1. /\ claimed[w] \in C!Runs /\ wf[claimed[w]].run \in P!PRuns
          /\ claimed[w] \in published
          /\ prun[wf[claimed[w]].run].status = "waiting_for_global"
          /\ prun'[wf[claimed[w]].run].status = "queued"
          /\ prun'[wf[claimed[w]].run].source = claimed[w]
          /\ \A q \in P!PRuns \ {wf[claimed[w]].run} : prun'[q] = prun[q]
          /\ SetWf(claimed[w], "personal_queued")
      BY <1>2, BindFacts DEF Invs
    <2>2. wf[claimed[w]].status # "none"
      BY <1>2 DEF Binds, MaySucceed
    <2>3. /\ wf'[claimed[w]].run = wf[claimed[w]].run
          /\ \A q \in C!Runs \ {claimed[w]} : wf'[q] = wf[q]
      BY <2>1 DEF SetWf, Invs, BootInv, Typed, Workflow
    <2>4. CASE r = claimed[w]
      BY <2>1, <2>3, <2>4, PublishedStays
    <2>5. CASE r # claimed[w]
      <3>1. wf'[r] = wf[r] /\ wf[r].run # wf[claimed[w]].run
        BY <2>2, <2>3, <2>5, <2>1 DEF Linked
      <3>2. prun'[wf[r].run] = prun[wf[r].run]
        BY <1>0, <2>1, <3>1
      <3> QED
        BY <1>0, <3>1, <3>2, PublishedStays
    <2> QED
      BY <2>4, <2>5
  <1>3. ASSUME RowsKept PROVE Ready(r)'
    <2>1. CASE wf'[r] = wf[r]
      BY <1>0, <1>1, <1>3, <2>1 DEF RowsKept
    <2>2. ASSUME NEW c \in Clients, CreateWorkflow(c), wf'[r] # wf[r] PROVE Ready(r)'
      <3>1. PICK q \in C!Runs, p \in P!PRuns : Started(c, q, p)
        BY <2>2, CreateFacts
      <3>2. q = r /\ wf'[r].status = "global_queued" /\ wf'[r].run = p
            /\ prun'[p].status = "waiting_for_global"
        BY <2>2, <3>1, CreatedRows
      <3> QED
        BY <3>2 DEF Waits, MaySucceed
    <2>3. ASSUME NEW w \in Workers, NEW q \in C!Runs, WorkflowMark(w, q), wf'[r] # wf[r]
          PROVE  Ready(r)'
      <3>1. PICK s, n : Change(q, s, n)
        BY <2>3, MarkChanges
      <3>2. q = r /\ wf'[r].run = wf[r].run /\ wf[r].status # "none"
        BY <2>3, <3>1, ChangedRow DEF Change
      <3>3. RowKept(wf[r].run) /\ Ready(r)
        BY <1>0, <1>3, <3>2 DEF RowsKept
      <3>4. CASE RunningMark(w, r)
        <4>1. wf'[r].status = "global_running" /\ wf[r].status \in Waits
          BY <3>4, ChangedRow DEF RunningMark, Waits, MaySucceed
        <4> QED
          BY <3>2, <3>3, <4>1, PublishedStays DEF RowKept, Waits, MaySucceed
      <3>5. CASE FailureMark(w, r)
        <4>1. wf'[r].status \in {"failed_terminal", "failed_retryable"}
          BY <3>5, ChangedRow DEF FailureMark
        <4> QED
          BY <3>2, <3>3, <4>1, PublishedStays DEF RowKept, Waits, MaySucceed
      <3>6. CASE BindMark(w, r)
        BY <1>2, <3>6 DEF BindMark
      <3>7. CASE PersonalMark(w, r)
        <4>1. prun[wf[r].run].status # "waiting_for_global"
          BY <3>7 DEF PersonalMark
        <4> QED
          BY <3>2, <3>3, <4>1, PublishedStays DEF RowKept
      <3> QED
        BY <2>3, <3>2, <3>4, <3>5, <3>6, <3>7 DEF WorkflowMark
    <2> QED
      BY <2>1, <2>2, <2>3, WorkflowSteps
  <1> QED
    BY <1>2, <1>3, RowsStep DEF Invs

(* A completed workflow has a completed run. *)
CompletedRun ==
  \A r \in C!Runs : wf[r].status = "completed" => prun[wf[r].run].status = "completed"

LEMMA CompletedInit == Init => CompletedRun
  BY DEF Init, NoWorkflow, CompletedRun

LEMMA CompletedNext ==
  ASSUME Invs, Linked, CompletedRun, [Next]_vars
  PROVE  CompletedRun'
  <1> SUFFICES ASSUME NEW r \in C!Runs, wf'[r].status = "completed"
               PROVE  prun'[wf'[r].run].status = "completed"
    BY DEF CompletedRun
  <1>1. ASSUME NEW p \in P!PRuns, prun[p].status = "completed"
        PROVE  prun'[p].status = "completed"
    BY <1>1, RowsStep DEF Invs, RowKept
  <1>2. CASE wf'[r] = wf[r]
    BY <1>1, <1>2 DEF CompletedRun, Linked
  <1>3. ASSUME NEW c \in Clients, CreateWorkflow(c), wf'[r] # wf[r] PROVE FALSE
    BY <1>3, CreateFacts, CreatedRows
  <1>4. ASSUME NEW w \in Workers, NEW q \in C!Runs, WorkflowMark(w, q), wf'[r] # wf[r]
        PROVE  prun'[wf'[r].run].status = "completed"
    <2>1. PICK s, n : Change(q, s, n)
      BY <1>4, MarkChanges
    <2>2. q = r /\ wf'[r].run = wf[r].run
      BY <1>4, <2>1, ChangedRow
    <2>3. ~(RunningMark(w, r) \/ FailureMark(w, r) \/ BindMark(w, r))
      BY ChangedRow DEF RunningMark, FailureMark, BindMark
    <2>4. PersonalMark(w, r)
      BY <1>4, <2>2, <2>3 DEF WorkflowMark
    <2>5. wf[r].run \in P!PRuns /\ prun[wf[r].run].status = "completed"
      BY <2>4, ChangedRow DEF PersonalMark
    <2> QED
      BY <1>1, <2>2, <2>5
  <1> QED
    BY <1>2, <1>3, <1>4, WorkflowSteps

-----------------------------------------------------------------------------
(* The constraints of the workflow table *)

OneOpen ==
  \A r, q \in C!Runs :
    wf[r].status \notin Closed /\ wf[q].status \notin Closed /\ wf[r].user = wf[q].user
      => r = q

LEMMA OneOpenInit == Init => OneOpen
  BY DEF Init, NoWorkflow, OneOpen, Closed

LEMMA OneOpenNext ==
  ASSUME Invs, Linked, OneOpen, [Next]_vars
  PROVE  OneOpen'
  <1>1. CASE UNCHANGED wf
    BY <1>1 DEF OneOpen
  <1>2. ASSUME NEW c \in Clients, CreateWorkflow(c) PROVE OneOpen'
    <2>1. PICK r \in C!Runs, p \in P!PRuns : Started(c, r, p)
      BY <1>2, CreateFacts
    <2>2. \A q \in C!Runs \ {r} : wf'[q] = wf[q]
                                    /\ (wf'[q].status \in Closed \/ wf'[q].user # wf'[r].user)
      BY <2>1, CreatedRows DEF Open
    <2> QED
      BY <2>2 DEF OneOpen
  <1>3. ASSUME NEW w \in Workers, NEW r \in C!Runs, WorkflowMark(w, r) PROVE OneOpen'
    <2>1. PICK s, n : Change(r, s, n)
      BY <1>3, MarkChanges
    <2>2. /\ wf'[r].status = s /\ wf'[r].user = wf[r].user
          /\ \A q \in C!Runs \ {r} : wf'[q] = wf[q]
      BY <2>1, ChangedRow
    <2>3. wf[r].status \notin Closed \/ s \in Closed \/ MayReopen(r)
      <3>1. RunningMark(w, r) => wf[r].status \notin Closed
        BY DEF RunningMark, Closed
      <3>2. BindMark(w, r) => wf[r].status \notin Closed
        BY DEF BindMark, Binds, MaySucceed, Closed
      <3>3. FailureMark(w, r) => MayReopen(r)
        BY DEF FailureMark
      <3>4. PersonalMark(w, r) => wf[r].status \notin Closed \/ s \in Closed \/ MayReopen(r)
        BY <2>2, ChangedRow DEF PersonalMark, Closed
      <3> QED
        BY <1>3, <3>1, <3>2, <3>3, <3>4 DEF WorkflowMark
    <2>4. ASSUME s \notin Closed, NEW q \in C!Runs \ {r}
          PROVE  wf[q].status \in Closed \/ wf[q].user # wf[r].user
      BY <2>3, <2>4 DEF OneOpen, MayReopen, Open
    <2> QED
      BY <2>2, <2>4 DEF OneOpen
  <1> QED
    BY <1>1, <1>2, <1>3, WorkflowSteps

(* A refresh is marked failed twice at most, by the one worker that has    *)
(* it: within the lock, and once more if what follows raises.              *)
Spent == {"unlock", "fail", "fail_mark"}

RetryInv ==
  /\ \A r \in C!Runs : wf[r].retries <= 2
  /\ \A r \in C!Runs : refresh[r].status \in {"absent", "queued"} => wf[r].retries = 0
  /\ \A w \in Workers : claimed[w] # 0 =>
       wf[claimed[w]].retries <= IF cpc[w] \in Spent THEN 1 ELSE 0

LEMMA RetryInit == Init => RetryInv
  BY DEF Init, C!Init, NoWorkflow, RetryInv

Carries(w) ==
  /\ claimed'[w] = claimed[w]
  /\ cpc'[w] \notin Spent => cpc[w] \notin Spent

LEMMA CarryStep ==
  ASSUME Halves, GlobalInv, NEW w \in Workers, C!Process(w), claimed'[w] # 0
  PROVE  \/ Carries(w)
         \/ claimed'[w] \in C!Runs /\ refresh[claimed'[w]].status = "queued"
  <1> USE DEF C!Goto, C!EndTurn, C!locals, Spent, Carries
  <1>0. cpc \in [Workers -> C!Labels] /\ claimed \in [Workers -> C!Runs \union {0}]
    BY DEF Halves, GlobalInv, CP!TypeInv, CP!TypeOK, CP!Runs, C!Runs
  <1>1. CASE C!ClaimNext(w)
    BY <1>0, <1>1 DEF C!ClaimNext, C!Queued
  <1>2. CASE C!NothingQueued(w) \/ C!PersonalFreesSlot(w) \/ C!EndPersonalTurn(w)
               \/ C!GlobalBusy(w) \/ C!MarkGlobalRunning(w) \/ C!AcquireGlobal(w)
               \/ C!RecordPlan(w) \/ C!TrySlot(w)
    BY <1>0, <1>2 DEF C!NothingQueued, C!PersonalFreesSlot, C!EndPersonalTurn,
       C!GlobalBusy, C!MarkGlobalRunning, C!AcquireGlobal, C!RecordPlan, C!TrySlot
  <1>3. CASE C!CollectAndBuild(w) \/ C!PublishShared(w) \/ C!CompleteRun(w)
               \/ C!RecordAudit(w) \/ C!UpsertSourceResults(w) \/ C!Finish(w)
               \/ C!MarkGlobalSucceeded(w) \/ C!MarkGlobalFailed(w) \/ C!Restart(w)
    BY <1>0, <1>3 DEF C!CollectAndBuild, C!PublishShared, C!CompleteRun, C!RecordAudit,
       C!UpsertSourceResults, C!Finish, C!MarkGlobalSucceeded, C!MarkGlobalFailed,
       C!Restart
  <1>4. CASE C!Unlock(w) \/ C!Requeue(w) \/ C!RecordBootstrapFailure(w) \/ C!Crash(w)
    BY <1>0, <1>4 DEF C!Unlock, C!Requeue, C!RecordBootstrapFailure, C!Crash
  <1>5. CASE C!RecordFailure(w)
    BY <1>0, <1>5 DEF C!RecordFailure
  <1>6. ASSUME NEW as, C!Raise(w, as) PROVE Carries(w)
    BY <1>0, <1>6 DEF C!Raise
  <1>7. ASSUME NEW as, C!PersonalRaise(w, as) PROVE Carries(w)
    BY <1>0, <1>7 DEF C!PersonalRaise, C!Personal
  <1>8. ASSUME NEW i, C!PersonalTakesSlot(w, i) PROVE Carries(w)
    BY <1>0, <1>8 DEF C!PersonalTakesSlot
  <1> QED
    BY <1>1, <1>2, <1>3, <1>4, <1>5, <1>6, <1>7, <1>8 DEF C!Process, C!Step

(* Only a requeue takes a row back to the queue. *)
LEMMA QueuedStep ==
  ASSUME Halves, GlobalInv, NEW w \in Workers, C!Process(w), NEW r \in C!Runs,
         refresh'[r].status \in {"absent", "queued"}
  PROVE  \/ refresh[r].status \in {"absent", "queued"}
         \/ claimed[w] = r /\ cpc[w] = "requeue"
  <1>1. CP!Process(w) /\ CP!TypeInv /\ r \in CP!Runs
    BY SameSteps DEF GlobalInv, C!Runs, CP!Runs
  <1>2. \/ refresh'[r].status = refresh[r].status
        \/ CP!GivesBack(w, r)
    BY <1>1, GlobalAssumptions, CP!RowSteps DEF CP!Claims, CP!Ends, CP!Terminal
  <1>3. ASSUME CP!GivesBack(w, r), refresh'[r].status # refresh[r].status
        PROVE  claimed[w] = r /\ cpc[w] = "requeue"
    <2>0. /\ claimed \in [Workers -> C!Runs \union {0}] /\ r # 0
          /\ refresh[r].status = "running" /\ refresh'[r].status = "queued"
          /\ claimed[w] = r /\ claimed'[w] = 0
          /\ refresh = [q \in C!Runs |-> refresh[q]]
      BY <1>3, RefreshFunction DEF GlobalInv, CP!TypeInv, CP!TypeOK, CP!Runs, C!Runs,
         CP!GivesBack
    <2>1. refresh' # refresh
      BY <2>0
    <2>2. ~(C!NothingQueued(w) \/ C!PersonalFreesSlot(w) \/ C!EndPersonalTurn(w)
              \/ C!GlobalBusy(w) \/ C!MarkGlobalRunning(w) \/ C!AcquireGlobal(w)
              \/ C!TrySlot(w) \/ C!CollectAndBuild(w) \/ C!PublishShared(w)
              \/ C!CompleteRun(w) \/ C!MarkGlobalSucceeded(w) \/ C!MarkGlobalFailed(w))
      BY <2>1 DEF C!NothingQueued, C!PersonalFreesSlot, C!EndPersonalTurn, C!GlobalBusy,
         C!MarkGlobalRunning, C!AcquireGlobal, C!TrySlot, C!CollectAndBuild,
         C!PublishShared, C!CompleteRun, C!MarkGlobalSucceeded, C!MarkGlobalFailed,
         C!tables
    <2>3. ~(C!Unlock(w) \/ C!RecordBootstrapFailure(w) \/ C!Crash(w))
      BY <2>1 DEF C!Unlock, C!RecordBootstrapFailure, C!Crash, C!tables
    <2>4. ASSUME NEW as, C!Raise(w, as) \/ C!PersonalRaise(w, as) PROVE FALSE
      BY <2>1, <2>4 DEF C!Raise, C!PersonalRaise, C!tables
    <2>5. ASSUME NEW i, C!PersonalTakesSlot(w, i) PROVE FALSE
      BY <2>1, <2>5 DEF C!PersonalTakesSlot, C!tables
    <2>6. ~(C!RecordPlan(w) \/ C!RecordAudit(w) \/ C!UpsertSourceResults(w)
              \/ C!Finish(w) \/ C!Restart(w))
      BY <2>0 DEF C!RecordPlan, C!RecordAudit, C!UpsertSourceResults, C!Finish, C!Restart,
         C!locals
    <2>7. ~C!ClaimNext(w)
      BY <2>0 DEF C!ClaimNext, C!Queued, C!Runs
    <2>8. ~C!RecordFailure(w)
      <3> SUFFICES ASSUME C!RecordFailure(w) PROVE FALSE
        OBVIOUS
      <3>1. CP!SetFinished(r, "failed", FALSE) /\ CP!TypeOK /\ "failed" \in CP!Statuses
        BY <1>1, <2>0 DEF C!RecordFailure, C!SetFinished, CP!SetFinished, CP!TypeInv,
           CP!Statuses
      <3>2. refresh'[r].status = "failed"
        BY <1>1, <3>1, GlobalAssumptions, CP!FinishedRow
      <3> QED
        BY <2>0, <3>2
    <2> QED
      BY <1>1, <2>0, <2>2, <2>3, <2>4, <2>5, <2>6, <2>7, <2>8
      DEF C!Process, C!Step, C!Requeue
  <1> QED
    BY <1>2, <1>3

LEMMA RetryKept ==
  ASSUME Invs, RetryInv, [Next]_vars,
         \A r \in C!Runs : wf'[r].retries \in {0, wf[r].retries}
  PROVE  RetryInv'
  <1>1. \A r \in C!Runs : wf[r].retries = 0 => wf'[r].retries = 0
    OBVIOUS
  <1>2. \A r \in C!Runs : wf'[r].retries <= 2
    BY DEF RetryInv
  <1>3. ASSUME NEW r \in C!Runs, refresh'[r].status \in {"absent", "queued"}
        PROVE  wf[r].retries = 0
    <2>1. CASE refresh[r].status \in {"absent", "queued"}
      BY <2>1 DEF RetryInv
    <2>2. ASSUME NEW w \in Workers, C!Process(w) PROVE wf[r].retries = 0
      <3>1. CASE claimed[w] = r /\ cpc[w] = "requeue"
        <4>1. r # 0 /\ wf[r].retries <= 0
          BY <3>1 DEF RetryInv, Spent, C!Runs
        <4> QED
          BY <4>1 DEF Invs, BootInv, Typed, Workflow
      <3> QED
        BY <1>3, <2>1, <2>2, <3>1, QueuedStep DEF Invs
    <2>3. CASE UNCHANGED C!cvars
      BY <1>3, <2>1, <2>3 DEF C!cvars
    <2>4. CASE C!Environment
      <3>1. refresh[r].status = "absent" \/ refresh'[r] = refresh[r]
        BY <2>4, RefreshFunction
        DEF Invs, C!Environment, C!CreateIfNoActive, C!CreateBootstrapRun,
            C!DropGlobalSession, C!DropSlotSession, C!Insert, C!tables
      <3> QED
        BY <1>3, <2>1, <3>1
    <2> QED
      BY <2>2, <2>3, <2>4, GlobalNext DEF C!Next, Invs
  <1>4. ASSUME NEW v \in Workers, claimed'[v] # 0
        PROVE  wf'[claimed'[v]].retries <= IF cpc'[v] \in Spent THEN 1 ELSE 0
    <2>1. claimed[v] \in C!Runs \union {0}
      BY ClaimedFacts DEF Invs
    <2>2. CASE Carries(v)
      <3>1. /\ claimed'[v] = claimed[v] /\ claimed[v] \in C!Runs
            /\ cpc'[v] \notin Spent => cpc[v] \notin Spent
        BY <1>4, <2>1, <2>2 DEF Carries
      <3>2. /\ wf[claimed[v]].retries \in Nat
            /\ wf[claimed[v]].retries <= IF cpc[v] \in Spent THEN 1 ELSE 0
        BY <1>4, <3>1 DEF RetryInv, Invs, BootInv, Typed, Workflow
      <3> QED
        BY <3>1, <3>2
    <2>3. CASE cpc'[v] = cpc[v] /\ claimed'[v] = claimed[v]
      BY <2>2, <2>3 DEF Carries
    <2>4. ASSUME NEW w \in Workers, C!Process(w), v # w
          PROVE  cpc'[v] = cpc[v] /\ claimed'[v] = claimed[v]
      BY <2>4, ProcessFacts DEF Invs
    <2>5. CASE C!Process(v)
      <3>1. CASE claimed'[v] \in C!Runs /\ refresh[claimed'[v]].status = "queued"
        <4>1. wf'[claimed'[v]].retries = 0
          BY <1>1, <3>1 DEF RetryInv
        <4> QED
          BY <4>1
      <3> QED
        BY <1>4, <2>2, <2>5, <3>1, CarryStep DEF Invs
    <2>6. CASE UNCHANGED C!cvars
      BY <2>3, <2>6 DEF C!cvars
    <2>7. CASE C!Environment
      BY <2>3, <2>7 DEF C!Environment, C!CreateIfNoActive, C!CreateBootstrapRun,
         C!DropGlobalSession, C!DropSlotSession, C!locals
    <2> QED
      BY <2>3, <2>4, <2>5, <2>6, <2>7, GlobalNext DEF C!Next, Invs
  <1> QED
    BY <1>1, <1>2, <1>3, <1>4 DEF RetryInv

LEMMA RetryFails ==
  ASSUME Invs, RetryInv, NEW w \in Workers, NEW r \in C!Runs, FailureMark(w, r)
  PROVE  RetryInv'
  <1>1. /\ r = claimed[w] /\ r # 0 /\ wf'[r].retries = wf[r].retries + 1
        /\ wf[r].retries \in Nat
        /\ \A q \in C!Runs \ {r} : wf'[q] = wf[q]
    BY ChangedRow DEF FailureMark, C!Runs, Invs, BootInv, Typed, Workflow
  <1>2. /\ refresh[r].status \notin {"absent", "queued"}
        /\ \A v \in Workers \ {w} : claimed[v] # r
        /\ \A v \in Workers : claimed[v] \in C!Runs \union {0}
    BY <1>1, ClaimedFacts DEF Invs
  <1>3. cpc \in [Workers -> C!Labels] /\ claimed \in [Workers -> C!Runs \union {0}]
    BY DEF Invs, Halves, GlobalInv, CP!TypeInv, CP!TypeOK, CP!Runs, C!Runs
  <1>4. /\ refresh' = refresh
        /\ \A v \in Workers \ {w} : cpc'[v] = cpc[v] /\ claimed'[v] = claimed[v]
    BY <1>3 DEF FailureMark, C!MarkGlobalFailed, C!RecordBootstrapFailure, C!Goto,
       C!EndTurn, C!tables, C!locals
  <1>5. \/ wf[r].retries = 0 /\ cpc'[w] = "unlock" /\ claimed'[w] = r
        \/ wf[r].retries <= 1 /\ claimed'[w] = 0
    <2>1. CASE C!MarkGlobalFailed(w)
      <3>1. cpc[w] = "mark_failed" /\ cpc'[w] = "unlock" /\ claimed'[w] = r
        BY <1>1, <1>3, <2>1 DEF C!MarkGlobalFailed, C!Goto, C!locals
      <3>2. wf[r].retries <= 0
        BY <1>1, <3>1 DEF RetryInv, Spent
      <3> QED
        BY <1>1, <3>1, <3>2
    <2>2. CASE C!RecordBootstrapFailure(w)
      <3>1. cpc[w] = "fail_mark" /\ claimed'[w] = 0
        BY <1>3, <2>2 DEF C!RecordBootstrapFailure, C!EndTurn
      <3>2. wf[r].retries <= 1
        BY <1>1, <3>1 DEF RetryInv, Spent
      <3> QED
        BY <3>1, <3>2
    <2> QED
      BY <2>1, <2>2 DEF FailureMark
  <1>6. \A q \in C!Runs : wf'[q].retries <= 2
    BY <1>1, <1>5 DEF RetryInv
  <1>7. ASSUME NEW q \in C!Runs, refresh'[q].status \in {"absent", "queued"}
        PROVE  wf'[q].retries = 0
    BY <1>1, <1>2, <1>4, <1>7 DEF RetryInv
  <1>8. ASSUME NEW v \in Workers, claimed'[v] # 0
        PROVE  wf'[claimed'[v]].retries <= IF cpc'[v] \in Spent THEN 1 ELSE 0
    <2>1. CASE v = w
      BY <1>1, <1>5, <1>8, <2>1 DEF Spent
    <2>2. CASE v # w
      BY <1>1, <1>2, <1>4, <1>8, <2>2 DEF RetryInv
    <2> QED
      BY <2>1, <2>2
  <1> QED
    BY <1>6, <1>7, <1>8 DEF RetryInv

LEMMA RetryNext ==
  ASSUME Invs, Linked, RetryInv, [Next]_vars
  PROVE  RetryInv'
  <1>1. CASE UNCHANGED wf
    BY <1>1, RetryKept
  <1>2. ASSUME NEW c \in Clients, CreateWorkflow(c) PROVE RetryInv'
    <2>1. PICK q \in C!Runs, p \in P!PRuns : Started(c, q, p)
      BY <1>2, CreateFacts
    <2>2. \A r \in C!Runs : wf'[r].retries \in {0, wf[r].retries}
      BY <2>1, CreatedRows
    <2> QED
      BY <2>2, RetryKept
  <1>3. ASSUME NEW w \in Workers, NEW r \in C!Runs, WorkflowMark(w, r) PROVE RetryInv'
    <2>1. CASE FailureMark(w, r)
      BY <2>1, RetryFails
    <2>2. CASE ~FailureMark(w, r)
      <3>1. \E s : Change(r, s, wf[r].retries)
        BY <1>3, <2>2 DEF WorkflowMark, RunningMark, BindMark, PersonalMark
      <3>2. \A q \in C!Runs : wf'[q].retries \in {0, wf[q].retries}
        BY <3>1, ChangedRow
      <3> QED
        BY <3>2, RetryKept
    <2> QED
      BY <2>1, <2>2
  <1> QED
    BY <1>1, <1>2, <1>3, WorkflowSteps

-----------------------------------------------------------------------------
(* Together *)

FirstInv ==
  Invs /\ Linked /\ HandOffReady /\ CompletedRun /\ OneOpen /\ RetryInv

LEMMA FirstInit == Init => FirstInv
  BY HalvesInit, GlobalInvInit, BootInit, QueueInit, MarkOkInit, BootHoldsInit,
     LinkedInit, HandOffInit, CompletedInit, OneOpenInit, RetryInit
  DEF FirstInv, Invs

LEMMA FirstNext == FirstInv /\ [Next]_vars => FirstInv'
  <1> SUFFICES ASSUME FirstInv, [Next]_vars PROVE FirstInv'
    OBVIOUS
  <1>1. Invs /\ Linked /\ HandOffReady /\ CompletedRun /\ OneOpen /\ RetryInv
    BY DEF FirstInv
  <1>2. Halves' /\ GlobalInv' /\ BootInv'
    BY <1>1, HalvesNext, GlobalInvNext, BootNext DEF Invs
  <1>3. QueueInv' /\ MarkOk' /\ BootHolds'
    BY <1>1, QueueNext, MarkOkNext, BootHoldsNext DEF Invs
  <1> QED
    BY <1>1, <1>2, <1>3, LinkedNext, HandOffNext, CompletedNext, OneOpenNext, RetryNext
    DEF FirstInv, Invs

LEMMA FirstAlways == Spec => []FirstInv
  BY FirstInit, FirstNext, PTL DEF Spec

(* The personal run of a first refresh leaves the wait only bound to its   *)
(* own refresh, after that published, and while it waits its workflow has  *)
(* not gone on: mark_global_succeeded never finds the run in any status    *)
(* but waiting_for_global, whatever crashed, raised or was retried before. *)
THEOREM HandOffReadyAlways == Spec => []HandOffReady
  <1>1. FirstInv => HandOffReady
    BY DEF FirstInv
  <1> QED
    BY <1>1, FirstAlways, PTL

(* mark_personal_completed closes a workflow only after its personal run   *)
(* completed, bound to the refresh the workflow started, which published.  *)
THEOREM CompletedIsPublishedAlways == Spec => []CompletedIsPublished
  <1>1. FirstInv => CompletedIsPublished
    BY DEF FirstInv, CompletedRun, HandOffReady, CompletedIsPublished
  <1> QED
    BY <1>1, FirstAlways, PTL

(* A user has one open workflow at most, although a failure mark reopens   *)
(* completed ones; and retry_count stays below max_retries, so the update  *)
(* of mark_global_failed never violates user_bootstrap_workflows'          *)
(* retry check.                                                            *)
THEOREM WorkflowConstraintsAlways == Spec => []WorkflowConstraints
  <1>1. ASSUME FirstInv, NEW u \in Users PROVE Cardinality(Open(u)) <= 1
    <2>1. \A r, q \in Open(u) : r = q
      BY <1>1 DEF FirstInv, OneOpen, Open
    <2>2. CASE Open(u) = {}
      BY <2>2, FS_EmptySet
    <2>3. CASE Open(u) # {}
      <3>1. PICK r \in Open(u) : TRUE
        BY <2>3
      <3>2. Open(u) = {r}
        BY <2>1, <3>1
      <3> QED
        BY <3>2, FS_Singleton
    <2> QED
      BY <2>2, <2>3
  <1>2. ASSUME FirstInv, NEW r \in C!Runs PROVE wf[r].retries < MaxRetries
    <2>1. wf[r].retries \in Nat /\ wf[r].retries <= 2
      BY <1>2 DEF FirstInv, Invs, BootInv, Typed, Workflow, RetryInv
    <2> QED
      BY <2>1, FirstAssumption
  <1>3. FirstInv => WorkflowConstraints
    BY <1>1, <1>2 DEF WorkflowConstraints
  <1> QED
    BY <1>3, FirstAlways, PTL

(* Every table row, lock, label and request keeps the shape that the       *)
(* schema and the code give it.                                            *)
THEOREM TypeCorrect == Spec => []TypeOK
  <1>1. FirstInv => C!TypeOK
    BY DEF FirstInv, Invs, GlobalInv, CP!TypeInv, CP!TypeOK, C!TypeOK,
       C!Statuses, CP!Statuses, C!Terminal, CP!Terminal, C!Triggers,
       CP!Triggers, C!Outcomes, CP!Outcomes, C!Row, CP!Row, C!Runs, CP!Runs,
       C!Slots, CP!Slots, C!Labels, CP!Labels, C!Working, CP!Working, C!InTry,
       CP!InTry, C!InGlobal, CP!InGlobal, C!BeforeSlot, CP!BeforeSlot,
       C!InSlot, CP!InSlot, C!AfterSlot, CP!AfterSlot, C!Personal, CP!Personal,
       Holders, C!Holders, CP!Holders, Free, Dead, C!Free, C!Dead, CP!Free, CP!Dead
  <1>2. FirstInv => P!TypeOK
    BY DEF FirstInv, Invs, QueueInv, PP!TypeInv, PP!TypeOK, P!TypeOK,
       P!PRuns, PP!PRuns, P!Slots, PP!Slots, P!Status, PP!Status, P!Row,
       PP!Row, P!PLabels, PP!PLabels, P!InTry, PP!InTry, P!InUserLock,
       PP!InUserLock, P!InSlot, PP!InSlot, P!RequestLabels, PP!RequestLabels,
       P!Request, PP!Request, P!Holders, PP!Holders, P!Free, P!Dead, PP!Free, PP!Dead
  <1>3. FirstInv => TypeOK
    BY <1>1, <1>2 DEF TypeOK, FirstInv, Invs, BootInv, Typed
  <1> QED
    BY <1>3, FirstAlways, PTL
-----------------------------------------------------------------------------
(* Locks *)

LockedInv == CP!SlotInv /\ PP!LockInv /\ PP!BackInv

LEMMA LockedInit == Init => LockedInv
  <1>1. Init => CP!Init /\ PP!Init
    BY GlobalInit, SameInit, PersonalInit, PersonalSameInit
  <1> QED
    BY <1>1, GlobalAssumptions, PersonalAssumptions, CP!SlotInit, PP!LockInit, PP!BackInit
    DEF LockedInv

LEMMA LockedNext ==
  ASSUME FirstInv, LockedInv, [Next]_vars
  PROVE  LockedInv'
  <1>1. [CP!Next]_(CP!cvars)
    BY GlobalNext, SameSteps, SameVars DEF FirstInv, Invs, C!Next, CP!Next
  <1>2. [PP!Next]_(PP!pvars)
    BY PersonalNext, PersonalSameNext, PersonalSameVars DEF FirstInv, Invs
  <1>3. CP!SlotInv'
    BY <1>1, GlobalAssumptions, CP!SlotNext DEF FirstInv, Invs, GlobalInv, LockedInv
  <1>4. PP!LockInv' /\ PP!BackInv'
    BY <1>2, PersonalAssumptions, PP!LockNext, PP!BackNext
    DEF FirstInv, Invs, QueueInv, LockedInv
  <1> QED
    BY <1>3, <1>4 DEF LockedInv

HeldSlots(w) == {i \in C!Slots : writerSlot[i] = w}

(* Of the locks a worker holds, one writer slot at most, under the lock    *)
(* of what it is working on: the global lock for a refresh, the lock of    *)
(* the run's user for a personal run, and never both.                      *)
NothingHeldBeyondWork ==
  \A w \in Workers :
    /\ globalLock = w => cpc[w] \in C!InGlobal /\ \A u \in Users : userLock[u] # w
    /\ \A u \in Users :
         userLock[u] = w => ppc[w] \in P!InUserLock /\ u = prun[holds[w]].user
    /\ HeldSlots(w) # {} =>
         \/ cpc[w] \in C!InSlot /\ globalLock = w
         \/ ppc[w] \in P!InSlot /\ userLock[prun[holds[w]].user] = w
    /\ \A i, k \in HeldSlots(w) : i = k

(* locks.acquire and acquire_writer_slot in the whole worker: whatever     *)
(* raised, was refused or died, a worker that is not in a "with" block     *)
(* keeps no lock, so none stays taken but by work or by a session the      *)
(* server has not dropped yet.                                             *)
THEOREM LocksAreGivenBack == Spec => []NothingHeldBeyondWork
  <1>1. ASSUME FirstInv, LockedInv, NEW w \in Workers
        PROVE  /\ globalLock = w =>
                    cpc[w] \in C!InGlobal /\ \A u \in Users : userLock[u] # w
               /\ \A u \in Users :
                    userLock[u] = w => ppc[w] \in P!InUserLock /\ u = prun[holds[w]].user
               /\ HeldSlots(w) # {} =>
                    \/ cpc[w] \in C!InSlot /\ globalLock = w
                    \/ ppc[w] \in P!InSlot /\ userLock[prun[holds[w]].user] = w
               /\ \A i, k \in HeldSlots(w) : i = k
    <2>1. cpc[w] \in C!InGlobal <=> globalLock = w
      BY <1>1 DEF FirstInv, Invs, GlobalInv, CP!LockInv, C!InGlobal, CP!InGlobal,
         C!BeforeSlot, CP!BeforeSlot, C!InSlot, CP!InSlot, C!AfterSlot, CP!AfterSlot
    <2>2. /\ ppc[w] \in P!InUserLock => userLock[prun[holds[w]].user] = w
          /\ \A u \in Users :
               userLock[u] = w => ppc[w] \in P!InUserLock /\ u = prun[holds[w]].user
      BY <1>1 DEF LockedInv, PP!LockInv, PP!BackInv, P!InUserLock, PP!InUserLock,
         P!InSlot, PP!InSlot
    <2>3. /\ cpc[w] \in C!InSlot => HeldSlots(w) = {scan[w]}
          /\ cpc[w] = "personal_slot" => \E i \in C!Slots : HeldSlots(w) = {i}
          /\ cpc[w] \notin C!InSlot \union {"personal_slot"} => HeldSlots(w) = {}
      BY <1>1 DEF LockedInv, CP!SlotInv, CP!SlotOk, CP!HeldSlots, HeldSlots, C!InSlot,
         CP!InSlot, C!Slots, CP!Slots
    <2>4. Match(cpc[w], ppc[w])
      BY <1>1 DEF FirstInv, Invs, Halves
    <2>5. /\ cpc[w] \in C!InGlobal => ppc[w] \notin P!InUserLock
          /\ cpc[w] \in C!InSlot => cpc[w] \in C!InGlobal
          /\ cpc[w] = "personal_slot" => ppc[w] \in P!InSlot /\ ppc[w] \in P!InUserLock
      BY <2>4 DEF Match, C!Working, C!InTry, C!InGlobal, C!BeforeSlot, C!InSlot,
         C!AfterSlot, P!InUserLock, P!InSlot
    <2> QED
      BY <2>1, <2>2, <2>3, <2>5
  <1>2. FirstInv /\ LockedInv => NothingHeldBeyondWork
    BY <1>1 DEF NothingHeldBeyondWork
  <1> QED
    BY <1>2, FirstAlways, LockedInit, LockedNext, PTL DEF Spec
-----------------------------------------------------------------------------
(* The promise of a click *)

SourcesPublished ==
  /\ \A c \in Clients : req[c].source # 0 => req[c].source \in published
  /\ \A p \in P!PRuns : prun[p].source # 0 => prun[p].source \in published

OwnRuns == \A r \in C!Runs : wf[r].status # "none" => wf[r].user = prun[wf[r].run].user

QueueRows == PP!RowInv /\ PP!ResultInv /\ PP!LockInv /\ PP!ShownInv

PromiseInv == CP!BackedInv /\ QueueRows /\ SourcesPublished /\ OwnRuns

LEMMA PromiseInvInit == Init => PromiseInv
  <1> SUFFICES ASSUME Init PROVE PromiseInv
    OBVIOUS
  <1>1. CP!Init /\ PP!Init
    BY GlobalInit, SameInit, PersonalInit, PersonalSameInit
  <1>2. CP!BackedInv
    BY <1>1, GlobalAssumptions, CP!UnfinishedLabels
    DEF CP!Init, CP!BackedInv, CP!SuccessIsBacked, CP!Backing, CP!Successful, CP!NewRow
  <1>3. QueueRows
    BY <1>1, PersonalAssumptions, PP!RowInit, PP!ResultInit, PP!LockInit, PP!ShownInit
    DEF QueueRows
  <1>4. SourcesPublished /\ OwnRuns
    BY DEF Init, P!Init, P!NewRow, P!NoRequest, NoWorkflow, SourcesPublished, OwnRuns
  <1> QED
    BY <1>2, <1>3, <1>4 DEF PromiseInv

(* latest_successful binds a request to a refresh that published. *)
LEMMA RequestSources ==
  ASSUME Invs, PromiseInv, [Next]_vars, NEW c \in Clients
  PROVE  req'[c].source \in {0, req[c].source} \union published
  <1> DEFINE Fine == req'[c].source \in {0, req[c].source} \union published
  <1>0. req \in [Clients -> P!Request]
    BY DEF Invs, BootInv, Typed
  <1>1. UNCHANGED req => Fine
    OBVIOUS
  <1>2. ASSUME NEW d \in Clients, NEW u, NEW s \in {0} \union published,
               P!SubmitRun(d, u, s)
        PROVE  Fine
    BY <1>0, <1>2 DEF P!SubmitRun
  <1>3. ASSUME NEW d \in Clients, BindLatest(d) PROVE Fine
    <2>1. PICK r \in C!Runs : C!LatestSuccessful(r) /\ P!SubmitRun(d, click[d].user, r)
      BY <1>3 DEF BindLatest
    <2>2. r \in published
      BY <2>1 DEF C!LatestSuccessful, C!Successful, PromiseInv, CP!BackedInv,
         CP!SuccessIsBacked, CP!Successful, C!Runs, CP!Runs
    <2> QED
      BY <1>2, <2>1, <2>2
  <1>4. ASSUME NEW d \in Clients, P!CheckQuota(d) \/ P!CreateRun(d) \/ P!CreateRefused(d)
        PROVE  Fine
    BY <1>0, <1>4 DEF P!CheckQuota, P!CreateRun, P!CreateRefused, P!NoRequest, P!Request
  <1>5. CASE Api
    BY <1>1, <1>2, <1>3, <1>4, <1>5 DEF Api, Submit, ReturnExisting, NoSharedData,
       StartBootstrap, CheckQuota, CreateRun, CreateWorkflow, RunRefused, WorkflowRefused,
       CancelQueued, P!CancelQueued, CreateIfNoActive, pOnly
  <1>6. CASE Sessions \/ UNCHANGED vars
    BY <1>1, <1>6, SessionsQuiet DEF vars, P!pvars
  <1> QED
    BY <1>1, <1>5, <1>6, WorkKeepsRequests, NextCases

LEMMA SourcesPublishedNext ==
  ASSUME Invs, PromiseInv, [Next]_vars
  PROVE  SourcesPublished'
  <1>1. published \subseteq published'
    BY PublishedStays
  <1>2. ASSUME NEW c \in Clients, req'[c].source # 0 PROVE req'[c].source \in published'
    BY <1>1, <1>2, RequestSources DEF PromiseInv, SourcesPublished
  <1>3. ASSUME NEW p \in P!PRuns, prun'[p].source # 0 PROVE prun'[p].source \in published'
    <2>1. \/ prun'[p].source = prun[p].source
          \/ prun[p].status = "waiting_for_global" /\ prun'[p].status = "queued"
          \/ \E c \in Clients : prun'[p].source = req[c].source
      <3>1. [PP!Next]_(PP!pvars) /\ PP!TypeInv /\ p \in PP!PRuns
        BY PersonalNext, PersonalSameNext, PersonalSameVars
        DEF Invs, QueueInv, P!PRuns, PP!PRuns
      <3> QED
        BY <3>1, PersonalAssumptions, PP!SourceSteps
    <2>2. CASE prun[p].status = "waiting_for_global" /\ prun'[p].status = "queued"
      <3>1. PICK w \in Workers : Binds(w)
        BY <2>2, RowsStep DEF Invs, RowsKept, RowKept
      <3>2. prun'[p].source = claimed[w] /\ claimed[w] \in published
        BY <2>2, <3>1, BindFacts DEF Invs
      <3> QED
        BY <1>1, <3>2
    <2> QED
      BY <1>1, <1>3, <2>1, <2>2 DEF PromiseInv, SourcesPublished
  <1> QED
    BY <1>2, <1>3 DEF SourcesPublished

LEMMA OwnRunsNext ==
  ASSUME Invs, Linked, PromiseInv, [Next]_vars
  PROVE  OwnRuns'
  <1> SUFFICES ASSUME NEW r \in C!Runs, wf'[r].status # "none"
               PROVE  wf'[r].user = prun'[wf'[r].run].user
    BY DEF OwnRuns
  <1>1. ASSUME wf[r].status # "none", wf'[r].user = wf[r].user, wf'[r].run = wf[r].run
        PROVE  wf'[r].user = prun'[wf'[r].run].user
    <2>1. [PP!Next]_(PP!pvars) /\ PP!TypeInv
      BY PersonalNext, PersonalSameNext, PersonalSameVars DEF Invs, QueueInv
    <2>2. wf[r].run \in PP!PRuns /\ prun[wf[r].run].status # "absent"
      BY <1>1 DEF Linked, P!PRuns, PP!PRuns
    <2>3. prun'[wf[r].run].user = prun[wf[r].run].user
      BY <2>1, <2>2, PersonalAssumptions, PP!UsersStay DEF PP!Absent
    <2> QED
      BY <1>1, <2>3 DEF PromiseInv, OwnRuns
  <1>2. ASSUME NEW c \in Clients, CreateWorkflow(c)
        PROVE  wf'[r].user = prun'[wf'[r].run].user
    <2>1. PICK q \in C!Runs, p \in P!PRuns : Started(c, q, p)
      BY <1>2, CreateFacts
    <2>2. /\ \A o \in C!Runs \ {q} : wf'[o] = wf[o]
          /\ wf'[q].run = p /\ wf'[q].user = req[c].user
      BY <2>1, CreatedRows
    <2>3. prun'[p].user = req[c].user
      BY <2>1, RunsTyped DEF Started, P!InsertRow, P!NewRun, P!NewRow, Invs
    <2> QED
      BY <1>1, <2>2, <2>3
  <1>3. ASSUME NEW w \in Workers, NEW q \in C!Runs, WorkflowMark(w, q)
        PROVE  wf'[r].user = prun'[wf'[r].run].user
    <2>1. PICK s, n : Change(q, s, n)
      BY <1>3, MarkChanges
    <2> QED
      BY <1>1, <2>1, ChangedRow DEF Change
  <1> QED
    BY <1>1, <1>2, <1>3, WorkflowSteps

LEMMA PromiseInvNext ==
  ASSUME Invs, Linked, PromiseInv, [Next]_vars
  PROVE  PromiseInv'
  <1>1. [CP!Next]_(CP!cvars)
    BY GlobalNext, SameSteps, SameVars DEF Invs, C!Next, CP!Next
  <1>2. CP!BackedInv'
    BY <1>1, GlobalAssumptions, CP!BackedNext DEF Invs, GlobalInv, PromiseInv
  <1>3. [PP!Next]_(PP!pvars)
    BY PersonalNext, PersonalSameNext, PersonalSameVars DEF Invs
  <1>4. QueueRows'
    BY <1>3, PersonalAssumptions, PP!RowNext, PP!ResultNext, PP!LockNext, PP!ShownNext
    DEF Invs, QueueInv, PromiseInv, QueueRows
  <1> QED
    BY <1>2, <1>4, SourcesPublishedNext, OwnRunsNext DEF PromiseInv

(* Who writes what the promise is about: the shared publication, the       *)
(* personal one and the marks are three different steps.                   *)
LEMMA PublishedSteps ==
  ASSUME Invs, [Next]_vars
  PROVE  \/ UNCHANGED published
         \/ /\ UNCHANGED <<wf, lastRun>>
            /\ \E r \in C!Runs : published' = published \union {r}
  <1> DEFINE Publishes == /\ UNCHANGED <<wf, lastRun>>
                          /\ \E r \in C!Runs : published' = published \union {r}
  <1>1. ASSUME NEW w \in Workers, GlobalWork(w) PROVE UNCHANGED published \/ Publishes
    <2>1. CASE GlobalStep(w)
      <3>1. C!PublishShared(w) => claimed[w] \in C!Runs
        BY ClaimedFacts DEF C!PublishShared, C!Working, C!InTry, C!InGlobal, C!InSlot, Invs
      <3>2. C!PublishShared(w) => published' = published \union {claimed[w]}
        BY DEF C!PublishShared
      <3>3. UNCHANGED <<wf, lastRun>>
        BY <2>1 DEF GlobalStep, fvars, pOnly
      <3>4. CASE ~C!PublishShared(w)
        BY <2>1, <3>4 DEF GlobalStep, C!ClaimNext, C!AcquireGlobal, C!GlobalBusy,
           C!RecordPlan, C!CollectAndBuild, C!RecordAudit, C!UpsertSourceResults,
           C!Finish, C!Unlock, C!Requeue, C!RecordFailure, C!tables
      <3> QED
        BY <3>1, <3>2, <3>3, <3>4
    <2>2. CASE MarkGlobalRunning(w) \/ GlobalSlot(w) \/ GlobalEndsSlot(w)
                 \/ MarkGlobalSucceeded(w) \/ MarkGlobalFailed(w)
                 \/ RecordBootstrapFailure(w)
      BY <2>2 DEF MarkGlobalRunning, GlobalSlot, GlobalEndsSlot, MarkGlobalSucceeded,
         MarkGlobalFailed, RecordBootstrapFailure, C!MarkGlobalRunning, C!TrySlot,
         C!CompleteRun, C!MarkGlobalSucceeded, C!MarkGlobalFailed,
         C!RecordBootstrapFailure, C!tables
    <2>3. ASSUME NEW as, Raise(w, as) PROVE UNCHANGED published
      BY <2>3 DEF Raise, C!Raise, C!tables
    <2> QED
      BY <1>1, <2>1, <2>2, <2>3 DEF GlobalWork
  <1>2. ASSUME NEW w \in Workers, PersonalWork(w) PROVE UNCHANGED published
    BY <1>2 DEF PersonalWork, StartTurn, EndTurn, PersonalStep, TakeSlot,
       MarkPersonalRunning, WorkflowNotReady, PublishResults, MarkPersonalCompleted,
       MarkPersonalFailed, RaiseInRun, C!NothingQueued, C!EndPersonalTurn,
       C!PersonalTakesSlot, C!PersonalRaise, C!PersonalFreesSlot, C!tables, cOnly
  <1>3. ASSUME NEW w \in Workers, Crash(w) \/ Restart(w) PROVE UNCHANGED published
    BY <1>3 DEF Crash, Restart, C!Crash, C!Restart, C!tables
  <1>4. CASE Api
    BY <1>4, ApiRefinesGlobal DEF C!Environment, C!CreateIfNoActive, C!CreateBootstrapRun,
       C!DropGlobalSession, C!DropSlotSession, C!tables, C!cvars
  <1>5. CASE Sessions
    BY <1>5, SessionsRefineGlobal DEF C!Environment, C!CreateIfNoActive,
       C!CreateBootstrapRun, C!DropGlobalSession, C!DropSlotSession, C!tables, C!cvars
  <1>6. CASE UNCHANGED vars
    BY <1>6 DEF vars, C!cvars
  <1> QED
    BY <1>1, <1>2, <1>3, <1>4, <1>5, <1>6, NextCases

LEMMA ResultSteps ==
  ASSUME Invs, [Next]_vars
  PROVE  \/ UNCHANGED lastRun
         \/ UNCHANGED <<wf, published>> /\ \E w \in Workers : PublishResults(w)
  <1> USE DEF P!ptables
  <1>1. ASSUME NEW w \in Workers, GlobalWork(w) PROVE UNCHANGED lastRun
    BY <1>1 DEF GlobalWork, GlobalStep, MarkGlobalRunning, GlobalSlot, GlobalEndsSlot,
       MarkGlobalSucceeded, MarkGlobalFailed, RecordBootstrapFailure, Raise, pOnly,
       P!GlobalFreesSlot, P!QueueWaiting
  <1>2. ASSUME NEW w \in Workers,
               StartTurn(w) \/ EndTurn(w) \/ TakeSlot(w) \/ MarkPersonalRunning(w)
                 \/ WorkflowNotReady(w) \/ MarkPersonalCompleted(w)
        PROVE  UNCHANGED lastRun
    BY <1>2 DEF StartTurn, EndTurn, TakeSlot, MarkPersonalRunning, WorkflowNotReady,
       MarkPersonalCompleted, P!StartTurn, P!NothingToRun, P!UnlockUser, P!RequeueRun,
       P!FailRun, P!TakeSlot, P!MarkPersonalRunning, P!RaiseInRun, P!MarkPersonalCompleted
  <1>3. ASSUME NEW w \in Workers,
               PersonalStep(w) \/ MarkPersonalFailed(w)
                 \/ \E as \in {Free, Dead} : RaiseInRun(w, as)
        PROVE  UNCHANGED lastRun
    BY <1>3 DEF PersonalStep, MarkPersonalFailed, RaiseInRun, P!ClaimRun, P!AcquireUser,
       P!UserBusy, P!SlotBusy, P!BuildUserModels, P!FailRun, P!MarkPersonalFailed,
       P!RaiseInRun
  <1>4. ASSUME NEW w \in Workers, PublishResults(w) PROVE UNCHANGED <<wf, published>>
    BY <1>4 DEF PublishResults, C!PersonalFreesSlot, C!tables, fvars
  <1>5. ASSUME NEW w \in Workers, Crash(w) \/ Restart(w) PROVE UNCHANGED lastRun
    BY <1>5 DEF Crash, Restart, P!CrashInRun, P!RestartIdle
  <1>6. CASE Api
    BY <1>6 DEF Api, Submit, ReturnExisting, NoSharedData, StartBootstrap, BindLatest,
       CheckQuota, CreateRun, CreateWorkflow, RunRefused, WorkflowRefused, CancelQueued,
       CreateIfNoActive, pOnly, P!SubmitRun, P!CheckQuota, P!CreateRun, P!CreateRefused,
       P!CancelQueued
  <1>7. CASE Sessions \/ UNCHANGED vars
    BY <1>7 DEF Sessions, DropGlobalSession, DropSlotSession, DropUserSession,
       P!DropUserSession, pOnly, vars, P!pvars
  <1> QED
    BY <1>1, <1>2, <1>3, <1>4, <1>5, <1>6, <1>7, NextCases DEF PersonalWork

LEMMA LastRunFacts ==
  ASSUME Invs, PromiseInv
  PROVE  /\ lastRun \in [Users -> P!PRuns \union {0}]
         /\ \A u \in Users : lastRun[u] # 0 => prun[lastRun[u]].status = "completed"
  <1>1. lastRun \in [Users -> P!PRuns \union {0}]
    BY DEF Invs, QueueInv, PP!TypeInv, PP!TypeOK, PP!PRuns, P!PRuns
  <1>2. ASSUME NEW u \in Users, lastRun[u] # 0 PROVE prun[lastRun[u]].status = "completed"
    <2>1. lastRun[u] \in PP!PRuns /\ prun[lastRun[u]].current
      BY <1>1, <1>2 DEF PromiseInv, QueueRows, PP!ResultInv, PP!PointerInv, P!PRuns, PP!PRuns
    <2> QED
      BY <2>1 DEF PromiseInv, QueueRows, PP!RowInv, PP!CurrentEnded
  <1> QED
    BY <1>1, <1>2

LEMMA ShownStays ==
  ASSUME Invs, PromiseInv, [Next]_vars, UNCHANGED lastRun
  PROVE  UNCHANGED ShownSources
  <1>1. ASSUME NEW u \in Users, lastRun[u] # 0
        PROVE  prun'[lastRun[u]].source = prun[lastRun[u]].source
    <2>1. lastRun[u] \in P!PRuns /\ prun[lastRun[u]].status = "completed"
      BY <1>1, LastRunFacts
    <2> QED
      BY <2>1, RowsStep DEF Invs, RowKept
  <1> QED
    BY <1>1 DEF ShownSources

LEMMA ShowRefines ==
  ASSUME Invs, PromiseInv, [Next]_vars, NEW w \in Workers, PublishResults(w),
         UNCHANGED <<wf, published>>
  PROVE  \E u \in Users, r \in C!Runs : Promise!Show(u, r)
  <1> DEFINE p == holds[w]
             u == prun[p].user
             r == prun[p].source
  <1>1. /\ ppc[w] = "publish" /\ prun[p].status = "running"
        /\ prun' = P!CompletedAndCurrent(p)
        /\ lastRun' = [lastRun EXCEPT ![u] = p]
    BY DEF PublishResults, P!PublishResults
  <1>2. p \in P!PRuns /\ p # 0
    BY <1>1, HeldFacts DEF Invs, QueueInv, PP!TypeInv, PP!Holding, PP!Working, PP!InTry,
       PP!InUserLock, PP!InSlot
  <1>3. u \in Users /\ r \in C!Runs \union {0}
    BY <1>2, RunsTyped DEF Invs, P!Row, C!Runs
  <1>4. r \in C!Runs /\ r \in published
    <2>1. r # 0
      BY <1>1, <1>2 DEF PromiseInv, QueueRows, PP!RowInv, PP!Sourced, P!PRuns, PP!PRuns
    <2> QED
      BY <1>2, <1>3, <2>1 DEF PromiseInv, SourcesPublished
  <1>5. \A q \in P!PRuns : prun[q].status # "absent" => prun'[q].source = prun[q].source
    BY <1>1, PublicationRows DEF Invs, RowsKept, RowKept
  <1>6. ShownSources' = [ShownSources EXCEPT ![u] = r]
    <2>1. ASSUME NEW v \in Users
          PROVE  IF lastRun'[v] = 0 THEN ShownSources'[v] = 0
                                    ELSE ShownSources'[v] = prun'[lastRun'[v]].source
      BY DEF ShownSources
    <2>2. lastRun'[u] = p /\ \A v \in Users \ {u} : lastRun'[v] = lastRun[v]
      BY <1>1, <1>3, LastRunFacts
    <2>3. ShownSources'[u] = r
      BY <1>1, <1>2, <1>3, <1>5, <2>1, <2>2
    <2>4. ASSUME NEW v \in Users \ {u} PROVE ShownSources'[v] = ShownSources[v]
      <3>1. lastRun[v] # 0 => prun'[lastRun[v]].source = prun[lastRun[v]].source
        BY <1>5, LastRunFacts
      <3> QED
        BY <2>1, <2>2, <3>1 DEF ShownSources
    <2>5. ShownSources' = [v \in Users |-> ShownSources'[v]]
          /\ ShownSources = [v \in Users |-> ShownSources[v]]
      BY DEF ShownSources
    <2> QED
      BY <1>3, <2>3, <2>4, <2>5
  <1>7. UNCHANGED <<Promises, Owners>>
    BY DEF Promises, Owners
  <1> QED
    BY <1>3, <1>4, <1>6, <1>7 DEF Promise!Show

(* A mark of the workflow is a mark of the promise. *)
LEMMA MarkMaps ==
  ASSUME Invs, NEW r \in C!Runs, NEW s, NEW n, Change(r, s, n)
  PROVE  /\ Promises' = [Promises EXCEPT ![r] = Stage(s)]
         /\ UNCHANGED Owners
  <1>1. ASSUME NEW q \in C!Runs
        PROVE  /\ wf'[q].user = wf[q].user
               /\ wf'[q].status = IF q = r THEN s ELSE wf[q].status
    BY ChangedRow
  <1> QED
    BY <1>1 DEF Promises, Owners

LEMMA PendingOpen ==
  ASSUME Invs, NEW u
  PROVE  Promise!Pending(u) = Open(u)
  <1>1. ASSUME NEW r \in C!Runs
        PROVE  Promises[r] \in {"asked", "prepared", "failed"} <=> wf[r].status \notin Closed
    <2>1. wf[r].status \in WorkflowStatus
      BY DEF Invs, BootInv, Typed, Workflow
    <2> QED
      BY <2>1 DEF Promises, Stage, WorkflowStatus, Closed
  <1>2. \A r \in C!Runs : Owners[r] = wf[r].user
    BY DEF Owners
  <1> QED
    BY <1>1, <1>2 DEF Promise!Pending, Open

LEMMA AskRefines ==
  ASSUME Invs, Linked, NEW c \in Clients, NEW r \in C!Runs, NEW p \in P!PRuns,
         Started(c, r, p), UNCHANGED <<published, ShownSources>>
  PROVE  \E u \in Users : Promise!Ask(u, r)
  <1> DEFINE u == req[c].user
  <1>1. u \in Users
    BY DEF Invs, BootInv, Typed, P!Request
  <1>2. /\ refresh[r].status = "absent"
        /\ wf'[r].status = "global_queued" /\ wf'[r].user = u
        /\ \A q \in C!Runs \ {r} : wf'[q] = wf[q]
        /\ Open(u) = {}
    BY CreatedRows
  <1>3. wf[r].status = "none"
    BY <1>2 DEF Linked
  <1>4. Promises[r] = "none" /\ Promise!Pending(u) = {}
    BY <1>2, <1>3, PendingOpen DEF Promises, Stage
  <1>5. /\ Promises' = [Promises EXCEPT ![r] = "asked"]
        /\ Owners' = [Owners EXCEPT ![r] = u]
    <2> HIDE DEF u
    <2>1. ASSUME NEW q \in C!Runs
          PROVE  /\ Stage(wf'[q].status) =
                      IF q = r THEN "asked" ELSE Stage(wf[q].status)
                 /\ wf'[q].user = IF q = r THEN u ELSE wf[q].user
      <3>1. CASE q = r
        BY <1>2, <3>1 DEF Stage
      <3>2. CASE q # r
        BY <1>2, <3>2
      <3> QED
        BY <3>1, <3>2
    <2>2. Promises' = [q \in C!Runs |-> Stage(wf'[q].status)]
      BY DEF Promises, Stage
    <2>3. Owners' = [q \in C!Runs |-> wf'[q].user]
      BY DEF Owners
    <2>4. Promises' = [Promises EXCEPT ![r] = "asked"]
      BY <2>1, <2>2 DEF Promises
    <2>5. Owners' = [Owners EXCEPT ![r] = u]
      BY <2>1, <2>3 DEF Owners
    <2> QED
      BY <2>4, <2>5
  <1> QED
    BY <1>1, <1>4, <1>5 DEF Promise!Ask, Promise!Becomes

LEMMA RunningRefines ==
  ASSUME Invs, NEW w, NEW r \in C!Runs, RunningMark(w, r),
         UNCHANGED <<published, ShownSources>>
  PROVE  UNCHANGED Promise!rvars \/ Promise!Resume(r)
  <1>1. /\ wf[r].status \in {"global_queued", "failed_retryable"}
        /\ Promises' = [Promises EXCEPT ![r] = "asked"] /\ UNCHANGED Owners
    BY MarkMaps DEF RunningMark, Stage
  <1>2. CASE wf[r].status = "global_queued"
    <2>1. Promises[r] = "asked"
      BY <1>2 DEF Promises, Stage
    <2>2. Promises' = Promises
      BY <1>1, <2>1 DEF Promises
    <2> QED
      BY <1>1, <2>2 DEF Promise!rvars
  <1>3. CASE wf[r].status = "failed_retryable"
    <2>1. Promises[r] = "failed"
      BY <1>3 DEF Promises, Stage
    <2> QED
      BY <1>1, <2>1 DEF Promise!Resume, Promise!Becomes
  <1> QED
    BY <1>1, <1>2, <1>3

(* No failure is the last: a refresh is marked failed at most twice. *)
LEMMA FailRefines ==
  ASSUME Invs, RetryInv, RetryInv', NEW w \in Workers, NEW r \in C!Runs,
         FailureMark(w, r), UNCHANGED <<published, ShownSources>>
  PROVE  Promise!Fail(r)
  <1>1. PICK s \in {"failed_terminal", "failed_retryable"} :
          /\ Change(r, s, wf[r].retries + 1)
          /\ s = "failed_terminal" => wf[r].retries + 1 >= MaxRetries
    BY DEF FailureMark
  <1>2. wf'[r].retries = wf[r].retries + 1 /\ wf[r].retries \in Nat
    BY <1>1, ChangedRow DEF Invs, BootInv, Typed, Workflow
  <1>3. s = "failed_retryable"
    BY <1>1, <1>2, FirstAssumption DEF RetryInv
  <1>4. Promises' = [Promises EXCEPT ![r] = "failed"] /\ UNCHANGED Owners
    BY <1>1, <1>3, MarkMaps DEF Stage
  <1>5. Promises[r] # "none"
    BY <1>1 DEF Change, Promises, Stage, Invs, BootInv, Typed, Workflow, WorkflowStatus
  <1>6. Promise!Pending(Owners[r]) \subseteq {r}
    BY PendingOpen DEF FailureMark, MayReopen, Owners
  <1> QED
    BY <1>4, <1>5, <1>6 DEF Promise!Fail, Promise!Becomes

LEMMA BindRefines ==
  ASSUME Invs, NEW w \in Workers, NEW r \in C!Runs, BindMark(w, r),
         UNCHANGED <<published, ShownSources>>
  PROVE  Promise!Prepare(r)
  <1>1. /\ wf[r].status \in MaySucceed /\ r \in published
        /\ Promises' = [Promises EXCEPT ![r] = "prepared"] /\ UNCHANGED Owners
    BY MarkMaps, BindFacts DEF BindMark, Binds, Stage, Invs
  <1>2. Promises[r] \in {"asked", "failed"}
    BY <1>1 DEF Promises, Stage, MaySucceed
  <1> QED
    BY <1>1, <1>2 DEF Promise!Prepare, Promise!Becomes

LEMMA PersonalMarkRefines ==
  ASSUME Invs, Linked, HandOffReady, PromiseInv, NEW w \in Workers, NEW r \in C!Runs,
         PersonalMark(w, r), UNCHANGED <<published, ShownSources>>
  PROVE  UNCHANGED Promise!rvars \/ Promise!Deliver(r) \/ Promise!Fail(r)
  <1>1. PICK s \in {"personal_running", "completed", "personal_failed_retryable"} :
          /\ Change(r, s, wf[r].retries)
          /\ holds[w] \in P!PRuns /\ wf[r].run = holds[w]
          /\ prun[holds[w]].status # "waiting_for_global"
          /\ s = "personal_running" => wf[r].status = "personal_queued"
          /\ s = "completed" => /\ wf[r].status = "personal_running"
                                /\ ppc[w] = "mark_completed"
          /\ s = "personal_failed_retryable" => MayReopen(r)
    BY DEF PersonalMark
  <1>2. Promises' = [Promises EXCEPT ![r] = Stage(s)] /\ UNCHANGED Owners
    BY <1>1, MarkMaps
  <1>3. wf[r].status # "none" /\ wf[r].status \in WorkflowStatus
    BY <1>1 DEF Change, Invs, BootInv, Typed, Workflow
  <1>4. CASE s = "personal_running"
    <2>1. Promises[r] = Stage(s)
      BY <1>1, <1>4 DEF Promises, Stage
    <2>2. Promises' = Promises
      BY <1>2, <2>1 DEF Promises
    <2> QED
      BY <1>2, <2>2 DEF Promise!rvars
  <1>5. CASE s = "completed"
    <2>1. Promises[r] = "prepared" /\ Stage(s) = "delivered"
      BY <1>1, <1>5 DEF Promises, Stage
    <2>2. lastRun[wf[r].user] = wf[r].run
      BY <1>1, <1>3, <1>5 DEF PromiseInv, QueueRows, PP!ShownInv, OwnRuns
    <2>3. prun[wf[r].run].source = r
      BY <1>1, <1>3 DEF HandOffReady
    <2>4. wf[r].user \in Users /\ wf[r].run # 0
      BY <1>1 DEF P!PRuns, Invs, BootInv, Typed, Workflow
    <2>5. ShownSources[Owners[r]] = r
      BY <2>2, <2>3, <2>4 DEF ShownSources, Owners
    <2> QED
      BY <1>2, <2>1, <2>5 DEF Promise!Deliver, Promise!Becomes
  <1>6. CASE s = "personal_failed_retryable"
    <2>1. Stage(s) = "failed" /\ Promises[r] # "none"
      BY <1>3, <1>6 DEF Promises, Stage, WorkflowStatus
    <2>2. Promise!Pending(Owners[r]) \subseteq {r}
      BY <1>1, <1>6, PendingOpen DEF MayReopen, Owners
    <2> QED
      BY <1>2, <2>1, <2>2 DEF Promise!Fail, Promise!Becomes
  <1> QED
    BY <1>4, <1>5, <1>6

LEMMA PromiseInit == Init => Promise!Init
  <1> SUFFICES ASSUME Init PROVE Promise!Init
    OBVIOUS
  <1>1. published = {}
    BY DEF Init, C!Init
  <1>2. Promises = [r \in C!Runs |-> "none"]
    BY DEF Init, NoWorkflow, Promises, Stage
  <1>3. Owners \in [C!Runs -> Users]
    BY SomeUserType DEF Init, NoWorkflow, Owners
  <1>4. ShownSources = [u \in Users |-> 0]
    BY DEF Init, P!Init, ShownSources
  <1> QED
    BY <1>1, <1>2, <1>3, <1>4 DEF Promise!Init

LEMMA PromiseNext ==
  ASSUME FirstInv, PromiseInv, [Next]_vars
  PROVE  Promise!Next \/ UNCHANGED Promise!rvars
  <1>0. /\ Invs /\ Linked /\ HandOffReady /\ RetryInv
        /\ RetryInv'
    BY FirstNext DEF FirstInv
  <1>1. CASE ~UNCHANGED lastRun
    BY <1>0, <1>1, ResultSteps, ShowRefines DEF Promise!Next
  <1>2. CASE UNCHANGED lastRun /\ ~UNCHANGED published
    <2>1. PICK r \in C!Runs : published' = published \union {r}
      BY <1>0, <1>2, PublishedSteps
    <2>2. UNCHANGED <<Promises, Owners, ShownSources>>
      BY <1>0, <1>2, PublishedSteps, ShownStays DEF Promises, Owners
    <2> QED
      BY <2>1, <2>2 DEF Promise!Next, Promise!Publish
  <1>3. CASE UNCHANGED <<lastRun, published>>
    <2>1. UNCHANGED <<published, ShownSources>>
      BY <1>0, <1>3, ShownStays
    <2>2. CASE UNCHANGED wf
      BY <2>1, <2>2 DEF Promises, Owners, Promise!rvars
    <2>3. ASSUME NEW c \in Clients, CreateWorkflow(c) PROVE Promise!Next
      BY <1>0, <2>1, <2>3, CreateFacts, AskRefines DEF Promise!Next
    <2>4. ASSUME NEW w \in Workers, NEW r \in C!Runs, WorkflowMark(w, r)
          PROVE  Promise!Next \/ UNCHANGED Promise!rvars
      BY <1>0, <2>1, <2>4, RunningRefines, FailRefines, BindRefines, PersonalMarkRefines
      DEF WorkflowMark, Promise!Next
    <2> QED
      BY <1>0, <2>2, <2>3, <2>4, WorkflowSteps
  <1> QED
    BY <1>1, <1>2, <1>3

(* start_or_get, the queues and the workers keep what a first click is     *)
(* promised, whoever crashes or raises: a user has one promise open, the   *)
(* personal part starts after the shared jobs are out, "completed" is      *)
(* written while the current result is of the promised refresh, and no     *)
(* failure ends the promise for good.                                      *)
THEOREM PromiseKept == Spec => ImplementsPromise
  <1>1. FirstInv /\ PromiseInv /\ [Next]_vars => PromiseInv'
    BY PromiseInvNext DEF FirstInv
  <1>2. FirstInv /\ PromiseInv /\ [Next]_vars => [Promise!Next]_(Promise!rvars)
    BY PromiseNext
  <1> QED
    BY <1>1, <1>2, FirstInit, FirstNext, PromiseInvInit, PromiseInit, PTL
    DEF Spec, ImplementsPromise, Promise!Spec
=============================================================================
