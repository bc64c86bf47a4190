------------------------- MODULE PersonalRunsProofs -------------------------
(***************************************************************************)
(* Theorems about PersonalRuns, for any users, clients, workers, writer    *)
(* slots and faults.  The inductive invariants build on each other:        *)
(*   TypeInv     the types, and a worker holds a row exactly while it works;*)
(*   RowInv      the table by itself: its rows are a prefix, and of a      *)
(*               user's rows all but the last have ended;                  *)
(*   OwnInv      a held row was claimed, by one worker only;               *)
(*   LockInv     a worker under the user lock holds its user's;            *)
(*   BackInv     and only such a worker holds one;                         *)
(*   ResultInv   current flag, pointer and match rows, which rest on       *)
(*               RowInv: what is published is the user's last run.         *)
(* The quota bound is inductive as it stands, given that a user has one run*)
(* that has not ended at most: a step of a user's runs and requests is one *)
(* of four shapes (Fewer, Admits, Creates, Completes).                     *)
(***************************************************************************)
EXTENDS PersonalRuns, FiniteSetTheorems, TLAPS

(* The labels at which a worker is in process_one with a run. *)
Working == {"requeue", "fail", "fail_mark"} \union InTry

Holding == \A w \in Workers : holds[w] # 0 <=> ppc[w] \in Working

TypeInv == TypeOK /\ Holding

-----------------------------------------------------------------------------
(* Types *)

LEMMA RelinquishType ==
  ASSUME NEW S, NEW locks \in [S -> Holders], NEW w, NEW as \in {Free, Dead}
  PROVE  Relinquish(locks, w, as) \in [S -> Holders]
  BY DEF Relinquish, Holders

LEMMA NewRowType ==
  ASSUME NEW status \in Status, NEW u \in Users, NEW s \in Sources \union {0},
         NEW boot \in BOOLEAN
  PROVE  NewRow(status, u, s, boot) \in Row
  BY DEF NewRow, Row

(* A row of the table stays one when a transaction writes into it. *)
LEMMA RowWrites ==
  ASSUME NEW row \in Row
  PROVE  /\ \A s \in Status : [row EXCEPT !.status = s] \in Row
         /\ \A s \in Status, x \in Sources :
              [row EXCEPT !.status = s, !.source = x] \in Row
         /\ \A s \in Status, b \in BOOLEAN :
              [row EXCEPT !.status = s, !.current = b] \in Row
         /\ \A b \in BOOLEAN : [row EXCEPT !.current = b] \in Row
         /\ \A b \in BOOLEAN : [row EXCEPT !.counts = b] \in Row
  BY DEF Row

LEMMA SomeUserType == SomeUser \in Users
  BY PersonalAssumption DEF SomeUser

LEMMA LabelFacts ==
  /\ {"down", "away", "ready", "requeue", "fail", "fail_mark", "claimed", "slot",
      "mark_running", "build", "publish", "mark_completed", "unlock"} = PLabels
  /\ {"requeue", "fail", "fail_mark", "claimed", "slot", "mark_running", "build",
      "publish", "mark_completed", "unlock"} = Working
  /\ {"slot", "mark_running", "build", "publish", "mark_completed", "unlock"} = InUserLock
  BY DEF PLabels, Working, InTry, InUserLock, InSlot

LEMMA GotoType ==
  ASSUME TypeInv, NEW w \in Workers, NEW l \in PLabels, PGoto(w, l)
  PROVE  /\ ppc' \in [Workers -> PLabels]
         /\ ppc'[w] = l
         /\ \A v \in Workers : v # w => ppc'[v] = ppc[v]
  BY DEF TypeInv, TypeOK, PGoto

LEMMA GotoHolding ==
  ASSUME TypeInv, NEW w \in Workers, NEW l \in PLabels, PGoto(w, l),
         UNCHANGED holds, ppc[w] \in Working <=> l \in Working
  PROVE  Holding'
  BY GotoType DEF TypeInv, Holding

LEMMA EndTurnType ==
  ASSUME TypeInv, NEW w \in Workers, NEW l \in {"away", "down"}, PEndTurn(w, l)
  PROVE  /\ ppc' \in [Workers -> PLabels]
         /\ holds' \in [Workers -> PRuns \union {0}]
         /\ tries' \in [Workers -> Slots]
         /\ Holding'
         /\ holds'[w] = 0 /\ ppc'[w] = l
         /\ \A v \in Workers : v # w => holds'[v] = holds[v] /\ ppc'[v] = ppc[v]
  <1>1. 0 \in Slots
    BY PersonalAssumption DEF Slots
  <1>2. l \in PLabels /\ l \notin Working
    BY LabelFacts
  <1>3. /\ ppc' \in [Workers -> PLabels]
        /\ ppc'[w] = l
        /\ \A v \in Workers : v # w => ppc'[v] = ppc[v]
    BY <1>2, GotoType DEF PEndTurn
  <1>4. /\ holds' \in [Workers -> PRuns \union {0}]
        /\ holds'[w] = 0
        /\ \A v \in Workers : v # w => holds'[v] = holds[v]
    BY DEF PEndTurn, TypeInv, TypeOK
  <1>5. Holding'
    BY <1>2, <1>3, <1>4 DEF TypeInv, Holding
  <1> QED
    BY <1>1, <1>3, <1>4, <1>5 DEF PEndTurn, TypeInv, TypeOK

LEMMA TypeInit == Init => TypeInv
  <1> SUFFICES ASSUME Init PROVE TypeInv
    OBVIOUS
  <1>1. 0 \in Slots
    BY PersonalAssumption DEF Slots
  <1>2. NewRow("absent", SomeUser, 0, FALSE) \in Row
    BY NewRowType, SomeUserType DEF Status
  <1>3. NoRequest \in Request
    BY SomeUserType DEF NoRequest, Request, RequestLabels
  <1>4. TypeOK
    <2>1. /\ prun \in [PRuns -> Row]
          /\ req \in [Clients -> Request]
      BY <1>2, <1>3 DEF Init
    <2>2. /\ lastRun \in [Users -> PRuns \union {0}]
          /\ results \in [Users -> [Jobs -> PRuns \union {0}]]
      BY DEF Init
    <2>3. /\ userLock \in [Users -> Holders]
          /\ writerSlot \in [Slots -> Holders]
      BY DEF Init, Holders
    <2>4. /\ ppc \in [Workers -> PLabels]
          /\ holds \in [Workers -> PRuns \union {0}]
          /\ tries \in [Workers -> Slots]
          /\ faults \in 0 .. MaxFaults
      BY <1>1, LabelFacts, PersonalAssumption DEF Init
    <2> QED
      BY <2>1, <2>2, <2>3, <2>4 DEF TypeOK
  <1>5. Holding
    BY LabelFacts DEF Init, Holding
  <1> QED
    BY <1>4, <1>5 DEF TypeInv

LEMMA TypeRequests ==
  ASSUME TypeInv, Requests
  PROVE  TypeInv'
  <1> USE DEF TypeInv, TypeOK, Holding, ptables, plocals
  <1>1. ASSUME NEW c \in Clients, NEW u \in Users, NEW s \in Sources \union {0},
               SubmitRun(c, u, s)
        PROVE  TypeInv'
    <2>1. [at |-> "check", user |-> u, source |-> s] \in Request
      BY DEF Request, RequestLabels
    <2> QED
      BY <1>1, <2>1 DEF SubmitRun
  <1>no. NoRequest \in Request
    BY SomeUserType DEF NoRequest, Request, RequestLabels
  <1>2. ASSUME NEW c \in Clients, CheckQuota(c)
        PROVE  TypeInv'
    <2>1. [req[c] EXCEPT !.at = "insert"] \in Request
      BY DEF Request, RequestLabels
    <2> QED
      BY <1>2, <1>no, <2>1 DEF CheckQuota
  <1>3. ASSUME NEW c \in Clients, CreateRun(c)
        PROVE  TypeInv'
    <2>1. NewRun(req[c].user, req[c].source) \in Row
      BY NewRowType DEF NewRun, Request, Status
    <2> QED
      BY <1>3, <1>no, <2>1 DEF CreateRun, InsertRow
  <1>4. ASSUME NEW c \in Clients, CreateRefused(c)
        PROVE  TypeInv'
    BY <1>4, <1>no DEF CreateRefused
  <1>5. ASSUME NEW p \in PRuns, CancelQueued(p)
        PROVE  TypeInv'
    <2>1. [prun[p] EXCEPT !.status = "cancelled"] \in Row
      BY RowWrites DEF Status
    <2> QED
      BY <1>5, <2>1 DEF CancelQueued
  <1>6. ASSUME NEW p \in PRuns, NEW s \in Sources, QueueWaiting(p, s)
        PROVE  TypeInv'
    <2>1. [prun[p] EXCEPT !.status = "queued", !.source = s] \in Row
      BY RowWrites DEF Status
    <2>2. prun' = [prun EXCEPT ![p] = [prun[p] EXCEPT !.status = "queued", !.source = s]]
      BY <1>6 DEF QueueWaiting
    <2> QED
      BY <1>6, <2>1, <2>2 DEF QueueWaiting
  <1>7. ASSUME NEW us, ForgetUsage(us)
        PROVE  TypeInv'
    <2>1. prun' \in [PRuns -> Row]
      <3> DEFINE kept(p) == prun[p].counts /\ (Absent(p) \/ prun[p].user \notin us)
      <3>1. prun' = [p \in PRuns |-> [prun[p] EXCEPT !.counts = kept(p)]]
        BY <1>7 DEF ForgetUsage
      <3>2. \A p \in PRuns : kept(p) \in BOOLEAN
        BY DEF Row
      <3> HIDE DEF kept
      <3>3. \A p \in PRuns : [prun[p] EXCEPT !.counts = kept(p)] \in Row
        BY <3>2, RowWrites
      <3> QED
        BY <3>1, <3>3
    <2> QED
      BY <1>7, <2>1 DEF ForgetUsage
  <1> QED
    BY <1>1, <1>2, <1>3, <1>4, <1>5, <1>6, <1>7
    DEF Requests, NewQuotaWindow, ResetQuota

LEMMA FaultType ==
  ASSUME TypeInv, Fault \/ UNCHANGED faults
  PROVE  faults' \in 0 .. MaxFaults
  BY PersonalAssumption DEF TypeInv, TypeOK, Fault

LEMMA TypeStep ==
  ASSUME TypeInv, NEW w \in Workers, PStep(w)
  PROVE  TypeInv'
  <1> USE DEF TypeInv, TypeOK, ptables, plocals
  <1>lab. /\ {"ready", "away", "claimed", "slot", "requeue", "mark_running", "build",
               "publish", "mark_completed", "unlock", "fail", "fail_mark"} \subseteq PLabels
          /\ {"claimed", "slot", "requeue", "mark_running", "build", "publish",
              "mark_completed", "unlock", "fail", "fail_mark"} \subseteq Working
          /\ {"ready", "away"} \cap Working = {}
    BY LabelFacts
  <1>row. ppc[w] \in Working => holds[w] \in PRuns
    BY DEF Holding
  <1>1. CASE ClaimRun(w)
    <2>1. PICK p \in PQueued :
            /\ prun' = [prun EXCEPT ![p].status = "running"]
            /\ holds' = [holds EXCEPT ![w] = p]
      BY <1>1 DEF ClaimRun
    <2>2. p \in PRuns /\ p # 0
      BY DEF PQueued, PRuns
    <2>3. [prun[p] EXCEPT !.status = "running"] \in Row
      BY <2>2, RowWrites DEF Status
    <2>4. prun' \in [PRuns -> Row]
      BY <2>1, <2>2, <2>3
    <2>5. ppc' \in [Workers -> PLabels] /\ Holding'
      BY <1>1, <1>lab, <2>1, <2>2, GotoType DEF ClaimRun, Holding
    <2> QED
      BY <1>1, <2>1, <2>2, <2>4, <2>5 DEF ClaimRun
  <1>2. CASE NothingToRun(w) \/ UserBusy(w) \/ MarkPersonalRunning(w)
               \/ BuildUserModels(w) \/ MarkPersonalCompleted(w)
    <2>1. ppc' \in [Workers -> PLabels] /\ Holding'
      BY <1>2, <1>lab, GotoType, GotoHolding
      DEF NothingToRun, UserBusy, MarkPersonalRunning, BuildUserModels,
          MarkPersonalCompleted
    <2> QED
      BY <1>2, <2>1
      DEF NothingToRun, UserBusy, MarkPersonalRunning, BuildUserModels,
          MarkPersonalCompleted
  <1>3. CASE AcquireUser(w)
    <2>1. ppc' \in [Workers -> PLabels] /\ Holding'
      BY <1>3, <1>lab, GotoType, GotoHolding DEF AcquireUser
    <2>2. userLock' \in [Users -> Holders]
      BY <1>3 DEF AcquireUser, Holders
    <2> QED
      BY <1>3, <2>1, <2>2 DEF AcquireUser
  <1>4. CASE TakeSlot(w)
    <2>1. ppc' \in [Workers -> PLabels] /\ Holding'
      BY <1>4, <1>lab, GotoType, GotoHolding DEF TakeSlot
    <2>2. writerSlot' \in [Slots -> Holders]
      BY <1>4 DEF TakeSlot, Holders
    <2> QED
      BY <1>4, <2>1, <2>2 DEF TakeSlot
  <1>5. CASE SlotBusy(w)
    <2>1. CASE tries[w] + 1 \in Slots
      BY <1>5, <2>1 DEF SlotBusy, Holding
    <2>2. CASE tries[w] + 1 \notin Slots
      <3>1. ppc' \in [Workers -> PLabels] /\ Holding'
        BY <1>5, <2>2, <1>lab, GotoType, GotoHolding DEF SlotBusy
      <3>2. userLock' \in [Users -> Holders]
        BY <1>5, <2>2, RelinquishType DEF SlotBusy
      <3> QED
        BY <1>5, <2>2, <3>1, <3>2 DEF SlotBusy
    <2> QED
      BY <2>1, <2>2
  <1>6. ASSUME NEW matched, NEW inactive, PublishResults(w, matched, inactive)
        PROVE  TypeInv'
    <2> DEFINE p == holds[w]
    <2>1. p \in PRuns
      BY <1>6, <1>row, <1>lab DEF PublishResults
    <2>2. prun' \in [PRuns -> Row]
      <3>1. \A q \in PRuns :
              /\ [prun[q] EXCEPT !.status = "completed", !.current = TRUE] \in Row
              /\ [prun[q] EXCEPT !.current = FALSE] \in Row
              /\ prun[q] \in Row
        BY RowWrites DEF Status
      <3>2. prun' = CompletedAndCurrent(p)
        BY <1>6 DEF PublishResults
      <3> QED
        BY <3>1, <3>2 DEF CompletedAndCurrent
    <2>3. prun[p].user \in Users
      BY <2>1 DEF Row
    <2>4. results' \in [Users -> [Jobs -> PRuns \union {0}]]
      <3> DEFINE row == [j \in Jobs |->
             IF j \in inactive THEN 0 ELSE IF j \in matched THEN p
             ELSE results[prun[p].user][j]]
      <3>1. row \in [Jobs -> PRuns \union {0}]
        BY <2>1, <2>3
      <3>2. results' = [results EXCEPT ![prun[p].user] = row]
        BY <1>6 DEF PublishResults, Merged
      <3> HIDE DEF row
      <3> QED
        BY <2>3, <3>1, <3>2
    <2>5. lastRun' \in [Users -> PRuns \union {0}]
      BY <1>6, <2>1 DEF PublishResults
    <2>6. writerSlot' \in [Slots -> Holders]
      BY <1>6, RelinquishType DEF PublishResults
    <2>7. ppc' \in [Workers -> PLabels] /\ Holding'
      BY <1>6, <1>lab, GotoType, GotoHolding DEF PublishResults
    <2> QED
      BY <1>6, <2>2, <2>4, <2>5, <2>6, <2>7 DEF PublishResults
  <1>7. CASE UnlockUser(w)
    <2>1. userLock' \in [Users -> Holders]
      BY <1>7, RelinquishType DEF UnlockUser
    <2> QED
      BY <1>7, <2>1, EndTurnType DEF UnlockUser
  <1>8. CASE RequeueRun(w)
    <2>1. [prun[holds[w]] EXCEPT !.status = "queued"] \in Row
      BY <1>8, <1>row, <1>lab, RowWrites DEF RequeueRun, Status
    <2>2. prun' \in [PRuns -> Row]
      BY <1>8, <2>1 DEF RequeueRun
    <2> QED
      BY <1>8, <2>2, EndTurnType DEF RequeueRun
  <1>9. CASE FailRun(w)
    <2>1. [prun[holds[w]] EXCEPT !.status = "failed"] \in Row
      BY <1>9, <1>row, <1>lab, RowWrites DEF FailRun, Status
    <2>2. prun' \in [PRuns -> Row]
      BY <1>9, <2>1 DEF FailRun
    <2>3. CASE prun[holds[w]].boot
      <3>1. ppc' \in [Workers -> PLabels] /\ Holding'
        BY <1>9, <2>3, <1>lab, GotoType, GotoHolding DEF FailRun
      <3> QED
        BY <1>9, <2>2, <2>3, <3>1 DEF FailRun
    <2>4. CASE ~prun[holds[w]].boot
      BY <1>9, <2>2, <2>4, EndTurnType DEF FailRun
    <2> QED
      BY <2>3, <2>4
  <1>10. CASE MarkPersonalFailed(w)
    BY <1>10, EndTurnType DEF MarkPersonalFailed
  <1> QED
    BY <1>1, <1>2, <1>3, <1>4, <1>5, <1>6, <1>7, <1>8, <1>9, <1>10 DEF PStep

(* Faults, the end of sessions and the other half of the worker. *)
Surroundings(w) ==
  \/ StartTurn(w) \/ RestartIdle(w) \/ GlobalFreesSlot(w)
  \/ CrashInRun(w) /\ (Fault \/ MarkRefused(w))
  \/ \E as \in {Free, Dead} :
       \/ RaiseInRun(w, as) /\ (Fault \/ NotReady(w))
       \/ GlobalRaises(w, as)
  \/ \E i \in Slots : GlobalTakesSlot(w, i)

Sessions ==
  \/ \E u \in Users : DropUserSession(u)
  \/ \E i \in Slots : DropPersonalSlot(i)

LEMMA NextCases ==
  Next => \/ \E w \in Workers : PStep(w) \/ Surroundings(w)
          \/ Requests \/ Sessions
  BY DEF Next, Surroundings, Sessions

LEMMA TypeSurroundings ==
  ASSUME TypeInv, NEW w \in Workers, Surroundings(w)
  PROVE  TypeInv'
  <1> USE DEF TypeInv, TypeOK, ptables, plocals
  <1>lab. /\ {"ready", "away", "fail"} \subseteq PLabels
          /\ "fail" \in Working /\ {"ready", "away", "down"} \cap Working = {}
          /\ InTry \subseteq Working
    BY LabelFacts DEF Working
  <1>1. CASE StartTurn(w) \/ RestartIdle(w)
    <2>1. ppc' \in [Workers -> PLabels] /\ Holding'
      BY <1>1, <1>lab, GotoType, GotoHolding DEF StartTurn, RestartIdle
    <2> QED
      BY <1>1, <2>1 DEF StartTurn, RestartIdle
  <1>2. CASE GlobalFreesSlot(w)
    BY <1>2, RelinquishType DEF GlobalFreesSlot, Holding
  <1>3. CASE CrashInRun(w) /\ (Fault \/ MarkRefused(w))
    <2>1. userLock' \in [Users -> Holders] /\ writerSlot' \in [Slots -> Holders]
      BY <1>3, RelinquishType DEF CrashInRun
    <2>2. faults' \in 0 .. MaxFaults
      BY <1>3, FaultType DEF MarkRefused
    <2> QED
      BY <1>3, <2>1, <2>2, EndTurnType DEF CrashInRun
  <1>4. ASSUME NEW as \in {Free, Dead}, RaiseInRun(w, as), Fault \/ NotReady(w)
        PROVE  TypeInv'
    <2>1. userLock' \in [Users -> Holders] /\ writerSlot' \in [Slots -> Holders]
      BY <1>4, RelinquishType DEF RaiseInRun
    <2>2. faults' \in 0 .. MaxFaults
      BY <1>4, FaultType DEF NotReady
    <2>3. ppc' \in [Workers -> PLabels] /\ Holding'
      BY <1>4, <1>lab, GotoType, GotoHolding DEF RaiseInRun
    <2> QED
      BY <1>4, <2>1, <2>2, <2>3 DEF RaiseInRun
  <1>5. ASSUME NEW as \in {Free, Dead}, GlobalRaises(w, as)
        PROVE  TypeInv'
    <2>1. writerSlot' \in [Slots -> Holders]
      BY <1>5, RelinquishType DEF GlobalRaises
    <2>2. faults' \in 0 .. MaxFaults
      BY <1>5, FaultType DEF GlobalRaises
    <2> QED
      BY <1>5, <2>1, <2>2 DEF GlobalRaises, Holding
  <1>6. ASSUME NEW i \in Slots, GlobalTakesSlot(w, i)
        PROVE  TypeInv'
    BY <1>6 DEF GlobalTakesSlot, Holders, Holding
  <1> QED
    BY <1>1, <1>2, <1>3, <1>4, <1>5, <1>6 DEF Surroundings

LEMMA TypeSessions ==
  ASSUME TypeInv, Sessions
  PROVE  TypeInv'
  <1> USE DEF TypeInv, TypeOK, ptables, plocals, Dropped, Holders, Holding
  <1>1. ASSUME NEW u \in Users, DropUserSession(u) PROVE TypeInv'
    BY <1>1 DEF DropUserSession
  <1>2. ASSUME NEW i \in Slots, DropPersonalSlot(i) PROVE TypeInv'
    BY <1>2 DEF DropPersonalSlot
  <1> QED
    BY <1>1, <1>2 DEF Sessions

LEMMA TypeNext == TypeInv /\ [Next]_pvars => TypeInv'
  <1>1. TypeInv /\ UNCHANGED pvars => TypeInv'
    BY DEF TypeInv, TypeOK, Holding, pvars
  <1> QED
    BY <1>1, NextCases, TypeStep, TypeSurroundings, TypeRequests, TypeSessions

(* Every reachable state is well typed, and a worker holds a row of the    *)
(* queue exactly while it is in process_one.                               *)
THEOREM TypeCorrect == Spec => [](TypeOK /\ Holding)
  BY TypeInit, TypeNext, PTL DEF Spec, TypeInv

-----------------------------------------------------------------------------
(* The table by itself *)

(* What may become of the rows in one step, all fields but counts. *)
Same(p) ==
  /\ prun'[p].status = prun[p].status /\ prun'[p].user = prun[p].user
  /\ prun'[p].source = prun[p].source /\ prun'[p].current = prun[p].current

OthersSame(p) == \A q \in PRuns \ {p} : Same(q)

Inserted(p) ==
  /\ Absent(p)
  /\ \A q \in PRuns : q < p => ~Absent(q)
  /\ ActiveOf(prun'[p].user) = {}
  /\ prun'[p].status = IF prun'[p].source = 0 THEN "waiting_for_global" ELSE "queued"
  /\ ~prun'[p].current
  /\ OthersSame(p)

Moved(p) ==
  /\ <<prun[p].status, prun'[p].status>> \in
       {<<"queued", "cancelled">>, <<"queued", "running">>,
        <<"running", "queued">>, <<"running", "failed">>}
  /\ prun'[p].user = prun[p].user /\ prun'[p].source = prun[p].source
  /\ prun'[p].current = prun[p].current
  /\ OthersSame(p)

Bound(p) ==
  /\ prun[p].status = "waiting_for_global" /\ prun'[p].status = "queued"
  /\ prun'[p].user = prun[p].user /\ prun'[p].source # 0
  /\ prun'[p].current = prun[p].current
  /\ OthersSame(p)

Published(p) ==
  /\ prun[p].status = "running" /\ prun'[p].status = "completed"
  /\ prun'[p].user = prun[p].user /\ prun'[p].source = prun[p].source
  /\ prun'[p].current
  /\ \A q \in PRuns \ {p} :
       /\ prun'[q].status = prun[q].status /\ prun'[q].user = prun[q].user
       /\ prun'[q].source = prun[q].source
       /\ prun'[q].current =
            (prun[q].current /\ (Absent(q) \/ prun[q].user # prun[p].user))

Unpublished ==
  \/ \A p \in PRuns : Same(p)
  \/ \E p \in PRuns : Inserted(p) \/ Moved(p) \/ Bound(p)

(* What a worker does to the table short of publishing. *)
Stepped == (\A p \in PRuns : Same(p)) \/ \E p \in PRuns : Moved(p)

LEMMA MovesTo ==
  ASSUME TypeInv, NEW p \in PRuns, NEW s \in Status,
         prun' = [prun EXCEPT ![p].status = s]
  PROVE  /\ prun'[p].status = s /\ prun'[p].user = prun[p].user
         /\ prun'[p].source = prun[p].source /\ prun'[p].current = prun[p].current
         /\ OthersSame(p)
  BY DEF TypeInv, TypeOK, Row, OthersSame, Same

LEMMA RequestTable ==
  ASSUME TypeInv, Requests
  PROVE  Unpublished /\ UNCHANGED <<results, lastRun>>
  <1> USE DEF TypeInv, TypeOK, ptables
  <1>1. ASSUME NEW c \in Clients, NEW u \in Users, NEW s \in Sources \union {0},
               SubmitRun(c, u, s)
        PROVE  Unpublished /\ UNCHANGED <<results, lastRun>>
    BY <1>1 DEF SubmitRun, Unpublished, Same
  <1>2. ASSUME NEW c \in Clients, CheckQuota(c) \/ CreateRefused(c)
        PROVE  Unpublished /\ UNCHANGED <<results, lastRun>>
    BY <1>2 DEF CheckQuota, CreateRefused, Unpublished, Same
  <1>3. ASSUME NEW c \in Clients, CreateRun(c)
        PROVE  Unpublished /\ UNCHANGED <<results, lastRun>>
    <2> DEFINE row == NewRun(req[c].user, req[c].source)
    <2>1. PICK p \in PRuns : InsertRow(p, row)
      BY <1>3 DEF CreateRun
    <2>2. /\ row.status = IF row.source = 0 THEN "waiting_for_global" ELSE "queued"
          /\ row.current = FALSE
      BY DEF NewRun, NewRow
    <2> HIDE DEF row
    <2>3. prun'[p] = row /\ \A q \in PRuns \ {p} : prun'[q] = prun[q]
      BY <2>1 DEF InsertRow
    <2>4. Inserted(p)
      BY <2>1, <2>2, <2>3 DEF InsertRow, Inserted, OthersSame, Same
    <2> QED
      BY <1>3, <2>4 DEF CreateRun, Unpublished
  <1>4. ASSUME NEW p \in PRuns, CancelQueued(p)
        PROVE  Unpublished /\ UNCHANGED <<results, lastRun>>
    <2>1. Moved(p)
      BY <1>4, MovesTo DEF CancelQueued, Moved, Status
    <2> QED
      BY <1>4, <2>1 DEF CancelQueued, Unpublished
  <1>5. ASSUME NEW p \in PRuns, NEW s \in Sources, QueueWaiting(p, s)
        PROVE  Unpublished /\ UNCHANGED <<results, lastRun>>
    <2>1. s # 0
      BY PersonalAssumption
    <2>2. Bound(p)
      BY <1>5, <2>1 DEF QueueWaiting, Bound, Row, OthersSame, Same
    <2> QED
      BY <1>5, <2>2 DEF QueueWaiting, Unpublished
  <1>6. ASSUME NEW us, ForgetUsage(us)
        PROVE  Unpublished /\ UNCHANGED <<results, lastRun>>
    <2>1. \A p \in PRuns : Same(p)
      BY <1>6 DEF ForgetUsage, Same, Row
    <2> QED
      BY <1>6, <2>1 DEF ForgetUsage, Unpublished
  <1> QED
    BY <1>1, <1>2, <1>3, <1>4, <1>5, <1>6 DEF Requests, NewQuotaWindow, ResetQuota

LEMMA PublicationTable ==
  ASSUME TypeInv, NEW w \in Workers, NEW matched, NEW inactive,
         PublishResults(w, matched, inactive)
  PROVE  /\ holds[w] \in PRuns
         /\ Published(holds[w])
         /\ results' = Merged(holds[w], matched, inactive)
         /\ lastRun' = [lastRun EXCEPT ![prun[holds[w]].user] = holds[w]]
  <1>1. holds[w] \in PRuns
    BY LabelFacts DEF TypeInv, TypeOK, Holding, PublishResults
  <1>2. Published(holds[w])
    BY <1>1 DEF TypeInv, TypeOK, Row, PublishResults, CompletedAndCurrent, Published,
                OfUser, Absent
  <1> QED
    BY <1>1, <1>2 DEF PublishResults

LEMMA WorkerTable ==
  ASSUME TypeInv, NEW w \in Workers, PStep(w)
  PROVE  \/ Stepped /\ UNCHANGED <<results, lastRun>>
         \/ \E matched, inactive \in SUBSET Jobs : PublishResults(w, matched, inactive)
  <1> USE DEF ptables
  <1>1. CASE ClaimRun(w)
    <2>1. PICK p \in PQueued : prun' = [prun EXCEPT ![p].status = "running"]
      BY <1>1 DEF ClaimRun
    <2>2. p \in PRuns /\ Moved(p)
      BY <2>1, MovesTo DEF PQueued, Moved, Status
    <2> QED
      BY <1>1, <2>2 DEF ClaimRun, Stepped
  <1>2. CASE NothingToRun(w) \/ AcquireUser(w) \/ UserBusy(w) \/ TakeSlot(w)
               \/ SlotBusy(w) \/ MarkPersonalRunning(w) \/ BuildUserModels(w)
               \/ MarkPersonalCompleted(w) \/ UnlockUser(w) \/ MarkPersonalFailed(w)
    BY <1>2 DEF NothingToRun, AcquireUser, UserBusy, TakeSlot, SlotBusy,
       MarkPersonalRunning, BuildUserModels, MarkPersonalCompleted, UnlockUser,
       MarkPersonalFailed, Stepped, Same
  <1>row. ppc[w] \in {"requeue", "fail"} => holds[w] \in PRuns
    BY LabelFacts DEF TypeInv, TypeOK, Holding
  <1>3. CASE RequeueRun(w)
    <2>1. Moved(holds[w])
      BY <1>3, <1>row, MovesTo DEF RequeueRun, Moved, Status
    <2> QED
      BY <1>3, <1>row, <2>1 DEF RequeueRun, Stepped
  <1>4. CASE FailRun(w)
    <2>1. CASE prun[holds[w]].status = "running"
      <3>1. Moved(holds[w])
        BY <1>4, <2>1, <1>row, MovesTo DEF FailRun, Moved, Status
      <3> QED
        BY <1>4, <1>row, <3>1 DEF FailRun, Stepped
    <2>2. CASE prun[holds[w]].status # "running"
      BY <1>4, <2>2 DEF FailRun, Stepped, Same
    <2> QED
      BY <2>1, <2>2
  <1> QED
    BY <1>1, <1>2, <1>3, <1>4 DEF PStep

LEMMA QuietTable ==
  ASSUME (\E w \in Workers : Surroundings(w)) \/ Sessions \/ UNCHANGED pvars
  PROVE  UNCHANGED ptables
  BY DEF Surroundings, Sessions, StartTurn, RestartIdle, GlobalFreesSlot, CrashInRun,
     RaiseInRun, GlobalRaises, GlobalTakesSlot, DropUserSession, DropPersonalSlot, pvars,
     ptables

(* A step of the system, as the table sees it. *)
LEMMA TableSteps ==
  ASSUME TypeInv, [Next]_pvars
  PROVE  \/ Unpublished /\ UNCHANGED <<results, lastRun>>
         \/ \E w \in Workers : \E matched, inactive \in SUBSET Jobs :
              PublishResults(w, matched, inactive)
  <1>1. UNCHANGED ptables => Unpublished /\ UNCHANGED <<results, lastRun>>
    BY DEF ptables, Unpublished, Same
  <1> QED
    BY <1>1, NextCases, RequestTable, WorkerTable, QuietTable DEF Stepped, Unpublished

LEMMA TableCases ==
  ASSUME TypeInv, [Next]_pvars
  PROVE  \/ Unpublished
         \/ \E p \in PRuns : Published(p)
  BY TableSteps, PublicationTable

(* A run takes its source from the request that creates it, or is bound.   *)
LEMMA SourceSteps ==
  ASSUME TypeInv, [Next]_pvars, NEW p \in PRuns
  PROVE  \/ prun'[p].source = prun[p].source
         \/ prun[p].status = "waiting_for_global" /\ prun'[p].status = "queued"
         \/ \E c \in Clients : prun'[p].source = req[c].source
  <1> DEFINE SourceStep ==
        \/ prun'[p].source = prun[p].source
        \/ prun[p].status = "waiting_for_global" /\ prun'[p].status = "queued"
        \/ \E c \in Clients : prun'[p].source = req[c].source
  <1>1. ASSUME NEW c \in Clients, CreateRun(c) PROVE SourceStep
    <2>1. PICK q \in PRuns : InsertRow(q, NewRun(req[c].user, req[c].source))
      BY <1>1 DEF CreateRun
    <2>2. NewRun(req[c].user, req[c].source).source = req[c].source
      BY DEF NewRun, NewRow
    <2>3. prun'[p] = IF p = q THEN NewRun(req[c].user, req[c].source) ELSE prun[p]
      BY <2>1 DEF InsertRow, TypeInv, TypeOK
    <2> QED
      BY <2>2, <2>3
  <1>2. ASSUME \A c \in Clients : ~CreateRun(c), Requests PROVE SourceStep
    <2>1. ASSUME NEW c \in Clients, NEW u, NEW s,
                 SubmitRun(c, u, s) \/ CheckQuota(c) \/ CreateRefused(c)
          PROVE  SourceStep
      BY <2>1 DEF SubmitRun, CheckQuota, CreateRefused, ptables
    <2>2. ASSUME NEW q \in PRuns, CancelQueued(q) PROVE SourceStep
      BY <2>2, MovesTo DEF CancelQueued, OthersSame, Same, Status
    <2>3. ASSUME NEW q \in PRuns, NEW s, QueueWaiting(q, s) PROVE SourceStep
      BY <2>3 DEF QueueWaiting, TypeInv, TypeOK, Row
    <2>4. ASSUME NEW us, ForgetUsage(us) PROVE SourceStep
      BY <2>4 DEF ForgetUsage, TypeInv, TypeOK, Row
    <2> QED
      BY <1>2, <2>1, <2>2, <2>3, <2>4 DEF Requests, NewQuotaWindow, ResetQuota
  <1>3. ASSUME NEW w \in Workers, PStep(w) PROVE SourceStep
    BY <1>3, WorkerTable, PublicationTable
    DEF Stepped, Same, Moved, OthersSame, Published
  <1>4. UNCHANGED ptables => SourceStep
    BY DEF ptables
  <1> QED
    BY <1>1, <1>2, <1>3, <1>4, NextCases, QuietTable

(* Whatever has ended keeps its status. *)
THEOREM EndedRunsStayAlways == Spec => EndedRunsStay
  <1> DEFINE stays == \A p \in PRuns : prun[p].status \in Final
                                         => prun'[p].status = prun[p].status
  <1>1. TypeInv /\ [Next]_pvars => stays
    BY TableCases
    DEF Unpublished, Same, Inserted, Moved, Bound, Published, OthersSame, Absent, Final
  <1>2. TypeInv /\ [Next]_pvars => [stays]_prun
    BY <1>1
  <1> HIDE DEF stays
  <1>3. Spec => [][stays]_prun
    BY <1>2, TypeInit, TypeNext, PTL DEF Spec
  <1> QED
    BY <1>3 DEF stays, EndedRunsStay

-----------------------------------------------------------------------------
(* Rows are created in order, one active row of a user at a time: so a     *)
(* user's rows have all ended but the last.                                *)

Prefix == \A p, q \in PRuns : q < p /\ ~Absent(p) => ~Absent(q)

OnlyLastActive ==
  \A p, q \in PRuns :
    q < p /\ ~Absent(p) /\ prun[q].user = prun[p].user => prun[q].status \in Final

Sourced == \A p \in PRuns : prun[p].status \in {"queued", "running"} => prun[p].source # 0

CurrentEnded == \A p \in PRuns : prun[p].current => prun[p].status = "completed"

RowInv == Prefix /\ OnlyLastActive /\ Sourced /\ CurrentEnded

LEMMA RowInit == Init => RowInv
  BY DEF Init, NewRow, RowInv, Prefix, OnlyLastActive, Sourced, CurrentEnded, Absent

LEMMA RowNext == TypeInv /\ RowInv /\ [Next]_pvars => RowInv'
  <1> SUFFICES ASSUME TypeInv, RowInv, [Next]_pvars PROVE RowInv'
    OBVIOUS
  <1>nat. PRuns \subseteq Nat
    BY PersonalAssumption DEF PRuns
  <1>1. CASE \A p \in PRuns : Same(p)
    BY <1>1 DEF RowInv, Prefix, OnlyLastActive, Sourced, CurrentEnded, Absent, Same
  <1>2. ASSUME NEW p \in PRuns, Moved(p) \/ Bound(p) \/ Published(p)
        PROVE  RowInv'
    <2>1. /\ prun'[p].user = prun[p].user
          /\ prun[p].status \in ActiveStatus
          /\ prun'[p].status # "absent"
          /\ \A q \in PRuns \ {p} :
               prun'[q].status = prun[q].status /\ prun'[q].user = prun[q].user
               /\ prun'[q].source = prun[q].source
               /\ (prun'[q].current => prun[q].current)
          /\ prun'[p].status \in {"queued", "running"} => prun'[p].source # 0
          /\ prun'[p].current => prun'[p].status = "completed"
      BY <1>2 DEF Moved, Bound, Published, OthersSame, Same, RowInv, Sourced, CurrentEnded,
         ActiveStatus
    <2>2. ~Absent(p)
      BY <2>1 DEF Absent, ActiveStatus
    <2>3. Prefix' /\ Sourced' /\ CurrentEnded'
      BY <2>1, <2>2 DEF RowInv, Prefix, Sourced, CurrentEnded, Absent
    <2>4. OnlyLastActive'
      <3> SUFFICES ASSUME NEW a \in PRuns, NEW b \in PRuns, b < a, ~Absent(a)',
                          prun'[b].user = prun'[a].user
                   PROVE  prun'[b].status \in Final
        BY DEF OnlyLastActive
      <3>1. ~Absent(a) /\ prun[b].user = prun[a].user
        BY <2>1, <2>2 DEF Absent
      <3>2. prun[b].status \in Final
        BY <3>1 DEF RowInv, OnlyLastActive
      <3>3. b # p
        BY <3>2, <2>1 DEF Final, ActiveStatus
      <3> QED
        BY <2>1, <3>2, <3>3
    <2> QED
      BY <2>3, <2>4 DEF RowInv
  <1>3. ASSUME NEW p \in PRuns, Inserted(p)
        PROVE  RowInv'
    <2>1. /\ \A q \in PRuns \ {p} : Same(q)
          /\ prun'[p].status \in {"waiting_for_global", "queued"}
          /\ prun'[p].status = "queued" => prun'[p].source # 0
          /\ ~prun'[p].current
          /\ \A q \in PRuns : q < p => ~Absent(q)
          /\ Absent(p)
      BY <1>3 DEF Inserted, OthersSame
    <2>2. \A q \in PRuns : p < q => Absent(q)
      BY <2>1 DEF RowInv, Prefix
    <2>3. \A q \in PRuns \ {p} :
            ~Absent(q) /\ prun[q].user = prun'[p].user => prun[q].status \notin ActiveStatus
      BY <1>3 DEF Inserted, ActiveOf, OfUser
    <2>4. \A q \in PRuns : ~Absent(q) /\ prun[q].status \notin ActiveStatus
                             => prun[q].status \in Final
      BY DEF TypeInv, TypeOK, Row, Status, ActiveStatus, Final, Absent
    <2>5. Prefix'
      BY <2>1, <2>2, <1>nat DEF RowInv, Prefix, Absent, Same
    <2>6. Sourced' /\ CurrentEnded'
      BY <2>1 DEF RowInv, Sourced, CurrentEnded, Same
    <2>7. OnlyLastActive'
      <3> SUFFICES ASSUME NEW a \in PRuns, NEW b \in PRuns, b < a, ~Absent(a)',
                          prun'[b].user = prun'[a].user
                   PROVE  prun'[b].status \in Final
        BY DEF OnlyLastActive
      <3>1. CASE a = p
        <4>1. b \in PRuns \ {p} /\ ~Absent(b)
          BY <2>1, <3>1, <1>nat
        <4> QED
          BY <4>1, <2>1, <2>3, <2>4, <3>1 DEF Same
      <3>2. CASE a # p
        <4>1. ~Absent(a)
          BY <2>1, <3>2 DEF Absent, Same
        <4>2. b # p
          BY <2>2, <4>1
        <4> QED
          BY <2>1, <3>2, <4>1, <4>2 DEF Same, RowInv, OnlyLastActive
      <3> QED
        BY <3>1, <3>2
    <2> QED
      BY <2>5, <2>6, <2>7 DEF RowInv
  <1> QED
    BY <1>1, <1>2, <1>3, TableCases DEF Unpublished

-----------------------------------------------------------------------------
(* Who has claimed what *)

Claimed == {"running", "completed", "failed"}
Owning == {"claimed", "slot", "requeue"} \union InSlot

OwnInv ==
  /\ \A w \in Workers : holds[w] # 0 => prun[holds[w]].status \in Claimed
  /\ \A w \in Workers : ppc[w] \in Owning => prun[holds[w]].status = "running"
  /\ \A v, w \in Workers : holds[v] = holds[w] /\ holds[w] # 0 => v = w

LEMMA OwnInit == Init => OwnInv
  BY DEF Init, OwnInv, Owning, InSlot

LEMMA OwningWorks == Owning \subseteq Working
  BY LabelFacts DEF Owning, InSlot

(* A step that hands out no row and leaves the claimed ones alone. *)
LEMMA OwnKept ==
  ASSUME TypeInv, OwnInv,
         \A v \in Workers : holds'[v] \in {0, holds[v]},
         \A v \in Workers : ppc'[v] \in Owning => ppc[v] \in Owning,
         \A v \in Workers : ppc'[v] \in Owning => holds'[v] = holds[v],
         \A p \in PRuns : prun[p].status \in Claimed => prun'[p].status = prun[p].status
  PROVE  OwnInv'
  <1>1. \A v \in Workers : holds[v] # 0 => holds[v] \in PRuns
    BY DEF TypeInv, TypeOK
  <1>2. \A v \in Workers : ppc[v] \in Owning => holds[v] # 0
    BY OwningWorks DEF TypeInv, Holding
  <1>3. \A v \in Workers : holds'[v] # 0 => prun'[holds'[v]].status \in Claimed
    BY <1>1 DEF OwnInv
  <1>4. \A v \in Workers : ppc'[v] \in Owning => prun'[holds'[v]].status = "running"
    BY <1>1, <1>2 DEF OwnInv
  <1>5. \A u, v \in Workers : holds'[u] = holds'[v] /\ holds'[v] # 0 => u = v
    BY DEF OwnInv
  <1> QED
    BY <1>3, <1>4, <1>5 DEF OwnInv

LEMMA RequestsLeaveClaimed ==
  ASSUME TypeInv, Requests
  PROVE  /\ UNCHANGED <<holds, ppc>>
         /\ \A p \in PRuns : prun[p].status \in Claimed => prun'[p].status = prun[p].status
  <1> USE DEF TypeInv, TypeOK, ptables, plocals, Claimed
  <1>0. ASSUME NEW p \in PRuns, NEW row \in Row, Absent(p) \/ prun[p].status
                 \in {"queued", "waiting_for_global"}, prun' = [prun EXCEPT ![p] = row]
        PROVE  \A q \in PRuns : prun[q].status \in Claimed => prun'[q].status = prun[q].status
    BY <1>0 DEF Absent
  <1>1. ASSUME NEW c \in Clients, NEW u \in Users, NEW s \in Sources \union {0},
               SubmitRun(c, u, s)
        PROVE  UNCHANGED <<prun, holds, ppc>>
    BY <1>1 DEF SubmitRun
  <1>5. ASSUME NEW c \in Clients, CheckQuota(c) \/ CreateRefused(c)
        PROVE  UNCHANGED <<prun, holds, ppc>>
    BY <1>5 DEF CheckQuota, CreateRefused
  <1>2. ASSUME NEW c \in Clients, CreateRun(c)
        PROVE  UNCHANGED <<holds, ppc>>
                 /\ \A p \in PRuns : prun[p].status \in Claimed
                                       => prun'[p].status = prun[p].status
    <2>1. NewRun(req[c].user, req[c].source) \in Row
      BY NewRowType DEF NewRun, Request, Status
    <2>2. PICK p \in PRuns : InsertRow(p, NewRun(req[c].user, req[c].source))
      BY <1>2 DEF CreateRun
    <2> QED
      BY <1>2, <1>0, <2>1, <2>2 DEF CreateRun, InsertRow
  <1>3. ASSUME NEW p \in PRuns, CancelQueued(p) \/ \E s \in Sources : QueueWaiting(p, s)
        PROVE  UNCHANGED <<holds, ppc>>
                 /\ \A q \in PRuns : prun[q].status \in Claimed
                                       => prun'[q].status = prun[q].status
    BY <1>3 DEF CancelQueued, QueueWaiting
  <1>4. ASSUME NEW us, ForgetUsage(us)
        PROVE  UNCHANGED <<holds, ppc>>
                 /\ \A q \in PRuns : prun'[q].status = prun[q].status
    BY <1>4 DEF ForgetUsage, Row
  <1> QED
    BY <1>1, <1>2, <1>3, <1>4, <1>5 DEF Requests, NewQuotaWindow, ResetQuota

LEMMA OwnStep ==
  ASSUME TypeInv, OwnInv, NEW w \in Workers, PStep(w)
  PROVE  OwnInv'
  <1> USE DEF ptables, plocals
  <1>lab. /\ Owning = {"claimed", "slot", "requeue", "mark_running", "build", "publish"}
          /\ {"ready", "away", "claimed", "slot", "requeue", "mark_running", "build",
              "publish", "mark_completed", "unlock", "fail", "fail_mark"} \subseteq PLabels
    BY LabelFacts DEF Owning, InSlot
  <1>held. \A v \in Workers : ppc[v] \in Owning => holds[v] \in PRuns /\ holds[v] # 0
    BY OwningWorks DEF TypeInv, TypeOK, Holding
  <1>1. CASE ClaimRun(w)
    <2>1. PICK p \in PQueued :
            /\ prun' = [prun EXCEPT ![p].status = "running"]
            /\ holds' = [holds EXCEPT ![w] = p]
      BY <1>1 DEF ClaimRun
    <2>2. p \in PRuns /\ p # 0 /\ prun[p].status = "queued"
      BY <2>1 DEF PQueued, PRuns
    <2>3. \A v \in Workers : holds[v] # 0 => holds[v] # p /\ holds[v] \in PRuns
      BY <2>2 DEF OwnInv, Claimed, TypeInv, TypeOK
    <2>4. /\ prun'[p].status = "running"
          /\ \A q \in PRuns \ {p} : prun'[q].status = prun[q].status
      BY <2>1, <2>2, MovesTo DEF Status, OthersSame, Same
    <2>5. holds'[w] = p /\ \A v \in Workers \ {w} : holds'[v] = holds[v]
      BY <2>1 DEF TypeInv, TypeOK
    <2>6. ppc'[w] = "claimed" /\ \A v \in Workers \ {w} : ppc'[v] = ppc[v]
      BY <1>1, <1>lab, GotoType DEF ClaimRun
    <2>7. \A v \in Workers : holds'[v] # 0 => prun'[holds'[v]].status \in Claimed
      BY <2>3, <2>4, <2>5 DEF OwnInv, Claimed
    <2>8. \A v \in Workers : ppc'[v] \in Owning => prun'[holds'[v]].status = "running"
      BY <2>3, <2>4, <2>5, <2>6, <1>held DEF OwnInv
    <2>9. \A u, v \in Workers : holds'[u] = holds'[v] /\ holds'[v] # 0 => u = v
      BY <2>2, <2>3, <2>5 DEF OwnInv
    <2> QED
      BY <2>7, <2>8, <2>9 DEF OwnInv
  <1>2. CASE NothingToRun(w) \/ AcquireUser(w) \/ UserBusy(w) \/ TakeSlot(w)
               \/ MarkPersonalRunning(w) \/ BuildUserModels(w) \/ MarkPersonalCompleted(w)
    <2>1. /\ UNCHANGED <<prun, holds>>
          /\ \E l \in PLabels : PGoto(w, l) /\ (l \in Owning => ppc[w] \in Owning)
      BY <1>2, <1>lab DEF NothingToRun, AcquireUser, UserBusy, TakeSlot,
         MarkPersonalRunning, BuildUserModels, MarkPersonalCompleted
    <2>2. \A v \in Workers : ppc'[v] \in Owning => ppc[v] \in Owning
      BY <2>1, GotoType
    <2> QED
      BY <2>1, <2>2, OwnKept
  <1>3. CASE SlotBusy(w)
    <2>1. /\ UNCHANGED <<prun, holds>> /\ ppc[w] = "slot"
          /\ ppc' = ppc \/ PGoto(w, "requeue")
      BY <1>3 DEF SlotBusy
    <2>2. \A v \in Workers : ppc'[v] \in Owning => ppc[v] \in Owning
      BY <2>1, <1>lab, GotoType
    <2> QED
      BY <2>1, <2>2, OwnKept
  <1>4. ASSUME NEW matched, NEW inactive, PublishResults(w, matched, inactive)
        PROVE  OwnInv'
    <2>1. /\ UNCHANGED holds /\ ppc[w] = "publish"
          /\ ppc'[w] \in {"mark_completed", "unlock"}
          /\ \A v \in Workers \ {w} : ppc'[v] = ppc[v]
      <3>1. PGoto(w, "mark_completed") \/ PGoto(w, "unlock")
        BY <1>4 DEF PublishResults
      <3> QED
        BY <1>4, <3>1, <1>lab, GotoType DEF PublishResults
    <2>2. holds[w] \in PRuns /\ Published(holds[w])
      BY <1>4, PublicationTable
    <2>3. \A v \in Workers : holds'[v] # 0 => prun'[holds'[v]].status \in Claimed
      BY <2>1, <2>2 DEF OwnInv, Published, Claimed, TypeInv, TypeOK
    <2>4. ASSUME NEW v \in Workers, ppc'[v] \in Owning
          PROVE  prun'[holds'[v]].status = "running"
      <3>1. v # w /\ ppc[v] \in Owning
        BY <2>1, <2>4, <1>lab
      <3>2. holds[v] # holds[w] /\ holds[v] \in PRuns
        BY <3>1, <1>held DEF OwnInv
      <3> QED
        BY <2>1, <2>2, <3>1, <3>2 DEF OwnInv, Published
    <2> QED
      BY <2>1, <2>3, <2>4 DEF OwnInv
  <1>5. CASE UnlockUser(w) \/ MarkPersonalFailed(w)
    <2>1. UNCHANGED prun /\ PEndTurn(w, "away")
      BY <1>5 DEF UnlockUser, MarkPersonalFailed
    <2>2. /\ holds'[w] = 0 /\ ppc'[w] = "away"
          /\ \A v \in Workers : v # w => holds'[v] = holds[v] /\ ppc'[v] = ppc[v]
      BY <2>1, EndTurnType
    <2> QED
      BY <2>1, <2>2, <1>lab, OwnKept
  <1>6. ASSUME RequeueRun(w) \/ FailRun(w)
        PROVE  OwnInv'
    <2>1. /\ holds[w] \in PRuns /\ holds[w] # 0
          /\ \A v \in Workers : v # w /\ holds[v] # 0
               => holds[v] # holds[w] /\ holds[v] \in PRuns
      BY <1>6, LabelFacts DEF RequeueRun, FailRun, TypeInv, TypeOK, Holding, OwnInv
    <2>2. \A q \in PRuns : q # holds[w] => prun'[q].status = prun[q].status
      BY <1>6, <2>1 DEF RequeueRun, FailRun, TypeInv, TypeOK, Row
    <2>3. /\ \A v \in Workers : v # w => holds'[v] = holds[v] /\ ppc'[v] = ppc[v]
          /\ \/ holds'[w] = 0 /\ ppc'[w] = "away"
             \/ /\ holds'[w] = holds[w] /\ ppc'[w] = "fail_mark"
                /\ prun'[holds[w]].status \in Claimed
      <3>1. CASE PEndTurn(w, "away")
        BY <3>1, EndTurnType
      <3>2. CASE ~PEndTurn(w, "away")
        <4>1. FailRun(w) /\ PGoto(w, "fail_mark") /\ UNCHANGED holds
          BY <1>6, <3>2 DEF RequeueRun, FailRun
        <4>2. prun'[holds[w]].status \in Claimed
          BY <4>1, <2>1 DEF FailRun, OwnInv, Claimed, TypeInv, TypeOK, Row
        <4> QED
          BY <4>1, <4>2, <1>lab, GotoType
      <3> QED
        BY <3>1, <3>2
    <2>4. \A v \in Workers : holds'[v] # 0 => prun'[holds'[v]].status \in Claimed
      BY <2>1, <2>2, <2>3 DEF OwnInv
    <2>5. \A v \in Workers : ppc'[v] \in Owning => prun'[holds'[v]].status = "running"
      <3> SUFFICES ASSUME NEW v \in Workers, ppc'[v] \in Owning
                   PROVE  prun'[holds'[v]].status = "running"
        OBVIOUS
      <3>1. v # w /\ ppc[v] \in Owning /\ holds'[v] = holds[v]
        BY <2>3, <1>lab
      <3> QED
        BY <3>1, <2>1, <2>2, <1>held DEF OwnInv
    <2>6. \A u, v \in Workers : holds'[u] = holds'[v] /\ holds'[v] # 0 => u = v
      BY <2>3 DEF OwnInv
    <2> QED
      BY <2>4, <2>5, <2>6 DEF OwnInv
  <1> QED
    BY <1>1, <1>2, <1>3, <1>4, <1>5, <1>6 DEF PStep

LEMMA OwnSurroundings ==
  ASSUME TypeInv, OwnInv, NEW w \in Workers, Surroundings(w)
  PROVE  OwnInv'
  <1> USE DEF ptables, plocals
  <1>lab. /\ {"away", "ready", "fail"} \subseteq PLabels
          /\ {"away", "ready", "fail", "down"} \cap Owning = {}
    BY LabelFacts DEF Owning, InSlot
  <1>1. CASE \E l \in {"away", "ready", "fail"} : PGoto(w, l) /\ UNCHANGED <<prun, holds>>
    <2>1. \A v \in Workers : ppc'[v] \in Owning => ppc[v] \in Owning
      BY <1>1, <1>lab, GotoType
    <2> QED
      BY <1>1, <2>1, OwnKept
  <1>2. CASE PEndTurn(w, "down") /\ UNCHANGED prun
    BY <1>2, <1>lab, EndTurnType, OwnKept
  <1>3. CASE UNCHANGED <<prun, holds, ppc>>
    BY <1>3, OwnKept
  <1> QED
    BY <1>1, <1>2, <1>3 DEF Surroundings, StartTurn, RestartIdle, GlobalFreesSlot,
       CrashInRun, RaiseInRun, GlobalRaises, GlobalTakesSlot

LEMMA OwnNext == TypeInv /\ OwnInv /\ [Next]_pvars => OwnInv'
  <1> SUFFICES ASSUME TypeInv, OwnInv, [Next]_pvars PROVE OwnInv'
    OBVIOUS
  <1>1. CASE Requests
    BY <1>1, RequestsLeaveClaimed, OwnKept
  <1>2. CASE Sessions \/ UNCHANGED pvars
    <2>1. UNCHANGED <<prun, holds, ppc>>
      BY <1>2 DEF Sessions, DropUserSession, DropPersonalSlot, ptables, plocals, pvars
    <2> QED
      BY <2>1, OwnKept
  <1> QED
    BY <1>1, <1>2, NextCases, OwnStep, OwnSurroundings

(* A worker in process_one owns a running row with a source, alone: none   *)
(* of the "Only a running pipeline may ..." exceptions is ever raised.     *)
THEOREM WorkerOwnsRunningAlways == Spec => []WorkerOwnsRunning
  <1>1. TypeInv /\ RowInv /\ OwnInv => WorkerOwnsRunning
    <2> SUFFICES ASSUME TypeInv, RowInv, OwnInv PROVE WorkerOwnsRunning
      OBVIOUS
    <2>1. \A w \in Workers : ppc[w] \in Owning => holds[w] \in PRuns
      BY OwningWorks DEF TypeInv, TypeOK, Holding
    <2> QED
      BY <2>1 DEF RowInv, Sourced, OwnInv, Owning, WorkerOwnsRunning
  <1> QED
    BY <1>1, TypeInit, TypeNext, RowInit, RowNext, OwnInit, OwnNext, PTL DEF Spec

-----------------------------------------------------------------------------
(* The user lock *)

LockInv ==
  \A w \in Workers : ppc[w] \in InUserLock => userLock[prun[holds[w]].user] = w

LEMMA LockInit == Init => LockInv
  BY LabelFacts DEF Init, LockInv

(* Once a row exists it stays its user's. *)
LEMMA UsersStay ==
  ASSUME TypeInv, [Next]_pvars
  PROVE  \A p \in PRuns : ~Absent(p) => prun'[p].user = prun[p].user
  BY TableCases DEF Unpublished, Same, Inserted, Moved, Bound, Published, OthersSame

LEMMA InLockHolds ==
  ASSUME TypeInv, OwnInv, [Next]_pvars, NEW w \in Workers, ppc[w] \in InUserLock
  PROVE  /\ holds[w] \in PRuns /\ prun[holds[w]].user \in Users
         /\ prun'[holds[w]].user = prun[holds[w]].user
  <1>1. holds[w] \in PRuns /\ holds[w] # 0
    BY LabelFacts DEF TypeInv, TypeOK, Holding
  <1>2. ~Absent(holds[w])
    BY <1>1 DEF OwnInv, Claimed, Absent
  <1> QED
    BY <1>1, <1>2, UsersStay DEF TypeInv, TypeOK, Row

(* A step that brings no worker under the lock and takes none away from    *)
(* the others.                                                             *)
LEMMA LockKept ==
  ASSUME TypeInv, OwnInv, LockInv, [Next]_pvars,
         \A v \in Workers : ppc'[v] \in InUserLock =>
           /\ ppc[v] \in InUserLock /\ holds'[v] = holds[v]
           /\ \A u \in Users : userLock[u] = v => userLock'[u] = v
  PROVE  LockInv'
  BY InLockHolds DEF LockInv

LEMMA OthersKeepLocks ==
  ASSUME TypeInv, NEW w \in Workers, NEW as,
         userLock' = Relinquish(userLock, w, as)
  PROVE  \A v \in Workers \ {w}, u \in Users : userLock[u] = v => userLock'[u] = v
  BY DEF TypeInv, TypeOK, Relinquish

LEMMA LockStep ==
  ASSUME TypeInv, OwnInv, LockInv, NEW w \in Workers, PStep(w)
  PROVE  LockInv'
  <1> USE DEF ptables, plocals
  <1>next. [Next]_pvars
    BY DEF Next
  <1>lab. /\ {"ready", "away", "claimed", "slot", "requeue", "mark_running", "build",
              "publish", "mark_completed", "unlock", "fail", "fail_mark"} \subseteq PLabels
          /\ InUserLock \cap {"claimed", "away", "ready", "requeue", "fail", "fail_mark"} = {}
    BY LabelFacts
  <1>1. CASE ClaimRun(w)
    <2>1. /\ ppc'[w] = "claimed" /\ UNCHANGED userLock
          /\ \A v \in Workers \ {w} : ppc'[v] = ppc[v]
      BY <1>1, <1>lab, GotoType DEF ClaimRun
    <2>2. \A v \in Workers \ {w} : holds'[v] = holds[v]
      BY <1>1 DEF ClaimRun, TypeInv, TypeOK
    <2> QED
      BY <2>1, <2>2, <1>next, <1>lab, LockKept
  <1>2. CASE NothingToRun(w) \/ UserBusy(w) \/ MarkPersonalRunning(w)
               \/ BuildUserModels(w) \/ MarkPersonalCompleted(w)
    <2>1. /\ UNCHANGED <<userLock, holds>>
          /\ \E l \in PLabels : PGoto(w, l) /\ (l \in InUserLock => ppc[w] \in InUserLock)
      BY <1>2, LabelFacts DEF NothingToRun, UserBusy, MarkPersonalRunning,
         BuildUserModels, MarkPersonalCompleted
    <2>2. \A v \in Workers : ppc'[v] \in InUserLock => ppc[v] \in InUserLock
      BY <2>1, GotoType
    <2> QED
      BY <2>1, <2>2, <1>next, LockKept
  <1>3. CASE AcquireUser(w)
    <2> DEFINE u == prun[holds[w]].user
    <2>1. /\ ppc'[w] = "slot" /\ UNCHANGED <<prun, holds>>
          /\ \A v \in Workers \ {w} : ppc'[v] = ppc[v]
      BY <1>3, <1>lab, GotoType DEF AcquireUser
    <2>2. u \in Users
      BY <1>3, LabelFacts DEF AcquireUser, TypeInv, TypeOK, Holding, Row
    <2>3. /\ userLock[u] = Free /\ userLock'[u] = w
          /\ \A x \in Users \ {u} : userLock'[x] = userLock[x]
      BY <1>3, <2>2 DEF AcquireUser, Available, TypeInv, TypeOK
    <2>4. ASSUME NEW v \in Workers \ {w}, ppc'[v] \in InUserLock
          PROVE  userLock'[prun'[holds'[v]].user] = v
      <3>1. userLock[prun[holds[v]].user] = v /\ prun[holds[v]].user \in Users
        BY <2>1, <2>4, <1>next, InLockHolds DEF LockInv
      <3> QED
        BY <2>1, <2>3, <3>1, WorkersAssumption
    <2> QED
      BY <2>1, <2>3, <2>4 DEF LockInv
  <1>4. CASE TakeSlot(w)
    <2>1. /\ UNCHANGED <<userLock, holds>> /\ ppc[w] \in InUserLock
          /\ \E l \in PLabels : PGoto(w, l)
      BY <1>4, LabelFacts DEF TakeSlot
    <2>2. \A v \in Workers : ppc'[v] \in InUserLock => ppc[v] \in InUserLock
      BY <2>1, GotoType
    <2> QED
      BY <2>1, <2>2, <1>next, LockKept
  <1>5. CASE SlotBusy(w)
    <2>1. CASE UNCHANGED <<userLock, ppc>>
      BY <1>5, <2>1, <1>next, LockKept DEF SlotBusy
    <2>2. CASE userLock' = Relinquish(userLock, w, Free) /\ PGoto(w, "requeue")
      <3>1. ppc'[w] = "requeue" /\ \A v \in Workers \ {w} : ppc'[v] = ppc[v]
        BY <2>2, <1>lab, GotoType
      <3>2. UNCHANGED holds
        BY <1>5 DEF SlotBusy
      <3> QED
        BY <2>2, <3>1, <3>2, <1>lab, <1>next, OthersKeepLocks, LockKept
    <2> QED
      BY <1>5, <2>1, <2>2 DEF SlotBusy
  <1>6. ASSUME NEW matched, NEW inactive, PublishResults(w, matched, inactive)
        PROVE  LockInv'
    <2>1. /\ UNCHANGED <<userLock, holds>> /\ ppc[w] \in InUserLock
          /\ \E l \in PLabels : PGoto(w, l)
      BY <1>6, LabelFacts DEF PublishResults
    <2>2. \A v \in Workers : ppc'[v] \in InUserLock => ppc[v] \in InUserLock
      BY <2>1, GotoType
    <2> QED
      BY <1>next, <2>1, <2>2, LockKept
  <1>7. CASE PEndTurn(w, "away") /\ (UnlockUser(w) \/ RequeueRun(w) \/ FailRun(w)
               \/ MarkPersonalFailed(w))
    <2>1. /\ ppc'[w] = "away"
          /\ \A v \in Workers \ {w} : holds'[v] = holds[v] /\ ppc'[v] = ppc[v]
      BY <1>7, EndTurnType
    <2>2. userLock' = Relinquish(userLock, w, Free) \/ UNCHANGED userLock
      BY <1>7 DEF UnlockUser, RequeueRun, FailRun, MarkPersonalFailed
    <2> QED
      BY <2>1, <2>2, <1>lab, <1>next, OthersKeepLocks, LockKept
  <1>8. CASE FailRun(w) /\ ~PEndTurn(w, "away")
    <2>1. UNCHANGED <<userLock, holds>> /\ PGoto(w, "fail_mark")
      BY <1>8 DEF FailRun
    <2>2. \A v \in Workers : ppc'[v] \in InUserLock => ppc[v] \in InUserLock
      BY <2>1, <1>lab, GotoType
    <2> QED
      BY <2>1, <2>2, <1>next, LockKept
  <1>9. UnlockUser(w) \/ RequeueRun(w) \/ MarkPersonalFailed(w) => PEndTurn(w, "away")
    BY DEF UnlockUser, RequeueRun, MarkPersonalFailed
  <1> QED
    BY <1>1, <1>2, <1>3, <1>4, <1>5, <1>6, <1>7, <1>8, <1>9 DEF PStep

LEMMA LockSurroundings ==
  ASSUME TypeInv, OwnInv, LockInv, NEW w \in Workers, Surroundings(w)
  PROVE  LockInv'
  <1> USE DEF ptables, plocals
  <1>next. [Next]_pvars
    BY DEF Next, Surroundings
  <1>lab. /\ {"away", "ready", "fail"} \subseteq PLabels
          /\ {"away", "ready", "fail", "down"} \cap InUserLock = {}
    BY LabelFacts
  <1>1. CASE \E l \in {"away", "ready"} : PGoto(w, l) /\ UNCHANGED <<userLock, holds>>
    <2>1. \A v \in Workers : ppc'[v] \in InUserLock => ppc[v] \in InUserLock
      BY <1>1, <1>lab, GotoType
    <2> QED
      BY <1>1, <2>1, <1>next, LockKept
  <1>2. CASE UNCHANGED <<userLock, holds, ppc>>
    BY <1>2, <1>next, LockKept
  <1>3. CASE StartTurn(w) \/ RestartIdle(w)
    BY <1>1, <1>3 DEF StartTurn, RestartIdle
  <1>4. CASE CrashInRun(w)
    <2>1. userLock' = Relinquish(userLock, w, Dead) /\ PEndTurn(w, "down")
      BY <1>4 DEF CrashInRun
    <2>2. /\ ppc'[w] \notin InUserLock
          /\ \A v \in Workers \ {w} : ppc'[v] = ppc[v] /\ holds'[v] = holds[v]
      BY <2>1, <1>lab, EndTurnType
    <2> QED
      BY <2>1, <2>2, <1>next, OthersKeepLocks, LockKept
  <1>5. ASSUME NEW as \in {Free, Dead}, RaiseInRun(w, as)
        PROVE  LockInv'
    <2>1. /\ ppc'[w] \notin InUserLock
          /\ \A v \in Workers \ {w} : ppc'[v] = ppc[v] /\ holds'[v] = holds[v]
      BY <1>5, <1>lab, GotoType DEF RaiseInRun
    <2>2. userLock' = Relinquish(userLock, w, as)
      BY <1>5 DEF RaiseInRun
    <2> QED
      BY <2>1, <2>2, <1>next, OthersKeepLocks, LockKept
  <1>6. CASE GlobalFreesSlot(w) \/ (\E as \in {Free, Dead} : GlobalRaises(w, as))
               \/ \E i \in Slots : GlobalTakesSlot(w, i)
    BY <1>2, <1>6 DEF GlobalFreesSlot, GlobalRaises, GlobalTakesSlot
  <1> QED
    BY <1>3, <1>4, <1>5, <1>6 DEF Surroundings

LEMMA RequestsKeepLocks ==
  ASSUME TypeInv, Requests
  PROVE  UNCHANGED <<userLock, ppc, holds>>
  <1> USE DEF plocals
  <1>1. \A c \in Clients, u \in Users, s \in Sources \union {0} :
          SubmitRun(c, u, s) => UNCHANGED userLock
    BY DEF SubmitRun
  <1>2. \A c \in Clients :
          CheckQuota(c) \/ CreateRun(c) \/ CreateRefused(c) => UNCHANGED userLock
    BY DEF CheckQuota, CreateRun, CreateRefused
  <1>3. \A p \in PRuns :
          CancelQueued(p) \/ (\E s \in Sources : QueueWaiting(p, s)) => UNCHANGED userLock
    BY DEF CancelQueued, QueueWaiting
  <1>4. ASSUME NEW us, ForgetUsage(us) PROVE UNCHANGED userLock
    BY <1>4 DEF ForgetUsage
  <1>5. UNCHANGED userLock
    BY <1>1, <1>2, <1>3, <1>4 DEF Requests, NewQuotaWindow, ResetQuota
  <1> QED
    BY <1>5, RequestsLeaveClaimed

LEMMA LockNext == TypeInv /\ OwnInv /\ LockInv /\ [Next]_pvars => LockInv'
  <1> SUFFICES ASSUME TypeInv, OwnInv, LockInv, [Next]_pvars PROVE LockInv'
    OBVIOUS
  <1>1. CASE Requests
    BY <1>1, RequestsKeepLocks, LockKept
  <1>2. ASSUME NEW u \in Users, DropUserSession(u)
        PROVE  LockInv'
    <2>1. UNCHANGED <<holds, ppc>>
      BY <1>2 DEF DropUserSession, plocals
    <2>2. \A v \in Workers, x \in Users : userLock[x] = v => userLock'[x] = v
      BY <1>2, WorkersAssumption DEF DropUserSession, Dropped, TypeInv, TypeOK
    <2> QED
      BY <2>1, <2>2, LockKept
  <1>3. CASE (\E i \in Slots : DropPersonalSlot(i)) \/ UNCHANGED pvars
    <2>1. UNCHANGED <<holds, ppc, userLock>>
      BY <1>3 DEF DropPersonalSlot, plocals, pvars
    <2> QED
      BY <2>1, LockKept
  <1> QED
    BY <1>1, <1>2, <1>3, NextCases, LockStep, LockSurroundings DEF Sessions

(* The user lock excludes, however sessions are lost: two workers under it *)
(* are never on runs of the same user.                                     *)
THEOREM OneWorkerPerUserAlways == Spec => []OneWorkerPerUser
  <1>1. LockInv => OneWorkerPerUser
    BY DEF LockInv, OneWorkerPerUser
  <1> QED
    BY <1>1, TypeInit, TypeNext, OwnInit, OwnNext, LockInit, LockNext, PTL DEF Spec

-----------------------------------------------------------------------------
(* User locks are given back *)

BackInv ==
  \A w \in Workers, u \in Users :
    userLock[u] = w => ppc[w] \in InUserLock /\ u = prun[holds[w]].user

LEMMA BackInit == Init => BackInv
  BY WorkersAssumption DEF Init, BackInv

OthersStay(w) == \A v \in Workers \ {w} : ppc'[v] = ppc[v] /\ holds'[v] = holds[v]

(* No step gives a lock to a worker that does not ask for it; who keeps    *)
(* one keeps its row.                                                      *)
LEMMA BackKept ==
  ASSUME TypeInv, OwnInv, BackInv, [Next]_pvars,
         \A v \in Workers, u \in Users : userLock'[u] = v =>
           /\ userLock[u] = v
           /\ ppc'[v] \in InUserLock /\ holds'[v] = holds[v]
  PROVE  BackInv'
  BY InLockHolds DEF BackInv

LEMMA BackOutside ==
  ASSUME TypeInv, OwnInv, BackInv, [Next]_pvars, NEW w \in Workers,
         UNCHANGED userLock, OthersStay(w), ppc[w] \notin InUserLock
  PROVE  BackInv'
  BY BackKept DEF BackInv, OthersStay

LEMMA BackInside ==
  ASSUME TypeInv, OwnInv, BackInv, [Next]_pvars, NEW w \in Workers,
         UNCHANGED <<userLock, holds>>, NEW l \in InUserLock, PGoto(w, l)
  PROVE  BackInv'
  <1>1. l \in PLabels
    BY LabelFacts
  <1> QED
    BY <1>1, GotoType, BackKept DEF BackInv

LEMMA BackLost ==
  ASSUME TypeInv, OwnInv, BackInv, [Next]_pvars, NEW w \in Workers,
         NEW as \in {Free, Dead}, userLock' = Relinquish(userLock, w, as), OthersStay(w)
  PROVE  BackInv'
  <1>1. ASSUME NEW v \in Workers, NEW u \in Users, userLock'[u] = v
        PROVE  v # w /\ userLock[u] = v
    BY <1>1, WorkersAssumption DEF Relinquish, TypeInv, TypeOK
  <1> QED
    BY <1>1, BackKept DEF BackInv, OthersStay

LEMMA GotoOthers ==
  ASSUME TypeInv, NEW w \in Workers, NEW l \in PLabels, PGoto(w, l), UNCHANGED holds
  PROVE  OthersStay(w)
  BY GotoType DEF OthersStay

LEMMA EndOthers ==
  ASSUME TypeInv, NEW w \in Workers, NEW l \in {"away", "down"}, PEndTurn(w, l)
  PROVE  OthersStay(w)
  BY EndTurnType DEF OthersStay

LEMMA BackPStep ==
  ASSUME TypeInv, OwnInv, BackInv, NEW w \in Workers, PStep(w)
  PROVE  BackInv'
  <1> USE DEF ptables, plocals
  <1>next. [Next]_pvars
    BY DEF Next
  <1>lab. /\ {"ready", "away", "claimed", "slot", "requeue", "mark_running", "build",
              "publish", "mark_completed", "unlock", "fail", "fail_mark"} \subseteq PLabels
          /\ {"slot", "mark_running", "build", "publish", "mark_completed", "unlock"}
               = InUserLock
          /\ InUserLock \cap {"claimed", "away", "ready", "requeue", "fail", "fail_mark"} = {}
    BY LabelFacts
  <1>1. CASE ClaimRun(w)
    <2>1. \A v \in Workers \ {w} : ppc'[v] = ppc[v]
      BY <1>1, <1>lab, GotoType DEF ClaimRun
    <2>2. \A v \in Workers \ {w} : holds'[v] = holds[v]
      BY <1>1 DEF ClaimRun, TypeInv, TypeOK
    <2>3. UNCHANGED userLock /\ ppc[w] \notin InUserLock
      BY <1>1, <1>lab DEF ClaimRun
    <2> QED
      BY <2>1, <2>2, <2>3, <1>next, BackOutside DEF OthersStay
  <1>2. CASE NothingToRun(w) \/ UserBusy(w)
    <2>1. /\ UNCHANGED <<userLock, holds>> /\ ppc[w] \notin InUserLock
          /\ \E l \in PLabels : PGoto(w, l)
      BY <1>2, <1>lab DEF NothingToRun, UserBusy
    <2> QED
      BY <2>1, <1>next, GotoOthers, BackOutside
  <1>3. CASE AcquireUser(w)
    <2> DEFINE u == prun[holds[w]].user
    <2>1. /\ ppc'[w] = "slot" /\ UNCHANGED <<prun, holds>>
          /\ \A v \in Workers \ {w} : ppc'[v] = ppc[v]
      BY <1>3, <1>lab, GotoType DEF AcquireUser
    <2>2. ppc[w] \notin InUserLock
      BY <1>3, <1>lab DEF AcquireUser
    <2>3. \A x \in Users : userLock'[x] = IF x = u THEN w ELSE userLock[x]
      BY <1>3 DEF AcquireUser, TypeInv, TypeOK
    <2>4. ASSUME NEW v \in Workers, NEW x \in Users, userLock'[x] = v
          PROVE  ppc'[v] \in InUserLock /\ x = prun'[holds'[v]].user
      <3>1. CASE v = w
        BY <3>1, <2>1, <2>2, <2>3, <2>4, <1>lab DEF BackInv
      <3>2. CASE v # w
        BY <3>2, <2>1, <2>3, <2>4 DEF BackInv
      <3> QED
        BY <3>1, <3>2
    <2> QED
      BY <2>4 DEF BackInv
  <1>4. CASE TakeSlot(w) \/ MarkPersonalRunning(w) \/ BuildUserModels(w)
               \/ MarkPersonalCompleted(w)
    <2>1. /\ UNCHANGED <<userLock, holds>>
          /\ \E l \in InUserLock : PGoto(w, l)
      BY <1>4, <1>lab DEF TakeSlot, MarkPersonalRunning, BuildUserModels,
         MarkPersonalCompleted
    <2> QED
      BY <2>1, <1>next, BackInside
  <1>5. CASE SlotBusy(w)
    <2>1. CASE UNCHANGED <<userLock, ppc>>
      <3>1. UNCHANGED holds
        BY <1>5 DEF SlotBusy
      <3> QED
        BY <2>1, <3>1, <1>next, BackKept DEF BackInv
    <2>2. CASE userLock' = Relinquish(userLock, w, Free) /\ PGoto(w, "requeue")
      <3>1. UNCHANGED holds
        BY <1>5 DEF SlotBusy
      <3>2. OthersStay(w)
        BY <2>2, <3>1, <1>lab, GotoOthers
      <3> QED
        BY <2>2, <3>2, <1>next, BackLost
    <2> QED
      BY <1>5, <2>1, <2>2 DEF SlotBusy
  <1>6. ASSUME NEW matched, NEW inactive, PublishResults(w, matched, inactive)
        PROVE  BackInv'
    <2>1. /\ UNCHANGED <<userLock, holds>>
          /\ \E l \in InUserLock : PGoto(w, l)
      BY <1>6, <1>lab DEF PublishResults
    <2> QED
      BY <2>1, <1>next, BackInside
  <1>7. CASE UnlockUser(w)
    <2>1. userLock' = Relinquish(userLock, w, Free) /\ PEndTurn(w, "away")
      BY <1>7 DEF UnlockUser
    <2> QED
      BY <2>1, <1>next, EndOthers, BackLost
  <1>8. CASE RequeueRun(w) \/ MarkPersonalFailed(w) \/ FailRun(w)
    <2>1. UNCHANGED userLock /\ ppc[w] \notin InUserLock
      BY <1>8, <1>lab DEF RequeueRun, MarkPersonalFailed, FailRun
    <2>2. PEndTurn(w, "away") \/ (PGoto(w, "fail_mark") /\ UNCHANGED holds)
      BY <1>8 DEF RequeueRun, MarkPersonalFailed, FailRun
    <2>3. OthersStay(w)
      BY <2>2, <1>lab, EndOthers, GotoOthers
    <2> QED
      BY <2>1, <2>3, <1>next, BackOutside
  <1> QED
    BY <1>1, <1>2, <1>3, <1>4, <1>5, <1>6, <1>7, <1>8 DEF PStep

LEMMA BackSurroundings ==
  ASSUME TypeInv, OwnInv, BackInv, NEW w \in Workers, Surroundings(w)
  PROVE  BackInv'
  <1> USE DEF ptables, plocals
  <1>next. [Next]_pvars
    BY DEF Next, Surroundings
  <1>lab. /\ {"away", "ready", "fail"} \subseteq PLabels
          /\ {"away", "ready", "fail", "down"} \cap InUserLock = {}
    BY LabelFacts
  <1>1. CASE StartTurn(w) \/ RestartIdle(w)
    <2>1. /\ UNCHANGED <<userLock, holds>> /\ ppc[w] \notin InUserLock
          /\ \E l \in PLabels : PGoto(w, l)
      BY <1>1, <1>lab DEF StartTurn, RestartIdle
    <2> QED
      BY <2>1, <1>next, GotoOthers, BackOutside
  <1>2. CASE CrashInRun(w)
    <2>1. userLock' = Relinquish(userLock, w, Dead) /\ PEndTurn(w, "down")
      BY <1>2 DEF CrashInRun
    <2> QED
      BY <2>1, <1>next, EndOthers, BackLost
  <1>3. ASSUME NEW as \in {Free, Dead}, RaiseInRun(w, as)
        PROVE  BackInv'
    <2>1. userLock' = Relinquish(userLock, w, as) /\ PGoto(w, "fail") /\ UNCHANGED holds
      BY <1>3 DEF RaiseInRun
    <2> QED
      BY <2>1, <1>lab, <1>next, GotoOthers, BackLost
  <1>4. CASE GlobalFreesSlot(w) \/ (\E as \in {Free, Dead} : GlobalRaises(w, as))
               \/ \E i \in Slots : GlobalTakesSlot(w, i)
    <2>1. UNCHANGED <<userLock, ppc, holds>>
      BY <1>4 DEF GlobalFreesSlot, GlobalRaises, GlobalTakesSlot
    <2> QED
      BY <2>1, <1>next, BackKept DEF BackInv
  <1> QED
    BY <1>1, <1>2, <1>3, <1>4 DEF Surroundings

LEMMA BackNext == TypeInv /\ OwnInv /\ BackInv /\ [Next]_pvars => BackInv'
  <1> SUFFICES ASSUME TypeInv, OwnInv, BackInv, [Next]_pvars PROVE BackInv'
    OBVIOUS
  <1>1. CASE Requests
    <2>1. UNCHANGED <<userLock, ppc, holds>>
      BY <1>1, RequestsKeepLocks
    <2> QED
      BY <2>1, BackKept DEF BackInv
  <1>2. ASSUME NEW u \in Users, DropUserSession(u)
        PROVE  BackInv'
    <2>1. UNCHANGED <<holds, ppc>>
      BY <1>2 DEF DropUserSession, plocals
    <2>2. \A v \in Workers, x \in Users : userLock'[x] = v => userLock[x] = v
      BY <1>2, WorkersAssumption DEF DropUserSession, Dropped, TypeInv, TypeOK
    <2> QED
      BY <2>1, <2>2, BackKept DEF BackInv
  <1>3. CASE (\E i \in Slots : DropPersonalSlot(i)) \/ UNCHANGED pvars
    <2>1. UNCHANGED <<holds, ppc, userLock>>
      BY <1>3 DEF DropPersonalSlot, plocals, pvars
    <2> QED
      BY <2>1, BackKept DEF BackInv
  <1> QED
    BY <1>1, <1>2, <1>3, NextCases, BackPStep, BackSurroundings DEF Sessions

(* acquire gives the user lock back however its block ends: who holds one  *)
(* is working on a run of that user, so an idle worker, one that requeues  *)
(* or one that records a failure keeps nobody from refreshing.             *)
THEOREM UserLocksGivenBack ==
  Spec => [](\A w \in Workers, u \in Users :
               userLock[u] = w => ppc[w] \in InUserLock /\ u = prun[holds[w]].user)
  BY TypeInit, TypeNext, OwnInit, OwnNext, BackInit, BackNext, PTL
  DEF Spec, BackInv

-----------------------------------------------------------------------------
(* What a user sees: the flagged row, the pointer and the match rows *)

PointerInv ==
  \A u \in Users, p \in PRuns :
    lastRun[u] = p <=> ~Absent(p) /\ prun[p].user = u /\ prun[p].current

ResultInv == PointerInv /\ CurrentRowsPublished

LEMMA ResultInit == Init => ResultInv
  BY DEF Init, NewRow, ResultInv, PointerInv, CurrentRowsPublished, Absent, PRuns

(* The row being published is younger than all the user has that ended. *)
LEMMA PublishedIsLast ==
  ASSUME TypeInv, RowInv, NEW p \in PRuns, Published(p),
         NEW q \in PRuns, q \in OfUser(prun[p].user), prun[q].status = "completed"
  PROVE  q < p
  <1>1. q # p /\ prun[q].user = prun[p].user /\ prun[p].status = "running"
    BY DEF Published, OfUser
  <1>2. ~(p < q)
    BY <1>1 DEF RowInv, OnlyLastActive, OfUser, Final
  <1> QED
    BY <1>1, <1>2, PersonalAssumption DEF PRuns

LEMMA ResultPublish ==
  ASSUME TypeInv, RowInv, ResultInv, NEW w \in Workers, NEW matched, NEW inactive,
         PublishResults(w, matched, inactive)
  PROVE  /\ ResultInv'
         /\ \A u \in Users :
              results'[u] # results[u] \/ lastRun'[u] # lastRun[u] =>
                /\ lastRun'[u] > lastRun[u]
                /\ prun[lastRun'[u]].status = "running"
                /\ prun'[lastRun'[u]].status = "completed"
  <1> DEFINE p == holds[w]
  <1> DEFINE owner == prun[p].user
  <1>1. /\ p \in PRuns /\ Published(p)
        /\ results' = Merged(p, matched, inactive)
        /\ lastRun' = [lastRun EXCEPT ![owner] = p]
    BY PublicationTable
  <1>2. owner \in Users
    BY <1>1 DEF TypeInv, TypeOK, Row
  <1> HIDE DEF p
  <1>nat. p \in Nat /\ p > 0 /\ PRuns \subseteq Nat
    BY <1>1, PersonalAssumption DEF PRuns
  <1>3. /\ lastRun'[owner] = p
        /\ \A u \in Users \ {owner} : lastRun'[u] = lastRun[u] /\ results'[u] = results[u]
    BY <1>1, <1>2 DEF TypeInv, TypeOK, Merged
  <1>4. \A j \in Jobs : results'[owner][j] \in {0, p, results[owner][j]}
    BY <1>1, <1>2 DEF TypeInv, TypeOK, Merged
  <1>5. lastRun[owner] < p
    <2>1. CASE lastRun[owner] = 0
      BY <2>1, <1>nat
    <2>2. CASE lastRun[owner] \in PRuns
      <3>1. /\ lastRun[owner] \in OfUser(owner)
            /\ prun[lastRun[owner]].status = "completed"
        BY <2>2, <1>2 DEF ResultInv, PointerInv, RowInv, CurrentEnded, OfUser
      <3> QED
        BY <2>2, <3>1, <1>1, PublishedIsLast
    <2> QED
      BY <1>2, <2>1, <2>2 DEF TypeInv, TypeOK
  <1>6. PointerInv'
    <2> SUFFICES ASSUME NEW u \in Users, NEW q \in PRuns
                 PROVE  lastRun'[u] = q <=> /\ ~Absent(q)' /\ prun'[q].user = u
                                            /\ prun'[q].current
      BY DEF PointerInv
    <2>1. /\ prun'[p].status # "absent" /\ prun'[p].user = owner /\ prun'[p].current
          /\ lastRun[u] # p
      BY <1>1 DEF Published, ResultInv, PointerInv, RowInv, CurrentEnded
    <2>2. q # p => /\ prun'[q].status = prun[q].status
                   /\ prun'[q].user = prun[q].user
                   /\ prun'[q].current <=>
                        prun[q].current /\ (Absent(q) \/ prun[q].user # owner)
      BY <1>1 DEF Published
    <2>3. lastRun[u] = q <=> ~Absent(q) /\ prun[q].user = u /\ prun[q].current
      BY DEF ResultInv, PointerInv
    <2> HIDE DEF owner
    <2>4. CASE q = p
      BY <2>1, <2>4, <1>3 DEF Absent
    <2>5. CASE q # p /\ u = owner
      BY <2>2, <2>5, <1>3 DEF Absent
    <2>6. CASE q # p /\ u # owner
      BY <2>2, <2>3, <2>6, <1>3 DEF Absent
    <2> QED
      BY <2>4, <2>5, <2>6
  <1>7. CurrentRowsPublished'
    <2> SUFFICES ASSUME NEW u \in Users, NEW j \in Jobs, results'[u][j] # 0
                 PROVE  /\ results'[u][j] \in OfUser(u)'
                        /\ prun'[results'[u][j]].status = "completed"
                        /\ results'[u][j] <= lastRun'[u]
      BY DEF CurrentRowsPublished
    <2>1. \A q \in PRuns : q \in OfUser(u) /\ prun[q].status = "completed" =>
             q \in OfUser(u)' /\ prun'[q].status = "completed"
      BY <1>1 DEF Published, OfUser, Absent
    <2>2. results[u][j] # 0 =>
            /\ results[u][j] \in OfUser(u) /\ results[u][j] \in PRuns
            /\ prun[results[u][j]].status = "completed"
            /\ results[u][j] <= lastRun[u]
      BY DEF ResultInv, CurrentRowsPublished, OfUser
    <2>3. CASE u # owner
      BY <2>1, <2>2, <2>3, <1>3
    <2>4. CASE u = owner /\ results'[u][j] = p
      BY <2>4, <1>1, <1>3, <1>nat DEF Published, OfUser, Absent
    <2>5. CASE u = owner /\ results'[u][j] # p
      <3>1. results'[u][j] = results[u][j] /\ results[u][j] # 0
        BY <2>5, <1>4
      <3>2. results[u][j] < p
        BY <2>2, <2>5, <3>1, <1>1, PublishedIsLast
      <3>3. results[u][j] <= lastRun'[u]
        <4>1. results[u][j] \in Nat /\ lastRun'[u] = p
          BY <2>2, <2>5, <3>1, <1>3, <1>nat
        <4> QED
          BY <3>2, <4>1, <1>nat
      <3> QED
        BY <2>1, <2>2, <3>1, <3>3
    <2> QED
      BY <2>3, <2>4, <2>5
  <1>8. \A u \in Users :
          results'[u] # results[u] \/ lastRun'[u] # lastRun[u] =>
            /\ lastRun'[u] > lastRun[u]
            /\ prun[lastRun'[u]].status = "running"
            /\ prun'[lastRun'[u]].status = "completed"
    <2>1. prun[p].status = "running" /\ prun'[p].status = "completed"
      BY <1>1 DEF Published
    <2> QED
      BY <1>2, <1>3, <1>5, <2>1, <1>nat, PersonalAssumption DEF TypeInv, TypeOK, PRuns
  <1> QED
    BY <1>6, <1>7, <1>8 DEF ResultInv

LEMMA ResultUnpublished ==
  ASSUME TypeInv, RowInv, ResultInv, Unpublished, UNCHANGED <<results, lastRun>>
  PROVE  ResultInv'
  <1>1. \A p \in PRuns : prun'[p].current <=> prun[p].current
    BY DEF Unpublished, Same, Inserted, Moved, Bound, OthersSame, RowInv, CurrentEnded,
       Absent
  <1>2. \A p \in PRuns : prun[p].status = "completed" =>
          prun'[p].status = "completed" /\ prun'[p].user = prun[p].user
    BY DEF Unpublished, Same, Inserted, Moved, Bound, OthersSame, Absent
  <1>3. PointerInv'
    BY <1>1, <1>2 DEF ResultInv, PointerInv, RowInv, CurrentEnded, Absent
  <1>4. CurrentRowsPublished'
    BY <1>2 DEF ResultInv, CurrentRowsPublished, OfUser, Absent
  <1> QED
    BY <1>3, <1>4 DEF ResultInv

LEMMA ResultNext == TypeInv /\ RowInv /\ ResultInv /\ [Next]_pvars => ResultInv'
  BY TableSteps, ResultPublish, ResultUnpublished

(* The flagged row and the profile's pointer name the same completed run.  *)
THEOREM OneCurrentResultAlways == Spec => []OneCurrentResult
  <1>1. TypeInv /\ RowInv /\ ResultInv => OneCurrentResult
    <2> SUFFICES ASSUME TypeInv, RowInv, ResultInv, NEW u \in Users
                 PROVE  /\ {p \in OfUser(u) : prun[p].current} = {lastRun[u]} \ {0}
                        /\ lastRun[u] # 0 => prun[lastRun[u]].status = "completed"
      BY DEF OneCurrentResult
    <2>1. lastRun[u] \in PRuns \union {0} /\ 0 \notin PRuns
      BY DEF TypeInv, TypeOK, PRuns
    <2>2. \A p : p \in OfUser(u) /\ prun[p].current <=> p \in PRuns /\ lastRun[u] = p
      BY DEF ResultInv, PointerInv, OfUser
    <2> QED
      BY <2>1, <2>2 DEF RowInv, CurrentEnded
  <1> QED
    BY <1>1, TypeInit, TypeNext, RowInit, RowNext, ResultInit, ResultNext, PTL DEF Spec

(* Current match rows come from completed runs of their user, none newer   *)
(* than the current result.                                                *)
THEOREM CurrentRowsPublishedAlways == Spec => []CurrentRowsPublished
  <1>1. ResultInv => CurrentRowsPublished
    BY DEF ResultInv
  <1> QED
    BY <1>1, TypeInit, TypeNext, RowInit, RowNext, ResultInit, ResultNext, PTL DEF Spec

(* What a user sees changes only when a run of that user completes, and    *)
(* then to a later run.                                                    *)
THEOREM ResultsOnlyMoveForwardAlways == Spec => ResultsOnlyMoveForward
  <1> DEFINE forward ==
        \A u \in Users :
          results'[u] # results[u] \/ lastRun'[u] # lastRun[u] =>
            /\ lastRun'[u] > lastRun[u]
            /\ prun[lastRun'[u]].status = "running"
            /\ prun'[lastRun'[u]].status = "completed"
  <1>1. TypeInv /\ RowInv /\ ResultInv /\ [Next]_pvars => [forward]_<<results, lastRun>>
    BY TableSteps, ResultPublish
  <1> HIDE DEF forward
  <1>2. Spec => [][forward]_<<results, lastRun>>
    BY <1>1, TypeInit, TypeNext, RowInit, RowNext, ResultInit, ResultNext, PTL DEF Spec
  <1> QED
    BY <1>2 DEF forward, ResultsOnlyMoveForward

(* Between publishing and marking its workflow completed a worker still    *)
(* holds the user lock, so what it published is what the user sees.        *)
ShownInv ==
  \A w \in Workers :
    ppc[w] = "mark_completed" => lastRun[prun[holds[w]].user] = holds[w]

LEMMA ShownInit == Init => ShownInv
  BY DEF Init, ShownInv

LEMMA MarksCompleted ==
  ASSUME TypeInv, [Next]_pvars, NEW v \in Workers, ppc'[v] = "mark_completed"
  PROVE  \/ ppc[v] = "mark_completed" /\ holds'[v] = holds[v]
         \/ \E matched, inactive \in SUBSET Jobs : PublishResults(v, matched, inactive)
  <1> DEFINE Stays == ppc[v] = "mark_completed" /\ holds'[v] = holds[v]
             Publishes == \E matched, inactive \in SUBSET Jobs :
                            PublishResults(v, matched, inactive)
  <1> USE DEF PGoto, PEndTurn, plocals
  <1>0. ppc \in [Workers -> PLabels] /\ holds \in [Workers -> PRuns \union {0}]
    BY DEF TypeInv, TypeOK
  <1>1. CASE Requests
    BY <1>1 DEF Requests, SubmitRun, CheckQuota, CreateRun, CreateRefused, CancelQueued,
       QueueWaiting, NewQuotaWindow, ResetQuota, ForgetUsage
  <1>2. CASE Sessions \/ UNCHANGED pvars
    BY <1>2 DEF Sessions, DropUserSession, DropPersonalSlot, pvars
  <1>3. ASSUME NEW w \in Workers, PStep(w) PROVE Stays \/ Publishes
    <2>1. CASE NothingToRun(w) \/ ClaimRun(w) \/ AcquireUser(w) \/ UserBusy(w)
                 \/ TakeSlot(w)
      BY <1>0, <2>1 DEF NothingToRun, ClaimRun, AcquireUser, UserBusy, TakeSlot
    <2>2. CASE SlotBusy(w) \/ MarkPersonalRunning(w) \/ BuildUserModels(w)
      BY <1>0, <2>2 DEF SlotBusy, MarkPersonalRunning, BuildUserModels
    <2>3. CASE MarkPersonalCompleted(w) \/ UnlockUser(w) \/ RequeueRun(w) \/ FailRun(w)
                 \/ MarkPersonalFailed(w)
      BY <1>0, <2>3 DEF MarkPersonalCompleted, UnlockUser, RequeueRun, FailRun,
         MarkPersonalFailed
    <2>4. ASSUME NEW matched \in SUBSET Jobs, NEW inactive \in SUBSET Jobs,
                 PublishResults(w, matched, inactive)
          PROVE  Stays \/ Publishes
      <3>1. CASE w = v
        BY <2>4, <3>1
      <3>2. CASE w # v
        BY <1>0, <2>4, <3>2 DEF PublishResults
      <3> QED
        BY <3>1, <3>2
    <2> QED
      BY <1>3, <2>1, <2>2, <2>3, <2>4 DEF PStep
  <1>4. ASSUME NEW w \in Workers, Surroundings(w) PROVE Stays
    BY <1>0, <1>4 DEF Surroundings, StartTurn, RestartIdle, GlobalFreesSlot, CrashInRun,
       RaiseInRun, GlobalRaises, GlobalTakesSlot
  <1> QED
    BY <1>1, <1>2, <1>3, <1>4, NextCases

LEMMA ShownNext ==
  TypeInv /\ OwnInv /\ LockInv /\ ShownInv /\ [Next]_pvars => ShownInv'
  <1> SUFFICES ASSUME TypeInv, OwnInv, LockInv, ShownInv, [Next]_pvars,
                      NEW v \in Workers, ppc'[v] = "mark_completed"
               PROVE  lastRun'[prun'[holds'[v]].user] = holds'[v]
    BY DEF ShownInv
  <1>1. ASSUME ppc[v] = "mark_completed", holds'[v] = holds[v]
        PROVE  lastRun'[prun'[holds'[v]].user] = holds'[v]
    <2>1. /\ ppc[v] \in InUserLock /\ lastRun[prun[holds[v]].user] = holds[v]
          /\ holds[v] \in PRuns /\ prun[holds[v]].user \in Users
          /\ prun'[holds[v]].user = prun[holds[v]].user
      BY <1>1, InLockHolds DEF ShownInv, InUserLock
    <2>2. ASSUME NEW w \in Workers, NEW matched, NEW inactive,
                 PublishResults(w, matched, inactive)
          PROVE  lastRun'[prun'[holds'[v]].user] = holds'[v]
      <3>1. /\ ppc[w] = "publish" /\ ppc[w] \in InUserLock
            /\ lastRun' = [lastRun EXCEPT ![prun[holds[w]].user] = holds[w]]
        BY <2>2, PublicationTable DEF PublishResults, InUserLock, InSlot
      <3>2. prun[holds[v]].user # prun[holds[w]].user
        BY <1>1, <2>1, <3>1 DEF LockInv
      <3> QED
        BY <1>1, <2>1, <3>1, <3>2 DEF TypeInv, TypeOK
    <2> QED
      BY <1>1, <2>1, <2>2, TableSteps
  <1>2. ASSUME NEW matched, NEW inactive, PublishResults(v, matched, inactive)
        PROVE  lastRun'[prun'[holds'[v]].user] = holds'[v]
    <2>1. /\ holds[v] \in PRuns /\ prun'[holds[v]].user = prun[holds[v]].user
          /\ lastRun' = [lastRun EXCEPT ![prun[holds[v]].user] = holds[v]]
      BY <1>2, PublicationTable DEF Published
    <2>2. holds'[v] = holds[v]
      BY <1>2 DEF PublishResults, plocals
    <2> QED
      BY <2>1, <2>2 DEF TypeInv, TypeOK, Row
  <1> QED
    BY <1>1, <1>2, MarksCompleted

-----------------------------------------------------------------------------
(* The daily quota *)

Counted(u) == {p \in OfUser(u) : prun[p].status = "completed" /\ prun[p].counts}

LEMMA QuotaInit == Init => QuotaOverrunBounded
  <1> SUFFICES ASSUME Init, NEW u \in Users
               PROVE  Used(u) + Cardinality(ActiveOf(u)) + Cardinality(Admitted(u))
                        <= DailyLimit + Cardinality(Clients)
    BY DEF QuotaOverrunBounded
  <1>1. OfUser(u) = {} /\ Admitted(u) = {}
    BY DEF Init, NewRow, NoRequest, OfUser, Absent, Admitted
  <1>2. Counted(u) = {} /\ ActiveOf(u) = {}
    BY <1>1 DEF Counted, ActiveOf
  <1>3. Cardinality(Clients) \in Nat
    BY PersonalAssumption, FS_CardinalityType
  <1> QED
    BY <1>1, <1>2, <1>3, FS_EmptySet, PersonalAssumption DEF Used, Counted

LEMMA SingletonSize ==
  ASSUME NEW x
  PROVE  IsFiniteSet({x}) /\ Cardinality({x}) = 1
  BY FS_Singleton

(* Of a user at most one row is active. *)
LEMMA OneActive ==
  ASSUME TypeInv, RowInv, NEW u \in Users
  PROVE  /\ IsFiniteSet(ActiveOf(u))
         /\ Cardinality(ActiveOf(u)) <= 1
  <1>1. ASSUME NEW p \in ActiveOf(u), NEW q \in ActiveOf(u)
        PROVE  p = q
    <2>1. /\ p \in PRuns /\ q \in PRuns /\ ~Absent(p) /\ ~Absent(q)
          /\ prun[p].user = prun[q].user
          /\ prun[p].status \notin Final /\ prun[q].status \notin Final
      BY DEF ActiveOf, OfUser, ActiveStatus, Final
    <2>2. ~(p < q) /\ ~(q < p)
      BY <2>1 DEF RowInv, OnlyLastActive
    <2> QED
      BY <2>1, <2>2, PersonalAssumption DEF PRuns
  <1>2. ActiveOf(u) = {} \/ \E p : ActiveOf(u) = {p}
    BY <1>1
  <1>3. CASE ActiveOf(u) = {}
    BY <1>3, FS_EmptySet
  <1>4. ASSUME NEW p, ActiveOf(u) = {p}
        PROVE  /\ IsFiniteSet(ActiveOf(u))
               /\ Cardinality(ActiveOf(u)) <= 1
    BY <1>4, SingletonSize
  <1> QED
    BY <1>2, <1>3, <1>4

LEMMA QuotaFinite ==
  ASSUME NEW u \in Users
  PROVE  /\ IsFiniteSet(Counted(u)) /\ Used(u) \in Nat
         /\ IsFiniteSet(Admitted(u)) /\ Cardinality(Admitted(u)) \in Nat
         /\ Cardinality(Admitted(u)) <= Cardinality(Clients)
         /\ Cardinality(Clients) \in Nat
  <1>1. IsFiniteSet(PRuns)
    BY FS_Interval, PersonalAssumption DEF PRuns
  <1>2. Counted(u) \in SUBSET PRuns /\ Admitted(u) \in SUBSET Clients
    BY DEF Counted, OfUser, Admitted
  <1>3. IsFiniteSet(Counted(u)) /\ IsFiniteSet(Admitted(u))
    BY <1>1, <1>2, FS_Subset, PersonalAssumption
  <1>4. Cardinality(Admitted(u)) <= Cardinality(Clients)
    BY <1>2, FS_Subset, PersonalAssumption
  <1> QED
    BY <1>3, <1>4, FS_CardinalityType, PersonalAssumption DEF Used, Counted

(* The four ways in which a step changes what the bound counts. *)
Fewer(u) ==
  /\ Counted(u)' \subseteq Counted(u)
  /\ ActiveOf(u)' \subseteq ActiveOf(u)
  /\ Admitted(u)' \subseteq Admitted(u)

Admits(u) ==
  /\ Used(u) < DailyLimit
  /\ Counted(u)' \subseteq Counted(u)
  /\ ActiveOf(u)' \subseteq ActiveOf(u)

Creates(u, p, c) ==
  /\ Counted(u)' \subseteq Counted(u)
  /\ ActiveOf(u)' \subseteq {p}
  /\ c \in Admitted(u)
  /\ Admitted(u)' \subseteq Admitted(u) \ {c}

Completes(u, p) ==
  /\ Counted(u)' \subseteq Counted(u) \union {p}
  /\ p \in ActiveOf(u)
  /\ ActiveOf(u)' \subseteq ActiveOf(u) \ {p}
  /\ Admitted(u)' \subseteq Admitted(u)

LEMMA Smaller ==
  ASSUME NEW S, IsFiniteSet(S), NEW T, T \subseteq S
  PROVE  IsFiniteSet(T) /\ Cardinality(T) \in Nat /\ Cardinality(S) \in Nat
           /\ Cardinality(T) <= Cardinality(S)
  BY FS_Subset, FS_CardinalityType

LEMMA QuotaSum ==
  ASSUME TypeInv, RowInv, QuotaOverrunBounded, NEW u \in Users,
         Fewer(u) \/ Admits(u) \/ (\E p, c : Creates(u, p, c)) \/ \E p : Completes(u, p)
  PROVE  Used(u)' + Cardinality(ActiveOf(u)') + Cardinality(Admitted(u)')
           <= DailyLimit + Cardinality(Clients)
  <1> DEFINE U == Counted(u)
  <1> DEFINE A == ActiveOf(u)
  <1> DEFINE D == Admitted(u)
  <1> DEFINE V == Counted(u)'
  <1> DEFINE B == ActiveOf(u)'
  <1> DEFINE E == Admitted(u)'
  <1>1. /\ Used(u) = Cardinality(U) /\ Used(u)' = Cardinality(V)
        /\ Cardinality(U) + Cardinality(A) + Cardinality(D)
             <= DailyLimit + Cardinality(Clients)
        /\ DailyLimit \in Nat
    BY PersonalAssumption DEF Used, Counted, QuotaOverrunBounded
  <1>2. IsFiniteSet(U) /\ IsFiniteSet(A) /\ IsFiniteSet(D) /\ Cardinality(A) <= 1
    BY QuotaFinite, OneActive
  <1>3. Cardinality(Clients) \in Nat /\ E \subseteq Clients /\ IsFiniteSet(Clients)
    BY QuotaFinite, PersonalAssumption DEF Admitted
  <1>4. /\ Cardinality(U) \in Nat /\ Cardinality(A) \in Nat /\ Cardinality(D) \in Nat
    BY <1>2, FS_CardinalityType
  <1>5. Fewer(u) => V \subseteq U /\ B \subseteq A /\ E \subseteq D
    BY DEF Fewer
  <1>6. Admits(u) => V \subseteq U /\ B \subseteq A /\ Cardinality(U) < DailyLimit
    BY <1>1 DEF Admits
  <1>7. ASSUME NEW p, NEW c, Creates(u, p, c)
        PROVE  V \subseteq U /\ B \subseteq {p} /\ c \in D /\ E \subseteq D \ {c}
    BY <1>7 DEF Creates
  <1>8. ASSUME NEW p, Completes(u, p)
        PROVE  V \subseteq U \union {p} /\ p \in A /\ B \subseteq A \ {p} /\ E \subseteq D
    BY <1>8 DEF Completes
  <1> HIDE DEF U, A, D, V, B, E
  <1>9. CASE Fewer(u)
    <2>1. /\ Cardinality(V) <= Cardinality(U) /\ Cardinality(V) \in Nat
          /\ Cardinality(B) <= Cardinality(A) /\ Cardinality(B) \in Nat
          /\ Cardinality(E) <= Cardinality(D) /\ Cardinality(E) \in Nat
      BY <1>9, <1>2, <1>5, Smaller
    <2>2. Cardinality(V) + Cardinality(B) + Cardinality(E)
            <= DailyLimit + Cardinality(Clients)
      BY <2>1, <1>1, <1>3, <1>4
    <2> QED
      BY <2>2, <1>1 DEF B, E
  <1>10. CASE Admits(u)
    <2>1. /\ Cardinality(V) <= Cardinality(U) /\ Cardinality(V) \in Nat
          /\ Cardinality(B) <= Cardinality(A) /\ Cardinality(B) \in Nat
          /\ Cardinality(E) <= Cardinality(Clients) /\ Cardinality(E) \in Nat
      BY <1>10, <1>2, <1>3, <1>6, Smaller
    <2>2. Cardinality(V) + Cardinality(B) + Cardinality(E)
            <= DailyLimit + Cardinality(Clients)
      BY <2>1, <1>10, <1>1, <1>2, <1>3, <1>4, <1>6
    <2> QED
      BY <2>2, <1>1 DEF B, E
  <1>11. ASSUME NEW p, NEW c, Creates(u, p, c)
         PROVE  Used(u)' + Cardinality(ActiveOf(u)') + Cardinality(Admitted(u)')
                  <= DailyLimit + Cardinality(Clients)
    <2>1. /\ Cardinality(V) <= Cardinality(U) /\ Cardinality(V) \in Nat
      BY <1>11, <1>2, <1>7, Smaller
    <2>2. Cardinality(B) <= 1 /\ Cardinality(B) \in Nat
      <3>1. /\ Cardinality(B) <= Cardinality({p}) /\ Cardinality(B) \in Nat
        BY <1>11, <1>7, Smaller, SingletonSize
      <3> QED
        BY <3>1, SingletonSize
    <2>3. IsFiniteSet(D \ {c}) /\ Cardinality(D \ {c}) = Cardinality(D) - 1
      BY <1>11, <1>2, <1>7, FS_RemoveElement
    <2>4. Cardinality(E) <= Cardinality(D) - 1 /\ Cardinality(E) \in Nat
      BY <2>3, <1>11, <1>7, Smaller
    <2>5. Cardinality(V) + Cardinality(B) + Cardinality(E)
            <= DailyLimit + Cardinality(Clients)
      BY <2>1, <2>2, <2>4, <1>1, <1>3, <1>4
    <2> QED
      BY <2>5, <1>1 DEF B, E
  <1>12. ASSUME NEW p, Completes(u, p)
         PROVE  Used(u)' + Cardinality(ActiveOf(u)') + Cardinality(Admitted(u)')
                  <= DailyLimit + Cardinality(Clients)
    <2>1. /\ IsFiniteSet(U \union {p})
          /\ Cardinality(U \union {p}) <= Cardinality(U) + 1
          /\ Cardinality(U \union {p}) \in Nat
      <3>1. /\ IsFiniteSet(U \union {p})
            /\ Cardinality(U \union {p}) = IF p \in U THEN Cardinality(U) ELSE Cardinality(U) + 1
        BY <1>2, FS_AddElement
      <3> QED
        BY <3>1, <1>4
    <2>2. Cardinality(V) <= Cardinality(U) + 1 /\ Cardinality(V) \in Nat
      <3>1. Cardinality(V) <= Cardinality(U \union {p}) /\ Cardinality(V) \in Nat
        BY <2>1, <1>12, <1>8, Smaller
      <3> QED
        BY <3>1, <2>1, <1>4
    <2>3. IsFiniteSet(A \ {p}) /\ Cardinality(A \ {p}) = Cardinality(A) - 1
      BY <1>12, <1>2, <1>8, FS_RemoveElement
    <2>4. Cardinality(B) <= Cardinality(A) - 1 /\ Cardinality(B) \in Nat
      BY <2>3, <1>12, <1>8, Smaller
    <2>5. Cardinality(E) <= Cardinality(D) /\ Cardinality(E) \in Nat
      BY <1>12, <1>2, <1>8, Smaller
    <2>6. Cardinality(V) + Cardinality(B) + Cardinality(E)
            <= DailyLimit + Cardinality(Clients)
      BY <2>2, <2>4, <2>5, <1>1, <1>3, <1>4
    <2> QED
      BY <2>6, <1>1 DEF B, E
  <1> QED
    BY <1>9, <1>10, <1>11, <1>12

CountsFall == \A p \in PRuns : ~Absent(p) /\ prun'[p].counts => prun[p].counts

LEMMA CountsOnlyFall ==
  ASSUME TypeInv, NEW w \in Workers, PStep(w)
  PROVE  CountsFall /\ UNCHANGED req
  <1> USE DEF ptables
  <1>1. ASSUME NEW p \in PRuns, NEW s \in Status, prun' = [prun EXCEPT ![p].status = s]
        PROVE  CountsFall
    BY <1>1 DEF CountsFall, TypeInv, TypeOK, Row
  <1>2. CASE ClaimRun(w)
    BY <1>1, <1>2 DEF ClaimRun, PQueued, Status
  <1>3. CASE NothingToRun(w) \/ AcquireUser(w) \/ UserBusy(w) \/ TakeSlot(w)
               \/ SlotBusy(w) \/ MarkPersonalRunning(w) \/ BuildUserModels(w)
               \/ MarkPersonalCompleted(w) \/ UnlockUser(w) \/ MarkPersonalFailed(w)
    BY <1>3 DEF NothingToRun, AcquireUser, UserBusy, TakeSlot, SlotBusy,
       MarkPersonalRunning, BuildUserModels, MarkPersonalCompleted, UnlockUser,
       MarkPersonalFailed, CountsFall
  <1>row. ppc[w] \in {"requeue", "fail"} => holds[w] \in PRuns
    BY LabelFacts DEF TypeInv, TypeOK, Holding
  <1>4. CASE RequeueRun(w)
    BY <1>1, <1>4, <1>row DEF RequeueRun, Status
  <1>5. CASE FailRun(w)
    <2>1. prun' = prun \/ prun' = [prun EXCEPT ![holds[w]].status = "failed"]
      BY <1>5 DEF FailRun
    <2>2. prun' = prun => CountsFall
      BY DEF CountsFall
    <2>3. holds[w] \in PRuns /\ UNCHANGED req
      BY <1>5, <1>row DEF FailRun
    <2> QED
      BY <1>1, <2>1, <2>2, <2>3 DEF Status
  <1>6. ASSUME NEW matched, NEW inactive, PublishResults(w, matched, inactive)
        PROVE  CountsFall /\ UNCHANGED req
    <2>1. \A q \in PRuns : prun'[q].counts = prun[q].counts
      BY <1>6 DEF PublishResults, CompletedAndCurrent, TypeInv, TypeOK, Row
    <2> QED
      BY <1>6, <2>1 DEF PublishResults, CountsFall
  <1> QED
    BY <1>2, <1>3, <1>4, <1>5, <1>6 DEF PStep

LEMMA FewerWhen ==
  ASSUME TypeInv, NEW u \in Users, CountsFall, Stepped \/ \E p \in PRuns : Bound(p)
  PROVE  Counted(u)' \subseteq Counted(u) /\ ActiveOf(u)' \subseteq ActiveOf(u)
  <1>1. \A q \in PRuns :
          /\ ~Absent(q)' => ~Absent(q) /\ prun'[q].user = prun[q].user
          /\ prun'[q].status = "completed" => prun[q].status = "completed"
          /\ prun'[q].status \in ActiveStatus => prun[q].status \in ActiveStatus
    BY DEF Stepped, Same, Moved, Bound, OthersSame, Absent, ActiveStatus
  <1>2. OfUser(u)' \subseteq OfUser(u)
    BY <1>1 DEF OfUser
  <1>3. Counted(u)' \subseteq Counted(u)
    BY <1>1, <1>2 DEF Counted, OfUser, CountsFall
  <1>4. ActiveOf(u)' \subseteq ActiveOf(u)
    BY <1>1, <1>2 DEF ActiveOf, OfUser
  <1> QED
    BY <1>3, <1>4

LEMMA QuotaPublish ==
  ASSUME TypeInv, NEW w \in Workers, NEW matched, NEW inactive,
         PublishResults(w, matched, inactive), NEW u \in Users
  PROVE  Fewer(u) \/ \E p : Completes(u, p)
  <1> DEFINE p == holds[w]
  <1>1. p \in PRuns /\ Published(p)
    BY PublicationTable
  <1>2. CountsFall /\ Admitted(u)' = Admitted(u)
    BY CountsOnlyFall DEF PublishResults, PStep, CompletedAndCurrent, Admitted, CountsFall,
       TypeInv, TypeOK, Row
  <1> HIDE DEF p
  <1>3. \A q \in PRuns :
          /\ ~Absent(q)' => ~Absent(q) /\ prun'[q].user = prun[q].user
          /\ q # p => prun'[q].status = prun[q].status
    BY <1>1 DEF Published, Absent
  <1>4. /\ prun[p].status = "running" /\ prun'[p].status = "completed"
        /\ ~Absent(p)
    BY <1>1 DEF Published, Absent
  <1>5. /\ Counted(u)' \subseteq Counted(u) \union ({p} \cap OfUser(u))
        /\ ActiveOf(u)' \subseteq ActiveOf(u) \ {p}
    BY <1>2, <1>3, <1>4 DEF Counted, OfUser, ActiveOf, CountsFall, ActiveStatus
  <1>6. p \in OfUser(u) => p \in ActiveOf(u)
    BY <1>4 DEF ActiveOf, ActiveStatus
  <1> QED
    BY <1>2, <1>5, <1>6 DEF Fewer, Completes

LEMMA QuotaRequests ==
  ASSUME TypeInv, Requests, NEW u \in Users
  PROVE  Fewer(u) \/ Admits(u) \/ \E p, c : Creates(u, p, c)
  <1> USE DEF ptables, TypeInv, TypeOK
  <1>same. UNCHANGED prun => /\ Counted(u)' = Counted(u) /\ ActiveOf(u)' = ActiveOf(u)
    BY DEF Counted, ActiveOf, OfUser, Absent
  <1>1. ASSUME NEW c \in Clients, NEW x \in Users, NEW s \in Sources \union {0},
               SubmitRun(c, x, s)
        PROVE  Fewer(u)
    <2>1. Admitted(u)' \subseteq Admitted(u) /\ UNCHANGED prun
      BY <1>1 DEF SubmitRun, Admitted
    <2> QED
      BY <1>same, <2>1 DEF Fewer
  <1>2. ASSUME NEW c \in Clients, CheckQuota(c)
        PROVE  Fewer(u) \/ Admits(u)
    <2>1. CASE Used(req[c].user) < DailyLimit /\ req[c].user = u
      BY <1>2, <2>1, <1>same DEF CheckQuota, Admits
    <2>2. CASE ~(Used(req[c].user) < DailyLimit /\ req[c].user = u)
      <3>1. Admitted(u)' \subseteq Admitted(u) /\ UNCHANGED prun
        BY <1>2, <2>2 DEF CheckQuota, Admitted, NoRequest, Request
      <3> QED
        BY <1>same, <3>1 DEF Fewer
    <2> QED
      BY <2>1, <2>2
  <1>3. ASSUME NEW c \in Clients, CreateRun(c)
        PROVE  Fewer(u) \/ \E p : Creates(u, p, c)
    <2> DEFINE row == NewRun(req[c].user, req[c].source)
    <2>1. PICK p \in PRuns : InsertRow(p, row)
      BY <1>3 DEF CreateRun
    <2>2. row.user = req[c].user /\ row.status # "completed" /\ row.status # "absent"
      BY DEF NewRun, NewRow
    <2> HIDE DEF row
    <2>3. /\ prun'[p] = row /\ Absent(p)
          /\ \A q \in PRuns \ {p} : prun'[q] = prun[q]
          /\ ActiveOf(row.user) = {}
      BY <2>1 DEF InsertRow
    <2>4. /\ req[c].at = "insert" /\ req'[c].at = "idle"
          /\ \A d \in Clients \ {c} : req'[d] = req[d]
      BY <1>3 DEF CreateRun, NoRequest
    <2>5. Counted(u)' \subseteq Counted(u)
      BY <2>2, <2>3 DEF Counted, OfUser, Absent
    <2>6. Admitted(u)' \subseteq Admitted(u) \ {c}
      BY <2>4 DEF Admitted
    <2>7. CASE req[c].user = u
      <3>1. c \in Admitted(u)
        BY <2>4, <2>7 DEF Admitted
      <3>2. ActiveOf(u)' \subseteq {p}
        BY <2>2, <2>3, <2>7 DEF ActiveOf, OfUser, Absent
      <3> QED
        BY <2>5, <2>6, <3>1, <3>2 DEF Creates
    <2>8. CASE req[c].user # u
      <3>1. ActiveOf(u)' \subseteq ActiveOf(u)
        BY <2>2, <2>3, <2>8 DEF ActiveOf, OfUser, Absent
      <3> QED
        BY <2>5, <2>6, <3>1 DEF Fewer
    <2> QED
      BY <2>7, <2>8
  <1>4. ASSUME NEW c \in Clients, CreateRefused(c)
        PROVE  Fewer(u)
    <2>1. Admitted(u)' \subseteq Admitted(u) /\ UNCHANGED prun
      BY <1>4 DEF CreateRefused, Admitted, NoRequest
    <2> QED
      BY <1>same, <2>1 DEF Fewer
  <1>5. ASSUME NEW p \in PRuns, CancelQueued(p) \/ \E s \in Sources : QueueWaiting(p, s)
        PROVE  Fewer(u)
    <2>1. UNCHANGED req /\ CountsFall
      BY <1>5 DEF CancelQueued, QueueWaiting, CountsFall, Row
    <2>2. Stepped \/ Bound(p)
      BY <1>5, MovesTo, PersonalAssumption
      DEF CancelQueued, QueueWaiting, Moved, Status, Stepped, Bound, Row, OthersSame, Same
    <2>3. Admitted(u)' = Admitted(u)
      BY <2>1 DEF Admitted
    <2> QED
      BY <2>1, <2>2, <2>3, FewerWhen DEF Fewer
  <1>6. ASSUME NEW us, ForgetUsage(us)
        PROVE  Fewer(u)
    <2>1. /\ UNCHANGED req /\ CountsFall
          /\ \A q \in PRuns : Same(q)
      BY <1>6 DEF ForgetUsage, CountsFall, Same, Row
    <2>2. Admitted(u)' = Admitted(u)
      BY <2>1 DEF Admitted
    <2> QED
      BY <2>1, <2>2, FewerWhen DEF Fewer, Stepped
  <1> QED
    BY <1>1, <1>2, <1>3, <1>4, <1>5, <1>6 DEF Requests, NewQuotaWindow, ResetQuota

LEMMA QuotaNext ==
  TypeInv /\ RowInv /\ QuotaOverrunBounded /\ [Next]_pvars => QuotaOverrunBounded'
  <1> SUFFICES ASSUME TypeInv, RowInv, QuotaOverrunBounded, [Next]_pvars, NEW u \in Users
               PROVE  Used(u)' + Cardinality(ActiveOf(u)') + Cardinality(Admitted(u)')
                        <= DailyLimit + Cardinality(Clients)
    BY DEF QuotaOverrunBounded
  <1>1. CASE Requests
    BY <1>1, QuotaRequests, QuotaSum
  <1>2. ASSUME NEW w \in Workers, PStep(w)
        PROVE  Fewer(u) \/ \E p : Completes(u, p)
    <2>1. CASE Stepped
      <3>1. CountsFall /\ Admitted(u)' = Admitted(u)
        BY <1>2, CountsOnlyFall DEF Admitted
      <3> QED
        BY <2>1, <3>1, FewerWhen DEF Fewer
    <2>2. CASE \E matched, inactive \in SUBSET Jobs : PublishResults(w, matched, inactive)
      BY <2>2, QuotaPublish
    <2> QED
      BY <1>2, <2>1, <2>2, WorkerTable
  <1>3. CASE (\E w \in Workers : Surroundings(w)) \/ Sessions \/ UNCHANGED pvars
    <2>1. UNCHANGED <<prun, req>>
      BY <1>3 DEF Surroundings, Sessions, StartTurn, RestartIdle, GlobalFreesSlot,
         CrashInRun, RaiseInRun, GlobalRaises, GlobalTakesSlot, DropUserSession,
         DropPersonalSlot, pvars, ptables
    <2>2. Fewer(u)
      BY <2>1 DEF Fewer, Counted, ActiveOf, OfUser, Absent, Admitted
    <2> QED
      BY <2>2, QuotaSum
  <1> QED
    BY <1>1, <1>2, <1>3, QuotaSum, NextCases

(* However requests and workers interleave, the limit is overrun by at     *)
(* most one run for each request under way.                                *)
THEOREM QuotaOverrunBoundedAlways == Spec => []QuotaOverrunBounded
  BY QuotaInit, QuotaNext, TypeInit, TypeNext, RowInit, RowNext, PTL DEF Spec
=============================================================================
