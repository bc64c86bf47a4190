-------------------------- MODULE QuotaWindowProofs --------------------------
(***************************************************************************)
(* Theorems about QuotaWindow, for any hours of the two changes of the     *)
(* clock that are a day apart, any instants, limit and finite set of       *)
(* requests.                                                               *)
(***************************************************************************)
EXTENDS QuotaWindow, FiniteSetTheorems, TLAPS

-----------------------------------------------------------------------------
(* The window *)

(* 6 AM of day k in UTC, given the days a and b of the changes. *)
LEMMA Days ==
  \E a, b \in Int : /\ Spring = 24 * a + 2 - Standard
                    /\ Fall = 24 * b + 1 - Standard
                    /\ a < b
  <1> DEFINE a == (Spring + Standard) \div 24
             b == (Fall + Standard + 1) \div 24
  <1>1. a \in Int /\ b \in Int
    BY QuotaAssumption
  <1>2. Spring = 24 * a + 2 - Standard /\ Fall = 24 * b + 1 - Standard
    BY QuotaAssumption
  <1>3. a < b
    BY <1>1, <1>2, QuotaAssumption
  <1> QED
    BY <1>1, <1>2, <1>3

SixAM(k) == ToUTC(24 * k + 6)

LEMMA SixAMIs ==
  ASSUME NEW k \in Int
  PROVE  /\ SixAM(k) \in Int
         /\ SixAM(k) + Offset(SixAM(k)) = 24 * k + 6
         /\ SixAM(k) < SixAM(k + 1)
  <1>1. PICK a \in Int, b \in Int : /\ Spring = 24 * a + 2 - Standard
                                    /\ Fall = 24 * b + 1 - Standard
                                    /\ a < b
    BY Days
  <1> QED
    BY <1>1, QuotaAssumption DEF SixAM, ToUTC, OffsetOf, Offset

(* From one 6 AM to the next the wall clock shows the times in between,    *)
(* except that it skips an hour or shows one twice.                        *)
LEMMA Between ==
  ASSUME NEW k \in Int, NEW t \in Int
  PROVE  SixAM(k) <= t /\ t < SixAM(k + 1)
           <=> 24 * k + 6 <= t + Offset(t) /\ t + Offset(t) < 24 * k + 30
  <1>1. PICK a \in Int, b \in Int : /\ Spring = 24 * a + 2 - Standard
                                    /\ Fall = 24 * b + 1 - Standard
                                    /\ a < b
    BY Days
  <1> QED
    BY <1>1, QuotaAssumption DEF SixAM, ToUTC, OffsetOf, Offset

Day(t) == (t + Offset(t) - 6) \div 24

LEMMA DayIs ==
  ASSUME NEW t \in Int
  PROVE  /\ Day(t) \in Int
         /\ Window(t) = [start |-> SixAM(Day(t)), end |-> SixAM(Day(t) + 1)]
         /\ SixAM(Day(t)) <= t /\ t < SixAM(Day(t) + 1)
  <1> DEFINE wall == t + Offset(t)
             six == (wall \div 24) * 24 + ResetHour
             start == IF wall < six THEN six - 24 ELSE six
  <1>1. Offset(t) \in Int /\ wall \in Int
    BY QuotaAssumption DEF Offset
  <1>2. /\ wall \div 24 \in Int
        /\ 24 * (wall \div 24) <= wall /\ wall < 24 * (wall \div 24) + 24
        /\ Day(t) \in Int
        /\ 24 * Day(t) <= wall - 6 /\ wall - 6 < 24 * Day(t) + 24
    <2> HIDE DEF wall
    <2>1. Day(t) = (wall - 6) \div 24
      BY <1>1 DEF Day, wall
    <2> QED
      BY <1>1, <2>1
  <1>6. start = 24 * Day(t) + 6
    BY <1>1, <1>2 DEF ResetHour
  <1>3. 24 * Day(t) + 6 <= wall /\ wall < 24 * Day(t) + 30
    BY <1>1, <1>2
  <1>4. start + 24 = 24 * (Day(t) + 1) + 6
    BY <1>2, <1>6
  <1>5. Window(t) = [start |-> ToUTC(start), end |-> ToUTC(start + 24)]
    BY DEF Window
  <1> QED
    BY <1>2, <1>3, <1>4, <1>5, <1>6, Between DEF SixAM

LEMMA LocalDay ==
  ASSUME NEW t \in Int
  PROVE  LET w == Window(t) IN
         /\ IsSixAM(w.start) /\ w.start <= t
         /\ IsSixAM(w.end) /\ t < w.end
         /\ \A s \in w.start + 1 .. w.end - 1 : ~IsSixAM(s)
  <1> DEFINE k == Day(t)
  <1>1. /\ k \in Int /\ k + 1 \in Int
        /\ Window(t).start = SixAM(k) /\ Window(t).end = SixAM(k + 1)
        /\ SixAM(k) <= t /\ t < SixAM(k + 1)
    BY DayIs
  <1>2. ASSUME NEW i \in Int PROVE IsSixAM(SixAM(i))
    BY SixAMIs DEF IsSixAM
  <1>3. ASSUME NEW s \in SixAM(k) + 1 .. SixAM(k + 1) - 1 PROVE ~IsSixAM(s)
    <2>1. SixAM(k) \in Int /\ SixAM(k + 1) \in Int
      BY <1>1, SixAMIs
    <2>2. s \in Int /\ SixAM(k) <= s /\ s < SixAM(k + 1) /\ s # SixAM(k)
      BY <2>1
    <2>3. 24 * k + 6 <= s + Offset(s) /\ s + Offset(s) < 24 * k + 30
      BY <1>1, <2>2, Between
    <2>4. s + Offset(s) # 24 * k + 6
      <3>1. PICK a \in Int, b \in Int : /\ Spring = 24 * a + 2 - Standard
                                        /\ Fall = 24 * b + 1 - Standard
                                        /\ a < b
        BY Days
      <3> QED
        BY <1>1, <2>2, <3>1, QuotaAssumption DEF SixAM, ToUTC, OffsetOf, Offset
    <2>5. s + Offset(s) \in Int
      BY <2>2, QuotaAssumption DEF Offset
    <2> QED
      BY <1>1, <2>3, <2>4, <2>5 DEF IsSixAM
  <1> QED
    BY <1>1, <1>2, <1>3

LEMMA Later ==
  ASSUME NEW i \in Int, NEW j \in Int, i < j
  PROVE  SixAM(i) < SixAM(j) /\ SixAM(i) \in Int /\ SixAM(j) \in Int
  BY QuotaAssumption DEF SixAM, ToUTC, OffsetOf

(* One window follows another without a gap. *)
LEMMA Windows ==
  ASSUME NEW t \in Int, NEW s \in Int, t <= s
  PROVE  /\ Window(t).start \in Int /\ Window(t).end \in Int
         /\ Window(t).start <= t /\ t < Window(t).end
         /\ s < Window(t).end => Window(s) = Window(t)
         /\ s >= Window(t).end => Window(s).start >= Window(t).end
  <1> DEFINE i == Day(t)
             j == Day(s)
  <1>1. /\ i \in Int /\ i + 1 \in Int /\ j \in Int /\ j + 1 \in Int
        /\ Window(t) = [start |-> SixAM(i), end |-> SixAM(i + 1)]
        /\ Window(s) = [start |-> SixAM(j), end |-> SixAM(j + 1)]
        /\ SixAM(i) <= t /\ t < SixAM(i + 1)
        /\ SixAM(j) <= s /\ s < SixAM(j + 1)
    BY DayIs
  <1>2. /\ SixAM(i) \in Int /\ SixAM(i + 1) \in Int
        /\ SixAM(j) \in Int /\ SixAM(j + 1) \in Int
    BY <1>1, SixAMIs
  <1>3. j + 1 < i + 1 => SixAM(j + 1) < SixAM(i + 1)
    BY <1>1, Later
  <1>4. j + 1 < i => SixAM(j + 1) < SixAM(i)
    BY <1>1, Later
  <1>5. i <= j
    BY <1>1, <1>2, <1>4
  <1>6. i + 1 < j => SixAM(i + 1) < SixAM(j)
    BY <1>1, Later
  <1>7. s < SixAM(i + 1) => i = j
    BY <1>1, <1>2, <1>5, <1>6
  <1>8. s >= SixAM(i + 1) => SixAM(j) >= SixAM(i + 1)
    BY <1>1, <1>2, <1>5, <1>6
  <1> QED
    BY <1>1, <1>2, <1>7, <1>8

-----------------------------------------------------------------------------
(* The rows *)

TimeInv ==
  /\ TypeOK
  /\ \A r \in Runs : run[r].at <= now
  /\ \A c \in Clients : req[c].began <= now
  /\ resetAt <= now
  /\ \A r, q \in Active : r = q

LEMMA TimeInit == Init => TimeInv
  BY QuotaAssumption
  DEF Init, TimeInv, TypeOK, Runs, Run, RunStatus, Request, NoRequest, Active

LEMMA TimeNext == TimeInv /\ [Next]_vars => TimeInv'
  <1> SUFFICES ASSUME TimeInv, [Next]_vars PROVE TimeInv'
    OBVIOUS
  <1> USE QuotaAssumption DEF TimeInv, TypeOK, Run, RunStatus, Request, NoRequest, Active
  <1>1. CASE Tick
    BY <1>1 DEF Tick
  <1>2. ASSUME NEW c \in Clients, Begin(c) PROVE TimeInv'
    BY <1>2 DEF Begin
  <1>3. ASSUME NEW c \in Clients, Count(c) \/ Refuse(c) PROVE TimeInv'
    BY <1>3 DEF Count, Refuse
  <1>4. ASSUME NEW c \in Clients, Insert(c) PROVE TimeInv'
    BY <1>4 DEF Insert
  <1>5. ASSUME NEW r \in Runs, End(r) PROVE TimeInv'
    BY <1>5 DEF End
  <1>6. CASE ResetQuota
    BY <1>6 DEF ResetQuota
  <1>7. CASE UNCHANGED vars
    BY <1>7 DEF vars
  <1> QED
    BY <1>1, <1>2, <1>3, <1>4, <1>5, <1>6, <1>7 DEF Next

(* Every variable keeps its type. *)
THEOREM TypeCorrect == Spec => []TypeOK
  <1>1. TimeInv => TypeOK
    BY DEF TimeInv
  <1> QED
    BY <1>1, TimeInit, TimeNext, PTL DEF Spec

(* pipeline_quota_window returns the day of New York that it is, from 6 AM *)
(* to 6 AM, also when the clocks change in it.                             *)
THEOREM WindowIsLocalDayAlways == Spec => []WindowIsLocalDay
  <1>1. TimeInv => WindowIsLocalDay
    BY QuotaAssumption, LocalDay DEF TimeInv, TypeOK, WindowIsLocalDay
  <1> QED
    BY <1>1, TimeInit, TimeNext, PTL DEF Spec

-----------------------------------------------------------------------------
(* The promise *)

LEMMA Finite ==
  ASSUME NEW S, S \subseteq Runs \/ S \subseteq Clients
  PROVE  IsFiniteSet(S) /\ Cardinality(S) \in Nat
  <1>1. IsFiniteSet(Runs) /\ IsFiniteSet(Clients)
    BY QuotaAssumption, FS_Interval DEF Runs
  <1> QED
    BY <1>1, FS_Subset, FS_CardinalityType

LEMMA Fewer ==
  ASSUME NEW S, NEW T, S \subseteq Runs \/ S \subseteq Clients, T \subseteq S
  PROVE  Cardinality(T) <= Cardinality(S)
  BY Finite, FS_Subset

LEMMA CountedRows == \A w : CountedIn(w) \subseteq Runs
  BY DEF CountedIn

LEMMA PromiseKept ==
  ASSUME TimeInv, [Next]_vars
  PROVE  IF now' >= ResetsAt THEN Used' = 0 ELSE Used' >= Used \/ resetAt' # resetAt
  <1> DEFINE w == Window(now)
  <1>1. now \in Int /\ now' \in Int /\ now <= now'
    BY TimeNext, QuotaAssumption DEF TimeInv, TypeOK, Next, vars, Tick, Begin, Count,
       Insert, Refuse, End, ResetQuota
  <1>2. /\ w.start \in Int /\ w.end \in Int /\ now < w.end
        /\ now' < w.end => Window(now') = w
        /\ now' >= w.end => Window(now').start >= w.end
        /\ Window(now').start \in Int
    BY <1>1, Windows
  <1>3. CASE now' >= w.end
    <2>1. Tick
      BY <1>2, <1>3, <1>1 DEF Next, vars, Begin, Count, Insert, Refuse, End, ResetQuota
    <2>2. \A r \in Runs : run'[r].at \in Int /\ run'[r].at < Window(now').start
      BY <1>1, <1>2, <1>3, <2>1 DEF Tick, TimeInv, TypeOK, Run
    <2>3. CountedIn(Window(now))' = {}
      BY <1>2, <2>2 DEF CountedIn
    <2> QED
      BY <1>3, <2>3, FS_EmptySet DEF Used, ResetsAt
  <1>4. CASE now' < w.end /\ resetAt' = resetAt
    <2>1. \A r \in CountedIn(w) : run'[r] = run[r]
      BY <1>4 DEF CountedIn, Next, vars, Tick, Begin, Count, Insert, Refuse, End,
         ResetQuota, TimeInv, TypeOK
    <2>2. CountedIn(w) \subseteq CountedIn(Window(now))'
      BY <1>2, <1>4, <2>1 DEF CountedIn
    <2>3. CountedIn(Window(now))' \subseteq Runs
      BY DEF CountedIn
    <2>4. Used' >= Used
      <3>1. Cardinality(CountedIn(w)) \in Nat /\ Cardinality(CountedIn(Window(now))') \in Nat
        BY <2>3, Finite, CountedRows
      <3> QED
        BY <2>2, <2>3, <3>1, Fewer DEF Used
    <2> QED
      BY <1>1, <1>2, <1>4, <2>4 DEF ResetsAt
  <1> QED
    BY <1>1, <1>2, <1>3, <1>4 DEF ResetsAt

(* The resets_at that quota_for_user reports is kept: from then on the     *)
(* allowance is whole, and earlier only an admin gives it back.            *)
THEOREM ResetsAsPromisedAlways == Spec => ResetsAsPromised
  <1>1. TimeInv /\ [Next]_vars =>
          [IF now' >= ResetsAt THEN Used' = 0
                               ELSE Used' >= Used \/ resetAt' # resetAt]_vars
    BY PromiseKept
  <1> QED
    BY <1>1, TimeInit, TimeNext, PTL DEF Spec, ResetsAsPromised

-----------------------------------------------------------------------------
(* The bound: what a day has and may still get, beside its limit *)

In(w, x) == x >= w.start /\ x >= resetAt /\ x < w.end

ActiveIn(w) == {r \in Runs : run[r].status = "active" /\ In(w, run[r].at)}
AdmittedIn(w) == {c \in Clients : req[c].at = "admitted" /\ In(w, req[c].began)}
BegunIn(w) == {c \in Clients : req[c].at = "begun" /\ In(w, req[c].began)}

Load(w) ==
  Cardinality(CountedIn(w)) + Cardinality(ActiveIn(w)) + Cardinality(AdmittedIn(w))

(* In the current window, and in each after the requests that began in it. *)
Within(w) ==
  /\ w = Window(now) => Load(w) <= DailyLimit + Cardinality(Clients)
  /\ Load(w) + Cardinality(BegunIn(w)) <= DailyLimit + 2 * Cardinality(Clients)

DayInv == \A t \in Instants : Within(Window(t))

LEMMA Sizes ==
  ASSUME TimeInv, NEW w
  PROVE  /\ Cardinality(CountedIn(w)) \in Nat
         /\ Cardinality(ActiveIn(w)) \in Nat
         /\ Cardinality(AdmittedIn(w)) \in Nat
         /\ Cardinality(BegunIn(w)) \in Nat
         /\ Cardinality(Clients) \in Nat
         /\ Cardinality(BegunIn(w)) <= Cardinality(Clients)
         /\ Cardinality(AdmittedIn(w)) <= Cardinality(Clients)
         /\ Cardinality(AdmittedIn(w)) + Cardinality(BegunIn(w)) <= Cardinality(Clients)
  <1>1. /\ CountedIn(w) \subseteq Runs /\ ActiveIn(w) \subseteq Runs
        /\ AdmittedIn(w) \subseteq Clients /\ BegunIn(w) \subseteq Clients
        /\ AdmittedIn(w) \intersect BegunIn(w) = {}
    BY DEF CountedIn, ActiveIn, AdmittedIn, BegunIn
  <1>2. /\ IsFiniteSet(AdmittedIn(w)) /\ Cardinality(AdmittedIn(w)) \in Nat
        /\ IsFiniteSet(BegunIn(w)) /\ Cardinality(BegunIn(w)) \in Nat
        /\ Cardinality(Clients) \in Nat
    BY <1>1, Finite
  <1>3. Cardinality(AdmittedIn(w) \union BegunIn(w)) =
          Cardinality(AdmittedIn(w)) + Cardinality(BegunIn(w))
    <2>1. Cardinality(AdmittedIn(w) \intersect BegunIn(w)) = 0
      BY <1>1, FS_EmptySet
    <2>2. Cardinality(AdmittedIn(w) \union BegunIn(w)) =
            Cardinality(AdmittedIn(w)) + Cardinality(BegunIn(w))
              - Cardinality(AdmittedIn(w) \intersect BegunIn(w))
      BY <1>2, FS_Union
    <2> QED
      BY <1>2, <2>1, <2>2
  <1>4. Cardinality(AdmittedIn(w) \union BegunIn(w)) <= Cardinality(Clients)
    BY <1>1, Fewer
  <1> QED
    BY <1>1, <1>2, <1>3, <1>4, Finite

LEMMA AddOne ==
  ASSUME NEW S, NEW T, NEW x, S \subseteq Runs \/ S \subseteq Clients,
         T \subseteq S \union {x}
  PROVE  /\ Cardinality(T) <= Cardinality(S) + 1
         /\ Cardinality(T) \in Nat
  <1>1. IsFiniteSet(S) /\ Cardinality(S) \in Nat
    BY Finite
  <1>2. IsFiniteSet(S \union {x}) /\ Cardinality(S \union {x}) <= Cardinality(S) + 1
    <2>1. /\ IsFiniteSet(S \union {x})
          /\ Cardinality(S \union {x}) =
               IF x \in S THEN Cardinality(S) ELSE Cardinality(S) + 1
      BY <1>1, FS_AddElement
    <2> QED
      BY <1>1, <2>1
  <1>3. IsFiniteSet(T) /\ Cardinality(T) <= Cardinality(S \union {x})
    BY <1>2, FS_Subset
  <1>4. Cardinality(T) \in Nat /\ Cardinality(S \union {x}) \in Nat
    BY <1>2, <1>3, FS_CardinalityType
  <1> QED
    BY <1>1, <1>2, <1>3, <1>4

LEMMA LoseOne ==
  ASSUME NEW S, NEW T, NEW x \in S, S \subseteq Runs \/ S \subseteq Clients,
         T \subseteq S \ {x}
  PROVE  Cardinality(T) + 1 <= Cardinality(S)
  <1>1. IsFiniteSet(S) /\ Cardinality(S) \in Nat /\ IsFiniteSet(S \ {x})
    BY Finite, FS_Subset
  <1>2. Cardinality(S \ {x}) = Cardinality(S) - 1
    BY <1>1, FS_RemoveElement
  <1>3. Cardinality(T) <= Cardinality(S \ {x}) /\ IsFiniteSet(T)
    BY <1>1, FS_Subset
  <1>4. Cardinality(T) \in Nat
    BY <1>3, FS_CardinalityType
  <1> QED
    BY <1>1, <1>2, <1>3, <1>4

LEMMA OneActiveRow ==
  ASSUME TimeInv, NEW w
  PROVE  Cardinality(ActiveIn(w)) <= 1
  <1>1. \A r, q \in ActiveIn(w) : r = q
    BY DEF TimeInv, Active, ActiveIn
  <1>2. CASE ActiveIn(w) = {}
    BY <1>2, FS_EmptySet
  <1>3. CASE ActiveIn(w) # {}
    <2>1. PICK r \in ActiveIn(w) : TRUE
      BY <1>3
    <2>2. ActiveIn(w) = {r}
      BY <1>1, <2>1
    <2> QED
      BY <2>2, FS_Singleton
  <1> QED
    BY <1>2, <1>3

LEMMA DayInit == Init => DayInv
  <1> SUFFICES ASSUME Init, NEW t \in Instants PROVE Within(Window(t))
    BY DEF DayInv
  <1> DEFINE w == Window(t)
  <1>1. CountedIn(w) = {} /\ ActiveIn(w) = {} /\ AdmittedIn(w) = {} /\ BegunIn(w) = {}
    BY DEF Init, NoRequest, CountedIn, ActiveIn, AdmittedIn, BegunIn
  <1>2. Cardinality(Clients) \in Nat /\ DailyLimit \in Nat
    BY Finite, QuotaAssumption
  <1> QED
    BY <1>1, <1>2, FS_EmptySet DEF Within, Load

(* What a step that leaves the clock may do to the load of w.              *)
Lighter(w) ==
  /\ Load(w)' <= Load(w)
  /\ Load(w)' + Cardinality(BegunIn(w))' <= Load(w) + Cardinality(BegunIn(w))

Admits(w) ==
  /\ Load(w)' + Cardinality(BegunIn(w))' <= Load(w) + Cardinality(BegunIn(w))
  /\ w = Window(now) => Load(w)' <= DailyLimit + Cardinality(Clients)

Begins(w) ==
  /\ Load(w)' <= Load(w)
  /\ w = Window(now) \/ Cardinality(BegunIn(w))' <= Cardinality(BegunIn(w))

LEMMA Loads ==
  ASSUME TimeInv, [Next]_vars, NEW w
  PROVE  /\ Load(w) \in Nat /\ Load(w)' \in Nat
         /\ Cardinality(BegunIn(w)) \in Nat /\ Cardinality(BegunIn(w))' \in Nat
         /\ Cardinality(BegunIn(w))' <= Cardinality(Clients)
         /\ DailyLimit \in Nat /\ Cardinality(Clients) \in Nat
  <1>1. TimeInv'
    BY TimeNext
  <1>2. /\ Cardinality(CountedIn(w)) \in Nat /\ Cardinality(ActiveIn(w)) \in Nat
        /\ Cardinality(AdmittedIn(w)) \in Nat /\ Cardinality(BegunIn(w)) \in Nat
        /\ Cardinality(Clients) \in Nat
    BY Sizes
  <1>3. /\ Cardinality(CountedIn(w)') \in Nat /\ Cardinality(ActiveIn(w)') \in Nat
        /\ Cardinality(AdmittedIn(w)') \in Nat /\ Cardinality(BegunIn(w)') \in Nat
        /\ Cardinality(BegunIn(w)') <= Cardinality(Clients)
    <2>1. /\ CountedIn(w)' \subseteq Runs /\ ActiveIn(w)' \subseteq Runs
          /\ AdmittedIn(w)' \subseteq Clients /\ BegunIn(w)' \subseteq Clients
      BY DEF CountedIn, ActiveIn, AdmittedIn, BegunIn
    <2> QED
      BY <2>1, Finite, Fewer
  <1> QED
    BY <1>2, <1>3, QuotaAssumption DEF Load

LEMMA StaysWithin ==
  ASSUME TimeInv, [Next]_vars, NEW w, Within(w), now' = now,
         Lighter(w) \/ Admits(w) \/ Begins(w)
  PROVE  /\ w = Window(now) => Load(w)' <= DailyLimit + Cardinality(Clients)
         /\ Load(w)' + Cardinality(BegunIn(w))' <= DailyLimit + 2 * Cardinality(Clients)
  BY Loads DEF Within, Lighter, Admits, Begins

LEMMA Shrinks ==
  ASSUME TimeInv, [Next]_vars, NEW w,
         CountedIn(w)' \subseteq CountedIn(w), ActiveIn(w)' \subseteq ActiveIn(w),
         AdmittedIn(w)' \subseteq AdmittedIn(w)
  PROVE  Load(w)' <= Load(w)
  <1>1. /\ CountedIn(w) \subseteq Runs /\ ActiveIn(w) \subseteq Runs
        /\ AdmittedIn(w) \subseteq Clients
    BY DEF CountedIn, ActiveIn, AdmittedIn
  <1>2. /\ Cardinality(CountedIn(w)') <= Cardinality(CountedIn(w))
        /\ Cardinality(ActiveIn(w)') <= Cardinality(ActiveIn(w))
        /\ Cardinality(AdmittedIn(w)') <= Cardinality(AdmittedIn(w))
    BY <1>1, Fewer
  <1>3. /\ CountedIn(w)' \subseteq Runs /\ ActiveIn(w)' \subseteq Runs
        /\ AdmittedIn(w)' \subseteq Clients
    BY <1>1
  <1>4. /\ Cardinality(CountedIn(w)) \in Nat /\ Cardinality(ActiveIn(w)) \in Nat
        /\ Cardinality(AdmittedIn(w)) \in Nat
        /\ Cardinality(CountedIn(w)') \in Nat /\ Cardinality(ActiveIn(w)') \in Nat
        /\ Cardinality(AdmittedIn(w)') \in Nat
    BY <1>1, <1>3, Finite
  <1> QED
    BY <1>2, <1>4 DEF Load

LEMMA ShrinksToo ==
  ASSUME TimeInv, [Next]_vars, NEW w,
         CountedIn(w)' \subseteq CountedIn(w), ActiveIn(w)' \subseteq ActiveIn(w),
         AdmittedIn(w)' \subseteq AdmittedIn(w), BegunIn(w)' \subseteq BegunIn(w)
  PROVE  Lighter(w)
  <1>1. Cardinality(BegunIn(w)') <= Cardinality(BegunIn(w))
    BY Fewer DEF BegunIn
  <1> QED
    BY <1>1, Shrinks, Loads DEF Lighter

LEMMA BeginBegins ==
  ASSUME TimeInv, NEW t \in Instants, NEW c \in Clients, Begin(c)
  PROVE  Begins(Window(t))
  <1> DEFINE w == Window(t)
  <1>0. [Next]_vars
    BY DEF Next
  <1>1. /\ CountedIn(w)' \subseteq CountedIn(w) /\ ActiveIn(w)' \subseteq ActiveIn(w)
        /\ AdmittedIn(w)' \subseteq AdmittedIn(w)
    BY DEF Begin, CountedIn, ActiveIn, AdmittedIn, In, TimeInv, TypeOK
  <1>2. now \in Int /\ t \in Int
    BY QuotaAssumption DEF TimeInv, TypeOK
  <1>3. w = Window(now) \/ ~In(w, now)
    <2>1. CASE t <= now
      BY <1>2, <2>1, Windows DEF In
    <2>2. CASE now <= t
      BY <1>2, <2>2, Windows DEF In
    <2> QED
      BY <1>2, <2>1, <2>2
  <1>4. CASE w = Window(now)
    BY <1>0, <1>1, <1>4, Shrinks DEF Begins
  <1>5. CASE ~In(w, now)
    <2>1. BegunIn(w)' \subseteq BegunIn(w)
      BY <1>5 DEF Begin, BegunIn, In, TimeInv, TypeOK
    <2>2. Cardinality(BegunIn(w)') <= Cardinality(BegunIn(w))
      BY <2>1, Fewer DEF BegunIn
    <2> QED
      BY <1>0, <1>1, <2>2, Shrinks DEF Begins
  <1> QED
    BY <1>3, <1>4, <1>5

LEMMA CountAdmits ==
  ASSUME TimeInv, NEW t \in Instants, NEW c \in Clients, Count(c)
  PROVE  Lighter(Window(t)) \/ Admits(Window(t))
  <1> DEFINE w == Window(t)
  <1>0. [Next]_vars
    BY DEF Next
  <1>1. CASE Used >= DailyLimit \/ ~In(w, req[c].began)
    <2>1. /\ CountedIn(w)' \subseteq CountedIn(w) /\ ActiveIn(w)' \subseteq ActiveIn(w)
          /\ BegunIn(w)' \subseteq BegunIn(w)
      BY DEF Count, CountedIn, ActiveIn, BegunIn, In, TimeInv, TypeOK, NoRequest
    <2>2. Used \in Nat /\ DailyLimit \in Nat
      BY Finite, CountedRows, QuotaAssumption DEF Used
    <2>3. AdmittedIn(w)' \subseteq AdmittedIn(w)
      BY <1>1, <2>2 DEF Count, AdmittedIn, In, TimeInv, TypeOK, NoRequest
    <2> QED
      BY <1>0, <2>1, <2>3, ShrinksToo
  <1>2. CASE Used < DailyLimit /\ In(w, req[c].began)
    <2>1. /\ CountedIn(w)' \subseteq CountedIn(w) /\ ActiveIn(w)' \subseteq ActiveIn(w)
          /\ AdmittedIn(w)' \subseteq AdmittedIn(w) \union {c}
          /\ c \in BegunIn(w) /\ BegunIn(w)' \subseteq BegunIn(w) \ {c}
          /\ AdmittedIn(w)' \subseteq Clients
      BY <1>2 DEF Count, CountedIn, ActiveIn, BegunIn, AdmittedIn, In, TimeInv, TypeOK, NoRequest
    <2>2. /\ CountedIn(w) \subseteq Runs /\ ActiveIn(w) \subseteq Runs
          /\ AdmittedIn(w) \subseteq Clients /\ BegunIn(w) \subseteq Clients
      BY DEF CountedIn, ActiveIn, AdmittedIn, BegunIn
    <2>3. /\ Cardinality(CountedIn(w)') <= Cardinality(CountedIn(w))
          /\ Cardinality(ActiveIn(w)') <= Cardinality(ActiveIn(w))
      BY <2>1, <2>2, Fewer
    <2>4. Cardinality(AdmittedIn(w)') <= Cardinality(AdmittedIn(w)) + 1
      BY <2>1, <2>2, AddOne
    <2>5. Cardinality(BegunIn(w)') + 1 <= Cardinality(BegunIn(w))
      BY <2>1, <2>2, LoseOne
    <2>6. /\ Cardinality(CountedIn(w)) \in Nat /\ Cardinality(CountedIn(w)') \in Nat
          /\ Cardinality(ActiveIn(w)) \in Nat /\ Cardinality(ActiveIn(w)') \in Nat
          /\ Cardinality(AdmittedIn(w)) \in Nat /\ Cardinality(AdmittedIn(w)') \in Nat
          /\ Cardinality(BegunIn(w)) \in Nat /\ Cardinality(BegunIn(w)') \in Nat
          /\ Cardinality(Clients) \in Nat
      <3>1. /\ CountedIn(w)' \subseteq Runs /\ ActiveIn(w)' \subseteq Runs
            /\ BegunIn(w)' \subseteq Clients
        BY <2>1, <2>2
      <3> QED
        BY <2>1, <2>2, <3>1, Finite
    <2>7. Load(w)' + Cardinality(BegunIn(w))' <= Load(w) + Cardinality(BegunIn(w))
      BY <2>3, <2>4, <2>5, <2>6 DEF Load
    <2>8. ASSUME w = Window(now) PROVE Load(w)' <= DailyLimit + Cardinality(Clients)
      <3>1. Cardinality(CountedIn(w)) < DailyLimit
        BY <1>2, <2>8 DEF Used
      <3>2. Cardinality(ActiveIn(w)) <= 1
        BY OneActiveRow
      <3>3. Cardinality(AdmittedIn(w)') <= Cardinality(Clients)
        BY <2>1, Fewer
      <3> QED
        BY <2>3, <2>6, <3>1, <3>2, <3>3, QuotaAssumption DEF Load
    <2> QED
      BY <2>7, <2>8 DEF Admits
  <1>3. Used \in Nat /\ DailyLimit \in Nat
    BY Finite, CountedRows, QuotaAssumption DEF Used
  <1> QED
    BY <1>1, <1>2, <1>3

LEMMA InsertIsLighter ==
  ASSUME TimeInv, NEW t \in Instants, NEW c \in Clients, Insert(c)
  PROVE  Lighter(Window(t))
  <1> DEFINE w == Window(t)
             began == req[c].began
  <1>0. [Next]_vars
    BY DEF Next
  <1>1. PICK r \in Runs :
          /\ run[r].status = "absent"
          /\ run' = [run EXCEPT ![r] = [status |-> "active", at |-> began]]
    BY DEF Insert
  <1>2. /\ CountedIn(w)' \subseteq CountedIn(w) /\ BegunIn(w)' \subseteq BegunIn(w)
        /\ AdmittedIn(w)' \subseteq AdmittedIn(w) \ {c}
        /\ ActiveIn(w)' \subseteq ActiveIn(w) \union {r}
        /\ ~In(w, began) => ActiveIn(w)' \subseteq ActiveIn(w)
    BY <1>1 DEF Insert, CountedIn, ActiveIn, BegunIn, AdmittedIn, In, TimeInv, TypeOK, NoRequest
  <1>3. CASE ~In(w, began)
    BY <1>0, <1>2, <1>3, ShrinksToo
  <1>4. CASE In(w, began)
    <2>1. c \in AdmittedIn(w)
      BY <1>4 DEF Insert, AdmittedIn
    <2>2. /\ CountedIn(w) \subseteq Runs /\ ActiveIn(w) \subseteq Runs
          /\ AdmittedIn(w) \subseteq Clients /\ BegunIn(w) \subseteq Clients
      BY DEF CountedIn, ActiveIn, AdmittedIn, BegunIn
    <2>3. /\ Cardinality(CountedIn(w)') <= Cardinality(CountedIn(w))
          /\ Cardinality(BegunIn(w)') <= Cardinality(BegunIn(w))
      BY <1>2, <2>2, Fewer
    <2>4. /\ Cardinality(ActiveIn(w)') <= Cardinality(ActiveIn(w)) + 1
          /\ Cardinality(ActiveIn(w)') \in Nat
      BY <1>2, <2>2, AddOne
    <2>5. Cardinality(AdmittedIn(w)') + 1 <= Cardinality(AdmittedIn(w))
      BY <1>2, <2>1, <2>2, LoseOne
    <2>6. /\ Cardinality(CountedIn(w)) \in Nat /\ Cardinality(CountedIn(w)') \in Nat
          /\ Cardinality(ActiveIn(w)) \in Nat
          /\ Cardinality(AdmittedIn(w)) \in Nat /\ Cardinality(AdmittedIn(w)') \in Nat
          /\ Cardinality(BegunIn(w)) \in Nat /\ Cardinality(BegunIn(w)') \in Nat
      <3>1. /\ CountedIn(w)' \subseteq Runs /\ AdmittedIn(w)' \subseteq Clients
            /\ BegunIn(w)' \subseteq Clients
        BY <1>2, <2>2
      <3> QED
        BY <2>2, <3>1, Finite
    <2> QED
      BY <2>3, <2>4, <2>5, <2>6 DEF Lighter, Load
  <1> QED
    BY <1>3, <1>4

LEMMA EndIsLighter ==
  ASSUME TimeInv, NEW t \in Instants, NEW r \in Runs, End(r)
  PROVE  Lighter(Window(t))
  <1> DEFINE w == Window(t)
  <1>0. [Next]_vars
    BY DEF Next
  <1>1. PICK s \in {"completed", "ended"} : run' = [run EXCEPT ![r].status = s]
    BY DEF End
  <1>2. /\ CountedIn(w)' \subseteq CountedIn(w) \union {r}
        /\ ~In(w, run[r].at) => CountedIn(w)' \subseteq CountedIn(w)
        /\ BegunIn(w)' \subseteq BegunIn(w) /\ AdmittedIn(w)' \subseteq AdmittedIn(w)
        /\ ActiveIn(w)' \subseteq ActiveIn(w) \ {r}
    BY <1>1 DEF End, CountedIn, ActiveIn, BegunIn, AdmittedIn, In, TimeInv, TypeOK, Run
  <1>3. CASE ~In(w, run[r].at)
    BY <1>0, <1>2, <1>3, ShrinksToo
  <1>4. CASE In(w, run[r].at)
    <2>1. r \in ActiveIn(w)
      BY <1>4 DEF End, ActiveIn
    <2>2. /\ CountedIn(w) \subseteq Runs /\ ActiveIn(w) \subseteq Runs
          /\ AdmittedIn(w) \subseteq Clients /\ BegunIn(w) \subseteq Clients
      BY DEF CountedIn, ActiveIn, AdmittedIn, BegunIn
    <2>3. /\ Cardinality(AdmittedIn(w)') <= Cardinality(AdmittedIn(w))
          /\ Cardinality(BegunIn(w)') <= Cardinality(BegunIn(w))
      BY <1>2, <2>2, Fewer
    <2>4. /\ Cardinality(CountedIn(w)') <= Cardinality(CountedIn(w)) + 1
          /\ Cardinality(CountedIn(w)') \in Nat
      BY <1>2, <2>2, AddOne
    <2>5. Cardinality(ActiveIn(w)') + 1 <= Cardinality(ActiveIn(w))
      BY <1>2, <2>1, <2>2, LoseOne
    <2>6. /\ Cardinality(ActiveIn(w)) \in Nat /\ Cardinality(ActiveIn(w)') \in Nat
          /\ Cardinality(CountedIn(w)) \in Nat
          /\ Cardinality(AdmittedIn(w)) \in Nat /\ Cardinality(AdmittedIn(w)') \in Nat
          /\ Cardinality(BegunIn(w)) \in Nat /\ Cardinality(BegunIn(w)') \in Nat
      <3>1. /\ ActiveIn(w)' \subseteq Runs /\ AdmittedIn(w)' \subseteq Clients
            /\ BegunIn(w)' \subseteq Clients
        BY <1>2, <2>2
      <3> QED
        BY <2>2, <3>1, Finite
    <2> QED
      BY <2>3, <2>4, <2>5, <2>6 DEF Lighter, Load
  <1> QED
    BY <1>3, <1>4

LEMMA OthersAreLighter ==
  ASSUME TimeInv, NEW t \in Instants,
         (\E c \in Clients : Refuse(c)) \/ ResetQuota \/ UNCHANGED vars
  PROVE  Lighter(Window(t))
  <1> DEFINE w == Window(t)
  <1>0. [Next]_vars
    BY DEF Next
  <1>1. /\ CountedIn(w)' \subseteq CountedIn(w) /\ ActiveIn(w)' \subseteq ActiveIn(w)
        /\ AdmittedIn(w)' \subseteq AdmittedIn(w) /\ BegunIn(w)' \subseteq BegunIn(w)
    <2> USE DEF CountedIn, ActiveIn, AdmittedIn, BegunIn, In, TimeInv, TypeOK
    <2>1. CASE \E c \in Clients : Refuse(c)
      BY <2>1 DEF Refuse, NoRequest
    <2>2. CASE ResetQuota
      <3>1. w.start \in Int /\ now \in Int
        BY QuotaAssumption, Windows
      <3>2. \A r \in Runs : run[r].at \in Int
        BY DEF Run
      <3>3. \A c \in Clients : req[c].began \in Int
        BY DEF Request
      <3> QED
        BY <2>2, <3>1, <3>2, <3>3 DEF ResetQuota
    <2>3. CASE UNCHANGED vars
      BY <2>3 DEF vars
    <2> QED
      BY <2>1, <2>2, <2>3
  <1> QED
    BY <1>0, <1>1, ShrinksToo

(* A day that begins has nothing in it.                                    *)
LEMMA TickWithin ==
  ASSUME TimeInv, DayInv, NEW t \in Instants, Tick
  PROVE  /\ Window(t) = Window(now)' => Load(Window(t))' <= DailyLimit + Cardinality(Clients)
         /\ Load(Window(t))' + Cardinality(BegunIn(Window(t)))' <=
              DailyLimit + 2 * Cardinality(Clients)
  <1> DEFINE w == Window(t)
  <1>0. [Next]_vars
    BY DEF Next
  <1>1. Within(w)
    BY DEF DayInv
  <1>2. Lighter(w)
    <2>1. /\ CountedIn(w)' \subseteq CountedIn(w) /\ ActiveIn(w)' \subseteq ActiveIn(w)
          /\ AdmittedIn(w)' \subseteq AdmittedIn(w) /\ BegunIn(w)' \subseteq BegunIn(w)
      BY DEF Tick, CountedIn, ActiveIn, AdmittedIn, BegunIn, In
    <2> QED
      BY <1>0, <2>1, ShrinksToo
  <1>3. /\ Load(w) \in Nat /\ Load(w)' \in Nat
        /\ Cardinality(BegunIn(w)) \in Nat /\ Cardinality(BegunIn(w))' \in Nat
        /\ DailyLimit \in Nat /\ Cardinality(Clients) \in Nat
    BY <1>0, Loads
  <1>4. ASSUME w = Window(now)' PROVE Load(w)' <= DailyLimit + Cardinality(Clients)
    <2>1. now \in Int /\ now' \in Int /\ now <= now'
      BY QuotaAssumption DEF Tick, TimeInv, TypeOK
    <2>2. w = Window(now) \/ (w.start > now /\ w.start \in Int)
      <3>1. /\ Window(now).end \in Int /\ now < Window(now).end
            /\ now' < Window(now).end => Window(now') = Window(now)
            /\ now' >= Window(now).end => Window(now').start >= Window(now).end
            /\ Window(now').start \in Int
        BY <2>1, Windows
      <3> QED
        BY <1>4, <2>1, <3>1
    <2>3. CASE w = Window(now)
      BY <1>1, <1>2, <1>3, <2>3 DEF Within, Lighter
    <2>4. CASE w.start > now /\ w.start \in Int
      <3>1. /\ \A r \in Runs : run[r].at \in Int /\ run[r].at <= now
            /\ \A c \in Clients : req[c].began \in Int /\ req[c].began <= now
        BY DEF TimeInv, TypeOK, Run, Request
      <3>2. CountedIn(w) = {} /\ ActiveIn(w) = {} /\ AdmittedIn(w) = {}
        BY <2>1, <2>4, <3>1 DEF CountedIn, ActiveIn, AdmittedIn, In
      <3>3. Load(w) = 0
        BY <3>2, FS_EmptySet DEF Load
      <3> QED
        BY <1>2, <1>3, <3>3 DEF Lighter
    <2> QED
      BY <2>2, <2>3, <2>4
  <1>5. Load(w)' + Cardinality(BegunIn(w))' <= DailyLimit + 2 * Cardinality(Clients)
    BY <1>1, <1>2, <1>3 DEF Within, Lighter
  <1> QED
    BY <1>4, <1>5

LEMMA DayNext == TimeInv /\ DayInv /\ [Next]_vars => DayInv'
  <1> SUFFICES ASSUME TimeInv, DayInv, [Next]_vars, NEW t \in Instants
               PROVE  Within(Window(t))'
    BY DEF DayInv
  <1> DEFINE w == Window(t)
  <1>1. CASE Tick
    BY <1>1, TickWithin DEF Within
  <1>2. CASE ~Tick
    <2>1. now' = now
      BY <1>2 DEF Next, vars, Begin, Count, Insert, Refuse, End, ResetQuota
    <2>2. Lighter(w) \/ Admits(w) \/ Begins(w)
      <3>1. ASSUME NEW c \in Clients, Begin(c) PROVE Begins(w)
        BY <3>1, BeginBegins
      <3>2. ASSUME NEW c \in Clients, Count(c) PROVE Lighter(w) \/ Admits(w)
        BY <3>2, CountAdmits
      <3>3. ASSUME NEW c \in Clients, Insert(c) PROVE Lighter(w)
        BY <3>3, InsertIsLighter
      <3>4. ASSUME NEW r \in Runs, End(r) PROVE Lighter(w)
        BY <3>4, EndIsLighter
      <3>5. CASE (\E c \in Clients : Refuse(c)) \/ ResetQuota \/ UNCHANGED vars
        BY <3>5, OthersAreLighter
      <3> QED
        BY <1>2, <3>1, <3>2, <3>3, <3>4, <3>5 DEF Next
    <2>3. Within(w)
      BY DEF DayInv
    <2>4. /\ w = Window(now) => Load(w)' <= DailyLimit + Cardinality(Clients)
          /\ Load(w)' + Cardinality(BegunIn(w))' <= DailyLimit + 2 * Cardinality(Clients)
      BY <2>1, <2>2, <2>3, StaysWithin
    <2> QED
      BY <2>1, <2>4 DEF Within
  <1> QED
    BY <1>1, <1>2

(* The current day has at most one run more for each request than its      *)
(* limit, any other two: one for a request that counted while another was  *)
(* at work, one for a request whose transaction began before 6 AM and      *)
(* counted in the new window.                                              *)
THEOREM DayOverrunBoundedAlways == Spec => []DayOverrunBounded
  <1>1. TimeInv /\ DayInv => DayOverrunBounded
    <2>1. ASSUME TimeInv, DayInv, NEW t \in Instants
          PROVE  /\ Cardinality(CountedIn(Window(t))) <=
                      DailyLimit + 2 * Cardinality(Clients)
                 /\ Window(t) = Window(now) =>
                      Cardinality(CountedIn(Window(t))) <= DailyLimit + Cardinality(Clients)
      <3>1. Within(Window(t))
        BY <2>1 DEF DayInv
      <3> QED
        BY <2>1, <3>1, Sizes, QuotaAssumption DEF Within, Load
    <2> QED
      BY <2>1 DEF DayOverrunBounded, Used, TimeInv, TypeOK
  <1> QED
    BY <1>1, TimeInit, TimeNext, DayInit, DayNext, PTL DEF Spec
=============================================================================
