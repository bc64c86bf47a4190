-------------------------- MODULE CollectionProofs --------------------------
(***************************************************************************)
(* Theorems about Collection, for any openings, categories, locations,     *)
(* users, documents and bounds.                                            *)
(***************************************************************************)
EXTENDS Collection, FiniteSetTheorems, WellFoundedInduction, TLAPS

-----------------------------------------------------------------------------
(* Types *)

Answered == {"completed", "partial", "failed"}
Results == Answered \union {"none", "running", "raised"}
Stages ==
  {"idle", "collect", "filter", "raw", "shared", "observe", "build", "publish", "complete"}

WorldRows == [listed : BOOLEAN, published : Nat, updated : Nat, version : Nat]
DetailRows == [updated : Nat, published : Nat, version : Nat]
RawRows == [run : Runs, job : JobIds, version : Nat]
SharedRows == [run : Runs, job : JobIds, version : Nat, at : Nat]
PostingRows ==
  [run : Nat, version : Nat, first : Nat, last : Nat, active : BOOLEAN]
Queries == Titles \X (Locations \union {Anywhere})
PlanRows ==
  [cats : SUBSET Categories,
   asked : UNION {[cats -> SUBSET Queries] : cats \in SUBSET Categories}]
JobRows ==
  [asks : [Users -> Documents], plan : PlanRows,
   known : [BoardOpenings -> DetailRows], board : {"list", "resolve", "done"},
   listing : [BoardOpenings -> Nat], pending : SUBSET BoardOpenings,
   missed : SUBSET BoardOpenings, resolved : SUBSET Record,
   updates : SUBSET BoardOpenings, unsearched : SUBSET Categories,
   got : SUBSET Record, fetched : SUBSET Sources,
   errors : SUBSET (Sources \X ({"all"} \union Categories)),
   tries : [{"board"} \union Categories -> Nat]]

TypeInv ==
  /\ now \in Nat \ {0}
  /\ world \in [Openings -> WorldRows]
  /\ details \in [BoardOpenings -> DetailRows]
  /\ pc \in Stages
  /\ last \in 0 .. MaxRuns
  /\ result \in [Runs -> Results]
  /\ job \in JobRows
  /\ raw \subseteq RawRows
  /\ processed \subseteq SharedRows
  /\ observed \subseteq SharedRows
  /\ staged \subseteq SharedRows
  /\ postings \in [JobIds -> PostingRows]
  /\ owed \subseteq JobIds
  /\ events \in Nat /\ faults \in Nat

-----------------------------------------------------------------------------
(* The sources, and what is remembered of the board *)

Posted(p) == world[p].version > 0

WorldInv ==
  \A p \in Openings :
    /\ world[p].published <= world[p].updated /\ world[p].updated <= now
    /\ world[p].listed => Posted(p) /\ world[p].updated > 0

(* A detail is not of a later update than the board's, and one of the same *)
(* update has the same content.                                            *)
DetailOk(p, entry) ==
  Known(entry) =>
    /\ Posted(p) /\ entry.published = world[p].published
    /\ entry.updated <= world[p].updated
    /\ entry.updated = world[p].updated => entry.version = world[p].version

ListingOk(p) ==
  job.listing[p] > 0 =>
    /\ Posted(p)
    /\ world[p].published <= job.listing[p] /\ job.listing[p] <= world[p].updated

DetailInv ==
  \A p \in BoardOpenings :
    DetailOk(p, details[p]) /\ DetailOk(p, job.known[p]) /\ ListingOk(p)

-----------------------------------------------------------------------------
(* The rows of the runs *)

(* Before this run's rows are written *)
Unwritten == {"collect", "filter", "raw", "shared"}

RowsInv ==
  /\ pc # "idle" => last > 0 /\ result[last] = "running"
  /\ pc = "shared" => \A rec \in job.got : Raw(rec) \in raw
  /\ pc \in {"build", "publish", "complete"} => OfRun(processed, last) \subseteq observed
  /\ pc \in {"publish", "complete"} => staged = OfRun(processed, last)
  /\ observed \subseteq processed /\ staged \subseteq observed
  /\ \A row \in processed :
       /\ [run |-> row.run, job |-> row.job, version |-> row.version] \in raw
       /\ row.run <= last /\ row.at <= now
       /\ pc \in Unwritten => row.run < last
  /\ \A row, other \in processed : row.run <= other.run => row.at <= other.at

(* What a published run has seen, its posting was seen at. *)
SeenInv ==
  \A row \in observed :
    (result[row.run] \in Answered \/ (pc = "complete" /\ row.run = last)) =>
      row.at <= postings[row.job].last

-----------------------------------------------------------------------------
(* What is owed, on its way from the sources to the postings *)

(* A duplicate may stand for what is owed. *)
Stands(o, j) == j = o \/ (<<o, j>> \in Similar /\ Rank[j[1]] <= Rank[o[1]])

Collected(rec) ==
  Posted(rec.opening) /\ rec.published = world[rec.opening].published

ResolveInv ==
  job.board = "resolve" =>
    \A p \in BoardOpenings :
      job.listing[p] > 0 =>
        \/ p \in job.pending \union job.missed
        \/ \E rec \in job.resolved : JobId(rec) = <<"board", p>>
        \/ job.listing[p] + Window < now

PlanInv ==
  pc = "collect" => job.plan \in Plans(job.asks) /\ job.unsearched \subseteq job.plan.cats

CollectedInv == \A rec \in job.got \union job.resolved : Collected(rec)

ShownInv == pc # "idle" => \A o \in owed : \E rec \in job.got : JobId(rec) = o

KeptInv ==
  /\ pc \in {"observe", "build"} =>
       \A o \in owed : \E row \in processed : row.run = last /\ Stands(o, row.job)
  /\ pc = "publish" =>
       \A o \in owed : \E row \in staged : row.run = last /\ Stands(o, row.job)
  /\ (pc = "complete" \/ (pc = "idle" /\ last > 0 /\ result[last] \in Answered)) =>
       \A o \in owed : \E j \in JobIds :
         Stands(o, j) /\ postings[j].run = last /\ postings[j].active

-----------------------------------------------------------------------------
(* One record, one row, of a job *)

OneEach(recs) == \A rec, other \in recs : JobId(rec) = JobId(other) => rec = other

OnceInv ==
  /\ OneEach(job.got) /\ OneEach(job.resolved)
  /\ job.board # "resolve" => job.pending = {} /\ job.resolved = {}
  /\ \A rec \in job.resolved : rec.source = "board" /\ rec.opening \notin job.pending
  /\ \A row, other \in processed :
       row.run = other.run /\ row.job = other.job => row = other

(* The upsert of a publication has one row per job, as insert .. on        *)
(* conflict do update demands.                                             *)
PublishedOnce ==
  \A row, other \in MartRows(last) : row.job = other.job => row = other

CollectionInv ==
  /\ TypeInv /\ WorldInv /\ DetailInv
  /\ RowsInv /\ SeenInv /\ ResolveInv
  /\ PlanInv /\ CollectedInv /\ ShownInv /\ KeptInv /\ OnceInv

-----------------------------------------------------------------------------
(* Types are kept *)

LEMMA Board ==
  /\ BoardOpenings \subseteq Openings /\ Carries["search"] \subseteq Openings
  /\ "board" \in Sources /\ "search" \in Sources
  <1>1. "board" \in Sources /\ "search" \in Sources
    BY DEF Sources
  <1> QED
    BY <1>1, AcquisitionAssumption DEF BoardOpenings

LEMMA Bounds ==
  /\ {Retention, MaxAttempts, MaxRuns, MaxTime, MaxEvents, MaxFaults} \subseteq Nat
  /\ Window \in Nat /\ QueryLimit \in Nat
  BY CollectionAssumption, AcquisitionAssumption

LEMMA IdleType == Idle \in JobRows
  <1>1. NoDocument \in Documents /\ NoPlan \in PlanRows
    <2>1. NoDocument \in Documents
      BY DEF NoDocument, Documents
    <2>2. [c \in {} |-> {}] \in [{} -> SUBSET Queries]
      OBVIOUS
    <2>3. {} \in SUBSET Categories
      OBVIOUS
    <2>4. NoPlan \in PlanRows
      BY <2>2, <2>3 DEF NoPlan, PlanRows
    <2> QED
      BY <2>1, <2>4
  <1>2. NoDetail \in DetailRows
    BY DEF NoDetail, DetailRows
  <1> QED
    BY <1>1, <1>2 DEF Idle, JobRows

LEMMA RecordTypes ==
  /\ \A p \in BoardOpenings, entry \in DetailRows : FromDetail(p, entry) \in Record
  /\ TypeInv => \A p \in Openings : FromSearch(p) \in Record
  /\ \A rec \in Record : JobId(rec) \in JobIds
  <1>1. \A p \in BoardOpenings, entry \in DetailRows : FromDetail(p, entry) \in Record
    BY Board DEF FromDetail, Record, DetailRows
  <1>2. TypeInv => \A p \in Openings : FromSearch(p) \in Record
    BY Board DEF FromSearch, Record, TypeInv, WorldRows
  <1>3. \A rec \in Record : JobId(rec) \in JobIds
    BY DEF JobId, JobIds, Record
  <1> QED
    BY <1>1, <1>2, <1>3

LEMMA TypeInit == Init => TypeInv
  <1> SUFFICES ASSUME Init PROVE TypeInv
    OBVIOUS
  <1>1. now \in Nat \ {0}
    BY DEF Init
  <1>2. world \in [Openings -> WorldRows]
    BY DEF Init, Hidden, WorldRows
  <1>3. details \in [BoardOpenings -> DetailRows]
    BY DEF Init, NoDetail, DetailRows
  <1>4. pc \in Stages
    BY DEF Init, Stages
  <1>5. last \in 0 .. MaxRuns
    BY Bounds DEF Init
  <1>6. result \in [Runs -> Results]
    BY DEF Init, Results
  <1>7. job \in JobRows
    BY IdleType DEF Init
  <1>8. postings \in [JobIds -> PostingRows]
    BY DEF Init, NoPosting, PostingRows
  <1>9. events \in Nat /\ faults \in Nat
    BY DEF Init
  <1>10. /\ raw \subseteq RawRows /\ processed \subseteq SharedRows
         /\ observed \subseteq SharedRows /\ staged \subseteq SharedRows
         /\ owed \subseteq JobIds
    BY DEF Init
  <1> QED
    BY <1>1, <1>2, <1>3, <1>4, <1>5, <1>6, <1>7, <1>8, <1>9, <1>10 DEF TypeInv

LEMMA OutsideType ==
  ASSUME TypeInv, Outside
  PROVE  TypeInv'
  <1> USE DEF TypeInv, tables
  <1>1. CASE Tick
    BY <1>1 DEF Tick
  <1>2. ASSUME NEW p \in Openings, NEW row \in WorldRows, World(p, row)
        PROVE  TypeInv'
    BY <1>2 DEF World
  <1>3. ASSUME NEW p \in Openings, Post(p)
        PROVE  TypeInv'
    BY <1>2, <1>3 DEF Post, WorldRows
  <1>4. ASSUME NEW p \in Openings, Revise(p)
        PROVE  TypeInv'
    <2>1. [world[p] EXCEPT !.updated = now, !.version = @ + 1] \in WorldRows
      <3>1. world[p] \in WorldRows /\ now \in Nat /\ world[p].version + 1 \in Nat
        BY DEF WorldRows
      <3> HIDE DEF TypeInv
      <3> QED
        BY <3>1 DEF WorldRows
    <2> QED
      BY <1>2, <1>4, <2>1 DEF Revise
  <1>5. ASSUME NEW p \in Openings, Withdraw(p)
        PROVE  TypeInv'
    <2>1. [world[p] EXCEPT !.listed = FALSE] \in WorldRows
      BY DEF WorldRows
    <2> QED
      BY <1>2, <1>5, <2>1 DEF Withdraw
  <1> QED
    BY <1>1, <1>3, <1>4, <1>5 DEF Outside

LEMMA OwedType ==
  ASSUME NEW s \in Sources, NEW ps, ps \subseteq Openings
  PROVE  Owed(s, ps) \subseteq JobIds
  BY DEF Owed, JobIds

LEMMA CombinedTypes ==
  ASSUME NEW asks \in [Users -> Documents]
  PROVE  /\ CombinedCategories(asks) \subseteq Categories
         /\ CombinedLocations(asks) \subseteq Locations /\ Named(asks) \subseteq Locations
  <1>1. \A u \in Active(asks) :
          asks[u].cats \subseteq Categories /\ asks[u].locs \subseteq Locations
    BY DEF Active, Documents
  <1>2. Platform.cats \subseteq Categories /\ Platform.locs \subseteq Locations
    BY AcquisitionAssumption DEF Documents
  <1>3. CombinedCategories(asks) \subseteq Categories
    BY <1>1, <1>2 DEF CombinedCategories
  <1>4. Named(asks) \subseteq Locations
    BY <1>1 DEF Named
  <1>5. CombinedLocations(asks) \subseteq Locations
    BY <1>2, <1>4 DEF CombinedLocations
  <1> QED
    BY <1>3, <1>4, <1>5

LEMMA PlanTypes ==
  ASSUME NEW asks \in [Users -> Documents], NEW plan \in Plans(asks)
  PROVE  /\ plan \in PlanRows
         /\ plan.cats = CombinedCategories(asks)
         /\ \A c \in plan.cats : plan.asked[c] \in Limited(c, CombinedLocations(asks))
  <1> DEFINE cats == CombinedCategories(asks)
             limited(c) == Limited(c, CombinedLocations(asks))
  <1>1. PICK asked \in [cats -> UNION {limited(c) : c \in cats}] :
          /\ plan = [cats |-> cats, asked |-> asked]
          /\ \A c \in cats : asked[c] \in limited(c)
    BY DEF Plans
  <1>2. cats \subseteq Categories
    BY CombinedTypes
  <1>3. \A c \in cats : limited(c) \subseteq SUBSET Queries
    <2> SUFFICES ASSUME NEW c \in cats PROVE limited(c) \subseteq SUBSET Queries
      OBVIOUS
    <2>1. SearchTitles[c] \subseteq Titles
      BY <1>2, AcquisitionAssumption
    <2>2. CombinedLocations(asks) \subseteq Locations
      BY CombinedTypes
    <2>3. Pairs(c, CombinedLocations(asks)) \subseteq Queries
      BY <2>1, <2>2 DEF Pairs, Queries
    <2>4. limited(c) \subseteq SUBSET Pairs(c, CombinedLocations(asks))
      BY DEF Limited
    <2> QED
      BY <2>3, <2>4
  <1> HIDE DEF limited, cats
  <1>4. asked \in [cats -> SUBSET Queries]
    <2>1. \A c \in cats : asked[c] \in SUBSET Queries
      BY <1>1, <1>3
    <2> QED
      BY <1>1, <2>1
  <1>5. plan \in PlanRows
    BY <1>1, <1>2, <1>4 DEF PlanRows
  <1>6. plan.cats = cats /\ plan.asked = asked
    BY <1>1
  <1> QED
    BY <1>1, <1>5, <1>6 DEF cats, limited

-----------------------------------------------------------------------------
(* What the sources' answers make of the records *)

RecentOf(recs) == {rec \in recs : Recent(rec.published, now)}
Found(pairs) == {FromSearch(p) : p \in {q \in Listed("search") : Finds(pairs, q)}}

Started == \E asks \in Snapshots : \E plan \in Plans(asks) : StartRun(asks, plan)
SearchOut(c) == \E pairs \in SUBSET job.plan.asked[c] : SearchOutage(c, pairs)
Searched(c) == SearchDone(c) \/ SearchOut(c)

LEMMA CollectCases ==
  ASSUME TypeInv, Collect
  PROVE  \/ Started \/ ListBoard \/ BoardOutage \/ BoardDone \/ BoardRaises
         \/ \E p \in BoardOpenings : FetchDetail(p) \/ DetailFails(p)
         \/ \E c \in Categories : Searched(c) \/ SearchRaises(c)
  <1>1. job.unsearched \subseteq Categories
    BY DEF TypeInv, JobRows
  <1> QED
    BY <1>1 DEF Collect, Started, Searched, SearchOut

LEMMA Receives ==
  ASSUME NEW s \in Sources, NEW recs, recs \subseteq Record, NEW rest \in JobRows,
         Receive(s, recs, rest)
  PROVE  /\ job' \in JobRows /\ job'.got = Compact(rest.got, recs)
         /\ job'.asks = rest.asks /\ job'.plan = rest.plan /\ job'.known = rest.known
         /\ job'.board = rest.board /\ job'.listing = rest.listing
         /\ job'.pending = rest.pending /\ job'.missed = rest.missed
         /\ job'.resolved = rest.resolved /\ job'.unsearched = rest.unsearched
  <1> DEFINE got == Compact(rest.got, recs)
             fetched == IF recs = {} THEN rest.fetched ELSE rest.fetched \union {s}
  <1>1. rest.got \subseteq Record /\ rest.fetched \subseteq Sources
    BY DEF JobRows
  <1>2. got \subseteq Record /\ fetched \subseteq Sources
    BY <1>1 DEF Compact
  <1>3. job' = [rest EXCEPT !.got = got, !.fetched = fetched]
    BY DEF Receive
  <1> HIDE DEF got, fetched
  <1>4. job' \in JobRows
    BY <1>2, <1>3 DEF JobRows
  <1>5. /\ job'.got = got
        /\ job'.asks = rest.asks /\ job'.plan = rest.plan /\ job'.known = rest.known
        /\ job'.board = rest.board /\ job'.listing = rest.listing
        /\ job'.pending = rest.pending /\ job'.missed = rest.missed
        /\ job'.resolved = rest.resolved /\ job'.unsearched = rest.unsearched
    BY <1>3 DEF JobRows
  <1> QED
    BY <1>4, <1>5 DEF got

LEMMA BoardReceives ==
  ASSUME TypeInv, BoardDone
  PROVE  /\ job' \in JobRows
         /\ job'.got = Compact(job.got, BoardJobs(RecentOf(job.resolved)))
         /\ job'.board = "done" /\ job'.resolved = {} /\ job'.pending = job.pending
         /\ job'.asks = job.asks /\ job'.plan = job.plan /\ job'.known = job.known
         /\ job'.listing = job.listing /\ job'.unsearched = job.unsearched
         /\ CollectStep /\ job.board = "resolve" /\ job.pending = {}
         /\ owed' = owed \union
                    Owed("board", {p \in BoardOpenings : job.listing[p] > 0} \ job.missed)
         /\ faults' = faults
  <1> DEFINE rest == [job EXCEPT !.board = "done", !.resolved = {}]
             recs == BoardJobs(RecentOf(job.resolved))
  <1>1. job \in JobRows /\ job.resolved \subseteq Record
    BY DEF TypeInv, JobRows
  <1>2. /\ rest \in JobRows /\ rest.got = job.got
        /\ rest.board = "done" /\ rest.resolved = {} /\ rest.pending = job.pending
        /\ rest.asks = job.asks /\ rest.plan = job.plan /\ rest.known = job.known
        /\ rest.listing = job.listing /\ rest.unsearched = job.unsearched
    BY <1>1 DEF JobRows
  <1>3. recs \subseteq Record
    BY <1>1 DEF BoardJobs, RecentOf
  <1>4. /\ Receive("board", recs, rest) /\ CollectStep
        /\ job.board = "resolve" /\ job.pending = {} /\ faults' = faults
        /\ owed' = owed \union
                   Owed("board", {p \in BoardOpenings : job.listing[p] > 0} \ job.missed)
    BY DEF BoardDone, RecentOf
  <1> HIDE DEF rest, recs
  <1>5. /\ job' \in JobRows /\ job'.got = Compact(rest.got, recs)
        /\ job'.asks = rest.asks /\ job'.plan = rest.plan /\ job'.known = rest.known
        /\ job'.board = rest.board /\ job'.listing = rest.listing
        /\ job'.pending = rest.pending
        /\ job'.resolved = rest.resolved /\ job'.unsearched = rest.unsearched
    BY <1>2, <1>3, <1>4, Board, Receives
  <1> QED
    BY <1>2, <1>4, <1>5 DEF recs

LEMMA SearchReceives ==
  ASSUME TypeInv, NEW c \in Categories, NEW pairs, Answers(c, pairs)
  PROVE  /\ job' \in JobRows /\ job'.got = Compact(job.got, Found(pairs))
         /\ job'.unsearched = job.unsearched \ {c}
         /\ job'.asks = job.asks /\ job'.plan = job.plan /\ job'.known = job.known
         /\ UNCHANGED <<job.board, job.listing, job.pending, job.missed, job.resolved>>
  <1> DEFINE rest == [job EXCEPT !.unsearched = @ \ {c}]
             recs == Found(pairs)
  <1>1. job \in JobRows
    BY DEF TypeInv
  <1>2. /\ rest \in JobRows /\ rest.got = job.got
        /\ rest.unsearched = job.unsearched \ {c}
        /\ rest.asks = job.asks /\ rest.plan = job.plan /\ rest.known = job.known
        /\ rest.board = job.board /\ rest.listing = job.listing
        /\ rest.pending = job.pending /\ rest.missed = job.missed
        /\ rest.resolved = job.resolved
    BY <1>1 DEF JobRows
  <1>3. recs \subseteq Record
    BY Board, RecordTypes DEF Found, Listed
  <1>4. Receive("search", recs, rest)
    BY DEF Answers, Found
  <1> HIDE DEF rest, recs
  <1>5. /\ job' \in JobRows /\ job'.got = Compact(rest.got, recs)
        /\ job'.asks = rest.asks /\ job'.plan = rest.plan /\ job'.known = rest.known
        /\ job'.board = rest.board /\ job'.listing = rest.listing
        /\ job'.pending = rest.pending /\ job'.missed = rest.missed
        /\ job'.resolved = rest.resolved /\ job'.unsearched = rest.unsearched
    BY <1>2, <1>3, <1>4, Board, Receives
  <1> QED
    BY <1>2, <1>5 DEF recs

(* A search, answered in full or in part *)
LEMMA SearchedFacts ==
  ASSUME TypeInv, NEW c \in Categories, Searched(c)
  PROVE  /\ CollectStep /\ c \in job.unsearched
         /\ faults' \in {faults, faults + 1}
         /\ \E pairs : Answers(c, pairs)
         /\ \E ps \in SUBSET Listed("search") : owed' = owed \union Owed("search", ps)
  <1> DEFINE due(p) ==
        IF WithinBudget(c, job.asks) THEN Terms[p] \intersect SearchTitles[c] # {}
        ELSE Finds(job.plan.asked[c], p)
  <1>1. CASE SearchDone(c)
    <2> DEFINE ps == {p \in Listed("search") : due(p)}
    <2>1. owed' = owed \union Owed("search", ps)
      BY <1>1 DEF SearchDone
    <2>2. ps \subseteq Listed("search")
      OBVIOUS
    <2> HIDE DEF ps
    <2> QED
      BY <1>1, <2>1, <2>2 DEF SearchDone
  <1>2. CASE SearchOut(c)
    <2>1. PICK pairs \in SUBSET job.plan.asked[c] : SearchOutage(c, pairs)
      BY <1>2 DEF SearchOut
    <2> DEFINE ps == {p \in Listed("search") : Finds(pairs, p)}
    <2>2. owed' = owed \union Owed("search", ps)
      BY <2>1 DEF SearchOutage
    <2>3. ps \subseteq Listed("search")
      OBVIOUS
    <2> HIDE DEF ps
    <2> QED
      BY <2>1, <2>2, <2>3 DEF SearchOutage, Fault
  <1> QED
    BY <1>1, <1>2 DEF Searched

LEMMA CollectType ==
  ASSUME TypeInv, Collect
  PROVE  TypeInv'
  <1> DEFINE Kept == UNCHANGED <<now, world, events, details, pc, last, result, raw,
                                 processed, observed, staged, postings>>
  <1>1. ASSUME job' \in JobRows, owed' \subseteq JobIds, faults' \in {faults, faults + 1}, Kept
        PROVE  TypeInv'
    BY <1>1 DEF TypeInv
  <1>2. /\ job \in JobRows /\ owed \subseteq JobIds /\ faults \in Nat
        /\ world \in [Openings -> WorldRows]
    BY DEF TypeInv
  <1>3. CollectStep => Kept
    BY DEF CollectStep, outside, tables
  <1>4. /\ job.known \in [BoardOpenings -> DetailRows]
        /\ job.pending \subseteq BoardOpenings /\ job.resolved \subseteq Record
        /\ job.got \subseteq Record /\ job.missed \subseteq BoardOpenings
        /\ job.listing \in [BoardOpenings -> Nat]
        /\ job.unsearched \subseteq Categories
        /\ job.tries \in [{"board"} \union Categories -> Nat]
    BY <1>2 DEF JobRows
  <1> HIDE DEF Kept
  <1>5. ASSUME NEW asks \in Snapshots, NEW plan \in Plans(asks), StartRun(asks, plan)
        PROVE  TypeInv'
    <2>0. asks \in [Users -> Documents]
      BY CollectionAssumption
    <2>1. asks \in [Users -> Documents] /\ details \in [BoardOpenings -> DetailRows]
          /\ plan \in PlanRows /\ plan.cats \subseteq Categories
      BY <2>0, PlanTypes DEF TypeInv, PlanRows
    <2>2. job' = [Idle EXCEPT !.asks = asks, !.plan = plan, !.known = details,
                              !.board = "list", !.unsearched = plan.cats]
      BY <1>5 DEF StartRun
    <2>3. job' \in JobRows
      BY <2>1, <2>2, IdleType DEF JobRows
    <2>4. last' \in 0 .. MaxRuns /\ last' \in Runs
      BY <1>5, Bounds DEF StartRun, TypeInv, Runs
    <2>5. result' \in [Runs -> Results] /\ pc' \in Stages
      BY <1>5, <2>4 DEF StartRun, TypeInv, Results, Stages
    <2>6. owed' = {} /\ UNCHANGED <<now, world, events, details, raw, processed, observed,
                                    staged, postings, faults>>
      BY <1>5 DEF StartRun, outside, tables
    <2> QED
      BY <2>3, <2>4, <2>5, <2>6 DEF TypeInv
  <1>6. CASE ListBoard
    <2> DEFINE listed == Listed("board")
               cached == {p \in listed : Cached(p, world[p].updated)}
               listing == [p \in BoardOpenings |->
                             IF p \in listed THEN world[p].updated ELSE 0]
               resolved == {FromDetail(p, job.known[p]) : p \in cached}
               pending == listed \ (cached \union
                                    {p \in listed : TooOld(p, world[p].updated)})
    <2>1. listed \subseteq BoardOpenings
      BY DEF Listed, BoardOpenings
    <2>2. listing \in [BoardOpenings -> Nat]
      BY <1>2, Board DEF WorldRows
    <2>3. resolved \subseteq Record
      BY <1>4, <2>1, RecordTypes
    <2>4. pending \subseteq BoardOpenings
      BY <2>1
    <2>5. job' = [job EXCEPT !.board = "resolve", !.listing = listing,
                             !.pending = pending, !.resolved = resolved]
          /\ UNCHANGED <<owed, faults>> /\ CollectStep
      BY <1>6 DEF ListBoard
    <2> HIDE DEF listing, resolved, pending
    <2>6. job' \in JobRows
      BY <1>2, <2>2, <2>3, <2>4, <2>5 DEF JobRows
    <2> QED
      BY <1>1, <1>2, <1>3, <2>5, <2>6
  <1>7. CASE BoardOutage
    <2>1. job' \in JobRows
      BY <1>2, <1>7 DEF BoardOutage, JobRows
    <2> QED
      BY <1>1, <1>2, <1>3, <1>7, <2>1 DEF BoardOutage, Unanswered, Fault
  <1>8. ASSUME NEW p \in BoardOpenings, FetchDetail(p)
        PROVE  TypeInv'
    <2> DEFINE e == Entry(p)
    <2>1. e \in DetailRows
      BY <1>2, <1>4, Board DEF Entry, DetailRows, WorldRows
    <2>2. FromDetail(p, e) \in Record
      BY <2>1, RecordTypes
    <2>3. /\ job' = [job EXCEPT !.pending = @ \ {p}, !.known[p] = e,
                        !.updates = @ \union {p},
                        !.resolved = @ \union {FromDetail(p, e)}]
          /\ CollectStep /\ UNCHANGED <<owed, faults>>
      BY <1>8 DEF FetchDetail
    <2> HIDE DEF e
    <2>4. job' \in JobRows
      BY <1>2, <2>1, <2>2, <2>3 DEF JobRows
    <2> QED
      BY <1>1, <1>2, <1>3, <2>3, <2>4
  <1>9. ASSUME NEW p \in BoardOpenings, DetailFails(p)
        PROVE  TypeInv'
    <2>1. FromDetail(p, job.known[p]) \in Record
      BY <1>4, RecordTypes
    <2>2. job' \in JobRows
      BY <1>2, <1>9, <2>1 DEF DetailFails, JobRows
    <2>3. owed' = owed /\ faults' \in {faults, faults + 1} /\ CollectStep
      BY <1>9 DEF DetailFails, Fault
    <2> QED
      BY <1>1, <1>2, <1>3, <2>2, <2>3
  <1>10. CASE BoardDone
    <2> DEFINE shown == {p \in BoardOpenings : job.listing[p] > 0}
    <2>1. Owed("board", shown \ job.missed) \subseteq JobIds
      BY OwedType, Board
    <2>2. /\ job' \in JobRows /\ owed' = owed \union Owed("board", shown \ job.missed)
          /\ faults' = faults /\ CollectStep
      BY <1>10, BoardReceives
    <2> QED
      BY <1>1, <1>2, <1>3, <2>1, <2>2
  <1>11. CASE BoardRaises
    <2> DEFINE tries == job.tries["board"] + 1
    <2>1. tries \in Nat
      BY <1>4
    <2>2. <<"board", "all">> \in Sources \X ({"all"} \union Categories)
      BY Board
    <2>3. job' = [job EXCEPT !.tries["board"] = tries, !.pending = {}, !.missed = {},
               !.resolved = {},
               !.board = IF tries < MaxAttempts THEN "list" ELSE "done",
               !.errors = IF tries < MaxAttempts THEN @
                          ELSE @ \union {<<"board", "all">>}]
          /\ owed' = owed /\ faults' \in {faults, faults + 1} /\ CollectStep
      BY <1>11 DEF BoardRaises, Raises, Fault
    <2> HIDE DEF tries
    <2>4. job' \in JobRows
      BY <1>2, <2>1, <2>2, <2>3 DEF JobRows
    <2> QED
      BY <1>1, <1>2, <1>3, <2>3, <2>4
  <1>12. ASSUME NEW c \in Categories, Searched(c)
        PROVE  TypeInv'
    <2>1. PICK pairs : Answers(c, pairs)
      BY <1>12, SearchedFacts
    <2>2. job' \in JobRows
      BY <2>1, SearchReceives
    <2>3. PICK ps \in SUBSET Listed("search") : owed' = owed \union Owed("search", ps)
      BY <1>12, SearchedFacts
    <2>4. Owed("search", ps) \subseteq JobIds
      BY Board, OwedType DEF Listed
    <2>5. CollectStep /\ faults' \in {faults, faults + 1}
      BY <1>12, SearchedFacts
    <2> QED
      BY <1>1, <1>2, <1>3, <2>2, <2>3, <2>4, <2>5
  <1>14. ASSUME NEW c \in Categories, SearchRaises(c)
        PROVE  TypeInv'
    <2> DEFINE tries == job.tries[c] + 1
    <2>1. tries \in Nat
      BY <1>4
    <2>2. <<"search", c>> \in Sources \X ({"all"} \union Categories)
      BY Board
    <2>3. job' = (IF tries < MaxAttempts
              THEN [job EXCEPT !.tries[c] = tries]
              ELSE [job EXCEPT !.tries[c] = tries, !.unsearched = @ \ {c},
                               !.errors = @ \union {<<"search", c>>}])
          /\ owed' = owed /\ faults' \in {faults, faults + 1} /\ CollectStep
      BY <1>14 DEF SearchRaises, Raises, Fault
    <2> HIDE DEF tries
    <2>4. job' \in JobRows
      BY <1>2, <2>1, <2>2, <2>3 DEF JobRows
    <2> QED
      BY <1>1, <1>2, <1>3, <2>3, <2>4
  <1> QED
    BY <1>5, <1>6, <1>7, <1>8, <1>9, <1>10, <1>11, <1>12, <1>14, CollectCases DEF Started

-----------------------------------------------------------------------------
(* First and last days of staged rows *)

LEMMA Least ==
  ASSUME NEW S, S \subseteq Nat, S # {}
  PROVE  \E d \in S : \A e \in S : d <= e
  <1>1. IsWellFoundedOn(OpToRel(<, Nat), Nat)
    BY NatLessThanWellFounded
  <1>2. PICK d \in S : \A e \in S : ~ (<<e, d>> \in OpToRel(<, Nat))
    BY <1>1, WFMin
  <1>3. \A e \in S : ~ (e < d)
    BY <1>2 DEF OpToRel
  <1> QED
    BY <1>3

LEMMA Greatest ==
  ASSUME NEW S, S \subseteq Nat, S # {}, NEW n \in Nat, \A d \in S : d <= n
  PROVE  \E d \in S : \A e \in S : e <= d
  <1> DEFINE B == {b \in Nat : \A e \in S : e <= b}
  <1>1. PICK b \in B : \A c \in B : b <= c
    <2>1. n \in B
      OBVIOUS
    <2> QED
      BY <2>1, Least
  <1>2. b \in S
    <2>1. SUFFICES ASSUME b \notin S PROVE FALSE
      OBVIOUS
    <2>2. \A e \in S : e < b /\ e <= b - 1
      BY <2>1
    <2>3. b - 1 \in B
      <3>1. PICK e \in S : e < b
        BY <2>2
      <3> QED
        BY <2>2, <3>1
    <2> QED
      BY <1>1, <2>3
  <1> QED
    BY <1>1, <1>2

LEMMA SeenTimes ==
  ASSUME TypeInv, RowsInv, NEW j, StagedOf(j) # {}
  PROVE  /\ FirstSeen(j) \in Nat /\ LastSeen(j) \in Nat
         /\ \A row \in StagedOf(j) : row.at <= LastSeen(j)
  <1> DEFINE S == StagedOf(j)
             times == {row.at : row \in S}
  <1>1. \A row \in S : row.at \in Nat /\ row.at <= now
    <2>1. S \subseteq processed /\ S \subseteq SharedRows
      BY DEF StagedOf, RowsInv, TypeInv
    <2> QED
      BY <2>1 DEF RowsInv, SharedRows
  <1> HIDE DEF S
  <1>2. /\ times \subseteq Nat /\ times # {} /\ now \in Nat /\ \A t \in times : t <= now
    BY <1>1 DEF TypeInv, S
  <1> HIDE DEF times
  <1>3. /\ \E d \in times : \A e \in times : d <= e
        /\ \E d \in times : \A e \in times : e <= d
    BY <1>2, Least, Greatest
  <1>4. /\ \E row \in S : \A o \in S : row.at <= o.at
        /\ \E row \in S : \A o \in S : o.at <= row.at
    BY <1>3 DEF times
  <1> DEFINE low == CHOOSE row \in S : \A o \in S : row.at <= o.at
             high == CHOOSE row \in S : \A o \in S : o.at <= row.at
  <1>5. low \in S
    BY <1>4
  <1>6. high \in S /\ \A o \in S : o.at <= high.at
    BY <1>4
  <1>7. FirstSeen(j) = low.at /\ LastSeen(j) = high.at
    BY DEF FirstSeen, LastSeen, S
  <1> HIDE DEF low, high
  <1> QED
    BY <1>1, <1>5, <1>6, <1>7 DEF S

(* The rows of this refresh, of one job *)
Mine(j) == {row \in staged : row.run = last /\ row.job = j}

LEMMA PublishFacts ==
  ASSUME TypeInv, RowsInv, Publish, NEW j \in JobIds
  PROVE  /\ postings'[j] \in PostingRows
         /\ postings[j].last <= postings'[j].last
         /\ Mine(j) = {} =>
              /\ postings'[j].run = postings[j].run
              /\ postings'[j].version = postings[j].version
              /\ postings'[j].last = postings[j].last
              /\ postings[j].active /\ ~ postings'[j].active => Overdue(postings[j])
         /\ Mine(j) # {} =>
              /\ postings'[j].run = last /\ postings'[j].active
              /\ \E row \in Mine(j) : postings'[j].version = row.version
              /\ \A row \in StagedOf(j) : row.at <= postings'[j].last
  <1> DEFINE rows == MartRows(last)
             row(k) == CHOOSE x \in rows : x.job = k
             new(k) == IF \E x \in rows : x.job = k THEN Upserted(postings[k], row(k))
                       ELSE postings[k]
  <1>1. postings'[j] = IF Overdue(new(j)) THEN [new(j) EXCEPT !.active = FALSE] ELSE new(j)
    BY DEF Publish
  <1>2. {x \in rows : x.job = j} = Mine(j)
    <2>1. ASSUME NEW x \in staged, NEW other \in staged
          PROVE  other.at <= x.at
      <3>1. x \in processed /\ other \in processed /\ other.run = last /\ x.run = last
        BY DEF RowsInv, Publish, Goto, OfRun
      <3> QED
        BY <3>1, Bounds DEF RowsInv, TypeInv
    <2> QED
      BY <2>1 DEF MartRows, OfRun, Canonical, StagedOf, Mine
  <1>3. postings[j] \in PostingRows /\ last \in Nat
    BY Bounds DEF TypeInv
  <1> HIDE DEF rows
  <1>4. CASE Mine(j) = {}
    <2>1. new(j) = postings[j]
      BY <1>2, <1>4
    <2> DEFINE old == postings[j]
               gone == [old EXCEPT !.active = FALSE]
    <2> HIDE DEF new
    <2>2. postings'[j] = IF Overdue(old) THEN gone ELSE old
      BY <1>1, <2>1
    <2>3. old \in PostingRows
      BY <1>3
    <2> HIDE DEF old
    <2>4. /\ gone \in PostingRows /\ gone.run = old.run /\ gone.version = old.version
          /\ gone.last = old.last
      BY <2>3 DEF PostingRows
    <2>5. old.last <= old.last
      BY <2>3 DEF PostingRows
    <2> HIDE DEF gone
    <2>6. /\ postings'[j] \in PostingRows /\ postings'[j].run = old.run
          /\ postings'[j].version = old.version /\ postings'[j].last = old.last
      BY <2>2, <2>3, <2>4
    <2>7. ~ Overdue(old) => postings'[j] = old
      BY <2>2
    <2>8. postings[j].active /\ ~ postings'[j].active => Overdue(postings[j])
      BY <2>7, Zenon DEF old
    <2>9. postings[j].last <= postings'[j].last
      BY <2>5, <2>6 DEF old
    <2> QED
      BY <1>4, <2>6, <2>8, <2>9 DEF old
  <1>5. CASE Mine(j) # {}
    <2>1. row(j) \in Mine(j) /\ new(j) = Upserted(postings[j], row(j))
      BY <1>2, <1>5
    <2> HIDE DEF row
    <2>2. row(j).job = j /\ row(j).version \in Nat /\ StagedOf(j) # {}
      BY <2>1 DEF Mine, TypeInv, SharedRows, StagedOf
    <2>3. /\ FirstSeen(j) \in Nat /\ LastSeen(j) \in Nat
          /\ \A x \in StagedOf(j) : x.at <= LastSeen(j)
      BY <2>2, SeenTimes
    <2>4. /\ new(j).run = last /\ new(j).version = row(j).version /\ new(j).active = TRUE
          /\ new(j).last = Upper(postings[j].last, LastSeen(j))
          /\ new(j) \in PostingRows
      BY <1>3, <2>1, <2>2, <2>3 DEF Upserted, Upper, Lower, PostingRows
    <2>5. /\ new(j).last \in Nat /\ postings[j].last <= new(j).last
          /\ LastSeen(j) <= new(j).last
      BY <1>3, <2>3, <2>4 DEF Upper, PostingRows
    <2> HIDE DEF new
    <2>6. postings'[j] = new(j)
      BY <1>1, <2>4 DEF Overdue
    <2>7. \A x \in StagedOf(j) : x.at <= new(j).last
      <3> SUFFICES ASSUME NEW x \in StagedOf(j) PROVE x.at <= new(j).last
        OBVIOUS
      <3>1. x.at \in Nat
        BY DEF StagedOf, TypeInv, SharedRows
      <3> QED
        BY <2>3, <2>5, <3>1
    <2> QED
      BY <1>5, <2>1, <2>4, <2>5, <2>6, <2>7
  <1> QED
    BY <1>4, <1>5

LEMMA KeepType ==
  ASSUME TypeInv, RowsInv, Keep
  PROVE  TypeInv'
  <1> USE DEF outside, tables, Goto
  <1>1. /\ job \in JobRows /\ job.got \subseteq Record /\ faults \in Nat
        /\ job.known \in [BoardOpenings -> DetailRows]
    BY DEF TypeInv, JobRows
  <1>2. CASE WriteDetails
    BY <1>1, <1>2 DEF WriteDetails, TypeInv, Stages
  <1>3. CASE Filter
    <2>1. job' \in JobRows
      BY <1>1, <1>3 DEF Filter, Fresh, JobRows
    <2> QED
      BY <1>3, <2>1 DEF Filter, TypeInv, Stages
  <1>4. pc # "idle" => last \in Runs /\ last \in Nat
    BY Bounds DEF RowsInv, TypeInv, Runs
  <1>5. CASE WriteRaw
    <2>1. \A rec \in job.got : Raw(rec) \in RawRows
      BY <1>1, <1>4, <1>5, RecordTypes DEF WriteRaw, Raw, RawRows, Record
    <2> QED
      BY <1>5, <2>1 DEF WriteRaw, TypeInv, Stages
  <1>6. CASE WriteProcessed
    <2>1. \A rec \in job.got : Row(rec) \in SharedRows
      BY <1>1, <1>4, <1>6, RecordTypes DEF WriteProcessed, Row, SharedRows, Record, TypeInv
    <2>2. PICK kept \in SUBSET job.got :
            processed' = processed \union {Row(rec) : rec \in kept}
      BY <1>6 DEF WriteProcessed, Deduplications
    <2> QED
      BY <1>6, <2>1, <2>2 DEF WriteProcessed, TypeInv, Stages
  <1>7. CASE WriteObservations
    BY <1>7 DEF WriteObservations, TypeInv, Stages, OfRun
  <1>8. CASE BuildShared
    BY <1>8 DEF BuildShared, TypeInv, Stages, OfRun
  <1>9. CASE Publish
    <2>1. postings' \in [JobIds -> PostingRows]
      <3>1. postings' = [j \in JobIds |-> postings'[j]]
        BY <1>9 DEF Publish
      <3>2. \A j \in JobIds : postings'[j] \in PostingRows
        BY <1>9, PublishFacts
      <3> QED
        BY <3>1, <3>2
    <2> QED
      BY <1>9, <2>1 DEF Publish, TypeInv, Stages
  <1>10. CASE CompleteRun
    <2>1. RunStatus(job.fetched, job.errors) \in Results
      BY DEF RunStatus, Results, Answered
    <2> QED
      BY <1>4, <1>10, <2>1, IdleType DEF CompleteRun, TypeInv, Stages
  <1>11. CASE FailRun
    BY <1>1, <1>4, <1>11, IdleType DEF FailRun, Fault, TypeInv, Stages, Results
  <1> QED
    BY <1>2, <1>3, <1>5, <1>6, <1>7, <1>8, <1>9, <1>10, <1>11 DEF Keep

LEMMA TypeStep ==
  ASSUME TypeInv, RowsInv, [Next]_vars
  PROVE  TypeInv'
  <1>1. CASE UNCHANGED vars
    BY <1>1 DEF vars, outside, tables, TypeInv
  <1> QED
    BY <1>1, OutsideType, CollectType, KeepType DEF Next

-----------------------------------------------------------------------------
(* What a step leaves alone, and what the others may change meanwhile *)

WorldMoves(p) ==
  /\ world[p].updated <= world'[p].updated
  /\ Posted(p) => Posted(p)' /\ world'[p].published = world[p].published
  /\ world'[p].updated = world[p].updated => world'[p].version = world[p].version

LEMMA OutsideShape ==
  ASSUME TypeInv, WorldInv, Outside
  PROVE  /\ \A p \in Openings : WorldMoves(p)
         /\ now' \in Nat /\ now <= now'
         /\ UNCHANGED <<details, pc, last, result, job, tables, postings, owed, faults>>
         /\ WorldInv'
  <1> DEFINE Moves == /\ \A q \in Openings : WorldMoves(q)
                      /\ now' \in Nat /\ now <= now'
                      /\ UNCHANGED <<details, pc, last, result, job, tables, postings,
                                     owed, faults>>
                      /\ WorldInv'
  <1>1. world \in [Openings -> WorldRows] /\ now \in Nat /\ now > 0
    BY DEF TypeInv
  <1>2. \A p \in Openings : world[p] \in WorldRows
    BY <1>1
  <1>3. Tick => Moves
    BY <1>1, <1>2 DEF Tick, WorldMoves, WorldInv, WorldRows, Posted
  <1>4. ASSUME NEW p \in Openings, NEW row \in WorldRows, World(p, row),
               world[p].updated <= row.updated,
               Posted(p) => row.version > 0 /\ row.published = world[p].published,
               row.updated = world[p].updated => row.version = world[p].version,
               row.published <= row.updated, row.updated <= now,
               row.listed => row.version > 0 /\ row.updated > 0
        PROVE  Moves
    <2>1. world' \in [Openings -> WorldRows] /\ now' = now /\ world'[p] = row
          /\ \A q \in Openings : q # p => world'[q] = world[q]
      BY <1>1, <1>4 DEF World
    <2>2. \A q \in Openings : WorldMoves(q)
      <3> SUFFICES ASSUME NEW q \in Openings PROVE WorldMoves(q)
        OBVIOUS
      <3>1. CASE q = p
        BY <1>4, <2>1, <3>1 DEF WorldMoves, Posted
      <3>2. CASE q # p
        BY <1>2, <2>1, <3>2 DEF WorldMoves, Posted, WorldRows
      <3> QED
        BY <3>1, <3>2
    <2>3. WorldInv'
      <3> SUFFICES ASSUME NEW q \in Openings
                   PROVE  /\ world'[q].published <= world'[q].updated
                          /\ world'[q].updated <= now'
                          /\ world'[q].listed => Posted(q)' /\ world'[q].updated > 0
        BY DEF WorldInv
      <3>1. CASE q = p
        BY <1>4, <2>1, <3>1 DEF Posted
      <3>2. CASE q # p
        BY <2>1, <3>2 DEF WorldInv, Posted
      <3> QED
        BY <3>1, <3>2
    <2> QED
      BY <1>1, <1>4, <2>1, <2>2, <2>3 DEF World
  <1> HIDE DEF Moves
  <1>5. ASSUME NEW p \in Openings, Post(p)
        PROVE  Moves
    <2> DEFINE row == [listed |-> TRUE, published |-> now, updated |-> now, version |-> 1]
    <2>1. row \in WorldRows /\ row.updated = now /\ row.published = now /\ row.version = 1
      BY <1>1 DEF WorldRows
    <2>2. World(p, row) /\ world[p].updated = 0 /\ ~ Posted(p)
      BY <1>5 DEF Post, Hidden, Posted
    <2> HIDE DEF row
    <2> QED
      BY <1>1, <1>4, <2>1, <2>2
  <1>6. ASSUME NEW p \in Openings, Revise(p)
        PROVE  Moves
    <2> DEFINE row == [world[p] EXCEPT !.updated = now, !.version = @ + 1]
    <2>1. row \in WorldRows /\ row.updated = now /\ row.published = world[p].published
          /\ row.version = world[p].version + 1
      <3>1. world[p] \in WorldRows /\ world[p].version \in Nat /\ now \in Nat
        BY <1>1, <1>2 DEF WorldRows
      <3>2. world[p].version + 1 \in Nat
        BY <3>1
      <3> QED
        BY <3>1, <3>2 DEF WorldRows
    <2>2. World(p, row) /\ world[p].updated < now
      BY <1>6 DEF Revise
    <2>3. /\ world[p].updated \in Nat /\ world[p].published \in Nat /\ world[p].version \in Nat
          /\ world[p].published <= world[p].updated
      BY <1>2 DEF WorldInv, WorldRows
    <2> HIDE DEF row
    <2> QED
      BY <1>1, <1>4, <2>1, <2>2, <2>3
  <1>7. ASSUME NEW p \in Openings, Withdraw(p)
        PROVE  Moves
    <2> DEFINE row == [world[p] EXCEPT !.listed = FALSE]
    <2>1. row \in WorldRows /\ row.updated = world[p].updated
          /\ row.published = world[p].published /\ row.version = world[p].version
          /\ row.listed = FALSE
      BY <1>2 DEF WorldRows
    <2>2. World(p, row)
      BY <1>7 DEF Withdraw
    <2>3. /\ world[p].updated \in Nat /\ world[p].published \in Nat /\ world[p].version \in Nat
          /\ world[p].published <= world[p].updated /\ world[p].updated <= now
      BY <1>2 DEF WorldInv, WorldRows
    <2> HIDE DEF row
    <2> QED
      BY <1>1, <1>4, <2>1, <2>2, <2>3 DEF Posted
  <1>8. Moves
    BY <1>3, <1>5, <1>6, <1>7 DEF Outside
  <1> QED
    BY <1>8 DEF Moves

LEMMA InsideShape ==
  ASSUME Collect \/ Keep
  PROVE  /\ UNCHANGED outside
         /\ Collect => UNCHANGED <<details, tables, postings>>
         /\ Collect => Started \/ (CollectStep /\ UNCHANGED <<pc, last, result>>)
  <1>1. CASE Collect
    <2>1. Started \/ CollectStep
      BY <1>1 DEF Collect, Started, ListBoard, BoardOutage, Unanswered, BoardDone, BoardRaises,
        FetchDetail, DetailFails, SearchDone, SearchOutage, SearchRaises
    <2>2. CASE Started
      BY <2>2 DEF Started, StartRun
    <2>3. CASE CollectStep
      BY <2>3 DEF CollectStep
    <2> QED
      BY <2>1, <2>2, <2>3
  <1>2. CASE Keep
    <2>1. UNCHANGED outside
      BY <1>2 DEF Keep, Goto, WriteDetails, Filter, WriteRaw, WriteProcessed,
        WriteObservations, BuildShared, Publish, CompleteRun, FailRun
    <2> QED
      BY <1>1, <2>1
  <1> QED
    BY <1>1, <1>2

LEMMA WorldStep ==
  ASSUME TypeInv, WorldInv, [Next]_vars
  PROVE  WorldInv'
  <1>1. world' = world /\ now' = now => WorldInv'
    BY DEF WorldInv, Posted
  <1> QED
    BY <1>1, OutsideShape, InsideShape DEF Next, vars, outside

-----------------------------------------------------------------------------
(* What is remembered of the board *)

(* What each step makes of the details in memory *)
LEMMA KnownSteps ==
  ASSUME TypeInv
  PROVE  /\ Started => job'.known = details /\ job'.listing = [p \in BoardOpenings |-> 0]
         /\ ListBoard =>
              /\ job'.known = job.known
              /\ \A p \in BoardOpenings :
                   job'.listing[p] = IF world[p].listed THEN world[p].updated ELSE 0
         /\ \A p \in BoardOpenings : FetchDetail(p) =>
              /\ job'.known = [job.known EXCEPT ![p] = Entry(p)]
              /\ job'.listing = job.listing
         /\ (\E p \in BoardOpenings : DetailFails(p)) =>
              job'.known = job.known /\ job'.listing = job.listing
         /\ BoardOutage \/ BoardDone \/ BoardRaises =>
              job'.known = job.known /\ job'.listing = job.listing
         /\ (\E c \in Categories : Searched(c) \/ SearchRaises(c)) =>
              job'.known = job.known /\ job'.listing = job.listing
         /\ Filter => job'.known = job.known /\ job'.listing = job.listing
  <1>1. job \in JobRows
    BY DEF TypeInv
  <1>2. Started => job'.known = details /\ job'.listing = [p \in BoardOpenings |-> 0]
    <2>1. Idle.listing = [p \in BoardOpenings |-> 0]
      BY DEF Idle
    <2> QED
      BY <2>1, IdleType DEF Started, StartRun, JobRows
  <1>3. ListBoard =>
          /\ job'.known = job.known
          /\ \A p \in BoardOpenings :
               job'.listing[p] = IF world[p].listed THEN world[p].updated ELSE 0
    <2> SUFFICES ASSUME ListBoard
                 PROVE  /\ job'.known = job.known
                        /\ \A p \in BoardOpenings :
                             job'.listing[p] = IF world[p].listed THEN world[p].updated
                                               ELSE 0
      OBVIOUS
    <2> DEFINE listing == [p \in BoardOpenings |->
                             IF p \in Listed("board") THEN world[p].updated ELSE 0]
    <2>1. PICK pending, resolved :
            job' = [job EXCEPT !.board = "resolve", !.listing = listing,
                               !.pending = pending, !.resolved = resolved]
      BY DEF ListBoard
    <2>2. \A p \in BoardOpenings :
            listing[p] = IF world[p].listed THEN world[p].updated ELSE 0
      BY DEF Listed, BoardOpenings
    <2> HIDE DEF listing
    <2> QED
      BY <1>1, <2>1, <2>2 DEF JobRows
  <1>4. \A p \in BoardOpenings : FetchDetail(p) =>
          /\ job'.known = [job.known EXCEPT ![p] = Entry(p)]
          /\ job'.listing = job.listing
    BY <1>1 DEF FetchDetail, JobRows
  <1>5. (\E p \in BoardOpenings : DetailFails(p)) =>
          job'.known = job.known /\ job'.listing = job.listing
    BY <1>1 DEF DetailFails, JobRows
  <1>6. BoardOutage \/ BoardDone \/ BoardRaises =>
          job'.known = job.known /\ job'.listing = job.listing
    BY <1>1, BoardReceives DEF BoardOutage, BoardRaises, JobRows
  <1>7. (\E c \in Categories : Searched(c) \/ SearchRaises(c)) =>
          job'.known = job.known /\ job'.listing = job.listing
    <2>1. ASSUME NEW c \in Categories, Searched(c)
          PROVE  job'.known = job.known /\ job'.listing = job.listing
      BY <2>1, SearchedFacts, SearchReceives
    <2>2. ASSUME NEW c \in Categories, SearchRaises(c)
          PROVE  job'.known = job.known /\ job'.listing = job.listing
      BY <1>1, <2>2 DEF SearchRaises, JobRows
    <2> QED
      BY <2>1, <2>2
  <1>8. Filter => job'.known = job.known /\ job'.listing = job.listing
    BY <1>1 DEF Filter, JobRows
  <1> QED
    BY <1>2, <1>3, <1>4, <1>5, <1>6, <1>7, <1>8

LEMMA DetailStep ==
  ASSUME TypeInv, WorldInv, DetailInv, [Next]_vars
  PROVE  DetailInv'
  <1>1. /\ world \in [Openings -> WorldRows] /\ details \in [BoardOpenings -> DetailRows]
        /\ job.known \in [BoardOpenings -> DetailRows]
        /\ job.listing \in [BoardOpenings -> Nat]
    BY DEF TypeInv, JobRows
  <1>2. \A p \in BoardOpenings : world[p] \in WorldRows /\ p \in Openings
    BY <1>1, Board
  <1>3. \A p \in BoardOpenings : DetailOk(p, NoDetail)
    BY DEF DetailOk, Known, NoDetail
  <1>4. CASE UNCHANGED vars
    BY <1>4 DEF vars, outside, DetailInv, DetailOk, ListingOk, Posted
  <1>5. CASE Outside
    <2> SUFFICES ASSUME NEW p \in BoardOpenings
                 PROVE  (DetailOk(p, details[p]) /\ DetailOk(p, job.known[p]) /\ ListingOk(p))'
      BY DEF DetailInv
    <2>1. WorldMoves(p) /\ details' = details /\ job' = job
      BY <1>2, <1>5, OutsideShape
    <2>2. /\ world[p].updated \in Nat /\ world'[p].updated \in Nat
          /\ details[p].updated \in Nat /\ job.known[p].updated \in Nat
          /\ job.listing[p] \in Nat
      BY <1>1, <1>2, <1>5, OutsideType, Board DEF WorldRows, DetailRows, TypeInv
    <2>3. ASSUME NEW entry, DetailOk(p, entry), entry.updated \in Nat
          PROVE  Known(entry) =>
                   /\ Posted(p)' /\ entry.published = world'[p].published
                   /\ entry.updated <= world'[p].updated
                   /\ entry.updated = world'[p].updated => entry.version = world'[p].version
      BY <2>1, <2>2, <2>3 DEF WorldMoves, DetailOk
    <2>4. DetailOk(p, details[p])' /\ DetailOk(p, job.known[p])'
      BY <2>1, <2>2, <2>3 DEF DetailInv, DetailOk
    <2>5. ListingOk(p)'
      BY <2>1, <2>2 DEF WorldMoves, ListingOk, DetailInv
    <2> QED
      BY <2>4, <2>5
  <1>6. ASSUME world' = world, job'.known = job.known, job'.listing = job.listing,
               details' = details
        PROVE  DetailInv'
    BY <1>6 DEF DetailInv, DetailOk, ListingOk, Posted
  <1>7. CASE Collect
    <2>1. world' = world /\ details' = details
      BY <1>7, InsideShape DEF outside
    <2>2. CASE Started
      BY <2>1, <2>2, KnownSteps DEF DetailInv, DetailOk, ListingOk, Posted
    <2>3. CASE ListBoard
      <3>1. ASSUME NEW p \in BoardOpenings PROVE ListingOk(p)'
        <4>1. job'.listing[p] = IF world[p].listed THEN world[p].updated ELSE 0
          BY <2>3, KnownSteps
        <4>2. world[p].updated \in Nat /\ world[p].published \in Nat
          BY <1>2 DEF WorldRows
        <4> QED
          BY <1>2, <2>1, <4>1, <4>2 DEF ListingOk, WorldInv, Posted
      <3> QED
        BY <2>1, <2>3, <3>1, KnownSteps DEF DetailInv, DetailOk, Posted
    <2>4. ASSUME NEW p \in BoardOpenings, FetchDetail(p) PROVE DetailInv'
      <3>1. /\ job'.known = [job.known EXCEPT ![p] = Entry(p)]
            /\ job'.listing = job.listing
        BY <2>4, KnownSteps
      <3>2. job.listing[p] \in Nat /\ world[p].updated \in Nat
        BY <1>1, <1>2 DEF WorldRows
      <3>3. Entry(p).version = world[p].version /\ Entry(p).published = world[p].published
            /\ Entry(p).updated = job.listing[p]
        BY DEF Entry
      <3>4. job.listing[p] <= world[p].updated
        BY <3>2 DEF DetailInv, ListingOk
      <3>5. DetailOk(p, Entry(p))
        BY <3>3, <3>4 DEF DetailOk, Known, Posted
      <3>6. \A q \in BoardOpenings : DetailOk(q, job'.known[q])
        BY <1>1, <3>1, <3>5 DEF DetailInv
      <3> QED
        BY <2>1, <3>1, <3>6 DEF DetailInv, DetailOk, ListingOk, Posted
    <2>5. ASSUME NEW p \in BoardOpenings, DetailFails(p) PROVE DetailInv'
      BY <1>6, <2>1, <2>5, KnownSteps
    <2>6. CASE BoardOutage \/ BoardDone \/ BoardRaises
      BY <1>6, <2>1, <2>6, KnownSteps
    <2>7. ASSUME NEW c \in Categories, Searched(c) \/ SearchRaises(c)
          PROVE  DetailInv'
      BY <1>6, <2>1, <2>7, KnownSteps
    <2> QED
      BY <1>7, <2>2, <2>3, <2>4, <2>5, <2>6, <2>7, CollectCases
  <1>8. CASE Keep
    <2>1. world' = world
      BY <1>8, InsideShape DEF outside
    <2>2. CASE WriteDetails
      <3>1. job' = job /\ \A p \in BoardOpenings : details'[p] \in {details[p], job.known[p]}
        BY <2>2 DEF WriteDetails
      <3> QED
        BY <2>1, <3>1 DEF DetailInv, DetailOk, ListingOk, Posted
    <2>3. CASE Filter
      <3>1. details' = details
        BY <2>3 DEF Filter
      <3> QED
        BY <1>6, <2>1, <2>3, <3>1, KnownSteps
    <2>4. CASE WriteRaw \/ WriteProcessed \/ WriteObservations \/ BuildShared \/ Publish
      BY <1>6, <2>1, <2>4 DEF WriteRaw, WriteProcessed, WriteObservations, BuildShared, Publish
    <2>5. CASE CompleteRun \/ FailRun
      <3>1. job' = Idle /\ details' = details
        BY <2>5 DEF CompleteRun, FailRun
      <3>2. \A p \in BoardOpenings : Idle.known[p] = NoDetail /\ Idle.listing[p] = 0
        BY DEF Idle
      <3> QED
        BY <1>3, <2>1, <3>1, <3>2 DEF DetailInv, DetailOk, ListingOk, Posted
    <2> QED
      BY <1>8, <2>2, <2>3, <2>4, <2>5 DEF Keep
  <1> QED
    BY <1>4, <1>5, <1>7, <1>8 DEF Next

-----------------------------------------------------------------------------
(* The rows a run writes *)

LEMMA RowTypes ==
  ASSUME TypeInv
  PROVE  /\ last \in Nat /\ now \in Nat
         /\ \A row \in processed : row.run \in Nat /\ row.run \in Runs /\ row.at \in Nat
         /\ \A j \in JobIds : postings[j].last \in Nat /\ postings[j].run \in Nat
  BY Bounds DEF TypeInv, SharedRows, PostingRows, Runs

(* The build leaves the rows of this run: those of earlier runs are not    *)
(* later, and are purged.                                                  *)
LEMMA BuiltRows ==
  ASSUME TypeInv, RowsInv, BuildShared
  PROVE  staged' = OfRun(processed, last)
  <1> DEFINE new == {row \in OfRun(processed, last) : \A old \in staged : old.at <= row.at}
  <1>1. staged' = OfRun(staged \union new, last)
    BY DEF BuildShared
  <1>2. staged \subseteq processed
    BY DEF RowsInv
  <1>3. ASSUME NEW row \in OfRun(processed, last), NEW old \in staged
        PROVE  old.at <= row.at
    <2>1. row \in processed /\ row.run = last
      BY DEF OfRun
    <2>2. old \in processed /\ old.run <= row.run
      BY <1>2, <2>1 DEF RowsInv
    <2> QED
      BY <2>1, <2>2 DEF RowsInv
  <1>4. new = OfRun(processed, last)
    BY <1>3
  <1> QED
    BY <1>1, <1>2, <1>4 DEF OfRun

LEMMA RowsStep ==
  ASSUME TypeInv, WorldInv, RowsInv, [Next]_vars
  PROVE  RowsInv'
  <1> USE DEF outside, tables
  <1>0. /\ last \in Nat /\ now \in Nat
        /\ \A row \in processed :
             row.run \in Nat /\ row.at \in Nat /\ row.run <= last /\ row.at <= now
    BY RowTypes DEF RowsInv
  <1>1. CASE UNCHANGED vars
    BY <1>1 DEF vars, RowsInv, OfRun, Raw
  <1>2. CASE Outside
    <2>1. /\ now' \in Nat /\ now <= now'
          /\ UNCHANGED <<pc, last, result, job, raw, processed, observed, staged>>
      BY <1>2, OutsideShape
    <2>2. \A row \in processed : row.at <= now'
      BY <1>0, <2>1
    <2> QED
      BY <2>1, <2>2 DEF RowsInv, OfRun, Raw
  <1>3. CASE Started
    <2>1. /\ pc' = "collect" /\ last' = last + 1 /\ result'[last'] = "running"
          /\ UNCHANGED <<now, raw, processed, observed, staged>>
      <3>1. last < MaxRuns /\ last' = last + 1 /\ last' \in Runs
        BY <1>3, Bounds DEF Started, StartRun, TypeInv, Runs
      <3> QED
        BY <1>3, <3>1 DEF Started, StartRun, TypeInv
    <2>2. \A row \in processed : row.run < last' /\ row.run <= last'
      BY <1>0, <2>1
    <2>3. last' > 0
      BY <1>0, <2>1
    <2> QED
      BY <2>1, <2>2, <2>3 DEF RowsInv
  <1>4. CASE CollectStep
    BY <1>4 DEF CollectStep, Collecting, RowsInv
  <1>5. CASE Keep
    <2> USE DEF Goto
    <2>1. CASE WriteDetails \/ Filter
      BY <2>1 DEF WriteDetails, Filter, RowsInv, Unwritten
    <2>2. CASE WriteRaw
      BY <2>2 DEF WriteRaw, RowsInv, Unwritten, Raw
    <2>3. CASE WriteProcessed
      <3>0. PICK recs \in Deduplications(job.got) :
              processed' = processed \union {Row(rec) : rec \in recs}
        BY <2>3 DEF WriteProcessed
      <3> DEFINE new == {Row(rec) : rec \in recs}
      <3>1. /\ pc = "shared" /\ pc' = "observe" /\ processed' = processed \union new
            /\ UNCHANGED <<now, last, result, job, raw, observed, staged>>
        BY <2>3, <3>0 DEF WriteProcessed
      <3>2. ASSUME NEW row \in new
            PROVE  /\ row.run = last /\ row.at = now
                   /\ [run |-> row.run, job |-> row.job, version |-> row.version] \in raw
        <4>1. PICK rec \in job.got : row = Row(rec)
          BY DEF Deduplications
        <4>2. Raw(rec) \in raw
          BY <3>1 DEF RowsInv
        <4> QED
          BY <4>1, <4>2 DEF Row, Raw
      <3>3. \A row \in processed : row.run < last /\ row.at <= now
        BY <3>1 DEF RowsInv, Unwritten
      <3> HIDE DEF new
      <3>4. \A row \in processed' : row.run <= last /\ row.at <= now
        <4> SUFFICES ASSUME NEW row \in processed' PROVE row.run <= last /\ row.at <= now
          OBVIOUS
        <4>1. CASE row \in processed
          BY <1>0, <4>1
        <4>2. CASE row \in new
          <5>1. row.run = last /\ row.at = now
            BY <3>2, <4>2
          <5> QED
            BY <1>0, <5>1
        <4> QED
          BY <3>1, <4>1, <4>2
      <3>5. ASSUME NEW row \in processed', NEW other \in processed', row.run <= other.run
            PROVE  row.at <= other.at
        <4>1. CASE other \in new
          BY <3>2, <3>4, <4>1
        <4>2. CASE other \in processed /\ row \in processed
          BY <3>5, <4>2 DEF RowsInv
        <4>3. CASE other \in processed /\ row \in new
          <5>1. row.run = last /\ other.run < last
            BY <3>2, <3>3, <4>3
          <5>2. other.run \in Nat
            BY <1>0, <4>3
          <5> QED
            BY <1>0, <3>5, <5>1, <5>2
        <4> QED
          BY <3>1, <4>1, <4>2, <4>3
      <3>6. \A row \in processed' :
              [run |-> row.run, job |-> row.job, version |-> row.version] \in raw
        BY <3>1, <3>2 DEF RowsInv
      <3> QED
        BY <3>1, <3>4, <3>5, <3>6 DEF RowsInv, Unwritten
    <2>4. CASE WriteObservations
      BY <2>4 DEF WriteObservations, RowsInv, Unwritten, OfRun
    <2>5. CASE BuildShared
      <3>1. staged' = OfRun(processed, last)
        BY <2>5, BuiltRows
      <3>2. OfRun(processed, last) \subseteq observed /\ OfRun(processed, last) \subseteq processed
        BY <2>5 DEF BuildShared, RowsInv, OfRun
      <3> QED
        BY <2>5, <3>1, <3>2 DEF BuildShared, RowsInv, Unwritten, OfRun
    <2>6. CASE Publish
      BY <2>6 DEF Publish, RowsInv, Unwritten, OfRun
    <2>7. CASE CompleteRun \/ FailRun
      BY <2>7 DEF CompleteRun, FailRun, RowsInv, Unwritten
    <2> QED
      BY <1>5, <2>1, <2>2, <2>3, <2>4, <2>5, <2>6, <2>7 DEF Keep
  <1>6. Collect => Started \/ CollectStep
    BY InsideShape
  <1> QED
    BY <1>1, <1>2, <1>3, <1>4, <1>5, <1>6 DEF Next

LEMMA SeenStep ==
  ASSUME TypeInv, WorldInv, RowsInv, SeenInv, [Next]_vars
  PROVE  SeenInv'
  <1> USE DEF outside, tables
  <1>1. observed \subseteq processed /\ observed \subseteq SharedRows
    BY DEF RowsInv, TypeInv
  <1>0. /\ last \in Nat
        /\ \A row \in observed : row.run \in Nat /\ row.run \in Runs /\ row.run <= last
    BY <1>1, RowTypes DEF RowsInv
  <1>2. CASE UNCHANGED vars
    BY <1>2 DEF vars, SeenInv
  <1>3. CASE Outside
    BY <1>3, OutsideShape DEF SeenInv
  <1>4. CASE Started
    <2>1. /\ pc' = "collect" /\ result' = [result EXCEPT ![last + 1] = "running"]
          /\ UNCHANGED <<observed, postings>>
      BY <1>4 DEF Started, StartRun
    <2>2. \A row \in observed : result'[row.run] = result[row.run]
      <3>1. \A row \in observed : row.run \in Runs /\ row.run # last + 1
        BY <1>0
      <3> QED
        BY <2>1, <3>1 DEF TypeInv
    <2> QED
      BY <2>1, <2>2 DEF SeenInv
  <1>5. CASE CollectStep
    BY <1>5 DEF CollectStep, SeenInv
  <1>6. CASE Keep
    <2> USE DEF Goto
    <2>1. CASE WriteDetails \/ Filter \/ WriteRaw \/ WriteProcessed \/ BuildShared
      BY <2>1 DEF WriteDetails, Filter, WriteRaw, WriteProcessed, BuildShared, SeenInv
    <2>2. CASE WriteObservations
      <3>1. /\ pc' = "build" /\ observed' = observed \union OfRun(processed, last)
            /\ UNCHANGED <<last, result, postings>> /\ result[last] = "running"
        BY <2>2 DEF WriteObservations, RowsInv
      <3>2. \A row \in observed' : result'[row.run] \in Answered => row \in observed
        BY <3>1 DEF OfRun, Answered
      <3> QED
        BY <3>1, <3>2 DEF SeenInv
    <2>3. CASE Publish
      <3>1. pc' = "complete" /\ UNCHANGED <<last, result, observed>>
        BY <2>3 DEF Publish
      <3> SUFFICES ASSUME NEW row \in observed,
                          result[row.run] \in Answered \/ row.run = last
                   PROVE  row.at <= postings'[row.job].last
        BY <3>1 DEF SeenInv
      <3>2. row.job \in JobIds /\ row.at \in Nat
        BY <1>1 DEF SharedRows
      <3>4. postings[row.job].last \in Nat /\ postings'[row.job].last \in Nat
        <4>1. TypeInv'
          BY <1>6, KeepType
        <4> QED
          BY <3>2, <4>1 DEF TypeInv, PostingRows
      <3>5. CASE row.run = last
        <4>1. staged = OfRun(processed, last)
          BY <2>3 DEF RowsInv, Publish
        <4>2. row \in Mine(row.job) /\ row \in StagedOf(row.job)
          BY <1>1, <3>5, <4>1 DEF Mine, StagedOf, OfRun
        <4> QED
          BY <2>3, <3>2, <4>2, PublishFacts
      <3>6. CASE result[row.run] \in Answered
        <4>1. postings[row.job].last <= postings'[row.job].last
          BY <2>3, <3>2, PublishFacts
        <4>2. row.at <= postings[row.job].last
          BY <3>6 DEF SeenInv
        <4> QED
          BY <3>2, <3>4, <4>1, <4>2
      <3> QED
        BY <3>5, <3>6
    <2>4. CASE CompleteRun
      <3>1. pc = "complete" /\ pc' = "idle" /\ UNCHANGED <<last, observed, postings>>
            /\ \E status : result' = [result EXCEPT ![last] = status]
        BY <2>4 DEF CompleteRun
      <3>2. \A row \in observed : row.run # last => result'[row.run] = result[row.run]
        BY <1>0, <3>1 DEF TypeInv
      <3> QED
        BY <3>1, <3>2 DEF SeenInv
    <2>5. CASE FailRun
      <3>1. pc' = "idle" /\ UNCHANGED <<last, observed, postings>>
            /\ result' = [result EXCEPT ![last] = "raised"] /\ last \in Runs
        BY <2>5, Bounds DEF FailRun, RowsInv, TypeInv, Runs
      <3>2. \A row \in observed :
              /\ row.run # last => result'[row.run] = result[row.run]
              /\ row.run = last => result'[row.run] \notin Answered
        BY <1>0, <3>1 DEF TypeInv, Answered
      <3> QED
        BY <3>1, <3>2 DEF SeenInv
    <2> QED
      BY <1>6, <2>1, <2>2, <2>3, <2>4, <2>5 DEF Keep
  <1>7. Collect => Started \/ CollectStep
    BY InsideShape
  <1> QED
    BY <1>2, <1>3, <1>4, <1>5, <1>6, <1>7 DEF Next

-----------------------------------------------------------------------------
(* What the collection makes of what it was shown *)

LEMMA PlanSteps ==
  ASSUME TypeInv, Collect
  PROVE  \/ Started /\ pc' = "collect" /\ owed' = {} /\ job'.board = "list"
            /\ job'.got = {} /\ job'.resolved = {} /\ job'.pending = {}
            /\ job'.plan \in Plans(job'.asks) /\ job'.unsearched = job'.plan.cats
         \/ /\ CollectStep /\ job'.asks = job.asks /\ job'.plan = job.plan
            /\ job'.unsearched \subseteq job.unsearched
  <1>1. job \in JobRows
    BY DEF TypeInv
  <1>2. CASE Started
    <2>1. PICK asks \in Snapshots : \E plan \in Plans(asks) : StartRun(asks, plan)
      BY <1>2 DEF Started
    <2>2. Idle.got = {} /\ Idle.resolved = {} /\ Idle.pending = {}
      BY DEF Idle
    <2>5. PICK plan \in Plans(asks) : StartRun(asks, plan)
      BY <2>1
    <2>3. /\ pc' = "collect" /\ owed' = {} /\ plan \in Plans(asks)
          /\ job' = [Idle EXCEPT !.asks = asks, !.plan = plan, !.known = details,
                                 !.board = "list", !.unsearched = plan.cats]
      BY <2>5 DEF StartRun
    <2>4. /\ job'.asks = asks /\ job'.plan = plan /\ job'.board = "list"
          /\ job'.unsearched = plan.cats
          /\ job'.got = Idle.got /\ job'.resolved = Idle.resolved
          /\ job'.pending = Idle.pending
      BY <2>3, IdleType DEF JobRows
    <2> QED
      BY <1>2, <2>2, <2>3, <2>4
  <1>3. ASSUME CollectStep, ~ Started
        PROVE  /\ job'.asks = job.asks /\ job'.plan = job.plan
               /\ job'.unsearched \subseteq job.unsearched
    <2>1. CASE ListBoard \/ BoardOutage \/ BoardRaises
      BY <1>1, <2>1 DEF ListBoard, BoardOutage, BoardRaises, JobRows
    <2>4. CASE BoardDone
      BY <2>4, BoardReceives
    <2>2. CASE \E p \in BoardOpenings : FetchDetail(p) \/ DetailFails(p)
      BY <1>1, <2>2 DEF FetchDetail, DetailFails, JobRows
    <2>3. ASSUME NEW c \in Categories, Searched(c) \/ SearchRaises(c)
          PROVE  /\ job'.asks = job.asks /\ job'.plan = job.plan
                 /\ job'.unsearched \subseteq job.unsearched
      <3>1. CASE Searched(c)
        BY <3>1, SearchedFacts, SearchReceives
      <3>2. CASE SearchRaises(c)
        BY <1>1, <3>2 DEF SearchRaises, JobRows
      <3> QED
        BY <2>3, <3>1, <3>2
    <2> QED
      BY <1>3, <2>1, <2>2, <2>3, <2>4, CollectCases
  <1> QED
    BY <1>2, <1>3, InsideShape

(* What each step makes of the board's listing and of the records *)
LEMMA BoardSteps ==
  ASSUME TypeInv
  PROVE  /\ ListBoard =>
              /\ job'.got = job.got /\ job'.board = "resolve"
              /\ job'.resolved =
                   {FromDetail(p, job.known[p]) :
                      p \in {q \in Listed("board") : Cached(q, world[q].updated)}}
              /\ \A p \in Listed("board") :
                   \/ Cached(p, world[p].updated)
                   \/ TooOld(p, world[p].updated)
                   \/ p \in job'.pending
              /\ \A p \in job'.pending : ~ Cached(p, world[p].updated)
         /\ \A p \in BoardOpenings : FetchDetail(p) =>
              /\ job'.got = job.got /\ job'.board = job.board
              /\ job'.pending = job.pending \ {p} /\ job'.missed = job.missed
              /\ job'.resolved = job.resolved \union {FromDetail(p, Entry(p))}
         /\ \A p \in BoardOpenings : DetailFails(p) =>
              /\ job'.got = job.got /\ job'.board = job.board
              /\ job'.pending = job.pending \ {p}
              /\ \/ /\ Known(job.known[p]) /\ job'.missed = job.missed
                    /\ job'.resolved = job.resolved \union {FromDetail(p, job.known[p])}
                 \/ /\ job'.missed = job.missed \union {p}
                    /\ job'.resolved = job.resolved
         /\ BoardOutage =>
              /\ job'.board = "done" /\ job'.got = job.got /\ job'.resolved = job.resolved
              /\ job'.pending = job.pending
         /\ BoardRaises =>
              /\ job'.board # "resolve" /\ job'.got = job.got /\ job'.resolved = {}
              /\ job'.pending = {}
         /\ BoardDone =>
              /\ job'.board = "done" /\ job'.resolved = {} /\ job'.pending = {}
              /\ job'.got = Compact(job.got, BoardJobs(RecentOf(job.resolved)))
  <1>1. job \in JobRows
    BY DEF TypeInv
  <1>2. ASSUME ListBoard
        PROVE  /\ job'.got = job.got /\ job'.board = "resolve"
               /\ job'.resolved =
                    {FromDetail(p, job.known[p]) :
                       p \in {q \in Listed("board") : Cached(q, world[q].updated)}}
               /\ \A p \in Listed("board") :
                    \/ Cached(p, world[p].updated)
                    \/ TooOld(p, world[p].updated)
                    \/ p \in job'.pending
               /\ \A p \in job'.pending : ~ Cached(p, world[p].updated)
    <2> DEFINE listed == Listed("board")
               cached == {p \in listed : Cached(p, world[p].updated)}
               skipped == {p \in listed : TooOld(p, world[p].updated)}
               pending == listed \ (cached \union skipped)
               resolved == {FromDetail(p, job.known[p]) : p \in cached}
    <2>1. PICK listing :
            job' = [job EXCEPT !.board = "resolve", !.listing = listing,
                               !.pending = pending, !.resolved = resolved]
      BY <1>2 DEF ListBoard
    <2>2. /\ \A p \in listed :
                Cached(p, world[p].updated) \/ TooOld(p, world[p].updated) \/ p \in pending
          /\ \A p \in pending : ~ Cached(p, world[p].updated)
      OBVIOUS
    <2> HIDE DEF pending, resolved
    <2>3. /\ job'.got = job.got /\ job'.board = "resolve" /\ job'.pending = pending
          /\ job'.resolved = resolved
      BY <1>1, <2>1 DEF JobRows
    <2> QED
      BY <2>2, <2>3 DEF resolved
  <1>3. ASSUME NEW p \in BoardOpenings, FetchDetail(p)
        PROVE  /\ job'.got = job.got /\ job'.board = job.board
               /\ job'.pending = job.pending \ {p} /\ job'.missed = job.missed
               /\ job'.resolved = job.resolved \union {FromDetail(p, Entry(p))}
    BY <1>1, <1>3 DEF FetchDetail, JobRows
  <1>4. ASSUME NEW p \in BoardOpenings, DetailFails(p)
        PROVE  /\ job'.got = job.got /\ job'.board = job.board
               /\ job'.pending = job.pending \ {p}
               /\ \/ /\ Known(job.known[p]) /\ job'.missed = job.missed
                     /\ job'.resolved = job.resolved \union {FromDetail(p, job.known[p])}
                  \/ /\ job'.missed = job.missed \union {p}
                     /\ job'.resolved = job.resolved
    <2>1. CASE Known(job.known[p])
      <3>1. job' = [job EXCEPT !.pending = @ \ {p},
                      !.resolved = @ \union {FromDetail(p, job.known[p])}]
        BY <1>4, <2>1 DEF DetailFails
      <3> QED
        BY <1>1, <2>1, <3>1 DEF JobRows
    <2>2. CASE ~ Known(job.known[p])
      <3>1. job' = [job EXCEPT !.pending = @ \ {p}, !.missed = @ \union {p}]
        BY <1>4, <2>2 DEF DetailFails
      <3> QED
        BY <1>1, <3>1 DEF JobRows
    <2> QED
      BY <2>1, <2>2
  <1>5. BoardOutage =>
          /\ job'.board = "done" /\ job'.got = job.got /\ job'.resolved = job.resolved
          /\ job'.pending = job.pending
    BY <1>1 DEF BoardOutage, JobRows
  <1>6. BoardRaises =>
          /\ job'.board # "resolve" /\ job'.got = job.got /\ job'.resolved = {}
          /\ job'.pending = {}
    BY <1>1 DEF BoardRaises, JobRows
  <1>7. BoardDone =>
          /\ job'.board = "done" /\ job'.resolved = {} /\ job'.pending = {}
          /\ job'.got = Compact(job.got, BoardJobs(RecentOf(job.resolved)))
    BY BoardReceives
  <1> QED
    BY <1>2, <1>3, <1>4, <1>5, <1>6, <1>7

LEMMA SearchSteps ==
  ASSUME TypeInv, NEW c \in Categories
  PROVE  /\ Searched(c) =>
              /\ UNCHANGED <<job.board, job.listing, job.pending, job.missed, job.resolved>>
              /\ \E pairs : job'.got = Compact(job.got, Found(pairs))
         /\ SearchRaises(c) =>
              UNCHANGED <<job.board, job.listing, job.pending, job.missed, job.resolved,
                          job.got>>
  <1>1. job \in JobRows
    BY DEF TypeInv
  <1>2. ASSUME Searched(c)
        PROVE  /\ UNCHANGED <<job.board, job.listing, job.pending, job.missed, job.resolved>>
               /\ \E pairs : job'.got = Compact(job.got, Found(pairs))
    BY <1>2, SearchedFacts, SearchReceives
  <1>3. SearchRaises(c) =>
          UNCHANGED <<job.board, job.listing, job.pending, job.missed, job.resolved, job.got>>
    BY <1>1 DEF SearchRaises, JobRows
  <1> QED
    BY <1>2, <1>3

LEMMA ResolveStep ==
  ASSUME TypeInv, WorldInv, ResolveInv, [Next]_vars
  PROVE  ResolveInv'
  <1> USE DEF outside, tables
  <1>1. CASE UNCHANGED vars
    BY <1>1 DEF vars, ResolveInv
  <1>2. CASE Outside
    <2>1. now' \in Nat /\ now \in Nat /\ now <= now' /\ job' = job
      BY <1>2, OutsideShape DEF TypeInv
    <2>2. \A p \in BoardOpenings : job.listing[p] + Window \in Nat
      <3>1. job.listing \in [BoardOpenings -> Nat]
        BY DEF TypeInv, JobRows
      <3> QED
        BY <3>1, Bounds
    <2>3. \A p \in BoardOpenings : job.listing[p] + Window < now => job.listing[p] + Window < now'
      BY <2>1, <2>2
    <2> QED
      BY <2>1, <2>3 DEF ResolveInv
  <1>3. CASE Keep
    <2> USE DEF Goto
    <2>1. CASE Filter
      <3>1. job' = [job EXCEPT !.got = Fresh(@, now)] /\ now' = now
        BY <2>1 DEF Filter
      <3>2. UNCHANGED <<job.board, job.listing, job.pending, job.missed, job.resolved>>
        BY <3>1 DEF TypeInv, JobRows
      <3> QED
        BY <3>1, <3>2 DEF ResolveInv
    <2>2. CASE WriteDetails \/ WriteRaw \/ WriteProcessed \/ WriteObservations \/ BuildShared
               \/ Publish
      BY <2>2 DEF WriteDetails, WriteRaw, WriteProcessed, WriteObservations, BuildShared,
        Publish, ResolveInv
    <2>3. CASE CompleteRun \/ FailRun
      <3>1. job'.board = "done"
        BY <2>3 DEF CompleteRun, FailRun, Idle
      <3> QED
        BY <3>1 DEF ResolveInv
    <2> QED
      BY <1>3, <2>1, <2>2, <2>3 DEF Keep
  <1>4. CASE Collect
    <2>1. now' = now /\ world' = world
      BY <1>4, InsideShape
    <2>2. CASE Started
      BY <1>4, <2>2, PlanSteps DEF ResolveInv, CollectStep, Collecting, Started, StartRun
    <2>3. CASE ListBoard
      <3> SUFFICES ASSUME NEW p \in BoardOpenings, job'.listing[p] > 0
                   PROVE  \/ p \in job'.pending \union job'.missed
                          \/ \E rec \in job'.resolved : JobId(rec) = <<"board", p>>
                          \/ job'.listing[p] + Window < now
        BY <2>1 DEF ResolveInv
      <3>1. job'.listing[p] = world[p].updated /\ p \in Listed("board")
        BY <2>3, KnownSteps DEF Listed, BoardOpenings
      <3>2. CASE Cached(p, world[p].updated)
        <4>1. FromDetail(p, job.known[p]) \in job'.resolved
          BY <2>3, <3>1, <3>2, BoardSteps
        <4> QED
          BY <4>1 DEF FromDetail, JobId
      <3>3. CASE TooOld(p, world[p].updated)
        BY <3>1, <3>3 DEF TooOld
      <3>4. CASE p \in job'.pending
        BY <3>4
      <3> QED
        BY <2>3, <3>1, <3>2, <3>3, <3>4, BoardSteps
    <2>4. ASSUME NEW q \in BoardOpenings, FetchDetail(q) \/ DetailFails(q)
          PROVE  ResolveInv'
      <3>1. /\ job'.board = job.board /\ job'.listing = job.listing
            /\ job'.pending = job.pending \ {q} /\ job.missed \subseteq job'.missed
            /\ job.resolved \subseteq job'.resolved
        BY <2>4, KnownSteps, BoardSteps
      <3>2. q \in job'.missed \/ \E rec \in job'.resolved : JobId(rec) = <<"board", q>>
        <4>1. CASE FetchDetail(q)
          <5>1. FromDetail(q, Entry(q)) \in job'.resolved
            BY <4>1, BoardSteps
          <5> QED
            BY <5>1 DEF FromDetail, JobId
        <4>2. CASE DetailFails(q)
          <5>1. FromDetail(q, job.known[q]) \in job'.resolved \/ q \in job'.missed
            BY <4>2, BoardSteps
          <5> QED
            BY <5>1 DEF FromDetail, JobId
        <4> QED
          BY <2>4, <4>1, <4>2
      <3> SUFFICES ASSUME NEW p \in BoardOpenings, job.listing[p] > 0, job.board = "resolve"
                   PROVE  \/ p \in job'.pending \union job'.missed
                          \/ \E rec \in job'.resolved : JobId(rec) = <<"board", p>>
                          \/ job.listing[p] + Window < now
        BY <2>1, <3>1 DEF ResolveInv
      <3>3. CASE p = q
        BY <3>2, <3>3
      <3>4. CASE p # q
        <4>1. \/ p \in job.pending \union job.missed
              \/ \E rec \in job.resolved : JobId(rec) = <<"board", p>>
              \/ job.listing[p] + Window < now
          BY DEF ResolveInv
        <4> QED
          BY <3>1, <3>4, <4>1
      <3> QED
        BY <3>3, <3>4
    <2>5. CASE BoardOutage \/ BoardRaises \/ BoardDone
      <3>1. job'.board # "resolve"
        BY <2>5, BoardSteps
      <3> QED
        BY <3>1 DEF ResolveInv
    <2>6. ASSUME NEW c \in Categories, Searched(c) \/ SearchRaises(c)
          PROVE  ResolveInv'
      BY <2>1, <2>6, SearchSteps DEF ResolveInv
    <2> QED
      BY <1>4, <2>2, <2>3, <2>4, <2>5, <2>6, CollectCases
  <1> QED
    BY <1>1, <1>2, <1>3, <1>4 DEF Next

-----------------------------------------------------------------------------
(* The plan asks for what its users want *)

LEMMA WantedMatches ==
  ASSUME NEW asks, NEW plan \in Plans(asks), NEW p, NEW u \in Active(asks), Wants(asks[u], p)
  PROVE  Matches(plan, p)
  <1>1. plan.cats = UNION {asks[v].cats : v \in Active(asks)}
    <2> DEFINE cats == CombinedCategories(asks)
    <2>1. PICK asked : plan = [cats |-> cats, asked |-> asked]
      BY DEF Plans
    <2>2. cats = UNION {asks[v].cats : v \in Active(asks)}
      BY DEF CombinedCategories
    <2> HIDE DEF cats
    <2> QED
      BY <2>1, <2>2
  <1>2. asks[u].cats \intersect Topic[p] # {} /\ asks[u].cats \subseteq plan.cats
    BY <1>1 DEF Wants
  <1> QED
    BY <1>2 DEF Matches

LEMMA PairsFinite ==
  ASSUME NEW c \in Categories, NEW locs, locs \subseteq Locations
  PROVE  IsFiniteSet(Pairs(c, locs)) /\ Cardinality(Pairs(c, locs)) \in Nat
  <1>1. SearchTitles[c] \subseteq Titles
    BY AcquisitionAssumption
  <1>2. IsFiniteSet(SearchTitles[c]) /\ IsFiniteSet(locs) /\ IsFiniteSet({Anywhere})
    BY <1>1, AcquisitionAssumption, FS_Subset, FS_Singleton
  <1>3. IsFiniteSet(SearchTitles[c] \X locs) /\ IsFiniteSet(SearchTitles[c] \X {Anywhere})
    BY <1>2, FS_Product
  <1>4. IsFiniteSet(Pairs(c, locs))
    BY <1>3 DEF Pairs
  <1> QED
    BY <1>4, FS_CardinalityType

(* One query of all locations costs no more than one of each. *)
LEMMA OpenIsCheaper ==
  ASSUME NEW c \in Categories, NEW locs, locs \subseteq Locations
  PROVE  Cardinality(Pairs(c, {})) <= Cardinality(Pairs(c, locs))
  <1> DEFINE T == SearchTitles[c]
  <1>1. IsFiniteSet(T) /\ IsFiniteSet(locs)
    <2>1. T \subseteq Titles
      BY AcquisitionAssumption
    <2> QED
      BY <2>1, AcquisitionAssumption, FS_Subset
  <1> HIDE DEF T
  <1>2. ASSUME NEW l PROVE IsFiniteSet(T \X {l}) /\ Cardinality(T \X {l}) = Cardinality(T)
    <2>1. IsFiniteSet({l}) /\ Cardinality({l}) = 1
      BY FS_Singleton
    <2>2. IsFiniteSet(T \X {l}) /\ Cardinality(T \X {l}) = Cardinality(T) * Cardinality({l})
      BY <1>1, <2>1, FS_Product
    <2>3. Cardinality(T) \in Nat
      BY <1>1, FS_CardinalityType
    <2> QED
      BY <2>1, <2>2, <2>3
  <1>3. Cardinality(T) \in Nat
    BY <1>1, FS_CardinalityType
  <1>4. Pairs(c, {}) = T \X {Anywhere}
    BY DEF Pairs, T
  <1>5. CASE locs = {}
    BY <1>2, <1>3, <1>4, <1>5
  <1>6. CASE locs # {}
    <2>1. PICK l \in locs : TRUE
      BY <1>6
    <2>2. Pairs(c, locs) = T \X locs
      BY <1>6 DEF Pairs, T
    <2>3. T \X {l} \in SUBSET (T \X locs) /\ IsFiniteSet(T \X locs)
      BY <1>1, <2>1, FS_Product
    <2>4. Cardinality(T \X {l}) <= Cardinality(T \X locs)
      BY <2>3, FS_Subset
    <2> QED
      BY <1>2, <1>4, <2>2, <2>4
  <1> QED
    BY <1>5, <1>6

LEMMA WantedAsked ==
  ASSUME NEW asks \in [Users -> Documents], NEW plan \in Plans(asks), NEW p \in Openings,
         NEW u \in Active(asks), Wants(asks[u], p),
         NEW c \in plan.cats, WithinBudget(c, asks),
         NEW t \in Terms[p] \intersect SearchTitles[c]
  PROVE  Finds(plan.asked[c], p)
  <1>1. c \in Categories /\ plan.asked[c] \in Limited(c, CombinedLocations(asks))
    BY PlanTypes, CombinedTypes
  <1>2. asks[u].locs = {} \/ Place[p] \in asks[u].locs
    BY DEF Wants
  <1>3. Named(asks) \subseteq Locations /\ QueryLimit \in Nat
    BY CombinedTypes, Bounds
  <1>4. CASE \E v \in Active(asks) : asks[v].locs = {}
    <2>1. CombinedLocations(asks) = {}
      BY <1>4 DEF CombinedLocations
    <2>2. Cardinality(Pairs(c, {})) <= QueryLimit
      <3>1. Cardinality(Pairs(c, {})) <= Cardinality(Pairs(c, Named(asks)))
        BY <1>1, <1>3, OpenIsCheaper
      <3>2. Cardinality(Pairs(c, Named(asks))) <= QueryLimit
        BY DEF WithinBudget
      <3>3. /\ Cardinality(Pairs(c, {})) \in Nat
            /\ Cardinality(Pairs(c, Named(asks))) \in Nat
        BY <1>1, <1>3, PairsFinite
      <3> QED
        BY <1>3, <3>1, <3>2, <3>3
    <2>3. plan.asked[c] = Pairs(c, {})
      BY <1>1, <2>1, <2>2 DEF Limited
    <2>4. <<t, Anywhere>> \in Pairs(c, {})
      BY DEF Pairs
    <2> QED
      BY <2>3, <2>4 DEF Finds
  <1>5. CASE ~ \E v \in Active(asks) : asks[v].locs = {}
    <2>1. CombinedLocations(asks) = Named(asks)
      BY <1>5 DEF CombinedLocations
    <2>2. plan.asked[c] = Pairs(c, Named(asks))
      BY <1>1, <2>1 DEF Limited, WithinBudget
    <2>3. Place[p] \in Named(asks)
      BY <1>2, <1>5 DEF Named
    <2>4. <<t, Place[p]>> \in Pairs(c, Named(asks))
      BY <2>3 DEF Pairs
    <2> QED
      BY <2>2, <2>4 DEF Finds
  <1> QED
    BY <1>4, <1>5

LEMMA CompactKeeps ==
  ASSUME NEW got, NEW fetched, NEW rec \in fetched
  PROVE  /\ got \subseteq Compact(got, fetched) /\ Compact(got, fetched) \subseteq got \union fetched
         /\ \E kept \in Compact(got, fetched) : JobId(kept) = JobId(rec)
  BY DEF Compact

LEMMA PlanStep ==
  ASSUME TypeInv, WorldInv, PlanInv, [Next]_vars
  PROVE  PlanInv'
  <1>1. CASE UNCHANGED vars
    BY <1>1 DEF vars, PlanInv
  <1>2. CASE Outside
    BY <1>2, OutsideShape DEF PlanInv
  <1>3. CASE Collect
    BY <1>3, PlanSteps DEF PlanInv, CollectStep
  <1>4. CASE Keep
    <2>1. pc' # "collect"
      BY <1>4 DEF Keep, Goto, WriteDetails, Filter, WriteRaw, WriteProcessed,
        WriteObservations, BuildShared, Publish, CompleteRun, FailRun
    <2> QED
      BY <2>1 DEF PlanInv
  <1> QED
    BY <1>1, <1>2, <1>3, <1>4 DEF Next

LEMMA CollectedStep ==
  ASSUME TypeInv, WorldInv, DetailInv, CollectedInv, [Next]_vars
  PROVE  CollectedInv'
  <1> USE DEF outside, tables
  <1>1. job \in JobRows /\ job.got \subseteq Record /\ job.resolved \subseteq Record
    BY DEF TypeInv, JobRows
  <1>2. CASE UNCHANGED vars
    BY <1>2 DEF vars, CollectedInv, Collected, Posted
  <1>3. CASE Outside
    <2>1. job' = job /\ \A p \in Openings : WorldMoves(p)
      BY <1>3, OutsideShape
    <2>2. \A rec \in job.got \union job.resolved : rec.opening \in Openings
      BY <1>1 DEF Record
    <2> QED
      BY <2>1, <2>2 DEF CollectedInv, Collected, WorldMoves
  <1>4. ASSUME world' = world,
               \A rec \in job'.got \union job'.resolved :
                 rec \in job.got \union job.resolved \/ Collected(rec)
        PROVE  CollectedInv'
    BY <1>4 DEF CollectedInv, Collected, Posted
  <1>5. ASSUME NEW p \in BoardOpenings, Known(job.known[p])
        PROVE  Collected(FromDetail(p, job.known[p]))
    BY <1>5 DEF DetailInv, DetailOk, Collected, FromDetail
  <1>6. CASE Collect
    <2>1. world' = world
      BY <1>6, InsideShape
    <2>2. CASE Started
      <3>1. ~ CollectStep
        BY <2>2 DEF Started, StartRun, CollectStep, Collecting
      <3> QED
        BY <1>4, <1>6, <2>1, <3>1, PlanSteps
    <2>3. CASE ListBoard
      <3>1. ASSUME NEW rec \in job'.resolved PROVE Collected(rec)
        <4>1. PICK p \in Listed("board") :
                Cached(p, world[p].updated) /\ rec = FromDetail(p, job.known[p])
          BY <2>3, <3>1, BoardSteps
        <4> QED
          BY <1>5, <4>1 DEF Cached, Listed, BoardOpenings
      <3>2. job'.got = job.got
        BY <2>3, BoardSteps
      <3> QED
        BY <1>4, <2>1, <3>1, <3>2
    <2>4. ASSUME NEW p \in BoardOpenings, FetchDetail(p) PROVE CollectedInv'
      <3>1. job'.got = job.got
            /\ job'.resolved = job.resolved \union {FromDetail(p, Entry(p))}
        BY <2>4, BoardSteps
      <3>2. world[p].listed /\ p \in Openings
        BY <2>4, Board DEF FetchDetail
      <3>3. Collected(FromDetail(p, Entry(p)))
        BY <3>2 DEF WorldInv, Collected, FromDetail, Entry
      <3> QED
        BY <1>4, <2>1, <3>1, <3>3
    <2>5. ASSUME NEW p \in BoardOpenings, DetailFails(p) PROVE CollectedInv'
      <3>1. /\ job'.got = job.got
            /\ \/ /\ Known(job.known[p])
                  /\ job'.resolved = job.resolved \union {FromDetail(p, job.known[p])}
               \/ job'.resolved = job.resolved
        BY <2>5, BoardSteps
      <3> QED
        BY <1>4, <1>5, <2>1, <3>1
    <2>6. CASE BoardOutage \/ BoardRaises
      <3>1. job'.got = job.got /\ job'.resolved \in {job.resolved, {}}
        BY <2>6, BoardSteps
      <3> QED
        BY <1>4, <2>1, <3>1
    <2>7. CASE BoardDone
      <3>1. /\ job'.resolved = {}
            /\ job'.got = Compact(job.got, BoardJobs(RecentOf(job.resolved)))
        BY <2>7, BoardSteps
      <3>2. job'.got \subseteq job.got \union job.resolved
        BY <3>1 DEF Compact, BoardJobs, RecentOf
      <3> QED
        BY <1>4, <2>1, <3>1, <3>2
    <2>8. ASSUME NEW c \in Categories, Searched(c) PROVE CollectedInv'
      <3>1. job'.resolved = job.resolved
            /\ \A rec \in job'.got :
                 rec \in job.got \/ \E p \in Listed("search") : rec = FromSearch(p)
        BY <2>8, SearchSteps DEF Compact, Found
      <3>2. \A p \in Listed("search") : Collected(FromSearch(p))
        BY Board DEF Listed, WorldInv, Collected, FromSearch
      <3> QED
        BY <1>4, <2>1, <3>1, <3>2
    <2>9. ASSUME NEW c \in Categories, SearchRaises(c)
          PROVE  CollectedInv'
      BY <1>4, <2>1, <2>9, SearchSteps
    <2> QED
      BY <1>6, <2>2, <2>3, <2>4, <2>5, <2>6, <2>7, <2>8, <2>9, CollectCases
  <1>7. CASE Keep
    <2> USE DEF Goto
    <2>1. world' = world
      BY <1>7, InsideShape
    <2>2. CASE Filter
      <3>1. job' = [job EXCEPT !.got = Fresh(@, now)]
        BY <2>2 DEF Filter
      <3>2. job'.got \subseteq job.got /\ job'.resolved = job.resolved
        BY <1>1, <3>1 DEF Fresh, JobRows
      <3> QED
        BY <1>4, <2>1, <3>2
    <2>3. CASE WriteDetails \/ WriteRaw \/ WriteProcessed \/ WriteObservations \/ BuildShared
               \/ Publish
      <3>1. job' = job
        BY <2>3 DEF WriteDetails, WriteRaw, WriteProcessed, WriteObservations, BuildShared,
          Publish
      <3> QED
        BY <1>4, <2>1, <3>1
    <2>4. CASE CompleteRun \/ FailRun
      <3>1. job'.got = {} /\ job'.resolved = {}
        BY <2>4 DEF CompleteRun, FailRun, Idle
      <3> QED
        BY <1>4, <2>1, <3>1
    <2> QED
      BY <1>7, <2>2, <2>3, <2>4 DEF Keep
  <1> QED
    BY <1>2, <1>3, <1>6, <1>7 DEF Next

-----------------------------------------------------------------------------
(* What is owed has a record, then a row, then a posting *)

LEMMA OwedFacts ==
  ASSUME NEW s, NEW ps, NEW o \in Owed(s, ps)
  PROVE  /\ o = <<s, o[2]>> /\ o[2] \in ps /\ Wanted(o[2])
         /\ Recent(world[o[2]].published, now)
  <1>1. PICK p \in ps : o = <<s, p>> /\ Wanted(p) /\ Recent(world[p].published, now)
    BY DEF Owed
  <1> QED
    BY <1>1

LEMMA BoardShown ==
  ASSUME TypeInv, WorldInv, DetailInv, ResolveInv, PlanInv, CollectedInv, BoardDone,
         NEW o \in Owed("board", {p \in BoardOpenings : job.listing[p] > 0} \ job.missed)
  PROVE  \E rec \in job'.got : JobId(rec) = o
  <1> DEFINE p == o[2]
  <1>1. /\ o = <<"board", p>> /\ p \in BoardOpenings /\ job.listing[p] > 0
        /\ p \notin job.missed /\ Wanted(p) /\ Recent(world[p].published, now)
    BY OwedFacts
  <1> HIDE DEF p
  <1>2. /\ pc = "collect" /\ job.board = "resolve" /\ job.pending = {}
        /\ job'.got = Compact(job.got, BoardJobs(RecentOf(job.resolved)))
    BY BoardReceives DEF CollectStep, Collecting
  <1>3. ~ (job.listing[p] + Window < now)
    <2>1. /\ job.listing[p] \in Nat /\ world[p].published \in Nat /\ now \in Nat
      BY <1>1, Board DEF TypeInv, JobRows, WorldRows
    <2>2. world[p].published <= job.listing[p]
      BY <1>1 DEF DetailInv, ListingOk
    <2>3. now <= world[p].published + Window
      BY <1>1 DEF Recent
    <2> QED
      BY <2>1, <2>2, <2>3, Bounds
  <1>4. PICK rec \in job.resolved : JobId(rec) = <<"board", p>>
    BY <1>1, <1>2, <1>3 DEF ResolveInv
  <1>5. rec.opening = p /\ rec.published = world[p].published
    BY <1>4 DEF JobId, CollectedInv, Collected
  <1>6. Matches(job.plan, p)
    <2>1. PICK u \in Active(job.asks) : Wants(job.asks[u], p)
      BY <1>1 DEF Wanted
    <2> QED
      BY <1>2, <2>1, WantedMatches DEF PlanInv
  <1>7. rec \in BoardJobs(RecentOf(job.resolved))
    BY <1>1, <1>4, <1>5, <1>6 DEF BoardJobs, RecentOf
  <1> QED
    BY <1>1, <1>2, <1>4, <1>7, CompactKeeps

(* A wanted opening is found by the pairs asked, or by all when they fit. *)
LEMMA DueIsFound ==
  ASSUME TypeInv, PlanInv, pc = "collect", NEW c \in job.unsearched,
         NEW p \in Openings, Wanted(p), WithinBudget(c, job.asks),
         Terms[p] \intersect SearchTitles[c] # {}
  PROVE  Finds(job.plan.asked[c], p)
  <1>1. job.asks \in [Users -> Documents]
    BY DEF TypeInv, JobRows
  <1>2. job.plan \in Plans(job.asks) /\ c \in job.plan.cats
    BY DEF PlanInv
  <1>3. PICK u \in Active(job.asks) : Wants(job.asks[u], p)
    BY DEF Wanted
  <1> QED
    BY <1>1, <1>2, <1>3, WantedAsked

LEMMA SearchShown ==
  ASSUME TypeInv, PlanInv, NEW c \in Categories, Searched(c),
         NEW o \in owed', o \notin owed
  PROVE  \E rec \in job'.got : JobId(rec) = o
  <1>1. pc = "collect" /\ c \in job.unsearched
    BY SearchedFacts DEF CollectStep, Collecting
  <1>2. ASSUME NEW pairs, Answers(c, pairs), NEW p \in Listed("search"),
               Finds(pairs, p), o = <<"search", p>>
        PROVE  \E rec \in job'.got : JobId(rec) = o
    <2>1. FromSearch(p) \in Found(pairs) /\ JobId(FromSearch(p)) = o
      BY <1>2 DEF Found, FromSearch, JobId
    <2>2. job'.got = Compact(job.got, Found(pairs))
      BY <1>2, SearchReceives
    <2> QED
      BY <2>1, <2>2, CompactKeeps
  <1>3. CASE SearchDone(c)
    <2> DEFINE pairs == job.plan.asked[c]
               due(p) == IF WithinBudget(c, job.asks)
                           THEN Terms[p] \intersect SearchTitles[c] # {}
                         ELSE Finds(pairs, p)
               ps == {p \in Listed("search") : due(p)}
    <2>1. Answers(c, pairs) /\ owed' = owed \union Owed("search", ps)
      BY <1>3 DEF SearchDone
    <2>2. o \in Owed("search", ps)
      BY <2>1
    <2> HIDE DEF ps
    <2>3. o = <<"search", o[2]>> /\ o[2] \in ps /\ Wanted(o[2])
      BY <2>2, OwedFacts
    <2>4. o[2] \in Listed("search") /\ due(o[2])
      BY <2>3 DEF ps
    <2>5. o[2] \in Openings
      BY <2>4, Board DEF Listed
    <2>6. Finds(pairs, o[2])
      BY <1>1, <2>3, <2>4, <2>5, DueIsFound
    <2> QED
      BY <1>2, <2>1, <2>3, <2>4, <2>6
  <1>4. CASE SearchOut(c)
    <2>1. PICK pairs \in SUBSET job.plan.asked[c] : SearchOutage(c, pairs)
      BY <1>4 DEF SearchOut
    <2> DEFINE ps == {p \in Listed("search") : Finds(pairs, p)}
    <2>2. Answers(c, pairs) /\ owed' = owed \union Owed("search", ps)
      BY <2>1 DEF SearchOutage
    <2>3. o \in Owed("search", ps)
      BY <2>2
    <2> HIDE DEF ps
    <2>4. o = <<"search", o[2]>> /\ o[2] \in ps
      BY <2>3, OwedFacts
    <2>5. o[2] \in Listed("search") /\ Finds(pairs, o[2])
      BY <2>4 DEF ps
    <2> QED
      BY <1>2, <2>2, <2>4, <2>5
  <1> QED
    BY <1>3, <1>4 DEF Searched

LEMMA ShownStep ==
  ASSUME TypeInv, WorldInv, DetailInv, ResolveInv, PlanInv, CollectedInv, ShownInv,
         [Next]_vars
  PROVE  ShownInv'
  <1> USE DEF outside, tables
  <1>1. job \in JobRows /\ job.got \subseteq Record
    BY DEF TypeInv, JobRows
  <1>2. CASE UNCHANGED vars
    BY <1>2 DEF vars, ShownInv
  <1>3. CASE Outside
    BY <1>3, OutsideShape DEF ShownInv
  <1>4. ASSUME pc # "idle", \A rec \in job.got : \E kept \in job'.got : JobId(kept) = JobId(rec),
               \A o \in owed' : o \in owed \/ \E rec \in job'.got : JobId(rec) = o
        PROVE  ShownInv'
    BY <1>4 DEF ShownInv
  <1>5. CASE Collect
    <2>1. CASE Started
      <3>1. ~ CollectStep
        BY <2>1 DEF Started, StartRun, CollectStep, Collecting
      <3>2. owed' = {}
        BY <1>5, <3>1, PlanSteps
      <3> QED
        BY <3>2 DEF ShownInv
    <2>2. CollectStep => pc # "idle"
      BY DEF CollectStep, Collecting
    <2>3. ASSUME CollectStep, job'.got = job.got, owed' = owed
          PROVE  ShownInv'
      BY <1>4, <2>2, <2>3
    <2>4. CASE ListBoard \/ BoardOutage \/ BoardRaises
      BY <2>3, <2>4, BoardSteps DEF ListBoard, BoardOutage, Unanswered, BoardRaises
    <2>5. ASSUME NEW p \in BoardOpenings, FetchDetail(p) \/ DetailFails(p)
          PROVE  ShownInv'
      BY <2>3, <2>5, BoardSteps DEF FetchDetail, DetailFails
    <2>6. CASE BoardDone
      <3> DEFINE new == Owed("board", {p \in BoardOpenings : job.listing[p] > 0} \ job.missed)
      <3>1. CollectStep /\ owed' = owed \union new
        BY <2>6 DEF BoardDone
      <3>2. \A o \in new : \E rec \in job'.got : JobId(rec) = o
        BY <2>6, BoardShown
      <3> HIDE DEF new
      <3>3. job.got \subseteq job'.got
        BY <2>6, BoardSteps DEF Compact
      <3> QED
        BY <1>4, <2>2, <3>1, <3>2, <3>3
    <2>7. ASSUME NEW c \in Categories, Searched(c)
          PROVE  ShownInv'
      <3>1. CollectStep
        BY <2>7, SearchedFacts
      <3>2. \A o \in owed' : o \in owed \/ \E rec \in job'.got : JobId(rec) = o
        BY <2>7, SearchShown
      <3>3. job.got \subseteq job'.got
        BY <2>7, SearchSteps DEF Compact
      <3> QED
        BY <1>4, <2>2, <3>1, <3>2, <3>3
    <2>8. ASSUME NEW c \in Categories, SearchRaises(c)
          PROVE  ShownInv'
      BY <2>3, <2>8, SearchSteps DEF SearchRaises
    <2> QED
      BY <1>5, <2>1, <2>4, <2>5, <2>6, <2>7, <2>8, CollectCases
  <1>6. CASE Keep
    <2> USE DEF Goto
    <2>1. CASE Filter
      <3>1. /\ job'.got = Fresh(job.got, now) /\ pc # "idle"
            /\ owed' = {o \in owed : Recent(world[o[2]].published, now)}
        BY <1>1, <2>1 DEF Filter, JobRows
      <3> SUFFICES ASSUME NEW o \in owed, Recent(world[o[2]].published, now)
                   PROVE  \E rec \in job'.got : JobId(rec) = o
        BY <3>1 DEF ShownInv
      <3>2. PICK rec \in job.got : JobId(rec) = o
        BY <3>1 DEF ShownInv
      <3>3. rec.opening = o[2] /\ rec.published = world[rec.opening].published
        BY <3>2 DEF JobId, CollectedInv, Collected
      <3>4. Accepted(rec.published, now)
        <4>1. rec.published \in Nat /\ now \in Nat
          BY <1>1 DEF Record, TypeInv
        <4> QED
          BY <3>3, <4>1, Bounds DEF Recent, Accepted
      <3> QED
        BY <3>1, <3>2, <3>4 DEF Fresh
    <2>2. CASE WriteDetails \/ WriteRaw \/ WriteProcessed \/ WriteObservations \/ BuildShared
               \/ Publish
      <3>1. job' = job /\ owed' = owed /\ pc # "idle"
        BY <2>2 DEF WriteDetails, WriteRaw, WriteProcessed, WriteObservations, BuildShared,
          Publish
      <3> QED
        BY <3>1 DEF ShownInv
    <2>3. CASE CompleteRun \/ FailRun
      BY <2>3 DEF CompleteRun, FailRun, ShownInv
    <2> QED
      BY <1>6, <2>1, <2>2, <2>3 DEF Keep
  <1> QED
    BY <1>2, <1>3, <1>5, <1>6 DEF Next

(* A record that is dropped has a kept duplicate, no later in the order. *)
LEMMA DeduplicatedStands ==
  ASSUME NEW got, NEW recs \in Deduplications(got), NEW rec \in got
  PROVE  \E kept \in recs : Stands(JobId(rec), JobId(kept))
  <1>1. CASE rec \in recs
    BY <1>1 DEF Stands
  <1>2. CASE rec \notin recs
    <2>1. PICK first \in recs : /\ Duplicates(rec, first)
                                /\ Rank[first.source] <= Rank[rec.source]
      BY <1>2 DEF Deduplications
    <2>2. JobId(first)[1] = first.source /\ JobId(rec)[1] = rec.source
      BY DEF JobId
    <2> QED
      BY <2>1, <2>2 DEF Stands, Duplicates
  <1> QED
    BY <1>1, <1>2

LEMMA KeptStep ==
  ASSUME TypeInv, WorldInv, RowsInv, ShownInv, KeptInv, [Next]_vars
  PROVE  KeptInv'
  <1> USE DEF outside, tables
  <1>1. job \in JobRows /\ job.got \subseteq Record
    BY DEF TypeInv, JobRows
  <1>2. CASE UNCHANGED vars
    BY <1>2 DEF vars, KeptInv, Stands
  <1>3. CASE Outside
    BY <1>3, OutsideShape DEF KeptInv, Stands
  <1>4. ASSUME pc' \in {"collect", "filter", "raw", "shared"}
        PROVE  KeptInv'
    BY <1>4 DEF KeptInv
  <1>5. CASE Collect
    <2>1. pc' = "collect"
      <3>1. CASE Started
        BY <3>1 DEF Started, StartRun
      <3>2. CASE CollectStep
        BY <3>2 DEF CollectStep, Collecting
      <3> QED
        BY <1>5, <3>1, <3>2, InsideShape
    <2> QED
      BY <1>4, <2>1
  <1>6. CASE Keep
    <2> USE DEF Goto
    <2>1. CASE WriteDetails \/ Filter \/ WriteRaw
      <3>1. pc' \in {"collect", "filter", "raw", "shared"}
        BY <2>1 DEF WriteDetails, Filter, WriteRaw
      <3> QED
        BY <1>4, <3>1
    <2>2. CASE WriteProcessed
      <3>1. /\ pc = "shared" /\ pc' = "observe" /\ owed' = owed /\ last' = last
        BY <2>2 DEF WriteProcessed
      <3>0. PICK recs \in Deduplications(job.got) :
              processed' = processed \union {Row(rec) : rec \in recs}
        BY <2>2 DEF WriteProcessed
      <3> SUFFICES ASSUME NEW o \in owed
                   PROVE  \E row \in processed' : row.run = last /\ Stands(o, row.job)
        BY <3>1 DEF KeptInv
      <3>2. PICK rec \in job.got : JobId(rec) = o
        BY <3>1 DEF ShownInv
      <3>3. PICK kept \in recs : Stands(o, JobId(kept))
        BY <3>2, DeduplicatedStands
      <3>4. Row(kept) \in processed'
        BY <3>0
      <3>5. Row(kept).run = last /\ Row(kept).job = JobId(kept)
        BY DEF Row
      <3> QED
        BY <3>3, <3>4, <3>5
    <2>3. CASE WriteObservations
      BY <2>3 DEF WriteObservations, KeptInv
    <2>4. CASE BuildShared
      <3>1. staged' = OfRun(processed, last)
        BY <2>4, BuiltRows
      <3> QED
        BY <2>4, <3>1 DEF BuildShared, OfRun, KeptInv
    <2>5. CASE Publish
      <3>1. pc = "publish" /\ pc' = "complete" /\ owed' = owed /\ last' = last
        BY <2>5 DEF Publish
      <3> SUFFICES ASSUME NEW o \in owed
                   PROVE  \E j \in JobIds : /\ Stands(o, j) /\ postings'[j].run = last
                                            /\ postings'[j].active
        BY <3>1 DEF KeptInv
      <3>2. PICK row \in staged : row.run = last /\ Stands(o, row.job)
        BY <3>1 DEF KeptInv
      <3>3. row.job \in JobIds /\ row \in Mine(row.job)
        BY <3>2 DEF Mine, TypeInv, SharedRows
      <3> QED
        BY <2>5, <3>2, <3>3, PublishFacts
    <2>6. CASE CompleteRun
      BY <2>6 DEF CompleteRun, KeptInv
    <2>7. CASE FailRun
      BY <2>7 DEF FailRun, KeptInv
    <2> QED
      BY <1>6, <2>1, <2>2, <2>3, <2>4, <2>5, <2>6, <2>7 DEF Keep
  <1> QED
    BY <1>2, <1>3, <1>5, <1>6 DEF Next

LEMMA OnceStep ==
  ASSUME TypeInv, WorldInv, RowsInv, OnceInv, [Next]_vars
  PROVE  OnceInv'
  <1> USE DEF outside, tables
  <1>1. /\ job \in JobRows /\ job.got \subseteq Record /\ job.resolved \subseteq Record
        /\ \A row \in processed : row.run \in Nat
    BY RowTypes DEF TypeInv, JobRows
  <1>2. ASSUME processed' = processed, OneEach(job'.got), OneEach(job'.resolved),
               job'.board # "resolve" => job'.pending = {} /\ job'.resolved = {},
               \A rec \in job'.resolved : rec.source = "board" /\ rec.opening \notin job'.pending
        PROVE  OnceInv'
    BY <1>2 DEF OnceInv, OneEach, JobId
  <1>3. ASSUME processed' = processed, OneEach(job'.got),
               UNCHANGED <<job.board, job.pending, job.resolved>>
        PROVE  OnceInv'
    BY <1>2, <1>3 DEF OnceInv
  <1>4. CASE UNCHANGED vars
    BY <1>3, <1>4 DEF vars, OnceInv
  <1>5. CASE Outside
    BY <1>3, <1>5, OutsideShape DEF OnceInv
  <1>6. ASSUME NEW fetched, OneEach(fetched)
        PROVE  OneEach(Compact(job.got, fetched))
    BY <1>6 DEF OneEach, Compact, OnceInv
  <1>7. CASE Collect
    <2>1. processed' = processed
      BY <1>7, InsideShape
    <2>2. OneEach({})
      BY DEF OneEach
    <2>3. CASE Started
      <3>1. ~ CollectStep
        BY <2>3 DEF Started, StartRun, CollectStep, Collecting
      <3>2. job'.got = {} /\ job'.resolved = {} /\ job'.pending = {}
        BY <1>7, <3>1, PlanSteps
      <3> QED
        BY <1>2, <2>1, <2>2, <3>2
    <2>4. CASE ListBoard
      <3>1. /\ job'.got = job.got /\ job'.board = "resolve"
            /\ \A rec \in job'.resolved : \E p \in Listed("board") :
                 rec = FromDetail(p, job.known[p]) /\ Cached(p, world[p].updated)
            /\ \A p \in job'.pending : ~ Cached(p, world[p].updated)
        BY <2>4, BoardSteps
      <3>2. OneEach(job'.resolved)
        BY <3>1 DEF OneEach, JobId, FromDetail
      <3>3. \A rec \in job'.resolved : rec.source = "board" /\ rec.opening \notin job'.pending
        BY <3>1 DEF FromDetail
      <3> QED
        BY <1>2, <2>1, <3>1, <3>2, <3>3 DEF OnceInv
    <2>5. ASSUME NEW p \in BoardOpenings, FetchDetail(p) \/ DetailFails(p)
          PROVE  OnceInv'
      <3>1. /\ p \in job.pending /\ job.board = "resolve"
            /\ job'.got = job.got /\ job'.board = job.board
            /\ job'.pending = job.pending \ {p}
            /\ \/ job'.resolved = job.resolved
               \/ \E entry : job'.resolved = job.resolved \union {FromDetail(p, entry)}
        BY <2>5, BoardSteps DEF FetchDetail, DetailFails, OnceInv
      <3>2. \A rec \in job'.resolved :
              rec.source = "board" /\ (rec \in job.resolved \/ rec.opening = p)
        BY <3>1 DEF FromDetail, OnceInv
      <3>3. \A rec \in job.resolved : rec.opening # p
        BY <3>1 DEF OnceInv
      <3>4. \A rec \in job'.resolved : rec.opening \notin job'.pending
        BY <3>1, <3>2 DEF OnceInv
      <3>5. OneEach(job'.resolved)
        <4>1. CASE job'.resolved = job.resolved
          BY <4>1 DEF OnceInv
        <4>2. ASSUME NEW entry, job'.resolved = job.resolved \union {FromDetail(p, entry)}
              PROVE  OneEach(job'.resolved)
          <5>1. FromDetail(p, entry).opening = p
            BY DEF FromDetail
          <5> QED
            BY <3>3, <4>2, <5>1 DEF OnceInv, OneEach, JobId
        <4> QED
          BY <3>1, <4>1, <4>2
      <3> QED
        BY <1>2, <2>1, <3>1, <3>2, <3>4, <3>5 DEF OnceInv
    <2>6. CASE BoardOutage
      <3>1. job.board = "list" /\ job'.got = job.got /\ job'.resolved = job.resolved
            /\ job'.pending = job.pending
        BY <2>6, BoardSteps DEF BoardOutage
      <3> QED
        BY <1>2, <2>1, <2>2, <3>1 DEF OnceInv
    <2>7. CASE BoardRaises
      <3>1. job'.got = job.got /\ job'.resolved = {} /\ job'.pending = {}
        BY <2>7, BoardSteps
      <3> QED
        BY <1>2, <2>1, <2>2, <3>1 DEF OnceInv
    <2>8. CASE BoardDone
      <3>1. /\ job'.resolved = {} /\ job'.pending = {}
            /\ job'.got = Compact(job.got, BoardJobs(RecentOf(job.resolved)))
        BY <2>8, BoardSteps
      <3>2. OneEach(BoardJobs(RecentOf(job.resolved)))
        BY DEF OneEach, BoardJobs, RecentOf, OnceInv
      <3> QED
        BY <1>2, <1>6, <2>1, <2>2, <3>1, <3>2
    <2>9. ASSUME NEW c \in Categories, Searched(c)
          PROVE  OnceInv'
      <3>1. PICK pairs : job'.got = Compact(job.got, Found(pairs))
        BY <2>9, SearchSteps
      <3>2. UNCHANGED <<job.board, job.pending, job.resolved>>
        BY <2>9, SearchSteps
      <3>3. OneEach(Found(pairs))
        BY DEF OneEach, JobId, FromSearch, Found
      <3> QED
        BY <1>3, <1>6, <2>1, <3>1, <3>2, <3>3
    <2>10. ASSUME NEW c \in Categories, SearchRaises(c)
           PROVE  OnceInv'
      BY <1>3, <2>1, <2>10, SearchSteps DEF OnceInv
    <2> QED
      BY <1>7, <2>3, <2>4, <2>5, <2>6, <2>7, <2>8, <2>9, <2>10, CollectCases
  <1>8. CASE Keep
    <2> USE DEF Goto
    <2>1. CASE Filter
      <3>1. job' = [job EXCEPT !.got = Fresh(@, now)] /\ processed' = processed
        BY <2>1 DEF Filter
      <3>2. job'.got = Fresh(job.got, now) /\ UNCHANGED <<job.board, job.pending, job.resolved>>
        BY <1>1, <3>1 DEF JobRows
      <3>3. OneEach(job'.got)
        BY <3>2 DEF OneEach, Fresh, OnceInv
      <3> QED
        BY <1>3, <3>1, <3>2, <3>3
    <2>2. CASE WriteDetails \/ WriteRaw \/ WriteObservations \/ BuildShared \/ Publish
      <3>1. job' = job /\ processed' = processed
        BY <2>2 DEF WriteDetails, WriteRaw, WriteObservations, BuildShared, Publish
      <3> QED
        BY <1>3, <3>1 DEF OnceInv
    <2>3. CASE WriteProcessed
      <3>0. PICK recs \in Deduplications(job.got) :
              processed' = processed \union {Row(rec) : rec \in recs}
        BY <2>3 DEF WriteProcessed
      <3> DEFINE new == {Row(rec) : rec \in recs}
      <3>1. /\ pc = "shared" /\ processed' = processed \union new /\ job' = job
        BY <2>3, <3>0 DEF WriteProcessed
      <3>2. \A row \in processed : row.run < last /\ row.run # last
        <4>1. \A row \in processed : row.run < last
          BY <3>1 DEF RowsInv, Unwritten
        <4> QED
          BY <1>1, <4>1, RowTypes
      <3>3. \A row \in new : row.run = last
        BY DEF Row
      <3>4. \A row, other \in new : row.job = other.job => row = other
        <4>1. recs \subseteq job.got
          BY DEF Deduplications
        <4> QED
          BY <4>1 DEF Row, OnceInv, OneEach
      <3> HIDE DEF new
      <3>5. \A row, other \in processed' : row.run = other.run /\ row.job = other.job => row = other
        BY <3>1, <3>2, <3>3, <3>4 DEF OnceInv
      <3> QED
        BY <3>1, <3>5 DEF OnceInv
    <2>4. CASE CompleteRun \/ FailRun
      <3>1. /\ job'.got = {} /\ job'.resolved = {} /\ job'.pending = {}
            /\ processed' = processed
        BY <2>4 DEF CompleteRun, FailRun, Idle
      <3>2. OneEach({})
        BY DEF OneEach
      <3> QED
        BY <1>2, <3>1, <3>2
    <2> QED
      BY <1>8, <2>1, <2>2, <2>3, <2>4 DEF Keep
  <1> QED
    BY <1>4, <1>5, <1>7, <1>8 DEF Next

-----------------------------------------------------------------------------
(* THEOREMS *)

LEMMA CollectionInit == Init => CollectionInv /\ PostingsAreTraceable
  <1> SUFFICES ASSUME Init PROVE CollectionInv /\ PostingsAreTraceable
    OBVIOUS
  <1>1. TypeInv
    BY TypeInit
  <1>2. WorldInv
    BY DEF Init, WorldInv, Hidden
  <1>3. DetailInv
    <2>1. \A p \in BoardOpenings : Idle.known[p] = NoDetail /\ Idle.listing[p] = 0
      BY DEF Idle
    <2> QED
      BY <2>1 DEF Init, DetailInv, DetailOk, ListingOk, Known, NoDetail
  <1>4. RowsInv /\ SeenInv
    BY DEF Init, RowsInv, SeenInv
  <1>5. job.board = "done" /\ job.got = {} /\ job.resolved = {} /\ job.pending = {}
    BY DEF Init, Idle
  <1>6. ResolveInv /\ PlanInv /\ CollectedInv /\ ShownInv /\ KeptInv /\ OnceInv
    BY <1>5 DEF Init, ResolveInv, PlanInv, CollectedInv, ShownInv, KeptInv, OnceInv, OneEach
  <1>7. PostingsAreTraceable
    BY DEF Init, PostingsAreTraceable, NoPosting
  <1> QED
    BY <1>1, <1>2, <1>3, <1>4, <1>6, <1>7 DEF CollectionInv

LEMMA CollectionStep ==
  ASSUME CollectionInv, [Next]_vars
  PROVE  CollectionInv'
  BY TypeStep, WorldStep, DetailStep, RowsStep, SeenStep, ResolveStep, PlanStep,
     CollectedStep, ShownStep, KeptStep, OnceStep DEF CollectionInv

(* Whatever the sources, the users and the faults do: what the sources     *)
(* list only moves forward, what is remembered of the board is of an       *)
(* update it had, the rows of the runs nest and are ordered in time, and   *)
(* what a refresh owes is on its way.                                      *)
THEOREM CollectionIsConsistent == Spec => []CollectionInv
  <1>1. Init => CollectionInv
    BY CollectionInit
  <1>2. CollectionInv /\ [Next]_vars => CollectionInv'
    BY CollectionStep
  <1> QED
    BY <1>1, <1>2, PTL DEF Spec

(* write_greenhouse_job_state: a detail in the store that counts as the    *)
(* one of the board's update has its content, for any openings, changes    *)
(* and failures.                                                           *)
THEOREM StoredDetailsAreCurrent == Spec => []StoredDetailCurrent
  <1>1. CollectionInv => StoredDetailCurrent
    BY DEF CollectionInv, DetailInv, DetailOk, StoredDetailCurrent
  <1> QED
    BY <1>1, CollectionIsConsistent, PTL

LEMMA TraceableStep ==
  ASSUME CollectionInv, PostingsAreTraceable, [Next]_vars
  PROVE  PostingsAreTraceable'
  <1> USE DEF outside, tables
  <1>1. TypeInv /\ RowsInv /\ WorldInv
    BY DEF CollectionInv
  <1>2. ASSUME postings' = postings, raw \subseteq raw', observed \subseteq observed'
        PROVE  PostingsAreTraceable'
    BY <1>2 DEF PostingsAreTraceable
  <1>3. CASE UNCHANGED vars
    BY <1>2, <1>3 DEF vars
  <1>4. CASE Outside
    BY <1>1, <1>2, <1>4, OutsideShape
  <1>5. CASE Collect
    BY <1>2, <1>5, InsideShape
  <1>6. CASE Keep /\ ~ Publish
    <2>1. postings' = postings /\ raw \subseteq raw' /\ observed \subseteq observed'
      BY <1>6 DEF Keep, WriteDetails, Filter, WriteRaw, WriteProcessed, WriteObservations,
        BuildShared, CompleteRun, FailRun
    <2> QED
      BY <1>2, <2>1
  <1>7. CASE Publish
    <2> SUFFICES ASSUME NEW j \in JobIds, postings'[j].run > 0
                 PROVE  /\ [run |-> postings'[j].run, job |-> j,
                            version |-> postings'[j].version] \in raw
                        /\ \E row \in observed : /\ row.run = postings'[j].run /\ row.job = j
                                                 /\ row.at <= postings'[j].last
      BY <1>7 DEF Publish, PostingsAreTraceable
    <2>1. CASE Mine(j) = {}
      BY <1>1, <1>7, <2>1, PublishFacts DEF PostingsAreTraceable
    <2>2. CASE Mine(j) # {}
      <3>1. PICK row \in Mine(j) : postings'[j].version = row.version
        BY <1>1, <1>7, <2>2, PublishFacts
      <3>2. /\ row.run = last /\ row.job = j /\ row \in StagedOf(j)
            /\ row \in observed /\ row \in processed
        BY <1>1 DEF Mine, StagedOf, RowsInv
      <3>3. postings'[j].run = last /\ row.at <= postings'[j].last
        BY <1>1, <1>7, <2>2, <3>2, PublishFacts
      <3>4. [run |-> row.run, job |-> row.job, version |-> row.version] \in raw
        BY <1>1, <3>2 DEF RowsInv
      <3> QED
        BY <3>1, <3>2, <3>3, <3>4
    <2> QED
      BY <2>1, <2>2
  <1> QED
    BY <1>3, <1>4, <1>5, <1>6, <1>7 DEF Next

(* SharedJobsPublisher.publish with the tables it reads: every posting can *)
(* be traced to the raw record and the observation of the refresh it       *)
(* names, however many refreshes failed before and after.                  *)
THEOREM PostingsTraced == Spec => []PostingsAreTraceable
  <1>1. Init => CollectionInv /\ PostingsAreTraceable
    BY CollectionInit
  <1>2. CollectionInv /\ PostingsAreTraceable /\ [Next]_vars =>
          (CollectionInv /\ PostingsAreTraceable)'
    BY CollectionStep, TraceableStep
  <1> QED
    BY <1>1, <1>2, PTL DEF Spec

(* SharedJobsPublisher.publish: of all the steps only the publication      *)
(* withdraws a posting, and only one that no published refresh has seen    *)
(* for the retention time; no outage and no failed refresh takes one away. *)
THEOREM WithdrawnOnlyUnseen == Spec => WithdrawnWhenUnseen
  <1> DEFINE Kept == \A j \in JobIds :
               (postings[j].active /\ ~postings'[j].active) =>
                 \A row \in observed :
                   (row.job = j /\ result[row.run] \in {"completed", "partial", "failed"}) =>
                     row.at + Retention < now
  <1>1. ASSUME CollectionInv, [Next]_vars PROVE [Kept]_vars
    <2>1. TypeInv /\ RowsInv /\ WorldInv /\ SeenInv
      BY <1>1 DEF CollectionInv
    <2>2. postings' = postings => Kept
      OBVIOUS
    <2>3. CASE Publish
      <3> SUFFICES ASSUME NEW j \in JobIds, postings[j].active, ~postings'[j].active,
                          NEW row \in observed, row.job = j, result[row.run] \in Answered
                   PROVE  row.at + Retention < now
        BY DEF Answered
      <3>1. Overdue(postings[j])
        BY <2>1, <2>3, PublishFacts
      <3>2. row.at <= postings[j].last
        BY <2>1 DEF SeenInv
      <3>3. /\ row.at \in Nat /\ postings[j].last \in Nat /\ now \in Nat
        BY <2>1 DEF TypeInv, SharedRows, PostingRows
      <3>4. postings[j].last + Retention < now
        BY <3>1 DEF Overdue
      <3> QED
        BY <3>2, <3>3, <3>4, Bounds
    <2>4. CASE Outside
      BY <2>1, <2>2, <2>4, OutsideShape
    <2>5. CASE Collect
      BY <2>2, <2>5, InsideShape
    <2>6. CASE Keep /\ ~ Publish
      <3>1. postings' = postings
        BY <2>6 DEF Keep, WriteDetails, Filter, WriteRaw, WriteProcessed, WriteObservations,
          BuildShared, CompleteRun, FailRun
      <3> QED
        BY <2>2, <3>1
    <2> HIDE DEF Kept
    <2> QED
      BY <1>1, <2>3, <2>4, <2>5, <2>6 DEF Next
  <1>2. CollectionInv /\ [Next]_vars => [Kept]_vars
    BY <1>1
  <1> QED
    BY <1>2, CollectionIsConsistent, PTL DEF Spec, WithdrawnWhenUnseen

(* run_shared_connector_refresh from the plan to the publication: what a   *)
(* source showed of what a user wants is published, for any users,         *)
(* documents, openings and retries, and with any failures in between.      *)
THEOREM WantedArePublished == Spec => []WantedJobsPublished
  <1>1. CollectionInv => WantedJobsPublished
    <2> SUFFICES ASSUME CollectionInv, pc = "idle", last > 0, result[last] \in Answered,
                        NEW o \in owed
                 PROVE  \E j \in JobIds :
                          /\ j = o \/ (<<o, j>> \in Similar /\ Rank[j[1]] <= Rank[o[1]])
                          /\ postings[j].run = last /\ postings[j].active
      BY DEF WantedJobsPublished, Answered
    <2>1. PICK j \in JobIds : Stands(o, j) /\ postings[j].run = last /\ postings[j].active
      BY DEF CollectionInv, KeptInv
    <2> QED
      BY <2>1 DEF Stands
  <1> QED
    BY <1>1, CollectionIsConsistent, PTL

(* SharedJobsPublisher.publish: the rows it upserts at once are of         *)
(* different jobs, because a refresh keeps one record and writes one row   *)
(* of each, whatever it retried.                                           *)
THEOREM PublishedOnceAlways == Spec => []PublishedOnce
  <1>1. CollectionInv => PublishedOnce
    BY DEF CollectionInv, RowsInv, OnceInv, PublishedOnce, MartRows, OfRun
  <1> QED
    BY <1>1, CollectionIsConsistent, PTL
=============================================================================
