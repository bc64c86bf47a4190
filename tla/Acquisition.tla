----------------------------- MODULE Acquisition -----------------------------
(***************************************************************************)
(* What a global refresh asks of the job sources and what it keeps of      *)
(* their answers: the pure functions of pipelines/shared_connector_refresh *)
(* and of the modules it calls.  Two kinds of source stand for the five:   *)
(* "board" is read whole, once, for all categories (Greenhouse, Lever),    *)
(* "search" is asked once per category (Adzuna, SerpApi, USAJobs).         *)
(*                                                                         *)
(* Of a user's document only categories and locations reach a source here; *)
(* two categories of one name with other titles are two, as in the code.   *)
(***************************************************************************)
EXTENDS Naturals, FiniteSets

CONSTANTS
  Openings,     \* jobs in the world; several sources may carry one
  Categories,
  Locations,
  Titles,
  Anywhere,     \* the location of a query that names none
  SearchTitles, \* the titles of a category, or its name
  Topic,        \* the categories whose terms an opening contains
  Terms,        \* the titles a search finds an opening by
  Place,        \* the location of an opening
  Carries,      \* the openings a source may carry
  Rank,         \* the place of a source in enabled_sources
  Similar,      \* ids whose records share a link, or a company and a
                \* location with titles that are 92 percent alike
  Platform,     \* the platform's own categories and locations
  QueryLimit,   \* source_budgets[source].query_limit_per_category
  Window        \* 24 hours: the board's window and max_post_age_hours

Sources == {"board", "search"}
Documents == [cats : SUBSET Categories, locs : SUBSET Locations]

ASSUME AcquisitionAssumption ==
  /\ IsFiniteSet(Locations) /\ IsFiniteSet(Titles) /\ Anywhere \notin Locations
  /\ SearchTitles \in [Categories -> SUBSET Titles \ {{}}]
  /\ Topic \in [Openings -> SUBSET Categories]
  /\ Terms \in [Openings -> SUBSET Titles]
  /\ Place \in [Openings -> Locations]
  /\ Carries \in [Sources -> SUBSET Openings]
  /\ Rank \in [Sources -> Nat]
  /\ \A pair \in Similar : <<pair[2], pair[1]>> \in Similar
  /\ Platform \in Documents
  /\ QueryLimit \in Nat \ {0}
  /\ Window \in Nat

(* A user without a category is not active: jobs_config has at least one.  *)
NoDocument == [cats |-> {}, locs |-> {}]
Active(wants) == {u \in DOMAIN wants : wants[u].cats # {}}

Named(wants) == UNION {wants[u].locs : u \in Active(wants)}

(* Mutant: a user who is open to all locations adds nothing. *)
NamedOnly(wants) == IF Active(wants) = {} THEN Platform.locs ELSE Named(wants)

(* _aggregate_global_filters: no location at all means all of them, and    *)
(* one user who names none opens the query to all.                         *)
CombinedLocations(wants) ==
  IF Active(wants) = {} THEN Platform.locs
  ELSE IF \E u \in Active(wants) : wants[u].locs = {} THEN {}
  ELSE Named(wants)

(* _aggregate_acquisition_categories *)
CombinedCategories(wants) ==
  IF Active(wants) = {} THEN Platform.cats
  ELSE UNION {wants[u].cats : u \in Active(wants)}

(* limited_search_pairs: of a category's titles at the locations the first *)
(* QueryLimit, title by title; the titles and the locations come in the    *)
(* order of the users' documents, which is any order here.                 *)
Pairs(c, locs) == SearchTitles[c] \X (IF locs = {} THEN {Anywhere} ELSE locs)

Limited(c, locs) ==
  LET of(t, asked) == {pair \in asked : pair[1] = t} IN
  {asked \in SUBSET Pairs(c, locs) :
     IF Cardinality(Pairs(c, locs)) <= QueryLimit THEN asked = Pairs(c, locs)
     ELSE /\ Cardinality(asked) = QueryLimit
          /\ \A t, u \in SearchTitles[c] :
               (t # u /\ of(t, asked) # {} /\ of(u, asked) # {}) =>
                 \E v \in {t, u} : of(v, asked) = of(v, Pairs(c, locs))}

Plans(wants) ==
  LET cats == CombinedCategories(wants)
      limited(c) == Limited(c, CombinedLocations(wants))
  IN {[cats |-> cats, asked |-> asked] :
        asked \in {f \in [cats -> UNION {limited(c) : c \in cats}] :
                    \A c \in cats : f[c] \in limited(c)}}

(* What a search for some pairs may return. *)
Finds(pairs, p) ==
  \E pair \in pairs : pair[1] \in Terms[p] /\ pair[2] \in {Anywhere, Place[p]}

(* matches_category, for any category of the plan *)
Matches(plan, p) == Topic[p] \intersect plan.cats # {}

(* _within_last_24_hours, of the board *)
Recent(published, now) == published <= now /\ now <= published + Window

Record == [source : Sources, opening : Openings, version : Nat, published : Nat]
JobId(rec) == <<rec.source, rec.opening>>
JobIds == Sources \X Openings

(* _compact_connector_records: of one source's records with one link the   *)
(* first is kept.                                                          *)
Compact(got, fetched) ==
  got \union {rec \in fetched : \A old \in got : JobId(old) # JobId(rec)}

(* apply_shared_freshness_filter, with its MAX_FUTURE_SKEW of 24 hours *)
Accepted(published, now) == published <= now + Window /\ now <= published + Window
Fresh(recs, now) == {rec \in recs : Accepted(rec.published, now)}

(* deduplicate_jobs: in the order of the sources, a record is dropped when *)
(* a kept one before it is its duplicate; within a source any order.       *)
Duplicates(rec, other) ==
  JobId(rec) = JobId(other) \/ <<JobId(rec), JobId(other)>> \in Similar

Deduplications(recs) ==
  {kept \in SUBSET recs :
     /\ \A rec, other \in kept : Duplicates(rec, other) => rec = other
     /\ \A rec \in recs \ kept : \E first \in kept :
          Duplicates(rec, first) /\ Rank[first.source] <= Rank[rec.source]}

(* _source_results, from what was fetched of a source *)
SourceStatus(s, fetched, errors) ==
  IF \E e \in errors : e[1] = s
    THEN (IF s \in fetched THEN "partial" ELSE "failed")
    ELSE "completed"

RunStatus(fetched, errors) ==
  LET bad == {s \in Sources : SourceStatus(s, fetched, errors) # "completed"}
  IN IF bad = {} THEN "completed" ELSE IF bad = Sources THEN "failed" ELSE "partial"

(***************************************************************************)
(* What users may expect, stated from their documents alone                *)
(***************************************************************************)

(* A user wants an opening of his categories at one of his locations. *)
Wants(doc, p) ==
  /\ doc.cats \intersect Topic[p] # {}
  /\ doc.locs = {} \/ Place[p] \in doc.locs

(* All that users name for a category fits its budget. *)
WithinBudget(c, wants) == Cardinality(Pairs(c, Named(wants))) <= QueryLimit
==============================================================================
