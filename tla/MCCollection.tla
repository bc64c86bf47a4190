---------------------------- MODULE MCCollection ----------------------------
EXTENDS Collection

(* Both sources carry o1, only the search has o2 and o3.  The engineer has *)
(* two titles; o3 of one of them looks like o1.                            *)
MCSearchTitles ==
  [c \in Categories |-> IF c = "analyst" THEN {"analyst"} ELSE {"coder", "tester"}]
MCTerms == [p \in Openings |->
  IF p = "o1" THEN {"analyst"} ELSE IF p = "o2" THEN {"analyst", "coder"} ELSE {"tester"}]
MCTopic == [p \in Openings |->
  IF p = "o1" THEN {"analyst"} ELSE IF p = "o2" THEN Categories ELSE {"engineer"}]
MCPlace == [p \in Openings |-> IF p = "o2" THEN "sf" ELSE "nyc"]
MCCarries == [s \in Sources |-> IF s = "board" THEN {"o1"} ELSE Openings]
MCRank == [s \in Sources |-> IF s = "board" THEN 2 ELSE 1]
MCSimilar ==
  {pair \in JobIds \X JobIds : pair[1] # pair[2] /\ "o2" \notin {pair[1][2], pair[2][2]}}
MCPlatform == [cats |-> {"engineer"}, locs |-> Locations]

(* No active user: the platform's own query; one user open to all          *)
(* locations beside one who is not; a user beyond the budget.  Of the      *)
(* titles and locations of the first and the last only two pairs are asked. *)
Doc(cat, locs) == [cats |-> {cat}, locs |-> locs]
MCSnapshots ==
  {[u \in Users |-> NoDocument],
   [u \in Users |-> IF u = "u1" THEN Doc("analyst", {}) ELSE Doc("engineer", {"nyc"})],
   [u \in Users |-> IF u = "u1" THEN NoDocument ELSE Doc("engineer", Locations)]}
=============================================================================
