--------------------------- MODULE AccountsProofs ---------------------------
(***************************************************************************)
(* Theorems about Accounts, for any users, addresses, clients, days and    *)
(* faults.  The inductive invariants build on each other:                  *)
(*   TypeInv     the types, and what holds a row lock is a ledger operation;*)
(*   RowInv      every row passes its checks and, unless a direct update   *)
(*               wrote it, was activated in the past;                      *)
(*   RequestInv  a request under way is about an account that exists, and  *)
(*               what it read under the row lock is still so;              *)
(*   LockInv     a row is locked by one request;                           *)
(*   EmailInv    who may still set an address, and to what.                *)
(***************************************************************************)
EXTENDS Accounts, TLAPS

TypeInv ==
  /\ TypeOK
  /\ \A c \in Clients : req[c].at = "write" => req[c].op \in LedgerOps

-----------------------------------------------------------------------------
(* Operators *)

LEMMA FirstEmailType == FirstEmail \in Emails
  BY AccountsAssumption DEF FirstEmail

LEMMA NoRequestType == NoRequest \in Request /\ NoRequest.at = "idle"
  <1>1. SomeUser \in Users
    BY AccountsAssumption DEF SomeUser
  <1> QED
    BY <1>1, FirstEmailType DEF NoRequest, Request, Ops, Labels, Times, NoTime

LEMMA NewRequestType ==
  ASSUME NEW op \in Ops, NEW at \in Labels, NEW u \in Users
  PROVE  LET r == NewRequest(op, at, u)
         IN  /\ r \in Request
             /\ r.op = op /\ r.at = at /\ r.user = u
             /\ r.now = NoTime /\ r.email = FirstEmail
  BY NoRequestType DEF NewRequest, NoRequest, Request

(* What an operation makes of a row. *)
LEMMA ResultFacts ==
  ASSUME NEW op \in AdminOps, NEW p \in Profile, NEW t \in Nat
  PROVE  LET r == Result(op, p, t)
         IN  /\ r \in Profile
             /\ r.email = p.email
             /\ r.activated \in {p.activated, t}
             /\ p.status # "absent" => r.status # "absent"
             /\ op \in StatementOps => r.expires = p.expires
             /\ op \notin {"activate", "restore"} => (p.deleted => r.deleted)
  <1> DEFINE P(r) == /\ r \in Profile
                     /\ r.email = p.email
                     /\ r.activated \in {p.activated, t}
                     /\ p.status # "absent" => r.status # "absent"
                     /\ op \in StatementOps => r.expires = p.expires
                     /\ op \notin {"activate", "restore"} => (p.deleted => r.deleted)
  <1>0. /\ p.expires \in Nat /\ p.activated \in Nat
        /\ AdjustDays \in Nat /\ ActivationDays \in Nat
    BY AccountsAssumption DEF Profile, Times
  <1>1. CASE op = "activate"
    <2> DEFINE a == Coalesce(p.activated, t)
               e == t + ActivationDays
    <2>1. /\ a \in Nat /\ a \in {p.activated, t}
          /\ e \in Nat
      BY <1>0 DEF Coalesce
    <2> HIDE DEF a, e
    <2> DEFINE x == [p EXCEPT !.status = "active"]
               y == [x EXCEPT !.activated = a]
               z == [y EXCEPT !.expires = e]
               r == [z EXCEPT !.deleted = FALSE]
    <2>2. Activated(p, t) = r
      BY DEF Activated, a, e
    <2>3. x \in Profile /\ x.email = p.email
      BY DEF Profile, Status
    <2>4. y \in Profile /\ y.email = p.email /\ y.activated = a /\ y.status = "active"
      BY <2>1, <2>3 DEF Profile, Times
    <2> HIDE DEF x, y
    <2>5. z \in Profile /\ z.email = p.email /\ z.activated = a /\ z.status = "active"
      BY <2>1, <2>4 DEF Profile, Times
    <2> HIDE DEF z
    <2>6. r \in Profile /\ r.email = p.email /\ r.activated = a /\ r.status = "active"
      BY <2>5 DEF Profile
    <2> QED
      BY <1>1, <2>1, <2>2, <2>6 DEF Result, StatementOps
  <1>2. CASE op = "grant"
    <2>1. Later(t, Coalesce(p.expires, t)) + AdjustDays \in Nat
      BY <1>0 DEF Later, Coalesce, NoTime
    <2>2. P(Granted(p, t))
      BY <1>2, <2>1 DEF Granted, Profile, Status, Times, StatementOps
    <2> QED
      BY <1>2, <2>2 DEF Result
  <1>3. CASE op = "reduce"
    <2> DEFINE from == Coalesce(p.expires, t)
    <2>1. from \in Nat
      BY <1>0 DEF Coalesce
    <2>2. CASE from <= t + AdjustDays
      <3>1. P([p EXCEPT !.expires = t, !.status = "expired"])
        BY <1>3 DEF Profile, Status, Times, StatementOps
      <3> QED
        BY <1>3, <2>2, <3>1 DEF Result, Reduced
    <2>3. CASE ~(from <= t + AdjustDays)
      <3>1. from - AdjustDays \in Nat
        BY <1>0, <2>1, <2>3
      <3>2. P([p EXCEPT !.expires = from - AdjustDays])
        BY <1>3, <3>1 DEF Profile, Status, Times, StatementOps
      <3> QED
        BY <1>3, <2>3, <3>2 DEF Result, Reduced
    <2> QED
      BY <2>2, <2>3
  <1>4. CASE op = "expire"
    <2>1. P(Expired(p, t))
      BY <1>4 DEF Expired, Profile, Status, Times, StatementOps
    <2> QED
      BY <1>4, <2>1 DEF Result
  <1>5. CASE op = "suspend"
    <2>1. P(Suspended(p))
      BY <1>5 DEF Suspended, Profile, Status, StatementOps
    <2> QED
      BY <1>5, <2>1 DEF Result
  <1>6. CASE op = "restore"
    <2>1. P(Restored(p, t))
      BY <1>6 DEF Restored, Profile, Status, StatementOps
    <2> QED
      BY <1>6, <2>1 DEF Result
  <1>7. CASE op = "delete"
    <2>1. P(SoftDeleted(p))
      BY <1>7 DEF SoftDeleted, Profile, Status, StatementOps
    <2> QED
      BY <1>7, <2>1 DEF Result
  <1> QED
    BY <1>1, <1>2, <1>3, <1>4, <1>5, <1>6, <1>7 DEF AdminOps, LedgerOps, StatementOps
-----------------------------------------------------------------------------
(* Types *)

LEMMA RequestWrites ==
  ASSUME NEW r \in Request, NEW at \in Labels
  PROVE  /\ [r EXCEPT !.at = at] \in Request
         /\ \A t \in Times : /\ [r EXCEPT !.at = at, !.now = t] \in Request
                             /\ [r EXCEPT !.at = at, !.previous = t] \in Request
         /\ \A e \in Emails : [r EXCEPT !.email = e] \in Request
  BY DEF Request

LEMMA TypeInit == Init => TypeInv
  BY AccountsAssumption, NoRequestType, FirstEmailType
  DEF Init, TypeInv, TypeOK, Absent, Profile, Status, Times, NoTime, Event, Labels

LEMMA TypeMutation ==
  ASSUME TypeInv, NEW c \in Clients, Mutation(c)
  PROVE  TypeInv'
  <1> USE DEF TypeInv, TypeOK
  <1>0. /\ req[c] \in Request
        /\ req[c].op \in Ops /\ req[c].at \in Labels /\ req[c].user \in Users
        /\ req[c].now \in Times
        /\ profile[req[c].user] \in Profile /\ clock \in Times
        /\ profile[req[c].user].expires \in Times
    BY DEF Request, Profile, Times
  <1>1. ASSUME NEW op \in AdminOps, NEW u \in Users, BeginMutation(c, op, u)
        PROVE  TypeInv'
    <2>1. /\ NewRequest(op, "start", u) \in Request
          /\ NewRequest(op, "start", u).at = "start"
      BY NewRequestType DEF Ops, Labels
    <2> QED
      BY <1>1, <2>1 DEF BeginMutation
  <1>2. CASE StartTransaction(c)
    <2>1. [req[c] EXCEPT !.at = "tx", !.now = clock] \in Request
      BY <1>0, RequestWrites DEF Labels
    <2> QED
      BY <1>2, <2>1 DEF StartTransaction, Request
  <1>3. CASE SelectForUpdate(c)
    <2>1. [req[c] EXCEPT !.at = "write", !.previous = profile[req[c].user].expires]
            \in Request
      BY <1>0, RequestWrites DEF Labels
    <2> QED
      BY <1>3, <2>1, NoRequestType DEF SelectForUpdate, End, Request
  <1>4. CASE UpdateAndRecord(c)
    <2> DEFINE u == req[c].user
               row == Result(req[c].op, profile[u], req[c].now)
               event == [by |-> "event", previous |-> req[c].previous, new |-> row.expires]
    <2>1. row \in Profile
      BY <1>0, <1>4, ResultFacts DEF UpdateAndRecord, AdminOps, Times
    <2>2. event \in Event
      BY <1>0, <2>1 DEF Event, Profile, Request
    <2>3. Append(ledger[u], event) \in Seq(Event)
      BY <1>0, <2>2
    <2>4. LET r == NewRequest(req[c].op, "reread", u)
          IN  r \in Request /\ r.at = "reread"
      BY <1>0, NewRequestType DEF Labels
    <2> HIDE DEF row, event
    <2>5. profile' \in [Users -> Profile] /\ ledger' \in [Users -> Seq(Event)]
      BY <1>4, <1>0, <2>1, <2>3 DEF UpdateAndRecord, row, event
    <2> QED
      BY <1>4, <2>4, <2>5, NoRequestType DEF UpdateAndRecord, Proceed, End
  <1>5. CASE UpdateStatus(c)
    <2> DEFINE u == req[c].user
               row == Result(req[c].op, profile[u], req[c].now)
    <2>1. row \in Profile
      BY <1>0, <1>5, ResultFacts DEF UpdateStatus, AdminOps, Times
    <2>2. \A at \in Labels : LET r == NewRequest(req[c].op, at, u)
                             IN  r \in Request /\ r.at = at
      BY <1>0, NewRequestType
    <2> HIDE DEF row
    <2>3. profile' \in [Users -> Profile]
      BY <1>5, <1>0, <2>1 DEF UpdateStatus, row
    <2> QED
      BY <1>5, <2>2, <2>3, NoRequestType DEF UpdateStatus, Proceed, End, Labels
  <1>6. CASE RevokeSessions(c)
    <2>1. LET r == NewRequest(req[c].op, "reread", req[c].user)
          IN  r \in Request /\ r.at = "reread"
      BY <1>0, NewRequestType DEF Labels
    <2> QED
      BY <1>6, <2>1 DEF RevokeSessions, Proceed
  <1>7. CASE ReadAfter(c)
    <2>1. [req[c] EXCEPT !.at = "audit"] \in Request
      BY <1>0, RequestWrites DEF Labels
    <2> QED
      BY <1>7, <2>1, NoRequestType DEF ReadAfter, Goto, End, Request
  <1>8. CASE Audit(c)
    BY <1>8, NoRequestType DEF Audit, End
  <1> QED
    BY <1>1, <1>2, <1>3, <1>4, <1>5, <1>6, <1>7, <1>8 DEF Mutation

LEMMA TypeEmailUpdate ==
  ASSUME TypeInv, NEW c \in Clients, EmailUpdate(c)
  PROVE  TypeInv'
  <1> USE DEF TypeInv, TypeOK
  <1>0. /\ req[c] \in Request
        /\ req[c].op \in Ops /\ req[c].user \in Users /\ req[c].email \in Emails
    BY DEF Request
  <1>1. ASSUME NEW u \in Users, NEW e \in Emails, BeginUpdate(c, u, e)
        PROVE  TypeInv'
    <2> DEFINE r == NewRequest("update", "auth_email", u)
    <2>0. "update" \in Ops /\ "auth_email" \in Labels
      BY DEF Ops, Labels
    <2>1. r \in Request /\ r.at = "auth_email"
      BY <2>0, NewRequestType
    <2> HIDE DEF r
    <2>2. [r EXCEPT !.email = e] \in Request /\ [r EXCEPT !.email = e].at = "auth_email"
      BY <2>1 DEF Request
    <2>3. entangled' \subseteq Users
      BY <1>1 DEF BeginUpdate, Entangle
    <2> QED
      BY <1>1, <2>2, <2>3 DEF BeginUpdate, r
  <1>2. CASE SetAuthEmail(c)
    <2>1. [req[c] EXCEPT !.at = "profile_email"] \in Request
      BY <1>0, RequestWrites DEF Labels
    <2> QED
      BY <1>0, <1>2, <2>1 DEF SetAuthEmail, Goto, Request
  <1>3. CASE SetProfileEmail(c)
    <2>1. LET r == NewRequest(req[c].op, "reread", req[c].user)
          IN  r \in Request /\ r.at = "reread"
      BY <1>0, NewRequestType DEF Labels
    <2>2. profile' \in [Users -> Profile]
      BY <1>0, <1>3 DEF SetProfileEmail, Profile
    <2> QED
      BY <1>3, <2>1, <2>2 DEF SetProfileEmail, Proceed
  <1> QED
    BY <1>1, <1>2, <1>3 DEF EmailUpdate

LEMMA TypeRegistration ==
  ASSUME TypeInv, NEW c \in Clients, Registration(c)
  PROVE  TypeInv'
  <1> USE DEF TypeInv, TypeOK
  <1>0. req[c] \in Request /\ req[c].user \in Users
    BY DEF Request
  <1>9. \A at \in {"upsert", "audit", "rollback"} :
          /\ [req[c] EXCEPT !.at = at] \in Request
          /\ [req[c] EXCEPT !.at = at].at = at
    BY <1>0 DEF Request, Labels
  <1>1. ASSUME NEW op \in {"register", "create"}, NEW u \in Users,
               BeginRegistration(c, op, u)
        PROVE  TypeInv'
    <2>0. op \in Ops /\ "create" \in Labels
      BY DEF Ops, Labels
    <2>1. LET r == NewRequest(op, "create", u)
          IN  r \in Request /\ r.at = "create"
      BY <2>0, NewRequestType
    <2> QED
      BY <1>1, <2>1 DEF BeginRegistration
  <1>2. CASE CreateAuthUser(c)
    <2> DEFINE u == req[c].user
    <2>1. [profile[u] EXCEPT !.status = "pending"] \in Profile
      BY <1>0 DEF Profile, Status
    <2>2. profile' \in [Users -> Profile]
      BY <1>0, <1>2, <2>1 DEF CreateAuthUser
    <2>3. CASE Exists(u)
      BY <1>2, <2>2, <2>3, NoRequestType DEF CreateAuthUser, End
    <2>4. CASE ~Exists(u)
      BY <1>2, <1>9, <2>2, <2>4 DEF CreateAuthUser, Goto
    <2> QED
      BY <2>3, <2>4
  <1>3. CASE CreatePendingProfile(c)
    <2>1. profile' \in [Users -> Profile]
      BY <1>0, <1>3, FirstEmailType DEF CreatePendingProfile, Profile
    <2>2. \/ req' = [req EXCEPT ![c].at = "rollback"]
          \/ req' = [req EXCEPT ![c].at = "audit"]
          \/ req' = [req EXCEPT ![c] = NoRequest]
      BY <1>3 DEF CreatePendingProfile, Goto, End
    <2> QED
      BY <1>3, <1>9, <2>1, <2>2, NoRequestType DEF CreatePendingProfile
  <1>4. CASE CreatePendingProfileFails(c)
    BY <1>4, <1>9, AccountsAssumption DEF CreatePendingProfileFails, Goto
  <1>5. CASE DeleteAuthUser(c)
    BY <1>5, NoRequestType DEF DeleteAuthUser, End
  <1> QED
    BY <1>1, <1>2, <1>3, <1>4, <1>5 DEF Registration

LEMMA TypeDirect ==
  ASSUME TypeInv, NEW u \in Users, DirectUpdate(u)
  PROVE  TypeInv'
  <1> USE DEF TypeInv, TypeOK
  <1>0. profile[u] \in Profile /\ profile[u].activated \in Times /\ profile[u].expires \in Times
    BY DEF Profile
  <1>1. PICK status \in Status \ {"absent"},
             activated \in DirectDates \union {profile[u].activated},
             expires \in DirectDates \union {profile[u].expires},
             deleted \in BOOLEAN, email \in Emails :
          /\ profile' = [profile EXCEPT ![u] =
               [status |-> status, activated |-> activated, expires |-> expires,
                deleted |-> deleted, email |-> email]]
          /\ ledger' = [ledger EXCEPT ![u] =
               Append(@, [by |-> "audit", previous |-> profile[u].expires,
                          new |-> expires])]
          /\ astray' \subseteq astray \union {u}
    BY DEF DirectUpdate
  <1>2. activated \in Times /\ expires \in Times
    BY <1>0, AccountsAssumption DEF Times
  <1>3. [status |-> status, activated |-> activated, expires |-> expires,
         deleted |-> deleted, email |-> email] \in Profile
    BY <1>2 DEF Profile
  <1>4. [by |-> "audit", previous |-> profile[u].expires, new |-> expires] \in Event
    BY <1>0, <1>2 DEF Event
  <1>5. profile' \in [Users -> Profile]
    BY <1>1, <1>3
  <1>6. ledger' \in [Users -> Seq(Event)]
    BY <1>1, <1>4
  <1> QED
    BY <1>1, <1>5, <1>6 DEF DirectUpdate

LEMMA TypeNext == TypeInv /\ [Next]_vars => TypeInv'
  <1> SUFFICES ASSUME TypeInv, [Next]_vars PROVE TypeInv'
    OBVIOUS
  <1>1. CASE Tick
    BY <1>1 DEF Tick, TypeInv, TypeOK
  <1>2. ASSUME NEW c \in Clients, RequestFails(c) PROVE TypeInv'
    BY <1>2, NoRequestType, AccountsAssumption DEF RequestFails, End, TypeInv, TypeOK
  <1>3. CASE UNCHANGED vars
    BY <1>3 DEF vars, TypeInv, TypeOK
  <1> QED
    BY <1>1, <1>2, <1>3, TypeMutation, TypeEmailUpdate, TypeRegistration, TypeDirect DEF Next

(* Every variable keeps its type. *)
THEOREM TypeCorrect == Spec => []TypeOK
  <1>1. TypeInv => TypeOK
    BY DEF TypeInv
  <1> QED
    BY <1>1, TypeInit, TypeNext, PTL DEF Spec
-----------------------------------------------------------------------------
(* What a step may do to an account and to a request *)

OnAccount == {"start", "tx", "write", "auth_email", "profile_email", "upsert"}

Untouched(u) == profile'[u] = profile[u] /\ ledger'[u] = ledger[u]

Enters(u) ==
  /\ ~Exists(u)
  /\ profile'[u] = [profile[u] EXCEPT !.status = "pending"]
  /\ ledger'[u] = ledger[u]

Addressed(u) ==
  /\ \E e \in Emails : profile'[u] = [profile[u] EXCEPT !.email = e]
  /\ ledger'[u] = ledger[u]

Recorded(u, c) ==
  LET row == Result(req[c].op, profile[u], req[c].now)
  IN  /\ req[c].at = "write" /\ req[c].op \in LedgerOps
      /\ ledger'[u] = Append(ledger[u], [by |-> "event", previous |-> req[c].previous,
                                         new |-> row.expires])

Stated(u, c) ==
  /\ req[c].at = "tx" /\ req[c].op \in StatementOps
  /\ ~RowLocked(u)
  /\ ledger'[u] = ledger[u]

Operated(u, c) ==
  LET row == Result(req[c].op, profile[u], req[c].now)
  IN  /\ req[c].user = u
      /\ profile'[u] = row /\ RowChecks(row)
      /\ Recorded(u, c) \/ Stated(u, c)
      /\ req'[c].at # "write"

Directly(u) ==
  /\ Exists(u) /\ ~RowLocked(u)
  /\ profile'[u] \in Profile /\ profile'[u].status # "absent"
  /\ RowChecks(profile'[u])
  /\ ledger'[u] = Append(ledger[u], [by |-> "audit", previous |-> profile[u].expires,
                                     new |-> profile'[u].expires])

RowStep(u) ==
  \/ Untouched(u) \/ Enters(u) \/ Addressed(u) \/ Directly(u)
  \/ \E c \in Clients : Operated(u, c)

LEMMA RowDirect ==
  ASSUME TypeInv, NEW v \in Users, DirectUpdate(v), NEW u \in Users
  PROVE  RowStep(u)
  <1> USE DEF TypeInv, TypeOK
  <1>1. PICK status \in Status \ {"absent"},
             activated \in DirectDates \union {profile[v].activated},
             expires \in DirectDates \union {profile[v].expires},
             deleted \in BOOLEAN, email \in Emails :
          LET row == [status |-> status, activated |-> activated, expires |-> expires,
                      deleted |-> deleted, email |-> email]
          IN  /\ RowChecks(row)
              /\ profile' = [profile EXCEPT ![v] = row]
              /\ ledger' = [ledger EXCEPT ![v] =
                   Append(@, [by |-> "audit", previous |-> profile[v].expires,
                              new |-> expires])]
    BY DEF DirectUpdate
  <1>2. CASE u = v
    <2> DEFINE row == [status |-> status, activated |-> activated, expires |-> expires,
                       deleted |-> deleted, email |-> email]
    <2>1. row.status # "absent" /\ row.expires = expires
      OBVIOUS
    <2> HIDE DEF row
    <2>2. /\ RowChecks(row) /\ profile'[u] = row
          /\ ledger'[u] = Append(ledger[u], [by |-> "audit", previous |-> profile[u].expires,
                                             new |-> expires])
      BY <1>1, <1>2 DEF row
    <2>3. profile'[u] \in Profile
      BY TypeDirect
    <2>4. Exists(u) /\ ~RowLocked(u)
      BY <1>2 DEF DirectUpdate
    <2> QED
      BY <2>1, <2>2, <2>3, <2>4 DEF RowStep, Directly
  <1>3. CASE u # v
    BY <1>1, <1>3 DEF RowStep, Untouched
  <1> QED
    BY <1>2, <1>3

LEMMA RowMutation ==
  ASSUME TypeInv, NEW c \in Clients, Mutation(c), NEW u \in Users
  PROVE  RowStep(u)
  <1> USE DEF TypeInv, TypeOK
  <1>0. req[c] \in Request /\ req[c].op \in Ops /\ req[c].user \in Users
    BY DEF Request
  <1>1. ASSUME NEW at \in Labels \ {"write"}
        PROVE  /\ NewRequest(req[c].op, at, req[c].user).at # "write"
               /\ NoRequest.at # "write"
    BY <1>0, NewRequestType, NoRequestType
  <1>2. CASE UpdateAndRecord(c)
    <2> DEFINE v == req[c].user
               row == Result(req[c].op, profile[v], req[c].now)
               event == [by |-> "event", previous |-> req[c].previous, new |-> row.expires]
    <2>1. CASE RowChecks(row)
      <3>1. /\ profile' = [profile EXCEPT ![v] = row]
            /\ ledger' = [ledger EXCEPT ![v] = Append(@, event)]
            /\ req' = [req EXCEPT ![c] = NewRequest(@.op, "reread", @.user)]
            /\ req[c].at = "write" /\ req[c].op \in LedgerOps
        BY <1>2, <2>1 DEF UpdateAndRecord, Proceed
      <3>2. req'[c].at # "write"
        BY <1>1, <3>1 DEF Labels
      <3>3. CASE u = v
        <4>1. Recorded(u, c) /\ profile'[u] = row
          BY <1>0, <3>1, <3>3 DEF Recorded
        <4> QED
          BY <2>1, <3>2, <3>3, <4>1 DEF RowStep, Operated
      <3>4. CASE u # v
        BY <3>1, <3>4 DEF RowStep, Untouched
      <3> QED
        BY <3>3, <3>4
    <2>2. CASE ~RowChecks(row)
      BY <1>2, <2>2 DEF UpdateAndRecord, RowStep, Untouched
    <2> QED
      BY <2>1, <2>2
  <1>3. CASE UpdateStatus(c)
    <2> DEFINE v == req[c].user
               row == Result(req[c].op, profile[v], req[c].now)
    <2>1. CASE RowChecks(row)
      <3>1. /\ profile' = [profile EXCEPT ![v] = row]
            /\ ledger' = ledger
            /\ \E at \in {"reread", "revoke"} :
                 req' = [req EXCEPT ![c] = NewRequest(@.op, at, @.user)]
            /\ req[c].at = "tx" /\ req[c].op \in StatementOps /\ ~RowLocked(v)
        BY <1>3, <2>1 DEF UpdateStatus, Proceed
      <3>2. req'[c].at # "write"
        BY <1>1, <3>1 DEF Labels
      <3>3. CASE u = v
        <4>1. Stated(u, c) /\ profile'[u] = row
          BY <1>0, <3>1, <3>3 DEF Stated
        <4> QED
          BY <2>1, <3>2, <3>3, <4>1 DEF RowStep, Operated
      <3>4. CASE u # v
        BY <3>1, <3>4 DEF RowStep, Untouched
      <3> QED
        BY <3>3, <3>4
    <2>2. CASE ~RowChecks(row)
      BY <1>3, <2>2 DEF UpdateStatus, RowStep, Untouched
    <2> QED
      BY <2>1, <2>2
  <1>4. UNCHANGED <<profile, ledger>> => RowStep(u)
    BY DEF RowStep, Untouched
  <1> QED
    BY <1>2, <1>3, <1>4
    DEF Mutation, BeginMutation, StartTransaction, SelectForUpdate, RevokeSessions,
        ReadAfter, Audit

LEMMA RowSteps ==
  ASSUME TypeInv, [Next]_vars, NEW u \in Users
  PROVE  RowStep(u)
  <1> USE DEF TypeInv, TypeOK
  <1>1. UNCHANGED <<profile, ledger>> => RowStep(u)
    BY DEF RowStep, Untouched
  <1>2. ASSUME NEW c \in Clients, EmailUpdate(c) PROVE RowStep(u)
    <2>1. CASE SetProfileEmail(c)
      <3>1. req[c].email \in Emails
        BY DEF Request
      <3>2. \/ profile'[u] = profile[u]
            \/ profile'[u] = [profile[u] EXCEPT !.email = req[c].email]
        BY <2>1 DEF SetProfileEmail
      <3> QED
        BY <2>1, <3>1, <3>2 DEF SetProfileEmail, RowStep, Untouched, Addressed
    <2> QED
      BY <1>1, <1>2, <2>1 DEF EmailUpdate, BeginUpdate, SetAuthEmail
  <1>3. ASSUME NEW c \in Clients, Registration(c) PROVE RowStep(u)
    <2>1. CASE CreateAuthUser(c)
      <3> DEFINE v == req[c].user
      <3>0. \/ profile' = profile
            \/ ~Exists(v) /\ profile' = [profile EXCEPT ![v].status = "pending"]
        BY <2>1 DEF CreateAuthUser
      <3>1. \/ profile'[u] = profile[u]
            \/ ~Exists(u) /\ profile'[u] = [profile[u] EXCEPT !.status = "pending"]
        <4>1. CASE profile' = profile
          BY <4>1
        <4>2. CASE ~Exists(v) /\ profile' = [profile EXCEPT ![v].status = "pending"]
          <5>1. CASE u = v
            BY <4>2, <5>1
          <5>2. CASE u # v
            BY <4>2, <5>2
          <5> QED
            BY <5>1, <5>2
        <4> QED
          BY <3>0, <4>1, <4>2
      <3> QED
        BY <2>1, <3>1 DEF CreateAuthUser, RowStep, Untouched, Enters
    <2>2. CASE CreatePendingProfile(c)
      <3>1. \/ profile'[u] = profile[u]
            \/ profile'[u] = [profile[u] EXCEPT !.email = FirstEmail]
        BY <2>2 DEF CreatePendingProfile
      <3> QED
        BY <2>2, <3>1, FirstEmailType DEF CreatePendingProfile, RowStep, Untouched, Addressed
    <2> QED
      BY <1>1, <1>3, <2>1, <2>2
      DEF Registration, BeginRegistration, CreatePendingProfileFails, DeleteAuthUser
  <1> QED
    BY <1>1, <1>2, <1>3, RowMutation, RowDirect DEF Next, vars, Tick, RequestFails
-----------------------------------------------------------------------------
(* Rows, requests and locks *)

RowInv ==
  \A u \in Users :
    /\ RowChecks(profile[u])
    /\ ~Edited(u) => profile[u].activated <= clock
    /\ ~Exists(u) => profile[u].activated = NoTime /\ profile[u].expires = NoTime

RequestInv ==
  \A c \in Clients :
    /\ req[c].now <= clock
    /\ req[c].at \in OnAccount => Exists(req[c].user)
    /\ req[c].at = "write" =>
         /\ req[c].previous = profile[req[c].user].expires
         /\ req[c].op = "activate" => profile[req[c].user].status = "pending"

LockInv ==
  \A c, d \in Clients :
    req[c].at = "write" /\ req[d].at = "write" /\ req[c].user = req[d].user => c = d

AccountInv == RowInv /\ RequestInv /\ LockInv

LEMMA OperatedFacts ==
  ASSUME TypeInv, NEW u \in Users, NEW c \in Clients, Operated(u, c)
  PROVE  /\ profile'[u] \in Profile
         /\ profile'[u].email = profile[u].email
         /\ profile'[u].activated \in {profile[u].activated, req[c].now}
         /\ Exists(u) => profile'[u].status # "absent"
         /\ req[c].at = "tx" => profile'[u].expires = profile[u].expires
         /\ req[c].op \notin {"activate", "restore"} =>
              (profile[u].deleted => profile'[u].deleted)
  <1>1. req[c].op \in AdminOps /\ req[c].now \in Nat /\ profile[u] \in Profile
    BY DEF TypeInv, TypeOK, Request, Times, Operated, Recorded, Stated, AdminOps
  <1>2. req[c].at = "tx" => req[c].op \in StatementOps
    BY DEF Operated, Recorded, Stated
  <1>3. profile'[u] = Result(req[c].op, profile[u], req[c].now)
    BY DEF Operated
  <1> QED
    BY <1>1, <1>2, <1>3, ResultFacts DEF Exists

LEMMA ExistsKept ==
  ASSUME TypeInv, [Next]_vars, NEW u \in Users, Exists(u)
  PROVE  profile'[u].status # "absent"
  <1>0. profile[u] \in Profile
    BY DEF TypeInv, TypeOK
  <1>1. CASE Untouched(u)
    BY <1>1 DEF Untouched, Exists
  <1>2. CASE Addressed(u)
    BY <1>0, <1>2 DEF Addressed, Exists, Profile
  <1>3. ASSUME NEW c \in Clients, Operated(u, c) PROVE profile'[u].status # "absent"
    BY <1>3, OperatedFacts
  <1> QED
    BY <1>1, <1>2, <1>3, RowSteps DEF RowStep, Enters, Directly

(* An entry of the audit log stays. *)
LEMMA EditedKept ==
  ASSUME TypeInv, [Next]_vars, NEW u \in Users
  PROVE  /\ Edited(u) => Edited(u)'
         /\ Directly(u) => Edited(u)'
  <1>0. ledger[u] \in Seq(Event) /\ profile[u] \in Profile
    BY DEF TypeInv, TypeOK
  <1>1. ASSUME NEW e, ledger'[u] = Append(ledger[u], e)
        PROVE  /\ \A i \in DOMAIN ledger[u] :
                    i \in DOMAIN ledger'[u] /\ ledger'[u][i] = ledger[u][i]
               /\ \E i \in DOMAIN ledger'[u] : ledger'[u][i] = e
    <2>1. /\ Len(ledger[u]) + 1 \in DOMAIN ledger'[u]
          /\ ledger'[u][Len(ledger[u]) + 1] = e
      BY <1>0, <1>1
    <2>2. \A i \in DOMAIN ledger[u] :
            i \in DOMAIN ledger'[u] /\ ledger'[u][i] = ledger[u][i]
      BY <1>0, <1>1
    <2> QED
      BY <2>1, <2>2
  <1>2. \/ ledger'[u] = ledger[u]
        \/ \E e : ledger'[u] = Append(ledger[u], e)
    BY RowSteps
    DEF RowStep, Untouched, Enters, Addressed, Directly, Operated, Recorded, Stated
  <1>3. Edited(u) => Edited(u)'
    BY <1>1, <1>2 DEF Edited
  <1>4. Directly(u) => Edited(u)'
    <2> DEFINE e == [by |-> "audit", previous |-> profile[u].expires,
                     new |-> profile'[u].expires]
    <2>1. e.by = "audit"
      OBVIOUS
    <2> HIDE DEF e
    <2>2. Directly(u) => ledger'[u] = Append(ledger[u], e)
      BY DEF Directly, e
    <2> QED
      BY <1>1, <2>1, <2>2 DEF Edited
  <1> QED
    BY <1>3, <1>4

RequestStep(c) ==
  \/ req'[c] = req[c]
  \/ SelectForUpdate(c) /\ req'[c].at = "write"
  \/ /\ req'[c].at # "write"
     /\ req'[c].now <= clock
     /\ req'[c].at \in OnAccount => profile'[req'[c].user].status # "absent"

(* NoRequest is a request about nobody in particular. *)
LEMMA NoRequestStep ==
  ASSUME TypeInv, NEW c \in Clients, req'[c] = NoRequest
  PROVE  RequestStep(c)
  BY NoRequestType DEF RequestStep, OnAccount, NoRequest, TypeInv, TypeOK, NoTime

LEMMA NewRequestStep ==
  ASSUME TypeInv, NEW c \in Clients,
         NEW op \in Ops, NEW at \in Labels \ {"write"}, NEW u \in Users,
         req'[c] = NewRequest(op, at, u),
         at \in OnAccount => profile'[u].status # "absent"
  PROVE  RequestStep(c)
  BY NewRequestType DEF RequestStep, NoTime, TypeInv, TypeOK

LEMMA RequestMutation ==
  ASSUME TypeInv, RequestInv, [Next]_vars, NEW c \in Clients, Mutation(c)
  PROVE  RequestStep(c)
  <1> USE DEF TypeInv, TypeOK
  <1>0. /\ req[c] \in Request /\ req[c].op \in Ops /\ req[c].user \in Users
        /\ req[c].now <= clock /\ clock \in Nat /\ clock <= clock
    BY DEF Request, RequestInv
  <1>1. ASSUME NEW op \in AdminOps, NEW u \in Users, BeginMutation(c, op, u)
        PROVE  RequestStep(c)
    <2>1. Exists(u)
      BY <1>1 DEF BeginMutation, Found
    <2>2. req'[c] = NewRequest(op, "start", u)
      BY <1>1 DEF BeginMutation
    <2>3. op \in Ops /\ "start" \in Labels \ {"write"}
      BY DEF Ops, Labels
    <2> QED
      BY <2>1, <2>2, <2>3, ExistsKept, NewRequestStep
  <1>2. CASE StartTransaction(c)
    <2>1. /\ req'[c].at = "tx" /\ req'[c].now = clock /\ req'[c].user = req[c].user
      BY <1>0, <1>2 DEF StartTransaction, Request
    <2>2. Exists(req[c].user)
      BY <1>2 DEF StartTransaction, RequestInv, OnAccount
    <2> QED
      BY <1>0, <2>1, <2>2, ExistsKept DEF RequestStep
  <1>3. CASE SelectForUpdate(c)
    <2>1. req'[c].at = "write" \/ req'[c] = NoRequest
      BY <1>0, <1>3 DEF SelectForUpdate, End, Request
    <2> QED
      BY <1>3, <2>1, NoRequestStep DEF RequestStep
  <1>4. CASE UpdateAndRecord(c) \/ UpdateStatus(c) \/ RevokeSessions(c)
    <2>1. \/ req'[c] = NoRequest
          \/ \E at \in {"reread", "revoke"} :
               req'[c] = NewRequest(req[c].op, at, req[c].user)
      BY <1>4 DEF UpdateAndRecord, UpdateStatus, RevokeSessions, Proceed, End
    <2>2. \A at \in {"reread", "revoke"} : at \in Labels \ {"write"} /\ at \notin OnAccount
      BY DEF Labels, OnAccount
    <2> QED
      BY <1>0, <2>1, <2>2, NoRequestStep, NewRequestStep
  <1>5. CASE ReadAfter(c) \/ Audit(c)
    <2>1. \/ req'[c] = NoRequest
          \/ /\ req'[c].at = "audit" /\ req'[c].now = req[c].now
      BY <1>0, <1>5 DEF ReadAfter, Audit, Goto, End, Request
    <2> QED
      BY <1>0, <2>1, NoRequestStep DEF RequestStep, OnAccount
  <1> QED
    BY <1>1, <1>2, <1>3, <1>4, <1>5 DEF Mutation

LEMMA RequestEmailUpdate ==
  ASSUME TypeInv, RequestInv, [Next]_vars, NEW c \in Clients, EmailUpdate(c)
  PROVE  RequestStep(c)
  <1> USE DEF TypeInv, TypeOK
  <1>0. /\ req[c] \in Request /\ req[c].op \in Ops /\ req[c].user \in Users
        /\ req[c].now <= clock /\ clock \in Nat
    BY DEF Request, RequestInv
  <1>1. ASSUME NEW u \in Users, NEW e \in Emails, BeginUpdate(c, u, e)
        PROVE  RequestStep(c)
    <2> DEFINE r == NewRequest("update", "auth_email", u)
    <2>0. "update" \in Ops /\ "auth_email" \in Labels
      BY DEF Ops, Labels
    <2>1. r \in Request /\ r.at = "auth_email" /\ r.now = NoTime /\ r.user = u
      BY <2>0, NewRequestType
    <2> HIDE DEF r
    <2>2. req'[c] = [r EXCEPT !.email = e]
      BY <1>1 DEF BeginUpdate, r
    <2>3. req'[c].at = "auth_email" /\ req'[c].now = NoTime /\ req'[c].user = u
      BY <2>1, <2>2 DEF Request
    <2>4. Exists(u)
      BY <1>1 DEF BeginUpdate, Found
    <2> QED
      BY <1>0, <2>3, <2>4, ExistsKept DEF RequestStep, NoTime
  <1>2. CASE SetAuthEmail(c)
    <2>1. /\ req'[c].at = "profile_email" /\ req'[c].now = req[c].now
          /\ req'[c].user = req[c].user
      BY <1>0, <1>2 DEF SetAuthEmail, Goto, Request
    <2>2. Exists(req[c].user)
      BY <1>2 DEF SetAuthEmail, RequestInv, OnAccount
    <2> QED
      BY <1>0, <2>1, <2>2, ExistsKept DEF RequestStep
  <1>3. CASE SetProfileEmail(c)
    <2>1. req'[c] = NewRequest(req[c].op, "reread", req[c].user)
      BY <1>3 DEF SetProfileEmail, Proceed
    <2>2. "reread" \in Labels \ {"write"} /\ "reread" \notin OnAccount
      BY DEF Labels, OnAccount
    <2> QED
      BY <1>0, <2>1, <2>2, NewRequestStep
  <1> QED
    BY <1>1, <1>2, <1>3 DEF EmailUpdate

LEMMA RequestRegistration ==
  ASSUME TypeInv, RequestInv, [Next]_vars, NEW c \in Clients, Registration(c)
  PROVE  RequestStep(c)
  <1> USE DEF TypeInv, TypeOK
  <1>0. /\ req[c] \in Request /\ req[c].user \in Users
        /\ req[c].now <= clock /\ clock \in Nat
    BY DEF Request, RequestInv
  <1>1. ASSUME NEW op \in {"register", "create"}, NEW u \in Users,
               BeginRegistration(c, op, u)
        PROVE  RequestStep(c)
    <2>1. req'[c] = NewRequest(op, "create", u)
      BY <1>1 DEF BeginRegistration
    <2>2. /\ op \in Ops /\ "create" \in Labels \ {"write"} /\ "create" \notin OnAccount
      BY DEF Ops, Labels, OnAccount
    <2> QED
      BY <2>1, <2>2, NewRequestStep
  <1>2. CASE CreateAuthUser(c)
    <2> DEFINE u == req[c].user
    <2>1. CASE Exists(u)
      BY <1>2, <2>1, NoRequestStep DEF CreateAuthUser, End
    <2>2. CASE ~Exists(u)
      <3>1. /\ req'[c].at = "upsert" /\ req'[c].now = req[c].now
            /\ req'[c].user = u
        BY <1>0, <1>2, <2>2 DEF CreateAuthUser, Goto, Request
      <3>2. profile'[u].status = "pending"
        BY <1>0, <1>2, <2>2 DEF CreateAuthUser, Profile
      <3> QED
        BY <1>0, <3>1, <3>2 DEF RequestStep
    <2> QED
      BY <2>1, <2>2
  <1>3. CASE CreatePendingProfile(c) \/ CreatePendingProfileFails(c) \/ DeleteAuthUser(c)
    <2>1. \/ req'[c] = NoRequest
          \/ /\ req'[c].at \in {"audit", "rollback"}
             /\ req'[c].now = req[c].now
      BY <1>0, <1>3
      DEF CreatePendingProfile, CreatePendingProfileFails, DeleteAuthUser, Goto, End, Request
    <2> QED
      BY <1>0, <2>1, NoRequestStep DEF RequestStep, OnAccount
  <1> QED
    BY <1>1, <1>2, <1>3 DEF Registration

LEMMA OtherRequests ==
  ASSUME TypeInv, NEW c \in Clients, NEW d \in Clients, c # d,
         Mutation(c) \/ EmailUpdate(c) \/ Registration(c) \/ RequestFails(c)
  PROVE  req'[d] = req[d]
  <1> USE DEF TypeInv, TypeOK, Goto, Proceed, End
  <1>1. CASE Mutation(c)
    BY <1>1
    DEF Mutation, BeginMutation, StartTransaction, SelectForUpdate, UpdateAndRecord,
        UpdateStatus, RevokeSessions, ReadAfter, Audit
  <1>2. CASE EmailUpdate(c)
    BY <1>2 DEF EmailUpdate, BeginUpdate, SetAuthEmail, SetProfileEmail
  <1>3. CASE Registration(c)
    BY <1>3
    DEF Registration, BeginRegistration, CreateAuthUser, CreatePendingProfile,
        CreatePendingProfileFails, DeleteAuthUser
  <1> QED
    BY <1>1, <1>2, <1>3 DEF RequestFails

LEMMA RequestSteps ==
  ASSUME TypeInv, RequestInv, [Next]_vars, NEW c \in Clients
  PROVE  RequestStep(c)
  <1>1. ASSUME NEW d \in Clients, RequestFails(d) PROVE RequestStep(c)
    <2>1. CASE c = d
      BY <1>1, <2>1, NoRequestStep DEF RequestFails, End, TypeInv, TypeOK
    <2> QED
      BY <1>1, <2>1, OtherRequests DEF RequestStep
  <1>2. ASSUME NEW d \in Clients, Mutation(d) \/ EmailUpdate(d) \/ Registration(d)
        PROVE  RequestStep(c)
    BY <1>2, RequestMutation, RequestEmailUpdate, RequestRegistration, OtherRequests
    DEF RequestStep
  <1>3. CASE Tick \/ UNCHANGED vars
    BY <1>3 DEF Tick, vars, RequestStep
  <1>4. ASSUME NEW u \in Users, DirectUpdate(u) PROVE RequestStep(c)
    BY <1>4 DEF DirectUpdate, RequestStep
  <1> QED
    BY <1>1, <1>2, <1>3, <1>4 DEF Next

LEMMA ClockSteps ==
  ASSUME TypeInv, [Next]_vars
  PROVE  clock \in Nat /\ clock' \in Nat /\ clock <= clock'
  <1> USE DEF TypeInv, TypeOK
  <1>1. ASSUME NEW c \in Clients, Mutation(c) PROVE clock' = clock
    BY <1>1
    DEF Mutation, BeginMutation, StartTransaction, SelectForUpdate, UpdateAndRecord,
        UpdateStatus, RevokeSessions, ReadAfter, Audit
  <1>2. ASSUME NEW c \in Clients, EmailUpdate(c) PROVE clock' = clock
    BY <1>2 DEF EmailUpdate, BeginUpdate, SetAuthEmail, SetProfileEmail
  <1>3. ASSUME NEW c \in Clients, Registration(c) PROVE clock' = clock
    BY <1>3
    DEF Registration, BeginRegistration, CreateAuthUser, CreatePendingProfile,
        CreatePendingProfileFails, DeleteAuthUser
  <1>4. ASSUME NEW u \in Users, DirectUpdate(u) PROVE clock' = clock
    BY <1>4 DEF DirectUpdate
  <1> QED
    BY <1>1, <1>2, <1>3, <1>4 DEF Next, vars, Tick, RequestFails

LEMMA AccountInit == Init => AccountInv
  BY NoRequestType
  DEF Init, AccountInv, RowInv, RequestInv, LockInv, RowChecks, Absent, Exists, NoTime,
      NoRequest, OnAccount

LEMMA RowNext ==
  ASSUME TypeInv, AccountInv, [Next]_vars
  PROVE  RowInv'
  <1> SUFFICES ASSUME NEW u \in Users
               PROVE  /\ RowChecks(profile'[u])
                      /\ ~Edited(u)' => profile'[u].activated <= clock'
                      /\ profile'[u].status = "absent" =>
                           profile'[u].activated = NoTime /\ profile'[u].expires = NoTime
    BY DEF RowInv, Exists
  <1>0. /\ RowChecks(profile[u])
        /\ ~Edited(u)' => profile[u].activated <= clock
        /\ profile[u].status = "absent" =>
             profile[u].activated = NoTime /\ profile[u].expires = NoTime
        /\ profile[u] \in Profile /\ profile[u].activated \in Nat
    BY EditedKept DEF AccountInv, RowInv, Exists, TypeInv, TypeOK, Profile, Times
  <1>1. CASE Untouched(u)
    BY <1>0, <1>1, ClockSteps DEF Untouched
  <1>2. CASE Enters(u)
    <2>1. /\ profile'[u].status = "pending"
          /\ profile'[u].activated = NoTime /\ profile'[u].expires = NoTime
          /\ profile'[u].deleted = profile[u].deleted
      BY <1>0, <1>2 DEF Enters, Exists, Profile
    <2>2. ~profile[u].deleted
      BY <1>0, <1>2 DEF Enters, Exists, RowChecks
    <2> QED
      BY <2>1, <2>2, ClockSteps DEF RowChecks, NoTime
  <1>3. CASE Addressed(u)
    <2>1. /\ profile'[u].status = profile[u].status
          /\ profile'[u].activated = profile[u].activated
          /\ profile'[u].expires = profile[u].expires
          /\ profile'[u].deleted = profile[u].deleted
      BY <1>0, <1>3 DEF Addressed, Profile
    <2> QED
      BY <1>0, <2>1, ClockSteps DEF RowChecks
  <1>4. ASSUME NEW c \in Clients, Operated(u, c)
        PROVE  /\ RowChecks(profile'[u])
               /\ ~Edited(u)' => profile'[u].activated <= clock'
               /\ profile'[u].status # "absent"
    <2>1. RowChecks(profile'[u])
      BY <1>4 DEF Operated
    <2>2. Exists(u) /\ req[c].now <= clock /\ req[c].now \in Nat
      BY <1>4 DEF Operated, Recorded, Stated, AccountInv, RequestInv, OnAccount,
                  TypeInv, TypeOK, Request, Times
    <2>3. profile'[u].activated \in {profile[u].activated, req[c].now}
      BY <1>4, OperatedFacts
    <2>4. ~Edited(u)' => profile'[u].activated <= clock
      BY <1>0, <2>2, <2>3
    <2>5. profile'[u].activated \in Nat
      BY <1>0, <2>2, <2>3
    <2> QED
      BY <1>4, <2>1, <2>2, <2>4, <2>5, ClockSteps, OperatedFacts
  <1>5. CASE Directly(u)
    BY <1>5, EditedKept DEF Directly
  <1> QED
    BY <1>1, <1>2, <1>3, <1>4, <1>5, RowSteps DEF RowStep

LEMMA SelectFacts ==
  ASSUME TypeInv, NEW c \in Clients, SelectForUpdate(c), req'[c].at = "write"
  PROVE  /\ req'[c].user = req[c].user /\ req'[c].op = req[c].op
         /\ req'[c].now = req[c].now
         /\ req'[c].previous = profile[req[c].user].expires
         /\ req[c].op = "activate" => profile[req[c].user].status = "pending"
         /\ profile' = profile
         /\ ~RowLocked(req[c].user)
         /\ req[c].at = "tx"
  BY NoRequestType DEF SelectForUpdate, End, TypeInv, TypeOK, Request

(* What was read under the row lock stays so while it is held. *)
LEMMA LockedRow ==
  ASSUME TypeInv, AccountInv, [Next]_vars,
         NEW c \in Clients, req[c].at = "write", req'[c] = req[c]
  PROVE  LET u == req[c].user
         IN  /\ profile'[u].expires = profile[u].expires
             /\ profile'[u].status = profile[u].status
  <1> DEFINE u == req[c].user
  <1>0. u \in Users /\ profile[u] \in Profile /\ Exists(u) /\ RowLocked(u)
    BY DEF TypeInv, TypeOK, Request, AccountInv, RequestInv, OnAccount, RowLocked
  <1>1. CASE Addressed(u)
    BY <1>0, <1>1 DEF Addressed, Profile
  <1>2. ASSUME NEW d \in Clients, Operated(u, d) PROVE FALSE
    <2>1. req[d].at = "write" /\ req[d].user = u /\ req'[d].at # "write"
      BY <1>0, <1>2 DEF Operated, Recorded, Stated
    <2> QED
      BY <2>1 DEF AccountInv, LockInv
  <1> QED
    BY <1>0, <1>1, <1>2, RowSteps DEF RowStep, Untouched, Enters, Directly

LEMMA RequestNext ==
  ASSUME TypeInv, AccountInv, [Next]_vars
  PROVE  RequestInv'
  <1> DEFINE Q(c) ==
        /\ req'[c].now <= clock'
        /\ req'[c].at \in OnAccount => profile'[req'[c].user].status # "absent"
        /\ req'[c].at = "write" =>
             /\ req'[c].previous = profile'[req'[c].user].expires
             /\ req'[c].op = "activate" => profile'[req'[c].user].status = "pending"
  <1> SUFFICES ASSUME NEW c \in Clients PROVE Q(c)
    BY DEF RequestInv, Exists
  <1>0. /\ req[c] \in Request /\ req[c].user \in Users
        /\ req[c].now \in Nat /\ req[c].now <= clock
        /\ req[c].at \in OnAccount => Exists(req[c].user)
    BY DEF TypeInv, TypeOK, Request, AccountInv, RequestInv, Times
  <1>1. CASE req'[c] = req[c]
    <2>1. req'[c].now <= clock'
      BY <1>0, <1>1, ClockSteps
    <2>2. req[c].at \in OnAccount => profile'[req[c].user].status # "absent"
      BY <1>0, ExistsKept
    <2>3. req[c].at = "write" =>
             /\ req[c].previous = profile'[req[c].user].expires
             /\ req[c].op = "activate" => profile'[req[c].user].status = "pending"
      BY <1>1, LockedRow DEF AccountInv, RequestInv
    <2> QED
      BY <1>1, <2>1, <2>2, <2>3
  <1>2. CASE SelectForUpdate(c) /\ req'[c].at = "write"
    <2>1. Exists(req[c].user)
      BY <1>0, <1>2, SelectFacts DEF OnAccount
    <2> QED
      BY <1>0, <1>2, <2>1, SelectFacts, ClockSteps DEF Exists
  <1>3. CASE /\ req'[c].at # "write"
             /\ req'[c].now <= clock
             /\ req'[c].at \in OnAccount => profile'[req'[c].user].status # "absent"
    <2>1. req'[c].now \in Nat
      BY TypeNext DEF TypeInv, TypeOK, Request, Times
    <2> QED
      BY <1>3, <2>1, ClockSteps
  <1> QED
    BY <1>1, <1>2, <1>3, RequestSteps DEF AccountInv, RequestStep

LEMMA LockNext ==
  ASSUME TypeInv, AccountInv, [Next]_vars
  PROVE  LockInv'
  <1> SUFFICES ASSUME NEW c \in Clients, NEW d \in Clients,
                      req'[c].at = "write", req'[d].at = "write",
                      req'[c].user = req'[d].user, c # d
               PROVE  FALSE
    BY DEF LockInv
  <1>1. ASSUME NEW x \in Clients, NEW y \in Clients, x # y, SelectForUpdate(x),
               req'[x].at = "write", req'[y].at = "write", req'[x].user = req'[y].user
        PROVE  FALSE
    <2>1. req'[y] = req[y]
      BY <1>1, OtherRequests DEF Mutation
    <2>2. ~RowLocked(req[x].user) /\ req'[x].user = req[x].user
      BY <1>1, SelectFacts
    <2> QED
      BY <1>1, <2>1, <2>2 DEF RowLocked
  <1>2. /\ req'[c] = req[c] \/ SelectForUpdate(c)
        /\ req'[d] = req[d] \/ SelectForUpdate(d)
    BY RequestSteps DEF AccountInv, RequestStep
  <1>3. ~SelectForUpdate(c) /\ ~SelectForUpdate(d)
    BY <1>1
  <1> QED
    BY <1>2, <1>3 DEF AccountInv, LockInv

LEMMA AccountNext == TypeInv /\ AccountInv /\ [Next]_vars => AccountInv'
  BY RowNext, RequestNext, LockNext DEF AccountInv

LEMMA AccountAlways == Spec => [](TypeInv /\ AccountInv)
  BY TypeInit, TypeNext, AccountInit, AccountNext, PTL DEF Spec
-----------------------------------------------------------------------------
(* Access and return *)

LEMMA RowFields ==
  ASSUME TypeInv, NEW u \in Users
  PROVE  /\ profile[u] \in Profile
         /\ profile[u].expires \in Nat /\ profile[u].activated \in Nat
         /\ clock \in Nat \ {0} /\ AdjustDays \in Nat \ {0}
  BY AccountsAssumption DEF TypeInv, TypeOK, Profile, Times

(* The rules of the API and of SQL and the days that are shown decide      *)
(* alike: the check constraints leave them no room to differ.              *)
THEOREM AccessRulesAgreeAlways == Spec => []AccessRulesAgree
  <1>1. ASSUME TypeInv, RowInv, NEW u \in Users
        PROVE  /\ ApiAllows(u) <=> SqlAllows(u)
               /\ Found(u) =>
                    (SqlAllows(u) <=> profile[u].status = "active" /\ RemainingDays(u) > 0)
    <2>1. profile[u].status = "active" => profile[u].expires # NoTime
      BY <1>1 DEF RowInv, RowChecks
    <2>2. profile[u].expires > clock <=> ~(profile[u].expires <= clock)
      BY <1>1, RowFields
    <2>3. RemainingDays(u) > 0 <=> profile[u].expires > clock
      BY <1>1, RowFields DEF RemainingDays
    <2> QED
      BY <2>1, <2>2, <2>3 DEF ApiAllows, SqlAllows
  <1>2. TypeInv /\ AccountInv => AccessRulesAgree
    BY <1>1 DEF AccountInv, AccessRulesAgree
  <1> QED
    BY <1>2, AccountAlways, PTL

(* Whatever was done to an account that was active once, a restore and a   *)
(* grant bring it back.                                                    *)
THEOREM ActivatedCanReturnAlways == Spec => []ActivatedCanReturn
  <1>1. ASSUME TypeInv, RowInv, NEW u \in Users,
               Found(u), profile[u].activated # NoTime,
               Edited(u) => profile[u].activated <= clock
        PROVE  LET restored == Restored(profile[u], clock)
                   granted == Granted(restored, clock)
               IN  /\ RowChecks(restored)
                   /\ \/ restored.status = "active" /\ restored.expires > clock
                      \/ /\ RowChecks(granted)
                         /\ granted.status = "active" /\ granted.expires > clock
    <2> DEFINE p == profile[u]
               restored == Restored(p, clock)
               granted == Granted(restored, clock)
    <2>0. /\ p \in Profile /\ p.expires \in Nat /\ p.activated \in Nat /\ clock \in Nat
          /\ clock # 0 /\ AdjustDays \in Nat /\ AdjustDays # 0
          /\ RowChecks(p) /\ p.activated <= clock
      BY <1>1, RowFields DEF RowInv
    <2>1. /\ restored.deleted = FALSE
          /\ restored.expires = p.expires /\ restored.activated = p.activated
          /\ restored.status = IF p.expires > clock THEN "active" ELSE "expired"
      BY <1>1, <2>0 DEF Restored, Profile
    <2>2. RowChecks(restored)
      BY <1>1, <2>0, <2>1 DEF RowChecks, NoTime
    <2>3. restored \in Profile
      BY <2>0 DEF Restored, Profile, Status
    <2> HIDE DEF restored, p
    <2>4. CASE p.expires > clock
      BY <2>1, <2>2, <2>4 DEF p, restored
    <2>5. CASE ~(p.expires > clock)
      <3>1. Later(clock, Coalesce(p.expires, clock)) = clock
        BY <2>0, <2>5 DEF Later, Coalesce
      <3>2. /\ granted.status = "active" /\ granted.deleted = FALSE
            /\ granted.activated = p.activated
            /\ granted.expires = clock + AdjustDays
        BY <2>1, <2>3, <2>5, <3>1 DEF Granted, Profile
      <3>3. clock + AdjustDays > clock /\ clock + AdjustDays > p.activated
        BY <2>0
      <3>4. clock + AdjustDays # 0 /\ p.activated # 0
        BY <1>1, <2>0 DEF p, NoTime
      <3>5. RowChecks(granted)
        BY <3>2, <3>3, <3>4 DEF RowChecks, NoTime
      <3> QED
        BY <2>2, <3>2, <3>3, <3>5 DEF p, restored
    <2> QED
      BY <2>4, <2>5
  <1>2. TypeInv /\ AccountInv => ActivatedCanReturn
    BY <1>1 DEF AccountInv, ActivatedCanReturn
  <1> QED
    BY <1>2, AccountAlways, PTL

(* Only a restore under way when an account is deleted, or an audited      *)
(* direct update, brings it back: an                                       *)
(* activation holds the row of a pending account, and all others leave the *)
(* mark of the deletion or are refused.                                    *)
THEOREM DeletedStaysAlways == Spec => DeletedStays
  <1>1. ASSUME TypeInv, AccountInv, [Next]_vars,
               NEW u \in Users, profile[u].deleted, ~profile'[u].deleted
        PROVE  Restoring(u) \/ Audited(u)
    <2>0. profile[u] \in Profile /\ profile[u].status = "deleted"
      BY <1>1 DEF TypeInv, TypeOK, AccountInv, RowInv, RowChecks
    <2>1. Directly(u) \/ \E c \in Clients : Operated(u, c)
      BY <1>1, <2>0, RowSteps DEF RowStep, Untouched, Enters, Addressed, Exists, Profile
    <2>2. ASSUME NEW c \in Clients, Operated(u, c) PROVE Restoring(u)
      <3>1. req[c].op \in {"activate", "restore"}
        BY <1>1, <2>2, OperatedFacts
      <3>2. req[c].op # "activate"
        BY <2>0, <2>2, <1>1
        DEF Operated, Recorded, Stated, StatementOps, AccountInv, RequestInv
      <3>3. req[c].at = "tx" /\ req[c].user = u
        BY <2>2, <3>1, <3>2 DEF Operated, Recorded, Stated, LedgerOps
      <3> QED
        BY <3>1, <3>2, <3>3 DEF Restoring
    <2>3. CASE Directly(u)
      <3> DEFINE e == [by |-> "audit", previous |-> profile[u].expires,
                       new |-> profile'[u].expires]
      <3>1. e.by = "audit"
        OBVIOUS
      <3>2. ledger[u] \in Seq(Event)
        BY <1>1 DEF TypeInv, TypeOK
      <3> HIDE DEF e
      <3>3. ledger'[u] = Append(ledger[u], e)
        BY <2>3 DEF Directly, e
      <3> QED
        BY <3>1, <3>2, <3>3 DEF Audited
    <2> QED
      BY <2>1, <2>2, <2>3
  <1>2. TypeInv /\ AccountInv /\ [Next]_vars =>
          [\A u \in Users :
             profile[u].deleted /\ ~profile'[u].deleted =>
               Restoring(u) \/ Audited(u)]_vars
    BY <1>1
  <1> QED
    BY <1>2, AccountAlways, PTL DEF Spec, DeletedStays

-----------------------------------------------------------------------------
(* The ledger *)

Replays(u) ==
  LET n == Len(ledger[u])
  IN  /\ n = 0 => profile[u].expires = NoTime
      /\ n > 0 => /\ ledger[u][1].previous = NoTime
                  /\ ledger[u][n].new = profile[u].expires
      /\ \A i \in 1 .. n - 1 : ledger[u][i].new = ledger[u][i + 1].previous

(* Each entry starts where the one before it ended: the row is locked from *)
(* the read of the old expiry to the event, and a direct update is one     *)
(* statement whose trigger writes the audit row.                           *)
THEOREM LedgerReplaysAlways == Spec => []LedgerReplays
  <1>1. Init => LedgerReplays
    BY DEF Init, LedgerReplays, Absent
  <1>2. ASSUME TypeInv, AccountInv, LedgerReplays, [Next]_vars PROVE LedgerReplays'
    <2> SUFFICES ASSUME NEW u \in Users PROVE Replays(u)'
      BY DEF LedgerReplays, Replays
    <2>0. Replays(u) /\ ledger[u] \in Seq(Event) /\ profile[u] \in Profile
      BY <1>2 DEF LedgerReplays, Replays, TypeInv, TypeOK
    <2>1. ASSUME ledger'[u] = ledger[u], profile'[u].expires = profile[u].expires
          PROVE  Replays(u)'
      BY <2>0, <2>1 DEF Replays
    <2>6. ASSUME NEW event \in Event,
                 ledger'[u] = Append(ledger[u], event),
                 event.previous = profile[u].expires, event.new = profile'[u].expires
          PROVE  Replays(u)'
      <3> DEFINE n == Len(ledger[u])
      <3>1. /\ n \in Nat /\ Len(ledger'[u]) = n + 1
            /\ \A i \in 1 .. n : ledger'[u][i] = ledger[u][i]
            /\ ledger'[u][n + 1] = event
        BY <2>0, <2>6
      <3>2. ledger'[u][1].previous = NoTime
        <4>1. CASE n = 0
          BY <2>0, <2>6, <3>1, <4>1 DEF Replays
        <4>2. CASE n > 0
          BY <2>0, <3>1, <4>2 DEF Replays
        <4> QED
          BY <3>1, <4>1, <4>2
      <3>3. ASSUME NEW i \in 1 .. n
            PROVE  ledger'[u][i].new = ledger'[u][i + 1].previous
        <4>1. CASE i = n
          BY <2>0, <2>6, <3>1, <4>1 DEF Replays
        <4>2. CASE i # n
          <5>1. i \in 1 .. n - 1 /\ i + 1 \in 1 .. n
            BY <3>1, <4>2
          <5> QED
            BY <2>0, <3>1, <5>1 DEF Replays
        <4> QED
          BY <4>1, <4>2
      <3>4. Len(ledger'[u]) - 1 = n /\ Len(ledger'[u]) > 0
        BY <3>1
      <3> QED
        BY <2>6, <3>1, <3>2, <3>3, <3>4 DEF Replays
    <2>2. CASE Untouched(u)
      BY <2>1, <2>2 DEF Untouched
    <2>3. CASE Enters(u)
      BY <2>0, <2>1, <2>3 DEF Enters, Profile
    <2>4. CASE Addressed(u)
      BY <2>0, <2>1, <2>4 DEF Addressed, Profile
    <2>5. ASSUME NEW c \in Clients, Operated(u, c) PROVE Replays(u)'
      <3>1. CASE Stated(u, c)
        BY <1>2, <2>1, <2>5, <3>1, OperatedFacts DEF Stated
      <3>2. CASE Recorded(u, c)
        <4> DEFINE event == [by |-> "event", previous |-> req[c].previous,
                             new |-> profile'[u].expires]
        <4>1. ledger'[u] = Append(ledger[u], event)
          BY <2>5, <3>2 DEF Operated, Recorded
        <4>2. req[c].previous = profile[u].expires /\ req[c].previous \in Times
          BY <1>2, <2>5, <3>2
          DEF Operated, Recorded, AccountInv, RequestInv, TypeInv, TypeOK, Request
        <4>3. event \in Event
          BY <1>2, <2>5, <4>2, OperatedFacts DEF Event, Profile
        <4>4. event.previous = profile[u].expires /\ event.new = profile'[u].expires
          BY <4>2
        <4> HIDE DEF event
        <4> QED
          BY <2>6, <4>1, <4>3, <4>4
      <3> QED
        BY <2>5, <3>1, <3>2 DEF Operated
    <2>7. CASE Directly(u)
      <3> DEFINE audit == [by |-> "audit", previous |-> profile[u].expires,
                           new |-> profile'[u].expires]
      <3>1. audit \in Event
        BY <2>0, <2>7 DEF Directly, Event, Profile
      <3>2. audit.previous = profile[u].expires /\ audit.new = profile'[u].expires
        OBVIOUS
      <3> HIDE DEF audit
      <3>3. ledger'[u] = Append(ledger[u], audit)
        BY <2>7 DEF Directly, audit
      <3> QED
        BY <2>6, <3>1, <3>2, <3>3
    <2> QED
      BY <1>2, <2>2, <2>3, <2>4, <2>5, <2>7, RowSteps DEF RowStep
  <1> QED
    BY <1>1, <1>2, AccountAlways, PTL DEF Spec
-----------------------------------------------------------------------------
(* Addresses *)

Setter(c, u) == SetsEmail(c) /\ req[c].user = u

(* What holds of an account nothing went wrong with. *)
Agreed(u) ==
  /\ ~Exists(u) => profile[u].email = FirstEmail /\ authEmail[u] = FirstEmail
  /\ \A c, d \in Clients : Setter(c, u) /\ Setter(d, u) => c = d
  /\ (\A c \in Clients : ~Setter(c, u)) /\ u \notin astray =>
       profile[u].email = authEmail[u]
  /\ \A c \in Clients :
       req[c].user = u =>
         /\ req[c].at = "profile_email" => req[c].email = authEmail[u]
         /\ req[c].at = "upsert" => authEmail[u] = FirstEmail

EmailInv ==
  \A u \in Users : faults = 0 /\ u \notin entangled => Agreed(u)

(* A step is calm for u if it leaves u's address alone.                    *)
Calm(u) ==
  /\ profile'[u].email = profile[u].email /\ authEmail'[u] = authEmail[u]
  /\ u \in astray => u \in astray'
  /\ \A c \in Clients :
       \/ req'[c] = req[c]
       \/ ~Setter(c, u) /\ ~Setter(c, u)'

(* An administrator sets it directly. *)
Strays(u) ==
  /\ Exists(u) /\ u \in astray'
  /\ authEmail'[u] = authEmail[u] /\ req' = req

(* Otherwise a request begins, goes on or ends. *)
Asks(u, c) ==
  /\ Exists(u)
  /\ req'[c].at = "auth_email" /\ req'[c].user = u
  /\ profile'[u].email = profile[u].email /\ authEmail'[u] = authEmail[u]
  /\ (\E d \in Clients : Setter(d, u)) => u \in entangled'

TellsAuth(u, c) ==
  /\ req[c].at = "auth_email" /\ req[c].user = u /\ Exists(u)
  /\ req'[c].at = "profile_email" /\ req'[c].user = u /\ req'[c].email = req[c].email
  /\ authEmail'[u] = req[c].email

TellsProfile(u, c) ==
  /\ req[c].at = "profile_email" /\ req[c].user = u /\ Exists(u)
  /\ ~SetsEmail(c)'
  /\ profile'[u].email = req[c].email /\ authEmail'[u] = authEmail[u]

Signs(u, c) ==
  /\ ~Exists(u)
  /\ req'[c].at = "upsert" /\ req'[c].user = u
  /\ profile'[u].email = profile[u].email /\ authEmail'[u] = authEmail[u]

Upserts(u, c) ==
  /\ req[c].at = "upsert" /\ req[c].user = u /\ Exists(u)
  /\ ~SetsEmail(c)'
  /\ profile'[u].email = FirstEmail /\ authEmail'[u] = authEmail[u]

Acts(u, c) ==
  /\ Asks(u, c) \/ TellsAuth(u, c) \/ TellsProfile(u, c) \/ Signs(u, c) \/ Upserts(u, c)
  /\ \A d \in Clients : d # c => req'[d] = req[d]

EmailStep(u) == Calm(u) \/ Strays(u) \/ \E c \in Clients : Acts(u, c)

(* A step of a request that sets no address of u, before or after. *)
LEMMA CalmRequest ==
  ASSUME NEW u \in Users, NEW c \in Clients,
         \A d \in Clients : d # c => req'[d] = req[d],
         ~Setter(c, u), ~Setter(c, u)', u \in astray => u \in astray',
         profile'[u].email = profile[u].email, authEmail'[u] = authEmail[u]
  PROVE  EmailStep(u)
  BY DEF EmailStep, Calm

LEMMA EmailMutation ==
  ASSUME TypeInv, NEW c \in Clients, Mutation(c), NEW u \in Users
  PROVE  EmailStep(u)
  <1> USE DEF TypeInv, TypeOK
  <1>0. /\ req[c] \in Request /\ req[c].op \in Ops /\ req[c].user \in Users
        /\ req[c].now \in Nat /\ NoRequest.at = "idle"
        /\ profile[req[c].user] \in Profile
    BY NoRequestType DEF Request, Times
  <1>1. ASSUME NEW op \in Ops, NEW v \in Users, NEW at \in {"start", "reread", "revoke"}
        PROVE  NewRequest(op, at, v).at = at
    BY NewRequestType DEF Labels
  <1>2. AdminOps \subseteq Ops
    BY DEF Ops
  <1>3. authEmail' = authEmail /\ astray' = astray /\ ~SetsEmail(c)
    BY DEF Mutation, BeginMutation, StartTransaction, SelectForUpdate, UpdateAndRecord,
           UpdateStatus, RevokeSessions, ReadAfter, Audit, SetsEmail
  <1>4. req'[c].at \notin {"auth_email", "profile_email", "upsert"}
    BY <1>0, <1>1, <1>2
    DEF Mutation, BeginMutation, StartTransaction, SelectForUpdate, UpdateAndRecord,
        UpdateStatus, RevokeSessions, ReadAfter, Audit, Goto, Proceed, End, Request
  <1>5. profile'[u].email = profile[u].email
    <2> DEFINE row == Result(req[c].op, profile[req[c].user], req[c].now)
    <2>1. CASE UpdateAndRecord(c) \/ UpdateStatus(c)
      <3>1. req[c].op \in AdminOps
        BY <2>1 DEF UpdateAndRecord, UpdateStatus, AdminOps
      <3>2. row.email = profile[req[c].user].email
        <4> DEFINE p == profile[req[c].user]
        <4>1. p \in Profile /\ req[c].now \in Nat
          BY <1>0
        <4> HIDE DEF p
        <4>2. Result(req[c].op, p, req[c].now).email = p.email
          BY <3>1, <4>1, ResultFacts
        <4> QED
          BY <4>2 DEF p
      <3> HIDE DEF row
      <3>3. profile' = profile \/ profile' = [profile EXCEPT ![req[c].user] = row]
        BY <2>1 DEF UpdateAndRecord, UpdateStatus, row
      <3> QED
        BY <1>0, <3>2, <3>3
    <2>2. CASE ~(UpdateAndRecord(c) \/ UpdateStatus(c))
      BY <2>2
      DEF Mutation, BeginMutation, StartTransaction, SelectForUpdate, RevokeSessions,
          ReadAfter, Audit
    <2> QED
      BY <2>1, <2>2
  <1>6. \A d \in Clients : d # c => req'[d] = req[d]
    BY OtherRequests
  <1> QED
    BY <1>3, <1>4, <1>5, <1>6, CalmRequest DEF Setter, SetsEmail

LEMMA EmailEmailUpdate ==
  ASSUME TypeInv, RequestInv, NEW c \in Clients, EmailUpdate(c), NEW u \in Users
  PROVE  EmailStep(u)
  <1> USE DEF TypeInv, TypeOK
  <1>0. /\ req[c] \in Request /\ req[c].op \in Ops /\ req[c].user \in Users
        /\ req[c].at \in OnAccount => Exists(req[c].user)
    BY DEF Request, RequestInv
  <1>9. \A d \in Clients : d # c => req'[d] = req[d]
    BY OtherRequests
  <1>1. ASSUME NEW v \in Users, NEW e \in Emails, BeginUpdate(c, v, e)
        PROVE  EmailStep(u)
    <2> DEFINE r == NewRequest("update", "auth_email", v)
    <2>0. "update" \in Ops /\ "auth_email" \in Labels
      BY DEF Ops, Labels
    <2>1. r \in Request /\ r.at = "auth_email" /\ r.user = v
      BY <2>0, NewRequestType
    <2> HIDE DEF r
    <2>2. req'[c] = [r EXCEPT !.email = e]
      BY <1>1 DEF BeginUpdate, r
    <2>3. req'[c].at = "auth_email" /\ req'[c].user = v
      BY <2>1, <2>2 DEF Request
    <2>4. /\ profile' = profile /\ authEmail' = authEmail /\ astray' = astray
          /\ req[c].at = "idle" /\ Exists(v)
          /\ (\E d \in Clients : Setter(d, v)) => v \in entangled'
      BY <1>1 DEF BeginUpdate, Found, Entangle, Setter
    <2>5. CASE u = v
      BY <1>9, <2>3, <2>4, <2>5 DEF EmailStep, Acts, Asks
    <2>6. CASE u # v
      BY <1>9, <2>3, <2>4, <2>6, CalmRequest DEF Setter, SetsEmail
    <2> QED
      BY <2>5, <2>6
  <1>2. CASE SetAuthEmail(c)
    <2> DEFINE v == req[c].user
    <2>1. /\ req[c].at = "auth_email"
          /\ req'[c].at = "profile_email" /\ req'[c].user = v
          /\ req'[c].email = req[c].email
          /\ profile' = profile /\ authEmail' = [authEmail EXCEPT ![v] = req[c].email]
          /\ astray' = astray
      BY <1>0, <1>2 DEF SetAuthEmail, Goto, Request
    <2>2. CASE u = v
      BY <1>0, <1>9, <2>1, <2>2 DEF EmailStep, Acts, TellsAuth, OnAccount
    <2>3. CASE u # v
      BY <1>9, <2>1, <2>3, CalmRequest DEF Setter, SetsEmail
    <2> QED
      BY <2>2, <2>3
  <1>3. CASE SetProfileEmail(c)
    <2> DEFINE v == req[c].user
    <2>0. "reread" \in Labels
      BY DEF Labels
    <2>1. /\ req[c].at = "profile_email"
          /\ req'[c].at = "reread"
          /\ profile' = [profile EXCEPT ![v].email = req[c].email]
          /\ authEmail' = authEmail /\ astray' = astray \ {v}
      BY <1>0, <1>3, <2>0, NewRequestType DEF SetProfileEmail, Proceed
    <2>2. ~SetsEmail(c)'
      BY <2>1 DEF SetsEmail
    <2>3. profile[v] \in Profile
      BY <1>0
    <2>4. CASE u = v
      <3>1. profile'[u].email = req[c].email
        BY <1>0, <2>1, <2>3, <2>4 DEF Profile
      <3> QED
        BY <1>0, <1>9, <2>1, <2>2, <2>4, <3>1 DEF EmailStep, Acts, TellsProfile, OnAccount
    <2>5. CASE u # v
      BY <1>9, <2>1, <2>2, <2>5, CalmRequest DEF Setter
    <2> QED
      BY <2>4, <2>5
  <1> QED
    BY <1>1, <1>2, <1>3 DEF EmailUpdate

LEMMA EmailRegistration ==
  ASSUME TypeInv, RequestInv, NEW c \in Clients, Registration(c), NEW u \in Users,
         faults' = 0
  PROVE  EmailStep(u)
  <1> USE DEF TypeInv, TypeOK
  <1>0. /\ req[c] \in Request /\ req[c].op \in Ops /\ req[c].user \in Users
        /\ req[c].at \in OnAccount => Exists(req[c].user)
        /\ NoRequest.at = "idle"
    BY NoRequestType DEF Request, RequestInv
  <1>9. \A d \in Clients : d # c => req'[d] = req[d]
    BY OtherRequests
  <1>1. ASSUME NEW op \in {"register", "create"}, NEW v \in Users,
               BeginRegistration(c, op, v)
        PROVE  EmailStep(u)
    <2>0. op \in Ops /\ "create" \in Labels
      BY DEF Ops, Labels
    <2>1. /\ req[c].at = "idle" /\ req'[c].at = "create"
          /\ profile' = profile /\ authEmail' = authEmail /\ astray' = astray
      BY <1>1, <2>0, NewRequestType DEF BeginRegistration
    <2> QED
      BY <1>9, <2>1, CalmRequest DEF Setter, SetsEmail
  <1>2. CASE CreateAuthUser(c)
    <2> DEFINE v == req[c].user
    <2>1. CASE Exists(v)
      BY <1>0, <1>2, <1>9, <2>1, CalmRequest DEF CreateAuthUser, End, Setter, SetsEmail
    <2>2. CASE ~Exists(v)
      <3>1. /\ req[c].at = "create" /\ req'[c].at = "upsert" /\ req'[c].user = v
            /\ profile' = [profile EXCEPT ![v].status = "pending"]
            /\ authEmail' = authEmail /\ astray' = astray
        BY <1>0, <1>2, <2>2 DEF CreateAuthUser, Goto, Request
      <3>2. profile[v] \in Profile
        BY <1>0
      <3>3. CASE u = v
        <4>1. profile'[u].email = profile[u].email
          BY <3>1, <3>2, <3>3 DEF Profile
        <4> QED
          BY <1>9, <2>2, <3>1, <3>3, <4>1 DEF EmailStep, Acts, Signs
      <3>4. CASE u # v
        BY <1>9, <3>1, <3>4, CalmRequest DEF Setter, SetsEmail
      <3> QED
        BY <3>3, <3>4
    <2> QED
      BY <2>1, <2>2
  <1>3. CASE CreatePendingProfile(c)
    <2> DEFINE v == req[c].user
    <2>1. /\ req[c].at = "upsert"
          /\ req'[c].at \in {"rollback", "audit", "idle"}
          /\ profile' = [profile EXCEPT ![v].email = FirstEmail]
          /\ authEmail' = authEmail /\ astray' = astray \ {v}
      BY <1>0, <1>3 DEF CreatePendingProfile, Goto, End, Request
    <2>2. ~SetsEmail(c)'
      BY <2>1 DEF SetsEmail
    <2>3. profile[v] \in Profile
      BY <1>0
    <2>4. CASE u = v
      <3>1. profile'[u].email = FirstEmail
        BY <1>0, <2>1, <2>3, <2>4 DEF Profile
      <3> QED
        BY <1>0, <1>9, <2>1, <2>2, <2>4, <3>1 DEF EmailStep, Acts, Upserts, OnAccount
    <2>5. CASE u # v
      BY <1>9, <2>1, <2>2, <2>5, CalmRequest DEF Setter
    <2> QED
      BY <2>4, <2>5
  <1>4. CASE CreatePendingProfileFails(c)
    BY <1>4, AccountsAssumption DEF CreatePendingProfileFails
  <1>5. CASE DeleteAuthUser(c)
    BY <1>0, <1>5, <1>9, CalmRequest DEF DeleteAuthUser, End, Setter, SetsEmail
  <1> QED
    BY <1>1, <1>2, <1>3, <1>4, <1>5 DEF Registration

LEMMA EmailSteps ==
  ASSUME TypeInv, RequestInv, [Next]_vars, NEW u \in Users, faults' = 0
  PROVE  EmailStep(u)
  <1>1. CASE Tick \/ UNCHANGED vars
    BY <1>1 DEF Tick, vars, EmailStep, Calm
  <1>2. ASSUME NEW c \in Clients PROVE ~RequestFails(c)
    BY AccountsAssumption DEF RequestFails, TypeInv, TypeOK
  <1>3. ASSUME NEW v \in Users, DirectUpdate(v) PROVE EmailStep(u)
    <2>1. PICK status \in Status \ {"absent"},
               activated \in DirectDates \union {profile[v].activated},
               expires \in DirectDates \union {profile[v].expires},
               deleted \in BOOLEAN, email \in Emails :
            /\ profile' = [profile EXCEPT ![v] =
                 [status |-> status, activated |-> activated, expires |-> expires,
                  deleted |-> deleted, email |-> email]]
            /\ astray' = IF email = profile[v].email THEN astray ELSE astray \union {v}
      BY <1>3 DEF DirectUpdate
    <2>2. /\ authEmail' = authEmail /\ req' = req /\ Exists(v)
          /\ astray \subseteq astray'
      BY <1>3, <2>1 DEF DirectUpdate
    <2>3. CASE u # v
      BY <2>1, <2>2, <2>3 DEF EmailStep, Calm
    <2>4. CASE u = v /\ email = profile[v].email
      BY <2>1, <2>2, <2>4 DEF EmailStep, Calm, TypeInv, TypeOK
    <2>5. CASE u = v /\ email # profile[v].email
      BY <2>1, <2>2, <2>5 DEF EmailStep, Strays
    <2> QED
      BY <2>3, <2>4, <2>5
  <1> QED
    BY <1>1, <1>2, <1>3, EmailMutation, EmailEmailUpdate, EmailRegistration DEF Next

(* Failures and entangled accounts are never forgotten. *)
LEMMA FaultSteps ==
  ASSUME TypeInv, [Next]_vars
  PROVE  (faults' = 0 => faults = 0) /\ entangled \subseteq entangled'
  <1> USE AccountsAssumption DEF TypeInv, TypeOK
  <1>1. ASSUME NEW c \in Clients, Mutation(c)
        PROVE  faults' = faults /\ entangled' = entangled
    BY <1>1
    DEF Mutation, BeginMutation, StartTransaction, SelectForUpdate, UpdateAndRecord,
        UpdateStatus, RevokeSessions, ReadAfter, Audit
  <1>2. ASSUME NEW c \in Clients, EmailUpdate(c)
        PROVE  faults' = faults /\ entangled \subseteq entangled'
    BY <1>2 DEF EmailUpdate, BeginUpdate, SetAuthEmail, SetProfileEmail, Entangle
  <1>3. ASSUME NEW c \in Clients, Registration(c)
        PROVE  (faults' = 0 => faults = 0) /\ entangled' = entangled
    BY <1>3
    DEF Registration, BeginRegistration, CreateAuthUser, CreatePendingProfile,
        CreatePendingProfileFails, DeleteAuthUser
  <1>4. ASSUME NEW u \in Users, DirectUpdate(u)
        PROVE  faults' = faults /\ entangled' = entangled
    BY <1>4 DEF DirectUpdate
  <1> QED
    BY <1>1, <1>2, <1>3, <1>4 DEF Next, vars, Tick, RequestFails

LEMMA EmailInit == Init => EmailInv
  BY NoRequestType DEF Init, EmailInv, Agreed, Setter, SetsEmail, Absent

LEMMA EmailNext ==
  ASSUME TypeInv, AccountInv, EmailInv, [Next]_vars
  PROVE  EmailInv'
  <1> SUFFICES ASSUME NEW u \in Users, faults' = 0, u \notin entangled'
               PROVE  Agreed(u)'
    BY DEF EmailInv
  <1>0. faults = 0 /\ u \notin entangled /\ Agreed(u)
    BY FaultSteps DEF EmailInv
  <1>1. Exists(u) => Exists(u)'
    BY ExistsKept DEF Exists
  <1>2. ~Exists(u) => \A c \in Clients : ~Setter(c, u)
    BY DEF AccountInv, RequestInv, OnAccount, Setter, SetsEmail
  <1>3. CASE Calm(u)
    <2>1. \A c \in Clients : Setter(c, u)' => Setter(c, u) /\ req'[c] = req[c]
      BY <1>3 DEF Calm, Setter, SetsEmail
    <2>2. \A c \in Clients : Setter(c, u) => Setter(c, u)' /\ req'[c] = req[c]
      BY <1>3 DEF Calm, Setter, SetsEmail
    <2>3. \A c \in Clients :
            req'[c].user = u /\ req'[c].at \in {"profile_email", "upsert"} =>
              req'[c] = req[c]
      BY <2>1 DEF Setter, SetsEmail
    <2> QED
      BY <1>0, <1>1, <1>3, <2>1, <2>2, <2>3 DEF Calm, Agreed
  <1>4. ASSUME NEW c \in Clients, Acts(u, c) PROVE Agreed(u)'
    <2>0. \A d \in Clients : d # c => (Setter(d, u)' <=> Setter(d, u))
      BY <1>4 DEF Acts, Setter, SetsEmail
    <2>1. CASE Asks(u, c)
      <3>1. \A d \in Clients : ~Setter(d, u)
        BY <2>1 DEF Asks
      <3>2. \A d \in Clients : d # c => ~Setter(d, u)'
        BY <2>0, <3>1
      <3>3. Setter(c, u)' /\ req'[c].at = "auth_email"
        BY <2>1 DEF Asks, Setter, SetsEmail
      <3> QED
        BY <1>1, <2>1, <3>2, <3>3 DEF Agreed, Asks, Setter, SetsEmail
    <2>2. CASE TellsAuth(u, c)
      <3>1. Setter(c, u) /\ Setter(c, u)'
        BY <2>2 DEF TellsAuth, Setter, SetsEmail
      <3>2. \A d \in Clients : d # c => ~Setter(d, u)'
        BY <1>0, <2>0, <3>1 DEF Agreed
      <3> QED
        BY <1>1, <2>2, <3>1, <3>2 DEF Agreed, TellsAuth, Setter, SetsEmail
    <2>3. CASE TellsProfile(u, c) \/ Upserts(u, c)
      <3>1. Setter(c, u) /\ ~Setter(c, u)'
        BY <2>3 DEF TellsProfile, Upserts, Setter, SetsEmail
      <3>2. \A d \in Clients : ~Setter(d, u)'
        BY <1>0, <2>0, <3>1 DEF Agreed
      <3>3. profile'[u].email = authEmail'[u]
        BY <1>0, <2>3 DEF Agreed, TellsProfile, Upserts
      <3> QED
        BY <1>1, <2>3, <3>2, <3>3 DEF Agreed, TellsProfile, Upserts, Setter, SetsEmail
    <2>4. CASE Signs(u, c)
      <3>1. \A d \in Clients : d # c => ~Setter(d, u)'
        BY <1>2, <2>0, <2>4 DEF Signs
      <3>2. /\ Setter(c, u)' /\ req'[c].at = "upsert"
            /\ profile'[u].email = FirstEmail /\ authEmail'[u] = FirstEmail
        BY <1>0, <2>4 DEF Agreed, Signs, Setter, SetsEmail
      <3> QED
        BY <3>1, <3>2 DEF Agreed, Setter, SetsEmail
    <2> QED
      BY <1>4, <2>1, <2>2, <2>3, <2>4 DEF Acts
  <1>5. CASE Strays(u)
    <2>1. \A c \in Clients : Setter(c, u)' <=> Setter(c, u)
      BY <1>5 DEF Strays, Setter, SetsEmail
    <2> QED
      BY <1>0, <1>1, <1>5, <2>1 DEF Strays, Agreed
  <1> QED
    BY <1>3, <1>4, <1>5, EmailSteps DEF EmailStep, AccountInv

(* Unless requests fail or two overlap, an address a request sets is the   *)
(* same in both places afterwards, whatever was written directly before.   *)
THEOREM EmailsAgreeAlways == Spec => []EmailsAgree
  <1>1. TypeInv /\ EmailInv => EmailsAgree
    BY AccountsAssumption DEF TypeInv, TypeOK, EmailInv, Agreed, EmailsAgree, Setter
  <1> QED
    BY <1>1, AccountAlways, EmailInit, EmailNext, PTL DEF Spec
=============================================================================
