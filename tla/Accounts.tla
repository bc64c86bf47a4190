------------------------------ MODULE Accounts ------------------------------
(***************************************************************************)
(* Accounts: registration (services/auth_service.py), the lifecycle an     *)
(* administrator drives (services/admin_service.py over                    *)
(* repositories/entitlements.py and repositories/users.py), the UPDATE of  *)
(* user_profiles the database grants administrators and audits, the ledger *)
(* entitlement_events and the two rules that decide who may use the        *)
(* product (dependencies/authorization.py and is_current_user_active).     *)
(*                                                                         *)
(* An account is a row of user_profiles and the Supabase user it belongs   *)
(* to; an element of Users is a username with the address it registers     *)
(* with.  Time counts days; a transaction sees now() of its start, however *)
(* long it waits for a row lock afterwards.  The accounts are those of     *)
(* role user.  Left out: the administrators', for which an operation is    *)
(* refused or leaves the account active without an expiry, the Demo        *)
(* profile, which a trigger keeps from every change, sessions, which live  *)
(* in Supabase and which login hands out whatever the status, and of the   *)
(* granted columns username, role and what last happened to the account.   *)
(***************************************************************************)
EXTENDS Naturals, Sequences, FiniteSets

CONSTANTS
  Users,           \* people: usernames
  Clients,         \* requests in flight at once
  Emails,          \* addresses
  ActivationDays,  \* days an activation is good for
  AdjustDays,      \* days granted or taken at once
  DirectDates,     \* bound: days, or null, an administrator writes directly
  MaxTime,         \* bound: days
  MaxEvents,       \* bound: entries of an account's ledger
  MaxFaults        \* bound: requests that fail half way

ASSUME AccountsAssumption ==
  /\ Users # {} /\ Emails # {}
  /\ ActivationDays \in Nat \ {0}
  /\ AdjustDays \in Nat \ {0}
  /\ DirectDates \subseteq Nat
  /\ MaxTime \in Nat /\ MaxEvents \in Nat /\ MaxFaults \in Nat

VARIABLES
  clock,      \* today
  profile,    \* table user_profiles
  authEmail,  \* the address Supabase knows the account by
  ledger,     \* of each account its rows of entitlement_events and of
              \* admin_audit_logs for direct updates, in the order of commits
  entangled,  \* history: accounts whose address two requests set at once
  astray,     \* history: accounts whose address was last set directly
  req,        \* the requests in flight
  faults      \* requests that failed so far

vars == <<clock, profile, authEmail, ledger, entangled, astray, req, faults>>

NoTime == 0  \* null
Times == Nat
Status == {"absent", "pending", "active", "expired", "suspended", "deleted"}

Profile == [status : Status, activated : Times, expires : Times,
            deleted : BOOLEAN, email : Emails]

LedgerOps == {"activate", "grant", "reduce", "expire"}
StatementOps == {"suspend", "restore", "delete"}
AdminOps == LedgerOps \union StatementOps
Ops == AdminOps \union {"none", "register", "create", "update"}
Labels == {"idle", "start", "tx", "write", "revoke", "reread", "audit",
           "auth_email", "profile_email", "create", "upsert", "rollback"}

Request == [op : Ops, at : Labels, user : Users, now : Times,
            previous : Times, email : Emails]

SomeUser == CHOOSE u \in Users : TRUE
FirstEmail == CHOOSE e \in Emails : TRUE
NoRequest == [op |-> "none", at |-> "idle", user |-> SomeUser, now |-> NoTime,
              previous |-> NoTime, email |-> FirstEmail]
NewRequest(op, at, u) == [NoRequest EXCEPT !.op = op, !.at = at, !.user = u]

Absent == [status |-> "absent", activated |-> NoTime, expires |-> NoTime,
           deleted |-> FALSE, email |-> FirstEmail]

Exists(u) == profile[u].status # "absent"
Found(u) == Exists(u) /\ ~profile[u].deleted  \* what require_user accepts

Init ==
  /\ clock = 1
  /\ profile = [u \in Users |-> Absent]
  /\ authEmail = [u \in Users |-> FirstEmail]
  /\ ledger = [u \in Users |-> <<>>]
  /\ entangled = {}
  /\ astray = {}
  /\ req = [c \in Clients |-> NoRequest]
  /\ faults = 0

-----------------------------------------------------------------------------
(* What the operations make of a row, p, at time t. *)

Later(a, b) == IF a > b THEN a ELSE b
Coalesce(a, b) == IF a = NoTime THEN b ELSE a

(* The check constraints of user_profiles; a statement that leaves a row   *)
(* outside them fails and its transaction is rolled back.                  *)
RowChecks(p) ==
  /\ p.deleted <=> p.status = "deleted"
  /\ p.status = "pending" => p.activated = NoTime /\ p.expires = NoTime
  /\ p.status = "active" => p.activated # NoTime /\ p.expires # NoTime
  /\ p.expires # NoTime /\ p.activated # NoTime => p.expires > p.activated

Activated(p, t) ==
  [p EXCEPT !.status = "active",
            !.activated = Coalesce(@, t),
            !.expires = t + ActivationDays,
            !.deleted = FALSE]

(* Mutant: a grant leaves the status alone. *)
GrantedNoStatus(p, t) ==
  [p EXCEPT !.expires = Later(t, Coalesce(@, t)) + AdjustDays]

Granted(p, t) ==
  [p EXCEPT !.expires = Later(t, Coalesce(@, t)) + AdjustDays,
            !.status = IF @ = "expired" THEN "active" ELSE @]

Reduced(p, t) ==
  LET from == Coalesce(p.expires, t)
  IN  IF from <= t + AdjustDays
        THEN [p EXCEPT !.expires = t, !.status = "expired"]
        ELSE [p EXCEPT !.expires = from - AdjustDays]

Expired(p, t) == [p EXCEPT !.expires = t, !.status = "expired"]

Suspended(p) == [p EXCEPT !.status = "suspended"]

Restored(p, t) ==
  [p EXCEPT !.deleted = FALSE,
            !.status = IF p.expires > t THEN "active"
                       ELSE IF p.activated = NoTime THEN "pending"
                       ELSE "expired"]

SoftDeleted(p) == [p EXCEPT !.status = "deleted", !.deleted = TRUE]

Result(op, p, t) ==
  CASE op = "activate" -> Activated(p, t)
    [] op = "grant"    -> Granted(p, t)
    [] op = "reduce"   -> Reduced(p, t)
    [] op = "expire"   -> Expired(p, t)
    [] op = "suspend"  -> Suspended(p)
    [] op = "restore"  -> Restored(p, t)
    [] op = "delete"   -> SoftDeleted(p)

-----------------------------------------------------------------------------
(* An administrator changes an account.                                    *)

Goto(c, label) == req' = [req EXCEPT ![c].at = label]
Proceed(c, label) ==  \* what the request read so far is not used again
  req' = [req EXCEPT ![c] = NewRequest(@.op, label, @.user)]
End(c) == req' = [req EXCEPT ![c] = NoRequest]

(* The row is locked from `select ... for update' to the commit. *)
RowLocked(u) == \E c \in Clients : req[c].user = u /\ req[c].at = "write"

(* For the bound on the ledger. *)
EventsUnderWay(u) ==
  Cardinality({c \in Clients : req[c].user = u /\ req[c].at \in {"start", "tx", "write"}})

(* The request begins by reading the account. *)
BeginMutation(c, op, u) ==
  /\ req[c].at = "idle"
  /\ IF op = "activate" THEN Exists(u) ELSE Found(u)
  /\ op \in LedgerOps => Len(ledger[u]) + EventsUnderWay(u) < MaxEvents
  /\ req' = [req EXCEPT ![c] = NewRequest(op, "start", u)]
  /\ UNCHANGED <<clock, profile, authEmail, ledger, entangled, astray, faults>>

StartTransaction(c) ==
  /\ req[c].at = "start"
  /\ req' = [req EXCEPT ![c].at = "tx", ![c].now = clock]
  /\ UNCHANGED <<clock, profile, authEmail, ledger, entangled, astray, faults>>

(* Mutant: the row is read without for update. *)
SelectWithoutLock(c) ==
  LET u == req[c].user
  IN  /\ req[c].at = "tx" /\ req[c].op \in LedgerOps
      /\ IF req[c].op = "activate" => profile[u].status = "pending"
           THEN req' = [req EXCEPT ![c].at = "write",
                                   ![c].previous = profile[u].expires]
           ELSE End(c)
      /\ UNCHANGED <<clock, profile, authEmail, ledger, entangled, astray, faults>>

(* Mutant: an account of any status is activated. *)
SelectAnyStatus(c) ==
  LET u == req[c].user
  IN  /\ req[c].at = "tx" /\ req[c].op \in LedgerOps
      /\ ~RowLocked(u)
      /\ req' = [req EXCEPT ![c].at = "write", ![c].previous = profile[u].expires]
      /\ UNCHANGED <<clock, profile, authEmail, ledger, entangled, astray, faults>>

(* activate, adjust_days, expire_now: the row is locked and read, or the    *)
(* operation refused ...                                                   *)
SelectForUpdate(c) ==
  LET u == req[c].user
  IN  /\ req[c].at = "tx" /\ req[c].op \in LedgerOps
      /\ ~RowLocked(u)
      /\ IF req[c].op = "activate" => profile[u].status = "pending"
           THEN req' = [req EXCEPT ![c].at = "write",
                                   ![c].previous = profile[u].expires]
           ELSE End(c)
      /\ UNCHANGED <<clock, profile, authEmail, ledger, entangled, astray, faults>>

(* ... then the update, the event and the commit, or a failed check. *)
UpdateAndRecord(c) ==
  LET u == req[c].user
      row == Result(req[c].op, profile[u], req[c].now)
      event == [by |-> "event", previous |-> req[c].previous, new |-> row.expires]
  IN  /\ req[c].at = "write"
      /\ IF RowChecks(row)
           THEN /\ profile' = [profile EXCEPT ![u] = row]
                /\ ledger' = [ledger EXCEPT ![u] = Append(@, event)]
                /\ Proceed(c, "reread")
           ELSE End(c) /\ UNCHANGED <<profile, ledger>>
      /\ UNCHANGED <<clock, authEmail, entangled, astray, faults>>

(* suspend, restore, soft_delete: one statement, whatever became of the    *)
(* account since it was read.                                              *)
UpdateStatus(c) ==
  LET u == req[c].user
      row == Result(req[c].op, profile[u], req[c].now)
  IN  /\ req[c].at = "tx" /\ req[c].op \in StatementOps
      /\ ~RowLocked(u)
      /\ IF RowChecks(row)
           THEN /\ profile' = [profile EXCEPT ![u] = row]
                /\ Proceed(c, IF req[c].op = "restore" THEN "reread" ELSE "revoke")
           ELSE End(c) /\ UNCHANGED profile
      /\ UNCHANGED <<clock, authEmail, ledger, entangled, astray, faults>>

(* Supabase ends the account's sessions. *)
RevokeSessions(c) ==
  /\ req[c].at = "revoke"
  /\ Proceed(c, "reread")
  /\ UNCHANGED <<clock, profile, authEmail, ledger, entangled, astray, faults>>

(* The account is read again for the audit row: after soft_delete even if  *)
(* deleted, otherwise require_user raises and nothing is recorded.         *)
ReadAfter(c) ==
  LET u == req[c].user
  IN  /\ req[c].at = "reread"
      /\ IF req[c].op = "delete" \/ Found(u)
           THEN Goto(c, "audit") ELSE End(c)
      /\ UNCHANGED <<clock, profile, authEmail, ledger, entangled, astray, faults>>

(* record_admin_action *)
Audit(c) ==
  /\ req[c].at = "audit"
  /\ End(c)
  /\ UNCHANGED <<clock, profile, authEmail, ledger, entangled, astray, faults>>

-----------------------------------------------------------------------------
(* The address of an account: first in Supabase, then in the profile.      *)

SetsEmail(c) == req[c].at \in {"auth_email", "profile_email", "upsert"}

Entangle(u) ==
  entangled' = IF \E c \in Clients : SetsEmail(c) /\ req[c].user = u
                 THEN entangled \union {u} ELSE entangled

(* update_user with an address *)
BeginUpdate(c, u, e) ==
  /\ req[c].at = "idle" /\ Found(u)
  /\ req' = [req EXCEPT ![c] = [NewRequest("update", "auth_email", u)
                                  EXCEPT !.email = e]]
  /\ Entangle(u)
  /\ UNCHANGED <<clock, profile, authEmail, ledger, astray, faults>>

SetAuthEmail(c) ==
  /\ req[c].at = "auth_email"
  /\ authEmail' = [authEmail EXCEPT ![req[c].user] = req[c].email]
  /\ Goto(c, "profile_email")
  /\ UNCHANGED <<clock, profile, ledger, entangled, astray, faults>>

(* Mutant: coalesce(email, %s) keeps the old address. *)
SetProfileEmailKept(c) ==
  /\ req[c].at = "profile_email" /\ ~RowLocked(req[c].user)
  /\ Proceed(c, "reread")
  /\ UNCHANGED <<clock, profile, authEmail, ledger, entangled, astray, faults>>

SetProfileEmail(c) ==
  /\ req[c].at = "profile_email" /\ ~RowLocked(req[c].user)
  /\ profile' = [profile EXCEPT ![req[c].user].email = req[c].email]
  /\ astray' = astray \ {req[c].user}
  /\ Proceed(c, "reread")
  /\ UNCHANGED <<clock, authEmail, ledger, entangled, faults>>

-----------------------------------------------------------------------------
(* Registration (op "register") and create_user by an administrator (op    *)
(* "create").                                                              *)

(* register refuses a name resolve_login_identifier finds; create_user     *)
(* leaves that to Supabase.                                                *)
BeginRegistration(c, op, u) ==
  /\ req[c].at = "idle"
  /\ op = "register" => ~Found(u)
  /\ req' = [req EXCEPT ![c] = NewRequest(op, "create", u)]
  /\ UNCHANGED <<clock, profile, authEmail, ledger, entangled, astray, faults>>

(* Supabase creates the user, and the trigger on_auth_user_created its     *)
(* pending profile; a known address or name fails.                         *)
CreateAuthUser(c) ==
  LET u == req[c].user
  IN  /\ req[c].at = "create"
      /\ IF Exists(u) THEN End(c) /\ UNCHANGED profile
         ELSE /\ profile' = [profile EXCEPT ![u].status = "pending"]
              /\ Goto(c, "upsert")
      /\ UNCHANGED <<clock, authEmail, ledger, entangled, astray, faults>>

(* create_pending_profile writes name and address again, then reads the    *)
(* account, which may have been deleted by now.                            *)
CreatePendingProfile(c) ==
  LET u == req[c].user
  IN  /\ req[c].at = "upsert" /\ ~RowLocked(u)
      /\ profile' = [profile EXCEPT ![u].email = FirstEmail]
      /\ astray' = astray \ {u}
      /\ IF ~Found(u) THEN Goto(c, "rollback")
         ELSE IF req[c].op = "create" THEN Goto(c, "audit")
         ELSE End(c)
      /\ UNCHANGED <<clock, authEmail, ledger, entangled, faults>>

CreatePendingProfileFails(c) ==
  /\ req[c].at = "upsert" /\ faults < MaxFaults
  /\ faults' = faults + 1
  /\ Goto(c, "rollback")
  /\ UNCHANGED <<clock, profile, authEmail, ledger, entangled, astray>>

(* delete_user cannot succeed: the profile's rows of user_config_versions, *)
(* written with it by a trigger, are append-only even for a cascade.  The  *)
(* error is swallowed; the account stays.                                  *)
DeleteAuthUser(c) ==
  /\ req[c].at = "rollback"
  /\ End(c)
  /\ UNCHANGED <<clock, profile, authEmail, ledger, entangled, astray, faults>>

-----------------------------------------------------------------------------
(* An administrator's own UPDATE of user_profiles, granted by 0010 under   *)
(* row-level security: any of the columns, no entitlement event, nothing   *)
(* told to Supabase.  A trigger writes the row before and after it to      *)
(* admin_audit_logs.  A statement that fails a check changes nothing.      *)
DirectUpdate(u) ==
  /\ Exists(u) /\ ~RowLocked(u)
  /\ Len(ledger[u]) + EventsUnderWay(u) < MaxEvents
  /\ \E status \in Status \ {"absent"},
        activated \in DirectDates \union {profile[u].activated},
        expires \in DirectDates \union {profile[u].expires},
        deleted \in BOOLEAN, email \in Emails :
       LET row == [status |-> status, activated |-> activated, expires |-> expires,
                   deleted |-> deleted, email |-> email]
           audit == [by |-> "audit", previous |-> profile[u].expires, new |-> expires]
       IN  /\ RowChecks(row)
           /\ profile' = [profile EXCEPT ![u] = row]
           /\ ledger' = [ledger EXCEPT ![u] = Append(@, audit)]
           /\ astray' = IF email = profile[u].email THEN astray ELSE astray \union {u}
  /\ UNCHANGED <<clock, authEmail, entangled, req, faults>>

(* A request dies: the connection, Supabase or the process.  What it       *)
(* committed stays; it leaves no audit row.                                *)
RequestFails(c) ==
  /\ req[c].at # "idle" /\ faults < MaxFaults
  /\ faults' = faults + 1
  /\ End(c)
  /\ UNCHANGED <<clock, profile, authEmail, ledger, entangled, astray>>

Tick ==
  /\ clock < MaxTime
  /\ clock' = clock + 1
  /\ UNCHANGED <<profile, authEmail, ledger, entangled, astray, req, faults>>

Mutation(c) ==
  \/ \E op \in AdminOps, u \in Users : BeginMutation(c, op, u)
  \/ StartTransaction(c) \/ SelectForUpdate(c) \/ UpdateAndRecord(c)
  \/ UpdateStatus(c) \/ RevokeSessions(c) \/ ReadAfter(c) \/ Audit(c)

EmailUpdate(c) ==
  \/ \E u \in Users, e \in Emails : BeginUpdate(c, u, e)
  \/ SetAuthEmail(c) \/ SetProfileEmail(c)

Registration(c) ==
  \/ \E op \in {"register", "create"}, u \in Users : BeginRegistration(c, op, u)
  \/ CreateAuthUser(c) \/ CreatePendingProfile(c)
  \/ CreatePendingProfileFails(c) \/ DeleteAuthUser(c)

Next ==
  \/ Tick
  \/ \E u \in Users : DirectUpdate(u)
  \/ \E c \in Clients :
       Mutation(c) \/ EmailUpdate(c) \/ Registration(c) \/ RequestFails(c)

Spec == Init /\ [][Next]_vars

-----------------------------------------------------------------------------
(* Who may use the product.                                                *)

(* Mutant: the day of the expiry still counts. *)
ApiAllowsLastDay(u) ==
  /\ Found(u)
  /\ profile[u].status = "active"
  /\ ~(profile[u].expires # NoTime /\ profile[u].expires < clock)

(* get_current_identity and require_active_user *)
ApiAllows(u) ==
  /\ Found(u)
  /\ profile[u].status = "active"
  /\ ~(profile[u].expires # NoTime /\ profile[u].expires <= clock)

(* is_current_user_active, the rule of row-level security *)
SqlAllows(u) ==
  /\ Found(u)
  /\ profile[u].status = "active"
  /\ profile[u].expires > clock

(* remaining_days of PROFILE_SELECT *)
RemainingDays(u) ==
  IF profile[u].expires <= clock THEN 0 ELSE profile[u].expires - clock

-----------------------------------------------------------------------------
(* Properties *)

Event == [by : {"event", "audit"}, previous : Times, new : Times]

Edited(u) == \E i \in DOMAIN ledger[u] : ledger[u][i].by = "audit"

(* Every variable keeps its type. *)
TypeOK ==
  /\ clock \in Nat \ {0}
  /\ profile \in [Users -> Profile]
  /\ authEmail \in [Users -> Emails]
  /\ ledger \in [Users -> Seq(Event)]
  /\ entangled \subseteq Users /\ astray \subseteq Users
  /\ req \in [Clients -> Request]
  /\ faults \in 0 .. MaxFaults

(* The ledger of an account replays: each entitlement event, and each      *)
(* direct update in the audit log, starts from the expiry the entry before *)
(* it left, and the last one left the expiry of today, whatever requests   *)
(* run at once and whatever suspends, restores or deletes the account in   *)
(* between.  (The events alone do not: a direct update writes none.)       *)
LedgerReplays ==
  \A u \in Users :
    LET n == Len(ledger[u])
    IN  /\ n = 0 => profile[u].expires = NoTime
        /\ n > 0 => /\ ledger[u][1].previous = NoTime
                    /\ ledger[u][n].new = profile[u].expires
        /\ \A i \in 1 .. n - 1 : ledger[u][i].new = ledger[u][i + 1].previous

(* The rule of the API, the rule of row-level security and the days the    *)
(* account page counts agree at every moment, although each is written for *)
(* itself: the API lets an account without an expiry in, SQL does not.     *)
AccessRulesAgree ==
  \A u \in Users :
    /\ ApiAllows(u) <=> SqlAllows(u)
    /\ Found(u) =>
         (SqlAllows(u) <=> profile[u].status = "active" /\ RemainingDays(u) > 0)

(* No sequence of operations leaves an account that was activated once, and*)
(* is not deleted, where the check constraints refuse whatever would bring *)
(* it back: a restore and, when its days are used up, a grant always do.   *)
(* (An account expired, or reduced to nothing, before its first activation *)
(* is stuck for ever: activate, grant and restore all fail; so may be one  *)
(* whose activation a direct update wrote into the future.)                *)
ActivatedCanReturn ==
  \A u \in Users :
    /\ Found(u) /\ profile[u].activated # NoTime
    /\ Edited(u) => profile[u].activated <= clock
    =>
      LET restored == Restored(profile[u], clock)
          granted == Granted(restored, clock)
      IN  /\ RowChecks(restored)
          /\ \/ restored.status = "active" /\ restored.expires > clock
             \/ /\ RowChecks(granted)
                /\ granted.status = "active" /\ granted.expires > clock

(* Both places know an account by the same address, unless a request that  *)
(* sets it is under way or failed, two of them overlapped, or the last to  *)
(* set it was a direct update, of which Supabase hears nothing: the next   *)
(* request that sets it makes them agree again.                            *)
EmailsAgree ==
  \A u \in Users :
    \/ profile[u].email = authEmail[u]
    \/ faults > 0
    \/ u \in entangled \union astray
    \/ \E c \in Clients : SetsEmail(c) /\ req[c].user = u

(* A deleted account comes back only by a restore that had read it before  *)
(* the deletion, or by a direct update, which the audit log shows: none of *)
(* the other requests under way revives it.                                *)
Restoring(u) ==
  \E c \in Clients : req[c].user = u /\ req[c].op = "restore" /\ req[c].at = "tx"
Audited(u) ==
  LET n == Len(ledger[u]) + 1
  IN  Len(ledger'[u]) = n /\ ledger'[u][n].by = "audit"

DeletedStays ==
  [][\A u \in Users :
       profile[u].deleted /\ ~profile'[u].deleted => Restoring(u) \/ Audited(u)]_vars
=============================================================================
