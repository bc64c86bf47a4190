--------------------------- MODULE ConfigBundles ---------------------------
(***************************************************************************)
(* The settings of one user (users share nothing, the bundle lock is per   *)
(* user): three configuration documents, their version rows, and the       *)
(* append-only bundles a save of the preferences writes through them       *)
(* (repositories/preferences.py, preferences/service.py), beside the older *)
(* endpoints that edit one document at a time (repositories/configs.py)    *)
(* and the direct update row-level security grants.                        *)
(*                                                                         *)
(* A request is several transactions: it loads the settings, compares them *)
(* with what its page expects, and writes in a last transaction that holds *)
(* the bundle lock and the rows.  Each action is one transaction with what *)
(* the request does up to the next.  A bundle is known by its revision,    *)
(* new for each bundle as its UUID is; 0 stands for no bundle.             *)
(*                                                                         *)
(* A document is a function from settings to values; a field is a leaf     *)
(* path, or a group of them the compiler writes as a whole, and what       *)
(* pydantic normalises is left out.  A refused request changes nothing, so *)
(* a refusal before the last transaction is no action here.                *)
(***************************************************************************)
EXTENDS Naturals, Sequences, FiniteSets

CONSTANTS
  ConfigTypes, Fields, Values,
  BuiltOnCurrent,  \* the types compiled from the current document, not the default
  Clients,         \* the user's pages and API clients
  Preferences,     \* what the compiler writes for each payload, by type
  Edits,           \* the overrides clients put in one document
  Releases,        \* the default documents of each release, by type
  MaxBundles, MaxEdits

Doc == UNION {[F -> Values] : F \in SUBSET Fields}
Docs == [ConfigTypes -> Doc]
Empty == [f \in {} |-> f]

ASSUME ConfigAssumption ==
  /\ ConfigTypes # {} /\ BuiltOnCurrent \subseteq ConfigTypes
  /\ Preferences \subseteq Docs /\ Releases \subseteq Docs
  /\ Edits \subseteq Doc /\ MaxBundles \in Nat /\ MaxEdits \in Nat

VARIABLES
  defaults,   \* the documents under config/ of the running release
  documents,  \* table user_config_documents
  versions,   \* table user_config_versions
  bundles,    \* table config_bundle_revisions, by revision
  aliases,    \* the payloads whose rows are in skill_alias_catalog
  page,       \* what each client was last shown
  request     \* the request each client has in the API

vars == <<defaults, documents, versions, bundles, aliases, page, request>>

Bundle == [status : {"default_seed", "saved", "restored", "reset"},
           preferences : Preferences \union {Empty},
           compiled_overrides : Docs, compiled_configs : Docs,
           config_revision_map : [ConfigTypes -> Nat], restored_from : Nat]
Version == [type : ConfigTypes, revision : Nat, override : Doc, bundle : Nat]
Loaded == [overrides : Docs, revision : Nat]

(***************************************************************************)
(* Documents.  MaxEdits bounds the updates that leave a document in no     *)
(* bundle, MaxBundles the bundles.                                         *)
(***************************************************************************)

(* Mutant: the default wins. *)
MergeDefaultFirst(default, override) ==
  [f \in DOMAIN default \union DOMAIN override |->
     IF f \in DOMAIN default THEN default[f] ELSE override[f]]

(* merge_config, sparse_override and _remove_field. *)
Merge(default, override) ==
  [f \in DOMAIN default \union DOMAIN override |->
     IF f \in DOMAIN override THEN override[f] ELSE default[f]]
Keep(doc, F) == [f \in DOMAIN doc \intersect F |-> doc[f]]
SparseOverride(default, effective) ==
  Keep(effective, {f \in DOMAIN effective :
                     f \in DOMAIN default => effective[f] # default[f]})
Without(doc, f) == Keep(doc, Fields \ {f})

Overrides == [t \in ConfigTypes |-> documents[t].override]

(* Mutant: one document of a bundle stands for all. *)
AnyRevision == documents[CHOOSE t \in ConfigTypes : TRUE].bundle

(* Three documents of one bundle, or no bundle at all. *)
CoherentRevision ==
  LET Of(b) == \A t \in ConfigTypes : documents[t].bundle = b
      B == {documents[t].bundle : t \in ConfigTypes}
  IN  IF \E b \in B : Of(b) THEN CHOOSE b \in B : Of(b) ELSE 0

LoadCurrent == [overrides |-> Overrides, revision |-> CoherentRevision]

(* Mutant: an update keeps the revision. *)
UpdatedInPlace(doc, override, bundle) ==
  [override |-> override, revision |-> doc.revision,
   bundle |-> IF override # doc.override /\ bundle = doc.bundle THEN 0 ELSE bundle]

(* Mutant: an update that changes nothing is skipped. *)
UpdatedIfChanged(doc, override, bundle) ==
  IF override = doc.override THEN doc
  ELSE [override |-> override, revision |-> doc.revision + 1, bundle |-> bundle]

(* An update of a document as its triggers complete it: a new override     *)
(* leaves a bundle it was not written for, and a version row is added      *)
(* unless the revision has one.                                            *)
Updated(doc, override, bundle) ==
  [override |-> override, revision |-> doc.revision + 1,
   bundle |-> IF override # doc.override /\ bundle = doc.bundle THEN 0 ELSE bundle]
VersionRow(t, doc) ==
  [type |-> t, revision |-> doc.revision, override |-> doc.override,
   bundle |-> doc.bundle]
NewVersions(rows) ==
  versions' = versions \union
    {r \in rows : \A v \in versions : <<v.type, v.revision>> # <<r.type, r.revision>>}

(* Mutant: no unique constraint on the type and bundle of a version. *)
NotFreshForBundle(t, doc) == TRUE

(* user_config_versions_one_type_per_bundle *)
FreshForBundle(t, doc) ==
  doc.bundle # 0 => \A v \in versions : <<v.type, v.bundle>> # <<t, doc.bundle>>

MayEdit == Cardinality({v \in versions : v.bundle = 0}) < MaxEdits

Edit(t, override, bundle) ==
  /\ MayEdit
  /\ LET doc == Updated(documents[t], override, bundle) IN
     /\ FreshForBundle(t, doc)
     /\ documents' = [documents EXCEPT ![t] = doc]
     /\ NewVersions({VersionRow(t, doc)})
  /\ UNCHANGED <<defaults, bundles, aliases>>

(* ConfigRepository._save: no lock but the row's, and out of any bundle. *)
Save(t, override) == Edit(t, override, 0)

(***************************************************************************)
(* Bundles                                                                 *)
(***************************************************************************)

NextRevision == Len(bundles) + 1
Effective(overrides) == [t \in ConfigTypes |-> Merge(defaults[t], overrides[t])]

SaveBundle(overrides, status, preferences, source) ==
  LET b == NextRevision
      docs == [t \in ConfigTypes |-> Updated(documents[t], overrides[t], b)]
  IN  /\ b <= MaxBundles
      /\ bundles' = Append(bundles,
           [status |-> status, preferences |-> preferences,
            compiled_overrides |-> overrides,
            compiled_configs |-> Effective(overrides),
            config_revision_map |-> [t \in ConfigTypes |-> documents[t].revision + 1],
            restored_from |-> source])
      /\ documents' = docs
      /\ NewVersions({VersionRow(t, docs[t]) : t \in ConfigTypes})
      /\ UNCHANGED <<defaults, aliases>>

(* What compile makes of a payload on top of the loaded documents. *)
Compiled(overrides, preferences) ==
  [t \in ConfigTypes |->
     LET base == IF t \in BuiltOnCurrent THEN Effective(overrides)[t] ELSE defaults[t]
     IN  SparseOverride(defaults[t], Merge(base, preferences[t]))]

ComponentHistory(b) == {v \in versions : v.bundle = b}

(* Mutant: every bundle is restored from its sparse overrides. *)
RestoreSparse(b) ==
  [t \in ConfigTypes |-> (CHOOSE v \in ComponentHistory(b) : v.type = t).override]

(* A bundle of migration 0015 has no compiled_configs and is restored from *)
(* its version rows.                                                       *)
RestoreOverrides(b) ==
  IF bundles[b].status # "default_seed"
  THEN bundles[b].compiled_configs
  ELSE [t \in ConfigTypes |->
          (CHOOSE v \in ComponentHistory(b) : v.type = t).override]

(***************************************************************************)
(* Requests.  asked holds the revision the client sent, or nothing; a page *)
(* sends what it was shown, which is nothing when the settings had no      *)
(* revision.  The expected UUID says no more than the revision.            *)
(***************************************************************************)

Idle == [at |-> "idle"]
Requests ==
  [at : {"idle", "reload"}]
  \union [at : {"restore"}, asked : SUBSET Nat, source : Nat]
  \union [at : {"commit"}, asked : SUBSET Nat, loaded : Loaded, overrides : Docs,
          status : {"saved", "restored", "reset"},
          preferences : Preferences \union {Empty}, restored_from : Nat]
  \union [at : {"field"}, type : ConfigTypes, field : Fields, override : Doc]

SetRequest(c, r) == request' = [request EXCEPT ![c] = r]
IsIdle(c) == request[c].at = "idle"
MaySend(c) == {{}, {page[c].revision} \ {0}}

(* PreferencesService._expected_revision *)
Expected(asked) == asked \subseteq {CoherentRevision}

Commit(asked, overrides, status, preferences, source) ==
  [at |-> "commit", asked |-> asked, loaded |-> LoadCurrent,
   overrides |-> overrides, status |-> status, preferences |-> preferences,
   restored_from |-> source]

Init ==
  LET empty == [t \in ConfigTypes |-> Empty]
      first == [t \in ConfigTypes |-> [override |-> Empty, revision |-> 1, bundle |-> 1]]
  IN  /\ defaults \in Releases
      /\ documents = first
      /\ versions = {VersionRow(t, first[t]) : t \in ConfigTypes}
      /\ bundles = << [status |-> "default_seed", preferences |-> Empty,
                       compiled_overrides |-> empty, compiled_configs |-> empty,
                       config_revision_map |-> [t \in ConfigTypes |-> 1],
                       restored_from |-> 0] >>
      /\ aliases = {}
      /\ page = [c \in Clients |-> [overrides |-> empty, revision |-> 1]]
      /\ request = [c \in Clients |-> Idle]

stored == <<defaults, documents, versions, bundles, aliases>>

(* Also how a reset and a restore answer. *)
GetPreferences(c) ==
  /\ request[c].at \in {"idle", "reload"}
  /\ page' = [page EXCEPT ![c] = LoadCurrent]
  /\ SetRequest(c, Idle)
  /\ UNCHANGED stored

(* Load, compare, compile; the aliases are committed before the bundle.    *)
PutPreferences(c, preferences, asked) ==
  /\ IsIdle(c) /\ Expected(asked)
  /\ aliases' = aliases \union {preferences}
  /\ SetRequest(c, Commit(asked, Compiled(Overrides, preferences), "saved",
                       preferences, 0))
  /\ UNCHANGED <<defaults, documents, versions, bundles, page>>

ResetPreferences(c, asked) ==
  /\ IsIdle(c) /\ Expected(asked)
  /\ SetRequest(c, Commit(asked, [t \in ConfigTypes |-> Empty], "reset", Empty, 0))
  /\ UNCHANGED <<stored, page>>

(* The router compares, and hands over the identifier alone. *)
RestorePreferences(c, b, asked) ==
  /\ IsIdle(c) /\ Expected(asked)
  /\ SetRequest(c, [at |-> "restore", asked |-> asked, source |-> b])
  /\ UNCHANGED <<stored, page>>

(* The service loads again, with nothing to compare; a bundle and its      *)
(* version rows never change, so reading them here is reading them later.  *)
RestoreLoaded(c) ==
  /\ request[c].at = "restore"
  /\ LET b == request[c].source IN
     SetRequest(c, Commit(request[c].asked, RestoreOverrides(b), "restored",
                          bundles[b].preferences, b))
  /\ UNCHANGED <<stored, page>>

(* Mutant: the loaded revision is not passed on. *)
AlwaysUnchanged(c) == TRUE

Unchanged(c) == request[c].loaded.revision = CoherentRevision

(* save_bundle; a save answers with what it saved, if the answer arrives.  *)
SaveCommit(c) ==
  /\ request[c].at = "commit" /\ Unchanged(c)
  /\ SaveBundle(request[c].overrides, request[c].status, request[c].preferences,
                request[c].restored_from)
  /\ IF request[c].status = "saved"
     THEN /\ \E shown \in {page[c], [overrides |-> request[c].overrides,
                                     revision |-> NextRevision]} :
               page' = [page EXCEPT ![c] = shown]
          /\ SetRequest(c, Idle)
     ELSE SetRequest(c, [at |-> "reload"]) /\ UNCHANGED page

Conflict(c) ==
  /\ request[c].at = "commit" /\ ~Unchanged(c)
  /\ SetRequest(c, Idle)
  /\ UNCHANGED <<stored, page>>

(* An exception or the end of the process rolls the transaction back; what *)
(* the request committed before, the aliases or the bundle, stays.         *)
RequestFails(c) ==
  /\ ~IsIdle(c)
  /\ SetRequest(c, Idle)
  /\ UNCHANGED <<stored, page>>

(***************************************************************************)
(* The endpoints of a single document.  Those of one transaction may come  *)
(* at any time, beside whatever request a page has under way.              *)
(***************************************************************************)

UpdateConfig(t, override) ==
  Save(t, override) /\ UNCHANGED <<page, request>>

ResetConfig(t) ==
  Save(t, Empty) /\ UNCHANGED <<page, request>>

RestoreConfig(v) ==
  Save(v.type, v.override) /\ UNCHANGED <<page, request>>

(* reset_field reads the document in one transaction and writes the whole  *)
(* override back in another.                                               *)
ResetField(c, t, f) ==
  /\ IsIdle(c)
  /\ SetRequest(c, [at |-> "field", type |-> t, field |-> f,
                    override |-> Without(documents[t].override, f)])
  /\ UNCHANGED <<stored, page>>

ResetFieldSaved(c) ==
  /\ request[c].at = "field"
  /\ Save(request[c].type, request[c].override)
  /\ SetRequest(c, Idle)
  /\ UNCHANGED page

(* grant update (override_json) ... to authenticated *)
DirectUpdate(t, override) ==
  Edit(t, override, documents[t].bundle) /\ UNCHANGED <<page, request>>

(* Another release replaces the API: its requests are lost, pages stay.    *)
Deploy ==
  /\ defaults' \in Releases \ {defaults}
  /\ request' = [c \in Clients |-> Idle]
  /\ UNCHANGED <<documents, versions, bundles, aliases, page>>

Preference(c) ==
  \/ GetPreferences(c)
  \/ \E asked \in MaySend(c) :
       \/ \E p \in Preferences : PutPreferences(c, p, asked)
       \/ ResetPreferences(c, asked)
       \/ \E b \in DOMAIN bundles : RestorePreferences(c, b, asked)
  \/ RestoreLoaded(c)
  \/ SaveCommit(c)
  \/ Conflict(c)
  \/ RequestFails(c)

SingleDocument(c) ==
  \/ \E v \in versions : RestoreConfig(v)
  \/ ResetFieldSaved(c)
  \/ \E t \in ConfigTypes :
       \/ ResetConfig(t)
       \/ \E o \in Edits : UpdateConfig(t, o) \/ DirectUpdate(t, o)
       \/ \E f \in Fields : ResetField(c, t, f)

Next == Deploy \/ \E c \in Clients : Preference(c) \/ SingleDocument(c)

Spec == Init /\ [][Next]_vars

(***************************************************************************)
(* Properties                                                              *)
(***************************************************************************)

(* Rows, pages and requests have their types, and name existing bundles.   *)
TypeOK ==
  /\ defaults \in Releases
  /\ documents \in [ConfigTypes -> [override : Doc, revision : Nat,
                                    bundle : 0 .. Len(bundles)]]
  /\ versions \subseteq Version
  /\ bundles \in Seq(Bundle)
  /\ aliases \subseteq Preferences
  /\ page \in [Clients -> Loaded]
  /\ request \in [Clients -> Requests]

(* Every document that claims a bundle is, in content and revision, what   *)
(* the bundle says of it: no edit, through the API or past it, leaves a    *)
(* changed document inside the bundle a run's snapshot will name.          *)
DocumentsMatchBundle ==
  \A t \in ConfigTypes :
    LET d == documents[t] IN
    d.bundle # 0 => /\ d.override = bundles[d.bundle].compiled_overrides[t]
                    /\ d.revision = bundles[d.bundle].config_revision_map[t]

(* The version rows of a bundle are one per type, with its revisions and   *)
(* overrides: the check save_bundle ends with never fails, and a bundle    *)
(* without compiled_configs can always be restored from its rows.          *)
ComponentHistoryComplete ==
  \A b \in DOMAIN bundles : \A t \in ConfigTypes :
    {v \in ComponentHistory(b) : v.type = t} =
      {[type |-> t, revision |-> bundles[b].config_revision_map[t],
        override |-> bundles[b].compiled_overrides[t], bundle |-> b]}

(* What a page shows, or a request has loaded, under a revision is that    *)
(* revision, however many saves and edits happened since.                  *)
NumberedReads ==
  \A c \in Clients : LET r == request[c] IN
    \A read \in {page[c]} \union (IF r.at = "commit" THEN {r.loaded} ELSE {}) :
      read.revision # 0 =>
        /\ read.revision \in DOMAIN bundles
        /\ read.overrides = bundles[read.revision].compiled_overrides

(* The aliases a bundle's skills were compiled to are in the catalog once  *)
(* the bundle is, although nothing undoes them when the save conflicts.    *)
AliasesBeforeBundle ==
  \A b \in DOMAIN bundles :
    bundles[b].preferences # Empty => bundles[b].preferences \in aliases

(* What the user asked for is in force after the save: neither storing only*)
(* the difference from the defaults, nor merging it again, loses a value.  *)
SavedPreferencesApply ==
  \A b \in DOMAIN bundles : \A t \in ConfigTypes :
    LET asked == bundles[b].preferences[t]
        got == bundles[b].compiled_configs[t]
    IN  bundles[b].status = "saved" => Keep(got, DOMAIN asked) = asked

(* A restored bundle has every generated setting of the bundle it restores,*)
(* whatever the defaults have become (preferences.py, restore_bundle).     *)
Restored(b) == {s \in {bundles[b].restored_from} \ {0} :
                  bundles[s].status # "default_seed"}
RestoreKeepsGenerated ==
  \A b \in DOMAIN bundles : \A s \in Restored(b) : \A t \in ConfigTypes :
    LET source == bundles[s].compiled_configs[t] IN
    Keep(bundles[b].compiled_configs[t], DOMAIN source) = source

(* A bundle save that had loaded a numbered revision replaces exactly the  *)
(* settings it had loaded, and those of the page whose revision it sent:   *)
(* whatever was written in between makes it fail.                          *)
SaveReplacesWhatItRead ==
  [][\A c \in Clients : LET r == request[c] IN
       SaveCommit(c) /\ r.loaded.revision # 0 =>
         /\ Overrides = r.loaded.overrides
         /\ r.asked # {} /\ r.status # "restored" => Overrides = page[c].overrides]_vars

(* What the settings promise, one register of whole values and edits.      *)
Register == INSTANCE SettingsRegister
  WITH Overrides <- Doc, value <- Overrides, number <- CoherentRevision,
       history <- [b \in DOMAIN bundles |-> bundles[b].compiled_overrides]
ImplementsRegister == Register!Spec

(* Release notes: stale updates are rejected instead of silently           *)
(* overwriting newer settings.  What a save replaces is what it loaded, and*)
(* for a restore that sends the revision of its page, what the page shows. *)
StaleUpdateRejected ==
  [][\A c \in Clients : LET r == request[c] IN
       SaveCommit(c) =>
         /\ Overrides = r.loaded.overrides
         /\ r.status = "restored" /\ r.asked # {} => Overrides = page[c].overrides]_vars
=============================================================================
