------------------------ MODULE ConfigBundlesProofs ------------------------
(***************************************************************************)
(* Theorems about ConfigBundles, for any documents, clients, payloads,     *)
(* releases and bounds.  The inductive invariant joins what the tables     *)
(* say of each other (Tables) to what clients have read of them (Reads).   *)
(***************************************************************************)
EXTENDS ConfigBundles, SequenceTheorems, TLAPS

(* Version rows are never ahead of their documents or of the bundles.      *)
VersionsBehind ==
  \A v \in versions : /\ v.revision <= documents[v.type].revision
                      /\ v.bundle <= Len(bundles)

TablesTyped ==
  /\ documents \in [ConfigTypes -> [override : Doc, revision : Nat,
                                    bundle : 0 .. Len(bundles)]]
  /\ versions \subseteq Version
  /\ bundles \in Seq(Bundle)

Tables == /\ TablesTyped
          /\ DocumentsMatchBundle
          /\ ComponentHistoryComplete
          /\ VersionsBehind

SourcesExist ==
  \A c \in Clients : request[c].at = "restore" => request[c].source \in DOMAIN bundles

ClientsTyped ==
  /\ page \in [Clients -> Loaded]
  /\ request \in [Clients -> Requests]

Reads == ClientsTyped /\ NumberedReads /\ SourcesExist

Settled == defaults \in Releases /\ aliases \subseteq Preferences

IInv == Settled /\ Tables /\ Reads

-----------------------------------------------------------------------------

(* Documents *)

(* A document is a function from some fields to values.                    *)
LEMMA DocFunction ==
  \A d : d \in Doc <=> DOMAIN d \subseteq Fields /\ d \in [DOMAIN d -> Values]
  BY DEF Doc

(* A reset document is a document.                                         *)
LEMMA EmptyDoc == Empty \in Doc
  BY DocFunction DEF Empty

(* Part of a document is a document.                                       *)
LEMMA KeepDoc ==
  ASSUME NEW d \in Doc, NEW F
  PROVE  Keep(d, F) \in Doc
  BY DocFunction DEF Keep

(* merge_config makes a document of two.                                   *)
LEMMA MergeDoc ==
  ASSUME NEW d \in Doc, NEW o \in Doc
  PROVE  Merge(d, o) \in Doc
  BY DocFunction DEF Merge

(* sparse_override makes a document.                                       *)
LEMMA SparseDoc ==
  ASSUME NEW d \in Doc, NEW e \in Doc
  PROVE  SparseOverride(d, e) \in Doc
  BY KeepDoc DEF SparseOverride

(* Storing the difference from the defaults and merging it again gives the *)
(* settings back, as long as they have every default setting: what         *)
(* sparse_override drops is what merge_config puts back.                   *)
THEOREM SparseRoundTrip ==
  ASSUME NEW d \in Doc, NEW e \in Doc, DOMAIN d \subseteq DOMAIN e
  PROVE  Merge(d, SparseOverride(d, e)) = e
  <1> DEFINE o == SparseOverride(d, e)
  <1>1. /\ DOMAIN o = {f \in DOMAIN e : f \in DOMAIN d => e[f] # d[f]}
        /\ \A f \in DOMAIN o : o[f] = e[f]
    BY DEF SparseOverride, Keep
  <1>2. DOMAIN Merge(d, o) = DOMAIN e
    BY <1>1 DEF Merge
  <1>3. \A f \in DOMAIN e : Merge(d, o)[f] = e[f]
    BY <1>1 DEF Merge
  <1>4. Merge(d, o) = [f \in DOMAIN Merge(d, o) |-> Merge(d, o)[f]]
    BY DEF Merge
  <1>5. e = [f \in DOMAIN e |-> e[f]]
    BY DocFunction
  <1> HIDE DEF o
  <1>6. Merge(d, o) = e
    BY <1>2, <1>3, <1>4, <1>5
  <1> QED
    BY <1>6 DEF o

(* What compile returns is a document of every type.                       *)
LEMMA CompiledDocs ==
  ASSUME defaults \in Releases, NEW os \in Docs, NEW p \in Preferences
  PROVE  Compiled(os, p) \in Docs
  <1>1. /\ \A t \in ConfigTypes : defaults[t] \in Doc /\ os[t] \in Doc /\ p[t] \in Doc
    BY ConfigAssumption DEF Docs
  <1>2. \A t \in ConfigTypes : Effective(os)[t] \in Doc
    BY <1>1, MergeDoc DEF Effective
  <1> DEFINE base(t) == IF t \in BuiltOnCurrent THEN Effective(os)[t] ELSE defaults[t]
  <1>3. \A t \in ConfigTypes : base(t) \in Doc
    BY <1>1, <1>2
  <1>4. \A t \in ConfigTypes : SparseOverride(defaults[t], Merge(base(t), p[t])) \in Doc
    BY <1>1, <1>3, MergeDoc, SparseDoc
  <1> QED
    BY <1>4 DEF Compiled, Docs

(* Requests *)

(* The requests that are not about to commit are requests.                 *)
LEMMA RequestKinds ==
  /\ Idle \in Requests /\ [at |-> "reload"] \in Requests
  /\ \A asked \in SUBSET Nat, b \in Nat :
       [at |-> "restore", asked |-> asked, source |-> b] \in Requests
  /\ \A t \in ConfigTypes, f \in Fields, o \in Doc :
       [at |-> "field", type |-> t, field |-> f, override |-> o] \in Requests
  BY DEF Idle, Requests

(* So are those that are, with what they have loaded.                      *)
LEMMA CommitRequest ==
  ASSUME NEW asked \in SUBSET Nat, LoadCurrent \in Loaded, NEW os \in Docs,
         NEW s \in {"saved", "restored", "reset"},
         NEW p \in Preferences \union {Empty}, NEW b \in Nat
  PROVE  /\ Commit(asked, os, s, p, b) \in Requests
         /\ Commit(asked, os, s, p, b).at = "commit"
         /\ Commit(asked, os, s, p, b).loaded = LoadCurrent
  BY DEF Commit, Requests

(* What a request carries has its type.                                    *)
LEMMA RequestFields ==
  ASSUME NEW r \in Requests
  PROVE  /\ r.at \in {"idle", "reload", "restore", "commit", "field"}
         /\ r.at = "restore" => r.asked \in SUBSET Nat /\ r.source \in Nat
         /\ r.at = "commit" => /\ r.overrides \in Docs /\ r.loaded \in Loaded
                               /\ r.status \in {"saved", "restored", "reset"}
                               /\ r.preferences \in Preferences \union {Empty}
                               /\ r.restored_from \in Nat
         /\ r.at = "field" => r.type \in ConfigTypes /\ r.override \in Doc
  BY DEF Requests

-----------------------------------------------------------------------------

(* What is read *)

(* A coherent revision is the bundle of every document, and conversely.    *)
CoherenceHolds ==
  /\ CoherentRevision # 0 => \A t \in ConfigTypes : documents[t].bundle = CoherentRevision
  /\ \A b : (\A t \in ConfigTypes : documents[t].bundle = b) => CoherentRevision = b

(* _coherent_bundle_uuid returns the bundle of every document, or nothing. *)
LEMMA Coherence == CoherenceHolds
  <1> DEFINE B == {documents[t].bundle : t \in ConfigTypes}
             Of(b) == \A t \in ConfigTypes : documents[t].bundle = b
  <1>1. PICK t0 \in ConfigTypes : TRUE
    BY ConfigAssumption
  <1>2. \A b, c : Of(b) /\ Of(c) => b = c
    BY <1>1
  <1>3. \A b : Of(b) => b \in B
    BY <1>1
  <1>4. CoherentRevision = IF \E b \in B : Of(b) THEN CHOOSE b \in B : Of(b) ELSE 0
    BY DEF CoherentRevision
  <1> HIDE DEF B, Of
  <1>5. \A b : Of(b) => CoherentRevision = b
    BY <1>2, <1>3, <1>4
  <1>6. CoherentRevision # 0 => Of(CoherentRevision)
    BY <1>4
  <1> QED
    BY <1>5, <1>6 DEF Of, CoherenceHolds

ReadHolds(read, bs) ==
  read.revision # 0 => /\ read.revision \in DOMAIN bs
                       /\ read.overrides = bs[read.revision].compiled_overrides

(* A bundle that exists is a row with a revision from 1 on.                *)
LEMMA BundleFields ==
  ASSUME TablesTyped, NEW b \in DOMAIN bundles
  PROVE  /\ bundles[b] \in Bundle
         /\ b \in Nat /\ b # 0 /\ b <= Len(bundles)
  BY LenProperties, ElementOfSeq DEF TablesTyped

(* What load_current returns: typed, and the bundle itself when numbered.  *)
LEMMA LoadCurrentHolds ==
  ASSUME Tables
  PROVE  LoadCurrent \in Loaded /\ ReadHolds(LoadCurrent, bundles)
  <1>1. Overrides \in Docs
    BY DEF Overrides, Docs, Tables, TablesTyped
  <1>2. PICK t0 \in ConfigTypes : TRUE
    BY ConfigAssumption
  <1>3. Len(bundles) \in Nat /\ DOMAIN bundles = 1 .. Len(bundles)
    BY LenProperties DEF Tables, TablesTyped
  <1>4. CASE CoherentRevision = 0
    BY <1>1, <1>4 DEF LoadCurrent, Loaded, ReadHolds
  <1>5. CASE CoherentRevision # 0
    <2> DEFINE b == CoherentRevision
    <2>1. \A t \in ConfigTypes : documents[t].bundle = b
      BY <1>5, Coherence DEF CoherenceHolds
    <2>2. b \in DOMAIN bundles /\ b \in Nat
      BY <1>2, <1>3, <1>5, <2>1 DEF Tables, TablesTyped
    <2>3. bundles[b].compiled_overrides \in Docs
      BY <2>2, BundleFields DEF Tables, Bundle
    <2>4. \A t \in ConfigTypes : documents[t].override = bundles[b].compiled_overrides[t]
      BY <1>5, <2>1 DEF Tables, DocumentsMatchBundle
    <2> HIDE DEF b
    <2>5. Overrides = bundles[b].compiled_overrides
      BY <2>3, <2>4 DEF Overrides, Docs
    <2> QED
      BY <1>1, <2>2, <2>5 DEF LoadCurrent, Loaded, ReadHolds, b
  <1> QED
    BY <1>4, <1>5

(* What is written *)

(* A bundle has a version row of every type.                               *)
LEMMA VersionOfBundle ==
  ASSUME ComponentHistoryComplete, NEW b \in DOMAIN bundles, NEW t \in ConfigTypes
  PROVE  \E v \in versions : v.type = t /\ v.bundle = b
  BY DEF ComponentHistoryComplete, ComponentHistory

(* An edit leaves its document in no bundle: a changed one by the trigger, *)
(* an unchanged one because its bundle has a version of it already.        *)
LEMMA EditEffect ==
  ASSUME Tables, NEW t \in ConfigTypes, NEW o \in Doc,
         NEW b \in {0, documents[t].bundle}, Edit(t, o, b)
  PROVE  LET doc == [override |-> o, revision |-> documents[t].revision + 1, bundle |-> 0]
         IN  /\ documents' = [documents EXCEPT ![t] = doc]
             /\ versions' = versions \union {VersionRow(t, doc)}
             /\ UNCHANGED <<defaults, bundles, aliases>>
  <1> DEFINE doc == Updated(documents[t], o, b)
  <1>1. /\ FreshForBundle(t, doc)
        /\ documents' = [documents EXCEPT ![t] = doc]
        /\ NewVersions({VersionRow(t, doc)})
        /\ UNCHANGED <<defaults, bundles, aliases>>
    BY DEF Edit
  <1>2. DOMAIN bundles = 1 .. Len(bundles) /\ Len(bundles) \in Nat
    BY LenProperties DEF Tables, TablesTyped
  <1>3. doc.bundle \in 0 .. Len(bundles)
    BY <1>2 DEF Updated, Tables, TablesTyped
  <1>4. ASSUME doc.bundle # 0 PROVE FALSE
    <2>1. doc.bundle \in DOMAIN bundles
      BY <1>2, <1>3, <1>4
    <2>2. PICK v \in versions : v.type = t /\ v.bundle = doc.bundle
      BY <2>1, VersionOfBundle DEF Tables
    <2> QED
      BY <1>1, <1>4, <2>2 DEF FreshForBundle
  <1>5. doc = [override |-> o, revision |-> documents[t].revision + 1, bundle |-> 0]
    BY <1>4 DEF Updated
  <1>6. \A v \in versions : <<v.type, v.revision>> # <<t, documents[t].revision + 1>>
    <2>1. \A v \in versions : v.revision <= documents[v.type].revision /\ v.revision \in Nat
      BY DEF Tables, VersionsBehind, TablesTyped, Version
    <2>2. documents[t].revision \in Nat
      BY DEF Tables, TablesTyped
    <2> QED
      BY <2>1, <2>2
  <1> HIDE DEF doc
  <1>7. versions' = versions \union {VersionRow(t, doc)}
    BY <1>1, <1>5, <1>6 DEF NewVersions, VersionRow
  <1> QED
    BY <1>1, <1>5, <1>7

(* save_bundle, with the branches of its triggers that can happen.         *)
LEMMA SaveBundleEffect ==
  ASSUME Settled, Tables, NEW os \in Docs, NEW s \in {"saved", "restored", "reset"},
         NEW p \in Preferences \union {Empty}, NEW source \in Nat,
         SaveBundle(os, s, p, source)
  PROVE  LET n == Len(bundles) + 1
             doc(t) == [override |-> os[t], revision |-> documents[t].revision + 1,
                        bundle |-> n]
         IN  /\ documents' = [t \in ConfigTypes |-> doc(t)]
             /\ versions' = versions \union {VersionRow(t, doc(t)) : t \in ConfigTypes}
             /\ bundles' \in Seq(Bundle) /\ Len(bundles') = n
             /\ \A b \in DOMAIN bundles : bundles'[b] = bundles[b]
             /\ bundles'[n].compiled_overrides = os
             /\ bundles'[n].config_revision_map
                  = [t \in ConfigTypes |-> documents[t].revision + 1]
             /\ bundles' = Append(bundles, bundles'[n])
             /\ UNCHANGED <<defaults, aliases>>
  <1> DEFINE n == Len(bundles) + 1
             doc(t) == [override |-> os[t], revision |-> documents[t].revision + 1,
                        bundle |-> n]
             row == [status |-> s, preferences |-> p, compiled_overrides |-> os,
                     compiled_configs |-> Effective(os),
                     config_revision_map |-> [t \in ConfigTypes |-> documents[t].revision + 1],
                     restored_from |-> source]
             added == {VersionRow(t, doc(t)) : t \in ConfigTypes}
  <1>1. DOMAIN bundles = 1 .. Len(bundles) /\ Len(bundles) \in Nat
    BY LenProperties DEF Tables, TablesTyped
  <1>2. \A t \in ConfigTypes : /\ documents[t].revision \in Nat
                               /\ documents[t].bundle \in 0 .. Len(bundles)
    BY DEF Tables, TablesTyped
  <1>3. \A t \in ConfigTypes : Updated(documents[t], os[t], n) = doc(t)
    BY <1>1, <1>2 DEF Updated
  <1>4. row \in Bundle
    <2>1. \A t \in ConfigTypes : defaults[t] \in Doc /\ os[t] \in Doc
      BY ConfigAssumption DEF Settled, Docs
    <2>2. Effective(os) \in Docs
      BY <2>1, MergeDoc DEF Effective, Docs
    <2>3. [t \in ConfigTypes |-> documents[t].revision + 1] \in [ConfigTypes -> Nat]
      BY <1>2
    <2> QED
      BY <2>2, <2>3 DEF Bundle
  <1>5. /\ bundles' = Append(bundles, row)
        /\ documents' = [t \in ConfigTypes |-> Updated(documents[t], os[t], n)]
        /\ NewVersions({VersionRow(t, Updated(documents[t], os[t], n)) : t \in ConfigTypes})
        /\ UNCHANGED <<defaults, aliases>>
    BY DEF SaveBundle, NextRevision
  <1>6. documents' = [t \in ConfigTypes |-> doc(t)] /\ NewVersions(added)
    BY <1>3, <1>5
  <1>7. versions' = versions \union added
    <2>1. \A v \in versions : v.revision <= documents[v.type].revision /\ v.revision \in Nat
      BY DEF Tables, VersionsBehind, TablesTyped, Version
    <2>2. \A r \in added : r.type \in ConfigTypes /\ r.revision = documents[r.type].revision + 1
      BY DEF VersionRow
    <2>3. \A r \in added : \A v \in versions : <<v.type, v.revision>> # <<r.type, r.revision>>
      BY <1>2, <2>1, <2>2
    <2> HIDE DEF added
    <2> QED
      BY <1>6, <2>3 DEF NewVersions
  <1>8. /\ bundles' \in Seq(Bundle) /\ Len(bundles') = n
        /\ \A b \in DOMAIN bundles : bundles'[b] = bundles[b]
        /\ bundles'[n] = row
    BY <1>1, <1>4, <1>5, AppendProperties DEF Tables, TablesTyped
  <1> QED
    BY <1>5, <1>6, <1>7, <1>8

(* The transaction of an action, seen by the tables: an edit of one        *)
(* document, a new bundle, or nothing.                                     *)
Grows == /\ Len(bundles') \in Nat /\ Len(bundles) <= Len(bundles')
         /\ \A b \in DOMAIN bundles : b \in DOMAIN bundles' /\ bundles'[b] = bundles[b]

(* An edit of one document leaves the tables in agreement.                 *)
LEMMA EditKeepsTables ==
  ASSUME Tables, NEW t \in ConfigTypes, NEW o \in Doc,
         NEW b \in {0, documents[t].bundle}, Edit(t, o, b)
  PROVE  Tables' /\ Grows
  <1> DEFINE doc == [override |-> o, revision |-> documents[t].revision + 1, bundle |-> 0]
  <1>1. /\ documents' = [documents EXCEPT ![t] = doc]
        /\ versions' = versions \union {VersionRow(t, doc)}
        /\ bundles' = bundles
    BY EditEffect
  <1>2. DOMAIN bundles = 1 .. Len(bundles) /\ Len(bundles) \in Nat
    BY LenProperties DEF Tables, TablesTyped
  <1>3. documents[t].revision \in Nat
    BY DEF Tables, TablesTyped
  <1>4. TablesTyped'
    <2>1. doc \in [override : Doc, revision : Nat, bundle : 0 .. Len(bundles)]
      BY <1>2, <1>3
    <2>2. VersionRow(t, doc) \in Version
      BY <1>3 DEF VersionRow, Version
    <2> QED
      BY <1>1, <2>1, <2>2 DEF Tables, TablesTyped
  <1>5. DocumentsMatchBundle'
    BY <1>1 DEF Tables, TablesTyped, DocumentsMatchBundle
  <1>6. ComponentHistoryComplete'
    <2>1. \A c \in DOMAIN bundles : ComponentHistory(c)' = ComponentHistory(c)
      BY <1>1, <1>2 DEF ComponentHistory, VersionRow
    <2> QED
      BY <1>1, <2>1 DEF Tables, ComponentHistoryComplete
  <1>7. VersionsBehind'
    <2>1. \A u \in ConfigTypes : documents[u].revision <= documents'[u].revision
      BY <1>1, <1>3 DEF Tables, TablesTyped
    <2>2. ASSUME NEW v \in versions
          PROVE  v.revision <= documents'[v.type].revision /\ v.bundle <= Len(bundles')
      <3>1. /\ v.type \in ConfigTypes /\ v.revision \in Nat
            /\ v.revision <= documents[v.type].revision /\ v.bundle <= Len(bundles)
        BY DEF Tables, VersionsBehind, TablesTyped, Version
      <3>2. documents[v.type].revision \in Nat /\ documents'[v.type].revision \in Nat
        BY <3>1, <1>4 DEF Tables, TablesTyped
      <3> QED
        BY <1>1, <2>1, <3>1, <3>2
    <2>3. /\ VersionRow(t, doc).revision <= documents'[VersionRow(t, doc).type].revision
          /\ VersionRow(t, doc).bundle <= Len(bundles')
      BY <1>1, <1>2, <1>3 DEF VersionRow, Tables, TablesTyped
    <2> QED
      BY <1>1, <2>2, <2>3 DEF VersionsBehind
  <1>8. Grows
    BY <1>1, <1>2 DEF Grows
  <1> QED
    BY <1>4, <1>5, <1>6, <1>7, <1>8 DEF Tables

(* So does a new bundle,                                                   *)
LEMMA SaveKeepsTables ==
  ASSUME Settled, Tables, NEW os \in Docs, NEW s \in {"saved", "restored", "reset"},
         NEW p \in Preferences \union {Empty}, NEW source \in Nat,
         SaveBundle(os, s, p, source)
  PROVE  Tables' /\ Grows
  <1> DEFINE n == Len(bundles) + 1
             doc(t) == [override |-> os[t], revision |-> documents[t].revision + 1,
                        bundle |-> n]
             added == {VersionRow(t, doc(t)) : t \in ConfigTypes}
  <1>1. /\ documents' = [t \in ConfigTypes |-> doc(t)]
        /\ versions' = versions \union added
        /\ bundles' \in Seq(Bundle) /\ Len(bundles') = n
        /\ \A b \in DOMAIN bundles : bundles'[b] = bundles[b]
        /\ bundles'[n].compiled_overrides = os
        /\ bundles'[n].config_revision_map
             = [t \in ConfigTypes |-> documents[t].revision + 1]
    BY SaveBundleEffect
  <1>2. DOMAIN bundles = 1 .. Len(bundles) /\ Len(bundles) \in Nat
    BY LenProperties DEF Tables, TablesTyped
  <1>3. DOMAIN bundles' = 1 .. n
    BY <1>1, LenProperties
  <1>4. \A t \in ConfigTypes : documents[t].revision \in Nat /\ os[t] \in Doc
    BY DEF Tables, TablesTyped, Docs
  <1>5. \A v \in added : /\ v.type \in ConfigTypes /\ v.bundle = n
                         /\ v.revision = documents[v.type].revision + 1
                         /\ v.override = os[v.type]
    BY DEF VersionRow
  <1>6. \A t \in ConfigTypes :
          /\ {v \in added : v.type = t} = {VersionRow(t, doc(t))}
          /\ VersionRow(t, doc(t)) = [type |-> t, override |-> os[t], bundle |-> n,
                                      revision |-> documents[t].revision + 1]
    BY DEF VersionRow
  <1>7. TablesTyped'
    <2>1. documents' \in [ConfigTypes -> [override : Doc, revision : Nat,
                                          bundle : 0 .. n]]
      BY <1>1, <1>2, <1>4
    <2>2. added \subseteq Version
      BY <1>2, <1>4 DEF Version, VersionRow
    <2> HIDE DEF added, doc
    <2> QED
      BY <1>1, <2>1, <2>2 DEF Tables, TablesTyped
  <1>8. \A t \in ConfigTypes : /\ documents'[t].revision = documents[t].revision + 1
                               /\ documents'[t].bundle = n
                               /\ documents'[t].override = os[t]
    BY <1>1
  <1>9. DocumentsMatchBundle'
    BY <1>1, <1>4, <1>8 DEF DocumentsMatchBundle
  <1> HIDE DEF added, doc
  <1>10. \A v \in versions : v.bundle # n
    BY <1>2 DEF Tables, TablesTyped, VersionsBehind, Version
  <1>11. ComponentHistoryComplete'
    <2> SUFFICES ASSUME NEW b \in DOMAIN bundles', NEW t \in ConfigTypes
        PROVE  {v \in ComponentHistory(b)' : v.type = t} =
                 {[type |-> t, revision |-> bundles'[b].config_revision_map[t],
                   override |-> bundles'[b].compiled_overrides[t], bundle |-> b]}
      BY DEF ComponentHistoryComplete
    <2>1. CASE b = n
      <3>1. ComponentHistory(b)' = added
        BY <1>1, <1>5, <1>10, <2>1 DEF ComponentHistory
      <3>2. bundles'[b].config_revision_map[t] = documents[t].revision + 1
        BY <1>1, <2>1
      <3> QED
        BY <1>1, <1>6, <2>1, <3>1, <3>2
    <2>2. CASE b # n
      <3>1. b \in DOMAIN bundles
        BY <1>2, <1>3, <2>2
      <3>2. ComponentHistory(b)' = ComponentHistory(b)
        BY <1>1, <1>5, <2>2 DEF ComponentHistory
      <3> QED
        BY <1>1, <3>1, <3>2 DEF Tables, ComponentHistoryComplete
    <2> QED
      BY <2>1, <2>2
  <1>12. VersionsBehind'
    <2>1. ASSUME NEW v \in versions
          PROVE  v.revision <= documents'[v.type].revision /\ v.bundle <= Len(bundles')
      <3>1. /\ v.type \in ConfigTypes /\ v.revision \in Nat /\ v.bundle \in Nat
            /\ v.revision <= documents[v.type].revision /\ v.bundle <= Len(bundles)
        BY DEF Tables, VersionsBehind, TablesTyped, Version
      <3> QED
        BY <1>1, <1>2, <1>4, <1>8, <3>1
    <2>2. \A v \in added : v.revision <= documents'[v.type].revision /\ v.bundle <= Len(bundles')
      BY <1>1, <1>2, <1>4, <1>5, <1>8
    <2> QED
      BY <1>1, <2>1, <2>2 DEF VersionsBehind
  <1>13. Grows
    BY <1>1, <1>2, <1>3 DEF Grows
  <1> QED
    BY <1>7, <1>9, <1>11, <1>12, <1>13 DEF Tables

(* and a transaction that writes no settings.                              *)
LEMMA NoWriteKeepsTables ==
  ASSUME Tables, UNCHANGED <<documents, versions, bundles>>
  PROVE  Tables' /\ Grows
  <1>1. Len(bundles) \in Nat
    BY LenProperties DEF Tables, TablesTyped
  <1>2. TablesTyped' /\ DocumentsMatchBundle' /\ VersionsBehind'
    BY DEF Tables, TablesTyped, DocumentsMatchBundle, VersionsBehind
  <1>3. ComponentHistoryComplete'
    BY DEF Tables, ComponentHistoryComplete, ComponentHistory
  <1> QED
    BY <1>1, <1>2, <1>3 DEF Tables, Grows

-----------------------------------------------------------------------------

(* What clients know.  Reads that held go on holding as the bundles grow;  *)
(* a client's new page and request must hold by themselves.                *)
RequestHolds(r, bs) ==
  /\ r.at = "commit" => ReadHolds(r.loaded, bs)
  /\ r.at = "restore" => r.source \in DOMAIN bs

(* What clients know, one client at a time.                                *)
LEMMA ReadsSplit ==
  NumberedReads /\ SourcesExist <=>
    \A c \in Clients : ReadHolds(page[c], bundles) /\ RequestHolds(request[c], bundles)
  BY DEF NumberedReads, SourcesExist, ReadHolds, RequestHolds

(* What a client read goes on holding as bundles are added.                *)
LEMMA ReadsGrow ==
  ASSUME Grows, NEW c \in Clients,
         ReadHolds(page[c], bundles) /\ RequestHolds(request[c], bundles)
  PROVE  ReadHolds(page[c], bundles') /\ RequestHolds(request[c], bundles')
  BY DEF Grows, ReadHolds, RequestHolds

(* A step of one client's page and request.                                *)
LEMMA ReadsKept ==
  ASSUME Reads, Grows, NEW c \in Clients, NEW pg \in Loaded, NEW r \in Requests,
         page' = [page EXCEPT ![c] = pg], request' = [request EXCEPT ![c] = r],
         ReadHolds(pg, bundles'), RequestHolds(r, bundles')
  PROVE  Reads'
  <1>1. \A d \in Clients : ReadHolds(page[d], bundles') /\ RequestHolds(request[d], bundles')
    BY ReadsSplit, ReadsGrow DEF Reads
  <1>2. \A d \in Clients : /\ page'[d] = IF d = c THEN pg ELSE page[d]
                           /\ request'[d] = IF d = c THEN r ELSE request[d]
    BY DEF Reads, ClientsTyped
  <1>3. \A d \in Clients : ReadHolds(page'[d], bundles') /\ RequestHolds(request'[d], bundles')
    BY <1>1, <1>2
  <1>4. (NumberedReads /\ SourcesExist)'
    BY <1>3 DEF NumberedReads, SourcesExist, ReadHolds, RequestHolds
  <1>5. ClientsTyped'
    BY DEF Reads, ClientsTyped
  <1> QED
    BY <1>4, <1>5 DEF Reads

-----------------------------------------------------------------------------

(* The steps by what they touch: a client's page and request alone, or one *)
(* document.                                                               *)
LEMMA ReadStep ==
  ASSUME IInv, NEW c \in Clients, NEW pg \in Loaded, NEW r \in Requests,
         aliases' \subseteq Preferences,
         UNCHANGED <<defaults, documents, versions, bundles>>,
         page' = [page EXCEPT ![c] = pg], request' = [request EXCEPT ![c] = r],
         ReadHolds(pg, bundles), RequestHolds(r, bundles)
  PROVE  IInv'
  <1>1. Tables' /\ Grows
    BY NoWriteKeepsTables DEF IInv
  <1>2. ReadHolds(pg, bundles') /\ RequestHolds(r, bundles')
    OBVIOUS
  <1>3. Reads'
    BY <1>1, <1>2, ReadsKept DEF IInv
  <1>4. Settled'
    BY DEF IInv, Settled
  <1> QED
    BY <1>1, <1>3, <1>4 DEF IInv

(* A step of a client's request alone.                                     *)
LEMMA RequestStep ==
  ASSUME IInv, NEW c \in Clients, NEW r \in Requests,
         aliases' \subseteq Preferences,
         UNCHANGED <<defaults, documents, versions, bundles, page>>,
         SetRequest(c, r), RequestHolds(r, bundles)
  PROVE  IInv'
  <1>1. page[c] \in Loaded /\ page' = [page EXCEPT ![c] = page[c]]
    BY DEF IInv, Reads, ClientsTyped
  <1>2. ReadHolds(page[c], bundles)
    BY ReadsSplit DEF IInv, Reads
  <1>3. PICK pg \in Loaded : pg = page[c]
    BY <1>1
  <1>4. page' = [page EXCEPT ![c] = pg] /\ ReadHolds(pg, bundles)
    BY <1>1, <1>2, <1>3
  <1> QED
    BY <1>4, ReadStep DEF SetRequest

(* A step that edits one document, and ends its request if it had one.     *)
LEMMA EditStep ==
  ASSUME IInv, NEW c \in Clients, NEW t \in ConfigTypes, NEW o \in Doc,
         NEW b \in {0, documents[t].bundle}, Edit(t, o, b), UNCHANGED page,
         request' = request \/ request' = [request EXCEPT ![c] = Idle]
  PROVE  IInv'
  <1>1. Tables' /\ Grows
    BY EditKeepsTables DEF IInv
  <1>2. Settled'
    BY DEF Edit, IInv, Settled
  <1>3. PICK pg \in Loaded : pg = page[c]
    BY DEF IInv, Reads, ClientsTyped
  <1>4. PICK r \in Requests : /\ r = request[c] \/ r = Idle
                              /\ request' = [request EXCEPT ![c] = r]
    <2>1. CASE request' = request
      BY <2>1 DEF IInv, Reads, ClientsTyped
    <2>2. CASE request' = [request EXCEPT ![c] = Idle]
      BY <2>2, RequestKinds
    <2> QED
      BY <2>1, <2>2
  <1>5. page' = [page EXCEPT ![c] = pg]
    BY <1>3 DEF IInv, Reads, ClientsTyped
  <1>6. ReadHolds(page[c], bundles') /\ RequestHolds(request[c], bundles')
    BY <1>1, ReadsSplit, ReadsGrow DEF IInv, Reads
  <1>7. RequestHolds(Idle, bundles')
    BY DEF RequestHolds, Idle
  <1>8. ReadHolds(pg, bundles') /\ RequestHolds(r, bundles')
    BY <1>3, <1>4, <1>6, <1>7
  <1>9. Reads'
    BY <1>1, <1>4, <1>5, <1>8, ReadsKept DEF IInv
  <1> QED
    BY <1>1, <1>2, <1>9 DEF IInv

-----------------------------------------------------------------------------

(* A new user's settings satisfy the invariant.                            *)
LEMMA InitHolds == Init => IInv
  <1> SUFFICES ASSUME Init PROVE IInv
    OBVIOUS
  <1> DEFINE empty == [t \in ConfigTypes |-> Empty]
             first == [override |-> Empty, revision |-> 1, bundle |-> 1]
             seed == bundles[1]
  <1>1. /\ documents = [t \in ConfigTypes |-> first]
        /\ versions = {VersionRow(t, first) : t \in ConfigTypes}
        /\ defaults \in Releases /\ aliases = {}
        /\ page = [c \in Clients |-> [overrides |-> empty, revision |-> 1]]
        /\ request = [c \in Clients |-> Idle]
    BY DEF Init
  <1>2. empty \in Docs
    BY EmptyDoc DEF Docs
  <1>3. /\ bundles = <<seed>>
        /\ seed = [status |-> "default_seed", preferences |-> Empty,
                   compiled_overrides |-> empty, compiled_configs |-> empty,
                   config_revision_map |-> [t \in ConfigTypes |-> 1], restored_from |-> 0]
    BY DEF Init
  <1>4. seed \in Bundle
    BY <1>2, <1>3 DEF Bundle
  <1>5. /\ bundles \in Seq(Bundle) /\ Len(bundles) = 1 /\ DOMAIN bundles = {1}
        /\ \A t \in ConfigTypes : /\ seed.compiled_overrides[t] = Empty
                                  /\ seed.config_revision_map[t] = 1
    <2>1. \A t \in ConfigTypes : /\ seed.compiled_overrides[t] = Empty
                                 /\ seed.config_revision_map[t] = 1
      BY <1>3
    <2> HIDE DEF seed
    <2>2. bundles \in Seq(Bundle) /\ Len(bundles) = 1 /\ DOMAIN bundles = {1}
      BY <1>3, <1>4
    <2> QED
      BY <2>1, <2>2
  <1>6. \A v \in versions : /\ v.type \in ConfigTypes /\ v.revision = 1 /\ v.bundle = 1
                            /\ v.override = Empty
    BY <1>1 DEF VersionRow
  <1>7. TablesTyped
    <2>1. versions \subseteq Version
      BY <1>1, EmptyDoc DEF VersionRow, Version
    <2> QED
      BY <1>1, <1>5, <2>1, EmptyDoc DEF TablesTyped
  <1>8. DocumentsMatchBundle
    BY <1>1, <1>5 DEF DocumentsMatchBundle
  <1>9. ComponentHistoryComplete
    <2> DEFINE row(t) == [type |-> t, revision |-> 1, override |-> Empty, bundle |-> 1]
    <2>1. \A t \in ConfigTypes : VersionRow(t, first) = row(t)
      BY DEF VersionRow
    <2>2. ComponentHistory(1) = versions
      BY <1>6 DEF ComponentHistory
    <2>3. \A t \in ConfigTypes : row(t).type = t
      OBVIOUS
    <2> HIDE DEF row, first
    <2>4. versions = {row(t) : t \in ConfigTypes}
      BY <1>1, <2>1
    <2>5. \A t \in ConfigTypes : {v \in versions : v.type = t} = {row(t)}
      BY <2>3, <2>4
    <2>6. \A b \in DOMAIN bundles : \A t \in ConfigTypes :
            {v \in ComponentHistory(b) : v.type = t} = {row(t)}
      BY <1>5, <2>2, <2>5
    <2>7. \A b \in DOMAIN bundles : \A t \in ConfigTypes :
            row(t) = [type |-> t, revision |-> bundles[b].config_revision_map[t],
                      override |-> bundles[b].compiled_overrides[t], bundle |-> b]
      BY <1>5 DEF row
    <2> QED
      BY <2>6, <2>7 DEF ComponentHistoryComplete
  <1>10. VersionsBehind
    BY <1>1, <1>5, <1>6 DEF VersionsBehind
  <1>11. Reads
    <2>1. ClientsTyped
      BY <1>1, <1>2, RequestKinds DEF ClientsTyped, Loaded
    <2>2. empty = seed.compiled_overrides
      BY <1>3
    <2>3. NumberedReads /\ SourcesExist
      BY <1>1, <1>5, <2>2 DEF NumberedReads, SourcesExist, Idle
    <2> QED
      BY <2>1, <2>3 DEF Reads
  <1> QED
    BY <1>1, <1>7, <1>8, <1>9, <1>10, <1>11 DEF IInv, Settled, Tables

(* What a client may send is a set of revisions.                           *)
LEMMA AskedRevisions ==
  ASSUME IInv, NEW c \in Clients, NEW asked \in MaySend(c)
  PROVE  asked \in SUBSET Nat
  BY DEF MaySend, IInv, Reads, ClientsTyped, Loaded

(* What load_current returns satisfies what is said of reads.              *)
LEMMA LoadedNow ==
  ASSUME IInv
  PROVE  LoadCurrent \in Loaded /\ ReadHolds(LoadCurrent, bundles)
  BY LoadCurrentHolds DEF IInv

(* A request that has loaded the settings goes to its last transaction.    *)
LEMMA CommitStep ==
  ASSUME IInv, NEW c \in Clients, NEW asked \in SUBSET Nat, NEW os \in Docs,
         NEW s \in {"saved", "restored", "reset"},
         NEW p \in Preferences \union {Empty}, NEW b \in Nat,
         aliases' \subseteq Preferences,
         UNCHANGED <<defaults, documents, versions, bundles, page>>,
         SetRequest(c, Commit(asked, os, s, p, b))
  PROVE  IInv'
  <1>1. PICK r \in Requests : r = Commit(asked, os, s, p, b)
    BY LoadedNow, CommitRequest
  <1>2. r.at = "commit" /\ r.loaded = LoadCurrent
    BY <1>1, LoadedNow, CommitRequest
  <1>3. RequestHolds(r, bundles)
    BY <1>2, LoadedNow DEF RequestHolds
  <1> QED
    BY <1>1, <1>3, RequestStep DEF SetRequest

(* What is restored from a bundle has its types.                           *)
LEMMA RestoredDocs ==
  ASSUME IInv, NEW b \in DOMAIN bundles
  PROVE  /\ RestoreOverrides(b) \in Docs
         /\ bundles[b].preferences \in Preferences \union {Empty}
         /\ b \in Nat
  <1>1. bundles[b] \in Bundle /\ b \in Nat
    BY BundleFields DEF IInv, Tables
  <1>2. ASSUME NEW t \in ConfigTypes
        PROVE  (CHOOSE v \in ComponentHistory(b) : v.type = t).override \in Doc
    <2>1. \E v \in ComponentHistory(b) : v.type = t
      BY VersionOfBundle DEF ComponentHistory, IInv, Tables
    <2>2. ComponentHistory(b) \subseteq Version
      BY DEF ComponentHistory, IInv, Tables, TablesTyped
    <2> QED
      BY <2>1, <2>2 DEF Version
  <1>3. bundles[b].compiled_configs \in Docs
    BY <1>1 DEF Bundle
  <1>4. RestoreOverrides(b) \in Docs
    BY <1>2, <1>3 DEF RestoreOverrides, Docs
  <1> QED
    BY <1>1, <1>4 DEF Bundle

(* A request about to commit, with the types of what it will write.        *)
LEMMA CommitFields ==
  ASSUME IInv, NEW c \in Clients, SaveCommit(c)
  PROVE  /\ request[c].overrides \in Docs /\ request[c].loaded \in Loaded
         /\ request[c].status \in {"saved", "restored", "reset"}
         /\ request[c].preferences \in Preferences \union {Empty}
         /\ request[c].restored_from \in Nat
  <1>1. request[c] \in Requests /\ request[c].at = "commit"
    BY DEF SaveCommit, IInv, Reads, ClientsTyped
  <1> QED
    BY <1>1, RequestFields

(* save_bundle keeps the invariant.                                        *)
LEMMA SaveCommitStep ==
  ASSUME IInv, NEW c \in Clients, SaveCommit(c)
  PROVE  IInv'
  <1>1. PICK os \in Docs : os = request[c].overrides
    BY CommitFields
  <1>2. PICK s \in {"saved", "restored", "reset"} : s = request[c].status
    BY CommitFields
  <1>3. PICK p \in Preferences \union {Empty} : p = request[c].preferences
    BY CommitFields
  <1>4. PICK source \in Nat : source = request[c].restored_from
    BY CommitFields
  <1>5. SaveBundle(os, s, p, source)
    BY <1>1, <1>2, <1>3, <1>4 DEF SaveCommit
  <1> DEFINE n == Len(bundles) + 1
  <1>6. /\ bundles' \in Seq(Bundle) /\ Len(bundles') = n
        /\ bundles'[n].compiled_overrides = os
        /\ UNCHANGED <<defaults, aliases>>
    BY <1>5, SaveBundleEffect DEF IInv
  <1>7. Tables' /\ Grows
    BY <1>5, SaveKeepsTables DEF IInv
  <1>8. Settled'
    BY <1>6 DEF IInv, Settled
  <1>9. n \in Nat /\ n \in DOMAIN bundles'
    BY <1>6, LenProperties DEF IInv, Tables, TablesTyped
  <1>10. Reads'
    <2>1. CASE s = "saved"
      <3>1. PICK pg \in Loaded : pg = [overrides |-> os, revision |-> n]
        BY <1>9 DEF Loaded
      <3>2. PICK old \in Loaded : old = page[c]
        BY DEF IInv, Reads, ClientsTyped
      <3>3. PICK shown \in {old, pg} : page' = [page EXCEPT ![c] = shown]
        BY <1>1, <1>2, <2>1, <3>1, <3>2 DEF SaveCommit, NextRevision
      <3>4. request' = [request EXCEPT ![c] = Idle]
        BY <1>2, <2>1 DEF SaveCommit, SetRequest
      <3>5. ReadHolds(pg, bundles')
        BY <1>6, <1>9, <3>1 DEF ReadHolds
      <3>6. ReadHolds(old, bundles')
        BY <1>7, <3>2, ReadsSplit, ReadsGrow DEF IInv, Reads
      <3>7. shown \in Loaded /\ ReadHolds(shown, bundles')
        BY <3>3, <3>5, <3>6
      <3>8. Idle \in Requests /\ RequestHolds(Idle, bundles')
        BY RequestKinds DEF RequestHolds, Idle
      <3> QED
        BY <1>7, <3>3, <3>4, <3>7, <3>8, ReadsKept DEF IInv
    <2>2. CASE s # "saved"
      <3>1. PICK r \in Requests : r = [at |-> "reload"]
        BY RequestKinds
      <3>2. page' = page /\ request' = [request EXCEPT ![c] = r]
        BY <1>2, <2>2, <3>1 DEF SaveCommit, SetRequest
      <3>3. PICK pg \in Loaded : pg = page[c]
        BY DEF IInv, Reads, ClientsTyped
      <3>4. page' = [page EXCEPT ![c] = pg]
        BY <3>2, <3>3 DEF IInv, Reads, ClientsTyped
      <3>5. ReadHolds(pg, bundles')
        BY <1>7, <3>3, ReadsSplit, ReadsGrow DEF IInv, Reads
      <3>6. RequestHolds(r, bundles')
        BY <3>1 DEF RequestHolds
      <3> QED
        BY <1>7, <3>2, <3>4, <3>5, <3>6, ReadsKept DEF IInv
    <2> QED
      BY <2>1, <2>2
  <1> QED
    BY <1>7, <1>8, <1>10 DEF IInv

(* So does another release,                                                *)
LEMMA DeployStep ==
  ASSUME IInv, Deploy
  PROVE  IInv'
  <1>1. Tables' /\ Grows
    BY NoWriteKeepsTables DEF IInv, Deploy
  <1>2. Settled'
    BY DEF IInv, Settled, Deploy
  <1>3. /\ page' = page /\ bundles' = bundles /\ request' = [c \in Clients |-> Idle]
    BY DEF Deploy
  <1>4. ClientsTyped'
    BY <1>3, RequestKinds DEF IInv, Reads, ClientsTyped
  <1>5. (NumberedReads /\ SourcesExist)'
    BY <1>3 DEF IInv, Reads, NumberedReads, SourcesExist, Idle
  <1> QED
    BY <1>1, <1>2, <1>4, <1>5 DEF IInv, Reads

(* every step of the preferences endpoints,                                *)
LEMMA PreferenceStep ==
  ASSUME IInv, NEW c \in Clients, Preference(c)
  PROVE  IInv'
  <1>a. Idle \in Requests /\ RequestHolds(Idle, bundles)
    BY RequestKinds DEF RequestHolds, Idle
  <1>b. aliases \subseteq Preferences /\ defaults \in Releases
    BY DEF IInv, Settled
  <1>c. Empty \in Preferences \union {Empty} /\ 0 \in Nat
    OBVIOUS
  <1>1. CASE GetPreferences(c)
    <2>1. PICK pg \in Loaded : pg = LoadCurrent
      BY LoadedNow
    <2>2. page' = [page EXCEPT ![c] = pg] /\ ReadHolds(pg, bundles)
      BY <1>1, <2>1, LoadedNow DEF GetPreferences
    <2> QED
      BY <1>1, <1>a, <1>b, <2>2, ReadStep DEF GetPreferences, SetRequest, stored
  <1>2. ASSUME NEW asked \in MaySend(c), NEW p \in Preferences,
               PutPreferences(c, p, asked)
        PROVE  IInv'
    <2>1. Overrides \in Docs
      BY DEF Overrides, Docs, IInv, Tables, TablesTyped
    <2>2. PICK os \in Docs : os = Compiled(Overrides, p)
      BY <1>b, <2>1, CompiledDocs
    <2>3. SetRequest(c, Commit(asked, os, "saved", p, 0))
      BY <1>2, <2>2 DEF PutPreferences
    <2>4. aliases' \subseteq Preferences
      BY <1>2, <1>b DEF PutPreferences
    <2> QED
      BY <1>2, <1>c, <2>3, <2>4, AskedRevisions, CommitStep DEF PutPreferences
  <1>3. ASSUME NEW asked \in MaySend(c), ResetPreferences(c, asked)
        PROVE  IInv'
    <2>1. PICK os \in Docs : os = [t \in ConfigTypes |-> Empty]
      BY EmptyDoc DEF Docs
    <2>2. SetRequest(c, Commit(asked, os, "reset", Empty, 0))
      BY <1>3, <2>1 DEF ResetPreferences
    <2> QED
      BY <1>3, <1>b, <1>c, <2>2, AskedRevisions, CommitStep DEF ResetPreferences, stored
  <1>4. ASSUME NEW asked \in MaySend(c), NEW b \in DOMAIN bundles,
               RestorePreferences(c, b, asked)
        PROVE  IInv'
    <2>1. PICK r \in Requests : r = [at |-> "restore", asked |-> asked, source |-> b]
      BY AskedRevisions, RestoredDocs, RequestKinds
    <2>2. RequestHolds(r, bundles)
      BY <2>1 DEF RequestHolds
    <2> QED
      BY <1>4, <1>b, <2>1, <2>2, RequestStep DEF RestorePreferences, stored
  <1>5. CASE RestoreLoaded(c)
    <2>1. /\ request[c] \in Requests /\ request[c].at = "restore"
          /\ request[c].source \in DOMAIN bundles
      BY <1>5 DEF RestoreLoaded, IInv, Reads, ClientsTyped, SourcesExist
    <2>2. PICK b \in DOMAIN bundles : b = request[c].source
      BY <2>1
    <2>3. PICK asked \in SUBSET Nat : asked = request[c].asked
      BY <2>1, RequestFields
    <2>4. PICK os \in Docs, p \in Preferences \union {Empty} :
            os = RestoreOverrides(b) /\ p = bundles[b].preferences
      BY RestoredDocs
    <2>5. SetRequest(c, Commit(asked, os, "restored", p, b))
      BY <1>5, <2>2, <2>3, <2>4 DEF RestoreLoaded
    <2> QED
      BY <1>5, <1>b, <2>5, RestoredDocs, CommitStep DEF RestoreLoaded, stored
  <1>6. CASE SaveCommit(c)
    BY <1>6, SaveCommitStep
  <1>7. CASE Conflict(c) \/ RequestFails(c)
    BY <1>7, <1>a, <1>b, RequestStep DEF Conflict, RequestFails, stored
  <1> QED
    BY <1>1, <1>2, <1>3, <1>4, <1>5, <1>6, <1>7 DEF Preference

(* every step of the endpoints of one document, and direct updates,        *)
LEMMA SingleDocumentStep ==
  ASSUME IInv, NEW c \in Clients, SingleDocument(c)
  PROVE  IInv'
  <1>1. ASSUME NEW t \in ConfigTypes, NEW o \in Doc, Save(t, o), UNCHANGED <<page, request>>
        PROVE  IInv'
    BY <1>1, EditStep DEF Save
  <1>2. ASSUME NEW v \in versions, RestoreConfig(v)
        PROVE  IInv'
    <2>1. v.type \in ConfigTypes /\ v.override \in Doc
      BY DEF IInv, Tables, TablesTyped, Version
    <2> QED
      BY <1>1, <1>2, <2>1 DEF RestoreConfig
  <1>3. CASE ResetFieldSaved(c)
    <2>1. request[c] \in Requests /\ request[c].at = "field"
      BY <1>3 DEF ResetFieldSaved, IInv, Reads, ClientsTyped
    <2>2. PICK t \in ConfigTypes, o \in Doc : t = request[c].type /\ o = request[c].override
      BY <2>1, RequestFields
    <2> QED
      BY <1>3, <2>2, EditStep DEF ResetFieldSaved, Save, SetRequest
  <1>4. ASSUME NEW t \in ConfigTypes, ResetConfig(t)
        PROVE  IInv'
    BY <1>1, <1>4, EmptyDoc DEF ResetConfig
  <1>5. ASSUME NEW t \in ConfigTypes, NEW o \in Edits, UpdateConfig(t, o)
        PROVE  IInv'
    BY <1>1, <1>5, ConfigAssumption DEF UpdateConfig
  <1>6. ASSUME NEW t \in ConfigTypes, NEW o \in Edits, DirectUpdate(t, o)
        PROVE  IInv'
    <2>1. PICK b \in {0, documents[t].bundle} : b = documents[t].bundle
      OBVIOUS
    <2>2. Edit(t, o, b) /\ o \in Doc /\ UNCHANGED <<page, request>>
      BY <1>6, <2>1, ConfigAssumption DEF DirectUpdate
    <2> QED
      BY <2>2, EditStep
  <1>7. ASSUME NEW t \in ConfigTypes, NEW f \in Fields, ResetField(c, t, f)
        PROVE  IInv'
    <2>1. documents[t].override \in Doc
      BY DEF IInv, Tables, TablesTyped
    <2>2. PICK o \in Doc : o = Without(documents[t].override, f)
      BY <2>1, KeepDoc DEF Without
    <2>3. PICK r \in Requests : r = [at |-> "field", type |-> t, field |-> f, override |-> o]
      BY RequestKinds
    <2>4. RequestHolds(r, bundles)
      BY <2>3 DEF RequestHolds
    <2>5. aliases \subseteq Preferences
      BY DEF IInv, Settled
    <2> QED
      BY <1>7, <2>2, <2>3, <2>4, <2>5, RequestStep DEF ResetField, stored
  <1> QED
    BY <1>2, <1>3, <1>4, <1>5, <1>6, <1>7 DEF SingleDocument

(* and a step that changes nothing.                                        *)
LEMMA StutterStep ==
  ASSUME IInv, UNCHANGED vars
  PROVE  IInv'
  <1>1. Tables' /\ Grows
    BY NoWriteKeepsTables DEF IInv, vars
  <1>2. Settled' /\ ClientsTyped' /\ (NumberedReads /\ SourcesExist)'
    BY DEF IInv, Settled, Reads, ClientsTyped, NumberedReads, SourcesExist, vars
  <1> QED
    BY <1>1, <1>2 DEF IInv, Reads

(* Every step keeps the tables and what clients read of them in agreement. *)
THEOREM Invariance == Spec => []IInv
  <1>1. IInv /\ [Next]_vars => IInv'
    BY DeployStep, PreferenceStep, SingleDocumentStep, StutterStep DEF Next
  <1> QED
    BY InitHolds, <1>1, PTL DEF Spec

-----------------------------------------------------------------------------

(* Rows, pages and requests keep their types through every request, edit   *)
(* and deployment.                                                         *)
THEOREM TypeCorrect == Spec => []TypeOK
  <1>1. IInv => TypeOK
    BY DEF IInv, Settled, Tables, TablesTyped, Reads, ClientsTyped, TypeOK
  <1> QED
    BY Invariance, <1>1, PTL

(* A document that claims a bundle is what the bundle says of it, whatever *)
(* the endpoints of one document and direct updates do meanwhile.          *)
THEOREM DocumentsMatch == Spec => []DocumentsMatchBundle
  <1>1. IInv => DocumentsMatchBundle
    BY DEF IInv, Tables
  <1> QED
    BY Invariance, <1>1, PTL

(* A bundle has one version row per type, with its revisions and overrides.*)
THEOREM HistoriesComplete == Spec => []ComponentHistoryComplete
  <1>1. IInv => ComponentHistoryComplete
    BY DEF IInv, Tables
  <1> QED
    BY Invariance, <1>1, PTL

(* What was read under a revision is that revision.                        *)
THEOREM ReadsNumbered == Spec => []NumberedReads
  <1>1. IInv => NumberedReads
    BY DEF IInv, Reads
  <1> QED
    BY Invariance, <1>1, PTL

-----------------------------------------------------------------------------

(* The settings of a numbered revision are the bundle's.                   *)
LEMMA CurrentIsBundle ==
  ASSUME IInv, CoherentRevision # 0
  PROVE  Overrides = bundles[CoherentRevision].compiled_overrides
  BY LoadedNow DEF LoadCurrent, ReadHolds

(* A request that sent a revision loaded the settings under it, and its    *)
(* page still shows that revision: a page moves on with the answer only.   *)
AskedHolds(r, pg) ==
  r.at = "commit" /\ r.status # "restored" /\ r.asked # {} =>
    r.loaded.revision = pg.revision /\ pg.revision # 0

Asked == \A c \in Clients : AskedHolds(request[c], page[c])

(* At first nobody has asked.                                              *)
LEMMA AskedInit == Init => Asked
  BY DEF Init, Asked, AskedHolds, Idle

(* Clients with no request about to commit are out of the question.        *)
LEMMA AskedOthers ==
  ASSUME IInv, Asked, NEW c \in Clients, NEW pg, NEW r,
         page' = page \/ page' = [page EXCEPT ![c] = pg],
         request' = [request EXCEPT ![c] = r], r.at # "commit"
  PROVE  Asked'
  <1>1. \A d \in Clients \ {c} : page'[d] = page[d] /\ request'[d] = request[d]
    BY DEF IInv, Reads, ClientsTyped
  <1>2. request'[c].at # "commit"
    BY DEF IInv, Reads, ClientsTyped
  <1> QED
    BY <1>1, <1>2 DEF Asked, AskedHolds

(* A request that has compared what it was sent with what it loaded.       *)
LEMMA AskedCommit ==
  ASSUME IInv, Asked, NEW c \in Clients, NEW asked \in MaySend(c), Expected(asked),
         NEW os \in Docs, NEW s \in {"saved", "reset"},
         NEW p \in Preferences \union {Empty}, page' = page,
         SetRequest(c, Commit(asked, os, s, p, 0))
  PROVE  Asked'
  <1>1. PICK r : r = Commit(asked, os, s, p, 0)
    OBVIOUS
  <1>2. r.asked = asked /\ r.loaded.revision = CoherentRevision
    BY <1>1 DEF Commit, LoadCurrent
  <1>3. AskedHolds(r, page[c])
    BY <1>2 DEF AskedHolds, MaySend, Expected
  <1>4. \A d \in Clients : request'[d] = IF d = c THEN r ELSE request[d]
    BY <1>1 DEF SetRequest, IInv, Reads, ClientsTyped
  <1> QED
    BY <1>3, <1>4 DEF Asked

(* Every step keeps what is said of the revisions sent.                    *)
LEMMA AskedStep == IInv /\ Asked /\ [Next]_vars => Asked'
  <1> SUFFICES ASSUME IInv, Asked, [Next]_vars PROVE Asked'
    OBVIOUS
  <1>1. CASE Deploy
    BY <1>1 DEF Deploy, Asked, AskedHolds, Idle
  <1>2. ASSUME NEW c \in Clients, Preference(c) PROVE Asked'
    <2>1. CASE GetPreferences(c)
      <3>1. PICK pg, r : pg = LoadCurrent /\ r = Idle
        OBVIOUS
      <3>2. r.at # "commit"
        BY <3>1 DEF Idle
      <3> QED
        BY <2>1, <3>1, <3>2, AskedOthers DEF GetPreferences, SetRequest
    <2>2. ASSUME NEW asked \in MaySend(c), NEW p \in Preferences,
                 PutPreferences(c, p, asked)
          PROVE  Asked'
      <3>1. Overrides \in Docs /\ defaults \in Releases
        BY DEF Overrides, Docs, IInv, Settled, Tables, TablesTyped
      <3>2. PICK os \in Docs : os = Compiled(Overrides, p)
        BY <3>1, CompiledDocs
      <3>3. SetRequest(c, Commit(asked, os, "saved", p, 0)) /\ page' = page /\ Expected(asked)
        BY <2>2, <3>2 DEF PutPreferences
      <3> QED
        BY <3>3, AskedCommit
    <2>3. ASSUME NEW asked \in MaySend(c), ResetPreferences(c, asked) PROVE Asked'
      <3>1. PICK os \in Docs : os = [t \in ConfigTypes |-> Empty]
        BY EmptyDoc DEF Docs
      <3>2. SetRequest(c, Commit(asked, os, "reset", Empty, 0)) /\ page' = page /\ Expected(asked)
        BY <2>3, <3>1 DEF ResetPreferences
      <3> QED
        BY <3>2, AskedCommit
    <2>4. ASSUME NEW asked \in MaySend(c), NEW b \in DOMAIN bundles,
                 RestorePreferences(c, b, asked)
          PROVE  Asked'
      <3>1. PICK r : r = [at |-> "restore", asked |-> asked, source |-> b]
        OBVIOUS
      <3>2. r.at # "commit"
        BY <3>1
      <3> QED
        BY <2>4, <3>1, <3>2, AskedOthers DEF RestorePreferences, SetRequest
    <2>5. CASE RestoreLoaded(c)
      <3>1. PICK r : /\ r.status = "restored"
                     /\ request' = [request EXCEPT ![c] = r] /\ page' = page
        BY <2>5 DEF RestoreLoaded, SetRequest, Commit
      <3>2. \A d \in Clients : request'[d] = IF d = c THEN r ELSE request[d]
        BY <3>1 DEF IInv, Reads, ClientsTyped
      <3> QED
        BY <3>1, <3>2 DEF Asked, AskedHolds
    <2>6. CASE SaveCommit(c)
      <3>1. PICK pg, r : /\ page' = page \/ page' = [page EXCEPT ![c] = pg]
                         /\ request' = [request EXCEPT ![c] = r]
                         /\ r = Idle \/ r = [at |-> "reload"]
        BY <2>6 DEF SaveCommit, SetRequest
      <3>2. r.at # "commit"
        BY <3>1 DEF Idle
      <3> QED
        BY <3>1, <3>2, AskedOthers
    <2>7. CASE Conflict(c) \/ RequestFails(c)
      <3>1. PICK r : r = Idle
        OBVIOUS
      <3>2. r.at # "commit"
        BY <3>1 DEF Idle
      <3> QED
        BY <2>7, <3>1, <3>2, AskedOthers DEF Conflict, RequestFails, SetRequest
    <2> QED
      BY <1>2, <2>1, <2>2, <2>3, <2>4, <2>5, <2>6, <2>7 DEF Preference
  <1>3. ASSUME NEW c \in Clients, SingleDocument(c) PROVE Asked'
    <2>1. CASE UNCHANGED <<page, request>>
      BY <2>1 DEF Asked, AskedHolds
    <2>2. CASE ResetFieldSaved(c)
      <3>1. PICK r : r = Idle
        OBVIOUS
      <3>2. r.at # "commit"
        BY <3>1 DEF Idle
      <3> QED
        BY <2>2, <3>1, <3>2, AskedOthers DEF ResetFieldSaved, SetRequest
    <2>3. ASSUME NEW t \in ConfigTypes, NEW f \in Fields, ResetField(c, t, f) PROVE Asked'
      <3>1. PICK r : /\ r.at # "commit"
                     /\ request' = [request EXCEPT ![c] = r] /\ page' = page
        BY <2>3 DEF ResetField, SetRequest
      <3> QED
        BY <3>1, AskedOthers
    <2> QED
      BY <1>3, <2>1, <2>2, <2>3
      DEF SingleDocument, RestoreConfig, ResetConfig, UpdateConfig, DirectUpdate
  <1>4. CASE UNCHANGED vars
    BY <1>4 DEF vars, Asked, AskedHolds
  <1> QED
    BY <1>1, <1>2, <1>3, <1>4 DEF Next

(* A save that had loaded a numbered revision replaces exactly what it had *)
(* loaded and what the page whose revision it sent shows, whatever other   *)
(* clients do between the load and the save.                               *)
THEOREM SavesReplaceWhatTheyRead == Spec => SaveReplacesWhatItRead
  <1>1. ASSUME IInv, Asked, NEW c \in Clients, SaveCommit(c),
               request[c].loaded.revision # 0
        PROVE  /\ Overrides = request[c].loaded.overrides
               /\ request[c].asked # {} /\ request[c].status # "restored" =>
                    Overrides = page[c].overrides
    <2>1. /\ request[c].at = "commit"
          /\ request[c].loaded.revision = CoherentRevision
      BY <1>1 DEF SaveCommit, Unchanged
    <2>2. ReadHolds(page[c], bundles) /\ ReadHolds(request[c].loaded, bundles)
      BY <1>1, <2>1, ReadsSplit DEF IInv, Reads, RequestHolds
    <2>3. AskedHolds(request[c], page[c])
      BY <1>1 DEF Asked
    <2>4. Overrides = bundles[CoherentRevision].compiled_overrides
      BY <1>1, <2>1, CurrentIsBundle
    <2> QED
      BY <1>1, <2>1, <2>2, <2>3, <2>4 DEF ReadHolds, AskedHolds
  <1>2. IInv /\ Asked => [\A c \in Clients : LET r == request[c] IN
          SaveCommit(c) /\ r.loaded.revision # 0 =>
            /\ Overrides = r.loaded.overrides
            /\ r.asked # {} /\ r.status # "restored" => Overrides = page[c].overrides]_vars
    BY <1>1
  <1>3. Spec => []Asked
    BY Invariance, AskedInit, AskedStep, PTL DEF Spec
  <1> QED
    BY Invariance, <1>2, <1>3, PTL DEF SaveReplacesWhatItRead

-----------------------------------------------------------------------------

(* The register *)

(* A new user's settings are a register with its first number.             *)
LEMMA RegisterInit == Init => Register!Init
  <1> SUFFICES ASSUME Init PROVE Register!Init
    OBVIOUS
  <1> DEFINE empty == [t \in ConfigTypes |-> Empty]
  <1>1. /\ \A t \in ConfigTypes : documents[t].override = Empty /\ documents[t].bundle = 1
        /\ \E b : bundles = <<b>> /\ b.compiled_overrides = empty
    BY DEF Init
  <1>2. Overrides = empty /\ empty \in [ConfigTypes -> Doc]
    BY <1>1, EmptyDoc DEF Overrides
  <1>3. CoherentRevision = 1
    BY <1>1, Coherence DEF CoherenceHolds
  <1>4. [b \in DOMAIN bundles |-> bundles[b].compiled_overrides] = <<empty>>
    BY <1>1
  <1> QED
    BY <1>2, <1>3, <1>4 DEF Register!Init, Register!Settings

(* An edit of one document takes the settings out of every bundle.         *)
LEMMA EditRefines ==
  ASSUME IInv, NEW t \in ConfigTypes, NEW o \in Doc,
         NEW b \in {0, documents[t].bundle}, Edit(t, o, b)
  PROVE  Register!Edit(t)
  <1> DEFINE doc == [override |-> o, revision |-> documents[t].revision + 1, bundle |-> 0]
  <1>1. documents' = [documents EXCEPT ![t] = doc] /\ bundles' = bundles
    BY EditEffect DEF IInv
  <1>2. \A u \in ConfigTypes : documents'[u] = IF u = t THEN doc ELSE documents[u]
    BY <1>1 DEF IInv, Tables, TablesTyped
  <1>3. Overrides' = [Overrides EXCEPT ![t] = o]
    <2>1. Overrides' = [u \in ConfigTypes |-> documents'[u].override]
      BY DEF Overrides
    <2>2. \A u \in ConfigTypes :
            documents'[u].override = IF u = t THEN o ELSE documents[u].override
      BY <1>2
    <2> QED
      BY <2>1, <2>2 DEF Overrides
  <1>4. CoherenceHolds'
    BY Coherence, PTL
  <1>5. CoherentRevision' # 0 => documents'[t].bundle = CoherentRevision'
    BY <1>4 DEF CoherenceHolds
  <1>6. CoherentRevision' = 0
    BY <1>2, <1>5
  <1> QED
    BY <1>1, <1>3, <1>6 DEF Register!Edit

(* A new bundle replaces the settings and numbers them.                    *)
LEMMA SaveRefines ==
  ASSUME IInv, NEW c \in Clients, SaveCommit(c)
  PROVE  Register!Replace
  <1>1. PICK os \in Docs : os = request[c].overrides
    BY CommitFields
  <1>2. PICK s \in {"saved", "restored", "reset"} : s = request[c].status
    BY CommitFields
  <1>3. PICK p \in Preferences \union {Empty} : p = request[c].preferences
    BY CommitFields
  <1>4. PICK source \in Nat : source = request[c].restored_from
    BY CommitFields
  <1>5. SaveBundle(os, s, p, source)
    BY <1>1, <1>2, <1>3, <1>4 DEF SaveCommit
  <1> DEFINE n == Len(bundles) + 1
             named(bs) == [b \in DOMAIN bs |-> bs[b].compiled_overrides]
  <1>6. /\ \A t \in ConfigTypes : documents'[t].override = os[t] /\ documents'[t].bundle = n
        /\ bundles' \in Seq(Bundle) /\ Len(bundles') = n
        /\ \A b \in DOMAIN bundles : bundles'[b] = bundles[b]
        /\ bundles'[n].compiled_overrides = os
    <2>1. /\ documents' = [t \in ConfigTypes |-> [override |-> os[t],
                             revision |-> documents[t].revision + 1, bundle |-> n]]
          /\ bundles' \in Seq(Bundle) /\ Len(bundles') = n
          /\ \A b \in DOMAIN bundles : bundles'[b] = bundles[b]
          /\ bundles'[n].compiled_overrides = os
      BY <1>5, SaveBundleEffect DEF IInv
    <2> QED
      BY <2>1
  <1>7. Overrides' = os
    BY <1>6 DEF Overrides, Docs
  <1>8. CoherentRevision' = n
    <2>1. CoherenceHolds'
      BY Coherence, PTL
    <2> QED
      BY <1>6, <2>1 DEF CoherenceHolds
  <1>9. /\ DOMAIN bundles = 1 .. Len(bundles) /\ Len(bundles) \in Nat
        /\ DOMAIN bundles' = 1 .. n
    BY <1>6, LenProperties DEF IInv, Tables, TablesTyped
  <1>10. named(bundles) \in Seq(Docs) /\ Len(named(bundles)) = Len(bundles)
    BY <1>9, BundleFields DEF IInv, Tables, Bundle
  <1>11. named(bundles') = Append(named(bundles), os)
    BY <1>6, <1>9, <1>10
  <1>12. Len(named(bundles')) = n
    BY <1>10, <1>11
  <1> QED
    BY <1>7, <1>8, <1>11, <1>12 DEF Register!Replace, Register!Settings, Docs

(* What writes no settings leaves the register alone.                      *)
LEMMA OthersStutter ==
  ASSUME UNCHANGED <<documents, bundles>>
  PROVE  UNCHANGED Register!rvars
  BY DEF Register!rvars, Overrides, CoherentRevision

(* Every step is a step of the register or leaves it alone.                *)
LEMMA StepRefines == IInv /\ [Next]_vars => [Register!Next]_(Register!rvars)
  <1> SUFFICES ASSUME IInv, [Next]_vars PROVE [Register!Next]_(Register!rvars)
    OBVIOUS
  <1>1. CASE UNCHANGED <<documents, bundles>>
    BY <1>1, OthersStutter
  <1>2. ASSUME NEW c \in Clients, SaveCommit(c) PROVE Register!Next
    BY <1>2, SaveRefines DEF Register!Next
  <1>3. ASSUME NEW t \in ConfigTypes, NEW o \in Doc,
               NEW b \in {0, documents[t].bundle}, Edit(t, o, b)
        PROVE  Register!Next
    BY <1>3, EditRefines DEF Register!Next
  <1>4. ASSUME NEW c \in Clients, SingleDocument(c)
        PROVE  UNCHANGED <<documents, bundles>> \/ Register!Next
    <2>1. ASSUME NEW v \in versions, RestoreConfig(v) PROVE Register!Next
      <3>1. v.type \in ConfigTypes /\ v.override \in Doc
        BY DEF IInv, Tables, TablesTyped, Version
      <3> QED
        BY <1>3, <2>1, <3>1 DEF RestoreConfig, Save
    <2>2. CASE ResetFieldSaved(c)
      <3>1. request[c] \in Requests /\ request[c].at = "field"
        BY <2>2 DEF ResetFieldSaved, IInv, Reads, ClientsTyped
      <3>2. request[c].type \in ConfigTypes /\ request[c].override \in Doc
        BY <3>1, RequestFields
      <3> QED
        BY <1>3, <2>2, <3>2 DEF ResetFieldSaved, Save
    <2>3. ASSUME NEW t \in ConfigTypes, ResetConfig(t) PROVE Register!Next
      BY <1>3, <2>3, EmptyDoc DEF ResetConfig, Save
    <2>4. ASSUME NEW t \in ConfigTypes, NEW o \in Edits,
                 UpdateConfig(t, o) \/ DirectUpdate(t, o)
          PROVE  Register!Next
      BY <1>3, <2>4, ConfigAssumption DEF UpdateConfig, DirectUpdate, Save
    <2>5. ASSUME NEW t \in ConfigTypes, NEW f \in Fields, ResetField(c, t, f)
          PROVE  UNCHANGED <<documents, bundles>>
      BY <2>5 DEF ResetField, stored
    <2> QED
      BY <1>4, <2>1, <2>2, <2>3, <2>4, <2>5 DEF SingleDocument
  <1>5. ASSUME NEW c \in Clients, Preference(c)
        PROVE  UNCHANGED <<documents, bundles>> \/ SaveCommit(c)
    BY <1>5 DEF Preference, GetPreferences, PutPreferences, ResetPreferences,
                RestorePreferences, RestoreLoaded, Conflict, RequestFails, stored
  <1>6. UNCHANGED <<documents, bundles>> \/ Register!Next
    BY <1>2, <1>4, <1>5 DEF Next, Deploy, vars
  <1> QED
    BY <1>1, <1>6

(* Behind the tables, triggers and several-transaction requests there is   *)
(* one register: replaced as a whole under a new number, or edited and     *)
(* without one.  No step loses a part of a save or reuses a number.        *)
THEOREM RegisterImplemented == Spec => ImplementsRegister
  <1>1. Spec => Register!Init /\ [][Register!Next]_(Register!rvars)
    BY Invariance, RegisterInit, StepRefines, PTL DEF Spec
  <1> QED
    BY <1>1 DEF ImplementsRegister, Register!Spec

-----------------------------------------------------------------------------
(* What the bundles keep: the preferences a save was made of, and the      *)
(* settings a restore was made of.  This needs more than the tables: a     *)
(* request that has compiled or loaded something must still carry it, for  *)
(* the same defaults, when it commits.                                     *)

(* What is to be shown of one bundle, and of a request about to add one;   *)
(* ds, as and bs are the defaults, the aliases and the bundles.            *)
Applied(got, asked) == \A t \in ConfigTypes : Keep(got[t], DOMAIN asked[t]) = asked[t]

BundleKept(b, as, bs) ==
  /\ bs[b].preferences # Empty => bs[b].preferences \in as
  /\ bs[b].status = "saved" => Applied(bs[b].compiled_configs, bs[b].preferences)
  /\ bs[b].restored_from # 0 =>
       LET s == bs[b].restored_from IN
       /\ s \in DOMAIN bs
       /\ bs[s].status # "default_seed" =>
            Applied(bs[b].compiled_configs, bs[s].compiled_configs)

Merged(ds, os) == [t \in ConfigTypes |-> Merge(ds[t], os[t])]

PendingKept(r, ds, as, bs) ==
  r.at = "commit" =>
    /\ r.preferences # Empty => r.preferences \in as
    /\ r.status = "saved" => Applied(Merged(ds, r.overrides), r.preferences)
    /\ r.restored_from # 0 =>
         /\ r.restored_from \in DOMAIN bs
         /\ bs[r.restored_from].status # "default_seed" =>
              r.overrides = bs[r.restored_from].compiled_configs

Kept ==
  /\ \A b \in DOMAIN bundles : BundleKept(b, aliases, bundles)
  /\ \A c \in Clients : PendingKept(request[c], defaults, aliases, bundles)

-----------------------------------------------------------------------------

(* Documents *)

(* The override wins over any defaults.                                    *)
LEMMA OverrideWins ==
  ASSUME NEW d \in Doc, NEW o \in Doc
  PROVE  Keep(Merge(d, o), DOMAIN o) = o
  <1>1. DOMAIN Keep(Merge(d, o), DOMAIN o) = DOMAIN o
    BY DEF Keep, Merge
  <1>2. \A f \in DOMAIN o : Keep(Merge(d, o), DOMAIN o)[f] = o[f]
    BY DEF Keep, Merge
  <1>3. Keep(Merge(d, o), DOMAIN o) = [f \in DOMAIN o |-> Keep(Merge(d, o), DOMAIN o)[f]]
    BY <1>1 DEF Keep
  <1>4. o = [f \in DOMAIN o |-> o[f]]
    BY DocFunction
  <1> QED
    BY <1>2, <1>3, <1>4

(* What compile stores, merged with the defaults it was compiled for, has  *)
(* every setting of the payload.                                           *)
LEMMA CompiledApplies ==
  ASSUME defaults \in Releases, NEW os \in Docs, NEW p \in Preferences
  PROVE  Applied(Merged(defaults, Compiled(os, p)), p)
  <1> SUFFICES ASSUME NEW t \in ConfigTypes
      PROVE  Keep(Merge(defaults[t], Compiled(os, p)[t]), DOMAIN p[t]) = p[t]
    BY DEF Applied, Merged
  <1> DEFINE d == defaults[t]
             base == IF t \in BuiltOnCurrent THEN Effective(os)[t] ELSE d
             e == Merge(base, p[t])
  <1>1. d \in Doc /\ os[t] \in Doc /\ p[t] \in Doc
    BY ConfigAssumption DEF Docs
  <1>2. Effective(os)[t] = Merge(d, os[t])
    BY DEF Effective
  <1>3. base \in Doc /\ DOMAIN d \subseteq DOMAIN base
    <2>1. CASE t \in BuiltOnCurrent
      BY <1>1, <1>2, <2>1, MergeDoc DEF Merge
    <2>2. CASE t \notin BuiltOnCurrent
      BY <1>1, <2>2
    <2> QED
      BY <2>1, <2>2
  <1>4. Compiled(os, p)[t] = SparseOverride(d, e)
    BY DEF Compiled
  <1> HIDE DEF d, base
  <1>5. e \in Doc /\ DOMAIN d \subseteq DOMAIN e
    BY <1>1, <1>3, MergeDoc DEF Merge
  <1>6. Keep(e, DOMAIN p[t]) = p[t]
    BY <1>1, <1>3, OverrideWins
  <1> HIDE DEF e
  <1>7. Merge(d, SparseOverride(d, e)) = e
    BY <1>1, <1>5, SparseRoundTrip
  <1> QED
    BY <1>4, <1>6, <1>7 DEF d

-----------------------------------------------------------------------------

(* Bundles and requests while bundles and aliases are only added           *)

(* What is shown of a bundle stays true as bundles and aliases are added,  *)
LEMMA BundleGrows ==
  ASSUME Grows, aliases \subseteq aliases', NEW b \in DOMAIN bundles,
         BundleKept(b, aliases, bundles)
  PROVE  BundleKept(b, aliases', bundles')
  BY DEF Grows, BundleKept

(* and so does what is shown of a request.                                 *)
LEMMA PendingGrows ==
  ASSUME Grows, aliases \subseteq aliases', NEW r, PendingKept(r, defaults, aliases, bundles)
  PROVE  PendingKept(r, defaults, aliases', bundles')
  BY DEF Grows, PendingKept

(* A step of one client that adds no bundle.                               *)
LEMMA KeptStep ==
  ASSUME IInv, Kept, NEW c \in Clients, NEW r,
         request' = [request EXCEPT ![c] = r],
         aliases \subseteq aliases', defaults' = defaults, bundles' = bundles,
         PendingKept(r, defaults, aliases', bundles)
  PROVE  Kept'
  <1>1. Grows
    BY LenProperties DEF Grows, IInv, Tables, TablesTyped
  <1>2. \A b \in DOMAIN bundles' : BundleKept(b, aliases', bundles')
    BY <1>1, BundleGrows DEF Kept
  <1>3. \A d \in Clients : PendingKept(request[d], defaults, aliases', bundles')
    BY <1>1, PendingGrows DEF Kept
  <1>4. \A d \in Clients : request'[d] = IF d = c THEN r ELSE request[d]
    BY DEF IInv, Reads, ClientsTyped
  <1>5. \A d \in Clients : PendingKept(request'[d], defaults', aliases', bundles')
    BY <1>3, <1>4
  <1> QED
    BY <1>2, <1>5 DEF Kept

(* A step that ends a request, or leaves it short of its last transaction. *)
LEMMA KeptIdle ==
  ASSUME IInv, Kept, NEW c \in Clients, NEW r,
         request' = [request EXCEPT ![c] = r], r.at # "commit",
         aliases' = aliases, defaults' = defaults, bundles' = bundles
  PROVE  Kept'
  <1>1. PendingKept(r, defaults, aliases', bundles)
    BY DEF PendingKept
  <1> QED
    BY <1>1, KeptStep

(* A step that touches no request, default, alias or bundle.               *)
LEMMA KeptStill ==
  ASSUME Kept, UNCHANGED <<request, defaults, aliases, bundles>>
  PROVE  Kept'
  BY DEF Kept

(* save_bundle adds what its request carried.                              *)
LEMMA KeptSave ==
  ASSUME IInv, Kept, NEW c \in Clients, SaveCommit(c)
  PROVE  Kept'
  <1> DEFINE n == Len(bundles) + 1
             q == request[c]
  <1>1. /\ q.overrides \in Docs /\ q.loaded \in Loaded
        /\ q.status \in {"saved", "restored", "reset"}
        /\ q.preferences \in Preferences \union {Empty} /\ q.restored_from \in Nat
    BY CommitFields
  <1>2. PICK os \in Docs, s \in {"saved", "restored", "reset"},
             p \in Preferences \union {Empty}, source \in Nat :
          os = q.overrides /\ s = q.status /\ p = q.preferences /\ source = q.restored_from
    BY <1>1
  <1>3. SaveBundle(os, s, p, source) /\ q.at = "commit"
    BY <1>2 DEF SaveCommit
  <1>4. Grows
    BY <1>3, SaveKeepsTables DEF IInv
  <1>5. /\ bundles' \in Seq(Bundle) /\ Len(bundles') = n
        /\ \A b \in DOMAIN bundles : bundles'[b] = bundles[b]
        /\ UNCHANGED <<defaults, aliases>>
    BY <1>3, SaveBundleEffect DEF IInv
  <1>6. /\ bundles'[n].status = s /\ bundles'[n].preferences = p
        /\ bundles'[n].compiled_configs = Merged(defaults, os)
        /\ bundles'[n].restored_from = source
    <2>1. bundles \in Seq(Bundle) /\ Len(bundles) \in Nat
      BY LenProperties DEF IInv, Tables, TablesTyped
    <2>2. PICK row : /\ bundles' = Append(bundles, row)
                     /\ row.status = s /\ row.preferences = p
                     /\ row.compiled_configs = Effective(os)
                     /\ row.restored_from = source
      BY <1>3 DEF SaveBundle
    <2>3. bundles'[n] = row
      BY <2>1, <2>2
    <2>4. Effective(os) = Merged(defaults, os)
      BY DEF Effective, Merged
    <2> QED
      BY <2>2, <2>3, <2>4
  <1>7. DOMAIN bundles = 1 .. Len(bundles) /\ DOMAIN bundles' = 1 .. n /\ Len(bundles) \in Nat
    BY <1>5, LenProperties DEF IInv, Tables, TablesTyped
  <1>8. PendingKept(q, defaults, aliases, bundles)
    BY DEF Kept
  <1>9. BundleKept(n, aliases', bundles')
    <2>1. p # Empty => p \in aliases'
      BY <1>2, <1>3, <1>5, <1>8 DEF PendingKept
    <2>2. s = "saved" => Applied(Merged(defaults, os), p)
      BY <1>2, <1>3, <1>8 DEF PendingKept
    <2>3. ASSUME source # 0
          PROVE  /\ source \in DOMAIN bundles' /\ bundles'[source] = bundles[source]
                 /\ bundles[source].status # "default_seed" =>
                      Applied(Merged(defaults, os), bundles[source].compiled_configs)
      <3>1. /\ source \in DOMAIN bundles
            /\ bundles[source].status # "default_seed" =>
                 os = bundles[source].compiled_configs
        BY <1>2, <1>3, <1>8, <2>3 DEF PendingKept
      <3>2. defaults \in Docs
        BY ConfigAssumption DEF IInv, Settled
      <3>3. Applied(Merged(defaults, os), os)
        BY <3>2, OverrideWins DEF Applied, Merged, Docs
      <3> QED
        BY <1>5, <1>7, <3>1, <3>3
    <2> QED
      BY <1>6, <2>1, <2>2, <2>3 DEF BundleKept
  <1>10. \A b \in DOMAIN bundles' : BundleKept(b, aliases', bundles')
    <2>1. \A b \in DOMAIN bundles : BundleKept(b, aliases', bundles')
      BY <1>4, <1>5, BundleGrows DEF Kept
    <2> QED
      BY <1>7, <1>9, <2>1
  <1>11. \A d \in Clients : PendingKept(request'[d], defaults', aliases', bundles')
    <2>1. \A d \in Clients : PendingKept(request[d], defaults, aliases', bundles')
      BY <1>4, <1>5, PendingGrows DEF Kept
    <2>2. \A d \in Clients : request'[d] = request[d] \/ request'[d].at # "commit"
      BY DEF SaveCommit, SetRequest, Idle, IInv, Reads, ClientsTyped
    <2> QED
      BY <1>5, <2>1, <2>2 DEF PendingKept
  <1> QED
    BY <1>10, <1>11 DEF Kept

-----------------------------------------------------------------------------

(* The seed bundle has no preferences and restores nothing.                *)
LEMMA KeptInit == Init => Kept
  <1> SUFFICES ASSUME Init PROVE Kept
    OBVIOUS
  <1>1. PICK seed : /\ bundles = <<seed>> /\ seed.status = "default_seed"
                    /\ seed.preferences = Empty /\ seed.restored_from = 0
    BY DEF Init
  <1>2. \A b \in DOMAIN bundles : BundleKept(b, aliases, bundles)
    BY <1>1 DEF BundleKept
  <1>3. \A c \in Clients : PendingKept(request[c], defaults, aliases, bundles)
    BY DEF Init, PendingKept, Idle
  <1> QED
    BY <1>2, <1>3 DEF Kept

(* A request about to commit carries what Commit was given.                *)
LEMMA CommitCarries ==
  ASSUME NEW asked, NEW os, NEW s, NEW p, NEW b
  PROVE  LET r == Commit(asked, os, s, p, b) IN
         /\ r.overrides = os /\ r.status = s /\ r.preferences = p /\ r.restored_from = b
  BY DEF Commit

(* The three requests that carry something to their last transaction: a    *)
(* save what was compiled for the running defaults,                        *)
LEMMA KeptPut ==
  ASSUME IInv, Kept, NEW c \in Clients, NEW p \in Preferences, NEW asked,
         PutPreferences(c, p, asked)
  PROVE  Kept'
  <1>1. defaults \in Releases /\ Overrides \in Docs
    BY DEF Overrides, Docs, IInv, Settled, Tables, TablesTyped
  <1>2. PICK r : r = Commit(asked, Compiled(Overrides, p), "saved", p, 0)
    OBVIOUS
  <1>3. /\ request' = [request EXCEPT ![c] = r] /\ r.restored_from = 0
        /\ r.overrides = Compiled(Overrides, p) /\ r.preferences = p
    BY <1>2, CommitCarries DEF PutPreferences, SetRequest
  <1>4. aliases' = aliases \union {p} /\ UNCHANGED <<defaults, bundles>>
    BY DEF PutPreferences
  <1>5. PendingKept(r, defaults, aliases', bundles)
    BY <1>1, <1>3, <1>4, CompiledApplies DEF PendingKept
  <1> QED
    BY <1>3, <1>4, <1>5, KeptStep

(* a reset nothing,                                                        *)
LEMMA KeptReset ==
  ASSUME IInv, Kept, NEW c \in Clients, NEW asked, ResetPreferences(c, asked)
  PROVE  Kept'
  <1>1. PICK r : r = Commit(asked, [t \in ConfigTypes |-> Empty], "reset", Empty, 0)
    OBVIOUS
  <1>2. /\ request' = [request EXCEPT ![c] = r] /\ r.restored_from = 0
        /\ r.preferences = Empty /\ r.status = "reset"
    BY <1>1, CommitCarries DEF ResetPreferences, SetRequest
  <1>3. UNCHANGED <<aliases, defaults, bundles>>
    BY DEF ResetPreferences, stored
  <1>4. PendingKept(r, defaults, aliases', bundles)
    BY <1>2 DEF PendingKept
  <1> QED
    BY <1>2, <1>3, <1>4, KeptStep

(* and a restore what its source generated.                                *)
LEMMA KeptRestore ==
  ASSUME IInv, Kept, NEW c \in Clients, RestoreLoaded(c)
  PROVE  Kept'
  <1> DEFINE b == request[c].source
  <1>1. b \in DOMAIN bundles
    BY DEF RestoreLoaded, IInv, Reads, SourcesExist
  <1>2. PICK r : r = Commit(request[c].asked, RestoreOverrides(b), "restored",
                            bundles[b].preferences, b)
    OBVIOUS
  <1>3. /\ request' = [request EXCEPT ![c] = r] /\ r.restored_from = b
        /\ r.preferences = bundles[b].preferences /\ r.status = "restored"
        /\ r.overrides = RestoreOverrides(b)
    BY <1>2, CommitCarries DEF RestoreLoaded, SetRequest
  <1>4. UNCHANGED <<aliases, defaults, bundles>>
    BY DEF RestoreLoaded, stored
  <1>5. bundles[b].preferences # Empty => bundles[b].preferences \in aliases
    BY <1>1 DEF Kept, BundleKept
  <1>6. PendingKept(r, defaults, aliases', bundles)
    BY <1>1, <1>3, <1>4, <1>5 DEF PendingKept, RestoreOverrides
  <1> QED
    BY <1>3, <1>4, <1>6, KeptStep

(* Every step keeps it, one case for each action,                          *)
LEMMA KeptNext == IInv /\ Kept /\ [Next]_vars => Kept'
  <1> SUFFICES ASSUME IInv, Kept, [Next]_vars PROVE Kept'
    OBVIOUS
  <1>1. CASE Deploy
    <2>1. \A c \in Clients : request'[c].at # "commit"
      BY <1>1 DEF Deploy, Idle
    <2>2. UNCHANGED <<aliases, bundles>>
      BY <1>1 DEF Deploy
    <2> QED
      BY <2>1, <2>2 DEF Kept, PendingKept
  <1>2. ASSUME NEW c \in Clients, Preference(c) PROVE Kept'
    <2>1. ASSUME NEW r, request' = [request EXCEPT ![c] = r], r.at # "commit",
                 UNCHANGED stored
          PROVE  Kept'
      BY <2>1, KeptIdle DEF stored
    <2>2. CASE GetPreferences(c) \/ Conflict(c) \/ RequestFails(c)
      <3>1. PICK r : r = Idle
        OBVIOUS
      <3>2. r.at # "commit"
        BY <3>1 DEF Idle
      <3> QED
        BY <2>1, <2>2, <3>1, <3>2 DEF GetPreferences, Conflict, RequestFails, SetRequest
    <2>3. ASSUME NEW asked, NEW b, RestorePreferences(c, b, asked) PROVE Kept'
      <3>1. PICK r : r = [at |-> "restore", asked |-> asked, source |-> b]
        OBVIOUS
      <3>2. r.at # "commit"
        BY <3>1
      <3> QED
        BY <2>1, <2>3, <3>1, <3>2 DEF RestorePreferences, SetRequest
    <2> QED
      BY <1>2, <2>2, <2>3, KeptPut, KeptReset, KeptRestore, KeptSave DEF Preference
  <1>3. ASSUME NEW c \in Clients, SingleDocument(c) PROVE Kept'
    <2>1. CASE UNCHANGED <<request, defaults, aliases, bundles>>
      BY <2>1, KeptStill
    <2>2. CASE ResetFieldSaved(c)
      <3>1. PICK r : r = Idle
        OBVIOUS
      <3>2. r.at # "commit"
        BY <3>1 DEF Idle
      <3> QED
        BY <2>2, <3>1, <3>2, KeptIdle DEF ResetFieldSaved, SetRequest, Save, Edit
    <2>3. ASSUME NEW t \in ConfigTypes, NEW f \in Fields, ResetField(c, t, f) PROVE Kept'
      <3>1. PICK r : r.at # "commit" /\ request' = [request EXCEPT ![c] = r]
        BY <2>3 DEF ResetField, SetRequest
      <3> QED
        BY <2>3, <3>1, KeptIdle DEF ResetField, stored
    <2> QED
      BY <1>3, <2>1, <2>2, <2>3
      DEF SingleDocument, RestoreConfig, ResetConfig, UpdateConfig, DirectUpdate, Save, Edit
  <1>4. CASE UNCHANGED vars
    BY <1>4, KeptStill DEF vars
  <1> QED
    BY <1>1, <1>2, <1>3, <1>4 DEF Next

(* so it always holds.                                                     *)
LEMMA KeptAlways == Spec => []Kept
  BY Invariance, KeptInit, KeptNext, PTL DEF Spec

-----------------------------------------------------------------------------

(* No bundle names preferences whose aliases are not in the catalog.       *)
THEOREM AliasesFirst == Spec => []AliasesBeforeBundle
  <1>1. Kept => AliasesBeforeBundle
    BY DEF Kept, BundleKept, AliasesBeforeBundle
  <1> QED
    BY KeptAlways, <1>1, PTL

(* What the user asked for is in force after the save, whatever the        *)
(* defaults and whatever the settings were built on.                       *)
THEOREM PreferencesApply == Spec => []SavedPreferencesApply
  <1>1. Kept => SavedPreferencesApply
    BY DEF Kept, BundleKept, Applied, SavedPreferencesApply
  <1> QED
    BY KeptAlways, <1>1, PTL

(* A restored bundle has every generated setting of its source, whatever   *)
(* the defaults have become since.                                         *)
THEOREM RestoresKeepGenerated == Spec => []RestoreKeepsGenerated
  <1>1. Kept => RestoreKeepsGenerated
    BY DEF Kept, BundleKept, Applied, RestoreKeepsGenerated, Restored
  <1> QED
    BY KeptAlways, <1>1, PTL

=============================================================================
