-------------------------- MODULE ControlPlaneStore --------------------------
(***************************************************************************)
(* The authoritative state of the control plane (ControlPlaneStorePort)    *)
(* and the service operations that change it: optimistic document commits, *)
(* idempotent effects, backup and restore.  adapter is the store chosen,   *)
(* ReferenceControlPlaneStore or SqliteControlPlaneStore; they differ in   *)
(* what a backup stores and in which completions of an effect they accept. *)
(*                                                                         *)
(* A step is what runs between two awaits: a store operation is atomic (a  *)
(* synchronous body, or one BEGIN IMMEDIATE transaction), and operations   *)
(* of different requests interleave.  The fingerprint port is a collision  *)
(* free hash, so a digest is the value that was hashed.  Authorization and *)
(* request validation precede every operation and change no state here.    *)
(***************************************************************************)
EXTENDS Integers, FiniteSetsExt, SequencesExt

CONSTANTS
  Adapters,      \* the stores a host may choose from
  Tenants, Objects,
  Keys,          \* idempotency keys
  Requests,      \* effect requests, told apart by their fingerprints
  NoRequest,
  Editors,       \* clients that read, edit and commit documents
  Callers,       \* invokeEffect calls
  Admins,        \* createBackup and restoreBackup calls
  MaxDocuments,  \* maxDocumentsPerTenant
  Faults,        \* TRUE: a service process may die, or a transaction roll back
  MaxRevision,   \* bound: accepted commits of a tenant
  MaxBackups,    \* bound: backups of a behaviour
  MaxRestores    \* bound: restores of a tenant

ASSUME StoreAdapterAssumption == Adapters \subseteq {"reference", "sqlite"}
ASSUME NoRequestAssumption == NoRequest \notin Requests
ASSUME BoundAssumption ==
  /\ MaxDocuments \in Nat /\ MaxRevision \in Nat
  /\ MaxBackups \in Nat /\ MaxRestores \in Nat
ASSUME FaultsAssumption == Faults \in BOOLEAN

VARIABLES
  adapter,       \* the store: "reference" or "sqlite"
  documents,     \* tenant -> object -> current revision record
  nextRevision,  \* tenant -> next revision number
  effects,       \* tenant -> key -> idempotency entry
  feed,          \* tenant -> realtime notifications in sequence order
  backups,       \* backup id -> backup
  nextBackup,    \* #nextBackup of the reference store
  editors,       \* editor -> the document it has read and is editing
  callers,       \* caller -> where its invokeEffect is
  admins,        \* admin -> the recovery operation awaiting a digest
  accepted,      \* history: tenant -> object -> edits the document must contain
  performed,     \* history: tenant -> key -> side effects performed
  restores       \* history: tenant -> restores applied

allVars == <<adapter, documents, nextRevision, effects, feed, backups, nextBackup,
             editors, callers, admins, accepted, performed, restores>>

\* A revision record: its number, its parent's, and the edits it contains.  An
\* edit is named by its tenant and the sequence number of its notification.
NoRevision == 0
NoDocument == [revision |-> NoRevision, parent |-> NoRevision, content |-> {}]

NoResult == [status |-> "none", request |-> NoRequest]
NoEffect == [fingerprint |-> NoRequest, pending |-> FALSE, result |-> NoResult]
PendingEffect(f) == [fingerprint |-> f, pending |-> TRUE, result |-> NoResult]

IdleEditor == [stage |-> "idle"]
IdleAdmin == [stage |-> "idle"]
AnsweredCaller(f, status, result) ==
  [stage |-> "answered", request |-> f, status |-> status, result |-> result]

StoreInit ==
  /\ adapter \in Adapters
  /\ documents = [t \in Tenants |-> [o \in Objects |-> NoDocument]]
  /\ nextRevision = [t \in Tenants |-> 1]
  /\ effects = [t \in Tenants |-> [k \in Keys |-> NoEffect]]
  /\ feed = [t \in Tenants |-> << >>]
  /\ backups = << >>
  /\ nextBackup = 1
  /\ editors = [e \in Editors |-> IdleEditor]
  /\ callers = [c \in Callers |-> AnsweredCaller(NoRequest, "none", NoResult)]
  /\ admins = [a \in Admins |-> IdleAdmin]
  /\ accepted = [t \in Tenants |-> [o \in Objects |-> {}]]
  /\ performed = [t \in Tenants |-> [k \in Keys |-> 0]]
  /\ restores = [t \in Tenants |-> 0]

storeVars == <<documents, nextRevision, effects, feed>>
historyVars == <<accepted, performed, restores>>

Notify(t, message) == feed' = [feed EXCEPT ![t] = Append(@, message)]
DocumentCommitted(o, r) == [type |-> "document-committed", object |-> o, revision |-> r]
EffectCompleted(k, status) == [type |-> "effect-completed", key |-> k, status |-> status]
TenantRestored(id) == [type |-> "tenant-restored", backup |-> id]

-----------------------------------------------------------------------------
(* Documents: a client reads a document, edits it, and commits its edit    *)
(* naming the revision it has read.                                        *)

ReadDocument(e) ==
  /\ editors[e] = IdleEditor
  /\ \E t \in Tenants, o \in Objects :
       editors' = [editors EXCEPT ![e] =
                     [stage |-> "editing", tenant |-> t, object |-> o,
                      base |-> documents[t][o]]]
  /\ UNCHANGED <<adapter, storeVars, backups, nextBackup, callers, admins, historyVars>>

OverwritesWhenNew(current, expected) == expected \in {NoRevision, current.revision}

\* Both sides absent, or the same revision.
MatchesExpectedRevision(current, expected) == current.revision = expected

DocumentCount(t) == Cardinality({o \in Objects : documents[t][o] # NoDocument})

QuotaExceeded(t, o) == documents[t][o] = NoDocument /\ DocumentCount(t) >= MaxDocuments

NewEdit(t) == <<t, Len(feed[t]) + 1>>

RevisionRecord(t, o, base, revision) ==
  [revision |-> revision, parent |-> documents[t][o].revision,
   content |-> base.content \cup {NewEdit(t)}]

\* Conflict, or Denied by the quota: nothing but an audit entry is written.
CommitRefused(e) ==
  /\ editors[e].stage = "editing"
  /\ LET t == editors[e].tenant
         o == editors[e].object
     IN  \/ ~MatchesExpectedRevision(documents[t][o], editors[e].base.revision)
         \/ QuotaExceeded(t, o)
  /\ editors' = [editors EXCEPT ![e] = IdleEditor]
  /\ UNCHANGED <<adapter, storeVars, backups, nextBackup, callers, admins, historyVars>>

CommitAccepted(e) ==
  /\ editors[e].stage = "editing"
  /\ LET t == editors[e].tenant
         o == editors[e].object
         revision == nextRevision[t]
     IN  /\ revision <= MaxRevision
         /\ MatchesExpectedRevision(documents[t][o], editors[e].base.revision)
         /\ ~QuotaExceeded(t, o)
         /\ documents' = [documents EXCEPT ![t][o] =
                            RevisionRecord(t, o, editors[e].base, revision)]
         /\ nextRevision' = [nextRevision EXCEPT ![t] = @ + 1]
         /\ Notify(t, DocumentCommitted(o, revision))
         /\ accepted' = [accepted EXCEPT ![t][o] = @ \cup {NewEdit(t)}]
  /\ editors' = [editors EXCEPT ![e] = IdleEditor]
  /\ UNCHANGED <<adapter, effects, backups, nextBackup, callers, admins, performed, restores>>

-----------------------------------------------------------------------------
(* Effects.                                                                *)

\* beginEffect for a key that has an entry.
LeaseAnswer(entry, f) ==
  CASE entry.fingerprint # f -> AnsweredCaller(f, "conflict", NoResult)
    [] entry.fingerprint = f /\ entry.pending -> AnsweredCaller(f, "in-progress", NoResult)
    [] OTHER -> AnsweredCaller(f, "replay", entry.result)

KeyIsFreeAfterFailure(entry) == entry = NoEffect \/ entry.result.status = "failed"

KeyIsFree(entry) == entry = NoEffect

InvokeEffect(c) ==
  /\ callers[c].stage = "answered"
  /\ \E t \in Tenants, k \in Keys, f \in Requests :
       \/ /\ KeyIsFree(effects[t][k])
          /\ effects' = [effects EXCEPT ![t][k] = PendingEffect(f)]
          /\ callers' = [callers EXCEPT ![c] =
                           [stage |-> "invoking", tenant |-> t, key |-> k, request |-> f]]
       \/ /\ ~KeyIsFree(effects[t][k])
          /\ callers' = [callers EXCEPT ![c] = LeaseAnswer(effects[t][k], f)]
          /\ UNCHANGED effects
  /\ UNCHANGED <<adapter, documents, nextRevision, feed, backups, nextBackup, editors, admins,
                 historyVars>>

\* External: the registered handler.  It returns an output, or throws with its
\* side effect already performed or not.
RunEffect(c) ==
  /\ callers[c].stage = "invoking"
  /\ \E outcome \in {"succeeded", "failed"}, done \in BOOLEAN :
       /\ outcome = "succeeded" => done
       /\ performed' = IF done
                       THEN [performed EXCEPT ![callers[c].tenant][callers[c].key] = @ + 1]
                       ELSE performed
       /\ callers' = [callers EXCEPT ![c] =
                        [stage |-> "finishing", tenant |-> @.tenant, key |-> @.key,
                         request |-> @.request, status |-> outcome]]
  /\ UNCHANGED <<adapter, storeVars, backups, nextBackup, editors, admins, accepted, restores>>

FinishAnyEntry(entry, f) == entry # NoEffect

\* finishEffect of the reference store, persistEffectResult of the SQLite store.
MayFinish(entry, f) ==
  IF adapter = "reference" THEN entry # NoEffect ELSE entry.fingerprint = f /\ entry.pending

FinishEffect(c) ==
  /\ callers[c].stage = "finishing"
  /\ LET t == callers[c].tenant
         k == callers[c].key
         f == callers[c].request
         result == [status |-> callers[c].status, request |-> f]
     IN  /\ MayFinish(effects[t][k], f)
         /\ effects' = [effects EXCEPT ![t][k].pending = FALSE, ![t][k].result = result]
         /\ Notify(t, EffectCompleted(k, result.status))
         /\ callers' = [callers EXCEPT ![c] = AnsweredCaller(f, result.status, result)]
  /\ UNCHANGED <<adapter, documents, nextRevision, backups, nextBackup, editors, admins, historyVars>>

\* The store throws.  The service returns the promise of the completion without
\* awaiting it, so its catch clause does not see the rejection.
FinishRejected(c) ==
  /\ callers[c].stage = "finishing"
  /\ ~MayFinish(effects[callers[c].tenant][callers[c].key], callers[c].request)
  /\ callers' = [callers EXCEPT ![c] = AnsweredCaller(@.request, "rejected", NoResult)]
  /\ UNCHANGED <<adapter, storeVars, backups, nextBackup, editors, admins, historyVars>>

\* The service process dies, or the completing transaction rolls back.
AbandonEffect(c) ==
  /\ Faults
  /\ callers[c].stage \in {"invoking", "finishing"}
  /\ callers' = [callers EXCEPT ![c] = AnsweredCaller(@.request, "rejected", NoResult)]
  /\ UNCHANGED <<adapter, storeVars, backups, nextBackup, editors, admins, historyVars>>

-----------------------------------------------------------------------------
(* Backup and restore: both await the fingerprint port halfway.            *)

Snapshot(t) == [documents |-> documents[t], effects |-> effects[t]]

\* backupPayload: what the digest of a backup of a tenant is taken over.
Payload(t, snapshot) == [tenant |-> t, snapshot |-> snapshot]

Underway == {a \in Admins : admins[a].stage = "digesting"}

StartBackup(a) ==
  /\ admins[a] = IdleAdmin
  /\ nextBackup <= MaxBackups
  /\ Cardinality(DOMAIN backups) + Cardinality(Underway) < MaxBackups
  /\ \E t \in Tenants :
       admins' = [admins EXCEPT ![a] =
                    [stage |-> "digesting", tenant |-> t, id |-> nextBackup,
                     snapshot |-> Snapshot(t)]]
  /\ nextBackup' = IF adapter = "reference" THEN nextBackup + 1 ELSE nextBackup
  /\ UNCHANGED <<adapter, storeVars, backups, editors, callers, historyVars>>

\* The reference store stores its state after the await, under the identifier
\* it took before; the SQLite store stores the snapshot it has hashed, under the
\* number of backups plus one.
BackupId(a) ==
  IF adapter = "reference" THEN admins[a].id ELSE Cardinality(DOMAIN backups) + 1

BackupContent(a) ==
  IF adapter = "reference" THEN Snapshot(admins[a].tenant) ELSE admins[a].snapshot

FinishBackup(a) ==
  /\ admins[a].stage = "digesting"
  /\ LET t == admins[a].tenant
         backup == [tenant |-> t, digest |-> Payload(t, admins[a].snapshot),
                    content |-> BackupContent(a)]
     IN  backups' = [id \in DOMAIN backups \cup {BackupId(a)} |->
                       IF id = BackupId(a) THEN backup ELSE backups[id]]
  /\ admins' = [admins EXCEPT ![a] = IdleAdmin]
  /\ UNCHANGED <<adapter, storeVars, nextBackup, editors, callers, historyVars>>

OwnedBackup(t, id) == id \in DOMAIN backups /\ backups[id].tenant = t

StartRestore(a) ==
  /\ admins[a] = IdleAdmin
  /\ \E t \in Tenants : \E id \in DOMAIN backups :
       /\ restores[t] < MaxRestores
       /\ OwnedBackup(t, id)
       /\ admins' = [admins EXCEPT ![a] =
                       [stage |-> "verifying", tenant |-> t, id |-> id, backup |-> backups[id]]]
  /\ UNCHANGED <<adapter, storeVars, backups, nextBackup, editors, callers, historyVars>>

\* The digest recomputed for the tenant that restores.
Intact(t, backup) == backup.digest = Payload(t, backup.content)

\* BackupIntegrityFailed: nothing changes.
RestoreRefused(a) ==
  /\ admins[a].stage = "verifying"
  /\ ~Intact(admins[a].tenant, admins[a].backup)
  /\ admins' = [admins EXCEPT ![a] = IdleAdmin]
  /\ UNCHANGED <<adapter, storeVars, backups, nextBackup, editors, callers, historyVars>>

RevisionRolledBack(t) == 1 + Max({documents'[t][o].revision : o \in Objects} \cup {0})

\* Revision numbers keep growing over a restore, like the feed.
RevisionAfterRestore(t) == nextRevision[t]

SilentRestore(t, id) == feed' = feed

NotifyRestore(t, id) == Notify(t, TenantRestored(id))

ApplyRestore(a) ==
  /\ admins[a].stage = "verifying"
  /\ restores[admins[a].tenant] < MaxRestores
  /\ Intact(admins[a].tenant, admins[a].backup)
  /\ LET t == admins[a].tenant
         content == admins[a].backup.content
     IN  /\ documents' = [documents EXCEPT ![t] = content.documents]
         /\ effects' = [effects EXCEPT ![t] = content.effects]
         /\ nextRevision' = [nextRevision EXCEPT ![t] = RevisionAfterRestore(t)]
         /\ NotifyRestore(t, admins[a].id)
         /\ accepted' = [accepted EXCEPT ![t] = [o \in Objects |-> content.documents[o].content]]
         /\ restores' = [restores EXCEPT ![t] = @ + 1]
  /\ admins' = [admins EXCEPT ![a] = IdleAdmin]
  /\ UNCHANGED <<adapter, backups, nextBackup, editors, callers, performed>>

\* The fingerprint port rejects, or the process dies, during the await.
AbandonRecovery(a) ==
  /\ Faults
  /\ admins[a] # IdleAdmin
  /\ admins' = [admins EXCEPT ![a] = IdleAdmin]
  /\ UNCHANGED <<adapter, storeVars, backups, nextBackup, editors, callers, historyVars>>

-----------------------------------------------------------------------------
StoreNext ==
  \/ \E e \in Editors : ReadDocument(e) \/ CommitRefused(e) \/ CommitAccepted(e)
  \/ \E c \in Callers :
       InvokeEffect(c) \/ RunEffect(c) \/ FinishEffect(c) \/ FinishRejected(c) \/ AbandonEffect(c)
  \/ \E a \in Admins :
       \/ StartBackup(a) \/ FinishBackup(a)
       \/ StartRestore(a) \/ RestoreRefused(a) \/ ApplyRestore(a)
       \/ AbandonRecovery(a)

StoreSpec == StoreInit /\ [][StoreNext]_allVars

-----------------------------------------------------------------------------
Edits == Tenants \X Nat
Records == [revision : 0..MaxRevision, parent : 0..MaxRevision, content : SUBSET Edits]
Statuses == {"succeeded", "failed"}
Results == [status : Statuses, request : Requests] \cup {NoResult}
Entries == [fingerprint : Requests, pending : BOOLEAN, result : Results] \cup {NoEffect}

StoreTypeOK ==
  /\ adapter \in Adapters
  /\ documents \in [Tenants -> [Objects -> Records]]
  /\ nextRevision \in [Tenants -> 1..(MaxRevision + 1)]
  /\ effects \in [Tenants -> [Keys -> Entries]]
  /\ DOMAIN backups \subseteq 1..MaxBackups
  /\ \A id \in DOMAIN backups :
       backups[id].content \in [documents : [Objects -> Records], effects : [Keys -> Entries]]
  /\ accepted \in [Tenants -> [Objects -> SUBSET Edits]]
  /\ restores \in [Tenants -> 0..MaxRestores]

(* No lost update: a document contains every edit whose commit was         *)
(* accepted since its tenant was last restored, whichever clients raced on *)
(* it and whatever was restored between a client's read and its commit     *)
(* ("an update must name the current server revision",                     *)
(* docs/control-plane.md).                                                 *)
NoLostUpdate ==
  \A t \in Tenants, o \in Objects : accepted[t][o] \subseteq documents[t][o].content

(* A revision number of a tenant names one record of one object for ever:  *)
(* what the store has, what any backup has, and what a client has read     *)
(* agree, so the expected revision of a commit cannot match another        *)
(* history that a restore brought back ("Document revisions are server     *)
(* assigned ... stores the immutable revision").                           *)
KnownRecords(t) ==
  {<<o, documents[t][o]>> : o \in Objects}
    \cup (UNION {{<<o, backups[id].content.documents[o]>> : o \in Objects} :
                  id \in {i \in DOMAIN backups : backups[i].tenant = t}})
    \cup {<<editors[e].object, editors[e].base>> :
            e \in {d \in Editors : editors[d].stage = "editing" /\ editors[d].tenant = t}}

RevisionNamesOneRecord ==
  \A t \in Tenants : \A x, y \in KnownRecords(t) :
    x[2].revision = y[2].revision /\ x[2].revision # NoRevision => x = y

(* The notifications account for the documents: for an object committed    *)
(* since the last restore the last notification names its revision, and    *)
(* any other object is what the last restored backup had, or absent        *)
(* ("Every committed revision, completed effect, and restore advances a    *)
(* tenant-local server sequence").                                         *)
LastRestore(t) == Max({0} \cup {i \in DOMAIN feed[t] : feed[t][i].type = "tenant-restored"})

CommitsSinceRestore(t, o) ==
  {i \in (LastRestore(t) + 1)..Len(feed[t]) :
     feed[t][i].type = "document-committed" /\ feed[t][i].object = o}

BaselineDocument(t, o) ==
  IF LastRestore(t) = 0
  THEN NoDocument
  ELSE backups[feed[t][LastRestore(t)].backup].content.documents[o]

FeedAccountsForDocuments ==
  \A t \in Tenants, o \in Objects :
    LET commits == CommitsSinceRestore(t, o)
    IN  IF commits = {}
        THEN documents[t][o] = BaselineDocument(t, o)
        ELSE documents[t][o].revision = feed[t][Max(commits)].revision

(* A key never answers one request with the result of another: stored and  *)
(* replayed results were produced by the request whose fingerprint holds   *)
(* the key ("Matching retries replay that result; a different request      *)
(* using the same key conflicts", docs/control-plane.md).  Of the in-memory *)
(* store it is not true (a known limit of README.md).                      *)
ReplayMatchesRequest ==
  /\ \A t \in Tenants, k \in Keys :
       effects[t][k].result # NoResult => effects[t][k].result.request = effects[t][k].fingerprint
  /\ \A c \in Callers :
       callers[c].stage = "answered" /\ callers[c].status = "replay" =>
         callers[c].result.request = callers[c].request

(* The SQLite store keeps that promise, in spite of completions that come  *)
(* after a restore has freed their key.                                    *)
SqliteReplayMatchesRequest == adapter = "sqlite" => ReplayMatchesRequest

(* A retry does not repeat a side effect: a key's effect is performed at   *)
(* most once, and once more for each restore, which may bring back a state *)
(* from before the key was used.  Failures, crashes and rejected           *)
(* completions do not license a repetition ("a retry does not repeat a     *)
(* possibly completed side effect", packages/control-plane/README.md).     *)
AtMostOncePerRestore ==
  \A t \in Tenants, k \in Keys : performed[t][k] <= 1 + restores[t]

(* A result that was stored is final: only a restore replaces it, so two   *)
(* replays of a key of the SQLite store never differ.                      *)
ResultsFinal ==
  [][adapter = "sqlite" =>
       \A t \in Tenants, k \in Keys :
         effects[t][k].result # NoResult /\ restores'[t] = restores[t] =>
           effects'[t][k] = effects[t][k]]_allVars

(* Every backup that was created passes the verification of its restore:   *)
(* the digest is the digest of what was stored, although commits and       *)
(* effects ran while the digest was being computed ("checks backup         *)
(* integrity before restore").  Of the in-memory store it is not true (a   *)
(* known limit of README.md).                                              *)
BackupRestorable ==
  \A id \in DOMAIN backups : Intact(backups[id].tenant, backups[id])

(* The SQLite store keeps that promise.                                    *)
SqliteBackupRestorable == adapter = "sqlite" => BackupRestorable

(* A backup, once created, is not replaced by a concurrent one.            *)
BackupsImmutable ==
  [][\A id \in DOMAIN backups : id \in DOMAIN backups' /\ backups'[id] = backups[id]]_allVars
=============================================================================
