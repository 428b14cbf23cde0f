# Formal model of Unifold

TLA+ models of the parts of this repository whose correctness depends on the
order of concurrent steps, the TLC runs that check them on small instances, and
TLAPS proofs of what holds for every instance. Paths below are relative to
`src/`; `control-plane/x.ts` stands for `packages/control-plane/src/x.ts`, and
likewise for the other packages.

## 1. The system

Unifold is a TypeScript monorepo: documents are compiled to an intermediate
representation, mounted on a runtime with a reactive node store, and connected
to data sources, asynchronous stores, a collaboration repository and a control
plane. A governed Studio lets a model propose changes of the live document. Most
packages are sequential transformations of JSON trees. The parts below keep
state across `await`s, callbacks, commands, processes or restarts.

### Parts with concurrency, failure or long histories

| Part | State | Operations | Talks to | What is hard | What makes it correct |
|---|---|---|---|---|---|
| Control-plane outbox (`control-plane/reference-outbox.ts`, `sqlite-outbox.ts`, `outbox-policy.ts`) | delivery rows: attempts, availability, lease owner and end | publish, lease, acknowledge, release | written by every store mutation; drained by external workers | late commands, expiry, takeover, worker crash | one live lease per row, attempts fence reservations, only the current attempt removes a row, everything is delivered |
| Realtime log (same files) | the retained messages of a tenant, next sequence | append with eviction, resume after a cursor | resumed by cursors through the service | eviction overtaking a cursor, boundaries | a resume is complete or reports a gap; both adapters agree |
| Realtime cursor (`control-plane/realtime-transport.ts`) | the cursor | poll, reset after a reread | service, host | overlapping polls, lost or incomplete answers | no message is skipped |
| Documents, effects, backups (`control-plane/reference-store.ts`, `sqlite-*.ts`, driven by `service.ts`) | documents, revision counter, idempotency entries, backups | commit, invoke effect, backup, restore | editors, effect handlers, fingerprint port, outbox | races on revisions, `await` in the middle of backup and restore, handler failure, crash, restore under running calls | no lost update, a revision names one record, effects at most once, backups restorable, replays match requests |
| Data coordinator (`data/coordinator.ts`, `cache.ts`, `retry.ts`) | active request per actor, cache | execute, cancel, dispose, receive invalidation | data source handlers, optimistic port, bus | supersession, abort during each await, a query that outlives an invalidation | an old answer never replaces a newer one, every optimistic change is settled exactly once |
| Asynchronous stores (`unifold/async-store-session.ts`, `async-store-command-port.ts`) | snapshot, commit in flight, queued external snapshot | commit, external update, dispose | adapter, authorisation port | externals during a commit, cancel after the adapter stored, dispose in flight | no write overwrites what it has not seen, the session ends current or has reported why not |
| Collaboration (`collaboration/*.ts`) | branches, revisions, proposals, approvals, idempotency records, presence, a bounded event log | submit, approve, comment, publish, undo, branch, presence, resume | authorisation, patch and clock ports; hosts that follow the log | the head moving under a proposal, expiry, replays, arrays shifted under a pointer, eviction of events | a head of a protected branch changes only by what was reviewed, a follower can always account for the branches |
| Runtime (`runtime/*.ts`, `reactivity/node-store.ts`, `event-fabric.ts`) | nodes, retained records, coordination, facts held back, validations, effects | command, coordination, dispose | observers that call back, validators, stores | re-entrance while facts are published, failure inside an update, late validators, records that expire | facts in order, every change stored and validated, an update all or nothing |
| Application (`unifold/application*.ts`) | document, page, machines, bindings | mount, input, update, dispose | runtime, renderer, machines | an update that fails at any step, restoration that fails | surfaces agree whenever the thread is at rest |
| Node store (`reactivity/*.ts`, `runtime/command-handlers.ts`, `control-disabled.ts`, `forms/control-validation.ts`) | the node graph with two hierarchies, derived indexes, aggregates, routed errors | every state command, structural reconciliation | validators of the host | what is derived anew only for the changed nodes | derived state equals what the whole graph says |
| Governed generation (`ai/governed-generation.ts`, `governed-generation-support.ts`, `budget.ts`) | where a generation is; its reservation in an external ledger | generate | ledger, estimator, provider | failures between reservation and settlement, lost ledger answers | nothing delivered unpaid, nothing left reserved |
| Studio (`studio/session.ts`, `ai/proposal.ts`, `policy.ts`, `risk.ts`, `commit.ts`) | state machine, operation number, proposal, candidate, approval, preview | request, approve, apply, cancel, dispose | proposal client, evaluator, preview, application | overlapping operations, a live edit at any await | only what was reviewed is applied, over nothing else; previews accounted for; never stuck |
| Encrypted recovery (`control-plane/encrypted-recovery.ts`) | last-known-good checkpoint | create, verify, restore | object store, key and attestation ports | cancellation between stages | a checkpoint only after isolated verification |
| HTTP transport, admission, authorisation | session windows, rate windows | handle, admit | service | session expiry | requests are admitted within their window |
| Document loader and mounts (`unifold/document-loader.ts`, `mount.ts`) | staged load | load, mount | compiler | superseded loads | the newest load wins |

### Sequential parts

`contracts`, `ir`, `events`, `semantics`, `rules`, `catalog`, `compositions`,
`modules`, `jsonui`, `export`, `theme` compute on values. `xstate` wraps an
actor library. `elements` and `renderer-dom` live in the browser DOM.
`devtools`, `cli`, `playwright`, `testkit`, `tooling` and `apps/reference` are
hosts and tools. They are listed with a reason in `PROJECT.json`.

### How the parts fit together

*Control plane.* `service.ts` authenticates and authorises a request, then calls
one operation of a `ControlPlaneStorePort`. An operation that changes a tenant's
state takes the tenant's next sequence number and publishes one message under
it: the message enters the retained realtime log and, at the same time, the
outbox. A worker leases rows of the outbox, hands the messages to a broker and
acknowledges them. A client polls the log with a cursor; when the log has
dropped what it needs it gets a gap, rereads the documents and resets. Backups
copy a tenant's documents and idempotency entries; a restore replaces them and
is itself published. There are two stores, in memory and SQLite.

*A mounted application.* An input of the page becomes a command. The node store
applies it in one transaction and derives disablement, aggregates and routed
errors; the runtime publishes facts, which the application projects onto the
page and the router hands to machines, and which host observers may answer with
more commands; then the store write and the asynchronous validation that the
command caused start. An update of the document opens a coordination: the
candidate is reconciled tentatively, facts are held back, page, bindings and
machines are prepared against it, and all is committed or restored. Stores are
written through the asynchronous session or synchronously; data actors query
through the data coordinator.

*Studio.* A request of the session makes the server generate a proposal under a
budget; the session evaluates it against the live document, has it reviewed if
its risk demands it, previews it, evaluates it once more and applies it through
the application's update.

## 2. Modules

| Module | Role | Code |
|---|---|---|
| `ControlPlaneLog` | one tenant's retained messages as both adapters keep them, resume answers | `reference-outbox.ts` publish/resume, `sqlite-outbox.ts` insertRealtime/resumeSqliteRealtime |
| `ControlPlaneOutbox` | extends the log: deliveries and workers | the rest of the two files, `outbox-policy.ts` |
| `RealtimeCursor` | extends the log: a cursor with overlapping polls and its host | `realtime-transport.ts` |
| `GaplessReader` | abstract: a reader that never skips; `RealtimeCursor` implements it | what `docs/control-plane.md` promises of the cursor |
| `ControlPlaneStore` | documents, effects, backups with their clients | `reference-store.ts`, `reference-store-helpers.ts`, `sqlite-documents.ts`, `sqlite-effects.ts`, `sqlite-recovery.ts`, `service.ts` |
| `DataCoordinator` | calls of the data actors of several contexts, their caches and the bus | `data/coordinator.ts`, `coordinator-support.ts`, `cache.ts`, `retry.ts`, `invocation.ts`, `invalidation-bus.ts` |
| `AsyncStores` | one mounted store: session, controller queue, controls, remote port | `unifold/async-store-session.ts`, `async-store-command-port.ts`, `async-key-value-store-adapter.ts` |
| `CollaborationDocuments` | pure: pointers, conflict footprints, application of a patch | `collaboration/pointer.ts`, `conflict.ts`, `patch.ts` |
| `Collaboration` | extends it: the repository, its event log and a follower | `collaboration/reference*.ts`, `proposal-operations.ts`, `revision-operations.ts`, `governance.ts`, `presence.ts`, `event-log.ts` |
| `BranchHistory` | abstract: branches that only grow on one tree; `Collaboration` implements it | what `docs/collaboration.md` promises |
| `Runtime` | the thread of the runtime with its observers, coordination, effects, validation | `runtime/runtime*.ts`, `async-validation-coordinator.ts`, `store-write.ts`, `effect-runner.ts`, `reactivity/node-store.ts` |
| `Application` | composes it with page, document, bindings and machine | `unifold/application.ts`, `application-commit.ts`, `application-projection.ts` |
| `NodeStore` | the node graph under every state command, with all that is derived | `reactivity/*.ts`, `runtime/command-handlers.ts`, `control-disabled.ts` |
| `PatchEvaluation` | pure: policy, risk, candidate of a proposal | `ai/proposal.ts`, `policy.ts`, `risk.ts` |
| `GovernedGeneration` | extends it: reservation, generation and settlement on the server | `ai/governed-generation*.ts`, `budget.ts` |
| `StudioSession` | composes it with the session and other writers of the live document | `studio/session.ts`, `session-machine.ts`, `ai/commit.ts` |
| `ControlPlaneProofs`, `DataCoordinatorProofs`, `AsyncStoresProofs`, `CollaborationProofs`, `ApplicationProofs`, `ApplicationServiceProofs`, `NodeStoreProofs`, `StudioSessionProofs` | theorems | |
| `MC*` | documents, proposals, symmetry sets and constraints for the runs | |

**Log and outbox.** A message is its sequence number. The in-memory array
(`messages`) and the SQLite rows (`realtimeRows`) live in the same behaviour, so
their answers can be compared in every state. `deliveries` is the map of rows
not yet acknowledged. `holding` is what each worker process remembers of its
leases; it is the view against which exclusivity is stated. Commands carry an
instant the worker read up to `ClockLag` ago, because `leasedAt` and
`acknowledgedAt` come from the caller. A lease command takes the first rows in
sequence order (`FirstAvailable`), as `ORDER BY sequence LIMIT` does; an
acknowledgement names several sequences and removes those it owns.

**Cursor.** `polls[p]` is one `poll` call: it read the cursor (`Requested`), was
answered, and on delivery is checked against the cursor as it is *then*
(`requireBatch(result.value, this.#cursor, …)` runs after the `await`).
`accounted` is a history variable: messages the host was handed or has reread
past. `ServeIncomplete` is a service that leaves out messages, against which
`requireBatch` defends.

**Store.** A step is what runs between two awaits; a store operation is one
step. `adapter`, chosen initially, says where the two stores differ: what a backup keeps
(in-memory: the digest of the state before the `await`, the content after it;
SQLite: one snapshot), how a backup is named, and which completions of an effect
are accepted (in-memory: any existing entry; SQLite: only a pending entry with
the same fingerprint). `accepted`, `performed` and `restores` are history
variables. A digest is the value that was hashed.

**Data coordinator.** A call is one `execute()` promise and moves from await to
await: `applying` (the optimistic port's `apply`), `invoking` (the handler),
`waiting` (the delay before a retry), `executed` (the handler's promise has
settled, the coordinator has not resumed), `committing` (the optimistic port's
`commit`). `active` is the coordinator's map from actors to current requests;
superseding, cancelling and disposing change it while other calls wait. A key's
data is its version on the server, which a mutation advances; a mutation
declares the tag of its key, as do the results of its queries. `heard` is a
history variable: the newest version of a key a context was told of. A cache
entry can be `collected` (the query client dropped the data, the index still
lists the key) or `expired`. The bus is synchronous, as `invalidation-bus.ts` is;
it takes a message or throws, which `publishInvalidation` swallows (`announced`).

**Asynchronous stores.** `queue` is the promise chain of one store in the
controller: writes and projections in the order they were enqueued, the running
one first. `commit` follows a write through the session: `authorizing`, `sent`
to the port, `answered`, and `checked` (`invokeCommit` has looked at the signal,
`acceptCommit` has not run yet). Every write has its own value, so a property
can say whose value is where. The port compares and sets atomically, may lose
its answer after it has stored, and notifies every write, the session's own
included, in order but late. Promise continuations between which no other step
could make a difference are one step. `reported`, `held` and `final` are history
variables.

**Collaboration.** An operation is one step: the service is synchronous. A
revision and the candidate it comes from are named by a sequence number. A
document has one scalar and one array, which is where pointers shift; the RFC
6902 library is modelled for add, remove and replace. An idempotent request is
looked up under actor, operation and key; the answer to a repetition is what was
recorded, which is a stuttering step. `events` keeps the last `EventCapacity`
events. `follower` is a host as `docs/collaboration.md` describes it: it resumes
after its cursor, applies what it reads, and rereads the branches when it is told
of a gap.

**Runtime and application.** Everything runs on one thread, but a fact is handed
to observers that may call back. `agenda` is what the thread still has to do,
next task first: a call puts its tasks before those of its caller, and an
exception drops tasks up to the nearest handler (`Unwound`). At rest the agenda
is empty, and page, host or a validator takes the next turn. A command here
changes one control's value or its validation; what commands do to the whole
graph is the matter of `NodeStore`. The application is the first observer of
every fact and the router the second, in the order of their subscriptions. An
update goes through `BeginUpdate`, `RenderCandidate`, `CommitCandidate` and
`FinishUpdate`, or gives the candidate up at any of them, restores, or fails to
restore and quarantines.

**Node store.** A command changes a draft; `Derived` then recomputes disablement
(`ReconcileDisabled`), aggregates (`RecomputeAggregates`) and routed errors
(`ReconcileRoutes`), each only for the nodes the code would visit. The properties
state the same for the whole graph. A command whose draft cannot be derived is
dropped. `Documents` are what a mount or an update installs, `Updates` add
identity aliases and resets. An update keeps what it finds in a node of the same kind and
type (`SameContract`).

**Studio.** A step is what runs between two awaits of one operation.
`operations[o]` is one promise of the session; every call takes the next
number. `session` has the fields of the class and the state of its machine
(`Sent`: events without a transition are ignored). Two parts of a document stand
for presentation and behaviour paths, `nodes` for its stable IDs; an RFC 8785
hash is the document itself. The ledger is external; a call of it may fail with
or without having been carried out. `Edit` is any other writer, `StartCommit` and
`FinishCommit` are `commitUiPatchProposal`. `approved` is a history variable.

## 3. Runs

| Run | Question | Bounds and why they are enough |
|---|---|---|
| `outbox` | leases and attempts under two workers with late clocks, releases and crashes; every message is delivered | 2 messages so commands name several rows and retention 1 evicts; time 0..3 with term 2 gives an expiry and a takeover; 3 attempts |
| `cursor` | complete resumes, refinement of `GaplessReader`, a polling host catches up | 2 overlapping polls, retention 2 of 5 messages so the log overtakes the cursor twice; limit 2; the service may omit messages |
| `documents` | lost updates, revision identity and the feed, both stores | 2 tenants, 2 objects, 2 editors, 3 commits, 2 backups, 1 restore: an editor can read, a restore happen, two others commit, and the first commit |
| `effects` | at-most-once in both stores, replays in SQLite, with failures and crashes | 1 key, 2 requests, 2 callers, 2 overlapping recoveries, 2 restores: a restore can free a key while its handler runs and a second one can bring the entry back |
| `data_actor` | supersession, aborts, optimistic changes, retries, disposal and invalidation; every call settles | 2 calls that overlap at every await, of one actor or of two contexts with a cache each, over a bus that may fail; 2 keys in caches of 1 evict; 2 attempts; `FirstCall` fixes which of the interchangeable calls, contexts and keys comes first |
| `stores` | conflict policies, refusals, lost answers, late notifications and disposal of one store; every write settles | 2 paths, 3 edits, 1 foreign write: a write in flight, one queued behind it and one made after an external update was queued |
| `collaboration` | reviewed histories and publications, repeated requests, the follower, sound rebases, refinement of `BranchHistory` | 2 proposals, 4 revisions, an event log of 2; three starting points (`MCNext`), each with the operations that matter to it: a protected branch with approvals, undo, publication and the clock; an array whose items are moved and undone; an open branch with events of every kind |
| `collaboration_rebase` | expected violation, below | |
| `application` | surfaces, page, stores, pending controls, verdicts and the order of facts | 2 nodes, 2 documents with and without the second one, 3 calls of page and host, 1 reaction of an observer anywhere, 1 throw of a selector anywhere, 6 retained records; 1 of the values has a synchronous error, so that a change of it cancels a validation and starts none |
| `node_store` | indexes, disablement, aggregates, routed errors, edits kept by updates | a form with a group and two fields (and a third one that comes and goes) over three versions of its document, one of them with an alias, a reset, a field of another type and a form that became a record; any number of commands; 1 asynchronous validation; `Patched` names the nodes whose disablement commands change: the form, its group and a field of it |
| `node_store_page` | expected violation, below | the same form inside a component of a page |
| `studio_session` | budgets, previews, what is applied, liveness | 4 calls of which 2 may be requests: a request superseded at every await by a second one, its approval and its application; 1 edit by others, 1 commit by the host; proposals of presentation, of behaviour declared as presentation, of a removal of an ID, and for the edited document; token counts on both sides of the limit |

Bounds (`MaxSequence`, `MaxTime`, `MaxAttempts`, `MaxRevision`, `MaxBackups`,
`MaxRestores`, `MaxEdits`, `MaxOthers`, `MaxComments`, `MaxEvents`, `MaxCalls`,
`MaxReactions`, `MaxThrows`, `MaxOperations`, `Tokens`, `Patched`, `Requests` of
`NodeStore`) are guards in the modules; in `DataCoordinator` each member of
`Calls` is used once. `CHECK_DEADLOCK FALSE` is set because a behaviour that has
used its bounds has nothing left to do. Symmetry is used on clients, keys and
recoveries of the two store runs only; actions treat them alike.

Properties that TLAPS proves and that add little to a run are proved and not
run: `RemovedByCurrentAttempt`, `AdaptersAgree`, `BackupsImmutable`,
`SqliteBackupRestorable`, `RefusedWritesRolledBack`, `NothingAfterDispose`,
`NothingLost`, `LateApprovalRefused`, and the type invariants of those modules.
They hold in the runs' instances too when they are added to their configurations.

### Disagreements with the documentation

- `collaboration_rebase`: `docs/collaboration.md:29` says a stale proposal is
  rebased "only when every intervening changed path is disjoint". The footprint
  of a structural operation is widened to its array for the proposal only, not
  for the revisions in between: a replacement of `/items/1` is moved over a
  removal of `/items/0` and lands on another item. And an undo records the
  changed path `/`, which overlaps no pointer: a proposal is moved over an undo
  of what it changes. `RebaseSafe`, which holds, is what remains true: moved over
  revisions whose changed paths account for what they changed, a proposal never
  writes a value its author did not see, nor inserts into or removes from an array
  its author did not see as it is.
- `node_store_page`: `effective-disabled.ts:13` says each affected node is
  evaluated once, parent before child. A form with authored topology inside a
  component of a page is visited from no root when all nodes are candidates
  (mount, update): its visual parent counts as its parent when roots are chosen,
  but lists no controls when they are walked. An update that disables the form's
  group leaves the group's fields enabled and in the form's value.

### Known limits of the code

Consequences of the code that the modules contain and no run lists; each was seen
in a model or follows from a theorem's assumption.

- *In-memory control-plane store.* `createBackup` digests the live state, awaits,
  and stores the state it then finds: a commit in between makes a backup whose
  restore always fails its integrity check (`BackupRestorable`). `finishEffect`
  finishes whichever entry the key has: after a restore freed the key and another
  request took it, the late completion of the first is stored as the second one's
  result (`ReplayMatchesRequest`). The properties are stated for the SQLite store.
- A `realtimeRetention` of 0 is accepted; the log is then always empty and a
  resume succeeds without the messages in between (`ResumesComplete` assumes at
  least 1). A backup taken while an effect runs contains a pending key; restored,
  it stays pending for ever.
- *Data coordinator.* A query answered from the cache, or offline, returns before
  `start()`: the remote request its actor is running is neither aborted nor
  replaced, and later delivers and caches its result.
- *Asynchronous stores.* Of two queued edits the first is refused: its rollback
  projects the session's snapshot over the second edit's value as well. The second
  edit is then stored, but a committed write is not projected and its notification
  is suppressed as an echo: the control keeps the old value (`ControlsShowStore`).
- *Coordination.* A host selector that throws while `commitCoordination`
  refreshes selections does so after the savepoint is used up: the discard throws,
  disposal throws, and the runtime stays coordinated and active, without a
  `runtime.disposed` fact, where `docs/architecture.md:389` announces quarantine.
  `SurfacesAgree` and its companions are about behaviours without such a throw, or
  before it.
- *Collaboration.* Approvals recorded on a committed proposal of one branch count
  when its revision is published on a protected branch opened from it.
- *Node store.* A structural update resets an `ownDisabled` that a command set. A
  visual child of a form under an explicit parent inherits disablement only when
  it is patched, and keeps it. An inserted control is not validated. Removing the
  target of a validation leaves a dangling route, which refuses later transactions
  of its owner. `add` lists a legacy child under an explicit parent, which a
  reconciliation ignores. An enabled aggregate whose children are all disabled
  loses its request and asynchronous errors in a reconciliation.
- *Studio.* `beginRequest` takes its operation number after it has told
  subscribers; one that cancels in reply cancels nothing, and the preview of the
  cancelled request is installed in state `failed`. A superseded request's late
  `preview.open()` mounts into the container it shares with the current preview,
  and its disposal empties it (`renderer-dom/renderer.ts:54`, `73`), while the
  session says `preview-ready`: the properties are about handles, not about the
  container. Two replacements of `/revision`, the second back to the base
  revision, pass `hasRevisionChange` (`ai/policy.ts:105`). A ledger whose answer
  is lost may keep a reservation open. The branch that settles a cost overrun
  cannot be reached while the tokens are within their limits.

## 4. Fairness

- Outbox: `WF` on time, and on each worker's lease, handling and
  acknowledgement. The worker is a loop that leases, publishes and acknowledges;
  the time between is unbounded. Crash and release are not fair. A crash is
  possible only while enough modelled time is left for its lease to expire:
  time itself is bounded, and a behaviour that ends before the expiry says
  nothing about the code.
- Cursor: `WF` on starting a poll and on the host's recovery; `SF` on a truthful
  answer and on its delivery (`Serve`, `DeliverGap`, `RejectBatch`,
  `AcceptBatch`): the network does not lose, and the service does not truncate,
  every answer for ever. These are assumptions on the network, the service and the
  host's polling loop, not on the cursor's code.
- Data coordinator: `WF` on each call's own steps, `Proceed(x)`: the optimistic
  port, the handler and the retry timer settle. The handler's own timeout
  (`withTimeout`) justifies the second; the ports are the host's. Aborts,
  disposal and further requests are not fair.
- Asynchronous stores: `WF` on the queue, the authorisation and the port's
  answer (`Work`). Edits, foreign writes, notifications and disposal are not
  fair.
- Studio: `WF` on each operation's own steps, `Proceed(o)`: client, evaluator and
  preview settle, with whatever answer. The server owes nothing: a client whose
  request is not answered fails. The user and other writers are not fair.

`Collaboration`, `Application` and `NodeStore` are checked for safety only: their
operations run to completion within one turn of the thread.

## 5. Proofs

All constants are arbitrary subject to the named `ASSUME`s of the modules.

- `ControlPlaneProofs`, the log. The inductive fact is the window: the array holds
  the last `min(Retention, latest)` sequence numbers in order and the rows hold
  the same numbers. From it, the answer of each adapter is computed in closed
  form (`ReferenceAnswer`, `SqliteAnswer`), and completeness and agreement
  follow. Completeness needs `Retention > 0`.
- `ControlPlaneProofs`, the outbox. `LeaseExclusive` alone is not inductive: an
  expired lease whose row was taken over has to be known to carry a smaller
  attempt number. `HeldRows` supplies that (a worker's attempt is the row's
  latest exactly if the row is reserved for it), `AttemptsFence` carries it to
  removed rows, and the conjunction `TypeOK /\ HeldRows /\ LeaseExclusive /\
  AttemptsFence` is inductive. `RemovedByCurrentAttempt`, an action property,
  follows from `HeldRows`.
- `ControlPlaneProofs`, the cursor. `NoSkippedMessage` is inductive with the types and the
  window: an accepted batch is exactly the interval from the cursor to the
  batch's latest sequence (`AcceptedBatch`), whatever the service left out. The
  same lemma gives the step simulation for `GaplessReader`.
- `ControlPlaneProofs`, the stores. `Types` with `Capacity` (backups made and under way
  are at most `MaxBackups`) gives fresh backup identifiers (`IdInv`), from which
  backups never change. On top of it: what a key's entry, a backup's entries, a
  snapshot being digested and a running handler may hold (`EffectInv`) carries
  replays, final results and at-most-once over restores; the records that the
  store, backups, snapshots and editors know are one per revision number, all
  below the next one (`RevisionInv`), which carries lost updates; and the feed is
  accounted for from the last restore (`FeedInv`).
- `DataCoordinatorProofs`. What each stage of a call allows (`WellFormed`), that a
  superseded call is never current again (`SupersededIsPast`), and that every
  cache entry was stored by a call settled with success (`CachedBySuccess`)
  complete `CurrentOrAborted` to an inductive invariant `IInv`. The actions fall
  into two groups, each with one preservation lemma: those of one call
  (`CallStep`), and those that add a call and mark others as stopped
  (`NewCallsStep`). A second layer, `VInv`, carries the versions: a call that was
  told of an invalidation has read no older data afterwards (`CallsHonest`), no
  one has heard of a version the server has not had (`HeardOfServer`); with them
  `CacheFollowsInvalidations` and `SuccessInvalidates` are inductive. That an
  aborted call's handler does nothing more is an action property
  (`AbortsObeyed`). The order and size of the cache stay with TLC.
- `AsyncStoresProofs`. A commit in flight is the first task of the queue and was
  made from the snapshot the session still holds (`InFlight`); every snapshot on
  its way is older than the remote one or equal to it (`KnownInv`); the last notification on its way tells the remote snapshot
  (`Latest`). Together they give `WritesKeepOtherPaths` and `CurrentOrReported`.
  `Shown` (a control shows a held value or one whose write is queued) gives the
  rollback of refused writes, `Sealed` (what a disposed session may still take)
  the finality of disposal.

- `CollaborationProofs`. Each step keeps the history (`Kept`) or commits exactly
  one fresh revision on the branch's head (`Committed`), and the lemmas about the
  two carry everything: revisions never change, heads descend, candidates and
  proposals name revisions that exist (`Known`, `Pending`, `Admitted`, `Sources`),
  an idempotency entry answers the request it was recorded for. From them follow
  that a protected head changes only through its approved current candidate or an
  undo, and the step simulation for `BranchHistory`. The set of actors is assumed
  finite: `Cardinality` of the approvals means nothing otherwise. A second
  inductive invariant, `LogInv`, is about the event log and its follower: the last
  event about a branch names the head and the publication the branch has
  (`LogNames`), and whatever a follower without a gap knows of a branch is out of
  date only if an event after its cursor says so (`Follows`). It covers events
  dropped from the log, resumption after a gap, and commits between the reads of a
  re-read, and gives `FollowerAgrees`.
  A third, `RebaseInv`, gives `RebaseSafe`. About one patch, by induction along the
  fold that applies it (`PatchFacts`): a value that differs afterwards lies under a
  footprint of one of its operations, and an array that got longer or shorter is
  itself a footprint. About revisions (`Tree`, `Placed`): a parent is older than its
  child, so what a walk from a revision meets is determined by the tree and never
  changes while the tree grows, a proposal is placed on the revision its candidate
  was made for, and its base stays an ancestor of it. A value no intervening
  revision declares is then the same at the base and where the proposal is applied,
  by induction along the revisions between (`Unchanged`), and the conflict check
  has excluded the declared ones. Assumed: a patch is a sequence of operations of
  the six types on non-empty pointers, and `MaxItems` a natural number. With the
  types of the records (`RecordTypes`) the three invariants give `TypeOK`.
- `ApplicationProofs`. What the thread has left to do is a stack of tasks, and
  an exception unwinds it to the nearest handler, so everything depends on what
  may lie above what. `Ordered` says it: the end of an update and the delivery of
  what it held back have a handler right above them, a disposal's last steps lie
  below tasks that do not throw, and there is one task of an update at most. An
  exception therefore drops no task that must run (`Sheltered`, `NothingDropped`).
  `Publication` numbers the facts: those delivered, those on the agenda and those
  held back follow one another without a gap, which is `FactsInOrder`. `Phase`,
  `Coordinated` and `Agreed` say what the flags mean at every step of an update
  and which surfaces show which document, `Tentative` what the savepoint and the
  surfaces hold while one is open, so that a rollback finds what it needs.
  Together they are inductive and give `SurfacesAgree`. Assumed of the constants:
  finitely many nodes, and an initial value that is a value. A second layer,
  `Verdicts`, gives `VerdictsFresh`: a validator that may still be heard judges the
  value its control has, or the agenda owes that control a new validation
  (`Owed`), which only tasks that cannot throw or that have a handler of their own
  may precede (`Shielded`), so no exception drops it while the application is
  active. A request is named to its control before it is launched, launched once
  and answered later (`Asked`); an answer is taken while nothing is owed.
- `ApplicationServiceProofs`. A third layer over those of `ApplicationProofs`,
  `Service`, gives `PendingIsAnswered` and `StoresFollow`. A control whose request
  is not the one its validator works for, or whose store lacks its value, is
  promised a validation or a write (`Promised`): a task on the agenda that no
  exception of the tasks above it can drop (`Kept`). What makes the promise worth
  something is exclusion (`Exclusive`): while a task works for a control no task
  above it touches that control, so that its value is still the control's when it
  comes to it (`Sound`), and nothing works for any control while an update is
  prepared. An observer that calls for the very control being worked for breaks
  exclusion, a throwing selector a promise; the properties exclude both.
  While a coordination is open, the promises are kept to the graph it may restore
  and to the candidate (`Serving`).
- `NodeStoreProofs`. The store derives what follows from a change by recursions over
  the graph: downwards from a node, upwards along its parents, and from members to
  the groups that hold them. The provers cannot expand a recursive function, so the
  first part shows that these recursions are defined at all: the graph is finite and
  ranked (`GraphRanked`: upwards from a node there is an end), a function with the
  recursion's equation is built rank by rank (by induction on natural numbers, from
  their well-foundedness), and it is unique. `Below` is then what the lists reach
  (`BelowIsReach`), `Path` what the parents reach. The second part shows of each
  derivation what it keeps: node definitions and raw values always (`Keeps`), the
  errors a control owns unless the control changed. Every command then commits a
  `Draft`, a well-formed graph in which the edits survive that the command may not
  touch, and `Commits` gives the rest once for all fifteen commands. `StoreInv` (the graph is
  well-formed, its indexes agree with its nodes and it is ranked, and what is shown
  is what is owned) gives `IndexesAgree`, `ErrorsRouted` and `EditsKept`.
  The third part is about what is derived only where a command reached. A node the
  lists place (`Placed`) follows its parent (`Follows`) and is silent while disabled
  (`Quiet`); a change of disablement reaches everything below it because no placed
  candidate is left out of the walk (`CandidatesVisited`), and nothing else needs it,
  for a node the draft did not touch has an untouched parent. This, with `StoreInv`,
  is `DisableInv`; along the path of a node it gives `EffectiveDisabled`. An aggregate
  that is not computed anew has a list whose nodes are as they were
  (`AffectedClosed`), so each one summarises the nodes of its list (`Summarises`, in
  `SummaryInv`); that it then summarises everything below it is an induction from
  the deepest nodes upwards (`GatheredBelow`), used for errors, pending and edited
  marks, which gives `AggregatesSummarise`. These two theorems have hypotheses on the
  documents, stated in `NodeStore`. `RootedControls`: whoever holds controls has no
  parent, or a control parent, or is of an older document. It is needed: the
  page documents of `node_store_page` are exactly those it leaves out, and that run
  shows `EffectiveDisabled` violated. They are no rarity: the repository's example
  `control-topology.module.json` is a form inside a page, so the two theorems do not
  cover it. `ControlMembers`: a field holds no controls, and
  the members of an aggregate are fields or aggregates; an aggregate does not see a
  control below a visual node of its list. TLC evaluates both on the instances
  of the two runs (`HypothesesAssumption` of `MCNodeStore`).
  `NodeStoreAssumption` says that the ids are finitely many, that a document keys
  each definition by its id, and that a valid document is ranked. The code rejects
  a cycle of visual parents and one of control parents; a cycle that
  alternates between the two is neither rejected nor modelled.
- `StudioSessionProofs`. `IInv` joins the ledger of reservations (`LedgerInv`) with
  the stages of the operations and what each may know of the document
  (`SessionInv`). What accumulates over a proposal's operations is proved by
  induction on the set of operations (`SetInduction`), itself proved from the
  well-foundedness of the natural numbers. `ProposalsAssumption` states what the
  proposal schema guarantees of a proposal's operations.

Only model-checked: all liveness, which is out of the prover's reach, and
`PageCurrent` of `Application`, which holds only if the store retains more records
than callbacks can add before a fact is projected; every other invariant that a
run checks is proved.

## 6. Not modelled, and what the models assume

The modules cover the parts in which steps of several actors or long histories
decide what is correct. They map a small share of the lines of the repository:
most of its lines are compilers and validators of JSON documents, layout and
composition expansion, component and DOM code, renderers and exporters, and
hosts, which are functions of their input or browser code, and are tested as
such. Also left out:

- Control plane: audit rows; SQL text and row encodings; request validation,
  authentication and authorisation (they precede the modelled operations and
  change none of this state); HTTP; telemetry; encrypted recovery. Tenants are
  independent in the log and outbox modules, so these model one;
  `ControlPlaneStore` has two where identifiers could cross them.
- `DataCoordinator` leaves out the clock: an entry's age is a choice of the
  request (`fresh`) and of `Age`. `CacheFollowsInvalidations` states exactly how
  old an entry may be: a query that was already with its handler when an
  invalidation arrived may still enter the cache with older data, and nothing in
  the code excludes it.
- `AsyncStores` leaves out connecting, migrating and validating snapshots, byte
  limits, and the replacement of the document.
- `Collaboration`: comparing revisions, reads that change nothing, size limits. A request that is malformed, not
  authorised or about an absent target changes nothing and is a stuttering step.
  The host's validation is a function of a document's content: an undo then restores
  a document it admitted before, and cannot be refused (`revision-operations.ts:166`);
  `TypeCorrect` proves that every document held is an admitted one.
- `Runtime` and `Application` assume that callbacks of renderer and DOM do not
  enter the runtime during the coordinated part of an update, that a write to an
  adapter does not fail, and that machines belong to a scope that stays. Guards,
  machine commands, capability policies, composition migrations, focus,
  semantics, and re-entrant subscribers of selections are left out. A fact is one call of
  one observer, which calls back once at most. Every validated control of `Runtime`
  validates on input (`updateOn`), and none of them is disabled; disablement is in
  `NodeStore`. `FactsInOrder`
  is about the first observer, the projection. `StoresFollow` and
  `PendingIsAnswered` say nothing of a control that an observer changed while the
  thread was working for it (`overlapped`).
- `NodeStore` leaves out the touched flag, revision numbers of nodes, selections,
  initial values other than `Empty`, cycles of parents of both kinds, the
  record of changes and the order of routes. `SetDisabled` is a step only when it
  changes something. Page documents are in the violation run only: the passing
  run's forms are roots, as its property needs.
- `StudioSession` leaves out export, which changes nothing, and subscribers that
  call the session back. A preview's `dispose()` does not throw; in `session.ts:329` it would
  fail the call that disposes. `PatchEvaluation` has one presentation and one behaviour
  path for the tables of `ai/risk.ts`. `GovernedGeneration` leaves out prompts,
  routes and manifests.

## 7. Plan

1. The rest of `Application`: `PageCurrent`, from how many records callbacks can add
   before a fact is projected.
2. `EncryptedRecovery`, the admission windows, and the document loader.
3. An abstract specification of an asynchronous store, a register changed only
   by compare-and-set on a revision the writer has seen, that `AsyncStores`
   implements.
