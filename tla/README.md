# NoteStack in TLA+

This directory specifies the parts of NoteStack (repository `card-notes-app`) whose
correctness depends on the order in which things happen: the synchronization of notes
between devices through a cloud folder, what keeps the data of one device whole, and the
processes and sessions around them. The modules are translated from the TypeScript sources,
TLC checks them on small instances, and TLAPS proves the theorems of the `*Proofs` modules
for every value of the constants.

`PROJECT.json` lists every component, run, hazard and theorem and maps every definition
to the lines it models. Paths below are relative to the repository root;
`sync/` stands for `backend/src/modules/sync/`, `modules/` for `backend/src/modules/`.

1. [The system](#1-the-system)
2. [The modules](#2-the-modules)
3. [The runs](#3-the-runs)
4. [The proofs](#4-the-proofs)
5. [What the model checker found](#5-what-the-model-checker-found-in-the-code)
6. [What is not modelled](#6-what-is-not-modelled)

## 1. The system

NoteStack is an Electron application: a React frontend talks HTTP to a NestJS backend that
keeps everything in one SQLite database. Synchronization is optional. When it is on, the
backend exchanges one JSON document per note, one for the configuration (note types, columns,
labels, settings) and one file per image with a folder at Google Drive or OneDrive. Other
devices do the same. There is no server of the application's own except a relay that forwards
Google's change notifications.

| component | state | operations | talks to |
|---|---|---|---|
| **notes** `modules/notes/` | tables of notes and values | create, update, move, prune, delete (tombstone) | journals every change in the outbox, in the same transaction |
| **settings** `modules/settings/` | note types, columns, labels, sources of columns | create, edit, retype, move, delete with or without what depends on them | notes, outbox |
| **export and import** `modules/export-import/` | a file | export, validate, import | settings and notes, in one transaction |
| **assets** `modules/assets/` | files in a managed directory, a row for each | store, verify, migrate, quarantine | notes, the pass |
| **sync outbox** `sync/sync-outbox.repository.ts`, `sync/utils/enqueue-sync-outbox-mutation.util.ts` | table `sync_outbox`: pending, claimed (token, lease), completed, superseded | enqueue with coalescing, claimAvailable, renewClaim, complete, fail | written by the domain repositories, drained by the pass |
| **reconciliation gate** `sync/sync-reconciliation.service.ts:34-140` | `activeRun`, `exclusiveOperation`, `followUpRequested` | run, runWithinExclusive, executeExclusive | orchestration calls run; pairing, enable, disable, repair, reset call executeExclusive |
| **reconciliation pass** `sync/sync-reconciliation.service.ts:142-628`, `sync/sync-reconciliation.repository.ts` | bases and versions of remote objects, cursor, conflicts | pull, merge, apply, claim, push, verify, complete; repair of missing or damaged objects | adapter, outbox, merges, assets |
| **note merge** `sync/utils/merge-sync-note-document.util.ts` | none | three-way merge with conflict copies and tombstones | called by the pull |
| **configuration merge** `sync/utils/merge-sync-configuration-*.util.ts` | none | row-wise merge with a fallback to one version | called by the pull and by the resolution of conflicts |
| **conflicts** `sync/sync-conflict.*.ts` | table of conflicts, conflict copies | record, list, resolve | written by applyPull, resolved by the user |
| **orchestration** `sync/sync-orchestration.service.ts` | state, retry attempt, timers, observed outbox signature, pending run | trigger (13 kinds), run, retry, debounce, watchdog, observer | calls the gate; drives the OneDrive scheduler |
| **OneDrive scheduler** `sync/one-drive/one-drive-delta.scheduler.ts` | enabled, running, pending trigger, awaiting external poll | trigger, setEnabled, setActive, completeExternalPoll | polls through orchestration |
| **pairing** `sync/sync-pairing.service.ts` | table of pairing operations: prepared, applying, completed, failed, cancelled; a database backup | prepare, confirm, cancel, enable, disable, disconnect, repair, reset, recovery at start | gate, adapters, database service |
| **provider adapters** `sync/google-drive`, `sync/one-drive`, `sync/fake-provider` | caches of identifiers | enumerate, list changes, read, conditional create and update, chunked uploads | HTTP |
| **Google notifications** `sync/google-drive/notification/` | relay client, lease, channel, generation, fallback timer | observe, connect, replace channel, reconnect, fall back to polling | relay, Google's watches, orchestration |
| **relay** `notification-service/` | devices' tokens, verifiers, channels, renewal lease, pending notification, alarm | authorize, connect, prepare and finalize a channel, webhook, lease, alarm, maintenance | Google's webhooks, devices' web sockets |
| **database and backups** `modules/database/` | the SQLite file, backup files | open, migrate, back up, verify, restore | pairing, start-up |
| **electron shell** `electron/src/` | start attempts, credentials, updater state | start, retry, quit; connect, refresh, disconnect; check, download, install | backend processes, identity providers, the update server |
| **frontend** `frontend/src/` | query cache, data revision last seen | start-up gate, lists, mutations, update page | HTTP |
| **diagnostics**, **health** | none | log, answer | |

### What is hard

* **Interleaving inside one process.** Node runs one callback at a time, but every `await` of
  a pass lets the user's request handlers in. A pass decides about a document when it has read
  it and applies the decision several requests later. Tokens, health answers, lists and update
  checks arrive after the user has moved on.
* **Several devices, no locks.** The folder changes between any two requests. The only
  protection is the version precondition of a write; on Google Drive not even names are unique.
* **Failure between two steps.** A pass dies with claims taken, or with a write stored whose
  response never came; a pairing, a migration or a restore is interrupted at any statement.
* **Merges of merges.** Two devices merge each other's results; a merged document reuses a
  mutation id.
* **Serialisation by promises.** Runs and exclusive operations wait for each other through
  three fields and promises resolved in `finally` blocks.
* **Timers** of orchestration, scheduler, coordinator and relay that overwrite and cancel each
  other.
* **Long sequences of legal edits** of the catalog, each of which rewrites notes elsewhere.

### What makes the components correct

* *outbox*: a key has at most one pending row (the database enforces it; running into the
  index aborts the statement); one pass works on a row at a time, leases and late answers
  notwithstanding; no change is forgotten, in particular not one made while an older document
  of the key is in flight; every change is settled in the end.
* *gate*: an exclusive operation has the device to itself; the answer of a call comes from a
  pass that began after the call; everybody gets a turn, also after failures.
* *merges*: the same result on both devices; what a merge drops is in a conflict copy or a
  recorded conflict; a deletion wins over an edit; a merged configuration has no column or label
  of a deleted type.
* *reconciliation*: no value a user wrote disappears; the cursor never passes an unapplied
  change; a tombstone stays; devices run out of work, unless the journal rejects their pulls; the
  image of a note at the provider is there or on its way.
* *orchestration, scheduler*: a mutation in the outbox leads to a run; a transient failure leads
  to a retry; polling never stops for good.
* *notifications*: an accepted webhook leads to a signal; a device that is not notified polls;
  dead sockets are closed.
* *pairing, database*: an operation that fails or is interrupted leaves the database as its
  backup has it, and undoes no other edit; the user's data can be got back at every moment.
* *adapters*: devices that have listed all changes use the same file of a key; an upload ends.
* *catalog*: every change is journaled; notes, columns and labels belong to something that exists
  and values fit their columns; an export can be imported, but for what a change of a column left behind.
* *electron shell*: one backend works on the data; a disconnect is final; what the updater offers
  is what it has.
* *frontend*: a list does not go on showing what a finished mutation or run has replaced.

## 2. The modules

```
OutboxPromise          what the outbox promises                 (abstract)
     ^ refined by
SyncOutbox  ---EXTENDS--->  OutboxRows  <---INSTANCE---  Reconciliation ---EXTENDS---> NoteMerge
     ^                      statements on the table       devices and provider         merge of one note
     |                                                        ^             ^
SyncOutboxProofs                                       MCReconciliation   ReconciliationProofs

MCProgress  = ReconciliationGate + Pairing + ResumableUploads
MCTriggers  = Orchestration + NotificationRelay + GoogleChannels + SyncOutbox
MCData      = ProviderObjects + ExportImport (EXTENDS Catalog) + ConfigurationMerge + Assets
              + Database + Startup + Authorization + Updater + NotesPage

ProgressProofs   of MCProgress   and its parts, with  ReconciliationGateProofs
TriggersProofs   of MCTriggers   and its parts, with  SyncOutboxProofs
DataProofs       of MCData       and its parts, with  CatalogProofs    (Catalog, ExportImport)
                                                      ElectronProofs   (Startup, Authorization, Updater)
```

`+` composes components *side by side*: the module EXTENDS them all, a constant variable `part`
names the one that takes steps, and the others stay in their initial state. The state space is the
sum of theirs, not the product. That is what the code allows: what one of these components sees of
another is a trigger, a closed socket, a failed request, a restart, which each module leaves open
as a choice of its environment. Where two components share state their interaction is in one
module: outbox and passes in `SyncOutbox` and `Reconciliation`, orchestration with the
scheduler, the gate's reservation and the outbox in `Orchestration`, coordinator with relay,
lease and Google in `GoogleChannels`, catalog with import in `ExportImport`, pairing with backup
and restore in `Pairing`, images with journal, pass and folder in `Assets`, updater with its page,
cache with backend.

Everywhere an action is the code from one await (or callback) to the next, a synchronous
operation with its transaction is one action, and a request that can fail has its outcomes as a
choice: carried out and answered, carried out with the answer lost, not carried out. *History*
variables (marked so at their declaration) record what a property needs to remember; no guard of a
code action reads them.

### OutboxRows, SyncOutbox, OutboxPromise

`OutboxRows` has one operator per SQL statement on `sync_outbox`; the table is a function from
primary key (`mutation_id`) to row. Kept are the columns a statement reads back. `intent`,
`base_hash`, counters and timestamps that only document a row are left out;
`claim_expires_at` and `next_attempt_at` are counters of ticks that run down to 0.

`SyncOutbox` is the outbox with its clients. `Mutate` is a domain change with its journal entry;
`ClaimAvailable`, `Snapshot` (`listClaimedDocuments`), `Push`, `Complete`, `Fail`, `Renew` and
`Abandon` are the steps of a pass; `Acknowledge` is the UPDATE at the end of `applyPull`; `Tick`
is time. `held[w]` is what pass `w` has in memory: it survives neither its death nor a claim
taken over by someone else, which is what the token is for. Passes of one process are
serialised by the gate, but the outbox does not rely on that: the runs have two passes at once,
as after a restart or with a slow pass whose lease ran out. `renewClaim` is modelled because the
repository offers it, although reconciliation never calls it. Mutation ids are numbered in the
order they are made, which stands for `ORDER BY created_at, mutation_id`. The provider is
reduced to the newest content it has stored per key; its version precondition, and merging,
are in `Reconciliation`.

`OutboxPromise` is the same thing without rows, claims and leases: a changed key stays *owed*
until the provider has its newest content. The refinement maps `owed` to the keys with an open
(pending or claimed) row.

### ReconciliationGate

Callers of `run` and of `executeExclusive`, promise by promise. Promises are numbered and 0 is
null; `released` has the reservations whose promise has resolved. One action is the code from an
await to the next. The `do ... while` loop of `runSerialized` is `FollowUp`, `EndRun` and
`FailRun`; the end of the last pass, the end of the loop and the `finally` that clears
`activeRun` are one macrotask and one step. What a pass does is left out here.

### NoteMerge

`mergeSyncNoteDocument` with all its branches. A document is mutation id, payload and parent;
its content hash covers all three, so hashes are equal exactly when documents are. Authority is
the order of mutation ids; two documents with one id are ordered by their content hash, which
may go either way (`LocalMayWin`).

### Reconciliation

Several devices with a database (`db[d]`: notes, bases, journal, cursor, conflict copies) and at
most one pass each (`pass[d]`, lost when it dies), and the provider's folder (`remote`, `clock`).

| action | code |
|---|---|
| `Create`, `Edit`, `Delete` | the notes repository and the journal, one transaction |
| `List` | `collectChanges`: after the cursor, or everything when the provider has forgotten the cursor |
| `Read` | one turn of the loop in `pull`: read a document, compare, merge (`Decide`) |
| `FinishPull`, in the last `Read` or an empty `List` | `applyPull`: notes, bases, copies, journal, cursor in one transaction, or a rollback when the journal rejects an entry |
| `Claim` | `claimAvailable`, `recoverAcknowledgedClaims`, `listClaimedDocuments` |
| `Push`, `PushRefused`, `PushFails` | one conditional write; refused: claims failed, pull, start over up to `RetryLimit` times; failed: before or after the provider stored the document |
| `Complete` | the completion of the claims after the verifying pull |
| `Die` | the process dies or a request of a pull fails; the claims stay |
| `Wait` | leases and retry delays run out |

The code between two awaits runs without interruption: a user's edit is possible exactly at the
awaits (`AtAwait`). From the last read of the first pull to the first write there is none; it is
split in two steps (`Read`/`List` and `Claim`) between which no edit is possible.
A conflict copy is a note of its own with an id derived from the conflict; it is kept in
`copies`, and its own upload is not followed. Provider versions are taken from one counter for
all objects, of which only equality per object and the order against cursors matter. The
adapters' contract is that of the fake adapter.

Left out of the pass: listings of several pages, devices that join later, and the upload of
conflict copies. Images and objects that are missing or unreadable are in `Assets`, the
configuration document is in `ConfigurationMerge`. All devices start with the notes in `Existing`
synchronized; other notes are created by one of them.

### Orchestration

`SyncOrchestrationService` with the `OneDriveDeltaScheduler` inside it. A timer is a flag and may
fire whenever it is set, so the lengths of delays, back-off and jitter are left out, and every order
of timers is there. Kinds of trigger that lead to the same code are one action (`Trigger`). The gate
is reduced to "reserved or not" (`Reserve`, `Operate`, `ReleaseGate`), the pass to two phases, before and
after it claims, the outbox to the rows nobody has claimed and those the run holds. `unseen` says
that the pending signature differs from `observedOutboxSignature`. `RunSucceeds` and `RunFails` contain
everything `executeRun` does up to the `finally` that starts the pending run, with the ending of a poll
and `completeExternalPoll`. Diagnostics and the content of the status are left out.

### NotificationRelay

The relay of one workspace from a webhook to the signal. Its handlers are serialised by
`operationQueue` and are one step each; one that dies leaves the snapshot stored before it, and the alarm
as far as it was set. Deadlines are ticks left. Secrets are the current one, the previous one while
the rollover lasts, and older ones. Request limits, quotas and signatures are left out.

### GoogleChannels

One device's coordinator and client with what it shares with others: the relay's channels and renewal
lease, and Google's watches. A request is carried out and answered, carried out while the answer is
lost, or not carried out; `Renewal` is the call of `replaceChannel`, one request per step, and the other
device, expiry and closing sockets come between any two. The coordinator does not get another runtime
while a Google request is under way: what two overlapping replacements do is not covered (see
section 6). `ChangesAreLearnt` does not ask for anything after a finalized channel was discarded
(`retracted`): then the relay knows a channel the device has given up.

### Pairing

`SyncPairingService` with its repository and backups. The database is one value, so that a backup and its
restoration are assignments; its data is a whole state, cleared, or in the middle of a pass. A step
is a statement or a request, the process can die after each, and `Uninterrupted` names the statements
between which no other handler runs. `Prepare`, `Confirm`, `Identified`, `WorkspaceFound`, ... follow `prepare`,
`confirm` and `apply`; `StartUp` is the recovery of `onModuleInit`, and can be interrupted itself. The run
`progress` has `MaxPreparing = 1`: calls of `prepare` do not overlap. With two the invariant fails; that is
the run `pairing_unrecovered`. `ConfirmationsEnd` excepts a crash that tears the database file (`torn`):
nothing can be recovered from it, and `Database` has what survives.

### ResumableUploads, ProviderObjects

`ResumableUploads` has both upload loops, `uploadBytes` of Google and `uploadChunks` of OneDrive, with
the session as the clients expect it: it takes some of a chunk, or nothing, and says how much it has.
OneDrive's loop sets its count of attempts back on any 202, also one that took no byte, and asks for the offset
after a 416 (`OneDriveRange`); so it goes on for as long as the session answers, and `UploadsEnd` assumes
that a session asked for ever takes some bytes in the end.

`ProviderObjects` is one logical key at a provider, with adapters that create, look up, update and list its
files. Google Drive takes any number of files with the same key, of which the `Canonical` one counts;
OneDrive has one item of a name. The drives are modelled from the requests the adapters send. An adapter has a
cache of file identifiers, a cursor in the feed of changes, and what it knows of the key. Users put files into the
trash, or delete them for good (`Trash`). At Google Drive a cached file in the trash is looked up again by its key;
one that is gone makes the lookup fail with a 404 (`LookupFails`), until the adapter has listed the change. That
it is then no longer in the cache is part of `DevicesUseOneFile`.

### Catalog, ExportImport

`Catalog` is note types, columns, labels and notes with every route that changes them. All of it is
synchronous, so each is one step, except the creation of a note type, which is two
transactions with a crash between them. A column has texts, labels (one or several) or images (one or
several); a value is a set: nothing, a text, an image, a list of images, or labels. `unjournaled`
collects what changed without an entry in the journal. Names, colours, orders and general settings are
one thing that an edit changes. `ExportImport` adds files and spreadsheets. The imports match titles and
names, which can be edited between export and import; so an import may match any type, column or
label of the right kind.

Values of an export must fit the columns they are in, and labels, texts and images are kept fitting in different
ways: `moveNotesToType` filters labels and copies everything else as it is. `Fits` is the check of the import,
`Accepts` that of a note. `ExportsImport` says value by value that what is exported fits, with two
exceptions. One is a Labels column whose source type was deleted. The other is a column with `strays`: no
column is created with them, and the history bit is set where the code changes a column and leaves the notes
(`Outgrows`: it is retyped, or a column of several images becomes one of single images), by an edit or by an
import (`syncImportedColumn`); where a column is deleted and its values are kept; and where a move copies values
out of a column of strays, or lists of images into a column of single images (`StrayTargets`). In each of these the
code accepts the change, and `ensureValueMatchesColumnType` then refuses the application's own export
(`modules/export-import/export-import.service.ts:1976`). The run shows that the exceptions are needed: without
`StrayTargets`, or without the narrowing in `Outgrows`, `ExportsImport` fails at four changes.

### ConfigurationMerge

`mergeSyncConfigurationDocument` and its callers: a document is a function from identifiers to rows;
`ancestor`, `local` and `remote` are the base, this device and the file at the provider, which the other
devices edit as they like. A merge that would leave a column or a label of a deleted type falls back to one of the
versions as a whole, and `apply` writes rows and never removes any. So rows the version lacks can
stay; `ConfigurationWhole` claims nothing from then on (`whole`), and `NothingSilentlyLost` covers what was dropped
by asking for a recorded conflict.

### Assets

An image from the disk to the provider and back: the file, its row, the note that shows it, the journal,
mappings, and a pass that pulls, uploads and verifies, with the repair of objects that are missing or
damaged. A pull records a conflict for each damaged object it cannot repair, and keeps that when it fails
afterwards. A claim takes any of the pending rows, so there is no limit of a batch. The pull is one step, since its interleavings with edits are the subject of `Reconciliation`;
that it can fail half-way, with the repairs before the failure done, is here. `ImagesFollowNotes`
excepts an asset whose deletion at the provider is taken for news about something unknown (`slipped`).

### Database

Opening, the backup before destructive migrations, the ten migrations by the statements that matter to
rows, publishing a backup (a candidate that is verified, then renamed, to a name with a hash when the name is
taken), and restoring one. A crash may come between any two of these, and one that hits the copying of
a backup tears the file. `Made[n]` is what a version with the first `n` migrations left.

### Startup, Authorization, Updater

`Startup` is the controller with its attempts, the backend processes, another backend that may be at the port
(`stranger`), the window, and quitting. Health answers, exit events, timers and messages to the window are
separate steps.

`Authorization` is `OAuthService`: attempts to connect, refreshes, disconnects, the loopback listener and
the encrypted store that the user can lock. `era` counts the disconnects of a provider, and a
credential remembers in which it came about. A disconnect that throws since the store is
unreadable promises nothing (`refused`).

`Updater` is the updater service, electron-updater modelled from its use, the preference for prereleases, and
the settings page, which shows the state it was last sent.

### NotesPage

`SyncStartupGate`, `SyncCacheObserver`, the list queries, mutations and commands, and the backend behind
them. TanStack Query is modelled from its use: one fetch of a query at a time, one retry,
an invalidation that restarts or joins a fetch. What a list shows is the number of updates it has seen.

## 3. The runs

Each run takes less than four minutes. The largest are `data` (1.2 million distinct states), `progress`
(205 thousand) and `reconciliation_settles` (217 thousand).

| run | bounds | shows |
|---|---|---|
| `outbox` | 2 keys, 2 passes, 3 mutations, batches of 2, leases and delays of 1 tick | `TypeOK`, `OnePendingPerKey`, `ClaimsExclusive`, `NoChangeForgotten`, and that the outbox implements `OutboxPromise` |
| `progress` | gate: 3 callers, 2 owners, 3 runs, 3 reservations; pairing: 2 operations, 1 edit, 2 crashes; upload: 5 bytes in chunks of 2, 3 attempts | `Exclusion`, `AnswersAreFresh`, `OwnersGetTheirTurn`, `CallersReturn`; `NothingHalfApplied`, `EditsSurviveRecovery`, `ConfirmationsEnd`; `UploadsEnd` |
| `triggers` | relay: 1 device, deadlines of 1 to 3 ticks; 2 channels; outbox: 2 keys, 1 pass, 3 mutations, batches of 1, leases of 2 ticks | `WorkStaysScheduled`, `MutationsReachAPass`, `PollingResumes`; `ChangesAreSignalled`, `DeadSocketsClose`; `ChangesAreLearnt`; `EveryChangeSettles` |
| `data` | see below | `DevicesUseOneFile`, `ChangesAreJournaled`, `CatalogIsWhole`, `ExportsImport`, `ConfigurationWhole`, `NothingSilentlyLost`, `ImagesFollowNotes`, `DataKept`, `OneBackend`, `DisconnectsAreFinal`, `OffersHold`, `ListsKeepUp` |
| `reconciliation` | 2 devices, 1 note with 2 fields, 2 mutations (1 deletion), 2 faults, 2 retries | `NothingLost`, `TombstonesStay` |
| `reconciliation_keys` | 2 devices, 1 existing and 1 new note, 2 mutations, 1 fault, no retries | `CursorSound`, `NoBlindWrite` |
| `reconciliation_settles` | 2 devices, 1 note with 2 fields, 2 mutations (1 deletion), 1 fault, 2 retries | `Settles` (liveness) |
| `merge_diverges`, `journal_wedges`, `pull_overwrites`, `tombstone_returns`, `pairing_unrecovered` | see section 5 | each a counterexample |

Each run that composes components has one type invariant over all of them.

**Why these bounds are enough.**

* *outbox*: three mutations on one key give a claimed row, a pending row beside it and one that
  coalesces; two passes give a lease that is taken over while its first owner still answers. The lease
  of 2 ticks in `triggers` can be renewed half-way.
* *gate*: three reservations by two owners make a queue with one owner calling again; three callers
  join, wait and retry at once.
* *pairing*: the second operation meets what a failed, cancelled or recovered first one left; one edit
  may come before or after the backup; two crashes interrupt the confirmation and then its recovery.
* *uploads*: 5 bytes in chunks of 2 give a full chunk, a chunk the session took in part, and a last one
  that is shorter; the third attempt is the one that gives up.
* *orchestration* needs no bounds. *relay*: every deadline is long enough to be overtaken by the others;
  devices do not interact at the relay, so one is enough. *channels*: one to be replaced by the other,
  with a third party's lease between them.
* *reconciliation*: two edits on two devices are the smallest conflict, and two fields tell a clean
  merge from a conflicting one; two faults let a pass die twice or a write fail after a pass died.
  `reconciliation_keys` has two notes so that one may change while the other is read. `RetryLimit` is 2
  in the code. Within these bounds no pass is refused often enough to use that up, so `reconciliation_keys` has
  0: there a refused pass gives up, its claims wait for their delay, and the next pass goes on. The other
  runs have 2 and go through the retry.
* *data*: two adapters and two files are a duplicate on Google Drive; three types, two columns, two
  labels, one note and four changes reach a label shared by types, retyped columns, a deletion with what
  hangs on it, an export that is imported after its source changed, and each way in which a column comes to have
  strays but two: an import that narrows a column, and a move out of a column of strays, need more changes and are
  covered by the proof only. The first type begins with a note that has a value in a column of labels or images
  (either kind of each), so that the changes are spent on what follows; two types, one part and three
  mutations are a deletion against an edit of what belongs to it; one image, two documents, two faults,
  two edits and two crashes of the database; two start attempts; two providers, one
  person, two connects, one refresh, one disconnect; four checks for updates; one filter, caller,
  update, run and lost request each for the page.

**Settling.** `Settles` is said of each device: it runs out of work for good, or its journal has rejected a
merged document (`wedged`). The exception is a defect of the code, which `journal_wedges` shows: from then
on every pull of that device is rolled back and its claim stays until somebody edits the note, so nothing can be
promised there, with or without faults in other places. The run reaches it, since a second field makes the
merged document differ from both sides, and shows that the *other* device settles all the same; and
that devices with conflicting, merged and deleted notes whose journals took every document all settle. Two
mutations and one fault do not refuse a pass often enough for it to give up: that is in the run
`reconciliation_keys`, for safety only. Symmetry is not sound for liveness. Instead
`RepresentativeSpec` explores, of behaviours that differ in the names of devices and fields only, the one that
begins at the first; only the very first mutation is restricted, which no fairness speaks of.

**Three runs of Reconciliation** ask different questions at different cost. Liveness multiplies the
state space, so it has a run with one fault less. `NothingLost` holds when a listing has one document and
fails when it has two (`pull_overwrites`); `TombstonesStay` holds for notes every device knows and fails
for new ones (`tombstone_returns`). The passing runs check them where the code does deliver them, and
`ReconciliationProofs` proves that this is where: see section 4.

**Liveness with two passes** of `SyncOutbox` would ask too much: two passes whose leases are
shorter than their work can take rows from each other for ever. The gate admits one.

**Deadlock** is not checked: all bounds are on what the environment does (mutations, calls,
faults), and when it has done all, a system with nothing left to do stops.

Symmetry (devices and fields; keys, passes and tokens) is used in runs without liveness
properties only. Ids and versions are ordered and not symmetric.

**Mutants.** For every property of a passing run `PROJECT.json` names a mutated definition, a
plausible bug (`Mutant...`, next to the definition), which makes that run fail.

### Fairness

No run assumes that anybody edits, calls, fails or crashes.

* `SyncOutbox`: time advances (`Tick`) and passes keep being started (`ClaimAvailable`; the watchdog
  interval of orchestration, `backend/src/modules/sync/sync-orchestration.service.ts:121`). Passes may be
  killed and writes refused any number of times, but not every time for ever: strong fairness of
  `Snapshot`, `Push`, `Complete`.
* `ReconciliationGate`: resolved promises run their callbacks, a pass and an operation end. That a run
  *fails* is never required, so `FailRun` has no fairness; an operation may run passes of its own but
  not infinitely many (`SF` of `ReleaseReservation`; the code runs one).
* `Pairing`: a process that died is started again, requests are answered or time out, statements run.
* `ResumableUploads`: requests end, with an answer or without, and a session that is sent chunks again and again
  takes bytes of one in the end (`SF` of `SessionTakes`). The code does not ask for the latter: a OneDrive session that
  answered 202 for ever and took nothing would be sent the chunk for ever.
* `Orchestration`: the watchdog interval fires, an operation ends, a pass ends (`WF` of `RunFails`), and
  passes do not all fail for ever (`SF` of `ClaimMutations`, `RunSucceeds`). No other timer has to fire.
* `NotificationRelay`: time goes by, an alarm that is due fires. Handlers may die.
* `GoogleChannels`: the coordinator's interval goes on observing, a closed socket is noticed, requests end.
* `Reconciliation`: a device keeps starting passes and a pass that is not killed goes on
  (`WF` of `Step`); time goes by between passes (`SF` of `Wait`, since an idle device may start the
  next pass at once).
* `data` has invariants only.

`MCProgress` and `MCTriggers` state the fairness of their parts together: since `part` is constant, a
disjunction of one action of each part is fair exactly when the action of the part that runs is. It keeps
the number of conjuncts, which is what TLC's liveness check costs, at that of the largest part.

## 4. The proofs

Checked by TLAPS (SMT, Zenon, PTL), for every value of the constants under the assumptions the modules
name, which TLC evaluates in the runs: bounds are numbers (positive where the code has at least one), null
is none of the values it stands beside (`OutboxAssumption`: the null token is no token, and leases are
positive; `SyncOutboxAssumption`: mutation ids are `1..MaxMutations`, batches are not empty;
`ReconciliationAssumption`: the payload of a tombstone is not the payload of a note;
`ConfigurationAssumption`, `RelayAssumption`, `PageAssumption`, `AssetsAssumption`), and providers,
people, filters and callers are finitely many (`AuthorizationAssumption`, `PageAssumption`). Four hypotheses are stated by the
theorems that need them: `MaxPreparing <= 1` (calls of `prepare` do not overlap), `Existing = Keys` (the
notes in question are those every device started with), `NullIsNoDocument` (null is no record) and, for
`ValuesAreKept`, that no step is an `EditOvertakesPull`. Without the first, second and last, the properties are
false, and runs that expect a violation show it.

Every safety property a passing run checks, invariant or action property, is stated by a theorem, but for
the refutable ones outside these hypotheses. Each proof has an initial-state lemma, a lemma per action, and
an inductive invariant, which is the subject of the following paragraphs.

**SyncOutboxProofs.** `NoChangeForgotten` alone is not inductive: a claim might be completed
whose document is older than the content. `IInv` adds what rules that out: tokens exactly on claimed rows
(`TokenIffClaimed`), ids not used twice (`IdsMinted`), one entry in memory per claim
(`EntriesUnique`), and entries in step with the device and the provider (`EntriesInStep`: what was
sent is delivered). There is one lemma per action; the steps that only settle or drop entries share
`KeepsRowsKeepsIInv`. The difficult ones are `ClaimAvailableKeeps` (the new token tells the new
entries from those of every earlier claim of the row) and `MutateKeeps` (the edited key gets
a *pending* row, also when a document is in flight). Theorems: `TypeCorrect`, `PendingUnique`,
`ClaimsExclude`, `NothingForgotten`, and `OutboxImplementsPromise`: every step of the outbox is a
Change, Deliver or Settle of `OutboxPromise`, or a stutter.

**ReconciliationGateProofs.** `GateInv` says that reservations resolve in the order they were made,
that an owner waits for all reservations before its own and for the one run that can be active,
and that without a reservation in the field none is outstanding. Two operating owners would each
have found the other's reservation resolved: `GateExcludes`. Also `GateTypeCorrect`, `GateReserves`
(`ReservationStands`: while an owner has not finished the field holds a reservation that is not resolved)
and `GateAnswersFresh` (all joined callers are served unless a follow-up is requested).

**ReconciliationProofs** has three parts.

*Versions and cursors.* `CursorSound` speaks of what is saved; while a pull reads, the provider goes on
changing. `IInv` says of each pass that what the provider has from before the cursor of its listing is still to be
read, was read as it is, or was known (`Covered`), and that whoever holds the provider's version
of an object holds its document (`Known`, and `SoundItems` of what was read). A version names one document,
since `Store` takes a new one. `CursorsAreSound` is the invariant; `WritesReplaceKnown` follows from `Known`: the
precondition compares versions, and what is replaced is therefore what was merged with.

*One merge.* `MergeCommutes`: the two devices get the same document and the same copy from opposite
sides. `MergeKeepsEdits`: the value a side gave a field is in the result or in the copy. `DeletionWins`: with a
base, a deletion wins over an edit, and the edit is kept as a copy.

*Deletions and values* of existing notes. `DocumentsInv` says that a note whose deletion the device knows of
is deleted there (`NoteSound`), that a decided item keeps that so (`ItemSound`), and that a pass sends
no live document over a tombstone (`EntrySound`). So a push, which replaces what its device has as the base,
replaces a tombstone by a tombstone: `TombstonesAreFinal`. For values, `Keeps(M, C, k, p, q)` says that
payload `q` of note `k` has every value a mutation in `M` gave that `p` has, but for those in the conflict copies `C` or knowingly
replaced; it is reflexive and transitive. `KeptInv` states it along the ways a value travels: from a device's
base to the provider's document and to its own note, from what was read to the provider's document and to
the note the item will leave, from the note to that one, and from the base to what is being sent. A merge drops a value of one side
only into the copy or because the other side no longer has the base's value (`MergeKeepsEverything`), in which case
the chain from base to that side says where it went (`DecideAccounts`). Each step extends the chains at one
end, except one: an edit of a note that a pull has read and not yet applied breaks the chain from the note to the
item. That is `EditOvertakesPull`; without it `ValuesAreKept`, and `NothingOfOneNoteIsLost`
since the pull of a single note has no await between reading it and applying it (`NothingRead`). The hypothesis
is exactly what `pull_overwrites` violates. Notes created later are excluded for what `tombstone_returns`
shows; `ReconciliationProofs` says nothing of them beyond versions and cursors.

**ProgressProofs.** *Pairing*: `RecoveryIsComplete` and `RecoveryKeepsEdits`, with any number of operations,
edits and crashes, if calls of `prepare` do not overlap. The argument begins with `OneActive`: one operation is prepared or
applying at most, and none while a `prepare` waits, so that the active operation which the next start
looks for is the interrupted one. This is where `MaxPreparing <= 1` is needed, and what `pairing_unrecovered`
breaks. `Interrupted` says that an applying operation is being confirmed, or the process has died, and
that its backup is `Restorable`: whole, with every edit that is to be kept, and with this operation prepared
and no other. Whoever is not in the middle of a confirmation is then in a whole database (`Calm`).
`PairingTypeCorrect` holds without the hypothesis; it needs that an applying operation has a backup, in the
database and in the backups themselves (`PairingShaped`). *Uploads*: `UploadTypeCorrect`, neither side counts bytes the
file does not have. *Composition*: `ProgressTypeCorrect`.

**TriggersProofs.** *Orchestration*: `WorkIsScheduled`. A mutation or a failed run that is owed a run is
found idle (`EditsWait`, `RetriesWait`): no run is active that could absorb it, the account is one
that runs, and the observer, the debounce or the retry timer has it. `OnePoll` and the two conjuncts after it
(`WaitersAreAnswered`) are what a run's `finally` relies on: a pending request or a poll has an active run that
will answer it, and the scheduler has at most one poll due, under way or left to a retry. *Relay*: `RelayTypeCorrect`; the alarm is
never set beyond the latest deadline there can be, which holds since each handler sets it to the least of deadlines
that are each within their bound. *Channels*: `ChannelsTypeCorrect` needs `ChannelInHand`: between preparing and finalizing,
a replacement has a channel. *Composition*: `TriggersTypeCorrect`, with the outbox's `IInv`.

**CatalogProofs.** `CatalogIInv` strengthens `CatalogIsWhole`: a value of a live note is for a live column of
the note's type and of live labels, one of them where one is allowed (`ValueFits`), and a text or image one that its column accepts, unless the column
has strays, which only a column that was made can have (`StraysKnown`); notes, columns and labels belong to live types
(`Belonging`); a running process has a type with its default columns (`TypesReady`); and `unjournaled` is
empty: action by action, what changes is among what the transaction journals (`EveryChangeJournaled`).
`ExportsCanBeImported`: the file is made of rows like the catalog's (`FileTyped`) and keeps what the catalog had when
it was written, so the checks of the import hold of it for good. The work is in the catalog: each route, move and
import puts a value into a column that accepts its kind, or the column is marked.

**DataProofs.** *Configuration*: `ConfigurationIInv` adds to `ConfigurationWhole` that tombstones and types
are well formed (`FormedRow`) and that a row the base has never vanishes at the provider (`RowsStay`).
`ConfigurationLosesNothing` is then a statement about one merge of such documents.
*Provider objects*: what a device has cached as the file of the key is the canonical one, or
the change that made another one canonical is still in its feed (`Explained`); of a cached file that was deleted, the
deletion is (`CacheHeard`). *Assets*: every image is unknown
to the device and the provider, or `Safe`: it is there, it is journaled, or the device has still to
hear that it is gone. *Database*: the number of the last edit tells what the user had (`EditsTell`), so a
backup recognised by that number can stand for the database; `PairingKept` and `FoundIsKept` follow a
backup from the comparison to its name. `Made` is a recursive function over the migrations;
`MadeIsMade` unrolls it over the versions there are. *Page*: a list that was told of an update has it, is fetching it, is due to
be asked for, or shows an error (`KeepsUp`). *Composition*: `DataTypeCorrect` and
`DataIsSafe`, the twelve safety invariants of the run `data` as the run composes them.

**ElectronProofs.** *Start-up*: `OneBackendAtATime`, with any number of attempts. `Latest`: the child of the latest
attempt alone may live, since a retry launches the next attempt only when that child has exited, and until the
controller is disposed the attempt it waits for is the latest. `Stopped`: what is disposed of has been
told to stop, and quitting disposes. `Heard`: the window listens before it asks, so what it shows is the
last event or the answer, whichever came later. A step lets every attempt *go on* (`GoOn`: no child comes
back, nothing done is undone) and says "ready" of the latest only; most actions are proved through that.
*Sign-in*: `DisconnectedForGood`. The property is about what is stored and in memory, and is not
inductive: a connect or a refresh under way has a credential in hand. `AuthInv` adds that the
attempt that is active began after the last disconnect of its provider (`AttemptIsNew`: each disconnect
takes `activeAttemptId` away), that a refresh whose operation id is still the provider's read the store
after it (`RefreshIsNew`: each disconnect gives a new id), and that ids are not given twice
(`IdsGiven`). A connect or refresh that is neither is refused by the check before it stores its result.
*Updater*: `OffersHoldAlways`, with any number of checks. A check and a download exclude each other, but the
service alone does not see to that: a check is asked for from a page that may be behind. `DownloadShows` says
that while a download runs the page shows the update or the download, from which no check can be asked for;
`CheckShows`, that a check without a follow-up is for the preference the user has.

**Composition.** In `MCProgress`, `MCTriggers` and `MCData` a step of one part leaves the variables of the others
alone (`PartsStep`, `PartsBehave`), so that a behaviour of the composition is one of every part, and the
theorems about the parts hold of it.

**Only model-checked**: the liveness properties (the prover handles neither fairness arguments with
ENABLED nor leads-to): `EveryChangeSettles`, `OwnersGetTheirTurn`, `CallersReturn`, `ConfirmationsEnd`,
`UploadsEnd`, `MutationsReachAPass`, `PollingResumes`, `ChangesAreSignalled`, `DeadSocketsClose`,
`ChangesAreLearnt`, `Settles`. `Reconciliation`'s rows, claims and `faults` have no theorem of their own: what its
proofs need of the journal is that it is not the notes. The modules contain no RECURSIVE operator.

## 5. What the model checker found in the code

Five runs check a sentence of the documentation or a test and find it violated. `PROJECT.json`
(`findings`) quotes the sentences; the first four are from `TASK_PHASE-10.md`.

* **`merge_diverges`** (`Converged`). Two devices edit different fields of a note offline. The
  merged document takes the mutation id of the preferred side. If that is the remote one, the
  journal entry of the merge carries an id the provider already has, and
  `recoverAcknowledgedClaims` completes it without a write. One device shows the merged note, the
  other and the provider do not, and nothing is left to do.
* **`journal_wedges`** (`NeverWedged`). A pass dies with a claimed row. The next pull merges the
  note with a remote change; the merge keeps the local mutation id with another target hash, and
  inserting it violates the primary key of `sync_outbox`. The pull is rolled back. It precedes the
  claim that could retire the old row, so every later run fails in the same way until that note is
  edited again.
* **`pull_overwrites`** (`NothingLost`). The user edits a note after the pull decided about it and
  while it reads the next document; `applyPull` overwrites the edit.
* **`tombstone_returns`** (`TombstonesStay`). A device that never learned that its upload of a new
  note was stored has no base. Another device deletes the note; the first takes the tombstone for a
  UUID collision and, having the greater mutation id, writes the live note over it. `NothingLost` does not
  hold of such notes either: a device may then have the tombstone as its base and the note alive, and when
  two live versions meet over a deleted base the merge returns the tombstone with one of them as a copy and
  drops the other (`merge-sync-note-document.util.ts`, the branch of a deleted base).
* **`pairing_unrecovered`** (`NothingHalfApplied`). Two calls of `prepare` overlap and both find no active
  operation. The first operation is confirmed, the second inserted while the first is applying, and the
  process dies. The next start asks for *the* active operation, gets the newer, prepared one, and leaves
  the interrupted confirmation as it is. The test of the recovery has one operation only.

## 6. What is not modelled

* **Diagnostics and health**: logging, and an endpoint without state.
* **HTTP, paging, parsing, encryption, layout of files**: a request has an outcome, a document
  its rows. Listings of several pages are read as one.
* **Views**: forms, dialogs, drag and drop, rich text, formatting. Two things that were seen
  while reading and are not stated as properties: the edit dialog sends the value of every column, so the
  edits of two windows overwrite each other field by field; and the disconnect of an account may
  succeed in the backend and fail in the main process afterwards.
* **Overlapping replacements of a Google channel**: after the account or the runtime changed, a second
  `replaceChannel` may begin while requests of the first are under way, and the `finally` of the first clears
  the second's promise (listed among the hazards, without a property).
* **General settings** in the merge of the configuration (one more row), and **versions merged by hand**
  (an arbitrary document).
* **Request limits and quotas** of the relay and the providers.
* **Menus, windows, paths, and the broker** between the Electron processes, which passes calls on.

Worth doing next, most useful first: the type invariant of `Reconciliation` as a theorem (its safety
properties are proved without it); the commutation of the configuration's merge, in the style of
`MergeCommutes`; and `NothingLost` for notes created later, as far as it holds: for those whose creator saw
the answer of its first upload.
