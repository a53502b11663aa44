# A verification project for AGVM Core

TLA+ models of the parts of AGVM Core (`src/agvm_api`, Python, FastAPI over one
SQLite file per brain) that change durable state, the TLC runs that check them
on small instances, and TLAPS proofs of what matters most.

AGVM Core keeps a *brain*: a graph of memory nodes, edges and relations. Almost
everything that writes to it is review first: a preview is computed, shown, and
only a confirmed apply of that very preview changes the brain. The endpoints are
synchronous functions, so the server runs them in a pool of threads: two requests
interleave at every statement that is not inside one SQLite transaction or one
lock. AI calls of minutes lie between reading the brain and writing it. That is
where the code is hard, and what the models are about.

## Inventory

Components, the state each keeps, its operations, and what makes it correct.

| Component | State | Operations | Must hold |
| --- | --- | --- | --- |
| Grow preview authority (`sqlite_store.py` 8148-10053) | table `grow_preview_bindings`: one row per investigation or preview, with state, version, brain revision, expiry, receipt, snapshot | reserve, discard, update, resume, finalize (preview, maintenance feedback), store a recovery preview, apply, rollback | an apply happens at most once, only on the brain it was reviewed on; a rollback takes away that apply and nothing else; receipts and snapshots are never rewritten; a preview was compiled from the answers its row holds |
| Grow request handlers (`core_mcp_ops_router.py` 3899-, 7896-9200) | what a thread holds between two transactions; a process-wide apply lock | preview, source intake, resume, apply, rollback; provider failure, hard timeout, recovery preview | no investigation that no client can resume; no answer of a client lost |
| Whole-graph writers (`core_mcp_ops_router.py` 4640-4900, bootstrap executor) | the graph | change_node_content, delete_node, bootstrap apply: read, edit a copy, store the copy | a copy is stored only over the graph it was made from |
| Brain Bootstrap V1 (`brain_bootstrap_v1/`) | a directory of revision files per session, a lock per session in the process | start, answer, add_source, preview, apply, cancel, resume, recover, registry reconciliation | what is applied was reviewed; the intent is on disk before the brain changes; one confirmation changes the brain at most once; a recovery tells what happened |
| Brain registry (`brain_registry.py`) | a JSON file of brain records | create, rename, activate, delete, refresh, export, import | the record of a brain agrees with its newest committed bootstrap revision; at most one active brain |
| Maintenance previews (`sqlite_store.py` 10055-10478, `core_mcp_ops_router.py` 10331-10570, `core_maintenance_runtime.py`) | table `maintenance_previews`: the graph before, the candidate graph, the report with its guard, the receipts | store, apply, finalize, roll back a reviewed change of the whole graph | as for Grow: authority bound to one brain revision; a settled confirmation never applies again; Maintain and Grow leave each other's work alone |
| Search sessions (`sqlite_store.py` 5670-6471, `core_retrieve_router.py`, `stream_contract.py`) | tables `search_sessions`, `search_events` | create, plan, run, append event, snapshot, finalize, fail, cancel, stream, retention, recovery at restart | a running search has a thread that ends it; no two workers on one search; a cancellation stays; every started search ends and its stream closes |
| Search lifecycle heartbeat (`search_lifecycle_heartbeat.py`) | a thread per search, stop events by search id | start, stop, after_event | the thread ends when the run ends, whatever way it ends |
| Restore materializer (`brain_sync_restore_materializer.py`) | a transaction file, backups, staging directories, an exclusive lock file, the registry | preflight, apply under the lock, status, retry, undo, roll back, reversal of a failed rollback | what a restore replaces can be had back; nothing done meanwhile is lost; a failed step or a crash leaves a way on |
| Cognitive jobs (`cognitive_jobs.py`, `sqlite_store.py` 2305-2535) | table `cognitive_jobs` | schedule, lease, complete, cancel | one worker per lease; one job per idempotency key |
| Entitlements (`local_entitlements.py`, `edition_gate.py`, SDK) | signed lease and licence records | verify, refresh, gate a capability | time windows and monotonic revisions |
| Brain profile (`brain_profile_*`) | tables that nothing in `src/` reads or writes | validate and score a profile | numeric |
| Module supervisor (`scripts/agvm_module_supervisor.py`) | none: a command line over the entitlements | answer and end | |
| Hot working memory, ledgers, calibration | per-thread continuity state, append-only JSON lines | append, summarise | order and bounds |
| Retrieval, answering, derivation, search composition, brain health, contracts, setup, MCP bridge, cockpit | none of their own, or configuration | ranking, text, envelopes, UI | numeric and textual |

How they interact: Grow, Bootstrap, the node tools and Maintenance share one thing,
the brain graph. They never call each other; they meet as writers. Grow and
Maintenance compare the graph with the revision they were reviewed on *inside* the
transaction that writes (`BEGIN IMMEDIATE`). The node tools and Bootstrap read the
graph in one transaction and store a whole copy in another
(`replace_runtime_graph`). Bootstrap sessions of a brain also meet in the registry,
which looks for the newest revision file of *any* of them
(`_latest_bootstrap_revision`). Search only reads the graph; its own tables are
shared by the request thread, the worker thread, the heartbeat thread and
cancelling requests. A restore replaces the directory of a whole brain, and its
record in the registry, under a lock that no other writer takes.

Behaviours that are hard, and listed one by one with their lines in
`PROJECT.json` under `hazards`: engine runs that outlive the brain they read,
competing resumes, retries after a lost answer, rollback below later applies,
expiry, provider outages that are reported as a result rather than raised,
crashes between the intent and the write, torn files, registry failures after the
brain was changed, whole-graph copies, directories renamed under running writers,
retries that undo before they look, and the status races of search.

## The modules

| Module | What it is |
| --- | --- |
| `GrowStore` | The Grow preview authority and its request handlers: every transaction on `grow_preview_bindings`, interleaved. |
| `ReviewedApply` | The abstract promise: proposals over a memory, each bound to the memory it was made on, applied or undone as a whole. `GrowStore` implements it. |
| `GrowClaims` | Two sentences of docstrings about Grow, as properties. |
| `GrowStoreProofs` | Proofs: type correctness, the inductive invariant, the safety and action properties of `GrowStore`. |
| `GrowStoreRefines` | Proof that `GrowStore` implements `ReviewedApply`. |
| `MaintenancePreviews` | The reviewed previews of Maintain, in the brain of `GrowStore`. |
| `BrainWriters` | Every writer of the brain in one system: Grow, Maintain, and the writers that store a whole copy of the graph. |
| `BrainWritersProofs` | Proofs: what the writers of one brain leave of each other's work. |
| `BootstrapSession` | Brain Bootstrap V1: the session log, its lock, apply, probe, recovery, the registry commit, crashes and torn files. |
| `ConfirmedWrites` | The abstract promise of Bootstrap: offers, confirmations with one turn each, and writes next to a copy of the brain. `BootstrapSession` implements it. |
| `BootstrapSessionProofs` | Proofs: type correctness and the safety invariants of `BootstrapSession`. |
| `BootstrapSessionRefines` | Proof that `BootstrapSession` implements `ConfirmedWrites`. |
| `SearchSession` | A search: its row and events, the threads that run it, its heartbeat, its streams, cancellation, retention, restart. |
| `SearchSessionProofs` | Proofs: type correctness and the safety properties of `SearchSession`. |
| `BrainRestore` | The restore of a brain: apply, undo, retry, rollback and its reversal, a file operation at a time. |
| `BrainRestoreProofs` | Proofs: type correctness and the properties of `BrainRestore` about backups, receipts, undos and rollbacks. |
| `BrainRestoreEdits` | Proof that a restore loses no edit that was made while none was running. |
| `MCGrowStore`, `MCBrainWriters`, `MCBootstrapSession`, `MCSearchSession`, `MCBrainRestore` | The symmetry sets of the runs. |

Definitions whose name ends in an underscore and a word (`StopBeat_Forgets`) are
the flaws that `PROJECT.json` lists as mutants: put in the place of the definition
before the underscore, each makes a run find its property violated. The
specifications do not use them.

### The graph and its revision

`maintenance_graph_revision` is a digest of the content of the graph. A digest is
only ever compared for equality, so the graph itself stands for it: a revision can
come back (an apply followed by its rollback), and the models show what that
allows. A graph is a set of contributions `<<fact, writer>>`: `fact` names a node
by its content or preview id, `writer` is the investigation (or session and key)
that put it there, or `Foreign` for every writer that is not modelled in the
module. The writer is not stored as such in the code; node ids derive from the
preview, so contributions of different previews are different nodes.

### GrowStore

| Variable | Code |
| --- | --- |
| `graph` | nodes, relations, edges and meta of the SQLite store |
| `rows` | `grow_preview_bindings` by `token_id`. `ver` is `investigation_version` (0: a preview stored without an investigation), `rev` `brain_revision`, `exp` `expires_at`, `before`/`after` the rollback snapshot and the after-revision of the receipt, `sel` the receipt's selection, `derived` whether the resume token was computed from the source (intake) or random, `asked`/`answer` what the stored investigation asks and holds, `seen` the answer the finalized preview was compiled from |
| `handler` | what a request thread holds between two transactions |
| `now` | the server's clock, for `expires_at` |
| `acked` | history: the selections that an apply reported as applied |

Every store function that opens `BEGIN IMMEDIATE` is one action; a handler's
reads of the graph and its engine run are separate actions. `Reserve` and
`IntakeReserve` are `reserve_grow_investigation` without and with a caller's
token; `Update` is `update_grow_investigation`, called at the end of intake
(`IntakeAsk`), when the engine asks (`EngineAsks`), when the hard timeout replaced
its result (`TimeoutAsks`) and when it ended incomplete; `Resume` is
`resume_grow_investigation` with its idempotent replay; `Finalize` is both
finalizers; `EngineRaises` and `EngineFails` are the two ways a provider fails,
which the code treats differently; `StoreRecovery` is
`store_local_grow_v2_preview`; `BeginApply` is the handler's read under
the process-wide apply lock, `ApplyCommits`, `ApplyReplays`, `ApplyInvalidates`
and `ApplyAborts` are the ends of `apply_local_grow_v2_preview_transaction`;
`Rollback` is one transaction without that lock. `ForeignEdit` is a writer that
reads and writes in one transaction, for the runs of `GrowStore` alone; what such
writers really are is in the next two modules.

### MaintenancePreviews

| Variable | Code |
| --- | --- |
| `previews` | `maintenance_previews` by `preview_signature`. A signature is a digest of the mode and the proposals (`of`), the graph before and the candidate, with the authority cycle as its suffix; `passed` is the safety guard of the report, `booked` the `bookkeeping_complete` of the receipt |
| `keeper` | what a maintenance request holds between its steps |

`BeginMaintenance` is the read of the graph in `_maintenance_preview`;
`StoreMaintenance` is `store_maintenance_preview`, which gives a review that was
settled before a signature of its own (`CycleFor`); `ApplyMaintenance`,
`ApplyConflicts` and `ApplyAnswersAgain` are the three ends of
`apply_maintenance_preview` that do not refuse; `ReadReceipt` and `WriteReceipt`
are the SELECT and the UPDATE of `finalize_maintenance_preview_apply`, which runs
in no transaction of its own; `RollbackMaintenance` is
`rollback_maintenance_preview`. What proposes the candidate and calls these
functions is a `MaintenanceMutationRuntime` outside the repository (the one
installed here hands each call to the cloud), so it is free: it may propose any
graph whose additions are not Grow's (`Candidates`), apply any stored preview at
any time, and stop anywhere (`MaintenanceFails`).

### BrainWriters

Adds `writer`: a request of `change_node_content`, `delete_node` or a bootstrap
apply, which reads the graph (`Read`), edits its copy and stores it
(`Store`, `replace_runtime_graph`); and `stale`, a history variable: some copy was
stored over a graph it was not made from. Its steps interleave with all of
`GrowStore` (but `ForeignEdit`, which the real writers replace) and of
`MaintenancePreviews`.

### BootstrapSession

`log[s]` is the directory of revision files, `worker[s]` the request that holds
the lock of the session, `latest` the session whose file is newest (what
`_latest_bootstrap_revision` finds). A request is refused when a file is torn
(`load_history` reads them all), when its expected revision is not the last, or
when its key was used; refused requests change nothing and are not actions. Apply
is `BeginApply` (baseline and receipt from the graph), `RecordIntent`
(`apply_pending` on disk), `ExecutorReads`, `ExecutorStores` (or
`ExecutorRaises`), `Probe`, `SettleApplied` or `SettleUnverified`, then the
registry. `BeginRecover` enters at the probe. `Retry` is a request that is
repeated with its key: only the registry commit is tried again. `CrashTears` is a
stop in the middle of a write: `BootstrapSessionStore.append` opens the file under
its final name. Keys are kept for applies and recoveries only: any other request
that comes again under its key is answered from the log and changes nothing.

The probe (`_probe_manual_grow_mutation`, `Witnessed`) compares the graph with the
receipt of the intent. It may fail to know a node that the session itself added:
for each witness it takes the *first* node of that content (`service.py` 2360),
which can be an older one, as nodes are read in the order of ids drawn at random;
it compares fields that a node read back may lack; and the older nodes, stored
again with the copy, may come back rounded and count as changed. Then the new node
is unmatched and the answer is ambiguous (2401-2423). `obscure` is the set of
contributions that the probe does not know; `ExecutorStores` and `ForeignEdit`
choose freely whether what they store joins it, and a graph with a new obscure
contribution is never taken for applied.

### SearchSession

| Variable | Code |
| --- | --- |
| `status`, `planned`, `final` | `search_sessions`: `status`, whether `plan_json` is set, the canonical state in `final_result_json` |
| `log`, `keys` | `search_events` of a search by `seq`; the idempotency keys in its cancellation events |
| `pc`, `job`, `seen` | a thread: its step, its search and entry point, the status that `mark_search_running` has read and not yet used |
| `reg` | `_SEARCH_THREADS` |
| `hb`, `hbReg` | the heartbeat a run started; the states of `FinalMaterializationHeartbeatRegistry` |
| `stream` | a client of `/memory/query-stream`: the last `seq` it sent, and whether it reads events or the status next |
| `doomed` | what a retention sweep has planned to delete |

A thread is started by `Begin`: a synchronous query or plan, an accepted query, or
an MCP call; `QueryRun` starts a worker for a planned search. One table of steps,
`Following`, gives the step that comes after each; what the planner and the
retrieval engine return is a choice. `Work(w)` is any step of a thread.

Transactions that `BEGIN IMMEDIATE` are one action (`finalize_search_session`,
`save_search_result_snapshot`, `cancel_search_session`). `mark_search_running` is
two: `ReadStatusToMark` is its SELECT, `Mark` its UPDATE. A heartbeat's append is
two as well (`Beat`, `WriteBeat`), because its thread may be told to stop in
between; the append of a run's own thread is one. A retention sweep plans
(`PlanRetention`) and deletes (`Retain`) in two transactions. `StoreFails` is a
`result_ready` that the store refuses after the result was committed. `Restart` is
a crash and the recovery at the next start together: all threads are gone, and
the searches that `_recover_interrupted_search_sessions_on_bootstrap` selects are
failed. `blocked` stands for `superseded` too: both end a search in the same way.

### BrainRestore

| Variable | Code |
| --- | --- |
| `dest`, `registry` | the directory of the brain; the registry file: who wrote the brain's record, and the edits of other records |
| `backup`, `kept` | `backups/`, `rollback_staging/` of a transaction |
| `status`, `orig`, `base`, `installed`, `after` | the transaction file: status, `original_registry` and `destination_existed`, `backup_sha256`, `applied_destination_sha256`, `applied_registry` |
| `idem` | the idempotency file of the apply |
| `seen` | the destination state a preflight answered, which the apply must name |
| `pc`, `cur`, `retry`, `loaded` | the operation that holds `_exclusive_restore_lock`, whether it is the undo that precedes a retry, and the registry that `_update_registry_after_restore` has loaded |
| `copy`, `draft` | what a request of the rest of the program has read of the brain or of the registry, and not stored yet |
| `clock`, `quiet` | history: the edits so far, and those made while no operation ran |
| `crossed` | history: the restores since whose apply began a copy was stored that was not of what it was stored over |
| `used` | how many steps failed, processes crashed, directories were made again |

A directory is who wrote its graph and the edits made since; a hash is the content
it hashes. Each rename, removal and atomic write is an action of its own, in the
order of the code. `Fault` makes the step at hand raise before its effect and goes
to the handler that the code has there (undo, reversal, recovery, or none);
`Crash` ends the operation where it is.

The rest of the program does not take the lock, and comes at any moment.
`EditBrain` is a writer that reads and writes in one transaction. The others take
two steps, with nothing locked or compared from one to the other: `ReadBrain` and
`StoreBrain` (`fetch_graph_snapshot`, then `replace_runtime_graph` of the edited
copy), `ReadRegistry` and `StoreRegistry` (a refresh, creation, renaming or deletion
loads the registry and later stores all of it, `brain_registry.py` 803 to 828, 923
to 950, 961 to 976, 1224 to 1244). A copy may be stored stages of a restore later,
over what an undo has just put back, its record included. `Remake` is another
request that makes the directory of a brain it knows (a refresh by
`build_local_brain_record`, or `connect`), and so can put an empty brain between two
renames; storing a copy of the brain does the same. A refusal changes nothing and is not an action. `staging` and `staged`, and the
phases of a rollback, are not told apart: nothing reads the difference.

## The runs

| Run | Instance | Shows |
| --- | --- | --- |
| `grow_apply` | 2 investigations, 2 handlers, 2 nodes, 1 answer, versions to 2; 589,948 states | the types; `Attributable`, `SnapshotsExact`, `AckedMatchesReceipt`, `ReceiptsPermanent`, and `ReviewedApply` as a property |
| `grow_answers` | 1 investigation, 2 handlers, 2 answers, versions to 6, clock to 1, 1 foreign edit; 557,677 states | `PreviewSeesAnswers`, with expiry and a brain that changes under the engine |
| `grow_phantom` | violation | a first provider outage leaves an investigation nobody can resume |
| `grow_answers_lost` | violation | stored answers are overwritten |
| `brain_writers` | 1 investigation, 1 maintenance handler with 1 review, 1 whole-graph writer, 2 nodes, 2 edits; 4,450,000 states | the types; `TombstonesHold`, `PreviewsPermanent`, `AttributableUnlessStale`, `LostOnlyReviewed`; `FromAnApply` and `SnapshotsExact` survive whole-graph writers |
| `stale_edit` | violation | `expected_brain_revision` does not block a stale apply |
| `bootstrap_review` | 1 session, 2 candidates, 2 keys, 8 revisions, 1 foreign edit; 1,467,956 states | the types; `IntentFirst`, `AppliedWasReviewed`, `KeyStoresOnce`, `StoresAgainReviewed`; `AloneStoresOnce` where nobody else writes and the probe knows the nodes; it implements `ConfirmedWrites` |
| `bootstrap_twice` | violation | a session that was answered as applied applies again |
| `search_runs` | 1 search, 2 threads, 2 runs of any entry, 1 cancellation key, 1 restart; 5,641,714 states | the types; `NoOrphan`, `OneWorker`, `HeartbeatOwned`, `CancelLostOnlyToMark`, `RestartFailsOnlyInterrupted` |
| `search_ends` | 1 search, 1 thread, 1 stream, 1 snapshot, 1 beat, 1 sweep; 625,165 states | liveness: `SearchEnds`, `HeartbeatStops`, `StreamCloses` |
| `search_cancel_lost` | violation | a cancellation between the two statements of `mark_search_running` is overwritten |
| `brain_restore` | 2 transactions, 1 writer of copies, 1 edit, 2 failing steps, 1 crash, 1 directory made again, 3 mishaps in all; 8,153,113 states | the types; `BackupRetained`, `ReceiptsApplied`, `ApplyRecovers`, `RollbackReverts`, `QuietEditsKept`, `SettledIsBefore` |

What the properties say:

- `Attributable`, `SnapshotsExact`, `AckedMatchesReceipt`, `ReceiptsPermanent`: the
  brain, the receipts and the snapshots of Grow tell the same story.
- `TombstonesHold`, `PreviewsPermanent`: a maintenance confirmation that was used,
  rolled back or invalidated is dead, also when the same review comes again, and
  late bookkeeping does not touch it.
- `AttributableUnlessStale`: Grow and Maintain may apply and roll back in any order,
  each over content that came back; still nothing that Grow rolled back returns.
  Only a copy stored late can do that.
- `LostOnlyReviewed`: only its own rollback, a reviewed apply of a graph that had
  it, or a writer that reviews nothing takes a Grow contribution out of the brain.
- `FromAnApply`: what stands in Grow's name once was applied, whoever brought it back.
- `KeyStoresOnce`, `StoresAgainReviewed`: a confirmation changes the brain once. A
  session may change it again (after a store that the probe does not know, or that
  another writer edited), but only after a recovery that followed the first intent
  has asked for another review.
- `AloneStoresOnce`: a session changes the brain once, whatever its keys, as long as
  the probe knows its nodes, and no other writer and no intent of another session
  is about. Without the first condition it is false: next to an older node of the
  same content a session alone is reviewed again and stores twice. And it is not enough that the others stored nothing new: an
  apply that merges all its candidates into existing nodes stores the copy it read
  all the same, over what this session stored since; the probe then misses its
  witnesses, and after another review the session stores again.
- `ConfirmedWritesSpec`: the whole of a session, its log, probe, recovery and crashes
  included, is no more than offers, confirmations of what is on offer, and one write
  at most for each. Next to its own candidates a session may store a stale copy of
  the brain, even one that brings back what others removed, but nothing that no
  confirmation had written.
- `NoOrphan`: a running or finalizing search has a thread in its run. With the
  fairness below, that thread goes on to end it.
- `OneWorker`, `HeartbeatOwned`: the two registries (of worker threads, of
  heartbeats) never let two workers run a search, nor a heartbeat outlive its run.
- `CancelLostOnlyToMark`: nothing undoes a cancellation but the stale write of
  `mark_search_running`, which `search_cancel_lost` exhibits.
- `RestartFailsOnlyInterrupted`: a planned search that waits for its query-run is
  not failed by a restart.
- `QuietEditsKept`: nothing done while no restore was running is lost by a step of
  one, except by a retry, and there only what the property names. What the store of a
  stale copy removes or brings back is no longer counted.
- `SettledIsBefore`: an undo, or a rollback, that reports its end has left the
  brain and the record that the apply found, unless a stale copy was stored since
  the apply began. It may have been stored over what the undo put back, just before
  the end is written: nothing is compared there.
- `BackupRetained`: as long as a restore is applied, it has its backup, and that is
  what it replaced (the latter, again, with no stale copy since the apply began:
  one may be stored in the brain while a rollback has it in place).
- `ReceiptsApplied`: a replayed receipt belongs to an applied restore, but for a
  mishap around the last write.
- `ApplyRecovers`, `RollbackReverts`: one failed step never leaves a transaction
  that cannot be undone, or a rollback half done.

### Bounds, and why they are enough

- Two investigations and two nodes are what it takes to have an apply next to a
  competing one, a partial selection, a rollback below a later apply, and a
  revision that comes back. A third investigation is treated like the second:
  no transaction reads two rows other than the one it names, except the
  invalidation, which treats every other row alike. The theorems hold for any
  number.
- `MaxVersion` bounds the version counter in the guards of the transactions that
  raise it. 2 is one resume-free life of a row; `grow_answers` gives 6 for two
  competing resumes and their finalizations.
- `MaxTime` 1 with `Ttl` and `MinTtl` 1 makes every row fresh or expired at each
  step, and lets finalizing extend an expiry (`grow_answers`;
  `grow_apply` has neither clock nor foreign edit, to afford two handlers).
- `MaxEdits` 1 is one foreign change: to invalidate a preview, or to come between
  an apply and its rollback. `brain_writers` has 2, each a maintenance preview or a
  copy of the graph: the same review twice (its second cycle), or a preview and a
  stale copy around Grow's apply and rollback.
- `brain_writers` has one investigation: with two it does not end in the time a run
  should take. Two at once are the subject of `grow_apply`, and every property of
  `brain_writers` is proved for any number of investigations, reviews, handlers,
  writers and edits.
- `MaxRevisions` bounds the files of a session. An apply takes up to three
  revisions; 8 and 9 leave room for start, preview, apply, failure, recovery, a
  second review and a second apply. A request is started only when the files it
  may write fit, so the bound never cuts an apply in two.
- One search: no operation of the store, and no registry, relates two searches.
  Two threads and two runs are what it takes for a run to end while another
  begins; a third would have to race the same registry entry. `NoOrphan`,
  `OneWorker`, `HeartbeatOwned` and `CancelLostOnlyToMark` are proved for any
  number. `search_ends` has one run with everything that can come at it, as
  liveness checking allows no symmetry.
- Two transactions let one restore meet what another left unfinished, undone or
  applied. Two failing steps and a crash reach a failure in the undo of a failure.
  One edit, which may fall between any two steps, is enough for properties that
  say of each edit that it is not lost. It may be that of a copy, read at one step
  and stored at any later one; a copy that is held keeps the last edit for itself.
  One writer of copies is enough for each of the steps that a copy can cross; the
  theorems have any number of writers and edits.
- Brains are created and deleted in `BrainRestore` only while no operation runs, from
  the registry as it is; what a late one of them would store is `StoreRegistry`.
- Two bootstrap sessions of a brain have no run of their own: the theorems about
  `BootstrapSession`, which cover every invariant of its run, hold for any number.
- Symmetry is used for ids, facts, keys, handlers, threads and transactions: the
  specifications only compare them. `search_ends` uses none. Deadlock is not
  checked where the bounds stop the system: in the runs of `SearchSession` and of
  `BrainRestore`.

### Fairness

`SearchSession` assumes weak fairness of three things: the steps of every thread
(`Work`), the writing or ending of a heartbeat that is due (`WriteBeat`,
`EndBeat`), and the reads of every stream (`Follow`). Threads and coroutines are
scheduled by the operating system and the event loop; none of their steps waits for
a client; the AI calls inside planning and retrieval run under the deadline of the
search. Nothing is assumed of clients, cancellations, snapshots, retention or
restarts, nor that a heartbeat beats at all.

Grow, Bootstrap and restore have none: nothing in them runs by itself. A request
that stops leaves a row, a session or a transaction that a later request may take
up, and no code forces that request.

## What is proved

For every value of the constants that satisfies the `ASSUME` of the module
(reserved values are no ids, answers, threads or directories, the bounds are
naturals, the lifetimes positive). Of `GrowStore`:

| Theorem | States |
| --- | --- |
| `TypeCorrect` | `Spec => []TypeOK` |
| `BrainAttributable` | `Spec => []Attributable` |
| `SnapshotsAlwaysExact` | `Spec => []SnapshotsExact` |
| `AcksHold` | `Spec => []AckedMatchesReceipt` |
| `ReceiptsStay` | `Spec => ReceiptsPermanent` |
| `PreviewsSeeAnswers` | `Spec => []PreviewSeesAnswers` |
| `GrowImplementsReviewedApply` | `Spec => ReviewedApplySpec` |

The inductive invariant is `IInv`: `TypeOK`, `Attributable`, `SnapshotsExact` and
`AckedMatchesReceipt` together. None of the last three is inductive alone. A
rollback restores `before`, so `Attributable` after it needs `SnapshotsExact`: the
snapshot has nothing of the rolled back investigation, and differs from the
present graph, which is attributable, only in that contribution. An apply takes
its snapshot from the graph, so `SnapshotsExact` after it needs `Attributable`:
an active row has nothing in the graph yet. `AckedMatchesReceipt` needs the type
invariant for the row an acknowledgement names, and the fact that a settled row
leaves its state only by a rollback. The proof has one step per action; the
actions that touch neither graph nor receipts are covered by lemmas on what
their updates of a row and of a handler can be.

`PreviewsSeeAnswers` has a strengthening of its own, `AnswersInv`. An open row has a
version, and its first version has no answers (`RowAnswers`). A run of the engine
carries a version no later than its row's, unless it is the first run, which has no
answers; if the versions are the same while the row is investigated, it carries the
row's answers (`EngineAnswers`). A resume that
overtakes the run moves the version on, so that the run's preview is refused.

The refinement maps a row to a proposal (`Proposal`) and every step to a step of
`ReviewedApply` or a stutter. It needs, beyond `IInv`, that the selection of an
applying handler is part of the offer it read (`SelectionsOffered`).

Of `BrainWriters` (`BSpec`), where Grow is one of three kinds of writers:

| Theorem | States | Strengthened by |
| --- | --- | --- |
| `PreviewsTyped` | `[]PreviewsTypeOK` | |
| `TombstonesAlwaysHold` | `[]TombstonesHold` | `HasLatest`: the cycles of a review have a largest one, so that the next is its successor |
| `PreviewsStay` | `PreviewsPermanent` | `ActiveUnbooked`: an active preview has no bookkeeping |
| `NodesFromApplies` | `[]FromAnApply` | `KnownBrain`, `KnownCopies`: every graph in the brain, a snapshot, a preview or a request's hands holds in Grow's name only what some receipt names |
| `SnapshotsExactForAll` | `[]SnapshotsExact` | `KnownBrain`: an active row has nothing in the brain, even next to stale copies, which replaces `Attributable` in the proof for Grow alone; and `AckedMatchesReceipt` |
| `AttributableWithMaintenance` | `[]AttributableUnlessStale` | `Traced`: what an applied maintenance preview took out is not in the brain, has no other remover, and its receipt is still applied |
| `LossesReviewed` | `LostOnlyReviewed` | an action property, from the same invariants |

`Traced` is the heart of it. A maintenance rollback stores its old graph, and may
bring back Grow's nodes. It may do so only if Grow has not rolled them back
meanwhile. Grow's rollback demands that the brain is exactly what it was after its
apply, with its nodes in; as long as a maintenance preview holds them out, that
cannot be. Nothing in either component checks this: it follows from both comparing
content, and one writer that stores without comparing breaks it.

The lemmas about `GrowStore` do not assume `Attributable`, so that both proofs use
them.

Of `SearchSession`:

| Theorem | States | Strengthened by |
| --- | --- | --- |
| `TypeCorrect` | `[]TypeOK` | `Assigned`: a thread that is not idle has a search |
| `NeverOrphaned` | `[]NoOrphan` | nothing beyond the types: no step that leaves a run leaves the status active |
| `NeverTwoWorkers` | `[]OneWorker` | `Registered`: a background worker in its run is the one its search's entry names |
| `HeartbeatsOwned` | `[]HeartbeatOwned` | `HbRegistered`: a heartbeat that was not told to stop is the one the registry would tell |
| `CancelOnlyLostToMark` | `CancelLostOnlyToMark` | an action property: every step, by what it does to the status of a cancelled search |
| `RestartsFailOnlyInterrupted` | `RestartFailsOnlyInterrupted` | `Recovering`: a fresh search whose log has the beginning of a run has a registered worker, or one about to register (`BegunServed`), that is in front of its mark or still plans (`RegServes`); a thread that says that it started has marked its search before (`MovedOn`) |

Of `BootstrapSession`:

| Theorem | States | Strengthened by |
| --- | --- | --- |
| `TypeCorrect` | `[]TypeOK` | |
| `AlwaysReviewed` | `[]AppliedWasReviewed` | `OffersReviewed`: the offer of the last revision is that of a preview with no answer or source since; `Chosen`: the selection a worker carries to its intent is part of that offer |
| `IntentAlwaysFirst` | `[]IntentFirst` | `Intending`, `Writing`: past the intent the log has the worker's key and selection; `Held`: the copy of the graph a worker holds is itself accounted for, since storing it brings back what it had read |
| `KeysStoreOnce` | `[]KeyStoresOnce` | `StoredAsked`: whatever was stored has its key in the log, so that the key is refused; `Unstored`: a worker on its way to the store has not stored yet |
| `StoresAlwaysReviewed` | `[]StoresAgainReviewed` | `Reviewed`: past an intent a session is in a state that takes no apply, until a recovery asks for a review (`Awaited`), so that two intents have a review between them (`Apart`); and keys store in the order of their intents (`TurnLast`, `StoredInOrder`) |
| `AloneStoresAtMostOnce` | `[]AloneStoresOnce` | `AloneOnce`: an undisturbed session whose nodes the probe knows has not stored yet, and then its worker's copy and its receipt's baseline are the graph as it is (`NotYet`); or it has, and then the receipt in its last revision is witnessed by the graph, and its state is one that takes no apply (`Recognised`) |
| `BootstrapImplementsConfirmedWrites` | `ConfirmedWritesSpec` | `FreshIntents`: an intent is of an apply, whose key was not used when it began; `CopiesStored`: what the brain, or the copy in a worker's hands, has in the name of a confirmation was stored for it |

They rest on `NoTell` (a settled revision is never an answer or a source). The
refinement maps an intent on disk to a confirmation, and the steps of the executor to
its turn: `RecordIntent` is the `Confirm` of `ConfirmedWrites`, `ExecutorStores` its
`Write` or, when every candidate was merged, its `WriteBack`, and whatever else ends
the executor lets the turn lapse. Retries, probes and recoveries change at most what
is on offer.

The copies of the graph are why `IntentFirst` is not inductive: a session that stores
an old copy can remove what another one applied, and bring back what it removed.

Of `BrainRestore`:

| Theorem | States | Strengthened by |
| --- | --- | --- |
| `TypeCorrect` | `[]TypeOK` | |
| `BackupsRetained` | `[]BackupRetained` | `Marked`: an applied transaction has its idempotency file, so that no retry undoes it; `Unfinished`: what moves backups works on a transaction that is not applied; `Secured`: where the replaced brain is at each step of an operation, as far as no stale copy was stored over it (`Stands`) |
| `ReceiptsAlwaysApplied` | `[]ReceiptsApplied` | `Receipted`: between two operations a receipt may be ahead of the status, in the last write of an apply, or in the undo that follows its failure |
| `AppliesRecover` | `[]ApplyRecovers` | `Recoverable`: what each step of an apply and of an undo has done so far, counted in mishaps; a directory made again in the place of a moved brain is one |
| `RollbacksRevert` | `[]RollbackReverts` | `Reversible`: what a rollback and its reversal find at each step, as long as nobody came in between |
| `SettledAlwaysBefore` | `SettledIsBefore` | `BackupsFaithful`: the backup is what the apply found, with later edits; `Settling`: so are the destination and the record once an undo or a rollback has put them back; all of it for transactions that no stale copy has crossed |
| `QuietEditsAlwaysKept` | `QuietEditsKept` | `EditsInv`: the directory that a step removes has no quiet edit (`Spared`), the registry that it puts back has all of them (`RegistrySpared`); a retry escapes both, and `Lonely` bounds what it may lose |

`QuietEditsKept` needs nearly all of the others: that a directory holds no quiet
edit follows from what it is, the installed bundle or what was moved aside, which
is what `Secured`, `Settling` and `BackupsFaithful` say.

Every safety property that a passing run checks is a theorem. Only model-checked is
what is out of the prover's reach: liveness under fairness (`SearchEnds`,
`HeartbeatStops`, `StreamCloses`), `ENABLED`, and what recursive definitions compute
on all inputs.

## What the code does that its text denies

`PROJECT.json` lists each with its lines and the run whose trace shows it.

- *A phantom investigation.* The docstring of
  `discard_grow_investigation_reservation` says that the cleanup prevents an
  investigation a client cannot resume. The cleanup runs where the engine raises,
  not where it returns its failure.
- *Answers lost.* The same docstring promises that resumed investigations stay
  recoverable. A hard timeout, or a repeated intake request, stores an
  investigation without their answers.
- *A stale edit is not blocked.* `expected_brain_revision` of the node tools is
  compared with the graph read at the beginning, not with the one overwritten.
- *An applied session applies again.* Repeating a successful bootstrap apply
  repeats its registry commit; when that fails, the session reopens.
- *A cancellation lost.* `advance_canonical_search_state` promises that no
  terminal state regresses; `mark_search_running` applies it to a status that it
  read before the cancellation.

What `brain_restore` reaches and no text of the repository denies, so that it is
listed under `hazards` and named as an exception in the properties:

- A retry of an unfinished or undone apply undoes it again before it compares the
  destination with the preflight: it removes a brain, and overwrites a registry,
  that changed since. With two unfinished restores (a crash in each, and a registry
  refresh in between) the retry of the first brings the original brain back and
  the retry of the second removes it for good.
- The idempotency file is written before the status `applied`. If that last write
  fails the apply is undone, and every replay answers the receipt all the same; a
  crash there leaves the transaction `in_progress`.
- A request that loaded the registry, or read the graph, before an undo and stores it
  after puts the restored record, or the restored brain's graph, back over what the
  undo had restored; the undo then records `apply_rolled_back`. The same copy stored
  between two operations makes what was found, and what was left, something else.
- A crash in a public rollback leaves `rollback_pending`, and nothing resumes it.
  A registry refresh between its two renames makes the second fail, and the
  reversal then finds the backup's place taken: `rollback_recovery_required`, with
  an empty brain in place.
- A crash in an undo, after the backup moved back and before the status is
  written, makes every retry raise `brain_sync_restore_rollback_backup_missing`.

## What the models leave out

- Content: scoring, text, AI prompts and answers, envelopes, limits on counts
  and sizes, digests and signatures (a digest is the thing it digests; forged or
  corrupted rows are not an input).
- Reading the graph with several statements. `fetch_graph_snapshot` is one action
  here; the torn read it allows is listed as a hazard.
- In search: superseding the older search of a thread, the first-package signal of
  MCP, the retention's cap on events, the gap between SELECT and INSERT of an
  event's `seq` in the run's own thread, store errors other than a refused
  `result_ready` (one in `worker_started` would end a thread outside its handler),
  and what plans and results contain.
- In restore: validating a bundle, the staging directory, removals that fail
  halfway, receipts written again from the transaction file, connections that were
  opened before a directory was moved and follow it, and creating or deleting the
  brain itself while an operation runs (a stale registry that still has or lacks its
  record is modelled). `_update_registry_after_restore` loads and stores the registry
  up to three times (create, refresh, activate); the model has one load and one store.
- In Maintain: the log `maintenance_runs`, the reports, and the refreshed exports.
- `reset_runtime_store`, `apply_node_position_updates` and the older binding API
  (`sqlite_store.py` 7723-7990): nothing in the repository calls them.
- Two server processes over one SQLite file. The apply lock and the session lock
  live in the process. Grow's transactions hold without them, as `ReviewedApply`
  only rests on the transactions; for Bootstrap it is an assumption that one
  process serves a brain.

## Not modelled

Most of the lines of `src/agvm_api` are of another kind than what is modelled here,
and stay `not_modelled` in `PROJECT.json`:

- Retrieval, answering, derivation, investigative search, the Grow engine and
  investigator: ranking, scoring and text, with no state of their own between
  requests. What they hand to the stores is a choice in the models. A model of
  them could only restate their arithmetic.
- Contracts, schemas, setup, the MCP bridge, the cockpit: declarations,
  configuration, envelopes.
- Cognitive jobs: a table for separately distributed modules; nothing in `src/` but
  tests schedules, leases, completes or cancels a job, so there is no competition
  for a lease, and no worker that dies with one, to compare a model with.
- Brain profile: `brain_profile_v1.py` validates and scores; its preview, apply and
  rollback are handed to the cloud, and the tables `brain_profile_v2_*` have no
  reader or writer in `src/`.
- Hot working memory: nothing calls `save_hot_working_memory_state`.
- Module supervisor: a command line that answers from the entitlements and ends.
- Feedback and learning ledgers: an insert per event under a unique key, in one
  transaction; entitlements: checks of one signed record against a time.

Worth modelling, and left: the import of archives and the active brain in the
registry, and superseding the older search of a thread.
