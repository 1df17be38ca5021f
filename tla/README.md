# OpenMembrane in TLA+

OpenMembrane is a local memory for AI coding tools. Sessions are ingested, candidate
memories extracted from them are checked, deduplicated, saved, queued for review or
rejected, and what was saved is served back to the tools. This directory holds a model of
the parts whose correctness rests on the order of their steps: TLA+ modules, TLC
configurations that check them on small instances, and proofs that hold for all instances.

## The system

| part | where | state | operations | what is hard |
|---|---|---|---|---|
| Pipeline | `packages/core/src/pipeline/MemoryPipeline.ts` | lists of active memories, pending candidates and handled fingerprints, read once per batch | `process`, `processStructured` | decisions on lists that the batch itself changes; three stores written without a transaction |
| Approval, update | `MemoryApprovalService.ts`, `MemoryUpdateService.ts`, `service/src/operations.ts` | none of their own | approve, approveAll, reject, rejectAll, update, supersede | retries after a crash between two writes |
| Audit log | `packages/storage/src/AuditLogStore.ts`, `sqlite/SqliteAuditLogStore.ts` | the log, and an index of handled session content | append, findProcessedSessionFingerprints | three kinds of file that must agree after any crash (JSON), a transaction (SQLite) |
| Memory, pending stores | `packages/storage/src/MemoryStore.ts`, `directoryStore.ts` | entry files, type indexes, master index, the flat file of an older release | list, findById, save, supersede, remove, migration | several files written one after the other; moves; torn files |
| Daemon | `apps/daemon/src` | lock and discovery files, listener, one queue per store | serve, start, stop, status; every request | several processes racing for one lock; recovery from dead owners; shutdown |
| SQLite stores | `packages/storage/src/sqlite` | one database: memories, candidates, links, logs | open, save, supersede, remove, append | the upgrade of an older database; many statements in one transaction |
| Client | `packages/client/src` | one launch promise per client | call, auto-launch | concurrent callers that share a launch, one repetition, a daemon that starts, stops or dies between a refusal and what is done about it |
| OpenCode adapter | `packages/adapter-opencode/src/plugin.ts` | a chain of ingestions per session; a second client for the prompts | idle event, transformation of a prompt, dispose | snapshots taken before the chain gets to them; calls nobody waits for; two launches at once |
| GitHub team mode | `packages/service/src/collaboration` | proposals, sync checkpoint, checkout | configure, publish, retry, refresh, import | retries with back-off, reviews decided elsewhere, a repository others write to |
| Relationship graph | `packages/core/src/graph`, `RelationshipStore.ts` | stored links | sync derived, sync inferred, link, unlink | snapshots that grow old between reads and writes; caps; manual decisions against syncs |
| Hook installers | `packages/adapter-hooks/src`, used for Claude Code and Codex | settings, instructions, capture script, record | install, uninstall | interrupted runs and the user's edits between runs |
| Extractors, ranking, exporters, UI, CLI, MCP server, VS Code extension | `extractor-*`, `core/src/ranking`, `exporters`, `apps/mcp-server`, `apps/review-ui`, `adapter-vscode` | nudge counters | | texts, not order |

### What makes each part correct

| part | properties |
|---|---|
| Pipeline, approval, update | no two memories of the same content; handled content does not come back; what the user rejected is not taken from that session again; a decision is on record before its candidate leaves the queue; an approval settles its conflicts |
| Audit log | lookups say exactly what the committed events say, after any crash |
| Memory, pending stores | files and indexes say what was answered; a failed operation hurts its own id only; a migration loses nothing |
| Daemon lock | one daemon; its discovery files stay while it runs; guards do not leak; starts and stops end |
| Request queue | one request per store at a time, in order; stores outlive the work on them; shutdown ends |
| SQLite stores | the tables hold what callers were told, the fingerprints those of the log, whatever was cut short |
| Client | a request is carried out at most once; a daemon is spawned once per call, and only if none listened since the call began |
| OpenCode adapter | every text of a session is submitted, one at a time and in order; dispose waits for the ingestion, and returns |
| GitHub team mode | an accepted memory is in use, proposed, shared, or refused as unsafe, whatever crashes; only merged ones are in use; a checkpoint never passes what was not imported; a retry never brings back older content |
| Relationship graph | one owner per link; the user's decisions hold and are reported; a sync leaves exactly what the stores imply; caps and guarantees hold |
| Hook installers | the user's text survives; what was installed can be taken out exactly; repeating changes nothing |

## Modules

| module | models | of |
|---|---|---|
| `AuditEvents` | what an audit event says about a fingerprint | `processedSessionFingerprint` in `Deduplicator.ts` |
| `SessionDispositions` | abstract specification: an atomic audit log | `SqliteAuditLogStore.ts`, one transaction per append |
| `JsonAuditLog` | log, markers and checkpoint with a crash between any two writes; implements `SessionDispositions` | `AuditLogStore.ts` |
| `JsonAuditLogProofs` | its theorems | |
| `MemoryLifecycle` | a batch through the pipeline, approvals, rejections, updates, supersessions over three stores | `MemoryPipeline.ts`, `MemoryApprovalService.ts`, `MemoryUpdateService.ts`, `operations.ts` |
| `MemoryLifecycleProofs` | its theorems | |
| `DaemonLock` | daemon.lock, recovery guards, endpoint and token, with processes that start, stop and die | `lock.ts`, `server.ts` |
| `StoreTurns` | abstract specification: turns on a store, first come, first served | what `withStore` promises |
| `StoreQueue` | chains of promises, retries after a response, drain at shutdown; implements `StoreTurns` | `routes.ts`, `server.ts` |
| `DaemonProofs` | theorems of `DaemonLock` and `StoreQueue` | |
| `KeptEntries` | abstract specification: one entry under each id | what the two stores promise |
| `JsonDirectoryStore` | entry files, type indexes, master index and migration, with a stop or a torn file at any write; implements `KeptEntries` | `directoryStore.ts`, `MemoryStore.ts`, `PendingCandidateStore.ts`, `migrate.ts` |
| `SqliteStores` | tables, transactions statement by statement, opening and upgrade of a database | `sqlite/*.ts` |
| `StoreSets` | the stores a storage directory has: JSON memories, JSON candidates or a database; shows that both JSON stores implement `KeptEntries` | `factory.ts` |
| `DirectoryProofs` | theorems of `JsonDirectoryStore` | |
| `StoreProofs` | theorems of `SqliteStores` and `StoreSets` | |
| `SharedRepository` | what a commit of the team's repository says, and what validation makes of it | `GitHubRepository.ts`, checks of `GitHubTeamService.ts` |
| `GitHubTeam` | publication, retry, refresh and import over that repository, with teammates, failing commands and crashes | `GitHubTeamService.ts`, `GitHubCli.ts`, `CollaborationStore.ts`, `operations.ts` |
| `GitHubTeamProofs` | its theorems | |
| `RelationshipInference` | which links the stores imply: entities, metadata, similarity, caps | `RelationshipInference.ts`, `Relationship.ts` |
| `RelationshipService` | syncs and manual links of several callers over a project that changes | `RelationshipService.ts`, `RelationshipStore.ts` |
| `RelationshipServiceProofs` | its theorems | |
| `OpenMembraneClient` | calls of several clients, the launch each shares, and the daemon as they see it | `client/src` |
| `OpenCodePlugin` | the chain of ingestions of each session and the calls for each prompt, over two such clients | `adapter-opencode/src` |
| `HookInstaller` | installations and uninstallations, file by file | `adapter-hooks/src` and the installers over it |
| `AdapterProofs` | theorems of `OpenCodePlugin` and `HookInstaller` | |
| `MC*` | small instances for TLC | |

They build on each other by contracts. `StoreQueue` shows that requests on a store do not
overlap while one daemon runs; `DaemonLock` is about there being one. On that ground
`JsonAuditLog`, `JsonDirectoryStore` and `MemoryLifecycle` have one operation at a time.
`MemoryLifecycle` uses the atomic audit log, because `JsonAuditLog` implements it, and
stores that write in one step, which is what `JsonDirectoryStore` implements for ids whose
operations did not fail half way, and `SqliteStores` always. `GitHubTeam` and
`RelationshipService` take the changes of the local stores as single steps for the same
reason. `OpenCodePlugin` extends `OpenMembraneClient`, whose daemon is the one that
`DaemonLock` admits.

### JsonAuditLog

`log`, `marker` and `ready` are the three kinds of file; `pc` and `request` are the running
operation. `append` is `BeginAppend`, `EnsureReady` or `EnsureRebuild`, `Uncheck` (removes
`ready.json`), `Commit` (replaces the log), `Mark` (writes the marker), `Check` (writes
`ready.json`). `Interrupt` stops the operation between two writes, `InterruptWrite` inside a
marker write, which leaves a torn file. The store keeps nothing in memory, so a crash with
restart and a failed operation are the same to it.

### MemoryLifecycle

`memory`, `pending`, `audit` are the stores. The rest is the running operation: the lists
`process` reads once (`existing`, `held`, `processed`), what it saved in the batch (`saved`)
and the step it is at. Each write to a store is a step of its own; decisions between two
writes are part of the step. What the text heuristics find is given by constants: `Unfit`
(policy), `Similar` (duplicates), `Clash` (conflicts, clear-cut or negation), `Normal` (the
text under a fingerprint), so the invariants do not rest on what the heuristics say.
`approveAll` and `rejectAll` take their list once and go on with the next candidate.
`RejectedStaysOut` is about the content a user rejected, under whatever id it comes back:
nothing active that was taken from that session and not edited since holds it. The same text
from another session, or stated by the user, is a memory of its own to the code
(`processedSessionFingerprint` has the session in it), and so it is here.

### DaemonLock

Each process lives once. Every file operation of `acquireLock`, `acquireRecovery`,
`startDaemon`, `publish`, `protectCleanup`, `cleanup` and `release` is a step. A recovery
guard is named in the code by a hash of the lock that was seen and of the instances of dead
holders; here by that lock and those holders. A process is named in a record by pid and start
identity, so whether it lives is known. `Close` covers signals, stop requests, listener
errors and a startup that fails. Left out: records of versions without a start identity, the
socket file (it is removed next to the token), a host that starts two daemons in one process,
and the `lock-<instance>` drafts, whose names nobody else uses. The ten-second grace of a
lock that does not parse is a choice: it may count as old or as starting.

### StoreQueue

A step is what JavaScript runs between two awaits. `queues` is the map in
`createDaemonRouter`; `previous[t]` is the promise a turn awaits; a turn's own promise
resolves (`Settle`) some time after its completion was released and its predecessor
resolved. A request has two turns if it is a retrieval: the call, and the retry of
publications after the response. `ahead` is a history variable: it records who had joined the
line before and decides nothing. `closing` refuses requests that arrive, `draining` waits for
those in flight, `closed` is after `service.close`.

### JsonDirectoryStore

`Pending` chooses between the two stores over `directoryStore.ts`. `files` are the entry
files (a torn one has that status), `index` the lines of all type indexes, `torn` the types
whose index does not parse, `master` the counts of `index.json`. An operation is `op` (the
entry to take away, the entry to put) and runs through `RemoveOld`, `UnindexOld`,
`MasterOld`, `Write`, `Index`, `Master`, one file operation each. What it reads before its
first write is part of the step that begins it. `Finds` is `findById`: the order of `readdir`
is not known, so any index that lists the id may be the first. `ensureMigrated` is a guard:
while the flat file is there (`legacy`), only the migration runs, and starts over after a
failure. `Stop` ends an operation between two file operations, by a crash or an error;
`TearEntry` and `TearIndex` end it inside a `writeFile`, which truncates first. `said` and
`harmed` are history: what was answered, and the ids of the operations that failed half way.
The master index is written and never read by the program, so a torn one is not told from an
old one.

### SqliteStores and StoreSets

`db` is what is committed, `tx` the transaction under way: its statements run one after the
other on a working copy that `Commit` publishes. A failing statement and a stop drop the
copy. Single statements are transactions of one statement. Opening runs `Create` (the
tables that are missing) and `Fill` (session_dispositions from the log of an older release)
in one transaction. `told` is history: what callers were told is stored. A row is the
object as the INSERT binds it, NULL for a field the object does not have, and reading turns
NULL into a field that is not there. A storage directory has one backend, and no file is
shared between stores, so a behaviour of `StoreSets` is about one store, chosen at the start.

The primary key of a memory is its id alone. The model has ids that are unique across
projects, as the code makes them; links may have the same id in two projects.

### SharedRepository and GitHubTeam

A commit of the default branch is the manifest (absent, valid or invalid) with a hash per
memory, and a file per memory. Content is a version number, a new one for each change. `local`
and `proposals` are the memory and the collaboration store, `clone` the checkout, `checkpoint`
the commit last imported as a whole. A publication (`pub`) runs through `Look` (the state of its
pull request), `FoundDefaultBranch`, `Push`, `OpenReview` and `Record`; a failure goes to
`Recover`, which may find the pull request all the same, and a local acceptance ends with
`Stage` (out of use here until merged). A refresh (`sync`) runs through `Refetch`,
`ImportMemory`, `DropUndeclared`, `InspectReview` for each proposal listed before, and
`SaveCheckpoint`. `Fault` lets a command fail, before or after it took effect. Between two
commands the daemon may die (`Crash`) and others act: `MergeReview`, `CloseReview`,
`TeammateCommits` (good, broken, duplicated and missing files and manifests). `asked` is
history. A publication scans the memory again, as JSON, and refuses what it finds (`Refuse`):
nothing is stored, and the memory is staged all the same. Which contents are refused is chosen
when they are written (`NewContent`, `unsafe`). The memories of one batch are published one at a
time, each as an operation of its own. Outside `src/` and modelled from its use: git and GitHub,
see the head of the module.

### RelationshipInference and RelationshipService

What the stores say at a moment is a `World`: queue, conflicts, memories, duplicate
rejections, supersessions. `RelationshipInference` maps a world to links: `Considered`
(entities within the budget, a fifth of it for candidates), `Metadata` and `Related` (pairs
that score), each cut by a greedy cap (`Capped`), a loop over the links from the best one on
(`Taken`). Sorting is counting how many come before (`Place`), so `slice(0, n)` is what has
fewer than n before it (`FirstOf`). Tags, tokens, sessions and classes of the
ids are constants. `RelationshipService` has the callers' operations with every await as a
step: snapshot, derived links, memories, inferred links; or a manual link and its audit
event. `serialize` lets one operation in at a time; `WorldStep` changes the project between
any two of its steps; `CutShort` ends it there. Only `ProjectService` makes a relationship
service (one per project), so one chain of operations per graph is the code's.

### OpenMembraneClient and OpenCodePlugin

A step is what a call does between two awaits: `ReadToken`, `Connect`, `Receive`, `Reset` or
`Timeout`, and, awaits after the refusal, `LaunchAndRetry`, which acts on what the call was told
(`refused`, `starting`) whatever the daemon does by then. A missing token leads to a health
probe. `launch` is the promise of each client: `hook` until the process is spawned, `poll` until
its health is good; all calls that wait for it then have their second attempt. A call that timed
out leaves its request with the daemon, which may still carry it out. The daemon boots, writes
its token, listens, becomes ready, executes, closes or dies, and may hang: no fairness makes it
move. `spawns` and `missed` are history of the calls under way: how often a call ran the hook,
and whether at some moment of the call no daemon listened. A refusal can be old when its call
spawns, and the process then finds a daemon and is kept out by the lock; that a spawn has a
reason is all the client can see to (`LaunchedForNeed`). A repetition of a call that was refused
with UNAUTHORIZED or DAEMON_STOPPING does not happen in the code, so those end a call.

`OpenCodePlugin` adds the events: the snapshot is asked for at once (`IdleEvent`), the task
waits for `previous`, then for the snapshot, then for its call (`Turn`, `Ingested`). A
transformation of a prompt asks the host for the messages (`Transform`), then makes two
calls together through the client for contexts (`Retrieve`) and goes on with both answers or
the first failure (`Retrieved`). `Dispose` waits for the tasks only. What is submitted in
order is carried out in order unless a call gives up waiting: then its request and the next
one of the session are both with the daemon (`IngestInOrder` says so).

### HookInstaller

One state per change of a file: `CopyCapture`, `WriteState`, `PersistSettings`,
`PersistInstructions`, `RemoveCapture`, `RemoveState`. A run reads everything in its first step.
A file's content is the user's text, our part and whether it still has the user's formatting.
`mine`, `clean` and `smooth` are history. Codex has two instructions files, the override before
the main one, unless the override is blank; the adapter for Claude Code is the instance with
`Names = {"main"}`. Two installers at once, torn files and edits during a run are left out.

## Runs

| run | instance | checks |
|---|---|---|
| `json_audit_log` | 3 fingerprints, 5 events of every kind | index against log after any crash; refinement of `SessionDispositions` |
| `lifecycle_crash` | 3 candidates, batches of up to 2, 1 session, crashes anywhere | duplicates, replays, decisions on record, conflicts settled |
| `lifecycle_calm` | 4 candidates, every kind of rejection, updates and supersession, no failures | rejected content stays out, replays restore nothing |
| `daemon_lock` | 3 processes, chains of up to 3 guards, the lock of a dead daemon | a live daemon keeps lock and discovery files; guards; starts and shutdowns end, a start is served (liveness) |
| `daemon_lock_race` | 4 processes, no lock | finding, see below |
| `store_queue` | 3 requests on one store, 2 of them with retries, and 1 on another | one at a time, drain; every request and the shutdown end; refinement of `StoreTurns` |
| `directory_memories` | JSON: 2 ids, 2 types, 2 scopes, a flat file, 1 operation cut short. SQLite: objects with and without optional fields, a link id in two projects, a new and an older database | disk against answers, master counts, database against answers; refinement of `KeptEntries` by both JSON stores |
| `github_team` | 2 memories, 2 versions, 3 commits, 2 pull requests, 1 failing command or crash | staging (unsafe contents apart), checkpoint, reviews, retries, conflicts |
| `github_unsafe` | the same with 2 commits, 1 pull request, no faults | finding, see below |
| `graph` | 4 ids that resemble each other, 2 memories at the start, 2 callers, 2 manual decisions, 2 changes, 1 operation cut short; caps of 1 and a budget of 3 | ownership, decisions, exactness, caps |
| `clients` | 3 events of a session, or 1 event and 1 transformation of a prompt (3 calls, 2 clients); 2 daemons | every text submitted, one at a time and in order; at most once; spawned for need; nothing of the ingestion after dispose, which returns (liveness) |
| `hook_installer` | 2 instructions files, 2 variants, 4 runs, 2 edits, 2 interruptions, a text that does not parse | the user's text, reversal, repetition |

A run checks what can go wrong there. The type invariant of several modules is a conjunct of the
property that needs it most: `TypedAndRejected`, `ReviewsDecide`, `AnsweredOnce`, `Reversible`,
`LinksOwned`. Some properties join two facts that are worth little apart: `SubmitsSession` (in
order, and none passed over), `AnsweredOnce` (carried out once, and not reported without it),
`StoreUse` (one request at a time, none once the stores are closed), `DirectoryAgrees` (files
and index lines, and the counts of the master index) and `LinksOwned` (one record per link and
origin, one system owner). The inductive invariants of the proofs, and what follows from them
alone (`NoPhantomMarker`, `QueueForgotten`), are stated in the modules and can be added to any
cfg.

Bounds and why they are enough:

- `JsonAuditLog`: an operation touches one event; three fingerprints give one that is being
  written, one that is whole and one that is only in the log.
- `MaxId`, `MaxBatch`: a conflict or duplicate takes two candidates, a replay over a
  superseded memory three. Two candidates in a batch are what the lists read once per batch
  need to be stale. The texts of the instance contain each relation of the detectors.
- `MaxAttempts` is 10 in the code. Its only effect is at the end of the chain, which three
  processes reach at 2 and 3.
- `daemon_lock` begins with a stale lock: whoever replaces it is a daemon like one that found no
  lock, and when it has ended the others start without one.
- Three processes are an owner, one that recovers and one that races; what four can do
  beyond is the finding of `daemon_lock_race`. For races of up to three processes `LockKept`
  and `DiscoveryIntact` hold as they stand; for more they are theorems under the condition
  that the window of the finding stays shut (`Judged`).
- Three requests on a store are one inside, one that waits and one that joins while the
  first leaves. The theorems cover any number.
- Two types and two scopes are a move within a type and one between types; two ids are the
  one that moves or fails and the one that must not be hurt. A text is not needed: `status`
  tells an old entry from a new one. One operation cut short is enough for every half-done
  state of one id. The theorems cover any number.
- `GitHubTeam`: two memories are one that is proposed and one that its import, manifest or
  removal touches; two versions an update and what it replaces; three commits the first, a
  merge and a change of a teammate; two pull requests a first and a replacement. One fault is
  what each recovery path reacts to. Commits are not reverted here, see the observations.
- `RelationshipService`: with caps of 1 every further link is over the cap, and a budget of 3
  for up to 8 entities drops some. Two changes reach a sync between its snapshot and its
  reads; two decisions are one made and one taken back.
- `OpenCodePlugin`: three events of a session are one at work and two in line, the last of which
  must wait for the second and not for the first. Sessions meet only in the launch their client
  shares; with a transformation two calls share one, beside the other client's (`MaxLoad`). Two
  daemons are one that is found, or dies, and one launched. The theorems cover any number of
  sessions, events and transformations.
- `HookInstaller`: install, interrupt, install again, uninstall takes four runs; an edit
  before the installation and one after it are the two that matter.

`CHECK_DEADLOCK FALSE` is said where the system may really stop: every process of
`DaemonLock` ended; `StoreQueue` shut down; the plugin disposed and the daemon down; the
installer at rest once its bounds are used up.

### Fairness

`DaemonLock` assumes that the operating system runs each process that has started (weak
fairness of its steps; starting, closing and crashing are never forced), and that time
passes: a cleanup that again and again finds its guard held does so once at its five-second
deadline (strong fairness of `GiveUp`). `StoreQueue` assumes that resolved promises continue,
that an operation ends (storage calls and `gh` return; the code sets no
timeout on `gh`, so one that hangs would hold its store and the shutdown), and that `close`
takes its steps. Arrivals and shutdowns are never forced. `OpenCodePlugin` assumes that the
host answers a snapshot, that promises continue, and that timers fire, which ends every call
and launch of the ingestion; nothing is assumed of the daemon, so dispose returns also when it
hangs, nor of the calls for a prompt, which it does not wait for. The
other runs check safety.

## Findings

- `daemon_lock_race`: two recoverers can hold two guards of the same lock. One reads from a
  guard a holder that gives it back and exits before it is judged dead (`lock.ts:86-93`) and
  takes the successor guard; another takes the first guard, free again. When the owner of the
  lock dies, both replace it and both become the daemon. It takes four processes: the owner,
  one whose recovery was refused, and two that recover.
- `github_unsafe`: acceptance scans the content of a memory, publication its JSON, in which a
  line break is two letters, so a content like "the password: use", a break and a word passes
  the first (`PolicyEngine.ts:25`) and is refused by the second (`GitHubRepository.ts:199`).
  `publishAcceptedMemory` then returns "rejected" and has stored nothing
  (`GitHubTeamService.ts:419-425`), which `operations.ts:468-470` and `:487-489` do not look
  at: the memory is superseded, and proposed nowhere. `docs/deployment-modes.md:28-29` says
  that each accepted memory is proposed in its own pull request.

### Observations

Further places where the code does not do what a document, a test or its own structure
says. Each is found by TLC with the change given.

| property | what happens | to see it |
|---|---|---|
| `BatchNeverTrips` | A batch whose second candidate is a clear-cut alternative to its first stops with MEMORY_ALREADY_SUPERSEDED, as the first is in two lists that are searched (`MemoryPipeline.ts:191`, `239-240`). `tests/memoryPipeline.test.ts:155` expects it to be superseded. | an INVARIANT in `LifecycleCalm.cfg` |
| `ApprovalBeforeSuperseding` | A confident candidate supersedes the memories it conflicts with before it is known whether it is saved or queued (`MemoryPipeline.ts:198-227`). `docs/architecture.md:274-281` asks for approval of conflicts first. | an INVARIANT in `LifecycleCalm.cfg`, with `Proposals <- Decisions` |
| `SupersededNotRestored` | A crash between the save of a memory and its audit event leaves no fingerprint; once that memory is superseded a replay saves it again (`MemoryPipeline.ts:238-241`). `packages/adapter-opencode/README.md:117-120` says replays restore nothing. | an INVARIANT in `LifecycleCrash.cfg` |
| `RetryPublishes` | The branch of a replacement proposal is `<id>/<timestamp>`, which git refuses while there is a branch `<id>`; the retry goes to `<id>`, which is refused as not a fast-forward (`GitHubTeamService.ts:921`, `GitHubCli.ts:138`). So a change of a memory that was merged or closed once is retried for good, which "a retry has been scheduled" (`:695`) and `tests/unit/GitHubTeamService.test.ts:776` do not suggest. | `FairSpec`, a PROPERTY in `GitHubTeam.cfg` with one memory and no faults, without symmetry |
| `PluginQuiet` | A transformation of a prompt does not ask, after it awaited the messages, whether the plugin was disposed of meanwhile (`plugin.ts:87-93`), and dispose does not wait for it: its calls, and a launch, can begin after dispose has returned. No document promises otherwise; the adapter's README speaks of ingestion only. | an INVARIANT in `OpenCodePlugin.cfg` |
| `CheckpointAgrees` | The daemon dies between an import and its checkpoint, and the commit it imported is then taken back: the diff from the old checkpoint to the new commit is empty, nothing is imported, the checkpoint advances, and the content taken back stays in use. `docs/deployment-modes.md:29-30` says merged content is authoritative. | `Reverts = TRUE`, 1 memory, 4 commits, no pull requests, 1 fault |

Limits that no run states as a property:

- JSON stores: nothing mends an id whose own operation failed half way. A save cut short
  leaves a file without an index line, a move cut short a line without a file; `findById`
  sees neither as an entry, so the next save of the id at another type or scope removes
  neither (`MemoryStore.ts:62-66`). `list` then returns the stale file, and a stale line can
  hide the memory from `findById`. A type index that does not parse makes every later save
  fail after it has written its file.
- GitHub: a failed push of an update to an open pull request is recorded as published when
  the pull request is found (`:503-521`); an update that arrives during the back-off is
  deferred and its content is not kept (`:434`); the memories a proposal replaces are kept
  for later proposals of the same memory (`:543`); a manifest that cannot be read counts as
  empty (`:608`); a pull request merged between its inspection and the push loses the update;
  after a crash between push and record a retry can publish older content.
- Graph: a link made or removed just before a crash can lack its audit event. A candidate the
  policy rejected for its content, if it was a duplicate too, stays a possible endpoint.
- Hook installer: an interruption between the copy of the capture script and the first record
  leaves a script without record; installing then refuses and uninstalling does nothing until
  it is moved by hand. After an interrupted run the content of a file is restored, its
  formatting not.
- SQLite: a database used by an older release again after the upgrade is not filled a second
  time (`db.ts:16`).

## Proofs

| theorem | says |
|---|---|
| `JsonAuditLogProofs!IndexInvariant`, `CheckpointAlwaysSound`, `NeverPhantom` | while `ready.json` exists the markers are exactly the handled fingerprints; no marker without an event |
| `JsonAuditLogProofs!JsonImplements` | the JSON audit log implements the atomic one |
| `DaemonProofs!LineInvariant`, `OneTurnAlways`, `StoresAlwaysOutliveWork`, `StoresUsedInTurn`, `QueueAlwaysForgotten` | one request per store at a time; the stores are closed after all work; the map holds exactly the stores in use |
| `DaemonProofs!QueueImplements` | the chains of promises implement `StoreTurns` |
| `DaemonProofs!GuardInvariant`, `NoGuardEverLeaked` | only a process that died leaves a guard behind |
| `DaemonProofs!LockKeptWhileJudged`, `DiscoveryIntactWhileJudged`, `OneDaemonWhileJudged` | for any number of processes: unless a guard is given back between the read of its holder and the verdict that the holder is dead, a live daemon keeps its lock and its discovery files, and there is one |
| `DirectoryProofs!DirectoryInvariant`, `DiskAlwaysAgrees` | files and index lines of every id that no operation failed at are those of the last answer, migration included |
| `DirectoryProofs!DirectoryImplements` | the directories implement one entry under each id |
| `DirectoryProofs!MasterAlwaysCounts` | between operations that all succeeded the master index counts the files |
| `StoreProofs!StoresAlwaysAgree` | with the two theorems above: of memories and of candidates, files, index lines and counts fit together |
| `StoreProofs!StoresAlwaysImplement` | memories implement entries that are put again and never dropped, candidates entries that are put once and dropped once |
| `StoreProofs!DatabaseInvariant`, `DatabaseAlwaysAgrees` | an open database holds what callers were told, object by object, and marks what its log handles |
| `MemoryLifecycleProofs!Lifecycle`, `NeverTwoAlike` | types; no two active memories are alike unless one was edited |
| `MemoryLifecycleProofs!ReplayBringsNothingBack` | what the log has handled for a session no replay of it brings back |
| `MemoryLifecycleProofs!DecidedBeforeRemoved`, `ConflictsSettled` | a candidate leaves the queue with its decision on record, and an approved one with its conflicts settled |
| `MemoryLifecycleProofs!CalmLifecycle`, `RejectedAlwaysOut`, `SupersededStays` | where no operation is interrupted: what the user rejected is not active, under no id, and what was superseded is not saved again |
| `GitHubTeamProofs!StagedHasProposalAlways` | an accepted memory is out of use only with a proposal on record, or with a content the publication refuses |
| `GitHubTeamProofs!ConflictKeptAlways` | no inspection of a review overwrites a conflict the import has found |
| `GitHubTeamProofs!TeamInvariant`, `ReviewsAlwaysDecide` | types; what is active was merged, and where nothing crashed what was not merged is not in use here |
| `GitHubTeamProofs!HistoryInvariant`, `RetryAlwaysLatest` | a version is written once; without crashes a retry publishes what was last tried for the user |
| `GitHubTeamProofs!CheckpointAlwaysAgrees` | where the default branch is never reverted, a checkpoint that is the last fetched commit was imported as a whole |
| `RelationshipServiceProofs!SingleOwnerAlways`, `LinksAlwaysOwned` | no link is derived and inferred at once, whatever is cut short, and none is stored twice |
| `RelationshipServiceProofs!ManualDecidesAlways` | what the user made or removed is shown or hidden as decided until the user decides again |
| `RelationshipServiceProofs!GraphInvariant`, `TypesKept` | one operation at a time on links that are still there; no link twice, none from an entity to itself |
| `RelationshipServiceProofs!DerivedAlwaysExact` | an undisturbed sync leaves exactly the derived links the stores speak of |
| `RelationshipServiceProofs!InferredAlwaysExact` | and exactly the inferred ones: a link stands if and only if its ends have room among the better ones that stand |
| `RelationshipServiceProofs!AlwaysProper` | no entity has more inferred links than the caps allow; candidates have their share of the entities considered |
| `RelationshipServiceProofs!NeverRedundant` | no pair is inferred to be related and linked by metadata at once |
| `RelationshipServiceProofs!DecisionsAlwaysReported` | a decision is in the audit log or on its way there, except one per operation cut short |
| `AdapterProofs!AlwaysAnsweredOnce` | a call is carried out at most once, and one reported as done was |
| `AdapterProofs!AlwaysSubmitsSession` | every text of a session is submitted, in the order of its events, the next one when the call before it is over |
| `AdapterProofs!AlwaysIngestionQuiet` | once dispose has returned no task, no call and no launch of the ingestion is under way |
| `AdapterProofs!AlwaysLaunchedForNeed` | a call spawns a daemon once at most, and only if none listened at some moment since it began |
| `AdapterProofs!UserTextAlwaysKept` | every file holds the text its user last wrote in it |
| `AdapterProofs!AlwaysReversible` | what is installed has a record that leads back, to the very bytes where no run was interrupted |
| `AdapterProofs!RepeatedInstallsIdempotent` | installing the same again over unedited files changes nothing in the record, also after interrupted runs |

Each rests on the ASSUME of its module (what the constants are, nothing about their size)
and on an inductive invariant.

- `JsonAuditLog`: the checkpoint property is silent while `ready.json` is gone, so `IInv`
  adds how far the markers are behind the log at each step: none missing before the commit,
  exactly the request's after it, exactly `todo` in a rebuild.
- `StoreQueue`: that turns exclude each other does not follow from the promises of two turns
  alone. `LineInv` says that the turns of a store are ordered by `ahead` (`Ordered`), that
  whoever is ahead of a turn is its predecessor or ahead of that one (`Chained`), that the
  tail is the last of the line (`TailIsLast`), and that nobody is ahead of a turn that runs
  or has run (`RunsFirst`). A predecessor whose promise is resolved has left with nobody
  ahead of it, so a turn that enters is first.
- `MemoryLifecycle`: the pipeline decides on lists it read once per batch, an approval on what
  it read once. `IInv` says that what it believes still covers what is stored: everything
  active is in `existing` or `saved`, and what is being assessed is like nothing active
  (`Covered`); what the log has handled of the batch it has looked up, or knows from handling
  it itself (`LookedUp`); an approval that is settling conflicts has its event in the log and
  everything still active that it conflicts with ahead of it (`Decided`). This holds with
  crashes anywhere, as a crash only drops the running operation.
  `TypedAndRejected` and `SupersededNotRestored` are theorems under `~Failures` only, because
  with an interruption between a save and its event both are false (`LifecycleCrash.cfg`
  shows the second). `Recorded` says that everything taken from a session is handled in the
  log, except what an operation at work has just saved; `Once` that a candidate has one
  decision: ids to come are unused, what is queued is neither saved nor rejected. `Apart` says
  the same of contents: what the session has brought is queued once, or stored, or rejected by
  the user, and no two of these, except between the two writes of a decision at work; a
  candidate being assessed is like nothing in the queue.
- `DaemonLock`: a guard's holder is dead, or at a step between taking and giving back with
  its path remembered and, once it cleans up, with `owns` set. That is enough for the guards.
  For the lock, `LockInv` adds that the guards of a lock form one chain in which every holder
  but the last has died (`Chain`), so two processes never recover one lock at a time; that a
  lock about to be unlinked belongs to somebody who is gone and is still the one that was seen
  (`Condemned`); that a process which cleans up is closing (`Closes`); and whose the discovery
  files are at each step of the startup (`Discovered`). A chain grows when a process judges
  the holder it has read to be dead, and it stays a chain only if that holder's guard is still
  there: nothing in `acquireRecovery` sees to that, which is the finding. The theorems name
  exactly this as their hypothesis, `[]Judged`, and so say that the window is the only way two
  daemons come about. The hypothesis leaves the races, crashes at any step, chains of guards
  of dead holders and cleanups of live ones: with three processes, 182823 of the
  252171 states of `daemon_lock` are reached while it holds.
- `JsonDirectoryStore`: `DiskAgrees` speaks of settled ids. `IInv` adds what the disk holds of
  the id at work at each step (`Halfway`), that an operation is about one id (`OneMove`), and
  that before the rename there is nothing but entries of the flat file, with as much done as
  the migration does not come back to (`Migrating`). A find of an unharmed id then answers
  exactly what was said, so the operation that begins with it takes away the right file.
  The master index counts lines, not files: `Counted` says when its count is due, and at rest
  files and lines correspond one to one by `DiskAgrees`.
- `StoreSets`: `StoreProofs` instantiates `DirectoryProofs` with `Pending <- TRUE` for the
  candidates and extends it for the memories. The invariant is that of the store that was
  chosen (`ChosenInv`); a step is one of that store or leaves every file alone
  (`ChosenStep`), so it implements `KeptEntries` or stutters.
- `SqliteStores`: the rows of a table are the rows of the objects callers know of (`Fits`), and
  a transaction's remaining statements lead from its working copy to what will be told
  (`Leads`); statements see the working copy only, so what is rolled back was never there.
  `DatabaseAssumption` says what objects are: fields that are columns, none NULL, and ids that
  belong to one project. The last is needed, as memories, candidates and diagnostics have the
  id alone as primary key while they are looked up by id and project; `randomUUID` and the
  project id a shared repository carries justify it.
- `GitHubTeam`: a publication that waits to be staged has left a proposal or was refused
  (`PublishedFirst`), and proposals are never removed; it is about the content that was saved
  (`SavedFirst`). For the checkpoint: nothing unsafe is in a branch, a commit or a publication
  past its scan (`UnsafeHere`), so what a commit shares was never refused. For the conflicts:
  publications and refreshes exclude each other (`Exclusive`), an import only puts proposals
  into conflict, and an inspection reads the proposal again before it writes (`:270`, `:287`)
  and leaves every state but "proposed" alone. For the reviews, `TeamInv` adds that numbers of
  pull requests and commits refer to something that exists (`Refers`), that what is staged was
  saved here (`Saved`), and that a refresh inspects proposals with a pull request and imports
  valid files (`Reads`). `UnmergedInactive` and `RetryIsLatest` compare contents of different
  times and need the history: every version anywhere is one that was written, so the next one is
  new (`WrittenBefore`); a content that is published and was made here is not in use here,
  except while it is being accepted (`PublishedUnused`); a failed proposal holds what was last
  asked for (`LastAsked`). `CheckpointAgrees` is silent unless the checkpoint is the last
  fetched commit, and a push fetches too. `CheckpointInv` therefore says that memories are what
  the checkpoint says until a commit with a *newer manifest* is fetched (`CheckpointFits`):
  under one date a declaration can only be damaged (`Dated`), and damage is never imported; and
  how far a refresh that will be whole has come (`RefreshFits`). A revert restores an older
  manifest with its date, which breaks `Dated`, and with it the property (see the observations);
  hence the hypothesis `~Reverts`.
- `RelationshipService`: the two system origins never say the same kind of thing (`Split`).
  The inference can return conflicts and duplicates too, but all of those are derived from
  the same snapshot, and a sync takes what is derived out of what is inferred; the lemma that
  nothing but similarity and supersession is left is the core of the proof. A manual record
  has one place per link, a sync writes records of its own origin only, and `Shown` asks for
  the manual record first. `GraphInv` adds what exactness needs: operations are alone
  (`Alone`), so the records a sync has read are those it replaces (`SnapshotHolds`) and a
  stale one is marked removed or written again; candidates conflict with stored memories and
  duplicate what is known (`Known`), so no derived link is dropped for a missing end.
  `ReportsSaved` says that what is about to be reported is the stored record of its link,
  so an operation cut short leaves at most one unreported.
  The caps are loops. `TakenRounds` unfolds the recursive function they are written as, and
  `TakenInOrder` says that what was taken in the first rounds is what has a place there in the
  end; then no link is reconsidered, and `TakenKernel` and `TakenBounded` follow. All of it
  needs an order without ties: ranks are read as numbers of several digits (`Digits`), and
  two links with the same rank are one (`KeyRanks`, `RelatedRanks`). Tags and tokens of an id
  are assumed to be finite, which arrays are.
- `OpenCodePlugin`: a request is with the daemon, on its way back or lost, and its call knows
  which (`Carried`); a call that may spawn is in its first attempt and was refused, and that
  no daemon listened is in its past for good (`Needed`). Only a task that is ingesting has a
  call under way (`Called`), and a launch has a call of its client that waits for it
  (`Awaited`). That an event waits for one predecessor alone suffices because everyone of its
  session who has not settled is no later than that predecessor, and nobody of the session is
  unsettled before an event that has started (`InLine`); the entry in `sessions` is no earlier
  than the last of the unsettled (`TailIsLast`), so an event that arrives after it was removed
  has nobody to wait for.
- `HookInstaller`: a record puts back the user's text that is in what it replaces, and
  nothing of ours (`Sound`); a run holds a plan with that property (`Planned`), and the files
  are the plan's for the parts it has written and as before for the others (`Written`).
  Without interruptions record and files also lead back to the bytes (`WayBack`).
  For repeated installations `Recording` says that until a record is written it is the one
  that was planned against the record there is.

Induction is needed in one place only, the loops of the caps. The theorems of the library
that take an operator cannot be used, so it is done over a set of numbers (`Naturals`, from
the well-foundedness of the naturals).

Only model-checked: all liveness (`Settles`, `StartServes`, `Answered`, `Shuts`,
`DisposeReturns`; fairness and ENABLED are beyond the prover). `LockKept` and
`DiscoveryIntact` without a condition are checked for three processes and false for more.

## Plan

1. Traversal of the graph, `chunkTranscript` and the nudge counters as pure algorithms
   against reference definitions.
2. The stale lists of the pipeline batch and the replaced branch of a team proposal, which are
   hazards without a property.

## Not modelled

Text heuristics (policy, classification, similarity, conflict and relevance scores),
extractors and their prompts, transcript parsers, HTTP and MCP framing, schema validation,
the review UI, the command line, exporters and file permissions: functions of texts, or
input and output around calls that are modelled. SQLite's own transactions are trusted, and
so are the rename and link of the file system. Several processes over one SQLite database or
one `relationships.json` are left out, as `DaemonLock` is about there being one; so is the
cache of open stores in `OpenMembraneService`. `components` in `PROJECT.json` lists every
part with its status.
