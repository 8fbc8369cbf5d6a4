# Geniro: a verification project

TLA+ models of the concurrent core of the Geniro API server (`apps/api`), checked with TLC and
proved about with TLAPS. Paths below are relative to `apps/api/src/v1/` unless they start with
`apps/` or `packages/`.

Geniro runs graphs of AI agents. A *graph* is compiled into live node instances inside one API
process (a pod); a *thread* is one conversation with an agent of the graph. Most of what is hard
about the server is the same thing four times: a row in Postgres that several activities decide
from and write, a queue or timer that owes it an end, and something live (a run, a container, an
indexing, a compiled graph) that the row should agree with. The project models four of these rows:
threads, sandboxes (runtime instances), indexes of repositories, and graphs with the revisions of
their schema.

## 1. Inventory

### The parts that run a thread (modelled)

| part | state | operations | interacts with |
|---|---|---|---|
| thread row (`threads/entity`, `threads.dao`, `thread-status-transition.service`) | `status`, `runningStartedAt`, `totalRunningMs`, `metadata` (wait and cost-limit keys) | `insertIfNotExists`, `updateById`, `computeTransition` | written by every part below |
| triggers (`graphs.service` `executeTrigger`, `manual-trigger.template`) | the row kept to be restored | pre-set Running in a locked transaction, cost-limit guard, invoke the agent, restore, `ensureThreadRow` | pre-flight, agent, resume queue |
| OAuth pre-flight (`oauth-run-preflight.service`) | none | check the providers of the graph, `pauseThread` | row, notifications; called by trigger, resume and watchdog |
| agent (`agents/services/agents/simple-agent`) | `activeRuns` | `run`, `runOrAppend`, `stop`, `stopThread`; emits invoke, run and stop events | graph state manager |
| graph state manager (`graph-state.manager`) | `activeExecutions`, a sequential chain of events per node | `handleAgentInvoke`, `handleAgentRun`, `handleAgentStop` | notifications, thread resume service |
| notification handlers (`notification-handlers`) | none | `AgentInvoke`: upsert, DTO, clear markers. `ThreadUpdate`: status write, metadata write | row |
| thread resume service (`thread-resume.service`) | the watchdog's interval | `onThreadWaiting`, `handleResume`, `handleResumeFailed`, `resumeEarly`, `cancelWait`, `onCredentialAcquired`, `recoverOverdueThreads` | queue, row, agent |
| thread resume queue (`thread-resume-queue.service`) | BullMQ jobs in Redis, one id per thread | `scheduleResume`, `cancelResumeJob`, `hasJob`, `processJob`, `handleJobFailed` | resume service |
| restoration at boot (`graph-restoration.service`, the failure path of `graphs.service` `run`) | none of its own | after a crash: run the graph again, stop the interrupted threads; a failed run stops them and cancels delayed jobs | row, queue |
| threads service (`threads.service`) | none | `stopThread`, `resumeThread`, `cancelWait` (and `deleteThread`, `setMetadata`: not yet) | agent, row |

Hard about them: one `await` is one interleaving point. Updates are computed from an entity read
earlier, and a flush of MikroORM sends only the columns that differ from it; events, requests,
jobs and sweeps meet in any order; jobs are retried, retained, evicted and lost; a run may fail
before it starts, throw, reach its cost limit, wait, or be stopped; a crash ends the runs, events and
requests of a thread and keeps its row and its job.

What makes them correct: a thread whose run is live is shown Running, and one with nothing running
it is not; its clock runs exactly while it is Running; a Waiting thread says what it waits for and
eventually leaves; one run at a time; one owner of a job; a thread that is over stays over until
it is started again; the guard on cost-limited threads never loses the amount it compares with.

### Sandboxes, indexes and revisions (modelled)

| part | state | operations | interacts with |
|---|---|---|---|
| runtime instances (`runtime-provider`, `runtime-instance.dao`, `runtime-state-machine.utils`, `runtime-cleanup.service`) | a row per graph, node and thread; a cache of drivers | `provide`, `stopRuntime`, `cleanupFailedInstance`, `cleanupIdleRuntimes`, `cleanupTemporaryRuntimes`, `cleanupRuntimesByNodeId`, `cleanupRuntimeInstance`, `transitionStatus` | the backend (`docker-runtime`), threads, the destruction of a graph |
| repository index (`repo-index.service`, `repo-index.dao`, `git-repositories.service`) | a row per repository and branch | `getOrInitIndexForRepo` under `withIndexLock`, `claimIndexSlot`, repair, inline and background indexing, `processIndexJob`, `triggerReindex`, deletion, `recoverStuckJobs` | queue, sandboxes, Qdrant |
| indexer (`repo-indexer.service`) | the chunks of a branch in a Qdrant collection | `resolveIndexStrategy`, seeding from a sibling branch, `runFullIndex`, `runIncrementalIndex`, reuse of chunks, batched flushes, cleanup of orphaned chunks | git, the embedding model, Qdrant, index service |
| index queue (`repo-index-queue.service`) | one job per index; retries, stalls, retained jobs | `addIndexJob`, `removeJob`, `getJobState`, `cleanStaleActiveJobs`, `handleJobFailed`, `handleStalledJob` | index service |
| graph edits (`graphs.service` `update`, `graph-revision.service` `queueRevision`) | `version`, `targetVersion`, `schema`; the rows of the revisions | resolve the head, merge, queue | merge, revision queue |
| merge (`graph-merge.service`) | none | `mergeSchemas`: two JSON patches against a base, conflicts, deletion conflicts | revisions |
| revision worker (`graph-revision.service` `applyRevision`, `graph-revision-queue.service`) | a lock per graph, BullMQ jobs | re-merge, wait for a compilation, live update, finalize, fail | registry, row of the graph |
| registry and life of a compiled graph (`graph-registry`, `graphs.service` `run` and `destroy`, `graph-compiler`) | `graphs`, `compiling` | register, compile, unregister, destroy | revision worker |

Hard about them: `provide` reads a row and then starts, takes or deletes it over several awaits
while three cleanups stop and delete it from snapshots; a stop or a start may fail half way, and two
starts that both found no container take the name from each other; the status transitions are checked
on the entity a request loaded, not on the row. A claim of an index
is several queries and git commands wide, and its lock belongs to a database session chosen by a
pool; jobs stall, fail, are lost, or meet the retained job of the same id. An indexing deletes the
chunks of a file long before it writes the new ones, and the next one starts from whatever the last
has left. A revision is merged
against a predecessor that may still fail, merged again when its turn comes, applied to the compiled
graph and only then to the row, which the worker reads and writes without the lock that submissions
take; the job of a dead worker comes back when its lock of five minutes expires, long after newer ones
have been taken.

What makes them correct: a container has a row that leads to it; a cached driver has its container;
an unused runtime is reaped. One indexer of a branch at a time; an index that is being built comes
to an end, and then its collection holds the commit the row names. The edits of applied revisions stay; a newer version is not
replaced by an older one; every revision ends; the compiled graph is the one of the row. (The code does
not keep all of this in every order: section 3 says under which circumstances it does.)

### The parts not modelled

| part | state | why it is hard | what would make it correct |
|---|---|---|---|
| nodes of a compiled graph, `getOrCompile`, what `run` and `destroy` do to threads and jobs | `compiling`, nodes, resume jobs | getOrCompile against destroy, partial compilation, cleanup of nodes | one live instance per graph; a destroyed graph leaves no job, run or Running thread |
| inside `applyLiveUpdate` | build order, nodes to rebuild | topological order, nodes that depend on rebuilt ones | every node is built from the new configuration |
| restoration at boot with another pod alive, and of temporary graphs | graphs, threads | the threads of the live pod | interrupted threads are stopped, live ones are not |
| Kubernetes warm pool | pods and their labels | conditional claim against reconcile and TTL deletion | a claimed pod is not claimed twice or deleted |
| OAuth credentials | tokens, capability links | concurrent refresh, one-use links | a link is used once; a refresh does not lose the newer token |
| Claude agent, bridge, reaper | sessions in containers | process crashes, keep-alive, stale liveness | a live session is not reaped |
| loop of an agent, sub-agents, checkpoints | messages, pending messages, tool state | appended messages at the end of a run, aborts | a message is answered or kept |
| thread store, agent memory, knowledge, Qdrant | keyed rows, vectors | concurrent writes of one key | mostly single statements |
| LiteLLM and virtual keys, cost limits | keys at the proxy | revocation after a crash | a key does not outlive its run by more than its TTL |
| triggers and webhooks | poll cursors | duplicates | an event triggers once |
| GitHub clients, git auth, agent tools, MCP, sessions and exec of the runtime backends | tokens, clients | I/O | out of reach: the behaviour is that of external services |
| templates, projects, secrets, analytics, web application, shared packages, deployment | rows, caches, rendering | little | single-row create, read, update and delete; declarative code |

Most of the repository's lines belong to the last two rows: generated API clients, React pages,
prompt and tool texts, DTOs, CRUD. They hold no state machine to model, which is why the share of
lines that the map names is small although the concurrent core is in it.

`PROJECT.json` lists every component with its status, and the most important hazards of the code at
their lines; section 3 names further ones.

## 2. Modules

| module | models |
|---|---|
| `ThreadStatus` | a thread row; `computeTransition`; the snapshot-and-diff writes; `ThreadUpdate` notifications and what their handler computes from them; the cost-limit guard |
| `ResumeQueue` | the resume job of a thread and what BullMQ and the queue service do to it |
| `ThreadState` | the shared state, the processes and their labels; the three procedures several of them run: the `ThreadUpdate` handler, `scheduleResume`, `pauseThread` |
| `ThreadEvents` | runs of the agent; the sequential handler of their events |
| `ThreadTrigger` | `executeTrigger` and `stopThread` |
| `ThreadResume` | the resume service, the queue's worker and the watchdog |
| `ThreadLifecycle` | the composition, fairness, the properties |
| `ThreadRestart` | the lifecycle with crashes, the restoration of the graph and the jobs of dead workers |
| `ThreadPromise` | the abstract specification: what the status of a thread promises |
| `RuntimeInstance` | the row, containers and drivers of one graph, node and thread: `provide` and the start of a container, await by await, against the cleanups, failures and a restart |
| `RepoIndex` | the row of one index, its job, events and workers, the calls that claim, reset or delete it, and the recovery at boot |
| `RepoIndexer` | what full, incremental and seeded indexings do to the collection of a branch, while commits are pushed, attempts end half way and the configuration changes |
| `SchemaMerge` | the three-way merge over the nodes of a schema: pure operators |
| `GraphRevision` | editors, revisions, the revision worker and the compiled graph; extends `SchemaMerge` |
| `ThreadLifecycle_proofs`, `ThreadRows_proofs`, `ThreadRestart_proofs`, `GraphRevision_proofs`, `SchemaMerge_proofs`, `RepoIndex_proofs`, `RepoIndexer_proofs`, `RuntimeInstance_proofs` | the theorems |
| `MCThreadLifecycle`, `MCThreadRestart`, `MCRuntime`, `MCRepoIndex`, `MCRepoIndexer`, `MCGraphRevision` | the model values and symmetry sets for the model checker |

`ThreadStatus <- ThreadState <- ThreadEvents <- ThreadTrigger <- ThreadResume <- ThreadLifecycle <-
ThreadRestart` extend each other, `ThreadState` also extends `ResumeQueue`, and `ThreadLifecycle` instantiates
`ThreadPromise` with the status column as its refinement mapping.

### How the state corresponds to the code

Threads:

- `row[t]` is the row: `started` says whether `runningStartedAt` is set, `wait` which wait the
  metadata describes (`timer`: `scheduledResumeAt` is set; `credential`: `waitReason` is
  `credential`), `cost` which of `stopReason`, `stopCostUsd` and `costLimitHit` it carries.
- `job[t]` is the job `thread-resume-<id>`: its BullMQ state and its failed attempts.
- `run[p]` is the run that process `p` started: `prepared` from the check for an active run until
  `activeRuns.set`, then `live`. A run is named after its starter, which has one at most.
- `execs` is `activeExecutions`, `chain` the events the sequential handler still has to take,
  `waits` the thread-waiting events on their way to the resume service.
- A *process* is one asynchronous activity: `handler`, `watchdog`, and per thread a `worker`, a
  `waiter` (`onThreadWaiting`) and a `failed` (`handleResumeFailed`); a `caller` is one HTTP
  request or acquired credential. `pc` is the await it stands at, `snap` the entity it loaded,
  `upd` and `ret` the notification it emits and where it goes on (notifications are dispatched in
  process, so the emitter runs the handler inline), `arg` what a caller was asked.

- In `ThreadRestart`, `compiled` says whether the registry has the graph, `boot` where its restoration
  stands (`run`, `read`, `stop`, `over`), `found` are the interrupted threads it has read, `stalled`
  the threads whose job has stalled once.

Sandboxes (`RuntimeInstance`):

- `row` is the one row that the unique index on graph, node and thread allows; `idle` stands for a
  `lastUsedAt` beyond the idle threshold, `temp` for `temporary`. An instance is named after the call
  of `provide` that created it, `container` says which container has its name (Docker keeps names
  unique), by the call that created it, and `up` whether that one has been started.
- `cache` is the `runtimeInstances` map of the process: the driver of an instance, known by the container
  it was started with, which may be gone; `ent[p]` is the entity a call or a cleanup loaded
  (`transitionStatus` finds it again in the identity map and asks the transition table about it),
  `hold[p]` the container it has in hand from a lookup, a creation or the cache, `failing` the calls in
  their `catch`, `pc` the await a process stands at.
- `find`, `inspect`, `make`, `boot`, `init`, `started` are the awaits of `DockerRuntime.start`; `clash`,
  `evict`, `remake` those of `createContainerWithRetry` when the name is taken: it looks the container of
  that name up, stops it, whoever uses it, and creates again. The probe after a start only warns.
- `mark`, `halt`, `kill`, `lookup`, `remove`, `stopped` and `delete` are the steps of `stopRuntime` and the
  delete that follows, a procedure that `provide` and every cleanup run; `cleanupFailedInstance` begins
  at `halt`. A stop through a cached driver (`kill`) acts on that driver's container only.
- `spared` and `clashed` are history. `spared`: the instances whose container may outlive their row
  because the backend refused a stop, or because a call created it between somebody's stop and delete.
  `clashed`: those whose name was taken when a call created their container. They serve `OrphansSpared`
  and `NoDeadDriver` only.

Indexes (`RepoIndex`):

- `row.status` and `row.stale` (not written for `codebaseIndexStaleMs`); `job` is the BullMQ job
  `repo-index-<id>` with the worker that holds its lock; `event` is the queue event that the service
  has not handled yet; `held` is the count each database session has of the advisory lock.
- `glob` is the entity in the identity map of the global entity manager, which the handlers of queue
  events and the boot use since they run in no request; `ent[p]` is a call's own.
- The `Reader` searches the repository again and again; the other `Callers` make one request each.

What indexings write (`RepoIndexer`):

- `log` is the history of the branch: what each file holds at each commit; a content stands for the hash
  of a file, `Absent` for no file. `row` is status, `lastIndexedCommit` (0: null) and embedding model;
  `donor` the commit a completed index of a sibling branch has.
- `points` is the collection of the branch, one record per chunk with its `path` and `file_hash`.
- `run` is the indexing in progress: the commit it has resolved, the one it compares with (`base`),
  the files left (`todo`) and processed (`done`), the paths it has prefetched (`known`) and the chunks
  not flushed yet (`batch`).

Revisions (`GraphRevision`):

- `graph` is the row; a schema is a list of nodes `[id, cfg]`, in order, since diffs name a node by
  its index. `rev[e]` is the revision of editor `e`, with the client's schema (`client`), the base it
  was submitted at (`base`, `seen`), the merged one (`new`) and the version it leads to (`to`).
- `view[e]` is what an editor has loaded. `queue` are the jobs that wait, `later` those that wait for the
  delay of a retry, after which they queue at the back; `chain` those the worker has taken, in the
  order of their lock per graph; `dead` those of a worker that is gone, which stay active until the
  stalled check finds their lock expired and puts them at the front (`GiveBack`), while the restarted worker
  takes waiting and new jobs (`Take`); `stalled` those it has found once.
- `step` and `base` say where the head of the chain stands, `fix` what it has read of `targetVersion` in
  the transaction it is in: `finalizeAppliedRevision` and `resetTargetVersionIfNeeded` read the row with
  `getOne`, without a lock, and write what they found to be needed. `live` is the entry of the registry,
  `runner` a `run` in progress.
- `rev[e].known` and `applied` are history, for `NoLostEdit`.

In all modules one `await` of the code is one action, named after its operation; what happens
between two awaits is atomic, as it is in Node.js. Transactions that take a pessimistic lock when
they read (`upsertRunningThread`, the pre-set of `executeTrigger`, `update` of a graph) are one action
each; those of the revision worker, which read without one, are two.

### Abstractions

Threads:

- *Writes.* `WriteStatus`, `WriteMeta` and `WriteBoth` send the columns that differ from the
  snapshot, as MikroORM's flush does (external). A metadata write sends the whole JSON value.
  Where a write always differs (`scheduledResumeAt`, `resumeError`, the restore) it always writes.
- *Reads by id inside one request* return the entity of the request's identity map: `resumeEarly`
  and `cancelWait` go on with the entity that the request loaded first.
- *Time.* A delayed job may become due at any moment, a wait may be overdue at any moment after
  its announcement is complete (its deadline is at least a second away and the watchdog adds a
  grace of 30 s, so the sweep does not see a wait that is still being announced).
- *Money.* A limit is `reached`, `raised` or `removed` compared with the recorded amount.
- *Threads* are root threads of one graph with one agent node; sub-agents, whose notifications
  name a parent thread, are out of scope. The graph has one OAuth provider.
- *Messages* of the conversation are not modelled; a run decides once, by `finish` (done or more
  information needed) or `wait_for`, or ends without.
- *The credential* is connected once in the runs; with the fault `cred` it expires and returns for ever,
  which the theorems cover and TLC's liveness checking does not reach.
- *Naming* a thread is asynchronous: whether it has a name when it is invoked is nondeterministic.
- *Faults* are switched on by the constant `Faults` (see `Mishaps` in `ThreadState`). `pod` makes a
  request or a job meet a pod that has no live graph; `overlap` lets two runs of one thread be
  prepared at the same time, which the code does not exclude.
- One `onThreadWaiting` and one report of a final failure per thread are in progress at a time;
  a live worker that stalls, so that BullMQ gives its job to another one, is not modelled: only the
  jobs of workers that a crash has ended are given back, and a job that stalls twice is failed.
- *Restarts.* A crash ends every activity and keeps `row` and `job`; `onModuleInit` does not await the
  restoration, so requests and jobs come at once. Without the graph a trigger is refused and a resume
  throws before its first write (`Serve`); without the fault `early` that lasts until the interrupted
  threads are stopped, with it only until the graph is compiled. The writes of the restoration do not
  fail, and a user does not run the graph while it is being restored.

Sandboxes: one graph, node and thread. Whether a call asks for another configuration, and when a
runtime has grown idle, is nondeterministic; without the fault `slow` a runtime grows idle only while
no call is in progress (a start takes less than the idle threshold). The backend is Docker: a name space
of containers. The stop and the removal in `stopByInstance`, whose errors are both swallowed, are one
step, which removes the container or, with the fault `stop`, leaves it. That an image, a network or a
container cannot be had is one failure (`image`). Daytona and Kubernetes, starting phases and
`RuntimeThreadProvider` are left out.

Indexes: one row, of one incarnation: after a deletion a new claim makes another row with another
job, which is not followed. Whether an indexing is inline or in the background is nondeterministic;
what it writes to Qdrant is `RepoIndexer`. One event is pending at a time. Without the fault `overlap`, a
reindex or deletion excludes a claim and another reindex or deletion, events are handled before the
next repair, and an indexing takes longer than the queries of a repair; without `slow`, no row grows stale under a call or
a worker. One API process.

What indexings write: one indexing at a time (that is `RepoIndex`'s subject) and one sibling branch,
which shares the history. Files are processed in any order, chunks are flushed in any number of
batches. Ignore rules, uncommitted changes of the working tree, the metadata that a reuse refreshes
(commit, token counts) and the estimates are left out; the vector size does not change; the
configuration changes between indexings (it is the environment of the process).

Revisions: edges, the scalar fields of a schema (`mergeGraphFields`), the choice and rebuilding of
nodes inside `applyLiveUpdate` and the pruning of old revisions are left out; one graph, one process.
The transactions are at read committed: a flush sends the columns that differ from what was read. With
the fault `race` a submission may commit between the worker's read and its write of `targetVersion`;
without it, not. A crash does not come between a submission's transaction and its enqueue. A job that
the stalled check finds a second time is failed by the queue without a handler of the service: its
revision stays as it is (this takes two restarts).

### Bounds

Threads: `Threads` and `Callers` are small sets; a caller makes one request, so `Callers` bounds the
requests of a behaviour. `MaxWaits` bounds how often the agent decides to wait, by thread.
`MaxAttempts` is BullMQ's `attempts` (3 in the code; 1 or 2 in the runs: the code distinguishes only
the last attempt from the others). `MaxCrashes` is 2, so that a crash may meet a restoration and a job
may stall twice. Three requests are enough for the races the properties are
about: each is between a starter, something that ends or overtakes its run, and a third party that
reads or writes in between. Two threads are needed only where threads meet (`failures`, `doc_cost`).

Sandboxes: two calls (one whose start, row or driver the other shares or replaces), the reaper and
the cleanup of a node, one restart (`MaxCrashes`). Indexes: the Reader and one caller, one worker,
2 attempts (3 in the code), 1 stall (2 in the code), one outage (`MaxOutages`: a restart or a lost
job). Every branch of the attempts is reached; of the stalls only the first, since a stall takes a restart and the
queue fails a job for the one after `MaxStalls`. With two outages that branch is reached too, and TLC finds the
properties of the run true (188,119 states), in more time than is kept for a run. Revisions: three editors (a predecessor that is
applied or fails, an edit merged against it, and a third one behind both), one node at the start, edits
that set or add, two attempts (3 in the code), one run of the graph or one restart (`MaxRuns` counts
both), two worker slots (5 in the code: the lock per graph leaves one at work, the others wait in
order). A retry comes of a compilation that ends while a revision waits for it, a job given back of a
restart; either may come behind newer revisions. A job cannot stall twice with one restart.

What indexings write: two files (one that changes or goes while the other stays), two contents, two
chunks of a file, two models, three commits (one indexed, one that an attempt at fails, one that the
next attempt indexes); the number of attempts is not bounded. Full and incremental attempts fail or
crash at any step. A seeded one, which is the first, does neither: its repetition would seed a
collection that is not empty, and that (`reseed`) the run leaves out.

Every run but `indexes` sets CHECK_DEADLOCK FALSE: calls and editors are finite, and when all are
answered, or the last commit is pushed and indexed, the server rests. In `indexes` the Reader searches for ever, so deadlock is checked.

## 3. Runs

Passing:

| run | instance | checks |
|---|---|---|
| `failures` | 2 threads, 3 synchronous triggers or stops; runs refused by the pod, failing to start, or throwing | `NoStrandedRunning` |
| `outcomes` | 1 thread, 3 asynchronous triggers, runs that end in every way but a wait | `PromiseKept`, `ClockFollowsStatus`, `LiveRunShows`, `HitKeepsAmount` |
| `waits` | 1 thread, a run that waits, its job failing, lost or evicted; fair | `TimerWaitsEnd`, `WaitDescribed` |
| `pauses` | 1 thread paused for a credential, which a message, a resume, a cancellation, an acquired credential (any 2), the watchdog and the queue act on; fair | `PausesEnd`, `OneRun`, `JobOwned`, `TypeOK` |
| `restarts` | the same thread with synchronous messages and 2 attempts, through 2 crashes and restorations that may fail | `NoStrandedAfterBoot`, `WorkerHoldsJob`, `OneRun`, `RestartTypes` |
| `runtimes` | 2 calls with any configuration, the reaper, the cleanup of a node, containers that fail to start or stop, a restart; fair | `OrphansSpared`, `NoDeadDriver`, `Reaped`, `TypeOK` |
| `indexes` | repeated searches and one more, a reindex or a deletion; failing indexings, a lost job or a restart; fair | `OneIndexer`, `IndexEnds`, `TypeOK` |
| `contents` | 2 files of 2 chunks, 3 commits, 2 models; full and incremental indexings that fail or crash at any step, a seeded one, unreachable commits | `Exact`, `Findable`, `TypeOK` |
| `revisions` | 3 editors that set or add nodes and race the worker, invalid updates, compilations that fail, retries, a run or a restart; fair | `NoLostEdit`, `LiveMatches`, `TargetAhead`, `VersionForward`, `RevisionsEnd`, `TypeOK` |

What the properties of threads say:

- `NoStrandedRunning`: once everything emitted is handled and no run, request or job of a thread is
  left, it is not Running.
- `LiveRunShows`: once everything emitted is handled, a thread whose run is live is shown Running
  (or Stopped, if a stop was asked while the run was prepared: the stop found no run).
- `ClockFollowsStatus`: `runningStartedAt` is set exactly while the thread is Running, in every
  state between two writes. `prepareThreadsResponse` calls it the DB invariant and repairs it for
  display.
- `HitKeepsAmount`: a row with `costLimitHit` has `stopCostUsd`.
- `WaitDescribed`: status and wait metadata, written separately, agree once everything is handled. Its
  run has one message and one wait, so the announcement of a wait never meets a newer run there; that
  case breaks `LiveRunShows` (see below) and no property of a passing run covers it.
- `PromiseKept`: the status column refines `ThreadPromise`: a thread that is over is reopened only
  by a start, never made Waiting or given another outcome by something late, except a stop.
- `OneRun`, `JobOwned`: one run of a thread; a job is active exactly while its worker is busy.
- `NoStrandedAfterBoot`: `NoStrandedRunning` after crashes at any step of anything and restorations
  that may fail: what a crash cut off is stopped, and what a surviving job does to the thread
  meanwhile is not left half way.
- `WorkerHoldsJob`: a worker that resumes a thread holds its job, though the jobs of dead workers are
  given back, cancelled and added again around it.
- `TimerWaitsEnd`, `PausesEnd`: a wait ends, though its job may be lost, evicted or fail, and though
  nobody names the thread when the credential is connected. `PausesEnd` asks for the credential to
  stay and excepts a thread that its own resume has paused again a moment earlier: the job of that
  resume is retained as completed, and the watchdog takes it for a live one (as in `doc_chained`).

Of sandboxes:

- `OrphansSpared`: once every call and cleanup is over, a container without a row is one whose stop
  the backend refused, one that a call created between a stop and the delete that follows it, or one of
  an instance whose calls met a name conflict: no other order of failures, restarts, calls and cleanups
  loses one.
- `NoDeadDriver`: once every call and cleanup is over, the driver cached for the row has its
  container, so the next call is not handed a dead one, unless calls met a name conflict on that
  instance. Without overlapping calls there is no conflict (the theorem `AloneNoConflict`).
- `Reaped`: the row of a runtime that nobody uses does not stay Starting, Running or Failed.

Of indexes:

- `OneIndexer`: until a restart, no two workers or calls index one branch at the same time.
- `IndexEnds`: an index that is Pending or InProgress becomes Completed, Failed or deleted, whatever
  jobs fail, stall or are lost, as long as somebody searches it.

Of what indexings write:

- `Exact`: a completed index holds every chunk of its `lastIndexedCommit` and no other, whatever
  attempts, commits, fallbacks and seedings came before.
- `Findable`: a file that has not changed since the last indexed commit can be found throughout every
  later indexing: full ones reuse its chunks and do not delete them first.

Of revisions:

- `NoLostEdit`: what an applied revision has changed stays, until a revision of somebody who has seen
  it changes it again: concurrent edits are merged or refused, never lost. It says so while no
  revision was submitted at a version at or above one that two revisions were meant for (`Clear`:
  `getSchemaAtVersion` finds either of the two, the failed one as well), and while no revision that the
  queue gave out a second time has been applied behind a newer one (`Overtaken`).
- `LiveMatches`: a running graph runs the schema of its row, except between the live update and the
  write of the row.
- `TargetAhead`: `targetVersion` is never behind the version, though failures set it back and
  submissions race the worker.
- `VersionForward`: the version goes back only by a revision that the queue has given out a second time
  (after a failure or from a dead worker), or to a version meant for two: whatever else happens in the
  queue, the newer revision is applied later.
- `RevisionsEnd`: a revision that was accepted is applied or marked failed, though jobs fail, are
  retried, and are given back at any step.

Each of these is checked against a mutation of the code that it catches (`mutants` in
`PROJECT.json`; the mutants stand before the definitions they replace).

The properties hold for the requests and faults of their run, and some fail outside it; the runs that
show where are the `doc_*` runs, each a statement of the repository that the code does not keep:

| run | property | what happens |
|---|---|---|
| `doc_cost` | `CostStopLands` | the stop event of one thread clears the executions of all, so the stop of another cost-limited thread lands nowhere |
| `doc_chained` | `TimerWaitsEnd` | a resumed run that waits again finds its own job active: the new wait is never scheduled, and the watchdog takes the retained job for a live one |
| `doc_orphan` | `NoOrphan` | a cleanup of a runtime that is still Starting is refused the transition to Stopping, takes that for somebody else's success and deletes the row: the container stays |

Other limits met while choosing the instances, which the passing runs stay clear of. Threads: a
message to a Waiting thread whose run cannot be prepared leaves it Running (nothing restores a Waiting
row); the restore of `executeTrigger` may overwrite a status that has landed; two triggers that both
check for an active run before either has entered its own run in parallel; a pre-set by an
asynchronous trigger whose run cannot be prepared leaves the thread Running; a stop
concurrent with asynchronous triggers breaks `ClockFollowsStatus` (two writers that disagree on the
snapshot's status write one column each) and, with a cost limit, `HitKeepsAmount`; a message to a
thread whose wait is still being announced breaks `LiveRunShows`; a cancellation during an active job
breaks `PromiseKept`; timer waits and credential pauses of one thread together break `WaitDescribed`
and the liveness properties; two messages of which one is paused and the other runs may leave the
thread Waiting without wait metadata, which nothing resumes; a run that starts between the registration of a restored graph and the
stop of its interrupted threads (`early`) is shown Stopped while it is live, which breaks
`LiveRunShows` (`NoStrandedAfterBoot` holds there too: TLC takes too long for a run, it is proved). Sandboxes: a runtime that a crash left Stopping or Stopped is selected by
no idle cleanup. Two calls that are both past `getByName` (`docker-runtime.ts:730`) create one container
each: the second meets the name of the first, stops that container and creates its own (`:613-635`). If the
first call had started its container, its probe (`:830`) only warns, so it caches a driver whose container is
gone, and if it does so last, the next call is handed that driver, and the next stop goes through it:
the stop is swallowed, the row deleted and the live container lost. `NoDeadDriver` and `OrphansSpared`
except the instances of such a conflict (`clashed`). Indexes: an inline indexing slower than the staleness window meets a second indexer
(fault `slow`), as would the recovery at the boot of a second pod; the advisory lock is taken and
released by two statements on the pool of connections, so with the fault `pool` two calls may be inside
the check and claim at once. What indexings write: `Exact` fails when a batch is flushed in the middle
of a file and the attempt then ends (`split`: any chunk with the hash of the file counts as all of
them), when a file returns to what it was after an unfinished attempt (`revert`: it is not in the next
diff), when a file becomes unreadable, empty, binary or too large (`skip`: its old chunks stay), when
the deletion of orphaned chunks fails (`cleanup`: the error is logged and the index completes), and
when a collection that is not empty is seeded (`reseed`: by a retry, by `triggerReindex`, or by the job
of a seeded claim when the donor has moved on; the chunks of both commits stay, although the comment in
`prefetchExistingChunks` expects stale chunks to be cleaned up). `Findable` fails when the chunks that
exist cannot be listed (`prefetch`). A changed embedding model is written to the row by the claim, so
that the background job that follows sees no change and indexes incrementally; vectors of two models
are not told apart in the model. Revisions: a
revision that is retried (`error`, `compile`) or given back after a restart may be applied behind a newer one.
It is then merged with what is in force, but takes the version back to its own (base 2: the revision to
3 is taken and the server restarts, the one to 4 is applied, then the lock of the first expires and
`finalizeAppliedRevision` writes version 3), and the target stays at 4 with nothing left that leads to it: no
property says that the version catches up with its target. With a fourth editor the version that came back may be the base
of a revision that was merged before, which is then applied as it was, without the newer edit; both are against
the comment in `processRevision` that the work is "idempotent", and excepted by `VersionForward` and
`NoLostEdit`. A submission that commits while a failing or finishing revision has read the row and not
written it (`race`) may lose its target, so that its version is given again, to a second revision, or
one below a pending one. Jobs queued in another order than their revisions were submitted (`overtake`)
take the version back too. A run that has read the schema before a revision finishes starts with the
old one (`overlap`); when the head removes a node, an edit of the client lands on the node that moved
to its index (`remove` breaks `NoLostEdit`); a crash between the transaction and the enqueue, which the model
excludes, leaves a pending revision and a target that is never reached; so does a job that stalls
twice, which the queue fails without telling the service (two restarts); with `reject`, the edits of a failed predecessor may enter with the
revision that was merged on top of it. When a version is given twice, to a revision that fails and to
one that is applied, that loses an applied edit. With four editors, a third merges with the failed of
the two, fails as well, and a fourth, merged on top of it, is applied as it was merged, with the
failed edit of a node in place of the applied one. With six it happens without such an edit being
based on the ambiguous version: others are merged on top of the failed revision while they are
submitted, and whoever is based on the version of one of them is applied as merged, without what the
re-merge of the others had brought in. Three editors do not get that far; the condition of
`NoLostEdit` excludes such histories, and with it four editors keep their edits too (safety only).
Those that matter most are in the list of hazards.

### Fairness

`FairSpec` of `ThreadLifecycle` assumes what Node.js, BullMQ and an interval timer give: an activity
that stands at an await goes on (weak fairness of the handler, the watchdog and every caller, worker,
waiter and failure report), a run is entered and ends, a delayed job becomes due. No request,
credential, fault or decision is ever owed. `JobTaken` has strong fairness, since a job may be lost
while it waits and be scheduled anew: a worker gets to take one of them, i.e. Redis does not lose
every job. Nothing is assumed of `JobEvicted`: `waits` holds because a failed job has stopped its
thread.

`FairSpec` of `RuntimeInstance`: calls and stops go on, and the cleanup job of the reaper repeats. No
call, sweep of a node, ageing or crash is owed.

`FairSpec` of `RepoIndex`: awaits go on, a waiting job is taken, events are handled, the boot goes on,
an orphaned active job is found by the stalled check, and a row that nobody writes grows stale. The
Reader searches again and again (it gets the lock infinitely often if it is free infinitely often).
Strong fairness is used where a step may be enabled only now and then: an indexing that waits for a
repair to pass, the lock, the ageing between two activities, the reset and the deletion that wait for
a claim. Failures, losses and crashes are never owed, and nothing forces an indexing to succeed.

`FairSpec` of `GraphRevision`: an editor that has submitted enqueues, the queue hands out its jobs, the
delay of a retry and the lock of a dead worker end, the worker goes on, a run that has begun registers and compiles. Nobody need edit, run
or destroy.

## 4. Proofs

`ThreadLifecycle_proofs` proves, for any threads, callers, requests, outcomes, faults and bounds:

- `TypeCorrect`: `Spec => []TypeOK`
- `JobsOwned`: `Spec => []JobOwned`
- `OneRunAtATime`: `Spec => []OneRun`

They follow from one inductive invariant (its theorem `Inductive`), `IInv == TypeInv /\ OwnInv /\ JobOwned`:

- `TypeInv` adds to `TypeOK` what it needs: a job that has not failed for good has attempts left
  (or `FailJob` would leave the type), the handler has an event in hand while it is busy (or `Head`
  and `Tail` are applied to nothing), and a status write has a status to write. That the attempts
  of a failing job suffice needs `JobOwned`: only an active job fails.
- `OwnInv` says that a busy worker's job is active (`JobHeld`, the half of `JobOwned` that a crash does
  not break), that no thread has two runs, that whoever starts runs never returns from an emission to
  being idle (or its job would stay active without it), and that a caller has no run before its
  request (or a request for another thread would move its run there). The other half of `JobOwned` is
  kept wherever it holds (`Kept`), so that it can be dropped where the server crashes.

Every action is shown to keep the types; then to be *steady* (nobody who starts runs becomes or
stops being idle or changes threads, no job becomes or stops being active, no run is started),
which keeps `OwnInv` at once. The exceptions are proved one by one: taking a request (`TakeKeeps`),
starting a run (`StartKeeps`), and the worker taking, completing or failing its job
(`WorkerKeeps`).

Assumptions: the sets of threads and callers are finite and there is a thread; requests, outcomes
and faults are those named in `ThreadState`; `MaxAttempts` is positive, `MaxWaits` a natural number.

`ThreadRows_proofs` proves what the runs `outcomes` and `failures` check about the rows, for any number
of threads, requests and overlapping runs. None of these properties holds under all requests and
faults (section 3 says what breaks them), so each theorem names what it excludes:

- `HitsKeepAmounts`: `Spec => []HitKeepsAmount`, for instances that are `Unstopped` (no stop requests;
  everything else may happen)
- `ClocksFollow`: `Spec => []ClockFollowsStatus`, `LiveRunsShow`: `Spec => []LiveRunShows` and
  `PromisesKept`: `Spec => PromiseKept`, the step-by-step refinement of `ThreadPromise`, for instances
  that are `Calm`: no stop requests, no waits, the credential is there, no two runs of a thread are
  prepared together, and no run that a request awaits is rejected (the restore of a row would be a
  second writer)
- `NobodyStranded`: `Spec => []NoStrandedRunning`, for instances that are `Undelayed`: no waits, the
  credential is there, no cost limits, and no asynchronous trigger whose run cannot be prepared; stops,
  overlapping runs, throwing runs, refused requests and restores of rows are allowed
- `NobodyLeftRunning`: `Spec => []NoStrandedRunning`, for instances that are `Paying`: no cost limits and
  no runs that cannot be prepared; everything else is allowed, that is, waits, pauses, resumes,
  cancellations, lost, evicted and retried jobs, sweeps and changes of the credential as well

`HitKeepsAmount` is about a metadata column that is written as a whole from entities read earlier, so
its invariant `AmountInv` follows the amount through every entity, every kept row and every update on
its way: no update drops the amount without the marker. Only the stop event of a manual stop does,
and `StopsAtStop` says that the handler stops threads for stop events alone.

The invariant of `Calm` instances is `RowsInv`. Its core, `Turns`, is the order of the events not handled
yet: of one run the invoke comes before the end (`InvokeThenEnd`), of two runs of a thread one has ended
before the other begins (`InTurn`), and the invoke of a live run is the last event of its thread
(`LiveIsLast`). All three rest on the check for an active run, that is on `OneRun`. From the order
follows `EndFindsRunning`: when the handler takes the end of a run, the thread is Running, because
the invoke of that run, or a later pre-set, was the last to write its status. So the entity the handler
reads is Running with its clock on, and the write that is computed from it lands a status and stops the
clock at once.

The invariant of `Undelayed` instances is `OwedInv`. A stop may take a thread out of Running behind the
back of its run, and two runs of a thread may be prepared at once, so events find threads in any status
and there is no order to rely on. What holds instead is `RowsOwed`: whenever a row is Running, somebody
*owes* it its end: a request that holds a row to restore, a run that is live or will be, or a run event
that the handler has not done with (`Owed`). A step that sets Running has to show its debtor:
`executeTrigger` the row it keeps, the handler of a late invoke the run event that follows it in the chain
(`InvokesEnd`). A debtor that leaves has to show a status that is over, or its successor. The run event
is the last one, and when it is done with, the row has its status, since `RowsThere` says there is a
row to write by then. `ensureThreadRow`, which inserts a Running row, is only reached when there is a
debtor still or a row already.

The invariant of `Paying` instances is `DebtInv`, with what it says of rows in `NoneUnpaid`. More hands
take part: a resume sets its thread Running long before its run, a paused run must write Waiting first,
and updates are landed by whoever emitted them (`Debtor`). So nothing is said of who may be where, as
`OwedInv` does; each step is described by whom it moves and what it posts (`StepBy`), and has to show that
what its own process owed is still owed or that the thread is out of Running (`StepByKeepsDebts`). Two facts
carry the rest. `UpdateEnds`: an update that no handler makes stops the thread, makes it wait, or goes on
to start a run, so a late update never sets a thread Running for nobody. `RunHandled`: a run event in
the handler's hand is owed until its status is written, and the status it writes is not Running (`RunsEnd`).
The two theorems do not include each other: a row that is kept to be restored is a debt in `OwedInv`
alone, which is what covers runs that cannot be prepared. The exclusions of `Paying` are real: a resume or an
asynchronous trigger whose run cannot be prepared leaves its thread Running, and a run at its cost limit
posts no run event but a stop event, which updates nothing once another stop has cleared its execution.

`ThreadRestart_proofs` proves of the server that crashes at any step and restores its threads:

- `RestartTypeCorrect`: `RestartSpec => []RestartTypes`
- `WorkersHoldJobs`: `RestartSpec => []WorkerHoldsJob`
- `OneRunAcrossCrashes`: `RestartSpec => []OneRun`
- `NobodyLeftAfterBoot`: `RestartSpec => []NoStrandedAfterBoot`, for instances that are `Paying`, with any
  number of crashes and with new runs during the restoration (`early`), which no run of TLC covers

Its invariant is `RInv == TypeInv /\ OwnInv /\ ServerTypes`. The steps of the server keep the first two
by the lemmas of `ThreadLifecycle_proofs`. What is proved here are the steps of the restart: a crash,
which ends all runs and leaves rows and jobs alone; the expiry of a dead worker's lock, which gives a
job back only if no worker that lives has it; and the boot, which stops threads and cancels jobs while
the queue already hands out others.

`NobodyLeftAfterBoot` has `RestartDebts` besides. A crash takes every debtor away and leaves the rows. Then
the restoration is one: a Running thread is owed its end by somebody that lives, or it is `Unchecked`, that
is, the boot has still to read the threads or has read this one and not stopped it yet (`OwedOrChecked`).
A crash during a restoration that fails, or after it, must find nothing Running that nobody checks,
because a graph in Error is not restored again. That is `Unhosted`: while the graph is not in the registry
the server is `Dormant`, no run, event or trigger exists and no resume goes on to a run, and only
`Unchecked` threads are Running. `DormantStep` shows that nothing the server does then starts anything.

`GraphRevision_proofs` proves, for any editors, nodes, edits, attempts, slots and bounds:

- `TargetNotBehind`: `Spec => []TargetAhead`, under all faults, redelivery and overtaking included
- `LiveFollowsRow`: `Spec => []LiveMatches`, under all faults but `overlap` (a run or destruction that
  meets a revision between a read and its use)
- `TypeCorrect`: `Spec => []TypeOK`, under all faults
- `VersionsForward`: `Spec => VersionForward`, under all faults but `overtake` (a revision is queued
  before one submitted earlier): restarts, retries, races and rejections included
- `EditsKept`: `Spec => []NoLostEdit`, for instances that are `InOrder` and whose edits set and add nodes
  (with `remove` the property fails, see section 3). `InOrder`: none of `overtake`, `race`, `crash` and `error`
  happens, and a job has one attempt or nothing ends the compilation a revision waits for (not `compile`,
  `overlap`); updates may be rejected. With restarts, retries and races `NoLostEdit` is only model-checked.

The inductive invariant of the first two is `Inv == Types /\ Decided /\ TargetAhead /\ ("overlap" \notin Faults => Following)`.
`Types` is what the arithmetic of versions needs: versions are naturals, and whoever is in the queue,
the retries, the chain or the hands of a dead worker is an editor who has submitted (`Queued`), since a revision that nobody
submitted has no version to set a target to. `Decided` says what the worker's unlocked reads are worth
when it writes: a target that was not behind the revision's version when it was read is not behind it
when the row is finalized, since only the worker sets it back. `Following` strengthens `LiveMatches` to something a step
keeps: it says what the registered graph holds at each step of the worker and of a run in progress.
At `final` the graph holds what the revision at the head of the chain is about to write, so `Finalize`
brings the row to it; at `reject` and `error` it may hold anything, and the only way out is `Fail`,
which destroys it; a run in progress holds the schema it read, which is still the row's because no
revision finishes in between without `overlap`. There is one lemma per group of actions.

`TypeOK` says more than types: schemas have no two nodes of one id, versions are bounded by the number
of editors, failures by the attempts. Its inductive invariant `TInv` adds to `Inv`:

- `Schemas`: every schema the row, a revision, an editor, the registry or a run has is over the nodes of
  the graph as created and of the editors who have submitted (`Known`), so that what an editor adds is
  new to what it adds it to (`EditedIs`); that a merge of schemas is one is `MergeIsSchema` of
  `SchemaMerge_proofs`.
- `Numbers`: no version is beyond `Reach`, one more than the submissions there were. The target is set
  back by a failure and made again by the next submission, so versions are not counted by the target.
- `Once` and `Attempts`: a job is in the queue, the retries, the chain or a dead worker's hands, and once; if it were there
  twice, a second failure could exceed the attempts the first has used up.

`VersionForward` has `Lined` besides. It looks at pairs: a revision `v` that has been given out once, and
whose version is meant for no other, against any revision `x` to a later version. Until `v` is over, `x`
is `Behind` it: when `v` is still queued, `x` is queued after it and neither taken, failed, given back
nor applied; when `v` is taken, `x` may be taken too, but after it. Whatever a crash or a failure does to
the queue, it gives out again what it puts in front. So what is
finalized is below the row only if it was given out twice or is not alone at its version. The rest of
`Lined` says where versions come from: every version up to a submission's has been made by a submission
(`Made`), which is what a target that was lost to a race and made again costs its uniqueness.

Two more parts, for `InOrder` instances, order everything. `Waiting` says that no job waits for a retry
or for the stalled check and that what the worker has read of the target is still so; `Ordered` that the
jobs, those in work first, then the queued ones (`Line`), stand in the order of their versions, between
the row's version and its target, with the one editor who has committed but not yet enqueued behind
them. So a failure that sets the target back is that of the last in the line. A failed revision leaves
the line as its failure is written, not when its job ends (`Held`).

`EditsKept` is about every schema that takes part in a merge, not only the row's. A merge is a function
of indices, so the first lemma, `MergedEdit`, says what one edit becomes by it: if the head has the nodes of
the base at their indices (`Begins`) and the base does not name the editor, the result begins with the
head, has the edit (`Bears`), and loses of the head only what the client has replaced knowing it. The
inductive invariant is `Merged`, over the histories that `NoLostEdit` speaks of (`Distinct`: no revision is
submitted at or above a version meant for two). `Carries(s)` says of a schema that no applied edit is lost in it
and that it extends the row's.

- `Counted`: every version up to the target or to a revision's has been meant for one, an applied
  revision is not above the row, one still to be applied is, and who has not seen an applied
  revision was submitted below it.
- `Based`: a revision's base is what the revision to that version is merged to, the row extends every
  base, the result of each revision bears its edit, and a schema of version `v` names only editors whose
  revision is to `v` or below (`Within`). So what a client replaces in a base is of somebody it has seen.
- `Processed`: what the worker has merged for the head of the line is a schema that carries, and the row's
  schema is that of the revision to its version, so that whoever is based on that version is merged with
  what is in force.
- `Above`: what is still to be applied is merged on top of all that is before it: it carries already, and
  it begins with every pending revision below and has its edit. It is what makes `Finalize` safe for
  those that stay in the line. It holds while all versions up to the row's are of one revision each: when the last of the line is rejected, versions are given again, and what is
  submitted then may be merged with a rejected revision. That is where the condition of `NoLostEdit` comes
  from; what was submitted before is kept all the same, since the worker merges it again with the row.

Steps divide in four: an accepted submission (`AcceptMerged`), the second merge (`RemergeMerged`, for which
`RemergeIs` shows that all merged on top of the old result are on top of the new one), the write of the row
(`FinalizeMerged`) and the others (`OtherMerged`).

The assumptions are `EditorAssumption` (finitely many editors, whose names are not those of the nodes
the graph is created with) and `BoundAssumption`.

`SchemaMerge_proofs` proves `MergeKeepsBoth`, for any schemas over any ids and configurations: in a
merge that is not refused, a field that the head changed has the head's value and one that the client
changed has the client's, at their index (both may have changed it only alike), and every node the
client added is in the result. `MergeIsSchema` adds that such a merge is a schema again, though fields
are written and nodes spliced in by index.
`MergeKeepsBoth` is a fact about the operators alone; that *nodes*, and not only indices, keep their edits over a
history of revisions is `EditsKept`, which rests on another fact about the merge, `MergedEdit`.

`RepoIndex_proofs` proves, for any callers, workers, requests and bounds:

- `IndexTypes`: `Spec => []TypeOK`, under all faults
- `IndexedAlone`: `Spec => []OneIndexer`, for instances that are `Quiet` (without `pool`, `stall`,
  `slow` and `overlap`; indexings may still fail, and jobs be lost)

The `indexes` run has one caller besides the Reader and one worker; the theorem holds for any number
of both. Like `OneIndexer` itself the argument ends at the first outage, so the inductive invariant is
`TypeInv /\ (outages = 0 => Calm)`. `Calm` says who may be where. A worker past `Take` owns the job
(`JobHeld`), a call inside the check and claim has the lock (`LockHeld`), and at most one call claims
or indexes (`Alone`). That a call and a worker exclude each other needs the row: under a job that will
run it is Pending, InProgress or Deleted, or a repair is about to write it, and no call is about to
open it or has opened it (`LiveOpen`); a call that opens it had found it closed (`Chosen`), and it
stays open until the call enqueues or ends (`Owned`). The difficult case is a job that exhausts its
attempts while a claim looks at it: the row is still open but the job is dead, and the failed event is
yet to be handled (`EventFailed`). A repair then adds a second job; `Repaired` and `RepairQuiet` say
that no worker is about to fail and no event is pending when it does, and `Untouched` that a stale row
is nobody's. There is one lemma per action.

`RepoIndexer_proofs` proves, for any files, contents, chunks of a file, models and number of commits:

- `ContentsExact`: `Spec => []Exact`
- `ContentsFindable`: `Spec => []Findable`
- `ContentsTypes`: `Spec => []TypeOK`

They assume `Gentle`: indexings may fail or crash at any step, commits be unreachable and the model
change, but none of the other mishaps happens, each of which breaks `Exact` or `Findable` (section 3).
The inductive invariant `Inv` is the conjunction of named parts. `Stays` strengthens `Findable`: a file
unchanged since the last indexed commit has exactly the wanted chunks, at every step of every attempt.
It is what makes a later attempt start from something known after an earlier one has ended half way:
the attempt may only have touched files that had changed, and those the next one processes again. It
needs `NoReturn` (a content does not come back, so a file that is equal at both ends of a diff has not
changed in between) and `Whole` (a file has the chunks of one content, all of them, so that the one
chunk `checkFileReuse` looks for speaks for all). `SeededOnce` says where an index without a commit
stands, `Compared` relates the commit an indexing starts from to the row, and `Listing`, `Processing`
and `Finishing` say what the collection holds at each step: when the files are listed, the files
outside the diff are right; while they are processed, a file is done, still to do, or right already;
at the end all are right, and `Finish` makes that `Exact`. There is one lemma per action.

`RuntimeInstance_proofs` proves, for any number of calls, any cleanups and faults, and any number of
restarts:

- `TypeCorrect`: `Spec => []TypeOK`
- `DriverHasContainer`: `Spec => []NoDeadDriver`
- `ContainerHasRow`: `Spec => []OrphansSpared`
- `AloneNoConflict`: `Spec => [](clashed = {})` when calls do not overlap, so that the exception of the
  two properties concerns concurrent calls for one thread alone

The two properties speak of states where everybody is done, so the invariant `Inv` says what is true of an
instance while calls and cleanups are in between their awaits. `Holds` and `Fresh`: whoever is past its
first await has the row it loaded, and an instance its call has yet to create has no row, container,
driver or holder. Everything else follows the *handles* of an instance: the cached driver and whatever a
process has in hand between two awaits of a start or a stop (`Handle`). `Driven`: a handle whose container is
gone belongs to an instance that somebody has begun to stop (`Doomed`), that has no row any more, or that met a
conflict. `Handled`: a handle to another container than the one that has the name belongs to an instance
that was spared or met a conflict, or a stop through it would miss the container. `Halted` and `Taken`: the
container of an instance whose row is about to be deleted has been stopped, or the instance is `Lost`, that
is, spared or in conflict, and a call starts an instance that has its row or is lost. `Followed`, every
container has its row or is lost, is the part that `OrphansSpared` is about. `Clashes` says that
whoever resolves a conflict is counted. `AloneNoConflict` adds `Single`: only one call is on its way, and
nobody else creates containers, so the name that it found free stays free. There is one lemma per action
for what it does, and one for the invariant. The assumption
`CallersAssumption` only keeps the names of calls, cleanups and "none" apart.

Only model-checked: `WaitDescribed`, which is true of a single synchronous message and a single wait, as in
its run, and fails with two messages, a second wait or an asynchronous trigger (section 3): there is no
theorem for every value of the constants; and liveness
(`TimerWaitsEnd`, `PausesEnd`, `Reaped`, `IndexEnds`, `RevisionsEnd`), which is out of the prover's reach. The
theorems that name what they exclude leave the rest to the bounds of the runs.

## 5. Plan

What is left, most important first:

1. `GraphLifecycle`: nodes of the registry, `getOrCompile`, what `run` and `destroy` do to threads and
   resume jobs; composed with the thread rows and the queue for
   `cancelAllForGraph` and `stopRunningThreads`.
2. `LiveUpdate`: the build order and the set of nodes to rebuild, as functions over small graphs
   against a reference definition.
3. `WarmPool`, `OAuthRefresh`, `ClaudeSession`: conditional claims, refresh races, the reaper.
4. `AgentLoop`: pending messages at the end of a run, aborts, the code before the `try`.
5. The composition of `RepoIndex` with `RuntimeInstance`: an indexing cleans up the sandbox it used.
