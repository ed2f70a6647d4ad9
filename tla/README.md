# A TLA+ model of ArcReel's task queue, project retirement and agent sessions

ArcReel (the repository `zhaomo08/shortreel`) is a self-hosted workspace for making videos with
generative models: a Python back end (`lib/`, `server/`), a React front end, one process, one SQL
database. This project models the parts of it where things overlap, fail and restart:

- *generation*, where money is spent: the durable task table, the worker that executes its rows, the
  recovery after a restart, the ledger of provider calls;
- *retirement*: deleting or replacing a project while its tasks run;
- *agent sessions*: messages queued at an agent's CLI process, the session object that owns it, and
  the stream of entries by which a panel in the browser follows it.

- [1. The system](#1-the-system)
- [2. The modules](#2-the-modules)
- [3. The runs](#3-the-runs)
- [4. The proofs](#4-the-proofs)
- [5. What the code does that it says it does not](#5-what-the-code-does-that-it-says-it-does-not)
- [6. Abstractions and what is not modelled](#6-abstractions-and-what-is-not-modelled)
- [7. The plan](#7-the-plan)

Run `tlc -config X.cfg M` or `tlapm M.tla` in this directory. `PROJECT.json` lists the runs, the
mutants that show each property can fail, the source lines of every definition, the hazards, and the
theorems.

## 1. The system

### 1.1 The part that is modelled

| component | state | operations | talks to |
|---|---|---|---|
| task table: `lib/db/repositories/task_repo.py`, `lib/db/models/task.py` | a row per task: status, dedupe key, prerequisite, error code, checkpoint, provider job id | enqueue, claim, succeed, fail, requeue, cancel (one, all, interrupted), persist checkpoint, persist job id, retry a download, list running rows | called by routes, agent tools, worker; one transaction each |
| deletion: `lib/db/repositories/project_records.py` | the project name of the rows | cancel the queued rows, move all rows to a tombstone name | routes |
| call ledger: `lib/billing/ledger.py`, `lib/db/repositories/usage_repo.py` | a row per provider call: pending, success, failed, cancelled | open and close a bracket, settle a pending row, reopen, settle everything interrupted | media generator, resumption, startup |
| worker: `lib/generation/generation_worker.py` | the loop's position, the slot table, the executions (coroutines) | claim, reject, put back, dispatch, drain, stop | task table, executors |
| restart recovery: `lib/generation/restart_recovery.py`, `video_resume.py` | orphans, dispatchers, resumptions | startup scan, hand over, resume, settle | task table, ledger, slot table |
| submit path: `lib/generation/media_generator.py`, `server/services/tasks/generation_tasks.py` | where an execution is | open bracket, checkpoint, submit, record job id, poll, close bracket, commit version | ledger, task table, provider |

| claims and retirement: `lib/project/task_project_claim.py`, `project_retirement.py`, `formal_write.py`, `project_archive.py` | the set of revoked tasks, the project's directory | claim, check before a write, revoke, give back; delete, overwrite, create, import | routes, worker, file system |
| agent session: `server/agent_runtime/session_manager.py`, `session_actor.py` | the session object, its actor, the tray of queued messages, the send lock, the inbox, the session's row | send, retry, withdraw, send now; read a frame, take a command, settle an item; evict, reconnect | the CLI over a pipe, the session table, the event log |
| entry stream: `session_channel.py`, `event_log.py`, `service.py`, and the panel's store in `frontend/` | the log, a bounded queue per subscriber, the panel's timeline, cursor, tray and status | append and broadcast, replay, overflow, heartbeat, break, reopen, reload | session, panel |

The web routes, the worker loop, every execution, every actor and every inbox are coroutines of one
event loop. They interleave at every `await`; each database call is a transaction, so the tables and
the ledger change in atomic steps, and everything else (slots, dispatchers, executions, claims,
sessions, channels) is lost with the process. The CLI of a session and the panel are processes of
their own, behind a pipe and an HTTP stream.

### 1.2 What makes it correct

- A task that was submitted to a provider is never submitted again: the submission costs money
  (ADR 0007). A checkpoint is written before the submission, the job id after it; a restart resumes
  from these two facts or fails the task.
- Two active tasks never have the same dedupe key.
- A task runs only after its prerequisite succeeded, and a task whose prerequisite dies does not wait
  for ever: the cascade ends it in the same transaction.
- Every call is settled in the end, a success is never taken back, and the end state of a call agrees
  with what happened.
- A running row has something in the process that will end it; after a restart, the startup scan
  gives it one or fails it.
- Nothing made for a deleted project lands in a later project of the same name, and a deletion that
  fails leaves the project and its running tasks as they were.
- A message a user sent to an agent is heard at most once, whatever is retried, withdrawn or
  redelivered; none is queued at the CLI that the user cannot see; none is queued for ever.
- A session says it is running exactly while its CLI works.
- A panel shows the log without holes and without repetitions, across overflow, broken connections,
  evictions and revivals, and ends up with the session's tray and status.

### 1.3 What makes it hard

*Generation:* a cascade over chains of any depth; rows enqueued one by one while earlier ones already
run; a retry that goes from failed straight back to running; two executions of one task that overlap
for a moment; the row and its call settled in two transactions; a startup scan that runs while the
routes already serve; crashes between checkpoint, submission and job id; a graceful stop in the middle
of a poll; tombstone names with the resolution of a second.

*Retirement:* one name for two projects; directories renamed inside an open transaction; claims in
memory revoked before the commit they depend on; a check of the claim and a write after it; rows
inserted by a request that was validated before the deletion.

*Sessions:* frames that were sent before a command and are read after it; an idle report that is out
of date when handled; a withdrawal whose answer is lost with the connection; a message the CLI drops
because its turn was cut short; a retry of a message already heard; an eviction while requests wait for
the send lock; a tray carried over to a new session object; a status row written by three coroutines.

*Streams:* a subscriber queue that overflows; a snapshot of the tray between a stored entry and the
removal that follows it; a panel that reconnects with a cursor while it also reads the log by itself;
revisions of the draft that start over with a new session object.

`PROJECT.json` has them as hazards, each at its line.

### 1.4 The rest of the inventory

| component | state and operations | correct when | status |
|---|---|---|---|
| queue client, batches, admission (`generation_queue_client.py`, `generation_batch.py`, `video_batch_admission.py`) | batches and their members, waiting with a timeout | members are classified as what happened to them; a waiter gives up only on time | chains of prerequisites only; the rest planned |
| worker lease (`task_repo.py`) | owner and expiry | one worker at a time scans and claims | planned |
| artifacts and versions (`lib/artifacts/`, `upload_finalize.py`) | version history, the selected version | no version lost, the selection is of the history | planned |
| edit timeline (`lib/edit_timeline/`) | a document with a revision | a stale edit is refused | planned |
| project files (`project_manager.py`) | JSON files under locks | no lost update | creation and deletion of the directory; the files in it are a candidate |
| migrations (`project_migrations/`, `data_root_layout_migration.py`) | versions on disk | a crash leaves it restartable | candidate |
| project archive (`project_archive.py`) | import alone or over a project | the project is the old one or the new one | the installation; reading and writing archives is I/O |
| front end | views | - | the assistant's store and stream; the rest holds no state the back end depends on |
| rest of the agent runtime | questions, interrupts, rewinds, forks, usage, the creation of a session | - | not modelled |
| workflow, drafts, scripts, episodes, agent tools, configuration | derived data | - | not modelled: data-heavy, one writer |
| project events, provider adapters, market core, alembic | - | - | not modelled: fan-out, third parties, generated |

## 2. The modules

```
TaskLifecycle            what a task may do                       (abstract specification)
   ^ implements
TaskQueue                the task table                            (one action per repository call)
   ^ INSTANCE Queue
GenerationWorker --- INSTANCE Ledger ---> CallLedger

ProjectRetirement        one project name: rows, claims, directory
AgentSession             one session: messages, actor, inbox, CLI
EntryStream              one panel following one session

MC<module>               EXTENDS the module for TLC
<module>_proofs          EXTENDS the module and TLAPS: the theorems of section 4
AgentStatus_proofs       EXTENDS AgentSession_proofs: a session and its CLI at rest
EntryRest_proofs         EXTENDS EntryStream_proofs: a panel at rest
```

**TaskLifecycle** is the promise: a task waits, is executed once its prerequisite is done, and ends;
what ends as a dependent was waiting, and a task that dies leaves no waiter behind. It knows nothing
of dedupe keys, projects or failure codes.

**TaskQueue** has a function per column some guard reads. `project_name` is the pair `owner`, `tomb`,
because the deletion of a project rewrites it; `unit` stands for the other columns of the unique index
(user, type, resource, script file, resource type). `code` keeps the one distinction the retry of a
download makes. The cascade is the smallest set closed under "queued and waiting on a member", stated
without recursion so that it can be proved about. The refinement maps a row's status to a phase.

**CallLedger** has the writers of a call's status. It is a module of operators on one variable; the
worker uses them as parts of its steps.

**GenerationWorker** composes both. `run[c]` is a coroutine: the task it executes, where it is, the
failure it carries, and whether it found a pending call. The positions are the places between two
awaits that matter:

```
first run   prepare - opened - checkpointed - accepted - polling - won - commit - finish - done
                          \________________________________/ \ lost ------------ failing - done
resumption  pending - lookup - repolling - rewon - recommit - refinish ------------------ leaving
                                       \____________________ refailing ------- settling - leaving
interrupted                cut - done            recut - resettle - leaving
```

An image, speech or text task goes from `opened` to `polling`: it has no checkpoint and no job. The
loop is at `list`, `filter`, `recover`, `sweep` (the startup), `serve`, `drain`, `teardown` or
`down`. The scan is split where the code awaits: rows are listed, the slot table is read, the rows are
handled one at a time, and only then the interrupted calls are settled. `RetryDownload` commits the
row and the call and leaves the task in `retrying`; registering its slot is a later step (`Resume`).

**ProjectRetirement** is about one project name. A `Project` is one incarnation under it, and `dir` says
whose directory carries the name, or what is left of one: `Residue` (directories a write put back) or
`Litter` (files without a `project.json`). A request is two steps, the route's look at the project and
the insert. An execution claims, checks its claim (`Check`), writes (`Write`), returns (`Return`) and
has its outcome written (`Settle`, or `Bury` when it was revoked); its row moves under its feet, while
the name in its task dictionary stays the one it started with. A removal opens its transaction and
revokes the claims (`Begin`), renames the directories inside it when it overwrites (`Move`, `Place`),
commits, which moves the rows (`Commit`), and a deletion removes the directory afterwards, looked up by
name once more (`RemoveDir`). Any step up to the commit may raise: the transaction rolls back, the
claims are given back (`Fail`) and then the directory is put back (`Restore`), in that order. `written`,
`struck`, `owner` and `excuse` are history: they record what the properties compare and decide nothing.

**AgentSession** is one session object and what it is made of. A message is its `client_key`; a delivery
of it is the message and a number, the `uuid` under which the CLI knows it. `line` is the send lock
with its waiters, `delivery` the position of its holder between two awaits (writing the row, waiting
for the query, refused, writing the failure), `commands` the actor's command queue, `pipe` the frames
it has not read, `inbox` and `processor` the items and what the inbox processor awaits. A frame that
the actor reads changes the object at once and leaves an item for the inbox, which changes the tray,
the log and the row later; that distance is where the code is delicate, and the epoch counters
(`epoch`, `idleEpoch`) are there to bridge it. An eviction and a reconnection are steps on `residence`;
a reconnection carries the tray over and puts what was queued to `unsent`. The CLI's own steps
(`CliFetch` to `CliDies`) are external: they are what the code is prepared to see.

**EntryStream** reduces the session to what it announces, and when: an entry and the removal that
follows it, a delta of the draft, an upsert of the tray, a status. The channel delivers into the queue
of the one panel (`Deliver`: a delta gives way, a critical item ends the stream), the server's stream
replays from the cursor and then takes from that queue, the panel folds each item into its store the
way `assistant-store.ts` does, and reconnects. `ghost` is a stream whose panel is gone and that the
server has not noticed; `detached` the tray a reconnect has taken from the old object.

A few operators are marked as slips. They are the plausible mistakes the mutants of `PROJECT.json`
put in place of the real definition; nothing else uses them.

## 3. The runs

All runs set `CHECK_DEADLOCK FALSE`: a row is never deleted and the numbers of messages, deliveries,
incarnations and session objects are bounded, so when they are used up and everything has ended the
system rightly has nothing left to do.

| run | checks | instance | states |
|---|---|---|---|
| `task_queue_safety` | TypeOK, ActiveDedupe, RunningDependencySucceeded, NeverStrandsAWaiter, refinement of TaskLifecycle | 3 tasks, 1 project, 1 second, units for a video, an image and a render; symmetric in tasks | 322 thousand |
| `task_queue_liveness` | SoundQueuedEnds | 3 tasks, 2 units, fair | 71 thousand |
| `task_queue_stranded` | QueuedRunsToCompletion: violated | 2 tasks | finds it |
| `worker` | TypeOK, AtMostOneSubmission, RunningHasExecutor, BilledSuccessIsKept, PendingCallsSettle, AdmittedTasksEnd | 1 task of any kind (resumable video, other video, image), 2 coroutines, capacity 1, any number of crashes and shutdowns, fair | 53 thousand |
| `worker_unbilled` | SucceededVideoIsBilled: violated | 1 task, 2 coroutines, no crash or shutdown | finds it |
| `worker_double_poll` | OnePollPerJob: violated | 1 task, 2 coroutines | finds it |
| `project_retirement` | TypeOK, NoForeignWrite, RecordsFollow, OnlyRetiredRevoked, SuccessKept, RevokedTaskFails | 3 incarnations, 1 task, 2 executions, 2 removals, 1 crash, 1 failure, at most one named gap per task; symmetric | 1.8 million |
| `project_retirement_deleted` | DeletedTaskFails: violated | 1 project, 1 task, 2 executions, 1 removal, 1 crash, no outcome decided before the removal | finds it |
| `agent_session_queue` | TypeOK, NoHiddenMessage, HeardOnce, KeyMeansHeard, QuietIsSettled, WorkIsRunning, WithdrawalHasIntent | 2 messages, 4 deliveries, 1 connection; symmetric, with a view | 1.9 million |
| `agent_session_life` | NoCliNoQueue, TrayEmpties | 1 message, 3 deliveries, 1 turn of the CLI's own, 2 connections, fair | 427 thousand |
| `agent_session_stuck` | MetaSettles: violated | 1 message, 1 delivery | finds it |
| `entry_stream` | TypeOK, NoHole, OneChannel, SeenOnce, DeltasHeard, NothingStalls, RestAgrees | 1 message, 2 entries, queue of 2, 2 session objects, 3 rare events | 4.1 million |

**Why the bounds are enough to be interesting.** Three tasks make a chain in which the cascade needs
two levels, and three rows for one key around a retry and a deletion. One project and one second let
a project be deleted, created again and deleted within the same second, the only case in which the
tombstone names of two rows collide; more seconds only remove collisions. Two coroutines let two
executions of one task overlap. Crashes and
shutdowns are not bounded: a recovery may be interrupted by a crash and recovered again, any number of
times. The bounds are `Task`, `Project`, `Second`, `Unit`, `Co` and `Capacity`; nothing is capped by a
counter. `MayStop` only switches the crashes off in the run that shows they are not needed. The worker
is explored with one task of every kind, for with two its liveness takes too long; what the run leaves
out is two tasks that compete for the one slot. The four safety properties of that run are theorems for any
number of tasks and coroutines (section 4), and the waiting of tasks on each other is
checked by `task_queue_liveness` on the table alone. AdmittedTasksEnd names the `Doomed` rows all the
same: it is the property that holds for more tasks.

*Retirement.* Three incarnations are an old project, one that follows it and one that is prepared
aside by an import. Two executions of one task are what a resumption beside a late first run makes; two
removals let a deletion be overtaken by another while it removes its directory. `MaxCrash` and
`MaxFail` are the bounds. `OneGap` cuts off behaviours in which one task goes through two of the gaps
of section 5.2, which says nothing new of either. `DecidedAfter` belongs to the violated run only: it
leaves out the outcomes decided before a removal begins, which violate the property in as many steps and
would be printed instead (finding 5).

*Sessions.* Two messages are needed for one to cut short the turn of the other, and four deliveries let
both be sent and sent anew, or one three times. `MaxSend` limits the deliveries before which a user
sends, so that the redeliveries the session makes by itself have room. `MaxLine = 1` bounds only the
requests of *users* in the send lock's line; a redelivery by the inbox queues behind them. `MaxPipe`
bounds what is unread before the CLI says more; each message may add several frames. `View` leaves out
the absolute values of the epochs and delivery numbers that no guard can tell apart. Evictions need
the second connection and are checked in the run with one message.

*Streams.* A queue of two overflows as soon as three items wait. Two entries make a hole possible, two
session objects a revival with its reset revision. `MaxRare` counts revivals, turns of the CLI's own,
streams whose panel went away, and retries of a send, together.

**Fairness.**
- The loop's own steps (startup, routing, shutdown) and the container's restart are weakly fair: the
  loop polls, and both compose files under `deploy/` say `restart: unless-stopped`.
- A step of an execution is weakly fair: a poll has a deadline (`poll_timeout_seconds`) and the
  download has bounded retries, so an execution leaves every position.
- `Claim` and `Take` are strongly fair for each task: rows are claimed oldest first, and a row whose
  pool is full is excluded or put back, so it is claimable again and again rather than all the time. A dispatcher
  likewise gets a free coroutine again and again.
- `Drain` is strongly fair: the loop drains at the top of every cycle, between cycles of claims.
- `LeavePrepare` is strongly fair: a configuration does not keep changing between claim and execution
  for ever.
- Crashes and shutdowns may be as many as they like, but cease at some point (`<>[][~Crash /\ ~Stop]_vars`):
  a process that is killed for ever before it gets anything done promises nothing.
- Nothing is assumed of users: enqueue, cancel and retry are not fair.
- `AgentSession!FairSpec`: the steps of coroutines are weakly fair (the holder of the send lock, the
  inbox, the answers to requests, an eviction that has begun). The actor waits for a frame and for a
  command at once, with two tasks, and neglects neither, so each is fair by itself (`ActorReads`,
  `ActorTakesCommand`). A live CLI takes its messages and ends its turns (`CliTakes`, `CliIdles`):
  without this a message in its queue may wait as long as the turn takes, which is nothing the code
  promises against. Users, evictions, failures of a write, turns of the CLI's own and its death owe
  nothing.

**What the properties say.** `NeverStrandsAWaiter` is about every way a prerequisite can die,
including the bulk cancellation and the deletion of a project, which have no cascade of their own and
are right only because a waiter shares its prerequisite's project and render tasks are never chained.
`RunningDependencySucceeded` covers the retry that skips the look at the prerequisite.
`RunningHasExecutor` says that once the scan is over no running row is forgotten, across requeues,
retries and refusals. `BilledSuccessIsKept` ranges over all writers of a call: the bracket that
overwrites without looking, the guarded settlements and the reopening. `SoundQueuedEnds` and
`AdmittedTasksEnd` exclude the rows stuck behind a prerequisite that is dead already, which is the
first finding below.

`NoForeignWrite` is the promise of the claims: it relates the project a task was asked for to the
directory its write ends in, over two removals and a new project in between. `RecordsFollow` is its
counterpart for rows, `OnlyRetiredRevoked` that of a removal that fails. `SuccessKept` and
`RevokedTaskFails` are the two sides of an outcome: a success is where it should be, and a task whose
project went says so, except in the three ways of finding 5. `DeletedTaskFails` is the sentence of the
source without them, and is violated.

`NoHiddenMessage` is the invariant behind every operation on the tray: what the CLI may still start is
shown as queued under the uuid the session would withdraw. `HeardOnce` follows a message through the
retries of `_find_sent_message`, the redelivery of dropped messages and the ones sent first.
`KeyMeansHeard` is why a retry may answer "heard". `QuietIsSettled` and `WorkIsRunning` compare the
session with its CLI at rest and are what the epochs are for: a stale idle frame must not end a turn,
and a missed one must not leave it. `TrayEmpties` is the liveness of the tray.

`NoHole` and `SeenOnce` are about the panel alone, `OneChannel` about the server, and `DeltasHeard` guards
the revision gate. `NothingStalls` and `RestAgrees` are the convergence of panel and server, with a lossy
queue, a cursor and a heartbeat as the only means of repair. A state is `Resting` when nothing is owed:
the inbox is done, no object comes or goes, the stream's queue is empty and its status is the session's.
The one says that in every other state some coroutine or the client can go on, without a user, the CLI
or the network; the other that in a resting state the panel shows the log, the tray and the status.

## 4. The proofs

Every invariant that a passing run checks is proved for all values of the constants, but for `NothingStalls`,
which is about ENABLED, and so are both action properties and the refinement.

| theorem | states |
|---|---|
| *TaskQueue_proofs* | |
| `TypeCorrect` | `Spec => []TypeOK` |
| `OneActiveRowPerKey` | `Spec => []ActiveDedupe` |
| `ExecutionFollowsPrerequisite` | `Spec => []RunningDependencySucceeded` |
| `QueueImplementsLifecycle` | `Spec => Lifecycle!Spec`, the refinement |
| `NoWaiterIsStranded` | `Spec => NeverStrandsAWaiter` |
| *GenerationWorker_proofs* | |
| `WorkerUsesQueue` | the worker's steps are steps of the table: `Spec => Queue!Spec` |
| `WorkerTypeCorrect` | `Spec => []TypeOK` |
| `WorkerKeepsTablePromises` | three promises of the table (`ActiveDedupe`, `RunningDependencySucceeded`, `NeverStrandsAWaiter`), for the table as the worker uses it |
| `SubmittedOnce` | `Spec => []AtMostOneSubmission` |
| `NoRunningRowForgotten` | `Spec => []RunningHasExecutor` |
| `SuccessIsKept` | `Spec => BilledSuccessIsKept` |
| *ProjectRetirement_proofs* | |
| `RetirementTypeCorrect` | `Spec => []TypeOK` |
| `ClaimsReturned` | `Spec => []OnlyRetiredRevoked` |
| `RevokedFails` | `Spec => []RevokedTaskFails` |
| `RecordsFollowProject` | `Spec => []RecordsFollow` |
| `WritesStayHome` | `Spec => []NoForeignWrite` |
| `SuccessDelivered` | `Spec => []SuccessKept` |
| *AgentSession_proofs* | |
| `AgentTypeCorrect` | `Spec => []TypeOK` |
| `NothingHidden` | `Spec => []NoHiddenMessage` |
| `HeardStaysHeard` | `Spec => []HeardOnce` |
| `WithdrawalsIntended` | `Spec => []WithdrawalHasIntent` |
| `EndEmptiesQueue` | `Spec => []NoCliNoQueue` |
| `KeyHeldForHeard` | `Spec => []KeyMeansHeard` |
| *AgentStatus_proofs* | |
| `RestIsSettled` | `Spec => []QuietIsSettled` |
| `WorkIsShown` | `Spec => []WorkIsRunning` |
| *EntryStream_proofs* | |
| `StreamTypeCorrect` | `Spec => []TypeOK` |
| `EntriesWhole` | `Spec => []NoHole` |
| `ChannelKept` | `Spec => []OneChannel` |
| `TrayFollowsLog` | `Spec => []SeenOnce` |
| `GateBelowDraft` | `Spec => []DeltasHeard` |
| *EntryRest_proofs* | |
| `RestIsAgreement` | `Spec => []RestAgrees` |

**Assumptions.** All are named in the module that declares the constants, and TLC evaluates them on every
run. `TaskQueue` and `GenerationWorker`: the render and video units are disjoint sets of units, resumable
units are video units, the mark of a live project is not a second, `None` is none of the values it stands
for the absence of, the capacity is a number. Tasks, projects, seconds, units and coroutines may be any
sets, infinite ones too. `ProjectRetirement`: the marks `None`, `Residue` and `Litter` are no projects and
the two bounds are numbers. `AgentSession`: the bounds are numbers and `None` is not one. `EntryStream`: the
same, the capacity is not 0, an entry's payload `Output` is not a message, and the set of messages is
finite, because a tray is announced as a sequence. The bounds stay parameters: each theorem holds for
every value of them.

**Task table.** *Dedupe* is inductive with the types: only the insert, the retry and the renaming can
bring two keys together, and the index guards each of them. The renaming needs the most care, for it
moves many rows at once: two rows that both move had the same live name before, and a row that moves
against one that does not is what the index refuses.

`RunningDependencySucceeded` is not inductive: the retry sets a row running without looking. The
strengthening `DependencyInv` adds `RetryableDependencySucceeded` (a row with a failed download ran, so
its prerequisite succeeded, and success is final) and `DependencyShape` (a waiter is in its prerequisite's
project, neither of them is a render, and while the prerequisite is under the live name so is the waiter).
The second is what makes the bulk cancellation and the deletion closed under waiting.

For the refinement, the set of rows a step ends is shown to be closed under waiting (`CascadeIsClosed`,
`BulkIsClosed`, `RetiredIsClosed`); a step that ends exactly such a set is the life cycle's `Abort`
(`EndingIsAbort`); every other repository call is another action of it or a stutter. That no waiter is
stranded is then a fact of the life cycle alone (`LifecycleStrandsNobody`).

**Worker.** Each step of the worker is one of the table or leaves it alone, so the worker inherits the
table's theorems. `AtMostOneSubmission` and `RunningHasExecutor` share one inductive invariant, `IInv`:

- a row that may still be submitted (it waits, was just claimed or is being prepared) is fresh, with
  neither call, checkpoint nor job (`WaitingInv`). This is what keeps a second submission out: only a
  fresh row is ever prepared, and nothing makes a row fresh again;
- a first run has its running row to itself until it is done (`RunInv`), and the row the loop has claimed
  runs nowhere yet (`RoutingInv`);
- what a first run has done so far agrees with the ledger (`StageInv`), and only a row with a job id is
  resumed (`HandedInv`);
- from the scan on a running row is in some hands, or still on the scan's list with no slot (`HandsInv`);
  the loop's position says what can be under way at all (`LoopInv`).

`BilledSuccessIsKept` then has one writer to exclude, the bracket that overwrites without looking: it
belongs to a first run, whose call is pending.

**Retirement.** The argument is about what an open transaction freezes. While one is open no row changes,
so the ids it revoked are still the running rows when it commits or fails (`IdsInv`); a revoked task is
struck, or will be or be given back by the removal that revoked it (`RevokedInv`). `RevokedTaskFails` adds
that a struck task stays revoked until its last execution leaves, and that none of them carries another
outcome (`ClaimsInv`, `OutcomeInv`, `StruckInv`). For the rows and the writes: a row under the live name
has its project in the directory or set aside by a removal (`LiveInv`), an execution whose project is gone
is held by its claim or its name, or had been cleared before the removal began (`HeldInv`). The named gaps
are in the theorems as they are in the properties, and excuses only grow (`ExcusesGrow`), so each of these
is stable once a task has gone through one.

**Sessions.** A delivery is in one place: at the CLI, in hand (with the holder of the send
lock), waiting in the lock's line to be sent again, or spent (its fate is on the pipe or in the inbox, or its
turn is open), and its number is at most its message's last one
(`PlaceInv`). `ShownInv` is then what `NoHiddenMessage` needs: what is at the CLI is the last delivery of a
message shown as queued. A withdrawal has one outstanding request, in the line, in the command queue or
answered (`AskInv`); after a "yes" the frame that cancels the delivery is still unread, so the requester
decides before the inbox does (`YesInv`); a pending withdrawal has its intent (`IntentInv`). Keys cover the
tray and what was heard (`KeyInv`), and after the actor's end only the holder's message is still called
queued (`EndInv`), which its failure path resolves. `GoneInv` says what an object without an actor, or no
object, cannot have.

**The status of a session.** `QuietIsSettled` and `WorkIsRunning` speak of states in which nothing is in
flight; the invariant says of the others what is in flight, and where (`StatusParts`):

- the last idle or working frame in the pipe is the present state of the CLI (`LastWord`);
- a session that runs beside an idle CLI has something left that will tell it: an idle frame, a report of
  the present epoch in the inbox, or a delivery that will give the CLI work or, if it is abandoned, call
  the report back to mind (`RestInv`). This is what an epoch is for: the report must not look out of date
  because of a delivery that came to nothing;
- a CLI at work of which the session does not know has a "working" frame in the pipe (`WorkInv`);
- the epochs order what is in the inbox: no report is younger than the session, one of the same age is
  of the last idle read, one ahead of the notice of a new turn is out of date, and what is being settled
  has been overtaken if the session runs again (`ReportInv`, `BusyOrder`, `SettlingInv`);
- the row differs from the session only while someone is about to write it (`RowInv`), unless a write failed.
  The holder of the send lock, a report and the notice of a new turn may each be in between two awaits.

**Streams.** What a broadcast does to a queue is the first lemma (`DeliverAllFacts`): unless the stream is to
end, the new queue is the old one and the items, in order, without some that are not critical (`Thin`,
`Carried`). It is proved by induction on the items, and everything after it uses only that. On top of it:

- the registry, the session, the stream and a ghost agree on the channel (`ChanInv`), so what the session
  says reaches a stream that has not ended;
- the entries in the queue ascend (`OrderInv`), and together with what was read they are all the announced
  ones (`ReachInv`); so the next entry the panel appends is the one after its last (`WholeInv`), for entries
  are critical and an overflow ends the stream;
- an upsert of a message that has left the tray is followed by its removal (`UpsertInv`), and what the panel
  still shows beside its entry has its removal on the way (`SeenInv`). It needs that the entry being stored
  is that of a message still in the tray (`TrayInv`);
- a delta of an earlier life or turn is followed by a status that is not "running" (`StaleInv`), so is a gate
  above the session's revision (`GateInv`). The reason is that a session comes to rest only by announcing
  so, and a status is critical: it may not be dropped where a delta may.

**The panel at rest.** `RestAgrees` needs to know what the panel will make of the queue before it has read it
(`RestParts`): the last item about a message says what the tray says, or the tray that a
reconnect has taken along (`QueueTrue`), and where there is none the panel shows it already (`PanelTrue`).
A message whose entry is stored but not yet announced is the one exception, and the announcement that
follows ends it. A panel ignores upserts of a message it has seen leave, so `PanelTrue` needs that such a
message does not come back (`RemovedInv`, `SettledInv`): only a message that was never sent enters the tray,
and only one that is still in it is sent again. For entries and status the invariant of
the streams and `StatusShown` suffice.

Recursive functions (`DeliverAll`, `SendUpTo`) are reasoned about with the least counterexample: the order
of the naturals is well founded, so a nonempty set of them has a least member (`LeastOf`), and a set that
holds 0 and successors holds all (`Induction`).

**Only model-checked.** Liveness, which rests on fairness, and `NothingStalls`, which is about ENABLED.

**What the proofs changed in the model.** `Deliver` was a CASE whose arms overlapped for a stream that had
ended with a full queue, which left the result to the evaluator; it is the chain of tests that the code is. The
assumptions of `EntryStream` that `None` is no record of what is being written, and that messages are
finitely many, were implicit. `RestAgrees` used to say "no step of the coroutines or the client is ENABLED,
hence the panel agrees", of which nothing could be proved. It is now two properties, whose conjunction implies
the old one: what is not at rest can go on, and what is at rest agrees.

## 5. What the code does that it says it does not

### 5.1 Findings

1. **A row behind a dead prerequisite stays queued for ever** (`task_queue_stranded`).
   `_enqueue_sequentially` enqueues a chain row by row. When the prerequisite has failed or was
   cancelled before the waiter is inserted, no cascade will visit the waiter and no claim will take
   it; it also blocks its dedupe key. The docstring (`generation_queue_client.py:590`) promises that a
   queued task "runs to completion".
2. **A succeeded video with a failed call** (`worker_unbilled`). A failed resumption fails its row and
   then settles its call in a second transaction. A download retry that comes in between reopens both;
   the late settlement then fails the reopened call, and the retry's success finds nothing pending
   to settle. `media_generator.py:1196` says this settlement is there so that no video is generated
   and missing from the books.
3. **One job polled by two executions** (`worker_double_poll`). The routes serve while the startup scan
   runs. A download retry has committed its row as running and has not registered its slot when the
   scan reads the slot table: the row is taken for an orphan and resumed a second time, which
   `restart_recovery.py:143` sets out to exclude.

4. **A session whose row says running for ever** (`agent_session_stuck`). A send into a turn at work
   writes "running" again. If the CLI has died meanwhile and its terminal status was written first,
   that late write wins: the query is refused, the path for a turn at work writes no status, and an
   eviction finds an object that is no longer running and does not write either. The comment there
   (`session_manager.py:1393`) says that `send_query` and the actor's exit path record the error.

5. **A task of a deleted project that does not say so** (`project_retirement_deleted`). The source says in
   two places that it always ends with `project_deleted_during_task`.
   - `video_resume.py:111-113`: also when the project went before a restart; `test_video_resume.py:297` checks
     it by calling the resumption directly. But the startup scan comes first
     (`restart_recovery.py:207-219`): the checkpoint names the project, the row by now its tombstone, and the
     scan fails the row with `execution_identity_unrecoverable`, or with a `restart_lost_...` code when there
     is no job to resume. This is the trace the run prints: Claim, Begin, Commit, Crash, Lose.
   - `generation_worker.py:818-819`: whatever the executor returned. But the claim is looked at once, and the
     row is written after an await (`generation_worker.py:893-896`, and the two `except` branches above it). A removal that
     begins in between finds the row running and revokes its claim, and when its transaction is over the
     outcome decided before is written: Claim, Return, Begin, Commit, Settle. Without `CONSTRAINT DecidedAfter`
     the run prints this one. The same sentence is broken when another execution of the task leaves first and
     discards the revocation (`task_project_claim.py:60`).

   `RevokedTaskFails` says, and `RevokedFails` proves, that there is no other way in the model, which leaves
   out executions interrupted by a shutdown (section 6).

ADR 0006 describes a state machine without the ways from running back to queued (requeue), from queued
to failed (cascade) and from failed to running (download retry), and names `user` as the source of an
interruption where the code writes `interrupted`; `TaskLifecycle` follows the code.

### 5.2 Gaps the properties name

Some windows are open in the code. The properties name them instead of assuming them away, so that a
window the list does not have is a violation. Five of them contradict a sentence of the source: `returned`,
`crashed` and, for the end of a task, `forgotten` are finding 5; the idle frame and `blind`, below, contradict the comments
named there, and no run of their own shows them. The others contradict none that we know of.

Retirement (`excuse` records which gap a task went through):

| gap | what happens |
|---|---|
| `cleared` | an execution passes its check, the project is removed and another made, and it writes |
| `forgotten` | two executions of one task; the first to leave discards the revocation by task id (`task_project_claim.py:60`), the second writes, or ends as if nothing had been deleted (finding 5) |
| `settled` | a second execution whose row has ended is not listed as running, so it is not revoked |
| `requested` | the route looks at the project, the project is retired, the enqueue inserts a row for it; the migration guard does not refuse a missing project |
| `restoring` | a failed overwrite gives the claims back before it puts the directory back (`project_archive.py:2122`) |
| `displaced` | the deletion removes the directory by name after its commit and may meet another project's; a failed overwrite discards a project made between its renames; a crash between renames and commit leaves the new directory with the old records, and nothing restores the backup |
| `returned` | the outcome was decided before the revocation and its write waits for the transaction (finding 5) |
| `crashed` | the startup scan fails the row, now under a tombstone name, with another code (finding 5) |

Sessions: a failed write of the status leaves row and object apart until the next one (`metaFailed`). A
resent message keeps the withdrawal intent of its previous delivery. An idle frame that the actor has
still to read when a message is registered takes the session out of "running" while the delivery awaits the
row or the query (RegisterSend, ReadIdle, SettleIdle), and an eviction may then disconnect it. This contradicts the comment at
`session_manager.py:1378` (registering enters "running", so that neither the idle cleanup nor an eviction
disconnects before the delivery). `WorkIsRunning` does not say otherwise: it is about a CLI at work. What
becomes of the message is covered all the same (`NoHiddenMessage`, `NoCliNoQueue`, `TrayEmpties`). A heard
message whose append failed is remembered by its object only: after an eviction a retry runs it again.

Streams: an opening that takes its snapshot while a reconnect holds the tray shows it empty, for
adopting the tray is not broadcast (`blind`). What it misses stays missing until something is said about
those messages or the stream opens again, which contradicts the
comment at `service.py:782`: subscribing before the snapshot is taken to ensure that the two agree in the end.
`RestAgrees` holds for every panel that did not open in that window. "Running" announced for a
turn the CLI opened by itself comes without a draft, so after a revival the deltas below the old
revision are dropped (`bare`). A failed read of missing entries leaves a hole until a reload (`holed`).

## 6. Abstractions and what is not modelled

- A claim takes any claimable row: the order, the lane and the excluded ids and providers narrow it.
- An enqueue the index refuses returns the active row and changes nothing, so it is no action.
- A prerequisite is any existing row of the same project outside the render lane. The callers only
  pass rows they enqueued themselves.
- Each repository call is one transaction, including the deletion of a project's records and the
  settling of interrupted calls, which read before they write: they rely on the database's isolation.
- Database writes do not fail. What the code does when one fails (a requeue that returns False, a scan
  that raises, a settlement that is only logged) is listed as hazards and planned.
- A task has one call, as the code relies on. The lookup of a late settlement and its update are one
  step: nothing between them can change which call it is.
- Calls without a task (agent text calls, endpoint trials) are not modelled.
- A shielded write runs to its end; a cancellation takes effect at the positions `Interruptible`.
- `submitted` counts the submissions an execution gets accepted. Repetitions inside one provider call
  (a smaller reference image after a 413, an adapter's retry of a connection error) are inside `Submit`.
- One pool per lane with `Capacity` slots; the semaphore of a dispatcher, which can only delay, is left
  out.
- The bulk cancellation and the manual requeue of running rows are actions of `TaskQueue` and not of the
  worker's composition; the deletion of a project is composed with the executions in
  `ProjectRetirement`, where an execution has only the steps a removal can tell apart.
- The lease is taken to be held: one process at a time.
- A stop begins only once the startup is over; a crash may happen anywhere.

*ProjectRetirement.* One name; SQLite, whose single writer makes other writes wait for the open
transaction (PostgreSQL is not modelled). Removing a directory tree is one step that works or fails. A
project that is only being created does not start a removal. The retry of a download is covered by
`Resume`; interrupted executions and the sessions and ledger rows that move to the tombstone name are
left out.

*AgentSession.* The first turn is that of the message that made the session, which does not pass
through the tray. The terminal statuses are one, "ended". Questions, interrupts, rewinds, forks, usage,
outcomes of turns, `close_session` and the shutdown are left out, and so are failures of the inbox's
database calls other than one failed status write. An eviction and a reconnection end once the requests
that use the object have drained: for the reconnection that is what the admission lock of a session in
`service.py` brings about; `_evict_one` does not wait for them itself, and an object that requests still use after
its eviction is not modelled. The lookup of a retry and its registration are one step although the log is read in between: what
the search of the log read cannot change before the message is registered, for an append is made only for
messages in the tray. A withdrawal's requester goes on before the actor's next step. An idle CLI takes what was
written to it before it answers a withdrawal; it drops messages only while it works, and calls them
cancelled only when one to be sent first cuts the turn short.

*EntryStream.* One panel and one session. The panel's other requests, the contents of the draft,
questions, raw frames and the log's turn marks are left out; the order of the row's writes is that of
`AgentSession`. The panel starts by following a session at rest. Two weaknesses of the source are
outside the model: a late response to a send sets the panel to "running" for a message that is unsent
by then (`useAssistantSession.ts`), and an append that is retried after an unknown outcome can store an
entry without a client key twice (`entry_pipeline.py:391`).

## 7. The plan

Done: the queue with its refinement, the worker and the ledger, project retirement, agent sessions and
their streams, and the proofs of section 4: every invariant that holds, but `NothingStalls`, is a theorem. Later work, in
this order:

1. `WorkerLease`: handover, loss and rescan, a stop that does not renew. *No two processes work for one
   row.*
2. `TaskBatch` and the wait client: attachment of active rows, deletion of a fresh batch, timeouts,
   offline grace. *Every requested unit is accounted for exactly once.*
3. `VersionHistory`: commits of versions and the selection, under concurrent commits and a crash
   between file and record; `EditTimeline`: revisions; `Migrations`: restartable steps; the
   read-modify-write of project files.
4. Failing database writes in `GenerationWorker`, and several pools.
