# Telo: a TLA+ development of its durable, queueing, coordination and lifecycle core

Telo runs applications that are declared in YAML. A kernel loads manifests, resolves
references, creates one instance per resource through the controller of its kind, and
initializes, runs and tears those instances down. Modules bring the kinds: durable
execution, queues, leases, schedulers, HTTP, SQL and many adapters. Most of that code is
sequential or pure I/O. This project models the parts whose correctness depends on orders
of events a test hardly produces: several processes sharing a database or a directory,
handlers racing their leases, readers following a log that changes under them, asynchronous
undo on one event loop, and a kernel that is cancelled, reloaded and reconciled at any moment.

Paths below are relative to the repository (`src/` in `PROJECT.json`). Abbreviations:
`DL` = `modules/durable-local/nodejs/src`, `D` = `modules/durable/nodejs/src`,
`PG` = `modules/durable-journal-postgres/nodejs/src/journal.ts`,
`Q` = `modules/queue/nodejs/src`, `QS` = `modules/queue-sql/nodejs/src/sql-queue-store.ts`,
`ES` = `kernel/nodejs/src/effect-scope.ts`, `EC` = `kernel/nodejs/src/evaluation-context.ts`,
`K` = `kernel/nodejs/src/kernel.ts`, `FJ` = `modules/durable-journal-file/nodejs/src/journal.ts`,
`RS` = `modules/record-stream/nodejs/src/journal.ts`,
`LK` = `kernel/nodejs/src/directory-lock.ts`.

## Inventory

| Part | State it keeps | Operations | Talks to | What is hard | What makes it correct |
| --- | --- | --- | --- | --- | --- |
| durable-local backend (`DL/workflow.ts`, `run-handle.ts`, `resumer.ts`, `deliver.ts`, `cancel.ts`, `resume.ts`, `schedule.ts`) | `#holder` identity, a copy of the journal per open run, a suspension latch, a claim-renewal interval | start or attach, sweep, execute, replay, settle; deliver, cancel, resume, schedule from outside | the journal, and nothing else: processes share no memory | two executions of one run, stale batches, crashes between two statements, renewals nobody waits for | executions agree on every recorded value; an effect is recorded only when performed; claims keep executions apart; recorded answers wake their run |
| durable waits (`D/sleep.ts`, `D/await-delivery.ts`) | token and deadline pinned in the journal | mint, pin, time out, park | run handle | a timeout racing a delivery, a resume sliding a deadline | parked on what is pinned; a wait ends only the way it promises |
| PostgreSQL journal (`PG`) | tables `runs` and `entries` | admitRun, claimRun, append, parkRun, unparkRun, completeRun, dueRuns, readRun | the backend | unconditional updates, claims by time | first writer wins; a claim is won once |
| queue worker (`Q/worker-loop.ts`) | in-flight map with `heldUntil`, `ending`, `handedBack`; loop and shutdown | claim, process, renew, give up, settle, stop, hand back | the store, a handler, `onDead` | lease reckoned on its own clock, late answers, stop during a claim | a handler that was not told to stop holds a live claim; budget; nothing runs on after stop |
| SQL queue store (`QS`) | one row per message: state, claim token, lease, attempts, cancel and dying marks | enqueue, claim, renew, complete, release, kill, cancel, requeue, purge | workers and clients, through SQL | claims that lapse and are settled late, two-statement cancel, groups under READ COMMITTED | only the holder settles; settled is final; a cancel sticks; a group is delivered in order |
| effect scope (`ES`) | a stack of frames of inverses, `unwinding`, `closed` | record, register, perform, dispose, unwindFrame, unwindAll | everything that allocates in a controller | an inverse is awaited, so recoveries, disposals and the teardown meet on one stack | an inverse runs once, innermost first, and none is left behind |
| resource lifecycle (`EC`) | created and initialized instances, one scope per instance | init, defer, publish, run, recover, tear down | effect scope | a failing or deferred init, a run() failing during the teardown | a retry starts clean; what init() built outlives a failed run() |
| resources of a context (`EC`, `kernel/nodejs/src/resource-edges.ts`, `K` reconcile and teardown) | pending, created and initialized instances, withheld and recreated ones, edges of use | create/init passes, defer, give up, run, tear down in order, unwind and rebuild what an edit touched | effect scope | retries and rebuilds in an order nobody chose; a teardown during a reconciliation | a live resource never holds a dead one; everyone who could start did; nothing is left behind |
| `telo run` (`K` start, hold, forceIdle; `cli/nodejs/src/commands/run.ts`) | boot run, holds and idle waiters; the watch cycle's gate and pending change | load, boot, run targets, wait, tear down; signal, edit, reload | contexts, the file watcher | a signal or an edit between any two awaits | a cancellation ends in a teardown; an edit reaches a kernel |
| file journal (`FJ`) | one file of lines per run, `#repaired` | admit, open, append, park, unpark, complete, repair a torn tail | durable-local, the file system | exits in the middle of a line, appends that overlap a repair | the file stays readable; what was answered for stays |
| directory lock (`LK`) | a queue per process, the lock file and its mtime | queue, create exclusively, refresh, reclaim a silent lock, remove | the file system | the path is looked at and renamed in two calls | one caller in a directory at a time |
| key-value claims (`modules/kv-store/nodejs/src/keyed-claim.ts`), `Idempotency.Once`, `Lease.Critical` | one cell per key with a revision and a TTL; a heartbeat; a table of detached bodies | claim, renew, settle, release; acquire, run, cancel | a `KvStore.Store` | TTLs that lapse under a body, renewals in flight | one holder; whoever lost a claim leaves its successor's alone; one answer per key |
| `IdempotencySql.Once` and the row sweep (`modules/idempotency-sql`) | a row per key, inside the caller's transaction | record, run the body, commit or roll back, sweep, stop | the SQL database | two transactions on one key, a sweep between the two statements | one committed body per retention; a stopped sweep is silent |
| record journal (`RS`) | a header and a log per key, at a version | claim, reserve, adopt, append, heartbeat, finish; read page by page; cancel, remove, expire | a store of the record-stream contract | a writer declared lost that still writes, a reader between two pages | only the current drain writes; a replay that ended is whole |
| schedules (`modules/scheduler/nodejs/src/schedule-runner.ts`) | timer, tick in flight, hold | run, fire, disarm, drain | the kernel's holds | a tick that settles during the teardown | works only under its hold |
| runner sessions (`packages/runner-core/src/session/session-lifecycle.ts`, `registry.ts`) | a record in the store, a live entry with its workload, epoch and `busy`, a queue of record writes, `reserved` | create, suspend, resume, change, delete, run; fail, give up on a write; boot, adopt, sweep | the session store, a backend (Docker, Kubernetes) | a workload that fails during any operation, a write that fails for good, a restart between store, entry and backend | one workload per session, the one it holds; at rest what is shown is stored and true |
| step engine, broadcast subscription loop, graph layers, rate limits, cache, channels | see `PROJECT.json` | | | | not modelled yet, see the plan |
| analyzer, CEL, templating, codecs, HTTP/MCP/AI/UI modules, CLI, editors, hub and studio | | | | | pure functions over large documents, pure I/O or front ends: not modelled |

`PROJECT.json` lists every component with its sources and status, and every hazard at its
line.

## Modules

| Module | Models | Used by |
| --- | --- | --- |
| `DurableHistory` | abstract: what durable execution promises, one history per run | implemented by `DurableLocal` |
| `DurableLocal` | durable-local backend, durable waits, the journal's statements | `MCDurableLocal` (instances), `DurableLocal_proofs` |
| `FileJournal` | the file journal, for one run | `MCServices`, `file_torn`, `Journals_proofs` |
| `QueueDelivery` | the worker loop over the rows of an ungrouped SQL queue, Enqueue, Cancel, Requeue | `MCQueueDelivery`, `MCServices`, `MCLive`, `QueueDelivery_proofs` |
| `QueueGroups` | one group of a grouped SQL queue: enqueue and claim transactions, row locks | `MCServices`, `QueueGroups_proofs` |
| `KvStore` | the contract of a key-value store, as operators from cell to cell | `IdempotencyOnce`, `LeaseCritical` |
| `IdempotencyOnce` | `Idempotency.Once` over one key, with its heartbeat | `MCServices`, `Services_proofs` |
| `LeaseCritical` | `Lease.Critical` over one key, inline and detached | `MCServices`, `Services_proofs` |
| `IdempotencyLedger` | `IdempotencySql.Once` over one key, and the row sweep | `MCServices`, `Services_proofs` |
| `RecordJournal` | `RecordStream.Journal` over one key: drains, reservations, readers, cancel, removal, expiry | `MCServices`, `Journals_proofs` |
| `DirectoryLock` | `withDirectoryLock` for one directory | `MCServices`, `lock_reclaim`, `Services_proofs` |
| `ScheduleRunner` | `Schedule.Cron` and `Schedule.Interval` | `MCServices`, `Services_proofs` |
| `RunnerSessions` | the lifecycle of a runner's sessions | `MCServices`, `RunnerSessions_proofs` |
| `EffectScope` | one resource's inverse accumulator and the lifecycle that drives it | `MCKernelLifecycle`, `MCEffectScope`, `MCLive`, `EffectScope_proofs` |
| `ContextLifecycle` | the resources of one context: create/init loop, teardown, reconcile | `MCKernelLifecycle`, `ContextLifecycle_proofs` |
| `KernelRun` | `Kernel.start` and the session of `telo run`, with `--watch` | `MCLive`, `kernel_stop` |
| `Services_proofs` | proofs of the services that share `MCServices`, and of `MCServices` itself | |
| `*_proofs` | one per module or family, see "What is proved" | |

Definitions that end in `_Something` under a "Mutant" or "Wrong form" comment are
deliberately wrong variants of the definition that follows them. They are not part of any
specification: `PROJECT.json` pairs each property with one of them, and the property is
violated when that variant takes the definition's place.

### DurableLocal

*State.* `run[r]` is the row of the `runs` table (status, where and on what it is parked,
due time, holder and whether the claim is still live), `entries[r]` the `entries` table
(path to value), `exec[x]` what a slot does: a *slot* is one call of
`DurableLocal.Workflow.invoke` or one resumer. `client[c]` is a Deliver, Cancel, Resume or
Schedule call, `renewals` the claim renewals that were sent and not yet executed,
`elapsed` the deadlines that have passed, `performed` a history of the effects that really
happened, `budget` the faults spent.

*Steps.* The processes share only the database, so each statement (`PG`) is one atomic
step and everything between two statements interleaves. The `execute` path is
Open, DecideInputs, then per step Replay or PerformEffect/RecordStep, or for a wait
PinToken, PinDeadline, SleepDone/AwaitTimeout/DecideToPark, Park; it ends in Complete,
SettleFailed, Park or Interrupt. Start is AdmitRun, ReadExisting, ClaimStart; the resumer
is Sweep, SweepNext, Load. The clock is read in DecideToPark and parkRun is a later step.

*Data.* A value is its author: a step's result, a minted token and a computed deadline are
named by the slot that produced them, so two executions producing different values is
exactly what the model tells apart. Inputs are "caller", "stored" or "empty". Time is
events: a claim lapses, a deadline elapses. A dead process's identity becomes `Gone`, for
its UUID is never used again.

### QueueDelivery

*State.* `rows[i]` is the message's row. `flights` are the messages workers hold, each
with the worker's own reckoning of the lease (`held`), an outstanding renewal and how the
delivery ends. `worker[w]` is the loop (claim asked, answered) and the shutdown.

*Steps.* A transaction whose row locks make it one is one step; a call of the worker is
sent, executed and answered in separate steps, because lateness is what matters. Time is
counted in thirds of the lease, the unit of the code (`renewLease`: renewed after a third,
given up when a third remains). `Punctual` says timers and the start of a delivery are not
delayed by a third of a lease; `Prompt` says the same of settling calls; `MaxClaimWait`
bounds how long a claim may take.

### QueueGroups

Places in a group are given when an enqueue inserts and become visible when it commits. A
claim selects its candidate with the two probes of `candidatesIn` and locks it, and marks
it running when it commits. `InOrder` says enqueues commit in the order of insertion,
`LateRenew` that a renewal may be executed after its lease lapsed.

### EffectScope

*State.* `frames` is the stack, `unwinding` and `closed` the flags, `eff[e]` what became
of each allocation, `chain[c]` where the chain of an init(), a run() or an operation is,
`un[u]` where each caller of `runInverses` is, `life` the resource's lifecycle.

*Steps.* One action is the code between two awaits. RunInverses is the loop of
`ES:runInverses` up to its next `await entry.inverse()`. `Overlapping` allows a run()
under way when the teardown begins (`Kernel.start` awaits `runTargets` before it tears
down; a `teardown()` called directly, or a run() an operation started, is not waited for);
`Unpublishable` allows publication to fail
after a good init().

### DurableHistory

What the backend's run handle promises its body (`DL/run-handle.ts`): inputs, recorded steps,
pinned decisions, a Resume's override and a result, with no execution, claim or process.
`DurableLocal` maps its journal to these variables (`History == INSTANCE DurableHistory WITH
...`), and `OneHistory == History!HistorySpec` says that every step of any interleaving is a step
of the one history or a stutter.

### FileJournal

`file` is the run's file: its whole lines and whether something follows the last newline.
`synced` says what a power loss cannot take, `repaired` is `#repaired`, `writing[x]` where
x's call of the journal is. One file operation is one step: a look for a torn tail, the
truncation, the write, the flush. An exit ends the process and may leave part of the line
being written; a power loss may also take unflushed lines. `acked` remembers what an append
answered for.

### KvStore, IdempotencyOnce, LeaseCritical

A cell is a holder, whether it is settled, a revision and whether its TTL lasts; each
operation of the contract is one atomic operator, and the two users take it as one step.
In `IdempotencyOnce` a renewal is a read, a write and an answer nobody waits for, so it
overlaps the end of the body and the settlement (`modules/kv-store/nodejs/src/keyed-claim.ts`).
In `LeaseCritical` a section belongs to a process, whose table of detached bodies is keyed
by the key alone. Lapses, expiries, deaths and lost answers are bounded by constants.

### IdempotencyLedger

Committed rows, and who has written or locked them. An INSERT that meets another transaction's row
waits; `LocksConflict` tells PostgreSQL, whose conflicting INSERT has locked the row it met, from
a database where it has not. `sweep` is the `RowSweep` with its timer, pass and stop.

### RecordJournal

`key` is the header (state, holder, drain, cancel mark, age) and the log, each record named
by the drain that appended it. Versions are never used twice, so `at[x]`, "the version x
presents is still the key's", stands for the comparison of versions. `pc[x]` is where a
drain, reservation, reader, cancel, removal or the expiry is between two calls of the
store. A drain held up past its timeout, one that ends and an answer that is lost are the
troubles.

### DirectoryLock

`lockFile` is what is at the path: who made it and whether its mtime is recent.
`caller[c]` is where a call of `withDirectoryLock` is; `Fleet` is the processes, each the
set of its callers, which take turns. The heartbeat is the assumption that a living
holder's file stays fresh, spent by `MaxSilences`; `raced` remembers a rename that took
another file than the one found stale.

### ScheduleRunner

The hold, the one-shot timer, a tick in flight, and how far the inverses of run() are.

### RunnerSessions

`record` is the store, `entry` the registry, `pods` the backend, which is external; a
workload is named by the epoch its callbacks carry. `entry[s].busy` is `busy` refined to the
await an operation is at, `about[s]` the workload it works on, `outbox[s]` the queue of
record writes (a write says who goes on after it), `removing[s]` the calls of `fail()` that
await a removal. `Restart` ends the runner at any moment: what the entry knew is gone, and
boot() adopts or suspends what the store calls live, then sweeps. `stray[s]` is history: how
a workload got out of the session's hands. Bounds: MaxEpochs on the epoch an operation
begins in, MaxQueued on the queue a run's write joins, and the three of `wear`.

### ContextLifecycle

`st[r]` tells the tables of `EC` a resource is in, `order` their insertion order, `loop` the local
state of `initializeResources`, `reconciling` and `down` what a reconciliation and a teardown have
still to unwind: `line` is who, in order, `left` the ones of it still to come, so that the next is
the first of `line` in `left`. A step handles one resource. A resource may fail, defer, be
withheld and be created again; a teardown may begin while the loop still runs (`down.early`, with
`Overlap`). `held` are the resources with effects not undone.

### KernelRun

`kernel` is `Kernel.start` (boot, targets, the wait for holds, teardown), `session` the
cycle of `telo run`, `gate` the cycle's promise of a change, `memo` its flags. A step is
the code between two awaits; signals, edits and the watcher's debounce come in between.

### The MC modules

`MCDurableLocal`, `MCQueueDelivery` and `MCEffectScope` instantiate one module.
`MCServices`, `MCKernelLifecycle` and `MCLive` hold components that share no state: a
behaviour picks one at the start (`component`) and only that one moves. The state graph is
the disjoint union of the components' own graphs, so an invariant of one of them is checked
on exactly its reachable states, and nothing is assumed of the others.

## Runs

Sizes are distinct states; each run takes at most about three minutes with two workers.

| Run | Instance | Checks | States |
| --- | --- | --- | --- |
| `durable_race` | one start, one resumer in another process, one Deliver call; an effect then a timed await; one crash or failed write, one claim lapsing under its holder | TypeOK, ReplayAgreement, RecordedInOrder, ParkIsPinned, WaitsAreHonoured, JournalOnCompletion, ResultIsJournal, ClaimsProtect, CompletedIsFinal | 2.3 M |
| `durable_recovery` | fair; a sleep then an await, every addressing call, one fault: a crash, a failed write or a caller that dies between its statements | DeliveryWakes, AdmittedSettles, OneHistory (refinement) | 170 k |
| `durable_cancel_undone` | violation: a sleeping run cancelled | CancelledIsTerminal | |
| `queue_lease` | two workers, one message, onDead that may fail, slow or lost renewals, one shutdown | LeaseCoversHandler, HandlerIsDue | 1.9 M |
| `queue_settle` | two workers that may be late, one crash or failed call, cancel, requeue, expiry | CompletedByHolder, SettledIsFinal, CancelSticks | 1.8 M |
| `services` | *groups*: four messages, three overlapping claims, late renewals. *once*: three calls with a heartbeat, a lapse, an expiry, a fault. *lease*: two sections of one process and one of another, detached, a lapse, a death. *ledger*: three transactions, two fingerprints, two retentions, the sweep. *file*: two branches, two deliveries, one exit. *schedule*: three occurrences. *lock*: three processes, one with two callers, a silence, two crashes. *journal*: any three of two drains, a reservation, a reader, a cancel and a removal, with the expiry. *stop*: one worker of two slots, two messages, one unreadable, one shutdown. *sessions*: one session, two failures of its workload or of backend calls, a record write lost for good, a restart | InGroupOrder; OnceAnswers; OneHolder; SuccessorsAreSafe; RecordsOnce; NothingWorksOn; LogsAreWhole, HistoryStays; ConcurrencyBound; OneWorkload, StatusIsTrue | 2.2 M |
| `file_torn` | violation: two branches resume after a torn write | FinishedSurvives | |
| `lock_reclaim` | violation: a holder dies, two waiters | ReclaimedByOne | |
| `kernel_lifecycle` | *effects*: two attempts at init(), a run(), an operation that disposes, two steps each. *resources*: four, one a sink, one looked up by name, one created after another, two failures, two reconciliations | TypeOK, InverseOnce, ClosedIsClean, InitIsWhole, OrderedUnwind; HoldsTheLiving, EndsInTime, TeardownIsComplete | 2.5 M |
| `effect_lost` | violation: an operation across the teardown | NoLostInverse | |
| `live` | fair; *queue*: one worker, a cancel, a fault, a shutdown. *scope*: a run() overlapping the teardown, a registration, publication failing. *run*: two targets, one a service, watch mode, three edits, a signal | EventuallySettled; TeardownEnds; CancelEnds, EditReloads | 251 k |
| `kernel_stop` | violation: a signal, one service | GracefulExit | |

Properties that are conjunctions name their parts: ClaimsProtect is InputsSurvive,
ExclusiveExecution and EffectOnce; OneHolder is SoleWorker, MutualExclusion and
LockExcludes; SuccessorsAreSafe is SuccessorIsSafe, SuccessorKeepsLease and
KeyFollowsItsDrain; NothingWorksOn is SweepStops, WorksUnderHold and
StopCancels; LogsAreWhole is StaysReadable and ReplayIsWhole; InitIsWhole is
InitIntact and RetryIsClean; OrderedUnwind is InnermostFirst and StopsWhileUnwinding;
EndsInTime is GaveEveryoneATurn and PassesAreEarned. The type invariants of the modules
no run lists (OnceTypeOK, LeaseTypeOK, LedgerTypeOK, FileTypeOK, LockTypeOK, JournalTypeOK,
LifeTypeOK, RunTypeOK, SessionsTypeOK, and TypeOK of QueueDelivery) hold on the same instances.

**Why the bounds are enough.** Every race the hazards name is between two executions, two
claims, two writers or two unwinders; two of them and a third party (a client call, a
resumer, a reader, a sweep) bring each about, and one fault or lapse at any point is what
makes a second one start. Two steps are the least for "a later step" to mean something. The
token bound `MaxClaims` lets a message be claimed, lapse, be claimed again and once more.
Four group messages allow an older, a current and two later ones. Three callers of a key
are a holder, its successor and one that meets either. A page of one record and a log of
two put a change between two pages. Four resources allow a chain of three uses, a sink and
a lookup by name, and `MaxPasses = 10` is the code's own. Where more would matter the
theorems below hold for every number. Runs that use `MaxClaims` never block for it: workers
just stop asking, which only removes behaviours at the end. `CHECK_DEADLOCK FALSE` is set
where the system really stops: all calls answered, the resource down, the session over.

**Fairness and why the code justifies it.**
*DurableLocal*: an execution that has something to do does it (the event loop runs what is
ready, database calls return), the sweep timer keeps firing (a `setInterval`-like loop
that catches its errors), and time passes. Nothing is assumed of starts, of addressing
calls (a deliverer may die between any two of its statements), of renewals or of faults.
*QueueDelivery*: time passes, scheduled messages become visible, the loop goes on claiming
(it backs off after errors and never ends by itself), a handler returns (it is cancelled at
its `timeout`), calls to the store are executed, and a stopped worker is started again.
*EffectScope*: bodies and inverses settle. The code awaits them without a bound, so this is
what controller authors owe, and `TeardownEnds` says that nothing else is needed.
*KernelRun*: the kernel's and the session's continuations run (the event loop), a target's
run() settles, and a watcher's debounce timer fires. Nothing is assumed of signals and edits.
In `MCLive` each fairness condition carries `component = ...`, for only that component moves.

**What is checked only under stated conditions.** ExclusiveExecution, EffectOnce and
CompletedIsFinal assume claims renewed in time, starts that do not share one workflow instance, no
Cancel, and no body that goes on after the suspension of a wait (`Swallowers` empty): such a body
runs on after its park gave the claim up, so a second execution may start beside it
(`DL/workflow.ts:284-292` discards only what it would record at the end). InputsSurvive assumes
neither a fault nor a lapse. LeaseCoversHandler assumes timers that fire within a third of a
lease, claims answered within that time and a retention that outlasts a lease. HandlerIsDue
assumes no worker shuts down. InGroupOrder assumes enqueues committing in insertion order.
SoleWorker and MutualExclusion assume that no TTL lapsed under a body; the uniqueness part of
OnceAnswers that no record expired; RecordsOnce that no retention passes twice inside one call;
HistoryStays that no two repairs of one tail overlapped; LockExcludes that every living holder
refreshed its file and that no rename took another file than the one found stale; ReplayIsWhole
that no marker was deleted (the retention of markers outlasts a reader); OneWorkload that the
backend refused no removal, no change or adoption brought a workload back for a session that had
failed meanwhile, and no resume came while `fail()` was removing one; StatusIsTrue that, and that
the store took every write and no delete stopped halfway. HoldsTheLiving and TeardownIsComplete
are about teardowns outside an initialization or a reconciliation, CancelEnds and EditReloads
about cancellations that some target or the idle wait still meets. ClosedIsClean, InnermostFirst,
InitIntact and StopsWhileUnwinding are checked when no run() overlaps the teardown, RetryIsClean
when publication does not fail, StopsWhileUnwinding as long as no operation disposed of its
effect, because overlapping disposals lower the flag. The next section shows that these conditions
are needed.

## Statements the code does not keep

Five have a run and are findings in `PROJECT.json`:

* **CancelledIsTerminal** (`durable_cancel_undone`). `DL/cancel.ts:10` says a cancelled run
  is terminal. parkRun and completeRun (`PG`) update the row whatever its status, and an
  attaching start takes a cancelled run over, so an execution under way turns `cancelled`
  back into `parked` or `completed`.
* **FinishedSurvives** (`file_torn`). The README of the file journal says that everything
  already finished survives an abrupt exit. `FJ:440` looks at `#repaired`, awaits the repair
  and then sets it: two first appends both find the torn tail, and the second truncates what
  the first has written and flushed.
* **ReclaimedByOne** (`lock_reclaim`). `LK:188` says two processes that observe the same
  stale lock cannot both reclaim it. The second renames whatever is at the path by then: the
  first one's new lock.
* **NoLostInverse** (`effect_lost`). `ES:119-121` says the refusal comes before a body
  runs, so that a late effect cannot allocate and find nowhere to record. The frame is
  looked up after the body was awaited; a teardown in between leaves it none.
* **GracefulExit** (`kernel_stop`). `K:2840` says forceIdle unblocks the graceful exit. It
  resolves the waiters there are and remembers nothing: a signal between the last target's
  return and the idle wait is lost, and a service's hold keeps the kernel up.

The others are stated in the modules, and TLC refutes each on the small instance named
here: take the configuration, apply the changes, and check the definition alone.

| Statement | Says | Refuted by | What happens |
| --- | --- | --- | --- |
| ClaimMeansAlone | `DL/workflow.ts:107-113`: failing to take the claim means someone works the run | `durable_cancel_undone` with `Starters = {s1, s2}`, `Resumers = {}`, `HostOf <- StartsOnly`, `HolderOf <- SharedKey`, `N = 1`, `Body <- OneEffect`, `Clients = {}`, `Ops = {}`, `MaxFaults = 0` | two starts of one id through one workflow instance share `#holder`; claimRun lets the holder in again, and both execute |
| NoRetroactiveCancel | `DL/cancel.ts:42`: a finished run is not cancelled retroactively | `durable_cancel_undone` with `Body <- OneEffect` | readRun and completeRun are two statements; the run completes between them |
| FailedIsTerminal | `DL/workflow.ts:270`: a failed run is terminal | `durable_cancel_undone` with `Resumers = {w1, w2}`, `HostOf <- Apart3`, `HolderOf <- Holders3`, `Body <- OneEffect`, `Clients = {}`, `Ops = {}`, `OnConflict = "reject"`, `MaxFaults = 1` | a stale batch of a second resumer claims and executes the failed run again (`DL/resumer.ts:135`) |
| InputsNeverEmpty | `DL/workflow.ts:73`, `:235`: recovery replays an admitted run, never on empty values | `durable_cancel_undone` with `Body <- OneEffect`, `Clients = {}`, `Ops = {}`, `MaxFaults = 1` | the process dies after the admission and before the inputs are pinned; the resumer pins empty ones |
| AnswerOutranksDeadline | `D/await-delivery.ts:79`: a recorded delivery means the await is not reached | `durable_cancel_undone` with `Body <- OneTimed`, `Ops = {"deliver"}`, `OnConflict = "reject"` | the handle read its copy of the journal before the delivery landed, and times out |
| NoFalseCompletion | `DL/workflow.ts:284`: the false record is never written | `durable_cancel_undone` with `Swallowers = {1}`, `Clients = {}`, `Ops = {}`, `OnConflict = "reject"` | the swallowed wait is recorded as a completed step; a resume replays past it with no latch and completes |
| WithinBudget | `modules/queue/docs/delivery.md:60`: a lapse that used up the budget does not run the handler | `queue_lease` with `Budget = 1` | the claim that found the lapse is handed back at shutdown (`Q/worker-loop.ts:182`) with its attempt; the next claim sees no lapse and runs the handler |
| DyingStays | `delivery.md:65`: a message whose onDead failed stays marked as dying | `queue_lease` with `Budget = 1`, `Workers = {v1}`, without symmetry | a hand-back at shutdown writes the mark away (`QS:647`) |
| UnchangedMeansSettled | `Q/queue-store-contract.ts:201`: `unchanged` is "Completed or already cancelled" | `queue_lease` with `Ops = {"cancel"}`, `Workers = {v1}`, `MaxClaims = 2`, `MaxStops = 0`, without symmetry | found running by the first update, released before the second (`QS:758`): the answer is `unchanged` for a pending message |
| SoleDelivery | `delivery.md`: given up "before the lease can lapse and another consumer claim the message" | `queue_lease` with `MaxClaimWait = 3`, `MaxClaims = 2`, `MaxStops = 0` | a claim answered after its lease is over is begun without a look at the clock (`Q/worker-loop.ts:336`) |
| OneAtATime | `modules/queue/docs/store-contract.md:145`, `modules/queue-sql/docs/sql-queue.md:49`: one message of a group at a time | `services` with `InOrder = FALSE`, `LateRenew = FALSE` | an older message commits late; two overlapping claims each see only their own candidate. With one claim at a time it holds, and is proved |
| RefusedOnlyAtTeardown, FlagIsHonest | `ES:181` "not started because the resource is being torn down", `ES:106` "set while this scope is unwinding" | `effect_lost` with `Ops = {o1, o2}`, `Disposers = {o1, o2}` | a disposal raises the same flag, and two overlapping ones restore it in the wrong order, so it stays up |
| InnermostFirst, ClosedIsClean | `EC:1916`: every frame, newest first | `effect_lost` with `Ops = {}`, `Runs = {r1}`, `Generators = {r1}`, `Steps = 2`, `Overlapping = TRUE` | a run() that fails during the teardown pops a frame of its own accord and the scope closes while those inverses still wait |
| LostMeansLost, ThrowFrees | `modules/idempotency/nodejs/src/once.ts:194`: settle fails because the claim was lost; `:179`: a throwing body released the claim | `services` as it is | a renewal in flight has moved the revision the settlement or the release compares: the claim is still the caller's, and stays until its TTL |
| AtMostOnce | `modules/idempotency/README.md:3`: a body runs at most once per key | `services` as it is | the result of that caller is not recorded, its claim runs out, and the next call runs the body again, with no fault and no slow body |
| AlwaysCancellable | `modules/lease/README.md:57`: a running detached body can be ended early | `services` as it is | a body that outlived its lease removes its successor's entry from the table, which is keyed by the key alone |
| AppendExact | `FJ:246`: within one process an append that finds an entry adds none | `services` as it is | two deliveries read the path as free and both append; the second is answered with its own value and replay reads the first |
| SettledStays | `FJ:128`: `running` is a run whose process died | `services` as it is | an unpark that looked before the completion is written after it: the run reads as running and is swept again |
| CancelStops | `RS:335`: after a cancel the writer's next append is refused | `services` as it is | a drain that adopts a key already marked appends to it |
| NeverMixed | `RS:645`: never a short replay presented as finished | `services` as it is | the marker is deleted and the key claimed again between two pages; the reader goes on in the new log |
| NothingStaysHeld | `EC:1433`: what create() allocated goes with the resource, or nothing reclaims it | `kernel_lifecycle` with `MaxPasses = 5` | a resource that only ever deferred, or was withheld, stays among the created ones, which the teardown does not walk |
| ReadyIsLive | `K:1103-1107`: no second reconcile reports no change while the instances differ | `kernel_lifecycle` with `MaxPasses = 5` | an inverse refuses during a reconciliation: what was unwound stays declared, is not live, and the next one finds no difference |
| EveryoneTornDown | `K:2400`: every initialized resource is torn down | `kernel_lifecycle` with `MaxPasses = 5`, `Overlap = TRUE` | the teardown took its list before a reconciliation initialized another |
| RetryIsClean | `EC:1480`: a resource that failed must not be left reachable | `effect_lost` with `Inits = {i1, i2}`, `Ops = {}`, `Unpublishable = TRUE` | publication fails after a good init(); the instance stays among the created ones and init() is entered again on top of what the first attempt built |
| UnderCeiling | `packages/runner-core/README.md:281`: "Most running sessions at once" | `RunnerSessions` as in `MCServices`, with two sessions | resume() looks at the ceiling and awaits its write before it counts, with no reservation: a create or another resume is admitted in between |
| FailedHoldsNothing | `session/registry.ts:67`: the workload is null while the session is suspended or failed | `RunnerSessions` as in `MCServices` | adopt() takes the workload without looking at the epoch after a failure reported during the adoption; fail() records its failure after a resume that did not wait for it |
| UnwritableIsRemoved | `session-lifecycle.ts:886`: the workload of a session whose record cannot be written is removed | the same | setAgent rebuilds a workload after the session let go of it |
| OneAtOnce | `session-lifecycle.ts:815`: what is left of the workload is removed, and `resume` rebuilds it | the same | while fail() awaits the removal, storeFailed finds no workload in hand and shows `failed` at once; a resume creates the second |
| NeverStuck | `session-lifecycle.ts:210`: a running session can be suspended | the same | delete() fails after it dropped the workload: the session stays `running` without one, and can be neither suspended nor resumed, only deleted |

## What is proved

Eight modules hold the proofs; every theorem listed in `PROJECT.json` holds for every value of the
constants that satisfies the module's named assumption, without a bound on runs, workers,
messages, sessions, faults or restarts other than that it is a natural number. The assumptions
(`DurableConstants`, `QueueConstants`, `GroupConstants`, `ScopeConstants`, `LockConstants`,
`OnceConstants`, `LeaseConstants`, `LedgerConstants`, `ScheduleConstants`, `FileConstants`,
`JournalConstants`, `LifecycleConstants`) say that names are distinct, that functions have their
domains, that slots sharing an identity share a process, and that bounds are natural numbers.
`LeaseConstants` and `OnceConstants` also say that `NoCell`, the absence of a record, is not a
record, and `QueueConstants` that there are finitely many messages, which counting them needs.

Of the 26 invariants and the 14 other properties of the passing runs, all safety properties
but HistoryStays have a theorem. For each, the invariant that makes it inductive:

| Module | Proved | Inductive invariant | Why it is needed |
| --- | --- | --- | --- |
| `DurableLocal_proofs` | TypeOK, ReplayAgreement, JournalOnCompletion, RecordedInOrder, ResultIsJournal, ParkIsPinned, WaitsAreHonoured | `IInv` | what the journal holds is right because of what each slot and call is *about* to write |
| | ClaimsProtect, CompletedIsFinal | `CInv` | a row's claim says nothing of who still acts on what it read |
| | the refinement OneHistory | `HInv` | a step's entry is one step of the history only if what it was pinned on is already there |
| `QueueDelivery_proofs` | CompletedByHolder, SettledIsFinal, CancelSticks, StopCancels | `BaseInv` | a token is of one claim and one delivery |
| | ConcurrencyBound | `RoomInv` | a claim on its way holds room that is not yet filled |
| | HandlerIsDue | `DueInv` | the budget is spent by the claim and found spent by the delivery |
| | LeaseCoversHandler | `LeaseInv` | the worker's reckoning is never longer than the store's lease |
| `QueueGroups_proofs` | InGroupOrder; OneAtATime | `OrderInv`; `OneInv` | what a claim has locked is not settled before it ends |
| `Services_proofs` | OnceAnswers, SoleWorker, SuccessorIsSafe | `OnceInv` | a revision names the call that wrote it |
| | MutualExclusion, SuccessorKeepsLease | `LeaseInv` | whoever is inside is the record's holder |
| | RecordsOnce, SweepStops | `LedgerInv` | a second pass has seen a retention pass |
| | WorksUnderHold | `ScheduleInv` | the hold is given back last |
| | LockExcludes | `LockInv` | the file at the path is the holder's |
| | OneHolder, SuccessorsAreSafe, NothingWorksOn, LogsAreWhole, ConcurrencyBound, OneWorkload, StatusIsTrue | `ServicesInv` | the conjunction of the above, each kept by a step of another component |
| `Journals_proofs` | StaysReadable | `FileInv` | a line is only ever written onto a whole one |
| | ReplayIsWhole, KeyFollowsItsDrain | `JournalInv` | whose version is the key's knows the key |
| `RunnerSessions_proofs` | OneWorkload, StatusIsTrue | `Inv` | a workload or a status is accounted for by a write still queued |
| `EffectScope_proofs` | TypeOK, InverseOnce; ClosedIsClean; OrderedUnwind; InitIsWhole | `OnceInv`; `CleanInv`; `OrderInv`; `WholeInv` | each says more of where an effect is while somebody unwinds |
| `ContextLifecycle_proofs` | HoldsTheLiving, EndsInTime, TeardownIsComplete | `LifeInv` | a pass owes a turn to whoever a change may have helped |

**DurableLocal_proofs**, for any number of runs, slots, clients, processes, steps, faults and
lapses, and any body. `IInv`: `AuthorsOK` (entries are written by who may write them), `SlotOK`
and `AgreeOK` (a slot that acts has a run, what it read is in the journal, all earlier steps
are recorded, and in state "record" the effect was performed or the pinned wake time has
passed), `CallOK` (a call about to deliver found an await the body had reached), `ParkOK` and
`ResultOK` (rows agree with the journal) and `EntryOK` (each entry is justified). The argument
rests on one fact, that entries only grow (`AppendGrows`); each action has a lemma of its own.
`CInv` adds what the claim protects: under `ClaimsHold` whoever acts on a run carries its claim
(`HeldOK`) and read it as it is (`CurrentOK`), the others are too late to win it, and whoever
executes a run that has completed will only replay it (`FinalOK`); without a fault an effect
performed is recorded or about to be by that slot alone (`DoneOK`); and without fault or lapse
inputs that are not yet pinned are in the hands of a start that still has its claim
(`PinnedOK`). `HInv` adds what the abstract history demands of the order of entries. The
refinement is then proved action by action: InitH maps initial states to initial states, NextH
each step to a step of `HistoryNext` or a stutter; sweeps, claims, lapses and crashes are
stutters.

**QueueDelivery_proofs**, for any workers, messages, concurrency and budget, crashes, faults and
restarts. A step is of one of three kinds (a delivery moves, a row nobody holds moves, the loop or
the clock moves), and each invariant is proved over the kinds, not over the 29 actions.
`LeaseCovers` assumes what its run does: `Punctual` timers, `MaxClaimWait <= 1` and no purge of
expired messages (`"expire" \notin Ops`). Its invariant dates the lease from the start of the
call, at the worker and at the store alike: a live delivery's reckoning `held` is at most the
row's `lease` (`Covered`), also for the renewal under way. HandlerIsDue is conditional on `stops =
0` in the property itself, for a hand-back at shutdown refutes it otherwise (WithinBudget and
DyingStays above).

**Services_proofs**. The revision of a cell names the call that wrote it, and a call knows none
of its own settlement: so a conditional operation finds its own live claim or does nothing, and
OnceAnswers and SuccessorIsSafe follow. `LockInv` adds `HolderHasFile` to the exclusion: as long
as no living holder went silent and no rename took the wrong file, whoever is between the
exclusive create and the removal has its own fresh file at the path; a rename keeps it because
only a stale file is renamed, which is exactly what `raced` records the failure of.
`ServicesInvariant` composes: a step of `MCServices` is a step of one component and a stutter
of every other. The worker and the sessions are instances in `MCServices`, so their proof
modules are instantiated with the same constants (`Delivery`, `SessionsProofs`) and a lemma per
action says that the two instances' definitions are the same; the instances' assumptions are
proved of the values (`DeliveryConstants`).

**Journals_proofs**. For the file: whoever is at its write has seen the tail repaired, only an
exit tears a tail and an exit ends every write, and whoever is about to truncate cuts where the
torn line began (`CutsTheTail`). For the record stream: an actor whose version is the key's knows
the key's state (`VersionsTell`), so the key moves like a small machine (`KeyMove`) whoever moves
it, and a reader that has read a prefix of the log still has (`ReadersFollow`).

**RunnerSessions_proofs**, for any sessions. Five facts of each session (`Good`): `Numbers`
(workloads and epochs), `Outside` (who is not registered does nothing), `Ordered` (an operation
at one of its awaits excludes the removals, writes and workloads that would cross it; assumes
that no adoption was taken over after its failure and no resume met a removal), `Held` (where
the one workload is; assumes that nothing but a failed delete strayed) and `Told` (what is shown
is in the store or in a queued write, and behind every queued `running` of a session that lost
its workload comes the failure; assumes that no write was lost). The facts about queues that
`Told` needs are lemmas on append, completion and storeFailed's re-queue (AppendQ, TailQ,
MarkQ). The invariant was checked with TLC from every state of a small shape, reachable or not,
before it was proved.

**EffectScope_proofs**. `OnceInv` needs no condition: an effect not yet recorded has not been
run, and whoever awaits an inverse awaits one that is running and nobody else awaits. The
others assume that no run() overlaps the teardown (`~Overlapping`), and fail exactly where one
recovers beside it: `CleanInv` (at most one recovery or teardown unwinds at a time, and
everything held is on an open frame or on that unwinder's list), `OrderInv` (that list is what
is newest) and `WholeInv` (which frame an attempt at init() recorded in, and what its recovery
has left). InitWhole also assumes that publication does not fail (`~Unpublishable`); without
that RetryIsClean is false, see above.

**ContextLifecycle_proofs**, for any resources, edges between them, failures, reconciliations
and any bound on the passes. `LifeInv` says what the registries hold, what an unwinding has
still before it (a holder is never behind what it holds, `Latest`), that a teardown no
reconciliation overlaps has everybody before it, and what the loop owes: whoever a pass
without progress leaves is excused by somebody who is not live. `NextIsUnused` is the
lemma about the order: whoever is next in a line by reverse insertion is used by nobody left
but a sink, for the first place in the line with nobody left behind it exists whatever the
edges are. `Closure` is the one about an edit: the closure the code computes is the least set
with the edited resources that is closed under holders.

**QueueGroups_proofs**: InGroupOrder under `InOrder`, for any number of messages and
overlapping claims: places are given once and in order, nothing older than a committed message
is still open, and a locked message is the oldest unsettled one. OneAtATime (theorem
`OneRunning`) for one claimer and no late renewal.

**Only model-checked**: DeliveryWakes, AdmittedSettles, EventuallySettled, TeardownEnds,
CancelEnds and EditReloads, which are liveness under fairness; KernelRun altogether; and
HistoryStays, whose replay filters the lines of the file by their path: what a filter over a
sequence keeps is an induction over data, which is out of the prover's reach. No module
declares a RECURSIVE operator. The statements the code does not keep have counterexamples, not
proofs.

## What the models leave out

*Durable*: value codecs and unreadable runs, collapsed regions, a recorded step whose
target changed, results that cannot be recorded (they appear as FailWrite), the NOTIFY
wake-up (it only shortens the sweep interval), ORDER BY and LIMIT of dueRuns, the time
component of an override's path. All dead processes share the identity `Gone`: no live slot
has any of their identities, which is all a claim compares.
*File journal*: deadlines and scheduled runs, several runs, and the lock of its directory
(one process owns it).
*Queue*: enqueue batches, digests and conflicts of repeated ids, stored errors and their
reasons, the batch size of purges (an expired message is absent), the order of candidates
within a class. A renewal that is too late for its lease is modelled in both modules.
*Key-value claims, ledger*: several keys (they share nothing), values and their encoding,
the batch size of the sweep.
*Record journal*: several keys, snapshots read without following, waiting and wake-ups (a
reader may read at any time), the lengths of the retentions (a key is recent or aged),
record contents.
*Directory lock*: the log, the creation of the directory, the contents of the lock file.
*Effect scope*: frame labels, the drain of detached tasks, values passed along a chain,
two run() calls of one instance at once.
*Contexts*: child contexts, the difference of two manifest sets (any set of resources may
be the ones an edit touched), name resolution, contracts.
*Runner sessions*: the runs of the apps and their terminals, the owner, agents' tokens,
notices and progress, the container engine; setApps where the backend applies it without
recreating (nothing of the session's state changes). The reports of a workload that comes up
and the answer of `create` are one step. The run has one session: two share only the ceiling
and the boot, and OneWorkload and StatusIsTrue also hold for two sessions with one fault of
each kind and MaxEpochs 4 (12 M states), which is too long for the run.
*`telo run`*: inputs, env files, the debug server, what is printed.

## Plan

Done: the modules above, with the proofs named. Next, in order:

1. **Proofs**: the safety part of KernelRun (that the kernel is torn down once, after what
   it booted); SettledStays and FailedIsTerminal under the conditions that make them true;
   HistoryStays, once its replay is written without a filter over the file.
2. **StepEngine**: try/catch/finally, loops and suspension over journaled steps, replacing
   the flat body of DurableLocal by the paths the engine generates.
3. Smaller protocols: the runs of a runner's apps, the broadcast subscription loop, revisions of
   the graph layers, single-flight of the cache.

**Not modelled, and why.** By lines most of the repository is the analyzer, CEL, the
studio, editors and the adapters: pure functions over documents far larger than TLC can
enumerate, front ends, and I/O without state of its own. What the models cover is a small
share of all lines and most of the code in which processes, timers and callbacks meet.

New questions about a module already modelled join an existing run when its instance brings
their case about, so that the set of runs stays one to read through.
