# Verification of the lab orchestrator

TLA+ models, TLC runs and TLAPS proofs for the Go programs of this repository:
the orchestrator (`internal/orchestratorgo`), the secretary
(`internal/secretary`) and the codex gateway (`internal/codexlocalgateway`). The
models follow a task from the request that creates it, through Postgres, Redis,
workers, bridges, approvals and planners, to its final state; an initiative and
an objective from their goal to their last task; a message from Telegram to its
answer; and a conversation through the gateway.

## 1. The system

| Component | State it keeps | Operations | Hard behaviour | What makes it correct |
|---|---|---|---|---|
| Task state machine (`domain/types.go`) | – | transition table | three SQL statements write `state` without consulting it | finished tasks stay finished |
| Task store (`store/postgres.go`, `store/initiatives.go`) | `tasks`, `approvals`, leases in the task's metadata, initiatives, reviews, links | create, transition, finalize, request and resolve approval, claim, touch, requeue, launch | each is one transaction; callers issue several | every row's life is one of `TaskLife` |
| Redis queue (`store/redis.go`) | one sorted set per agent type | ZADD, ZPOPMIN, ZCARD | not transactional with Postgres; a popped entry is gone | one entry per queued task, none lost |
| HTTP handlers (`httpapi/handlers.go`) | – | create, patch, cancel, approve, reject, reconcile root | check-then-act on queue depth, compensation, request context that ends | bounded overshoot, one enqueue per approval |
| Embedded worker (`worker/worker.go`) | current task | start and recover, claim, execute, planner results | crash at any point, results after cancellation | a task is executed by one worker |
| Bridge endpoints and daemon (`httpapi/bridges.go`, `bridge/daemon.go`) | bridge row, current task | register, heartbeat, claim, execute, submit | leases, stalled hosts, results in two transactions | the first result stands, no task is left behind |
| Planner trees (`worker/worker.go`) | parent and root ids of tasks | create subtasks, reconcile the root | subtasks run while the plan is still being created | a failed root has a cause, roots are closed |
| Initiatives (`httpapi/initiatives.go`, `initiative/`) | phase, status, active artifacts, reviews, linked tasks | generate, review, advance, launch, autonomous run | a model call between reading and writing, partial launches | history and active artifacts agree, work runs where the workspace is |
| Objectives (`httpapi/objectives.go`, `initiative/objectives.go`) | work items, iterations, time budget, status snapshots | plan, queue ready items, repair cycle, stop | everything happens inside the submit handler of some bridge | dependencies first, nobody is forgotten, success is reviewed |
| Objective runner and executor (`bridge/objective_runner.go`, `bridge/executor.go`) | – | poll, execute, research, review | verdict from a status others write | ends with the verdict the review gave |
| Secretary, Telegram side (`telegram*.go`, `timer.go`, `progress.go`) | file queue, offset, timers | webhook, worker, polling, scheduler | crash between two files, repeated delivery, timers that fire late | acknowledged means handled |
| Secretary, memory (`service.go`, `memory.go`, `learning_*.go`) | history, archive, traces, knowledge | reply, feedback, review, prune, forget | failed write between archive, file and cache | the model sees what the operator decided |
| Codex gateway (`codexlocalgateway`) | response store | responses, chat, compaction, tool-call recovery | eviction under use, commands recognised in text | completed responses can be continued, no command is given twice |
| Watchdog, broker, research, telemetry | counters | probe, call | – | not modelled, see 6 |

Handlers, workers and bridges share nothing but Postgres and Redis. A handler
or a worker is therefore a process that alternates database steps, and what can
go wrong happens between two of them. The secretary's replies are serialised by
a mutex; what interleaves there are timers, crashes and failed writes.

`PROJECT.json` lists all components, modelled or not, and the hazards of the
code at the line where each one bites.

## 2. Modules

| Module | Models | Extends / uses |
|---|---|---|
| `TaskStates` | states, terminal states, transition table | – |
| `TaskLife` | abstract specification: what the task table promises under every writer | `TaskStates` |
| `RemoteTasks` | remote tasks: handlers, Redis, workers, approvals, launch, recovery | `TaskStates`; implements `TaskLife` |
| `BridgeLease` | local tasks: claims, leases, heartbeats, results, exits | `TaskStates`; implements `TaskLife` |
| `PlannerTree` | a planner task, its subtasks and the reconcilers of the root | `TaskStates` |
| `ObjectiveGraph` | work items of an objective, their dependencies, plans of first and repair cycles | – |
| `ObjectivePlanning` | precedents, ranking of files and the first contract | `ObjectiveGraph` |
| `ObjectiveScope` | the files edits work on through research, queueing, review and repair | `ObjectivePlanning` |
| `ObjectiveRun` | the items as tasks: handlers, reconciliation, budget, repair cycles, runner | `ObjectiveGraph`, `TaskStates` |
| `InitiativeRun` | phases, reviews, materialisation, launch, autonomous run | `TaskStates` |
| `Gateway` | the codex gateway | – |
| `SecretaryTelegram` | updates, timers and progress messages of the secretary | – |
| `SecretaryMemory` | what the secretary remembers and gives to the model | – |
| `MC…` | instances for TLC | the module they name |
| `…Proofs` | theorems and proofs | the module they name; `ObjectiveRunProofs` also `ObjectiveScope` |

`ObjectiveGraph` joins the two views of an objective: `ObjectivePlanning` and
`ObjectiveScope` decide which items and files a cycle has, `ObjectiveRun` runs
any cycle of that graph under concurrent handlers.

### RemoteTasks

A Postgres transaction or a Redis command is one step. `hpc`/`htask` and
`wpc`/`wtask` say where each request and each worker stands between its steps.

- `createTask` is `CreateCheckGlobal`, `CreateCheckAgent`, `CreateInsert`, then
  `EnqueueTask`, or `EnqueueFails` (with the compensating cancel), or
  `HandlerAborts` (the request context ended, so the compensation fails too).
- `resolveApproval` is `Approve` or `Reject`, the former followed by the same
  `EnqueueTask` / `HandlerAborts`; `launchInitiativeTasks` is
  `QueueTaskForLaunch` for one task, followed by them as well.
- `updateTask` and `cancelTask` are `UpdateTask`, `UpdateTaskToQueued` (which
  writes Postgres only) and `CancelTask`.
- `Start` is worker start with `RequeueRecoverableRemoteTasks`; `DequeueTask`,
  `ClaimAssigned`, `ClaimInProgress`, `ExecuteTask`, then `RequestApproval`,
  `ApprovalRequestFails` or `FinishTask` are `tryClaimTask` and `executeTask`.
  `WorkerGivesUp` is a database error at any of them, `Crash` the death of the
  process.
- `lost` is a history variable: why a queued row has nobody who will run it.

Abstractions: a queue is a set, because the order of entries matters to no
property but liveness (see fairness); the depths `TotalQueueDepth` adds up are
one read; a handler's read of the state before a guarded update is merged with
the update, which checks again under the row lock; the `FailTask` that follows a
failed approval request is one step with it; `retry_count`, archiving and
worker heartbeats in Redis are left out.

### BridgeLease

`ClaimResume` and `ClaimQueued` are the two outcomes of
`ClaimNextLocalBridgeTaskWithTTL`, up to its commit; `TouchAfterClaim` is the
lease it writes afterwards. `Heartbeat` is sent while a task executes,
`FinalizeLease` / `FinalizeLeaseFails` and `SubmitAccepted` / `SubmitRefused` are
the steps of `submitBridgeTaskResult`. `Register` and `Exit` start and end the
daemon, which ends on every failed call. `Tick` is time: `ttl` is what is left of
a lease, `due` what is left until the next heartbeat; a daemon outside `MayStall`
sends its heartbeat in time.

Abstractions: the resume order (`updated_at DESC`) is a free choice; the oldest
queued task is picked by `CreatedAt`; transactions are single steps, so nothing
is ever skipped by `SKIP LOCKED`; a request ends with the daemon that sent it;
what a result does to an objective is `ObjectiveRun`.

### PlannerTree

`CreateKid`, `PlaceKid`, `EnqueueKid`, `QueueKid` and `StoreResults` are the loop
of `handlePlannerSuccess`; `PlannerError` and `FailPlanner` its error path.
Claims and approvals of subtasks are one step each (their inner steps are those
of the other modules). `ReconcileRead` and `ReconcileWrite` are the two halves of
`reconcileRootTask`, for as many concurrent callers as there are `Reconcilers`.
`FinishKid` stores a result; `RefuseResult` is the result of a subtask that an operator
or a recovery has moved on meanwhile: the row refuses it, and the root is reconciled
all the same.

### ObjectiveGraph, ObjectivePlanning, ObjectiveScope

`ObjectiveGraph` has the items of a contract (`BuildObjectiveContract`) and of a
repair cycle (`buildObjectiveRepairCycle`) with their dependencies and the
optional items each finding switches on.

`ObjectivePlanning` takes one step per stage of `createObjective`, from `PlanInit`:
`Sorted` lists a set in a strict order (for the stable sort of the chunks their places
decide where they compare equal), `TakeHit` is one round of
the loop of `SelectRetrievalHits`, a function of the number of chunks visited; the ranking of the workspace's files,
the shortlist, and the detectors for bootstrap, analysis, documentation,
infrastructure and dependency items make the contract.

`createObjective` passes at most three chunks, all unscored, so of the limits of
`TakeHit` it can meet only that per class; the other callers
(`initiative/objectives.go:702`, `helpers.go:130`) pass packages with more, and the
contexts of the run cover both. A chunk without a reference is sorted under the empty
one and counted under its type and id; here every chunk has a reference.

`ObjectiveScope` goes on from the contract: what `research_objective` and a replan
recommend and exclude, the patches `objectiveQueueMetadataPatch` applies in order,
a diff of at most `MaxTouched` files (and possibly a validation artifact), what
the review of the bridge finds in it, and the suspected paths of the repair cycle
that follows.

A path is a number in the order of names; of a text only what the detectors look
for in it is kept. Items run in plan order here; their interleaving is
`ObjectiveRun`.

### ObjectiveRun

Every bridge and every operator is a process with a program counter. A submit
handler is `Submit`, then `ListReady` and `QueueItem` (item by item, from the
listing) or `FailOverBudget`, or `Stop`, or `StartRepair`, `CancelDependent`,
`BeginCycle` and `MaterializeItem`, and last `ReconcileRead` and `ReconcileWrite`,
the two halves of `ReconcileInitiativeExecution`; `ret` says where a shared part
returns to. A result is a success, an error, or a review that asks for changes; only
the last of these, or a failed validation, is repaired, while a review whose executor
failed fails its row. `HandlerFails` ends a handler between any two statements,
`ReconcileIgnored` is a reconciliation that fails inside `reconcileRootTask`, which
drops the error and lets the request end as if it had been made, `BridgeLost` ends a
bridge with its task, and `Expire` is the deadline, which may pass between any two
steps: `MayRepair` is evaluated in `Submit` and the deadline again in `StartRepair`. The runner posts the
objective, then `Poll`, `Claim`, `Ask` and `RunnerResolves` are its loop, and `Poll`
takes the verdict from status and snapshot.

Abstractions: claims and leases are one step (see `BridgeLease`); the outcome of a
command is free; `MaxCycles` bounds the cycles. `CreateTask` and `LinkInitiativeTask`
are one step, in `InitiativeRun` too: rows are listed through their links, and only a
queued row can be claimed, so nothing sees a row between the two. A failure between
them leaves a row without a link, which no other statement reads, and the handler ends
as it does before the step.

### InitiativeRun

A request is a record of its operation, its place, what it has read and what it
still has to do. `Advance` and `GenerateTasks` read the item, call the model (whose
answer is valid, or the fallback), then write artifacts, review row, active
artifacts and, for a plan, one task at a time; `Resolve` is an approval or rejection
with its checks and writes; `Launch` changes mode, target and state of one task
after the other and ends with the reconciliation; `UpdateTaskMode`, `Cancel` and
`Work` change single tasks. The mode (`UpdateInitiativeTaskMode`) and the target
(`UpdateTaskLaunchMode`, here `SetTarget`) are two statements of a launch and of a mode
update, and a request may end between them. The Telegram bot's commands differ where its code does.
`AutoRun` goes through the same statements in the order of `advanceAndLaunch` and
approves every phase: both callers set `AutoApprovePhases` (`telegram/bot.go:571`,
`httpapi/autonomous_http.go:22`), so the branches without it are not reached. `Fail`
ends a request at any statement.
A history begins at an idea, a plan under review, a launch or an autonomous run,
each with its own budget of requests, all of them states the program reaches.

### Gateway

A request is numbered by its arrival, which is also the id of its response. It
loads the conversation it continues, compacts it, asks the model, normalises or
recovers tool calls (native, JSON, URL, fenced, immediate), asks once more for a
repair, stores and answers, or streams. Texts are reduced to the forms the parser
tells apart and a command to what it writes. `kept` is a history variable: the
conversation still shows every call that was issued. A streamed chat answer goes to the
client as it is, without recovery or repair. The id of a native call comes
from the model server, which is external: `NativeId` takes it to be new for every
call, and the results of calls are matched by it.

### SecretaryTelegram

Webhook deliveries (`ServeHTTP`), the worker (`Next`, `processUpdate`, `Complete` in
its two writes), the polling loop that stores its offset first, trackers whose
timers fire at any time before they are closed, and the scheduler's three steps per
timer. A fault is a crash, a failed write (which may have reached the disk), a lost
answer or a failed send; `MaxFaults` bounds them. Completions are pruned only for
updates Telegram will not repeat, which is what the 48 hours stand for.

### SecretaryMemory

One reply at a time (the service's mutex) goes through loading, routing, sources,
knowledge, the model and the writes of `remember`; feedback, reviews, pruning,
restarts and `/forget` come between replies. Time is a small clock and ages are
differences of it. A question is a record of the features the routing tells apart.
Histories, archive, traces and knowledge are sets of records numbered in the order
they are written, which is the order of the files' lines: the last record of an item
is the one with the highest number, and the bound of a history keeps the newest
turns that fit. Records of the archive and of the learning store lie in a file per day,
a tick of the clock: a removal that fails inside `/forget` leaves the files it did not
come to (`OfDays`), in the archive and in each class of the learning store, and `torn`
says that it failed on a history file, after which caches may be ahead of the disk. An
append that fails at `Sync` may have left its record. A record that is cut short, which
would make its class unreadable, and the file of the older memory format are left out.

## 3. Runs

| Run | Bounds | Shows |
|---|---|---|
| `RemoteCore` | a gated task, a task of an initiative, 2 workers, 2 requests, 1 crash | `SingleToken`, `QueuedNotLost`, `TerminalIsFinal`, refinement of `TaskLife` |
| `RemoteCapacity` | 3 tasks, 2 requests, queue maximum 1 | `QueueOvershootBounded` |
| `RemoteLive` | 2 tasks, 1 worker, 1 request, 1 crash | `QueuedGetsClaimed` |
| `BridgeCore` | 2 tasks (one gated), 2 bridges (one may stall), 1 exit, 1 patch, lease 2, heartbeat 1 | `HeldLeaseIsLive`, `RequeueSparesHolder`, `FirstResultStands`, `ParkedHasApproval`, refinement of `TaskLife`, `LocalTaskFinishes` |
| `PlannerCore` | a remote, a gated and a local subtask, 2 reconcilers, 1 operator request, 1 fault | `FailureHasCause`, `RootSettles` |
| `ObjectiveCore` | runner alone, with a daemon or with an operator; plans with and without baseline; 2 iterations, 2 cycles, 1 fault, a deadline | `DependenciesFirst`, `ReadyItemGoesOn`, `RunnerSuccessIsReviewed`, `BlockerIsShown`, `RunnerEnds` |
| `ObjectivePlans` | 288 workspaces with up to 5 files, 6 contexts with up to 8 chunks, 2 iterations, diffs of 1 file beside an artifact | `PrecedentsAreBest`, `ReviewSeesEverything`, `RepairFollowsEvidence` |
| `InitiativeCore` | 2 requests at a time, 1 to 3 in all, an autonomous run, plans of 1 and 2 tasks, both scopes, 1 fault | `ActiveWasReviewed`, `DecisionNamesGenerated`, `LaunchStaysInScope`, `ExecutionHasBacklog` |
| `GatewayCore` | 3 requests, 2 at a time, 2 stored conversations, 3 commands, 8 answers, a window of 10 characters | `CompletedCanBeContinued`, `RefusedOnlyIfDone`, `NoCommandTwice` |
| `SecretaryTelegram` | 2 messages of 7 kinds, both transports, voice on and off, a queue of 1, 2 timers, 2 faults | `AcknowledgedIsHandled`, `NoNeedlessReplay`, `TextAnswerIsLast`, `TimersRingOnce`, `SentIsAnswered`, `PolledTimerRings` |
| `SecretaryMemory` | 2 exchanges, 2 conversations, 7 questions, 1 correction, 2 points of time, 1 fault | `ReviewDecides`, `CacheIsDurable`, `SourceWishesAreKept`, `EndingIsTruthful`, `ForgottenIsNeverUsed` |
| `RemoteRecovered` | 1 task, 1 worker, 1 crash | violation: recovered tasks are queued in Postgres only |

The properties are stated with their comments next to the modules' last section.
Two workers, two requests, two bridges and two handlers are enough for each race
of the hazard list, which are races of two; one crash, exit or failed statement
can fall between any two steps. Bounds of the later modules:

- `ObjectiveCore`: with `MaxIterations` 2 there is a first cycle, a repair cycle and
  the refusal of a third; a third cycle has the items of the second.
- `ObjectivePlans`: the limits of the code are kept (five precedents, two per class,
  four inferred paths); eight chunks and five files are above the limits the
  properties depend on. A diff of two files would only add unions of cases.
- `InitiativeCore`: two tasks are what a partial launch needs, three requests what
  a generation overtaken by a decision and a second generation needs.
- `GatewayCore`: three responses are one more than the store holds, and the window
  is below the size of two exchanges, so compaction happens.
- `SecretaryTelegram`: two updates and a queue of one make the queue full; two faults
  are a crash during the recovery of the first.
- `SecretaryMemory`: retention of 0 and 1 ticks makes every kind of record expire; one
  candidate is enough because items are decided one by one.

Deadlock is not checked: when all tasks are finished and the bounds are used up the
system may rest.

`retry_count` is incremented by a requeue and read by nothing, so the bridge
runs may set `RetryCap` to 0 without losing a behaviour of the other variables.

`ObjectiveReady` checks `ReadyItemGoesOn` alone for a runner and a daemon on the plan
without optional items, with three iterations and three cycles. A daemon that loses
the race for an item gives up the rest of its listing, so a ready item may have no
handler of its own; it takes the third iteration for that to happen. Two cycles would
confirm the stronger claim that a handler is always on its way, which is false; what
holds is that an item is then under way whose result lists again.

`RunnerSuccessIsReviewed`, `BlockerIsShown` and `RunnerEnds` are about a runner alone
(`SoleRunner`); with a second bridge or an operator they are false, and `ObjectiveRaced`
and `ObjectiveStale` (section 5) show how. `RunnerSuccessIsReviewed` has an exception,
`RepairDropped`: the deadline passed after a review that asked for changes was judged
repairable and before its repair began. `ObjectiveReviewed` shows that the code then
reports success; the property and its theorem say that there is no other way.
`RunnerEnds` excludes faults and the deadline: after a dropped reconciliation the status
may stay `executing` with nothing queued, and the runner polls until its own timeout.

`PlannerMixed` is `PlannerCore`'s safety with a fourth subtask for the planner agent, whose
plan always fails; it is a configuration of its own because no planner of such a plan
reaches its end.

Symmetry is used where processes are interchangeable, and never in the runs
that check liveness.

`TypeOK` of each module is stated beside its properties and proved (section 4).

### Fairness

- `RemoteTasks`: a request and a worker go on (weak fairness of their steps), a
  stopped process is started again (systemd). `DequeueTask` is strongly fair for
  every task: queues are polled in a fixed order (planner, researcher, coder,
  reviewer) and popped by priority and age, so an entry is reached as long as
  those ahead of it are not renewed for ever. Where that does not hold,
  starvation of low priorities is a fact of the code that this run assumes away.
- `BridgeLease`: commands end, calls are answered, the supervisor restarts the
  daemon, time passes.
- `PlannerTree`: the planner, the runners of subtasks and started reconcilers go
  on.
- `ObjectiveRun`: handlers and bridges go on, and the runner's loop does; nothing is
  assumed of operators, faults or the deadline.
- `SecretaryTelegram`: worker, scheduler and emissions go on (goroutines of a running
  process), Telegram repeats every update that is not acknowledged, and timers run
  out. Crashes are bounded and the process is started again by its supervisor.
- Operators are never assumed to act.

## 4. Proofs

Each of the eight modules of processes and requests has its `TypeOK` and its safety
properties proved in the module named after it, and those of planning and scope are
in `ObjectiveRunProofs`: 43 theorems, 33 of them about properties that a run checks. They hold for every value of the constants that
satisfies the named assumptions: any finite sets of tasks and requests, any set of
workers, bridges, daemons or conversations, any plan, any limit of a store, any
number of iterations and faults, any lease time above the heartbeat time. The
largest inductive invariant, `SoleInv` of `ObjectiveRunProofs`, was first checked by TLC
with every initial plan, three iterations, four cycles, a fault and a deadline.

- `RemoteTasksProofs`. `TypeOK` is inductive. `SingleToken` is inductive together
  with it: the four tokens of a task (Redis entry, request about to enqueue,
  worker that holds it, pending approval) are created only by a step that
  destroys another or by the insert, and a row that is absent has none; that is
  why the invariant speaks of all four although `NoDoubleExecution`, which
  follows, speaks of workers only. `QueuedNotLost` needs no strengthening beyond
  types. `OvershootIsBounded` counts queue entries and requests in flight; it
  needs `OnlyCreated` (tasks that are neither gated nor launched are enqueued by
  creation only). `RowsImplementTaskLife` maps every step to a `TaskLife` step or a
  stutter.
- `BridgeLeaseProofs`. `HeldLeaseIsLive` relates the lease to the time to the next
  heartbeat and is inductive with the types; `RequeueSparesHolder` follows because
  an expired lease is then not that of a live holder. `FirstResultStands`,
  `ParkedHasApproval` and the refinement follow from the types.
- `PlannerTreeProofs`. `FailureHasCause` is not inductive: a reconciler that has read
  the rows holds a verdict. `Caused` covers those reconcilers, and `Ahead` (rows the
  planner has not come to do not exist) shows that creating a row never erases a
  failed one. `RootStaysFinal` is the action property that the first verdict stands.

- `SecretaryTelegramProofs`. `AcknowledgedIsHandled` needs `QueueInv`: an update with a
  completion marker was handled, and so was the one the worker is about to complete
  or remove. `NoNeedlessReplay` needs `ReplayInv`, which says for each transport who
  may still be served: with the webhook an update that was served is at work,
  completed, or no longer repeated by Telegram; with polling the batch lies above the
  stored offset and in order. `TextAnswerIsLast` needs `TrackerInv`: no tracker
  outlives its message, and that of a text message is closed and drained before the
  answer is sent. `TimersRingOnce` needs `TimerInv`: a timer that may still be rung
  has no unrecorded ring but the one about to be recorded, and every other is paid
  for by a fault.
- `SecretaryMemoryProofs`. `LogInv` says that numbers are bounded, so that a last
  record exists (`LastRecord`, from the well-foundedness of the naturals).
  `CacheIsDurable` needs `HistoryInv`: a file holds what fits, so that bounding it
  again on loading drops only what expired; this is where the limits in turns and in
  characters matter. `ForgottenIsNeverUsed` follows from `ForgetInv`, that everything
  kept anywhere is newer than the last successful `/forget`; `EndingIsTruthful` from
  `EndInv`, where a reply stands and what it has archived; `ReviewDecides` from
  `ReviewInv`: an item is reviewed once, only a review makes a record more than a
  candidate, and it stays the item's last record whatever retention drops.
  The records of an item are of one day, so that a `/forget` which fails half way takes
  them together. `SourceWishesAreKept` is proved from the definition of `CapabilitiesFor`.
- `InitiativeRunProofs`. `RefInv` says that a request under way names an artifact that
  exists. `ActiveWasReviewed` and `DecisionNamesGenerated` need `HistInv`: a request
  that is past its look-up holds an artifact whose generation the history already
  has, and since the history only grows it stays so whatever the others write.
  `LaunchStaysInScope` needs `ScopeInv`: between the update of the mode and the launch
  the task about to be queued has the target of the policy. `ExecutionHasBacklog`
  needs `BacklogInv`: a plan has tasks, tasks are never deleted, and whoever is about
  to move the initiative to execution has seen one.
- `ObjectiveRunProofs`. `DependenciesFirst` is inductive with `CtlInv` (where a handler
  stands and where the parts it shares with others return to) and `DepInv`: what a
  handler has listed stays ready, because completed rows stay completed, so a listing
  that others have changed since does no harm. Theorems about a runner that works
  alone rest on `SoleInv`: until a request of its own fails, nobody else acts and every
  cycle is the next iteration (`CycleInv`); the runner stands in the last cycle, whose
  items run in contract order (`PlaceInv`); the last review accepted the work, or is
  about to be repaired, or was dropped by the deadline (`ReviewInv`); the status says
  what the rows say or, after a dropped reconciliation, what they said
  (`VerdictInv`), and the snapshot of the item that failed is the one shown
  (`ShownInv`). `RunnerSuccessIsReviewed` and `BlockerIsShown` follow.
  The three theorems about what an objective works on need no processes.
  `ReviewSeesEverything` follows from `PlanOrder`, a fact about the dependencies of any
  plan, and `PlanInv`, that the contract is the one that was generated.
  `RepairFollowsEvidence` needs `ScopeInv`: the findings of a review agree with the diff
  it saw (`Agrees`), so that the files a replan excludes are exactly those the review has
  ruled out (`ExcludedIsRuledOut`), and what the research recommends keeps the diff and
  drops them unless nothing else is left (`ResearchInv`). `PrecedentsAreBest` is about
  the result of a loop over a sorted sequence. `SortedIs` shows that counting
  predecessors puts a finite set in order, `BetterIsOrder` that the comparison of chunks
  is one, and `TakenOf` is the invariant of the loop: whatever has been visited is a
  hit or accounted for by hits that are no worse, and it stays so when a hit is added,
  because none is added to a full list or a full class.
- `GatewayProofs`. `CompletedCanBeContinued` needs `StoredInv`: what has been stored are
  the completed responses, each once, because a response is stored before its end is
  sent. `get` drops only what expired; when `set` evicts, the victim is the entry
  stored first, and the `MaxEntries - 1` others with the new one are later than it.
  `RefusedOnlyIfDone` and `NoCommandTwice` rest on `TalkInv`: what a conversation shows to
  be done is what was done in it, through storing, continuing, compacting and the
  second question of a repair, as long as `kept` holds. `Shown` is what the parser of the
  results sees; every way to an answer (native, JSON, URL, fenced, immediate, streamed)
  is shown to issue nothing equivalent to it and to refuse nothing else. A native
  answer may hold any number of calls: `TakenOf` is the invariant of that loop.

Loops are written as functions of the number of rounds. The induction theorems of the
library cannot be instantiated by the provers, so their invariants are proved by
contradiction: of the rounds after which the invariant fails there is a least one
(`LeastPlace`, `LeastNumber`, from the well-foundedness of the naturals), it is not
round 0, and the round before it satisfies the invariant. `TakenExists` shows in the same
way that the function exists.

The assumptions are the `ASSUME`s of the modules, which TLC evaluates in the runs. Those
the later theorems use say what a request and an answer of the gateway consist of
(`AskAssumption`, `AnswerAssumption`), that files are numbers (`WorkspaceAssumption`) and
that retrieved chunks have integer scores and references in a total order
(`ContextAssumption`).

Only model-checked:

- liveness (`QueuedGetsClaimed`, `LocalTaskFinishes`, `RootSettles`, `RunnerEnds`,
  `SentIsAnswered`, `PolledTimerRings`), which is outside the prover's reach;
- `ReadyItemGoesOn`: an item may be left to others in many ways (a listing that is
  given up, a repair that ends half way), and who lists it then depends on the whole
  history of listings; no inductive invariant for any number of daemons and cycles is
  known. The claim is for the bounds of `ObjectiveCore` and `ObjectiveReady`. It counts
  every handler in a repair as one that will list again, whichever iteration it repairs:
  from four cycles on, the last item under way may be one of an earlier iteration, and
  only the end of its repair lists the item of the later one;
- the counterexamples of section 5.

## 5. Disagreements between the code and its documentation

`RemoteRecovered` is a run and a finding. The following configurations are kept
beside it; each checks one formula that a document, a comment or a message of the
code states, and TLC finds a counterexample in the same models.

| Configuration (module) | Formula | What is said | What the code does |
|---|---|---|---|
| `RemoteAskOnce` (`MCRemoteTasks`) | `ApprovalRequestedOnce` | `docs/orchestrator-go-runtime.md:79` "request approval once, pause in `waiting_approval`, and resume after approval" | a grant deletes `approval_requested`, the only thing the coder looks at: it asks again (`postgres.go:788`) |
| `RemoteGate` (`MCRemoteTasks`) | `ApprovedBeforeWork` | `docs/security/approval-model.md:7` "require explicit human approval before execution" | a rejected task of an initiative keeps `approval_requested`; launched again, it runs (`runner.go:205`) |
| `BridgeInterrupted` (`MCBridgeLease`) | `OnlyInterruptedRequeued` | `docs/architecture/master-plan.md:252` "make bridge claims lease-based so interrupted work can be safely resumed or re-queued" | the lease is written after the claim's commit; in between another bridge takes the task (`postgres.go:596`) |
| `PlannerEarly` (`MCPlannerTree`) | `RootWaitsForAll` | `docs/flows/multi-agent-collaboration.md:7` "tracks progress until all subtasks complete or a failure triggers escalation" | the root is completed when the rows created so far are (`worker.go:477`) |
| `ObjectiveReviewed` (`MCObjectiveRun`) | `CompletedIsReviewed` | `initiative/objectives.go:389`, a completion criterion of every contract: "Review decision is approved." | a runner alone reports success although the review asked for changes: the row is completed in expectation of a repair (`bridges.go:180`), the deadline passes, `startObjectiveRepairCycle` makes the same check again and returns (`httpapi/objectives.go:883`, `:994`), and every row is finished |
| `ObjectiveRaced` (`MCObjectiveRun`) | `CompletedIsReviewed` | the same | without a deadline, while another bridge repairs: the old items are finished or superseded and the new ones not yet created when a reconciliation stores completed |
| `ObjectiveStale` (`MCObjectiveRun`) | `FinishedIsReconciled` | `docs/architecture/master-plan.md:119` "initiative reconciliation to execution completion" | a handler that listed the rows before the last result stores `executing` after it (`store/initiatives.go:343`); nothing reconciles again, and the runner polls until its timeout |
| `ObjectiveBudget` (`MCObjectiveRun`) | `OverrunBlocks` | `docs/architecture/autonomous-objective-runtime-plan.md:48` "those overruns now stop the initiative with explicit `time_budget_exhausted` status snapshots" | the item is in `created`, which cannot fail: the handler ends with an error before the snapshot (`httpapi/objectives.go:737`) |
| `ObjectiveResearch` (`MCObjectivePlanning`) | `ResearchContradictionIsReal` | `bridge/executor.go:795` "The observed diff contradicts the research-guided patch intent." | the review compares with its own contract's paths, not with the scope the edit was queued with |
| `InitiativeGate` (`MCInitiativeRun`) | `LaunchedFromApprovedPlan` | `docs/tui.md:10` "launching selective execution from an approved plan" | launch has no look at reviews |
| `InitiativeMaterialized` (`MCInitiativeRun`) | `ApprovedIsMaterialized` | `httpapi/initiatives.go` "plan cannot be approved before the backlog is materialized" | `plan_review` is set before the last task is created, and one task is enough |
| `SecretaryVoice` (`MCSecretaryTelegram`) | `TextSurvivesVoiceSwitch` | `docs/superpowers/specs/2026-10-12-telegram-voice-mvp-design.md:47` "A single configuration switch must disable voice handling while preserving text Telegram behavior." | a refused voice note is an error the webhook worker retries for ever, with all later messages behind it |
| `SecretaryTimers` (`MCSecretaryTelegram`) | `TimerRings` | `docs/secretary-operation.md:228` "it sends one Telegram message at expiry" | only the polling loop starts the scheduler (`telegram.go:310`) |
| `SecretaryHistory` (`MCSecretaryMemory`) | `HistoryIsRecent` | `docs/secretary-operation.md:259` "keeps up to ten exchanges and expires turns after two hours" | the cached history is bounded when it is loaded and written, not when it is used (`service.go:489`) |

Seen while reading, without a configuration of their own:

- `createTask` compensates a failed enqueue with the context of the request that
  may be what failed it (`handlers.go:587`); the model's `HandlerAborts` leaves the
  task queued in Postgres only, against `docs/orchestrator-go-runtime.md:66`.
- `timeout_at` of approvals is never read (`postgres.go:856`), against
  `docs/security/approval-model.md:58`; `retry_count` is never compared with
  `max_retries` (`postgres.go:544`).
- A remote planner subtask is enqueued before its row is queued (`worker.go:388`);
  with a second orchestrator process its entry can be dropped. A subtask for the
  planner agent is completed from `created`, which the table refuses
  (`worker.go:365`): the plan fails.
- `cancelTask` reconciles neither the root nor the initiative (`handlers.go:680`).
- Objectives: a handler that fails between `CompleteTask` and
  `queueReadyObjectiveTasks` leaves an objective nobody continues (hence
  `faults = 0` in `ReadyItemGoesOn`); a second handler that queues an item already
  queued ends with an error and gives up the rest of its listing; the snapshot of a
  baseline validation or of a bootstrap outranks that of the item that failed after
  it (hence the exception in `BlockerIsShown`); `reconcileRootTask` drops the error of
  the reconciliation and the request is answered 202 (`handlers.go:2712`); a failed validation names no changed files, so the repair falls
  back to the contract's shortlist; new untracked files alone make the review
  report a missing diff; findings of an analysis may bring excluded paths back.
- Initiatives: a slow generation overwrites phase and status after an approval;
  reconciliation sets the phase to execution whatever it was; tasks of a rejected
  plan stay linked and are launched with the next one; a launch that fails in the
  middle is not reconciled; the bot keeps its update offset in memory only, so a
  restart repeats commands (`telegram/bot.go:82`).
- Gateway: a response that mixes a new call with a repeated one stores no call, so
  the success of the new one is not recognised later (`server.go:1151`; this is what
  `kept` excludes from `NoCommandTwice`); the same base name in another directory
  counts as the same file (`responses.go:613`); native tool calls in a stream are
  ignored; an error while reading the stream ends it without `response.failed`.
- Secretary: a retry after a failed send repeats commands that are not idempotent;
  the polling loop stops for good when the offset cannot be written or `getMe`
  fails; a voice answer may be followed by a late progress message; a timer
  cancelled after the listing of the scheduler still rings; `/feedback` after a
  read command belongs to an older answer; with a single connector an excluded
  source is read all the same; a `/forget` that fails leaves caches that write the
  turns back.

## 6. Not modelled, and what is left

- Authentication and brute-force tracking, the gateway's rate limiter, the lab
  watchdog: sequential counters under one mutex or in one script; a unit test
  reaches their states.
- Capability broker, research, planner prompts, code analysis, browser verification,
  connectors, web and speech of the secretary, telemetry: calls to services outside
  with no state others share. What they answer is a free choice where a model uses
  it.
- Terminal client, Ansible roles and playbooks: presentation and deployment.
- Listing, archive, evaluation and cleanup endpoints: read-only, or rows nothing else
  reads.

Left for later: an inductive invariant for `ReadyItemGoesOn`, or a run of it with four
cycles and three bridges; composition of `PlannerTree` with the detailed claims of
`RemoteTasks` and `BridgeLease`.
