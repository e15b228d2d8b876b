---------------------------- MODULE RemoteTasks ----------------------------
(***************************************************************************)
(* The life of remote tasks: the Postgres rows (store/postgres.go), the    *)
(* Redis queue (store/redis.go), the HTTP handlers that create, patch,     *)
(* cancel, approve and launch tasks (httpapi/handlers.go,                  *)
(* httpapi/initiatives.go) and the embedded workers that claim and run     *)
(* them (worker/worker.go).                                                *)
(*                                                                         *)
(* A Postgres transaction or a Redis command is one step.  A handler or a  *)
(* worker that issues several of them is a process with a program counter, *)
(* and may stop between any two.  A member of Tasks stands for one request *)
(* (one Idempotency-Key) and for the row it creates.  Tasks here have no   *)
(* children, so reconcileRootTask returns at once (see PlannerTree).       *)
(***************************************************************************)
EXTENDS TaskStates, Naturals, FiniteSets

CONSTANTS
  Tasks,             \* requests to POST /tasks and the launchable tasks
  Gated,             \* coder tasks whose metadata has requires_approval
  Launchable,        \* tasks of an initiative: stored as created, launched later
  Workers,           \* embedded workers, one for each orchestrator process
  Handlers,          \* concurrent HTTP requests
  AgentTypes, Agent, \* the assigned_agent of each task: its Redis queue
  QueueMaxGlobal, QueueMaxPerAgent,
  NoTask,
  MaxCrashes,        \* bound on worker crashes
  MaxPending         \* bound on the pending approvals of one task

ASSUME TasksAssumption == /\ Gated \subseteq Tasks
                          /\ Launchable \subseteq Tasks
                          /\ NoTask \notin Tasks
                          /\ Agent \in [Tasks -> AgentTypes]
ASSUME FiniteAssumption == IsFiniteSet(Tasks) /\ IsFiniteSet(Handlers)
ASSUME BoundsAssumption == /\ QueueMaxGlobal \in Nat \ {0}
                           /\ QueueMaxPerAgent \in Nat \ {0}
                           /\ MaxCrashes \in Nat
                           /\ MaxPending \in Nat \ {0}

VARIABLES
  state,      \* tasks.state, "absent" before the row is inserted
  requested,  \* tasks whose metadata has approval_requested
  granted,    \* tasks whose metadata has approval_granted
  pending,    \* number of approvals of the task with status pending
  redis,      \* task ids in the Redis queues
  wpc, wtask, \* per worker: where tryClaimTask/executeTask stands, its task
  hpc, htask, \* per handler: where it stands, the task it is about
  lost,       \* history: why a queued task has nobody who will run it
  crashes     \* number of worker crashes so far

store   == <<state, requested, granted, pending>>
workers == <<wpc, wtask>>
handler == <<hpc, htask>>
vars    == <<store, redis, workers, handler, lost, crashes>>

WorkerPC  == {"down", "idle", "popped", "assigned", "claimed", "asking", "working"}
HandlerPC == {"idle", "agent_depth", "insert", "created", "approved", "launched"}
Busy      == WorkerPC \ {"down", "idle"}
Enqueuing == {"created", "approved", "launched"}
Causes    == Enqueuing \union {"no", "worker", "recovery", "patch"}

(***************************************************************************)
(* What will make a worker look at a task.                                 *)
(***************************************************************************)
Carries(w, t)  == wpc[w] \in Busy /\ wtask[w] = t
Enqueues(h, t) == hpc[h] \in Enqueuing /\ htask[h] = t
Runnable(t)    == \/ t \in redis
                  \/ \E h \in Handlers : Enqueues(h, t)
                  \/ \E w \in Workers : wpc[w] = "popped" /\ wtask[w] = t
Executing(w, t) == wpc[w] \in {"claimed", "asking", "working"} /\ wtask[w] = t

Plain == Tasks \ (Gated \union Launchable)

Init ==
  /\ state = [t \in Tasks |-> IF t \in Launchable THEN "created" ELSE "absent"]
  /\ requested = {} /\ granted = {}
  /\ pending = [t \in Tasks |-> 0]
  /\ redis = {}
  /\ wpc = [w \in Workers |-> "down"] /\ wtask = [w \in Workers |-> NoTask]
  /\ hpc = [h \in Handlers |-> "idle"] /\ htask = [h \in Handlers |-> NoTask]
  /\ lost = [t \in Tasks |-> "no"]
  /\ crashes = 0

(***************************************************************************)
(* Row updates.                                                            *)
(***************************************************************************)

\* UpdateTaskState, finalizeTask: one transaction that locks the row, checks
\* the transition and writes the new state.
UpdateTaskState(t, s) ==
  /\ IsValidTransition(state[t], s)
  /\ state' = [state EXCEPT ![t] = s]
  /\ lost' = [lost EXCEPT ![t] = "no"]

\* Mutant: the state is written without the transition check.
TryUpdateUnchecked(t, s) ==
  /\ state' = [state EXCEPT ![t] = s]
  /\ lost' = [lost EXCEPT ![t] = "no"]

\* The same call when it may answer invalid_transition and the caller goes on.
TryUpdateTaskState(t, s) ==
  IF IsValidTransition(state[t], s)
    THEN UpdateTaskState(t, s)
    ELSE UNCHANGED <<state, lost>>

Lose(t, cause) ==
  lost' = [lost EXCEPT ![t] = IF state[t] = "queued" THEN cause ELSE @]

QueueDepth(a) == Cardinality({t \in redis : Agent[t] = a})

HandlerAt(h, pc)      == hpc' = [hpc EXCEPT ![h] = pc] /\ UNCHANGED htask
HandlerTakes(h, pc, t) == /\ hpc' = [hpc EXCEPT ![h] = pc]
                          /\ htask' = [htask EXCEPT ![h] = t]
HandlerDone(h)        == HandlerTakes(h, "idle", NoTask)

WorkerAt(w, pc) == wpc' = [wpc EXCEPT ![w] = pc] /\ UNCHANGED wtask
WorkerTakes(w, pc, t) == /\ wpc' = [wpc EXCEPT ![w] = pc]
                         /\ wtask' = [wtask EXCEPT ![w] = t]

ReleaseTask(w) == WorkerTakes(w, "idle", NoTask)

(***************************************************************************)
(* POST /tasks: idempotency lookup, two depth reads, insert, enqueue.      *)
(***************************************************************************)

\* Mutant: no look at the queue depth.
CreateUnchecked(h, t) ==
  /\ hpc[h] = "idle"
  /\ state[t] = "absent"
  /\ HandlerTakes(h, "agent_depth", t)
  /\ UNCHANGED <<store, redis, workers, lost, crashes>>

CreateCheckGlobal(h, t) ==
  /\ hpc[h] = "idle"
  /\ state[t] = "absent"
  /\ Cardinality(redis) < QueueMaxGlobal
  /\ HandlerTakes(h, "agent_depth", t)
  /\ UNCHANGED <<store, redis, workers, lost, crashes>>

CreateCheckAgent(h) ==
  /\ hpc[h] = "agent_depth"
  /\ IF QueueDepth(Agent[htask[h]]) < QueueMaxPerAgent
       THEN HandlerAt(h, "insert")
       ELSE HandlerDone(h)                       \* 429
  /\ UNCHANGED <<store, redis, workers, lost, crashes>>

\* CreateTask with QueueOnCreate; a second request with the same key meets the
\* unique index (23505) and answers with the existing row.
CreateInsert(h) ==
  LET t == htask[h] IN
  /\ hpc[h] = "insert"
  /\ IF state[t] = "absent"
       THEN /\ state' = [state EXCEPT ![t] = "queued"]
            /\ HandlerAt(h, "created")
       ELSE /\ UNCHANGED state
            /\ HandlerDone(h)
  /\ UNCHANGED <<requested, granted, pending, redis, workers, lost, crashes>>

\* Mutant: the handler answers without ZADD.
EnqueueNothing(h) ==
  /\ hpc[h] \in Enqueuing
  /\ HandlerDone(h)
  /\ UNCHANGED <<store, redis, workers, lost, crashes>>

\* Redis.EnqueueTask, the last step of create, approve and launch.
EnqueueTask(h) ==
  /\ hpc[h] \in Enqueuing
  /\ redis' = redis \union {htask[h]}
  /\ HandlerDone(h)
  /\ UNCHANGED <<store, workers, lost, crashes>>

\* Mutant: no compensation.
EnqueueFailsSilently(h) ==
  /\ hpc[h] = "created"
  /\ HandlerDone(h)
  /\ UNCHANGED <<store, redis, workers, lost, crashes>>

\* createTask compensates a failed enqueue with CancelTask.
EnqueueFails(h) ==
  /\ hpc[h] = "created"
  /\ TryUpdateTaskState(htask[h], "cancelled")
  /\ HandlerDone(h)
  /\ UNCHANGED <<requested, granted, pending, redis, workers, crashes>>

\* The request context is cancelled (client gone, process stopped): the calls
\* that remain fail, the compensation included.  The approve and launch
\* handlers answer 503 to a failed enqueue without compensating it.
HandlerAborts(h) ==
  /\ hpc[h] # "idle"
  /\ IF hpc[h] \in Enqueuing THEN Lose(htask[h], hpc[h]) ELSE UNCHANGED lost
  /\ HandlerDone(h)
  /\ UNCHANGED <<store, redis, workers, crashes>>

(***************************************************************************)
(* PATCH /tasks/{id}, POST /tasks/{id}/cancel.  The handler reads the state *)
(* first; UpdateTaskState checks it again under the row lock, so one step  *)
(* has every effect of the two.                                            *)
(***************************************************************************)
UpdateTask(t, s) ==
  /\ UpdateTaskState(t, s)
  /\ s # "queued"
  /\ UNCHANGED <<requested, granted, pending, redis, workers, handler, crashes>>

\* PATCH to queued writes Postgres only.
UpdateTaskToQueued(t) ==
  /\ IsValidTransition(state[t], "queued")
  /\ state' = [state EXCEPT ![t] = "queued"]
  /\ lost' = [lost EXCEPT ![t] = IF Runnable(t) THEN "no" ELSE "patch"]
  /\ UNCHANGED <<requested, granted, pending, redis, workers, handler, crashes>>

CancelTask(t) ==
  /\ state[t] \in Cancellable
  /\ UpdateTaskState(t, "cancelled")
  /\ UNCHANGED <<requested, granted, pending, redis, workers, handler, crashes>>

(***************************************************************************)
(* Approvals.                                                              *)
(***************************************************************************)

\* Mutant: the approval keeps the status pending.
ApproveKeepsPending(h, t) ==
  /\ hpc[h] = "idle"
  /\ pending[t] > 0
  /\ UpdateTaskState(t, "queued")
  /\ granted' = granted \union {t}
  /\ requested' = requested \ {t}
  /\ HandlerTakes(h, "approved", t)
  /\ UNCHANGED <<pending, redis, workers, crashes>>

\* ResolveApproval(approve): status, metadata and state in one transaction.
Approve(h, t) ==
  /\ hpc[h] = "idle"
  /\ pending[t] > 0
  /\ UpdateTaskState(t, "queued")
  /\ pending' = [pending EXCEPT ![t] = @ - 1]
  /\ granted' = granted \union {t}
  /\ requested' = requested \ {t}
  /\ HandlerTakes(h, "approved", t)
  /\ UNCHANGED <<redis, workers, crashes>>

\* ResolveApproval(reject): approval_requested stays in the metadata.
Reject(t) ==
  /\ pending[t] > 0
  /\ UpdateTaskState(t, "cancelled")
  /\ pending' = [pending EXCEPT ![t] = @ - 1]
  /\ granted' = granted \ {t}
  /\ UNCHANGED <<requested, redis, workers, handler, crashes>>

(***************************************************************************)
(* launchInitiativeTasks -> QueueTaskForLaunch: leaves the transition      *)
(* table; a failed or cancelled task is queued again.                      *)
(***************************************************************************)

QueueTaskForLaunch(h, t) ==
  /\ hpc[h] = "idle"
  /\ t \in Launchable
  /\ state[t] \in LaunchableFrom
  /\ state' = [state EXCEPT ![t] = "queued"]
  /\ lost' = [lost EXCEPT ![t] = "no"]
  /\ HandlerTakes(h, "launched", t)
  /\ UNCHANGED <<requested, granted, pending, redis, workers, crashes>>

(***************************************************************************)
(* The embedded worker.                                                    *)
(***************************************************************************)

\* Mutant: recovery takes every stale row that is not queued.
StartRequeuesAll(w, S) ==
  /\ wpc[w] = "down"
  /\ S \subseteq {t \in Tasks : state[t] \notin {"absent", "created", "queued"}}
  /\ state' = [t \in Tasks |-> IF t \in S THEN "queued" ELSE state[t]]
  /\ lost' = [t \in Tasks |-> IF t \in S THEN "recovery" ELSE lost[t]]
  /\ WorkerAt(w, "idle")
  /\ UNCHANGED <<requested, granted, pending, redis, handler, crashes>>

\* Start -> recoverInterruptedTasks -> RequeueRecoverableRemoteTasks: S are the
\* active rows whose updated_at is older than the cutoff.  The ids it returns
\* are counted and logged; nothing puts them in Redis.
Start(w, S) ==
  /\ wpc[w] = "down"
  /\ S \subseteq {t \in Tasks : state[t] \in Active}
  /\ state' = [t \in Tasks |-> IF t \in S THEN "queued" ELSE state[t]]
  /\ lost' = [t \in Tasks |->
                IF t \in S THEN IF Runnable(t) THEN "no" ELSE "recovery"
                           ELSE lost[t]]
  /\ WorkerAt(w, "idle")
  /\ UNCHANGED <<requested, granted, pending, redis, handler, crashes>>

\* DequeueTask: ZPOPMIN.
DequeueTask(w, t) ==
  /\ wpc[w] = "idle"
  /\ t \in redis
  /\ redis' = redis \ {t}
  /\ WorkerTakes(w, "popped", t)
  /\ UNCHANGED <<store, handler, lost, crashes>>

\* GetTask, the state check and queued -> assigned; a task that is not queued
\* any more is dropped.
ClaimAssigned(w) ==
  /\ wpc[w] = "popped"
  /\ IF state[wtask[w]] = "queued"
       THEN UpdateTaskState(wtask[w], "assigned") /\ WorkerAt(w, "assigned")
       ELSE ReleaseTask(w) /\ UNCHANGED <<state, lost>>
  /\ UNCHANGED <<requested, granted, pending, redis, handler, crashes>>

\* assigned -> in_progress, a second transaction; then setCurrentTask and the
\* executeTask goroutine.
ClaimInProgress(w) ==
  LET t == wtask[w] IN
  /\ wpc[w] = "assigned"
  /\ TryUpdateTaskState(t, "in_progress")
  /\ IF IsValidTransition(state[t], "in_progress")
       THEN WorkerAt(w, "claimed")
       ELSE ReleaseTask(w)
  /\ UNCHANGED <<requested, granted, pending, redis, handler, crashes>>

\* executeTask reads the task; executeCoder asks for approval when
\* requires_approval is set and approval_requested is not.
ExecuteTask(w) ==
  LET t == wtask[w] IN
  /\ wpc[w] = "claimed"
  /\ WorkerAt(w, IF t \in Gated /\ t \notin requested THEN "asking" ELSE "working")
  /\ UNCHANGED <<store, redis, handler, lost, crashes>>

\* RequestApproval: the approval row, the metadata and the state at once.
Ask(t) == /\ IsValidTransition(state[t], "waiting_approval")
          /\ pending[t] < MaxPending
          /\ pending' = [pending EXCEPT ![t] = @ + 1]
          /\ requested' = requested \union {t}

RequestApproval(w) ==
  /\ wpc[w] = "asking"
  /\ Ask(wtask[w])
  /\ UpdateTaskState(wtask[w], "waiting_approval")
  /\ ReleaseTask(w)
  /\ UNCHANGED <<granted, redis, handler, crashes>>

\* Any error of RequestApproval, the read after its commit included, is followed
\* by FailTask.
ApprovalRequestFails(w) ==
  /\ wpc[w] = "asking"
  /\ Ask(wtask[w]) \/ UNCHANGED <<pending, requested>>
  /\ TryUpdateTaskState(wtask[w], "failed")
  /\ ReleaseTask(w)
  /\ UNCHANGED <<granted, redis, handler, crashes>>

\* CompleteTask or FailTask; an invalid transition is logged and ignored.
FinishTask(w, s) ==
  /\ wpc[w] = "working"
  /\ s \in {"completed", "failed"}
  /\ TryUpdateTaskState(wtask[w], s)
  /\ ReleaseTask(w)
  /\ UNCHANGED <<requested, granted, pending, redis, handler, crashes>>

\* A database error at any of these steps: logged, the worker goes on.
WorkerGivesUp(w) ==
  /\ wpc[w] \in Busy
  /\ IF wpc[w] = "popped" THEN Lose(wtask[w], "worker") ELSE UNCHANGED lost
  /\ ReleaseTask(w)
  /\ UNCHANGED <<store, redis, handler, crashes>>

Crash(w) ==
  /\ wpc[w] # "down"
  /\ crashes < MaxCrashes
  /\ crashes' = crashes + 1
  /\ IF wpc[w] = "popped" THEN Lose(wtask[w], "worker") ELSE UNCHANGED lost
  /\ WorkerTakes(w, "down", NoTask)
  /\ UNCHANGED <<store, redis, handler>>

(***************************************************************************)
(* Specification.                                                          *)
(***************************************************************************)
HandlerStep(h) ==
  \/ CreateCheckAgent(h) \/ CreateInsert(h)
  \/ EnqueueTask(h) \/ EnqueueFails(h) \/ HandlerAborts(h)

WorkerStep(w) ==
  \/ ClaimAssigned(w) \/ ClaimInProgress(w) \/ ExecuteTask(w)
  \/ RequestApproval(w) \/ ApprovalRequestFails(w) \/ WorkerGivesUp(w)
  \/ \E s \in {"completed", "failed"} : FinishTask(w, s)

Operator(t) ==
  \/ \E s \in TaskState : UpdateTask(t, s)
  \/ UpdateTaskToQueued(t) \/ CancelTask(t) \/ Reject(t)
  \/ \E h \in Handlers :
       CreateCheckGlobal(h, t) \/ Approve(h, t) \/ QueueTaskForLaunch(h, t)

Next ==
  \/ \E t \in Tasks : Operator(t)
  \/ \E h \in Handlers : HandlerStep(h)
  \/ \E w \in Workers :
       \/ WorkerStep(w) \/ Crash(w)
       \/ \E t \in Tasks : DequeueTask(w, t)
       \/ \E S \in SUBSET Tasks : Start(w, S)

Spec == Init /\ [][Next]_vars

\* A request runs to its end, a claimed task is worked on, and a stopped process
\* is restarted (systemd).  Queues are polled in a fixed order and popped by
\* priority and age: an entry is reached as long as the entries ahead of it are
\* not renewed for ever, which is the strong fairness of DequeueTask.  Nothing is
\* assumed of the operators.
Fairness ==
  /\ \A h \in Handlers : WF_vars(HandlerStep(h))
  /\ \A w \in Workers : /\ WF_vars(WorkerStep(w))
                        /\ WF_vars(\E S \in SUBSET Tasks : Start(w, S))
  /\ \A t \in Tasks : SF_vars(\E w \in Workers : DequeueTask(w, t))

FairSpec == Spec /\ Fairness

(***************************************************************************)
(* Properties.                                                             *)
(***************************************************************************)

\* Types of the rows, the queue and the program counters; a process that is
\* busy has a task.
TypeOK ==
  /\ state \in [Tasks -> TaskState \union {"absent"}]
  /\ requested \subseteq Tasks /\ granted \subseteq Tasks
  /\ pending \in [Tasks -> Nat]
  /\ redis \subseteq Tasks
  /\ wpc \in [Workers -> WorkerPC] /\ wtask \in [Workers -> Tasks \union {NoTask}]
  /\ hpc \in [Handlers -> HandlerPC] /\ htask \in [Handlers -> Tasks \union {NoTask}]
  /\ \A w \in Workers : wpc[w] \in Busy => wtask[w] \in Tasks
  /\ \A h \in Handlers : hpc[h] # "idle" => htask[h] \in Tasks
  /\ lost \in [Tasks -> Causes]
  /\ crashes \in 0..MaxCrashes

\* At most one thing can lead to the next run of t: its Redis entry, the request
\* about to enqueue it, the worker that holds it, or its one pending approval; a
\* row that does not exist has none of them.
Held(t) == \E w \in Workers : Carries(w, t)
Sent(t) == \E h \in Handlers : Enqueues(h, t)
OneToken(t) ==
  /\ \A w1, w2 \in Workers : Carries(w1, t) /\ Carries(w2, t) => w1 = w2
  /\ \A h1, h2 \in Handlers : Enqueues(h1, t) /\ Enqueues(h2, t) => h1 = h2
  /\ pending[t] \in {0, 1}
  /\ ~(Held(t) /\ Sent(t))
  /\ t \in redis => ~Held(t) /\ ~Sent(t)
  /\ pending[t] = 1 => ~Held(t) /\ ~Sent(t) /\ t \notin redis
  /\ state[t] = "absent" => pending[t] = 0 /\ ~Held(t) /\ ~Sent(t) /\ t \notin redis

\* Creation, approval, Redis, claims and crashes never duplicate the token of a
\* task.  Only tasks of initiatives, which can be launched again while an old
\* run is still going (QueueTaskForLaunch), are outside it.
SingleToken == \A t \in Tasks \ Launchable : OneToken(t)

\* No two workers execute one task, whatever restarts, patches, approvals and
\* late results do to its row (executeTask).
NoDoubleExecution ==
  \A t \in Tasks \ Launchable : \A w1, w2 \in Workers :
    Executing(w1, t) /\ Executing(w2, t) => w1 = w2

\* A task that is queued will be looked at by a worker, unless one of the
\* recorded faults took its entry: a lost request, a worker that stopped after
\* ZPOPMIN, the recovery statement or a PATCH to queued.
QueuedNotLost ==
  \A t \in Tasks : state[t] = "queued" => Runnable(t) \/ lost[t] # "no"

\* A finished task never changes state again: results that arrive after a
\* cancel are refused and recovery leaves it alone.  A task of an initiative
\* may leave failed and cancelled, never completed, and only to queued.
FinalStep(t) ==
  /\ state[t] \in Terminal /\ t \notin Launchable => state'[t] = state[t]
  /\ state[t] = "completed" => state'[t] = "completed"
  /\ state[t] \in Terminal /\ state'[t] # state[t] => state'[t] = "queued"
TerminalIsFinal == [][\A t \in Tasks : FinalStep(t)]_vars

\* The depth checks of createTask run before the insert, so concurrent requests
\* pass them together; the queue of tasks that only createTask enqueues still
\* exceeds its maximum by less than the number of concurrent requests.
InFlight == {h \in Handlers : hpc[h] \in {"agent_depth", "insert", "created"}
                                /\ htask[h] \in Plain}
QueueOvershootBounded ==
  Cardinality(redis \intersect Plain) + Cardinality(InFlight)
    <= QueueMaxGlobal - 1 + Cardinality(Handlers)

\* Every queued task that no fault has touched is claimed or otherwise leaves
\* the queue.
QueuedGetsClaimed ==
  \A t \in Tasks : (state[t] = "queued" /\ lost[t] = "no")
                      ~> (state[t] # "queued" \/ lost[t] # "no")

\* The rows behave as TaskLife promises, whatever handlers, workers and restarts
\* do to them at once.
TL == INSTANCE TaskLife
ImplementsTaskLife == TL!Spec

(***************************************************************************)
(* What the documentation says and the code does not do.                   *)
(***************************************************************************)

\* docs/local-bridge.md:638: a task requeued on startup is run again.
RecoveredTaskRuns ==
  \A t \in Tasks : (state[t] = "queued" /\ lost[t] = "recovery")
                      ~> (state[t] # "queued")

\* docs/orchestrator-go-runtime.md: approval is requested once; a task that has
\* been granted is not asked for again.
ApprovalRequestedOnce ==
  [][\A t \in Tasks : pending'[t] > pending[t] => t \notin granted]_vars

\* docs/security/approval-model.md:7: a gated task is worked on only after an
\* operator has approved it.
ApprovedBeforeWork ==
  \A w \in Workers : wpc[w] = "working" /\ wtask[w] \in Gated => wtask[w] \in granted

=============================================================================
