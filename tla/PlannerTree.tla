---------------------------- MODULE PlannerTree ----------------------------
(***************************************************************************)
(* A planner task and the subtasks it creates: handlePlannerSuccess and    *)
(* reconcileRootTask of worker/worker.go, and the copy of the latter in    *)
(* httpapi/handlers.go.                                                    *)
(*                                                                         *)
(* The planner creates its subtasks one at a time while other workers,     *)
(* bridges and operators already act on the first ones; each of them       *)
(* reconciles the root after it has changed a subtask, by reading all rows *)
(* of the root and then, in another transaction, finishing the root.  How  *)
(* a subtask is claimed and approved is reduced to one step each: see      *)
(* RemoteTasks and BridgeLease for the steps inside.                       *)
(***************************************************************************)
EXTENDS TaskStates, Naturals

CONSTANTS
  N,            \* number of subtasks in the plan
  Kind,         \* what handlePlannerSuccess does with each of them
  Reconcilers,  \* workers, bridge requests and operator requests
  MaxOps,       \* bound on operator requests
  MaxFaults     \* bound on process deaths and restarts

Kids == 1..N
Kinds == {"remote", "local", "approval", "planner"}

ASSUME PlanAssumption == N \in Nat \ {0} /\ Kind \in [Kids -> Kinds]
ASSUME TreeBounds == MaxOps \in Nat /\ MaxFaults \in Nat

VARIABLES
  root,     \* state of the planner task
  message,  \* its error_message: "none", "subtasks" or "planner"
  kid,      \* states of the subtasks, "absent" before CreateTask
  redis,    \* subtasks in a Redis queue
  next,     \* index of the subtask handlePlannerSuccess is at
  ppc,      \* where it stands
  rpc,      \* per reconciler: where reconcileRootTask stands
  ops, faults

vars == <<root, message, kid, redis, next, ppc, rpc, ops, faults>>

PlannerPC   == {"create", "place", "queue", "store", "fail", "done", "dead"}
ReconcilePC == {"idle", "read", "failed", "completed"}

Init ==
  /\ root = "in_progress" /\ message = "none"
  /\ kid = [k \in Kids |-> "absent"]
  /\ redis = {}
  /\ next = 1 /\ ppc = "create"
  /\ rpc = [r \in Reconcilers |-> "idle"]
  /\ ops = 0 /\ faults = 0

SetKid(k, s) == IsValidTransition(kid[k], s) /\ kid' = [kid EXCEPT ![k] = s]

(***************************************************************************)
(* handlePlannerSuccess: for each subtask CreateTask, then one of          *)
(*   - planner agent: CompleteTask, which a created task does not allow;   *)
(*   - requires_approval: RequestApproval;                                 *)
(*   - local: UpdateTaskState(queued);                                     *)
(*   - remote: EnqueueTask first, UpdateTaskState(queued) after it.        *)
(* Any error ends the loop and the planner task is failed.                 *)
(***************************************************************************)
CreateKid ==
  /\ ppc = "create"
  /\ kid' = [kid EXCEPT ![next] = "created"]
  /\ ppc' = "place"
  /\ UNCHANGED <<root, message, redis, next, rpc, ops, faults>>

Advance == /\ next' = next + 1
           /\ ppc' = IF next = N THEN "store" ELSE "create"

\* SetKid for the subtask at hand; an invalid transition is an error.
PlaceAs(s) ==
  IF IsValidTransition(kid[next], s)
    THEN SetKid(next, s) /\ Advance
    ELSE ppc' = "fail" /\ UNCHANGED <<kid, next>>

PlaceKid ==
  /\ ppc = "place"
  /\ Kind[next] # "remote"
  /\ PlaceAs(CASE Kind[next] = "planner"  -> "completed"
               [] Kind[next] = "approval" -> "waiting_approval"
               [] Kind[next] = "local"    -> "queued")
  /\ UNCHANGED <<root, message, redis, rpc, ops, faults>>

EnqueueKid ==
  /\ ppc = "place"
  /\ Kind[next] = "remote"
  /\ redis' = redis \union {next}
  /\ ppc' = "queue"
  /\ UNCHANGED <<root, message, kid, next, rpc, ops, faults>>

QueueKid ==
  /\ ppc = "queue"
  /\ PlaceAs("queued")
  /\ UNCHANGED <<root, message, redis, rpc, ops, faults>>

\* UpdateTaskResults with the ids of the subtasks; reconcileRootTask on the
\* planner task, which has no parent, returns at once.
StoreResults ==
  /\ ppc = "store"
  /\ ppc' = "done"
  /\ UNCHANGED <<root, message, kid, redis, next, rpc, ops, faults>>

\* A Redis or Postgres error: FailTask on a created subtask is refused too.
PlannerError ==
  /\ ppc \in {"create", "place", "queue", "store"}
  /\ faults < MaxFaults
  /\ faults' = faults + 1
  /\ ppc' = "fail"
  /\ UNCHANGED <<root, message, kid, redis, next, rpc, ops>>

\* executeTask fails the planner task with the error; an invalid transition is
\* logged.
FailPlanner ==
  /\ ppc = "fail"
  /\ ppc' = "done"
  /\ IF IsValidTransition(root, "failed")
       THEN root' = "failed" /\ message' = "planner"
       ELSE UNCHANGED <<root, message>>
  /\ UNCHANGED <<kid, redis, next, rpc, ops, faults>>

PlannerDies ==
  /\ ppc \notin {"done", "dead"}
  /\ faults < MaxFaults
  /\ faults' = faults + 1
  /\ ppc' = "dead"
  /\ UNCHANGED <<root, message, kid, redis, next, rpc, ops>>

(***************************************************************************)
(* Subtasks are run by others.                                             *)
(***************************************************************************)

\* tryClaimTask: the popped entry is gone; a subtask that is not queued (yet or
\* any more) is dropped.
ClaimRemote(k) ==
  /\ k \in redis
  /\ redis' = redis \ {k}
  /\ kid' = [kid EXCEPT ![k] = IF @ = "queued" THEN "in_progress" ELSE @]
  /\ UNCHANGED <<root, message, next, ppc, rpc, ops, faults>>

ClaimLocal(k) ==
  /\ Kind[k] = "local" /\ kid[k] = "queued"
  /\ kid' = [kid EXCEPT ![k] = "in_progress"]
  /\ UNCHANGED <<root, message, redis, next, ppc, rpc, ops, faults>>

Reconciles(r) == rpc[r] = "idle" /\ rpc' = [rpc EXCEPT ![r] = "read"]

\* Mutant: the rows are not reconciled after a failed subtask.
FinishKidQuietly(r, k, s) ==
  /\ kid[k] = "in_progress" /\ s \in {"completed", "failed"}
  /\ SetKid(k, s)
  /\ IF s = "completed" THEN Reconciles(r) ELSE UNCHANGED rpc
  /\ UNCHANGED <<root, message, redis, next, ppc, ops, faults>>

FinishKid(r, k, s) ==
  /\ kid[k] = "in_progress" /\ s \in {"completed", "failed"}
  /\ SetKid(k, s)
  /\ Reconciles(r)
  /\ UNCHANGED <<root, message, redis, next, ppc, ops, faults>>

\* The result of a subtask that an operator or a recovery has moved on while a
\* worker was at it: CompleteTask or FailTask refuses it, which is logged, and
\* the root is reconciled all the same.
RefuseResult(r, k, s) ==
  /\ Kind[k] # "local" /\ ops + faults > 0
  /\ kid[k] \notin {"absent", "created"} /\ s \in {"completed", "failed"}
  /\ ~ IsValidTransition(kid[k], s)
  /\ Reconciles(r)
  /\ UNCHANGED <<root, message, kid, redis, next, ppc, ops, faults>>

\* ResolveApproval, the enqueue of an approved task, and reconcileRootTask.
ResolveApproval(r, k, s) ==
  /\ Kind[k] = "approval" /\ kid[k] = "waiting_approval"
  /\ s \in {"queued", "cancelled"}
  /\ SetKid(k, s)
  /\ redis' = IF s = "queued" THEN redis \union {k} ELSE redis
  /\ Reconciles(r)
  /\ UNCHANGED <<root, message, next, ppc, ops, faults>>

\* POST /tasks/{id}/cancel on a subtask: no reconcileRootTask.
CancelKid(k) ==
  /\ ops < MaxOps /\ ops' = ops + 1
  /\ kid[k] \in Cancellable
  /\ SetKid(k, "cancelled")
  /\ UNCHANGED <<root, message, redis, next, ppc, rpc, faults>>

\* PATCH /tasks/{id} on a subtask reconciles; on the root it returns at once.
UpdateKid(r, k, s) ==
  /\ ops < MaxOps /\ ops' = ops + 1
  /\ SetKid(k, s)
  /\ Reconciles(r)
  /\ UNCHANGED <<root, message, redis, next, ppc, faults>>

UpdateRoot(s) ==
  /\ ops < MaxOps /\ ops' = ops + 1
  /\ IsValidTransition(root, s)
  /\ root' = s
  /\ UNCHANGED <<message, kid, redis, next, ppc, rpc, faults>>

\* A worker starts: stale active rows, the waiting root among them, are queued.
Recover(S, withRoot) ==
  /\ faults < MaxFaults /\ faults' = faults + 1
  /\ kid' = [k \in Kids |-> IF k \in S /\ Kind[k] # "local" /\ kid[k] \in Active
                              THEN "queued" ELSE kid[k]]
  /\ root' = IF withRoot /\ root \in Active THEN "queued" ELSE root
  /\ UNCHANGED <<message, redis, next, ppc, rpc, ops>>

(***************************************************************************)
(* reconcileRootTask: ListByRoot sees the rows that exist, then FailTask   *)
(* or CompleteTask on the root, whose error is ignored.                    *)
(***************************************************************************)
Created == {k \in Kids : kid[k] # "absent"}

\* Mutant: a subtask that waits for an operator counts as failed.
HastyVerdict ==
  CASE \E k \in Created : kid[k] \in {"failed", "cancelled", "waiting_approval"} ->
         IF root \in Terminal THEN "idle" ELSE "failed"
    [] (\A k \in Created : kid[k] = "completed") /\ root # "completed" -> "completed"
    [] OTHER -> "idle"

Verdict ==
  CASE \E k \in Created : kid[k] \in {"failed", "cancelled"} ->
         IF root \in Terminal THEN "idle" ELSE "failed"
    [] (\A k \in Created : kid[k] = "completed") /\ root # "completed" -> "completed"
    [] OTHER -> "idle"

ReconcileRead(r) ==
  /\ rpc[r] = "read"
  /\ rpc' = [rpc EXCEPT ![r] = Verdict]
  /\ UNCHANGED <<root, message, kid, redis, next, ppc, ops, faults>>

ReconcileWrite(r) ==
  /\ rpc[r] \in {"failed", "completed"}
  /\ IF IsValidTransition(root, rpc[r])
       THEN /\ root' = rpc[r]
            /\ message' = IF rpc[r] = "failed" THEN "subtasks" ELSE "none"
       ELSE UNCHANGED <<root, message>>
  /\ rpc' = [rpc EXCEPT ![r] = "idle"]
  /\ UNCHANGED <<kid, redis, next, ppc, ops, faults>>

\* The process dies, or a read fails: reconcileRootTask returns without a word.
ReconcileDies(r) ==
  /\ rpc[r] # "idle"
  /\ faults < MaxFaults /\ faults' = faults + 1
  /\ rpc' = [rpc EXCEPT ![r] = "idle"]
  /\ UNCHANGED <<root, message, kid, redis, next, ppc, ops>>

PlannerStep == \/ CreateKid \/ PlaceKid \/ EnqueueKid \/ QueueKid
               \/ StoreResults \/ FailPlanner
Reconcile(r) == ReconcileRead(r) \/ ReconcileWrite(r)
RunKid(k) == \/ ClaimRemote(k) \/ ClaimLocal(k)
             \/ \E r \in Reconcilers, s \in {"completed", "failed"} : FinishKid(r, k, s)

Next ==
  \/ PlannerStep \/ PlannerError \/ PlannerDies
  \/ \E k \in Kids : \/ RunKid(k) \/ CancelKid(k)
                     \/ \E r \in Reconcilers, s \in {"queued", "cancelled"} :
                          ResolveApproval(r, k, s)
                     \/ \E r \in Reconcilers, s \in {"completed", "failed"} : RefuseResult(r, k, s)
                     \/ \E r \in Reconcilers, s \in TaskState : UpdateKid(r, k, s)
  \/ \E s \in TaskState : UpdateRoot(s)
  \/ \E S \in SUBSET Kids, withRoot \in BOOLEAN : Recover(S, withRoot)
  \/ \E r \in Reconcilers : Reconcile(r) \/ ReconcileDies(r)

Spec == Init /\ [][Next]_vars

\* Subtasks are run and started calls go on; nothing is assumed of operators.
Fairness ==
  /\ WF_vars(PlannerStep)
  /\ \A k \in Kids : WF_vars(RunKid(k))
  /\ \A r \in Reconcilers : WF_vars(Reconcile(r))

FairSpec == Spec /\ Fairness

(***************************************************************************)
(* Properties.                                                             *)
(***************************************************************************)

\* Types of the rows and of the program counters.
TypeOK ==
  /\ root \in TaskState /\ message \in {"none", "subtasks", "planner"}
  /\ kid \in [Kids -> TaskState \union {"absent"}]
  /\ redis \subseteq Kids
  /\ next \in 1..(N + 1)
  /\ ppc \in PlannerPC
  /\ (ppc \in {"create", "place", "queue"} => next \in Kids)
  /\ rpc \in [Reconcilers -> ReconcilePC]
  /\ ops \in 0..MaxOps /\ faults \in 0..MaxFaults

\* The error message "One or more subtasks failed" is true of every root that
\* carries it, although the rows were read in an earlier transaction.
FailureHasCause ==
  message = "subtasks" => \E k \in Kids : kid[k] \in {"failed", "cancelled"}

\* The first verdict stands: reconcilers that still hold an older snapshot, the
\* failing planner and recovery leave a finished root alone.
RootIsFinal == [][(root \in Terminal) => (root' = root /\ message' = message)]_vars

\* When no fault or operator interferes, the last subtask to finish closes the
\* root: of several reconcilers at once, one has read the final rows.
RootSettles ==
  (ppc = "done" /\ \A k \in Kids : kid[k] \in {"completed", "failed"})
    ~> root \in Terminal \/ faults > 0 \/ ops > 0

(***************************************************************************)
(* docs/flows/multi-agent-collaboration.md:7: the planner "tracks progress *)
(* until all subtasks complete or a failure triggers escalation".          *)
(***************************************************************************)

\* A completed root means that every subtask of the plan is completed.
RootWaitsForAll == root = "completed" => \A k \in Kids : kid[k] = "completed"

=============================================================================
