---------------------------- MODULE ObjectiveRun ----------------------------
(***************************************************************************)
(* An objective from its creation to the verdict of the objective runner:  *)
(* createObjective, queueReadyObjectiveTasks and startObjectiveRepairCycle *)
(* of httpapi/objectives.go, submitBridgeTaskResult of httpapi/bridges.go, *)
(* ReconcileInitiativeExecution of store/initiatives.go and Run of         *)
(* bridge/objective_runner.go.                                             *)
(*                                                                         *)
(* Every handler is a process that goes through its transactions one by    *)
(* one; what it has read stays in its own variables until it acts on it.   *)
(* Claims and leases are those of BridgeLease, reduced to one step.        *)
(***************************************************************************)
EXTENDS ObjectiveGraph, TaskStates, FiniteSets, Sequences

CONSTANTS
  Runner,         \* the process of "lab-agent objective"; it also posts the objective
  Daemons,        \* bridges of the same workspace
  Operators,      \* clients that resolve approvals
  Plans,          \* the plans of the first contract to consider
  MaxCycles,      \* bound on the cycles materialised
  MaxFaults,      \* bound on failed handlers and lost bridges
  MayExpire,      \* whether the objective has a time budget
  Deployments     \* the sets of daemons and operators to consider

Bridges == {Runner} \union Daemons
Procs   == Bridges \union Operators

ASSUME ObjectiveAssumption ==
  /\ Plans \subseteq InitialPlans
  /\ MaxIterations \in Nat \ {0} /\ MaxCycles \in Nat \ {0} /\ MaxFaults \in Nat
  /\ MayExpire \in BOOLEAN
  /\ Deployments \subseteq SUBSET (Daemons \union Operators)
  /\ Runner \notin Daemons

VARIABLES
  deployed,    \* the daemons and operators that exist besides the runner
  cyc,         \* the cycles so far: iteration and plan
  row,         \* task rows by cycle and name, "absent" before CreateTask
  superseded,  \* rows with superseded_by_repair_cycle
  approved,    \* rows with approval_granted
  accepted,    \* review rows whose decision was "approved"
  status,      \* status of the initiative
  latest,      \* the status snapshot that readers show
  expired,     \* the deadline has passed
  stopped,     \* stopObjectiveAfterTaskCompletion has run
  pc, at, todo, ret, derived,  \* per process: see below
  verdict,     \* how the runner ended
  faults

vars == <<deployed, cyc, row, superseded, approved, accepted, status, latest, expired,
          stopped, pc, at, todo, ret, derived, verdict, faults>>

Row    == (1..MaxCycles) \X Name
NoRow  == <<0, "none">>
Status == {"idea_submitted", "executing", "blocked", "completed"}

\* Where a process stands.  idle, loop and run are the client's side; the rest
\* are the transactions of a handler, in at[p]'s request:
\*   stop    stopObjectiveAfterTaskCompletion    repair  startObjectiveRepairCycle
\*   cancel  cancelSupersededObjectiveDependents create  materializeObjectiveWorkItems
\*   list, queue  queueReadyObjectiveTasks       read, write  ReconcileInitiativeExecution
\* todo[p] is what the loop in progress still has to visit, derived[p] the
\* status to write, ret[p] where to go on after the write.
PC == {"idle", "loop", "run", "stop", "repair", "cancel", "create", "list", "queue",
       "read", "write"}
Handling == PC \ {"idle", "loop", "run"}

Iter(r)     == cyc[r[1]].iter
Plan(r)     == cyc[r[1]].plan
Deps(r)     == DependsOn(Iter(r), Plan(r), r[2])
Present     == {r \in Row : row[r] # "absent"}
RowsOf(c, i, f) == {<<c, n>> : n \in Items(i, f)}

\* launch_order is the place of the item in its contract.
LaunchOrder(r) == Cardinality({n \in Items(Iter(r), Plan(r)) : Position(n) <= Position(r[2])})

\* ListInitiativeTasks: ORDER BY launch_order, created_at.
ListedBefore(r, s) ==
  IF r[1] = s[1] THEN Position(r[2]) < Position(s[2])
  ELSE \/ LaunchOrder(r) < LaunchOrder(s)
       \/ LaunchOrder(r) = LaunchOrder(s) /\ r[1] < s[1]
IsNext(r, S) == r \in S /\ \A s \in S \ {r} : ListedBefore(r, s)

Init ==
  /\ deployed \in Deployments
  /\ \E f \in Plans : cyc = <<[iter |-> 1, plan |-> f]>>
  /\ row = [r \in Row |-> "absent"]
  /\ superseded = {} /\ approved = {} /\ accepted = {}
  /\ status = "idea_submitted"
  /\ latest = [iter |-> 0, kind |-> "none", next |-> "none"]
  /\ expired = FALSE /\ stopped = FALSE
  /\ pc = [p \in Procs |-> IF p = Runner THEN "create" ELSE "idle"]
  /\ at = [p \in Procs |-> NoRow]
  /\ todo = [p \in Procs |-> IF p = Runner THEN RowsOf(1, 1, cyc[1].plan) ELSE {}]
  /\ ret = [p \in Procs |-> IF p = Runner THEN <<"idle">> ELSE <<>>]
  /\ derived = [p \in Procs |-> "executing"]
  /\ verdict = "none" /\ faults = 0

Goto(p, l) == pc' = [pc EXCEPT ![p] = l]
SetRow(r, s) == row' = [row EXCEPT ![r] = s]

\* The handler answers 500: the runner gives up, a daemon polls again.
Abort(p) ==
  /\ Goto(p, "idle")
  /\ at' = [at EXCEPT ![p] = NoRow]
  /\ todo' = [todo EXCEPT ![p] = {}]
  /\ ret' = [ret EXCEPT ![p] = <<>>]
  /\ verdict' = IF p = Runner THEN "error" ELSE verdict

(***************************************************************************)
(* materializeObjectiveWorkItems and queueReadyObjectiveTasks.             *)
(***************************************************************************)

\* CreateTask and LinkInitiativeTask of one item.  ListInitiativeTasks joins the
\* link, and a bridge claims only what QueueTaskForLaunch has queued: until its
\* link is there nothing sees a row, which counts as created from then on.
MaterializeItem(p) ==
  /\ pc[p] = "create"
  /\ \E r \in todo[p] :
       /\ IsNext(r, todo[p])
       /\ SetRow(r, "created")
       /\ todo' = [todo EXCEPT ![p] = @ \ {r}]
       /\ Goto(p, IF todo[p] = {r} THEN "list" ELSE "create")
  /\ UNCHANGED <<deployed, cyc, superseded, approved, accepted, status, latest, expired,
                 stopped, at, ret, derived, verdict, faults>>

\* byWorkItemID keeps the row listed last under an id; two rows have one id when
\* two repair cycles of one iteration were built.
WithId(i, n) == {r \in Present : r[2] = n /\ Iter(r) = i}
DependencySatisfied(i, n) ==
  \E r \in WithId(i, n) :
    /\ row[r] = "completed"
    /\ \A s \in WithId(i, n) \ {r} : ListedBefore(s, r)

\* Mutant: a dependency counts as soon as it has been started.
SatisfiedWhenStarted(r) ==
  \A n \in Deps(r) : \E s \in WithId(Iter(r), n) : row[s] \in {"in_progress", "completed"}

DependenciesSatisfied(r) == \A n \in Deps(r) : DependencySatisfied(Iter(r), n)

ListReady(p) ==
  /\ pc[p] = "list"
  /\ todo' = [todo EXCEPT ![p] = {r \in Present : row[r] = "created" /\ DependenciesSatisfied(r)}]
  /\ Goto(p, "queue")
  /\ UNCHANGED <<deployed, cyc, row, superseded, approved, accepted, status, latest, expired,
                 stopped, at, ret, derived, verdict, faults>>

\* QueueTaskForLaunch: a row that is no longer launchable ends the handler.
QueueItem(p) ==
  /\ pc[p] = "queue" /\ ~ expired
  /\ \E r \in todo[p] :
       /\ IsNext(r, todo[p])
       /\ IF row[r] \in LaunchableFrom
            THEN /\ SetRow(r, "queued")
                 /\ todo' = [todo EXCEPT ![p] = @ \ {r}]
                 /\ UNCHANGED <<pc, at, ret, verdict>>
            ELSE Abort(p) /\ UNCHANGED row
  /\ UNCHANGED <<deployed, cyc, superseded, approved, accepted, status, latest, expired,
                 stopped, derived, faults>>

StopSnapshot(r) == [iter |-> Iter(r), kind |-> Kind(r[2]), next |-> "block_initiative"]
Show(s) == latest' = IF SnapshotPrecedes(latest, s) THEN s ELSE latest

\* failObjectiveTaskDueToTimeBudget: FailTask refuses a created row, and the
\* handler ends there; a row that another handler has queued meanwhile and a
\* bridge has claimed is failed, and the initiative is reconciled.
FailOverBudget(p) ==
  /\ pc[p] = "queue" /\ expired
  /\ \E r \in todo[p] :
       /\ IsNext(r, todo[p])
       /\ IF IsValidTransition(row[r], "failed")
            THEN /\ SetRow(r, "failed")
                 /\ Show(StopSnapshot(r))
                 /\ todo' = [todo EXCEPT ![p] = @ \ {r}]
                 /\ Goto(p, "read")
                 /\ ret' = [ret EXCEPT ![p] = <<"queue">> \o @]
                 /\ UNCHANGED <<at, verdict>>
            ELSE Abort(p) /\ UNCHANGED <<row, latest>>
  /\ UNCHANGED <<deployed, cyc, superseded, approved, accepted, status, expired, stopped,
                 derived, faults>>

QueueDone(p) ==
  /\ pc[p] = "queue" /\ todo[p] = {}
  /\ Goto(p, "read")
  /\ UNCHANGED <<deployed, cyc, row, superseded, approved, accepted, status, latest, expired,
                 stopped, at, todo, ret, derived, verdict, faults>>

(***************************************************************************)
(* ReconcileInitiativeExecution: the rows are listed in one transaction,   *)
(* the status is written in another.                                       *)
(***************************************************************************)

\* deriveInitiativeExecutionStatus
DeriveStatus ==
  IF \E r \in Present : row[r] = "failed" \/ (row[r] = "cancelled" /\ r \notin superseded) THEN "blocked"
  ELSE IF \E r \in Present : row[r] \notin Terminal THEN "executing"
  ELSE "completed"

ReconcileRead(p) ==
  /\ pc[p] = "read"
  /\ derived' = [derived EXCEPT ![p] = DeriveStatus]
  /\ Goto(p, "write")
  /\ UNCHANGED <<deployed, cyc, row, superseded, approved, accepted, status, latest, expired,
                 stopped, at, todo, ret, verdict, faults>>

\* What follows a reconciliation.
Return(p) ==
  /\ Goto(p, Head(ret[p]))
  /\ ret' = [ret EXCEPT ![p] = Tail(@)]
  /\ at' = [at EXCEPT ![p] = IF Head(ret[p]) \in {"idle", "loop"} THEN NoRow ELSE @]

ReconcileWrite(p) ==
  /\ pc[p] = "write"
  /\ status' = derived[p]
  /\ Return(p)
  /\ UNCHANGED <<deployed, cyc, row, superseded, approved, accepted, latest, expired, stopped,
                 todo, derived, verdict, faults>>

(***************************************************************************)
(* The client: the runner reads the initiative, resolves approvals and     *)
(* claims; a daemon only claims.                                           *)
(***************************************************************************)
\* Mutant: a blocked initiative is polled again.
PollIgnoresBlock ==
  /\ pc[Runner] = "idle" /\ verdict = "none"
  /\ IF status = "completed"
       THEN verdict' = status /\ UNCHANGED pc
       ELSE Goto(Runner, "loop") /\ UNCHANGED verdict
  /\ UNCHANGED <<deployed, cyc, row, superseded, approved, accepted, status, latest, expired,
                 stopped, at, todo, ret, derived, faults>>

Poll ==
  /\ pc[Runner] = "idle" /\ verdict = "none"
  /\ IF status \in {"completed", "blocked"}
       THEN verdict' = status /\ UNCHANGED pc
       ELSE Goto(Runner, "loop") /\ UNCHANGED verdict
  /\ UNCHANGED <<deployed, cyc, row, superseded, approved, accepted, status, latest, expired,
                 stopped, at, todo, ret, derived, faults>>

Waiting == {r \in Present : row[r] = "waiting_approval"}

\* The runner resolves approvals only in local_only mode, which is the mode of
\* a deployment without operators.
LocalOnly == deployed \intersect Operators = {}

\* POST /approvals/{id}/resolve and its reconcileRootTask.
Resolve(p, r, grant, back) ==
  /\ r \in Waiting
  /\ SetRow(r, IF grant THEN "queued" ELSE "cancelled")
  /\ approved' = IF grant THEN approved \union {r} ELSE approved
  /\ Goto(p, "read")
  /\ ret' = [ret EXCEPT ![p] = <<back>>]
  /\ UNCHANGED <<deployed, cyc, superseded, accepted, status, latest, expired, stopped, at,
                 todo, derived, verdict, faults>>

RunnerResolves == /\ pc[Runner] = "loop" /\ LocalOnly
                  /\ \E r \in Waiting : Resolve(Runner, r, TRUE, "loop")

OperatorResolves(p) == /\ p \in Operators \intersect deployed /\ pc[p] = "idle"
                       /\ \E r \in Waiting, grant \in BOOLEAN : Resolve(p, r, grant, "idle")

Claim(p) ==
  /\ \/ p = Runner /\ pc[p] = "loop" /\ (LocalOnly => Waiting = {})
     \/ p \in Daemons \intersect deployed /\ pc[p] = "idle"
  /\ \E r \in Present :
       /\ row[r] = "queued"
       /\ SetRow(r, "in_progress")
       /\ at' = [at EXCEPT ![p] = r]
  /\ Goto(p, "run")
  /\ UNCHANGED <<deployed, cyc, superseded, approved, accepted, status, latest, expired,
                 stopped, todo, ret, derived, verdict, faults>>

NothingToClaim ==
  /\ pc[Runner] = "loop"
  /\ (LocalOnly => Waiting = {}) /\ \A r \in Present : row[r] # "queued"
  /\ Goto(Runner, "idle")
  /\ UNCHANGED <<deployed, cyc, row, superseded, approved, accepted, status, latest, expired,
                 stopped, at, todo, ret, derived, verdict, faults>>

(***************************************************************************)
(* submitBridgeTaskResult                                                  *)
(***************************************************************************)

\* What a bridge reports.  A review that asks for changes has the status "error"
\* and its decision; an executor that fails has no decision.
Result == {"success", "error", "changes_requested"}

\* The executor asks before a gated tool runs; RequestApproval parks the row.
Ask(p) ==
  /\ pc[p] = "run" /\ at[p][2] \in Gated /\ at[p] \notin approved
  /\ IF row[at[p]] = "in_progress"
       THEN /\ SetRow(at[p], "waiting_approval")
            /\ Goto(p, "idle")
            /\ at' = [at EXCEPT ![p] = NoRow]
            /\ UNCHANGED <<todo, ret, verdict>>
       ELSE Abort(p) /\ UNCHANGED row
  /\ UNCHANGED <<deployed, cyc, superseded, approved, accepted, status, latest, expired,
                 stopped, derived, faults>>

\* Whether the budget allows another cycle, and the iteration one more.
MayRepair(r) == ~ expired /\ Iter(r) < MaxIterations

\* shouldStartObjectiveRepairCycle: a review is repaired when it asks for changes,
\* not when its executor failed.
RepairStarts(r, res) ==
  /\ \/ r[2] = "validate" /\ res # "success"
     \/ r[2] = "review" /\ res = "changes_requested"
  /\ MayRepair(r)

\* Mutant: the decision of a review does not count, only that there is one.
CountsReviewAsSuccess(r, res) == res = "success" \/ r[2] \in {"validate-baseline", "review"}

\* objectiveEffectiveResultStatus: a baseline that fails is evidence.
CountsAsSuccess(r, res) == res = "success" \/ r[2] = "validate-baseline"

ResultSnapshot(r, res) ==
  [iter |-> Iter(r), kind |-> Kind(r[2]),
   next |-> NextExpectedAction(r[2], CountsAsSuccess(r, res), RepairStarts(r, res))]

\* Mutant: a failed baseline is stored and nothing is queued after it.
AfterResultQuiet(r, res) ==
  IF res = "success" /\ expired /\ r[2] # "review" THEN "stop"
  ELSE IF res = "success" THEN "list"
  ELSE IF RepairStarts(r, res) THEN "repair"
  ELSE "read"

\* The branch the handler takes once the row is written.
AfterResult(r, res) ==
  IF res = "success" /\ expired /\ r[2] # "review" THEN "stop"
  ELSE IF CountsAsSuccess(r, res) THEN "list"
  ELSE IF RepairStarts(r, res) THEN "repair"
  ELSE "read"

\* persistLocalBridgeExecution stores the snapshot first; then the row is
\* completed or failed, unless it is no longer in progress.
Submit(p, res) ==
  /\ pc[p] = "run"
  /\ res = "changes_requested" => at[p][2] = "review"
  /\ at[p][2] \in Gated => at[p] \in approved
  /\ Show(ResultSnapshot(at[p], res))
  /\ IF row[at[p]] = "in_progress"
       THEN /\ SetRow(at[p], IF CountsAsSuccess(at[p], res) \/ RepairStarts(at[p], res)
                               THEN "completed" ELSE "failed")
            /\ accepted' = IF at[p][2] = "review" /\ res = "success"
                            THEN accepted \union {at[p]} ELSE accepted
            /\ Goto(p, AfterResult(at[p], res))
            /\ ret' = [ret EXCEPT ![p] = IF AfterResult(at[p], res) = "repair"
                                           THEN <<"read", "idle">> ELSE <<"idle">>]
            /\ UNCHANGED <<at, todo, verdict>>
       ELSE Abort(p) /\ UNCHANGED <<row, accepted>>
  /\ UNCHANGED <<deployed, cyc, superseded, approved, status, expired, stopped, derived, faults>>

\* stopObjectiveAfterTaskCompletion
Stop(p) ==
  /\ pc[p] = "stop"
  /\ Show(StopSnapshot(at[p]))
  /\ status' = "blocked" /\ stopped' = TRUE
  /\ Goto(p, "read")
  /\ UNCHANGED <<deployed, cyc, row, superseded, approved, accepted, expired, at, todo, ret,
                 derived, verdict, faults>>

(***************************************************************************)
(* startObjectiveRepairCycle                                               *)
(***************************************************************************)

\* One round of cancelSupersededObjectiveDependents over the listed rows.
DependOn(r, names) == {s \in Present \ {r} : Iter(s) = Iter(r) /\ Deps(s) \intersect names # {}}

\* The rounds of the loop.  A repair starts at a validation or a review, so two
\* rounds find everything and a third would change nothing.
AllDependents(r) ==
  LET direct == DependOn(r, {r[2]})
  IN  direct \union DependOn(r, {s[2] : s \in direct})

Supersedable(r) ==
  {s \in AllDependents(r) : row[s] \in {"created", "queued", "assigned", "waiting_approval"}}

\* The deadline is checked a second time; then the dependents are listed.
StartRepair(p) ==
  /\ pc[p] = "repair"
  /\ IF expired
       THEN Goto(p, "read") /\ UNCHANGED todo
       ELSE todo' = [todo EXCEPT ![p] = Supersedable(at[p])] /\ Goto(p, "cancel")
  /\ UNCHANGED <<deployed, cyc, row, superseded, approved, accepted, status, latest, expired,
                 stopped, at, ret, derived, verdict, faults>>

\* Mutant: the superseded rows are cancelled without the flag.
CancelUnmarked(p) ==
  /\ pc[p] = "cancel"
  /\ \E r \in todo[p] :
       /\ IsNext(r, todo[p])
       /\ SetRow(r, "cancelled")
       /\ todo' = [todo EXCEPT ![p] = @ \ {r}]
  /\ UNCHANGED <<deployed, cyc, superseded, approved, accepted, status, latest, expired,
                 stopped, derived, pc, at, ret, verdict, faults>>

\* PatchTaskMetadata and CancelTask; a row that cannot be cancelled any more
\* ends the handler with part of the dependents cancelled.
CancelDependent(p) ==
  /\ pc[p] = "cancel"
  /\ \E r \in todo[p] :
       /\ IsNext(r, todo[p])
       /\ superseded' = superseded \union {r}
       /\ IF IsValidTransition(row[r], "cancelled")
            THEN /\ SetRow(r, "cancelled")
                 /\ todo' = [todo EXCEPT ![p] = @ \ {r}]
                 /\ UNCHANGED <<pc, at, ret, verdict>>
            ELSE Abort(p) /\ UNCHANGED row
  /\ UNCHANGED <<deployed, cyc, approved, accepted, status, latest, expired, stopped, derived,
                 faults>>

\* The work items of the next iteration, which buildObjectiveRepairCycle has
\* made from the result, are materialised next.
BeginCycle(p) ==
  /\ pc[p] = "cancel" /\ todo[p] = {}
  /\ Len(cyc) < MaxCycles
  /\ \E findings \in SUBSET FindingKind, changed \in BOOLEAN :
       LET i == Iter(at[p]) + 1
           f == RepairPlan(Plan(at[p]), findings, changed)
       IN  /\ cyc' = Append(cyc, [iter |-> i, plan |-> f])
           /\ todo' = [todo EXCEPT ![p] = RowsOf(Len(cyc) + 1, i, f)]
  /\ Goto(p, "create")
  /\ UNCHANGED <<deployed, row, superseded, approved, accepted, status, latest, expired,
                 stopped, at, ret, derived, verdict, faults>>

(***************************************************************************)
(* Faults and time.                                                        *)
(***************************************************************************)

\* A database error that the handler answers with 500, or the client hangs up and
\* the request is cancelled.
HandlerFails(p) ==
  /\ pc[p] \in Handling
  /\ faults < MaxFaults /\ faults' = faults + 1
  /\ Abort(p)
  /\ UNCHANGED <<deployed, cyc, row, superseded, approved, accepted, status, latest, expired,
                 stopped, derived>>

\* A reconciliation fails in reconcileRootTask, which drops the error: the request
\* is answered as if it had been made.  createObjective, a task over budget and
\* the first reconciliation of a repair answer 500 instead.
ReconcileIgnored(p) ==
  /\ pc[p] \in {"read", "write"}
  /\ ret[p] \in {<<"idle">>, <<"loop">>}
  /\ p = Runner /\ ret[p] = <<"idle">> => at[p] # NoRow
  /\ faults < MaxFaults /\ faults' = faults + 1
  /\ Return(p)
  /\ UNCHANGED <<deployed, cyc, row, superseded, approved, accepted, status, latest, expired,
                 stopped, todo, derived, verdict>>

\* The bridge dies or, for the runner, its wait timeout ends it; the row is
\* taken up again when its lease has expired.
BridgeLost(p) ==
  /\ pc[p] = "run"
  /\ faults < MaxFaults /\ faults' = faults + 1
  /\ row' = [row EXCEPT ![at[p]] = IF @ = "in_progress" THEN "queued" ELSE @]
  /\ Abort(p)
  /\ UNCHANGED <<deployed, cyc, superseded, approved, accepted, status, latest, expired,
                 stopped, derived>>

Expire ==
  /\ MayExpire /\ ~ expired /\ expired' = TRUE
  /\ UNCHANGED <<deployed, cyc, row, superseded, approved, accepted, status, latest, stopped,
                 pc, at, todo, ret, derived, verdict, faults>>

HandlerStep(p) ==
  \/ MaterializeItem(p) \/ ListReady(p) \/ QueueItem(p) \/ FailOverBudget(p) \/ QueueDone(p)
  \/ ReconcileRead(p) \/ ReconcileWrite(p) \/ Stop(p)
  \/ StartRepair(p) \/ CancelDependent(p) \/ BeginCycle(p)

ClientStep(p) == Claim(p) \/ Ask(p) \/ \E res \in Result : Submit(p, res)

RunnerStep == Poll \/ RunnerResolves \/ NothingToClaim

Next ==
  \/ \E p \in Procs : HandlerStep(p) \/ HandlerFails(p) \/ ReconcileIgnored(p) \/ OperatorResolves(p)
  \/ \E p \in Bridges : ClientStep(p) \/ BridgeLost(p)
  \/ RunnerStep
  \/ Expire

Spec == Init /\ [][Next]_vars

\* Started requests and polling bridges go on; nothing is assumed of operators,
\* of faults or of the clock.
Fairness ==
  /\ \A p \in Procs : WF_vars(HandlerStep(p))
  /\ \A p \in Bridges : WF_vars(ClientStep(p))
  /\ WF_vars(RunnerStep)

FairSpec == Spec /\ Fairness

(***************************************************************************)
(* Properties.                                                             *)
(***************************************************************************)
TypeOK ==
  /\ deployed \in Deployments
  /\ cyc \in Seq([iter : 1..MaxIterations, plan : SUBSET Optional]) /\ Len(cyc) \in 1..MaxCycles
  /\ row \in [Row -> TaskState \union {"absent"}]
  /\ \A r \in Present : r[1] \in DOMAIN cyc
  /\ superseded \subseteq Row /\ approved \subseteq Row /\ accepted \subseteq Row
  /\ status \in Status
  /\ latest.iter \in 0..MaxIterations
  /\ expired \in BOOLEAN /\ stopped \in BOOLEAN
  /\ pc \in [Procs -> PC]
  /\ at \in [Procs -> Row \union {NoRow}]
  /\ todo \in [Procs -> SUBSET Row]
  /\ ret \in [Procs -> Seq(PC)]
  /\ derived \in [Procs -> Status]
  /\ verdict \in {"none", "completed", "blocked", "error"}
  /\ faults \in 0..MaxFaults

\* A work item is queued, parked, run or finished only when a row of every item
\* it depends on is completed, although the handlers that queue items decide
\* from a listing made earlier and items of one cycle run side by side.
DependenciesFirst ==
  \A r \in Present : row[r] \notin {"created", "cancelled"} =>
    \A n \in Deps(r) : \E s \in WithId(Iter(r), n) : row[s] = "completed"

\* An item whose dependencies are completed does not stall the objective: a
\* handler has yet to list it, be it at the end of a repair, or holds it in its
\* listing.  A handler that finds the item before it already queued by another
\* one gives up the rest of its listing; then some item is under way, and its
\* result lists again, or blocks the initiative.  Only a failed handler or a
\* passed deadline leaves an item behind.
ReadyItemGoesOn ==
  faults = 0 /\ ~ expired =>
    \A r \in Present : row[r] = "created" /\ DependenciesSatisfied(r) =>
      \/ \E p \in Procs :
           \/ pc[p] \in {"repair", "cancel", "create", "list"}
           \/ pc[p] = "queue" /\ r \in todo[p]
      \/ \E s \in Present : row[s] \in {"queued", "in_progress", "waiting_approval"}
      \/ DeriveStatus = "blocked"

SoleRunner == deployed = {}

\* A review that asked for changes is stored completed in the expectation of a
\* repair.  The deadline can pass after shouldStartObjectiveRepairCycle said yes
\* (bridges.go:180) and before the same check is made again inside
\* startObjectiveRepairCycle (objectives.go:883): then no cycle is begun and no
\* row is left to be done.
RepairDropped(r) == expired /\ Iter(r) < MaxIterations

\* A runner without other bridges and operators reports success only when the
\* review of the last iteration is done and has approved the change, whatever
\* fails on the way, with one exception: the review asked for changes while
\* retries were left, and the deadline passed before its repair began.
RunnerSuccessIsReviewed ==
  SoleRunner /\ verdict = "completed" =>
    \E r \in Present :
      /\ r[2] = "review" /\ row[r] = "completed"
      /\ \A s \in Present : Iter(s) <= Iter(r)
      /\ r \in accepted \/ RepairDropped(r)

\* It ends, with a verdict of the initiative and not with an error.
RunnerEnds ==
  SoleRunner ~> (verdict \in {"completed", "blocked"} \/ faults > 0 \/ expired)

\* When it reports a block, the snapshot shown is the one that explains it,
\* unless the baseline validation or the bootstrap of the same iteration
\* outranks the item that failed after it.
BlockerIsShown ==
  SoleRunner /\ verdict = "blocked" =>
    \/ latest.next = "block_initiative"
    \/ {"validate-baseline", "bootstrap"} \intersect cyc[Len(cyc)].plan # {}

(***************************************************************************)
(* initiative/objectives.go:389, a completion criterion of every contract: *)
(* "Review decision is approved."                                          *)
(***************************************************************************)

\* A runner that reports success has an approved review.
CompletedIsReviewed == verdict = "completed" => accepted # {}

(***************************************************************************)
(* docs/architecture/master-plan.md:119, the end of the path by which the  *)
(* platform is measured: "initiative reconciliation to execution           *)
(* completion".                                                            *)
(***************************************************************************)

\* Once every row is finished and every handler has answered without a fault, the
\* initiative no longer counts as executing.
FinishedIsReconciled ==
  faults = 0 /\ (\A p \in Procs : pc[p] \notin Handling) /\ (\A r \in Present : row[r] \in Terminal)
    => status # "executing"

(***************************************************************************)
(* docs/architecture/autonomous-objective-runtime-plan.md:48: "those       *)
(* overruns now stop the initiative with explicit time_budget_exhausted    *)
(* status snapshots".                                                      *)
(***************************************************************************)

\* Once the budget has stopped the objective and its handlers have answered,
\* the initiative is blocked.
OverrunBlocks == stopped /\ (\A p \in Procs : pc[p] \notin Handling) => status = "blocked"

=============================================================================
