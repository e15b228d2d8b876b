--------------------------- MODULE InitiativeRun ---------------------------
(***************************************************************************)
(* An initiative from idea to execution: the phases, reviews and launch of *)
(* httpapi/initiatives.go, the same operations of the Telegram bot         *)
(* (telegram/bot.go), the autonomous runner (initiative/autonomous.go),    *)
(* the phase generator (initiative/service.go, contracts.go) and the rows  *)
(* of store/initiatives.go.                                                *)
(*                                                                         *)
(* A request reads the initiative once and goes through its statements one *)
(* by one, each with what it has read so far; between the reading and the  *)
(* first write of a generation lies the call of the model.                 *)
(***************************************************************************)
EXTENDS TaskStates, Naturals, Sequences, FiniteSets

CONSTANTS
  Requests,     \* concurrent HTTP and Telegram requests
  AutoRun,         \* the process of an autonomous run
  Worker,       \* whoever finishes launched tasks
  Plans,        \* the task lists a plan can have: sequences of [mode, target]
  Budgets,      \* bound on requests, for each place where a history begins
  Scopes,       \* scopes of the workspace to consider
  GoalTexts,    \* whether the goal has text beside a benchmark block
  MaxFaults     \* bound on failed statements

Procs   == Requests \union {AutoRun, Worker}
Phase   == {"requirements", "design", "plan"}
Mode    == {"manual", "agent_local", "agent_remote"}
Target  == {"local", "remote"}
Status  == {"idea_submitted", "requirements_draft", "requirements_review", "design_draft",
            "design_review", "plan_draft", "plan_review", "execution_ready", "executing",
            "blocked", "completed"}
Launchable == {"execution_ready", "executing", "blocked"}

ASSUME InitiativeAssumption ==
  /\ Plans # {} /\ Plans \subseteq Seq([mode : Mode, target : Target]) \ {<<>>}
  /\ DOMAIN Budgets \subseteq {"idea", "design", "plan", "launch", "autonomous"}
  /\ \A start \in DOMAIN Budgets : Budgets[start] \in Nat
  /\ Scopes \subseteq Target /\ GoalTexts \subseteq BOOLEAN
  /\ MaxFaults \in Nat
  /\ AutoRun \notin Requests /\ Worker \notin Requests /\ AutoRun # Worker

VARIABLES
  scope,      \* policy scope: "remote" inside the orchestrator's workspace
  goalText,
  item,       \* the row: status, current_phase and the active artifact of each phase
  artifact,   \* JSON artifacts in the order of creation; 0 is "none"
  review,     \* initiative_phase_reviews in the order of creation
  task,       \* linked tasks in the order of creation
  req,        \* what each process is doing
  budget, faults

vars == <<scope, goalText, item, artifact, review, task, req, budget, faults>>

\* op and at say which statement comes next; see the actions.
Idle   == [op |-> "none", at |-> "none", by |-> "none", phase |-> "requirements", yes |-> FALSE,
           art |-> 0, derived |-> "executing", todo |-> {}, mode |-> "manual"]

At(p, a)   == req[p].at = a
Goto(p, a) == req' = [req EXCEPT ![p].at = a]
Done(p)    == req' = [req EXCEPT ![p] = Idle]

(***************************************************************************)
(* The generator.  A payload that the model does not deliver, or that      *)
(* fails its contract, is replaced by the fallback, and that one keeps the *)
(* contract unless the objective is empty: a goal that is only a benchmark *)
(* block.                                                                  *)
(***************************************************************************)

\* fallbackRequirements takes its list from the goal without the benchmark block.
RequirementsFallback == goalText

\* The other fallbacks always keep their contract.
FallbackValid(phase) == phase = "requirements" => RequirementsFallback

\* What materialisation creates: the tasks of the model's plan, or of the
\* deterministic or fallback one.
GeneratedTasks(phase) == IF phase = "plan" THEN Plans ELSE {<<>>}

\* GenerateRequirements, GenerateDesign, GenerateExecutionPlan: valid is
\* whether the payload keeps its contract.
Generated(phase) ==
  [phase : {phase}, valid : {TRUE, FallbackValid(phase)}, tasks : GeneratedTasks(phase)]

\* activeArtifactJSONIDForPhase, activeArtifactIDsForPhase
ActiveArtifact(phase) == item.active[phase]

\* validatePhaseArtifactPayload
ValidPayload(a) == a # 0 /\ artifact[a].valid

(***************************************************************************)
(* Execution policy and status.                                            *)
(***************************************************************************)

\* ResolveExecutionPolicy, AllowsMode
AllowsMode(m) == m \in {"manual", IF scope = "remote" THEN "agent_remote" ELSE "agent_local"}

\* normalizeAutonomousLaunchMode
NormalizeMode(m) ==
  IF m = "manual" \/ AllowsMode(m) THEN m ELSE IF scope = "remote" THEN "agent_remote" ELSE "agent_local"

\* Mutant: the target is left as the plan has it.
LaunchTargetKept(t, m) == task[t].target

\* UpdateTaskLaunchMode: manual preserves the target.
LaunchTarget(t, m) ==
  CASE m = "agent_local" -> "local" [] m = "agent_remote" -> "remote" [] OTHER -> task[t].target

\* deriveInitiativeExecutionStatus; repair cycles belong to ObjectiveRun.
DeriveStatus ==
  LET waiting == {t \in DOMAIN task : task[t].mode = "manual" /\ task[t].state = "created"}
      counted == {task[t].state : t \in DOMAIN task \ waiting}
  IN  CASE counted \intersect {"failed", "cancelled"} # {} -> "blocked"
        [] counted \ Terminal # {}                         -> "executing"
        [] waiting # {}                                    -> "execution_ready"
        [] OTHER                                           -> "completed"

(***************************************************************************)
(* Where histories begin: a new idea, or the state after the sequential    *)
(* approval of the earlier phases.                                         *)
(***************************************************************************)
Rows(n) == [i \in 1..n |-> [phase |-> <<"requirements", "design", "plan">>[i], valid |-> TRUE,
                            tasks |-> <<>>]]
History(n) ==
  [i \in 1..(2 * n) |->
     [phase |-> <<"requirements", "design", "plan">>[(i + 1) \div 2],
      decision |-> IF i % 2 = 1 THEN "generated" ELSE "approved",
      art |-> (i + 1) \div 2, by |-> IF i % 2 = 1 THEN "service" ELSE "http"]]
ActiveUpTo(n) ==
  [p \in Phase |-> CASE p = "requirements" /\ n >= 1 -> 1 [] p = "design" /\ n >= 2 -> 2
                     [] p = "plan" /\ n >= 3 -> 3 [] OTHER -> 0]

NewTask(a, i, spec) ==
  [plan |-> a, order |-> i, mode |-> spec.mode, target |-> spec.target, state |-> "created", token |-> FALSE]

\* The phases approved where a history begins.
ApprovedAt(start) ==
  CASE start = "design" -> 1 [] start = "plan" -> 2 [] start = "launch" -> 3 [] OTHER -> 0

\* StartFromChannel: CreateInitiative, then generateRequirementsPhase
AutoStart == [Idle EXCEPT !.op = "auto", !.at = "generate", !.by = "auto"]

InitAt(start, n) ==
  /\ budget = Budgets[start]
  /\ item = [status |-> <<"idea_submitted", "design_draft", "plan_draft", "execution_ready">>[n + 1],
             phase  |-> <<"requirements", "design", "plan", "execution">>[n + 1],
             active |-> ActiveUpTo(n)]
  /\ review = History(n)
  /\ \E plan \in Plans :
       /\ artifact = IF n < 3 THEN Rows(n) ELSE [Rows(3) EXCEPT ![3].tasks = plan]
       /\ task = IF n < 3 THEN <<>> ELSE [i \in DOMAIN plan |-> NewTask(3, i, plan[i])]
  /\ req = [p \in Procs |-> IF p = AutoRun /\ start = "autonomous" THEN AutoStart ELSE Idle]

Init ==
  /\ scope \in Scopes /\ goalText \in GoalTexts
  /\ faults = 0
  /\ \E start \in DOMAIN Budgets : InitAt(start, ApprovedAt(start))

Begin(p, r) ==
  /\ p \in Requests /\ req[p] = Idle
  /\ budget > 0
  /\ budget' = budget - 1
  /\ req' = [req EXCEPT ![p] = r]

(***************************************************************************)
(* advanceInitiative and generateInitiativeTasks                           *)
(***************************************************************************)
Generate(p) ==
  /\ Begin(p, [Idle EXCEPT !.op = "advance", !.at = "generate", !.by = "http",
                           !.phase = item.phase])
  /\ UNCHANGED <<scope, goalText, item, artifact, review, task, faults>>

Advance(p) ==
  /\ \/ item.phase = "requirements"
     \/ item.phase = "design" /\ ActiveArtifact("requirements") # 0
  /\ Generate(p)

GenerateTasks(p) ==
  /\ item.phase = "plan" /\ item.status = "plan_draft"
  /\ ActiveArtifact("design") # 0
  /\ Generate(p)

\* Mutant: the artifact is made active without a row in the history.
PersistUnrecorded(p) ==
  /\ At(p, "generate")
  /\ \E a \in Generated(req[p].phase) :
       artifact' = Append(artifact, a)
  /\ req' = [req EXCEPT ![p].at = "activate", ![p].art = Len(artifact) + 1]
  /\ UNCHANGED <<scope, goalText, item, review, task, budget, faults>>

\* The model answers and persistInitiativePhaseArtifacts writes both artifacts.
Persist(p) ==
  /\ At(p, "generate")
  /\ \E a \in Generated(req[p].phase) :
       artifact' = Append(artifact, a)
  /\ req' = [req EXCEPT ![p].at = "review", ![p].art = Len(artifact) + 1]
  /\ UNCHANGED <<scope, goalText, item, review, task, budget, faults>>

\* CreateInitiativePhaseReview with "generated"
RecordGenerated(p) ==
  /\ At(p, "review")
  /\ review' = Append(review, [phase |-> req[p].phase, decision |-> "generated", art |-> req[p].art,
                               by |-> "service"])
  /\ Goto(p, "activate")
  /\ UNCHANGED <<scope, goalText, item, artifact, task, budget, faults>>

ReviewStatus(phase) ==
  CASE phase = "requirements" -> "requirements_review" [] phase = "design" -> "design_review"
    [] OTHER -> "plan_review"

\* updateInitiativeActiveArtifacts: the handler also sets the phase, the
\* autonomous runner does not.  The runner goes on to approve what it made:
\* the bot and the HTTP handler, which start it, always set
\* AutoApprovePhases.
Activate(p) ==
  /\ At(p, "activate")
  /\ item' = [status |-> ReviewStatus(req[p].phase),
              phase  |-> IF req[p].op = "auto" THEN item.phase ELSE req[p].phase,
              active |-> [item.active EXCEPT ![req[p].phase] = req[p].art]]
  /\ req' = IF req[p].phase = "plan"
              THEN [req EXCEPT ![p].at = "materialize", ![p].todo = {}]
              ELSE IF req[p].op = "auto" THEN [req EXCEPT ![p].at = "record", ![p].yes = TRUE]
              ELSE [req EXCEPT ![p] = Idle]
  /\ UNCHANGED <<scope, goalText, artifact, review, task, budget, faults>>

\* materializeInitiativePlanTasks: one CreateTask and LinkInitiativeTask per
\* turn, as one step, because a row that is not linked yet is in no listing of
\* the initiative and cannot be launched from it.  The plan is already in
\* review.
Materialize(p) ==
  /\ At(p, "materialize")
  /\ LET spec == artifact[req[p].art].tasks
         i    == Cardinality({t \in DOMAIN task : task[t].plan = req[p].art}) + 1
     IN  \/ /\ i <= Len(spec)
            /\ task' = Append(task, NewTask(req[p].art, i, spec[i]))
            /\ UNCHANGED req
         \/ /\ i > Len(spec)
            /\ IF req[p].op = "auto" THEN req' = [req EXCEPT ![p].at = "record", ![p].yes = TRUE] ELSE Done(p)
            /\ UNCHANGED task
  /\ UNCHANGED <<scope, goalText, item, artifact, review, budget, faults>>

(***************************************************************************)
(* resolveInitiativePhase, cmdResolveInitiativePhase and approvePhase      *)
(***************************************************************************)
Resolve(p, phase, yes, by) ==
  /\ item.phase = phase \/ (phase = "plan" /\ item.status = "plan_review")
  /\ ValidPayload(ActiveArtifact(phase))
  /\ Begin(p, [Idle EXCEPT !.op = "resolve", !.at = "check", !.by = by, !.phase = phase,
                           !.yes = yes, !.art = ActiveArtifact(phase)])
  /\ UNCHANGED <<scope, goalText, item, artifact, review, task, faults>>

\* Mutant: the newest review with an artifact, whatever its phase.
LatestArtifactOfAny(phase) ==
  LET with == {i \in DOMAIN review : review[i].art # 0}
  IN  IF with = {} THEN 0 ELSE review[CHOOSE i \in with : \A j \in with : j <= i].art

\* latestReviewArtifactIDsForPhase
LatestReviewArtifact(phase) ==
  LET with == {i \in DOMAIN review : review[i].phase = phase /\ review[i].art # 0}
  IN  IF with = {} THEN 0 ELSE review[CHOOSE i \in with : \A j \in with : j <= i].art

\* Mutant: the plan is approved without a look at the backlog.
ResolveUnchecked(p) ==
  /\ At(p, "check")
  /\ req' = [req EXCEPT ![p].at = "record",
               ![p].art = IF req[p].by = "http" THEN LatestReviewArtifact(req[p].phase) ELSE @]
  /\ UNCHANGED <<scope, goalText, item, artifact, review, task, budget, faults>>

\* The handler takes the artifact of the newest review, the bot the active one
\* it has read.  A plan without tasks is not approved.
ResolveCheck(p) ==
  /\ At(p, "check")
  /\ req' = [req EXCEPT ![p] =
               IF req[p].yes /\ req[p].phase = "plan" /\ task = <<>> THEN Idle
               ELSE [req[p] EXCEPT !.at = "record",
                       !.art = IF req[p].by = "http" THEN LatestReviewArtifact(req[p].phase) ELSE @]]
  /\ UNCHANGED <<scope, goalText, item, artifact, review, task, budget, faults>>

\* approvePhase records no artifact.
ResolveRecord(p) ==
  /\ At(p, "record")
  /\ review' = Append(review, [phase |-> req[p].phase,
                               decision |-> IF req[p].yes THEN "approved" ELSE "rejected",
                               art |-> IF req[p].op = "auto" THEN 0 ELSE req[p].art,
                               by |-> req[p].by])
  /\ Goto(p, "write")
  /\ UNCHANGED <<scope, goalText, item, artifact, task, budget, faults>>

DraftStatus(phase) ==
  CASE phase = "requirements" -> "requirements_draft" [] phase = "design" -> "design_draft"
    [] phase = "plan" -> "plan_draft" [] OTHER -> "execution_ready"
NextPhase(phase) == CASE phase = "requirements" -> "design" [] phase = "design" -> "plan" [] OTHER -> "execution"

ResolveWrite(p) ==
  /\ At(p, "write")
  /\ LET next == IF req[p].yes THEN NextPhase(req[p].phase) ELSE req[p].phase
     IN  /\ item' = [item EXCEPT !.phase = next,
                       !.status = DraftStatus(next)]
         /\ req' = [req EXCEPT ![p] =
                      IF req[p].op # "auto" THEN Idle
                      ELSE IF next = "execution" THEN [req[p] EXCEPT !.at = "list"]
                      ELSE [req[p] EXCEPT !.at = "generate", !.phase = next]]
  /\ UNCHANGED <<scope, goalText, artifact, review, task, budget, faults>>

(***************************************************************************)
(* launchInitiativeTasks, cmdLaunchInitiativeTasks, launchGeneratedTasks   *)
(***************************************************************************)
Launch(p, by) ==
  /\ item.status \in Launchable
  /\ Begin(p, [Idle EXCEPT !.op = "launch", !.at = "list", !.by = by])
  /\ UNCHANGED <<scope, goalText, item, artifact, review, task, faults>>

\* selectInitiativeTasks: the handler's client names tasks or groups, or none
\* for all; the bot leaves out manual tasks.
Listed(by) ==
  CASE by = "http"     -> SUBSET (DOMAIN task) \ {{}}
    [] by = "telegram" -> {{t \in DOMAIN task : task[t].mode # "manual"}}
    [] OTHER           -> {DOMAIN task}

LaunchList(p) ==
  /\ At(p, "list")
  /\ \E S \in Listed(req[p].by) :
       req' = [req EXCEPT ![p].at = "mode", ![p].todo = {<<t, task[t].mode>> : t \in S}]
  /\ UNCHANGED <<scope, goalText, item, artifact, review, task, budget, faults>>

\* ORDER BY launch_order, created_at
NextListed(todo) ==
  CHOOSE l \in todo : \A k \in todo :
    \/ task[l[1]].order < task[k[1]].order
    \/ task[l[1]].order = task[k[1]].order /\ l[1] <= k[1]

\* Mode override, policy and UpdateInitiativeTaskMode of the next task; the bot
\* leaves the mode as it is.  A mode against the policy ends the request
\* without a reconciliation.
LaunchMode(p) ==
  /\ At(p, "mode") /\ req[p].todo # {}
  /\ LET l == NextListed(req[p].todo)
     IN  \E m \in CASE req[p].by = "http" -> Mode [] req[p].by = "telegram" -> {l[2]}
                    [] OTHER -> {NormalizeMode(l[2])} :
           IF AllowsMode(m)
             THEN /\ task' = [task EXCEPT ![l[1]].mode = IF req[p].by = "telegram" THEN @ ELSE m]
                  /\ req' = [req EXCEPT ![p].at = "target", ![p].mode = m]
             ELSE Done(p) /\ UNCHANGED task
  /\ UNCHANGED <<scope, goalText, item, artifact, review, budget, faults>>

\* UpdateTaskLaunchMode of the same task: a launch goes on to queue it, unless
\* it is manual.
SetTarget(p) ==
  /\ At(p, "target")
  /\ LET l == NextListed(req[p].todo)
         m == req[p].mode
     IN  /\ task' = [task EXCEPT ![l[1]].target = LaunchTarget(l[1], m)]
         /\ req' = [req EXCEPT ![p] =
              IF req[p].op # "mode" /\ m # "manual" THEN [req[p] EXCEPT !.at = "queue", !.mode = "manual"]
              ELSE [req[p] EXCEPT !.at = IF req[p].op = "mode" THEN "reconcile" ELSE "mode",
                                  !.mode = "manual", !.todo = @ \ {l}]]
  /\ UNCHANGED <<scope, goalText, item, artifact, review, budget, faults>>

\* QueueTaskForLaunch and, for a remote task, EnqueueTask.  A task that is not
\* launchable ends the request in the middle of the list.
LaunchQueue(p) ==
  /\ At(p, "queue")
  /\ LET l == NextListed(req[p].todo)
         t == l[1]
     IN  IF task[t].state \in LaunchableFrom
           THEN /\ task' = [task EXCEPT ![t].state = "queued", ![t].token = (task[t].target = "remote")]
                /\ req' = [req EXCEPT ![p].at = "mode", ![p].todo = @ \ {l}]
           ELSE Done(p) /\ UNCHANGED task
  /\ UNCHANGED <<scope, goalText, item, artifact, review, budget, faults>>

LaunchDone(p) ==
  /\ At(p, "mode") /\ req[p].todo = {}
  /\ Goto(p, "reconcile")
  /\ UNCHANGED <<scope, goalText, item, artifact, review, task, budget, faults>>

(***************************************************************************)
(* updateInitiativeTaskMode, cancelTask of the handler and of the bot, and *)
(* the tasks' own life.                                                    *)
(***************************************************************************)
\* Mode first, target in SetTarget.
UpdateTaskMode(p) ==
  /\ \E t \in DOMAIN task, m \in Mode :
       /\ AllowsMode(m)
       /\ task' = [task EXCEPT ![t].mode = m]
       /\ Begin(p, [Idle EXCEPT !.op = "mode", !.at = "target", !.by = "http", !.todo = {<<t, m>>}, !.mode = m])
  /\ UNCHANGED <<scope, goalText, item, artifact, review, faults>>

\* The bot reconciles afterwards, the handler does not.
Cancel(p, by) ==
  /\ \E t \in DOMAIN task :
       /\ task[t].state \in Cancellable
       /\ task' = [task EXCEPT ![t].state = "cancelled"]
  /\ Begin(p, IF by = "telegram" THEN [Idle EXCEPT !.op = "cancel", !.at = "reconcile", !.by = by] ELSE Idle)
  /\ UNCHANGED <<scope, goalText, item, artifact, review, faults>>

\* A worker or a bridge takes a launched task to its end and reconciles.
Work ==
  /\ req[Worker] = Idle
  /\ \E t \in DOMAIN task, s \in {"completed", "failed"} :
       /\ task[t].state = "queued"
       /\ task[t].target = "remote" => task[t].token
       /\ task' = [task EXCEPT ![t].state = s, ![t].token = FALSE]
  /\ req' = [req EXCEPT ![Worker] = [Idle EXCEPT !.op = "work", !.at = "reconcile", !.by = "worker"]]
  /\ UNCHANGED <<scope, goalText, item, artifact, review, budget, faults>>

\* ReconcileInitiativeExecution reads the tasks ...
ReconcileRead(p) ==
  /\ At(p, "reconcile")
  /\ IF task = <<>> THEN Done(p)
     ELSE req' = [req EXCEPT ![p].at = "derived", ![p].derived = DeriveStatus]
  /\ UNCHANGED <<scope, goalText, item, artifact, review, task, budget, faults>>

\* ... and writes status and phase, whatever the phase was.
ReconcileWrite(p) ==
  /\ At(p, "derived")
  /\ item' = [item EXCEPT !.status = req[p].derived, !.phase = "execution"]
  /\ Done(p)
  /\ UNCHANGED <<scope, goalText, artifact, review, task, budget, faults>>

\* A statement, the model or the queue fails, or the server stops.
Fail(p) ==
  /\ faults < MaxFaults
  /\ req[p] # Idle
  /\ faults' = faults + 1
  /\ Done(p)
  /\ UNCHANGED <<scope, goalText, item, artifact, review, task, budget>>

\* EnqueueTask fails after the row was queued.
EnqueueFails(p) ==
  /\ At(p, "queue") /\ faults < MaxFaults
  /\ LET t == NextListed(req[p].todo)[1]
     IN  /\ task[t].state \in LaunchableFrom /\ task[t].target = "remote"
         /\ task' = [task EXCEPT ![t].state = "queued", ![t].token = FALSE]
  /\ faults' = faults + 1
  /\ Done(p)
  /\ UNCHANGED <<scope, goalText, item, artifact, review, budget>>

Step(p) ==
  \/ Persist(p) \/ RecordGenerated(p) \/ Activate(p) \/ Materialize(p)
  \/ ResolveCheck(p) \/ ResolveRecord(p) \/ ResolveWrite(p)
  \/ LaunchList(p) \/ LaunchMode(p) \/ SetTarget(p) \/ LaunchQueue(p) \/ LaunchDone(p)
  \/ ReconcileRead(p) \/ ReconcileWrite(p)

Next ==
  \/ \E p \in Requests :
       \/ Advance(p) \/ GenerateTasks(p) \/ UpdateTaskMode(p)
       \/ \E by \in {"http", "telegram"} :
            \/ Launch(p, by) \/ Cancel(p, by)
            \/ \E phase \in Phase, yes \in BOOLEAN : Resolve(p, phase, yes, by)
  \/ Work
  \/ \E p \in Procs : Step(p) \/ Fail(p) \/ EnqueueFails(p)

Spec == Init /\ [][Next]_vars

(***************************************************************************)
(* Properties.                                                             *)
(***************************************************************************)
At_ == {"none", "generate", "review", "activate", "materialize", "check", "record", "write",
        "list", "mode", "target", "queue", "reconcile", "derived"}

ItemType == [status : Status, phase : Phase \union {"execution"}, active : [Phase -> Nat]]
ArtifactType == [phase : Phase, valid : BOOLEAN, tasks : Plans \union {<<>>}]
ReviewType ==
  [phase : Phase, decision : {"generated", "approved", "rejected"}, art : Nat,
   by : {"service", "http", "telegram", "auto"}]
TaskType == [plan : Nat, order : Nat, mode : Mode, target : Target, state : TaskState, token : BOOLEAN]
ReqType ==
  [op : {"none", "advance", "resolve", "launch", "mode", "cancel", "work", "auto"}, at : At_,
   by : {"none", "http", "telegram", "auto", "worker"}, phase : Phase, yes : BOOLEAN, art : Nat,
   derived : Status, todo : SUBSET (Nat \X Mode), mode : Mode]

\* The type of the state.
TypeOK ==
  /\ scope \in Target /\ goalText \in BOOLEAN
  /\ item \in ItemType
  /\ artifact \in Seq(ArtifactType) /\ review \in Seq(ReviewType) /\ task \in Seq(TaskType)
  /\ req \in [Procs -> ReqType]
  /\ budget \in Nat /\ faults \in Nat

GeneratedReview(phase, a) ==
  \E i \in DOMAIN review : review[i].phase = phase /\ review[i].decision = "generated" /\ review[i].art = a

\* Whatever requests overlap or fail, the active artifact of a phase is one of
\* that phase, and the history has its generation: updateInitiativeActiveArtifacts
\* comes after CreateInitiativePhaseReview in the handlers and in the
\* autonomous runner, and an approval never moves it.
ActiveWasReviewed ==
  \A phase \in Phase : item.active[phase] # 0 =>
    /\ artifact[item.active[phase]].phase = phase
    /\ GeneratedReview(phase, item.active[phase])

\* A decision of an operator, from the API or from Telegram, names an artifact
\* of the phase it decides, and one that an earlier row of the history has as
\* generated, also while another request generates the next version.
DecisionNamesGenerated ==
  \A i \in DOMAIN review :
    review[i].decision # "generated" /\ review[i].by # "auto" =>
      \E j \in 1..(i - 1) : review[j].phase = review[i].phase /\ review[j].decision = "generated"
                              /\ review[j].art = review[i].art

\* Work runs where the workspace is: a task that was launched has the target
\* of the policy, although the plan may name the other one, overrides are per
\* request and mode and target change in statements apart from the launch.
LaunchStaysInScope ==
  \A t \in DOMAIN task : task[t].state \in TaskState \ {"created", "cancelled"} => task[t].target = scope

\* No initiative executes without tasks, although reconciliation moves any
\* phase to execution and the autonomous runner approves without looking.
ExecutionHasBacklog == item.phase = "execution" => task # <<>>

\* docs/tui.md: "launching selective execution from an approved plan".
LaunchedFromApprovedPlan ==
  \A t \in DOMAIN task : task[t].state = "queued" =>
    \E i \in DOMAIN review : review[i].phase = "plan" /\ review[i].decision = "approved"

\* The handler's refusal reads "plan cannot be approved before the backlog is
\* materialized": an approved plan has all its tasks.
ApprovedIsMaterialized ==
  \A i \in DOMAIN review :
    review[i].phase = "plan" /\ review[i].decision = "approved" /\ review[i].art # 0 =>
      Cardinality({t \in DOMAIN task : task[t].plan = review[i].art}) = Len(artifact[review[i].art].tasks)

=============================================================================
