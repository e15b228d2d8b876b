------------------------- MODULE RemoteTasksProofs -------------------------
(***************************************************************************)
(* Proofs about RemoteTasks for any set of tasks, workers and handlers and *)
(* any bounds.                                                             *)
(***************************************************************************)
EXTENDS RemoteTasks, FiniteSetTheorems, TLAPS

(***************************************************************************)
(* The transition table.                                                   *)
(***************************************************************************)

\* Nothing leaves a terminal state or an absent row along the table, and the
\* table leads to states only.
LEMMA TransitionFacts ==
  ASSUME NEW s, NEW x, IsValidTransition(s, x)
  PROVE  /\ s \in TaskState /\ s \notin Terminal
         /\ x \in TaskState
  BY DEF IsValidTransition, ValidTransitions, TaskState, Terminal

\* queued leads to assigned and cancelled; only parked or new tasks are queued.
LEMMA QueuedFacts ==
  /\ \A x : IsValidTransition("queued", x) <=> x \in {"assigned", "cancelled"}
  /\ \A s : IsValidTransition(s, "queued") => s \in {"created", "waiting_approval"}
  BY DEF IsValidTransition, ValidTransitions

(***************************************************************************)
(* Types.                                                                  *)
(***************************************************************************)

\* The initial state is well typed.
LEMMA TypeInit == Init => TypeOK
  BY TasksAssumption, BoundsAssumption
  DEF Init, TypeOK, TaskState, WorkerPC, HandlerPC, Causes, Busy

\* Every step of a handler, a worker or an operator keeps the types: a process
\* that is past its first step has a task.
LEMMA TypeStep == TypeOK /\ [Next]_vars => TypeOK'
<1> SUFFICES ASSUME TypeOK, [Next]_vars PROVE TypeOK'
  OBVIOUS
<1> USE TasksAssumption, BoundsAssumption
    DEF TypeOK, WorkerPC, HandlerPC, Causes, Busy, Enqueuing,
        HandlerAt, HandlerTakes, HandlerDone, WorkerAt, WorkerTakes,
        ReleaseTask, store, workers, handler
<1>1. CASE UNCHANGED vars
  BY <1>1 DEF vars
<1>2. ASSUME NEW t \in Tasks, NEW s \in TaskState, UpdateTask(t, s) PROVE TypeOK'
  BY <1>2 DEF UpdateTask, UpdateTaskState
<1>3. ASSUME NEW t \in Tasks, UpdateTaskToQueued(t) PROVE TypeOK'
  BY <1>3 DEF UpdateTaskToQueued, TaskState
<1>4. ASSUME NEW t \in Tasks, CancelTask(t) PROVE TypeOK'
  BY <1>4 DEF CancelTask, UpdateTaskState, TaskState
<1>5. ASSUME NEW t \in Tasks, Reject(t) PROVE TypeOK'
  BY <1>5 DEF Reject, UpdateTaskState, TaskState
<1>6. ASSUME NEW t \in Tasks, NEW h \in Handlers, CreateCheckGlobal(h, t) PROVE TypeOK'
  BY <1>6 DEF CreateCheckGlobal
<1>7. ASSUME NEW t \in Tasks, NEW h \in Handlers, Approve(h, t) PROVE TypeOK'
  BY <1>7 DEF Approve, UpdateTaskState, TaskState
<1>8. ASSUME NEW t \in Tasks, NEW h \in Handlers, QueueTaskForLaunch(h, t) PROVE TypeOK'
  BY <1>8 DEF QueueTaskForLaunch, TaskState
<1>9. ASSUME NEW h \in Handlers, CreateCheckAgent(h) PROVE TypeOK'
  BY <1>9 DEF CreateCheckAgent
<1>10. ASSUME NEW h \in Handlers, CreateInsert(h) PROVE TypeOK'
  BY <1>10 DEF CreateInsert, TaskState
<1>11. ASSUME NEW h \in Handlers, EnqueueTask(h) PROVE TypeOK'
  BY <1>11 DEF EnqueueTask
<1>12. ASSUME NEW h \in Handlers, EnqueueFails(h) PROVE TypeOK'
  BY <1>12 DEF EnqueueFails, TryUpdateTaskState, UpdateTaskState, TaskState
<1>13. ASSUME NEW h \in Handlers, HandlerAborts(h) PROVE TypeOK'
  BY <1>13 DEF HandlerAborts, Lose
<1>14. ASSUME NEW w \in Workers, ClaimAssigned(w) PROVE TypeOK'
  BY <1>14 DEF ClaimAssigned, UpdateTaskState, TaskState
<1>15. ASSUME NEW w \in Workers, ClaimInProgress(w) PROVE TypeOK'
  BY <1>15 DEF ClaimInProgress, TryUpdateTaskState, UpdateTaskState, TaskState
<1>16. ASSUME NEW w \in Workers, ExecuteTask(w) PROVE TypeOK'
  BY <1>16 DEF ExecuteTask
<1>17. ASSUME NEW w \in Workers, RequestApproval(w) PROVE TypeOK'
  BY <1>17 DEF RequestApproval, Ask, UpdateTaskState, TaskState
<1>23. ASSUME NEW w \in Workers, ApprovalRequestFails(w) PROVE TypeOK'
  BY <1>23 DEF ApprovalRequestFails, Ask, TryUpdateTaskState, UpdateTaskState, TaskState
<1>18. ASSUME NEW w \in Workers, NEW s \in {"completed", "failed"}, FinishTask(w, s)
       PROVE TypeOK'
  BY <1>18 DEF FinishTask, TryUpdateTaskState, UpdateTaskState, TaskState
<1>19. ASSUME NEW w \in Workers, WorkerGivesUp(w) PROVE TypeOK'
  BY <1>19 DEF WorkerGivesUp, Lose
<1>20. ASSUME NEW w \in Workers, Crash(w) PROVE TypeOK'
  BY <1>20 DEF Crash, Lose
<1>21. ASSUME NEW w \in Workers, NEW t \in Tasks, DequeueTask(w, t) PROVE TypeOK'
  BY <1>21 DEF DequeueTask
<1>22. ASSUME NEW w \in Workers, NEW S \in SUBSET Tasks, Start(w, S) PROVE TypeOK'
  BY <1>22 DEF Start, TaskState
<1> QED
  BY <1>1, <1>2, <1>3, <1>4, <1>5, <1>6, <1>7, <1>8, <1>9, <1>10, <1>11, <1>12,
     <1>13, <1>14, <1>15, <1>16, <1>17, <1>18, <1>19, <1>20, <1>21, <1>22, <1>23
  DEF Next, Operator, HandlerStep, WorkerStep

\* Type correctness of rows, queue and program counters.
THEOREM TypeCorrect == Spec => []TypeOK
  BY TypeInit, TypeStep, PTL DEF Spec

(***************************************************************************)
(* Safety: one token for each task.                                        *)
(***************************************************************************)

\* No task has a token before the first request.
LEMMA TokenInit == Init => SingleToken
  BY TasksAssumption
  DEF Init, SingleToken, OneToken, Held, Sent, Carries, Enqueues, Busy, Enqueuing

\* Every step moves the token of a task or removes it; SingleToken is inductive
\* together with the types.
LEMMA TokenStep == TypeOK /\ SingleToken /\ [Next]_vars => SingleToken'
<1> SUFFICES ASSUME TypeOK, SingleToken, [Next]_vars,
                    NEW u \in Tasks \ Launchable
             PROVE  OneToken(u)'
  BY DEF SingleToken
<1>0. OneToken(u)
  BY DEF SingleToken
<1> USE <1>0, TasksAssumption, BoundsAssumption
    DEF TypeOK, OneToken, Held, Sent, Carries, Enqueues,
        WorkerPC, HandlerPC, Busy, Enqueuing,
        HandlerAt, HandlerTakes, HandlerDone, WorkerAt, WorkerTakes,
        ReleaseTask, store, workers, handler
<1>1. CASE UNCHANGED vars
  BY <1>1 DEF vars
<1>2. ASSUME NEW t \in Tasks, NEW s \in TaskState, UpdateTask(t, s)
      PROVE OneToken(u)'
  BY <1>2, TransitionFacts DEF UpdateTask, UpdateTaskState, TaskState
<1>3. ASSUME NEW t \in Tasks, UpdateTaskToQueued(t) PROVE OneToken(u)'
  BY <1>3 DEF UpdateTaskToQueued
<1>4. ASSUME NEW t \in Tasks, CancelTask(t) PROVE OneToken(u)'
  BY <1>4 DEF CancelTask, UpdateTaskState
<1>5. ASSUME NEW t \in Tasks, Reject(t) PROVE OneToken(u)'
  BY <1>5 DEF Reject, UpdateTaskState
<1>6. ASSUME NEW t \in Tasks, NEW h \in Handlers, CreateCheckGlobal(h, t)
      PROVE OneToken(u)'
  BY <1>6 DEF CreateCheckGlobal
<1>7. ASSUME NEW t \in Tasks, NEW h \in Handlers, Approve(h, t) PROVE OneToken(u)'
  BY <1>7 DEF Approve, UpdateTaskState
<1>8. ASSUME NEW t \in Tasks, NEW h \in Handlers, QueueTaskForLaunch(h, t)
      PROVE OneToken(u)'
  BY <1>8 DEF QueueTaskForLaunch
<1>9. ASSUME NEW h \in Handlers, CreateCheckAgent(h) PROVE OneToken(u)'
  BY <1>9 DEF CreateCheckAgent
<1>10. ASSUME NEW h \in Handlers, CreateInsert(h) PROVE OneToken(u)'
  BY <1>10 DEF CreateInsert
<1>11. ASSUME NEW h \in Handlers, EnqueueTask(h) PROVE OneToken(u)'
  BY <1>11 DEF EnqueueTask
<1>12. ASSUME NEW h \in Handlers, EnqueueFails(h) PROVE OneToken(u)'
  BY <1>12 DEF EnqueueFails, TryUpdateTaskState, UpdateTaskState
<1>13. ASSUME NEW h \in Handlers, HandlerAborts(h) PROVE OneToken(u)'
  BY <1>13 DEF HandlerAborts
<1>14. ASSUME NEW w \in Workers, ClaimAssigned(w) PROVE OneToken(u)'
  BY <1>14 DEF ClaimAssigned, UpdateTaskState
<1>15. ASSUME NEW w \in Workers, ClaimInProgress(w) PROVE OneToken(u)'
  BY <1>15 DEF ClaimInProgress, TryUpdateTaskState, UpdateTaskState
<1>16. ASSUME NEW w \in Workers, ExecuteTask(w) PROVE OneToken(u)'
  BY <1>16 DEF ExecuteTask
<1>17. ASSUME NEW w \in Workers, RequestApproval(w) PROVE OneToken(u)'
  BY <1>17 DEF RequestApproval, Ask, UpdateTaskState
<1>23. ASSUME NEW w \in Workers, ApprovalRequestFails(w) PROVE OneToken(u)'
  BY <1>23 DEF ApprovalRequestFails, Ask, TryUpdateTaskState, UpdateTaskState
<1>18. ASSUME NEW w \in Workers, NEW s \in {"completed", "failed"}, FinishTask(w, s)
       PROVE OneToken(u)'
  BY <1>18 DEF FinishTask, TryUpdateTaskState, UpdateTaskState
<1>19. ASSUME NEW w \in Workers, WorkerGivesUp(w) PROVE OneToken(u)'
  BY <1>19 DEF WorkerGivesUp
<1>20. ASSUME NEW w \in Workers, Crash(w) PROVE OneToken(u)'
  BY <1>20 DEF Crash
<1>21. ASSUME NEW w \in Workers, NEW t \in Tasks, DequeueTask(w, t) PROVE OneToken(u)'
  BY <1>21 DEF DequeueTask
<1>22. ASSUME NEW w \in Workers, NEW S \in SUBSET Tasks, Start(w, S) PROVE OneToken(u)'
  BY <1>22 DEF Start, Active
<1> QED
  BY <1>1, <1>2, <1>3, <1>4, <1>5, <1>6, <1>7, <1>8, <1>9, <1>10, <1>11, <1>12,
     <1>13, <1>14, <1>15, <1>16, <1>17, <1>18, <1>19, <1>20, <1>21, <1>22, <1>23
  DEF Next, Operator, HandlerStep, WorkerStep

\* No interleaving of creation, approval, claims, results and crashes duplicates
\* the token of a task.
THEOREM TokenIsUnique == Spec => []SingleToken
  BY TypeInit, TypeStep, TokenInit, TokenStep, PTL DEF Spec

\* No task is executed by two workers at once (executeTask).
THEOREM OneWorkerPerTask == Spec => []NoDoubleExecution
<1>1. SingleToken => NoDoubleExecution
  BY DEF SingleToken, OneToken, NoDoubleExecution, Executing, Carries, Busy, WorkerPC
<1> QED
  BY <1>1, TokenIsUnique, PTL

(***************************************************************************)
(* Safety: a queued task has somebody who will look at it, or a recorded   *)
(* fault.                                                                  *)
(***************************************************************************)

\* Every step that queues a task leaves a handler or a fault behind, and every
\* step that takes its last carrier away unqueues it or records the fault.
LEMMA NotLostStep == TypeOK /\ QueuedNotLost /\ [Next]_vars => QueuedNotLost'
<1> SUFFICES ASSUME TypeOK, QueuedNotLost, [Next]_vars,
                    NEW u \in Tasks, state'[u] = "queued"
             PROVE  Runnable(u)' \/ lost'[u] # "no"
  BY DEF QueuedNotLost
<1> DEFINE Found == Runnable(u)' \/ lost'[u] # "no"
<1>0. state[u] = "queued" => Runnable(u) \/ lost[u] # "no"
  BY DEF QueuedNotLost
<1> USE <1>0, TasksAssumption, BoundsAssumption
    DEF TypeOK, Runnable, Enqueues, WorkerPC, HandlerPC, Busy, Enqueuing,
        HandlerAt, HandlerTakes, HandlerDone, WorkerAt, WorkerTakes,
        ReleaseTask, store, workers, handler
<1>1. CASE UNCHANGED vars
  BY <1>1 DEF vars
<1>2. ASSUME NEW t \in Tasks, NEW s \in TaskState, UpdateTask(t, s) PROVE Found
  BY <1>2 DEF UpdateTask, UpdateTaskState
<1>3. ASSUME NEW t \in Tasks, UpdateTaskToQueued(t) PROVE Found
  BY <1>3 DEF UpdateTaskToQueued
<1>4. ASSUME NEW t \in Tasks, CancelTask(t) PROVE Found
  BY <1>4 DEF CancelTask, UpdateTaskState
<1>5. ASSUME NEW t \in Tasks, Reject(t) PROVE Found
  BY <1>5 DEF Reject, UpdateTaskState
<1>6. ASSUME NEW t \in Tasks, NEW h \in Handlers, CreateCheckGlobal(h, t) PROVE Found
  BY <1>6 DEF CreateCheckGlobal
<1>7. ASSUME NEW t \in Tasks, NEW h \in Handlers, Approve(h, t) PROVE Found
  BY <1>7 DEF Approve, UpdateTaskState
<1>8. ASSUME NEW t \in Tasks, NEW h \in Handlers, QueueTaskForLaunch(h, t) PROVE Found
  BY <1>8 DEF QueueTaskForLaunch
<1>9. ASSUME NEW h \in Handlers, CreateCheckAgent(h) PROVE Found
  BY <1>9 DEF CreateCheckAgent
<1>10. ASSUME NEW h \in Handlers, CreateInsert(h) PROVE Found
  BY <1>10 DEF CreateInsert
<1>11. ASSUME NEW h \in Handlers, EnqueueTask(h) PROVE Found
  BY <1>11 DEF EnqueueTask
<1>12. ASSUME NEW h \in Handlers, EnqueueFails(h) PROVE Found
  BY <1>12, QueuedFacts DEF EnqueueFails, TryUpdateTaskState, UpdateTaskState
<1>13. ASSUME NEW h \in Handlers, HandlerAborts(h) PROVE Found
  BY <1>13 DEF HandlerAborts, Lose
<1>14. ASSUME NEW w \in Workers, ClaimAssigned(w) PROVE Found
  BY <1>14 DEF ClaimAssigned, UpdateTaskState
<1>15. ASSUME NEW w \in Workers, ClaimInProgress(w) PROVE Found
  BY <1>15 DEF ClaimInProgress, TryUpdateTaskState, UpdateTaskState
<1>16. ASSUME NEW w \in Workers, ExecuteTask(w) PROVE Found
  BY <1>16 DEF ExecuteTask
<1>17. ASSUME NEW w \in Workers, RequestApproval(w) PROVE Found
  BY <1>17 DEF RequestApproval, Ask, UpdateTaskState
<1>23. ASSUME NEW w \in Workers, ApprovalRequestFails(w) PROVE Found
  BY <1>23 DEF ApprovalRequestFails, Ask, TryUpdateTaskState, UpdateTaskState
<1>18. ASSUME NEW w \in Workers, NEW s \in {"completed", "failed"}, FinishTask(w, s)
       PROVE Found
  BY <1>18 DEF FinishTask, TryUpdateTaskState, UpdateTaskState
<1>19. ASSUME NEW w \in Workers, WorkerGivesUp(w) PROVE Found
  BY <1>19 DEF WorkerGivesUp, Lose
<1>20. ASSUME NEW w \in Workers, Crash(w) PROVE Found
  BY <1>20 DEF Crash, Lose
<1>21. ASSUME NEW w \in Workers, NEW t \in Tasks, DequeueTask(w, t) PROVE Found
  BY <1>21 DEF DequeueTask
<1>22. ASSUME NEW w \in Workers, NEW S \in SUBSET Tasks, Start(w, S) PROVE Found
  BY <1>22 DEF Start, Active
<1> QED
  BY <1>1, <1>2, <1>3, <1>4, <1>5, <1>6, <1>7, <1>8, <1>9, <1>10, <1>11, <1>12,
     <1>13, <1>14, <1>15, <1>16, <1>17, <1>18, <1>19, <1>20, <1>21, <1>22, <1>23
  DEF Next, Operator, HandlerStep, WorkerStep

\* The recorded faults are all there are: without one of them a queued task is
\* in Redis, about to be put there, or just popped.
THEOREM QueuedIsFound == Spec => []QueuedNotLost
<1>1. Init => QueuedNotLost
  BY DEF Init, QueuedNotLost
<1> QED
  BY <1>1, TypeInit, TypeStep, NotLostStep, PTL DEF Spec

(***************************************************************************)
(* Refinement: the rows implement TaskLife.                                *)
(***************************************************************************)

\* Every step is a step of TaskLife or leaves the rows alone: a transition of
\* the table, an insert, a launch or the recovery statement.
LEMMA RowStep == TypeOK /\ [Next]_vars => [TL!Next]_state
<1> SUFFICES ASSUME TypeOK, [Next]_vars PROVE TL!Next \/ UNCHANGED state
  OBVIOUS
<1> USE DEF store
<1> DEFINE Moves == \E t \in Tasks, s \in TaskState : TL!Transition(t, s)
<1>1. Moves => TL!Next
  BY DEF TL!Next, TL!TaskState, TaskState
<1>2. ASSUME NEW t \in Tasks, NEW s, UpdateTaskState(t, s) PROVE Moves
  <2>1. s \in TaskState
    BY <1>2, TransitionFacts DEF UpdateTaskState
  <2>2. TL!Transition(t, s)
    BY <1>2 DEF UpdateTaskState, TL!Transition, TL!IsValidTransition,
       IsValidTransition, TL!ValidTransitions, ValidTransitions
  <2> QED
    BY <2>1, <2>2
<1>3. ASSUME NEW t \in Tasks, NEW s, TryUpdateTaskState(t, s)
      PROVE Moves \/ UNCHANGED state
  BY <1>2, <1>3 DEF TryUpdateTaskState
<1>4. ASSUME NEW t \in Tasks, Operator(t) PROVE TL!Next \/ UNCHANGED state
  <2>1. CASE \E s \in TaskState : UpdateTask(t, s)
    BY <2>1, <1>1, <1>2 DEF UpdateTask
  <2>2. CASE UpdateTaskToQueued(t)
    <3>1. TL!Transition(t, "queued") /\ "queued" \in TaskState
      BY <2>2 DEF UpdateTaskToQueued, TL!Transition, TL!IsValidTransition, TaskState,
         IsValidTransition, TL!ValidTransitions, ValidTransitions
    <3> QED
      BY <3>1, <1>1
  <2>3. CASE CancelTask(t)
    BY <2>3, <1>1, <1>2 DEF CancelTask
  <2>4. CASE Reject(t)
    BY <2>4, <1>1, <1>2 DEF Reject
  <2>5. ASSUME NEW h \in Handlers, CreateCheckGlobal(h, t) PROVE UNCHANGED state
    BY <2>5 DEF CreateCheckGlobal
  <2>6. ASSUME NEW h \in Handlers, Approve(h, t) PROVE TL!Next
    BY <2>6, <1>1, <1>2 DEF Approve
  <2>7. ASSUME NEW h \in Handlers, QueueTaskForLaunch(h, t) PROVE TL!Next
    <3>1. TL!Launch(t)
      BY <2>7 DEF QueueTaskForLaunch, TL!Launch, TL!LaunchableFrom, LaunchableFrom
    <3> QED
      BY <3>1 DEF TL!Next
  <2> QED
    BY <1>4, <2>1, <2>2, <2>3, <2>4, <2>5, <2>6, <2>7 DEF Operator
<1>5. ASSUME NEW h \in Handlers, HandlerStep(h) PROVE TL!Next \/ UNCHANGED state
  <2>1. CASE CreateInsert(h)
    <3>1. htask[h] \in Tasks
      BY <2>1 DEF CreateInsert, TypeOK
    <3>2. TL!Insert(htask[h]) \/ UNCHANGED state
      BY <2>1 DEF CreateInsert, TL!Insert
    <3> QED
      BY <3>1, <3>2 DEF TL!Next
  <2>2. CASE EnqueueFails(h)
    <3>1. htask[h] \in Tasks /\ TryUpdateTaskState(htask[h], "cancelled")
      BY <2>2 DEF EnqueueFails, TypeOK
    <3> QED
      BY <3>1, <1>1, <1>3
  <2>3. CASE CreateCheckAgent(h) \/ EnqueueTask(h) \/ HandlerAborts(h)
    BY <2>3 DEF CreateCheckAgent, EnqueueTask, HandlerAborts
  <2> QED
    BY <1>5, <2>1, <2>2, <2>3 DEF HandlerStep
<1>6. ASSUME NEW w \in Workers, WorkerStep(w) PROVE TL!Next \/ UNCHANGED state
  <2>1. wtask[w] \in Tasks
    BY <1>6 DEF WorkerStep, ClaimAssigned, ClaimInProgress, ExecuteTask, FinishTask,
       RequestApproval, ApprovalRequestFails, WorkerGivesUp, TypeOK, Busy, WorkerPC
  <2>2. CASE ClaimAssigned(w)
    BY <2>1, <2>2, <1>1, <1>2 DEF ClaimAssigned
  <2>3. CASE ClaimInProgress(w)
    BY <2>1, <2>3, <1>1, <1>3 DEF ClaimInProgress
  <2>4. CASE RequestApproval(w) \/ ApprovalRequestFails(w)
    BY <2>1, <2>4, <1>1, <1>2, <1>3 DEF RequestApproval, ApprovalRequestFails
  <2>5. CASE \E s \in {"completed", "failed"} : FinishTask(w, s)
    BY <2>1, <2>5, <1>1, <1>3 DEF FinishTask
  <2>6. CASE ExecuteTask(w) \/ WorkerGivesUp(w)
    BY <2>6 DEF ExecuteTask, WorkerGivesUp
  <2> QED
    BY <1>6, <2>2, <2>3, <2>4, <2>5, <2>6 DEF WorkerStep
<1>7. ASSUME NEW w \in Workers, NEW S \in SUBSET Tasks, Start(w, S) PROVE TL!Next
  <2>1. TL!Requeue(S)
    BY <1>7 DEF Start, TL!Requeue, TL!Active, Active
  <2> QED
    BY <2>1 DEF TL!Next
<1>8. ASSUME NEW w \in Workers, Crash(w) \/ \E t \in Tasks : DequeueTask(w, t)
      PROVE UNCHANGED state
  BY <1>8 DEF Crash, DequeueTask
<1>9. CASE UNCHANGED vars
  BY <1>9 DEF vars
<1> QED
  BY <1>4, <1>5, <1>6, <1>7, <1>8, <1>9 DEF Next

\* The task table behaves as TaskLife promises.
THEOREM RowsImplementTaskLife == Spec => ImplementsTaskLife
<1>1. Init => TL!Init
  BY DEF Init, TL!Init
<1> QED
  BY <1>1, TypeInit, TypeStep, RowStep, PTL DEF Spec, ImplementsTaskLife, TL!Spec

(***************************************************************************)
(* What TaskLife allows a finished row.                                    *)
(***************************************************************************)

\* A finished task stays as it is, but for the relaunch of a failed or cancelled
\* initiative task: late results, patches and recovery leave it alone.
THEOREM FinishedStaysFinished == Spec => TerminalIsFinal
<1>1. TypeOK /\ [TL!Next]_state => \A t \in Tasks : FinalStep(t)
  <2> SUFFICES ASSUME TypeOK, [TL!Next]_state, NEW t \in Tasks PROVE FinalStep(t)
    OBVIOUS
  <2> USE DEF TypeOK, FinalStep, Terminal
  <2>1. CASE UNCHANGED state
    BY <2>1
  <2>2. ASSUME NEW u \in Tasks, TL!Insert(u) PROVE FinalStep(t)
    BY <2>2 DEF TL!Insert
  <2>3. ASSUME NEW u \in Tasks, TL!Launch(u) PROVE FinalStep(t)
    BY <2>3 DEF TL!Launch, TL!LaunchableFrom
  <2>4. ASSUME NEW u \in Tasks, NEW s, TL!Transition(u, s) PROVE FinalStep(t)
    <3>1. IsValidTransition(state[u], s)
      BY <2>4, Zenon DEF TL!Transition, TL!IsValidTransition, IsValidTransition,
         TL!ValidTransitions, ValidTransitions
    <3>2. state[u] \notin Terminal
      BY <3>1, TransitionFacts
    <3> QED
      BY <2>4, <3>2 DEF TL!Transition
  <2>5. ASSUME NEW S \in SUBSET Tasks, TL!Requeue(S) PROVE FinalStep(t)
    BY <2>5 DEF TL!Requeue, TL!Active
  <2>6. ASSUME NEW S \in SUBSET Tasks, NEW u \in Tasks, TL!RequeueAndClaim(S, u)
        PROVE FinalStep(t)
    BY <2>6 DEF TL!RequeueAndClaim, TL!Active
  <2> QED
    BY <2>1, <2>2, <2>3, <2>4, <2>5, <2>6 DEF TL!Next
<1> QED
  BY <1>1, TypeInit, TypeStep, RowStep, PTL DEF Spec, TerminalIsFinal

(***************************************************************************)
(* The queue capacity.                                                     *)
(***************************************************************************)

\* A plain task is never asked about, approved or launched: only createTask
\* enqueues it.
OnlyCreated ==
  /\ \A t \in Plain : pending[t] = 0
  /\ \A h \in Handlers : hpc[h] \in {"approved", "launched"} => htask[h] \notin Plain
  /\ \A w \in Workers : wpc[w] = "asking" => wtask[w] \notin Plain

\* OnlyCreated is inductive together with the types.
LEMMA OnlyCreatedStep == TypeOK /\ OnlyCreated /\ [Next]_vars => OnlyCreated'
<1> SUFFICES ASSUME TypeOK, OnlyCreated, [Next]_vars PROVE OnlyCreated'
  OBVIOUS
<1> USE TasksAssumption
    DEF TypeOK, OnlyCreated, Plain, Busy, Enqueuing, WorkerPC, HandlerPC,
        HandlerAt, HandlerTakes, HandlerDone, WorkerAt, WorkerTakes,
        ReleaseTask, store, workers, handler
<1>1. CASE UNCHANGED vars
  BY <1>1 DEF vars
<1>2. ASSUME NEW t \in Tasks, Operator(t) PROVE OnlyCreated'
  <2>1. ASSUME NEW s \in TaskState, UpdateTask(t, s) PROVE OnlyCreated'
    BY <2>1 DEF UpdateTask
  <2>2. CASE UpdateTaskToQueued(t) \/ CancelTask(t)
    BY <2>2 DEF UpdateTaskToQueued, CancelTask
  <2>3. CASE Reject(t)
    BY <2>3 DEF Reject
  <2>4. ASSUME NEW h \in Handlers, CreateCheckGlobal(h, t) PROVE OnlyCreated'
    BY <2>4 DEF CreateCheckGlobal
  <2>5. ASSUME NEW h \in Handlers, Approve(h, t) PROVE OnlyCreated'
    BY <2>5 DEF Approve
  <2>6. ASSUME NEW h \in Handlers, QueueTaskForLaunch(h, t) PROVE OnlyCreated'
    BY <2>6 DEF QueueTaskForLaunch
  <2> QED
    BY <1>2, <2>1, <2>2, <2>3, <2>4, <2>5, <2>6 DEF Operator
<1>3. ASSUME NEW h \in Handlers, HandlerStep(h) PROVE OnlyCreated'
  BY <1>3 DEF HandlerStep, CreateCheckAgent, CreateInsert, EnqueueTask, EnqueueFails,
     HandlerAborts
<1>4. ASSUME NEW w \in Workers, WorkerStep(w) PROVE OnlyCreated'
  <2>1. CASE ExecuteTask(w)
    BY <2>1 DEF ExecuteTask
  <2>2. CASE RequestApproval(w) \/ ApprovalRequestFails(w)
    BY <2>2 DEF RequestApproval, ApprovalRequestFails, Ask
  <2>3. CASE ClaimAssigned(w)
    BY <2>3 DEF ClaimAssigned
  <2>4. CASE ClaimInProgress(w)
    BY <2>4 DEF ClaimInProgress
  <2>5. CASE WorkerGivesUp(w) \/ \E s \in {"completed", "failed"} : FinishTask(w, s)
    BY <2>5 DEF FinishTask, WorkerGivesUp
  <2> QED
    BY <1>4, <2>1, <2>2, <2>3, <2>4, <2>5 DEF WorkerStep
<1>5. ASSUME NEW w \in Workers, Crash(w) PROVE OnlyCreated'
  BY <1>5 DEF Crash
<1>6. ASSUME NEW w \in Workers, NEW t \in Tasks, DequeueTask(w, t) PROVE OnlyCreated'
  BY <1>6 DEF DequeueTask
<1>7. ASSUME NEW w \in Workers, NEW S \in SUBSET Tasks, Start(w, S) PROVE OnlyCreated'
  BY <1>7 DEF Start
<1> QED
  BY <1>1, <1>2, <1>3, <1>4, <1>5, <1>6, <1>7 DEF Next

\* The queued plain tasks; what the capacity check of createTask is about.
PlainQueue == redis \intersect Plain

\* Both counted sets are finite.
LEMMA CountedSets ==
  ASSUME TypeOK
  PROVE  /\ IsFiniteSet(redis) /\ Cardinality(redis) \in Nat
         /\ IsFiniteSet(PlainQueue) /\ Cardinality(PlainQueue) \in Nat
         /\ Cardinality(PlainQueue) <= Cardinality(redis)
         /\ IsFiniteSet(InFlight) /\ Cardinality(InFlight) \in Nat
         /\ Cardinality(InFlight) <= Cardinality(Handlers)
         /\ Cardinality(Handlers) \in Nat
<1>1. IsFiniteSet(redis) /\ Cardinality(redis) \in Nat
  BY FiniteAssumption, FS_Subset, FS_CardinalityType DEF TypeOK
<1>2. PlainQueue \in SUBSET redis /\ InFlight \in SUBSET Handlers
  BY DEF PlainQueue, InFlight
<1>3. /\ IsFiniteSet(PlainQueue) /\ IsFiniteSet(InFlight)
      /\ Cardinality(PlainQueue) <= Cardinality(redis)
      /\ Cardinality(InFlight) <= Cardinality(Handlers)
  BY <1>1, <1>2, FiniteAssumption, FS_Subset
<1> QED
  BY <1>1, <1>3, FiniteAssumption, FS_CardinalityType

\* Only the first depth check admits a request and only EnqueueTask adds to the
\* queue; every other step shrinks both sets.
LEMMA CountsShrink ==
  ASSUME TypeOK, OnlyCreated, [Next]_vars,
         \A h \in Handlers, t \in Tasks : ~CreateCheckGlobal(h, t),
         \A h \in Handlers : ~EnqueueTask(h)
  PROVE  PlainQueue' \subseteq PlainQueue /\ InFlight' \subseteq InFlight
<1> USE TasksAssumption
    DEF TypeOK, OnlyCreated, PlainQueue, InFlight, Plain, Busy, Enqueuing, HandlerPC,
        HandlerAt, HandlerTakes, HandlerDone, store, workers, handler
<1> DEFINE Shrink == PlainQueue' \subseteq PlainQueue /\ InFlight' \subseteq InFlight
<1>1. CASE UNCHANGED vars
  BY <1>1 DEF vars
<1>2. ASSUME NEW t \in Tasks, Operator(t) PROVE Shrink
  <2>1. ASSUME NEW h \in Handlers, Approve(h, t) PROVE Shrink
    BY <2>1 DEF Approve
  <2>2. ASSUME NEW h \in Handlers, QueueTaskForLaunch(h, t) PROVE Shrink
    BY <2>2 DEF QueueTaskForLaunch
  <2>3. ASSUME UpdateTaskToQueued(t) \/ CancelTask(t) \/ Reject(t) \/
               \E s \in TaskState : UpdateTask(t, s)
        PROVE  Shrink
    BY <2>3 DEF UpdateTaskToQueued, CancelTask, Reject, UpdateTask
  <2> QED
    BY <1>2, <2>1, <2>2, <2>3 DEF Operator
<1>3. ASSUME NEW h \in Handlers, HandlerStep(h) PROVE Shrink
  BY <1>3 DEF HandlerStep, CreateCheckAgent, CreateInsert, EnqueueFails, HandlerAborts
<1>4. ASSUME NEW w \in Workers, WorkerStep(w) PROVE Shrink
  BY <1>4 DEF WorkerStep, ClaimAssigned, ClaimInProgress, ExecuteTask, RequestApproval,
     ApprovalRequestFails, FinishTask, WorkerGivesUp
<1>5. ASSUME NEW w \in Workers, Crash(w) PROVE Shrink
  BY <1>5 DEF Crash
<1>6. ASSUME NEW w \in Workers, NEW t \in Tasks, DequeueTask(w, t) PROVE Shrink
  BY <1>6 DEF DequeueTask
<1>7. ASSUME NEW w \in Workers, NEW S \in SUBSET Tasks, Start(w, S) PROVE Shrink
  BY <1>7 DEF Start
<1> QED
  BY <1>1, <1>2, <1>3, <1>4, <1>5, <1>6, <1>7 DEF Next

\* A request is admitted below the maximum, and its entry replaces it in the sum.
LEMMA OvershootStep ==
  TypeOK /\ OnlyCreated /\ QueueOvershootBounded /\ [Next]_vars => QueueOvershootBounded'
<1> SUFFICES ASSUME TypeOK, OnlyCreated, QueueOvershootBounded, [Next]_vars
             PROVE  QueueOvershootBounded'
  OBVIOUS
<1> DEFINE q == Cardinality(PlainQueue)
           f == Cardinality(InFlight)
           n == Cardinality(Handlers)
<1>1. TypeOK'
  BY TypeStep
<1>2. /\ IsFiniteSet(PlainQueue) /\ IsFiniteSet(InFlight)
      /\ q \in Nat /\ f \in Nat /\ n \in Nat
      /\ q <= Cardinality(redis) /\ Cardinality(redis) \in Nat
  BY CountedSets
<1>3. q' \in Nat /\ f' \in Nat /\ f' <= n
  <2>1. /\ Cardinality(PlainQueue') \in Nat
        /\ Cardinality(InFlight') \in Nat /\ Cardinality(InFlight') <= n
    <3>1. redis' \subseteq Tasks
      BY <1>1 DEF TypeOK
    <3>2. PlainQueue' \in SUBSET Tasks /\ InFlight' \in SUBSET Handlers
      BY <3>1 DEF PlainQueue, InFlight
    <3> QED
      BY <3>2, FiniteAssumption, FS_Subset, FS_CardinalityType
  <2> QED
    BY <2>1
<1>4. q + f <= QueueMaxGlobal - 1 + n
  BY DEF QueueOvershootBounded, PlainQueue
<1> SUFFICES q' + f' <= QueueMaxGlobal - 1 + n
  BY DEF QueueOvershootBounded, PlainQueue
<1>5. ASSUME NEW h \in Handlers, NEW t \in Tasks, CreateCheckGlobal(h, t)
      PROVE  q' + f' <= QueueMaxGlobal - 1 + n
  <2>1. q' = q /\ Cardinality(redis) < QueueMaxGlobal
    BY <1>5 DEF CreateCheckGlobal, PlainQueue
  <2> QED
    BY <2>1, <1>2, <1>3, BoundsAssumption
<1>6. ASSUME NEW h \in Handlers, EnqueueTask(h)
      PROVE  q' + f' <= QueueMaxGlobal - 1 + n
  <2>1. /\ redis' = redis \union {htask[h]} /\ hpc[h] \in Enqueuing
        /\ hpc' = [hpc EXCEPT ![h] = "idle"] /\ htask' = [htask EXCEPT ![h] = NoTask]
    BY <1>6 DEF EnqueueTask, HandlerDone, HandlerTakes
  <2>2. InFlight' = InFlight \ {h}
    BY <2>1, TasksAssumption DEF InFlight, TypeOK, Plain
  <2>3. CASE htask[h] \in Plain
    <3>1. h \in InFlight
      BY <2>1, <2>3 DEF InFlight, OnlyCreated, Enqueuing
    <3>2. PlainQueue' = PlainQueue \union {htask[h]}
      BY <2>1, <2>3 DEF PlainQueue
    <3>3. Cardinality(InFlight \ {h}) = f - 1
      BY <3>1, <1>2, FS_RemoveElement
    <3>4. Cardinality(PlainQueue \union {htask[h]}) <= q + 1
      <4>1. Cardinality(PlainQueue \union {htask[h]})
              = IF htask[h] \in PlainQueue THEN q ELSE q + 1
        BY <1>2, FS_AddElement
      <4> HIDE DEF q
      <4> QED
        BY <4>1, <1>2
    <3> QED
      BY <2>2, <3>2, <3>3, <3>4, <1>2, <1>3, <1>4, BoundsAssumption
  <2>4. CASE htask[h] \notin Plain
    <3>1. PlainQueue' = PlainQueue
      BY <2>1, <2>4 DEF PlainQueue
    <3>2. Cardinality(InFlight \ {h}) <= f
      <4>1. InFlight \ {h} \in SUBSET InFlight
        OBVIOUS
      <4> QED
        BY <4>1, <1>2, FS_Subset
    <3> QED
      BY <2>2, <3>1, <3>2, <1>2, <1>3, <1>4, BoundsAssumption
  <2> QED
    BY <2>3, <2>4
<1>7. ASSUME \A h \in Handlers, t \in Tasks : ~CreateCheckGlobal(h, t),
             \A h \in Handlers : ~EnqueueTask(h)
      PROVE  q' + f' <= QueueMaxGlobal - 1 + n
  <2>1. PlainQueue' \in SUBSET PlainQueue /\ InFlight' \in SUBSET InFlight
    BY <1>7, CountsShrink
  <2>2. Cardinality(PlainQueue') <= q /\ Cardinality(InFlight') <= f
    BY <2>1, <1>2, FS_Subset
  <2> QED
    BY <2>2, <1>2, <1>3, <1>4, BoundsAssumption
<1> QED
  BY <1>5, <1>6, <1>7

\* However many requests race through the depth checks of createTask, the queue
\* of plain tasks exceeds its maximum by less than the number of handlers.
THEOREM OvershootIsBounded == Spec => []QueueOvershootBounded
<1>1. Init => OnlyCreated
  BY TasksAssumption DEF Init, OnlyCreated, Plain
<1>2. Init => QueueOvershootBounded
  <2> SUFFICES ASSUME Init PROVE QueueOvershootBounded
    OBVIOUS
  <2>1. redis \intersect Plain = {} /\ InFlight = {}
    BY DEF Init, InFlight
  <2>2. Cardinality({}) = 0 /\ Cardinality(Handlers) \in Nat
    BY FS_EmptySet, FiniteAssumption, FS_CardinalityType
  <2>3. Cardinality(redis \intersect Plain) = 0 /\ Cardinality(InFlight) = 0
    BY <2>1, <2>2
  <2> QED
    BY <2>2, <2>3, BoundsAssumption DEF QueueOvershootBounded
<1> QED
  BY <1>1, <1>2, TypeInit, TypeStep, OnlyCreatedStep, OvershootStep, PTL DEF Spec
=============================================================================
