------------------------- MODULE PlannerTreeProofs -------------------------
(***************************************************************************)
(* Proofs about PlannerTree for plans of any length and kind and any       *)
(* number of concurrent reconcilers.                                       *)
(***************************************************************************)
EXTENDS PlannerTree, TLAPS

\* Nothing leaves a terminal state or an absent row along the table, and the
\* table leads to states only.
LEMMA TransitionFacts ==
  ASSUME NEW s, NEW x, IsValidTransition(s, x)
  PROVE  s \notin Terminal /\ s # "absent" /\ x \in TaskState
  BY DEF IsValidTransition, ValidTransitions, TaskState, Terminal

\* What reconcileRootTask concludes from the rows it read.
LEMMA VerdictFacts ==
  /\ Verdict \in {"idle", "failed", "completed"}
  /\ Verdict = "failed" => \E k \in Kids : kid[k] \in {"failed", "cancelled"}
  BY DEF Verdict, Created

(***************************************************************************)
(* Types.                                                                  *)
(***************************************************************************)

\* The initial state is well typed.
LEMMA TypeInit == Init => TypeOK
  BY PlanAssumption, TreeBounds
  DEF Init, TypeOK, Kids, TaskState, PlannerPC, ReconcilePC

\* PlaceAs moves the subtask at hand, or ends the loop with an error.
LEMMA PlaceFacts ==
  ASSUME TypeOK, next \in Kids, NEW s, PlaceAs(s)
  PROVE  /\ kid' \in [Kids -> TaskState \union {"absent"}]
         /\ next' \in 1..(N + 1) /\ ppc' \in PlannerPC
         /\ ppc' \in {"create", "place", "queue"} => next' \in Kids /\ ppc' = "create"
         /\ \/ kid' = kid /\ next' = next /\ ppc' = "fail"
            \/ /\ kid[next] \notin Terminal /\ kid[next] # "absent"
               /\ kid' = [kid EXCEPT ![next] = s] /\ next' = next + 1
<1>1. CASE IsValidTransition(kid[next], s)
  <2>1. s \in TaskState /\ kid[next] \notin Terminal /\ kid[next] # "absent"
    BY <1>1, TransitionFacts
  <2>2. kid' = [kid EXCEPT ![next] = s] /\ next' = next + 1
        /\ ppc' = IF next = N THEN "store" ELSE "create"
    BY <1>1 DEF PlaceAs, SetKid, Advance
  <2> QED
    BY <2>1, <2>2, PlanAssumption DEF TypeOK, Kids, PlannerPC
<1>2. CASE ~IsValidTransition(kid[next], s)
  BY <1>2 DEF PlaceAs, TypeOK, PlannerPC
<1> QED
  BY <1>1, <1>2

\* Every step of the planner, the runners, the operators and the reconcilers
\* keeps the types; the planner stays inside its plan.
LEMMA TypeStep == TypeOK /\ [Next]_vars => TypeOK'
<1> SUFFICES ASSUME TypeOK, [Next]_vars PROVE TypeOK'
  OBVIOUS
<1> USE PlanAssumption, TreeBounds
    DEF TypeOK, PlannerPC, ReconcilePC, Reconciles
<1>1. CASE UNCHANGED vars
  BY <1>1 DEF vars
<1>2. CASE CreateKid
  BY <1>2 DEF CreateKid, TaskState
<1>3. CASE PlaceKid
  BY <1>3, PlaceFacts DEF PlaceKid
<1>4. CASE EnqueueKid
  BY <1>4 DEF EnqueueKid
<1>5. CASE QueueKid
  BY <1>5, PlaceFacts DEF QueueKid
<1>6. CASE StoreResults \/ FailPlanner
  BY <1>6 DEF StoreResults, FailPlanner, TaskState
<1>7. CASE PlannerError \/ PlannerDies
  BY <1>7 DEF PlannerError, PlannerDies
<1>8. ASSUME NEW k \in Kids, ClaimRemote(k) \/ ClaimLocal(k) PROVE TypeOK'
  BY <1>8 DEF ClaimRemote, ClaimLocal, TaskState
<1>9. ASSUME NEW r \in Reconcilers, NEW k \in Kids, NEW s, FinishKid(r, k, s)
      PROVE  TypeOK'
  BY <1>9, TransitionFacts DEF FinishKid, SetKid
<1>10. ASSUME NEW r \in Reconcilers, NEW k \in Kids, NEW s, ResolveApproval(r, k, s)
       PROVE  TypeOK'
  BY <1>10, TransitionFacts DEF ResolveApproval, SetKid
<1>11. ASSUME NEW k \in Kids, CancelKid(k) PROVE TypeOK'
  BY <1>11, TransitionFacts DEF CancelKid, SetKid
<1>12. ASSUME NEW r \in Reconcilers, NEW k \in Kids, NEW s, UpdateKid(r, k, s)
       PROVE  TypeOK'
  BY <1>12, TransitionFacts DEF UpdateKid, SetKid
<1>13. ASSUME NEW s, UpdateRoot(s) PROVE TypeOK'
  BY <1>13, TransitionFacts DEF UpdateRoot
<1>14. ASSUME NEW S \in SUBSET Kids, NEW withRoot \in BOOLEAN, Recover(S, withRoot)
       PROVE  TypeOK'
  BY <1>14 DEF Recover, TaskState
<1>15. ASSUME NEW r \in Reconcilers, ReconcileRead(r) PROVE TypeOK'
  BY <1>15, VerdictFacts DEF ReconcileRead
<1>16. ASSUME NEW r \in Reconcilers, ReconcileWrite(r) PROVE TypeOK'
  BY <1>16 DEF ReconcileWrite, TaskState
<1>17. ASSUME NEW r \in Reconcilers, ReconcileDies(r) PROVE TypeOK'
  BY <1>17 DEF ReconcileDies
<1>18. ASSUME NEW r \in Reconcilers, NEW k \in Kids, NEW s, RefuseResult(r, k, s)
       PROVE  TypeOK'
  BY <1>18 DEF RefuseResult
<1> QED
  BY <1>1, <1>2, <1>3, <1>4, <1>5, <1>6, <1>7, <1>8, <1>9, <1>10, <1>11, <1>12,
     <1>13, <1>14, <1>15, <1>16, <1>17, <1>18
  DEF Next, PlannerStep, RunKid, Reconcile

\* Type correctness of the tree of rows and of its processes.
THEOREM TypeCorrect == Spec => []TypeOK
  BY TypeInit, TypeStep, PTL DEF Spec

(***************************************************************************)
(* Why a root is failed.                                                   *)
(***************************************************************************)

\* Subtasks the planner has not come to do not exist, so CreateTask never
\* overwrites a subtask that failed.
Ahead == \A k \in Kids : k > next \/ (k = next /\ ppc = "create") => kid[k] = "absent"

HasFailed == \E k \in Kids : kid[k] \in {"failed", "cancelled"}

\* Every reconciler that is about to fail the root has seen a failed subtask, and
\* that subtask is still failed.
Caused == (message = "subtasks" \/ \E r \in Reconcilers : rpc[r] = "failed") => HasFailed

\* Every step leaves the failed subtasks failed and the plan ahead untouched.
LEMMA KidsStep ==
  ASSUME TypeOK, Ahead, [Next]_vars
  PROVE  /\ Ahead'
         /\ \A k \in Kids : kid[k] \in Terminal => kid'[k] = kid[k]
<1> DEFINE Good == Ahead' /\ \A k \in Kids : kid[k] \in Terminal => kid'[k] = kid[k]
<1> USE PlanAssumption DEF TypeOK, Ahead, Kids, Terminal
<1>1. ASSUME UNCHANGED <<kid, next, ppc>> PROVE Good
  BY <1>1
<1>2. ASSUME UNCHANGED <<next, ppc>>,
             NEW k \in Kids, NEW s, SetKid(k, s)
      PROVE  Good
  BY <1>2, TransitionFacts DEF SetKid
<1>3. ASSUME UNCHANGED <<kid, next>>, ppc' # "create" PROVE Good
  BY <1>3
<1>4. CASE CreateKid
  BY <1>4 DEF CreateKid
<1>5. CASE PlaceKid \/ QueueKid
  <2>1. PICK s : PlaceAs(s)
    BY <1>5 DEF PlaceKid, QueueKid
  <2>2. next \in Kids
    BY <1>5 DEF PlaceKid, QueueKid
  <2> QED
    BY <2>1, <2>2, PlaceFacts
<1>6. CASE EnqueueKid \/ StoreResults \/ FailPlanner \/ PlannerError \/ PlannerDies
  BY <1>6, <1>3 DEF EnqueueKid, StoreResults, FailPlanner, PlannerError, PlannerDies
<1>7. ASSUME NEW k \in Kids, ClaimRemote(k) \/ ClaimLocal(k) PROVE Good
  BY <1>7 DEF ClaimRemote, ClaimLocal
<1>8. ASSUME NEW S \in SUBSET Kids, NEW withRoot \in BOOLEAN, Recover(S, withRoot)
      PROVE  Good
  BY <1>8 DEF Recover, Active
<1>9. ASSUME NEW r \in Reconcilers, NEW k \in Kids, NEW s,
             FinishKid(r, k, s) \/ ResolveApproval(r, k, s) \/ UpdateKid(r, k, s)
      PROVE  Good
  BY <1>9, <1>2 DEF FinishKid, ResolveApproval, UpdateKid
<1>10. ASSUME NEW k \in Kids, CancelKid(k) PROVE Good
  BY <1>10, <1>2 DEF CancelKid
<1>11. ASSUME UNCHANGED vars \/ (\E s \in TaskState : UpdateRoot(s)) \/
              (\E r \in Reconcilers : Reconcile(r) \/ ReconcileDies(r)) \/
              (\E r \in Reconcilers, k \in Kids, s \in {"completed", "failed"} : RefuseResult(r, k, s))
       PROVE  Good
  BY <1>11, <1>1 DEF vars, UpdateRoot, Reconcile, ReconcileRead, ReconcileWrite,
     ReconcileDies, RefuseResult
<1> QED
  BY <1>4, <1>5, <1>6, <1>7, <1>8, <1>9, <1>10, <1>11 DEF Next, PlannerStep, RunKid

\* Caused is inductive: a verdict is taken from failed rows, which stay failed.
LEMMA CausedStep == TypeOK /\ Ahead /\ Caused /\ [Next]_vars => Ahead' /\ Caused'
<1> SUFFICES ASSUME TypeOK, Ahead, Caused, [Next]_vars PROVE Ahead' /\ Caused'
  OBVIOUS
<1> DEFINE Seen == message' = "subtasks" \/ (\E r \in Reconcilers : rpc'[r] = "failed")
                     => HasFailed
<1>1. Ahead' /\ (HasFailed => HasFailed')
  BY KidsStep DEF HasFailed, Terminal, TypeOK
<1>2. Seen
  <2> USE DEF TypeOK, Caused, Reconciles
  <2>1. ASSUME NEW r \in Reconcilers, ReconcileRead(r) PROVE Seen
    BY <2>1, VerdictFacts DEF ReconcileRead, HasFailed
  <2>2. ASSUME NEW r \in Reconcilers, ReconcileWrite(r) PROVE Seen
    BY <2>2 DEF ReconcileWrite
  <2>3. ASSUME NEW r \in Reconcilers, ReconcileDies(r) PROVE Seen
    BY <2>3 DEF ReconcileDies
  <2>4. ASSUME NEW r \in Reconcilers, NEW k \in Kids, NEW s,
               FinishKid(r, k, s) \/ RefuseResult(r, k, s) \/ ResolveApproval(r, k, s) \/ UpdateKid(r, k, s)
        PROVE  Seen
    BY <2>4 DEF FinishKid, RefuseResult, ResolveApproval, UpdateKid
  <2>5. ASSUME NEW k \in Kids, ClaimRemote(k) \/ ClaimLocal(k) \/ CancelKid(k) PROVE Seen
    BY <2>5 DEF ClaimRemote, ClaimLocal, CancelKid
  <2>6. CASE PlannerStep \/ PlannerError \/ PlannerDies
    BY <2>6 DEF PlannerStep, CreateKid, PlaceKid, EnqueueKid, QueueKid,
       StoreResults, FailPlanner, PlannerError, PlannerDies
  <2>7. ASSUME UNCHANGED vars \/ (\E s \in TaskState : UpdateRoot(s)) \/
               (\E S \in SUBSET Kids, withRoot \in BOOLEAN : Recover(S, withRoot))
        PROVE  Seen
    BY <2>7 DEF vars, UpdateRoot, Recover
  <2> QED
    BY <2>1, <2>2, <2>3, <2>4, <2>5, <2>6, <2>7 DEF Next, RunKid, Reconcile
<1> QED
  BY <1>1, <1>2 DEF Caused, HasFailed

\* A root that says "One or more subtasks failed" has a failed or cancelled
\* subtask, although the rows were read in an earlier transaction.
THEOREM FailureIsCaused == Spec => []FailureHasCause
<1>1. Init => Ahead /\ Caused
  BY DEF Init, Ahead, Caused
<1>2. Caused => FailureHasCause
  BY DEF Caused, HasFailed, FailureHasCause
<1> QED
  BY <1>1, <1>2, TypeInit, TypeStep, CausedStep, PTL DEF Spec

\* The first verdict on a root stands: stale reconcilers, a failing planner,
\* operators and recovery leave a finished root alone.
THEOREM RootStaysFinal == Spec => RootIsFinal
<1>1. TypeOK /\ [Next]_vars => ((root \in Terminal) => (root' = root /\ message' = message))
  <2> SUFFICES ASSUME TypeOK, [Next]_vars, root \in Terminal
               PROVE  root' = root /\ message' = message
    OBVIOUS
  <2>1. ASSUME NEW s PROVE ~IsValidTransition(root, s)
    BY TransitionFacts
  <2>2. CASE PlannerStep \/ PlannerError \/ PlannerDies
    BY <2>1, <2>2 DEF PlannerStep, CreateKid, PlaceKid, EnqueueKid, QueueKid,
       StoreResults, FailPlanner, PlannerError, PlannerDies
  <2>3. ASSUME NEW k \in Kids, RunKid(k) \/ CancelKid(k) PROVE UNCHANGED <<root, message>>
    BY <2>3 DEF RunKid, ClaimRemote, ClaimLocal, FinishKid, CancelKid
  <2>4. ASSUME NEW r \in Reconcilers, NEW k \in Kids, NEW s,
               RefuseResult(r, k, s) \/ ResolveApproval(r, k, s) \/ UpdateKid(r, k, s)
        PROVE  UNCHANGED <<root, message>>
    BY <2>4 DEF RefuseResult, ResolveApproval, UpdateKid
  <2>5. ASSUME NEW r \in Reconcilers, Reconcile(r) \/ ReconcileDies(r)
        PROVE  UNCHANGED <<root, message>>
    BY <2>1, <2>5 DEF Reconcile, ReconcileRead, ReconcileWrite, ReconcileDies
  <2>6. ASSUME NEW S, NEW withRoot, Recover(S, withRoot)
        PROVE  UNCHANGED <<root, message>>
    BY <2>6 DEF Recover, Active, Terminal
  <2>7. CASE (\E s \in TaskState : UpdateRoot(s)) \/ UNCHANGED vars
    BY <2>1, <2>7 DEF UpdateRoot, vars
  <2> QED
    BY <2>2, <2>3, <2>4, <2>5, <2>6, <2>7 DEF Next
<1> QED
  BY <1>1, TypeInit, TypeStep, PTL DEF Spec, RootIsFinal
=============================================================================
