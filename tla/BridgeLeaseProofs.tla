------------------------- MODULE BridgeLeaseProofs -------------------------
(***************************************************************************)
(* Proofs about BridgeLease for any set of tasks and bridges, any lease    *)
(* time above the heartbeat interval and any bounds.                       *)
(***************************************************************************)
EXTENDS BridgeLease, TLAPS

\* Nothing leaves a terminal state along the table, and the table leads to
\* states only.
LEMMA TransitionFacts ==
  ASSUME NEW s, NEW x, IsValidTransition(s, x)
  PROVE  s \notin Terminal /\ x \in TaskState
  BY DEF IsValidTransition, ValidTransitions, TaskState, Terminal

(***************************************************************************)
(* Types.                                                                  *)
(***************************************************************************)

\* The initial state is well typed.
LEMMA TypeInit == Init => TypeOK
  BY BridgeAssumption, TimeAssumption, CountAssumption
  DEF Init, TypeOK, TaskState, BridgePC

\* Every call of a daemon and every request of an operator keeps the types: a
\* daemon that is past its claim has a task.
LEMMA TypeStep == TypeOK /\ [Next]_vars => TypeOK'
<1> SUFFICES ASSUME TypeOK, [Next]_vars PROVE TypeOK'
  OBVIOUS
<1> USE BridgeAssumption, TimeAssumption, CountAssumption
    DEF TypeOK, BridgePC, BridgeTakes, BridgeLeaves, WriteLease, tasks, lease, daemon
<1>1. CASE UNCHANGED vars
  BY <1>1 DEF vars
<1>2. ASSUME NEW b \in Bridges, NEW t \in Tasks, ClaimResume(b, t) PROVE TypeOK'
  BY <1>2 DEF ClaimResume, TaskState
<1>3. ASSUME NEW b \in Bridges, NEW t \in Tasks, ClaimQueued(b, t) PROVE TypeOK'
  <2>1. retries' \in [Tasks -> 0..RetryCap]
    BY <1>3 DEF ClaimQueued
  <2>2. state' \in [Tasks -> TaskState]
    BY <1>3 DEF ClaimQueued, TaskState
  <2> QED
    BY <1>3, <2>1, <2>2 DEF ClaimQueued
<1>4. ASSUME NEW b \in Bridges, TouchAfterClaim(b) PROVE TypeOK'
  BY <1>4 DEF TouchAfterClaim
<1>5. ASSUME NEW b \in Bridges, Heartbeat(b) PROVE TypeOK'
  BY <1>5 DEF Heartbeat
<1>6. ASSUME NEW b \in Bridges, FinalizeLease(b) PROVE TypeOK'
  BY <1>6 DEF FinalizeLease
<1>7. ASSUME NEW b \in Bridges, FinalizeLeaseFails(b) PROVE TypeOK'
  BY <1>7 DEF FinalizeLeaseFails
<1>8. ASSUME NEW b \in Bridges, NEW s, SubmitAccepted(b, s) PROVE TypeOK'
  <2>1. s \in TaskState
    BY <1>8, TransitionFacts DEF SubmitAccepted
  <2>2. state' \in [Tasks -> TaskState] /\ pending' \in [Tasks -> Nat]
    BY <1>8, <2>1 DEF SubmitAccepted
  <2> QED
    BY <1>8, <2>2 DEF SubmitAccepted
<1>9. ASSUME NEW b \in Bridges, NEW s, SubmitRefused(b, s) PROVE TypeOK'
  BY <1>9 DEF SubmitRefused
<1>10. ASSUME NEW b \in Bridges, Register(b) PROVE TypeOK'
  BY <1>10 DEF Register
<1>11. ASSUME NEW b \in Bridges, Exit(b) PROVE TypeOK'
  BY <1>11 DEF Exit
<1>12. ASSUME NEW t \in Tasks, Approve(t) PROVE TypeOK'
  BY <1>12 DEF Approve, TaskState
<1>13. ASSUME NEW t \in Tasks, Reject(t) PROVE TypeOK'
  BY <1>13 DEF Reject, TaskState
<1>14. ASSUME NEW t \in Tasks, NEW s \in TaskState, UpdateTask(t, s) PROVE TypeOK'
  BY <1>14 DEF UpdateTask
<1>15. CASE Tick
  <2>1. ttl' \in [Tasks -> 0..LeaseTTL]
    BY <1>15 DEF Tick, Less
  <2>2. due' \in [Bridges -> 0..HeartbeatDue]
    BY <1>15 DEF Tick, Less
  <2> QED
    BY <1>15, <2>1, <2>2 DEF Tick
<1> QED
  BY <1>1, <1>2, <1>3, <1>4, <1>5, <1>6, <1>7, <1>8, <1>9, <1>10, <1>11, <1>12,
     <1>13, <1>14, <1>15
  DEF Next, Claim, Finish, Submit

\* Type correctness of rows, leases and daemons.
THEOREM TypeCorrect == Spec => []TypeOK
  BY TypeInit, TypeStep, PTL DEF Spec

(***************************************************************************)
(* Leases.                                                                 *)
(***************************************************************************)

\* Claim, heartbeat and time keep the lease ahead of the heartbeat; whoever else
\* writes the lease takes the name out of it.
LEMMA LeaseStep == TypeOK /\ HeldLeaseIsLive /\ [Next]_vars => HeldLeaseIsLive'
<1> SUFFICES ASSUME TypeOK, HeldLeaseIsLive, [Next]_vars,
                    NEW c \in Bridges \ MayStall, NEW u \in Tasks,
                    bpc'[c] = "executing", btask'[c] = u, holder'[u] = c
             PROVE  ttl'[u] >= due'[c] + (LeaseTTL - HeartbeatDue)
  BY DEF HeldLeaseIsLive
<1> DEFINE Live == ttl'[u] >= due'[c] + (LeaseTTL - HeartbeatDue)
<1>0. bpc[c] = "executing" /\ btask[c] = u /\ holder[u] = c
        => ttl[u] >= due[c] + (LeaseTTL - HeartbeatDue)
  BY DEF HeldLeaseIsLive
<1> USE <1>0, TimeAssumption
    DEF TypeOK, BridgePC, BridgeTakes, BridgeLeaves, WriteLease, tasks, lease, daemon
<1>1. CASE UNCHANGED vars
  BY <1>1 DEF vars
<1>2. ASSUME NEW b \in Bridges, NEW t \in Tasks, ClaimResume(b, t) PROVE Live
  BY <1>2 DEF ClaimResume
<1>3. ASSUME NEW b \in Bridges, NEW t \in Tasks, ClaimQueued(b, t) PROVE Live
  BY <1>3 DEF ClaimQueued
<1>4. ASSUME NEW b \in Bridges, TouchAfterClaim(b) PROVE Live
  BY <1>4 DEF TouchAfterClaim
<1>5. ASSUME NEW b \in Bridges, Heartbeat(b) PROVE Live
  BY <1>5 DEF Heartbeat
<1>6. ASSUME NEW b \in Bridges, FinalizeLease(b) PROVE Live
  BY <1>6 DEF FinalizeLease
<1>7. ASSUME NEW b \in Bridges, FinalizeLeaseFails(b) PROVE Live
  BY <1>7 DEF FinalizeLeaseFails
<1>8. ASSUME NEW b \in Bridges, NEW s, SubmitAccepted(b, s) PROVE Live
  BY <1>8 DEF SubmitAccepted
<1>9. ASSUME NEW b \in Bridges, NEW s, SubmitRefused(b, s) PROVE Live
  BY <1>9 DEF SubmitRefused
<1>10. ASSUME NEW b \in Bridges, Register(b) \/ Exit(b) PROVE Live
  BY <1>10 DEF Register, Exit
<1>11. ASSUME NEW t \in Tasks, Approve(t) \/ Reject(t) PROVE Live
  BY <1>11 DEF Approve, Reject
<1>12. ASSUME NEW t \in Tasks, NEW s \in TaskState, UpdateTask(t, s) PROVE Live
  BY <1>12 DEF UpdateTask
<1>13. CASE Tick
  <2>1. due[c] > 0 /\ ttl[u] >= due[c] + (LeaseTTL - HeartbeatDue)
    BY <1>13 DEF Tick
  <2>2. due'[c] = due[c] - 1 /\ ttl'[u] = ttl[u] - 1
    BY <1>13, <2>1 DEF Tick, Less
  <2> QED
    BY <2>1, <2>2
<1> QED
  BY <1>1, <1>2, <1>3, <1>4, <1>5, <1>6, <1>7, <1>8, <1>9, <1>10, <1>11, <1>12,
     <1>13
  DEF Next, Claim, Finish, Submit

\* The lease of a daemon that keeps its heartbeat never runs out while it
\* executes and the lease names it (TouchLocalBridgeTaskLease).
THEOREM LeaseOutlivesHeartbeat == Spec => []HeldLeaseIsLive
<1>1. Init => HeldLeaseIsLive
  BY DEF Init, HeldLeaseIsLive
<1> QED
  BY <1>1, TypeInit, TypeStep, LeaseStep, PTL DEF Spec

(***************************************************************************)
(* Claims.                                                                 *)
(***************************************************************************)

\* A step in which some bridge claims is one of the two claim transactions.
LEMMA ClaimSteps ==
  ASSUME TypeOK, [Next]_vars, NEW c \in Bridges, Claims(c)
  PROVE  \E t \in Tasks : ClaimResume(c, t) \/ ClaimQueued(c, t)
<1> USE DEF TypeOK, Claims, BridgeTakes, BridgeLeaves, tasks, daemon
<1>1. ~ UNCHANGED vars
  BY DEF vars
<1>2. ASSUME NEW b \in Bridges, Claim(b)
      PROVE  \E t \in Tasks : ClaimResume(c, t) \/ ClaimQueued(c, t)
  <2>1. b = c
    BY <1>2 DEF Claim, ClaimResume, ClaimQueued
  <2> QED
    BY <1>2, <2>1 DEF Claim
<1>3. ASSUME NEW b \in Bridges,
             TouchAfterClaim(b) \/ Heartbeat(b) \/ Register(b) \/ Exit(b) \/ Finish(b)
      PROVE  FALSE
  BY <1>3 DEF TouchAfterClaim, Heartbeat, Register, Exit, Finish, FinalizeLease,
     FinalizeLeaseFails
<1>4. ASSUME NEW b \in Bridges, Submit(b) PROVE FALSE
  BY <1>4 DEF Submit, SubmitAccepted, SubmitRefused
<1>5. ASSUME NEW t \in Tasks,
             Approve(t) \/ Reject(t) \/ \E s \in TaskState : UpdateTask(t, s)
      PROVE  FALSE
  BY <1>5 DEF Approve, Reject, UpdateTask
<1>6. ~Tick
  BY DEF Tick
<1> QED
  BY <1>1, <1>2, <1>3, <1>4, <1>5, <1>6 DEF Next

\* The two claim transactions take one task and touch only it and expired ones.
LEMMA ClaimEffect ==
  ASSUME TypeOK, [Next]_vars, NEW c \in Bridges, Claims(c)
  PROVE  \E t \in Tasks :
           /\ btask'[c] = t
           /\ t \in Resumable(c) \/ t \in Expired(c) \/ state[t] = "queued"
           /\ \A u \in Tasks \ {t} : u \notin Expired(c) => state'[u] = state[u]
<1>1. PICK t \in Tasks : ClaimResume(c, t) \/ ClaimQueued(c, t)
  BY ClaimSteps
<1>2. CASE ClaimResume(c, t)
  BY <1>2 DEF ClaimResume, BridgeTakes, TypeOK
<1>3. CASE ClaimQueued(c, t)
  BY <1>3 DEF ClaimQueued, Claimable, BridgeTakes, TypeOK
<1> QED
  BY <1>1, <1>2, <1>3

\* A daemon that keeps its heartbeat loses no task its lease names
\* (ClaimNextLocalBridgeTaskWithTTL).
THEOREM HolderKeepsTask == Spec => RequeueSparesHolder
<1>1. TypeOK /\ HeldLeaseIsLive /\ [Next]_vars
        => \A b \in Bridges \ MayStall, t \in Tasks : SparesHolder(b, t)
  <2> SUFFICES ASSUME TypeOK, HeldLeaseIsLive, [Next]_vars,
                      NEW b \in Bridges \ MayStall, NEW t \in Tasks,
                      bpc[b] = "executing", btask[b] = t, holder[t] = b,
                      state[t] \in Active,
                      NEW c \in Bridges, Claims(c)
               PROVE  ~Takes(c, t) /\ state'[t] = state[t]
    BY DEF SparesHolder
  <2>1. c # b
    BY DEF Claims
  <2>2. ttl[t] # 0
    BY TimeAssumption DEF HeldLeaseIsLive, TypeOK
  <2>3. t \notin Resumable(c) /\ t \notin Expired(c) /\ state[t] # "queued"
    BY <2>1, <2>2 DEF Resumable, Expired, Active
  <2> QED
    BY <2>3, ClaimEffect DEF Takes
<1>2. Init => HeldLeaseIsLive
  BY DEF Init, HeldLeaseIsLive
<1> QED
  BY <1>1, <1>2, TypeInit, TypeStep, LeaseStep, PTL DEF Spec, RequeueSparesHolder

(***************************************************************************)
(* Refinement, and what follows for results.                               *)
(***************************************************************************)

\* Every step is a step of TaskLife or leaves the rows alone.
LEMMA RowStep == TypeOK /\ [Next]_vars => [TL!Next]_state
<1> SUFFICES ASSUME TypeOK, [Next]_vars PROVE TL!Next \/ UNCHANGED state
  OBVIOUS
<1> USE DEF tasks
<1>1. ASSUME NEW t \in Tasks, NEW s, IsValidTransition(state[t], s),
             state' = [state EXCEPT ![t] = s]
      PROVE  TL!Next
  <2>1. s \in TL!TaskState
    BY <1>1, TransitionFacts DEF TaskState, TL!TaskState
  <2>2. TL!Transition(t, s)
    BY <1>1, Zenon DEF TL!Transition, TL!IsValidTransition, IsValidTransition,
       TL!ValidTransitions, ValidTransitions
  <2> QED
    BY <2>1, <2>2 DEF TL!Next
<1>2. ASSUME NEW b \in Bridges, NEW t \in Tasks, ClaimResume(b, t) PROVE TL!Next
  <2>1. TL!RequeueAndClaim({t}, t)
    BY <1>2 DEF ClaimResume, Resumable, TL!RequeueAndClaim, TL!Active, Active, TypeOK
  <2> QED
    BY <2>1 DEF TL!Next
<1>3. ASSUME NEW b \in Bridges, NEW t \in Tasks, ClaimQueued(b, t) PROVE TL!Next
  <2>1. Expired(b) \in SUBSET Tasks
    BY BridgeAssumption DEF Expired
  <2>2. TL!RequeueAndClaim(Expired(b), t)
    BY <1>3 DEF ClaimQueued, Claimable, Expired, TL!RequeueAndClaim, TL!Active, Active
  <2> QED
    BY <2>1, <2>2 DEF TL!Next
<1>4. ASSUME NEW b \in Bridges, NEW s, SubmitAccepted(b, s) PROVE TL!Next
  <2>1. btask[b] \in Tasks
    BY <1>4 DEF SubmitAccepted, TypeOK
  <2> QED
    BY <1>1, <1>4, <2>1 DEF SubmitAccepted
<1>5. ASSUME NEW t \in Tasks, Approve(t) PROVE TL!Next
  BY <1>1, <1>5 DEF Approve
<1>6. ASSUME NEW t \in Tasks, Reject(t) PROVE TL!Next
  BY <1>1, <1>6 DEF Reject
<1>7. ASSUME NEW t \in Tasks, NEW s, UpdateTask(t, s) PROVE TL!Next
  BY <1>1, <1>7 DEF UpdateTask
<1>8. ASSUME NEW b \in Bridges,
             TouchAfterClaim(b) \/ Heartbeat(b) \/ Finish(b) \/ Register(b) \/ Exit(b)
      PROVE  UNCHANGED state
  BY <1>8 DEF TouchAfterClaim, Heartbeat, Finish, FinalizeLease, FinalizeLeaseFails,
     Register, Exit
<1>9. ASSUME NEW b \in Bridges, NEW s, SubmitRefused(b, s) PROVE UNCHANGED state
  BY <1>9 DEF SubmitRefused
<1>10. CASE Tick \/ UNCHANGED vars
  BY <1>10 DEF Tick, vars
<1> QED
  BY <1>2, <1>3, <1>4, <1>5, <1>6, <1>7, <1>8, <1>9, <1>10 DEF Next, Claim, Submit

\* Under every bridge statement the task table behaves as TaskLife promises.
THEOREM RowsImplementTaskLife == Spec => ImplementsTaskLife
<1>1. Init => TL!Init
  BY DEF Init, TL!Init
<1> QED
  BY <1>1, TypeInit, TypeStep, RowStep, PTL DEF Spec, ImplementsTaskLife, TL!Spec

\* A finished local task keeps its result: a late result is refused, whoever
\* sends it, and no claim takes the task up again (finalizeTask).
THEOREM ResultIsFinal == Spec => FirstResultStands
<1>1. TypeOK /\ [Next]_vars => \A t \in Tasks : ResultStands(t)
  <2> SUFFICES ASSUME TypeOK, [Next]_vars, NEW t \in Tasks, state[t] \in Terminal
               PROVE  state'[t] = state[t] /\ \A b \in Bridges : ~Takes(b, t)
    BY DEF ResultStands
  <2>1. [TL!Next]_state
    BY RowStep
  <2>2. state'[t] = state[t]
    <3> USE DEF TypeOK, Terminal
    <3>1. CASE UNCHANGED state
      BY <3>1
    <3>2. ASSUME NEW u \in Tasks, TL!Insert(u) \/ TL!Launch(u) PROVE state'[t] = state[t]
      BY <3>2 DEF TL!Insert, TL!Launch
    <3>3. ASSUME NEW u \in Tasks, NEW s, TL!Transition(u, s) PROVE state'[t] = state[t]
      <4>1. IsValidTransition(state[u], s)
        BY <3>3, Zenon DEF TL!Transition, TL!IsValidTransition, IsValidTransition,
           TL!ValidTransitions, ValidTransitions
      <4>2. state[u] \notin Terminal
        BY <4>1, TransitionFacts
      <4> QED
        BY <3>3, <4>2 DEF TL!Transition
    <3>4. ASSUME NEW S \in SUBSET Tasks, TL!Requeue(S) PROVE state'[t] = state[t]
      BY <3>4 DEF TL!Requeue, TL!Active
    <3>5. ASSUME NEW S \in SUBSET Tasks, NEW u \in Tasks, TL!RequeueAndClaim(S, u)
          PROVE  state'[t] = state[t]
      BY <3>5 DEF TL!RequeueAndClaim, TL!Active
    <3> QED
      BY <2>1, <3>1, <3>2, <3>3, <3>4, <3>5 DEF TL!Next
  <2>3. ASSUME NEW b \in Bridges PROVE ~Takes(b, t)
    BY ClaimEffect DEF Takes, Resumable, Expired, Active, Terminal
  <2> QED
    BY <2>2, <2>3
<1> QED
  BY <1>1, TypeInit, TypeStep, PTL DEF Spec, FirstResultStands

(***************************************************************************)
(* Approvals.                                                              *)
(***************************************************************************)

\* RequestApproval writes the approval in the transaction that parks the task,
\* and ResolveApproval ends both.
LEMMA ParkedStep == TypeOK /\ ParkedHasApproval /\ [Next]_vars => ParkedHasApproval'
<1> SUFFICES ASSUME TypeOK, ParkedHasApproval, [Next]_vars, patches' = 0,
                    NEW u \in Tasks, state'[u] = "waiting_approval"
             PROVE  pending'[u] > 0
  BY DEF ParkedHasApproval
<1>0. patches = 0 /\ state[u] = "waiting_approval" => pending[u] > 0
  BY DEF ParkedHasApproval
<1> USE <1>0 DEF TypeOK, tasks, lease, daemon
<1>1. ASSUME NEW b \in Bridges, NEW t \in Tasks, ClaimResume(b, t) \/ ClaimQueued(b, t)
      PROVE  pending'[u] > 0
  BY <1>1 DEF ClaimResume, ClaimQueued
<1>2. ASSUME NEW b \in Bridges, NEW s, SubmitAccepted(b, s) PROVE pending'[u] > 0
  BY <1>2 DEF SubmitAccepted
<1>3. ASSUME NEW t \in Tasks, Approve(t) \/ Reject(t) PROVE pending'[u] > 0
  BY <1>3 DEF Approve, Reject
<1>4. ASSUME NEW t \in Tasks, NEW s, UpdateTask(t, s) PROVE FALSE
  BY <1>4 DEF UpdateTask
<1>5. ASSUME NEW b \in Bridges,
             TouchAfterClaim(b) \/ Heartbeat(b) \/ Finish(b) \/ Register(b) \/ Exit(b)
      PROVE  pending'[u] > 0
  BY <1>5 DEF TouchAfterClaim, Heartbeat, Finish, FinalizeLease, FinalizeLeaseFails,
     Register, Exit
<1>6. ASSUME NEW b \in Bridges, NEW s, SubmitRefused(b, s) PROVE pending'[u] > 0
  BY <1>6 DEF SubmitRefused
<1>7. CASE Tick \/ UNCHANGED vars
  BY <1>7 DEF Tick, vars
<1> QED
  BY <1>1, <1>2, <1>3, <1>4, <1>5, <1>6, <1>7 DEF Next, Claim, Submit

\* A task a bridge parks can always be released by an operator.
THEOREM ParkedCanBeResolved == Spec => []ParkedHasApproval
<1>1. Init => ParkedHasApproval
  BY DEF Init, ParkedHasApproval
<1> QED
  BY <1>1, TypeInit, TypeStep, ParkedStep, PTL DEF Spec
=============================================================================
