---------------------------- MODULE BridgeLease ----------------------------
(***************************************************************************)
(* Local tasks and the bridges that run them: the claim, lease and result  *)
(* statements of store/postgres.go, the bridge endpoints of                *)
(* httpapi/bridges.go and the daemon loop of bridge/daemon.go.             *)
(*                                                                         *)
(* ClaimNextLocalBridgeTaskWithTTL commits its transaction and only then   *)
(* writes the lease, and submitBridgeTaskResult ends the lease before it   *)
(* finishes the task: each is two steps here.  Time is the time left on    *)
(* each lease, in units of the heartbeat interval; 0 is past due, and also *)
(* a task without a lease (to_timestamp(0)).  The tasks belong to no       *)
(* initiative; what results do to objectives is not part of this module.   *)
(***************************************************************************)
EXTENDS TaskStates, Naturals, FiniteSets

CONSTANTS
  Tasks, Bridges,
  Serves,        \* the tasks each bridge may claim: workspace_root matches
  CreatedAt,     \* the order by created_at and id
  Gated,         \* tasks with requires_approval
  LeaseTTL,      \* lease time written by claim, heartbeat (3 intervals)
  HeartbeatDue,  \* time in which an undisturbed daemon sends a heartbeat
  MayStall,      \* bridges on hosts that may be suspended
  NoTask, NoBridge,
  MaxExits,      \* bound on daemon exits other than on a refused result
  MaxPatches,    \* bound on operator changes of task state
  MaxDisturbances,  \* bound on both together
  RetryCap       \* retry_count is counted up to this value

ASSUME BridgeAssumption ==
  /\ NoTask \notin Tasks /\ NoBridge \notin Bridges
  /\ Serves \in [Bridges -> SUBSET Tasks]
  /\ CreatedAt \in [Tasks -> Nat]
  /\ Gated \subseteq Tasks /\ MayStall \subseteq Bridges
ASSUME TimeAssumption ==
  /\ LeaseTTL \in Nat /\ HeartbeatDue \in Nat \ {0} /\ HeartbeatDue < LeaseTTL
ASSUME CountAssumption ==
  /\ MaxExits \in Nat /\ MaxPatches \in Nat /\ MaxDisturbances \in Nat /\ RetryCap \in Nat

VARIABLES
  state,         \* tasks.state
  granted,       \* tasks with approval_granted
  pending,       \* pending approvals of each task
  retries,       \* retry_count, saturating at RetryCap
  holder, ttl,   \* local_bridge_lease: bridge_id and time to lease_expires_at
  bpc, btask,    \* per bridge: where its claim stands, the claimed task
  asks,          \* bridges whose claim lacks a grant: they will ask for one
  due,           \* per bridge: time left to the next heartbeat
  exits, patches

tasks  == <<state, granted, pending, retries>>
lease  == <<holder, ttl>>
daemon == <<bpc, btask, asks, due>>
vars   == <<tasks, lease, daemon, exits, patches>>

BridgePC == {"down", "idle", "touching", "executing", "submitting"}
Working(b, t) == bpc[b] \in {"touching", "executing", "submitting"} /\ btask[b] = t

Init ==
  /\ state = [t \in Tasks |-> "queued"]
  /\ granted = {} /\ pending = [t \in Tasks |-> 0]
  /\ retries = [t \in Tasks |-> 0]
  /\ holder = [t \in Tasks |-> NoBridge] /\ ttl = [t \in Tasks |-> 0]
  /\ bpc = [b \in Bridges |-> "down"] /\ btask = [b \in Bridges |-> NoTask]
  /\ asks = {}
  /\ due = [b \in Bridges |-> HeartbeatDue]
  /\ exits = 0 /\ patches = 0

(***************************************************************************)
(* Claiming.                                                               *)
(***************************************************************************)

\* Interrupted tasks of the bridge itself; the lease time does not matter.
Resumable(b) == {t \in Serves[b] : state[t] \in Active /\ holder[t] = b}

\* Mutant: any lease of another bridge counts as expired.
ExpiredAtOnce(b) == {t \in Serves[b] : state[t] \in Active /\ holder[t] # b}

\* Mutant: without COALESCE a task whose lease was never written is not expired.
ExpiredWithLease(b) ==
  {t \in Serves[b] : state[t] \in Active /\ holder[t] \notin {b, NoBridge} /\ ttl[t] = 0}

\* Tasks the claim of b puts back to queued before it picks one.
Expired(b) == {t \in Serves[b] : state[t] \in Active /\ holder[t] # b /\ ttl[t] = 0}

BridgeTakes(b, t) ==
  /\ bpc' = [bpc EXCEPT ![b] = "touching"]
  /\ btask' = [btask EXCEPT ![b] = t]
  /\ asks' = IF t \in Gated \ granted THEN asks \union {b} ELSE asks \ {b}
  /\ UNCHANGED due

ClaimResume(b, t) ==
  /\ bpc[b] = "idle"
  /\ t \in Resumable(b)
  /\ state' = [state EXCEPT ![t] = "in_progress"]
  /\ BridgeTakes(b, t)
  /\ UNCHANGED <<granted, pending, retries, lease, exits, patches>>

\* What is queued once the expired tasks are.
Claimable(b) == {t \in Serves[b] : state[t] = "queued"} \union Expired(b)

\* The expired tasks are requeued, all of them; the oldest queued task goes
\* through assigned to in_progress in the same transaction.
ClaimQueued(b, t) ==
  /\ bpc[b] = "idle"
  /\ Resumable(b) = {}
  /\ t \in Claimable(b)
  /\ \A u \in Claimable(b) : CreatedAt[t] <= CreatedAt[u]
  /\ state' = [u \in Tasks |-> IF u = t THEN "in_progress"
                               ELSE IF u \in Expired(b) THEN "queued"
                               ELSE state[u]]
  /\ retries' = [u \in Tasks |-> IF u \in Expired(b) /\ retries[u] < RetryCap
                                   THEN retries[u] + 1 ELSE retries[u]]
  /\ BridgeTakes(b, t)
  /\ UNCHANGED <<granted, pending, lease, exits, patches>>

\* TouchLocalBridgeTaskLease: whatever the row and its lease say now.
WriteLease(b, left) ==
  /\ holder' = [holder EXCEPT ![btask[b]] = b]
  /\ ttl' = [ttl EXCEPT ![btask[b]] = left]

TouchAfterClaim(b) ==
  /\ bpc[b] = "touching"
  /\ WriteLease(b, LeaseTTL)
  /\ bpc' = [bpc EXCEPT ![b] = "executing"]
  /\ due' = [due EXCEPT ![b] = HeartbeatDue]
  /\ UNCHANGED <<tasks, btask, asks, exits, patches>>

\* Mutant: the heartbeat does not name the current task.
HeartbeatWithoutTask(b) ==
  /\ bpc[b] = "executing"
  /\ due' = [due EXCEPT ![b] = HeartbeatDue]
  /\ UNCHANGED <<tasks, lease, bpc, btask, asks, exits, patches>>

Heartbeat(b) ==
  /\ bpc[b] = "executing"
  /\ WriteLease(b, LeaseTTL)
  /\ due' = [due EXCEPT ![b] = HeartbeatDue]
  /\ UNCHANGED <<tasks, bpc, btask, asks, exits, patches>>

(***************************************************************************)
(* Submitting a result: FinalizeLocalBridgeTaskLease, then the task.       *)
(***************************************************************************)
FinalizeLease(b) ==
  /\ bpc[b] = "executing"
  /\ WriteLease(b, 0)
  /\ bpc' = [bpc EXCEPT ![b] = "submitting"]
  /\ UNCHANGED <<tasks, btask, asks, due, exits, patches>>

\* The error of FinalizeLocalBridgeTaskLease is dropped.
FinalizeLeaseFails(b) ==
  /\ bpc[b] = "executing"
  /\ bpc' = [bpc EXCEPT ![b] = "submitting"]
  /\ UNCHANGED <<tasks, lease, btask, asks, due, exits, patches>>

\* A request the executor rejects (no tool, capability not allowed) fails, gated
\* or not; then the approval gate.
Outcome(b) == {"failed"} \union (IF b \in asks THEN {"waiting_approval"} ELSE {"completed"})

BridgeLeaves(b, pc) == /\ bpc' = [bpc EXCEPT ![b] = pc]
                       /\ btask' = [btask EXCEPT ![b] = NoTask]
                       /\ asks' = asks \ {b}
                       /\ UNCHANGED due

\* Mutant: the result is stored without the transition check.
SubmitUnchecked(b, s) ==
  LET t == btask[b] IN
  /\ bpc[b] = "submitting"
  /\ s \in Outcome(b)
  /\ state' = [state EXCEPT ![t] = s]
  /\ pending' = IF s = "waiting_approval" THEN [pending EXCEPT ![t] = @ + 1]
                                          ELSE pending
  /\ BridgeLeaves(b, "idle")
  /\ UNCHANGED <<granted, retries, lease, exits, patches>>

\* Mutant: the task is parked without an approval row.
SubmitWithoutApproval(b, s) ==
  LET t == btask[b] IN
  /\ bpc[b] = "submitting"
  /\ s \in Outcome(b)
  /\ IsValidTransition(state[t], s)
  /\ state' = [state EXCEPT ![t] = s]
  /\ BridgeLeaves(b, "idle")
  /\ UNCHANGED <<granted, pending, retries, lease, exits, patches>>

SubmitAccepted(b, s) ==
  LET t == btask[b] IN
  /\ bpc[b] = "submitting"
  /\ s \in Outcome(b)
  /\ IsValidTransition(state[t], s)
  /\ state' = [state EXCEPT ![t] = s]
  /\ pending' = IF s = "waiting_approval" THEN [pending EXCEPT ![t] = @ + 1]
                                          ELSE pending
  /\ BridgeLeaves(b, "idle")
  /\ UNCHANGED <<granted, retries, lease, exits, patches>>

\* invalid_transition is answered with 500, and the daemon returns its error.
SubmitRefused(b, s) ==
  /\ bpc[b] = "submitting"
  /\ s \in Outcome(b)
  /\ ~IsValidTransition(state[btask[b]], s)
  /\ BridgeLeaves(b, "down")
  /\ UNCHANGED <<tasks, lease, exits, patches>>

(***************************************************************************)
(* The daemon process.                                                     *)
(***************************************************************************)
Register(b) ==
  /\ bpc[b] = "down"
  /\ bpc' = [bpc EXCEPT ![b] = "idle"]
  /\ UNCHANGED <<tasks, lease, btask, asks, due, exits, patches>>

\* Killed, or any failed call: Run returns.
Exit(b) ==
  /\ bpc[b] # "down"
  /\ exits < MaxExits /\ exits + patches < MaxDisturbances
  /\ exits' = exits + 1
  /\ BridgeLeaves(b, "down")
  /\ UNCHANGED <<tasks, lease, patches>>

(***************************************************************************)
(* Operators.                                                              *)
(***************************************************************************)
Approve(t) ==
  /\ pending[t] > 0
  /\ IsValidTransition(state[t], "queued")
  /\ state' = [state EXCEPT ![t] = "queued"]
  /\ pending' = [pending EXCEPT ![t] = @ - 1]
  /\ granted' = granted \union {t}
  /\ UNCHANGED <<retries, lease, daemon, exits, patches>>

Reject(t) ==
  /\ pending[t] > 0
  /\ IsValidTransition(state[t], "cancelled")
  /\ state' = [state EXCEPT ![t] = "cancelled"]
  /\ pending' = [pending EXCEPT ![t] = @ - 1]
  /\ granted' = granted \ {t}
  /\ UNCHANGED <<retries, lease, daemon, exits, patches>>

\* PATCH /tasks/{id} and POST /tasks/{id}/cancel.
UpdateTask(t, s) ==
  /\ patches < MaxPatches /\ exits + patches < MaxDisturbances
  /\ IsValidTransition(state[t], s)
  /\ state' = [state EXCEPT ![t] = s]
  /\ patches' = patches + 1
  /\ UNCHANGED <<granted, pending, retries, lease, daemon, exits>>

(***************************************************************************)
(* Time: a daemon that does not stall sends its heartbeat in time.         *)
(***************************************************************************)
Less(n) == IF n > 0 THEN n - 1 ELSE 0

Tick ==
  /\ \A b \in Bridges \ MayStall : bpc[b] = "executing" => due[b] > 0
  /\ \/ \E t \in Tasks : ttl[t] > 0
     \/ \E b \in Bridges : bpc[b] = "executing" /\ due[b] > 0
  /\ ttl' = [t \in Tasks |-> Less(ttl[t])]
  /\ due' = [b \in Bridges |-> IF bpc[b] = "executing" THEN Less(due[b]) ELSE due[b]]
  /\ UNCHANGED <<tasks, holder, bpc, btask, asks, exits, patches>>

Claim(b)  == \E t \in Tasks : ClaimResume(b, t) \/ ClaimQueued(b, t)
Finish(b) == \/ FinalizeLease(b) \/ FinalizeLeaseFails(b)
Submit(b) == \E s \in {"waiting_approval", "completed", "failed"} :
               SubmitAccepted(b, s) \/ SubmitRefused(b, s)

Next ==
  \/ \E b \in Bridges : \/ Claim(b) \/ TouchAfterClaim(b) \/ Heartbeat(b)
                        \/ Finish(b) \/ Submit(b) \/ Register(b) \/ Exit(b)
  \/ \E t \in Tasks : \/ Approve(t) \/ Reject(t)
                      \/ \E s \in TaskState : UpdateTask(t, s)
  \/ Tick

Spec == Init /\ [][Next]_vars

\* Commands end, requests are answered, the supervisor restarts the daemon and
\* time passes.
Fairness ==
  /\ \A b \in Bridges :
       /\ WF_vars(Register(b)) /\ WF_vars(Claim(b)) /\ WF_vars(TouchAfterClaim(b))
       /\ WF_vars(Heartbeat(b)) /\ WF_vars(Finish(b)) /\ WF_vars(Submit(b))
  /\ WF_vars(Tick)

FairSpec == Spec /\ Fairness

(***************************************************************************)
(* Properties.                                                             *)
(***************************************************************************)

\* Types; a bridge that is past its claim has a task.
TypeOK ==
  /\ state \in [Tasks -> TaskState]
  /\ granted \subseteq Tasks /\ pending \in [Tasks -> Nat]
  /\ retries \in [Tasks -> 0..RetryCap]
  /\ holder \in [Tasks -> Bridges \union {NoBridge}]
  /\ ttl \in [Tasks -> 0..LeaseTTL]
  /\ bpc \in [Bridges -> BridgePC] /\ btask \in [Bridges -> Tasks \union {NoTask}]
  /\ \A b \in Bridges : bpc[b] \notin {"down", "idle"} => btask[b] \in Tasks
  /\ asks \subseteq Bridges
  /\ due \in [Bridges -> 0..HeartbeatDue]
  /\ exits \in 0..MaxExits /\ patches \in 0..MaxPatches

\* The lease of a daemon that keeps its heartbeat does not run out while it
\* executes, as long as the lease names it: other bridges that touch, finish or
\* time out the same task never leave it with a lease of its own that expired.
HeldLeaseIsLive ==
  \A b \in Bridges \ MayStall : \A t \in Tasks :
    bpc[b] = "executing" /\ btask[b] = t /\ holder[t] = b
      => ttl[t] >= due[b] + (LeaseTTL - HeartbeatDue)

\* What the claim of bridge c does to task t in this step.
Claims(c)   == bpc[c] = "idle" /\ bpc'[c] = "touching"
Takes(c, t) == Claims(c) /\ btask'[c] = t

\* No claim requeues or takes a task from under the daemon its lease names while
\* that daemon executes it and keeps its heartbeat.
SparesHolder(b, t) ==
  bpc[b] = "executing" /\ btask[b] = t /\ holder[t] = b /\ state[t] \in Active
    => \A c \in Bridges : Claims(c) => ~Takes(c, t) /\ state'[t] = state[t]
RequeueSparesHolder ==
  [][\A b \in Bridges \ MayStall, t \in Tasks : SparesHolder(b, t)]_vars

\* The first final result of a task stands, however many bridges ran it: later
\* results are refused and no claim takes up a finished task.
ResultStands(t) ==
  state[t] \in Terminal => /\ state'[t] = state[t]
                           /\ \A b \in Bridges : ~Takes(b, t)
FirstResultStands == [][\A t \in Tasks : ResultStands(t)]_vars

\* A task is parked in waiting_approval with an approval an operator can
\* resolve, unless an operator put it there by hand.
ParkedHasApproval ==
  patches = 0 => \A t \in Tasks : state[t] = "waiting_approval" => pending[t] > 0

\* Every local task is finished or waits for an operator, after any number of
\* daemon exits within the bound (kill, expiry, restart of the same or another
\* bridge).  A claim that requeues a task between the two steps of its result
\* cannot go on for ever, because the oldest task is taken up at once.
LocalTaskFinishes ==
  \A t \in Tasks :
    state[t] \in {"queued"} \union Active
      ~> state[t] \in Terminal \union {"waiting_approval", "review"}

\* The rows behave as TaskLife promises under every bridge statement.
TL == INSTANCE TaskLife WITH Launchable <- {}
ImplementsTaskLife == TL!Spec

\* docs/architecture/master-plan.md:252: only interrupted work is requeued; a
\* task a running daemon holds is left to it.
OnlyInterruptedRequeued ==
  [][\A b \in Bridges \ MayStall : \A t \in Tasks :
       Working(b, t) /\ bpc'[b] = bpc[b] /\ state[t] \in Active
         => retries'[t] = retries[t]]_vars

=============================================================================
