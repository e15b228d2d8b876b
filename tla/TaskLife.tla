------------------------------ MODULE TaskLife ------------------------------
(***************************************************************************)
(* What the task table promises, whoever writes to it: a row is inserted   *)
(* once, and its state moves along validTransitions, except for the three  *)
(* statements that write the state without consulting the table: the       *)
(* startup recovery of remote tasks, the lease expiry of local tasks and   *)
(* the launch of initiative tasks.  RemoteTasks and BridgeLease implement  *)
(* this specification.                                                     *)
(***************************************************************************)
EXTENDS TaskStates

CONSTANTS Tasks, Launchable
VARIABLE state

Init == state \in [Tasks -> {"absent", "created", "queued"}]

\* CreateTask with QueueOnCreate.
Insert(t) == /\ state[t] = "absent"
             /\ state' = [state EXCEPT ![t] = "queued"]

\* transitionTaskStateTx behind IsValidTransition.
Transition(t, s) == /\ IsValidTransition(state[t], s)
                    /\ state' = [state EXCEPT ![t] = s]

\* QueueTaskForLaunch.
Launch(t) == /\ t \in Launchable /\ state[t] \in LaunchableFrom
             /\ state' = [state EXCEPT ![t] = "queued"]

\* UPDATE tasks SET state = 'queued' WHERE state IN (...)
Requeue(S) == /\ \A t \in S : state[t] \in Active
              /\ state' = [t \in Tasks |-> IF t \in S THEN "queued" ELSE state[t]]

\* A bridge requeues S and takes one queued task in one transaction.
RequeueAndClaim(S, t) ==
  /\ \A u \in S : state[u] \in Active
  /\ state[t] = "queued" \/ t \in S
  /\ state' = [u \in Tasks |-> IF u = t THEN "in_progress"
                               ELSE IF u \in S THEN "queued" ELSE state[u]]

Next ==
  \/ \E t \in Tasks : \/ Insert(t) \/ Launch(t)
                      \/ \E s \in TaskState : Transition(t, s)
  \/ \E S \in SUBSET Tasks : \/ Requeue(S)
                             \/ \E t \in Tasks : RequeueAndClaim(S, t)

Spec == Init /\ [][Next]_state
=============================================================================
