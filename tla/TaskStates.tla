----------------------------- MODULE TaskStates -----------------------------
(***************************************************************************)
(* The task state machine of internal/orchestratorgo/domain/types.go.      *)
(* Every component that stores or moves a task uses these definitions.     *)
(***************************************************************************)

\* TaskState
TaskState ==
  {"created", "queued", "assigned", "in_progress", "waiting_approval",
   "retrying", "review", "completed", "failed", "cancelled"}

\* terminalStates
Terminal == {"completed", "failed", "cancelled"}

\* The states both recovery statements put back to queued:
\* state IN ('assigned', 'in_progress', 'retrying')
Active == {"assigned", "in_progress", "retrying"}

\* QueueTaskForLaunch accepts these states only; two of them are terminal.
LaunchableFrom == {"created", "failed", "cancelled"}

\* isCancellableState: retrying and review are left out.
Cancellable ==
  {"created", "queued", "assigned", "in_progress", "waiting_approval"}

\* validTransitions
ValidTransitions(s) ==
  CASE s = "created"          -> {"queued", "waiting_approval", "cancelled"}
    [] s = "queued"           -> {"assigned", "cancelled"}
    [] s = "assigned"         -> {"in_progress", "failed", "cancelled"}
    [] s = "in_progress"      -> {"waiting_approval", "review", "completed",
                                  "failed", "cancelled", "retrying"}
    [] s = "waiting_approval" -> {"in_progress", "queued", "cancelled", "failed"}
    [] s = "retrying"         -> {"in_progress", "failed", "cancelled"}
    [] s = "review"           -> {"completed", "in_progress", "failed"}
    [] OTHER                  -> {}

IsValidTransition(current, target) == target \in ValidTransitions(current)
=============================================================================
