----------------------------- MODULE StateMachine -----------------------------
(***************************************************************************)
(* The workflow and task life cycles (domain/enums.py and                  *)
(* domain/state_machine.py).  Statuses are the strings of the two enums;   *)
(* "failed" and "cancelled" belong to both.                                *)
(***************************************************************************)

WorkflowStatus ==
    {"created", "compiled", "planned", "running", "paused", "recovering",
     "completed", "failed", "cancelled"}

TaskStatus ==
    {"pending", "ready", "claimed", "proposing", "verifying", "executing",
     "post_verifying", "committed", "rejected", "retry_wait", "blocked",
     "failed", "cancelled"}

\* From each status, the statuses that may follow it.
WORKFLOW_TRANSITIONS ==
    [s \in WorkflowStatus |->
        CASE s = "created"    -> {"compiled", "cancelled"}
          [] s = "compiled"   -> {"planned", "failed", "cancelled"}
          [] s = "planned"    -> {"running", "failed", "cancelled"}
          [] s = "running"    -> {"paused", "completed", "failed", "cancelled"}
          [] s = "paused"     -> {"running", "recovering", "failed", "cancelled"}
          [] s = "recovering" -> {"running", "failed", "cancelled"}
          [] OTHER            -> {}]

TASK_TRANSITIONS ==
    [s \in TaskStatus |->
        CASE s = "pending"        -> {"ready", "cancelled"}
          [] s = "ready"          -> {"claimed", "blocked", "cancelled"}
          [] s = "claimed"        -> {"proposing", "failed", "cancelled"}
          [] s = "proposing"      -> {"verifying", "failed", "cancelled"}
          [] s = "verifying"      -> {"executing", "rejected", "failed", "cancelled"}
          [] s = "executing"      -> {"post_verifying", "rejected", "failed", "cancelled"}
          [] s = "post_verifying" -> {"committed", "retry_wait", "rejected",
                                      "failed", "cancelled"}
          [] s = "rejected"       -> {"retry_wait", "failed", "cancelled"}
          [] s = "retry_wait"     -> {"ready", "failed", "cancelled"}
          [] s = "blocked"        -> {"ready", "cancelled"}
          [] OTHER                -> {}]

\* can_transition, for two statuses of the same enum.
CanTransitionWorkflow(current, target) == target \in WORKFLOW_TRANSITIONS[current]
CanTransitionTask(current, target) == target \in TASK_TRANSITIONS[current]
==============================================================================
