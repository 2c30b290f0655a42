---------------------------- MODULE OperationCore ----------------------------
(***************************************************************************)
(* The infrastructure-free Operation state machine of                      *)
(* app/operations/core/domain.py: the statuses, the terminal ones, and the *)
(* transitions ensure_operation_transition admits.                         *)
(***************************************************************************)

OperationStatuses ==
  {"draft", "planned", "awaiting_approval", "approved", "dispatching", "running",
   "awaiting_operator", "awaiting_verification", "verifying", "succeeded", "blocked",
   "rejected", "expired", "failed", "needs_reconciliation", "cancelled"}

TerminalStatuses == {"succeeded", "blocked", "rejected", "expired", "failed", "cancelled"}

AllowedTransitions ==
  [s \in OperationStatuses |->
     CASE s = "draft" -> {"planned", "cancelled"}
       [] s = "planned" -> {"awaiting_approval", "approved", "dispatching",
                            "awaiting_operator", "blocked", "expired", "failed", "cancelled"}
       [] s = "awaiting_approval" -> {"approved", "rejected", "expired", "cancelled"}
       [] s = "approved" -> {"dispatching", "awaiting_operator", "blocked", "expired", "cancelled"}
       [] s = "dispatching" -> {"running", "failed", "needs_reconciliation"}
       [] s = "running" -> {"verifying", "failed", "needs_reconciliation"}
       [] s = "awaiting_operator" -> {"awaiting_verification", "expired", "cancelled",
                                      "needs_reconciliation"}
       [] s = "awaiting_verification" -> {"verifying", "expired", "needs_reconciliation"}
       [] s = "verifying" -> {"succeeded", "failed", "needs_reconciliation"}
       [] s = "needs_reconciliation" -> {"verifying", "succeeded", "failed", "cancelled"}
       [] s = "expired" -> {"needs_reconciliation"}
       [] OTHER -> {}]

\* ensure_operation_transition, with next_status None (the status is kept) as to = from.
MayTransition(from, to) == to = from \/ to \in AllowedTransitions[from]

=============================================================================
