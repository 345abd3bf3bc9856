-------------------------- MODULE MCWorkflowEngine --------------------------
(***************************************************************************)
(* Instance of WorkflowEngine for TLC.                                     *)
(***************************************************************************)
EXTENDS WorkflowEngine

Req(op, step, approval, to) == [op |-> op, step |-> step, approval |-> approval, to |-> to]
OnWorkflow(op) == Req(op, 1, 1, "ACTIVE")
OnStep(op, step) == Req(op, step, 1, "PENDING")
OnApproval(op, approval) == Req(op, 1, approval, "PENDING")
PatchWorkflow(status) == Req("update_workflow", 1, 1, status)
PatchStep(step, status) == Req("update_step", step, 1, status)
Created == {OnWorkflow("create_workflow"), OnWorkflow("start_workflow")}

\* Completing, repeating and cancelling.
Running ==
  Created \cup {OnStep("complete_step", 1), OnStep("complete_step", 2),
                OnStep("retry_step", 2), OnWorkflow("cancel_workflow")}

\* The second step needs the approval of two people.
Approving ==
  {OnWorkflow("create_workflow"),
   Req("request_approval", 2, 1, "PENDING"), Req("request_approval", 2, 2, "PENDING"),
   OnApproval("approve", 1), OnApproval("approve", 2), OnApproval("cancel_approval", 2)}

Rejecting ==
  Created \cup {Req("request_approval", 2, 1, "PENDING"), OnApproval("reject", 1),
                OnApproval("escalate", 1), OnStep("retry_step", 2), OnStep("complete_step", 2)}

Interrupting ==
  Created \cup {OnStep("fail_step", 1), OnStep("retry_step", 1), OnStep("complete_step", 1),
                OnWorkflow("hold_workflow"), OnWorkflow("resume_workflow")}

Editing ==
  Created \cup {OnStep("add_step", 3), OnStep("remove_step", 2), OnStep("skip_step", 2),
                OnStep("complete_step", 1), PatchStep(2, "SKIPPED"), PatchWorkflow("CANCELLED")}

Deleting ==
  Created \cup {Req("request_approval", 2, 1, "PENDING"), OnApproval("reject", 1),
                OnStep("remove_step", 2), OnWorkflow("delete_workflow"),
                OnWorkflow("restore_workflow")}

\* A workflow is completed while it is being started.
Reopening ==
  Created \cup {PatchWorkflow("IN_PROGRESS"), PatchStep(1, "PENDING"),
                Req("request_approval", 1, 3, "PENDING"),
                OnStep("retry_step", 2), OnStep("complete_step", 2)}

WorkflowScenarios ==
  {Running, Approving, Rejecting, Interrupting, Editing, Deleting, Reopening}
WorkflowRequests == UNION WorkflowScenarios
============================================================================
