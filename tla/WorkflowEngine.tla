--------------------------- MODULE WorkflowEngine ---------------------------
(***************************************************************************)
(* WorkflowEngine, ApprovalEngine and the workflow routes over one row of  *)
(* workflows, its workflow_steps and their workflow_approvals.             *)
(*                                                                         *)
(* WorkflowRepository commits every write by itself: a request is a series *)
(* of one-row transactions, takes no lock between them and validates       *)
(* against rows it loaded earlier (no SELECT ... FOR UPDATE, no version    *)
(* column).  What protects a row from a stale writer is only that an       *)
(* UPDATE names the changed columns and that the CHECKs see the result.    *)
(*                                                                         *)
(* Assignees and comments are columns nothing here reads; they are not     *)
(* represented.                                                            *)
(***************************************************************************)
EXTENDS Integers, FiniteSets, FiniteSetsExt

CONSTANTS Steps,        \* step_order of the steps there may be, 1 .. n
          InitialSteps, \* those create_workflow inserts
          Gated,        \* those with is_approval_required
          Approvals,    \* ids of the approvals there may be
          Scenarios,    \* bound: sets of requests, each made at most once
          Requests,     \* those of all scenarios
          Connections,  \* bound: requests served at once
          Null

WorkflowStatus ==
  {"DRAFT", "ACTIVE", "IN_PROGRESS", "ON_HOLD", "COMPLETED", "CANCELLED", "FAILED"}
StepStatus == {"PENDING", "IN_PROGRESS", "COMPLETED", "SKIPPED", "BLOCKED", "FAILED"}
ApprovalStatus == {"PENDING", "APPROVED", "REJECTED", "ESCALATED", "CANCELLED"}

WORKFLOW_TRANSITIONS ==
  [DRAFT       |-> {"ACTIVE", "CANCELLED"},
   ACTIVE      |-> {"IN_PROGRESS", "ON_HOLD", "CANCELLED", "FAILED"},
   IN_PROGRESS |-> {"ON_HOLD", "COMPLETED", "CANCELLED", "FAILED"},
   ON_HOLD     |-> {"ACTIVE", "IN_PROGRESS", "CANCELLED", "FAILED"},
   FAILED      |-> {"IN_PROGRESS", "CANCELLED"},
   COMPLETED   |-> {},
   CANCELLED   |-> {}]

STEP_TRANSITIONS ==
  [PENDING     |-> {"IN_PROGRESS", "SKIPPED", "BLOCKED"},
   IN_PROGRESS |-> {"COMPLETED", "FAILED", "BLOCKED"},
   BLOCKED     |-> {"PENDING", "IN_PROGRESS", "FAILED"},
   FAILED      |-> {"PENDING", "IN_PROGRESS"},
   COMPLETED   |-> {},
   SKIPPED     |-> {}]

APPROVAL_TRANSITIONS ==
  [PENDING   |-> {"APPROVED", "REJECTED", "ESCALATED", "CANCELLED"},
   ESCALATED |-> {"APPROVED", "REJECTED", "CANCELLED"},
   APPROVED  |-> {},
   REJECTED  |-> {},
   CANCELLED |-> {}]

\* completed, cancelled: completed_at and cancelled_at are set.  current:
\* current_step_order.
WorkflowRow == [status: WorkflowStatus, completed: BOOLEAN, cancelled: BOOLEAN,
                current: Steps \cup {Null}, deleted: BOOLEAN]
StepRow == [status: StepStatus, completed: BOOLEAN]
ApprovalRow == [step: Steps, status: ApprovalStatus]

WorkflowOps == {"hold_workflow", "resume_workflow", "cancel_workflow",
                "update_workflow", "delete_workflow", "restore_workflow"}
StepOps == {"complete_step", "fail_step", "retry_step", "skip_step", "update_step",
            "add_step", "remove_step", "request_approval"}
Decisions == {"approve", "reject", "escalate", "cancel_approval"}

\* to: the status a PATCH asks for.
Ops == {"create_workflow", "start_workflow"} \cup WorkflowOps \cup StepOps \cup Decisions
ValidRequest(r) ==
  r \in [op: Ops, step: Steps, approval: Approvals, to: WorkflowStatus \cup StepStatus]

ASSUME StepsAssumption == Steps \subseteq Nat \ {0}
ASSUME InitialAssumption == InitialSteps \subseteq Steps /\ Gated \subseteq Steps
ASSUME RequestsAssumption == \A r \in Requests : ValidRequest(r)
ASSUME ScenariosAssumption == UNION Scenarios = Requests
ASSUME NullAssumption ==
  Null \notin Steps \cup WorkflowRow \cup StepRow \cup ApprovalRow

\* One workflow is represented, so one is created.
ASSUME CreationAssumption ==
  \A chosen \in Scenarios : \A r, q \in chosen :
    r.op = "create_workflow" /\ q.op = "create_workflow" => r = q

\* A step that is added after one of the same order was removed is another
\* row; no instance reuses an order.
ASSUME ReuseAssumption ==
  \A r, q \in Requests :
    r.op = "remove_step" /\ q.op = "add_step" => r.step # q.step

\* The id of an approval is drawn when it is requested.
ASSUME ApprovalAssumption ==
  \A r, q \in Requests :
    r.op = "request_approval" /\ q.op = "request_approval" /\ r.approval = q.approval
      => r = q

VARIABLES workflow,   \* the committed row, Null before create_workflow
          steps,      \* committed rows by step_order, which is UNIQUE
          approvals,  \* committed rows by id
          session     \* what each request has loaded and does next

vars == <<workflow, steps, approvals, session>>
----------------------------------------------------------------------------
(* Requests and their rows.                                                *)

Stages == {"insert", "insert_steps", "load", "steps", "activate", "reload", "step",
           "check", "write_step", "next", "begin", "point", "write_workflow",
           "remove", "insert_step", "insert_approval", "approval",
           "write_approval", "gated_step"}

\* How a request ended: "lost" with its server, "overtaken" when it blocked a
\* step whose approval had been decided, "stalled" when it completed the last
\* step and could not complete the workflow.
Outcomes == {"ended", "lost", "overtaken", "stalled"}

\* workflow, row, status: the objects as loaded; step: the step at hand.
Session(at) == [at |-> at, workflow |-> Null, step |-> Null, row |-> Null,
                status |-> Null]
SessionState == [at: {"unmade", "idle"} \cup Stages \cup Outcomes,
                 workflow: WorkflowRow \cup {Null}, step: Steps \cup {Null},
                 row: StepRow \cup {Null}, status: ApprovalStatus \cup {Null}]

Init ==
  /\ workflow = Null
  /\ steps = [k \in Steps |-> Null]
  /\ approvals = [a \in Approvals |-> Null]
  /\ \E chosen \in Scenarios :
       session = [r \in Requests |-> Session(IF r \in chosen THEN "idle" ELSE "unmade")]

At(r, stage) == session[r].at = stage
Open(r) == session[r].at \in Stages
Connected == Cardinality({r \in Requests : Open(r)}) < Connections
Existing == {k \in Steps : steps[k] # Null}
Pending(a) == approvals[a] # Null /\ approvals[a].status \in {"PENDING", "ESCALATED"}
HasPendingApprovals(k) == \E a \in Approvals : Pending(a) /\ approvals[a].step = k

Goto(r, stage) == session' = [session EXCEPT ![r].at = stage]
End(r, outcome) == session' = [session EXCEPT ![r] = Session(outcome)]
Unwritten == UNCHANGED <<workflow, steps, approvals>>

\* Mutant: every column of the object is written back.
Updated_AllColumns(committed, loaded, wanted) == wanted

\* The UPDATE of a loaded object names the columns whose value changed.
Updated(committed, loaded, wanted) ==
  [f \in DOMAIN committed |->
     IF wanted[f] # loaded[f] THEN wanted[f] ELSE committed[f]]

WorkflowChecks(w) ==
  /\ w.completed => w.status = "COMPLETED"
  /\ w.cancelled => w.status = "CANCELLED"

StepChecks(s) == s.completed => s.status = "COMPLETED"
----------------------------------------------------------------------------
(* Reads.                                                                  *)

FirstStage(r) == CASE r.op = "create_workflow" -> "insert"
                   [] r.op = "update_step" -> "step"
                   [] r.op \in Decisions -> "approval"
                   [] OTHER -> "load"

\* Nobody knows the id of a workflow before it is committed.
Begin(r) ==
  /\ At(r, "idle")
  /\ Connected
  /\ r.op # "create_workflow" => workflow # Null
  /\ Goto(r, FirstStage(r))
  /\ Unwritten

\* The statuses a request moves a loaded workflow, step or approval to.
WorkflowTarget(r, w) ==
  CASE r.op = "hold_workflow" -> "ON_HOLD"
    [] r.op = "resume_workflow" -> IF w.current # Null THEN "IN_PROGRESS" ELSE "ACTIVE"
    [] r.op = "cancel_workflow" -> "CANCELLED"
    [] r.op = "update_workflow" -> r.to
    [] r.op \in {"complete_step", "skip_step"} -> "COMPLETED"
    [] r.op \in {"fail_step", "reject"} -> "FAILED"
    [] r.op \in {"start_workflow", "retry_step"} -> "IN_PROGRESS"
    [] r.op \in {"delete_workflow", "restore_workflow"} -> w.status

StepTarget(r) ==
  CASE r.op = "complete_step" -> "COMPLETED"
    [] r.op = "skip_step" -> "SKIPPED"
    [] r.op = "update_step" -> r.to
    [] r.op = "request_approval" -> "BLOCKED"
    [] r.op \in {"fail_step", "reject"} -> "FAILED"
    [] r.op \in {"retry_step", "approve", "cancel_approval"} -> "IN_PROGRESS"

Decision(r) == CASE r.op = "approve" -> "APPROVED"
                 [] r.op = "reject" -> "REJECTED"
                 [] r.op = "escalate" -> "ESCALATED"
                 [] r.op = "cancel_approval" -> "CANCELLED"

MayBecome(r, w) == WorkflowTarget(r, w) \in WORKFLOW_TRANSITIONS[w.status]
StepMayBecome(r, s) == StepTarget(r) \in STEP_TRANSITIONS[s.status]

Admits(r, w) ==
  /\ r.op = "restore_workflow" <=> w.deleted
  /\ r.op \in WorkflowOps \ {"delete_workflow", "restore_workflow"} => MayBecome(r, w)
  /\ r.op = "reject" => MayBecome(r, w)
  /\ r.op = "add_step" => w.status \notin {"COMPLETED", "CANCELLED"}
  /\ r.op = "remove_step" => w.status = "DRAFT"

AfterLoad(r) == CASE r.op = "start_workflow" -> "steps"
                  [] r.op \in StepOps -> "step"
                  [] OTHER -> "write_workflow"

LoadWorkflow(r) ==
  /\ At(r, "load")
  /\ IF Admits(r, workflow)
     THEN session' = [session EXCEPT ![r].workflow = workflow, ![r].at = AfterLoad(r)]
     ELSE End(r, "ended")
  /\ Unwritten

\* start_workflow loads the steps with the workflow, and again when the
\* workflow is refreshed after its first commit.
LoadSteps(r) ==
  LET first == Min(Existing)
      starting == session[r].step = Null
      valid == IF starting
               THEN "ACTIVE" \in WORKFLOW_TRANSITIONS[session[r].workflow.status]
               ELSE "IN_PROGRESS" \in STEP_TRANSITIONS[steps[first].status]
  IN  /\ At(r, "steps")
      /\ IF Existing # {} /\ valid
         THEN session' = [session EXCEPT
                ![r].step = first, ![r].row = steps[first],
                ![r].at = IF starting THEN "activate" ELSE "begin"]
         ELSE End(r, "ended")
      /\ Unwritten

Reload(r) ==
  /\ At(r, "reload")
  /\ session' = [session EXCEPT ![r].workflow = workflow, ![r].at = "steps"]
  /\ Unwritten

Requestable(r, s) ==
  r.step \in Gated /\ s.status \in {"PENDING", "IN_PROGRESS", "BLOCKED"}

AfterStep(r) == CASE r.op = "complete_step" /\ r.step \in Gated -> "check"
                  [] r.op = "request_approval" -> "insert_approval"
                  [] r.op = "remove_step" -> "remove"
                  [] OTHER -> "write_step"

LoadStep(r) ==
  LET s == steps[r.step]
      admitted == /\ s # Null
                  /\ r.op = "request_approval" => Requestable(r, s)
                  /\ AfterStep(r) = "write_step" => StepMayBecome(r, s)
  IN  /\ At(r, "step")
      /\ r.op # "add_step"
      /\ IF admitted
         THEN session' = [session EXCEPT ![r].step = r.step, ![r].row = s,
                                         ![r].at = AfterStep(r)]
         ELSE End(r, "ended")
      /\ Unwritten

\* add_step looks for a step of the same order.
FindStepByOrder(r) ==
  /\ At(r, "step")
  /\ r.op = "add_step"
  /\ IF steps[r.step] = Null THEN Goto(r, "insert_step") ELSE End(r, "ended")
  /\ Unwritten

\* complete_step needs the approvals of its step resolved, a decision unblocks
\* the step when they are.
CheckApprovals(r) ==
  /\ At(r, "check")
  /\ IF ~HasPendingApprovals(session[r].step) /\ StepMayBecome(r, session[r].row)
     THEN Goto(r, "write_step")
     ELSE End(r, "ended")
  /\ Unwritten

NextPendingStep(r) ==
  LET pending == {k \in Existing : steps[k].status = "PENDING"}
      next == Min(pending)
  IN  /\ At(r, "next")
      /\ IF pending # {}
         THEN session' = [session EXCEPT ![r].step = next, ![r].row = steps[next],
                                         ![r].at = "begin"]
         ELSE IF MayBecome(r, session[r].workflow) THEN Goto(r, "write_workflow")
         ELSE End(r, "stalled")
      /\ Unwritten

LoadApproval(r) ==
  LET a == approvals[r.approval]
  IN  /\ At(r, "approval")
      /\ IF a # Null /\ Decision(r) \in APPROVAL_TRANSITIONS[a.status]
         THEN session' = [session EXCEPT ![r].step = a.step, ![r].status = a.status,
                                         ![r].at = "write_approval"]
         ELSE End(r, "ended")
      /\ Unwritten

LoadGatedStep(r) ==
  LET s == steps[session[r].step]
      next == IF r.op = "reject" THEN "write_step" ELSE "check"
  IN  /\ At(r, "gated_step")
      /\ IF /\ s # Null
            /\ IF r.op = "reject" THEN StepMayBecome(r, s) ELSE s.status = "BLOCKED"
         THEN session' = [session EXCEPT ![r].row = s, ![r].at = next]
         ELSE End(r, "ended")
      /\ Unwritten
----------------------------------------------------------------------------
(* Writes, each a transaction.                                             *)

CreateWorkflow(r) ==
  /\ At(r, "insert")
  /\ workflow' = [status |-> "DRAFT", completed |-> FALSE, cancelled |-> FALSE,
                  current |-> Null, deleted |-> FALSE]
  /\ Goto(r, "insert_steps")
  /\ UNCHANGED <<steps, approvals>>

NewStep == [status |-> "PENDING", completed |-> FALSE]

InsertSteps(r) ==
  LET new == IF At(r, "insert_steps") THEN InitialSteps ELSE {r.step}
  IN  /\ At(r, "insert_steps") \/ At(r, "insert_step")
      /\ IF new \cap Existing = {}
         THEN steps' = [k \in Steps |-> IF k \in new THEN NewStep ELSE steps[k]]
         ELSE UNCHANGED steps
      /\ End(r, "ended")
      /\ UNCHANGED <<workflow, approvals>>

DeleteStep(r) ==
  /\ At(r, "remove")
  /\ steps' = [steps EXCEPT ![r.step] = Null]
  /\ approvals' = [a \in Approvals |->
       IF approvals[a] # Null /\ approvals[a].step = r.step THEN Null ELSE approvals[a]]
  /\ End(r, "ended")
  /\ UNCHANGED workflow

\* Mutant: the constraints of workflows are missing.
CommitWorkflow_Unchecked(r, wanted, next) ==
  /\ workflow' = Updated(workflow, session[r].workflow, wanted)
  /\ IF next \in Stages THEN Goto(r, next) ELSE End(r, next)
  /\ UNCHANGED <<steps, approvals>>

\* A violated CHECK, or a row that is gone, ends the request.
CommitWorkflow(r, wanted, next) ==
  LET w == Updated(workflow, session[r].workflow, wanted)
  IN  /\ IF WorkflowChecks(w)
         THEN workflow' = w /\ (IF next \in Stages THEN Goto(r, next) ELSE End(r, next))
         ELSE UNCHANGED workflow /\ End(r, "ended")
      /\ UNCHANGED <<steps, approvals>>

Activate(r) ==
  /\ At(r, "activate")
  /\ CommitWorkflow(r, [session[r].workflow EXCEPT !.status = "ACTIVE",
                          !.current = session[r].step, !.completed = FALSE], "reload")

Point(r) ==
  /\ At(r, "point")
  /\ CommitWorkflow(r, [session[r].workflow EXCEPT !.current = session[r].step], "ended")

\* A status other than COMPLETED clears completed_at.
Wanted(r, w) ==
  [w EXCEPT !.status = WorkflowTarget(r, w),
            !.completed = \/ r.op \in {"complete_step", "skip_step"}
                          \/ (@ /\ WorkflowTarget(r, w) = "COMPLETED"),
            !.cancelled = @ \/ r.op = "cancel_workflow",
            !.deleted = (@ \/ r.op = "delete_workflow") /\ r.op # "restore_workflow"]

WriteWorkflow(r) ==
  /\ At(r, "write_workflow")
  /\ CommitWorkflow(r, Wanted(r, session[r].workflow), "ended")

CommitStep(r, wanted, next) ==
  LET k == session[r].step
      s == Updated(steps[k], session[r].row, wanted)
  IN  /\ IF steps[k] # Null /\ StepChecks(s)
         THEN /\ steps' = [steps EXCEPT ![k] = s]
              /\ IF next \in Stages THEN Goto(r, next) ELSE End(r, next)
         ELSE UNCHANGED steps /\ End(r, "ended")
      /\ UNCHANGED <<workflow, approvals>>

\* Mutant: a workflow that is not in progress is not advanced.
AfterWrite_InProgressOnly(r) ==
  LET w == session[r].workflow
  IN  CASE r.op \in {"complete_step", "skip_step"} ->
             IF w.status = "IN_PROGRESS" THEN "next" ELSE "ended"
        [] r.op = "fail_step" /\ MayBecome(r, w) -> "write_workflow"
        [] r.op = "retry_step" /\ w.status = "FAILED" -> "write_workflow"
        [] r.op = "reject" -> "load"
        [] r.op = "request_approval" /\ ~Pending(r.approval) -> "overtaken"
        [] OTHER -> "ended"

\* What follows the write, judged by the workflow as it was loaded.
AfterWrite(r) ==
  LET w == session[r].workflow
  IN  CASE r.op \in {"complete_step", "skip_step"} -> "next"
        [] r.op = "fail_step" /\ MayBecome(r, w) -> "write_workflow"
        [] r.op = "retry_step" /\ w.status = "FAILED" -> "write_workflow"
        [] r.op = "reject" -> "load"
        [] r.op = "request_approval" /\ ~Pending(r.approval) -> "overtaken"
        [] OTHER -> "ended"

WriteStep(r) ==
  /\ At(r, "write_step")
  /\ CommitStep(r, [status |-> StepTarget(r),
                    completed |-> \/ r.op \in {"complete_step", "skip_step"}
                                  \/ r.op # "retry_step" /\ session[r].row.completed],
                AfterWrite(r))

BeginStep(r) ==
  /\ At(r, "begin")
  /\ CommitStep(r, [session[r].row EXCEPT !.status = "IN_PROGRESS"],
                IF r.op = "start_workflow" THEN "write_workflow" ELSE "point")

\* A foreign key ties the approval to its step.  Only a step that was loaded
\* PENDING is blocked.
CreateApproval(r) ==
  /\ At(r, "insert_approval")
  /\ IF steps[r.step] = Null
     THEN UNCHANGED approvals /\ End(r, "ended")
     ELSE /\ approvals[r.approval] = Null
          /\ approvals' = [approvals EXCEPT
                             ![r.approval] = [step |-> r.step, status |-> "PENDING"]]
          /\ IF session[r].row.status = "PENDING"
             THEN Goto(r, "write_step") ELSE End(r, "ended")
  /\ UNCHANGED <<workflow, steps>>

\* Mutant: a cancelled request for approval leaves its step alone.
WriteApproval_CancelForgotten(r) ==
  /\ At(r, "write_approval")
  /\ IF approvals[r.approval] = Null
     THEN UNCHANGED approvals /\ End(r, "ended")
     ELSE /\ approvals' = [approvals EXCEPT ![r.approval].status = Decision(r)]
          /\ IF r.op \in {"escalate", "cancel_approval"}
             THEN End(r, "ended") ELSE Goto(r, "gated_step")
  /\ UNCHANGED <<workflow, steps>>

WriteApproval(r) ==
  /\ At(r, "write_approval")
  /\ IF approvals[r.approval] = Null
     THEN UNCHANGED approvals /\ End(r, "ended")
     ELSE /\ approvals' = [approvals EXCEPT ![r.approval].status = Decision(r)]
          /\ IF r.op = "escalate" THEN End(r, "ended") ELSE Goto(r, "gated_step")
  /\ UNCHANGED <<workflow, steps>>

\* The server stops between two statements of a request; it is lost when that
\* leaves a commit without the ones that should follow.
Halfway(r) ==
  \/ session[r].at \in {"gated_step", "next", "begin", "point"}
  \/ r.op \in Decisions /\ session[r].at \in {"check", "write_step"}
  \/ r.op = "complete_step" /\ At(r, "write_workflow")

Abandon(r) ==
  /\ Open(r)
  /\ End(r, IF Halfway(r) THEN "lost" ELSE "ended")
  /\ Unwritten

Read(r) ==
  \/ LoadWorkflow(r) \/ LoadSteps(r) \/ Reload(r) \/ LoadStep(r)
  \/ FindStepByOrder(r) \/ CheckApprovals(r) \/ NextPendingStep(r)
  \/ LoadApproval(r) \/ LoadGatedStep(r)

Write(r) ==
  \/ CreateWorkflow(r) \/ InsertSteps(r) \/ DeleteStep(r)
  \/ Activate(r) \/ Point(r) \/ WriteWorkflow(r)
  \/ WriteStep(r) \/ BeginStep(r) \/ CreateApproval(r) \/ WriteApproval(r)

Next == \E r \in Requests : Begin(r) \/ Read(r) \/ Write(r) \/ Abandon(r)

Spec == Init /\ [][Next]_vars
----------------------------------------------------------------------------
(* Properties.                                                             *)

\* Every row has the type its columns and CHECKs allow, and every request is
\* at a stage of its route.
TypeOK ==
  /\ workflow # Null => workflow \in WorkflowRow /\ WorkflowChecks(workflow)
  /\ steps \in [Steps -> StepRow \cup {Null}]
  /\ \A k \in Existing : StepChecks(steps[k])
  /\ approvals \in [Approvals -> ApprovalRow \cup {Null}]
  /\ session \in [Requests -> SessionState]

\* A workflow that was cancelled or completed, and a step that was completed,
\* by the handlers of the engine stays so, whatever requests had loaded it
\* before.  Excepted is the last write of start_workflow: it validates nothing
\* and clears completed_at, so a workflow completed meanwhile is reopened.
StampedFinal ==
  [][/\ workflow # Null /\ workflow.cancelled => workflow'.status = "CANCELLED"
     /\ workflow # Null /\ workflow.completed =>
          \/ workflow'.status = "COMPLETED"
          \/ \E r \in Requests : r.op = "start_workflow" /\ WriteWorkflow(r)
     /\ \A k \in Existing : steps[k].completed /\ steps'[k] # Null =>
          steps'[k].status = "COMPLETED"]_vars

Deciding(r, k) ==
  /\ r.op \in Decisions /\ (Halfway(r) \/ At(r, "lost"))
  /\ approvals[r.approval] # Null /\ approvals[r.approval].step = k

\* A step does not stay blocked when the last of its approvals is decided,
\* whatever the order in which the decisions are taken: one that leaves no
\* approval pending is still on its way to the step.  Excepted are decisions
\* whose server died, steps blocked by a PATCH, and steps that were blocked
\* after their approval had been decided.
LastDecisionUnblocks ==
  \A k \in Existing :
    steps[k].status = "BLOCKED" /\ ~HasPendingApprovals(k) =>
      \/ \E r \in Requests : Deciding(r, k)
      \/ \E r \in Requests : r.op = "request_approval" /\ r.step = k /\ At(r, "overtaken")
      \/ \E r \in Requests : r.op = "update_step" /\ r.step = k /\ r.to = "BLOCKED"

\* A workflow does not stay in progress when all of its steps are completed:
\* the request that completed the last one is still on its way to the workflow.
\* Excepted are requests whose server died, those that had loaded the workflow
\* in another status, steps completed by a PATCH and steps removed by a request
\* that had loaded the workflow as a draft.  So is a workflow that start_workflow
\* reopens (StampedFinal), which takes three requests at once.
LastStepCompletesWorkflow ==
  workflow # Null /\ workflow.status = "IN_PROGRESS" /\ Existing # {}
    /\ (\A k \in Existing : steps[k].status = "COMPLETED") =>
      \/ \E r \in Requests : r.op = "complete_step"
                             /\ (Halfway(r) \/ At(r, "lost") \/ At(r, "stalled"))
      \/ \E r \in Requests : r.op = "update_step" /\ r.to = "COMPLETED"
      \/ \E r \in Requests : r.op = "remove_step" /\ At(r, "ended")
============================================================================
