------------------------ MODULE WorkflowEngineProofs ------------------------
(***************************************************************************)
(* Completed and cancelled workflows and completed steps, for any steps,   *)
(* approvals and requests.  A request writes with what it validated        *)
(* against rows it loaded steps earlier and holds no lock: the invariant   *)
(* says what each request knows of the rows as loaded (RequestInv), and    *)
(* that the rows it loaded passed the CHECKs, as committed ones do.        *)
(*                                                                         *)
(* The last decision and the last step need to know more: which step an    *)
(* approval was requested for and what the write of a request may turn a   *)
(* row into (KnowsInv).                                                    *)
(***************************************************************************)
EXTENDS WorkflowEngine, WellFoundedInduction, TLAPS

HasWorkflow(x) == x.workflow \in WorkflowRow /\ WorkflowChecks(x.workflow)
HasStep(x) == x.step \in Steps /\ x.row \in StepRow

\* Request r in state x, w being the committed workflow.
RequestInv(r, x, w) ==
  /\ r.op = "create_workflow" =>
       /\ x.at \in {"unmade", "idle", "insert", "insert_steps"} \cup Outcomes
       /\ x.at \in {"idle", "insert"} => w = Null
  /\ x.at = "insert" => r.op = "create_workflow"
  /\ x.at \in Stages \ {"insert"} => w # Null
  /\ x.at \in {"steps", "reload", "activate"} => r.op = "start_workflow"
  /\ x.at \in {"load", "approval", "gated_step", "write_approval"} =>
       r.op \notin {"create_workflow", "update_step"}
  /\ x.at = "load" => r.op \notin Decisions \ {"reject"}
  /\ x.at = "step" => r.op \in StepOps
  /\ x.at \in {"steps", "activate", "next", "begin", "point", "write_workflow"} =>
       HasWorkflow(x)
  /\ x.at \in {"step", "check", "write_step"}
       /\ r.op \in StepOps \ {"update_step", "request_approval"} => HasWorkflow(x)
  /\ x.at \in {"activate", "reload", "point", "write_approval", "gated_step"} =>
       x.step \in Steps
  /\ x.at = "activate" => ~x.workflow.completed
  /\ x.at \in {"check", "write_step", "begin", "insert_approval"} => HasStep(x)
  /\ x.at = "check" => r.op \in {"complete_step", "approve", "cancel_approval"}
  /\ x.at = "begin" => r.op \in {"start_workflow", "complete_step", "skip_step"}
  /\ x.at = "next" => r.op \in {"complete_step", "skip_step"}
  /\ x.at = "insert_approval" => r.op = "request_approval"
  /\ x.at = "approval" => r.op \in Decisions
  /\ x.at \in {"write_approval", "gated_step"} => r.op \in Decisions
  /\ x.at = "gated_step" => r.op # "escalate"
  /\ x.at = "write_step" =>
       /\ StepTarget(r) \in StepStatus
       /\ r.op \in StepOps \cup Decisions
       /\ r.op = "retry_step" => ~x.row.completed
  /\ x.at = "write_workflow" =>
       /\ WorkflowTarget(r, x.workflow) \in WorkflowStatus
       /\ r.op \in {"start_workflow", "complete_step", "skip_step"}
            \/ (x.workflow.completed => WorkflowTarget(r, x.workflow) = "COMPLETED")

\* One request of those that create is made.
OneCreation ==
  \A r, q \in Requests :
    r.op = "create_workflow" /\ q.op = "create_workflow" /\ r # q =>
      session[r].at = "unmade" \/ session[q].at = "unmade"

Inv ==
  /\ TypeOK
  /\ \A r \in Requests : RequestInv(r, session[r], workflow)
  /\ OneCreation
----------------------------------------------------------------------------
(* Rows and transitions.                                                   *)

AllStages == {"unmade", "idle"} \cup Stages \cup Outcomes

\* What the assumptions say of one request.
LEMMA RequestFacts ==
  ASSUME NEW r \in Requests
  PROVE  /\ r.op \in Ops /\ r.step \in Steps /\ r.approval \in Approvals
         /\ r.to \in WorkflowStatus \cup StepStatus
<1>1. r \in [op: Ops, step: Steps, approval: Approvals, to: WorkflowStatus \cup StepStatus]
  BY RequestsAssumption DEF ValidRequest
<1> QED
  BY <1>1

\* What is known of a request before one of its steps.
LEMMA StateFacts ==
  ASSUME Inv, NEW r \in Requests
  PROVE  /\ session[r] \in SessionState
         /\ session[r].at \in AllStages
         /\ RequestInv(r, session[r], workflow)
BY DEF Inv, TypeOK, SessionState, AllStages

\* The least element of a nonempty set of steps is one of them.
LEMMA MinInSet ==
  ASSUME NEW S, S \subseteq Steps, S # {}
  PROVE  Min(S) \in S
<1> DEFINE R == OpToRel(<, Nat)
<1>1. S \subseteq Nat
  BY StepsAssumption
<1>2. IsWellFoundedOn(R, Nat)
  BY NatLessThanWellFounded
<1> HIDE DEF R
<1>3. PICK x \in S : \A y \in S : <<y, x>> \notin R
  BY <1>1, <1>2, WFMin
<1>4. \A y \in S : ~(y < x)
  BY <1>1, <1>3 DEF R, OpToRel
<1>5. \A y \in S : x <= y
  BY <1>1, <1>4
<1> QED
  BY <1>5 DEF Min

\* A committed workflow is a row that passed the CHECKs.
LEMMA CommittedWorkflow ==
  ASSUME Inv, workflow # Null
  PROVE  workflow \in WorkflowRow /\ WorkflowChecks(workflow)
BY DEF Inv, TypeOK

\* So is a committed step.
LEMMA CommittedStep ==
  ASSUME Inv, NEW k \in Steps, steps[k] # Null
  PROVE  steps[k] \in StepRow /\ StepChecks(steps[k])
BY DEF Inv, TypeOK, Existing

\* A workflow that may move is not completed, and moves to a status.
LEMMA TransitionFacts ==
  ASSUME NEW r, NEW w \in WorkflowRow, WorkflowChecks(w), MayBecome(r, w)
  PROVE  /\ ~w.completed
         /\ WorkflowTarget(r, w) \in WorkflowStatus
<1> DEFINE to == WorkflowTarget(r, w)
<1>1. to \in WORKFLOW_TRANSITIONS[w.status] /\ w.status \in WorkflowStatus
      /\ w.completed \in BOOLEAN
  BY DEF MayBecome, WorkflowRow
<1> HIDE DEF to
<1>2. to \in WorkflowStatus /\ w.status # "COMPLETED"
  BY <1>1 DEF WORKFLOW_TRANSITIONS, WorkflowStatus
<1> QED
  BY <1>2 DEF to, WorkflowChecks

\* A step that may move is not completed, and moves to a status.
LEMMA StepTransitionFacts ==
  ASSUME NEW r, NEW s \in StepRow, StepChecks(s), StepMayBecome(r, s)
  PROVE  ~s.completed /\ StepTarget(r) \in StepStatus
<1> DEFINE to == StepTarget(r)
<1>1. to \in STEP_TRANSITIONS[s.status] /\ s.status \in StepStatus /\ s.completed \in BOOLEAN
  BY DEF StepMayBecome, StepRow
<1> HIDE DEF to
<1>2. to \in StepStatus /\ s.status # "COMPLETED"
  BY <1>1 DEF STEP_TRANSITIONS, StepStatus
<1> QED
  BY <1>2 DEF to, StepChecks

\* What an UPDATE of a workflow makes of the committed row.
LEMMA UpdatedWorkflow ==
  ASSUME NEW committed \in WorkflowRow, NEW loaded \in WorkflowRow,
         NEW wanted \in WorkflowRow
  PROVE  LET w == Updated(committed, loaded, wanted)
         IN  /\ w \in WorkflowRow
             /\ w.status = IF wanted.status # loaded.status
                           THEN wanted.status ELSE committed.status
             /\ w.completed = IF wanted.completed # loaded.completed
                              THEN wanted.completed ELSE committed.completed
             /\ w.cancelled = IF wanted.cancelled # loaded.cancelled
                              THEN wanted.cancelled ELSE committed.cancelled
<1> DEFINE w == Updated(committed, loaded, wanted)
           F == {"status", "completed", "cancelled", "current", "deleted"}
<1>1. w = [f \in F |-> IF wanted[f] # loaded[f] THEN wanted[f] ELSE committed[f]]
  <2>1. DOMAIN committed = F
    BY DEF WorkflowRow
  <2> QED
    BY <2>1 DEF Updated
<1> HIDE DEF w
<1>2. \A f \in F : w[f] = IF wanted[f] # loaded[f] THEN wanted[f] ELSE committed[f]
  BY <1>1
<1>3. w = [status |-> w.status, completed |-> w.completed, cancelled |-> w.cancelled,
           current |-> w.current, deleted |-> w.deleted]
  BY <1>1
<1>4. /\ w.status \in WorkflowStatus /\ w.completed \in BOOLEAN
      /\ w.cancelled \in BOOLEAN /\ w.current \in Steps \cup {Null}
      /\ w.deleted \in BOOLEAN
  BY <1>2 DEF WorkflowRow
<1>5. w \in WorkflowRow
  BY <1>3, <1>4 DEF WorkflowRow
<1> QED
  BY <1>2, <1>5 DEF w

\* What an UPDATE of a step makes of the committed row.
LEMMA UpdatedStep ==
  ASSUME NEW committed \in StepRow, NEW loaded \in StepRow, NEW wanted \in StepRow
  PROVE  LET s == Updated(committed, loaded, wanted)
         IN  /\ s \in StepRow
             /\ s.status = IF wanted.status # loaded.status
                           THEN wanted.status ELSE committed.status
             /\ s.completed = IF wanted.completed # loaded.completed
                              THEN wanted.completed ELSE committed.completed
<1> DEFINE s == Updated(committed, loaded, wanted)
           F == {"status", "completed"}
<1>1. s = [f \in F |-> IF wanted[f] # loaded[f] THEN wanted[f] ELSE committed[f]]
  <2>1. DOMAIN committed = F
    BY DEF StepRow
  <2> QED
    BY <2>1 DEF Updated
<1> HIDE DEF s
<1>2. \A f \in F : s[f] = IF wanted[f] # loaded[f] THEN wanted[f] ELSE committed[f]
  BY <1>1
<1>3. s = [status |-> s.status, completed |-> s.completed]
  BY <1>1
<1>4. s.status \in StepStatus /\ s.completed \in BOOLEAN
  BY <1>2 DEF StepRow
<1>5. s \in StepRow
  BY <1>3, <1>4 DEF StepRow
<1> QED
  BY <1>2, <1>5 DEF s
----------------------------------------------------------------------------
(* Frames.                                                                 *)

\* A request that has ended knows nothing.
LEMMA EndedState ==
  ASSUME NEW r \in Requests, NEW outcome \in Outcomes, NEW w
  PROVE  /\ Session(outcome) \in SessionState
         /\ RequestInv(r, Session(outcome), w)
<1> DEFINE x == Session(outcome)
<1>1. x \in SessionState /\ x.at = outcome
  BY DEF Session, SessionState
<1>2. outcome \in {"ended", "lost", "overtaken", "stalled"}
  BY DEF Outcomes
<1> HIDE DEF x
<1>3. RequestInv(r, x, w)
  BY <1>1, <1>2 DEF RequestInv, Stages, Outcomes
<1> QED
  BY <1>1, <1>3 DEF x

\* The tables part of the type invariant.
TablesOK ==
  /\ workflow # Null => workflow \in WorkflowRow /\ WorkflowChecks(workflow)
  /\ steps \in [Steps -> StepRow \cup {Null}]
  /\ \A k \in Existing : StepChecks(steps[k])
  /\ approvals \in [Approvals -> ApprovalRow \cup {Null}]

\* A step of one request keeps the invariant if its own state and the tables
\* keep theirs, and only the one creation creates.
LEMMA Stepped ==
  ASSUME Inv, NEW r \in Requests, NEW x \in SessionState,
         session' = [session EXCEPT ![r] = x],
         session[r].at # "unmade",
         TablesOK',
         RequestInv(r, x, workflow'),
         workflow # Null => workflow' # Null,
         workflow = Null /\ workflow' # Null => r.op = "create_workflow"
  PROVE  Inv'
<1>1. /\ session' \in [Requests -> SessionState]
      /\ \A q \in Requests : session'[q] = IF q = r THEN x ELSE session[q]
  BY DEF Inv, TypeOK
<1>2. TypeOK'
  BY <1>1 DEF TablesOK, TypeOK
<1>3. ASSUME NEW q \in Requests, q # r
      PROVE  RequestInv(q, session[q], workflow')
  <2>1. RequestInv(q, session[q], workflow)
    BY DEF Inv
  <2>2. CASE workflow' = Null
    <3>1. workflow = Null
      BY <2>2
    <3> QED
      BY <2>1, <2>2, <3>1
  <2>3. CASE workflow' # Null
    <3>1. q.op = "create_workflow" => session[q].at \notin {"idle", "insert"}
      <4>1. CASE workflow # Null
        BY <2>1, <4>1 DEF RequestInv
      <4>2. CASE workflow = Null
        BY <1>3, <2>3, <4>2 DEF Inv, OneCreation
      <4> QED
        BY <4>1, <4>2
    <3> QED
      BY <2>1, <2>3, <3>1 DEF RequestInv
  <2> QED
    BY <2>2, <2>3
<1>4. \A q \in Requests : RequestInv(q, session'[q], workflow')
  BY <1>1, <1>3
<1>5. OneCreation'
  BY <1>1 DEF Inv, OneCreation
<1> QED
  BY <1>2, <1>4, <1>5 DEF Inv

\* A request that is at a stage has been made.
LEMMA StagesMade == \A st \in Stages \cup {"idle"} : st # "unmade"
BY DEF Stages

\* A step that only reads.
LEMMA ReadStep ==
  ASSUME Inv, NEW r \in Requests, NEW x \in SessionState,
         session' = [session EXCEPT ![r] = x], Unwritten,
         session[r].at # "unmade",
         RequestInv(r, x, workflow)
  PROVE  Inv'
<1>1. UNCHANGED <<workflow, steps, approvals>>
  BY DEF Unwritten
<1>2. TablesOK'
  BY <1>1 DEF Inv, TypeOK, TablesOK, Existing
<1> QED
  BY <1>1, <1>2, Stepped

\* A request that ends without writing.
LEMMA EndInv ==
  ASSUME Inv, NEW r \in Requests, NEW outcome \in Outcomes, End(r, outcome), Unwritten,
         session[r].at # "unmade"
  PROVE  Inv'
<1>1. session' = [session EXCEPT ![r] = Session(outcome)]
  BY DEF End
<1> QED
  BY <1>1, EndedState, ReadStep
----------------------------------------------------------------------------
(* Reads.                                                                  *)

\* The state of a request that goes to another stage.
LEMMA GoneTo ==
  ASSUME NEW s \in SessionState, NEW st \in AllStages
  PROVE  /\ [s EXCEPT !.at = st] \in SessionState
         /\ [s EXCEPT !.at = st].at = st
         /\ [s EXCEPT !.at = st].workflow = s.workflow
         /\ [s EXCEPT !.at = st].step = s.step
         /\ [s EXCEPT !.at = st].row = s.row
<1>1. st \in {"unmade", "idle"} \cup Stages \cup Outcomes
  BY DEF AllStages
<1> QED
  BY <1>1 DEF SessionState

\* A request begins with its first read, once its workflow is there.
LEMMA BeginInv == ASSUME Inv, NEW r \in Requests, Begin(r) PROVE Inv'
<1> DEFINE s == session[r]
           st == FirstStage(r)
           x == [s EXCEPT !.at = st]
<1>1. /\ s.at = "idle" /\ session' = [session EXCEPT ![r] = x] /\ Unwritten
      /\ r.op # "create_workflow" => workflow # Null
  BY DEF Begin, At, Goto
<1>2. r.op \in Ops
  BY RequestFacts
<1>3. /\ r.op = "create_workflow" => st = "insert"
      /\ r.op = "update_step" => st = "step"
      /\ r.op \in Decisions => st = "approval"
      /\ r.op \notin {"create_workflow", "update_step"} \cup Decisions => st = "load"
  BY DEF FirstStage, Decisions
<1> HIDE DEF st
<1>4. st \in {"insert", "step", "approval", "load"} /\ st \in AllStages
  BY <1>3 DEF AllStages, Stages
<1>5. s \in SessionState /\ RequestInv(r, s, workflow)
  BY StateFacts
<1>6. x \in SessionState /\ x.at = st /\ x.step = s.step
  BY <1>4, <1>5, GoneTo
<1> HIDE DEF x, s
<1>7. RequestInv(r, x, workflow)
  <2>1. r.op = "create_workflow" => workflow = Null
    BY <1>1, <1>5 DEF RequestInv
  <2>3. CASE r.op = "create_workflow"
    <3>1. x.at = "insert" /\ r.op \notin StepOps \cup Decisions
      BY <1>3, <1>6, <2>3 DEF StepOps, Decisions
    <3> QED
      BY <2>1, <2>3, <3>1 DEF RequestInv
  <2>4. CASE r.op = "update_step"
    <3>1. x.at = "step" /\ r.op \in StepOps
      BY <1>3, <1>6, <2>4 DEF StepOps
    <3> QED
      BY <1>1, <2>4, <3>1 DEF RequestInv
  <2>5. CASE r.op \in Decisions
    <3>1. x.at = "approval" /\ r.op \notin {"create_workflow", "update_step"}
      BY <1>3, <1>6, <2>5 DEF Decisions
    <3> QED
      BY <1>1, <2>5, <3>1 DEF RequestInv
  <2>6. CASE r.op \notin {"create_workflow", "update_step"} \cup Decisions
    <3>1. x.at = "load"
      BY <1>3, <1>6, <2>6
    <3> QED
      BY <1>1, <2>6, <3>1 DEF RequestInv
  <2> QED
    BY <2>3, <2>4, <2>5, <2>6
<1>8. session[r].at # "unmade"
  BY <1>1 DEF s
<1> QED
  BY <1>1, <1>6, <1>7, <1>8, ReadStep

\* A request loads the workflow that it was admitted to change.
LEMMA LoadWorkflowInv == ASSUME Inv, NEW r \in Requests, LoadWorkflow(r) PROVE Inv'
<1> DEFINE s == session[r]
           st == AfterLoad(r)
           y == [s EXCEPT !.workflow = workflow]
           x == [y EXCEPT !.at = st]
<1>1. s.at = "load" /\ Unwritten
  BY DEF LoadWorkflow, At
<1>2. s \in SessionState /\ RequestInv(r, s, workflow)
  BY StateFacts
<1>3. workflow \in WorkflowRow /\ WorkflowChecks(workflow) /\ workflow # Null
  <2>1. "load" \in Stages \ {"insert"}
    BY DEF Stages
  <2> QED
    BY <1>1, <1>2, <2>1, CommittedWorkflow DEF RequestInv
<1>4. CASE ~Admits(r, workflow)
  <2>1. End(r, "ended")
    BY <1>4 DEF LoadWorkflow
  <2> QED
    BY <1>1, <2>1, EndInv DEF Outcomes
<1>5. CASE Admits(r, workflow)
  <2>1. session' = [session EXCEPT ![r] = x]
    BY <1>5 DEF LoadWorkflow
  <2>2. y \in SessionState /\ y.workflow = workflow /\ y.step = s.step
    BY <1>2, <1>3 DEF SessionState
  <2> HIDE DEF y
  <2>3. /\ r.op = "start_workflow" => st = "steps"
        /\ r.op \in StepOps => st = "step"
        /\ r.op \notin {"start_workflow"} \cup StepOps => st = "write_workflow"
    BY DEF AfterLoad, StepOps
  <2> HIDE DEF st
  <2>4. st \in {"steps", "step", "write_workflow"} /\ st \in AllStages
    BY <2>3 DEF AllStages, Stages
  <2>5. x \in SessionState /\ x.at = st /\ x.workflow = workflow
    BY <2>2, <2>4, GoneTo
  <2>6. /\ r.op \in Ops /\ r.op \notin {"create_workflow", "update_step"}
        /\ r.op \notin Decisions \ {"reject"}
    BY <1>1, <1>2, RequestFacts DEF RequestInv
  <2> HIDE DEF x, s
  <2>7. HasWorkflow(x)
    BY <1>3, <2>5 DEF HasWorkflow
  <2>8. RequestInv(r, x, workflow)
    <3>1. CASE r.op = "start_workflow"
      <4>1. x.at = "steps"
        BY <2>3, <2>5, <3>1
      <4> QED
        BY <1>3, <2>7, <3>1, <4>1 DEF RequestInv
    <3>2. CASE r.op \in StepOps
      <4>1. x.at = "step"
        BY <2>3, <2>5, <3>2
      <4> QED
        BY <1>3, <2>6, <2>7, <3>2, <4>1 DEF RequestInv
    <3>3. CASE r.op \notin {"start_workflow"} \cup StepOps
      <4>1. x.at = "write_workflow"
        BY <2>3, <2>5, <3>3
      <4>2. r.op \in WorkflowOps \cup {"reject"}
        BY <2>6, <3>3 DEF Ops
      <4>3. /\ WorkflowTarget(r, workflow) \in WorkflowStatus
            /\ workflow.completed => WorkflowTarget(r, workflow) = "COMPLETED"
        <5>1. CASE r.op \in {"delete_workflow", "restore_workflow"}
          <6>1. WorkflowTarget(r, workflow) = workflow.status
            BY <5>1 DEF WorkflowTarget
          <6> QED
            BY <1>3, <6>1 DEF WorkflowChecks, WorkflowRow
        <5>2. CASE r.op \notin {"delete_workflow", "restore_workflow"}
          <6>1. MayBecome(r, workflow)
            BY <1>5, <4>2, <5>2 DEF Admits
          <6> QED
            BY <1>3, <6>1, TransitionFacts
        <5> QED
          BY <5>1, <5>2
      <4> QED
        BY <1>3, <2>5, <2>6, <2>7, <4>1, <4>3 DEF RequestInv
    <3> QED
      BY <3>1, <3>2, <3>3
  <2>9. session[r].at # "unmade"
    BY <1>1 DEF s
  <2> QED
    BY <1>1, <2>1, <2>5, <2>8, <2>9, ReadStep
<1> QED
  BY <1>4, <1>5
\* A workflow that a request is at work on is committed.
LEMMA Committed ==
  ASSUME Inv, NEW r \in Requests, session[r].at \in Stages, session[r].at # "insert"
  PROVE  workflow # Null /\ workflow \in WorkflowRow /\ WorkflowChecks(workflow)
BY StateFacts, CommittedWorkflow DEF RequestInv

\* start_workflow finds its first step, and the transition it validates.
LEMMA LoadStepsInv == ASSUME Inv, NEW r \in Requests, LoadSteps(r) PROVE Inv'
<1> DEFINE s == session[r]
           first == Min(Existing)
           starting == s.step = Null
           st == IF starting THEN "activate" ELSE "begin"
           w == [s EXCEPT !.step = first]
           y == [w EXCEPT !.row = steps[first]]
           x == [y EXCEPT !.at = st]
<1>1. s.at = "steps" /\ Unwritten
  BY DEF LoadSteps, At
<1>2. s \in SessionState /\ RequestInv(r, s, workflow)
  BY StateFacts
<1>3. /\ r.op = "start_workflow" /\ HasWorkflow(s) /\ workflow # Null
  BY <1>1, <1>2 DEF RequestInv, Stages
<1>4. CASE End(r, "ended")
  BY <1>1, <1>4, EndInv DEF Outcomes
<1>5. CASE ~End(r, "ended")
  <2>1. /\ session' = [session EXCEPT ![r] = x]
        /\ Existing # {}
        /\ starting => "ACTIVE" \in WORKFLOW_TRANSITIONS[s.workflow.status]
    BY <1>5 DEF LoadSteps
  <2>2. first \in Existing
    BY <2>1, MinInSet DEF Existing
  <2>3. first \in Steps /\ steps[first] \in StepRow
    BY <2>2, CommittedStep DEF Existing
  <2>4. starting => ~s.workflow.completed
    <3>1. s.workflow.status \in WorkflowStatus
      BY <1>3 DEF HasWorkflow, WorkflowRow
    <3>2. starting => s.workflow.status # "COMPLETED"
      BY <2>1 DEF WORKFLOW_TRANSITIONS
    <3> QED
      BY <1>3, <3>2 DEF HasWorkflow, WorkflowChecks
  <2>5. /\ st \in AllStages
        /\ st = IF starting THEN "activate" ELSE "begin"
    BY DEF AllStages, Stages
  <2> HIDE DEF first, starting, st
  <2>6. w \in SessionState /\ w.step = first /\ w.workflow = s.workflow
    BY <1>2, <2>3 DEF SessionState
  <2> HIDE DEF w
  <2>7. /\ y \in SessionState /\ y.step = first /\ y.workflow = s.workflow
        /\ y.row = steps[first]
    BY <2>3, <2>6 DEF SessionState
  <2> HIDE DEF y
  <2>8. /\ x \in SessionState /\ x.at = st /\ x.step = first
        /\ x.workflow = s.workflow /\ x.row = steps[first]
    BY <2>5, <2>7, GoneTo
  <2> HIDE DEF x, s
  <2>9. HasWorkflow(x) /\ HasStep(x)
    BY <1>3, <2>3, <2>8 DEF HasWorkflow, HasStep
  <2>10. RequestInv(r, x, workflow)
    <3>1. CASE starting
      <4>1. x.at = "activate" /\ ~x.workflow.completed
        BY <2>4, <2>5, <2>8, <3>1
      <4> QED
        BY <1>3, <2>3, <2>8, <2>9, <4>1 DEF RequestInv
    <3>2. CASE ~starting
      <4>1. x.at = "begin"
        BY <2>5, <2>8, <3>2
      <4> QED
        BY <1>3, <2>9, <4>1 DEF RequestInv
    <3> QED
      BY <3>1, <3>2
  <2>11. session[r].at # "unmade"
    BY <1>1 DEF s
  <2> QED
    BY <1>1, <2>1, <2>8, <2>10, <2>11, ReadStep
<1> QED
  BY <1>4, <1>5

\* The workflow is refreshed after a commit.
LEMMA ReloadInv == ASSUME Inv, NEW r \in Requests, Reload(r) PROVE Inv'
<1> DEFINE s == session[r]
           y == [s EXCEPT !.workflow = workflow]
           x == [y EXCEPT !.at = "steps"]
<1>1. s.at = "reload" /\ Unwritten /\ session' = [session EXCEPT ![r] = x]
  BY DEF Reload, At
<1>2. s \in SessionState /\ RequestInv(r, s, workflow)
  BY StateFacts
<1>3. workflow # Null /\ workflow \in WorkflowRow /\ WorkflowChecks(workflow)
  BY <1>1, Committed DEF Stages
<1>4. r.op = "start_workflow"
  BY <1>1, <1>2 DEF RequestInv
<1>5. y \in SessionState /\ y.workflow = workflow
  BY <1>2, <1>3 DEF SessionState
<1> HIDE DEF y
<1>6. x \in SessionState /\ x.at = "steps" /\ x.workflow = workflow
  BY <1>5, GoneTo DEF AllStages, Stages
<1> HIDE DEF x, s
<1>7. RequestInv(r, x, workflow)
  BY <1>3, <1>4, <1>6 DEF RequestInv, HasWorkflow
<1>8. session[r].at # "unmade"
  BY <1>1 DEF s
<1> QED
  BY <1>1, <1>6, <1>7, <1>8, ReadStep

\* A request loads the step that it may change.
LEMMA LoadStepInv == ASSUME Inv, NEW r \in Requests, LoadStep(r) PROVE Inv'
<1> DEFINE s == session[r]
           row == steps[r.step]
           st == AfterStep(r)
           w == [s EXCEPT !.step = r.step]
           y == [w EXCEPT !.row = row]
           x == [y EXCEPT !.at = st]
<1>1. s.at = "step" /\ Unwritten /\ r.op # "add_step"
  BY DEF LoadStep, At
<1>2. s \in SessionState /\ RequestInv(r, s, workflow)
  BY StateFacts
<1>3. /\ r.op \in StepOps /\ workflow # Null
      /\ r.op \notin {"update_step", "request_approval"} => HasWorkflow(s)
  BY <1>1, <1>2 DEF RequestInv, Stages
<1>4. CASE End(r, "ended")
  BY <1>1, <1>4, EndInv DEF Outcomes
<1>5. CASE ~End(r, "ended")
  <2>1. /\ session' = [session EXCEPT ![r] = x]
        /\ row # Null
        /\ st = "write_step" => StepMayBecome(r, row)
    BY <1>5 DEF LoadStep
  <2>2. r.step \in Steps /\ row \in StepRow /\ StepChecks(row)
    BY <2>1, RequestFacts, CommittedStep
  <2>3. /\ st \in {"check", "insert_approval", "remove", "write_step"}
        /\ st = "check" => r.op = "complete_step"
        /\ st = "insert_approval" => r.op = "request_approval"
        /\ st = "write_step" => r.op \in StepOps \ {"request_approval"}
    BY <1>3 DEF AfterStep
  <2> HIDE DEF st, row
  <2>4. st \in AllStages /\ st \in Stages
    BY <2>3 DEF AllStages, Stages
  <2>5. w \in SessionState /\ w.step = r.step /\ w.workflow = s.workflow
    BY <1>2, <2>2 DEF SessionState
  <2> HIDE DEF w
  <2>6. /\ y \in SessionState /\ y.step = r.step /\ y.workflow = s.workflow
        /\ y.row = row
    BY <2>2, <2>5 DEF SessionState
  <2> HIDE DEF y
  <2>7. /\ x \in SessionState /\ x.at = st /\ x.step = r.step
        /\ x.workflow = s.workflow /\ x.row = row
    BY <2>4, <2>6, GoneTo
  <2> HIDE DEF x, s
  <2>8. HasStep(x) /\ (HasWorkflow(s) => HasWorkflow(x))
    BY <2>2, <2>7 DEF HasWorkflow, HasStep
  <2>9. r.op # "create_workflow"
    BY <1>3 DEF StepOps
  <2>10. st = "write_step" => StepTarget(r) \in StepStatus /\ ~x.row.completed
    BY <2>1, <2>2, <2>7, StepTransitionFacts
  <2>11. RequestInv(r, x, workflow)
    <3>1. CASE st = "check"
      <4>1. x.at = "check" /\ r.op = "complete_step"
        BY <2>3, <2>7, <3>1
      <4> QED
        BY <1>3, <2>8, <2>9, <4>1 DEF RequestInv
    <3>2. CASE st = "insert_approval"
      <4>1. x.at = "insert_approval" /\ r.op = "request_approval"
        BY <2>3, <2>7, <3>2
      <4> QED
        BY <1>3, <2>8, <2>9, <4>1 DEF RequestInv
    <3>3. CASE st = "remove"
      <4>1. x.at = "remove"
        BY <2>7, <3>3
      <4> QED
        BY <1>3, <2>9, <4>1 DEF RequestInv
    <3>4. CASE st = "write_step"
      <4>1. x.at = "write_step" /\ StepTarget(r) \in StepStatus /\ ~x.row.completed
        BY <2>7, <2>10, <3>4
      <4> QED
        BY <1>3, <2>8, <2>9, <4>1 DEF RequestInv
    <3> QED
      BY <2>3, <3>1, <3>2, <3>3, <3>4
  <2>12. session[r].at # "unmade"
    BY <1>1 DEF s
  <2> QED
    BY <1>1, <2>1, <2>7, <2>11, <2>12, ReadStep
<1> QED
  BY <1>4, <1>5

\* A request that goes to another stage with what it has.
LEMMA GotoInv ==
  ASSUME Inv, NEW r \in Requests, NEW st \in AllStages, Goto(r, st), Unwritten,
         session[r].at # "unmade",
         ASSUME NEW x \in SessionState,
                x.at = st, x.workflow = session[r].workflow,
                x.step = session[r].step, x.row = session[r].row
         PROVE  RequestInv(r, x, workflow)
  PROVE  Inv'
<1> DEFINE x == [session[r] EXCEPT !.at = st]
<1>1. session' = [session EXCEPT ![r] = x]
  BY DEF Goto
<1>2. /\ x \in SessionState
      /\ x.at = st /\ x.workflow = session[r].workflow
      /\ x.step = session[r].step /\ x.row = session[r].row
  BY StateFacts, GoneTo
<1> HIDE DEF x
<1>3. RequestInv(r, x, workflow)
  BY <1>2
<1> QED
  BY <1>1, <1>2, <1>3, ReadStep

\* A step is added where there is none of its order.
LEMMA FindStepInv == ASSUME Inv, NEW r \in Requests, FindStepByOrder(r) PROVE Inv'
<1>1. session[r].at = "step" /\ r.op = "add_step" /\ Unwritten
  BY DEF FindStepByOrder, At
<1>2. workflow # Null
  BY <1>1, Committed DEF Stages
<1>3. CASE End(r, "ended")
  BY <1>1, <1>3, EndInv DEF Outcomes
<1>4. CASE Goto(r, "insert_step")
  <2>1. ASSUME NEW x \in SessionState, x.at = "insert_step"
        PROVE  RequestInv(r, x, workflow)
    BY <1>1, <1>2, <2>1 DEF RequestInv
  <2>2. "insert_step" \in AllStages
    BY DEF AllStages, Stages
  <2> QED
    BY <1>1, <1>4, <2>1, <2>2, GotoInv
<1> QED
  BY <1>3, <1>4 DEF FindStepByOrder

\* No approval is pending, and the step may still be changed.
LEMMA CheckApprovalsInv == ASSUME Inv, NEW r \in Requests, CheckApprovals(r) PROVE Inv'
<1>1. session[r].at = "check" /\ Unwritten
  BY DEF CheckApprovals, At
<1>2. /\ RequestInv(r, session[r], workflow)
  BY StateFacts
<1>3. /\ HasStep(session[r])
      /\ r.op \in {"complete_step", "approve", "cancel_approval"}
      /\ r.op = "complete_step" => HasWorkflow(session[r])
  BY <1>1, <1>2 DEF RequestInv, StepOps
<1>4. workflow # Null
  BY <1>1, Committed DEF Stages
<1>5. CASE End(r, "ended")
  BY <1>1, <1>5, EndInv DEF Outcomes
<1>6. CASE Goto(r, "write_step") /\ StepMayBecome(r, session[r].row)
  <2>1. StepTarget(r) \in StepStatus
    <3> DEFINE to == StepTarget(r)
    <3>1. to \in STEP_TRANSITIONS[session[r].row.status] /\ session[r].row.status \in StepStatus
      BY <1>3, <1>6 DEF StepMayBecome, HasStep, StepRow
    <3> HIDE DEF to
    <3>2. to \in StepStatus
      BY <3>1 DEF STEP_TRANSITIONS, StepStatus
    <3> QED
      BY <3>2 DEF to
  <2>2. r.op \in StepOps \cup Decisions /\ r.op \in Decisions \cup {"complete_step"}
    BY <1>3 DEF StepOps, Decisions
  <2>3. r.op \in Decisions => r.op \notin StepOps
    BY DEF Decisions, StepOps
  <2>4. ASSUME NEW x \in SessionState, x.at = "write_step",
               x.workflow = session[r].workflow,
               x.step = session[r].step, x.row = session[r].row
        PROVE  RequestInv(r, x, workflow)
    <3>1. HasStep(x) /\ (HasWorkflow(session[r]) => HasWorkflow(x))
      BY <1>3, <2>4 DEF HasStep, HasWorkflow
    <3> QED
      BY <1>3, <1>4, <2>1, <2>2, <2>3, <2>4, <3>1 DEF RequestInv
  <2>5. "write_step" \in AllStages
    BY DEF AllStages, Stages
  <2> QED
    BY <1>1, <1>6, <2>4, <2>5, GotoInv
<1> QED
  BY <1>5, <1>6 DEF CheckApprovals
\* The next step is one that exists, or the workflow is completed.
LEMMA NextPendingInv == ASSUME Inv, NEW r \in Requests, NextPendingStep(r) PROVE Inv'
<1> DEFINE s == session[r]
           pending == {k \in Existing : steps[k].status = "PENDING"}
           next == Min(pending)
           w == [s EXCEPT !.step = next]
           y == [w EXCEPT !.row = steps[next]]
           x == [y EXCEPT !.at = "begin"]
<1>1. s.at = "next" /\ Unwritten
  BY DEF NextPendingStep, At
<1>2. s \in SessionState /\ RequestInv(r, s, workflow)
  BY StateFacts
<1>3. /\ r.op \in {"complete_step", "skip_step"} /\ HasWorkflow(s) /\ workflow # Null
  BY <1>1, <1>2 DEF RequestInv, Stages
<1>4. CASE End(r, "stalled")
  BY <1>1, <1>4, EndInv DEF Outcomes
<1>5. CASE Goto(r, "write_workflow") /\ MayBecome(r, s.workflow)
  <2>1. WorkflowTarget(r, s.workflow) \in WorkflowStatus
    BY <1>3, <1>5, TransitionFacts DEF HasWorkflow
  <2>2. ASSUME NEW z \in SessionState, z.at = "write_workflow",
               z.workflow = session[r].workflow
        PROVE  RequestInv(r, z, workflow)
    <3>1. HasWorkflow(z) /\ WorkflowTarget(r, z.workflow) \in WorkflowStatus
      BY <1>3, <2>1, <2>2 DEF HasWorkflow
    <3> QED
      BY <1>3, <2>2, <3>1 DEF RequestInv
  <2>3. "write_workflow" \in AllStages
    BY DEF AllStages, Stages
  <2> QED
    BY <1>1, <1>5, <2>2, <2>3, GotoInv
<1>6. CASE session' = [session EXCEPT ![r] = x] /\ pending # {}
  <2>1. next \in pending
    BY <1>6, MinInSet DEF Existing
  <2>2. next \in Steps /\ steps[next] \in StepRow
    BY <2>1, CommittedStep DEF Existing
  <2> HIDE DEF next, pending
  <2>3. w \in SessionState /\ w.step = next /\ w.workflow = s.workflow
    BY <1>2, <2>2 DEF SessionState
  <2> HIDE DEF w
  <2>4. /\ y \in SessionState /\ y.step = next /\ y.workflow = s.workflow
        /\ y.row = steps[next]
    BY <2>2, <2>3 DEF SessionState
  <2> HIDE DEF y
  <2>5. /\ x \in SessionState /\ x.at = "begin" /\ x.step = next
        /\ x.workflow = s.workflow /\ x.row = steps[next]
    BY <2>4, GoneTo DEF AllStages, Stages
  <2> HIDE DEF x, s
  <2>6. HasWorkflow(x) /\ HasStep(x)
    BY <1>3, <2>2, <2>5 DEF HasWorkflow, HasStep
  <2>7. RequestInv(r, x, workflow)
    BY <1>3, <2>5, <2>6 DEF RequestInv
  <2>8. session[r].at # "unmade"
    BY <1>1 DEF s
  <2> QED
    BY <1>1, <1>6, <2>5, <2>7, <2>8, ReadStep
<1> QED
  BY <1>4, <1>5, <1>6 DEF NextPendingStep

\* A decision loads the approval that it may decide.
LEMMA LoadApprovalInv == ASSUME Inv, NEW r \in Requests, LoadApproval(r) PROVE Inv'
<1> DEFINE s == session[r]
           a == approvals[r.approval]
           w == [s EXCEPT !.step = a.step]
           y == [w EXCEPT !.status = a.status]
           x == [y EXCEPT !.at = "write_approval"]
<1>1. s.at = "approval" /\ Unwritten
  BY DEF LoadApproval, At
<1>2. s \in SessionState /\ RequestInv(r, s, workflow)
  BY StateFacts
<1>3. r.op \in Decisions /\ workflow # Null /\ r.op \notin {"create_workflow", "update_step"}
  BY <1>1, <1>2 DEF RequestInv, Stages
<1>4. CASE End(r, "ended")
  BY <1>1, <1>4, EndInv DEF Outcomes
<1>5. CASE session' = [session EXCEPT ![r] = x] /\ a # Null
  <2>1. a \in ApprovalRow
    BY <1>5, RequestFacts DEF Inv, TypeOK
  <2>2. a.step \in Steps /\ a.status \in ApprovalStatus
    BY <2>1 DEF ApprovalRow
  <2> HIDE DEF a
  <2>3. w \in SessionState /\ w.step = a.step
    BY <1>2, <2>2 DEF SessionState
  <2> HIDE DEF w
  <2>4. y \in SessionState /\ y.step = a.step
    BY <2>2, <2>3 DEF SessionState
  <2> HIDE DEF y
  <2>5. x \in SessionState /\ x.at = "write_approval" /\ x.step = a.step
    BY <2>4, GoneTo DEF AllStages, Stages
  <2> HIDE DEF x, s
  <2>6. RequestInv(r, x, workflow)
    BY <1>3, <2>2, <2>5 DEF RequestInv
  <2>7. session[r].at # "unmade"
    BY <1>1 DEF s
  <2> QED
    BY <1>1, <1>5, <2>5, <2>6, <2>7, ReadStep
<1> QED
  BY <1>4, <1>5 DEF LoadApproval

\* A decision loads the step of its approval.
LEMMA LoadGatedStepInv == ASSUME Inv, NEW r \in Requests, LoadGatedStep(r) PROVE Inv'
<1> DEFINE s == session[r]
           row == steps[s.step]
           st == IF r.op = "reject" THEN "write_step" ELSE "check"
           y == [s EXCEPT !.row = row]
           x == [y EXCEPT !.at = st]
<1>1. s.at = "gated_step" /\ Unwritten
  BY DEF LoadGatedStep, At
<1>2. s \in SessionState /\ RequestInv(r, s, workflow)
  BY StateFacts
<1>3. /\ r.op \in Decisions \ {"escalate"} /\ workflow # Null
      /\ s.step \in Steps
  BY <1>1, <1>2 DEF RequestInv, Stages
<1>4. r.op \in {"approve", "cancel_approval", "reject"} /\ r.op \notin StepOps
  BY <1>3 DEF Decisions, StepOps
<1>5. CASE End(r, "ended")
  BY <1>1, <1>5, EndInv DEF Outcomes
<1>6. CASE ~End(r, "ended")
  <2>1. /\ session' = [session EXCEPT ![r] = x] /\ row # Null
        /\ r.op = "reject" => StepMayBecome(r, row)
    BY <1>6 DEF LoadGatedStep
  <2>2. row \in StepRow /\ StepChecks(row)
    BY <1>3, <2>1, CommittedStep
  <2>3. r.op = "reject" => StepTarget(r) \in StepStatus
    BY <2>1, <2>2, StepTransitionFacts
  <2>4. st \in AllStages
    BY DEF AllStages, Stages
  <2> HIDE DEF row
  <2>5. y \in SessionState /\ y.step = s.step /\ y.row = row
    BY <1>2, <2>2 DEF SessionState
  <2> HIDE DEF y
  <2>6. x \in SessionState /\ x.at = st /\ x.step = s.step /\ x.row = row
    BY <2>4, <2>5, GoneTo
  <2> HIDE DEF x, s
  <2>7. HasStep(x)
    BY <1>3, <2>2, <2>6 DEF HasStep
  <2>8. RequestInv(r, x, workflow)
    <3>1. CASE r.op = "reject"
      <4>1. x.at = "write_step"
        BY <2>6, <3>1
      <4> QED
        BY <1>3, <1>4, <2>3, <2>7, <3>1, <4>1 DEF RequestInv
    <3>2. CASE r.op # "reject"
      <4>1. x.at = "check"
        BY <2>6, <3>2
      <4> QED
        BY <1>3, <1>4, <2>7, <3>2, <4>1 DEF RequestInv
    <3> QED
      BY <3>1, <3>2
  <2>9. session[r].at # "unmade"
    BY <1>1 DEF s
  <2> QED
    BY <1>1, <2>1, <2>6, <2>8, <2>9, ReadStep
<1> QED
  BY <1>5, <1>6

\* A server that dies leaves its request where it was.
LEMMA AbandonInv == ASSUME Inv, NEW r \in Requests, Abandon(r) PROVE Inv'
<1> DEFINE outcome == IF Halfway(r) THEN "lost" ELSE "ended"
<1>1. session[r].at \in Stages /\ End(r, outcome) /\ Unwritten
  BY DEF Abandon, Open
<1>2. outcome \in Outcomes
  BY DEF Outcomes
<1> HIDE DEF outcome
<1>3. session[r].at # "unmade"
  BY <1>1, StagesMade
<1> QED
  BY <1>1, <1>2, <1>3, EndInv
----------------------------------------------------------------------------
(* Writes.                                                                 *)

\* The workflow is created, once.
LEMMA CreateInv == ASSUME Inv, NEW r \in Requests, CreateWorkflow(r) PROVE Inv'
<1> DEFINE x == [session[r] EXCEPT !.at = "insert_steps"]
<1>1. /\ session[r].at = "insert"
      /\ workflow' = [status |-> "DRAFT", completed |-> FALSE, cancelled |-> FALSE,
                      current |-> Null, deleted |-> FALSE]
      /\ session' = [session EXCEPT ![r] = x] /\ UNCHANGED <<steps, approvals>>
  BY DEF CreateWorkflow, At, Goto
<1>2. session[r] \in SessionState /\ RequestInv(r, session[r], workflow)
  BY StateFacts
<1>3. r.op = "create_workflow" /\ workflow = Null
  BY <1>1, <1>2 DEF RequestInv
<1>4. TablesOK'
  BY <1>1 DEF Inv, TypeOK, TablesOK, Existing, WorkflowRow, WorkflowStatus, WorkflowChecks
<1>5. x \in SessionState /\ x.at = "insert_steps"
  BY <1>2, GoneTo DEF AllStages, Stages
<1> HIDE DEF x
<1>6. CASE workflow' # Null
  <2>1. RequestInv(r, x, workflow')
    BY <1>3, <1>5, <1>6 DEF RequestInv
  <2> QED
    BY <1>1, <1>3, <1>4, <1>5, <2>1, Stepped
<1>7. workflow' # Null
  <2>1. workflow' \in WorkflowRow
    BY <1>1 DEF WorkflowRow, WorkflowStatus
  <2> QED
    BY <2>1, NullAssumption
<1> QED
  BY <1>6, <1>7

\* Steps are inserted where there are none.
LEMMA InsertStepsInv == ASSUME Inv, NEW r \in Requests, InsertSteps(r) PROVE Inv'
<1> DEFINE new == IF At(r, "insert_steps") THEN InitialSteps ELSE {r.step}
           x == Session("ended")
<1>1. /\ session[r].at \in {"insert_steps", "insert_step"}
      /\ IF new \cap Existing = {}
         THEN steps' = [k \in Steps |-> IF k \in new THEN NewStep ELSE steps[k]]
         ELSE UNCHANGED steps
      /\ session' = [session EXCEPT ![r] = x]
      /\ UNCHANGED <<workflow, approvals>>
  BY DEF InsertSteps, At, End
<1>2. NewStep \in StepRow /\ StepChecks(NewStep)
  BY DEF NewStep, StepRow, StepStatus, StepChecks
<1> HIDE DEF new
<1>3. TablesOK'
  <2>1. steps' \in [Steps -> StepRow \cup {Null}]
    BY <1>1, <1>2 DEF Inv, TypeOK
  <2>2. ASSUME NEW k \in Steps, steps'[k] # Null PROVE StepChecks(steps'[k])
    <3>1. steps'[k] = NewStep \/ steps'[k] = steps[k]
      BY <1>1
    <3> QED
      BY <1>2, <2>2, <3>1, CommittedStep
  <2> QED
    BY <1>1, <2>1, <2>2 DEF Inv, TypeOK, TablesOK, Existing
<1>4. x \in SessionState /\ RequestInv(r, x, workflow')
  BY EndedState DEF Outcomes
<1> QED
  BY <1>1, <1>3, <1>4, Stepped

\* A step goes with its approvals.
LEMMA DeleteStepInv == ASSUME Inv, NEW r \in Requests, DeleteStep(r) PROVE Inv'
<1> DEFINE x == Session("ended")
<1>1. /\ session[r].at = "remove"
      /\ steps' = [steps EXCEPT ![r.step] = Null]
      /\ approvals' = [a \in Approvals |->
           IF approvals[a] # Null /\ approvals[a].step = r.step THEN Null ELSE approvals[a]]
      /\ session' = [session EXCEPT ![r] = x]
      /\ UNCHANGED workflow
  BY DEF DeleteStep, At, End
<1>2. TablesOK'
  <2>1. steps' \in [Steps -> StepRow \cup {Null}]
    BY <1>1 DEF Inv, TypeOK
  <2>2. ASSUME NEW k \in Steps, steps'[k] # Null PROVE StepChecks(steps'[k])
    <3>1. steps'[k] = steps[k]
      BY <1>1, <2>2 DEF Inv, TypeOK
    <3> QED
      BY <2>2, <3>1, CommittedStep
  <2>3. approvals' \in [Approvals -> ApprovalRow \cup {Null}]
    BY <1>1 DEF Inv, TypeOK
  <2> QED
    BY <1>1, <2>1, <2>2, <2>3 DEF Inv, TypeOK, TablesOK, Existing
<1>3. x \in SessionState /\ RequestInv(r, x, workflow')
  BY EndedState DEF Outcomes
<1> QED
  BY <1>1, <1>2, <1>3, Stepped
\* One write of the workflow: what follows knows what the request knew.
LEMMA CommitWorkflowInv ==
  ASSUME Inv, NEW r \in Requests, NEW wanted \in WorkflowRow,
         NEW next \in Stages \cup Outcomes,
         CommitWorkflow(r, wanted, next),
         session[r].at \in Stages, session[r].at # "insert",
         session[r].workflow \in WorkflowRow,
         ASSUME NEW x \in SessionState, NEW w, w # Null, next \in Stages,
                x.at = next, x.workflow = session[r].workflow,
                x.step = session[r].step, x.row = session[r].row
         PROVE  RequestInv(r, x, w)
  PROVE  Inv'
<1> DEFINE new == Updated(workflow, session[r].workflow, wanted)
           x == IF WorkflowChecks(new) /\ next \in Stages
                THEN [session[r] EXCEPT !.at = next]
                ELSE Session(IF WorkflowChecks(new) THEN next ELSE "ended")
<1>1. /\ workflow' = IF WorkflowChecks(new) THEN new ELSE workflow
      /\ session' = [session EXCEPT ![r] = x]
      /\ UNCHANGED <<steps, approvals>>
  BY DEF CommitWorkflow, Goto, End
<1>2. workflow # Null /\ workflow \in WorkflowRow /\ WorkflowChecks(workflow)
  BY Committed
<1>3. new \in WorkflowRow
  BY <1>2, UpdatedWorkflow
<1> HIDE DEF new
<1>4. workflow' \in WorkflowRow /\ WorkflowChecks(workflow') /\ workflow' # Null
  BY <1>1, <1>2, <1>3, NullAssumption
<1>5. x \in SessionState /\ RequestInv(r, x, workflow')
  <2>1. CASE WorkflowChecks(new) /\ next \in Stages
    <3> DEFINE y == [session[r] EXCEPT !.at = next]
    <3>1. /\ y \in SessionState
          /\ y.at = next /\ y.workflow = session[r].workflow
          /\ y.step = session[r].step /\ y.row = session[r].row
      BY <2>1, StateFacts, GoneTo DEF AllStages
    <3>2. x = y
      BY <2>1
    <3> HIDE DEF x, y
    <3> QED
      BY <1>4, <2>1, <3>1, <3>2
  <2>2. CASE ~(WorkflowChecks(new) /\ next \in Stages)
    <3> DEFINE outcome == IF WorkflowChecks(new) THEN next ELSE "ended"
    <3>1. outcome \in Outcomes
      BY <2>2 DEF Outcomes
    <3>2. x = Session(outcome)
      BY <2>2
    <3> HIDE DEF x, outcome
    <3> QED
      BY <3>1, <3>2, EndedState
  <2> QED
    BY <2>1, <2>2
<1> HIDE DEF x
<1>6. TablesOK'
  BY <1>1, <1>4 DEF Inv, TypeOK, TablesOK, Existing
<1>7. session[r].at # "unmade"
  BY StagesMade
<1> QED
  BY <1>1, <1>2, <1>4, <1>5, <1>6, <1>7, Stepped

\* What WriteWorkflow assigns.
LEMMA WantedFacts ==
  ASSUME NEW r, NEW w \in WorkflowRow, WorkflowTarget(r, w) \in WorkflowStatus
  PROVE  /\ Wanted(r, w) \in WorkflowRow
         /\ w.cancelled => Wanted(r, w).cancelled
         /\ w.completed /\ (\/ r.op \in {"complete_step", "skip_step"}
                            \/ WorkflowTarget(r, w) = "COMPLETED")
              => Wanted(r, w).completed
<1> DEFINE status == WorkflowTarget(r, w)
           completed == \/ r.op \in {"complete_step", "skip_step"}
                        \/ (w.completed /\ WorkflowTarget(r, w) = "COMPLETED")
           cancelled == w.cancelled \/ r.op = "cancel_workflow"
           deleted == (w.deleted \/ r.op = "delete_workflow") /\ r.op # "restore_workflow"
           a == [w EXCEPT !.status = status]
           b == [a EXCEPT !.completed = completed]
           c == [b EXCEPT !.cancelled = cancelled]
           d == [c EXCEPT !.deleted = deleted]
<1>1. completed \in BOOLEAN /\ cancelled \in BOOLEAN /\ deleted \in BOOLEAN
  BY DEF WorkflowRow
<1>2. Wanted(r, w) = d
  BY DEF Wanted, WorkflowRow
<1>3. /\ w.cancelled => cancelled
      /\ w.completed /\ (\/ r.op \in {"complete_step", "skip_step"}
                         \/ status = "COMPLETED") => completed
  OBVIOUS
<1> HIDE DEF status, completed, cancelled, deleted
<1>4. a \in WorkflowRow
  BY DEF WorkflowRow, status
<1> HIDE DEF a
<1>5. b \in WorkflowRow /\ b.completed = completed
  BY <1>1, <1>4 DEF WorkflowRow
<1> HIDE DEF b
<1>6. c \in WorkflowRow /\ c.completed = completed /\ c.cancelled = cancelled
  BY <1>1, <1>5 DEF WorkflowRow
<1> HIDE DEF c
<1>7. d \in WorkflowRow /\ d.completed = completed /\ d.cancelled = cancelled
  BY <1>1, <1>6 DEF WorkflowRow
<1> HIDE DEF d
<1> QED
  BY <1>2, <1>3, <1>7 DEF status

\* What Activate assigns.
ActivateWanted(r) ==
  [session[r].workflow EXCEPT !.status = "ACTIVE", !.current = session[r].step,
                              !.completed = FALSE]

\* It activates a workflow that was not completed when it was loaded.
LEMMA ActivateFacts ==
  ASSUME Inv, NEW r \in Requests, Activate(r)
  PROVE  /\ session[r].at = "activate"
         /\ session[r].workflow \in WorkflowRow /\ ~session[r].workflow.completed
         /\ session[r].step \in Steps /\ r.op = "start_workflow"
         /\ CommitWorkflow(r, ActivateWanted(r), "reload")
         /\ ActivateWanted(r) \in WorkflowRow
         /\ ActivateWanted(r).completed = FALSE
         /\ ActivateWanted(r).cancelled = session[r].workflow.cancelled
<1>1. session[r].at = "activate" /\ CommitWorkflow(r, ActivateWanted(r), "reload")
  BY DEF Activate, At, ActivateWanted
<1>2. /\ session[r].workflow \in WorkflowRow /\ ~session[r].workflow.completed
      /\ session[r].step \in Steps /\ r.op = "start_workflow"
  BY <1>1, StateFacts DEF RequestInv, HasWorkflow
<1>3. "ACTIVE" \in WorkflowStatus
  BY DEF WorkflowStatus
<1>4. /\ ActivateWanted(r) \in WorkflowRow
      /\ ActivateWanted(r).completed = FALSE
      /\ ActivateWanted(r).cancelled = session[r].workflow.cancelled
  <2> DEFINE w == session[r].workflow
             a == [w EXCEPT !.status = "ACTIVE"]
             b == [a EXCEPT !.current = session[r].step]
  <2>1. a \in WorkflowRow /\ a.cancelled = w.cancelled
    BY <1>2, <1>3 DEF WorkflowRow
  <2>2. ActivateWanted(r) = [b EXCEPT !.completed = FALSE]
    BY DEF ActivateWanted
  <2> HIDE DEF a
  <2>3. b \in WorkflowRow /\ b.cancelled = w.cancelled
    BY <1>2, <2>1 DEF WorkflowRow
  <2> HIDE DEF b
  <2> QED
    BY <2>2, <2>3 DEF WorkflowRow
<1> QED
  BY <1>1, <1>2, <1>4

\* start_workflow writes the workflow for the first time.
LEMMA ActivateInv == ASSUME Inv, NEW r \in Requests, Activate(r) PROVE Inv'
<1>1. ASSUME NEW x \in SessionState, NEW w, w # Null,
             x.at = "reload", x.step = session[r].step
      PROVE  RequestInv(r, x, w)
  BY <1>1, ActivateFacts DEF RequestInv
<1>2. "reload" \in Stages /\ "activate" \in Stages
  BY DEF Stages
<1> QED
  BY <1>1, <1>2, ActivateFacts, CommitWorkflowInv

\* What Point assigns.
PointWanted(r) == [session[r].workflow EXCEPT !.current = session[r].step]

\* It only moves the current step.
LEMMA PointFacts ==
  ASSUME Inv, NEW r \in Requests, Point(r)
  PROVE  /\ session[r].at = "point"
         /\ session[r].workflow \in WorkflowRow
         /\ CommitWorkflow(r, PointWanted(r), "ended")
         /\ PointWanted(r) \in WorkflowRow
         /\ PointWanted(r).completed = session[r].workflow.completed
         /\ PointWanted(r).cancelled = session[r].workflow.cancelled
<1>1. session[r].at = "point" /\ CommitWorkflow(r, PointWanted(r), "ended")
  BY DEF Point, At, PointWanted
<1>2. session[r].workflow \in WorkflowRow /\ session[r].step \in Steps
  BY <1>1, StateFacts DEF RequestInv, HasWorkflow
<1> QED
  BY <1>1, <1>2 DEF PointWanted, WorkflowRow

\* The current step moves on.
LEMMA PointInv == ASSUME Inv, NEW r \in Requests, Point(r) PROVE Inv'
<1>1. "point" \in Stages /\ "ended" \in Outcomes /\ "ended" \notin Stages
  BY DEF Stages, Outcomes
<1> QED
  BY <1>1, PointFacts, CommitWorkflowInv

\* It clears no timestamp that was loaded, start_workflow's write excepted.
LEMMA WriteWorkflowFacts ==
  ASSUME Inv, NEW r \in Requests, WriteWorkflow(r)
  PROVE  LET w == session[r].workflow
         IN  /\ session[r].at = "write_workflow"
             /\ w \in WorkflowRow
             /\ CommitWorkflow(r, Wanted(r, w), "ended")
             /\ Wanted(r, w) \in WorkflowRow
             /\ w.cancelled => Wanted(r, w).cancelled
             /\ w.completed /\ r.op # "start_workflow" => Wanted(r, w).completed
<1> DEFINE w == session[r].workflow
<1>1. session[r].at = "write_workflow" /\ CommitWorkflow(r, Wanted(r, w), "ended")
  BY DEF WriteWorkflow, At
<1>2. /\ w \in WorkflowRow
      /\ WorkflowTarget(r, w) \in WorkflowStatus
      /\ \/ r.op \in {"start_workflow", "complete_step", "skip_step"}
         \/ w.completed => WorkflowTarget(r, w) = "COMPLETED"
  BY <1>1, StateFacts DEF RequestInv, HasWorkflow
<1> HIDE DEF w
<1>3. /\ Wanted(r, w) \in WorkflowRow
      /\ w.cancelled => Wanted(r, w).cancelled
      /\ w.completed /\ r.op # "start_workflow" => Wanted(r, w).completed
  BY <1>2, WantedFacts
<1> QED
  BY <1>1, <1>2, <1>3 DEF w

\* The last write of a request to its workflow.
LEMMA WriteWorkflowInv == ASSUME Inv, NEW r \in Requests, WriteWorkflow(r) PROVE Inv'
<1>1. "write_workflow" \in Stages /\ "ended" \in Outcomes /\ "ended" \notin Stages
  BY DEF Stages, Outcomes
<1> QED
  BY <1>1, WriteWorkflowFacts, CommitWorkflowInv
\* One write of a step: what follows knows what the request knew.
LEMMA CommitStepInv ==
  ASSUME Inv, NEW r \in Requests, NEW wanted \in StepRow,
         NEW next \in Stages \cup Outcomes,
         CommitStep(r, wanted, next),
         session[r].at \in Stages, session[r].at # "insert",
         HasStep(session[r]),
         ASSUME NEW x \in SessionState, next \in Stages,
                x.at = next, x.workflow = session[r].workflow,
                x.step = session[r].step, x.row = session[r].row
         PROVE  RequestInv(r, x, workflow)
  PROVE  Inv'
<1> DEFINE k == session[r].step
           new == Updated(steps[k], session[r].row, wanted)
           ok == steps[k] # Null /\ StepChecks(new)
           x == IF ok /\ next \in Stages
                THEN [session[r] EXCEPT !.at = next]
                ELSE Session(IF ok THEN next ELSE "ended")
<1>1. /\ steps' = IF ok THEN [steps EXCEPT ![k] = new] ELSE steps
      /\ session' = [session EXCEPT ![r] = x]
      /\ UNCHANGED <<workflow, approvals>>
  BY DEF CommitStep, Goto, End
<1>2. k \in Steps /\ session[r].row \in StepRow
  BY DEF HasStep
<1>3. ok => new \in StepRow /\ StepChecks(new)
  BY <1>2, CommittedStep, UpdatedStep
<1>4. steps' \in [Steps -> StepRow \cup {Null}]
      /\ \A j \in Steps : steps'[j] = IF ok /\ j = k THEN new ELSE steps[j]
  <2> HIDE DEF ok, new
  <2> QED
    BY <1>1, <1>2, <1>3 DEF Inv, TypeOK
<1> HIDE DEF k, new
<1>5. \A j \in Steps : steps'[j] # Null => StepChecks(steps'[j])
  BY <1>3, <1>4, CommittedStep
<1> HIDE DEF ok
<1>6. TablesOK'
  BY <1>1, <1>4, <1>5 DEF Inv, TypeOK, TablesOK, Existing
<1>7. x \in SessionState /\ RequestInv(r, x, workflow')
  <2>1. CASE ok /\ next \in Stages
    <3> DEFINE y == [session[r] EXCEPT !.at = next]
    <3>1. /\ y \in SessionState
          /\ y.at = next /\ y.workflow = session[r].workflow
          /\ y.step = session[r].step /\ y.row = session[r].row
      BY <2>1, StateFacts, GoneTo DEF AllStages
    <3>2. x = y
      BY <2>1
    <3> HIDE DEF x, y
    <3>3. RequestInv(r, y, workflow)
      BY <2>1, <3>1
    <3> QED
      BY <1>1, <3>1, <3>2, <3>3
  <2>2. CASE ~(ok /\ next \in Stages)
    <3> DEFINE outcome == IF ok THEN next ELSE "ended"
    <3>1. outcome \in Outcomes
      BY <2>2 DEF Outcomes
    <3>2. x = Session(outcome)
      BY <2>2
    <3> HIDE DEF x, outcome
    <3> QED
      BY <3>1, <3>2, EndedState
  <2> QED
    BY <2>1, <2>2
<1> HIDE DEF x
<1>8. session[r].at # "unmade"
  BY StagesMade
<1> QED
  BY <1>1, <1>6, <1>7, <1>8, Stepped

\* What WriteStep assigns.
StepWanted(r) ==
  [status |-> StepTarget(r),
   completed |-> \/ r.op \in {"complete_step", "skip_step"}
                 \/ r.op # "retry_step" /\ session[r].row.completed]

\* It clears no timestamp that was loaded.
LEMMA WriteStepFacts ==
  ASSUME Inv, NEW r \in Requests, WriteStep(r)
  PROVE  /\ session[r].at = "write_step" /\ HasStep(session[r])
         /\ RequestInv(r, session[r], workflow)
         /\ CommitStep(r, StepWanted(r), AfterWrite(r))
         /\ StepWanted(r) \in StepRow
         /\ session[r].row.completed => StepWanted(r).completed
<1>1. session[r].at = "write_step" /\ CommitStep(r, StepWanted(r), AfterWrite(r))
  BY DEF WriteStep, At, StepWanted
<1>2. RequestInv(r, session[r], workflow)
  BY StateFacts
<1>3. /\ HasStep(session[r])
      /\ StepTarget(r) \in StepStatus
      /\ r.op = "retry_step" => ~session[r].row.completed
  BY <1>1, <1>2 DEF RequestInv
<1>4. session[r].row.completed \in BOOLEAN
  BY <1>3 DEF HasStep, StepRow
<1> DEFINE completed == \/ r.op \in {"complete_step", "skip_step"}
                        \/ r.op # "retry_step" /\ session[r].row.completed
<1>5. completed \in BOOLEAN /\ (session[r].row.completed => completed)
  BY <1>3, <1>4
<1>6. StepWanted(r) = [status |-> StepTarget(r), completed |-> completed]
  BY DEF StepWanted
<1> HIDE DEF completed
<1>7. StepWanted(r) \in StepRow /\ StepWanted(r).completed = completed
  BY <1>3, <1>5, <1>6 DEF StepRow
<1> QED
  BY <1>1, <1>2, <1>3, <1>5, <1>7

\* A step is written, and the workflow if need be.
LEMMA WriteStepInv == ASSUME Inv, NEW r \in Requests, WriteStep(r) PROVE Inv'
<1> DEFINE w == session[r].workflow
           next == AfterWrite(r)
<1>1. r.op \in StepOps \cup Decisions /\ workflow # Null
  BY WriteStepFacts DEF RequestInv, Stages
<1>2. r.op \in {"complete_step", "skip_step", "fail_step", "retry_step"} => HasWorkflow(session[r])
  BY WriteStepFacts DEF RequestInv, StepOps
<1>3. /\ next = "next" => r.op \in {"complete_step", "skip_step"}
      /\ next = "write_workflow" =>
           \/ r.op = "fail_step" /\ MayBecome(r, w)
           \/ r.op = "retry_step" /\ w.status = "FAILED"
      /\ next = "load" => r.op = "reject"
      /\ next \in {"next", "write_workflow", "load", "overtaken", "ended"}
  BY DEF AfterWrite
<1> HIDE DEF next
<1>4. ASSUME NEW x \in SessionState, next \in Stages,
             x.at = next, x.workflow = session[r].workflow
      PROVE  RequestInv(r, x, workflow)
  <2>1. CASE next = "next"
    <3>1. HasWorkflow(x)
      BY <1>2, <1>3, <1>4, <2>1 DEF HasWorkflow
    <3> QED
      BY <1>1, <1>3, <1>4, <2>1, <3>1 DEF RequestInv
  <2>2. CASE next = "write_workflow"
    <3>1. HasWorkflow(x)
      BY <1>2, <1>3, <1>4, <2>2 DEF HasWorkflow
    <3>2. /\ WorkflowTarget(r, w) \in WorkflowStatus
          /\ ~w.completed
      <4>1. CASE r.op = "fail_step" /\ MayBecome(r, w)
        BY <1>2, <4>1, TransitionFacts DEF HasWorkflow
      <4>2. CASE r.op = "retry_step" /\ w.status = "FAILED"
        <5>1. WorkflowTarget(r, w) = "IN_PROGRESS"
          BY <4>2 DEF WorkflowTarget
        <5>2. ~w.completed
          BY <1>2, <4>2 DEF HasWorkflow, WorkflowChecks
        <5> QED
          BY <5>1, <5>2 DEF WorkflowStatus
      <4> QED
        BY <1>3, <2>2, <4>1, <4>2
    <3>3. WorkflowTarget(r, x.workflow) \in WorkflowStatus /\ ~x.workflow.completed
      BY <1>4, <3>2
    <3>4. r.op \in {"fail_step", "retry_step"}
      BY <1>3, <2>2
    <3> QED
      BY <1>1, <1>4, <2>2, <3>1, <3>3, <3>4 DEF RequestInv
  <2>3. CASE next = "load"
    <3>1. r.op = "reject"
      BY <1>3, <2>3
    <3> QED
      BY <1>1, <1>4, <2>3, <3>1 DEF RequestInv
  <2>4. next \notin {"overtaken", "ended"}
    BY <1>4 DEF Stages
  <2> QED
    BY <1>3, <2>1, <2>2, <2>3, <2>4
<1>5. next \in Stages \cup Outcomes /\ "write_step" \in Stages
  BY <1>3 DEF Stages, Outcomes
<1>6. CommitStep(r, StepWanted(r), next)
  BY WriteStepFacts DEF next
<1> QED
  BY <1>4, <1>5, <1>6, WriteStepFacts, CommitStepInv

\* What BeginStep assigns, and what follows.
BeginWanted(r) == [session[r].row EXCEPT !.status = "IN_PROGRESS"]
AfterBegin(r) == IF r.op = "start_workflow" THEN "write_workflow" ELSE "point"

\* It changes no timestamp.
LEMMA BeginStepFacts ==
  ASSUME Inv, NEW r \in Requests, BeginStep(r)
  PROVE  /\ session[r].at = "begin" /\ HasStep(session[r])
         /\ RequestInv(r, session[r], workflow)
         /\ CommitStep(r, BeginWanted(r), AfterBegin(r))
         /\ BeginWanted(r) \in StepRow
         /\ BeginWanted(r).completed = session[r].row.completed
<1>1. session[r].at = "begin" /\ CommitStep(r, BeginWanted(r), AfterBegin(r))
  BY DEF BeginStep, At, BeginWanted, AfterBegin
<1>2. RequestInv(r, session[r], workflow)
  BY StateFacts
<1>3. HasStep(session[r])
  BY <1>1, <1>2 DEF RequestInv
<1>4. /\ BeginWanted(r) \in StepRow
      /\ BeginWanted(r).completed = session[r].row.completed
  BY <1>3 DEF BeginWanted, HasStep, StepRow, StepStatus
<1> QED
  BY <1>1, <1>2, <1>3, <1>4

\* The next step begins.
LEMMA BeginStepInv == ASSUME Inv, NEW r \in Requests, BeginStep(r) PROVE Inv'
<1>1. /\ HasWorkflow(session[r]) /\ HasStep(session[r]) /\ workflow # Null
      /\ r.op \in {"start_workflow", "complete_step", "skip_step"}
  BY BeginStepFacts DEF RequestInv, Stages
<1>2. ASSUME NEW x \in SessionState,
             x.at = AfterBegin(r), x.workflow = session[r].workflow,
             x.step = session[r].step
      PROVE  RequestInv(r, x, workflow)
  <2>1. HasWorkflow(x) /\ x.step \in Steps
    BY <1>1, <1>2 DEF HasWorkflow, HasStep
  <2>2. CASE r.op = "start_workflow"
    <3>1. x.at = "write_workflow"
      BY <1>2, <2>2 DEF AfterBegin
    <3>2. WorkflowTarget(r, x.workflow) \in WorkflowStatus
      BY <2>2 DEF WorkflowTarget, WorkflowStatus
    <3> QED
      BY <1>1, <2>1, <2>2, <3>1, <3>2 DEF RequestInv
  <2>3. CASE r.op # "start_workflow"
    <3>1. x.at = "point"
      BY <1>2, <2>3 DEF AfterBegin
    <3> QED
      BY <1>1, <2>1, <3>1 DEF RequestInv
  <2> QED
    BY <2>2, <2>3
<1>3. AfterBegin(r) \in Stages /\ "begin" \in Stages
  BY DEF AfterBegin, Stages
<1> QED
  BY <1>2, <1>3, BeginStepFacts, CommitStepInv
\* An approval is requested of a step that exists.
LEMMA CreateApprovalInv == ASSUME Inv, NEW r \in Requests, CreateApproval(r) PROVE Inv'
<1> DEFINE s == session[r]
           new == [step |-> r.step, status |-> "PENDING"]
           st == IF s.row.status = "PENDING" THEN "write_step" ELSE "ended"
           x == IF st = "write_step" THEN [s EXCEPT !.at = st] ELSE Session("ended")
<1>1. s.at = "insert_approval" /\ UNCHANGED <<workflow, steps>>
  BY DEF CreateApproval, At
<1>2. s \in SessionState /\ RequestInv(r, s, workflow)
  BY StateFacts
<1>3. r.op = "request_approval" /\ workflow # Null /\ HasStep(s)
  BY <1>1, <1>2 DEF RequestInv, Stages
<1>4. session[r].at # "unmade"
  BY <1>1
<1>5. CASE UNCHANGED approvals /\ End(r, "ended")
  BY <1>1, <1>4, <1>5, EndInv DEF Unwritten, Outcomes
<1>6. CASE ~(UNCHANGED approvals /\ End(r, "ended"))
  <2>1. approvals' = [approvals EXCEPT ![r.approval] = new]
    BY <1>6 DEF CreateApproval
  <2>2. session' = [session EXCEPT ![r] = x]
    BY <1>6 DEF CreateApproval, Goto, End
  <2>3. new \in ApprovalRow
    BY RequestFacts DEF ApprovalRow, ApprovalStatus
  <2>4. approvals' \in [Approvals -> ApprovalRow \cup {Null}]
    BY <2>1, <2>3 DEF Inv, TypeOK
  <2>5. TablesOK'
    BY <1>1, <2>4 DEF Inv, TypeOK, TablesOK, Existing
  <2>6. x \in SessionState /\ RequestInv(r, x, workflow)
    <3>1. CASE st = "write_step"
      <4>1. /\ x \in SessionState /\ x.at = "write_step"
            /\ x.step = s.step /\ x.row = s.row
        BY <1>2, <3>1, GoneTo DEF AllStages, Stages
      <4> HIDE DEF x, s
      <4>2. HasStep(x)
        BY <1>3, <4>1 DEF HasStep
      <4>3. StepTarget(r) \in StepStatus /\ r.op \in StepOps
        BY <1>3 DEF StepTarget, StepStatus, StepOps
      <4> QED
        BY <1>3, <4>1, <4>2, <4>3 DEF RequestInv
    <3>2. CASE st # "write_step"
      BY <3>2, EndedState DEF Outcomes
    <3> QED
      BY <3>1, <3>2
  <2> HIDE DEF x
  <2> QED
    BY <1>1, <1>4, <2>2, <2>5, <2>6, Stepped
<1> QED
  BY <1>5, <1>6

\* A decision is written over whatever the approval is by then.
LEMMA WriteApprovalInv == ASSUME Inv, NEW r \in Requests, WriteApproval(r) PROVE Inv'
<1> DEFINE s == session[r]
           st == IF r.op = "escalate" THEN "ended" ELSE "gated_step"
           x == IF st = "ended" THEN Session("ended") ELSE [s EXCEPT !.at = st]
<1>1. s.at = "write_approval" /\ UNCHANGED <<workflow, steps>>
  BY DEF WriteApproval, At
<1>2. s \in SessionState /\ RequestInv(r, s, workflow)
  BY StateFacts
<1>3. r.op \in Decisions /\ workflow # Null /\ s.step \in Steps
  BY <1>1, <1>2 DEF RequestInv, Stages
<1>4. session[r].at # "unmade"
  BY <1>1
<1>5. CASE UNCHANGED approvals /\ End(r, "ended")
  BY <1>1, <1>4, <1>5, EndInv DEF Unwritten, Outcomes
<1>6. CASE ~(UNCHANGED approvals /\ End(r, "ended"))
  <2>1. /\ approvals[r.approval] # Null
        /\ approvals' = [approvals EXCEPT ![r.approval].status = Decision(r)]
    BY <1>6 DEF WriteApproval
  <2>2. session' = [session EXCEPT ![r] = x]
    BY <1>6 DEF WriteApproval, Goto, End
  <2>3. Decision(r) \in ApprovalStatus
    BY <1>3 DEF Decision, Decisions, ApprovalStatus
  <2> DEFINE new == [approvals[r.approval] EXCEPT !.status = Decision(r)]
  <2>4. new \in ApprovalRow
    <3>1. approvals[r.approval] \in ApprovalRow
      BY <2>1, RequestFacts DEF Inv, TypeOK
    <3> QED
      BY <2>3, <3>1 DEF ApprovalRow
  <2>5. approvals' = [approvals EXCEPT ![r.approval] = new]
    BY <2>1
  <2> HIDE DEF new
  <2>6. approvals' \in [Approvals -> ApprovalRow \cup {Null}]
    BY <2>4, <2>5 DEF Inv, TypeOK
  <2>7. TablesOK'
    BY <1>1, <2>6 DEF Inv, TypeOK, TablesOK, Existing
  <2>8. x \in SessionState /\ RequestInv(r, x, workflow)
    <3>1. CASE st = "gated_step"
      <4>1. x \in SessionState /\ x.at = "gated_step" /\ x.step = s.step
        BY <1>2, <3>1, GoneTo DEF AllStages, Stages
      <4>2. r.op # "escalate"
        BY <3>1
      <4> HIDE DEF x, s
      <4>3. r.op \notin {"create_workflow", "update_step"}
        BY <1>3 DEF Decisions
      <4> QED
        BY <1>3, <4>1, <4>2, <4>3 DEF RequestInv
    <3>2. CASE st # "gated_step"
      BY <3>2, EndedState DEF Outcomes
    <3> QED
      BY <3>1, <3>2
  <2> HIDE DEF x
  <2> QED
    BY <1>1, <1>4, <2>2, <2>7, <2>8, Stepped
<1> QED
  BY <1>5, <1>6
----------------------------------------------------------------------------
(* The invariant.                                                          *)

\* Nothing has been created, and of the creations one has been chosen.
LEMMA InitInv == Init => Inv
<1> SUFFICES ASSUME Init PROVE Inv
  OBVIOUS
<1>1. PICK chosen \in Scenarios :
        session = [r \in Requests |-> Session(IF r \in chosen THEN "idle" ELSE "unmade")]
  BY DEF Init
<1>2. ASSUME NEW r \in Requests
      PROVE  /\ session[r] \in SessionState
             /\ session[r].at = IF r \in chosen THEN "idle" ELSE "unmade"
  <2> DEFINE at == IF r \in chosen THEN "idle" ELSE "unmade"
  <2>1. session[r] = Session(at) /\ at \in {"unmade", "idle"}
    BY <1>1
  <2>2. Session(at) \in SessionState /\ Session(at).at = at
    BY <2>1 DEF Session, SessionState
  <2> QED
    BY <2>1, <2>2
<1>3. /\ workflow = Null
      /\ steps = [k \in Steps |-> Null]
      /\ approvals = [a \in Approvals |-> Null]
  BY DEF Init
<1>4. TypeOK
  BY <1>1, <1>2, <1>3 DEF TypeOK, Existing
<1>5. ASSUME NEW r \in Requests PROVE RequestInv(r, session[r], workflow)
  <2>1. session[r].at \in {"idle", "unmade"}
    BY <1>2
  <2> QED
    BY <1>3, <2>1 DEF RequestInv, Stages
<1>6. OneCreation
  <2> SUFFICES ASSUME NEW r \in Requests, NEW q \in Requests, r # q,
                      r.op = "create_workflow", q.op = "create_workflow"
               PROVE  session[r].at = "unmade" \/ session[q].at = "unmade"
    BY DEF OneCreation
  <2>1. ~(r \in chosen /\ q \in chosen)
    BY CreationAssumption
  <2> QED
    BY <1>2, <2>1
<1> QED
  BY <1>4, <1>5, <1>6 DEF Inv

\* Every step keeps the invariant.
LEMMA StepInv == Inv /\ [Next]_vars => Inv'
<1> SUFFICES ASSUME Inv, [Next]_vars PROVE Inv'
  OBVIOUS
<1>1. ASSUME NEW r \in Requests, Read(r) PROVE Inv'
  BY <1>1, LoadWorkflowInv, LoadStepsInv, ReloadInv, LoadStepInv, FindStepInv,
     CheckApprovalsInv, NextPendingInv, LoadApprovalInv, LoadGatedStepInv DEF Read
<1>2. ASSUME NEW r \in Requests, Write(r) PROVE Inv'
  BY <1>2, CreateInv, InsertStepsInv, DeleteStepInv, ActivateInv, PointInv,
     WriteWorkflowInv, WriteStepInv, BeginStepInv, CreateApprovalInv,
     WriteApprovalInv DEF Write
<1>3. ASSUME NEW r \in Requests, Begin(r) \/ Abandon(r) PROVE Inv'
  BY <1>3, BeginInv, AbandonInv
<1>4. CASE UNCHANGED vars
  <2>1. UNCHANGED <<workflow, steps, approvals, session>>
    BY <1>4 DEF vars
  <2>2. TypeOK'
    BY <2>1 DEF Inv, TypeOK, Existing
  <2>3. OneCreation'
    BY <2>1 DEF Inv, OneCreation
  <2>4. \A r \in Requests : RequestInv(r, session'[r], workflow')
    BY <2>1 DEF Inv
  <2> QED
    BY <2>2, <2>3, <2>4 DEF Inv
<1> QED
  BY <1>1, <1>2, <1>3, <1>4 DEF Next

\* The invariant.
LEMMA Invariant == Spec => []Inv
BY InitInv, StepInv, PTL DEF Spec

\* Rows satisfy their CHECKs, and a request holds rows that did so when it
\* loaded them, for any steps, approvals and requests.
THEOREM WorkflowTypeCorrect == Spec => []TypeOK
<1>1. Inv => TypeOK
  BY DEF Inv
<1> QED
  BY <1>1, Invariant, PTL
----------------------------------------------------------------------------
(* What is stamped stays so.                                               *)

\* A write of the workflow clears a timestamp only if it assigns it another
\* value than the one that was loaded.
LEMMA CommitKeepsStamps ==
  ASSUME Inv, NEW r \in Requests, NEW wanted \in WorkflowRow, NEW next,
         CommitWorkflow(r, wanted, next),
         workflow # Null, session[r].workflow \in WorkflowRow
  PROVE  /\ (session[r].workflow.completed => wanted.completed) /\ workflow.completed
              => workflow'.completed
         /\ (session[r].workflow.cancelled => wanted.cancelled) /\ workflow.cancelled
              => workflow'.cancelled
         /\ workflow' # Null
<1> DEFINE old == session[r].workflow
           new == Updated(workflow, old, wanted)
<1>1. workflow' = new \/ workflow' = workflow
  BY DEF CommitWorkflow
<1>2. workflow \in WorkflowRow
  BY CommittedWorkflow
<1>3. /\ new.completed = IF wanted.completed # old.completed
                         THEN wanted.completed ELSE workflow.completed
      /\ new.cancelled = IF wanted.cancelled # old.cancelled
                         THEN wanted.cancelled ELSE workflow.cancelled
  BY <1>2, UpdatedWorkflow
<1>4. workflow' # Null
  BY <1>1, <1>2, UpdatedWorkflow, NullAssumption
<1>5. /\ old.completed \in BOOLEAN /\ wanted.completed \in BOOLEAN
      /\ old.cancelled \in BOOLEAN /\ wanted.cancelled \in BOOLEAN
  BY DEF WorkflowRow
<1> HIDE DEF old, new
<1>6. /\ (old.completed => wanted.completed) /\ workflow.completed => new.completed
      /\ (old.cancelled => wanted.cancelled) /\ workflow.cancelled => new.cancelled
  BY <1>3, <1>5
<1> QED
  BY <1>1, <1>4, <1>6 DEF old

\* The same of a step.
LEMMA CommitKeepsStep ==
  ASSUME Inv, NEW r \in Requests, NEW wanted \in StepRow, NEW next,
         CommitStep(r, wanted, next), HasStep(session[r]),
         session[r].row.completed => wanted.completed,
         NEW k \in Existing, steps[k].completed
  PROVE  steps'[k] # Null /\ steps'[k].completed
<1> DEFINE j == session[r].step
           old == session[r].row
           new == Updated(steps[j], old, wanted)
<1>1. k \in Steps /\ steps[k] # Null /\ steps[k] \in StepRow
  BY CommittedStep DEF Existing
<1>2. CASE UNCHANGED steps
  BY <1>1, <1>2
<1>3. CASE steps' = [steps EXCEPT ![j] = new] /\ steps[j] # Null
  <2>1. j \in Steps /\ old \in StepRow /\ steps[j] \in StepRow
    BY <1>3, CommittedStep DEF HasStep
  <2>2. /\ new \in StepRow
        /\ new.completed = IF wanted.completed # old.completed
                           THEN wanted.completed ELSE steps[j].completed
    BY <2>1, UpdatedStep
  <2>3. old.completed \in BOOLEAN /\ wanted.completed \in BOOLEAN
    BY <2>1 DEF StepRow
  <2>4. new # Null
    BY <2>2, NullAssumption
  <2> HIDE DEF new
  <2>5. steps'[k] = IF k = j THEN new ELSE steps[k]
    BY <1>1, <1>3, <2>1 DEF Inv, TypeOK
  <2> QED
    BY <1>1, <2>2, <2>3, <2>4, <2>5
<1> QED
  BY <1>2, <1>3 DEF CommitStep

\* Reads write nothing.
LEMMA ReadsUnwritten ==
  ASSUME NEW r \in Requests, Read(r) \/ Begin(r) \/ Abandon(r)
  PROVE  UNCHANGED workflow /\ UNCHANGED steps
BY DEF Read, Begin, Abandon, LoadWorkflow, LoadSteps, Reload, LoadStep, FindStepByOrder,
       CheckApprovals, NextPendingStep, LoadApproval, LoadGatedStep, Unwritten

\* A workflow loses its timestamps to the last write of start_workflow only.
LEMMA WorkflowKeepsStamps ==
  ASSUME Inv, [Next]_vars, workflow # Null
  PROVE  /\ workflow' # Null
         /\ workflow.cancelled => workflow'.cancelled
         /\ \/ workflow.completed => workflow'.completed
            \/ \E r \in Requests : r.op = "start_workflow" /\ WriteWorkflow(r)
<1>1. CASE UNCHANGED workflow
  BY <1>1
<1>2. ASSUME NEW r \in Requests, Write(r), workflow' # workflow
      PROVE  /\ workflow' # Null
             /\ workflow.cancelled => workflow'.cancelled
             /\ \/ workflow.completed => workflow'.completed
                \/ r.op = "start_workflow" /\ WriteWorkflow(r)
  <2>1. ~CreateWorkflow(r)
    BY StateFacts DEF CreateWorkflow, At, RequestInv
  <2>2. Activate(r) \/ Point(r) \/ WriteWorkflow(r)
    BY <1>2, <2>1 DEF Write, InsertSteps, DeleteStep, WriteStep, CommitStep, BeginStep,
                      CreateApproval, WriteApproval
  <2>4. CASE Activate(r)
    BY <2>4, ActivateFacts, CommitKeepsStamps
  <2>5. CASE Point(r)
    BY <2>5, PointFacts, CommitKeepsStamps
  <2>6. CASE WriteWorkflow(r)
    <3>1. CASE r.op = "start_workflow"
      BY <2>6, <3>1, WriteWorkflowFacts, CommitKeepsStamps
    <3>2. CASE r.op # "start_workflow"
      BY <2>6, <3>2, WriteWorkflowFacts, CommitKeepsStamps
    <3> QED
      BY <3>1, <3>2
  <2> QED
    BY <2>2, <2>4, <2>5, <2>6
<1> QED
  BY <1>1, <1>2, ReadsUnwritten DEF Next, vars

\* A step keeps its timestamp while it exists.
LEMMA StepKeepsStamp ==
  ASSUME Inv, [Next]_vars, NEW k \in Existing, steps[k].completed, steps'[k] # Null
  PROVE  steps'[k].completed
<1>1. CASE UNCHANGED steps
  BY <1>1
<1>2. ASSUME NEW r \in Requests, Write(r), steps' # steps
      PROVE  steps'[k].completed
  <2>1. WriteStep(r) \/ BeginStep(r) \/ InsertSteps(r) \/ DeleteStep(r)
    BY <1>2 DEF Write, CreateWorkflow, Activate, Point, WriteWorkflow, CommitWorkflow,
                CreateApproval, WriteApproval
  <2>2. CASE WriteStep(r)
    BY <2>2, WriteStepFacts, CommitKeepsStep
  <2>3. CASE BeginStep(r)
    BY <2>3, BeginStepFacts, CommitKeepsStep
  <2>4. CASE InsertSteps(r)
    <3>1. k \in Steps
      BY DEF Existing
    <3>2. steps'[k] = steps[k]
      BY <1>2, <2>4, <3>1 DEF InsertSteps
    <3> QED
      BY <3>2
  <2>5. CASE DeleteStep(r)
    <3>1. steps'[k] = steps[k]
      BY <2>5 DEF DeleteStep, Inv, TypeOK, Existing
    <3> QED
      BY <3>1
  <2> QED
    BY <2>1, <2>2, <2>3, <2>4, <2>5
<1> QED
  BY <1>1, <1>2, ReadsUnwritten DEF Next, vars

\* However stale the rows that requests validate against, a cancelled or
\* completed workflow and a completed step stay so: only the last write of
\* start_workflow reopens a workflow.
THEOREM StampsAreFinal == Spec => StampedFinal
<1>1. Inv /\ [Next]_vars =>
        /\ workflow # Null /\ workflow.cancelled => workflow'.status = "CANCELLED"
        /\ workflow # Null /\ workflow.completed =>
             \/ workflow'.status = "COMPLETED"
             \/ \E r \in Requests : r.op = "start_workflow" /\ WriteWorkflow(r)
        /\ \A k \in Existing : steps[k].completed /\ steps'[k] # Null =>
             steps'[k].status = "COMPLETED"
  <2> SUFFICES ASSUME Inv, [Next]_vars
               PROVE  /\ workflow # Null /\ workflow.cancelled => workflow'.status = "CANCELLED"
                      /\ workflow # Null /\ workflow.completed =>
                           \/ workflow'.status = "COMPLETED"
                           \/ \E r \in Requests : r.op = "start_workflow" /\ WriteWorkflow(r)
                      /\ \A k \in Existing : steps[k].completed /\ steps'[k] # Null =>
                           steps'[k].status = "COMPLETED"
    OBVIOUS
  <2>1. TypeOK'
    BY StepInv DEF Inv
  <2>2. workflow' # Null => WorkflowChecks(workflow')
    BY <2>1 DEF TypeOK
  <2>3. \A k \in Steps : steps'[k] # Null =>
          (steps'[k].completed => steps'[k].status = "COMPLETED")
    <3>1. (\A k \in Existing : StepChecks(steps[k]))'
      BY <2>1 DEF TypeOK
    <3> QED
      BY <3>1 DEF Existing, StepChecks
  <2>4. workflow # Null /\ workflow.cancelled => workflow'.status = "CANCELLED"
    BY <2>2, WorkflowKeepsStamps DEF WorkflowChecks
  <2>5. workflow # Null /\ workflow.completed =>
          \/ workflow'.status = "COMPLETED"
          \/ \E r \in Requests : r.op = "start_workflow" /\ WriteWorkflow(r)
    BY <2>2, WorkflowKeepsStamps DEF WorkflowChecks
  <2>6. ASSUME NEW k \in Existing, steps[k].completed, steps'[k] # Null
        PROVE  steps'[k].status = "COMPLETED"
    <3>1. steps'[k].completed /\ k \in Steps
      BY <2>6, StepKeepsStamp DEF Existing
    <3> QED
      BY <2>6, <2>3, <3>1
  <2> QED
    BY <2>4, <2>5, <2>6
<1> QED
  BY <1>1, Invariant, PTL DEF Spec, StampedFinal
----------------------------------------------------------------------------
(* What requests are about to do.                                          *)

\* Approval a was requested for step k.
Requested(a, k) ==
  \E q \in Requests : q.op = "request_approval" /\ q.approval = a /\ q.step = k

\* Where request r in state x comes from, as far as its next write depends on it.
Knows(r, x) ==
  /\ x.at = "remove" => r.op = "remove_step"
  /\ x.at = "write_step" => r.op \notin {"add_step", "remove_step", "escalate"}
  /\ x.at = "point" => r.op \in {"complete_step", "skip_step"}
  /\ x.at = "write_workflow" /\ r.op = "complete_step" => MayBecome(r, x.workflow)
  /\ x.at \in {"insert_approval", "write_step"}
       /\ r.op \in {"request_approval", "update_step"} => x.step = r.step
  /\ r.op \in Decisions =>
       /\ x.at \in {"write_approval", "gated_step", "check", "write_step"} =>
            Requested(r.approval, x.step)
       /\ x.at = "check" => x.row.status = "BLOCKED"
       /\ x.at = "write_step" => StepMayBecome(r, x.row)

\* The stages it says something of.
Informed == {"remove", "point", "write_workflow", "insert_approval", "write_step",
             "write_approval", "gated_step", "check"}

KnowsInv ==
  /\ \A a \in Approvals : approvals[a] # Null => Requested(a, approvals[a].step)
  /\ \A r \in Requests : Knows(r, session[r])

\* An approval is requested for one step.
LEMMA RequestedOnce ==
  ASSUME NEW a, NEW k, NEW j, Requested(a, k), Requested(a, j)
  PROVE  k = j
BY ApprovalAssumption DEF Requested

\* A request at another stage need not know anything.
LEMMA Uninformed ==
  ASSUME NEW r, NEW x, x.at \notin Informed
  PROVE  Knows(r, x)
BY DEF Knows, Informed

\* Nor need one that has ended.
LEMMA EndKnows ==
  ASSUME Inv, NEW r \in Requests, NEW outcome \in Outcomes, End(r, outcome)
  PROVE  /\ session'[r].at = outcome
         /\ Knows(r, session'[r])
<1>1. session'[r] = Session(outcome)
  BY DEF End, Inv, TypeOK
<1>2. session'[r].at = outcome
  BY <1>1 DEF Session
<1> QED
  BY <1>2, Uninformed DEF Informed, Outcomes

\* A request that goes to another stage keeps what it has loaded.
LEMMA Went ==
  ASSUME Inv, NEW r \in Requests, NEW stage \in AllStages, Goto(r, stage)
  PROVE  /\ session'[r].at = stage
         /\ session'[r].workflow = session[r].workflow
         /\ session'[r].step = session[r].step
         /\ session'[r].row = session[r].row
<1>1. session[r] \in SessionState
  BY StateFacts
<1>2. session'[r] = [session[r] EXCEPT !.at = stage]
  BY DEF Goto, Inv, TypeOK
<1> QED
  BY <1>1, <1>2, GoneTo

\* A step of one request leaves the others as they are.
LEMMA OthersKept ==
  ASSUME Inv, NEW r \in Requests, Begin(r) \/ Read(r) \/ Write(r) \/ Abandon(r),
         NEW q \in Requests, q # r
  PROVE  session'[q] = session[q]
<1>1. session \in [Requests -> SessionState]
  BY DEF Inv, TypeOK
<1>2. \A stage : Goto(r, stage) => session'[q] = session[q]
  BY <1>1 DEF Goto
<1>3. \A outcome : End(r, outcome) => session'[q] = session[q]
  BY <1>1 DEF End
<1>4. CASE Begin(r) \/ Abandon(r)
  BY <1>2, <1>3, <1>4 DEF Begin, Abandon
<1>5. CASE LoadWorkflow(r) \/ Reload(r) \/ LoadStep(r)
  BY <1>1, <1>2, <1>3, <1>5 DEF LoadWorkflow, Reload, LoadStep
<1>6. CASE FindStepByOrder(r) \/ CheckApprovals(r)
  BY <1>2, <1>3, <1>6 DEF FindStepByOrder, CheckApprovals
<1>7. CASE LoadSteps(r) \/ LoadApproval(r)
  BY <1>1, <1>3, <1>7 DEF LoadSteps, LoadApproval
<1>8. CASE LoadGatedStep(r) \/ NextPendingStep(r)
  BY <1>1, <1>2, <1>3, <1>8 DEF LoadGatedStep, NextPendingStep
<1>9. \A wanted, next : CommitWorkflow(r, wanted, next) => session'[q] = session[q]
  BY <1>2, <1>3 DEF CommitWorkflow
<1>10. \A wanted, next : CommitStep(r, wanted, next) => session'[q] = session[q]
  BY <1>2, <1>3 DEF CommitStep
<1>11. CASE Activate(r) \/ Point(r) \/ WriteWorkflow(r)
  BY <1>9, <1>11 DEF Activate, Point, WriteWorkflow
<1>12. CASE WriteStep(r) \/ BeginStep(r)
  BY <1>10, <1>12 DEF WriteStep, BeginStep
<1>13. CASE CreateWorkflow(r) \/ InsertSteps(r) \/ DeleteStep(r)
  BY <1>2, <1>3, <1>13 DEF CreateWorkflow, InsertSteps, DeleteStep
<1>14. CASE CreateApproval(r) \/ WriteApproval(r)
  BY <1>2, <1>3, <1>14 DEF CreateApproval, WriteApproval
<1> QED
  BY <1>4, <1>5, <1>6, <1>7, <1>8, <1>11, <1>12, <1>13, <1>14 DEF Read, Write

\* A request knows what it should after each of its reads.
LEMMA ReadKnows ==
  ASSUME Inv, KnowsInv, NEW r \in Requests, Begin(r) \/ Read(r) \/ Abandon(r)
  PROVE  Knows(r, session'[r])
<1> DEFINE x == session[r]
           y == session'[r]
<1>1. x \in SessionState /\ RequestInv(r, x, workflow) /\ Knows(r, x)
      /\ session \in [Requests -> SessionState]
  BY StateFacts DEF KnowsInv, Inv, TypeOK
<1>2. r.op \in Ops
  BY RequestFacts
<1>3. \A outcome \in Outcomes : End(r, outcome) => Knows(r, y)
  BY EndKnows
<1>4. \A stage \in AllStages : Goto(r, stage) /\ stage \notin Informed => Knows(r, y)
  BY Went, Uninformed
<1>5. "ended" \in Outcomes /\ "lost" \in Outcomes /\ "stalled" \in Outcomes
  BY DEF Outcomes
<1>6. CASE Begin(r)
  <2>1. FirstStage(r) \in {"insert", "step", "approval", "load"}
    BY DEF FirstStage
  <2>2. FirstStage(r) \in AllStages /\ FirstStage(r) \notin Informed
    BY <2>1 DEF AllStages, Stages, Informed
  <2> QED
    BY <1>4, <1>6, <2>2 DEF Begin
<1>7. CASE Abandon(r)
  BY <1>3, <1>5, <1>7 DEF Abandon
<1>8. CASE LoadWorkflow(r)
  <2>1. CASE End(r, "ended")
    BY <1>3, <1>5, <2>1
  <2>2. CASE session' = [session EXCEPT ![r].workflow = workflow, ![r].at = AfterLoad(r)]
    <3>1. y.at = AfterLoad(r)
      BY <1>1, <2>2 DEF SessionState
    <3>2. /\ y.at \in {"steps", "step", "write_workflow"}
          /\ r.op \in StepOps => y.at # "write_workflow"
      BY <3>1 DEF AfterLoad, StepOps
    <3>3. "complete_step" \in StepOps
      BY DEF StepOps
    <3> QED
      BY <3>2, <3>3 DEF Knows
  <2> QED
    BY <1>8, <2>1, <2>2 DEF LoadWorkflow
<1>9. CASE LoadSteps(r) \/ Reload(r)
  <2>1. CASE End(r, "ended")
    BY <1>3, <1>5, <2>1
  <2>2. CASE ~End(r, "ended")
    <3>1. y.at \in {"activate", "begin", "steps"}
      BY <1>1, <1>9, <2>2 DEF LoadSteps, Reload, SessionState
    <3> QED
      BY <3>1, Uninformed DEF Informed
  <2> QED
    BY <2>1, <2>2
<1>10. CASE LoadStep(r)
  <2>1. CASE End(r, "ended")
    BY <1>3, <1>5, <2>1
  <2>2. CASE session' = [session EXCEPT ![r].step = r.step, ![r].row = steps[r.step],
                                        ![r].at = AfterStep(r)]
    <3>1. y.at = AfterStep(r) /\ y.step = r.step
      BY <1>1, <2>2 DEF SessionState
    <3>2. /\ y.at \in {"check", "insert_approval", "remove", "write_step"}
          /\ y.at = "remove" <=> r.op = "remove_step"
      BY <3>1 DEF AfterStep
    <3>3. r.op \in StepOps /\ r.op # "add_step"
      BY <1>1, <1>10 DEF LoadStep, At, RequestInv
    <3>4. r.op \notin Decisions
      BY <3>3 DEF StepOps, Decisions
    <3>5. "escalate" \in Decisions
      BY DEF Decisions
    <3> QED
      BY <3>1, <3>2, <3>3, <3>4, <3>5 DEF Knows
  <2> QED
    BY <1>10, <2>1, <2>2 DEF LoadStep
<1>11. CASE FindStepByOrder(r)
  <2>1. "insert_step" \in AllStages /\ "insert_step" \notin Informed
    BY DEF AllStages, Stages, Informed
  <2> QED
    BY <1>3, <1>4, <1>5, <1>11, <2>1 DEF FindStepByOrder
<1>12. CASE CheckApprovals(r)
  <2>1. CASE End(r, "ended")
    BY <1>3, <1>5, <2>1
  <2>2. CASE StepMayBecome(r, x.row) /\ Goto(r, "write_step")
    <3>1. "write_step" \in AllStages
      BY DEF AllStages, Stages
    <3>2. y.at = "write_step" /\ y.step = x.step /\ y.row = x.row
      BY <2>2, <3>1, Went
    <3>3. x.at = "check" /\ r.op \in {"complete_step", "approve", "cancel_approval"}
      BY <1>1, <1>12 DEF CheckApprovals, At, RequestInv
    <3>4. r.op \in Decisions => Requested(r.approval, x.step)
      BY <1>1, <3>3 DEF Knows
    <3> HIDE DEF x, y
    <3>5. Knows(r, y)
      BY <2>2, <3>2, <3>3, <3>4 DEF Knows
    <3> QED
      BY <3>5 DEF y
  <2> QED
    BY <1>12, <2>1, <2>2 DEF CheckApprovals
<1>13. CASE NextPendingStep(r)
  <2>1. CASE End(r, "stalled")
    BY <1>3, <1>5, <2>1
  <2>2. CASE Goto(r, "write_workflow") /\ MayBecome(r, x.workflow)
    <3>1. "write_workflow" \in AllStages
      BY DEF AllStages, Stages
    <3>2. y.at = "write_workflow" /\ y.workflow = x.workflow
      BY <2>2, <3>1, Went
    <3> QED
      BY <2>2, <3>2 DEF Knows
  <2>3. CASE \E k, row : session' = [session EXCEPT ![r].step = k, ![r].row = row,
                                                    ![r].at = "begin"]
    <3>1. y.at = "begin"
      BY <1>1, <2>3 DEF SessionState
    <3> QED
      BY <3>1, Uninformed DEF Informed
  <2> QED
    BY <1>13, <2>1, <2>2, <2>3 DEF NextPendingStep
<1>14. CASE LoadApproval(r)
  <2>1. CASE End(r, "ended")
    BY <1>3, <1>5, <2>1
  <2>2. CASE /\ approvals[r.approval] # Null
             /\ session' = [session EXCEPT ![r].step = approvals[r.approval].step,
                                           ![r].status = approvals[r.approval].status,
                                           ![r].at = "write_approval"]
    <3>1. y.at = "write_approval" /\ y.step = approvals[r.approval].step
      BY <1>1, <2>2 DEF SessionState
    <3>2. Requested(r.approval, y.step)
      BY <2>2, <3>1, RequestFacts DEF KnowsInv
    <3> QED
      BY <3>1, <3>2 DEF Knows
  <2> QED
    BY <1>14, <2>1, <2>2 DEF LoadApproval
<1>15. CASE LoadGatedStep(r)
  <2> DEFINE s == steps[x.step]
             next == IF r.op = "reject" THEN "write_step" ELSE "check"
  <2>1. CASE End(r, "ended")
    BY <1>3, <1>5, <2>1
  <2>2. CASE /\ IF r.op = "reject" THEN StepMayBecome(r, s) ELSE s.status = "BLOCKED"
             /\ session' = [session EXCEPT ![r].row = s, ![r].at = next]
    <3>1. y.at = next /\ y.row = s /\ y.step = x.step
      BY <1>1, <2>2 DEF SessionState
    <3>2. x.at = "gated_step" /\ r.op \in Decisions
      BY <1>1, <1>15 DEF LoadGatedStep, At, RequestInv
    <3>3. Requested(r.approval, x.step)
      BY <1>1, <3>2 DEF Knows
    <3>4. r.op \notin {"request_approval", "update_step"}
      BY <3>2 DEF Decisions
    <3> HIDE DEF x, y, s
    <3>5. Knows(r, y)
      BY <2>2, <3>1, <3>3, <3>4 DEF Knows
    <3> QED
      BY <3>5 DEF y
  <2> QED
    BY <1>15, <2>1, <2>2 DEF LoadGatedStep
<1> QED
  BY <1>6, <1>7, <1>8, <1>9, <1>10, <1>11, <1>12, <1>13, <1>14, <1>15 DEF Read

\* And after each of its writes.
LEMMA WriteKnows ==
  ASSUME Inv, KnowsInv, NEW r \in Requests, Write(r)
  PROVE  Knows(r, session'[r])
<1> DEFINE x == session[r]
           y == session'[r]
<1>1. x \in SessionState /\ RequestInv(r, x, workflow) /\ Knows(r, x)
  BY StateFacts DEF KnowsInv
<1>2. \A outcome \in Outcomes : End(r, outcome) => Knows(r, y)
  BY EndKnows
<1>3. \A stage \in AllStages : Goto(r, stage) /\ stage \notin Informed => Knows(r, y)
  BY Went, Uninformed
<1>4. "ended" \in Outcomes
  BY DEF Outcomes
<1>5. CASE CreateWorkflow(r) \/ InsertSteps(r) \/ DeleteStep(r)
  <2>1. "insert_steps" \in AllStages /\ "insert_steps" \notin Informed
    BY DEF AllStages, Stages, Informed
  <2> QED
    BY <1>2, <1>3, <1>4, <1>5, <2>1 DEF CreateWorkflow, InsertSteps, DeleteStep
<1>6. CASE Activate(r) \/ Point(r) \/ WriteWorkflow(r)
  <2>1. "reload" \in AllStages /\ "reload" \notin Informed /\ "reload" \in Stages
        /\ "ended" \notin Stages
    BY DEF AllStages, Stages, Informed
  <2> QED
    BY <1>2, <1>3, <1>4, <1>6, <2>1 DEF Activate, Point, WriteWorkflow, CommitWorkflow
<1>7. CASE WriteStep(r)
  <2> DEFINE next == AfterWrite(r)
  <2>1. /\ next \in {"next", "write_workflow", "load", "overtaken", "ended"}
        /\ r.op = "complete_step" => next = "next"
    BY DEF AfterWrite
  <2>2. /\ next \in Stages => Goto(r, next) \/ End(r, "ended")
        /\ next \notin Stages => End(r, next) \/ End(r, "ended")
    BY <1>7 DEF WriteStep, CommitStep
  <2> HIDE DEF next
  <2>3. CASE next = "write_workflow"
    <3>1. next \in Stages /\ next \in AllStages
      BY <2>3 DEF AllStages, Stages
    <3>2. CASE Goto(r, next)
      <4>1. y.at = "write_workflow" /\ r.op # "complete_step"
        BY <2>1, <2>3, <3>1, <3>2, Went
      <4> QED
        BY <4>1 DEF Knows
    <3> QED
      BY <1>2, <1>4, <2>2, <3>1, <3>2
  <2>4. CASE next \in {"next", "load"}
    <3>1. next \in Stages /\ next \in AllStages /\ next \notin Informed
      BY <2>4 DEF AllStages, Stages, Informed
    <3> QED
      BY <1>2, <1>3, <1>4, <2>2, <3>1
  <2>5. CASE next \in {"overtaken", "ended"}
    <3>1. next \notin Stages /\ next \in Outcomes
      BY <2>5 DEF Stages, Outcomes
    <3> QED
      BY <1>2, <1>4, <2>2, <3>1
  <2> QED
    BY <2>1, <2>3, <2>4, <2>5
<1>8. CASE BeginStep(r)
  <2> DEFINE next == AfterBegin(r)
  <2>1. /\ next \in {"write_workflow", "point"}
        /\ next = "write_workflow" <=> r.op = "start_workflow"
    BY DEF AfterBegin
  <2>2. next \in Stages /\ next \in AllStages
    BY <2>1 DEF AllStages, Stages
  <2>3. Goto(r, next) \/ End(r, "ended")
    BY <1>8, <2>2, BeginStepFacts DEF CommitStep
  <2>4. x.at = "begin" /\ r.op \in {"start_workflow", "complete_step", "skip_step"}
    BY <1>1, <1>8 DEF BeginStep, At, RequestInv
  <2> HIDE DEF next
  <2>5. CASE Goto(r, next)
    <3>1. y.at = next
      BY <2>2, <2>5, Went
    <3>2. r.op \notin Decisions \cup {"request_approval", "update_step"}
      BY <2>4 DEF Decisions
    <3> QED
      BY <2>1, <2>4, <3>1, <3>2 DEF Knows
  <2> QED
    BY <1>2, <1>4, <2>3, <2>5
<1>9. CASE CreateApproval(r)
  <2>1. CASE Goto(r, "write_step")
    <3>1. "write_step" \in AllStages
      BY DEF AllStages, Stages
    <3>2. y.at = "write_step" /\ y.step = x.step
      BY <2>1, <3>1, Went
    <3>3. x.at = "insert_approval" /\ r.op = "request_approval"
      BY <1>1, <1>9 DEF CreateApproval, At, RequestInv
    <3>4. x.step = r.step
      BY <1>1, <3>3 DEF Knows
    <3>5. r.op \notin Decisions
      BY <3>3 DEF Decisions
    <3> QED
      BY <3>2, <3>3, <3>4, <3>5 DEF Knows
  <2> QED
    BY <1>2, <1>4, <1>9, <2>1 DEF CreateApproval
<1>10. CASE WriteApproval(r)
  <2>1. CASE Goto(r, "gated_step")
    <3>1. "gated_step" \in AllStages
      BY DEF AllStages, Stages
    <3>2. y.at = "gated_step" /\ y.step = x.step
      BY <2>1, <3>1, Went
    <3>3. x.at = "write_approval" /\ r.op \in Decisions
      BY <1>1, <1>10 DEF WriteApproval, At, RequestInv
    <3>4. Requested(r.approval, x.step)
      BY <1>1, <3>3 DEF Knows
    <3> QED
      BY <3>2, <3>4 DEF Knows
  <2> QED
    BY <1>2, <1>4, <1>10, <2>1 DEF WriteApproval
<1> QED
  BY <1>5, <1>6, <1>7, <1>8, <1>9, <1>10 DEF Write

\* Statements that leave the approvals as they are.
LEMMA ApprovalsKept ==
  ASSUME NEW r \in Requests,
         \/ Begin(r) \/ Read(r) \/ Abandon(r)
         \/ CreateWorkflow(r) \/ InsertSteps(r) \/ Activate(r) \/ Point(r)
         \/ WriteWorkflow(r) \/ WriteStep(r) \/ BeginStep(r)
  PROVE  approvals' = approvals
<1>1. CASE Begin(r) \/ Read(r) \/ Abandon(r)
  BY <1>1 DEF Read, Begin, Abandon, LoadWorkflow, LoadSteps, Reload, LoadStep,
              FindStepByOrder, CheckApprovals, NextPendingStep, LoadApproval,
              LoadGatedStep, Unwritten
<1>2. CASE \/ CreateWorkflow(r) \/ InsertSteps(r) \/ Activate(r) \/ Point(r)
           \/ WriteWorkflow(r) \/ WriteStep(r) \/ BeginStep(r)
  BY <1>2 DEF CreateWorkflow, InsertSteps, Activate, Point, WriteWorkflow, WriteStep,
              BeginStep, CommitWorkflow, CommitStep
<1> QED
  BY <1>1, <1>2

\* An approval is for the step it was requested for.
LEMMA ApprovalAfter ==
  ASSUME Inv, NEW r \in Requests, Begin(r) \/ Read(r) \/ Write(r) \/ Abandon(r),
         NEW a \in Approvals, approvals'[a] # Null
  PROVE  \/ approvals[a] # Null /\ approvals'[a].step = approvals[a].step
         \/ /\ r.op = "request_approval" /\ r.approval = a /\ approvals[a] = Null
            /\ approvals'[a] = [step |-> r.step, status |-> "PENDING"]
<1>1. approvals \in [Approvals -> ApprovalRow \cup {Null}]
  BY DEF Inv, TypeOK
<1>2. CASE DeleteStep(r)
  BY <1>2 DEF DeleteStep
<1>3. CASE CreateApproval(r)
  <2>1. r.op = "request_approval" /\ r.approval \in Approvals
    BY <1>3, StateFacts, RequestFacts DEF CreateApproval, At, RequestInv
  <2> QED
    BY <1>1, <1>3, <2>1 DEF CreateApproval
<1>4. CASE WriteApproval(r)
  <2>1. CASE approvals' = approvals
    BY <2>1
  <2>2. CASE approvals' = [approvals EXCEPT ![r.approval].status = Decision(r)]
             /\ approvals[r.approval] # Null
    <3>1. r.approval \in Approvals
      BY RequestFacts
    <3>2. approvals'[a] = IF a = r.approval
                          THEN [approvals[a] EXCEPT !.status = Decision(r)] ELSE approvals[a]
      BY <1>1, <2>2
    <3>3. approvals[a] # Null => approvals[a] \in ApprovalRow
      BY <1>1
    <3> QED
      BY <2>2, <3>2, <3>3 DEF ApprovalRow
  <2> QED
    BY <1>4, <2>1, <2>2 DEF WriteApproval
<1> QED
  BY <1>2, <1>3, <1>4, ApprovalsKept DEF Write

\* Requests begin knowing nothing.
LEMMA InitKnows == Init => KnowsInv
<1> SUFFICES ASSUME Init PROVE KnowsInv
  OBVIOUS
<1>1. \A a \in Approvals : approvals[a] = Null
  BY DEF Init
<1>2. \A r \in Requests : session[r].at \in {"idle", "unmade"}
  BY DEF Init, Session
<1>3. \A r \in Requests : session[r].at \notin Informed
  BY <1>2 DEF Informed
<1> QED
  BY <1>1, <1>3, Uninformed DEF KnowsInv

\* What requests know stays true in every step.
LEMMA StepKnows ==
  ASSUME Inv, KnowsInv, NEW r \in Requests, Begin(r) \/ Read(r) \/ Write(r) \/ Abandon(r)
  PROVE  KnowsInv'
<1>1. ASSUME NEW a \in Approvals, approvals'[a] # Null
      PROVE  Requested(a, approvals'[a].step)
  <2>1. CASE approvals[a] # Null /\ approvals'[a].step = approvals[a].step
    BY <2>1 DEF KnowsInv
  <2>2. CASE /\ r.op = "request_approval" /\ r.approval = a
             /\ approvals'[a] = [step |-> r.step, status |-> "PENDING"]
    BY <2>2 DEF Requested
  <2> QED
    BY <1>1, <2>1, <2>2, ApprovalAfter
<1>2. Knows(r, session'[r])
  BY ReadKnows, WriteKnows
<1>3. ASSUME NEW q \in Requests, q # r
      PROVE  Knows(q, session'[q])
  <2>1. session'[q] = session[q]
    BY <1>3, OthersKept
  <2> QED
    BY <2>1 DEF KnowsInv
<1>4. \A q \in Requests : Knows(q, session'[q])
  BY <1>2, <1>3
<1> QED
  BY <1>1, <1>4 DEF KnowsInv

\* Requests know what KnowsInv says in every state.
LEMMA KnowsInvariant == Spec => []KnowsInv
<1>1. Inv /\ KnowsInv /\ UNCHANGED vars => KnowsInv'
  BY DEF KnowsInv, vars
<1>2. Inv /\ KnowsInv /\ [Next]_vars => KnowsInv'
  BY <1>1, StepKnows DEF Next
<1> QED
  BY <1>2, InitKnows, Invariant, PTL DEF Spec
----------------------------------------------------------------------------
(* The last step completes the workflow.                                   *)

\* The status of a step is that of the write of its row, or as it was.
LEMMA StatusAfter ==
  ASSUME Inv, NEW r \in Requests, NEW wanted \in StepRow, NEW next,
         CommitStep(r, wanted, next), HasStep(session[r]), NEW k \in Steps
  PROVE  \/ steps'[k] = steps[k]
         \/ /\ k = session[r].step /\ steps[k] # Null /\ steps'[k] # Null
            /\ steps'[k].status = IF wanted.status # session[r].row.status
                                  THEN wanted.status ELSE steps[k].status
            /\ IF next \in Stages THEN Goto(r, next) ELSE End(r, next)
<1> DEFINE j == session[r].step
           old == session[r].row
           new == Updated(steps[j], old, wanted)
<1>1. CASE UNCHANGED steps
  BY <1>1
<1>2. CASE /\ steps' = [steps EXCEPT ![j] = new] /\ steps[j] # Null
           /\ IF next \in Stages THEN Goto(r, next) ELSE End(r, next)
  <2>1. j \in Steps /\ old \in StepRow /\ steps[j] \in StepRow
    BY <1>2, CommittedStep DEF HasStep
  <2>2. /\ new \in StepRow
        /\ new.status = IF wanted.status # old.status
                        THEN wanted.status ELSE steps[j].status
    BY <2>1, UpdatedStep
  <2>3. new # Null
    BY <2>2, NullAssumption
  <2> HIDE DEF new
  <2>4. steps'[k] = IF k = j THEN new ELSE steps[k]
    BY <1>2, <2>1 DEF Inv, TypeOK
  <2> QED
    BY <1>2, <2>2, <2>3, <2>4
<1> QED
  BY <1>1, <1>2 DEF CommitStep

AllCompleted == Existing # {} /\ \A k \in Existing : steps[k].status = "COMPLETED"

\* Request r, which completed a step, has yet to complete the workflow or never will.
Completing(r) ==
  r.op = "complete_step" /\ session[r].at \in {"next", "write_workflow", "lost", "stalled"}

\* The exceptions that LastStepCompletesWorkflow names.
Patched == \E r \in Requests : r.op = "update_step" /\ r.to = "COMPLETED"
Removed == \E r \in Requests : r.op = "remove_step" /\ At(r, "ended")

\* What makes LastStepCompletesWorkflow inductive: who is on the way, not
\* only that somebody is, and that a stamped workflow is out of reach.
CompletionInv ==
  AllCompleted =>
    \/ \E r \in Requests : Completing(r)
    \/ Patched \/ Removed
    \/ workflow # Null /\ (workflow.completed \/ workflow.cancelled)

\* Nobody reopens a completed workflow.  The last write of start_workflow can.
NeverReopened ==
  [][workflow # Null /\ workflow.completed => workflow'.completed]_vars

\* Steps become all completed by a complete_step, or by an exception.
LEMMA StepsComplete ==
  ASSUME Inv, KnowsInv, NEW r \in Requests,
         Begin(r) \/ Read(r) \/ Write(r) \/ Abandon(r), AllCompleted'
  PROVE  AllCompleted \/ Completing(r)' \/ Patched \/ Removed'
<1>1. CASE UNCHANGED steps
  BY <1>1 DEF AllCompleted, Existing
<1>2. ASSUME WriteStep(r), ~Patched, ~AllCompleted
      PROVE  Completing(r)'
  <2>1. /\ session[r].at = "write_step" /\ HasStep(session[r])
        /\ CommitStep(r, StepWanted(r), AfterWrite(r)) /\ StepWanted(r) \in StepRow
        /\ r.op \in StepOps \cup Decisions
    BY <1>2, WriteStepFacts DEF RequestInv
  <2>2. StepWanted(r).status = StepTarget(r)
    BY DEF StepWanted
  <2>3. r.op # "complete_step" => StepTarget(r) # "COMPLETED"
    <3>1. CASE r.op = "update_step"
      BY <1>2, <3>1 DEF Patched, StepTarget
    <3>2. CASE r.op \notin {"complete_step", "update_step"}
      <4>1. r.op \in {"fail_step", "retry_step", "skip_step", "add_step", "remove_step",
                      "request_approval", "approve", "reject", "escalate", "cancel_approval"}
        BY <2>1, <3>2 DEF StepOps, Decisions
      <4>2. r.op \notin {"add_step", "remove_step", "escalate"}
        BY <2>1, StateFacts DEF RequestInv, Knows, KnowsInv
      <4> QED
        BY <4>1, <4>2 DEF StepTarget
    <3> QED
      BY <3>1, <3>2
  <2>4. PICK k \in Steps : steps'[k] # Null /\ steps'[k].status = "COMPLETED"
                           /\ (steps[k] = Null \/ steps[k].status # "COMPLETED")
    <3>1. \A k \in Steps : steps'[k] = steps[k] \/ (steps[k] # Null /\ steps'[k] # Null)
      BY <2>1, StatusAfter
    <3> QED
      BY <1>2, <3>1 DEF AllCompleted, Existing
  <2>5. /\ steps'[k].status = StepTarget(r)
        /\ IF AfterWrite(r) \in Stages THEN Goto(r, AfterWrite(r)) ELSE End(r, AfterWrite(r))
    BY <2>1, <2>2, <2>4, StatusAfter
  <2>6. r.op = "complete_step"
    BY <2>3, <2>4, <2>5
  <2>7. AfterWrite(r) = "next" /\ "next" \in Stages /\ "next" \in AllStages
    BY <2>6 DEF AfterWrite, Stages, AllStages
  <2>8. session'[r].at = "next"
    BY <2>5, <2>7, Went
  <2> QED
    BY <2>6, <2>8 DEF Completing
<1>3. CASE BeginStep(r)
  <2>1. /\ HasStep(session[r]) /\ CommitStep(r, BeginWanted(r), AfterBegin(r))
        /\ BeginWanted(r) \in StepRow /\ BeginWanted(r).status = "IN_PROGRESS"
    BY <1>3, BeginStepFacts DEF BeginWanted, HasStep, StepRow
  <2>2. ASSUME NEW k \in Steps
        PROVE  /\ steps'[k] = Null <=> steps[k] = Null
               /\ steps'[k] = steps[k] \/ steps'[k].status \in {"IN_PROGRESS", steps[k].status}
    BY <2>1, StatusAfter
  <2> QED
    BY <2>2 DEF AllCompleted, Existing
<1>4. CASE InsertSteps(r)
  <2>1. \A k \in Steps : steps'[k] = steps[k] \/ steps'[k] = NewStep
    BY <1>4 DEF InsertSteps
  <2>2. NewStep \in StepRow /\ NewStep.status # "COMPLETED"
    BY DEF NewStep, StepRow, StepStatus
  <2>3. NewStep # Null
    BY <2>2, NullAssumption
  <2> HIDE DEF NewStep
  <2> QED
    BY <2>1, <2>2, <2>3 DEF AllCompleted, Existing
<1>5. CASE DeleteStep(r)
  <2>1. r.op = "remove_step"
    BY <1>5 DEF DeleteStep, At, KnowsInv, Knows
  <2>2. session'[r].at = "ended"
    BY <1>5, EndKnows DEF DeleteStep, Outcomes
  <2> QED
    BY <2>1, <2>2 DEF Removed, At
<1>6. WriteStep(r) \/ BeginStep(r) \/ InsertSteps(r) \/ DeleteStep(r) \/ UNCHANGED steps
  BY ReadsUnwritten DEF Write, CreateWorkflow, Activate, Point, WriteWorkflow,
                        CommitWorkflow, CreateApproval, WriteApproval
<1> QED
  BY <1>1, <1>2, <1>3, <1>4, <1>5, <1>6

\* The request on the way to the workflow arrives, or never will.
LEMMA CompletingArrives ==
  ASSUME Inv, KnowsInv, NEW r \in Requests,
         Begin(r) \/ Read(r) \/ Write(r) \/ Abandon(r),
         Completing(r), AllCompleted'
  PROVE  \/ Completing(r)'
         \/ workflow' # Null /\ (workflow'.completed \/ workflow'.cancelled)
<1> DEFINE x == session[r]
           w == session[r].workflow
<1>1. /\ r.op = "complete_step" /\ x.at \in {"next", "write_workflow", "lost", "stalled"}
      /\ RequestInv(r, x, workflow) /\ Knows(r, x)
  BY StateFacts DEF Completing, KnowsInv
<1>2. x.at \in {"next", "write_workflow"}
  <2>1. CASE Begin(r) \/ Abandon(r)
    BY <1>1, <2>1 DEF Begin, Abandon, At, Open, Stages
  <2>2. CASE Read(r)
    BY <1>1, <2>2 DEF Read, LoadWorkflow, LoadSteps, Reload, LoadStep, FindStepByOrder,
                      CheckApprovals, NextPendingStep, LoadApproval, LoadGatedStep, At
  <2>3. CASE Write(r)
    BY <1>1, <2>3 DEF Write, CreateWorkflow, InsertSteps, DeleteStep, Activate, Point,
                      WriteWorkflow, WriteStep, BeginStep, CreateApproval, WriteApproval, At
  <2> QED
    BY <2>1, <2>2, <2>3
<1>3. Abandon(r) \/ NextPendingStep(r) \/ WriteWorkflow(r)
  <2>1. ~Begin(r)
    BY <1>2 DEF Begin, At
  <2>2. CASE Read(r)
    BY <1>2, <2>2 DEF Read, LoadWorkflow, LoadSteps, Reload, LoadStep, FindStepByOrder,
                      CheckApprovals, LoadApproval, LoadGatedStep, At
  <2>3. CASE Write(r)
    BY <1>2, <2>3 DEF Write, CreateWorkflow, InsertSteps, DeleteStep, Activate, Point,
                      WriteStep, BeginStep, CreateApproval, WriteApproval, At
  <2> QED
    BY <2>1, <2>2, <2>3
<1>4. CASE Abandon(r)
  <2>1. Halfway(r)
    BY <1>1, <1>2 DEF Halfway, At
  <2>2. session'[r].at = "lost"
    BY <1>4, <2>1, EndKnows DEF Abandon, Outcomes
  <2> QED
    BY <1>1, <2>2 DEF Completing
<1>5. CASE NextPendingStep(r)
  <2>1. steps' = steps
    BY <1>5 DEF NextPendingStep, Unwritten
  <2>2. {k \in Existing : steps[k].status = "PENDING"} = {}
    BY <2>1 DEF AllCompleted, Existing
  <2>3. Goto(r, "write_workflow") \/ End(r, "stalled")
    BY <1>5, <2>2 DEF NextPendingStep
  <2>4. "write_workflow" \in AllStages /\ "stalled" \in Outcomes
    BY DEF AllStages, Stages, Outcomes
  <2>5. session'[r].at \in {"write_workflow", "stalled"}
    BY <2>3, <2>4, Went, EndKnows
  <2> QED
    BY <1>1, <2>5 DEF Completing
<1>6. CASE WriteWorkflow(r)
  <2> DEFINE wanted == Wanted(r, w)
             new == Updated(workflow, w, wanted)
  <2>1. /\ x.at = "write_workflow" /\ w \in WorkflowRow /\ wanted \in WorkflowRow
        /\ CommitWorkflow(r, wanted, "ended")
    BY <1>6, WriteWorkflowFacts
  <2>2. workflow # Null /\ WorkflowChecks(w)
    BY <1>1, <2>1 DEF RequestInv, Stages, HasWorkflow
  <2>3. workflow \in WorkflowRow
    BY <2>2, CommittedWorkflow
  <2>4. MayBecome(r, w)
    BY <1>1, <2>1 DEF Knows
  <2>5. ~w.completed
    BY <2>1, <2>2, <2>4, TransitionFacts
  <2>6. w.status # "COMPLETED"
    <3>1. "COMPLETED" \in WORKFLOW_TRANSITIONS[w.status]
      BY <1>1, <2>4 DEF MayBecome, WorkflowTarget
    <3> QED
      BY <3>1 DEF WORKFLOW_TRANSITIONS
  <2>7. wanted.status = "COMPLETED" /\ wanted.completed /\ wanted.cancelled = w.cancelled
    BY <1>1, <2>1 DEF Wanted, WorkflowTarget, WorkflowRow
  <2>8. /\ new \in WorkflowRow /\ new.status = "COMPLETED"
        /\ new.completed /\ new.cancelled = workflow.cancelled
    BY <2>1, <2>3, <2>5, <2>6, <2>7, UpdatedWorkflow
  <2>9. new # Null
    BY <2>8, NullAssumption
  <2> HIDE DEF new, wanted
  <2>10. \/ WorkflowChecks(new) /\ workflow' = new
         \/ ~WorkflowChecks(new) /\ workflow' = workflow
    BY <2>1 DEF CommitWorkflow, new, wanted
  <2>11. ~WorkflowChecks(new) => workflow.cancelled
    BY <2>8 DEF WorkflowChecks
  <2> QED
    BY <2>2, <2>8, <2>9, <2>10, <2>11
<1> QED
  BY <1>3, <1>4, <1>5, <1>6

\* CompletionInv survives every step that does not reopen the workflow.
LEMMA StepCompletion ==
  ASSUME Inv, KnowsInv, CompletionInv, [Next]_vars,
         workflow # Null /\ workflow.completed => workflow'.completed
  PROVE  CompletionInv'
<1>1. CASE UNCHANGED vars
  <2>1. UNCHANGED <<workflow, steps, approvals, session>>
    BY <1>1 DEF vars
  <2> QED
    BY <2>1 DEF CompletionInv, AllCompleted, Existing, Completing, Removed, At, Patched
<1>2. ASSUME NEW r \in Requests, Begin(r) \/ Read(r) \/ Write(r) \/ Abandon(r), AllCompleted'
      PROVE  \/ \E q \in Requests : Completing(q)'
             \/ Patched \/ Removed'
             \/ workflow' # Null /\ (workflow'.completed \/ workflow'.cancelled)
  <2>1. CASE \E q \in Requests : Completing(q)
    <3>1. PICK q \in Requests : Completing(q)
      BY <2>1
    <3>2. CASE q = r
      BY <1>2, <3>1, <3>2, CompletingArrives
    <3>3. CASE q # r
      <4>1. session'[q] = session[q]
        BY <1>2, <3>3, OthersKept
      <4> QED
        BY <3>1, <4>1 DEF Completing
    <3> QED
      BY <3>2, <3>3
  <2>2. CASE Removed
    <3>1. PICK q \in Requests : q.op = "remove_step" /\ session[q].at = "ended"
      BY <2>2 DEF Removed, At
    <3>2. session'[q].at = "ended"
      <4>1. CASE q # r
        BY <1>2, <3>1, <4>1, OthersKept
      <4>2. CASE q = r
        <5>1. ~Begin(r) /\ ~Abandon(r)
          BY <3>1, <4>2 DEF Begin, Abandon, At, Open, Stages
        <5>2. ~Read(r)
          BY <3>1, <4>2 DEF Read, LoadWorkflow, LoadSteps, Reload, LoadStep,
                            FindStepByOrder, CheckApprovals, NextPendingStep,
                            LoadApproval, LoadGatedStep, At
        <5>3. ~Write(r)
          BY <3>1, <4>2 DEF Write, CreateWorkflow, InsertSteps, DeleteStep, Activate,
                            Point, WriteWorkflow, WriteStep, BeginStep, CreateApproval,
                            WriteApproval, At
        <5> QED
          BY <1>2, <5>1, <5>2, <5>3
      <4> QED
        BY <4>1, <4>2
    <3> QED
      BY <3>1, <3>2 DEF Removed, At
  <2>3. CASE workflow # Null /\ (workflow.completed \/ workflow.cancelled)
    BY <2>3, WorkflowKeepsStamps
  <2>4. AllCompleted \/ Completing(r)' \/ Patched \/ Removed'
    BY <1>2, StepsComplete
  <2> QED
    BY <2>1, <2>2, <2>3, <2>4 DEF CompletionInv
<1>3. ASSUME NEW r \in Requests, Begin(r) \/ Read(r) \/ Write(r) \/ Abandon(r)
      PROVE  CompletionInv'
  BY <1>2, <1>3 DEF CompletionInv, Patched
<1> QED
  BY <1>1, <1>3 DEF Next

\* What requests know and the write in progress give the property.
LEMMA CompletionImplies ==
  ASSUME Inv, CompletionInv
  PROVE  LastStepCompletesWorkflow
<1> SUFFICES ASSUME workflow # Null, workflow.status = "IN_PROGRESS", AllCompleted
             PROVE  \/ \E r \in Requests : r.op = "complete_step"
                         /\ (Halfway(r) \/ At(r, "lost") \/ At(r, "stalled"))
                    \/ Patched \/ Removed
  BY DEF LastStepCompletesWorkflow, AllCompleted, Patched, Removed
<1>1. ~workflow.completed /\ ~workflow.cancelled
  BY CommittedWorkflow DEF WorkflowChecks
<1>2. \A r \in Requests : Completing(r) =>
        r.op = "complete_step" /\ (Halfway(r) \/ At(r, "lost") \/ At(r, "stalled"))
  BY DEF Completing, Halfway, At
<1> QED
  BY <1>1, <1>2 DEF CompletionInv

\* Unless start_workflow reopens a workflow that was completed between its
\* commits, the workflow does not stay in progress when all of its steps are
\* completed: the request that completed the last one is on the way to it, died,
\* or had loaded another status.  For any steps, approvals and requests.
THEOREM CompletionFollows == NeverReopened /\ Spec => []LastStepCompletesWorkflow
<1>1. Init => CompletionInv
  BY DEF Init, CompletionInv, AllCompleted, Existing
<1>2. /\ Inv /\ KnowsInv /\ CompletionInv /\ [Next]_vars
      /\ [workflow # Null /\ workflow.completed => workflow'.completed]_vars
      => CompletionInv'
  <2> SUFFICES ASSUME Inv, KnowsInv, CompletionInv, [Next]_vars,
                      [workflow # Null /\ workflow.completed => workflow'.completed]_vars
               PROVE  CompletionInv'
    OBVIOUS
  <2>1. workflow # Null /\ workflow.completed => workflow'.completed
    BY DEF vars
  <2> QED
    BY <2>1, StepCompletion
<1>3. Inv /\ CompletionInv => LastStepCompletesWorkflow
  BY CompletionImplies
<1> QED
  BY <1>1, <1>2, <1>3, Invariant, KnowsInvariant, PTL DEF Spec, NeverReopened
----------------------------------------------------------------------------
(* The last decision unblocks the step.                                    *)

\* The exceptions that LastDecisionUnblocks names.
Overtaken(k) == \E r \in Requests :
  r.op = "request_approval" /\ r.step = k /\ At(r, "overtaken")
PatchedBlocked(k) == \E r \in Requests :
  r.op = "update_step" /\ r.step = k /\ r.to = "BLOCKED"

\* Step k is blocked for nothing, and nobody is on the way to it.
Blocked(k) == steps[k] # Null /\ steps[k].status = "BLOCKED" /\ ~HasPendingApprovals(k)
Attended(k) ==
  \/ \E r \in Requests : Deciding(r, k)
  \/ Overtaken(k) \/ PatchedBlocked(k)

\* The property, for one step and what the requests are about to do to it.
LEMMA UnblocksByStep ==
  LastDecisionUnblocks <=> \A k \in Steps : Blocked(k) => Attended(k)
BY DEF LastDecisionUnblocks, Blocked, Attended, Overtaken, PatchedBlocked, Existing

\* Where a decision on step k can be.
LEMMA DecidingAt ==
  ASSUME Inv, KnowsInv, NEW r \in Requests, NEW k, Deciding(r, k)
  PROVE  /\ session[r].at \in {"gated_step", "check", "write_step", "lost"}
         /\ session[r].at # "lost" => session[r].step = k
<1>1. RequestInv(r, session[r], workflow) /\ Knows(r, session[r]) /\ r.op \in Decisions
  BY StateFacts DEF Deciding, KnowsInv
<1>2. session[r].at \notin {"next", "begin", "point"}
  BY <1>1 DEF RequestInv, Knows, Decisions
<1>3. r.op # "complete_step"
  BY <1>1 DEF Decisions
<1>4. session[r].at \in {"gated_step", "check", "write_step", "lost"}
  BY <1>2, <1>3 DEF Deciding, Halfway, At
<1>5. Requested(r.approval, k)
  BY RequestFacts DEF Deciding, KnowsInv
<1>6. session[r].at # "lost" => Requested(r.approval, session[r].step)
  BY <1>1, <1>4 DEF Knows
<1> QED
  BY <1>4, <1>5, <1>6, RequestedOnce

\* A request that is served is at the stage of its statement.
LEMMA ServedAt ==
  ASSUME NEW r \in Requests, Read(r) \/ Write(r) \/ Abandon(r)
  PROVE  session[r].at \in Stages
BY DEF Read, Write, LoadWorkflow, LoadSteps, Reload, LoadStep, FindStepByOrder,
       CheckApprovals, NextPendingStep, LoadApproval, LoadGatedStep, CreateWorkflow,
       InsertSteps, DeleteStep, Activate, Point, WriteWorkflow, WriteStep, BeginStep,
       CreateApproval, WriteApproval, Abandon, Open, At, Stages

\* Attention to a blocked step survives the steps of others.
LEMMA AttendedByOthers ==
  ASSUME Inv, NEW r \in Requests, Begin(r) \/ Read(r) \/ Write(r) \/ Abandon(r),
         NEW k \in Steps, Attended(k),
         ~Deciding(r, k),
         \A a \in Approvals : approvals[a] # Null /\ approvals[a].step = k =>
           approvals'[a] # Null /\ approvals'[a].step = k
  PROVE  Attended(k)'
<1>1. CASE PatchedBlocked(k)
  BY <1>1 DEF Attended, PatchedBlocked
<1>2. CASE Overtaken(k)
  <2>1. PICK q \in Requests : /\ q.op = "request_approval" /\ q.step = k
                              /\ session[q].at = "overtaken"
    BY <1>2 DEF Overtaken, At
  <2>2. q # r
    BY <2>1, ServedAt DEF Stages, Begin, At
  <2>3. session'[q] = session[q]
    BY <2>2, OthersKept
  <2> QED
    BY <2>1, <2>3 DEF Attended, Overtaken, At
<1>3. CASE \E q \in Requests : Deciding(q, k)
  <2>1. PICK q \in Requests : Deciding(q, k)
    BY <1>3
  <2>2. session'[q] = session[q]
    BY <2>1, OthersKept
  <2>3. approvals'[q.approval] # Null /\ approvals'[q.approval].step = k
    BY <2>1, RequestFacts DEF Deciding
  <2>4. Deciding(q, k)'
    BY <2>1, <2>2, <2>3 DEF Deciding, Halfway, At
  <2> QED
    BY <2>4 DEF Attended
<1> QED
  BY <1>1, <1>2, <1>3 DEF Attended

\* A decision on a blocked step proceeds to it, or dies on the way.
LEMMA DecidingProceeds ==
  ASSUME Inv, KnowsInv, NEW r \in Requests, Read(r) \/ Abandon(r), Unwritten,
         NEW k \in Steps, Blocked(k), Deciding(r, k)
  PROVE  Deciding(r, k)'
<1> DEFINE x == session[r]
           y == session'[r]
<1>1. /\ x.at \in {"gated_step", "check", "write_step"} /\ x.step = k
      /\ x \in SessionState /\ session \in [Requests -> SessionState]
  BY DecidingAt, ServedAt, StateFacts DEF Stages, Inv, TypeOK
<1>2. RequestInv(r, x, workflow) /\ Knows(r, x) /\ r.op \in Decisions
  BY StateFacts DEF Deciding, KnowsInv
<1>3. /\ y.at \in {"gated_step", "check", "write_step", "lost"} => Deciding(r, k)'
  BY <1>2 DEF Deciding, Halfway, At, Unwritten
<1>4. CASE Abandon(r)
  <2>1. Halfway(r)
    BY <1>1, <1>2 DEF Halfway
  <2>2. y.at = "lost"
    BY <1>4, <2>1, EndKnows DEF Abandon, Outcomes
  <2> QED
    BY <1>3, <2>2
<1>5. CASE LoadGatedStep(r)
  <2>1. x.at = "gated_step" /\ r.op # "escalate"
    BY <1>2, <1>5 DEF LoadGatedStep, At, RequestInv
  <2>2. steps[k] # Null /\ steps[k].status = "BLOCKED"
    BY DEF Blocked
  <2>3. r.op = "reject" => StepMayBecome(r, steps[k])
    BY <2>2 DEF StepMayBecome, StepTarget, STEP_TRANSITIONS
  <2>4. session' = [session EXCEPT ![r].row = steps[k],
                      ![r].at = IF r.op = "reject" THEN "write_step" ELSE "check"]
    BY <1>1, <1>5, <2>2, <2>3 DEF LoadGatedStep
  <2>5. y.at \in {"write_step", "check"}
    BY <1>1, <2>4 DEF SessionState
  <2> QED
    BY <1>3, <2>5
<1>6. CASE CheckApprovals(r)
  <2>1. x.at = "check" /\ r.op \in {"approve", "cancel_approval"}
        /\ x.row.status = "BLOCKED"
    BY <1>2, <1>6 DEF CheckApprovals, At, RequestInv, Knows, Decisions
  <2>2. StepMayBecome(r, x.row)
    BY <2>1 DEF StepMayBecome, StepTarget, STEP_TRANSITIONS
  <2>3. Goto(r, "write_step") /\ "write_step" \in AllStages
    BY <1>1, <1>6, <2>2 DEF CheckApprovals, Blocked, AllStages, Stages
  <2>4. y.at = "write_step"
    BY <2>3, Went
  <2> QED
    BY <1>3, <2>4
<1>7. Abandon(r) \/ LoadGatedStep(r) \/ CheckApprovals(r)
  BY <1>1 DEF Read, LoadWorkflow, LoadSteps, Reload, LoadStep, FindStepByOrder,
              NextPendingStep, LoadApproval, At
<1> QED
  BY <1>4, <1>5, <1>6, <1>7

\* A write to another table leaves a step attended.
LEMMA WorkflowUnblocks ==
  ASSUME Inv, KnowsInv, NEW r \in Requests,
         CreateWorkflow(r) \/ Activate(r) \/ Point(r) \/ WriteWorkflow(r),
         NEW k \in Steps, Blocked(k) => Attended(k), Blocked(k)'
  PROVE  Attended(k)'
<1>1. UNCHANGED <<steps, approvals>> /\ Write(r)
  BY DEF CreateWorkflow, Activate, Point, WriteWorkflow, CommitWorkflow, Write
<1>2. Blocked(k)
  BY <1>1 DEF Blocked, HasPendingApprovals, Pending
<1>3. session[r].at \in {"insert", "activate", "point", "write_workflow"}
  BY DEF CreateWorkflow, Activate, Point, WriteWorkflow, At
<1>4. ~Deciding(r, k)
  BY <1>3, DecidingAt
<1> QED
  BY <1>1, <1>2, <1>4, AttendedByOthers

\* So does reading.
LEMMA ReadUnblocks ==
  ASSUME Inv, KnowsInv, NEW r \in Requests, Begin(r) \/ Read(r) \/ Abandon(r),
         NEW k \in Steps, Blocked(k) => Attended(k), Blocked(k)'
  PROVE  Attended(k)'
<1>1. Unwritten
  BY DEF Read, Begin, Abandon, LoadWorkflow, LoadSteps, Reload, LoadStep, FindStepByOrder,
         CheckApprovals, NextPendingStep, LoadApproval, LoadGatedStep
<1>2. Blocked(k)
  BY <1>1 DEF Unwritten, Blocked, HasPendingApprovals, Pending
<1>3. CASE Deciding(r, k)
  <2>1. ~Begin(r)
    BY <1>3, DecidingAt DEF Begin, At
  <2> QED
    BY <1>1, <1>2, <1>3, <2>1, DecidingProceeds DEF Attended
<1>4. CASE ~Deciding(r, k)
  BY <1>1, <1>2, <1>4, AttendedByOthers DEF Unwritten
<1> QED
  BY <1>3, <1>4

\* Adding and removing other steps leaves a step attended.
LEMMA StepsUnblock ==
  ASSUME Inv, KnowsInv, NEW r \in Requests, InsertSteps(r) \/ DeleteStep(r),
         NEW k \in Steps, Blocked(k) => Attended(k), Blocked(k)'
  PROVE  Attended(k)'
<1>1. session[r].at \in {"insert_steps", "insert_step", "remove"} /\ Write(r)
  BY DEF InsertSteps, DeleteStep, At, Write
<1>2. ~Deciding(r, k)
  BY <1>1, DecidingAt
<1>3. steps'[k] = steps[k]
  <2>1. CASE InsertSteps(r)
    BY <2>1 DEF InsertSteps, NewStep, Blocked
  <2>2. CASE DeleteStep(r)
    BY <2>2 DEF DeleteStep, Blocked, Inv, TypeOK
  <2> QED
    BY <2>1, <2>2
<1>4. \A a \in Approvals :
        approvals[a] # Null /\ approvals[a].step = k => approvals'[a] = approvals[a]
  <2>1. CASE InsertSteps(r)
    BY <2>1 DEF InsertSteps
  <2>2. CASE DeleteStep(r)
    <3>1. k # r.step
      BY <2>2 DEF DeleteStep, Blocked, Inv, TypeOK
    <3> QED
      BY <2>2, <3>1 DEF DeleteStep
  <2> QED
    BY <2>1, <2>2
<1>5. Blocked(k)
  BY <1>3, <1>4 DEF Blocked, HasPendingApprovals, Pending
<1> QED
  BY <1>1, <1>2, <1>4, <1>5, AttendedByOthers

\* A new approval is pending.
LEMMA CreateApprovalUnblocks ==
  ASSUME Inv, KnowsInv, NEW r \in Requests, CreateApproval(r),
         NEW k \in Steps, Blocked(k) => Attended(k), Blocked(k)'
  PROVE  Attended(k)'
<1>1. session[r].at = "insert_approval" /\ Write(r) /\ steps' = steps
  BY DEF CreateApproval, At, Write
<1>2. ~Deciding(r, k)
  BY <1>1, DecidingAt
<1>3. \A a \in Approvals :
        approvals[a] # Null => approvals'[a] = approvals[a]
  BY RequestFacts DEF CreateApproval, Inv, TypeOK
<1>4. Blocked(k)
  BY <1>1, <1>3 DEF Blocked, HasPendingApprovals, Pending
<1> QED
  BY <1>1, <1>2, <1>3, <1>4, AttendedByOthers

\* Whoever decides the last pending approval is on the way to its step.
LEMMA WriteApprovalUnblocks ==
  ASSUME Inv, KnowsInv, NEW r \in Requests, WriteApproval(r),
         NEW k \in Steps, Blocked(k) => Attended(k), Blocked(k)'
  PROVE  Attended(k)'
<1> DEFINE a == r.approval
<1>1. /\ session[r].at = "write_approval" /\ Write(r) /\ steps' = steps
      /\ approvals \in [Approvals -> ApprovalRow \cup {Null}] /\ a \in Approvals
      /\ r.op \in Decisions
  BY StateFacts, RequestFacts DEF WriteApproval, At, Write, Inv, TypeOK, RequestInv
<1>2. ~Deciding(r, k)
  BY <1>1, DecidingAt
<1>3. CASE approvals' = approvals
  <2>1. Blocked(k)
    BY <1>1, <1>3 DEF Blocked, HasPendingApprovals, Pending
  <2> QED
    BY <1>1, <1>2, <1>3, <2>1, AttendedByOthers
<1>4. CASE /\ approvals[a] # Null
           /\ approvals' = [approvals EXCEPT ![a].status = Decision(r)]
           /\ IF r.op = "escalate" THEN End(r, "ended") ELSE Goto(r, "gated_step")
  <2>1. \A b \in Approvals : b # a => approvals'[b] = approvals[b]
    BY <1>1, <1>4
  <2>2. /\ approvals'[a] \in ApprovalRow \cup {Null}
        /\ approvals'[a] # Null
        /\ approvals'[a].step = approvals[a].step /\ approvals'[a].status = Decision(r)
    <3>1. approvals'[a] = [approvals[a] EXCEPT !.status = Decision(r)]
          /\ approvals[a] \in ApprovalRow
      BY <1>1, <1>4
    <3>2. Decision(r) \in ApprovalStatus
      BY <1>1 DEF Decision, Decisions, ApprovalStatus
    <3>3. approvals'[a] \in ApprovalRow
      BY <3>1, <3>2 DEF ApprovalRow
    <3> QED
      BY <3>1, <3>3, NullAssumption DEF ApprovalRow
  <2> HIDE DEF a
  <2>3. CASE HasPendingApprovals(k)
    <3>1. PICK b \in Approvals : Pending(b) /\ approvals[b].step = k
      BY <2>3 DEF HasPendingApprovals
    <3>2. b = a
      BY <2>1, <3>1 DEF Blocked, HasPendingApprovals, Pending
    <3>3. Decision(r) # "ESCALATED"
      BY <1>1, <2>2, <3>1, <3>2 DEF Blocked, HasPendingApprovals, Pending
    <3>4. r.op # "escalate"
      BY <3>3 DEF Decision
    <3>5. Goto(r, "gated_step") /\ "gated_step" \in AllStages
      BY <1>4, <3>4 DEF AllStages, Stages
    <3>6. session'[r].at = "gated_step"
      BY <3>5, Went
    <3>7. Deciding(r, k)'
      BY <1>1, <2>2, <3>1, <3>2, <3>6 DEF Deciding, Halfway, a
    <3> QED
      BY <3>7 DEF Attended
  <2>4. CASE ~HasPendingApprovals(k)
    <3>1. Blocked(k)
      BY <1>1, <2>4 DEF Blocked
    <3> QED
      BY <1>1, <1>2, <2>1, <2>2, <3>1, AttendedByOthers
  <2> QED
    BY <2>3, <2>4
<1> QED
  BY <1>3, <1>4 DEF WriteApproval

\* The write of a decision takes the step out of BLOCKED, and a step is blocked
\* only with an approval pending, too late, or by a PATCH.
LEMMA WriteStepUnblocks ==
  ASSUME Inv, KnowsInv, NEW r \in Requests, WriteStep(r),
         NEW k \in Steps, Blocked(k) => Attended(k), Blocked(k)'
  PROVE  Attended(k)'
<1> DEFINE x == session[r]
           wanted == StepWanted(r)
<1>1. /\ x.at = "write_step" /\ HasStep(x) /\ RequestInv(r, x, workflow) /\ Knows(r, x)
      /\ CommitStep(r, wanted, AfterWrite(r)) /\ wanted \in StepRow
      /\ r.op \in StepOps \cup Decisions /\ x.step \in Steps /\ x.row \in StepRow
  BY WriteStepFacts DEF KnowsInv, RequestInv, HasStep
<1>2. wanted.status = StepTarget(r)
  BY DEF StepWanted
<1>3. UNCHANGED approvals /\ Write(r)
  BY DEF WriteStep, CommitStep, Write
<1>4. HasPendingApprovals(k)' <=> HasPendingApprovals(k)
  BY <1>3 DEF HasPendingApprovals, Pending
<1> HIDE DEF wanted
<1>5. \/ steps'[k] = steps[k]
      \/ /\ k = x.step /\ steps[k] # Null
         /\ steps'[k].status = IF wanted.status # x.row.status
                               THEN wanted.status ELSE steps[k].status
         /\ IF AfterWrite(r) \in Stages THEN Goto(r, AfterWrite(r)) ELSE End(r, AfterWrite(r))
  BY <1>1, StatusAfter
<1>6. CASE ~Blocked(k)
  <2>1. steps'[k] # steps[k]
    BY <1>4, <1>6 DEF Blocked
  <2>2. k = x.step /\ StepTarget(r) = "BLOCKED"
    BY <1>2, <1>4, <1>5, <1>6, <2>1 DEF Blocked
  <2>3. r.op \in {"update_step", "request_approval"}
    <3>1. r.op \in {"complete_step", "fail_step", "retry_step", "skip_step", "update_step",
                    "request_approval", "approve", "reject", "cancel_approval"}
      BY <1>1 DEF Knows, StepOps, Decisions
    <3> QED
      BY <2>2, <3>1 DEF StepTarget
  <2>4. k = r.step
    BY <1>1, <2>2, <2>3 DEF Knows
  <2>5. CASE r.op = "update_step"
    <3>1. r.to = "BLOCKED"
      BY <2>2, <2>5 DEF StepTarget
    <3> QED
      BY <2>4, <2>5, <3>1 DEF Attended, PatchedBlocked
  <2>6. CASE r.op = "request_approval"
    <3>1. ~Pending(r.approval)
      <4> SUFFICES ASSUME Pending(r.approval) PROVE FALSE
        OBVIOUS
      <4>1. r.approval \in Approvals /\ approvals[r.approval] # Null
        BY RequestFacts DEF Pending
      <4>2. Requested(r.approval, approvals[r.approval].step)
        BY <4>1 DEF KnowsInv
      <4>3. Requested(r.approval, r.step)
        BY <2>6 DEF Requested
      <4>4. approvals[r.approval].step = k
        BY <2>4, <4>2, <4>3, RequestedOnce
      <4>5. HasPendingApprovals(k)
        BY <4>1, <4>4 DEF HasPendingApprovals
      <4> QED
        BY <1>4, <4>5 DEF Blocked
    <3>2. AfterWrite(r) = "overtaken"
      BY <2>6, <3>1 DEF AfterWrite
    <3>3. End(r, "overtaken") /\ "overtaken" \in Outcomes
      BY <1>5, <2>1, <3>2 DEF Stages, Outcomes
    <3>4. session'[r].at = "overtaken"
      BY <3>3, EndKnows
    <3> QED
      BY <2>4, <2>6, <3>4 DEF Attended, Overtaken, At
  <2> QED
    BY <2>3, <2>5, <2>6
<1>7. CASE Blocked(k)
  <2>1. ~Deciding(r, k)
    <3> SUFFICES ASSUME Deciding(r, k) PROVE FALSE
      OBVIOUS
    <3>1. x.step = k /\ r.op \in {"approve", "reject", "cancel_approval"}
      BY <1>1, DecidingAt DEF Deciding, Decisions, Knows
    <3>2. StepTarget(r) \in STEP_TRANSITIONS[x.row.status] /\ x.row.status \in StepStatus
      BY <1>1, <3>1 DEF Knows, StepMayBecome, Decisions, StepRow
    <3>3. StepTarget(r) \in {"FAILED", "IN_PROGRESS"}
      BY <3>1 DEF StepTarget
    <3>4. StepTarget(r) # x.row.status
      BY <3>2, <3>3 DEF STEP_TRANSITIONS, StepStatus
    <3>5. wanted.completed = x.row.completed
      BY <1>1, <3>1 DEF wanted, StepWanted, StepRow
    <3> DEFINE new == Updated(steps[k], x.row, wanted)
    <3>6. steps[k] \in StepRow /\ ~steps[k].completed /\ steps[k] # Null
      BY <1>7, CommittedStep DEF Blocked, StepChecks
    <3>7. new.completed = steps[k].completed /\ new.status = StepTarget(r)
      BY <1>1, <1>2, <3>4, <3>5, <3>6, UpdatedStep
    <3>8. StepChecks(new)
      BY <3>6, <3>7 DEF StepChecks
    <3>9. steps' = [steps EXCEPT ![k] = new]
      BY <1>1, <3>1, <3>6, <3>8 DEF CommitStep
    <3>10. steps'[k] = new
      BY <3>9 DEF Inv, TypeOK
    <3> QED
      BY <3>3, <3>7, <3>10 DEF Blocked
  <2> QED
    BY <1>3, <1>7, <2>1, AttendedByOthers
<1> QED
  BY <1>6, <1>7

\* Beginning a step does not block it.
LEMMA BeginStepUnblocks ==
  ASSUME Inv, KnowsInv, NEW r \in Requests, BeginStep(r),
         NEW k \in Steps, Blocked(k) => Attended(k), Blocked(k)'
  PROVE  Attended(k)'
<1>1. /\ session[r].at = "begin" /\ HasStep(session[r])
      /\ CommitStep(r, BeginWanted(r), AfterBegin(r))
      /\ BeginWanted(r) \in StepRow /\ BeginWanted(r).status = "IN_PROGRESS"
  BY BeginStepFacts DEF BeginWanted, HasStep, StepRow
<1>2. UNCHANGED approvals /\ Write(r)
  BY DEF BeginStep, CommitStep, Write
<1>3. \/ steps'[k] = steps[k]
      \/ steps[k] # Null /\ steps'[k].status \in {"IN_PROGRESS", steps[k].status}
  BY <1>1, StatusAfter
<1>4. Blocked(k)
  BY <1>2, <1>3 DEF Blocked, HasPendingApprovals, Pending
<1>5. ~Deciding(r, k)
  BY <1>1, DecidingAt
<1> QED
  BY <1>2, <1>4, <1>5, AttendedByOthers

\* The last decision still unblocks after every step.
LEMMA StepUnblocks ==
  ASSUME Inv, KnowsInv, LastDecisionUnblocks, [Next]_vars
  PROVE  LastDecisionUnblocks'
<1>1. CASE UNCHANGED vars
  <2>1. UNCHANGED <<workflow, steps, approvals, session>>
    BY <1>1 DEF vars
  <2> QED
    BY <2>1 DEF LastDecisionUnblocks, Existing, HasPendingApprovals, Pending, Deciding,
                Halfway, At
<1>2. ASSUME NEW r \in Requests, Begin(r) \/ Read(r) \/ Write(r) \/ Abandon(r),
             NEW k \in Steps, Blocked(k)'
      PROVE  Attended(k)'
  <2>1. Blocked(k) => Attended(k)
    BY UnblocksByStep
  <2>2. CASE Begin(r) \/ Read(r) \/ Abandon(r)
    BY <1>2, <2>1, <2>2, ReadUnblocks
  <2>3. CASE Write(r)
    BY <1>2, <2>1, <2>3, WorkflowUnblocks, StepsUnblock, CreateApprovalUnblocks,
       WriteApprovalUnblocks, WriteStepUnblocks, BeginStepUnblocks DEF Write
  <2> QED
    BY <1>2, <2>2, <2>3
<1>3. ASSUME NEW r \in Requests, Begin(r) \/ Read(r) \/ Write(r) \/ Abandon(r)
      PROVE  LastDecisionUnblocks'
  <2>1. \A k \in Steps : Blocked(k)' => Attended(k)'
    BY <1>2, <1>3
  <2> QED
    BY <2>1 DEF LastDecisionUnblocks, Blocked, Attended, Overtaken, PatchedBlocked, Existing
<1> QED
  BY <1>1, <1>3 DEF Next

\* However the decisions on a step interleave with each other, with requests for
\* further approvals and with retries, a step without a pending approval does
\* not stay blocked: a decision is on its way to it, or an exception that the
\* property names applies.  For any steps, approvals and requests.
THEOREM DecisionsUnblock == Spec => []LastDecisionUnblocks
<1>1. Init => LastDecisionUnblocks
  BY DEF Init, LastDecisionUnblocks, Existing
<1>2. Inv /\ KnowsInv /\ LastDecisionUnblocks /\ [Next]_vars => LastDecisionUnblocks'
  BY StepUnblocks
<1> QED
  BY <1>1, <1>2, Invariant, KnowsInvariant, PTL DEF Spec
=============================================================================
