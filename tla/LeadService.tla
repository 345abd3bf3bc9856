---------------------------- MODULE LeadService ----------------------------
(***************************************************************************)
(* LeadService and LeadRepository: leads and their pipeline.  Neither the  *)
(* phone nor the email of a lead is unique in the database.                *)
(***************************************************************************)
EXTENDS DirectoryTables

LeadStatus ==
  {"NEW", "CONTACTED", "QUALIFIED", "SITE_VISIT", "NEGOTIATION", "BOOKED", "LOST"}
LeadPriority == {"LOW", "MEDIUM", "HIGH", "URGENT"}

LeadRow ==
  [phone: Phones, email: Emails \cup {Null}, status: LeadStatus, priority: LeadPriority,
   agent: UserIds \cup {Null}, active: BOOLEAN]

LeadOps ==
  {"create_lead", "update_lead", "delete_lead", "assign_lead", "change_status",
   "change_priority"}

\* LeadCreate and LeadUpdate.
ValidLeadRequest(r) ==
  /\ r.id \in LeadIds
  /\ r.op = "create_lead" => r.row \in LeadRow /\ r.row.active
  /\ r.op = "update_lead" =>
       DOMAIN r.set \subseteq {"phone", "email", "status", "priority", "agent", "active"}
  /\ r.op = "change_status" => r.status \in LeadStatus
  /\ r.op = "change_priority" => r.priority \in LeadPriority

\* _STATUS_WORKFLOW_ORDER and _TERMINAL_STATUSES.
WorkflowOrder == <<"NEW", "CONTACTED", "QUALIFIED", "SITE_VISIT", "NEGOTIATION", "BOOKED">>
TerminalLeadStatus == {"BOOKED", "LOST"}

NextStage(from, to) ==
  \E i \in 1..(Len(WorkflowOrder) - 1) :
    from = WorkflowOrder[i] /\ to = WorkflowOrder[i + 1]

CreateLead(r) ==
  Handler(TRUE,
          <<Free("leads", "phone", r.row.phone)>>
            \o IfGiven(r.row.email, Free("leads", "email", r.row.email)),
          "insert", r.row)

\* Only a contact that changes is looked for.
LeadContactChecks(r, row) ==
  LET Check(column) ==
        IfSet(r.set, column,
              IF r.set[column] = row[column] THEN <<>>
              ELSE IfGiven(r.set[column], Free("leads", column, r.set[column])))
  IN  Check("phone") \o Check("email")

\* Mutant: an email is looked for only together with a phone.
UpdateLead_PhoneFirst(r, row) ==
  Handler(row.active,
          IfSet(r.set, "phone", LeadContactChecks(r, row)), "orm", r.set)

\* The status, the agent and the activity are set like any other column.
UpdateLead(r, row) == Handler(row.active, LeadContactChecks(r, row), "orm", r.set)

DeleteLead == Handler(TRUE, <<>>, "core", [active |-> FALSE])

AssignLead(r, row) == Handler(row.active, <<>>, "core", [agent |-> r.agent])

ChangeStatus(r, row) ==
  Handler(/\ row.active
          /\ row.status \notin TerminalLeadStatus
          /\ r.status = "LOST" \/ NextStage(row.status, r.status),
          <<>>, "core", [status |-> r.status])

ChangePriority(r, row) == Handler(row.active, <<>>, "core", [priority |-> r.priority])

LeadHandler(r, row) ==
  CASE r.op = "create_lead"     -> CreateLead(r)
    [] r.op = "update_lead"     -> UpdateLead(r, row)
    [] r.op = "delete_lead"     -> DeleteLead
    [] r.op = "assign_lead"     -> AssignLead(r, row)
    [] r.op = "change_status"   -> ChangeStatus(r, row)
    [] r.op = "change_priority" -> ChangePriority(r, row)
=============================================================================
