-------------------------- MODULE CustomerService --------------------------
(***************************************************************************)
(* CustomerService and CustomerRepository.  A customer can be deleted for  *)
(* good unless a booking or a payment refers to it.                        *)
(***************************************************************************)
EXTENDS DirectoryTables

CONSTANT Referenced  \* customers that bookings or payments refer to

CustomerStatus == {"ACTIVE", "INACTIVE", "PROSPECT", "BLACKLISTED", "ARCHIVED"}

\* followup: a next follow-up date is set.
CustomerRow ==
  [email: Emails \cup {Null}, status: CustomerStatus, assigned: UserIds \cup {Null},
   lead: LeadIds \cup {Null}, followup: BOOLEAN, active: BOOLEAN]

CustomerOps ==
  {"create_customer", "update_customer", "delete_customer", "soft_delete_customer",
   "restore_customer", "assign_customer", "unassign_customer", "update_customer_status",
   "update_followup"}

\* CustomerCreate and CustomerUpdate; past: the date to follow up is over.
ValidCustomerRequest(r) ==
  /\ r.id \in CustomerIds
  /\ r.op = "create_customer" => r.row \in CustomerRow
  /\ r.op = "update_customer" => DOMAIN r.set \subseteq
       {"email", "status", "assigned", "lead", "followup", "active"}
  /\ r.op = "update_customer_status" => r.status \in CustomerStatus
  /\ r.op = "update_followup" => r.followup \in BOOLEAN /\ r.past \in BOOLEAN

\* assert_email_available, assert_lead_exists, assert_user_exists.
EmailAvailable(email) == IfGiven(email, Free("customers", "email", email))
LeadExists(lead) == IfGiven(lead, Exists("leads", lead))
UserExists(user) == IfGiven(user, Exists("users", user))

CreateCustomer(r) ==
  Handler(TRUE,
          EmailAvailable(r.row.email) \o LeadExists(r.row.lead) \o UserExists(r.row.assigned),
          "insert", [r.row EXCEPT !.active = TRUE])

UpdateCustomer(r) ==
  Handler(TRUE,
          IfSet(r.set, "email", EmailAvailable(r.set.email))
            \o IfSet(r.set, "lead", LeadExists(r.set.lead))
            \o IfSet(r.set, "assigned", UserExists(r.set.assigned)),
          "orm", r.set)

DeleteCustomer == Handler(TRUE, <<>>, "delete", [c \in {} |-> Null])
SoftDeleteCustomer(row) == Handler(row.active, <<>>, "core", [active |-> FALSE])
RestoreCustomer(row) == Handler(~row.active, <<>>, "core", [active |-> TRUE])

AssignCustomer(r) == Handler(TRUE, UserExists(r.user), "core", [assigned |-> r.user])
UnassignCustomer == Handler(TRUE, <<>>, "core", [assigned |-> Null])

\* Any status follows any other.
UpdateCustomerStatus(r) == Handler(TRUE, <<>>, "core", [status |-> r.status])
UpdateFollowup(r) == Handler(~(r.followup /\ r.past), <<>>, "core", [followup |-> r.followup])

CustomerHandler(r, row) ==
  CASE r.op = "create_customer"        -> CreateCustomer(r)
    [] r.op = "update_customer"        -> UpdateCustomer(r)
    [] r.op = "delete_customer"        -> DeleteCustomer
    [] r.op = "soft_delete_customer"   -> SoftDeleteCustomer(row)
    [] r.op = "restore_customer"       -> RestoreCustomer(row)
    [] r.op = "assign_customer"        -> AssignCustomer(r)
    [] r.op = "unassign_customer"      -> UnassignCustomer
    [] r.op = "update_customer_status" -> UpdateCustomerStatus(r)
    [] r.op = "update_followup"        -> UpdateFollowup(r)
=============================================================================
