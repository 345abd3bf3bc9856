--------------------------- MODULE MCCrmDirectory ---------------------------
(***************************************************************************)
(* Instance of CrmDirectory for TLC.                                       *)
(***************************************************************************)
EXTENDS CrmDirectory

User(email, phone) ==
  [email |-> email, phone |-> phone, password |-> "x", role |-> "SALES_AGENT",
   active |-> TRUE, verified |-> FALSE]
Lead(phone, email) ==
  [phone |-> phone, email |-> email, status |-> "NEW", priority |-> "LOW",
   agent |-> Null, active |-> TRUE]
Property(code, listing, agent) ==
  [code |-> code, listing |-> listing, status |-> "AVAILABLE", agent |-> agent, active |-> TRUE]
Customer(email, lead) ==
  [email |-> email, status |-> "ACTIVE", assigned |-> Null, lead |-> lead,
   followup |-> FALSE, active |-> TRUE]

SeedTables ==
  [users      |-> [i \in UserIds |-> IF i < 3 THEN User(i, i) ELSE Null],
   leads      |-> [i \in LeadIds |-> CASE i = 1 -> Lead(1, 1) [] i = 2 -> Lead(2, Null)
                                       [] OTHER -> Null],
   properties |-> [i \in PropertyIds |-> IF i = 1 THEN Property(1, "SALE", 1) ELSE Null],
   customers  |-> [i \in CustomerIds |-> IF i < 3 THEN Customer(i, 1) ELSE Null]]

On(op, id) == [op |-> op, id |-> id]
With(op, id, set) == [op |-> op, id |-> id, set |-> set]
New(op, id, row) == [op |-> op, id |-> id, row |-> row]
Moving(op, id, status) == [op |-> op, id |-> id, status |-> status]
Assigning(op, id, agent) == [op |-> op, id |-> id, agent |-> agent]

\* Several requests want one phone or one email for their leads.
Contacts ==
  {New("create_lead", 3, Lead(3, 3)), New("create_lead", 4, Lead(3, Null)),
   With("update_lead", 1, [email |-> 3]), With("update_lead", 2, [phone |-> 3, email |-> 1]),
   With("update_lead", 2, [email |-> Null, active |-> FALSE])}

\* One lead is moved, assigned, updated and deleted.
Pipeline ==
  {Moving("change_status", 1, "CONTACTED"), Moving("change_status", 1, "QUALIFIED"),
   Moving("change_status", 1, "LOST"), With("update_lead", 1, [status |-> "NEW", active |-> TRUE]),
   On("delete_lead", 1), Assigning("assign_lead", 1, 1),
   [op |-> "change_priority", id |-> 1, priority |-> "HIGH"]}

\* One property is sold, let, retyped and withdrawn.
Listings ==
  {Moving("update_status", 1, "SOLD"), Moving("update_status", 1, "RENTED"),
   With("update_property", 1, [listing |-> "RENT"]),
   With("update_property", 1, [listing |-> "SALE", active |-> TRUE]),
   On("soft_delete_property", 1), On("reactivate_property", 1)}

\* Properties are created and assigned while agents come and go.
Agents ==
  {New("create_property", 2, Property(Null, "RENT", 2)),
   New("create_property", 3, Property(2, "SALE", Null)),
   Assigning("assign_property", 1, 2), On("soft_delete_property", 1), On("deactivate_user", 2), On("reactivate_user", 2),
   With("update_user", 2, [active |-> FALSE, role |-> "ADMIN"])}

Customers ==
  {New("create_customer", 3, Customer(3, 2)), With("update_customer", 1, [email |-> 3, lead |-> 2]),
   With("update_customer", 2, [assigned |-> 2, active |-> TRUE]),
   On("delete_customer", 1), On("delete_customer", 2), On("soft_delete_customer", 2),
   On("restore_customer", 2)}

Followups ==
  {[op |-> "assign_customer", id |-> 2, user |-> 3], On("unassign_customer", 2),
   Moving("update_customer_status", 2, "ARCHIVED"),
   [op |-> "update_followup", id |-> 2, followup |-> TRUE, past |-> FALSE],
   On("delete_customer", 2), New("register", 3, User(3, 3))}

Accounts ==
  {New("register", 3, User(3, 3)), New("register", 4, User(3, 4)),
   With("update_profile", 1, [phone |-> 3]), On("deactivate_user", 1),
   [op |-> "change_password", id |-> 1, old |-> "x", new |-> "y"],
   [op |-> "change_password", id |-> 1, old |-> "x", new |-> "z"]}

DirectoryScenarios ==
  {Contacts, Pipeline, Listings, Agents, Customers, Followups, Accounts}
DirectoryRequests == UNION DirectoryScenarios
=============================================================================
