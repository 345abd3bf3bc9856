--------------------------- MODULE MCIntegrations ---------------------------
(***************************************************************************)
(* Instance of Integrations for TLC.                                       *)
(***************************************************************************)
EXTENDS Integrations

Row(name, type, default) ==
  [name |-> name, type |-> type, status |-> "ACTIVE", auth |-> "API_KEY",
   credentials |-> TRUE, configured |-> TRUE, default |-> default, deleted |-> FALSE]

\* The default of a type, another of its type and one of another type.
ThreeIntegrations ==
  [i \in Ids |-> CASE i = 1 -> Row("a", "EMAIL", TRUE)
                   [] i = 2 -> Row("b", "EMAIL", FALSE)
                   [] i = 3 -> Row("c", "SMS", FALSE)
                   [] i = 4 -> Null]

On(op, id) == [op |-> op, id |-> id]
Setting(id, set) == [op |-> "update", id |-> id, set |-> set]
Creating(id, row) == [op |-> "create", id |-> id,
                      row |-> [row EXCEPT !.status = "PENDING_VERIFICATION"]]
Of(op, ids) == [op |-> op, ids |-> ids]

\* Promotions of the default itself, of another and of a new integration.
Promoting ==
  {Setting(1, [default |-> TRUE]), Setting(2, [default |-> TRUE]),
   Setting(1, [name |-> "d", default |-> TRUE]), Creating(4, Row("d", "EMAIL", TRUE)),
   Setting(3, [default |-> TRUE])}

\* Promotions while integrations are switched off, deleted and restored.
Retiring ==
  {Setting(2, [default |-> TRUE]), Setting(1, [default |-> FALSE]), On("disable", 1),
   On("delete", 1), On("restore", 1), Of("bulk_delete", {1, 2}), Setting(1, [default |-> TRUE])}

\* Checks while credentials and configuration change.
Checking ==
  {On("health_check", 1), On("disable", 1), On("enable", 1),
   [op |-> "update_status", id |-> 1, status |-> "DISABLED"],
   Setting(1, [credentials |-> FALSE, auth |-> "NONE"]), Setting(1, [auth |-> "API_KEY"]),
   Setting(1, [configured |-> FALSE])}

Bulk ==
  {Of("bulk_enable", {1, 2, 3}), Of("bulk_disable", {1, 2}), On("update_sync_status", 2),
   On("health_check", 2), Setting(2, [default |-> TRUE]), Setting(3, [name |-> "b"])}

IntegrationScenarios == {Promoting, Retiring, Checking, Bulk}
IntegrationRequests == UNION IntegrationScenarios
=============================================================================
