-------------------------- MODULE MCSettingsCache --------------------------
(***************************************************************************)
(* Instance of SettingsCache for TLC.                                      *)
(***************************************************************************)
EXTENDS SettingsCache

TwoCategories == [k \in Keys |-> IF k = "host" THEN "EMAIL" ELSE "SECURITY"]

Setting(value, encrypted) ==
  [value |-> value, encrypted |-> encrypted, public |-> FALSE, editable |-> TRUE]

\* An open and an encrypted setting, and one that does not exist.
TwoSettings ==
  [k \in Keys |-> CASE k = "host" -> Setting("old", FALSE)
                    [] k = "token" -> Setting("old", TRUE)
                    [] OTHER -> Null]

On(op, keys) == [op |-> op, keys |-> keys]
Updating(op, keys, set) == [op |-> op, keys |-> keys, set |-> set]
Over(op, scope) == [op |-> op, scope |-> scope]

SettingsRequests ==
  {[op |-> "create", keys |-> {"limit"}, row |-> Setting("new", FALSE)],
   Updating("bulk_update", {"host", "token"}, [encrypted |-> TRUE, value |-> "new"]),
   Updating("update", {"token"}, [encrypted |-> FALSE]),
   On("delete", {"host"}), On("bulk_delete", {"token"}),
   Over("reload", Every), Over("load", "EMAIL"), Over("clear", "SECURITY")}
============================================================================
