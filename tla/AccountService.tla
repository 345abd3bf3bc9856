--------------------------- MODULE AccountService ---------------------------
(***************************************************************************)
(* AuthService.register, UserService and UserRepository: the accounts of   *)
(* the agents.  No account is ever deleted.                                *)
(***************************************************************************)
EXTENDS DirectoryTables

UserRole == {"ADMIN", "SALES_MANAGER", "SALES_AGENT"}

\* password: the one whose hash is stored.
UserRow ==
  [email: Emails, phone: Phones, password: Passwords, role: UserRole,
   active: BOOLEAN, verified: BOOLEAN]

UserOps ==
  {"register", "update_profile", "change_password", "update_user", "deactivate_user",
   "reactivate_user"}

\* UserUpdate has neither a role nor an email, UserAdminUpdate no credentials.
ValidUserRequest(r) ==
  /\ r.id \in UserIds
  /\ r.op = "register" => r.row \in UserRow /\ r.row.active /\ ~r.row.verified
  /\ r.op = "update_profile" => DOMAIN r.set \subseteq {"phone"}
  /\ r.op = "update_user" => DOMAIN r.set \subseteq {"role", "active", "verified"}
  /\ r.op = "change_password" => r.old \in Passwords /\ r.new \in Passwords

Register(r) ==
  Handler(TRUE, <<Free("users", "email", r.row.email), Free("users", "phone", r.row.phone)>>,
          "insert", r.row)

\* get_current_user: an inactive account cannot act for itself.
CurrentUser(row) == row.active

UpdateProfile(r, row) ==
  Handler(CurrentUser(row),
          IfSet(r.set, "phone",
                IF r.set.phone = row.phone THEN <<>>
                ELSE <<Free("users", "phone", r.set.phone)>>),
          "orm", r.set)

ChangePassword(r, row) ==
  Handler(CurrentUser(row) /\ row.password = r.old, <<>>, "orm", [password |-> r.new])

UpdateUser(r) == Handler(TRUE, <<>>, "orm", r.set)
DeactivateUser(row) == Handler(row.active, <<>>, "orm", [active |-> FALSE])
ReactivateUser(row) == Handler(~row.active, <<>>, "orm", [active |-> TRUE])

UserHandler(r, row) ==
  CASE r.op = "register"        -> Register(r)
    [] r.op = "update_profile"  -> UpdateProfile(r, row)
    [] r.op = "change_password" -> ChangePassword(r, row)
    [] r.op = "update_user"     -> UpdateUser(r)
    [] r.op = "deactivate_user" -> DeactivateUser(row)
    [] r.op = "reactivate_user" -> ReactivateUser(row)
=============================================================================
