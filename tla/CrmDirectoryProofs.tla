-------------------------- MODULE CrmDirectoryProofs --------------------------
(***************************************************************************)
(* Proofs about CrmDirectory, for any rows and any set of requests: rows   *)
(* keep their types, unique columns and references; a contact is shared by *)
(* two leads, a listing is given to an inactive agent, only by a commit    *)
(* that another one has overtaken; and what is closed stays closed.        *)
(*                                                                         *)
(* What a request holds is what its service method said of the row it      *)
(* loaded (Opened): the statement, the columns, and the tail of the        *)
(* SELECTs.  So each property of a commit is a fact about the handlers and *)
(* the row that is overwritten.                                            *)
(***************************************************************************)
EXTENDS CrmDirectory, FiniteSetTheorems, SequenceTheorems, TLAPS

----------------------------------------------------------------------------
(* The SELECTs of the service methods.                                     *)

IsChecks(s, n) == s \in Seq(ToSet(s)) /\ Len(s) <= n

\* No SELECT.
LEMMA NoChecks == ASSUME NEW n \in Nat PROVE IsChecks(<<>>, n)
BY DEF IsChecks, ToSet

\* One SELECT.
LEMMA OneCheck ==
  ASSUME NEW x PROVE IsChecks(<<x>>, 1) /\ ToSet(<<x>>) = {x}
<1>1. ToSet(<<x>>) = {x}
  BY DEF ToSet
<1> QED BY <1>1 DEF IsChecks

\* Two SELECTs.
LEMMA TwoChecks ==
  ASSUME NEW x, NEW y PROVE IsChecks(<<x, y>>, 2) /\ ToSet(<<x, y>>) = {x, y}
<1>1. ToSet(<<x, y>>) = {x, y}
  BY DEF ToSet
<1> QED BY <1>1 DEF IsChecks

\* A bound on the number of SELECTs may be relaxed.
LEMMA AtMost ==
  ASSUME NEW s, NEW m \in Nat, NEW n \in Nat, IsChecks(s, m), m <= n
  PROVE  IsChecks(s, n)
<1>1. Len(s) \in Nat
  BY LenProperties DEF IsChecks
<1> QED BY <1>1 DEF IsChecks

\* SELECTs made one after the other.
LEMMA MoreChecks ==
  ASSUME NEW s, NEW t, NEW m \in Nat, NEW n \in Nat, IsChecks(s, m), IsChecks(t, n)
  PROVE  IsChecks(s \o t, m + n) /\ ToSet(s \o t) = ToSet(s) \cup ToSet(t)
<1> DEFINE S == ToSet(s) \cup ToSet(t)
<1>1. s \in Seq(S) /\ t \in Seq(S)
  BY SeqMonotonic DEF IsChecks
<1>2. /\ s \o t \in Seq(S)
      /\ Len(s \o t) = Len(s) + Len(t)
      /\ \A i \in 1 .. Len(s) + Len(t) :
           (s \o t)[i] = IF i <= Len(s) THEN s[i] ELSE t[i - Len(s)]
  BY <1>1, ConcatProperties
<1>3. Len(s) \in Nat /\ Len(t) \in Nat /\ DOMAIN s = 1 .. Len(s) /\ DOMAIN t = 1 .. Len(t)
  BY <1>1, LenProperties
<1>4. DOMAIN (s \o t) = 1 .. (Len(s) + Len(t))
  BY <1>2, LenProperties
<1> DEFINE c == s \o t
<1>5. ToSet(c) \subseteq S
  <2>1. \A i \in DOMAIN c : c[i] \in S
    BY <1>2, <1>4, ElementOfSeq, LenProperties
  <2> QED BY <2>1 DEF ToSet
<1>6. ToSet(s) \subseteq ToSet(c)
  <2>1. \A i \in DOMAIN s : i \in DOMAIN c /\ c[i] = s[i]
    BY <1>2, <1>3, <1>4
  <2> HIDE DEF c
  <2> QED BY <2>1 DEF ToSet
<1>7. ToSet(t) \subseteq ToSet(c)
  <2>1. \A i \in DOMAIN t : i + Len(s) \in DOMAIN c /\ c[i + Len(s)] = t[i]
    BY <1>2, <1>3, <1>4
  <2> HIDE DEF c
  <2> QED BY <2>1 DEF ToSet
<1>8. ToSet(c) = S
  BY <1>5, <1>6, <1>7
<1>9. Len(s) <= m /\ Len(t) <= n
  BY DEF IsChecks
<1>10. Len(c) <= m + n
  BY <1>2, <1>3, <1>9
<1> QED BY <1>2, <1>8, <1>10 DEF IsChecks

\* A SELECT that an optional value makes unnecessary.
LEMMA OptionalCheck ==
  ASSUME NEW value, NEW check
  PROVE  /\ IsChecks(IfGiven(value, check), 1)
         /\ value # Null => check \in ToSet(IfGiven(value, check))
<1>1. CASE value = Null
  <2>1. IfGiven(value, check) = <<>>
    BY <1>1 DEF IfGiven
  <2> QED BY <1>1, <2>1, NoChecks
<1>2. CASE value # Null
  <2>1. IfGiven(value, check) = <<check>>
    BY <1>2 DEF IfGiven
  <2> QED BY <2>1, OneCheck
<1> QED BY <1>1, <1>2

\* SELECTs for a column that is set.
LEMMA ColumnChecks ==
  ASSUME NEW set, NEW column, NEW checks, NEW n \in Nat, IsChecks(checks, n)
  PROVE  IsChecks(IfSet(set, column, checks), n)
<1>1. IsChecks(<<>>, n)
  BY NoChecks
<1> QED BY <1>1 DEF IfSet
----------------------------------------------------------------------------
(* The requests, by the table they write.                                  *)

\* No two services share an operation.
LEMMA OpsDisjoint ==
  /\ \A op \in LeadOps : op \notin UserOps
  /\ \A op \in PropertyOps : op \notin UserOps /\ op \notin LeadOps
  /\ \A op \in CustomerOps : op \notin UserOps /\ op \notin LeadOps /\ op \notin PropertyOps
<1>1. \A op \in LeadOps : op \notin UserOps
  BY DEF UserOps, LeadOps
<1>2. \A op \in PropertyOps : op \notin UserOps
  BY DEF UserOps, PropertyOps
<1>3. \A op \in PropertyOps : op \notin LeadOps
  BY DEF LeadOps, PropertyOps
<1>4. \A op \in CustomerOps : op \notin UserOps
  BY DEF UserOps, CustomerOps
<1>5. \A op \in CustomerOps : op \notin LeadOps
  BY DEF LeadOps, CustomerOps
<1>6. \A op \in CustomerOps : op \notin PropertyOps
  BY DEF PropertyOps, CustomerOps
<1> QED BY <1>1, <1>2, <1>3, <1>4, <1>5, <1>6

\* Every request is one of a service, on a row of that service's table.
LEMMA RequestKinds ==
  ASSUME NEW r \in Requests
  PROVE  /\ \/ r.op \in UserOps /\ ValidUserRequest(r)
            \/ r.op \in LeadOps /\ ValidLeadRequest(r)
            \/ r.op \in PropertyOps /\ ValidPropertyRequest(r)
            \/ r.op \in CustomerOps /\ ValidCustomerRequest(r)
         /\ r.op \in UserOps => Table(r) = "users"
         /\ r.op \in LeadOps => Table(r) = "leads"
         /\ r.op \in PropertyOps => Table(r) = "properties"
         /\ r.op \in CustomerOps => Table(r) = "customers"
<1>1. ValidRequest(r)
  BY RequestsAssumption
<1>2. ASSUME r.op \in UserOps PROVE Table(r) = "users"
  <2>1. r.op \notin LeadOps /\ r.op \notin PropertyOps /\ r.op \notin CustomerOps
    BY <1>2, OpsDisjoint
  <2> QED BY <1>2, <2>1 DEF Table
<1>3. ASSUME r.op \in LeadOps PROVE Table(r) = "leads"
  <2>1. r.op \notin UserOps /\ r.op \notin PropertyOps /\ r.op \notin CustomerOps
    BY <1>3, OpsDisjoint
  <2> QED BY <1>3, <2>1 DEF Table
<1>4. ASSUME r.op \in PropertyOps PROVE Table(r) = "properties"
  <2>1. r.op \notin UserOps /\ r.op \notin LeadOps /\ r.op \notin CustomerOps
    BY <1>4, OpsDisjoint
  <2> QED BY <1>4, <2>1 DEF Table
<1>5. ASSUME r.op \in CustomerOps PROVE Table(r) = "customers"
  <2>1. r.op \notin UserOps /\ r.op \notin LeadOps /\ r.op \notin PropertyOps
    BY <1>5, OpsDisjoint
  <2> QED BY <1>5, <2>1 DEF Table
<1> QED BY <1>1, <1>2, <1>3, <1>4, <1>5 DEF ValidRequest

\* The service that handles it.
LEMMA ServiceOf ==
  ASSUME NEW r, NEW row
  PROVE  /\ r.op \in UserOps => Service(r, row) = UserHandler(r, row)
         /\ r.op \in LeadOps => Service(r, row) = LeadHandler(r, row)
         /\ r.op \in PropertyOps => Service(r, row) = PropertyHandler(r, row)
         /\ r.op \in CustomerOps => Service(r, row) = CustomerHandler(r, row)
<1>1. ASSUME r.op \in UserOps PROVE Service(r, row) = UserHandler(r, row)
  <2>1. r.op \notin LeadOps /\ r.op \notin PropertyOps /\ r.op \notin CustomerOps
    BY <1>1, OpsDisjoint
  <2> QED BY <1>1, <2>1 DEF Service
<1>2. ASSUME r.op \in LeadOps PROVE Service(r, row) = LeadHandler(r, row)
  <2>1. r.op \notin UserOps /\ r.op \notin PropertyOps /\ r.op \notin CustomerOps
    BY <1>2, OpsDisjoint
  <2> QED BY <1>2, <2>1 DEF Service
<1>3. ASSUME r.op \in PropertyOps PROVE Service(r, row) = PropertyHandler(r, row)
  <2>1. r.op \notin UserOps /\ r.op \notin LeadOps /\ r.op \notin CustomerOps
    BY <1>3, OpsDisjoint
  <2> QED BY <1>3, <2>1 DEF Service
<1>4. ASSUME r.op \in CustomerOps PROVE Service(r, row) = CustomerHandler(r, row)
  <2>1. r.op \notin UserOps /\ r.op \notin LeadOps /\ r.op \notin PropertyOps
    BY <1>4, OpsDisjoint
  <2> QED BY <1>4, <2>1 DEF Service
<1> QED BY <1>1, <1>2, <1>3, <1>4

\* The table of a request and the key of its row.
LEMMA RequestRow ==
  ASSUME NEW r \in Requests
  PROVE  /\ Table(r) \in {"users", "leads", "properties", "customers"}
         /\ r.id \in Ids[Table(r)]
<1>1. CASE r.op \in UserOps /\ ValidUserRequest(r)
  BY <1>1, RequestKinds DEF ValidUserRequest, Ids
<1>2. CASE r.op \in LeadOps /\ ValidLeadRequest(r)
  BY <1>2, RequestKinds DEF ValidLeadRequest, Ids
<1>3. CASE r.op \in PropertyOps /\ ValidPropertyRequest(r)
  BY <1>3, RequestKinds DEF ValidPropertyRequest, Ids
<1>4. CASE r.op \in CustomerOps /\ ValidCustomerRequest(r)
  BY <1>4, RequestKinds DEF ValidCustomerRequest, Ids
<1> QED BY <1>1, <1>2, <1>3, <1>4, RequestKinds

\* An account service makes at most two SELECTs.
LEMMA UserChecks ==
  ASSUME NEW r, NEW row, r.op \in UserOps
  PROVE  IsChecks(UserHandler(r, row).checks, 2)
<1>1. CASE r.op = "register"
  <2> DEFINE email == Free("users", "email", r.row.email)
             phone == Free("users", "phone", r.row.phone)
  <2>1. UserHandler(r, row).checks = <<email, phone>>
    BY <1>1 DEF UserHandler, Register, Handler
  <2> HIDE DEF email, phone
  <2>2. IsChecks(<<email, phone>>, 2)
    BY TwoChecks
  <2> QED BY <2>1, <2>2
<1>2. CASE r.op = "update_profile"
  <2> DEFINE phone == Free("users", "phone", r.set.phone)
             changed == IF r.set.phone = row.phone THEN <<>> ELSE <<phone>>
  <2>1. UserHandler(r, row).checks = IfSet(r.set, "phone", changed)
    BY <1>2 DEF UserHandler, UpdateProfile, Handler
  <2> HIDE DEF phone
  <2>2. IsChecks(<<>>, 2) /\ IsChecks(<<phone>>, 2)
    BY NoChecks, OneCheck, AtMost
  <2>3. IsChecks(changed, 2)
    BY <2>2
  <2> HIDE DEF changed
  <2> QED BY <2>1, <2>3, ColumnChecks
<1>3. CASE r.op \notin {"register", "update_profile"}
  <2>1. UserHandler(r, row).checks = <<>>
    BY <1>3 DEF UserHandler, UserOps, ChangePassword, UpdateUser, DeactivateUser,
                ReactivateUser, Handler
  <2> QED BY <2>1, NoChecks
<1> QED BY <1>1, <1>2, <1>3

\* The SELECTs for the contacts of a lead that an update changes.
LEMMA ContactChecks ==
  ASSUME NEW r, NEW row
  PROVE  /\ IsChecks(LeadContactChecks(r, row), 2)
         /\ \A column \in {"phone", "email"} :
              column \in DOMAIN r.set /\ r.set[column] # row[column] /\ r.set[column] # Null
                => Free("leads", column, r.set[column]) \in ToSet(LeadContactChecks(r, row))
<1> DEFINE Given(column) == IfGiven(r.set[column], Free("leads", column, r.set[column]))
           Changed(column) == IF r.set[column] = row[column] THEN <<>> ELSE Given(column)
           Checked(column) == IfSet(r.set, column, Changed(column))
<1>1. ASSUME NEW column
      PROVE  /\ IsChecks(Checked(column), 1)
             /\ column \in DOMAIN r.set /\ r.set[column] # row[column] /\ r.set[column] # Null
                  => Free("leads", column, r.set[column]) \in ToSet(Checked(column))
  <2>1. /\ IsChecks(Given(column), 1)
        /\ r.set[column] # Null
             => Free("leads", column, r.set[column]) \in ToSet(Given(column))
    BY OptionalCheck
  <2>2. IsChecks(<<>>, 1)
    BY NoChecks
  <2>3. IsChecks(Changed(column), 1)
    BY <2>1, <2>2
  <2>4. IsChecks(Checked(column), 1)
    <3> HIDE DEF Changed
    <3> QED BY <2>3, ColumnChecks
  <2> QED BY <2>1, <2>4 DEF IfSet
<1>2. LeadContactChecks(r, row) = Checked("phone") \o Checked("email")
  BY DEF LeadContactChecks
<1> HIDE DEF Checked
<1>3. /\ IsChecks(Checked("phone") \o Checked("email"), 1 + 1)
      /\ ToSet(Checked("phone") \o Checked("email"))
           = ToSet(Checked("phone")) \cup ToSet(Checked("email"))
  BY <1>1, MoreChecks
<1> QED BY <1>1, <1>2, <1>3

\* The SELECTs for the contacts of a new lead.
LEMMA NewContactChecks ==
  ASSUME NEW r
  PROVE  /\ IsChecks(CreateLead(r).checks, 2)
         /\ Free("leads", "phone", r.row.phone) \in ToSet(CreateLead(r).checks)
         /\ r.row.email # Null
              => Free("leads", "email", r.row.email) \in ToSet(CreateLead(r).checks)
<1> DEFINE phone == Free("leads", "phone", r.row.phone)
           email == Free("leads", "email", r.row.email)
<1>1. CreateLead(r).checks = <<phone>> \o IfGiven(r.row.email, email)
  BY DEF CreateLead, Handler
<1> HIDE DEF phone, email
<1>2. IsChecks(<<phone>>, 1) /\ ToSet(<<phone>>) = {phone}
  BY OneCheck
<1>3. /\ IsChecks(IfGiven(r.row.email, email), 1)
      /\ r.row.email # Null => email \in ToSet(IfGiven(r.row.email, email))
  BY OptionalCheck
<1>4. /\ IsChecks(<<phone>> \o IfGiven(r.row.email, email), 1 + 1)
      /\ ToSet(<<phone>> \o IfGiven(r.row.email, email))
           = ToSet(<<phone>>) \cup ToSet(IfGiven(r.row.email, email))
  BY <1>2, <1>3, MoreChecks
<1> QED BY <1>1, <1>2, <1>3, <1>4 DEF phone, email

\* A lead service makes at most two SELECTs.
LEMMA LeadChecks ==
  ASSUME NEW r, NEW row, r.op \in LeadOps
  PROVE  IsChecks(LeadHandler(r, row).checks, 2)
<1>1. CASE r.op = "create_lead"
  <2>1. LeadHandler(r, row) = CreateLead(r)
    BY <1>1 DEF LeadHandler
  <2> QED BY <2>1, NewContactChecks
<1>2. CASE r.op = "update_lead"
  <2>1. LeadHandler(r, row).checks = LeadContactChecks(r, row)
    BY <1>2 DEF LeadHandler, UpdateLead, Handler
  <2> QED BY <2>1, ContactChecks
<1>3. CASE r.op \notin {"create_lead", "update_lead"}
  <2>1. LeadHandler(r, row).checks = <<>>
    BY <1>3 DEF LeadHandler, LeadOps, DeleteLead, AssignLead, ChangeStatus,
                ChangePriority, Handler
  <2> QED BY <2>1, NoChecks
<1> QED BY <1>1, <1>2, <1>3

\* The SELECTs for the agent and the code of a new property.
LEMMA NewPropertyChecks ==
  ASSUME NEW r
  PROVE  /\ IsChecks(CreateProperty(r).checks, 2)
         /\ r.row.agent # Null
              => Active("users", r.row.agent) \in ToSet(CreateProperty(r).checks)
<1> DEFINE agent == Active("users", r.row.agent)
           code == IF r.row.code = Null THEN Generate
                   ELSE Free("properties", "code", r.row.code)
<1>1. CreateProperty(r).checks = IfGiven(r.row.agent, agent) \o <<code>>
  BY DEF CreateProperty, Handler
<1> HIDE DEF agent, code
<1>2. IsChecks(<<code>>, 1)
  BY OneCheck
<1>3. /\ IsChecks(IfGiven(r.row.agent, agent), 1)
      /\ r.row.agent # Null => agent \in ToSet(IfGiven(r.row.agent, agent))
  BY OptionalCheck
<1>4. /\ IsChecks(IfGiven(r.row.agent, agent) \o <<code>>, 1 + 1)
      /\ ToSet(IfGiven(r.row.agent, agent) \o <<code>>)
           = ToSet(IfGiven(r.row.agent, agent)) \cup ToSet(<<code>>)
  BY <1>2, <1>3, MoreChecks
<1> QED BY <1>1, <1>2, <1>3, <1>4 DEF agent

\* A property service makes at most two SELECTs.
LEMMA PropertyChecks ==
  ASSUME NEW r, NEW row, r.op \in PropertyOps
  PROVE  IsChecks(PropertyHandler(r, row).checks, 2)
<1>1. CASE r.op = "create_property"
  <2>1. PropertyHandler(r, row) = CreateProperty(r)
    BY <1>1 DEF PropertyHandler
  <2> QED BY <2>1, NewPropertyChecks
<1>2. CASE r.op = "assign_property"
  <2> DEFINE agent == Active("users", r.agent)
  <2>1. PropertyHandler(r, row).checks = <<agent>>
    BY <1>2 DEF PropertyHandler, AssignProperty, Handler
  <2> HIDE DEF agent
  <2>2. IsChecks(<<agent>>, 2)
    BY OneCheck, AtMost
  <2> QED BY <2>1, <2>2
<1>3. CASE r.op \notin {"create_property", "assign_property"}
  <2>1. PropertyHandler(r, row).checks = <<>>
    BY <1>3 DEF PropertyHandler, PropertyOps, UpdateProperty, UpdateStatus,
                SoftDeleteProperty, ReactivateProperty, Handler
  <2> QED BY <2>1, NoChecks
<1> QED BY <1>1, <1>2, <1>3

\* A customer service makes at most three SELECTs.
LEMMA CustomerChecks ==
  ASSUME NEW r, NEW row, r.op \in CustomerOps
  PROVE  IsChecks(CustomerHandler(r, row).checks, 3)
<1>1. \A email : IsChecks(EmailAvailable(email), 1)
  BY OptionalCheck DEF EmailAvailable
<1>2. \A lead : IsChecks(LeadExists(lead), 1)
  BY OptionalCheck DEF LeadExists
<1>3. \A user : IsChecks(UserExists(user), 1)
  BY OptionalCheck DEF UserExists
<1>4. ASSUME NEW s, NEW t, NEW u, IsChecks(s, 1), IsChecks(t, 1), IsChecks(u, 1)
      PROVE  IsChecks(s \o t \o u, 3)
  <2>1. IsChecks(s \o t, 1 + 1)
    BY <1>4, MoreChecks
  <2>2. IsChecks(s \o t, 2)
    BY <2>1
  <2>3. IsChecks((s \o t) \o u, 2 + 1)
    BY <1>4, <2>2, MoreChecks
  <2> QED BY <2>3
<1>5. CASE r.op = "create_customer"
  <2>1. CustomerHandler(r, row).checks =
          EmailAvailable(r.row.email) \o LeadExists(r.row.lead) \o UserExists(r.row.assigned)
    BY <1>5 DEF CustomerHandler, CreateCustomer, Handler
  <2> QED BY <1>1, <1>2, <1>3, <1>4, <2>1
<1>6. CASE r.op = "update_customer"
  <2>1. CustomerHandler(r, row).checks =
          IfSet(r.set, "email", EmailAvailable(r.set.email))
            \o IfSet(r.set, "lead", LeadExists(r.set.lead))
            \o IfSet(r.set, "assigned", UserExists(r.set.assigned))
    BY <1>6 DEF CustomerHandler, UpdateCustomer, Handler
  <2>2. IsChecks(IfSet(r.set, "email", EmailAvailable(r.set.email)), 1)
    BY <1>1, ColumnChecks
  <2>3. IsChecks(IfSet(r.set, "lead", LeadExists(r.set.lead)), 1)
    BY <1>2, ColumnChecks
  <2>4. IsChecks(IfSet(r.set, "assigned", UserExists(r.set.assigned)), 1)
    BY <1>3, ColumnChecks
  <2> QED BY <1>4, <2>1, <2>2, <2>3, <2>4
<1>7. CASE r.op = "assign_customer"
  <2>1. CustomerHandler(r, row).checks = UserExists(r.user)
    BY <1>7 DEF CustomerHandler, AssignCustomer, Handler
  <2>2. IsChecks(UserExists(r.user), 1)
    BY <1>3
  <2> QED BY <2>1, <2>2, AtMost
<1>8. CASE r.op \notin {"create_customer", "update_customer", "assign_customer"}
  <2>1. CustomerHandler(r, row).checks = <<>>
    BY <1>8 DEF CustomerHandler, CustomerOps, DeleteCustomer, SoftDeleteCustomer,
                RestoreCustomer, UnassignCustomer, UpdateCustomerStatus,
                UpdateFollowup, Handler
  <2> QED BY <2>1, NoChecks
<1> QED BY <1>5, <1>6, <1>7, <1>8

\* No service makes more than three SELECTs.
LEMMA ServiceChecks ==
  ASSUME NEW r \in Requests, NEW row
  PROVE  IsChecks(Service(r, row).checks, 3)
<1>1. CASE r.op \in UserOps
  BY <1>1, UserChecks, ServiceOf, AtMost
<1>2. CASE r.op \in LeadOps
  BY <1>2, LeadChecks, ServiceOf, AtMost
<1>3. CASE r.op \in PropertyOps
  BY <1>3, PropertyChecks, ServiceOf, AtMost
<1>4. CASE r.op \in CustomerOps
  BY <1>4, CustomerChecks, ServiceOf
<1> QED BY <1>1, <1>2, <1>3, <1>4, RequestKinds
----------------------------------------------------------------------------
(* The invariant.                                                          *)

IsSession(x) ==
  x = [step |-> x.step, row |-> x.row, checks |-> x.checks, statement |-> x.statement,
       set |-> x.set]

Closed(x) == x.step \in {"idle", "ended"} /\ x.row = Null /\ x.checks = <<>>

\* An open transaction holds what its service method said of its row: only
\* a drawn code is not of the request.
Opened(r, x) ==
  LET service == Service(r, x.row) IN
  /\ x.step = "open"
  /\ IF r.op \in Creations THEN x.row = Null ELSE x.row # Null /\ x.row \in RowType[Table(r)]
  /\ service.admits
  /\ x.checks \in Seq(ToSet(service.checks))
  /\ Len(x.checks) <= 3
  /\ x.statement = service.statement
  /\ DOMAIN x.set = DOMAIN service.set
  /\ \A c \in DOMAIN x.set : c = "code" \/ x.set[c] = service.set[c]

Inv ==
  /\ Consistent(db)
  /\ session = [r \in Requests |-> session[r]]
  /\ \A r \in Requests :
       IsSession(session[r]) /\ (Closed(session[r]) \/ Opened(r, session[r]))

\* The row of a request is a row of its table.
LEMMA TableTyped ==
  ASSUME NEW tables \in Rows, NEW r \in Requests
  PROVE  tables[Table(r)][r.id] \in RowType[Table(r)] \cup {Null}
<1>1. CASE Table(r) = "users"
  BY <1>1, RequestRow DEF Rows, Ids, RowType
<1>2. CASE Table(r) = "leads"
  BY <1>2, RequestRow DEF Rows, Ids, RowType
<1>3. CASE Table(r) = "properties"
  BY <1>3, RequestRow DEF Rows, Ids, RowType
<1>4. CASE Table(r) = "customers"
  BY <1>4, RequestRow DEF Rows, Ids, RowType
<1> QED BY <1>1, <1>2, <1>3, <1>4, RequestRow

\* So is the one that is committed.
LEMMA RowTyped ==
  ASSUME Inv, NEW r \in Requests
  PROVE  Current(r) \in RowType[Table(r)] \cup {Null}
BY TableTyped DEF Current, Inv, Consistent

\* A request that moves on keeps the invariant.
LEMMA GotoInv ==
  ASSUME Inv, NEW r \in Requests, NEW x, Goto(r, x), IsSession(x),
         Closed(x) \/ Opened(r, x)
  PROVE  Inv'
<1>1. db' = db /\ session' = [session EXCEPT ![r] = x]
  BY DEF Goto
<1>2. Consistent(db)'
  BY <1>1 DEF Inv
<1>3. session = [q \in Requests |-> session[q]]
  BY DEF Inv
<1>4. session' = [q \in Requests |-> session'[q]]
  BY <1>1, <1>3
<1>5. session'[r] = x /\ \A q \in Requests : q # r => session'[q] = session[q]
  BY <1>1, <1>3
<1>6. ASSUME NEW q \in Requests
      PROVE  IsSession(session'[q]) /\ (Closed(session'[q]) \/ Opened(q, session'[q]))
  <2>1. CASE q = r
    BY <1>5, <2>1
  <2>2. CASE q # r
    BY <1>5, <2>2 DEF Inv
  <2> QED BY <2>1, <2>2
<1> QED BY <1>2, <1>4, <1>6 DEF Inv

\* A session that has not begun or has ended.
LEMMA FreshClosed ==
  \A step \in {"idle", "ended"} : IsSession(Fresh(step)) /\ Closed(Fresh(step))
BY DEF Fresh, IsSession, Closed

\* A transaction that begins keeps the invariant.
LEMMA OpenInv ==
  ASSUME Inv, NEW r \in Requests, NEW row, Open(r, row),
         IF r.op \in Creations THEN row = Null ELSE row # Null /\ row \in RowType[Table(r)]
  PROVE  Inv'
<1> DEFINE service == Service(r, row)
           x == [step |-> "open", row |-> row, checks |-> service.checks,
                 statement |-> service.statement, set |-> service.set]
<1>1. service.admits /\ Goto(r, x)
  BY DEF Open
<1>2. IsChecks(service.checks, 3)
  BY ServiceChecks
<1>3. /\ IsSession(x) /\ x.step = "open" /\ x.row = row /\ x.checks = service.checks
      /\ x.statement = service.statement /\ x.set = service.set
  BY DEF IsSession
<1> HIDE DEF x
<1>4. Opened(r, x)
  BY <1>1, <1>2, <1>3 DEF Opened, IsChecks
<1> QED BY <1>1, <1>3, <1>4, GotoInv

\* A check that is passed keeps the invariant.
LEMMA CheckInv == ASSUME Inv, NEW r \in Requests, Check(r) PROVE Inv'
<1> DEFINE x == session[r]
           service == Service(r, x.row)
<1>1. IsSession(x) /\ Opened(r, x) /\ x.checks # <<>>
  BY DEF Check, At, Inv, Closed
<1> HIDE DEF x
<1>2. /\ Tail(x.checks) \in Seq(ToSet(service.checks))
      /\ Len(Tail(x.checks)) <= 3
  <2>1. x.checks \in Seq(ToSet(service.checks)) /\ Len(x.checks) <= 3
    BY <1>1 DEF Opened
  <2>2. Len(x.checks) \in Nat /\ Len(Tail(x.checks)) = Len(x.checks) - 1
        /\ Tail(x.checks) \in Seq(ToSet(service.checks))
    BY <1>1, <2>1, HeadTailProperties, LenProperties
  <2> QED BY <2>1, <2>2
<1>3. ASSUME Goto(r, [x EXCEPT !.checks = Tail(@)])
      PROVE  Inv'
  <2> DEFINE y == [x EXCEPT !.checks = Tail(@)]
  <2>1. /\ IsSession(y) /\ y.step = x.step /\ y.row = x.row /\ y.checks = Tail(x.checks)
        /\ y.statement = x.statement /\ y.set = x.set
    BY <1>1 DEF IsSession
  <2> HIDE DEF y
  <2>2. Opened(r, y)
    BY <1>1, <1>2, <2>1 DEF Opened
  <2>3. Goto(r, y)
    BY <1>3 DEF y
  <2> QED BY <2>1, <2>2, <2>3, GotoInv
<1>4. ASSUME NEW code, Goto(r, [x EXCEPT !.checks = Tail(@), !.set.code = code])
      PROVE  Inv'
  <2> DEFINE set == [x.set EXCEPT !.code = code]
             y == [x EXCEPT !.checks = Tail(@), !.set.code = code]
             z == [step |-> x.step, row |-> x.row, checks |-> Tail(x.checks),
                   statement |-> x.statement, set |-> set]
  <2>1. y = z
    <3>1. x = [step |-> x.step, row |-> x.row, checks |-> x.checks,
               statement |-> x.statement, set |-> x.set]
      BY <1>1 DEF IsSession
    <3>2. y = [[x EXCEPT !.checks = Tail(x.checks)] EXCEPT !.set = [x.set EXCEPT !.code = code]]
      BY <3>1
    <3> HIDE DEF set, y
    <3>3. y = [[x EXCEPT !.checks = Tail(x.checks)] EXCEPT !.set = set]
      BY <3>2 DEF set
    <3> QED BY <3>1, <3>3
  <2>2. /\ IsSession(y) /\ y.step = x.step /\ y.row = x.row /\ y.checks = Tail(x.checks)
        /\ y.statement = x.statement /\ y.set = set
    <3> HIDE DEF y, set
    <3> QED BY <2>1 DEF IsSession
  <2>3. DOMAIN set = DOMAIN x.set /\ \A c \in DOMAIN x.set : c = "code" \/ set[c] = x.set[c]
    OBVIOUS
  <2>4. Goto(r, y)
    BY <1>4
  <2> HIDE DEF y, set
  <2>5. Opened(r, y)
    BY <1>1, <1>2, <2>2, <2>3 DEF Opened
  <2> QED BY <2>2, <2>4, <2>5, GotoInv
<1>5. \/ \E code \in Codes : Goto(r, [x EXCEPT !.checks = Tail(@), !.set.code = code])
      \/ Goto(r, [x EXCEPT !.checks = Tail(@)])
  BY DEF Check, GenerateCode, x
<1> QED BY <1>3, <1>4, <1>5

\* A write that is accepted keeps the invariant, and is the row it writes.
LEMMA WriteInv ==
  ASSUME Inv, NEW r \in Requests, Write(r)
  PROVE  /\ Inv'
         /\ db'[Table(r)][r.id] = Written(r)
         /\ \A t \in DOMAIN Ids : t # Table(r) => db'[t] = db[t]
         /\ \A i \in Ids[Table(r)] : i # r.id => db'[Table(r)][i] = db[Table(r)][i]
<1> DEFINE table == Table(r)
           written == Written(r)
<1>1. db' = [db EXCEPT ![table][r.id] = written]
  BY DEF Write
<1>2. Consistent(db)'
  BY DEF Write, Accepted
<1>3. session' = [session EXCEPT ![r] = Fresh("ended")]
  BY DEF Write
<1>4. IsSession(Fresh("ended")) /\ Closed(Fresh("ended"))
  BY FreshClosed
<1>5. session = [q \in Requests |-> session[q]]
  BY DEF Inv
<1>6. session' = [q \in Requests |-> session'[q]]
  BY <1>3, <1>5
<1>7. session'[r] = Fresh("ended") /\ \A q \in Requests : q # r => session'[q] = session[q]
  BY <1>3, <1>5
<1>8. ASSUME NEW q \in Requests
      PROVE  IsSession(session'[q]) /\ (Closed(session'[q]) \/ Opened(q, session'[q]))
  <2>1. CASE q = r
    BY <1>4, <1>7, <2>1
  <2>2. CASE q # r
    BY <1>7, <2>2 DEF Inv
  <2> QED BY <2>1, <2>2
<1>9. Inv'
  BY <1>2, <1>6, <1>8 DEF Inv
<1>10. table \in {"users", "leads", "properties", "customers"} /\ r.id \in Ids[table]
  BY RequestRow
<1>11. db \in Rows
  BY DEF Inv, Consistent
<1> HIDE DEF table, written
<1>12. DOMAIN db[table] = Ids[table]
  BY <1>10, <1>11 DEF Rows, Ids
<1>13. DOMAIN db = {"users", "leads", "properties", "customers"}
  BY <1>11 DEF Rows
<1>14. DOMAIN Ids = {"users", "leads", "properties", "customers"}
  BY DEF Ids
<1>15. db'[table] = [db[table] EXCEPT ![r.id] = written]
  BY <1>1, <1>10, <1>13
<1>16. \A t \in DOMAIN Ids : t # table => db'[t] = db[t]
  BY <1>1, <1>13, <1>14
<1>17. /\ db'[table][r.id] = written
       /\ \A i \in Ids[table] : i # r.id => db'[table][i] = db[table][i]
  BY <1>10, <1>12, <1>15
<1> QED BY <1>9, <1>16, <1>17 DEF table, written

\* Every step keeps the invariant.
LEMMA InvStep == ASSUME Inv, [Next]_vars PROVE Inv'
<1>1. CASE UNCHANGED vars
  BY <1>1 DEF vars, Inv
<1>2. ASSUME NEW r \in Requests, Begin(r) PROVE Inv'
  BY <1>2, OpenInv DEF Begin
<1>3. ASSUME NEW r \in Requests, Load(r) PROVE Inv'
  BY <1>3, OpenInv, RowTyped DEF Load
<1>4. ASSUME NEW r \in Requests, Abandon(r) PROVE Inv'
  BY <1>4, GotoInv, FreshClosed DEF Abandon
<1> QED BY <1>1, <1>2, <1>3, <1>4, CheckInv, WriteInv DEF Next

\* The invariant holds initially.
LEMMA InvInit == Init => Inv
<1> SUFFICES ASSUME Init PROVE Inv
  OBVIOUS
<1>1. Consistent(db)
  BY SeedAssumption DEF Init
<1>2. PICK chosen \in Scenarios :
        session = [r \in Requests |-> Fresh(IF r \in chosen THEN "idle" ELSE "ended")]
  BY DEF Init
<1>3. \A r \in Requests : IsSession(session[r]) /\ Closed(session[r])
  BY <1>2, FreshClosed
<1> QED BY <1>1, <1>2, <1>3 DEF Inv

\* The invariant holds in every state.
LEMMA InvHolds == Spec => []Inv
<1>1. Inv /\ [Next]_vars => Inv'
  BY InvStep
<1> QED BY <1>1, InvInit, PTL DEF Spec

\* Unique columns stay unique and references refer to rows however requests
\* interleave; a request holds a row of its own table and at most three
\* checks.
THEOREM DirectoryTypeCorrect == Spec => []TypeOK
<1>1. Inv => TypeOK
  <2> SUFFICES ASSUME Inv, NEW r \in Requests
               PROVE  /\ session[r].step \in {"idle", "open", "ended"}
                      /\ Loaded(r) \in RowType[Table(r)] \cup {Null}
                      /\ Len(session[r].checks) <= 3
    BY DEF Inv, TypeOK
  <2>1. CASE Closed(session[r])
    <3>1. Len(<<>>) = 0
      BY EmptySeq
    <3> QED BY <2>1, <3>1 DEF Closed, Loaded
  <2>2. CASE Opened(r, session[r])
    BY <2>2 DEF Opened, Loaded
  <2> QED BY <2>1, <2>2 DEF Inv
<1> QED BY <1>1, InvHolds, PTL
----------------------------------------------------------------------------
(* Commits.                                                                *)

\* The only step that commits a request is its write.
LEMMA CommitIsWrite ==
  ASSUME Inv, [Next]_vars, NEW r \in Requests, Commits(r)
  PROVE  Write(r)
<1>1. db' # db /\ session[r].step = "open" /\ session'[r].step = "ended"
  BY DEF Commits, At
<1>2. PICK q \in Requests : Write(q)
  BY <1>1 DEF Next, vars, Begin, Load, Open, Check, GenerateCode, Abandon, Goto
<1>3. session' = [session EXCEPT ![q] = Fresh("ended")]
  BY <1>2 DEF Write
<1>4. q # r => session'[r] = session[r]
  BY <1>3
<1> QED BY <1>1, <1>2, <1>4

\* A row changes only by the commit of a request for it.
LEMMA ChangeIsCommit ==
  ASSUME Inv, [Next]_vars, db' # db
  PROVE  \E r \in Requests : Write(r) /\ Commits(r)
<1>1. PICK r \in Requests : Write(r)
  BY DEF Next, vars, Begin, Load, Open, Check, GenerateCode, Abandon, Goto
<1>2. session' = [session EXCEPT ![r] = Fresh("ended")] /\ At(r, "open")
  BY <1>1 DEF Write
<1>3. session'[r] = Fresh("ended")
  BY <1>2 DEF Inv
<1> QED BY <1>1, <1>2, <1>3 DEF Commits, Fresh

\* A request that commits has said what it writes of the row it loaded.
LEMMA WriterOpened ==
  ASSUME Inv, NEW r \in Requests, Write(r)
  PROVE  Opened(r, session[r]) /\ (r.op \in Creations <=> Current(r) = Null)
BY DEF Write, At, Inv, Closed

\* Requests that create insert their row, and the others do not insert.
LEMMA Statements ==
  ASSUME NEW r \in Requests, NEW row
  PROVE  Service(r, row).statement = "insert" <=> r.op \in Creations
<1>1. CASE r.op \in UserOps
  <2>1. Service(r, row) = UserHandler(r, row)
    BY <1>1, ServiceOf
  <2>2. UserHandler(r, row).statement = "insert" <=> r.op = "register"
    BY <1>1 DEF UserHandler, UserOps, Register, UpdateProfile, ChangePassword, UpdateUser,
                DeactivateUser, ReactivateUser, Handler
  <2>3. r.op \in Creations <=> r.op = "register"
    BY <1>1 DEF Creations, UserOps
  <2> QED BY <2>1, <2>2, <2>3
<1>2. CASE r.op \in LeadOps
  <2>1. Service(r, row) = LeadHandler(r, row)
    BY <1>2, ServiceOf
  <2>2. LeadHandler(r, row).statement = "insert" <=> r.op = "create_lead"
    BY <1>2 DEF LeadHandler, LeadOps, CreateLead, UpdateLead, DeleteLead, AssignLead,
                ChangeStatus, ChangePriority, Handler
  <2>3. r.op \in Creations <=> r.op = "create_lead"
    BY <1>2 DEF Creations, LeadOps
  <2> QED BY <2>1, <2>2, <2>3
<1>3. CASE r.op \in PropertyOps
  <2>1. Service(r, row) = PropertyHandler(r, row)
    BY <1>3, ServiceOf
  <2>2. PropertyHandler(r, row).statement = "insert" <=> r.op = "create_property"
    BY <1>3 DEF PropertyHandler, PropertyOps, CreateProperty, UpdateProperty, UpdateStatus,
                AssignProperty, SoftDeleteProperty, ReactivateProperty, Handler
  <2>3. r.op \in Creations <=> r.op = "create_property"
    BY <1>3 DEF Creations, PropertyOps
  <2> QED BY <2>1, <2>2, <2>3
<1>4. CASE r.op \in CustomerOps
  <2>1. Service(r, row) = CustomerHandler(r, row)
    BY <1>4, ServiceOf
  <2>2. CustomerHandler(r, row).statement = "insert" <=> r.op = "create_customer"
    BY <1>4 DEF CustomerHandler, CustomerOps, CreateCustomer, UpdateCustomer,
                DeleteCustomer, SoftDeleteCustomer, RestoreCustomer, AssignCustomer,
                UnassignCustomer, UpdateCustomerStatus, UpdateFollowup, Handler
  <2>3. r.op \in Creations <=> r.op = "create_customer"
    BY <1>4 DEF Creations, CustomerOps
  <2> QED BY <2>1, <2>2, <2>3
<1> QED BY <1>1, <1>2, <1>3, <1>4, RequestKinds

\* A request that creates writes what it holds.
LEMMA WrittenNew ==
  ASSUME Inv, NEW r \in Requests, Write(r), r.op \in Creations
  PROVE  Written(r) = session[r].set
<1>1. session[r].statement = "insert"
  BY WriterOpened, Statements DEF Opened
<1> QED BY <1>1 DEF Written

\* A request that updates a row leaves a column as it is committed, or sets
\* it to what it holds; the unit of work only if that is not what it loaded.
LEMMA WrittenColumns ==
  ASSUME Inv, NEW r \in Requests, Write(r), r.op \notin Creations,
         Written(r) # Null \/ session[r].statement # "delete"
  PROVE  \A c \in DOMAIN Current(r) :
           \/ Written(r)[c] = Current(r)[c]
           \/ /\ c \in DOMAIN session[r].set
              /\ Written(r)[c] = session[r].set[c]
              /\ session[r].statement = "orm" => session[r].set[c] # session[r].row[c]
<1> DEFINE s == session[r]
           columns == IF s.statement = "orm" THEN {c \in DOMAIN s.set : s.set[c] # s.row[c]}
                      ELSE DOMAIN s.set
           row == [c \in DOMAIN Current(r) |-> IF c \in columns THEN s.set[c] ELSE Current(r)[c]]
<1>1. s.statement # "insert"
  BY WriterOpened, Statements DEF Opened
<1>2. s.statement # "delete"
  <2>1. s.statement = "delete" => Written(r) = Null
    BY <1>1 DEF Written
  <2> QED BY <2>1
<1>3. Written(r) = row
  BY <1>1, <1>2 DEF Written
<1>4. \A c \in columns : c \in DOMAIN s.set /\ (s.statement = "orm" => s.set[c] # s.row[c])
  OBVIOUS
<1> HIDE DEF columns, s
<1>5. \A c \in DOMAIN Current(r) :
        row[c] = IF c \in columns THEN s.set[c] ELSE Current(r)[c]
  OBVIOUS
<1> HIDE DEF row
<1>6. \A c \in DOMAIN Current(r) :
        \/ Written(r)[c] = Current(r)[c]
        \/ /\ c \in DOMAIN s.set
           /\ Written(r)[c] = s.set[c]
           /\ s.statement = "orm" => s.set[c] # s.row[c]
  BY <1>3, <1>4, <1>5
<1> QED BY <1>6 DEF s
----------------------------------------------------------------------------
(* Leads.                                                                  *)

\* Only an update of the whole lead sets a contact, and checks it; only it
\* and a transition of an open lead set the status.
LEMMA LeadSets ==
  ASSUME NEW r \in Requests, NEW row, r.op \in LeadOps, r.op # "create_lead"
  PROVE  LET service == Service(r, row) IN
         /\ \A c \in {"phone", "email"} : c \in DOMAIN service.set =>
              service.statement = "orm" /\ service.set = r.set
                /\ service.checks = LeadContactChecks(r, row)
         /\ "status" \in DOMAIN service.set =>
              r.op = "update_lead" \/ (service.admits => row.status \notin TerminalLeadStatus)
<1>1. Service(r, row) = LeadHandler(r, row)
  BY ServiceOf
<1>2. CASE r.op = "update_lead"
  <2>1. Service(r, row) = UpdateLead(r, row)
    BY <1>1, <1>2 DEF LeadHandler
  <2> QED BY <1>2, <2>1 DEF UpdateLead, Handler
<1>3. CASE r.op = "change_status"
  <2>1. Service(r, row) = ChangeStatus(r, row)
    BY <1>1, <1>3 DEF LeadHandler
  <2>2. ChangeStatus(r, row).admits => row.status \notin TerminalLeadStatus
    BY DEF ChangeStatus, Handler
  <2>3. DOMAIN ChangeStatus(r, row).set = {"status"}
    BY DEF ChangeStatus, Handler
  <2> QED BY <2>1, <2>2, <2>3
<1>4. CASE r.op \notin {"update_lead", "change_status"}
  <2>1. \A c \in {"phone", "email", "status"} : c \notin DOMAIN LeadHandler(r, row).set
    BY <1>4 DEF LeadHandler, LeadOps, DeleteLead, AssignLead, ChangePriority, Handler
  <2> QED BY <1>1, <2>1
<1> QED BY <1>2, <1>3, <1>4

\* A value that another lead has fails its check.
LEMMA TakenFails ==
  ASSUME NEW r, NEW column, NEW value, NEW i \in LeadIds \ {r.id},
         db.leads[i] # Null, db.leads[i][column] = value
  PROVE  ~Passes(db, r, Free("leads", column, value))
<1> DEFINE check == Free("leads", column, value)
<1>1. /\ check.kind = "free" /\ check.table = "leads" /\ check.column = column
      /\ check.value = value
  BY DEF Free
<1>2. i \in Others(db, "leads", r.id, column, value)
  BY DEF Others, Ids
<1> HIDE DEF check
<1>3. Passes(db, r, check) = (Others(db, "leads", r.id, column, value) = {})
  BY <1>1 DEF Passes
<1>4. ~Passes(db, r, check)
  BY <1>2, <1>3
<1> QED BY <1>4 DEF check

\* A contact that a write gives to a lead has been checked by the request.
LEMMA ContactChecked ==
  ASSUME Inv, NEW r \in Requests, Write(r), r.op \in LeadOps,
         NEW column \in {"phone", "email"}, Written(r) # Null, Written(r)[column] # Null,
         Current(r) = Null \/ Current(r)[column] # Written(r)[column]
  PROVE  Free("leads", column, Written(r)[column]) \in ToSet(Service(r, Loaded(r)).checks)
<1> DEFINE x == session[r]
           value == Written(r)[column]
           service == Service(r, Loaded(r))
<1>1. /\ x.statement = service.statement
      /\ DOMAIN x.set = DOMAIN service.set
      /\ \A c \in DOMAIN x.set : c = "code" \/ x.set[c] = service.set[c]
      /\ r.op \in Creations <=> Current(r) = Null
  BY WriterOpened DEF Opened, Loaded
<1>2. CASE r.op = "create_lead"
  <2>1. service = CreateLead(r)
    BY <1>2, ServiceOf DEF LeadHandler
  <2>2. service.set = r.row
    BY <2>1 DEF CreateLead, Handler
  <2>3. r.row \in LeadRow
    BY <1>2, RequestKinds, OpsDisjoint DEF ValidLeadRequest
  <2>4. column \in DOMAIN r.row /\ column # "code"
    BY <2>3 DEF LeadRow
  <2>5. Written(r) = x.set
    BY <1>2, WrittenNew DEF Creations
  <2>6. value = r.row[column]
    BY <1>1, <2>2, <2>4, <2>5
  <2>7. column = "email" => r.row.email # Null
    BY <2>6
  <2> QED BY <2>1, <2>6, <2>7, NewContactChecks
<1>3. CASE r.op # "create_lead"
  <2>1. r.op \notin Creations /\ Current(r) # Null
    BY <1>1, <1>3 DEF LeadOps, Creations
  <2>2. Current(r) \in LeadRow
    BY <2>1, RowTyped, RequestKinds DEF RowType
  <2>3. column \in DOMAIN Current(r) /\ column # "code"
    BY <2>2 DEF LeadRow
  <2>4. column \in DOMAIN x.set /\ value = x.set[column]
        /\ (x.statement = "orm" => x.set[column] # x.row[column])
    BY <2>1, <2>3, WrittenColumns
  <2>5. service.statement = "orm" /\ service.set = r.set
        /\ service.checks = LeadContactChecks(r, Loaded(r))
    BY <1>1, <1>3, <2>4, LeadSets
  <2>6. column \in DOMAIN r.set /\ r.set[column] = value /\ value # Loaded(r)[column]
    BY <1>1, <2>3, <2>4, <2>5 DEF Loaded
  <2> QED BY <2>5, <2>6, ContactChecks
<1> QED BY <1>2, <1>3

\* A write of another table leaves the leads alone.
LEMMA LeadWriter ==
  ASSUME Inv, NEW r \in Requests, Write(r), db'.leads # db.leads
  PROVE  r.op \in LeadOps /\ Table(r) = "leads"
<1>1. Table(r) = "leads"
  BY WriteInv DEF Ids
<1> QED BY <1>1, RequestKinds

\* A step after which two leads share a contact they did not share is the
\* commit of a request that has checked the contact before another one
\* wrote it.
LEMMA SharedIsOvertaken ==
  ASSUME Inv, [Next]_vars, NEW column \in {"phone", "email"},
         NEW ids \in Shared(db', column), ids \notin Shared(db, column)
  PROVE  \E r \in Requests : Commits(r) /\ Overtaken(r)
<1>1. PICK value \in Phones \cup Emails : \A i \in ids :
        db'.leads[i] # Null /\ db'.leads[i][column] = value
  BY DEF Shared
<1>2. ids \in SUBSET LeadIds /\ Cardinality(ids) = 2
  BY DEF Shared
<1>3. PICK k \in ids : ~(db.leads[k] # Null /\ db.leads[k][column] = value)
  BY <1>1, <1>2 DEF Shared
<1>4. db'.leads # db.leads
  BY <1>1, <1>3
<1>5. PICK r \in Requests : Write(r) /\ Commits(r)
  BY <1>4, ChangeIsCommit
<1>6. r.op \in LeadOps /\ Table(r) = "leads"
  BY <1>4, <1>5, LeadWriter
<1>7. /\ db'.leads[r.id] = Written(r)
      /\ \A i \in LeadIds : i # r.id => db'.leads[i] = db.leads[i]
  BY <1>5, <1>6, WriteInv DEF Ids
<1>8. k = r.id
  BY <1>1, <1>2, <1>3, <1>7
<1>9. PICK j \in ids : j # k
  <2>1. SUFFICES ASSUME ids = {k} PROVE FALSE
    OBVIOUS
  <2>2. Cardinality({k}) = 1
    BY FS_Singleton
  <2> QED BY <1>2, <2>1, <2>2
<1>10. /\ j \in LeadIds \ {r.id}
       /\ db.leads[j] # Null /\ db.leads[j][column] = value
  BY <1>1, <1>2, <1>7, <1>8, <1>9
<1>11. Written(r) # Null /\ Written(r)[column] = value /\ value # Null
  BY <1>1, <1>7, <1>8, NullAssumption
<1>12. Current(r) = Null \/ Current(r)[column] # value
  BY <1>3, <1>6, <1>8 DEF Current
<1>13. Free("leads", column, value) \in ToSet(Service(r, Loaded(r)).checks)
  BY <1>5, <1>6, <1>11, <1>12, ContactChecked
<1>14. ~Passes(db, r, Free("leads", column, value))
  BY <1>10, TakenFails
<1> QED BY <1>5, <1>13, <1>14 DEF Overtaken

\* However requests interleave, two leads come to share a phone or an email
\* only by a commit whose check of it another commit has made stale.
THEOREM SharedContactsAreLate == Spec => LeadContactsDistinct
<1> DEFINE Late == \A column \in {"phone", "email"} :
                     ~(Shared(db', column) \subseteq Shared(db, column))
                       => \E r \in Requests : Commits(r) /\ Overtaken(r)
<1>1. Inv /\ [Next]_vars => [Late]_vars
  BY SharedIsOvertaken
<1> QED BY <1>1, InvHolds, PTL DEF Spec, LeadContactsDistinct
----------------------------------------------------------------------------
(* Listings, and what is closed.                                           *)

\* The status of a property is set alone, of one that is not sold or let, and
\* fits its type; so does its type; its agent is checked.
LEMMA PropertySets ==
  ASSUME NEW r \in Requests, NEW row, r.op \in PropertyOps, r.op # "create_property"
  PROVE  LET service == Service(r, row) IN
         /\ "status" \in DOMAIN service.set =>
              /\ DOMAIN service.set = {"status"}
              /\ service.admits => /\ row.status \notin TerminalPropertyStatus
                                   /\ Compatible(row.listing, service.set.status)
         /\ "listing" \in DOMAIN service.set =>
              /\ "status" \notin DOMAIN service.set
              /\ service.admits => Compatible(service.set.listing, row.status)
         /\ "agent" \in DOMAIN service.set =>
              Active("users", service.set.agent) \in ToSet(service.checks)
         /\ service.statement # "delete"
<1>1. Service(r, row) = PropertyHandler(r, row)
  BY ServiceOf
<1>2. CASE r.op = "update_property"
  <2>1. Service(r, row) = UpdateProperty(r, row)
    BY <1>1, <1>2 DEF PropertyHandler
  <2>2. DOMAIN r.set \subseteq {"listing", "active"}
    BY <1>2, RequestKinds, OpsDisjoint DEF ValidPropertyRequest
  <2>3. UpdateProperty(r, row).set = r.set /\ UpdateProperty(r, row).statement = "orm"
    BY DEF UpdateProperty, Handler
  <2>4. UpdateProperty(r, row).admits => Compatible(ResultingListing(r, row), row.status)
    BY DEF UpdateProperty, Handler
  <2>5. "listing" \in DOMAIN r.set => ResultingListing(r, row) = r.set.listing
    BY DEF ResultingListing
  <2> QED BY <2>1, <2>2, <2>3, <2>4, <2>5
<1>3. CASE r.op = "update_status"
  <2>1. Service(r, row) = UpdateStatus(r, row)
    BY <1>1, <1>3 DEF PropertyHandler
  <2>2. /\ UpdateStatus(r, row).set = [status |-> r.status]
        /\ UpdateStatus(r, row).statement = "orm"
    BY DEF UpdateStatus, Handler
  <2>3. UpdateStatus(r, row).admits =>
          row.status \notin TerminalPropertyStatus /\ Compatible(row.listing, r.status)
    BY DEF UpdateStatus, Handler
  <2> QED BY <2>1, <2>2, <2>3
<1>4. CASE r.op = "assign_property"
  <2> DEFINE agent == Active("users", r.agent)
  <2>1. /\ Service(r, row).set = [agent |-> r.agent]
        /\ Service(r, row).checks = <<agent>>
        /\ Service(r, row).statement = "orm"
    BY <1>1, <1>4 DEF PropertyHandler, AssignProperty, Handler
  <2> HIDE DEF agent
  <2>2. agent \in ToSet(<<agent>>)
    BY OneCheck
  <2> QED BY <2>1, <2>2 DEF agent
<1>5. CASE r.op \notin {"update_property", "update_status", "assign_property"}
  <2>1. /\ \A c \in {"status", "listing", "agent"} : c \notin DOMAIN PropertyHandler(r, row).set
        /\ PropertyHandler(r, row).statement # "delete"
    BY <1>5 DEF PropertyHandler, PropertyOps, SoftDeleteProperty, ReactivateProperty, Handler
  <2> QED BY <1>1, <2>1
<1> QED BY <1>2, <1>3, <1>4, <1>5

\* What a request writes is a row of its table.
LEMMA WrittenTyped ==
  ASSUME Inv, NEW r \in Requests, Write(r)
  PROVE  Written(r) \in RowType[Table(r)] \cup {Null}
<1>1. db'[Table(r)][r.id] = Written(r)
  BY WriteInv
<1>2. db' \in Rows
  BY DEF Write, Accepted, Consistent
<1> QED BY <1>1, <1>2, TableTyped

\* Every row has a column for its activity.
LEMMA ActiveColumn ==
  ASSUME NEW r \in Requests, NEW row \in RowType[Table(r)]
  PROVE  "active" \in DOMAIN row /\ row.active \in BOOLEAN
<1>1. CASE Table(r) = "users"
  BY <1>1 DEF RowType, UserRow
<1>2. CASE Table(r) = "leads"
  BY <1>2 DEF RowType, LeadRow
<1>3. CASE Table(r) = "properties"
  BY <1>3 DEF RowType, PropertyRow
<1>4. CASE Table(r) = "customers"
  BY <1>4 DEF RowType, CustomerRow
<1> QED BY <1>1, <1>2, <1>3, <1>4, RequestRow

\* A commit makes a row active only if its request says so.
LEMMA ActivityAsked ==
  ASSUME Inv, NEW r \in Requests, Write(r), Current(r) # Null, Written(r) # Null,
         ~Current(r).active, Written(r).active
  PROVE  Asks(r, "active", TRUE)
<1>1. r.op \notin Creations
  BY WriterOpened
<1>2. "active" \in DOMAIN Current(r) /\ Written(r).active \in BOOLEAN
  BY RowTyped, WrittenTyped, ActiveColumn
<1>3. Written(r).active = TRUE /\ Written(r).active # Current(r).active
  BY <1>2
<1>4. "active" \in DOMAIN session[r].set /\ Written(r).active = session[r].set.active
  BY <1>1, <1>2, <1>3, WrittenColumns
<1>5. session[r].set["active"] = TRUE
  BY <1>3, <1>4
<1> QED BY <1>4, <1>5 DEF Asks

\* A commit takes a row out of its final status only as an update of the
\* whole lead, or if it loaded the row before it had this status.
LEMMA FinalLeft ==
  ASSUME Inv, NEW r \in Requests, Write(r), Current(r) # Null, Written(r) # Null,
         LeavesFinalStatus(Table(r), Current(r), Written(r))
  PROVE  r.op = "update_lead" \/ Loaded(r).status # Current(r).status
<1> DEFINE service == Service(r, Loaded(r))
<1>1. /\ r.op \notin Creations
      /\ service.admits
      /\ DOMAIN session[r].set = DOMAIN service.set
  BY WriterOpened DEF Opened, Loaded
<1>2. Current(r) \in RowType[Table(r)]
  BY RowTyped
<1>3. ASSUME "status" \in DOMAIN Current(r)
      PROVE  "status" \in DOMAIN service.set
  BY <1>1, <1>3, WrittenColumns DEF LeavesFinalStatus
<1>4. CASE Table(r) = "leads" /\ Current(r).status \in TerminalLeadStatus
  <2>1. r.op \in LeadOps /\ r.op # "create_lead"
    BY <1>1, <1>4, RequestKinds DEF Creations
  <2>2. "status" \in DOMAIN Current(r)
    BY <1>2, <1>4 DEF RowType, LeadRow
  <2> QED BY <1>1, <1>3, <1>4, <2>1, <2>2, LeadSets
<1>5. CASE Table(r) = "properties" /\ Current(r).status \in TerminalPropertyStatus
  <2>1. r.op \in PropertyOps /\ r.op # "create_property"
    BY <1>1, <1>5, RequestKinds DEF Creations
  <2>2. "status" \in DOMAIN Current(r)
    BY <1>2, <1>5 DEF RowType, PropertyRow
  <2> QED BY <1>1, <1>3, <1>5, <2>1, <2>2, PropertySets
<1> QED BY <1>4, <1>5 DEF LeavesFinalStatus

\* However requests interleave, a row that is deleted, inactive or in a final
\* status stays so unless a request says otherwise or decided earlier.
THEOREM WhatIsClosedStaysClosed == Spec => ClosedStaysClosed
<1> DEFINE Kept == \A r \in Requests : Commits(r) =>
       LET old == Current(r)
           new == db'[Table(r)][r.id]
       IN  /\ old = Null => r.op \in Creations
           /\ old # Null /\ new # Null =>
                /\ ~old.active /\ new.active => Asks(r, "active", TRUE)
                /\ LeavesFinalStatus(Table(r), old, new) =>
                     r.op = "update_lead" \/ Loaded(r).status # old.status
<1>1. ASSUME Inv, [Next]_vars PROVE Kept
  <2> SUFFICES ASSUME NEW r \in Requests, Commits(r)
               PROVE  LET old == Current(r)
                          new == db'[Table(r)][r.id]
                      IN  /\ old = Null => r.op \in Creations
                          /\ old # Null /\ new # Null =>
                               /\ ~old.active /\ new.active => Asks(r, "active", TRUE)
                               /\ LeavesFinalStatus(Table(r), old, new) =>
                                    r.op = "update_lead" \/ Loaded(r).status # old.status
    OBVIOUS
  <2>1. Write(r)
    BY <1>1, CommitIsWrite
  <2>2. db'[Table(r)][r.id] = Written(r)
    BY <1>1, <2>1, WriteInv
  <2>3. Current(r) = Null => r.op \in Creations
    BY <1>1, <2>1, WriterOpened
  <2>4. Current(r) # Null /\ Written(r) # Null /\ ~Current(r).active /\ Written(r).active
          => Asks(r, "active", TRUE)
    BY <1>1, <2>1, ActivityAsked
  <2>5. Current(r) # Null /\ Written(r) # Null
          /\ LeavesFinalStatus(Table(r), Current(r), Written(r))
          => r.op = "update_lead" \/ Loaded(r).status # Current(r).status
    BY <1>1, <2>1, FinalLeft
  <2> QED BY <2>2, <2>3, <2>4, <2>5
<1>2. Inv /\ [Next]_vars => [Kept]_vars
  BY <1>1
<1> QED BY <1>2, InvHolds, PTL DEF Spec, ClosedStaysClosed

Fits(row) == row = Null \/ Compatible(row.listing, row.status)

\* A new property, and its agent, are as its service has admitted them.
LEMMA NewProperties ==
  ASSUME Inv, NEW r \in Requests, Write(r), r.op = "create_property"
  PROVE  /\ Fits(Written(r))
         /\ Written(r).agent # Null =>
              Active("users", Written(r).agent) \in ToSet(Service(r, Loaded(r)).checks)
<1>1. Service(r, Loaded(r)) = CreateProperty(r)
  BY ServiceOf DEF PropertyOps, PropertyHandler
<1>2. /\ CreateProperty(r).set = r.row
      /\ CreateProperty(r).admits => Compatible(r.row.listing, r.row.status)
  BY DEF CreateProperty, Handler
<1>3. Written(r) = session[r].set
  BY WrittenNew DEF Creations
<1>4. /\ CreateProperty(r).admits
      /\ \A c \in DOMAIN session[r].set : c = "code" \/ session[r].set[c] = r.row[c]
  BY <1>1, <1>2, WriterOpened DEF Opened, Loaded
<1>5. r.op \in PropertyOps
  BY DEF PropertyOps
<1>6. NewProperty(r.row)
  BY <1>5, RequestKinds, OpsDisjoint DEF ValidPropertyRequest
<1>7. {"listing", "status", "agent"} \subseteq DOMAIN r.row
  BY <1>6 DEF NewProperty, PropertyRow
<1>8. {"listing", "status", "agent"} \subseteq DOMAIN Written(r)
  BY <1>1, <1>2, <1>3, <1>7, WriterOpened DEF Opened, Loaded
<1>9. \A c \in {"listing", "status", "agent"} : Written(r)[c] = r.row[c]
  BY <1>3, <1>4, <1>8
<1>10. Compatible(Written(r).listing, Written(r).status)
  BY <1>2, <1>4, <1>9
<1> QED BY <1>1, <1>9, <1>10, NewPropertyChecks DEF Fits

\* An update of a property whose type and status are those it was decided on
\* keeps them fitting.
LEMMA UpdatedFits ==
  ASSUME Inv, NEW r \in Requests, Write(r), Table(r) = "properties",
         r.op \notin Creations, Fits(Current(r)),
         \A c \in {"listing", "status"} : Current(r)[c] = Loaded(r)[c]
  PROVE  Fits(Written(r))
<1> DEFINE service == Service(r, Loaded(r))
<1>1. r.op \in PropertyOps /\ r.op # "create_property"
  BY RequestKinds DEF Creations
<1>2. /\ service.admits /\ Current(r) # Null
      /\ DOMAIN session[r].set = DOMAIN service.set
      /\ \A c \in DOMAIN session[r].set : c = "code" \/ session[r].set[c] = service.set[c]
      /\ session[r].statement # "delete"
  BY <1>1, WriterOpened, PropertySets DEF Opened, Loaded
<1>3. Current(r) \in PropertyRow
  BY <1>2, RowTyped DEF RowType
<1>4. "listing" \in DOMAIN Current(r) /\ "status" \in DOMAIN Current(r)
  BY <1>3 DEF PropertyRow
<1>5. \/ Written(r).listing = Current(r).listing
      \/ "listing" \in DOMAIN service.set /\ Written(r).listing = service.set.listing
  BY <1>2, <1>4, WrittenColumns
<1>6. \/ Written(r).status = Current(r).status
      \/ "status" \in DOMAIN service.set /\ Written(r).status = service.set.status
  BY <1>2, <1>4, WrittenColumns
<1>7. Compatible(Current(r).listing, Current(r).status)
  BY <1>2 DEF Fits
<1>8. Current(r).listing = Loaded(r).listing /\ Current(r).status = Loaded(r).status
  OBVIOUS
<1>9. "status" \in DOMAIN service.set =>
        /\ "listing" \notin DOMAIN service.set
        /\ Compatible(Loaded(r).listing, service.set.status)
  BY <1>1, <1>2, PropertySets
<1>10. "listing" \in DOMAIN service.set => Compatible(service.set.listing, Loaded(r).status)
  BY <1>1, <1>2, PropertySets
<1> HIDE DEF service
<1>11. Compatible(Written(r).listing, Written(r).status)
  BY <1>5, <1>6, <1>7, <1>8, <1>9, <1>10
<1> QED BY <1>11 DEF Fits

\* An update of a property that gives it another agent has checked the agent.
LEMMA AgentChecked ==
  ASSUME Inv, NEW r \in Requests, Write(r), Table(r) = "properties",
         r.op \notin Creations, Written(r).agent # Current(r).agent
  PROVE  Active("users", Written(r).agent) \in ToSet(Service(r, Loaded(r)).checks)
<1> DEFINE service == Service(r, Loaded(r))
<1>1. r.op \in PropertyOps /\ r.op # "create_property"
  BY RequestKinds DEF Creations
<1>2. /\ Current(r) # Null
      /\ DOMAIN session[r].set = DOMAIN service.set
      /\ \A c \in DOMAIN session[r].set : c = "code" \/ session[r].set[c] = service.set[c]
      /\ session[r].statement # "delete"
  BY <1>1, WriterOpened, PropertySets DEF Opened, Loaded
<1>3. Current(r) \in PropertyRow
  BY <1>2, RowTyped DEF RowType
<1>4. "agent" \in DOMAIN Current(r)
  BY <1>3 DEF PropertyRow
<1>5. "agent" \in DOMAIN service.set /\ Written(r).agent = service.set.agent
  BY <1>2, <1>4, WrittenColumns
<1> QED BY <1>1, <1>5, PropertySets

\* The check of an agent who is not active fails.
LEMMA InactiveFails ==
  ASSUME NEW r, NEW id, Passes(db, r, Active("users", id))
  PROVE  db.users[id].active
<1> DEFINE check == Active("users", id)
<1>1. check.kind = "active" /\ check.table = "users" /\ check.value = id
  BY DEF Active
<1> HIDE DEF check
<1>2. Passes(db, r, check) => db.users[id].active
  BY <1>1 DEF Passes
<1> QED BY <1>2 DEF check

\* However requests interleave, a listing fits its type and is given to no
\* inactive agent, unless what the request decided on has changed.
THEOREM ListingsStayConsistent == Spec => ListingsConsistent
<1> DEFINE Kept == \A r \in Requests : Commits(r) /\ Table(r) = "properties" =>
       LET new == db'.properties[r.id]
           Fitting(row) == row = Null \/ Compatible(row.listing, row.status)
           Unmoved == Current(r) = Null
                        \/ \A c \in {"listing", "status"} : Current(r)[c] = Loaded(r)[c]
           Same == Current(r) # Null /\ new.agent = Current(r).agent
       IN  /\ Fitting(Current(r)) /\ Unmoved => Fitting(new)
           /\ new.agent = Null \/ Same \/ db.users[new.agent].active \/ Overtaken(r)
<1>1. ASSUME Inv, [Next]_vars PROVE Kept
  <2> SUFFICES ASSUME NEW r \in Requests, Commits(r), Table(r) = "properties"
               PROVE  LET new == db'.properties[r.id]
                          Unmoved == Current(r) = Null
                            \/ \A c \in {"listing", "status"} : Current(r)[c] = Loaded(r)[c]
                          Same == Current(r) # Null /\ new.agent = Current(r).agent
                      IN  /\ Fits(Current(r)) /\ Unmoved => Fits(new)
                          /\ new.agent = Null \/ Same \/ db.users[new.agent].active
                               \/ Overtaken(r)
    BY DEF Fits
  <2>1. Write(r)
    BY <1>1, CommitIsWrite
  <2>2. db'.properties[r.id] = Written(r)
    BY <1>1, <2>1, WriteInv
  <2>3. r.op \in Creations <=> Current(r) = Null
    BY <1>1, <2>1, WriterOpened
  <2>4. r.op \in Creations => r.op = "create_property"
    BY RequestKinds DEF Creations, PropertyOps
  <2>5. \/ Written(r).agent = Null
        \/ Current(r) # Null /\ Written(r).agent = Current(r).agent
        \/ Active("users", Written(r).agent) \in ToSet(Service(r, Loaded(r)).checks)
    BY <1>1, <2>1, <2>3, <2>4, NewProperties, AgentChecked
  <2>6. \/ Written(r).agent = Null
        \/ Current(r) # Null /\ Written(r).agent = Current(r).agent
        \/ db.users[Written(r).agent].active
        \/ Overtaken(r)
    BY <2>5, InactiveFails DEF Overtaken
  <2>7. ASSUME Fits(Current(r)),
               Current(r) = Null
                 \/ \A c \in {"listing", "status"} : Current(r)[c] = Loaded(r)[c]
        PROVE  Fits(Written(r))
    BY <1>1, <2>1, <2>3, <2>4, <2>7, NewProperties, UpdatedFits
  <2> QED BY <2>2, <2>6, <2>7
<1>2. Inv /\ [Next]_vars => [Kept]_vars
  BY <1>1
<1> QED BY <1>2, InvHolds, PTL DEF Spec, ListingsConsistent
=============================================================================
