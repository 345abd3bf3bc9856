---------------------------- MODULE CrmDirectory ----------------------------
(***************************************************************************)
(* The requests that write users, leads, properties and customers.         *)
(*                                                                         *)
(* A request is one READ COMMITTED transaction: it loads its row, makes    *)
(* the SELECTs of its service method, each with a snapshot of its own, and *)
(* writes one row.  Its statement and its commit are one step: in between  *)
(* it reads nothing but the row it has written, which is locked.           *)
(***************************************************************************)
EXTENDS AccountService, LeadService, PropertyService, CustomerService, SequencesExt

CONSTANTS Seed,       \* the rows committed before the first request
          Scenarios,  \* bound: sets of requests, each made at most once
          Requests    \* those of all scenarios

Ids == [users |-> UserIds, leads |-> LeadIds, properties |-> PropertyIds,
        customers |-> CustomerIds]

RowType == [users |-> UserRow, leads |-> LeadRow, properties |-> PropertyRow,
            customers |-> CustomerRow]

Rows ==
  [users: [UserIds -> UserRow \cup {Null}], leads: [LeadIds -> LeadRow \cup {Null}],
   properties: [PropertyIds -> PropertyRow \cup {Null}],
   customers: [CustomerIds -> CustomerRow \cup {Null}]]

Creations == {"register", "create_lead", "create_property", "create_customer"}

Table(r) ==
  CASE r.op \in UserOps     -> "users"
    [] r.op \in LeadOps     -> "leads"
    [] r.op \in PropertyOps -> "properties"
    [] r.op \in CustomerOps -> "customers"

ValidRequest(r) ==
  \/ r.op \in UserOps     /\ ValidUserRequest(r)
  \/ r.op \in LeadOps     /\ ValidLeadRequest(r)
  \/ r.op \in PropertyOps /\ ValidPropertyRequest(r)
  \/ r.op \in CustomerOps /\ ValidCustomerRequest(r)

\* What the service does for r with the row it has loaded.
Service(r, row) ==
  CASE r.op \in UserOps     -> UserHandler(r, row)
    [] r.op \in LeadOps     -> LeadHandler(r, row)
    [] r.op \in PropertyOps -> PropertyHandler(r, row)
    [] r.op \in CustomerOps -> CustomerHandler(r, row)

\* The unique columns and the foreign keys of the tables.
Unique == {<<"users", "email">>, <<"users", "phone">>, <<"properties", "code">>,
           <<"customers", "email">>}

References ==
  {<<"leads", "agent", "users">>, <<"properties", "agent", "users">>,
   <<"customers", "assigned", "users">>, <<"customers", "lead", "leads">>}

\* The other rows of a table with a value.
Others(tables, table, id, column, value) ==
  {i \in Ids[table] \ {id} : tables[table][i] # Null /\ tables[table][i][column] = value}

Consistent(tables) ==
  /\ tables \in Rows
  /\ \A u \in Unique : \A i \in Ids[u[1]] :
       LET row == tables[u[1]][i] IN
       row # Null /\ row[u[2]] # Null => Others(tables, u[1], i, u[2], row[u[2]]) = {}
  /\ \A k \in References : \A i \in Ids[k[1]] :
       LET row == tables[k[1]][i] IN
       row # Null /\ row[k[2]] # Null =>
         row[k[2]] \in Ids[k[3]] /\ tables[k[3]][row[k[2]]] # Null

ASSUME NullAssumption == Null \notin Phones \cup Emails
ASSUME SeedAssumption == Consistent(Seed)
ASSUME RequestsAssumption ==
  /\ \A r \in Requests : ValidRequest(r)
  /\ \A r \in Requests : r.op \in Creations => Seed[Table(r)][r.id] = Null
  /\ \A r, q \in Requests :
       r.op \in Creations /\ r.op = q.op /\ r.id = q.id => r = q
  /\ UNION Scenarios = Requests

VARIABLES db,      \* committed rows of the tables
          session  \* the transaction of each request

vars == <<db, session>>
----------------------------------------------------------------------------
\* row: as loaded; checks: SELECTs still to be made; set: columns to write.
Fresh(step) ==
  [step |-> step, row |-> Null, checks |-> <<>>, statement |-> "none", set |-> [c \in {} |-> Null]]

Init ==
  /\ db = Seed
  /\ \E chosen \in Scenarios :
       session = [r \in Requests |-> Fresh(IF r \in chosen THEN "idle" ELSE "ended")]

At(r, step) == session[r].step = step
Loaded(r) == session[r].row
Current(r) == db[Table(r)][r.id]
Goto(r, state) == session' = [session EXCEPT ![r] = state] /\ UNCHANGED db

Open(r, row) ==
  LET service == Service(r, row) IN
  /\ service.admits
  /\ Goto(r, [step |-> "open", row |-> row, checks |-> service.checks,
              statement |-> service.statement, set |-> service.set])

Begin(r) == r.op \in Creations /\ At(r, "idle") /\ Open(r, Null)

Load(r) == r.op \notin Creations /\ At(r, "idle") /\ Current(r) # Null /\ Open(r, Current(r))

\* A refusal, an error, a client that goes away: all roll back.
Abandon(r) == At(r, "open") /\ Goto(r, Fresh("ended"))
----------------------------------------------------------------------------
\* A contact that two leads share already makes its SELECT fail, so any
\* other row with the value refuses the request.
Passes(tables, r, check) ==
  CASE check.kind = "free"   -> Others(tables, check.table, r.id, check.column, check.value) = {}
    [] check.kind = "exists" -> check.value \in Ids[check.table]
                                  /\ tables[check.table][check.value] # Null
    [] check.kind = "active" -> /\ check.value \in Ids[check.table]
                                /\ tables[check.table][check.value] # Null
                                /\ tables[check.table][check.value].active
    [] check.kind = "generate" -> TRUE

\* _resolve_property_code gives up after five codes that are in use.
GenerateCode(r) ==
  \E code \in Codes :
    /\ Others(db, "properties", r.id, "code", code) = {}
    /\ Goto(r, [session[r] EXCEPT !.checks = Tail(@), !.set.code = code])

Check(r) ==
  /\ At(r, "open")
  /\ session[r].checks # <<>>
  /\ LET check == Head(session[r].checks) IN
     IF check.kind = "generate" THEN GenerateCode(r)
     ELSE Passes(db, r, check) /\ Goto(r, [session[r] EXCEPT !.checks = Tail(@)])

\* Mutant: the unit of work writes every column of a row it has loaded.
Written_AllColumns(r) ==
  LET s == session[r]
      Assigned == [c \in DOMAIN Current(r) |-> IF c \in DOMAIN s.set THEN s.set[c] ELSE s.row[c]]
  IN  CASE s.statement = "insert" -> s.set
        [] s.statement = "delete" -> Null
        [] OTHER                  -> Assigned

\* An UPDATE of the unit of work names the columns that differ from the row
\* as loaded, one that is executed directly names them all.
Written(r) ==
  LET s == session[r]
      columns == IF s.statement = "orm" THEN {c \in DOMAIN s.set : s.set[c] # s.row[c]}
                 ELSE DOMAIN s.set
  IN  CASE s.statement = "insert" -> s.set
        [] s.statement = "delete" -> Null
        [] OTHER -> [c \in DOMAIN Current(r) |-> IF c \in columns THEN s.set[c] ELSE Current(r)[c]]

\* Mutant: the emails of customers have no unique index.
Accepted_SharedEmails(tables, r) ==
  /\ tables[Table(r)][r.id] \in RowType[Table(r)] \cup {Null}
  /\ r.op \notin CustomerOps => Consistent(tables)
  /\ r.op = "delete_customer" => r.id \notin Referenced

Accepted(tables, r) ==
  /\ Consistent(tables)
  /\ r.op = "delete_customer" => r.id \notin Referenced

\* A row that has been deleted for good is not written.
Write(r) ==
  /\ At(r, "open")
  /\ session[r].checks = <<>>
  /\ r.op \in Creations <=> Current(r) = Null
  /\ LET tables == [db EXCEPT ![Table(r)][r.id] = Written(r)] IN
       Accepted(tables, r) /\ db' = tables
  /\ session' = [session EXCEPT ![r] = Fresh("ended")]

Next ==
  \E r \in Requests :
    Begin(r) \/ Load(r) \/ Check(r) \/ Write(r) \/ Abandon(r)

Spec == Init /\ [][Next]_vars
----------------------------------------------------------------------------
\* Rows are rows, unique columns are unique, references refer to rows, and a
\* request holds the columns of its own table.
TypeOK ==
  /\ Consistent(db)
  /\ \A r \in Requests :
       /\ session[r].step \in {"idle", "open", "ended"}
       /\ Loaded(r) \in RowType[Table(r)] \cup {Null}
       /\ Len(session[r].checks) <= 3

Commits(r) == At(r, "open") /\ session'[r].step = "ended" /\ db' # db

\* The checks of r that another request has made fail since r made them.
Overtaken(r) ==
  \E check \in ToSet(Service(r, Loaded(r)).checks) : ~Passes(db, r, check)

Shared(tables, column) ==
  {ids \in SUBSET LeadIds :
     /\ Cardinality(ids) = 2
     /\ \E value \in (Phones \cup Emails) : \A i \in ids :
          tables.leads[i] # Null /\ tables.leads[i][column] = value}

\* No index keeps two leads from having one phone or one email: the second
\* gets it only if the first had it written after the second was checked.
LeadContactsDistinct ==
  [][\A column \in {"phone", "email"} :
       ~(Shared(db', column) \subseteq Shared(db, column))
         => \E r \in Requests : Commits(r) /\ Overtaken(r)]_vars

\* What a request asks for.
Asks(r, column, value) ==
  column \in DOMAIN session[r].set /\ session[r].set[column] = value

LeavesFinalStatus(table, old, new) ==
  /\ \/ table = "leads" /\ old.status \in TerminalLeadStatus
     \/ table = "properties" /\ old.status \in TerminalPropertyStatus
  /\ new.status # old.status

\* A row that is deleted, inactive or in a final status stays so through
\* every request that had loaded it before: it is made active only by one
\* that says so, leaves a final status only by an update of the whole lead or
\* a transition that was decided on an earlier status, and a row deleted for
\* good never returns.
ClosedStaysClosed ==
  [][\A r \in Requests : Commits(r) =>
       LET old == Current(r)
           new == db'[Table(r)][r.id]
       IN  /\ old = Null => r.op \in Creations
           /\ old # Null /\ new # Null =>
                /\ ~old.active /\ new.active => Asks(r, "active", TRUE)
                /\ LeavesFinalStatus(Table(r), old, new) =>
                     r.op = "update_lead" \/ Loaded(r).status # old.status]_vars

\* A request keeps the status of a listing fitting its type, unless the type
\* or the status has changed since it loaded the listing, and gives it no
\* other agent than one who is active, unless the agent has changed since it
\* was checked.
ListingsConsistent ==
  [][\A r \in Requests : Commits(r) /\ Table(r) = "properties" =>
       LET new == db'.properties[r.id]
           Fits(row) == row = Null \/ Compatible(row.listing, row.status)
           Unmoved == Current(r) = Null
                        \/ \A c \in {"listing", "status"} : Current(r)[c] = Loaded(r)[c]
           Same == Current(r) # Null /\ new.agent = Current(r).agent
       IN  /\ Fits(Current(r)) /\ Unmoved => Fits(new)
           /\ new.agent = Null \/ Same \/ db.users[new.agent].active \/ Overtaken(r)]_vars
=============================================================================
