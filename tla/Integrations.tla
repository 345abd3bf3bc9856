---------------------------- MODULE Integrations ----------------------------
(***************************************************************************)
(* IntegrationService and IntegrationRepository: requests that create,     *)
(* update, check, switch, delete and restore integrations, and that        *)
(* promote one to the default of its type.                                 *)
(*                                                                         *)
(* A request is one READ COMMITTED transaction.  A promotion writes the    *)
(* row of its integration, then selects the other defaults of the type and *)
(* clears them one UPDATE at a time, in the order of the primary key, with *)
(* every row it has written locked until its caller commits.               *)
(***************************************************************************)
EXTENDS Integers, FiniteSets

CONSTANTS Ids,               \* primary keys
          SeedIntegrations,  \* the rows committed before the first request
          Names, Types,
          Scenarios,         \* bound: sets of requests, each made at most once
          Requests,          \* those of all scenarios
          Null

IntegrationStatus == {"ACTIVE", "INACTIVE", "PENDING_VERIFICATION", "FAILED", "DISABLED"}
AuthenticationType == {"NONE", "API_KEY"}

\* credentials: one payload or null; configured: configuration and the URLs
\* are what the provider and the type require.
IntegrationRow ==
  [name: Names, type: Types, status: IntegrationStatus, auth: AuthenticationType,
   credentials: BOOLEAN, configured: BOOLEAN, default: BOOLEAN, deleted: BOOLEAN]

Columns == {"name", "type", "status", "auth", "credentials", "configured", "default", "deleted"}

StatusOps == {"enable", "disable", "update_status"}
RowOps == StatusOps \cup {"update", "delete", "restore", "health_check", "update_sync_status"}
BulkOps == {"bulk_enable", "bulk_disable", "bulk_delete"}

\* Columns a client can set in an update, which may not set a type that needs
\* credentials and clear them.
Settable(set) ==
  /\ DOMAIN set \subseteq {"name", "auth", "credentials", "configured", "default"}
  /\ "name" \in DOMAIN set => set.name \in Names
  /\ "auth" \in DOMAIN set =>
       /\ set.auth \in AuthenticationType
       /\ set.auth # "NONE" /\ "credentials" \in DOMAIN set => set.credentials
  /\ \A c \in DOMAIN set \ {"name", "auth"} : set[c] \in BOOLEAN

Created(row) ==
  /\ row \in IntegrationRow
  /\ row.status = "PENDING_VERIFICATION" /\ ~row.deleted
  /\ row.auth # "NONE" => row.credentials

ValidRequest(r) ==
  \/ /\ r.op = "create"
     /\ r.id \in Ids /\ SeedIntegrations[r.id] = Null /\ Created(r.row)
  \/ r.op = "update" /\ r.id \in Ids /\ Settable(r.set)
  \/ r.op = "update_status" /\ r.id \in Ids /\ r.status \in IntegrationStatus
  \/ r.op \in RowOps \ {"update", "update_status"} /\ r.id \in Ids
  \/ r.op \in BulkOps /\ r.ids \subseteq Ids

\* validate_authentication_type, validate_configuration, validate_webhook_url
\* and validate_base_url.
Ready(row) == row.configured /\ (row.auth # "NONE" => row.credentials)

ASSUME IdsAssumption == Ids \subseteq Nat
ASSUME SeedAssumption ==
  /\ SeedIntegrations \in [Ids -> IntegrationRow \cup {Null}]
  /\ \A i, j \in Ids : SeedIntegrations[i] # Null =>
       /\ Ready(SeedIntegrations[i])
       /\ i # j /\ SeedIntegrations[j] # Null =>
            SeedIntegrations[i].name # SeedIntegrations[j].name
ASSUME RequestsAssumption ==
  /\ \A r \in Requests : ValidRequest(r)
  /\ \A r, q \in Requests : r.op = "create" /\ q.op = "create" /\ r.id = q.id => r = q
ASSUME NullAssumption ==
  \A row \in IntegrationRow : \A columns \in SUBSET Columns :
    Null # [c \in columns |-> row[c]]
ASSUME ScenariosAssumption == UNION Scenarios = Requests

VARIABLES integrations,  \* committed rows
          session        \* the transaction of each request

vars == <<integrations, session>>
----------------------------------------------------------------------------
(* Transactions.                                                           *)

\* row: as loaded; todo: rows of the current flush still to be written;
\* wrote: the columns written to a row, which is locked, and not committed;
\* seen, for the properties: the defaults of the type when it selected them.
Fresh(step, row) ==
  [step |-> step, row |-> row, todo |-> {}, wrote |-> [i \in Ids |-> Null], seen |-> {}]

Init ==
  /\ integrations = SeedIntegrations
  /\ \E chosen \in Scenarios :
       session = [r \in Requests |-> Fresh(IF r \in chosen THEN "idle" ELSE "ended", Null)]

At(r, step) == session[r].step = step
Loaded(r) == session[r].row
Holds(r, i) == session[r].wrote[i] # Null
Free(r, i) == \A q \in Requests \ {r} : ~Holds(q, i)
Exists(i) == integrations[i] # Null
Live(i) == Exists(i) /\ ~integrations[i].deleted

\* The row that r would commit.
After(r, i) ==
  LET set == session[r].wrote[i] IN
  IF set = Null THEN integrations[i]
  ELSE IF ~Exists(i) THEN set
  ELSE [c \in DOMAIN integrations[i] |-> IF c \in DOMAIN set THEN set[c] ELSE integrations[i][c]]

Defaults(rows, type) ==
  {i \in Ids : /\ rows[i] # Null
               /\ rows[i].type = type
               /\ rows[i].default /\ ~rows[i].deleted}

Goto(r, state) == session' = [session EXCEPT ![r] = state] /\ UNCHANGED integrations

Commit(r) ==
  /\ At(r, "commit")
  /\ integrations' = [i \in Ids |-> After(r, i)]
  /\ session' = [session EXCEPT ![r] = Fresh("ended", Null)]

\* A refusal, an error, a deadlock, a client that goes away: all roll back.
Abandon(r) == session[r].step \notin {"idle", "ended"} /\ Goto(r, Fresh("ended", Null))
----------------------------------------------------------------------------
(* One integration.                                                        *)

BeginCreate(r) == r.op = "create" /\ At(r, "idle") /\ Goto(r, Fresh("name", r.row))

\* get_integration and the conflicts of each operation.
Load(r) ==
  LET row == integrations[r.id] IN
  /\ r.op \in RowOps
  /\ At(r, "idle")
  /\ Exists(r.id)
  /\ row.deleted <=> r.op = "restore"
  /\ r.op = "enable" => row.status # "ACTIVE"
  /\ r.op = "disable" => row.status # "INACTIVE"
  /\ r.op = "update_status" => row.status # r.status
  /\ Goto(r, Fresh(IF r.op = "update" THEN "name" ELSE "write", row))

\* The row as loaded with what the update sets.
\* Mutant: credentials and configuration are only checked when they are set.
Resulting_SetOnly(r) ==
  IF r.op = "create" THEN r.row
  ELSE [c \in DOMAIN Loaded(r) |->
          IF c \in DOMAIN r.set THEN r.set[c]
          ELSE IF c \in {"credentials", "configured"} THEN TRUE ELSE Loaded(r)[c]]

Resulting(r) ==
  IF r.op = "create" THEN r.row
  ELSE [c \in DOMAIN Loaded(r) |-> IF c \in DOMAIN r.set THEN r.set[c] ELSE Loaded(r)[c]]

\* get_by_name sees no deleted integration.
CheckName(r) ==
  LET row == Resulting(r) IN
  /\ At(r, "name")
  /\ Ready(row)
  /\ r.op = "create" \/ row.name # Loaded(r).name =>
       \A i \in Ids \ {r.id} : Live(i) => integrations[i].name # row.name
  /\ Goto(r, [session[r] EXCEPT !.step = "write"])

\* What a request assigns to the columns of its row.
Assigned(r) ==
  CASE r.op = "create"        -> r.row
    [] r.op = "update"        -> r.set
    [] r.op = "delete"        -> [deleted |-> TRUE]
    [] r.op = "restore"       -> [deleted |-> FALSE]
    [] r.op = "enable"        -> [status |-> "ACTIVE"]
    [] r.op = "disable"       -> [status |-> "INACTIVE"]
    [] r.op = "update_status" -> [status |-> r.status]
    [] r.op = "health_check"  -> [status |-> IF Ready(Loaded(r)) THEN "ACTIVE" ELSE "FAILED"]
    [] OTHER                  -> [c \in {} |-> Null]

\* The UPDATE names the columns that differ from the row as loaded.
Changed(r) ==
  LET set == Assigned(r)
      columns == IF r.op = "create" THEN DOMAIN set
                 ELSE {c \in DOMAIN set : set[c] # Loaded(r)[c]}
  IN  [c \in columns |-> set[c]]

\* There is none if no column differs; a check and a sync write a time.
Writes(r) == r.op \in {"health_check", "update_sync_status"} \/ DOMAIN Changed(r) # {}

\* uq_integrations_name waits for, and then compares with, the rows that
\* others are writing.
NameFree(r) ==
  "name" \in DOMAIN Changed(r) =>
    \A i \in Ids \ {r.id} :
      /\ Exists(i) => integrations[i].name # Changed(r).name
      /\ \A q \in Requests \ {r} :
           Holds(q, i) /\ "name" \in DOMAIN session[q].wrote[i]
             => session[q].wrote[i].name # Changed(r).name

Promotes(r) ==
  \/ r.op = "create" /\ r.row.default
  \/ r.op = "update" /\ "default" \in DOMAIN r.set /\ r.set.default

Write(r) ==
  /\ At(r, "write")
  /\ Writes(r) => Free(r, r.id) /\ NameFree(r)
  /\ Goto(r, [session[r] EXCEPT
                !.step = IF Promotes(r) THEN "select" ELSE "commit",
                !.wrote[r.id] = IF Writes(r) THEN Changed(r) ELSE Null])
----------------------------------------------------------------------------
(* Several integrations.                                                   *)

\* Mutant: the default of a disabled integration is left alone.
Rivals_ActiveOnly(r) ==
  {i \in Defaults(integrations, Loaded(r).type) \ {r.id} : integrations[i].status = "ACTIVE"}

\* Mutant: the one that is promoted is not excluded.
Rivals_NoExclude(r) == Defaults(integrations, Loaded(r).type) \cup {r.id}

Rivals(r) == Defaults(integrations, Loaded(r).type) \ {r.id}

\* clear_default_for_type reads what others have committed.
SelectRivals(r) ==
  /\ At(r, "select")
  /\ Goto(r, [session[r] EXCEPT !.step = IF Rivals(r) = {} THEN "commit" ELSE "flush",
                                !.todo = Rivals(r),
                                !.seen = Defaults(integrations, Loaded(r).type)])

\* A row that has the status already is not written.
Selected(r) ==
  {i \in r.ids : /\ Live(i)
                 /\ r.op = "bulk_enable" => integrations[i].status # "ACTIVE"
                 /\ r.op = "bulk_disable" => integrations[i].status # "INACTIVE"}

BeginBulk(r) ==
  /\ r.op \in BulkOps
  /\ At(r, "idle")
  /\ Selected(r) # {}
  /\ Goto(r, [Fresh("flush", Null) EXCEPT !.todo = Selected(r)])

FlushedColumns(r) ==
  CASE r.op = "bulk_enable"  -> [status |-> "ACTIVE"]
    [] r.op = "bulk_disable" -> [status |-> "INACTIVE"]
    [] r.op = "bulk_delete"  -> [deleted |-> TRUE]
    [] OTHER                 -> [default |-> FALSE]

Flush(r) ==
  /\ At(r, "flush")
  /\ \E i \in session[r].todo :
       /\ \A j \in session[r].todo : i <= j
       /\ Free(r, i)
       /\ LET left == session[r].todo \ {i} IN
          Goto(r, [session[r] EXCEPT
                     !.step = IF left = {} THEN "commit" ELSE "flush",
                     !.todo = left,
                     !.wrote[i] = FlushedColumns(r)])

Next ==
  \E r \in Requests :
    \/ BeginCreate(r)
    \/ Load(r)
    \/ CheckName(r)
    \/ Write(r)
    \/ SelectRivals(r)
    \/ BeginBulk(r)
    \/ Flush(r)
    \/ Commit(r)
    \/ Abandon(r)

Spec == Init /\ [][Next]_vars
----------------------------------------------------------------------------
\* What decides whether an integration is ready.
Readiness(row) == <<row.auth, row.credentials, row.configured>>

\* Rows are rows, none has two uncommitted writers, and an update leaves its
\* integration ready unless another has changed, since this one loaded it,
\* what it validated: then a type may lose the credentials it needs.
TypeOK ==
  /\ integrations \in [Ids -> IntegrationRow \cup {Null}]
  /\ \A r \in Requests :
       /\ session[r].step \in
            {"idle", "name", "write", "select", "flush", "commit", "ended"}
       /\ Loaded(r) \in IntegrationRow \cup {Null}
       /\ session[r].todo \subseteq Ids
       /\ \A i \in Ids : Holds(r, i) =>
            After(r, i) \in IntegrationRow /\ \A q \in Requests \ {r} : ~Holds(q, i)
       /\ r.op = "update" /\ At(r, "commit") /\ Holds(r, r.id)
          /\ Readiness(integrations[r.id]) = Readiness(Loaded(r))
            => Ready(After(r, r.id))

Commits(r) == At(r, "commit") /\ session'[r].step = "ended"

\* The model says that a type has one default.  A second one appears only by a
\* promotion that had looked for defaults before the first became one, or by
\* one that comes back from a deletion.
SecondDefaultIsLate ==
  [][\A type \in Types :
       Cardinality(Defaults(integrations', type)) > 1
         => \/ Defaults(integrations', type) \subseteq Defaults(integrations, type)
            \/ \E r \in Requests :
                 /\ Commits(r)
                 /\ \/ r.op = "restore"
                    \/ /\ Promotes(r)
                       /\ session[r].seen \cap Defaults(integrations', type)
                            \subseteq {r.id}]_vars

\* A type keeps a default through every promotion: it loses the last one to a
\* request that gives it up or deletes it, or to a promotion that took its
\* integration for the default, or for one that is not deleted, when others
\* had changed that.
DefaultSurvives ==
  [][\A type \in Types :
       Defaults(integrations, type) # {} /\ Defaults(integrations', type) = {}
         => \E r \in Requests :
              /\ Commits(r)
              /\ \/ r.op \in {"delete", "bulk_delete"}
                 \/ r.op = "update" /\ "default" \in DOMAIN r.set /\ ~r.set.default
                 \/ /\ Promotes(r) /\ Exists(r.id)
                    /\ \/ Loaded(r).default # integrations[r.id].default
                       \/ integrations[r.id].deleted]_vars
=============================================================================
