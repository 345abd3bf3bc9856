------------------------- MODULE IntegrationsProofs -------------------------
(***************************************************************************)
(* Integrations and the default of a type, for any integrations, types and *)
(* requests.  A promotion holds the row it has written while it looks for  *)
(* the other defaults and clears them one by one.  The invariant says of   *)
(* every request what it has written so far and still has to write         *)
(* (RequestInv), which is what its commit makes of the table.              *)
(***************************************************************************)
EXTENDS Integrations, TLAPS

\* Some columns of a row, with values.
Values == Names \cup Types \cup IntegrationStatus \cup AuthenticationType \cup BOOLEAN
Partial == UNION {[columns -> Values] : columns \in SUBSET Columns}

SessionState ==
  [step: {"idle", "name", "write", "select", "flush", "commit", "ended"},
   row: IntegrationRow \cup {Null}, todo: SUBSET Ids,
   wrote: [Ids -> Partial \cup {Null}], seen: SUBSET Ids]

\* A row with some columns set.
Merge(row, set) == [c \in DOMAIN row |-> IF c \in DOMAIN set THEN set[c] ELSE row[c]]

\* Columns that change in the life of a row, with values of their types.
Typed(set) ==
  /\ DOMAIN set \subseteq Columns \ {"type"}
  /\ "name" \in DOMAIN set => set.name \in Names
  /\ "status" \in DOMAIN set => set.status \in IntegrationStatus
  /\ "auth" \in DOMAIN set => set.auth \in AuthenticationType
  /\ \A c \in DOMAIN set \ {"name", "status", "auth"} : set[c] \in BOOLEAN

\* What request r, which has loaded row, writes to the row: set or nothing.
Own(r, row, set) ==
  /\ set # Null =>
       /\ Typed(set)
       /\ "default" \in DOMAIN set => r.op = "update"
       /\ "deleted" \in DOMAIN set => \/ r.op = "restore" /\ ~set.deleted
                                      \/ r.op = "delete" /\ set.deleted
       /\ r.op = "update" => \A c \in DOMAIN set : c \in DOMAIN r.set /\ set[c] = r.set[c]
  /\ r.op = "update" =>
       \A c \in DOMAIN r.set : r.set[c] # row[c] => set # Null /\ c \in DOMAIN set

\* Whether r writes row i for another reason than that it is its own.
Flushes(r, i) == r.op \in BulkOps \/ i # r.id

\* Request r in state x, against the rows.
RequestInv(r, x, rows) ==
  /\ x.step \in {"idle", "name", "write", "ended"} => \A i \in Ids : x.wrote[i] = Null
  /\ x.step \in {"idle", "name", "write", "select", "ended"} => x.todo = {} /\ x.seen = {}
  /\ x.step = "commit" => x.todo = {}
  /\ r.op = "create" =>
       /\ x.step # "ended" => rows[r.id] = Null
       /\ x.step \notin {"idle", "ended"} => x.row = r.row
       /\ x.step \in {"select", "flush", "commit"} => x.wrote[r.id] = r.row
  /\ r.op \in RowOps =>
       /\ x.step \notin {"idle", "ended"} =>
            /\ x.row \in IntegrationRow
            /\ rows[r.id] # Null /\ rows[r.id].type = x.row.type
       /\ x.step \in {"select", "flush", "commit"} => Own(r, x.row, x.wrote[r.id])
  /\ r.op = "update" /\ x.step \in {"write", "select", "flush", "commit"} =>
       Ready(Merge(x.row, r.set))
  /\ r.op \in BulkOps => x.step \in {"idle", "flush", "commit", "ended"} /\ x.seen = {}
  /\ x.step = "name" => r.op \in {"create", "update"}
  /\ x.step = "select" => Promotes(r)
  /\ x.step = "flush" => r.op \in BulkOps \/ Promotes(r)
  /\ \A i \in x.todo :
       /\ rows[i] # Null
       /\ Flushes(r, i)
       /\ r.op \notin BulkOps => rows[i].type = x.row.type
  /\ \A i \in Ids : x.wrote[i] # Null /\ Flushes(r, i) =>
       /\ rows[i] # Null
       /\ x.wrote[i] = FlushedColumns(r)
       /\ r.op \notin BulkOps => Promotes(r) /\ rows[i].type = x.row.type
  /\ \A i \in x.seen : \/ i = r.id
                       \/ i \in x.todo
                       \/ x.wrote[i] = FlushedColumns(r)

\* No row has two uncommitted writers.
Locks ==
  \A r, q \in Requests : \A i \in Ids :
    r # q => session[r].wrote[i] = Null \/ session[q].wrote[i] = Null

Inv ==
  /\ integrations \in [Ids -> IntegrationRow \cup {Null}]
  /\ session \in [Requests -> SessionState]
  /\ Locks
  /\ \A r \in Requests : RequestInv(r, session[r], integrations)
----------------------------------------------------------------------------
(* Requests and columns.                                                   *)

\* What the assumptions say of one request.
LEMMA RequestFacts ==
  ASSUME NEW r \in Requests
  PROVE  /\ r.op \in {"create"} \cup RowOps \cup BulkOps
         /\ r.op \notin BulkOps => r.id \in Ids
         /\ r.op \in BulkOps => r.ids \subseteq Ids
         /\ r.op = "create" =>
              /\ SeedIntegrations[r.id] = Null /\ Created(r.row)
              /\ \A q \in Requests : q.op = "create" /\ q.id = r.id => q = r
         /\ r.op = "update" => Settable(r.set)
         /\ r.op = "update_status" => r.status \in IntegrationStatus
<1>1. ValidRequest(r)
  BY RequestsAssumption
<1>2. r.op = "create" => \A q \in Requests : q.op = "create" /\ q.id = r.id => q = r
  BY RequestsAssumption
<1> QED
  BY <1>1, <1>2 DEF ValidRequest, RowOps, StatusOps, BulkOps

\* Operations of different kinds are different.
LEMMA Kinds ==
  /\ "create" \notin RowOps \cup BulkOps
  /\ RowOps \cap BulkOps = {}
  /\ {"update", "delete", "restore"} \subseteq RowOps
BY DEF RowOps, StatusOps, BulkOps

\* A row has all the columns.
LEMMA WholeRows ==
  ASSUME NEW row \in IntegrationRow
  PROVE  DOMAIN row = Columns /\ row \in [Columns -> Values] /\ row \in Partial /\ row # Null
<1>1. DOMAIN row = Columns /\ row = [c \in Columns |-> row[c]]
  BY DEF IntegrationRow, Columns
<1>2. \A c \in Columns : row[c] \in Values
  BY DEF IntegrationRow, Columns, Values
<1>3. row \in [Columns -> Values]
  BY <1>1, <1>2
<1>4. row # Null
  BY <1>1, NullAssumption
<1> QED
  BY <1>1, <1>3, <1>4 DEF Partial

\* Setting some columns of a row makes a row of the same type.
LEMMA MergedRows ==
  ASSUME NEW row \in IntegrationRow, NEW set, Typed(set)
  PROVE  /\ Merge(row, set) \in IntegrationRow
         /\ Merge(row, set).type = row.type
         /\ \A c \in Columns :
              Merge(row, set)[c] = IF c \in DOMAIN set THEN set[c] ELSE row[c]
<1> DEFINE new == Merge(row, set)
<1>1. DOMAIN row = Columns
  BY WholeRows
<1>2. new = [c \in Columns |-> IF c \in DOMAIN set THEN set[c] ELSE row[c]]
  BY <1>1 DEF Merge
<1>3. DOMAIN new = Columns
      /\ \A c \in Columns : new[c] = IF c \in DOMAIN set THEN set[c] ELSE row[c]
  BY <1>2
<1> HIDE DEF new
<1>4. /\ new["name"] \in Names /\ new["type"] \in Types /\ new["type"] = row["type"]
      /\ new["status"] \in IntegrationStatus /\ new["auth"] \in AuthenticationType
  BY <1>3 DEF Columns, Typed, IntegrationRow
<1>5. /\ new["credentials"] \in BOOLEAN /\ new["configured"] \in BOOLEAN
      /\ new["default"] \in BOOLEAN /\ new["deleted"] \in BOOLEAN
  BY <1>3 DEF Columns, Typed, IntegrationRow
<1>6. new = [name |-> new["name"], type |-> new["type"], status |-> new["status"],
             auth |-> new["auth"], credentials |-> new["credentials"],
             configured |-> new["configured"], default |-> new["default"],
             deleted |-> new["deleted"]]
  BY <1>2, <1>3 DEF Columns, new
<1>7. new \in IntegrationRow
  BY <1>4, <1>5, <1>6 DEF IntegrationRow
<1> QED
  BY <1>3, <1>4, <1>7 DEF new

\* What each operation on a row assigns.
LEMMA AssignedColumns ==
  ASSUME NEW r \in Requests, r.op \in RowOps
  PROVE  /\ Typed(Assigned(r))
         /\ "default" \in DOMAIN Assigned(r) => r.op = "update"
         /\ "deleted" \in DOMAIN Assigned(r) =>
              \/ r.op = "restore" /\ ~Assigned(r).deleted
              \/ r.op = "delete" /\ Assigned(r).deleted
         /\ r.op = "update" => Assigned(r) = r.set
<1>1. CASE r.op = "update"
  <2>1. Assigned(r) = r.set /\ Settable(r.set)
    BY <1>1, RequestFacts DEF Assigned
  <2> QED
    BY <1>1, <2>1 DEF Settable, Typed, Columns
<1>2. CASE r.op = "delete"
  <2>1. Assigned(r) = [deleted |-> TRUE]
    BY <1>2 DEF Assigned
  <2>2. DOMAIN Assigned(r) = {"deleted"} /\ Assigned(r).deleted = TRUE
    BY <2>1
  <2> QED
    BY <1>2, <2>2 DEF Typed, Columns
<1>3. CASE r.op = "restore"
  <2>1. Assigned(r) = [deleted |-> FALSE]
    BY <1>3 DEF Assigned
  <2>2. DOMAIN Assigned(r) = {"deleted"} /\ Assigned(r).deleted = FALSE
    BY <2>1
  <2> QED
    BY <1>3, <2>2 DEF Typed, Columns
<1>4. CASE r.op \in {"enable", "disable", "update_status", "health_check"}
  <2>1. PICK status \in IntegrationStatus : Assigned(r) = [status |-> status]
    <3>1. "ACTIVE" \in IntegrationStatus /\ "INACTIVE" \in IntegrationStatus
          /\ "FAILED" \in IntegrationStatus
      BY DEF IntegrationStatus
    <3>2. CASE r.op = "enable"
      BY <3>1, <3>2 DEF Assigned
    <3>3. CASE r.op = "disable"
      BY <3>1, <3>3 DEF Assigned
    <3>4. CASE r.op = "update_status"
      BY <3>4, RequestFacts DEF Assigned
    <3>5. CASE r.op = "health_check"
      BY <3>1, <3>5 DEF Assigned
    <3> QED
      BY <1>4, <3>2, <3>3, <3>4, <3>5
  <2> QED
    BY <1>4, <2>1 DEF Typed, Columns
<1>5. CASE r.op = "update_sync_status"
  <2>1. Assigned(r) = [c \in {} |-> Null]
    BY <1>5 DEF Assigned
  <2> QED
    BY <1>5, <2>1 DEF Typed
<1> QED
  BY <1>1, <1>2, <1>3, <1>4, <1>5 DEF RowOps, StatusOps

\* Typed columns are columns with values, and not Null: a row can have them.
LEMMA TypedPartial ==
  ASSUME NEW row \in IntegrationRow,
         NEW set, Typed(set), set = [c \in DOMAIN set |-> set[c]]
  PROVE  set \in Partial /\ set # Null
<1>1. DOMAIN set \in SUBSET Columns
  BY DEF Typed
<1>2. \A c \in DOMAIN set : set[c] \in Values
  BY DEF Typed, Values
<1>3. set \in [DOMAIN set -> Values]
  BY <1>2
<1>4. set = [c \in DOMAIN set |-> Merge(row, set)[c]]
  BY <1>1, MergedRows
<1>5. Merge(row, set) \in IntegrationRow
  BY MergedRows
<1>6. set # Null
  BY <1>1, <1>4, <1>5, NullAssumption
<1> QED
  BY <1>1, <1>3, <1>6 DEF Partial

\* What an UPDATE of a request to its own row writes.
LEMMA ChangedColumns ==
  ASSUME NEW r \in Requests, r.op \in RowOps, Loaded(r) \in IntegrationRow
  PROVE  /\ Changed(r) \in Partial /\ Changed(r) # Null
         /\ Own(r, Loaded(r), IF Writes(r) THEN Changed(r) ELSE Null)
<1> DEFINE set == Assigned(r)
           columns == {c \in DOMAIN set : set[c] # Loaded(r)[c]}
           changed == [c \in columns |-> set[c]]
<1>1. Changed(r) = changed
  BY Kinds DEF Changed
<1>2. DOMAIN changed = columns /\ \A c \in columns : changed[c] = set[c]
  OBVIOUS
<1>3. columns \subseteq DOMAIN set /\ Typed(set)
  BY AssignedColumns
<1>4. changed = [c \in DOMAIN changed |-> changed[c]]
  OBVIOUS
<1> HIDE DEF changed
<1>5. Typed(changed)
  BY <1>2, <1>3 DEF Typed
<1>6. changed \in Partial /\ changed # Null
  BY <1>4, <1>5, TypedPartial
<1>7. Writes(r) \/ columns = {}
  BY <1>1, <1>2 DEF Writes
<1>8. r.op = "update" => \A c \in DOMAIN r.set : r.set[c] # Loaded(r)[c] => c \in columns
  BY AssignedColumns
<1>9. /\ "default" \in DOMAIN changed => r.op = "update"
      /\ "deleted" \in DOMAIN changed => \/ r.op = "restore" /\ ~changed.deleted
                                         \/ r.op = "delete" /\ changed.deleted
      /\ r.op = "update" => \A c \in DOMAIN changed : c \in DOMAIN r.set /\ changed[c] = r.set[c]
  BY <1>2, <1>3, AssignedColumns
<1> QED
  <2> HIDE DEF columns, set
  <2> QED
    BY <1>1, <1>2, <1>5, <1>6, <1>7, <1>8, <1>9 DEF Own

\* What a flush writes.
LEMMA FlushedRows ==
  ASSUME NEW r \in Requests, NEW row \in IntegrationRow
  PROVE  /\ FlushedColumns(r) \in Partial /\ FlushedColumns(r) # Null
         /\ Typed(FlushedColumns(r))
         /\ r.op \notin BulkOps => FlushedColumns(r) = [default |-> FALSE]
         /\ r.op \in BulkOps => "default" \notin DOMAIN FlushedColumns(r)
         /\ "deleted" \in DOMAIN FlushedColumns(r) =>
              r.op = "bulk_delete" /\ FlushedColumns(r).deleted
<1> DEFINE set == FlushedColumns(r)
<1>1. /\ set = [c \in DOMAIN set |-> set[c]]
      /\ Typed(set)
      /\ r.op \notin BulkOps => set = [default |-> FALSE]
      /\ r.op \in BulkOps => "default" \notin DOMAIN set
      /\ "deleted" \in DOMAIN set => r.op = "bulk_delete" /\ set.deleted
  <2>1. CASE r.op = "bulk_enable"
    <3>1. set = [status |-> "ACTIVE"]
      BY <2>1 DEF FlushedColumns
    <3> QED
      BY <2>1, <3>1 DEF Typed, Columns, IntegrationStatus, BulkOps
  <2>2. CASE r.op = "bulk_disable"
    <3>1. set = [status |-> "INACTIVE"]
      BY <2>2 DEF FlushedColumns
    <3> QED
      BY <2>2, <3>1 DEF Typed, Columns, IntegrationStatus, BulkOps
  <2>3. CASE r.op = "bulk_delete"
    <3>1. set = [deleted |-> TRUE]
      BY <2>3 DEF FlushedColumns
    <3>2. DOMAIN set = {"deleted"} /\ set.deleted = TRUE
          /\ set = [c \in DOMAIN set |-> set[c]]
      BY <3>1
    <3> HIDE DEF set
    <3> QED
      BY <2>3, <3>2 DEF Typed, Columns, BulkOps
  <2>4. CASE r.op \notin BulkOps
    <3>1. set = [default |-> FALSE]
      BY <2>4 DEF FlushedColumns, BulkOps
    <3>2. DOMAIN set = {"default"} /\ set.default = FALSE
          /\ set = [c \in DOMAIN set |-> set[c]]
      BY <3>1
    <3> HIDE DEF set
    <3> QED
      BY <2>4, <3>1, <3>2 DEF Typed, Columns
  <2> QED
    BY <2>1, <2>2, <2>3, <2>4 DEF BulkOps
<1> HIDE DEF set
<1>2. set \in Partial /\ set # Null
  BY <1>1, TypedPartial
<1> QED
  BY <1>1, <1>2 DEF set
----------------------------------------------------------------------------
(* Commits.                                                                *)

\* What a request makes of a row that is there.
LEMMA AfterExisting ==
  ASSUME Inv, NEW r \in Requests, NEW i \in Ids, Exists(i)
  PROVE  LET set == session[r].wrote[i] IN
         /\ After(r, i) \in IntegrationRow
         /\ After(r, i).type = integrations[i].type
         /\ set = Null => After(r, i) = integrations[i]
         /\ set # Null => /\ Typed(set)
                          /\ After(r, i) = Merge(integrations[i], set)
<1> DEFINE set == session[r].wrote[i]
<1>1. RequestInv(r, session[r], integrations) /\ integrations[i] \in IntegrationRow
  BY DEF Inv, Exists
<1>2. set # Null => Typed(set)
  <2>1. CASE Flushes(r, i)
    <3>1. Typed(FlushedColumns(r))
      BY <1>1, FlushedRows
    <3> QED
      BY <1>1, <2>1, <3>1 DEF RequestInv
  <2>2. CASE ~Flushes(r, i)
    <3>1. r.op \notin BulkOps /\ i = r.id
      BY <2>2 DEF Flushes
    <3>2. CASE r.op = "create"
      <4>1. set # Null => session[r].step \in {"select", "flush", "commit"}
        BY <1>1 DEF RequestInv, Inv, SessionState
      <4> QED
        BY <1>1, <3>1, <3>2, <4>1 DEF RequestInv, Exists
    <3>3. CASE r.op \in RowOps
      <4>1. set # Null => session[r].step \in {"select", "flush", "commit"}
        BY <1>1 DEF RequestInv, Inv, SessionState
      <4> QED
        BY <1>1, <3>1, <3>3, <4>1 DEF RequestInv, Own
    <3> QED
      BY <3>1, <3>2, <3>3, RequestFacts
  <2> QED
    BY <2>1, <2>2
<1>3. After(r, i) = IF set = Null THEN integrations[i] ELSE Merge(integrations[i], set)
  BY DEF After, Merge, Exists
<1> QED
  BY <1>1, <1>2, <1>3, MergedRows

\* A row that is not there is made by the request that creates it.
LEMMA AfterMissing ==
  ASSUME Inv, NEW r \in Requests, NEW i \in Ids, ~Exists(i)
  PROVE  /\ After(r, i) = session[r].wrote[i]
         /\ session[r].wrote[i] # Null =>
              r.op = "create" /\ i = r.id /\ After(r, i) = r.row /\ r.row \in IntegrationRow
<1>1. RequestInv(r, session[r], integrations) /\ session[r] \in SessionState
  BY DEF Inv
<1>2. After(r, i) = session[r].wrote[i]
  BY DEF After, Exists
<1>3. ASSUME session[r].wrote[i] # Null
      PROVE  r.op = "create" /\ i = r.id /\ session[r].wrote[i] = r.row
  <2>1. ~Flushes(r, i)
    BY <1>1, <1>3 DEF RequestInv, Exists
  <2>2. r.op \notin BulkOps /\ i = r.id
    BY <2>1 DEF Flushes
  <2>3. session[r].step \in {"select", "flush", "commit"}
    BY <1>1, <1>3 DEF RequestInv, SessionState
  <2>4. r.op \notin RowOps
    BY <1>1, <2>2, <2>3 DEF RequestInv, Exists
  <2>5. r.op = "create"
    BY <2>2, <2>4, RequestFacts
  <2> QED
    BY <1>1, <2>2, <2>3, <2>5 DEF RequestInv
<1>4. r.op = "create" => r.row \in IntegrationRow
  BY RequestFacts DEF Created
<1> QED
  BY <1>2, <1>3, <1>4

\* What a request knows stays true while rows stay and keep their types.
LEMMA Kept ==
  ASSUME NEW q \in Requests, NEW x, NEW rows, NEW new, RequestInv(q, x, rows),
         x \in SessionState,
         \A i \in Ids : rows[i] # Null => new[i] # Null /\ new[i].type = rows[i].type,
         q.op = "create" /\ rows[q.id] = Null /\ x.step # "ended" => new[q.id] = Null
  PROVE  RequestInv(q, x, new)
<1>1. q.op \notin BulkOps => q.id \in Ids
  BY RequestFacts
<1>2. x.todo \subseteq Ids
  BY DEF SessionState
<1>3. q.op \in RowOps => q.op \notin BulkOps
  BY Kinds
<1> QED
  BY <1>1, <1>2, <1>3 DEF RequestInv

\* A step of a request that commits nothing.
LEMMA GotoInv ==
  ASSUME Inv, NEW r \in Requests, NEW x \in SessionState, Goto(r, x),
         RequestInv(r, x, integrations),
         \A i \in Ids : \/ x.wrote[i] = Null
                        \/ x.wrote[i] = session[r].wrote[i]
                        \/ Free(r, i)
  PROVE  Inv'
<1>1. /\ session' = [session EXCEPT ![r] = x] /\ UNCHANGED integrations
      /\ session \in [Requests -> SessionState]
  BY DEF Goto, Inv
<1>2. session' \in [Requests -> SessionState]
  BY <1>1
<1>3. session'[r] = x /\ \A q \in Requests \ {r} : session'[q] = session[q]
  BY <1>1
<1>4. \A q \in Requests \ {r} : \A i \in Ids : x.wrote[i] = Null \/ session[q].wrote[i] = Null
  BY DEF Inv, Locks, Free, Holds
<1>5. Locks'
  BY <1>3, <1>4 DEF Inv, Locks
<1>6. \A q \in Requests : RequestInv(q, session'[q], integrations')
  BY <1>1, <1>3 DEF Inv
<1> QED
  BY <1>1, <1>2, <1>5, <1>6 DEF Inv

\* Requests that have ended hold nothing.
LEMMA FreshFacts ==
  ASSUME NEW step \in {"idle", "name", "write", "ended"}, NEW row \in IntegrationRow \cup {Null}
  PROVE  /\ Fresh(step, row) \in SessionState
         /\ Fresh(step, row).step = step /\ Fresh(step, row).row = row
         /\ Fresh(step, row).todo = {} /\ Fresh(step, row).seen = {}
         /\ \A i \in Ids : Fresh(step, row).wrote[i] = Null
BY DEF Fresh, SessionState

\* Nothing is asked of a request that has ended.
LEMMA EndedInv ==
  ASSUME NEW r \in Requests, NEW rows
  PROVE  RequestInv(r, Fresh("ended", Null), rows)
BY FreshFacts DEF RequestInv

\* What a commit does to the rows.
LEMMA Committed ==
  ASSUME Inv, NEW r \in Requests, Commit(r), NEW i \in Ids
  PROVE  /\ integrations'[i] = After(r, i)
         /\ integrations'[i] \in IntegrationRow \cup {Null}
         /\ Exists(i) => integrations'[i] # Null
                         /\ integrations'[i].type = integrations[i].type
<1>1. integrations'[i] = After(r, i)
  BY DEF Commit
<1>2. CASE Exists(i)
  <2>1. After(r, i) \in IntegrationRow /\ After(r, i).type = integrations[i].type
    BY <1>2, AfterExisting
  <2> QED
    BY <1>1, <2>1, WholeRows
<1>3. CASE ~Exists(i)
  BY <1>1, <1>3, AfterMissing
<1> QED
  BY <1>2, <1>3

\* A commit keeps the invariant: the rows of others stay, and so does what
\* others know of them.
LEMMA CommitInv ==
  ASSUME Inv, NEW r \in Requests, Commit(r)
  PROVE  Inv'
<1> DEFINE x == Fresh("ended", Null)
<1>1. /\ session' = [session EXCEPT ![r] = x]
      /\ session \in [Requests -> SessionState]
      /\ x \in SessionState /\ x.step = "ended" /\ \A i \in Ids : x.wrote[i] = Null
  BY FreshFacts DEF Commit, Inv
<1>2. RequestInv(r, x, integrations')
  BY EndedInv
<1> HIDE DEF x
<1>3. session' \in [Requests -> SessionState]
  BY <1>1
<1>4. session'[r] = x /\ \A q \in Requests \ {r} : session'[q] = session[q]
  BY <1>1
<1>5. Locks'
  BY <1>1, <1>4 DEF Inv, Locks
<1>6. integrations' \in [Ids -> IntegrationRow \cup {Null}]
  <2>1. integrations' = [i \in Ids |-> After(r, i)]
    BY DEF Commit
  <2>2. \A i \in Ids : After(r, i) \in IntegrationRow \cup {Null}
    BY Committed
  <2> QED
    BY <2>1, <2>2
<1>7. ASSUME NEW q \in Requests \ {r}
      PROVE  RequestInv(q, session[q], integrations')
  <2>1. \A i \in Ids : integrations[i] # Null =>
          integrations'[i] # Null /\ integrations'[i].type = integrations[i].type
    BY Committed DEF Exists
  <2>2. ASSUME q.op = "create", integrations[q.id] = Null
        PROVE  integrations'[q.id] = Null
    <3>1. q.id \in Ids /\ ~Exists(q.id)
      BY <2>2, RequestFacts, Kinds DEF Exists
    <3>2. ~(r.op = "create" /\ q.id = r.id)
      BY <2>2, RequestFacts
    <3> QED
      BY <3>1, <3>2, AfterMissing, Committed
  <2>3. RequestInv(q, session[q], integrations) /\ session[q] \in SessionState
    BY DEF Inv
  <2> QED
    BY <2>1, <2>2, <2>3, Kept
<1>8. \A q \in Requests : RequestInv(q, session'[q], integrations')
  BY <1>2, <1>4, <1>7
<1> QED
  BY <1>3, <1>5, <1>6, <1>8 DEF Inv
----------------------------------------------------------------------------
(* Steps.                                                                  *)

\* Each step keeps the invariant.
LEMMA BeginCreateInv ==
  ASSUME Inv, NEW r \in Requests, BeginCreate(r)
  PROVE  Inv'
<1> DEFINE x == Fresh("name", r.row)
<1>1. r.op = "create" /\ At(r, "idle") /\ Goto(r, x)
  BY DEF BeginCreate
<1>2. r.row \in IntegrationRow
  BY <1>1, RequestFacts DEF Created
<1>3. x \in SessionState /\ x.step = "name" /\ x.row = r.row /\ x.todo = {} /\ x.seen = {}
      /\ \A i \in Ids : x.wrote[i] = Null
  BY <1>2, FreshFacts
<1> HIDE DEF x
<1>4. integrations[r.id] = Null
  BY <1>1 DEF Inv, RequestInv, At
<1>5. RequestInv(r, x, integrations)
  BY <1>1, <1>3, <1>4, Kinds DEF RequestInv
<1> QED
  BY <1>1, <1>3, <1>5, GotoInv

\* A request on one row loads it.
LEMMA LoadInv ==
  ASSUME Inv, NEW r \in Requests, Load(r)
  PROVE  Inv'
<1> DEFINE row == integrations[r.id]
           step == IF r.op = "update" THEN "name" ELSE "write"
           x == Fresh(step, row)
<1>1. r.op \in RowOps /\ Exists(r.id) /\ Goto(r, x)
  BY DEF Load
<1>2. r.id \in Ids /\ r.op \notin BulkOps /\ r.op # "create"
  BY <1>1, RequestFacts, Kinds
<1>3. row \in IntegrationRow /\ row # Null
  BY <1>1, <1>2 DEF Inv, Exists
<1>4. x \in SessionState /\ x.step = step /\ x.row = row /\ x.todo = {} /\ x.seen = {}
      /\ \A i \in Ids : x.wrote[i] = Null
  BY <1>3, FreshFacts
<1> HIDE DEF x
<1>5. RequestInv(r, x, integrations)
  BY <1>1, <1>2, <1>3, <1>4 DEF RequestInv
<1> QED
  BY <1>1, <1>4, <1>5, GotoInv

\* What an update will leave is ready when its name is checked.
LEMMA CheckNameInv ==
  ASSUME Inv, NEW r \in Requests, CheckName(r)
  PROVE  Inv'
<1> DEFINE y == session[r]
           x == [y EXCEPT !.step = "write"]
<1>1. y.step = "name" /\ Ready(Resulting(r)) /\ Goto(r, x)
  BY DEF CheckName, At
<1>2. y \in SessionState /\ RequestInv(r, y, integrations)
  BY DEF Inv
<1>3. x \in SessionState /\ x.step = "write" /\ x.row = y.row /\ x.todo = y.todo
      /\ x.wrote = y.wrote /\ x.seen = y.seen
  BY <1>2 DEF SessionState
<1> HIDE DEF x
<1>4. r.op = "update" => Ready(Merge(x.row, r.set))
  BY <1>1, <1>3 DEF Resulting, Merge, Loaded
<1>5. RequestInv(r, x, integrations)
  BY <1>1, <1>2, <1>3, <1>4 DEF RequestInv
<1> QED
  BY <1>1, <1>3, <1>5, GotoInv

\* A request writes its own row, and locks it.
LEMMA WriteInv ==
  ASSUME Inv, NEW r \in Requests, Write(r)
  PROVE  Inv'
<1> DEFINE y == session[r]
           step == IF Promotes(r) THEN "select" ELSE "commit"
           set == IF Writes(r) THEN Changed(r) ELSE Null
           x == [y EXCEPT !.step = step, !.wrote[r.id] = set]
<1>1. y.step = "write" /\ (Writes(r) => Free(r, r.id)) /\ Goto(r, x)
  BY DEF Write, At
<1>2. y \in SessionState /\ RequestInv(r, y, integrations)
  BY DEF Inv
<1>3. r.op \notin BulkOps /\ r.id \in Ids /\ r.op \in {"create"} \cup RowOps
  BY <1>1, <1>2, RequestFacts DEF RequestInv
<1>4. r.op = "create" => set = r.row /\ r.row \in IntegrationRow
  <2> SUFFICES ASSUME r.op = "create" PROVE set = r.row /\ r.row \in IntegrationRow
    OBVIOUS
  <2>1. r.row \in IntegrationRow
    BY RequestFacts DEF Created
  <2>2. Assigned(r) = r.row
    BY DEF Assigned
  <2>3. Changed(r) = [c \in DOMAIN r.row |-> r.row[c]]
    BY <2>2 DEF Changed
  <2>4. Changed(r) = r.row /\ DOMAIN r.row # {}
    BY <2>1, <2>3, WholeRows DEF Columns
  <2> QED
    BY <2>1, <2>4 DEF Writes
<1>5. r.op \in RowOps => /\ Own(r, y.row, set)
                          /\ Changed(r) \in Partial
  BY <1>1, <1>2, ChangedColumns DEF Loaded, RequestInv
<1>6. set \in Partial \cup {Null}
  BY <1>3, <1>4, <1>5, WholeRows
<1> HIDE DEF set, step
<1>7. /\ x \in SessionState /\ x.step = step /\ x.row = y.row /\ x.todo = y.todo
      /\ x.seen = y.seen /\ x.wrote = [y.wrote EXCEPT ![r.id] = set]
  BY <1>2, <1>3, <1>6 DEF SessionState, step
<1> HIDE DEF x
<1>8. x.wrote[r.id] = set /\ \A i \in Ids : i # r.id => x.wrote[i] = Null
  BY <1>1, <1>2, <1>3, <1>7 DEF RequestInv, SessionState
<1>9. x.step \in {"select", "commit"} /\ (x.step = "select" => Promotes(r))
  BY <1>7 DEF step
<1>10. RequestInv(r, x, integrations)
  BY <1>1, <1>2, <1>3, <1>4, <1>5, <1>7, <1>8, <1>9, Kinds DEF RequestInv, Flushes
<1>11. set # Null => Free(r, r.id)
  BY <1>1 DEF set
<1>12. \A i \in Ids : \/ x.wrote[i] = Null
                      \/ x.wrote[i] = session[r].wrote[i]
                      \/ Free(r, i)
  BY <1>8, <1>11
<1>13. Goto(r, x)
  BY <1>1 DEF x, step, set
<1>14. x \in SessionState
  BY <1>7
<1> HIDE DEF y
<1> QED
  BY <1>10, <1>12, <1>13, <1>14, GotoInv

\* A promotion finds the other defaults.
LEMMA SelectRivalsInv ==
  ASSUME Inv, NEW r \in Requests, SelectRivals(r)
  PROVE  Inv'
<1> DEFINE y == session[r]
           step == IF Rivals(r) = {} THEN "commit" ELSE "flush"
           seen == Defaults(integrations, Loaded(r).type)
           x == [y EXCEPT !.step = step, !.todo = Rivals(r), !.seen = seen]
<1>1. y.step = "select" /\ Goto(r, x)
  BY DEF SelectRivals, At
<1>2. y \in SessionState /\ RequestInv(r, y, integrations)
  BY DEF Inv
<1>3. Promotes(r) /\ r.op \notin BulkOps
  BY <1>1, <1>2 DEF RequestInv
<1>4. Rivals(r) = seen \ {r.id} /\ seen \subseteq Ids
      /\ \A i \in seen : integrations[i] # Null /\ integrations[i].type = y.row.type
  BY DEF Rivals, Defaults, Loaded
<1> HIDE DEF seen
<1>5. /\ x \in SessionState /\ x.step = step /\ x.row = y.row /\ x.todo = Rivals(r)
      /\ x.seen = seen /\ x.wrote = y.wrote
  BY <1>2, <1>4 DEF SessionState
<1> HIDE DEF x
<1>6. x.step \in {"commit", "flush"} /\ (x.step = "commit" => x.todo = {})
  BY <1>5
<1> HIDE DEF step
<1>7. RequestInv(r, x, integrations)
  BY <1>1, <1>2, <1>3, <1>4, <1>5, <1>6 DEF RequestInv, Flushes
<1> QED
  BY <1>1, <1>5, <1>7, GotoInv

\* A bulk request selects its rows.
LEMMA BeginBulkInv ==
  ASSUME Inv, NEW r \in Requests, BeginBulk(r)
  PROVE  Inv'
<1> DEFINE x == [Fresh("flush", Null) EXCEPT !.todo = Selected(r)]
<1>1. r.op \in BulkOps /\ Goto(r, x)
  BY DEF BeginBulk
<1>2. Selected(r) \subseteq Ids /\ \A i \in Selected(r) : integrations[i] # Null
  BY <1>1, RequestFacts DEF Selected, Live, Exists
<1>3. /\ x \in SessionState /\ x.step = "flush" /\ x.todo = Selected(r) /\ x.seen = {}
      /\ \A i \in Ids : x.wrote[i] = Null
  BY <1>2 DEF Fresh, SessionState
<1> HIDE DEF x
<1>4. RequestInv(r, x, integrations)
  BY <1>1, <1>2, <1>3, Kinds DEF RequestInv, Flushes
<1> QED
  BY <1>1, <1>3, <1>4, GotoInv

\* The next row of a flush is written, and locked.
LEMMA FlushInv ==
  ASSUME Inv, NEW r \in Requests, Flush(r)
  PROVE  Inv'
<1> DEFINE y == session[r]
<1>1. PICK i \in y.todo :
        /\ Free(r, i)
        /\ Goto(r, [y EXCEPT !.step = IF y.todo \ {i} = {} THEN "commit" ELSE "flush",
                             !.todo = y.todo \ {i},
                             !.wrote[i] = FlushedColumns(r)])
  BY DEF Flush
<1> DEFINE step == IF y.todo \ {i} = {} THEN "commit" ELSE "flush"
           x == [y EXCEPT !.step = step, !.todo = y.todo \ {i},
                          !.wrote[i] = FlushedColumns(r)]
<1>2. y \in SessionState /\ RequestInv(r, y, integrations) /\ y.step = "flush"
  BY DEF Inv, Flush, At
<1>3. i \in Ids /\ FlushedColumns(r) \in Partial
  <2>1. i \in Ids /\ integrations[i] \in IntegrationRow
    BY <1>2 DEF SessionState, RequestInv, Inv
  <2> QED
    BY <2>1, FlushedRows
<1>4. /\ x \in SessionState /\ x.step = step /\ x.row = y.row /\ x.todo = y.todo \ {i}
      /\ x.seen = y.seen /\ x.wrote = [y.wrote EXCEPT ![i] = FlushedColumns(r)]
  BY <1>2, <1>3 DEF SessionState
<1>5. Goto(r, x)
  BY <1>1
<1> HIDE DEF x
<1>6. x.step \in {"commit", "flush"} /\ (x.step = "commit" => x.todo = {})
  BY <1>4
<1> HIDE DEF step
<1>7. x.wrote[i] = FlushedColumns(r) /\ \A j \in Ids : j # i => x.wrote[j] = y.wrote[j]
  BY <1>2, <1>3, <1>4 DEF SessionState
<1>8. integrations[i] # Null /\ Flushes(r, i) /\ (r.op \in BulkOps \/ Promotes(r))
      /\ (r.op \notin BulkOps => i # r.id /\ integrations[i].type = y.row.type)
  BY <1>2 DEF RequestInv, Flushes
<1>9. r.op \notin BulkOps => r.id \in Ids /\ x.wrote[r.id] = y.wrote[r.id]
  BY <1>7, <1>8, RequestFacts
<1>10. y.seen \subseteq Ids
  BY <1>2 DEF SessionState
<1>11. RequestInv(r, x, integrations)
  BY <1>2, <1>3, <1>4, <1>6, <1>7, <1>8, <1>9, <1>10, Kinds DEF RequestInv
<1>12. \A j \in Ids : \/ x.wrote[j] = Null
                      \/ x.wrote[j] = session[r].wrote[j]
                      \/ Free(r, j)
  BY <1>1, <1>7
<1>13. x \in SessionState
  BY <1>4
<1> HIDE DEF y
<1> QED
  BY <1>5, <1>11, <1>12, <1>13, GotoInv

\* A rollback leaves nothing.
LEMMA AbandonInv ==
  ASSUME Inv, NEW r \in Requests, Abandon(r)
  PROVE  Inv'
<1> QED
  BY FreshFacts, EndedInv, GotoInv DEF Abandon

\* Requests begin with nothing.
LEMMA InitInv == Init => Inv
<1> SUFFICES ASSUME Init PROVE Inv
  OBVIOUS
<1>1. integrations \in [Ids -> IntegrationRow \cup {Null}]
  BY SeedAssumption DEF Init
<1>2. ASSUME NEW r \in Requests
      PROVE  /\ session[r] \in SessionState
             /\ RequestInv(r, session[r], integrations)
             /\ \A i \in Ids : session[r].wrote[i] = Null
  <2>1. PICK step \in {"idle", "ended"} : session[r] = Fresh(step, Null)
    BY DEF Init
  <2>2. r.op = "create" => integrations[r.id] = Null
    BY RequestFacts DEF Init
  <2> QED
    BY <2>1, <2>2, FreshFacts DEF RequestInv
<1>3. session = [r \in Requests |-> session[r]]
  BY DEF Init
<1>4. session \in [Requests -> SessionState]
  BY <1>2, <1>3
<1> QED
  BY <1>1, <1>2, <1>4 DEF Inv, Locks

\* Every step keeps the invariant.
LEMMA StepInv == Inv /\ [Next]_vars => Inv'
<1>1. CASE UNCHANGED vars
  BY <1>1 DEF vars, Inv, Locks
<1> QED
  BY <1>1, BeginCreateInv, LoadInv, CheckNameInv, WriteInv, SelectRivalsInv, BeginBulkInv,
     FlushInv, CommitInv, AbandonInv DEF Next

\* The invariant.
LEMMA Invariant == Spec => []Inv
BY InitInv, StepInv, PTL DEF Spec
----------------------------------------------------------------------------
(* What the invariant shows.                                               *)

\* What makes an integration ready is what the update validated, unless
\* another request changed it.
LEMMA StaysReady ==
  ASSUME Inv, NEW r \in Requests, r.op = "update", At(r, "commit"), Holds(r, r.id),
         Readiness(integrations[r.id]) = Readiness(Loaded(r))
  PROVE  Ready(After(r, r.id))
<1> DEFINE row == session[r].row
           old == integrations[r.id]
           set == session[r].wrote[r.id]
           Decides == {"auth", "credentials", "configured"}
<1>1. r.id \in Ids /\ r.op \in RowOps /\ RequestInv(r, session[r], integrations)
  BY RequestFacts, Kinds DEF Inv
<1>2. row \in IntegrationRow /\ old # Null /\ Own(r, row, set) /\ set # Null
      /\ Ready(Merge(row, r.set))
  BY <1>1 DEF RequestInv, At, Holds
<1>3. old \in IntegrationRow
  BY <1>1, <1>2 DEF Inv
<1>4. Typed(set) /\ After(r, r.id) = Merge(old, set)
  BY <1>1, <1>2, AfterExisting DEF Exists
<1>5. Typed(r.set)
  BY <1>1, AssignedColumns
<1>6. \A c \in Decides : old[c] = row[c]
  BY DEF Readiness, Loaded
<1> HIDE DEF row, old, set
<1>7. \A c \in Decides : Merge(old, set)[c] = Merge(row, r.set)[c]
  <2>1. Decides \subseteq Columns
    BY DEF Columns
  <2>2. \A c \in Columns : /\ Merge(old, set)[c] = IF c \in DOMAIN set THEN set[c] ELSE old[c]
                           /\ Merge(row, r.set)[c] = IF c \in DOMAIN r.set THEN r.set[c]
                                                     ELSE row[c]
    BY <1>2, <1>3, <1>4, <1>5, MergedRows
  <2>3. \A c \in Columns : /\ c \in DOMAIN set => c \in DOMAIN r.set /\ set[c] = r.set[c]
                           /\ c \in DOMAIN r.set /\ r.set[c] # row[c] => c \in DOMAIN set
    BY <1>2 DEF Own
  <2> QED
    BY <1>6, <2>1, <2>2, <2>3
<1> QED
  BY <1>2, <1>4, <1>7 DEF Ready

\* Rows are rows, no row has two uncommitted writers, and an update leaves its
\* integration ready unless what it validated has changed, for any
\* integrations and requests.
THEOREM IntegrationsTypeCorrect == Spec => []TypeOK
<1>1. ASSUME Inv, NEW r \in Requests, NEW i \in Ids, Holds(r, i)
      PROVE  After(r, i) \in IntegrationRow /\ \A q \in Requests \ {r} : ~Holds(q, i)
  <2>1. After(r, i) \in IntegrationRow
    BY <1>1, AfterExisting, AfterMissing DEF Holds
  <2> QED
    BY <1>1, <2>1 DEF Inv, Locks, Holds
<1>2. Inv => TypeOK
  <2> SUFFICES ASSUME Inv PROVE TypeOK
    OBVIOUS
  <2>1. integrations \in [Ids -> IntegrationRow \cup {Null}]
    BY DEF Inv
  <2>2. \A r \in Requests : session[r] \in SessionState
    BY DEF Inv
  <2> QED
    BY <1>1, <2>1, <2>2, StaysReady DEF TypeOK, Loaded, SessionState
<1> QED
  BY <1>2, Invariant, PTL

\* Rows change by commits.
LEMMA Changes ==
  ASSUME Inv, [Next]_vars, integrations' # integrations
  PROVE  \E r \in Requests : Commit(r) /\ Commits(r)
<1>1. PICK r \in Requests : Commit(r)
  BY DEF Next, BeginCreate, Load, CheckName, Write, SelectRivals, BeginBulk, Flush, Abandon,
         Goto, vars
<1>2. session' = [session EXCEPT ![r] = Fresh("ended", Null)]
      /\ session \in [Requests -> SessionState] /\ At(r, "commit")
  BY <1>1 DEF Commit, Inv
<1>3. session'[r].step = "ended"
  BY <1>2 DEF Fresh
<1>4. At(r, "commit")
  BY <1>2
<1>5. Commits(r)
  BY <1>3, <1>4 DEF Commits
<1> QED
  BY <1>1, <1>5

\* A row that is there, as the default of a type.
LEMMA DefaultRows ==
  ASSUME NEW rows, NEW type, NEW i
  PROVE  i \in Defaults(rows, type) <=> /\ i \in Ids
                                        /\ rows[i] # Null
                                        /\ rows[i].type = type
                                        /\ rows[i].default /\ ~rows[i].deleted
BY DEF Defaults

\* What a commit that makes a default of a row has done.
LEMMA NewDefault ==
  ASSUME Inv, NEW r \in Requests, Commit(r), NEW type,
         NEW i \in Defaults(integrations', type) \ Defaults(integrations, type)
  PROVE  r.op = "restore" \/ Promotes(r)
<1> DEFINE set == session[r].wrote[i]
           old == integrations[i]
           new == integrations'[i]
<1>1. i \in Ids /\ new # Null /\ new.type = type /\ new.default /\ ~new.deleted
  BY DefaultRows
<1>2. new = After(r, i) /\ RequestInv(r, session[r], integrations)
      /\ session[r].step = "commit"
  BY <1>1, Committed DEF Inv, Commit, At
<1>3. CASE ~Exists(i)
  <2>1. r.op = "create" /\ new = r.row
    BY <1>1, <1>2, <1>3, AfterMissing
  <2> QED
    BY <1>1, <2>1 DEF Promotes
<1>4. CASE Exists(i)
  <2>1. /\ old \in IntegrationRow /\ new.type = old.type
        /\ set = Null => new = old
        /\ set # Null => Typed(set) /\ new = Merge(old, set)
    BY <1>1, <1>2, <1>4, AfterExisting DEF Exists, Inv
  <2>2. ~(old.default /\ ~old.deleted)
    BY <1>1, <1>4, <2>1, DefaultRows DEF Exists
  <2>3. set # Null
    BY <1>1, <2>1, <2>2
  <2> HIDE DEF set, old, new
  <2>4. \A c \in {"default", "deleted"} :
          new[c] = IF c \in DOMAIN set THEN set[c] ELSE old[c]
    BY <2>1, <2>3, MergedRows DEF Columns
  <2>5. \/ "default" \in DOMAIN set /\ set.default
        \/ "deleted" \in DOMAIN set /\ ~set.deleted
    BY <1>1, <2>2, <2>4
  <2>6. ~Flushes(r, i)
    <3>1. Flushes(r, i) => set = FlushedColumns(r)
      BY <1>1, <1>2, <2>3 DEF RequestInv, set
    <3>2. FlushedColumns(r) = [default |-> FALSE] \/ r.op \in BulkOps
      BY <2>1, FlushedRows
    <3>3. ~("default" \in DOMAIN FlushedColumns(r) /\ FlushedColumns(r).default)
      BY <2>1, <3>2, FlushedRows
    <3>4. ~("deleted" \in DOMAIN FlushedColumns(r) /\ ~FlushedColumns(r).deleted)
      BY <2>1, FlushedRows
    <3> QED
      BY <2>5, <3>1, <3>3, <3>4
  <2>7. i = r.id /\ r.op \notin BulkOps
    BY <2>6 DEF Flushes
  <2>8. r.op \in RowOps
    BY <1>2, <1>4, <2>7, RequestFacts DEF RequestInv, Exists
  <2>9. Own(r, session[r].row, set)
    BY <1>2, <2>7, <2>8 DEF RequestInv, set
  <2>10. CASE "default" \in DOMAIN set /\ set.default
    BY <2>3, <2>9, <2>10 DEF Own, Promotes
  <2>11. CASE "deleted" \in DOMAIN set /\ ~set.deleted
    BY <2>3, <2>9, <2>11 DEF Own
  <2> QED
    BY <2>5, <2>10, <2>11
<1> QED
  BY <1>3, <1>4

\* A promotion that commits has cleared the defaults that it found.
LEMMA ClearedDefaults ==
  ASSUME Inv, NEW r \in Requests, Commit(r), Promotes(r), NEW type
  PROVE  session[r].seen \cap Defaults(integrations', type) \subseteq {r.id}
<1> SUFFICES ASSUME NEW i \in session[r].seen, i # r.id,
                    i \in Defaults(integrations', type)
             PROVE  FALSE
  OBVIOUS
<1>1. RequestInv(r, session[r], integrations) /\ session[r] \in SessionState
      /\ session[r].step = "commit"
  BY DEF Inv, Commit, At
<1>2. i \in Ids /\ session[r].wrote[i] = FlushedColumns(r) /\ r.op \notin BulkOps
  BY <1>1, Kinds DEF RequestInv, SessionState, Promotes
<1>3. session[r].wrote[i] = [default |-> FALSE] /\ session[r].wrote[i] # Null
  <2>1. session[r].row \in IntegrationRow
    BY <1>1, <1>2, RequestFacts DEF RequestInv, Created
  <2> QED
    BY <1>2, <2>1, FlushedRows
<1>4. Exists(i)
  BY <1>1, <1>2, <1>3 DEF RequestInv, Flushes, Exists
<1>5. integrations[i] \in IntegrationRow /\ integrations'[i] = After(r, i)
      /\ Typed(session[r].wrote[i])
      /\ After(r, i) = Merge(integrations[i], session[r].wrote[i])
  BY <1>2, <1>3, <1>4, AfterExisting, Committed DEF Inv, Exists
<1>6. integrations'[i].default = FALSE
  BY <1>3, <1>5, MergedRows DEF Columns
<1> QED
  BY <1>6, DefaultRows

\* A type gets a second default only by a promotion that had looked for the
\* defaults before the first became one, or by one that comes back from a
\* deletion, for any number of promotions at once.
THEOREM DefaultsAreLate == Spec => SecondDefaultIsLate
<1> DEFINE Late ==
      \A type \in Types :
        Cardinality(Defaults(integrations', type)) > 1
          => \/ Defaults(integrations', type) \subseteq Defaults(integrations, type)
             \/ \E r \in Requests :
                  /\ Commits(r)
                  /\ \/ r.op = "restore"
                     \/ /\ Promotes(r)
                        /\ session[r].seen \cap Defaults(integrations', type)
                             \subseteq {r.id}
<1>1. ASSUME Inv, [Next]_vars PROVE Late
  <2> SUFFICES ASSUME NEW type \in Types,
                      ~(Defaults(integrations', type) \subseteq Defaults(integrations, type))
               PROVE  \E r \in Requests :
                        /\ Commits(r)
                        /\ \/ r.op = "restore"
                           \/ /\ Promotes(r)
                              /\ session[r].seen \cap Defaults(integrations', type)
                                   \subseteq {r.id}
    OBVIOUS
  <2>1. integrations' # integrations
    OBVIOUS
  <2>2. PICK r \in Requests : Commit(r) /\ Commits(r)
    BY <1>1, <2>1, Changes
  <2>3. PICK i : i \in Defaults(integrations', type) \ Defaults(integrations, type)
    OBVIOUS
  <2>4. r.op = "restore" \/ Promotes(r)
    BY <1>1, <2>2, <2>3, NewDefault
  <2> QED
    BY <1>1, <2>2, <2>4, ClearedDefaults
<1>2. Inv /\ [Next]_vars => [Late]_vars
  BY <1>1
<1> QED
  BY <1>2, InitInv, StepInv, PTL DEF Spec, SecondDefaultIsLate

\* A type keeps a default through every commit, but for a deletion, an update
\* that gives it up, and a promotion whose integration others have deleted or
\* ceased to be the default since it was loaded, for any requests at once.
THEOREM DefaultsSurvive == Spec => DefaultSurvives
<1> DEFINE GivesUp(r) ==
             \/ r.op \in {"delete", "bulk_delete"}
             \/ r.op = "update" /\ "default" \in DOMAIN r.set /\ ~r.set.default
             \/ /\ Promotes(r) /\ Exists(r.id)
                /\ \/ Loaded(r).default # integrations[r.id].default
                   \/ integrations[r.id].deleted
           Survives ==
             \A type \in Types :
               Defaults(integrations, type) # {} /\ Defaults(integrations', type) = {}
                 => \E r \in Requests :
                      /\ Commits(r)
                      /\ \/ r.op \in {"delete", "bulk_delete"}
                         \/ r.op = "update" /\ "default" \in DOMAIN r.set /\ ~r.set.default
                         \/ /\ Promotes(r) /\ Exists(r.id)
                            /\ \/ Loaded(r).default # integrations[r.id].default
                               \/ integrations[r.id].deleted
<1>1. ASSUME Inv, NEW r \in Requests, Commit(r), NEW type,
             NEW i \in Defaults(integrations, type), Defaults(integrations', type) = {}
      PROVE  GivesUp(r)
  <2> DEFINE set == session[r].wrote[i]
             old == integrations[i]
             new == integrations'[i]
  <2>1. i \in Ids /\ old # Null /\ old.type = type /\ old.default /\ ~old.deleted
    BY DefaultRows
  <2>2. i \notin Defaults(integrations', type)
    BY <1>1
  <2>3. /\ new = After(r, i) /\ RequestInv(r, session[r], integrations)
        /\ session[r].step = "commit" /\ old \in IntegrationRow
    BY <1>1, <2>1, Committed DEF Inv, Commit, At
  <2>4. /\ new \in IntegrationRow /\ new.type = old.type
        /\ set = Null => new = old
        /\ set # Null => Typed(set) /\ new = Merge(old, set)
    BY <1>1, <2>1, <2>3, AfterExisting DEF Exists
  <2>5. ~new.default \/ new.deleted
    BY <2>1, <2>2, <2>4, WholeRows, DefaultRows
  <2>6. set # Null
    BY <2>1, <2>4, <2>5
  <2> HIDE DEF set, old, new
  <2>7. \/ "default" \in DOMAIN set /\ ~set.default
        \/ "deleted" \in DOMAIN set /\ set.deleted
    BY <2>1, <2>3, <2>4, <2>5, <2>6, MergedRows DEF Columns
  <2>8. CASE ~Flushes(r, i)
    <3>1. i = r.id /\ r.op \notin BulkOps
      BY <2>8 DEF Flushes
    <3>2. r.op \in RowOps
      BY <2>1, <2>3, <3>1, RequestFacts DEF RequestInv, old
    <3>3. Own(r, session[r].row, set)
      BY <2>3, <3>1, <3>2 DEF RequestInv, set
    <3> QED
      BY <2>6, <2>7, <3>3 DEF Own
  <2>9. CASE r.op \in BulkOps
    <3>1. set = FlushedColumns(r)
      BY <2>1, <2>3, <2>6, <2>9 DEF RequestInv, Flushes, set
    <3> QED
      BY <2>3, <2>7, <2>9, <3>1, FlushedRows
  <2>10. CASE r.op \notin BulkOps /\ i # r.id
    <3>1. Promotes(r) /\ session[r].row.type = type /\ r.id \in Ids
      BY <2>1, <2>3, <2>6, <2>10, RequestFacts DEF RequestInv, Flushes, set, old
    <3>2. integrations'[r.id] = After(r, r.id) /\ r.id \notin Defaults(integrations', type)
      BY <1>1, <3>1, Committed
    <3>3. CASE r.op = "create"
      <4>1. /\ integrations[r.id] = Null /\ session[r].row = r.row
            /\ session[r].wrote[r.id] = r.row /\ r.row \in IntegrationRow
            /\ Created(r.row)
        BY <2>3, <3>3, RequestFacts DEF RequestInv, Created
      <4>2. integrations'[r.id] = r.row /\ r.row # Null
        BY <1>1, <3>1, <3>2, <4>1, AfterMissing, WholeRows DEF Exists
      <4>3. r.row.default /\ ~r.row.deleted /\ r.row.type = type
        BY <3>1, <3>3, <4>1 DEF Promotes, Created
      <4> QED
        BY <3>1, <3>2, <4>2, <4>3, DefaultRows
    <3>4. CASE r.op = "update"
      <4> DEFINE mine == session[r].wrote[r.id]
                 row == session[r].row
                 was == integrations[r.id]
                 is == integrations'[r.id]
      <4>1. /\ row \in IntegrationRow /\ was # Null /\ was.type = row.type
            /\ Own(r, row, mine)
            /\ "default" \in DOMAIN r.set /\ r.set.default = TRUE
        <5>1. "default" \in DOMAIN r.set /\ r.set.default = TRUE
          BY <3>1, <3>4, RequestFacts DEF Promotes, Settable
        <5> QED
          BY <2>3, <3>4, <5>1, Kinds DEF RequestInv
      <4>2. was \in IntegrationRow
        BY <1>1, <3>1, <4>1 DEF Inv
      <4>3. /\ is \in IntegrationRow /\ is.type = was.type
            /\ mine = Null => is = was
            /\ mine # Null => Typed(mine) /\ is = Merge(was, mine)
        BY <1>1, <3>1, <3>2, <4>1, AfterExisting DEF Exists
      <4>4. ~is.default \/ is.deleted
        BY <3>1, <3>2, <4>1, <4>3, WholeRows, DefaultRows
      <4> HIDE DEF mine, row, was, is
      <4>5. row.default = was.default => is.default = TRUE
        <5>1. CASE mine # Null /\ "default" \in DOMAIN mine
          <6>1. mine.default = TRUE
            BY <3>4, <4>1, <5>1 DEF Own
          <6> QED
            BY <4>2, <4>3, <5>1, <6>1, MergedRows DEF Columns
        <5>2. CASE mine = Null \/ "default" \notin DOMAIN mine
          <6>1. row.default = TRUE
            BY <3>4, <4>1, <5>2 DEF Own
          <6>2. is.default = was.default
            BY <4>2, <4>3, <5>2, MergedRows DEF Columns
          <6> QED
            BY <6>1, <6>2
        <5> QED
          BY <5>1, <5>2
      <4>6. is.deleted = was.deleted
        <5>1. mine # Null => "deleted" \notin DOMAIN mine
          BY <3>4, <4>1 DEF Own
        <5> QED
          BY <4>2, <4>3, <5>1, MergedRows DEF Columns
      <4>7. row.default # was.default \/ was.deleted
        BY <4>4, <4>5, <4>6
      <4> QED
        BY <3>1, <4>1, <4>7 DEF Exists, Loaded, row, was
    <3> QED
      BY <3>1, <3>3, <3>4 DEF Promotes
  <2> QED
    BY <2>8, <2>9, <2>10 DEF Flushes
<1>2. ASSUME Inv, [Next]_vars PROVE [Survives]_vars
  <2> SUFFICES ASSUME NEW type \in Types,
                      Defaults(integrations, type) # {}, Defaults(integrations', type) = {}
               PROVE  \E r \in Requests : Commits(r) /\ GivesUp(r)
    OBVIOUS
  <2>1. integrations' # integrations
    OBVIOUS
  <2>2. PICK r \in Requests : Commit(r) /\ Commits(r)
    BY <1>2, <2>1, Changes
  <2>3. GivesUp(r)
    BY <1>1, <1>2, <2>2
  <2> QED
    BY <2>2, <2>3
<1> QED
  BY <1>2, InitInv, StepInv, PTL DEF Spec, DefaultSurvives
=============================================================================
