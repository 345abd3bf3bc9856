--------------------------- MODULE WebhooksProofs ---------------------------
(***************************************************************************)
(* What holds of webhooks and their deliveries for any webhooks, names and *)
(* requests.  A delivery writes what it decided on a row that it loaded    *)
(* before it awaited an answer, so the invariant says what each request    *)
(* still knows of the row it loaded (RequestInv), which retry count each   *)
(* attempt was within when it was logged (LogInv), and that the timestamps *)
(* of a webhook tell of its last logs (RollupMatchesLogs).                 *)
(***************************************************************************)
EXTENDS Webhooks, SequenceTheorems, WellFoundedInduction, TLAPS

Columns == {"name", "status", "auth", "secret", "retries", "enabled", "deleted",
            "delivery", "success", "failure"}

\* What request r, whose row as loaded is row, may set.
CoherentWith(r, row) ==
  LET auth == IF "auth" \in DOMAIN r.set THEN r.set.auth ELSE row.auth
      secret == row.secret \/ ("secret" \in DOMAIN r.set /\ r.set.secret)
  IN  auth = "NONE" <=> ~secret

\* The attempt before this one has failed and is logged.
Continues(attempt, h, ls) ==
  attempt > 1 => \E j \in DOMAIN ls : /\ ls[j].hook = h
                                      /\ ls[j].status = "FAILED"
                                      /\ ls[j].attempt = attempt - 1

\* Request r in state x, against the table and the logs.
RequestInv(r, x, table, ls) ==
  /\ r.op = "create_webhook" =>
       /\ x.step \in {"idle", "name", "write", "ended"}
       /\ x.step # "ended" => table[r.hook] = Null
  /\ x.step = "name" => r.op \in {"create_webhook", "update_webhook"}
  /\ x.step = "write" => r.op \in HookOps \cup {"create_webhook"}
  /\ x.step = "bulk" => r.op \in BulkOps
  /\ x.step \in {"name", "write"} /\ r.op \in HookOps =>
       /\ table[r.hook] # Null
       /\ x.row \in HookRow /\ ChecksHold(x.row)
       /\ x.row.deleted <=> r.op = "restore_webhook"
  /\ x.step = "write" /\ r.op = "update_webhook" => CoherentWith(r, x.row)
  /\ x.step \in {"await", "record"} =>
       /\ r.op \in DeliveryOps
       /\ table[r.hook] # Null
       /\ x.row \in HookRow /\ x.row.retries \in RetryCounts(r.hook)
       /\ x.attempt >= 1
       /\ Continues(x.attempt, r.hook, ls)
  /\ x.step = "record" =>
       /\ x.status \in DeliveryStatus
       /\ x.at >= 1
       /\ x.status = "FAILED" => x.attempt < x.row.retries

\* The i-th log: a failure leaves an attempt, and an attempt was left.
LogInv(i, ls, table) ==
  /\ table[ls[i].hook] # Null
  /\ ls[i].status = "FAILED" => \E n \in RetryCounts(ls[i].hook) : ls[i].attempt < n
  /\ ls[i].attempt > 1 =>
       /\ \E n \in RetryCounts(ls[i].hook) : ls[i].attempt <= n
       /\ \E j \in 1..(i - 1) : /\ ls[j].hook = ls[i].hook
                                /\ ls[j].status = "FAILED"
                                /\ ls[j].attempt = ls[i].attempt - 1

HookInv(h, row) == row # Null => ChecksHold(row) /\ row.retries \in RetryCounts(h)

TypeInv ==
  /\ hooks \in [Hooks -> HookRow \cup {Null}]
  /\ logs \in Seq(LogRow)
  /\ session \in [Requests -> SessionState]
  /\ clock \in Nat

Inv ==
  /\ TypeInv
  /\ \A h \in Hooks : HookInv(h, hooks[h])
  /\ \A i \in DOMAIN logs : LogInv(i, logs, hooks)
  /\ \A r \in Requests : RequestInv(r, session[r], hooks, logs)
  /\ RollupMatchesLogs
----------------------------------------------------------------------------
(* Requests and rows.                                                      *)

\* What the assumptions say of one request.
LEMMA RequestFacts ==
  ASSUME NEW r \in Requests
  PROVE  /\ r.op \in {"create_webhook"} \cup HookOps \cup DeliveryOps \cup BulkOps
         /\ r.op \notin BulkOps => r.hook \in Hooks
         /\ r.op = "create_webhook" =>
              /\ SeedHooks[r.hook] = Null /\ Created(r.row)
              /\ \A q \in Requests : q.op = "create_webhook" /\ q.hook = r.hook => q = r
         /\ r.op = "update_webhook" => Settable(r.set)
<1>1. ValidRequest(r)
  BY RequestsAssumption
<1>2. r.op = "create_webhook" =>
        \A q \in Requests : q.op = "create_webhook" /\ q.hook = r.hook => q = r
  BY RequestsAssumption DEF Creations
<1> QED
  BY <1>1, <1>2 DEF ValidRequest, HookOps, DeliveryOps, BulkOps

\* Columns that a request can assign, with values of their types.
Typed(set) ==
  /\ DOMAIN set \subseteq {"name", "status", "auth", "secret", "retries",
                           "enabled", "deleted"}
  /\ "name" \in DOMAIN set => set.name \in Names
  /\ "status" \in DOMAIN set => set.status \in WebhookStatus
  /\ "auth" \in DOMAIN set => set.auth \in AuthenticationType
  /\ "secret" \in DOMAIN set => set.secret \in BOOLEAN
  /\ "retries" \in DOMAIN set => set.retries \in Nat
  /\ "enabled" \in DOMAIN set => set.enabled \in BOOLEAN
  /\ "deleted" \in DOMAIN set => set.deleted \in BOOLEAN

\* What each operation assigns.
LEMMA AssignedColumns ==
  ASSUME NEW r \in Requests, r.op \in HookOps
  PROVE  /\ Typed(Assigned(r))
         /\ r.op = "update_webhook" =>
              Assigned(r) = r.set /\ "deleted" \notin DOMAIN Assigned(r)
         /\ r.op # "update_webhook" =>
              DOMAIN Assigned(r) \subseteq {"deleted", "enabled"}
         /\ r.op = "delete_webhook" =>
              "enabled" \in DOMAIN Assigned(r) /\ Assigned(r)["enabled"] = FALSE
         /\ r.op = "restore_webhook" =>
              "deleted" \in DOMAIN Assigned(r) /\ Assigned(r)["deleted"] = FALSE
         /\ r.op \in {"enable_webhook", "disable_webhook"} =>
              "deleted" \notin DOMAIN Assigned(r)
<1>1. CASE r.op = "update_webhook"
  <2>1. Assigned(r) = r.set /\ Settable(r.set)
    BY <1>1, RequestFacts DEF Assigned
  <2> QED
    BY <1>1, <2>1 DEF Settable, Typed
<1>2. CASE r.op = "delete_webhook"
  <2>1. Assigned(r) = [deleted |-> TRUE, enabled |-> FALSE]
    BY <1>2 DEF Assigned
  <2> QED
    BY <1>2, <2>1 DEF Typed
<1>3. CASE r.op = "restore_webhook"
  <2>1. Assigned(r) = [deleted |-> FALSE]
    BY <1>3 DEF Assigned
  <2> QED
    BY <1>3, <2>1 DEF Typed
<1>4. CASE r.op = "enable_webhook"
  <2>1. Assigned(r) = [enabled |-> TRUE]
    BY <1>4 DEF Assigned
  <2> QED
    BY <1>4, <2>1 DEF Typed
<1>5. CASE r.op = "disable_webhook"
  <2>1. Assigned(r) = [enabled |-> FALSE]
    BY <1>5 DEF Assigned
  <2> QED
    BY <1>5, <2>1 DEF Typed
<1> QED
  BY <1>1, <1>2, <1>3, <1>4, <1>5 DEF HookOps

\* The columns of a row.
LEMMA RowColumns ==
  ASSUME NEW row \in HookRow
  PROVE  /\ DOMAIN row = Columns
         /\ row["name"] \in Names
         /\ row["status"] \in WebhookStatus
         /\ row["auth"] \in AuthenticationType
         /\ row["secret"] \in BOOLEAN
         /\ row["retries"] \in Nat
         /\ row["enabled"] \in BOOLEAN
         /\ row["deleted"] \in BOOLEAN
         /\ row["delivery"] \in Nat
         /\ row["success"] \in Nat
         /\ row["failure"] \in Nat
BY DEF HookRow, Columns

\* A function with the columns of a row is a row.
LEMMA ColumnsMakeRow ==
  ASSUME NEW f, f = [c \in Columns |-> f[c]],
         f["name"] \in Names,
         f["status"] \in WebhookStatus,
         f["auth"] \in AuthenticationType,
         f["secret"] \in BOOLEAN,
         f["retries"] \in Nat,
         f["enabled"] \in BOOLEAN,
         f["deleted"] \in BOOLEAN,
         f["delivery"] \in Nat,
         f["success"] \in Nat,
         f["failure"] \in Nat
  PROVE  f \in HookRow
<1>1. f = [name |-> f.name, status |-> f.status, auth |-> f.auth,
           secret |-> f.secret, retries |-> f.retries, enabled |-> f.enabled,
           deleted |-> f.deleted, delivery |-> f.delivery,
           success |-> f.success, failure |-> f.failure]
  BY DEF Columns
<1> QED
  BY <1>1 DEF HookRow

\* The row that an UPDATE makes: assigned where the value differs from the
\* loaded one, as it is in the table elsewhere.
LEMMA WrittenRow ==
  ASSUME NEW r \in Requests, r.op \in HookOps,
         Loaded(r) \in HookRow, hooks[r.hook] \in HookRow
  PROVE  /\ Written(r) \in HookRow
         /\ \A c \in Columns : Written(r)[c] =
              IF c \in DOMAIN Assigned(r) /\ Assigned(r)[c] # Loaded(r)[c]
              THEN Assigned(r)[c] ELSE hooks[r.hook][c]
         /\ \A c \in {"delivery", "success", "failure"} :
              Written(r)[c] = hooks[r.hook][c]
<1> DEFINE set == Assigned(r)
           old == Loaded(r)
           row == hooks[r.hook]
<1>1. Typed(set)
  BY AssignedColumns
<1>2. Written(r) = [c \in Columns |-> IF c \in DOMAIN set /\ set[c] # old[c]
                                      THEN set[c] ELSE row[c]]
  BY RowColumns DEF Written
<1> HIDE DEF set, old, row
<1>3. \A c \in Columns : Written(r)[c] = IF c \in DOMAIN set /\ set[c] # old[c]
                                         THEN set[c] ELSE row[c]
  BY <1>2
<1>5. \A c \in {"delivery", "success", "failure"} : Written(r)[c] = row[c]
  BY <1>1, <1>3 DEF Typed, Columns
<1>6. row \in HookRow
  BY DEF row
<1>7. Written(r) = [c \in Columns |-> Written(r)[c]]
  BY <1>2
<1>8. Written(r) \in HookRow
  <2>1. Written(r)["name"] \in Names
    BY <1>1, <1>3, <1>6, RowColumns DEF Typed, Columns
  <2>2. Written(r)["status"] \in WebhookStatus
    BY <1>1, <1>3, <1>6, RowColumns DEF Typed, Columns
  <2>3. Written(r)["auth"] \in AuthenticationType
    BY <1>1, <1>3, <1>6, RowColumns DEF Typed, Columns
  <2>4. Written(r)["secret"] \in BOOLEAN
    BY <1>1, <1>3, <1>6, RowColumns DEF Typed, Columns
  <2>5. Written(r)["retries"] \in Nat
    BY <1>1, <1>3, <1>6, RowColumns DEF Typed, Columns
  <2>6. Written(r)["enabled"] \in BOOLEAN
    BY <1>1, <1>3, <1>6, RowColumns DEF Typed, Columns
  <2>7. Written(r)["deleted"] \in BOOLEAN
    BY <1>1, <1>3, <1>6, RowColumns DEF Typed, Columns
  <2>8. /\ Written(r)["delivery"] \in Nat
        /\ Written(r)["success"] \in Nat
        /\ Written(r)["failure"] \in Nat
    BY <1>5, <1>6, RowColumns
  <2> HIDE DEF Written
  <2> QED
    BY <1>7, <2>1, <2>2, <2>3, <2>4, <2>5, <2>6, <2>7, <2>8, ColumnsMakeRow
<1> QED
  BY <1>3, <1>5, <1>8 DEF set, old, row
\* The CHECK holds of what an update makes of a row, whatever others have
\* made of the row since it was loaded, if it does not set the secret to null.
LEMMA UpdateChecked ==
  ASSUME NEW r \in Requests, r.op = "update_webhook",
         Loaded(r) \in HookRow, hooks[r.hook] \in HookRow,
         ChecksHold(Loaded(r)), ChecksHold(hooks[r.hook]),
         CoherentWith(r, Loaded(r)),
         "secret" \in DOMAIN r.set => r.set.secret
  PROVE  ChecksHold(Written(r))
<1> DEFINE set == r.set
           old == Loaded(r)
           row == hooks[r.hook]
           new == Written(r)
<1> SUFFICES new["auth"] = "NONE" <=> ~new["secret"]
  BY DEF ChecksHold
<1>1. \A c \in Columns : new[c] = IF c \in DOMAIN set /\ set[c] # old[c]
                                  THEN set[c] ELSE row[c]
  <2>1. r.op \in HookOps
    BY DEF HookOps
  <2>2. Assigned(r) = r.set
    BY <2>1, AssignedColumns
  <2> QED
    BY <2>1, <2>2, WrittenRow
<1>2. /\ old["auth"] \in AuthenticationType /\ row["auth"] \in AuthenticationType
      /\ old["secret"] \in BOOLEAN /\ row["secret"] \in BOOLEAN
      /\ "auth" \in DOMAIN set => set["auth"] \in AuthenticationType
      /\ "secret" \in DOMAIN set => set["secret"] = TRUE
  <2>1. Settable(set)
    BY RequestFacts
  <2> QED
    BY <2>1, RowColumns DEF Settable
<1>3. /\ old["auth"] = "NONE" <=> ~old["secret"]
      /\ row["auth"] = "NONE" <=> ~row["secret"]
  BY DEF ChecksHold
<1>4. (IF "auth" \in DOMAIN set THEN set["auth"] ELSE old["auth"]) = "NONE"
        <=> ~(old["secret"] \/ ("secret" \in DOMAIN set /\ set["secret"]))
  BY DEF CoherentWith
<1> HIDE DEF set, old, row, new
<1>5. /\ new["auth"] = IF "auth" \in DOMAIN set /\ set["auth"] # old["auth"]
                       THEN set["auth"] ELSE row["auth"]
      /\ new["secret"] = IF "secret" \in DOMAIN set /\ set["secret"] # old["secret"]
                         THEN set["secret"] ELSE row["secret"]
  BY <1>1 DEF Columns
<1>6. CASE "auth" \in DOMAIN set /\ set["auth"] # old["auth"]
  BY <1>2, <1>3, <1>4, <1>5, <1>6 DEF AuthenticationType
<1>7. CASE ~("auth" \in DOMAIN set /\ set["auth"] # old["auth"])
  BY <1>2, <1>3, <1>4, <1>5, <1>7
<1> QED
  BY <1>6, <1>7
----------------------------------------------------------------------------
(* Frames.                                                                 *)

\* A log is only ever added to.
Extends(ls, ls2) ==
  DOMAIN ls \subseteq DOMAIN ls2 /\ \A i \in DOMAIN ls : ls2[i] = ls[i]

\* A request keeps its invariant while rows stay in the table, and the row
\* that it creates out of it.
LEMMA RequestFrame ==
  ASSUME NEW r \in Requests, NEW x, NEW table, NEW table2, NEW ls, NEW ls2,
         RequestInv(r, x, table, ls),
         r.op # "create_webhook" /\ table[r.hook] # Null => table2[r.hook] # Null,
         r.op = "create_webhook" /\ table[r.hook] = Null => table2[r.hook] = Null
           \/ x.step = "ended",
         Extends(ls, ls2)
  PROVE  RequestInv(r, x, table2, ls2)
<1>1. \A attempt, h : Continues(attempt, h, ls) => Continues(attempt, h, ls2)
  BY DEF Continues, Extends
<1>2. r.op \in HookOps \cup DeliveryOps => r.op # "create_webhook"
  BY DEF HookOps, DeliveryOps
<1> QED
  BY <1>1, <1>2 DEF RequestInv

\* A request that has ended knows nothing.
LEMMA EndedState ==
  ASSUME NEW r \in Requests, NEW table, NEW ls
  PROVE  /\ Fresh("ended", Null) \in SessionState
         /\ RequestInv(r, Fresh("ended", Null), table, ls)
BY DEF Fresh, SessionState, RequestInv

\* What is known of a request before one of its statements.
LEMMA StateFacts ==
  ASSUME Inv, NEW r \in Requests
  PROVE  /\ session[r] \in SessionState
         /\ RequestInv(r, session[r], hooks, logs)
         /\ r.op \notin BulkOps => hooks[r.hook] \in HookRow \cup {Null}
         /\ r.op \notin BulkOps => HookInv(r.hook, hooks[r.hook])
BY RequestFacts DEF Inv, TypeInv

\* A statement that writes no table keeps the invariant, if its session does.
LEMMA Statement ==
  ASSUME Inv, NEW r \in Requests, NEW x \in SessionState,
         session' = [session EXCEPT ![r] = x],
         UNCHANGED <<hooks, logs>>, clock' \in Nat,
         RequestInv(r, x, hooks, logs)
  PROVE  Inv'
<1>1. /\ session' \in [Requests -> SessionState]
      /\ \A q \in Requests : session'[q] = IF q = r THEN x ELSE session[q]
  BY DEF Inv, TypeInv
<1>2. TypeInv'
  BY <1>1 DEF Inv, TypeInv
<1>3. \A q \in Requests : RequestInv(q, session'[q], hooks', logs')
  BY <1>1 DEF Inv
<1>4. RollupMatchesLogs'
  <2>1. ASSUME NEW h, NEW statuses PROVE LastAt(h, statuses)' = LastAt(h, statuses)
    BY DEF LastAt
  <2> QED
    BY <2>1 DEF Inv, RollupMatchesLogs
<1> QED
  BY <1>2, <1>3, <1>4 DEF Inv

\* A transaction that is rolled back leaves nothing behind.
LEMMA RefuseInv == ASSUME Inv, NEW r \in Requests, Refuse(r) PROVE Inv'
<1>1. /\ session' = [session EXCEPT ![r] = Fresh("ended", Null)]
      /\ UNCHANGED <<hooks, logs, clock>>
  BY DEF Refuse, End
<1>2. clock' \in Nat
  BY <1>1 DEF Inv, TypeInv
<1> QED
  BY <1>1, <1>2, EndedState, Statement

\* A step of a transaction that writes nothing yet.
LEMMA GotoInv ==
  ASSUME Inv, NEW r \in Requests, NEW x \in SessionState, Goto(r, x),
         RequestInv(r, x, hooks, logs)
  PROVE  Inv'
<1>1. session' = [session EXCEPT ![r] = x] /\ UNCHANGED <<hooks, logs, clock>>
  BY DEF Goto
<1>2. clock' \in Nat
  BY <1>1 DEF Inv, TypeInv
<1> QED
  BY <1>1, <1>2, Statement
----------------------------------------------------------------------------
(* The statements that write nothing.                                      *)

\* The states in which a transaction begins.
LEMMA FreshState ==
  ASSUME NEW step \in {"idle", "name", "write", "bulk", "await", "record", "ended"},
         NEW row \in HookRow \cup {Null}
  PROVE  /\ Fresh(step, row) \in SessionState
         /\ Fresh(step, row).step = step
         /\ Fresh(step, row).row = row
BY DEF Fresh, SessionState

\* A creation looks for its name before it writes.
LEMMA BeginCreateInv == ASSUME Inv, NEW r \in Requests, BeginCreate(r) PROVE Inv'
<1> DEFINE x == Fresh("name", r.row)
<1>1. r.op = "create_webhook" /\ session[r].step = "idle" /\ Goto(r, x)
  BY DEF BeginCreate, At
<1>2. r.row \in HookRow \cup {Null}
  BY <1>1, RequestFacts DEF Created
<1>3. x \in SessionState /\ x.step = "name"
  BY <1>2, FreshState
<1> HIDE DEF x
<1>4. RequestInv(r, x, hooks, logs)
  BY <1>1, <1>3, StateFacts DEF RequestInv, HookOps
<1> QED
  BY <1>1, <1>3, <1>4, GotoInv

\* A change of a webhook loads a row that it may change.
LEMMA LoadInv == ASSUME Inv, NEW r \in Requests, Load(r) PROVE Inv'
<1> DEFINE step == IF r.op = "update_webhook" THEN "name" ELSE "write"
           x == Fresh(step, hooks[r.hook])
<1>1. /\ r.op \in HookOps /\ hooks[r.hook] # Null
      /\ hooks[r.hook].deleted <=> r.op = "restore_webhook"
      /\ Goto(r, x)
  BY DEF Load
<1>2. r.op \notin BulkOps \cup DeliveryOps \cup {"create_webhook"}
  BY <1>1 DEF HookOps, BulkOps, DeliveryOps
<1>3. hooks[r.hook] \in HookRow /\ ChecksHold(hooks[r.hook])
  BY <1>1, <1>2, StateFacts DEF HookInv
<1>4. /\ x \in SessionState /\ x.row = hooks[r.hook]
      /\ x.step = IF r.op = "update_webhook" THEN "name" ELSE "write"
  BY <1>3, FreshState
<1> HIDE DEF x
<1>5. RequestInv(r, x, hooks, logs)
  BY <1>1, <1>2, <1>3, <1>4 DEF RequestInv
<1> QED
  BY <1>1, <1>4, <1>5, GotoInv

\* A bulk request loads nothing.
LEMMA BeginBulkInv == ASSUME Inv, NEW r \in Requests, BeginBulk(r) PROVE Inv'
<1> DEFINE x == Fresh("bulk", Null)
<1>1. r.op \in BulkOps /\ Goto(r, x)
  BY DEF BeginBulk
<1>2. x \in SessionState /\ x.step = "bulk"
  BY FreshState
<1> HIDE DEF x
<1>3. RequestInv(r, x, hooks, logs)
  BY <1>1, <1>2 DEF RequestInv, BulkOps
<1> QED
  BY <1>1, <1>2, <1>3, GotoInv

\* The name is free, and an update is coherent with the row as loaded.
LEMMA CheckNameInv == ASSUME Inv, NEW r \in Requests, CheckName(r) PROVE Inv'
<1> DEFINE x == [session[r] EXCEPT !.step = "write"]
<1>1. /\ session[r].step = "name"
      /\ r.op = "update_webhook" => CoherentWith(r, session[r].row)
      /\ UNCHANGED <<hooks, logs, clock>>
  BY DEF CheckName, At, Coherent, CoherentWith, Loaded
<1>2. session' = [session EXCEPT ![r] = x]
  BY DEF CheckName
<1>3. x \in SessionState /\ x.step = "write" /\ x.row = session[r].row
  BY StateFacts DEF SessionState
<1> HIDE DEF x
<1>4. RequestInv(r, x, hooks, logs)
  BY <1>1, <1>3, StateFacts DEF RequestInv, HookOps
<1>5. clock' \in Nat
  BY <1>1 DEF Inv, TypeInv
<1> QED
  BY <1>1, <1>2, <1>3, <1>4, <1>5, Statement

\* A delivery is the first attempt, or follows one that has failed.
LEMMA BeginDeliveryInv == ASSUME Inv, NEW r \in Requests, BeginDelivery(r) PROVE Inv'
<1>1. PICK n \in Attempts(r) :
        Goto(r, [Fresh("await", hooks[r.hook]) EXCEPT !.attempt = n])
  BY DEF BeginDelivery
<1> DEFINE x == [Fresh("await", hooks[r.hook]) EXCEPT !.attempt = n]
<1>2. r.op \in DeliveryOps /\ hooks[r.hook] # Null
  BY DEF BeginDelivery, Live
<1>3. r.op \notin BulkOps \cup HookOps \cup {"create_webhook"}
  BY <1>2 DEF HookOps, BulkOps, DeliveryOps
<1>4. /\ hooks[r.hook] \in HookRow
      /\ hooks[r.hook].retries \in RetryCounts(r.hook)
  BY <1>2, <1>3, StateFacts DEF HookInv
<1>5. n \in Nat /\ n >= 1 /\ Continues(n, r.hook, logs)
  <2>1. CASE r.op # "retry_delivery"
    BY <2>1 DEF Attempts, Continues
  <2>2. CASE r.op = "retry_delivery"
    <3>1. PICK i \in DOMAIN logs : /\ logs[i].hook = r.hook
                                   /\ logs[i].status = "FAILED"
                                   /\ n = logs[i].attempt + 1
      BY <2>2 DEF Attempts
    <3>2. logs[i] \in LogRow
      BY <3>1 DEF Inv, TypeInv
    <3>3. logs[i].attempt \in Nat \ {0}
      BY <3>2 DEF LogRow
    <3> QED
      BY <3>1, <3>3 DEF Continues
  <2> QED
    BY <2>1, <2>2
<1>6. /\ x \in SessionState /\ x.step = "await"
      /\ x.row = hooks[r.hook] /\ x.attempt = n
  BY <1>4, <1>5 DEF Fresh, SessionState
<1>7. Goto(r, x)
  BY <1>1
<1> HIDE DEF x
<1>8. RequestInv(r, x, hooks, logs)
  BY <1>2, <1>3, <1>4, <1>5, <1>6 DEF RequestInv
<1> QED
  BY <1>6, <1>7, <1>8, GotoInv

\* An answer: a failure that is not the last attempt is retryable.
LEMMA AnswerInv == ASSUME Inv, NEW r \in Requests, Answer(r) PROVE Inv'
<1>1. PICK succeeded \in BOOLEAN :
        session' = [session EXCEPT
          ![r].step = "record",
          ![r].status = Outcome(succeeded, session[r].attempt, Loaded(r).retries),
          ![r].at = clock + 1]
  BY DEF Answer
<1> DEFINE status == Outcome(succeeded, session[r].attempt, Loaded(r).retries)
           now == clock + 1
           y == [session[r] EXCEPT !.step = "record"]
           z == [y EXCEPT !.status = status]
           x == [z EXCEPT !.at = now]
<1>2. session[r].step = "await" /\ clock' = now /\ UNCHANGED <<hooks, logs>>
  BY DEF Answer, At
<1>3. session' = [session EXCEPT ![r] = x]
  BY <1>1
<1>4. clock \in Nat
  BY DEF Inv, TypeInv
<1>5. /\ session[r].row \in HookRow /\ session[r].attempt \in Nat
      /\ session[r].row.retries \in Nat
  BY <1>2, StateFacts DEF RequestInv, SessionState, HookRow
<1>6. /\ status \in DeliveryStatus
      /\ status = "FAILED" => session[r].attempt < session[r].row.retries
  BY <1>5 DEF Outcome, DeliveryStatus, Loaded
<1>10. now \in Nat /\ now >= 1
  BY <1>4
<1> HIDE DEF status, now
<1>7. /\ x \in SessionState /\ x.step = "record" /\ x.status = status
      /\ x.at = now /\ x.attempt = session[r].attempt /\ x.row = session[r].row
  <2>1. /\ y \in SessionState /\ y.step = "record"
        /\ y.attempt = session[r].attempt /\ y.row = session[r].row
    BY StateFacts DEF SessionState
  <2> HIDE DEF y
  <2>2. /\ z \in SessionState /\ z.step = "record" /\ z.status = status
        /\ z.attempt = session[r].attempt /\ z.row = session[r].row
    BY <1>6, <2>1 DEF SessionState
  <2> HIDE DEF z
  <2> QED
    BY <1>10, <2>2 DEF SessionState
<1> HIDE DEF x
<1>8. RequestInv(r, x, hooks, logs)
  BY <1>2, <1>6, <1>7, <1>10, StateFacts DEF RequestInv, HookOps, DeliveryOps
<1>9. clock' \in Nat
  BY <1>2, <1>10
<1> QED
  BY <1>2, <1>3, <1>7, <1>8, <1>9, Statement
----------------------------------------------------------------------------
(* Writes of the table of webhooks.                                        *)

\* After a write of the table, a row that was there is there, and no row
\* appears but one that r has created.
LEMMA TableWritten ==
  ASSUME Inv, NEW r \in Requests, End(r),
         hooks' \in [Hooks -> HookRow \cup {Null}],
         logs' \in Seq(LogRow), Extends(logs, logs'), clock' = clock,
         \A h \in Hooks : hooks[h] # Null => hooks'[h] # Null,
         \A h \in Hooks : hooks[h] = Null /\ hooks'[h] # Null =>
           r.op = "create_webhook" /\ r.hook = h,
         \A h \in Hooks : HookInv(h, hooks'[h]),
         \A i \in DOMAIN logs' : LogInv(i, logs', hooks'),
         RollupMatchesLogs'
  PROVE  Inv'
<1> DEFINE x == Fresh("ended", Null)
<1>1. x \in SessionState /\ RequestInv(r, x, hooks', logs')
  BY EndedState
<1>2. session' = [session EXCEPT ![r] = x]
  BY DEF End
<1> HIDE DEF x
<1>3. /\ session' \in [Requests -> SessionState]
      /\ \A q \in Requests : session'[q] = IF q = r THEN x ELSE session[q]
  BY <1>1, <1>2 DEF Inv, TypeInv
<1>4. ASSUME NEW q \in Requests, q # r
      PROVE  RequestInv(q, session[q], hooks', logs')
  <2>1. RequestInv(q, session[q], hooks, logs)
    BY DEF Inv
  <2>2. CASE q.op \in BulkOps
    <3>1. q.op \notin {"create_webhook"} \cup HookOps \cup DeliveryOps
      BY <2>2 DEF BulkOps, HookOps, DeliveryOps
    <3> QED
      BY <2>1, <2>2, <3>1 DEF RequestInv
  <2>3. CASE q.op \notin BulkOps
    <3>1. q.hook \in Hooks
      BY <2>3, RequestFacts
    <3>2. q.op = "create_webhook" /\ hooks[q.hook] = Null => hooks'[q.hook] = Null
      BY <1>4, <3>1, RequestFacts
    <3> QED
      BY <2>1, <3>1, <3>2, RequestFrame
  <2> QED
    BY <2>2, <2>3
<1>5. \A q \in Requests : RequestInv(q, session'[q], hooks', logs')
  BY <1>1, <1>3, <1>4
<1>6. TypeInv'
  BY <1>3 DEF Inv, TypeInv
<1> QED
  BY <1>5, <1>6 DEF Inv

\* The logs hold of a table in which no row has gone.
LEMMA LogsKept ==
  ASSUME Inv, UNCHANGED logs, \A h \in Hooks : hooks[h] # Null => hooks'[h] # Null
  PROVE  /\ logs' \in Seq(LogRow) /\ Extends(logs, logs')
         /\ \A i \in DOMAIN logs' : LogInv(i, logs', hooks')
<1>1. ASSUME NEW i \in DOMAIN logs PROVE logs[i].hook \in Hooks
  <2>1. logs[i] \in LogRow
    BY DEF Inv, TypeInv
  <2> QED
    BY <2>1 DEF LogRow
<1>2. logs' \in Seq(LogRow) /\ Extends(logs, logs')
  BY DEF Inv, TypeInv, Extends
<1>3. \A i \in DOMAIN logs : LogInv(i, logs, hooks')
  BY <1>1 DEF Inv, LogInv
<1> QED
  BY <1>2, <1>3

\* The timestamps hold of a table in which none has changed.
LEMMA RollupKept ==
  ASSUME Inv, UNCHANGED logs, hooks' \in [Hooks -> HookRow \cup {Null}],
         \A h \in Hooks : hooks'[h] # Null /\ hooks[h] # Null =>
           /\ hooks'[h].delivery = hooks[h].delivery
           /\ hooks'[h].success = hooks[h].success
           /\ hooks'[h].failure = hooks[h].failure,
         \A h \in Hooks : hooks'[h] # Null /\ hooks[h] = Null =>
           /\ hooks'[h].delivery = 0
           /\ hooks'[h].success = 0
           /\ hooks'[h].failure = 0
  PROVE  RollupMatchesLogs'
<1>1. ASSUME NEW h, NEW statuses PROVE LastAt(h, statuses)' = LastAt(h, statuses)
  BY DEF LastAt
<1>2. ASSUME NEW h \in Hooks, hooks[h] = Null, NEW statuses
      PROVE  LastAt(h, statuses) = 0
  <2>1. \A i \in DOMAIN logs : logs[i].hook # h
    BY <1>2 DEF Inv, LogInv
  <2> QED
    BY <2>1 DEF LastAt
<1>3. ASSUME NEW h \in Hooks, hooks'[h] # Null
      PROVE  /\ hooks'[h].delivery = LastAt(h, DeliveryStatus)
             /\ hooks'[h].success = LastAt(h, {"SUCCESS"})
             /\ hooks'[h].failure = LastAt(h, DeliveryStatus \ {"SUCCESS"})
  <2>1. CASE hooks[h] = Null
    BY <1>2, <1>3, <2>1
  <2>2. CASE hooks[h] # Null
    BY <1>3, <2>2 DEF Inv, RollupMatchesLogs
  <2> QED
    BY <2>1, <2>2
<1> QED
  BY <1>1, <1>3 DEF RollupMatchesLogs

\* A creation makes a row, and a change another one of what is in the table.
LEMMA WriteInv == ASSUME Inv, NEW r \in Requests, Write(r) PROVE Inv'
<1> DEFINE row == IF r.op = "create_webhook" THEN r.row ELSE Written(r)
<1>1. /\ session[r].step = "write" /\ ChecksHold(row)
      /\ hooks' = [hooks EXCEPT ![r.hook] = row]
      /\ End(r) /\ UNCHANGED <<logs, clock>>
  BY DEF Write, At, Accepted
<1>2. r.op \in HookOps \cup {"create_webhook"} /\ r.op \notin BulkOps
  BY <1>1, StateFacts DEF RequestInv, HookOps, BulkOps
<1>3. r.hook \in Hooks
  BY <1>2, RequestFacts
<1>4. CASE r.op = "create_webhook"
  <2>1. /\ row = r.row /\ Created(r.row)
        /\ hooks[r.hook] = Null
    BY <1>1, <1>4, RequestFacts, StateFacts DEF RequestInv
  <2>2. /\ row \in HookRow /\ row # Null
        /\ row.retries \in RetryCounts(r.hook)
        /\ row.delivery = 0 /\ row.success = 0 /\ row.failure = 0
    BY <1>4, <2>1, NullAssumption DEF Created, RetryCounts, Creations
  <2> HIDE DEF row
  <2>3. /\ hooks' \in [Hooks -> HookRow \cup {Null}]
        /\ \A h \in Hooks : hooks'[h] = IF h = r.hook THEN row ELSE hooks[h]
    BY <1>1, <1>3, <2>2 DEF Inv, TypeInv
  <2>4. \A h \in Hooks : HookInv(h, hooks'[h])
    BY <1>1, <2>2, <2>3 DEF Inv, HookInv
  <2>5. \A h \in Hooks : hooks[h] # Null => hooks'[h] # Null
    BY <2>2, <2>3
  <2>6. RollupMatchesLogs'
    BY <1>1, <2>1, <2>2, <2>3, RollupKept
  <2> QED
    BY <1>1, <1>4, <2>3, <2>4, <2>5, <2>6, LogsKept, TableWritten
<1>5. CASE r.op \in HookOps
  <2>1. r.op # "create_webhook"
    BY <1>5 DEF HookOps
  <2>2. row = Written(r)
    BY <2>1
  <2>3. hooks[r.hook] # Null /\ Loaded(r) \in HookRow
    BY <1>1, <1>5, StateFacts DEF RequestInv, Loaded
  <2>4. hooks[r.hook] \in HookRow /\ HookInv(r.hook, hooks[r.hook])
    BY <1>2, <2>3, StateFacts
  <2>5. /\ row \in HookRow
        /\ \A c \in {"delivery", "success", "failure"} : row[c] = hooks[r.hook][c]
    BY <1>5, <2>2, <2>3, <2>4, WrittenRow
  <2>6. row["retries"] \in RetryCounts(r.hook)
    <3>1. \/ row["retries"] = hooks[r.hook]["retries"]
          \/ /\ r.op = "update_webhook"
             /\ "retries" \in DOMAIN r.set
             /\ row["retries"] = r.set["retries"]
      <4>1. row["retries"] = IF /\ "retries" \in DOMAIN Assigned(r)
                                /\ Assigned(r)["retries"] # Loaded(r)["retries"]
                             THEN Assigned(r)["retries"] ELSE hooks[r.hook]["retries"]
        BY <1>5, <2>2, <2>3, <2>4, WrittenRow DEF Columns
      <4> HIDE DEF row
      <4>2. CASE r.op = "update_webhook"
        <5>1. Assigned(r) = r.set
          BY <1>5, <4>2, AssignedColumns
        <5> QED
          BY <4>1, <4>2, <5>1
      <4>3. CASE r.op # "update_webhook"
        <5>1. "retries" \notin DOMAIN Assigned(r)
          BY <1>5, <4>3, AssignedColumns
        <5> QED
          BY <4>1, <5>1
      <4> QED
        BY <4>2, <4>3
    <3>2. hooks[r.hook]["retries"] \in RetryCounts(r.hook)
      BY <2>3, <2>4 DEF HookInv
    <3> HIDE DEF row
    <3> QED
      BY <3>1, <3>2 DEF RetryCounts
  <2>7. row # Null
    BY <2>5, NullAssumption
  <2>8. /\ row.delivery = hooks[r.hook].delivery
        /\ row.success = hooks[r.hook].success
        /\ row.failure = hooks[r.hook].failure
    BY <2>5
  <2> HIDE DEF row
  <2>9. /\ hooks' \in [Hooks -> HookRow \cup {Null}]
        /\ \A h \in Hooks : hooks'[h] = IF h = r.hook THEN row ELSE hooks[h]
    BY <1>1, <1>3, <2>5 DEF Inv, TypeInv
  <2>10. \A h \in Hooks : HookInv(h, hooks'[h])
    BY <1>1, <2>6, <2>9 DEF Inv, HookInv
  <2>11. /\ \A h \in Hooks : hooks[h] # Null => hooks'[h] # Null
         /\ \A h \in Hooks : hooks[h] = Null => hooks'[h] = Null
    BY <2>3, <2>7, <2>9
  <2>12. RollupMatchesLogs'
    BY <1>1, <2>8, <2>9, <2>11, RollupKept
  <2> QED
    BY <1>1, <2>9, <2>10, <2>11, <2>12, LogsKept, TableWritten
<1> QED
  BY <1>2, <1>4, <1>5

\* A bulk change touches one column of the rows that are not deleted.
LEMMA BulkWriteInv == ASSUME Inv, NEW r \in Requests, BulkWrite(r) PROVE Inv'
<1>1. End(r) /\ UNCHANGED <<logs, clock>>
  BY DEF BulkWrite
<1> DEFINE b == r.op = "bulk_enable"
<1>2. \A h \in Hooks : hooks'[h] = IF h \in r.hooks /\ Live(h)
                                   THEN [hooks[h] EXCEPT !.enabled = b] ELSE hooks[h]
  BY DEF BulkWrite
<1>3. b \in BOOLEAN
  OBVIOUS
<1> HIDE DEF b
<1>4. ASSUME NEW h \in Hooks
      PROVE  /\ hooks'[h] \in HookRow \cup {Null}
             /\ hooks'[h] = Null <=> hooks[h] = Null
             /\ HookInv(h, hooks'[h])
             /\ hooks[h] # Null => /\ hooks'[h].delivery = hooks[h].delivery
                                   /\ hooks'[h].success = hooks[h].success
                                   /\ hooks'[h].failure = hooks[h].failure
  <2>1. hooks[h] \in HookRow \cup {Null} /\ HookInv(h, hooks[h])
    BY DEF Inv, TypeInv
  <2>2. CASE ~(h \in r.hooks /\ Live(h))
    BY <1>2, <2>1, <2>2
  <2>3. CASE h \in r.hooks /\ Live(h)
    <3> DEFINE new == [hooks[h] EXCEPT !.enabled = b]
    <3>1. hooks[h] # Null /\ hooks[h] \in HookRow /\ hooks'[h] = new
      BY <1>2, <2>1, <2>3 DEF Live
    <3>2. /\ new \in HookRow
          /\ new.auth = hooks[h].auth /\ new.secret = hooks[h].secret
          /\ new.retries = hooks[h].retries
          /\ new.delivery = hooks[h].delivery
          /\ new.success = hooks[h].success
          /\ new.failure = hooks[h].failure
      BY <1>3, <3>1 DEF HookRow
    <3> HIDE DEF new
    <3> QED
      BY <2>1, <3>1, <3>2, NullAssumption DEF HookInv, ChecksHold
  <2> QED
    BY <2>2, <2>3
<1>5. DOMAIN hooks' = Hooks /\ hooks' = [h \in Hooks |-> hooks'[h]]
  BY DEF BulkWrite
<1>6. hooks' \in [Hooks -> HookRow \cup {Null}]
  BY <1>4, <1>5
<1>7. RollupMatchesLogs'
  BY <1>1, <1>4, <1>6, RollupKept
<1> QED
  BY <1>1, <1>4, <1>6, <1>7, LogsKept, TableWritten
----------------------------------------------------------------------------
(* Recording a delivery.                                                   *)

\* Some log of any is the last.
LEMMA LastExists ==
  ASSUME NEW n \in Nat, NEW S, S \subseteq 1..n, S # {}
  PROVE  \E i \in S : \A j \in S : j <= i
<1> DEFINE R == OpToRel(<, Nat)
           T == {n - i : i \in S}
<1>1. T \subseteq Nat /\ T # {}
  <2>1. \A i \in S : i \in 1..n /\ n - i \in Nat
    OBVIOUS
  <2>2. PICK i \in S : TRUE
    OBVIOUS
  <2>3. n - i \in T
    BY <2>2
  <2> QED
    BY <2>1, <2>3
<1>2. IsWellFoundedOn(R, Nat)
  BY NatLessThanWellFounded
<1> HIDE DEF R
<1>3. PICK x \in T : \A y \in T : <<y, x>> \notin R
  BY <1>1, <1>2, WFMin
<1>4. \A y \in T : ~(y < x)
  BY <1>1, <1>3 DEF R, OpToRel
<1>5. PICK i \in S : x = n - i
  OBVIOUS
<1>6. ASSUME NEW j \in S PROVE j <= i
  <2>1. ~(n - j < n - i)
    BY <1>4, <1>5
  <2> QED
    BY <2>1
<1> QED
  BY <1>6

\* The last log of a webhook after one more log.
LEMMA LastAppended ==
  ASSUME logs \in Seq(LogRow), NEW e \in LogRow, logs' = Append(logs, e),
         NEW h, NEW statuses
  PROVE  LastAt(h, statuses)' = IF e.hook = h /\ e.status \in statuses
                                THEN e.at ELSE LastAt(h, statuses)
<1> DEFINE n == Len(logs)
           S == {i \in DOMAIN logs : logs[i].hook = h /\ logs[i].status \in statuses}
           T == {i \in DOMAIN logs' : logs'[i].hook = h /\ logs'[i].status \in statuses}
<1>1. /\ n \in Nat /\ DOMAIN logs = 1..n /\ DOMAIN logs' = 1..(n + 1)
      /\ logs'[n + 1] = e
      /\ \A i \in 1..n : logs'[i] = logs[i]
  OBVIOUS
<1>2. LastAt(h, statuses)' = IF T = {} THEN 0
                             ELSE logs'[CHOOSE i \in T : \A j \in T : j <= i].at
  BY DEF LastAt
<1>3. LastAt(h, statuses) = IF S = {} THEN 0
                            ELSE logs[CHOOSE i \in S : \A j \in S : j <= i].at
  BY DEF LastAt
<1>4. CASE e.hook = h /\ e.status \in statuses
  <2>1. n + 1 \in T /\ \A j \in T : j \in 1..(n + 1)
    BY <1>1, <1>4
  <2> DEFINE last == CHOOSE i \in T : \A j \in T : j <= i
  <2>2. \E i \in T : \A j \in T : j <= i
    BY <1>1, <2>1
  <2>3. last \in T /\ \A j \in T : j <= last
    BY <2>2
  <2> HIDE DEF last, T, n
  <2>4. last = n + 1
    BY <1>1, <2>1, <2>3
  <2> QED
    BY <1>1, <1>2, <1>4, <2>1, <2>4 DEF last
<1>5. CASE ~(e.hook = h /\ e.status \in statuses)
  <2>1. T = S
    BY <1>1, <1>5
  <2>2. S \subseteq 1..n
    BY <1>1
  <2> HIDE DEF S, T
  <2>3. CASE S = {}
    BY <1>2, <1>3, <1>5, <2>1, <2>3
  <2>4. CASE S # {}
    <3> DEFINE last == CHOOSE i \in S : \A j \in S : j <= i
    <3>1. \E i \in S : \A j \in S : j <= i
      BY <1>1, <2>2, <2>4, LastExists
    <3>2. last \in S
      BY <3>1
    <3>3. logs'[last] = logs[last]
      BY <1>1, <2>2, <3>2
    <3> QED
      BY <1>2, <1>3, <1>5, <2>1, <2>4, <3>3
  <2> QED
    BY <2>3, <2>4
<1> QED
  BY <1>4, <1>5

\* Retry counts are numbers.
LEMMA RetryCountsNatural ==
  ASSUME NEW h \in Hooks
  PROVE  RetryCounts(h) \subseteq Nat
<1>1. SeedHooks[h] # Null => SeedHooks[h].retries \in Nat
  BY SeedAssumption DEF HookRow
<1>2. \A q \in Creations : q.row.retries \in Nat
  <2>1. ASSUME NEW q \in Creations PROVE q.row.retries \in Nat
    <3>1. q.row \in HookRow
      BY <2>1, RequestFacts DEF Creations, Created
    <3> QED
      BY <3>1 DEF HookRow
  <2> QED
    BY <2>1
<1>3. \A q \in Requests : q.op = "update_webhook" /\ "retries" \in DOMAIN q.set
                            => q.set.retries \in Nat
  BY RequestFacts DEF Settable
<1> QED
  BY <1>1, <1>2, <1>3 DEF RetryCounts

\* What record_delivery_outcome makes of a row.
LEMMA RolledUpRow ==
  ASSUME NEW row \in HookRow, NEW status \in DeliveryStatus, NEW at \in Nat
  PROVE  LET new == RolledUp(row, status, at)
         IN  /\ new \in HookRow
             /\ new.name = row.name /\ new.status = row.status
             /\ new.auth = row.auth /\ new.secret = row.secret
             /\ new.retries = row.retries
             /\ new.enabled = row.enabled /\ new.deleted = row.deleted
             /\ new.delivery = at
             /\ new.success = IF status = "SUCCESS" THEN at ELSE row.success
             /\ new.failure = IF status = "SUCCESS" THEN row.failure ELSE at
<1> DEFINE success == IF status = "SUCCESS" THEN at ELSE row.success
           failure == IF status = "SUCCESS" THEN row.failure ELSE at
           y == [row EXCEPT !.delivery = at]
           z == [y EXCEPT !.success = success]
           x == [z EXCEPT !.failure = failure]
<1>1. success \in Nat /\ failure \in Nat
  BY DEF HookRow
<1>2. RolledUp(row, status, at) = x
  BY DEF RolledUp, HookRow
<1> HIDE DEF success, failure
<1>3. /\ y \in HookRow
      /\ y.name = row.name /\ y.status = row.status /\ y.auth = row.auth
      /\ y.secret = row.secret /\ y.retries = row.retries
      /\ y.enabled = row.enabled /\ y.deleted = row.deleted /\ y.delivery = at
  BY DEF HookRow
<1> HIDE DEF y
<1>4. /\ z \in HookRow
      /\ z.name = row.name /\ z.status = row.status /\ z.auth = row.auth
      /\ z.secret = row.secret /\ z.retries = row.retries
      /\ z.enabled = row.enabled /\ z.deleted = row.deleted /\ z.delivery = at
      /\ z.success = success
  BY <1>1, <1>3 DEF HookRow
<1> HIDE DEF z
<1>5. /\ x \in HookRow
      /\ x.name = row.name /\ x.status = row.status /\ x.auth = row.auth
      /\ x.secret = row.secret /\ x.retries = row.retries
      /\ x.enabled = row.enabled /\ x.deleted = row.deleted /\ x.delivery = at
      /\ x.success = success /\ x.failure = failure
  BY <1>1, <1>4 DEF HookRow
<1> HIDE DEF x
<1> QED
  BY <1>2, <1>5 DEF success, failure

\* The log and the timestamps of a webhook are written together.
LEMMA RecordInv == ASSUME Inv, NEW r \in Requests, Record(r) PROVE Inv'
<1> DEFINE s == session[r]
           h == r.hook
           e == [hook |-> h, status |-> s.status, attempt |-> s.attempt, at |-> s.at]
           row == RolledUp(hooks[h], s.status, s.at)
<1>1. /\ s.step = "record"
      /\ logs' = Append(logs, e)
      /\ hooks' = [hooks EXCEPT ![h] = row]
      /\ End(r) /\ UNCHANGED clock
  BY DEF Record, At
<1>2. /\ s \in SessionState /\ RequestInv(r, s, hooks, logs)
  BY StateFacts
<1>3. /\ r.op \in DeliveryOps /\ hooks[h] # Null
      /\ s.row \in HookRow /\ s.row.retries \in RetryCounts(h)
      /\ s.attempt \in Nat /\ s.attempt >= 1 /\ Continues(s.attempt, h, logs)
      /\ s.status \in DeliveryStatus
      /\ s.at \in Nat /\ s.at >= 1
      /\ s.status = "FAILED" => s.attempt < s.row.retries
  BY <1>1, <1>2 DEF RequestInv, SessionState
<1>4. h \in Hooks /\ hooks[h] \in HookRow /\ HookInv(h, hooks[h])
  <2>1. r.op \notin BulkOps
    BY <1>3 DEF DeliveryOps, BulkOps
  <2> QED
    BY <1>3, <2>1, RequestFacts, StateFacts
<1>5. /\ row \in HookRow
      /\ row.auth = hooks[h].auth /\ row.secret = hooks[h].secret
      /\ row.retries = hooks[h].retries
      /\ row.delivery = s.at
      /\ row.success = IF s.status = "SUCCESS" THEN s.at ELSE hooks[h].success
      /\ row.failure = IF s.status = "SUCCESS" THEN hooks[h].failure ELSE s.at
  BY <1>3, <1>4, RolledUpRow
<1>6. /\ e \in LogRow
      /\ e.hook = h /\ e.status = s.status /\ e.attempt = s.attempt /\ e.at = s.at
  BY <1>3, <1>4 DEF LogRow
<1> HIDE DEF s, h, e, row
<1>7. row # Null
  BY <1>5, NullAssumption
<1>8. /\ hooks' \in [Hooks -> HookRow \cup {Null}]
      /\ \A g \in Hooks : hooks'[g] = IF g = h THEN row ELSE hooks[g]
  BY <1>1, <1>4, <1>5 DEF Inv, TypeInv
<1>9. \A g \in Hooks : HookInv(g, hooks'[g])
  BY <1>4, <1>3, <1>5, <1>8 DEF Inv, HookInv, ChecksHold
<1>10. \A g \in Hooks : /\ hooks[g] # Null => hooks'[g] # Null
                        /\ hooks[g] = Null => hooks'[g] = Null
  BY <1>3, <1>7, <1>8
<1>11. logs \in Seq(LogRow)
  BY DEF Inv, TypeInv
<1> DEFINE n == Len(logs)
<1>12. /\ n \in Nat /\ DOMAIN logs = 1..n /\ DOMAIN logs' = 1..(n + 1)
       /\ logs'[n + 1] = e
       /\ \A i \in 1..n : logs'[i] = logs[i]
       /\ logs' \in Seq(LogRow)
  BY <1>1, <1>6, <1>11
<1> HIDE DEF n
<1>13. Extends(logs, logs')
  BY <1>12 DEF Extends
<1>14. ASSUME NEW i \in DOMAIN logs' PROVE LogInv(i, logs', hooks')
  <2>1. CASE i \in 1..n
    <3>1. LogInv(i, logs, hooks) /\ logs[i] \in LogRow
      BY <1>11, <1>12, <2>1 DEF Inv
    <3>2. hooks'[logs[i].hook] # Null
      BY <1>10, <3>1 DEF LogInv, LogRow
    <3>3. \A j \in 1..(i - 1) : logs'[j] = logs[j]
      BY <1>12, <2>1
    <3> QED
      BY <1>12, <2>1, <3>1, <3>2, <3>3 DEF LogInv
  <2>2. CASE i = n + 1
    <3>1. logs'[i] = e /\ i - 1 = n
      BY <1>12, <2>2
    <3>2. hooks'[e.hook] # Null
      BY <1>4, <1>6, <1>7, <1>8
    <3>3. e.status = "FAILED" => \E m \in RetryCounts(e.hook) : e.attempt < m
      BY <1>3, <1>6
    <3>4. ASSUME e.attempt > 1
          PROVE  /\ \E m \in RetryCounts(e.hook) : e.attempt <= m
                 /\ \E j \in 1..(i - 1) : /\ logs'[j].hook = e.hook
                                          /\ logs'[j].status = "FAILED"
                                          /\ logs'[j].attempt = e.attempt - 1
      <4>1. PICK j \in DOMAIN logs : /\ logs[j].hook = h
                                     /\ logs[j].status = "FAILED"
                                     /\ logs[j].attempt = s.attempt - 1
        BY <1>3, <1>6, <3>4 DEF Continues
      <4>2. PICK m \in RetryCounts(h) : logs[j].attempt < m
        BY <4>1 DEF Inv, LogInv
      <4>3. m \in Nat
        BY <4>2, <1>4, RetryCountsNatural
      <4>4. s.attempt <= m
        BY <1>3, <4>1, <4>2, <4>3
      <4>5. j \in 1..(i - 1) /\ logs'[j] = logs[j]
        BY <1>12, <3>1
      <4> QED
        BY <1>6, <4>1, <4>2, <4>4, <4>5
    <3> QED
      BY <3>1, <3>2, <3>3, <3>4 DEF LogInv
  <2> QED
    BY <1>12, <2>1, <2>2
<1>15. RollupMatchesLogs'
  <2>1. ASSUME NEW g \in Hooks, hooks'[g] # Null
        PROVE  /\ hooks'[g].delivery = LastAt(g, DeliveryStatus)'
               /\ hooks'[g].success = LastAt(g, {"SUCCESS"})'
               /\ hooks'[g].failure = LastAt(g, DeliveryStatus \ {"SUCCESS"})'
    <3>1. \A statuses : LastAt(g, statuses)' = IF e.hook = g /\ e.status \in statuses
                                               THEN e.at ELSE LastAt(g, statuses)
      BY <1>1, <1>6, <1>11, LastAppended
    <3>2. /\ hooks[g].delivery = LastAt(g, DeliveryStatus)
          /\ hooks[g].success = LastAt(g, {"SUCCESS"})
          /\ hooks[g].failure = LastAt(g, DeliveryStatus \ {"SUCCESS"})
      BY <1>10, <2>1 DEF Inv, RollupMatchesLogs
    <3>3. CASE g = h
      <4>1. /\ LastAt(g, DeliveryStatus)' = s.at
            /\ LastAt(g, {"SUCCESS"})' = IF s.status = "SUCCESS" THEN s.at
                                         ELSE LastAt(g, {"SUCCESS"})
            /\ LastAt(g, DeliveryStatus \ {"SUCCESS"})' =
                 IF s.status = "SUCCESS" THEN LastAt(g, DeliveryStatus \ {"SUCCESS"})
                 ELSE s.at
        BY <1>3, <1>6, <3>1, <3>3
      <4> QED
        BY <1>5, <1>8, <3>2, <3>3, <4>1
    <3>4. CASE g # h
      BY <1>6, <1>8, <3>1, <3>2, <3>4
    <3> QED
      BY <3>3, <3>4
  <2> QED
    BY <2>1 DEF RollupMatchesLogs
<1> QED
  BY <1>1, <1>8, <1>9, <1>10, <1>12, <1>13, <1>14, <1>15, TableWritten
----------------------------------------------------------------------------
(* The theorems.                                                           *)

\* Nothing has been delivered, every row is as it was seeded.
LEMMA InitInv == Init => Inv
<1> SUFFICES ASSUME Init PROVE Inv
  OBVIOUS
<1>1. PICK chosen \in Scenarios :
        session = [r \in Requests |-> Fresh(IF r \in chosen THEN "idle" ELSE "ended", Null)]
  BY DEF Init
<1>2. hooks = SeedHooks /\ logs = << >> /\ clock = 0
  BY DEF Init
<1>3. ASSUME NEW r \in Requests
      PROVE  /\ session[r] \in SessionState
             /\ session[r].step \in {"idle", "ended"}
  <2> DEFINE step == IF r \in chosen THEN "idle" ELSE "ended"
  <2>1. session[r] = Fresh(step, Null) /\ step \in {"idle", "ended"}
    BY <1>1
  <2> HIDE DEF step
  <2> QED
    BY <2>1, FreshState
<1>4. TypeInv
  BY <1>1, <1>2, <1>3, SeedAssumption DEF TypeInv
<1>5. \A h \in Hooks : HookInv(h, hooks[h])
  BY <1>2, SeedAssumption DEF HookInv, RetryCounts
<1>6. \A i \in DOMAIN logs : LogInv(i, logs, hooks)
  BY <1>2
<1>7. \A r \in Requests : RequestInv(r, session[r], hooks, logs)
  BY <1>2, <1>3, RequestFacts DEF RequestInv
<1>8. RollupMatchesLogs
  <2>1. \A h, statuses : LastAt(h, statuses) = 0
    BY <1>2 DEF LastAt
  <2> QED
    BY <1>2, <2>1, SeedAssumption DEF RollupMatchesLogs
<1> QED
  BY <1>4, <1>5, <1>6, <1>7, <1>8 DEF Inv

\* Every step keeps the invariant.
LEMMA StepInv == Inv /\ [Next]_vars => Inv'
<1> SUFFICES ASSUME Inv, [Next]_vars PROVE Inv'
  OBVIOUS
<1>1. ASSUME NEW r \in Requests, BeginCreate(r) PROVE Inv'
  BY <1>1, BeginCreateInv
<1>2. ASSUME NEW r \in Requests, Load(r) PROVE Inv'
  BY <1>2, LoadInv
<1>3. ASSUME NEW r \in Requests, BeginBulk(r) PROVE Inv'
  BY <1>3, BeginBulkInv
<1>4. ASSUME NEW r \in Requests, CheckName(r) PROVE Inv'
  BY <1>4, CheckNameInv
<1>5. ASSUME NEW r \in Requests, Write(r) PROVE Inv'
  BY <1>5, WriteInv
<1>6. ASSUME NEW r \in Requests, BulkWrite(r) PROVE Inv'
  BY <1>6, BulkWriteInv
<1>7. ASSUME NEW r \in Requests, BeginDelivery(r) PROVE Inv'
  BY <1>7, BeginDeliveryInv
<1>8. ASSUME NEW r \in Requests, Answer(r) PROVE Inv'
  BY <1>8, AnswerInv
<1>9. ASSUME NEW r \in Requests, Record(r) PROVE Inv'
  BY <1>9, RecordInv
<1>10. ASSUME NEW r \in Requests, Abandon(r) PROVE Inv'
  BY <1>10, RefuseInv DEF Abandon
<1>11. CASE UNCHANGED vars
  <2>1. UNCHANGED <<hooks, logs, session, clock>>
    BY <1>11 DEF vars
  <2>2. TypeInv'
    BY <2>1 DEF Inv, TypeInv
  <2>3. /\ \A h \in Hooks : HookInv(h, hooks'[h])
        /\ \A i \in DOMAIN logs' : LogInv(i, logs', hooks')
        /\ \A r \in Requests : RequestInv(r, session'[r], hooks', logs')
    BY <2>1 DEF Inv
  <2>4. ASSUME NEW h, NEW statuses PROVE LastAt(h, statuses)' = LastAt(h, statuses)
    BY <2>1 DEF LastAt
  <2>5. RollupMatchesLogs'
    BY <2>1, <2>4 DEF Inv, RollupMatchesLogs
  <2> QED
    BY <2>2, <2>3, <2>5 DEF Inv
<1> QED
  BY <1>1, <1>2, <1>3, <1>4, <1>5, <1>6, <1>7, <1>8, <1>9, <1>10, <1>11 DEF Next

\* The invariant.
LEMMA Invariant == Spec => []Inv
BY InitInv, StepInv, PTL DEF Spec

\* Rows are rows, and the table's CHECK never refuses an update that was
\* validated against the row as loaded and sets no secret to null.
THEOREM WebhooksTypeCorrect == Spec => []TypeOK
<1>1. Inv => TypeOK
  <2> SUFFICES ASSUME Inv PROVE TypeOK
    OBVIOUS
  <2>1. ASSUME NEW r \in Requests, r.op = "update_webhook", At(r, "write"),
               "secret" \in DOMAIN r.set => r.set.secret
        PROVE  ChecksHold(Written(r))
    <3>1. r.op \in HookOps /\ r.op \notin BulkOps
      BY <2>1 DEF HookOps, BulkOps
    <3>2. /\ hooks[r.hook] # Null
          /\ Loaded(r) \in HookRow /\ ChecksHold(Loaded(r))
          /\ CoherentWith(r, Loaded(r))
      BY <2>1, <3>1, StateFacts DEF RequestInv, At, Loaded
    <3>3. hooks[r.hook] \in HookRow /\ ChecksHold(hooks[r.hook])
      BY <3>1, <3>2, StateFacts DEF HookInv
    <3> QED
      BY <2>1, <3>2, <3>3, UpdateChecked
  <2> QED
    BY <2>1 DEF Inv, TypeInv, TypeOK
<1> QED
  BY <1>1, Invariant, PTL

\* No retry, however it interleaves with changes of the retry count, makes
\* an attempt beyond every count the webhook has had, or after a success.
THEOREM RetriesBounded == Spec => []AttemptsBounded
<1>1. Inv => AttemptsBounded
  BY DEF Inv, LogInv, AttemptsBounded
<1> QED
  BY <1>1, Invariant, PTL

\* No change of a webhook loses the outcome of a delivery that was under
\* way: its timestamps are those of its logs committed last.
THEOREM RollupFollowsLogs == Spec => []RollupMatchesLogs
<1>1. Inv => RollupMatchesLogs
  BY DEF Inv
<1> QED
  BY <1>1, Invariant, PTL

\* Only a deletion that has crossed another change of the same webhook can
\* leave a deleted webhook enabled.
THEOREM DeletedMeansDisabled == Spec => DeletionDisables
<1> DEFINE Bad(row) == row # Null /\ row.deleted /\ row.enabled
<1>1. ASSUME Inv, [Next]_vars, NEW h \in Hooks, Bad(hooks'[h]), ~Bad(hooks[h])
      PROVE  \E r \in Requests : r.op \in HookOps /\ r.hook = h /\ DecidedOnStale(r)
  <2>1. hooks'[h] # hooks[h]
    BY <1>1, SMTT(60)
  <2>2. PICK r \in Requests : Write(r) \/ BulkWrite(r) \/ Record(r)
    BY <1>1, <2>1 DEF Next, vars, BeginCreate, Load, BeginBulk, CheckName,
                      BeginDelivery, Answer, Abandon, Refuse, Goto
  <2>3. CASE Write(r)
    <3>1. session[r].step = "write" /\ RequestInv(r, session[r], hooks, logs)
      BY <1>1, <2>3, StateFacts DEF Write, At
    <3>2. r.op \in HookOps \cup {"create_webhook"}
      BY <3>1 DEF RequestInv
    <3>3. r.hook \in Hooks /\ r.op \notin BulkOps
      BY <3>2, RequestFacts DEF HookOps, BulkOps
    <3>4. /\ r.hook = h
          /\ hooks'[h] = IF r.op = "create_webhook" THEN r.row ELSE Written(r)
      BY <1>1, <2>1, <2>3, <3>3 DEF Write, Inv, TypeInv
    <3>5. r.op # "create_webhook"
      BY <1>1, <3>4, RequestFacts DEF Created
    <3>6. /\ r.op \in HookOps
          /\ hooks[h] # Null
          /\ Loaded(r) \in HookRow
          /\ Loaded(r).deleted <=> r.op = "restore_webhook"
      BY <3>1, <3>2, <3>4, <3>5 DEF RequestInv, Loaded
    <3>7. hooks[h] \in HookRow
      BY <1>1, <3>3, <3>4, <3>6, StateFacts
    <3>8. /\ Written(r)["enabled"] = TRUE
          /\ Written(r)["deleted"] = TRUE
      BY <1>1, <3>4, <3>5, <3>6, <3>7, WrittenRow DEF HookRow
    <3>9. Loaded(r).enabled # hooks[h].enabled \/ Loaded(r).deleted # hooks[h].deleted
      <4> DEFINE old == Loaded(r)
                 row == hooks[h]
                 set == Assigned(r)
                 new == Written(r)
      <4>1. \A c \in {"enabled", "deleted"} : new[c] = IF c \in DOMAIN set /\ set[c] # old[c]
                                                       THEN set[c] ELSE row[c]
        BY <3>4, <3>6, <3>7, WrittenRow DEF Columns
      <4>2. ~(row["deleted"] = TRUE /\ row["enabled"] = TRUE)
        BY <1>1, <3>6
      <4>3. /\ old["enabled"] \in BOOLEAN /\ old["deleted"] \in BOOLEAN
            /\ row["enabled"] \in BOOLEAN /\ row["deleted"] \in BOOLEAN
        BY <3>6, <3>7, RowColumns
      <4>4. /\ r.op = "delete_webhook" => "enabled" \in DOMAIN set /\ set["enabled"] = FALSE
            /\ r.op = "restore_webhook" => "deleted" \in DOMAIN set /\ set["deleted"] = FALSE
            /\ r.op \notin {"delete_webhook", "restore_webhook"} => "deleted" \notin DOMAIN set
        BY <3>6, AssignedColumns DEF HookOps
      <4>5. old["deleted"] <=> r.op = "restore_webhook"
        BY <3>6
      <4>6. new["enabled"] = TRUE /\ new["deleted"] = TRUE
        BY <3>8
      <4> SUFFICES old["enabled"] # row["enabled"] \/ old["deleted"] # row["deleted"]
        OBVIOUS
      <4> HIDE DEF old, row, set, new
      <4>7. CASE r.op = "delete_webhook"
        BY <4>1, <4>2, <4>3, <4>4, <4>5, <4>6, <4>7
      <4>8. CASE r.op = "restore_webhook"
        BY <4>1, <4>3, <4>4, <4>5, <4>6, <4>8
      <4>9. CASE r.op \notin {"delete_webhook", "restore_webhook"}
        BY <4>1, <4>3, <4>4, <4>5, <4>6, <4>9
      <4> QED
        BY <4>7, <4>8, <4>9
    <3>10. session'[r].step = "ended"
      BY <1>1, <2>3 DEF Write, End, Fresh, Inv, TypeInv
    <3>11. DecidedOnStale(r)
      BY <3>1, <3>4, <3>9, <3>10 DEF DecidedOnStale, At
    <3> QED
      BY <3>4, <3>6, <3>11
  <2>4. CASE BulkWrite(r)
    <3>1. hooks[h] \in HookRow \cup {Null}
      BY <1>1 DEF Inv, TypeInv
    <3>2. Live(h) /\ hooks'[h] = [hooks[h] EXCEPT !.enabled = (r.op = "bulk_enable")]
      BY <2>1, <2>4 DEF BulkWrite
    <3>3. hooks'[h].deleted = hooks[h].deleted /\ ~hooks[h].deleted
      BY <3>1, <3>2 DEF Live, HookRow
    <3> QED
      BY <1>1, <3>3
  <2>5. CASE Record(r)
    <3>1. session[r].step = "record" /\ RequestInv(r, session[r], hooks, logs)
          /\ session[r] \in SessionState
      BY <1>1, <2>5, StateFacts DEF Record, At
    <3>2. /\ r.op \in DeliveryOps /\ hooks[r.hook] # Null
          /\ session[r].status \in DeliveryStatus /\ session[r].at \in Nat
      BY <3>1 DEF RequestInv, SessionState
    <3>3. r.op \notin BulkOps
      BY <3>2 DEF DeliveryOps, BulkOps
    <3>4. r.hook \in Hooks /\ hooks[r.hook] \in HookRow
      BY <1>1, <3>2, <3>3, RequestFacts, StateFacts
    <3> DEFINE new == RolledUp(hooks[r.hook], session[r].status, session[r].at)
    <3>5. new.enabled = hooks[r.hook].enabled /\ new.deleted = hooks[r.hook].deleted
      BY <3>2, <3>4, RolledUpRow
    <3>6. hooks' = [hooks EXCEPT ![r.hook] = new]
      BY <2>5 DEF Record
    <3> HIDE DEF new
    <3>7. hooks'[h] = IF h = r.hook THEN new ELSE hooks[h]
      BY <1>1, <3>6 DEF Inv, TypeInv
    <3> QED
      BY <1>1, <2>1, <3>2, <3>5, <3>7
  <2> QED
    BY <2>2, <2>3, <2>4, <2>5
<1>2. Inv /\ [Next]_vars =>
        \A h \in Hooks :
          /\ hooks'[h] # Null /\ hooks'[h].deleted /\ hooks'[h].enabled
          /\ hooks[h] # Null => ~(hooks[h].deleted /\ hooks[h].enabled)
          => \E r \in Requests : r.op \in HookOps /\ r.hook = h /\ DecidedOnStale(r)
  BY <1>1
<1> QED
  BY <1>2, Invariant, PTL DEF Spec, DeletionDisables
=============================================================================
