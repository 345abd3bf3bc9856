------------------------------ MODULE Webhooks ------------------------------
(***************************************************************************)
(* WebhookService and WebhookRepository: requests that create, update,     *)
(* delete, restore, enable and disable webhooks, and requests that deliver *)
(* to one (a test, a manual trigger, a retry) and log the attempt.         *)
(*                                                                         *)
(* A request is one READ COMMITTED transaction: it loads the row it is     *)
(* about, decides on what it loaded, writes the columns that it changes    *)
(* and commits.  A delivery awaits the target's answer between its load    *)
(* and its writes, with the transaction open and no row locked.            *)
(*                                                                         *)
(* The writes of a request and its commit are one step here: from its      *)
(* UPDATE of a row to its commit the request holds the row's lock, and     *)
(* what it writes to the row depends on nothing it reads in between.       *)
(***************************************************************************)
EXTENDS Integers, Sequences, FiniteSets

CONSTANTS Hooks,      \* primary keys
          SeedHooks,  \* the rows committed before the first request
          Names,
          Scenarios,  \* bound: sets of requests, each made at most once
          Requests,   \* those of all scenarios
          Null

WebhookStatus == {"ACTIVE", "INACTIVE", "SUSPENDED", "FAILED"}
\* The other types need a secret as HMAC_SIGNATURE does.
AuthenticationType == {"NONE", "HMAC_SIGNATURE"}

\* PENDING and RETRYING are never written.
DeliveryStatus == {"SUCCESS", "FAILED", "DEAD_LETTERED"}

\* secret: secret_key is not null; delivery, success, failure:
\* last_delivery_at and so on, 0 for null.
HookRow == [name: Names, status: WebhookStatus, auth: AuthenticationType,
            secret: BOOLEAN, retries: Nat, enabled: BOOLEAN,
            deleted: BOOLEAN, delivery: Nat, success: Nat, failure: Nat]

LogRow == [hook: Hooks, status: DeliveryStatus, attempt: Nat \ {0}, at: Nat \ {0}]

\* ck_webhooks_secret_key_required_when_authenticated.
ChecksHold(row) == row.auth = "NONE" <=> ~row.secret

HookOps == {"update_webhook", "delete_webhook", "restore_webhook",
            "enable_webhook", "disable_webhook"}
BulkOps == {"bulk_enable", "bulk_disable"}
DeliveryOps == {"test_webhook", "manual_trigger", "retry_delivery"}

\* Columns a client can set in an update, the secret also to null.
Settable(set) ==
  /\ DOMAIN set \subseteq {"name", "status", "auth", "secret", "retries", "enabled"}
  /\ "name" \in DOMAIN set => set.name \in Names
  /\ "status" \in DOMAIN set => set.status \in WebhookStatus
  /\ "auth" \in DOMAIN set => set.auth \in AuthenticationType
  /\ "secret" \in DOMAIN set => set.secret \in BOOLEAN
  /\ "retries" \in DOMAIN set => set.retries \in Nat
  /\ "enabled" \in DOMAIN set => set.enabled \in BOOLEAN

Created(row) ==
  /\ row \in HookRow
  /\ ChecksHold(row)
  /\ row.status = "ACTIVE" /\ ~row.deleted
  /\ row.delivery = 0 /\ row.success = 0 /\ row.failure = 0

ValidRequest(r) ==
  \/ /\ r.op = "create_webhook"
     /\ r.hook \in Hooks /\ SeedHooks[r.hook] = Null /\ Created(r.row)
  \/ r.op = "update_webhook" /\ r.hook \in Hooks /\ Settable(r.set)
  \/ r.op \in (HookOps \ {"update_webhook"}) \cup DeliveryOps /\ r.hook \in Hooks
  \/ r.op \in BulkOps /\ r.hooks \subseteq Hooks

Creations == {r \in Requests : r.op = "create_webhook"}
Deliveries == {r \in Requests : r.op \in DeliveryOps}

ASSUME SeedAssumption ==
  /\ SeedHooks \in [Hooks -> HookRow \cup {Null}]
  /\ \A h, g \in Hooks : SeedHooks[h] # Null =>
       /\ ChecksHold(SeedHooks[h])
       /\ SeedHooks[h].delivery = 0 /\ SeedHooks[h].success = 0 /\ SeedHooks[h].failure = 0
       /\ SeedHooks[h].deleted => ~SeedHooks[h].enabled
       /\ h # g /\ SeedHooks[g] # Null => SeedHooks[h].name # SeedHooks[g].name
ASSUME RequestsAssumption ==
  /\ \A r \in Requests : ValidRequest(r)
  /\ \A r, q \in Creations : r.hook = q.hook => r = q
ASSUME NullAssumption == Null \notin HookRow \cup DeliveryStatus
ASSUME ScenariosAssumption == UNION Scenarios = Requests

VARIABLES hooks,    \* committed rows of the webhooks table
          logs,     \* webhook_logs, in the order of their commits
          session,  \* the transaction of each request
          clock     \* how many deliveries have been answered

vars == <<hooks, logs, session, clock>>
----------------------------------------------------------------------------
(* Requests.                                                               *)

\* row: the row as loaded; attempt: that a delivery makes; status, at: the
\* outcome it has observed.
SessionState ==
  [step: {"idle", "name", "write", "bulk", "await", "record", "ended"},
   row: HookRow \cup {Null}, attempt: Nat,
   status: DeliveryStatus \cup {Null}, at: Nat]

Fresh(step, row) ==
  [step |-> step, row |-> row, attempt |-> 0, status |-> Null, at |-> 0]

Init ==
  /\ hooks = SeedHooks
  /\ logs = << >>
  /\ \E chosen \in Scenarios :
       session = [r \in Requests |-> Fresh(IF r \in chosen THEN "idle" ELSE "ended", Null)]
  /\ clock = 0

At(r, step) == session[r].step = step
Loaded(r) == session[r].row
Live(h) == hooks[h] # Null /\ ~hooks[h].deleted

Goto(r, state) ==
  /\ session' = [session EXCEPT ![r] = state]
  /\ UNCHANGED <<hooks, logs, clock>>

End(r) == session' = [session EXCEPT ![r] = Fresh("ended", Null)]
Refuse(r) == End(r) /\ UNCHANGED <<hooks, logs, clock>>

\* A refusal, an error, a client that goes away, a crash: all roll back.
Abandon(r) == session[r].step \notin {"idle", "ended"} /\ Refuse(r)
----------------------------------------------------------------------------
(* Changing webhooks.                                                      *)

\* validate_authentication, on what is set and, for the rest, on the row as
\* loaded.  A secret set to null counts as one that is not set.
Coherent(r) ==
  LET auth == IF "auth" \in DOMAIN r.set THEN r.set.auth ELSE Loaded(r).auth
      secret == Loaded(r).secret \/ ("secret" \in DOMAIN r.set /\ r.set.secret)
  IN  auth = "NONE" <=> ~secret

Renames(r) == "name" \in DOMAIN r.set /\ r.set.name # Loaded(r).name

\* create_webhook looks for the name, among deleted webhooks too.
BeginCreate(r) ==
  /\ r.op = "create_webhook"
  /\ At(r, "idle")
  /\ Goto(r, Fresh("name", r.row))

\* _get_or_raise; restore_webhook only takes a deleted webhook.
Load(r) ==
  /\ r.op \in HookOps
  /\ At(r, "idle")
  /\ hooks[r.hook] # Null
  /\ hooks[r.hook].deleted <=> r.op = "restore_webhook"
  /\ r.op = "enable_webhook" => hooks[r.hook].status \notin {"SUSPENDED", "FAILED"}
  /\ Goto(r, Fresh(IF r.op = "update_webhook" THEN "name" ELSE "write", hooks[r.hook]))

BeginBulk(r) == r.op \in BulkOps /\ At(r, "idle") /\ Goto(r, Fresh("bulk", Null))

NameTaken(r, name) ==
  \E h \in Hooks \ {r.hook} : hooks[h] # Null /\ hooks[h].name = name

\* The pre-checks of create_webhook and update_webhook.
CheckName(r) ==
  /\ At(r, "name")
  /\ r.op = "create_webhook" => ~NameTaken(r, r.row.name)
  /\ r.op = "update_webhook" =>
       Coherent(r) /\ (Renames(r) => ~NameTaken(r, r.set.name))
  /\ session' = [session EXCEPT ![r].step = "write"]
  /\ UNCHANGED <<hooks, logs, clock>>

\* What a request assigns to the row.
\* Mutant: soft_delete leaves the webhook enabled.
Assigned_StillEnabled(r) ==
  CASE r.op = "update_webhook"  -> r.set
    [] r.op = "delete_webhook"  -> [deleted |-> TRUE]
    [] r.op = "restore_webhook" -> [deleted |-> FALSE]
    [] r.op = "enable_webhook"  -> [enabled |-> TRUE]
    [] r.op = "disable_webhook" -> [enabled |-> FALSE]

Assigned(r) ==
  CASE r.op = "update_webhook"  -> r.set
    [] r.op = "delete_webhook"  -> [deleted |-> TRUE, enabled |-> FALSE]
    [] r.op = "restore_webhook" -> [deleted |-> FALSE]
    [] r.op = "enable_webhook"  -> [enabled |-> TRUE]
    [] r.op = "disable_webhook" -> [enabled |-> FALSE]

\* The UPDATE names the columns whose value differs from the loaded one.
\* Mutant: it names every column that is assigned.
Written_Assigned(r) ==
  LET set == Assigned(r) IN
  [c \in DOMAIN Loaded(r) |-> IF c \in DOMAIN set THEN set[c] ELSE hooks[r.hook][c]]

Written(r) ==
  LET set == Assigned(r) IN
  [c \in DOMAIN Loaded(r) |->
     IF c \in DOMAIN set /\ set[c] # Loaded(r)[c] THEN set[c] ELSE hooks[r.hook][c]]

\* uq_webhooks_name and the CHECKs of the table.
Accepted(r, row) == ChecksHold(row) /\ ~NameTaken(r, row.name)

Write(r) ==
  LET row == IF r.op = "create_webhook" THEN r.row ELSE Written(r) IN
  /\ At(r, "write")
  /\ Accepted(r, row)
  /\ hooks' = [hooks EXCEPT ![r.hook] = row]
  /\ End(r)
  /\ UNCHANGED <<logs, clock>>

\* One UPDATE of the webhooks that are listed and not deleted.
BulkWrite(r) ==
  /\ At(r, "bulk")
  /\ hooks' = [h \in Hooks |-> IF h \in r.hooks /\ Live(h)
                               THEN [hooks[h] EXCEPT !.enabled = (r.op = "bulk_enable")]
                               ELSE hooks[h]]
  /\ End(r)
  /\ UNCHANGED <<logs, clock>>
----------------------------------------------------------------------------
(* Deliveries.                                                             *)

\* The attempts a delivery may make: the first, or the one after a logged
\* failure of which the client gives the id.  A log never changes.
Attempts(r) ==
  IF r.op # "retry_delivery" THEN {1}
  ELSE {logs[i].attempt + 1 : i \in {j \in DOMAIN logs :
          logs[j].hook = r.hook /\ logs[j].status = "FAILED"}}

\* A test is sent to a disabled webhook too, and none heeds the status.
BeginDelivery(r) ==
  /\ r.op \in DeliveryOps
  /\ At(r, "idle")
  /\ Live(r.hook)
  /\ r.op # "test_webhook" => hooks[r.hook].enabled
  /\ \E n \in Attempts(r) :
       /\ n - 1 <= hooks[r.hook].retries
       /\ Goto(r, [Fresh("await", hooks[r.hook]) EXCEPT !.attempt = n])

\* Mutant: the last attempt is off by one.
Outcome_OffByOne(succeeded, attempt, retries) ==
  IF succeeded THEN "SUCCESS"
  ELSE IF attempt > retries THEN "DEAD_LETTERED" ELSE "FAILED"

Outcome(succeeded, attempt, retries) ==
  IF succeeded THEN "SUCCESS"
  ELSE IF attempt >= retries THEN "DEAD_LETTERED" ELSE "FAILED"

\* A 2xx answer, or another answer, a timeout or a transport error.
Answer(r) ==
  /\ At(r, "await")
  /\ \E succeeded \in BOOLEAN :
       session' = [session EXCEPT
         ![r].step = "record",
         ![r].status = Outcome(succeeded, session[r].attempt, Loaded(r).retries),
         ![r].at = clock + 1]
  /\ clock' = clock + 1
  /\ UNCHANGED <<hooks, logs>>

\* record_delivery_outcome.
\* Mutant: the timestamps of success and failure are swapped.
RolledUp_Swapped(row, status, at) ==
  [row EXCEPT !.delivery = at,
              !.success = IF status # "SUCCESS" THEN at ELSE @,
              !.failure = IF status # "SUCCESS" THEN @ ELSE at]

RolledUp(row, status, at) ==
  [row EXCEPT !.delivery = at,
              !.success = IF status = "SUCCESS" THEN at ELSE @,
              !.failure = IF status = "SUCCESS" THEN @ ELSE at]

\* The log and the timestamps of the webhook, whatever became of it.
Record(r) ==
  LET s == session[r] IN
  /\ At(r, "record")
  /\ logs' = Append(logs, [hook |-> r.hook, status |-> s.status,
                           attempt |-> s.attempt, at |-> s.at])
  /\ hooks' = [hooks EXCEPT ![r.hook] = RolledUp(@, s.status, s.at)]
  /\ End(r)
  /\ UNCHANGED clock

Next ==
  \E r \in Requests :
    \/ BeginCreate(r)
    \/ Load(r)
    \/ BeginBulk(r)
    \/ CheckName(r)
    \/ Write(r)
    \/ BulkWrite(r)
    \/ BeginDelivery(r)
    \/ Answer(r)
    \/ Record(r)
    \/ Abandon(r)

Spec == Init /\ [][Next]_vars
----------------------------------------------------------------------------
\* Rows are rows, and an update that was validated against the row as loaded
\* is not refused by the CHECK when others have changed the row since, unless
\* it sets the secret to null, which the validators do not see.
TypeOK ==
  /\ hooks \in [Hooks -> HookRow \cup {Null}]
  /\ logs \in Seq(LogRow)
  /\ session \in [Requests -> SessionState]
  /\ clock \in Nat
  /\ \A r \in Requests :
       /\ r.op = "update_webhook" /\ At(r, "write")
       /\ "secret" \in DOMAIN r.set => r.set.secret
       => ChecksHold(Written(r))

\* The retry counts a webhook can ever have had.
RetryCounts(h) ==
  (IF SeedHooks[h] = Null THEN {} ELSE {SeedHooks[h].retries})
  \cup {r.row.retries : r \in {q \in Creations : q.hook = h}}
  \cup {r.set.retries : r \in {q \in Requests : /\ q.op = "update_webhook"
                                                /\ q.hook = h
                                                /\ "retries" \in DOMAIN q.set}}

\* The retry policy holds however retries, deliveries and changes of
\* retry_count interleave: an attempt after the first continues a logged
\* failure of its webhook and exceeds no retry count the webhook has had, so
\* a chain of attempts ends in a success or in a dead letter.
AttemptsBounded ==
  \A i \in DOMAIN logs : logs[i].attempt > 1 =>
    /\ \E n \in RetryCounts(logs[i].hook) : logs[i].attempt <= n
    /\ \E j \in 1..(i - 1) : /\ logs[j].hook = logs[i].hook
                             /\ logs[j].status = "FAILED"
                             /\ logs[j].attempt = logs[i].attempt - 1

\* The time of the log that was committed last among those of a webhook with
\* one of the given statuses, 0 if there is none.
LastAt(h, statuses) ==
  LET S == {i \in DOMAIN logs : logs[i].hook = h /\ logs[i].status \in statuses}
  IN  IF S = {} THEN 0 ELSE logs[CHOOSE i \in S : \A j \in S : j <= i].at

\* The timestamps of a webhook are those of its logs committed last: no
\* concurrent change of the webhook loses one, and one that goes back in
\* time tells of two deliveries that were recorded in the other order.
RollupMatchesLogs ==
  \A h \in Hooks : hooks[h] # Null =>
    /\ hooks[h].delivery = LastAt(h, DeliveryStatus)
    /\ hooks[h].success = LastAt(h, {"SUCCESS"})
    /\ hooks[h].failure = LastAt(h, DeliveryStatus \ {"SUCCESS"})

\* r commits a decision on a row whose enabled or deleted has changed since.
DecidedOnStale(r) ==
  /\ At(r, "write")
  /\ session'[r].step = "ended"
  /\ \/ Loaded(r).enabled # hooks[r.hook].enabled
     \/ Loaded(r).deleted # hooks[r.hook].deleted

\* A deleted webhook is disabled, so that a restored one delivers nothing
\* before someone enables it, except when a deletion and another change of
\* the webhook have crossed.
DeletionDisables ==
  [][\A h \in Hooks :
       /\ hooks'[h] # Null /\ hooks'[h].deleted /\ hooks'[h].enabled
       /\ hooks[h] # Null => ~(hooks[h].deleted /\ hooks[h].enabled)
       => \E r \in Requests : r.op \in HookOps /\ r.hook = h /\ DecidedOnStale(r)]_vars
=============================================================================
