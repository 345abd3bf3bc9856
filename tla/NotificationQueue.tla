------------------------- MODULE NotificationQueue -------------------------
(***************************************************************************)
(* QueueService and SchedulerService over the tables notification_queue    *)
(* and notifications: clients enqueue, schedule, retry, reschedule and     *)
(* cancel notifications while workers claim batches of entries, hand the   *)
(* notifications to a channel dispatcher and record the outcomes.          *)
(*                                                                         *)
(* Neither service commits: a call is one READ COMMITTED transaction that  *)
(* its caller, who is not in the repository, commits when the call returns *)
(* and rolls back when it raises.  What a worker has claimed, sent and     *)
(* recorded in a batch is therefore committed, or lost, as a whole.        *)
(***************************************************************************)
EXTENDS Integers, FiniteSets

CONSTANTS Notifications,  \* persisted notifications
          Deleted,        \* those that are soft-deleted
          Priority,       \* rank of a notification's priority, 0 is URGENT
          Workers,        \* callers of process_next_batch
          Requests,       \* bound: the client calls, each made at most once
          BatchSize, MaxRetries,
          Connections,    \* bound: transactions open at once
          Null

QueueStatus == {"WAITING", "PROCESSING", "COMPLETED", "FAILED", "CANCELLED"}

\* Those the two services write: SCHEDULED, DELIVERED and READ are written by
\* handlers of the notification routes, which never commit.
NotificationStatus ==
  {"PENDING", "QUEUED", "SENT", "FAILED", "RETRYING", "CANCELLED"}

\* due: scheduled_at is null or has passed.  locked_by and locked_at are set
\* exactly while the status is PROCESSING.
QueueRow == [status: QueueStatus, retries: Nat, due: BOOLEAN]
NotificationRow == [status: NotificationStatus, retries: Nat]

EnqueueOps == {"enqueue_notification", "bulk_enqueue", "schedule_notification"}
EntryOps == {"retry_now", "reschedule", "cancel"}
OneNotification(r) == \E n \in Notifications : r.notifications = {n}

ValidRequest(r) ==
  /\ r \in [op: EnqueueOps \cup EntryOps, notifications: SUBSET Notifications]
  /\ r.op # "bulk_enqueue" => OneNotification(r)

ASSUME RequestsAssumption == \A r \in Requests : ValidRequest(r)
ASSUME SessionsAssumption == Workers \cap Requests = {}
ASSUME PriorityAssumption == Priority \in [Notifications -> Nat]
ASSUME BoundsAssumption ==
  BatchSize \in Nat \ {0} /\ MaxRetries \in Nat /\ Connections \in Nat \ {0}
ASSUME NullAssumption == Null \notin QueueRow \cup NotificationRow

VARIABLES queue,          \* committed entries, by notification_id (UNIQUE)
          notifications,  \* committed rows of the notifications table
          session,        \* the transaction of each worker and request
          sent            \* notifications a provider has accepted, ever

vars == <<queue, notifications, session, sent>>
----------------------------------------------------------------------------
(* Transactions.                                                           *)

Sessions == Workers \cup Requests
Nothing == [n \in Notifications |-> Null]

\* todo: the notifications the current statements have still to be run for;
\* entries, rows: uncommitted writes, whose locks the session holds.
SessionState ==
  [step: {"idle", "announce", "insert", "load", "write", "record", "work", "ended"},
   todo: SUBSET Notifications,
   entries: [Notifications -> QueueRow \cup {Null}],
   rows: [Notifications -> NotificationRow \cup {Null}]]

Fresh(step) == [step |-> step, todo |-> {}, entries |-> Nothing, rows |-> Nothing]

Init ==
  /\ queue = Nothing
  /\ notifications = [n \in Notifications |-> [status |-> "PENDING", retries |-> 0]]
  /\ session = [s \in Sessions |-> Fresh("idle")]
  /\ sent = {}

At(s, step) == session[s].step = step
HoldsEntry(s, n) == session[s].entries[n] # Null
HoldsRow(s, n) == session[s].rows[n] # Null
EntryFree(s, n) == \A u \in Sessions \ {s} : ~HoldsEntry(u, n)
RowFree(s, n) == \A u \in Sessions \ {s} : ~HoldsRow(u, n)

Entry(s, n) == IF HoldsEntry(s, n) THEN session[s].entries[n] ELSE queue[n]
Row(s, n) == IF HoldsRow(s, n) THEN session[s].rows[n] ELSE notifications[n]

\* A worker polls again, a client makes each call once.
After(s) == IF s \in Workers THEN Fresh("idle") ELSE Fresh("ended")

Rollback(s) ==
  /\ session' = [session EXCEPT ![s] = After(s)]
  /\ UNCHANGED <<queue, notifications, sent>>

Open(s) == session[s].step \notin {"idle", "ended"}
Connected == Cardinality({s \in Sessions : Open(s)}) < Connections

Abandon(s) == Open(s) /\ Rollback(s)

Commit(s) ==
  /\ session[s].step \in {"record", "work"}
  /\ session[s].todo = {}
  /\ queue' = [n \in Notifications |-> Entry(s, n)]
  /\ notifications' = [n \in Notifications |-> Row(s, n)]
  /\ session' = [session EXCEPT ![s] = After(s)]
  /\ UNCHANGED sent
----------------------------------------------------------------------------
(* Clients.                                                                *)

Begin(r) ==
  LET step == CASE r.op = "schedule_notification" -> "announce"
                [] r.op \in EnqueueOps \ {"schedule_notification"} -> "insert"
                [] r.op \in EntryOps -> "load"
  IN  /\ At(r, "idle")
      /\ Connected
      /\ session' = [session EXCEPT ![r] = [Fresh(step) EXCEPT !.todo = r.notifications]]
      /\ UNCHANGED <<queue, notifications, sent>>

\* schedule_notification writes scheduled_at of the notification first.
Announce(r) ==
  /\ At(r, "announce")
  /\ \E n \in session[r].todo \ Deleted :
       /\ RowFree(r, n)
       /\ session' = [session EXCEPT ![r].rows = [@ EXCEPT ![n] = Row(r, n)],
                                      ![r].step = "insert"]
  /\ UNCHANGED <<queue, notifications, sent>>

\* An INSERT waits for uncommitted rows with its key.  The rows of one
\* INSERT come in the order of the client's list, which may be any.
InsertEntry(r) ==
  /\ At(r, "insert")
  /\ \E n \in session[r].todo :
       /\ EntryFree(r, n)
       /\ queue[n] = Null
       /\ LET left == session[r].todo \ {n}
              entry == [status |-> "WAITING", retries |-> 0,
                        due |-> r.op # "schedule_notification"]
          IN  session' = [session EXCEPT
                ![r].entries = [@ EXCEPT ![n] = entry],
                ![r].todo = IF left = {} THEN r.notifications \ Deleted ELSE left,
                ![r].step = IF left = {} THEN "record" ELSE "insert"]
  /\ UNCHANGED <<queue, notifications, sent>>

UniqueViolation(r) ==
  /\ At(r, "insert")
  /\ \E n \in session[r].todo : EntryFree(r, n) /\ queue[n] # Null
  /\ Rollback(r)

\* NotificationNotFoundError and RetryLimitExceededError, at the statement
\* that finds the row missing: cancel first marks the entry.
Refused(r, n) ==
  CASE At(r, "announce") -> n \in Deleted
    [] At(r, "load")  -> IF queue[n] = Null THEN r.op = "cancel" => n \in Deleted
                         ELSE r.op = "retry_now" /\ queue[n].retries >= MaxRetries
    [] At(r, "write") -> r.op = "cancel" /\ n \in Deleted
    [] OTHER          -> FALSE

\* retry_now, reschedule and cancel read the entry first.
LoadEntry(r) ==
  /\ At(r, "load")
  /\ \A n \in session[r].todo :
       /\ ~Refused(r, n)
       /\ session' = [session EXCEPT ![r].step = IF queue[n] = Null THEN "record" ELSE "write"]
  /\ UNCHANGED <<queue, notifications, sent>>

Reject(r) == (\E n \in session[r].todo : Refused(r, n)) /\ Rollback(r)

\* schedule_retry, whose increment is computed by the database.
\* Mutant: the retry counter starts again.
Rescheduled_Reset(entry, due) == [status |-> "WAITING", retries |-> 0, due |-> due]

Rescheduled(entry, due) ==
  [status |-> "WAITING", retries |-> entry.retries + 1, due |-> due]

MarkedFailed(entry) == [entry EXCEPT !.status = "FAILED"]

EntryAfter(op, entry) ==
  CASE op = "retry_now"  -> Rescheduled(entry, TRUE)
    [] op = "reschedule" -> Rescheduled(entry, FALSE)
    [] op = "cancel"     -> MarkedFailed(entry)

\* They write it later, whatever its status is by then.  cancel raises
\* when it finds no notification to update.
WriteEntry(r) ==
  /\ At(r, "write")
  /\ \E n \in session[r].todo :
       /\ EntryFree(r, n)
       /\ ~Refused(r, n)
       /\ session' = [session EXCEPT
            ![r].entries = [@ EXCEPT ![n] = EntryAfter(r.op, queue[n])],
            ![r].step = "record",
            ![r].todo = IF r.op = "retry_now" THEN {} ELSE {n} \ Deleted]
  /\ UNCHANGED <<queue, notifications, sent>>

RecordStatus(r) ==
  /\ At(r, "record")
  /\ \E n \in session[r].todo :
       /\ RowFree(r, n)
       /\ session' = [session EXCEPT
            ![r].rows = [@ EXCEPT ![n] = [Row(r, n) EXCEPT
                           !.status = IF r.op = "cancel" THEN "CANCELLED" ELSE "QUEUED"]],
            ![r].todo = @ \ {n}]
  /\ UNCHANGED <<queue, notifications, sent>>
----------------------------------------------------------------------------
(* Workers.                                                                *)

\* Mutant: rows that other transactions have locked are not skipped.
Claimable_Unlocked(w) ==
  {n \in Notifications : queue[n] # Null /\ queue[n].status = "WAITING" /\ queue[n].due}

\* FOR UPDATE SKIP LOCKED.
Claimable(w) ==
  {n \in Notifications : /\ queue[n] # Null
                         /\ queue[n].status = "WAITING"
                         /\ queue[n].due
                         /\ EntryFree(w, n)}

\* The LIMIT of the most urgent.
Batches(w) ==
  {batch \in SUBSET Claimable(w) :
     /\ \/ Cardinality(batch) = BatchSize
        \/ Cardinality(batch) < BatchSize /\ batch = Claimable(w)
     /\ \A n \in batch, m \in Claimable(w) \ batch : Priority[n] <= Priority[m]}

\* A poll that finds nothing changes nothing.
FetchNextBatch(w) ==
  /\ At(w, "idle")
  /\ Connected
  /\ \E batch \in Batches(w) \ {{}} :
       session' = [session EXCEPT
         ![w].step = "work",
         ![w].todo = batch,
         ![w].entries = [n \in Notifications |->
            IF n \in batch THEN [queue[n] EXCEPT !.status = "PROCESSING"] ELSE Null]]
  /\ UNCHANGED <<queue, notifications, sent>>

Claimed(w, n) == session[w].entries[n].status = "PROCESSING"

\* Mutant: an entry is dispatched for as long as it fails.
EntryAfterFailure_NoLimit(entry) == Rescheduled(entry, FALSE)

\* _handle_failed_dispatch.
EntryAfterFailure(entry) ==
  IF entry.retries >= MaxRetries THEN MarkedFailed(entry) ELSE Rescheduled(entry, FALSE)

\* The entry after one attempt: the channel may have no dispatcher, and a
\* dispatch that fails may have been accepted all the same.
Attempt(w, n) ==
  LET entry == session[w].entries[n]
      Becomes(e) == session' = [session EXCEPT ![w].entries = [@ EXCEPT ![n] = e]]
  IN  \/ Becomes(MarkedFailed(entry)) /\ UNCHANGED sent
      \/ Becomes([entry EXCEPT !.status = "COMPLETED"]) /\ sent' = sent \cup {n}
      \/ Becomes(EntryAfterFailure(entry)) /\ sent' \in {sent, sent \cup {n}}

\* One entry at a time: the next is dispatched after this one is recorded.
Dispatch(w) ==
  /\ At(w, "work")
  /\ \A n \in session[w].todo : Claimed(w, n)
  /\ \E n \in session[w].todo \ Deleted : Attempt(w, n)
  /\ UNCHANGED <<queue, notifications>>

\* get_by_id finds no soft-deleted notification: nothing is recorded.
Missing(w) ==
  /\ At(w, "work")
  /\ \A n \in session[w].todo : Claimed(w, n)
  /\ \E n \in session[w].todo \cap Deleted :
       LET entry == MarkedFailed(session[w].entries[n]) IN
       session' = [session EXCEPT ![w].entries = [@ EXCEPT ![n] = entry],
                                  ![w].todo = @ \ {n}]
  /\ UNCHANGED <<queue, notifications, sent>>

\* Mutant: the failure of an undeliverable notification is not recorded.
RowAfter_NoFailure(entry, row) ==
  CASE entry.status = "COMPLETED" -> [row EXCEPT !.status = "SENT"]
    [] entry.status = "FAILED"    -> row
    [] entry.status = "WAITING"   -> [status |-> "RETRYING", retries |-> row.retries + 1]

RowAfter(entry, row) ==
  CASE entry.status = "COMPLETED" -> [row EXCEPT !.status = "SENT"]
    [] entry.status = "FAILED"    -> [row EXCEPT !.status = "FAILED"]
    [] entry.status = "WAITING"   -> [status |-> "RETRYING", retries |-> row.retries + 1]

\* ck_notifications_retry_within_max.
CheckHolds(row) == row.retries <= MaxRetries

RecordOutcome(w) ==
  /\ At(w, "work")
  /\ \E n \in session[w].todo :
       LET row == RowAfter(session[w].entries[n], Row(w, n)) IN
       /\ ~Claimed(w, n)
       /\ RowFree(w, n)
       /\ CheckHolds(row)
       /\ session' = [session EXCEPT ![w].rows = [@ EXCEPT ![n] = row],
                                     ![w].todo = @ \ {n}]
  /\ UNCHANGED <<queue, notifications, sent>>
----------------------------------------------------------------------------
(* The database and time.                                                  *)

\* The sessions that s waits for at its current statement.
Blocks(u, s, n) ==
  CASE session[s].step \in {"insert", "write"}    -> HoldsEntry(u, n)
    [] session[s].step \in {"announce", "record"} -> HoldsRow(u, n)
    [] session[s].step = "work"                   -> ~Claimed(s, n) /\ HoldsRow(u, n)
    [] OTHER                                      -> FALSE

Blockers(s) == {u \in Sessions \ {s} : \E n \in session[s].todo : Blocks(u, s, n)}

\* PostgreSQL rolls back one of two transactions that wait for each other.
DeadlockVictim(s) ==
  /\ \E u \in Blockers(s) : s \in Blockers(u)
  /\ Rollback(s)

BecomesDue(n) ==
  /\ queue[n] # Null
  /\ ~queue[n].due
  /\ queue' = [queue EXCEPT ![n].due = TRUE]
  /\ UNCHANGED <<notifications, session, sent>>

Call(r) ==
  \/ Begin(r)
  \/ Announce(r)
  \/ InsertEntry(r)
  \/ UniqueViolation(r)
  \/ LoadEntry(r)
  \/ Reject(r)
  \/ WriteEntry(r)
  \/ RecordStatus(r)
  \/ Commit(r)

ProcessNextBatch(w) ==
  \/ FetchNextBatch(w)
  \/ Dispatch(w)
  \/ Missing(w)
  \/ RecordOutcome(w)
  \/ Commit(w)

Next ==
  \/ \E r \in Requests : Call(r)
  \/ \E w \in Workers : ProcessNextBatch(w)
  \/ \E s \in Sessions : DeadlockVictim(s) \/ Abandon(s)
  \/ \E n \in Notifications : BecomesDue(n)

Spec == Init /\ [][Next]_vars

\* Transactions proceed, workers poll for ever, and time passes.
Fairness ==
  /\ \A r \in Requests : WF_vars(Call(r)) /\ WF_vars(DeadlockVictim(r))
  /\ \A w \in Workers : WF_vars(ProcessNextBatch(w)) /\ SF_vars(FetchNextBatch(w))
  /\ \A n \in Notifications : SF_vars(BecomesDue(n))

FairSpec == Spec /\ Fairness
----------------------------------------------------------------------------
\* Rows are rows, and no outcome a worker records breaks the CHECK on the
\* retries of a notification, which would roll back its whole batch.
TypeOK ==
  /\ queue \in [Notifications -> QueueRow \cup {Null}]
  /\ notifications \in [Notifications -> NotificationRow]
  /\ session \in [Sessions -> SessionState]
  /\ sent \subseteq Notifications
  /\ \A w \in Workers, n \in Notifications :
       At(w, "work") /\ n \in session[w].todo /\ ~Claimed(w, n)
         => CheckHolds(RowAfter(session[w].entries[n], Row(w, n)))

\* From the claim of a batch to its end, nobody else changes an entry of it:
\* what the worker dispatches is still waiting, so no two workers dispatch it
\* and no cancellation is overtaken.  No claim outlives its transaction:
\* release_stale_locks never has anything to release.
ClaimsHold ==
  \A n \in Notifications : queue[n] # Null =>
    /\ queue[n].status # "PROCESSING"
    /\ \A w \in Workers : HoldsEntry(w, n) => queue[n].status = "WAITING" /\ queue[n].due

\* The two tables agree: a notification that is promised another attempt has
\* an entry that is waiting for it, and a completed entry was accepted by a
\* provider, of which the notification tells unless a cancellation that read
\* the queue before the entry was there has overwritten it.
OutcomesAgree ==
  \A n \in Notifications \ Deleted :
    LET status == notifications[n].status IN
    /\ status \in {"QUEUED", "RETRYING"} => queue[n] # Null /\ queue[n].status = "WAITING"
    /\ queue[n] # Null /\ queue[n].status = "COMPLETED"
         => n \in sent /\ status \in {"SENT", "CANCELLED"}

\* If transactions eventually stop failing, every entry is eventually settled.
Settled(n) == queue[n] # Null => queue[n].status \in {"COMPLETED", "FAILED"}
EntriesSettle ==
  <>[][\A s \in Sessions : ~Abandon(s)]_vars => \A n \in Notifications : <>[]Settled(n)
============================================================================
