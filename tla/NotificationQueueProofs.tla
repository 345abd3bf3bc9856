---------------------- MODULE NotificationQueueProofs ----------------------
(***************************************************************************)
(* The claims of the workers and the two tables of the notification queue, *)
(* for any notifications, workers, requests, batch size and retry limit.   *)
(*                                                                         *)
(* What the tables say after a commit was prepared in a transaction, one   *)
(* statement at a time: the invariant says what a request and a worker     *)
(* hold on the way (RequestInv, WorkerInv) and that locks keep it from     *)
(* changing under them (Locks).                                            *)
(***************************************************************************)
EXTENDS NotificationQueue, TLAPS

HoldsNothing(x) == \A n \in Notifications : x.entries[n] = Null /\ x.rows[n] = Null

\* What request r has read and written in state x of its transaction, over
\* tables q and ns: before its first write nothing, and then an entry for
\* each notification whose row it writes, unless it cancels.
RequestInv(r, x, q, ns) ==
  /\ x.step # "work"
  /\ x.todo \subseteq r.notifications
  /\ x.step \notin {"insert", "record"} => HoldsNothing(x)
  /\ x.step = "announce" => r.op = "schedule_notification"
  /\ x.step = "insert" => r.op \in EnqueueOps
  /\ x.step \in {"load", "write"} => r.op \in EntryOps /\ x.todo = r.notifications
  /\ x.step = "insert" =>
       /\ \A n \in r.notifications \ x.todo : x.entries[n] # Null
       /\ \A n \in Notifications : x.rows[n] # Null =>
            r.op = "schedule_notification" /\ n \in r.notifications \ Deleted
  /\ x.step = "write" => \A n \in x.todo : q[n] # Null
  /\ x.step = "record" /\ r.op # "cancel" => \A n \in x.todo : x.entries[n] # Null
  /\ \A n \in Notifications : x.entries[n] # Null =>
       /\ x.entries[n].status = IF r.op = "cancel" THEN "FAILED" ELSE "WAITING"
       /\ q[n] # Null => x.entries[n].retries >= q[n].retries
       /\ r.op = "cancel" => n \notin Deleted /\ (n \in x.todo \/ x.rows[n] # Null)
  /\ \A n \in Notifications : x.rows[n] # Null =>
       /\ x.rows[n].retries = ns[n].retries
       /\ n \notin x.todo => IF r.op = "cancel" THEN x.rows[n].status = "CANCELLED"
                             ELSE x.rows[n].status = "QUEUED" /\ x.entries[n] # Null

\* The status that records the outcome of an entry.
Recorded == [COMPLETED |-> "SENT", FAILED |-> "FAILED", WAITING |-> "RETRYING"]

\* What a worker holds: its batch, as claimed, as attempted, as recorded.
WorkerInv(x, q, accepted) ==
  /\ x.step \in {"idle", "work"}
  /\ x.step = "idle" => HoldsNothing(x)
  /\ \A n \in x.todo : x.entries[n] # Null /\ x.rows[n] = Null
  /\ \A n \in Notifications : x.rows[n] # Null =>
       /\ x.entries[n] # Null
       /\ x.rows[n].retries <= x.entries[n].retries
       /\ x.rows[n].retries <= MaxRetries
  /\ \A n \in Notifications : x.entries[n] # Null =>
       /\ q[n] # Null
       /\ q[n].status = "WAITING"
       /\ q[n].due
       /\ x.entries[n].status \in {"PROCESSING", "COMPLETED", "FAILED", "WAITING"}
       /\ x.entries[n].status = "PROCESSING" => n \in x.todo
       /\ x.entries[n].status = "COMPLETED" => n \in accepted
       /\ x.entries[n].retries = q[n].retries + IF x.entries[n].status = "WAITING"
                                                THEN 1 ELSE 0
       /\ x.entries[n].status = "WAITING" => x.entries[n].retries <= MaxRetries
       /\ n \notin x.todo \cup Deleted =>
            x.rows[n] # Null /\ x.rows[n].status = Recorded[x.entries[n].status]

TypeInv ==
  /\ queue \in [Notifications -> QueueRow \cup {Null}]
  /\ notifications \in [Notifications -> NotificationRow]
  /\ session \in [Sessions -> SessionState]
  /\ sent \subseteq Notifications

Locks ==
  \A s \in Sessions : \A u \in Sessions \ {s} : \A n \in Notifications :
    /\ HoldsEntry(s, n) => ~HoldsEntry(u, n)
    /\ HoldsRow(s, n) => ~HoldsRow(u, n)

\* The committed row of a notification against its committed entry.
RowInv(n, entry, row, accepted) ==
  /\ entry # Null => entry.status # "PROCESSING"
  /\ row.retries <= MaxRetries
  /\ row.retries <= IF entry = Null THEN 0 ELSE entry.retries
  /\ n \notin Deleted =>
       /\ row.status \in {"QUEUED", "RETRYING"} => entry # Null /\ entry.status = "WAITING"
       /\ entry # Null /\ entry.status = "COMPLETED"
            => n \in accepted /\ row.status \in {"SENT", "CANCELLED"}

Inv ==
  /\ TypeInv
  /\ Locks
  /\ \A r \in Requests : RequestInv(r, session[r], queue, notifications)
  /\ \A w \in Workers : WorkerInv(session[w], queue, sent)
  /\ \A n \in Notifications : RowInv(n, queue[n], notifications[n], sent)
----------------------------------------------------------------------------
(* Frames.                                                                 *)

\* A request keeps its invariant while the rows it has locked keep theirs.
LEMMA RequestFrame ==
  ASSUME NEW r \in Requests, NEW x \in SessionState, NEW q, NEW ns, NEW q2, NEW ns2,
         RequestInv(r, x, q, ns),
         \A n \in Notifications : q[n] # Null => q2[n] # Null,
         \A n \in Notifications : x.entries[n] # Null /\ q2[n] # Null =>
           q[n] # Null /\ q2[n].retries = q[n].retries,
         \A n \in Notifications : x.rows[n] # Null => ns2[n].retries = ns[n].retries
  PROVE  RequestInv(r, x, q2, ns2)
<1>1. \A n \in x.todo : n \in Notifications
  BY DEF SessionState
<1> QED
  BY <1>1 DEF RequestInv

\* A worker keeps its invariant while its entries keep theirs.
LEMMA WorkerFrame ==
  ASSUME NEW x \in SessionState, NEW q, NEW q2, NEW accepted, NEW accepted2,
         WorkerInv(x, q, accepted),
         \A n \in Notifications : x.entries[n] # Null => q2[n] = q[n],
         accepted \subseteq accepted2
  PROVE  WorkerInv(x, q2, accepted2)
BY DEF WorkerInv

\* No row is held twice if the one session that moves holds what was free.
LEMMA LocksFrame ==
  ASSUME TypeInv, Locks, NEW s \in Sessions, NEW x \in SessionState,
         session' = [session EXCEPT ![s] = x],
         \A n \in Notifications : x.entries[n] # Null => EntryFree(s, n),
         \A n \in Notifications : x.rows[n] # Null => RowFree(s, n)
  PROVE  Locks'
<1>1. \A u \in Sessions : session'[u] = IF u = s THEN x ELSE session[u]
  BY DEF TypeInv
<1> QED
  BY <1>1 DEF Locks, HoldsEntry, HoldsRow, EntryFree, RowFree

\* A statement that writes no table keeps the invariant, if its session does.
LEMMA Statement ==
  ASSUME Inv, NEW s \in Sessions, NEW x \in SessionState,
         session' = [session EXCEPT ![s] = x],
         UNCHANGED <<queue, notifications>>,
         sent \subseteq sent', sent' \subseteq Notifications,
         s \in Requests => RequestInv(s, x, queue, notifications),
         s \in Workers => WorkerInv(x, queue, sent'),
         \A n \in Notifications : x.entries[n] # Null => EntryFree(s, n),
         \A n \in Notifications : x.rows[n] # Null => RowFree(s, n)
  PROVE  Inv'
<1>1. session' \in [Sessions -> SessionState]
      /\ \A u \in Sessions : session'[u] = IF u = s THEN x ELSE session[u]
  BY DEF Inv, TypeInv
<1>2. TypeInv'
  BY <1>1 DEF Inv, TypeInv
<1>3. Locks'
  BY LocksFrame DEF Inv
<1>4. ASSUME NEW r \in Requests
      PROVE  RequestInv(r, session'[r], queue', notifications')
  BY <1>1 DEF Inv, Sessions
<1>5. ASSUME NEW w \in Workers
      PROVE  WorkerInv(session'[w], queue', sent')
  <2>1. CASE w = s
    BY <1>1, <2>1
  <2>2. CASE w # s
    <3>1. session'[w] = session[w] /\ session[w] \in SessionState
      BY <1>1, <2>2 DEF Inv, TypeInv, Sessions
    <3>2. WorkerInv(session[w], queue, sent)
      BY DEF Inv
    <3> QED
      BY <3>1, <3>2, WorkerFrame
  <2> QED
    BY <2>1, <2>2
<1>6. \A n \in Notifications : RowInv(n, queue'[n], notifications'[n], sent')
  BY DEF Inv, RowInv
<1> QED
  BY <1>2, <1>3, <1>4, <1>5, <1>6 DEF Inv

\* After its transaction a session holds nothing.
LEMMA AfterState ==
  ASSUME NEW s \in Sessions, NEW q, NEW ns, NEW accepted
  PROVE  /\ After(s) \in SessionState
         /\ HoldsNothing(After(s))
         /\ s \in Requests => RequestInv(s, After(s), q, ns)
         /\ s \in Workers => WorkerInv(After(s), q, accepted)
<1>1. After(s) \in SessionState /\ HoldsNothing(After(s))
  BY DEF After, Fresh, Nothing, SessionState, HoldsNothing
<1>2. After(s).todo = {} /\ After(s).step \in {"idle", "ended"}
      /\ (s \in Workers => After(s).step = "idle")
  BY DEF After, Fresh
<1> HIDE DEF After
<1>3. s \in Requests => RequestInv(s, After(s), q, ns)
  BY <1>1, <1>2 DEF RequestInv, HoldsNothing
<1>4. s \in Workers => WorkerInv(After(s), q, accepted)
  BY <1>1, <1>2 DEF WorkerInv, HoldsNothing
<1> QED
  BY <1>1, <1>3, <1>4

\* A transaction that is rolled back leaves nothing behind.
LEMMA RollbackInv == ASSUME Inv, NEW s \in Sessions, Rollback(s) PROVE Inv'
<1>1. session' = [session EXCEPT ![s] = After(s)] /\ UNCHANGED <<queue, notifications, sent>>
  BY DEF Rollback
<1>2. sent' \subseteq Notifications
  BY <1>1 DEF Inv, TypeInv
<1> QED
  BY <1>1, <1>2, AfterState, Statement DEF HoldsNothing
----------------------------------------------------------------------------
(* The statements of a request.                                            *)

\* What is known of a request before one of its statements.
LEMMA RequestFacts ==
  ASSUME Inv, NEW r \in Requests
  PROVE  /\ r \in Sessions
         /\ session[r] \in SessionState
         /\ RequestInv(r, session[r], queue, notifications)
         /\ r.op \in EnqueueOps \cup EntryOps
         /\ r.notifications \subseteq Notifications
         /\ r.op # "bulk_enqueue" => OneNotification(r)
         /\ \A n \in Notifications : session[r].entries[n] # Null => EntryFree(r, n)
         /\ \A n \in Notifications : session[r].rows[n] # Null => RowFree(r, n)
<1>1. r \in Sessions
  BY DEF Sessions
<1>2. ValidRequest(r)
  BY RequestsAssumption
<1> QED
  BY <1>1, <1>2 DEF Inv, TypeInv, Locks, HoldsEntry, HoldsRow, EntryFree, RowFree, ValidRequest

\* A request begins with nothing read and nothing written.
LEMMA BeginInv == ASSUME Inv, NEW r \in Requests, Begin(r) PROVE Inv'
<1> DEFINE step == CASE r.op = "schedule_notification" -> "announce"
                     [] r.op \in EnqueueOps \ {"schedule_notification"} -> "insert"
                     [] r.op \in EntryOps -> "load"
           x == [Fresh(step) EXCEPT !.todo = r.notifications]
<1>1. session' = [session EXCEPT ![r] = x] /\ UNCHANGED <<queue, notifications, sent>>
  BY DEF Begin
<1>2. /\ step = "announce" => r.op = "schedule_notification"
      /\ step = "insert" => r.op \in EnqueueOps
      /\ step = "load" => r.op \in EntryOps
      /\ step \in {"announce", "insert", "load"}
  BY RequestFacts DEF EnqueueOps, EntryOps
<1> HIDE DEF step
<1>3. /\ x \in SessionState
      /\ x.step = step /\ x.todo = r.notifications /\ HoldsNothing(x)
  BY <1>2, RequestFacts DEF Fresh, Nothing, SessionState, HoldsNothing
<1> HIDE DEF x
<1>4. RequestInv(r, x, queue, notifications)
  BY <1>2, <1>3 DEF RequestInv, HoldsNothing
<1>5. sent' \subseteq Notifications /\ r \notin Workers
  BY <1>1, SessionsAssumption DEF Inv, TypeInv
<1> QED
  BY <1>1, <1>3, <1>4, <1>5, RequestFacts, Statement DEF HoldsNothing

\* A request's statement: what Statement asks of it.
LEMMA RequestStatement ==
  ASSUME Inv, NEW r \in Requests, NEW x \in SessionState,
         session' = [session EXCEPT ![r] = x],
         UNCHANGED <<queue, notifications, sent>>,
         RequestInv(r, x, queue, notifications),
         \A n \in Notifications : x.entries[n] # Null /\ session[r].entries[n] = Null
                                    => EntryFree(r, n),
         \A n \in Notifications : x.rows[n] # Null /\ session[r].rows[n] = Null
                                    => RowFree(r, n)
  PROVE  Inv'
<1>1. sent' \subseteq Notifications /\ r \notin Workers
  BY SessionsAssumption DEF Inv, TypeInv
<1>2. \A n \in Notifications : x.entries[n] # Null => EntryFree(r, n)
  BY RequestFacts
<1>3. \A n \in Notifications : x.rows[n] # Null => RowFree(r, n)
  BY RequestFacts
<1> QED
  BY <1>1, <1>2, <1>3, RequestFacts, Statement

\* schedule_notification locks the row of its notification.
LEMMA AnnounceInv == ASSUME Inv, NEW r \in Requests, Announce(r) PROVE Inv'
<1>1. PICK n \in session[r].todo \ Deleted :
        /\ RowFree(r, n)
        /\ session' = [session EXCEPT ![r].rows = [@ EXCEPT ![n] = Row(r, n)],
                                      ![r].step = "insert"]
  BY DEF Announce
<1> DEFINE x == [session[r] EXCEPT !.rows = [@ EXCEPT ![n] = Row(r, n)], !.step = "insert"]
<1>2. /\ session[r].step = "announce" /\ r.op = "schedule_notification"
      /\ HoldsNothing(session[r]) /\ session[r].todo \subseteq r.notifications
  BY RequestFacts DEF Announce, At, RequestInv
<1>3. r.notifications = {n} /\ session[r].todo = {n} /\ n \in Notifications
  BY <1>2, RequestFacts DEF OneNotification
<1>4. Row(r, n) = notifications[n] /\ notifications[n] \in NotificationRow
  BY <1>2, <1>3 DEF Row, HoldsRow, HoldsNothing, Inv, TypeInv
<1>5. /\ x \in SessionState
      /\ x.step = "insert" /\ x.todo = {n} /\ x.entries = session[r].entries
      /\ \A m \in Notifications : x.rows[m] = IF m = n THEN notifications[n] ELSE Null
  BY <1>2, <1>3, <1>4, RequestFacts DEF SessionState, HoldsNothing
<1>6. session' = [session EXCEPT ![r] = x] /\ RowFree(r, n)
  BY <1>1
<1>8. UNCHANGED <<queue, notifications, sent>>
  BY DEF Announce
<1> HIDE DEF x
<1>7. RequestInv(r, x, queue, notifications)
  <2>1. \A m \in Notifications : x.entries[m] = Null
    BY <1>2, <1>5 DEF HoldsNothing
  <2>2. \A m \in Notifications : x.rows[m] # Null =>
          /\ m \in x.todo /\ m \in r.notifications \ Deleted
          /\ x.rows[m].retries = notifications[m].retries
    BY <1>3, <1>5
  <2>3. r.op \in EnqueueOps
    BY <1>2 DEF EnqueueOps
  <2>4. x.step = "insert" /\ x.todo = r.notifications
    BY <1>3, <1>5
  <2> QED
    BY <1>2, <2>1, <2>2, <2>3, <2>4 DEF RequestInv
<1> QED
  BY <1>2, <1>5, <1>6, <1>7, <1>8, RequestStatement DEF HoldsNothing

\* An entry is inserted where there was none.
LEMMA InsertEntryInv == ASSUME Inv, NEW r \in Requests, InsertEntry(r) PROVE Inv'
<1> DEFINE entry == [status |-> "WAITING", retries |-> 0,
                     due |-> r.op # "schedule_notification"]
<1>1. PICK n \in session[r].todo :
        /\ EntryFree(r, n)
        /\ queue[n] = Null
        /\ session' = [session EXCEPT
             ![r].entries = [@ EXCEPT ![n] = entry],
             ![r].todo = IF session[r].todo \ {n} = {} THEN r.notifications \ Deleted
                         ELSE session[r].todo \ {n},
             ![r].step = IF session[r].todo \ {n} = {} THEN "record" ELSE "insert"]
  BY DEF InsertEntry
<1> DEFINE left == session[r].todo \ {n}
           x == [session[r] EXCEPT
                   !.entries = [@ EXCEPT ![n] = entry],
                   !.todo = IF left = {} THEN r.notifications \ Deleted ELSE left,
                   !.step = IF left = {} THEN "record" ELSE "insert"]
<1>2. /\ session[r].step = "insert" /\ r.op \in EnqueueOps /\ n \in Notifications
      /\ n \in r.notifications /\ session[r].todo \subseteq r.notifications
      /\ \A m \in r.notifications \ session[r].todo : session[r].entries[m] # Null
  BY RequestFacts DEF InsertEntry, At, RequestInv
<1>3. entry \in QueueRow /\ entry # Null /\ entry.status = "WAITING"
  <2>1. (r.op # "schedule_notification") \in BOOLEAN
    OBVIOUS
  <2>2. entry \in QueueRow /\ entry.status = "WAITING"
    BY <2>1 DEF QueueRow, QueueStatus
  <2> HIDE DEF entry
  <2> QED
    BY <2>2, NullAssumption
<1>4. /\ session[r] \in SessionState /\ r.notifications \subseteq Notifications
      /\ RequestInv(r, session[r], queue, notifications)
  BY RequestFacts
<1>5. /\ session' = [session EXCEPT ![r] = x]
      /\ EntryFree(r, n) /\ queue[n] = Null
  BY <1>1
<1>6. UNCHANGED <<queue, notifications, sent>>
  BY DEF InsertEntry
<1> HIDE DEF entry
<1>7. /\ x \in SessionState
      /\ x.step = IF left = {} THEN "record" ELSE "insert"
      /\ x.todo = IF left = {} THEN r.notifications \ Deleted ELSE left
      /\ x.rows = session[r].rows
      /\ \A m \in Notifications :
           x.entries[m] = IF m = n THEN entry ELSE session[r].entries[m]
  BY <1>2, <1>3, <1>4 DEF SessionState
<1> HIDE DEF x
<1>8. \A m \in r.notifications : m \in left \/ x.entries[m] # Null
  BY <1>2, <1>3, <1>4, <1>7
<1>9. RequestInv(r, x, queue, notifications)
  <2>1. x.step \in {"insert", "record"} /\ x.todo \subseteq r.notifications
        /\ r.op # "cancel"
    BY <1>2, <1>7 DEF EnqueueOps
  <2>2. x.step = "insert" =>
          /\ \A m \in r.notifications \ x.todo : x.entries[m] # Null
          /\ \A m \in Notifications : x.rows[m] # Null =>
               r.op = "schedule_notification" /\ m \in r.notifications \ Deleted
    BY <1>2, <1>4, <1>7, <1>8 DEF RequestInv
  <2>3. x.step = "record" => \A m \in x.todo : x.entries[m] # Null
    BY <1>7, <1>8
  <2>4. ASSUME NEW m \in Notifications, x.entries[m] # Null
        PROVE  /\ x.entries[m].status = "WAITING"
               /\ queue[m] # Null => x.entries[m].retries >= queue[m].retries
    BY <1>2, <1>3, <1>4, <1>5, <1>7, <2>1, <2>4 DEF RequestInv
  <2>5. ASSUME NEW m \in Notifications, x.rows[m] # Null
        PROVE  /\ x.rows[m].retries = notifications[m].retries
               /\ m \notin x.todo => x.rows[m].status = "QUEUED" /\ x.entries[m] # Null
    <3>1. /\ r.op = "schedule_notification" /\ m \in r.notifications \ Deleted
          /\ x.rows[m].retries = notifications[m].retries
      BY <1>2, <1>4, <1>7, <2>5 DEF RequestInv
    <3>2. r.notifications = {n} /\ left = {}
      BY <1>2, <3>1, RequestFacts DEF OneNotification
    <3> QED
      BY <1>7, <3>1, <3>2
  <2> QED
    BY <1>2, <2>1, <2>2, <2>3, <2>4, <2>5 DEF RequestInv
<1> QED
  BY <1>5, <1>6, <1>7, <1>9, RequestStatement

\* The entry is there, unless the request cancels.
LEMMA LoadEntryInv == ASSUME Inv, NEW r \in Requests, LoadEntry(r) PROVE Inv'
<1>1. /\ session[r].step = "load" /\ r.op \in EntryOps /\ HoldsNothing(session[r])
      /\ session[r].todo = r.notifications
  BY RequestFacts DEF LoadEntry, At, RequestInv
<1>2. PICK n \in Notifications : r.notifications = {n}
  BY <1>1, RequestFacts DEF OneNotification, EntryOps
<1> DEFINE x == [session[r] EXCEPT !.step = IF queue[n] = Null THEN "record" ELSE "write"]
<1>3. /\ ~Refused(r, n)
      /\ session' = [session EXCEPT ![r] = x]
      /\ UNCHANGED <<queue, notifications, sent>>
  BY <1>1, <1>2 DEF LoadEntry, Inv, TypeInv
<1>4. queue[n] = Null => r.op = "cancel"
  BY <1>1, <1>3 DEF Refused, At
<1>5. /\ x \in SessionState /\ x.entries = session[r].entries /\ x.rows = session[r].rows
      /\ x.todo = {n}
      /\ x.step = IF queue[n] = Null THEN "record" ELSE "write"
  BY <1>1, <1>2, RequestFacts DEF SessionState
<1> HIDE DEF x
<1>6. RequestInv(r, x, queue, notifications)
  BY <1>1, <1>2, <1>4, <1>5 DEF RequestInv, HoldsNothing
<1> QED
  BY <1>3, <1>5, <1>6, RequestStatement

\* retry_now, reschedule and cancel write the entry, whatever it has become.
LEMMA WriteEntryInv == ASSUME Inv, NEW r \in Requests, WriteEntry(r) PROVE Inv'
<1>1. PICK n \in session[r].todo :
        /\ EntryFree(r, n)
        /\ ~Refused(r, n)
        /\ session' = [session EXCEPT
             ![r].entries = [@ EXCEPT ![n] = EntryAfter(r.op, queue[n])],
             ![r].step = "record",
             ![r].todo = IF r.op = "retry_now" THEN {} ELSE {n} \ Deleted]
  BY DEF WriteEntry
<1> DEFINE entry == EntryAfter(r.op, queue[n])
           x == [session[r] EXCEPT
                   !.entries = [@ EXCEPT ![n] = entry],
                   !.step = "record",
                   !.todo = IF r.op = "retry_now" THEN {} ELSE {n} \ Deleted]
<1>2. /\ session' = [session EXCEPT ![r] = x]
      /\ EntryFree(r, n) /\ ~Refused(r, n)
  BY <1>1
<1>3. UNCHANGED <<queue, notifications, sent>>
  BY DEF WriteEntry
<1>4. /\ session[r].step = "write" /\ r.op \in EntryOps /\ HoldsNothing(session[r])
      /\ r.notifications = {n} /\ n \in Notifications
      /\ queue[n] # Null /\ queue[n] \in QueueRow
  <2>1. /\ session[r].step = "write" /\ r.op \in EntryOps /\ HoldsNothing(session[r])
        /\ session[r].todo = r.notifications /\ queue[n] # Null
    BY RequestFacts DEF WriteEntry, At, RequestInv
  <2> QED
    BY <2>1, RequestFacts DEF OneNotification, EntryOps, Inv, TypeInv
<1>5. r.op = "cancel" => n \notin Deleted
  BY <1>2, <1>4 DEF Refused, At
<1>6. /\ entry \in QueueRow /\ entry # Null
      /\ entry.status = IF r.op = "cancel" THEN "FAILED" ELSE "WAITING"
      /\ entry.retries >= queue[n].retries
  <2>1. entry \in QueueRow /\ entry.retries >= queue[n].retries
        /\ entry.status = IF r.op = "cancel" THEN "FAILED" ELSE "WAITING"
    BY <1>4 DEF EntryAfter, Rescheduled, MarkedFailed, EntryOps, QueueRow, QueueStatus
  <2> QED
    BY <2>1, NullAssumption
<1> HIDE DEF entry
<1>7. /\ x \in SessionState /\ x.step = "record" /\ x.rows = session[r].rows
      /\ x.todo = IF r.op = "retry_now" THEN {} ELSE {n} \ Deleted
      /\ \A m \in Notifications :
           x.entries[m] = IF m = n THEN entry ELSE session[r].entries[m]
  BY <1>4, <1>6, RequestFacts DEF SessionState
<1> HIDE DEF x
<1>8. RequestInv(r, x, queue, notifications)
  <2>1. /\ x.todo \subseteq r.notifications
        /\ r.op = "cancel" => x.todo = {n}
        /\ \A m \in x.todo : x.entries[m] # Null
    BY <1>4, <1>5, <1>6, <1>7
  <2>2. ASSUME NEW m \in Notifications, x.entries[m] # Null
        PROVE  /\ x.entries[m].status = IF r.op = "cancel" THEN "FAILED" ELSE "WAITING"
               /\ x.entries[m].retries >= queue[m].retries
               /\ r.op = "cancel" => m \notin Deleted /\ m \in x.todo
    BY <1>4, <1>5, <1>6, <1>7, <2>1, <2>2 DEF HoldsNothing
  <2>3. \A m \in Notifications : x.rows[m] = Null
    BY <1>4, <1>7 DEF HoldsNothing
  <2> QED
    BY <1>7, <2>1, <2>2, <2>3 DEF RequestInv
<1>9. /\ \A m \in Notifications : x.entries[m] # Null => EntryFree(r, m)
      /\ \A m \in Notifications : x.rows[m] = Null
  BY <1>2, <1>4, <1>7 DEF HoldsNothing
<1> QED
  BY <1>2, <1>3, <1>7, <1>8, <1>9, RequestStatement, ZenonT(60)

\* The status of the notification follows.
LEMMA RecordStatusInv == ASSUME Inv, NEW r \in Requests, RecordStatus(r) PROVE Inv'
<1>1. PICK n \in session[r].todo :
        /\ RowFree(r, n)
        /\ session' = [session EXCEPT
             ![r].rows = [@ EXCEPT ![n] = [Row(r, n) EXCEPT
                            !.status = IF r.op = "cancel" THEN "CANCELLED" ELSE "QUEUED"]],
             ![r].todo = @ \ {n}]
  BY DEF RecordStatus
<1> DEFINE row == [Row(r, n) EXCEPT
                     !.status = IF r.op = "cancel" THEN "CANCELLED" ELSE "QUEUED"]
           x == [session[r] EXCEPT !.rows = [@ EXCEPT ![n] = row], !.todo = @ \ {n}]
<1>2. session' = [session EXCEPT ![r] = x] /\ RowFree(r, n)
  BY <1>1
<1>3. UNCHANGED <<queue, notifications, sent>>
  BY DEF RecordStatus
<1>4. /\ session[r] \in SessionState /\ session[r].step = "record"
      /\ session[r].todo \subseteq r.notifications /\ n \in Notifications
      /\ r.op # "cancel" => \A m \in session[r].todo : session[r].entries[m] # Null
  BY RequestFacts DEF RecordStatus, At, RequestInv
<1>5. Row(r, n) \in NotificationRow /\ Row(r, n).retries = notifications[n].retries
  <2>1. notifications[n] \in NotificationRow
        /\ session[r].rows[n] \in NotificationRow \cup {Null}
    BY <1>4 DEF Inv, TypeInv, SessionState
  <2>2. session[r].rows[n] # Null => session[r].rows[n].retries = notifications[n].retries
    BY <1>4, RequestFacts DEF RequestInv
  <2> QED
    BY <2>1, <2>2 DEF Row, HoldsRow
<1>6. /\ row \in NotificationRow /\ row # Null /\ row.retries = notifications[n].retries
      /\ row.status = IF r.op = "cancel" THEN "CANCELLED" ELSE "QUEUED"
  <2>1. row \in NotificationRow /\ row.retries = notifications[n].retries
        /\ row.status = IF r.op = "cancel" THEN "CANCELLED" ELSE "QUEUED"
    BY <1>5 DEF NotificationRow, NotificationStatus
  <2> QED
    BY <2>1, NullAssumption
<1> HIDE DEF row
<1>7. /\ x \in SessionState /\ x.step = "record" /\ x.entries = session[r].entries
      /\ x.todo = session[r].todo \ {n}
      /\ \A m \in Notifications : x.rows[m] = IF m = n THEN row ELSE session[r].rows[m]
  BY <1>4, <1>6 DEF SessionState
<1> HIDE DEF x
<1>8. RequestInv(r, x, queue, notifications)
  <2>1. ASSUME NEW m \in Notifications, x.entries[m] # Null
        PROVE  /\ x.entries[m].status = IF r.op = "cancel" THEN "FAILED" ELSE "WAITING"
               /\ queue[m] # Null => x.entries[m].retries >= queue[m].retries
               /\ r.op = "cancel" => m \notin Deleted /\ (m \in x.todo \/ x.rows[m] # Null)
    BY <1>6, <1>7, <2>1, RequestFacts DEF RequestInv
  <2>2. ASSUME NEW m \in Notifications, x.rows[m] # Null
        PROVE  /\ x.rows[m].retries = notifications[m].retries
               /\ m \notin x.todo => IF r.op = "cancel" THEN x.rows[m].status = "CANCELLED"
                                     ELSE x.rows[m].status = "QUEUED" /\ x.entries[m] # Null
    <3>1. CASE m = n
      BY <1>4, <1>6, <1>7, <3>1
    <3>2. CASE m # n
      BY <1>7, <2>2, <3>2, RequestFacts DEF RequestInv
    <3> QED
      BY <3>1, <3>2
  <2> QED
    BY <1>4, <1>7, <2>1, <2>2 DEF RequestInv
<1>9. \A m \in Notifications : x.rows[m] # Null /\ session[r].rows[m] = Null => RowFree(r, m)
  BY <1>2, <1>7
<1> QED
  BY <1>2, <1>3, <1>7, <1>8, <1>9, RequestStatement, ZenonT(60)
----------------------------------------------------------------------------
(* The statements of a worker.                                             *)

\* What is known of a worker before one of its statements.
LEMMA WorkerFacts ==
  ASSUME Inv, NEW w \in Workers
  PROVE  /\ w \in Sessions /\ w \notin Requests
         /\ session[w] \in SessionState
         /\ WorkerInv(session[w], queue, sent)
         /\ \A n \in Notifications : session[w].entries[n] # Null => EntryFree(w, n)
         /\ \A n \in Notifications : session[w].rows[n] # Null => RowFree(w, n)
BY SessionsAssumption
DEF Sessions, Inv, TypeInv, Locks, HoldsEntry, HoldsRow, EntryFree, RowFree

\* A claim takes waiting entries that nobody has locked.
LEMMA FetchNextBatchInv == ASSUME Inv, NEW w \in Workers, FetchNextBatch(w) PROVE Inv'
<1>1. PICK batch \in Batches(w) :
        session' = [session EXCEPT
          ![w].step = "work",
          ![w].todo = batch,
          ![w].entries = [n \in Notifications |->
             IF n \in batch THEN [queue[n] EXCEPT !.status = "PROCESSING"] ELSE Null]]
  BY DEF FetchNextBatch
<1> DEFINE x == [session[w] EXCEPT
                   !.step = "work",
                   !.todo = batch,
                   !.entries = [n \in Notifications |->
                      IF n \in batch THEN [queue[n] EXCEPT !.status = "PROCESSING"] ELSE Null]]
<1>2. session' = [session EXCEPT ![w] = x]
  BY <1>1
<1>3. UNCHANGED <<queue, notifications, sent>> /\ session[w].step = "idle"
  BY DEF FetchNextBatch, At
<1>4. ASSUME NEW n \in batch
      PROVE  /\ n \in Notifications /\ EntryFree(w, n)
             /\ queue[n] # Null /\ queue[n].status = "WAITING" /\ queue[n].due
             /\ queue[n] \in QueueRow
  BY DEF Batches, Claimable, Inv, TypeInv
<1>5. ASSUME NEW n \in batch
      PROVE  LET e == [queue[n] EXCEPT !.status = "PROCESSING"]
             IN  /\ e \in QueueRow /\ e # Null
                 /\ e.status = "PROCESSING" /\ e.retries = queue[n].retries
  <2> DEFINE e == [queue[n] EXCEPT !.status = "PROCESSING"]
  <2>1. e \in QueueRow /\ e.status = "PROCESSING" /\ e.retries = queue[n].retries
    BY <1>4 DEF QueueRow, QueueStatus
  <2> HIDE DEF e
  <2>2. e # Null
    BY <2>1, NullAssumption
  <2> QED
    BY <2>1, <2>2 DEF e
<1>6. /\ x \in SessionState /\ x.step = "work" /\ x.todo = batch /\ x.rows = session[w].rows
      /\ \A n \in Notifications :
           x.entries[n] = IF n \in batch THEN [queue[n] EXCEPT !.status = "PROCESSING"] ELSE Null
  <2>1. [n \in Notifications |->
           IF n \in batch THEN [queue[n] EXCEPT !.status = "PROCESSING"] ELSE Null]
             \in [Notifications -> QueueRow \cup {Null}]
    BY <1>5
  <2>2. batch \subseteq Notifications
    BY <1>4
  <2> QED
    BY <2>1, <2>2, WorkerFacts DEF SessionState
<1> HIDE DEF x
<1>7. \A n \in Notifications : x.rows[n] = Null
  BY <1>3, <1>6, WorkerFacts DEF WorkerInv, HoldsNothing
<1>8. WorkerInv(x, queue, sent')
  <2>1. ASSUME NEW n \in Notifications, x.entries[n] # Null
        PROVE  /\ n \in x.todo
               /\ queue[n] # Null /\ queue[n].status = "WAITING" /\ queue[n].due
               /\ x.entries[n].status = "PROCESSING"
               /\ x.entries[n].retries = queue[n].retries + 0
    <3>1. n \in batch /\ x.entries[n] = [queue[n] EXCEPT !.status = "PROCESSING"]
      BY <1>6, <2>1
    <3>2. queue[n].retries \in Nat
      BY <1>4, <3>1 DEF QueueRow
    <3> QED
      BY <1>4, <1>5, <1>6, <3>1, <3>2
  <2>2. ASSUME NEW n \in x.todo PROVE x.entries[n] # Null /\ x.rows[n] = Null
    <3>1. n \in batch /\ n \in Notifications
      BY <1>4, <1>6
    <3> QED
      BY <1>5, <1>6, <1>7, <3>1
  <2> QED
    BY <1>6, <1>7, <2>1, <2>2 DEF WorkerInv
<1>9. /\ sent \subseteq sent' /\ sent' \subseteq Notifications
      /\ \A n \in Notifications : x.entries[n] # Null => EntryFree(w, n)
  BY <1>3, <1>4, <1>6 DEF Inv, TypeInv
<1> QED
  BY <1>2, <1>3, <1>6, <1>7, <1>8, <1>9, WorkerFacts, Statement

\* The attempt of an entry that is claimed: what it may become.
LEMMA AttemptedEntry ==
  ASSUME Inv, NEW w \in Workers, NEW n \in session[w].todo, NEW e,
         session[w].step = "work", Claimed(w, n),
         \/ e = MarkedFailed(session[w].entries[n])
         \/ e = [session[w].entries[n] EXCEPT !.status = "COMPLETED"]
         \/ e = EntryAfterFailure(session[w].entries[n])
  PROVE  /\ e \in QueueRow /\ e # Null
         /\ e.status \in {"COMPLETED", "FAILED", "WAITING"}
         /\ e.status = "COMPLETED" => e = [session[w].entries[n] EXCEPT !.status = "COMPLETED"]
         /\ e.retries = queue[n].retries + IF e.status = "WAITING" THEN 1 ELSE 0
         /\ e.status = "WAITING" => e.retries <= MaxRetries
<1> DEFINE old == session[w].entries[n]
<1>1. n \in Notifications /\ old # Null
  BY WorkerFacts DEF SessionState, WorkerInv
<1>2. /\ old \in QueueRow /\ queue[n] # Null /\ queue[n] \in QueueRow
      /\ old.retries = queue[n].retries
      /\ old.retries \in Nat
  BY <1>1, WorkerFacts DEF SessionState, WorkerInv, Claimed, Inv, TypeInv, QueueRow
<1> HIDE DEF old
<1>3. /\ e \in QueueRow
      /\ e.status \in {"COMPLETED", "FAILED", "WAITING"}
      /\ e.status = "COMPLETED" => e = [old EXCEPT !.status = "COMPLETED"]
      /\ e.retries = queue[n].retries + IF e.status = "WAITING" THEN 1 ELSE 0
      /\ e.status = "WAITING" => e.retries <= MaxRetries
  <2>1. CASE e = MarkedFailed(old)
    BY <1>2, <2>1 DEF MarkedFailed, QueueRow, QueueStatus
  <2>2. CASE e = [old EXCEPT !.status = "COMPLETED"]
    BY <1>2, <2>2 DEF QueueRow, QueueStatus
  <2>3. CASE e = EntryAfterFailure(old) /\ old.retries >= MaxRetries
    <3>1. e = [old EXCEPT !.status = "FAILED"]
      BY <2>3 DEF EntryAfterFailure, MarkedFailed
    <3> QED
      BY <1>2, <3>1 DEF QueueRow, QueueStatus
  <2>4. CASE e = EntryAfterFailure(old) /\ ~(old.retries >= MaxRetries)
    <3>1. e = [status |-> "WAITING", retries |-> old.retries + 1, due |-> FALSE]
      BY <2>4 DEF EntryAfterFailure, Rescheduled
    <3>2. old.retries \in Nat /\ old.retries + 1 <= MaxRetries
      BY <1>2, <2>4, BoundsAssumption DEF QueueRow
    <3> QED
      BY <1>2, <3>1, <3>2 DEF QueueRow, QueueStatus
  <2> QED
    BY <2>1, <2>2, <2>3, <2>4 DEF old
<1> QED
  BY <1>3, NullAssumption DEF old

\* Worker w has made e of the entry of n and keeps it, or drops a deleted one.
Attempted(w, n, e, x) ==
  /\ session[w].step = "work"
  /\ session' = [session EXCEPT ![w] = x]
  /\ UNCHANGED <<queue, notifications>>
  /\ sent \subseteq sent' /\ sent' \subseteq Notifications
  /\ x.step = "work" /\ x.rows = session[w].rows
  /\ \/ x.todo = session[w].todo
     \/ n \in Deleted /\ x.todo = session[w].todo \ {n}
  /\ \A m \in Notifications : x.entries[m] = IF m = n THEN e ELSE session[w].entries[m]
  /\ e # Null
  /\ e.status \in {"COMPLETED", "FAILED", "WAITING"}
  /\ e.status = "COMPLETED" => n \in sent'
  /\ e.retries = queue[n].retries + IF e.status = "WAITING" THEN 1 ELSE 0
  /\ e.status = "WAITING" => e.retries <= MaxRetries

\* So it still holds what a worker may hold.
LEMMA AttemptedInv ==
  ASSUME Inv, NEW w \in Workers, NEW n \in session[w].todo, NEW e,
         NEW x \in SessionState, Attempted(w, n, e, x)
  PROVE  Inv'
<1> USE DEF Attempted
<1>1. /\ session[w] \in SessionState /\ w \in Sessions /\ w \notin Requests
      /\ WorkerInv(session[w], queue, sent)
      /\ n \in Notifications
      /\ session[w].entries[n] # Null /\ session[w].rows[n] = Null
  BY WorkerFacts DEF SessionState, WorkerInv
<1>2. WorkerInv(x, queue, sent')
  <2>1. \A m \in x.todo : x.entries[m] # Null /\ x.rows[m] = Null
    <3>1. \A m \in session[w].todo : /\ m \in Notifications
                                     /\ session[w].entries[m] # Null
                                     /\ session[w].rows[m] = Null
      BY <1>1 DEF SessionState, WorkerInv
    <3> QED
      BY <3>1
  <2>2. ASSUME NEW m \in Notifications, x.rows[m] # Null
        PROVE  /\ x.entries[m] # Null
               /\ x.rows[m].retries <= x.entries[m].retries
               /\ x.rows[m].retries <= MaxRetries
    <3>1. m # n
      BY <1>1, <2>2
    <3> QED
      BY <1>1, <2>2, <3>1 DEF WorkerInv
  <2>3. ASSUME NEW m \in Notifications, x.entries[m] # Null
        PROVE  /\ queue[m] # Null
               /\ queue[m].status = "WAITING"
               /\ queue[m].due
               /\ x.entries[m].status \in {"PROCESSING", "COMPLETED", "FAILED", "WAITING"}
               /\ x.entries[m].status = "PROCESSING" => m \in x.todo
               /\ x.entries[m].status = "COMPLETED" => m \in sent'
               /\ x.entries[m].retries = queue[m].retries + IF x.entries[m].status = "WAITING"
                                                            THEN 1 ELSE 0
               /\ x.entries[m].status = "WAITING" => x.entries[m].retries <= MaxRetries
               /\ m \notin x.todo \cup Deleted =>
                    x.rows[m] # Null /\ x.rows[m].status = Recorded[x.entries[m].status]
    <3>1. CASE m = n
      <4>1. queue[n] # Null /\ queue[n].status = "WAITING" /\ queue[n].due
        BY <1>1 DEF WorkerInv
      <4>2. n \in x.todo \cup Deleted
        OBVIOUS
      <4> QED
        BY <3>1, <4>1, <4>2
    <3>2. CASE m # n
      BY <1>1, <2>3, <3>2 DEF WorkerInv
    <3> QED
      BY <3>1, <3>2
  <2> QED
    BY <2>1, <2>2, <2>3 DEF WorkerInv
<1>3. /\ \A m \in Notifications : x.entries[m] # Null => EntryFree(w, m)
      /\ \A m \in Notifications : x.rows[m] # Null => RowFree(w, m)
  BY <1>1, WorkerFacts
<1> QED
  BY <1>1, <1>2, <1>3, Statement

\* A dispatch makes one of three outcomes of an entry that is claimed.
LEMMA DispatchInv == ASSUME Inv, NEW w \in Workers, Dispatch(w) PROVE Inv'
<1>1. PICK n \in session[w].todo \ Deleted : Attempt(w, n)
  BY DEF Dispatch
<1>2. session[w].step = "work" /\ Claimed(w, n) /\ UNCHANGED <<queue, notifications>>
  BY DEF Dispatch, At
<1>3. n \in Notifications /\ sent \subseteq Notifications /\ session[w] \in SessionState
  BY WorkerFacts DEF SessionState, Inv, TypeInv
<1> DEFINE old == session[w].entries[n]
<1>4. PICK e : /\ session' = [session EXCEPT ![w].entries = [@ EXCEPT ![n] = e]]
               /\ \/ e = MarkedFailed(old) /\ UNCHANGED sent
                  \/ e = [old EXCEPT !.status = "COMPLETED"] /\ sent' = sent \cup {n}
                  \/ e = EntryAfterFailure(old) /\ sent' \in {sent, sent \cup {n}}
  BY <1>1 DEF Attempt
<1> DEFINE x == [session[w] EXCEPT !.entries = [@ EXCEPT ![n] = e]]
<1>5. session' = [session EXCEPT ![w] = x]
  BY <1>4
<1>6. /\ e \in QueueRow /\ e # Null
      /\ e.status \in {"COMPLETED", "FAILED", "WAITING"}
      /\ e.status = "COMPLETED" => e = [old EXCEPT !.status = "COMPLETED"]
      /\ e.retries = queue[n].retries + IF e.status = "WAITING" THEN 1 ELSE 0
      /\ e.status = "WAITING" => e.retries <= MaxRetries
  BY <1>2, <1>4, AttemptedEntry
<1>7. sent \subseteq sent' /\ sent' \subseteq Notifications
  BY <1>3, <1>4
<1>8. e.status = "COMPLETED" => n \in sent'
  <2>1. CASE e = MarkedFailed(old)
    <3>1. MarkedFailed(old).status = "FAILED"
      BY <1>3, WorkerFacts DEF MarkedFailed, SessionState, WorkerInv, QueueRow
    <3> QED
      BY <2>1, <3>1
  <2>2. CASE e = EntryAfterFailure(old)
    <3>1. EntryAfterFailure(old).status \in {"FAILED", "WAITING"}
      BY <1>3, WorkerFacts
      DEF EntryAfterFailure, MarkedFailed, Rescheduled, SessionState, WorkerInv, QueueRow
    <3> QED
      BY <2>2, <3>1
  <2> QED
    BY <1>4, <2>1, <2>2
<1>9. /\ x \in SessionState /\ x.step = "work" /\ x.rows = session[w].rows
      /\ x.todo = session[w].todo
      /\ \A m \in Notifications : x.entries[m] = IF m = n THEN e ELSE session[w].entries[m]
  BY <1>2, <1>3, <1>6 DEF SessionState
<1> HIDE DEF old, x
<1> QED
  <2>1. Attempted(w, n, e, x)
    BY <1>2, <1>5, <1>6, <1>7, <1>8, <1>9 DEF Attempted
  <2> QED
    BY <1>9, <2>1, AttemptedInv

\* An entry of a deleted notification fails, and nothing is recorded.
LEMMA MissingInv == ASSUME Inv, NEW w \in Workers, Missing(w) PROVE Inv'
<1>1. PICK n \in session[w].todo \cap Deleted :
        session' = [session EXCEPT ![w].entries =
                      [@ EXCEPT ![n] = MarkedFailed(session[w].entries[n])],
                                   ![w].todo = @ \ {n}]
  BY DEF Missing
<1>2. /\ session[w].step = "work" /\ Claimed(w, n)
      /\ UNCHANGED <<queue, notifications, sent>>
  BY DEF Missing, At
<1> DEFINE e == MarkedFailed(session[w].entries[n])
           x == [session[w] EXCEPT !.entries = [@ EXCEPT ![n] = e], !.todo = @ \ {n}]
<1>3. session' = [session EXCEPT ![w] = x]
  BY <1>1
<1>4. /\ e \in QueueRow /\ e # Null
      /\ e.status \in {"COMPLETED", "FAILED", "WAITING"}
      /\ e.retries = queue[n].retries + IF e.status = "WAITING" THEN 1 ELSE 0
      /\ e.status = "WAITING" => e.retries <= MaxRetries
  <2>1. e = MarkedFailed(session[w].entries[n])
    OBVIOUS
  <2> HIDE DEF e
  <2> QED
    BY <1>2, <2>1, AttemptedEntry
<1>5. e.status = "FAILED"
  <2>1. session[w].entries[n] \in QueueRow
    BY WorkerFacts DEF SessionState, WorkerInv
  <2> QED
    BY <2>1 DEF MarkedFailed, QueueRow
<1>6. sent \subseteq sent' /\ sent' \subseteq Notifications
  BY <1>2 DEF Inv, TypeInv
<1> HIDE DEF e
<1>7. /\ x \in SessionState /\ x.step = "work" /\ x.rows = session[w].rows
      /\ x.todo = session[w].todo \ {n}
      /\ \A m \in Notifications : x.entries[m] = IF m = n THEN e ELSE session[w].entries[m]
  BY <1>2, <1>4, WorkerFacts DEF SessionState
<1> HIDE DEF x
<1> QED
  <2>1. Attempted(w, n, e, x)
    BY <1>2, <1>3, <1>4, <1>5, <1>6, <1>7 DEF Attempted
  <2> QED
    BY <1>7, <2>1, AttemptedInv

\* The outcome of an entry is recorded once, in a row that allows it.
LEMMA RecordedRow ==
  ASSUME Inv, NEW w \in Workers, NEW n \in session[w].todo,
         session[w].step = "work", ~Claimed(w, n)
  PROVE  LET entry == session[w].entries[n]
             row   == RowAfter(entry, Row(w, n))
         IN  /\ row \in NotificationRow
             /\ row.retries <= entry.retries /\ row.retries <= MaxRetries
             /\ row.status = Recorded[entry.status]
<1> DEFINE entry == session[w].entries[n]
           row   == RowAfter(entry, Row(w, n))
           old   == notifications[n]
<1>1. /\ n \in Notifications /\ entry # Null /\ session[w].rows[n] = Null
      /\ entry \in QueueRow
  BY WorkerFacts DEF SessionState, WorkerInv
<1>2. /\ queue[n] # Null /\ queue[n] \in QueueRow
      /\ entry.status \in {"COMPLETED", "FAILED", "WAITING"}
      /\ entry.retries = queue[n].retries + IF entry.status = "WAITING" THEN 1 ELSE 0
      /\ entry.status = "WAITING" => entry.retries <= MaxRetries
  BY <1>1, WorkerFacts DEF WorkerInv, Claimed, Inv, TypeInv
<1>3. old \in NotificationRow /\ old.retries <= MaxRetries /\ old.retries <= queue[n].retries
  BY <1>1, <1>2 DEF Inv, TypeInv, RowInv
<1>4. /\ old.retries \in Nat /\ queue[n].retries \in Nat /\ MaxRetries \in Nat
  BY <1>2, <1>3, BoundsAssumption DEF NotificationRow, QueueRow
<1>5. Row(w, n) = old
  BY <1>1 DEF Row, HoldsRow
<1> HIDE DEF entry, old
<1>6. CASE entry.status = "COMPLETED"
  <2>1. row = [old EXCEPT !.status = "SENT"]
    BY <1>5, <1>6 DEF RowAfter
  <2> HIDE DEF row
  <2>2. row \in NotificationRow /\ row.status = "SENT" /\ row.retries = old.retries
    BY <1>3, <2>1 DEF NotificationRow, NotificationStatus
  <2> QED
    BY <1>2, <1>3, <1>4, <1>6, <2>2 DEF Recorded, entry, row
<1>7. CASE entry.status = "FAILED"
  <2>1. row = [old EXCEPT !.status = "FAILED"]
    BY <1>5, <1>7 DEF RowAfter
  <2> HIDE DEF row
  <2>2. row \in NotificationRow /\ row.status = "FAILED" /\ row.retries = old.retries
    BY <1>3, <2>1 DEF NotificationRow, NotificationStatus
  <2> QED
    BY <1>2, <1>3, <1>4, <1>7, <2>2 DEF Recorded, entry, row
<1>8. CASE entry.status = "WAITING"
  <2>1. row = [status |-> "RETRYING", retries |-> old.retries + 1]
    BY <1>5, <1>8 DEF RowAfter
  <2> HIDE DEF row
  <2>2. row \in NotificationRow /\ row.status = "RETRYING" /\ row.retries = old.retries + 1
    BY <1>4, <2>1 DEF NotificationRow, NotificationStatus
  <2> QED
    BY <1>2, <1>3, <1>4, <1>8, <2>2 DEF Recorded, entry, row
<1> QED
  BY <1>2, <1>6, <1>7, <1>8

\* The worker lets the notification go when its row tells the outcome.
LEMMA RecordOutcomeInv == ASSUME Inv, NEW w \in Workers, RecordOutcome(w) PROVE Inv'
<1>1. PICK n \in session[w].todo :
        LET row == RowAfter(session[w].entries[n], Row(w, n)) IN
        /\ ~Claimed(w, n)
        /\ RowFree(w, n)
        /\ CheckHolds(row)
        /\ session' = [session EXCEPT ![w].rows = [@ EXCEPT ![n] = row],
                                      ![w].todo = @ \ {n}]
  BY DEF RecordOutcome
<1> DEFINE entry == session[w].entries[n]
           row == RowAfter(entry, Row(w, n))
           x == [session[w] EXCEPT !.rows = [@ EXCEPT ![n] = row], !.todo = @ \ {n}]
<1>2. session' = [session EXCEPT ![w] = x] /\ RowFree(w, n) /\ ~Claimed(w, n)
  BY <1>1
<1>3. session[w].step = "work" /\ UNCHANGED <<queue, notifications, sent>>
  BY DEF RecordOutcome, At
<1>4. /\ row \in NotificationRow
      /\ row.retries <= entry.retries /\ row.retries <= MaxRetries
      /\ row.status = Recorded[entry.status]
  BY <1>2, <1>3, RecordedRow
<1> HIDE DEF row
<1>5. row # Null
  BY <1>4, NullAssumption
<1>6. /\ session[w] \in SessionState /\ w \in Sessions /\ w \notin Requests
      /\ WorkerInv(session[w], queue, sent)
      /\ n \in Notifications /\ entry # Null
      /\ \A m \in session[w].todo : m \in Notifications
  BY WorkerFacts DEF SessionState, WorkerInv
<1>7. /\ x \in SessionState /\ x.step = "work" /\ x.entries = session[w].entries
      /\ x.todo = session[w].todo \ {n}
      /\ \A m \in Notifications : x.rows[m] = IF m = n THEN row ELSE session[w].rows[m]
  BY <1>3, <1>4, <1>6 DEF SessionState
<1> HIDE DEF x, entry
<1>8. WorkerInv(x, queue, sent')
  <2>1. \A m \in x.todo : x.entries[m] # Null /\ x.rows[m] = Null
    BY <1>6, <1>7 DEF WorkerInv
  <2>2. ASSUME NEW m \in Notifications, x.rows[m] # Null
        PROVE  /\ x.entries[m] # Null
               /\ x.rows[m].retries <= x.entries[m].retries
               /\ x.rows[m].retries <= MaxRetries
    <3>1. CASE m = n
      BY <1>4, <1>6, <1>7, <3>1 DEF entry
    <3>2. CASE m # n
      BY <1>6, <1>7, <2>2, <3>2 DEF WorkerInv
    <3> QED
      BY <3>1, <3>2
  <2>3. ASSUME NEW m \in Notifications, x.entries[m] # Null
        PROVE  /\ queue[m] # Null
               /\ queue[m].status = "WAITING"
               /\ queue[m].due
               /\ x.entries[m].status \in {"PROCESSING", "COMPLETED", "FAILED", "WAITING"}
               /\ x.entries[m].status = "COMPLETED" => m \in sent'
               /\ x.entries[m].retries = queue[m].retries + IF x.entries[m].status = "WAITING"
                                                            THEN 1 ELSE 0
               /\ x.entries[m].status = "WAITING" => x.entries[m].retries <= MaxRetries
    BY <1>3, <1>6, <1>7, <2>3 DEF WorkerInv
  <2>4. ASSUME NEW m \in Notifications, x.entries[m] # Null
        PROVE  /\ x.entries[m].status = "PROCESSING" => m \in x.todo
               /\ m \notin x.todo \cup Deleted =>
                    x.rows[m] # Null /\ x.rows[m].status = Recorded[x.entries[m].status]
    <3>1. CASE m = n
      BY <1>2, <1>4, <1>5, <1>6, <1>7, <3>1 DEF entry, Claimed
    <3>2. CASE m # n
      BY <1>6, <1>7, <2>4, <3>2 DEF WorkerInv
    <3> QED
      BY <3>1, <3>2
  <2> QED
    BY <1>7, <2>1, <2>2, <2>3, <2>4 DEF WorkerInv
<1>9. /\ sent \subseteq sent' /\ sent' \subseteq Notifications
      /\ \A m \in Notifications : x.entries[m] # Null => EntryFree(w, m)
      /\ \A m \in Notifications : x.rows[m] # Null => RowFree(w, m)
  BY <1>2, <1>3, <1>7, WorkerFacts DEF Inv, TypeInv
<1> QED
  BY <1>2, <1>3, <1>6, <1>7, <1>8, <1>9, Statement
----------------------------------------------------------------------------
(* Commits.                                                                *)

\* A row stays as it was unless the committing session has locked it.
LEMMA CommittedTables ==
  ASSUME Inv, NEW s \in Sessions, Commit(s), NEW n \in Notifications
  PROVE  /\ queue'[n] = IF session[s].entries[n] # Null THEN session[s].entries[n]
                        ELSE queue[n]
         /\ notifications'[n] = IF session[s].rows[n] # Null THEN session[s].rows[n]
                                ELSE notifications[n]
         /\ queue[n] # Null => queue'[n] # Null
         /\ \A u \in Sessions \ {s} :
              /\ session[u].entries[n] # Null => queue'[n] = queue[n]
              /\ session[u].rows[n] # Null => notifications'[n] = notifications[n]
BY DEF Commit, Entry, Row, HoldsEntry, HoldsRow, Inv, Locks

\* What a request commits agrees in both tables.
LEMMA RequestCommits ==
  ASSUME Inv, NEW r \in Requests, Commit(r), NEW n \in Notifications
  PROVE  RowInv(n, queue'[n], notifications'[n], sent)
<1> DEFINE entry == session[r].entries[n]
           row   == session[r].rows[n]
<1>1. /\ session[r] \in SessionState /\ session[r].step = "record" /\ session[r].todo = {}
      /\ RequestInv(r, session[r], queue, notifications)
      /\ entry \in QueueRow \cup {Null}
      /\ queue[n] \in QueueRow \cup {Null}
      /\ row \in NotificationRow \cup {Null}
      /\ notifications[n] \in NotificationRow
      /\ RowInv(n, queue[n], notifications[n], sent)
  BY RequestFacts DEF Commit, RequestInv, Inv, TypeInv, SessionState
<1>2. /\ queue'[n] = IF entry # Null THEN entry ELSE queue[n]
      /\ notifications'[n] = IF row # Null THEN row ELSE notifications[n]
  BY RequestFacts, CommittedTables
<1>3. /\ entry # Null =>
           /\ entry.status = IF r.op = "cancel" THEN "FAILED" ELSE "WAITING"
           /\ queue[n] # Null => entry.retries >= queue[n].retries
           /\ r.op = "cancel" => row # Null
      /\ row # Null =>
           /\ row.retries = notifications[n].retries
           /\ IF r.op = "cancel" THEN row.status = "CANCELLED"
              ELSE row.status = "QUEUED" /\ entry # Null
  BY <1>1 DEF RequestInv
<1>4. /\ entry # Null => entry.retries \in Nat
      /\ queue[n] # Null => queue[n].retries \in Nat
      /\ notifications[n].retries \in Nat
  BY <1>1 DEF QueueRow, NotificationRow
<1> HIDE DEF entry, row
<1>5. notifications'[n].retries = notifications[n].retries
  BY <1>2, <1>3
<1>6. notifications[n].retries <= IF queue'[n] = Null THEN 0 ELSE queue'[n].retries
  <2>1. CASE entry = Null
    BY <1>1, <1>2, <2>1 DEF RowInv
  <2>2. CASE entry # Null
    BY <1>1, <1>2, <1>3, <1>4, <2>2 DEF RowInv
  <2> QED
    BY <2>1, <2>2
<1>7. /\ queue'[n] # Null => queue'[n].status # "PROCESSING"
      /\ n \notin Deleted =>
           /\ notifications'[n].status \in {"QUEUED", "RETRYING"} =>
                queue'[n] # Null /\ queue'[n].status = "WAITING"
           /\ queue'[n] # Null /\ queue'[n].status = "COMPLETED" =>
                n \in sent /\ notifications'[n].status \in {"SENT", "CANCELLED"}
  <2>1. CASE entry = Null
    BY <1>1, <1>2, <1>3, <2>1 DEF RowInv
  <2>2. CASE entry # Null
    BY <1>2, <1>3, <2>2
  <2> QED
    BY <2>1, <2>2
<1> QED
  BY <1>1, <1>5, <1>6, <1>7 DEF RowInv

\* So does what a worker commits.
LEMMA WorkerCommits ==
  ASSUME Inv, NEW w \in Workers, Commit(w), NEW n \in Notifications
  PROVE  RowInv(n, queue'[n], notifications'[n], sent)
<1> DEFINE entry == session[w].entries[n]
           row   == session[w].rows[n]
<1>1. /\ session[w] \in SessionState /\ session[w].todo = {}
      /\ WorkerInv(session[w], queue, sent)
      /\ notifications[n] \in NotificationRow
      /\ RowInv(n, queue[n], notifications[n], sent)
  BY WorkerFacts DEF Commit, Inv, TypeInv
<1>2. /\ queue'[n] = IF entry # Null THEN entry ELSE queue[n]
      /\ notifications'[n] = IF row # Null THEN row ELSE notifications[n]
  BY WorkerFacts, CommittedTables
<1>3. /\ row # Null => /\ entry # Null
                       /\ row.retries <= entry.retries
                       /\ row.retries <= MaxRetries
      /\ entry # Null =>
           /\ queue[n] # Null
           /\ entry.status \in {"COMPLETED", "FAILED", "WAITING"}
           /\ entry.status = "COMPLETED" => n \in sent
           /\ entry.retries = queue[n].retries + IF entry.status = "WAITING" THEN 1 ELSE 0
           /\ n \notin Deleted => row # Null /\ row.status = Recorded[entry.status]
  BY <1>1 DEF WorkerInv
<1>4. /\ queue[n] # Null => queue[n].retries \in Nat
      /\ notifications[n].retries \in Nat
  BY <1>1 DEF QueueRow, NotificationRow, Inv, TypeInv
<1> HIDE DEF entry, row
<1>5. CASE entry = Null
  BY <1>1, <1>2, <1>3, <1>5
<1>6. CASE entry # Null
  <2>1. /\ notifications[n].retries <= entry.retries
        /\ notifications[n].retries <= MaxRetries
    BY <1>1, <1>3, <1>4, <1>6 DEF RowInv
  <2>2. /\ notifications'[n].retries <= entry.retries
        /\ notifications'[n].retries <= MaxRetries
    BY <1>2, <1>3, <2>1
  <2>3. n \notin Deleted =>
          /\ notifications'[n].status \in {"QUEUED", "RETRYING"} => entry.status = "WAITING"
          /\ entry.status = "COMPLETED" => n \in sent /\ notifications'[n].status = "SENT"
    BY <1>2, <1>3, <1>6 DEF Recorded
  <2> QED
    BY <1>2, <1>3, <1>6, <2>2, <2>3 DEF RowInv
<1> QED
  BY <1>5, <1>6

\* A commit keeps the tables in agreement, and what the others hold.
LEMMA CommitInv == ASSUME Inv, NEW s \in Sessions, Commit(s) PROVE Inv'
<1>1. /\ session' = [session EXCEPT ![s] = After(s)] /\ UNCHANGED sent
      /\ queue' = [n \in Notifications |-> Entry(s, n)]
      /\ notifications' = [n \in Notifications |-> Row(s, n)]
  BY DEF Commit
<1>2. /\ session' \in [Sessions -> SessionState]
      /\ \A u \in Sessions : session'[u] = IF u = s THEN After(s) ELSE session[u]
  BY <1>1, AfterState DEF Inv, TypeInv
<1>3. TypeInv'
  BY <1>1, <1>2 DEF Inv, TypeInv, Entry, Row, HoldsEntry, HoldsRow, SessionState
<1>4. Locks'
  BY <1>1, AfterState, LocksFrame DEF Inv, HoldsNothing
<1>5. ASSUME NEW r \in Requests
      PROVE  RequestInv(r, session'[r], queue', notifications')
  <2>1. CASE r = s
    BY <1>2, <2>1, AfterState
  <2>2. CASE r # s
    <3>1. /\ session'[r] = session[r] /\ session[r] \in SessionState
          /\ RequestInv(r, session[r], queue, notifications)
          /\ r \in Sessions \ {s}
      BY <1>2, <2>2, RequestFacts
    <3>2. ASSUME NEW n \in Notifications
          PROVE  /\ queue[n] # Null => queue'[n] # Null
                 /\ session[r].entries[n] # Null => queue'[n] = queue[n]
                 /\ session[r].rows[n] # Null => notifications'[n] = notifications[n]
      BY <3>1, CommittedTables
    <3> QED
      BY <3>1, <3>2, RequestFrame
  <2> QED
    BY <2>1, <2>2
<1>6. ASSUME NEW w \in Workers
      PROVE  WorkerInv(session'[w], queue', sent')
  <2>1. CASE w = s
    BY <1>2, <2>1, AfterState
  <2>2. CASE w # s
    <3>1. /\ session'[w] = session[w] /\ session[w] \in SessionState
          /\ WorkerInv(session[w], queue, sent)
          /\ w \in Sessions \ {s}
      BY <1>2, <2>2, WorkerFacts
    <3>2. \A n \in Notifications : session[w].entries[n] # Null => queue'[n] = queue[n]
      BY <3>1, CommittedTables
    <3> QED
      BY <1>1, <3>1, <3>2, WorkerFrame
  <2> QED
    BY <2>1, <2>2
<1>7. \A n \in Notifications : RowInv(n, queue'[n], notifications'[n], sent')
  BY <1>1, RequestCommits, WorkerCommits DEF Sessions
<1> QED
  BY <1>3, <1>4, <1>5, <1>6, <1>7 DEF Inv

\* Time passes for entries that nobody has claimed: a claimed one is due.
LEMMA BecomesDueInv == ASSUME Inv, NEW n \in Notifications, BecomesDue(n) PROVE Inv'
<1>1. /\ queue[n] # Null /\ ~queue[n].due
      /\ queue' = [queue EXCEPT ![n].due = TRUE]
      /\ UNCHANGED <<notifications, session, sent>>
  BY DEF BecomesDue
<1>2. queue \in [Notifications -> QueueRow \cup {Null}] /\ queue[n] \in QueueRow
  BY <1>1 DEF Inv, TypeInv
<1> DEFINE entry == [queue[n] EXCEPT !.due = TRUE]
<1>3. /\ entry \in QueueRow /\ entry.status = queue[n].status
      /\ entry.retries = queue[n].retries
  BY <1>2 DEF QueueRow
<1>4. queue' = [queue EXCEPT ![n] = entry]
  BY <1>1
<1> HIDE DEF entry
<1>5. /\ entry # Null
      /\ \A m \in Notifications : queue'[m] = IF m = n THEN entry ELSE queue[m]
  BY <1>2, <1>3, <1>4, NullAssumption
<1>6. TypeInv' /\ Locks'
  <2>1. queue' \in [Notifications -> QueueRow \cup {Null}]
    BY <1>2, <1>3, <1>4
  <2> QED
    BY <1>1, <2>1 DEF Inv, TypeInv, Locks, HoldsEntry, HoldsRow
<1>7. ASSUME NEW r \in Requests
      PROVE  RequestInv(r, session'[r], queue', notifications')
  <2>1. ASSUME NEW m \in Notifications
        PROVE  /\ queue[m] # Null => queue'[m] # Null
               /\ queue'[m] # Null => queue[m] # Null /\ queue'[m].retries = queue[m].retries
    BY <1>1, <1>3, <1>5
  <2> QED
    BY <1>1, <2>1, RequestFacts, RequestFrame
<1>8. ASSUME NEW w \in Workers
      PROVE  WorkerInv(session'[w], queue', sent')
  <2>1. session[w].entries[n] = Null
    BY <1>1, WorkerFacts DEF WorkerInv
  <2>2. \A m \in Notifications : session[w].entries[m] # Null => queue'[m] = queue[m]
    BY <1>5, <2>1
  <2> QED
    BY <1>1, <2>2, WorkerFacts, WorkerFrame
<1>9. ASSUME NEW m \in Notifications
      PROVE  RowInv(m, queue'[m], notifications'[m], sent')
  BY <1>1, <1>3, <1>5 DEF Inv, RowInv
<1> QED
  BY <1>6, <1>7, <1>8, <1>9 DEF Inv
----------------------------------------------------------------------------
(* The theorems.                                                           *)

\* Nothing is queued, held or sent at first.
LEMMA InitInv == Init => Inv
<1> SUFFICES ASSUME Init PROVE Inv
  OBVIOUS
<1>1. /\ queue = Nothing /\ sent = {}
      /\ \A n \in Notifications : queue[n] = Null
      /\ \A n \in Notifications : notifications[n] = [status |-> "PENDING", retries |-> 0]
      /\ \A s \in Sessions : session[s] = Fresh("idle")
  BY DEF Init, Nothing
<1>2. /\ Fresh("idle") \in SessionState /\ HoldsNothing(Fresh("idle"))
      /\ Fresh("idle").todo = {} /\ Fresh("idle").step = "idle"
  BY DEF Fresh, Nothing, SessionState, HoldsNothing
<1>3. TypeInv
  BY <1>2 DEF Init, TypeInv, Nothing, NotificationRow, NotificationStatus
<1>4. Locks
  BY <1>1, <1>2 DEF Locks, HoldsEntry, HoldsRow, HoldsNothing
<1>5. \A r \in Requests : RequestInv(r, session[r], queue, notifications)
  BY <1>1, <1>2 DEF RequestInv, HoldsNothing, Sessions
<1>6. \A w \in Workers : WorkerInv(session[w], queue, sent)
  BY <1>1, <1>2 DEF WorkerInv, HoldsNothing, Sessions
<1>7. \A n \in Notifications : RowInv(n, queue[n], notifications[n], sent)
  BY <1>1, BoundsAssumption DEF RowInv
<1> QED
  BY <1>3, <1>4, <1>5, <1>6, <1>7 DEF Inv

\* Every step keeps the invariant.
LEMMA StepInv == Inv /\ [Next]_vars => Inv'
<1> SUFFICES ASSUME Inv, [Next]_vars PROVE Inv'
  OBVIOUS
<1>1. CASE UNCHANGED vars
  <2>1. queue' = queue /\ notifications' = notifications /\ session' = session /\ sent' = sent
    BY <1>1 DEF vars
  <2>2. TypeInv' /\ Locks'
    BY <2>1 DEF Inv, TypeInv, Locks, HoldsEntry, HoldsRow
  <2>3. /\ \A r \in Requests : RequestInv(r, session'[r], queue', notifications')
        /\ \A w \in Workers : WorkerInv(session'[w], queue', sent')
        /\ \A n \in Notifications : RowInv(n, queue'[n], notifications'[n], sent')
    BY <2>1 DEF Inv
  <2> QED
    BY <2>2, <2>3 DEF Inv
<1>2. CASE \E s \in Sessions : DeadlockVictim(s) \/ Abandon(s)
  BY <1>2, RollbackInv DEF DeadlockVictim, Abandon
<1>3. CASE \E r \in Requests : Call(r)
  <2>1. PICK r \in Requests : Call(r)
    BY <1>3
  <2>2. r \in Sessions
    BY DEF Sessions
  <2>3. CASE UniqueViolation(r) \/ Reject(r)
    BY <2>2, <2>3, RollbackInv DEF UniqueViolation, Reject
  <2> QED
    BY <2>1, <2>2, <2>3, BeginInv, AnnounceInv, InsertEntryInv, LoadEntryInv, WriteEntryInv,
       RecordStatusInv, CommitInv DEF Call
<1>4. CASE \E w \in Workers : ProcessNextBatch(w)
  <2>1. PICK w \in Workers : ProcessNextBatch(w)
    BY <1>4
  <2>2. w \in Sessions
    BY DEF Sessions
  <2> QED
    BY <2>1, <2>2, FetchNextBatchInv, DispatchInv, MissingInv, RecordOutcomeInv, CommitInv
    DEF ProcessNextBatch
<1>5. CASE \E n \in Notifications : BecomesDue(n)
  BY <1>5, BecomesDueInv
<1> QED
  BY <1>1, <1>2, <1>3, <1>4, <1>5 DEF Next

\* The invariant holds throughout.
LEMMA Invariant == Spec => []Inv
BY InitInv, StepInv, PTL DEF Spec

\* Rows are rows, and whatever a worker is about to record, the CHECK on the
\* retries of a notification admits it, so no batch is rolled back by it.
THEOREM QueueTypeCorrect == Spec => []TypeOK
<1>1. Inv => TypeOK
  <2> SUFFICES ASSUME Inv PROVE TypeOK
    OBVIOUS
  <2>1. ASSUME NEW w \in Workers, NEW n \in Notifications,
               At(w, "work"), n \in session[w].todo, ~Claimed(w, n)
        PROVE  CheckHolds(RowAfter(session[w].entries[n], Row(w, n)))
    BY <2>1, RecordedRow DEF At, CheckHolds
  <2> QED
    BY <2>1 DEF TypeOK, Inv, TypeInv
<1> QED
  BY <1>1, Invariant, PTL

\* However many workers poll and whatever clients do meanwhile: an entry
\* that a worker holds is still waiting and due in the table, so that nobody
\* else dispatches or changes it, and no claim is ever committed.
THEOREM WorkersClaimsHold == Spec => []ClaimsHold
<1>1. Inv => ClaimsHold
  BY WorkerFacts DEF ClaimsHold, HoldsEntry, Inv, RowInv, WorkerInv
<1> QED
  BY <1>1, Invariant, PTL

\* Whichever of a worker and a client commits last, a notification that is
\* promised an attempt has an entry that waits, and a completed entry has a
\* notification that a provider has accepted and that says so.
THEOREM TablesAgree == Spec => []OutcomesAgree
<1>1. Inv => OutcomesAgree
  BY DEF OutcomesAgree, Inv, RowInv
<1> QED
  BY <1>1, Invariant, PTL
============================================================================
