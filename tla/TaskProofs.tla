----------------------------- MODULE TaskProofs -----------------------------
(***************************************************************************)
(* Proofs about TaskService and TaskScheduler.                             *)
(*                                                                         *)
(* TaskService: rows keep their types, completed tasks stay completed and  *)
(* notes are only added to, for any number of tasks, sessions and          *)
(* requests.  What a session is about to commit must be known before it    *)
(* commits: an image of a row that was completed is completed.  It is so   *)
(* when the image is made, because the CHECK rejects any other, and stays  *)
(* so because the lock keeps others from committing the row.  Requests do  *)
(* not deadlock, because each locks its rows in key order.                 *)
(*                                                                         *)
(* TaskScheduler, for any number of tasks, coroutines, batch and cache     *)
(* sizes: the caches are bounded; and if start and stop are called by one  *)
(* coroutine at a time, every running loop is owned by its handle, there   *)
(* is one of a kind, and it dispatches no task it remembers.  stop()       *)
(* suspends between cancelling the loops and dropping their handles.  What *)
(* carries the proof over that gap is StopInv: the handles are still those *)
(* that were cancelled.                                                    *)
(***************************************************************************)
EXTENDS TaskService, TaskScheduler, FiniteSetTheorems, WellFoundedInduction, TLAPS

Consistent(row) == row.completed <=> row.status = "COMPLETED"

\* What a session holds, against the table.
SessionInv(x, table) ==
  /\ x \in SessionState
  /\ x.step # "idle" => x.request # Null
  /\ x.step \in {"write", "finish"} => x.request.op \in SingleOps \cup BulkOps
  /\ x.step = "write" => /\ x.request.op \in SingleOps
                         /\ x.loaded[x.request.task] # Null
  /\ \A t \in Tasks :
       /\ x.object[t] = Null <=> x.loaded[t] = Null
       /\ x.loaded[t] # Null => /\ table[t] # Null
                                /\ x.loaded[t].completed => x.object[t].completed
       /\ x.written[t] # Null => /\ table[t] # Null
                                 /\ Consistent(x.written[t])
                                 /\ table[t].completed => x.written[t].completed

TableInv(table) ==
  /\ table \in [Tasks -> TaskRow \cup {Null}]
  /\ \A t \in Tasks : table[t] # Null => Consistent(table[t])

Exclusive == \A s, u \in Sessions : \A t \in Tasks :
               t \in Locks(s) /\ t \in Locks(u) => s = u

Inv == /\ TableInv(tasks)
       /\ session \in [Sessions -> SessionState]
       /\ \A s \in Sessions : SessionInv(session[s], tasks)
       /\ Exclusive

\* A step that makes session s become x keeps the invariant, if x satisfies
\* its part in the new table, the table changes only where x held locks or a
\* row is new, and x locks what was free.
LEMMA Frame ==
  ASSUME Inv, NEW s \in Sessions, NEW x,
         session' = [session EXCEPT ![s] = x],
         SessionInv(x, tasks'), TableInv(tasks'),
         \A t \in Tasks : \/ tasks'[t] = tasks[t]
                          \/ tasks[t] = Null /\ tasks'[t] # Null
                          \/ t \in Locks(s) /\ tasks'[t] # Null,
         \A t \in Tasks : x.written[t] # Null => t \in Locks(s) \/ RowFree(s, t)
  PROVE  Inv'
<1>1. session' \in [Sessions -> SessionState]
  BY DEF Inv, SessionInv
<1>2. ASSUME NEW u \in Sessions PROVE SessionInv(session'[u], tasks')
  <2>1. CASE u = s
    BY <2>1 DEF Inv
  <2>2. CASE u # s
    <3>1. session'[u] = session[u] /\ SessionInv(session[u], tasks)
      BY <2>2 DEF Inv
    <3>2. ASSUME NEW t \in Tasks, session[u].loaded[t] # Null
          PROVE  tasks'[t] # Null
      BY <3>1, <3>2 DEF SessionInv
    <3>3. ASSUME NEW t \in Tasks, session[u].written[t] # Null
          PROVE  tasks'[t] = tasks[t]
      BY <2>2, <3>1, <3>3 DEF SessionInv, Inv, Exclusive, Locks
    <3> QED BY <3>1, <3>2, <3>3 DEF SessionInv
  <2> QED BY <2>1, <2>2
<1>3. Exclusive'
  <2> SUFFICES ASSUME NEW u \in Sessions, NEW v \in Sessions, NEW t \in Tasks,
                      session'[u].written[t] # Null, session'[v].written[t] # Null
               PROVE  u = v
    BY DEF Exclusive, Locks
  <2>1. \A w \in Sessions \ {s} : session'[w] = session[w]
    BY DEF Inv
  <2>2. session'[s] = x
    BY DEF Inv
  <2> QED BY <2>1, <2>2 DEF Inv, Exclusive, Locks, RowFree
<1> QED BY <1>1, <1>2, <1>3 DEF Inv

\* The same for a step that leaves the table and the locks alone.
LEMMA SessionFrame ==
  ASSUME Inv, NEW s \in Sessions, NEW x,
         session' = [session EXCEPT ![s] = x],
         SessionInv(x, tasks), UNCHANGED tasks,
         \A t \in Tasks : x.written[t] # Null => t \in Locks(s) \/ RowFree(s, t)
  PROVE  Inv'
BY Frame DEF Inv

\* Rolling back keeps the invariant.
LEMMA RollbackInv == ASSUME Inv, NEW s \in Sessions, Rollback(s) PROVE Inv'
<1>1. SessionInv(Idle, tasks)
  BY DEF SessionInv, SessionState, Idle, Nothing
<1>2. \A t \in Tasks : Idle.written[t] = Null
  BY DEF Idle, Nothing
<1> QED BY <1>1, <1>2, SessionFrame DEF Rollback
----------------------------------------------------------------------------
(* What the requests assign.                                               *)

Columns(set) ==
  /\ "status" \in DOMAIN set => set.status \in TaskStatus
  /\ "completed" \in DOMAIN set => set.completed \in BOOLEAN
  /\ "reminder" \in DOMAIN set => set.reminder \in Nat \cup {Null}
  /\ "due" \in DOMAIN set => set.due \in Nat \cup {Null}
  /\ "assignee" \in DOMAIN set => set.assignee \in Assignees \cup {Null}
  /\ "notes" \in DOMAIN set => set.notes \in Nat
  /\ "deleted" \in DOMAIN set => set.deleted \in BOOLEAN

\* Requests assign admissible columns, and only a cancellation clears
\* completed_at.
LEMMA RequestColumns ==
  ASSUME NEW r \in Requests, r.op \in SingleOps \cup BulkOps
  PROVE  /\ Columns(r.set)
         /\ r.op # "cancel_task" /\ "completed" \in DOMAIN r.set => r.set.completed
<1>1. Assigns(r.op, r.set)
  BY RequestsAssumption DEF ValidRequest, SingleOps, BulkOps
<1>2. CASE r.op \in {"update_task", "bulk_update_tasks"}
  <2>1. /\ DOMAIN r.set \subseteq {"reminder", "due", "notes"}
        /\ "reminder" \in DOMAIN r.set => r.set.reminder \in Nat \cup {Null}
        /\ "due" \in DOMAIN r.set => r.set.due \in Nat \cup {Null}
        /\ "notes" \in DOMAIN r.set => r.set.notes = 0
    BY <1>1, <1>2 DEF Assigns
  <2> QED BY <2>1 DEF Columns
<1>3. CASE r.op = "assign_task"
  <2>1. r.set \in [assignee: Assignees \cup {Null}]
    BY <1>1, <1>3 DEF Assigns
  <2> QED BY <2>1 DEF Columns
<1>4. CASE r.op = "update_status"
  <2>1. r.set \in [status: TaskStatus \ Terminal]
    BY <1>1, <1>4 DEF Assigns
  <2> QED BY <2>1 DEF Columns
<1>5. CASE r.op = "complete_task"
  <2>1. r.set \in [status: {"COMPLETED"}, completed: {TRUE}]
    BY <1>1, <1>5 DEF Assigns
  <2> QED BY <1>5, <2>1 DEF Columns, TaskStatus
<1>6. CASE r.op = "cancel_task"
  <2>1. r.set \in [status: {"CANCELLED"}, completed: {FALSE}]
    BY <1>1, <1>6 DEF Assigns
  <2> QED BY <1>6, <2>1 DEF Columns, TaskStatus
<1>7. CASE r.op \in {"soft_delete_task", "bulk_soft_delete_tasks"}
  <2>1. r.set \in [deleted: {TRUE}]
    BY <1>1, <1>7 DEF Assigns
  <2> QED BY <2>1 DEF Columns
<1>8. CASE r.op = "restore_task"
  <2>1. r.set \in [deleted: {FALSE}]
    BY <1>1, <1>8 DEF Assigns
  <2> QED BY <2>1 DEF Columns
<1> QED BY <1>2, <1>3, <1>4, <1>5, <1>6, <1>7, <1>8 DEF SingleOps, BulkOps

\* Assigning admissible columns to a task yields a task.
LEMMA AssignedTask ==
  ASSUME NEW row \in TaskRow, NEW set, Columns(set)
  PROVE  /\ Assigned(row, set) \in TaskRow
         /\ "completed" \notin DOMAIN set \/ set.completed
              => (row.completed => Assigned(row, set).completed)
BY DEF TaskRow, Columns, Assigned

\* An UPDATE of a task leaves a task, and a completed one completed if the
\* object does not clear what was loaded.
LEMMA WrittenTask ==
  ASSUME NEW row \in TaskRow, NEW loaded \in TaskRow, NEW object \in TaskRow,
         loaded.completed => object.completed
  PROVE  /\ Written(row, loaded, object) \in TaskRow
         /\ row.completed => Written(row, loaded, object).completed
BY DEF TaskRow, Written
----------------------------------------------------------------------------
(* Each action of a session keeps the invariant.                           *)

\* A new session holds nothing.
LEMMA BeginInv == ASSUME Inv, NEW s \in Sessions, NEW r \in Requests, Begin(s, r) PROVE Inv'
<1> DEFINE x == [Idle EXCEPT !.step = "load", !.request = r]
<1>1. SessionInv(x, tasks)
  BY RequestsAssumption DEF SessionInv, SessionState, Idle, Nothing
<1>2. \A t \in Tasks : x.written[t] = Null
  BY DEF Idle, Nothing
<1> QED BY <1>1, <1>2, SessionFrame DEF Begin

\* Selecting rows that are there, and that a cancellation finds open.
LEMMA SelectedInv ==
  ASSUME Inv, NEW s \in Sessions, NEW ts \in SUBSET Tasks, NEW step \in {"write", "finish"},
         At(s, "load"), UNCHANGED tasks, session' = Selected(s, ts, step),
         Request(s).op \in SingleOps \cup BulkOps,
         step = "write" => Request(s).op \in SingleOps /\ Request(s).task \in ts,
         \A t \in ts : tasks[t] # Null,
         Request(s).op = "cancel_task" => \A t \in ts : tasks[t].status \notin Terminal
  PROVE  Inv'
<1> DEFINE loaded == [t \in Tasks |-> IF t \in ts THEN tasks[t] ELSE Null]
           object == [t \in Tasks |-> IF t \in ts THEN Assigned(tasks[t], Request(s).set)
                                                  ELSE Null]
           x == [session[s] EXCEPT !.step = step, !.loaded = loaded, !.object = object]
<1>1. session[s] \in SessionState /\ SessionInv(session[s], tasks)
  BY DEF Inv
<1>2. Request(s) \in Requests
  BY <1>1 DEF SessionInv, SessionState, Request, At
<1>3. Columns(Request(s).set)
  BY <1>2, RequestColumns
<1>4. ASSUME NEW t \in ts
      PROVE  /\ tasks[t] \in TaskRow
             /\ Assigned(tasks[t], Request(s).set) \in TaskRow
             /\ tasks[t].completed => Assigned(tasks[t], Request(s).set).completed
  <2>1. tasks[t] \in TaskRow /\ Consistent(tasks[t])
    BY DEF Inv, TableInv
  <2>2. CASE Request(s).op = "cancel_task"
    BY <1>3, <2>1, <2>2, AssignedTask DEF Consistent, Terminal
  <2>3. CASE Request(s).op # "cancel_task"
    BY <1>2, <1>3, <2>1, <2>3, AssignedTask, RequestColumns
  <2> QED BY <2>2, <2>3
<1>5. loaded \in [Tasks -> TaskRow \cup {Null}] /\ object \in [Tasks -> TaskRow \cup {Null}]
  BY <1>4
<1>6. x \in SessionState
  BY <1>1, <1>5, ZenonT(60) DEF SessionState
<1>7. \A t \in Tasks : /\ object[t] = Null <=> loaded[t] = Null
                       /\ loaded[t] # Null => /\ tasks[t] # Null
                                              /\ loaded[t].completed => object[t].completed
  BY <1>4, NullAssumption
<1>8. SessionInv(x, tasks)
  <2>1. /\ x.request = Request(s) /\ x.step = step
        /\ x.loaded = loaded /\ x.object = object /\ x.written = session[s].written
    BY <1>1 DEF SessionState, Request
  <2> HIDE DEF x, loaded, object
  <2>2. x.request # Null
    BY <1>1, <2>1 DEF SessionInv, At, Request
  <2>3. x.step = "write" => x.loaded[x.request.task] # Null
    <3> SUFFICES ASSUME step = "write" PROVE loaded[Request(s).task] # Null
      BY <2>1
    <3>1. Request(s).task \in ts
      OBVIOUS
    <3> QED BY <3>1, NullAssumption DEF loaded
  <2> QED
    BY <1>1, <1>6, <1>7, <2>1, <2>2, <2>3 DEF SessionInv
<1>9. session' = [session EXCEPT ![s] = x]
  BY DEF Selected, Inv
<1>10. \A t \in Tasks : x.written[t] # Null => t \in Locks(s)
  BY <1>1 DEF Locks, SessionState
<1> QED BY <1>8, <1>9, <1>10, SessionFrame

\* A single-task handler loads its row.
LEMMA LoadTaskInv == ASSUME Inv, NEW s \in Sessions, LoadTask(s) PROVE Inv'
<1>1. Request(s) \in Requests
  BY DEF Inv, SessionInv, SessionState, LoadTask, At, Request
<1>2. Request(s).task \in Tasks
  BY <1>1, RequestsAssumption DEF LoadTask, ValidRequest, SingleOps, BulkOps
<1> QED BY <1>2, SelectedInv DEF LoadTask, Accepts

\* A bulk handler loads the rows that are not deleted.
LEMMA LoadTasksInv == ASSUME Inv, NEW s \in Sessions, LoadTasks(s) PROVE Inv'
<1> DEFINE found == {t \in Request(s).tasks : tasks[t] # Null /\ ~tasks[t].deleted}
<1>1. Request(s) \in Requests
  BY DEF Inv, SessionInv, SessionState, LoadTasks, At, Request
<1>2. Request(s).tasks \subseteq Tasks
  BY <1>1, RequestsAssumption DEF LoadTasks, ValidRequest, SingleOps, BulkOps
<1>3. found \in SUBSET Tasks /\ Request(s).op # "cancel_task"
  BY <1>2 DEF LoadTasks, BulkOps
<1> QED BY <1>3, SelectedInv DEF LoadTasks

\* The request of a session that is not idle is one a client may make.
LEMMA RequestOf ==
  ASSUME Inv, NEW s \in Sessions, ~At(s, "idle")
  PROVE  Request(s) \in Requests
BY DEF Inv, SessionInv, SessionState, At, Request

\* A new row takes a free key.
LEMMA CreateTaskInv == ASSUME Inv, NEW s \in Sessions, CreateTask(s) PROVE Inv'
<1>1. Request(s) \in Requests
  BY RequestOf DEF CreateTask, At
<1>2. Request(s).row \in TaskRow /\ Consistent(Request(s).row)
  BY <1>1, RequestsAssumption
  DEF CreateTask, ValidRequest, SingleOps, BulkOps, ChecksHold, Consistent
<1>3. PICK t \in Tasks : /\ tasks[t] = Null
                         /\ tasks' = [tasks EXCEPT ![t] = Request(s).row]
  BY DEF CreateTask
<1>4. TableInv(tasks')
  BY <1>2, <1>3 DEF Inv, TableInv
<1>5. \A v \in Tasks : tasks'[v] = tasks[v] \/ (tasks[v] = Null /\ tasks'[v] # Null)
  BY <1>2, <1>3, NullAssumption DEF Inv, TableInv
<1>6. SessionInv(Idle, tasks')
  BY DEF SessionInv, SessionState, Idle, Nothing
<1>7. \A v \in Tasks : Idle.written[v] = Null
  BY DEF Idle, Nothing
<1>8. session' = [session EXCEPT ![s] = Idle]
  BY DEF CreateTask
<1> QED BY <1>4, <1>5, <1>6, <1>7, <1>8, Frame

\* An image the CHECKs accept is a task, and completed if the row is.
LEMMA ImageInv ==
  ASSUME Inv, NEW s \in Sessions, NEW t \in Dirty(s), session[s].loaded[t] # Null,
         ChecksHold(Image(s, t))
  PROVE  /\ Image(s, t) \in TaskRow
         /\ Consistent(Image(s, t))
         /\ tasks[t].completed => Image(s, t).completed
<1> DEFINE loaded == session[s].loaded[t]
           object == session[s].object[t]
<1>1. t \in Tasks /\ SessionInv(session[s], tasks) /\ TableInv(tasks)
  BY DEF Dirty, Inv
<1>2. /\ loaded \in TaskRow /\ object \in TaskRow
      /\ loaded.completed => object.completed
      /\ tasks[t] \in TaskRow
  BY <1>1 DEF SessionInv, SessionState, TableInv
<1>3. Visible(s, t) \in TaskRow
  BY <1>1, <1>2 DEF SessionInv, SessionState, Visible, Locks
<1>4. tasks[t].completed => Visible(s, t).completed
  BY <1>1, <1>2 DEF SessionInv, SessionState, Visible, Locks
<1> QED BY <1>2, <1>3, <1>4, WrittenTask DEF Image, ChecksHold, Consistent

\* A session updates a row it has loaded, that no other session has locked.
LEMMA WriteTaskInv == ASSUME Inv, NEW s \in Sessions, WriteTask(s) PROVE Inv'
<1>1. PICK t \in NextUpdates(s) :
        /\ RowFree(s, t)
        /\ ChecksHold(Image(s, t))
        /\ session' = [session EXCEPT ![s].loaded[t] = session[s].object[t],
                                      ![s].written[t] = Image(s, t)]
  BY DEF WriteTask
<1> DEFINE x == [session[s] EXCEPT !.loaded[t] = session[s].object[t],
                                   !.written[t] = Image(s, t)]
<1>2. t \in Dirty(s) /\ t \in Tasks
  BY DEF NextUpdates, Dirty
<1>3. session[s] \in SessionState /\ SessionInv(session[s], tasks)
  BY DEF Inv
<1>4. session[s].loaded[t] # Null /\ session[s].object[t] # Null /\ tasks[t] # Null
  BY <1>2, <1>3 DEF Dirty, SessionInv
<1>5. /\ Image(s, t) \in TaskRow /\ Image(s, t) # Null
      /\ Consistent(Image(s, t))
      /\ tasks[t].completed => Image(s, t).completed
  BY <1>1, <1>2, <1>4, ImageInv, NullAssumption
<1>6. x \in SessionState
  BY <1>2, <1>3, <1>5 DEF SessionState
<1>7. \A v \in Tasks :
        /\ x.loaded[v] = (IF v = t THEN session[s].object[t] ELSE session[s].loaded[v])
        /\ x.written[v] = (IF v = t THEN Image(s, t) ELSE session[s].written[v])
        /\ x.object[v] = session[s].object[v]
  BY <1>3 DEF SessionState
<1>8. x.step = session[s].step /\ x.request = session[s].request
  BY <1>3 DEF SessionState
<1>9. \A v \in Tasks :
        /\ x.object[v] = Null <=> x.loaded[v] = Null
        /\ x.loaded[v] # Null => /\ tasks[v] # Null
                                 /\ x.loaded[v].completed => x.object[v].completed
        /\ x.written[v] # Null => /\ tasks[v] # Null
                                  /\ Consistent(x.written[v])
                                  /\ tasks[v].completed => x.written[v].completed
  BY <1>3, <1>4, <1>5, <1>7 DEF SessionInv
<1>10. x.step = "write" => /\ x.request.op \in SingleOps
                           /\ x.loaded[x.request.task] # Null
  <2>1. SUFFICES ASSUME x.step = "write"
                 PROVE  x.request.op \in SingleOps /\ x.loaded[x.request.task] # Null
    OBVIOUS
  <2>2. /\ session[s].request.op \in SingleOps
        /\ session[s].loaded[session[s].request.task] # Null
        /\ session[s].request \in Requests
    BY <1>3, <1>8, <2>1 DEF SessionInv, SessionState
  <2>3. session[s].request.task \in Tasks
    BY <2>2, RequestsAssumption DEF ValidRequest, SingleOps, BulkOps
  <2> QED BY <1>4, <1>7, <1>8, <2>2, <2>3
<1>11. SessionInv(x, tasks)
  BY <1>3, <1>6, <1>8, <1>9, <1>10 DEF SessionInv
<1>12. session' = [session EXCEPT ![s] = x]
  BY <1>1, <1>3 DEF Inv, SessionState
<1>13. \A v \in Tasks : x.written[v] # Null => v \in Locks(s) \/ RowFree(s, v)
  BY <1>1, <1>7 DEF Locks
<1> QED BY <1>11, <1>12, <1>13, SessionFrame DEF WriteTask

\* A handler that has flushed refreshes its row and appends a note.
LEMMA RefreshInv == ASSUME Inv, NEW s \in Sessions, Refresh(s) PROVE Inv'
<1> DEFINE t == Request(s).task
           row == Visible(s, t)
           appended == IF Request(s).note THEN row.notes + 1 ELSE row.notes
           noted == [row EXCEPT !.notes = appended]
           x == [session[s] EXCEPT !.step = "finish", !.loaded[t] = row, !.object[t] = noted]
<1>1. session[s] \in SessionState /\ SessionInv(session[s], tasks) /\ TableInv(tasks)
  BY DEF Inv
<1>2. Request(s) \in Requests /\ Request(s).op \in SingleOps /\ session[s].loaded[t] # Null
  BY <1>1, RequestOf DEF Refresh, At, SessionInv, Request
<1>3. t \in Tasks
  BY <1>2, RequestsAssumption DEF ValidRequest, SingleOps, BulkOps
<1>4. tasks[t] # Null /\ row \in TaskRow
  BY <1>1, <1>2, <1>3 DEF SessionInv, TableInv, SessionState, Visible, Locks
<1>5. noted \in TaskRow /\ noted.completed = row.completed
  BY <1>4 DEF TaskRow
<1>6. x \in SessionState
  BY <1>1, <1>3, <1>4, <1>5 DEF SessionState
<1>7. \A v \in Tasks :
        /\ x.loaded[v] = (IF v = t THEN row ELSE session[s].loaded[v])
        /\ x.object[v] = (IF v = t THEN noted ELSE session[s].object[v])
        /\ x.written[v] = session[s].written[v]
  BY <1>1, <1>3 DEF SessionState
<1>8. x.step = "finish" /\ x.request = session[s].request
  BY <1>1 DEF SessionState
<1>9. row # Null /\ noted # Null
  BY <1>4, <1>5, NullAssumption
<1>10. ASSUME NEW v \in Tasks
       PROVE  /\ x.object[v] = Null <=> x.loaded[v] = Null
              /\ x.loaded[v] # Null => /\ tasks[v] # Null
                                       /\ x.loaded[v].completed => x.object[v].completed
              /\ x.written[v] # Null => /\ tasks[v] # Null
                                        /\ Consistent(x.written[v])
                                        /\ tasks[v].completed => x.written[v].completed
  <2> HIDE DEF x, row, noted, t
  <2>1. CASE v = t
    BY <1>1, <1>4, <1>5, <1>7, <1>9, <2>1 DEF SessionInv
  <2>2. CASE v # t
    BY <1>1, <1>7, <2>2 DEF SessionInv
  <2> QED BY <2>1, <2>2
<1>11. SessionInv(x, tasks)
  <2>1. x.request.op \in SingleOps \cup BulkOps /\ x.request # Null
    BY <1>2, <1>8, RequestsAssumption DEF Request
  <2> HIDE DEF x
  <2> QED BY <1>6, <1>8, <1>10, <2>1 DEF SessionInv
<1>12. session' = [session EXCEPT ![s] = x]
  BY <1>1 DEF Inv, Refresh, Refreshed, SessionState
<1>13. \A v \in Tasks : x.written[v] # Null => v \in Locks(s)
  BY <1>7 DEF Locks
<1> QED BY <1>11, <1>12, <1>13, SessionFrame DEF Refresh

\* A commit publishes what the session wrote.
LEMMA CommitInv == ASSUME Inv, NEW s \in Sessions, Commit(s) PROVE Inv'
<1>1. session[s] \in SessionState /\ SessionInv(session[s], tasks) /\ TableInv(tasks)
  BY DEF Inv
<1>2. ASSUME NEW t \in Tasks
      PROVE  /\ tasks'[t] = Visible(s, t)
             /\ tasks'[t] \in TaskRow \cup {Null}
             /\ tasks'[t] # Null => Consistent(tasks'[t])
             /\ tasks'[t] = tasks[t] \/ (t \in Locks(s) /\ tasks'[t] # Null)
  BY <1>1 DEF Commit, Visible, Locks, SessionInv, SessionState, TableInv
<1>3. TableInv(tasks')
  BY <1>2 DEF TableInv, Commit
<1>4. SessionInv(Idle, tasks')
  BY DEF SessionInv, SessionState, Idle, Nothing
<1>5. \A v \in Tasks : Idle.written[v] = Null
  BY DEF Idle, Nothing
<1>6. session' = [session EXCEPT ![s] = Idle]
  BY DEF Commit
<1> QED BY <1>2, <1>3, <1>4, <1>5, <1>6, Frame
----------------------------------------------------------------------------
\* Every step keeps the invariant.
LEMMA InvStep == ASSUME Inv, [Next]_vars PROVE Inv'
<1>1. CASE UNCHANGED vars
  BY <1>1 DEF vars, Inv, TableInv, SessionInv, Exclusive, Locks
<1>2. ASSUME NEW s \in Sessions, Step(s) PROVE Inv'
  <2>1. CASE LoadTask(s)
    BY <2>1, LoadTaskInv
  <2>2. CASE RejectTask(s)
    BY <2>2, RollbackInv DEF RejectTask
  <2>3. CASE LoadTasks(s)
    BY <2>3, LoadTasksInv
  <2>4. CASE CreateTask(s)
    BY <2>4, CreateTaskInv
  <2>5. CASE WriteTask(s)
    BY <2>5, WriteTaskInv
  <2>6. CASE CheckViolated(s)
    BY <2>6, RollbackInv DEF CheckViolated
  <2>7. CASE Refresh(s)
    BY <2>7, RefreshInv
  <2>8. CASE Commit(s)
    BY <2>8, CommitInv
  <2> QED BY <1>2, <2>1, <2>2, <2>3, <2>4, <2>5, <2>6, <2>7, <2>8 DEF Step
<1>3. ASSUME NEW s \in Sessions, NEW r \in Requests, Begin(s, r) PROVE Inv'
  BY <1>3, BeginInv
<1>4. ASSUME NEW s \in Sessions, Abandon(s) PROVE Inv'
  BY <1>4, RollbackInv DEF Abandon
<1> QED BY <1>1, <1>2, <1>3, <1>4 DEF Next

\* The invariant holds initially.
LEMMA InvInit == Init => Inv
<1> SUFFICES ASSUME Init PROVE Inv
  OBVIOUS
<1>1. TableInv(tasks)
  BY SeedAssumption DEF Init, TableInv, ChecksHold, Consistent
<1>2. \A s \in Sessions : session[s] = Idle
  BY DEF Init
<1>3. SessionInv(Idle, tasks)
  BY DEF SessionInv, SessionState, Idle, Nothing
<1>4. session \in [Sessions -> SessionState]
  BY <1>3 DEF Init, SessionInv
<1>5. Exclusive
  BY <1>2 DEF Exclusive, Locks, Idle, Nothing
<1> QED BY <1>1, <1>2, <1>3, <1>4, <1>5 DEF Inv

\* Rows are rows whatever is requested, and every completed task says when
\* it was completed, although the handlers write the two columns of a task
\* that others have changed since they loaded it.
THEOREM TasksTypeCorrect == Spec => []TypeOK
<1>1. Inv => TypeOK
  BY SMTT(60) DEF Inv, TableInv, TypeOK, Consistent
<1> QED BY <1>1, InvInit, InvStep, PTL DEF Spec

\* No interleaving of requests takes a task out of its completed state.
THEOREM CompletedStaysCompleted == Spec => CompletedIsFinal
<1> DEFINE Final == \A t \in Tasks : tasks[t] # Null /\ tasks[t].status = "COMPLETED"
                                       => tasks'[t].status = "COMPLETED"
<1>1. ASSUME Inv, [Next]_vars PROVE [Final]_vars
  <2>1. CASE UNCHANGED vars
    BY <2>1
  <2>2. CASE UNCHANGED tasks
    BY <2>2
  <2>3. ASSUME NEW s \in Sessions, CreateTask(s) PROVE Final
    BY <1>1, <2>3 DEF CreateTask, Inv, TableInv
  <2>4. ASSUME NEW s \in Sessions, Commit(s) PROVE Final
    <3> SUFFICES ASSUME NEW t \in Tasks, tasks[t] # Null, tasks[t].status = "COMPLETED"
                 PROVE  tasks'[t].status = "COMPLETED"
      OBVIOUS
    <3>1. tasks'[t] = Visible(s, t)
      BY <2>4 DEF Commit
    <3>2. tasks[t].completed /\ SessionInv(session[s], tasks)
      BY <1>1 DEF Inv, TableInv, Consistent
    <3> QED BY <3>1, <3>2 DEF Visible, Locks, SessionInv, Consistent
  <2> QED BY <1>1, <2>1, <2>2, <2>3, <2>4
       DEF Next, Step, Begin, Abandon, Rollback, LoadTask, RejectTask, LoadTasks,
           WriteTask, CheckViolated, Refresh
<1>2. Init => Inv
  BY InvInit
<1>3. Inv /\ [Next]_vars => Inv'
  BY InvStep
<1> QED BY <1>1, <1>2, <1>3, PTL DEF Spec, CompletedIsFinal
----------------------------------------------------------------------------
(* Notes.  A completion or cancellation changes the status, so the row is  *)
(* locked when it is refreshed, and the notes that are read then are those *)
(* that are committed when the request commits.                            *)

Ends(r) == r.op \in {"complete_task", "cancel_task"}
Added(r) == IF r.note THEN 1 ELSE 0

\* The notes that session x, which completes or cancels a task, holds of it.
NotesKnown(x, table) ==
  LET t == x.request.task IN
  /\ x.step \in {"idle", "load"} => \A v \in Tasks : x.written[v] = Null
  /\ x.step \in {"write", "finish"} /\ Ends(x.request) =>
    /\ t \in Tasks /\ x.loaded[t] # Null
    /\ x.step = "write" =>
         /\ x.object[t].notes = x.loaded[t].notes
         /\ \/ x.written[t] = Null /\ x.object[t] # x.loaded[t]
            \/ /\ x.written[t] # Null /\ x.object[t] = x.loaded[t]
               /\ x.written[t].notes = table[t].notes
    /\ x.step = "finish" =>
         /\ x.written[t] # Null
         /\ \/ /\ x.object[t] # x.loaded[t]
               /\ x.loaded[t].notes = table[t].notes /\ x.written[t].notes = table[t].notes
               /\ x.object[t].notes = table[t].notes + Added(x.request)
               /\ x.request.note
            \/ /\ x.object[t] = x.loaded[t]
               /\ x.written[t].notes = table[t].notes + Added(x.request)

NotesInv == \A s \in Sessions : NotesKnown(session[s], tasks)

\* A session that has not loaded anything has written nothing.
LEMMA NotesUnknown ==
  ASSUME NEW x, x.step \in {"idle", "load"}, \A v \in Tasks : x.written[v] = Null, NEW table
  PROVE  NotesKnown(x, table)
BY DEF NotesKnown

\* The notes a session has read stay the committed ones: it holds the lock.
LEMMA NotesFrame ==
  ASSUME Inv, NotesInv, NEW s \in Sessions, NEW x,
         session' = [session EXCEPT ![s] = x], NotesKnown(x, tasks'),
         \A t \in Tasks : \/ tasks'[t] = tasks[t]
                          \/ tasks[t] = Null
                          \/ t \in Locks(s)
  PROVE  NotesInv'
<1> SUFFICES ASSUME NEW u \in Sessions
             PROVE  NotesKnown(session'[u], tasks')
  BY DEF NotesInv
<1>1. CASE u = s
  BY <1>1 DEF Inv
<1>2. CASE u # s
  <2> DEFINE y == session[u]
             t == y.request.task
  <2>1. session'[u] = y /\ NotesKnown(y, tasks) /\ SessionInv(y, tasks)
    BY <1>2 DEF Inv, NotesInv
  <2>2. ASSUME t \in Tasks, y.loaded[t] # Null, y.written[t] # Null
        PROVE  tasks'[t] = tasks[t]
    <3>1. tasks[t] # Null /\ t \notin Locks(s)
      BY <1>2, <2>1, <2>2 DEF SessionInv, Inv, Exclusive, Locks
    <3> QED
      BY <2>2, <3>1
  <2> HIDE DEF y, t
  <2>3. NotesKnown(y, tasks')
    BY <2>1, <2>2 DEF NotesKnown, t
  <2> QED
    BY <2>1, <2>3
<1> QED
  BY <1>1, <1>2

\* A completion or cancellation changes the status of its task.
LEMMA LoadTaskNotes ==
  ASSUME Inv, NotesInv, NEW s \in Sessions, LoadTask(s)
  PROVE  NotesInv'
<1> DEFINE r == Request(s)
           t == r.task
           row == tasks[t]
           x == [session[s] EXCEPT !.step = "write",
                   !.loaded = [v \in Tasks |-> IF v \in {t} THEN tasks[v] ELSE Null],
                   !.object = [v \in Tasks |-> IF v \in {t} THEN Assigned(tasks[v], r.set)
                                                            ELSE Null]]
<1>1. session[s] \in SessionState /\ r \in Requests /\ r.op \in SingleOps
      /\ Accepts(r, row)
  BY RequestOf DEF Inv, LoadTask, At
<1>2. t \in Tasks /\ Assigns(r.op, r.set)
  BY <1>1, RequestsAssumption DEF ValidRequest, SingleOps, BulkOps
<1>3. row # Null /\ row \in TaskRow
  BY <1>1, <1>2 DEF Accepts, Inv, TableInv
<1>4. session' = [session EXCEPT ![s] = x] /\ UNCHANGED tasks
  BY DEF LoadTask, Selected, Inv
<1>5. x.step = "write" /\ x.request = r /\ x.written = session[s].written
      /\ x.loaded[t] = row /\ x.object[t] = Assigned(row, r.set)
  BY <1>1, <1>2 DEF SessionState, Request
<1>6. ASSUME Ends(r)
      PROVE  /\ Assigned(row, r.set).notes = row.notes
             /\ Assigned(row, r.set) # row
  <2>1. /\ "status" \in DOMAIN r.set /\ "notes" \notin DOMAIN r.set
        /\ r.set.status \in Terminal
    <3>1. CASE r.op = "complete_task"
      <4>1. r.set \in [status: {"COMPLETED"}, completed: {TRUE}]
        BY <1>2, <3>1 DEF Assigns
      <4> QED
        BY <4>1 DEF Terminal
    <3>2. CASE r.op = "cancel_task"
      <4>1. r.set \in [status: {"CANCELLED"}, completed: {FALSE}]
        BY <1>2, <3>2 DEF Assigns
      <4> QED
        BY <4>1 DEF Terminal
    <3> QED
      BY <1>6, <3>1, <3>2 DEF Ends
  <2>2. row.status \notin Terminal
    BY <1>1, <1>6 DEF Accepts, Ends
  <2>3. /\ Assigned(row, r.set).notes = row.notes
        /\ Assigned(row, r.set).status = r.set.status
    BY <1>3, <2>1 DEF Assigned, TaskRow
  <2> QED
    BY <2>1, <2>2, <2>3
<1>7. session[s].written[t] = Null
  BY <1>2 DEF NotesInv, NotesKnown, LoadTask, At
<1> HIDE DEF x, row
<1>8. NotesKnown(x, tasks)
  BY <1>2, <1>3, <1>5, <1>6, <1>7, NullAssumption DEF NotesKnown
<1> QED
  BY <1>4, <1>8, NotesFrame

\* A bulk update completes and cancels nothing.
LEMMA LoadTasksNotes ==
  ASSUME Inv, NotesInv, NEW s \in Sessions, LoadTasks(s)
  PROVE  NotesInv'
<1> DEFINE found == {t \in Request(s).tasks : tasks[t] # Null /\ ~tasks[t].deleted}
           x == [session[s] EXCEPT !.step = "finish",
                   !.loaded = [t \in Tasks |-> IF t \in found THEN tasks[t] ELSE Null],
                   !.object = [t \in Tasks |-> IF t \in found
                                               THEN Assigned(tasks[t], Request(s).set)
                                               ELSE Null]]
<1>1. session[s] \in SessionState /\ Request(s).op \in BulkOps
  BY DEF Inv, LoadTasks
<1>2. session' = [session EXCEPT ![s] = x] /\ UNCHANGED tasks
  BY DEF LoadTasks, Selected, Inv
<1>3. x.step = "finish" /\ x.request = Request(s)
  BY <1>1 DEF SessionState, Request
<1> HIDE DEF x
<1>4. NotesKnown(x, tasks)
  BY <1>1, <1>3 DEF NotesKnown, Ends, BulkOps
<1> QED
  BY <1>2, <1>4, NotesFrame

\* An UPDATE of the task writes the notes of its object, or leaves the
\* committed ones.
LEMMA WriteTaskNotes ==
  ASSUME Inv, NotesInv, NEW s \in Sessions, WriteTask(s)
  PROVE  NotesInv'
<1>1. PICK v \in NextUpdates(s) :
        session' = [session EXCEPT ![s].loaded[v] = session[s].object[v],
                                   ![s].written[v] = Image(s, v)]
  BY DEF WriteTask
<1> DEFINE y == session[s]
           r == Request(s)
           t == r.task
           x == [y EXCEPT !.loaded[v] = y.object[v], !.written[v] = Image(s, v)]
<1>2. v \in Dirty(s) /\ v \in Tasks
  BY DEF NextUpdates, Dirty
<1>3. y \in SessionState /\ SessionInv(y, tasks) /\ NotesKnown(y, tasks) /\ TableInv(tasks)
      /\ y.step \in {"write", "finish"} /\ r = y.request
  BY DEF Inv, NotesInv, WriteTask, Request
<1>4. session' = [session EXCEPT ![s] = x] /\ UNCHANGED tasks
  BY <1>1, <1>3 DEF Inv, SessionState, WriteTask
<1>5. /\ x.step = y.step /\ x.request = r
      /\ \A w \in Tasks :
           /\ x.object[w] = y.object[w]
           /\ w # v => x.loaded[w] = y.loaded[w] /\ x.written[w] = y.written[w]
      /\ x.loaded[v] = y.object[v] /\ x.written[v] = Image(s, v)
  BY <1>2, <1>3 DEF SessionState
<1>6. ASSUME v = t, Ends(r)
      PROVE  /\ x.loaded[t] # Null /\ x.written[t] # Null
             /\ x.written[t].notes = tasks[t].notes
                  + (IF y.step = "finish" THEN Added(r) ELSE 0)
  <2>1. /\ y.loaded[v] \in TaskRow /\ y.object[v] \in TaskRow /\ y.object[v] # Null
        /\ tasks[v] \in TaskRow /\ y.object[v] # y.loaded[v]
    <3>1. y.loaded[v] # Null /\ y.object[v] # Null /\ tasks[v] # Null
      BY <1>2, <1>3, <1>6 DEF NotesKnown, SessionInv
    <3> QED
      BY <1>2, <1>3, <3>1 DEF SessionState, TableInv, Dirty
  <2>2. /\ Visible(s, v) \in TaskRow
        /\ Visible(s, v).notes = tasks[v].notes
    <3>1. y.written[v] # Null => y.written[v] \in TaskRow /\ y.written[v].notes = tasks[v].notes
      BY <1>2, <1>3, <1>6, <2>1 DEF SessionState, NotesKnown
    <3> QED
      BY <1>2, <2>1, <3>1 DEF Visible, Locks
  <2>3. /\ y.object[v].notes \in Nat /\ y.loaded[v].notes \in Nat /\ tasks[v].notes \in Nat
        /\ "notes" \in DOMAIN Visible(s, v)
    BY <2>1, <2>2 DEF TaskRow
  <2>4. Image(s, v).notes = IF y.object[v].notes # y.loaded[v].notes
                            THEN y.object[v].notes ELSE tasks[v].notes
    BY <2>2, <2>3 DEF Image, Written
  <2>5. Image(s, v).notes = tasks[v].notes + (IF y.step = "finish" THEN Added(r) ELSE 0)
    <3>1. CASE y.step = "write"
      BY <1>3, <1>6, <2>3, <2>4, <3>1 DEF NotesKnown
    <3>2. CASE y.step = "finish"
      BY <1>3, <1>6, <2>1, <2>3, <2>4, <3>2 DEF NotesKnown, Added
    <3> QED
      BY <1>3, <3>1, <3>2
  <2>6. Image(s, v) # Null
    <3>1. Image(s, v) \in TaskRow
      BY <1>2, <1>3, <2>1, <2>2, WrittenTask DEF Image, SessionInv
    <3> QED
      BY <3>1, NullAssumption
  <2> QED
    BY <1>5, <1>6, <2>1, <2>5, <2>6
<1>7. Ends(r) => tasks[t] # Null /\ tasks[t].notes \in Nat
  <2> SUFFICES ASSUME Ends(r) PROVE tasks[t] # Null /\ tasks[t].notes \in Nat
    OBVIOUS
  <2>1. t \in Tasks /\ tasks[t] # Null
    BY <1>3 DEF NotesKnown, SessionInv
  <2>2. tasks[t] \in TaskRow
    BY <1>3, <2>1 DEF TableInv
  <2> QED
    BY <2>1, <2>2 DEF TaskRow
<1> HIDE DEF x, y, r
<1>8. NotesKnown(x, tasks)
  <2>1. CASE v = t
    BY <1>3, <1>5, <1>6, <1>7, <2>1 DEF NotesKnown
  <2>2. CASE v # t
    BY <1>3, <1>5, <2>2 DEF NotesKnown
  <2> QED
    BY <2>1, <2>2
<1> QED
  BY <1>4, <1>8, NotesFrame

\* What is refreshed are the notes of a row that the session has locked.
LEMMA RefreshNotes ==
  ASSUME Inv, NotesInv, NEW s \in Sessions, Refresh(s)
  PROVE  NotesInv'
<1> DEFINE y == session[s]
           r == Request(s)
           t == r.task
           row == Visible(s, t)
           noted == [row EXCEPT !.notes = IF r.note THEN row.notes + 1 ELSE row.notes]
           x == [y EXCEPT !.step = "finish", !.loaded[t] = row, !.object[t] = noted]
<1>1. y \in SessionState /\ SessionInv(y, tasks) /\ NotesKnown(y, tasks) /\ TableInv(tasks)
      /\ y.step = "write" /\ r = y.request /\ Dirty(s) = {}
  BY DEF Inv, NotesInv, Refresh, At, Request
<1>2. session' = [session EXCEPT ![s] = x] /\ UNCHANGED tasks
  BY <1>1 DEF Inv, Refresh, Refreshed, SessionState
<1>3. t \in Tasks /\ (Ends(r) => r.note \in BOOLEAN)
  <2>1. r \in Requests /\ r.op \in SingleOps
    BY <1>1, RequestOf DEF At, SessionInv
  <2> QED
    BY <2>1, RequestsAssumption DEF ValidRequest, SingleOps, BulkOps
<1>4. /\ x.step = "finish" /\ x.request = r /\ x.written = y.written
      /\ x.loaded[t] = row /\ x.object[t] = noted
  BY <1>1, <1>3 DEF SessionState
<1>5. ASSUME Ends(r)
      PROVE  /\ row # Null /\ x.written[t] # Null /\ x.written[t].notes = tasks[t].notes
             /\ row = x.written[t] /\ row \in TaskRow
  <2>1. y.object[t] = y.loaded[t]
    BY <1>1, <1>3 DEF Dirty
  <2>2. y.written[t] # Null /\ y.written[t].notes = tasks[t].notes
    BY <1>1, <1>5, <2>1 DEF NotesKnown
  <2>3. row = y.written[t] /\ row \in TaskRow
    BY <1>1, <1>3, <2>2 DEF Visible, Locks, SessionState
  <2> QED
    BY <1>4, <2>2, <2>3
<1>6. ASSUME Ends(r)
      PROVE  /\ noted.notes = row.notes + Added(r)
             /\ ~r.note => noted = row
             /\ r.note => noted # row
  BY <1>3, <1>5, <1>6 DEF TaskRow, Added
<1> HIDE DEF x, y, r, row, noted
<1>7. NotesKnown(x, tasks)
  BY <1>3, <1>4, <1>5, <1>6 DEF NotesKnown
<1> QED
  BY <1>2, <1>7, NotesFrame

\* The end of a session.
LEMMA IdleNotes ==
  ASSUME Inv, NotesInv, NEW s \in Sessions, session' = [session EXCEPT ![s] = Idle],
         \A t \in Tasks : \/ tasks'[t] = tasks[t]
                          \/ tasks[t] = Null
                          \/ t \in Locks(s)
  PROVE  NotesInv'
<1>1. NotesKnown(Idle, tasks')
  BY NotesUnknown DEF Idle, Nothing
<1> QED
  BY <1>1, NotesFrame

\* The notes stay known in every step.
LEMMA NotesStep == Inv /\ NotesInv /\ [Next]_vars => NotesInv'
<1> SUFFICES ASSUME Inv, NotesInv, [Next]_vars PROVE NotesInv'
  OBVIOUS
<1>1. CASE UNCHANGED vars
  BY <1>1 DEF vars, NotesInv
<1>2. ASSUME NEW s \in Sessions, NEW r \in Requests, Begin(s, r) PROVE NotesInv'
  <2> DEFINE x == [Idle EXCEPT !.step = "load", !.request = r]
  <2>1. x.step = "load" /\ \A v \in Tasks : x.written[v] = Null
    BY DEF Idle, Nothing
  <2>2. session' = [session EXCEPT ![s] = x] /\ UNCHANGED tasks
    BY <1>2 DEF Begin
  <2> HIDE DEF x
  <2>3. NotesKnown(x, tasks')
    BY <2>1, NotesUnknown
  <2> QED
    BY <2>2, <2>3, NotesFrame
<1>3. ASSUME NEW s \in Sessions, Rollback(s) PROVE NotesInv'
  BY <1>3, IdleNotes DEF Rollback
<1>4. ASSUME NEW s \in Sessions, CreateTask(s) PROVE NotesInv'
  <2>1. \A t \in Tasks : tasks'[t] = tasks[t] \/ tasks[t] = Null
    BY <1>4 DEF CreateTask, Inv, TableInv
  <2> QED
    BY <1>4, <2>1, IdleNotes DEF CreateTask
<1>5. ASSUME NEW s \in Sessions, Commit(s) PROVE NotesInv'
  <2>1. \A t \in Tasks : tasks'[t] = tasks[t] \/ t \in Locks(s)
    BY <1>5 DEF Commit, Visible
  <2> QED
    BY <1>5, <2>1, IdleNotes DEF Commit
<1>6. ASSUME NEW s \in Sessions, Step(s) PROVE NotesInv'
  BY <1>3, <1>4, <1>5, <1>6, LoadTaskNotes, LoadTasksNotes, WriteTaskNotes, RefreshNotes
     DEF Step, RejectTask, CheckViolated
<1> QED
  BY <1>1, <1>2, <1>3, <1>6 DEF Next, Abandon

\* The note of a completion or cancellation is added to the notes committed by
\* then, whatever other requests append or clear in between, for any number of
\* tasks, sessions and requests: although notes are read, extended and written
\* back, none is lost.
THEOREM NotesAreAppended == Spec => NotesAppended
<1> DEFINE Appended(s) ==
             LET r == Request(s) IN
             Commits(s) /\ r.op \in {"complete_task", "cancel_task"}
               => \/ tasks' = tasks
                  \/ tasks'[r.task].notes = tasks[r.task].notes + (IF r.note THEN 1 ELSE 0)
<1>1. ASSUME Inv, NotesInv, [Next]_vars, NEW s \in Sessions
      PROVE  Appended(s)
  <2> SUFFICES ASSUME Commits(s), Ends(Request(s)), tasks' # tasks
               PROVE  tasks'[Request(s).task].notes
                        = tasks[Request(s).task].notes + Added(Request(s))
    BY DEF Ends, Added
  <2>1. session'[s] = Idle /\ session[s].step = "finish" /\ Dirty(s) = {}
        /\ Idle.step = "idle"
    BY DEF Commits, At, Idle
  <2>2. PICK u \in Sessions : CreateTask(u) \/ Commit(u)
    BY <1>1 DEF Next, Step, Begin, Abandon, Rollback, LoadTask, RejectTask, LoadTasks,
                WriteTask, CheckViolated, Refresh, vars
  <2>3. session' = [session EXCEPT ![u] = Idle]
    BY <2>2 DEF CreateTask, Commit
  <2>4. u = s
    BY <1>1, <2>1, <2>3 DEF Inv
  <2>5. Commit(s)
    BY <2>1, <2>2, <2>4 DEF CreateTask, At
  <2> DEFINE t == Request(s).task
  <2>6. NotesKnown(session[s], tasks) /\ Request(s) = session[s].request
    BY <1>1 DEF NotesInv, Request
  <2>7. t \in Tasks
    BY <2>1, <2>6 DEF NotesKnown
  <2>8. session[s].object[t] = session[s].loaded[t]
    BY <2>1, <2>7 DEF Dirty
  <2>9. session[s].written[t] # Null
        /\ session[s].written[t].notes = tasks[t].notes + Added(Request(s))
    BY <2>1, <2>6, <2>8 DEF NotesKnown
  <2>10. tasks'[t] = session[s].written[t]
    BY <2>5, <2>7, <2>9 DEF Commit, Visible, Locks
  <2> QED
    BY <2>9, <2>10
<1>2. Inv /\ NotesInv /\ [Next]_vars => [\A s \in Sessions : Appended(s)]_vars
  BY <1>1
<1>3. Init => NotesInv
  <2> SUFFICES ASSUME Init, NEW s \in Sessions PROVE NotesKnown(session[s], tasks)
    BY DEF NotesInv
  <2>1. session[s] = Idle
    BY DEF Init
  <2> QED
    BY <2>1, NotesUnknown DEF Idle, Nothing
<1> QED
  BY <1>2, <1>3, InvInit, InvStep, NotesStep, PTL DEF Spec, NotesAppended
----------------------------------------------------------------------------
(* Waiting for locks.  Every session locks rows in key order, so the row   *)
(* that one waits for in a circle would be greater than the one before it. *)

\* What session x has locked, against what it has left to update.
OrderedLocks(x) ==
  /\ x.step \in {"idle", "load"} => \A t \in Tasks : x.written[t] = Null
  /\ x.step \in {"write", "finish"} /\ x.request.op \in SingleOps =>
       \A t \in Tasks \ {x.request.task} :
         x.written[t] = Null /\ x.object[t] = x.loaded[t]
  /\ x.step \in {"write", "finish"} /\ x.request.op \notin SingleOps =>
       \A t, u \in Tasks :
         x.written[t] # Null /\ x.object[u] # x.loaded[u] => t <= u

OrderInv == \A s \in Sessions : OrderedLocks(session[s])

\* A step of s that leaves its locks ordered leaves all locks ordered.
LEMMA OrderFrame ==
  ASSUME Inv, OrderInv, NEW s \in Sessions, NEW x, OrderedLocks(x),
         session' = [session EXCEPT ![s] = x]
  PROVE  OrderInv'
BY DEF Inv, OrderInv

\* A session that has not loaded anything has locked nothing.
LEMMA OrderUnlocked ==
  ASSUME NEW x, x.step \in {"idle", "load"}, \A t \in Tasks : x.written[t] = Null
  PROVE  OrderedLocks(x)
BY DEF OrderedLocks

LEMMA OrderIdle == OrderedLocks(Idle)
BY OrderUnlocked DEF Idle, Nothing

\* Selecting rows locks none, and a single-task handler selects its own.
LEMMA SelectedOrder ==
  ASSUME Inv, OrderInv, NEW s \in Sessions, NEW ts \in SUBSET Tasks,
         NEW step \in {"write", "finish"}, At(s, "load"),
         session' = Selected(s, ts, step),
         Request(s).op \in SingleOps => ts = {Request(s).task}
  PROVE  OrderInv'
<1> DEFINE loaded == [t \in Tasks |-> IF t \in ts THEN tasks[t] ELSE Null]
           object == [t \in Tasks |-> IF t \in ts THEN Assigned(tasks[t], Request(s).set)
                                                  ELSE Null]
           x == [session[s] EXCEPT !.step = step, !.loaded = loaded, !.object = object]
<1>1. session[s] \in SessionState /\ OrderedLocks(session[s])
  BY DEF Inv, OrderInv
<1>2. session' = [session EXCEPT ![s] = x]
  BY DEF Selected, Inv
<1>3. /\ x.request = Request(s) /\ x.step = step
      /\ x.loaded = loaded /\ x.object = object /\ x.written = session[s].written
  BY <1>1 DEF SessionState, Request
<1>4. \A t \in Tasks : x.written[t] = Null
  BY <1>1, <1>3 DEF OrderedLocks, At
<1>5. \A t \in Tasks \ ts : x.object[t] = x.loaded[t]
  BY <1>3
<1> HIDE DEF x, loaded, object
<1>6. OrderedLocks(x)
  BY <1>3, <1>4, <1>5 DEF OrderedLocks
<1> QED BY <1>2, <1>6, OrderFrame

\* The least row that is dirty is locked next: it is above those locked, and
\* below those left.
LEMMA WriteTaskOrder ==
  ASSUME Inv, OrderInv, NEW s \in Sessions, WriteTask(s)
  PROVE  OrderInv'
<1>1. PICK t \in NextUpdates(s) :
        session' = [session EXCEPT ![s].loaded[t] = session[s].object[t],
                                   ![s].written[t] = Image(s, t)]
  BY DEF WriteTask
<1> DEFINE x == [session[s] EXCEPT !.loaded[t] = session[s].object[t],
                                   !.written[t] = Image(s, t)]
<1>2. t \in Tasks /\ session[s].object[t] # session[s].loaded[t]
  BY DEF NextUpdates, Dirty
<1>3. \A u \in Tasks : session[s].object[u] # session[s].loaded[u] => t <= u
  BY DEF NextUpdates, Dirty
<1>4. session[s] \in SessionState /\ OrderedLocks(session[s])
  BY DEF Inv, OrderInv
<1>5. \A v \in Tasks :
        /\ x.loaded[v] = (IF v = t THEN session[s].object[t] ELSE session[s].loaded[v])
        /\ x.written[v] = (IF v = t THEN Image(s, t) ELSE session[s].written[v])
        /\ x.object[v] = session[s].object[v]
  BY <1>4 DEF SessionState
<1>6. x.step = session[s].step /\ x.request = session[s].request
      /\ x.step \in {"write", "finish"}
  BY <1>4 DEF SessionState, WriteTask
<1>7. session' = [session EXCEPT ![s] = x]
  BY <1>1, <1>4 DEF Inv, SessionState
<1> HIDE DEF x
<1>8. CASE x.request.op \in SingleOps
  <2>1. t = x.request.task
    BY <1>2, <1>4, <1>6, <1>8 DEF OrderedLocks
  <2>2. \A v \in Tasks \ {t} : x.written[v] = Null /\ x.object[v] = x.loaded[v]
    BY <1>4, <1>5, <1>6, <1>8, <2>1 DEF OrderedLocks
  <2>3. OrderedLocks(x)
    BY <1>6, <1>8, <2>1, <2>2 DEF OrderedLocks
  <2> QED BY <1>7, <2>3, OrderFrame
<1>9. CASE x.request.op \notin SingleOps
  <2>1. ASSUME NEW v \in Tasks, NEW u \in Tasks,
               x.written[v] # Null, x.object[u] # x.loaded[u]
        PROVE  v <= u
    <3>1. u # t /\ session[s].object[u] # session[s].loaded[u]
      BY <1>5, <2>1
    <3>2. CASE v = t
      BY <1>3, <3>1, <3>2
    <3>3. CASE v # t
      BY <1>4, <1>5, <1>6, <1>9, <2>1, <3>1, <3>3 DEF OrderedLocks
    <3> QED BY <3>2, <3>3
  <2> QED BY <1>6, <1>7, <1>9, <2>1, OrderFrame DEF OrderedLocks
<1> QED BY <1>8, <1>9

\* Only a single-task handler refreshes, and its own row.
LEMMA RefreshOrder ==
  ASSUME Inv, OrderInv, NEW s \in Sessions, Refresh(s)
  PROVE  OrderInv'
<1> DEFINE t == Request(s).task
           row == Visible(s, t)
           appended == IF Request(s).note THEN row.notes + 1 ELSE row.notes
           noted == [row EXCEPT !.notes = appended]
           x == [session[s] EXCEPT !.step = "finish", !.loaded[t] = row, !.object[t] = noted]
<1>1. session[s] \in SessionState /\ OrderedLocks(session[s])
  BY DEF Inv, OrderInv
<1>2. session[s].step = "write" /\ session[s].request.op \in SingleOps
  BY DEF Refresh, At, Inv, SessionInv
<1>3. \A v \in Tasks \ {t} : /\ x.loaded[v] = session[s].loaded[v]
                             /\ x.object[v] = session[s].object[v]
                             /\ x.written[v] = session[s].written[v]
  BY <1>1 DEF SessionState
<1>4. x.step = "finish" /\ x.request = session[s].request /\ t = session[s].request.task
  BY <1>1 DEF SessionState, Request
<1>5. session' = [session EXCEPT ![s] = x]
  BY <1>1 DEF Inv, Refresh, Refreshed, SessionState
<1> HIDE DEF x
<1>6. OrderedLocks(x)
  BY <1>1, <1>2, <1>3, <1>4 DEF OrderedLocks
<1> QED BY <1>5, <1>6, OrderFrame

\* The locks stay ordered in every step.
LEMMA OrderStep == Inv /\ OrderInv /\ [Next]_vars => OrderInv'
<1> SUFFICES ASSUME Inv, OrderInv, [Next]_vars PROVE OrderInv'
  OBVIOUS
<1>1. CASE UNCHANGED vars
  BY <1>1 DEF vars, OrderInv
<1>2. ASSUME NEW s \in Sessions, NEW r \in Requests, Begin(s, r) PROVE OrderInv'
  <2> DEFINE x == [Idle EXCEPT !.step = "load", !.request = r]
  <2>1. x.step = "load" /\ \A t \in Tasks : x.written[t] = Null
    BY DEF Idle, Nothing
  <2>2. session' = [session EXCEPT ![s] = x]
    BY <1>2 DEF Begin
  <2> HIDE DEF x
  <2>3. OrderedLocks(x)
    BY <2>1, OrderUnlocked
  <2> QED BY <2>2, <2>3, OrderFrame
<1>3. ASSUME NEW s \in Sessions, session' = [session EXCEPT ![s] = Idle] PROVE OrderInv'
  BY <1>3, OrderIdle, OrderFrame
<1>4. ASSUME NEW s \in Sessions, LoadTask(s) PROVE OrderInv'
  <2>1. Request(s) \in Requests
    BY <1>4, RequestOf DEF LoadTask, At
  <2>2. Request(s).task \in Tasks
    BY <1>4, <2>1, RequestsAssumption DEF LoadTask, ValidRequest, SingleOps, BulkOps
  <2> QED BY <1>4, <2>2, SelectedOrder DEF LoadTask
<1>5. ASSUME NEW s \in Sessions, LoadTasks(s) PROVE OrderInv'
  <2> DEFINE found == {t \in Request(s).tasks : tasks[t] # Null /\ ~tasks[t].deleted}
  <2>1. Request(s) \in Requests
    BY <1>5, RequestOf DEF LoadTasks, At
  <2>2. found \in SUBSET Tasks /\ Request(s).op \notin SingleOps
    BY <1>5, <2>1, RequestsAssumption DEF LoadTasks, ValidRequest, SingleOps, BulkOps
  <2> HIDE DEF found
  <2>3. At(s, "load") /\ session' = Selected(s, found, "finish")
    BY <1>5 DEF LoadTasks, found
  <2> QED BY <2>2, <2>3, SelectedOrder
<1> QED
  BY <1>1, <1>2, <1>3, <1>4, <1>5, WriteTaskOrder, RefreshOrder
  DEF Next, Step, Abandon, Rollback, RejectTask, CreateTask, CheckViolated, Commit

\* The row that a session waits for, and among open the sessions that wait for
\* a greater one.
NextUpdate(s) == CHOOSE t \in NextUpdates(s) : TRUE
Above(open, s) ==
  {u \in open : NextUpdates(u) # {} /\ NextUpdate(u) > NextUpdate(s)}

\* A session has one row to update next.
LEMMA NextUpdateUnique ==
  ASSUME NEW s, NEW t \in NextUpdates(s)
  PROVE  t = NextUpdate(s) /\ NextUpdate(s) \in Dirty(s) /\ t \in Nat
<1>1. NextUpdate(s) \in NextUpdates(s)
  BY DEF NextUpdate
<1>2. t \in Dirty(s) /\ NextUpdate(s) \in Dirty(s) /\ t <= NextUpdate(s) /\ NextUpdate(s) <= t
  BY <1>1 DEF NextUpdates
<1>3. t \in Nat /\ NextUpdate(s) \in Nat
  BY <1>2, TasksAssumption DEF Dirty
<1> QED BY <1>2, <1>3

\* Who is waited for updates no lesser row next.
LEMMA WaitsUpwards ==
  ASSUME Inv, OrderInv, NEW s \in Sessions, NEW u \in Sessions, Waits(s, u),
         NextUpdates(u) # {}
  PROVE  NextUpdate(s) \in Locks(u) /\ NextUpdate(s) <= NextUpdate(u)
<1>1. PICK t \in NextUpdates(s) : t \in Locks(u)
  BY DEF Waits
<1>2. t = NextUpdate(s) /\ t \in Nat
  BY <1>1, NextUpdateUnique
<1>3. PICK v \in NextUpdates(u) : v = NextUpdate(u) /\ v \in Dirty(u) /\ v \in Nat
  BY NextUpdateUnique
<1>4. t \in Tasks /\ session[u].written[t] # Null
  BY <1>1 DEF Locks
<1>5. v \in Tasks /\ session[u].object[v] # session[u].loaded[v]
  BY <1>3 DEF Dirty
<1>6. OrderedLocks(session[u]) /\ session[u] \in SessionState
  BY DEF Inv, OrderInv
<1>7. session[u].step \in {"write", "finish"}
  BY <1>4, <1>6 DEF OrderedLocks, SessionState
<1>8. t <= v
  <2>1. CASE session[u].request.op \in SingleOps
    BY <1>2, <1>4, <1>5, <1>6, <1>7, <2>1 DEF OrderedLocks
  <2>2. CASE session[u].request.op \notin SingleOps
    BY <1>4, <1>5, <1>6, <1>7, <2>2 DEF OrderedLocks
  <2> QED BY <2>1, <2>2
<1> QED BY <1>1, <1>2, <1>3, <1>8

\* Where each of several sessions waits for another of them, each waits for
\* one that waits for a greater row: the row it waits for is locked once.
LEMMA WaitsForGreater ==
  ASSUME Inv, OrderInv, NEW s \in Sessions, NEW u \in Sessions, NEW v \in Sessions,
         Waits(s, u), Waits(u, v), NextUpdates(v) # {}
  PROVE  NextUpdate(s) < NextUpdate(u)
<1>1. NextUpdates(s) # {} /\ NextUpdates(u) # {} /\ u # v
  BY DEF Waits
<1>2. NextUpdate(s) \in Locks(u) /\ NextUpdate(s) <= NextUpdate(u)
  BY <1>1, WaitsUpwards
<1>3. NextUpdate(u) \in Locks(v)
  BY <1>1, WaitsUpwards
<1>4. NextUpdate(s) # NextUpdate(u)
  BY <1>1, <1>2, <1>3 DEF Inv, Exclusive, Locks
<1>5. NextUpdate(s) \in Nat /\ NextUpdate(u) \in Nat
  BY <1>1, NextUpdateUnique
<1> QED BY <1>2, <1>4, <1>5

\* Ordered locks leave no circle.
LEMMA OrderedLocksFree == Inv /\ OrderInv => NoWaitCircle
<1> SUFFICES ASSUME Inv, OrderInv, NEW open \in SUBSET Sessions, open # {},
                    IsFiniteSet(open), \A s \in open : \E u \in open : Waits(s, u)
             PROVE  FALSE
  BY DEF NoWaitCircle
<1> DEFINE Sets == {Above(open, s) : s \in open}
<1>1. Sets \subseteq FiniteSubsetsOf(open) /\ Sets # {}
  <2>1. ASSUME NEW s \in open
        PROVE  Above(open, s) \in SUBSET open /\ IsFiniteSet(Above(open, s))
    BY FS_Subset DEF Above
  <2> QED BY <2>1 DEF FiniteSubsetsOf
<1>2. PICK least \in Sets : \A other \in Sets : <<other, least>> \notin StrictSubsetOrdering(open)
  BY <1>1, WFMin, FS_StrictSubsetOrderingWellFounded
<1>3. PICK s \in open : least = Above(open, s)
  BY <1>2
<1>4. PICK u \in open : Waits(s, u)
  BY <1>3
<1>5. PICK v \in open : Waits(u, v)
  BY <1>4
<1>6. NextUpdates(s) # {} /\ NextUpdates(u) # {} /\ NextUpdates(v) # {}
  BY <1>4, <1>5 DEF Waits
<1>7. NextUpdate(s) < NextUpdate(u)
  BY <1>4, <1>5, <1>6, WaitsForGreater
<1>8. \A w \in Sessions : NextUpdates(w) # {} => NextUpdate(w) \in Nat
  BY NextUpdateUnique
<1>9. Above(open, u) \subseteq Above(open, s) /\ u \in Above(open, s) /\ u \notin Above(open, u)
  BY <1>6, <1>7, <1>8 DEF Above
<1>10. <<Above(open, u), least>> \in StrictSubsetOrdering(open)
  <2> DEFINE pair == <<Above(open, u), least>>
  <2>1. pair \in (SUBSET open) \X (SUBSET open) /\ pair[1] = Above(open, u) /\ pair[2] = least
    BY <1>3 DEF Above
  <2> HIDE DEF pair
  <2>2. pair \in StrictSubsetOrdering(open)
    BY <1>3, <1>9, <2>1 DEF StrictSubsetOrdering
  <2> QED BY <2>2 DEF pair
<1> QED BY <1>2, <1>10

\* Requests never deadlock over the rows they update, however many they are
\* and whatever they ask for: the unit of work updates rows in key order.
THEOREM RequestsDoNotDeadlock == Spec => []NoWaitCircle
<1>1. Init => OrderInv
  BY OrderIdle DEF Init, OrderInv
<1> QED BY <1>1, InvInit, InvStep, OrderStep, OrderedLocksFree, PTL DEF Spec
----------------------------------------------------------------------------
(* The scheduler.                                                          *)

\* start and stop are called one after the other, as in a lifespan handler.
SerialCalls == \A c, d \in Callers : c = d

\* A nonempty set of numbers has a least one.
LEMMA LeastExists ==
  ASSUME NEW S, S \subseteq Nat, S # {}
  PROVE  Least(S) \in S /\ \A u \in S : Least(S) <= u
<1> DEFINE R == OpToRel(<, Nat)
<1>1. PICK x \in S : \A y \in S : <<y, x>> \notin R
  BY NatLessThanWellFounded, WFMin
<1>2. \A y \in S : ~(y < x)
  BY <1>1 DEF OpToRel
<1>3. \A y \in S : x <= y
  BY <1>2
<1> QED BY <1>3 DEF Least

\* A loop that goes on sweeping is at a task of its batch that is not in the
\* cache.
LEMMA SweepingFresh ==
  ASSUME NEW batch \in SUBSET Tasks, NEW cache
  PROVE  /\ Sweeping(batch, cache) \in LoopState
         /\ Sweeping(batch, cache).at \in {"waiting", "dispatch"}
         /\ Sweeping(batch, cache).at = "dispatch" =>
              /\ Sweeping(batch, cache).batch # {}
              /\ Least(Sweeping(batch, cache).batch) \notin cache
<1> DEFINE rest == {t \in batch : \E u \in batch \ cache : u <= t}
<1>1. CASE rest = {}
  BY <1>1 DEF Sweeping, LoopAt, LoopState
<1>2. CASE rest # {}
  <2>1. Sweeping(batch, cache) = [at |-> "dispatch", batch |-> rest]
    BY <1>2 DEF Sweeping
  <2>2. rest \subseteq Nat /\ rest \subseteq Tasks
    BY TasksAssumption
  <2>3. Least(rest) \in rest /\ \A u \in rest : Least(rest) <= u
    BY <1>2, <2>2, LeastExists
  <2>4. PICK u \in batch \ cache : u <= Least(rest)
    BY <2>3
  <2>5. u \in rest /\ u \in Nat /\ Least(rest) \in Nat
    BY <2>2, <2>3, <2>4, TasksAssumption
  <2>6. u = Least(rest)
    BY <2>3, <2>4, <2>5
  <2> HIDE DEF rest
  <2> QED BY <1>2, <2>1, <2>2, <2>4, <2>6 DEF LoopState
<1> QED BY <1>1, <1>2

\* Remembering a task keeps the cache within its size.
LEMMA RememberedBounded ==
  ASSUME NEW cache \in SUBSET Tasks, Cardinality(cache) <= CacheSize, NEW t \in Tasks
  PROVE  /\ Remembered(cache, t) \in SUBSET Tasks
         /\ Cardinality(Remembered(cache, t)) <= CacheSize
<1>1. IsFiniteSet(cache) /\ Cardinality(cache) \in Nat
  BY FS_Subset, FS_CardinalityType, BacklogAssumption
<1>2. CASE Cardinality(cache) >= CacheSize
  <2>1. Remembered(cache, t) = {t}
    BY <1>2 DEF Remembered
  <2>2. Cardinality({t}) = 1
    BY FS_Singleton
  <2>3. 1 <= CacheSize
    BY SizesAssumption
  <2> QED BY <2>1, <2>2, <2>3
<1>3. CASE ~(Cardinality(cache) >= CacheSize)
  <2>1. Remembered(cache, t) = cache \cup {t}
    BY <1>3 DEF Remembered
  <2>2. Cardinality(cache \cup {t}) = IF t \in cache THEN Cardinality(cache)
                                                  ELSE Cardinality(cache) + 1
    BY <1>1, FS_AddElement, Zenon
  <2> QED BY <1>1, <1>3, <2>1, <2>2, SizesAssumption
<1> QED BY <1>2, <1>3
----------------------------------------------------------------------------
(* Types.                                                                  *)

\* Every loop action replaces one loop by one of these.
LEMMA LoopStates ==
  \A at \in {"waiting", "error", "unwinding", "done", "failed"} : LoopAt(at) \in LoopState
BY DEF LoopAt, LoopState

\* A loop that starts is a coroutine there is room for.
LEMMA FreshUnused ==
  ASSUME NEW k \in Kinds, Unused(k) # {}
  PROVE  Fresh(k) \in Coroutines /\ Fresh(k) \in Unused(k)
BY DEF Fresh, Unused

\* Replacing one loop by a loop keeps the types.
LEMMA LoopType ==
  ASSUME SchedulerTypeOK, NEW k \in Kinds, NEW l \in Coroutines, NEW x \in LoopState,
         loop' = [loop EXCEPT ![k][l] = x], UNCHANGED <<due, handle, stopping, stop>>,
         seen' \in [Kinds -> SUBSET Tasks], \A j \in Kinds : Cardinality(seen'[j]) <= CacheSize
  PROVE  SchedulerTypeOK'
BY DEF SchedulerTypeOK

\* Steps of a loop keep the types.
LEMMA LoopStepType ==
  ASSUME SchedulerTypeOK, NEW k \in Kinds, NEW l \in Coroutines,
         LoopStep(k, l) \/ FetchFails(k, l)
  PROVE  SchedulerTypeOK'
<1>1. CASE Tick(k, l)
  <2>1. Fetched(k) \in SUBSET Tasks
    BY DEF SchedulerTypeOK, Fetched
  <2> DEFINE x == IF stopping THEN LoopAt("done") ELSE Sweeping(Fetched(k), seen[k])
  <2>2. x \in LoopState
    BY <2>1, LoopStates, SweepingFresh
  <2> QED BY <1>1, <2>2, LoopType DEF Tick, SchedulerTypeOK
<1>2. CASE FetchFails(k, l)
  BY <1>2, LoopStates, LoopType DEF FetchFails, SchedulerTypeOK
<1>3. ASSUME NEW t \in Tasks, Dispatched(k, l, t) PROVE SchedulerTypeOK'
  <2>1. /\ seen[k] \in SUBSET Tasks /\ Cardinality(seen[k]) <= CacheSize
        /\ loop[k][l].batch \ {t} \in SUBSET Tasks
    BY DEF SchedulerTypeOK, LoopState
  <2>2. Sweeping(loop[k][l].batch \ {t}, Remembered(seen[k], t)) \in LoopState
    BY <2>1, SweepingFresh
  <2>3. /\ seen' \in [Kinds -> SUBSET Tasks]
        /\ \A j \in Kinds : Cardinality(seen'[j]) <= CacheSize
    BY <1>3, <2>1, RememberedBounded DEF Dispatched, SchedulerTypeOK
  <2> QED BY <1>3, <2>2, <2>3, LoopType DEF Dispatched
<1>4. CASE DispatchFails(k, l)
  BY <1>4, LoopStates, LoopType DEF DispatchFails, SchedulerTypeOK
<1>5. ASSUME NEW outcome \in {"waiting", "failed"}, Report(k, l, outcome)
      PROVE  SchedulerTypeOK'
  BY <1>5, LoopStates, LoopType DEF Report, SchedulerTypeOK
<1>6. ASSUME NEW outcome \in {"done", "error"}, Unwind(k, l, outcome)
      PROVE  SchedulerTypeOK'
  BY <1>6, LoopStates, LoopType DEF Unwind, SchedulerTypeOK
<1> QED BY <1>1, <1>2, <1>3, <1>4, <1>5, <1>6 DEF LoopStep

\* Starting and stopping keep the types.
LEMMA CallType ==
  ASSUME SchedulerTypeOK, NEW c \in Callers,
         Start(c) \/ Stop(c) \/ StopAtOnce(c) \/ StopReturns(c) \/ StopRaises(c)
  PROVE  SchedulerTypeOK'
<1>1. CASE Start(c)
  <2>1. \A k \in Kinds : Startable(k) => Fresh(k) \in Coroutines
    BY <1>1, FreshUnused DEF Start
  <2>2. handle' \in [Kinds -> Coroutines \cup {Null}]
    BY <1>1, <2>1 DEF Start, SchedulerTypeOK
  <2>3. loop' \in [Kinds -> [Coroutines -> LoopState]]
    BY <1>1, <2>1, LoopStates DEF Start, SchedulerTypeOK
  <2> QED BY <1>1, <2>2, <2>3 DEF Start, SchedulerTypeOK
<1>2. CASE Stop(c)
  <2>1. Cancelled \in [Kinds -> [Coroutines -> LoopState]]
    BY LoopStates DEF Cancelled, SchedulerTypeOK
  <2> QED BY <1>2, <2>1 DEF Stop, SchedulerTypeOK
<1>3. CASE StopAtOnce(c)
  BY <1>3 DEF StopAtOnce, SchedulerTypeOK
<1>4. CASE StopReturns(c)
  BY <1>4 DEF StopReturns, SchedulerTypeOK
<1>5. CASE StopRaises(c)
  BY <1>5 DEF StopRaises, SchedulerTypeOK
<1> QED BY <1>1, <1>2, <1>3, <1>4, <1>5

\* Every step keeps the types.
LEMMA SchedulerTypeStep ==
  ASSUME SchedulerTypeOK, [SchedulerNext]_schedulerVars PROVE SchedulerTypeOK'
<1>1. CASE UNCHANGED schedulerVars
  BY <1>1 DEF schedulerVars, SchedulerTypeOK
<1>2. ASSUME NEW k \in Kinds, NEW t \in Tasks, BecomesDue(k, t) \/ NoLongerDue(k, t)
      PROVE  SchedulerTypeOK'
  BY <1>2 DEF BecomesDue, NoLongerDue, SchedulerTypeOK
<1> QED BY <1>1, <1>2, CallType, LoopStepType DEF SchedulerNext

\* The types hold initially.
LEMMA SchedulerTypeInit == SchedulerInit => SchedulerTypeOK
<1> SUFFICES ASSUME SchedulerInit PROVE SchedulerTypeOK
  OBVIOUS
<1>1. Cardinality({}) = 0 /\ 0 <= CacheSize
  BY FS_EmptySet, SizesAssumption
<1>2. \A k \in Kinds : seen[k] = {}
  BY DEF SchedulerInit
<1>3. \A k \in Kinds : Cardinality(seen[k]) <= CacheSize
  BY <1>1, <1>2
<1> QED BY <1>3, LoopStates DEF SchedulerInit, SchedulerTypeOK

\* The dedup caches never exceed their size, however many tasks are
\* dispatched between two trims.
THEOREM SchedulerTypeCorrect == SchedulerSpec => []SchedulerTypeOK
BY SchedulerTypeInit, SchedulerTypeStep, PTL DEF SchedulerSpec
----------------------------------------------------------------------------
(* Ownership.                                                              *)

\* While a stop is in progress the handles are those it has cancelled.
StopInv == \A c \in Callers : stop[c] # Null => stop[c] = handle

DispatchInv == \A k \in Kinds, l \in Coroutines : LoopIs(k, l, "dispatch") =>
                 /\ loop[k][l].batch # {}
                 /\ Least(loop[k][l].batch) \notin seen[k]

SchedulerInv == SchedulerTypeOK /\ LoopsOwned /\ StopInv /\ DispatchInv

\* A loop that moves on keeps the invariant: no other loop of its kind uses
\* the cache.
LEMMA LoopFrame ==
  ASSUME SchedulerInv, SchedulerTypeOK',
         NEW k \in Kinds, NEW l \in Coroutines, NEW x \in LoopState,
         loop' = [loop EXCEPT ![k][l] = x], Live(k, l), UNCHANGED <<handle, stop>>,
         x.at = "dispatch" => x.batch # {} /\ Least(x.batch) \notin seen'[k],
         \A j \in Kinds \ {k} : seen'[j] = seen[j]
  PROVE  SchedulerInv'
<1>1. loop'[k][l] = x /\ \A j \in Kinds, m \in Coroutines :
        j # k \/ m # l => loop'[j][m] = loop[j][m]
  BY DEF SchedulerInv, SchedulerTypeOK
<1>2. handle[k] = l
  BY DEF SchedulerInv, LoopsOwned
<1>3. LoopsOwned'
  BY <1>1, <1>2 DEF SchedulerInv, LoopsOwned, Live
<1>4. StopInv'
  BY DEF SchedulerInv, StopInv
<1>5. \A m \in Coroutines : m # l => ~Live(k, m)
  BY <1>2 DEF SchedulerInv, LoopsOwned
<1>6. DispatchInv'
  BY <1>1, <1>5 DEF SchedulerInv, DispatchInv, LoopIs, Live
<1> QED BY <1>3, <1>4, <1>6 DEF SchedulerInv

\* Steps of a loop keep the invariant.
LEMMA LoopStepInv ==
  ASSUME SchedulerInv, NEW k \in Kinds, NEW l \in Coroutines,
         LoopStep(k, l) \/ FetchFails(k, l)
  PROVE  SchedulerInv'
<1>1. SchedulerTypeOK' /\ SchedulerTypeOK
  BY LoopStepType DEF SchedulerInv
<1>2. CASE Tick(k, l)
  <2> DEFINE x == IF stopping THEN LoopAt("done") ELSE Sweeping(Fetched(k), seen[k])
  <2>1. Fetched(k) \in SUBSET Tasks
    BY <1>1 DEF SchedulerTypeOK, Fetched
  <2>2. x \in LoopState /\ (x.at = "dispatch" => x.batch # {} /\ Least(x.batch) \notin seen[k])
    BY <2>1, LoopStates, SweepingFresh DEF LoopAt
  <2>3. Live(k, l) /\ loop' = [loop EXCEPT ![k][l] = x]
        /\ UNCHANGED <<seen, handle, stop>>
    BY <1>2 DEF Tick, LoopIs, Live
  <2> HIDE DEF x
  <2> QED BY <1>1, <2>2, <2>3, LoopFrame
<1>3. CASE FetchFails(k, l)
  BY <1>1, <1>3, LoopStates, LoopFrame DEF FetchFails, LoopIs, Live, LoopAt
<1>4. ASSUME NEW t \in Tasks, Dispatched(k, l, t) PROVE SchedulerInv'
  <2> DEFINE x == Sweeping(loop[k][l].batch \ {t}, Remembered(seen[k], t))
  <2>1. loop[k][l].batch \ {t} \in SUBSET Tasks
    BY <1>1 DEF SchedulerTypeOK, LoopState
  <2>2. seen'[k] = Remembered(seen[k], t) /\ \A j \in Kinds \ {k} : seen'[j] = seen[j]
    BY <1>1, <1>4 DEF Dispatched, SchedulerTypeOK
  <2>3. x \in LoopState /\ (x.at = "dispatch" => x.batch # {} /\ Least(x.batch) \notin seen'[k])
    BY <2>1, <2>2, SweepingFresh
  <2>4. Live(k, l) /\ loop' = [loop EXCEPT ![k][l] = x]
        /\ UNCHANGED <<handle, stop>>
    BY <1>4 DEF Dispatched, LoopIs, Live
  <2> HIDE DEF x
  <2> QED BY <1>1, <2>2, <2>3, <2>4, LoopFrame
<1>5. CASE DispatchFails(k, l)
  BY <1>1, <1>5, LoopStates, LoopFrame DEF DispatchFails, LoopIs, Live, LoopAt
<1>6. ASSUME NEW outcome \in {"waiting", "failed"}, Report(k, l, outcome) PROVE SchedulerInv'
  <2>1. LoopAt(outcome) \in LoopState /\ LoopAt(outcome).at # "dispatch"
    BY LoopStates DEF LoopAt
  <2>2. Live(k, l) /\ loop' = [loop EXCEPT ![k][l] = LoopAt(outcome)]
        /\ UNCHANGED <<seen, handle, stop>>
    BY <1>6 DEF Report, LoopIs, Live
  <2> QED BY <1>1, <2>1, <2>2, LoopFrame
<1>7. ASSUME NEW outcome \in {"done", "error"}, Unwind(k, l, outcome) PROVE SchedulerInv'
  <2>1. LoopAt(outcome) \in LoopState /\ LoopAt(outcome).at # "dispatch"
    BY LoopStates DEF LoopAt
  <2>2. Live(k, l) /\ loop' = [loop EXCEPT ![k][l] = LoopAt(outcome)]
        /\ UNCHANGED <<seen, handle, stop>>
    BY <1>7 DEF Unwind, LoopIs, Live
  <2> QED BY <1>1, <2>1, <2>2, LoopFrame
<1> QED BY <1>2, <1>3, <1>4, <1>5, <1>6, <1>7 DEF LoopStep

\* Starting and stopping keep the invariant, if they are called serially.
LEMMA CallInv ==
  ASSUME SerialCalls, SchedulerInv, NEW c \in Callers,
         Start(c) \/ Stop(c) \/ StopAtOnce(c) \/ StopReturns(c) \/ StopRaises(c)
  PROVE  SchedulerInv'
<1>1. SchedulerTypeOK' /\ SchedulerTypeOK
  BY CallType DEF SchedulerInv
<1>2. \A d \in Callers : d = c
  BY DEF SerialCalls
<1>3. CASE Start(c)
  <2>1. StopInv'
    BY <1>2, <1>3 DEF Start, StopInv
  <2>2. ASSUME NEW k \in Kinds, Startable(k)
        PROVE  /\ Fresh(k) \in Coroutines /\ handle'[k] = Fresh(k)
               /\ loop'[k] = [loop[k] EXCEPT ![Fresh(k)] = LoopAt("waiting")]
               /\ \A l \in Coroutines : ~Live(k, l)
    <3>1. Fresh(k) \in Coroutines
      BY <1>3, <2>2, FreshUnused DEF Start
    <3>2. /\ handle'[k] = Fresh(k)
          /\ loop'[k] = [loop[k] EXCEPT ![Fresh(k)] = LoopAt("waiting")]
      BY <1>3, <2>2 DEF Start
    <3>3. \A l \in Coroutines : ~Live(k, l)
      BY <2>2, HandlesAssumption DEF Startable, SchedulerInv, LoopsOwned
    <3> QED BY <3>1, <3>2, <3>3
  <2>3. ASSUME NEW k \in Kinds, ~Startable(k)
        PROVE  handle'[k] = handle[k] /\ loop'[k] = loop[k]
    BY <1>3, <2>3 DEF Start
  <2>4. ASSUME NEW k \in Kinds, NEW l \in Coroutines, Live(k, l)'
        PROVE  handle'[k] = l
    <3>1. CASE Startable(k)
      <4>1. loop[k] \in [Coroutines -> LoopState]
        BY <1>1 DEF SchedulerTypeOK
      <4> QED BY <2>2, <2>4, <3>1, <4>1 DEF Live
    <3>2. CASE ~Startable(k)
      BY <2>3, <2>4, <3>2 DEF Live, SchedulerInv, LoopsOwned
    <3> QED BY <3>1, <3>2
  <2>5. LoopsOwned'
    BY <2>4 DEF LoopsOwned
  <2>6. DispatchInv'
    BY <1>1, <1>3, <2>2, <2>3 DEF DispatchInv, LoopIs, Live, SchedulerInv, SchedulerTypeOK,
                                   LoopAt, Start
  <2> QED BY <1>1, <2>1, <2>5, <2>6 DEF SchedulerInv
<1>4. CASE Stop(c)
  <2>1. \A k \in Kinds, l \in Coroutines :
          \/ loop'[k][l] = loop[k][l] /\ ~Live(k, l)
          \/ loop'[k][l] = LoopAt("unwinding") /\ Live(k, l) /\ handle[k] = l
    BY <1>4 DEF Stop, Cancelled, SchedulerInv, LoopsOwned
  <2>2. handle' = handle /\ seen' = seen /\ \A d \in Callers : stop'[d] = handle
    BY <1>1, <1>2, <1>4 DEF Stop, SchedulerTypeOK
  <2>3. LoopsOwned'
    BY <2>1, <2>2 DEF LoopsOwned, Live
  <2>4. StopInv'
    BY <2>1, <2>2 DEF StopInv
  <2>5. DispatchInv'
    BY <2>1, <2>2 DEF DispatchInv, LoopIs, Live, LoopAt
  <2> QED BY <1>1, <2>3, <2>4, <2>5 DEF SchedulerInv
<1>5. CASE StopAtOnce(c)
  <2>1. LoopsOwned'
    BY <1>5, HandlesAssumption DEF StopAtOnce, LoopsOwned, SchedulerInv, Held, Live
  <2>2. StopInv'
    BY <1>2, <1>5 DEF StopAtOnce, StopInv
  <2>3. DispatchInv'
    BY <1>5 DEF StopAtOnce, DispatchInv, SchedulerInv, LoopIs
  <2> QED BY <1>1, <2>1, <2>2, <2>3 DEF SchedulerInv
<1>6. CASE StopReturns(c)
  <2>1. stop[c] = handle
    BY <1>6 DEF StopReturns, SchedulerInv, StopInv
  <2>2. \A k \in Kinds, l \in Coroutines : ~Live(k, l)
    BY <1>6, <2>1, HandlesAssumption DEF StopReturns, SchedulerInv, LoopsOwned,
                                             Awaited, LoopIs, Live
  <2>3. LoopsOwned'
    BY <1>6, <2>2 DEF StopReturns, LoopsOwned, Live
  <2>4. StopInv'
    BY <1>1, <1>2, <1>6 DEF StopReturns, StopInv, SchedulerTypeOK
  <2>5. DispatchInv'
    BY <1>6 DEF StopReturns, DispatchInv, SchedulerInv, LoopIs
  <2> QED BY <1>1, <2>3, <2>4, <2>5 DEF SchedulerInv
<1>7. CASE StopRaises(c)
  <2>1. StopInv'
    BY <1>1, <1>2, <1>7 DEF StopRaises, StopInv, SchedulerTypeOK
  <2>2. LoopsOwned' /\ DispatchInv'
    BY <1>7 DEF StopRaises, LoopsOwned, DispatchInv, SchedulerInv, LoopIs, Live
  <2> QED BY <1>1, <2>1, <2>2 DEF SchedulerInv
<1> QED BY <1>3, <1>4, <1>5, <1>6, <1>7

\* Every step keeps the invariant.
LEMMA SchedulerInvStep ==
  ASSUME SerialCalls, SchedulerInv, [SchedulerNext]_schedulerVars PROVE SchedulerInv'
<1>1. SchedulerTypeOK'
  BY SchedulerTypeStep DEF SchedulerInv
<1>2. CASE UNCHANGED schedulerVars
  BY <1>1, <1>2 DEF schedulerVars, SchedulerInv, LoopsOwned, StopInv, DispatchInv,
                       Live, LoopIs
<1>3. ASSUME NEW k \in Kinds, NEW t \in Tasks, BecomesDue(k, t) \/ NoLongerDue(k, t)
      PROVE  SchedulerInv'
  BY <1>1, <1>3 DEF BecomesDue, NoLongerDue, SchedulerInv, LoopsOwned, StopInv, DispatchInv,
                    Live, LoopIs
<1> QED BY <1>2, <1>3, CallInv, LoopStepInv DEF SchedulerNext

\* The invariant holds initially.
LEMMA SchedulerInvInit == SchedulerInit => SchedulerInv
BY SchedulerTypeInit
DEF SchedulerInit, SchedulerInv, LoopsOwned, StopInv, DispatchInv, Live, LoopIs, LoopAt

\* The invariant holds in every state.
LEMMA SchedulerInvHolds == SerialCalls => (SchedulerSpec => []SchedulerInv)
<1> SUFFICES ASSUME SerialCalls PROVE SchedulerSpec => []SchedulerInv
  OBVIOUS
<1>1. SchedulerInv /\ [SchedulerNext]_schedulerVars => SchedulerInv'
  BY SchedulerInvStep
<1> QED BY <1>1, SchedulerInvInit, PTL DEF SchedulerSpec

\* Loops are owned by their handles, across every start, stop, failure of a
\* loop and exception raised by stop.
THEOREM LoopsAreOwned == SerialCalls => (SchedulerSpec => []LoopsOwned)
<1>1. SchedulerInv => LoopsOwned
  BY DEF SchedulerInv
<1> QED BY <1>1, SchedulerInvHolds, PTL

\* There is never a second loop of a kind.
THEOREM LoopsAreUnique == SerialCalls => (SchedulerSpec => []NoDuplicateLoops)
<1>1. SchedulerInv => NoDuplicateLoops
  BY DEF SchedulerInv, LoopsOwned, NoDuplicateLoops
<1> QED BY <1>1, SchedulerInvHolds, PTL

\* A loop at a dispatch has not remembered the task yet.
THEOREM TasksAreDispatchedOnce == SerialCalls => (SchedulerSpec => []DispatchedOnce)
<1>1. SchedulerInv => DispatchedOnce
  BY DEF SchedulerInv, DispatchInv, DispatchedOnce
<1> QED BY <1>1, SchedulerInvHolds, PTL
============================================================================
