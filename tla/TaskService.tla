---------------------------- MODULE TaskService ----------------------------
(***************************************************************************)
(* TaskService and TaskRepository: requests that create, update, assign,   *)
(* complete, cancel, delete and restore tasks, one or several at once.     *)
(* Each request runs in a READ COMMITTED transaction of its own that the   *)
(* router commits.  The single-task handlers are                           *)
(*                                                                         *)
(*   load [write] refresh [write the note] commit                          *)
(*                                                                         *)
(* and the bulk handlers load and write several rows, then commit.  A row  *)
(* is locked from the first UPDATE of a session to its end; a flush emits  *)
(* an UPDATE only for an object that differs from what was loaded, so a    *)
(* request that assigns what is already there locks nothing.               *)
(***************************************************************************)
EXTENDS TaskTable

CONSTANTS Sessions,   \* database sessions that can be open at once
          Requests,   \* what clients may ask for
          SeedTasks,  \* the tasks committed before the first request
          Assignees,  \* users a task can be assigned to
          MaxNotes    \* bound: notes of a task when a request arrives

TaskStatus == {"PENDING", "IN_PROGRESS", "ON_HOLD", "COMPLETED", "CANCELLED"}
Terminal == {"COMPLETED", "CANCELLED"}

\* completed: completed_at is set; notes: how many notes meta_data holds.
TaskRow == [status: TaskStatus, completed: BOOLEAN, reminder: Nat \cup {Null},
            due: Nat \cup {Null}, assignee: Assignees \cup {Null},
            notes: Nat, deleted: BOOLEAN]

\* ck_tasks_completed_at_consistency and ck_tasks_reminder_before_due_date.
\* Mutant: the first of them is missing.
ChecksHold_OnlyReminder(row) ==
  Null \notin {row.reminder, row.due} => row.reminder <= row.due

ChecksHold(row) ==
  /\ row.completed <=> row.status = "COMPLETED"
  /\ Null \notin {row.reminder, row.due} => row.reminder <= row.due

SingleOps == {"update_task", "assign_task", "update_status", "complete_task",
              "cancel_task", "soft_delete_task", "restore_task"}
BulkOps == {"bulk_update_tasks", "bulk_soft_delete_tasks"}

\* The columns each operation assigns.
Assigns(op, set) ==
  CASE op \in {"update_task", "bulk_update_tasks"} ->
         /\ DOMAIN set \subseteq {"reminder", "due", "notes"}
         /\ "reminder" \in DOMAIN set => set.reminder \in Nat \cup {Null}
         /\ "due" \in DOMAIN set => set.due \in Nat \cup {Null}
         /\ "notes" \in DOMAIN set => set.notes = 0
    [] op = "assign_task" -> set \in [assignee: Assignees \cup {Null}]
    [] op = "update_status" -> set \in [status: TaskStatus \ Terminal]
    [] op = "complete_task" -> set \in [status: {"COMPLETED"}, completed: {TRUE}]
    [] op = "cancel_task" -> set \in [status: {"CANCELLED"}, completed: {FALSE}]
    [] op \in {"soft_delete_task", "bulk_soft_delete_tasks"} -> set \in [deleted: {TRUE}]
    [] op = "restore_task" -> set \in [deleted: {FALSE}]

ValidRequest(r) ==
  \/ r.op = "create_task" /\ r.row \in TaskRow /\ ChecksHold(r.row)
  \/ r.op \in SingleOps /\ r.task \in Tasks /\ r.note \in BOOLEAN /\ Assigns(r.op, r.set)
  \/ r.op \in BulkOps /\ r.tasks \subseteq Tasks /\ Assigns(r.op, r.set)

ASSUME NullAssumption == Null \notin TaskRow \cup Nat \cup Assignees
ASSUME RequestsAssumption ==
  Null \notin Requests /\ \A r \in Requests : ValidRequest(r)
ASSUME SeedAssumption ==
  /\ SeedTasks \in [Tasks -> TaskRow \cup {Null}]
  /\ \A t \in Tasks : SeedTasks[t] # Null => ChecksHold(SeedTasks[t])
ASSUME MaxNotesAssumption == MaxNotes \in Nat

VARIABLES tasks,    \* committed rows of the tasks table
          session   \* what each open session holds

vars == <<tasks, session>>
----------------------------------------------------------------------------
(* Sessions.                                                               *)

Nothing == [t \in Tasks |-> Null]

\* object, loaded: the objects of the identity map and their values when
\* they were last read or written; written: the rows the session has
\* updated and not committed, which it holds the locks of.
SessionState ==
  [step: {"idle", "load", "write", "finish"}, request: Requests \cup {Null},
   object: [Tasks -> TaskRow \cup {Null}], loaded: [Tasks -> TaskRow \cup {Null}],
   written: [Tasks -> TaskRow \cup {Null}]]

Idle == [step |-> "idle", request |-> Null, object |-> Nothing,
         loaded |-> Nothing, written |-> Nothing]

Init == tasks = SeedTasks /\ session = [s \in Sessions |-> Idle]

At(s, step) == session[s].step = step
Request(s) == session[s].request

Locks(s) == {t \in Tasks : session[s].written[t] # Null}
RowFree(s, t) == \A u \in Sessions \ {s} : t \notin Locks(u)
Visible(s, t) == IF t \in Locks(s) THEN session[s].written[t] ELSE tasks[t]
Dirty(s) == {t \in Tasks : session[s].object[t] # session[s].loaded[t]}

Assigned(row, set) ==
  [c \in DOMAIN row |-> IF c \in DOMAIN set THEN set[c] ELSE row[c]]

\* An UPDATE writes the columns that differ from what was loaded.
Written(row, loaded, object) ==
  [c \in DOMAIN row |-> IF object[c] # loaded[c] THEN object[c] ELSE row[c]]

Rollback(s) == session' = [session EXCEPT ![s] = Idle] /\ UNCHANGED tasks

\* Bound: the notes of a task, and a free key for every row to be inserted.
RoomFor(r) ==
  /\ r.op \in SingleOps /\ r.note =>
       tasks[r.task] # Null /\ tasks[r.task].notes < MaxNotes
  /\ r.op = "create_task" =>
       Cardinality({s \in Sessions : Request(s) # Null /\ Request(s).op = r.op})
         < Cardinality({t \in Tasks : tasks[t] = Null})

Begin(s, r) ==
  /\ At(s, "idle")
  /\ RoomFor(r)
  /\ session' = [session EXCEPT ![s] = [Idle EXCEPT !.step = "load", !.request = r]]
  /\ UNCHANGED tasks

Abandon(s) == ~At(s, "idle") /\ Rollback(s)
----------------------------------------------------------------------------
(* Loading.                                                                *)

Transitions ==
  [PENDING     |-> {"PENDING", "IN_PROGRESS", "ON_HOLD", "CANCELLED"},
   IN_PROGRESS |-> {"IN_PROGRESS", "ON_HOLD", "COMPLETED", "CANCELLED"},
   ON_HOLD     |-> {"ON_HOLD", "IN_PROGRESS", "CANCELLED"},
   COMPLETED   |-> {},
   CANCELLED   |-> {}]

\* What the service demands of the row it has loaded.
Accepts(r, row) ==
  /\ row # Null
  /\ row.deleted <=> r.op = "restore_task"
  /\ r.op = "update_status" => r.set.status \in Transitions[row.status]
  /\ r.op \in {"complete_task", "cancel_task"} => row.status \notin Terminal

\* The session after selecting the rows ts and assigning columns to them.
Selected(s, ts, step) ==
  [session EXCEPT ![s].step = step,
     ![s].loaded = [t \in Tasks |-> IF t \in ts THEN tasks[t] ELSE Null],
     ![s].object = [t \in Tasks |-> IF t \in ts
                                    THEN Assigned(tasks[t], Request(s).set)
                                    ELSE Null]]

LoadTask(s) ==
  /\ At(s, "load")
  /\ Request(s).op \in SingleOps
  /\ Accepts(Request(s), tasks[Request(s).task])
  /\ session' = Selected(s, {Request(s).task}, "write")
  /\ UNCHANGED tasks

RejectTask(s) ==
  /\ At(s, "load")
  /\ Request(s).op \in SingleOps
  /\ ~Accepts(Request(s), tasks[Request(s).task])
  /\ Rollback(s)

LoadTasks(s) ==
  /\ At(s, "load")
  /\ Request(s).op \in BulkOps
  /\ LET found == {t \in Request(s).tasks : tasks[t] # Null /\ ~tasks[t].deleted}
     IN  session' = Selected(s, found, "finish")
  /\ UNCHANGED tasks

CreateTask(s) ==
  /\ At(s, "load")
  /\ Request(s).op = "create_task"
  /\ \E t \in Tasks :
       /\ tasks[t] = Null
       /\ tasks' = [tasks EXCEPT ![t] = Request(s).row]
  /\ session' = [session EXCEPT ![s] = Idle]
----------------------------------------------------------------------------
(* Writing.  The unit of work emits its UPDATEs in primary-key order.      *)

\* Mutant: the rows are updated in the order the client lists them.
NextUpdates_AnyOrder(s) == Dirty(s)

NextUpdates(s) == {t \in Dirty(s) : \A u \in Dirty(s) : t <= u}

Image(s, t) == Written(Visible(s, t), session[s].loaded[t], session[s].object[t])

WriteTask(s) ==
  /\ session[s].step \in {"write", "finish"}
  /\ \E t \in NextUpdates(s) :
       /\ RowFree(s, t)
       /\ ChecksHold(Image(s, t))
       /\ session' = [session EXCEPT ![s].loaded[t] = session[s].object[t],
                                     ![s].written[t] = Image(s, t)]
  /\ UNCHANGED tasks

CheckViolated(s) ==
  /\ session[s].step \in {"write", "finish"}
  /\ \E t \in NextUpdates(s) : RowFree(s, t) /\ ~ChecksHold(Image(s, t))
  /\ Rollback(s)

\* Mutant: the object is not refreshed from its row.
Refreshed_Stale(s, t) == session[s].object[t]

Refreshed(s, t) == Visible(s, t)

\* refresh, and _append_metadata_note, which assigns meta_data a copy of
\* what was refreshed with one more note.
Refresh(s) ==
  /\ At(s, "write")
  /\ Dirty(s) = {}
  /\ LET t == Request(s).task
         row == Refreshed(s, t)
         appended == IF Request(s).note THEN row.notes + 1 ELSE row.notes
     IN  session' = [session EXCEPT ![s].step = "finish",
                                    ![s].loaded[t] = row,
                                    ![s].object[t] = [row EXCEPT !.notes = appended]]
  /\ UNCHANGED tasks

Commit(s) ==
  /\ At(s, "finish")
  /\ Dirty(s) = {}
  /\ tasks' = [t \in Tasks |-> Visible(s, t)]
  /\ session' = [session EXCEPT ![s] = Idle]
----------------------------------------------------------------------------
Step(s) ==
  \/ LoadTask(s)
  \/ RejectTask(s)
  \/ LoadTasks(s)
  \/ CreateTask(s)
  \/ WriteTask(s)
  \/ CheckViolated(s)
  \/ Refresh(s)
  \/ Commit(s)

Next == \E s \in Sessions :
          \/ \E r \in Requests : Begin(s, r)
          \/ Step(s)
          \/ Abandon(s)

Spec == Init /\ [][Next]_vars

\* Row locks are granted in queue order.
Fairness == \A s \in Sessions :
              WF_vars(Step(s)) /\ SF_vars(WriteTask(s) \/ CheckViolated(s))

FairSpec == Spec /\ Fairness
----------------------------------------------------------------------------
\* Rows are rows, and every completed task says when it was completed.
TypeOK ==
  /\ tasks \in [Tasks -> TaskRow \cup {Null}]
  /\ \A t \in Tasks : tasks[t] # Null =>
       (tasks[t].completed <=> tasks[t].status = "COMPLETED")
  /\ session \in [Sessions -> SessionState]

\* A completed task stays completed, although a status transition or a
\* cancellation is validated against a row that is stale when it is written:
\* neither assigns completed_at, so the CHECK on the two columns rejects it.
CompletedIsFinal ==
  [][\A t \in Tasks : tasks[t] # Null /\ tasks[t].status = "COMPLETED"
                        => tasks'[t].status = "COMPLETED"]_vars

\* The note of a completion or cancellation is added to all the notes that
\* are committed by then, also those of requests that were under way.
Commits(s) == At(s, "finish") /\ Dirty(s) = {} /\ session'[s] = Idle
NotesAppended ==
  [][\A s \in Sessions :
       LET r == Request(s) IN
       Commits(s) /\ r.op \in {"complete_task", "cancel_task"}
         => \/ tasks' = tasks
            \/ tasks'[r.task].notes = tasks[r.task].notes + (IF r.note THEN 1 ELSE 0)]_vars

\* Every request ends: bulk requests over common tasks do not wait for each
\* other in a circle.
RequestsEnd == \A s \in Sessions : ~At(s, "idle") ~> At(s, "idle")

\* A session waits for another that has locked the row it updates next.
Waits(s, u) == u # s /\ \E t \in NextUpdates(s) : t \in Locks(u)

\* No deadlock over row locks: among any finitely many sessions there is one
\* that waits for none of the others, although bulk requests lock several rows
\* and a single-task handler updates a row it has already locked.
NoWaitCircle ==
  \A open \in SUBSET Sessions :
    open # {} /\ IsFiniteSet(open) => \E s \in open : \A u \in open : ~Waits(s, u)
============================================================================
