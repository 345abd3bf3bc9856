--------------------------- MODULE MCTaskService ---------------------------
(***************************************************************************)
(* Instance of TaskService for TLC.                                        *)
(***************************************************************************)
EXTENDS TaskService

CONSTANT user1

NewTask == [status |-> "PENDING", completed |-> FALSE, reminder |-> Null,
            due |-> Null, assignee |-> Null, notes |-> 0, deleted |-> FALSE]
OneTask == [t \in Tasks |-> IF t = 1 THEN NewTask ELSE Null]

Single(op, t, set, note) ==
  [op |-> op, task |-> t, set |-> set, note |-> note]
Bulk(op, set) == [op |-> op, tasks |-> Tasks, set |-> set]
Complete(t, note) ==
  Single("complete_task", t, [status |-> "COMPLETED", completed |-> TRUE], note)

\* Requests for the first task, and bulk requests over all of them.
TaskRequests ==
  {[op |-> "create_task", row |-> NewTask],
   Single("update_task", 1, [due |-> Null], FALSE),
   Single("update_status", 1, [status |-> "ON_HOLD"], TRUE),
   Complete(1, TRUE),
   Single("cancel_task", 1, [status |-> "CANCELLED", completed |-> FALSE], TRUE),
   Single("restore_task", 1, [deleted |-> FALSE], FALSE),
   Single("soft_delete_task", 1, [deleted |-> TRUE], FALSE),
   Bulk("bulk_update_tasks", [due |-> 1])}
============================================================================
