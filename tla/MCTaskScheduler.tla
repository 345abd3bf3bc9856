-------------------------- MODULE MCTaskScheduler --------------------------
(***************************************************************************)
(* Instances of TaskScheduler for TLC.                                     *)
(***************************************************************************)
EXTENDS TaskScheduler

\* Every task has a reminder, and the first a due date.
Reminders == [k \in Kinds |-> IF k = "reminder" THEN Tasks ELSE {1}]

============================================================================
