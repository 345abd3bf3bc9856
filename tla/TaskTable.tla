----------------------------- MODULE TaskTable -----------------------------
(***************************************************************************)
(* The tasks table, which TaskService writes and TaskScheduler reads.      *)
(* The ORM and the sweeps sort tasks: they are named by numbers.           *)
(***************************************************************************)
EXTENDS Integers, FiniteSets

CONSTANTS Tasks,  \* primary keys
          Null

ASSUME TasksAssumption == Tasks \subseteq Nat
============================================================================
