------------------------ MODULE MCNotificationQueue ------------------------
(***************************************************************************)
(* Instance of NotificationQueue for TLC.                                  *)
(***************************************************************************)
EXTENDS NotificationQueue

Of(op, ns) == [op |-> op, notifications |-> ns]

\* The second of two notifications has been deleted.
QueueRequests ==
  {Of("bulk_enqueue", {1, 2}), Of("schedule_notification", {1}),
   Of("retry_now", {1}), Of("reschedule", {1}), Of("cancel", {1})}

UrgentFirst == [n \in Notifications |-> n]
============================================================================
