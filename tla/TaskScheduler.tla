--------------------------- MODULE TaskScheduler ---------------------------
(***************************************************************************)
(* TaskScheduler: one sweep loop for reminders and one for overdue alerts, *)
(* coroutines of one event loop that start() creates and stop() cancels.   *)
(* Every tick of a loop fetches the oldest due tasks and dispatches those  *)
(* it does not remember.  Tasks are numbered by the time they are due at.  *)
(* A coroutine runs alone from one await to the next, so every action is   *)
(* what happens between two awaits:                                        *)
(*                                                                         *)
(*   waiting (for the interval to pass) -> dispatch ... -> waiting         *)
(*   dispatch -> error (an exception is reported) -> waiting               *)
(***************************************************************************)
EXTENDS TaskTable

CONSTANTS BatchSize,     \* reminder_batch_size, overdue_batch_size
          CacheSize,     \* _max_dedup_cache_size
          Reliable,      \* tasks whose dispatch does not fail for ever
          Dated,         \* bound: the tasks that can become due, by kind
          Callers,       \* coroutines that call start and stop
          Coroutines     \* bound: loops of a kind that can exist at once

Kinds == {"reminder", "overdue"}

ASSUME BacklogAssumption == IsFiniteSet(Tasks)
ASSUME ReliableAssumption == Reliable \subseteq Tasks
ASSUME DatedAssumption == \A k \in Kinds : Dated[k] \subseteq Tasks
ASSUME SizesAssumption == BatchSize \in Nat \ {0} /\ CacheSize \in Nat \ {0}

ASSUME HandlesAssumption ==
  Null \notin Coroutines \cup [Kinds -> Coroutines \cup {Null}]

VARIABLES due,       \* the tasks the query of a kind selects
          seen,      \* _dispatched_reminder_ids, _dispatched_overdue_ids
          loop,      \* the loops
          handle,    \* _reminder_task, _overdue_task
          stopping,  \* the event _stopping is set
          stop       \* the handles a stop in progress has taken, by caller

schedulerVars == <<due, seen, loop, handle, stopping, stop>>

\* A loop that dispatches holds the rest of its batch, least first.
LoopState == [at: {"waiting", "dispatch", "error", "unwinding", "done", "failed"},
              batch: SUBSET Tasks]

LoopAt(at) == [at |-> at, batch |-> {}]

LoopIs(k, l, at) == loop[k][l].at = at
Live(k, l) == loop[k][l].at \notin {"done", "failed"}
Least(S) == CHOOSE t \in S : \A u \in S : t <= u

SchedulerInit ==
  /\ due = [k \in Kinds |-> {}]
  /\ seen = [k \in Kinds |-> {}]
  /\ loop = [k \in Kinds |-> [l \in Coroutines |-> LoopAt("done")]]
  /\ handle = [k \in Kinds |-> Null]
  /\ stopping = FALSE
  /\ stop = [c \in Callers |-> Null]
----------------------------------------------------------------------------
(* The tasks table: a task becomes due as time passes or by a request, and *)
(* is no longer due when it is completed, cancelled, deleted or postponed. *)

BecomesDue(k, t) ==
  /\ t \in Dated[k] \ due[k]
  /\ due' = [due EXCEPT ![k] = @ \cup {t}]
  /\ UNCHANGED <<seen, loop, handle, stopping, stop>>

NoLongerDue(k, t) ==
  /\ t \in due[k]
  /\ due' = [due EXCEPT ![k] = @ \ {t}]
  /\ UNCHANGED <<seen, loop, handle, stopping, stop>>
----------------------------------------------------------------------------
(* Starting and stopping.                                                  *)

\* Mutant: start does not look at the loops it has.
Startable_Always(k) == TRUE

Startable(k) == handle[k] = Null \/ ~Live(k, handle[k])

\* Loops that nobody awaits any more, and one to be created.
Unused(k) == {l \in Coroutines : ~Live(k, l) /\ \A c \in Callers :
                                   stop[c] # Null => stop[c][k] # l}
Fresh(k) == CHOOSE l \in Coroutines : l \in Unused(k)

Start(c) ==
  /\ stop[c] = Null
  /\ \A k \in Kinds : Startable(k) => Unused(k) # {}
  /\ stopping' = FALSE
  /\ handle' = [k \in Kinds |-> IF Startable(k) THEN Fresh(k) ELSE handle[k]]
  /\ loop' = [k \in Kinds |->
                IF Startable(k) THEN [loop[k] EXCEPT ![Fresh(k)] = LoopAt("waiting")]
                                ELSE loop[k]]
  /\ UNCHANGED <<due, seen, stop>>

\* The loop a handle refers to is cancelled at the await it is suspended in.
Cancelled ==
  [k \in Kinds |-> [l \in Coroutines |->
     IF handle[k] = l /\ Live(k, l) THEN LoopAt("unwinding") ELSE loop[k][l]]]

Held(k) == handle[k] # Null

Stop(c) ==
  /\ stop[c] = Null
  /\ \E k \in Kinds : Held(k) /\ Live(k, handle[k])
  /\ stopping' = TRUE
  /\ loop' = Cancelled
  /\ stop' = [stop EXCEPT ![c] = handle]
  /\ UNCHANGED <<due, seen, handle>>

\* There is nothing to wait for.
StopAtOnce(c) ==
  /\ stop[c] = Null
  /\ \A k \in Kinds : Held(k) => ~Live(k, handle[k])
  /\ stopping' = TRUE
  /\ handle' = IF \E k \in Kinds : Held(k) /\ LoopIs(k, handle[k], "failed")
               THEN handle ELSE [k \in Kinds |-> Null]
  /\ UNCHANGED <<due, seen, loop, stop>>

\* Mutant: only the reminder loop is awaited.
Awaited_Reminder(c) == {k \in {"reminder"} : stop[c][k] # Null}

Awaited(c) == {k \in Kinds : stop[c][k] # Null}

StopReturns(c) ==
  /\ stop[c] # Null
  /\ \A k \in Awaited(c) : LoopIs(k, stop[c][k], "done")
  /\ handle' = [k \in Kinds |-> Null]
  /\ stop' = [stop EXCEPT ![c] = Null]
  /\ UNCHANGED <<due, seen, loop, stopping>>

\* Awaiting a loop that failed raises its exception again.
StopRaises(c) ==
  /\ stop[c] # Null
  /\ \/ "reminder" \in Awaited(c) /\ LoopIs("reminder", stop[c]["reminder"], "failed")
     \/ /\ "reminder" \in Awaited(c) => LoopIs("reminder", stop[c]["reminder"], "done")
        /\ "overdue" \in Awaited(c) /\ LoopIs("overdue", stop[c]["overdue"], "failed")
  /\ stop' = [stop EXCEPT ![c] = Null]
  /\ UNCHANGED <<due, seen, loop, handle, stopping>>

\* A cancelled loop closes its database session and ends; an exception of
\* closing it takes the place of the cancellation and is reported.
Unwind(k, l, outcome) ==
  /\ LoopIs(k, l, "unwinding")
  /\ outcome \in {"done", "error"}
  /\ loop' = [loop EXCEPT ![k][l] = LoopAt(outcome)]
  /\ UNCHANGED <<due, seen, handle, stopping, stop>>
----------------------------------------------------------------------------
(* Sweeping.                                                               *)

\* get_due_reminders, list_tasks: the oldest due tasks.
Fetched(k) == {t \in due[k] : Cardinality({u \in due[k] : u < t}) < BatchSize}

\* Mutant: a sweep ends at the first task that was dispatched before.
Sweeping_Break(batch, cache) ==
  LET rest == IF batch = {} \/ Least(batch) \in cache THEN {} ELSE batch
  IN  IF rest = {} THEN LoopAt("waiting") ELSE [at |-> "dispatch", batch |-> rest]

\* The loop after it has passed over the tasks that are remembered.
Sweeping(batch, cache) ==
  LET rest == {t \in batch : \E u \in batch \ cache : u <= t}
  IN  IF rest = {} THEN LoopAt("waiting") ELSE [at |-> "dispatch", batch |-> rest]

\* A loop that finds the scheduler stopping ends.
Tick(k, l) ==
  /\ LoopIs(k, l, "waiting")
  /\ loop' = [loop EXCEPT ![k][l] = IF stopping THEN LoopAt("done")
                                    ELSE Sweeping(Fetched(k), seen[k])]
  /\ UNCHANGED <<due, seen, handle, stopping, stop>>

\* The session cannot be opened, or the query fails.
FetchFails(k, l) ==
  /\ LoopIs(k, l, "waiting")
  /\ ~stopping
  /\ loop' = [loop EXCEPT ![k][l] = LoopAt("error")]
  /\ UNCHANGED <<due, seen, handle, stopping, stop>>

\* _remember_dispatched.  Mutant: the cache is cleared when it has overflowed.
Remembered_Late(cache, t) ==
  (IF Cardinality(cache) > CacheSize THEN {} ELSE cache) \cup {t}

Remembered(cache, t) ==
  (IF Cardinality(cache) >= CacheSize THEN {} ELSE cache) \cup {t}

\* dispatch_reminder or dispatch_overdue_alert has delivered task t.
Dispatched(k, l, t) ==
  /\ LoopIs(k, l, "dispatch")
  /\ t = Least(loop[k][l].batch)
  /\ seen' = [seen EXCEPT ![k] = Remembered(seen[k], t)]
  /\ loop' = [loop EXCEPT ![k][l] =
                Sweeping(loop[k][l].batch \ {t}, Remembered(seen[k], t))]
  /\ UNCHANGED <<due, handle, stopping, stop>>

DispatchFails(k, l) ==
  /\ LoopIs(k, l, "dispatch")
  /\ loop' = [loop EXCEPT ![k][l] = LoopAt("error")]
  /\ UNCHANGED <<due, seen, handle, stopping, stop>>

\* The error is reported; on_error may raise, and then the loop fails.
Report(k, l, outcome) ==
  /\ LoopIs(k, l, "error")
  /\ outcome \in {"waiting", "failed"}
  /\ loop' = [loop EXCEPT ![k][l] = LoopAt(outcome)]
  /\ UNCHANGED <<due, seen, handle, stopping, stop>>
----------------------------------------------------------------------------
LoopStep(k, l) ==
  \/ Tick(k, l)
  \/ \E t \in Tasks : Dispatched(k, l, t)
  \/ DispatchFails(k, l)
  \/ \E outcome \in {"waiting", "failed"} : Report(k, l, outcome)
  \/ \E outcome \in {"done", "error"} : Unwind(k, l, outcome)

SchedulerNext ==
  \/ \E k \in Kinds, t \in Tasks : BecomesDue(k, t) \/ NoLongerDue(k, t)
  \/ \E c \in Callers :
       Start(c) \/ Stop(c) \/ StopAtOnce(c) \/ StopReturns(c) \/ StopRaises(c)
  \/ \E k \in Kinds, l \in Coroutines : LoopStep(k, l) \/ FetchFails(k, l)

SchedulerSpec == SchedulerInit /\ [][SchedulerNext]_schedulerVars

\* The event loop runs every coroutine that is ready; a query, or a dispatch
\* of a reliable task, that is tried again and again does not fail for ever.
SchedulerFairness ==
  \A k \in Kinds :
    /\ WF_schedulerVars(\E l \in Coroutines : LoopStep(k, l))
    /\ SF_schedulerVars(\E l \in Coroutines : Tick(k, l))
    /\ \A t \in Reliable : SF_schedulerVars(\E l \in Coroutines : Dispatched(k, l, t))

FairSchedulerSpec == SchedulerSpec /\ SchedulerFairness
----------------------------------------------------------------------------
\* The dedup caches are bounded, and every variable has its type.
SchedulerTypeOK ==
  /\ due \in [Kinds -> SUBSET Tasks]
  /\ seen \in [Kinds -> SUBSET Tasks]
  /\ \A k \in Kinds : Cardinality(seen[k]) <= CacheSize
  /\ loop \in [Kinds -> [Coroutines -> LoopState]]
  /\ handle \in [Kinds -> Coroutines \cup {Null}]
  /\ stopping \in BOOLEAN
  /\ stop \in [Callers -> [Kinds -> Coroutines \cup {Null}] \cup {Null}]

\* start() never makes a second loop of a kind that is running.
NoDuplicateLoops ==
  \A k \in Kinds : \A l, m \in Coroutines : Live(k, l) /\ Live(k, m) => l = m

\* Every running loop is one a handle refers to, so that stop() can cancel it.
LoopsOwned ==
  \A k \in Kinds : \A l \in Coroutines : Live(k, l) => handle[k] = l

\* No task is dispatched that is remembered as dispatched, by another loop or
\* earlier in the same sweep.
DispatchedOnce ==
  \A k \in Kinds : \A l \in Coroutines :
    LoopIs(k, l, "dispatch") => Least(loop[k][l].batch) \notin seen[k]

Serving(k) == handle[k] # Null /\ Live(k, handle[k]) /\ ~stopping
Ended(k) == handle[k] # Null /\ ~Live(k, handle[k])

\* The tasks that a sweep passes on its way to t, and t itself.
UpTo(k, t) == {u \in due[k] : u <= t}

\* A task that stays due is dispatched, although dispatches and queries fail,
\* tasks become due before it and the cache is trimmed, unless the scheduler is
\* stopped, its loop ends (on_error raises, or a stop has cancelled the loop and
\* a start comes before it is done), as many tasks as a batch takes are due
\* before it, or it or a task due before it cannot be dispatched.
AllDispatched ==
  \A k \in Kinds : \A t \in Tasks :
    t \in due[k] /\ Serving(k) ~>
      \/ t \in seen[k] \/ t \notin due[k]
      \/ stopping \/ Ended(k)
      \/ Cardinality(UpTo(k, t)) > BatchSize
      \/ ~(UpTo(k, t) \subseteq Reliable)
============================================================================
