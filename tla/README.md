# Verification of the real-estate CRM

TLA+ models of the backend under `src/backend/app`: a FastAPI application over
PostgreSQL (SQLAlchemy asyncio), with one database session per request and a
few background coroutines. The modules model what several requests or
coroutines do to shared rows and handles when their statements interleave;
TLC checks them on small instances, TLAPS proves the main properties for every
value of the constants.

```
tlc -workers 2 -config deposits.cfg MCBookingLedger.tla      # one run
tlapm BookingLedgerProofs.tla                               # one proof module
```

Paths below are relative to `src/backend/app`.

## 1. The system

### How requests execute

- `db/session.py:119-139` (`get_db`) gives each request its own `AsyncSession`
  (`autoflush=False`, `expire_on_commit=False`). It rolls back on any
  exception, and never commits: each service, repository or router commits for
  itself, or does not commit at all.
- Every `await` on the database is a point at which other requests run.
  Transactions are READ COMMITTED. The only `FOR UPDATE` of the repository is
  in `repositories/queue_repository.py` (`fetch_next_batch`, SKIP LOCKED);
  everything else is *read, decide in Python, write*.
- So integrity depends on which columns an UPDATE writes, on how long a row
  lock lasts, and on the few UNIQUE and CHECK constraints.
- `main.py` mounts the auth, users, lead, customer, property, booking, payment,
  dashboard, report and ai routers. The other routers exist and are not
  mounted; `main.py` starts no scheduler and loads no cache.

### Components

| Component | State | Operations | Interacts with | Hard behaviour | What makes it correct | Here |
|---|---|---|---|---|---|---|
| Payments (`services/payment_service.py`, `repositories/payment_repository.py`, `models/payment.py`) | `payments` rows, drawn payment number | create, update, update status, delete | writes the booking it pays for | number drawn by read-increment-insert, per year; pending amount, reference and status checked before the write; booking synced from a recomputed total | serial numbers in each year; booking status agrees with its ledger; amount limit; unique references | modelled |
| Bookings (`services/booking_service.py`, `repositories/booking_repository.py`, `models/booking.py`) | `bookings` rows, number sequence | create, update, delete, assign agent, two status handlers | same rows as payments | duplicate check before insert; validation on stale values; second SELECT that does not refresh | one active booking per pair; legal transitions; token ≤ amount | modelled |
| Database sessions (`db/session.py`) | identity map, locks | begin, rollback, commit | all services | abandoned requests, lock waits, stale objects | nothing survives a rollback; no lock is kept | modelled |
| Tasks (`services/task_service.py`, `repositories/task_repository.py`, `api/v1/task.py`, `models/task.py`) | `tasks` rows with notes in a JSON column | create, update, assign, status, complete, cancel, delete, restore, bulk update and delete | rows read by the scheduler | stale transitions, read-modify-write of notes, multi-row locking | completed is final; notes kept; requests end | modelled |
| Task scheduler (`utils/task_scheduler.py`) | two loops, handles, stop event, dedup caches | start, stop, sweeps | tasks, dispatcher callbacks, `on_error` | cancellation while unwinding, start during stop, callbacks that raise, bounded caches, batches | no unowned or second loop; no dispatch of a remembered task; what a batch can reach is dispatched | modelled |
| Notification queue (`services/queue_service.py`, `services/scheduler_service.py`, `repositories/queue_repository.py`) | queue entries: status, lock owner, retries, schedule | enqueue, schedule, claim batch, complete, fail, retry, reschedule, cancel, release stale locks | notifications, dispatchers, the caller who commits | claims under SKIP LOCKED, outcomes written without looking at status or owner, two tables written in two orders | nobody touches a claimed entry; the two tables agree; every entry is settled | modelled |
| Notifications (`services/notification_service.py` and channel services) | notification, delivery and log rows | create, send, schedule, cancel, retry, read, delivery callbacks | queue, providers | the routes flush and never commit | status follows the queue | partly: what the queue writes of them |
| Notification worker (`workers/notification_worker.py`) | – | – | queue | – | – | no: the module imports names its dependencies do not define and cannot be imported |
| Webhooks (`services/webhook_service.py`, `repositories/webhook_repository.py`) | webhooks with a rollup of their deliveries, delivery logs | create … restore, enable, disable, bulk, test, trigger, retry | HTTP endpoints | the answer is awaited between the load and the writes; retries of retries | attempts are bounded; the rollup is that of the logs; deleted webhooks deliver nothing | modelled |
| Settings and cache (`services/settings_service.py`, `utils/settings_cache.py`) | settings rows, process-wide dictionaries under an asyncio lock | CRUD, bulk, reload, load, clear | – (no code reads settings through the cache) | snapshot read before the lock; cache written in a transaction nobody commits | secrets are redacted (with one exception, see below); a reloaded cache agrees with the table | modelled |
| Workflows (`utils/workflow_engine.py`, `repositories/workflow_repository.py`, `api/v1/workflow.py`) | workflow, steps, approvals | create, activate, start, complete/fail/retry/skip step, hold, resume, cancel, request approval, approve, reject, escalate, patch, delete, restore | users | every repository call commits, so each handler is several transactions; a server dies between them | finished rows stay finished; the last decision unblocks, the last step completes | partly: assignment, comments and some columns of the PATCH routes are left out |
| Integrations (`services/integration_service.py`, `repositories/integration_repository.py`) | integrations: status, credentials, default of a type | CRUD, enable, disable, health check, sync status, bulk, promotion to default | providers | a promotion is several statements; health checks decide on a loaded row | one default per type; an active integration is ready | modelled |
| Leads (`services/lead_service.py`) | leads and pipeline status | create, update, delete, assign, status, priority | users, customers | duplicate check before the write, no unique index | distinct contacts; closed leads stay closed | modelled |
| Customers (`services/customer_service.py`) | customers, follow-ups | create … restore, assign, status, deletion for good | leads, users | uniqueness check raced by the unique index | unique e-mail; references refer | modelled |
| Properties (`services/property_service.py`) | listings | create, update, status, assign, delete, reactivate | users | status and type checked together, written apart | status fits the type; agents are active | modelled |
| Users and authentication (`services/user_service.py`, `services/auth_service.py`) | users; tokens are stateless | register, login, refresh, profile, password, activate, deactivate | all routers | registration race | unique users | partly: everything that writes |
| Documents (`services/document_service.py`, `utils/file_storage.py`) | documents with versions, stored files | upload, update, delete, bulk delete, restore | file storage | – | – | no: neither router, service nor repository commits, so no row is ever stored |
| Assistant (`services/ai_service.py`, `chat_service.py`, `rag_service.py`, `prompt_service.py`, `sql_ai_service.py`, …) | conversations, messages, prompts, usage | send message, CRUD | language models | model call between two inserts | – | not yet: see the plan |
| Activity feed and audit log | append-only rows | create, list, bulk delete | all | – | – | no: no state a later decision depends on, and never committed |
| Monitoring | health records, metrics | record, check, list | – | – | – | no: probes and counters |
| Reports, dashboard, search | none | read-only queries | all tables | – | – | no: read-only |
| Application shell (`core/`, `main.py`, `exceptions.py`, `schemas/`) | none | configuration, routing, errors, validation of input | – | – | – | no: no state of its own |

PROJECT.json lists the same components, and every hazard at the line where it
bites, with the properties that cover it.

## 2. The modules

| Module | What it is |
|---|---|
| `CrmTables` | rows of bookings and payments, enumerations, transition allow-lists, what an UPDATE writes (`Written`), what a ledger implies (`TotalPaid`, `PaymentStatusOf`) |
| `CrmSessions` | sessions: identity map, row locks, what a SELECT sees, commit, rollback |
| `PaymentService` | the four payment handlers, statement by statement |
| `BookingService` | the six booking handlers |
| `BookingLedger` | both services over one database: `Next`, fairness, properties |
| `SerialNumbers` | abstract: the numbers of each year are issued 1, 2, 3, … |
| `SerialDeposits` | abstract: a deposit and its effect on the booking are one step |
| `MCBookingLedger` | request sets and initial bookings of the instances |
| `BookingLedgerProofs` | inductive type invariant; theorems on numbering, committed rows, pairs and the ledger |
| `TaskTable` | the tasks, which the service writes and the scheduler reads |
| `TaskService`, `MCTaskService` | task handlers; their instance |
| `TaskScheduler`, `MCTaskScheduler` | sweep loops, start and stop; their instance |
| `TaskProofs` | theorems about both |
| `NotificationQueue`, `MCNotificationQueue`, `NotificationQueueProofs` | queue and scheduler services, workers, clients, deadlocks |
| `WorkflowEngine`, `MCWorkflowEngine`, `WorkflowEngineProofs` | workflow and approval engines and the routes, one commit per action |
| `Webhooks`, `MCWebhooks`, `WebhooksProofs` | changes of webhooks against deliveries and retries |
| `Integrations`, `MCIntegrations`, `IntegrationsProofs` | integrations and the promotion to the default of a type |
| `DirectoryTables` | rows of users, leads, properties and customers that the services share |
| `AccountService`, `LeadService`, `PropertyService`, `CustomerService` | for each request: what the method checks, in which order, and what it sets |
| `CrmDirectory`, `MCCrmDirectory`, `CrmDirectoryProofs` | the four services over one database: load, check, write; what constraints refuse |
| `SettingsCache`, `MCSettingsCache`, `SettingsCacheProofs` | settings routes, their rolled back transactions, and the cache |

### Sessions, bookings and payments

*State.* `bookings` and `payments` hold committed rows (`Null`: no such row).
`session[s]` is an open session: the `step` it is at, its `request`, the
booking and payment objects of its identity map, and the values both had when
last read from the database. What a session has flushed is the difference
between the two; it holds the locks of those rows.

*Actions.* A handler is cut where the answer of the database depends on others.
Every statement whose answer others can change is an action. Consequences of
the session's settings:

- an UPDATE writes the columns of the object that differ from what was loaded,
  into whatever row is committed by then (`Written`);
- a second SELECT of a loaded row leaves the attributes as they were
  (`BookingRepository.update` selects again and sees nothing new);
- the unique index on `payment_number` makes an insert wait for an uncommitted
  insert of the same number, and fail if that commits;
- `created_at` defaults to `now()`, the start of the transaction, which decides
  which booking of a pair is the newest (`clock`, `created`).

*Payment numbers.* A number is `PAY-{year}-{sequence}`. The year is that of the
server's clock when the number is generated; the last number is looked up among
those of that year, and the unique index compares both. A row has `year` and
`number`, and `GeneratePaymentNumber` draws any of `Years`: a server may be
ahead of another, or the year may change between two requests. That clocks only
advance is not modelled, which admits more behaviours than the code has.

*Abstractions.* Amounts are natural numbers; a NULL `booking_amount` acts as 0.
The payment type is only in the request: after the validation nothing reads it
here, and `TOKEN` and `ADVANCE` are validated alike. In `update_payment`,
`amount` stands for all three restricted columns (amount, mode, type).
Customer, property, receiver, agent and lead lookups, receipt-number conflicts and an explicit NULL status
can only end a request with an exception, which `Abandon`
(a rollback at any moment) covers. `JoinedRefresh` is the set of answers to
whether `refresh(payment)` also refreshes the joined booking: the runs take
both. `SeqLimit` is the number at
which `%06d` outgrows its width and string order stops being number order.

*External parts.* READ COMMITTED, row locks, the unique index and the unit of
work are PostgreSQL's and SQLAlchemy's, modelled as the code uses them.

### Tasks

The repository flushes and the router commits. A single-task request is
*load, write, refresh, [note], commit*; a bulk request loads several rows and
its flush emits the UPDATEs in primary-key order. A flush emits an UPDATE only
for an object that differs from what was loaded: a request that assigns what is
already there takes no lock. `Assigns` gives the columns of each operation;
`ChecksHold` is the two CHECK constraints. Titles, types, priorities and related
entities do not appear: no property tells them apart.

### Task scheduler

Coroutines of one event loop: each action is what runs between two awaits.
A loop is waiting, dispatching, in error, unwinding (cancelled, closing its
session: an exception of that is reported like any other), done, or failed
(`on_error` raised). `stop()` sets the event, cancels
both loops, awaits them one after the other and only then drops both handles:
`Stop`, then `StopReturns` or `StopRaises`; `StopAtOnce` when nothing is left to
await. `due` is the environment: what the queries select. The batch is the
oldest `BatchSize` due tasks, `Reliable` are the tasks whose dispatch does not
fail for ever, `Dated` bounds which become due, and the dedup cache is dropped when it is full.
Nothing in `src` instantiates the scheduler, so the number of coroutines that
call `start` and `stop` is a parameter. Calling `run_*_sweep_once` directly
while loops run is not modelled; nothing does.

### Notification queue

`queue` and `notifications` are committed rows, `session` is the transaction of
each worker and of each client call with its uncommitted writes, whose locks it
holds; `sent` remembers what a provider has accepted. Neither service commits:
who calls `QueueService` and `SchedulerService` is not in the repository (the
worker module cannot be imported), so the caller is modelled as one that
commits when a call returns and rolls back when it raises, dies or is the
victim of a deadlock. `Batches` is `fetch_next_batch`: due, waiting, unlocked
entries in the order of priority, at most `BatchSize`. A worker then attempts
each entry (`Attempt`: the dispatcher answers anything) and records the outcome
in both tables (`RecordOutcome`). `release_stale_locks` is not an action because
there is nothing to release, which is what `ClaimsHold` says.

### Workflows

`WorkflowRepository` commits every write by itself and a request validates what
it loaded earlier, so an action is one committed write with the reads before
it; `Abandon` between two of them is a server that dies, and leaves the rest
undone. An UPDATE writes the columns that differ from the loaded object
(`Updated`), and the CHECKs on `completed_at` and `cancelled_at` refuse a
status that does not fit them (`WorkflowChecks`, `StepChecks`), which is the
only protection against a stale writer. The PATCH routes of workflows and steps
are modelled by the status they set; they can also set `current_step_order`, and
`step_order`, `is_approval_required` and `retry_count` of a step, which no
request of the model changes that way. `skip_step` always fails: it sets
`completed_at` with a status other than COMPLETED.

### Webhooks

A request is one transaction: load, decide, write and commit. A delivery awaits
the target in between (`BeginDelivery`, `Answer`, `Record`) with no row locked.
`clock` gives `last_delivery_at` its order. The log and the rollup are written
with the delivery's commit; a crash after the request was sent leaves neither,
and the target has been called all the same. Nothing imports
`utils/webhook_dispatcher.py`, and only that one imports
`utils/webhook_validator.py`: neither is modelled.

### Integrations

Requests are cut at every statement, because a promotion writes its own row,
then selects the other defaults of the type (`SelectRivals`), then clears them
one UPDATE at a time in primary-key order, locking as it goes. `credentials`
and `configured` stand for whatever the provider and the type require
(`Ready`). The factory and the validator under `utils/` are used by nothing.

### Directory

Each of the four services is a module that says, for a request and the row it
loaded, which SELECTs the method makes, in which order, and which columns it
sets. `CrmDirectory` runs them: `Load`, one `Check` per SELECT, `Write`. The
database refuses what its constraints refuse (`Consistent`); only changed
columns are written (`Written`). Roles decide nothing in these methods and who
may call what is left out.

### Settings

`cache` is the dictionary of the process, `Committed` the table. The routes
write the cache from a transaction that the session dependency rolls back when
the response is sent, so the table never changes; nothing in the repository
loads the cache at start-up, and no read of a setting goes through it. `dirty`
records, for the properties, which keys were written since they were last
loaded. An entry is redacted by the flag it is cached with, and the flag is that
of the updated row, which is rolled back: a request that turns the encryption of
a setting off puts its value into the cache while the setting stays encrypted.
`SecretsRedacted`, a part of `TypeOK`, says that this is the only way.

## 3. What is checked


| Run | Instance | Shows | States |
|---|---|---|---|
| `deposits` | 3 sessions, 1 booking of amount 3, 3 payments, 2 years; successful payments of every type, with and without a shared reference, in the behaviours in which no two creations of different years are past their INSERT at once (`ApartSpec`) | refines `SerialDeposits`: a payment and its effect on the booking are one step | 31 thousand |
| `sequential` | 1 session, 3 bookings, 2 payments, 2 years; all handlers, abandoned anywhere | without concurrency the booking agrees with its ledger, and looking at the newest booking of a pair suffices | 5.0 million |
| `shared_rows` | 2 sessions on one payment and its booking, both services | no stale column is written back; deleted rows stay deleted | 784 thousand |
| `requests_end` | 2 sessions, 2 payments, 2 years, any overlap; creations, changes of payments and of their booking, with fairness | the payment numbers of each year have no gap and no duplicate, one insert of a year is in flight, refines `SerialNumbers`; payment handlers and booking handlers end: payments are locked before bookings; a booking paid meanwhile is completed | 197 thousand |
| `tasks` | 2 sessions, 2 tasks, with fairness | the CHECK alone keeps completed tasks completed; completions and cancellations add their notes to those committed by then; bulk requests do not deadlock | 123 thousand |
| `scheduler` | 3 tasks, one of which may fail for ever, batch 2, cache 1, one caller, two coroutines per kind, with fairness | loops are owned, remembered tasks are not dispatched, a task that stays due is dispatched unless the batch, a task before it or the end of its loop prevents it | 9 thousand |
| `queue` | 2 workers, 2 notifications of which one is deleted, 5 client calls, batch 1, one retry, 3 transactions at once, with fairness | a claim is nobody else's; queue and notifications agree; every entry is settled although deadlocks and failures roll back | 179 thousand |
| `workflows` | 2 of 3 steps, 3 approvals, 2 requests at once, 7 scenarios | finished rows stay finished, the last decision unblocks, the last completed step completes; a stale save that breaks no CHECK is all that can go wrong | 412 thousand |
| `webhooks` | 3 webhooks, 3 scenarios | attempts are bounded, the rollup is that of the logs, a deleted webhook is disabled | 306 thousand |
| `integrations` | 4 integrations of 2 types, 4 scenarios | when a type has two defaults, or none | 457 thousand |
| `directory` | 2–4 rows of each table, 7 scenarios | what unique indexes and CHECKs protect, and how far checks without one protect | 139 thousand |
| `settings` | 3 settings in 2 categories, 8 requests | the value of an encrypted setting is cached only after a request has turned its encryption off; a reloaded key shows its committed row | 313 thousand |

Why the bounds suffice. In `deposits`, three creating sessions have one
in flight, one waiting for it and one that still draws; a booking can be partly
paid, paid in full and refuse a payment within amount 3. In `requests_end`, two
sessions can draw one number, or a number of each of two years, which do not
collide; what three sessions do to the numbers is left to the proof. Two sessions are enough for every check-then-act race and every
lost update, and three bookings for an older active booking behind a newer
inactive one. `MaxClock` bounds booking creations; `RoomFor` keeps a
free key for every insert under way, so no insert is refused for want of a key.
For tasks, two rows and two sessions are the smallest circle of locks, and `MaxNotes = 1` lets
a note be read before and written after another. The task instance leaves out
`assign_task` and `bulk_soft_delete_tasks`: each takes the same actions as
`update_task` and `bulk_update_tasks` with another column, and the proofs cover
them. For the scheduler, three tasks are one more than a batch, so a task can be hidden
by the batch, by the one that fails for ever, or by neither; a cache smaller than
the batch makes it overflow in the middle of a sweep; only the first task has a
due date, since the two kinds of loop share nothing but `start` and `stop`; `Coroutines = 2` lets a new loop start while an old one
unwinds.

In the runs added for queue, workflows, webhooks, integrations, directory and
settings, a client makes each request of a scenario at most once, so the system
stops when all are served: these six switch deadlock checking off. A scenario
is a set of requests that meet on the same rows; the first step picks one, and
all its requests interleave (two at once for workflows, whose handlers have the
most steps; a request that begins after another has ended sees what it left).
The queue needs two workers to claim one entry, a batch of one so that a worker
polls twice, one deleted notification for the outcome that is recorded without
dispatching, and three transactions for two workers and a client in one circle
of locks. The directory gives each scenario the values over which two requests
can collide and one more.

Creating successful payments keeps the booking in step with its ledger because
the unique index lets one creation of a year at a time reach the booking. Two
creations with numbers of different years do not collide: each totals the
payments without seeing the other's, and the one that commits last leaves a stale
status. Without `YearsApart` TLC refutes `DepositsAreAtomic`, which is why
`deposits` and the theorems assume it. The PATCH handlers of payments do not pass that
index and can leave a booking behind the ledger, so it is not claimed for
`shared_rows`; `PaidMeansCompleted` is, in `requests_end`, since it does hold.

**Where the code does not do what it says.** None of this is claimed by a run;
each was met while modelling, the first nine as TLC counterexamples to what the
quoted line says.

- Every due, not yet dispatched task is dispatched (`utils/task_scheduler.py:310`):
  a batch full of dispatched tasks that stay due hides the younger ones for ever.
- Sweep loops continue after an error (`utils/task_scheduler.py:200`): an
  `on_error` that raises ends its loop.
- Encrypted settings are never cached in cleartext (`utils/settings_cache.py:22`):
  the update that turns encryption off is cached and then rolled back.
- Around New Year two creations leave a booking behind its ledger, as said above.
- `create_payment` is said to enforce the pending amount (`api/v1/payment.py:39`);
  two requests that validate before either inserts exceed it together.
- Soft-deleted bookings are said to be frozen (`services/booking_service.py:25`);
  settling a payment of one writes its status.
- `update_payment` sets SUCCESS without looking at the reference the payment
  already has (`services/payment_service.py:426`), so two successful payments
  can share one (`api/v1/payment.py:186` promises 409).
- One active booking per customer and property (`services/booking_service.py:225`):
  two concurrent requests find no duplicate.
- `start()` spawns no duplicate loops (`utils/task_scheduler.py:228`): a `start()`
  while `stop()` awaits makes a loop whose handle `stop()` then drops. A `start()`
  after a `stop()` that raised finds the other loop cancelled but not yet done, and
  makes no new one: nothing sweeps for that kind until the next `start()`.
- A payment settled after its booking was cancelled still moves the booking
  (`services/payment_service.py:282`), past its transition table.
- `models/integration.py` says of `is_default` that it is unique per type; there
  is no such index, and two promotions at once leave two defaults.
- `release_stale_locks` never has anything to release; a crash between the
  dispatch and the commit of a batch sends all of the batch again.
- `create_notification` hands `QueueRepository.enqueue` a notification where it
  takes its fields, so it never makes a queue entry.
- `start_workflow` can reopen a workflow that was completed while it ran; two
  completions of one step begin two steps; a workflow whose step was approved
  before it was blocked stays blocked.
- A retry of a delivery does not mark the log it retries, so it can be retried
  again: the chain is bounded, the number of calls is not.
- Two updates of a listing that are each right combine to a SOLD listing for
  rent; leads can share a phone number when two requests check before either writes.

Smaller observations: `update_payment` can set
`is_active = False` on a successful payment, which `delete_payment` refuses
(`services/payment_service.py:416`, `:486`). A cancelled task can be revived by
a transition validated before the cancellation (no CHECK protects CANCELLED). A
request that assigns the status a task already has emits no UPDATE, so its note
can overwrite one committed meanwhile. `TaskConflictError`
(`services/task_service.py:114-122`) is never raised. After the sequence number
1000000 of a year, string order picks 999999 as the last number and every
creation collides.

### Fairness

- Sessions: weak fairness of every step (the event loop resumes coroutines and
  the database answers) and strong fairness of the statements that wait for a
  lock or an index entry, because PostgreSQL grants them in queue order. A
  client leaving (`Abandon`) is never assumed.
- Scheduler: weak fairness of the loops of each kind; strong fairness of a sweep's query
  and of the dispatch of each task of `Reliable`: what is retried for ever does not
  fail for ever. Of other tasks nothing is assumed, so they may fail at every attempt.
  Calls of `start` and `stop`, and tasks becoming due, are not assumed.
  `AllDispatched` names what can still keep a due task from being dispatched: the
  scheduler is stopped, its loop has ended, more tasks than a batch are due up to it,
  or one of those is not reliable.
- Queue: weak fairness of every step of a transaction and of PostgreSQL's
  deadlock detection, strong fairness of claiming (workers poll for ever) and of
  the passing of time. That transactions do not fail is not assumed of every
  behaviour: `EntriesSettle` is about those in which they eventually stop failing.
- Workflows, webhooks, integrations, directory and settings state safety only.

## 4. What is proved

All theorems hold for arbitrary constants that satisfy the named `ASSUME`s:
any sets of rows, sessions and requests, any batch and cache size. Where a
theorem needs more, its hypothesis has a name and is given below.

**Payment numbers** (`BookingLedgerProofs`, section *Numbers*):
`TypeCorrect`, `NumbersAreSerial`, `InsertsAreSerial`, `NumberingImplemented`
(the last: `Spec` implements `SerialNumbers`), each for every year by itself and
for any set of years. The type invariant is not
inductive as stated: a commit writes session objects into tables, so `TypeInv`
adds which requests each step can serve, which objects are loaded then,
that they are objects of the row with that key, and that rows never vanish.
`IInv` adds `Issued(y, k)` for each year `y` and some `k`: the committed numbers of `y` are exactly
`1..k`, `k ≤ SeqLimit`; a number drawn for `y` is at most `k + 1`; at most one insert
of `y` is in flight, and it carries `k + 1`. It is needed because uniqueness alone says nothing of what a
sleeping session is about to insert: a drawn number is either `k + 1`, and the
index makes it wait for a rival, or at most `k`, and the index rejects it.

**Committed bookings and payments** (`BookingLedgerProofs`):
`OnlyRequestedColumns` and `DeletionIsFinal`, without hypotheses. `ColumnsInv`
says that an object differs from the row as loaded only in columns its request
assigns, and that a session whose UPDATE is uncommitted holds the only lock of
the row, so the committed row is still the one its image was merged into. A
deleted row stays deleted because a request that may assign `is_active` had
loaded the row active: the value it assigns is the one loaded and is not written.

Four results hold under hypotheses on what is served at the same time. The code
guarantees none of them, and without them the property is false (section 3
names the races; a booking handler can also set PAID by itself); the instances
of the runs satisfy them.

| Theorem | Hypothesis | Argument |
|---|---|---|
| `PairsStayUnique` (`OneActivePerPair`) | `SerialCreations`: creations of one customer and property do not overlap; `SeedsOnePerPair` | an active booking is the newest of its pair (`PairInv`), since it keeps later ones from being created and a deleted one is not revived |
| `PaidBookingsCompleted` (`PaidMeansCompleted`) | `OnlyPaymentsComplete`: the booking handlers leave the status to the payments | the two columns are written apart, but a session that leaves COMPLETED out had loaded it, and no session writes anything else over it (`PaidInv`) |
| `LedgerStaysInSync` (`LedgerInSync`) | `SerialPayments`: payment handlers of one booking do not overlap; `OnlyPaymentsPay` | what a session holds of the booking is what is committed, and the status it will commit is the one its own view of the payments implies (`LedgerInv`) |
| `DepositsStayInSync` (`LedgerInSync`), `DepositsImplemented` (`DepositsAreAtomic`) | `DepositsOnly`: payments are created as successful and not changed; `[]YearsApart`: no two creations of different years are past their INSERT at once | the unique number lets one creation of a year at a time past its INSERT, so the total it computes is the committed one plus its own payment (`DepositInv`) |

`DepositsOfOneYear` is the case of one year, in which `YearsApart` holds by itself.
`SequentialPairsUnique` and `SequentialLedgerInSync` are the case of one
session, in which both hypotheses on overlapping hold by themselves. That the
sum over payments grows by the amount of a payment that is added
(`SumExtends` and the lemmas around it) is proved by a minimal counterexample
over finite sets, because induction with an operator parameter is out of reach.

**Tasks** (`TaskProofs`): `TasksTypeCorrect`, `CompletedStaysCompleted`,
`NotesAreAppended`, `RequestsDoNotDeadlock`. The invariant speaks of what sessions are about to commit: every image a session
holds passed the CHECKs, and is completed if the committed row is. The CHECK
establishes that when the UPDATE is emitted (a stale transition does not assign
`completed_at`), and the row lock preserves it until the commit.
For the notes, `NotesInv` adds that a completion or cancellation, which always
changes the status and so always locks the row, refreshes the notes after it
has the lock: what it extends are the notes that are committed when it commits.
`RequestsDoNotDeadlock` says that no sessions wait for each other's row locks in
a circle, `NoWaitCircle`, whatever rows and however many requests. `OrderInv`
says that no row a session has locked is above one it has left to update, since
the unit of work emits its UPDATEs in key order; a single-task handler, which
updates its row twice, is the case in which the two are equal. So whoever is
waited for in a circle waits for a row at least as great, and a strictly greater
one because a row has one lock. The `tasks` run reaches the same circles through
`RequestsEnd`; without the order of the UPDATEs both properties fail.

**Scheduler** (`TaskProofs`, section *The scheduler*): `SchedulerTypeCorrect` (caches never
exceed their size), and under `SerialCalls` (at most one coroutine calls
`start` and `stop`) `LoopsAreOwned`, `LoopsAreUnique` and
`TasksAreDispatchedOnce`. The hypothesis is needed: with
two callers TLC refutes them. The invariant bridges the time while `stop()` awaits: the
handles still are those it captured (`StopInv`). `TasksAreDispatchedOnce` compares
with the cache, so a task that a trim has dropped from it may be dispatched again,
as the code intends.

**Settings cache** (`SettingsCacheProofs`): `SettingsTypeCorrect` (the cache
shows the value of a setting whose committed row is encrypted only if a request has
turned its encryption off and the key was not loaded or cleared since) and `ReloadedCacheAgrees`
(a key loaded or cleared since it was last written shows its committed row or
nothing). What a clean key shows was prepared steps earlier and read without the
lock, so the invariant says what each session holds: a snapshot of a key shows
its committed row, since the routes that load write no setting; a write was
admitted; what is about to be cached in clear was encrypted only if the request says
otherwise; and, by the row locks, no two transactions write the same key.

**Notification queue** (`NotificationQueueProofs`): `QueueTypeCorrect`,
`WorkersClaimsHold` and `TablesAgree`, for any batch size and retry limit. What
a commit makes visible was written one statement at a time, to two tables, so
the invariant says what is pending: `RequestInv` for a request (an entry for
each notification whose row it writes, unless it cancels), `WorkerInv` for a
worker (its entries still wait in the table; an attempted entry and the row of
its notification say the same), `RowInv` for the committed rows. `Locks` (no
entry and no row is held twice) carries each of them over the steps of others.

**Webhooks** (`WebhooksProofs`): `WebhooksTypeCorrect`, `RetriesBounded`,
`RollupFollowsLogs` and `DeletedMeansDisabled`. A delivery holds no lock while
it awaits its target, so `RequestInv` keeps only what others cannot invalidate:
the retry count it loaded is one its webhook has had, and the failure it
continues is logged, since logs only grow. `RetryCounts(h)`, the counts `h` is
created with or given, is what makes the bound survive a change of
`retry_count` between an attempt and its retry. `RollupMatchesLogs` is itself
inductive, because the log and the timestamps are one commit.

**Integrations** (`IntegrationsProofs`): `IntegrationsTypeCorrect`,
`DefaultsAreLate` and `DefaultsSurvive`. `RequestInv` says exactly what a
request has written so far (`Own` for its own row, `FlushedColumns` for the
others) and that a promotion has cleared, or still has on its list, every
default it saw; `Locks` carries it over the steps of others. What a commit makes
of the table then follows column by column.

**Workflows** (`WorkflowEngineProofs`): `WorkflowTypeCorrect`, `StampsAreFinal`,
`DecisionsUnblock` and `CompletionFollows`. No lock is held from one commit to the next, so nothing keeps
a loaded row current. The argument is that a loaded row passed the CHECKs when
it was committed; that a request only moves a row whose transition it validated
on that copy, so the copy was not completed; and that an UPDATE names only the
columns the request changed, so it leaves `completed_at` and `cancelled_at` as
they are, and the CHECKs refuse a status that does not fit them. The last write
of `start_workflow`, which validates nothing, is the exception in the property.
One workflow is represented, so `CreationAssumption` allows one creation.
The last two need what a request in the middle of its commits still has to
write (`KnowsInv`): the step its approval was requested for, and what its write
may turn the loaded row into. `LastDecisionUnblocks` is inductive with it;
`ApprovalAssumption` says that an approval id is drawn by one request.
`CompletionFollows` has the hypothesis `NeverReopened`. It is needed: TLC finds
a behaviour of three requests, more than the run admits, in which the last
write of `start_workflow` puts a workflow back in progress that was completed
between its commits, and nothing completes it again.

**Directory** (`CrmDirectoryProofs`): `DirectoryTypeCorrect`,
`SharedContactsAreLate`, `WhatIsClosedStaysClosed` and `ListingsStayConsistent`.
A write is admitted only if the tables stay consistent, so the tables need no
strengthening; the invariant says what an open transaction holds (`Opened`): the
row it loaded, the admission, the statement and the columns its service method
derived from that row, and SELECTs that are among the method's. Each property of
a commit is then a fact about handlers (`LeadSets`, `PropertySets`,
`ContactChecks`, …) and about what an UPDATE writes (`WrittenColumns`): a column
that a commit changes is one that the request sets, and for the unit of work one
that differs from the row as loaded. So a contact that comes to be shared was
looked for, with a SELECT that would find it now (`SharedIsOvertaken`). The
proof corrected `ListingsConsistent`: it had compared the new agent with the one
loaded, and fails so when one request assigns an agent, another deactivates the
agent, and a third, which had loaded the listing before, writes another column
of it. What counts is whether the commit changes the agent. `Agents` now has
these requests.

**Only model-checked.** Everything under fairness: `RequestsEnd` of `tasks` and
of `requests_end`, `AllDispatched` and `EntriesSettle`. Liveness and ENABLED are
out of the prover's reach; of what `RequestsEnd` of `tasks` says, the theorem
`RequestsDoNotDeadlock` proves the part that is a safety property.
Every other property of a run is stated by a theorem.

## 5. Plan

Done: the booking ledger, tasks, the scheduler, the settings cache, the queue,
webhooks, integrations, workflows and the directory tables, with their theorems.
What is worth doing next:

1. *Assistant*: `send_message` awaits the model with the user's message
   uncommitted and the conversation's key share-locked, and commits the message
   when the model fails; `delete_conversation` waits for it.
2. *Payment sequence at its limit*: a run with a small `SeqLimit`.

**Not modelled, and why.** Documents, the activity feed, the audit log,
monitoring and the notification routes flush without committing: their rows are
rolled back when the response is sent. Reports, dashboard and search only read.
`workers/notification_worker.py` and `services/workflow_service.py` cannot be
imported; nothing uses `utils/webhook_dispatcher.py`, `utils/webhook_validator.py`,
`utils/integration_factory.py` and `utils/integration_validator.py`. Logging in and refreshing tokens write nothing.
