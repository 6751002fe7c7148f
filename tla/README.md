# A TLA+ verification of the SNIST helpdesk

The helpdesk is a Flask application over MySQL.  Teachers open tickets, the
tickets are routed to assignees ("CAs") of a department, assignees move them
through a small life cycle, heads of department hand them from one assignee to
another.  `wsgi.py` serves it with several worker threads; the threads share
the tables and, inside a process, a connection pool.  Connections are in
autocommit, so nothing larger than one SQL statement is atomic: this is where
most of what can go wrong comes from, and what the modules are about.

Paths below are relative to the repository.

## 1. Inventory

| Component | Code | State | Operations | What is hard | What makes it correct | Here |
|---|---|---|---|---|---|---|
| Ticket life cycle | `db_services.py` 2406-2600, 2780-2890, 2981-3105; routes in `app/tickets.py`, `app/management.py` | `helpdesk_tickets`, `helpdesk_ticket_activity` | create, update status, reassign, reopen | read, decide, write in separate statements; statements resent after a lost answer; failure between statements | one ticket per submission; assignees of the right department, unless it could not be read; statuses explained by the timeline; steps allowed by some row the ticket had | modelled except notes, attachments and texts |
| Routing | `db_services.py` 1172-1197, 3477-3541, 2453-2494 | none of its own: reads tickets, mappings, users | resolve an assignee, fall back, validate the department | load read before the insert; fallbacks nobody tests; the check of the department is skipped when `get_user` fails | a new ticket is assigned inside the department or refused, unless the query that asks failed | as operators; the check is an action of `TicketLifecycle` |
| Category and assignee mapping | `db_services.py` 1962-2250, 2349-2382, 3437-3468; `app/management.py` 80-822, 1022-1093 | `helpdesk_categories`, `helpdesk_ca_assignments` | create, edit, rename, map, assign, remove, elect a default, disable, delete, the same in bulk | a form is decided on rows read earlier and written back; defaults elected on a list read earlier; statements resent | a removal and an assignment hold unless a concurrent or later request undoes them; names unique; rows keep their category | modelled in one department; locations are not |
| Users and roles | `db_services.py` 1370-1441, 1742-1920; `app/management.py` 24-73, 1097-1192 | `helpdesk_staff_roles`, the view `helpdesk_users` | create, update, promote, demote, soft or hard delete | references counted table by table, then the row deleted; errors swallowed; a role read from a view that hides it | no row refers to a deleted user; a demotion clears his categories | modelled except creation |
| Connection pool | `db_services.py` 150-415, 530-650, 715-803; `app/pool_metrics.py` | queue of idle connections, `_in_use`, `_waiters` | acquire, wait, ping, create, replace, release, sweep | the lock guards counters only; nested checkouts; a sweeper; a leak on replacement | no connection in two hands, none forgotten, counters right, every wait ends | modelled, without the exported gauges |
| Transactions | `db_services.py` 650-713 | thread-local connection | `transaction()` | - | - | not modelled: the application never calls it |
| Migration runner | `scripts/migrate.py` | schema, `helpdesk_schema_migrations`, advisory lock | up, down, bootstrap, repair, status | crash between two DDL statements or before the tracking row; lock lost with its connection; files edited or deleted meanwhile; statements that keep an older object | one writer; decisions stay valid; the objects a row stands for are in the schema; no file skipped; an up can be repeated | modelled except the commands that only read |
| Login and rate limit | `app/auth.py` 45-138, `app/security.py` 25-165, `db_services.py` 1251-1338, 3906-3960 | `helpdesk_login_attempts`, `_FALLBACK_FAILURES` of each worker | check, verify, record, clear | counted before the password is verified and recorded after it; a table and a process-local list; statements resent; a failure whose INSERT fails is never counted | recorded failures exceed a limit by no more than the logins served at a time; a success clears for good | modelled except sessions and single sign-on |
| Notifications | `email_services.py`, `sms_services.py` | none | mail and SMS, in daemon threads | errors swallowed, threads die with the worker | dispatched when due, and not without a cause | the dispatch is an action of the ticket model |
| Audit events | `db_services.py` 3545-3580 | `helpdesk_audit_events` | log | errors swallowed | no event for something that did not happen | the event of a reassignment |
| Demo engine | `app/demo_engine.py` | dictionaries | the same interface in memory | - | - | not modelled: no production path |
| Web layer, dashboards, analytics, API | `app/__init__.py`, `app/api.py`, `app/dashboards.py`, `app/analytics.py`, `app/helpers.py` | session | rendering, queries | - | - | not modelled; the guards of the ticket routes are in `TicketRules` |
| Health, startup checks, configuration | `app/health.py`, `app/startup_checks.py`, `app/config*.py` | none | probes | - | - | not modelled |
| Schema | `sql/migrations/` | - | unique keys, enums, foreign keys | - | - | the keys the handlers rely on |
| Scripts, templates, static files, `app.py` | `scripts/`, `templates/`, `static/` | - | one-off data moves, user interface, a shadowed monolith | - | - | not modelled |

How they interact: a route checks the role and calls one method of the service
in `db_services.py`; the method takes a connection from the pool for each
`with self.connection()` (and, while it holds it, a second one for `get_user`),
sends statements through `_execute_cursor`, which resends a statement whose
connection was lost, and dispatches notifications at the end.  The tables are
shared by all threads; the queue, the counters and the lock of the pool by the
threads of a process and its sweeper.

`PROJECT.json` lists the hazards of this code at their lines, with the
properties that cover each.

## 2. Modules

| Module | What it is |
|---|---|
| `TicketRules` | the decisions of the handlers as operators on data: transitions, permissions, departments, routing.  No state. |
| `TicketLifecycle` | `create_ticket`, `update_ticket_status`, `reassign_tickets` run by concurrent threads, one action per SQL statement |
| `TicketBoard` | the abstract specification: a board of tickets with the steps Open, Move and HandOver and nothing else.  `AtomicSpec` lets a step be decided by the row as it is, `StaleSpec` by any row the ticket has had |
| `ConnectionPool` | `connection()`, `PooledConnection.close()`, the replacement in `_execute_cursor`, `sweep_idle_connections()` |
| `ConnectionLending` | the abstract specification of the pool: connections are lent to one borrower at a time, who alone opens, breaks and gives back what he has.  No queue, counters, waits or sweeper |
| `MigrationRunner` | `up`, `down`, `bootstrap` and `repair` of `scripts/migrate.py` by concurrent processes, with lost connections, refused statements and files that are edited |
| `CategoryDirectory` | the handlers that write categories, mappings and staff, and the creation of a ticket that reads them, run by concurrent threads, one action per SQL statement |
| `LoginLimiter` | logins on several workers: the count of failures, the password, the record, and the tracker each process keeps |
| `MC...` | the instances TLC checks |
| `TicketLifecycleProofs`, `TicketHistoryProofs`, `TicketRefinementProofs`, `TicketAuditProofs`, `ConnectionPoolProofs`, `MigrationRunnerProofs`, `CategoryDirectoryProofs`, `LoginLimiterProofs` | theorems and proofs |

Operators named `...Slip` are not part of a specification.  Each is the
operator defined below it with a mistake somebody could make in the code; a run
in which it takes that operator's place has to find a property violated
(`mutants` in `PROJECT.json`).

### TicketLifecycle and the code

* `ticket`, `activity` are the two tables.  A row keeps the columns decisions
  depend on: status, assignee, creator, category and submission key.  Activity
  rows are kept in the order in which they were inserted.
* `pc[r]` names the statement the handler of request `r` sends next, `job[r]`
  holds its local variables: what it read, and may since have changed.
* `StartUpdate` is everything `update_ticket_status` does up to its first
  write: the row it read decides.  `SetStatus`, `LogStatus`, `CloseMail` follow.
* `StartCreate` is routing, whose fallback takes roles from the view
  `helpdesk_users` (`ViewRole`): an assignee who is a teacher is none there.
  `CheckAssignee` is the check of the department.  It is skipped when `get_user`
  answers None, which it does when its queries fail: a fault lets the creation
  go on unchecked.  `InsertTicket` or `DuplicateTicket` (error 1062 on
  `uq_tickets_submission_key`), `LogCreate`, `AllocMail` follow.  Routing reads
  the load of the assignees before the insert, so it is stale as in the code.
* `StartReassign` checks the people.  The selection is a sequence, as
  `getlist` returns it (`app/management.py:1280`), and nothing removes an id
  that occurs twice.  `CheckTicket` reads and validates one ticket; `CheckDepartments` compares departments when all are read; then
  `MoveTicket` and `LogMove` alternate, and `Audit` ends.
* A statement ends in one of four ways (`Applied`, `NotApplied`): it succeeds;
  it is applied, its answer is lost and `_execute_cursor` sends it again, at
  most `MaxAttempts` times; it is applied and its error ends the handler; it is
  not applied and its error ends the handler.  A worker that dies is the same as
  an error: nothing is rolled back.
* `uq_activity_dedup` contains `created_at`, in seconds.  There is no clock in
  the model: an equal row *may* be of the same second.  `PutLog` takes a refusal
  for success, as the two ticket handlers do, `LogMove` fails on it, as
  `reassign_tickets` does.  A row whose `from_status` is NULL is never refused.
* `past` is a history variable: the rows each ticket has had.

Left out: requests refused at once, and failures before the first write other
than in the check of the department (they end the request, except in looking up
the block, which is swallowed and leaves the ticket with another block: any
block is tried); `remarks`, `time_taken`, attachments, notes; the two identities
(`id` and `teacher_id`) of one member of staff, on whose department and active
flag the three tables `get_user` asks are taken to agree; users, mappings and
categories that change meanwhile (constants here).

### ConnectionPool and the code

* A checkout is one activation of `connection()`.  `Caller[k]` is the checkout
  whose `with` block encloses it; an inner checkout begins only while the outer
  one holds its connection, and the outer one leaves only after the inner one.
* The lock guards `_in_use` and `_waiters` only.  `ReadInUse` and `EnterWait`
  are separate actions, as are the two halves of `close()`: `Decrement` under
  the lock and `GiveBack` after it.
* `WaitTimeout` may happen whenever the queue is empty: there is no clock.
* `QueryLost` begins the replacement in `_execute_cursor`: `connection()` is
  called again, the raw connection moves into the old wrapper and the new
  wrapper is dropped without `close()`.
* `open` is the set of connections whose socket this process has not closed.  The server
  closing one is seen by `Ping`, which revives the connection or drops it.
* The sweeper takes connections out one at a time, keeps or closes each for
  its age (a choice), and puts the kept ones back.
* To `ConnectionLending` the connections of the queue and of the sweeper are free,
  those a checkout has a reference to are lent to it, and `open` are the usable
  ones.  A replacement is a `Break` followed by a `Borrow` or `Connect`, and
  the closed connection it leaves behind a `Discard`.

### MigrationRunner and the code

* `tracked` is `helpdesk_schema_migrations`, the checksum of each row;
  `schema` the definition each object (table, column, constraint, view) has in
  the database; `disk` the contents of `sql/migrations`, which `Edit` may change
  or add to and `Delete` may take from at any time.
* `Found` are the schemas a database may have at first.  An older table that no
  migration knows is the case for which the baseline says `IF NOT EXISTS`.
* `holder` is the owner of `GET_LOCK`, `live` the runners whose session the
  server still has.  `Lose` drops a session and frees its lock; the process
  finds out at its next statement (`Disconnected`), and until then may do
  anything that needs no answer, like opening a file.  The process dying is the
  same to the database as losing its session.
* `Acquire` or `Refuse`, `ReadStatus` (what `status()` returns, and whether the
  command stops because of it), then for each selected file `Open`, which reads
  the file a second time, `Execute` for each statement, and `Record`, the row of
  the tracking table.  Every command ends in `Leave`, the `finally` of `main`.
* A statement is the definition (`Effects`) it would give its `Object`, and its
  `Mode` is what it does when the object is there: keep it (`ifMissing`: `CREATE
  TABLE IF NOT EXISTS`, and the checks by name of 0002 and 0003, which compare no
  definitions), replace it (`replace`: `CREATE OR REPLACE VIEW`), change it and
  fail without it (`modify`: `MODIFY COLUMN` of 0007), or fail (`once`: a bare
  `ADD COLUMN`).  `Result` and `Clashes` say this.
* A command whose file is gone when it is read again, or has no DOWN marker to
  roll back to, fails (`Unusable`).
* `via` is history: how the row of a file came to be, and whether a rollback or
  a repair of it is under way.

Left out: `status`, `--dry-run` and `check_pending_migrations`, which read only;
how SQL text is split into statements; a file that is deleted while `status()`
itself reads it, which ends the command before it has decided anything.

### CategoryDirectory and the code

* `category`, `mapping`, `staff` and `tickets` are tables, with the columns that
  refer to one another.  A row carries the request that wrote it last, which no
  handler reads: the properties are about rows older than a request.
* Categories are looked up by id, and a request that creates one gives it its
  own name as id.  A mapping is identified by its category, assignee and block.
* `Arrive` is the handler up to its first statement after those that read the
  rows the form names.  `First` and `Entry` tell where a handler goes from
  there; handlers share the statements of `db_services.py` they share in code.
* A statement that writes ends in one of the ways of `Applied`; one that only
  reads answers or fails (`Fail`).  `update_user` and `delete_user` catch the
  errors of their statements and go on (`Ignored`); a count of `delete_user`
  that fails is taken for zero (`Count`, `missed`).  Creating and editing a
  category catch the errors of promoting and mapping an assignee (`CarryOn`).
* `RolesShown` is what `get_user` may call a user: the view `helpdesk_users`,
  which it asks last, shows every teacher as FACULTY.

Left out: departments (one here; the checks are in `TicketRules`); requests
refused at once; the audit events; the list of locations; `create_user`, which
inserts one row.  A form that loops over several categories is several
requests.  That a category just created is renamed before its INSERT is sent
again, so that it is inserted twice, is left out.  `delete_category` of the
route first counts the unresolved tickets, which the count of the service
repeats over all of them.  `get_user` asks three tables and hides its errors;
the model takes it to find a user who is there.  A person has one id: the
SELECTs of `helpdesk_staff_roles` by which unassigning and deleting look for the
second id of a teacher, and whose errors are swallowed (`db_services.py`
1853-1864, 2166-2175, 2212-2221), are left out.  When one of them fails, rows
under the other id stay, so `RemovalTakesEffect` and `NoReferenceLost` speak of
the id the request names.

### LoginLimiter and the code

* `failures` are the FAILURE rows inside the window, one for each time an INSERT
  was applied; rows of other outcomes are never counted.  `tracker` is
  `_FALLBACK_FAILURES` of each worker.  `Expire` stands for the passing of time.
* `CountAccount` and `CountNetwork` are the two queries of `check_rate_limit`;
  when either fails, `Prune` and `Decide` consult the tracker, whose list is
  read and written back in two steps.
* `Verify` is `authenticate_user`, `TrackFailure`, `InsertFailure`,
  `TrackSuccess`, `InsertSuccess` and `Clear` are `record_login_attempt`.
* `InsertFailure` may give up: the error is logged and the answer is the same
  (`app/security.py:171`), so this failure is never counted.  `lost` notes that
  (history), and `gone` the logins whose row has aged or been cleared.
* `Crash` takes a worker with its logins and its tracker.

`AccountIsBounded` and `NetworkIsBounded` count the `Standing` failures: of the
logins the table let through, those answered as failed whose record was neither
lost, nor cleared by a success, nor aged, and those whose row is there though
their worker died.  Nothing bounds the others, in the model or in the code.

Left out: sessions and how fresh the role in them is, single sign-on, the change
of password, and the legacy counter `LOGIN_ATTEMPTS`, which only the callback of
single sign-on consults.

## 3. Runs

Every run checks for deadlock, except `Migrations`, `Directory`, `UserDemotion`
and `Login`: there the system stops when all commands and requests are served.

| Run | Checks | Instance |
|---|---|---|
| `TicketSubmissions` | `TypeOK`, `OneTicketPerSubmission`, `AssigneeInDepartment`, `AuditedReassignIsComplete`, `ImplementsStaleBoard`, and under `FairSpec` `ResolvedIsAnnounced`, `RequestsEnd` | 5 users of two departments (one under two spellings), an HOD and an administrator, 2 categories, one of them mapped out of its department for one block; one assignee is a teacher, whom the view hides; 1 ticket (of the mapped category), room for 2; 2 requests at once; 1 form; selections of two tickets and of one twice; 1 fault; 184 thousand states |
| `TicketRaces` | `StatusAccountedFor`, `StatusesHaveCause`, `ClosureMailHasCause`, `AnsweredIsDone`, `TicketsEndure`, `ImplementsStaleBoard` | 3 concurrent requests on one ticket, 1 fault; 557 thousand states |
| `TicketSerial` | `ImplementsAtomicBoard` | 3 requests, one thread, no mapping (routing falls back), 1 fault; 176 thousand states |
| `TicketTransitionRace` | `TransitionsEnforced` is violated | 2 updates, no fault |
| `TicketPartialReassign` | `ReassignIsAtomic` is violated | 1 reassignment of 2 tickets, 1 fault |
| `PoolSafety` | `TypeOK`, `ExclusiveConnection`, `NoneForgotten`, `HandedOutOpen`, `InUseAccounted`, `WaitersExact`, `SocketsBounded`, `ImplementsLending` | 3 checkouts, one nested in another, 4 connections, maxsize 1, 1 loss, the sweeper |
| `PoolLiveness` | `CheckoutEnds` | 2 nested checkouts, 3 connections, maxsize 1, 1 loss, `FairSpec` |
| `PoolGauge` | `GaugeReturnsToZero` is violated | 1 checkout, 1 loss |
| `Migrations` | `TypeOK`, `OneWriter`, `SnapshotIsCurrent`, `TrackedMeansApplied`, `FullUpInOrder`, `LockIsFreed`, `UpCompletes` | 3 files in two versions, one added later, one that cannot be repeated; statements of all four modes; an empty database or one with an older table; 2 runners, 3 commands, 1 edit, 1 lost connection, refused statement or deleted file; 424 thousand states |
| `Directory` | `TypeOK`, `RemovalTakesEffect`, `AssignmentTakesEffect`, `NoReferenceLost`, `RowsKeepCategory`, `NamesAreUnique` | 1 category with an assignee, 1 account and 1 teacher; 3 requests, 2 at a time; 1 count that fails; 7.5 million states |
| `UserDemotion` | `DemotionClears` is violated | a teacher mapped to a category, 1 demotion |
| `Login` | `TypeOK`, `AccountIsBounded`, `NetworkIsBounded`, `SuccessClears` | 2 accounts, 2 addresses, 2 workers; 3 logins, 2 at a time; limits of 1; an INSERT applied twice or not at all; 1 crash; 8.2 million states |

What they show.  With one thread the handlers are the board one would like
(`ImplementsAtomicBoard`), faults included.  With several they are not, but they
are the board of `StaleSpec` (`ImplementsStaleBoard`): nobody writes a status
or an assignee that the rules would not have allowed for a row the ticket had
at some time.  The difference between the two is what `TransitionsEnforced`
shows violated; what is left of it is `StatusesHaveCause`, that a status comes
from one the ticket has had, and `TicketsEndure`, that nothing makes it PENDING
again.  Independent of the races, tickets are never duplicated, assignees stay in
their department (but for a creation whose query for the department failed),
statuses are accounted for, the audit log does not claim what
did not happen, and an answer of success is true (`AnsweredIsDone`): a request
that is half done has failed.  In the pool no connection is shared or lost, the
process keeps no socket beyond what the queue and the checkouts can have
(`SocketsBounded`), and no wait is for ever, but `_in_use` only grows with
replacements.

A migration that dies leaves statements without a tracking row and never a row
without its objects (`TrackedMeansApplied`).  The row does not always speak of
their definitions: an `IF NOT EXISTS` keeps an older object, and a repair of the
edited file records the new checksum all the same.  Statements that impose a
definition have imposed it, until another file changes the object.  A runner that lost its lock cannot write, so what it
decided on stays true.  What an administrator removes or assigns may be undone
by a request that ran along with his, even one that only renames the category
and writes back the default assignee it had read, but not by one that had
ended.  The keys of the schema hold where a handler tests in one statement and
writes in the next.  A limit on failed logins is exceeded by no more than the
logins that are served at a time, as far as the failures are recorded and until
a success clears them.

### Bounds

* Requests and `Threads`: two requests show every race between a read and a
  write, and two equal updates decided on the same row repeat a row of the
  timeline, which brings in `uq_activity_dedup`.  With three, a ticket is
  resolved and reopened between the read and the write of another request.
* `Ids`: one seeded ticket and one id for each request that may create one;
  `Room` stops creations for which no id is left.
* `MaxAttempts` is 3, `retries` in the code.  `MaxFaults` is the number of
  statements that fail in a behaviour; one is enough for every handler to stop
  after every statement and for every statement to be sent twice.
* `Conns` bounds the connections alive at a time, `MaxLosses` the connections
  lost while a query runs.  With maxsize 1 the pool is exhausted by the first
  checkout, so the second waits, times out, and comes back to a full queue.
* `Migrations`: two runners exclude each other, a third command follows a failed
  one; with one edit a file changes between status and execution, or appears;
  `MaxLosses` bounds lost sessions, refused statements and deleted files together.
* `Directory`: two requests at a time show every race between a read and a
  write, and the third comes before, between or after them.  With two possible
  assignees there is one to take away and one to elect.  The forms of bulk
  enabling and of mapping without a default go through statements other forms
  go through too, and are not posted; assigning in full and removing are posted
  about the account, the other ways of assigning about the teacher.
* `TicketSubmissions`: the selections are two tickets out of the order of their
  ids and one ticket twice; the others differ in nothing a handler looks at.
* `Login`: with limits of 1 every failure counts, and the third login finds what
  the two before it have left.  `MaxSends` is 2 of the 3 attempts of the code:
  the second copy of a row is what matters.
* Symmetry: over requests in `TicketRaces`, `TicketSerial`, `Directory` and
  `Login` (they are interchangeable and unordered), over connections in
  `PoolSafety`; in no run of a liveness property.

### Fairness

`FairSpec` of the tickets is weak fairness of `Step(r)`: a thread that serves a
request goes on with it.  The code's loops are bounded (`retries`, the tickets
of the form), its statements have timeouts, and no handler waits for another.
Nobody is obliged to send a request.  A thread that dies is a fault, after
which the request has ended.

`FairSpec` of the pool is weak fairness of `Acquire(k)`: a thread inside
`connection()` goes on.  `queue.get` has a timeout (`MYSQL_POOL_WAIT`), which is
what `CheckoutEnds` depends on.  No handler is assumed to give its connection
back, and the sweeper need not run.

`Spec` of the migration runner has weak fairness of `Progress(r)`: a process that
has started a command goes on until it ends.  Nobody need start one, and losing
a connection or editing a file is never obliged.  It takes a statement to end:
the connection of `migrate.py` has no read timeout, so a DDL statement that waits
for a metadata lock keeps the advisory lock as long as it waits.  `CategoryDirectory` and
`LoginLimiter` have no liveness property and no fairness.

## 4. Theorems

They hold for every value of the constants that satisfies the assumptions
`ConstantsOK`, `LifecycleConstants`, `PoolConstants`, `MigrationConstants`,
`OwnObjects`, `DirectoryConstants` and `LimiterConstants`: any number of users,
tickets, threads and faults, and any finite number of requests; any number of
checkouts and connections and any `maxsize`; any files, runners and commands; any limits.  `OwnObjects`
says that a migration's DOWN section takes out no object another one defines.

| Theorem | Property | Argument |
|---|---|---|
| `TypeCorrect` | `TypeOK` | from the inductive invariant below |
| `DepartmentsKept` | `AssigneeInDepartment` | a ticket is checked when it is read and written much later, so the invariant has to say that what a job is about to write still fits, or is of a creation that could not check (`PastCheck`, `DInv`).  It does because the category of a ticket never changes and a reassignment always checks |
| `OneTicket` | `OneTicketPerSubmission` | `KeysUnique` from the guard of the insert; `AllNamed`: a job past its insert names a ticket with its key, and rows never disappear nor change keys |
| `StatusExplained` | `StatusAccountedFor` | `AllAccounted`: a status that has no row of the timeline has a request that wrote it and is before its row or failed on it; the timeline only grows |
| `StaleBoardImplemented` | `ImplementsStaleBoard` | `History`: the row a job decided on is among the rows its ticket has had (`AllJustified`), and so is the present one (`RowsKept`).  Each action is then a step of the board or leaves it alone |
| `SerialBoardImplemented` | `ImplementsAtomicBoard` | for `Threads <= 1`.  `Undisturbed`: nobody else is between a read and a write, so the row a job decided on is still the row that is there |
| `SerialTransitions` | `TransitionsEnforced` | for `Threads <= 1`, from the steps of the board |
| `StatusesCaused`, `TicketsStay` | `StatusesHaveCause`, `TicketsEndure` | from the steps of the stale board: the row that allowed a step is in `past`, and no transition leads to PENDING |
| `AuditsAreComplete` | `AuditedReassignIsComplete` | `Traced`: every ticket a reassignment has moved was given to the new assignee, and all but the one in hand have their row of the timeline, which shows the status that was read; neither is taken back, whatever other requests do |
| `ClosuresAreCaused` | `ClosureMailHasCause` | `Announced`: a request about to tell of a closure has its row in the timeline; the requests that ended and closed a ticket (`Closers`) only get more, by one with each notification |
| `AnswersAreTrue` | `AnsweredIsDone` | `Traced` for reassignments; `Told` for updates: what a job at each statement has written, logged and announced, the last unless a statement has failed |
| `StepsAreUsedUp`, `NobodyIsStuck` | half of `RequestsEnd` | each step lowers `Left`, the number of statements the request has still to run, or counts a failure, and touches no other request's; `Ready`: the guard of the statement at `pc` holds, for which the ids that are left must suffice for the creations that were let in (`Roomy`) |
| `BreaksHaveCause` | `BrokenOffHasCause` (in the proof module) | `LinesOwed`: a row of the timeline that leaves the status alone is owed to a reassignment by the same manager that has moved the ticket, so a row refused as a duplicate is another reassignment's, or of an earlier place of the same form, unless a statement has failed |
| `AtomicUnlessDisturbed` | `ReassignIsAtomic` | from the two before: without faults and without a ticket one manager hands over twice, by two requests or by one form (`HandedOverOnce`), the promise of the comment is kept |
| `RoutingFindsSomebody` | operators of `TicketRules` | a non-empty pool has a least loaded member; a category with a mapping, a default or an assignee the view shows (`PeopleThere`), all of its department (`PeopleFit`), never refuses a ticket |
| `PoolTypeCorrect`, `ConnectionsExclusive`, `NoSocketForgotten`, `OnlyOpenHandedOut` | `TypeOK`, `ExclusiveConnection`, `NoneForgotten`, `HandedOutOpen` | one inductive invariant: at each pc what a checkout has (`CheckoutsOK`), and that the queue, the sweeper and the checkouts partition the connections |
| `WaitersCounted`, `CheckoutsCounted` | `WaitersExact`, `InUseAccounted` | `CountersOK`: the counters against cardinalities of sets of checkouts; a replacement under way has a loss that its leak is charged to |
| `GaugeOffByLosses`, `GaugeNeedsNoLoss` | `GaugeReturnsToZero` | from `CountersOK`: with nobody checked out `_in_use` is at most `losses`, so it is 0 if there was none (`MaxLosses = 0`) |
| `SocketsAreBounded` | `SocketsBounded` | by `NoneForgotten` every open socket is in the queue, the list of the sweeper or a checkout; a checkout has one open one at most (`Held`), and the queue `maxsize` |
| `LendingImplemented` | `ImplementsLending` | every step of the pool is a step of the lending or leaves it alone, by the partition of the connections in the invariant |
| `CheckoutsGoOn` | half of `CheckoutEnds` | `StepsLeft` of a checkout only falls, whoever takes a step |

For the other modules, where `TypeCorrect` is a theorem of each:

| Theorem | Property | Argument |
|---|---|---|
| `WritersExclude` | `OneWriter` | `LiveHolds`: a runner whose session is alive and that has begun has the lock |
| `DecisionsStayValid` | `SnapshotIsCurrent` | by `OneWriter` nobody else changes a row; the runner itself strikes each file off its list as it writes its row |
| `TrackedIsApplied` | `TrackedMeansApplied` | `Ran`: after each statement of the version in hand its object is in the schema, in its definition if it imposes one; nobody else writes meanwhile, and a rollback takes no object from another file (`OwnObjects`) |
| `UpGoesInOrder` | `FullUpInOrder` | files are struck off lowest first, and `SnapshotIsCurrent` keeps what was read true |
| `HolderIsAtWork`, `RunnersComeForward` | half of `LockIsFreed` | `HolderLives`: the lock goes with the session that has it, so its holder is running and has a step it can take; each step uses up a file or a statement |
| `UpsGoThrough` | half of `UpCompletes` | `SnapshotIsCurrent` keeps the INSERT of the tracking row from clashing, and a statement that keeps or replaces what is there cannot; an up stays under way until it is through, a fault hits somebody or a file is deleted |
| `RemovalsTakeEffect`, `DeletionsLoseNothing` | `RemovalTakesEffect`, `NoReferenceLost` | what a step leaves behind was there or is signed by its request (`Signed`), which has not ended, so facts about the rows from before `q` began can be spoilt by `q` only (`OthersProgress`); `Progress(q)` says which of them hold at each of its statements |
| `AssignmentsTakeEffect` | `AssignmentTakesEffect` | `Kept(r)` says at each statement of an assignment what it has made; `Spares(s)` which kinds of request take what away; one that is served has not ended, so `r` meets it (`OthersKept`) |
| `CategoriesStay`, `NamesStayUnique` | `RowsKeepCategory`, `NamesAreUnique` | from the keys of the schema, whatever the handlers tested |
| `AccountBound`, `NetworkBound` | `AccountIsBounded`, `NetworkIsBounded` | `Few`: the logins whose failure is in the window together with those admitted and still served are at most the limit less one, plus `Threads`; a login is admitted when the count is below the limit, and there are at most `Threads` to be recorded yet.  `Accounted`: a failure that was answered has its row, or lost it to time or a success, unless its INSERT was not applied |
| `ClearsForGood` | `SuccessClears` | a login that has ended inserts nothing more (`EndedOK`), so what comes after the DELETE is from one that was being served |

`Invariance` (tickets), `PoolInvariance` and `CountersInvariance` are the
inductive invariants themselves.  Each proof has a lemma per action
(`...Keeps`, `...Named`, `...Accounted`, `...Mapped`, `...Counts`), and lemmas
about the ways a statement ends, which all actions use.

Only model-checked: the liveness properties `ResolvedIsAnnounced`, `RequestsEnd`,
`CheckoutEnds`, `LockIsFreed` and `UpCompletes`.  They follow from weak fairness,
and `WF` contains `ENABLED`, which is beyond the prover, as is the induction on the
number of steps that are left.  What safety has to contribute is proved: that
steps only go forward and use something up (`StepsAreUsedUp`, `CheckoutsGoOn`,
`RunnersComeForward`), that nobody is without a step he can take (`NobodyIsStuck`,
`HolderIsAtWork`; in `connection()` each step can be taken whatever the queue
holds), and where the end may be (`AnswersAreTrue`, `UpsGoThrough`).

## 5. Where the code and its words differ

* `TransitionsEnforced`: `update_ticket_status` checks the transition
  (`db_services.py:2832`, "Enforce valid status transitions") on a row it read
  earlier and writes by id.  Two assignees' clicks, or a double click, suffice:
  both read IN_PROGRESS, one resolves, the other puts the resolved ticket on
  hold.  With one thread it cannot happen (`SerialTransitions`): the check is
  right, and it is only too early.
* `ReassignIsAtomic`: "Atomic Execution" (`db_services.py:3064`) is a loop of
  statements in autocommit; a failure leaves a part of the selection moved.  By
  `BreaksHaveCause` there are two other ways, which need no failure: two requests
  of one manager hand the same ticket over within a second, or one form names a
  ticket twice (nothing removes the second, `app/management.py:1280`), and the
  second row of the timeline is refused.  By `AtomicUnlessDisturbed` there is no
  other.
* `GaugeReturnsToZero`: the gauge `app/health.py:167` describes as "currently
  checked out" never comes down again after a replacement.  Nothing else spoils
  it (`GaugeNeedsNoLoss`), and it is too high by one for each at most
  (`GaugeOffByLosses`).
* `DemotionClears`: "changing an Assignee to USER automatically clears all their
  category assignments" (`tests/test_user_ca_categories.py:132`).
  `app/management.py:1180` clears them if the old role is CA, and `get_user`
  calls every teacher FACULTY (`sql/migrations/0006_reconcile_views.sql:8-34`):
  a teacher who is an assignee keeps his categories.

Seen while reading, without a run of their own: `docs/deployment.md:103`
describes a rollback, but the DOWN sections of migrations 0003 to 0006 are
comments only, and `migrate.py:306` deletes the tracking row all the same;
`ca_performance_stats` (`db_services.py:3781`) joins the mappings and counts a
ticket once for each of them; `delete_user` "Hard delete when safe with zero
references" (`db_services.py:1910`) deletes also when a count has failed.

## 6. Not modelled

* `app.py`: shadowed by the package `app/`, so `wsgi.py` never loads it.
  `app/demo_engine.py`: answers the same SQL from dictionaries in demo mode and
  tests; it is single-process, keeps nothing, and would be modelled by the
  modules that are here.
* `scripts/` except `migrate.py`: data moves and set-up an operator runs once.
* Rendering, dashboards, analytics and reports: queries that change nothing.
  Their guards and the session are in no module; `TicketRules` has the guards of
  the ticket handlers.
* Inside the components: notes and attachments of tickets, which nothing reads
  to decide; `transaction()`, which nothing calls; the export of the pool's
  gauges; sessions and single sign-on; locations; `create_user`.
* Mail and SMS after their dispatch: what becomes of a daemon thread is outside
  the tables and the process that answered.
* The process-local caches (`_BLOCKS_CACHE` in `app/api.py`, `_DEPT_CACHE` in
  `app/helpers.py`): they fill selection lists.  One timestamp serves the entries
  of all organisations, so an entry may be older than the 60 s it is meant to
  live; the hazards list it.

What is left to do: the composition of `TicketLifecycle` with the pool, in which
a thread that runs a statement holds a checkout.  It would show that the two
components do not get in each other's way, which `CheckoutEnds` already says of
the pool for any handler.
