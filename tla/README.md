# Verification of the independent teacher workspace

TLA+ models of the backend in `apps/backend/src/teacher_workspace`, the TLC
configurations that check them on small instances, and TLAPS proofs of the
theorems that hold for every instance. Paths such as `queue.py:52` are files of
that package; `docs/…` is the repository's documentation.

The program is a workspace for independent teachers: students, lessons, AI-written
lesson plans and feedback that a teacher reviews, wrong-question sets, billing and a
material library. A FastAPI process serves requests, each in one transaction of a
PostgreSQL database (READ COMMITTED); one worker process polls a table of AI tasks,
calls a model provider and stores drafts. Nothing else runs concurrently, and nothing
is shared but the database and the files of the storage provider. What is difficult is
therefore in the interleavings of transactions: requests of several tabs, the worker's
transactions, its crashes and expired leases, and account operations that take rows
away under all of them.

## Inventory

| Component | State | Operations | What makes it correct |
|---|---|---|---|
| AI job queue, worker (`queue.py`, `worker.py`) | `ai_jobs`, `ai_job_attempts`, lease, backoff | enqueue, claim, heartbeat, complete, fail, cancel, poll loop | one draft and one bill per task; leases held exactly while RUNNING; the attempt log agrees; no task is stuck |
| Account operations on the queue (`auth.py`, `manage_users.py`, `account_deletion.py`) | account status, scheduled deletion | request/cancel deletion, AI permission, two-transaction purge | rows canceled consistently; a purge never ends the worker |
| Lesson documents (`phase2.py`, `phase2_service.py`) | document row, versions, pointers, review status | generate, regenerate a section, save, submit, approve, reject, executor | no lost edit, one approved version, review of what was submitted |
| Lesson feedback (`phase3.py`, `phase3_service.py`) | feedback row and versions | draft, save, submit, approve with its side effects, executor | the approval is applied once; no keywords or edits are buried |
| Plan progress and mastery (`phase1.py:280-319, 663-930, 1004-1100`, `phase3.py:455-539`) | plans, plan items, plan revisions, mastery rows and evidence | create, edit, archive, complete a lesson, approve feedback | one revision per plan version; no minutes lost by an approval; evidence is a chain |
| Wrong questions and question sets (`phase4.py`, `phase4_service.py`) | question rows, versions, generated questions, review dates | create from image, save, review, archive, generate sets, publish | what is linked, published or quoted is the approved version |
| Students, subjects and lessons (`phase1.py`) | students, subjects, links, lessons | create, archive, schedule, complete, cancel, reschedule | archived links hold no planned lesson; a lesson is rescheduled once |
| Billing (`phase5.py`, `phase5_service.py`) | prices, receivables, payments, allocations | price, override, reset, pay, allocate, void | allocations within the payment; receivables follow the pricing rules; no debt is hidden |
| Material library and upload quota (`phase7.py`, `storage_quota.py`) | material rows, stored files | upload, archive, download | rows and files agree; the quota holds |
| Account deletion and purge (`auth.py`, `account_deletion.py`) | scheduled deletion, rows, stored files | request, cancel, two-transaction purge | a purge only on request, complete, and in the end |
| Login, sessions, registration and recovery (`auth.py`, `auth_limits.py`, `login_throttle.py`, `manage_users.py`) | users, sessions, invites, budgets | register, login, logout, change and reset of the password, revoke, invite | sessions die with their password; an invite counts its registrations; codes and budgets hold |
| AI quota (`auth.py:676-715`) | monthly counters | reserve, book tokens | admitted tasks stay within what the operator granted |
| Backup and restore (`backup_restore.py`) | backups, services, database, stored files | create, verify, drill, restore | a backup is complete; a failed restore is not served |
| Prompt templates (`phase2.py:175-290`) | templates, versions | create, revise | version numbers without gaps |
| Exports, AI providers, application shell, web frontend | none of their own | formatting, HTTP, start-up | — |

They interact as follows. A handler that wants AI output reserves quota, changes the
document's row and inserts a task in one transaction. The worker claims the task in a
transaction of its own, reads the owner, and calls the executor of the document's
component; that executor commits the draft with the task's id, and only then does the
worker report the task's end to the queue. An approval of feedback writes the plan and the
mastery in its own transaction, where it meets the plan's own handlers. Billing reads and
writes the lessons that the schedule writes. Account operations cancel tasks in bulk and
remove accounts, with the files of their materials, questions and documents, in two
transactions. Backups are taken, and restored, under all of this. Handlers never wait for
the worker: a page polls.

The hard behaviours are listed with their lines in `PROJECT.json` under `hazards`:
rows read without a lock and written several statements later, tokens for optimistic
concurrency written as absolute numbers, late results of tasks whose lease expired,
crashes between an executor's commit and the report of its end, rows deleted under a
worker, a queue that must drain, row locks that an autoflush takes at a moment nobody wrote
down, files and rows that one transaction cannot cover, and tools whose every command may
fail.

## Plan

Written, in this order:

1. `JobLifecycle` — the documented machine of a task, abstract.
2. `AIJobQueue` — queue, worker and account operations; refines 1 in the deployment of
   the compose files. `AIJobQueueProofs`.
3. `LessonDocument` — the unlocked review workflow and its executor.
   `LessonDocumentProofs`.
4. `LessonFeedback` — the workflow with a row lock in every handler but one, and the
   approval that takes effect once. `LessonFeedbackProofs`.
5. `PlanProgress` — what an approval writes, against the handlers of plans and lessons.
6. `LessonSchedule`, and `Billing`, which extends it. `TeachingProofs`, of 5 and 6.
7. `Practice` — wrong questions and question sets. `PracticeProofs`.
8. `Accounts` — registration, sessions, passwords, codes, budgets, monthly quota.
   `AccountsProofs`.
9. `FileStore` — what rows and stored files promise each other, abstract;
   `AccountFiles` — uploads, exports and the purge, which implement it.
10. `BackupRestore` — the tool, on top of 9's abstraction. `FilesProofs`, of 9 and 10.
11. `Sums` — lemmas on sums over finite sets, for the quota of 9 and the ledger of 6.

Left, in the order of what it would add:

1. An abstract `ReviewedDocument` (append-only versions, at most one approved) that
   `LessonDocument` with one tab and `Practice` implement.
2. `PromptTemplates`, and the in-memory login throttle.

## The modules

### JobLifecycle

What `docs/states.md:18-22` promises of one task: it is submitted, started, leaves its
draft while it is RUNNING, and ends as SUCCEEDED (only with the draft), FAILED or
CANCELED; a failure that is not the last goes back to QUEUED; a purge erases it. One
record per task, no workers, no leases.

### AIJobQueue

State: the columns of an `ai_jobs` row (`status`, `leased_by`, `lease`, `due`,
`attempts_count`), its attempt rows as a sequence (`attempts`), its effects outside the
queue (`drafts`, the version rows that carry its id, and `usage`, how often its tokens
were booked), the account (`access`, `purgers`), and each worker's place in `run_once`
(`pc`, `work`, `tokens`). One action is one transaction or one step between two:

| Actions | Code |
|---|---|
| `AdmitRequest`, `Enqueue`, `RefuseRequest` | the access check of a request and its later commit (`auth.py:659`, `phase2.py:361-379`) |
| `Claim` | reclaim every expired lease, then take the oldest due row (`queue.py:16-56`) |
| `Heartbeat` | `queue.py:59-70`; only workers in `Renewers` call it, and `worker.py` never does |
| `CheckOwner`, `FindExisting`, `LockDocument`, `Land`, `Raise` | `run_once` and the executor it calls, up to the executor's commit |
| `CompleteJob`, `FailJob`, `CancelJob`, `LookupFails` | the report of the end, by job id, whatever happened to the row meanwhile |
| `RequestDeletion`, `DisableAI`, `EnableAI`, `CancelDeletion` | the bulk updates of account operations |
| `PurgeBegin`, `PurgeFinish`, `PurgeGivesUp` | the two transactions of a purge, by a worker in its idle loop or by an administrator |
| `LeaseExpires`, `BackoffElapses`, `Crash`, `Restart` | the clock and the containers |

Time is abstract: a lease may expire and a backoff may elapse at any moment after it
was set. This covers every relative speed of clock, worker and provider, among them a
provider that is slower than the lease, which is possible because the worker does not
renew it.

### LessonDocument

State: the document row (`doc`; `approved` 0 stands for NULL), the version rows by
number (`versions`), the tasks with the columns of their idempotency key (`jobs`), the
executor's row lock and what it read (`lock`, `merged`), the request each browser tab
has in flight (`req`) and what the tab shows (`screen`). A version's content is
abstracted to where it came from (`origin`) and which version it was made from
(`basis`), since that is what tells a lost edit from a kept one.

No handler of `phase2.py` locks the row. A request is therefore `Load` (the row and the
version check), `Check` (the second reads) and a commit (`Save`, `Enqueue`,
`ReviewVersion`); `Refuse` ends it with nothing written. The ORM updates only the columns whose
new value differs from the loaded one; `Written` and `Flush` say so, and the
counter-examples below depend on it. The executor holds the row lock from
`StartExecutor` to `Land` or `Abandon`, and commits of handlers wait for it
(`RowFree`). `EndJob` is all that the queue does to a task as seen from here.

The executor is run by one worker, as deployed: a task is executed while it is active,
and is not ended by somebody else while its executor holds the lock. What several workers do to one task is
`AIJobQueue`'s question.

### LessonFeedback

State as in `LessonDocument`: the feedback row, its versions, the tasks, the executor's
lock, the tabs; `applied` is the history of the versions whose plan minutes and mastery
were written. A version carries, besides its source, the version it was made from
(`basis`) and the entry whose keywords it organizes (`input`, `raw_input` in the code).

Here every handler takes the row lock before it reads (`owned_feedback(for_update=True)`)
and is one action: `Organize`, `Save`, `ReviewTransition`. `create_feedback_draft` is the
exception, and is taken apart: `EnterKeywords` (the row), `CheckEntry` (the running
tasks), `ReadNewest` (the newest number and the version to retire), `CreateDraft` (the
commit, which writes the columns that differ from the loaded row) or `RefuseEntry`. The
executor holds the lock from `StartExecutor` to `Land` or `Abandon`, as above. A row
exists from the commit of its first version; the unique `lesson_id` makes a second
insert fail.

### PlanProgress

State: the row of a plan (`plan`), its items with their minutes and row versions
(`items`), the numbered snapshots (`revisions`), one mastery row with its evidence, and
what the request of each tab holds (`session`: the rows as its ORM session loaded them,
which it does not load again). `credited` and `raced` are history: what each item should
have by the edits and additions so far, and which items a request wrote from an older row.

| Actions | Code |
|---|---|
| `CreatePlan`, `CreateItem`, `ChangePlan` | handlers without a read that matters; the revision is part of the step |
| `ReadPlan`, `ReadItems`, `Flush`, `Commit` | `update_plan_item` and `complete_lesson`: the reads, the UPDATE that the autoflush of the next SELECT sends (from here the rows are locked), the commit with the revision |
| `LockItem`, `LockPlan`, `ReadMastery`, `CommitApproval` | the approval of a feedback, its locks taken one by one in the order of its contents |
| `Refuse` | an error response, a lost race for `(plan, version)`, or the victim of a deadlock |

Two approvals never wait for each other's items: the first statement of an approval joins
and locks the link of student and subject (`phase3.py:114-122`), the same row for both, and
the second waits there. The model leaves that lock out and lets approvals overlap, which
gives it more behaviours than the code has. What remains of `Refuse` as the victim of a
deadlock is between an approval and a completion, whose UPDATEs lock items in an order of
their own.

### LessonSchedule and Billing

`LessonSchedule` has the archive marks of students, subjects and links, and the lesson
rows with status, minutes, price, receivable and the lesson they replace. No handler of
`phase1.py` locks: a request is a read (`ReadLink`, `ReadLesson`) and a commit
(`CreateLesson`, `CompleteLesson`, `RescheduleLesson`, `UpdateLesson`, `CancelLesson`,
`ArchiveLink`, …) that writes only the columns it changed; `reads` is what each of the
`Requests` has read. `ReadLink` has also the counts of the archive handlers: planned lessons
of the link, planned lessons of the student, active links of the subject, and
`ArchiveLink`, `ArchiveStudent` and `ArchiveSubject` decide at their commit by what was
counted then. `overlapped` is history: a lesson and its link when a request wrote it from an
older row, and, by `Decided`, the links about which a request decided by a mark or a count
that was no longer so when it committed.

`Billing` EXTENDS it with payments and allocations, composing the two: prices and receivables
(`UpdateLessonPricing`, `OverrideReceivable`, `ResetReceivable`) read the lesson without
a lock like the schedule's own handlers, so both race on one row; `LockPayment` followed by
`AddAllocation`, `VoidPayment` or `RefusePayment` holds the payment. `Paid`, `Outstanding`
and `Summary` are the sums of `phase5_service.py` and `phase5.py:454-513`.

### Practice

Both kinds of record in one function each: `rows`, `versions`, and `derived`, the versions
that knowledge-point links or published questions were made from. Handlers lock the row
first and are one action. An execution (`runs`) looks for its own draft before the lock
(`StartRun`), waits for it (`LockRow`), and lands or fails; two executions of one task may
overlap, as after an expired lease. A version of a generated set remembers the versions of
wrong questions that its prompt quoted (`uses`).

### Accounts

The tables `users`, `user_sessions`, `registration_invites` and `auth_rate_limits`, the
monthly counter, and the requests under way. A request is authenticated and goes on with
the user row it loaded; what needs the password spends a unit of its budget (committed on
its own), then locks the row, and ends with one of login, reset, change, rotation, revocation or
deletion request. Whatever inserts a row that refers to a user waits for that lock, by
the foreign key.

A budget is a window and the attempts in it. `Charge` is the upsert of
`auth_limits.py:16-36`: it adds an attempt, or begins a window with one. The clock is read
by the request and not by the statement, so a request that is late at a boundary sets the
row back to the window it read, and the next one sets it forward again; the model therefore
allows a new window at any charge, and numbers the windows by these. A request keeps the
number of the window that it was charged in, and may compare the credential after any
number of others have begun.

The purge is here with what it does to these tables (`PurgeCloses`, `PurgeDeletes`,
`PurgeStops`; `closing` is the account between its two transactions): the row of the user
and the sessions go, the `uses_count` of the invitation stays. `users` is indexed by the
id of an account and keeps the status `purged`; an account that is registered under the name
of a purged one is another id. Budgets are kept under the name in the code and outlive a
purge; here the new id starts with budgets of its own, which leaves out attempts that are
already spent. `history` counts comparisons by kind and window, resets, the largest limit
granted, and through which invitation an account came in, which the tables forget.

### FileStore, AccountFiles

`FileStore` is the promise: a file is stored before a row names it and goes after the row,
except while the account leaves. `AccountFiles` is the code: an upload locks the user row,
looks at the quota, stores, commits, and cleans up when it fails; an export stores under
the document's one key and commits without that lock; the purge lists the account, closes
it and lists the keys (`CloseAccount`), deletes rows, then objects one by one, then commits;
processes die and the storage refuses at every step. Deletion requests and cancellations
interleave: the cancellation was authenticated before the account was closed and looks at
nothing but the id when it writes. `ImplementsFileStore` is `FileStore` with `leaving`
replaced by an expression over the account. `history` names the three exceptions the
properties have to admit: `excused` objects (left by a death, or stored under a purge),
`raced` (such a late cancellation), `renewed` (cancelled and requested again under a
purge).

### BackupRestore

It EXTENDS `FileStore` (`named`, `stored` and `leaving` are the rows that name files, the
files, and whether the account leaves): while the services are up, the application does what `FileStore`
allows. `StartCreate`, `DumpDatabase`, `PackStorage`, `FinishBackup` make a backup;
`StartRestore` makes a safety backup the same way, then `StopServices`, `LoadDatabase`,
`EmptyStorage`, `UnpackStorage`, `StartServices`. Every command may fail, the load and the
unpacking half way: `LoadFails` leaves some of the old tables, or some of the target's,
`UnpackFails` some of either set of files. While the services are stopped nothing else
writes; `manage_users purge-due` is no service (`docs/m4-public-readiness.md:18-32`), and is
assumed not to be run during a restore. After a failure the services stay down
if the data was touched, and `StartByHand` is the operator who starts them again: without
a running api the tool refuses to run. `torn`, of a backup and of the data, is history: a purge took files
between dump and packing, or the operator started on less.

## What the runs check

| Run | Instance | Shows |
|---|---|---|
| `queue_fleet` | two workers, one of them renewing, one task, two attempts, a purge from the command line, two crashes, fairness | `RowsAgree`, `DraftAndBillAgree`, `FailedNeverRunsAgain`, `QueueDrains` |
| `queue_deployed` | one worker that also purges, two tasks | `RefinesLifecycle`, `NoWorkerExits` |
| `document_one_tab` | one tab, two tasks, five versions, row version up to 9 | `HistoryIsLinear`, `AtMostOneApproved`, `StatusBacked`, `SupersededIsFinal` |
| `document_unseen_doc` | one tab, two tasks | violates `ApprovesWhatIsShown` |
| `feedback_one_tab` | one tab, two tasks, five versions, row version up to 10 | `RowSpeaksOfNewest`, `EditsNewest`, `InputNeverOlder`, `AppliedOnce` |
| `plan_two_tabs` | two tabs, two items, two mastery levels, four plan versions, three pieces of evidence | `HistoryAgrees` (the chain of the evidence is a part of it), `MinutesCredited`, `ApprovalsNeverRace` |
| `billing_two_tabs` | two tabs, one link, two lessons, one payment, two prices, two lengths, an override | `LedgerAgrees`, `ReceivableFollowsRules`, `ArchivedIsUnused` |
| `practice_two_tabs` | two tabs, one question, one set, two overlapping executions | `RecordsAgree`, `QuotesApproved`, `ApprovedVersionKept`, `ReviewsWhatIsShown` |
| `accounts_two_requests` | two requests at once, one account followed and one that only registers, its purge, an invitation for two, two windows of every budget | `RegistrationsAgree`, `LiveSessionsAreCurrent`, `RecoveryCodesSpentOnce`, `ChecksWithinBudget`, `UsageWithinGrant` |
| `files_and_purge` | two uploads that do not both fit, one document, two purges, fairness | `QuotaKept`, `NoStrayObjects`, `PurgedOnRequest`, `DueIsPurged`, `ImplementsFileStore` |
| `purge_bound_doc` | the same | violates `EveryDueIsPurged` |
| `backup_and_restore` | two files, two backups besides the one being made | `BackupIsComplete`, `ServedDataIsComplete`, `ReturnsWhatWasAsked` |

A property named `…Agree` or `…IsLinear` is a conjunction of the named parts that stand
before it; in `PlanProgress`, `Billing`, `Practice` and `Accounts` the type invariant is
one of them. The type invariants of the other modules are theorems.

`CHECK_DEADLOCK FALSE` everywhere but in `backup_and_restore`: the system may stop when
teachers ask for nothing and the bounds are spent. The backup tool must never be stuck,
so there deadlock is checked.

Why the bounds are enough. A task's interesting lives need two workers (one late, one
current), two attempts (a retry and the last), and one crash; two tasks are needed only
for the order of claims, which `queue_deployed` has. For documents, two approvals with
a generation and an edit between them need four versions; five leave room for one more
draft to land. A feedback that is approved, reopened by a late draft and submitted again
needs two versions and a row version of 6. A race needs two requests or a request and an
executor, and every lock order needs two rows: hence two tabs, two items, two lessons, two
requests, two purges. A third piece of evidence is the first whose predecessor had one.
Two prices and two lengths (30 and 100 cents an hour, 45 and 50 minutes) give four receivables, rounded up, down
and to an override, so that an edit, a new price and a completion each change
what is owed. A link has all the races of archiving. That a subject has several links, and that
a replacement is rescheduled again (`OneReplacement`), is what the theorems add: with
payments and prices TLC cannot afford them. With
`Students = {student1, student2}`, three lessons, `MaxWrites = 4`, one price, one length and no payment
the same module checks both in two minutes. Two uploads exceed the quota together and not alone. `Followed` leaves to the
second account only its registration, which is all the invitation needs; budgets of 1,
limits of 0 and 1 and an invitation for two each have a state below and one at the limit. Two windows
are the fewest in which an attempt is charged before a boundary and compared after it.
`MaxVersions`, `MaxWrites`, `MaxPlan`, `MaxEvidence`, `MaxWindows` and `MaxChanges` cut histories off,
not interleavings; `MaxCrashes` bounds crashes only; `MaxBackups` bounds what is kept.

What the properties leave out. Those of `plan_two_tabs`, and those of
`billing_two_tabs` but `LedgerAgrees`, speak of rows that were not `raced`, or not `overlapped`:
`phase1.py` and the pricing of `phase5.py` take no locks, so two overlapping requests do lose updates
there. The properties say that this is the only way to lose one, and `ApprovalsNeverRace` that
an approval is never the request that does it; the next section says
what such an overlap does. The properties of documents and feedback are, but for
`HistoryIsLinear` and `AppliedOnce`, about one tab. `LedgerAgrees` and the properties of
`practice_two_tabs`, `accounts_*` and `files_and_purge` hold however requests overlap, with
the exceptions that `history` names in the last.

### Where code and documentation disagree

Two runs check a statement of the documentation, and TLC finds it violated by the code.
`PROJECT.json` quotes the statements under `findings`.

- `document_unseen_doc`: a submission whose commit waited for the executor returns a token that equals
  the executor's, so the next approval approves a version no tab has shown
  (`docs/architecture.md:26`).
- `purge_bound_doc`: an account with an allocated payment or approved feedback is never purged.
  The purge deletes lessons before the allocations and the evidence that refer to them
  with ON DELETE RESTRICT, so its second transaction fails every hour, for ever
  (`docs/m4-public-readiness.md:13`).

Four more are stated as properties that no run claims, because overlapping requests break
them. Each is found in seconds by naming it in a configuration of the module:

- `CompletedIsNotCanceled` (`LessonSchedule`, with `billing_two_tabs.cfg`): a cancellation that
  read the lesson before its completion was committed cancels the completed lesson
  (`phase1.py:1110`, `docs/states.md:8`);
- `EndedCostsNothing` (`Billing`, likewise): a new price computed from the lesson as it was
  before its cancellation charges the canceled lesson (`phase5.py:171`,
  `docs/phase5-billing.md:12`);
- `ArchivingStopsAtLessons` (`LessonSchedule`, likewise): a student is archived by a count of
  planned lessons that ran before another request's lesson was committed (`phase1.py:436`,
  `docs/m3-isolation-verification.md:10`);
- `ApprovedFeedbackIsLocked` (`LessonFeedback`, with two tabs and no task): an entry of keywords whose
  request read the feedback before another tab submitted and approved it supersedes the
  approved version and moves the pointer (`phase3.py:217`, `docs/states.md:31`).

Other disagreements, which the models have but no run of their own shows:

- the reclaim of an expired lease counts an attempt without comparing it with
  `max_attempts` (`queue.py:52`, `docs/states.md:21`);
- with two workers, the late result of an expired lease replaces a final status
  (`queue.py:82`, `docs/states.md:18`); the deployed single worker cannot meet it;
- a draft lands while the document waits for review, and the approval approves a version
  that was never submitted (`docs/states.md:36`);
- asking for a generation of an approved document and submitting it again demotes the
  approved version, with no other in its place (`docs/states.md:37`);
- a draft that lands between the version check and the commit of a save is buried by it
  (`docs/architecture.md:37`);
- a draft that was asked for before the submission lands after the approval of a feedback
  and supersedes the approved version (`docs/states.md:31`).

With two tabs more of the properties of documents and feedback are false, and no passing
run claims them: two versions of a document may end up APPROVED (`AtMostOneApproved`: the reads of one
approval overlap the commit of another), a submission that was checked before an approval
retired its version gives that version a status again (`SupersededIsFinal`), a submission
that overlaps another one and its approval leaves a document that waits for a review of no
version (`StatusBacked`), a save may bury
an entry it has not seen (`EditsNewest`: `create_feedback_draft` repeats a token another tab
holds), an entry that commits while another tab's submission waits for review leaves the
row PENDING_REVIEW on a draft, or APPROVED on one (`RowSpeaksOfNewest`), and an entry
that commits after another tab's request for a draft is replaced by that draft with older
keywords (`InputNeverOlder`). Set `Tabs = {tab1, tab2}` in the configuration to see them.

### Fairness

`queue_fleet` and `files_and_purge` have liveness properties.

`AIJobQueue`: weak fairness of `LeaseExpires` and
`BackoffElapses` is the clock; of `ServeQueue`, that a worker that runs takes its next
step and that a provider call returns (the client has a timeout); of `Restart`, the
restart policy of the compose files; of a worker's purge, that its second transaction
ends one way or the other. Teachers, administrators and the command line owe nothing,
and crashes are bounded. Weak fairness suffices for the one task of
`queue_fleet`. Tasks of several accounts would need strong fairness of `ServeQueue`, since a
worker's purges interrupt its polling; `worker.py:97-105` gives it, with a poll after
every purge.

`AccountFiles`: an upload that holds the user row goes on (its request ends or its process
dies), the purge goes on and starts again (`worker.py:97-103` runs it every hour), and from
some time on it no longer fails for want of storage or process. The last is an
assumption about the surroundings, written as `<>[][…]`, and it does not cover a refusal by a
foreign key, which is the code's own doing. Teachers owe nothing: `DueIsPurged` lets them
cancel.

No liveness is claimed elsewhere: nobody has to review, pay or restore.

## What is proved

`AIJobQueueProofs`, under `QueueAssumption` (tasks are numbered from 1, at least one
attempt, workers, command line and Nobody are distinct), for every number of workers, tasks, owners,
attempts and crashes:

- `TypeCorrect`, from `TypeInv` (a worker in `run_once` holds a task that was stored);
- `LeaseDiscipline`, inductive over the types;
- `OneDraft` (`DraftAndBillAgree`), from `DraftInv`: a worker that reports success holds a task with a draft, and
  only the run that wrote the draft carries token counts;
- `AttemptLog` (`RowsAgree`), from `LogInv`: a worker's task has at least one attempt;
- `FailedIsOver`, an action property from the same invariants: FAILED means that the attempts are
  spent, so a late failure cannot requeue;
- `DeployedWorkerSurvives` and `DeployedRefinement`, with one worker and no purge from
  the command line: `DeployedInv` says that the row of a task in hand is RUNNING and that
  the worker does not execute while it purges. Neither is true of a fleet.

`LessonDocumentProofs`, under `DocumentAssumption` (section names differ from operation
names, NoJob is no task), for every number of tabs, tasks, versions and writes:

- `DocumentTypes`, `NoEditLost` (`HistoryIsLinear`), from `IInv`: a row in flight
  points no further than the document (so a save's number is always written), a locked
  document does not move, and a task that was enqueued has a kind;
- `OneApproved`, `SupersededForGood`, with one tab, from `ReviewInv`: the approved version
  is the one the document names, superseded versions are older than the newest, and
  the row of the request in flight names the same approved version. With two tabs
  both are false, as said above;
- `StatusAlwaysBacked`, with one tab, from `BackedInv`: the request in flight has read the
  present status, of the document and of the version it is about to review. It too is
  false with two tabs.

`LessonFeedbackProofs`, under `FeedbackAssumption` (NoJob is no task), for every number of
tabs, tasks, versions and writes:

- `FeedbackTypes`, `ApprovalAppliedOnce`, from `IInv`: an entry in
  flight points no further than the feedback (so the number it writes is new to it), and
  the task that holds the lock names a version that exists;
- `PendingWasSubmitted` (`RowSpeaksOfNewest`), `EditsSeeNewest`, `KeywordsNeverOlder`, with one tab, from
  `EntryInv`: no entry is numbered while a task runs, a tab with the present token shows
  the present version, and every running task organizes the newest keywords. With two
  tabs these three are false.

`TeachingProofs` is about two components that share no state, for every number of requests.

Of the plan, under `PlanAssumption` (Unlearned is no level, Absent no number, deltas are
numbers), for every number of tabs, items, levels and versions:

- `HistoryAlwaysAgrees`, `MinutesAlwaysCredited`, `ApprovalsAreCurrent`, from `PlanInv`: an approval's loaded rows are the rows of the table
  once it holds their locks (`SessionsSound`), no two sessions hold a row in common
  (`RowsExclusive`), nothing is credited to an item before it exists, and a mastery row that
  was found is locked and unchanged until the commit (`LevelsSound`). The last does not say
  so of a row that was not found: in the model two first assessments race, and the unique
  constraint lets one of them in.

Of lessons and payments, under `ScheduleAssumption` and `BillingAssumption` (lessons and
payments are finitely many, as the sums require; there is a student and a subject; minutes
and amounts are positive, prices are numbers), for every number of requests, links, lessons,
payments, prices and amounts:

- `LedgerAlwaysAgrees`, from `BillingInv`: a request that holds a payment holds it alone
  and what it has read of its allocations is still their sum (`LocksSound`), so the new sum
  is within the amount. That the summary hides no debt then follows by arithmetic
  (`NoDebtHidden`): what is shown of a lesson and what is paid for it cover what it costs,
  and the table of payments and lessons, added up by rows, is within what was received
  (`SumOverTable`). It needs nothing about the lessons but their types;
- `ReceivablesAlwaysFollow`, `ArchivedAlwaysUnused`, `ReplacedAtMostOnce`, from the same
  invariant: a request has read a lesson that exists and whose link does not change
  (`ReadsSound`), a lesson that does not exist is empty (`AbsentIsEmpty`), and
  `ReplacedOnce`, which is `OneReplacement` without a cardinality. The step of every
  handler that writes goes through one lemma (`WriteEffect`): either the row that is
  written is exactly what the handler computed from what it read, or lesson and link are
  `overlapped` from here on.

`PracticeProofs`, under `PracticeAssumption` (questions, sets and NoRecord are distinct), for
every number of records, tabs, executions and writes:

- `RecordsAlwaysAgree`, `AlwaysQuotesApproved`, `ApprovedVersionsStay`, `AlwaysReviewsWhatIsShown`, from `IInv`: row, versions and
  publications agree per record (`RecordsSound`); what an execution is about to quote can
  be quoted (`QuotesSound`, an approved version is never written again); a screen with the
  present token shows the present version (`ScreensSound`); an execution that holds the row
  read it as it is, and holds it alone (`RunsSound`).

`AccountsProofs`, under `AccountsAssumption` (budgets and the uses of an invitation are positive,
placeholders are no members), for every number of accounts, invitations, requests and windows:

- `RegistrationsAlwaysAgree`, from `InvitesCounted` and `LocksExclusive`: a registration
  that holds the invitation has read the present number of uses, and a purge leaves it;
- `SessionsAlwaysCurrent`, from `RequestsSound`: a login that holds the user row has loaded
  the present password of an active account, so the session it opens is current;
- `CodesSpentOnce`: a reset that holds the row finds a code there;
- `ChecksStayWithinBudget`, from `AttemptsPaid`: of each window, the comparisons done and
  those that requests have paid for are within what was spent in it, and a window that is
  over was never spent beyond the budget;
- `UsageStaysWithinGrant`: a request relies on a limit that was granted.

`FilesProofs`, under `FilesAssumption` (an upload and a document have different
keys, sizes are positive), for every number of uploads, documents, purges and sizes:

- `FileTypes`, `FilesImplementStore`, `RowsHaveObjects`, from `IInv`: an upload that is
  under way is not named by a row yet, so its clean-up takes nobody's file; what a request
  has stored is there, unless a purge is at work; while a purge is past its first
  transaction the account is closed and leaving; at most one purge deletes; and whoever
  holds the user row holds it alone. None of these is in the abstraction, and the
  clean-up and the deletion of objects map to `FileStore!Discard` only with them;
- `PurgedOnlyOnRequest`, from `PurgesDue`: a purge that has the account in its list found
  it due, or the history says why it no longer is;
- `NothingStrays`, from `PurgesCover`: a purge knows every file that rows name, but for
  those that the history excuses, and has still to delete those that are there;
- `QuotaAlwaysKept`, from `QuotaInv`: rows are finitely many, and the only upload past its
  look at the quota has the room that it saw.

In the same module, with no assumption but that of `BackupRestore`, for every set of files and
number of backups:

- `ToolTypes`, `CompleteBackups`, `CompleteService`, `RestoreReturns`, from `ToolInv`: its part
  `StagesAgree` says, per stage of the tool, what is known of the backup under construction
  (its dump is covered by the files there now) and of the data being replaced (equal to the
  target's rows after the load, and to its files after the unpacking).

`Sums` has what these need of `MapThenSumSet`: that a sum does not depend on the order in
which elements are taken (`AddsOnce`), what adding, changing or leaving out an element does
to it, that it is monotonic, and `SumOverTable`. The library's induction theorems cannot be
cited, since they take an operator; the lemmas use that the subsets of a finite set are
well-founded under inclusion instead, and take the smallest counterexample
(`SmallestSubset`, `AllSubsets`).

Only model-checked: `QueueDrains` and `DueIsPurged`, since liveness under fairness is out of
the prover's reach, and the two violations. Every safety invariant and every action property
that a passing run checks is the subject of a theorem.

## What is not modelled

- Prompt templates: a revision reads the template without a lock, compares its version with
  the payload's and inserts the next number (`phase2.py:244-267`), and the unique constraint
  refuses the second of two; no other part depends on them but for the version a task is bound to.
- The in-memory login throttle, cookies, CSRF and origin checks.
- Exports, provider clients, text extraction, docx and archive generation, the web
  frontend: pure data or I/O. Verification and drill of a backup change no state.
- Payloads, prompts, formatting, logging, HTTP status codes: no property is about them.
- Wall-clock time: the grace of a deletion is a state, the windows of a budget are a count,
  and the month of a quota is one month.
- The serialization of PostgreSQL itself: row locks, unique constraints and READ
  COMMITTED are assumed to do what they promise; a statement that fails on a
  constraint or a deadlock is a `Refuse`, `Raise` or `Abandon`.

Hazards known and not covered by a property, because the property would be false, or no
statement of the repository asks for it:

- the owner's permission is read after the claim and used before the executor
  (`worker.py:59`); the models have the step, no property forbids the revocation between;
- two tabs that ask for a generation at once each find no running task (`phase2.py:486`);
- a task that is admitted in one month and booked in the next (`queue.py:114`);
- the duplicate check of an upload runs before the lock (`phase7.py:171`);
- a plan item may not be its own parent, but two items may become each other's
  (`phase1.py:845`);
- the throttle counts per process (`login_throttle.py:27`);
- `auth.py:638` and `auth.py:410` update several sessions of one account in no stated order
  and may wait for each other;
- what is committed between the safety dump of a restore and the stop of the services
  (`backup_restore.py:503`) is in no backup.

## Running

`tlc -config queue_fleet.cfg MCAIJobQueue.tla`, and likewise:

| Configurations | Module |
|---|---|
| `queue_*` | `MCAIJobQueue.tla` |
| `document_*` | `MCLessonDocument.tla` |
| `feedback_*` | `MCLessonFeedback.tla` |
| `plan_*` | `MCPlanProgress.tla` |
| `billing_*` | `MCBilling.tla` |
| `practice_*` | `MCPractice.tla` |
| `accounts_*` | `MCAccounts.tla` |
| `files_*`, `purge_*` | `MCAccountFiles.tla` |
| `backup_*` | `MCBackupRestore.tla` |

Each takes seconds to three minutes. Proofs: `tlapm AIJobQueueProofs.tla`, and
the same for `LessonDocumentProofs`, `LessonFeedbackProofs`, `TeachingProofs`,
`PracticeProofs`, `AccountsProofs`, `FilesProofs` and `Sums`.
