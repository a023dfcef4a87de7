# Verification of the Al-Imtiaz Math LMS

TLA+ models, TLC instances and TLAPS proofs for the parts of this repository
(a Laravel 13 API with a React/Next.js front end) whose correctness depends on
what several tabs, requests, workers or administrators do at the same time.
Paths below are relative to the repository; `Service.php:64` is a line of it.

## 1. Inventory

### Components

| Component | State it keeps | Operations | Talks to |
|---|---|---|---|
| **Offline outbox**, browser (`offlineStore.ts`, `laravelApi.ts`, `LiveDashboard.tsx`) | IndexedDB rows `outbox` with status and `createdAt`, snapshots per account, the scope in each tab's memory | create-or-queue, enqueue, sync, handle replies, expire, load and fall back | Offline reconciliation by one POST per sync; every tab shares the store |
| **Accounts and tokens** (`AuthController.php`, `laravelApi.ts`, `LiveDashboard.tsx`) | Sanctum tokens; one token in `localStorage` that all tabs share; whose dashboard a tab shows | login, register, me, logout with clearing | the outbox by the scope, everything behind `auth` by the token |
| **Offline reconciliation**, server (`OfflineSyncService.php`) | ledger `offline_sync_operations` unique on (user, client id); the school's records | claim, apply, record, answer, repeat; snapshot (read only) | Attendance, exam results, payments, worksheets; metrics cache |
| **Plugin payments** (`PluginPaymentService.php`) | `plugin_payment_methods`, `plugin_payment_transactions`, `plugin_purchases` | configure, begin, submitReference, approve, reject | Plugin store through the entitlement |
| **Notification dispatch** (`NotificationCampaignService.php`, `DispatchNotificationCampaign.php`, `NotificationChannelDeliveryService.php`) | campaigns, deliveries, channel records, Laravel's `jobs` table | create, drain the queue, handle, dispatch over channels, complete | Twilio, WhatsApp, the scheduler's drain request |
| **Tenants** (`SubscriptionLifecycleService.php`, `PostgresTenantSchemaProvisioner.php`, `TenantDomainService.php`, `UseTenantPostgresSchema.php`) | `tenants` (schema, domain and their statuses), `tenant_subscriptions`, PostgreSQL schemas | register, update subscription, provision, assign/update domain, route a request | every request on a tenant's host |
| **Exam sessions and templates** (`ExamManagementController.php`, `EloquentExamTemplateRepository.php`, `StudentExamAccess.tsx`, `ExamRunner.tsx`) | sessions with status, focus losses, answers, events; templates with their questions; the runner page | start, answer, event, submit, exit; publish, save, delete | the page sends saves and events without waiting for them |
| **Exam authoring and drafts**, browser and server (`ExamManagementPanel.tsx`, `ExamQuestionComposer.tsx`, `examDraftStore.ts`, `EloquentExamTemplateRepository.php`) | the form, a draft in `localStorage`, question rows | edit, autosave, recover, create, update, delete, reload | exam templates; another teacher's page |
| **Attendance** (`AttendanceDomainService.php`) | one record per student and day | scan, create, update, delete, offline create | metrics cache, offline reconciliation |
| **Dashboard metrics cache** (`CachedDashboardMetricsRepository.php`) | one summary, five minutes | read-through, forget | every operation that changes a count |
| **Plugin store and installer** (`PluginStoreController.php`, `PluginInstaller.php`) | rows of `installed_modules`, module directories, backups | install, uninstall, free purchase | plugin payments by the entitlement |
| **Worksheets** (`WorksheetController.php`, `OfflineSyncService.php`) | one assignment row per student with `updated_at` | assign, submit in a form, submit offline with the version seen | offline reconciliation |
| Students, exam results, payments, question bank, groups | one row per thing | create, read, update, delete | metrics cache |
| Roles and permissions | role tables | administration, role guard | everything behind `auth` |
| Inbox, channel settings, Slack logs, dashboard layout, academy identity, packages, PDF export, pages, console commands | own rows or none | small or read-only | - |

### Which behaviours are hard

* **Offline sync**: a reply may be lost after the server did the work, or while it
  still does it: the page may then send the same rows again beside the first
  request, and two tabs may; the claim, the record and the outcome of an operation are
  three separate commits; the page handles replies row by row and may be closed
  in between; the batch has a limit that the outbox does not know of.
* **Accounts and tabs**: the token is shared by the tabs, the scope belongs to one.
  A call takes its account from the one when it starts and its token from the
  other when it sends, and goes on after the logout. A logout the server does not
  answer clears nothing.
* **Worksheets**: a submission compares `updated_at`, kept in seconds, without a
  lock, and saves only those of the fields it was sent that differ from what it had
  loaded. It may be sent score, feedback, both or neither.
* **Plugin payments**: only `approve` locks. `begin`, `submitReference` and
  `reject` decide on a row loaded earlier.
* **Notifications**: `retry_after` hands a job that is merely slow to a second
  worker, a released job is a new row of the queue, the job is dispatched after
  the commit, and channels throw after others have sent.
* **Tenants**: the row lock of `provision` ends with the mark "provisioning";
  all the work, and the domain afterwards, happens outside it, on rows loaded
  earlier of which Eloquent writes only the attributes that changed. The reminder
  of a subscription's end is decided on a row read without a lock and noted before
  its answer leaves (not modelled).
* **Exam sessions**: nothing locks a session. Each handler loads the row, checks
  it, and writes columns of it in later statements; the page has several such
  requests under way at once, and the teacher may save the template meanwhile.
* **Exam authoring**: one piece of work lives in a form, in a timer of 700 ms, in
  a draft that outlives the page, in a request and on the server, and each may
  fail or lag behind the others. The form stays open to typing while it is saved.
* **Attendance and the metrics cache**: a scan checks and inserts at different
  times of the day; some writers forget the summary after their commit, others
  before it, and a reader fills it from tables it read one after the other.
* **Installer**: backup, placing and restoring are renames whose results nobody
  looks at: they may be refused for a target that is there, for permissions or
  across devices, and the request goes on. Two requests of one second share the
  name of their backup; a failure is undone by a second rename.

### What makes each component correct

* Outbox and ledger: an operation is written at most once; what was recorded
  about it never changes; a row leaves the outbox only when its operation was
  written; a refusal on the screen is the server's; operations are applied in the
  order they were saved, except one that another request has in hand; every queued
  row is answered in the end.
* Accounts: an entry is recorded for whoever made it; what is stored for an
  account is that account's; a queued row waits for its author, and goes in a
  logout only if that logout is the author's.
* Worksheets: an offline submission replaces nothing its author had not seen; what
  one sent stays until another sends the same field.
* Payments: a plugin is owned exactly where one of its payments was approved;
  one reference backs one payment; an order has one open payment, and more only
  after races that can be named; a rejected payment grants nothing.
* Notifications: `attempts` accounts for every message and stays within the job's
  tries; "delivered" is true; nothing pending is forgotten; a campaign completes.
* Tenants: a host is served only from a whole schema, a schema is made only for
  a subscription that was once active and paid, one host leads to one tenant, nothing
  stays "provisioning" unattended.
* Exam sessions: the session row agrees with its answers and events; a flagged or
  handed-in session stays so but for races that can be named; the student sees
  the answers that are stored; an exam is handed in, in the end.
* Exam authoring: what was typed last is somewhere; one piece of work becomes one
  template; a draft is kept before long, unless the form has no content that
  autosave counts.
* Attendance and metrics: a scan fails only for a reason; old figures have a cause
  that can be named.
* Installer: a failed install leaves what it found; a row "installed" tells the
  version that is there; what the system refuses unseen is named where it breaks
  either.

## 2. Modules

| Module | Holds |
|---|---|
| `OfflineContract` | what `docs/offline-sync.md` promises: write once, decide once, show only decided refusals |
| `OfflineSync` | outbox, tabs, requests, ledger; instance `Contract` of the above with its refinement mapping |
| `OfflineAccounts` | several users and tabs over one browser: token, scopes, rows and snapshots per account |
| `Worksheets` | one assignment, its submissions and their base version |
| `PluginPayments` | payments, entitlements and the unlocked requests |
| `Notifications` | one campaign, its job, its workers |
| `TenantLifecycle` | what the code keeps of `docs/postgresql-tenant-isolation.md`: tables after payment, a host after tables |
| `TenantProvisioning` | subscriptions, schemas, domains, administrator requests; instance `Lifecycle` of the above with its refinement mapping |
| `ExamSessions` | one student's session, the runner page, the teacher of the template |
| `ExamAuthoring` | the teacher's form, draft and saves, templates and question rows |
| `AttendanceMetrics` | one student's attendance records and the cached summary every writer forgets |
| `PluginInstaller` | one plugin's directory, backups, row and requests |
| `MC...` | symmetry sets for TLC; the `.cfg` files give the constants |
| `OfflineSyncProofs`, `OfflineAccountsProofs`, `NotificationsProofs`, `TenantProvisioningProofs`, `ExamSessionsProofs`, `ExamAuthoringProofs` | the theorems about the module of that name |
| `PluginProofs` | the theorems about `PluginPayments` and `PluginInstaller` |
| `RecordProofs` | the theorems about `AttendanceMetrics` and `Worksheets` |

Two modules are extended together with another one by a proof module and prefix
their names for that reason: `InstallerInit`, `InstallerTypeOK`, ... in
`PluginInstaller` and `WorksheetInit`, `WorksheetTypeOK`, ... in `Worksheets`.

Mutated forms of a definition stand before it in the same module, with a comment
that says what was broken; `PROJECT.json` says which property notices. `map` in
`PROJECT.json` names the lines each definition stands for.

### OfflineSync

A *form* saves online, or queues (offline, or after a POST whose reply was lost:
`direct` remembers whether that POST landed). Enqueueing is two steps, because
the list is read in one IndexedDB transaction and the row put in another
(`offlineStore.ts:149-180`). A *sync slot* `s` is one run of `syncOfflineQueue`
together with its request. The two are separate processes: the page may stop
(`ClientStops`) while the request runs on. It stops when it is closed, and also
when the reply is lost: `laravelApi.ts:448-455` returns, and the next sync of the
same tab takes another slot beside a request that the server still works on. Two
slots are therefore two tabs or one tab and its retry. `late` only records the
past: which operations a younger one may be written before, because another
request had them in hand or two forms were saving at once. On the server `stage[s]` follows
`reconcile`: `Accept` or `Refuse` (validation, token), then for each operation
`Claim` or `Repeat`, then `Commit`, `Decline` or `Throw`, then `Record`; a
process may die between any two. `Respond` hands the replies to a page that still
waits, which handles them one row at a time. Logout is two steps
(`RevokeToken`, `ClearScope`), as in `laravelApi.ts`.

Abstracted: what an operation writes is one effect per operation; what refuses it
is a choice among the refusals its kind knows (only worksheet submissions can
conflict). `Uncaught` are operations `apply` may refuse with an exception that
`reconcileOperation` does not catch. Two rows may carry one `createdAt` when two
forms read the outbox before either put. Snapshots and the scopes of several users
are in `OfflineAccounts`.

### OfflineAccounts

A *job* is a function of `laravelApi.ts` that awaits: who am I, logout, a form's
POST, a sync, a load of the lists. It has the account it took when it began
(`user`), the token it sent (`login`) and the tab it lives in; a page that is
loaded again (`OpenPage`) loses what it awaited, while what was sent still arrives
(`tab` is `Nil`). An account stands for a user with a role, as in the scope key.
`Login` writes the token that the tabs share and the scope of its own tab;
`ClearScope` and `EndLogout` are the two halves of a logout that was answered.
`QueuePost` takes the scope of the moment at which the POST failed, `HandleReply`
and `CacheSnapshot` write under the account their job had. `Lose` loses a request
or its answer. `mixed` only records the past: that the browser took an account
while another dashboard was shown or a job of another had yet to read token or
scope.

The server is one step per request, and `Logins` and `Jobs` are bounded: its
faults, the order of the rows, their expiry and the limits are `OfflineSync`'s.

### Worksheets

One assignment. `Load` is the unlocked read and the comparison with the base
(`IsStale`), `Save` the one `UPDATE`. A submission
(`Submissions`) is a function on the `Fields` it sends: score, feedback, both or
neither (`SubmitWorksheetRequest.php:24-31`, `OfflineSyncService.php:184-189`). Of
these it `Stores` the ones that differ from the model it loaded; the rest of the
row stays as it is by then. A submission that differs in none, of a row that was
submitted, writes nothing. `Assign` is the teacher's second assigning, an upsert that changes only
`updated_at`. `seen`, `read`, `wrote` and `stamp` record the writes, so that the
properties can say what an author had seen and what was sent since. The forms of today send no base
version; the API takes one. Bounds: seconds and writes. `max_score` is written
like `score` and left out.

### PluginPayments

One request at a time per slot `r`: `begin` is `CheckMayBuy`, `LookUpOpen`,
`Create`; `submitReference` is `LoadForSubmit` and `Submit` or `SubmitFails` (the
unique column); `reject` is `LoadForReject` and `Reject`. `Approve` locks and is
one step. `Abandon` is a request that dies in between. One payment method. `raced` only records the
past: open payments that were opened beside another checkout of their order
(`CheckoutBeside`), or again by a reference that came in over a review.

### Notifications

`Create` is the transaction, `Dispatch` the job after its commit. `jobs` is
Laravel's table: `Reserve`, `LeaseEnds` (retry_after), `Exhaust`, `DeleteJob`,
and in `Throw` the deletion and release as a new row. A worker in `handle` loads
the pending deliveries (`Load`), counts an attempt (`Begin`), opens the channel
records or hits their unique key (`OpenChannels`), asks each channel (`Send`,
`SendThrows`), notes its answer (`NoteAnswer`), settles (`Settle`, `Catch`) and at
the end completes the campaign (`Complete`). `copies` counts what a provider
took: the world outside. The queue is Laravel's and not part of the repository;
its actions are marked external in `map` and follow from how the job and the
drain endpoint use it. Left out: how recipients are chosen, chunks of more than
100 deliveries, settings and credentials (they decide what a channel answers,
which is a choice).

### TenantProvisioning

A request slot `r` runs either `updateSubscription` (`SaveSubscription`, then
`LockTenant` ... `MarkReady` or `ProvisionFails`, `Refresh`, `AssignDomain`) or
`updateTenantDomain` (`LoadTenant`, `CheckSubscription`, `WriteDomain`). `seen[r]`
is the row as the request loaded it, because `save()` writes only what differs
from it. `built` is PostgreSQL. `Served` is the middleware's condition. A domain
generated for a tenant is written as the tenant itself. Left out: tenancy
switched off, packages and dates, the reminder of a subscription's end.

`TenantLifecycle` knows neither requests nor statuses: who paid, which tables
exist, under which name a centre is reached. It is the part of the document that
the code keeps. The document also says that the handling of a request validates the
active subscription (`:31`); `UseTenantPostgresSchema.php` looks at schema and
domain only. `paid` therefore says that a subscription was active and paid *once*,
`Serve` does not ask for it again, and the missing half is stated as
`ServedWhileActive`, which TLC refutes (section 5). The mapping takes `paid` from
`entitled`, `tables` from `built`, and `host[t]` is the domain while `Served(t)`
holds and nothing otherwise: three columns that different requests write must
together never open a host too early, nor give one name to two.

### ExamSessions

Questions, one session, and the page: `menu`, `opening`, `running`, `closing`. A
slot of `call` is a request from its sending to its last statement. `Awaited` is
the one the page waits for (start, submit); the others are saves and events, sent
without waiting. `Begin` loads the row and makes the checks, keeping of it what
the handler goes by afterwards (`Glance`); then `RecordLoss` and `RecordOther`
(one transaction each), `StoreAnswer` and `TouchSession`, or `CloseSession` and
`LogSubmission`. `Lose` is a request lost on its way or a process that dies
between two statements; `Leave` a page that is left while the server goes on. The
teacher publishes or archives (`SetTemplateStatus`), saves the edited template,
which makes it a draft and takes the answers of omitted questions along
(`SaveTemplate`), or deletes it. `loose[q]` and `lost` only record the past: that two saves of
one question overlapped or one failed, and that a request was lost.

Bounds: `Calls` in flight, `MaxLosses` focus losses, `MaxTime` ticks. Left out:
`last_event_at`, the camera, full screen, grading by hand. No code writes the
status "expired".

### ExamAuthoring

What is typed is a version number: `typed` counts the changes of the form, and
`form.text` is the version it shows. `form.filled` says which of title and
instructions are not blank; of the questions the form keeps which rows
it names (`kept`) and how many have no id (`fresh`). Those three are what
`HasContent` looks at, as `hasExamDraftContent` does (`examDraftStore.ts:19-25`): a
form with nothing but department, grade, duration, watermark, header or footer
has no content, starts no timer, and a form that was emptied by hand leaves the
draft it had. `work` tells pieces of work
apart: the version with which an empty form was begun. `EditWords` (title and instructions, typed or
emptied), `EditDetails` (the other fields), `ImportQuestion`, `AddQuestion`, `EditQuestion` and `RemoveQuestion` change the
form; `Autosave` is the timer; `Reload` is the page loaded again, which turns a
save under way into an orphan whose answer nobody hears. `Create` and `Update`
are one transaction each; `FailSave`, `LoseReply` and the three `After...` are
what becomes of the answer. `OpenTemplate` and the changes of another teacher
(`DeleteTemplate`, `OtherRemoves`) work on the same rows.

Bounds: templates, rows, edits, questions without an id. Abstracted: the list of
templates is not kept (a change of others after it was loaded counts as one after
the template was opened from it); a page that was loaded again does not press the button
while the orphaned save still runs. `released` only records the past: that nothing
need keep the latest version, because the teacher gave it up or left before the timer
fired, a save succeeded after the form had changed again, or a page was left with a form autosave does not store.
Left out: the status of a template,
which is `ExamSessions`' part.

### AttendanceMetrics

One student, `Days` that pass, and two tables whose content is a version number:
attendance, and everything else the summary counts. The student himself stays;
`DeleteStudent` deletes another one, which the cascade carries into both tables. Requests without a
transaction commit and then `Forget`; transactions (`BeginScan` ... `Insert`,
`SyncAttendance`, `SyncOther`) forget first and `Commit` then. A scan holds the
student's row (`LockStudent`), an insert waits for it through the foreign key
(`sharers`), and two inserts of one day wait for each other through the unique
index. With `SharedStore` the cache is a table on the same connection, which is
the default (`config/cache.php:18`): a forget inside a transaction locks the row
and takes effect with the commit, and others wait for it (`doomed`). Without it the forget is
immediate. `excuse` records how the cached summary came to be out of date.

Bounds: days, writes per table. Left out: status, note and amounts, which are
data; hit counters; the writes to attendance records of other students, which only
add to a table's version.

### PluginInstaller

One plugin. A directory is known by the version it came from, a backup by the
second in its name. `Install` is up to the staged package, `LookEmpty` or
`LookThere` whether a module is there, `MoveAway` and `Place` the two renames,
then `Enable` and `Record`; `Fail` is an exception at any of these, `LookBack`,
`DeleteNew` and `MoveBack` the catch block. `Uninstall`, `Remove`,
`MarkUninstalled` are the other request. `moveDirectory` and `deleteDirectory`
return false when the system refuses them, and nothing looks at what they return
(`PluginInstaller.php:49`, `:52`, `:76`, `:77`). `Refused` is that answer, and each of
`MoveAway`, `Place`, `DeleteNew`, `MoveBack` and `Remove` may get it at any time:
permissions and devices are not modelled, they decide it. A rename onto a directory
that is there always gets it. A deletion that leaves a part of a directory counts as
refused. `alone`, `before`, `refused` and `trusted` only record the past. Left out: the
checks of the package (hash, entries, manifest), which touch nothing but a
staging directory; the artisan commands, which are `Enable`.

## 3. Runs

Each run takes at most about two and a half minutes with two workers.

| Run | Instance | Shows |
|---|---|---|
| `offline_tabs` | 2 operations (a plain one that may throw, a worksheet), 2 sync slots, 2 writers, 1 fault | `TypeOK`, `AtMostOnce`, `OrphanNeedsFault`, `NoLostOperation`, `AppliedInOrder`, and that the whole implements `OfflineContract` (`KeepsContract`) |
| `offline_one_tab` | the same operations, 1 slot, 2 faults, fair | `EveryQueuedRowIsAnswered` |
| `offline_accounts` | 2 users, 2 tabs, 2 logins, 1 entry, 2 jobs at a time | `TypeOK`, `RecordedForAuthor`, `StoreIsApart`, `RowsWaitForAuthor` |
| `worksheets` | 2 submissions, 2 values, 3 seconds, 4 writes | `WorksheetTypeOK`, `UnseenIsKept`, `SentIsStored` |
| `plugin_payments` | 2 orders, 4 payments, 3 requests, 2 references | `TypeOK`, `EntitlementsMatchApprovals`, `OpenPaymentsAreFew` |
| `notifications` | 2 recipients, 1 channel, 2 workers, 2 tries, 1 fault, fair | `TypeOK`, `CopiesAreCounted`, `DeliveredWasSent`, `PendingIsLookedAfter`, `EveryCampaignCompletes` |
| `tenant_provisioning` | 2 tenants, 2 requests, 1 fault | `TypeOK`, `ProvisioningIsAttended`, and that the whole implements `TenantLifecycle` (`KeepsLifecycle`) |
| `exam_sessions` | 1 question, 1 text, 2 requests in flight beside the awaited one, 2 losses, 1 tick, fair | `TypeOK`, `RowAccountsForTheWork`, `StoredIsShown`, `StatusStepsAreExplained`, `OpenExamIsHandedIn` |
| `exam_authoring` | 2 templates, 2 question rows, 3 edits, 2 questions without an id, fair | `TypeOK`, `LatestWorkIsSomewhere`, `OneTemplatePerWork`, `TypedIsKept` |
| `attendance_metrics` | 2 writers, 1 reader, 2 days, versions up to 3, the cache in the database | `TypeOK`, `StaleIsExplained`, `ScanFailsForAReason` |
| `plugin_payments_reject` | 1 order, 1 payment, 1 request beside the approval; expects a violation | `RejectedGrantsNothing`: see section 5 |
| `plugin_installer` | 2 requests beside each other, 4 in all, 2 versions, 2 seconds | `InstallerTypeOK`, `RowMatchesModule`, `FailureIsUndone` |

Eight properties stated in the modules are in no run, because section 6 proves them
for all constants and other properties of the run are close to them:
`RefusalsAreReal` and `VerdictIsFinal` (`OfflineContract` promises both),
`ReferenceBacksOnePayment`, and of tenants `ServedFromBuiltSchema`,
`SchemaWasPaidFor`, `HostHasOneTenant` and `ServiceIsEarned` (`TenantLifecycle`
implies all four for whoever is served) and `DnsAwaitsSchema`.

**Why these bounds.** Two slots are the smallest number in which one run
overtakes another, a retry its own first request included, and every property of
the outbox concerns one operation or a pair. One fault with two slots already gives an orphaned claim that a second run
meets; two faults with one slot give a retry that fails. Three payment requests
let a checkout, a submission and a review interleave, and four rows let one order
be bought, rejected and bought again; the second half of `OpenPaymentsAreFew` is
non-trivial because rows outnumber requests. Two jobs are a logout beside a load, a sync or a form;
two logins of two users in two tabs are the shared token changing hands. Two
submissions are one that overtakes another, and two fields let each send a part;
three seconds tell writes of one
second from later ones, and four writes leave room for a new assigning on either
side of both. Two workers are one lease that ended too early; two tries
a release and a last try. With two tenants and no custom domain an administrator
can type the name generated for the other tenant, which is the only way two
domains can collide.

Two requests in flight beside a submission let a save and a focus loss both cross
it, and let two saves of one question overtake each other; one text and the empty
field are two values to disagree about. A title, a question and one change more let
a draft, a save and newer typing differ from each other; two templates and two rows
let one piece of work be created twice, or created and then updated. Two writers put a scan beside another, or an early forget beside a late
one; one reader can be slower than either; two days put midnight between a
scan's check and its insert. Four requests over two seconds give two replacements
with one backup name, and a failure and an uninstall after them. The theorems of
section 6 hold for all numbers, so what the bounds leave open is closed for the
safety properties proved there.

`CHECK_DEADLOCK FALSE` is set only where the system really stops, or where its
bounds stop it: a campaign that is complete (`notifications`), a form that has
had its edits (`exam_authoring`), a cache after the last write
(`attendance_metrics`), requests that are used up (`plugin_installer`), a clock at
its bound (`worksheets`). Symmetry is used for safety only, over interchangeable
slots, rows, orders, tenants, tabs, tokens, users, values, installs and versions.

## 4. Fairness

* `OfflineSync`: weak fairness on what a browser or a server does once it has
  begun (put the row, handle the replies, go on with the request), and on
  `StartSync`. The latter stands for the `online` event and the sync button
  (`LiveDashboard.tsx:458-489`): the page stays open and comes online again. There
  is none on entering data, expiring, logging out or in, or failing; faults are
  bounded because a connection that always fails never syncs.
* `Notifications`: weak fairness on the dispatch after the commit, on a worker
  that lives, on `retry_after` passing, and on some worker taking a job that is
  ready: the scheduler goes on calling the drain endpoint. Faults are bounded.
* `ExamSessions`: weak fairness on the countdown and on the automatic submission
  (the interval and the effect of `ExamRunner.tsx`), and on the handler of the
  request the page waits for. None on the other requests, on the student, on the
  teacher or on losing a request: `OpenExamIsHandedIn` names the losses instead.
* `ExamAuthoring`: weak fairness on `Autosave` alone: a browser fires the timer it
  was asked for. Whoever types again within 700 ms starts another one;
  the number of changes is bounded, so that somebody who never stops is not claimed
  to be stored.
* `PluginPayments`, `TenantProvisioning`, `AttendanceMetrics`, `PluginInstaller`,
  `OfflineAccounts` and `Worksheets` promise no progress: nobody need act, and nothing retries a failed
  provisioning, a half-done installation or a failed logout by itself.

## 5. Where the sources disagree

`plugin_payments_reject` is the run in which TLC finds one of them, with a finding in
`PROJECT.json` that quotes both sides: `reject` overwrites an approval that it did not
see, and leaves a rejected payment that granted the plugin
(`docs/plugin-payments.md:12`).

Nine more are stated as formulas in the modules. TLC refutes each when it is added to
the configuration named, as an invariant (`UpdatedInPlace`, `RetriedInOrder` and
`EveryChangeIsDrafted`: as a property):

1. `RecordedOnce` (`OfflineSync`, `MCOfflineSyncTabs.cfg`): a create whose reply was
   lost is queued under a new UUID and recorded twice (`docs/offline-sync.md:53`).
2. `UpdatedInPlace` (`ExamAuthoring`, `MCExamAuthoring.cfg`): editing a question in the
   composer gives every question of the template a new row, although existing ids
   are said to be updated in place (`docs/exam-management.md:7`).
3. `RowsAreOfAccount` (`OfflineAccounts`, `MCOfflineAccounts.cfg`): a sync reads the
   rows of its tab's account and sends them with the token another tab has put
   there since (`docs/offline-sync.md:64`).
4. `LogoutLeavesNothing` (`OfflineAccounts`, `MCOfflineAccounts.cfg`): a load under way
   at logout stores its snapshot after the scope was cleared
   (`docs/offline-sync.md:65`).
5. `NewerIsPreserved` (`Worksheets`, `MCWorksheets.cfg`): a submission that looked
   before a newer one was saved overwrites it (`docs/offline-sync.md:53`).
6. `RetriedInOrder` (`OfflineSync`, `MCOfflineSyncTabs.cfg`): items are said to be
   kept in the original order and retried after a failed sync
   (`docs/offline-sync.md:47`); a retry may overtake the first request, which the
   server still works on, and write a younger operation before an older one that
   the first has in hand. `AppliedInOrder` is what holds.
7. `OneOpenPayment` (`PluginPayments`, `MCPluginPayments.cfg`): a checkout is said to
   create one open payment for the user and plugin (`docs/plugin-payments.md:9`); two
   that cross create one each, and a reference that was about to be stored reopens a
   payment that was reviewed meanwhile, beside the one opened since.
   `OpenPaymentsAreFew` is what holds.
8. `ServedWhileActive` (`TenantProvisioning`, `MCTenantProvisioning.cfg`): request
   handling is said to validate the active subscription
   (`docs/postgresql-tenant-isolation.md:31`); the middleware asks for schema and
   domain only, and a subscription that ends leaves both as they are.
9. `EveryChangeIsDrafted` (`ExamAuthoring`, `MCExamAuthoring.cfg`): autosave is said to
   persist authored metadata (`examDraftStore.test.ts:22`, whose test has a title); a
   form of department, grade, duration, watermark, header or footer alone is not
   stored, and is lost when the page is loaded again. `TypedIsKept` is what holds.

Noticed besides, and visible in the models unless it says otherwise:

* Offline: an outbox with more rows than a request may carry (50; the outbox
  holds 500) is refused on every sync (`docs/offline-sync.md:59`), which is why
  `EveryQueuedRowIsAnswered` is checked within the limit. An exception that
  `reconcileOperation` does not catch leaves the ledger at "processing"; the next
  sync stores that word in the row, which is none of its declared statuses
  (`offlineStore.ts:9`).
* Accounts: a logout without an answer clears neither token nor store; when `me`
  fails for whatever reason the page logs out in a tab that has no scope, so that
  the token goes and the rows stay.
* Worksheets: a write in the very second of the base goes unnoticed; a row may hold
  the score of one submission with the feedback of another, because each sent a part
  only, or because they crossed and each wrote what differed from the model it had
  loaded.
* Attendance and metrics: the summary is said to be invalidated after a write
  (`docs/laravel-api-architecture.md:17`). A scan and an offline operation forget it
  inside their transaction, before their commit: a reader in between puts the old
  figures back for five minutes, unless the cache is a table on the same connection
  (`StaleIsExplained` names this as "early").
* Notifications: a delivery whose first channel sent and whose second threw is
  recorded as failed. A job that has used up its tries leaves its deliveries
  pending.
* Tenants: `updateSubscription` answers that no change was applied although the
  subscription is committed before provisioning fails
  (`docs/postgresql-tenant-isolation.md:28`); provisioning is not serialised by the
  row lock, which ends before the work begins (`:39`); a domain is activated
  without asking for the schema (`:17`), which `Served` catches because the
  middleware asks both; a provisioning that fails after another succeeded takes a
  ready tenant out of service. "Activate" on the platform page sends no dates, and
  `updateSubscription` then counts the package's days from the old start: a
  subscription that ran out becomes active again with an end in the past; an
  extension keeps the mark of the first reminder, so that the new end is announced
  to nobody (`SubscriptionLifecycleService.php:76-84`; read in the source, dates are
  not modelled).
* Exam sessions: a focus loss recorded after the submission turns "submitted" into
  "flagged", and answers and a second submission are accepted again
  (`StatusStepsAreExplained` names this step and the one of a row loaded as
  "ready"); losses that overlap are counted once; saving an edited template
  unpublishes it; the server knows no end of the exam: the countdown is the page's,
  and "expired" is never written.
* Exam authoring: the answer to a create resets a form that was changed meanwhile,
  and the answer to an update clears the draft of newer typing (`released`); the timer
  that runs when an update is answered writes the saved draft back; questions added
  in an update have no id in the form afterwards, so that the next save makes their
  rows anew.
* Installer: nobody looks at what the renames return
  (`PluginInstaller.php:49`, `:52`, `:77`): an install whose rename is refused goes on
  to enable and record, and the row names a version that is not there; a restore
  that is refused leaves no module. A second replacement within one second shares
  its backup name, so that its rename is refused and the failure restores the older
  module; a first install
  that fails after its rename leaves the directory; an install beside an uninstall
  can leave a row "installed" without a module.

## 6. Proofs

TLAPS (SMT, Zenon, LS4) checks every leaf. The theorems assume the named
`ASSUME`s of the modules only: sets of names do not contain the "nothing" values,
bounds are naturals (positive where a count starts at one), `Workers`, `Calls`,
`Payments` and `Requests` are finite (for sums and counts over them); the numbers of operations, tabs, payments, tenants, requests, workers,
tries, faults, questions, templates, days and seconds are arbitrary.

* **OfflineSyncProofs.** `AtMostOnce` is not inductive: between `Commit` and
  `Record` the effect is there and the ledger says "processing". `IInv` adds that
  the ledger tells the effects outside a claim, that a request that holds an
  operation owns its claim and knows whether it wrote (`HolderOwnsClaim`), that
  nobody else holds it (`SoleHolder`: what the unique key buys), and that replies
  in flight and rows on the device repeat the ledger. From it follow
  `WrittenAtMostOnce`, `RefusalsAreTrue`, the action properties
  `VerdictsAreFinal` and `NothingIsLost`, `OrphansNeedFaults`, and `ContractKept`:
  `Commit` maps to `Write`, `Record` to `Decide`, a handled refusal to `Show`,
  expiry, logout and handled successes to `Hide`, everything else to a stutter.
  `RecordsInOrder` proves `AppliedInOrder` for any number of slots and forms. Its
  invariant `OrderInv` compares stamps: no operation that was written is younger
  than one that may yet be written, because it waits on the device or a request has
  it in hand, and none that a request still has is younger than one that waits
  (`WrittenFirst`, `SentInOrder`); the `late` ones apart. A form gets its stamp last
  of all (`StampsGrow`), and a request takes the oldest rows of the outbox and works
  through them oldest first.
* **OfflineAccountsProofs.** `RecordedForAuthor` speaks of the end of a call, so the
  invariant follows the account through it. While `~mixed`, all that is in use, the
  dashboards shown, the shared token, and the calls that have yet to read token or
  scope, is of one account (`OneInUse`), and every call carries that account, its
  token's owner and entries of nobody else (`ForAuthor`); afterwards a call that has
  read both goes on with what it has, whoever signs in. `Whole` lists the shapes a
  call can have, `TokensAreIssued` says that a token in use has an owner, and scope
  and dashboard of a tab go together (`ScopesAndRowsAreWhole`). `StoreIsApart`
  follows from the same invariant: what a call stores goes under the account it
  carries. The action property `RowsWait` says that a queued row goes only with a
  reply that recorded it for its author, or in the very step in which a logout
  clears that was carried out, with the author's token, in a tab that showed the
  author. Whose logout it is takes an invariant of its own, `LogoutsAreSound`: a tab
  that asks who it is has no account and nothing beside it that logs out, the token
  of a logout that was carried out is deleted for good, and as long as the browser
  works for one account the token was of the account its tab shows.
* **PluginProofs, payments.** `PaymentInv` adds that rows that exist belong to an
  order (`RowsAreWhole`) and that a request in progress works on something that
  exists (`RequestsHaveSubjects`). It needs nothing of `status`: the entitlement
  is right although statuses are overwritten, because `fulfilled` never is.
  `OpenPaymentsBounded` has two halves. One open payment that did not race: a request
  about to create one has seen none but raced ones (`OneIsAlone`), and whoever
  creates beside it makes its own a raced one. For all of them it counts with
  `RacersAreFew`: an order's open payments, those a submission under way may open
  again, and the requests about to create one are together no more than the requests.
* **NotificationsProofs.** `CopiesAreCounted` needs the messages that may still
  come: a worker past `Begin` that has not asked channel c yet *owes* one
  message, and `TriesAreCounted` says copies plus owed never exceed attempts.
  `Begin` adds one on both sides, `Send` moves one from owed to copies, a crash or
  an exception forgives. That attempts is bounded in turn needs all the tries that
  may still come (`TriesAreLimited`): a row of the queue has one *ticket* for each
  try it has left, `Reserve` turns a ticket into a worker that is coming,
  `Begin` turns a coming worker into an attempt, and a lease that ends makes no
  ticket. Only a job released after an exception is a new row, with at most the
  tries after the first. `SentIsTrue` carries "sent" from the answer over the
  worker's `$delivered` to the delivery. `PendingAttended` needs `LooksAfter`: a
  worker's recipient is pending, nothing happened before the campaign, and the
  tries used are never more than faults so far and workers busy now.
* **TenantProvisioningProofs.** `ReadyIsBuilt` and `RequestsAreEntitled` say what
  a request knows at each place; a request past the migrations has a whole schema
  whatever other requests do, because no step takes tables away.
  `ProvisioningIsAttended` is strengthened to `AttendedByWriter`: somebody attends
  *who loaded the row as provisioning* and will therefore really write the
  outcome; a request that loaded "ready" does not count, since `save()` would
  write nothing. `LifecycleKept` is the refinement: `SaveSubscription` maps to
  `Pay`, the two steps of the build to `CreateSchema` and `Migrate`, a step that
  makes a tenant served or renames its host to `Serve`, one that ends it to
  `Withdraw`, the rest to a stutter (`LifecycleStep`). It needs `SchemaComesFirst`
  (who migrates has a schema) and `HostStep`: one step changes the host of at most
  one tenant, and opens it only on whole tables under a free name, although the
  statuses are written by requests that loaded them earlier.
  `LifecycleEarnsService` then needs the abstract module alone.
* **ExamSessionsProofs.** `RowInv` carries `RowAccountsForTheWork`: a request past
  its checks saw a row, and the row stays as long as the template
  (`RequestsSawTheRow`), so a count it writes back is at most the losses recorded;
  without a row there is nothing of a session (`NoRowIsEmpty`). `StoredIsShown`
  needs a second invariant, `PaperInv`: a question that is not loose has at most
  one save, of what is shown, and stored once that save has stored it
  (`SavesAreSingle`); what a page knows of has been in the template
  (`KnownQuestions`). `StatusExplained` is the action property, from `RowInv`.
* **ExamAuthoringProofs.** `LatestWorkIsSomewhere` is not inductive: a reload
  drops the form, so `LatestIsHeld` says that the latest version is in the form
  *with its timer still running, its draft written, or without content*, or in the
  draft and in what the page offers. A form without content that a reload drops is
  a cause of `released`, which the property names. `OneTemplatePerWork` needs `WorkIsNew`: work that became a
  template is held in no form or draft except by the page that waits for the
  answer, unless a page never had it. `FormsAreSound` keeps empty forms empty,
  edited templates apart from new work, and says that what has a timer, a draft or a
  save under way has content.
* **RecordProofs, attendance.** `EarlyIsExcused` covers the summary put between a
  forget and its commit; `OneHolds` and `StillMissing` are what the row lock buys:
  the day a scan found free stays free while it holds the student. Both cache
  stores are proved, since `SharedStore` is any Boolean.
* **RecordProofs, worksheets.** `UnseenIsKept` compares what a submission had seen
  with what was written since, so the invariant orders the writes by version and
  second (`StampsAreInOrder`) and says that a submission only ever names versions
  that were there when it looked (`SubmissionsTellThePast`). `SentStored` is about what
  happens afterwards: a field that a finished submission sent is in the row until a
  later write of one that sent it too. It needs `LoadedIsCurrent`, field by field:
  what a request has loaded is in the row until a later write of a submission that
  sent the field, so that leaving out a field that did not change never takes
  another's back.
* **PluginProofs, installer.** `Progress` says at each place of a request that runs
  alone where the module it found is now: still in place, if its first rename was
  refused (`InPlace`), or under the backup's name, if there was one to keep
  (`KeptOrNone`). Whatever is refused before the failure, the catch block undoes;
  what is refused in the catch block is the exception `FailureIsUndone` names.
  `TrustedRow` says that a trusted row told what was there when the present install
  began; a row is trusted when the install that wrote it was alone and had its
  renames.

**Model-checked only**: liveness (`EveryQueuedRowIsAnswered`,
`EveryCampaignCompletes`, `OpenExamIsHandedIn`, `TypedIsKept`), which
is outside the prover's reach. Every invariant and action property of the passing
runs is a theorem, and so are both refinements.

## 7. Plan

Done: the offline protocol with its contract, the accounts of one browser,
worksheets, payments, notifications, tenants,
exam sessions, exam authoring, attendance with the metrics cache, the installer.
Next, in this order:

1. An abstract payment (ordered, referred to, approved once) that
   `PluginPayments` implements, and the installer composed with its entitlements:
   the names of the two modules are disjoint, so that one module can extend both.
2. The failed answer of `updateSubscription`, and the mutual exclusion of
   provisioning that the document describes.
3. Worksheet submissions composed with `OfflineSync`; protected roles.
4. The period of a subscription and the reminder of its end.

## 8. Not modelled

Everything marked `not_modelled` in `PROJECT.json`, with its reason there:
one-row record keeping without protocol (students, results, payments, question
bank, groups, settings, layouts, packages), formatting (PDF, pages), a
best-effort webhook (Slack) and development commands.

By lines, most of the repository is presentation: pages and components that lay
out, filter and translate (`src/resources/js` holds the pages of `src/frontend`
once more for the Laravel shell, with the subscription pages and the order of the
dashboard's cards besides). Their state is local to one render and reaches
no other actor, so that there is nothing to interleave; the parts of them that
do have a protocol (the sync of `LiveDashboard.tsx`, `ExamRunner.tsx`,
`StudentExamAccess.tsx`, `ExamManagementPanel.tsx`, `examDraftStore.ts`) are in
the modules. The share of lines that `map` names therefore stays small although
most of the code that several actors share is modelled.
