# Formal model of Salamatian

Salamatian is a used-car sales platform: one FastAPI process serves the public
site, the JSON API and the admin panel over PostgreSQL; Redis holds a response
cache, the staged Excel diffs and rate-limit counters; Celery workers optimise
images, fan out notifications and scan an inbox of Excel files.  This directory
holds TLA+ modules for the parts of it where several requests meet on shared
state, the TLC configurations that check them, and TLAPS proofs.

Paths like `excel_sync.py:337` are under `src/app/` (`services/excel_sync.py`,
`services/car_service.py`, `api/cars.py`, `core/cache.py`, `workers/tasks.py`); "README.md:115" is
the README of the repository.

## 1. Inventory

For each component: its state, its operations, with whom it interacts, what is
hard, and what makes it correct.  **M** modelled, **P** partly, **–** not.

| Component | State | Operations | Interacts with |
|---|---|---|---|
| Excel synchronisation **M** (`services/excel_sync.py`, `api/excel.py`, `admin/excel.py`) | `excel:diff:<token>` in Redis (TTL 1 h), `excel_import_logs`, through it `cars` and `audit_logs` | `parse_workbook`, `build_diff`, `parse_and_stage`, `load_diff`, `apply_diff`, `clear_diff` | car table, cache invalidation, `notify_task`, inbox scan |
| Car service **M** (`services/car_service.py`, `api/cars.py`, `admin/cars.py`) | `cars`, `audit_logs`; the forms open in browsers | create, update, publish, archive, soft delete, list, the car form, image endpoints | cache, Excel synchronisation |
| Cars cache **M** (`core/cache.py`, public half of `api/cars.py`) | `cars:list:*`, `cars:detail:*` in Redis | read-through by two public endpoints, `invalidate_cars_cache` | car table |
| Car images and media **M** (`services/media.py`, image endpoints of `api/cars.py`, `image_optimize_task`) | `car_images`, `cars.images_json`, files | upload, reorder, delete, optimise | cache, Celery |
| Leads **P** (`api/leads.py`, `services/lead_service.py`) | `leads`, `rl:lead:*` counters | rate limit, create, list, update | `notify_task` |
| Notifications **P** (`workers/tasks.py`, `services/notification.py`, `api/notifications.py`) | `notifications` | fan-out to active admins and operators, list unread, mark read | users; called by leads, apply, inbox |
| Inbox scan **M** (`workers/tasks.py:109`, `beat_schedule.py`) | the inbox directory | daily `parse_and_stage` of every file | Excel synchronisation, notifications |
| User accounts **M** (`admin/settings.py`, `scripts/seed_admin.py`) | `users` | create, toggle, bootstrap | authentication |
| Authentication and roles **P** (`core/security.py`, `core/permissions.py`, `api/auth.py`, `admin/dashboard.py`) | signed tokens, held by clients | login, panel login, refresh, logout, role checks | every admin request |
| Public pages, dashboard, logs, media browser **–** | none | read-only queries | – |
| Application factory, configuration, database session **P** (`main.py`, `config.py`, `database.py`) | the connection pool | one session per request, rollback on an exception | every request |
| Templates and static assets, migrations, nginx and docker **–** | – | – | – |

What is hard in each, and what correctness means:

* **Excel synchronisation.**  Parsing drops rows with warnings, so a mistake in
  a row looks like a car that left the file.  The preview and the apply are
  two computations over two snapshots of the table, with two copies of the
  column comparison.  `apply_diff` reads the token, then the cars, then writes
  and commits, then clears the token, invalidates the cache and queues two
  notifications: each `await` lets another request in, and a worker may die
  at each.  Correct means: an apply makes the pending and published Excel cars
  a mirror of the file and does what the preview said, if nothing is committed
  meanwhile; in any case it writes only cars that it has read, of these only the
  columns it compares and the status `archived`, never deletes or publishes, logs
  every change, and tells the admins.  (In those columns, and when it archives, it
  does overwrite what an edit has committed since it read the cars.)
* **Car service.**  A request edits an object it has loaded; the row may have
  moved on when it commits.  Correct means: unique `excel_row_id`, every
  change in the audit log of its own commit with the value it wrote, and an
  invalidation after every commit.  The car form of the panel posts every
  field, also those nobody touched, and a tab may be old: a save must reset
  nothing by itself.
* **Cars cache.**  SCAN and DEL are many commands, readers fill in between,
  a reader's two statements may straddle a commit.  Correct means: nothing
  that was right when it was stored is served after its invalidation, and
  nothing wrong is served for ever.
* **Images.**  `images_json` is a copy of rows of another table written by last
  commit; a new image's `sort_order` is the number of images, which collides
  after a deletion; files are deleted before the row's commit.  Correct means:
  `images_json` lists the rows in order; a row has a file.
* **Leads.**  INCR and EXPIRE are two commands; the counter counts refused
  requests too.  Correct means: at most ten leads of a kind per address and window, and a
  window that ends; a committed lead is announced, and no other.  (`api/leads.py:20` includes `admin_router` before its
  routes are declared, so `/api/admin/leads` registers none of them.)
* **Notifications.**  Users change between the call and the fan-out, which is not
  retried; marking all as read races new arrivals.
* **Inbox scan.**  One session for all files, an exception handler per file; a
  file is reported before it is announced; files stay in the inbox, so each day
  stages and announces them again.  Correct means: a bad file harms no other,
  and a message links to the preview of the file it names.
* **User accounts and tokens.**  Check-then-insert; a toggle flips what it has
  loaded, whatever its button said; the last admin may switch himself off;
  tokens outlive the switch.  Correct means: names stay unique, a click is
  lost only to another click, and who stays switched off is out in the end.

`PROJECT.json` has the hazards one by one, each at its line.

## 2. Modules

| Module | What it is |
|---|---|
| `CarData` | rows, keys and the pure rules: which cars a synchronisation touches, the column comparison of the preview and of the apply, the inserted car, the diff |
| `Workbook` | a sheet as `parse_workbook` sees it, and its result defined without the loop |
| `ExcelParse` | the row loop of `parse_workbook`, one action per branch |
| `CarService` | edit requests on the car table, one action per operation, any number interleaved |
| `CarsCache` | `CarService` with the readers, the cached responses and the key-by-key invalidation |
| `CarImages` | upload, reorder and delete of images as transactions, `images_json`, the files and `image_optimize_task` |
| `CarForms` | `CarService` with browser tabs: the GET, the typing and the POSTs of the car form |
| `Leads` | the INCR / EXPIRE limit, the handlers of a lead, the fan-out of `notify_task` beside users that are switched on and off |
| `ExcelSync` | `CarService` with upload, preview token, the two stages and the follow-up of `apply_diff` |
| `AtomicSync` | what the synchronisation promises to one who works alone: an apply is one step on the table; `ExcelSync` implements it |
| `LeadPromise` | what the lead endpoints promise, without counters, tasks or crashes; `Leads` implements it |
| `InboxScan` | `ExcelSync` with the daily scan: the loop over the files, its failures and announcements |
| `Accounts` | users, tokens, the two requests of the settings page and the seed script |
| `MC*` | bounded instances for TLC |
| `*Proofs` | TLAPS proofs about the module of that name; `CarEditsProofs` is about `CarsCache` and `CarForms` |

`ExcelSync`, `CarsCache` and `CarForms` EXTEND `CarService`, and `InboxScan`
EXTENDS `ExcelSync`: their next-state relations contain the actions of what
they extend, on the same `cars`, `audit`, `cacheBehind`, `pc`
and `loaded` variables.  `CarsCache` takes the requests up to the commit
(`Handle`) and replaces the one-step invalidation by a scan.  `CarImages`,
`Leads` and `Accounts` share no state with the others except the invalidation,
the soft delete and the active flag of a user, and stand alone.

### How state and steps correspond

* `cars` is the committed table; `NoCar` an unused primary key.  Brand, model
  and year are a car's `Name`, three parts that edits compare and write one by
  one; matching looks at `Folded(name)`, what `strip()` and `lower()` leave of
  it, with `Fold` any function on the words.  Other columns are `Columns`, with
  `price` always among them.
  `Blank` is the falsy cell, which `(x or "")` identifies with NULL.
* A transaction is its read (`BeginEdit`, `LoadExisting`), which copies rows to
  `loaded[s]`, and its commit, one step.  READ COMMITTED lets any other commit
  in between.  SQLAlchemy's UPDATE names only changed columns, so a commit
  overwrites the columns that differ from the *loaded* row
  (`SetFields`, `SetStatus`, `ApplyRow`).  What an exception or a crash
  interrupts before the commit leaves nothing.
* `audit` holds the `audit_logs` rows that the latest step inserted: the
  properties compare them with the change of `cars` in the same step, and the
  table of all rows would only multiply the states.
* `cacheBehind` is true from a commit to the next invalidation.
* `pc[s]` is the `await` at which request `s` stands.  In `ExcelSync`:
  `diffLoaded` (after `load_diff`), `applying` (cars loaded), `committed`,
  `cleared`, `invalidated`, `notifying`.  Between two of these the code has no
  effect another request can see.  `outcome[s]` is the import-log row of the
  apply in progress, `importLog` the bag of all rows of `excel_import_logs`, since
  two applies of one token may insert the same counts, `sent` the set of
  `notify_task` calls.
* `ByKey(table)` is the set of all dictionaries `{_db_key(c): c ...}` may
  be, since the query has no ORDER BY and later cars overwrite earlier ones.
* `Upload` is one step: before the stash nothing of it is visible, and a commit
  after its query is indistinguishable from one after the stash.
* `AtomicSync` has no requests: its `offered` is `OfferedFile`, where a token that
  an apply holds counts as offered until the commit, and as used up from the
  commit on, whatever Redis says meanwhile; its `importLog` is the set of the rows,
  as it applies no token twice; its `sent` is `sent` with the
  notifications that a committed apply still owes (`Ahead`).  So the commit is
  the step in which an apply happens, and all other steps of it are stutters.
* In `CarsCache`, `due[s]` is what SCAN still owes to session `s`: keys present
  from its first call to its last.  A key that was stored, expired or stored again
  meanwhile may be returned or not (`DropKey` takes any present key, `EndScan`
  waits only for the due ones).  `current` in an entry is a history variable:
  whether the response agreed with the table at the time of `cache_set`.

* In `CarImages`, `rows` is the committed `car_images`; what a request has flushed
  is in `pend[s]`, seen by itself only (`Sees`) and locked for others
  (`Unlocked`) until it commits.  Files are there or gone at once.  `req[s].seen`
  is the identity map of a reorder: with `autoflush=False` and without a refresh,
  a row it has loaded keeps the `sort_order` it had in memory (`JsonEntry`).  The
  SELECT of `refresh_images_cache` orders by a column that may tie (`Listings`).
  `alone` holds the requests that no other commit has overtaken since they
  loaded the car.
* In `Leads`, `counter` and `ttl` are the Redis key and whether it will expire;
  values above the limit are alike (`MaxCount`).  A key ends when its TTL runs out
  (`ExpireCounter`) or when Redis evicts it, with or without a TTL (`EvictCounter`,
  the `allkeys-lru` of `docker-compose.yml:43`); in the other modules, where every
  key has a TTL, `Expire` and `ExpireToken` stand for both.  A task leaves the queue when
  a worker takes it (Celery acknowledges early) and is not retried.  `current`
  and `admitted` record which requests belong to the window that lasts,
  `orphaned` and `lost` what died half-way, `steady` who has been active since a
  lead was committed.

* In `CarForms`, `tab[b]` is what a GET has rendered, `read`, with the `input`
  that the operator sees and changes; `posted[s]` is the form that a request
  carries from the tab to its commit.  `Echo` is the way of a value through the
  template and back: an empty text becomes an absent field, while a mileage of 0
  stays, and the line breaks of a textarea become CRLF.  `Valid` is what
  `Form(...)`, `Decimal` and `CarUpdate` let pass.
* In `InboxScan`, `files` and `at` are the loop, `fresh` the token between the
  return of `parse_and_stage` and `notify_task.delay`, `aborted` a session whose
  transaction has failed and that nobody rolls back.  `broke` is a history
  variable: something else than a bad file has failed in this scan.
* In `Accounts` a token is a user and a type; making one renews his `Age`, so a
  token that is `aged` and not renewed expires.  `req[s]` is what a request has
  loaded; the row of the one who asks is loaded by `Enter` and not refreshed by
  the query of `toggle_user` (`LoadTarget`).  `switched[s]` records who has been
  switched since `s` loaded him.  A request that dies, or is turned away, is one
  that takes no further step.

Definitions headed "Mutant:" are deliberate mistakes, used by no action: each
stands next to the definition it falsifies, and putting it in that definition's
place makes TLC refute the property `PROJECT.json` names with it.

## 3. Runs

| Run | Instance | Distinct states | Shows |
|---|---|---|---|
| `excel_parse` | every sheet up to 3 rows of 14 kinds, and sheets that raise | 17 528 | the loop yields exactly the accepted rows of the loop-free definition; every non-blank line is a row or has a warning, and a duplicate warning names the accepted line |
| `car_forms` | 1 tab, 2 requests that may die, 1 car, of a year that `CarUpdate` takes or not, with an empty text, a zero mileage and a text of several lines; PATCHes of the brand while the form changes the model, publish, archive, delete beside it | 2 775 388 | a save reverts only what a stale form shows, and leaves the car as the form shows it |
| `cars_cache` | 2 editors, 2 readers, 1 car, crashes | 261 291 | a response right when stored is stale only while its deletion is under way; stale responses end for good |
| `excel_sync` | 1 request at a time, 3 cars, 3 files, 2 tokens, edits | 1 579 648 | an apply mirrors its file, does what its preview said, announces removals in the end; with its log and its messages it is one step (it implements `AtomicSync`); entries form one history of a car; unique `excel_row_id` |
| `excel_sync_concurrent` | 2 requests, 2 cars, 3 files, 2 tokens, edits | 1 099 655 | applies interleaved with each other and with edits: each writes only cars it has read, in the columns it compares, and archives; all is logged, each commit is followed by its invalidation, its notifications and the end of its token |
| `inbox_scan` | an inbox of 3 files (one unreadable) that changes, 2 tokens, an apply beside the scan, failing queries and broker, dying workers | 946 792 | each file gets its own preview and message, a bad one harms no other, scans end, no apply is announced that was not committed |
| `car_images` | 2 requests at a time of 3, 1 car, 3 images, crashes, a soft delete, the worker | 659 828 | a request that is not overtaken puts `images_json` right whatever it was, and a reorder is obeyed; a row without a file has its deletion under way; what is committed is optimised |
| `leads` | 2 requests at a time, limit 2, 2 leads, an admin and an operator, crashes, evicted counters | 469 812 | the limit holds in each window, counters end, each committed lead reaches the staff that stayed active; all of it implements `LeadPromise` |
| `accounts` | 2 rows, 2 sessions, 2 bootstrap settings with one e-mail | 808 154 | names stay unique, a click is lost only to another, a panel without an active admin stays closed, who stays switched off is out in the end |

**Bounds.**  `CarId` bounds the table, `Token` the uploads, `Session` the
requests at one time.  Two cars with one name, one of them with an
`excel_row_id`, are what it takes for two cars to meet on a key; three leave
room for one that is archived while another is inserted.  Two requests show
every pairwise race; `apply_diff` reads and commits once each, so a third
request adds no order of reads and commits that a pair lacks.  Two tokens give an
old and a new preview.  The files differ by a price, a missing line, a line
with and without the id, a blank cell, an empty cell and a model in capitals: each
branch of the comparison.  (Repeated keys and warnings are the business of
`excel_parse`, whose 14 kinds of rows take every branch of the loop.)  `MaxAlike`
bounds how often one log row is counted; two applies of a token are the most that
two requests can have in hand.  At the bound of `CarId` an apply with
more new rows than keys is refused (`NoRoom` in `Rejected`); nothing of that
kind exists in the code, and `NewRowsAreInserted` excludes it.  `InsertFails` in
`Accounts` has the same clause for `UserId`, and a scan starts only while there is a
token for each file.  Applies do not die in `excel_sync` and
`excel_sync_concurrent`, since the first loses what its properties ask for; they
die everywhere in `inbox_scan`.  In `car_images`
`MaxRequests` bounds the requests served, `MaxImage` the ids and `MaxBatch` an
upload; an upload and two requests that overlap on what it brought are enough for
each pair of handlers to race, and two overlapping uploads and a third request for
a repair.  One retry stands for three: the task has the same choices after
each.  In `leads` one kind of request suffices, since counters are independent
and a consultation is a sell request that is never rejected; with a limit of two
and two requests at a time, windows end while requests of the old one are
under way.  In `car_forms` one tab that is posted more than once makes its own
form stale, and so do the other requests; the PATCH sets the brand and the tab the
model, so that a save and a PATCH together make a triple that neither has seen,
while publish and archive set a column that the form shows.  In `inbox_scan` the unreadable file lies between the two others, and two tokens
make one full scan, or two of one file.  In `accounts` two rows are an admin who
asks and a target, or one who is both; the `.env` renames the bootstrap admin and
keeps his e-mail, which is how the seed script meets the unique constraint.
Symmetry over cars, requests and tokens is used only in runs without liveness.  Deadlock is checked in
every run.

**Fairness.**  (`excel_parse`, `car_forms` and `excel_sync_concurrent` need none.)
`FairSync` asks that a handler which has committed runs on
(`Finish`): those steps are calls on Redis and on the broker that wait for no
other request.  Nothing is asked of the steps before the commit.  `FairCache`
asks that Redis expires keys that have a TTL, and nothing of readers, editors or
scans.  `FairImages` and `FairLeads` ask that a handler which has committed makes
its calls of `delay`, that workers serve their queue, that Redis expires keys (nothing makes it evict
one) and that a handler between INCR and EXPIRE runs on; a step that may wait for a row
lock or a commit is not forced, and crashes are allowed throughout.  `FairInbox`
asks that a worker which runs the task runs it on; it may still die.
`FairAccounts` asks that tokens age and expire when nobody renews them, which
`exp` in each token and the check in `decode_token` do; nothing is asked of requests.

### Where the code and its documentation disagree

These runs end in a violation on purpose; the trace is the finding.

| Run | Statement | What happens |
|---|---|---|
| `double_apply` | the matching key identifies a car (README.md:119) | two applies of one token are both past `load_diff` when the first clears it; a row without id becomes two cars |
| `returning_car` | "new rows -> insert with status=pending" (`excel_sync.py:8`) | a car that was archived or deleted and is in the file again is "new" and violates `uq_cars_excel_row_id`; the whole apply fails, every time |
| `gearbox_preview` | "preview the diff, apply with a single click" (README.md:11) | `_diff_row` compares `gearbox` and `fuel_type`, `field_map` omits them: the update is previewed for ever and never made |

Further behaviour that the model has and no run singles out:

* A NaN price makes `Decimal <= 0` raise `InvalidOperation`, a year like `1e999`
  makes `int(float(x))` raise `OverflowError`; neither is caught, so the file is
  not rejected "with warnings" (`excel_sync.py:10`) but ends in a 500
  (`RaiseOnRow`).
* A row with a warning is left out of `rows`, and its car is archived "because
  no longer in the Excel" (`excel_sync.py:499`).
* Two overlapping image requests each write `images_json` from what they see, so
  the later commit drops the other's image from it, or keeps one that is
  deleted, until the next request on that car: `AloneRepairs` says no more
  than that.  After a deletion an upload's first `sort_order`, the number of
  images, is one that is taken, and the order of the two is left to the database.
* A file is unlinked before the commit: a request that dies in between leaves a
  row without a file (`abandoned` in `FilesOfRows`).  Nothing deletes variants.
* A request that dies between INCR and EXPIRE leaves a counter without a TTL:
  after `Limit` requests that address is refused until Redis happens to evict the
  key, if ever (`orphaned` in `CountersEnd`).  A lead whose request dies before `delay`, or whose task
  dies, is announced to nobody; so is one at a time when no admin or
  operator is active.

* The car form asks for a Jalali year, 1350 to 1410 (`templates/admin/car_form.html:12`),
  and `CarUpdate.year` takes none before 1900 (`schemas/car.py:46`), while
  `CarBase` and the Excel import do: saving the form of such a car raises a
  `ValidationError` inside the handler, a 500 (`EarlyYears` in `Valid`).
* A form that was opened before a publish, an import or another save puts back
  every field as it was then.  `OnlyStaleFormsRevert` says that nothing else is
  ever reset; a description of several lines is "changed" by its first
  save, from LF to CRLF, with an audit entry.
* The button of the settings page says what it will do (`settings.html:39-47`);
  `toggle_user` flips what it finds.  `LostOnlyToAnother` is what holds.
  An admin may switch himself off, and after the last one has, the seed
  script finds the name and does nothing (`LockoutIsFinal`).
* A failed query leaves the session of the scan in a failed transaction, so that
  the files after it fail too; a broker that fails after the staging reports a
  file twice, with its token and with an error (`broke` in `BadFilesHarmNobody`).
* The removals of an apply are recomputed at the time of the apply: a preview
  that has grown old archives cars that it never listed (`excel_sync.py:453`).
  `PreviewIsApplied` is therefore stated for previews that are still what
  `build_diff` would compute.
* An apply that an edit has overtaken writes its columns, and archives, all the
  same: a price just set by hand is replaced by that of the file, and a car just
  published whose line is missing is archived.  `ApplyOnlyUpdatesOrArchives` says
  that it does no more, and `MirrorAfterApply` is stated for applies that nothing
  has overtaken.
* When two cars share a key, the one that `by_key` loses is neither updated nor
  archived, whatever the file says.  `MirrorAfterApply` assumes unique keys.
* A worker that dies after the commit loses the warning about archived cars, and
  a retry finds nothing left to archive.  `AdminsWarned`, `UsedTokensAreCleared`
  and `SomeoneWillInvalidate` are checked and proved without crashes,
  `SentAreLogged` with them.
* With two requests at once the *old* value in an audit entry may be a value
  that the other has already replaced; `OldValueIsReplaced` holds, and is
  checked and proved, one request at a time.  The new values always are the ones written.
* A reader that queried before a commit may store after that commit's
  invalidation.  README.md:99 ("invalidated on any admin mutation") then
  does not hold until the TTL; `StaleEndsForGood` is what remains.  The same goes
  for a listing whose `total` and `items` straddle a commit.

## 4. Proofs

For all values of the constants (any number of cars, files, requests, tokens;
crashes included), from the assumptions named in the modules:

| Module | Theorems |
|---|---|
| `CarServiceProofs` | `SpecTypeOK`, `SpecEidUnique`, `SpecAudit`: types, `excel_row_id` unique, every change logged in its commit; `SpecCarsLast`: no car is lost, relabelled or undeleted |
| `CarEditsProofs` | of `CarForms`, `SpecOnlyStaleRevert`, `SpecSavedAsShown`: what a save of the form writes, field by field, beside every other edit, and `FormSpecAudit`: it is logged like any other edit; of `CarsCache`, `CacheSpecTypeOK`: a key holds a response of its endpoint or nothing; `CacheSpecOnlyRaces`: what was right when stored is stale only while its invalidation is owed or under way |
| `CarImagesProofs` | `SpecImagesTypeOK`, `SpecFilesOfRows`; `SpecAloneRepairs`: a request that is not overtaken leaves `images_json` as the rows in order, whatever it was; `SpecReorderIsObeyed`: and a reorder leaves it in the order asked for |
| `ExcelParseProofs` | `SpecTypeOK`, `SpecAccepted`, `SpecAccounted`: the row loop equals its loop-free definition and loses no row silently |
| `ExcelSyncProofs` | `SyncSpecTypeOK`, `SyncSpecEidUnique`, `SyncSpecAudit`; `SyncSpecMirrors`: an apply that is not overtaken makes the table a mirror of its file; `SyncSpecPreviewIsApplied`, assuming `Columns` without the two enum columns: it does what a current preview listed; `SyncSpecApplyOnly`: what an apply never does, however it is overtaken; `SyncSpecCarsLast` and `SyncSpecTakenRows`: a car is never lost, and an apply commits only if each of its rows with an `excel_row_id` in use names a car it has read; `SyncSpecApplyAgain`: a file that the table already mirrors is applied without any effect; `SyncSpecSentLogged`; assuming `~MayCrash`, `SyncSpecWillInvalidate`, `SyncSpecAdminsWarned`, `SyncSpecTokensCleared`; assuming that `Session` has one element, `SyncSpecOldValue`; and, assuming both, `SyncSpecAppliesAtOnce`: `ExcelSync` implements `AtomicSync` |
| `InboxScanProofs` | `InboxImplementsSync`: `InboxSpec` implements `SyncSpec`, so that all of the above holds beside scans; spelled out in `InboxSafety`, `InboxSentLogged` and, assuming `~MayCrash` and one session, `InboxAppliesAtOnce`; `SpecAnnouncedPreviews`, `SpecBadFiles` |
| `LeadsProofs` | `SpecLeadsTypeOK`, `SpecWithinLimit`, `SpecAnnounced`, `SpecStaffInformed`; `SpecKeepsPromise`: `Leads` implements `LeadPromise` |
| `AccountsProofs` | `SpecAccountsTypeOK`, `SpecNamesUnique`, `SpecLockoutIsFinal`, `SpecLostOnlyToAnother` |

**The argument.**  `EidUnique` and `AuditCoversCommit` are not inductive: a commit
writes through `loaded[s]`, so one must know that a row which a session has
loaded still exists.  `IInv == TableOK /\ LoadedExist /\ EidUnique` says so
(rows are never removed).  `CommitIInv` is the one lemma about a
commit: if every row of the new table is an old row with identity unchanged, or
a new one whose id was free, `IInv` survives.  Each action then only has to show
the shape of its new table.  `SyncIInv` adds what each request holds
(`HeldOK`, `StagedOK`) and that what a request has loaded for an apply is a
set of Excel cars.  For `apply_diff`, `ApplyCases` splits
a row of the new table into fresh, kept, gone and untouched; those four cases
carry both the invariant and the audit theorem.  `EditIInv` and `EditAudit`
are stated for `Edit(s)` alone and reused in `ExcelSyncProofs`.  For the cache,
`OnlyRacesLeaveStale` is inductive once the domains of the functions are known:
a commit makes everything owed, `BeginScan` turns what is owed into what is
due, and only a deletion or a crash (which makes it owed again) takes it from
there.

*Forms.*  `FInv` adds to `IInv` that tabs and posts hold well-typed forms and that
a request with a form has loaded its car and not committed.  So the only step that
`Saves` is `SaveForm`, and `SaveWrites` says what it writes: a field of the form
where it differs from the loaded car, nothing else.  Both properties are
readings of that lemma.

*The row loop.*  `ParseInv` says of the rows read so far: the accepted ones are
those of the loop-free definition, `seen` holds the key of every well-formed one
with the row accepted for it, and every other one is blank or has a true warning.
`ReadRow` is the induction step, once for all branches.

*The mirror.*  `ComesFrom` tells which row of the file a car of the new table has
its key from; with unique keys `ByKeyIsOnto` makes `by_key` onto, so that each row
of the file has one car and each syncable car one row (`MirrorRow`, `MirrorTable`).
The preview adds that its dictionary is the one of the apply (`PreviewByKey`) and
that, without the enum columns, writing a row changes the car just when the preview
said so (`WrittenIsShown`); with `gearbox` among the columns the theorem is false,
which is what `gearbox_preview` shows.
`SyncSpecApplyOnly` needs `SourceInv`: what a request has loaded for an apply are
Excel cars with the `excel_row_id` they still have, as no edit and no apply changes
either (`Lasting`, which `EditLasts` and `CommitApplyOnly` prove step by step).
`SyncSpecTakenRows` is what is true of the rows that `returning_car` shows refused:
a row whose `excel_row_id` is taken is either in the dictionary, and then by
`EidUnique` its car is the one with that id, or new, and then the flush fails.  As
a deletion lasts, the file of a deleted car's row is refused until the row goes.

That a second apply of a file does nothing (`MirroredCommit`) is the converse
reading: in a table that mirrors the rows there is no key without a car, no car without a key, and no
column to write, whichever dictionary `by_key` is; the sets that the log counts
are empty.

*One apply, one step.*  The two theorems that assume one request at a time (several
cars, files and tokens, one session) rest on what such a request can rely on: with
`HoldsCurrent`, what it has loaded is what the table has, so the old value it
writes in an entry is the row's; with `HoldsTruth`, an apply that has loaded the cars
sees the table as it is.  TTLs and the clearing of the token still come between its awaits.  An edit is an `Edit` of
`AtomicSync`, an upload an `Offer`, a TTL that runs out a `Withdraw` unless the token is in
hand, and every await of the apply but the commit changes nothing under the
mapping.  The commit is `Apply`: the four cases of `ApplyCases` again, now
read as a statement about the whole table (`CommitRow`), with the new cars one
for one the rows without a car (`CommitAdds`) and the counters of the import log,
which the code keeps while it loops, equal to what has changed in the table
(`CommitWrites`).  With two requests this is false: they apply one token
twice (`double_apply`), and with crashes too: a dead worker tells nobody.

*The follow-up of a commit.*  Without crashes an import log is either told or on its
way (`WarnInv`), where a request at its second notification has made the first;
`TokenInv` adds that a log's token has been issued, and so cannot be staged again.

*The scan.*  Each step of the scan is a step of `SyncSpec` or leaves its variables
alone.  `ScanInv` says that `fresh` is reported for the file the scan has come to and
that all files before it are reported; `DroppedTokens` is why applies and TTLs
do not disturb it: staged diffs only go away.

*Images.*  `ImagesInv` says what each request has flushed at its place in the handler
(`FlushOK`): an upload its new rows, whose files are written; a reorder new places
of rows that it keeps locked; a delete the removal of its one image.
Nobody else can name an id that is not committed yet (`Unknown`, as ids come
from a sequence), so no file goes but that of the image to be deleted, and a row
without its file has its deletion under way.  `AloneOK` is what a request knows
that no commit has overtaken: the rows are the ones it loaded with its own
flushes over them, and its SELECT lists just these in order, so what it writes is the mirror.  For a
reorder the listing is ordered by the places it has given; being an
increasing bijection from positions to positions, the
order of the listing is that of the request (`IncreasingIsIdentity`, by the
cardinalities of the initial segments).

*Leads.*  For the limit, `SlotsOK` counts the requests let through in a window together with
those that hold a number within the limit and have not been checked yet: both
are at most the counter and at most the limit, which `Admit` turns one into the
other and only `Count` adds to.  The promise takes more:
`OnceInv` follows each lead through flush, commit, queue and task, so that it is
accepted once and told once; `PlaceOK` says that a request past the check holds a
number within the limit.  Then every step is one of `LeadPromise` or a stutter
under the mapping of `Leads`: a place is taken by INCR, not by the comparison.

*Accounts.*  `IInv` is types, `NamesUnique`, and `SwitchOK`: a request about to
toggle a user has loaded the value that he still has, unless somebody is in
`switched`.  `Held` gives the rest: what a session has loaded exists.

**Only model-checked.**  Every invariant and every action property of the runs
is a theorem, and so are both refinements.  Liveness under fairness is beyond the prover and stays with
TLC: `StaleEndsForGood`, `RemovalsAnnounced`, `ScansEnd`, `OptimizedInTheEnd`,
`CountersEnd`, `LeadsAnnounced`, `OffMeansOut`.  The three statements of the runs
that end in a violation are false.  `AnnouncedAreCommitted` is proved and in no run,
since `KeepsPromise` contains it; so are `SpecCarsLast`, `SyncSpecCarsLast`,
`SyncSpecTakenRows` and `SyncSpecApplyAgain`, whose statements are made in the
proof modules.

## 5. What is left out, and why

* Listing filters, sorting and pagination of the car lists, and everything that
  only reads: the answer is a function of the table.
* Passwords and signatures: a login is one with the right password.  The
  operator role is the same check as the admin role and keeps no state.
* Row locks and the order in which two applies take them: a commit is a step.
  A transaction that PostgreSQL aborts is a crash before the commit.
* Rounding of prices to two decimals by the column type, which can make a row
  differ from its car again at each upload: values are opaque here.
* A worker that dies in `image_optimize_task` loses the task, as in `Leads`; in
  `CarImages` workers do not die.  The Telegram message of `notify_task` and the
  files of rejected sell requests are read by no other step.
* An update with a null price, name or status: the flush fails and changes nothing.
* Two uploads of one file name in one second are written to one path
  (`media.py:124`); each is read by its own request, and no modelled step reads the
  path of another.
* An operator's status and note on a lead, and `mark_all_read`: one UPDATE each, of
  rows that no other handler writes.  `services/notification.py` is called by
  nothing in the repository.
* Each Celery task runs in an event loop of its own (`asyncio.run`,
  `workers/tasks.py`) over the database pool and the Redis client of the module,
  which an earlier task may have used in another one.  What the libraries then do
  with a connection of a closed loop is outside the model: a task that cannot reach
  the database is one whose query fails (`QueryFails` in `InboxScan`) or that is lost.
* Public pages, dashboard, log pages and the media browser only read.  Migrations
  run offline, templates, nginx and docker are presentation and configuration.

## 6. Plan

1. *(done)* All modules above with their runs; type correctness, uniqueness,
   audit, cache, limit.
2. *(done)* `CarForms`, `InboxScan`, `Accounts`, `LeadPromise` and the refinement;
   the mirror, the follow-up of a commit, the row loop, the forms, the scan and the
   accounts proved.
3. *(done)* The invariant of `CarImages` about what its requests have flushed, and its
   four properties proved.
4. *(done)* `AtomicSync`, an apply as one step on the table, and the proof that `ExcelSync`
   implements it for one who works alone.
5. The lead list of the panel with two operators, and `mark_all_read` against new
   arrivals, if a property turns up that they could break.
