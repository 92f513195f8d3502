# Verification of scmgent

scmgent is the web platform of a cross-border supply chain team: a Hono server over
PostgreSQL (`src/apps/web/server`), a React front end (`src/apps/web/src`), the table
definitions (`src/packages/db`), cron jobs that call the server over HTTP, and two external
services, Dify (AI workflows) and Feishu (spreadsheets, messages).

The server is one Node process. No request runs beside another in the sense of threads, but
every `await db...` hands control to all the others, so a handler is a sequence of database
statements with arbitrary steps of other requests, cron calls and background jobs in between.
Almost no handler opens a transaction around "read the status, then write"; what protects
the data is a `WHERE` clause, a unique index, a row lock, a variable of the process or a count
of rows in `task_runs`. Whether these are enough is what the modules below are about.

## The system's parts

| Part | State | Operations | Meets | Hard behaviour | Correct means |
|---|---|---|---|---|---|
| Rule center (`routes/rules.ts`) | `rule_param_sets` | create, restore, edit, simulate, submit, approve, reject | replenishment task and pages read the active sets | two requests on one row or scope; a long simulation; an approval's transaction | one active set per scope, no gap, contiguous versions, a simulation mark belongs to the parameters |
| Reply scoring (`lib/cs-reply-quality`) | `cs_reply_batches`, `cs_reply_records`, `activeBatchJobs` | import, score, rescore, clear | Dify | a pool of runners, jobs in memory, restart, throwing statements | no row scored twice at once or left "scoring", counters right, jobs end |
| List pulls (`lib/procurement-feishu-*.ts`, `lib/task-runs.ts`, `routes/procurement-lists.ts`) | `task_runs`, `procurement_list_rows`/`_meta` | start, count, finish, mark stale; cron and manual pull | Feishu tables; the pages that list rows | rows of `task_runs` used as a lock; runs marked failed while still running; restart | one pull of a list at a time, the list never goes back to older data |
| Sales history (`lib/import/batch.ts`, `async-job.ts`, `sales-xiaoshou.ts`, `lib/sales-history-*.ts`) | `import_batches`, `sales_history`, `sales_history_monthly` | import in the request or in the background, Feishu pull, monthly aggregation, pruning | forecasts and inventory planning read the months | a batch marked failed while its job works; the remains of a pruned month; restart between rows | a day is one file's, a failed job left nothing, a month keeps its days, only counted days are pruned |
| Forecast versions (`lib/forecast-version.ts`, `forecast-collaboration.ts`, `forecast-baseline-task.ts`, `forecast-reset.ts`, `routes/sales-forecast.ts`) | `sales_forecast_versions`, `sales_forecast_monthly`, `task_runs`, the reset's flag | create, edit, calibrate, publish, merge, archive, delete, generate, reset | accuracy task, demand plan | publication, merge and reset next to edits and runs that read the version before | the right rows are in force, rows of a decided version do not change, a SKU keeps its forecast |
| Product costing (`lib/product-costing`) | projects, BOM lines, `costing_extract_runs` | extract, analyse, edit lines, apply facts | Dify | background runs, heartbeat and takeover, late answers | one run at a time, late answers dropped, typed lines stay, a project does not hang in "extracting" |
| Data issues (`lib/inventory-data-issue*.ts`) | `inventory_data_issues` | scan, dismiss, note | daily pipeline, cron, the page | a scan next to a person; the unique index cuts a scan short | dismissed stays dismissed, a scan settles the list |
| Stock alerts (`lib/inventory-health-store.ts`, `tasks/stockAlert.ts`) | `stock_alerts`, `task_runs` | post, pipeline step, resolve | daily pipeline, cron, the page | replacing the open alerts without a transaction; two runs | one row per short SKU, runs apart, a post not refused for a run that is gone |
| Purchase drafts and receipts (`lib/pmc-*.ts`, `lib/purchase-draft-*.ts`) | plans, drafts | receive, close | ERP imports | quantities received in several steps | received never exceeds ordered (write routes retired: "analysis only") |
| Rules and planning computations (`rules/`, `lib/*timeline*`, `lib/share-*`) | none | evaluate | everything above | numeric edges | agree with a reference definition |
| News, logistics, FOB settlement, QC reinspection, sales analytics | their tables | ingest, match, settle | Feishu, Dify | retries | – |
| Sessions and roles, AI gateway, dashboards, front end | cookies, caches | – | everything | – | – |

`PROJECT.json` lists these parts with what is modelled of each, and under `hazards` the lines
where this code can go wrong in ways a test hardly reaches.

## Modules

Every module `X` of the first column has an `MCX` (its instances for TLC) and an `XProofs` (its
theorems).

| Module | What it is | Runs |
|---|---|---|
| `RuleParamSets` | the rule center's workflow, one process per request | `RuleApproval`, `RuleSimulation`, `RuleLateReject` |
| `CsReplyScoring` | import and scoring of one batch of replies | `CsScoring`, `CsFaults` |
| `FeishuPull` | pulling one procurement list, with `task_runs` as the lock | `FeishuPull` |
| `SalesHistory` | imports, aggregation and pruning of the sales tables | `SalesHistory`, `SalesPruned` |
| `ForecastVersions` | versions and rows of the sales forecast, baseline runs, the reset | `ForecastVersions` |
| `CostingExtract` | the extraction runs of a costing project and its page | `CostingExtract` |
| `IssueScan` | the work list of inventory data issues | `IssueScan` |
| `StockAlerts` | the stock alert job and the rows it replaces | `StockAlerts` |
| `ActiveSetRegister` | what readers of the rule center are promised; `RuleParamSets` implements it | `RuleApproval` |
| `TableMirror` | what readers of a procurement list are promised; `FeishuPull` implements it | `FeishuPull` |

In all of them a step is what the process does between two awaits: one statement, or one
transaction when the code opens one and nothing in it can be overtaken. Where a transaction
can be overtaken (an approval, a merge, a reset, the replacement of a list) its statements are
steps and PostgreSQL's row locks are guards. Row ids, names, quantities and texts are model
values. Variables called history do not exist in the code; they record what the properties
speak about ("was already running when", "somebody else wrote meanwhile").

### RuleParamSets and ActiveSetRegister

`row` is the table `rule_param_sets`, one record per id; `params` is one of a few values, so
that "the parameters that were simulated" and "the parameters now" can differ. `req[r]` is the
local state of a running handler: what it read and the statement it runs next (`pc`). Every
endpoint is an action `...Read` (authorisation, `loadSet`, the status check, the body) and an
action `...Write` (the `UPDATE` or `INSERT`), with `...Stale`, `...Conflict` or `...Gone` for
the branch in which the `WHERE` clause or an index refuses. Approval is the one transaction:
`ApproveLock` (`SELECT ... FOR UPDATE`), `ApproveScan` and `ApproveArchive` (the `UPDATE` of
the active rows: its snapshot, then the wait for the rows' locks and the recheck that
PostgreSQL makes at read committed), `ApproveCommit` or `ApproveConflict`. Its uncommitted
writes are in `req[r].scan`; `lock` says which rows make other updates wait. `Abandon` is a
request that dies, with PostgreSQL's rollback.

`clock` is `new Date()` in milliseconds and runs only as far as `MaxClock`; the `updated_at` of
an update lies between the moment the handler built it and now. `evaluated`, `stamps` and
`collided` are history: they record what was simulated and whether two edits of a row carried
the same millisecond, which is the one way to deceive the check of `rules.ts:187`.

`ActiveSetRegister` is what the replenishment task and the pages may rely on when they read
`WHERE status = 'active'`: per scope at most one set in force, and it changes in one step to
another set. `ImplementsRegister` maps `inForce[k]` to the active rows of scope `k`. The register
also has `Withdraw`, by which a scope loses its set: the code lets a rejection do that (see
below), so the abstract promise had to be weakened to what the handlers keep; that no
*approval* leaves a gap is `NoGapOnApproval`.

### CsReplyScoring

One batch. `batch` and `row` are the two tables, `imp` the import job, `active` whether
`activeBatchJobs` has the batch, `job[j]` a scoring job with the list `queue[j]` its runners
share, `work[w]` what a worker is doing. A worker is a runner of a job's pool, the rescoring
of a single record, or the job itself in its last `refreshBatchScoreCounters`. The order of a
queue is left open since the query has no `ORDER BY`. There are several `Jobs` only because a
job whose statement threw is released while its other runners go on (`Promise.all` rejects at
once): those then live beside the next job. `AutoScore` says which values the `autoScore` field of
the upload may have. `Mark`, `Answer`, `Count` and `Store` are the four
statements of one row's scoring; `ImportThrows`, `JobThrows`, `WorkerThrows` and `Restart` are
what can go wrong between any two, at most `MaxFaults` times. `mixed` and `dropped` are
history.

### FeishuPull and TableMirror

One of the two procurement lists (they share nothing). A pull is a request: manual ones
(`POST /procurement/lists/:type/sync`) count the running rows of `task_runs` and then insert
their own (`AssertNoneRunning`, `ManualStart`); cron ones (`/api/tasks/procurement-...-pull`)
insert first and count afterwards, their own row included (`CronStart`, `CronCount`). Both
read the whole Feishu table (`Fetch`) and replace the list in one transaction. `run` is the
status of each pull's row, `old` says which are past the ten minutes after which `Reap`, run
by every read of the task page, marks them failed, whether their handler lives or not.

The transaction is at PostgreSQL's default level: `DeleteBegin` takes the snapshot of the
`DELETE`, `DeleteRows` deletes what is left of it once no other transaction holds any of those
rows, `WriteMeta` is the upsert that makes a second writer wait for the first, `Commit` makes
it all visible. `list` and `meta` name the pulls whose rows are in the table and whose count
is in `procurement_list_meta`; the rows themselves are not distinguished, and every pull is
taken to bring at least one. `Throws` is an error anywhere, `Caught` says where each handler
then goes, `Crash` is a restart. `reaped` and `overlapped` are history.

`TableMirror` is what the pages that read a list may rely on. The list shows one state of the
Feishu table (`shown`, a set of versions, has one member), and each pull replaces it as a whole
by a state that is not older (`Replace`). `ImplementsMirror` maps `shown` to the versions read by
the pulls whose rows are in the list, `table` to `feishu` and `mixed` to `overlapped`. The
handlers do not keep two pulls apart in all cases, so the promise has a second half: once two
have overlapped (`Mix`), rows of one may come beside what is left of the others' (`Blend`), but
nothing appears that no pull has read, and every commit shows what its pull read. The ten
minutes, the errors, the restarts and the counting of runs are all stutters of the mirror. Two
things are not visible in it: which pulls can overlap is `CronPullsExclude`, and that the
rows agree with the counter in `procurement_list_meta` is `ListMatchesMeta`.

Left out: pushes, since their routes answer `analysisOnlyResponse` and no row of theirs is
ever running; the commercial status written after a pull, whose errors are only logged; the
case that Feishu is not configured.

### SalesHistory

`daily[s][d]` is the row of a SKU and day: the batch that wrote it last and the parts of that
batch's file it adds up (the same SKU may fill several lines of a file; `ON CONFLICT DO UPDATE`
adds to a row of the same batch and replaces any other). `monthly[s][m]` is the set of the days
a monthly quantity adds up. An import is `Request`, `AbandonStale` and `InsertBatch`
(`createImportBatch`), `SaveFile` if the job runs in the background, one `WriteRow` per line of
the file, the aggregation and the pruning, and `Finish`; `CountRows` and `SettleFailed` are the
catch of the background job, which counts the rows that carry the batch's id, `SettleFailed`
alone the catch of the request. The aggregation is two statements, `ReadOldest` and
`UpsertMonths`. `PullDays` is the daily Feishu pull, `StartSweep` the maintenance task (which
prunes) or the aggregation on demand (which does not). `NextDay` moves the retention limit.

The code looks back 36 months (`aggregateSalesHistoryMonthlyFromDaily`) and keeps far more days
than the limit reaches here; only what begins before the oldest stored day, and what lies
before the limit, matter to the properties. `Sold` says on which days each SKU was sold, and
all files agree with it: a file that says otherwise overwrites days by design. The comment at
`sales-history-monthly.ts:70` is the intent of `SoloMonthsKeepTheirDays`. The history variables
`overlap` and `broken` are the exceptions of its properties: with two workers, or one that died,
the code does lose days of a month. `skipped` collects the SKU-months that an aggregation of a
lone worker took for pruned although they hold a day no month adds up; an import whose first
column is not a month's first day leaves them behind, and so does a month on whose first days
nothing was sold. Their days are pruned uncounted (`SalesPruned`), no others
(`SoloPrunedWereCounted`). A synchronous import whose handler throws reports nothing imported
although its rows are stored (`routes/import.ts:287`), hence `FailedLeftNothing` is about
background jobs. The Feishu pull checks only the newest of its dates
(`feishu-sales-daily-mapper.ts:16-28`), so `Recent` says for each SKU which days the Feishu table
holds, old ones too. An old day comes back after its pruning, moves the oldest day back, and a
pruned month after it is then summed from its remains. `revived` collects the days that a pull
alone has brought back, and `SoloMonthsKeepTheirDays` excepts the months from such a day on, as
long as it is stored.

Not modelled: the monthly wide file, batch progress, the parsing of cells, the rebuild of the
sales cube.

### ForecastVersions

`version[v]` is the row of a version with the moment of its last change (`publishedAt`; ties are
left out), `rows[v][s]` the monthly rows of a SKU in it: who inserted the row (`id`) and whose
content it has (`by`); the months and platforms of a SKU are one row. `InForce(s)` is what
`forecast-published-resolve.ts` resolves: the row of the latest published version that has one.
`work[r]` is a request or background run: `ReadDraft` is `assertVersionIsDraft`, after which
the handler goes on whatever happens to the version. A merge is `FindPrimary` and `ReadPrimary`
outside its transaction, `OpenMerge` and `CopyDraft` inside it; a baseline run is `CheckFlag`,
`CreateDraft`, then `NextRow` and `PutRow` for each SKU and `Finish`; regenerating one SKU adds
`PurgeSku`; the reset is `FailRuns`, `RaiseFlag`, `WipeRows`, `DropVersions`. A published
version is deleted by nothing but the reset although `deleteDraftForecastVersion` reads the
draft before its transaction, for the `DELETE` names the status again. `clock` counts the
decisions (publications, merges, archivings, deletions, resets): `began < at` reads "this
request was already running when that version was decided".

Left out: the filter by station; a start month that does not fit (a failing statement stands
for it, `Fail`); review items; cancelling a run.

### CostingExtract

One project. `run` is the status of each row of `costing_extract_runs`, `stale` says which had no
heartbeat for fifteen minutes, `work[r]` is the executor, `lines` the bill of materials (a line
has a name, the pages it was found on, and whether a person typed or changed it). `Start` is
the transaction of `startExtractRun`; `Boot`, `Call`, `Recheck` and `Store` are
`executeExtractRun` page by page, `LookAtLines`, `LastCheck` and `Finish` its end, `FailRun` and
`MarkProject` its catch. `Analyze...` is the analysis of the product facts. The rest are the
requests of the page, of which the polling (`Poll`, `PollFails`, `PollMarks`), the opening of
the page (`Look`, `Reconcile`) and applying the facts (`Apply`, `ApplyWrites`) take several
statements. An answer may name other pages than the one it was asked for (`Refs`), and a later
answer for such a page replaces the line. What `finalizeExtractedLines` makes of the extracted lines
is left open: `Finish` may end with drafts for any of the names, each from any of the extracted
lines (`Merged`), so whole lines may be dropped, renamed or added. What becomes of the rows, in
`Finished`, is `replaceProjectBomDrafts`: one row stays of each name that has a draft, an extracted
one before a typed one (`preferPreservedMeta`), and the others of that name are deleted as orphans,
typed ones too; extracted rows without a draft go, typed ones stay. Applying the facts runs the same
function over all lines (`Applied`). `SomethingToRead` is the check at `extract-runner.ts:762` and `:784`: without pages
the executor throws. The routes are not mounted at this commit (`server/index.ts:147`); the
code and its tests are kept. Prices, sheets and the content of a line are left out.

### IssueScan

`status` is the list, a row being a fingerprint and a number (a fingerprint can have one open
row, by the index, and any number of others). What the sources have wrong is a set of candidates, a
fingerprint and a lot: the fingerprint of a lot without a date leaves out the pool
(`inventory-data-issues.ts:77`), so several open lots can share one, and the plan inserts a row
for each (`:262`). A scan is `Detect` (the reads of the sources, as
one step, and the pure detection), `LoadOpen`, `LoadDismissed` with the plan, one `InsertChunk`
or `InsertRefused` per chunk, and `AutoResolve`, by id. `ReadIssue` and `WriteIssue` are the
`PATCH`: one that carries a note only writes back the status it read. The refresh of issues
that are still wrong rewrites only what is shown of them and is not a step; `in_progress`
counts as open, as everywhere in the code. The index comes from migration 0095, which is the
only place that creates the table but is not in drizzle's `_journal.json`; the model takes it
as applied.

### StockAlerts

`open[k]` counts the unresolved rows of a fingerprint; no index limits it to one. A post is
`Post` (stale rows are marked failed), `Count` and `StartRun`, three statements; the daily
pipeline begins at once (`BeginStep`). The job is `ReadStock`, `ResolveAll`, a `WriteChunk` per
chunk, `Written`, `Finish`. `Age` is the passing of 45 minutes, `Reconcile` the marking of stale
rows by the task page. The cron call of the stock alert is commented out
(`deploy/cron/crontab:5-6`), and the pipeline's step closes no stale row, so after a restart a
`running` row stays until somebody opens that page or posts.

## Runs

| Run | Question | Bounds and why they are enough |
|---|---|---|
| `RuleApproval` | do two interleaved requests keep the register, contiguous versions, no gap? can they wait for each other? | three sets of one scope: an active one and two pending, the least with which two approvals collide, each holding its pending row while it waits for the active one (and, after a late rejection, for the other's); two requests, since every rule relates two; scopes do not interact, so one |
| `RuleSimulation` | does a simulation mark always belong to the parameters? | one set, two parameter values, three milliseconds: an edit before, in and after the millisecond that was read |
| `RuleLateReject` | violation: a late rejection un-activates the active set | the smallest instance |
| `CsScoring` | are rows left "scoring", do the counters end right, is every row scored? | two rows, two runners, one single rescoring, rows imported one by one so that scoring starts during the import |
| `CsFaults` | what holds, and does every job end, when a statement throws or the process restarts? | two rows, two jobs (a failed one and the next) of two runners each, so that the runner that did not throw goes on beside the next job's; one fault at any point |
| `FeishuPull` | do pulls exclude each other, is the list what its meta row says, do its readers see a mirror of the Feishu table that never goes back? | one manual and two cron pulls: every overlap is between two pulls, the third starts after one of them was given up; one edit of the table, one restart |
| `SalesHistory` | what do a day, a month and a batch hold when imports, pull and maintenance meet, throw and die? | three days in months of two, so that a month is complete, cut by the limit, or begun; a file with two lines of one SKU and one that begins in mid-month; two imports and two workers at a time, since every rule relates two; the limit reaches into the first month; one fault |
| `SalesPruned` | violation: days are pruned that no month adds up | one worker at a time, no fault, the limit one day further |
| `ForecastVersions` | which version is in force, who changes rows, what do a merge, a run and the reset leave? | three versions (a target, a draft, one more decision), two SKUs (one merged, one not), two requests; the initial states are all that earlier requests may have left with at least two versions |
| `CostingExtract` | do two runs meet, what becomes of lines and status? | two runs (one given up and its successor); two pages, whole or one range; an answer is one line, of its page or of page 2, so that a later answer replaces an earlier line or leaves it; two names, so that lines collide or do not; one line to begin with, typed or extracted; one request, analysis or restart anywhere |
| `IssueScan` | which races bring an issue back or cut a scan short, is the list settled? | two fingerprints of two lots each, so that a scan can find one twice; two rows of each, two scans, two people, three requests or changes of the sources, a chunk of one so that scans are cut between rows (the index then refuses the second of two lots in a later `INSERT`; the theorems hold for any chunk) |
| `StockAlerts` | when do runs meet, is the snapshot what is left, what is a post refused for? | two fingerprints, two posts and one pipeline step, a chunk of one, two clicks, changes of stock or restarts: a crash leaves a row that the next post finds stale, and one more thing can happen before it counts |

No run checks for deadlock: the server may be idle for ever, and an id, a run or a batch is
used once. Symmetry is used only in runs without a liveness property. The bounds `MaxClock`,
`MaxFaults`, `MaxVersion`, `MaxCrashes`, `MaxBusy`, `MaxCutoff`, `MaxOthers`, `MaxMoves` and
`MaxCopies` stand in guards and are constants of the theorems too, which hold for any value.

The properties are of three kinds. Some hold outright (`VersionsContiguous`, `ActiveIsOneJob`,
`LateAnswerDropped`, `RowsFrozen` with its list of who may write). Some say exactly when
something may go wrong, because the code does not exclude it: the properties named
`...OnlyByRace` and `Solo...`, `CoverageKept`, `ReplaceIsExact`, and those with `overlap`,
`reaped`, `disturbed` or `missed` in them. They are the strongest statements TLC found true,
and their exceptions are the list of races a team would have to close. The one liveness
property is `JobsEnd`.

## Where code and documents disagree

Two runs show it on the smallest instance:

- `RuleLateReject`: a rejection that read the row before an approval committed turns the active
  set into a draft, and its predecessor is already archived (`rules.ts:284`).
- `SalesPruned`: days that no monthly quantity adds up are pruned
  (`sales-history-retention.ts:16`, against the head of that file).

Others were met while modelling. The passing properties allow for them, and each can be seen by
dropping the exception named here:

- A set of parameters that was edited after its simulation can take effect: the edit read it as
  a draft and writes by id (`rules.ts:148`; the design wants only simulated sets approved,
  `docs/superpowers/specs/2026-10-26-rule-modules-design.md:120`). `SimulationVouches` speaks of
  rows that carry the mark.
- When rows are still being imported while a scoring by hand runs, the import's own scoring job
  is refused and the rows imported later stay unscored (`score-job.ts:87`;
  `CsReplyQualityPage.tsx:614`): `dropped` in `AutoScoreCovers`.
- After a restart "rescore all" skips the rows that were being scored (`service.ts:391`, page
  line 559): faults in `ScoringIsOwned`.
- Two manual pulls of a list that count before either inserts run together, and the list then
  has all rows twice (`procurement-lists.ts:135`, `procurement-feishu-sync-lock.ts:12`):
  `CronPullsExclude` is about pulls of which one is a cron pull.
- A draft that was archived or merged after a publication read it is published again
  (`forecast-version.ts:149`, `:159`): `RevivedOnlyByRace`. A row of a published version can be
  changed by an edit that read it as a draft (`sales-forecast.ts:2278`): `RowsFrozen`. A merge
  beside the deletion of its draft leaves SKUs without forecast: `CoverageKept`. Two resets share
  one flag: the first to end lowers it for both. A baseline run that was closed as failed by the
  reset ends as `success` if it was past its last look at the flag.
- A lone Feishu pull can bring back a pruned day, after which an aggregation overwrites a pruned
  month by its remains (`feishu-sales-daily-mapper.ts:16-28`, against `sales-history-monthly.ts:70`):
  `revived` in `SoloMonthsKeepTheirDays`.
- Finishing an extraction can delete a typed line: where a name has several rows only one stays, an
  extracted one before a typed one (`sync-bom-lines.ts:33`, `:215-226`;
  `docs/superpowers/specs/2026-08-13-product-costing-tool-design.md:181` wants typed lines kept). The
  merging before it may also rename a draft onto a typed line's name. `TypedLinesStay` says what is
  left: a typed line goes only then, and only for another line of its name.
- An extraction that found materials on no page succeeds when extracted lines of an earlier run are
  still there: it looks for any extracted line (`extract-runner.ts:891`) although its message says
  that no page gave any. `FinishMergesAnswers` is about runs that had an answer (`cleared`).
- A project stays "extracting" for ever when the process stops between the two statements of a catch
  (`extract-runner.ts:154-158`): `disturbed`.
- A stock alert run that was given up by age still ends as `success`; the pipeline's alert step
  and a post can tear each other's rows, which leaves alerts twice: `torn` in `ReplaceIsExact`.
- Two scans that find the same new issue: the index refuses the second's `INSERT`, and its
  resolving is not done either: `RefusedOnlyByRace`. The same happens to a scan that is alone when
  two open lots share a fingerprint that is not in the list yet (`inventory-data-issues.ts:77`,
  `:262`): every scan then fails, and nothing is resolved, until one of the lots is gone. `Twins`
  in that property.

## Fairness

Only `CsReplyScoring` assumes any, for `JobsEnd`: weak fairness of the jobs together and of the
workers together. The event loop runs every continuation that is ready, statements return, and the
Dify call has a timeout, so as long as some job or worker can go on, one does. Nothing is assumed of
a single worker among others, nor that a client calls anything.

The other modules have neither fairness nor a liveness property, because the code's scheduling
guarantees too little: Feishu reads carry no timeout, imports and extractions can be lost with the
process, and nothing but another request looks for what they left. The cron line of the stock alert
is commented out (`deploy/cron/crontab:5-6`: the daily pipeline includes the step, but it closes no
stale row), so whether a stale row is ever closed depends on a person. What can be said without
fairness is said as a safety property: `StaleNeverRefuses` (a post is refused only on account of a
row that was not stale when it came) and `NeverWaitInCircle` (handlers of the rule center that wait
for rows do not wait for each other, so whoever is at the head of the queue can go on).

## Proofs

Every theorem holds for all values of the constants under the `ASSUME`s of its module, which TLC
evaluates in the runs: finiteness of sets that are counted, names that are apart, bounds that
are numbers. The type invariants are proved and not checked by TLC as well.

`RuleParamSetsProofs`:

- `TypeCorrect`: `TypeOK` is inductive. Its lemmas about single records keep the record
  types out of the step proofs.
- `LocksCorrect`: a locked row belongs to a request inside its transaction. It is the
  strengthening the next two need: a commit changes rows only its own request may have locked.
- `LockedPending`: a row stays pending from the lock to the commit, although the updates of
  edit and reject name the row by id only: they wait for the lock.
- `OneActive`: one active set per scope, from the index as `Activatable` states it and from the
  fact that no other step makes a row active or changes a scope.
- `NoGap`: the action property, from the commit step.
- `VersionsHold`: `VersionsContiguous`, from `NumberInv`: a handler about to insert has read a
  version number that is in the table and was the greatest; later ones only add to it, so if the
  number is still free the versions stay contiguous.
- `RegisterImplemented`: the refinement. The commit of an approval is `Replace`, a late rejection
  `Withdraw`, every other step leaves the active rows alone.
- `SimulationsVouch`: from the strengthening that what a running simulation has read is still
  what the row holds, if its `updated_at` still has the millisecond that was read and no two
  edits shared one.

- `NoCircle`: `NeverWaitInCircle`. `Held` says whose rows a handler holds: an approval its own
  pending row from the lock on, and the active rows it archives. A circle would need an approval
  waiting for the pending row of another, which it can have scanned only while that row was active.
  `LastScan` is the argument: of any approvals about to archive, the one that scanned last saw only
  active rows, while the rows of the others were pending already; it waits for none of them.

`CsReplyScoringProofs`, from the one inductive invariant `IInv` (`Inductive`):

- `TypeCorrect`;
- `OneJob`: `ActiveIsOneJob`. It needs `PoolEmpty` and `LastRefresh`: the job ends in the step
  in which its last refresh is stored, and that refresh is a worker's step, so the invariant
  must say that the worker of a job is busy only while the job waits for it;
- `OneRunner`: `OneRunnerPerRow`, from `Taken` (a row in a runner's hands has left its job's
  queue), `Apart` (two runners of a pool hold different rows) and `NoStraggler` (without a
  fault only the pool of a job at "pool" is busy);
- `ScoringOwned`: `ScoringIsOwned`, from the same invariant: no step forgets a worker that
  is scoring;
- `CountersHold` and `CoversHold`: `CountersSettle` and `AutoScoreCovers`, from a second
  invariant on top of the first (`Settling`). `Covered` says of every pending row of a batch
  whose import has started its job who still has it ahead: a job that has not selected its rows
  yet, a list, or a worker about to mark it. `Reported` says when the counters are right: when
  nobody is at work, and at a job's end, because what its last refresh (or a rescoring that
  nobody overlapped) has read is still true when it is written. Both need `Frame`: a rescoring
  without overlap is alone (`Alone`), the rows in the table are those the import has got to
  (`Filled`), and a pool whose list is not empty has no idle runner (`Drained`; this is where at
  least one runner is assumed: `config.ts:13` gives 1 to 5, except that a value of the
  environment variable that is not a number comes through as `NaN`, and the pool has none).

`FeishuPullProofs`:

- `TypeCorrect`;
- `PullsExclude`: `CronPullsExclude`, from `Marked` (a handler past its insert has a running
  row or was given up) and a lemma about cardinality: whoever counts one running row, its
  own, finds no other;
- `RunsHandled`: `RunningIsHandled`, from `Unmarked` (no running row before the insert or after
  the handler's end);
- `ListMatches` and `ForwardOnly`: `ListMatchesMeta` and `NeverBack`, from `Alone` and
  `Undisturbed`: without overlap the rows a pull's `DELETE` saw are still the list when it
  commits, and what it read is not older than what the list shows;
- `MirrorImplemented`: the refinement. A commit without overlap is `Replace`, because its
  `DELETE` took exactly the list and everything listed is older (`Undisturbed`,
  `ListMatchesMeta`); a commit after an overlap is `Blend`; a pull that starts beside another is
  `Mix`; every other step is an `Edit` or a stutter. That a listed pull's version never changes
  needs one more invariant, `Landed`: a pull whose rows are in the list is past its read for
  good. `NeverBack` says the same of the counted pull and is not checked by a run of its own.

`SalesHistoryProofs`:

- `TypeCorrect`, with `Placed`: a worker is only at points its kind of worker has;
- `OnePendingHolds`: from `SoloInv` (without overlap at most one worker is busy) and `PendInv`
  (a pending batch that is not a busy import's was left by a dead one, and its successor has
  not passed `AbandonStale`);
- `FailedHolds`: from `OwnInv`: an import that is not in its catch knows every SKU it has rows
  of, and the catch counts them again;
- `RowHolds`: from `PartsInv`: alone, an import's rows add up exactly the lines read so far;
- `PrunedHolds`: `SoloPrunedWereCounted`, from `CountedInv`: what is stored and not yet in its
  month is of a SKU in the hands of a worker that has its aggregation still ahead, so none is
  left when that worker, or any other, prunes;
- `MonthsHold`: `SoloMonthsKeepTheirDays`, from `MonthsInv`. Its core is `KeptInv`: when the daily
  table has lost a day that a month adds up, every row older than that day is of the import now
  at work, or of a day in `revived`. An aggregation therefore finds an oldest day after the pruned one and leaves the month
  out, unless that row is its own import's, and then `WholeInv` says that the import has stored
  again all the days of the SKU from its first column on, the pruned one with them, or unless it
  is of a day that a pull has brought back, which is the property's exception.

`ForecastVersionsProofs`, from `Inv = TypeOK /\ ClockInv /\ WorkInv /\ LateInv /\ TaskInv`.
`ClockInv` makes publication moments distinct, so that `Latest` is unique. `WorkInv` says what a
handler at each `pc` knows: that its version was a draft when it began or was decided since,
what a merge has deleted, that a baseline run which nobody overtook has a row for every SKU it
has done. `LateInv` gives `LateHolds` (`OneLateRow`), `TaskInv` ties `task_runs` to its run. From
it: `PublishedStays`, `RevivedHolds`, `FrozenHolds`, `GeneratedHolds`, `CoverageHolds` (a SKU
loses its forecast only in the named steps, by a lemma on when `InForce` can become empty) and
`SoloMergeHolds`, which needs that the target of a merge nobody overtook is still the version
published last.

`CostingExtractProofs`, from `TypeOK /\ FitInv /\ OneActiveRun /\ ExtractingIsHandled`. `Fit` ties an
executor to its run: one that has been given up is `late`, and the lines it stored (`mine`) are in
the list, and are the list of a whole extraction, unless they were touched. `OneActive`, `Handled`
and `MergesAnswers` (`FinishMergesAnswers`) are read off the invariant; `LateDropped`, `ListHolds` and
`TypedStay` are steps from it. `TypedStay` needs no assumption on what the merging makes of the
answers: it follows from the choice of the row that stays for each name (`Finished`).

`IssueScanProofs`: `KnowsHolds` is the invariant: what a scan has read and planned is still true of
every fingerprint that is not in `missed`: what is still to be inserted is not open, unless the scan
has inserted another lot of it (`Planned`). `BackHolds`, `RefusedHolds`, `DismissalKept` and
`SettleHolds` follow from it step by step.

`StockAlertsProofs`: `RunsMeet` from `RowFollows` (a job at work has a running row or was given up)
and `KnownGivenUp`; `StaleRefusesNone` (`StaleNeverRefuses`) from `OldInv` (what was stale when a post came
is closed before it counts, and a closed row is never opened again); `ReplaceHolds` from `ExactInv` (a replacement nobody tore has the rows of its
snapshot that are no longer to be written, one each).

Only model-checked: the liveness property `JobsEnd`, since temporal reasoning under fairness is
outside the prover's reach.

## Not modelled

Abstracted in all modules: authorisation, validation of bodies and Excel files, messages, the
values of parameters, scores and quantities.

Not modelled, with the reasons in `PROJECT.json`: the front end, about a third of the repository,
of which only what may be clicked when was used; the pure computations (forecast algorithms,
timelines, safety stock, allocation, FOB settlement, matching of containers), which are
arithmetic over real numbers with unit tests and keep no state; parsing and mapping of files;
routes that only read; clients of Dify and Feishu, whose results and errors are the
nondeterministic choices of the modules; sessions and roles. The other Feishu pulls replace
snapshots like the procurement lists. The write routes of purchase drafts and plans answer
"analysis only". For these reasons the models translate a small share of the repository's lines:
of its nearly two hundred thousand most are pages, formatting, queries and arithmetic, and the
state that several actors change is in the few thousand the modules map.

What would come next: the merging of rule parameters by scope against a reference definition
(`rules/core/resolve.ts`), the freezing of demand plans (`lib/demand-plan-freeze.ts`), and the
cancelling of a baseline run in `ForecastVersions`.
