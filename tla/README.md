# BudFin: a verification project

BudFin plans the budget of a school: a Fastify server over PostgreSQL (through
Prisma), a React client, and calculation engines for enrollment, revenue,
staff costs, operating expenses (OpEx) and the resulting P&L. This directory
models its stateful core in TLA+, checks it with TLC and proves the invariants
that matter most with TLAPS. All paths below are relative to `src/`; routes are
under `apps/api/src/routes/`.

## How the server behaves

There is one server process per deployment, many requests in flight, and one
database. A handler runs on the event loop until its next `await`; at every
`await` other requests run. Nearly every handler has the same shape:

1. read the version row (and other rows) outside any transaction;
2. check status, data source and `staleModules`, return early on failure;
3. read more inputs, compute;
4. `prisma.$transaction`: write rows, often with values derived from step 1.

Transactions run at READ COMMITTED, and step 4 looks at nothing again. What the
database enforces (primary keys, unique indexes, foreign keys, row locks) is
all that protects the reads of steps 1 to 3. Where that suffices and where it
does not is what most of this project is about.

## Inventory

| Component | State | Operations | Interacts with | Hard behaviour | What makes it correct |
|---|---|---|---|---|---|
| Calculation pipeline (`*/calculate.ts`) | `staleModules`, output rows of five modules | calculate enrollment, revenue, staffing, OpEx, P&L | reads all inputs and the outputs upstream | gates on and rewrites of one shared array | shown clean means up to date; recalculating ends |
| Enrollment inputs (`enrollment/*`) | headcounts, cohort parameters, planning rules, nationality, capacity | seven groups of edits, `setup/apply` | marks ENROLLMENT, REVENUE, STAFFING, PNL | `setup/apply` edits and calculates at once | the marks cover all dependents |
| Revenue inputs (`revenue/*`) | fee grid, other revenue, settings | three edits | marks REVENUE, OPEX, PNL | calculated amounts stored in the inputs' table | same |
| Staffing inputs (`staffing/*`) | settings, profiles, cost assumptions, employees, assignments | edits, import, suggestions by dialog and by calculation | marks STAFFING, in two different ways | limits and If-Match checked before the transaction; suggestions deleted and made again | limits kept, no lost save, one row per place, coverage of what is stored |
| OpEx lines (`opex/line-items.ts`) | line items, monthly amounts | create, bulk edit, monthly edit, patch, reorder, delete | marks OPEX, PNL | amounts share the table the calculation writes | same; parts add up |
| Scenarios (`scenarios/parameters.ts`) | three parameter rows per version | patch | marks four modules | no check of the status | locked means frozen |
| Master data (`master-data/*`) | grade levels, tariffs, accounts, ... | edits by an administrator | read by all engines | no marks | dependants are marked |
| Version lifecycle (`versions.ts`) | status, timestamps, source, name | create, clone, delete, change status | everything belongs to a version | check before the transaction, update by id | lifecycle, immutability |
| Fiscal periods (`fiscal-periods.ts`) | status, actual version | seed, lock | refers to a locked actual version | the version may change afterwards | a locked period has its actuals |
| Historical import (`enrollment/historical.ts`) | an actual version and its headcounts | validate, commit | creates versions | find, then create | one actual version per year |
| Sessions (`auth.ts`, `users.ts`, `services/token-family.ts`) | refresh tokens in families, users | log in, refresh, log out, revoke | session limit from the configuration | rotation against revocation against log-in | one live token per session, a limit on sessions |
| Sign-in (`auth.ts`) | failed attempts, lock | attempt, unlock | opens sessions | counter and lock written from a row read before an `await` | not locked too soon, not unlocked by failing |
| Export jobs (`export.ts`, `services/export/`, `export-dialog.tsx`) | job rows, a pg-boss queue, files, a polling dialog | request, enqueue, work, download | refers to versions | crash, redelivery, a version deleted under a job | ready means there is a file; who waits is answered |
| Engines (`services/*-engine.ts`, `services/staffing/`) | none | pure functions | called by calculations | rounding, caps, remainders | parts add up to their whole; calculating again changes nothing |
| Browser tabs (`stores/auth-store.ts`, `lib/tab-sync.ts`, `lib/api-client.ts`) | a cookie shared, an access token per tab | sign in, silent refresh, log out, load | sessions, a broadcast channel | answers and messages out of order | cookie and tabs agree |
| Comments, accounting view, historical actuals | rows | edits of single rows | | | |
| OpEx page (`components/opex/`, `stores/opex-dirty-store.ts`) | a buffer of entries, a timer, the query cache | enter an amount, comment, delete a line, switch version, leave | saves by itself after two seconds | answers and refetches against further entries | what was entered is stored or counted as unsaved |
| Other pages of the web client (`apps/web`) | forms, query cache | | HTTP | | the server checks all rules again |

`PROJECT.json` lists the components with their sources and the reasons for what
is left out, and the hazards with the line where each one bites.

## Modules

| Module | Models | Checked by |
|---|---|---|
| `CalcPipeline` | one version, every handler one atomic step | `MCCalcPipeline` |
| `PipelineRequests` | the same handlers taken apart at their awaits; EXTENDS `CalcPipeline` | `MCPipelineRequests` |
| `VersionLifecycle` | the versions of a fiscal year, imports, period locks | `MCVersionLifecycle` |
| `Sessions` | the refresh tokens of one user | through `SignIn` |
| `SignIn` | password, count and lock in front of the sessions; EXTENDS `Sessions` | `MCSignIn` |
| `BrowserTabs` | the tabs of a browser in front of the sessions; EXTENDS `Sessions` | `MCBrowserTabs` |
| `MonthGrid` | the OpEx page's autosave and the rows it saves | `MCMonthGrid` |
| `StaffingAssignments` | employees, assignments, suggestions, coverage | `MCStaffingAssignments` |
| `JobBoard` | what the export service promises | through `ExportJobs` |
| `ExportJobs` | dialog, request, row, queue, worker, file; implements `JobBoard` | `MCExportJobs` |
| `Amounts` | rounding and sharing out | through `BudgetYear` |
| `EnrollmentYear`, `RevenueFigures`, `StaffFigures`, `OpExFigures`, `PnlFigures` | the figures of each calculation | through `BudgetYear` |
| `BudgetYear` | a version in figures: all forms, all calculations | `MCBudgetYear` |
| `Sums` | the sum of a function over a finite set | through the modules that use it |
| `CalcPipelineProofs`, `VersionLifecycleProofs`, `SessionsProofs`, `ExportJobsProofs`, `StaffingProofs`, `MonthGridProofs`, `FiguresProofs` | theorems about the modules of these names; `CalcPipelineProofs` is about `PipelineRequests` too, `SessionsProofs` about `SignIn` and `BrowserTabs` | TLAPS |
| `SumProofs` | lemmas about sums, and the partitions and bijections they are taken over | TLAPS |

Three compositions carry the project. `PipelineRequests` refines `CalcPipeline`
from steps to requests. `SignIn` and `BrowserTabs` put what is in front of the
server and in front of the user onto `Sessions`: they are built from its actions,
each of their steps being one of `Sessions` or none. `BudgetYear` joins the
figures of the five calculations in the order that the stale modules allow, so
that what one rounds another adds up.

### CalcPipeline

`stale` is `BudgetVersion.staleModules`. `rev[i]` counts the edits of the input
group `i`; a group holds the inputs whose handlers leave the same marks, so
several routes share an action (headcounts, nationality breakdown and enrollment
settings are `EditEnrollmentInputs`; fee grid and other revenue `EditPricing`).
An output (`enrOut`, `revOut`, ...) is the tuple of what it was computed from,
nested, so it is outdated exactly when some source differs. Arithmetic is
abstracted away entirely; which rows a calculation reads and writes is not.
`NoRows` and `Copied` are rows never calculated, `Typed(n)` rows a user wrote
over (headcounts of the second period and monthly OpEx amounts live in the
tables the calculations write).

Four groups are edited without a mark (`SilentInputs`): rates and labels of OpEx
lines, master data, and `history`, the headcounts of the actual versions of
earlier years, which the calculation of enrollment reads
(`enrollment-workspace.ts:206`) and an import adds to
(`enrollment/historical.ts:268`). `SilentEdits` says which of them occur and
`MaxSilent` how many in one behaviour.

Effects and guards are separate operators (`CommitRevenue`, `RevenueReady`) so
that `PipelineRequests` can use the effects with an array of stale modules read
earlier (`snap`); in `CalcPipeline` itself `snap` is the current array.

Two facts found while modelling and built into it: removing an employee is
allowed on a published version (hiring and editing are not), and staffing
is calculated without any check of what is stale.

Prerequisites about the presence of other rows (at least one employee, revenue
settings) are taken to be met.

### PipelineRequests

A request reads the version row (`ReadVersion`), a calculation its inputs
(`ReadInputs`), and the transaction is one step (`Commit`). `AtomicPipeline`
instantiates the abstraction: with one request in flight the module implements
`CalcPipeline!Spec`, the refinement mapping being the identity on the version.
With two it does not, and
the run `LostMark` shows how: a calculation writes back the array it read before
another request's marks. `CleanMeansCurrent` then fails although it holds, and
is proved, for requests that do not overlap.

The queries that read the inputs of one calculation (`Promise.all`) are one
step, as are the statements of one transaction. This hides torn reads within
one calculation; it adds no behaviour.

### VersionLifecycle

`version[v]` is a row's status, type, name, source, timestamps, number of
reversions and the grades it has headcounts for; ids are never used twice.
`period[p]` is a month's row. Budget and forecast are one type, as no handler
treats them differently. A clone is one step although its source is read before
the transaction: the type of a version never changes, and the foreign key
refuses a source that is gone.

### Sessions

Tokens are numbered in the order in which they are created, which is what
`orderBy createdAt` sees. A log-in is a look at the user, a count under the
advisory lock, the choice of a victim and a commit; a refresh a look-up and a
rotation; a bulk `updateMany` a snapshot and its application, since at READ
COMMITTED it misses tokens inserted after its snapshot. The victim's row lock
lasts to the commit of the log-in, so its revocation and the new token are one
step.

### SignIn

`failed` and `lock` are two columns of the user row; `lock` is `on` while
`lockedUntil` lies ahead and `over` afterwards. An attempt is the login of
`Sessions` taken apart at its awaits: `Knock` reads the row, `ClearLock` is the
update of a lock that is over, `Right` and `Wrong` stand for the comparison of
the password, and `Wrong` writes the count that was read plus one. `OpenSession`
resets the row in the transaction that issues the token. Four more variables are
read by no action. `wrong` counts the wrong passwords typed since they were last
forgiven (`Forgive`: by a session, an administrator, or an attempt that finds a
lock over); `stale` holds the attempts that had read the row before that;
`carried` says that one of them has written its count since, `lost` that some
attempt has written a count over another than it had read. `LocksAreEarned`, that
only `Threshold` wrong passwords lock, is false of the code even of one request
at a time (run `LockedAgain`): the attempt that clears a lock writes back the
count it cleared. `LocksNeedFailures` says that this is the only way, and
`LocksComeInTime` that `Threshold` wrong passwords do lock unless a count was lost.

### BrowserTabs

`cookie` is the refresh cookie all tabs share, `inside` the tabs that hold an
access token, `fresh` those within `REFRESH_DEBOUNCE_MS` of a token. A request
is sent with the cookie of its time (`sent`), handled by `Sessions` step by step
and answered (`answer`); an answer sets or clears the cookie when it arrives.
`inbox` is the channel of `tab-sync.ts`. `hurried` notes that an exchange began
before another and its messages were over, or failed; `UnhurriedTabsAgree`
speaks of all other behaviours. A tab loads only while the server is not at work
on its own requests, since a browser that leaves a page may cut a request at any
point of it; an answer on its way is lost.

### MonthGrid

`dirty` is the page's buffer (`dirtyMap`), `timer` its flush timer, `shown` the
query cache and `rows` the table of monthly amounts, one row for a cell in each
version that has stored it. `TimerFires` sends the whole buffer for the version
shown at that moment; `Store` and `Delete` are the server's transactions, in any
order, and `Succeed` and `Tell` the answers. Only the latest save of a page still
open empties the buffer (react-query drops the callbacks of earlier ones and of
unmounted pages), and it empties it altogether. `Comment` sends the cached
amounts of its line along. `Hasty` says whether the user goes on whatever is
under way. One who does not enters nothing while a save is awaited or the cell is
under way in a request, comments only on a line without unsaved entries and
shown as fetched last, and switches versions only with nothing unsaved.

A refetch is one step: every change is followed by an invalidation, which drops a
read under way. A request whose answer is lost has been processed or will not
be. Other users, who may change the same rows, are left out, and so is what the
page does with entry modes, order and annual totals.

### StaffingAssignments

`rows` are the assignments, `covered` what the last calculation stored with the
requirement lines, `request[u]` what the request of a user has checked. Every
`Check...` is the part of a handler before its transaction, the action of the
same name the transaction. `commits` counts transactions and stands for the
clock of `updatedAt`; a form holds the stamp it was loaded with and sends it as
If-Match. A user has one form open; one that a page keeps while its save is
under way (`roster-tab-content.tsx:152`) is that of another user here. Shares are
counted in units, `FullTime` of them to a position, and are what the forms send
(`Shares`): `assignments.ts:41,50` accept 0, and more than a position as far as the
employee's limit goes. The route would take a source of the row as well; no page
sends one, so that suggestions come from calculations only. A
calculation suggests a row for every teacher without one at home, counts it
with the others, deletes all stored suggestions and stores the new ones.

### ExportJobs

The dialog posts, waits for the number of its job and polls. The request stores
the row (`CreateRow`), then enqueues (`Enqueue`), and any await between may be
the last: `Die` takes requests and worker with it. `queue` is pg-boss, modelled from
how `export.ts` and `export-worker.ts` use it: at-least-once delivery, one
job at a time, a job without a worker expires and is delivered again up to
`RetryLimit` times. Progress is left out, since only the dialog's text shows it, and what a
report contains. That pg-boss expires a job whose handler is merely slow is not
modelled. To close the dialog, as a download does too, changes nothing: the pages
keep its body behind them, it goes on polling, and it is shown again as it was.
Only leaving the page (`Leave`) discards it.

`JobBoard` is the promise: a worker takes jobs one at a time, only it decides
what becomes of a job it holds, and a job may be rejected only if it was never
taken. `KeepsThePromise` maps the row's status, the worker's job and the count
of deliveries onto it.

### The figures

An amount is a whole number of its smallest unit and a rate a whole number of
parts of `One`; `Stored` and `HalfUp` stand exactly where the code calls
`toFixed` or `toDecimalPlaces`, so that a quotient is rounded as often, and as
late, as in the code. What decimals lose beyond the twentieth digit is not modelled.

- `EnrollmentYear`: headcounts, cohort parameters, nationality splits and
  capacity of a draft version, the forms that write them and the calculation
  (`enrollment-workspace.ts` with the cohort, nationality and capacity engines).
  `heads`, `cohort`, `split1`, `split2`, `detail`, `capacity` are the tables of
  these names; `history` is what the actual versions of earlier years hold. It is
  constant here, so what is shown up to date is so for the history as it is; an
  import that comes later is the silent edit `history` of `CalcPipeline`.
- `RevenueFigures`: fee grid, settings and items of other revenue; the items
  derived from enrollment (`derived-revenue.ts`), discounts, VAT and the spread
  over months (`revenue-engine.ts`). Which pupils are new is found by allocating
  those retained among nationalities: shares are rounded and capped, then one place
  after the other is moved as the code's loop does (`Allocated`), to or from
  whoever it sorts first. Weights of an item may be negative: months
  without a positive one get nothing, but the divisor is the sum of all.
- `StaffFigures`: monthly pay, GOSI, Ajeer, overtime, the end-of-service award
  by the 30/360 calendar, costs by category and the positions that the pupils
  call for (`staffing/*-engine.ts`).
- `OpExFigures`: the lines of expense with their four entry modes, the amounts
  by month and the calculation, which stores only the shares of revenue.
- `PnlFigures`: the lines, subtotals and summary of the account
  (`pnl-engine.ts`), headers left out.
- `BudgetYear`: forms and calculations together, with the gates of
  `CalcPipeline` and the rows the one leaves for the other. Fees and items sent
  along are added or changed and none is removed; staffing settings are replaced;
  employees are created, changed and deleted one at a time. A deletion takes the
  rows of what the employee cost with it (`onDelete: Cascade`) and marks only
  STAFFING, so that until staffing is calculated the account, marked up to date,
  shows pay no row accounts for: `AccountAddsUp` is about accounts whose staffing
  is up to date too. It says of revenue that the account has all of it that bears an
  executive category and nothing else, and of expenses that each is deducted once, except
  for lines whose category does not fit their section: `DeductedTwice` and `InNoLine`
  name those that the account takes twice or not at all. The instance has one of each.

What the forms may send is stated by `FormsAssumption`, one predicate for each
(`FeeGrid`, `ItemList`, `Employee`, ...), and what the constants of rates and of
the teaching grid are by `RatesAssumption`. They ask for no more than the
handlers do: whole amounts, weights that sum to something positive (`other-revenue.ts:165`), names of
items that differ from each other and from those of the derived items, each of
which must be sent unchanged (`other-revenue.ts:187-224`), a mode, months and
amounts or none for a line of expense, and hours for a profile that counts them.

Rows come from the database in one fixed order where the code sorts ties by it.
Names and categories of OpEx lines are not edited here, the cost of a
requirement line, demand overrides, EBITDA and annual totals are left out.

## Runs and bounds

All runs set `CHECK_DEADLOCK FALSE`: archived is a final status, and the bounds
below make every behaviour stop when edits, ids, tokens or acts are used up.

| Run | Question | Result | Bounds |
|---|---|---|---|
| Flagged | do the marks keep a clean version current, do the gates hold, and does recalculating what is stale end? | holds | any 3 of the inputs edited once, one of them silently at most; all four origins |
| OneRequest | do the handlers implement the atomic pipeline? | holds | all operations, one request, any 2 of the inputs edited once, one of them silently at most |
| LostMark | do the marks survive overlapping requests? | violated: a calculation writes back the array it read | 2 requests, 1 edit |
| LifecycleRaces | do identity, references and timestamps survive races? | holds | 3 versions, 1 period, 2 requests, 1 reversion |
| Logins | does a session stay one and closed, are locks set neither too soon nor too late and kept, are sessions limited? | holds | all calls, 4 tokens, limit 2, 2 requests, threshold 2, counts up to 3, so that a count written back by one who cleared a lock is reached |
| LockedAgain | does it take as many wrong passwords as the threshold to lock an account? | violated: after a lock has run out, one is enough | log-ins only, 1 request |
| Exports | does ready mean there is a file, and is who waits answered? | holds | 2 jobs, 1 dialog, 2 versions, 1 redelivery, 1 fault |
| Staffing | what survives when checks and transactions interleave? | holds | 2 employees (overtime, departed, or with a limit of 0), 2 places, 2 users, shares of none and of two positions, 3 transactions |
| Figures | do parts add up to their whole from pupils to profit, and is what shows no mark what calculating it again would give? | holds | 3 grades, 2 tariffs, rates in twentieths, 5 lines of expense, two of them in a category that does not fit, one edit of any form |
| Tabs | do cookie and tabs agree? | holds | 2 tabs, 2 tokens, 2 acts of users, clock or network |
| Autosave | is what a patient user enters stored or shown as unsaved, and saved in the end? | holds | 2 lines, 2 versions, 3 entries, 2 requests |
| LostEntry | and of a hasty one? | violated: the answer to a save drops what was entered since | same, 2 entries |

One edit of an input, and three inputs, are enough for the pipeline: a property fails because an
output was computed before an edit and its mark is gone, and a second edit of
the same input adds no new relation between them; the proofs hold for any
number, of each and of all. Two requests suffice to show a lost update. Three version
ids allow a source, its copy and an actual version; one period is enough because
no handler relates two; one reversion exercises both edges back to draft.
Two overlapping sign-ins are enough to lose a count, to clear a lock set
meanwhile and to compete for the last session; with a threshold of 2 a count of 3 is
what one who cleared a lock writes back. Two jobs make the worker busy
while another waits, and one fault leaves a job active, a row without an entry
or a file without a row; with more faults than redeliveries a job may end
`PROCESSING` for ever, and `WaitersAreAnswered` is checked within that limit. Three
transactions allow two creations and a calculation between the reading and the
writing of one another. In `Figures` the numbers are chosen so that shares have
remainders, ratios pass their cap, a grade is empty, a nationality has nobody
and an item has months without weight; one edit is taken after any number of
calculations and before any others. In `Tabs` two acts are a sign-in
and whatever disturbs it; silent refreshes are no acts and happen any number of
times, until the tokens of the model are used up, after which a request for more fails.

Further disagreements between code and documents were met that have no run of
their own:

- a new `computeRate`, a renamed or reordered OpEx line, edited master data and an
  import of earlier headcounts mark nothing (`opex/line-items.ts:622`,
  `master-data/grade-levels.ts:47`, `enrollment/historical.ts:268`), while
  `docs/specs/epic-10/version-management.md:358` has every input change flag its
  dependents; they are silent edits of `CalcPipeline`, and `CleanMeansCurrent` is about versions without any;
- scenario parameters are changed whatever the status
  (`scenarios/parameters.ts:108`), while `version-management.md:361` says that
  "Locked versions reject assumption writes";
- a draft published between check and delete is deleted (`versions.ts:961`),
  against `docs/prd/BudFin_PRD_v2.1.md:660`; deleting a draft an export job refers to
  ends with an error of the foreign key, which `version-management.md:51` does not
  know; status changes race in the same way (`versions.ts:1521`), and calculations
  commit into a version locked meanwhile;
- reverting the actual version of a locked period leaves the period locked with
  a draft behind it (`versions.ts:1459`), against
  `docs/Process/Fiscal-Periods-Page-Process.md:45`;
- an import fills an existing actual version whatever its status
  (`enrollment/historical.ts:223`);
- a clone does not show REVENUE as stale although it has no revenue rows
  (`versions.ts:1019`), so it can be shown clean without any;
- a refresh between a log-in's choice of its victim and the revocation leaves one
  session more than `BudFin_PRD_v2.1.md:1429` allows (`auth.ts:195`), and the
  oldest token, which a log-in revokes, need not belong to the oldest session;
- a refresh without a cookie is answered 401 (`auth.ts:278`), where ADR-028:20 says 204;
- rent of the academy and items of category `Other Revenue` are stored without an
  executive category (`revenue-engine.ts:215`), and no form offers the category
  `Rental Income` (`other-revenue.ts:24`) that the P&L takes rent from
  (`pnl-engine.ts:332`): these amounts are in the revenue totals and in no line of
  the account, where `docs/specs/epic-5/pnl-reporting.md:193-194` has a line for rental
  income;
- assignments of no time at all, and of more than one position, are accepted
  (`assignments.ts:41,50`); the sum is held to the employee's limit only;
- a comment in `export-dialog.tsx:44` says that opening the dialog remounts its body
  and resets all form state; the pages open it by a state of their own, which the
  handler that counts openings never sees, so that an old report is offered again
  until the page is left;
- a calculation of staffing counts the suggestions stored before, deletes them
  and stores none (`staffing/calculate.ts:728`, `coverage-engine.ts:147`), so that
  the coverage it stores is of rows that are gone and the next run differs,
  against the idempotency of `BudFin_PRD_v2.1.md:1194`;
- the amounts of an annual spread and of a flat line are in the answer of the OpEx calculation and not in
  the table the P&L reads (`opex/calculate.ts:107`); a comment saved on the page
  replaces its line's entry mode with the default (`opex-page.tsx:209`);
- only the handler that changes a line's category asks whether it fits the section
  (`opex/line-items.ts:574`); those that create, batch and reorder lines accept any
  (`:25`, `:655`), and then the P&L counts an operating line called `Finance Income`
  twice and a non-operating one of an unknown category not at all
  (`pnl-engine.ts:461`), where `docs/specs/epic-5/pnl-reporting.md:26` has expenses
  "grouped by `sectionType` and `ifrsCategory`";
- months listed twice overwrite each other (`other-revenue.ts:55`); zakat and net
  profit are rounded apart and may miss the profit by a unit; two names with one
  `safeKey` make the P&L fail (`pnl-engine.ts:242`);
- two tabs that refresh at once end every session of their user, since the later
  one presents a rotated token (`tab-sync.ts:49`, `auth.ts:303`), and a refresh
  answered after a logout shows somebody signed in until the next call is refused;
- the flush timer sends the buffer for the version shown when it fires, so that
  amounts entered for one version are stored under another
  (`opex-page.tsx:178`); a comment sends the amounts shown and may undo a save
  not yet fetched (`opex-page.tsx:209`); leaving the page within two seconds
  leaves entries unsaved until the next one (`opex-page.tsx:95`); and an entry in a
  line deleted meanwhile makes every later save fail until the page is loaded anew
  (`opex/line-items.ts:433`), where `docs/plans/2026-03-26-opex-planning-workspace-redesign.md:192`
  says "On error: revert to server values".

The documentation quotes behind each violated run are under `findings` in
`PROJECT.json`. `CleanMeansCurrent` holds as soon as silent edits and overlaps
are taken away: it is checked in `Flagged` and proved.

### Fairness

Safety needs none. In `CalcPipeline`, `FairSpec` adds `WF_vars(RecalcStale)`: a
planner who can calculate something shown stale eventually does. The server
schedules nothing itself, so this is an assumption about the user, and
`RecalculationConverges` states it as one: it also assumes that edits end, and
that the version is a draft with enrollment rows. It is weak fairness of the
disjunction, so the planner may choose any stale module each time; the property
holds for the worst choice.

In `ExportJobs` the worker goes on (its handler is a chain of awaits on one
process), pg-boss fetches and expires (it polls on timers), the server is
restarted and a dialog that waits polls (`refetchInterval`). Nobody need throw, die, ask, enqueue or
leave: a request that never gets to the queue has nobody waiting.
`WaitersAreAnswered` needs `MaxFaults <= RetryLimit`.

In `BrowserTabs` every request is answered or fails, answers and messages
arrive, the debounce interval passes, and a tab that shows somebody signed in
goes on making calls, as its pages poll. All are weak fairness, one per request
and tab. Users need not do anything.

In `MonthGrid` the timer runs out, every request is stored or fails, is answered,
and an invalidated cache is fetched. The timer has strong fairness: the bound
on requests in flight, which may keep all numbers busy by turns, is not the
program's. No user need do anything.

## Proofs

Every invariant that a passing run checks is a theorem, for all values of the
constants that satisfy the assumptions. What is proved under a hypothesis of its
own says so below.

`CalcPipelineProofs` proves, for all bounds on the edits:

- `TypeCorrect`, `UpstreamClean`: for every set of silent edits.
  `CleanNeedsCleanUpstream` is inductive together with the type invariant.
- `CleanIsCurrent`, `PnlAgrees`: for the same. `CleanMeansCurrent`
  speaks only of versions with nothing stale and is far from inductive. The
  invariant `PipelineInv` says module by module when an output is current: an
  enrollment not marked is current, an own revenue not marked is current, own
  staff costs are current unless STAFFING or ENROLLMENT is marked, and so on; each
  handler then only has to show that it marks what draws on its input. The
  lemmas `FlaggedEdits`, `OverwritingEdits` and `Calculations` do so for the
  three kinds of handlers. It holds of versions none of whose edits was silent,
  which `CountsGrow` shows to be a state that, once left, is never reached again.
- `Progress`: calculating a stale module lowers `Rank(stale)`, in any state. This
  is the variant function behind `RecalculationConverges`, whose temporal part
  stays with TLC.
- `OneRequestIsAtomic`: requests that do not overlap implement `CalcPipeline`, for
  every set of operations and every bound. The invariant says that all a request
  in flight has read and checked is still the case (`Fresh`). Together with
  `CleanIsCurrent` it gives `OneRequestStaysCurrent`: overlap and silent edits are
  the only ways to a clean version with outdated figures.

`VersionLifecycleProofs` proves types, `ActualIsUnique`, `LinksResolve` and
`StampsTellStatus` for any number of versions, periods and overlapping requests, from
`LifecycleAssumption` alone. The strengthening: the actual version bears the
import's name (so the unique index is what protects it), and a
period lock past its check refers to an id that is actual as long as it lives.
The timestamps are right even when a transition is applied to a status it does
not start from, because each transition sets and clears all that its target
status needs (`AppliedTells`).

`SessionsProofs` proves, for any number of requests and tokens:

- types, `OneTokenPerFamily` and `ClosedStaysClosed`; the strengthening is that a
  bulk revocation under way holds only tokens that exist. The key step is
  `Rotate`: its guard, that the token is not yet revoked, makes the token the only
  live one of its family.
- `WithinLimit`: no overlap of log-ins exceeds the session limit while no session
  was refreshed. `LimitInv` says that at most one log-in is between its count and
  its commit (the advisory lock), and that what it will revoke still makes room
  for what it will issue: the usable tokens it counted can only have become fewer.
  The hypothesis in the invariant itself, that nothing was refreshed, is the one
  under which the code keeps the limit; the disagreement is listed above.
- `SignInTypes`, `SignInOneToken`: `SignIn` and `BrowserTabs` are built from the actions
  of `Sessions`, so that two lemmas by their shape alone (`SignInImplementsSessions`,
  `BrowserImplementsSessions`) carry over what is proved of `Sessions`.
- `NotLockedTooSoon`, `LockedInTime`: what attempts have read is related to what was
  typed since it was last forgiven. Unless a count was carried over, the row counts no
  more wrong passwords than that, and neither does an attempt that read it since;
  unless one was lost, it counts no fewer. An attempt that read before is `stale`, and
  whatever it writes is `carried`. `LockIsKept` is shown action by action.
- `TabsAgree`: `UnhurriedTabsAgree` for any number of tabs. The strengthening
  `InOrder` says of a browser that has not hurried that one request at most is
  under way, that it carries the cookie as it is and is answered what was asked
  for or refused, that every tab has heard of the exchange before, and that a
  tab inside without a cookie has the news of the logout to come.

`ExportJobsProofs` proves the four invariants and that `ExportJobs` implements
`JobBoard`, for any number of jobs, dialogs, versions, redeliveries and faults. The
strengthening relates each step of the worker to the row and the disk: past
`MarkProcessing` the row says `PROCESSING`, past `WriteFile` the file of this delivery is there,
an entry of the queue has a row, and a request that has created a
row is the only one with its number, so that what a refusal marks was never
taken. A job done is never undone except by a redelivery, which keeps the older file.

`StaffingProofs` proves all that the run `Staffing` checks, for any number of
employees, places, users and transactions:

- `RowsAreUnique` is inductive once it is known that the suggestions a
  calculation carries are of different employees (`SuggestionsApart`);
  `HandMadeKept` goes through the transactions, each of which keeps a row's number
  or is named by the property; `SavesLoseNothing` needs that a save which nothing
  overtook still finds the stamp it compared (`SavesAreCurrent`), because a stamp
  changes only with the clock.
- `StaffingTypes`, `CoverageIsOfTheRows`: `TablesInv` adds that a request which
  nothing overtook has read what is stored (`ChecksAreCurrent`) and that rows
  have numbers of the past, so that those a transaction hands out are new. A
  coverage is a sum over rows that are renumbered as they are stored;
  `CoverageRenumbered` is `SumRenamed` along that bijection.
- `RaisesFit`: from the same, with `ShareAdded` for the row that is added.

No bound on shares is assumed or proved: a form may send a share of 0, and a
calculation suggests one for a teacher with a limit of 0
(`staffing/calculate.ts:365`).

`MonthGridProofs` proves both invariants of the OpEx page for a patient user
(`~Hasty`; the run `LostEntry` shows what a hasty one loses), for any number of versions,
lines, cells and requests. `GridInv` says where the last entry of each cell is: in
the buffer, in a request under way that carries it, or in the rows;
that the save whose answer empties the buffer carries all of it (`SaveIsBuffer`);
that a request answered has been stored (`DoneIsStored`); and that a cache up to
date shows the rows. One lemma for each action keeps it.

`SumProofs` makes sums available to all of them. `SumOver` is a fold of the
community modules over a finite set. The library's induction theorems take an
operator and cannot be instantiated here, but an argument by a least
counterexample can: a family of subsets of a finite set that is not empty has a
member that includes no other (`LeastSubset`, from well-foundedness), so that a
statement false of some subset is false of a least one. From there come
existence and uniqueness of the partial sums, removal of any element, union,
bijections, bounds and sums class by class (`SumByKey`).

`FiguresProofs` proves the five invariants of `BudgetYear`, and what they rest on, for
every number of grades, every rate, teaching grid, table and form that satisfies the
assumptions.

- `EnrollmentStays`, `NationalitiesAddUp`: the invariant `FiguresInv` is both
  with the types of the tables. A form either touches nothing the calculation
  reads or marks ENROLLMENT, and `CalculationIsStable` shows that the calculation
  reads back what it stored: the intake is the stored one, a rate filled in is a
  persisted one, laterals are not added to the adjustment of the form, and
  splits depend on neither. `ReconciledAddsUp` is the arithmetic of the remainder.
- `NewPupilsAreShared`: rounding and capping leave the shares at most one place above
  or `stay` below what is to be handed out, and each step moves one place towards it
  without passing a bound, so that the allocation ends within `stay + 3` steps
  (`AllocatedAddsUp`), as the loop in the code does.
- `RevenueAlwaysAddsUp`, `AccountAlwaysAddsUp`: the account is far from its own
  invariant, since it is right only as long as nothing it was made from changes.
  `BudgetInv` therefore says, beside the types of all tables, that what is not
  marked is what its calculation would give again: `RevenueShown` and `AccountShown`
  (with `SameRevenue` and `SameAccount`, that a calculation is a function of its
  tables), `StaffShown`, and `Marks`, that a mark of one brings those of the
  modules that draw on it. TLC checked it on the instance of the run `Figures`
  before it was proved. The rest is arithmetic without steps: `SpreadAddsUp` for
  each way of distributing an item, `PartsMakeTotal` (the four rounded parts of a
  row of pay are within two units of its rounded total), `TuitionLinesAddUp`,
  `OtherLinesAddUp`, `StaffLinesAddUp`, `SpentLinesAddUp` for the lines, `ExpenseParts`
  (every expense of a fitting category is in one sum) and `SectionsAddUp` for the subtotals.
- `BudgetIsCurrent`: what `CleanMeansCurrent` says of provenance in `CalcPipeline`,
  `CleanBudgetIsCurrent` says of the figures: `Revenue`, `StaffCost` and `Pnl`,
  computed from the tables as they are, are what is stored wherever no mark says
  otherwise. `BudgetInv` gives all of it but the cost of staff, whose calculation
  has no gate and may run over an enrollment marked stale. That is repaired by
  the order of the pipeline alone: enrollment cannot move again without REVENUE
  being marked, and calculating revenue marks STAFFING before its own mark is gone.
  `StaffCurrent` therefore looks at both marks, and `StaffCurrentKept` shows it
  inductive with `SameStaff`, that staff costs are a function of headcounts, class
  sizes and staff. The mutant of the run is a calculation of revenue that does not mark
  STAFFING.
- `SharesStayCurrent`: the same of the one thing the calculation of OpEx stores, the
  shares of revenue, for versions in which no rate was changed by the form that marks
  nothing. The hypothesis is needed: without it TLC finds a share of the old rate after
  one such edit. With `BudgetIsCurrent` it covers all five calculations.

`AccountAlwaysAddsUp` has no hypothesis on the lines: an earlier statement asked that
their categories fit their sections, which only one of the handlers checks. The
lines for which that matters are now in the statement (`DeductedTwice`, `InNoLine`),
and `ExpenseParts` shows that all others are in one sum. Another attempt showed a fault of the
model: the cases of `Resolved`, what an OpEx line amounts to in a month,
overlapped, so that for an inactive month of a spread line TLA+ left the choice
open; they are now in the order of the code.

Only model-checked: the liveness properties `RecalculationConverges`,
`WaitersAreAnswered`, `TabsComeToAgree` and `TimedEntriesAreSaved` (fairness and ENABLED are out of the
prover's reach). That `BudgetYear`'s gates and marks are those of `CalcPipeline`
nothing relates formally; that what shows no mark is current is proved of both.
The violated runs are counterexamples; nothing is proved of them.

## Not modelled

- Reads, listings and comparisons; roles and access plug-ins; comments,
  historical actuals and the accounting view with its formula parser, which
  read or upsert single rows that no calculation draws on; migration scripts,
  run once by hand against an empty database. The reasons are in `PROJECT.json`.
- The pages of the web client other than the OpEx grid. They hold no rule the server
  does not check again; their share of the source is most of what no
  definition here is mapped to.
- Of the engines: the cost of a requirement line, demand overrides, EBITDA and
  annual totals, the older `dhg-engine.ts`, digits beyond the twentieth.
- Torn reads within one calculation or clone: the queries of a `Promise.all` and
  the statements of a transaction are one step each.
- A published version from which an employee is removed cannot be
  brought to a fresh P&L, because staffing is calculated for drafts only; the
  convergence property assumes a draft.
- Expiry of a slow export handler, progress of a job, the contents of reports.

## Plan

The modules above are done. What may follow, in order of importance:

1. `BudgetYear` as an implementation of `CalcPipeline`, step by step, with the tables
   mapped to what they were computed from, so that what is proved of both is proved once.
2. What overlapping requests still preserve: which reads being stale breaks which
   mark, and a version of `AtomicPipeline` that allows the overlaps that do no harm.
3. Torn reads: `ReadInputs` and clone split into their queries.
4. The forms of fees, other revenue and staffing settings, which resend whole tables
   and are reset by a refetch, for two users.
5. Comments and their resolution; single-row optimistic locks of master data.
