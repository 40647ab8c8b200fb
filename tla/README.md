# A verification project for the LinkedIn scraper

TLA+ models of the parts of this program where several processes, requests or
handlers meet: the Postgres job queue and its workers, the locks and budgets that
guard a LinkedIn account, the chain of jobs that makes up a scrape run, the leads
it leaves behind, the settings both processes cache, the hours an account may
work, and the requests that change users. TLC checks the models on small
instances; TLAPS proves their safety properties, and seven refinements, for every
instance. Paths below are those of the repository.

Run one model with `tlc -config JobQueueLease.cfg MCJobQueue`, one proof module
with `tlapm JobQueueProofs.tla`.

## 1. The system

A Next.js web process takes requests and writes rows; one or more worker
processes poll the `Job` table and run handlers, most of which drive a browser;
a scheduler process reaps expired leases. They share nothing but Postgres.

| Component | State | Operations | Talks to |
| --- | --- | --- | --- |
| Job queue (`modules/jobs`, `server/db/raw/claimJobs.sql.ts`) | `Job` rows: status, attempts, runAt, lease, lockedBy, key | enqueue, claim, five outcomes, reap, run now, retry, delete, cancel | everybody |
| Worker (`workers/worker.ts`, `runtime/`) | slots in use, shutdown flag, the `ClaimedJob` of each handler | poll, run, settle, drain, exit | queue, handlers |
| Scheduler (`workers/scheduler.ts`) | the list of one tick | find expired, reset one by one | queue |
| Account lock (`scraper/guards/accountLock.ts`) | a session-level advisory lock on its own connection | try, unlock, end | Postgres |
| Daily quota (`scraper/guards/quota.ts`, `consumeRateBudget.sql.ts`) | `RateBudget` rows by account, metric and UTC day | one conditional upsert | settings |
| Run pipeline (`workers/handlers`) | `ScrapeRun` status and counters, account status and session | run.start → session.ensure, page 1 → … → run.finalize; a profile job per lead | queue, lock, quota, LinkedIn |
| Run requests (`modules/search/service`) | – | startRun, cancelRun | `ScrapeRun`, queue |
| Status and breaker (`modules/linkedin-account/service/statusTransitions.ts`, `handleRiskSignal.ts`) | `LinkedInAccount.status` | markActive, markChallenged | pipeline |
| Active hours (`scraper/guards/activeHours.ts`) | none: a clock and the policy row | gate, next window | every browser handler |
| Settings and their cache (`modules/settings/service`) | two rows, and a copy of each in each process for 30 s | get, save, invalidate | poll loop, guards, forms |
| Leads (`modules/lead`) | `Lead`, `LeadSnapshot` and `RunLead` rows, `ScrapeRun.leadsNew` | the queries of a page and of a profile | pipeline |
| Accounts (`modules/linkedin-account/service`) | `LinkedInAccount` rows | delete, connection test | queue, pipeline |
| Users and sessions (`modules/user`, `modules/auth`) | `User` rows, the role in each session token | sign-in, touch, create, edit, disable, delete, seed | web requests |
| Searches, proxies, audit, UI, schema | see `PROJECT.json` | | |

What is hard: workers, scheduler and humans act on the same row between any two
statements of a handler; handlers end by writing "by id" what they decided
earlier; a worker may die, be drained or lose its database between any two
steps; leases run out on a clock; retries repeat half of what was done; a cancel
or a risk signal arrives while other jobs of the run or account are queued,
waiting for the lock or half-way. An account is deleted under its handlers; a
setting changes while a copy of it is on its way; two admins edit each other.
`PROJECT.json` lists these hazards at their lines with the properties that would
catch them going wrong.

What makes the parts correct:

- queue: a row belongs to one handler at a time, work is done once at a time, the
  retry budget is kept, nothing is lost, nothing is stuck;
- guards: one session per account for as long as no live handler loses its
  connection, no more visits than the budget allows while its row is there, the
  lock comes free;
- pipeline: a status is written on a current read, counters cover what was
  fetched, a run that has not ended has something that moves it on, and a run
  ends or one of its jobs has failed;
- leads: every field has the page it was parsed from, but for what a broken
  attempt wrote before its snapshot (named in section 5), a run counts a new lead
  once, leads outlive runs, and the jobs of a deleted account end;
- worker: no more handlers than configured, no row left by a clean exit, every
  handler told of a shutdown;
- settings: no copy is used for much longer than its TTL, a saved form is shown,
  and reaches the worker: its poll loop while it runs, the rest when it starts;
- active hours: a closed gate pushes a job to the next window, no sooner, no
  later, and the job runs in the end;
- users: a request changes a user only if its sender was allowed to when it was
  accepted, and a deletion keeps an admin.

## 2. The modules

| Module | What it is |
| --- | --- |
| `JobLifecycle` | the abstract specification: what the queue promises of one job's status and tries |
| `AccountLock` | the abstract specification: what `withAccountLock` promises the handlers of an account |
| `WorkerLife` | the abstract specification: what a worker process promises of the handlers it runs |
| `JobQueue` | the queue with its rows, workers, scheduler, humans and clock; refines `JobLifecycle`, and each of its workers `WorkerLife` |
| `AccountGuards` | lock and quota around a browser handler; refines `AccountLock` |
| `ScrapeRun` | the handlers of a run; shown to use the queue as `JobLifecycle` and the lock as `AccountLock` has it |
| `LeadStore` | what page and profile handlers write, and deleteAccount against them; shown to use the queue as `JobLifecycle` has it |
| `WorkerPool` | one worker's poll loop, handlers and shutdown, below the grain of `JobQueue`; refines `WorkerLife` |
| `SettingsCache` | the settings row, the copies of two processes, the forms |
| `ActiveHours` | the gate, the next window, and a job that waits for it |
| `UserAdmin` | sessions, the role gate and the requests that change users |
| `MCJobQueue`, `MCAccountGuards`, `MCScrapeRun`, `MCLeadStore` | instances for TLC |
| `MCParts` | one instance of the last four |
| `JobQueueProofs`, `AccountGuardsProofs`, `ScrapeRunProofs`, `LeadStoreProofs`, `WorkerPoolProofs`, `SettingsCacheProofs`, `UserAdminProofs` | theorems and proofs of the module they are named after |
| `PartsProofs` | theorems and proofs of `ActiveHours`, and of `MCParts` as a whole |

Operators named `x_Something` beside a definition `x` are mutants: what `x` would
be with a plausible bug. Each property has one that breaks it.

### JobQueue

`row` is the `Job` table, `slot` the `ClaimedJob` with which each running handler
works, `mode` where a worker's `main()` is, `found` the list the reaper has read
and not yet reset. One action is one statement, because every transition of a
row is a single UPDATE, INSERT or DELETE. `claimJobs` takes as many due rows as
it has room for in one step, as the SQL does. The outcomes (`complete`,
`failRetryable`, `failFatal`, `rescheduleTo`) write by id; the choice between
DEAD and QUEUED in `failRetryable` uses the attempts of the claim, the decrement
of `rescheduleTo` those of the row, as in the code. `LoseOutcome` is a failing
`finishJob`. The reaper reads in one step and resets in others; a reset of a row
that was deleted meanwhile throws and drops the rest of the list. Time is counted
down: `Tick` ages `wait` and `lease`.

`LeaseOverrun` separates two situations. With FALSE, no tick ends a lease under a
running handler: the operator has followed `docs/configuration.md:86` ("Must
exceed your slowest job's real duration"). A crashed worker's lease still runs
out. With TRUE nothing is assumed. Left out: queue names and priorities (no
caller sets them), JobLog, the reaper's limit of 100 rows (a list that is cut is
one that found fewer).

`ImplementsWorkers` reads each worker as a `WorkerLife`: its busy slots are the
handlers it holds, the number of its slots its limit; a worker told to stop that
has not left its loop still claims. Each step of the queue is a step of at most
one worker and a stutter of the others.

### AccountGuards

`at` follows a handler from `connect` to `end`; `owner` is `pg_locks`. A worker
that dies leaves its session behind as `Ghost` until the server notices
(`serverNotices`), the unlock query may fail, and the server may end the session
of a live handler (`loseConnection`), which nothing tells the handler. Accounts
where that happened are collected in the history variable `dropped`, and the
properties speak of the others: the code does not claim more, and with a dropped
connection two handlers do overlap. `ImplementsLock` maps the handlers between
lock and unlock to `AccountLock`'s `inside` and `dropped` to its `broken`; a crash
is a handler that leaves. The charge is one upsert: the day's first one
creates the row with the cap just read, the later ones count up to the cap *in
the row*. Between the charge and the navigation lie a browser launch and a pacing
delay, so midnight may fall between them.

A deletion of the account removes its budget rows (`deleteRateBudgets`) and then
the account (`removeAccount`); `LeadStore` has it from its first statement on. It
may stop between the two, be repeated, and come while a handler is at work, which
then goes by the account it read: `prepareAccountSession` is the only step that
asks for the row. The next charge of the day makes a fresh row with a fresh cap.
`erased` is history, the charges of each day that went with removed rows, and
`QuotaHolds` allows a day that many visits more than its row: without a deletion
it is the plain bound.

### ScrapeRun

Jobs are named by their idempotency keys, so an enqueue of a known key is a
no-op. `pc` is the next step of each running handler; a step ends in one
database statement or one navigation. `seen` is a status read by one step and
used by a later one; `holder` the account lock; `starting` and `cancel` the steps
of the two web requests, which may die half-way (`webCrash`). `fail` stands for
everything that ends a handler early and may be retried: an exception, a worker's
death followed by the reaper. `sessionFatal` is session.ensure's catch block,
which turns bare errors into a FatalError, also in `enqueueSelf`, the step after
the account became ACTIVE; `None` among the `rows` of a page is a result without a
publicIdentifier, which makes no lead but counts as a result; `cannotPrepare` is a missing proxy or
account row. What LinkedIn shows, the active hours and the quota are open
choices; leads and `leadsNew` are in `LeadStore`, hours and quota in modules of
their own. Left out: `profilesDone`, which no handler increments, evidence files,
`search.typeahead.resolve` and the `noop` job. `None` is not a job, so that
`holder` tells a lock that is free from one that is held (`NoneAssumption`).

`job` is a table of its own, not an instance of `JobQueue`: leases, clocks and
worker identities would multiply the states of a run. Two refinements tie the
halves together. `UsesQueueAsSpecified` maps each row's status and attempts to
`JobLifecycle`, which `JobQueue` implements: an enqueue, claim, push-back, failure,
cancellation or revival of the pipeline is a move that the queue allows, and every
other step leaves the rows alone. `UsesLockAsSpecified` does the same for
`AccountLock`, which `AccountGuards` implements.

### LeadStore

`lead`, `evidence` and `runLead` are the rows of `Lead`, `LeadSnapshot` (its kinds)
and `RunLead`; `fresh` is `leadsNew`; `task` the page jobs by page and the profile
jobs by lead. `hand[r]` is what the handler at work for run `r` remembers between
two queries: the rows of its page, the one it is at, whether the lead was `known`,
how many were `new`. Each account has one run here, and its lock admits one
handler at a time, so `hand` has one entry per run; runs of different accounts
interleave on the same leads. `findBefore`, `upsertStub`, `attachToRun`,
`createSearchResult` and `enqueueProfile` are the queries of
`upsertLeadFromSearchResult` and of its caller, in order; `createProfile`,
`createContactInfo` and `recordScrape` those of `recordProfileScrape`.
`attemptFails` breaks an attempt off between any two of them.

`deleteAccount` is three statements (`cancelQueued`, `deleteRateBudgets`, which
only `AccountGuards` gives an effect, `removeAccount`) that may stop after any. A
query that refers to the deleted run breaks a foreign key and throws, so the steps
that make one ask for `r \in there` and only `attemptFails` is left; the update of
an existing lead refers to no run and goes through, and so does an enqueue whose
key is taken. `torn` is a
history variable: the leads an attempt left without their snapshot.

Profile jobs are told apart by lead; the code's key has the profile's URL, of
which a lead has one. `enqueueFirstPage` is the enqueue of `run.start` that this
module begins with. `UsesQueueAsSpecified` maps the status and the attempts of
every row of `task` to `JobLifecycle`: what the handlers, their failures and the
deletion of the account do to a job is what the queue allows.

### WorkerPool

`JobQueue` starts a handler in the step that claims its row. Here `claimBatch`
executes the statement for one queue (`asked` holds its rows) and `runJobs`
receives the answer, so a signal, the end of a handler or a crash falls between
the two. `capacity`, `claimed` and `active` are `main()`'s variables, the first
computed once a round, the last changed by handlers at any time. A round claims
from a list of queues that may name one twice, which the form accepts. `told` are
the handlers whose `AbortController` has fired. A handler that is told ends as any
other does. `batch` is history: the handlers started in this round. What other
processes do to the rows that are not this worker's is left open (`others`).

`ImplementsWorker` maps the process to `WorkerLife`, where a claim takes what its
limit has room for in one step. The rows on their way (`asked`) count as held,
the concurrency the round began with is the limit, and the process drains from
the moment the loop has left its test, not from the signal: the round that a
signal interrupts goes on claiming. The abstract `Claim` is the statement, not the
arrival of its answer.

### SettingsCache

One row stands for `SystemSetting` and `ScrapingPolicy`, which are cached by the
same code, and a version for its contents; the version only grows because each
save is a new one. A getter that finds no valid copy asks, the database answers
(`answer`), and the answer arrives later (`store`), when the copy's age starts;
forms save and drop the copy of their own process only. A new fallback proxy is a
second write of the same form, and `patchFails` is that write throwing with the
cache not dropped. The worker takes four fields once, from the first setting
`main()` reads (worker id, log level, grace period, heartbeat interval:
`worker.ts:97-107`), and the others anew in each round: `started` and `applied` are
the versions it has of the two, `booting` the time before that first reading.
`excused` marks a copy or an answer that a form could not drop
because it was on its way, or did not drop because it failed.

### ActiveHours

`isWithinActiveHours` and `nextWindowStart` are operators on a clock of one week
with two ticks an hour, the full hour and any moment after it, which is all that
`getHours()` and the comparison with the window's start tell apart. `clock` is the
account's wall clock. A job is queued at any tick, claimed no later than `MaxLate`
ticks after it is due, and let through or pushed back; `changeHours` is the form.
`bypass` is a connection test, which the gate does not stop. A change to or from
daylight saving time is left out: the library resolves it.

### UserAdmin

`user` are the rows, `token` the role in a session token, `req` the requests under
way, each at its next query. `jwt` is what a session is worth when it is read: the
row is read again each time. The role gate and the self checks are guards of the
five server actions; the services then read and write row by row, and others'
requests go on in between. `abandon` is every early return after a read, a query
that throws, and the death of the process. `had` and `saw` are history: the role
the sender held when accepted, and the admins that a deletion counted.

## 3. What TLC checks

| Run | Instance | Shows |
| --- | --- | --- |
| `queue_lease` | 3 jobs (two with one key), 2 workers, 3 slots, 2 attempts, lease of 2 ticks, no overrun; 88 000 states | the lease discipline: `HandlerHoldsRow`, `NoDoubleExecution`, `ReaperListIsCurrent`, `LiveLeaseIsRespected`, and `ImplementsLifecycle` |
| `queue_overrun` | 1 job, 2 workers, overrun allowed, fair; 42 000 states | `LockIffRunning`, `RunningIsReleased`, `BudgetEndsJob` and `QueuedIsServed` hold all the same |
| `queue_double` | the same | `NoDoubleExecution` fails with overrun (section 5) |
| `account_guards` | 2 handlers, 1 account, caps 1–2, 2 days, deletions that take at most 1 charge of a day, fair; 456 000 states | `OneSessionPerAccount`, `QuotaHolds`, `LockIsReleased`, `ImplementsLock` |
| `run_pages` | 1 run, 2 pages, 1 lead, own profile, 2 handlers, 1 attempt, human retries until a page is counted; 1 240 000 states | `StatusReadIsCurrent`, `CountersCoverPages`, `StalledRunIsExplained` |
| `run_cancel` | 1 run, 1 page, 2 attempts, a cancel; 1 191 000 states | `UsesQueueAsSpecified` and `UsesLockAsSpecified` under automatic retries and a cancel |
| `run_ends` | 1 run, 2 pages, 1 lead, fair; 20 000 states | `RunEnds` |
| `run_challenge`, `run_cancelled`, `run_halted` | 1 run | documented promises the code does not keep (section 5) |
| `leads` | 1 run with 2 pages and 2 leads, or 2 runs with 1 page and the same lead; 2 attempts, 1 failure, 1 deletion, fair; 506 000 states | `ScrapedHasEvidence`, `EvidenceGapIsABrokenAttempt`, `NewLeadsCountedOnce`, `LeadsOutliveRuns`, `UsesQueueAsSpecified`, `JobsOfDeletedAccountEnd` |
| `parts` | `UserAdmin`, `SettingsCache`, `ActiveHours` and `WorkerPool`, one in each behaviour, fair; 361 000 states | `ChangesAreAuthorised`, `LastAdminLossIsRaced`; `StaleForOneTTL`, `DoneFormIsShown`, `SaveReachesWorker`; `PushBackIsTight`, `JobPassesGate`; `ImplementsWorker`, `CleanExitLeavesNoRow`, `SignalReachesHandlers` |

Why the bounds are enough. Two workers and three slots give every pair that can
meet on a row: two handlers of one process, handlers of two processes, handler
and reaper, handler and human. Two jobs with one key are the least that can
break uniqueness, the third brings a job without a key. Two attempts show the
first, the last and a push-back between them. A lease of two ticks has a state in
which it is neither fresh nor over. Two days and two caps show a row made with
one cap and charged after another was set, and a charge spent after midnight; a
third handler on one account behaves as the second. Two pages show a first, a
next and a last page; the runs of an account interact only through the lock and
the account's status, which profile and page jobs of one run already contend for.
The safety properties of these runs do not rest on their bounds, since they are
proved: counters and chain under a cancel, too, which `run_pages` leaves out, and
the queue's `AttemptBudget`, which no run checks because `ImplementsLifecycle`
fails with it. `MaxErased` bounds the charges that deletions may take with a day's
row; one is enough to let a day exceed the cap of its row, and two were checked
once (1 013 000 states) with the same result. `MaxDay`, `MaxErased` and
`RevivalBound` are the only bounds on steps; caps,
attempts and pages are the program's own. `retryDeadJob` has no bound in
`JobQueue`.

`leads`: with one run, two leads show a page that breaks off before, between and
after them, and two pages a lead found twice; with two runs, both writers are at
the same lead. `MaxFailures` bounds the attempts that fail with their account
there, one of which breaks off at any of the steps; attempts of a deleted account
fail without a bound. A third attempt behaves as the second. `parts`: two users
and two requests are the least in which one is removed or demoted between
another's queries, VIEWER and ADMIN the roles the gate and the count tell apart. A
TTL of two ticks has a copy that is fresh, one that ages and one that is over, an
answer takes up to one tick, two saves show a version replaced and replaced again
(the second write of a form is a save too), and one restart forgets a copy. The
policies are the default, the shortest window at the earliest hour with weekends,
and one that opens after it closes; the clock takes every tick of the week. Three
jobs in two queues and a concurrency of one or two show a round that runs out of
capacity in the first queue, in the second and on a queue named twice. The safety
properties of both runs do not rest on these bounds, since they are proved.

Deadlock is checked for `JobQueue` and `AccountGuards`, which never stop. A run
ends and so do the jobs of `LeadStore`, ids of users run out and a worker exits,
so the configurations of `ScrapeRun`, `LeadStore` and `MCParts` switch the check
off.

### Fairness

- `JobQueue`: the loops of worker and scheduler go on (weak fairness of the
  reaper's read, of the loop's exit and of the drain); a handler ends, because
  every browser call it awaits has a timeout; a supervisor restarts a dead worker.
  `Tick` is strongly fair: time passes. The claim of a due job is strongly fair
  because the query orders by priority and `runAt`, all priorities are equal and
  a row put back gets a later `runAt`; so is the reset, which a failed tick tries
  again. A database that fails every `finishJob` is allowed.
- `AccountGuards`: a handler goes on or is killed; TCP tells the server of a peer
  that is gone.
- `ScrapeRun`: handlers are claimed and advance (weak). Strong fairness is asked
  where the program waits for something that comes and goes: run.start inside
  active hours, a claim at a moment when the lock is free (a handler that missed
  it sits out 15 s, and no handler keeps it for ever), the lock's success, and a
  prepare that is not pushed back (active hours and quotas come round every day).
  Nothing is asked for profile jobs, and nothing of success: any navigation may
  fail.
- `LeadStore`: a run's due jobs are claimed and its handler goes on or fails.
  Nothing is asked of deleteAccount.
- `SettingsCache`: the poll loop reads again and again, an answer arrives, time
  passes; a worker that starts again does so too. `passTime` waits for an answer that is `MaxTransit` late, as a bound on
  how long a query takes.
- `ActiveHours`: time passes, and a due job is claimed; `JobPassesGate` speaks of
  a policy that is no longer changed and opens before it closes.

`RunEnds` counts a DEAD or CANCELLED job as an end, since the program leaves such
a run to a human: a session.ensure that ends DEAD (`session.ensure.ts:131`) is such
an end, and what it leaves behind, page jobs pushed back for want of a session, is
not the property's business. It fails if session.ensure does not store the session:
page jobs would be pushed back for ever. That a page job gets the lock in the end is
assumed, by the strong fairness above, and not shown: nothing in the code orders
the handlers that chase it. In the same way `QueuedIsServed` rests on the order of
the claim query, and its instance has no second job to be passed over for.

## 4. What is proved

`JobQueueProofs` (any jobs, workers, slots, keys, attempts, lease lengths):

- `QueueTypeOK` and `QueueLockIffRunning`, of `Spec` alone. `LockIffRunning` is
  what makes the reaper's index scan complete, and is preserved row by row
  (`RowStep`), since every statement either sets both lock columns or clears both;
  `retryDeadJob`, which touches neither, relies on it.
- `QueueLeaseInv`, under `~LeaseOverrun`: the inductive invariant `LeaseInv`. A
  handler's row carries its worker, its attempt and time (`HandlerHoldsRow`), so a
  reaper's entry is never the row of a handler (`ReaperListIsCurrent`: an entry
  is still expired, which a live handler's row is not), so nobody but the handler
  moves it; two busy slots differ in their job because a claim takes a QUEUED row,
  which is no handler's; with unique keys that gives `NoDoubleExecution`.
  `AttemptBudget` needs `HandlerHoldsRow` because DEAD is decided from the
  handler's copy of the attempts.
- `QueueImplementsWorkers`, of `Spec` alone: every worker is a `WorkerLife`. A claim
  fills free slots of its worker, so what it holds stays within them (`TakeMap`);
  an outcome, or a slot that is given up, is one handler less (`FreeMap`); the
  process events are `LifeMap`, and what another worker does leaves this one alone
  (`OthersMap`). A worker that is down must hold nothing, or a restart would not be
  one: that is the strengthening `DownIsIdle`, which `DownStays` preserves. No run
  lists `ImplementsWorkers`: like `AttemptBudget`, it is left to the proof.
- From it `QueueNoDoubleExecution`, `QueueHandlerHoldsRow`, `QueueAttemptBudget`,
  `QueueReaperListIsCurrent`, the action property `QueueLiveLeaseIsRespected`, and
  `QueueImplementsLifecycle`: each step of the queue is a step of `JobLifecycle`
  or a stutter (a tick, a process event, the reaper's read).

`~LeaseOverrun` is the one assumption, stated in each of these theorems;
`queue_double` shows that it is needed.

`AccountGuardsProofs` (any handlers, accounts, caps, days), of `Spec` alone:

- `GuardsInvariant`: `GuardInv` is inductive. `LockInv` gives the lock to whoever
  is between lock and unlock; `CapInv` keeps a row's count within its own cap;
  `DayInv` bounds a day's visits by the charges and one more, those of removed rows
  included (`Charged`, which a deletion leaves as it is: `EraseValue`); `ChargeInv`
  says of a charge not yet spent that no visit of today has used it, or that it is
  yesterday's and nobody has visited today. The last needs the lock: only because
  nobody else is inside does a handler's charge stay unspent until its visit.
- `GuardsTypeOK`, `GuardsOneSessionPerAccount`, `GuardsQuotaHolds` follow.
- `GuardsImplementLock`: each step lets a handler in where nobody is (`EnterMap`),
  out (`LeaveMap`), or neither (`StayMap`). Who takes the lock finds it free, and
  by `LockInv` nobody is inside then, on an account that is not in `dropped`.

`ScrapeRunProofs` (any runs, leads, pages, attempts, concurrency, cancels and
human retries), of `Spec` alone. It assumes of the constants what `ScrapeRun`
does: pages and attempts are positive, and `None` is not a job. There are three
inductive invariants, each resting on the one before.

- `CoreInv` is what queue and lock give a handler. A job has a handler exactly
  while it is RUNNING, a QUEUED job has an attempt left (`JobInv`), a handler is at
  a step of its type of job (`StepInv`), and one past the lock's test is its
  `holder` (`LockInv`). A step of one handler is put down as one of a few kinds
  (`GoesOn`, `Ends`, `Created`), each of which keeps `CoreInv` once. From it
  `RunTypeOK` and `RunStatusReadIsCurrent`: only a handler under the lock writes
  the account's status, so none writes between another's read and write.
- `CountInv` strengthens `CountersCoverPages`, which is not inductive. A page whose
  handler has counted but not yet enqueued is covered *and one more*, or the
  enqueue that follows would leave the next page uncounted; that holds after a
  crash and a retry because a counter only grows.
- `ChainInv` strengthens `StalledRunIsExplained`. The last page of a run has
  run.finalize behind it, or its handler has yet to enqueue what comes next.
  Speaking of the last page makes an induction over pages unnecessary: an enqueue
  either makes a new last page or run.finalize. `StartInv` says that a RUNNING run
  has had its run.start. A step that counts no page, makes no job of the chain and
  takes no handler past its enqueue is `Quiet`, and all but a handful are.
- `RunUsesQueue` and `RunUsesLock` follow from `CoreInv` and the shape of the
  steps: the attempt left of a QUEUED job makes its claim a `Start`, and a RUNNING
  job's attempt of at least 1 makes a push-back one of `JobLifecycle`'s. Together
  with `QueueImplementsLifecycle` and `GuardsImplementLock` they say that what the
  pipeline's proofs take from queue and lock is what those two were proved to give.

`LeadStoreProofs` (any finite set of leads, any runs, searches, pages, attempts,
failures, deletions), of `LeadSpec` alone. `LeadInv` says of each run `r`, as
`RunInv(r)`: what the handler's step takes for granted of the database
(`HandInv`: the lead it holds is written, a profile's snapshot is there before the
lead is recorded), that a QUEUED job has an attempt left and a profile job a lead
(`JobInv`), and that what was counted, will be counted and is just being counted
as new is attached (`CountInv`). `UntouchedRun` frames the proof: a step of one
run keeps `RunInv` of the others because leads and evidence only grow, so each
action is proved for its own run (`StepOfRun`, `StepOfHand`). From it `LeadTypes`,
`LeadScrapedHasEvidence`, `LeadEvidenceGapIsABrokenAttempt`,
`LeadNewLeadsCountedOnce` and the action property `LeadsAreKept`. `LeadUsesQueue`
takes two facts from `LeadInv`, that the job of a handler is RUNNING and that a
QUEUED one has an attempt left, and maps each kind of step: `EnqueueMap`,
`ClaimMap`, `EndMap` (the outcomes of an attempt), `CancelMap` (the sweep of the
deletion, which moves any number of jobs at once), and `StutterMap` for the steps
that leave `task` alone.

`WorkerPoolProofs` (any finite set of jobs, any queues, lists, concurrencies), of
`PoolSpec` alone. `PoolInv` keeps a round's books: `active + capacity` never
exceeds `concurrency + claimed`, although handlers end while the round goes on,
and `claimed` with what is on its way never exceeds `capacity` (`RoundInv`); a row
is the process's exactly while it is worked on or on its way (`RowInv`); who is
not told was started in the interrupted round (`ToldInv`). From it
`PoolCapacityIsRespected`, `PoolCleanExitLeavesNoRow`, `PoolSignalReachesHandlers`.
`PoolImplementsWorker` is the refinement. Its core is `ClaimMap`: what the process
works on and what is on its way are as many as `active` and the rows on their way
(`CountHeld`), and a claim's share of `capacity` keeps that within the limit by
`RoundInv`. The limit is a variable of `WorkerLife` which the round's
re-reading of the settings sets, also to less than what is held.
`CapacityIsRespected`, which the refinement implies, has a theorem and no run.

`SettingsCacheProofs` (any renders, forms, TTL, transit, saves), of `CacheSpec`
alone. A replaced version is no older than its copy and its answer's way
(`AgeInv`), and the web process holds an older version without an excuse only
while a form that will drop it is open (`ExcuseInv`). From them
`CacheStaleForOneTTL` and `CacheDoneFormIsShown`.

`PartsProofs` (any policies). `NextIsLater` and `NextIsTight` are lemmas about
`nextWindowStart` for every tick and policy, by the arithmetic of days and hours;
`HoursPushBackIsTight` applies both to a claimed job: it is never due at once, and
its wait ends with the first open moment. `PartsFollowTheirSpecs` says that a
behaviour of `MCParts`, the instance that `parts` checks, is one of each of the
four modules alone, since a step of one part stutters in the others. This is
what makes one run for four modules sound, and carries their theorems over to it;
`PartsTypes`, the joint type invariant, is the first to come from it.

`UserAdminProofs` (any users, requests, roles in the forms). `UserInv` has every
request past its gate `Vetted` (its sender held ADMIN, or edits itself with the
role it held) and every request that counted admins about to remove one of
several. `UserChangesAreAuthorised` and `UserLastAdminLossIsRaced` follow.

Assumed of the constants is what the modules state as ASSUMEs, and TLC evaluates:
mostly that numbers are positive and that `None` is nobody. Three are finiteness:
the slots of `JobQueue`, the jobs of `WorkerPool` and the leads of `LeadStore`,
without which "no more than" has no meaning. `~LeaseOverrun` is a hypothesis of
the theorems that need it, not an assumption.

Only model-checked: liveness (`RunningIsReleased`, `BudgetEndsJob`,
`QueuedIsServed`, `RunEnds`, `LockIsReleased`, `JobsOfDeletedAccountEnd`,
`SaveReachesWorker`, `JobPassesGate`), since fairness and ENABLED are outside what
the prover does. Every safety property that a passing run checks is proved. What
a recursive function computes for all inputs is out of the prover's reach too; no
module uses one.

## 5. Where documents and code disagree

Each of these is a run that TLC ends with a counterexample.

- `queue_double`. `ARCHITECTURE.md:318` has a heartbeat extend `leaseExpiresAt`
  while a handler runs; `extendLease` is never called and the heartbeat renews
  only `WorkerHeartbeat`. A slow handler is reaped and its job executed twice at
  once.
- `run_challenge`. `docs/how-scraping-works.md:74-75` and `ARCHITECTURE.md:529`
  have the breaker cancel the account's queued jobs; `handleRiskSignal` does not,
  and no browser handler reads the account's status.
- `run_cancelled`. `cancelRun.ts:10` says a running handler checks
  `cancelRequestedAt`. The web process sets the run's column, the worker reads
  the job's, and nothing connects the two: a page that is being fetched while the
  request sweeps queues the next one afterwards, and that one is claimed.
  `CancelStopsTheRun` speaks of such pages only, from the second on; a run.start
  that overtakes the request (`cancelRun.ts:19`) does the same to the first.
- `run_halted`. `run.finalize.ts:18-19` claims not to race a HALTED run; it reads
  the status and writes by id without a condition, so a last page that fails
  after queueing run.finalize, is retried and meets a challenge is overwritten
  with SUCCEEDED. `FinalizeKeepsHalted` speaks of a HALTED whose page is still busy
  with its challenge.

`StalledRunIsExplained` names a related weakness: a `run.start` that runs again
after its run has finished writes RUNNING over the final status, and since every
key is taken nothing moves the run any more.

In the following the code does something else than a document says, and no run is
spent on it: the properties say what the code does.

- `prisma/schema/jobs.prisma:66` and `ARCHITECTURE.md:321-322` say that
  `leaseExpiresAt` "is not cleared on completion" (the latter asks in its next
  sentence that every terminal transition clear it). `complete`, `failRetryable`,
  `failFatal`, `failRiskSignal`, `rescheduleTo` and `resetExpiredLease` all set it to
  null, and `LockIffRunning` holds because they do.
- `docs/configuration.md:69-70` and `worker.ts:113-114` say that a running worker
  re-reads the system settings and a change applies without a restart. Worker id,
  log level, shutdown grace and lease heartbeat are taken once, from the first
  reading (`worker.ts:97-107`): a save of these does not reach a running worker.
  `SaveReachesWorker` says of them that they reach the next process that starts,
  and of the fields of the poll loop that they reach the running one.
- `accountLock.ts:15` and `ARCHITECTURE.md:353` promise one session per account
  without a condition. A connection that the server drops under a live handler
  frees the lock without telling it, and a second handler may work beside it;
  `OneSessionPerAccount`, `QuotaHolds` and `ImplementsLock` leave such accounts out
  (`dropped`).
- `upsertLeadFromSearchResult.ts:13` pairs every field write with a snapshot. The
  snapshot is two statements later, so an attempt that breaks off between them
  leaves fields without evidence, until the page is tried again;
  `EvidenceGapIsABrokenAttempt` says that nothing else does.
- `authConfig.ts:64-65` has a change of role take "effect immediately".
  `updateMeAction` writes the role of the session back with the profile
  (`actions.ts:79`): an edit of one's own profile accepted before a demotion and
  written after it restores the old role. `ChangesAreAuthorised` is about what was
  allowed when a request was accepted, and permits it.
- `deleteUser.ts:19` says that deleting the last ADMIN is blocked. Two admins who
  delete each other both pass the count; a role change and a disabling count
  nothing, and disabled admins satisfy the count. `LastAdminLossIsRaced` excuses
  such races, and says that nothing else loses the last admin to a deletion.
- `ARCHITECTURE.md` §6.7 has unfinished work requeued at a shutdown. A handler that
  it aborts on its last attempt ends DEAD, and a query of `main()` that throws ends
  the process with its handlers.
- `getEffectiveSettings.ts:5-9` has a change from a form apply "promptly", as each
  form drops the cache. It drops that of the web process only, and the worker's
  poll loop follows within its TTL. A getter whose answer was on its way stores the
  old version after the form has dropped it, and a form whose second write throws
  drops nothing; both last for a TTL, which `StaleForOneTTL` bounds and
  `DoneFormIsShown` excuses.

The modules also hold behaviours that no document speaks against:

- A handler started in the round that the signal interrupted adds its listener to
  a signal that is aborted already (`worker.ts:52`) and is never told; the
  exception in `SignalReachesHandlers` is this one. It is drained or killed.
- A window that opens after it closes is accepted by the form and never open; its
  jobs are pushed back by a day, day after day.
- A deletion of an account that stops after its second statement leaves the account
  without budget rows, and the day's budget is granted again (`deleteAccount.ts:45`).
  So it is for a handler at work during a deletion, whose next charge leaves one of
  the orphaned rows the statement is there to remove. `QuotaHolds` counts what such
  a deletion gave back.
- A handler that runs during the deletion queues jobs that are cancelled by nobody;
  they end DEAD on their own (`JobsOfDeletedAccountEnd`).
- Two accounts that find a lead at once may both count it as new: each counts it
  once.

## 6. The plan

Done: the queue, the guards and the pipeline; leads with the deletion of an
account, users, the settings cache, the active hours, the worker's loop; the
proofs of section 4, with every safety property that a run checks; the
refinements that tie the modules together: pipeline and leads to `JobLifecycle`
and `AccountLock`, queue and poll loop to `WorkerLife`. To come, in this order:

1. The sign-in flow of `ensureSession` step by step.
2. Two runs of one account, with the rows of `LeadStore` shared between them.

## 7. Not modelled

- Pages, selectors, extraction and pacing: what a browser shows is an open choice.
- Secrets, configuration, logging, the heartbeat row and the audit trail: no step
  of the program acts on them. The poll of `Job.cancelRequestedAt` is left out
  because no code sets it.
- Proxies, searches, filters, typeahead resolution, `createAccount`,
  `updateAccountMeta`: forms and one-row writes; an unresolvable proxy is a fatal
  outcome of `ScrapeRun`, a search is a choice of `LeadStore`. The hourly key of a
  connection test is taken even if its job is DEAD: an ordinary key of `JobQueue`.
- Passwords and the uniqueness of e-mail addresses; daylight saving time.
- The web interface, the generated Prisma client and the scripts of the bundled
  agent skills. They make up most of the repository's lines and keep no state of
  their own, so the models cover a small part of its lines and most of the steps
  that change state.

`PROJECT.json` gives the reason for each component.
