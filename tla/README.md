# AutoNoGaDa ADK in TLA+

TLA+ models of the AutoNoGaDa ADK service (the FastAPI application under `src/`), model-checked
with TLC and, for the properties that matter most, proved with TLAPS for every value of the
constants. Every definition is translated from the code; `PROJECT.json` says from which lines
(`map`), which properties each run checks, which change of the code each property would catch
(`mutants`), where the code can go wrong (`hazards`) and what is proved (`theorems`).

## 1. The system

One asyncio process (uvicorn) serves HTTP. Handlers are coroutines: they interleave at every
`await`, and nowhere else. What they share is PostgreSQL (one session and one transaction per
request, committed or rolled back by the `get_db` dependency), Redis when `redis_url` is set,
the git repository at `GIT_REPO_PATH`, and a few in-process stores. Agents (LLM calls), the
ontology validator, the code sandbox and billing live in libraries and services outside the
repository.

| component | state | operations | talks to |
|---|---|---|---|
| pipeline endpoints: `api/pipeline.py`, `services/pipeline_runner.py`, `api/tasks.py`, `database.py` | rows of tasks, reviews and usage; the open session of each request | `POST /tasks`, `run`, `run-inline`, `generate` | all below |
| pipeline monitor: `services/pipeline_monitor.py`, `api/monitoring.py` | snapshot per task (TTL one hour), index of active tasks, the day's counters, recent runs, subscriptions | `track`, `record_completion`, the WebSocket generator, the lists and the dashboard | Redis, or memory |
| auto-commit: `services/git_service.py` | work tree, index, HEAD, `index.lock` | write a snippet, add, diff, commit, rev-parse | git subprocesses |
| routing and ledger: `services/cost_optimizer.py`, `api/cost.py`, `models/adk_kb.py` | the month's budget row, the usage log | `select_model`, `record_usage`, `set_monthly_budget`, `summary` | database, ontology |
| SVG: `services/svg_generator.py`, `api/svg.py` | cache in Redis, history rows | `generate`, `validate`, `export` | Redis, LLM, ontology, database |
| code checks: `services/polyglot_executor.py`, `services/code_analyzer.py` | none | fenced code extraction, syntax, verdict | sandbox, ontology |
| review and fix: `api/pipeline.py`, `services/pipeline_runner.py`, `services/quota.py` | usage records | quota check, one agent, record of the call | agents, billing |
| knowledge base: `services/knowledge_agent.py`, `api/knowledge.py` | executions with embeddings, failure counts by signature | index, search, suggest, statistics | database, ontology |
| billing and Stripe: `services/billing.py`, `api/billing.py`, `api/stripe.py`, the tables of `adk006`/`adk007` | subscriptions, the month's usage, the Stripe rows | first visit, an admin's grant, the webhook, statistics, checkout and portal | library outside the repository, Stripe |
| architecture decisions: `services/architecture_decider.py`, `api/architecture.py` | decision rows | one debate, its parse and its record | agents, ontology, database |
| event subscriber: `main.py`, `services/platform_event_handlers.py` | one background task | start, handle, stop | Redis |

What is hard about it, and what the properties are aimed at (`hazards` has all of it, by line):

* **Interleaving.** Nothing checks a task's status before it is run. Two runs of a task, two
  adds to the month's spending, two auto-commits, two misses of a cache key proceed together.
* **Atomicity and order.** The event is published, git has committed and the cache is filled
  before the transaction commits. Monitor updates are read-modify-write over several Redis
  commands. HEAD is read in a command after the commit, and the index by
  `git commit` before it has the lock.
* **Swallowed errors.** Most calls around a run are in `try: ... except Exception: log`. A
  database error that is swallowed leaves PostgreSQL's transaction aborted: the run goes on and
  fails later, or commits nothing without an error.
* **Crashes.** A process that dies leaves Redis snapshots, `index.lock` and half-done work.
* **Delivery.** Stripe sends an event again until it is answered 200, in any order, also when the
  event was applied and only the answer was lost.
* **Clocks.** Snapshots and cache entries expire at any moment; midnight comes in the middle of a
  count.
* **Numbers.** Costs are rounded to cents one by one; escaped text is cut at a length.

## 2. Modules

| module | models | state (code) |
|---|---|---|
| `PipelineContract` | what the pipeline endpoints promise about the database | committed rows, answers |
| `PipelineRun` | run, run-inline, generate, from the first statement to the end of `get_db` | `row` committed columns, `lock` row locks, `base`/`obj` what the session has loaded and what its object holds, `pending` the row inside the transaction, `staged` rows added, `poisoned` an aborted transaction, `mon`/`events`/`gitCommits` the effects outside the database |
| `PipelineMonitor` | monitor calls, Redis command by Redis command; WebSocket clients; TTL; restart; midnight | `snap`, `active`, `stats[d]` the hash of each day, `usage` the hash that belongs to no day, `recent`; `step`/`cmd`/`loc`/`day` where a run's monitor call is and which day's key it made; `client`/`queue`/`view` |
| `MonitorDashboard` | `GET /monitor/active` and `/dashboard` reading that store beside it | `left`, `current`, `kept`, `shown`: the request's local variables; history variables for what was active meanwhile |
| `GitAutoCommit` | the auto-commit's subprocesses | work tree, index, `history` of HEAD, `indexLock`; `tree` the index as a `git commit` has it in memory; a history variable for what was overwritten in the index |
| `CostLedger` | the cost of a run, the month's row and the usage log | committed `row`, `lock`, `written`, `seen` (what a session read), `logged`; a history variable for a run that wrote over what it had not read |
| `SvgGeneration` | `POST /svg/generate` | `cache`, `history`, each request's document |
| `CodeChecks` | code extraction and verdicts (pure) | - |
| `CodeRequests` | a run's extraction and validation; review, fix and their metering | `code`, the open session's record, committed records |
| `Subscriptions` | `GET /billing/me`, `POST /billing/subscribe`, the Stripe webhook, the administrator's statistics | `subs`, `usage`, `side` the committed tables; `seen` and `staged` what a session has read and is about to write; `answer` what the sender got |
| `KnowledgeBase` | `index_execution`, search, suggestion | `rows`, `patterns` committed; `holder` row locks; `found` the count that was read |
| `ArchitectureDecision` | `POST /architecture/decide` and the two patterns that read the agents' answer | `row` in the session, `decisions` committed, `reply` |

`PipelineRun` is the core. `PipelineContract` is its abstract specification and `PipelineRun`
is shown to implement it, by TLC (`ContractSpec` as a property of two runs) and by TLAPS. The
other modules each take one place that a run passes through (the monitor, auto-commit, the
usage log, the validation), where `PipelineRun` only keeps whether the call succeeded, and open
it up: `PipelineMonitor` uses what `PipelineRun` establishes (`OneRunPerTask`: runs of one task
do not overlap unless the database fails), `CostLedger` shows what happens to the row whose
absence `PipelineRun` keeps in `budget`. `MonitorDashboard` and `CodeRequests` compose a module
with what reads or uses it. `KnowledgeBase` is what the table does when it is called: the call a
run makes never gets there (section 4), and `PipelineRun` has that. `Subscriptions` is about the
plans that the quota of `CodeRequests` is taken from. A module `MCx` holds the instances of `x` for TLC, a module
`x_proofs` its theorems; `PipelineMonitor_proofs` has those of `MonitorDashboard` too, and
`Advice_proofs` those of `KnowledgeBase` and `ArchitectureDecision`. Modules that share nothing are
checked side by side, one of them in each behaviour: `MCRunEffects` has `CostLedger`,
`GitAutoCommit` and `CodeRequests`, what the calls of the pipeline leave behind besides the row of
their task; `MCAdvice` has `KnowledgeBase`, `ArchitectureDecision` and `SvgGeneration`.

How code became actions: an action goes from one suspension point or possible exception to the
next. A handler that may raise has a disjunct for it; `except` and `finally` clauses are actions
that set the state the code sets. Reading a row, changing the object and flushing are kept apart
as SQLAlchemy keeps them apart: `base` and `obj` are compared and only the columns that differ
are written, which is why a run may leave another's column behind. A snapshot is a record of
the number of events and the fields that decide progress and listing; a document is known by its
maker and by what the validators say of it; a text by the chunks between its markers; a
description by the kinds of its characters, for escaping changes the length of some, XML does not
allow others, and `re.sub` reads a backslash in its replacement as an escape; a line of an answer by
its label, of which `Words` (three characters or more, no spaces) end a rationale also with text
behind them.

### What stands for what is outside

* PostgreSQL at READ COMMITTED: a SELECT sees committed rows, an UPDATE or a unique INSERT waits
  for the holder of the lock, a failed statement aborts the transaction. A COMMIT of an aborted
  transaction raises if the session still has something to flush, and silently rolls back if not
  (`EndSession` of `CodeRequests` has both; in a run the usage log is always left to flush).
* FastAPI ends `get_db` before the response is sent: a commit that fails is answered 500.
* git: `index.lock` makes a command fail and never wait; HEAD moves only if it is still what the
  commit has read. A `git commit` of the whole index reads it before it takes `index.lock`, and may
  write what it has read back when it has the lock: it always may, as whether it does depends on
  what its refresh and the cached tree have changed. What it commits is what it has in memory, or
  the index read again after a pre-commit hook. `git add` reads the index under the lock.
* The quota library's check reads the committed charges, its record adds a row and loses no
  update of another; plans do not change meanwhile. `record_call` may raise for a reason of its own
  (the fault `billing`), which leaves neither a record nor an aborted transaction.
* The schema of an admin's grant lets four plans through and answers 422 to the rest (`Offered`);
  the catalogue may lack one of the four.
* `get_or_create_active_subscription` adds the free plan if it finds no active subscription;
  `switch_subscription` cancels what it finds active (or the one of several that it finds), adds a
  row for the new plan, and for an unknown plan raises `ValueError` before or after cancelling.
  The webhook's `handle_event` does what the tests of `test_stripe.py` and `test_stripe_r2.py` and the schema of the
  migrations say: a checkout switches and makes the Stripe row active, a deletion switches to the
  free plan, another type is ignored. Nothing records which events were handled.
* Stripe delivers an event until it is answered 200 (in reality for three days), after a 400, too.
  A request whose signature is forged does not come from Stripe; who sends it may send it again.
* PostgreSQL sorts a NaN distance after every number; ties come in any order.
* The ontology's verdict is a function of what it is asked about. Agents answer anything or
  raise; the sandbox may refuse, fail or be absent.
* A Redis hash is one counter per field; the hashes of the days before are not looked at again,
  the hash of model usage has neither a day nor a TTL.

## 3. Runs

All runs are exhaustive for their instance. Deadlock is checked everywhere: a `Quiet` step is
enabled only when all requests are over, so a state in which requests wait for each other would
be reported.

| run | instance | shows |
|---|---|---|
| `PipelineRunLocal` | two runs of one registered task and a generate with auto-commit, monitor in memory, agents, database and git failing, one crash, no budget row yet | `CommittedSettled`, `OneRunPerTask`, `HandlerInv`, `MonitorSettles`, `BilledAsAnswered`, `FreshRunOwnsRow`, and the refinement of the contract, `ContractSpec` |
| `PipelineRunRedis` | two runs of two tasks, or of the same one, one task of an unsupported language, Redis, everything failing, fairness | every request is answered (`AllAnswered`) |
| `MonitorRedis` | two runs of a task each, Redis commands failing, one crash, one midnight, one recent run kept | the counters: `OutcomesWithinTotal`, `CountedAtMostTwice`; `ExecutingIsListed` |
| `MonitorViews` | one run; a WebSocket client or a request for the list beside it; a second task stale in the index; snapshots expire; one crash; `active_limit` one | `ViewNeverGoesBack`, `ProgressFallsOnRerunOnly`, `ListenerSeesEnd`, `ListingEnds`, `ExecutingIsListed`, `ShownWasActive`, `ActiveIsShown` |
| `RunEffects` | three interchangeable auto-commits, git failing, one crash; or two runs and an administrator at the month's row: two tasks, three lengths of code, two providers, budgets 0, 1 and 7 cents; or one run, one review, one fix of a user with a quota of one call: texts of up to three markers, tagged and not, and of two blocks; agents, sandbox and database failing | auto-commit: `SettledInHead`, `ShaHasSnippet`, `NothingLost`, `SomebodyCommits`; ledger: `NeverOverstated`, `SpendingIsComplete`, `RunsKeepBudget`; code and metering: `ChargedAsAnswered`, `OvershootIsOverlap`, `TaggedBlockExtracted`, `StoredVerdictHolds` |
| `Subscriptions` | a user's two first visits, a grant and a checkout at once; the life of a Stripe subscription beside a visit, or beside grants of a plan and of one that the catalogue lacks; a checkout that is sent twice; what is forged or unknown; Stripe on or off; one failing commit, crash or lost answer | `KeepsASubscription`, `RevenueCountsEachOnce`, `AcknowledgedIsKept`, and every event is acknowledged in the end (`EventsSettle`) |
| `Advice` | seven executions, five more being indexed, a search for the best two and a suggestion; or one debate with any answer of up to five lines; or four SVG requests: two for one document, one for another, one of a wrong type, a limit of four characters, Redis, LLM, ontology and database failing, one crash | `PatternsCount`, `SearchIsNearest`, `SuggestionFollowsSearch`; `DecisionIsRecorded`, `FormIsRead`; `HitHasOrigin`, `AnsweredIsRecorded` |
| `PipelineRunKnowledge` | two runs of a task, nothing fails | `ExecutionIndexed` is violated |
| `PipelineRunBudget` | two runs and an inline run, nothing fails, no budget row | `UsageLogIsBestEffort` is violated |
| `PipelineRunAudit` | a generate, agents failing | `FailedCallIsRecorded` is violated |
| `GitSkipped` | three auto-commits, nothing fails | `SkippedIsCommitted` is violated |
| `SvgFallback` | the instance of `Advice` | `AnsweredIsSound` is violated |

The inductive invariants of the proofs (`HandlerInv` excepted) were checked with TLC on these
instances and are not repeated in the runs; `RaceInv` on the two in which nothing fails, `OwedInv`
on that of `MonitorRedis` without failing commands and without the crash.

**Why the bounds are enough to be of interest.** Two runs of one task and a third request are
the smallest number in which a run waits for the lock while another, already committed, changed
the row that the first had read, and a third writes the budget row. Each kind of failure may
happen at every point at which the code can raise it, any number of times; a crash may come at
every step, once (`MaxCrashes`): what a second one would find is what the first left. The monitor's
`RecentCap` of one makes trimming happen. `ActiveLimit` of one with two tasks in the index makes
the limit bite. Three git requests are needed for one to be pushed out by another's commit while
a third has staged its file, or for one's file to be overwritten in the index by a commit that read
it earlier. One midnight is enough to part any two increments. A quota of one with two metered calls is the smallest overshoot. A
limit of four stands for 200 in the cut of the escaped description: one of the three descriptions
is cut in the middle of an entity, one has a backslash, one is of a request that is refused. In `MonitorViews`, the client and the
request, neither of which changes what the other can see, are not both there in one behaviour
(`Alone`); the run is the only one. In `RunEffects`, the run of `CodeRequests`
touches no variable of the metered calls and they none of its own, so it waits for their end
(`RunsComeLast`). Two runs of one task, one after the other, beside a client are
out of TLC's reach; the theorems `ViewsGoForward` and `ProgressClimbs` cover them, and `ProgInv`,
the invariant of the latter, was checked on two runs without a client. Symmetry is used in `RunEffects` and `GitSkipped` (the
auto-commits) and in `MonitorRedis` (a run and its task are exchanged for the other run and its
task), none of which checks liveness. In `MonitorRedis`, snapshots do not expire, which concerns no
counter; they do in `MonitorViews`, where it is always the first day and Redis does not fail. In `Subscriptions`, the sets `Together` are the requests that come in one behaviour;
four at once are enough for a checkout to find what a visit has added, what a grant has cancelled
and what another checkout has written, and the events of one Stripe subscription arrive in every
order. An update or a deletion is sent only beside the checkout it belongs to, as Stripe does.
`MaxFailures` of one makes one commit fail, one process die or one answer be lost; refusals by a
constraint are not bounded. In `Advice`, the window of a search is of eight rows, and there are up
to nine usable ones; the distances lie on and beside the boundaries 0.80 and 0.95, one is NaN, and
two failures with one signature are indexed at once. An answer of five lines has room for both
labels, a line under each and a label that belongs to neither.

**Fairness.** `FairSpec` of `PipelineRun` has weak fairness of `Progress(r)`, a handler's own
steps: the event loop resumes every coroutine that is ready, and an agent, which is outside the
repository, is assumed to answer or to raise in the end. Weak fairness is sufficient for the row lock: a handler that
waits has the row's lock released by one that ends, and only finitely many requests compete.
`StartFails`, the database's refusal of a waiting request, is not in it: nothing obliges a
database to refuse. In `PipelineMonitor`, runs that have begun go on, the generator of a
connected client is resumed, and a TTL runs out; nobody has to begin a run, connect or leave,
and requests for the list carry no fairness. In `Subscriptions`, weak fairness of `Progress(e)` for
an event: Stripe delivers it again as long as it was not answered 200, and the event loop goes on
with the request; nobody has to visit or to grant, and a request that has begun may stay open.

## 4. What disagrees with what is said of it

Each is a run that violates one property, stated from a line of the repository.

1. **No run is ever indexed in the knowledge base** (`PipelineRunKnowledge`).
   `pipeline_runner.py:232` passes `lat_ms`, a local that is assigned at lines 277 and 305 only:
   `UnboundLocalError`, swallowed at line 249. `models/adk_kb.py:18` calls the table the history
   of the pipeline's runs. So searches find nothing either.
2. **A usage log entry can turn a finished run into a 500** (`PipelineRunBudget`). Two runs that
   find no budget row for the month both add one; the second fails at its commit, after its event
   was published. `pipeline_runner.py:222` says that failing to log the usage is skipped.
3. **A failed generate leaves no record of the call** (`PipelineRunAudit`). `record_call` stages the
   record in the session of the request (`pipeline_runner.py:389`), and the exception that makes the
   call a failure goes on to `get_db`, which rolls that session back. `test_billing.py:334` and
   `:373` say of action `generate` that a failed call must be recorded, for audit, and test
   `record_call` with a commit of their own; `pipeline_runner.py:360` says that the use is recorded
   when the call ends. The run has the agents fail, and nothing else.
4. **An auto-commit can be skipped although its snippet was never committed** (`GitSkipped`). Another
   request's `git commit` has read the index before it took `index.lock` and writes it back over the
   `git add` in between; `git diff --cached` then finds nothing and `git_service.py:130` reports
   that there was nothing to commit. `test_git_service.py:53` has the meaning of that answer: what
   was to be committed has been. This rests on how git works, as stated in section 2.
5. **The fallback SVG need not be a sound one** (`SvgFallback`). The description is escaped and then
   cut to 200 characters (`svg_generator.py:332`), perhaps within `&amp;`; control characters stay,
   and `re.sub` (`:337`) reads a backslash of the description as an escape. The docstring
   (`:328`) calls the result a safe SVG.

Seen while reading, without a run of its own:

* The 80 % warning of `cost_optimizer.py:194` can stay away: `spent_usd` has two decimals, costs
  below half a cent are rounded away one at a time, and overlapping runs overwrite each other's
  addition. `NeverOverstated` says what is left, that it never comes too early, and
  `SpendingIsComplete` that nothing but overlapping runs and rounding takes anything away.
* What a `git commit` has overwritten in the index can also be missing from the commit whose sha a
  request is told, and taken out again by a later commit. `SettledInHead`, `ShaHasSnippet` and
  `NothingLost` say that this is the only way: they are about files that were not overwritten.
* Two requests of a new user at once, or a grant and a visit, leave two active subscriptions, for
  no constraint forbids them; `admin_stats` counts both (`RevenueCountsEachOnce` excepts them). A
  checkout that is delivered twice cancels its own subscription and adds another one.
* A zero vector's distance is NaN, which scores as 1.0 and is suggested for reuse, when nothing
  else is nearer. The two SELECTs of the knowledge statistics may differ by an execution.
* A label without text takes the next line for its text, also if that is another label. A label of
  two characters with text behind it does not end the rationale.
* A WebSocket client is sent the status before it is subscribed (`pipeline_monitor.py:520` and
  `:538`): an end published between the two does not reach it. `ListenerSeesEnd` is therefore
  about clients that listen already.
* A run of Python code need not pass `ast.parse`: broken Python gets the fallback payload, while
  `polyglot_executor.py:236` speaks of both. When no block has
  the tag and the first has another one, the bare-fence pattern takes the prose behind it, or the
  whole text (`TaggedBlockExtracted` states it). Code is cut to 16,000 characters when stored, the verdict is
  about all of it. Review analyses the language as given, aliases not resolved.
* `select_model` is called without a budget and uses its default, so the month's budget never
  influences the routing.
* A task tracked as completed in the middle of a run is not listed as active for that moment,
  which is why `ActiveIsShown` speaks of tasks that were listed throughout.

## 5. Proofs

Each `_proofs` module proves `Spec => []Inv` by the usual three facts: the initial states satisfy
an inductive invariant, each action preserves it (a step per action, below it one per conjunct the
action can disturb), and the invariant implies the property. The assumptions are the named
`ASSUME`s of the modules, which TLC evaluates on the instances: the kinds of requests are disjoint,
the markers for "nobody" are none of them, faults, tasks and texts are what they are said to be. The
sets of requests, tasks, keys, codes and lines are arbitrary, also infinite, except where a number
of them is counted (`Runs` of the monitor, `Metered` of the code requests) or summed (`Plans`).
Three theorems assume more and say so: `OnlyTheBudgetRace`, `OverMeansUnlisted` and `ListingsEnd`
are about what happens when the outside works.

* **`PipelineRun_proofs`.** `TypeCorrect`; `HandlersInvariant`. `HandlerInv` is what makes the rest
  inductive: `OneRunPerTask` alone is not, as nothing in it says that a flush writes. The flush
  of `running` takes the lock only if the column differs from what was loaded; it always does
  because every loaded task is settled (`CommittedSettled`), which in turn is true because a
  transaction between its first flush and its end holds the lock and either goes on to completed
  or rolls back (`LockInv`, `SessionInv`). From it: `Settled`, `MutualExclusion`, `FreshRun`
  (an action property), `MonitorIsSettled` and `Implementation`, the refinement of
  `PipelineContract`: `Create` maps to `Create`, `Commit` to `Succeed`, a failing commit, a
  rollback and a crash to `Refuse`, all other steps to stutters. `BillingFollows`, by `Billing`: a
  call's record is staged by the last step before the session ends, and only by that, so that a
  charge survives exactly if the answer is 200 and `record_call` itself has worked.
  `WaitsAreForWorkers` and `HandlersGoForward` are what `AllAnswered` is without fairness: who
  waits for a row lock holds none, the holder is at work, so there is no circle; and every step
  of a handler climbs in `Rank`, which ends at fifteen. What is left to fairness is that handlers are
  resumed. Two theorems say how far the first two findings of section 4 reach. `NothingIsIndexed`: not just
  the run that TLC found, no run ever commits an execution. `OnlyTheBudgetRace`: while database
  and Redis work, the race for the month's row is the only way in which a run whose event is out is
  answered 500, by `RaceInv`, which follows such a run to its commit.
* **`PipelineMonitor_proofs`.** `Counting`: `CountInv` adds to a day's outcomes the runs that have
  incremented that day's total and still wait to increment an outcome of it. `RatesAreRates` follows.
  `TypeCorrect`, by `StepInv`: where each run is among its nine or eleven monitor calls.
  `WorkIsListed`, by `ListInv`: of a task's runs one is alive, and what it has built is what is
  stored once SETEX was sent, and in the index once SADD was; hence when the fourth call has
  returned and the orchestrator works, the snapshot says running. `CountsAreFew`, by `TotalInv`:
  every step of a run pays for an increment of the total with a chance to increment it that it
  had, one per try block and one per except clause. `ViewsGoForward`, by `ViewInv`: what a client
  was sent is no later than what waits for it, which is in order and no later than what is stored.
  `ProgressClimbs`, by `ProgInv`: a run finds what its own calls stored, the progress stored is the
  hint of the last of them, and each hint is above the one before it.
  `ListenersAreSentTheEnd`, an action property: a client that listens and is owed an end, by a run
  of its task that is under way or by its queue, is sent it by the step, is still owed it after the
  step, or is gone; by `CarryInv`, what a run is about to store or publish is what its last
  call says. That is `ListenerSeesEnd` without fairness. `OverMeansUnlisted`, by `OwedInv`: while an
  unsettled snapshot of a task is stored, a run of it is alive that has its completion still to store.
  `ListingsEnd` follows: `ListingEnds` needs fairness only where Redis may fail or survives a
  crash.
  For `MonitorDashboard`, `DashboardInvariant`: what EXISTS has found is active or has run
  out since, what is kept or shown was active at some moment. `DashboardShowsActive` follows.
  `DashboardMissesNothing`, by `Passing`: a task active all along is still to be looked at, was
  found, is kept or is shown.
* **`GitAutoCommit_proofs`.** `Repository`: but for what was overwritten, HEAD is within the index,
  and a commit under way takes a tree between its parent's and the index. It needs the history
  variable: without it nothing relates HEAD to an index that has been written back. `Settling`,
  `Reporting`, `Keeping` follow.
  `SomeRequestCommits`, by `BlameInv`: `index.lock` belongs to a request that is still at work and
  will release it, and a request comes to nothing only because of another's lock, of an error of
  its own, or of a commit that was made. `StaleLockStopsCommits`, an action property: a lock left by
  a killed git stays, and neither index nor HEAD changes any more; by `StaleInv`, who comes then gets
  no further than `git add`.
* **`CostLedger_proofs`.** `Ledger`: the bound holds of every row that a session has read, and of
  the row about to be committed with the cost of its run; so does the lower one, of the row about to
  be committed, unless a run has written over what it had not read. `Spending` and `NothingUnspent`
  follow.
  `KeepingBudget`, by `Kept`: the row a run is about to commit has the budget of the stored one, as
  its UPDATE took it over with the lock.
* **`SvgGeneration_proofs`.** `Generation`: what Redis holds was stored by the request that made
  it, after the ontology passed it, and that request has recorded it, is about to, was refused by the
  database or died. `HistoryServes` and `OriginIsKnown` follow.
* **`Subscriptions_proofs`.** `SubscriptionsInvariant`: what a session has read is about its user
  and still in the tables unless somebody else has committed meanwhile, what it cancels it has
  seen, a user has at most one active subscription unless requests about him overlapped.
  `AcknowledgedKept`, `OneSubscription` and the action property `KeepingASubscription` follow.
  `RevenueIsCounted`: the statistics add up per plan what the property counts per user.
  `CountedTwoWays` takes away one active row at a time: of the smallest sets of rows for which the
  two counts differ, each has one still smaller. The lemmas about `SumFunction` that it rests on are
  proved in the same way; `FiniteInv` makes the sums finite.
* **`Advice_proofs`.** `PatternsAreCounted`, by `CountInv`: the count that an indexing has read,
  however old, is not above the failures on record, so one more, committed together with its own
  failure, is not either. `SearchFindsNearest`, by `AnswerInv` and
  `WindowLosesNone`: the window is longer than `top_k` and holds the nearest rows, so a similar row
  that it leaves out is no nearer than those in it, and these are similar as well.
  `SuggestionKeepsUp`: rows are only added, so the nearest one only gets nearer.
  `DecisionsAreRecorded`, by `DecideInv`: the row in the session is the answer that is ready to be
  sent. `PromptFormIsRead` is about the two patterns: for a text of any length, the search for the
  label, for the line at which its text begins and for the label that ends it come to what stands
  under the label read the plain way (`UnderBegins`, `LabelledOnce`, `EndsAtLabel`).
* **`CodeRequests_proofs`.** `MeterInvariant`: charges and calls in flight together stay below the
  quota and the peak of concurrent calls. `CallsChargedAsAnswered` and `QuotaOvershoot` follow.
  `RunInv` says what a run extracts and judges; with it, `VerdictsHold` compares the two verdicts,
  and `BlocksExtracted` rests on `ExtractInTurn`, about `extract_fenced_code` for texts of any
  length: the parity of a marker tells whether it opens a block.

**Only model-checked.** The liveness properties under fairness, which are out of the prover's
reach: `AllAnswered`, `ListenerSeesEnd` and `EventsSettle`, and `ListingEnds` where Redis may fail or
survives a crash. The fairness-free part of the first two is proved, as said above. Every safety
property and every action property of the runs is proved, the five that the code violates excepted.

Recursion over data is proved without induction theorems, whose operator parameters no installed
prover can instantiate: `Filled` and the sums are recursive functions, that a function with the
recursive equation exists and that two of them agree is shown by a least counterexample
(`LeastNumber`). No module declares a RECURSIVE operator.

## 6. What is not modelled

* The event subscriber: its handler writes a log line, and its task is started and stopped by a
  library and asyncio.
* Stripe's checkout, portal, metered usage and plan mapping: each maps one call of the library
  outside the repository to a status code and keeps nothing here.
* The reads of usage histories, of the plan catalogue and of the knowledge statistics: one or two
  SELECTs, formatted.
* `select_model`: the choice of a model is a pure function of the task's text and of what the ontology
  says; it changes no state.
* The text of prompts and lore in the architecture debate, its context metrics: data.
* Latency and token sums, `_set_progress` (called by nothing), the dashboard
  without Redis (nothing can come between its steps).
* `push` and `create_branch` of `git_service.py`, called by nothing.
* SVG templates, prompts, name guesses and hints in prompts: data.
* Authentication, schemas, migrations, configuration, `/health`, tests: no behaviour of their own,
  or in a library.

## 7. Plan

Done, in this order: `PipelineContract`, `PipelineRun` with its proofs; `GitAutoCommit`;
`CostLedger`; `PipelineMonitor` and `MonitorDashboard`; `SvgGeneration`;
`CodeChecks` and `CodeRequests`; `Subscriptions`; `KnowledgeBase` and `ArchitectureDecision`;
proofs of all safety properties, of what liveness is without fairness, and of how far the first two
findings reach.

What is left, most important first:

1. The monitor's memory mode for requests; the SVG history endpoints.
2. A refinement for the monitor: its store as one atomic record per task, with what the theorems
   above say of the steps in between as the mapping.
3. `EventSubscriber`: start, stop with its five-second timeout and cancellation, if its handler
   comes to do more than log.
