# A TLA+ model of the rotating proxy's core

The repository is an LLM API proxy.  A client's request names a model; the
proxy picks one of the operator's credentials for the model's provider, calls
the provider with it, and on an error tries again or rotates to another
credential until a deadline.  What can go wrong is in the bookkeeping shared by
all the requests in flight: which credentials are in use, cooling down or
spent, and what of that survives a restart.  This project models that core in
TLA+, checks it with TLC and proves its main invariants with TLAPS.

Paths below are relative to the repository; `usage/`, `client/`, `utils/` and
`providers/` are under `src/rotator_library/`.

## Inventory

| Part | State | Operations | Talks to |
|---|---|---|---|
| Request executor, `client/executor.py` | per request: deadline, tried credentials, attempt number, error accumulator | `_execute_non_streaming`, `_execute_streaming`, `_handle_error_with_context`, the waits before retries | usage manager (acquire, mark), provider plugins, error classifier |
| Cross-provider executor, `client/cross_provider_executor.py` | the route being tried | walks the fallback models | request executor |
| Streaming handler, `client/streaming.py`, `stream_retry_policy.py` | chunks seen, error buffer | wraps a stream, detects embedded errors, decides whether a retry is still allowed | executor, `CredentialContext` |
| Usage manager, `usage/manager.py` | states of all credentials, a lock and a condition per credential, save flags | `acquire_credential`, release, `remove_credential`, `initialize`, `_handle_request_complete`, `update_quota_baseline`, `save`, `reload_from_disk` | selection, tracking, storage |
| Selection engine and strategies, `usage/selection/` | sticky choice per key | `select`, `_try_fair_cycle_reset` | limit checkers |
| Limit checkers, `usage/limits/` | fair cycle's global state; otherwise read credential states | `check` of concurrency, cooldowns, windows, RPD, monthly budget, custom caps, fair cycle | tracking's data |
| Tracking engine and windows, `usage/tracking/` | usage windows, totals, cooldowns and fair cycle state inside a credential state | `record_usage`, `record_failure`, `apply_cooldown`, `mark_exhausted`, window resets | written by the manager |
| Storage, `usage/persistence/storage.py` | last save time, dirty flag, the file | `load`, `save`, `save_if_dirty` | resilient writer |
| Resilient writers, `utils/resilient_io.py` | pending writes by path, health, a retry thread | `safe_write_json`, `write`, retry loop, flush at exit | the disk |
| Session tracking, `session_tracking.py` | fingerprints with a TTL | infer and bind sessions | rotating client |
| OAuth bases and quota trackers, `providers/*_base.py`, `providers/utilities/` | tokens, refresh queues, re-authentication queues, backoff | get or refresh a token, process the queues | re-authentication coordinator, disk, usage manager (baselines) |
| Provider cache, background refresher, batch manager | TTL cache; periodic tasks; queue of embeddings | get, store; run; submit, flush | disk, manager, executor |
| Cooldown manager, `cooldown_manager.py` | cooldown per provider | `start_cooldown`, `get_cooldown_remaining` | executor (reads only) |
| Rotating client, scopes, request builder, transforms, registries, format conversion, configuration, logs, tools | caches and tables | functions of a request | everything above |

Everything up to the resilient writers runs on one asyncio event loop: code
between two `await`s that can suspend is atomic, and hazards sit at the awaits.
The resilient writers also run a retry thread.

Behaviours that are hard, and what makes each part correct:

- *Acquisition.*  Requests wait on the condition of one busy credential, with a
  bounded wait, after a lock they may queue for; slots are released before the
  outcome is recorded; credentials are removed and added while requests hold
  them.  The ceiling must hold, slots must neither leak nor be given back
  twice, nobody may wait forever, and nobody may fail early for nothing.
- *Fair cycle.*  Credentials are marked spent lazily, on a check; a reset
  happens inside a selection that then calls itself; a short cooldown, a tier,
  the candidates of the call and the cycle's duration all matter.  Selection
  must return, spent credentials must be skipped, and skipping must not strand
  requests.
- *Outcomes.*  A context left without a mark counts as a success; a stream that
  has started must not be repeated; waits must respect the deadline.
- *Persistence.*  Saves are debounced, flushed by a task, buffered in memory
  when the disk fails and retried by a thread; the newest state must win.
- *Windows, caps and budgets.*  Counters are reset by time when something
  touches them, corrected by the provider, and kept for a model and for its quota
  group; limits are checked when a request starts and counted when it ends.
  Successes and failures must add up, the highest use must survive a reset, and
  limits may be exceeded by what is in flight and by nothing else.
- *OAuth.*  A provider that rotates refresh tokens refuses the old one, so that
  of several refreshes of a credential each must send the newest; dicts are
  changed in place while others replace them in the cache; the processor of the
  queue comes and goes, and marks decide what is queued again.  No mark may be
  left behind, no replaced token sent, and the file must keep up with memory.
- *Provider cache.*  Memory and file have lifetimes of their own, a task writes
  dirty entries in the background, and saving merges memory into the file: what
  is saved must not be lost or replaced by something older.

## Plan

In order of importance:

1. `CredentialPool` with the abstract `LeasePool` (done, with proofs):
   acquisition, waiting, release, hot reload.
2. `FairCycle` (done, with proofs): spent credentials and the reset.
3. `StateWriter` and `UsagePersistence` over it (done, with proofs):
   debounced save, buffered write, retry thread, exit handler, crash and restart.
4. `RequestExecutor` (done, with proofs): one request's attempts, waits, marks
   and output.
5. `UsageWindows` with the abstract `DailyQuota` (done, with proofs): windows that roll, custom caps, daily
   limits and the monthly budget, against counts of what requests really did.
6. `OAuthRefresh` (done, with proofs): the refresh and re-authentication queues,
   the locks, rotating tokens.
7. `ProviderCache` (done, with proofs): the cache of conversation state with its
   background writer.
8. Ahead: the fallback routes of the cross-provider executor around
   `RequestExecutor`; `SessionTracking` (expiry and eviction of fingerprints) and
   the batch manager as small state machines; several providers sharing the
   re-authentication coordinator.

## Modules

| Module | Models |
|---|---|
| `CredentialPool` | `acquire_credential`, `CredentialContext`, `_release_credential`, `remove_credential`, `initialize` on a running manager (`usage/manager.py`), capacity and cooldown filters of `select` (`usage/selection/engine.py`), the rotation loop around them (`client/executor.py`) |
| `CredentialPoolProps` | its properties, and the refinement mapping to `LeasePool` |
| `LeasePool` | what a pool promises: one credential at a time, none twice, no ceiling exceeded |
| `CredentialPool_proofs` | theorems about the pool |
| `FairCycle` | `FairCycleChecker`, `_try_fair_cycle_reset` and the recursion of `select`, what `TrackingEngine` and `update_quota_baseline` write into the fair cycle's state |
| `FairCycleProps` | its properties |
| `FairCycle_proofs` | theorems about the fair cycle |
| `StateWriter` | `ResilientStateWriter`, `BufferedWriteRegistry`, its retry thread and exit handler (`utils/resilient_io.py`), for one file |
| `StateWriterProps`, `StateWriter_proofs` | its properties and theorems about them |
| `UsagePersistence` | `UsageManager._save_if_needed`, the flush task, `shutdown`, `initialize`; `UsageStorage` over an instance of `StateWriter` |
| `UsagePersistenceProps`, `UsagePersistence_proofs` | its properties, that it implements the writer's environment, and theorems about them |
| `RequestExecutor` | `_execute_non_streaming`, `_execute_streaming`, `_handle_error_with_context` (`client/executor.py`), `wrap_stream`, `can_retry_stream_after_error`, `CredentialContext` |
| `RequestExecutorProps`, `RequestExecutor_proofs` | its properties and theorems about them |
| `OAuthRefresh` | the refresh queue and its processor, `_refresh_token`, `get_auth_header`, the re-authentication queue (`providers/google_oauth_base.py`, `openai_oauth_base.py`), ticks of `background_refresher.py`, one provider's use of `utils/reauth_coordinator.py` |
| `OAuthRefreshProps`, `OAuthRefresh_proofs` | its properties and theorems about them |
| `UsageWindows` | `WindowManager` (`usage/tracking/windows.py`), `record_usage`, `record_failure` (`usage/tracking/engine.py`), `update_quota_baseline` (`usage/manager.py`), the checkers of cooldowns, the monthly budget, daily limits and custom caps (`usage/limits/`) |
| `UsageWindowsProps` | its properties, and the refinement mapping to `DailyQuota` |
| `DailyQuota` | what a daily limit promises: one counter, requests let in while it is below the limit, counted at most once, taken back only as a whole |
| `UsageWindows_proofs` | theorems about the windows and the limits |
| `ProviderCache` | `ProviderCache` with its tasks (`providers/provider_cache.py`) |
| `ProviderCacheProps`, `ProviderCache_proofs` | its properties and theorems about them |
| `MCCredentialPool`, `MCFairCycle`, `MCStateWriter`, `MCUsagePersistence`, `MCRequestExecutor`, `MCOAuthRefresh`, `MCUsageWindows`, `MCProviderCache` | values of the constants for TLC |

Each module that has runs is extended by an `MC` module; definitions whose
comment ends in `mutant` are wrong variants of the definition that follows, used
only to check that a property would notice such a bug.

### CredentialPool

An action is the code between two suspension points.  `pc` names them:

| `pc` | where the request is |
|---|---|
| `select` | top of the executor's rotation loop |
| `evaluate` | inside `acquire_credential`, at the top of its loop |
| `queued` | awaiting the lock of the condition of a busy credential |
| `waiting` | in `condition.wait()` bounded by `wakeAt` |
| `sleeping` | in `asyncio.sleep` until a cooldown ends |
| `running` | holds a `CredentialContext` and awaits the provider |
| `notify` | released, about to lock the condition and notify |
| `record` | about to record the outcome |

What a `CredentialState` object holds (`active`, `cooldown`) is kept per object,
`<<stable id, generation>>`: `remove_credential` followed by `initialize`
creates a new object under the old id, and waiters keep looking at the old one
through their `snapshot`.  Fields only the choice among selectable credentials
depends on are left out; the choice is free.  Cooldowns of the several scopes of
a credential are one cooldown.

### FairCycle

`fc` is the fair cycle's books for one tracking key, a quota group that all
requests ask for: which credentials have a state at all (`tracked`), their
exhausted marks and request counts, and the start of the cycle.  Selecting is one
step, as nothing in `select` suspends: `Checked` is what checking the candidates
writes, `ToReset` the groups the reset covers, and `Turned` the books after
select has called itself again.  Releasing a slot and recording the outcome are
two steps, as in the code.  Cooldowns have two scopes, the group (`cooldown`) and
the whole credential (`outage`, after an authentication failure), which the reset
looks at together.  `PerCredential` is the tracking mode: with it an
authentication failure counts in the key's books.  The quota limit of a
credential is a constant.  If `int(limit * threshold)` is 0, a credential is
marked again by the very check that follows its reset, and the recursion in
`engine.py:118-142` ends by overflowing: `Overflow`, after which some of the
candidates are marked and the request has failed.  `NoQuota` names these
credentials in the properties.  Hooks that mark or cool down are left out.

### StateWriter

The main thread's `write()` is three steps: deciding and moving the file, and then
the registry update (`main` is `unregister` or `register`), because the daemon
thread can run in between.  The retry thread and the exit handler share
`_try_write`: `job[t]` says whether `t` has copied what was pending or has moved
it, the two places where the registry's lock is free.  A state is a version, newer
ones larger; the disk works or does not; a crash loses all but the file.  `alive`
is the retry thread: an exception other than `OSError`, which `_try_write` does
not catch, ends it (`resilient_io.py:244`).  `raised` says that such an exception
ended the last `write()`, and `behind` that the owner has gone back to an older
state itself (`GoBack`, or a start without the file).  Times are ages capped at
the interval, beyond which nothing is distinguished.

### UsagePersistence

Updates of the usage counters are versions.  The manager schedules one flush
task, storage debounces by `last_save` and keeps a dirty flag; every write goes
through an instance of `StateWriter` whose variables are the writer's.  `UsesWriter`
states that this is a behaviour of `StateWriter`'s `Spec`, so that what is
checked and proved of the writer holds here too: the versions handed to the
writer never go back, but in the two cases in which the manager itself does.
`StartUnread` is a start whose `load` fails and answers with empty states
(`storage.py:99-100`, 120-125), and `Reload` is `reload_from_disk`, which drops
what a save has not stored.  A save may also end in an exception
(`storage.py:182-184`): it leaves the states unmarked, and `missed` remembers that.

### RequestExecutor

`pc` is where the request is: at the top of the rotation loop, acquiring,
preparing, in a provider call, in a stream, in a sleep, leaving the credential's
context, or done.  `then` says where the sleep or the context leads.  The five
handlers of errors are five actions with the conditions of their branches; an
error is what classification makes of it, its type and the wait the provider
asks for.  Acquisition is the pool's promise: some credential not yet tried, or
none.

### OAuthRefresh

`kind` is the family of the provider: Google's base validates a new token before
it saves it and marks a refused credential for good, the others save at once and
queue a refused credential for a login.  `op[t]` is the refresh a task is in:

| `pc` | where the task is |
|---|---|
| `none` | the processor does not exist |
| `idle` | awaits the queue, or has nothing to refresh |
| `timedOut` | the wait of 60 s is over and the task has not run yet |
| `lock` | awaits the credential's lock |
| `post` | the request is on its way to the provider |
| `refused`, `granted` | the answer is on its way back |
| `check` | the new token is in the dict and being tried, not yet saved (Google) |
| `pause` | between two entries |

A refresh works on the dict it was given (`Dict`).  When another dict takes its
place in the cache the first one becomes `former`, and `op[t].current` says which
of them a task holds.  A refresh token is a number, newer ones larger; `valid` and
`issued` are the provider's side, `known` the last token that reached the proxy,
and `apart` notes that file and cache have parted: a token was received and not
saved, or a login on the web page (`WebLogin`, `proxy_app/api/oauth.py:806-849`)
has put a new one in the file and left the cache of the running process alone. The
save of a newer token ends this.  A token lives for an hour and a refresh takes
seconds, so a credential does not expire during its refresh.

### UsageWindows

`window` holds the `WindowStats` of each scope: a model, the quota group, or
`_global_`, where authentication failures are booked.  `mode` is the reset mode of
the definition: rolling, daily, or the provider's (`api_authoritative`).  A window
is found to be over when something touches it (`GetOrCreate`); outcomes, headers
and baselines are one step each, as nothing in them suspends.  `flying` are the
requests that have been admitted and not recorded; `spent` is what the requests
recorded in this month have cost, the reference the budget is compared with.  A
request counts as often as its outcome or a hook says, 0 to `MaxCount` times
(`usage/manager.py:841-857`), and costs nothing when it counts 0 times. `Spend` is
what `_get_current_period_spend` adds up: the windows of the groups seen so far,
and those of models none of these is related to by name (`Related`, `Unrelated`).
Caps are what `_resolve_max_requests` makes of them, which is not clamped to the
provider's limit.  The sums over models and windows are one operator, `Total`.

### ProviderCache

The cache's two asyncio locks are never contended, as nothing awaits while one is
held: a step is a whole call, a whole task, or one turn of a background loop.
`style` says which pair of operations a provider uses: `store()` and
`retrieve()`, which only create tasks (Gemini CLI, Vertex), or `store_async()` and
`retrieve_async()` (DeepSeek).  Created tasks run in the order of their creation,
and time passes when nothing is ready.  An entry is a version, newer ones larger,
and the time it was stored; `disk` is what the disk lets the process do, and
`trouble` when it last failed.

## Runs

| Run | Shows |
|---|---|
| `pool` | ceiling, exact counters, failing before the deadline is justified, `LeasePool` is implemented; two requests, two credentials with one slot |
| `pool_live` | three requests on one credential with a re-registration: every request that began ends, no slot is lost, and the new counter misses at most one ceiling for each re-registration |
| `pool_reload_ceiling` | finding 1: the same re-registration breaks the ceiling |
| `fair_cycle` | selection calls itself at most once unless only credentials without quota are left, is not stuck and skips what is spent; three requests and two credentials of one tier, with a quota of two requests and of none |
| `writer` | writes resume in time, only a stale copy or the owner itself takes the file back, what is pending is retried unless an exception has ended the thread |
| `usage_saves` | a healthy writer leaves nothing unstored beyond the debounce, clean means stored (both unless a save ended in an exception), nothing older is handed to the writer but after a failed load or a reload |
| `executor` | bounded calls, waits within the deadline, true outcomes, every request ends |
| `executor_repeat` | finding 2: output is sent twice |
| `oauth` | no mark is left behind, what has expired is tried again, and, but after a lost token and until the save after a web login, no replaced token is sent and the file keeps up with memory; a request and the processor refresh one credential, with rotations, refusals, lost answers, timeouts, logins of both kinds and a restart |
| `windows` | successes and failures add up, the highest use survives, the daily limits implement `DailyQuota`, the group's cap, unclamped, is passed only by what requests in flight count as or by what the provider reports, the budget blocks early only by what it takes twice; two aliases in a quota group, one of them with an unrelated name, in all three reset modes, with a baseline |
| `windows_budget` | finding 3: the budget blocks late |
| `cache` | clean means saved, the file neither forgets nor goes back but by `clear()` and a save that cannot read it, what memory drops by age is in the file; two keys, both styles, a disk that fails, a restart |

**Bounds.**  In the pool, `MaxTime` stops the clock, `MaxReload` the
re-registrations.  Two requests for each slot are enough for each waiting pattern
(one holds, one waits; with three, one races them); the budget of two or three
seconds with a re-check of one lets a request wait, miss a notification, wake, and
either be admitted or run into its deadline; cooldowns are shorter and longer than
what is left of it.  In the fair cycle, limits of four and one at a share of one
half give thresholds of two, which lets a released but unrecorded request sit
between the check and the threshold, and of none; a cycle begun at 0 expires at 1,
where the clock stops; cooldowns are shorter than the short cooldown and, of both
scopes, as long.  `MaxVersion` limits the writer's states to three, in `writer`
and in `usage_saves`: one in the file, one pending, one newer.  The executor has
two credentials with two attempts, waits below, at and beyond each of its two
limits and the budget, and a quota threshold of three that is reached only across
credentials; calls are counted up to one more than is allowed.

In `oauth`, three tokens allow two rotations, so that a task can hold the first
one while the third is issued; two tasks are the processor and a request; two
attempts and two retries reach the last one of each; a queue of one entry gets a
second only when a failure puts its entry back.  Two requests beside the
processor also passed, without liveness (4.8 million states); two credentials are
left to the theorems, which hold for any number of them.  In `windows`, two requests in
flight pass a limit together; a request counts as none, one or two (`MaxCount`);
`MaxEvents` allows three requests, or two and a baseline (`MaxBaselines`); of the
two models one has a name that relates to the group's and one has not; windows
last one unit of time and a day and a month two, so that each of them ends before
the other and both at once; caps exist by number and by share, the provider
reports a limit of two and at most one request as used. `windows_budget` needs no
caps, one request at a time and a longer month: the budget is spent, the window
rolls, and the month goes on.  In `cache`, memory lives for one unit, the file for
two and the clock stops at three, so that entries die in memory and live in the
file, and die in both; three values give one key an entry in the file, an unsaved
one, and one in a task.

`CHECK_DEADLOCK FALSE` is set because a finite set of requests ends and the
clock stops; `oauth`, `writer` and `usage_saves` check deadlock.

**Fairness** (runs with a liveness property).  In the pool, weak fairness of each
request's own steps: the event loop runs whatever is ready, and a provider call
ends because the HTTP client has timeouts.  Weak fairness of the clock.  Nothing
is assumed of clients, of operators, or of notifications, which may be lost to a
request that is still queued for the lock.  In the writer, weak fairness of the
registry update that ends a `write()`, of the retry thread, of the exit handler's
steps and of time; disks and owners owe nothing, which is why `PendingIsRetried`
has the hypothesis that the disk works, and the thread lives, for good.  In the executor, weak fairness
of its own steps, of acquisition (bounded by its deadline), of the provider (HTTP
clients have timeouts, and streams are finite) and of time.  In `oauth`, weak
fairness of what the event loop runs: the queue's processor with its refreshes,
and the refresh of each request (HTTP calls have timeouts).  The refresher's
ticks, which come back for good, get strong fairness for one reason: `QueueLimit`
is a bound of the model that disables a tick now and then, and the code's queue is
unbounded.  Logins of either kind, expiry, revocation, cuts and restarts owe
nothing.

## Findings

1. **The ceiling and hot reload** (`usage/manager.py:405`).  An OAuth re-login of
   a credential in use (`api/oauth.py`, `_update_usage_manager`) drops its state
   object and creates one with no active requests, so up to twice the ceiling
   runs at once.  The README calls the ceiling hard.  The excess is bounded:
   `SlotsAfterReload` shows that each reload costs at most one ceiling.
2. **Repeated output** (`client/executor.py:1375`).  Only one of the four
   handlers of a stream asks whether output has begun.
3. **The budget and rolling windows** (`usage/limits/monthly_budget.py:109`).
   Only windows that began within the month are added up, with what they count
   now.  When a window rolls its cost is gone, and the totals are looked at only
   if the sum is 0: requests are admitted although the month's budget is spent.
   The README says that the credential is blocked once the budget is reached.

Observations met while modelling; no statement of the repository contradicts
them clearly enough, or they have no run of their own:

- *Fair cycle.*  After the duration exhausted credentials pass the check
  (`usage/limits/fair_cycle.py:110`), so nothing is blocked and nothing resets
  the cycle: it is off for that key from then on.  A rotating request, whose
  candidates are what it has not tried, resets a tier early
  (`EarlyResetOnlyOnRotation` shows that this is the only way).  A quota threshold
  of `int(limit * quota_threshold) = 0` (`fair_cycle.py:86`) makes every record
  spend the credential again right after its reset: when only such credentials are
  left, `select` calls itself until Python stops it (`engine.py:118-142`).
- *Writers.*  A retry copies the pending state under the lock and moves it
  without, over a file the main thread may have written meanwhile
  (`utils/resilient_io.py:221`); `BackwardsOnlyIfReplaced` shows that this is the
  only way the file goes back.  The forced save at shutdown is put off for an
  interval after a failed write, like any other, and not registered
  (`utils/resilient_io.py:386`): the exit handler then writes the older state.
  An exception other than `OSError` in a retry ends the thread
  (`resilient_io.py:244`), and as `_running` stays set nothing starts
  another one: what is pending waits for the exit handler or the next `write()`.
- *Usage storage.*  A load that fails answers with empty states
  (`usage/persistence/storage.py:99-100`, 120-125), and the next save puts them
  over a file that may only have been unreadable for a moment.  A save that ends
  in an exception does not mark the states dirty (`storage.py:182-184`), so that
  only the next update saves them.  `reload_from_disk` undoes updates that wait
  for their flush (`usage/manager.py:1700`).
- *Executor.*  A retry that does not fit into the deadline leaves the context
  unmarked, which counts as a success (`client/executor.py:1411`).  The wait
  before a rotation without streaming is not compared with the deadline.
- *Windows.*  A baseline gives the timing of the group's window to those of its
  models without looking at what these have counted (`usage/manager.py:2214`,
  `usage/tracking/engine.py:562`): an expired window of a sibling counts again;
  and one whose reset time has passed by now makes the counts it brings be
  forgotten at the next touch.  A cap of one model sends the whole group into a
  cooldown.  A model whose name is unrelated to the group's is counted twice
  towards the budget (`monthly_budget.py:112-116`), and with a baseline that gives
  its old window the timing of the group's new one even what it cost in an earlier
  month is.  `DOCUMENTATION.md:769`
  ("Custom cap is always <= actual max (clamped if set higher)") and
  `providers/provider_interface.py:263` (`min(custom, actual_max)`) say that caps
  are clamped; `_resolve_max_requests` (`custom_caps.py:295-332`) clamps to 0 only,
  so that a larger cap lets the counts pass the provider's limit.  The `fixed`
  cooldown adds its value to the present (`custom_caps.py:368-371`), where
  `DOCUMENTATION.md:795` says the window's start, and is not clamped to the natural
  reset, as line 770 says.  What an outcome counts as is 1, but 0 for server and
  connection errors and anything for a hook (`usage/manager.py:841-857`): a cap is
  passed by that much for each request in flight.
  Daily limits count successes only; a cap by share without a known limit is a
  share of 1000; a cap of 0 lets requests through in each fresh window.
- *OAuth.*  `DOCUMENTATION.md:1336` speaks of preventing infinite retry loops,
  but the processor queues and sends a Google credential again that has been
  marked as expired for good (`google_oauth_base.py:836`), and
  `is_credential_available` has no callers.  A login on the web page replaces the
  file of a credential of the running process (`proxy_app/api/oauth.py:806-849`)
  and leaves `_credentials_cache` alone: refreshes go on sending the replaced
  token, and the first that works saves its answer over the file's.  The timeout of a refresh may end it
  before its attempts are used up.  A request that tries again with a token it
  read before a login can queue a second login.
- *Provider cache.*  `retrieve()` never returns an entry older than the memory's
  lifetime: its lookup reloads it with its old timestamp, and the next
  `retrieve()` drops it again, so that the file's longer lifetime has no effect
  for the providers that use it, although `provider_cache.py:394` says "Schedule
  async disk lookup for next time".  A lookup or the load at start may replace a
  newer, unsaved entry by the file's.  `clear()` ("Clear all
  cached data.", `provider_cache.py:507`) empties memory and saves, but the save
  merges with the file, whose entries of that age stay and come back by lookups;
  `FileNeverForgets` says nothing of that step.  `shutdown()` has no callers, so that what is
  unsaved at exit is lost.  A save that cannot read the file forgets what is only
  in the file.

## Proofs

`CredentialPool_proofs`:

- `TypeCorrect`: `Spec => []TypeOK`, without assumptions beyond the constants'.
- `CeilingHolds`, `CountersExact`: with `ReAdd = {}` (no hot reload) the
  ceiling holds and the counters are exact.  Neither is inductive alone: a
  request is admitted against the counter, so the ceiling needs exact counters,
  and the invariant `PoolInv` is the conjunction with `TypeOK`.
- `ReloadKeepsSlots`, `ReloadCostsOneCeiling`: with any number of hot reloads.
  `ReloadInv` adds that objects not created yet have counter 0, so that no counter
  exceeds the requests in flight; `ReloadCeilingInv` adds how far it falls behind:
  no counter is above the ceiling, so what a reload forgets, all of it, is at most
  one ceiling more than what was forgotten before.  With no reload this is the
  ceiling itself.
- `FailingFastIsSound`: with `ReAdd = {}` an acquire fails before the deadline
  only when waiting is in vain.  The decision is made from the snapshot, the
  property is about the credentials registered by then, and `SnapshotInv` connects
  them: every untried credential that is still registered is in the snapshot, and
  no object in it has been replaced.
- `WaitsAlwaysEndInTime`: `WaitsEndInTime`, which is the half of `RequestsEnd` that
  needs no fairness, is inductive with the types.
- `PoolImplementsLeasing`: every step is a step of `LeasePool` or a stutter,
  from `LeasingInv`: what a request has in its snapshot it has not tried.

`FairCycle_proofs`:

- `RecursionEnds`, `CycleNeverStrands`: the second turn marks nothing that the
  first has not marked, and of what the first has put back it marks only `NoQuota`
  credentials again (`SecondTurn`), because a positive threshold is not reached by
  a count of 0.  Thresholds are not restricted: what a threshold of 0 does is in
  the statements.
- `SpentAreSkipped`, `EarlyResets`: action properties, from the type invariant
  and the shape of `Turned`.

`StateWriter_proofs`:

- `TypeCorrect`.
- `WriterRecovers`, from `FailureIsOld`: an unhealthy writer's last attempt is at
  least as old as the disk's recovery, whatever was put off since, unless it was
  ended by an exception of its own (`raised`).
- `OnlyStaleCopies`, from `Ordered`: outside the end of a `write()`, what is
  pending is at least as new as the file and as any copy under way, and no newer
  than what the owner handed over last.  While the owner has gone back itself
  (`behind`) nothing is claimed.

`RequestExecutor_proofs` rests on `Failures`: each of the five handlers of errors
does one of four things (`FailureStep`), so that the invariants need one case for
all of them.

- `TypeCorrect`, from `Control`: at the threshold of quota failures the request
  is on its way out, and a retry has an attempt left.
- `CallsAreBounded`, from `Counts`: untried credentials have no calls, the one in
  use at most one for each attempt.
- `SleepsEndInTime`: inductive with the types.
- `OutcomesAreTrue`, from `Marks`: what the mark means while the context is open.

`UsagePersistence_proofs`:

- `ManagerUsesWriter`: every step is a step of `StateWriter` or leaves the
  writer's variables alone, from `Newest`: nothing the writer holds is newer than
  memory (the file may be, until it has been loaded), so the versions handed over
  never go back, unless a failed load or a reload has set `behind`.  With it the theorems of `StateWriter_proofs` hold for the
  instance: `TypeCorrect` takes the writer's half from there, and
  `SavesAreResumed` and `CountersKept` are `WriterRecovers` and `OnlyStaleCopies`
  for the manager's saves and its file: it goes back by a stale copy, after a start
  whose load failed, or after `reload_from_disk`.
- `UpdatesStoredInTime`, `CleanMeansStored`, from `Timely`: an update that waits
  is marked dirty, and while the writer is healthy a flush is under way that comes
  before the debounce has passed since the oldest such update;
  both unless a save has ended in an exception (`missed`).

`UsageWindows_proofs`:

- `TypeCorrect`, `CountsAlwaysAdd`: `CountsAdd` is inductive with the types, step
  by step through what is done to one window (`Counted`, `Headed`, reconciling,
  rolling).
- `HighWaterAlwaysKept`: an action property, from the same invariant.
- Sums.  `Total` is a fold of the community modules, a recursive function over the
  subsets of a set.  `FiniteSetInduction` is induction over these subsets, stated
  about a *set* of them instead of an operator, from the well-foundedness of the
  strict subset order: a set of subsets that contains each one whose proper
  subsets it contains has all of them.  From it follow that any element may be
  taken out first (`TotalPart`), that sums are monotonic, depend only on the
  elements, and change with one element by its change (`FlightChanged`).
  `ScopeAssumption` says for this that `Model` is finite.
- `RpdAlwaysKept` from `FlightInv` (no more than `MaxFlight` requests are in
  flight) and `RpdInv`: what a counter says today and the requests of all its
  aliases in flight share the room of the limit and one flight.  The counter alone
  is not inductive: a request is let in by a count that others in flight will pass.
- `DailyLimitsAreQuotas`: every step is a step of `DailyQuota` or a stutter, from
  `FlightInv` and the types; requests of models without a limit are stutters.
- `CapAlwaysKept` from `CapInv`: the same for what the group's window counts while
  it has not expired (`Held`); a baseline sets the count to what the provider says
  has been used, and moves the cap with the limit.  A request in flight may count as
  anything up to `MaxCount`, and the cap is the code's, which no limit clamps.
- `BudgetIsNeverEarly` from `BudgetInv`: windows that begin do so in the present,
  those that have not begun cost nothing, and what the windows of this month have
  cost has been spent in it.  It holds for every relation of names; what the code
  takes twice, the windows of models that no group seen so far relates to, stands
  in the statement (see the observation on windows).

`ProviderCache_proofs`, from two invariants.  `Order`: values reach memory in the
order in which they were handed over; stores still to run are newer than memory
and file; memory is never behind the file.  `Timing`: the writer is never late,
unsaved entries are younger than its interval, and the initialization runs at the
instant of the start.

- `TypeCorrect`, `CleanIsSaved`, `FileKeeps` from `Order`; `FileKeeps` is about steps
  other than `clear()` while the file can be read.
- `DroppedIsSaved` from both: an entry old enough to be dropped has outlived the
  writer's interval, so a save that worked has come in between.  This is where
  the hypothesis `WriteInterval <= MemoryTTL` is used.

`OAuthRefresh_proofs`, by the effects actions have on tasks and dicts (`Steps`),
with the invariant `Kept`: `Exclusive` (one task per credential holds the lock),
`CheckedIsNewest` (what is being tried is the newest token), `MemoryIsNewest`,
`FormerIsNewest` (a former dict with a replaced token is not sent, as the cached
one is fresh while anyone refreshes), `FormerExists`, `GrantIsToken`, and
`NoLogins` (Google credentials are never queued for a login).

- `TypeCorrect`, `NewestIsSent`, `FileKeepsUp`: with `Kept`, which contains the
  two properties.
- `MarkedNeverForgotten`: inductive with the types; entries are followed through
  the queue, the processor and the logins.

Only model-checked: liveness (`RequestsEnd`, `PendingIsRetried`, `RequestEnds`,
`ExpiredIsTried`), which is out of the prover's reach under fairness.  Every
other property of a passing run is a theorem.

## Not modelled

`PROJECT.json` lists every part with the reason.  Most of the repository's lines
are not state machines: interactive tools (`credential_tool.py`,
`settings_tool.py`, `model_filter_gui.py`, `quota_viewer.py`), provider adapters
and format conversion, request building, registries, configuration, logging and
retired code.  They are functions of one request or of configuration, or talk to
people and providers; what reaches the core from them (an error class, a wait, a
quota baseline, a login) is an input of the modules.  The models cover most of the
code that keeps shared state: the usage manager, selection, limits, tracking,
windows, storage, the writers, the executor, the refresh of tokens and the
provider cache.

What could be modelled and is not: the cross-provider executor, session tracking,
the batch manager (see the plan); strategies, which only choose among equally
allowed credentials; contention of providers for the re-authentication
coordinator; the window checker, which is off by default; the Copilot and x.ai
bases, which have no refresh queue.
