# TLA+ models and proofs for the AI Agent System

The repository is a multi-agent operation ("Team Jay"): teams of bots (Luna for
investment, Blog, Darwin, Claude, Ska for reservations, Sigma, Jay as
orchestrator, edu-x, social media) around a **Hub** that owns secrets, the
database, alarms, the control plane and, above all, every LLM call. The
concurrency of the system is concentrated in the Hub's LLM gateway: this
directory models it first and most fully, since every team depends on it and since
its hard behaviour (slots, leases, aborts, retries, fallback) is what tests reach
least. After it comes the place where a retry costs money: the settlement of
Luna's unconfirmed orders.

Paths below are relative to the repository root; `llm/` stands for
`bots/hub/lib/llm/`, `hephaestos/` for `bots/investment/team/hephaestos/`.

## 1. Inventory

| Component | State | Operations | Interacts with | What makes it correct |
|---|---|---|---|---|
| Admission gate, `llm/admission-control.ts` | `inFlight`, `waiters[]`, per request `released` | budget guard, take slot, enqueue, queue timeout, client close, release once, overflow to job | shared limiter, job store, HTTP response events | exact slot count, no waiter beside a free slot, FIFO, every slot comes back |
| Shared limiter (PostgreSQL), `llm/shared-limiter.ts` | lease table, per call the leases acquired, `valid`, `released`, renewal flag | prune, insert per slot, rollback, validate, renew, release with retries | all Hub processes through the table; provider admission and the gate call it | limit per scope, a lease is lost only by expiring, all or nothing, loss is noticed |
| Shared limiter (files), same file | lease files, slot lock files, owner files | owner election, slot lock, prune, acquire, renew, release, status | processes on one machine | the eldest process is the owner, a lease is lost only by lapsing, nothing is held for the dead |
| Provider attempt, `llm/provider-attempt-admission.ts` | per call: acquire promise, execution, release, signals | acquire before abort, execute, grace, quarantine, bounded release | limiter below, provider, unified caller above | always answers, no lease forgotten, running work within the limit |
| Circuit breaker, `packages/core/lib/local-circuit-breaker.ts`, `llm/provider-registry.ts` | state, failures, `lastOpenAt` per provider | ask, record success or failure, status, reset | `_callRoute` of the unified caller; metrics and admin routes | open circuits shield, healthy providers recover |
| LLM jobs, `llm/job-store.ts` | job records, `activeJobs`, timers | create, schedule, process, requeue, finish | unified caller, PostgreSQL, overflow of the gate | one execution at a time, every job ends |
| OAuth refresh lock, `bots/hub/lib/oauth/refresh-lock.ts` | lock directory | acquire, stale removal, release, janitor | monitor and token scripts as separate processes | refreshes serialized, acquisition ends |
| Unified caller, `llm/unified-caller.ts` | in-flight dedupe map, cooldowns, per call plan and attempts, deadline | dedupe, early answers, plan, walk over the routes, exhaustion | provider attempt, circuits, guardian, job store above | one walk per identical prompt, every free route is tried, failure is told from backpressure, everyone is answered |
| Budget guardian, `bots/hub/lib/budget-guardian.ts` | totals per team and of all | check, refresh from the routing log | unified caller, routing log | totals come to what was logged |
| OAuth token store and monitor, `bots/hub/lib/oauth/token-store.ts` | token files | read, refresh, write | refresh lock | a fresh token is never overwritten by an older one |
| Alarm pipeline, `bots/hub/lib/routes/alarm.ts` | alarms, dedupe windows, incidents | intake, dedupe, auto repair | every team's client, control plane | nothing critical swallowed, one repair per incident |
| Control plane, `bots/hub/lib/control/commander-dispatcher.ts` | commands | dispatch, callback | Jay, teams | at most one effect per command |
| Jay, `bots/orchestrator/lib/jay-incident-store.ts` | incidents in PostgreSQL | claim, advance, retry | control plane | one worker per incident, every incident ends |
| Blog publish queue, `bots/blog/lib/omnichannel/publish-queue.ts` | posts to publish | claim, publish, retry | social platforms | no double publication |
| Luna reconciliation, `hephaestos/pending-reconcile-runner.ts`, `pending-reconcile-ledger.ts`, `shared/binance-pending-reconcile-queue.ts` | signal code and meta, trades, position, trade journal, advisory lock | select, fetch, apply, journal, mark, settle, repair | exchange, scheduler, operators | every fill is applied once and none is left out, position and trades agree, the journal catches up |
| Luna execution, the rest of `hephaestos/` and `bots/investment/shared/` | signals, orders, limits | execute, close out, trip | brokers | limits hold, no second order |
| Claude auto-dev, reservation retries, Elixir GenServers, team bots | see `PROJECT.json` | | | |

How the gateway's parts interact: a request passes the **admission gate** (a
local slot and, on some routes, a composite lease of the **shared limiter**).
Its handler calls the **unified caller**, which for each route of the chain asks
the **circuit breaker** and runs a **provider attempt**: a lease of the shared
limiter around the provider call. A full gate or an explicit request turns a
call into an **LLM job**, which calls the same unified caller later and goes back
to `queued` on limiter backpressure. Providers with OAuth credentials refresh
them under the **refresh lock**. The unified caller asks the **budget guardian**
before it walks the chain, and the route's handler writes the cost of the answer to
the log the guardian sums up. Where there is no PostgreSQL the limiter's leases are
files, of one elected process.

Luna's **reconciliation** is apart from all this: the executor leaves a signal whose
order could not be confirmed with a block code and a `pendingReconcile` record, and
runners started by the scheduler (`scripts/runtime-luna-ops-scheduler.ts:1308`, with
a time limit at which the process is killed) or by hand bring trades, position and
journal up to what the exchange says.

What is hard, by component, with the lines, is the list `hazards` in
`PROJECT.json`; every property here answers one of them.

## 2. Modules

| Module | Models | State and actions against the code |
|---|---|---|
| `AdmissionControl` | `llm/admission-control.ts` | `inFlight`, `waiters` as in the code. `pc` is the `await` a middleware call stands at. One action per continuation; `ReleaseSlot` contains the whole `drainQueue` loop, and `ReleaseOnce` the flag both listeners share. `Close` is the connection's end at any of these points; `unheard` (history) holds the exchanges that closed while nobody listened. |
| `LeasePool` | abstract specification | A set of holders never above `Limit`. Implemented per scope by the lease table, by the lease files, by the provider's running work, and with one slot by the refresh lock. |
| `SharedLimiter` | `acquireSharedLimiterLease` over PostgreSQL | `rows` is the table, keyed (scope, slot). Each SQL statement is an action. `tick` is the scope `renewAll` is awaiting. `live` abstracts `expires_at > NOW()`. Implements `LeasePool` once per scope (`ScopePools`). |
| `ProviderAttempt` | `llm/provider-attempt-admission.ts` | `grant`, `work`, `give` are the three promises (acquire, execute, release), `pc` the function. Uses `LeasePool` for the limiter, and states with a second instance that the *work* is a `LeasePool` too (`WorkLimited`). |
| `CircuitBreaker` | `local-circuit-breaker.ts` through `provider-registry.ts` | `state`, `failures` as in the code; `elapsed` is the clock test; `flight` are the callers between `canCall` and the recording. Its `CircuitInit`, `CircuitNext`, ... carry its name, so that the theorems of the caller and of its circuits share a module. |
| `LlmJobStore` | `llm/job-store.ts` | `status`, `attempts` are the stored record; a *run* is one `scheduleJob` (immediate, `processJob`, failure handler, or the retry timer). `updateJob` is three steps: `Copy` (read), `Commit` (the write takes effect) and the answer the run goes on with, so a death may come between a stored count and the execution it counts (`job-store.ts:258-271`). A creation is a write with an answer too. |
| `OAuthRefreshLock` | `oauth/refresh-lock.ts` | `dir` is the directory (maker, older than `staleMs`), one action per file system call; every removal may fail. `slow`, `left`, `robbed` are history. |
| `FileLimiter` | the file backend, `llm/shared-limiter.ts:104-392` | `owner`, `lease`, `lock` are the files; `run` is the synchronous function a process is in, one action per file system call. The section a lock is taken for (prune, take, renew, release) is a field of the frame, so `withFileSlotLock` is modelled once. `reused` are the dead processes whose pid another program has: `isProcessAlive` takes them for living. `Faults` names the kinds of failure an instance has. `contested`, `lapsed`, `stolen` are history. |
| `BudgetGuardian` | `budget-guardian.ts` | `used`, `globalUsed` as in the code, `log` the day's sums of the routing log, `reading` the refresh queries under way. |
| `UnifiedCaller` | `callWithFallback` in `llm/unified-caller.ts` | `inflight` is `inFlightDedupe`, `pc` the `await` a call stands at, `todo` the rest of the cooldown plan, `result` the attempts. Extends `BudgetGuardian`; of `ProviderAttempt` it takes the answers (`NotAdmitted`; work that will not end, `WorkUnconfirmed`; a failure whose lease could not be released, `FailureReplaced`; a lost lease, `LeaseLost`), of `CircuitBreaker` whether a circuit is open and which answers it counts. `failedAt` (history) are the routes whose provider was called and did not do its work. |
| `ReconcileLedger` | the reconcile and journal repair queues of Luna | `code` and `meta` are the signal's, `links`, `applied` the trades with the order's incident links, `loc` what a runner read at the start of its pass. One action per statement, except the transaction under the advisory lock, which is one; the repair queue's lookups of a trade fail in `OtherTrade` and `RepairFails`, and storing a mark may fail wherever the code catches it. |
| `AdmissionControl_proofs`, `SharedLimiter_proofs`, `ProviderAttempt_proofs`, `LlmJobStore_proofs`, `UnifiedCaller_proofs`, `OAuthRefreshLock_proofs`, `FileLimiter_proofs`, `ReconcileLedger_proofs` | theorems | section 5 |
| `MC*` | constants for TLC | section 3 |

`SharedLimiter` and `ProviderAttempt` compose through `LeasePool`: the first
shows that each scope of the table keeps its promise, the second relies on
nothing else. Both refinements (`ScopePools`, `WorkLimited`) are checked by TLC
and proved for all constants; `FilePool` and `LockMutex`, where a lock may be taken
from its holder, say the same of the files and of the refresh lock up to that point. Mutants (definitions commented as such) stand before the
definition they change; each shows that a property would notice that bug.

### Abstractions worth knowing

- *Time.* Timers may fire whenever they are armed; expiry, `openDurationMs`,
  `staleMs`, deadlines are events that may come at any moment. No property needs
  the length of an interval, and a stalled event loop makes any order possible.
- *A failing statement* either has no effect or has its effect and loses its
  answer, for inserts, updates and deletes alike (`StatementFails` of the job store
  comes before or after `Commit`). Renewals that fail change nothing that
  matters here (a renewal only keeps a live row live).
- *`rows[p].live`* goes from TRUE to FALSE only. An expired row cannot be renewed
  (`AND expires_at > NOW()`), it waits to be pruned, as in the table.
- *Refused attempts in the circuit.* A call's failure needs the provider to have
  been broken during the call (`doomed`); spurious failures are outages that end
  at once, so nothing is lost.
- *`LlmJobStore` bounds*: `MaxAttempts` executions, `MaxFaults` failing
  statements, `MaxCrashes` restarts. The code has no limit on attempts; the bound
  is also the assumption under which `JobEnds` can hold.
- *Client close while queued.* The waiter listens to the request's `close`. Since
  Node 16 this event belongs to the consumed body, not the connection, so it may
  have passed before the waiter exists. `Close` allows both outcomes.
- *`FileLimiter`.* One scope (the composite of scopes is `SharedLimiter`'s). Expiry
  of a lease or a lock is an event. Reading a lock and removing it are two actions,
  so a lock that is removed while its holder is in its section is a reachable
  state; `stolen` remembers it. Reading one's own lock back and removing it are one.
  Bound: the lock of a *living* holder expires only until a lock was stolen. The
  prune reads the clock once and a later expiry is not seen by it; here it is seen,
  which only prunes more. A renewal or a creation that dies between truncating and
  writing leaves a blank file. *Pids*: an owner counts as living while any program has
  its pid (`shared-limiter.ts:114-123`), one's own pid included; another program may get
  the pid of a dead owner (`PidTaken`), keep it for ever or end (`PidFreed`). A process
  itself is started once, and its calls end with it (`gone`); its successor after a restart is another process of `Procs`.
  Creating and listing the directory, and a loser's removal of its own owner file, are
  taken to succeed.
- *`UnifiedCaller`.* Cooldown and circuits are sets of what refuses calls now; what a
  circuit counts is `CircuitBreaker`'s. The legacy and profile chains walk like
  the selector's. Left out: a throwing guardian (ignored by the code), billing stop
  files, the reset at midnight, a restart.
- *`ReconcileLedger`.* Quantities are whole units, costs and prices are left out. A
  fill is named by the cumulative quantity its incident link carries. One signal;
  signals share nothing but the scheduler's order. `MaxFaults` bounds deaths, failing
  reads and failing writes together, and the repair queue, which has work only after a
  fault, may meet one more; one fault makes the lookups by id and by link both
  fail (`OtherTrade`), and the latest trade they fall back to is any of the order's,
  since the order of execution is not kept. Other writers of the position (new orders) are
  left out.

## 3. Runs

All bounds are in the `.cfg` and MC files. `CHECK_DEADLOCK FALSE` stands where
every call, request or job legitimately ends.

| Run | Bounds | Shows |
|---|---|---|
| `admission` | 4 requests (2 shared, 2 overflowing, one both), 1 slot, 2 places | `SlotAccounting`, `NoIdleSlotWhileWaiting`, `GoneOnlyUnheard` (a slot or a place is kept for a client that has gone only when it went before anybody listened), `GrantsInOrder`; `WaiterLeavesQueue`, `SlotReturned`. One holder, two waiters and one request turned away is the smallest instance where order, drain and overflow all happen. The safety part is proved for all limits. |
| `limiter` | 2 calls of one team, global limit 2, team limit 1 | Both calls search past an occupied slot, one is refused with a lease in hand and rolls back; faults, expiry and crashes anywhere. `OwnsUntilLapsed`, `CleanSettlement`, `ScopePools` (which has the limit in it), `LostLeaseNoticed`, `AcquireAnswers`. |
| `attempt` | 2 calls, 1 slot | `NoForgottenLease`, `PlainAnswerIsFinal`, `WorkKeepsSlot`, `WorkLimited`, `CallAnswered`, `SlotComesBack`. |
| `circuit` | 3 callers, threshold 2 | `CountMatchesState`, `Recovers`. Two failures open the circuit while a third call from before is still out. |
| `jobs` | 1 job, 4 runs, 3 executions, 2 faults, 1 restart | `OneExecution`, `NoOrphan`, `AttemptsCountCalls`, `OutcomeStands`, `JobEnds`. Jobs share nothing but the id-keyed `activeJobs`; a fifth run adds no state. The restart may come between the count of an execution and the execution: `AttemptsCountCalls` says that the count is then one too high, and at no other time. |
| `oauth_lock` | 3 processes and the janitor | `DirectoryIsTheLock`, `AcquireEnds`. One that leaves a directory and two that find it stale make the takeover race. |
| `files` | 2 processes with a call each and status queries, 1 slot, 1 release retry, every kind of failure | `OwnsUntilLapsed` (a lease of a living process is lost only by lapsing, unless a lock was stolen), `ElderRespected`, `SurvivorServed` (an election is lost only to an owner whose pid is in use, or for one's own blank file), `SlotReclaimed`. The second process prunes what it saw before the first took the slot anew, elections overlap, each process may die anywhere and leave its pid to another program. A second slot repeats the search and multiplies the states. |
| `caller` | 3 requests, 2 keys, a chain of two and one of one, one provider with two circuits, 2 refresh queries | `OneCallPerKey`, `OnlyLastFailureHidden` (backpressure hides no provider's failure but that of the last one asked), `NobodyPassedOver`, `EveryoneAnswered`, `LoggedCostsCounted`. Joining and following, cooling down and half-opening, one route passed by for another's full slot all occur. |
| `reconcile` | 2 runners, order of 2 over a position of 1, buy or sell, 1 fault, and 1 more in a repair | `AppliedOnce`, `LedgerAgrees`, `NothingSkipped`; `FillsApplied`, `JournalRepaired`. Two units give a partial fill and a sale cut to the position. The first fault leaves a mark, the second lets the repair of the row fail, or find another trade, as well. A mark that is taken back or written over counts as done, with or without its row: that case is `MarkStands` (`reconcile_marks`). |
| `jobs_restart`, `oauth_lock_crash`, `reconcile_marks` | as above; `reconcile_marks` with one runner and one fault | the disagreements of section 4: TLC finds the property violated |

### Fairness

- `AdmissionControl`: awaited queries, timers and handlers settle (each handler
  runs under the request's deadline). Nothing is assumed of clients.
- `SharedLimiter`: awaited statements settle, by success or error, and the
  renewal interval fires. No row has to expire and no holder has to release.
- `ProviderAttempt`: the function's own continuations run, the deadline fires, and
  a row nobody renews expires. Limiter, provider and release may hang for ever.
- `CircuitBreaker`: the clock runs, callers call, calls land. `SF(Success)` says
  that a provider that works does not answer every call with something that is not
  recorded (rate limit, limiter backpressure); without it recovery cannot happen.
- `LlmJobStore`: steps of the living process; no fairness on faults or crashes.
- `OAuthRefreshLock`: an acquiring process keeps trying and the clock runs; no
  holder has to finish.
- `FileLimiter`: synchronous code runs
  on (written without `ENABLED`: a process dies or moves for ever), expiry times pass, every process keeps being asked for its status (health checks
  poll it), and what is tried again and again does not fail every time: making a lock
  file, removing an expired lock, removing a lease file (`SF` on `LockTaken`, `Evict`
  and `Drop`, each over all processes). No call has to renew or release, any process may
  die. `SlotReclaimed` supposes that one process stays alive.
- `UnifiedCaller`: cache, store, limiter and provider answer (`CallAnswered` of
  `ProviderAttempt`; every wait is under the request's deadline), log inserts end, the
  guardian's interval fires, and not every refresh fails (`SF`). Nothing is assumed of
  cooldowns and circuits, nor that requests arrive.
- `ReconcileLedger`: a started runner goes on and is started again every minute;
  faults are finitely many; nothing is assumed of the exchange.

## 4. Disagreements found

With a run that shows the violation:

1. **Requeued jobs and restarts.** The retry is a timer in memory
   (`job-store.ts:293`); nothing looks for queued jobs at start, while clients are
   told that the Hub retries and not to resubmit
   (`docs/hub/EXTERNAL_LLM_INTEGRATION_GUIDE.md:22`). Run `jobs_restart`.
2. **Stale lock takeover.** Stat and removal are separate calls on a path
   (`refresh-lock.ts:205-211`, and the janitor's list and removal at `:110-158`): once a
   directory was left behind, by a death or a failed release, two that both saw it stale,
   contenders or janitor, remove it and what was made since, and two processes end up
   holding, against what `oauth-refresh-lock-smoke.ts:41` asserts. TLC's shortest trace
   has a failed release by a living process. Run `oauth_lock_crash`;
   `DirectoryIsTheLock` says that (slow work aside) this is the only way.
3. **Journal marks.** `markBinanceOrderPendingReconcileSignal` prefers the
   `journalPending` of the meta it was given, selected before the fill was applied, to
   the one the journal step has stored since (`pending-reconcile-ledger.ts:688-694`).
   A signal whose first partial fill left an older, repaired mark loses the new one
   and that journal row is never asked for again; the smoke test
   (`bots/investment/scripts/runtime-binance-order-pending-reconcile-smoke.ts:304-305`)
   asserts that the mark is kept, and exercises a signal without an older one. Run
   `reconcile_marks`, which needs a single runner.
Seen while modelling; the models take these steps, no run is spent on them:

- *Circuit.* `isCircuitOpen` returns false to everybody in HALF_OPEN
  (`local-circuit-breaker.ts:67`) where `docs/hub/LLM_HUB_ARCHITECTURE.md:117`
  promises one probe; the doubled cool-down of line 119 has no counterpart; and since
  `recordSuccess` asks `isCircuitOpen`, false in HALF_OPEN (`provider-registry.ts:51`),
  a probe that closes the circuit is reported neither as event nor as alert (line 118).
- *Requeued jobs and failing reads.* The trailing `return readJob` of the requeue
  branch may reject after the job was stored as queued, and the handler stores
  `failed` (`job-store.ts:294`, `241`), against `bots/hub/docs/LLM_ROUTING.md:205`.
  `OutcomeStands` says that it takes a failed statement.
- *Refresh lock.* When a stale directory cannot be removed, the acquirer tries again at
  once without looking at the clock (`refresh-lock.ts:206-211`): its timeout does not
  come. `AcquireEnds` excludes just this.
- *Admission.* A local slot is lost until a restart when a response closes while the
  cycle budget or the shared lease is awaited (`admission-control.ts:260`, the
  listeners come too late) and when the limiter call throws (`:146`).
  `GoneOnlyUnheard` says that nobody's close goes unnoticed who listened,
  `WaiterLeavesQueue` that waiters survive the loss.
- *File limiter.* A lock removed after it was read as expired may be another
  process's new one, so two processes can work on one slot (`:223`). An owner file
  left blank by a failed write has no start time and outranks everyone until that
  process's next call; two processes may refuse each other for a moment, and
  ownership may change while leases are held (the lease files still keep the limit).
  A death inside a renewal leaves a blank lease, which is pruned. Liveness is tested by
  pid (`:114-123`): the owner file of a dead process whose pid another program has, or
  the reader itself after a restart, is never removed and outranks every younger process
  for as long as the pid is in use. `SurvivorServed` says that nothing else about the
  dead costs a survivor its election.
- *Caller.* A request that waits for admission then calls a provider that has begun
  to cool or whose circuit has opened. When everything cools down and the last
  route's circuit is open, nothing is called, although
  `LLM_HUB_ARCHITECTURE.md:149` has the last route tried. A throwing adapter ends the
  chain without fallback. When the lease of a
  failed call cannot be released, the limiter's answer takes the place of the failure
  (`provider-attempt-admission.ts:312-332`) and the walk may end as backpressure, which
  asks the client to try the same again, although `unified-caller.ts:325` says that a
  failure "remains authoritative" once the provider was called; the circuit does not
  count it either, unless the work did not end at all. `OnlyLastFailureHidden` says that
  only the last provider asked can be masked so.
- *Guardian.* `checkAndReserve` reserves nothing and `trackCost` is called from
  nowhere, so concurrent calls all pass the same check (the operations guide,
  `docs/hub/BUDGET_GUARDIAN_GUIDE.md:30`, calls it a reservation). Calls from jobs, alarm
  interpreters and the planner do not reach the routing log, which the guide (lines
  7-8) says holds all costs; a failed insert loses one too. A team without a quota of its
  own has no total, so its default quota never applies. A slow refresh can put older
  totals back until the next one.
- *Reconciliation.* Two runners that see different fills of one order may over-apply:
  both deltas are counted from the same base, under different incident links, and the
  advisory lock does not recompute them (`pending-reconcile-ledger.ts:354-367`);
  `docs/HEPHAESTOS_L5_RECONCILE_RUNBOOK.md:7` of `bots/investment` says exactly once.
  The scheduler runs its jobs one after the other, so this needs a second start by
  hand or a surviving child; `AppliedOnce` states what holds without it. A death
  between commit and journal leaves a trade that is neither journaled nor
  marked, as does a mark that could not be stored (`:305-313`). When the lookups of a
  marked trade fail, the repair works on the latest trade instead and may clear the mark
  for it (`:138-151`). Canceled orders stay in the queue for ever. A failed pass writes the selected
  meta back over newer one.

## 5. Proofs

The theorems hold for every value of the constants that satisfies the `ASSUME`
of the module (limits are natural numbers, positive where the code sees to it; marker
values are not identities; calls of a provider are finitely many; the
scopes of a call are distinct). No other fact is assumed. They are checked
with `tlapm <module>_proofs.tla`. Each follows the same path: an invariant `IInv`,
`Init => IInv`, one lemma per action or group of actions for the step, and
`IInv => property`. The safety properties are seldom inductive alone; what each
`IInv` adds is where the argument lies.

| Module | Theorems | The invariant and why it is needed |
|---|---|---|
| `AdmissionControl_proofs` | `AdmissionTypeOK`, `AdmissionSlotAccounting`, `AdmissionNoIdleSlot`, `AdmissionQueueHoldsWaiting`, `AdmissionGrantsInOrder`, `AdmissionGoneOnlyUnheard` | The first three properties are only inductive together: `drainQueue` hands the slot to the head, which must be a waiter (`QueueHoldsWaiting`), and wakes at most one, which needs the exact counter (`SlotAccounting`) and a full gate (`NoIdleSlotWhileWaiting`). The finite set of holders lets the counter be counted; `ReleasedOnlyArmed` ties `released` to the two listeners. `AdmissionGoneOnlyUnheard` goes by steps: a close under a listener removes the waiter or releases the slot, and no later step, a grant by somebody else's release included, gives a place or a slot to an exchange that has closed and was heard. |
| `SharedLimiter_proofs` | `LimiterTypeOK`, `LimiterOwnership`, `LimiterCapacity`, `LimiterImplementsPools`, `LimiterCleanSettlement` | `Progress` (how many scopes a call has at each phase) and `LiveIsOwned`. Ownership survives foreign steps since an insert needs a free row and a delete its own `lease_id`, and survives the caller's own undo since its scopes are distinct. Capacity: the holders of a scope inject into its slots. Refinement: each statement changes the holders of a scope by at most one call, and an insert found a free slot. Clean settlement needs `RowsAccounted`: each row is a lease still counted on, or one whose release failed, unless an insert lost its answer. |
| `ProviderAttempt_proofs` | `AttemptTypeOK`, `AttemptWorkKeepsSlot`, `AttemptWorkLimited`, `AttemptNoForgottenLease`, `AttemptPlainAnswerIsFinal` | `Promises`, `Work`, `Said` relate, per call, the three promises to the place of the function and to what it answered; `WithinLimit` bounds the slots. A step of one call cannot disturb what is said of another. Busy calls are holders, so work that starts finds a slot free among the others. |
| `LlmJobStore_proofs` | `JobsTypeOK`, `JobsOneExecution`, `JobsAttemptsCountCalls`, `JobsOutcomeStands`, `JobsNoOrphan` | `Alone` (one run per job executes it or will look at it), `ActiveNamed` (`activeJobs` is exact), `FreshJobs` and `Newborn` (a job being created has no trace but the run that creates it), `Counted` (nothing stored or copied runs ahead of the executions by more than one, and not at all beside a run that is engaged and has not just counted). While nothing has failed the handler of a rejection is alone too (`ReadsCurrent`), hence what `updateJob` writes back is still current. `Told`, then, says what status the store has for a run about to mark, execute, requeue, finish or fail its job, before and after its write took effect, so that none of these writes meets an outcome; `Attended` that an unfinished job has somebody concerned with it. The steps are proved from two general lemmas, a run that moves on and a run that writes. |
| `FileLimiter_proofs` | `FileTypeOK`, `FileOwnership` (`OwnsUntilLapsed`), `FileWithinLimit`, `FileImplementsPool` (`FilePool`), `FileElderRespected` (`ElderRespected`), `FileSurvivorServed` (`SurvivorServed`) | `Fits`: what a process is doing agrees with what its call was told. While no slot lock was stolen (`Unstolen`): a process in its section has the slot's lock (`Holds`), what it read or wrote there still stands (`Knows`), a call's file is only where the call or its section says (`Placed`), and a lease that counts is there and written, unless its own process is renewing it (`Owned`). Blank files need their own case: a prune may remove one, so a renewal between truncating and writing is protected by the lock alone. Capacity follows: holders inject into the slots. The election has an invariant of its own (`Stands`): an elder still counted on stands, lives, and is unread or has already beaten the reader; it does not depend on locks, so it holds with stolen ones. Refinement: a step tells at most the call it serves and revives at most its lease (`WorkStanding`), so holders change by one; a newcomer found a slot free because with it the limit still holds; a death is a step of its own, which frees all its process held. `Unbeaten` follows each election on its own: while no other process lived and no pid of a dead one was in use since it began (`contested`, set where an election begins and where a pid is taken), nobody has beaten the process but through its own blank file; the theorem then only needs that a refusal is said by a process that was beaten (`OutrankedIsBeaten`). Failing renewals need `Torn` in `Owned`: a lease may be blank while its process stands between a failed write and the lock it gives back. |
| `ReconcileLedger_proofs` | `ReconcileInvariant`, `ReconcileTypeOK`, `FillsAppliedAtMostOnce` (`AppliedOnce`), `PositionFollowsTrades` (`LedgerAgrees`), `NoFillSkipped` (`NothingSkipped`) | While no two runners have settled different fills, everybody between fetch and commit saw the same quantity, and its base is at least all that was applied, or its fill is already linked and the transaction does nothing. `Covered` only grows, and whatever a runner carries as recorded, base or mark, in its own copy or about to be written, is `Covered`; so no stale write can claim what the trades do not have. A runner that works for the journal repair queue never carries a settled order (`Own`), so the trade it is turned to by a failed lookup claims nothing. Nothing here depends on the number of runners or faults. |
| `UnifiedCaller_proofs` | `CallerTypeOK`, `CallerOneCallPerKey`, `CallerOnlyLastFailureHidden`, `CallerNobodyPassedOver`, `GuardianNeverOverstated`, `CircuitTypeOK`, `CircuitCountMatchesState`, `CircuitOpensOnFailure` | For the caller `Shared` (the entry of a key names a call of that key, a follower has a leader), `Kept` (results and the answer are there from the plan to the settlement only), `Trail` (results lie in the order of the chain, what failed is among them, and behind a last word there are none) and `Owed` (a route that was free all along is still to be called, and never the one just asked, unless an answer has cut the chain, which then has nothing left). For the guardian `Behind`: its totals, and what each refresh under way has read, do not exceed the log, however the log has grown meanwhile. The total of all teams needs sums to be compared: `Total` is a recursive function over sets, and `SumsEquation` and `TotalMonotone` are proved by induction on the number of teams, from the library's well-foundedness of the naturals (a least counterexample), not from an induction theorem. The circuits' invariant ties state, count and the doomed calls in flight. |
| `OAuthRefreshLock_proofs` | `LockTypeOK`, `LockDirectoryIsTheLock` (`DirectoryIsTheLock`), `LockImplementsMutex` (`LockMutex`) | While nothing is slow: as long as nothing was left every directory has its maker at work and is fresh, so nobody is ever about to remove one (`Tidy`); as long as nobody was robbed every process at work has its directory (`Held`), through deaths and takeovers; and robbing takes something left. A process makes the directory only when there is none, hence when nobody holds. |

Several hold beyond the instance TLC runs in a way that matters: `Limit` and the
number of scopes and calls of the limiter are free, as are the number of runs,
faults and restarts of the job store, the processes, slots and retries of the file
backend (`MCFileLimiter` has one slot and one call per process), the requests, keys,
routes and teams of the caller, and the runners, the order's size and the
faults of the reconciliation. Theorems about definitions no run checks
(`AdmissionQueueHoldsWaiting`, `LimiterCapacity`, `FileWithinLimit`,
`FileImplementsPool`, `LockImplementsMutex`, `GuardianNeverOverstated`,
`CircuitOpensOnFailure`, the type invariants) rest on the proof alone. `CircuitOpensOnFailure`
tells what the caller's model takes for granted of its circuits: none begins to refuse
but when a failure comes back.

Every safety invariant and action property of a passing run is stated by a theorem.
Proving some of them changed them. `DirectoryIsTheLock` once supposed that no
process ever dies; the proof only needs that none leaves its directory and only for
part of the conclusion.

Only model-checked: every liveness property (`WaiterLeavesQueue`, `SlotReturned`,
`LostLeaseNoticed`, `AcquireAnswers`, `CallAnswered`, `SlotComesBack`, `Recovers`,
`JobEnds`, `AcquireEnds`, `SlotReclaimed`, `EveryoneAnswered`, `LoggedCostsCounted`,
`FillsApplied`, `JournalRepaired`), since the prover has no fairness or ENABLED.

## 6. Not modelled

- *Unified caller*: what an answer says beyond its kind, the cache's contents, how a
  chain is selected, the deadlines' lengths.
- *Budget guardian*: alarms at 80 and 100 per cent, stop files, midnight.
- *Luna's reconciliation*: candidates without order keys (they go to an operator at
  once), costs and quote conversion beyond its failure, strategy state, KIS and Hanul
  brokers, and the executor that enqueues.
- *Within the modelled files*: memory and file stores of the jobs, latency statistics
  of the circuit, diagnostics and metrics, parsing of limits from the environment,
  reading of lock metadata. None changes the state modelled.
- *The remaining components* of section 1 and `PROJECT.json`, each with its reason.
  The elixir processes, dashboards and most team bots are supervision, prompting and
  I/O; what they share with others goes through the Hub.

## 7. Plan

Proofs: an abstract gate that grants in arrival order, implemented by
`AdmissionControl`; an abstract walk over a chain, implemented by `UnifiedCaller` (each
route at most once, in order, the first answer wins).

Modules:

1. `TokenStore` over `OAuthRefreshLock`: read, refresh, write; the newest token
   survives, also when the lock does not hold (disagreement 2).
2. `PublishQueue` (blog): claim, publish, retry; no double publication, and the
   window between publishing and recording it.
3. `JayIncidents` and `CommanderDispatch`: claims with expiry, retries, callbacks.
4. `AlarmRepair`: dedupe windows and one repair per incident.
