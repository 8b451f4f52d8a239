# Verification of examplehr-timeoff

TLA+ models of the time-off service (`src/apps/timeoff-api`), of the mock HCM it talks to
(`src/apps/hcm-mock`), of the queue between them and of the pages in front of them
(`src/apps/frontend`), checked with TLC on small instances; and TLAPS proofs, for instances of
every size, of the safety of each part and of the refinements between them.

Paths below are relative to the repository; `A/` abbreviates `src/apps/timeoff-api/src/`, `H/`
abbreviates `src/apps/hcm-mock/src/` and `F/` abbreviates `src/apps/frontend/src/`.

## 1. The system

An employee asks for days off. The API writes the request, a movement that reserves the days
and an outbox entry in one transaction. The worker, which is a second process over the same
database, hands the entry to a BullMQ queue and runs its handler: it reserves the days in the
HCM, the system of record for balances, and moves the request on. A manager approves or
rejects, the employee may cancel, and a second handler confirms or releases the hold. The HCM
changes balances on its own and pushes them over webhooks.

### Components, their state and their operations

| Component | Source | State it keeps | Operations |
|---|---|---|---|
| Request saga | `A/workers/hcm-saga.processor.ts`, `A/modules/requests/` | `TimeOffRequest.status` and `sagaState`, the movements of a request, a run's local variables | create, approve, reject, cancel, forceFail; handleReserve, handleConfirm, handleCompensate |
| Balance arithmetic | `A/modules/balances/domain/balance-calculator.ts`, `A/modules/requests/domain/request-validator.ts` | none | computeRawAvailable, computeAvailable, assertSufficient, computeDays |
| Outbox | `A/modules/outbox/` | `OutboxEntry.status`, `nextAttemptAt`, `updatedAt`; the batch of the running tick | enqueueInTx, tick (claim, add one by one), reap |
| Queue | BullMQ in Redis (external) | waiting list, active jobs and locks, stalled counters, completed and failed jobs | add, take, settle, stalled-job check |
| HCM and its client | `H/`, `A/modules/hcm-client/hcm-http.adapter.ts` | a total per balance, a hold per reservation, a queue of injected failures | reserve, confirm, release, getBalance; seed, reset, injectFailure |
| In-memory adapter | `A/modules/hcm-client/hcm-in-memory.adapter.ts` | totals, reservations and failures of its own | the same, inside the API's process |
| Reconciliation | `A/modules/reconciliation/` | `Balance.totalDays`, `version`, `hcmLastSeenAt`, HCM_REFRESH movements, RECONCILE jobs | realtime, batch (split in chunks), applyChunk |
| Access control | `A/shared/auth/`, `A/modules/requests/requests.controller.ts` | the caller's headers, what a call has read so far | guards, ownership and team checks |
| Employees | `A/modules/employees/` | `Employee.role`, `managerId` | seed, create, patch, delete |
| Balance reads | `A/modules/balances/balances.service.ts` | the rows read by the first of two selects | listForEmployee |
| Health checks | `A/modules/health/health.controller.ts` | a Redis client shared by all calls, the three probes of a call | readiness |
| Frontend | `F/pages/`, `F/api.ts` | the lists a page fetched last, the mutations under way | submit, approve, reject, cancel, forceFail, seed, push, one-click setup |
| Bootstrap and infrastructure | see section 8 | none | not modelled |

### How they interact

* API and worker share the database (SQLite through Prisma, transactions one at a time) and
  nothing else. Outbox rows are their only channel, at least once.
* The worker calls the HCM synchronously, *outside* its transaction: it reads the saga state,
  calls, and then commits what follows from the answer. Ten handlers run at once
  (`hcm-saga.processor.ts:26`).
* The pages poll the requests every two seconds and send a call per click, to the API and, from the
  administrator's page, to the HCM. Nothing ties a click to the state the API is in when the
  call arrives.
* A readiness call asks the database, Redis and the HCM at once; the question to the HCM is an
  ordinary `getBalance` and uses up injected failures.
* The HCM pushes balances to the API. Realtime rows are merged at once; batches become
  RECONCILE jobs in the same queue, added directly and not through the outbox.

### What is hard here

* **Check, call, commit.** Handlers do not look at the saga state again when they commit.
  Force-fails, other runs and webhooks happen in between.
* **At least once.** A job may be run again after a crash, beside a run that lost its lock, or
  after Redis forgot it, since outbox rows are never marked as finished.
* **The HCM acts, the answer is lost.** Locally this looks like an outage.
* **Failures do not retry.** No `attempts` are configured.
* **Order.** Pushes, batches and the totals that confirms read arrive in any order.
* **Checks of a call** (who manages whom) and its act are separate transactions.
* **Two selects.** What an employee is shown is computed from rows read at two moments.
* **Late and repeated clicks**, and a setup that is cut off between the two systems it fills.
* **Shared clients.** Concurrent readiness calls meet one connection in any of its states.

### What makes each part correct

| Part | Properties |
|---|---|
| Request saga | status and saga state agree; a reservation is released exactly once, by the transaction that ends the request; one decision; what is over stays over; local state and hold in the HCM agree; the HCM is never overdrawn; jobs and decisions settle; users see only the documented state machine |
| Outbox and queue | every committed entry is run to an end; one lock holder at a time; commit order; no repetition of what completed while Redis knows it |
| Reconciliation | a row is always one state the HCM was in; the newest push wins; repeats leave no trace; the audit trail explains the total; a completed job left no row out |
| Access and employees | who decides was entitled to; teams are made of employees |
| Frontend and balance reads | who is told that his decision was accepted is the only one; the setup never leaves a balance in the API that the HCM does not know; what a torn read shows is explained by approvals committed in between |
| Mock and in-memory adapter | the mock does nothing the HCM of the saga's model may not; a test that passes with the adapter has seen the totals, holds and failures of the mock |
| Health checks | every readiness call is answered; Redis is reported down by an error for a reason |

The hazards behind these properties are listed line by line in `PROJECT.json`.

## 2. The modules

| Module | Extends | Uses by INSTANCE |
|---|---|---|
| `Ledger` | | |
| `HcmMock` | `Ledger` | |
| `TimeOffSaga` | `HcmMock` | `JobChannel` |
| `TimeOffProperties`, `TimeOffInvariant`, `TimeOffClaims` | `TimeOffSaga` | `RequestLifecycle` |
| `SumTheorems` | library modules only | |
| `TimeOffProofs`; `TimeOffHoldProofs` | `TimeOffInvariant`; `TimeOffProofs`, `SumTheorems` | |
| `TimeOffClient`, `TimeOffClientProperties` | `TimeOffSaga`, `TimeOffProperties` | |
| `TimeOffClientProofs` | `TimeOffClientProperties`, `TimeOffHoldProofs` | |
| `Outbox`, `OutboxProperties`, `OutboxProofs` | each the one before | `JobChannel` |
| `Reconciliation`, `ReconciliationProperties`, `ReconciliationProofs` | each the one before | `JobChannel` |
| `Access`, `AccessProperties`, `AccessProofs` | each the one before | |
| `HcmStore`, `HcmInMemory` | `HcmMock`, `HcmStore` | |
| `Health` | `HcmStore` | |
| `Services`, `ServicesProperties`, `ServicesProofs` | `HcmInMemory` and `Health`; each the one before, the last `SumTheorems` too | |

The `MC` modules give the constants of a run their values: `MCTimeOffSaga`, `MCTimeOffClient`,
`MCOutbox`, `MCReconciliation`, `MCAccess`, `MCServices`.

* **`Ledger`**: movements and balance arithmetic. All movements of a request carry its days, so
  the rows of a request are kept as a number of rows per type; `NetOf` is the sum of their
  deltas. Dates are reduced to a number of days, at least one, as `computeDays` yields.
* **`HcmMock`**: the HCM as the mock implements it, each call one step with a reply. `Faults`
  is the set of failures that may strike any call: `unavailable` (5xx before acting),
  `lost` (acted, answer lost), `invalid` and `insufficient` (rejected although it fits),
  `silent_accept` (accepted although it does not fit), `db` (a failing local transaction).
  `confirm` deducts on every call and `reserve` counts an earlier hold of the same request,
  as `hcm.store.ts` does.
* **`JobChannel`**: the abstract specification of the outbox *and* the queue: what a handler may
  rely on. Jobs are queued, active under a lock, completed or failed; a stalled job is put back
  once; a job that Redis forgot may be sent again.
* **`TimeOffSaga`**: the core. One action per API operation; a handler is a run in a worker slot
  with one step per database read, HCM call and transaction, so that anything may happen
  between them. It composes `HcmMock` (extended) and `JobChannel` (an instance).
  Steps of a run: `startJob` (the guard on the saga state); `reserveCall`, `reserveCommit` or
  `failRequest`; `confirmCheck`, `confirmCall`, `getBalanceCall`, `confirmCommit`;
  `releaseCheck`, `releaseCall`, `compensateCommit`; `databaseError`; `endJob`.
  Disturbances: `crash` of the worker, `recoverOrphan`, `lockExpires`, `redisForgets`.
* **`RequestLifecycle`**: the abstract specification users and `saga-state-machine.ts` have in
  mind: a decision, once taken, is the way the request ends. A force-fail or an overlap voids
  the promise for its request (`Void`), and leaves the promise made for the others.
* **`TimeOffProperties`**, **`TimeOffInvariant`**, **`TimeOffClaims`**: the properties, the
  inductive invariant, and statements of docs, comments and tests that the code does not keep.
* **`Outbox`**: the table, `claimBatch`, the tick that adds its rows one after the other, the
  reaper, and BullMQ with its waiting list, bounded completed set, locks and stalled counters.
  It is shown to implement `JobChannel`, which is what entitles `TimeOffSaga` to use that.
  Time is counted in polls: a row dispatched `StuckAfter` polls ago is older than
  `OUTBOX_STUCK_MS`.
* **`Reconciliation`**: realtime and batch pushes, the split into chunks, the row-by-row merge
  (`decideMerge`), and the total a confirm run read before and writes after. The chunks are jobs
  of `JobChannel`, run in worker slots: `startChunk` begins with the first row whatever an earlier
  run has done; `applyChunk` is one transaction; `chunkEnds` and `chunkFails` settle the job, unless the run
  has lost its lock; `lockExpires`, `crash` and `recoverOrphan` put it back once and fail it for good the
  second time. A job that Redis loses is to the rows one whose add failed; it is never sent again,
  as it has no outbox entry.
* **`TimeOffClient`**: the pages beside the saga. A page fetches a list and offers buttons for
  its rows; a click sends a call with what was fetched then; the call is served later, refused
  or lost, and so may its answer be. The server's side of a call *is* an action of `TimeOffSaga`.
  `listForEmployee` is its two selects. The forms (`submit`, `seed`, `push`) use nothing that
  was fetched and are served when they are sent.
* **`HcmStore`**: the mock with its queue of injected failures, which the first call of an
  operation consumes, whatever its kind means to it. It is shown to do what `HcmMock` allows.
* **`HcmInMemory`**: the adapter that stands in for the mock in tests, with state of its own.
* **`Health`**: readiness calls under way at once, each with three probes and a timer for the one
  of Redis; the client they share connects lazily, refuses a second `connect()` while it is
  connecting and refuses commands until it is connected. The client library and Redis are external.
* **`Services`** composes the last three: mock and adapter are given the same calls, seeds, resets
  and failures, and the probes ask the mock. `Scopes` bounds what of this happens together.
* **`Access`**: an API call as its sequence of reads followed by the act, for decisions and for
  writes to employees. The saga itself is shortened to the stages that decisions depend on.

`Ledger` and `HcmMock` are state without a specification of their own; their operations become
steps where `TimeOffSaga` uses them.

### Correspondence of state

| Model | Code |
|---|---|
| `status[r]`, `saga[r]` | `TimeOffRequest.status`, `.sagaState` |
| `moves[r][t]` | number of `TimeOffMovement` rows of type `t` with `requestId = r` |
| `total[b]`, `hcmTotal[b]`, `hold[r]` | `Balance.totalDays`; `HcmStore.balances`, `HcmStore.reservations` |
| `event[<<r, n>>]`, `job[<<r, n>>]` | the n-th outbox entry of `r`: its type, and where its job is |
| `pc[w]`, `task[w]`, `snap[w]` | where the run in slot `w` is, its job's data, its `hcmBalance` |
| `row`, `age`, `order` | `OutboxEntry.status`, `updatedAt`, the order by `nextAttemptAt` |
| `batch` | `entries` of the tick, as far as they are not added yet (a set: they are added in `order`) |
| `local[b]`, `refreshed`, `refreshes` | `totalDays` with `hcmLastSeenAt`; sum and number of HCM_REFRESH rows |
| `chunk[j]`, `task[w]`, `next[w]` | `job.data.rows`; the job a slot runs and the position of its loop over the rows |
| `buttons[p]`, `calls`, `read[b]`, `shown[b]` | a page's `reqQ.data`, the mutations under way, `rows` of the first select with what is needed to judge it, `balQ.data` |
| `failures`; `memTotal`, `memHold`, `memFailures` | `HcmStore.failures`; the three maps of the adapter |
| `client`, `reach`; `db[p]`, `redis[p]`, `hcm[p]` | `redis.status`, whether Redis answers; the three promises of a readiness call |
| `known`, `role`, `manager`, `session`, `call` | the Employee row, its columns, the headers a browser sends, the local variables of a controller method |

`forced`, `overlapped`, `rerun`, `last`, `snaps`, `applied`, `since`, `before`, `synced`, `decider`,
`entitled`, `told`, `astray`, `eaten`, `steady`, `crossed` are history variables: no guard reads
them, properties do. (`last` also tells the refinement mapping of `Outbox` what became of a job
that Redis forgot.)

The operators commented "Mutant" are variants with one plausible mistake; they are used in no
specification and record which mistake each property catches.

## 3. The runs

All runs switch deadlock checking off: a system without requests left to serve, jobs left to
run and disturbances left to happen rightly stops.

| Run | Instance | What it shows |
|---|---|---|
| `saga_force` | 2 requests (1 and 2 days) on one balance of 2 or 3, 2 slots, outages and lost answers; any two of a crash, a force-fail, a change by the HCM | types; `LedgerInv` (the invariant of the proofs); status and saga agree; the ledger is balanced; holds follow the saga; the HCM is not overdrawn; the totals of API and HCM differ by the approval under way; the saga implements `RequestLifecycle` |
| `saga_redelivery` | 1 request, 2 slots, 3 entries, outages, lost answers and database errors; any two disturbances of all kinds | the ledger, the single decision and the finality of the request without overlap and force-fail, in the company of both; jobs settle; a decision reaches TERMINAL or leaves a failed job |
| `client` | 1 request, 1 balance, 1 slot, 2 calls in flight; any two of a force-fail, a change by the HCM, a push | who is told that his decision was accepted is the only one and was told the truth; the one-click setup pushes no balance the HCM lacks; a torn read is explained |
| `outbox` | 2 entries, 1 slot, batches of 1, one completed job kept, 2 disturbances of any kind | `Outbox` implements `JobChannel`; commit order; nothing that completed is repeated; every entry is run to an end |
| `reconciliation` | 3 balances, 1 change and its push, a batch in 2 chunks sent up to twice, 2 slots, 2 disturbances of any kind, the second batch being one | newest push wins, rows are states of the HCM, movements explain totals; a push delivered again, a chunk run again or beside another run and a batch sent again after its first sending was cut off leave no second movement; completed jobs are complete |
| `services` | 2 requests on one balance with every kind of failure queued, a readiness call among the calls it shares failures with, or 2 readiness calls | `HcmStore` implements `HcmMock`; mock and adapter agree in state and answers; readiness calls are answered; Redis is not reported down by an error without a cause |
| `access` | the seeded organisation and one employee to be hired, 1 request, 2 calls at once, 1 change of an employee | who decides was entitled to; teams are made of employees |
| `claim_sticky`, `claim_net_zero`, `claim_replay`, `claim_retry`, `claim_settled` | 1 or 2 requests, the one disturbance needed | counterexamples to what the repository says, section 7 |

### Bounds, and why they are enough

* *Two requests on one balance* are the least that compete for days and race in confirms; the
  days (1 and 2) against totals of 2 or 3 give both "fits together" and "does not".
* *Two slots* are the least for two runs, of different requests or of one job. More slots add
  no pair of steps that two do not have.
* *Disturbances* occur at most `Budget` times per kind and `MaxDisturbances` times in all: one
  per kind and any two of the kinds named, so that every pair meets. One crash is enough to
  strike each run at each step; a second only uses up `MaxStalled`, which one crash plus one
  expired lock also do in `outbox`. Faults of calls are not counted: any call may fail, any number
  of times.
* *Totals* (`InitialTotals`, `Totals`): the HCM starts with enough for one request or for both, and
  changes to less than either needs (`saga_force`) or to more (`saga_redelivery`).
* *`MaxEntries`*, a request's outbox entries, is 2 where the code writes no third and 3 in
  `saga_redelivery`, where overlapping runs may reopen a request that is then decided again.
* *`outbox`*: with batches of 1 and one completed job kept, two entries already overtake
  and evict each other. Ticks between two re-armings (`StuckAfter`) are as many as the rows, so
  that none starves; with fewer the newest row may starve (section 7).
* *`reconciliation`*: a batch of three balances is a full chunk and a rest, which race with each
  other and with the realtime pushes; a merge compares two snapshots, so one change gives every
  order of old, new and repeated rows. The change falls on the same millisecond or on a later one.
  Two disturbances are two stalls, which exhaust `MaxStalled`, a stall that crosses a confirm or a
  repeated push, or a batch of which some chunks were not added and which is sent again. Balances
  do not meet in a merge, so one of them (`Changing`) changes and is pushed: the first row of
  the chunk of two, which a run that is cut off leaves merged and merges again. `Orders` has one order,
  as the other balances are alike.
* *`client`*: `MaxCalls` is 2: a click that crosses another, or the same click twice. A third call
  meets what the first two left behind, which one of them then is. The balance is either absent in
  both systems, so that the setup matters, or has 2 days for a request of 1 day, and `SetupTotal`
  is 2 as well. `ShownIsExplained` speaks of balances on which one approval was committed and no
  push or change came, as with more the difference may be anything.
* *`services`*: `Scopes` takes three questions apart that share no state: all calls of the HCM
  (`calls`) with all failures (`failures`), at most two `queued`; one readiness call (`probes`)
  with the calls and failures of `getBalance`; two readiness calls with the Redis client. Two
  failures are the least whose order matters; two readiness calls the least that share a client.
  Balances start without a row, `Totals` is 1 and requests are of 1 day, so that the two do not fit
  together; nothing is confirmed from a total of 0 (`Exhausted`), or totals would fall for ever.
* *`access`*: one change of an employee, at any point of two calls; a second call makes the change.
  Sequences of several changes are not covered.

### Fairness

* `saga_redelivery`: weak fairness of starting a waiting job in some slot, of each run's next step
  and of recovering an orphaned job. BullMQ gives out waiting jobs whenever a slot is free; a
  call to the HCM returns or times out; BullMQ repeats its stalled-job check.
  Users, administrators, the HCM and disturbances owe nothing: a request may stay
  AWAITING_APPROVAL for ever, and the HCM may fail every call.
* `outbox`: weak fairness of the two timers (`setInterval`), of a free slot and a run, and of the
  stalled-job check.
* `services`: weak fairness of the timer of the Redis probe, of the answers of the database and of
  the HCM client (which has a timeout of its own) and of the report. The database is asked without
  a timer and assumed to answer; Redis owes nothing.

Without the disturbances being bounded, no liveness property of the jobs could hold: a worker that
dies before each end of a job fails it at the second stall, and one that dies in every tick
adds nothing.

## 4. What the safety properties exclude, and why

Two things undo what the handlers promise, and the properties name them request by request.

* A **force-fail** refuses no state, tells the HCM nothing, and does not stop runs under way.
  `LedgerBalanced`, `HcmAgrees`, `TerminalIsFinal` speak of requests that were not force-failed
  (in runs in which the others are). `StatusMatchesSaga`, `OneDecision` and `HcmNeverOverdrawn`
  hold for force-failed requests as well.
* An **overlap**: a job handed out again while a run of it goes on (expired lock, Redis emptied).
  Both runs have passed the guard and both commit. `HcmAgrees` also excludes jobs that were
  run again after a crash or a failure, since `confirm` is not idempotent (section 7).

In `Reconciliation`, a confirm may write an older snapshot over a newer one, and pushes older than one
that was merged are then merged again (section 7). `NewestWins` and `OneRefreshPerPush` do not leave such balances out:
they speak of the rows merged `since` it happened, so a later merge of the newest push must restore
the row, and a push taken again must be counted once. Of two changes within one millisecond, which the
code cannot tell apart, `NewestWins` demands one. `LocalIsSnapshot` and `RefreshesExplainTotal` hold
whatever confirms write, and therefore do not notice that a row went back. `FinishedChunksMerged` is
about jobs that BullMQ shows as completed: a job that failed, because a transaction did or because it
was found stalled twice, leaves the rows behind it unmerged until the HCM pushes them again.

In `TimeOffClient`, `ToldIsOutcome` has the same two exceptions. `RowsKnownToHcm` leaves out the
total an administrator types into the push form, and `ShownIsExplained` looks at balances with
one approval and no push: it is about the two selects and not about who else writes totals.

In `Services`, `TwinsAgree` stops where the mock silently accepts a reservation on a balance that
it does not have (`astray`), and leaves out failures of `getBalance` once a readiness call has used
one up (`eaten`). `DownHasCause` leaves out calls that came while the client was connecting
for another.

In `Access`, a manager is required to have managed the owner *at some moment of the call*.
That he still does when the decision is written is more than the code ensures: `approve` reads
the manager (`requests.controller.ts:80`) and decides in a later transaction. The role is the
one in the headers; no check compares it with the table.

## 5. What is proved

Each theorem is about the specification its module checks, for any values of the constants that
satisfy the assumptions: finite or infinite sets of requests, balances, slots, entries, employees
and pages, any totals, faults and budgets. TLC evaluates every `ASSUME` in a run.

| Module | Theorem | Statement |
|---|---|---|
| `TimeOffProofs` | `TypeCorrect` | `Spec => []TypeOK` |
| | `LedgerInvariance` | `Spec => []LedgerInv` |
| | `StatusAgreement` | `Spec => []StatusMatchesSaga` |
| | `LedgerBalance` | `Spec => []LedgerBalanced` |
| | `SingleDecision` | `Spec => []OneDecision` |
| | `TerminalStays` | `Spec => TerminalIsFinal` |
| | `SagaIsLifecycle` | `Spec => LifecycleSpec` |
| | `DecisionsStand` | `Spec => []DecisionStands` |
| `TimeOffHoldProofs` | `HoldsAgree` | `Spec => []HcmAgrees` |
| | `NeverOverdrawn` | `InitialTotals \subseteq Nat \cup {NoRow}` implies `Spec => []HcmNeverOverdrawn` |
| `TimeOffClientProofs` | `ClientImplementsSaga` | `ClientSpec => Spec` |
| | `RowsKnown` | `ClientSpec => RowsKnownToHcm` |
| | `ToldTheOutcome` | `ClientSpec => []ToldIsOutcome` |
| | `ClientTypeCorrect` | `IsFiniteSet(Requests)` implies `ClientSpec => []ClientTypeOK` |
| | `BooksAgree` | `IsFiniteSet(Requests)` implies `Spec => []BooksInv` |
| | `ShownExplained` | `IsFiniteSet(Requests)` implies `ClientSpec => ShownIsExplained` |
| `OutboxProofs` | `OutboxTypeCorrect`, `OldestAddedFirst` | `Spec => []TypeOK`, `Spec => []OldestFirst` |
| | `CompletedStays` | `Spec => CompletedNotRepeated` |
| | `OutboxIsChannel` | `Spec => ChannelSpec` |
| `ReconciliationProofs` | `ReconciliationTypeCorrect`, `RowIsOneSnapshot`, `AuditTrailAddsUp`, `PushesAreIdempotent`, `NewestPushWins`, `NoRowLeftOut` | `Spec => []` of `TypeOK`, `LocalIsSnapshot`, `RefreshesExplainTotal`, `OneRefreshPerPush`, `NewestWins`, `FinishedChunksMerged` |
| `AccessProofs` | `AccessTypeCorrect`, `DecisionsEntitled`, `TeamsStayIntact` | `Spec => []` of `TypeOK`, `DecidedByEntitled`, `TeamsIntact` |
| `ServicesProofs` | `MockIsHcm` | `Kinds \subseteq Faults` implies `ServicesSpec => StoreImplementsHcm` |
| | `RedisDownHasCause` | `ServicesSpec => []DownHasCause` |
| | `ServicesTypeCorrect`, `TwinsAlwaysAgree` | `ServicesSpec => []ServicesTypeOK`, `ServicesSpec => []TwinsAgree` |
| | `TwinsAnswerAlike` | `ServicesSpec => SameAnswers` |

The assumptions: `LedgerAssumption` (each request has a balance and at least one day),
`HcmAssumption`, `SagaAssumption`, `ClientAssumption`, `OutboxAssumption`, `SentinelAssumption`,
`AccessAssumption` (sentinels are no values, bounds are numbers; at least two entries per request;
batches and the completed set hold at least one), `ReconciliationAssumption` (a push has finitely many
rows, chunks hold at least one), `ServicesAssumption` (totals seeded are numbers). Two hypotheses stand
in the theorems that need them: `NeverOverdrawn` assumes that the HCM starts with no negative total,
without which `HcmNeverOverdrawn` is false at the start; `ClientTypeCorrect`, `BooksAgree` and
`ShownExplained` assume that `Requests` is finite, without which the days a query adds up are no number.

### Sums

`SumTheorems` has the laws of a sum over a finite set (`MapThenSumSet`, which the model uses for
the days of requests, and through which the library defines the cardinality of a bag): an element is
added or removed, a term changes, the terms are natural numbers. The library's induction theorems
take an operator as a parameter, which the provers cannot instantiate; so each law is proved by its
least counterexample: the sizes of the subsets for which it fails are a set of numbers, which, if
not empty, has a least element (`LeastNumber`, from the library's `WFMin`). The recursion behind the
sum is a `CHOOSE`, so that there is such a function is proved the same way first (`RecursionExists`).

### The saga

The inductive invariant is `TypeOK /\ LedgerInv`. `LedgerBalanced` alone is not inductive:
`compensateCommit` writes CANCELLED whatever the saga state is, so one has to know that the run
still finds the request where the guard at its start found it. That is `SnapshotsFit`: the saga
state of an undisturbed request with a run under way is the one its event expects. It is kept
because nobody else can move the request meanwhile:

* an API decision needs AWAITING_APPROVAL, which no handler expects;
* another run of the *same* job would have to hold the lock that this run holds (`RunsFit`, `LocksFit`);
* another run of *another* job of the request is excluded because jobs other than the first are
  written only by decisions (`EntriesFit`), a request still RESERVING or AWAITING has
  one entry, and an undisturbed one never has more than two (`DecisionsFit`).

Each action then has one lemma (`LedgerCreate`, `LedgerDecision`, `LedgerForceFail`,
`LedgerStart`, `LedgerEndingRun`, `LedgerReserved`, `LedgerEnd`, `LedgerQueue`, `LedgerCrash`,
...), with shared lemmas for steps that write only run variables or only the queue.
`OneDecision` is a conjunct of `DecisionsFit`. `TerminalStays` follows from
`SnapshotsFit`: a run that could write to a TERMINAL undisturbed request does not exist.

`SagaIsLifecycle` maps the decision of a request to its second outbox entry. An API operation
is the abstract step of its name; the commit of a run is one because `SnapshotsFit` says in which
saga state it finds the request and `EntriesFit` that the entry it works on is the decision; a
step on a request that was force-failed, or that starts a second run at once, is `Void`.

`HoldsAgree` adds `HoldsInv`: what the hold is at each step of a run (between the call of the HCM
and the commit it is already what the run will write down), that a job still to be run will find
it as its handler expects, and that a job that is over has moved the saga on, so that the guard
stops any run after it. Lost answers and refusals leave a failed job behind and the hold as
`HoldsOf` allows. Jobs run again are excluded (`Calm`), as `confirm` deducts each time.

`NeverOverdrawn` needs to know of a balance only the saga uses that what is *held* fits what is left
(`FundsInv`): a confirmation turns held days into deducted ones, so that `hcmTotal[b] >= 0` alone is not
inductive. That a confirmation deducts only days that were held is `OnceInv`: a job that was not run
again calls `confirm` once (`ConfirmsOnce`), and finds the hold taken. The holds of a balance are
finitely many at any time, also if the requests are not, which makes their sum a number. Force-fails
leave a hold behind, which only keeps days unused, and lost answers change nothing, as the HCM
checks what it held itself.

`DecisionsStand` shows what an abstract specification is worth: it is proved of `RequestLifecycle`
(`LifecycleKeepsDecisions` looks at its few actions only) and holds of the saga because the saga
implements it. `ToldTheOutcome` uses it: a call that was accepted has written the second outbox entry
of its request (`ToldFits`, `ServedDecision`), which is the decision that stands, and nobody writes
another (`OneDecision`).

`BooksAgree` relates the two totals of a balance. That they are equal is not inductive: between the
call of `confirm` and the commit the HCM has deducted what the API has not. So `BooksInv` says that the
API's total is the HCM's plus the days of the approval in between (`Lag`), and that the total a run has
read for its commit (`snap`) is still the HCM's. It speaks of balances of which the HCM has deducted one
request and which nobody else changes: with two, the older total may be written last (`claim_settled`).
It rests on `ApprovalsInv`: the hold of a request whose jobs are not run again becomes `confirmed`
by the run of its second entry only, its CONFIRMED movement is written by that run only, and
APPROVED is written with the movement, force-failed or not. Force-fails only release days locally.
That the available days are not negative once a request was made is part of it, since `create` and
the defensive check are the only guards of the local books and a negative number would be shown as none.

`ShownExplained` follows the two selects of a balance query. What the first has read is the present
total plus the days approved since (`ReadFits`); at the second the movements are those of now. So the
raw number is what is available plus the days approved in between. Cutting it off at zero
(`computeAvailable`) changes nothing of that difference, as with an approval in between the days available
are not negative (`BooksInv`).

`ClientTypeCorrect` counts the calls in flight: the cardinality of a bag is a sum over its
elements, so that adding and removing a call are the laws of sums (`BagAddOne`, `BagRemoveOne`).

`ClientImplementsSaga` needs only that each call in flight is for a request of the model: serving
it *is* an action of the saga, everything else the pages do leaves the saga alone. So every theorem
of the saga holds beside any number of pages, lost calls and double clicks. `RowsKnown` adds that a
run about to commit a confirm has been answered by an HCM that has the row (`CommitsFit`), and that
a setup's push follows the seed it awaited (`SetupsFit`); no step takes a row of the HCM away.

### Outbox and queue

`TableInv` and `RedisInv` say that each list holds exactly the entries in its state, each once,
within its bound, and that a locked job is active; `FreshInv` that Redis knows nothing that is not
committed. With them each step is one of `JobChannel` or a stutter: adding an entry that Redis
knows changes nothing, which is where at-least-once delivery meets the job ids. As the saga
uses only `JobChannel`, its theorems hold over the outbox. `OldestAddedFirst` needs `OrderInv`:
claimed rows and added rows are each a prefix of the order of commits as long as no tick dies, no
add fails and Redis keeps its memory. `CompletedStays` follows from the bound of the completed set.

### Reconciliation, access, services

`Reconciliation`'s invariant says of every snapshot anywhere (in flight, in a chunk, read by a
confirm, in the row) that the HCM was in it; that no merged row is newer than the local one, of those
merged since a confirm last turned it back (`Merged`); that a run has merged the rows it has passed by
and works on a job that was added (`RunInv`); and that a completed job has merged all of its rows
(`DoneInv`), since only a run that has passed its last row settles a job so, whichever other runs of the
job there are. A batch that is sent now finds its jobs not added yet (`JobInv`), so that it changes no
chunk under a run. `NewestWins` is `Merged` for the newest snapshot, and `OneRefreshPerPush` needs it:
a row merged before is not newer, and so is not taken again.

`Access`: how far a call has come says what it has found out (`CallFits`): at `act`, a manager
managed the owner at some moment of the call, and a cancelling employee owns the request.

`Services`: a call of `HcmStore` is a call of `HcmMock` in which the failure it pops is the fault
that strikes. A readiness call for which Redis was there and nobody else connecting waits for its own
connection or pings over one that stands (`ProbeInv`).

That the adapter is a twin of the mock (`TwinInv`) is inductive for the two stores and the two queues
together: an answer depends on the failure that strikes, which is the first of its operation in a queue
that mixes the operations. The queues are not equal, since a readiness call uses up failures of the
mock only, but they stay in step for every other operation: the positions of the operation match one
to one in order (`InStep`), a match pairs first with first (`RemoveFirsts`), and removing another
operation's failure from one queue only moves the positions (`RemoveOther`). For `confirm` one also
has to know that what is held has a row, as the two fail differently without one.

### Only model-checked

* `JobsSettle`, `DecisionSettles`, `EntriesSettle`, `ProbeAnswered`: liveness under fairness, out of
  reach of the prover. Every other property of a passing run, refinements included, is proved.

## 6. Plan

Order of the modules, the most important behaviour first: the ledger and the HCM, the saga over
an abstract channel, its properties and invariant, the outbox that implements the channel,
reconciliation, access, the pages, what stands in for the HCM and what watches it. These are
written. What is left:

1. **Models.** Saga, outbox and reconciliation over one balance row, rather than over the
   interfaces they share; more than one change of an employee; an HCM that serves the call of a
   readiness check after the check has given up.
2. **Proofs.** The safety part of the liveness properties, as far as it is one: that a job is
   waiting, active under a lock or over whenever its entry is committed. What `BooksAgree` says of several
   approvals whose runs do not cross.

Abstract specifications: `JobChannel` (of the outbox and the queue), `RequestLifecycle` (of the
saga) and `HcmMock` (of the mock) exist; one worth adding is an atomic "last snapshot wins"
register that reconciliation implements when no confirm writes.

## 7. Where code and documents disagree

Each has a run that ends in a counterexample.

1. `claim_sticky`: "TERMINAL is sticky" (`saga-state-machine.spec.ts:13`). A run that has called
   the HCM reopens a request that was force-failed meanwhile, as `reserveCommit`
   (`hcm-saga.processor.ts:119`) writes AWAITING_APPROVAL unconditionally.
2. `claim_net_zero`: "Every non-approved terminal path writes a `CANCELLED` movement that offsets
   the original `PENDING_RESERVATION`" (`src/README.md:111`). A force-fail beside a compensation
   or after an end releases the reservation twice.
3. `claim_replay`: "Safe on replay" (`src/README.md:110`). After a crash between `hcm.confirm` and
   the commit the rerun calls `confirm` again: the movement it looks for
   (`hcm-saga.processor.ts:160`) is written by that very commit. The HCM deducts twice.
4. `claim_retry`: "BullMQ retries with exponential backoff" (`src/README.md:112`). Jobs are added
   without `attempts` (`outbox-dispatcher.ts:65`), so a job that throws is failed for good.
5. `claim_settled`: "`WHERE version = ?` guards against concurrent writers"
   (`hcm-saga.processor.ts:187`). The version is read inside the transaction and always matches,
   while the total was read from the HCM before it: two confirms may leave the older total.

Six more are noted and not run as checks.

* "Stale pushes are ignored" (`src/README.md:145`). A confirm writes the `hcmLastSeenAt` it read before its
  transaction (`hcm-saga.processor.ts:196`) over a newer one, and a push older than what was merged
  before is merged again. It is the race of `claim_settled` with a push in the place of the second confirm; what is
  left of the promise is what `NewestWins` and `OneRefreshPerPush` say.
* "A poller picks pending entries and pushes them to BullMQ" (`src/README.md:109`). Rows are never marked as
  finished, the reaper re-arms all of them and `claimBatch` takes the oldest first
  (`outbox.repository.ts:51`): with more rows than the ticks between two re-armings can claim (50 every half
  second for five to six minutes, some 30 000 rows), new rows stay PENDING for ever. `EntriesSettle` holds
  below that only.
* `src/README.md:151` says that a negative balance after an acceptance means that the HCM lied and
  that the saga fails at once. The local total may be older than the HCM's or newer, so a truthful
  acceptance can be found negative too; and after a false acceptance only the *job* fails, while
  the request stays RESERVING_HCM (`hcm-saga.processor.ts:110`).
* `docs/PDF_COMPLIANCE.md:44` promises an "accurate balance". `listForEmployee` reads balances and
  movements in two selects (`balances.service.ts:15-18`): with an approval committed in between
  the days just approved are shown as available, until the balances are fetched again, which a page does
  after a call of its own or when it is opened anew: only requests are polled. `ShownIsExplained` says that this is all
  that a torn read can do.
* A readiness call that comes while the Redis client connects for another call reports Redis down at
  once although nothing is wrong (`health.controller.ts:61-65`): its `connect()` is refused, and so is
  its ping. `DownHasCause` needs the exception.
* The adapter used in tests and the mock part on `silent_accept` for a balance without a row. And a
  readiness call eats the failures a demonstrator injected for `getBalance` (`eaten`).

## 8. Not modelled

* **Frontend**, the rest: `EmployeeAutocomplete.tsx` (a search box: filtering and keyboard),
  routing, layout, and the forms for employees, which fill calls that `Access` models with what
  was typed. The identity the browser keeps is in `Access`.
* **Balance reads**, the rest: `upsertFromHcm` is called by tests only; which employees' balances
  the controller shows to whom, and which rows the other read endpoints show.
* **Outbox**: `OutboxRepository.fail` is never called by the code.
* **Bootstrap, errors, logging**: wiring and I/O without state. Taken from them: only the
  process with the worker role polls the outbox and runs jobs.
* **A readiness call's late HCM probe**: a call aborted by its timeout is served before the abort or
  not at all, never later.
* **Formats** of requests and replies, and **dates**: only the number of days matters to the ledger.
* **DRIFT_DETECTED**: a log line.
* **Time**: timeouts and intervals are nondeterministic steps, poll counts in `Outbox`.
