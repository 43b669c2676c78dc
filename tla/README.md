# TLA+ model of the saga orchestrator

This directory models the order saga of this repository and what stands around
it: the API that takes orders in bulk under idempotency keys, the arq worker
that runs an order's steps and rolls them back, the scheduler that looks after
stuck orders, the PostgreSQL row and the Redis queue they share, the external
services they call, the gauge an operator watches, and the accounts. TLC checks
the models on small instances; TLAPS proves most of their safety properties for
every instance. Paths below are relative to the repository; `compensation.py:54`
means `src/workers/saga_tasks/compensation.py`, line 54, and so on.

    tlc -workers 2 -config Mishaps.cfg MCSaga   # one run
    tlapm SagaContractProofs.tla                # the proofs of one module

## 1. The system

| Part | State it keeps | Operations | Interacts through |
|---|---|---|---|
| Order API (`api/endpoints/order.py`, `services/order.py`) | none of its own | create (bulk), force-cancel | inserts rows, then enqueues `process_billing`; rewrites `global_status` |
| Order row (`db/models/order.py`, `db/repositories/order.py`) | three step columns, `global_status`, `payment_type`, `updated_at` | locked and unlocked reads, ORM writes, the two scheduler queries | the one place where everything meets; `FOR UPDATE` locks |
| Queue `saga:tasks` and worker (`workers/main_worker.py`, arq) | jobs by `_job_id`, kept results | enqueue (dropped if the id is known), take (at most `max_jobs`), cancel at `job_timeout`, deliver again after a crash | runs the job functions as coroutines of one process |
| Steps (`saga_tasks/billing.py`, `inventory.py`, `logistics.py`) | locals across awaits | call a service, lock the row, enqueue, commit | HTTP, row, queue |
| Compensation (`saga_tasks/compensation.py`) | locals across awaits, `retry_count` argument | phase 1 read and mark, phase 2 undo in parallel, phase 3 settle, retry | HTTP, row, queue, Slack |
| Scheduler (`workers/scheduler.py`) | what a cron run has read | poll every 30 s, dead-order check every 10 min | unlocked reads and late commits on rows; queue; Slack |
| External services (`mock_env/main.py` in this repository) | last action per order | charge/refund, reserve/release, arrange/cancel | HTTP, idempotent on the last action |
| Metrics, gauge (`workers/metrics.py`) | counters; the gauge of orders in MANUAL_INTERVENTION_REQUIRED | count, then set | set by poll, dead-order check and the job force-cancel enqueues in `saga:scheduler` |
| Accounts (`services/user.py`, `api/dependencies.py`, `utils/jwt.py`, the user and token repositories) | rows of users and refresh tokens | register, login, refresh, logout, bearer checks | independent of the saga but for who may force-cancel |

What makes it hard:

- *Two phases of work outside the transaction.* Compensation marks the row,
  releases its lock, calls the services and comes back to the row later.
- *Enqueue before commit.* A step enqueues its successors while its own
  transaction is still open; they may start, and even finish, first.
- *Identity of jobs.* An id is known to arq while the job waits, runs, or its
  result is kept (an hour), and an enqueue under a known id does nothing. The
  scheduler's and the retries' ids carry a timestamp of whole seconds.
- *Nobody waits for a deferred compensation.* It ends, and relies on the poll's
  query to select the order again.
- *Redelivery.* arq runs the jobs of a dead worker again from their beginning,
  against a row and services that have moved on.
- *Unlocked reads, late writes* in the scheduler, in force-cancel and in the
  gauge, which is set from a count some awaits old.
- *Check, then insert.* Idempotency keys, user names and emails are looked up
  first and inserted later; only the unique columns decide, and an insert waits
  for an open transaction that holds the value, in bulk requests perhaps in a
  circle.
- *Check, then revoke.* A refresh reads its token, and does not look at whether
  its UPDATE still found it live.

What makes each part correct: a step records SUCCESS only if its service acted;
a rollback undoes exactly what was done, after everything is decided, one job at
a time; COMPLETED means whole, CANCELLED means clean, MANUAL means there is
something to refund; and every order gets there. A posted order is created and
billed once however often it is posted, and every reply is true. A name or email
has one account; a refresh always costs the old token; who holds a token has a
row. The gauge comes to show the truth.

## 2. Modules

    OrderTable <- ArqQueue <- SagaTasks (with Services) \
                           <- Scheduler                  >- Saga <- MCSaga (TLC)
                           <- OrderApi                  /        <- SagaProofs <- SagaOnceProofs <- SagaContractProofs
                                                                                                 <- SagaTimeProofs
    Saga        implements SagaContract          (Contract in Saga)
    OrderIntake implements OrderApi!IntakeSpec   (Api in OrderIntake)   <- MCIntake, IntakeProofs
    Accounts    <- MCAccounts, AccountsProofs
    ManualGauge <- MCGauge, GaugeProofs

| Module | Models | State |
|---|---|---|
| `OrderTable` | the row; `WriteRow` is a commit (the ORM writes nothing, and leaves `updated_at`, when nothing changed); `StuckOrders` and `DeadOrders` are the scheduler's queries | `status`, `global`, `payment`, `age` |
| `ArqQueue` | the queue and the worker's slots, as the code uses arq | `job`, `retry`, `stampTaken` |
| `Services` | what each service did last; `Serve` is one POST and its outcome as the caller sees it | `svc` |
| `SagaTasks` | the four job functions and how they fail | `answer`, `waiting`, `ok` |
| `Scheduler` | the two cron jobs | `polling`, `pollSet`, `touched`, `deadSet` |
| `OrderApi` | creation of sets of orders, as the saga sees it, and force-cancel | `request`, `admin` |
| `Saga` | the composition, faults, time, fairness, its properties, the refinement mapping | `mishaps` |
| `SagaContract` | the abstract specification: per order, the services needed, those that hold their part, those that gave it back, and the outcome shown | `needed`, `held`, `released`, `outcome` |
| `OrderIntake` | POST /orders in detail: several requests, each a list of keys, read, inserted row by row in a transaction, committed, enqueued side by side, answered | `body`, `at`, `existing`, `next`, `rows`, `sending`, `billed`, `reply`, `deaths` |
| `Accounts` | /auth and the bearer checks: several requests over names, emails and tokens | `kind`, `of`, `user`, `at`, `marks`, `users`, `token`, `reply`, `past` |
| `ManualGauge` | the gauge and the jobs of `saga:scheduler` that set it | `manual`, `gauge`, `job`, `count`, `owed`, `idTaken`, `mishaps` |
| `MC*` | model values for TLC | |
| `*Proofs` | the theorems | |

**The contract.** An order in `SagaContract` is open, completed, cancelled or in
an administrator's hands. Nothing is performed for it once any part was given
back; it shows completed only while all that is needed is held, and cancelled
only once nothing is, whereafter nothing is performed. A completed order may be
reopened: `compensation.py:54` does so. `Saga` implements it with `held` and
`released` read off the services and `outcome` off `global_status`. A
force-cancelled order stays in the administrator's hands, since the code
cancels it without undoing anything.

**Intake.** `OrderApi` creates a set of orders by one commit and then either
enqueues each order's billing or does not. `OrderIntake` has what is behind it.
A request goes from `new` (the goods are looked up, the keys found) over
`insert` (its transaction is open; `next` is the order it is at) and `enqueue`
(committed, with `sending` under way) to `done`. An insert of a key whose row an
open transaction holds is not enabled, which is PostgreSQL's wait; `Clash` is
the unique violation, after which the whole request rolls back; `BreakDeadlock`
aborts one of a circle of waiters. `gather` raises at the first failed enqueue
and lets the others go on, so that `sending` may outlive the answer.

**Accounts.** A user is identified with the request that registered it, and a
pair of tokens with the request that issued it; which token a request presents
is chosen among those that were handed out. The handlers that write have a step
per statement that can wait or fail: `InsertUser`, `Revoke`, `Commit`. A second
UPDATE of one token's row waits for the first transaction and then looks again
(PostgreSQL's READ COMMITTED), which is why both may commit, the second without
having revoked anything. A token found expired, or of the other type, is a
choice open at any time. `past` records, for the property `UsedUpOnce` alone,
which uses of a token had ended when a refresh read it. Requests whose reads
themselves raise change nothing and are left out.

**Gauge.** `HandOver`, `TakeBack` and `ForceCancel` stand for all that changes
the number of orders in MANUAL_INTERVENTION_REQUIRED; each job counts in one
step and sets in a later one, and two run at a time (`scheduler.py:168`). Cron
brings jobs back for ever; force-cancel's own job may be dropped, because its id
carries the second, and nothing counts on it.

**From coroutine to actions.** One action is the code between two awaits at
which another coroutine or process could see or change something shared.
`job[o][j]` is where job `j` of order `o` stands: `absent`, `deferred`,
`queued`, a point of its function (`call`, `write`, `commit` for a step;
`read`, `undo`, `alert`, `requeue` for compensation), `finish`, or `kept` (arq
holds its result). `write -> commit` is the span in which a step holds the row
lock and has already enqueued; `alert` is the span in which compensation holds
it while it calls Slack; `RowLocked` says so and every other writer waits for
it. A coroutine's locals are `answer`, `waiting` and `ok`.

**Time.** `updated_at` is kept as its age against the scheduler's thresholds:
`fresh`, `stale` (60 s), `dead` (an hour). `Elapse` ages a row. Without the
fault `slow` a row ages only when nobody works on it and the poll would not
pick it up first, which is what the numbers in the code amount to as long as
queues are short: a step ends well within 60 seconds and the poll comes every
30. With `slow` it ages at any moment. `stampTaken[o]` says that an id with the
present second is in use for `o`; a retry, enqueued with `_defer_by=15`, is
`deferred` and cannot start in that second. Without `Bursts` a timestamped
enqueue simply finds the second free.

**Services.** `svc[o][s]` is the mock's `last_action`. A repeated action is
answered 200 without effect (`mock_env/main.py:59`), so a refusal is possible
only when the action is not the last one. With `Lossy`, an answer may be lost
after the effect, or before it.

**Faults** (`Saga`): `infra` (the database or Redis raises; a COMMIT that raises
may have taken effect, compensation's first one included, and any subset of the
enqueues may have happened; the `except` clause's own enqueue may fail too),
`timeout` (arq cancels the coroutine, perhaps within `gather`, with part of the
enqueues sent: `CancelledError` is no `Exception`, so the handler does not run),
`crash` (all running jobs are delivered again), `api`, `sched` (a cron job loses
its session, or both jobs lose theirs; the poll's enqueue raises, with effect or
without), and the uncounted `slow` and `expiry`. The others are limited by `MaxMishaps` in all.

**Left out of the modelled parts**: log lines and metrics; the *order not
found* branches (no code deletes an order); arq's own limit of five tries per
job, which would need five crashes; a second force-cancel of one order; a
service whose effect arrives after its caller has given up and gone on.
`process_inventory` and `process_logistic` are line by line the same function
over exchanged columns and are one operator, `ProcessParallel`.

## 3. Runs

The first four runs and the five violations use `MCSaga`. One order is enough
for every property but those about sharing, since orders meet only in the
worker's slots and the scheduler's two loops; `TwoOrders` has both.
`MaxRetry = 1` (4 in `compensation.py:121`) gives a first attempt, a retry, and
exhaustion; a retry differs from the next only in its count, which the proofs
treat for every bound. `Stamped = {t1}` lets the fixed compensation job and one
timestamped job overlap; `{t1, t2}` in `Mishaps` and `Recovery` lets two
timestamped ones, which is what it takes for the poll to send rivals, and
`PaceInv` then shows that attempts do not overlap while jobs keep time, so that
one slot is enough for the others; a timestamped job hands its slot to its
retry. `MaxJobs = 3` (15 in
`main_worker.py:40`) lets both parallel steps and a compensation run together;
1 makes them queue. `MaxMishaps` of 1 or 2 is a budget per behaviour, spent at
any point. `CHECK_DEADLOCK FALSE` where a settled order, or a request that was
answered, needs no further step; `Gauge`, which never stops, checks deadlock.

| Run | Shows | Bounds |
|---|---|---|
| Settles | COMPLETED is final, only a doomed order is rolled back (`FinalInv`), nothing is performed for an order after an undo (`NoWayBack`), and every order settles, services refusing and losing answers at will | fair; no internal fault; both payment types |
| Mishaps | the orchestrator implements the contract; COMPLETED is whole, COMPENSATED undone, CANCELLED clean; nobody is left PROCESSING unattended, no two jobs undo one order, nobody overwrites a closed order, step columns only move forward; the inductive invariants `OnceInv` and `PaceInv` | 2 of infra/timeout/api, expiry, same-second ids, two timestamped jobs |
| Recovery | types; across redelivery only what was done is undone, and the lock is exclusive (`HoldInv`); a rollback whose steps are decided ends | fair; 1 fault of any counted kind, a crash included; postpaid; two timestamped jobs |
| TwoOrders | two orders share a slot, a poll and a dead-order check and both settle; a rollback is always attended; administrators are called only with something to refund; `AttendedInv` and `ManualInv` | fair; 2 prepaid orders, 1 slot, one retry |
| Intake | replies are true; a request creates all or nothing; billing is enqueued at most once; what the saga sees is implemented; every request is answered | fair; 3 requests, 2 keys: both orders of the list and a list that repeats a key; 1 death of the API, any other failures |
| Accounts | one account per name and email; a refresh trades one token for another; two uses of one token overlap; holders exist; every call is answered | fair; 4 requests of any kind, with clashes among them; any failures |
| Gauge | the gauge settles on the number of MANUAL orders, and no job's set undoes another's | fair; 2 orders, 3 jobs of which 2 run, 2 failures or restarts |

Three requests are what a race with a repetition takes, and two keys what a
circle of waiters takes. In `Accounts` four requests give two registrations and
two uses of a token, or a registration, a refresh and two rivals for the new
token.

Five runs are expected to fail: each checks one statement of the repository's
documentation, and TLC shows a behaviour of the code that contradicts it.

| Run | Statement | What happens |
|---|---|---|
| LateCompletion | `SAGA_ORCHESTRATOR.md:32` (both succeed: COMPLETED, the end) | a step is late, the poll enqueues a compensation, the step succeeds and completes the order, and the compensation sets COMPENSATING over COMPLETED and undoes all of it (`compensation.py:54` does not look at `global_status`) |
| LostEnqueue | `SAGA_ORCHESTRATOR.md:89` (stuck PROCESSING orders are rolled back) | commit, then no enqueue (`services/order.py:60`): all steps stay PENDING, each dispatched compensation defers, and each dispatch makes the row fresh again |
| LostAnswer | `src/main.py:52` (consistency during network failures) | a charge whose answer is lost is FAILED, hence not refunded; the order ends CANCELLED |
| Deferred | `SAGA_ORCHESTRATOR.md:74` (a deferred compensation waits for re-dispatch) | postpaid; first step fails, compensation defers on the second, the second fails too: no step is SUCCESS, so the poll's query (`repositories/order.py:45`) does not select the order; only the dead-order check does, an hour later, although nothing is left to refund |
| SameSecond | `SAGA_ORCHESTRATOR.md:89-90` (unique timestamp; stuck rollbacks reach MANUAL) | the poll's job is refused within the second it was enqueued in; its retry has the same id and is dropped; 60 s later the poll starts again at retry 0, and so on for ever, the row never growing an hour old |

Other behaviours of the kind came up and have no run. With `crash`,
`CompletedIsWhole` and what rests on it fail: the worker dies before arq has
recorded that inventory (succeeded) and logistics (failed) ended; when it is
back, both run again beside the queued compensation, both calls succeed,
compensation releases the stock and cancels the order, and the two steps, which
look only for COMPENSATING, then write SUCCESS and complete it with its stock
released. `ProcessingIsAttended` fails too: billing is redelivered after the
parallel jobs have ended, its enqueues meet their kept results, and the order
stays PROCESSING with every step decided. With `slow`, two compensations can
undo one order at a time, and the dead-order check writes MANUAL over a status
that a compensation committed during its Slack calls. With `sched` they can too,
and a closed order can be taken back: the scheduler dies after the poll has
enqueued and before its commit (`scheduler.py:128`), the row is as old as it
was, and the next poll sends a second compensation beside the first. With
`infra`, COMPLETED can be taken back: the COMMIT that completes the order raises
although it took effect, and the step's handler enqueues a compensation, which
does not ask (`compensation.py:54`). Two refreshes that overlap
both get a pair for one token, which is why `UsedUpOnce` speaks of requests that
do not.

### Fairness

`FairSpec` assumes weak fairness of each coroutine's next step, of the worker
taking each queued job, of the poll and the dead-order check (cron starts both
again and again), of rows growing old and of the clock's second passing, and
that an API request that has committed goes on to its enqueue unless it dies.
That is what the event loops and arq do while the processes are up. Clients,
administrators, faults and the outcome of a service call owe nothing: nothing
assumes that a service ever answers 200. Weak fairness suffices because a lock
or slot is not taken away from a waiting job again and again: each order has
finitely many jobs alive and arq's queue is in order of time.

`OrderIntake` and `Accounts` assume that a handler which can go on does, and
that PostgreSQL resolves a deadlock; requests and failures owe nothing.
`ManualGauge` assumes that cron comes round and that each job is taken and runs;
force-cancel's enqueue is not assumed.

### Mutants

Every property is shown to depend on the code: `PROJECT.json` names for each
one an altered definition (a dropped threshold, a wrong column, an off-by-one
in the retries, a commit before the last insert, a revocation left out) kept
next to the original and marked *a mutant*, under which TLC finds it violated.

## 4. Proofs

All theorems hold for every value of the constants: any set of orders, payment
types, timestamp slots, worker slots, retry bound, set and number of faults; any
requests, keys, lists, names and emails. They assume the constants' named
assumptions, evaluated by TLC on each run, and where said that some faults do not
happen:

| Hypothesis | Says |
|---|---|
| `NoCrash` | `"crash" \notin Faults`: no job is delivered twice |
| `~Lossy` | no answer of a service is lost |
| `NoSlow` | jobs and polls keep ahead of the scheduler's thresholds |
| `OnTime` | `NoCrash`, `NoSlow`, and the scheduler does not lose what its cron jobs hold |
| `NoInfra` | the database and Redis do not raise inside a job |
| `Unbroken` | `NoCrash`, `NoInfra`, and no job is cancelled at `job_timeout` |
| `Prepaid` | no order is postpaid |

A fault that a theorem's hypotheses do not exclude may happen any number of
times, at any point. None of the hypotheses of a property's theorem can be left
out: for each, TLC finds the property violated on `MCSaga` when only that one is
dropped. Some of these behaviours are described above; the others are of the
same kind, as when a compensation is cancelled after its last refund and before
its commit, so that nobody is left to close the order.

| Theorem | Establishes | Needs |
|---|---|---|
| `SagaProofs!TypeCorrect`, `SagaInvariant` | `TypeOK`, `SagaInv` | |
| `SagaProofs!UndoIsSound` | `UndoOnlyWhatWasDone`: no service is asked to undo what it did not do, nor anything before every step is decided | |
| `SagaOnceProofs!OnceInvariant` | `OnceInv` | NoCrash |
| `CompletedWhole`, `CompensatedUndone`, `ProcessingAttended` | `CompletedIsWhole`, `CompensatedIsUndone`, `ProcessingIsAttended` | NoCrash |
| `CancelledClean` | `CancelledIsClean` | NoCrash, ~Lossy |
| `SagaContractProofs!StepsForward` | `StepsMoveForward` | NoCrash |
| `SagaContractProofs!NothingAfterUndo` | `NoWayBack`: no service acts for an order again once any part was undone | NoCrash |
| `SagaContractProofs!ContractKept` | `KeepsContract`: `Saga` implements `SagaContract` | NoCrash, ~Lossy |
| `SagaTimeProofs!HoldInvariant` | `HoldInv`: one holder of a row's lock; past phase 1 everything is decided | |
| `SagaTimeProofs!PaceInvariant`, `NoRivals` | `PaceInv`, `NoRivalRollbacks` | OnTime |
| `SagaTimeProofs!ClosedStays` | `ClosedStaysClosed` | OnTime |
| `SagaTimeProofs!FinalInvariant`, `CompletedStays` | `FinalInv`, `CompletedIsFinal` | NoCrash, NoSlow, NoInfra |
| `SagaTimeProofs!AttendedInvariant`, `RollbackAttended` | `AttendedInv`, `RollbackIsAttended` | Unbroken, Prepaid |
| `SagaTimeProofs!ManualInvariant`, `ManualHeld` | `ManualInv`, `ManualMeansHeld` | Unbroken, Prepaid, NoSlow |
| `IntakeProofs!Types`, `IntakeSafe`, `Replies`, `Whole`, `Billed` | `TypeOK`, `IntakeInv`, `RepliesAreTrue`, `WholeOrNothing`, `BilledOnce` | |
| `IntakeProofs!IntakeKept` | `KeepsIntake`: `OrderIntake` implements `OrderApi!IntakeSpec` | |
| `AccountsProofs!Types`, `OneAccount`, `Trades`, `UsedOnce`, `Holders` | `TypeOK`, `OneAccountEach`, `RefreshTrades`, `UsedUpOnce`, `HoldersExist` | |
| `GaugeProofs!GaugeType`, `GaugeStays` | `TypeOK`, `GaugeStaysTrue` | |

**Whatever fails** (`SagaProofs`). The inductive invariant is
`TypeOK /\ SagaInv`. `SagaInv` has three parts. `RetryInv`: a job in `requeue`
has an attempt left, set up by phase 3's test and needed for the type of
`retry`. `DecidedInv`: a job in `undo` has passed phase 1's PENDING test, and no
step becomes PENDING again; this survives the release of the row lock because
every commit writes a decided value to its own column and reads the others under
the lock. `DoneInv`: a service that never acted shows nowhere as SUCCESS or
COMPENSATED, not in the row, not in a step's answer, not in a compensation's
requests. Without the locals it would not be inductive: SUCCESS travels from the
reply through the local to the row, and from the row through phase 1's local to
the undo request. Two lemmas carry most of it: `AdvanceEnters` and `QuietStep`
say that a step in which no job enters `undo` or `requeue` and no column is
reopened cannot disturb `RetryInv` or `DecidedInv`.

**No job twice** (`SagaOnceProofs`). `OnceInv` is a conjunction per order.
`AheadInv` says that a step whose service may still be asked to act is untouched
in its row and at its service; `StartInv` that row, billing and the parallel
steps come in that order; `WriteInv` that a forward job which holds an answer
finds its column PENDING. From these follows what the statuses mean:
`UndoneInv`, `ProcessingInv`, `CompletedInv`, `CancelledInv`, `AnswerInv`. The
lemma `OneOrder` reduces a step to the order it is about; then there is one
lemma per component and, for compensation, one per phase. A redelivered job
breaks `AheadInv`, which is where crashes are lost.

**The contract** (`SagaContractProofs`). One lemma per step of the contract:
`ContractStart` (a compensation's first commit is `Reopen`, also where it raises
after its effect), `ContractCall`
(`Perform`), `ContractUndo` (`Release`, whose guard is `DecidedInv` and
`AheadInv`), `ContractCommit` (`Complete`), `ContractSettle` (`Cancel` or
`HandOver`), and `ContractOutside` for API, administrator and scheduler;
everything else is a stutter. `NoWayBack` holds even where answers are lost, which
the contract's outcomes do not survive: only a forward call makes a service act,
it finds its own step PENDING (`AheadInv`), and nothing was released while any
step is (`UndoneInv`).

**On time** (`SagaTimeProofs`). A step of `Saga` is about one order, or about a
set of them, or about all; `Moves` says what it is to each single order: one of
some twenty moves (`MoveWrite`, `MoveSettle`, `MovePollEnqueue`, ...), or none.
The invariants are then followed move by move.

- `HoldInv` is inductive by itself. A commit or a Slack call is entered with
  the row unlocked, and no commit makes a column PENDING (`Decides`).
- `PaceInv` is what the thresholds are for. Call an order at rest when no step
  and no attempt at rolling it back is under way (`AtRest`). Without `slow` only
  a row at rest grows old (`PollInv`), so the poll wakes orders at rest only, so
  an attempt it sends is alone (`AttemptInv`); the steps' own attempt is the one
  under the fixed id; a retry replaces its predecessor. An attempt that settles
  the order was the only one, so a closed order rests and stays closed
  (`ClosedInv`), and a row that reached the hour is one the poll does not see,
  which nothing will touch before the alert's commit (`DeadInv`). `touched` is
  the exception in `PollInv`: between the poll's enqueue and its commit the row
  is still old while the attempt may run. The proof goes by three cases: the
  order rests (`PaceAtRest`), the poll wakes it (`PaceAtPoll`), it is under way
  (`PaceUnderWay`).
- `FinalInv` says that only an order that is `Doomed` is rolled back, closed or
  seen by the scheduler. A doomed order stays so (`DoomedStays`): a failed or
  cancelled column is final, a decided FAILED waits for its own commit
  (`CommitWaits`) and becomes a passed step if that is cut off, and a step that
  was passed over PENDING, its job gone, is never taken up again
  (`PassedStays`). COMPLETED needs every column SUCCESS or SKIPPED. That is why
  `timeout`, `api` and `sched` do no harm here.
- `AttendedInv` follows a prepaid order's failure to its rollback. A failed
  billing has its compensation queued when it commits, and that one cannot look
  at the row before (`FirstAttempt`); a parallel step that fails has billing's
  SUCCESS beside it (`ParallelOpen`), which the poll sees until it is undone; an
  attempt that finds a step PENDING therefore leaves the poll something to see.
- `ManualInv` adds that an order so attended never grows an hour old
  (`NeverDead`), and that what the Slack call reports stays true because the row
  is locked meanwhile (`AlertHolds`).

**The gauge** (`GaugeProofs`). The types need that a count of some orders is at
most that of all (`CountBound`). `GaugeStays` is the safety half of
`GaugeSettles`: an older count can still be set over a newer one, but not once
all that are under way agree with the table.

**The intake** (`IntakeProofs`). `IntakeInv` adds to the properties that a
transaction has inserted just what it has come past (`RowsInv`), that a row
belongs to one request (`UniqueInv`), and that an enqueue under way is for a
committed row whose billing has not been enqueued (`SendingInv`). For the
refinement, `CommitSeen` maps a commit to `CreateOrders` of its rows, and
`DeathSeen` the process's end to `ApiFails` of all that was under way.

**The accounts** (`AccountsProofs`). `AccountsInv` is `StageInv` (how far a
handler has come with what it asks for), `RowsInv` (an open transaction's row is
free of clashes; at most one transaction holds a token's row, which is live),
`UsedInv` (a presenter that did not revoke found the row revoked; what had ended
when a refresh read has not used its token up), with the properties themselves.

Only model-checked: liveness (`EveryOrderSettles`, `RollbackConcludes`,
`EveryRequestAnswered`, `EveryCallAnswered`, `GaugeSettles`), which is out of
the prover's reach. Every invariant and action property of the passing runs is
the subject of a theorem.

## 5. Not modelled

- The metrics' counters: they only count up, and nothing reads them.
- The goods catalogue, read-only and filled at start: that a good is unknown is
  `OrderIntake`'s `Refuse`.
- Notifications beyond the await they cost: the webhook swallows every error.
- Settings, logging, middleware, schemas, migrations, deployment: no state that
  any property speaks of.
- Of arq, the limit of five tries per job and the graceful shutdown.
- A service whose effect arrives after its caller has given up and gone on.
- What the dead-order check owes an order that a compensation settles during
  its Slack calls, and what force-cancel owes a compensation that runs beside
  it, when rows grow old under running jobs: both overwrites are in the model
  (`DeadRead`/`DeadCommit`, `ForceCancelRead`/`ForceCancelWrite`), but no
  document says which should win. `ClosedStaysClosed` shows that neither happens
  while jobs keep time.

`PROJECT.json` gives the reason for each part.
