# A TLA+ development of the Distributed Workflow Engine

This directory holds TLA+ models of the Go backend (`src/backend`), TLC
configurations that check them on small instances, and proofs of their main
invariants that TLAPS checks for every value of the constants.

## The system

A job is a row of the `jobs` table in PostgreSQL and an entry of a queue in
Redis. No operation spans the two stores; each process makes one call after the
other, and faults or other processes come in between. That is where most of the
difficulty of this system lies.

| Component | State it keeps | Operations | Interacts with |
|---|---|---|---|
| Job store (`store/jobs.go`) | `jobs` rows: status, attempt, worker_id, run_at, completed_at, error | Create, Claim, ClaimJob, RevertToQueued, RecordFailure, RequeueDueRetries, ManualRetry, MarkSucceeded, MarkFailed, Cancel | everybody below, by single SQL statements |
| Dispatch queue (`queue/redis.go`) | a sorted set per tier, the in-progress set, the claim counter | Enqueue, Claim (script), Ack, RequeueStale (script) | workers, scheduler, supervisor, handlers, workflow engine |
| Worker (`engine/worker.go`) | concurrency slots, draining | claim loop, processJob, heartbeat loop, stale recovery loop, drain | both stores |
| Worker registry (`store/workers.go`) | `workers` rows: status, last_heartbeat | Register, Heartbeat, SetStatus, FindDeadWorkers, RecoverDeadWorkerJobs | worker, supervisor |
| Retry scheduler (`engine/scheduler.go`) | the batch in hand | PollAndRequeue | job store, then queue |
| Worker supervisor (`engine/supervisor.go`) | the pass in hand | ReapDeadWorkers | registry, job store, queue |
| API handlers (`api/handler.go`) | the request in hand | CreateJob, CancelJob, RetryJob, CreateWorkflow, CancelWorkflow, reads | job store, then queue |
| Workflow engine (`engine/workflow.go`, `store/workflows.go`) | workflow and task rows, the snapshot in hand | Start, AdvanceWorkflow, the poller, Cancel | job store, queue |
| DAG validation (`domain/workflow.go`) | none | ValidateDAG | CreateWorkflow |
| Backoff (`engine/backoff.go`) | none | CalculateBackoff | worker |
| Migrations (`store/migrate.go`) | `schema_migrations` | RunMigrations | API start-up |
| Metrics, example handlers, configuration, dashboard | - | - | not part of the control |

What makes each part correct:

* **Job store**: whatever order statements arrive in, a row agrees with itself,
  and a dead-lettered job needs an operator to run again.
* **Queue**: no entry vanishes without an Ack, a lease holds for the visibility
  timeout, no tier starves.
* **Workers, scheduler, supervisor, handlers together**: one executor per job,
  final results, a bounded number of attempts, no job lost, every job settles.
* **Workflow engine**: tasks after their dependencies, SUCCEEDED means all
  succeeded, one verdict, and an end, unless newer workflows keep it off the
  poller's page.
* **Submission**: one job, one answer and one entry per idempotency key.
* **DAG validation**: exactly the well-formed acyclic requests are accepted.
* **Backoff and retry polling**: delays within their bound, due retries in time.
* **Migrations**: nobody serves on an incomplete schema.

The hard behaviours are listed with their lines under `hazards` in
`PROJECT.json`: unconditional updates that arrive late, acks by a slot that does
not own the lease any more, crashes between the two stores, a supervisor that
works on a snapshot, SIGTERM in the middle of a report, two goroutines that
advance one workflow without a lock, submissions that race on a key, and API
processes that migrate one schema at the same time.

## Modules

| Module | Models | Built on |
|---|---|---|
| `JobLifecycle` | what the engine promises of a job: who executes it, how it ends | - |
| `JobTable` | the `jobs` table; one action per SQL statement, guard = WHERE, primed row = SET | - |
| `LeaseQueue` | what `queue.go` promises: waiting entries per tier, leases | - |
| `RedisQueue` | the Redis scripts: scores, deadlines, rotation counter, clock | refines `LeaseQueue` |
| `JobEngine` | workers, scheduler, supervisor and job handlers over both stores | instances of `JobTable` and `LeaseQueue`; refines `JobLifecycle` |
| `DocumentedClaims` | statements of docs and comments the job engine does not keep | `JobEngine` |
| `Submission` | POST /jobs with idempotency keys, statement by statement | - |
| `RetryTiming` | backoff, clocks, the scheduler's ticks and batches | - |
| `WorkflowLifecycle` | what the engine promises of a workflow: the order of its jobs, its verdict | - |
| `WorkflowEngine` | one workflow, its tasks and their jobs, two advancing goroutines | refines `WorkflowLifecycle` |
| `WorkflowClaims` | statements of docs the workflow engine does not keep | `WorkflowEngine` |
| `WorkflowPolling` | many workflows and the poller's page | - |
| `DAGValidation` | the check of a workflow's tasks, with Kahn's algorithm | - |
| `Migrations` | `RunMigrations` in several API processes | - |
| `...Proofs` | theorems about the module each is named for | that module, TLAPS |
| `MC...` | instances for TLC; `Migrations` and `WorkflowPolling` need none | the module each is named for |

### How state and actions correspond to the code

**JobTable.** `rows[j]` is the row of job j. Only columns some statement tests
or some property tells apart are kept; `due` stands for `run_at <= now` and
`TimePasses` for the clock reaching it. `RecordFailure`, `MarkSucceeded` and
`MarkFailed` have no status condition in their WHERE clause, and none here.
`Issue` issues any statement at any time, so what holds of it holds for every
client. `Next` is `Issue` with `attempt` bounded by `AttemptCap`, for TLC.

**RedisQueue.** `zset[p][j]` is the score of j in tier p (-1: not a member),
`inProgress[j]` its lease deadline, `slot` the claim counter modulo the sum of
the weights. Each script is one action, as Redis runs it. `skipped` and
`claimedAt` are history variables no action reads.

**JobEngine.** `slot[s]` is one goroutine of a worker's semaphore: `idle`,
`claimed` (after Redis Claim), `running` (after ClaimJob), `ack` (after the
report). `req[r]` is a request goroutine between its PostgreSQL call and its
Redis call, `sched` the rows the scheduler has updated and not yet enqueued,
`sup` the supervisor's pass: the snapshot `dead`, the worker in hand, the batch.
`silent` is the set of workers whose `last_heartbeat` is past the dead timeout,
`proc` what the process really does. `Handled` says which worker has a handler
for which job. Each call to a store is one action; beside
it stands the action in which the call fails, where the code continues
differently. A lease may expire at any time, since the visibility timeout
(30 s by default) does not depend on how long an attempt takes.

**JobLifecycle.** `outcome` is a job's status with FAILED and DEAD_LETTER, and
QUEUED, RUNNING and RETRYING, taken together; `executing` the jobs some slot
executes. Its steps are those a caller or the workflow engine can tell apart:
submit, begin, end, break off, cancel, retry.

**Submission.** `pc[c]` is how far the call of client c has got through
`Handler.CreateJob` and `JobStore.Create`: `lookup`, `insert`, `again` (the
second lookup, after ON CONFLICT DO NOTHING returned no row), `enqueue`,
`created` and `replay` (about to answer 201 or 200). `keyOf[j]` is the key column,
`enqueues[j]` how often j was put into Redis. A client whose call broke off may
send it again. `Key` is how the handler picks the key from body and header.

**RetryTiming.** `now` is the clock of the API process, `nextPoll` the
scheduler's next tick, `runAt` what a worker wrote by a clock up to `Skew` off.
`CalculateBackoff(a)` is the set of delays the code may draw for attempt a, with
the width of the multiplier (`IntBits`) and what a shift past it gives;
`Batch` is the query's ORDER BY run_at LIMIT.

**WorkflowEngine.** `adv[a]` is the progress of one `AdvanceWorkflow` call: its
snapshot `seen`, the tasks `todo` of the loop it is in and the task in hand.
`request` is the goroutine of POST /workflows, `poller` that of `Run`. A task's
job has the statuses that matter here, and `sent` says whether it was ever
enqueued. The steps of jobs are those of `JobLifecycle`: `JobEnds` is an `End` of
a pending job, `LateReport` an `End` of a cancelled one, `RetryJob` and
`CancelJob` carry their names. That jobs in the engine move like this is the
theorem `JobsMoveAsTasks`; that a job of its own accord ends is
`EveryJobSettles`, checked on `JobEngine`.

**WorkflowLifecycle.** `wf` and `job` are those of `WorkflowEngine`; the
goroutines, their snapshots and the tasks' rows are gone. A job is made when the
jobs of all dependencies have succeeded, and a verdict is passed on the jobs as
they are at that moment. That a cancelled workflow may be started or judged all
the same is in the module, because it is what the code does.

**WorkflowPolling.** `running` is the sequence of RUNNING workflows, the newest
first; `list` is what is left of the tick's page. Of `AdvanceWorkflow` it keeps
how many more rounds a workflow needs, and `stuck` those whose jobs will never all
end (one was cancelled, or never enqueued). A workflow that ended leaves its id to
a later one, so that workflows may be created for ever.

**DAGValidation.** A request is a sequence of tasks with names, a type or none,
and dependency lists. `inDegree`, `queue` and `visitedCount` are the variables of
`ValidateDAG`; one action visits one task. The queue is a set, since Go's map
iteration fills it in any order.

**Migrations.** `applied` is what the schema has, `recorded` the rows of
`schema_migrations`; `pc` and `next` are a process's place in the loop over the
files. `Repeatable` are the files whose statements all say IF NOT EXISTS:
2 and 3 of the four; the indexes of the first and the fourth are created without
it.

Faults and outside events are drawn from a budget (`Budget`, `MaxFaults`,
`MaxErrors`), a bound on how often each kind may happen; this and the sets of
jobs, slots, requests, clients and processes are the bounds of the models.
Operators with a comment that begins with "Mutant" are bugs
of the kind this code could have; they are not used by the models, and
`PROJECT.json` says which property notices each of them.

## Runs

| Run | Instance | Checks |
|---|---|---|
| `job_table` | 2 jobs, 2 workers, each with its own limits | `TypeOK`, `RowConsistent`, `DeadLetterNeedsOperator` |
| `redis_queue` | a job of each priority, weights 3, 2, 1 (the code's are 6, 3, 1; the proof covers all), visibility 1, time up to 2 | `TypeOK`, `BoundedSkips`, `LeaseKept`, refinement `ImplementsLeaseQueue` |
| `engine_faults` | 1 job of 2 attempts; one of every fault short of a false death, or a stop and restart under the same id, or a draining worker that comes back and fails to write its status | `TypeOK`, `AtMostOneExecution`, `AttemptsPaidByCrashes`, `ResultIsFinal`, `CancelBeforeStartIsFinal`, `OnlyItsHolderDropsIt`, refinement `ImplementsJobLifecycle` |
| `engine_settles` | 1 job of 2 attempts, with a cancel, an operator's retry and a live worker held for dead; or 1 job of 1 attempt and a third slot, with a cancel and a live worker held for dead or killed at any moment; fairness | `NoJobIsLost`, `ExecutionsArePaid`, `EveryJobSettles` |
| `workflow_trouble` | 3 tasks, crash, error, both cancellations | `TypeOK`, `DependenciesFirst`, `SuccessIsTotal`, `OutcomeIsFinal`, refinement `ImplementsWorkflowLifecycle` |
| `workflow_settles` | 3 tasks, one job retried, fairness | `WorkflowSettles` |
| `workflow_polling` | an endless stream of workflows of 2 rounds, up to 4 at a time, a page of 2, one error or crash, fairness | `TypeOK`, `PassedOverForNewer` |
| `dag_validation` | all requests of up to 2 tasks, malformed ones included, all of 3 with up to two entries each, all graphs on 4 | `TypeOK`, `VerdictIsRight` |
| `submission` | 3 clients of 2 tries each, 2 keys, 4 jobs, 2 faults | `TypeOK`, `SameKeySameJob`, `NoDoubleEnqueue`, `OnlyFaultsStrand`, `OnlyFaultsBreakCalls` |
| `migrations` | 3 processes, the 4 migrations, 2 faults, fairness | `TypeOK`, `SchemaIsComplete`, `OneUnrecorded`, `OnlyFaultsWedge`, `SomebodyServes` |
| `retry_timing` | 3 jobs, a batch of 1, a tick every 2, skew 1, integers of 4 bits, delays of up to 3, time up to 14 | `TypeOK`, `RetriesInTime`, `BackoffHasItsWindow` |

One run ends in a counterexample, for a comment of the source that
`findings` in `PROJECT.json` quotes: in `shutdown` SIGTERM cancels the context
in-flight jobs report with, and a RUNNING row stays behind under an OFFLINE
worker (`CleanStopLeavesNothingRunning`).

### Other deviations

`DocumentedClaims` and `WorkflowClaims` state further sentences of the
repository that the code does not keep. They have no run of their own; TLC shows
the counterexample with the configuration named, adding the formula to it where
it does not stand there yet:

| Formula | Configuration | What happens |
|---|---|---|
| `CancelIsFinal` | `MCJobEngine_cancel_final.cfg` | the report of a running attempt overwrites CANCELLED |
| `NoJobIsLost` with a crash and two attempts | `MCJobEngine_late_ack.cfg` | an ack that comes late removes the lease of another claimant, who crashes before ClaimJob |
| `WorkflowCancelIsFinal` | `MCWorkflowEngine_cancel.cfg` | a status written late replaces CANCELLED |
| `BackoffIsWaitedOut` | add to `MCJobEngine_settles.cfg`, PROPERTIES | an entry requeued as stale starts a RETRYING job before its run_at |
| `AckFollowsResolution` | add to `MCJobEngine_faults.cfg`, INVARIANTS | the report fails, the ack does not |
| `DeadWorkerIsReaped` | add to `MCJobEngine_faults.cfg`, INVARIANTS | the API process dies between OFFLINE and the recovery |
| `FailedWorkflowStartsNothing` | add to `MCWorkflowEngine_settles.cfg`, PROPERTIES | a failed workflow schedules one more task |

What else the models show of the code, and no document denies:

* A worker that comes back under its id before the supervisor found it dead is
  ACTIVE with a fresh heartbeat; the job of its former life stays RUNNING. With
  the default id, host name and pid, this is rare.
* A live worker that was held for dead stays OFFLINE (`Heartbeat` does not touch
  the status), so its real death is not noticed later.
* A job whose enqueue was lost stays QUEUED in PostgreSQL only; a client that
  submits again with its key is answered 200 and nothing is enqueued.
  `OnlyFaultsStrand` says that races alone never do this.
* A process killed between applying and recording a migration that cannot be
  applied twice wedges the schema: every start fails on it from then on.
  `OnlyFaultsWedge` says that processes that start together do not do this to
  each other, though some of them exit.
* The poller lists the 50 newest RUNNING workflows. As long as 50 newer ones are
  there at every tick, an older one is not advanced: for ever if these are stuck,
  and also if none of them is but new ones keep coming as fast as they end.
  `PassedOverForNewer` says that this is all that keeps a workflow whose jobs end
  from its end: not errors, late ticks or a burst of newer ones that passes.
* A retry's delay is as wrong as the clocks of worker and API differ.

### Why the bounds are enough to mean something

Two slots of two workers are the least for two claims of one job, a late ack or
a false death. The job of two attempts meets its own retry, and one of the workers
has no handler for it, so that all four reports occur. It waits in two tiers in
`engine_faults`, its own and that of the stale recovery; in `engine_settles` the
job of one attempt does. That one has a third slot: with one worker held for dead
two executors are paid for, and only a third slot can run one too many. One event
of a kind suffices for every counterexample above. `NoJobIsLost` and
`EveryJobSettles` meet a crash in the job of one attempt, which the run follows from
before it is submitted and whose worker may be killed at any moment; with several
attempts `NoJobIsLost` does not hold across a crash, which is what the late ack
above shows. What does hold there is `OnlyItsHolderDropsIt`: whatever
the faults, a queued job is out of everybody's hands only when the worker that had
claimed it ended or a call failed; the lease left behind is then its last hope, and
only an ack of the same job takes that one away. A running job is beyond the reach
of slots and supervisor only when its worker ended or a call failed, or by its dead
worker's return. Where a live worker is held for dead a job may be
executed twice; `ExecutionsArePaid` says that it takes such an event for every
executor beyond the first. Three clients give two losers of a race on a key beside
one that follows after the answer; two faults break a call and the attempt to
repeat it. Three processes let two collide on a migration while a third looks on.
A batch of one and three jobs let due retries pile up, and their attempts pass the
width of the multiplier. A page of two and four ids, handed on for ever, let two
newer workflows keep two older ones off the page while they end and are followed by
others. Graphs of four tasks have every shape of cycle beside a task outside it.
What does not depend on the bounds is proved (below). Deadlock is not checked where jobs and budgets run out
and the system rightly stops; `CHECK_DEADLOCK FALSE` is in those configurations.

### Fairness

`JobEngine!Fairness` asks of the code that a goroutine that was not killed makes
its next call (a handler's context has the job timeout, and the handler is taken
to heed it), that tickers tick and
that time passes run_at, deadlines and the dead timeout: weak fairness. Claims
are strongly fair per waiting job, because slots are busy from time to time; that
a waiting entry is not passed over for ever is what `BoundedSkips` and the
first-in-first-out tiers of `RedisQueue` give. Faults, client requests and
operators are never fair. `WorkflowEngine!Fairness` is weak fairness of
both goroutines, of the poller's ticker and of enqueued jobs;
`WorkflowPolling!Fairness` the same of the ticker, the loop over the page and
the jobs of workflows that are not stuck. `Migrations!Fairness` says a process
that is not killed goes on to its next statement; nothing makes a process start
again.

## What is proved

All theorems are of the form `Spec => []Inv`, `Spec => [][A]_vars` or a
refinement, from the named assumptions on the constants (`JobTableAssumption`,
`RedisQueueAssumption`, ...), for any finite or infinite sets of jobs, workers,
slots, clients and tasks (`RetryTiming` and `DAGValidation` count them and need
finite ones). Some hold under an assumption on the budget, which the theorem
states; the runs show what breaks without it.

* `JobTableProofs`: `JobTableTyped`, `JobTableConsistent`, `DeadLetterStays`. The
  inductive invariant, `RowsInv`, is about `Issue`, that is, about any client and
  any number of attempts; the bounded `Next` takes steps of `Issue` only.
* `RedisQueueProofs`: `RedisQueueTyped`; `NoTierStarves` through `SkipsBySlot`,
  which bounds how often a tier can have been passed over by the place of the
  last claim in the rotation (`BoundedSkips` alone is not inductive, it does not
  know where in the rotation the tier's own slots come); `LeasesAreKept`, whose
  invariant says a lease's deadline is `claimedAt + Visibility`; and
  `RedisImplementsQueue`, step by step.
* `JobEngineProofs`, for every budget: `EngineTyped` and `CancelledStay`. With
  `NoFalseDeaths(Budget)`, that is, when no live worker can be held for dead
  (workers may crash, or stop and come back under their ids as in a rolling
  restart, any number of times; these are the budgets of `engine_faults`):
  `OneExecution`, which rests on two facts: an executing
  slot owns its row (`ExecutorOwnsRow`), so `ClaimJob` fails for a second one,
  and only processes that are gone are reaped (`OnlyDeadAreReaped`), so nobody
  turns such a row back into QUEUED. From the same invariant, and `RowChange`,
  the list of all that a step can make of a row, follow `ResultsStay` and
  `EngineImplementsLifecycle`. `AttemptsPaid` adds `AttemptsInv`: a row that waits
  has an attempt to spare, and one left behind by a crash has it paid by that
  crash. Under every budget, `OnlyHoldersDrop`: `OnlyItsHolderDropsIt`. Its invariant
  `HandInv` adds to the types that a process that is down has no busy slot, that
  the supervisor has a batch only while it enqueues one, and that a RUNNING row
  names a worker; its lemma `Kept` follows a queued job's id from
  hand to hand through every step, `HeldOn` a running one, and `ReapableStays` says
  that a dead worker leaves the supervisor's hands only with its jobs. Two theorems
  rest on these. With `Undisturbed(Budget)`, where no call fails and no process
  ends, `RacesLoseNothing`: `NoJobIsLost`. With `OnlyCrashes(Budget)`, any number of
  workers killed at any moment, `CrashesOrphanNothing`: a RUNNING job is executed
  by a slot or will be taken from its dead worker (`RunningIsHeld`, the second half
  of `NoJobIsLost`); its invariant `HeldInv` adds that whoever is up says ACTIVE, so
  that the supervisor finds it once it is killed. Under every budget again,
  `PaidExecutions`: `ExecutionsArePaid`. The bound alone is not inductive: a live
  worker comes under suspicion first and loses its jobs' rows much later. `PaidInv`
  counts, beside a job's executors, the live workers the supervisor may find or has
  found dead (`Suspects`) and the one it is about to take jobs from (`Taking`), and
  gives one executor free only to a row that still names it (`Owned`).
  `SuspectsPaid` and `ExecutorsPaid` say what a step does to either side.
  `OneCrashLosesNothing` is `NoJobIsLost` with one worker killed
  (`OnlyCrashes(Budget)` and at most one), for jobs that are tried once and that no
  operator retries. `CrashInv` says why: while the crash may still come, no slot is
  about to ack a queued job, and one that has claimed it left an entry or a lease
  of it in Redis (`Safe`); once it has come that lease is enough, since what is
  acked is over (`AckedIsOver`) and nothing is started twice but after the
  crash (`Once`). With a second attempt the ack of the first may come after the
  claim of the second, which is the deviation `MCJobEngine_late_ack.cfg` shows, so
  the assumption cannot be dropped. This theorem and `RacesLoseNothing` together cover
  what `engine_settles` checks of `NoJobIsLost`.
* `JobEngineProofs` also says how the modules fit together. Under every budget:
  `EngineIsTable` (`Spec => Table!IssueSpec`) and `EngineIsQueue` (`Spec => Q!Spec`).
  What `JobTableProofs` proves of `IssueSpec` therefore holds of the engine's
  `rows`, and what the engine needs of its queue is no more than `LeaseQueue`, which
  `RedisImplementsQueue` shows Redis to implement. That last step instantiates one
  module's theorem in another; the prover cannot cite a theorem through `INSTANCE`,
  so it is made here and not by a proof. With `NoFalseDeaths(Budget)`,
  `JobsMoveAsTasks` does the same for the jobs of a workflow: seen from
  `WorkflowLifecycle` the engine's jobs take the steps a task's job may take, and
  retries of failed ones.
* `WorkflowEngineProofs`: `WorkflowTyped`, `DependenciesComeFirst`,
  `SuccessMeansAll`. The strengthening `SuccessIsBacked` says that SUCCEEDED in
  a task's row or in a snapshot is always backed by the task's job, and that
  tasks about to be scheduled have all dependencies backed. `RetryJob` and late
  reports do not disturb it, because no step leads out of a job's SUCCEEDED.
  With `NoRetries(Budget)`, `VerdictsStay`: FAILED, too, is backed by a job
  (`FailureIsBacked`), so two verdicts cannot differ, and only a workflow that
  was never started is still to be set to RUNNING (`StartIsFirst`). From the same
  invariant `EngineImplementsWorkflow`: what a goroutine writes on the strength
  of an old snapshot is true of the jobs when it writes. With `NoFaults(Budget)`,
  where the API process does not crash and no store call fails (cancellations and
  retries stay), `NothingIsUnsent`: only the goroutine that created a job will
  enqueue it, so what is not in Redis is in that one's hands. `SentInv` adds that a
  RUNNING task has a job and that a goroutine carries one through the calls in
  between (`CarriesJob`). If the graph is acyclic, as `KahnIsRight` says accepted
  requests are, `WorkflowIsNeverStuck` follows: a workflow without failed or
  cancelled tasks is done, or has a task to schedule or a job on its way. It is the
  half of `WorkflowSettles` that needs no fairness.
* `SubmissionProofs`: `SubmissionTyped`, `OneJobPerKey`, `OneEntryPerKey`,
  `RacesStrandNothing`, `RacesBreakNothing`. The invariant: one row per key, one
  call that may enqueue or answer 201 for a row, and every other call with the
  key in hand has the winner's row.
* `MigrationsProofs`: `MigrationsTyped`, `CompleteWhenServing`,
  `AppliedAheadByOne`, `RacesWedgeNothing`. What a process has passed is recorded
  (`PastIsRecorded`), so it applies a file only on top of a recorded prefix.
* `DAGValidationProofs`: `DAGValidationTyped`, `KahnIsRight`. The invariant:
  a task's in-degree counts its entries that name tasks not yet visited
  (`KahnInv`), and no set of tasks each of which waits for one of the set has
  a visited one.
* `RetryTimingProofs`: `RetryTimingTyped`, `RetriesAreServed`,
  `EveryBackoffHasItsWindow`. The invariant weighs the jobs due before one against
  the polls that are left until its deadline. That neither the cut-off of the
  exponent nor an overflow ever shows (`CutOffIsHidden`) needs 2^n to grow with n,
  which `PowerGrows` gets without an induction: 2^n counts the subsets of 1..n.

Model-checked only: all liveness properties (`EveryJobSettles`,
`WorkflowSettles`, `PassedOverForNewer`,
`SomebodyServes`; fairness and ENABLED are out of the prover's reach);
`TypeOK` of `WorkflowPolling`, whose property worth a theorem,
`PassedOverForNewer`, is a liveness property.

## What is not modelled, and why

* The Redis heartbeat key, metrics and the completed and failed counters: written,
  never read by the control.
* Named queues other than `default`: no binary calls `SetQueueName`.
* The semaphore and wait group of a worker and its sleep on an empty queue: each
  slot is an actor, and `Stop` waits for all of them. The handlers' bodies: what a
  handler returns is open.
* Priority and run_at order within the claim that needs no Redis (`JobTable!Claim`
  takes any eligible row; no process calls it).
* The catalog races of DDL that two processes run at the same moment: a statement
  that fails for that is one of the faults of `Migrations`.
* API restarts that happen to split a job's two calls do lose jobs
  (`CreateJob` between INSERT and ZADD, see the hazards); `NoJobIsLost` is
  therefore checked under worker faults, which is what the documents speak of.
* The middleware and routes, read-only endpoints, configuration, the HTTP
  server's shutdown and the dashboard: no state of the engine changes there.

## Plan

Done: all modules above with their runs and theorems. Left, in this order:

1. `WorkerProcess`: semaphore, wait group, drain and the three loops of one
   worker, refined to `JobEngine`'s slots.
2. `NoJobIsLost` with crashes in every attempt, once acks name the lease they
   drop: today the code has the counterexample above.
3. The safety facts behind `PassedOverForNewer` as theorems: a workflow that is not
   stuck comes closer to the page with every newer one that ends.
